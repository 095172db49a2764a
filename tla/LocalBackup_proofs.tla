------------------------- MODULE LocalBackup_proofs -------------------------
(***************************************************************************)
(* Proofs about LocalBackup, for every set of processes, profiles, names   *)
(* and faults and every bound of the clock; and about its compositions,    *)
(* with the remote run that shares its directory (RemoteBackup) and with   *)
(* the host that pulls from it (PullSystem).                               *)
(***************************************************************************)
EXTENDS RemoteBackup, PullSystem, Archives_proofs

-----------------------------------------------------------------------------
PreOpen == {"stat", "mkdir", "restat", "open"}

\* A handler that is not orphaned writes to a file the directory lists, so that
\* closing it completes a listed archive.
HandleLinked ==
    \A p \in Procs : /\ handle[p] \in {"sole", "mixed"} => zip[p] \in files
                     /\ pc[p] \in PreOpen => handle[p] = "closed"

\* The type invariant, made inductive, with the finiteness cardinalities need.
Typed == TypeOK /\ HandleLinked /\ IsFiniteSet(files)

LEMMA TypedInit == Init => Typed
<1> SUFFICES ASSUME Init PROVE Typed
  OBVIOUS
<1>1. (CHOOSE q \in Profiles : TRUE) \in Profiles
  BY ProfilesAssumption
<1>2. files \subseteq File /\ IsFiniteSet(files)
  BY InitAssumption, FS_EmptySet DEF Init
<1> QED
  BY <1>1, <1>2, ClockAssumption, MaxClockAssumption, InitAssumption
  DEF Init, Typed, TypeOK, HandleLinked, PreOpen, Locations, Handles

LEMMA TypedNext == Typed /\ [Next]_vars => Typed'
<1> SUFFICES ASSUME Typed, [Next]_vars PROVE Typed'
  OBVIOUS
<1> USE DEF Typed, TypeOK, HandleLinked, PreOpen, Locations, Handles, Goto, Return, Die
<1>1. ASSUME NEW p \in Procs, NEW q \in Profiles, Begin(p, q) PROVE Typed'
  BY <1>1 DEF Begin
<1>2. ASSUME NEW p \in Procs, StatDest(p) PROVE Typed'
  BY <1>2 DEF StatDest
<1>3. ASSUME NEW p \in Procs, MkdirDest(p) PROVE Typed'
  BY <1>3 DEF MkdirDest
<1>4. ASSUME NEW p \in Procs, RestatDest(p) PROVE Typed'
  BY <1>4 DEF RestatDest
<1>5. ASSUME NEW p \in Procs, OpenZip(p) PROVE Typed'
  <2> DEFINE f == getZipName(prof[p])
  <2>1. f \in File
    BY ProfilesAssumption DEF getZipName, File
  <2>2. IsFiniteSet(files \cup {f})
    BY FS_AddElement
  <2>3. IsFiniteSet(files')
    BY <1>5, <2>2 DEF OpenZip
  <2>4. Items[prof[p]] \in Nat
    BY ProfilesAssumption
  <2> HIDE DEF f
  <2>5. /\ files' \subseteq File /\ good' \subseteq files'
        /\ zip' \in [Procs -> File \cup {NoFile}]
        /\ handle' \in [Procs -> Handles]
    BY <1>5, <2>1 DEF OpenZip, f
  <2>6. HandleLinked'
    BY <1>5, <2>1 DEF OpenZip, WritersOf, f
  <2> QED
    BY <1>5, <2>3, <2>4, <2>5, <2>6 DEF OpenZip
<1>6. ASSUME NEW p \in Procs, CopyItem(p) PROVE Typed'
  BY <1>6, ProfilesAssumption DEF CopyItem, CopyDir, CopyDb, ItemAdded
<1>7. ASSUME NEW p \in Procs, CloseZip(p) PROVE Typed'
  <2>1. good' \subseteq files'
    BY <1>7 DEF CloseZip
  <2> QED
    BY <1>7, <2>1 DEF CloseZip, AfterClose, AfterChown
<1>8. ASSUME NEW p \in Procs, DelZip(p) PROVE Typed'
  <2>1. IsFiniteSet(files')
    BY <1>8, FS_RemoveElement DEF DelZip, Unlink
  <2> QED
    BY <1>8, <2>1 DEF DelZip, Unlink
<1>9. ASSUME NEW p \in Procs, Chown(p) PROVE Typed'
  BY <1>9 DEF Chown, AfterChown
<1>10. ASSUME NEW p \in Procs, Chmod(p) PROVE Typed'
  BY <1>10 DEF Chmod
<1>11. ASSUME NEW p \in Procs, ListOld(p) PROVE Typed'
  <2>1. ASSUME NEW seen \in Listings, NEW n, NEW k
        PROVE  findToDelete(seen, n, k) \in SUBSET File
    BY DEF findToDelete, Listings
  <2>2. todel' \in [Procs -> SUBSET File]
    BY <1>11, <2>1 DEF ListOld
  <2> QED
    BY <1>11, <2>2 DEF ListOld
<1>12. ASSUME NEW p \in Procs, RemoveOld(p) PROVE Typed'
  <2>1. IsFiniteSet(files')
    BY <1>12, FS_RemoveElement DEF RemoveOld, Unlink
  <2> QED
    BY <1>12, <2>1 DEF RemoveOld, Unlink
<1>13. ASSUME NEW p \in Procs, Crash(p) PROVE Typed'
  BY <1>13 DEF Crash
<1>14. CASE Tick
  BY <1>14, ClockAssumption, MaxClockAssumption DEF Tick
<1>15. CASE SetClockBack
  BY <1>15, ClockAssumption, MaxClockAssumption DEF SetClockBack
<1>16. CASE UNCHANGED vars
  BY <1>16 DEF vars
<1> QED
  BY <1>1, <1>2, <1>3, <1>4, <1>5, <1>6, <1>7, <1>8, <1>9, <1>10, <1>11,
     <1>12, <1>13, <1>14, <1>15, <1>16 DEF Next, RunStep

\* Whatever fails and whoever else runs, the state stays well-typed: in
\* particular every complete archive is one that the directory lists.
THEOREM TypeCorrect == Spec => []TypeOK
<1>1. Spec => []Typed
  BY TypedInit, TypedNext, PTL DEF Spec
<1> QED
  BY <1>1, PTL DEF Typed

-----------------------------------------------------------------------------
\* The inductive invariant, one part per fact about a process.

Holding == {"copy", "delzip", "chown", "chmod", "list", "remove"}
Written == {"chown", "chmod", "list", "remove"}
Done(p) == pc[p] = "idle" /\ result[p] = "ok"
Own(p) == {f \in files : f.name = NameOf[prof[p]]}

\* The run is of one of the process's own profiles.
Owned(p) == pc[p] # "idle" \/ Done(p) => prof[p] \in RunsOf[p]

\* Up to zip.New the clock is past the stamps of the name's archives, so that
\* getZipName will give a new name.
FreshStamp(p) == pc[p] \in PreOpen => \A f \in Own(p) : f.stamp < clock

\* From zip.New on, destZip is the newest archive of its name.
ZipNewest(p) ==
    pc[p] \in Holding \/ Done(p) =>
      /\ zip[p] \in File
      /\ zip[p].name = NameOf[prof[p]]
      /\ \A f \in Own(p) : f.stamp <= zip[p].stamp

\* An archive being written is only ours, and not complete.
Writing(p) ==
    /\ pc[p] = "copy" => zip[p] \in files /\ handle[p] = "sole"
    /\ pc[p] \in {"copy", "delzip"} => zip[p] \notin good

\* Once Close has written it, the archive is complete and stays.
ArchiveKept(p) ==
    "close" \notin Faults /\ (pc[p] \in Written \/ Done(p)) => zip[p] \in good

\* Everything filesToDelete still holds has Keep newer archives.
Purging(p) ==
    pc[p] = "remove" =>
      /\ todel[p] \subseteq Own(p)
      /\ Keep[prof[p]] > 0
      /\ \A f \in todel[p] : Cardinality({g \in files : Newer(g, f)}) >= Keep[prof[p]]

\* What filesToDelete leaves is within the bound, during the purge and after.
Retained(p) ==
    "glob" \notin Faults =>
      /\ pc[p] = "remove" => Cardinality(Own(p) \ todel[p]) <= Keep[prof[p]]
      /\ Done(p) /\ Keep[prof[p]] > 0 => Cardinality(Own(p)) <= Keep[prof[p]]

PInv(p) ==
    /\ Owned(p)
    /\ FreshStamp(p)
    /\ ZipNewest(p)
    /\ Writing(p)
    /\ ArchiveKept(p)
    /\ Purging(p)
    /\ Retained(p)

IInv == Typed /\ \A p \in Procs : PInv(p)

\* A step of process p, or the start of one of its runs.
ProcStep(p) == RunStep(p) \/ Crash(p) \/ \E q \in Profiles : Begin(p, q)

\* What a step of another process leaves alone: the locals of r, its handler
\* and the archives of its name.
Frame(r) ==
    /\ pc'[r] = pc[r] /\ prof'[r] = prof[r] /\ zip'[r] = zip[r]
    /\ todel'[r] = todel[r] /\ result'[r] = result[r] /\ clock' = clock
    /\ pc[r] \in Holding => handle'[r] = handle[r]
    /\ \A f : f.name = NameOf[prof[r]] =>
         (f \in files' <=> f \in files) /\ (f \in good' <=> f \in good)

\* Processes whose profiles have different names do not disturb each other.
LEMMA NonInterference ==
    ASSUME OperatingRule, IInv, NEW p \in Procs, NEW r \in Procs, p # r, ProcStep(p),
           pc[r] # "idle" \/ Done(r)
    PROVE  Frame(r)
<1> USE DEF Frame, TypeOK, Goto, Return, Die
<1>1. TypeOK /\ PInv(p) /\ PInv(r) /\ prof[r] \in RunsOf[r]
  BY DEF IInv, PInv, Owned, Typed
<1>2. pc[p] # "idle" => NameOf[prof[p]] # NameOf[prof[r]]
  BY <1>1 DEF OperatingRule, SeparateNames, PInv, Owned
<1>3. /\ pc[r] \in Holding => zip[r].name = NameOf[prof[r]]
      /\ pc[p] \in Holding => zip[p].name = NameOf[prof[p]]
  BY <1>1 DEF PInv, ZipNewest
<1>4. ASSUME NEW q \in Profiles, Begin(p, q) PROVE Frame(r)
  BY <1>1, <1>4 DEF Begin
<1>5. CASE StatDest(p) \/ MkdirDest(p) \/ RestatDest(p) \/ CopyItem(p) \/ Chown(p)
           \/ Chmod(p) \/ Crash(p)
  BY <1>1, <1>5 DEF StatDest, MkdirDest, RestatDest, CopyItem, CopyDir,
          CopyDb, ItemAdded, Chown, Chmod, Crash
<1>6. CASE OpenZip(p)
  <2> DEFINE f == getZipName(prof[p])
  <2>1. f.name = NameOf[prof[p]] /\ f.name # NameOf[prof[r]]
    BY <1>2, <1>6 DEF getZipName, OpenZip
  <2>2. pc[r] \in Holding => r \notin WritersOf(f, p)
    BY <1>3, <2>1 DEF WritersOf
  <2> HIDE DEF f
  <2> QED
    BY <1>1, <1>6, <2>1, <2>2 DEF OpenZip, f
<1>7. CASE CloseZip(p)
  BY <1>1, <1>2, <1>3, <1>7 DEF CloseZip, Holding
<1>8. CASE DelZip(p)
  BY <1>1, <1>2, <1>3, <1>8 DEF DelZip, Unlink, Holding
<1>9. CASE ListOld(p)
  BY <1>1, <1>9 DEF ListOld
<1>10. CASE RemoveOld(p)
  <2>1. \A f \in todel[p] : f.name # NameOf[prof[r]]
    BY <1>1, <1>2, <1>10 DEF RemoveOld, PInv, Purging, Own
  <2> QED
    BY <1>1, <1>3, <1>10, <2>1 DEF RemoveOld, Unlink
<1> QED
  BY <1>4, <1>5, <1>6, <1>7, <1>8, <1>9, <1>10 DEF ProcStep, RunStep

LEMMA FrameKeepsPInv ==
    ASSUME Typed, Typed', NEW r \in Procs, PInv(r), Frame(r)
    PROVE  PInv(r)'
<1>1. Own(r)' = Own(r)
  BY DEF Own, Frame, Typed, TypeOK
<1>2. ASSUME pc[r] = "remove", NEW f \in todel[r]
      PROVE  {g \in files' : Newer(g, f)} = {g \in files : Newer(g, f)}
  BY <1>2 DEF Frame, PInv, Purging, Own, Newer
<1>3. Owned(r)' /\ FreshStamp(r)'
  BY <1>1 DEF PInv, Owned, FreshStamp, Frame, Done, PreOpen
<1>4. ZipNewest(r)'
  BY <1>1 DEF PInv, ZipNewest, Frame, Done
<1>5. Writing(r)' /\ ArchiveKept(r)'
  BY DEF PInv, Writing, ArchiveKept, ZipNewest, Frame, Done, Holding, Written
<1>6. Purging(r)'
  BY <1>1, <1>2 DEF PInv, Purging, Frame
<1>7. Retained(r)'
  BY <1>1 DEF PInv, Retained, Frame, Done
<1> QED
  BY <1>3, <1>4, <1>5, <1>6, <1>7 DEF PInv

\* A process at rest whose last run did not succeed promises nothing.
LEMMA RestingInv ==
    ASSUME NEW p \in Procs, pc[p] = "idle", result[p] # "ok"
    PROVE  PInv(p)
BY DEF PInv, Owned, FreshStamp, ZipNewest, Writing, ArchiveKept, Purging, Retained,
       Done, PreOpen, Holding, Written

\* ExpurgeDir selects: what it will delete has Keep newer archives, and what it
\* will leave is within the bound.
LEMMA ListOldStep ==
    ASSUME OperatingRule, IInv, Typed', NEW p \in Procs, ListOld(p) PROVE PInv(p)'
<1> USE DEF Goto, Return, Die
<1> DEFINE n == NameOf[prof[p]]
           k == Keep[prof[p]]
<1>1. PInv(p) /\ TypeOK /\ IsFiniteSet(files) /\ pc[p] = "list"
  BY DEF IInv, Typed, ListOld
<1>2. n \in Names /\ k \in Int /\ prof[p] \in Profiles
  BY <1>1, ProfilesAssumption DEF TypeOK
<1>3. ASSUME result'[p] # "ok", pc'[p] = "idle" PROVE PInv(p)'
  BY <1>3 DEF PInv, Owned, FreshStamp, ZipNewest, Writing, ArchiveKept, Purging,
              Retained, Done, PreOpen, Holding, Written
<1>4. ASSUME pc'[p] \in {"idle", "remove"} PROVE
        /\ Owned(p)' /\ FreshStamp(p)' /\ ZipNewest(p)' /\ Writing(p)' /\ ArchiveKept(p)'
  BY <1>1, <1>4 DEF PInv, Owned, FreshStamp, ZipNewest, Writing, ArchiveKept, Own,
                    ListOld, PreOpen, Holding, Written, TypeOK
<1>5. CASE k <= 0 /\ Return(p, "ok") /\ UNCHANGED <<handle, todel>>
  <2>1. pc'[p] = "idle" /\ ~(k > 0) /\ prof' = prof
    BY <1>1, <1>2, <1>5 DEF TypeOK, ListOld
  <2>2. Purging(p)' /\ Retained(p)'
    BY <2>1 DEF Purging, Retained
  <2> QED
    BY <1>4, <2>1, <2>2 DEF PInv
<1>6. CASE pc' = [pc EXCEPT ![p] = "idle"] /\ result'[p] # "ok"
  BY <1>1, <1>3, <1>6 DEF TypeOK
<1>7. ASSUME k > 0,
             NEW seen \in Listings, todel' = [todel EXCEPT ![p] = findToDelete(seen, n, k)],
             IF todel'[p] = {} THEN Return(p, "ok") ELSE Goto(p, "remove")
      PROVE  PInv(p)'
  <2> DEFINE D == findToDelete(seen, n, k)
  <2>1. seen \in SUBSET files /\ ("glob" \notin Faults => seen = files)
    BY DEF Listings, MayFail
  <2>2. files \in SUBSET File
    BY <1>1 DEF TypeOK
  <2>3. k \in Nat \ {0}
    BY <1>2, <1>7
  <2>4. /\ D \subseteq {f \in files : f.name = n}
        /\ \A f \in D : Cardinality({g \in files : Newer(g, f)}) >= k
        /\ seen = files => Cardinality({f \in files : f.name = n} \ D) <= k
    <3> HIDE DEF n, k
    <3> QED BY <1>1, <1>2, <2>1, <2>2, <2>3, FindToDelete DEF OperatingRule
  <2>5. todel'[p] = D /\ files' = files /\ prof' = prof
    BY <1>1, <1>7 DEF TypeOK, ListOld
  <2>6. Own(p)' = {f \in files : f.name = n}
    BY <2>5 DEF Own
  <2>7. pc'[p] = IF D = {} THEN "idle" ELSE "remove"
    BY <1>1, <1>7, <2>5 DEF TypeOK
  <2> HIDE DEF D
  <2>8. Purging(p)'
    BY <1>7, <2>4, <2>5, <2>6 DEF Purging
  <2>9. D = {} => {f \in files : f.name = n} \ D = {f \in files : f.name = n}
    OBVIOUS
  <2>10. Retained(p)'
    BY <2>1, <2>4, <2>5, <2>6, <2>7, <2>9 DEF Retained, Done
  <2> QED
    BY <1>4, <2>7, <2>8, <2>10 DEF PInv
<1> QED
  BY <1>1, <1>2, <1>5, <1>6, <1>7 DEF ListOld, TypeOK

\* ExpurgeDir deletes the oldest: the rest keeps its newer archives, and the
\* archive of the run is not among what is deleted.
LEMMA RemoveOldStep ==
    ASSUME OperatingRule, IInv, Typed', NEW p \in Procs, RemoveOld(p) PROVE PInv(p)'
<1> USE DEF Goto, Return
<1>1. PInv(p) /\ TypeOK /\ IsFiniteSet(files) /\ pc[p] = "remove"
  BY DEF IInv, Typed, RemoveOld
<1>2. ASSUME result'[p] # "ok", pc'[p] = "idle" PROVE PInv(p)'
  BY <1>2 DEF PInv, Owned, FreshStamp, ZipNewest, Writing, ArchiveKept, Purging,
              Retained, Done, PreOpen, Holding, Written
<1>3. PICK f \in todel[p] :
        /\ \A g \in todel[p] \ {f} : Before(f, g)
        /\ \/ /\ f \in files
              /\ Unlink(f)
              /\ todel' = [todel EXCEPT ![p] = @ \ {f}]
              /\ IF todel'[p] = {} THEN Return(p, "ok") ELSE Goto(p, "remove")
           \/ Return(p, "failed")
  BY DEF RemoveOld, IsFirst
<1>4. CASE Return(p, "failed")
  BY <1>1, <1>2, <1>4 DEF TypeOK
<1>5. CASE /\ f \in files
           /\ Unlink(f)
           /\ todel' = [todel EXCEPT ![p] = @ \ {f}]
           /\ IF todel'[p] = {} THEN Return(p, "ok") ELSE Goto(p, "remove")
  <2>1. /\ files' = files \ {f} /\ good' = good \ {f} /\ zip' = zip /\ prof' = prof
        /\ todel'[p] = todel[p] \ {f}
        /\ pc'[p] = IF todel[p] \ {f} = {} THEN "idle" ELSE "remove"
    BY <1>1, <1>5 DEF Unlink, TypeOK, RemoveOld
  <2>2. /\ todel[p] \subseteq Own(p) /\ Keep[prof[p]] > 0 /\ Keep[prof[p]] \in Int
        /\ \A g \in todel[p] : Cardinality({h \in files : Newer(h, g)}) >= Keep[prof[p]]
    BY <1>1, ProfilesAssumption DEF PInv, Purging, TypeOK
  <2>3. f # zip[p]
    <3>1. {h \in files : Newer(h, f)} # {}
      BY <2>2, FS_EmptySet
    <3>2. PICK h \in files : Newer(h, f)
      BY <3>1
    <3>3. h \in Own(p) /\ f \in Own(p) /\ h \in File /\ f \in File
      BY <1>1, <2>2, <3>2 DEF Own, Newer, TypeOK
    <3>4. h.stamp <= zip[p].stamp
      BY <1>1, <3>3 DEF PInv, ZipNewest, Holding
    <3> QED
      BY <3>2, <3>3, <3>4, ClockAssumption, MaxClockAssumption DEF Newer, File
  <2>4. Own(p)' = Own(p) \ {f}
    BY <2>1 DEF Own
  <2>5. Owned(p)' /\ FreshStamp(p)' /\ ZipNewest(p)' /\ Writing(p)' /\ ArchiveKept(p)'
    BY <1>1, <2>1, <2>3, <2>4 DEF PInv, Owned, FreshStamp, ZipNewest, Writing, ArchiveKept,
                                  PreOpen, Holding, Written
  <2>6. Purging(p)'
    <3>1. ASSUME NEW g \in todel[p] \ {f}
          PROVE  {h \in files' : Newer(h, g)} = {h \in files : Newer(h, g)}
      <4>1. g \in File /\ f \in File /\ g.name = f.name
        BY <1>1, <2>2, <3>1 DEF Own, TypeOK
      <4>2. f.stamp < g.stamp
        BY <1>3, <3>1, <4>1, NamesAssumption DEF Before, File
      <4>3. ~Newer(f, g)
        BY <4>1, <4>2, ClockAssumption, MaxClockAssumption DEF Newer, File
      <4> QED
        BY <2>1, <4>3
    <3> QED
      BY <2>1, <2>2, <2>4, <3>1 DEF Purging
  <2>7. Own(p)' \ todel'[p] = Own(p) \ todel[p]
    BY <1>3, <2>1, <2>4
  <2>8. todel'[p] = {} => Own(p)' = Own(p) \ todel[p]
    BY <2>7
  <2>9. Retained(p)'
    BY <1>1, <2>1, <2>7, <2>8 DEF PInv, Retained, Done
  <2> QED
    BY <2>5, <2>6, <2>9 DEF PInv
<1> QED
  BY <1>3, <1>4, <1>5

\* zip.New: the name is new, nobody else writes to it.
LEMMA OpenZipStep ==
    ASSUME OperatingRule, IInv, Typed', NEW p \in Procs, OpenZip(p) PROVE PInv(p)'
<1> USE DEF Goto
<1> DEFINE f == getZipName(prof[p])
<1>1. PInv(p) /\ TypeOK /\ pc[p] = "open" /\ prof[p] \in RunsOf[p]
  BY DEF IInv, Typed, OpenZip, PInv, Owned
<1>2. f \in File /\ f.name = NameOf[prof[p]] /\ f.stamp = clock
  BY <1>1, ProfilesAssumption DEF getZipName, File, TypeOK
<1> HIDE DEF f
<1>3. f \notin files /\ \A g \in Own(p) : g.stamp < clock
  BY <1>1, <1>2 DEF PInv, FreshStamp, Own, PreOpen, File, TypeOK
<1>4. WritersOf(f, p) = {}
  <2> SUFFICES ASSUME NEW r \in WritersOf(f, p) PROVE FALSE
    OBVIOUS
  <2>1. r \in Procs /\ r # p /\ pc[r] = "copy" /\ zip[r] = f /\ PInv(r)
    BY DEF WritersOf, IInv
  <2>2. zip[r] \in files
    BY <2>1 DEF PInv, Writing
  <2> QED
    BY <1>3, <2>1, <2>2
<1>5. /\ prof' = prof /\ clock' = clock /\ zip'[p] = f /\ pc'[p] \in {"copy", "delzip"}
      /\ good' \subseteq files \ {f} /\ files' \subseteq files \cup {f}
      /\ pc'[p] = "copy" => f \in files' /\ handle'[p] = "sole"
  BY <1>1, <1>3, <1>4 DEF OpenZip, TypeOK, f
<1>6. Owned(p)' /\ FreshStamp(p)' /\ ArchiveKept(p)' /\ Purging(p)' /\ Retained(p)'
  BY <1>1, <1>5 DEF Owned, FreshStamp, ArchiveKept, Purging, Retained, Done, PreOpen, Written
<1>7. ZipNewest(p)'
  <2>1. \A g \in Own(p)' : g \in Own(p) \/ g = f
    BY <1>5 DEF Own
  <2>2. \A g \in Own(p) : g.stamp \in Nat
    BY <1>1, ClockAssumption, MaxClockAssumption DEF Own, TypeOK, File
  <2> QED
    BY <1>1, <1>2, <1>3, <1>5, <2>1, <2>2, ClockAssumption, MaxClockAssumption
    DEF ZipNewest, TypeOK
<1>8. Writing(p)'
  BY <1>5 DEF Writing
<1> QED
  BY <1>6, <1>7, <1>8 DEF PInv

\* The steps of a process keep what the invariant says of it.
LEMMA OwnStep ==
    ASSUME OperatingRule, IInv, Typed', NEW p \in Procs, ProcStep(p) PROVE PInv(p)'
<1> USE DEF Goto, Return, Die
<1>1. PInv(p) /\ TypeOK
  BY DEF IInv, Typed
<1>2. ASSUME pc'[p] = "idle", result'[p] # "ok" PROVE PInv(p)'
  BY <1>2 DEF PInv, Owned, FreshStamp, ZipNewest, Writing, ArchiveKept, Purging,
              Retained, Done, PreOpen, Holding, Written
<1>3. ASSUME NEW q \in Profiles, Begin(p, q) PROVE PInv(p)'
  <2>1. /\ pc'[p] = "stat" /\ prof'[p] = q /\ q \in RunsOf[p] /\ files' = files
        /\ clock' = clock /\ \A f \in files : f.name = NameOf[q] => f.stamp < clock
    BY <1>1, <1>3 DEF Begin, TypeOK, OperatingRule
  <2> QED
    BY <2>1 DEF PInv, Owned, FreshStamp, ZipNewest, Writing, ArchiveKept, Purging, Retained,
                Done, Own, PreOpen, Holding, Written
<1>4. ASSUME pc[p] \in PreOpen, pc'[p] \in PreOpen,
             UNCHANGED <<files, clock, prof>>
      PROVE  PInv(p)'
  BY <1>1, <1>4 DEF PInv, Owned, FreshStamp, ZipNewest, Writing, ArchiveKept, Purging,
                    Retained, Done, Own, PreOpen, Holding, Written
<1>5. CASE StatDest(p) \/ MkdirDest(p) \/ RestatDest(p)
  <2>1. UNCHANGED <<files, clock, prof>> /\ pc[p] \in PreOpen
    BY <1>5 DEF StatDest, MkdirDest, RestatDest, PreOpen
  <2>2. pc'[p] \in PreOpen \/ (pc'[p] = "idle" /\ result'[p] # "ok")
    BY <1>1, <1>5 DEF StatDest, MkdirDest, RestatDest, PreOpen, TypeOK
  <2> QED
    BY <1>2, <1>4, <2>1, <2>2
<1>6. CASE CopyItem(p)
  <2>1. \/ pc'[p] = "idle" /\ result'[p] # "ok"
        \/ pc'[p] \in {"copy", "delzip"} /\ handle'[p] = handle[p]
    BY <1>1, <1>6 DEF CopyItem, CopyDir, CopyDb, ItemAdded, TypeOK
  <2>2. pc[p] = "copy" /\ UNCHANGED <<files, good, prof, zip>>
    BY <1>6 DEF CopyItem, CopyDir, CopyDb, ItemAdded
  <2> QED
    BY <1>1, <1>2, <2>1, <2>2
    DEF PInv, Owned, FreshStamp, ZipNewest, Writing, ArchiveKept, Purging, Retained,
        Done, Own, PreOpen, Holding, Written
<1>7. CASE CloseZip(p)
  <2>1. /\ pc[p] = "copy" /\ pc'[p] \in {"chown", "chmod", "list"}
        /\ UNCHANGED <<files, prof, zip>>
        /\ "close" \notin Faults => zip[p] \in good'
    BY <1>1, <1>7 DEF CloseZip, AfterClose, AfterChown, TypeOK, PInv, Writing, MayFail
  <2> QED
    BY <1>1, <2>1
    DEF PInv, Owned, FreshStamp, ZipNewest, Writing, ArchiveKept, Purging, Retained,
        Done, Own, PreOpen, Holding, Written
<1>8. CASE DelZip(p) \/ Crash(p)
  BY <1>1, <1>2, <1>8 DEF DelZip, Crash, TypeOK
<1>9. CASE Chown(p) \/ Chmod(p)
  <2>1. /\ pc[p] \in {"chown", "chmod"} /\ UNCHANGED <<files, good, prof, zip>>
        /\ pc'[p] \in {"chmod", "list"} \/ (pc'[p] = "idle" /\ result'[p] # "ok")
    BY <1>1, <1>9 DEF Chown, Chmod, AfterChown, TypeOK
  <2> QED
    BY <1>1, <1>2, <2>1
    DEF PInv, Owned, FreshStamp, ZipNewest, Writing, ArchiveKept, Purging, Retained,
        Done, Own, PreOpen, Holding, Written
<1> QED
  BY <1>3, <1>5, <1>6, <1>7, <1>8, <1>9, OpenZipStep, ListOldStep, RemoveOldStep
  DEF ProcStep, RunStep

LEMMA IInvInit == Init => IInv
<1> SUFFICES ASSUME Init PROVE IInv
  OBVIOUS
<1>1. \A p \in Procs : PInv(p)
  BY RestingInv DEF Init
<1> QED
  BY <1>1, TypedInit DEF IInv

LEMMA IInvNext == ASSUME OperatingRule PROVE IInv /\ [Next]_vars => IInv'
<1> SUFFICES ASSUME IInv, [Next]_vars PROVE IInv'
  OBVIOUS
<1>1. Typed /\ Typed'
  BY TypedNext DEF IInv
<1>2. ASSUME NEW p \in Procs, ProcStep(p), NEW r \in Procs PROVE PInv(r)'
  <2>1. CASE r = p
    BY <1>1, <1>2, <2>1, OwnStep
  <2>2. CASE r # p /\ (pc[r] # "idle" \/ Done(r))
    BY <1>1, <1>2, <2>2, NonInterference, FrameKeepsPInv DEF IInv
  <2>3. CASE r # p /\ pc[r] = "idle" /\ ~Done(r)
    <3>1. pc'[r] = pc[r] /\ result'[r] = result[r]
      BY <1>1, <1>2, <2>3
      DEF ProcStep, RunStep, Begin, StatDest, MkdirDest, RestatDest, OpenZip, CopyItem,
          CopyDir, CopyDb, ItemAdded, CloseZip, DelZip, Chown, Chmod, ListOld,
          RemoveOld, Crash, Goto, Return, Die, Typed, TypeOK
    <3> QED
      BY <2>3, <3>1
      DEF PInv, Owned, FreshStamp, ZipNewest, Writing, ArchiveKept, Purging, Retained,
          Done, PreOpen, Holding, Written
  <2> QED
    BY <2>1, <2>2, <2>3
<1>3. CASE Tick
  <2> SUFFICES ASSUME NEW r \in Procs PROVE PInv(r)'
    BY <1>1 DEF IInv
  <2>1. /\ PInv(r) /\ clock' = clock + 1 /\ clock \in Nat
        /\ UNCHANGED <<files, good, pc, prof, zip, handle, todel, result>>
        /\ \A f \in files : f.stamp \in Nat
    BY <1>1, <1>3, ClockAssumption, MaxClockAssumption DEF Tick, IInv, Typed, TypeOK, File
  <2>2. FreshStamp(r)'
    BY <2>1 DEF PInv, FreshStamp, Own
  <2> QED
    BY <2>1, <2>2
    DEF PInv, Owned, ZipNewest, Writing, ArchiveKept, Purging, Retained, Done, Own
<1>4. CASE UNCHANGED vars
  <2> SUFFICES ASSUME NEW r \in Procs PROVE PInv(r)'
    BY <1>1 DEF IInv
  <2> QED
    BY <1>4 DEF IInv, PInv, Owned, FreshStamp, ZipNewest, Writing, ArchiveKept, Purging,
                Retained, Done, Own, vars
<1>5. CASE SetClockBack
  BY <1>5 DEF SetClockBack, OperatingRule
<1> QED
  BY <1>1, <1>2, <1>3, <1>4, <1>5 DEF Next, ProcStep, IInv

\* Under the operating rule the inductive invariant holds in every state.
THEOREM Invariance == OperatingRule => (Spec => []IInv)
<1> SUFFICES ASSUME OperatingRule PROVE Spec => []IInv
  OBVIOUS
<1> QED
  BY IInvInit, IInvNext, PTL DEF Spec

-----------------------------------------------------------------------------
\* Under the operating rule, if Close does not fail unnoticed, a run that
\* reports success has left a complete archive, and neither ExpurgeDir nor
\* another process nor a crash of one takes it away before the next run.
THEOREM SuccessfulRunLeavesArchive ==
    OperatingRule /\ "close" \notin Faults => (Spec => []SuccessHasArchive)
<1> SUFFICES ASSUME OperatingRule, "close" \notin Faults PROVE Spec => []SuccessHasArchive
  OBVIOUS
<1>1. IInv => SuccessHasArchive
  BY DEF IInv, PInv, ArchiveKept, SuccessHasArchive, Done
<1> QED
  BY <1>1, Invariance, PTL

\* Under the operating rule, if the listing of ExpurgeDir is complete, no more
\* than Keep archives of a profile are left after a run that reports success,
\* whatever failed or crashed before.
THEOREM RetentionIsBounded ==
    OperatingRule /\ "glob" \notin Faults => (Spec => []RetentionBound)
<1> SUFFICES ASSUME OperatingRule, "glob" \notin Faults PROVE Spec => []RetentionBound
  OBVIOUS
<1>1. IInv => RetentionBound
  BY DEF IInv, PInv, Retained, RetentionBound, Done, Own
<1> QED
  BY <1>1, Invariance, PTL

\* The steps that take a complete archive away are those of ExpurgeDir, on an
\* archive that filesToDelete names.
LEMMA OnlyPurgeDestroys ==
    ASSUME OperatingRule, IInv, [Next]_vars, NEW f \in good, f \notin good'
    PROVE  \E p \in Procs : /\ pc[p] = "remove" /\ RemoveOld(p) /\ f \in todel[p]
                            /\ files' = files \ {f} /\ good' = good \ {f}
<1>1. PICK p \in Procs : OpenZip(p) \/ DelZip(p) \/ RemoveOld(p)
  BY DEF Next, RunStep, vars, Begin, StatDest, MkdirDest, RestatDest, CopyItem,
         CopyDir, CopyDb, ItemAdded, CloseZip, Chown, Chmod, ListOld, Crash, Tick,
         SetClockBack
<1>2. PInv(p) /\ TypeOK
  BY DEF IInv, Typed
<1>3. ~OpenZip(p)
  <2> SUFFICES ASSUME OpenZip(p) PROVE FALSE
    OBVIOUS
  <2>1. f = getZipName(prof[p])
    BY DEF OpenZip
  <2>2. f \in Own(p) /\ f.stamp = clock /\ clock \in Nat
    BY <1>2, <2>1, ClockAssumption, MaxClockAssumption DEF getZipName, Own, TypeOK
  <2> QED
    BY <1>2, <2>2 DEF PInv, FreshStamp, OpenZip, PreOpen
<1>4. ~DelZip(p)
  BY <1>2 DEF DelZip, Unlink, PInv, Writing
<1> QED
  BY <1>1, <1>3, <1>4 DEF RemoveOld, Unlink

\* Under the operating rule no step destroys a complete archive unless Keep
\* newer archives of its profile remain, whatever fails.
THEOREM NewestAreKept == OperatingRule => (Spec => KeepsNewest)
<1> SUFFICES ASSUME OperatingRule PROVE Spec => KeepsNewest
  OBVIOUS
<1>1. ASSUME IInv, [Next]_vars, NEW f \in good \ good' PROVE Superseded(f, files')
  <2>1. PICK p \in Procs : /\ pc[p] = "remove" /\ f \in todel[p] /\ files' = files \ {f}
    BY <1>1, OnlyPurgeDestroys
  <2>2. /\ PInv(p) /\ prof[p] \in Profiles
    BY <1>1 DEF IInv, Typed, TypeOK
  <2>3. f \in Own(p) /\ Keep[prof[p]] > 0
        /\ Cardinality({g \in files : Newer(g, f)}) >= Keep[prof[p]]
    BY <2>1, <2>2 DEF PInv, Purging
  <2>4. f.stamp \in Nat
    BY <1>1, ClockAssumption, MaxClockAssumption DEF IInv, Typed, TypeOK, File
  <2>5. {g \in files' : Newer(g, f)} = {g \in files : Newer(g, f)}
    BY <2>1, <2>4 DEF Newer
  <2> QED
    BY <2>2, <2>3, <2>5 DEF Superseded, Own
<1>2. IInv /\ [Next]_vars => [\A f \in good \ good' : Superseded(f, files')]_vars
  BY <1>1
<1> QED
  BY <1>2, Invariance, PTL DEF Spec, KeepsNewest

-----------------------------------------------------------------------------
\* A step takes a complete archive away only while the profile has a newer
\* complete one, and completes only archives newer than those there are.
LEMMA StoreStep ==
    ASSUME OperatingRule, "close" \notin Faults, IInv, [Next]_vars
    PROVE  [Store!Next]_good
<1>1. CASE \E f \in good : f \notin good'
  <2>1. PICK f \in good : f \notin good'
    BY <1>1
  <2>2. PICK p \in Procs : pc[p] = "remove" /\ f \in todel[p] /\ good' = good \ {f}
    BY <2>1, OnlyPurgeDestroys
  <2>3. PInv(p) /\ TypeOK /\ prof[p] \in Profiles
    BY DEF IInv, Typed, TypeOK
  <2>4. PICK h \in files : Newer(h, f)
    <3>1. Cardinality({g \in files : Newer(g, f)}) >= Keep[prof[p]] /\ Keep[prof[p]] > 0
      BY <2>2, <2>3 DEF PInv, Purging
    <3>2. Keep[prof[p]] \in Int /\ Cardinality({}) = 0
      BY <2>3, FS_EmptySet, ProfilesAssumption
    <3>3. {g \in files : Newer(g, f)} # {}
      BY <3>1, <3>2
    <3> QED
      BY <3>3
  <2>5. f \in Own(p) /\ h \in Own(p) /\ h \in File /\ f \in File
    BY <2>2, <2>3, <2>4 DEF PInv, Purging, Own, Newer, TypeOK
  <2>6. /\ zip[p] \in good /\ zip[p].name = f.name /\ h.stamp <= zip[p].stamp
        /\ zip[p] \in File
    BY <2>2, <2>3, <2>5 DEF PInv, ArchiveKept, ZipNewest, Own, Holding, Written
  <2>7. Store!Newer(zip[p], f)
    BY <2>4, <2>5, <2>6, ClockAssumption, MaxClockAssumption DEF Store!Newer, Newer, File
  <2> QED
    BY <2>2, <2>5, <2>6, <2>7 DEF Store!Next, Store!Purge
<1>2. CASE good \subseteq good' /\ good' # good
  <2>1. PICK p \in Procs : CloseZip(p) /\ good' = good \cup {zip[p]}
    BY <1>2
    DEF Next, RunStep, vars, Begin, StatDest, MkdirDest, RestatDest, OpenZip, CopyItem,
        CopyDir, CopyDb, ItemAdded, CloseZip, DelZip, Unlink, Chown, Chmod,
        ListOld, RemoveOld, Crash, Tick, SetClockBack
  <2>2. PInv(p) /\ TypeOK /\ pc[p] = "copy"
    BY <2>1 DEF IInv, Typed, CloseZip
  <2>3. /\ zip[p] \in File /\ zip[p] \notin good
        /\ \A g \in good : g.name = zip[p].name => g.stamp <= zip[p].stamp
    BY <2>2 DEF PInv, ZipNewest, Writing, Own, Holding, TypeOK
  <2>4. ASSUME NEW g \in good, g.name = zip[p].name PROVE Store!Newer(zip[p], g)
    <3>1. g \in File /\ g # zip[p] /\ g.stamp <= zip[p].stamp
      BY <2>2, <2>3, <2>4 DEF TypeOK
    <3>2. g.stamp # zip[p].stamp
      BY <2>3, <2>4, <3>1 DEF File
    <3> QED
      BY <2>3, <2>4, <3>1, <3>2, ClockAssumption, MaxClockAssumption DEF Store!Newer, File
  <2> QED
    BY <2>1, <2>3, <2>4 DEF Store!Next, Store!Publish
<1> QED
  BY <1>1, <1>2

\* Under the operating rule, if Close does not fail unnoticed, the directory
\* implements the abstract store: a profile's newest complete archive is never
\* lost.
THEOREM ImplementsStore ==
    OperatingRule /\ "close" \notin Faults => (Spec => StoreSpec)
<1> SUFFICES ASSUME OperatingRule, "close" \notin Faults PROVE Spec => StoreSpec
  OBVIOUS
<1>1. Init => Store!Init
  BY TypedInit DEF Typed, TypeOK, Store!Init
<1> QED
  BY <1>1, StoreStep, Invariance, PTL DEF Spec, StoreSpec, Store!Spec

-----------------------------------------------------------------------------
\* Under the operating rule, where runs are not cut short and neither Close nor
\* os.Remove fails in delZipAndErr, no incomplete archive outlives its run.
THEOREM PartialsAreRemoved ==
    OperatingRule /\ Faults \cap AbruptFaults = {} => (Spec => []NoPartialLeft)
<1> SUFFICES ASSUME OperatingRule, Faults \cap AbruptFaults = {}
             PROVE  Spec => []NoPartialLeft
  OBVIOUS
<1>1. Init => NoPartialLeft
  BY DEF Init, NoPartialLeft
<1>2. ASSUME IInv, NoPartialLeft, [Next]_vars PROVE NoPartialLeft'
  <2> SUFFICES ASSUME NEW f \in files' \ good'
               PROVE  \E r \in Procs : zip'[r] = f /\ pc'[r] \in {"copy", "delzip"}
    BY DEF NoPartialLeft
  <2> USE DEF Goto, Return, Die
  <2>1. TypeOK /\ ~MayFail("panic") /\ ~MayFail("close") /\ ~MayFail("remove")
        /\ ~MayFail("crash")
    BY <1>2 DEF IInv, Typed, MayFail, AbruptFaults
  <2>2. ASSUME f \in files \ good, NEW p \in Procs,
               pc[p] \in {"copy", "delzip"} => zip[p] # f \/ pc'[p] \in {"copy", "delzip"},
               \A r \in Procs \ {p} : pc'[r] = pc[r] /\ zip'[r] = zip[r],
               pc[p] \in {"copy", "delzip"} => zip'[p] = zip[p]
        PROVE  \E r \in Procs : zip'[r] = f /\ pc'[r] \in {"copy", "delzip"}
    <3>1. PICK r \in Procs : zip[r] = f /\ pc[r] \in {"copy", "delzip"}
      BY <1>2, <2>2 DEF NoPartialLeft
    <3> QED
      BY <2>2, <3>1
  <2>3. ASSUME NEW p \in Procs, NEW q \in Profiles, Begin(p, q)
        PROVE  \E r \in Procs : zip'[r] = f /\ pc'[r] \in {"copy", "delzip"}
    BY <2>1, <2>2, <2>3 DEF Begin, TypeOK
  <2>4. ASSUME NEW p \in Procs,
               StatDest(p) \/ MkdirDest(p) \/ RestatDest(p) \/ CopyItem(p) \/ Chown(p)
                 \/ Chmod(p) \/ ListOld(p)
        PROVE  \E r \in Procs : zip'[r] = f /\ pc'[r] \in {"copy", "delzip"}
    BY <2>1, <2>2, <2>4 DEF StatDest, MkdirDest, RestatDest, CopyItem,
          CopyDir, CopyDb, ItemAdded, Chown, Chmod, ListOld, TypeOK
  <2>5. ASSUME NEW p \in Procs, OpenZip(p)
        PROVE  \E r \in Procs : zip'[r] = f /\ pc'[r] \in {"copy", "delzip"}
    <3>1. zip'[p] = getZipName(prof[p]) /\ pc'[p] \in {"copy", "delzip"}
      BY <2>1, <2>5 DEF OpenZip, TypeOK
    <3>2. CASE f = getZipName(prof[p])
      BY <3>1, <3>2
    <3>3. CASE f # getZipName(prof[p])
      <4>1. f \in files \ good
        BY <2>5, <3>3 DEF OpenZip
      <4> QED
        BY <2>1, <2>2, <2>5, <4>1 DEF OpenZip, TypeOK
    <3> QED
      BY <3>2, <3>3
  <2>6. ASSUME NEW p \in Procs, CloseZip(p)
        PROVE  \E r \in Procs : zip'[r] = f /\ pc'[r] \in {"copy", "delzip"}
    <3>1. good' = good \cup {zip[p]} /\ files' = files
      BY <1>2, <2>1, <2>6 DEF CloseZip, IInv, PInv, Writing
    <3> QED
      BY <2>1, <2>2, <2>6, <3>1 DEF CloseZip, TypeOK
  <2>7. ASSUME NEW p \in Procs, DelZip(p)
        PROVE  \E r \in Procs : zip'[r] = f /\ pc'[r] \in {"copy", "delzip"}
    <3>1. f \in files \ good /\ f # zip[p]
      BY <2>1, <2>7 DEF DelZip, Unlink
    <3> QED
      BY <2>1, <2>2, <2>7, <3>1 DEF DelZip, TypeOK
  <2>8. ASSUME NEW p \in Procs, RemoveOld(p)
        PROVE  \E r \in Procs : zip'[r] = f /\ pc'[r] \in {"copy", "delzip"}
    <3>1. f \in files \ good
      BY <2>8 DEF RemoveOld, Unlink
    <3> QED
      BY <2>1, <2>2, <2>8, <3>1 DEF RemoveOld, TypeOK
  <2>9. CASE UNCHANGED <<files, good, pc, zip>>
    BY <1>2, <2>9 DEF NoPartialLeft
  <2> QED
    BY <1>2, <2>1, <2>3, <2>4, <2>5, <2>6, <2>7, <2>8, <2>9
    DEF Next, RunStep, Crash, Tick, SetClockBack, vars
<1> QED
  BY <1>1, <1>2, Invariance, PTL DEF Spec

\* Under the same conditions the Keep newer archives that remain are complete.
THEOREM NewestUsableAreKept ==
    OperatingRule /\ Faults \cap AbruptFaults = {} => (Spec => KeepsNewestUsable)
<1> SUFFICES ASSUME OperatingRule, Faults \cap AbruptFaults = {}
             PROVE  Spec => KeepsNewestUsable
  OBVIOUS
<1>1. ASSUME IInv, NoPartialLeft, [Next]_vars, NEW f \in good \ good'
      PROVE  Superseded(f, good')
  <2>1. PICK p \in Procs : /\ pc[p] = "remove" /\ f \in todel[p] /\ files' = files \ {f}
                           /\ good' = good \ {f}
    BY <1>1, OnlyPurgeDestroys
  <2>2. PInv(p) /\ prof[p] \in Profiles /\ good \subseteq files /\ prof[p] \in RunsOf[p]
    BY <1>1, <2>1 DEF IInv, Typed, TypeOK, PInv, Owned
  <2>3. f \in Own(p) /\ Keep[prof[p]] > 0
        /\ Cardinality({g \in files : Newer(g, f)}) >= Keep[prof[p]]
    BY <2>1, <2>2 DEF PInv, Purging
  <2>4. f.stamp \in Nat
    BY <1>1, ClockAssumption, MaxClockAssumption DEF IInv, Typed, TypeOK, File
  <2>5. ASSUME NEW g \in files, Newer(g, f) PROVE g \in good
    <3> SUFFICES ASSUME g \notin good PROVE FALSE
      OBVIOUS
    <3>1. PICK r \in Procs : zip[r] = g /\ pc[r] \in {"copy", "delzip"}
      BY <1>1 DEF NoPartialLeft
    <3>2. r # p /\ PInv(r)
      BY <1>1, <2>1, <3>1 DEF IInv
    <3>3. NameOf[prof[r]] = g.name /\ prof[r] \in RunsOf[r]
      BY <3>1, <3>2 DEF PInv, Owned, ZipNewest, Holding
    <3>4. g.name = NameOf[prof[p]]
      BY <2>3, <2>5 DEF Newer, Own
    <3> QED
      BY <2>2, <3>2, <3>3, <3>4 DEF OperatingRule, SeparateNames
  <2>6. {g \in good' : Newer(g, f)} = {g \in files : Newer(g, f)}
    BY <2>1, <2>2, <2>4, <2>5 DEF Newer
  <2> QED
    BY <2>2, <2>3, <2>6 DEF Superseded, Own
<1>2. IInv /\ NoPartialLeft /\ [Next]_vars
        => [\A f \in good \ good' : Superseded(f, good')]_vars
  BY <1>1
<1> QED
  BY <1>2, Invariance, PartialsAreRemoved, PTL DEF Spec, KeepsNewestUsable

-----------------------------------------------------------------------------
\* Where nothing but Close, which drops its errors, and the listing of ExpurgeDir
\* fails, a run finds what it has made and what it is to remove.
Undisturbed(p) ==
    /\ pc[p] # "idle" => prof[p] \in RunsOf[p]
    /\ pc[p] \notin {"mkdir", "restat", "delzip"}
    /\ pc[p] \notin {"idle", "stat"} => dest = "dir"
    /\ pc[p] \in {"copy", "chown", "chmod"} =>
         zip[p] \in files /\ zip[p].name = NameOf[prof[p]]
    /\ pc[p] = "remove" => todel[p] \subseteq Own(p)

Smooth ==
    /\ dest # "absent"
    /\ NoSpuriousFailure
    /\ \A p \in Procs : Undisturbed(p)

\* Another process touches neither what r has made nor what it is to remove.
LEMMA UndisturbedByOthers ==
    ASSUME SeparateNames, TypeOK, Smooth, NEW p \in Procs, NEW r \in Procs \ {p}, dest' = dest,
           pc'[r] = pc[r], prof'[r] = prof[r], zip'[r] = zip[r], todel'[r] = todel[r],
           \A f \in files \ files' : pc[p] # "idle" /\ f.name = NameOf[prof[p]]
    PROVE  Undisturbed(r)'
<1>1. Undisturbed(p) /\ Undisturbed(r)
  BY DEF Smooth
<1>2. pc[r] # "idle" => \A f \in files : f.name = NameOf[prof[r]] => f \in files'
  BY <1>1 DEF Undisturbed, SeparateNames
<1>3. pc[r] \in {"copy", "chown", "chmod"} => zip[r] \in files'
  BY <1>1, <1>2 DEF Undisturbed
<1>4. pc[r] = "remove" => todel[r] \subseteq Own(r)'
  BY <1>1, <1>2 DEF Undisturbed, Own
<1> QED
  BY <1>1, <1>3, <1>4 DEF Undisturbed

\* A step of p that goes well leaves the other processes as they are.
LEMMA SmoothStep ==
    ASSUME SeparateNames, TypeOK, Smooth, NEW p \in Procs, dest' = dest,
           \A r \in Procs \ {p} : /\ pc'[r] = pc[r] /\ prof'[r] = prof[r] /\ zip'[r] = zip[r]
                                  /\ todel'[r] = todel[r] /\ result'[r] = result[r],
           \A f \in files \ files' : pc[p] # "idle" /\ f.name = NameOf[prof[p]],
           \/ result'[p] \notin {"failed", "crashed"}
           \/ result'[p] = result[p] /\ prof'[p] = prof[p]
           \/ dest = "file" \/ Panics(prof'[p]),
           Undisturbed(p)'
    PROVE  Smooth'
<1>1. \A r \in Procs \ {p} : Undisturbed(r)'
  BY UndisturbedByOthers
<1>2. NoSpuriousFailure'
  BY DEF Smooth, NoSpuriousFailure, Panics
<1>3. \A r \in Procs : Undisturbed(r)'
  BY <1>1
<1>4. dest' # "absent"
  BY DEF Smooth
<1> QED
  BY <1>2, <1>3, <1>4 DEF Smooth

LEMMA SmoothNext ==
    ASSUME SeparateNames, PlainNames, Faults \subseteq {"close", "glob"},
           Typed, Smooth, [Next]_vars
    PROVE  Smooth'
<1> USE DEF Goto, Return, Die, MayFail
<1>0. TypeOK /\ \A p \in Procs : Undisturbed(p)
  BY DEF Typed, Smooth
<1>1. ASSUME NEW p \in Procs, NEW q \in Profiles, Begin(p, q) PROVE Smooth'
  <2>1. Undisturbed(p)'
    BY <1>0, <1>1 DEF Begin, Undisturbed, TypeOK
  <2> QED
    BY <1>0, <1>1, <2>1, SmoothStep DEF Begin, TypeOK
<1>2. ASSUME NEW p \in Procs, StatDest(p) PROVE Smooth'
  <2>1. Undisturbed(p)'
    BY <1>0, <1>2 DEF StatDest, Undisturbed, TypeOK, Smooth
  <2> QED
    BY <1>0, <1>2, <2>1, SmoothStep DEF StatDest, TypeOK, Smooth
<1>3. ASSUME NEW p \in Procs, MkdirDest(p) \/ RestatDest(p) \/ DelZip(p) \/ Crash(p) PROVE FALSE
  BY <1>0, <1>3 DEF MkdirDest, RestatDest, DelZip, Crash, Undisturbed
<1>4. ASSUME NEW p \in Procs, OpenZip(p) PROVE Smooth'
  <2>1. /\ dest' = dest /\ UNCHANGED <<prof, todel, result>> /\ dest = "dir"
        /\ pc' = [pc EXCEPT ![p] = "copy"] /\ zip' = [zip EXCEPT ![p] = getZipName(prof[p])]
        /\ files' = files \cup {getZipName(prof[p])}
    BY <1>0, <1>4 DEF OpenZip, Undisturbed
  <2>2. Undisturbed(p)'
    BY <1>0, <1>4, <2>1 DEF OpenZip, Undisturbed, TypeOK, getZipName
  <2> QED
    BY <1>0, <2>1, <2>2, SmoothStep DEF TypeOK
<1>5. ASSUME NEW p \in Procs, CopyItem(p) PROVE Smooth'
  <2>1. /\ dest' = dest /\ UNCHANGED <<files, prof, zip, todel, result>>
        /\ pc[p] = "copy" /\ pc' = [pc EXCEPT ![p] = "copy"]
    BY <1>5 DEF CopyItem, CopyDir, CopyDb, ItemAdded
  <2>2. Undisturbed(p)'
    BY <1>0, <2>1 DEF Undisturbed, TypeOK
  <2> QED
    BY <1>0, <2>1, <2>2, SmoothStep DEF TypeOK
<1>6. ASSUME NEW p \in Procs, CloseZip(p) PROVE Smooth'
  <2>1. /\ dest' = dest /\ UNCHANGED <<files, prof, zip, todel, result>>
        /\ pc[p] = "copy" /\ pc' = [pc EXCEPT ![p] = AfterClose(prof[p])]
    BY <1>6 DEF CloseZip
  <2>2. Undisturbed(p)'
    BY <1>0, <2>1 DEF Undisturbed, TypeOK, AfterClose, AfterChown
  <2> QED
    BY <1>0, <2>1, <2>2, SmoothStep DEF TypeOK
<1>7. ASSUME NEW p \in Procs, Chown(p) \/ Chmod(p) PROVE Smooth'
  <2>1. /\ dest' = dest /\ UNCHANGED <<files, prof, zip, todel, result>>
        /\ pc[p] \in {"chown", "chmod"}
        /\ \E l \in {"chmod", "list"} : pc' = [pc EXCEPT ![p] = l]
    BY <1>0, <1>7 DEF Chown, Chmod, AfterChown, Undisturbed
  <2>2. Undisturbed(p)'
    BY <1>0, <2>1 DEF Undisturbed, TypeOK
  <2> QED
    BY <1>0, <2>1, <2>2, SmoothStep DEF TypeOK
<1>8. ASSUME NEW p \in Procs, ListOld(p) PROVE Smooth'
  <2>1. /\ UNCHANGED <<dest, files, prof, zip>> /\ pc[p] = "list" /\ dest = "dir"
        /\ \A r \in Procs \ {p} : pc'[r] = pc[r] /\ todel'[r] = todel[r] /\ result'[r] = result[r]
    BY <1>0, <1>8 DEF ListOld, Undisturbed, TypeOK
  <2>2. prof[p] \in RunsOf[p] /\ prof[p] \in Profiles /\ NameOf[prof[p]] \in Names
    BY <1>0, <2>1, ProfilesAssumption DEF Undisturbed, TypeOK
  <2>3. \/ result'[p] = "ok" /\ pc'[p] = "idle"
        \/ result'[p] = "crashed" /\ pc'[p] = "idle" /\ Panics(prof[p])
        \/ /\ result'[p] = result[p] /\ pc'[p] = "remove"
           /\ \E seen \in Listings : todel'[p] = findToDelete(seen, NameOf[prof[p]], Keep[prof[p]])
    BY <1>0, <1>8, <2>1 DEF ListOld, Panics, TypeOK
  <2>4. ASSUME NEW seen \in Listings, NEW k
        PROVE  findToDelete(seen, NameOf[prof[p]], k) \subseteq Own(p)
    BY <2>2 DEF findToDelete, Listings, Own, PlainNames
  <2>5. Undisturbed(p)'
    BY <1>0, <2>1, <2>2, <2>3, <2>4 DEF Undisturbed, Own
  <2> QED
    BY <1>0, <2>1, <2>3, <2>5, SmoothStep
<1>9. ASSUME NEW p \in Procs, RemoveOld(p) PROVE Smooth'
  <2>1. PICK f \in todel[p] :
          /\ files' = files \ {f} /\ todel' = [todel EXCEPT ![p] = @ \ {f}]
          /\ IF todel'[p] = {} THEN Return(p, "ok") ELSE Goto(p, "remove")
    BY <1>0, <1>9 DEF RemoveOld, Unlink, Undisturbed, Own
  <2>2. UNCHANGED <<dest, prof, zip>> /\ pc[p] = "remove"
    BY <1>9 DEF RemoveOld
  <2>3. /\ \A r \in Procs \ {p} : pc'[r] = pc[r] /\ todel'[r] = todel[r] /\ result'[r] = result[r]
        /\ todel'[p] = todel[p] \ {f}
        /\ \/ pc'[p] = "idle" /\ result'[p] = "ok"
           \/ pc'[p] = "remove" /\ result'[p] = result[p]
    BY <1>0, <2>1 DEF TypeOK
  <2>4. f.name = NameOf[prof[p]]
    BY <1>0, <2>2 DEF Undisturbed, Own
  <2>5. Undisturbed(p)'
    BY <1>0, <2>1, <2>2, <2>3 DEF Undisturbed, Own
  <2> QED
    BY <1>0, <2>1, <2>2, <2>3, <2>4, <2>5, SmoothStep
<1>10. CASE Tick \/ SetClockBack \/ UNCHANGED vars
  BY <1>10 DEF Tick, SetClockBack, vars, Smooth, NoSpuriousFailure, Undisturbed, Own
<1> QED
  BY <1>1, <1>2, <1>3, <1>4, <1>5, <1>6, <1>7, <1>8, <1>9, <1>10 DEF Next, RunStep

\* Where no system call fails by itself (but Close and the reading of a listing,
\* whose errors the code drops) and the destination is there, no run fails because
\* of another process: not even if the clock goes back or a profile runs twice in
\* a second, as long as the processes keep to names of their own.
THEOREM NoRunFailsByAnother ==
    SeparateNames /\ PlainNames /\ Faults \subseteq {"close", "glob"} /\ "absent" \notin InitDest
      => (Spec => []NoSpuriousFailure)
<1> SUFFICES ASSUME SeparateNames, PlainNames, Faults \subseteq {"close", "glob"},
                    "absent" \notin InitDest
             PROVE  Spec => []NoSpuriousFailure
  OBVIOUS
<1>1. Init => Typed /\ Smooth
  BY TypedInit DEF Init, Smooth, NoSpuriousFailure, Undisturbed
<1>2. Typed /\ Smooth /\ [Next]_vars => (Typed /\ Smooth)'
  BY TypedNext, SmoothNext
<1>3. Smooth => NoSpuriousFailure
  BY DEF Smooth
<1> QED
  BY <1>1, <1>2, <1>3, PTL DEF Spec

-----------------------------------------------------------------------------
\* The remote run.

LEMMA RemoteTypedNext == ASSUME RemoteTypeOK, [RemoteNext]_remoteRunVars PROVE RemoteTypeOK'
<1> USE DEF RemoteTypeOK, RemoteGoto, RemoteReturn
<1>1. CASE UNCHANGED remoteVars
  BY <1>1 DEF remoteVars
<1>2. CASE RemoteBegin
  BY <1>2 DEF RemoteBegin
<1>3. CASE RemoteStat
  BY <1>3 DEF RemoteStat
<1>4. CASE RemoteMkdir
  BY <1>4 DEF RemoteMkdir
<1>5. CASE RemoteRestat
  BY <1>5 DEF RemoteRestat
<1>6. CASE SshNew
  BY <1>6 DEF SshNew
<1>7. CASE SshConnect
  <2>1. UNCHANGED <<auth, agent>> /\ rpc = "connect" /\ UNCHANGED rresult
    BY <1>7, Zenon DEF SshConnect
  <2>2. CASE conn' = TRUE /\ rpc' = "zip"
    BY <2>1, <2>2
  <2>3. CASE UNCHANGED conn /\ rpc' = "delzip"
    BY <2>1, <2>3
  <2> QED
    BY <1>7, <2>2, <2>3, Zenon DEF SshConnect
<1>8. CASE ZipNew
  BY <1>8 DEF ZipNew, Disconnect
<1>9. CASE RemoteDelZip
  BY <1>9 DEF RemoteDelZip
<1>10. CASE RemoteCrash
  BY <1>10 DEF RemoteCrash
<1> QED
  BY <1>1, <1>2, <1>3, <1>4, <1>5, <1>6, <1>7, <1>8, <1>9, <1>10
  DEF RemoteNext, RemoteStep, remoteRunVars

\* Whatever fails in the remote runs and whatever the local ones do, the ssh
\* connection is open exactly from Connect to Disconnect, and the one to the agent
\* exactly for the profiles that want it while the process connects and goes on to
\* zip.New, and nowhere else but on the way to the error the run then returns.
THEOREM RemoteTypeCorrect == RemoteSpec => []RemoteTypeOK
<1>1. RemoteInit => RemoteTypeOK
  BY DEF RemoteInit, RemoteTypeOK
<1> QED
  BY <1>1, RemoteTypedNext, PTL DEF RemoteSpec

\* What of a remote run the local ones notice is the directory at the destination
\* path, made or taken away.
LEMMA RemoteSteps ==
    ASSUME [RemoteNext]_remoteRunVars
    PROVE  [Next]_vars \/ UNCHANGED sharedVars
BY DEF RemoteNext, RemoteStep, RemoteBegin, RemoteStat, RemoteMkdir, RemoteRestat, SshNew, SshConnect,
       ZipNew, RemoteDelZip, RemoteCrash, sharedVars, remoteRunVars, remoteVars, vars

LEMMA DestKeepsIInv ==
    ASSUME IInv, UNCHANGED sharedVars, dest' \in {"absent", "dir", "file"}
    PROVE  IInv'
<1> USE DEF sharedVars
<1>1. Typed'
  BY DEF IInv, Typed, TypeOK, HandleLinked
<1>2. ASSUME NEW p \in Procs PROVE PInv(p)'
  BY DEF IInv, PInv, Owned, FreshStamp, ZipNewest, Writing, ArchiveKept, Purging, Retained, Done, Own
<1> QED
  BY <1>1, <1>2 DEF IInv

\* Under the operating rule what LocalBackup's invariant says holds beside remote
\* runs too: os.Remove of the destination directory fails where archives are in it.
THEOREM InvarianceBesideRemoteRuns == OperatingRule => (RemoteSpec => []IInv)
<1> SUFFICES ASSUME OperatingRule PROVE RemoteSpec => []IInv
  OBVIOUS
<1>1. RemoteInit => IInv
  BY IInvInit DEF RemoteInit
<1>2. ASSUME IInv, [RemoteNext]_remoteRunVars PROVE IInv'
  <2>1. CASE [Next]_vars
    BY <1>2, <2>1, IInvNext
  <2>2. CASE UNCHANGED sharedVars /\ ~[Next]_vars
    <3>1. dest' \in {"absent", "dir", "file"}
      <4>1. dest \in {"absent", "dir", "file"}
        BY <1>2 DEF IInv, Typed, TypeOK
      <4> QED
        BY <1>2, <2>2, <4>1
        DEF RemoteNext, RemoteStep, RemoteBegin, RemoteStat, RemoteMkdir, RemoteRestat, SshNew,
            SshConnect, ZipNew, RemoteDelZip, RemoteCrash, sharedVars, remoteRunVars, vars
    <3> QED
      BY <1>2, <2>2, <3>1, DestKeepsIInv
  <2> QED
    BY <1>2, <2>1, <2>2, RemoteSteps
<1> QED
  BY <1>1, <1>2, PTL DEF RemoteSpec

\* ... so that no remote run, however it fails, disturbs what successful local
\* runs have left in the directory.
THEOREM LocalRunsBesideRemoteRuns ==
    /\ OperatingRule /\ "close" \notin Faults => (RemoteSpec => []SuccessHasArchive)
    /\ OperatingRule /\ "glob" \notin Faults => (RemoteSpec => []RetentionBound)
<1>1. IInv /\ "close" \notin Faults => SuccessHasArchive
  BY DEF IInv, PInv, ArchiveKept, SuccessHasArchive, Done
<1>2. IInv /\ "glob" \notin Faults => RetentionBound
  BY DEF IInv, PInv, Retained, RetentionBound, Done, Own
<1>3. ASSUME OperatingRule, "close" \notin Faults PROVE RemoteSpec => []SuccessHasArchive
  BY <1>1, <1>3, InvarianceBesideRemoteRuns, PTL
<1>4. ASSUME OperatingRule, "glob" \notin Faults PROVE RemoteSpec => []RetentionBound
  BY <1>2, <1>4, InvarianceBesideRemoteRuns, PTL
<1> QED
  BY <1>3, <1>4

\* Under the operating rule, if Close does not fail unnoticed, the directory that
\* a remote run shares with local ones still implements the abstract store.
THEOREM SharedDirectoryImplementsStore ==
    OperatingRule /\ "close" \notin Faults => (RemoteSpec => StoreSpec)
<1> SUFFICES ASSUME OperatingRule, "close" \notin Faults PROVE RemoteSpec => StoreSpec
  OBVIOUS
<1>1. RemoteInit => Store!Init
  BY TypedInit DEF RemoteInit, Typed, TypeOK, Store!Init
<1>2. IInv /\ [RemoteNext]_remoteRunVars => [Store!Next]_good
  BY RemoteSteps, StoreStep DEF sharedVars
<1> QED
  BY <1>1, <1>2, InvarianceBesideRemoteRuns, PTL DEF RemoteSpec, StoreSpec, Store!Spec

-----------------------------------------------------------------------------
\* The pulling host.

\* What a step of PullSystem is for the backup host.
LEMMA PullSteps ==
    ASSUME [PullNext]_pullVars
    PROVE  /\ [Next]_vars
           /\ BackupNext \/ UNCHANGED vars
BY DEF PullNext, BackupNext, SyncStarts, SyncGoes, remoteOnlyVars, pullVars, vars,
       Sync!SyncBegin, Sync!SyncStep, Sync!Prepare, Sync!Connect, Sync!ReadLocal, Sync!ReadRemote,
       Sync!Download, Sync!Downloaded, Sync!Copy, Sync!ListOld, Sync!RemoveOld, Sync!remoteVars

LEMMA InvarianceBesideSyncs == ASSUME OperatingRule PROVE PullSpec => []IInv
<1>1. PullInit => IInv
  BY IInvInit DEF PullInit
<1>2. IInv /\ [PullNext]_pullVars => IInv'
  BY PullSteps, IInvNext
<1> QED
  BY <1>1, <1>2, PTL DEF PullSpec

\* What a step of the backup host is for the pulling one: an archive newer than
\* those there are has appeared, one is complete, one has gone, or nothing.
LEMMA BackupIsRemote ==
    ASSUME OperatingRule, IInv, Next
    PROVE  \/ \E f \in File : /\ \A g \in files : g.name = f.name => Newer(f, g)
                              /\ files' = files \cup {f} /\ good' = good
           \/ \E f \in files : files' = files /\ good' = good \cup {f}
           \/ \E f \in files : files' = files \ {f} /\ good' = good \ {f}
           \/ UNCHANGED <<files, good>>
<1>1. Typed /\ TypeOK
  BY DEF IInv, Typed
<1>2. CASE \E p \in Procs : OpenZip(p)
  <2>1. PICK p \in Procs : OpenZip(p)
    BY <1>2
  <2> DEFINE f == getZipName(prof[p])
  <2>2. f \in File /\ f.name = NameOf[prof[p]] /\ f.stamp = clock
    BY <1>1, ProfilesAssumption DEF getZipName, File, TypeOK
  <2>3. \A g \in Own(p) : g.stamp < clock
    BY <2>1 DEF IInv, PInv, FreshStamp, OpenZip, PreOpen
  <2>4. (files' = files \cup {f} /\ good' = good \ {f}) \/ UNCHANGED <<files, good>>
    BY <2>1 DEF OpenZip
  <2> HIDE DEF f
  <2>5. \A g \in files : g.name = f.name => Newer(f, g)
    BY <2>2, <2>3 DEF Own, Newer
  <2>6. f \notin good
    BY <1>1, <2>2, <2>5, ClockAssumption, MaxClockAssumption DEF TypeOK, Newer
  <2> QED
    BY <2>2, <2>4, <2>5, <2>6
<1>3. CASE \E p \in Procs : CloseZip(p)
  BY <1>3 DEF IInv, PInv, Writing, CloseZip
<1>4. CASE \E p \in Procs : DelZip(p) \/ RemoveOld(p)
  BY <1>4 DEF DelZip, RemoveOld, Unlink
<1>5. ASSUME ~\E p \in Procs : OpenZip(p) \/ CloseZip(p) \/ DelZip(p) \/ RemoveOld(p)
      PROVE  UNCHANGED <<files, good>>
  BY <1>5 DEF Next, RunStep, Begin, StatDest, MkdirDest, RestatDest, CopyItem, CopyDir, CopyDb,
          Chown, Chmod, ListOld, Crash, Tick, SetClockBack
<1> QED
  BY <1>2, <1>3, <1>4, <1>5

\* Under the operating rule a goback running local profiles is a remote host as
\* SftpSync takes one to be, so that what is proved of SftpSync holds here.
THEOREM BackupHostIsARemoteHost == OperatingRule => (PullSpec => SyncSpec)
<1> SUFFICES ASSUME OperatingRule PROVE PullSpec => SyncSpec
  OBVIOUS
<1>1. PullInit => Sync!Init
  BY DEF PullInit
<1>2. ASSUME IInv, [PullNext]_pullVars PROVE [Sync!Next]_(Sync!vars)
  <2> USE DEF Sync!vars, Sync!syncVars, Sync!remoteVars, Sync!localVars, Sync!runVars, Sync!historyVars
  <2>1. CASE BackupNext
    <3>1. UNCHANGED Sync!syncVars
      BY <2>1 DEF BackupNext, pullerVars
    <3>2. Sync!File = File /\ \A f, g : Sync!Newer(f, g) <=> Newer(f, g)
      BY DEF Sync!File, File, Sync!Newer, Newer
    <3>3. CASE \E f \in File : /\ \A g \in files : g.name = f.name => Newer(f, g)
                               /\ files' = files \cup {f} /\ good' = good
      BY <3>1, <3>2, <3>3 DEF Sync!Next, Sync!RemoteChanges, Sync!RemoteStarts
    <3>4. CASE \E f \in files : files' = files /\ good' = good \cup {f}
      BY <3>1, <3>4 DEF Sync!Next, Sync!RemoteChanges, Sync!RemoteCompletes
    <3>5. CASE \E f \in files : files' = files \ {f} /\ good' = good \ {f}
      BY <3>1, <3>5 DEF Sync!Next, Sync!RemoteChanges, Sync!RemoteRemoves
    <3>6. CASE UNCHANGED <<files, good>>
      BY <3>1, <3>6
    <3> QED
      BY <1>2, <2>1, <3>3, <3>4, <3>5, <3>6, BackupIsRemote DEF BackupNext
  <2>2. CASE SyncStarts \/ SyncGoes
    BY <2>2 DEF SyncStarts, SyncGoes, Sync!Next
  <2>3. CASE UNCHANGED pullVars
    BY <2>3 DEF pullVars, vars, pullerVars
  <2> QED
    BY <1>2, <2>1, <2>2, <2>3 DEF PullNext
<1> QED
  BY <1>1, <1>2, InvarianceBesideSyncs, PTL DEF PullSpec, SyncSpec, Sync!Spec

LEMMA BackupTyped == PullSpec => []Typed
<1>1. PullInit => Typed
  BY TypedInit DEF PullInit
<1>2. Typed /\ [PullNext]_pullVars => Typed'
  BY PullSteps, TypedNext
<1> QED
  BY <1>1, <1>2, PTL DEF PullSpec

-----------------------------------------------------------------------------
\* SftpSync with what is proved of it.
SyncP == INSTANCE SftpSync_proofs WITH rfiles <- files, rgood <- good

LEMMA SyncAssumptions ==
    /\ SyncProfiles \subseteq [dirs : Seq(Names), keep : Int]
    /\ SyncProfiles # {}
    /\ SyncFaults \subseteq SyncP!SyncFaultKinds
BY PullAssumption DEF Sync!SyncFaultKinds, SyncP!SyncFaultKinds

LEMMA SameCardinality == ASSUME NEW S PROVE Sync!Cardinality(S) = SyncP!Cardinality(S)
BY Zenon DEF Sync!Cardinality, SyncP!Cardinality

LEMMA SameFile == SyncP!File = File
BY DEF File, SyncP!File

\* The steps of PullSystem's Sync are those.
LEMMA SameStep == Sync!SyncStep => SyncP!SyncStep
<1>1. Sync!Prepare => SyncP!Prepare
  BY Zenon
  DEF Sync!Prepare, SyncP!Prepare, Sync!MayFail, SyncP!MayFail, Sync!Goto, SyncP!Goto,
      Sync!Return, SyncP!Return, Sync!remoteVars, SyncP!remoteVars, Sync!localVars,
      SyncP!localVars, Sync!runVars, SyncP!runVars, Sync!historyVars, SyncP!historyVars
<1>2. Sync!Connect => SyncP!Connect
  BY Zenon
  DEF Sync!Connect, SyncP!Connect, Sync!MayFail, SyncP!MayFail, Sync!Goto, SyncP!Goto,
      Sync!Return, SyncP!Return, Sync!remoteVars, SyncP!remoteVars, Sync!localVars,
      SyncP!localVars, Sync!runVars, SyncP!runVars, Sync!historyVars, SyncP!historyVars
<1>3. Sync!ReadLocal => SyncP!ReadLocal
  BY Zenon
  DEF Sync!ReadLocal, SyncP!ReadLocal, Sync!MayFail, SyncP!MayFail, Sync!Goto,
      SyncP!Goto, Sync!Return, SyncP!Return, Sync!remoteVars, SyncP!remoteVars,
      Sync!localVars, SyncP!localVars, Sync!runVars, SyncP!runVars, Sync!historyVars,
      SyncP!historyVars
<1>4. Sync!ReadRemote => SyncP!ReadRemote
  BY Zenon
  DEF Sync!ReadRemote, SyncP!ReadRemote, Sync!findDifferentProfiles,
      SyncP!findDifferentProfiles, Sync!MayFail, SyncP!MayFail, Sync!Goto, SyncP!Goto,
      Sync!Return, SyncP!Return, Sync!remoteVars, SyncP!remoteVars, Sync!localVars,
      SyncP!localVars, Sync!runVars, SyncP!runVars, Sync!historyVars, SyncP!historyVars
<1>5. Sync!Download => SyncP!Download
  BY Zenon
  DEF Sync!Download, SyncP!Download, Sync!MayFail, SyncP!MayFail, Sync!Goto,
      SyncP!Goto, Sync!Return, SyncP!Return, Sync!remoteVars, SyncP!remoteVars,
      Sync!localVars, SyncP!localVars, Sync!runVars, SyncP!runVars, Sync!historyVars,
      SyncP!historyVars
<1>6. Sync!Downloaded => SyncP!Downloaded
  BY Zenon
  DEF Sync!Downloaded, SyncP!Downloaded, Sync!NextDir, SyncP!NextDir, Sync!NumDirs,
      SyncP!NumDirs, Sync!MayFail, SyncP!MayFail, Sync!Goto, SyncP!Goto, Sync!Return,
      SyncP!Return, Sync!remoteVars, SyncP!remoteVars, Sync!localVars, SyncP!localVars,
      Sync!runVars, SyncP!runVars, Sync!historyVars, SyncP!historyVars
<1>7. Sync!Copy => SyncP!Copy
  BY Zenon
  DEF Sync!Copy, SyncP!Copy, Sync!MayFail, SyncP!MayFail, Sync!Goto, SyncP!Goto,
      Sync!Return, SyncP!Return, Sync!remoteVars, SyncP!remoteVars, Sync!localVars,
      SyncP!localVars, Sync!runVars, SyncP!runVars, Sync!historyVars, SyncP!historyVars
<1>8. Sync!ListOld => SyncP!ListOld
  <2>1. Sync!Listings = SyncP!Listings
    BY DEF Sync!Listings, SyncP!Listings, Sync!MayFail, SyncP!MayFail
  <2>2. ASSUME NEW S, NEW n, NEW k
        PROVE  Sync!findToDelete(S, n, k) = SyncP!findToDelete(S, n, k)
    BY SameCardinality, Zenon
    DEF Sync!findToDelete, SyncP!findToDelete, Sync!Before, SyncP!Before
  <2>3. (Sync!NextDir => SyncP!NextDir) /\ (Sync!Goto("remove") => SyncP!Goto("remove"))
        /\ (Sync!Return("failed") => SyncP!Return("failed"))
    BY Zenon
    DEF Sync!NextDir, SyncP!NextDir, Sync!NumDirs, SyncP!NumDirs, Sync!MayFail, SyncP!MayFail,
        Sync!Goto, SyncP!Goto, Sync!Return, SyncP!Return
  <2> QED
    BY <2>1, <2>2, <2>3, Zenon
    DEF Sync!ListOld, SyncP!ListOld, Sync!MayFail, SyncP!MayFail, Sync!remoteVars,
        SyncP!remoteVars, Sync!localVars, SyncP!localVars, Sync!historyVars, SyncP!historyVars
<1>9. Sync!RemoveOld => SyncP!RemoveOld
  BY Zenon
  DEF Sync!RemoveOld, SyncP!RemoveOld, Sync!IsFirst, SyncP!IsFirst, Sync!Before,
      SyncP!Before, Sync!NextDir, SyncP!NextDir, Sync!NumDirs, SyncP!NumDirs,
      Sync!MayFail, SyncP!MayFail, Sync!Goto, SyncP!Goto, Sync!Return, SyncP!Return,
      Sync!remoteVars, SyncP!remoteVars, Sync!localVars, SyncP!localVars, Sync!runVars,
      SyncP!runVars, Sync!historyVars, SyncP!historyVars
<1> QED
  BY <1>1, <1>2, <1>3, <1>4, <1>5, <1>6, <1>7, <1>8, <1>9 DEF Sync!SyncStep, SyncP!SyncStep

LEMMA SameBegin == ASSUME NEW q, Sync!SyncBegin(q) PROVE SyncP!SyncBegin(q)
BY Zenon
  DEF Sync!SyncBegin, SyncP!SyncBegin, Sync!Reset, SyncP!Reset, Sync!MayFail,
      SyncP!MayFail, Sync!Goto, SyncP!Goto, Sync!Return, SyncP!Return, Sync!remoteVars,
      SyncP!remoteVars, Sync!localVars, SyncP!localVars, Sync!runVars, SyncP!runVars,
      Sync!historyVars, SyncP!historyVars

LEMMA PullCases ==
    ASSUME [PullNext]_pullVars
    PROVE  \/ BackupNext /\ UNCHANGED pullerVars
           \/ UNCHANGED vars /\ Noted /\ (SyncP!SyncStep \/ \E q \in SyncProfiles : SyncP!SyncBegin(q))
           \/ UNCHANGED <<vars, pullerVars>>
<1>1. CASE BackupNext
  BY <1>1 DEF BackupNext
<1>2. CASE SyncStarts \/ SyncGoes
  <2>1. SyncP!SyncStep \/ \E q \in SyncProfiles : SyncP!SyncBegin(q)
    BY <1>2, SameStep, SameBegin DEF SyncStarts, SyncGoes
  <2>2. UNCHANGED <<files, good>>
    BY <1>2 DEF SyncStarts, SyncGoes, Sync!SyncBegin, Sync!SyncStep, Sync!Prepare, Sync!Connect,
            Sync!ReadLocal, Sync!ReadRemote, Sync!Download, Sync!Downloaded, Sync!Copy, Sync!ListOld,
            Sync!RemoveOld, Sync!remoteVars
  <2>3. UNCHANGED vars /\ Noted
    BY <1>2, <2>2 DEF SyncStarts, SyncGoes, remoteOnlyVars, vars
  <2> QED
    BY <2>1, <2>3
<1>3. CASE UNCHANGED pullVars
  BY <1>3 DEF pullVars
<1> QED
  BY <1>1, <1>2, <1>3 DEF PullNext

LEMMA SyncTypedNext ==
    ASSUME Typed', SyncP!Typed, [PullNext]_pullVars
    PROVE  SyncP!Typed'
<1>1. CASE UNCHANGED pullerVars
  <2>1. /\ files' \subseteq SyncP!File /\ good' \subseteq files'
    BY DEF Typed, TypeOK, File, SyncP!File
  <2> QED
    BY <1>1, <2>1, Zenon DEF SyncP!Typed, SyncP!TypeOK, SyncP!NumDirs, SyncP!Passing, pullerVars
<1>2. CASE SyncP!SyncStep \/ \E q \in SyncProfiles : SyncP!SyncBegin(q)
  <2>1. SyncP!Next
    BY <1>2 DEF SyncP!Next
  <2> QED
    BY <2>1, SyncP!TypedNext, SyncAssumptions, NamesAssumption, GlobAssumption, MaxClockAssumption
<1> QED
  BY <1>1, <1>2, PullCases

LEMMA PullTyped == PullSpec => [](Typed /\ SyncP!Typed)
<1>1. PullInit => SyncP!Typed
  <2>1. Sync!Init => SyncP!Init
    BY Zenon DEF Sync!Init, SyncP!Init, Sync!File, SyncP!File
  <2> QED
    BY <2>1, SyncP!TypedInit, SyncAssumptions, NamesAssumption, GlobAssumption, MaxClockAssumption
    DEF PullInit
<1>2. Typed' /\ SyncP!Typed /\ [PullNext]_pullVars => SyncP!Typed'
  BY SyncTypedNext
<1> QED
  BY <1>1, <1>2, BackupTyped, PTL DEF PullSpec

-----------------------------------------------------------------------------
\* What the pulling host has of an archive that is not complete on the backup host
\* never becomes complete there: no run writes it, and a later run gives its own
\* archive another stamp.

\* destZip is not of the future.
ZipPast == \A p \in Procs : pc[p] \in Holding => zip[p].stamp <= clock

Dead(f) ==
    /\ f \notin good
    /\ \A p \in Procs : pc[p] \in {"copy", "delzip"} => zip[p] # f
    /\ f \in files \/ f.stamp < clock

LEMMA ZipPastNext == ASSUME OperatingRule, IInv, ZipPast, [Next]_vars PROVE ZipPast'
<1>1. TypeOK /\ clock \in Nat /\ ~ClockBack
  BY ClockAssumption, MaxClockAssumption DEF IInv, Typed, TypeOK, OperatingRule
<1>2. ASSUME NEW p \in Procs, RunStep(p) \/ Crash(p) \/ \E q \in Profiles : Begin(p, q),
             ~OpenZip(p)
      PROVE  ZipPast'
  <2>1. zip' = zip /\ clock' = clock
    BY <1>2 DEF RunStep, Begin, StatDest, MkdirDest, RestatDest, CopyItem, CopyDir, CopyDb, CloseZip,
            DelZip, Chown, Chmod, ListOld, RemoveOld, Crash
  <2>2. \A r \in Procs : pc'[r] \in Holding => pc[r] \in Holding
    BY <1>1, <1>2 DEF RunStep, Begin, StatDest, MkdirDest, RestatDest, CopyItem, CopyDir, CopyDb,
            ItemAdded, CloseZip, DelZip, Chown, Chmod, ListOld, RemoveOld, Crash, Goto, Return, Die,
            Holding, TypeOK, AfterClose, AfterChown
  <2> QED
    BY <2>1, <2>2 DEF ZipPast
<1>3. ASSUME NEW p \in Procs, OpenZip(p) PROVE ZipPast'
  <2>1. clock' = clock /\ zip' = [zip EXCEPT ![p] = getZipName(prof[p])]
        /\ getZipName(prof[p]).stamp = clock
    BY <1>3 DEF OpenZip, getZipName
  <2>2. \A r \in Procs \ {p} : pc'[r] = pc[r]
    BY <1>1, <1>3 DEF OpenZip, Goto, TypeOK
  <2> HIDE DEF getZipName
  <2> QED
    BY <1>1, <2>1, <2>2 DEF ZipPast, TypeOK
<1>4. CASE Tick
  <2>1. UNCHANGED <<pc, zip>> /\ clock' = clock + 1
    BY <1>4 DEF Tick
  <2>2. \A p \in Procs : pc[p] \in Holding => zip[p].stamp \in Nat
    BY ClockAssumption, MaxClockAssumption DEF IInv, PInv, ZipNewest, File
  <2> QED
    BY <1>1, <2>1, <2>2 DEF ZipPast
<1>5. CASE SetClockBack
  BY <1>1, <1>5 DEF SetClockBack
<1>6. CASE UNCHANGED vars
  BY <1>6 DEF vars, ZipPast
<1> QED
  BY <1>2, <1>3, <1>4, <1>5, <1>6 DEF Next

LEMMA DeadStays ==
    ASSUME OperatingRule, IInv, ZipPast, [Next]_vars, NEW f \in File, Dead(f)
    PROVE  Dead(f)'
<1> USE DEF Goto, Return, Die
<1>1. TypeOK /\ clock \in Nat /\ f.stamp \in Nat /\ ~ClockBack
  BY ClockAssumption, MaxClockAssumption DEF IInv, Typed, TypeOK, File, OperatingRule
<1>2. ASSUME NEW p \in Procs, OpenZip(p) PROVE Dead(f)'
  <2> DEFINE h == getZipName(prof[p])
  <2>1. h.name = NameOf[prof[p]] /\ h.stamp = clock /\ zip' = [zip EXCEPT ![p] = h] /\ clock' = clock
        /\ files \subseteq files' /\ good' \subseteq good
    BY <1>2 DEF OpenZip, getZipName
  <2>2. \A g \in Own(p) : g.stamp < clock
    BY <1>2 DEF IInv, PInv, FreshStamp, OpenZip, PreOpen
  <2>3. \A r \in Procs \ {p} : pc'[r] = pc[r]
    BY <1>1, <1>2 DEF OpenZip, TypeOK
  <2> HIDE DEF h
  <2>4. h # f
    BY <1>1, <2>1, <2>2 DEF Own, Dead
  <2> QED
    BY <1>1, <2>1, <2>3, <2>4 DEF Dead, TypeOK
<1>3. ASSUME NEW p \in Procs, CloseZip(p) PROVE Dead(f)'
  <2>1. good' \subseteq good \cup {zip[p]} /\ pc[p] = "copy" /\ UNCHANGED <<files, clock, zip>>
    BY <1>3 DEF CloseZip
  <2>2. \A r \in Procs : pc'[r] \in {"copy", "delzip"} => pc[r] \in {"copy", "delzip"}
    BY <1>1, <1>3 DEF CloseZip, TypeOK, AfterClose, AfterChown
  <2> QED
    BY <2>1, <2>2 DEF Dead
<1>4. ASSUME NEW p \in Procs, DelZip(p) PROVE Dead(f)'
  <2>1. /\ pc[p] = "delzip" /\ UNCHANGED <<clock, zip>> /\ good' \subseteq good
        /\ files \ {zip[p]} \subseteq files'
    BY <1>4 DEF DelZip, Unlink
  <2>2. \A r \in Procs : pc'[r] \in {"copy", "delzip"} => pc[r] \in {"copy", "delzip"}
    BY <1>1, <1>4 DEF DelZip, TypeOK
  <2> QED
    BY <2>1, <2>2 DEF Dead
<1>5. ASSUME NEW p \in Procs, RemoveOld(p) PROVE Dead(f)'
  <2>1. UNCHANGED <<clock, zip>> /\ good' \subseteq good /\ pc[p] = "remove"
    BY <1>5 DEF RemoveOld, Unlink
  <2>2. PICK x \in todel[p] : files \ {x} \subseteq files'
    BY <1>5 DEF RemoveOld, Unlink
  <2>3. \A r \in Procs : pc'[r] \in {"copy", "delzip"} => pc[r] \in {"copy", "delzip"}
    BY <1>1, <1>5 DEF RemoveOld, TypeOK
  <2>4. x.stamp < clock
    <3>1. x \in Own(p) /\ Keep[prof[p]] > 0 /\ Cardinality({g \in files : Newer(g, x)}) >= Keep[prof[p]]
      BY <2>1 DEF IInv, PInv, Purging
    <3>2. Keep[prof[p]] \in Int /\ Cardinality({}) = 0
      BY <1>1, FS_EmptySet, ProfilesAssumption DEF TypeOK
    <3>3. {g \in files : Newer(g, x)} # {}
      BY <3>1, <3>2
    <3>4. PICK g \in files : Newer(g, x)
      BY <3>3
    <3>5. g \in Own(p) /\ g.stamp <= zip[p].stamp /\ zip[p].stamp <= clock /\ zip[p] \in File
      BY <2>1, <3>1, <3>4 DEF IInv, PInv, ZipNewest, ZipPast, Holding, Own, Newer
    <3>6. g.stamp \in Nat /\ x.stamp \in Nat /\ zip[p].stamp \in Nat
      BY <1>1, <3>1, <3>5, ClockAssumption, MaxClockAssumption DEF TypeOK, File, Own
    <3> QED
      BY <1>1, <3>4, <3>5, <3>6 DEF Newer
  <2> QED
    BY <2>1, <2>2, <2>3, <2>4 DEF Dead
<1>6. ASSUME NEW p \in Procs,
             \/ StatDest(p) \/ MkdirDest(p) \/ RestatDest(p) \/ CopyItem(p) \/ Chown(p) \/ Chmod(p)
             \/ ListOld(p) \/ Crash(p) \/ \E q \in Profiles : Begin(p, q)
      PROVE  Dead(f)'
  <2>1. UNCHANGED <<clock, files, good, zip>>
    BY <1>6 DEF StatDest, MkdirDest, RestatDest, CopyItem, CopyDir, CopyDb, Chown, Chmod, ListOld,
            Crash, Begin
  <2>2. \A r \in Procs : pc'[r] \in {"copy", "delzip"} => pc[r] \in {"copy", "delzip"}
    BY <1>1, <1>6 DEF StatDest, MkdirDest, RestatDest, CopyItem, CopyDir, CopyDb, ItemAdded, Chown,
            Chmod, ListOld, Crash, Begin, TypeOK, AfterChown
  <2> QED
    BY <2>1, <2>2 DEF Dead
<1>7. CASE Tick
  BY <1>1, <1>7 DEF Tick, Dead
<1>8. CASE SetClockBack
  BY <1>1, <1>8 DEF SetClockBack
<1>9. CASE UNCHANGED vars
  BY <1>9 DEF vars, Dead
<1> QED
  BY <1>2, <1>3, <1>4, <1>5, <1>6, <1>7, <1>8, <1>9 DEF Next, RunStep

-----------------------------------------------------------------------------
\* An archive that a purge has taken from the backup host stays away: Keep newer
\* ones are there, none of which a run may still delete as unfinished.

Settled == files \ Unfinished

Gone(f) ==
    /\ f \notin files
    /\ \E q \in Profiles : /\ NameOf[q] = f.name
                           /\ Keep[q] > 0
                           /\ Cardinality({g \in Settled : Newer(g, f)}) >= Keep[q]

\* A process that purges has finished its archive, and nobody else has its names.
LEMMA PurgedSettled ==
    ASSUME OperatingRule, IInv, NEW p \in Procs, pc[p] = "remove", NEW u \in Unfinished
    PROVE  u.name # NameOf[prof[p]]
<1>1. PICK r \in Procs : pc[r] \in {"copy", "delzip"} /\ zip[r] = u
  BY DEF Unfinished
<1>2. r # p /\ prof[r] \in RunsOf[r] /\ prof[p] \in RunsOf[p]
  BY <1>1 DEF IInv, PInv, Owned
<1>3. zip[r].name = NameOf[prof[r]]
  BY <1>1 DEF IInv, PInv, ZipNewest, Holding
<1> QED
  BY <1>1, <1>2, <1>3 DEF OperatingRule, SeparateNames

\* What ExpurgeDir removes has Keep newer archives that stay.
LEMMA PurgedIsSuperseded ==
    ASSUME OperatingRule, IInv, NEW p \in Procs, pc[p] = "remove", NEW x \in todel[p]
    PROVE  /\ x \in File /\ x.name = NameOf[prof[p]] /\ prof[p] \in Profiles /\ Keep[prof[p]] > 0
           /\ Cardinality({g \in Settled : Newer(g, x)}) >= Keep[prof[p]]
<1>1. /\ x \in Own(p) /\ Keep[prof[p]] > 0
      /\ Cardinality({g \in files : Newer(g, x)}) >= Keep[prof[p]]
  BY DEF IInv, PInv, Purging
<1>2. {g \in files : Newer(g, x)} = {g \in Settled : Newer(g, x)}
  BY <1>1, PurgedSettled DEF Settled, Newer, Own
<1> QED
  BY <1>1, <1>2 DEF IInv, Typed, TypeOK, Own

\* A step takes nothing of what is settled but by a purge, and adds to files only
\* what is newer than all of its name.
LEMMA SettledStays ==
    ASSUME OperatingRule, IInv, [Next]_vars, ~\E p \in Procs : RemoveOld(p)
    PROVE  /\ Settled \subseteq Settled'
           /\ \A f \in files' \ files : \A g \in files : g.name = f.name => g.stamp < f.stamp
<1> USE DEF Goto, Return, Die
<1>1. TypeOK
  BY DEF IInv, Typed
<1>2. ASSUME NEW p \in Procs, OpenZip(p)
      PROVE  /\ Settled \subseteq Settled'
             /\ \A f \in files' \ files : \A g \in files : g.name = f.name => g.stamp < f.stamp
  <2> DEFINE h == getZipName(prof[p])
  <2>1. h.name = NameOf[prof[p]] /\ h.stamp = clock /\ zip' = [zip EXCEPT ![p] = h]
        /\ files \subseteq files' /\ files' \subseteq files \cup {h}
    BY <1>2 DEF OpenZip, getZipName
  <2>2. \A g \in Own(p) : g.stamp < clock
    BY <1>2 DEF IInv, PInv, FreshStamp, OpenZip, PreOpen
  <2>3. \A r \in Procs \ {p} : pc'[r] = pc[r]
    BY <1>1, <1>2 DEF OpenZip, TypeOK
  <2> HIDE DEF h
  <2>4. h \notin files
    BY <1>1, <2>1, <2>2, ClockAssumption, MaxClockAssumption DEF Own, TypeOK
  <2>5. Unfinished' \subseteq Unfinished \cup {h}
    BY <1>1, <2>1, <2>3 DEF Unfinished, TypeOK
  <2> QED
    BY <2>1, <2>2, <2>4, <2>5 DEF Own, Settled
<1>3. ASSUME UNCHANGED zip, \A r \in Procs : pc'[r] \in {"copy", "delzip"} => pc[r] \in {"copy", "delzip"}
      PROVE  Unfinished' \subseteq Unfinished
  BY <1>3 DEF Unfinished
<1>4. ASSUME NEW p \in Procs, DelZip(p) PROVE files' \subseteq files /\ Settled \subseteq Settled'
  <2>1. files' \subseteq files /\ files \ {zip[p]} \subseteq files' /\ zip[p] \in Unfinished
    BY <1>4 DEF DelZip, Unlink, Unfinished
  <2>2. Unfinished' \subseteq Unfinished
    <3>1. UNCHANGED zip /\ \A r \in Procs : pc'[r] \in {"copy", "delzip"} => pc[r] \in {"copy", "delzip"}
      BY <1>1, <1>4 DEF DelZip, TypeOK
    <3> QED
      BY <1>3, <3>1
  <2> QED
    BY <2>1, <2>2 DEF Settled
<1>5. ASSUME NEW p \in Procs,
             \/ StatDest(p) \/ MkdirDest(p) \/ RestatDest(p) \/ CopyItem(p) \/ CloseZip(p) \/ Chown(p)
             \/ Chmod(p) \/ ListOld(p) \/ Crash(p) \/ \E q \in Profiles : Begin(p, q)
      PROVE  files' = files /\ Settled \subseteq Settled'
  <2>1. UNCHANGED <<files, zip>>
    BY <1>5 DEF StatDest, MkdirDest, RestatDest, CopyItem, CopyDir, CopyDb, CloseZip, Chown, Chmod,
            ListOld, Crash, Begin
  <2>2. \A r \in Procs : pc'[r] \in {"copy", "delzip"} => pc[r] \in {"copy", "delzip"}
    BY <1>1, <1>5 DEF StatDest, MkdirDest, RestatDest, CopyItem, CopyDir, CopyDb, ItemAdded, CloseZip,
            Chown, Chmod, ListOld, Crash, Begin, TypeOK, AfterChown, AfterClose
  <2> QED
    BY <1>3, <2>1, <2>2 DEF Settled
<1>6. CASE Tick \/ SetClockBack \/ UNCHANGED vars
  BY <1>6 DEF Tick, SetClockBack, vars, Settled, Unfinished
<1> QED
  BY <1>2, <1>4, <1>5, <1>6 DEF Next, RunStep

LEMMA SettledFinite == ASSUME IInv PROVE IsFiniteSet(Settled)
BY FS_Subset DEF IInv, Typed, Settled

\* Purges by p, of x.
LEMMA PurgeKeepsGone ==
    ASSUME OperatingRule, IInv, IInv', NEW p \in Procs, RemoveOld(p), NEW f \in File, Gone(f)
    PROVE  Gone(f)'
<1>1. TypeOK /\ pc[p] = "remove"
  BY DEF IInv, Typed, RemoveOld
<1>2. PICK x \in todel[p] : files' = files \ {x} \/ files' = files
  BY DEF RemoveOld, Unlink
<1>3. Unfinished' = Unfinished
  <2>1. UNCHANGED zip /\ \A r \in Procs : pc'[r] \in {"copy", "delzip"} <=> pc[r] \in {"copy", "delzip"}
    BY <1>1 DEF RemoveOld, TypeOK, Goto, Return
  <2> QED
    BY <2>1 DEF Unfinished
<1>4. PICK q \in Profiles : /\ NameOf[q] = f.name
                            /\ Keep[q] > 0
                            /\ Cardinality({g \in Settled : Newer(g, f)}) >= Keep[q]
  BY DEF Gone
<1>5. CASE files' = files \/ ~Newer(x, f)
  <2>1. {g \in Settled' : Newer(g, f)} = {g \in Settled : Newer(g, f)}
    BY <1>2, <1>3, <1>5 DEF Settled
  <2> QED
    BY <1>2, <1>4, <2>1 DEF Gone
<1>6. CASE files' = files \ {x} /\ Newer(x, f)
  <2> DEFINE N == {g \in Settled : Newer(g, x)}
  <2>1. /\ x \in File /\ x.name = NameOf[prof[p]] /\ prof[p] \in Profiles /\ Keep[prof[p]] > 0
        /\ Cardinality(N) >= Keep[prof[p]]
    BY <1>1, PurgedIsSuperseded
  <2>2. \A g \in N : g \in Settled' /\ Newer(g, f)
    <3>1. \A g \in Settled : g.stamp \in Nat
      BY <1>1, MaxClockAssumption DEF TypeOK, File, Settled
    <3>2. x.stamp \in Nat /\ f.stamp \in Nat
      BY <2>1, MaxClockAssumption DEF File
    <3>3. ASSUME NEW g \in N PROVE g # x /\ Newer(g, f)
      <4>1. f.name = x.name /\ x.stamp > f.stamp
        BY <1>6 DEF Newer
      <4>2. g \in Settled /\ g.name = x.name /\ g.stamp > x.stamp
        BY DEF Newer
      <4> QED
        BY <3>1, <3>2, <4>1, <4>2 DEF Newer
    <3> QED
      BY <1>3, <1>6, <3>3 DEF Settled
  <2> DEFINE T == {g \in Settled' : Newer(g, f)}
  <2>3. N \subseteq T
    BY <2>2
  <2>4. IsFiniteSet(T) /\ IsFiniteSet(N)
    <3>1. IsFiniteSet(Settled) /\ IsFiniteSet(Settled')
      <4>1. IsFiniteSet(files')
        BY DEF IInv, Typed
      <4> QED
        BY <4>1, SettledFinite, FS_Subset DEF Settled
    <3> QED
      BY <3>1, FS_Subset
  <2> HIDE DEF N, T
  <2>5. Cardinality(N) <= Cardinality(T) /\ Cardinality(N) \in Nat /\ Cardinality(T) \in Nat
    BY <2>3, <2>4, FS_Subset, FS_CardinalityType
  <2>6. Keep[prof[p]] \in Int
    BY <2>1, ProfilesAssumption
  <2>7. Cardinality(T) >= Keep[prof[p]]
    BY <2>1, <2>5, <2>6
  <2> QED
    BY <1>6, <2>1, <2>7 DEF Gone, Newer, T
<1> QED
  BY <1>2, <1>5, <1>6

LEMMA GoneStays ==
    ASSUME OperatingRule, IInv, IInv', [Next]_vars, NEW f \in File, Gone(f)
    PROVE  Gone(f)'
<1>1. CASE \E p \in Procs : RemoveOld(p)
  BY <1>1, PurgeKeepsGone
<1>2. CASE ~\E p \in Procs : RemoveOld(p)
  <2>1. PICK q \in Profiles : /\ NameOf[q] = f.name
                              /\ Keep[q] > 0
                              /\ Cardinality({g \in Settled : Newer(g, f)}) >= Keep[q]
    BY DEF Gone
  <2> DEFINE N == {g \in Settled : Newer(g, f)}
             T == {g \in Settled' : Newer(g, f)}
  <2>2. N \subseteq T
    BY <1>2, SettledStays
  <2>3. IsFiniteSet(N) /\ IsFiniteSet(T)
    <3>1. IsFiniteSet(Settled')
      <4>1. IsFiniteSet(files')
        BY DEF IInv, Typed
      <4> QED
        BY <4>1, FS_Subset DEF Settled
    <3> QED
      BY <3>1, SettledFinite, FS_Subset
  <2>4. Keep[q] \in Int /\ Cardinality({}) = 0
    BY ProfilesAssumption, FS_EmptySet
  <2>5. Cardinality(N) >= Keep[q]
    BY <2>1
  <2>6. \E g \in files : Newer(g, f)
    <3>1. N # {}
      <4> HIDE DEF N
      <4> QED BY <2>1, <2>4, <2>5
    <3> QED
      BY <3>1 DEF Settled
  <2>7. f \notin files'
    <3>1. PICK g \in files : Newer(g, f)
      BY <2>6
    <3>2. g.stamp \in Nat /\ f.stamp \in Nat
      BY MaxClockAssumption DEF IInv, Typed, TypeOK, File
    <3>3. f \in files' => f \in files' \ files /\ g.name = f.name /\ g.stamp > f.stamp
      BY <3>1 DEF Gone, Newer
    <3>4. f \in files' => g.stamp < f.stamp
      BY <1>2, <3>3, SettledStays
    <3> QED
      BY <3>2, <3>3, <3>4
  <2> HIDE DEF N, T
  <2>8. Cardinality(N) <= Cardinality(T) /\ Cardinality(N) \in Nat /\ Cardinality(T) \in Nat
    BY <2>2, <2>3, FS_Subset, FS_CardinalityType
  <2>9. Cardinality(T) >= Keep[q]
    BY <2>4, <2>5, <2>8
  <2> QED
    BY <2>1, <2>7, <2>9 DEF Gone, T
<1> QED
  BY <1>1, <1>2

\* A complete archive leaves the directory only by a purge.
LEMMA GoodOrGone ==
    ASSUME OperatingRule, IInv, IInv', [Next]_vars, NEW f \in good, f \notin good'
    PROVE  Gone(f)'
<1> USE DEF Goto, Return, Die
<1>1. TypeOK
  BY DEF IInv, Typed
<1>2. ASSUME NEW p \in Procs, OpenZip(p) PROVE FALSE
  <2>1. \A g \in Own(p) : g.stamp < clock
    BY <1>2 DEF IInv, PInv, FreshStamp, OpenZip, PreOpen
  <2>2. f = getZipName(prof[p])
    BY <1>2 DEF OpenZip
  <2>3. f \in Own(p) /\ f.stamp = clock
    BY <1>1, <2>2 DEF Own, getZipName, TypeOK
  <2> QED
    BY <1>1, <2>1, <2>3, ClockAssumption, MaxClockAssumption DEF TypeOK
<1>3. ASSUME NEW p \in Procs, DelZip(p) PROVE FALSE
  BY <1>3 DEF DelZip, Unlink, IInv, PInv, Writing
<1>4. ASSUME NEW p \in Procs, RemoveOld(p) PROVE Gone(f)'
  <2>1. f \in todel[p] /\ files' = files \ {f} /\ pc[p] = "remove"
    BY <1>4 DEF RemoveOld, Unlink
  <2>2. /\ f.name = NameOf[prof[p]] /\ prof[p] \in Profiles /\ Keep[prof[p]] > 0 /\ f \in File
        /\ Cardinality({g \in Settled : Newer(g, f)}) >= Keep[prof[p]]
    BY <2>1, PurgedIsSuperseded
  <2>3. Unfinished' = Unfinished
    <3>1. UNCHANGED zip
          /\ \A r \in Procs : pc'[r] \in {"copy", "delzip"} <=> pc[r] \in {"copy", "delzip"}
      BY <1>1, <1>4 DEF RemoveOld, TypeOK
    <3> QED
      BY <3>1 DEF Unfinished
  <2>4. ~Newer(f, f)
    BY <2>2, MaxClockAssumption DEF Newer, File
  <2>5. {g \in Settled' : Newer(g, f)} = {g \in Settled : Newer(g, f)}
    BY <2>1, <2>3, <2>4 DEF Settled
  <2> QED
    BY <2>1, <2>2, <2>5 DEF Gone
<1>5. ASSUME ~\E p \in Procs : OpenZip(p) \/ DelZip(p) \/ RemoveOld(p) PROVE FALSE
  BY <1>5 DEF Next, RunStep, Begin, StatDest, MkdirDest, RestatDest, CopyItem, CopyDir, CopyDb,
          CloseZip, Chown, Chmod, ListOld, Crash, Tick, SetClockBack, vars
<1> QED
  BY <1>2, <1>3, <1>4, <1>5

\* What a sync has found complete is complete still, or purged.
Accounted == \A f \in complete : f \in good \/ Gone(f)

LEMMA AccountedNext ==
    ASSUME OperatingRule, IInv, IInv', SyncP!Typed, Accounted, [PullNext]_pullVars
    PROVE  Accounted'
<1>1. complete \subseteq File
  <2>1. complete \subseteq listed /\ listed \subseteq File
    BY SyncP!FileFacts, SyncAssumptions, NamesAssumption, GlobAssumption, MaxClockAssumption, SameFile
  <2> QED
    BY <2>1
<1>2. CASE UNCHANGED pullerVars
  <2>1. [Next]_vars /\ complete' = complete
    BY <1>2, PullSteps DEF pullerVars
  <2> QED
    BY <1>1, <2>1, GoneStays, GoodOrGone DEF Accounted
<1>3. CASE UNCHANGED vars /\ (SyncP!SyncStep \/ \E q \in SyncProfiles : SyncP!SyncBegin(q))
  <2>1. good' = good /\ \A f : Gone(f)' <=> Gone(f)
    BY <1>3 DEF vars, Gone, Settled, Unfinished
  <2>2. complete' \subseteq complete \cup good
    BY <1>3
    DEF SyncP!SyncStep, SyncP!SyncBegin, SyncP!Reset, SyncP!Prepare, SyncP!Connect, SyncP!ReadLocal,
        SyncP!ReadRemote, SyncP!Download, SyncP!Downloaded, SyncP!Copy, SyncP!ListOld,
        SyncP!RemoveOld, SyncP!historyVars
  <2> QED
    BY <2>1, <2>2 DEF Accounted
<1> QED
  BY <1>2, <1>3, PullCases

LEMMA AlwaysAccounted == ASSUME OperatingRule PROVE PullSpec => []Accounted
<1>1. PullInit => Accounted
  BY DEF PullInit, Sync!Init, Accounted
<1>2. IInv /\ IInv' /\ (Typed /\ SyncP!Typed) /\ Accounted /\ [PullNext]_pullVars => Accounted'
  BY AccountedNext
<1> QED
  BY <1>1, <1>2, PullTyped, InvarianceBesideSyncs, PTL DEF PullSpec

LEMMA GoneSuperseded == ASSUME IInv, NEW f, Gone(f) PROVE Superseded(f, files)
<1>1. PICK q \in Profiles : /\ NameOf[q] = f.name
                            /\ Keep[q] > 0
                            /\ Cardinality({g \in Settled : Newer(g, f)}) >= Keep[q]
  BY DEF Gone
<1> DEFINE N == {g \in Settled : Newer(g, f)}
           T == {g \in files : Newer(g, f)}
<1>2. N \subseteq T /\ IsFiniteSet(T) /\ IsFiniteSet(N)
  BY SettledFinite, FS_Subset DEF Settled, IInv, Typed
<1>3. Cardinality(N) >= Keep[q] /\ Keep[q] \in Int
  BY <1>1, ProfilesAssumption
<1> HIDE DEF N, T
<1>4. Cardinality(N) <= Cardinality(T) /\ Cardinality(N) \in Nat /\ Cardinality(T) \in Nat
  BY <1>2, FS_Subset, FS_CardinalityType
<1>5. Cardinality(T) >= Keep[q]
  BY <1>3, <1>4
<1> QED
  BY <1>1, <1>5 DEF Superseded, T

\* Under the operating rule of the backup host, where the pulling host's own
\* operations do not fail but for the listing of ExpurgeDir, a sync fails only
\* because something it had listed has gone, and what was complete when listed has
\* gone only to a purge that left Keep newer archives, whatever has been running,
\* failing or crashing there in between.  A name whose glob does not compile fails
\* every sync.
THEOREM SyncsFailOnlyForGone ==
    /\ OperatingRule
    /\ SyncFaults \subseteq {"glob"}
    /\ \A q \in SyncProfiles : \A i \in DOMAIN q.dirs : q.dirs[i] \notin Uncompilable
    => (PullSpec => SyncFailsOnlyForGone)
<1> SUFFICES ASSUME OperatingRule, SyncFaults \subseteq {"glob"},
                    \A q \in SyncProfiles : \A i \in DOMAIN q.dirs : q.dirs[i] \notin Uncompilable
             PROVE  PullSpec => SyncFailsOnlyForGone
  OBVIOUS
<1>1. ASSUME IInv, SyncP!Typed, Accounted, [PullNext]_pullVars, sres # "failed", sres' = "failed"
      PROVE  /\ diff \ files # {}
             /\ \A f \in (diff \cap complete) \ files : Superseded(f, files)
  <2> USE DEF SyncP!MayFail, SyncP!Goto, SyncP!Return
  <2>1. \A f \in complete \ files : Superseded(f, files)
    BY <1>1, GoneSuperseded DEF Accounted, IInv, Typed, TypeOK
  <2>2. CASE UNCHANGED pullerVars
    BY <1>1, <2>2 DEF pullerVars
  <2>3. CASE \E q \in SyncProfiles : SyncP!SyncBegin(q)
    BY <1>1, <2>3 DEF SyncP!SyncBegin
  <2>4. CASE SyncP!SyncStep
    <3>1. ~SyncP!NextDir
      BY <1>1 DEF SyncP!NextDir
    <3>2. ~(SyncP!Prepare \/ SyncP!Connect \/ SyncP!ReadLocal)
      BY <1>1 DEF SyncP!Prepare, SyncP!Connect, SyncP!ReadLocal
    <3>3. ~SyncP!ReadRemote
      <4>1. SUFFICES ASSUME SyncP!ReadRemote PROVE FALSE
        OBVIOUS
      <4>2. sprof \in SyncProfiles /\ d \in 1 .. SyncP!NumDirs + 1 /\ d <= SyncP!NumDirs
        BY <1>1, <4>1 DEF SyncP!Typed, SyncP!TypeOK, SyncP!Passing, SyncP!ReadRemote
      <4>3. Len(sprof.dirs) \in Nat /\ DOMAIN sprof.dirs = 1 .. Len(sprof.dirs)
        BY <4>2, SyncAssumptions
      <4>4. sprof.dirs[d] \notin Uncompilable
        BY <4>2, <4>3 DEF SyncP!NumDirs
      <4> QED
        BY <1>1, <4>1, <4>4 DEF SyncP!ReadRemote
    <3>4. CASE SyncP!Download
      <4>1. diff \ files # {}
        BY <1>1, <3>4 DEF SyncP!Download
      <4> QED
        BY <2>1, <4>1
    <3>5. ~SyncP!Downloaded
      BY <1>1, <3>1 DEF SyncP!Downloaded
    <3>6. ~SyncP!Copy
      BY <1>1 DEF SyncP!Copy
    <3>7. ~SyncP!ListOld
      BY <1>1, <3>1 DEF SyncP!ListOld
    <3>8. ~SyncP!RemoveOld
      BY <1>1, <3>1 DEF SyncP!RemoveOld
    <3> QED
      BY <2>4, <3>2, <3>3, <3>4, <3>5, <3>6, <3>7, <3>8 DEF SyncP!SyncStep
  <2> QED
    BY <1>1, <2>2, <2>3, <2>4, PullCases
<1>2. IInv /\ (Typed /\ SyncP!Typed) /\ Accounted /\ [PullNext]_pullVars
        => [sres # "failed" /\ sres' = "failed" =>
              /\ diff \ files # {}
              /\ \A f \in (diff \cap complete) \ files : Superseded(f, files)]_pullVars
  BY <1>1
<1> QED
  BY <1>2, PullTyped, InvarianceBesideSyncs, AlwaysAccounted, PTL DEF PullSpec, SyncFailsOnlyForGone

-----------------------------------------------------------------------------
\* The archive being copied is found complete if the listing found it so, or is
\* caught; otherwise it never becomes complete.
Watching ==
    /\ caught \subseteq lfiles
    /\ cur # {} => spc = "copy"
    /\ \A f, g \in cur : f = g
    /\ \A f \in cur : /\ src \/ f \in caught \/ Dead(f)
                      /\ f \in complete => src

\* Whatever else is here and not complete is caught, or dead on the backup host.
PartialsDead == \A f \in lfiles \ (lgood \cup cur) : f \in caught \/ Dead(f)

\* What was complete when the remote directory was listed is complete here, or
\* caught, or has Keep newer ones, or is to be downloaded or being copied.
Pulled ==
    spc # "idle" \/ sres = "ok" =>
      \A f \in complete \ caught :
        \/ f \in lgood \/ f \in cur \/ SyncP!Superseded(f, lfiles)
        \/ spc \in {"download", "copy"} /\ f \in diff

\* Steps of the backup host.
LEMMA BackupKeepsPulled ==
    ASSUME OperatingRule, IInv, ZipPast, SyncP!Typed, Watching, PartialsDead, Pulled,
           [PullNext]_pullVars, UNCHANGED pullerVars
    PROVE  Watching' /\ PartialsDead' /\ Pulled'
<1>1. [Next]_vars
  BY PullSteps
<1>2. lfiles \subseteq File /\ cur \subseteq lfiles
  <2>1. lfiles \subseteq File
    BY SyncP!FileFacts, SyncAssumptions, NamesAssumption, GlobAssumption, MaxClockAssumption, SameFile
  <2> QED
    BY <2>1 DEF SyncP!Typed, SyncP!TypeOK
<1>3. \A f \in lfiles : Dead(f) => Dead(f)'
  BY <1>1, <1>2, DeadStays
<1>4. Watching'
  BY <1>2, <1>3 DEF Watching, pullerVars
<1>5. PartialsDead'
  BY <1>3 DEF PartialsDead, pullerVars
<1>6. Pulled'
  BY DEF Pulled, pullerVars, SyncP!Superseded
<1> QED
  BY <1>4, <1>5, <1>6

\* What the steps of the sync need from SftpSync's proofs.
LEMMA SyncFiles ==
    ASSUME SyncP!Typed
    PROVE  /\ lfiles \subseteq File /\ lgood \subseteq lfiles /\ SyncP!IsFiniteSet(lfiles)
           /\ diff \subseteq File /\ sprof.keep \in Int
<1>1. /\ lfiles \subseteq SyncP!File /\ lgood \subseteq lfiles /\ SyncP!IsFiniteSet(lfiles)
      /\ diff \subseteq SyncP!File
  BY SyncP!FileFacts, SyncAssumptions, NamesAssumption, GlobAssumption, MaxClockAssumption
<1>2. sprof.keep \in Int
  BY SyncP!DirFacts, SyncAssumptions, NamesAssumption, GlobAssumption, MaxClockAssumption
<1> QED
  BY <1>1, <1>2, SameFile

LEMMA SyncRemoval ==
    ASSUME SyncP!Typed, sprof.keep > 0, NEW x \in lfiles, SyncP!Superseded(x, lfiles)
    PROVE  /\ SyncP!Superseded(x, lfiles \ {x})
           /\ \A f \in File : SyncP!Superseded(f, lfiles) => SyncP!Superseded(f, lfiles \ {x})
BY SyncP!RemovalFacts, SyncAssumptions, NamesAssumption, GlobAssumption, MaxClockAssumption, SameFile

LEMMA SyncAddition ==
    ASSUME SyncP!Typed, NEW x \in File
    PROVE  \A f : SyncP!Superseded(f, lfiles) => SyncP!Superseded(f, lfiles \cup {x})
<1> DEFINE T == lfiles \cup {x}
<1>1. \A S : IsFiniteSet(S) <=> SyncP!IsFiniteSet(S)
  BY Zenon DEF IsFiniteSet, SyncP!IsFiniteSet
<1>2. \A S : Cardinality(S) = SyncP!Cardinality(S)
  BY Zenon DEF Cardinality, SyncP!Cardinality
<1>3. \A f, g : Newer(f, g) <=> SyncP!Newer(f, g)
  BY Zenon DEF Newer, SyncP!Newer
<1>4. IsFiniteSet(T)
  BY <1>1, SyncFiles, FS_AddElement
<1>5. lfiles \subseteq T /\ sprof.keep \in Int
  BY SyncFiles
<1> HIDE DEF T
<1>6. \A f : Cardinality({g \in lfiles : Newer(g, f)}) >= sprof.keep
               => Cardinality({g \in T : Newer(g, f)}) >= sprof.keep
  BY <1>4, <1>5, SupersededByMore
<1>7. ASSUME NEW S, NEW f
      PROVE  SyncP!Superseded(f, S)
               <=> sprof.keep > 0 /\ Cardinality({g \in S : Newer(g, f)}) >= sprof.keep
  <2>1. {g \in S : Newer(g, f)} = {g \in S : SyncP!Newer(g, f)}
    BY <1>3
  <2> QED
    BY <1>2, <2>1 DEF SyncP!Superseded
<1>8. \A f : SyncP!Superseded(f, lfiles) => SyncP!Superseded(f, T)
  BY <1>6, <1>7
<1> QED
  BY <1>8 DEF T

LEMMA SyncConsistentNext ==
    ASSUME PlainNames, SyncP!Typed, SyncP!Consistent, [PullNext]_pullVars
    PROVE  SyncP!Consistent'
<1>1. CASE UNCHANGED pullerVars
  BY <1>1 DEF SyncP!Consistent, SyncP!Superseded, SyncP!Name, pullerVars
<1>2. CASE SyncP!SyncStep \/ \E q \in SyncProfiles : SyncP!SyncBegin(q)
  <2>1. SyncP!Next /\ SyncP!PlainNames
    BY <1>2 DEF SyncP!Next, SyncP!PlainNames, PlainNames
  <2> QED
    BY <2>1, SyncP!ConsistentNext, SyncAssumptions, NamesAssumption, GlobAssumption,
       MaxClockAssumption
<1> QED
  BY <1>1, <1>2, PullCases

\* What SftpSync promises of a sync, where the remote host runs goback.  None of
\* it depends on what that host does, nor on the operating rule.
LEMMA SyncAlwaysConsistent ==
    ASSUME PlainNames PROVE PullSpec => [](SyncP!Typed /\ SyncP!Consistent)
<1>1. PullInit => SyncP!Consistent
  BY DEF PullInit, Sync!Init, SyncP!Consistent
<1>2. SyncP!Typed /\ SyncP!Consistent /\ [PullNext]_pullVars => SyncP!Consistent'
  BY SyncConsistentNext
<1> QED
  BY <1>1, <1>2, PullTyped, PTL DEF PullSpec

LEMMA SameSuperseded == \A f, S : SyncP!Superseded(f, S) <=> Sync!Superseded(f, S)
<1> SUFFICES ASSUME NEW f, NEW S PROVE SyncP!Superseded(f, S) <=> Sync!Superseded(f, S)
  OBVIOUS
<1>1. {g \in S : SyncP!Newer(g, f)} = {g \in S : Sync!Newer(g, f)}
  BY DEF Sync!Newer, SyncP!Newer
<1> QED
  BY <1>1, SameCardinality DEF Sync!Superseded, SyncP!Superseded

\* After a sync that reported success every archive the backup host's directory
\* showed is here or Keep newer ones are.
THEOREM PullMirrorsListing == PlainNames => (PullSpec => []Sync!MirrorsListing)
<1> SUFFICES ASSUME PlainNames PROVE PullSpec => []Sync!MirrorsListing
  OBVIOUS
<1>1. SyncP!Consistent => Sync!MirrorsListing
  BY SameSuperseded DEF SyncP!Consistent, Sync!MirrorsListing
<1> QED
  BY <1>1, SyncAlwaysConsistent, PTL

\* No step of the two hosts gives up a complete copy on the pulling one unless
\* Keep newer archives are there: purges of the backup host do not reach it.
THEOREM PullKeepsNewestCopies == PlainNames => (PullSpec => Sync!KeepsNewestCopies)
<1> SUFFICES ASSUME PlainNames PROVE PullSpec => Sync!KeepsNewestCopies
  OBVIOUS
<1>1. ASSUME SyncP!Typed, SyncP!Consistent, [PullNext]_pullVars, NEW f \in lgood \ lgood'
      PROVE  Sync!Superseded(f, lfiles')
  <2>1. SyncP!Next /\ SyncP!PlainNames
    <3>1. lgood' # lgood
      BY <1>1
    <3> QED
      BY <1>1, <3>1, PullCases DEF SyncP!Next, SyncP!PlainNames, PlainNames, pullerVars
  <2>2. SyncP!Superseded(f, lfiles')
    BY <1>1, <2>1, SyncP!CopyGivenUp, SyncAssumptions, NamesAssumption, GlobAssumption,
       MaxClockAssumption
  <2> QED
    BY <2>2, SameSuperseded
<1>2. (SyncP!Typed /\ SyncP!Consistent) /\ [PullNext]_pullVars
        => [\A f \in lgood \ lgood' : Sync!Superseded(f, lfiles')]_(Sync!vars)
  BY <1>1
<1> QED
  BY <1>2, SyncAlwaysConsistent, PTL DEF PullSpec, Sync!KeepsNewestCopies

\* With complete listings no more than Keep archives of each name are left on the
\* pulling host after a success.
THEOREM PullRetentionBounded ==
    PlainNames /\ "glob" \notin SyncFaults => (PullSpec => []Sync!LocalRetention)
<1> SUFFICES ASSUME PlainNames, "glob" \notin SyncFaults PROVE PullSpec => []Sync!LocalRetention
  OBVIOUS
<1>1. PullInit => SyncP!Retained
  BY DEF PullInit, Sync!Init, SyncP!Retained, SyncP!DoneBounded, SyncP!Passing
<1>2. ASSUME SyncP!Typed, SyncP!Consistent, SyncP!Retained, [PullNext]_pullVars
      PROVE  SyncP!Retained'
  <2>1. CASE UNCHANGED pullerVars
    BY <1>2, <2>1, Zenon
    DEF SyncP!Retained, SyncP!DoneBounded, SyncP!Bounded, SyncP!Own, SyncP!Name, SyncP!NumDirs,
        SyncP!Passing, pullerVars
  <2>2. CASE SyncP!SyncStep \/ \E q \in SyncProfiles : SyncP!SyncBegin(q)
    <3>1. SyncP!Next /\ SyncP!PlainNames
      BY <2>2 DEF SyncP!Next, SyncP!PlainNames, PlainNames
    <3> QED
      BY <1>2, <3>1, SyncP!RetainedNext, SyncAssumptions, NamesAssumption, GlobAssumption,
         MaxClockAssumption
  <2> QED
    BY <1>2, <2>1, <2>2, PullCases
<1>3. ASSUME SyncP!Typed, SyncP!Consistent, SyncP!Retained PROVE Sync!LocalRetention
  <2>1. SyncP!LocalRetention
    BY <1>3, SyncP!RetainedBounds, SyncAssumptions, NamesAssumption, GlobAssumption,
       MaxClockAssumption
  <2> QED
    BY <2>1, SameCardinality DEF Sync!LocalRetention, SyncP!LocalRetention
<1>4. (SyncP!Typed /\ SyncP!Consistent) /\ SyncP!Retained /\ [PullNext]_pullVars => SyncP!Retained'
  BY <1>2
<1>5. (SyncP!Typed /\ SyncP!Consistent) /\ SyncP!Retained => Sync!LocalRetention
  BY <1>3
<1> QED
  BY <1>1, <1>4, <1>5, SyncAlwaysConsistent, PTL DEF PullSpec

\* Steps of the sync.
LEMMA SyncKeepsPulled ==
    ASSUME "copy" \notin SyncFaults, PlainNames, TypeOK,
           SyncP!Typed, SyncP!Typed', SyncP!Consistent, Accounted, Watching, PartialsDead, Pulled,
           UNCHANGED vars, Noted,
           SyncP!SyncStep \/ \E q \in SyncProfiles : SyncP!SyncBegin(q)
    PROVE  Watching' /\ PartialsDead' /\ Pulled'
<1> USE DEF SyncP!Goto, SyncP!Return, SyncP!remoteVars, SyncP!localVars, SyncP!runVars,
            SyncP!historyVars
<1>1. /\ UNCHANGED <<files, good, pc, zip, clock>>
      /\ \A f : Dead(f)' <=> Dead(f)
  BY DEF vars, Dead
<1>2. /\ lfiles \subseteq File /\ lgood \subseteq lfiles /\ diff \subseteq File
      /\ good \subseteq files /\ complete \subseteq listed /\ listed \subseteq File
  <2>1. complete \subseteq listed /\ listed \subseteq File
    BY SyncP!FileFacts, SyncAssumptions, NamesAssumption, GlobAssumption, MaxClockAssumption, SameFile
  <2> QED
    BY <2>1, SyncFiles DEF TypeOK
<1>c. /\ caught \subseteq lfiles /\ caught' \subseteq lfiles'
      /\ \A f \in caught : f \in lfiles' => f \in caught'
      /\ cur' \subseteq cur => caught' = caught \cap lfiles'
  <2>1. cur' \subseteq lfiles'
    BY Zenon DEF SyncP!Typed, SyncP!TypeOK
  <2>2. caught \subseteq lfiles
    BY DEF Watching
  <2> QED
    BY <2>1, <2>2 DEF Noted
<1>3. ASSUME UNCHANGED <<lfiles, lgood, complete, diff, cur, src, sprof>>, cur = {},
             \/ spc # "idle" /\ spc' = "idle" /\ sres' # "ok"
             \/ spc # "idle" /\ (spc \in {"download", "copy"} => diff = {} \/ spc' = "download")
      PROVE  Watching' /\ PartialsDead' /\ Pulled'
  <2>0. caught' = caught
    BY <1>c, <1>3
  <2>1. Watching' /\ PartialsDead'
    BY <1>1, <1>3, <2>0 DEF Watching, PartialsDead
  <2>2. Pulled'
    BY <1>3, <2>0 DEF Pulled, SyncP!Superseded
  <2> QED
    BY <2>1, <2>2
<1>4. ASSUME SyncP!NextDir PROVE sprof' = sprof
  BY <1>4 DEF SyncP!NextDir
<1>5. ASSUME NEW q \in SyncProfiles, SyncP!SyncBegin(q) PROVE Watching' /\ PartialsDead' /\ Pulled'
  <2>1. UNCHANGED <<lfiles, lgood>> /\ cur = {} /\ cur' = {} /\ complete' = {}
    BY <1>5 DEF SyncP!SyncBegin, SyncP!Reset, Watching
  <2>2. caught' = caught
    BY <1>c, <2>1
  <2> QED
    BY <1>1, <2>1, <2>2 DEF Watching, PartialsDead, Pulled
<1>6. CASE SyncP!Prepare \/ SyncP!Connect \/ SyncP!ReadLocal
  <2>1. /\ UNCHANGED <<lfiles, lgood, complete, diff, cur, src, sprof>>
        /\ spc \in {"prepare", "connect", "local"}
    BY <1>6, Zenon DEF SyncP!Prepare, SyncP!Connect, SyncP!ReadLocal
  <2> QED
    BY <1>3, <2>1 DEF Watching
<1>7. CASE SyncP!ReadRemote
  <2> DEFINE M == {f \in files : f.name \in Matches[sprof.dirs[d]]}
  <2>1. UNCHANGED <<lfiles, lgood, cur, src, sprof>> /\ spc = "remote" /\ cur = {} /\ locals = lfiles
    BY <1>7 DEF SyncP!ReadRemote, Watching, SyncP!Consistent
  <2>2. CASE spc' = "idle" /\ sres' = "failed" /\ UNCHANGED <<diff, complete>>
    BY <1>3, <2>1, <2>2
  <2>3. CASE spc' = "download" /\ diff' = M \ locals /\ complete' = complete \cup (M \cap good)
    <3> HIDE DEF M
    <3>1. caught' = caught
      BY <1>c, <2>1
    <3>2. \A f \in M \cap good : f \in lgood \/ f \in caught \/ f \in diff'
      BY <2>1, <2>3 DEF PartialsDead, Dead
    <3>3. PartialsDead'
      BY <1>1, <2>1, <3>1 DEF PartialsDead
    <3>4. Watching'
      BY <2>1, <3>1 DEF Watching
    <3>5. Pulled'
      BY <2>1, <2>3, <3>1, <3>2 DEF Pulled, SyncP!Superseded
    <3> QED
      BY <3>3, <3>4, <3>5
  <2> QED
    BY <1>7, <2>2, <2>3 DEF SyncP!ReadRemote, SyncP!findDifferentProfiles
<1>8. CASE SyncP!Download
  <2>1. spc = "download" /\ cur = {} /\ UNCHANGED <<complete, sprof>>
    BY <1>8 DEF SyncP!Download, Watching
  <2>2. CASE spc' = "idle" /\ sres' = "failed" /\ UNCHANGED <<lfiles, lgood, diff, cur, src>>
    BY <1>3, <2>1, <2>2
  <2>3. ASSUME NEW f \in diff, f \in files, lfiles' = lfiles \cup {f}, lgood' = lgood \ {f},
               diff' = diff \ {f}, cur' = {f}, src' = (f \in good), spc' = "copy"
        PROVE  Watching' /\ PartialsDead' /\ Pulled'
    <3>1. f \notin lfiles /\ lgood' = lgood
      BY <1>2, <2>1, <2>3 DEF SyncP!Consistent
    <3>2. src' <=> f \in good
      <4> HIDE DEF Watching
      <4> QED BY <2>3
    <3>3. Watching'
      <4>1. f \in complete' => src'
        BY <2>1, <2>3, <3>2 DEF Accounted, Gone
      <4>2. f \in Unfinished => f \in caught'
        BY <2>1, <2>3 DEF Noted
      <4>3. src' \/ f \in caught' \/ Dead(f)
        BY <2>3, <3>2, <4>2 DEF Dead, Unfinished
      <4> QED
        BY <1>1, <1>c, <2>3, <4>1, <4>3 DEF Watching
    <3>4. PartialsDead'
      BY <1>1, <1>c, <2>1, <2>3, <3>1 DEF PartialsDead
    <3>5. \A g : SyncP!Superseded(g, lfiles) => SyncP!Superseded(g, lfiles')
      BY <1>2, <2>3, SyncAddition
    <3>6. \A g : SyncP!Superseded(g, lfiles)' <=> SyncP!Superseded(g, lfiles')
      BY <2>1 DEF SyncP!Superseded
    <3>7. \A g \in complete \ caught' :
            g \in lgood' \/ g \in cur' \/ SyncP!Superseded(g, lfiles') \/ g \in diff'
      <4>1. caught \subseteq caught'
        BY <1>c, <2>3
      <4> QED
        BY <2>1, <2>3, <3>1, <3>5, <4>1 DEF Pulled
    <3>8. Pulled'
      BY <2>1, <2>3, <3>6, <3>7 DEF Pulled
    <3> QED
      BY <3>3, <3>4, <3>8
  <2> QED
    BY <1>8, <2>2, <2>3 DEF SyncP!Download
<1>9. CASE SyncP!Downloaded
  <2>1. /\ UNCHANGED <<lfiles, lgood, complete, diff, cur, src, sprof>>
        /\ spc = "download" /\ diff = {}
    BY <1>4, <1>9 DEF SyncP!Downloaded
  <2> QED
    BY <1>3, <2>1 DEF Watching
<1>10. CASE SyncP!Copy
  <2>1. spc = "copy" /\ cur' = {} /\ UNCHANGED <<lfiles, diff, complete, sprof>>
    BY <1>10 DEF SyncP!Copy
  <2>2. PICK f \in cur : \/ lgood' = lgood \cup {f} /\ (src \/ f \in good)
                         \/ lgood' = lgood /\ ~src
    BY <1>10 DEF SyncP!Copy, SyncP!MayFail
  <2>3. spc' = "download" \/ (spc' = "idle" /\ sres' = "failed")
    BY <1>10, Zenon DEF SyncP!Copy
  <2>4. cur = {f} /\ caught' = caught
    BY <1>c, <2>1, <2>2 DEF Watching
  <2>5. f \in lgood' \/ (~src /\ (f \in caught \/ Dead(f)))
    BY <2>2 DEF Watching
  <2>6. Watching'
    BY <1>1, <1>c, <2>1 DEF Watching
  <2>7. lgood \subseteq lgood'
    BY <2>2
  <2>8. PartialsDead'
    BY <1>1, <2>1, <2>4, <2>5, <2>7 DEF PartialsDead
  <2>9. \A g \in complete \ caught : g \in lgood' \/ SyncP!Superseded(g, lfiles) \/ g \in diff
    BY <2>1, <2>2, <2>4, <2>5, <2>7 DEF Pulled, Watching
  <2>10. Pulled'
    BY <2>1, <2>3, <2>4, <2>9 DEF Pulled, SyncP!Superseded
  <2> QED
    BY <2>6, <2>8, <2>10
<1>11. CASE SyncP!ListOld
  <2>1. UNCHANGED <<lfiles, lgood, complete, diff, cur, src, sprof>> /\ spc = "list"
    BY <1>4, <1>11 DEF SyncP!ListOld
  <2> QED
    BY <1>3, <2>1 DEF Watching
<1>12. CASE SyncP!RemoveOld
  <2>1. UNCHANGED <<complete, diff, cur, src, sprof>> /\ spc = "remove" /\ cur = {}
    BY <1>4, <1>12 DEF SyncP!RemoveOld, Watching
  <2>2. CASE UNCHANGED <<lfiles, lgood>>
    BY <1>3, <2>1, <2>2
  <2>3. ASSUME NEW x \in sdel, lfiles' = lfiles \ {x}, lgood' = lgood \ {x}
        PROVE  Watching' /\ PartialsDead' /\ Pulled'
    <3>1. x \in lfiles /\ sprof.keep > 0 /\ SyncP!Superseded(x, lfiles)
      BY <2>1, <2>3 DEF SyncP!Consistent
    <3>2. /\ SyncP!Superseded(x, lfiles')
          /\ \A f \in File : SyncP!Superseded(f, lfiles) => SyncP!Superseded(f, lfiles')
      BY <2>3, <3>1, SyncRemoval
    <3>3. \A f \in complete \ caught' : f \in lgood' \/ SyncP!Superseded(f, lfiles')
      <4>1. \A f \in caught : f = x \/ f \in caught'
        BY <1>c, <2>3
      <4> QED
        BY <1>2, <2>1, <2>3, <3>2, <4>1 DEF Pulled
    <3>4. Watching'
      BY <1>1, <1>c, <2>1 DEF Watching
    <3>5. PartialsDead'
      BY <1>1, <1>c, <2>1, <2>3 DEF PartialsDead
    <3>6. Pulled'
      BY <2>1, <3>3 DEF Pulled, SyncP!Superseded
    <3> QED
      BY <3>4, <3>5, <3>6
  <2> QED
    BY <1>12, <2>2, <2>3 DEF SyncP!RemoveOld
<1> QED
  BY <1>5, <1>6, <1>7, <1>8, <1>9, <1>10, <1>11, <1>12 DEF SyncP!SyncStep

\* Under the operating rule of the backup host, where no download breaks off, a
\* sync that reports success has pulled what was complete, whatever runs meanwhile:
\* the partial archive of a failed or killed run that an earlier sync has brought,
\* and findDifferentProfiles takes for the archive, never becomes complete on the
\* backup host.  Only what was opened while a run had it unfinished is excepted.
THEOREM SyncsPullWhatWasComplete ==
    OperatingRule /\ "copy" \notin SyncFaults => (PullSpec => []PulledWhatWasComplete)
<1> SUFFICES ASSUME OperatingRule, "copy" \notin SyncFaults
             PROVE  PullSpec => []PulledWhatWasComplete
  OBVIOUS
<1> DEFINE Inv == SyncP!Consistent /\ ZipPast /\ Watching /\ PartialsDead /\ Pulled
<1>1. PullInit => Inv
  <2>1. Sync!Init => SyncP!Consistent
    BY DEF Sync!Init, SyncP!Consistent
  <2>2. PullInit => ZipPast
    BY DEF PullInit, Init, ZipPast, Holding
  <2> QED
    BY <2>1, <2>2 DEF PullInit, Sync!Init, Watching, PartialsDead, Pulled
<1>2. ASSUME IInv, SyncP!Typed, SyncP!Typed', Accounted, Inv, [PullNext]_pullVars PROVE Inv'
  <2>1. SyncP!Consistent'
    BY <1>2, SyncConsistentNext DEF OperatingRule
  <2>2. ZipPast'
    BY <1>2, PullSteps, ZipPastNext
  <2>3. CASE UNCHANGED pullerVars
    BY <1>2, <2>1, <2>2, <2>3, BackupKeepsPulled
  <2>4. CASE UNCHANGED vars /\ Noted /\ (SyncP!SyncStep \/ \E q \in SyncProfiles : SyncP!SyncBegin(q))
    BY <1>2, <2>1, <2>2, <2>4, SyncKeepsPulled DEF OperatingRule, IInv, Typed
  <2> QED
    BY <1>2, <2>3, <2>4, PullCases
<1>3. ASSUME Inv PROVE PulledWhatWasComplete
  <2>1. spc = "idle" => cur = {}
    BY <1>3 DEF Watching
  <2> QED
    BY <1>3, <2>1, SameSuperseded DEF Pulled, PulledWhatWasComplete
<1> HIDE DEF Inv
<1>4. IInv /\ (Typed /\ SyncP!Typed) /\ (Typed /\ SyncP!Typed)' /\ Accounted /\ Inv
        /\ [PullNext]_pullVars => Inv'
  BY <1>2
<1>5. Inv => PulledWhatWasComplete
  BY <1>3
<1> QED
  BY <1>1, <1>4, <1>5, PullTyped, AlwaysAccounted, InvarianceBesideSyncs, PTL DEF PullSpec
=============================================================================
