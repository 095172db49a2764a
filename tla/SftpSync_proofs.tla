-------------------------- MODULE SftpSync_proofs --------------------------
(***************************************************************************)
(* Proofs about SftpSync, for every set of profiles, archives and faults,  *)
(* and whatever the remote host does.                                      *)
(***************************************************************************)
EXTENDS SftpSync, Archives_proofs

-----------------------------------------------------------------------------
\* Where the process is in its pass over a directory of the profile.
Passing == {"local", "remote", "download", "copy", "list", "remove"}
Name == sprof.dirs[d]

\* The type invariant, made inductive.
Typed ==
    /\ TypeOK
    /\ IsFiniteSet(lfiles)
    /\ cur # {} => spc \in {"copy", "idle"}
    /\ spc \in Passing => d <= NumDirs
    /\ spc = "idle" /\ sres = "ok" => d = NumDirs + 1
    /\ spc \in {"prepare", "connect"} => d = 1

LEMMA ProfileFacts ==
    ASSUME NEW q \in SyncProfiles
    PROVE  /\ Len(q.dirs) \in Nat /\ q.keep \in Int
           /\ \A i \in 1 .. Len(q.dirs) : q.dirs[i] \in Names
           /\ q.dirs = <<>> <=> Len(q.dirs) = 0
           /\ DOMAIN q.dirs = 1 .. Len(q.dirs)
<1>1. ASSUME NEW s \in Seq(Names)
      PROVE  /\ Len(s) \in Nat /\ \A i \in 1 .. Len(s) : s[i] \in Names
             /\ s = <<>> <=> Len(s) = 0
             /\ DOMAIN s = 1 .. Len(s)
  OBVIOUS
<1>2. q.dirs \in Seq(Names) /\ q.keep \in Int
  BY SyncAssumption
<1> QED
  BY <1>1, <1>2

LEMMA DirFacts ==
    ASSUME Typed
    PROVE  /\ NumDirs \in Nat /\ d \in Nat /\ d >= 1 /\ d <= NumDirs + 1 /\ sprof.keep \in Int
           /\ (sprof.dirs = <<>> <=> NumDirs = 0)
           /\ \A i \in 1 .. NumDirs : sprof.dirs[i] \in Names
           /\ spc \in Passing => d \in 1 .. NumDirs /\ Name \in Names
<1>1. sprof \in SyncProfiles /\ d \in 1 .. NumDirs + 1 /\ (spc \in Passing => d <= NumDirs)
  BY DEF Typed, TypeOK
<1>2. NumDirs \in Nat /\ sprof.keep \in Int /\ (sprof.dirs = <<>> <=> NumDirs = 0)
      /\ \A i \in 1 .. NumDirs : sprof.dirs[i] \in Names
  BY <1>1, ProfileFacts DEF NumDirs
<1> QED
  BY <1>1, <1>2 DEF Name

\* What Typed says of the files.
LEMMA FileFacts ==
    ASSUME Typed
    PROVE  /\ lfiles \subseteq File /\ lgood \subseteq lfiles /\ IsFiniteSet(lfiles)
           /\ rfiles \subseteq File /\ rgood \subseteq rfiles
           /\ locals \subseteq File /\ diff \subseteq File /\ cur \subseteq lfiles
           /\ sdel \subseteq File /\ listed \subseteq File /\ complete \subseteq listed
BY Zenon DEF Typed, TypeOK

LEMMA TypedInit == Init => Typed
<1> SUFFICES ASSUME Init PROVE Typed
  OBVIOUS
<1>1. sprof \in SyncProfiles
  BY SyncAssumption DEF Init
<1>2. NumDirs \in Nat
  BY <1>1, ProfileFacts DEF NumDirs
<1>3. /\ rfiles \subseteq File /\ rgood = rfiles /\ lfiles = {} /\ lgood = {} /\ cur = {}
      /\ spc = "idle" /\ d = 1 /\ sres = "none" /\ locals = {} /\ diff = {} /\ sdel = {}
      /\ listed = {} /\ complete = {} /\ src = FALSE
  BY DEF Init
<1>4. IsFiniteSet(lfiles)
  BY <1>3, FS_EmptySet
<1>5. src \in BOOLEAN
  BY <1>3
<1>6. d \in 1 .. NumDirs + 1
  BY <1>2, <1>3
<1>7. rfiles \subseteq File /\ rgood \subseteq rfiles /\ lfiles \subseteq File /\ lgood \subseteq lfiles
      /\ spc \in SyncLocations /\ locals \subseteq File /\ diff \subseteq File /\ cur \subseteq lfiles
  BY <1>3 DEF SyncLocations
<1>8. sdel \subseteq File /\ sres \in {"none", "ok", "failed", "crashed"} /\ listed \subseteq File
      /\ complete \subseteq listed
  BY <1>3
<1>9. TypeOK
  BY <1>1, <1>5, <1>6, <1>7, <1>8 DEF TypeOK
<1> QED
  BY <1>3, <1>4, <1>9 DEF Typed, Passing

\* The steps that leave the loop over prfl.Dirs or begin another pass.
LEMMA NextDirFacts ==
    ASSUME Typed, spc \in Passing, NextDir
    PROVE  /\ sprof' = sprof /\ d' = d + 1 /\ d' \in 1 .. NumDirs + 1
           /\ \/ spc' = "local" /\ d' <= NumDirs /\ sres' = sres
              \/ spc' = "idle" /\ sres' \in {"ok", "failed"} /\ d' = NumDirs + 1
BY DirFacts DEF NextDir, Goto, Return

LEMMA TypedNext == ASSUME Typed, [Next]_vars PROVE Typed'
<1> USE DEF Typed, TypeOK, SyncLocations, Goto, Return, localVars, remoteVars, runVars,
            historyVars
<1>0. sprof' = sprof => NumDirs' = NumDirs
  BY DEF NumDirs
<1>1. /\ NumDirs \in Nat /\ d \in Nat /\ d >= 1 /\ d <= NumDirs + 1 /\ sprof.keep \in Int
      /\ (sprof.dirs = <<>> <=> NumDirs = 0)
  BY DirFacts
<1>2. ASSUME NEW q \in SyncProfiles, SyncBegin(q) PROVE Typed'
  <2>1. NumDirs' \in Nat
    BY <1>2, ProfileFacts DEF SyncBegin, NumDirs
  <2>2. d' \in 1 .. NumDirs' + 1
    <3>1. d' = 1
      BY <1>2 DEF SyncBegin, Reset
    <3>2. PICK m \in Nat : NumDirs' = m
      BY <2>1
    <3>3. 1 \in 1 .. m + 1
      OBVIOUS
    <3> QED
      BY <3>1, <3>2, <3>3
  <2>3. src' \in BOOLEAN
    BY <1>2 DEF SyncBegin, Reset
  <2>4. /\ UNCHANGED <<rfiles, rgood, lfiles, lgood>> /\ spc' = "prepare" /\ sprof' = q /\ sres' = "none"
        /\ d' = 1 /\ locals' = {} /\ diff' = {} /\ cur' = {} /\ sdel' = {}
        /\ listed' = {} /\ complete' = {}
    BY <1>2 DEF SyncBegin, Reset
  <2>5. TypeOK'
    BY <2>2, <2>3, <2>4
  <2>6. IsFiniteSet(lfiles')
    BY <2>4
  <2> HIDE DEF TypeOK
  <2> QED
    BY <2>4, <2>5, <2>6 DEF Passing
<1>3. CASE Prepare
  BY <1>0, <1>3 DEF Prepare, Passing
<1>4. CASE Connect
  BY <1>0, <1>1, <1>4 DEF Connect, Passing
<1>5. CASE ReadLocal
  BY <1>0, <1>5 DEF ReadLocal, Passing
<1>6. CASE ReadRemote
  BY <1>0, <1>6 DEF ReadRemote, findDifferentProfiles, Passing
<1>7. CASE Download
  <2>1. PICK f \in diff :
         \/ /\ lfiles' = lfiles \cup {f} /\ lgood' = lgood \ {f}
            /\ diff' = diff \ {f} /\ cur' = {f} /\ Goto("copy")
         \/ Return("failed") /\ UNCHANGED <<localVars, diff, cur>>
    BY <1>7 DEF Download
  <2>2. IsFiniteSet(lfiles')
    BY <2>1, FS_AddElement
  <2>3. spc = "download" /\ UNCHANGED <<remoteVars, d, locals, sdel, historyVars>> /\ cur = {}
    BY <1>0, <1>7 DEF Download
  <2>4. src' \in BOOLEAN
    <3>1. src' = src \/ \E g \in diff : src' = (g \in rgood)
      BY <1>7 DEF Download
    <3>2. ASSUME NEW g \in diff, src' = (g \in rgood) PROVE src' \in BOOLEAN
      <4> HIDE DEF Typed, TypeOK
      <4> QED BY <3>2
    <3> QED
      BY <3>1, <3>2
  <2>5. lfiles' \subseteq File /\ lgood' \subseteq lfiles' /\ diff' \subseteq File /\ cur' \subseteq lfiles'
    BY <2>1, <2>3
  <2>6. /\ sprof' = sprof
        /\ \/ spc' = "copy" /\ sres' = sres
           \/ spc' = "idle" /\ sres' = "failed" /\ cur' = {}
    BY <2>1, <2>3
  <2> HIDE DEF Goto, Return, localVars
  <2>7. NumDirs' = NumDirs /\ d' = d
    BY <1>0, <2>3, <2>6
  <2>8. UNCHANGED <<rfiles, rgood, locals, sdel, listed, complete>> /\ spc' \in SyncLocations
        /\ sres' \in {"none", "ok", "failed", "crashed"} /\ d' \in 1 .. NumDirs' + 1
    BY <2>3, <2>6, <2>7
  <2>9. TypeOK'
    BY <2>4, <2>5, <2>6, <2>8
  <2> HIDE DEF TypeOK
  <2> QED
    BY <1>1, <2>2, <2>3, <2>6, <2>7, <2>9 DEF Passing
<1>8. CASE Downloaded
  <2>1. /\ UNCHANGED <<remoteVars, localVars, locals, diff, cur, src, sdel, historyVars>>
        /\ spc = "download"
    BY <1>0, <1>8 DEF Downloaded
  <2>2. CASE Goto("list") /\ UNCHANGED d
    BY <1>0, <2>1, <2>2 DEF Passing
  <2>3. CASE NextDir
    BY <1>0, <1>1, <2>1, <2>3, NextDirFacts DEF Passing
  <2> QED
    BY <1>8, <2>2, <2>3 DEF Downloaded
<1>9. CASE Copy
  <2>1. /\ UNCHANGED <<remoteVars, lfiles, d, locals, diff, sdel, historyVars>>
        /\ spc = "copy" /\ cur' = {} /\ src' = FALSE
        /\ sprof' = sprof
        /\ \/ spc' = "download" /\ sres' = sres
           \/ spc' = "idle" /\ sres' = "failed"
        /\ lgood' \subseteq lgood \cup cur
    BY <1>0, <1>9 DEF Copy
  <2> QED
    BY <1>0, <2>1 DEF Passing
<1>10. CASE ListOld
  <2>1. UNCHANGED <<remoteVars, localVars, locals, diff, cur, src, historyVars>> /\ spc = "list"
    BY <1>0, <1>10 DEF ListOld
  <2>2. sdel' \subseteq File
    <3>1. \A seen \in Listings : \A n, k : findToDelete(seen, n, k) \subseteq File
      BY DEF Listings, findToDelete
    <3> QED
      BY <1>10, <3>1 DEF ListOld
  <2>3. CASE NextDir
    BY <1>0, <1>1, <2>1, <2>2, <2>3, NextDirFacts DEF Passing
  <2>4. CASE (Goto("remove") \/ Return("failed")) /\ UNCHANGED d
    BY <1>0, <2>1, <2>2, <2>4 DEF Passing
  <2> QED
    BY <1>10, <2>3, <2>4 DEF ListOld
<1>11. CASE RemoveOld
  <2>1. UNCHANGED <<remoteVars, locals, diff, cur, src, historyVars>> /\ spc = "remove" /\ cur = {}
    BY <1>0, <1>11 DEF RemoveOld
  <2>2. PICK f \in sdel :
         \/ /\ lfiles' = lfiles \ {f} /\ lgood' = lgood \ {f} /\ sdel' = sdel \ {f}
            /\ NextDir \/ (Goto("remove") /\ UNCHANGED d)
         \/ Return("failed") /\ UNCHANGED <<localVars, sdel, d>>
    BY <1>0, <1>11 DEF RemoveOld
  <2>3. IsFiniteSet(lfiles')
    BY <2>2, FS_RemoveElement
  <2>4. lfiles' \subseteq File /\ lgood' \subseteq lfiles' /\ sdel' \subseteq File
    BY <2>2
  <2>5. CASE NextDir
    BY <1>0, <1>1, <2>1, <2>3, <2>4, <2>5, NextDirFacts DEF Passing
  <2>6. CASE (Goto("remove") \/ Return("failed")) /\ UNCHANGED d
    BY <1>0, <2>1, <2>3, <2>4, <2>6 DEF Passing
  <2> QED
    BY <2>2, <2>5, <2>6
<1>12. CASE SyncCrash
  BY <1>0, <1>12 DEF SyncCrash, Passing
<1>13. CASE RemoteChanges
  BY <1>0, <1>13 DEF RemoteChanges, RemoteStarts, RemoteCompletes, RemoteRemoves, syncVars
<1>14. CASE UNCHANGED vars
  BY <1>0, <1>14 DEF vars, syncVars
<1> QED
  BY <1>2, <1>3, <1>4, <1>5, <1>6, <1>7, <1>8, <1>9, <1>10, <1>11, <1>12, <1>13, <1>14
  DEF Next, SyncStep

\* Whatever the remote host does and whatever fails, the state stays well-typed:
\* what counts as a complete copy is in the destination.
THEOREM TypeCorrect == Spec => []TypeOK
<1>1. Typed => TypeOK
  BY DEF Typed
<1> QED
  BY <1>1, TypedInit, TypedNext, PTL DEF Spec

-----------------------------------------------------------------------------
\* Where names match only themselves: the local listing is what is there when
\* the remote one is read; what is still to be downloaded is not there; every
\* listed archive is there, or to be downloaded, or has Keep newer ones; and
\* what is to be removed has.
Consistent ==
    /\ spc = "remote" => locals = lfiles
    /\ spc \in {"download", "copy"} => \A f \in diff : f \notin lfiles /\ f.name = Name
    /\ spc # "idle" \/ sres = "ok" =>
         \A f \in listed : \/ f \in lfiles \/ Superseded(f, lfiles)
                           \/ spc \in {"download", "copy"} /\ f \in diff
    /\ spc \in {"list", "remove"} => sprof.keep > 0
    /\ spc = "remove" => \A f \in sdel : f \in lfiles /\ f.name = Name /\ Superseded(f, lfiles)

\* What ExpurgeDir's selection returns.
LEMMA SelectionFacts ==
    ASSUME PlainNames, Typed, Consistent, spc = "list", NEW seen \in Listings
    PROVE  /\ \A f \in findToDelete(seen, Name, sprof.keep) :
                f \in lfiles /\ f.name = Name /\ Superseded(f, lfiles)
           /\ seen = lfiles =>
                Cardinality({f \in lfiles : f.name = Name} \ findToDelete(seen, Name, sprof.keep))
                  <= sprof.keep
<1>1. seen \in SUBSET lfiles /\ lfiles \in SUBSET File /\ IsFiniteSet(lfiles)
  BY FileFacts DEF Listings
<1>2. sprof.keep \in Nat \ {0} /\ Name \in Names /\ sprof.keep > 0
  BY DirFacts DEF Consistent, Passing
<1>3. ASSUME NEW n \in Names, NEW k \in Nat \ {0}
      PROVE  /\ findToDelete(seen, n, k) \subseteq {f \in lfiles : f.name = n}
             /\ \A f \in findToDelete(seen, n, k) : Cardinality({g \in lfiles : Newer(g, f)}) >= k
             /\ seen = lfiles =>
                  Cardinality({f \in lfiles : f.name = n} \ findToDelete(seen, n, k)) <= k
  BY <1>1, <1>3, FindToDelete
<1> QED
  BY <1>2, <1>3 DEF Superseded

\* Removing an archive that has Keep newer ones.
LEMMA RemovalFacts ==
    ASSUME Typed, sprof.keep > 0, NEW x \in lfiles, Superseded(x, lfiles)
    PROVE  /\ Superseded(x, lfiles \ {x})
           /\ \A f \in File : Superseded(f, lfiles) => Superseded(f, lfiles \ {x})
<1>1. lfiles \in SUBSET File /\ IsFiniteSet(lfiles) /\ sprof.keep \in Int
  BY DirFacts, FileFacts
<1> QED
  BY <1>1, StillSuperseded DEF Superseded

LEMMA ConsistentNext == ASSUME PlainNames, Typed, Consistent, [Next]_vars PROVE Consistent'
<1> USE DEF Goto, Return, localVars, remoteVars, runVars, historyVars
<1>0. /\ lfiles \subseteq File /\ listed \subseteq File /\ IsFiniteSet(lfiles)
      /\ diff \subseteq File /\ sprof.keep \in Int
  BY DirFacts, FileFacts
<1>1. ASSUME UNCHANGED <<lfiles, diff, listed, sdel, sprof, d, locals>>,
             \/ UNCHANGED <<spc, sres>>
             \/ spc' = "idle" /\ sres' # "ok"
             \/ /\ spc # "idle" /\ spc' \notin {"idle", "remote", "download", "copy", "list", "remove"}
                /\ spc \notin {"download", "copy"} \/ diff = {}
      PROVE  Consistent'
  BY <1>1 DEF Consistent, Superseded, Name
<1>2. ASSUME NextDir, UNCHANGED <<lfiles, listed, diff, locals>>, spc \in Passing,
             spc \in {"download", "copy"} => diff = {}
      PROVE  Consistent'
  <2>1. sprof' = sprof /\ ((spc' = "local" /\ sres' = sres) \/ (spc' = "idle" /\ sres' \in {"ok", "failed"}))
    BY <1>2, NextDirFacts
  <2>2. \A f \in listed : f \in lfiles \/ Superseded(f, lfiles)
    BY <1>2 DEF Consistent, Passing
  <2> QED
    BY <1>2, <2>1, <2>2 DEF Consistent, Superseded
<1>3. ASSUME NEW q \in SyncProfiles, SyncBegin(q) PROVE Consistent'
  BY <1>3 DEF SyncBegin, Reset, Consistent
<1>4. CASE Prepare
  BY <1>1, <1>4 DEF Prepare
<1>5. CASE Connect
  <2>1. UNCHANGED <<lfiles, diff, listed, sdel, sprof, d, locals>> /\ spc = "connect"
        /\ (spc' = "local" \/ (spc' = "idle" /\ sres' \in {"ok", "failed"}))
    BY <1>5, Zenon DEF Connect
  <2> QED
    BY <2>1 DEF Consistent, Superseded
<1>6. CASE ReadLocal
  BY <1>6 DEF ReadLocal, Consistent, Superseded, Name
<1>7. CASE ReadRemote
  <2> DEFINE M == {f \in rfiles : f.name \in Matches[Name]}
  <2>1. CASE /\ diff' = M \ locals /\ listed' = listed \cup M
             /\ spc' = "download" /\ UNCHANGED <<sprof, lfiles, d>>
    <3>1. \A f \in M : f.name = Name
      <4>1. Name \in Names
        BY <1>7, DirFacts DEF ReadRemote, Passing
      <4> QED
        BY <4>1 DEF PlainNames
    <3>2. locals = lfiles /\ spc = "remote"
      BY <1>7 DEF ReadRemote, Consistent
    <3> HIDE DEF M
    <3> QED
      BY <2>1, <3>1, <3>2 DEF Consistent, Superseded, Name
  <2>2. CASE spc' = "idle" /\ sres' = "failed"
    BY <2>2 DEF Consistent
  <2> QED
    BY <1>7, <2>1, <2>2 DEF ReadRemote, findDifferentProfiles, Name
<1>8. CASE Download
  <2>1. CASE spc' = "idle" /\ sres' = "failed"
    BY <2>1 DEF Consistent
  <2>2. ASSUME NEW f \in diff, lfiles' = lfiles \cup {f}, diff' = diff \ {f}, spc' = "copy"
        PROVE  Consistent'
    <3>1. UNCHANGED <<sprof, d, listed>> /\ spc = "download"
      BY <1>8, <2>2 DEF Download
    <3>2. IsFiniteSet(lfiles')
      BY <1>0, <2>2, FS_AddElement
    <3>3. \A g \in listed : Superseded(g, lfiles) => Superseded(g, lfiles')
      <4>1. lfiles \subseteq lfiles'
        BY <2>2
      <4> QED
        BY <1>0, <3>2, <4>1, SupersededByMore DEF Superseded
    <3>4. \A S, g : Superseded(g, S)' <=> Superseded(g, S)
      BY <3>1 DEF Superseded
    <3>5. Name' = Name
      BY <3>1 DEF Name
    <3>6. \A g \in listed : g \in lfiles' \/ Superseded(g, lfiles') \/ g \in diff'
      BY <2>2, <3>1, <3>3 DEF Consistent
    <3>7. \A g \in diff' : g \notin lfiles' /\ g.name = Name
      BY <2>2, <3>1 DEF Consistent
    <3> QED
      BY <2>2, <3>1, <3>5, <3>6, <3>7 DEF Consistent, Superseded
  <2> QED
    BY <1>8, <2>1, <2>2 DEF Download
<1>9. CASE Downloaded
  <2>1. CASE NextDir
    BY <1>2, <1>9, <2>1 DEF Downloaded, Passing
  <2>2. CASE Goto("list") /\ UNCHANGED d /\ sprof.keep > 0
    BY <1>9, <2>2 DEF Downloaded, Consistent, Superseded
  <2> QED
    BY <1>9, <2>1, <2>2 DEF Downloaded
<1>10. CASE Copy
  <2>1. UNCHANGED <<sprof, d, listed, diff, lfiles>> /\ spc = "copy"
        /\ (spc' = "download" \/ (spc' = "idle" /\ sres' = "failed"))
    BY <1>10, Zenon DEF Copy
  <2> QED
    BY <2>1 DEF Consistent, Superseded, Name
<1>11. CASE ListOld
  <2>1. UNCHANGED <<listed, lfiles, diff, locals>> /\ spc = "list"
    BY <1>11 DEF ListOld
  <2>2. CASE NextDir
    BY <1>2, <2>1, <2>2 DEF Passing
  <2>3. CASE spc' = "idle" /\ sres' = "failed"
    BY <2>3 DEF Consistent
  <2>4. ASSUME NEW seen \in Listings, sdel' = findToDelete(seen, Name, sprof.keep),
               Goto("remove"), UNCHANGED d
        PROVE  Consistent'
    <3>1. \A f \in sdel' : f \in lfiles /\ f.name = Name /\ Superseded(f, lfiles)
      BY <2>1, <2>4, SelectionFacts
    <3>2. Name' = Name /\ sprof' = sprof /\ spc' = "remove"
      BY <2>4 DEF Name
    <3> QED
      BY <2>1, <3>1, <3>2 DEF Consistent, Superseded
  <2> QED
    BY <1>11, <2>2, <2>3, <2>4 DEF ListOld, Name
<1>12. CASE RemoveOld
  <2>1. CASE spc' = "idle" /\ sres' = "failed"
    BY <2>1 DEF Consistent
  <2>2. ASSUME NEW f \in sdel, lfiles' = lfiles \ {f}, sdel' = sdel \ {f},
               NextDir \/ (Goto("remove") /\ UNCHANGED d)
        PROVE  Consistent'
    <3>1. spc = "remove" /\ listed' = listed /\ sprof.keep > 0 /\ f \in lfiles /\ Superseded(f, lfiles)
      BY <1>12, <2>2 DEF RemoveOld, Consistent
    <3>2. /\ Superseded(f, lfiles')
          /\ \A g \in File : Superseded(g, lfiles) => Superseded(g, lfiles')
      BY <2>2, <3>1, RemovalFacts
    <3>3. \A g \in listed : g \in lfiles' \/ Superseded(g, lfiles')
      BY <1>0, <2>2, <3>1, <3>2 DEF Consistent
    <3>4. sprof' = sprof
      BY <2>2 DEF NextDir
    <3>5. CASE NextDir
      BY <3>1, <3>3, <3>4, <3>5, NextDirFacts DEF Consistent, Superseded, Passing
    <3>6. CASE Goto("remove") /\ UNCHANGED d
      <4>1. Name' = Name
        BY <3>6 DEF Name
      <4>2. \A g \in sdel' : g \in lfiles' /\ g.name = Name /\ Superseded(g, lfiles')
        BY <1>0, <2>2, <3>1, <3>2 DEF Consistent
      <4> QED
        BY <3>1, <3>3, <3>4, <3>6, <4>1, <4>2 DEF Consistent, Superseded
    <3> QED
      BY <2>2, <3>5, <3>6
  <2> QED
    BY <1>12, <2>1, <2>2 DEF RemoveOld
<1>13. CASE SyncCrash
  BY <1>13 DEF SyncCrash, Consistent
<1>14. CASE RemoteChanges
  BY <1>1, <1>14 DEF RemoteChanges, RemoteStarts, RemoteCompletes, RemoteRemoves, syncVars
<1>15. CASE UNCHANGED vars
  BY <1>1, <1>15 DEF vars, syncVars
<1> QED
  BY <1>3, <1>4, <1>5, <1>6, <1>7, <1>8, <1>9, <1>10, <1>11, <1>12, <1>13, <1>14, <1>15
  DEF Next, SyncStep

LEMMA ConsistentInit == Init => Consistent
BY DEF Init, Consistent

LEMMA AlwaysConsistent == ASSUME PlainNames PROVE Spec => [](Typed /\ Consistent)
<1>1. Init => Typed /\ Consistent
  BY TypedInit, ConsistentInit
<1>2. (Typed /\ Consistent) /\ [Next]_vars => (Typed /\ Consistent)'
  BY TypedNext, ConsistentNext
<1> QED
  BY <1>1, <1>2, PTL DEF Spec

\* After a sync that reported success every archive the remote listing showed
\* is here or Keep newer ones are, in spite of ExpurgeDir between two
\* directories of the profile and of whatever the remote host removes.
THEOREM Mirrors == PlainNames => (Spec => []MirrorsListing)
<1> SUFFICES ASSUME PlainNames PROVE Spec => []MirrorsListing
  OBVIOUS
<1>1. Consistent => MirrorsListing
  BY DEF Consistent, MirrorsListing
<1> QED
  BY <1>1, AlwaysConsistent, PTL

\* A step that gives up a complete copy leaves Keep newer archives.
LEMMA CopyGivenUp ==
    ASSUME PlainNames, Typed, Consistent, [Next]_vars, NEW f \in lgood \ lgood'
    PROVE  Superseded(f, lfiles')
<1>1. f \in lfiles
  BY FileFacts
<1>2. ~Download
  BY <1>1, Zenon DEF Download, Consistent, localVars
<1>3. CASE RemoveOld
  <2>1. lfiles' = lfiles \ {f} /\ f \in sdel /\ spc = "remove"
    BY <1>3 DEF RemoveOld, localVars
  <2> QED
    BY <1>1, <1>3, <2>1, RemovalFacts DEF RemoveOld, Consistent
<1>4. lgood' = lgood \/ Download \/ RemoveOld \/ lgood \subseteq lgood'
  BY DEF Next, SyncStep, SyncBegin, Prepare, Connect, ReadLocal, ReadRemote, Downloaded, Copy,
    ListOld, SyncCrash, RemoteChanges, RemoteStarts, RemoteCompletes, RemoteRemoves, vars, syncVars,
    localVars
<1> QED
  BY <1>2, <1>3, <1>4

\* No step of a sync destroys a complete local copy, by truncating it or by
\* removing it, unless Keep newer archives are in the destination.
THEOREM NewestCopiesKept == PlainNames => (Spec => KeepsNewestCopies)
<1> SUFFICES ASSUME PlainNames PROVE Spec => KeepsNewestCopies
  OBVIOUS
<1>1. (Typed /\ Consistent) /\ [Next]_vars => [\A f \in lgood \ lgood' : Superseded(f, lfiles')]_vars
  BY CopyGivenUp
<1> QED
  BY <1>1, AlwaysConsistent, PTL DEF Spec, KeepsNewestCopies

-----------------------------------------------------------------------------
\* Where the listing of ExpurgeDir is complete: the directories of the profile
\* that are done have no more than Keep archives, or will once what is selected
\* is removed.  Two of them may be the same, and the download of the second fills
\* what ExpurgeDir has cleared of the first.
Bounded(i) == Cardinality({f \in lfiles : f.name = sprof.dirs[i]}) <= sprof.keep
Own == {f \in lfiles : f.name = Name}
DoneBounded ==
    /\ spc \in Passing =>
         \A i \in 1 .. NumDirs :
           i < d => Bounded(i) \/ (spc \notin {"local", "remote"} /\ sprof.dirs[i] = Name)
    /\ spc = "idle" /\ sres = "ok" => \A i \in 1 .. NumDirs : Bounded(i)
    /\ spc = "remove" => Cardinality(Own \ sdel) <= sprof.keep
Retained == sprof.keep > 0 => DoneBounded

\* Removing archives leaves bounded what was.
LEMMA StillBounded ==
    ASSUME Typed, NEW S \in SUBSET lfiles, NEW i \in 1 .. NumDirs, Bounded(i)
    PROVE  Cardinality({f \in S : f.name = sprof.dirs[i]}) <= sprof.keep
<1> DEFINE A == {f \in S : f.name = sprof.dirs[i]}
           B == {f \in lfiles : f.name = sprof.dirs[i]}
<1>1. IsFiniteSet(B)
  BY FileFacts, FS_Subset
<1>2. A \in SUBSET B
  OBVIOUS
<1>3. Cardinality(B) <= sprof.keep
  BY DEF Bounded
<1> HIDE DEF A, B
<1>4. Cardinality(A) <= Cardinality(B) /\ Cardinality(A) \in Nat /\ Cardinality(B) \in Nat
  BY <1>1, <1>2, FS_Subset, FS_CardinalityType
<1>5. Cardinality(A) <= sprof.keep
  BY <1>3, <1>4, DirFacts
<1> QED
  BY <1>5 DEF A

\* ExpurgeDir is done: the next directory, or the end.
LEMMA NextDirBounded ==
    ASSUME Typed, Retained, spc \in Passing \ {"local", "remote"}, sprof.keep > 0, NextDir,
           lfiles' \subseteq lfiles,
           Cardinality({f \in lfiles' : f.name = Name}) <= sprof.keep
    PROVE  Retained'
<1>1. /\ sprof' = sprof /\ d' = d + 1 /\ NumDirs' = NumDirs
      /\ \/ spc' = "local" /\ d' <= NumDirs
         \/ spc' = "idle" /\ d' = NumDirs + 1
  BY NextDirFacts DEF Passing, NumDirs
<1>2. NumDirs \in Nat /\ d \in 1 .. NumDirs
  BY DirFacts
<1>3. ASSUME NEW i \in 1 .. NumDirs, i <= d
      PROVE  Cardinality({f \in lfiles' : f.name = sprof.dirs[i]}) <= sprof.keep
  <2>1. CASE sprof.dirs[i] = Name
    BY <2>1
  <2>2. CASE sprof.dirs[i] # Name
    <3>1. i # d
      BY <2>2 DEF Name
    <3>2. i < d
      BY <1>2, <1>3, <3>1
    <3>3. Bounded(i)
      BY <2>2, <3>2 DEF Retained, DoneBounded
    <3> QED
      BY <3>3, StillBounded
  <2> QED
    BY <2>1, <2>2
<1>4. \A i \in 1 .. NumDirs : i < d' => i <= d
  BY <1>1, <1>2
<1>5. \A i \in 1 .. NumDirs : i < d' => Bounded(i)'
  BY <1>1, <1>3, <1>4 DEF Bounded
<1>6. spc' = "idle" => \A i \in 1 .. NumDirs : i < d'
  BY <1>1, <1>2
<1> QED
  BY <1>1, <1>5, <1>6 DEF Retained, DoneBounded

LEMMA RetainedNext ==
    ASSUME PlainNames, "glob" \notin SyncFaults, Typed, Consistent, Retained, [Next]_vars
    PROVE  Retained'
<1> USE DEF Goto, Return, localVars, remoteVars, runVars, historyVars
<1>1. ASSUME UNCHANGED <<lfiles, sprof, d, sdel>>,
             \/ UNCHANGED <<spc, sres>>
             \/ spc' = "idle" /\ sres' # "ok"
             \/ spc \in Passing \ {"remove"} /\ spc' \in Passing \ {"local", "remove"}
                /\ (spc' = "remote" => spc = "local")
      PROVE  Retained'
  BY <1>1 DEF Retained, DoneBounded, Bounded, Own, Name, NumDirs, Passing
<1>2. ASSUME NEW q \in SyncProfiles, SyncBegin(q) PROVE Retained'
  BY <1>2 DEF SyncBegin, Retained, DoneBounded, Passing
<1>3. CASE Prepare
  <2>1. spc' \notin Passing \cup {"idle"} \/ (spc' = "idle" /\ sres' = "failed")
    BY <1>3 DEF Prepare, Passing
  <2> QED
    BY <2>1 DEF Retained, DoneBounded, Passing
<1>4. CASE Connect
  <2>1. d = 1 /\ d' = d /\ sprof' = sprof /\ NumDirs \in Nat
    BY <1>4, DirFacts DEF Connect, Typed
  <2>2. \/ spc' = "local"
        \/ spc' = "idle" /\ sprof.dirs = <<>>
        \/ spc' = "idle" /\ sres' = "failed"
    BY <1>4 DEF Connect
  <2>3. NumDirs' = NumDirs /\ \A i \in 1 .. NumDirs : ~(i < d)
    BY <2>1 DEF NumDirs
  <2>4. sprof.dirs = <<>> => NumDirs = 0
    BY DirFacts
  <2>5. NumDirs = 0 => 1 .. NumDirs = {}
    BY <2>1
  <2> QED
    BY <2>1, <2>2, <2>3, <2>4, <2>5 DEF Retained, DoneBounded
<1>5. CASE ReadLocal
  <2>1. /\ UNCHANGED <<lfiles, sprof, d, sdel>> /\ spc = "local"
        /\ spc' = "remote" \/ (spc' = "idle" /\ sres' = "failed")
    BY <1>5 DEF ReadLocal
  <2> QED
    BY <1>1, <2>1 DEF Passing
<1>6. CASE ReadRemote
  <2>1. /\ UNCHANGED <<lfiles, sprof, d, sdel>> /\ spc = "remote"
        /\ spc' = "download" \/ (spc' = "idle" /\ sres' = "failed")
    BY <1>6 DEF ReadRemote
  <2> QED
    BY <1>1, <2>1 DEF Passing
<1>7. CASE Download
  <2>1. CASE spc' = "idle" /\ sres' = "failed"
    BY <2>1 DEF Retained, DoneBounded, Passing
  <2>2. ASSUME NEW f \in diff, lfiles' = lfiles \cup {f}, spc' = "copy"
        PROVE  Retained'
    <3>1. UNCHANGED <<sprof, d>> /\ spc = "download" /\ f.name = Name
      BY <1>7, <2>2 DEF Download, Consistent
    <3>2. ASSUME NEW i, Bounded(i), sprof.dirs[i] # Name
          PROVE  Bounded(i)'
      <4>1. {g \in lfiles' : g.name = sprof'.dirs[i]} = {g \in lfiles : g.name = sprof.dirs[i]}
        BY <2>2, <3>1, <3>2
      <4> QED
        BY <3>1, <3>2, <4>1 DEF Bounded
    <3>3. NumDirs' = NumDirs /\ Name' = Name
      BY <3>1 DEF NumDirs, Name
    <3> QED
      BY <2>2, <3>1, <3>2, <3>3 DEF Retained, DoneBounded, Passing
  <2> QED
    BY <1>7, <2>1, <2>2 DEF Download
<1>8. CASE Downloaded
  <2>1. CASE sprof.keep <= 0 /\ sprof' = sprof
    BY <2>1, DirFacts DEF Retained
  <2>2. UNCHANGED <<lfiles, sprof, sdel>> /\ spc = "download"
    BY <1>8 DEF Downloaded, NextDir
  <2>3. CASE Goto("list") /\ UNCHANGED d
    BY <1>1, <2>2, <2>3 DEF Passing
  <2> QED
    BY <1>8, <2>1, <2>2, <2>3 DEF Downloaded
<1>9. CASE Copy
  <2>1. /\ UNCHANGED <<sprof, d, lfiles, sdel>> /\ spc = "copy"
        /\ spc' = "download" \/ (spc' = "idle" /\ sres' = "failed")
    BY <1>9, Zenon DEF Copy
  <2> QED
    BY <1>1, <2>1 DEF Passing
<1>10. CASE ListOld
  <2>1. spc = "list" /\ UNCHANGED <<lfiles, sprof>> /\ sprof.keep > 0
    BY <1>10 DEF ListOld, NextDir, Consistent
  <2>2. CASE spc' = "idle" /\ sres' = "failed"
    BY <2>2 DEF Retained, DoneBounded, Passing
  <2>3. CASE sdel' = findToDelete(lfiles, Name, sprof.keep)
    <3>1. Cardinality(Own \ sdel') <= sprof.keep
      <4>1. lfiles \in Listings
        BY DEF Listings, MayFail
      <4> QED
        BY <2>1, <2>3, <4>1, SelectionFacts DEF Own
    <3>2. CASE NextDir /\ sdel' = {}
      <4>1. Own \ sdel' = {f \in lfiles' : f.name = Name}
        BY <2>1, <3>2 DEF Own
      <4>2. Cardinality({f \in lfiles' : f.name = Name}) <= sprof.keep
        BY <3>1, <4>1
      <4> QED
        BY <2>1, <3>2, <4>2, NextDirBounded DEF Passing
    <3>3. CASE Goto("remove") /\ UNCHANGED d
      <4>1. Own' = Own /\ Name' = Name /\ NumDirs' = NumDirs /\ \A i : Bounded(i)' <=> Bounded(i)
        BY <2>1, <3>3 DEF Own, Name, NumDirs, Bounded
      <4> QED
        BY <2>1, <3>1, <3>3, <4>1 DEF Retained, DoneBounded, Passing
    <3>4. CASE spc' = "idle" /\ sres' = "failed"
      BY <3>4 DEF Retained, DoneBounded, Passing
    <3> QED
      BY <1>10, <3>2, <3>3, <3>4 DEF ListOld
  <2> QED
    BY <1>10, <2>2, <2>3 DEF ListOld, Listings, MayFail, Name
<1>11. CASE RemoveOld
  <2>1. CASE spc' = "idle" /\ sres' = "failed"
    BY <2>1 DEF Retained, DoneBounded, Passing
  <2>2. ASSUME NEW f \in sdel, lfiles' = lfiles \ {f}, sdel' = sdel \ {f},
               \/ NextDir /\ sdel' = {}
               \/ Goto("remove") /\ UNCHANGED d
        PROVE  Retained'
    <3>1. spc = "remove" /\ sprof.keep > 0 /\ f.name = Name /\ sprof' = sprof
      BY <1>11, <2>2 DEF RemoveOld, Consistent, NextDir
    <3>2. {g \in lfiles' : g.name = Name} \ sdel' = Own \ sdel
      BY <2>2 DEF Own
    <3>3. Cardinality({g \in lfiles' : g.name = Name} \ sdel') <= sprof.keep
      BY <3>1, <3>2 DEF Retained, DoneBounded
    <3>4. CASE NextDir /\ sdel' = {}
      <4>1. {g \in lfiles' : g.name = Name} \ sdel' = {g \in lfiles' : g.name = Name}
        BY <3>4
      <4>2. Cardinality({g \in lfiles' : g.name = Name}) <= sprof.keep
        BY <3>3, <4>1
      <4> QED
        BY <2>2, <3>1, <3>4, <4>2, NextDirBounded DEF Passing
    <3>5. CASE Goto("remove") /\ UNCHANGED d
      <4>1. /\ Name' = Name /\ NumDirs' = NumDirs
            /\ Own' = {g \in lfiles' : g.name = Name}
        BY <3>1, <3>5 DEF Own, Name, NumDirs
      <4>2. \A i \in 1 .. NumDirs : Bounded(i) => Bounded(i)'
        <5>1. \A i \in 1 .. NumDirs :
                Bounded(i) => Cardinality({g \in lfiles \ {f} : g.name = sprof.dirs[i]}) <= sprof.keep
          BY StillBounded
        <5> QED
          BY <2>2, <3>1, <5>1 DEF Bounded
      <4> QED
        BY <2>2, <3>1, <3>3, <3>5, <4>1, <4>2 DEF Retained, DoneBounded, Passing
    <3> QED
      BY <2>2, <3>4, <3>5
  <2> QED
    BY <1>11, <2>1, <2>2 DEF RemoveOld
<1>12. CASE SyncCrash
  BY <1>12 DEF SyncCrash, Retained, DoneBounded, Passing
<1>13. CASE RemoteChanges
  BY <1>1, <1>13 DEF RemoteChanges, RemoteStarts, RemoteCompletes, RemoteRemoves, syncVars
<1>14. CASE UNCHANGED vars
  BY <1>1, <1>14 DEF vars, syncVars
<1> QED
  BY <1>2, <1>3, <1>4, <1>5, <1>6, <1>7, <1>8, <1>9, <1>10, <1>11, <1>12, <1>13, <1>14
  DEF Next, SyncStep

LEMMA RetainedBounds == Typed /\ Retained => LocalRetention
<1>1. Typed => DOMAIN sprof.dirs = 1 .. NumDirs
  <2>1. Typed => sprof \in SyncProfiles
    BY Zenon DEF Typed, TypeOK
  <2> QED
    BY <2>1, ProfileFacts DEF NumDirs
<1> QED
  BY <1>1 DEF LocalRetention, Retained, DoneBounded, Bounded

\* Where no directory entry is missed by filepath.Glob, a sync that reported
\* success leaves no more than Keep archives of each of its names.
THEOREM RetentionBounded ==
    PlainNames /\ "glob" \notin SyncFaults => (Spec => []LocalRetention)
<1> SUFFICES ASSUME PlainNames, "glob" \notin SyncFaults PROVE Spec => []LocalRetention
  OBVIOUS
<1>1. Init => Retained
  BY DEF Init, Retained, DoneBounded, Passing
<1>2. Typed /\ Consistent /\ Retained /\ [Next]_vars => Retained'
  BY RetainedNext
<1> QED
  BY <1>1, <1>2, RetainedBounds, AlwaysConsistent, PTL DEF Spec
=============================================================================
