---------------------------- MODULE LocalBackup ----------------------------
(***************************************************************************)
(* goback processes running local profiles into one destination directory: *)
(* runLocalProfile of app/goback/goback.go with prepareDestination,        *)
(* backupLocal, delZipAndErr, chown, chmod and ExpurgeDir, each system     *)
(* call that another process can observe being one step.                   *)
(*                                                                         *)
(* An archive is the pair its file name carries: the profile's name and    *)
(* the time stamp of getZipName, whose resolution is the model's clock     *)
(* tick.  Of its content the model keeps whether the archive is complete.  *)
(***************************************************************************)
EXTENDS Archives

CONSTANTS
    Procs,        \* the goback processes, one per crontab entry
    Profiles,     \* the local profiles
    NameOf,       \* NameOf[q]: prfl.Name
    Keep,         \* Keep[q]: prfl.Destination.Keep
    Items,        \* Items[q]: how many directories and databases q backs up
    Dbs,          \* Dbs[q]: how many of them are databases, which come last
    WithOwner,    \* the profiles with a Destination.Owner
    WithMode,     \* the profiles with a Destination.Mode
    RunsOf,       \* RunsOf[p]: the profiles process p runs
    Faults,       \* the operations that may fail
    Paced,        \* no run starts in the second of its name's last archive
    ClockBack,    \* the local wall clock may be set back
    StartTime,    \* the clock at the start
    InitDest,     \* what may be found at the destination path
    InitFiles     \* the archives of earlier runs

FaultKinds == {"stat", "mkdir", "open", "source", "panic", "close", "remove",
               "chown", "chmod", "list", "glob", "purge", "crash"}

\* The faults that end a run before its archive is complete or deleted.
AbruptFaults == {"panic", "close", "remove", "crash"}

\* destZip of a process that has not opened an archive yet.
NoFile == [name |-> 0, stamp |-> 0]

ASSUME ProfilesAssumption ==
    /\ Profiles # {}
    /\ NameOf \in [Profiles -> Names]
    /\ Keep \in [Profiles -> Int]
    /\ Items \in [Profiles -> Nat \ {0}]
    /\ Dbs \in [Profiles -> Nat]
    /\ WithOwner \subseteq Profiles
    /\ WithMode \subseteq Profiles
    /\ RunsOf \in [Procs -> SUBSET Profiles]
ASSUME FaultsAssumption == Faults \subseteq FaultKinds
ASSUME ClockAssumption ==
    /\ StartTime \in Nat
    /\ StartTime <= MaxClock
    /\ Paced \in BOOLEAN
    /\ ClockBack \in BOOLEAN
ASSUME InitAssumption ==
    /\ InitDest \subseteq {"absent", "dir", "file"}
    /\ IsFiniteSet(InitFiles)
    /\ InitFiles \subseteq File

VARIABLES
    clock,    \* local wall-clock time, in the resolution of dateStr
    dest,     \* what is at the destination path
    files,    \* the archives listed in the destination directory
    good,     \* those whose content is a complete zip
    pc,       \* where each process is
    prof,     \* the profile each process runs, or ran last
    zip,      \* destZip, the archive of that run
    handle,   \* the zip handler: open on what, and shared with whom
    left,     \* directories and databases still to be copied
    todel,    \* filesToDelete
    result    \* how the last run of each process ended

vars == <<clock, dest, files, good, pc, prof, zip, handle, left, todel, result>>

\* idle: no run; stat, mkdir, restat: in prepareDestination; open, copy: in
\* backupLocal; delzip: in delZipAndErr; list, remove: in ExpurgeDir.
Locations == {"idle", "stat", "mkdir", "restat", "open", "copy", "delzip",
              "chown", "chmod", "list", "remove"}

\* The handler's file is only ours ("sole"), written by another process too
\* ("mixed"), or has lost its name in the directory ("orphan").
Handles == {"closed", "sole", "mixed", "orphan"}

TypeOK ==
    /\ clock \in 0 .. MaxClock
    /\ dest \in {"absent", "dir", "file"}
    /\ files \subseteq File
    /\ good \subseteq files
    /\ pc \in [Procs -> Locations]
    /\ prof \in [Procs -> Profiles]
    /\ zip \in [Procs -> File \cup {NoFile}]
    /\ handle \in [Procs -> Handles]
    /\ left \in [Procs -> Nat]
    /\ todel \in [Procs -> SUBSET File]
    /\ result \in [Procs -> {"none", "ok", "failed", "crashed"}]

-----------------------------------------------------------------------------
\* The other processes writing to archive f.
WritersOf(f, p) == {r \in Procs \ {p} : pc[r] = "copy" /\ zip[r] = f
                                        /\ handle[r] \in {"sole", "mixed"}}

\* Mutants of getZipName: a stamp that is not the time of the call, and one of
\* a coarser resolution.
getZipName_StampAhead(q) == [name |-> NameOf[q], stamp |-> clock + 1]
getZipName_Coarse(q) == [name |-> NameOf[q], stamp |-> clock \div 2]

\* The archive's file name: the profile's name and time.Now().
getZipName(q) == [name |-> NameOf[q], stamp |-> clock]

\* os.Remove(f): handlers that other processes hold on f become orphans.
Unlink(f) ==
    /\ files' = files \ {f}
    /\ good' = good \ {f}
    /\ handle' = [r \in Procs |-> IF zip[r] = f /\ handle[r] # "closed"
                                  THEN "orphan" ELSE handle[r]]

\* The run of p returns with outcome r to RunWithNotify.
Return(p, r) ==
    /\ pc' = [pc EXCEPT ![p] = "idle"]
    /\ result' = [result EXCEPT ![p] = r]

Goto(p, l) == pc' = [pc EXCEPT ![p] = l] /\ UNCHANGED result

\* The operating system process ends: it holds no file any more.
Die(p) ==
    /\ Return(p, "crashed")
    /\ handle' = [handle EXCEPT ![p] = "closed"]

MayFail(k) == k \in Faults

-----------------------------------------------------------------------------
Init ==
    /\ clock = StartTime
    /\ dest \in InitDest
    /\ files = IF dest = "dir" THEN InitFiles ELSE {}
    /\ good = files
    /\ pc = [p \in Procs |-> "idle"]
    /\ prof = [p \in Procs |-> CHOOSE q \in Profiles : TRUE]
    /\ zip = [p \in Procs |-> NoFile]
    /\ handle = [p \in Procs |-> "closed"]
    /\ left = [p \in Procs |-> 0]
    /\ todel = [p \in Procs |-> {}]
    /\ result = [p \in Procs |-> "none"]

\* BackupRunner.Run reaches profile q.
Begin(p, q) ==
    /\ pc[p] = "idle"
    /\ q \in RunsOf[p]
    /\ Paced => \A f \in files : f.name = NameOf[q] => f.stamp < clock
    /\ pc' = [pc EXCEPT ![p] = "stat"]
    /\ prof' = [prof EXCEPT ![p] = q]
    /\ handle' = [handle EXCEPT ![p] = "closed"]
    /\ result' = [result EXCEPT ![p] = "none"]
    /\ UNCHANGED <<clock, dest, files, good, zip, left, todel>>

\* prepareDestination, the first os.Stat.
StatDest(p) ==
    /\ pc[p] = "stat"
    /\ \/ dest = "dir" /\ Goto(p, "open")
       \/ dest = "absent" /\ Goto(p, "mkdir")
       \/ dest = "file" /\ Return(p, "failed")
       \/ MayFail("stat") /\ Return(p, "failed")
    /\ UNCHANGED <<clock, dest, files, good, prof, zip, handle, left, todel>>

\* os.Mkdir, which also fails when another process has just made the directory.
MkdirDest(p) ==
    /\ pc[p] = "mkdir"
    /\ \/ dest = "absent" /\ dest' = "dir" /\ Goto(p, "restat")
       \/ (dest # "absent" \/ MayFail("mkdir")) /\ Return(p, "failed") /\ UNCHANGED dest
    /\ UNCHANGED <<clock, files, good, prof, zip, handle, left, todel>>

RestatDest(p) ==
    /\ pc[p] = "restat"
    /\ \/ dest = "dir" /\ Goto(p, "open")
       \/ (dest # "dir" \/ MayFail("stat")) /\ Return(p, "failed")
    /\ UNCHANGED <<clock, dest, files, good, prof, zip, handle, left, todel>>

\* getZipName and zip.New: the file is created, or truncated where it exists.
OpenZip(p) ==
    LET f == getZipName(prof[p])
    IN  /\ pc[p] = "open"
        /\ zip' = [zip EXCEPT ![p] = f]
        /\ \/ /\ dest = "dir"
              /\ files' = files \cup {f}
              /\ good' = good \ {f}
              /\ handle' = [r \in Procs |->
                              IF r = p
                              THEN IF WritersOf(f, p) = {} THEN "sole" ELSE "mixed"
                              ELSE IF r \in WritersOf(f, p) THEN "mixed" ELSE handle[r]]
              /\ left' = [left EXCEPT ![p] = Items[prof[p]]]
              /\ Goto(p, "copy")
           \/ /\ dest # "dir" \/ MayFail("open")
              /\ Goto(p, "delzip")
              /\ UNCHANGED <<files, good, handle, left>>
        /\ UNCHANGED <<clock, dest, prof, todel>>

\* An item is in the zip.  Mutant: the loop does not go on.
ItemAdded_Stays(p) == UNCHANGED left /\ Goto(p, "copy")
ItemAdded(p) == left' = [left EXCEPT ![p] = @ - 1] /\ Goto(p, "copy")

\* copyLocalFiles adds a directory.  On an error backupLocal returns without
\* closing the handler.
CopyDir(p) ==
    /\ pc[p] = "copy"
    /\ left[p] > Dbs[prof[p]]
    /\ ItemAdded(p) \/ (MayFail("source") /\ Goto(p, "delzip") /\ UNCHANGED left)
    /\ UNCHANGED <<clock, dest, files, good, prof, zip, handle, todel>>

\* backupLocalDatabase adds a dump.  Where the dump command cannot be started
\* the dump packages dereference a nil Process.
CopyDb(p) ==
    /\ pc[p] = "copy"
    /\ left[p] \in 1 .. Dbs[prof[p]]
    /\ \/ ItemAdded(p) /\ UNCHANGED handle
       \/ MayFail("source") /\ Goto(p, "delzip") /\ UNCHANGED <<left, handle>>
       \/ MayFail("panic") /\ Die(p) /\ UNCHANGED left
    /\ UNCHANGED <<clock, dest, files, good, prof, zip, todel>>

CopyItem(p) == CopyDir(p) \/ CopyDb(p)

\* Where runLocalProfile goes once the archive is written, and after chown.
AfterChown(q) == IF q \in WithMode THEN "chmod" ELSE "list"
AfterClose(q) == IF q \in WithOwner THEN "chown" ELSE AfterChown(q)

\* Handler.Close: the central directory is written.  Its errors are dropped, so
\* the run goes on whether or not the archive is complete.
CloseZip(p) ==
    /\ pc[p] = "copy"
    /\ left[p] = 0
    /\ \/ handle[p] = "sole" /\ good' = good \cup {zip[p]}
       \/ (handle[p] # "sole" \/ MayFail("close")) /\ UNCHANGED good
    /\ handle' = [handle EXCEPT ![p] = "closed"]
    /\ Goto(p, AfterClose(prof[p]))
    /\ UNCHANGED <<clock, dest, files, prof, zip, left, todel>>

\* Mutant: the incomplete archive is not removed.
DelZip_LeavesFile(p) ==
    /\ pc[p] = "delzip"
    /\ Return(p, "failed")
    /\ UNCHANGED <<clock, dest, files, good, prof, zip, handle, left, todel>>

\* Mutant: the run gives up only once the removal has succeeded.
DelZip_Insists(p) ==
    /\ pc[p] = "delzip"
    /\ zip[p] \in files
    /\ Unlink(zip[p])
    /\ Return(p, "failed")
    /\ UNCHANGED <<clock, dest, prof, zip, left, todel>>

\* delZipAndErr: the run fails whether or not os.Remove succeeds.
DelZip(p) ==
    /\ pc[p] = "delzip"
    /\ \/ zip[p] \in files /\ Unlink(zip[p])
       \/ (zip[p] \notin files \/ MayFail("remove")) /\ UNCHANGED <<files, good, handle>>
    /\ Return(p, "failed")
    /\ UNCHANGED <<clock, dest, prof, zip, left, todel>>

Chown(p) ==
    /\ pc[p] = "chown"
    /\ \/ zip[p] \in files /\ Goto(p, AfterChown(prof[p]))
       \/ (zip[p] \notin files \/ MayFail("chown")) /\ Return(p, "failed")
    /\ UNCHANGED <<clock, dest, files, good, prof, zip, handle, left, todel>>

Chmod(p) ==
    /\ pc[p] = "chmod"
    /\ \/ zip[p] \in files /\ Goto(p, "list")
       \/ (zip[p] \notin files \/ MayFail("chmod")) /\ Return(p, "failed")
    /\ UNCHANGED <<clock, dest, files, good, prof, zip, handle, left, todel>>

\* The listings filepath.Glob may return: it ignores errors of reading the
\* directory, after which it returns what it has read so far.
Listings == IF MayFail("glob") THEN SUBSET files ELSE {files}

\* The keep setting is looked at; ExpurgeDir lists the directory and selects.
\* The glob of a name that does not compile is nil, and matching panics.
ListOld(p) ==
    LET n == NameOf[prof[p]]
        k == Keep[prof[p]]
    IN  /\ pc[p] = "list"
        /\ \/ k <= 0 /\ Return(p, "ok") /\ UNCHANGED <<handle, todel>>
           \/ /\ k > 0 /\ (dest # "dir" \/ MayFail("list"))
              /\ Return(p, "failed") /\ UNCHANGED <<handle, todel>>
           \/ /\ k > 0 /\ dest = "dir" /\ n \in Uncompilable
              /\ \E seen \in Listings : seen # {}
              /\ Die(p) /\ UNCHANGED todel
           \/ /\ k > 0 /\ dest = "dir" /\ n \notin Uncompilable
              /\ \E seen \in Listings : todel' = [todel EXCEPT ![p] = findToDelete(seen, n, k)]
              /\ IF todel'[p] = {} THEN Return(p, "ok") ELSE Goto(p, "remove")
              /\ UNCHANGED handle
        /\ UNCHANGED <<clock, dest, files, good, prof, zip, left>>

\* ExpurgeDir removes the next file, oldest first, and gives up on an error.
RemoveOld(p) ==
    /\ pc[p] = "remove"
    /\ \E f \in todel[p] :
         /\ IsFirst(f, todel[p])
         /\ \/ /\ f \in files
               /\ Unlink(f)
               /\ todel' = [todel EXCEPT ![p] = @ \ {f}]
               /\ IF todel'[p] = {} THEN Return(p, "ok") ELSE Goto(p, "remove")
            \/ /\ f \notin files \/ MayFail("purge")
               /\ Return(p, "failed")
               /\ UNCHANGED <<files, good, handle, todel>>
    /\ UNCHANGED <<clock, dest, prof, zip, left>>

\* The process is killed, or the machine goes down.
Crash(p) ==
    /\ MayFail("crash")
    /\ pc[p] # "idle"
    /\ Die(p)
    /\ UNCHANGED <<clock, dest, files, good, prof, zip, left, todel>>

Tick ==
    /\ clock < MaxClock
    /\ clock' = clock + 1
    /\ UNCHANGED <<dest, files, good, pc, prof, zip, handle, left, todel, result>>

\* The end of daylight saving time, or an administrator.
SetClockBack ==
    /\ ClockBack
    /\ \E t \in 0 .. clock - 1 : clock' = t
    /\ UNCHANGED <<dest, files, good, pc, prof, zip, handle, left, todel, result>>

\* The steps a run takes by itself.
RunStep(p) ==
    \/ StatDest(p) \/ MkdirDest(p) \/ RestatDest(p) \/ OpenZip(p) \/ CopyItem(p)
    \/ CloseZip(p) \/ DelZip(p) \/ Chown(p) \/ Chmod(p) \/ ListOld(p) \/ RemoveOld(p)

Next ==
    \/ \E p \in Procs :
         \/ RunStep(p)
         \/ Crash(p)
         \/ \E q \in Profiles : Begin(p, q)
    \/ Tick
    \/ SetClockBack

Spec == Init /\ [][Next]_vars

\* A run that has begun goes on: nothing in it waits for another process.
FairSpec == Spec /\ \A p \in Procs : WF_vars(RunStep(p))

-----------------------------------------------------------------------------
\* No two processes run profiles of the same name.
SeparateNames ==
    \A p, r \in Procs : p # r =>
      \A q \in RunsOf[p], s \in RunsOf[r] : NameOf[q] # NameOf[s]

\* What the operator has to see to for the promises below: that, no name is a
\* pattern for another, the clock is not set back and a profile is not run twice
\* in a second.
OperatingRule == SeparateNames /\ PlainNames /\ Paced /\ ~ClockBack

\* A run that reported success has left its archive, complete, in the directory
\* (runLocalProfile returns nil), and no later step of another process or of
\* ExpurgeDir has taken it away before the process turns to its next profile.
SuccessHasArchive ==
    \A p \in Procs : pc[p] = "idle" /\ result[p] = "ok" => zip[p] \in good

\* After a run that reported success, ExpurgeDir has left no more archives of
\* the profile's name than Destination.Keep, however earlier runs ended.
RetentionBound ==
    \A p \in Procs :
      pc[p] = "idle" /\ result[p] = "ok" /\ Keep[prof[p]] > 0 =>
        Cardinality({f \in files : f.name = NameOf[prof[p]]}) <= Keep[prof[p]]

\* The archive f may go: a profile of its name keeps that many newer ones in S.
Superseded(f, S) ==
    \E q \in Profiles :
      /\ NameOf[q] = f.name
      /\ Keep[q] > 0
      /\ Cardinality({g \in S : Newer(g, f)}) >= Keep[q]

\* No step (zip.New truncating, delZipAndErr, ExpurgeDir) destroys a complete
\* archive unless the number of archives to keep remain that are newer.
KeepsNewest == [][\A f \in good \ good' : Superseded(f, files')]_vars

\* The same, counting only complete archives as kept.
KeepsNewestUsable == [][\A f \in good \ good' : Superseded(f, good')]_vars

\* An incomplete archive is in the directory only while a run is writing it or
\* about to delete it (delZipAndErr), never after the run.
NoPartialLeft ==
    \A f \in files \ good : \E p \in Procs : zip[p] = f /\ pc[p] \in {"copy", "delzip"}

\* The purge of this profile panics: the glob of its name does not compile.
Panics(q) == NameOf[q] \in Uncompilable /\ Keep[q] > 0

\* Where no system call fails by itself, no run fails: not in prepareDestination,
\* not in chown, chmod or ExpurgeDir because of another process.
NoSpuriousFailure ==
    \A p \in Procs : result[p] \in {"failed", "crashed"} => dest = "file" \/ Panics(prof[p])

\* Every run ends, whatever fails in it.
RunEnds == \A p \in Procs : pc[p] # "idle" ~> pc[p] = "idle"

\* Where no system call fails by itself, every run that begins succeeds.
RunSucceeds ==
    \A p \in Procs : pc[p] # "idle" ~> pc[p] = "idle" /\ (result[p] = "ok" \/ Panics(prof[p]))

\* The complete archives form a store that never loses a profile's newest one.
Store == INSTANCE BackupStore WITH Archive <- File, store <- good

\* The directory implements that store.
StoreSpec == Store!Spec
=============================================================================
