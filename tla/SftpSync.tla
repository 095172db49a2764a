------------------------------ MODULE SftpSync ------------------------------
(***************************************************************************)
(* A goback process pulling the archives of another host: runSyncProfile   *)
(* of app/goback/goback.go with syncRemoteBackups, sftpDownload,           *)
(* findDifferentProfiles and ExpurgeDir.  The remote directory is the      *)
(* environment: a goback there creates, completes and removes archives     *)
(* while the sync runs.  Module PullSystem puts LocalBackup in its place.  *)
(***************************************************************************)
EXTENDS Archives, Sequences

CONSTANTS
    SyncProfiles, \* the profiles: dirs has the Name of each of prfl.Dirs, keep is
                  \* prfl.Destination.Keep
    SyncFaults    \* the operations that may fail

SyncFaultKinds == {"prepare", "connect", "local", "remote", "open", "create", "copy",
                   "close", "list", "glob", "purge", "disconnect", "crash"}

ASSUME SyncAssumption ==
    /\ SyncProfiles \subseteq [dirs : Seq(Names), keep : Int]
    /\ SyncProfiles # {}
    /\ SyncFaults \subseteq SyncFaultKinds

VARIABLES
    rfiles,    \* the archives in the remote directory
    rgood,     \* those that are complete
    lfiles,    \* the archives in the local destination
    lgood,     \* those that are complete copies
    spc,       \* where the process is
    sprof,     \* the profile it runs, or ran last
    d,         \* which of prfl.Dirs it is at
    locals,    \* localFile, the local listing
    diff,      \* what is still to be downloaded
    cur,       \* the archive being downloaded, as a set of at most one
    src,       \* whether that was complete when it was opened
    sdel,      \* filesToDelete
    sres,      \* how the last sync ended
    listed,    \* what the remote listings of the run matched (history)
    complete   \* what of it was complete (history)

remoteVars == <<rfiles, rgood>>
localVars == <<lfiles, lgood>>
runVars == <<d, locals, diff, cur, src, sdel>>
historyVars == <<listed, complete>>
syncVars == <<localVars, spc, sprof, runVars, sres, historyVars>>
vars == <<remoteVars, syncVars>>

\* How many directories the profile has.
NumDirs == Len(sprof.dirs)

SyncLocations == {"idle", "prepare", "connect", "local", "remote", "download", "copy",
                  "list", "remove"}

TypeOK ==
    /\ rfiles \subseteq File /\ rgood \subseteq rfiles
    /\ lfiles \subseteq File /\ lgood \subseteq lfiles
    /\ spc \in SyncLocations
    /\ sprof \in SyncProfiles
    /\ d \in 1 .. NumDirs + 1
    /\ locals \subseteq File
    /\ diff \subseteq File
    /\ cur \subseteq lfiles
    /\ src \in BOOLEAN
    /\ sdel \subseteq File
    /\ sres \in {"none", "ok", "failed", "crashed"}
    /\ listed \subseteq File
    /\ complete \subseteq listed

-----------------------------------------------------------------------------
MayFail(k) == k \in SyncFaults

Goto(l) == spc' = l /\ UNCHANGED <<sres, sprof>>
Return(r) == spc' = "idle" /\ sres' = r /\ UNCHANGED sprof

\* Mutants of NextDir: a directory is skipped; the loop does not go on.
NextDir_Skips ==
    /\ d' = d + 2
    /\ IF d + 2 <= NumDirs THEN Goto("local") ELSE Return("ok")
NextDir_Stays ==
    /\ UNCHANGED d
    /\ IF d < NumDirs THEN Goto("local") ELSE Return("ok")

\* Leaving the loop over prfl.Dirs, or the next pass; the deferred Close of the
\* sftp client may turn a success into a failure.
NextDir ==
    /\ d' = d + 1
    /\ \/ d < NumDirs /\ Goto("local")
       \/ d = NumDirs /\ Return("ok")
       \/ d = NumDirs /\ MayFail("disconnect") /\ Return("failed")

\* What a process starts with.
Reset ==
    /\ d' = 1
    /\ locals' = {} /\ diff' = {} /\ cur' = {} /\ src' = FALSE /\ sdel' = {}
    /\ listed' = {} /\ complete' = {}

\* Mutants: a file that is there is downloaded again; profiles are compared
\* instead of archives.
findDifferentProfiles_All(remote, local, n) == {f \in remote : f.name \in Matches[n]}

findDifferentProfiles_ByProfile(remote, local, n) ==
    {f \in remote : f.name \in Matches[n] /\ \A g \in local : g.name # f.name}

\* The remote archives of the name that the local listing does not have.
findDifferentProfiles(remote, local, n) == {f \in remote : f.name \in Matches[n]} \ local

-----------------------------------------------------------------------------
Init ==
    /\ rfiles \in SUBSET File /\ rgood = rfiles
    /\ lfiles = {} /\ lgood = {}
    /\ sprof = CHOOSE q \in SyncProfiles : TRUE
    /\ spc = "idle" /\ d = 1 /\ sres = "none"
    /\ locals = {} /\ diff = {} /\ cur = {} /\ src = FALSE /\ sdel = {}
    /\ listed = {} /\ complete = {}

SyncBegin(q) ==
    /\ spc = "idle"
    /\ spc' = "prepare"
    /\ sprof' = q
    /\ sres' = "none"
    /\ Reset
    /\ UNCHANGED <<remoteVars, localVars>>

\* prepareDestination; nobody else uses the local destination.
Prepare ==
    /\ spc = "prepare"
    /\ \/ Goto("connect")
       \/ MayFail("prepare") /\ Return("failed")
    /\ UNCHANGED <<remoteVars, localVars, runVars, historyVars>>

\* ssh.New, Connect and sftp.NewClient; a profile without directories is done.
Connect ==
    /\ spc = "connect"
    /\ \/ sprof.dirs # <<>> /\ Goto("local")
       \/ sprof.dirs = <<>> /\ Return("ok")
       \/ MayFail("connect") /\ Return("failed")
    /\ UNCHANGED <<remoteVars, localVars, runVars, historyVars>>

\* os.ReadDir of the destination.
ReadLocal ==
    /\ spc = "local"
    /\ \/ locals' = lfiles /\ Goto("remote")
       \/ MayFail("local") /\ Return("failed") /\ UNCHANGED locals
    /\ UNCHANGED <<remoteVars, localVars, d, diff, cur, src, sdel, historyVars>>

\* Stat and ReadDir of the remote directory, then findDifferentProfiles.
ReadRemote ==
    LET n == sprof.dirs[d]
        M == {f \in rfiles : f.name \in Matches[n]}
    IN  /\ spc = "remote"
        /\ \/ /\ n \notin Uncompilable
              /\ diff' = findDifferentProfiles(rfiles, locals, n)
              /\ listed' = listed \cup M
              /\ complete' = complete \cup (M \cap rgood)
              /\ Goto("download")
           \/ /\ n \in Uncompilable \/ MayFail("remote")
              /\ Return("failed")
              /\ UNCHANGED <<diff, historyVars>>
        /\ UNCHANGED <<remoteVars, localVars, d, locals, cur, src, sdel>>

\* The next file of the loop: sftpDownload opens the remote file, which may be
\* gone by now, and creates the local one.
Download ==
    /\ spc = "download"
    /\ \E f \in diff :
         \/ /\ f \in rfiles
            /\ lfiles' = lfiles \cup {f} /\ lgood' = lgood \ {f}
            /\ diff' = diff \ {f} /\ cur' = {f} /\ src' = (f \in rgood)
            /\ Goto("copy")
         \/ /\ f \notin rfiles \/ MayFail("open") \/ MayFail("create")
            /\ Return("failed")
            /\ UNCHANGED <<localVars, diff, cur, src>>
    /\ UNCHANGED <<remoteVars, d, locals, sdel, historyVars>>

\* The loop is done.
Downloaded ==
    /\ spc = "download"
    /\ diff = {}
    /\ \/ sprof.keep > 0 /\ Goto("list") /\ UNCHANGED d
       \/ sprof.keep <= 0 /\ NextDir
    /\ UNCHANGED <<remoteVars, localVars, locals, diff, cur, src, sdel, historyVars>>

\* io.Copy up to the end of the remote file, as it is then.  Of an archive that
\* was being written when it was opened, and is complete now, the copy may have
\* seen all or not.  On an error what was copied stays in the destination.
Copy ==
    /\ spc = "copy"
    /\ \E f \in cur :
         \/ /\ src \/ f \in rgood
            /\ lgood' = lgood \cup {f}
            /\ Goto("download") \/ (MayFail("close") /\ Return("failed"))
         \/ /\ ~src
            /\ UNCHANGED lgood
            /\ Goto("download")
         \/ /\ MayFail("copy")
            /\ UNCHANGED lgood
            /\ Return("failed")
    /\ cur' = {} /\ src' = FALSE
    /\ UNCHANGED <<remoteVars, lfiles, d, locals, diff, sdel, historyVars>>

\* ExpurgeDir on the destination: listing and selection.
Listings == IF MayFail("glob") THEN SUBSET lfiles ELSE {lfiles}
ListOld ==
    /\ spc = "list"
    /\ \/ /\ \E seen \in Listings : sdel' = findToDelete(seen, sprof.dirs[d], sprof.keep)
          /\ IF sdel' = {} THEN NextDir ELSE Goto("remove") /\ UNCHANGED d
       \/ MayFail("list") /\ Return("failed") /\ UNCHANGED <<d, sdel>>
    /\ UNCHANGED <<remoteVars, localVars, locals, diff, cur, src, historyVars>>

\* ExpurgeDir: the next file is removed.
RemoveOld ==
    /\ spc = "remove"
    /\ \E f \in sdel :
         /\ IsFirst(f, sdel)
         /\ \/ /\ lfiles' = lfiles \ {f} /\ lgood' = lgood \ {f}
               /\ sdel' = sdel \ {f}
               /\ IF sdel' = {} THEN NextDir ELSE Goto("remove") /\ UNCHANGED d
            \/ /\ MayFail("purge")
               /\ Return("failed")
               /\ UNCHANGED <<localVars, sdel, d>>
    /\ UNCHANGED <<remoteVars, locals, diff, cur, src, historyVars>>

SyncCrash ==
    /\ MayFail("crash")
    /\ spc # "idle"
    /\ Return("crashed")
    /\ UNCHANGED <<remoteVars, localVars, runVars, historyVars>>

SyncStep == Prepare \/ Connect \/ ReadLocal \/ ReadRemote \/ Download \/ Downloaded
            \/ Copy \/ ListOld \/ RemoveOld

-----------------------------------------------------------------------------
\* The goback on the remote host: archives appear in the order of their stamps,
\* incomplete, become complete, and are removed.
RemoteStarts(f) ==
    /\ \A g \in rfiles : g.name = f.name => Newer(f, g)
    /\ rfiles' = rfiles \cup {f}
    /\ UNCHANGED <<rgood, syncVars>>
RemoteCompletes(f) ==
    /\ rgood' = rgood \cup {f}
    /\ UNCHANGED <<rfiles, syncVars>>
RemoteRemoves(f) ==
    /\ rfiles' = rfiles \ {f} /\ rgood' = rgood \ {f}
    /\ UNCHANGED syncVars

RemoteChanges ==
    \/ \E f \in File : RemoteStarts(f)
    \/ \E f \in rfiles : RemoteCompletes(f) \/ RemoteRemoves(f)

Next == (\E q \in SyncProfiles : SyncBegin(q)) \/ SyncStep \/ SyncCrash \/ RemoteChanges

Spec == Init /\ [][Next]_vars

\* A sync that has begun goes on.
FairSpec == Spec /\ WF_vars(SyncStep)

-----------------------------------------------------------------------------
\* The local destination keeps enough newer archives than f in S.
Superseded(f, S) == sprof.keep > 0 /\ Cardinality({g \in S : Newer(g, f)}) >= sprof.keep

\* After a sync that reported success every archive that the remote listing
\* showed is here, or ExpurgeDir has removed it because Keep newer are here.
MirrorsListing ==
    spc = "idle" /\ sres = "ok" =>
      \A f \in listed : f \in lfiles \/ Superseded(f, lfiles)

\* After a sync that reported success, no more than Keep archives of each
\* of its names are in the destination.
LocalRetention ==
    spc = "idle" /\ sres = "ok" /\ sprof.keep > 0 =>
      \A i \in DOMAIN sprof.dirs :
        Cardinality({f \in lfiles : f.name = sprof.dirs[i]}) <= sprof.keep

\* No step of a sync (os.Create truncating, ExpurgeDir) destroys a complete local
\* copy unless Keep newer archives are in the destination: not even when the
\* remote host has lost its own.
KeepsNewestCopies == [][\A f \in lgood \ lgood' : Superseded(f, lfiles')]_vars

\* Every sync ends, however the remote directory changes under it.
SyncEnds == spc # "idle" ~> spc = "idle"
=============================================================================
