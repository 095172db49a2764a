------------------------------ MODULE Sources ------------------------------
(***************************************************************************)
(* One call of backupLocal or backupRemote from the opened zip to its      *)
(* close: CopyWalk for the directories, DbDump for the databases, among    *)
(* users who change files, dump commands that end as they like, and        *)
(* connections that are lost.                                              *)
(***************************************************************************)
EXTENDS CopyWalk, DbDump

vars == <<itemVars, walkVars, dumpVars>>

Init == ItemsInit /\ WalkInit /\ DumpInit

\* The steps of the goback process.
GobackStep ==
    \/ (NextItem \/ CloseZip) /\ UNCHANGED <<walkVars, dumpVars>>
    \/ WalkStep /\ UNCHANGED dumpVars
    \/ DumpStep /\ UNCHANGED walkVars

\* Those of everybody else.
OtherStep ==
    \/ /\ \E d \in Dirs : \E n \in Node \ {Root} : \E k \in ChangeTo[d] : Change(d, n, k)
       /\ UNCHANGED dumpVars
    \/ (Command \/ Fail \/ CloseOutput \/ LinkLost) /\ UNCHANGED walkVars

Next == GobackStep \/ OtherStep

Spec == Init /\ [][Next]_vars

\* goback goes on as long as its calls return, and so does a dump command that is
\* not blocked.
FairSpec == Spec /\ WF_vars(GobackStep) /\ WF_vars(Command /\ UNCHANGED walkVars)

-----------------------------------------------------------------------------
DirsOf(q) == {q.dirs[i] : i \in 1 .. Len(q.dirs)}
DbsOf(q) == {q.dbs[i] : i \in 1 .. Len(q.dbs)}

\* The paths of directory d that are to be archived.
Wanted(d) == {n \in Node : tree[d][n] \notin {"absent", "dir", "lockeddir"}} \ Excluded[d]

\* What the administrator has to see to for the next one: no exclude pattern
\* matches the directory itself, which copyRemoteFiles looks at where dir.Path is
\* a symbolic link.
RootsKept == \A d \in Dirs : Root \notin Excluded[d]

\* When backupLocal or backupRemote reports success, a path that nobody has
\* touched meanwhile is in the zip, with all of its content, if it is a file or a
\* link that no pattern excludes, and is not in it otherwise; whatever others did
\* around it during the walk.
StableFilesArchived ==
    result = "ok" =>
        \A d \in DirsOf(prfl) : \A n \in Node \ {Root} :
            <<d, n>> \notin touched => (n \in Wanted(d) <=> <<d, n>> \in whole)

\* When it reports success, the zip has all of the dump of every database,
\* however the dump command and the connection to it ended.
DumpsComplete ==
    result = "ok" => \A db \in DbsOf(prfl) : <<"db", db.id>> \in whole

\* What a fault of its own is not needed for: the run fails on it every time.
Unreadable(d) ==
    \/ tree[d][Root] \notin (IF prfl.remote THEN {"dir"} ELSE {"dir", "dirlink"})
    \/ \E n \in Node : tree[d][n] = "lockeddir"
    \/ \E n \in Wanted(d) \ {Root} :
          tree[d][n] \in {"locked", "dangling"} \/ (prfl.remote /\ tree[d][n] = "dirlink")
    \/ prfl.remote /\ Cardinality(Wanted(d)) > MaxOpen

\* A run in which nothing failed by itself and nobody changed a file fails only
\* for what is there: something wanted that cannot be read, a dump command that
\* failed, or a database type that is not known.  What is excluded, and the order
\* in which the dump command and the handler get on, never make it fail.
FailuresExplained ==
    result = "failed" /\ ~faulted /\ touched = {} =>
        \/ \E d \in DirsOf(prfl) : Unreadable(d)
        \/ \E db \in DbsOf(prfl) : db.tool = "unknown"
        \/ proc = "bad"

\* backupLocal and backupRemote end, though files keep coming under the walk and
\* a dump command writes more than its pipe holds.
SourcesEnd == <>(pc = "done")

\* A dump command that the handler has given up on does not stay for ever, blocked
\* on a pipe that nobody reads.
NoCommandStays == (result # "none") ~> (proc # "running")

-----------------------------------------------------------------------------
\* Whether all that has been added before the current item is complete.
AddedWhole ==
    \A e \in entries : \/ e \in whole
                       \/ item < NumItems /\ ~CopyingDir /\ e = <<"db", CurrentDb.id>>

CopyState ==
    CASE result = "none" -> "copying"
      [] result = "ok" -> "closed"
      [] result = "failed" -> "failed"
      [] result = "panicked" -> "dead"

Items == INSTANCE ItemCopy WITH
    left <- NumItems - item,
    dbs <- NumDbs,
    state <- CopyState,
    whole <- AddedWhole

\* The copying of directories and databases is what CopyDir, CopyDb and CloseZip
\* of LocalBackup take it for: items one by one, directories first, an end of the
\* process only in a database, and a zip that is closed only with all of them.
CopySpec == Items!Spec
=============================================================================
