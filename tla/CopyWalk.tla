------------------------------ MODULE CopyWalk ------------------------------
(***************************************************************************)
(* A directory is copied into the zip: copyLocalFiles, which walks it with *)
(* filepath.Walk, and copyRemoteFiles, which walks it over sftp, both of   *)
(* app/goback/files.go, with AddFile, AddSymlink and WriteFile of          *)
(* lib/zip/zip.go.  Files come, go and change under the walk.              *)
(*                                                                         *)
(* The order in which the entries of a listing are visited is left free.   *)
(***************************************************************************)
EXTENDS BackupItems, Paths

CONSTANTS
    Dirs,       \* the directories that profiles name
    Excluded,   \* Excluded[d]: the paths that a glob of dir.Exclude matches
    MaxOpen,    \* how many files the sftp server keeps open for a client
    InitTrees,  \* what may be there at the start
    ChangeTo    \* ChangeTo[d]: what others may replace a path of d by

\* link, dirlink and dangling are symbolic links to a file, to a directory and
\* to nothing; what is locked cannot be read.
Kinds == {"absent", "file", "locked", "dir", "lockeddir", "link", "dirlink", "dangling"}
Links == {"link", "dirlink", "dangling"}

\* What is there lies in directories.
WellPlaced(t) ==
    \A n \in Node : t[n] # "absent" =>
        \A m \in Above[n] : t[m] \in {"dir", "lockeddir"} \/ (m = Root /\ t[m] = "dirlink")

\* A source in the zip is a directory with a path, or "db" with a database.
ASSUME TreeAssumption ==
    /\ IsFiniteSet(Node)
    /\ "db" \notin Dirs
    /\ \A q \in BackupProfiles : q.dirs \in Seq(Dirs)
    /\ Excluded \in [Dirs -> SUBSET Node]
    /\ InitTrees \subseteq [Dirs -> [Node -> Kinds]]
    /\ \A t \in InitTrees : \A d \in Dirs : WellPlaced(t[d])
    /\ ChangeTo \in [Dirs -> SUBSET Kinds]
    /\ MaxOpen \in Nat

VARIABLES
    tree,      \* what is in the directories
    touched,   \* the paths that others have changed since the start
    todo,      \* listed paths still to be visited, with what sftp told of them
    cur,       \* the path being added, with what the walk took it for
    handles    \* files opened on the sftp server

walkVars == <<tree, touched, todo, cur, handles>>

NoPath == [node |-> Root, kind |-> "absent"]

WalkInit ==
    /\ tree \in InitTrees
    /\ touched = {}
    /\ todo = {}
    /\ cur = NoPath
    /\ handles = 0

Children(d, n) == {c \in Node \ {Root} : Parent[c] = n /\ tree[d][c] # "absent"}

-----------------------------------------------------------------------------
\* The root: os.Lstat and EvalSymlinks, or the sftp client and its Stat.  Both
\* follow a link, but sftp's Walk begins with an Lstat of the link itself.
CheckRoot ==
    LET k == tree[CurrentDir][Root]
    IN  /\ pc = "root"
        /\ \/ /\ k \in {"dir", "lockeddir", "dirlink"}
              /\ Goto("walk")
              /\ todo' = {[node |-> Root,
                           kind |-> IF k = "dirlink" /\ ~prfl.remote THEN "dir" ELSE k]}
           \/ k \notin {"dir", "lockeddir", "dirlink"} /\ ReturnErr /\ UNCHANGED todo
           \/ Faulty(IF prfl.remote THEN "sftp" ELSE "stat") /\ UNCHANGED todo
        /\ UNCHANGED <<prfl, item, entries, whole, zip, tree, touched, cur, handles>>

\* What the walk takes a listed path for: filepath.Walk calls Lstat on it now,
\* sftp's Walker has it from the listing.
InfoOf(e) == IF prfl.remote \/ e.node = Root THEN e.kind ELSE tree[CurrentDir][e.node]

\* Mutant: the patterns are not looked at.
Skips_Nothing(n) == FALSE

\* The exclude patterns, which are not tried on directories.
Skips(n) == n \in Excluded[CurrentDir]

\* The listing of a directory.
Listed(n) == {[node |-> c, kind |-> tree[CurrentDir][c]] : c \in Children(CurrentDir, n)}

\* The walk goes into a directory: it is listed as it is now, and over sftp that
\* may be one that has been made readable, or a link to a directory put in its
\* place (an empty one here), since its own listing.
Descend(e) ==
    /\ pc = "walk" /\ e \in todo
    /\ InfoOf(e) \in {"dir", "lockeddir"}
    /\ \/ /\ tree[CurrentDir][e.node] \in {"dir", "dirlink"}
          /\ todo' = (todo \ {e}) \cup Listed(e.node)
          /\ Goto("walk")
          /\ UNCHANGED handles
       \/ /\ \/ tree[CurrentDir][e.node] \notin {"dir", "dirlink"} /\ ReturnErr
             \/ Faulty("readdir")
          /\ todo' = {} /\ handles' = 0
    /\ UNCHANGED <<prfl, item, entries, whole, zip, tree, touched, cur>>

\* Mutant: for a path that has gone the walk function returns SkipDir, which
\* leaves out the rest of the directory too.
Visit_SkipDir(e) ==
    /\ pc = "walk" /\ e \in todo
    /\ InfoOf(e) \notin {"dir", "lockeddir"}
    /\ todo' = IF InfoOf(e) = "absent" THEN {} ELSE todo \ {e}
    /\ IF InfoOf(e) = "absent" \/ Skips(e.node)
       THEN Goto("walk") /\ UNCHANGED cur
       ELSE Goto("add") /\ cur' = [node |-> e.node, kind |-> InfoOf(e)]
    /\ UNCHANGED <<prfl, item, entries, whole, zip, tree, touched, handles>>

\* The walk function is called for anything else: a path that has gone since it
\* was listed is an error, one that an exclude pattern matches is skipped.
Visit(e) ==
    /\ pc = "walk" /\ e \in todo
    /\ InfoOf(e) \notin {"dir", "lockeddir"}
    /\ \/ InfoOf(e) = "absent" /\ ReturnErr /\ todo' = {} /\ handles' = 0 /\ UNCHANGED cur
       \/ /\ InfoOf(e) # "absent"
          /\ todo' = todo \ {e}
          /\ IF Skips(e.node)
             THEN Goto("walk") /\ UNCHANGED cur
             ELSE Goto("add") /\ cur' = [node |-> e.node, kind |-> InfoOf(e)]
          /\ UNCHANGED handles
    /\ UNCHANGED <<prfl, item, entries, whole, zip, tree, touched>>

\* AddSymlink opens what the link points to before it reads the link.  AddFile
\* and sftp's Open follow links.
Addable(k, now) ==
    IF k \in Links /\ ~prfl.remote THEN now \in {"link", "dirlink"}
                                   ELSE now \in {"file", "link"}

\* The path is opened, its entry made and its content copied.  copyRemoteFiles
\* does not close the file it has opened.
Add ==
    LET src == <<CurrentDir, cur.node>>
        now == tree[CurrentDir][cur.node]
        full == prfl.remote /\ handles >= MaxOpen
    IN  /\ pc = "add"
        /\ \/ /\ Addable(cur.kind, now) /\ ~full
              /\ entries' = entries \cup {src}
              /\ whole' = whole \cup {src}
              /\ handles' = IF prfl.remote THEN handles + 1 ELSE 0
              /\ Goto("walk")
              /\ UNCHANGED todo
           \/ /\ ((~Addable(cur.kind, now) \/ full) /\ ReturnErr) \/ Faulty("read")
              /\ todo' = {} /\ handles' = 0
              /\ UNCHANGED <<entries, whole>>
        /\ cur' = NoPath
        /\ UNCHANGED <<prfl, item, zip, tree, touched>>

\* The walk is over; copyRemoteFiles closes the sftp client and returns an error
\* of that.
DirDone ==
    /\ pc = "walk" /\ todo = {}
    /\ \/ ItemDone
       \/ prfl.remote /\ Faulty("close") /\ UNCHANGED item
    /\ handles' = 0
    /\ UNCHANGED <<prfl, entries, whole, zip, tree, touched, todo, cur>>

\* Somebody removes, replaces or makes a path; below it nothing is left.
Change(d, n, k) ==
    LET gone == {n} \cup Below[n]
    IN  /\ n # Root /\ k # tree[d][n]
        /\ \E i \in 1 .. Len(prfl.dirs) : prfl.dirs[i] = d
        /\ tree[d][Parent[n]] = "dir" \/ (Parent[n] = Root /\ tree[d][Root] = "dirlink")
        /\ tree' = [tree EXCEPT ![d] = [c \in Node |-> IF c = n THEN k
                                                       ELSE IF c \in gone THEN "absent"
                                                       ELSE tree[d][c]]]
        /\ touched' = touched \cup ({d} \X gone)
        /\ UNCHANGED <<itemVars, todo, cur, handles>>

WalkStep ==
    \/ CheckRoot
    \/ \E e \in todo : Descend(e) \/ Visit(e)
    \/ Add
    \/ DirDone
=============================================================================
