--------------------------- MODULE Sources_proofs ---------------------------
(***************************************************************************)
(* Proofs about Sources, for every profile, every tree of paths, every     *)
(* dump and pipe size and every set of faults.                             *)
(***************************************************************************)
EXTENDS Sources, Paths_proofs, FiniteSetTheorems

-----------------------------------------------------------------------------
\* Where the process is, and which item of the profile it is at.
InDump == {"bin", "start", "copy", "wait"}

ItemsOK ==
    /\ prfl \in BackupProfiles
    /\ item \in 0 .. NumItems
    /\ pc \in Places
    /\ result \in {"none", "ok", "failed", "panicked"}
    /\ pc = "done" <=> result # "none"
    /\ pc \in DirLocations => item < NumDirs
    /\ pc \in DbLocations => item >= NumDirs /\ item < NumItems
    /\ result = "ok" => item = NumItems

LEMMA ProfileFacts ==
    ASSUME NEW q \in BackupProfiles
    PROVE  /\ Len(q.dirs) \in Nat /\ Len(q.dbs) \in Nat
           /\ Len(q.dirs) + Len(q.dbs) > 0
           /\ q.remote \in BOOLEAN
           /\ \A i \in 1 .. Len(q.dirs) : q.dirs[i] \in Dirs
           /\ \A i \in 1 .. Len(q.dbs) : q.dbs[i].tool \in {"mysql", "pg", "unknown"}
<1> DEFINE Db == [id : STRING, tool : {"mysql", "pg", "unknown"},
                  docker : BOOLEAN, login : BOOLEAN]
<1>1. ASSUME NEW S, NEW s \in Seq(S) PROVE Len(s) \in Nat /\ \A i \in 1 .. Len(s) : s[i] \in S
  OBVIOUS
<1>2. q.dirs \in Seq(Dirs)
  BY TreeAssumption
<1>3. /\ q.dbs \in Seq(Db)
      /\ Len(q.dirs) + Len(q.dbs) > 0
      /\ q.remote \in BOOLEAN
  BY SourcesAssumption
<1>4. \A x \in Db : x.tool \in {"mysql", "pg", "unknown"}
  OBVIOUS
<1> HIDE DEF Db
<1> QED
  BY <1>1, <1>2, <1>3, <1>4

LEMMA Counts ==
    ASSUME prfl \in BackupProfiles
    PROVE  NumDirs \in Nat /\ NumDbs \in Nat /\ NumItems = NumDirs + NumDbs /\ NumItems > 0
BY ProfileFacts DEF NumDirs, NumDbs, NumItems

LEMMA SameCounts == prfl' = prfl => NumDirs' = NumDirs /\ NumDbs' = NumDbs /\ NumItems' = NumItems
BY DEF NumDirs, NumDbs, NumItems

LEMMA ItemsInitOK == Init => ItemsOK
BY Counts DEF Init, ItemsInit, ItemsOK, Places, DirLocations, DbLocations

LEMMA ItemsNext == ASSUME ItemsOK, [Next]_vars PROVE ItemsOK' /\ prfl' = prfl
<1> USE DEF Goto, ReturnErr, Faulty, ItemDone
<1>1. NumDirs \in Nat /\ NumDbs \in Nat /\ NumItems = NumDirs + NumDbs
  BY Counts DEF ItemsOK
<1> USE DEF ItemsOK, Places, DirLocations, DbLocations
<1>2. CASE NextItem
  BY <1>1, <1>2, SameCounts DEF NextItem, CopyingDir
<1>3. CASE CloseZip
  BY <1>1, <1>3, SameCounts DEF CloseZip
<1>4. CASE CheckRoot
  BY <1>1, <1>4, SameCounts DEF CheckRoot
<1>5. ASSUME NEW e \in todo, Descend(e) \/ Visit(e) PROVE ItemsOK' /\ prfl' = prfl
  BY <1>1, <1>5, SameCounts DEF Descend, Visit
<1>6. CASE Add
  BY <1>1, <1>6, SameCounts DEF Add
<1>7. CASE DirDone
  BY <1>1, <1>7, SameCounts DEF DirDone
<1>8. CASE OpenEntry
  BY <1>1, <1>8, SameCounts DEF OpenEntry
<1>9. CASE FindBin
  BY <1>1, <1>9, SameCounts DEF FindBin, NewLocal, DockerBinPath, RemoteBinPath, SshDockerBinPath,
              MysqlDockerBinPath, PgDockerBinPath, Found, FoundAnyway
<1>10. CASE StartDump
  BY <1>1, <1>10, SameCounts DEF StartDump, LocalNotStarted, DockerNotStarted, RemoteNotStarted,
               SshDockerNotStarted
<1>11. CASE CopyDump
  BY <1>1, <1>11, SameCounts DEF CopyDump
<1>12. CASE WaitDump
  BY <1>1, <1>12, SameCounts DEF WaitDump
<1>13. CASE UNCHANGED itemVars
  BY <1>1, <1>13, SameCounts DEF itemVars
<1>14. CASE LinkLost
  BY <1>1, <1>14, SameCounts DEF LinkLost
<1>15. ASSUME NEW d \in Dirs, NEW n \in Node \ {Root}, NEW k \in ChangeTo[d], Change(d, n, k)
       PROVE  UNCHANGED itemVars
  BY <1>15 DEF Change
<1>16. ASSUME Emit \/ Complete \/ GiveUp \/ Fail \/ CloseOutput PROVE UNCHANGED itemVars
  BY <1>16 DEF Emit, Complete, GiveUp, Fail, CloseOutput
<1> QED
  BY <1>2, <1>3, <1>4, <1>5, <1>6, <1>7, <1>8, <1>9, <1>10, <1>11, <1>12, <1>13, <1>14,
     <1>15, <1>16
  DEF Next, GobackStep, OtherStep, WalkStep, DumpStep, Command, vars

\* The item being copied is one of the profile's.
LEMMA CurrentItem ==
    ASSUME ItemsOK
    PROVE  /\ pc \in DirLocations => CurrentDir \in DirsOf(prfl) /\ CurrentDir \in Dirs
           /\ pc \in DbLocations => CurrentDb \in DbsOf(prfl)
<1>1. NumDirs \in Nat /\ NumDbs \in Nat /\ NumItems = NumDirs + NumDbs /\ item \in Nat
  BY Counts DEF ItemsOK
<1>2. /\ pc \in DirLocations => item + 1 \in 1 .. NumDirs
      /\ pc \in DbLocations => item + 1 - NumDirs \in 1 .. NumDbs
  BY <1>1 DEF ItemsOK
<1> QED
  BY <1>2, ProfileFacts DEF ItemsOK, CurrentDir, CurrentDb, DirsOf, DbsOf, NumDirs, NumDbs

-----------------------------------------------------------------------------
\* The dump command and the handler that reads it.

\* The end of the output has been seen only where all of it was read, and an exit
\* code is that of a command that has written everything.
DumpInv ==
    /\ pc = "wait" /\ link => eof /\ got = wrote
    /\ proc = "ok" => wrote = Size
    /\ ExitRecorded /\ proc = "running" /\ eof => via # "docker"

LEMMA DumpInvInit == Init => DumpInv
BY DEF Init, ItemsInit, DumpInit, DumpInv

LEMMA DumpInvNext == ASSUME ItemsOK, DumpInv, [Next]_vars PROVE DumpInv'
<1> USE DEF DumpInv, Goto, ReturnErr, Faulty, ItemDone
<1>1. ASSUME UNCHANGED dumpVars, pc' # "wait" PROVE DumpInv'
  BY <1>1 DEF dumpVars
<1>2. CASE (NextItem \/ CloseZip) /\ UNCHANGED dumpVars
  BY <1>1, <1>2 DEF NextItem, CloseZip
<1>3. CASE WalkStep /\ UNCHANGED dumpVars
  BY <1>1, <1>3 DEF WalkStep, CheckRoot, Descend, Visit, Add, DirDone
<1>4. CASE OpenEntry
  BY <1>4 DEF OpenEntry
<1>5. CASE FindBin
  BY <1>5 DEF FindBin, NewLocal, DockerBinPath, RemoteBinPath, SshDockerBinPath,
              MysqlDockerBinPath, PgDockerBinPath, Found, FoundAnyway
<1>6. CASE StartDump
  <2>1. /\ pc' # "wait" /\ UNCHANGED <<via, wrote, got>>
        /\ \/ UNCHANGED <<proc, eof>>
           \/ /\ proc' = IF bin = "found" THEN "running" ELSE "bad"
              /\ eof' = (bin # "found")
    BY <1>6 DEF StartDump, LocalNotStarted, DockerNotStarted, RemoteNotStarted,
                SshDockerNotStarted
  <2>2. CASE UNCHANGED <<proc, eof>>
    BY <2>1, <2>2
  <2>3. CASE bin = "found" /\ proc' = "running" /\ ~eof'
    BY <2>1, <2>3
  <2>4. CASE proc' = "bad"
    BY <2>1, <2>4
  <2> QED
    BY <2>1, <2>2, <2>3, <2>4
<1>7. CASE CopyDump
  BY <1>7 DEF CopyDump, Abandon
<1>8. CASE WaitDump
  BY <1>8 DEF WaitDump
<1>9. CASE Command \/ Fail \/ CloseOutput
  BY <1>9 DEF Command, Emit, Complete, GiveUp, Fail, CloseOutput, itemVars
<1>10. CASE LinkLost
  BY <1>10 DEF LinkLost
<1>11. CASE UNCHANGED <<itemVars, dumpVars>>
  BY <1>11 DEF itemVars, dumpVars
<1>12. ASSUME NEW d \in Dirs, NEW n \in Node \ {Root}, NEW k \in ChangeTo[d], Change(d, n, k)
       PROVE  UNCHANGED itemVars
  BY <1>12 DEF Change
<1> QED
  BY <1>2, <1>3, <1>4, <1>5, <1>6, <1>7, <1>8, <1>9, <1>10, <1>11, <1>12
  DEF Next, GobackStep, OtherStep, DumpStep, vars

\* Where docker records exit codes in time, a dump that counts as done is all in
\* the zip.
LEMMA DoneDumpIsWhole ==
    ASSUME DumpInv, ExitRecorded, pc = "wait", ExitOk
    PROVE  got = Size
BY DEF DumpInv, ExitOk

-----------------------------------------------------------------------------
\* The types of what the walk keeps.
Listing == [node : Node, kind : Kinds]

WalkOK ==
    /\ tree \in [Dirs -> [Node -> Kinds]]
    /\ touched \subseteq Dirs \X Node
    /\ todo \subseteq Listing
    /\ cur \in Listing

LEMMA WalkOKInit == Init => WalkOK
BY TreeAssumption, PathsAssumption
   DEF Init, WalkInit, WalkOK, Listing, NoPath, Kinds

LEMMA InfoTyped ==
    ASSUME WalkOK, ItemsOK, pc \in DirLocations, NEW e \in Listing
    PROVE  InfoOf(e) \in Kinds
BY CurrentItem DEF WalkOK, InfoOf, Listing

LEMMA ListedTyped ==
    ASSUME WalkOK, ItemsOK, pc \in DirLocations, NEW n \in Node
    PROVE  Listed(n) \subseteq Listing
BY CurrentItem DEF WalkOK, Listed, Children, Listing

LEMMA WalkOKNext == ASSUME ItemsOK, WalkOK, [Next]_vars PROVE WalkOK'
<1> USE DEF WalkOK
<1>1. CASE CheckRoot
  <2>1. CurrentDir \in Dirs /\ tree[CurrentDir][Root] \in Kinds
    BY <1>1, CurrentItem, PathsAssumption DEF CheckRoot, DirLocations
  <2>2. \A k \in Kinds : [node |-> Root, kind |-> k] \in Listing
    BY PathsAssumption DEF Listing
  <2>3. "dir" \in Kinds
    BY DEF Kinds
  <2>4. UNCHANGED <<tree, touched, cur>>
    BY <1>1 DEF CheckRoot
  <2>5. todo' \subseteq Listing
    BY <1>1, <2>1, <2>2, <2>3 DEF CheckRoot
  <2> QED
    BY <2>4, <2>5
<1>2. ASSUME NEW e \in todo, Descend(e) PROVE WalkOK'
  <2>1. Listed(e.node) \subseteq Listing
    BY <1>2, ListedTyped DEF Descend, DirLocations, Listing
  <2> QED
    BY <1>2, <2>1 DEF Descend
<1>3. ASSUME NEW e \in todo, Visit(e) PROVE WalkOK'
  <2>1. InfoOf(e) \in Kinds /\ e.node \in Node
    BY <1>3, InfoTyped DEF Visit, DirLocations, Listing
  <2>2. [node |-> e.node, kind |-> InfoOf(e)] \in Listing
    BY <2>1 DEF Listing
  <2> QED
    BY <1>3, <2>2 DEF Visit
<1>4. CASE Add \/ DirDone
  <2>1. NoPath \in Listing
    BY PathsAssumption DEF NoPath, Listing, Kinds
  <2> QED
    BY <1>4, <2>1 DEF Add, DirDone
<1>5. ASSUME NEW d \in Dirs, NEW n \in Node \ {Root}, NEW k \in ChangeTo[d], Change(d, n, k)
      PROVE  WalkOK'
  <2>1. k \in Kinds /\ "absent" \in Kinds
    BY TreeAssumption DEF Kinds
  <2>2. tree' \in [Dirs -> [Node -> Kinds]]
    BY <1>5, <2>1 DEF Change
  <2>3. Below[n] \subseteq Node
    BY DEF Below
  <2>4. touched' \subseteq Dirs \X Node
    BY <1>5, <2>3 DEF Change
  <2> QED
    BY <1>5, <2>2, <2>4 DEF Change
<1>6. CASE UNCHANGED walkVars
  BY <1>6 DEF walkVars
<1> QED
  BY <1>1, <1>2, <1>3, <1>4, <1>5, <1>6 DEF Next, GobackStep, OtherStep, WalkStep, vars

-----------------------------------------------------------------------------
\* What is in the zip.

\* Where docker records exit codes in time and nothing has failed, every entry is
\* complete but the one being dumped.
EntriesWhole ==
    ExitRecorded /\ result \in {"none", "ok"} =>
        \A e \in entries : e \in whole \/ (pc \in InDump /\ e = <<"db", CurrentDb.id>>)

\* The databases that the loop has left behind are in the zip.
DumpedSoFar ==
    ExitRecorded =>
      \A i \in 1 .. NumDbs : NumDirs + i <= item => <<"db", prfl.dbs[i].id>> \in whole

ZipInv == EntriesWhole /\ DumpedSoFar

LEMMA ZipInvInit == Init => ZipInv
<1> SUFFICES ASSUME Init PROVE ZipInv
  OBVIOUS
<1>1. NumDirs \in Nat /\ NumDbs \in Nat /\ item = 0 /\ entries = {}
  BY Counts DEF Init, ItemsInit
<1> QED
  BY <1>1 DEF ZipInv, EntriesWhole, DumpedSoFar

\* A step that neither adds an entry nor leaves an item behind.
LEMMA ZipInvFrame ==
    ASSUME ZipInv, UNCHANGED <<prfl, item, entries, whole>>,
           \/ result' \notin {"none", "ok"}
           \/ result \in {"none", "ok"} /\ (pc \in InDump => pc' \in InDump)
    PROVE  ZipInv'
<1>1. DumpedSoFar'
  BY DEF ZipInv, DumpedSoFar, NumDirs, NumDbs
<1>2. EntriesWhole'
  BY DEF ZipInv, EntriesWhole, CurrentDb, NumDirs
<1> QED
  BY <1>1, <1>2 DEF ZipInv

LEMMA ZipInvNext ==
    ASSUME ItemsOK, WalkOK, DumpInv, ZipInv, [Next]_vars
    PROVE  ZipInv'
<1> USE DEF Goto, ReturnErr, Faulty
<1>1. NumDirs \in Nat /\ NumDbs \in Nat /\ NumItems = NumDirs + NumDbs /\ item \in Nat
  BY Counts DEF ItemsOK
<1>2. CASE NextItem \/ CloseZip \/ CheckRoot \/ \E e \in todo : Descend(e) \/ Visit(e)
  <2>1. /\ UNCHANGED <<prfl, item, entries, whole>>
        /\ result = "none" /\ pc \notin InDump
    BY <1>2 DEF NextItem, CloseZip, CheckRoot, Descend, Visit, InDump, ItemsOK
  <2> QED
    BY <2>1, ZipInvFrame
<1>3. CASE Add
  <2> DEFINE src == <<CurrentDir, cur.node>>
  <2>1. CASE UNCHANGED <<entries, whole>>
    <3>1. UNCHANGED <<prfl, item>> /\ result = "none" /\ pc \notin InDump
      BY <1>3 DEF Add, InDump, ItemsOK
    <3> QED
      BY <2>1, <3>1, ZipInvFrame
  <2>2. CASE entries' = entries \cup {src} /\ whole' = whole \cup {src}
    <3>1. UNCHANGED <<prfl, item>> /\ pc \notin InDump /\ result = "none"
      BY <1>3 DEF Add, InDump, ItemsOK
    <3>2. EntriesWhole'
      BY <2>2, <3>1 DEF ZipInv, EntriesWhole
    <3>3. DumpedSoFar'
      BY <2>2, <3>1 DEF ZipInv, DumpedSoFar, NumDirs, NumDbs
    <3> QED
      BY <3>2, <3>3 DEF ZipInv
  <2> QED
    BY <1>3, <2>1, <2>2 DEF Add
<1>4. CASE DirDone
  <2>1. UNCHANGED <<prfl, entries, whole>> /\ pc = "walk" /\ result = "none" /\ item < NumDirs
    BY <1>4 DEF DirDone, ItemsOK, DirLocations
  <2>2. CASE UNCHANGED item
    BY <2>1, <2>2, ZipInvFrame DEF InDump
  <2>3. CASE item' = item + 1
    <3>1. EntriesWhole'
      BY <2>1 DEF ZipInv, EntriesWhole, InDump
    <3>2. NumDirs' = NumDirs /\ NumDbs' = NumDbs
      BY <2>1, SameCounts
    <3>3. DumpedSoFar'
      BY <1>1, <2>1, <2>3, <3>2 DEF DumpedSoFar
    <3> QED
      BY <3>1, <3>3 DEF ZipInv
  <2> QED
    BY <1>4, <2>2, <2>3 DEF DirDone, ItemDone
<1>5. CASE OpenEntry
  <2> DEFINE src == <<"db", CurrentDb.id>>
  <2>1. UNCHANGED <<prfl, item, whole>> /\ pc = "entry" /\ result = "none"
    BY <1>5 DEF OpenEntry, ItemsOK
  <2>2. CASE UNCHANGED entries
    BY <2>1, <2>2, ZipInvFrame, <1>5 DEF InDump, OpenEntry
  <2>3. CASE entries' = entries \cup {src} /\ pc' = "bin"
    <3>1. EntriesWhole'
      BY <2>1, <2>3 DEF ZipInv, EntriesWhole, InDump, CurrentDb, NumDirs
    <3>2. DumpedSoFar'
      BY <2>1 DEF ZipInv, DumpedSoFar, NumDirs, NumDbs
    <3> QED
      BY <3>1, <3>2 DEF ZipInv
  <2> QED
    BY <1>5, <2>2, <2>3 DEF OpenEntry
<1>6. CASE FindBin
  <2>1. UNCHANGED <<prfl, item, entries, whole>> /\ pc = "bin" /\ result = "none"
    BY <1>6 DEF FindBin, ItemsOK
  <2>2. pc' = "start" \/ result' = "failed"
    BY <1>6 DEF FindBin, NewLocal, DockerBinPath, RemoteBinPath, SshDockerBinPath,
                MysqlDockerBinPath, PgDockerBinPath, Found, FoundAnyway
  <2> QED
    BY <2>1, <2>2, ZipInvFrame DEF InDump
<1>7. CASE StartDump
  <2>1. UNCHANGED <<prfl, item, entries, whole>> /\ pc = "start" /\ result = "none"
    BY <1>7 DEF StartDump, ItemsOK
  <2>2. pc' = "copy" \/ result' \in {"failed", "panicked"}
    BY <1>7 DEF StartDump, LocalNotStarted, DockerNotStarted, RemoteNotStarted,
                SshDockerNotStarted
  <2> QED
    BY <2>1, <2>2, ZipInvFrame DEF InDump
<1>8. CASE CopyDump
  <2>1. UNCHANGED <<prfl, item, entries, whole>> /\ pc = "copy" /\ result = "none"
    BY <1>8 DEF CopyDump, ItemsOK
  <2>2. pc' \in {"copy", "wait"} \/ result' = "failed"
    BY <1>8 DEF CopyDump
  <2> QED
    BY <2>1, <2>2, ZipInvFrame DEF InDump
<1>9. CASE WaitDump
  <2> DEFINE src == <<"db", CurrentDb.id>>
  <2>1. UNCHANGED <<prfl, entries>> /\ pc = "wait" /\ result = "none"
    BY <1>9 DEF WaitDump, ItemsOK
  <2>2. CASE UNCHANGED <<item, whole>> /\ result' = "failed"
    BY <2>1, <2>2, ZipInvFrame
  <2>3. CASE ExitOk /\ ItemDone /\ whole' = IF got = Size THEN whole \cup {src} ELSE whole
    <3>1. item' = item + 1 /\ pc' = "next" /\ (ExitRecorded => whole' = whole \cup {src})
      BY <2>1, <2>3, DoneDumpIsWhole DEF ItemDone
    <3>2. EntriesWhole'
      BY <2>1, <3>1 DEF ZipInv, EntriesWhole, InDump
    <3>3. NumDirs' = NumDirs /\ NumDbs' = NumDbs
      BY <2>1, SameCounts
    <3>4. ASSUME ExitRecorded, NEW i \in 1 .. NumDbs, NumDirs + i <= item + 1
          PROVE  <<"db", prfl.dbs[i].id>> \in whole'
      <4>1. CASE NumDirs + i <= item
        BY <3>1, <3>4, <4>1 DEF ZipInv, DumpedSoFar
      <4>2. CASE i = item + 1 - NumDirs
        BY <3>1, <3>4, <4>2 DEF CurrentDb
      <4> QED
        BY <1>1, <3>4, <4>1, <4>2
    <3>5. DumpedSoFar'
      BY <2>1, <3>1, <3>3, <3>4 DEF DumpedSoFar
    <3> QED
      BY <3>2, <3>5 DEF ZipInv
  <2> QED
    BY <1>9, <2>2, <2>3 DEF WaitDump
<1>10. CASE LinkLost \/ UNCHANGED itemVars
  <2>1. UNCHANGED <<prfl, item, entries, whole, result, pc>>
    BY <1>10 DEF LinkLost, itemVars
  <2> QED
    BY <2>1, ZipInvFrame
<1>11. ASSUME NEW d \in Dirs, NEW n \in Node \ {Root}, NEW k \in ChangeTo[d], Change(d, n, k)
       PROVE  UNCHANGED itemVars
  BY <1>11 DEF Change
<1>12. ASSUME Emit \/ Complete \/ GiveUp \/ Fail \/ CloseOutput PROVE UNCHANGED itemVars
  BY <1>12 DEF Emit, Complete, GiveUp, Fail, CloseOutput
<1> QED
  BY <1>2, <1>3, <1>4, <1>5, <1>6, <1>7, <1>8, <1>9, <1>10, <1>11, <1>12
  DEF Next, GobackStep, OtherStep, WalkStep, DumpStep, Command, vars

-----------------------------------------------------------------------------
\* What others do to the directories.

\* What is there lies in directories, with a path all below it has been touched,
\* and nobody touches the directory itself.
TreeInv ==
    /\ \A d \in Dirs : WellPlaced(tree[d])
    /\ \A d \in Dirs : \A n \in Node : \A m \in Above[n] :
          <<d, m>> \in touched => <<d, n>> \in touched
    /\ \A d \in Dirs : <<d, Root>> \notin touched

LEMMA TreeInvInit == Init => TreeInv
BY TreeAssumption DEF Init, WalkInit, TreeInv

\* A change leaves alone what has not been touched.
LEMMA ChangeFacts ==
    ASSUME WalkOK, NEW d \in Dirs, NEW n \in Node \ {Root}, NEW k, Change(d, n, k)
    PROVE  /\ touched \subseteq touched'
           /\ \A e \in Dirs : tree'[e][Root] = tree[e][Root]
           /\ \A e \in Dirs : \A c \in Node :
                 <<e, c>> \notin touched' => tree'[e][c] = tree[e][c]
<1> DEFINE gone == {n} \cup Below[n]
<1>1. Root \notin gone
  BY AboveParent, PathsAssumption DEF Below
<1>2. /\ touched' = touched \cup ({d} \X gone)
      /\ tree' = [tree EXCEPT ![d] = [c \in Node |-> IF c = n THEN k
                                                     ELSE IF c \in gone THEN "absent"
                                                     ELSE tree[d][c]]]
  BY DEF Change
<1> HIDE DEF gone
<1>3. n \in gone
  BY DEF gone
<1> QED
  BY <1>1, <1>2, <1>3, PathsAssumption DEF WalkOK

LEMMA TreeInvChange ==
    ASSUME WalkOK, TreeInv, NEW d \in Dirs, NEW n \in Node \ {Root}, NEW k, Change(d, n, k)
    PROVE  TreeInv'
<1> DEFINE gone == {n} \cup Below[n]
<1>1. /\ touched' = touched \cup ({d} \X gone)
      /\ tree' = [tree EXCEPT ![d] = [c \in Node |-> IF c = n THEN k
                                                     ELSE IF c \in gone THEN "absent"
                                                     ELSE tree[d][c]]]
      /\ tree[d][Parent[n]] = "dir" \/ (Parent[n] = Root /\ tree[d][Root] = "dirlink")
  BY DEF Change
<1>2. \A c \in Node : \A m \in Above[c] : m \in gone => c \in gone /\ c # n
  <2> SUFFICES ASSUME NEW c \in Node, NEW m \in Above[c], m \in gone
               PROVE  c \in gone /\ c # n
    OBVIOUS
  <2>1. n \in Above[c]
    BY AboveTransitive DEF Below
  <2> QED
    BY <2>1, NotAboveItself DEF Below
<1>3. Root \notin gone
  BY AboveParent, PathsAssumption DEF Below
<1>4. n \in gone /\ gone \subseteq Node
  BY DEF Below
<1> HIDE DEF gone
<1>5. /\ \A e \in Dirs : e # d => tree'[e] = tree[e]
      /\ \A c \in Node : tree'[d][c] = IF c = n THEN k ELSE IF c \in gone THEN "absent"
                                       ELSE tree[d][c]
  BY <1>1 DEF WalkOK
<1>6. ASSUME NEW c \in Node, tree'[d][c] # "absent", NEW m \in Above[c]
      PROVE  tree'[d][m] \in {"dir", "lockeddir"} \/ (m = Root /\ tree'[d][m] = "dirlink")
  <2>1. m \in Node /\ m \notin gone
    BY <1>2, <1>4, <1>5, <1>6, AboveParent
  <2>2. tree'[d][m] = tree[d][m]
    BY <1>4, <1>5, <2>1
  <2>3. CASE c = n
    <3>1. m = Parent[n] \/ m \in Above[Parent[n]]
      BY <2>3, AboveParent
    <3>2. Parent[n] \in Node /\ tree[d][Parent[n]] # "absent"
      BY <1>1, PathsAssumption
    <3> QED
      BY <1>1, <2>2, <3>1, <3>2 DEF TreeInv, WellPlaced
  <2>4. CASE c # n
    BY <1>5, <1>6, <2>2, <2>4 DEF TreeInv, WellPlaced
  <2> QED
    BY <2>3, <2>4
<1>7. \A e \in Dirs : WellPlaced(tree[e])'
  BY <1>5, <1>6 DEF TreeInv, WellPlaced
<1>8. /\ \A e \in Dirs : \A c \in Node : \A m \in Above[c] :
            <<e, m>> \in touched' => <<e, c>> \in touched'
      /\ \A e \in Dirs : <<e, Root>> \notin touched'
  BY <1>1, <1>2, <1>3 DEF TreeInv
<1> QED
  BY <1>7, <1>8 DEF TreeInv

LEMMA TreeInvNext == ASSUME WalkOK, TreeInv, [Next]_vars PROVE TreeInv'
<1>1. ASSUME UNCHANGED <<tree, touched>> PROVE TreeInv'
  BY <1>1 DEF TreeInv, WellPlaced
<1>2. ASSUME NEW d \in Dirs, NEW n \in Node \ {Root}, NEW k \in ChangeTo[d], Change(d, n, k)
      PROVE  TreeInv'
  BY <1>2, TreeInvChange
<1>3. ASSUME WalkStep PROVE UNCHANGED <<tree, touched>>
  BY <1>3 DEF WalkStep, CheckRoot, Descend, Visit, Add, DirDone
<1>4. ASSUME UNCHANGED walkVars PROVE UNCHANGED <<tree, touched>>
  BY <1>4 DEF walkVars
<1> QED
  BY <1>1, <1>2, <1>3, <1>4 DEF Next, GobackStep, OtherStep, vars
-----------------------------------------------------------------------------
\* What the walk has before it, and what it has put into the zip.

Walking == pc \in {"walk", "add"}
NotDirs == Kinds \ {"absent", "dir", "lockeddir"}

\* A path to be visited that nobody has touched is what the listing has of it.
TodoInv ==
    Walking => \A e \in todo :
      /\ e.node = Root => \/ e.kind \in {"dir", "lockeddir"}
                          \/ prfl.remote /\ e.kind = "dirlink" /\ tree[CurrentDir][Root] = "dirlink"
      /\ e.node # Root /\ <<CurrentDir, e.node>> \notin touched =>
            e.kind = tree[CurrentDir][e.node]

\* The same of the path being added, which is not excluded.
CurInv ==
    pc = "add" =>
      /\ cur.node \notin Excluded[CurrentDir]
      /\ cur.node = Root => prfl.remote /\ tree[CurrentDir][Root] = "dirlink"
      /\ cur.node # Root /\ <<CurrentDir, cur.node>> \notin touched =>
            tree[CurrentDir][cur.node] \in NotDirs

\* Nothing else is in the zip than what is wanted.
Sound ==
    \A d \in Dirs : \A n \in Node \ {Root} :
      <<d, n>> \in whole /\ <<d, n>> \notin touched => n \in Wanted(d)

\* What has to be in the zip in the end.
Due(d) == {n \in Node \ {Root} : <<d, n>> \notin touched /\ n \in Wanted(d)}

\* It is there, or the walk is still to come to it, or to a directory it is in.
Pending ==
    RootsKept /\ Walking => \A n \in Due(CurrentDir) :
      \/ <<CurrentDir, n>> \in whole
      \/ pc = "add" /\ cur.node \in {n} \cup Above[n]
      \/ \E e \in todo : e.node \in {n} \cup Above[n]

\* The directories that the loop has left behind are in the zip.
Copied ==
    RootsKept =>
      \A i \in 1 .. NumDirs : i <= item =>
        \A n \in Due(prfl.dirs[i]) : <<prfl.dirs[i], n>> \in whole

WalkInv == TodoInv /\ CurInv /\ Sound /\ Pending /\ Copied

LEMMA WalkInvInit == Init => WalkInv
<1> SUFFICES ASSUME Init PROVE WalkInv
  OBVIOUS
<1>1. NumDirs \in Nat /\ item = 0 /\ whole = {} /\ pc = "next"
  BY Counts DEF Init, ItemsInit
<1> QED
  BY <1>1 DEF WalkInv, TodoInv, CurInv, Sound, Pending, Copied, Walking

\* A step outside the walk.
LEMMA WalkInvFrame ==
    ASSUME WalkInv, UNCHANGED <<prfl, item, tree, touched, whole>>, ~Walking'
    PROVE  WalkInv'
<1>1. TodoInv' /\ CurInv' /\ Pending'
  BY DEF TodoInv, CurInv, Pending, Walking
<1>2. Sound'
  BY DEF WalkInv, Sound, Wanted
<1>3. Copied'
  BY DEF WalkInv, Copied, Due, Wanted, NumDirs
<1> QED
  BY <1>1, <1>2, <1>3 DEF WalkInv

\* A step of the walk that leaves the zip alone.
LEMMA WalkInvStep ==
    ASSUME WalkInv, UNCHANGED <<prfl, item, tree, touched, whole>>,
           TodoInv', CurInv', Pending'
    PROVE  WalkInv'
<1>1. Sound'
  BY DEF WalkInv, Sound, Wanted
<1>2. Copied'
  BY DEF WalkInv, Copied, Due, Wanted, NumDirs
<1> QED
  BY <1>1, <1>2 DEF WalkInv

\* Of a path nobody has touched the walk knows what it is.
LEMMA InfoKnown ==
    ASSUME TodoInv, pc = "walk", NEW e \in todo, e.node # Root,
           <<CurrentDir, e.node>> \notin touched
    PROVE  InfoOf(e) = tree[CurrentDir][e.node]
BY DEF TodoInv, Walking, InfoOf

\* What is due lies in directories that nobody has touched.
LEMMA DueAbove ==
    ASSUME WalkOK, TreeInv, NEW d \in Dirs, NEW n \in Due(d), NEW m \in Above[n]
    PROVE  /\ <<d, m>> \notin touched
           /\ m # Root => tree[d][m] \in {"dir", "lockeddir"}
           /\ tree[d][m] # "absent"
<1>1. n \in Node /\ <<d, n>> \notin touched /\ tree[d][n] # "absent"
  BY DEF Due, Wanted
<1> QED
  BY <1>1, AboveParent DEF TreeInv, WellPlaced

LEMMA WalkInvCheckRoot ==
    ASSUME ItemsOK, WalkOK, TreeInv, WalkInv, CheckRoot
    PROVE  WalkInv'
<1> USE DEF Goto, ReturnErr, Faulty
<1>1. UNCHANGED <<prfl, item, tree, touched, whole>> /\ pc = "root"
  BY DEF CheckRoot
<1>2. CASE pc' = "done"
  BY <1>1, <1>2, WalkInvFrame DEF Walking
<1> DEFINE k == tree[CurrentDir][Root]
           root == [node |-> Root, kind |-> IF k = "dirlink" /\ ~prfl.remote THEN "dir" ELSE k]
<1>3. CASE pc' = "walk" /\ k \in {"dir", "lockeddir", "dirlink"} /\ todo' = {root}
  <2>1. CurrentDir' = CurrentDir
    BY <1>1 DEF CurrentDir
  <2>2. root.node = Root
    OBVIOUS
  <2>3. \/ root.kind \in {"dir", "lockeddir"}
        \/ prfl.remote /\ root.kind = "dirlink" /\ tree[CurrentDir][Root] = "dirlink"
    BY <1>3, <1>1, ProfileFacts DEF ItemsOK
  <2> HIDE DEF root
  <2>4. TodoInv'
    BY <1>1, <1>3, <2>1, <2>2, <2>3 DEF TodoInv
  <2>5. CurInv'
    BY <1>3 DEF CurInv
  <2>6. Pending'
    BY <1>1, <1>3, <2>2, PathsAssumption DEF Pending, Due
  <2> QED
    BY <1>1, <2>4, <2>5, <2>6, WalkInvStep
<1> QED
  BY <1>2, <1>3 DEF CheckRoot

LEMMA WalkInvDescend ==
    ASSUME ItemsOK, WalkOK, TreeInv, WalkInv, NEW e \in todo, Descend(e)
    PROVE  WalkInv'
<1> USE DEF Goto, ReturnErr, Faulty
<1> DEFINE d == CurrentDir
<1>1. /\ UNCHANGED <<prfl, item, tree, touched, whole>> /\ pc = "walk"
      /\ InfoOf(e) \in {"dir", "lockeddir"}
  BY DEF Descend
<1>2. CASE pc' = "done"
  BY <1>1, <1>2, WalkInvFrame DEF Walking
<1>3. CASE pc' = "walk" /\ todo' = (todo \ {e}) \cup Listed(e.node)
  <2>1. CurrentDir' = CurrentDir /\ CurrentDir \in Dirs
    BY <1>1, CurrentItem DEF CurrentDir, DirLocations
  <2>2. TodoInv'
    <3>1. \A x \in Listed(e.node) : x.node # Root /\ x.kind = tree[CurrentDir][x.node]
      BY DEF Listed, Children
    <3> QED
      BY <1>1, <1>3, <2>1, <3>1 DEF WalkInv, TodoInv, Walking
  <2>3. CurInv'
    BY <1>3 DEF CurInv
  <2>4. Due(CurrentDir)' = Due(CurrentDir)
    BY <1>1, <2>1 DEF Due, Wanted
  <2>5. ASSUME NEW n \in Due(d), e.node \in {n} \cup Above[n]
        PROVE  \E x \in todo' : x.node \in {n} \cup Above[n]
    <3>1. n \in Node \ {Root} /\ tree[d][n] \notin {"absent", "dir", "lockeddir"}
      BY DEF Due, Wanted
    <3>2. e.node \in Above[n]
      <4>1. e.node # n
        BY <1>1, <3>1, InfoKnown DEF WalkInv, Due
      <4> QED
        BY <2>5, <4>1
    <3>3. PICK c \in ({n} \cup Above[n]) \ {Root} : Parent[c] = e.node
      BY <3>1, <3>2, StepDown
    <3>4. c \in Node /\ tree[d][c] # "absent"
      BY <2>1, <3>1, <3>3, DueAbove, AboveParent
    <3>5. [node |-> c, kind |-> tree[d][c]] \in Listed(e.node)
      BY <3>3, <3>4 DEF Listed, Children
    <3> QED
      BY <1>3, <3>3, <3>5
  <2>6. Pending'
    <3> SUFFICES ASSUME RootsKept, NEW n \in Due(d)
                 PROVE  <<d, n>> \in whole \/ \E x \in todo' : x.node \in {n} \cup Above[n]
      BY <1>1, <2>1, <2>4 DEF Pending
    <3> QED
      BY <1>1, <1>3, <2>5 DEF WalkInv, Pending, Walking
  <2> QED
    BY <1>1, <2>2, <2>3, <2>6, WalkInvStep
<1> QED
  BY <1>2, <1>3 DEF Descend

LEMMA WalkInvVisit ==
    ASSUME ItemsOK, WalkOK, TreeInv, WalkInv, NEW e \in todo, Visit(e)
    PROVE  WalkInv'
<1> USE DEF Goto, ReturnErr, Faulty
<1> DEFINE d == CurrentDir
<1>1. /\ UNCHANGED <<prfl, item, tree, touched, whole>> /\ pc = "walk"
      /\ InfoOf(e) \notin {"dir", "lockeddir"}
  BY DEF Visit
<1>2. CASE pc' = "done"
  BY <1>1, <1>2, WalkInvFrame DEF Walking
<1>3. ASSUME InfoOf(e) # "absent", todo' = todo \ {e},
             \/ Skips(e.node) /\ pc' = "walk" /\ UNCHANGED cur
             \/ ~Skips(e.node) /\ pc' = "add" /\ cur' = [node |-> e.node, kind |-> InfoOf(e)]
      PROVE  WalkInv'
  <2>1. CurrentDir' = CurrentDir /\ CurrentDir \in Dirs /\ e.node \in Node /\ InfoOf(e) \in Kinds
    BY <1>1, CurrentItem, InfoTyped DEF CurrentDir, DirLocations, WalkOK, Listing
  <2>2. TodoInv'
    BY <1>1, <1>3, <2>1 DEF WalkInv, TodoInv, Walking
  <2>3. CurInv'
    <3> SUFFICES ASSUME pc' = "add" PROVE CurInv'
      BY DEF CurInv
    <3>1. ~Skips(e.node) /\ cur'.node = e.node
      BY <1>3
    <3>2. e.node = Root => prfl.remote /\ tree[d][Root] = "dirlink"
      <4> SUFFICES ASSUME e.node = Root PROVE prfl.remote /\ tree[d][Root] = "dirlink"
        OBVIOUS
      <4>1. InfoOf(e) = e.kind
        BY DEF InfoOf
      <4> QED
        BY <1>1, <4>1 DEF WalkInv, TodoInv, Walking
    <3>3. e.node # Root /\ <<d, e.node>> \notin touched => tree[d][e.node] \in NotDirs
      BY <1>1, <1>3, <2>1, InfoKnown DEF WalkInv, NotDirs
    <3> QED
      BY <1>1, <2>1, <3>1, <3>2, <3>3 DEF CurInv, Skips
  <2>4. Due(CurrentDir)' = Due(CurrentDir)
    BY <1>1, <2>1 DEF Due, Wanted
  <2>5. ASSUME RootsKept, NEW n \in Due(d), e.node \in {n} \cup Above[n]
        PROVE  pc' = "add" /\ cur'.node \in {n} \cup Above[n]
    <3>1. n \in Node \ {Root} /\ n \notin Excluded[d]
      BY DEF Due, Wanted
    <3>2. e.node = n \/ e.node = Root
      <4> SUFFICES ASSUME e.node \in Above[n], e.node # Root PROVE FALSE
        BY <2>5
      <4>1. <<d, e.node>> \notin touched /\ tree[d][e.node] \in {"dir", "lockeddir"}
        BY <2>1, DueAbove
      <4> QED
        BY <1>1, <4>1, InfoKnown DEF WalkInv
    <3>3. ~Skips(e.node)
      BY <2>1, <2>5, <3>1, <3>2 DEF Skips, RootsKept
    <3> QED
      BY <1>3, <2>5, <3>3
  <2>6. Pending'
    <3> SUFFICES ASSUME RootsKept, NEW n \in Due(d)
                 PROVE  \/ <<d, n>> \in whole
                        \/ pc' = "add" /\ cur'.node \in {n} \cup Above[n]
                        \/ \E x \in todo' : x.node \in {n} \cup Above[n]
      BY <1>1, <2>1, <2>4 DEF Pending
    <3> QED
      BY <1>1, <1>3, <2>5 DEF WalkInv, Pending, Walking
  <2> QED
    BY <1>1, <2>2, <2>3, <2>6, WalkInvStep
<1> QED
  BY <1>2, <1>3 DEF Visit

LEMMA WalkInvAdd ==
    ASSUME ItemsOK, WalkOK, TreeInv, WalkInv, Add
    PROVE  WalkInv'
<1> USE DEF Goto, ReturnErr, Faulty
<1> DEFINE d == CurrentDir
           n0 == cur.node
<1>1. UNCHANGED <<prfl, item, tree, touched>> /\ pc = "add"
  BY DEF Add
<1>2. CASE pc' = "done" /\ UNCHANGED whole
  BY <1>1, <1>2, WalkInvFrame DEF Walking
<1>3. ASSUME Addable(cur.kind, tree[d][n0]), whole' = whole \cup {<<d, n0>>}, pc' = "walk",
             UNCHANGED todo
      PROVE  WalkInv'
  <2>1. CurrentDir' = CurrentDir /\ CurrentDir \in Dirs /\ n0 \in Node
    BY <1>1, CurrentItem DEF CurrentDir, DirLocations, WalkOK, Listing
  <2>2. n0 # Root
    BY <1>1, <1>3 DEF WalkInv, CurInv, Addable
  <2>3. n0 \notin Excluded[d] /\ (<<d, n0>> \notin touched => tree[d][n0] \in NotDirs)
    BY <1>1, <2>2 DEF WalkInv, CurInv
  <2>4. TodoInv'
    BY <1>1, <1>3, <2>1 DEF WalkInv, TodoInv, Walking
  <2>5. CurInv'
    BY <1>3 DEF CurInv
  <2>6. Sound'
    <3>1. <<d, n0>> \notin touched => n0 \in Wanted(d)
      BY <2>1, <2>3 DEF Wanted, NotDirs
    <3>2. \A f \in Dirs : Wanted(f)' = Wanted(f)
      BY <1>1 DEF Wanted
    <3> QED
      BY <1>1, <1>3, <3>1, <3>2 DEF WalkInv, Sound
  <2>7. \A f \in Dirs : Due(f)' = Due(f)
    BY <1>1 DEF Due, Wanted
  <2>8. Pending'
    <3> SUFFICES ASSUME RootsKept, NEW n \in Due(d)
                 PROVE  \/ <<d, n>> \in whole'
                        \/ \E x \in todo' : x.node \in {n} \cup Above[n]
      BY <1>3, <2>1, <2>7 DEF Pending
    <3>1. n0 \notin Above[n]
      BY <2>1, <2>2, <2>3, DueAbove DEF NotDirs
    <3> QED
      BY <1>1, <1>3, <3>1 DEF WalkInv, Pending, Walking
  <2>9. Copied'
    <3>1. \A i \in 1 .. NumDirs : prfl.dirs[i] \in Dirs
      BY ProfileFacts DEF ItemsOK, NumDirs
    <3>2. NumDirs' = NumDirs
      BY <1>1, SameCounts
    <3> QED
      BY <1>1, <1>3, <2>7, <3>1, <3>2 DEF WalkInv, Copied
  <2> QED
    BY <2>4, <2>5, <2>6, <2>8, <2>9 DEF WalkInv
<1> QED
  BY <1>2, <1>3 DEF Add

LEMMA WalkInvDirDone ==
    ASSUME ItemsOK, WalkOK, TreeInv, WalkInv, DirDone
    PROVE  WalkInv'
<1> USE DEF Goto, ReturnErr, Faulty
<1>1. UNCHANGED <<prfl, tree, touched, whole>> /\ pc = "walk" /\ todo = {}
  BY DEF DirDone
<1>2. CASE pc' = "done" /\ UNCHANGED item
  BY <1>1, <1>2, WalkInvFrame DEF Walking
<1>3. CASE pc' = "next" /\ item' = item + 1
  <2>1. TodoInv' /\ CurInv' /\ Pending'
    BY <1>3 DEF TodoInv, CurInv, Pending, Walking
  <2>2. Sound'
    BY <1>1 DEF WalkInv, Sound, Wanted
  <2>3. \A f : Due(f)' = Due(f)
    BY <1>1 DEF Due, Wanted
  <2>4. ASSUME RootsKept PROVE \A n \in Due(CurrentDir) : <<CurrentDir, n>> \in whole
    BY <2>4, <1>1 DEF WalkInv, Pending, Walking
  <2>5. NumDirs' = NumDirs /\ NumDirs \in Nat /\ item \in Nat
    BY <1>1, SameCounts, Counts DEF ItemsOK
  <2>6. ASSUME RootsKept, NEW i \in 1 .. NumDirs, i <= item + 1, NEW n \in Due(prfl.dirs[i])
        PROVE  <<prfl.dirs[i], n>> \in whole
    <3>1. CASE i <= item
      BY <2>6, <3>1 DEF WalkInv, Copied
    <3>2. CASE i = item + 1
      BY <2>4, <2>6, <3>2 DEF CurrentDir
    <3> QED
      BY <2>5, <2>6, <3>1, <3>2
  <2>7. Copied'
    BY <1>1, <1>3, <2>3, <2>5, <2>6 DEF Copied
  <2> QED
    BY <2>1, <2>2, <2>7 DEF WalkInv
<1> QED
  BY <1>2, <1>3 DEF DirDone, ItemDone

LEMMA WalkInvChange ==
    ASSUME ItemsOK, WalkOK, TreeInv, WalkInv,
           NEW d \in Dirs, NEW n \in Node \ {Root}, NEW k, Change(d, n, k)
    PROVE  WalkInv'
<1>1. UNCHANGED <<prfl, item, pc, whole, todo, cur>>
  BY DEF Change, itemVars
<1>2. /\ touched \subseteq touched'
      /\ \A e \in Dirs : tree'[e][Root] = tree[e][Root]
      /\ \A e \in Dirs : \A c \in Node :
            <<e, c>> \notin touched' => tree'[e][c] = tree[e][c]
  BY ChangeFacts
<1>3. CurrentDir' = CurrentDir /\ (Walking => CurrentDir \in Dirs)
  BY <1>1, CurrentItem DEF CurrentDir, Walking, DirLocations
<1>4. \A e \in Dirs : \A c \in Node :
         <<e, c>> \notin touched' => (c \in Wanted(e)' <=> c \in Wanted(e))
  BY <1>2 DEF Wanted
<1>5. \A e \in Dirs : Due(e)' \subseteq Due(e)
  BY <1>2, <1>4 DEF Due
<1>6. TodoInv'
  BY <1>1, <1>2, <1>3 DEF WalkInv, TodoInv, Walking, WalkOK, Listing
<1>7. CurInv'
  <2>1. pc = "add" => cur.node \in Node /\ CurrentDir \in Dirs
    BY <1>3 DEF WalkOK, Listing, Walking
  <2> QED
    BY <1>1, <1>2, <1>3, <2>1 DEF WalkInv, CurInv
<1>8. Sound'
  BY <1>1, <1>2, <1>4 DEF WalkInv, Sound
<1>9. Pending'
  BY <1>1, <1>3, <1>5 DEF WalkInv, Pending, Walking
<1>10. Copied'
  <2>1. \A i \in 1 .. NumDirs : prfl.dirs[i] \in Dirs
    BY ProfileFacts DEF ItemsOK, NumDirs
  <2>2. NumDirs' = NumDirs
    BY <1>1, SameCounts
  <2> QED
    BY <1>1, <1>5, <2>1, <2>2 DEF WalkInv, Copied
<1> QED
  BY <1>6, <1>7, <1>8, <1>9, <1>10 DEF WalkInv

LEMMA WalkInvWaitDump ==
    ASSUME ItemsOK, WalkInv, WaitDump, UNCHANGED walkVars
    PROVE  WalkInv'
<1> USE DEF Goto, ReturnErr, Faulty
<1>1. UNCHANGED <<prfl, tree, touched>> /\ pc = "wait" /\ pc' \notin {"walk", "add"}
  BY DEF WaitDump, walkVars, ItemDone
<1>2. CASE UNCHANGED <<item, whole>>
  BY <1>1, <1>2, WalkInvFrame DEF Walking
<1>3. ASSUME item' = item + 1, whole' \subseteq whole \cup {<<"db", CurrentDb.id>>},
             whole \subseteq whole'
      PROVE  WalkInv'
  <2>1. TodoInv' /\ CurInv' /\ Pending'
    BY <1>1 DEF TodoInv, CurInv, Pending, Walking
  <2>2. \A f \in Dirs : \A n \in Node : <<f, n>> \in whole' => <<f, n>> \in whole
    BY <1>3, TreeAssumption
  <2>3. Sound'
    BY <1>1, <2>2 DEF WalkInv, Sound, Wanted
  <2>4. \A f : Due(f)' = Due(f)
    BY <1>1 DEF Due, Wanted
  <2>5. NumDirs' = NumDirs /\ NumDirs \in Nat /\ item \in Nat /\ item >= NumDirs
    BY <1>1, SameCounts, Counts DEF ItemsOK, DbLocations
  <2>6. Copied'
    BY <1>1, <1>3, <2>4, <2>5 DEF WalkInv, Copied
  <2> QED
    BY <2>1, <2>3, <2>6 DEF WalkInv
<1> QED
  BY <1>2, <1>3 DEF WaitDump, ItemDone

LEMMA WalkInvNext ==
    ASSUME ItemsOK, WalkOK, TreeInv, WalkInv, [Next]_vars
    PROVE  WalkInv'
<1> USE DEF Goto, ReturnErr, Faulty
<1>1. CASE (NextItem \/ CloseZip) /\ UNCHANGED walkVars
  <2>1. UNCHANGED <<prfl, item, tree, touched, whole>> /\ pc' \in {"root", "entry", "done"}
    BY <1>1 DEF NextItem, CloseZip, walkVars
  <2> QED
    BY <2>1, WalkInvFrame DEF Walking
<1>2. CASE WalkStep
  BY <1>2, WalkInvCheckRoot, WalkInvDescend, WalkInvVisit, WalkInvAdd, WalkInvDirDone
  DEF WalkStep
<1>3. CASE (OpenEntry \/ FindBin \/ StartDump \/ CopyDump) /\ UNCHANGED walkVars
  <2>1. UNCHANGED <<prfl, item, tree, touched, whole>>
    BY <1>3 DEF OpenEntry, FindBin, StartDump, CopyDump, walkVars
  <2>2. pc' \in {"bin", "start", "copy", "wait", "done"}
    BY <1>3 DEF OpenEntry, FindBin, NewLocal, DockerBinPath, RemoteBinPath, SshDockerBinPath,
                MysqlDockerBinPath, PgDockerBinPath, Found, FoundAnyway, StartDump,
                LocalNotStarted, DockerNotStarted, RemoteNotStarted, SshDockerNotStarted, CopyDump
  <2> QED
    BY <2>1, <2>2, WalkInvFrame DEF Walking
<1>4. CASE WaitDump /\ UNCHANGED walkVars
  BY <1>4, WalkInvWaitDump
<1>5. ASSUME NEW d \in Dirs, NEW n \in Node \ {Root}, NEW k \in ChangeTo[d], Change(d, n, k)
      PROVE  WalkInv'
  BY <1>5, WalkInvChange
<1>6. ASSUME UNCHANGED <<prfl, item, pc, whole, walkVars>> PROVE WalkInv'
  BY <1>6 DEF WalkInv, TodoInv, CurInv, Sound, Pending, Copied, Due, Wanted, Walking,
              CurrentDir, NumDirs, walkVars
<1>7. CASE (Command \/ Fail \/ CloseOutput \/ LinkLost) /\ UNCHANGED walkVars
  <2>1. UNCHANGED <<prfl, item, pc, whole>>
    BY <1>7 DEF Command, Emit, Complete, GiveUp, Fail, CloseOutput, LinkLost, itemVars
  <2> QED
    BY <1>6, <1>7, <2>1
<1>8. CASE UNCHANGED vars
  BY <1>6, <1>8 DEF vars, itemVars
<1> QED
  BY <1>1, <1>2, <1>3, <1>4, <1>5, <1>7, <1>8 DEF Next, GobackStep, OtherStep, DumpStep

-----------------------------------------------------------------------------
\* Why a run fails.

\* The paths that the walk is still to come to; no one lies in another.
Ahead == {e.node : e \in todo} \cup (IF pc = "add" THEN {cur.node} ELSE {})
Apart ==
    /\ \A x, y \in Ahead : x \notin Above[y]
    /\ \A e, f \in todo : e.node = f.node => e = f
    /\ pc = "add" => \A e \in todo : e.node # cur.node

\* What is wanted and no longer ahead.
Behind == {n \in Wanted(CurrentDir) : Ahead \cap ({n} \cup Above[n]) = {}}

\* As long as nobody has changed a file, the walk knows what it will find, and
\* has no more files open than it has left behind.
QuietInv ==
    touched = {} /\ Walking =>
      /\ \A e \in todo : /\ e.kind # "absent"
                         /\ e.node = Root /\ e.kind = "lockeddir" =>
                              tree[CurrentDir][Root] = "lockeddir"
      /\ pc = "add" /\ cur.node # Root => cur.kind = tree[CurrentDir][cur.node]
      /\ Apart
      /\ handles <= Cardinality(Behind)

HandlesInv == handles \in Nat /\ (~Walking => handles = 0)

\* A connection that is lost is a fault.
LinkInv == link \/ faulted

Explained ==
    \/ \E d \in DirsOf(prfl) : Unreadable(d)
    \/ \E db \in DbsOf(prfl) : db.tool = "unknown"
    \/ proc = "bad"

FailInv == QuietInv /\ HandlesInv /\ LinkInv /\ FailuresExplained

LEMMA FailInvInit == Init => FailInv
BY DEF Init, ItemsInit, WalkInit, DumpInit, FailInv, QuietInv, HandlesInv, LinkInv,
       FailuresExplained, Walking

\* A step that fails, or does not end the run.
LEMMA FailureStep ==
    ASSUME FailuresExplained, touched \subseteq touched', prfl' = prfl,
           touched' = {} => tree' = tree,
           result = "failed" /\ proc = "bad" => proc' = "bad",
           \/ result' # "failed"
           \/ faulted'
           \/ result = "failed" /\ (~faulted' => ~faulted)
           \/ touched' = {} => Explained'
    PROVE  FailuresExplained'
<1> SUFFICES ASSUME result' = "failed", ~faulted', touched' = {} PROVE Explained'
  BY DEF FailuresExplained, Explained
<1>1. CASE result = "failed" /\ ~faulted
  <2>1. Explained
    BY <1>1 DEF FailuresExplained, Explained
  <2>2. \A d : Unreadable(d) => Unreadable(d)'
    BY DEF Unreadable, Wanted
  <2> QED
    BY <2>1, <2>2 DEF Explained, DirsOf, DbsOf
<1> QED
  BY <1>1

LEMMA WantedFinite ==
    ASSUME NEW d, NEW S \in SUBSET Wanted(d)
    PROVE  IsFiniteSet(S) /\ Cardinality(S) \in Nat /\ Cardinality(S) <= Cardinality(Wanted(d))
           /\ Cardinality(Wanted(d)) \in Nat
<1>1. IsFiniteSet(Wanted(d))
  BY TreeAssumption, FS_Subset DEF Wanted
<1> QED
  BY <1>1, FS_Subset, FS_CardinalityType

\* One more than what is behind.
LEMMA OneMore ==
    ASSUME NEW d, NEW S \in SUBSET Wanted(d), NEW T \in SUBSET Wanted(d), S \subseteq T
    PROVE  /\ Cardinality(S) <= Cardinality(T)
           /\ \A x \in T \ S : Cardinality(S) + 1 <= Cardinality(T)
<1>1. IsFiniteSet(S) /\ IsFiniteSet(T) /\ Cardinality(S) \in Nat /\ Cardinality(T) \in Nat
  BY WantedFinite
<1>2. Cardinality(S) <= Cardinality(T)
  BY <1>1, FS_Subset
<1>3. ASSUME NEW x \in T \ S PROVE Cardinality(S) + 1 <= Cardinality(T)
  <2>1. IsFiniteSet(S \cup {x}) /\ Cardinality(S \cup {x}) = Cardinality(S) + 1
    BY <1>1, FS_AddElement
  <2>2. S \cup {x} \subseteq T
    OBVIOUS
  <2> QED
    BY <1>1, <2>1, <2>2, FS_Subset
<1> QED
  BY <1>2, <1>3

\* A step that leaves the walk, or stays outside.
LEMMA FailInvOutside ==
    ASSUME FailInv, ~Walking', handles' = 0, LinkInv', FailuresExplained'
    PROVE  FailInv'
BY DEF FailInv, QuietInv, HandlesInv

LEMMA FailInvCheckRoot ==
    ASSUME ItemsOK, WalkOK, FailInv, CheckRoot, UNCHANGED dumpVars
    PROVE  FailInv'
<1> USE DEF Goto, ReturnErr, Faulty
<1> DEFINE k == tree[CurrentDir][Root]
           root == [node |-> Root, kind |-> IF k = "dirlink" /\ ~prfl.remote THEN "dir" ELSE k]
<1>1. /\ UNCHANGED <<prfl, item, tree, touched, handles, proc, link>> /\ pc = "root" /\ handles = 0
      /\ faulted' \/ faulted' = faulted
  BY DEF CheckRoot, dumpVars, FailInv, HandlesInv, Walking
<1>2. CurrentDir \in DirsOf(prfl) /\ CurrentDir \in Dirs /\ result = "none"
  BY <1>1, CurrentItem DEF DirLocations, ItemsOK
<1>3. LinkInv'
  BY <1>1 DEF FailInv, LinkInv
<1>4. FailuresExplained'
  <2>1. result' # "failed" \/ faulted' \/ k \notin {"dir", "lockeddir", "dirlink"}
    BY <1>2 DEF CheckRoot
  <2>2. ASSUME k \notin {"dir", "lockeddir", "dirlink"} PROVE Explained'
    BY <1>1, <1>2, <2>2 DEF Explained, Unreadable, DirsOf
  <2> QED
    BY <1>1, <2>1, <2>2, FailureStep DEF FailInv
<1>5. CASE pc' = "done"
  BY <1>1, <1>3, <1>4, <1>5, FailInvOutside DEF Walking
<1>6. CASE pc' = "walk" /\ k \in {"dir", "lockeddir", "dirlink"} /\ todo' = {root}
  <2>1. CurrentDir' = CurrentDir
    BY <1>1 DEF CurrentDir
  <2>2. root.node = Root /\ root.kind # "absent" /\ (root.kind = "lockeddir" => k = "lockeddir")
    BY <1>6
  <2> HIDE DEF root
  <2>3. Ahead' = {Root}
    BY <1>6, <2>2 DEF Ahead
  <2>4. Apart'
    BY <1>6, <2>2, <2>3, AboveParent DEF Apart
  <2>5. Behind' \in SUBSET Wanted(CurrentDir)
    BY <1>1, <2>1 DEF Behind, Wanted
  <2>6. 0 <= Cardinality(Behind')
    BY <2>5, WantedFinite
  <2>7. QuietInv'
    BY <1>1, <1>6, <2>1, <2>2, <2>4, <2>6 DEF QuietInv
  <2>8. HandlesInv'
    BY <1>1, <1>6 DEF HandlesInv, Walking
  <2> QED
    BY <1>3, <1>4, <2>7, <2>8 DEF FailInv
<1> QED
  BY <1>5, <1>6 DEF CheckRoot

LEMMA FailInvDescend ==
    ASSUME ItemsOK, WalkOK, WalkInv, FailInv, NEW e \in todo, Descend(e), UNCHANGED dumpVars
    PROVE  FailInv'
<1> USE DEF Goto, ReturnErr, Faulty
<1> DEFINE d == CurrentDir
           m == e.node
<1>1. /\ UNCHANGED <<prfl, item, tree, touched, proc, link>> /\ pc = "walk"
      /\ faulted' \/ faulted' = faulted
      /\ InfoOf(e) \in {"dir", "lockeddir"}
  BY DEF Descend, dumpVars
<1>2. CurrentDir \in DirsOf(prfl) /\ CurrentDir \in Dirs /\ result = "none" /\ m \in Node
  BY <1>1, CurrentItem DEF DirLocations, ItemsOK, WalkOK, Listing
<1>3. LinkInv'
  BY <1>1 DEF FailInv, LinkInv
<1>4. FailuresExplained'
  <2>1. \/ result' # "failed" \/ faulted'
        \/ tree[d][m] \notin {"dir", "dirlink"}
    BY <1>2 DEF Descend
  <2>2. ASSUME touched = {}, tree[d][m] \notin {"dir", "dirlink"}
        PROVE  Explained'
    <3>1. m # Root => tree[d][m] = "lockeddir"
      BY <1>1, <2>2, InfoKnown DEF WalkInv
    <3>2. Unreadable(d)
      <4>1. CASE m = Root
        BY <2>2, <4>1 DEF Unreadable
      <4>2. CASE m # Root
        BY <1>2, <3>1, <4>2 DEF Unreadable
      <4> QED
        BY <4>1, <4>2
    <3>3. PICK x \in DirsOf(prfl) : Unreadable(x)
      BY <1>2, <3>2
    <3>4. Unreadable(x)'
      BY <1>1, <3>3 DEF Unreadable, Wanted
    <3> QED
      BY <1>1, <3>4 DEF Explained, DirsOf
  <2> QED
    BY <1>1, <2>1, <2>2, FailureStep DEF FailInv
<1>5. CASE pc' = "done" /\ handles' = 0
  BY <1>3, <1>4, <1>5, FailInvOutside DEF Walking
<1>6. CASE pc' = "walk" /\ todo' = (todo \ {e}) \cup Listed(m) /\ UNCHANGED handles
  <2>1. CurrentDir' = CurrentDir
    BY <1>1 DEF CurrentDir
  <2>2. HandlesInv'
    BY <1>1, <1>6 DEF FailInv, HandlesInv, Walking
  <2>3. ASSUME touched = {} PROVE QuietInv'
    <3>1. /\ \A f \in todo : f.kind # "absent" /\ (f.node = Root /\ f.kind = "lockeddir" =>
                                tree[CurrentDir][Root] = "lockeddir")
          /\ Apart /\ handles <= Cardinality(Behind)
      BY <1>1, <2>3 DEF FailInv, QuietInv, Walking
    <3>2. \A f \in Listed(m) : /\ f.kind # "absent" /\ f.node \in Node \ {Root}
                               /\ Parent[f.node] = m /\ f.kind = tree[d][f.node]
                               /\ f = [node |-> f.node, kind |-> f.kind]
      BY DEF Listed, Children
    <3>3. \A f \in Listed(m) : Above[f.node] = {m} \cup Above[m]
      BY <3>2, AboveParent
    <3>4. \A f \in todo : f.node \in Node
      BY DEF WalkOK, Listing
    <3>5. Ahead = {f.node : f \in todo} /\ Ahead' = {f.node : f \in todo'}
      BY <1>1, <1>6 DEF Ahead
    <3>6. \A f \in todo : f.node \notin Above[m] /\ m \notin Above[f.node] /\ (f # e => f.node # m)
      BY <3>1, <3>5 DEF Apart
    <3>7. ASSUME NEW f \in todo \ {e}, NEW g \in Listed(m)
          PROVE  f.node \notin Above[g.node] /\ g.node \notin Above[f.node] /\ f.node # g.node
      BY <3>2, <3>3, <3>4, <3>6, AboveTransitive
    <3>8. ASSUME NEW f \in Listed(m), NEW g \in Listed(m)
          PROVE  f.node \notin Above[g.node] /\ (f.node = g.node => f = g)
      <4>1. f.node # m
        BY <3>2, <3>3, NotAboveItself
      <4>2. f.node \notin Above[m]
        BY <1>2, <3>2, <3>3, AboveTransitive, NotAboveItself
      <4> QED
        BY <3>2, <3>3, <4>1, <4>2
    <3>9. Apart'
      BY <1>6, <3>1, <3>5, <3>7, <3>8 DEF Apart
    <3>10. Behind \subseteq Behind'
      <4>1. Wanted(CurrentDir)' = Wanted(CurrentDir)
        BY <1>1, <2>1 DEF Wanted
      <4>2. ASSUME NEW n \in Wanted(CurrentDir), NEW f \in Listed(m), f.node \in {n} \cup Above[n]
            PROVE  m \in {n} \cup Above[n]
        <5>1. n \in Node
          BY DEF Wanted
        <5> QED
          BY <3>3, <4>2, <5>1, AboveTransitive
      <4> QED
        BY <1>6, <3>5, <4>1, <4>2 DEF Behind
    <3>11. handles <= Cardinality(Behind')
      <4>1. Behind \in SUBSET Wanted(d) /\ Behind' \in SUBSET Wanted(d)
        BY <1>1, <2>1 DEF Behind, Wanted
      <4>2. Cardinality(Behind) <= Cardinality(Behind')
        BY <3>10, <4>1, OneMore
      <4>3. Cardinality(Behind) \in Nat /\ Cardinality(Behind') \in Nat
        BY <4>1, WantedFinite
      <4> QED
        BY <3>1, <4>2, <4>3 DEF FailInv, HandlesInv
    <3> QED
      BY <1>1, <1>6, <2>1, <3>1, <3>2, <3>9, <3>11 DEF QuietInv
  <2>4. QuietInv'
    BY <1>1, <2>3 DEF QuietInv
  <2> QED
    BY <1>3, <1>4, <2>2, <2>4 DEF FailInv
<1> QED
  BY <1>5, <1>6 DEF Descend

LEMMA FailInvVisit ==
    ASSUME ItemsOK, WalkOK, WalkInv, FailInv, NEW e \in todo, Visit(e), UNCHANGED dumpVars
    PROVE  FailInv'
<1> USE DEF Goto, ReturnErr, Faulty
<1>1. /\ UNCHANGED <<prfl, item, tree, touched, proc, link, faulted>> /\ pc = "walk"
      /\ InfoOf(e) \notin {"dir", "lockeddir"}
  BY DEF Visit, dumpVars
<1>2. CurrentDir \in Dirs /\ result = "none" /\ e.node \in Node
  BY <1>1, CurrentItem DEF DirLocations, ItemsOK, WalkOK, Listing
<1>3. LinkInv'
  BY <1>1 DEF FailInv, LinkInv
<1>4. ASSUME touched = {} PROVE InfoOf(e) # "absent"
  BY <1>1, <1>4 DEF FailInv, QuietInv, Walking, WalkInv, TodoInv, InfoOf
<1>5. FailuresExplained'
  <2>1. touched' = {} => result' # "failed"
    BY <1>1, <1>2, <1>4 DEF Visit
  <2> QED
    BY <1>1, <2>1, FailureStep DEF FailInv
<1>6. CASE pc' = "done" /\ handles' = 0
  BY <1>3, <1>5, <1>6, FailInvOutside DEF Walking
<1>7. ASSUME todo' = todo \ {e}, UNCHANGED handles,
             \/ pc' = "walk" /\ UNCHANGED cur
             \/ pc' = "add" /\ cur' = [node |-> e.node, kind |-> InfoOf(e)]
      PROVE  FailInv'
  <2>1. CurrentDir' = CurrentDir
    BY <1>1 DEF CurrentDir
  <2>2. HandlesInv'
    BY <1>1, <1>7 DEF FailInv, HandlesInv, Walking
  <2>3. ASSUME touched = {} PROVE QuietInv'
    <3>1. /\ \A f \in todo : f.kind # "absent" /\ (f.node = Root /\ f.kind = "lockeddir" =>
                                tree[CurrentDir][Root] = "lockeddir")
          /\ Apart /\ handles <= Cardinality(Behind)
      BY <1>1, <2>3 DEF FailInv, QuietInv, Walking
    <3>2. pc' = "add" /\ cur'.node # Root => cur'.kind = tree[CurrentDir][cur'.node]
      BY <1>1, <1>7, <2>3, InfoKnown DEF WalkInv
    <3>3. Ahead' \subseteq Ahead
      BY <1>1, <1>7 DEF Ahead
    <3>4. Apart'
      BY <1>7, <3>1, <3>3 DEF Apart
    <3>5. Behind \in SUBSET Wanted(CurrentDir) /\ Behind' \in SUBSET Wanted(CurrentDir)
      BY <1>1, <2>1 DEF Behind, Wanted
    <3>6. Behind \subseteq Behind'
      BY <1>1, <2>1, <3>3 DEF Behind, Wanted
    <3>7. handles <= Cardinality(Behind')
      <4>1. Cardinality(Behind) <= Cardinality(Behind')
        BY <3>5, <3>6, OneMore
      <4>2. Cardinality(Behind) \in Nat /\ Cardinality(Behind') \in Nat
        BY <3>5, WantedFinite
      <4> QED
        BY <3>1, <4>1, <4>2 DEF FailInv, HandlesInv
    <3> QED
      BY <1>1, <1>7, <2>1, <3>1, <3>2, <3>4, <3>7 DEF QuietInv
  <2>4. QuietInv'
    BY <1>1, <2>3 DEF QuietInv
  <2> QED
    BY <1>3, <1>5, <2>2, <2>4 DEF FailInv
<1> QED
  BY <1>6, <1>7 DEF Visit

LEMMA FailInvAdd ==
    ASSUME ItemsOK, WalkOK, WalkInv, FailInv, Add, UNCHANGED dumpVars
    PROVE  FailInv'
<1> USE DEF Goto, ReturnErr, Faulty
<1> DEFINE d == CurrentDir
           n == cur.node
           now == tree[d][n]
           full == prfl.remote /\ handles >= MaxOpen
<1>1. /\ UNCHANGED <<prfl, item, tree, touched, proc, link>> /\ pc = "add"
      /\ faulted' \/ faulted' = faulted
  BY DEF Add, dumpVars
<1>2. /\ CurrentDir \in DirsOf(prfl) /\ CurrentDir \in Dirs /\ result = "none" /\ n \in Node
      /\ cur.kind \in Kinds
  BY <1>1, CurrentItem DEF DirLocations, ItemsOK, WalkOK, Listing
<1>3. LinkInv'
  BY <1>1 DEF FailInv, LinkInv
<1>4. n = Root => ~Addable(cur.kind, now) /\ Unreadable(d)
  BY <1>1 DEF WalkInv, CurInv, Addable, Unreadable
<1>5. ASSUME touched = {}, n # Root
      PROVE  /\ n \in Wanted(d) /\ cur.kind = now /\ now \in NotDirs
             /\ Behind \in SUBSET Wanted(d) /\ n \notin Behind /\ Apart
             /\ handles <= Cardinality(Behind)
  <2>1. now \in NotDirs /\ n \notin Excluded[d]
    BY <1>1, <1>5 DEF WalkInv, CurInv
  <2>2. n \in Wanted(d)
    BY <1>2, <2>1 DEF Wanted, NotDirs
  <2>3. cur.kind = now /\ Apart /\ handles <= Cardinality(Behind)
    BY <1>1, <1>5 DEF FailInv, QuietInv, Walking
  <2>4. n \notin Behind /\ Behind \in SUBSET Wanted(d)
    BY <1>1 DEF Behind, Ahead
  <2> QED
    BY <2>1, <2>2, <2>3, <2>4
<1>6. FailuresExplained'
  <2>1. \/ result' # "failed" \/ faulted' \/ ~Addable(cur.kind, now) \/ full
    BY <1>2 DEF Add
  <2>2. ASSUME touched = {}, ~Addable(cur.kind, now) \/ full PROVE Unreadable(d)
    <3>1. CASE n = Root
      BY <1>4, <3>1
    <3>2. CASE n # Root /\ ~Addable(cur.kind, now)
      <4>1. now \in {"locked", "dangling"} \/ (prfl.remote /\ now = "dirlink")
        BY <1>5, <2>2, <3>2 DEF Addable, Links, NotDirs, Kinds
      <4> QED
        BY <1>5, <2>2, <3>2, <4>1 DEF Unreadable
    <3>3. CASE n # Root /\ full
      <4>1. Cardinality(Behind) + 1 <= Cardinality(Wanted(d))
        BY <1>5, <2>2, <3>3, OneMore
      <4>2. Cardinality(Behind) \in Nat /\ Cardinality(Wanted(d)) \in Nat
        BY <1>5, <2>2, <3>3, WantedFinite
      <4>3. handles <= Cardinality(Behind) /\ handles >= MaxOpen /\ handles \in Nat /\ prfl.remote
        BY <1>5, <2>2, <3>3 DEF FailInv, HandlesInv
      <4>4. Cardinality(Wanted(d)) > MaxOpen
        BY <4>1, <4>2, <4>3, TreeAssumption
      <4> QED
        BY <4>3, <4>4 DEF Unreadable
    <3> QED
      BY <2>2, <3>1, <3>2, <3>3
  <2>3. ASSUME Unreadable(d) PROVE Explained'
    <3>1. Unreadable(d)'
      BY <1>1, <2>3 DEF Unreadable, Wanted, CurrentDir
    <3> QED
      BY <1>1, <1>2, <3>1 DEF Explained, DirsOf, CurrentDir
  <2> QED
    BY <1>1, <2>1, <2>2, <2>3, FailureStep DEF FailInv
<1>7. CASE pc' = "done" /\ handles' = 0
  BY <1>3, <1>6, <1>7, FailInvOutside DEF Walking
<1>8. CASE /\ pc' = "walk" /\ Addable(cur.kind, now) /\ UNCHANGED todo
           /\ handles' = IF prfl.remote THEN handles + 1 ELSE 0
  <2>1. CurrentDir' = CurrentDir /\ n # Root /\ handles \in Nat
    BY <1>1, <1>4, <1>8 DEF CurrentDir, FailInv, HandlesInv
  <2>2. HandlesInv'
    BY <1>8, <2>1 DEF HandlesInv, Walking
  <2>3. ASSUME touched = {} PROVE QuietInv'
    <3>1. /\ \A f \in todo : f.kind # "absent" /\ (f.node = Root /\ f.kind = "lockeddir" =>
                                tree[CurrentDir][Root] = "lockeddir")
      BY <1>1, <2>3 DEF FailInv, QuietInv, Walking
    <3>2. Ahead = {f.node : f \in todo} \cup {n} /\ Ahead' = {f.node : f \in todo}
      BY <1>1, <1>8 DEF Ahead
    <3>3. Apart'
      BY <1>5, <1>8, <2>1, <2>3, <3>2 DEF Apart
    <3>4. Wanted(CurrentDir)' = Wanted(d)
      BY <1>1, <2>1 DEF Wanted
    <3>5. Behind \subseteq Behind' /\ Behind' \in SUBSET Wanted(d)
      BY <3>2, <3>4 DEF Behind
    <3>6. n \in Behind'
      <4>1. Ahead' \cap ({n} \cup Above[n]) = {}
        BY <1>1, <1>5, <2>1, <2>3, <3>2 DEF Apart
      <4> QED
        BY <1>5, <2>1, <2>3, <3>4, <4>1 DEF Behind
    <3>7. Cardinality(Behind) + 1 <= Cardinality(Behind')
      BY <1>5, <2>1, <2>3, <3>5, <3>6, OneMore
    <3>8. Cardinality(Behind) \in Nat /\ Cardinality(Behind') \in Nat
      BY <1>5, <2>1, <2>3, <3>5, WantedFinite
    <3>9. handles' <= Cardinality(Behind')
      BY <1>5, <1>8, <2>1, <2>3, <3>7, <3>8
    <3> QED
      BY <1>1, <1>8, <2>1, <3>1, <3>3, <3>9 DEF QuietInv
  <2>4. QuietInv'
    BY <1>1, <2>3 DEF QuietInv
  <2> QED
    BY <1>3, <1>6, <2>2, <2>4 DEF FailInv
<1> QED
  BY <1>7, <1>8 DEF Add

\* A step of the dump that fails by itself or on a lost connection, or does not
\* end the run.
LEMMA FailInvDump ==
    ASSUME ItemsOK, FailInv, UNCHANGED <<prfl, walkVars>>, pc \in DbLocations,
           pc' \notin {"walk", "add"}, link' = link, faulted' \/ faulted' = faulted,
           \/ result' # "failed"
           \/ faulted' \/ ~link
           \/ Explained'
    PROVE  FailInv'
<1>1. result = "none" /\ handles = 0 /\ handles' = 0 /\ UNCHANGED <<tree, touched>>
  BY DEF FailInv, HandlesInv, Walking, DbLocations, ItemsOK, walkVars
<1>2. LinkInv'
  BY DEF FailInv, LinkInv
<1>3. ~link => faulted'
  BY DEF FailInv, LinkInv
<1>4. FailuresExplained'
  BY <1>1, <1>3, FailureStep DEF FailInv
<1> QED
  BY <1>1, <1>2, <1>4, FailInvOutside DEF Walking

LEMMA FailInvNext ==
    ASSUME ItemsOK, WalkOK, WalkInv, FailInv, [Next]_vars
    PROVE  FailInv'
<1> USE DEF Goto, ReturnErr, Faulty
<1>1. CASE (NextItem \/ CloseZip) /\ UNCHANGED <<walkVars, dumpVars>>
  <2>1. /\ UNCHANGED <<prfl, tree, touched, handles, proc, link, faulted>> /\ pc = "next"
        /\ result' # "failed" /\ pc' \in {"root", "entry", "done"}
    BY <1>1 DEF NextItem, CloseZip, walkVars, dumpVars, ItemsOK
  <2>2. handles' = 0 /\ LinkInv'
    BY <2>1 DEF FailInv, HandlesInv, Walking, LinkInv
  <2>3. FailuresExplained'
    BY <2>1 DEF FailuresExplained
  <2> QED
    BY <2>1, <2>2, <2>3, FailInvOutside DEF Walking
<1>2. CASE DirDone /\ UNCHANGED dumpVars
  <2>1. /\ UNCHANGED <<prfl, tree, touched, proc, link>> /\ pc = "walk" /\ handles' = 0
        /\ faulted' \/ faulted' = faulted
        /\ result' # "failed" \/ faulted'
        /\ pc' \in {"next", "done"}
    BY <1>2 DEF DirDone, ItemDone, dumpVars, ItemsOK
  <2>2. LinkInv'
    BY <2>1 DEF FailInv, LinkInv
  <2>3. FailuresExplained'
    BY <2>1 DEF FailuresExplained
  <2> QED
    BY <2>1, <2>2, <2>3, FailInvOutside DEF Walking
<1>3. CASE WalkStep /\ UNCHANGED dumpVars
  BY <1>2, <1>3, FailInvCheckRoot, FailInvDescend, FailInvVisit, FailInvAdd DEF WalkStep
<1>4. CASE OpenEntry /\ UNCHANGED walkVars
  <2>1. /\ UNCHANGED <<prfl, link>> /\ pc \in DbLocations /\ pc' \in {"bin", "done"}
        /\ faulted' \/ faulted' = faulted
        /\ result' # "failed" \/ faulted' \/ CurrentDb.tool = "unknown"
    BY <1>4 DEF OpenEntry, DbLocations, ItemsOK
  <2>2. CurrentDb.tool = "unknown" => Explained'
    BY <2>1, CurrentItem DEF Explained, DbsOf
  <2> QED
    BY <1>4, <2>1, <2>2, FailInvDump
<1>5. CASE FindBin /\ UNCHANGED walkVars
  <2>1. /\ UNCHANGED <<prfl, link>> /\ pc \in DbLocations
    BY <1>5 DEF FindBin, DbLocations
  <2>2. /\ pc' \in {"start", "done"}
        /\ faulted' \/ faulted' = faulted
        /\ result' # "failed" \/ faulted' \/ ~link
    BY <1>5 DEF FindBin, NewLocal, DockerBinPath, RemoteBinPath, SshDockerBinPath,
                MysqlDockerBinPath, PgDockerBinPath, Found, FoundAnyway, ItemsOK
  <2> QED
    BY <1>5, <2>1, <2>2, FailInvDump
<1>6. CASE StartDump /\ UNCHANGED walkVars
  <2>1. /\ UNCHANGED <<prfl, link>> /\ pc \in DbLocations
    BY <1>6 DEF StartDump, DbLocations
  <2>2. /\ pc' \in {"copy", "done"}
        /\ faulted' \/ faulted' = faulted
        /\ result' # "failed" \/ faulted' \/ ~link
    BY <1>6 DEF StartDump, LocalNotStarted, DockerNotStarted, RemoteNotStarted,
                SshDockerNotStarted, ItemsOK
  <2> QED
    BY <1>6, <2>1, <2>2, FailInvDump
<1>7. CASE CopyDump /\ UNCHANGED walkVars
  <2>1. /\ UNCHANGED <<prfl, link>> /\ pc \in DbLocations /\ pc' \in {"copy", "wait", "done"}
        /\ faulted' \/ faulted' = faulted
        /\ result' # "failed" \/ faulted'
    BY <1>7 DEF CopyDump, DbLocations, ItemsOK
  <2> QED
    BY <1>7, <2>1, FailInvDump
<1>8. CASE WaitDump /\ UNCHANGED walkVars
  <2>1. /\ UNCHANGED <<prfl, link, proc>> /\ pc \in DbLocations /\ pc' \in {"next", "done"}
        /\ faulted' \/ faulted' = faulted
        /\ result' # "failed" \/ faulted' \/ ~link \/ proc = "bad"
    BY <1>8 DEF WaitDump, ItemDone, ExitBad, DbLocations, ItemsOK
  <2>2. proc = "bad" => Explained'
    BY <2>1 DEF Explained
  <2> QED
    BY <1>8, <2>1, <2>2, FailInvDump
<1>9. ASSUME UNCHANGED <<prfl, item, pc, result, walkVars>>,
             UNCHANGED <<link, faulted>> \/ faulted',
             proc = "bad" => proc' = "bad"
      PROVE  FailInv'
  <2>1. QuietInv' /\ HandlesInv'
    BY <1>9 DEF FailInv, QuietInv, HandlesInv, Apart, Ahead, Behind, Wanted, Walking, CurrentDir,
                walkVars
  <2>2. LinkInv'
    BY <1>9 DEF FailInv, LinkInv
  <2>3. UNCHANGED <<tree, touched>>
    BY <1>9 DEF walkVars
  <2>4. FailuresExplained'
    BY <1>9, <2>3, FailureStep DEF FailInv
  <2> QED
    BY <2>1, <2>2, <2>4 DEF FailInv
<1>10. CASE (Command \/ Fail \/ CloseOutput \/ LinkLost) /\ UNCHANGED walkVars
  <2>1. /\ UNCHANGED <<prfl, item, pc, result>>
        /\ UNCHANGED <<link, faulted>> \/ faulted'
        /\ proc = "bad" => proc' = "bad"
    BY <1>10 DEF Command, Emit, Complete, GiveUp, Fail, CloseOutput, LinkLost, itemVars
  <2> QED
    BY <1>9, <1>10, <2>1
<1>11. CASE UNCHANGED vars
  BY <1>9, <1>11 DEF vars, itemVars, dumpVars
<1>12. ASSUME NEW d \in Dirs, NEW n \in Node \ {Root}, NEW k \in ChangeTo[d], Change(d, n, k),
              UNCHANGED dumpVars
       PROVE  FailInv'
  <2>1. UNCHANGED <<pc, faulted, handles, link>> /\ <<d, n>> \in touched'
    BY <1>12 DEF Change, itemVars, dumpVars
  <2> QED
    BY <2>1 DEF FailInv, QuietInv, HandlesInv, LinkInv, FailuresExplained, Walking
<1> QED
  BY <1>1, <1>3, <1>4, <1>5, <1>6, <1>7, <1>8, <1>10, <1>11, <1>12
  DEF Next, GobackStep, OtherStep, DumpStep
-----------------------------------------------------------------------------
\* The inductive invariant.
Inv == ItemsOK /\ WalkOK /\ TreeInv /\ DumpInv /\ ZipInv /\ WalkInv /\ FailInv

LEMMA Invariance == Spec => []Inv
<1>1. Init => Inv
  BY ItemsInitOK, WalkOKInit, TreeInvInit, DumpInvInit, ZipInvInit, WalkInvInit, FailInvInit
  DEF Inv
<1>2. Inv /\ [Next]_vars => Inv'
  BY ItemsNext, WalkOKNext, TreeInvNext, DumpInvNext, ZipInvNext, WalkInvNext, FailInvNext
  DEF Inv
<1> QED
  BY <1>1, <1>2, PTL DEF Spec

\* Where docker records an exit code by the end of the output, a run of
\* backupLocal or backupRemote that reports success has all of every dump in the
\* zip: whatever the dump commands, the pipe and the connections did.
THEOREM SuccessHasAllDumps == ExitRecorded => (Spec => []DumpsComplete)
<1> SUFFICES ASSUME ExitRecorded PROVE Spec => []DumpsComplete
  OBVIOUS
<1>1. ASSUME Inv PROVE DumpsComplete
  <2> SUFFICES ASSUME result = "ok", NEW db \in DbsOf(prfl) PROVE <<"db", db.id>> \in whole
    BY DEF DumpsComplete
  <2>1. NumDirs \in Nat /\ NumDbs \in Nat /\ NumItems = NumDirs + NumDbs
    BY <1>1, Counts DEF Inv, ItemsOK
  <2>2. item = NumDirs + NumDbs
    BY <1>1, <2>1 DEF Inv, ItemsOK
  <2>3. PICK i \in 1 .. NumDbs : db = prfl.dbs[i]
    BY DEF DbsOf, NumDbs
  <2>4. NumDirs + i <= item
    BY <2>1, <2>2
  <2> QED
    BY <1>1, <2>3, <2>4 DEF Inv, ZipInv, DumpedSoFar
<1> QED
  BY <1>1, Invariance, PTL

\* Where no exclude pattern matches a directory itself, a run that reports success
\* has in the zip, of all that nobody touched meanwhile, what it should and no
\* more, for every tree of paths, every exclude pattern, and whatever others
\* change, and in whatever order the walk goes.
THEOREM SuccessHasStableFiles == RootsKept => (Spec => []StableFilesArchived)
<1> SUFFICES ASSUME RootsKept PROVE Spec => []StableFilesArchived
  OBVIOUS
<1>1. ASSUME Inv PROVE StableFilesArchived
  <2> SUFFICES ASSUME result = "ok", NEW d \in DirsOf(prfl), NEW n \in Node \ {Root},
                      <<d, n>> \notin touched
               PROVE  n \in Wanted(d) <=> <<d, n>> \in whole
    BY DEF StableFilesArchived
  <2>1. PICK i \in 1 .. NumDirs : d = prfl.dirs[i]
    BY DEF DirsOf, NumDirs
  <2>2. d \in Dirs
    BY <1>1, <2>1, ProfileFacts DEF Inv, ItemsOK, NumDirs
  <2>3. i <= item
    BY <1>1, Counts DEF Inv, ItemsOK
  <2>4. n \in Wanted(d) => <<d, n>> \in whole
    BY <1>1, <2>1, <2>3 DEF Inv, WalkInv, Copied, Due
  <2>5. <<d, n>> \in whole => n \in Wanted(d)
    BY <1>1, <2>2 DEF Inv, WalkInv, Sound
  <2> QED
    BY <2>4, <2>5
<1> QED
  BY <1>1, Invariance, PTL

\* A run that fails though nothing failed by itself and nobody changed a file
\* fails for something that is there to be seen, for every tree, every limit of
\* the sftp server and every order of the walk and of the dump.
THEOREM FailuresAreExplained == Spec => []FailuresExplained
<1>1. Inv => FailuresExplained
  BY DEF Inv, FailInv
<1> QED
  BY <1>1, Invariance, PTL

-----------------------------------------------------------------------------
\* Where docker records exit codes in time, backupLocal and backupRemote copy a
\* profile as ItemCopy has it, which LocalBackup takes for granted: items one by
\* one, the process ending only in a database, and a zip that is closed only with
\* all of every item.
THEOREM ImplementsItemCopy == ExitRecorded => (Spec => CopySpec)
<1> SUFFICES ASSUME ExitRecorded PROVE Spec => CopySpec
  OBVIOUS
<1>1. ASSUME Init PROVE Items!Init
  <2>1. NumDirs \in Nat /\ NumDbs \in Nat /\ NumItems = NumDirs + NumDbs /\ NumItems > 0
    BY <1>1, Counts DEF Init, ItemsInit
  <2>2. item = 0 /\ entries = {} /\ result = "none"
    BY <1>1 DEF Init, ItemsInit
  <2> QED
    BY <2>1, <2>2 DEF Items!Init, AddedWhole, CopyState
<1>2. ASSUME Inv, Inv', [Next]_vars PROVE [Items!Next]_(Items!copyVars)
  <2> USE DEF Goto, ReturnErr, Faulty
  <2> DEFINE left == NumItems - item
  <2>1. /\ NumDirs \in Nat /\ NumDbs \in Nat /\ NumItems = NumDirs + NumDbs /\ item \in Nat
        /\ item <= NumItems
    BY <1>2, Counts DEF Inv, ItemsOK
  <2>2. prfl' = prfl /\ NumDirs' = NumDirs /\ NumDbs' = NumDbs /\ NumItems' = NumItems
    BY <1>2, ItemsNext, SameCounts DEF Inv
  <2>3. ASSUME result' \in {"none", "ok"} PROVE AddedWhole'
    <3>1. ASSUME pc' \in InDump PROVE item' < NumItems' /\ ~CopyingDir'
      BY <1>2, <2>1, <2>2, <3>1 DEF Inv, ItemsOK, InDump, DbLocations, CopyingDir
    <3> QED
      BY <1>2, <2>3, <3>1 DEF Inv, ZipInv, EntriesWhole, AddedWhole
  <2>4. ASSUME UNCHANGED <<item, result, entries, whole>>
        PROVE  UNCHANGED Items!copyVars
    BY <2>2, <2>4 DEF Items!copyVars, CopyState, AddedWhole, CopyingDir, CurrentDb
  <2>5. ASSUME result = "none", UNCHANGED item, result' = "failed", item < NumItems
        PROVE  Items!Next
    BY <2>1, <2>2, <2>5 DEF Items!Next, Items!Fail, CopyState
  <2>6. ASSUME result = "none", UNCHANGED item, result' = "none"
        PROVE  [Items!Next]_(Items!copyVars)
    <3>1. AddedWhole /\ AddedWhole'
      <4>1. ASSUME pc \in InDump PROVE item < NumItems /\ ~CopyingDir
        BY <1>2, <2>1, <4>1 DEF Inv, ItemsOK, InDump, DbLocations, CopyingDir
      <4>2. AddedWhole
        BY <1>2, <2>6, <4>1 DEF Inv, ZipInv, EntriesWhole, AddedWhole
      <4> QED
        BY <2>3, <2>6, <4>2
    <3> QED
      BY <2>2, <2>6, <3>1 DEF Items!copyVars, CopyState
  <2>7. ASSUME result = "none", result' = "none", item' = item + 1, item < NumItems
        PROVE  Items!Next
    BY <2>1, <2>2, <2>3, <2>7 DEF Items!Next, Items!Add, CopyState
  <2>8. CASE NextItem
    BY <1>2, <2>6, <2>8 DEF NextItem, Inv, ItemsOK
  <2>9. CASE CloseZip
    <3>1. result = "none" /\ result' = "ok" /\ item = NumItems /\ UNCHANGED <<item, entries, whole>>
      BY <1>2, <2>9 DEF CloseZip, Inv, ItemsOK
    <3>2. pc = "next"
      BY <2>9 DEF CloseZip
    <3>3. AddedWhole
      BY <1>2, <3>1, <3>2 DEF Inv, ZipInv, EntriesWhole, AddedWhole, InDump
    <3>4. AddedWhole'
      BY <2>3, <3>1
    <3> QED
      BY <2>1, <2>2, <3>1, <3>3, <3>4 DEF Items!Next, Items!Close, CopyState
  <2>10. CASE WalkStep
    <3>1. result = "none" /\ item < NumItems
      BY <1>2, <2>1, <2>10
      DEF WalkStep, CheckRoot, Descend, Visit, Add, DirDone, Inv, ItemsOK, DirLocations
    <3>2. \/ UNCHANGED item /\ result' \in {"none", "failed"}
          \/ item' = item + 1 /\ result' = "none"
      BY <2>10, <3>1 DEF WalkStep, CheckRoot, Descend, Visit, Add, DirDone, ItemDone
    <3> QED
      BY <2>5, <2>6, <2>7, <3>1, <3>2
  <2>11. CASE DumpStep
    <3>1. result = "none" /\ item >= NumDirs /\ item < NumItems
      BY <1>2, <2>11
      DEF DumpStep, OpenEntry, FindBin, StartDump, CopyDump, WaitDump, Inv, ItemsOK, DbLocations
    <3>2. CASE OpenEntry
      BY <2>5, <2>6, <3>1, <3>2 DEF OpenEntry
    <3>3. CASE FindBin
      BY <2>5, <2>6, <3>1, <3>3
      DEF FindBin, NewLocal, DockerBinPath, RemoteBinPath, SshDockerBinPath,
          MysqlDockerBinPath, PgDockerBinPath, Found, FoundAnyway
    <3>4. CASE StartDump
      <4>1. UNCHANGED item /\ result' \in {"none", "failed", "panicked"}
        BY <3>1, <3>4
        DEF StartDump, LocalNotStarted, DockerNotStarted, RemoteNotStarted, SshDockerNotStarted
      <4>2. ASSUME result' = "panicked" PROVE Items!Next
        <5>1. NumItems - item \in 1 .. NumDbs
          BY <2>1, <3>1
        <5> QED
          BY <2>2, <3>1, <4>1, <4>2, <5>1 DEF Items!Next, Items!Panic, CopyState
      <4> QED
        BY <2>5, <2>6, <3>1, <4>1, <4>2
    <3>5. CASE CopyDump
      BY <2>5, <2>6, <3>1, <3>5 DEF CopyDump
    <3>6. CASE WaitDump
      BY <2>5, <2>7, <3>1, <3>6 DEF WaitDump, ItemDone
    <3> QED
      BY <2>11, <3>2, <3>3, <3>4, <3>5, <3>6 DEF DumpStep
  <2>12. CASE OtherStep \/ UNCHANGED vars
    <3>1. UNCHANGED <<item, result, entries, whole>>
      BY <2>12 DEF OtherStep, Change, Command, Emit, Complete, GiveUp, Fail, CloseOutput,
                   LinkLost, vars, itemVars
    <3> QED
      BY <2>4, <3>1
  <2> QED
    BY <1>2, <2>8, <2>9, <2>10, <2>11, <2>12 DEF Next, GobackStep
<1> QED
  BY <1>1, <1>2, Invariance, PTL DEF Spec, CopySpec, Items!Spec
=============================================================================
