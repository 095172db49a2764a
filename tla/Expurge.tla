------------------------------ MODULE Expurge ------------------------------
(***************************************************************************)
(* ExpurgeDir of app/goback/expurge.go down to the file names: the listing *)
(* in byte order, the date written year_DAY_month, its parsing, the stable *)
(* sort and the slice.  The module justifies findToDelete of Archives,     *)
(* which the other modules use.                                            *)
(***************************************************************************)
EXTENDS Integers, FiniteSets, Sequences

CONSTANTS
    Names,      \* profile names, numbered in byte order
    Matches,    \* Matches[n]: the names the glob built from n matches
    Dates,      \* the dates that occur in file names: <<year, month, day, time of day>>
    Profile,    \* the name ExpurgeDir is called with
    Keeps,      \* the values of keepN
    MaxFiles,   \* bound: files in the directory
    Faults      \* the operations that may fail: "stat", "remove"

\* A file name: its fields in the order dateStr writes them.
Entry == {[name |-> n, year |-> t[1], day |-> t[3], month |-> t[2], sec |-> t[4]] :
            n \in Names, t \in Dates}

ASSUME ExpurgeAssumption ==
    /\ Names \subseteq Nat \ {0}
    /\ Matches \in [Names -> SUBSET Names]
    /\ Profile \in Names
    /\ Keeps \subseteq Int
    /\ MaxFiles \in Nat
    /\ Dates \subseteq Nat \X Nat \X Nat \X (0 .. 9)

VARIABLES
    dir,       \* the *.zip files of the directory
    before,    \* what ExpurgeDir found there (history)
    taken,     \* what others have removed since (history)
    keepN,     \* its argument
    pc,        \* list, remove, done
    todel,     \* filesToDelete
    result     \* what ExpurgeDir returned

vars == <<dir, before, taken, keepN, pc, todel, result>>

-----------------------------------------------------------------------------
DaysIn(y, m) ==
    CASE m = 2 -> IF y % 4 = 0 /\ (y % 100 # 0 \/ y % 400 = 0) THEN 29 ELSE 28
      [] m \in {4, 6, 9, 11} -> 30
      [] OTHER -> 31

\* time.Parse accepts the date; the glob asks only for digits.
Valid(e) == e.month \in 1 .. 12 /\ e.day \in 1 .. DaysIn(e.year, e.month)

\* Bound: the times of day told apart, 0 .. 9.
TimesOfDay == 10

\* A time as a number that grows with the date.
TimeOf(year, month, day, sec) == ((year * 12 + month) * 32 + day) * TimesOfDay + sec

\* The zero time, that of a date that does not parse: 1 January of year 1.
ZeroTime == TimeOf(1, 1, 1, 0)

\* Mutant: the layout read as year_month_day.
extractTime_MonthFirst(e) ==
    IF e.day \in 1 .. 12 THEN TimeOf(e.year, e.day, e.month, e.sec) ELSE ZeroTime

\* time.Parse of the last fields of the name, its error ignored.
extractTime(e) ==
    IF Valid(e) THEN TimeOf(e.year, e.month, e.day, e.sec) ELSE ZeroTime

\* The fields of the file name, and the byte order of file names.
Fields(e) == <<e.name, e.year, e.day, e.month, e.sec>>
ListedBefore(e, f) ==
    \E i \in 1 .. 5 : /\ Fields(e)[i] < Fields(f)[i]
                      /\ \A j \in 1 .. i - 1 : Fields(e)[j] = Fields(f)[j]

\* The elements of S in the order of Less, a set of pairs that is a total order of
\* S: the i-th has i - 1 before it.
Sorted(S, Less) ==
    [i \in 1 .. Cardinality(S) |->
       CHOOSE e \in S : Cardinality({f \in S : <<f, e>> \in Less}) = i - 1]

\* filepath.Glob(path + "/*.zip")
Glob(S) == Sorted(S, {ef \in S \X S : ListedBefore(ef[1], ef[2])})

\* sort.SliceStable by extractTime of the files at the positions in found: where
\* the times are equal the positions decide.
SortByTime(files, found) ==
    LET Less(i, j) == \/ extractTime(files[i]) < extractTime(files[j])
                      \/ extractTime(files[i]) = extractTime(files[j]) /\ i < j
    IN  Sorted(found, {ij \in found \X found : Less(ij[1], ij[2])})

\* The positions of the files the profile's glob matches.
Found(files, name) == {i \in DOMAIN files : files[i].name \in Matches[name]}

\* Mutants: without the sort; the other end of the slice.
findToDelete_Unsorted(files, name, n) ==
    LET found == Found(files, name)
        order == Sorted(found, {ij \in found \X found : ij[1] < ij[2]})
        m == IF Cardinality(found) <= n THEN Cardinality(found) ELSE n
    IN  IF n <= 0 THEN <<>> ELSE [k \in 1 .. Cardinality(found) - m |-> files[order[k]]]

findToDelete_WrongEnd(files, name, n) ==
    LET found == Found(files, name)
        order == SortByTime(files, found)
        m == IF Cardinality(found) <= n THEN Cardinality(found) ELSE n
    IN  IF n <= 0 THEN <<>> ELSE [k \in 1 .. Cardinality(found) - m |-> files[order[k + m]]]

\* The slice of the sorted matches that leaves the last n.
findToDelete(files, name, n) ==
    LET found == Found(files, name)
        order == SortByTime(files, found)
        m == IF Cardinality(found) <= n THEN Cardinality(found) ELSE n
    IN  IF n <= 0 THEN <<>> ELSE [k \in 1 .. Cardinality(found) - m |-> files[order[k]]]

-----------------------------------------------------------------------------
Init ==
    /\ dir \in {S \in SUBSET Entry : IsFiniteSet(S) /\ Cardinality(S) <= MaxFiles}
    /\ before = dir
    /\ taken = {}
    /\ keepN \in Keeps
    /\ pc = "list"
    /\ todel = <<>>
    /\ result = "none"

\* ExpurgeDir up to the loop: os.Stat, filepath.Glob, findToDelete.
List ==
    /\ pc = "list"
    /\ \/ /\ todel' = findToDelete(Glob(dir), Profile, keepN)
          /\ IF todel' = <<>> THEN pc' = "done" /\ result' = "ok"
                              ELSE pc' = "remove" /\ UNCHANGED result
       \/ "stat" \in Faults /\ pc' = "done" /\ result' = "failed" /\ UNCHANGED todel
    /\ before' = dir
    /\ taken' = {}
    /\ UNCHANGED <<dir, keepN>>

\* One pass of the loop: os.Remove of the next file; an error ends the loop.
Remove ==
    /\ pc = "remove"
    /\ \/ /\ Head(todel) \in dir
          /\ dir' = dir \ {Head(todel)}
          /\ todel' = Tail(todel)
          /\ IF todel' = <<>> THEN pc' = "done" /\ result' = "ok"
                              ELSE pc' = "remove" /\ UNCHANGED result
       \/ /\ Head(todel) \notin dir \/ "remove" \in Faults
          /\ pc' = "done" /\ result' = "failed"
          /\ UNCHANGED <<dir, todel>>
    /\ UNCHANGED <<before, taken, keepN>>

\* Another process, or the administrator, removes a file meanwhile.
OtherRemoves(e) ==
    /\ pc # "done"
    /\ dir' = dir \ {e}
    /\ taken' = taken \cup {e}
    /\ UNCHANGED <<before, keepN, pc, todel, result>>

Next == List \/ Remove \/ \E e \in dir : OtherRemoves(e)

Spec == Init /\ [][Next]_vars

-----------------------------------------------------------------------------
\* The reference: the date of a file as people read it; a date that no calendar has
\* counts as Go's zero time.
DateOf(e) == IF Valid(e) THEN <<e.year, e.month, e.day, e.sec>> ELSE <<1, 1, 1, 0>>

\* e is of a later date than f.
Later(e, f) ==
    \E i \in 1 .. 4 : /\ DateOf(e)[i] > DateOf(f)[i]
                      /\ \A j \in 1 .. i - 1 : DateOf(e)[j] = DateOf(f)[j]

Matched(S) == {e \in S : e.name \in Matches[Profile]}
Removed == before \ (dir \cup taken)

\* What ExpurgeDir has not removed of the archives of its profile that it found.
Kept == Matched(before) \ Removed

\* At every moment, also after a failed or an overtaken purge, ExpurgeDir has
\* removed only archives of its profile, and nothing older than them is left:
\* no archive that is left has an earlier date than a removed one.
OldestGoFirst ==
    /\ Removed \subseteq Matched(before)
    /\ \A e \in Removed, f \in Matched(dir) : ~Later(e, f)

\* When ExpurgeDir succeeds, exactly the keepN latest archives of the profile it
\* found are left, or all of them if there were no more or keepN is not positive:
\* that many are, whatever others remove meanwhile, and none that went is later than
\* one that was to stay.
KeepsExactlyN ==
    pc = "done" /\ result = "ok" =>
      /\ Cardinality(Kept) =
           IF keepN <= 0 \/ Cardinality(Matched(before)) <= keepN
           THEN Cardinality(Matched(before)) ELSE keepN
      /\ \A e \in Removed, f \in Kept : ~Later(e, f)

\* An archive of module Archives for a file name, stamped with its time.
A == INSTANCE Archives WITH Uncompilable <- {}, MaxClock <- 0
Stamped(e) == [name |-> e.name, stamp |-> extractTime(e)]

\* Where every date is valid, findToDelete of the file names selects the files
\* that findToDelete of Archives selects by stamp, and lists them in its order.
AgreesWithArchives ==
    LET found == findToDelete(Glob(dir), Profile, keepN)
    IN  pc = "list" /\ keepN > 0 /\ (\A e \in dir : Valid(e)) =>
          /\ {Stamped(found[i]) : i \in DOMAIN found}
               = A!findToDelete({Stamped(e) : e \in dir}, Profile, keepN)
          /\ \A i, j \in DOMAIN found : i < j => A!Before(Stamped(found[i]), Stamped(found[j]))
=============================================================================
