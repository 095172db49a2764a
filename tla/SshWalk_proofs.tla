--------------------------- MODULE SshWalk_proofs ---------------------------
(***************************************************************************)
(* Proofs about SshWalk, for every set of paths, whatever others change in *)
(* the directory, and whatever the caller's function answers.              *)
(***************************************************************************)
EXTENDS SshWalk, Paths_proofs

-----------------------------------------------------------------------------
Entry == [node : Node, isDir : BOOLEAN]

\* The types that the proofs need.
Typed ==
    /\ tree \in [Node -> Kinds]
    /\ pc \in {"stat", "rooterr", "call", "list", "errcall", "next", "done"}
    /\ at \in Entry
    /\ stack \in Seq(SUBSET Entry)
    /\ result \in {"none", "nil", "err", "panicked"} /\ (result = "none" <=> pc # "done")
    /\ pc \in {"next", "errcall"} => stack # <<>>
    /\ pc \in {"stat", "rooterr"} => at.node = Root /\ stack = <<>>
    /\ result = "nil" => stack = <<>>

\* The answers, against what WalkDir has returned.
ErrInv ==
    /\ result \in {"none", "nil"} => \A c \in calls : c.ans # "err"
    /\ result = "err" => \E c \in calls : c.ans = "err"

\* The entries that the loops of a stack still have to come to.
Entries(s) == UNION {s[k] : k \in 1 .. Len(s)}

\* An entry that is a directory, and has been all the time, is known for one.
Right(e) == e.node \notin touched /\ tree[e.node] \in {"dir", "locked"} => e.isDir

\* Each loop is over the entries of one directory, that of the entry it is at.
Together(S) == \A e, f \in S : e.node # Root /\ Parent[e.node] = Parent[f.node]
AllTogether(s) == \A k \in 1 .. Len(s) : Together(s[k])

\* All entries of a loop are of the directory m.
Inside(S, m) == \A e \in S : e.node # Root /\ Parent[e.node] = m

EntriesInv ==
    /\ pc = "call" => Right(at)
    /\ \A e \in Entries(stack) : Right(e)
    /\ AllTogether(stack)
    /\ pc \in {"call", "list"} /\ stack # <<>> => Together(Head(stack) \cup {at})
    /\ pc = "errcall" => /\ Inside(Head(stack), at.node)
                         /\ Tail(stack) # <<>> => Together(Head(Tail(stack)) \cup {at})

\* A path is still to come: the walk is at it, or at a directory above it that is not
\* listed yet or has failed to be, or has either in one of its loops.
Pending(n) ==
    \/ pc \in {"stat", "rooterr"}
    \/ pc = "call" /\ at.node = n
    \/ /\ at.node \in Above[n]
       /\ pc \in {"call", "list"} \/ (pc = "errcall" /\ Head(stack) = {})
    \/ \E e \in Entries(stack) : e.node \in Above[n] \cup {n}

\* No path that was there all the time is forgotten.
WalkInv ==
    result \in {"none", "nil"} =>
        \A n \in Node : Due(n) => Called(n) \/ Excused(n) \/ Pending(n)

-----------------------------------------------------------------------------
\* A loop that is left takes its entries with it.
LEMMA LoopLeft ==
    ASSUME NEW S, NEW s \in Seq(S), s # <<>>
    PROVE  /\ Tail(s) \in Seq(S) /\ Head(s) \in S
           /\ Entries(s) = Head(s) \cup Entries(Tail(s))
           /\ AllTogether(s) => Together(Head(s)) /\ AllTogether(Tail(s))
<1> DEFINE n == Len(s)
           t == Tail(s)
<1>1. /\ n \in Nat /\ n > 0 /\ Head(s) = s[1] /\ t \in Seq(S) /\ Len(t) = n - 1 /\ Head(s) \in S
      /\ \A k \in 1 .. n - 1 : t[k] = s[k + 1]
  <2>1. n \in Nat /\ n > 0
    OBVIOUS
  <2>2. Head(s) = s[1] /\ Head(s) \in S
    OBVIOUS
  <2>3. t \in Seq(S) /\ Len(t) = n - 1
    OBVIOUS
  <2>4. \A k \in 1 .. n - 1 : t[k] = s[k + 1]
    OBVIOUS
  <2> QED
    BY <2>1, <2>2, <2>3, <2>4
<1> HIDE DEF n, t
<1>2. \A k \in 1 .. n : k = 1 \/ (k - 1 \in 1 .. n - 1 /\ s[k] = t[k - 1])
  BY <1>1
<1>3. \A k \in 1 .. n - 1 : k + 1 \in 1 .. n
  BY <1>1
<1>4. 1 \in 1 .. n /\ Len(s) = n
  BY <1>1 DEF n
<1>5. Entries(s) = Head(s) \cup Entries(t)
  <2>1. Entries(t) = UNION {t[k] : k \in 1 .. n - 1} /\ Entries(s) = UNION {s[k] : k \in 1 .. n}
    BY <1>1, <1>4, Zenon DEF Entries
  <2>2. Head(s) \cup Entries(t) \subseteq Entries(s)
    <3>1. Head(s) \subseteq Entries(s)
      BY <1>1, <1>4, <2>1, Zenon
    <3>2. ASSUME NEW x \in Entries(t) PROVE x \in Entries(s)
      <4>1. PICK k \in 1 .. n - 1 : x \in t[k]
        BY <2>1, Zenon
      <4>2. k + 1 \in 1 .. n /\ x \in s[k + 1]
        BY <1>1, <1>3, <4>1, Zenon
      <4> QED
        BY <2>1, <4>2, Zenon
    <3> QED
      BY <3>1, <3>2
  <2>3. Entries(s) \subseteq Head(s) \cup Entries(t)
    <3> SUFFICES ASSUME NEW x \in Entries(s) PROVE x \in Head(s) \cup Entries(t)
      OBVIOUS
    <3>1. PICK k \in 1 .. n : x \in s[k]
      BY <2>1, Zenon
    <3>2. CASE k = 1
      BY <1>1, <3>1, <3>2
    <3>3. CASE k - 1 \in 1 .. n - 1 /\ s[k] = t[k - 1]
      BY <2>1, <3>1, <3>3, Zenon
    <3> QED
      BY <1>2, <3>2, <3>3, Zenon
  <2> QED
    BY <2>2, <2>3
<1>6. AllTogether(s) => Together(Head(s)) /\ AllTogether(t)
  BY <1>1, <1>3, <1>4, Zenon DEF AllTogether
<1> QED
  BY <1>1, <1>5, <1>6 DEF t

\* A loop that begins brings its entries.
LEMMA LoopBegun ==
    ASSUME NEW S, NEW s \in Seq(S), NEW x \in S
    PROVE  /\ <<x>> \o s \in Seq(S) /\ <<x>> \o s # <<>> /\ Head(<<x>> \o s) = x
           /\ Entries(<<x>> \o s) = x \cup Entries(s)
           /\ Together(x) /\ AllTogether(s) => AllTogether(<<x>> \o s)
<1> DEFINE n == Len(s)
           t == <<x>> \o s
<1>1. /\ n \in Nat /\ t \in Seq(S) /\ t # <<>> /\ Head(t) = x /\ Len(t) = n + 1
      /\ t[1] = x /\ \A k \in 1 .. n : t[k + 1] = s[k]
  OBVIOUS
<1> HIDE DEF n, t
<1>2. \A k \in 1 .. n + 1 : k = 1 \/ (k - 1 \in 1 .. n /\ t[k] = s[k - 1])
  BY <1>1
<1>3. \A k \in 1 .. n : k + 1 \in 1 .. n + 1
  BY <1>1
<1>4. 1 \in 1 .. n + 1 /\ Len(s) = n
  BY <1>1 DEF n
<1>5. Entries(t) = x \cup Entries(s)
  <2>1. Entries(s) = UNION {s[k] : k \in 1 .. n} /\ Entries(t) = UNION {t[k] : k \in 1 .. n + 1}
    BY <1>1, <1>4, Zenon DEF Entries
  <2>2. x \subseteq Entries(t)
    BY <1>1, <1>4, <2>1, Zenon
  <2>3. ASSUME NEW e \in Entries(s) PROVE e \in Entries(t)
    <3>1. PICK k \in 1 .. n : e \in s[k]
      BY <2>1, Zenon
    <3>2. k + 1 \in 1 .. n + 1 /\ e \in t[k + 1]
      BY <1>1, <1>3, <3>1, Zenon
    <3> QED
      BY <2>1, <3>2, Zenon
  <2>4. ASSUME NEW e \in Entries(t) PROVE e \in x \cup Entries(s)
    <3>1. PICK k \in 1 .. n + 1 : e \in t[k]
      BY <2>1, Zenon
    <3>2. CASE k = 1
      BY <1>1, <3>1, <3>2
    <3>3. CASE k - 1 \in 1 .. n /\ t[k] = s[k - 1]
      BY <2>1, <3>1, <3>3, Zenon
    <3> QED
      BY <1>2, <3>2, <3>3, Zenon
  <2> QED
    BY <2>2, <2>3, <2>4
<1>6. Together(x) /\ AllTogether(s) => AllTogether(t)
  BY <1>1, <1>2, <1>4, Zenon DEF AllTogether
<1> QED
  BY <1>1, <1>5, <1>6 DEF t

-----------------------------------------------------------------------------
LEMMA Parsing == Typed => \A n \in Node : Parsed(n) \in Entry /\ Parsed(n).node = n
  BY DEF Parsed, Entry

\* What readDir returns are entries.
LEMMA ReadEntries ==
    Typed => {} \in SUBSET Entry /\ {Parsed(c) : c \in Listed(at.node)} \in SUBSET Entry
  BY Parsing DEF Listed

LEMMA EntryNode == \A e \in Entry : e.node \in Node
  BY DEF Entry

\* A stack that loses a loop has no new entry.
LEMMA Shorter ==
    ASSUME NEW s \in Seq(SUBSET Entry), NEW t, t = s \/ (s # <<>> /\ t = Tail(s))
    PROVE  /\ t \in Seq(SUBSET Entry) /\ Entries(t) \subseteq Entries(s)
           /\ AllTogether(s) => AllTogether(t)
<1>1. CASE t = s
  BY <1>1, Zenon
<1>2. CASE s # <<>> /\ t = Tail(s)
  BY <1>2, LoopLeft
<1> QED
  BY <1>1, <1>2

\* walkDir returns v to the loops s: the walk is over, with v if that is an error, or
\* it goes on, on a skip without the innermost of them.
LEMMA Returned ==
    ASSUME Typed, pc # "done", NEW v \in Replies, NEW s \in Seq(SUBSET Entry), Return(s, v)
    PROVE  /\ \/ stack' = s
              \/ v = "skip" /\ s # <<>> /\ stack' = Tail(s)
           /\ stack' \in Seq(SUBSET Entry)
           /\ \/ pc' = "next" /\ result' = result /\ stack' # <<>> /\ v # "err"
              \/ pc' = "done" /\ result' = "err" /\ v = "err"
              \/ pc' = "done" /\ result' = "nil" /\ v # "err" /\ stack' = <<>>
<1>1. \/ stack' = s
      \/ v = "skip" /\ s # <<>> /\ stack' = Tail(s)
  BY DEF Return
<1>2. stack' \in Seq(SUBSET Entry)
  BY <1>1, Shorter, Zenon
<1>3. \/ pc' = "next" /\ result' = result /\ stack' # <<>> /\ v # "err"
      \/ pc' = "done" /\ result' = "err" /\ v = "err"
      \/ pc' = "done" /\ result' = "nil" /\ v # "err" /\ stack' = <<>>
  BY DEF Return, Outcome, Replies
<1> QED
  BY <1>1, <1>2, <1>3

\* The caller's function is told of an error: with nil the loop begins, over the
\* entries that there are, and otherwise walkDir returns without it.
LEMMA Judging ==
    ASSUME Typed, ErrCall
    PROVE  /\ pc = "errcall" /\ stack # <<>> /\ stack \in Seq(SUBSET Entry)
           /\ Tail(stack) \in Seq(SUBSET Entry)
           /\ \E a \in Replies :
                /\ Told(IF Head(stack) = {} THEN "unlisted" ELSE "listed", a)
                /\ \/ a = "nil" /\ pc' = "next" /\ UNCHANGED <<stack, result>>
                   \/ a # "nil" /\ Return(Tail(stack), a)
<1>1. pc = "errcall" /\ stack # <<>> /\ stack \in Seq(SUBSET Entry)
  BY DEF ErrCall, Typed
<1>2. Tail(stack) \in Seq(SUBSET Entry)
  BY <1>1, LoopLeft, Zenon
<1> QED
  BY <1>1, <1>2, WalkAssumption DEF ErrCall, AfterErr

\* What the caller's function is told, and where the walk goes then.
LEMMA Calling ==
    ASSUME Typed, Call
    PROVE  \E a \in Replies :
             /\ Told("none", a)
             /\ \/ a = "nil" /\ at.isDir /\ pc' = "list" /\ UNCHANGED <<stack, result>>
                \/ \E v \in Replies :
                     /\ Return(stack, v) /\ (v = "err" <=> a = "err")
                     /\ v = "skip" => a = "skip" /\ ~at.isDir
                     /\ a = "nil" => ~at.isDir
<1>1. PICK a \in Replies : Told("none", a) /\ AfterCall(a)
  BY WalkAssumption DEF Call
<1>2. CASE a = "nil" /\ at.isDir
  BY <1>1, <1>2, Zenon DEF AfterCall
<1>3. CASE a = "skip" /\ at.isDir
  <2>1. Return(stack, "nil")
    BY <1>1, <1>3 DEF AfterCall
  <2> QED
    BY <1>1, <1>3, <2>1 DEF Replies
<1>4. CASE ~(a = "nil" /\ at.isDir) /\ ~(a = "skip" /\ at.isDir)
  <2>1. Return(stack, a)
    BY <1>1, <1>4, Zenon DEF AfterCall
  <2>2. (a = "skip" => ~at.isDir) /\ (a = "nil" => ~at.isDir)
    BY <1>4
  <2> QED
    BY <1>1, <2>1, <2>2, Zenon
<1> QED
  BY <1>2, <1>3, <1>4

LEMMA TypedStep ==
    Typed /\ [Next]_vars => Typed'
<1> SUFFICES ASSUME Typed, [Next]_vars PROVE Typed'
  OBVIOUS
<1>0. Root \in Node /\ stack \in Seq(SUBSET Entry)
  BY PathsAssumption DEF Typed
<1>a. ASSUME UNCHANGED tree, at' \in Entry, stack' \in Seq(SUBSET Entry), pc # "done",
             \/ pc' \in {"call", "list"} /\ result' = result
             \/ pc' = "rooterr" /\ result' = result /\ UNCHANGED <<at, stack>> /\ pc = "stat"
             \/ pc' \in {"next", "errcall"} /\ result' = result /\ stack' # <<>>
             \/ pc' = "done" /\ result' \in {"err", "panicked"}
             \/ pc' = "done" /\ result' = "nil" /\ stack' = <<>>
      PROVE  Typed'
  BY <1>a DEF Typed
<1> USE DEF Panic
<1>1. CASE StatRoot
  BY <1>0, <1>a, <1>1, Parsing DEF StatRoot, Typed
<1>2. CASE RootErr
  <2>1. PICK a \in Replies : result' = Outcome(a)
    BY <1>2, WalkAssumption DEF RootErr
  <2>2. result' \in {"err", "nil"}
    BY <2>1 DEF Outcome, Replies
  <2> QED
    BY <1>0, <1>a, <1>2, <2>2 DEF RootErr, Typed
<1>3. CASE Call
  BY <1>0, <1>a, <1>3, Calling, Returned DEF Call, Typed
<1>4. CASE ReadDir
  <2>1. ASSUME NEW x \in SUBSET Entry, Read(x) PROVE stack' \in Seq(SUBSET Entry) /\ stack' # <<>>
    BY <1>0, <2>1, LoopBegun, Zenon DEF Read
  <2>2. \/ pc' = "done" /\ result' = "panicked" /\ UNCHANGED <<at, stack>>
        \/ \E x \in SUBSET Entry : Read(x) /\ pc' \in {"next", "errcall"}
    BY <1>4, ReadEntries DEF ReadDir
  <2> QED
    BY <1>0, <1>a, <1>4, <2>1, <2>2 DEF ReadDir, Read, Typed
<1>5. CASE ErrCall
  <2>1. \/ pc' = "next" /\ UNCHANGED <<stack, result>>
        \/ \E v \in Replies : Return(Tail(stack), v)
    BY <1>5, Judging
  <2>2. stack # <<>> /\ Tail(stack) \in Seq(SUBSET Entry)
    BY <1>5, Judging
  <2> QED
    BY <1>0, <1>a, <1>5, <2>1, <2>2, Returned DEF ErrCall, Typed
<1>6. CASE NextEntry
  <2>1. stack # <<>> /\ pc = "next"
    BY <1>6 DEF NextEntry, Typed
  <2>2. Tail(stack) \in Seq(SUBSET Entry) /\ Head(stack) \in SUBSET Entry
    BY <1>0, <2>1, LoopLeft, Zenon
  <2>3. ASSUME NEW e \in Head(stack), at' = e, stack' = <<Head(stack) \ {e}>> \o Tail(stack),
               pc' = "call", UNCHANGED <<tree, result>>
        PROVE  Typed'
    <3>1. Head(stack) \ {e} \in SUBSET Entry /\ e \in Entry
      BY <2>2
    <3>2. stack' \in Seq(SUBSET Entry)
      BY <2>2, <2>3, <3>1, LoopBegun, Zenon
    <3> QED
      BY <1>a, <2>1, <2>3, <3>1, <3>2
  <2>4. ASSUME stack' = Tail(stack), UNCHANGED <<at, tree>>,
               IF stack' = <<>> THEN pc' = "done" /\ result' = "nil" ELSE UNCHANGED <<pc, result>>
        PROVE  Typed'
    BY <1>a, <2>1, <2>2, <2>4 DEF Typed
  <2> QED
    BY <1>6, <2>3, <2>4 DEF NextEntry
<1>7. CASE \E n \in Node : \E k \in ChangeTo : Change(n, k)
  <2>1. tree' \in [Node -> Kinds]
    BY <1>7, WalkAssumption DEF Change, Kinds, Typed
  <2>2. UNCHANGED <<pc, at, stack, calls, result>>
    BY <1>7 DEF Change
  <2> QED
    BY <2>1, <2>2 DEF Typed
<1>8. CASE UNCHANGED vars
  BY <1>8 DEF vars, Typed
<1> QED
  BY <1>1, <1>2, <1>3, <1>4, <1>5, <1>6, <1>7, <1>8 DEF Next, WalkStep

\* What a call adds to the calls.
LEMMA Tells ==
    ASSUME NEW e, NEW a, Told(e, a)
    PROVE  \E c : /\ calls' = calls \cup {c}
                  /\ c.node = at.node /\ c.isDir = at.isDir /\ c.err = e /\ c.ans = a
<1> DEFINE c == [node |-> at.node, isDir |-> at.isDir, err |-> e, ans |-> a]
<1>1. c.node = at.node /\ c.isDir = at.isDir /\ c.err = e /\ c.ans = a
  OBVIOUS
<1>2. calls' = calls \cup {c}
  BY DEF Told
<1> HIDE DEF c
<1> QED
  BY <1>1, <1>2, Zenon

LEMMA ToldPath ==
    ASSUME NEW a, Told("none", a)
    PROVE  \E c : /\ calls' = calls \cup {c}
                  /\ c.node = at.node /\ c.isDir = at.isDir /\ c.ans = a
<1> DEFINE c == [node |-> at.node, isDir |-> at.isDir, err |-> "none", ans |-> a]
<1>1. c.node = at.node /\ c.isDir = at.isDir /\ c.ans = a
  OBVIOUS
<1>2. calls' = calls \cup {c}
  BY DEF Told
<1> HIDE DEF c
<1> QED
  BY <1>1, <1>2, Zenon

LEMMA ErrStep ==
    Typed /\ ErrInv /\ [Next]_vars => ErrInv'
<1> SUFFICES ASSUME Typed, ErrInv, [Next]_vars PROVE ErrInv'
  OBVIOUS
<1>0. result \in {"none", "nil", "err", "panicked"} /\ (result = "none" <=> pc # "done")
  BY DEF Typed
<1>a. ASSUME NEW e, NEW a, Told(e, a), pc # "done",
             \/ result' = "err" /\ a = "err"
             \/ result' \in {"none", "nil"} /\ a # "err"
      PROVE  ErrInv'
  BY <1>0, <1>a, Tells DEF ErrInv
<1>b. ASSUME UNCHANGED calls, result' = result \/ result' = "panicked" \/ (pc # "done" /\ result' = "nil")
      PROVE  ErrInv'
  BY <1>0, <1>b DEF ErrInv
<1> USE DEF Panic
<1>1. CASE StatRoot
  BY <1>b, <1>1 DEF StatRoot
<1>2. CASE RootErr
  <2>1. PICK a \in Replies : Told("unlisted", a) /\ result' = Outcome(a)
    BY <1>2, WalkAssumption DEF RootErr
  <2>2. \/ result' = "err" /\ a = "err"
        \/ result' = "nil" /\ a # "err"
    BY <2>1 DEF Outcome, Replies
  <2> QED
    BY <1>a, <1>2, <2>1, <2>2 DEF RootErr
<1>3. CASE Call
  <2>1. pc # "done"
    BY <1>3 DEF Call
  <2>2. PICK a \in Replies :
          /\ Told("none", a)
          /\ \/ a = "nil" /\ UNCHANGED result
             \/ \E v \in Replies : Return(stack, v) /\ (v = "err" <=> a = "err")
    BY <1>3, Calling
  <2>3. \/ result' = "err" /\ a = "err"
        \/ result' \in {"none", "nil"} /\ a # "err"
    BY <1>0, <2>1, <2>2, Returned DEF Typed
  <2> QED
    BY <1>a, <2>1, <2>2, <2>3
<1>4. CASE ReadDir
  BY <1>b, <1>4 DEF ReadDir, Read
<1>5. CASE ErrCall
  <2>1. pc # "done" /\ Tail(stack) \in Seq(SUBSET Entry)
    BY <1>5, Judging
  <2>2. PICK a \in Replies :
          /\ Told(IF Head(stack) = {} THEN "unlisted" ELSE "listed", a)
          /\ \/ a = "nil" /\ UNCHANGED result
             \/ a # "nil" /\ Return(Tail(stack), a)
    BY <1>5, Judging
  <2>3. \/ result' = "err" /\ a = "err"
        \/ result' \in {"none", "nil"} /\ a # "err"
    BY <1>0, <2>1, <2>2, Returned
  <2> QED
    BY <1>a, <2>1, <2>2, <2>3
<1>6. CASE NextEntry
  BY <1>b, <1>6 DEF NextEntry
<1>7. CASE \E n \in Node : \E k \in ChangeTo : Change(n, k)
  BY <1>b, <1>7 DEF Change
<1>8. CASE UNCHANGED vars
  BY <1>b, <1>8 DEF vars
<1> QED
  BY <1>1, <1>2, <1>3, <1>4, <1>5, <1>6, <1>7, <1>8 DEF Next, WalkStep

LEMMA EntriesStep ==
    Typed /\ EntriesInv /\ [Next]_vars => EntriesInv'
<1> SUFFICES ASSUME Typed, EntriesInv, [Next]_vars PROVE EntriesInv'
  OBVIOUS
<1>0. stack \in Seq(SUBSET Entry) /\ at \in Entry
  BY DEF Typed
<1>a. ASSUME UNCHANGED <<tree, touched>>
      PROVE  \A e : Right(e)' <=> Right(e)
  BY <1>a DEF Right
\* The walk leaves the path it was at, and loops with it or not.
<1>b. ASSUME UNCHANGED <<tree, touched>>, pc' \notin {"call", "list", "errcall"},
             Entries(stack') \subseteq Entries(stack), AllTogether(stack')
      PROVE  EntriesInv'
  BY <1>a, <1>b DEF EntriesInv
<1>c. ASSUME UNCHANGED <<tree, touched>>, pc' \notin {"call", "list", "errcall"},
             stack' = stack \/ (stack # <<>> /\ stack' = Tail(stack))
      PROVE  EntriesInv'
  BY <1>0, <1>b, <1>c, Shorter DEF EntriesInv
<1> USE DEF Panic
<1>1. CASE StatRoot
  <2>1. CASE pc' # "call"
    BY <1>c, <1>1, <2>1 DEF StatRoot
  <2>2. CASE pc' = "call"
    <3>1. at' = Parsed(Root) /\ stack = <<>> /\ stack' = stack /\ UNCHANGED <<tree, touched>>
      BY <1>1, <2>2 DEF StatRoot, Typed
    <3>2. Right(at')
      BY <3>1 DEF Right, Parsed
    <3>3. Right(at)'
      BY <1>a, <3>1, <3>2, Zenon DEF Right
    <3> QED
      BY <1>a, <2>2, <3>1, <3>3 DEF EntriesInv
  <2> QED
    BY <2>1, <2>2
<1>2. CASE RootErr
  BY <1>c, <1>2 DEF RootErr
<1>3. CASE Call
  <2>1. UNCHANGED <<tree, touched, at>> /\ pc = "call"
    BY <1>3 DEF Call
  <2>2. CASE pc' = "list" /\ UNCHANGED stack
    BY <1>a, <2>1, <2>2 DEF EntriesInv
  <2>3. CASE \E v \in Replies : Return(stack, v)
    BY <1>0, <1>c, <2>1, <2>3, Returned
  <2> QED
    BY <1>3, <2>2, <2>3, Calling
<1>4. CASE ReadDir
  <2>1. UNCHANGED <<tree, touched>> /\ pc = "list"
    BY <1>4 DEF ReadDir
  <2>2. CASE pc' = "done" /\ UNCHANGED stack
    BY <1>c, <2>1, <2>2
  <2>3. ASSUME NEW x \in SUBSET Entry, Read(x), pc' \in {"next", "errcall"},
               \A e \in x : Right(e), Inside(x, at.node)
        PROVE  EntriesInv'
    <3>1. stack' = <<x>> \o stack /\ at' = at
      BY <2>3 DEF Read
    <3>2. Together(x)
      BY <2>3 DEF Together, Inside
    <3>3. Entries(stack') = x \cup Entries(stack) /\ AllTogether(stack') /\ Head(stack') = x
      BY <1>0, <3>1, <3>2, LoopBegun DEF EntriesInv
    <3>4. Tail(stack') = stack
      BY <1>0, <3>1
    <3>5. \A e \in Entries(stack') : Right(e)'
      <4>1. \A e \in Entries(stack') : Right(e)
        BY <2>3, <3>3 DEF EntriesInv
      <4> QED
        BY <1>a, <2>1, <4>1, Zenon
    <3>6. Inside(Head(stack'), at'.node)
      BY <2>3, <3>1, <3>3
    <3>7. Tail(stack') # <<>> => Together(Head(Tail(stack')) \cup {at'})
      BY <2>1, <3>1, <3>4 DEF EntriesInv
    <3> QED
      BY <2>3, <3>3, <3>5, <3>6, <3>7 DEF EntriesInv
  <2>4. ASSUME Read({}), pc' = "errcall"
        PROVE  EntriesInv'
    BY <2>3, <2>4 DEF Inside
  <2>5. ASSUME Read({Parsed(c) : c \in Listed(at.node)}), pc' \in {"next", "errcall"}
        PROVE  EntriesInv'
    <3> DEFINE x == {Parsed(c) : c \in Listed(at.node)}
    <3>1. x \in SUBSET Entry
      BY ReadEntries
    <3>2. ASSUME NEW c \in Listed(at.node)
          PROVE  Right(Parsed(c)) /\ Parsed(c).node # Root /\ Parent[Parsed(c).node] = at.node
      BY <3>2 DEF Right, Parsed, Listed
    <3>3. (\A e \in x : Right(e)) /\ Inside(x, at.node)
      BY <3>2 DEF Inside
    <3> HIDE DEF x
    <3>4. Read(x)
      BY <2>5 DEF x
    <3> QED
      BY <2>3, <2>5, <3>1, <3>3, <3>4
  <2> QED
    BY <1>4, <2>2, <2>4, <2>5 DEF ReadDir
<1>5. CASE ErrCall
  <2>1. UNCHANGED <<tree, touched>>
    BY <1>5 DEF ErrCall
  <2>2. CASE pc' = "next" /\ UNCHANGED stack
    BY <1>c, <2>1, <2>2
  <2>3. CASE \E v \in Replies : Return(Tail(stack), v)
    <3> DEFINE t == Tail(stack)
    <3>1. t \in Seq(SUBSET Entry) /\ Entries(t) \subseteq Entries(stack) /\ AllTogether(t)
      BY <1>0, <1>5, Judging, Shorter DEF EntriesInv
    <3>2. pc # "done"
      BY <1>5 DEF ErrCall
    <3> HIDE DEF t
    <3>3. /\ stack' = t \/ (t # <<>> /\ stack' = Tail(t))
          /\ pc' \in {"next", "done"}
      <4>1. PICK v \in Replies : Return(t, v)
        BY <2>3 DEF t
      <4> QED
        BY <3>1, <3>2, <4>1, Returned
    <3>4. Entries(stack') \subseteq Entries(stack) /\ AllTogether(stack')
      BY <3>1, <3>3, Shorter
    <3> QED
      BY <1>b, <2>1, <3>3, <3>4
  <2> QED
    BY <1>5, <2>2, <2>3, Judging
<1>6. CASE NextEntry
  <2>1. UNCHANGED <<tree, touched>> /\ stack # <<>> /\ pc = "next"
    BY <1>6 DEF NextEntry, Typed
  <2>2. /\ Tail(stack) \in Seq(SUBSET Entry) /\ Head(stack) \in SUBSET Entry
        /\ Entries(stack) = Head(stack) \cup Entries(Tail(stack))
        /\ Together(Head(stack)) /\ AllTogether(Tail(stack))
    BY <1>0, <2>1, LoopLeft DEF EntriesInv
  <2>3. ASSUME NEW e \in Head(stack), at' = e, stack' = <<Head(stack) \ {e}>> \o Tail(stack),
               pc' = "call"
        PROVE  EntriesInv'
    <3> DEFINE x == Head(stack) \ {e}
    <3>1. x \in SUBSET Entry /\ Together(x) /\ Together(x \cup {e})
      BY <2>2 DEF Together
    <3>2. stack' = <<x>> \o Tail(stack)
      BY <2>3
    <3> HIDE DEF x
    <3>3. Entries(stack') = x \cup Entries(Tail(stack)) /\ AllTogether(stack') /\ Head(stack') = x
      <4> DEFINE t == Tail(stack)
      <4>1. t \in Seq(SUBSET Entry) /\ stack' = <<x>> \o t /\ AllTogether(t)
        BY <2>2, <3>2
      <4> HIDE DEF t
      <4>2. Entries(stack') = x \cup Entries(t) /\ AllTogether(stack') /\ Head(stack') = x
        BY <3>1, <4>1, LoopBegun
      <4> QED
        BY <4>2 DEF t
    <3>4. Right(e) /\ \A f \in Entries(stack') : Right(f)
      BY <2>2, <3>3 DEF EntriesInv, x
    <3>5. Together(Head(stack') \cup {at'})
      BY <2>3, <3>1, <3>3
    <3>6. Right(at)' /\ \A f \in Entries(stack') : Right(f)'
      <4>1. Right(e)' /\ \A f \in Entries(stack') : Right(f)'
        BY <1>a, <2>1, <3>4, Zenon
      <4> QED
        BY <2>3, <4>1, Zenon DEF Right
    <3> QED
      BY <2>3, <3>3, <3>5, <3>6 DEF EntriesInv
  <2> QED
    BY <1>c, <1>6, <2>1, <2>3 DEF NextEntry
<1>7. CASE \E n \in Node : \E k \in ChangeTo : Change(n, k)
  <2>1. PICK n \in Node, k \in ChangeTo : Change(n, k)
    BY <1>7
  <2>2. \A e \in Entry : Right(e) => Right(e)'
    BY <2>1, EntryNode DEF Change, Right
  <2>3. UNCHANGED <<pc, at, stack>>
    BY <2>1 DEF Change
  <2>4. Entries(stack) \subseteq Entry
    <3>1. \A i \in 1 .. Len(stack) : stack[i] \subseteq Entry
      BY <1>0
    <3> QED
      BY <3>1 DEF Entries
  <2> QED
    BY <1>0, <2>2, <2>3, <2>4 DEF EntriesInv
<1>8. CASE UNCHANGED vars
  <2>1. UNCHANGED <<tree, touched, pc, at, stack>>
    BY <1>8 DEF vars
  <2> QED
    BY <1>a, <2>1 DEF EntriesInv
<1> QED
  BY <1>1, <1>2, <1>3, <1>4, <1>5, <1>6, <1>7, <1>8 DEF Next, WalkStep

-----------------------------------------------------------------------------
\* What others change is not due.
LEMMA DueBefore ==
    ASSUME Typed, [Next]_vars, NEW n \in Node, Due(n)'
    PROVE  Due(n) /\ \A m \in {n} \cup Above[n] : tree'[m] = tree[m]
<1>1. CASE UNCHANGED <<tree, touched>>
  BY <1>1 DEF Due
<1>2. CASE \E x \in Node : \E k \in ChangeTo : Change(x, k)
  <2>1. PICK x \in Node, k \in ChangeTo : Change(x, k)
    BY <1>2
  <2>2. \A m \in {n} \cup Above[n] : m \in Node /\ m \notin touched'
    BY AboveParent DEF Due
  <2>3. ASSUME NEW m \in {n} \cup Above[n]
        PROVE  tree'[m] = tree[m] /\ m \notin touched
    <3>1. m \in Node /\ m # x /\ m \notin Below[x] /\ m \notin touched
      BY <2>1, <2>2 DEF Change
    <3> QED
      BY <2>1, <3>1 DEF Change
  <2>4. ({n} \cup Above[n]) \cap touched = {}
    BY <2>3
  <2>5. tree[n] # "absent" /\ \A m \in Above[n] : tree[m] = "dir"
    BY <2>3 DEF Due
  <2> QED
    BY <2>3, <2>4, <2>5 DEF Due
<1>3. WalkStep \/ UNCHANGED vars => UNCHANGED <<tree, touched>>
  BY DEF WalkStep, StatRoot, RootErr, Call, ReadDir, ErrCall, NextEntry, vars
<1> QED
  BY <1>1, <1>2, <1>3 DEF Next

\* What the caller was told stays told.
LEMMA ToldStays ==
    ASSUME NEW n, calls \subseteq calls'
    PROVE  (Called(n) => Called(n)') /\ (Excused(n) => Excused(n)')
<1>1. Called(n) => Called(n)'
  BY DEF Called
<1>2. Excused(n) => Excused(n)'
  BY DEF Excused
<1> QED
  BY <1>1, <1>2

LEMMA CallPends ==
    ASSUME Typed, EntriesInv, Call, NEW n \in Node, Due(n), Pending(n), result' \in {"none", "nil"}
    PROVE  (Called(n) \/ Excused(n) \/ Pending(n))'
<1>1. pc = "call" /\ at' = at /\ stack \in Seq(SUBSET Entry)
  BY DEF Call, Typed
<1>2. PICK a \in Replies :
        /\ Told("none", a)
        /\ \/ a = "nil" /\ at.isDir /\ pc' = "list" /\ UNCHANGED <<stack, result>>
           \/ \E v \in Replies :
                /\ Return(stack, v) /\ (v = "err" <=> a = "err")
                /\ v = "skip" => a = "skip" /\ ~at.isDir
                /\ a = "nil" => ~at.isDir
  BY Calling
<1>3. PICK c : /\ calls' = calls \cup {c}
               /\ c.node = at.node /\ c.ans = a /\ c.isDir = at.isDir
  <2>1. Told("none", a)
    BY <1>2, Zenon
  <2> QED
    BY <2>1, ToldPath
<1>4. CASE at.node = n
  BY <1>3, <1>4 DEF Called
<1>5. CASE at.node \in Above[n]
  <2>1. at.isDir
    BY <1>1, <1>5 DEF Due, EntriesInv, Right
  <2>2. CASE pc' = "list"
    BY <1>1, <1>5, <2>2 DEF Pending
  <2>3. CASE a = "skip"
    BY <1>3, <1>5, <2>3 DEF Excused
  <2>4. ASSUME a # "skip", pc' # "list"
        PROVE  FALSE
    <3>1. PICK v \in Replies : Return(stack, v) /\ v = "err"
      BY <1>2, <2>1, <2>4 DEF Replies
    <3> QED
      BY <1>1, <3>1, Returned
  <2> QED
    BY <2>2, <2>3, <2>4
<1>6. ASSUME NEW e \in Entries(stack), e.node \in Above[n] \cup {n}
      PROVE  (Called(n) \/ Excused(n) \/ Pending(n))'
  <2>1. CASE e \in Entries(stack')
    BY <1>6, <2>1 DEF Pending
  <2>2. CASE e \notin Entries(stack')
    <3>1. a = "skip" /\ ~at.isDir /\ stack # <<>> /\ stack' = Tail(stack)
      BY <1>1, <1>2, <2>2, Returned
    <3>2. e \in Head(stack)
      BY <1>1, <2>2, <3>1, LoopLeft
    <3>3. e.node # Root /\ at.node # Root /\ Parent[e.node] = Parent[at.node]
      BY <1>1, <3>1, <3>2 DEF EntriesInv, Together
    <3> QED
      BY <1>3, <1>6, <3>1, <3>3 DEF Excused
  <2> QED
    BY <2>1, <2>2
<1> QED
  BY <1>1, <1>4, <1>5, <1>6 DEF Pending

LEMMA ReadDirPends ==
    ASSUME Typed, ReadDir, NEW n \in Node, Due(n), Pending(n), result' \in {"none", "nil"}
    PROVE  Pending(n)'
<1> DEFINE x == {Parsed(c) : c \in Listed(at.node)}
<1>1. pc = "list" /\ stack \in Seq(SUBSET Entry)
  BY DEF ReadDir, Typed
<1>2. \/ Read({}) /\ pc' = "errcall"
      \/ Read(x) /\ pc' \in {"next", "errcall"}
  BY DEF ReadDir, Panic
<1>3. x \in SUBSET Entry
  BY ReadEntries
<1>4. ASSUME NEW y \in SUBSET Entry, Read(y)
      PROVE  Entries(stack') = y \cup Entries(stack) /\ Head(stack') = y /\ at' = at
  BY <1>1, <1>4, LoopBegun DEF Read
<1>5. CASE \E e \in Entries(stack) : e.node \in Above[n] \cup {n}
  <2>1. Entries(stack) \subseteq Entries(stack')
    <3> HIDE DEF x
    <3> QED
      BY <1>2, <1>3, <1>4
  <2> QED
    BY <1>5, <2>1 DEF Pending
<1>6. CASE at.node \in Above[n] /\ Read({}) /\ pc' = "errcall"
  BY <1>4, <1>6 DEF Pending
<1>7. CASE at.node \in Above[n] /\ Read(x)
  <2>1. PICK c \in ({n} \cup Above[n]) \ {Root} : Parent[c] = at.node
    BY <1>7, StepDown
  <2>2. c \in Node /\ tree[c] # "absent" /\ tree[at.node] = "dir"
    BY <1>7, AboveParent DEF Due
  <2>3. c \in Listed(at.node)
    BY <2>1, <2>2 DEF Listed
  <2>4. Parsed(c) \in x /\ Parsed(c).node = c
    BY <2>2, <2>3, Parsing
  <2> HIDE DEF x
  <2> QED
    BY <1>3, <1>4, <1>7, <2>1, <2>4 DEF Pending
<1> QED
  BY <1>1, <1>2, <1>5, <1>6, <1>7 DEF Pending

LEMMA ErrCallPends ==
    ASSUME Typed, EntriesInv, ErrCall, NEW n \in Node, Pending(n), result' \in {"none", "nil"}
    PROVE  (Excused(n) \/ Pending(n))'
<1> DEFINE t == Tail(stack)
<1>1. /\ pc = "errcall" /\ stack # <<>> /\ stack \in Seq(SUBSET Entry) /\ t \in Seq(SUBSET Entry)
      /\ Entries(stack) = Head(stack) \cup Entries(t)
      /\ Inside(Head(stack), at.node)
      /\ t # <<>> => Together(Head(t) \cup {at})
  BY Judging, LoopLeft DEF EntriesInv
<1>2. PICK a \in Replies :
        /\ Told(IF Head(stack) = {} THEN "unlisted" ELSE "listed", a)
        /\ \/ a = "nil" /\ pc' = "next" /\ UNCHANGED <<stack, result>>
           \/ a # "nil" /\ Return(t, a)
  BY Judging
<1>3. PICK c : /\ calls' = calls \cup {c} /\ c.node = at.node /\ c.isDir = at.isDir
               /\ c.err = (IF Head(stack) = {} THEN "unlisted" ELSE "listed") /\ c.ans = a
  BY <1>2, Tells
<1> HIDE DEF t
<1>4. ASSUME at.node \in Above[n], Head(stack) = {} \/ a = "skip"
      PROVE  Excused(n)'
  BY <1>3, <1>4 DEF Excused
<1>5. ASSUME NEW e \in Entries(stack), e.node \in Above[n] \cup {n}
      PROVE  (Excused(n) \/ Pending(n))'
  <2>1. CASE e \in Entries(stack')
    BY <1>5, <2>1 DEF Pending
  <2>2. CASE e \notin Entries(stack')
    <3>1. a = "skip" /\ (stack' = t \/ (t # <<>> /\ stack' = Tail(t)))
      BY <1>1, <1>2, <2>2, Returned DEF Replies
    <3>2. CASE e \in Head(stack)
      <4>1. e.node # Root /\ Parent[e.node] = at.node /\ e.node \in Node
        BY <1>1, <1>5, <3>2, EntryNode, AboveParent DEF Inside
      <4>2. at.node \in Above[n]
        BY <1>5, <4>1, AboveParent, AboveTransitive
      <4> QED
        BY <1>4, <3>1, <4>2
    <3>3. CASE e \in Entries(t)
      <4>1. t # <<>> /\ stack' = Tail(t)
        BY <2>2, <3>1, <3>3
      <4>2. e \in Head(t)
        BY <1>1, <2>2, <3>3, <4>1, LoopLeft
      <4>3. e.node # Root /\ at.node # Root /\ Parent[e.node] = Parent[at.node]
        BY <1>1, <4>1, <4>2 DEF Together
      <4>4. c.ans = "skip" /\ c.err # "none" /\ c.node = at.node
        BY <1>3, <3>1
      <4> QED
        BY <1>3, <1>5, <4>3, <4>4 DEF Excused
    <3> QED
      BY <1>1, <1>5, <3>2, <3>3
  <2> QED
    BY <2>1, <2>2
<1> QED
  BY <1>1, <1>4, <1>5 DEF Pending

LEMMA WalkInvStep ==
    Typed /\ EntriesInv /\ WalkInv /\ [Next]_vars => WalkInv'
<1> SUFFICES ASSUME Typed, EntriesInv, WalkInv, [Next]_vars,
                    result' \in {"none", "nil"}, NEW n \in Node, Due(n)'
             PROVE  (Called(n) \/ Excused(n) \/ Pending(n))'
  BY DEF WalkInv
<1>0. Due(n) /\ stack \in Seq(SUBSET Entry)
  BY DueBefore DEF Typed
<1>a. calls \subseteq calls'
  BY DEF Next, WalkStep, StatRoot, RootErr, Call, ReadDir, ErrCall, NextEntry, Change, vars, Told
<1>b. result \in {"none", "nil"}
  <2>1. pc # "done" => result = "none"
    BY DEF Typed
  <2>2. pc = "done" => result' = result
    BY DEF Next, WalkStep, StatRoot, RootErr, Call, ReadDir, ErrCall, NextEntry, Change, vars
  <2> QED
    BY <2>1, <2>2
<1>c. CASE Called(n) \/ Excused(n)
  BY <1>a, <1>c, ToldStays
<1>d. CASE Pending(n)
  <2>1. CASE StatRoot
    <3>1. pc' = "rooterr" \/ (pc' = "call" /\ at'.node = Root)
      BY <2>1, Parsing, PathsAssumption DEF StatRoot, Panic
    <3>2. n = Root \/ Root \in Above[n]
      BY PathsAssumption
    <3> QED
      BY <3>1, <3>2 DEF Pending
  <2>2. CASE RootErr
    <3>1. PICK a : Told("unlisted", a)
      BY <2>2 DEF RootErr
    <3>2. PICK c : calls' = calls \cup {c} /\ c.node = at.node /\ c.err = "unlisted"
      BY <3>1, Tells
    <3>3. at.node = Root
      BY <2>2 DEF RootErr, Typed
    <3>4. n = Root \/ Root \in Above[n]
      BY PathsAssumption
    <3> QED
      BY <3>2, <3>3, <3>4 DEF Called, Excused
  <2>3. CASE Call
    BY <1>0, <1>d, <2>3, CallPends
  <2>4. CASE ReadDir
    BY <1>0, <1>d, <2>4, ReadDirPends
  <2>5. CASE ErrCall
    BY <1>d, <2>5, ErrCallPends
  <2>6. CASE NextEntry
    <3>1. stack # <<>> /\ pc = "next"
      BY <2>6 DEF NextEntry, Typed
    <3>2. /\ Tail(stack) \in Seq(SUBSET Entry) /\ Head(stack) \in SUBSET Entry
          /\ Entries(stack) = Head(stack) \cup Entries(Tail(stack))
      BY <1>0, <3>1, LoopLeft
    <3>3. PICK e \in Entries(stack) : e.node \in Above[n] \cup {n}
      BY <1>d, <3>1 DEF Pending
    <3>4. ASSUME NEW f \in Head(stack), at' = f, stack' = <<Head(stack) \ {f}>> \o Tail(stack),
                 pc' = "call"
          PROVE  Pending(n)'
      <4> DEFINE x == Head(stack) \ {f}
                 t == Tail(stack)
      <4>1. x \in SUBSET Entry /\ stack' = <<x>> \o t /\ t \in Seq(SUBSET Entry)
        BY <3>2, <3>4
      <4> HIDE DEF x, t
      <4>2. Entries(stack') = x \cup Entries(t)
        BY <4>1, LoopBegun
      <4>3. e = f \/ e \in Entries(stack')
        BY <3>2, <4>2 DEF x, t
      <4> QED
        BY <3>3, <3>4, <4>3 DEF Pending
    <3>5. ASSUME Head(stack) = {}, stack' = Tail(stack)
          PROVE  Pending(n)'
      BY <3>2, <3>3, <3>5 DEF Pending
    <3> QED
      BY <2>6, <3>4, <3>5 DEF NextEntry
  <2>7. CASE UNCHANGED <<pc, at, stack>>
    BY <1>d, <2>7 DEF Pending
  <2> QED
    BY <2>1, <2>2, <2>3, <2>4, <2>5, <2>6, <2>7 DEF Next, WalkStep, Change, vars
<1> QED
  BY <1>0, <1>b, <1>c, <1>d DEF WalkInv

-----------------------------------------------------------------------------
THEOREM TypesKept == Spec => []Typed
<1>1. Init => Typed
  BY PathsAssumption, WalkAssumption DEF Init, Typed, Entry
<1> QED
  BY <1>1, TypedStep, PTL DEF Spec

\* WalkDir ends with an error exactly when the caller's function returned one,
\* whatever the commands do and whatever others change meanwhile.
THEOREM OnlyTheCallersErrors == Spec => []ErrorsAreTheCallers
<1>1. Init => ErrInv
  BY DEF Init, ErrInv
<1>2. Typed /\ ErrInv => ErrorsAreTheCallers
  BY DEF Typed, ErrInv, ErrorsAreTheCallers
<1> QED
  BY <1>1, <1>2, TypesKept, ErrStep, PTL DEF Spec

\* A walk that returns nil has told the caller's function of every path that was
\* there all the time in directories that could be listed, or the caller has been
\* told why not: whatever others change, the commands do and the function answers,
\* and also where a directory is listed and the session then fails.
THEOREM NoPathForgotten == Spec => []NothingMissed
<1>1. Init => EntriesInv /\ WalkInv
  BY DEF Init, EntriesInv, Entries, AllTogether, WalkInv, Pending
<1>2. Typed /\ [Next]_vars /\ EntriesInv /\ WalkInv => (EntriesInv /\ WalkInv)'
  BY EntriesStep, WalkInvStep
<1>3. Typed /\ WalkInv => NothingMissed
  <2> SUFFICES ASSUME Typed, WalkInv, result = "nil", NEW n \in Node, Due(n)
               PROVE  Excused(n) \/ Called(n)
    BY DEF NothingMissed
  <2>1. pc = "done" /\ stack = <<>>
    BY DEF Typed
  <2>2. ~Pending(n)
    BY <2>1 DEF Pending, Entries
  <2> QED
    BY <2>2 DEF WalkInv
<1> QED
  BY <1>1, <1>2, <1>3, TypesKept, PTL DEF Spec
=============================================================================
