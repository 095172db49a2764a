------------------------------ MODULE SshWalk ------------------------------
(***************************************************************************)
(* WalkDir of lib/ssh/scp.go, a walk of a remote directory by shell        *)
(* commands, each in an ssh session of its own: Stat of the root, readDir  *)
(* of every directory, and a function of the caller that is told of every  *)
(* path and may skip directories or end the walk.  The stack is that of    *)
(* the recursive walkDir.                                                  *)
(***************************************************************************)
EXTENDS Naturals, Sequences, FiniteSets, Paths

CONSTANTS
    InitTrees,    \* what may be there at the start
    ChangeTo,     \* what others may replace a path by meanwhile
    Answers,      \* what the caller's function returns for a path
    ErrAnswers,   \* what it returns when it is told of an error
    Sessions      \* whether sessions and commands may fail by themselves

\* A locked directory cannot be listed.  stat calls a link "symbolic link", which
\* parseStatLine does not know; odd is a type it does not know either, with a
\* path so short that the line has no 20 characters (fifo_/tmp/p).
Kinds == {"absent", "file", "dir", "locked", "link", "odd"}
Replies == {"nil", "skip", "err"}

ASSUME WalkAssumption ==
    /\ InitTrees \subseteq [Node -> Kinds]
    /\ ChangeTo \subseteq Kinds
    /\ Answers \subseteq Replies /\ ErrAnswers \subseteq Replies
    /\ Sessions \in BOOLEAN

VARIABLES
    tree,      \* what is in the remote directory
    touched,   \* the paths that others have changed since the start
    pc,        \* where the walk is
    at,        \* path and d of the innermost walkDir
    stack,     \* for each walkDir past readDir, the entries of dirs still to come
    calls,     \* the calls of the caller's function, the error each was told of (none,
               \* unlisted: without entries, listed: with some) and its answer
    result     \* what WalkDir returned

vars == <<tree, touched, pc, at, stack, calls, result>>

Init ==
    /\ tree \in InitTrees
    /\ touched = {}
    /\ pc = "stat"
    /\ at = [node |-> Root, isDir |-> FALSE]
    /\ stack = <<>>
    /\ calls = {}
    /\ result = "none"

-----------------------------------------------------------------------------
\* parseStatLine.  Its error message takes the line from character 20 on.
Parsed(n) == [node |-> n, isDir |-> tree[n] \in {"dir", "locked"}]
Parses(n) == tree[n] \in {"file", "dir", "locked"}
Panics(n) == tree[n] = "odd"

Panic == pc' = "done" /\ result' = "panicked" /\ UNCHANGED <<at, stack>>

\* The end of WalkDir.
Outcome(v) == IF v = "skip" THEN "nil" ELSE v

Told(e, ans) ==
    calls' = calls \cup {[node |-> at.node, isDir |-> at.isDir, err |-> e, ans |-> ans]}

\* Mutant: the loop is left on every error.
Return_Breaks(s, v) ==
    /\ stack' = IF v # "nil" /\ s # <<>> THEN Tail(s) ELSE s
    /\ IF stack' = <<>> THEN pc' = "done" /\ result' = Outcome("nil")
                        ELSE pc' = "next" /\ UNCHANGED result

\* walkDir returns v to the loops of its callers, s: on ErrSkipDir the innermost of
\* them is left, and its walkDir returns nil; another error is passed on.
Return(s, v) ==
    /\ stack' = IF v = "skip" /\ s # <<>> THEN Tail(s) ELSE s
    /\ IF v = "err" \/ stack' = <<>>
       THEN pc' = "done" /\ result' = Outcome(IF s = <<>> \/ v = "err" THEN v ELSE "nil")
       ELSE pc' = "next" /\ UNCHANGED result

\* Stat of the root.
StatRoot ==
    /\ pc = "stat"
    /\ \/ Parses(Root) /\ at' = Parsed(Root) /\ pc' = "call" /\ UNCHANGED <<stack, result>>
       \/ Panics(Root) /\ Panic
       \/ /\ tree[Root] \in {"absent", "link"} \/ Sessions
          /\ pc' = "rooterr" /\ UNCHANGED <<at, stack, result>>
    /\ UNCHANGED <<tree, touched, calls>>

\* Its error is the caller's function's to judge.
RootErr ==
    /\ pc = "rooterr"
    /\ \E a \in ErrAnswers : Told("unlisted", a) /\ result' = Outcome(a)
    /\ pc' = "done"
    /\ UNCHANGED <<tree, touched, at, stack>>

\* walkDir after the first call: into a directory, or back.
AfterCall(a) ==
    IF a = "nil" /\ at.isDir THEN pc' = "list" /\ UNCHANGED <<stack, result>>
    ELSE Return(stack, IF a = "skip" /\ at.isDir THEN "nil" ELSE a)

\* The caller's function is told of a path.
Call ==
    /\ pc = "call"
    /\ \E a \in Answers : Told("none", a) /\ AfterCall(a)
    /\ UNCHANGED <<tree, touched, at>>

\* What the shell prints of a directory.  Where ls cannot read it, nothing.
Listed(n) ==
    IF tree[n] = "dir" THEN {c \in Node \ {Root} : Parent[c] = n /\ tree[c] # "absent"}
                       ELSE {}

\* readDir is over: the loop of walkDir is over the entries S it returned.
Read(S) == stack' = <<S>> \o stack /\ UNCHANGED <<at, result>>

\* readDir.  One line that does not parse is an error for all of the directory, and
\* an error of session or command comes without entries; but when only the Close of
\* the session fails, its error comes with the entries.
ReadDir ==
    /\ pc = "list"
    /\ \/ /\ tree[at.node] \in {"dir", "locked"}
          /\ \A c \in Listed(at.node) : Parses(c)
          /\ Read({Parsed(c) : c \in Listed(at.node)})
          /\ pc' \in {"next"} \cup (IF Sessions THEN {"errcall"} ELSE {})
       \/ (\E c \in Listed(at.node) : Panics(c)) /\ Panic
       \/ /\ \/ tree[at.node] \notin {"dir", "locked"} \/ Sessions
             \/ \E c \in Listed(at.node) : tree[c] = "link"
          /\ Read({})
          /\ pc' = "errcall"
    /\ UNCHANGED <<tree, touched, calls>>

\* Mutant: the directory is read once more.
AfterErr_Retries(a) ==
    IF a = "nil" THEN pc' = "list" /\ stack' = Tail(stack) /\ UNCHANGED result
                 ELSE Return(Tail(stack), a)

\* Mutant: after an error the entries are dropped.
AfterErr_Drops(a) == Return(Tail(stack), a)

\* walkDir after the second call: into the loop, or back without it.
AfterErr(a) ==
    IF a = "nil" THEN pc' = "next" /\ UNCHANGED <<stack, result>>
                 ELSE Return(Tail(stack), a)

\* The second call reports the error of readDir.
ErrCall ==
    /\ pc = "errcall"
    /\ \E a \in ErrAnswers :
         Told(IF Head(stack) = {} THEN "unlisted" ELSE "listed", a) /\ AfterErr(a)
    /\ UNCHANGED <<tree, touched, at>>

\* The loop over dirs, in the order of find.
NextEntry ==
    /\ pc = "next"
    /\ \/ \E e \in Head(stack) :
            /\ at' = e
            /\ stack' = <<Head(stack) \ {e}>> \o Tail(stack)
            /\ pc' = "call"
            /\ UNCHANGED result
       \/ /\ Head(stack) = {}
          /\ stack' = Tail(stack)
          /\ IF stack' = <<>> THEN pc' = "done" /\ result' = "nil"
                              ELSE UNCHANGED <<pc, result>>
          /\ UNCHANGED at
    /\ UNCHANGED <<tree, touched, calls>>

WalkStep == StatRoot \/ RootErr \/ Call \/ ReadDir \/ ErrCall \/ NextEntry

\* Somebody removes, replaces or makes a path (external).
Change(n, k) ==
    /\ n # Root /\ k # tree[n]
    /\ tree[Parent[n]] = "dir"
    /\ tree' = [c \in Node |-> IF c = n THEN k ELSE IF c \in Below[n] THEN "absent" ELSE tree[c]]
    /\ touched' = touched \cup {n} \cup Below[n]
    /\ UNCHANGED <<pc, at, stack, calls, result>>

Next == WalkStep \/ \E n \in Node : \E k \in ChangeTo : Change(n, k)

Spec == Init /\ [][Next]_vars

\* The commands return.
FairSpec == Spec /\ WF_vars(WalkStep)

-----------------------------------------------------------------------------
\* The caller has been told why n does not come: a directory above could not be
\* listed, or the function answered one with a skip; or it answered with a skip what
\* is no directory, or an error, next to n or next to a directory above.
Excused(n) ==
    \E c \in calls :
        \/ c.node \in Above[n] /\ (c.err = "unlisted" \/ c.ans = "skip")
        \/ /\ c.ans = "skip" /\ (~c.isDir \/ c.err # "none") /\ c.node # Root
           /\ \E m \in Above[n] \cup {n} : m # Root /\ Parent[m] = Parent[c.node]

\* A path that was there all the time, in directories that were, and that can be
\* listed.
Due(n) ==
    /\ tree[n] # "absent"
    /\ ({n} \cup Above[n]) \cap touched = {}
    /\ \A m \in Above[n] : tree[m] = "dir"

Called(n) == \E c \in calls : c.node = n

\* A walk that returns nil has told the caller's function of every path that was
\* there all the time, or the caller has been told why not; also where a directory
\* was listed and the session failed after that.  Two paths are no part of this, and
\* would be for filepath.WalkDir, of which its comment says it is a
\* re-implementation: those in a directory that ls cannot read, of which nothing is
\* printed and no error is told; and those next to a directory when the function
\* answers its error with ErrSkipDir, which leaves the loop of the directory above.
NothingMissed == result = "nil" => \A n \in Node : Due(n) => Excused(n) \/ Called(n)

\* The walk ends with an error exactly when the caller's function returned one:
\* errors of commands are the function's to judge, its own are not lost, and
\* ErrSkipDir is no error.
ErrorsAreTheCallers ==
    pc = "done" /\ result # "panicked" =>
        result = IF \E c \in calls : c.ans = "err" THEN "err" ELSE "nil"

\* The walk ends though paths keep coming, and though a directory cannot be read.
WalkEnds == <>(pc = "done")
=============================================================================
