---------------------------- MODULE Paths_proofs ----------------------------
(***************************************************************************)
(* Facts about the paths of a directory that the proofs about the walks    *)
(* use.                                                                    *)
(***************************************************************************)
EXTENDS Paths, TLAPS

\* A set of directories upward from the parent of n has all that n lies in.
LEMMA AboveLeast ==
    ASSUME NEW n \in Node, NEW S \in SUBSET Node, Upward(S), n # Root => Parent[n] \in S
    PROVE  Above[n] \subseteq S
BY DEF Above

\* The root lies in no directory; any other path lies in its parent and in what
\* that lies in.
LEMMA AboveParent ==
    /\ Above[Root] = {}
    /\ \A n \in Node : Above[n] \subseteq Node
    /\ \A n \in Node \ {Root} : Above[n] = {Parent[n]} \cup Above[Parent[n]]
<1> USE PathsAssumption
<1>1. Above[Root] = {}
  <2>1. Upward({})
    BY DEF Upward
  <2> QED
    BY <2>1, AboveLeast
<1>2. \A n \in Node : Above[n] \subseteq Node
  BY DEF Above
<1>3. ASSUME NEW n \in Node PROVE Upward(Above[n]) /\ (n # Root => Parent[n] \in Above[n])
  BY DEF Above, Upward
<1>4. ASSUME NEW n \in Node \ {Root} PROVE Above[n] = {Parent[n]} \cup Above[Parent[n]]
  <2> DEFINE P == Parent[n]
             S == {P} \cup Above[P]
  <2>1. P \in Node
    OBVIOUS
  <2>2. Upward(S)
    BY <1>3, <2>1 DEF Upward
  <2>3. S \in SUBSET Node
    BY <1>2, <2>1
  <2>4. Above[n] \subseteq S
    <3> HIDE DEF S
    <3>1. Parent[n] \in S
      BY DEF S
    <3> QED
      BY <2>2, <2>3, <3>1, AboveLeast
  <2>5. Above[P] \subseteq Above[n]
    <3>1. Upward(Above[n]) /\ P \in Above[n]
      BY <1>3
    <3>2. P # Root => Parent[P] \in Above[n]
      BY <3>1, <2>1 DEF Upward
    <3> QED
      BY <1>2, <2>1, <3>1, <3>2, AboveLeast
  <2> QED
    BY <1>3, <2>4, <2>5
<1> QED
  BY <1>1, <1>2, <1>4

\* What a directory of a path lies in, the path lies in.
LEMMA AboveTransitive ==
    \A n \in Node : \A m \in Above[n] : Above[m] \subseteq Above[n]
<1> USE PathsAssumption
<1> SUFFICES ASSUME NEW n \in Node PROVE \A m \in Above[n] : Above[m] \subseteq Above[n]
  OBVIOUS
<1> DEFINE S == {m \in Above[n] : Above[m] \subseteq Above[n]}
<1>1. S \in SUBSET Node
  BY AboveParent
<1>2. \A x \in Above[n] \ {Root} : Parent[x] \in Above[n]
  BY DEF Above, Upward
<1>3. Upward(S)
  BY <1>1, <1>2, AboveParent DEF Upward
<1>4. n # Root => Parent[n] \in S
  BY AboveParent
<1>5. Above[n] \subseteq S
  <2> HIDE DEF S
  <2> QED BY <1>1, <1>3, <1>4, AboveLeast
<1> QED
  BY <1>5

\* On the way down from a directory to a path in it there is an entry of it.
LEMMA StepDown ==
    ASSUME NEW n \in Node, NEW m \in Above[n]
    PROVE  \E c \in ({n} \cup Above[n]) \ {Root} : Parent[c] = m
<1> USE PathsAssumption
<1> DEFINE C == ({n} \cup Above[n]) \ {Root}
           S == {Parent[c] : c \in C}
<1>1. S \in SUBSET Node /\ S \subseteq Above[n]
  <2> SUFFICES ASSUME NEW c \in C PROVE Parent[c] \in Node /\ Parent[c] \in Above[n]
    OBVIOUS
  <2>1. c \in Node \ {Root} /\ Parent[c] \in Above[c]
    BY AboveParent
  <2> QED
    BY <2>1, AboveTransitive
<1>2. Upward(S) /\ (n # Root => Parent[n] \in S)
  BY <1>1 DEF Upward
<1>3. Above[n] \subseteq S
  <2> HIDE DEF S
  <2> QED BY <1>1, <1>2, AboveLeast
<1> QED
  BY <1>3

\* No path lies in itself.
LEMMA NotAboveItself == \A n \in Node : n \notin Above[n]
<1> USE PathsAssumption
<1> SUFFICES ASSUME NEW n \in Node, n \in Above[n] PROVE FALSE
  OBVIOUS
<1> DEFINE S == {m \in Above[n] : n = m \/ n \in Above[m]}
<1>1. n # Root
  BY AboveParent
<1>2. Root \notin S
  BY <1>1, AboveParent
<1>3. S \in SUBSET Node
  BY AboveParent
<1>4. Upward(S)
  <2> SUFFICES ASSUME NEW x \in S \ {Root} PROVE Parent[x] \in S
    BY DEF Upward
  <2>1. x \in Node /\ Parent[x] \in Node /\ Above[x] = {Parent[x]} \cup Above[Parent[x]]
    BY <1>3, AboveParent
  <2>2. Parent[x] \in Above[n]
    BY <2>1, AboveTransitive
  <2>3. n = Parent[x] \/ n \in Above[Parent[x]]
    BY <2>1
  <2> QED
    BY <2>2, <2>3
<1>5. Parent[n] \in S
  BY <1>1, AboveParent
<1>6. Above[n] \subseteq S
  <2> HIDE DEF S
  <2> QED BY <1>3, <1>4, <1>5, AboveLeast
<1> QED
  BY <1>1, <1>2, <1>6
=============================================================================
