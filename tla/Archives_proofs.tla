-------------------------- MODULE Archives_proofs --------------------------
(***************************************************************************)
(* What findToDelete selects from the archives of a directory and what it  *)
(* leaves, for every listing and every number of archives to keep.         *)
(***************************************************************************)
EXTENDS Archives, FiniteSetTheorems, WellFoundedInduction, TLAPS

\* Of a finite set of archives with distinct stamps, at most k have fewer than
\* k newer ones: all but the oldest of them are newer than the oldest.
LEMMA AtMostKNewest ==
    ASSUME NEW S \in SUBSET File, IsFiniteSet(S), NEW n, NEW k \in Nat,
           \A f \in S : f.name = n
    PROVE  Cardinality({f \in S : ~(Cardinality({g \in S : Newer(g, f)}) >= k)}) <= k
<1> DEFINE NewerIn(f) == {g \in S : Newer(g, f)}
           T == {f \in S : ~(Cardinality(NewerIn(f)) >= k)}
           Stamps == {f.stamp : f \in T}
           LessThan == {ss \in Nat \X Nat : ss[1] < ss[2]}
<1>1. IsFiniteSet(T) /\ Cardinality(T) \in Nat
  <2>1. T \in SUBSET S
    OBVIOUS
  <2> HIDE DEF T
  <2> QED BY <2>1, FS_Subset, FS_CardinalityType
<1>2. CASE T = {}
  <2>1. Cardinality(T) <= k
    <3> HIDE DEF T
    <3> QED BY <1>2, FS_EmptySet
  <2> QED BY <2>1
<1>3. CASE T # {}
  <2>1. Stamps \subseteq Nat /\ Stamps # {}
    <3>1. T \subseteq File /\ \A f \in File : f.stamp \in Nat
      BY MaxClockAssumption DEF File
    <3> HIDE DEF T
    <3> QED BY <1>3, <3>1
  <2>2. IsWellFoundedOn(LessThan, Nat)
    BY NatLessThanWellFounded DEF OpToRel
  <2>3. PICK x \in Stamps : \A y \in Stamps : ~(<<y, x>> \in LessThan)
    <3> HIDE DEF Stamps, LessThan
    <3> QED BY <2>1, <2>2, WFMin
  <2>4. PICK m \in T : m.stamp = x
    OBVIOUS
  <2>5. \A f \in T : m.stamp <= f.stamp
    <3>1. \A f \in T : f.stamp \in Stamps
      OBVIOUS
    <3>2. \A y, z \in Nat : ~(<<y, z>> \in LessThan) => z <= y
      OBVIOUS
    <3> HIDE DEF T, Stamps, LessThan
    <3> QED BY <2>1, <2>3, <2>4, <3>1, <3>2
  <2>6. T \ {m} \subseteq NewerIn(m)
    BY <2>1, <2>5 DEF Newer, File
  <2>7. IsFiniteSet(NewerIn(m)) /\ Cardinality(NewerIn(m)) \in Nat
    BY FS_Subset, FS_CardinalityType
  <2>8. Cardinality(NewerIn(m)) < k
    BY <2>7
  <2>9. Cardinality(T \ {m}) <= Cardinality(NewerIn(m))
    <3> HIDE DEF NewerIn, T
    <3> QED BY <2>6, <2>7, FS_Subset
  <2>10. Cardinality(T \ {m}) = Cardinality(T) - 1
    <3> HIDE DEF T
    <3> QED BY <1>1, FS_RemoveElement
  <2> HIDE DEF NewerIn, T
  <2>11. Cardinality(T) <= k
    BY <1>1, <2>7, <2>8, <2>9, <2>10
  <2> QED
    BY <2>11 DEF T, NewerIn
<1> QED
  BY <1>2, <1>3

\* Where names match only themselves, the archives selected from a listing of
\* F have k newer ones in F, and a complete listing leaves at most k.
LEMMA FindToDelete ==
    ASSUME PlainNames, NEW F \in SUBSET File, IsFiniteSet(F),
           NEW seen \in SUBSET F, NEW n \in Names, NEW k \in Nat \ {0}
    PROVE  /\ findToDelete(seen, n, k) \subseteq {f \in F : f.name = n}
           /\ \A f \in findToDelete(seen, n, k) : Cardinality({g \in F : Newer(g, f)}) >= k
           /\ seen = F =>
                Cardinality({f \in F : f.name = n} \ findToDelete(seen, n, k)) <= k
<1> DEFINE M == {f \in seen : f.name = n}
<1>1. /\ M = {f \in seen : f.name \in Matches[n]}
      /\ M \in SUBSET File
      /\ \A f \in M : f.name = n
  BY DEF PlainNames
<1>2. IsFiniteSet(M)
  BY FS_Subset
<1>3. \A f \in M : {g \in M : Before(f, g)} = {g \in M : Newer(g, f)}
  BY NamesAssumption DEF Before, Newer, File
<1>4. findToDelete(seen, n, k) = {f \in M : Cardinality({g \in M : Newer(g, f)}) >= k}
  BY <1>1, <1>3 DEF findToDelete
<1>5. ASSUME NEW f \in findToDelete(seen, n, k)
      PROVE  Cardinality({g \in F : Newer(g, f)}) >= k
  <2>1. IsFiniteSet({g \in F : Newer(g, f)})
    BY FS_Subset
  <2>2. {g \in M : Newer(g, f)} \in SUBSET {g \in F : Newer(g, f)}
    OBVIOUS
  <2>3. Cardinality({g \in M : Newer(g, f)}) <= Cardinality({g \in F : Newer(g, f)})
    BY <2>1, <2>2, FS_Subset
  <2>4. /\ Cardinality({g \in M : Newer(g, f)}) \in Nat
        /\ Cardinality({g \in F : Newer(g, f)}) \in Nat
    BY <2>1, <2>2, FS_Subset, FS_CardinalityType
  <2> QED
    BY <1>4, <1>5, <2>3, <2>4
<1>6. ASSUME seen = F
      PROVE  Cardinality({f \in F : f.name = n} \ findToDelete(seen, n, k)) <= k
  <2>1. {f \in F : f.name = n} \ findToDelete(seen, n, k)
          = {f \in M : ~(Cardinality({g \in M : Newer(g, f)}) >= k)}
    BY <1>4, <1>6
  <2>2. Cardinality({f \in M : ~(Cardinality({g \in M : Newer(g, f)}) >= k)}) <= k
    <3> HIDE DEF M
    <3> QED BY <1>1, <1>2, AtMostKNewest
  <2> QED
    BY <2>1, <2>2
<1> QED
  BY <1>4, <1>5, <1>6

\* What may go because k newer ones are there may still go after the removal of
\* one that might go itself.
LEMMA StillSuperseded ==
    ASSUME NEW S \in SUBSET File, IsFiniteSet(S), NEW k \in Int, NEW x \in S,
           Cardinality({g \in S : Newer(g, x)}) >= k,
           NEW f \in File, Cardinality({g \in S : Newer(g, f)}) >= k
    PROVE  Cardinality({g \in S \ {x} : Newer(g, f)}) >= k
<1> DEFINE A == {g \in S : Newer(g, x)}
           B == {g \in S \ {x} : Newer(g, f)}
<1>1. IsFiniteSet(B) /\ Cardinality(B) \in Nat /\ Cardinality(A) \in Nat
  BY FS_Subset, FS_CardinalityType
<1>2. CASE Newer(x, f)
  <2>1. A \in SUBSET B
    BY <1>2, MaxClockAssumption DEF Newer, File
  <2>2. Cardinality(A) <= Cardinality(B)
    <3> HIDE DEF A, B
    <3> QED BY <1>1, <2>1, FS_Subset
  <2> QED
    BY <1>1, <2>2
<1>3. CASE ~Newer(x, f)
  BY <1>3
<1> QED
  BY <1>2, <1>3

\* ... and after another has come.
LEMMA SupersededByMore ==
    ASSUME NEW S, NEW T, IsFiniteSet(T), S \subseteq T, NEW k \in Int, NEW f,
           Cardinality({g \in S : Newer(g, f)}) >= k
    PROVE  Cardinality({g \in T : Newer(g, f)}) >= k
<1>1. IsFiniteSet({g \in T : Newer(g, f)})
  BY FS_Subset
<1>2. {g \in S : Newer(g, f)} \in SUBSET {g \in T : Newer(g, f)}
  OBVIOUS
<1>3. /\ Cardinality({g \in S : Newer(g, f)}) <= Cardinality({g \in T : Newer(g, f)})
      /\ Cardinality({g \in S : Newer(g, f)}) \in Nat
      /\ Cardinality({g \in T : Newer(g, f)}) \in Nat
  BY <1>1, <1>2, FS_Subset, FS_CardinalityType
<1> QED
  BY <1>3
=============================================================================
