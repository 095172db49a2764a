--------------------------- MODULE Expurge_proofs ---------------------------
(***************************************************************************)
(* Proofs about Expurge: what the listing, the sort and the slice of       *)
(* findToDelete yield, and what ExpurgeDir leaves behind, for every        *)
(* directory, every set of names and dates and every number to keep.       *)
(***************************************************************************)
EXTENDS Expurge, FiniteSetTheorems, TLAPS

-----------------------------------------------------------------------------
\* Less is a strict total order of S.
TotalOrder(Less, S) ==
    /\ \A e \in S : <<e, e>> \notin Less
    /\ \A e, f, g \in S : <<e, f>> \in Less /\ <<f, g>> \in Less => <<e, g>> \in Less
    /\ \A e, f \in S : e # f => <<e, f>> \in Less \/ <<f, e>> \in Less

\* How many elements of S come before e, and e itself.
Rank(S, Less) == [e \in S |-> Cardinality({f \in S : <<f, e>> \in Less}) + 1]

\* The ranks of a finite set in a strict total order are 1 to its cardinality,
\* each once: they grow with the order, so no two are equal, and there are as many
\* of them as elements.
LEMMA RankIsOnto ==
    ASSUME NEW S, IsFiniteSet(S), NEW Less, TotalOrder(Less, S)
    PROVE  /\ Cardinality(S) \in Nat
           /\ Rank(S, Less) \in [S -> 1 .. Cardinality(S)]
           /\ \A e, f \in S : <<e, f>> \in Less => Rank(S, Less)[e] < Rank(S, Less)[f]
           /\ \A i \in 1 .. Cardinality(S) : \E e \in S : Rank(S, Less)[e] = i
<1> DEFINE n == Cardinality(S)
           Under(e) == {f \in S : <<f, e>> \in Less}
           rank == Rank(S, Less)
<1>1. n \in Nat
  BY FS_CardinalityType
<1>2. /\ \A e \in S : <<e, e>> \notin Less
      /\ \A e, f, g \in S : <<e, f>> \in Less /\ <<f, g>> \in Less => <<e, g>> \in Less
      /\ \A e, f \in S : e # f => <<e, f>> \in Less \/ <<f, e>> \in Less
  BY DEF TotalOrder
<1>3. ASSUME NEW e \in S
      PROVE  /\ IsFiniteSet(Under(e)) /\ Cardinality(Under(e)) \in Nat
             /\ Cardinality(Under(e)) < n
  <2>1. Under(e) \in SUBSET (S \ {e})
    BY <1>2
  <2>2. IsFiniteSet(S \ {e}) /\ Cardinality(S \ {e}) = n - 1
    BY FS_RemoveElement
  <2> HIDE DEF Under
  <2>3. IsFiniteSet(Under(e)) /\ Cardinality(Under(e)) <= n - 1
    BY <2>1, <2>2, FS_Subset
  <2> QED
    BY <1>1, <2>3, FS_CardinalityType
<1>4. ASSUME NEW e \in S, NEW f \in S, <<e, f>> \in Less
      PROVE  Cardinality(Under(e)) < Cardinality(Under(f))
  <2>1. Under(e) \in SUBSET (Under(f) \ {e})
    BY <1>2, <1>4
  <2>2. e \in Under(f)
    BY <1>4
  <2> HIDE DEF Under
  <2>3. IsFiniteSet(Under(f) \ {e}) /\ Cardinality(Under(f) \ {e}) = Cardinality(Under(f)) - 1
    BY <1>3, <2>2, FS_RemoveElement
  <2>4. Cardinality(Under(e)) <= Cardinality(Under(f)) - 1
    BY <2>1, <2>3, FS_Subset
  <2> QED
    BY <1>3, <2>4
<1>5. \A e \in S : rank[e] = Cardinality(Under(e)) + 1
  BY DEF Rank
<1>6. rank \in [S -> 1 .. n]
  <2>1. \A e \in S : Cardinality(Under(e)) + 1 \in 1 .. n
    <3> HIDE DEF Under
    <3> QED BY <1>1, <1>3
  <2> HIDE DEF n
  <2> QED
    BY <2>1 DEF Rank
<1> HIDE DEF Under, rank, n
<1>7. \A e, f \in S : <<e, f>> \in Less => rank[e] < rank[f]
  BY <1>3, <1>4, <1>5
<1>8. ASSUME NEW e \in S, NEW f \in S, rank[e] = rank[f] PROVE e = f
  <2>1. rank[e] \in Int /\ rank[f] \in Int
    BY <1>6
  <2>2. ~(rank[e] < rank[f]) /\ ~(rank[f] < rank[e])
    BY <1>8, <2>1
  <2> QED
    BY <1>2, <1>7, <2>2
<1>9. rank \in Injection(S, 1 .. n)
  BY <1>6, <1>8 DEF Injection, IsInjective
<1>10. rank \in Surjection(S, 1 .. n)
  <2>1. IsFiniteSet(1 .. n) /\ Cardinality(1 .. n) = n
    BY <1>1, FS_Interval
  <2> QED
    BY <1>9, <2>1, FS_Injection DEF n
<1>11. \A i \in 1 .. n : \E e \in S : rank[e] = i
  BY <1>10 DEF Surjection
<1> QED
  BY <1>1, <1>6, <1>7, <1>11 DEF rank, n

\* Sorted lists every element once, in order.
LEMMA SortedFacts ==
    ASSUME NEW S, IsFiniteSet(S), NEW Less, TotalOrder(Less, S)
    PROVE  /\ Cardinality(S) \in Nat
           /\ Sorted(S, Less) \in [1 .. Cardinality(S) -> S]
           /\ \A e \in S : \E i \in 1 .. Cardinality(S) : Sorted(S, Less)[i] = e
           /\ \A i, j \in 1 .. Cardinality(S) :
                /\ i < j <=> <<Sorted(S, Less)[i], Sorted(S, Less)[j]>> \in Less
                /\ Sorted(S, Less)[i] = Sorted(S, Less)[j] => i = j
<1> DEFINE n == Cardinality(S)
           rank == Rank(S, Less)
           s == Sorted(S, Less)
<1>1. /\ n \in Nat
      /\ rank \in [S -> 1 .. n]
      /\ \A e, f \in S : <<e, f>> \in Less => rank[e] < rank[f]
      /\ \A i \in 1 .. n : \E e \in S : rank[e] = i
  BY RankIsOnto
<1>2. \A e, f \in S : e # f => <<e, f>> \in Less \/ <<f, e>> \in Less
  BY DEF TotalOrder
<1>3. \A e \in S : <<e, e>> \notin Less
  BY DEF TotalOrder
<1>4. ASSUME NEW e \in S, NEW i \in 1 .. n
      PROVE  Cardinality({f \in S : <<f, e>> \in Less}) = i - 1 <=> rank[e] = i
  <2> DEFINE c == Cardinality({f \in S : <<f, e>> \in Less})
  <2>1. rank[e] = c + 1 /\ rank[e] \in 1 .. n
    BY <1>1 DEF Rank
  <2>2. c \in Nat
    <3>1. {f \in S : <<f, e>> \in Less} \in SUBSET S
      OBVIOUS
    <3> QED
      BY <3>1, FS_Subset, FS_CardinalityType
  <2> HIDE DEF c, rank, n
  <2>3. c = i - 1 <=> rank[e] = i
    BY <2>1, <2>2
  <2> QED
    BY <2>3 DEF c
<1>5. ASSUME NEW i \in 1 .. n PROVE s[i] \in S /\ rank[s[i]] = i
  <2>1. s[i] = CHOOSE e \in S : Cardinality({f \in S : <<f, e>> \in Less}) = i - 1
    <3>1. \A S1, L1 : \A k \in 1 .. Cardinality(S1) :
             Sorted(S1, L1)[k] = CHOOSE e \in S1 : Cardinality({f \in S1 : <<f, e>> \in L1}) = k - 1
      BY DEF Sorted
    <3> QED
      BY <3>1, Zenon
  <2>2. \E e \in S : Cardinality({f \in S : <<f, e>> \in Less}) = i - 1
    BY <1>1, <1>4
  <2>3. s[i] \in S /\ Cardinality({f \in S : <<f, s[i]>> \in Less}) = i - 1
    <3> HIDE DEF s
    <3> QED BY <2>1, <2>2
  <2> HIDE DEF s, rank
  <2> QED
    BY <1>4, <2>3
<1>6. s \in [1 .. n -> S]
  <2> DEFINE At(i) == CHOOSE e \in S : Cardinality({f \in S : <<f, e>> \in Less}) = i - 1
  <2>1. s = [i \in 1 .. n |-> At(i)]
    BY Zenon DEF Sorted
  <2> HIDE DEF s, n, At
  <2>2. \A i \in 1 .. n : s[i] = At(i)
    BY <2>1
  <2> QED
    BY <1>5, <2>1, <2>2
<1> HIDE DEF s, rank, n
<1>7. ASSUME NEW e \in S, NEW f \in S
      PROVE  /\ rank[e] = rank[f] => e = f
             /\ rank[e] < rank[f] <=> <<e, f>> \in Less
  <2>1. rank[e] \in Int /\ rank[f] \in Int
    BY <1>1
  <2>2. /\ rank[e] < rank[f] => ~(rank[f] < rank[e]) /\ rank[e] # rank[f]
        /\ rank[e] = rank[f] => ~(rank[f] < rank[e]) /\ ~(rank[e] < rank[f])
    BY <2>1
  <2> QED
    BY <1>1, <1>2, <1>3, <2>2
<1>8. ASSUME NEW e \in S PROVE \E i \in 1 .. n : s[i] = e
  BY <1>1, <1>5, <1>7
<1>9. ASSUME NEW i \in 1 .. n, NEW j \in 1 .. n
      PROVE  (i < j <=> <<s[i], s[j]>> \in Less) /\ (s[i] = s[j] => i = j)
  BY <1>5, <1>7
<1> QED
  BY <1>1, <1>6, <1>8, <1>9 DEF s, n


-----------------------------------------------------------------------------
\* Dates and the orders of file names.

LEMMA EntryFields ==
    /\ \A e \in Entry : /\ e.name \in Names /\ e.name \in Nat
                        /\ e.year \in Nat /\ e.month \in Nat /\ e.day \in Nat
                        /\ e.sec \in 0 .. 9
    /\ \A e, f \in Entry : e = f <=> /\ e.name = f.name /\ e.year = f.year /\ e.day = f.day
                                     /\ e.month = f.month /\ e.sec = f.sec
<1>1. \A t \in Dates : t[1] \in Nat /\ t[2] \in Nat /\ t[3] \in Nat /\ t[4] \in 0 .. 9
  BY ExpurgeAssumption
<1>2. \A e \in Entry : \E n \in Names, t \in Dates :
        e = [name |-> n, year |-> t[1], day |-> t[3], month |-> t[2], sec |-> t[4]]
  BY DEF Entry
<1>3. \A n \in Names : n \in Nat
  BY ExpurgeAssumption
<1>4. ASSUME NEW e \in Entry
      PROVE  /\ e.name \in Names /\ e.name \in Nat
             /\ e.year \in Nat /\ e.month \in Nat /\ e.day \in Nat /\ e.sec \in 0 .. 9
             /\ e = [name |-> e.name, year |-> e.year, day |-> e.day, month |-> e.month, sec |-> e.sec]
  <2>1. PICK n \in Names, t \in Dates :
          e = [name |-> n, year |-> t[1], day |-> t[3], month |-> t[2], sec |-> t[4]]
    BY <1>2
  <2> QED
    BY <1>1, <1>3, <2>1
<1> QED
  BY <1>4

\* The byte order of file names: the fields are compared one after the other.
LEMMA ListedByFields ==
    \A e, f \in Entry : ListedBefore(e, f) <=>
      \/ e.name < f.name
      \/ /\ e.name = f.name
         /\ \/ e.year < f.year
            \/ /\ e.year = f.year
               /\ \/ e.day < f.day
                  \/ /\ e.day = f.day
                     /\ \/ e.month < f.month
                        \/ e.month = f.month /\ e.sec < f.sec
<1> SUFFICES ASSUME NEW e \in Entry, NEW f \in Entry
             PROVE  ListedBefore(e, f) <=>
                      \/ e.name < f.name
                      \/ /\ e.name = f.name
                         /\ \/ e.year < f.year
                            \/ /\ e.year = f.year
                               /\ \/ e.day < f.day
                                  \/ /\ e.day = f.day
                                     /\ \/ e.month < f.month
                                        \/ e.month = f.month /\ e.sec < f.sec
  OBVIOUS
<1> DEFINE E == Fields(e)
           F == Fields(f)
           Before(i) == E[i] < F[i] /\ \A j \in 1 .. i - 1 : E[j] = F[j]
<1>1. /\ E[1] = e.name /\ E[2] = e.year /\ E[3] = e.day /\ E[4] = e.month /\ E[5] = e.sec
      /\ F[1] = f.name /\ F[2] = f.year /\ F[3] = f.day /\ F[4] = f.month /\ F[5] = f.sec
  BY DEF Fields
<1>2. ListedBefore(e, f) <=> \E i \in 1 .. 5 : Before(i)
  BY DEF ListedBefore
<1> HIDE DEF E, F
<1>3. /\ Before(1) <=> E[1] < F[1]
      /\ Before(2) <=> E[1] = F[1] /\ E[2] < F[2]
      /\ Before(3) <=> E[1] = F[1] /\ E[2] = F[2] /\ E[3] < F[3]
      /\ Before(4) <=> E[1] = F[1] /\ E[2] = F[2] /\ E[3] = F[3] /\ E[4] < F[4]
      /\ Before(5) <=> E[1] = F[1] /\ E[2] = F[2] /\ E[3] = F[3] /\ E[4] = F[4] /\ E[5] < F[5]
  <2>1. /\ 1 .. 1 - 1 = {} /\ 1 .. 2 - 1 = {1} /\ 1 .. 3 - 1 = {1, 2}
        /\ 1 .. 4 - 1 = {1, 2, 3} /\ 1 .. 5 - 1 = {1, 2, 3, 4}
    OBVIOUS
  <2> QED
    BY <2>1
<1>4. (\E i \in 1 .. 5 : Before(i)) <=> Before(1) \/ Before(2) \/ Before(3) \/ Before(4) \/ Before(5)
  <2>1. 1 .. 5 = {1, 2, 3, 4, 5}
    OBVIOUS
  <2> HIDE DEF Before
  <2> QED
    BY <2>1
<1> HIDE DEF Before
<1> QED
  BY <1>1, <1>2, <1>3, <1>4

LEMMA ListedTotal ==
    \A S \in SUBSET Entry : TotalOrder({ef \in S \X S : ListedBefore(ef[1], ef[2])}, S)
<1> SUFFICES ASSUME NEW S \in SUBSET Entry
             PROVE  TotalOrder({ef \in S \X S : ListedBefore(ef[1], ef[2])}, S)
  OBVIOUS
<1> DEFINE R == {ef \in S \X S : ListedBefore(ef[1], ef[2])}
<1>1. \A e, f \in S : <<e, f>> \in R <=> ListedBefore(e, f)
  OBVIOUS
<1>2. \A e, f, g \in Entry :
        /\ ~ListedBefore(e, e)
        /\ ListedBefore(e, f) /\ ListedBefore(f, g) => ListedBefore(e, g)
        /\ e # f => ListedBefore(e, f) \/ ListedBefore(f, e)
  BY EntryFields, ListedByFields
<1> HIDE DEF R
<1>3. TotalOrder(R, S)
  BY <1>1, <1>2 DEF TotalOrder
<1> QED
  BY <1>3 DEF R

\* The time of a file grows with its date.
LEMMA DaysOfMonth == \A y, m : DaysIn(y, m) \in {28, 29, 30, 31}
BY DEF DaysIn

\* What a date is made of, and the time it gives.
LEMMA DateFacts ==
    \A e \in Entry :
      /\ DateOf(e)[1] \in Nat /\ DateOf(e)[2] \in 1 .. 12 /\ DateOf(e)[3] \in 1 .. 31
      /\ DateOf(e)[4] \in 0 .. 9
      /\ extractTime(e) = ((DateOf(e)[1] * 12 + DateOf(e)[2]) * 32 + DateOf(e)[3]) * 10
                            + DateOf(e)[4]
      /\ Valid(e) => /\ DateOf(e)[1] = e.year /\ DateOf(e)[2] = e.month
                     /\ DateOf(e)[3] = e.day /\ DateOf(e)[4] = e.sec
<1> SUFFICES ASSUME NEW e \in Entry
             PROVE  /\ DateOf(e)[1] \in Nat /\ DateOf(e)[2] \in 1 .. 12
                    /\ DateOf(e)[3] \in 1 .. 31 /\ DateOf(e)[4] \in 0 .. 9
                    /\ extractTime(e)
                         = ((DateOf(e)[1] * 12 + DateOf(e)[2]) * 32 + DateOf(e)[3]) * 10
                             + DateOf(e)[4]
                    /\ Valid(e) => /\ DateOf(e)[1] = e.year /\ DateOf(e)[2] = e.month
                                   /\ DateOf(e)[3] = e.day /\ DateOf(e)[4] = e.sec
  OBVIOUS
<1>1. DaysIn(e.year, e.month) <= 31 /\ DaysIn(e.year, e.month) \in Nat
  BY DaysOfMonth
<1>2. CASE Valid(e)
  <2>1. DateOf(e) = <<e.year, e.month, e.day, e.sec>>
    BY <1>2 DEF DateOf
  <2>2. e.month \in 1 .. 12 /\ e.day \in 1 .. 31
    BY <1>1, <1>2, EntryFields DEF Valid
  <2> QED
    BY <1>2, <2>1, <2>2, EntryFields DEF extractTime, TimeOf, TimesOfDay
<1>3. CASE ~Valid(e)
  <2>1. DateOf(e) = <<1, 1, 1, 0>>
    BY <1>3 DEF DateOf
  <2> QED
    BY <1>3, <2>1 DEF extractTime, ZeroTime, TimeOf, TimesOfDay
<1> QED
  BY <1>2, <1>3

\* Months and days put together as a number compare as pairs do.
LEMMA MonthAndDay ==
    ASSUME NEW m \in Nat, NEW n \in Nat, NEW x \in 1 .. 31, NEW y \in 1 .. 31
    PROVE  /\ m * 32 + x \in Nat
           /\ m * 32 + x < n * 32 + y <=> m < n \/ (m = n /\ x < y)
           /\ m * 32 + x = n * 32 + y <=> m = n /\ x = y
OBVIOUS

LEMMA TimeOfDate ==
    /\ \A e \in Entry : extractTime(e) \in Nat
    /\ \A e, f \in Entry : extractTime(e) < extractTime(f) <=> Later(f, e)
    /\ \A e, f \in Entry : Valid(e) /\ Valid(f) /\ extractTime(e) = extractTime(f) =>
         e.year = f.year /\ e.month = f.month /\ e.day = f.day /\ e.sec = f.sec
<1>1. ASSUME NEW e \in Entry PROVE extractTime(e) \in Nat
  <2> DEFINE M == DateOf(e)[1] * 12 + DateOf(e)[2]
             D == M * 32 + DateOf(e)[3]
  <2>1. M \in Nat
    BY DateFacts
  <2> HIDE DEF M
  <2>2. D \in Nat
    BY <2>1, DateFacts
  <2>3. extractTime(e) = D * 10 + DateOf(e)[4]
    BY DateFacts DEF M
  <2> HIDE DEF D
  <2> QED
    BY <2>2, <2>3, DateFacts
<1>3. ASSUME NEW e \in Entry, NEW f \in Entry
      PROVE  /\ extractTime(e) < extractTime(f) <=>
                  \/ DateOf(e)[1] < DateOf(f)[1]
                  \/ /\ DateOf(e)[1] = DateOf(f)[1]
                     /\ \/ DateOf(e)[2] < DateOf(f)[2]
                        \/ /\ DateOf(e)[2] = DateOf(f)[2]
                           /\ \/ DateOf(e)[3] < DateOf(f)[3]
                              \/ /\ DateOf(e)[3] = DateOf(f)[3]
                                 /\ DateOf(e)[4] < DateOf(f)[4]
             /\ extractTime(e) = extractTime(f) =>
                  /\ DateOf(e)[1] = DateOf(f)[1] /\ DateOf(e)[2] = DateOf(f)[2]
                  /\ DateOf(e)[3] = DateOf(f)[3] /\ DateOf(e)[4] = DateOf(f)[4]
  <2> DEFINE E == DateOf(e)
             F == DateOf(f)
             M(x) == DateOf(x)[1] * 12 + DateOf(x)[2]
             D(x) == M(x) * 32 + DateOf(x)[3]
  <2>0. /\ E[3] \in 1 .. 31 /\ E[4] \in 0 .. 9
        /\ F[3] \in 1 .. 31 /\ F[4] \in 0 .. 9
    BY DateFacts
  <2>1. /\ M(e) \in Nat /\ M(f) \in Nat
        /\ M(e) < M(f) <=> E[1] < F[1] \/ (E[1] = F[1] /\ E[2] < F[2])
        /\ M(e) = M(f) <=> E[1] = F[1] /\ E[2] = F[2]
    BY DateFacts
  <2>2. extractTime(e) = D(e) * 10 + E[4] /\ extractTime(f) = D(f) * 10 + F[4]
    BY DateFacts
  <2> HIDE DEF M
  <2>3. /\ D(e) \in Nat /\ D(f) \in Nat
        /\ D(e) < D(f) <=> M(e) < M(f) \/ (M(e) = M(f) /\ E[3] < F[3])
        /\ D(e) = D(f) <=> M(e) = M(f) /\ E[3] = F[3]
    <3> HIDE DEF E, F
    <3> SUFFICES /\ M(e) * 32 + E[3] \in Nat /\ M(f) * 32 + F[3] \in Nat
                 /\ M(e) * 32 + E[3] < M(f) * 32 + F[3]
                      <=> M(e) < M(f) \/ (M(e) = M(f) /\ E[3] < F[3])
                 /\ M(e) * 32 + E[3] = M(f) * 32 + F[3] <=> M(e) = M(f) /\ E[3] = F[3]
      BY Zenon DEF E, F
    <3>1. M(e) \in Nat /\ M(f) \in Nat /\ E[3] \in 1 .. 31 /\ F[3] \in 1 .. 31
      BY <2>0, <2>1
    <3> QED
      BY ONLY <3>1, MonthAndDay
  <2> HIDE DEF D
  <2>4. /\ extractTime(e) < extractTime(f) <=> D(e) < D(f) \/ (D(e) = D(f) /\ E[4] < F[4])
        /\ extractTime(e) = extractTime(f) <=> D(e) = D(f) /\ E[4] = F[4]
    BY <2>0, <2>2, <2>3
  <2> QED
    BY <2>1, <2>3, <2>4, Zenon
<1>4. ASSUME NEW e \in Entry, NEW f \in Entry
      PROVE  Later(f, e) <=>
                  \/ DateOf(e)[1] < DateOf(f)[1]
                  \/ /\ DateOf(e)[1] = DateOf(f)[1]
                     /\ \/ DateOf(e)[2] < DateOf(f)[2]
                        \/ /\ DateOf(e)[2] = DateOf(f)[2]
                           /\ \/ DateOf(e)[3] < DateOf(f)[3]
                              \/ /\ DateOf(e)[3] = DateOf(f)[3]
                                 /\ DateOf(e)[4] < DateOf(f)[4]
  <2> DEFINE E == DateOf(e)
             F == DateOf(f)
             Under(i) == F[i] > E[i] /\ \A j \in 1 .. i - 1 : F[j] = E[j]
  <2>1. \A i \in 1 .. 4 : E[i] \in Int /\ F[i] \in Int
    <3>1. \A i \in 1 .. 4 : i = 1 \/ i = 2 \/ i = 3 \/ i = 4
      OBVIOUS
    <3> QED
      BY <3>1, DateFacts
  <2>2. Later(f, e) <=> \E i \in 1 .. 4 : Under(i)
    BY DEF Later
  <2> HIDE DEF E, F
  <2>3. /\ Under(1) <=> F[1] > E[1]
        /\ Under(2) <=> F[1] = E[1] /\ F[2] > E[2]
        /\ Under(3) <=> F[1] = E[1] /\ F[2] = E[2] /\ F[3] > E[3]
        /\ Under(4) <=> F[1] = E[1] /\ F[2] = E[2] /\ F[3] = E[3] /\ F[4] > E[4]
    <3>1. /\ 1 .. 1 - 1 = {} /\ 1 .. 2 - 1 = {1} /\ 1 .. 3 - 1 = {1, 2}
          /\ 1 .. 4 - 1 = {1, 2, 3}
      OBVIOUS
    <3> QED
      BY <3>1
  <2>4. (\E i \in 1 .. 4 : Under(i)) <=> Under(1) \/ Under(2) \/ Under(3) \/ Under(4)
    <3>1. 1 .. 4 = {1, 2, 3, 4}
      OBVIOUS
    <3> HIDE DEF Under
    <3> QED
      BY <3>1
  <2>5. /\ F[1] > E[1] <=> E[1] < F[1]
        /\ F[2] > E[2] <=> E[2] < F[2]
        /\ F[3] > E[3] <=> E[3] < F[3]
        /\ F[4] > E[4] <=> E[4] < F[4]
        /\ F[1] = E[1] <=> E[1] = F[1]
    BY <2>1
  <2> HIDE DEF Under
  <2>6. \/ E[1] < F[1]
        \/ /\ E[1] = F[1]
           /\ \/ E[2] < F[2]
              \/ /\ E[2] = F[2]
                 /\ \/ E[3] < F[3]
                    \/ E[3] = F[3] /\ E[4] < F[4]
        <=> Later(f, e)
    BY <2>2, <2>3, <2>4, <2>5
  <2> QED
    BY <2>6 DEF E, F
<1>5. \A e, f \in Entry : extractTime(e) < extractTime(f) <=> Later(f, e)
  BY <1>3, <1>4, Zenon
<1> QED
  BY <1>1, <1>3, <1>5, DateFacts

-----------------------------------------------------------------------------
\* What findToDelete selects.

\* The order it deletes in: by time, and as listed where the times are equal.
Precedes(e, f) ==
    \/ extractTime(e) < extractTime(f)
    \/ extractTime(e) = extractTime(f) /\ ListedBefore(e, f)

\* Of c archives, how many are not among the k to keep.
Excess(c, k) == IF k <= 0 \/ c <= k THEN 0 ELSE c - k

LEMMA PrecedesOrder ==
    \A e, f, g \in Entry :
      /\ ~Precedes(e, e)
      /\ Precedes(e, f) /\ Precedes(f, g) => Precedes(e, g)
      /\ e # f => Precedes(e, f) \/ Precedes(f, e)
<1>1. \A e \in Entry : extractTime(e) \in Int
  BY TimeOfDate
<1>2. \A e, f, g \in Entry :
        /\ ~ListedBefore(e, e)
        /\ ListedBefore(e, f) /\ ListedBefore(f, g) => ListedBefore(e, g)
        /\ e # f => ListedBefore(e, f) \/ ListedBefore(f, e)
  BY EntryFields, ListedByFields
<1> QED
  BY <1>1, <1>2 DEF Precedes

LEMMA GlobFacts ==
    ASSUME NEW S \in SUBSET Entry, IsFiniteSet(S)
    PROVE  /\ Cardinality(S) \in Nat
           /\ Glob(S) \in [1 .. Cardinality(S) -> S]
           /\ \A e \in S : \E i \in 1 .. Cardinality(S) : Glob(S)[i] = e
           /\ \A i, j \in 1 .. Cardinality(S) :
                /\ i < j <=> ListedBefore(Glob(S)[i], Glob(S)[j])
                /\ Glob(S)[i] = Glob(S)[j] => i = j
<1> DEFINE R == {ef \in S \X S : ListedBefore(ef[1], ef[2])}
<1>1. TotalOrder(R, S)
  BY ListedTotal
<1>2. \A e, f \in S : <<e, f>> \in R <=> ListedBefore(e, f)
  OBVIOUS
<1>3. Glob(S) = Sorted(S, R)
  BY DEF Glob
<1> HIDE DEF R
<1>4. /\ Cardinality(S) \in Nat
      /\ Sorted(S, R) \in [1 .. Cardinality(S) -> S]
      /\ \A e \in S : \E i \in 1 .. Cardinality(S) : Sorted(S, R)[i] = e
      /\ \A i, j \in 1 .. Cardinality(S) :
           /\ i < j <=> <<Sorted(S, R)[i], Sorted(S, R)[j]>> \in R
           /\ Sorted(S, R)[i] = Sorted(S, R)[j] => i = j
  BY <1>1, SortedFacts
<1> QED
  BY <1>2, <1>3, <1>4

\* The sorted matches are the matching archives in the order of Precedes, and
\* the selection is their beginning.
LEMMA Selection ==
    ASSUME NEW S \in SUBSET Entry, IsFiniteSet(S)
    PROVE  /\ Cardinality(Matched(S)) \in Nat
           /\ \E full \in [1 .. Cardinality(Matched(S)) -> Matched(S)] :
                /\ \A e \in Matched(S) : \E p \in 1 .. Cardinality(Matched(S)) : full[p] = e
                /\ \A p, q \in 1 .. Cardinality(Matched(S)) :
                     p < q <=> Precedes(full[p], full[q])
                /\ \A k \in Int : findToDelete(Glob(S), Profile, k)
                     = [p \in 1 .. Excess(Cardinality(Matched(S)), k) |-> full[p]]
<1> DEFINE g == Glob(S)
           M == Matched(S)
           found == Found(g, Profile)
           c == Cardinality(M)
           Less(i, j) == \/ extractTime(g[i]) < extractTime(g[j])
                         \/ extractTime(g[i]) = extractTime(g[j]) /\ i < j
           R == {ij \in found \X found : Less(ij[1], ij[2])}
           order == SortByTime(g, found)
           full == [p \in 1 .. c |-> g[order[p]]]
<1>1. /\ Cardinality(S) \in Nat
      /\ g \in [1 .. Cardinality(S) -> S]
      /\ \A e \in S : \E i \in 1 .. Cardinality(S) : g[i] = e
      /\ \A i, j \in 1 .. Cardinality(S) :
           /\ i < j <=> ListedBefore(g[i], g[j])
           /\ g[i] = g[j] => i = j
  BY GlobFacts
<1> HIDE DEF g
<1>2. found = {i \in 1 .. Cardinality(S) : g[i] \in M}
  BY <1>1 DEF Found, Matched
<1>3. IsFiniteSet(M) /\ c \in Nat
  <2>1. M \in SUBSET S
    BY DEF Matched
  <2> QED
    BY <2>1, FS_Subset, FS_CardinalityType
<1>4. M \subseteq S /\ M \subseteq Entry
  BY DEF Matched
<1> HIDE DEF M, found
<1>5. /\ found \subseteq 1 .. Cardinality(S)
      /\ \A i \in found : g[i] \in M
      /\ \A e \in M : \E i \in found : g[i] = e
      /\ \A i, j \in found : g[i] = g[j] => i = j
  BY <1>1, <1>2, <1>4
<1>6. IsFiniteSet(found) /\ Cardinality(found) = c
  <2> DEFINE b == [i \in found |-> g[i]]
  <2>1. b \in Injection(found, M)
    BY <1>5 DEF Injection, IsInjective
  <2>2. b \in Surjection(found, M)
    BY <1>5 DEF Surjection
  <2> HIDE DEF b
  <2> QED
    BY <1>3, <2>1, <2>2, FS_Injection
<1>7. \A i \in found : extractTime(g[i]) \in Int /\ i \in Int
  BY <1>4, <1>5, TimeOfDate
<1>8. TotalOrder(R, found)
  <2>1. \A i, j \in found : <<i, j>> \in R <=> Less(i, j)
    OBVIOUS
  <2>2. \A i, j, k \in found : /\ ~Less(i, i)
                               /\ Less(i, j) /\ Less(j, k) => Less(i, k)
                               /\ i # j => Less(i, j) \/ Less(j, i)
    BY <1>7
  <2> HIDE DEF R, Less
  <2> QED
    BY <2>1, <2>2 DEF TotalOrder
<1>9. /\ order \in [1 .. c -> found]
      /\ \A i \in found : \E p \in 1 .. c : order[p] = i
      /\ \A p, q \in 1 .. c : p < q <=> Less(order[p], order[q])
  <2>1. order = Sorted(found, R)
    BY DEF SortByTime
  <2>2. \A i, j \in found : <<i, j>> \in R <=> Less(i, j)
    OBVIOUS
  <2> HIDE DEF R, Less, order
  <2>3. /\ Sorted(found, R) \in [1 .. c -> found]
        /\ \A i \in found : \E p \in 1 .. c : Sorted(found, R)[p] = i
        /\ \A p, q \in 1 .. c :
             p < q <=> <<Sorted(found, R)[p], Sorted(found, R)[q]>> \in R
    BY <1>6, <1>8, SortedFacts
  <2> QED
    BY <2>1, <2>2, <2>3
<1>10. \A i, j \in found : Less(i, j) <=> Precedes(g[i], g[j])
  BY <1>1, <1>5 DEF Precedes
<1> HIDE DEF Less, R, order, c
<1>11. /\ full \in [1 .. c -> M]
       /\ \A e \in M : \E p \in 1 .. c : full[p] = e
       /\ \A p, q \in 1 .. c : p < q <=> Precedes(full[p], full[q])
  <2>1. \A p \in 1 .. c : full[p] = g[order[p]] /\ order[p] \in found
    BY <1>9
  <2>2. full \in [1 .. c -> M]
    BY <1>5, <1>9
  <2> HIDE DEF full
  <2>3. ASSUME NEW e \in M PROVE \E p \in 1 .. c : full[p] = e
    <3>1. PICK i \in found : g[i] = e
      BY <1>5
    <3>2. PICK p \in 1 .. c : order[p] = i
      BY <1>9
    <3> QED
      BY <2>1, <3>1, <3>2
  <2>4. ASSUME NEW p \in 1 .. c, NEW q \in 1 .. c
        PROVE  p < q <=> Precedes(full[p], full[q])
    <3>1. p < q <=> Less(order[p], order[q])
      BY <1>9
    <3> QED
      BY <1>10, <2>1, <3>1
  <2> QED
    BY <2>2, <2>3, <2>4
<1>12. ASSUME NEW k \in Int
       PROVE  findToDelete(g, Profile, k) = [p \in 1 .. Excess(c, k) |-> full[p]]
  <2> DEFINE m == IF c <= k THEN c ELSE k
  <2>1. findToDelete(g, Profile, k)
          = IF k <= 0 THEN <<>> ELSE [p \in 1 .. c - m |-> g[order[p]]]
    BY <1>6, Zenon DEF findToDelete, found, order
  <2>2. CASE k <= 0
    <3>1. 1 .. Excess(c, k) = {}
      BY <1>3, <2>2 DEF Excess
    <3> QED
      BY <2>1, <2>2, <3>1
  <2>3. CASE ~(k <= 0)
    <3>1. c - m = Excess(c, k) /\ Excess(c, k) \in 0 .. c
      BY <1>3, <2>3 DEF Excess
    <3>2. \A p \in 1 .. Excess(c, k) : full[p] = g[order[p]]
      BY <1>3, <3>1
    <3> HIDE DEF full, m
    <3> QED
      BY <2>1, <2>3, <3>1, <3>2
  <2> QED
    BY <2>2, <2>3
<1> HIDE DEF full
<1> QED
  BY <1>3, <1>11, <1>12 DEF c, M, g

\* The selection, as the loop of ExpurgeDir goes through it.
LEMMA SelectionFacts ==
    ASSUME NEW S \in SUBSET Entry, IsFiniteSet(S), NEW k \in Int,
           NEW td, td = findToDelete(Glob(S), Profile, k)
    PROVE  /\ td \in Seq(Matched(S)) /\ Len(td) = Excess(Cardinality(Matched(S)), k)
           /\ DOMAIN td = 1 .. Len(td)
           /\ \A i, j \in 1 .. Len(td) : i < j => Precedes(td[i], td[j])
           /\ \A i \in 1 .. Len(td), f \in Matched(S) :
                (\E j \in 1 .. Len(td) : td[j] = f) \/ Precedes(td[i], f)
<1> DEFINE M == Matched(S)
           c == Cardinality(M)
           n == Excess(c, k)
<1>1. PICK full \in [1 .. c -> M] :
        /\ \A e \in M : \E p \in 1 .. c : full[p] = e
        /\ \A p, q \in 1 .. c : p < q <=> Precedes(full[p], full[q])
        /\ findToDelete(Glob(S), Profile, k) = [p \in 1 .. n |-> full[p]]
  BY Selection
<1>2. c \in Nat
  BY Selection
<1>3. n \in Nat /\ n <= c
  BY <1>2 DEF Excess
<1> HIDE DEF c, n, M
<1>4. td = [p \in 1 .. n |-> full[p]] /\ \A p \in 1 .. n : td[p] = full[p] /\ p \in 1 .. c
  BY <1>1, <1>2, <1>3
<1>5. td \in Seq(M) /\ Len(td) = n /\ DOMAIN td = 1 .. n
  BY <1>1, <1>3, <1>4
<1>6. \A i, j \in 1 .. n : i < j => Precedes(td[i], td[j])
  BY <1>1, <1>4
<1>7. ASSUME NEW i \in 1 .. n, NEW f \in M
      PROVE  (\E j \in 1 .. n : td[j] = f) \/ Precedes(td[i], f)
  <2>1. PICK p \in 1 .. c : full[p] = f
    BY <1>1
  <2>2. CASE p <= n
    BY <1>3, <1>4, <2>1, <2>2
  <2>3. CASE ~(p <= n)
    <3>1. i < p
      BY <1>2, <1>3, <2>3
    <3> QED
      BY <1>1, <1>4, <2>1, <3>1
  <2> QED
    BY <2>2, <2>3
<1> QED
  BY <1>5, <1>6, <1>7 DEF n, c, M

-----------------------------------------------------------------------------
\* The purge, step by step.

Typed ==
    /\ dir \in SUBSET Entry /\ before \in SUBSET Entry /\ IsFiniteSet(before)
    /\ dir \subseteq before /\ dir \cap taken = {}
    /\ keepN \in Int
    /\ todel \in Seq(Entry)
    /\ pc \in {"list", "remove", "done"} /\ (pc = "done" <=> result # "none")
    /\ pc = "list" => before \subseteq dir \cup taken
    /\ pc = "remove" => todel # <<>>

\* What has been removed comes before all that is left, and so does what is still
\* to be removed, in its order.
OrderInv ==
    /\ Removed \subseteq Matched(before)
    /\ \A e \in Removed, f \in Kept : Precedes(e, f)
    /\ pc = "remove" =>
         /\ \A i \in 1 .. Len(todel) : todel[i] \in Matched(before)
         /\ \A i, j \in 1 .. Len(todel) : i < j => Precedes(todel[i], todel[j])
         /\ \A i \in 1 .. Len(todel), f \in Kept :
              (\E j \in 1 .. Len(todel) : todel[j] = f) \/ Precedes(todel[i], f)

\* What has been removed and what is still to be removed are what there was too
\* much of.
CountInv ==
    /\ pc = "remove" =>
         Cardinality(Removed) + Len(todel) = Excess(Cardinality(Matched(before)), keepN)
    /\ result = "ok" => Cardinality(Removed) = Excess(Cardinality(Matched(before)), keepN)

Inv == Typed /\ OrderInv /\ CountInv

LEMMA InvInit == Init => Inv
<1> SUFFICES ASSUME Init PROVE Inv
  OBVIOUS
<1>1. Typed
  BY ExpurgeAssumption DEF Init, Typed
<1>2. Removed = {}
  BY DEF Init, Removed
<1> QED
  BY <1>1, <1>2 DEF Init, Inv, OrderInv, CountInv

LEMMA ListStep == ASSUME Inv, List PROVE Inv'
<1>1. Typed /\ pc = "list" /\ before' = dir /\ taken' = {} /\ dir' = dir /\ keepN' = keepN
  BY DEF Inv, List
<1>2. Removed' = {} /\ Matched(before)' = Matched(dir) /\ Kept' = Matched(dir)
  BY <1>1 DEF Removed, Matched, Kept
<1>3. dir \in SUBSET Entry /\ IsFiniteSet(dir) /\ keepN \in Int
  BY <1>1, FS_Subset DEF Typed
<1>4. Cardinality({}) = 0
  BY FS_EmptySet
<1>5. CASE todel' = findToDelete(Glob(dir), Profile, keepN)
           /\ IF todel' = <<>> THEN pc' = "done" /\ result' = "ok"
                               ELSE pc' = "remove" /\ UNCHANGED result
  <2> DEFINE td == findToDelete(Glob(dir), Profile, keepN)
             n == Excess(Cardinality(Matched(dir)), keepN)
  <2>1. /\ td \in Seq(Matched(dir)) /\ Len(td) = n
        /\ \A i, j \in 1 .. Len(td) : i < j => Precedes(td[i], td[j])
        /\ \A i \in 1 .. Len(td), f \in Matched(dir) :
             (\E j \in 1 .. Len(td) : td[j] = f) \/ Precedes(td[i], f)
    BY <1>3, SelectionFacts
  <2>2. todel' = td
    BY <1>5
  <2> HIDE DEF td
  <2>3. /\ Matched(dir) \subseteq Entry
        /\ \A i \in 1 .. Len(td) : td[i] \in Matched(dir)
        /\ td \in Seq(Entry)
        /\ td = <<>> => Len(td) = 0
        /\ Len(td) \in Nat
    <3>1. Matched(dir) \subseteq Entry
      BY <1>3 DEF Matched
    <3> QED
      BY <2>1, <3>1
  <2>4. Typed'
    BY <1>1, <1>3, <1>5, <2>2, <2>3 DEF Typed
  <2>5. OrderInv'
    BY <1>2, <2>1, <2>2, <2>3 DEF OrderInv
  <2>6. pc' = "remove" => result' # "ok"
    BY <1>1, <1>5 DEF Typed
  <2>7. CountInv'
    BY <1>1, <1>2, <1>4, <1>5, <2>1, <2>2, <2>3, <2>6 DEF CountInv
  <2> QED
    BY <2>4, <2>5, <2>7 DEF Inv
<1>6. CASE pc' = "done" /\ result' = "failed" /\ UNCHANGED todel
  BY <1>1, <1>2, <1>3, <1>6 DEF Inv, Typed, OrderInv, CountInv
<1> QED
  BY <1>5, <1>6 DEF List

LEMMA RemoveStep == ASSUME Inv, Remove PROVE Inv'
<1> DEFINE h == Head(todel)
           n == Len(todel)
<1>1. Typed /\ OrderInv /\ CountInv /\ pc = "remove" /\ UNCHANGED <<before, taken, keepN>>
  BY DEF Inv, Remove
<1>2. Matched(before)' = Matched(before)
  BY <1>1 DEF Matched
<1>3. CASE h \in dir /\ dir' = dir \ {h} /\ todel' = Tail(todel)
           /\ IF todel' = <<>> THEN pc' = "done" /\ result' = "ok"
                               ELSE pc' = "remove" /\ UNCHANGED result
  <2>1. /\ n \in Nat /\ n > 0 /\ h = todel[1] /\ 1 \in 1 .. n
        /\ Tail(todel) \in Seq(Entry) /\ Len(Tail(todel)) = n - 1
        /\ \A i \in 1 .. n - 1 : Tail(todel)[i] = todel[i + 1] /\ i + 1 \in 1 .. n
        /\ Tail(todel) = <<>> => n = 1
    <3>1. todel \in Seq(Entry) /\ todel # <<>>
      BY <1>1 DEF Typed
    <3>2. n \in Nat /\ n > 0 /\ h = todel[1] /\ 1 \in 1 .. n
      BY <3>1
    <3>3. /\ Tail(todel) \in Seq(Entry) /\ Len(Tail(todel)) = n - 1
          /\ \A i \in 1 .. n - 1 : Tail(todel)[i] = todel[i + 1]
      BY <3>1
    <3>4. \A i \in 1 .. n - 1 : i + 1 \in 1 .. n
      BY <3>2
    <3>5. Tail(todel) = <<>> => Len(Tail(todel)) = 0
      OBVIOUS
    <3>6. Tail(todel) = <<>> => n = 1
      BY <3>2, <3>3, <3>5
    <3> HIDE DEF h, n
    <3> QED
      BY <3>2, <3>3, <3>4, <3>6
  <2>2. h \in Matched(before) /\ h \notin taken /\ h \notin Removed
    BY <1>1, <1>3, <2>1 DEF OrderInv, Typed, Removed
  <2>3. Removed' = Removed \cup {h}
    BY <1>1, <1>3, <2>2 DEF Removed, Matched
  <2>4. Kept' = Kept \ {h}
    BY <1>2, <2>3 DEF Kept
  <2>5. Typed'
    BY <1>1, <1>3, <2>1 DEF Typed
  <2>6. ASSUME NEW f \in Kept \ {h} PROVE Precedes(h, f)
    <3>1. (\E j \in 1 .. n : todel[j] = f) \/ Precedes(h, f)
      BY <1>1, <2>1 DEF OrderInv
    <3>2. ASSUME NEW j \in 1 .. n, todel[j] = f PROVE Precedes(h, f)
      <4>1. 1 < j
        BY <2>1, <2>6, <3>2
      <4> QED
        BY <1>1, <2>1, <3>2, <4>1 DEF OrderInv
    <3> QED
      BY <3>1, <3>2
  <2>7. OrderInv'
    <3>1. Removed' \subseteq Matched(before)'
      BY <1>1, <1>2, <2>2, <2>3 DEF OrderInv
    <3>2. \A e \in Removed', f \in Kept' : Precedes(e, f)
      BY <1>1, <2>3, <2>4, <2>6 DEF OrderInv
    <3>3. \A i \in 1 .. n - 1 : Tail(todel)[i] \in Matched(before)
      BY <1>1, <2>1 DEF OrderInv
    <3>4. \A i, j \in 1 .. n - 1 : i < j => Precedes(Tail(todel)[i], Tail(todel)[j])
      <4>1. \A i, j \in 1 .. n - 1 : i < j => i + 1 < j + 1
        BY <2>1
      <4> QED
        BY <1>1, <2>1, <4>1 DEF OrderInv
    <3>5. ASSUME NEW i \in 1 .. n - 1, NEW f \in Kept \ {h}
          PROVE  (\E j \in 1 .. n - 1 : Tail(todel)[j] = f) \/ Precedes(Tail(todel)[i], f)
      <4>1. (\E j \in 1 .. n : todel[j] = f) \/ Precedes(todel[i + 1], f)
        BY <1>1, <2>1 DEF OrderInv
      <4>2. ASSUME NEW j \in 1 .. n, todel[j] = f PROVE \E k \in 1 .. n - 1 : Tail(todel)[k] = f
        <5>1. j - 1 \in 1 .. n - 1 /\ (j - 1) + 1 = j
          BY <2>1, <3>5, <4>2
        <5> QED
          BY <2>1, <4>2, <5>1
      <4> QED
        BY <2>1, <4>1, <4>2
    <3> QED
      BY <1>2, <1>3, <2>1, <2>4, <3>1, <3>2, <3>3, <3>4, <3>5 DEF OrderInv
  <2>8. CountInv'
    <3>1. Removed \in SUBSET before
      BY DEF Removed
    <3>2. IsFiniteSet(Removed) /\ Cardinality(Removed) \in Nat
      BY <1>1, <3>1, FS_Subset, FS_CardinalityType DEF Typed
    <3>3. Cardinality(Removed \cup {h}) = Cardinality(Removed) + 1
      BY <2>2, <3>2, FS_AddElement
    <3>4. Cardinality(Removed)' = Cardinality(Removed) + 1
      BY <2>3, <3>3
    <3>5. Cardinality(Removed) + n = Excess(Cardinality(Matched(before)), keepN)
      BY <1>1 DEF CountInv
    <3>6. result = "none"
      BY <1>1 DEF Typed
    <3>7. Excess(Cardinality(Matched(before)), keepN)'
            = Excess(Cardinality(Matched(before)), keepN)
      BY <1>1, <1>2
    <3>8. CASE todel' = <<>>
      BY <1>3, <2>1, <3>2, <3>4, <3>5, <3>7, <3>8 DEF CountInv
    <3>9. CASE todel' # <<>>
      BY <1>3, <2>1, <3>2, <3>4, <3>5, <3>6, <3>7, <3>9 DEF CountInv
    <3> QED
      BY <3>8, <3>9
  <2> QED
    BY <2>5, <2>7, <2>8 DEF Inv
<1>4. CASE pc' = "done" /\ result' = "failed" /\ UNCHANGED <<dir, todel>>
  <2>1. Removed' = Removed /\ Kept' = Kept
    BY <1>1, <1>2, <1>4 DEF Removed, Kept
  <2> QED
    BY <1>1, <1>2, <1>4, <2>1 DEF Inv, Typed, OrderInv, CountInv
<1> QED
  BY <1>3, <1>4 DEF Remove

LEMMA OtherRemovesStep == ASSUME Inv, NEW x \in dir, OtherRemoves(x) PROVE Inv'
<1>1. /\ Typed /\ OrderInv /\ CountInv /\ pc # "done"
      /\ dir' = dir \ {x} /\ taken' = taken \cup {x}
      /\ UNCHANGED <<before, keepN, pc, todel, result>>
  BY DEF Inv, OtherRemoves
<1>2. Removed' = Removed
  BY <1>1 DEF Removed
<1>3. Matched(before)' = Matched(before) /\ Kept' = Kept
  BY <1>1, <1>2 DEF Matched, Kept
<1>4. Typed'
  BY <1>1 DEF Typed
<1> QED
  BY <1>1, <1>2, <1>3, <1>4 DEF Inv, OrderInv, CountInv

LEMMA Invariance == Spec => []Inv
<1>1. ASSUME Inv, [Next]_vars PROVE Inv'
  <2>1. CASE UNCHANGED vars
    <3>1. Removed' = Removed /\ Kept' = Kept /\ Matched(before)' = Matched(before)
      BY <2>1 DEF vars, Removed, Matched, Kept
    <3> QED
      BY <1>1, <2>1, <3>1 DEF vars, Inv, Typed, OrderInv, CountInv
  <2> QED
    BY <1>1, <2>1, ListStep, RemoveStep, OtherRemovesStep DEF Next
<1> QED
  BY <1>1, InvInit, PTL DEF Spec

\* What precedes is of no later date.
LEMMA NotLater ==
    ASSUME Inv, NEW e \in Removed, NEW f \in Kept
    PROVE  ~Later(e, f)
<1>1. e \in Entry /\ f \in Entry
  BY DEF Inv, Typed, Removed, Matched, Kept
<1>2. extractTime(e) <= extractTime(f)
  BY <1>1, TimeOfDate DEF Inv, OrderInv, Precedes
<1> QED
  BY <1>1, <1>2, TimeOfDate

\* At every moment, whatever others remove and wherever the purge is cut off, what
\* ExpurgeDir has removed is older than all it has left.
THEOREM OldestRemovedFirst == Spec => []OldestGoFirst
<1>1. ASSUME Inv PROVE OldestGoFirst
  <2>1. Removed \subseteq Matched(before) /\ Matched(dir) \subseteq Kept
    BY <1>1 DEF Inv, Typed, OrderInv, Removed, Matched, Kept
  <2> QED
    BY <1>1, <2>1, NotLater DEF OldestGoFirst
<1> QED
  BY <1>1, Invariance, PTL

\* A purge that succeeds has left exactly the latest archives, as many as it is to
\* keep, for every number of archives and every keepN, also where others have removed
\* some meanwhile.
THEOREM ExactlyNKept == Spec => []KeepsExactlyN
<1>1. ASSUME Inv PROVE KeepsExactlyN
  <2> DEFINE M == Matched(before)
             k == keepN
  <2>1. SUFFICES ASSUME result = "ok"
                 PROVE  Cardinality(M \ Removed)
                          = IF k <= 0 \/ Cardinality(M) <= k THEN Cardinality(M) ELSE k
    BY <1>1, NotLater DEF KeepsExactlyN, Kept
  <2>2. IsFiniteSet(M) /\ Cardinality(M) \in Nat
    <3>1. M \in SUBSET before
      BY DEF Matched
    <3> QED
      BY <1>1, <3>1, FS_Subset, FS_CardinalityType DEF Inv, Typed
  <2>3. M \cap Removed = Removed
    BY <1>1 DEF Inv, OrderInv
  <2>4. Cardinality(M \ Removed) = Cardinality(M) - Cardinality(Removed)
    <3> HIDE DEF M
    <3> QED BY <2>2, <2>3, FS_Difference
  <2>5. Cardinality(Removed) = Excess(Cardinality(M), k)
    BY <1>1, <2>1 DEF Inv, CountInv
  <2>6. k \in Int
    BY <1>1 DEF Inv, Typed
  <2> HIDE DEF M, k
  <2> QED
    BY <2>2, <2>4, <2>5, <2>6 DEF Excess
<1> QED
  BY <1>1, Invariance, PTL

-----------------------------------------------------------------------------
\* The link to module Archives.

\* An archive goes if and only if k of those that match come after it.
LEMMA SelectionByCount ==
    ASSUME NEW S \in SUBSET Entry, IsFiniteSet(S), NEW k \in Nat \ {0}
    PROVE  \A e \in Matched(S) :
             (\E i \in DOMAIN findToDelete(Glob(S), Profile, k) :
                findToDelete(Glob(S), Profile, k)[i] = e)
             <=> Cardinality({f \in Matched(S) : Precedes(e, f)}) >= k
<1> DEFINE M == Matched(S)
           c == Cardinality(M)
           n == Excess(c, k)
           td == findToDelete(Glob(S), Profile, k)
           After(e) == {f \in M : Precedes(e, f)}
<1>1. PICK full \in [1 .. c -> M] :
        /\ \A e \in M : \E p \in 1 .. c : full[p] = e
        /\ \A p, q \in 1 .. c : p < q <=> Precedes(full[p], full[q])
        /\ td = [p \in 1 .. n |-> full[p]]
  BY Selection
<1>2. c \in Nat
  BY Selection
<1>3. n = (IF c <= k THEN 0 ELSE c - k) /\ n \in 0 .. c
  BY <1>2 DEF Excess
<1>4. M \subseteq Entry
  BY DEF Matched
<1> HIDE DEF M, c, n, td
<1>5. \A p, q \in 1 .. c : full[p] = full[q] => p = q
  <2>1. \A p, q \in 1 .. c : p # q => p < q \/ q < p
    OBVIOUS
  <2>2. \A p \in 1 .. c : ~Precedes(full[p], full[p])
    BY <1>1, <1>4, PrecedesOrder
  <2> QED
    BY <1>1, <2>1, <2>2
<1>6. ASSUME NEW p \in 1 .. c PROVE Cardinality(After(full[p])) = c - p
  <2> DEFINE T == (p + 1) .. c
             b == [q \in T |-> full[q]]
  <2>1. IsFiniteSet(T) /\ Cardinality(T) = c - p
    BY <1>2, FS_Interval
  <2>2. \A q \in T : q \in 1 .. c /\ p < q
    BY <1>2
  <2>3. \A q \in 1 .. c : p < q => q \in T
    BY <1>2
  <2> HIDE DEF T
  <2>4. \A q \in T : full[q] \in After(full[p])
    BY <1>1, <2>2
  <2>5. b \in [T -> After(full[p])] /\ \A q \in T : b[q] = full[q]
    BY <2>4
  <2>6. ASSUME NEW f \in After(full[p]) PROVE \E q \in T : full[q] = f
    <3>1. PICK q \in 1 .. c : full[q] = f
      BY <1>1
    <3> QED
      BY <1>1, <2>3, <3>1
  <2> HIDE DEF b, After
  <2>7. b \in Injection(T, After(full[p]))
    BY <1>5, <2>2, <2>5 DEF Injection, IsInjective
  <2>8. b \in Surjection(T, After(full[p]))
    BY <2>5, <2>6 DEF Surjection
  <2>9. IsFiniteSet(After(full[p])) /\ Cardinality(After(full[p])) = Cardinality(T)
    BY <2>1, <2>7, <2>8, FS_Surjection
  <2> QED
    BY <2>1, <2>9
<1>7. ASSUME NEW e \in M
      PROVE  (\E i \in DOMAIN td : td[i] = e) <=> Cardinality(After(e)) >= k
  <2>1. PICK p \in 1 .. c : full[p] = e
    BY <1>1
  <2>2. Cardinality(After(e)) = c - p
    BY <1>6, <2>1
  <2>3. DOMAIN td = 1 .. n /\ \A i \in 1 .. n : td[i] = full[i]
    BY <1>1
  <2>4. \A i \in 1 .. n : i \in 1 .. c
    BY <1>2, <1>3
  <2>5. (\E i \in DOMAIN td : td[i] = e) <=> p \in 1 .. n
    BY <1>5, <2>1, <2>3, <2>4
  <2>6. p \in 1 .. n <=> c - p >= k
    BY <1>2, <1>3
  <2> QED
    BY <2>2, <2>5, <2>6
<1> QED
  BY <1>7 DEF M, td

\* Of archives with valid dates, Archives sees the order and tells them apart.
LEMMA StampedFacts ==
    \A e, f \in Entry : Valid(e) /\ Valid(f) =>
      /\ A!Before(Stamped(e), Stamped(f)) <=> Precedes(e, f)
      /\ Stamped(e) = Stamped(f) => e = f
<1> SUFFICES ASSUME NEW e \in Entry, NEW f \in Entry, Valid(e), Valid(f)
             PROVE  /\ A!Before(Stamped(e), Stamped(f)) <=> Precedes(e, f)
                    /\ Stamped(e) = Stamped(f) => e = f
  OBVIOUS
<1>1. extractTime(e) = extractTime(f) =>
        e.year = f.year /\ e.month = f.month /\ e.day = f.day /\ e.sec = f.sec
  BY TimeOfDate
<1>2. Stamped(e).name = e.name /\ Stamped(e).stamp = extractTime(e)
      /\ Stamped(f).name = f.name /\ Stamped(f).stamp = extractTime(f)
  BY DEF Stamped
<1>3. Stamped(e) = Stamped(f) => e = f
  BY <1>1, <1>2, EntryFields
<1>4. extractTime(e) = extractTime(f) => (ListedBefore(e, f) <=> e.name < f.name)
  BY <1>1, EntryFields, ListedByFields
<1>5. A!Before(Stamped(e), Stamped(f)) <=> Precedes(e, f)
  BY <1>2, <1>4 DEF A!Before, Precedes
<1> QED
  BY <1>3, <1>5

\* The instance of Archives counts as everyone does.
LEMMA SameCardinality == \A S : A!Cardinality(S) = Cardinality(S)
BY Zenon DEF A!Cardinality, Cardinality

\* What ExpurgeDir selects by file name is what Archives' findToDelete, on which all
\* other proofs rest, selects by stamp, for every directory of valid dates.
THEOREM SelectsAsArchives == Spec => []AgreesWithArchives
<1>1. ASSUME Inv PROVE AgreesWithArchives
  <2> DEFINE td == findToDelete(Glob(dir), Profile, keepN)
             M == Matched(dir)
             F == {Stamped(e) : e \in dir}
             MF == {f \in F : f.name \in Matches[Profile]}
             After(e) == {f \in M : Precedes(e, f)}
             AfterF(e) == {g \in MF : A!Before(Stamped(e), g)}
  <2>1. SUFFICES ASSUME keepN > 0, \A e \in dir : Valid(e)
                 PROVE  /\ {Stamped(td[i]) : i \in DOMAIN td} = A!findToDelete(F, Profile, keepN)
                        /\ \A i, j \in DOMAIN td : i < j => A!Before(Stamped(td[i]), Stamped(td[j]))
    BY DEF AgreesWithArchives
  <2>2. dir \in SUBSET Entry /\ IsFiniteSet(dir) /\ keepN \in Nat \ {0} /\ keepN \in Int
    BY <1>1, <2>1, FS_Subset DEF Inv, Typed
  <2>3. /\ td \in Seq(M) /\ DOMAIN td = 1 .. Len(td)
        /\ \A i, j \in 1 .. Len(td) : i < j => Precedes(td[i], td[j])
    BY <2>2, SelectionFacts
  <2>4. \A e \in M : (\E i \in DOMAIN td : td[i] = e) <=> Cardinality(After(e)) >= keepN
    BY <2>2, SelectionByCount
  <2>5. M \subseteq dir /\ M \subseteq Entry /\ \A e \in M : Valid(e)
    BY <2>1, <2>2 DEF Matched
  <2>6. MF = {Stamped(e) : e \in M}
    BY DEF Stamped, Matched
  <2>7. A!findToDelete(F, Profile, keepN)
          = {f \in MF : Cardinality({g \in MF : A!Before(f, g)}) >= keepN}
    BY SameCardinality, Zenon DEF A!findToDelete
  <2>8. IsFiniteSet(M)
    BY <2>2, <2>5, FS_Subset
  <2> HIDE DEF td, M, MF, F
  <2>9. \A i \in DOMAIN td : td[i] \in M
    BY <2>3
  <2>10. ASSUME NEW e \in M PROVE Cardinality(AfterF(e)) = Cardinality(After(e))
    <3> DEFINE b == [f \in After(e) |-> Stamped(f)]
    <3>1. IsFiniteSet(After(e))
      BY <2>8, FS_Subset
    <3>2. \A f \in After(e) : Stamped(f) \in AfterF(e)
      BY <2>5, <2>6, <2>10, StampedFacts
    <3>3. \A g \in AfterF(e) : \E f \in After(e) : Stamped(f) = g
      BY <2>5, <2>6, <2>10, StampedFacts
    <3>4. \A f, g \in After(e) : Stamped(f) = Stamped(g) => f = g
      BY <2>5, StampedFacts
    <3> HIDE DEF After, AfterF
    <3>5. b \in Injection(After(e), AfterF(e))
      BY <3>2, <3>4 DEF Injection, IsInjective
    <3>6. b \in Surjection(After(e), AfterF(e))
      BY <3>2, <3>3 DEF Surjection
    <3> HIDE DEF b
    <3> QED
      BY <3>1, <3>5, <3>6, FS_Surjection
  <2>11. A!findToDelete(F, Profile, keepN)
           = {Stamped(e) : e \in {x \in M : Cardinality(AfterF(x)) >= keepN}}
    BY <2>6, <2>7
  <2>12. {x \in M : Cardinality(AfterF(x)) >= keepN} = {x \in M : Cardinality(After(x)) >= keepN}
    BY <2>10
  <2>13. {x \in M : Cardinality(After(x)) >= keepN} = {td[i] : i \in DOMAIN td}
    BY <2>4, <2>9
  <2>14. {Stamped(td[i]) : i \in DOMAIN td} = {Stamped(e) : e \in {td[i] : i \in DOMAIN td}}
    OBVIOUS
  <2>15. \A i, j \in DOMAIN td : i < j => A!Before(Stamped(td[i]), Stamped(td[j]))
    BY <2>3, <2>5, <2>9, StampedFacts
  <2> QED
    <3>1. {Stamped(td[i]) : i \in DOMAIN td} = A!findToDelete(F, Profile, keepN)
      BY <2>11, <2>12, <2>13, <2>14, Zenon
    <3> QED
      BY <2>15, <3>1, Zenon DEF F, td
<1> QED
  BY <1>1, Invariance, PTL
=============================================================================
