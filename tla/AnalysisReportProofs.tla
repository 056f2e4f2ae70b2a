-------------------------- MODULE AnalysisReportProofs --------------------------
(***************************************************************************)
(* Proofs about an analysis report, for every file: the overlay is what    *)
(* follows the sections, the strings are all their text, the resources are *)
(* the tree's, and the dependencies are whole and each named once.         *)
(***************************************************************************)
EXTENDS AnalysisReport, FiniteSetTheorems, SequenceTheorems, WellFoundedInduction, TLAPS

-----------------------------------------------------------------------------
\* Numbers.

\* Every set of numbers that is not empty has a least one: the initial
\* intervals it spans are finite, and strict inclusion of those is well-founded.
LEMMA LeastExists ==
  ASSUME NEW S \in SUBSET Nat, S # {}
  PROVE  \E x \in S : \A y \in S : x <= y
<1> DEFINE U == {0..n : n \in S}
<1>1. U \subseteq FiniteSubsetsOf(Nat) /\ U # {}
  <2>1. ASSUME NEW n \in S PROVE IsFiniteSet(0..n) /\ 0..n \in SUBSET Nat
    BY FS_Interval
  <2> QED
    BY <2>1 DEF FiniteSubsetsOf
<1>2. PICK I \in U : \A J \in U : ~(<<J, I>> \in StrictSubsetOrdering(Nat))
  BY <1>1, FS_StrictSubsetOrderingWellFounded, WFMin
<1>3. PICK x \in S : I = 0..x
  OBVIOUS
<1>4. ASSUME NEW y \in S, y < x PROVE FALSE
  <2> DEFINE A == 0..y
             B == 0..x
  <2>1. A \subseteq B /\ A # B /\ A \in SUBSET Nat /\ B \in SUBSET Nat /\ A \in U
    BY <1>4
  <2>2. ~(<<A, B>> \in StrictSubsetOrdering(Nat))
    BY <1>2, <1>3, <2>1
  <2> HIDE DEF A, B
  <2>3. <<A, B>> \in StrictSubsetOrdering(Nat)
    BY <2>1 DEF StrictSubsetOrdering
  <2> QED
    BY <2>2, <2>3
<1> QED
  BY <1>4

\* Induction, over a set rather than a predicate.
LEMMA Induction ==
  ASSUME NEW P, 0 \in P, \A m \in Nat : m \in P => m + 1 \in P
  PROVE  \A m \in Nat : m \in P
<1> DEFINE S == {m \in Nat : m \notin P}
<1> SUFFICES ASSUME S # {} PROVE FALSE
  OBVIOUS
<1>1. PICK m \in S : \A k \in S : m <= k
  <2>1. S \in SUBSET Nat
    OBVIOUS
  <2> HIDE DEF S
  <2> QED
    BY <2>1, LeastExists
<1>2. m # 0 /\ m - 1 \in Nat /\ ~(m <= m - 1)
  BY <1>1
<1>3. m - 1 \in P /\ (m - 1) + 1 = m
  BY <1>1, <1>2
<1> QED
  BY <1>1, <1>2, <1>3

LEMMA GreatestExists ==
  ASSUME NEW S \in SUBSET Nat, S # {}, NEW n \in Nat, \A x \in S : x <= n
  PROVE  \E x \in S : \A y \in S : y <= x
<1> DEFINE D == {n - x : x \in S}
<1>1. D \in SUBSET Nat /\ D # {}
  <2>1. \A x \in S : n - x \in Nat
    OBVIOUS
  <2> QED
    BY <2>1
<1>2. PICK d \in D : \A e \in D : d <= e
  <2> HIDE DEF D
  <2> QED
    BY <1>1, LeastExists
<1>3. PICK x \in S : d = n - x
  OBVIOUS
<1>4. ASSUME NEW y \in S PROVE y <= x
  <2>1. n - y \in D
    OBVIOUS
  <2>2. n - x <= n - y
    BY <1>2, <1>3, <2>1
  <2> QED
    BY <2>2
<1> QED
  BY <1>4

-----------------------------------------------------------------------------
\* Sequences.

LEMMA ConcatIs ==
  ASSUME NEW S, NEW s \in Seq(S), NEW t \in Seq(S)
  PROVE  /\ s \o t \in Seq(S) /\ Len(s \o t) = Len(s) + Len(t)
         /\ Len(s) \in Nat /\ Len(t) \in Nat
         /\ \A k \in 1..Len(s) : (s \o t)[k] = s[k]
         /\ \A k \in 1..Len(t) : (s \o t)[Len(s) + k] = t[k]
OBVIOUS

LEMMA WiderSeq ==
  ASSUME NEW S, NEW T, S \subseteq T, NEW s \in Seq(S)
  PROVE  s \in Seq(T)
<1>1. s \in [1..Len(s) -> S] /\ Len(s) \in Nat
  OBVIOUS
<1>2. s \in [1..Len(s) -> T]
  BY <1>1
<1> QED
  BY <1>1, <1>2

LEMMA AppendIs ==
  ASSUME NEW S, NEW s \in Seq(S), NEW x \in S
  PROVE  /\ Append(s, x) \in Seq(S) /\ Len(Append(s, x)) = Len(s) + 1
         /\ Append(s, x)[Len(s) + 1] = x
         /\ \A k \in 1..Len(s) : Append(s, x)[k] = s[k]
OBVIOUS

\* FlattenSeq computes from the left: on every number of sequences there is
\* a function that does, and its values are sequences of their elements.
LEMMA FlattenFunction ==
  ASSUME NEW S, NEW q \in Seq(Seq(S)), Len(q) # 0
  PROVE  \E f : /\ FlattenSeq(q) = f[Len(q)]
                /\ \A i \in 1..Len(q) :
                     f[i] \in Seq(S) /\ f[i] = IF i = 1 THEN q[i] ELSE f[i - 1] \o q[i]
<1> DEFINE n == Len(q)
           Joins(g, m) == g = [i \in 1..m |-> IF i = 1 THEN q[i] ELSE g[i - 1] \o q[i]]
           Reached(m) == \E g : Joins(g, m)
<1>1. n \in Nat /\ \A i \in 1..n : q[i] \in Seq(S)
  OBVIOUS
<1>2. n # 0
  OBVIOUS
<1> QED
  <2>1. \A m \in 1..n : Reached(m)
    <3> DEFINE B == {m \in 1..n : ~Reached(m)}
    <3> SUFFICES ASSUME B # {} PROVE FALSE
      <4> HIDE DEF Reached, n
      <4> QED
        OBVIOUS
    <3>1. PICK m \in B : \A k \in B : m <= k
      <4>1. B \in SUBSET Nat
        <5> HIDE DEF Reached
        <5> QED
          OBVIOUS
      <4> HIDE DEF B
      <4> QED
        BY <4>1, LeastExists
    <3>2. CASE m = 1
      <4> DEFINE g == [i \in 1..m |-> q[i]]
      <4>1. g = [i \in 1..m |-> IF i = 1 THEN q[i] ELSE g[i - 1] \o q[i]]
        BY <3>2
      <4> QED
        BY <4>1
    <3>3. CASE m # 1
      <4>1. m - 1 \in 1..n /\ ~(m <= m - 1)
        BY <1>1, <3>3
      <4>2. PICK g : Joins(g, m - 1)
        BY <3>1, <4>1
      <4> DEFINE h == [i \in 1..m |-> IF i = m THEN g[m - 1] \o q[m] ELSE g[i]]
      <4>3. ASSUME NEW i \in 1..m
            PROVE  h[i] = IF i = 1 THEN q[i] ELSE h[i - 1] \o q[i]
        <5>1. CASE i = m
          <6>1. i # 1 /\ i - 1 \in 1..m /\ i - 1 # m
            BY <3>3, <5>1
          <6>2. h[i] = g[i - 1] \o q[i] /\ h[i - 1] = g[i - 1]
            BY <5>1, <6>1
          <6> QED
            BY <6>1, <6>2
        <5>2. CASE i # m
          <6>1. i \in 1..(m - 1) /\ h[i] = g[i]
            BY <5>2
          <6>2. g[i] = IF i = 1 THEN q[i] ELSE g[i - 1] \o q[i]
            BY <4>2, <6>1
          <6>3. i # 1 => i - 1 \in 1..m /\ i - 1 # m
            BY <6>1
          <6>4. i # 1 => h[i - 1] = g[i - 1]
            BY <6>3
          <6> QED
            BY <6>1, <6>2, <6>4
        <5> QED
          BY <5>1, <5>2
      <4>4. Joins(h, m)
        <5>1. h = [i \in 1..m |-> h[i]]
          OBVIOUS
        <5> HIDE DEF h
        <5>2. [i \in 1..m |-> h[i]] = [i \in 1..m |-> IF i = 1 THEN q[i] ELSE h[i - 1] \o q[i]]
          BY <4>3
        <5> QED
          BY <5>1, <5>2
      <4> QED
        BY <4>4
    <3> QED
      BY <3>2, <3>3
  <2> DEFINE f == CHOOSE g : Joins(g, n)
  <2>2. Joins(f, n)
    <3>1. n \in 1..n
      BY <1>1, <1>2
    <3>2. Reached(n)
      <4> HIDE DEF Reached, n
      <4> QED
        BY <2>1, <3>1
    <3> HIDE DEF Joins, n
    <3> QED
      BY <3>2
  <2>3. FlattenSeq(q) = f[n]
    BY <1>2 DEF FlattenSeq
  <2> HIDE DEF f
  <2>4. \A i \in 1..n : f[i] = IF i = 1 THEN q[i] ELSE f[i - 1] \o q[i]
    BY <2>2
  <2>5. \A i \in 1..n : f[i] \in Seq(S)
    <3> DEFINE B == {i \in 1..n : f[i] \notin Seq(S)}
    <3> SUFFICES ASSUME B # {} PROVE FALSE
      OBVIOUS
    <3>1. PICK i \in B : \A k \in B : i <= k
      <4>1. B \in SUBSET Nat
        OBVIOUS
      <4> HIDE DEF B
      <4> QED
        BY <4>1, LeastExists
    <3>2. i # 1 => i - 1 \in 1..n /\ i - 1 \notin B
      BY <1>1, <3>1
    <3>3. i # 1 => f[i - 1] \in Seq(S)
      BY <3>2
    <3>4. f[i] \in Seq(S)
      <4>1. f[i] = IF i = 1 THEN q[i] ELSE f[i - 1] \o q[i]
        BY <2>4, <3>1
      <4>2. q[i] \in Seq(S)
        BY <1>1, <3>1
      <4>3. \A s, t \in Seq(S) : s \o t \in Seq(S)
        BY ConcatIs
      <4> QED
        BY <3>3, <4>1, <4>2, <4>3
    <3> QED
      BY <3>4
  <2> QED
    BY <2>3, <2>4, <2>5

\* FlattenSeq joins what it is given from the left.
LEMMA FlattenIsSeq ==
  ASSUME NEW S, NEW q \in Seq(Seq(S))
  PROVE  /\ FlattenSeq(q) \in Seq(S)
         /\ q = <<>> => FlattenSeq(q) = <<>>
<1>1. CASE Len(q) = 0
  <2>1. q = <<>> /\ FlattenSeq(q) = q
    BY <1>1 DEF FlattenSeq
  <2>2. <<>> \in Seq(S)
    OBVIOUS
  <2> QED
    BY <2>1, <2>2
<1>2. CASE Len(q) # 0
  <2>1. PICK f : /\ FlattenSeq(q) = f[Len(q)]
                 /\ \A i \in 1..Len(q) : f[i] \in Seq(S)
    BY <1>2, FlattenFunction
  <2>2. Len(q) \in 1..Len(q) /\ q # <<>>
    BY <1>2
  <2> QED
    BY <2>1, <2>2
<1> QED
  BY <1>1, <1>2

LEMMA FlattenAppend ==
  ASSUME NEW S, NEW q \in Seq(Seq(S)), NEW x \in Seq(S)
  PROVE  FlattenSeq(Append(q, x)) = FlattenSeq(q) \o x
<1> DEFINE n == Len(q)
<1>0. PICK r \in Seq(Seq(S)) : r = Append(q, x)
  BY AppendIs
<1>1. /\ n \in Nat /\ r \in Seq(Seq(S)) /\ Len(r) = n + 1 /\ r[n + 1] = x
      /\ \A i \in 1..n : r[i] = q[i]
  BY <1>0
<1>2. PICK g : /\ FlattenSeq(r) = g[n + 1]
               /\ \A i \in 1..(n + 1) : g[i] = IF i = 1 THEN r[i] ELSE g[i - 1] \o r[i]
  <2>1. Len(r) # 0
    BY <1>1
  <2>2. \E f : /\ FlattenSeq(r) = f[Len(r)]
               /\ \A i \in 1..Len(r) :
                    f[i] \in Seq(S) /\ f[i] = IF i = 1 THEN r[i] ELSE f[i - 1] \o r[i]
    BY <2>1, FlattenFunction
  <2> QED
    BY <1>1, <2>2
<1>3. CASE n = 0
  <2>1. g[n + 1] = r[n + 1] /\ q = <<>>
    BY <1>2, <1>3
  <2>2. FlattenSeq(q) = <<>>
    BY <2>1, FlattenIsSeq
  <2>3. <<>> \o x = x
    OBVIOUS
  <2> QED
    BY <1>0, <1>1, <1>2, <2>1, <2>2, <2>3
<1>4. CASE n # 0
  <2>1. PICK f : /\ FlattenSeq(q) = f[n]
                 /\ \A i \in 1..n : f[i] = IF i = 1 THEN q[i] ELSE f[i - 1] \o q[i]
    <3>1. \E f : /\ FlattenSeq(q) = f[Len(q)]
                 /\ \A i \in 1..Len(q) :
                      f[i] \in Seq(S) /\ f[i] = IF i = 1 THEN q[i] ELSE f[i - 1] \o q[i]
      BY <1>4, FlattenFunction
    <3> QED
      BY <3>1
  <2> DEFINE P == {m \in Nat : m \in 1..n => f[m] = g[m]}
  <2>2. ASSUME NEW m \in Nat, m \in P PROVE m + 1 \in P
    <3> SUFFICES ASSUME m + 1 \in 1..n PROVE f[m + 1] = g[m + 1]
      OBVIOUS
    <3>0. m + 1 \in 1..(n + 1) /\ (m + 1) - 1 = m
      BY <1>1
    <3>1. /\ f[m + 1] = IF m + 1 = 1 THEN q[m + 1] ELSE f[m] \o q[m + 1]
          /\ g[m + 1] = IF m + 1 = 1 THEN r[m + 1] ELSE g[m] \o r[m + 1]
      <4>1. f[m + 1] = IF m + 1 = 1 THEN q[m + 1] ELSE f[(m + 1) - 1] \o q[m + 1]
        BY <2>1, Zenon
      <4>2. g[m + 1] = IF m + 1 = 1 THEN r[m + 1] ELSE g[(m + 1) - 1] \o r[m + 1]
        BY <3>0, <1>2, Zenon
      <4> QED
        BY <3>0, <4>1, <4>2, Zenon
    <3>2. m + 1 # 1 => f[m] = g[m]
      BY <1>1, <2>2
    <3> QED
      BY <1>1, <3>1, <3>2
  <2>3. \A m \in Nat : m \in P
    <3>1. 0 \in P
      BY <1>1
    <3> HIDE DEF P
    <3> QED
      BY <2>2, <3>1, Induction
  <2>4. f[n] = g[n]
    BY <1>1, <1>4, <2>3
  <2>5. g[n + 1] = g[n] \o x
    <3>1. n + 1 \in 1..(n + 1) /\ n + 1 # 1 /\ (n + 1) - 1 = n
      BY <1>1, <1>4
    <3>2. g[n + 1] = g[(n + 1) - 1] \o r[n + 1]
      BY <1>2, <3>1
    <3> QED
      BY <1>1, <3>1, <3>2
  <2> QED
    BY <1>0, <1>2, <2>1, <2>4, <2>5
<1> QED
  BY <1>3, <1>4

-----------------------------------------------------------------------------
(***************************************************************************)
(* The elements of a finite set in an order, which is a set of pairs here. *)
(* An element's place is the number of elements before it.                 *)
(***************************************************************************)
Place(S, R, x) == Cardinality({y \in S : <<y, x>> \in R})

Arranged(S, R) ==
  [k \in 1..Cardinality(S) |-> CHOOSE x \in S : Place(S, R, x) = k - 1]

StrictOrder(S, R) ==
  \A x, y, z \in S :
    /\ <<x, x>> \notin R
    /\ x = y \/ <<x, y>> \in R \/ <<y, x>> \in R
    /\ <<x, y>> \in R /\ <<y, z>> \in R => <<x, z>> \in R

Enumerates(t, S, R) ==
  /\ t \in Seq(S)
  /\ \A x \in S : \E k \in 1..Len(t) : t[k] = x
  /\ \A j, k \in 1..Len(t) : j < k => <<t[j], t[k]>> \in R

LEMMA PlaceCounts ==
  ASSUME NEW S, NEW R, IsFiniteSet(S), StrictOrder(S, R), NEW x \in S
  PROVE  Place(S, R, x) \in 0..(Cardinality(S) - 1)
<1> DEFINE E == {y \in S : <<y, x>> \in R}
<1>1. E \in SUBSET (S \ {x})
  BY DEF StrictOrder
<1>2. /\ Cardinality(S) \in Nat /\ IsFiniteSet(S \ {x})
      /\ Cardinality(S \ {x}) = Cardinality(S) - 1
  BY FS_CardinalityType, FS_RemoveElement
<1> HIDE DEF E
<1>3. IsFiniteSet(E) /\ Cardinality(E) <= Cardinality(S) - 1
  BY <1>1, <1>2, FS_Subset
<1>4. Cardinality(E) \in Nat
  BY <1>3, FS_CardinalityType
<1> QED
  BY <1>2, <1>3, <1>4 DEF Place, E

LEMMA PlaceGrows ==
  ASSUME NEW S, NEW R, IsFiniteSet(S), StrictOrder(S, R),
         NEW x \in S, NEW y \in S, <<x, y>> \in R
  PROVE  Place(S, R, x) < Place(S, R, y)
<1> DEFINE A == {z \in S : <<z, x>> \in R}
           B == {z \in S : <<z, y>> \in R}
<1>1. x \notin A /\ A \cup {x} \in SUBSET B /\ A \in SUBSET S /\ B \in SUBSET S
  BY DEF StrictOrder
<1>2. Place(S, R, x) = Cardinality(A) /\ Place(S, R, y) = Cardinality(B)
  BY DEF Place
<1> HIDE DEF A, B
<1>3. IsFiniteSet(A) /\ IsFiniteSet(B)
  BY <1>1, FS_Subset
<1>4. Cardinality(A \cup {x}) = Cardinality(A) + 1
  BY <1>1, <1>3, FS_AddElement
<1>5. Cardinality(A \cup {x}) <= Cardinality(B)
  BY <1>1, <1>3, FS_Subset
<1>6. Cardinality(A) \in Nat /\ Cardinality(B) \in Nat
  BY <1>3, FS_CardinalityType
<1> QED
  BY <1>2, <1>4, <1>5, <1>6

LEMMA PlaceIsUnique ==
  ASSUME NEW S, NEW R, IsFiniteSet(S), StrictOrder(S, R),
         NEW x \in S, NEW y \in S, Place(S, R, x) = Place(S, R, y)
  PROVE  x = y
<1>1. Place(S, R, x) \in Int
  BY PlaceCounts
<1>2. <<x, y>> \notin R /\ <<y, x>> \notin R
  BY <1>1, PlaceGrows
<1> QED
  BY <1>2 DEF StrictOrder

LEMMA ArrangedExists ==
  ASSUME NEW S, NEW R, IsFiniteSet(S), StrictOrder(S, R)
  PROVE  /\ Enumerates(Arranged(S, R), S, R) /\ Len(Arranged(S, R)) = Cardinality(S)
         /\ \A k \in 1..Cardinality(S) : /\ Arranged(S, R)[k] \in S
                                       /\ Place(S, R, Arranged(S, R)[k]) = k - 1
<1> DEFINE n == Cardinality(S)
           t == Arranged(S, R)
           f == [x \in S |-> Place(S, R, x)]
<1>1. n \in Nat
  BY FS_CardinalityType
<1>2. \A x, y \in S : Place(S, R, x) = Place(S, R, y) => x = y
  BY PlaceIsUnique
<1>3. ASSUME NEW c \in 0..(n - 1) PROVE \E x \in S : Place(S, R, x) = c
  <2> DEFINE N == 0..(n - 1)
  <2>1. f \in [S -> N]
    BY PlaceCounts
  <2>2. f \in Injection(S, N)
    BY <1>2, <2>1 DEF Injection, IsInjective
  <2> HIDE DEF f
  <2>3. IsFiniteSet(N) /\ Cardinality(N) = n
    <3> DEFINE m == n - 1
    <3>1. m \in Int
      BY <1>1
    <3> HIDE DEF m
    <3>2. IsFiniteSet(0..m) /\ Cardinality(0..m) = IF 0 > m THEN 0 ELSE m - 0 + 1
      BY <3>1, FS_Interval
    <3> QED
      BY <1>1, <3>2 DEF m
  <2>4. f \in Surjection(S, N)
    BY <2>2, <2>3, FS_Injection
  <2>5. PICK x \in S : f[x] = c
    BY <2>4 DEF Surjection
  <2> QED
    BY <2>5 DEF f
<1> DEFINE T(k) == CHOOSE x \in S : Place(S, R, x) = k - 1
<1>4. ASSUME NEW k \in 1..n PROVE T(k) \in S /\ Place(S, R, T(k)) = k - 1
  <2>1. k - 1 \in 0..(n - 1)
    BY <1>1
  <2>2. \E x \in S : Place(S, R, x) = k - 1
    BY <1>3, <2>1
  <2> QED
    BY <2>2
<1>5. t = [k \in 1..n |-> T(k)]
  BY DEF Arranged
<1> HIDE DEF T, n, t
<1>6. t \in Seq(S) /\ Len(t) = n /\ \A k \in 1..n : t[k] = T(k)
  BY <1>1, <1>4, <1>5
<1>7. ASSUME NEW x \in S PROVE \E k \in 1..n : t[k] = x
  <2>1. Place(S, R, x) \in 0..(n - 1)
    BY PlaceCounts DEF n
  <2>2. PICK k \in 1..n : k - 1 = Place(S, R, x)
    <3>1. Place(S, R, x) + 1 \in 1..n /\ (Place(S, R, x) + 1) - 1 = Place(S, R, x)
      BY <1>1, <2>1
    <3> QED
      BY <3>1
  <2> QED
    BY <1>2, <1>4, <1>6, <2>2
<1>8. ASSUME NEW j \in 1..n, NEW k \in 1..n, j < k PROVE <<t[j], t[k]>> \in R
  <2>1. /\ t[j] \in S /\ t[k] \in S
        /\ Place(S, R, t[j]) = j - 1 /\ Place(S, R, t[k]) = k - 1
    BY <1>4, <1>6
  <2>2. j - 1 < k - 1 /\ j - 1 \in Int /\ k - 1 \in Int
    BY <1>8
  <2>3. t[j] # t[k] /\ <<t[k], t[j]>> \notin R
    <3>1. <<t[k], t[j]>> \in R => Place(S, R, t[k]) < Place(S, R, t[j])
      BY <2>1, PlaceGrows
    <3> QED
      BY <2>1, <2>2, <3>1
  <2> QED
    BY <2>1, <2>3 DEF StrictOrder
<1>9. \A k \in 1..n : t[k] \in S /\ Place(S, R, t[k]) = k - 1
  BY <1>4, <1>6
<1> QED
  BY <1>6, <1>7, <1>8, <1>9 DEF Enumerates, t, n

\* The elements before all others are arranged first.
LEMMA ArrangedPrefix ==
  ASSUME NEW T, NEW R, IsFiniteSet(T), StrictOrder(T, R), NEW S \in SUBSET T,
         \A x \in S, y \in T : <<y, x>> \in R => y \in S
  PROVE  /\ IsFiniteSet(S) /\ Cardinality(S) <= Cardinality(T)
         /\ \A k \in 1..Cardinality(S) : Arranged(S, R)[k] = Arranged(T, R)[k]
<1>1. IsFiniteSet(S) /\ Cardinality(S) <= Cardinality(T)
  BY FS_Subset
<1>2. StrictOrder(S, R)
  BY DEF StrictOrder
<1>3. Cardinality(S) \in Nat /\ Cardinality(T) \in Nat
  BY <1>1, FS_CardinalityType
<1>4. ASSUME NEW k \in 1..Cardinality(S) PROVE Arranged(S, R)[k] = Arranged(T, R)[k]
  <2>1. PICK x : x = Arranged(S, R)[k]
    OBVIOUS
  <2>2. x \in S /\ Place(S, R, x) = k - 1
    BY <1>1, <1>2, <2>1, ArrangedExists
  <2>3. Place(T, R, x) = k - 1
    <3>1. {y \in T : <<y, x>> \in R} = {y \in S : <<y, x>> \in R}
      BY <2>2
    <3> QED
      BY <2>2, <3>1 DEF Place
  <2>4. PICK z : z = Arranged(T, R)[k]
    OBVIOUS
  <2>5. z \in T /\ Place(T, R, z) = k - 1
    <3>1. k \in 1..Cardinality(T)
      BY <1>1, <1>3
    <3> QED
      BY <2>4, <3>1, ArrangedExists
  <2>6. x = z
    BY <2>2, <2>3, <2>5, PlaceIsUnique
  <2> QED
    BY <2>1, <2>4, <2>6
<1> QED
  BY <1>1, <1>4

OneLater(T, R, S, x) ==
  /\ IsFiniteSet(T) /\ Cardinality(T) = Cardinality(S) + 1
  /\ Cardinality(S) \in Nat
  /\ \A k \in 1..Cardinality(S) : Arranged(T, R)[k] = Arranged(S, R)[k]
  /\ Arranged(T, R)[Cardinality(S) + 1] = x

\* An element after all others is arranged last.
LEMMA ArrangedLast ==
  ASSUME NEW T, NEW R, StrictOrder(T, R), NEW S, IsFiniteSet(S), NEW x, x \notin S,
         T = S \cup {x}, \A y \in S : <<y, x>> \in R
  PROVE  OneLater(T, R, S, x)
<1>1. T = S \cup {x}
  OBVIOUS
<1>2. IsFiniteSet(T) /\ Cardinality(T) = Cardinality(S) + 1
  BY <1>1, FS_AddElement
<1>3. Cardinality(S) \in Nat
  BY FS_CardinalityType
<1>4. StrictOrder(T, R) /\ S \in SUBSET T /\ x \in T
  BY <1>1
<1>5. \A y \in S, z \in T : <<z, y>> \in R => z \in S
  <2>1. \A y \in S : <<x, y>> \notin R
    BY <1>4, Zenon DEF StrictOrder
  <2> QED
    BY <1>1, <2>1
<1>6. \A k \in 1..Cardinality(S) : Arranged(S, R)[k] = Arranged(T, R)[k]
  BY <1>2, <1>4, <1>5, ArrangedPrefix
<1>7. Place(T, R, x) = Cardinality(S)
  <2>1. {y \in T : <<y, x>> \in R} = S
    BY <1>1, <1>4 DEF StrictOrder
  <2> QED
    BY <2>1 DEF Place
<1>8. PICK z : z = Arranged(T, R)[Cardinality(S) + 1]
  OBVIOUS
<1>9. z \in T /\ Place(T, R, z) = Cardinality(S)
  <2>1. Cardinality(S) + 1 \in 1..Cardinality(T) /\ (Cardinality(S) + 1) - 1 = Cardinality(S)
    BY <1>2, <1>3
  <2> QED
    BY <1>2, <1>4, <1>8, <2>1, ArrangedExists
<1>10. z = x
  BY <1>2, <1>4, <1>7, <1>9, PlaceIsUnique
<1> QED
  BY <1>1, <1>2, <1>3, <1>6, <1>8, <1>10 DEF OneLater

\* There is only one such sequence.
LEMMA ArrangedUnique ==
  ASSUME NEW S, NEW R, NEW t, Enumerates(t, S, R),
         \A x, y \in S : ~(<<x, y>> \in R /\ <<y, x>> \in R)
  PROVE  /\ IsFiniteSet(S) /\ Cardinality(S) = Len(t)
         /\ Arranged(S, R) = t
<1> DEFINE n == Len(t)
<1>1. /\ n \in Nat /\ t \in [1..n -> S] /\ t \in Seq(S)
      /\ \A x \in S : \E k \in 1..n : t[k] = x
      /\ \A j, k \in 1..n : j < k => <<t[j], t[k]>> \in R
  BY DEF Enumerates
<1> HIDE DEF n
<1>2. ASSUME NEW j \in 1..n, NEW k \in 1..n
      PROVE  <<t[j], t[k]>> \in R <=> j < k
  <2>1. t[j] \in S /\ t[k] \in S
    BY <1>1
  <2>2. j < k \/ j = k \/ k < j
    BY <1>1
  <2> QED
    BY <1>1, <2>1, <2>2
<1>3. ASSUME NEW m \in 0..n, NEW T, T = {t[j] : j \in 1..m}
      PROVE  IsFiniteSet(T) /\ Cardinality(T) = m
  <2> DEFINE g == [j \in 1..m |-> t[j]]
  <2>1. m \in Nat /\ 1..m \subseteq 1..n
    BY <1>1
  <2>2. g \in [1..m -> T] /\ \A y \in T : \E j \in 1..m : g[j] = y
    BY <1>3
  <2>3. ASSUME NEW j \in 1..m, NEW k \in 1..m, g[j] = g[k] PROVE j = k
    <3>1. j \in 1..n /\ k \in 1..n /\ t[j] = t[k]
      BY <2>1, <2>3
    <3>2. <<t[j], t[k]>> \notin R /\ <<t[k], t[j]>> \notin R
      <4>1. t[j] \in S
        BY <1>1, <3>1
      <4> QED
        BY <3>1, <4>1
    <3>3. ~(j < k) /\ ~(k < j)
      BY <1>1, <3>1, <3>2
    <3> QED
      BY <2>1, <3>3
  <2>4. g \in Bijection(1..m, T)
    BY <2>2, <2>3 DEF Bijection, Injection, Surjection, IsInjective
  <2>5. IsFiniteSet(1..m) /\ Cardinality(1..m) = m
    BY <2>1, FS_Interval
  <2>6. ExistsBijection(1..m, T)
    BY <2>4 DEF ExistsBijection
  <2> HIDE DEF g
  <2> QED
    BY <2>5, <2>6, FS_Bijection
<1>4. IsFiniteSet(S) /\ Cardinality(S) = n
  <2>1. S = {t[j] : j \in 1..n}
    BY <1>1
  <2>2. n \in 0..n
    BY <1>1
  <2> QED
    BY <1>3, <2>1, <2>2
<1>5. ASSUME NEW k \in 1..n PROVE Place(S, R, t[k]) = k - 1
  <2>1. {y \in S : <<y, t[k]>> \in R} = {t[j] : j \in 1..(k - 1)}
    <3>1. ASSUME NEW y \in S, <<y, t[k]>> \in R PROVE \E j \in 1..(k - 1) : y = t[j]
      <4>1. PICK j \in 1..n : y = t[j]
        BY <1>1
      <4>2. j \in 1..(k - 1)
        BY <1>1, <1>2, <3>1, <4>1
      <4> QED
        BY <4>1, <4>2
    <3>2. ASSUME NEW j \in 1..(k - 1) PROVE t[j] \in S /\ <<t[j], t[k]>> \in R
      <4>1. j \in 1..n /\ j < k
        BY <1>1
      <4> QED
        BY <1>1, <4>1
    <3> QED
      BY <3>1, <3>2
  <2>2. k - 1 \in 0..n
    BY <1>1
  <2> QED
    BY <1>3, <2>1, <2>2 DEF Place
<1>6. ASSUME NEW k \in 1..n PROVE (CHOOSE x \in S : Place(S, R, x) = k - 1) = t[k]
  <2>1. t[k] \in S /\ Place(S, R, t[k]) = k - 1
    BY <1>1, <1>5
  <2>2. ASSUME NEW x \in S, Place(S, R, x) = k - 1 PROVE x = t[k]
    <3>1. PICK j \in 1..n : x = t[j]
      BY <1>1
    <3>2. j - 1 = k - 1
      BY <1>5, <2>2, <3>1
    <3>3. j = k
      BY <1>1, <3>2
    <3> QED
      BY <3>1, <3>3
  <2> QED
    BY <2>1, <2>2
<1>7. t = [k \in 1..n |-> t[k]]
  BY <1>1
<1>8. Arranged(S, R) = [k \in 1..n |-> t[k]]
  BY <1>4, <1>6 DEF Arranged
<1> QED
  BY <1>4, <1>7, <1>8 DEF n

LessThan == {p \in Int \X Int : p[1] < p[2]}

LEMMA LessThanIs ==
  ASSUME NEW S \in SUBSET Int
  PROVE  /\ \A x, y \in S : <<x, y>> \in LessThan <=> x < y
         /\ StrictOrder(S, LessThan)
         /\ \A x, y \in S : ~(<<x, y>> \in LessThan /\ <<y, x>> \in LessThan)
         /\ InOrder(S, <) = Arranged(S, LessThan)
<1>1. \A x, y \in S : <<x, y>> \in LessThan <=> x < y
  BY DEF LessThan
<1>2. \A x, y, z \in S :
        /\ ~(x < x) /\ (x = y \/ x < y \/ y < x)
        /\ x < y /\ y < z => x < z
  OBVIOUS
<1>3. StrictOrder(S, LessThan)
  BY <1>1, <1>2, Zenon DEF StrictOrder
<1>4. \A x, y \in S : ~(<<x, y>> \in LessThan /\ <<y, x>> \in LessThan)
  BY <1>3, Zenon DEF StrictOrder
<1>5. \A x \in S : {y \in S : y < x} = {y \in S : <<y, x>> \in LessThan}
  BY <1>1
<1>6. \A x \in S : Cardinality({y \in S : y < x}) = Place(S, LessThan, x)
  BY <1>5 DEF Place
<1> DEFINE F(k) == CHOOSE x \in S : Cardinality({y \in S : y < x}) = k - 1
           G(k) == CHOOSE x \in S : Place(S, LessThan, x) = k - 1
<1>7. \A k : F(k) = G(k)
  BY <1>6
<1>8. InOrder(S, <) = [k \in 1..Cardinality(S) |-> F(k)]
  BY DEF InOrder
<1>9. Arranged(S, LessThan) = [k \in 1..Cardinality(S) |-> G(k)]
  BY DEF Arranged
<1> HIDE DEF F, G
<1> QED
  BY <1>1, <1>3, <1>4, <1>7, <1>8, <1>9

-----------------------------------------------------------------------------
\* The file stays the same, and is one that may be analysed.

CaseInv == \E c \in Cases : file = c.file /\ request = c.request

LEMMA CaseFacts ==
  ASSUME CaseInv
  PROVE  /\ file.size \in Nat /\ file.kind \in Kinds /\ file.listed \in Seq(ListedSection)
         /\ file.kind = "elf" => HasDynamic(file)
         /\ file.kind = "pe" => HasAddresses(file) /\ HasResources(file) /\ HasImports(file)
         /\ IsPeTarget => \A i \in DOMAIN file.listed : file.listed[i].filepos \in Nat
         /\ request \in [strings : BOOLEAN, filtered : BOOLEAN]
<1>1. PICK c \in Cases : file = c.file /\ request = c.request
  BY DEF CaseInv
<1>2. file.size \in UInt64
  BY <1>1, CaseAssumption
<1>3. file.size \in Nat
  BY <1>2, WrapAssumption DEF UInt64
<1> QED
  BY <1>1, <1>3, CaseAssumption DEF IsPeTarget

LEMMA SectionFacts ==
  ASSUME CaseInv, NEW i \in 1..Len(file.listed)
  PROVE  LET s == file.listed[i] IN
         /\ s \in ListedSection
         /\ s.filepos \in Int /\ s.rawsize \in Nat /\ s.compressed \in Nat /\ s.size \in Nat
         /\ SizeOnDisk(s) \in Nat /\ s.hasContents \in BOOLEAN
         /\ IsPeTarget => s.filepos \in Nat
<1>1. file.listed[i] \in ListedSection /\ i \in DOMAIN file.listed
  BY CaseFacts
<1>2. IsPeTarget => file.listed[i].filepos \in Nat
  BY <1>1, CaseFacts
<1> QED
  BY <1>1, <1>2 DEF ListedSection, SizeOnDisk, FirstNonzero

LEMMA CaseInvInit == Init => CaseInv
BY DEF Init, CaseInv

LEMMA FileIsKept == [Next]_vars => file' = file /\ request' = request
<1> SUFFICES ASSUME [Next]_vars PROVE file' = file /\ request' = request
  OBVIOUS
<1>1. CASE CollectStrings
  BY <1>1 DEF CollectStrings, StringsNext, LeaveOut, ReadContents, ScanText, StringsOutOfMemory,
     NextPass, EndStrings, stringVars
<1>2. CASE CollectNeeded
  BY <1>2 DEF CollectNeeded, NeededNext, ReadDynamic, DynamicOutOfMemory, ResolveStrings,
     AddNeeded, NeededOutOfMemory, SetTexts, DieBehindFile, stringVars
<1>3. CASE CollectImports
  BY <1>3 DEF CollectImports, ImportsNext, EndImports, ReadDescriptor, SkipDescriptor,
     TakeLibrary, LibraryOutOfMemory, TakeThunk, ThunkOutOfMemory, EndThunks, CountExports,
     stringVars
<1>4. CASE CollectResources
  BY <1>4 DEF CollectResources, ResourcesNext, FindResources, LeaveDirectory, EnterDirectory,
     SkipEntry, RecordResource, ResourcesOutOfMemory, stringVars
<1>5. CASE Allocate \/ ReportSection \/ CountTrailingBytes \/ ReadFile \/ StartOverlay \/ ScanRule
           \/ EndSignatures \/ Finish \/ UNCHANGED vars
  BY <1>5 DEF Allocate, ReportSection, CountTrailingBytes, ReadFile, StartOverlay, ScanRule,
     EndSignatures, Finish, vars, collected, stringVars
<1> QED
  BY <1>1, <1>2, <1>3, <1>4, <1>5 DEF Next

LEMMA CaseInvNext == CaseInv /\ [Next]_vars => CaseInv'
BY FileIsKept DEF CaseInv

-----------------------------------------------------------------------------
\* The sections and what lies after them.

Gathering ==
  {"strings", "read", "dynamic", "needed", "imports", "delayed", "exports", "resources", "walk"}

\* e is where the first n sections end, on disk.
EndsAt(n, e) ==
  /\ \A i \in 1..n : file.listed[i].hasContents
       => file.listed[i].filepos + SizeOnDisk(file.listed[i]) <= e
  /\ \/ e = 0
     \/ \E i \in 1..n : /\ file.listed[i].hasContents
                        /\ e = file.listed[i].filepos + SizeOnDisk(file.listed[i])

SectionInv ==
  /\ section \in 0..Len(file.listed) /\ mappedEnd \in Nat
  /\ IsPeTarget => EndsAt(section, mappedEnd)
  /\ \/ trailing = None
     \/ /\ trailing = Some(Higher(file.size - mappedEnd, 0))
        /\ IsPeTarget /\ section = Len(file.listed)
  /\ pc \in {"allocate", "sections"} => trailing = None

\* What is found in the overlay, rule after rule.
HitsAreOrdered ==
  \A i \in DOMAIN hits :
    /\ hits[i].at >= The(overlay).offset
    /\ <<hits[i].rule, hits[i].at>> \in file.magics
    /\ \A j \in 1..(i - 1) :
         \/ hits[j].rule < hits[i].rule
         \/ hits[j].rule = hits[i].rule /\ hits[j].at < hits[i].at

Hit == [rule : Nat, at : Nat]

OverlayInv ==
  /\ \/ overlay = None
     \/ References # {} /\ overlay = Some([offset |-> LastEnd, size |-> file.size - LastEnd])
  /\ rule \in 1..(Len(Rules) + 1)
  /\ hits \in Seq(Hit) /\ Len(hits) <= MaxHits
  /\ HitsAreOrdered
  /\ pc \in {"allocate", "sections", "overlay"} \cup Gathering => overlay = None /\ hits = <<>>
  /\ pc = "signatures" => overlay # None /\ \A i \in DOMAIN hits : hits[i].rule < rule

\* The end of the last section is some section's, and none is beyond it.
LEMMA LastEndIs ==
  ASSUME CaseInv, References # {}
  PROVE  /\ LastEnd \in 0..file.size
         /\ \E i \in References : LastEnd = EndOf(file.listed[i])
         /\ \A i \in References : EndOf(file.listed[i]) <= LastEnd
<1> DEFINE S == {EndOf(file.listed[i]) : i \in References}
<1>1. file.size \in Nat
  BY CaseFacts
<1>2. ASSUME NEW i \in References PROVE EndOf(file.listed[i]) \in 0..file.size
  <2>1. i \in 1..Len(file.listed) /\ file.listed[i].filepos >= 0
    BY CaseFacts DEF References
  <2> QED
    BY <1>1, <2>1, SectionFacts DEF EndOf
<1>3. S \in SUBSET Nat /\ S # {} /\ \A x \in S : x <= file.size
  BY <1>1, <1>2
<1> HIDE DEF S
<1>4. \E x \in S : \A y \in S : y <= x
  BY <1>1, <1>3, GreatestExists
<1>5. \E x \in S : \A y \in S : x >= y
  BY <1>3, <1>4
<1>6. Max(S) \in S /\ \A y \in S : Max(S) >= y
  BY <1>5 DEF Max
<1>7. LastEnd = Max(S)
  BY DEF LastEnd, S
<1>8. \A y \in S : y <= LastEnd
  BY <1>3, <1>6, <1>7
<1> QED
  BY <1>2, <1>6, <1>7, <1>8 DEF S

\* The two places that work out where the sections end agree.
LEMMA EndsAgree ==
  ASSUME CaseInv, IsPeTarget, References # {}, NEW e \in Nat, EndsAt(Len(file.listed), e)
  PROVE  file.size - LastEnd = Higher(file.size - e, 0)
<1>1. file.size \in Nat /\ LastEnd \in 0..file.size /\ DOMAIN file.listed = 1..Len(file.listed)
  BY CaseFacts, LastEndIs
<1>2. ASSUME NEW i \in References
      PROVE  /\ i \in 1..Len(file.listed) /\ file.listed[i].hasContents
             /\ file.listed[i].filepos + SizeOnDisk(file.listed[i]) \in Nat
             /\ EndOf(file.listed[i]) =
                  IF file.listed[i].filepos + SizeOnDisk(file.listed[i]) > file.size THEN file.size
                  ELSE file.listed[i].filepos + SizeOnDisk(file.listed[i])
  <2> DEFINE s == file.listed[i]
  <2>1. i \in 1..Len(file.listed) /\ s.hasContents
    BY <1>1 DEF References
  <2>2. s.filepos \in Nat /\ SizeOnDisk(s) \in Nat
    BY <2>1, SectionFacts
  <2>3. EndOf(s) = IF s.filepos + SizeOnDisk(s) > file.size THEN file.size
                   ELSE s.filepos + SizeOnDisk(s)
    BY DEF EndOf, SizeOnDisk, FirstNonzero
  <2> QED
    BY <2>1, <2>2, <2>3
<1>3. PICK r \in References : LastEnd = EndOf(file.listed[r])
  BY LastEndIs
<1>4. LastEnd <= e
  <2>1. file.listed[r].filepos + SizeOnDisk(file.listed[r]) <= e
    BY <1>2 DEF EndsAt
  <2> QED
    BY <1>1, <1>2, <1>3, <2>1
<1>5. e <= LastEnd \/ (LastEnd = file.size /\ file.size <= e)
  <2>1. CASE e = 0
    BY <1>1, <2>1
  <2>2. CASE e # 0
    <3>1. PICK i \in 1..Len(file.listed) :
            /\ file.listed[i].hasContents
            /\ e = file.listed[i].filepos + SizeOnDisk(file.listed[i])
      BY <2>2 DEF EndsAt
    <3>2. i \in References
      <4>1. file.listed[i].filepos \in Nat
        BY SectionFacts
      <4> QED
        BY <1>1, <3>1, <4>1 DEF References
    <3>3. EndOf(file.listed[i]) <= LastEnd
      BY <3>2, LastEndIs
    <3>4. EndOf(file.listed[i]) = IF e > file.size THEN file.size ELSE e
      BY <1>2, <3>1, <3>2
    <3> QED
      BY <1>1, <3>3, <3>4
  <2> QED
    BY <2>1, <2>2
<1> QED
  BY <1>1, <1>4, <1>5 DEF Higher

LEMMA OverlayInvImplies == CaseInv /\ SectionInv /\ OverlayInv => OverlayIsTheRest
<1> SUFFICES ASSUME CaseInv, SectionInv, OverlayInv PROVE OverlayIsTheRest
  OBVIOUS
<1>1. ASSUME NEW o \in overlay, NEW n \in trailing PROVE o.size = n
  <2>1. References # {} /\ o = [offset |-> LastEnd, size |-> file.size - LastEnd]
    BY <1>1 DEF OverlayInv, None, Some
  <2>2. n = Higher(file.size - mappedEnd, 0) /\ IsPeTarget /\ EndsAt(Len(file.listed), mappedEnd)
    BY <1>1 DEF SectionInv, None, Some
  <2> QED
    BY <2>1, <2>2, EndsAgree DEF SectionInv
<1>2. ASSUME NEW o \in overlay PROVE o.offset + o.size = file.size
  <2>1. References # {} /\ o = [offset |-> LastEnd, size |-> file.size - LastEnd]
    BY <1>2 DEF OverlayInv, None, Some
  <2>2. LastEnd \in 0..file.size /\ file.size \in Nat
    BY <2>1, LastEndIs, CaseFacts
  <2> QED
    BY <2>1, <2>2
<1> QED
  BY <1>1, <1>2 DEF OverlayInv, HitsAreOrdered, OverlayIsTheRest

LEMMA SectionInvInit == CaseInv /\ Init => SectionInv
<1> SUFFICES ASSUME CaseInv, Init PROVE SectionInv
  OBVIOUS
<1>1. section = 0 /\ mappedEnd = 0 /\ trailing = None
  BY DEF Init
<1>2. EndsAt(0, 0)
  BY DEF EndsAt
<1>3. Len(file.listed) \in Nat
  BY CaseFacts
<1> QED
  BY <1>1, <1>2, <1>3 DEF SectionInv

LEMMA OverlayInvInit == Init => OverlayInv
<1> SUFFICES ASSUME Init PROVE OverlayInv
  OBVIOUS
<1>1. overlay = None /\ rule = 1 /\ hits = <<>> /\ pc = "allocate"
  BY DEF Init
<1>2. Len(Rules) \in Nat /\ MaxHits \in Nat
  BY RuleAssumption
<1>3. HitsAreOrdered
  BY <1>1 DEF HitsAreOrdered
<1> QED
  BY <1>1, <1>2, <1>3 DEF OverlayInv

\* The steps that collect what is not in the section table.
LEMMA GatheringSteps ==
  ASSUME CollectStrings \/ ReadFile \/ CollectNeeded \/ CollectImports \/ CollectResources
  PROVE  /\ UNCHANGED <<file, sectionVars, overlayVars>>
         /\ pc \in Gathering
         /\ pc' \in Gathering \cup {"overlay", "reported", "failed", "died"}
<1>1. CASE CollectStrings
  <2>1. UNCHANGED <<file, sectionVars, overlayVars>>
    BY <1>1 DEF CollectStrings, StringsNext, LeaveOut, ReadContents, ScanText, StringsOutOfMemory,
       NextPass, EndStrings
  <2>2. pc \in Gathering /\ pc' \in Gathering \cup {"overlay", "reported", "failed"}
    BY <1>1 DEF CollectStrings, StringsNext, LeaveOut, ReadContents, ScanText, StringsOutOfMemory,
       NextPass, EndStrings, Extracting, Gathering
  <2> QED
    BY <2>1, <2>2
<1>2. CASE ReadFile
  BY <1>2 DEF ReadFile, Gathering
<1>3. CASE CollectNeeded
  <2>1. UNCHANGED <<file, sectionVars, overlayVars>>
    BY <1>3 DEF CollectNeeded, NeededNext, ReadDynamic, DynamicOutOfMemory, ResolveStrings,
       AddNeeded, NeededOutOfMemory, SetTexts, DieBehindFile
  <2>2. pc \in Gathering /\ pc' \in Gathering \cup {"overlay", "reported", "failed", "died"}
    BY <1>3 DEF CollectNeeded, NeededNext, ReadDynamic, DynamicOutOfMemory, ResolveStrings,
       AddNeeded, NeededOutOfMemory, SetTexts, DieBehindFile, Gathering
  <2> QED
    BY <2>1, <2>2
<1>4. CASE CollectImports
  <2>1. UNCHANGED <<file, sectionVars, overlayVars>>
    BY <1>4 DEF CollectImports, ImportsNext, EndImports, ReadDescriptor, SkipDescriptor,
       TakeLibrary, LibraryOutOfMemory, TakeThunk, ThunkOutOfMemory, EndThunks, CountExports
  <2>2. pc \in Gathering /\ pc' \in Gathering \cup {"overlay", "reported", "failed"}
    BY <1>4 DEF CollectImports, ImportsNext, EndImports, ReadDescriptor, SkipDescriptor,
       TakeLibrary, LibraryOutOfMemory, TakeThunk, ThunkOutOfMemory, EndThunks, CountExports,
       Gathering, Directories
  <2> QED
    BY <2>1, <2>2
<1>5. CASE CollectResources
  <2>1. UNCHANGED <<file, sectionVars, overlayVars>>
    BY <1>5 DEF CollectResources, ResourcesNext, FindResources, LeaveDirectory, EnterDirectory,
       SkipEntry, RecordResource, ResourcesOutOfMemory
  <2>2. pc \in Gathering /\ pc' \in Gathering \cup {"overlay", "reported", "failed"}
    BY <1>5 DEF CollectResources, ResourcesNext, FindResources, LeaveDirectory, EnterDirectory,
       SkipEntry, RecordResource, ResourcesOutOfMemory, Gathering
  <2> QED
    BY <2>1, <2>2
<1> QED
  BY <1>1, <1>2, <1>3, <1>4, <1>5

LEMMA SectionKeeps ==
  ASSUME SectionInv, UNCHANGED <<file, sectionVars>>,
         pc' \in {"allocate", "sections"} => trailing = None
  PROVE  SectionInv'
BY DEF SectionInv, sectionVars, EndsAt, SizeOnDisk, IsPeTarget, Higher, Some

LEMMA ReportSectionStep ==
  ASSUME CaseInv, SectionInv, ReportSection
  PROVE  SectionInv'
<1> DEFINE n == section + 1
           s == file.listed[n]
           t == s.filepos + SizeOnDisk(s)
<1>1. /\ section < Len(file.listed) /\ section' = n /\ file' = file /\ pc' = pc /\ trailing' = trailing
      /\ pc = "sections"
      /\ mappedEnd' = IF IsPeTarget /\ s.hasContents THEN Higher(mappedEnd, t) ELSE mappedEnd
  BY DEF ReportSection
<1>2. section \in Nat /\ section <= Len(file.listed) /\ mappedEnd \in Nat /\ Len(file.listed) \in Nat
  BY CaseFacts DEF SectionInv
<1>3. n \in 1..Len(file.listed)
  BY <1>1, <1>2
<1>4. IsPeTarget => t \in Nat
  BY <1>3, SectionFacts
<1>5. IsPeTarget' <=> IsPeTarget
  BY <1>1 DEF IsPeTarget
<1>6. mappedEnd' \in Nat
  BY <1>1, <1>2, <1>4 DEF Higher
<1>7. ASSUME IsPeTarget PROVE EndsAt(n, mappedEnd')
  <2>1. EndsAt(section, mappedEnd)
    BY <1>7 DEF SectionInv
  <2>2. mappedEnd <= mappedEnd' /\ (s.hasContents => t <= mappedEnd')
    BY <1>1, <1>2, <1>4, <1>7 DEF Higher
  <2>3. mappedEnd' = mappedEnd \/ (s.hasContents /\ mappedEnd' = t)
    BY <1>1, <1>7 DEF Higher
  <2>4. \A i \in 1..n : i \in 1..section \/ i = n
    BY <1>2
  <2>5. ASSUME NEW i \in 1..n, file.listed[i].hasContents
        PROVE  file.listed[i].filepos + SizeOnDisk(file.listed[i]) <= mappedEnd'
    <3>1. CASE i = n
      BY <2>2, <2>5, <3>1
    <3>2. CASE i \in 1..section
      <4>1. file.listed[i].filepos + SizeOnDisk(file.listed[i]) <= mappedEnd
        BY <2>1, <2>5, <3>2 DEF EndsAt
      <4>2. i \in 1..Len(file.listed)
        BY <1>2, <3>2
      <4>3. file.listed[i].filepos + SizeOnDisk(file.listed[i]) \in Nat
        BY <1>7, <4>2, SectionFacts
      <4> QED
        BY <1>2, <1>6, <2>2, <4>1, <4>3
    <3> QED
      BY <2>4, <3>1, <3>2
  <2>6. n \in 1..n /\ 1..section \subseteq 1..n
    BY <1>2
  <2>7. mappedEnd' = 0 \/ \E i \in 1..n :
          file.listed[i].hasContents /\ mappedEnd' = file.listed[i].filepos + SizeOnDisk(file.listed[i])
    <3>1. CASE mappedEnd' = mappedEnd
      BY <2>1, <2>6, <3>1 DEF EndsAt
    <3>2. CASE s.hasContents /\ mappedEnd' = t
      BY <2>6, <3>2
    <3> QED
      BY <2>3, <3>1, <3>2
  <2> QED
    BY <2>5, <2>7 DEF EndsAt
<1>8. trailing = None
  BY <1>1 DEF SectionInv
<1> HIDE DEF n, s, t
<1>9. IsPeTarget' => EndsAt(section, mappedEnd)'
  BY <1>1, <1>5, <1>7 DEF EndsAt, SizeOnDisk
<1> QED
  BY <1>1, <1>3, <1>6, <1>8, <1>9 DEF SectionInv, n

LEMMA SectionInvNext == CaseInv /\ SectionInv /\ [Next]_vars => SectionInv'
<1> SUFFICES ASSUME CaseInv, SectionInv, [Next]_vars PROVE SectionInv'
  OBVIOUS
<1>1. CASE CountTrailingBytes
  <2>1. /\ UNCHANGED <<file, section, mappedEnd>> /\ section = Len(file.listed) /\ pc' = "strings"
        /\ trailing' = IF IsPeTarget THEN Some(Higher(file.size - mappedEnd, 0)) ELSE None
    BY <1>1 DEF CountTrailingBytes
  <2> QED
    BY <2>1 DEF SectionInv, EndsAt, SizeOnDisk, IsPeTarget, Higher, Some
<1>2. CASE Allocate
  BY <1>2, SectionKeeps DEF Allocate, SectionInv
<1>3. CASE CollectStrings \/ ReadFile \/ CollectNeeded \/ CollectImports \/ CollectResources
  <2>1. pc' \notin {"allocate", "sections"} /\ UNCHANGED <<file, sectionVars>>
    BY <1>3, GatheringSteps DEF Gathering
  <2> QED
    BY <2>1, SectionKeeps
<1>4. CASE StartOverlay \/ ScanRule \/ EndSignatures \/ Finish
  <2>1. pc' \notin {"allocate", "sections"} /\ UNCHANGED <<file, sectionVars>>
    BY <1>4 DEF StartOverlay, ScanRule, EndSignatures, Finish
  <2> QED
    BY <2>1, SectionKeeps
<1>5. CASE UNCHANGED vars
  BY <1>5, SectionKeeps DEF vars, SectionInv
<1> QED
  BY <1>1, <1>2, <1>3, <1>4, <1>5, ReportSectionStep DEF Next

\* OverlayInv does not depend on the lists that are collected.
LEMMA OverlayKeeps ==
  ASSUME OverlayInv, UNCHANGED <<file, overlayVars>>,
         pc' \in {"allocate", "sections", "overlay"} \cup Gathering =>
           overlay = None /\ hits = <<>>,
         pc' # "signatures"
  PROVE  OverlayInv'
<1>1. References' = References /\ LastEnd' = LastEnd
  BY DEF References, LastEnd, EndOf
<1>2. overlay' = overlay /\ rule' = rule /\ hits' = hits /\ file' = file
  BY DEF overlayVars
<1>3. HitsAreOrdered'
  BY <1>2 DEF HitsAreOrdered, OverlayInv
<1> QED
  BY <1>1, <1>2, <1>3 DEF OverlayInv

LEMMA StartOverlayStep ==
  ASSUME OverlayInv, StartOverlay
  PROVE  OverlayInv'
<1>1. /\ pc = "overlay" /\ pc' \in {"hints", "signatures"} /\ file' = file /\ rule' = rule /\ hits' = hits
      /\ IF References = {} THEN pc' = "hints" /\ overlay' = overlay
         ELSE overlay' = Some([offset |-> LastEnd, size |-> file.size - LastEnd])
  BY DEF StartOverlay
<1>2. References' = References /\ LastEnd' = LastEnd
  BY <1>1 DEF References, LastEnd, EndOf
<1>3. hits = <<>> /\ overlay = None
  BY <1>1 DEF OverlayInv
<1>4. DOMAIN hits = {}
  BY <1>3
<1>5. HitsAreOrdered'
  BY <1>1, <1>4 DEF HitsAreOrdered
<1>6. overlay' = None \/ (References # {} /\ overlay' = Some([offset |-> LastEnd, size |-> file.size - LastEnd]))
  BY <1>1, <1>3
<1>7. pc' = "signatures" => overlay' # None /\ \A i \in DOMAIN hits : hits[i].rule < rule
  BY <1>1, <1>4 DEF Some, None
<1>8. pc' \notin {"allocate", "sections", "overlay"} \cup Gathering
  BY <1>1 DEF Gathering
<1> QED
  BY <1>1, <1>2, <1>5, <1>6, <1>7, <1>8 DEF OverlayInv

\* The occurrences of a magic in the overlay, in the order of the file.
LEMMA OccurrencesInOrder ==
  ASSUME CaseInv, OverlayInv, overlay # None, NEW r \in DOMAIN Rules
  PROVE  LET all == InOrder(Occurrences(r), <)
         IN  /\ all \in Seq(Nat)
             /\ \A k \in 1..Len(all) : /\ all[k] >= The(overlay).offset
                                       /\ <<r, all[k]>> \in file.magics
             /\ \A j, k \in 1..Len(all) : j < k => all[j] < all[k]
<1> DEFINE S == Occurrences(r)
           all == InOrder(S, <)
<1>1. /\ References # {} /\ overlay = Some([offset |-> LastEnd, size |-> file.size - LastEnd])
      /\ LastEnd \in 0..file.size /\ file.size \in Nat
  BY LastEndIs, CaseFacts DEF OverlayInv
<1>2. The(overlay).offset = LastEnd
  <2>1. PICK x : x = [offset |-> LastEnd, size |-> file.size - LastEnd]
    OBVIOUS
  <2>2. overlay = {x}
    BY <1>1, <2>1 DEF Some
  <2>3. The(overlay) = x
    BY <2>2 DEF The
  <2> QED
    BY <2>1, <2>3
<1>3. Rules[r] \in Nat /\ file.size - Rules[r] \in Int
  BY <1>1, RuleAssumption
<1>4. S \in SUBSET Nat /\ \A x \in S : x >= LastEnd /\ <<r, x>> \in file.magics /\ x <= file.size
  BY <1>1, <1>2, <1>3 DEF Occurrences
<1> HIDE DEF S
<1>5. IsFiniteSet(S)
  BY <1>1, <1>4, FS_BoundedSetOfNaturals
<1>6. S \in SUBSET Int
  BY <1>4
<1>7. Enumerates(all, S, LessThan) /\ \A x, y \in S : <<x, y>> \in LessThan <=> x < y
  <2>1. all = Arranged(S, LessThan) /\ StrictOrder(S, LessThan)
        /\ \A x, y \in S : <<x, y>> \in LessThan <=> x < y
    BY <1>6, LessThanIs
  <2>2. Enumerates(Arranged(S, LessThan), S, LessThan)
    BY <1>5, <2>1, ArrangedExists
  <2> QED
    BY <2>1, <2>2
<1> HIDE DEF all
<1>8. all \in Seq(S) /\ \A j, k \in 1..Len(all) : j < k => <<all[j], all[k]>> \in LessThan
  BY <1>7 DEF Enumerates
<1>9. all \in Seq(Nat) /\ \A k \in 1..Len(all) : all[k] \in S
  <2>1. \A k \in 1..Len(all) : all[k] \in S
    BY <1>8
  <2>2. S \subseteq Nat
    BY <1>4
  <2> QED
    BY <1>8, <2>1, <2>2, WiderSeq
<1> QED
  BY <1>2, <1>4, <1>7, <1>8, <1>9 DEF all, S

LEMMA ScanRuleStep ==
  ASSUME CaseInv, OverlayInv, ScanRule
  PROVE  OverlayInv'
<1> DEFINE all == InOrder(Occurrences(rule), <)
           m == IF Len(all) < Room THEN Len(all) ELSE Room
           some == SubSeq(all, 1, m)
<1>1. /\ pc = "signatures" /\ rule <= Len(Rules) /\ file' = file /\ overlay' = overlay
  BY DEF ScanRule
<1>2. PICK n \in 0..Len(some) :
        /\ hits' = hits \o [i \in 1..n |-> [rule |-> rule, at |-> some[i]]]
        /\ \/ n = Len(some) /\ rule' = rule + 1 /\ pc' = pc
           \/ pc' = "hints" /\ rule' = rule
  BY DEF ScanRule
<1> HIDE DEF all, m, some
<1>3. /\ overlay # None /\ rule \in DOMAIN Rules /\ rule \in Nat /\ hits \in Seq(Hit)
      /\ Len(hits) \in 0..MaxHits /\ MaxHits \in Nat /\ rule + 1 \in 1..(Len(Rules) + 1)
      /\ rule \in 1..(Len(Rules) + 1)
  <2>1. overlay # None /\ rule \in 1..(Len(Rules) + 1) /\ hits \in Seq(Hit) /\ Len(hits) <= MaxHits
    BY <1>1 DEF OverlayInv
  <2>2. Rules \in Seq(Nat \ {0}) /\ MaxHits \in Nat
    BY RuleAssumption
  <2>3. Len(Rules) \in Nat /\ DOMAIN Rules = 1..Len(Rules)
    BY <2>2
  <2>4. Len(hits) \in Nat
    BY <2>1
  <2>5. rule \in Nat /\ rule \in 1..Len(Rules) /\ rule + 1 \in 1..(Len(Rules) + 1)
    BY <1>1, <2>1, <2>3
  <2> QED
    BY <2>1, <2>2, <2>3, <2>4, <2>5
<1>4. /\ all \in Seq(Nat)
      /\ \A k \in 1..Len(all) : /\ all[k] >= The(overlay).offset /\ <<rule, all[k]>> \in file.magics
      /\ \A j, k \in 1..Len(all) : j < k => all[j] < all[k]
  BY <1>3, OccurrencesInOrder DEF all
<1>5. m \in 0..Len(all) /\ m <= MaxHits - Len(hits) /\ Len(all) \in Nat
  BY <1>3, <1>4 DEF Room, m
<1>6. some \in Seq(Nat) /\ Len(some) = m /\ \A k \in 1..m : some[k] = all[k]
  BY <1>4, <1>5 DEF some
<1> DEFINE new == [i \in 1..n |-> [rule |-> rule, at |-> some[i]]]
           h == Len(hits)
<1>7. n \in Nat /\ n <= m /\ h \in Nat /\ \A k \in 1..n : k \in 1..Len(all) /\ some[k] = all[k]
  BY <1>3, <1>5, <1>6
<1>8. /\ new \in Seq(Hit) /\ Len(new) = n
      /\ \A k \in 1..n : new[k].rule = rule /\ new[k].at = all[k]
  <2>1. \A k \in 1..n : some[k] \in Nat
    BY <1>4, <1>7
  <2>2. \A k \in 1..n : [rule |-> rule, at |-> some[k]] \in Hit
    BY <1>3, <2>1 DEF Hit
  <2>3. new = [i \in 1..n |-> [rule |-> rule, at |-> some[i]]]
    OBVIOUS
  <2> HIDE DEF new
  <2>4. new \in [1..n -> Hit]
    BY <2>2, <2>3
  <2>5. new \in Seq(Hit) /\ Len(new) = n
    BY <1>7, <2>4
  <2>6. \A k \in 1..n : new[k].rule = rule /\ new[k].at = all[k]
    BY <1>7, <2>3
  <2> QED
    BY <2>5, <2>6
<1> HIDE DEF new
<1>9. /\ hits' \in Seq(Hit) /\ Len(hits') = h + n
      /\ \A k \in 1..h : hits'[k] = hits[k]
      /\ \A k \in 1..n : hits'[h + k] = new[k]
  <2>1. hits' = hits \o new
    BY <1>2 DEF new
  <2>2. \A s, t \in Seq(Hit) : /\ s \o t \in Seq(Hit)
                               /\ Len(s \o t) = Len(s) + Len(t)
                               /\ \A k \in 1..Len(s) : (s \o t)[k] = s[k]
                               /\ \A k \in 1..Len(t) : (s \o t)[Len(s) + k] = t[k]
    BY ConcatIs
  <2>3. hits \in Seq(Hit) /\ new \in Seq(Hit) /\ Len(new) = n
    BY <1>3, <1>8
  <2> HIDE DEF h
  <2>4. /\ hits \o new \in Seq(Hit) /\ Len(hits \o new) = Len(hits) + n
        /\ \A k \in 1..Len(hits) : (hits \o new)[k] = hits[k]
        /\ \A k \in 1..n : (hits \o new)[Len(hits) + k] = new[k]
    <3>1. PICK x \in Seq(Hit), y \in Seq(Hit) : x = hits /\ y = new
      BY <2>3
    <3> QED
      BY <2>2, <2>3, <3>1
  <2> QED
    BY <2>1, <2>4 DEF h
<1>10. \A k \in 1..h : hits[k].rule < rule /\ hits[k].rule \in Nat
  <2>1. \A k \in 1..h : hits[k] \in Hit
    BY <1>3
  <2> QED
    BY <1>1, <1>3, <2>1 DEF OverlayInv, Hit
<1>11. DOMAIN hits' = 1..(h + n) /\ DOMAIN hits = 1..h
  BY <1>3, <1>9
<1>12. ASSUME NEW i \in 1..(h + n)
       PROVE  \/ i \in 1..h /\ hits'[i] = hits[i]
              \/ i - h \in 1..n /\ hits'[i].rule = rule /\ hits'[i].at = all[i - h]
  <2>1. i \in 1..h \/ (i - h \in 1..n /\ i = h + (i - h))
    BY <1>7
  <2> QED
    BY <1>8, <1>9, <2>1
<1>13. HitsAreOrdered'
  <2> SUFFICES ASSUME NEW i \in 1..(h + n)
               PROVE  /\ hits'[i].at >= The(overlay).offset
                      /\ <<hits'[i].rule, hits'[i].at>> \in file.magics
                      /\ \A j \in 1..(i - 1) :
                           \/ hits'[j].rule < hits'[i].rule
                           \/ hits'[j].rule = hits'[i].rule /\ hits'[j].at < hits'[i].at
    BY <1>1, <1>11 DEF HitsAreOrdered
  <2>1. CASE i \in 1..h
    <3>1. \A j \in 1..(i - 1) : j \in 1..h
      BY <1>7, <2>1
    <3> QED
      BY <1>9, <1>11, <2>1, <3>1 DEF OverlayInv, HitsAreOrdered
  <2>2. CASE i \notin 1..h
    <3>1. i - h \in 1..n /\ hits'[i].rule = rule /\ hits'[i].at = all[i - h]
      BY <1>12, <2>2
    <3>2. ASSUME NEW j \in 1..(i - 1)
          PROVE  \/ hits'[j].rule < hits'[i].rule
                 \/ hits'[j].rule = hits'[i].rule /\ hits'[j].at < hits'[i].at
      <4>1. j \in 1..(h + n)
        BY <1>7
      <4>2. CASE j \in 1..h
        BY <1>9, <1>10, <3>1, <4>2
      <4>3. CASE j \notin 1..h
        <5>1. j - h \in 1..n /\ hits'[j].rule = rule /\ hits'[j].at = all[j - h]
          BY <1>12, <4>1, <4>3
        <5>2. j - h < i - h
          BY <1>7
        <5> QED
          BY <1>4, <1>7, <3>1, <5>1, <5>2
      <4> QED
        BY <4>2, <4>3
    <3> QED
      BY <1>4, <1>7, <3>1, <3>2
  <2> QED
    BY <2>1, <2>2
<1>14. Len(hits') <= MaxHits
  BY <1>3, <1>5, <1>7, <1>9
<1>15. rule' \in 1..(Len(Rules) + 1) /\ pc' \in {"signatures", "hints"}
       /\ (pc' = "signatures" => rule' = rule + 1)
  BY <1>1, <1>2, <1>3
<1>16. pc' = "signatures" => \A i \in DOMAIN hits' : hits'[i].rule < rule'
  <2> SUFFICES ASSUME pc' = "signatures", NEW i \in 1..(h + n) PROVE hits'[i].rule < rule + 1
    BY <1>11, <1>15
  <2> QED
    BY <1>3, <1>10, <1>12
<1>17. References' = References /\ LastEnd' = LastEnd
  BY <1>1 DEF References, LastEnd, EndOf
<1>18. pc' \notin {"allocate", "sections", "overlay"} \cup Gathering
  BY <1>15 DEF Gathering
<1> QED
  BY <1>1, <1>3, <1>9, <1>13, <1>14, <1>15, <1>16, <1>17, <1>18 DEF OverlayInv

LEMMA OverlayInvNext == CaseInv /\ OverlayInv /\ [Next]_vars => OverlayInv'
<1> SUFFICES ASSUME CaseInv, OverlayInv, [Next]_vars PROVE OverlayInv'
  OBVIOUS
<1>1. CASE Allocate \/ ReportSection \/ CountTrailingBytes
  <2>1. /\ UNCHANGED <<file, overlayVars>> /\ pc \in {"allocate", "sections"}
        /\ pc' \in {"sections", "strings", "failed"}
    BY <1>1 DEF Allocate, ReportSection, CountTrailingBytes
  <2> QED
    BY <2>1, OverlayKeeps DEF OverlayInv
<1>2. CASE CollectStrings \/ ReadFile \/ CollectNeeded \/ CollectImports \/ CollectResources
  <2>1. UNCHANGED <<file, overlayVars>> /\ overlay = None /\ hits = <<>> /\ pc' # "signatures"
    BY <1>2, GatheringSteps DEF OverlayInv, Gathering
  <2> QED
    BY <2>1, OverlayKeeps
<1>3. CASE EndSignatures \/ Finish
  <2>1. UNCHANGED <<file, overlayVars>> /\ pc' \in {"hints", "reported"}
    BY <1>3 DEF EndSignatures, Finish
  <2> QED
    BY <2>1, OverlayKeeps DEF Gathering
<1>4. CASE UNCHANGED vars
  <2>1. UNCHANGED <<file, overlayVars, pc>>
    BY <1>4 DEF vars
  <2>2. References' = References /\ LastEnd' = LastEnd
    BY <2>1 DEF References, LastEnd, EndOf
  <2> QED
    BY <2>1, <2>2 DEF OverlayInv, HitsAreOrdered, overlayVars
<1> QED
  BY <1>1, <1>2, <1>3, <1>4, StartOverlayStep, ScanRuleStep DEF Next

(***************************************************************************)
(* collect_overlay_analysis and build_analysis_report, for every section   *)
(* table: the overlay is what the trailing bytes are counted from, and the *)
(* signatures found lie in it, in order and each once.                     *)
(***************************************************************************)
THEOREM OverlaysAreTheRest == Spec => []OverlayIsTheRest
<1>1. Init => CaseInv /\ SectionInv /\ OverlayInv
  BY CaseInvInit, SectionInvInit, OverlayInvInit
<1> QED
  BY <1>1, CaseInvNext, SectionInvNext, OverlayInvNext, OverlayInvImplies, PTL DEF Spec

-----------------------------------------------------------------------------
\* What the strings of a section are.

LEMMA LowestIs ==
  ASSUME NEW S \in SUBSET Nat, S # {}
  PROVE  Lowest(S) \in S /\ \A x \in S : Lowest(S) <= x
BY LeastExists DEF Lowest

Encodings == {"ascii", "utf16le", "utf16be"}

LEMMA PassesAre ==
  /\ Passes(file) \in Seq(Encodings) /\ Len(Passes(file)) \in Nat \ {0}
  /\ DOMAIN Passes(file) = 1..Len(Passes(file))
<1>1. \A x, y, z \in Encodings : <<x, y>> \in Seq(Encodings) /\ <<x, y, z>> \in Seq(Encodings)
  OBVIOUS
<1>2. {"ascii", "utf16le", "utf16be"} \subseteq Encodings
  BY DEF Encodings
<1>3. /\ Passes(file) \in Seq(Encodings)
      /\ Passes(file) \in {<<"ascii", "utf16le">>, <<"ascii", "utf16be">>,
                           <<"ascii", "utf16le", "utf16be">>}
  BY <1>1, <1>2 DEF Passes
<1> QED
  BY <1>3

\* The characters of a run follow one another, and none follows the run.
LEMMA CountIs ==
  ASSUME NEW b, Len(b) \in Nat, NEW e \in Encodings, NEW o \in Nat
  PROVE  /\ Count(b, e, o) \in Nat
         /\ ~CharAt(b, e, o + Count(b, e, o) * Width(e))
         /\ \A k \in Nat : k < Count(b, e, o) => CharAt(b, e, o + k * Width(e))
         /\ Count(b, e, o) # 0 => o + Count(b, e, o) * Width(e) <= Len(b)
<1> DEFINE S == {k \in 0..Len(b) : ~CharAt(b, e, o + k * Width(e))}
           n == Count(b, e, o)
<1>1. Width(e) \in {1, 2}
  BY DEF Width
<1>2. \A k \in Nat : o + k * Width(e) \in Nat /\ k <= k * Width(e)
  BY <1>1
<1>3. Len(b) \in S
  <2>1. o + Len(b) * Width(e) + Width(e) > Len(b)
    BY <1>1
  <2>2. \A x : CharAt(b, e, x) => x + Width(e) <= Len(b)
    BY DEF CharAt
  <2>3. o + Len(b) * Width(e) + Width(e) \in Nat
    BY <1>1
  <2>4. ~CharAt(b, e, o + Len(b) * Width(e))
    BY <2>1, <2>2, <2>3
  <2> QED
    BY <2>4
<1>4. S \in SUBSET Nat /\ S # {}
  BY <1>3
<1>5. Lowest(S) \in S /\ \A x \in S : Lowest(S) <= x
  <2> HIDE DEF S
  <2> QED
    BY <1>4, LowestIs
<1>6. n = Lowest(S)
  BY DEF Count
<1>7. n \in 0..Len(b) /\ ~CharAt(b, e, o + n * Width(e))
  BY <1>5, <1>6
<1>8. \A k \in 0..Len(b) : CharAt(b, e, o + k * Width(e)) \/ n <= k
  BY <1>5, <1>6
<1> HIDE DEF n, S
<1>9. ASSUME NEW k \in Nat, k < n PROVE CharAt(b, e, o + k * Width(e))
  BY <1>7, <1>8, <1>9
<1>10. ASSUME n # 0 PROVE o + n * Width(e) <= Len(b)
  <2>1. CharAt(b, e, o + (n - 1) * Width(e)) /\ n - 1 \in Nat
    BY <1>7, <1>9, <1>10
  <2>2. o + (n - 1) * Width(e) + Width(e) <= Len(b)
    BY <2>1 DEF CharAt
  <2>3. o + (n - 1) * Width(e) + Width(e) = o + n * Width(e)
    BY <1>1, <1>7
  <2> QED
    BY <2>2, <2>3
<1> QED
  BY <1>7, <1>9, <1>10 DEF n

\* What follows a character of a run is the rest of the run.
LEMMA CountFromNext ==
  ASSUME NEW b, Len(b) \in Nat, NEW e \in Encodings, NEW o \in Nat, Count(b, e, o) # 0
  PROVE  Count(b, e, o + Width(e)) = Count(b, e, o) - 1
<1> DEFINE n == Count(b, e, o)
           m == Count(b, e, o + Width(e))
           At(k) == o + k * Width(e)
<1>1. Width(e) \in {1, 2}
  BY DEF Width
<1>2. \A k \in Nat : (o + Width(e)) + k * Width(e) = At(k + 1)
  BY <1>1
<1>3. /\ n \in Nat /\ ~CharAt(b, e, At(n)) /\ \A k \in Nat : k < n => CharAt(b, e, At(k))
  BY CountIs
<1>4. /\ m \in Nat /\ ~CharAt(b, e, (o + Width(e)) + m * Width(e))
      /\ \A k \in Nat : k < m => CharAt(b, e, (o + Width(e)) + k * Width(e))
  <2>1. o + Width(e) \in Nat
    BY <1>1
  <2> QED
    BY <2>1, CountIs
<1> HIDE DEF n, m, At
<1>5. ~CharAt(b, e, At(m + 1)) /\ \A k \in Nat : k < m => CharAt(b, e, At(k + 1))
  BY <1>2, <1>4
<1>6. n <= m + 1
  BY <1>3, <1>4, <1>5
<1>7. n # 0
  BY DEF n
<1>8. ~(n - 1 < m)
  <2>1. n - 1 \in Nat /\ (n - 1) + 1 = n
    BY <1>3, <1>7
  <2> QED
    BY <1>3, <1>5, <2>1
<1>9. m = n - 1
  BY <1>3, <1>4, <1>6, <1>8
<1> QED
  BY <1>9 DEF m, n

\* No UTF-16 character begins at the second byte of another one.
LEMMA NoCharInside ==
  ASSUME NEW b, Len(b) \in Nat, NEW e \in Encodings, e # "ascii", NEW o \in Nat,
         CharAt(b, e, o)
  PROVE  ~CharAt(b, e, o + 1)
<1>1. (o + 1) + 1 = o + 2 /\ ~(0 > 0)
  OBVIOUS
<1>2. CASE e = "utf16le"
  <2>1. b[o + 2] = 0
    BY <1>2 DEF CharAt
  <2>2. ~Char(b[(o + 1) + 1])
    BY <1>1, <2>1 DEF Char
  <2> QED
    BY <1>2, <2>2 DEF CharAt
<1>3. CASE e = "utf16be"
  <2>1. Char(b[o + 2])
    BY <1>3 DEF CharAt
  <2>2. b[(o + 1) + 1] # 0
    BY <1>1, <2>1 DEF Char
  <2> QED
    BY <1>3, <2>2 DEF CharAt
<1> QED
  BY <1>2, <1>3 DEF Encodings

\* The offsets where the strings of a text begin, and those before an offset.
Begins(b, e) == {o \in 0..Len(b) : BeginsText(b, e, o) /\ Kept(b, e, o)}
Gone(b, e, m) == {o \in Begins(b, e) : o < m}

\* Where a scan may stand: at no place from which a longer text was passed.
ScanPosition(b, e, o) ==
  IF e = "ascii" THEN ~CharAt(b, e, o - 1)
  ELSE /\ CharAt(b, e, o - 1) => Count(b, e, o + 1) < MinLength
       /\ CharAt(b, e, o - 2) => Count(b, e, o) < MinLength

\* NextStart, for any text.
NextOf(b, e, o) ==
  IF e = "ascii" THEN o + Count(b, e, o) + 1
  ELSE IF Count(b, e, o) >= MinLength THEN o + 2 * Count(b, e, o)
  ELSE o + 1

LEMMA NextPosition ==
  ASSUME NEW b, Len(b) \in Nat, NEW e \in Encodings, NEW o \in Nat,
         o + Width(e) <= Len(b), ScanPosition(b, e, o)
  PROVE  /\ NextOf(b, e, o) \in Nat /\ o < NextOf(b, e, o) /\ NextOf(b, e, o) <= Len(b) + 1
         /\ ScanPosition(b, e, NextOf(b, e, o))
         /\ Gone(b, e, NextOf(b, e, o)) =
              Gone(b, e, o) \cup (IF Kept(b, e, o) THEN {o} ELSE {})
<1> DEFINE n == Count(b, e, o)
           p == NextOf(b, e, o)
<1>1. MinLength \in Nat /\ MinLength # 0
  BY StringsAssumption
<1>2. /\ n \in Nat /\ ~CharAt(b, e, o + n * Width(e))
      /\ \A k \in Nat : k < n => CharAt(b, e, o + k * Width(e))
      /\ n # 0 => o + n * Width(e) <= Len(b)
  BY CountIs
<1>3. Kept(b, e, o) => n >= MinLength
  BY DEF Kept
<1>4. ASSUME NEW x, BeginsText(b, e, x) PROVE CharAt(b, e, x) /\ ~CharAt(b, e, x - Width(e))
  BY <1>4 DEF BeginsText
<1>5. CASE e = "ascii"
  <2>1. Width(e) = 1
    BY <1>5 DEF Width
  <2>2. p = o + n + 1
    BY <1>5 DEF NextOf
  <2>3. ~CharAt(b, e, o + n) /\ \A k \in Nat : k < n => CharAt(b, e, o + k)
    BY <1>2, <2>1
  <2>4. ~CharAt(b, e, o - 1)
    BY <1>5 DEF ScanPosition
  <2>5. p \in Nat /\ o < p /\ p <= Len(b) + 1 /\ p - 1 = o + n
    BY <1>2, <2>1, <2>2
  <2>6. ScanPosition(b, e, p)
    BY <1>5, <2>3, <2>5 DEF ScanPosition
  <2>7. ASSUME NEW x \in Begins(b, e), o < x, x < p PROVE FALSE
    <3>1. x \in Nat /\ x <= o + n
      BY <1>2, <2>2, <2>7 DEF Begins
    <3>2. CharAt(b, e, x) /\ ~CharAt(b, e, x - 1)
      BY <1>4, <2>1 DEF Begins
    <3>3. x # o + n
      BY <2>3, <3>2
    <3>4. (x - 1) - o \in Nat /\ (x - 1) - o < n /\ o + ((x - 1) - o) = x - 1
      BY <1>2, <2>7, <3>1, <3>3
    <3>5. CharAt(b, e, x - 1)
      BY <2>3, <3>4
    <3> QED
      BY <3>2, <3>5
  <2>8. o \in Begins(b, e) <=> Kept(b, e, o)
    <3>1. Kept(b, e, o) => CharAt(b, e, o + 0)
      BY <1>1, <1>2, <1>3, <2>3
    <3>2. Kept(b, e, o) => BeginsText(b, e, o)
      BY <2>1, <2>4, <3>1 DEF BeginsText
    <3>3. o \in 0..Len(b)
      BY <2>1
    <3> QED
      BY <3>2, <3>3 DEF Begins
  <2> QED
    BY <2>5, <2>6, <2>7, <2>8 DEF Gone, Begins
<1>6. CASE e # "ascii"
  <2>1. Width(e) = 2
    BY <1>6 DEF Width
  <2>2. /\ ~CharAt(b, e, o + 2 * n) /\ \A k \in Nat : k < n => CharAt(b, e, o + 2 * k)
        /\ n # 0 => o + 2 * n <= Len(b)
    BY <1>2, <2>1
  <2>3. /\ CharAt(b, e, o - 1) => Count(b, e, o + 1) < MinLength
        /\ CharAt(b, e, o - 2) => n < MinLength
    BY <1>6 DEF ScanPosition
  <2>4. o \in Begins(b, e) <=> Kept(b, e, o)
    <3>1. Kept(b, e, o) => CharAt(b, e, o + 2 * 0) /\ o + 2 * 0 = o
      BY <1>1, <1>2, <1>3, <2>2
    <3>2. Kept(b, e, o) => BeginsText(b, e, o)
      BY <1>1, <1>2, <1>3, <2>1, <2>3, <3>1 DEF BeginsText
    <3>3. o \in 0..Len(b)
      BY <2>1
    <3> QED
      BY <3>2, <3>3 DEF Begins
  <2>5. CASE n >= MinLength
    <3>1. p = o + 2 * n
      BY <1>6, <2>5 DEF NextOf
    <3>2. n # 0 /\ n - 1 \in Nat /\ p \in Nat /\ o < p /\ p <= Len(b) + 1
      BY <1>1, <1>2, <2>2, <2>5, <3>1
    <3>3. Count(b, e, p) < MinLength
      <4>1. Count(b, e, p) \in Nat /\ \A k \in Nat : k < Count(b, e, p) => CharAt(b, e, p + k * 2)
        BY <2>1, <3>2, CountIs
      <4>2. ~CharAt(b, e, p + 0 * 2)
        BY <2>2, <3>1, <3>2
      <4> QED
        BY <1>1, <4>1, <4>2
    <3>4. ~CharAt(b, e, p - 1)
      <4>1. o + 2 * (n - 1) \in Nat /\ (o + 2 * (n - 1)) + 1 = p - 1
        BY <1>2, <3>1, <3>2
      <4>2. CharAt(b, e, o + 2 * (n - 1))
        BY <1>2, <2>2, <3>2
      <4>3. ~CharAt(b, e, (o + 2 * (n - 1)) + 1)
        BY <1>6, <4>1, <4>2, NoCharInside
      <4> QED
        BY <4>1, <4>3
    <3>5. ScanPosition(b, e, p)
      BY <1>6, <3>3, <3>4 DEF ScanPosition
    <3>6. ASSUME NEW x \in Begins(b, e), o < x, x < p PROVE FALSE
      <4>1. x \in Nat /\ CharAt(b, e, x) /\ ~CharAt(b, e, x - 2)
        BY <1>4, <2>1 DEF Begins
      <4>2. PICK k \in Nat : x = o + 2 * k \/ x = (o + 2 * k) + 1
        <5>1. x - o \in Nat /\ (x - o) \div 2 \in Nat
              /\ (x - o = 2 * ((x - o) \div 2) \/ x - o = 2 * ((x - o) \div 2) + 1)
          BY <3>6, <4>1
        <5>2. x = o + 2 * ((x - o) \div 2) \/ x = (o + 2 * ((x - o) \div 2)) + 1
          BY <4>1, <5>1
        <5> QED
          BY <5>1, <5>2
      <4>3. k < n
        BY <1>2, <3>1, <3>6, <4>2
      <4>4. CharAt(b, e, o + 2 * k) /\ o + 2 * k \in Nat
        BY <2>2, <4>3
      <4>5. x = o + 2 * k
        BY <1>6, <4>1, <4>2, <4>4, NoCharInside
      <4>6. k # 0 /\ k - 1 \in Nat /\ k - 1 < n /\ o + 2 * (k - 1) = x - 2
        BY <1>2, <3>6, <4>3, <4>5
      <4>7. CharAt(b, e, x - 2)
        BY <2>2, <4>6
      <4> QED
        BY <4>1, <4>7
    <3> QED
      BY <2>4, <3>2, <3>5, <3>6 DEF Gone, Begins
  <2>6. CASE ~(n >= MinLength)
    <3>1. p = o + 1
      BY <1>6, <2>6 DEF NextOf
    <3>2. p \in Nat /\ o < p /\ p <= Len(b) + 1 /\ p - 1 = o /\ p - 2 = o - 1 /\ p + 1 = o + 2
      BY <2>1, <3>1
    <3>3. CharAt(b, e, o) => Count(b, e, o + 2) < MinLength
      <4>1. n # 0 => Count(b, e, o + 2) = n - 1
        BY <2>1, CountFromNext
      <4>2. n = 0 => ~CharAt(b, e, o)
        <5>1. o + 2 * 0 = o
          OBVIOUS
        <5> QED
          BY <2>2, <5>1
      <4> QED
        BY <1>1, <1>2, <2>6, <4>1, <4>2
    <3>4. ScanPosition(b, e, p)
      BY <1>6, <2>3, <3>1, <3>2, <3>3 DEF ScanPosition
    <3>5. ~Kept(b, e, o)
      BY <1>3, <2>6
    <3>6. \A x \in Begins(b, e) : x < p => x < o \/ x = o
      BY <3>1 DEF Begins
    <3> QED
      BY <2>4, <3>2, <3>4, <3>5, <3>6 DEF Gone, Begins
  <2> QED
    BY <2>5, <2>6
<1> QED
  BY <1>5, <1>6

LEMMA InOrderIs ==
  ASSUME NEW S \in SUBSET Int, IsFiniteSet(S)
  PROVE  /\ Enumerates(InOrder(S, <), S, LessThan)
         /\ Len(InOrder(S, <)) = Cardinality(S)
         /\ DOMAIN InOrder(S, <) = 1..Cardinality(S)
<1>1. InOrder(S, <) = Arranged(S, LessThan) /\ StrictOrder(S, LessThan)
  BY LessThanIs
<1>2. Enumerates(Arranged(S, LessThan), S, LessThan) /\ Len(Arranged(S, LessThan)) = Cardinality(S)
  BY <1>1, ArrangedExists
<1>3. DOMAIN Arranged(S, LessThan) = 1..Cardinality(S)
  BY DEF Arranged
<1> QED
  BY <1>1, <1>2, <1>3

LEMMA InOrderGrows ==
  ASSUME NEW S \in SUBSET Int, IsFiniteSet(S), NEW x \in Int, \A y \in S : y < x
  PROVE  InOrder(S \cup {x}, <) = Append(InOrder(S, <), x)
<1> DEFINE T == S \cup {x}
<1>1. PICK t : t = InOrder(S, <)
  OBVIOUS
<1>2. /\ t \in Seq(S) /\ \A y \in S : \E k \in 1..Len(t) : t[k] = y
      /\ \A j, k \in 1..Len(t) : j < k => <<t[j], t[k]>> \in LessThan
  BY <1>1, InOrderIs DEF Enumerates
<1>3. t \in Seq(T) /\ x \in T /\ T \in SUBSET Int
  BY <1>2, WiderSeq
<1>4. \A y, z \in T : (<<y, z>> \in LessThan <=> y < z) /\ ~(<<y, z>> \in LessThan /\ <<z, y>> \in LessThan)
  BY <1>3, LessThanIs
<1>5. InOrder(T, <) = Arranged(T, LessThan)
  BY <1>3, LessThanIs
<1>6. PICK r : r = Append(t, x)
  OBVIOUS
<1>7. T = S \cup {x}
  OBVIOUS
<1> HIDE DEF T
<1>8. /\ r \in Seq(T) /\ Len(r) = Len(t) + 1 /\ r[Len(t) + 1] = x
      /\ \A k \in 1..Len(t) : r[k] = t[k]
  BY <1>3, <1>6, AppendIs
<1>9. Len(t) \in Nat /\ \A k \in 1..Len(t) : t[k] \in S
  BY <1>2
<1>10. ASSUME NEW y \in T PROVE \E k \in 1..Len(r) : r[k] = y
  <2>1. CASE y = x
    <3>1. Len(t) + 1 \in 1..Len(r)
      BY <1>8, <1>9
    <3> QED
      BY <1>8, <2>1, <3>1
  <2>2. CASE y \in S
    <3>1. PICK k \in 1..Len(t) : t[k] = y
      BY <1>2, <2>2
    <3>2. k \in 1..Len(r) /\ r[k] = y
      BY <1>8, <1>9, <3>1
    <3> QED
      BY <3>2
  <2> QED
    BY <1>7, <2>1, <2>2
<1>11. ASSUME NEW j \in 1..Len(r), NEW k \in 1..Len(r), j < k PROVE <<r[j], r[k]>> \in LessThan
  <2>1. j \in 1..Len(t) /\ r[j] = t[j] /\ t[j] \in S
    BY <1>8, <1>9, <1>11
  <2>2. CASE k \in 1..Len(t)
    BY <1>2, <1>8, <1>11, <2>1, <2>2
  <2>3. CASE k \notin 1..Len(t)
    <3>1. r[k] = x
      BY <1>8, <1>9, <2>3
    <3>2. t[j] < x /\ t[j] \in T
      BY <1>7, <2>1
    <3> QED
      BY <1>3, <1>4, <2>1, <3>1, <3>2
  <2> QED
    BY <2>2, <2>3
<1>12. Enumerates(r, T, LessThan)
  BY <1>8, <1>10, <1>11 DEF Enumerates
<1>13. Arranged(T, LessThan) = r
  BY <1>4, <1>12, ArrangedUnique
<1> QED
  BY <1>1, <1>5, <1>6, <1>13 DEF T

\* The strings the report may hold.
Strings ==
  {String(p[1], p[2], p[3]) :
     p \in {q \in ListedSection \X Encodings \X Nat : Kept(q[1].bytes, q[2], q[3])}}

LEMMA StringsAre ==
  ASSUME NEW s \in ListedSection, NEW e \in Encodings, NEW o \in Nat, Kept(s.bytes, e, o)
  PROVE  String(s, e, o) \in Strings
<1> DEFINE q == <<s, e, o>>
<1>1. q \in ListedSection \X Encodings \X Nat /\ q[1] = s /\ q[2] = e /\ q[3] = o
  OBVIOUS
<1> HIDE DEF q
<1>2. q \in {r \in ListedSection \X Encodings \X Nat : Kept(r[1].bytes, r[2], r[3])}
  BY <1>1
<1> QED
  BY <1>1, <1>2 DEF Strings

LEMMA StringsAreLong ==
  ASSUME NEW x \in Strings
  PROVE  Len(x.text) >= MinLength
<1>1. PICK q \in ListedSection \X Encodings \X Nat :
        Kept(q[1].bytes, q[2], q[3]) /\ x = String(q[1], q[2], q[3])
  BY DEF Strings
<1>2. PICK b, e, o : b = q[1].bytes /\ e = q[2] /\ o = q[3]
  OBVIOUS
<1>3. e \in Encodings /\ o \in Nat /\ q[1] \in ListedSection
  BY <1>2
<1>4. b \in Seq(Int)
  BY <1>2, <1>3 DEF ListedSection
<1>5. Len(b) \in Nat
  BY <1>4
<1>6. Count(b, e, o) \in Nat /\ Count(b, e, o) >= MinLength
  BY <1>1, <1>2, <1>3, <1>5, CountIs DEF Kept
<1>7. x.text = TextFrom(b, e, o)
  BY <1>1, <1>2 DEF String
<1>8. Len(TextFrom(b, e, o)) = Count(b, e, o)
  BY <1>6 DEF TextFrom
<1> QED
  BY <1>6, <1>7, <1>8

\* The strings of a section at some offsets, in their order.
Written(s, e, S) ==
  LET order == InOrder(S, <) IN [k \in DOMAIN order |-> String(s, e, order[k])]

LEMMA WrittenIs ==
  ASSUME NEW s \in ListedSection, NEW e \in Encodings, NEW S \in SUBSET Nat, IsFiniteSet(S),
         \A o \in S : Kept(s.bytes, e, o)
  PROVE  /\ Written(s, e, S) \in Seq(Strings)
         /\ S = {} => Written(s, e, S) = <<>>
<1>1. PICK t : t = InOrder(S, <)
  OBVIOUS
<1>2. t \in Seq(S) /\ Len(t) = Cardinality(S)
  <2>1. S \in SUBSET Int
    OBVIOUS
  <2> QED
    BY <1>1, <2>1, InOrderIs DEF Enumerates
<1>3. Len(t) \in Nat /\ DOMAIN t = 1..Len(t) /\ \A k \in 1..Len(t) : t[k] \in S
  BY <1>2
<1>4. \A k \in 1..Len(t) : String(s, e, t[k]) \in Strings
  BY <1>3, StringsAre
<1>5. Written(s, e, S) = [k \in 1..Len(t) |-> String(s, e, t[k])]
  BY <1>1, <1>3 DEF Written
<1>6. Written(s, e, S) \in [1..Len(t) -> Strings]
  BY <1>4, <1>5
<1>7. ASSUME S = {} PROVE Written(s, e, S) = <<>>
  <2>1. Len(t) = 0
    BY <1>2, <1>7, FS_EmptySet
  <2> QED
    BY <1>5, <2>1
<1> QED
  BY <1>3, <1>6, <1>7

LEMMA WrittenGrows ==
  ASSUME NEW s \in ListedSection, NEW e \in Encodings, NEW S \in SUBSET Nat, IsFiniteSet(S),
         NEW x \in Nat, \A y \in S : y < x
  PROVE  Written(s, e, S \cup {x}) = Append(Written(s, e, S), String(s, e, x))
<1>1. PICK t, r : t = InOrder(S, <) /\ r = InOrder(S \cup {x}, <)
  OBVIOUS
<1>2. r = Append(t, x) /\ t \in Seq(S)
  <2>1. S \in SUBSET Int /\ x \in Int
    OBVIOUS
  <2>2. t \in Seq(S)
    BY <1>1, <2>1, InOrderIs DEF Enumerates
  <2>3. InOrder(S \cup {x}, <) = Append(InOrder(S, <), x)
    BY <2>1, InOrderGrows
  <2> QED
    BY <1>1, <2>2, <2>3
<1>3. t \in Seq(Nat)
  BY <1>2, WiderSeq
<1>4. /\ Len(t) \in Nat /\ DOMAIN t = 1..Len(t) /\ DOMAIN r = 1..(Len(t) + 1)
      /\ r[Len(t) + 1] = x /\ \A k \in 1..Len(t) : r[k] = t[k]
  BY <1>2, <1>3
<1>5. PICK u : u = [k \in 1..Len(t) |-> String(s, e, t[k])]
  OBVIOUS
<1>6. Written(s, e, S) = u
  BY <1>1, <1>4, <1>5 DEF Written
<1>7. Written(s, e, S \cup {x}) = [k \in 1..(Len(t) + 1) |-> String(s, e, r[k])]
  BY <1>1, <1>4 DEF Written
<1>8. PICK z : z = String(s, e, x)
  OBVIOUS
<1>9. \A k \in 1..(Len(t) + 1) : String(s, e, r[k]) = IF k = Len(t) + 1 THEN z ELSE u[k]
  <2>1. \A k \in 1..(Len(t) + 1) : k = Len(t) + 1 \/ k \in 1..Len(t)
    BY <1>4
  <2> QED
    BY <1>4, <1>5, <1>8, <2>1
<1>10. Append(u, z) = [k \in 1..(Len(t) + 1) |-> IF k = Len(t) + 1 THEN z ELSE u[k]]
  <2>1. PICK X : X = {z} \cup {u[k] : k \in 1..Len(t)}
    OBVIOUS
  <2>2. u \in Seq(X) /\ Len(u) = Len(t) /\ z \in X
    <3>1. u \in [1..Len(t) -> X] /\ Len(t) \in Nat
      BY <1>4, <1>5, <2>1
    <3> QED
      BY <2>1, <3>1
  <2>3. PICK w : w = Append(u, z)
    OBVIOUS
  <2>4. /\ w \in Seq(X) /\ Len(w) = Len(t) + 1 /\ w[Len(t) + 1] = z
        /\ \A k \in 1..Len(t) : w[k] = u[k]
    BY <2>2, <2>3, AppendIs
  <2>5. w = [k \in 1..(Len(t) + 1) |-> w[k]]
    BY <1>4, <2>4
  <2>6. \A k \in 1..(Len(t) + 1) : w[k] = IF k = Len(t) + 1 THEN z ELSE u[k]
    BY <1>4, <2>4
  <2> QED
    BY <2>3, <2>5, <2>6
<1>11. Append(u, z) = [k \in 1..(Len(t) + 1) |-> String(s, e, r[k])]
  BY <1>9, <1>10
<1> QED
  BY <1>6, <1>7, <1>8, <1>11

\* A function over 1..n, and the same with one more place.
LEMMA OneMore ==
  ASSUME NEW S, NEW n \in Nat, NEW f, \A k \in 1..(n + 1) : f[k] \in S
  PROVE  /\ [k \in 1..n |-> f[k]] \in Seq(S)
         /\ [k \in 1..(n + 1) |-> f[k]] = Append([k \in 1..n |-> f[k]], f[n + 1])
<1>1. PICK g : g = [k \in 1..n |-> f[k]]
  OBVIOUS
<1>2. g \in Seq(S) /\ Len(g) = n
  <2>1. g \in [1..n -> S]
    BY <1>1
  <2> QED
    BY <2>1
<1>3. PICK w : w = Append(g, f[n + 1])
  OBVIOUS
<1>4. /\ w \in Seq(S) /\ Len(w) = n + 1 /\ w[n + 1] = f[n + 1]
      /\ \A k \in 1..n : w[k] = g[k]
  BY <1>2, <1>3, AppendIs
<1>5. w = [k \in 1..(n + 1) |-> w[k]]
  BY <1>4
<1>6. \A k \in 1..(n + 1) : w[k] = f[k]
  <2>1. \A k \in 1..(n + 1) : k \in 1..n \/ k = n + 1
    OBVIOUS
  <2> QED
    BY <1>1, <1>4, <2>1
<1> QED
  BY <1>1, <1>2, <1>3, <1>5, <1>6

PassText(s, p) == Written(s, Passes(file)[p], Begins(s.bytes, Passes(file)[p]))

\* What the first k scans of a section give.
PassTexts(s, k) == [p \in 1..k |-> PassText(s, p)]

LEMMA BeginsAreFinite ==
  ASSUME NEW b, Len(b) \in Nat, NEW e, NEW m
  PROVE  /\ Begins(b, e) \in SUBSET Nat /\ IsFiniteSet(Begins(b, e))
         /\ Gone(b, e, m) \in SUBSET Begins(b, e) /\ IsFiniteSet(Gone(b, e, m))
         /\ \A o \in Begins(b, e) : Kept(b, e, o)
<1>1. Begins(b, e) \subseteq 0..Len(b) /\ Gone(b, e, m) \subseteq Begins(b, e)
  BY DEF Begins, Gone
<1>2. IsFiniteSet(0..Len(b))
  BY FS_Interval
<1>3. IsFiniteSet(Begins(b, e))
  BY <1>1, <1>2, FS_Subset
<1>4. IsFiniteSet(Gone(b, e, m))
  BY <1>1, <1>3, FS_Subset
<1>5. \A o \in Begins(b, e) : Kept(b, e, o)
  BY DEF Begins
<1> QED
  BY <1>1, <1>3, <1>4, <1>5

LEMMA PassTextsAre ==
  ASSUME NEW s \in ListedSection
  PROVE  /\ \A p \in 1..Len(Passes(file)) : PassText(s, p) \in Seq(Strings)
         /\ \A k \in 0..Len(Passes(file)) : PassTexts(s, k) \in Seq(Seq(Strings))
         /\ \A k \in Nat : k + 1 <= Len(Passes(file)) =>
              FlattenSeq(PassTexts(s, k + 1)) = FlattenSeq(PassTexts(s, k)) \o PassText(s, k + 1)
<1>1. ASSUME NEW p \in 1..Len(Passes(file)) PROVE PassText(s, p) \in Seq(Strings)
  <2>1. PICK b, e : b = s.bytes /\ e = Passes(file)[p]
    OBVIOUS
  <2>2. e \in Encodings
    BY <2>1, PassesAre
  <2>3. b \in Seq(Int)
    BY <2>1 DEF ListedSection
  <2>4. Len(b) \in Nat
    BY <2>3
  <2>5. PICK S : S = Begins(b, e)
    OBVIOUS
  <2>6. S \in SUBSET Nat /\ IsFiniteSet(S) /\ \A o \in S : Kept(b, e, o)
    BY <2>4, <2>5, BeginsAreFinite
  <2> QED
    BY <2>1, <2>2, <2>5, <2>6, WrittenIs DEF PassText
<1>2. ASSUME NEW k \in 0..Len(Passes(file)) PROVE PassTexts(s, k) \in Seq(Seq(Strings))
  <2>1. Len(Passes(file)) \in Nat /\ k \in Nat
    BY PassesAre
  <2>2. \A p \in 1..k : p \in 1..Len(Passes(file))
    BY <2>1
  <2>3. PassTexts(s, k) \in [1..k -> Seq(Strings)]
    BY <1>1, <2>2 DEF PassTexts
  <2> QED
    BY <2>1, <2>3
<1>3. ASSUME NEW k \in Nat, k + 1 <= Len(Passes(file))
      PROVE  FlattenSeq(PassTexts(s, k + 1)) = FlattenSeq(PassTexts(s, k)) \o PassText(s, k + 1)
  <2>1. Len(Passes(file)) \in Nat
    BY PassesAre
  <2>2. PICK f : f = [p \in 1..(k + 1) |-> PassText(s, p)]
    OBVIOUS
  <2>3. \A p \in 1..(k + 1) : f[p] = PassText(s, p) /\ f[p] \in Seq(Strings)
    BY <1>1, <1>3, <2>1, <2>2
  <2>4. [p \in 1..(k + 1) |-> f[p]] = Append([p \in 1..k |-> f[p]], f[k + 1])
    BY <2>3, OneMore
  <2>5. PassTexts(s, k) = [p \in 1..k |-> f[p]] /\ PassTexts(s, k + 1) = [p \in 1..(k + 1) |-> f[p]]
    BY <2>2, <2>3 DEF PassTexts
  <2>6. f[k + 1] = PassText(s, k + 1) /\ k + 1 \in 1..Len(Passes(file)) /\ k \in 0..Len(Passes(file))
    BY <1>3, <2>1, <2>3
  <2>7. PassTexts(s, k + 1) = Append(PassTexts(s, k), PassText(s, k + 1))
    BY <2>4, <2>5, <2>6
  <2> QED
    BY <1>1, <1>2, <2>6, <2>7, FlattenAppend
<1> QED
  BY <1>1, <1>2, <1>3

LEMMA TextOfIs ==
  ASSUME NEW s
  PROVE  TextOf(s) = FlattenSeq(PassTexts(s, Len(Passes(file))))
<1>1. \A p : PassText(s, p) =
        LET order == InOrder({o \in 0..Len(s.bytes) : /\ BeginsText(s.bytes, Passes(file)[p], o)
                                                      /\ Kept(s.bytes, Passes(file)[p], o)}, <)
        IN  [k \in DOMAIN order |-> String(s, Passes(file)[p], order[k])]
  BY DEF PassText, Written, Begins
<1>2. DOMAIN Passes(file) = 1..Len(Passes(file))
  BY PassesAre
<1>3. PassTexts(s, Len(Passes(file))) = [p \in DOMAIN Passes(file) |-> PassText(s, p)]
  BY <1>2 DEF PassTexts
<1> QED
  BY <1>1, <1>3 DEF TextOf

\* What the first m sections give.
Part(n) == IF n \in scanned THEN TextOf(file.listed[n]) ELSE <<>>
Parts(m) == [n \in 1..m |-> Part(n)]

LEMMA PartsAre ==
  ASSUME CaseInv
  PROVE  /\ Len(file.listed) \in Nat
         /\ \A m \in 0..Len(file.listed) : Parts(m) \in Seq(Seq(Strings))
         /\ \A m \in Nat : m + 1 <= Len(file.listed) =>
              FlattenSeq(Parts(m + 1)) = FlattenSeq(Parts(m)) \o Part(m + 1)
         /\ FlattenSeq(Parts(0)) = <<>>
<1>1. Len(file.listed) \in Nat
  BY CaseFacts
<1>2. ASSUME NEW n \in 1..Len(file.listed) PROVE Part(n) \in Seq(Strings)
  <2>1. file.listed[n] \in ListedSection
    BY CaseFacts
  <2>2. PICK q : q = PassTexts(file.listed[n], Len(Passes(file)))
    OBVIOUS
  <2>3. q \in Seq(Seq(Strings))
    BY <2>1, <2>2, PassTextsAre, PassesAre
  <2>4. FlattenSeq(q) \in Seq(Strings)
    BY <2>3, FlattenIsSeq
  <2>5. TextOf(file.listed[n]) = FlattenSeq(q)
    BY <2>2, TextOfIs
  <2>6. <<>> \in Seq(Strings)
    OBVIOUS
  <2> QED
    BY <2>4, <2>5, <2>6 DEF Part
<1>3. ASSUME NEW m \in 0..Len(file.listed) PROVE Parts(m) \in Seq(Seq(Strings))
  <2>1. m \in Nat /\ \A n \in 1..m : n \in 1..Len(file.listed)
    BY <1>1
  <2>2. Parts(m) \in [1..m -> Seq(Strings)]
    BY <1>2, <2>1 DEF Parts
  <2> QED
    BY <2>1, <2>2
<1>4. ASSUME NEW m \in Nat, m + 1 <= Len(file.listed)
      PROVE  FlattenSeq(Parts(m + 1)) = FlattenSeq(Parts(m)) \o Part(m + 1)
  <2>1. PICK f : f = [n \in 1..(m + 1) |-> Part(n)]
    OBVIOUS
  <2>2. \A n \in 1..(m + 1) : f[n] = Part(n) /\ f[n] \in Seq(Strings)
    BY <1>1, <1>2, <1>4, <2>1
  <2>3. [n \in 1..(m + 1) |-> f[n]] = Append([n \in 1..m |-> f[n]], f[m + 1])
    BY <2>2, OneMore
  <2>4. Parts(m) = [n \in 1..m |-> f[n]] /\ Parts(m + 1) = [n \in 1..(m + 1) |-> f[n]]
    BY <2>1, <2>2 DEF Parts
  <2>5. f[m + 1] = Part(m + 1) /\ m + 1 \in 1..Len(file.listed) /\ m \in 0..Len(file.listed)
    BY <1>1, <1>4, <2>2
  <2>6. Parts(m + 1) = Append(Parts(m), Part(m + 1))
    BY <2>3, <2>4, <2>5
  <2> QED
    BY <1>2, <1>3, <2>5, <2>6, FlattenAppend
<1>5. FlattenSeq(Parts(0)) = <<>>
  <2>1. Parts(0) = <<>> /\ Parts(0) \in Seq(Seq(Strings))
    BY <1>1, <1>3 DEF Parts
  <2> QED
    BY <2>1, FlattenIsSeq
<1> QED
  BY <1>1, <1>3, <1>4, <1>5

\* Where nothing was scanned there is no text.
LEMMA NoParts ==
  ASSUME CaseInv, scanned = {}, NEW m \in 0..Len(file.listed)
  PROVE  FlattenSeq(Parts(m)) = <<>>
<1> DEFINE P == {k \in Nat : k <= Len(file.listed) => FlattenSeq(Parts(k)) = <<>>}
<1>1. Len(file.listed) \in Nat
  BY PartsAre
<1>2. 0 \in P
  BY PartsAre
<1>3. ASSUME NEW k \in Nat, k \in P PROVE k + 1 \in P
  <2>1. SUFFICES ASSUME k + 1 <= Len(file.listed) PROVE FlattenSeq(Parts(k + 1)) = <<>>
    OBVIOUS
  <2>2. FlattenSeq(Parts(k)) = <<>>
    BY <1>1, <1>3, <2>1
  <2>3. FlattenSeq(Parts(k + 1)) = FlattenSeq(Parts(k)) \o Part(k + 1)
    BY <2>1, PartsAre
  <2>4. Part(k + 1) = <<>> /\ <<>> \o <<>> = <<>>
    BY DEF Part
  <2> QED
    BY <2>2, <2>3, <2>4
<1> HIDE DEF P
<1>4. \A k \in Nat : k \in P
  BY <1>2, <1>3, Induction
<1> QED
  BY <1>1, <1>4 DEF P

\* What has been written of the section that is being scanned.
Running ==
  IF pass = 0 THEN <<>>
  ELSE FlattenSeq(PassTexts(Current, pass - 1))
         \o Written(Current, Encoding, Gone(Bytes, Encoding, start))

StringsInv ==
  /\ place \in 0..Len(file.listed) /\ pass \in 0..Len(Passes(file)) /\ start \in Nat
  /\ pass # 0 =>
       /\ place < Len(file.listed) /\ place + 1 \in scanned
       /\ start <= Len(Bytes) + 1 /\ ScanPosition(Bytes, Encoding, start)
  /\ \A n \in scanned :
       /\ n \in 1..Len(file.listed) /\ Candidate(file.listed[n])
       /\ n <= place \/ (pass # 0 /\ n = place + 1)
  /\ strings \in Seq(Strings) /\ strings = FlattenSeq(Parts(place)) \o Running
  /\ ~request.strings => place = 0 /\ pass = 0
  /\ pc \notin {"allocate", "sections", "strings", "failed"} =>
       pass = 0 /\ (request.strings => place = Len(file.listed))

LEMMA StringsInvImplies ==
  ASSUME CaseInv, StringsInv
  PROVE  StringsTypeOK /\ StringsAreTheText
<1>1. StringsTypeOK
  <2>1. ASSUME NEW i \in DOMAIN strings PROVE Len(strings[i].text) >= MinLength
    <3>1. strings[i] \in Strings
      BY DEF StringsInv
    <3> QED
      BY <3>1, StringsAreLong
  <2> QED
    BY <2>1 DEF StringsInv, StringsTypeOK
<1>2. Len(file.listed) \in Nat /\ DOMAIN file.listed = 1..Len(file.listed)
  BY CaseFacts
<1>3. Parts(Len(file.listed)) =
        [n \in DOMAIN file.listed |-> IF n \in scanned THEN TextOf(file.listed[n]) ELSE <<>>]
  BY <1>2 DEF Parts, Part
<1>4. ASSUME pc \notin {"allocate", "sections", "strings", "failed"}
      PROVE  strings = FlattenSeq(Parts(Len(file.listed)))
  <2>1. pass = 0 /\ Running = <<>> /\ place \in 0..Len(file.listed)
    BY <1>4 DEF StringsInv, Running
  <2>2. strings = FlattenSeq(Parts(place))
    <3>1. FlattenSeq(Parts(place)) \in Seq(Strings)
      BY <2>1, PartsAre, FlattenIsSeq
    <3>2. FlattenSeq(Parts(place)) \o <<>> = FlattenSeq(Parts(place))
      BY <3>1
    <3> QED
      BY <2>1, <3>2 DEF StringsInv
  <2>3. CASE place = Len(file.listed)
    BY <2>2, <2>3
  <2>4. CASE place # Len(file.listed)
    <3>1. place = 0 /\ scanned = {}
      BY <1>4, <2>1, <2>4 DEF StringsInv
    <3>2. FlattenSeq(Parts(0)) = <<>> /\ FlattenSeq(Parts(Len(file.listed))) = <<>>
      BY <1>2, <3>1, NoParts
    <3> QED
      BY <2>2, <3>1, <3>2
  <2> QED
    BY <2>3, <2>4
<1>5. StringsAreTheText
  BY <1>3, <1>4 DEF StringsInv, StringsAreTheText
<1> QED
  BY <1>1, <1>5

LEMMA StringsInvInit == CaseInv /\ Init => StringsInv
<1> SUFFICES ASSUME CaseInv, Init PROVE StringsInv
  OBVIOUS
<1>1. /\ place = 0 /\ pass = 0 /\ start = 0 /\ scanned = {} /\ strings = <<>> /\ pc = "allocate"
  BY DEF Init, StringsInit
<1>2. Len(file.listed) \in Nat /\ Len(Passes(file)) \in Nat /\ FlattenSeq(Parts(0)) = <<>>
  BY PartsAre, PassesAre
<1>3. strings \in Seq(Strings) /\ strings = FlattenSeq(Parts(place)) \o Running
  BY <1>1, <1>2 DEF Running
<1> QED
  BY <1>1, <1>2, <1>3 DEF StringsInv

\* While a section is scanned.
LEMMA ScanningFacts ==
  ASSUME CaseInv, StringsInv, pass # 0
  PROVE  /\ pass \in 1..Len(Passes(file)) /\ place \in Nat /\ place + 1 \in 1..Len(file.listed)
         /\ Current \in ListedSection /\ Encoding \in Encodings /\ Len(Bytes) \in Nat
         /\ Bytes = Current.bytes /\ Encoding = Passes(file)[pass] /\ start \in Nat
<1>1. pass \in 1..Len(Passes(file)) /\ place \in Nat /\ place + 1 \in 1..Len(file.listed) /\ start \in Nat
  BY PassesAre, PartsAre DEF StringsInv
<1>2. Current \in ListedSection
  BY <1>1, CaseFacts DEF Current
<1>3. Encoding \in Encodings
  BY <1>1, PassesAre DEF Encoding
<1>4. Bytes \in Seq(Int)
  BY <1>2 DEF ListedSection, Bytes
<1>5. Len(Bytes) \in Nat
  BY <1>4
<1> QED
  BY <1>1, <1>2, <1>3, <1>5 DEF Bytes, Encoding

LEMMA RunningIsSeq ==
  ASSUME CaseInv, StringsInv, pass # 0
  PROVE  /\ FlattenSeq(PassTexts(Current, pass - 1)) \in Seq(Strings)
         /\ Written(Current, Encoding, Gone(Bytes, Encoding, start)) \in Seq(Strings)
         /\ FlattenSeq(Parts(place)) \in Seq(Strings)
<1>1. FlattenSeq(PassTexts(Current, pass - 1)) \in Seq(Strings)
  <2>1. pass - 1 \in 0..Len(Passes(file)) /\ Current \in ListedSection
    BY ScanningFacts, PassesAre
  <2>2. PICK q \in Seq(Seq(Strings)) : q = PassTexts(Current, pass - 1)
    BY <2>1, PassTextsAre
  <2> QED
    BY <2>2, FlattenIsSeq
<1>2. PICK S : S = Gone(Bytes, Encoding, start)
  OBVIOUS
<1>3. S \in SUBSET Nat /\ IsFiniteSet(S) /\ \A o \in S : Kept(Bytes, Encoding, o)
  BY <1>2, ScanningFacts, BeginsAreFinite
<1>4. Written(Current, Encoding, S) \in Seq(Strings)
  BY <1>3, ScanningFacts, WrittenIs
<1>5. FlattenSeq(Parts(place)) \in Seq(Strings)
  <2>1. place \in 0..Len(file.listed)
    BY DEF StringsInv
  <2>2. PICK q \in Seq(Seq(Strings)) : q = Parts(place)
    BY <2>1, PartsAre
  <2> QED
    BY <2>2, FlattenIsSeq
<1> QED
  BY <1>1, <1>2, <1>4, <1>5

LEMMA ConcatAssociates ==
  ASSUME NEW S, NEW s \in Seq(S), NEW t \in Seq(S), NEW u \in Seq(S), NEW x \in S
  PROVE  /\ (s \o t) \o u = s \o (t \o u)
         /\ s \o Append(t, x) = Append(s \o t, x)
         /\ s \o <<>> = s /\ <<>> \o s = s
<1>1. (s \o t) \o u = s \o (t \o u)
  OBVIOUS
<1>2. s \o Append(t, x) = Append(s \o t, x)
  OBVIOUS
<1>3. s \o <<>> = s /\ <<>> \o s = s
  OBVIOUS
<1> QED
  BY <1>1, <1>2, <1>3

LEMMA TextsAre == \A s : TextOf(s) = FlattenSeq(PassTexts(s, Len(Passes(file))))
BY TextOfIs

LEMMA TextsKept == file' = file => \A s : TextOf(s)' = TextOf(s)
<1>1. (\A s : TextOf(s) = FlattenSeq(PassTexts(s, Len(Passes(file)))))'
  BY TextsAre, PTL
<1>2. file' = file => \A s : PassTexts(s, Len(Passes(file)))' = PassTexts(s, Len(Passes(file)))
  BY DEF PassTexts, PassText
<1> QED
  BY <1>1, <1>2, TextsAre

LEMMA PartsKept ==
  ASSUME file' = file, NEW m, \A n \in 1..m : n \in scanned' <=> n \in scanned
  PROVE  Parts(m)' = Parts(m)
<1>1. \A s : TextOf(s)' = TextOf(s)
  BY TextsKept
<1>2. ASSUME NEW n \in 1..m PROVE Part(n)' = Part(n)
  <2>1. PICK s : s = file.listed[n]
    OBVIOUS
  <2>2. Part(n)' = IF n \in scanned' THEN TextOf(s)' ELSE <<>>
    BY <2>1 DEF Part
  <2>3. Part(n) = IF n \in scanned THEN TextOf(s) ELSE <<>>
    BY <2>1 DEF Part
  <2> QED
    BY <1>1, <2>2, <2>3
<1> QED
  BY <1>2 DEF Parts

LEMMA ScanTextStep ==
  ASSUME CaseInv, StringsInv, ScanText
  PROVE  StringsInv'
<1>1. /\ pass # 0 /\ MoreText /\ pc = "strings"
      /\ strings' = IF Kept(Bytes, Encoding, start)
                    THEN Append(strings, String(Current, Encoding, start)) ELSE strings
      /\ start' = NextStart
      /\ file' = file /\ pc' = pc /\ request' = request /\ place' = place /\ pass' = pass
      /\ scanned' = scanned
  BY DEF ScanText, Extracting
<1>2. PICK s, e, b, o : s = Current /\ e = Encoding /\ b = Bytes /\ o = start
  OBVIOUS
<1>3. /\ s \in ListedSection /\ e \in Encodings /\ Len(b) \in Nat /\ o \in Nat /\ b = s.bytes
      /\ o + Width(e) <= Len(b) /\ ScanPosition(b, e, o)
  BY <1>1, <1>2, ScanningFacts DEF MoreText, StringsInv
<1>4. start' = NextOf(b, e, o)
  BY <1>1, <1>2 DEF NextStart, NextOf
<1>5. Current' = s /\ Encoding' = e /\ Bytes' = b
  BY <1>1, <1>2 DEF Current, Encoding, Bytes
<1>6. /\ start' \in Nat /\ start' <= Len(b) + 1 /\ ScanPosition(b, e, start')
      /\ Gone(b, e, start') = Gone(b, e, o) \cup (IF Kept(b, e, o) THEN {o} ELSE {})
  BY <1>3, <1>4, NextPosition
<1>7. PICK S : S = Gone(b, e, o)
  OBVIOUS
<1>8. S \in SUBSET Nat /\ IsFiniteSet(S) /\ \A x \in S : x < o
  BY <1>3, <1>7, BeginsAreFinite DEF Gone
<1>9. PICK before, head, tail :
        /\ before = FlattenSeq(Parts(place)) /\ head = FlattenSeq(PassTexts(Current, pass - 1))
        /\ tail = Written(s, e, S)
  OBVIOUS
<1>10. before \in Seq(Strings) /\ head \in Seq(Strings) /\ tail \in Seq(Strings)
  BY <1>1, <1>2, <1>7, <1>9, RunningIsSeq
<1>11. strings = before \o (head \o tail)
  BY <1>1, <1>2, <1>7, <1>9 DEF StringsInv, Running
<1>12. FlattenSeq(Parts(place))' = before
  <2>1. PICK m : m = place
    OBVIOUS
  <2>2. Parts(place)' = Parts(m)'
    BY <1>1, <2>1 DEF Parts
  <2> QED
    BY <1>1, <1>9, <2>1, <2>2, PartsKept
<1>13. FlattenSeq(PassTexts(Current, pass - 1))' = head
  BY <1>1, <1>9 DEF PassTexts, PassText, Current
<1>14. Running' = head \o Written(s, e, Gone(b, e, start'))
  BY <1>1, <1>5, <1>13 DEF Running
<1>15. strings' \in Seq(Strings) /\ strings' = before \o Running'
  <2>1. CASE Kept(b, e, o)
    <3>1. PICK x : x = String(s, e, o)
      OBVIOUS
    <3>2. x \in Strings
      BY <1>3, <2>1, <3>1, StringsAre
    <3>3. Written(s, e, S \cup {o}) = Append(tail, x)
      BY <1>3, <1>8, <1>9, <3>1, WrittenGrows
    <3>4. Gone(b, e, start') = S \cup {o}
      BY <1>6, <1>7, <2>1
    <3>5. strings' = Append(strings, x)
      BY <1>1, <1>2, <2>1, <3>1
    <3>6. Running' = head \o Append(tail, x)
      BY <1>14, <3>3, <3>4
    <3>7. head \o Append(tail, x) = Append(head \o tail, x) /\ head \o tail \in Seq(Strings)
      BY <1>10, <3>2, ConcatAssociates, ConcatIs
    <3>8. before \o Append(head \o tail, x) = Append(before \o (head \o tail), x)
      BY <1>10, <3>2, <3>7, ConcatAssociates
    <3>9. before \o (head \o tail) \in Seq(Strings)
      BY <1>10, <3>7, ConcatIs
    <3>10. Append(before \o (head \o tail), x) \in Seq(Strings)
      BY <3>2, <3>9, AppendIs
    <3> QED
      BY <1>11, <3>5, <3>6, <3>7, <3>8, <3>10
  <2>2. CASE ~Kept(b, e, o)
    <3>1. strings' = strings /\ Gone(b, e, start') = S
      BY <1>1, <1>2, <1>6, <1>7, <2>2
    <3> QED
      BY <1>9, <1>11, <1>14, <3>1 DEF StringsInv
  <2> QED
    BY <2>1, <2>2
<1>16. strings' = FlattenSeq(Parts(place))' \o Running'
  BY <1>12, <1>15
<1>17. \A n \in scanned : Candidate(file.listed[n]) => Candidate(file.listed[n])'
  BY <1>1 DEF Candidate
<1> QED
  BY <1>1, <1>3, <1>5, <1>6, <1>15, <1>16, <1>17 DEF StringsInv

LEMMA NextPassStep ==
  ASSUME CaseInv, StringsInv, NextPass
  PROVE  StringsInv'
<1>1. /\ pass # 0 /\ ~MoreText /\ pc = "strings" /\ request.strings
      /\ start' = 0
      /\ IF pass < Len(Passes(file)) THEN pass' = pass + 1 /\ place' = place
         ELSE pass' = 0 /\ place' = place + 1
      /\ file' = file /\ pc' = pc /\ request' = request /\ scanned' = scanned /\ strings' = strings
  BY DEF NextPass, Extracting
<1>2. PICK s, e, b, p, m : s = Current /\ e = Encoding /\ b = Bytes /\ p = pass /\ m = place
  OBVIOUS
<1>3. /\ s \in ListedSection /\ e \in Encodings /\ Len(b) \in Nat /\ start \in Nat /\ b = s.bytes
      /\ p \in 1..Len(Passes(file)) /\ e = Passes(file)[p] /\ m \in Nat /\ m + 1 \in 1..Len(file.listed)
      /\ ~(start + Width(e) <= Len(b)) /\ Len(Passes(file)) \in Nat /\ Len(file.listed) \in Nat
      /\ s = file.listed[m + 1]
  BY <1>1, <1>2, ScanningFacts, PassesAre, PartsAre DEF MoreText, Current
<1>4. Gone(b, e, start) = Begins(b, e)
  <2>1. ASSUME NEW x \in Begins(b, e) PROVE x < start
    <3>1. x \in Nat /\ CharAt(b, e, x)
      BY DEF Begins, BeginsText
    <3>2. x + Width(e) <= Len(b) /\ Width(e) \in Nat
      BY <3>1 DEF CharAt, Width
    <3> QED
      BY <1>3, <3>1, <3>2
  <2> QED
    BY <2>1 DEF Gone
<1>5. Written(s, e, Gone(b, e, start)) = PassText(s, p)
  BY <1>3, <1>4 DEF PassText
<1>6. FlattenSeq(PassTexts(s, p)) = FlattenSeq(PassTexts(s, p - 1)) \o PassText(s, p)
  <2>1. p - 1 \in Nat /\ (p - 1) + 1 <= Len(Passes(file)) /\ (p - 1) + 1 = p
    BY <1>3
  <2>2. FlattenSeq(PassTexts(s, (p - 1) + 1)) = FlattenSeq(PassTexts(s, p - 1)) \o PassText(s, (p - 1) + 1)
    BY <1>3, <2>1, PassTextsAre
  <2> QED
    BY <2>1, <2>2
<1>7. Running = FlattenSeq(PassTexts(s, p))
  BY <1>1, <1>2, <1>5, <1>6 DEF Running
<1>8. PICK before, now : before = FlattenSeq(Parts(m)) /\ now = FlattenSeq(PassTexts(s, p))
  OBVIOUS
<1>9. strings = before \o now /\ strings \in Seq(Strings)
  BY <1>2, <1>7, <1>8 DEF StringsInv
<1>10. \A k : Parts(k)' = Parts(k)
  BY <1>1, PartsKept
<1>11. \A n \in scanned : /\ n \in 1..Len(file.listed) /\ Candidate(file.listed[n])'
                          /\ n <= m + 1 /\ (n <= m \/ n = m + 1)
  BY <1>1, <1>2, <1>3 DEF StringsInv, Candidate
<1>12. CASE p < Len(Passes(file))
  <2>1. pass' = p + 1 /\ place' = m
    BY <1>1, <1>2, <1>12
  <2>2. Current' = s /\ Bytes' = b
    BY <1>1, <1>2, <2>1 DEF Current, Bytes
  <2>3. PICK g : g = Passes(file)[p + 1]
    OBVIOUS
  <2>4. Encoding' = g /\ g \in Encodings
    BY <1>1, <1>3, <1>12, <2>1, <2>3, PassesAre DEF Encoding
  <2>5. PassTexts(Current, pass - 1)' = PassTexts(s, p)
    <3>1. (pass - 1)' = p
      BY <1>3, <2>1
    <3> QED
      BY <1>1, <2>2, <3>1 DEF PassTexts, PassText
  <2>6. ScanPosition(b, g, 0)
    <3>1. ~CharAt(b, g, 0 - 1) /\ ~CharAt(b, g, 0 - 2)
      BY DEF CharAt
    <3> QED
      BY <3>1 DEF ScanPosition
  <2>7. Written(s, g, Gone(b, g, 0)) = <<>>
    <3>1. PICK S : S = Gone(b, g, 0)
      OBVIOUS
    <3>2. S = {}
      <4>1. \A x \in Begins(b, g) : x \in Nat
        BY DEF Begins
      <4> QED
        BY <3>1, <4>1 DEF Gone
    <3>3. IsFiniteSet(S)
      BY <3>2, FS_EmptySet
    <3>4. Written(s, g, S) = <<>>
      BY <1>3, <2>4, <3>2, <3>3, WrittenIs
    <3> QED
      BY <3>1, <3>4
  <2>8. Running' = now \o <<>>
    <3>1. pass' # 0
      BY <1>3, <2>1
    <3> QED
      BY <1>1, <1>8, <2>2, <2>4, <2>5, <2>7, <3>1 DEF Running
  <2>9. now \o <<>> = now
    <3>1. now \in Seq(Strings)
      BY <1>3, <1>8, PassTextsAre, FlattenIsSeq
    <3> QED
      BY <3>1
  <2>10. FlattenSeq(Parts(place))' = before
    <3>1. Parts(place)' = Parts(m)'
      BY <2>1 DEF Parts
    <3> QED
      BY <1>8, <1>10, <3>1
  <2>11. strings' = FlattenSeq(Parts(place))' \o Running'
    BY <1>1, <1>9, <2>8, <2>9, <2>10
  <2>12. place + 1 \in scanned
    BY <1>1 DEF StringsInv
  <2>13. /\ place' \in 0..Len(file.listed) /\ pass' \in 0..Len(Passes(file)) /\ 0 \in Nat
         /\ place' < Len(file.listed) /\ place' + 1 \in scanned /\ 0 <= Len(b) + 1 /\ pass' # 0
    BY <1>2, <1>3, <1>12, <2>1, <2>12
  <2> QED
    BY <1>1, <1>9, <1>11, <2>1, <2>2, <2>4, <2>6, <2>11, <2>13 DEF StringsInv
<1>13. CASE ~(p < Len(Passes(file)))
  <2>1. pass' = 0 /\ place' = m + 1 /\ p = Len(Passes(file))
    BY <1>1, <1>2, <1>3, <1>13
  <2>2. m + 1 \in scanned
    BY <1>1, <1>2 DEF StringsInv
  <2>3. Part(m + 1) = now
    BY <1>3, <1>8, <2>1, <2>2, TextOfIs DEF Part
  <2>4. FlattenSeq(Parts(m + 1)) = before \o now
    <3>1. m + 1 <= Len(file.listed)
      BY <1>3
    <3>2. FlattenSeq(Parts(m + 1)) = FlattenSeq(Parts(m)) \o Part(m + 1)
      BY <1>3, <3>1, PartsAre
    <3> QED
      BY <1>8, <2>3, <3>2
  <2>5. FlattenSeq(Parts(place))' = FlattenSeq(Parts(m + 1))
    <3>1. PICK k : k = m + 1
      OBVIOUS
    <3>2. Parts(place)' = Parts(k)'
      BY <2>1, <3>1 DEF Parts
    <3> QED
      BY <1>10, <3>1, <3>2
  <2>6. Running' = <<>>
    BY <2>1 DEF Running
  <2>7. strings' = FlattenSeq(Parts(place))' \o Running'
    <3>1. strings \o <<>> = strings
      BY <1>9
    <3> QED
      BY <1>1, <1>9, <2>4, <2>5, <2>6, <3>1
  <2>8. place' \in 0..Len(file.listed) /\ pass' \in 0..Len(Passes(file)) /\ 0 \in Nat
    BY <1>3, <2>1
  <2>9. \A n \in scanned : n <= place'
    BY <1>11, <2>1
  <2> QED
    BY <1>1, <1>9, <1>11, <2>1, <2>7, <2>8, <2>9 DEF StringsInv
<1> QED
  BY <1>12, <1>13

LEMMA LeaveOutStep ==
  ASSUME CaseInv, StringsInv, LeaveOut
  PROVE  StringsInv'
<1>1. /\ pass = 0 /\ place < Len(file.listed) /\ place' = place + 1 /\ pc = "strings" /\ request.strings
      /\ file' = file /\ pc' = pc /\ request' = request /\ pass' = pass /\ start' = start
      /\ scanned' = scanned /\ strings' = strings
  BY DEF LeaveOut, Extracting
<1>2. PICK m : m = place
  OBVIOUS
<1>3. /\ m \in Nat /\ Len(file.listed) \in Nat /\ m + 1 <= Len(file.listed)
      /\ m + 1 \notin scanned /\ m \in 0..Len(file.listed)
  <2>1. \A n \in scanned : n <= place
    BY <1>1 DEF StringsInv
  <2>2. place \in Nat /\ Len(file.listed) \in Nat
    BY PartsAre DEF StringsInv
  <2> QED
    BY <1>1, <1>2, <2>1, <2>2
<1>4. FlattenSeq(Parts(m + 1)) = FlattenSeq(Parts(m))
  <2>1. PICK t : t = FlattenSeq(Parts(m))
    OBVIOUS
  <2>2. t \in Seq(Strings)
    <3>1. PICK q \in Seq(Seq(Strings)) : q = Parts(m)
      BY <1>3, PartsAre
    <3> QED
      BY <2>1, <3>1, FlattenIsSeq
  <2>3. FlattenSeq(Parts(m + 1)) = FlattenSeq(Parts(m)) \o Part(m + 1)
    BY <1>3, PartsAre
  <2>4. Part(m + 1) = <<>> /\ t \o <<>> = t
    BY <1>3, <2>2 DEF Part
  <2> QED
    BY <2>1, <2>3, <2>4
<1>5. FlattenSeq(Parts(place))' = FlattenSeq(Parts(m))
  <2>1. PICK k : k = m + 1
    OBVIOUS
  <2>2. Parts(place)' = Parts(k)'
    BY <1>1, <1>2, <2>1 DEF Parts
  <2>3. Parts(k)' = Parts(k)
    BY <1>1, PartsKept
  <2> QED
    BY <1>4, <2>1, <2>2, <2>3
<1>6. Running' = Running
  BY <1>1 DEF Running
<1>7. strings' = FlattenSeq(Parts(place))' \o Running'
  BY <1>1, <1>2, <1>5, <1>6 DEF StringsInv
<1>8. /\ place' \in 0..Len(file.listed) /\ pass' \in 0..Len(Passes(file))
      /\ start' \in Nat /\ strings' \in Seq(Strings)
  BY <1>1, <1>2, <1>3 DEF StringsInv
<1>9. \A n \in scanned : n \in 1..Len(file.listed) /\ Candidate(file.listed[n])' /\ n <= place'
  <2>1. \A n \in scanned : n \in 1..Len(file.listed) /\ Candidate(file.listed[n])' /\ n <= place
    BY <1>1 DEF StringsInv, Candidate
  <2> QED
    BY <1>1, <1>2, <1>3, <2>1
<1> QED
  BY <1>1, <1>7, <1>8, <1>9 DEF StringsInv

LEMMA ReadContentsStep ==
  ASSUME CaseInv, StringsInv, ReadContents
  PROVE  StringsInv'
<1>1. /\ pass = 0 /\ place < Len(file.listed) /\ pc = "strings" /\ request.strings
      /\ Candidate(Current)
      /\ scanned' = scanned \cup {place + 1} /\ pass' = 1 /\ start' = 0
      /\ file' = file /\ pc' = pc /\ request' = request /\ place' = place /\ strings' = strings
  BY DEF ReadContents, Extracting
<1>2. PICK s, b, m, e : s = Current /\ b = s.bytes /\ m = place /\ e = Passes(file)[1]
  OBVIOUS
<1>3. /\ m \in Nat /\ Len(file.listed) \in Nat /\ m + 1 \in 1..Len(file.listed)
      /\ Len(Passes(file)) \in Nat /\ 1 \in 1..Len(Passes(file)) /\ e \in Encodings
  BY <1>1, <1>2, PartsAre, PassesAre DEF StringsInv
<1>4. s \in ListedSection /\ s = file.listed[m + 1]
  BY <1>2, <1>3, CaseFacts DEF Current
<1>5. b \in Seq(Int)
  BY <1>2, <1>4 DEF ListedSection
<1>6. Len(b) \in Nat
  BY <1>5
<1>7. Current' = s /\ Bytes' = b /\ Encoding' = e
  BY <1>1, <1>2 DEF Current, Bytes, Encoding
<1>8. Running' = <<>>
  <2>1. PICK S : S = Gone(b, e, 0)
    OBVIOUS
  <2>2. S = {}
    <3>1. \A x \in Begins(b, e) : x \in Nat
      BY DEF Begins
    <3> QED
      BY <2>1, <3>1 DEF Gone
  <2>3. IsFiniteSet(S)
    BY <2>2, FS_EmptySet
  <2>4. Written(s, e, S) = <<>>
    BY <1>3, <1>4, <2>2, <2>3, WrittenIs
  <2>5. PassTexts(Current, pass - 1)' = <<>>
    <3>1. (pass - 1)' = 0
      BY <1>1
    <3> QED
      BY <3>1 DEF PassTexts
  <2>6. PICK q \in Seq(Seq(Strings)) : q = <<>>
    <3>1. <<>> \in Seq(Seq(Strings))
      OBVIOUS
    <3> QED
      BY <3>1
  <2>7. FlattenSeq(<<>>) = <<>>
    BY <2>6, FlattenIsSeq
  <2>8. Running' = FlattenSeq(PassTexts(Current, pass - 1)') \o Written(s, e, S)
    BY <1>1, <1>7, <2>1 DEF Running
  <2> QED
    BY <2>4, <2>5, <2>7, <2>8
<1>9. FlattenSeq(Parts(place))' = FlattenSeq(Parts(place))
  <2>1. \A n \in 1..m : n \in scanned' <=> n \in scanned
    BY <1>1, <1>2, <1>3
  <2>2. Parts(m)' = Parts(m)
    BY <1>1, <2>1, PartsKept
  <2>3. Parts(place)' = Parts(m)'
    BY <1>1, <1>2 DEF Parts
  <2> QED
    BY <1>2, <2>2, <2>3
<1>10. Running = <<>>
  BY <1>1 DEF Running
<1>11. strings' = FlattenSeq(Parts(place))' \o Running' /\ strings' \in Seq(Strings)
  BY <1>1, <1>8, <1>9, <1>10 DEF StringsInv
<1>12. ScanPosition(b, e, 0)
  <2>1. ~CharAt(b, e, 0 - 1) /\ ~CharAt(b, e, 0 - 2)
    BY DEF CharAt
  <2> QED
    BY <2>1 DEF ScanPosition
<1>13. ASSUME NEW n \in scanned'
       PROVE  /\ n \in 1..Len(file.listed) /\ Candidate(file.listed[n])'
              /\ n <= place \/ n = place + 1
  <2>1. CASE n = place + 1
    BY <1>1, <1>2, <1>3, <1>4, <2>1 DEF Candidate
  <2>2. CASE n \in scanned
    BY <1>1, <2>2 DEF StringsInv, Candidate
  <2> QED
    BY <1>1, <2>1, <2>2
<1>14. /\ place' \in 0..Len(file.listed) /\ pass' \in 0..Len(Passes(file)) /\ 0 \in Nat
       /\ 0 <= Len(b) + 1 /\ place' + 1 \in scanned' /\ pass' # 0
  BY <1>1, <1>2, <1>3, <1>6
<1> QED
  BY <1>1, <1>7, <1>11, <1>12, <1>13, <1>14 DEF StringsInv

\* StringsInv does not depend on what else is collected.
LEMMA StringsKeep ==
  ASSUME CaseInv, StringsInv, UNCHANGED <<file, stringVars>>,
         pc' \notin {"allocate", "sections", "strings", "failed"} =>
           \/ pc \notin {"allocate", "sections", "strings", "failed"}
           \/ request.strings => pass = 0 /\ place = Len(file.listed)
  PROVE  StringsInv'
<1>1. /\ file' = file /\ request' = request /\ place' = place /\ pass' = pass /\ start' = start
      /\ scanned' = scanned /\ strings' = strings
  BY DEF stringVars
<1>2. FlattenSeq(Parts(place))' = FlattenSeq(Parts(place))
  <2>1. PICK m : m = place
    OBVIOUS
  <2>2. Parts(place)' = Parts(m)'
    BY <1>1, <2>1 DEF Parts
  <2>3. Parts(m)' = Parts(m)
    BY <1>1, PartsKept
  <2> QED
    BY <2>1, <2>2, <2>3
<1>3. Running' = Running
  BY <1>1 DEF Running, PassTexts, PassText, Current, Encoding, Bytes
<1>4. pass # 0 => /\ place < Len(file.listed) /\ place + 1 \in scanned
                  /\ start <= Len(Bytes)' + 1 /\ ScanPosition(Bytes, Encoding, start)'
  BY <1>1 DEF StringsInv, Current, Encoding, Bytes
<1>5. \A n \in scanned : Candidate(file.listed[n]) => Candidate(file.listed[n])'
  BY <1>1 DEF Candidate
<1>6. request.strings \in BOOLEAN
  BY CaseFacts
<1> QED
  BY <1>1, <1>2, <1>3, <1>4, <1>5, <1>6 DEF StringsInv

LEMMA StringsInvNext == CaseInv /\ StringsInv /\ [Next]_vars => StringsInv'
<1> SUFFICES ASSUME CaseInv, StringsInv, [Next]_vars PROVE StringsInv'
  OBVIOUS
<1>1. CASE CollectStrings
  <2>1. CASE StringsOutOfMemory \/ EndStrings
    <3>1. /\ UNCHANGED <<file, stringVars>>
          /\ pc' = "failed" \/ (request.strings => pass = 0 /\ place = Len(file.listed))
      BY <2>1 DEF StringsOutOfMemory, EndStrings
    <3> QED
      BY <3>1, StringsKeep
  <2> QED
    BY <1>1, <2>1, LeaveOutStep, ReadContentsStep, ScanTextStep, NextPassStep
       DEF CollectStrings, StringsNext
<1>2. CASE Allocate \/ ReportSection \/ CountTrailingBytes
  <2>1. UNCHANGED <<file, stringVars>> /\ pc' \in {"sections", "strings", "failed"}
    BY <1>2 DEF Allocate, ReportSection, CountTrailingBytes, collected
  <2> QED
    BY <2>1, StringsKeep
<1>3. CASE ReadFile \/ CollectNeeded \/ StartOverlay \/ ScanRule \/ EndSignatures \/ Finish
  <2>1. UNCHANGED <<file, stringVars>> /\ pc \notin {"allocate", "sections", "strings", "failed"}
    BY <1>3 DEF ReadFile, CollectNeeded, StartOverlay, ScanRule, EndSignatures, Finish, collected,
       NeededNext, ReadDynamic, DynamicOutOfMemory, ResolveStrings, AddNeeded, NeededOutOfMemory,
       SetTexts, DieBehindFile
  <2> QED
    BY <2>1, StringsKeep
<1>4. CASE CollectImports
  <2>1. UNCHANGED <<file, stringVars>> /\ pc \notin {"allocate", "sections", "strings", "failed"}
    BY <1>4 DEF CollectImports, ImportsNext, EndImports, ReadDescriptor, SkipDescriptor,
       TakeLibrary, LibraryOutOfMemory, TakeThunk, ThunkOutOfMemory, EndThunks, CountExports,
       Directories
  <2> QED
    BY <2>1, StringsKeep
<1>5. CASE CollectResources
  <2>1. UNCHANGED <<file, stringVars>> /\ pc \notin {"allocate", "sections", "strings", "failed"}
    BY <1>5 DEF CollectResources, ResourcesNext, FindResources, LeaveDirectory, EnterDirectory,
       SkipEntry, RecordResource, ResourcesOutOfMemory
  <2> QED
    BY <2>1, StringsKeep
<1>6. CASE UNCHANGED vars
  <2>1. UNCHANGED <<file, stringVars, pc>>
    BY <1>6 DEF vars, collected
  <2> QED
    BY <2>1, StringsKeep
<1> QED
  BY <1>1, <1>2, <1>3, <1>4, <1>5, <1>6 DEF Next

(***************************************************************************)
(* collect_strings_from_sections and collect_strings_from_buffer, for all  *)
(* contents of the sections: every run of characters that is long enough   *)
(* and has a meaning is extracted, once, at the first place it can begin,  *)
(* in the order of the sections, of the encodings and of the file.         *)
(***************************************************************************)
THEOREM StringsAreAllTheText == Spec => []StringsAreTheText
<1>1. Init => CaseInv /\ StringsInv
  BY CaseInvInit, StringsInvInit
<1>2. CaseInv /\ StringsInv => StringsAreTheText
  BY StringsInvImplies
<1> QED
  BY <1>1, <1>2, CaseInvNext, StringsInvNext, PTL DEF Spec

-----------------------------------------------------------------------------
\* PE addresses.

LEMMA ClaimantIs ==
  ASSUME NEW f, HasAddresses(f), NEW rva \in Nat, Claimants(f, rva) # {}
  PROVE  Claimant(f, rva) \in Section /\ rva >= Claimant(f, rva).virtualAddress
<1> DEFINE i == Lowest(Claimants(f, rva))
<1>1. Claimants(f, rva) \in SUBSET Nat
  BY DEF Claimants, HasAddresses
<1>2. i \in Claimants(f, rva)
  BY <1>1, LowestIs
<1>3. i \in DOMAIN f.sections /\ Claims(f.sections[i], rva)
  BY <1>2 DEF Claimants
<1>4. f.sections[i] \in Section /\ Claimant(f, rva) = f.sections[i]
  BY <1>3 DEF HasAddresses, Claimant
<1> QED
  BY <1>3, <1>4 DEF Claims

LEMMA SectionIs ==
  ASSUME NEW s \in Section
  PROVE  /\ s.virtualSize \in Nat /\ s.virtualAddress \in Nat
         /\ s.rawSize \in Nat /\ s.rawPointer \in Nat
BY WrapAssumption DEF Section, UInt32

\* What map_pe_rva_to_offset gives is an offset of the file.
LEMMA PeOffsetIs ==
  ASSUME NEW f, HasAddresses(f), NEW rva \in Nat
  PROVE  PeOffset(f, rva) = None \/ \E x \in Nat : x < f.size /\ PeOffset(f, rva) = Some(x)
<1>1. CASE rva < f.sizeOfHeaders /\ rva < f.size
  BY <1>1 DEF PeOffset
<1>2. CASE ~(rva < f.sizeOfHeaders /\ rva < f.size) /\ Claimants(f, rva) = {}
  BY <1>2 DEF PeOffset
<1>3. CASE ~(rva < f.sizeOfHeaders /\ rva < f.size) /\ Claimants(f, rva) # {}
  <2>1. PICK s \in Section : s = Claimant(f, rva) /\ rva >= s.virtualAddress
    BY <1>3, ClaimantIs
  <2>2. PICK x : x = s.rawPointer + (rva - s.virtualAddress)
    OBVIOUS
  <2>3. x \in Nat
    BY <2>1, <2>2, SectionIs
  <2>4. PeOffset(f, rva) = IF x < f.size THEN Some(x) ELSE None
    BY <1>3, <2>1, <2>2 DEF PeOffset
  <2> QED
    BY <2>3, <2>4
<1> QED
  BY <1>1, <1>2, <1>3

LEMMA PeSectionEndIs ==
  ASSUME NEW f, HasAddresses(f), NEW rva \in Nat
  PROVE  PeSectionEnd(f, rva) = None \/ \E x \in 0..f.size : PeSectionEnd(f, rva) = Some(x)
<1>1. CASE Claimants(f, rva) = {}
  BY <1>1 DEF PeSectionEnd
<1>2. CASE Claimants(f, rva) # {}
  <2>1. PICK s \in Section : s = Claimant(f, rva)
    BY <1>2, ClaimantIs
  <2>2. f.size \in Nat /\ s.rawPointer + s.rawSize \in Nat
    BY <2>1, SectionIs DEF HasAddresses
  <2>3. PICK x : x = IF s.rawPointer + s.rawSize > f.size THEN f.size ELSE s.rawPointer + s.rawSize
    OBVIOUS
  <2>4. x \in 0..f.size
    BY <2>2, <2>3
  <2>5. PeSectionEnd(f, rva) = IF s.rawPointer >= f.size THEN None ELSE Some(x)
    BY <1>2, <2>1, <2>3 DEF PeSectionEnd
  <2> QED
    BY <2>4, <2>5
<1> QED
  BY <1>1, <1>2

LEMMA TheSome == \A x : The(Some(x)) = x /\ Some(x) # None
BY DEF The, Some, None

-----------------------------------------------------------------------------
\* The paths of the resource tree.

LEMMA DirectoryIs ==
  ASSUME HasResources(file), NEW o
  PROVE  /\ Directory(o) \in Seq(DirectoryEntry) /\ Len(Directory(o)) \in Nat
         /\ DOMAIN Directory(o) = 1..Len(Directory(o))
         /\ IsFiniteSet(StepsFrom(o))
         /\ \A i \in 1..Len(Directory(o)) :
              /\ Directory(o)[i] \in DirectoryEntry
              /\ Directory(o)[i].to \in Nat /\ Directory(o)[i].sub \in BOOLEAN
         /\ \A i \in StepsFrom(o) : i \in 1..Len(Directory(o)) /\ i \in Nat /\ Readable(o)
<1>1. Directory(o) \in Seq(DirectoryEntry)
  BY DEF HasResources, Directory
<1>2. PICK d \in Seq(DirectoryEntry) : d = Directory(o)
  BY <1>1
<1>3. Len(d) \in Nat /\ DOMAIN d = 1..Len(d) /\ \A i \in 1..Len(d) : d[i] \in DirectoryEntry
  BY <1>2
<1>4. \A i \in 1..Len(d) : d[i].to \in Nat /\ d[i].sub \in BOOLEAN
  BY <1>3 DEF DirectoryEntry
<1>5. IsFiniteSet(1..Len(d)) /\ IsFiniteSet({})
  BY <1>3, FS_Interval, FS_EmptySet
<1>6. StepsFrom(o) = IF Readable(o) THEN 1..Len(d) ELSE {}
  BY <1>2, <1>3 DEF StepsFrom
<1> QED
  BY <1>2, <1>3, <1>4, <1>5, <1>6

\* p with one more step, i, in the directory it leads to.
Extended(p, i) ==
  [steps |-> Append(p.steps, i), entries |-> Append(p.entries, Directory(p.to)[i]),
   to |-> base + Directory(p.to)[i].to]

Deeper(P) ==
  UNION {{Extended(p, i) : i \in {i \in StepsFrom(p.to) : Directory(p.to)[i].sub}} : p \in P}

Root == [steps |-> <<>>, entries |-> <<>>, to |-> base]

LEMMA PathsAtIs ==
  /\ PathsAt[0] = {Root}
  /\ \A d \in 0..3 : PathsAt[d + 1] = Deeper(PathsAt[d])
<1> DEFINE A0 == {Root}
           A1 == Deeper(A0)
           A2 == Deeper(A1)
           A3 == Deeper(A2)
           A4 == Deeper(A3)
           G(f) == [d \in 0..MaxDepth |-> IF d = 0 THEN {Root} ELSE Deeper(f[d - 1])]
           g == [d \in 0..4 |-> IF d = 0 THEN A0 ELSE IF d = 1 THEN A1 ELSE IF d = 2 THEN A2
                                ELSE IF d = 3 THEN A3 ELSE A4]
<1>1. PathsAt = CHOOSE f : f = G(f)
  BY DEF PathsAt, Deeper, Extended, Root
<1>2. g[0] = A0 /\ g[1] = A1 /\ g[2] = A2 /\ g[3] = A3 /\ g[4] = A4
  OBVIOUS
<1>3. \A d \in 0..4 : g[d] = IF d = 0 THEN {Root} ELSE Deeper(g[d - 1])
  <2>1. A0 = {Root} /\ A1 = Deeper(A0) /\ A2 = Deeper(A1) /\ A3 = Deeper(A2) /\ A4 = Deeper(A3)
    OBVIOUS
  <2> HIDE DEF A0, A1, A2, A3, A4, g
  <2>2. \A d \in 0..4 : d = 0 \/ d = 1 \/ d = 2 \/ d = 3 \/ d = 4
    OBVIOUS
  <2> QED
    BY <1>2, <2>1, <2>2
<1>4. g = [d \in 0..4 |-> g[d]]
  OBVIOUS
<1> HIDE DEF g, A0, A1, A2, A3, A4
<1>5. g = G(g)
  BY <1>3, <1>4 DEF MaxDepth
<1> HIDE DEF G
<1>6. PathsAt = G(PathsAt)
  BY <1>1, <1>5
<1>7. \A d \in 0..4 : PathsAt[d] = IF d = 0 THEN {Root} ELSE Deeper(PathsAt[d - 1])
  BY <1>6 DEF G, MaxDepth
<1>8. PathsAt[0] = {Root}
  BY <1>7
<1>9. ASSUME NEW d \in 0..3 PROVE PathsAt[d + 1] = Deeper(PathsAt[d])
  <2>1. d + 1 \in 0..4 /\ d + 1 # 0 /\ (d + 1) - 1 = d
    OBVIOUS
  <2> QED
    BY <1>7, <2>1
<1> QED
  BY <1>8, <1>9

LEMMA ImageIsFinite ==
  ASSUME NEW S, IsFiniteSet(S), NEW f
  PROVE  IsFiniteSet({f[x] : x \in S})
<1> DEFINE T == {f[x] : x \in S}
           g == [x \in S |-> f[x]]
<1>1. g \in [S -> T] /\ \A y \in T : \E x \in S : g[x] = y
  OBVIOUS
<1>2. g \in Surjection(S, T)
  BY <1>1 DEF Surjection
<1> HIDE DEF g, T
<1>3. IsFiniteSet(T)
  BY <1>2, FS_Surjection
<1> QED
  BY <1>3 DEF T

LEMMA DeeperIs ==
  ASSUME NEW P, NEW x
  PROVE  x \in Deeper(P) <=> \E p \in P : \E i \in StepsFrom(p.to) :
                               Directory(p.to)[i].sub /\ x = Extended(p, i)
BY DEF Deeper

LEMMA DeeperIsFinite ==
  ASSUME HasResources(file), NEW P, IsFiniteSet(P)
  PROVE  IsFiniteSet(Deeper(P))
<1> DEFINE Subs(p) == {i \in StepsFrom(p.to) : Directory(p.to)[i].sub}
           Images(p) == {Extended(p, i) : i \in Subs(p)}
           All == {Images(p) : p \in P}
<1>1. ASSUME NEW p \in P PROVE IsFiniteSet(Images(p))
  <2>1. IsFiniteSet(Subs(p))
    <3>1. IsFiniteSet(StepsFrom(p.to)) /\ Subs(p) \subseteq StepsFrom(p.to)
      BY DirectoryIs
    <3> QED
      BY <3>1, FS_Subset
  <2>2. PICK S : S = Subs(p)
    OBVIOUS
  <2> DEFINE f == [i \in S |-> Extended(p, i)]
  <2>3. IsFiniteSet({f[i] : i \in S})
    <3> HIDE DEF f
    <3> QED
      BY <2>1, <2>2, ImageIsFinite
  <2>4. Images(p) = {f[i] : i \in S}
    BY <2>2
  <2> QED
    BY <2>3, <2>4
<1>2. IsFiniteSet(All)
  <2> DEFINE f == [p \in P |-> Images(p)]
  <2>1. All = {f[p] : p \in P}
    OBVIOUS
  <2> HIDE DEF f, All
  <2> QED
    BY <2>1, ImageIsFinite
<1>3. \A A \in All : IsFiniteSet(A)
  BY <1>1
<1>4. Deeper(P) = UNION All
  BY DEF Deeper
<1> HIDE DEF All
<1> QED
  BY <1>2, <1>3, <1>4, FS_UNION

LEMMA PathsAtAreFinite ==
  ASSUME HasResources(file)
  PROVE  \A d \in 0..4 : IsFiniteSet(PathsAt[d])
<1>1. IsFiniteSet(PathsAt[0])
  BY PathsAtIs, FS_Singleton
<1>2. IsFiniteSet(PathsAt[1])
  <2>1. 0 \in 0..3 /\ 0 + 1 = 1
    OBVIOUS
  <2> QED
    BY <1>1, <2>1, PathsAtIs, DeeperIsFinite
<1>3. IsFiniteSet(PathsAt[2])
  <2>1. 1 \in 0..3 /\ 1 + 1 = 2
    OBVIOUS
  <2> QED
    BY <1>2, <2>1, PathsAtIs, DeeperIsFinite
<1>4. IsFiniteSet(PathsAt[3])
  <2>1. 2 \in 0..3 /\ 2 + 1 = 3
    OBVIOUS
  <2> QED
    BY <1>3, <2>1, PathsAtIs, DeeperIsFinite
<1>5. IsFiniteSet(PathsAt[4])
  <2>1. 3 \in 0..3 /\ 3 + 1 = 4
    OBVIOUS
  <2> QED
    BY <1>4, <2>1, PathsAtIs, DeeperIsFinite
<1> QED
  BY <1>1, <1>2, <1>3, <1>4, <1>5

LEMMA ResourcePathsAreFinite ==
  ASSUME HasResources(file)
  PROVE  IsFiniteSet(ResourcePaths)
<1> DEFINE P == UNION {PathsAt[d] : d \in 2..MaxDepth}
           Leaves(p) == {i \in StepsFrom(p.to) : /\ ~Directory(p.to)[i].sub
                                                 /\ InSection(base + Directory(p.to)[i].to, 16)}
           Images(p) == {[steps |-> Append(p.steps, i), entries |-> Append(p.entries, Directory(p.to)[i])]
                           : i \in Leaves(p)}
           All == {Images(p) : p \in P}
<1>0. IsFiniteSet(P)
  <2>1. IsFiniteSet({PathsAt[2], PathsAt[3], PathsAt[4]})
    <3>1. IsFiniteSet({PathsAt[2]})
      BY FS_Singleton
    <3>2. IsFiniteSet({PathsAt[2]} \cup {PathsAt[3]})
      BY <3>1, FS_AddElement
    <3>3. IsFiniteSet(({PathsAt[2]} \cup {PathsAt[3]}) \cup {PathsAt[4]})
      BY <3>2, FS_AddElement
    <3>4. ({PathsAt[2]} \cup {PathsAt[3]}) \cup {PathsAt[4]} = {PathsAt[2], PathsAt[3], PathsAt[4]}
      OBVIOUS
    <3> QED
      BY <3>3, <3>4
  <2>2. \A A \in {PathsAt[2], PathsAt[3], PathsAt[4]} : IsFiniteSet(A)
    BY PathsAtAreFinite
  <2>3. {PathsAt[d] : d \in 2..MaxDepth} = {PathsAt[2], PathsAt[3], PathsAt[4]}
    <3>1. \A d : d \in 2..4 <=> (d = 2 \/ d = 3 \/ d = 4)
      OBVIOUS
    <3> QED
      BY <3>1 DEF MaxDepth
  <2> QED
    BY <2>1, <2>2, <2>3, FS_UNION
<1> HIDE DEF P
<1>1. ASSUME NEW p \in P PROVE IsFiniteSet(Images(p))
  <2>1. IsFiniteSet(Leaves(p))
    <3>1. IsFiniteSet(StepsFrom(p.to)) /\ Leaves(p) \subseteq StepsFrom(p.to)
      BY DirectoryIs
    <3> QED
      BY <3>1, FS_Subset
  <2>2. PICK S : S = Leaves(p)
    OBVIOUS
  <2> DEFINE f == [i \in S |-> [steps |-> Append(p.steps, i),
                                entries |-> Append(p.entries, Directory(p.to)[i])]]
  <2>3. IsFiniteSet({f[i] : i \in S})
    <3> HIDE DEF f
    <3> QED
      BY <2>1, <2>2, ImageIsFinite
  <2>4. Images(p) = {f[i] : i \in S}
    BY <2>2
  <2> QED
    BY <2>3, <2>4
<1>2. IsFiniteSet(All)
  <2> DEFINE f == [p \in P |-> Images(p)]
  <2>1. All = {f[p] : p \in P}
    OBVIOUS
  <2> HIDE DEF f, All
  <2> QED
    BY <1>0, <2>1, ImageIsFinite
<1>3. \A A \in All : IsFiniteSet(A)
  BY <1>1
<1>4. ResourcePaths = UNION All
  BY DEF ResourcePaths, P
<1> HIDE DEF All
<1> QED
  BY <1>2, <1>3, <1>4, FS_UNION

\* dirs are the directories along the first n steps of a path.
Leads(p, n, dirs) ==
  /\ dirs[1] = base
  /\ \A k \in 1..n :
       /\ p.steps[k] \in StepsFrom(dirs[k])
       /\ Directory(dirs[k])[p.steps[k]].sub
       /\ p.entries[k] = Directory(dirs[k])[p.steps[k]]
       /\ dirs[k + 1] = base + Directory(dirs[k])[p.steps[k]].to

\* The paths of n subdirectories.
DirectoryPath(p, n) ==
  /\ p \in [steps : Seq(Nat), entries : Seq(DirectoryEntry), to : Nat]
  /\ Len(p.steps) = n /\ Len(p.entries) = n
  /\ \E dirs \in [1..(n + 1) -> Nat] : Leads(p, n, dirs) /\ p.to = dirs[n + 1]

\* A path and one more step.
LEMMA ExtendedIs ==
  ASSUME HasResources(file), base \in Nat, NEW n \in Nat, NEW p, DirectoryPath(p, n),
         NEW i \in StepsFrom(p.to), Directory(p.to)[i].sub
  PROVE  DirectoryPath(Extended(p, i), n + 1)
<1>1. /\ p.steps \in Seq(Nat) /\ p.entries \in Seq(DirectoryEntry) /\ p.to \in Nat
      /\ Len(p.steps) = n /\ Len(p.entries) = n
  BY DEF DirectoryPath
<1>2. PICK dirs \in [1..(n + 1) -> Nat] : Leads(p, n, dirs) /\ p.to = dirs[n + 1]
  BY DEF DirectoryPath
<1>3. PICK e : e = Directory(p.to)[i]
  OBVIOUS
<1>4. i \in Nat /\ e \in DirectoryEntry /\ e.to \in Nat /\ e.sub
  BY <1>3, DirectoryIs
<1>5. PICK s, t : s = Append(p.steps, i) /\ t = Append(p.entries, e)
  OBVIOUS
<1>6. /\ s \in Seq(Nat) /\ Len(s) = n + 1 /\ s[n + 1] = i /\ \A k \in 1..n : s[k] = p.steps[k]
  <2>1. PICK w \in Seq(Nat) : w = p.steps
    BY <1>1
  <2>2. s = Append(w, i) /\ Len(w) = n
    BY <1>1, <1>5, <2>1
  <2>3. /\ s \in Seq(Nat) /\ Len(s) = Len(w) + 1 /\ s[Len(w) + 1] = i
        /\ \A k \in 1..Len(w) : s[k] = w[k]
    BY <1>4, <2>1, <2>2, AppendIs
  <2> QED
    BY <2>1, <2>2, <2>3
<1>7. /\ t \in Seq(DirectoryEntry) /\ Len(t) = n + 1 /\ t[n + 1] = e
      /\ \A k \in 1..n : t[k] = p.entries[k]
  <2>1. PICK w \in Seq(DirectoryEntry) : w = p.entries
    BY <1>1
  <2>2. t = Append(w, e) /\ Len(w) = n
    BY <1>1, <1>5, <2>1
  <2>3. /\ t \in Seq(DirectoryEntry) /\ Len(t) = Len(w) + 1 /\ t[Len(w) + 1] = e
        /\ \A k \in 1..Len(w) : t[k] = w[k]
    BY <1>4, <2>1, <2>2, AppendIs
  <2> QED
    BY <2>1, <2>2, <2>3
<1>8. PICK q : q = Extended(p, i)
  OBVIOUS
<1>9. q = [steps |-> s, entries |-> t, to |-> base + e.to]
  BY <1>3, <1>5, <1>8 DEF Extended
<1>10. q.steps = s /\ q.entries = t /\ q.to = base + e.to /\ base + e.to \in Nat
       /\ q \in [steps : Seq(Nat), entries : Seq(DirectoryEntry), to : Nat]
  BY <1>4, <1>6, <1>7, <1>9
<1>11. PICK more : more = [k \in 1..(n + 2) |-> IF k = n + 2 THEN base + e.to ELSE dirs[k]]
  OBVIOUS
<1>12. /\ more \in [1..(n + 2) -> Nat] /\ more[n + 2] = base + e.to
       /\ \A k \in 1..(n + 1) : more[k] = dirs[k]
  <2>1. \A k \in 1..(n + 2) : k = n + 2 \/ k \in 1..(n + 1)
    OBVIOUS
  <2> QED
    BY <1>2, <1>10, <1>11, <2>1
<1>13. ASSUME NEW k \in 1..(n + 1)
       PROVE  /\ s[k] \in StepsFrom(more[k]) /\ Directory(more[k])[s[k]].sub
              /\ t[k] = Directory(more[k])[s[k]]
              /\ more[k + 1] = base + Directory(more[k])[s[k]].to
  <2>1. CASE k \in 1..n
    <3>1. s[k] = p.steps[k] /\ t[k] = p.entries[k] /\ more[k] = dirs[k] /\ more[k + 1] = dirs[k + 1]
      <4>1. k + 1 \in 1..(n + 1)
        BY <2>1
      <4> QED
        BY <1>6, <1>7, <1>12, <2>1, <4>1
    <3> QED
      BY <1>2, <2>1, <3>1 DEF Leads
  <2>2. CASE k \notin 1..n
    <3>1. k = n + 1 /\ k + 1 = n + 2
      BY <2>2
    <3>2. s[k] = i /\ t[k] = e /\ more[k] = p.to /\ more[k + 1] = base + e.to
      BY <1>2, <1>6, <1>7, <1>12, <3>1
    <3> QED
      BY <1>3, <1>4, <3>2
  <2> QED
    BY <2>1, <2>2
<1>14. more[1] = base
  <2>1. 1 \in 1..(n + 1)
    OBVIOUS
  <2> QED
    BY <1>2, <1>12, <2>1 DEF Leads
<1>15. Leads(q, n + 1, more)
  BY <1>10, <1>13, <1>14 DEF Leads
<1>16. (n + 1) + 1 = n + 2
  OBVIOUS
<1> QED
  BY <1>6, <1>7, <1>8, <1>10, <1>12, <1>15, <1>16 DEF DirectoryPath

\* A path without its last step.
LEMMA ShortenedIs ==
  ASSUME HasResources(file), base \in Nat, NEW n \in Nat, NEW s \in Seq(Nat),
         NEW t \in Seq(DirectoryEntry), Len(s) >= n, Len(t) >= n, NEW p, p.steps = s, p.entries = t,
         NEW m \in Nat, m >= n + 1, NEW dirs \in [1..m -> Nat], Leads(p, n, dirs)
  PROVE  DirectoryPath([steps |-> SubSeq(s, 1, n), entries |-> SubSeq(t, 1, n), to |-> dirs[n + 1]], n)
<1>1. PICK u, v : u = SubSeq(s, 1, n) /\ v = SubSeq(t, 1, n)
  OBVIOUS
<1>2. u \in Seq(Nat) /\ Len(u) = n /\ \A k \in 1..n : u[k] = s[k]
  BY <1>1
<1>3. v \in Seq(DirectoryEntry) /\ Len(v) = n /\ \A k \in 1..n : v[k] = t[k]
  BY <1>1
<1>4. PICK q : q = [steps |-> u, entries |-> v, to |-> dirs[n + 1]]
  OBVIOUS
<1>5. q.steps = u /\ q.entries = v /\ q.to = dirs[n + 1]
  BY <1>4
<1>6. dirs[n + 1] \in Nat
  OBVIOUS
<1>7. q \in [steps : Seq(Nat), entries : Seq(DirectoryEntry), to : Nat]
  BY <1>2, <1>3, <1>4, <1>6
<1>8. PICK less : less = [k \in 1..(n + 1) |-> dirs[k]]
  OBVIOUS
<1>9. /\ less \in [1..(n + 1) -> Nat] /\ \A k \in 1..(n + 1) : less[k] = dirs[k]
  BY <1>8
<1>10. ASSUME NEW k \in 1..n
       PROVE  /\ u[k] = s[k] /\ v[k] = t[k] /\ less[k] = dirs[k] /\ less[k + 1] = dirs[k + 1]
  <2>1. k \in 1..(n + 1) /\ k + 1 \in 1..(n + 1)
    OBVIOUS
  <2> QED
    BY <1>2, <1>3, <1>9, <2>1
<1>11. less[1] = base
  <2>1. 1 \in 1..(n + 1)
    OBVIOUS
  <2> QED
    BY <1>9, <2>1 DEF Leads
<1>12. Leads(q, n, less)
  <2>1. \A k \in 1..n : /\ s[k] \in StepsFrom(dirs[k]) /\ Directory(dirs[k])[s[k]].sub
                        /\ t[k] = Directory(dirs[k])[s[k]]
                        /\ dirs[k + 1] = base + Directory(dirs[k])[s[k]].to
    BY DEF Leads
  <2> QED
    BY <1>5, <1>10, <1>11, <2>1 DEF Leads
<1>13. q.to = less[n + 1]
  <2>1. n + 1 \in 1..(n + 1)
    OBVIOUS
  <2> QED
    BY <1>5, <1>9, <2>1
<1> QED
  BY <1>1, <1>2, <1>3, <1>4, <1>5, <1>7, <1>9, <1>12, <1>13 DEF DirectoryPath

LEMMA LastStepIs ==
  ASSUME NEW S, NEW s \in Seq(S), NEW n \in Nat, Len(s) = n + 1
  PROVE  s = Append(SubSeq(s, 1, n), s[n + 1]) /\ SubSeq(s, 1, n) \in Seq(S)
OBVIOUS

LEMMA RootIs ==
  ASSUME base \in Nat
  PROVE  \A p : p = Root <=> DirectoryPath(p, 0)
<1>1. DirectoryPath(Root, 0)
  <2>1. Root \in [steps : Seq(Nat), entries : Seq(DirectoryEntry), to : Nat]
        /\ Root.steps = <<>> /\ Root.entries = <<>> /\ Root.to = base
    BY DEF Root
  <2>2. PICK dirs : dirs = [k \in 1..1 |-> base]
    OBVIOUS
  <2>3. dirs \in [1..1 -> Nat] /\ dirs[1] = base
    BY <2>2
  <2>4. Leads(Root, 0, dirs)
    BY <2>3 DEF Leads
  <2>5. dirs \in [1..(0 + 1) -> Nat] /\ Root.to = dirs[0 + 1]
    BY <2>1, <2>3
  <2>6. Len(Root.steps) = 0 /\ Len(Root.entries) = 0
    BY <2>1
  <2> QED
    BY <2>1, <2>4, <2>5, <2>6 DEF DirectoryPath
<1>2. ASSUME NEW p, DirectoryPath(p, 0) PROVE p = Root
  <2>1. /\ p \in [steps : Seq(Nat), entries : Seq(DirectoryEntry), to : Nat]
        /\ Len(p.steps) = 0 /\ Len(p.entries) = 0
    BY <1>2 DEF DirectoryPath
  <2>2. PICK dirs : Leads(p, 0, dirs) /\ p.to = dirs[0 + 1]
    BY <1>2 DEF DirectoryPath
  <2>3. p.to = base
    BY <2>2 DEF Leads
  <2>4. p.steps = <<>> /\ p.entries = <<>>
    <3>1. \A S : \A s \in Seq(S) : Len(s) = 0 => s = <<>>
      OBVIOUS
    <3>2. p.steps \in Seq(Nat) /\ p.entries \in Seq(DirectoryEntry)
      BY <2>1
    <3> QED
      BY <2>1, <3>1, <3>2
  <2>5. p = [steps |-> p.steps, entries |-> p.entries, to |-> p.to]
    BY <2>1
  <2> QED
    BY <2>3, <2>4, <2>5 DEF Root
<1> QED
  BY <1>1, <1>2

LEMMA PathsAtAre ==
  ASSUME HasResources(file), base \in Nat
  PROVE  \A d \in 0..4 : \A p : p \in PathsAt[d] <=> DirectoryPath(p, d)
<1> DEFINE P == {d \in Nat : d <= 4 => \A p : p \in PathsAt[d] <=> DirectoryPath(p, d)}
<1>1. 0 \in P
  <2>1. \A p : p \in PathsAt[0] <=> p = Root
    BY PathsAtIs
  <2> QED
    BY <2>1, RootIs
<1>2. ASSUME NEW d \in Nat, d \in P PROVE d + 1 \in P
  <2>1. SUFFICES ASSUME d + 1 <= 4, NEW p PROVE p \in PathsAt[d + 1] <=> DirectoryPath(p, d + 1)
    OBVIOUS
  <2>2. d \in 0..3 /\ \A q : q \in PathsAt[d] <=> DirectoryPath(q, d)
    BY <1>2, <2>1
  <2>3. p \in PathsAt[d + 1] <=> \E q \in PathsAt[d] : \E i \in StepsFrom(q.to) :
                                   Directory(q.to)[i].sub /\ p = Extended(q, i)
    BY <2>2, PathsAtIs, DeeperIs
  <2>4. ASSUME p \in PathsAt[d + 1] PROVE DirectoryPath(p, d + 1)
    <3>0. PICK q \in PathsAt[d] : \E i \in StepsFrom(q.to) : Directory(q.to)[i].sub /\ p = Extended(q, i)
      BY <2>3, <2>4
    <3>1. PICK i \in StepsFrom(q.to) : Directory(q.to)[i].sub /\ p = Extended(q, i)
      BY <3>0
    <3>2. DirectoryPath(q, d)
      BY <2>2, <3>1
    <3> QED
      BY <3>1, <3>2, ExtendedIs
  <2>5. ASSUME DirectoryPath(p, d + 1) PROVE p \in PathsAt[d + 1]
    <3>1. /\ p \in [steps : Seq(Nat), entries : Seq(DirectoryEntry), to : Nat]
          /\ Len(p.steps) = d + 1 /\ Len(p.entries) = d + 1
      BY <2>5 DEF DirectoryPath
    <3>2. PICK dirs \in [1..((d + 1) + 1) -> Nat] : Leads(p, d + 1, dirs) /\ p.to = dirs[(d + 1) + 1]
      BY <2>5 DEF DirectoryPath
    <3>3. PICK s \in Seq(Nat), t \in Seq(DirectoryEntry), m \in Nat :
            s = p.steps /\ t = p.entries /\ m = (d + 1) + 1
      BY <3>1
    <3>4. Leads(p, d, dirs) /\ dirs \in [1..m -> Nat] /\ m >= d + 1
      <4>1. \A k \in 1..d : k \in 1..(d + 1)
        OBVIOUS
      <4> QED
        BY <3>2, <3>3, <4>1 DEF Leads
    <3>5. PICK q : q = [steps |-> SubSeq(s, 1, d), entries |-> SubSeq(t, 1, d), to |-> dirs[d + 1]]
      OBVIOUS
    <3>6. DirectoryPath(q, d)
      <4>1. Len(s) >= d /\ Len(t) >= d
        BY <3>1, <3>3
      <4> QED
        BY <3>3, <3>4, <3>5, <4>1, ShortenedIs
    <3>7. PICK i : i = s[d + 1]
      OBVIOUS
    <3>8. d + 1 \in 1..(d + 1) /\ q.steps = SubSeq(s, 1, d) /\ q.entries = SubSeq(t, 1, d) /\ q.to = dirs[d + 1]
      BY <3>5
    <3>9. /\ i \in StepsFrom(q.to) /\ Directory(q.to)[i].sub /\ t[d + 1] = Directory(q.to)[i]
          /\ p.to = base + Directory(q.to)[i].to
      BY <3>2, <3>3, <3>7, <3>8 DEF Leads
    <3>10. s = Append(q.steps, i) /\ t = Append(q.entries, Directory(q.to)[i])
      <4>1. Len(s) = d + 1 /\ Len(t) = d + 1
        BY <3>1, <3>3
      <4>2. s = Append(SubSeq(s, 1, d), s[d + 1]) /\ t = Append(SubSeq(t, 1, d), t[d + 1])
        BY <4>1, LastStepIs
      <4> QED
        BY <3>7, <3>8, <3>9, <4>2
    <3>11. p = Extended(q, i)
      <4>1. p = [steps |-> p.steps, entries |-> p.entries, to |-> p.to]
        BY <3>1
      <4> QED
        BY <3>3, <3>9, <3>10, <4>1 DEF Extended
    <3> QED
      BY <2>2, <2>3, <3>6, <3>9, <3>11
  <2> QED
    BY <2>4, <2>5
<1> HIDE DEF P
<1>3. \A d \in Nat : d \in P
  BY <1>1, <1>2, Induction
<1> QED
  BY <1>3 DEF P

\* dirs are the directories on the way to a resource, which the last step finds.
Reaches(p, n, dirs) ==
  /\ Leads(p, n - 1, dirs)
  /\ p.steps[n] \in StepsFrom(dirs[n])
  /\ ~Directory(dirs[n])[p.steps[n]].sub
  /\ p.entries[n] = Directory(dirs[n])[p.steps[n]]
  /\ InSection(base + Directory(dirs[n])[p.steps[n]].to, 16)

ResourcePath(p) ==
  /\ p \in [steps : Seq(Nat), entries : Seq(DirectoryEntry)]
  /\ \E n \in 3..5 : /\ Len(p.steps) = n /\ Len(p.entries) = n
                     /\ \E dirs \in [1..n -> Nat] : Reaches(p, n, dirs)

LEMMA ResourcePathsAre ==
  ASSUME HasResources(file), base \in Nat
  PROVE  \A p : p \in ResourcePaths <=> ResourcePath(p)
<1> TAKE p
<1>1. p \in ResourcePaths <=>
        \E d \in 2..4 : \E q \in PathsAt[d] : \E i \in StepsFrom(q.to) :
          /\ ~Directory(q.to)[i].sub /\ InSection(base + Directory(q.to)[i].to, 16)
          /\ p = [steps |-> Append(q.steps, i), entries |-> Append(q.entries, Directory(q.to)[i])]
  <2> DEFINE Directories4 == UNION {PathsAt[d] : d \in 2..4}
             From(q) == {[steps |-> Append(q.steps, i), entries |-> Append(q.entries, Directory(q.to)[i])]
                           : i \in {i \in StepsFrom(q.to) : /\ ~Directory(q.to)[i].sub
                                                           /\ InSection(base + Directory(q.to)[i].to, 16)}}
  <2>1. ResourcePaths = UNION {From(q) : q \in Directories4}
    BY DEF ResourcePaths, MaxDepth
  <2>2. \A q : q \in Directories4 <=> \E d \in 2..4 : q \in PathsAt[d]
    OBVIOUS
  <2>3. \A q : p \in From(q) <=>
          \E i \in StepsFrom(q.to) :
            /\ ~Directory(q.to)[i].sub /\ InSection(base + Directory(q.to)[i].to, 16)
            /\ p = [steps |-> Append(q.steps, i), entries |-> Append(q.entries, Directory(q.to)[i])]
    OBVIOUS
  <2>4. \A A : p \in UNION {From(q) : q \in A} <=> \E q \in A : p \in From(q)
    <3> HIDE DEF From
    <3> QED
      OBVIOUS
  <2> HIDE DEF Directories4, From
  <2> QED
    BY <2>1, <2>2, <2>3, <2>4
<1>2. \A d \in 2..4 : \A q : q \in PathsAt[d] <=> DirectoryPath(q, d)
  <2>1. \A d \in 2..4 : d \in 0..4
    OBVIOUS
  <2> QED
    BY <2>1, PathsAtAre
<1>3. ASSUME p \in ResourcePaths PROVE ResourcePath(p)
  <2>1. PICK d \in 2..4 : \E q \in PathsAt[d] : \E i \in StepsFrom(q.to) :
          /\ ~Directory(q.to)[i].sub /\ InSection(base + Directory(q.to)[i].to, 16)
          /\ p = [steps |-> Append(q.steps, i), entries |-> Append(q.entries, Directory(q.to)[i])]
    BY <1>1, <1>3
  <2>0. PICK q \in PathsAt[d] : \E i \in StepsFrom(q.to) :
          /\ ~Directory(q.to)[i].sub /\ InSection(base + Directory(q.to)[i].to, 16)
          /\ p = [steps |-> Append(q.steps, i), entries |-> Append(q.entries, Directory(q.to)[i])]
    BY <2>1
  <2>2. PICK i \in StepsFrom(q.to) :
          /\ ~Directory(q.to)[i].sub /\ InSection(base + Directory(q.to)[i].to, 16)
          /\ p = [steps |-> Append(q.steps, i), entries |-> Append(q.entries, Directory(q.to)[i])]
    BY <2>0
  <2>3. DirectoryPath(q, d)
    BY <1>2, <2>2
  <2>4. PICK w \in Seq(Nat), v \in Seq(DirectoryEntry) :
          w = q.steps /\ v = q.entries /\ Len(w) = d /\ Len(v) = d
    BY <2>3 DEF DirectoryPath
  <2>5. PICK dirs \in [1..(d + 1) -> Nat] : Leads(q, d, dirs) /\ q.to = dirs[d + 1]
    BY <2>3 DEF DirectoryPath
  <2>6. PICK e : e = Directory(q.to)[i]
    OBVIOUS
  <2>7. i \in Nat /\ e \in DirectoryEntry
    BY <2>2, <2>6, DirectoryIs
  <2>8. PICK s, t : s = Append(w, i) /\ t = Append(v, e)
    OBVIOUS
  <2>9. /\ s \in Seq(Nat) /\ Len(s) = d + 1 /\ s[d + 1] = i /\ \A k \in 1..d : s[k] = w[k]
    BY <2>4, <2>7, <2>8, AppendIs
  <2>10. /\ t \in Seq(DirectoryEntry) /\ Len(t) = d + 1 /\ t[d + 1] = e /\ \A k \in 1..d : t[k] = v[k]
    BY <2>4, <2>7, <2>8, AppendIs
  <2>11. p = [steps |-> s, entries |-> t]
    BY <2>2, <2>4, <2>6, <2>8
  <2>12. p.steps = s /\ p.entries = t /\ p \in [steps : Seq(Nat), entries : Seq(DirectoryEntry)]
    BY <2>9, <2>10, <2>11
  <2>13. Leads(p, d, dirs)
    BY <2>4, <2>5, <2>9, <2>10, <2>12 DEF Leads
  <2>14. (d + 1) - 1 = d /\ d + 1 \in 3..5
    OBVIOUS
  <2>15. Reaches(p, d + 1, dirs)
    BY <2>2, <2>5, <2>6, <2>9, <2>10, <2>12, <2>13, <2>14 DEF Reaches
  <2> QED
    BY <2>9, <2>10, <2>12, <2>14, <2>15 DEF ResourcePath
<1>4. ASSUME ResourcePath(p) PROVE p \in ResourcePaths
  <2>1. PICK n \in 3..5 : /\ Len(p.steps) = n /\ Len(p.entries) = n
                          /\ \E dirs \in [1..n -> Nat] : Reaches(p, n, dirs)
    BY <1>4 DEF ResourcePath
  <2>2. PICK dirs \in [1..n -> Nat] : Reaches(p, n, dirs)
    BY <2>1
  <2>3. PICK d \in 2..4 : n = d + 1
    <3>1. n - 1 \in 2..4 /\ n = (n - 1) + 1
      OBVIOUS
    <3> QED
      BY <3>1
  <2>4. PICK s \in Seq(Nat), t \in Seq(DirectoryEntry) :
          s = p.steps /\ t = p.entries /\ Len(s) = d + 1 /\ Len(t) = d + 1
    BY <1>4, <2>1, <2>3 DEF ResourcePath
  <2>5. Leads(p, d, dirs) /\ dirs \in [1..(d + 1) -> Nat]
    BY <2>2, <2>3 DEF Reaches
  <2>6. PICK q : q = [steps |-> SubSeq(s, 1, d), entries |-> SubSeq(t, 1, d), to |-> dirs[d + 1]]
    OBVIOUS
  <2>7. DirectoryPath(q, d)
    <3>1. d \in Nat /\ d + 1 \in Nat /\ d + 1 >= d + 1 /\ Len(s) >= d /\ Len(t) >= d
      BY <2>4
    <3>2. PICK m \in Nat : m = d + 1
      BY <3>1
    <3> QED
      BY <2>4, <2>5, <2>6, <3>1, <3>2, ShortenedIs
  <2>8. PICK i : i = s[d + 1]
    OBVIOUS
  <2>9. q.steps = SubSeq(s, 1, d) /\ q.entries = SubSeq(t, 1, d) /\ q.to = dirs[d + 1]
    BY <2>6
  <2>10. /\ i \in StepsFrom(q.to) /\ ~Directory(q.to)[i].sub /\ t[d + 1] = Directory(q.to)[i]
         /\ InSection(base + Directory(q.to)[i].to, 16)
    BY <2>2, <2>3, <2>4, <2>8, <2>9 DEF Reaches
  <2>11. s = Append(q.steps, i) /\ t = Append(q.entries, Directory(q.to)[i])
    <3>1. s = Append(SubSeq(s, 1, d), s[d + 1]) /\ t = Append(SubSeq(t, 1, d), t[d + 1])
      BY <2>4, LastStepIs
    <3> QED
      BY <2>8, <2>9, <2>10, <3>1
  <2>12. p = [steps |-> Append(q.steps, i), entries |-> Append(q.entries, Directory(q.to)[i])]
    <3>1. p = [steps |-> p.steps, entries |-> p.entries]
      BY <1>4 DEF ResourcePath
    <3> QED
      BY <2>4, <2>11, <3>1
  <2> QED
    BY <1>1, <1>2, <2>7, <2>10, <2>12
<1> QED
  BY <1>3, <1>4

Paths == {p \in [steps : Seq(Nat), entries : Seq(DirectoryEntry)] : ResourcePath(p)}

EarlierPaths == {r \in Paths \X Paths : Earlier(r[1], r[2])}

LEMMA PathsAre ==
  ASSUME HasResources(file), base \in Nat
  PROVE  Paths = ResourcePaths /\ IsFiniteSet(Paths)
<1>1. \A p : p \in Paths <=> ResourcePath(p)
  BY DEF Paths, ResourcePath
<1>2. Paths = ResourcePaths
  BY <1>1, ResourcePathsAre
<1> QED
  BY <1>2, ResourcePathsAreFinite

LEMMA PathIs ==
  ASSUME NEW p \in Paths
  PROVE  \E n \in 3..5 :
           /\ p.steps \in Seq(Nat) /\ p.entries \in Seq(DirectoryEntry)
           /\ Len(p.steps) = n /\ Len(p.entries) = n
           /\ DOMAIN p.steps = 1..n /\ \A k \in 1..n : p.steps[k] \in Nat
           /\ \E dirs \in [1..n -> Nat] : Reaches(p, n, dirs)
<1>1. p \in [steps : Seq(Nat), entries : Seq(DirectoryEntry)] /\ ResourcePath(p)
  BY DEF Paths
<1>2. PICK n \in 3..5 : /\ Len(p.steps) = n /\ Len(p.entries) = n
                        /\ \E dirs \in [1..n -> Nat] : Reaches(p, n, dirs)
  BY <1>1 DEF ResourcePath
<1>3. PICK s \in Seq(Nat) : s = p.steps
  BY <1>1
<1>4. DOMAIN s = 1..n /\ \A k \in 1..n : s[k] \in Nat
  BY <1>2, <1>3
<1> QED
  BY <1>1, <1>2, <1>3, <1>4

\* Paths that begin with the same steps go through the same directories.
SameSteps(p, q, n) == \A k \in 1..n : p.steps[k] = q.steps[k]

SameWay(p, q, n, ds, es) ==
  /\ \A k \in 1..(n + 1) : ds[k] = es[k]
  /\ \A k \in 1..n : p.entries[k] = q.entries[k]

LEMMA LeadsAgree ==
  ASSUME NEW p, NEW q, NEW n \in Nat, NEW ds, NEW es, Leads(p, n, ds), Leads(q, n, es),
         SameSteps(p, q, n)
  PROVE  SameWay(p, q, n, ds, es)
<1>0. \A k \in 1..n : p.steps[k] = q.steps[k]
  BY DEF SameSteps
<1> DEFINE P == {k \in Nat : k <= n => ds[k + 1] = es[k + 1]}
<1>1. 0 \in P
  BY DEF Leads
<1>2. ASSUME NEW k \in Nat, k \in P PROVE k + 1 \in P
  <2>1. SUFFICES ASSUME k + 1 <= n PROVE ds[(k + 1) + 1] = es[(k + 1) + 1]
    OBVIOUS
  <2>2. ds[k + 1] = es[k + 1] /\ k + 1 \in 1..n
    BY <1>2, <2>1
  <2> QED
    BY <1>0, <2>2 DEF Leads
<1> HIDE DEF P
<1>3. \A k \in Nat : k \in P
  BY <1>1, <1>2, Induction
<1>4. ASSUME NEW k \in 1..(n + 1) PROVE ds[k] = es[k]
  <2>1. k - 1 \in P /\ k - 1 <= n /\ (k - 1) + 1 = k
    BY <1>3
  <2> QED
    BY <2>1 DEF P
<1>5. ASSUME NEW k \in 1..n PROVE p.entries[k] = q.entries[k]
  <2>1. k \in 1..(n + 1)
    OBVIOUS
  <2> QED
    BY <1>0, <1>4, <2>1 DEF Leads
<1> QED
  BY <1>4, <1>5 DEF SameWay

\* A path that begins with all steps of another one is the same path.
LEMMA NoLongerPath ==
  ASSUME NEW p \in Paths, NEW q \in Paths, Len(p.steps) <= Len(q.steps),
         \A k \in 1..Len(p.steps) : p.steps[k] = q.steps[k]
  PROVE  p = q
<1>1. PICK n \in 3..5 :
        /\ p.steps \in Seq(Nat) /\ p.entries \in Seq(DirectoryEntry)
        /\ Len(p.steps) = n /\ Len(p.entries) = n
        /\ \E dirs \in [1..n -> Nat] : Reaches(p, n, dirs)
  BY PathIs
<1>2. PICK m \in 3..5 :
        /\ q.steps \in Seq(Nat) /\ q.entries \in Seq(DirectoryEntry)
        /\ Len(q.steps) = m /\ Len(q.entries) = m
        /\ \E dirs \in [1..m -> Nat] : Reaches(q, m, dirs)
  BY PathIs
<1>3. PICK ds \in [1..n -> Nat] : Reaches(p, n, ds)
  BY <1>1
<1>4. PICK es \in [1..m -> Nat] : Reaches(q, m, es)
  BY <1>2
<1>5. n <= m /\ n \in 1..n /\ n - 1 \in Nat /\ \A k \in 1..n : p.steps[k] = q.steps[k]
  <2>1. Len(p.steps) = n /\ Len(q.steps) = m
    BY <1>1, <1>2
  <2> QED
    BY <2>1
<1>6. Leads(p, n - 1, ds) /\ Leads(q, n - 1, es)
  <2>1. \A k \in 1..(n - 1) : k \in 1..(m - 1)
    BY <1>5
  <2>2. Leads(q, m - 1, es)
    BY <1>4 DEF Reaches
  <2> QED
    BY <1>3, <2>1, <2>2 DEF Reaches, Leads
<1>7. \A k \in 1..(n - 1) : p.steps[k] = q.steps[k]
  <2>1. \A k \in 1..(n - 1) : k \in 1..n
    OBVIOUS
  <2> QED
    BY <1>5, <2>1
<1>8. ds[n] = es[n] /\ \A k \in 1..(n - 1) : p.entries[k] = q.entries[k]
  <2>1. PICK l \in Nat : l = n - 1
    BY <1>5
  <2>2. n \in 1..(l + 1)
    BY <2>1
  <2>3. Leads(p, l, ds) /\ Leads(q, l, es) /\ \A k \in 1..l : p.steps[k] = q.steps[k]
    BY <1>6, <1>7, <2>1
  <2>4. /\ \A k \in 1..(l + 1) : ds[k] = es[k]
        /\ \A k \in 1..l : p.entries[k] = q.entries[k]
    <3>1. SameSteps(p, q, l)
      BY <2>3 DEF SameSteps
    <3>2. SameWay(p, q, l, ds, es)
      BY <2>3, <3>1, LeadsAgree
    <3> QED
      BY <3>2 DEF SameWay
  <2> QED
    BY <2>1, <2>2, <2>4
<1>9. n = m
  <2>1. SUFFICES ASSUME n < m PROVE FALSE
    BY <1>5
  <2>2. n \in 1..(m - 1)
    BY <2>1
  <2>3. Directory(es[n])[q.steps[n]].sub
    BY <1>4, <2>2 DEF Reaches, Leads
  <2>4. ~Directory(ds[n])[p.steps[n]].sub
    BY <1>3 DEF Reaches
  <2> QED
    BY <1>5, <1>8, <2>3, <2>4
<1>10. p.entries[n] = q.entries[n]
  BY <1>3, <1>4, <1>5, <1>8, <1>9 DEF Reaches
<1>12. p.steps = q.steps
  <2>1. PICK s \in Seq(Nat) : s = p.steps
    BY <1>1
  <2>2. PICK t \in Seq(Nat) : t = q.steps
    BY <1>2
  <2>3. Len(s) = Len(t) /\ \A k \in 1..Len(s) : s[k] = t[k]
    BY <1>1, <1>2, <1>5, <1>9, <2>1, <2>2
  <2> QED
    BY <2>1, <2>2, <2>3, SeqEqual
<1>13. p.entries = q.entries
  <2>1. \A k \in 1..n : k \in 1..(n - 1) \/ k = n
    OBVIOUS
  <2>2. \A k \in 1..n : p.entries[k] = q.entries[k]
    BY <1>8, <1>10, <2>1
  <2> QED
    BY <1>1, <1>2, <1>9, <2>2, SeqEqual
<1>14. p = [steps |-> p.steps, entries |-> p.entries] /\ q = [steps |-> q.steps, entries |-> q.entries]
  BY DEF Paths
<1> QED
  BY <1>12, <1>13, <1>14

LEMMA EarlierIsTransitive ==
  ASSUME NEW p \in Paths, NEW q \in Paths, NEW r \in Paths, Earlier(p, q), Earlier(q, r)
  PROVE  Earlier(p, r)
<1>1. PICK n \in 3..5 : DOMAIN p.steps = 1..n /\ \A k \in 1..n : p.steps[k] \in Nat
  BY PathIs
<1>2. PICK m \in 3..5 : DOMAIN q.steps = 1..m /\ \A k \in 1..m : q.steps[k] \in Nat
  BY PathIs
<1>3. PICK l \in 3..5 : DOMAIN r.steps = 1..l /\ \A k \in 1..l : r.steps[k] \in Nat
  BY PathIs
<1>4. PICK i \in 1..n : i \in 1..m /\ p.steps[i] < q.steps[i] /\ \A j \in 1..(i - 1) : p.steps[j] = q.steps[j]
  BY <1>1, <1>2 DEF Earlier
<1>5. PICK k \in 1..m : k \in 1..l /\ q.steps[k] < r.steps[k] /\ \A j \in 1..(k - 1) : q.steps[j] = r.steps[j]
  BY <1>2, <1>3 DEF Earlier
<1>6. CASE i <= k
  <2>1. i \in 1..l
    BY <1>5, <1>6
  <2>2. p.steps[i] < r.steps[i]
    <3>1. CASE i = k
      BY <1>1, <1>2, <1>3, <1>4, <1>5, <3>1
    <3>2. CASE i < k
      <4>1. i \in 1..(k - 1)
        BY <3>2
      <4> QED
        BY <1>4, <1>5, <4>1
    <3> QED
      BY <1>6, <3>1, <3>2
  <2>3. \A j \in 1..(i - 1) : p.steps[j] = r.steps[j]
    <3>1. \A j \in 1..(i - 1) : j \in 1..(k - 1)
      BY <1>6
    <3> QED
      BY <1>4, <1>5, <3>1
  <2> QED
    BY <1>1, <1>3, <2>1, <2>2, <2>3 DEF Earlier
<1>7. CASE k < i
  <2>1. k \in 1..n /\ k \in 1..(i - 1)
    BY <1>7
  <2>2. p.steps[k] < r.steps[k]
    BY <1>4, <1>5, <2>1
  <2>3. \A j \in 1..(k - 1) : p.steps[j] = r.steps[j]
    <3>1. \A j \in 1..(k - 1) : j \in 1..(i - 1)
      BY <1>7
    <3> QED
      BY <1>4, <1>5, <3>1
  <2> QED
    BY <1>1, <1>3, <1>5, <2>1, <2>2, <2>3 DEF Earlier
<1> QED
  BY <1>6, <1>7

LEMMA EarlierIsTotal ==
  ASSUME NEW p \in Paths, NEW q \in Paths
  PROVE  /\ ~Earlier(p, p)
         /\ p = q \/ Earlier(p, q) \/ Earlier(q, p)
<1>1. PICK n \in 3..5 : Len(p.steps) = n /\ DOMAIN p.steps = 1..n /\ \A k \in 1..n : p.steps[k] \in Nat
  BY PathIs
<1>2. PICK m \in 3..5 : Len(q.steps) = m /\ DOMAIN q.steps = 1..m /\ \A k \in 1..m : q.steps[k] \in Nat
  BY PathIs
<1>3. ~Earlier(p, p)
  BY <1>1 DEF Earlier
<1> DEFINE D == {k \in 1..n : k \in 1..m /\ p.steps[k] # q.steps[k]}
<1>4. CASE D = {}
  <2>1. CASE n <= m
    <3>1. \A k \in 1..n : p.steps[k] = q.steps[k]
      BY <1>4, <2>1
    <3> QED
      BY <1>1, <1>2, <1>3, <2>1, <3>1, NoLongerPath
  <2>2. CASE m <= n
    <3>1. \A k \in 1..m : q.steps[k] = p.steps[k]
      BY <1>4, <2>2
    <3> QED
      BY <1>1, <1>2, <1>3, <2>2, <3>1, NoLongerPath
  <2> QED
    BY <2>1, <2>2
<1>5. CASE D # {}
  <2>1. D \in SUBSET Nat
    OBVIOUS
  <2>2. PICK k \in D : \A j \in D : k <= j
    <3> HIDE DEF D
    <3> QED
      BY <1>5, <2>1, LeastExists
  <2>3. \A j \in 1..(k - 1) : p.steps[j] = q.steps[j]
    <3>1. \A j \in 1..(k - 1) : j \in 1..n /\ j \in 1..m /\ ~(k <= j)
      OBVIOUS
    <3> QED
      BY <2>2, <3>1
  <2>4. p.steps[k] < q.steps[k] \/ q.steps[k] < p.steps[k]
    BY <1>1, <1>2
  <2> QED
    BY <1>1, <1>2, <1>3, <2>3, <2>4 DEF Earlier
<1> QED
  BY <1>4, <1>5

LEMMA PathsAreOrdered ==
  /\ \A p, q \in Paths : <<p, q>> \in EarlierPaths <=> Earlier(p, q)
  /\ StrictOrder(Paths, EarlierPaths)
<1>1. \A p, q \in Paths : <<p, q>> \in EarlierPaths <=> Earlier(p, q)
  BY DEF EarlierPaths
<1>2. \A p, q \in Paths : ~Earlier(p, p) /\ (p = q \/ Earlier(p, q) \/ Earlier(q, p))
  BY EarlierIsTotal
<1>3. \A p, q, r \in Paths : Earlier(p, q) /\ Earlier(q, r) => Earlier(p, r)
  BY EarlierIsTransitive
<1> QED
  BY <1>1, <1>2, <1>3, Zenon DEF StrictOrder

\* What the walk is to find: Expected, with the order as a set of pairs.
ResourceAt(p) ==
  LET rva == DataRva(base + p.entries[Len(p.entries)].to)
  IN  [labels |-> [k \in 1..3 |-> LabelOf(p.entries[k], k - 1)],
       rva |-> rva, offset |-> PeOffset(file, rva)]

LEMMA ExpectedIs ==
  ASSUME HasResources(file), base \in Nat
  PROVE  Expected = [k \in 1..Cardinality(Paths) |-> ResourceAt(Arranged(Paths, EarlierPaths)[k])]
<1>1. Paths = ResourcePaths
  BY PathsAre
<1> DEFINE F(k) == CHOOSE x \in ResourcePaths : Cardinality({y \in ResourcePaths : Earlier(y, x)}) = k - 1
           G(k) == CHOOSE x \in Paths : Place(Paths, EarlierPaths, x) = k - 1
<1>2. \A x \in Paths : Cardinality({y \in Paths : Earlier(y, x)}) = Place(Paths, EarlierPaths, x)
  <2>1. \A x \in Paths : {y \in Paths : Earlier(y, x)} = {y \in Paths : <<y, x>> \in EarlierPaths}
    BY PathsAreOrdered
  <2> QED
    BY <2>1 DEF Place
<1>3. \A k : F(k) = G(k)
  BY <1>1, <1>2
<1>4. InOrder(ResourcePaths, Earlier) = [k \in 1..Cardinality(ResourcePaths) |-> F(k)]
  BY DEF InOrder
<1>5. Arranged(Paths, EarlierPaths) = [k \in 1..Cardinality(Paths) |-> G(k)]
  BY DEF Arranged
<1> HIDE DEF F, G
<1>6. InOrder(ResourcePaths, Earlier) = Arranged(Paths, EarlierPaths)
  BY <1>1, <1>3, <1>4, <1>5
<1>7. DOMAIN Arranged(Paths, EarlierPaths) = 1..Cardinality(Paths)
  BY <1>5
<1> QED
  BY <1>6, <1>7 DEF Expected, ResourceAt

-----------------------------------------------------------------------------
\* The walk: where its stack stands in the tree.

Frame == [at : Nat, next : Nat \ {0}, labels : Seq(Label)]

\* The entry a call of the walk has followed, or passed last.
Followed(s, i) == Directory(s[i].at)[s[i].next - 1]

Descends(s, i) ==
  /\ s[i].next - 1 \in StepsFrom(s[i].at)
  /\ Followed(s, i).sub
  /\ s[i + 1].at = base + Followed(s, i).to

LabelsOk(s, i) ==
  /\ Len(s[i].labels) = IF i <= 3 THEN i - 1 ELSE 3
  /\ \A k \in 1..3 : k < i => s[i].labels[k] = LabelOf(Followed(s, k), k - 1)

StackOk(s) ==
  /\ s \in Seq(Frame) /\ Len(s) \in 1..6
  /\ s[1].at = base
  /\ \A i \in 1..(Len(s) - 1) : Descends(s, i)
  /\ \A i \in 1..Len(s) : LabelsOk(s, i)

LEMMA FrameIs ==
  ASSUME NEW s \in Seq(Frame), NEW i \in 1..Len(s)
  PROVE  /\ s[i] \in Frame /\ s[i].at \in Nat /\ s[i].next \in Nat /\ s[i].next # 0
         /\ s[i].labels \in Seq(Label)
<1>1. s[i] \in Frame
  OBVIOUS
<1> QED
  BY <1>1 DEF Frame

LEMMA LabelOfIs ==
  ASSUME HasResources(file), NEW e \in DirectoryEntry, NEW d
  PROVE  LabelOf(e, d) \in Label
<1>1. Empty \in STRING \cup {Empty}
  OBVIOUS
<1>2. e.id \in Nat
  BY DEF DirectoryEntry
<1>3. ASSUME NEW o PROVE NameAt(o) = None \/ (NameAt(o) # None /\ The(NameAt(o)) \in STRING \cup {Empty})
  <2>1. CASE NameAt(o) # None
    <3>1. o \in DOMAIN file.names /\ NameAt(o) = Some(file.names[o].text)
      BY <2>1 DEF NameAt, None
    <3>2. file.names[o].text \in STRING
      BY <3>1 DEF HasResources, FileString
    <3> QED
      BY <2>1, <3>1, <3>2, TheSome
  <2> QED
    BY <2>1
<1>4. \A x \in {"id", "text", "unreadable"}, y \in Nat, z \in STRING \cup {Empty} :
        [kind |-> x, id |-> y, text |-> z] \in Label
  BY DEF Label
<1> QED
  BY <1>1, <1>2, <1>3, <1>4 DEF LabelOf

\* The position of the walk: the entries it is at in the directories it is in.
Cursor(s) == [k \in 1..Len(s) |-> IF k = Len(s) THEN s[k].next ELSE s[k].next - 1]

\* A path that begins with the entries followed leads to the directory on top.
LEMMA PathOnStack ==
  ASSUME NEW s, StackOk(s), NEW p, NEW n \in 3..5, NEW dirs, Reaches(p, n, dirs),
         NEW m \in 0..(Len(s) - 1),
         \A k \in 1..m : k <= n => p.steps[k] = s[k].next - 1
  PROVE  /\ m < n
         /\ \A k \in 1..(m + 1) : dirs[k] = s[k].at
         /\ \A k \in 1..m : p.entries[k] = Followed(s, k)
<1>1. Len(s) \in Nat /\ m \in Nat /\ m <= Len(s) - 1
  BY DEF StackOk
<1> DEFINE q == [steps |-> [k \in 1..Len(s) |-> s[k].next - 1],
                 entries |-> [k \in 1..Len(s) |-> Followed(s, k)]]
           es == [k \in 1..Len(s) |-> s[k].at]
<1>2. \A k \in 1..Len(s) : q.steps[k] = s[k].next - 1 /\ q.entries[k] = Followed(s, k) /\ es[k] = s[k].at
  OBVIOUS
<1> HIDE DEF q, es
<1>3. ASSUME NEW l \in 0..m PROVE Leads(q, l, es)
  <2>1. 1 \in 1..Len(s) /\ es[1] = base
    BY <1>1, <1>2 DEF StackOk
  <2>2. ASSUME NEW k \in 1..l
        PROVE  /\ q.steps[k] \in StepsFrom(es[k]) /\ Directory(es[k])[q.steps[k]].sub
               /\ q.entries[k] = Directory(es[k])[q.steps[k]]
               /\ es[k + 1] = base + Directory(es[k])[q.steps[k]].to
    <3>1. k \in 1..(Len(s) - 1) /\ k \in 1..Len(s) /\ k + 1 \in 1..Len(s)
      BY <1>1
    <3>2. Descends(s, k)
      BY <3>1 DEF StackOk
    <3> QED
      BY <1>2, <3>1, <3>2 DEF Descends, Followed
  <2> QED
    BY <2>1, <2>2 DEF Leads
<1>4. Leads(p, n - 1, dirs) /\ ~Directory(dirs[n])[p.steps[n]].sub
  BY DEF Reaches
<1>5. m < n
  <2>1. SUFFICES ASSUME n <= m PROVE FALSE
    BY <1>1
  <2>2. n - 1 \in Nat /\ n - 1 \in 0..m /\ n \in 1..((n - 1) + 1) /\ n \in 1..m /\ n \in 1..Len(s)
        /\ n \in 1..(Len(s) - 1)
    BY <1>1, <2>1
  <2>3. \A k \in 1..(n - 1) : p.steps[k] = q.steps[k]
    <3>1. \A k \in 1..(n - 1) : k \in 1..m /\ k <= n /\ k \in 1..Len(s)
      BY <1>1, <2>1
    <3> QED
      BY <1>2, <3>1
  <2>4. dirs[n] = es[n]
    <3>1. PICK l \in Nat : l = n - 1
      BY <2>2
    <3>2. n \in 1..(l + 1) /\ Leads(p, l, dirs) /\ Leads(q, l, es) /\ \A k \in 1..l : p.steps[k] = q.steps[k]
      BY <1>3, <1>4, <2>2, <2>3, <3>1
    <3>3. \A k \in 1..(l + 1) : dirs[k] = es[k]
      <4>1. SameSteps(p, q, l)
        BY <3>2 DEF SameSteps
      <4>2. SameWay(p, q, l, dirs, es)
        BY <3>2, <4>1, LeadsAgree
      <4> QED
        BY <4>2 DEF SameWay
    <3> QED
      BY <3>2, <3>3
  <2>5. p.steps[n] = s[n].next - 1 /\ es[n] = s[n].at
    BY <1>2, <2>2
  <2>6. Directory(s[n].at)[s[n].next - 1].sub
    <3>1. Descends(s, n)
      BY <2>2 DEF StackOk
    <3> QED
      BY <3>1 DEF Descends, Followed
  <2> QED
    BY <1>4, <2>4, <2>5, <2>6
<1>6. Leads(p, m, dirs)
  <2>1. \A k \in 1..m : k \in 1..(n - 1)
    BY <1>1, <1>5
  <2> QED
    BY <1>4, <2>1 DEF Leads
<1>7. Leads(q, m, es)
  BY <1>1, <1>3
<1>8. \A k \in 1..m : p.steps[k] = q.steps[k]
  <2>1. \A k \in 1..m : k <= n /\ k \in 1..Len(s)
    BY <1>1, <1>5
  <2> QED
    BY <1>2, <2>1
<1>9. /\ \A k \in 1..(m + 1) : dirs[k] = es[k]
      /\ \A k \in 1..m : p.entries[k] = q.entries[k]
  <2>1. SameSteps(p, q, m)
    BY <1>8 DEF SameSteps
  <2>2. SameWay(p, q, m, dirs, es)
    BY <1>1, <1>6, <1>7, <2>1, LeadsAgree
  <2> QED
    BY <2>2 DEF SameWay
<1>10. \A k \in 1..(m + 1) : k \in 1..Len(s)
  BY <1>1
<1>11. \A k \in 1..m : k \in 1..Len(s)
  BY <1>1
<1> QED
  BY <1>2, <1>5, <1>9, <1>10, <1>11

\* The paths before a position, and those that begin with it.
PassedBy(p, c) ==
  \E k \in DOMAIN c : /\ k <= Len(p.steps) /\ p.steps[k] < c[k]
                      /\ \A j \in 1..(k - 1) : p.steps[j] = c[j]

DoneBefore(c) == {p \in Paths : PassedBy(p, c)}

Through(c) == {p \in Paths : Len(c) <= Len(p.steps) /\ \A k \in 1..Len(c) : p.steps[k] = c[k]}

Closed(S) == \A p \in S, q \in Paths : <<q, p>> \in EarlierPaths => q \in S

LEMMA DoneIsClosed ==
  ASSUME NEW c \in Seq(Nat)
  PROVE  DoneBefore(c) \in SUBSET Paths /\ Closed(DoneBefore(c))
<1>1. DoneBefore(c) \in SUBSET Paths
  BY DEF DoneBefore
<1>2. ASSUME NEW p \in DoneBefore(c), NEW q \in Paths, <<q, p>> \in EarlierPaths
      PROVE  q \in DoneBefore(c)
  <2>1. p \in Paths /\ Earlier(q, p)
    BY <1>1, <1>2, PathsAreOrdered
  <2>2. PICK n \in 3..5 : Len(p.steps) = n /\ DOMAIN p.steps = 1..n /\ \A k \in 1..n : p.steps[k] \in Nat
    BY <2>1, PathIs
  <2>3. PICK m \in 3..5 : Len(q.steps) = m /\ DOMAIN q.steps = 1..m /\ \A k \in 1..m : q.steps[k] \in Nat
    BY PathIs
  <2>4. PICK k \in DOMAIN c : /\ k <= n /\ p.steps[k] < c[k] /\ \A j \in 1..(k - 1) : p.steps[j] = c[j]
    BY <2>2 DEF DoneBefore, PassedBy
  <2>5. PICK i \in 1..m : /\ i \in 1..n /\ q.steps[i] < p.steps[i]
                          /\ \A j \in 1..(i - 1) : q.steps[j] = p.steps[j]
    BY <2>1, <2>2, <2>3 DEF Earlier
  <2>6. DOMAIN c = 1..Len(c) /\ Len(c) \in Nat /\ \A j \in 1..Len(c) : c[j] \in Nat
    OBVIOUS
  <2>7. CASE i < k
    <3>1. i \in DOMAIN c /\ i \in 1..(k - 1)
      BY <2>4, <2>6, <2>7
    <3>2. q.steps[i] < c[i]
      BY <2>4, <2>5, <3>1
    <3>3. \A j \in 1..(i - 1) : q.steps[j] = c[j]
      <4>1. \A j \in 1..(i - 1) : j \in 1..(k - 1)
        BY <2>4, <2>6, <2>7
      <4> QED
        BY <2>4, <2>5, <4>1
    <3>4. i <= Len(q.steps)
      BY <2>3
    <3> QED
      BY <3>1, <3>2, <3>3, <3>4 DEF DoneBefore, PassedBy
  <2>8. CASE ~(i < k)
    <3>1. k \in Nat /\ k <= m /\ k \in 1..m /\ k \in 1..n
      BY <2>4, <2>6, <2>8
    <3>2. q.steps[k] < c[k]
      <4>1. CASE k = i
        BY <2>2, <2>3, <2>4, <2>5, <2>6, <3>1, <4>1
      <4>2. CASE k # i
        <5>1. k \in 1..(i - 1)
          BY <2>8, <3>1, <4>2
        <5> QED
          BY <2>4, <2>5, <5>1
      <4> QED
        BY <4>1, <4>2
    <3>3. \A j \in 1..(k - 1) : q.steps[j] = c[j]
      <4>1. \A j \in 1..(k - 1) : j \in 1..(i - 1)
        BY <2>8, <3>1
      <4> QED
        BY <2>4, <2>5, <4>1
    <3> QED
      BY <2>3, <3>1, <3>2, <3>3 DEF DoneBefore, PassedBy
  <2> QED
    BY <2>7, <2>8
<1> QED
  BY <1>1, <1>2 DEF Closed

\* Steps are counted from 1.
LEMMA StepsArePositive ==
  ASSUME HasResources(file), NEW p \in Paths, NEW k \in 1..Len(p.steps)
  PROVE  p.steps[k] \in Nat /\ p.steps[k] >= 1
<1>1. PICK n \in 3..5 :
        /\ Len(p.steps) = n /\ \A i \in 1..n : p.steps[i] \in Nat
        /\ \E dirs \in [1..n -> Nat] : Reaches(p, n, dirs)
  BY PathIs
<1>2. PICK dirs \in [1..n -> Nat] : Reaches(p, n, dirs)
  BY <1>1
<1>3. p.steps[k] \in StepsFrom(dirs[k])
  <2>1. k \in 1..(n - 1) \/ k = n
    BY <1>1
  <2> QED
    BY <1>2, <2>1 DEF Reaches, Leads
<1>4. p.steps[k] \in 1..Len(Directory(dirs[k])) /\ Len(Directory(dirs[k])) \in Nat
  BY <1>3, DirectoryIs
<1> QED
  BY <1>4

\* Entering a directory passes no path.
LEMMA DoneOnEnter ==
  ASSUME HasResources(file), NEW c \in Seq(Nat), NEW d \in Seq(Nat),
         Len(d) = Len(c) + 1, \A k \in 1..Len(c) : d[k] = c[k], d[Len(d)] = 1
  PROVE  DoneBefore(d) = DoneBefore(c)
<1>1. Len(c) \in Nat /\ DOMAIN c = 1..Len(c) /\ DOMAIN d = 1..(Len(c) + 1)
  OBVIOUS
<1>2. ASSUME NEW p \in Paths, PassedBy(p, c) PROVE PassedBy(p, d)
  <2>1. PICK k \in 1..Len(c) : /\ k <= Len(p.steps) /\ p.steps[k] < c[k]
                              /\ \A j \in 1..(k - 1) : p.steps[j] = c[j]
    BY <1>1, <1>2 DEF PassedBy
  <2>2. k \in DOMAIN d /\ \A j \in 1..(k - 1) : j \in 1..Len(c)
    BY <1>1, <2>1
  <2>3. d[k] = c[k] /\ \A j \in 1..(k - 1) : d[j] = c[j]
    BY <2>1, <2>2
  <2> QED
    BY <2>1, <2>2, <2>3 DEF PassedBy
<1>3. ASSUME NEW p \in Paths, PassedBy(p, d) PROVE PassedBy(p, c)
  <2>1. PICK k \in 1..(Len(c) + 1) : /\ k <= Len(p.steps) /\ p.steps[k] < d[k]
                                    /\ \A j \in 1..(k - 1) : p.steps[j] = d[j]
    BY <1>1, <1>3 DEF PassedBy
  <2>2. Len(p.steps) \in Nat
    BY PathIs
  <2>3. k # Len(c) + 1
    <3>1. SUFFICES ASSUME k = Len(c) + 1 PROVE FALSE
      OBVIOUS
    <3>2. k \in 1..Len(p.steps) /\ d[k] = 1
      BY <2>1, <2>2, <3>1
    <3>3. p.steps[k] \in Nat /\ p.steps[k] >= 1
      BY <3>2, StepsArePositive
    <3> QED
      BY <2>1, <3>2, <3>3
  <2>4. k \in 1..Len(c) /\ \A j \in 1..(k - 1) : j \in 1..Len(c)
    BY <1>1, <2>3
  <2>5. d[k] = c[k] /\ \A j \in 1..(k - 1) : d[j] = c[j]
    BY <2>4
  <2> QED
    BY <1>1, <2>1, <2>4, <2>5 DEF PassedBy
<1> QED
  BY <1>2, <1>3 DEF DoneBefore

\* Going on to the next entry passes the paths that begin with this one.
LEMMA DoneOnAdvance ==
  ASSUME NEW c \in Seq(Nat), NEW d \in Seq(Nat), NEW n \in Nat \ {0},
         Len(c) = n, Len(d) = n, \A k \in 1..(n - 1) : d[k] = c[k], d[n] = c[n] + 1
  PROVE  DoneBefore(d) = DoneBefore(c) \cup Through(c)
<1>1. DOMAIN c = 1..n /\ DOMAIN d = 1..n /\ \A k \in 1..n : c[k] \in Nat /\ d[k] \in Nat
  OBVIOUS
<1>2. ASSUME NEW p \in Paths, PassedBy(p, c) \/ p \in Through(c) PROVE PassedBy(p, d)
  <2>0. PICK m \in 3..5 : Len(p.steps) = m /\ \A k \in 1..m : p.steps[k] \in Nat
    BY PathIs
  <2>1. CASE PassedBy(p, c)
    <3>1. PICK k \in 1..n : /\ k <= m /\ p.steps[k] < c[k]
                            /\ \A j \in 1..(k - 1) : p.steps[j] = c[j]
      BY <1>1, <2>0, <2>1 DEF PassedBy
    <3>2. \A j \in 1..(k - 1) : d[j] = c[j]
      <4>1. \A j \in 1..(k - 1) : j \in 1..(n - 1)
        OBVIOUS
      <4> QED
        BY <4>1
    <3>3. p.steps[k] < d[k]
      <4>1. k \in 1..(n - 1) \/ k = n
        OBVIOUS
      <4>2. k \in 1..m
        BY <3>1
      <4> QED
        BY <1>1, <2>0, <3>1, <4>1, <4>2
    <3> QED
      BY <1>1, <2>0, <3>1, <3>2, <3>3 DEF PassedBy
  <2>2. CASE p \in Through(c)
    <3>1. n <= m /\ n \in 1..n /\ n \in 1..m /\ \A k \in 1..n : p.steps[k] = c[k]
      BY <2>0, <2>2 DEF Through
    <3>2. p.steps[n] < d[n]
      BY <1>1, <3>1
    <3>3. \A j \in 1..(n - 1) : p.steps[j] = d[j]
      <4>1. \A j \in 1..(n - 1) : j \in 1..n
        OBVIOUS
      <4> QED
        BY <3>1, <4>1
    <3> QED
      BY <1>1, <2>0, <3>1, <3>2, <3>3 DEF PassedBy
  <2> QED
    BY <1>2, <2>1, <2>2
<1>3. ASSUME NEW p \in Paths, PassedBy(p, d) PROVE PassedBy(p, c) \/ p \in Through(c)
  <2>0. PICK m \in 3..5 : Len(p.steps) = m /\ \A k \in 1..m : p.steps[k] \in Nat
    BY PathIs
  <2>1. PICK k \in 1..n : /\ k <= m /\ p.steps[k] < d[k]
                          /\ \A j \in 1..(k - 1) : p.steps[j] = d[j]
    BY <1>1, <1>3, <2>0 DEF PassedBy
  <2>2. \A j \in 1..(k - 1) : p.steps[j] = c[j]
    <3>1. \A j \in 1..(k - 1) : j \in 1..(n - 1)
      OBVIOUS
    <3> QED
      BY <2>1, <3>1
  <2>3. k \in 1..m /\ p.steps[k] \in Nat
    BY <2>0, <2>1
  <2>4. CASE p.steps[k] < c[k]
    BY <1>1, <2>0, <2>1, <2>2, <2>4 DEF PassedBy
  <2>5. CASE ~(p.steps[k] < c[k])
    <3>1. k = n /\ p.steps[n] = c[n]
      <4>1. k \in 1..(n - 1) \/ k = n
        OBVIOUS
      <4> QED
        BY <1>1, <2>1, <2>3, <2>5, <4>1
    <3>2. \A j \in 1..n : p.steps[j] = c[j]
      <4>1. \A j \in 1..n : j \in 1..(n - 1) \/ j = n
        OBVIOUS
      <4> QED
        BY <2>2, <3>1, <4>1
    <3> QED
      BY <2>0, <2>1, <3>1, <3>2 DEF Through
  <2> QED
    BY <2>4, <2>5
<1>4. \A p \in Through(c) : p \in Paths
  BY DEF Through
<1> QED
  BY <1>2, <1>3, <1>4 DEF DoneBefore

\* The walk's own operators, of any stack.
Pending(s) == Directory(s[Len(s)].at)[s[Len(s)].next]

NothingLeft(s) ==
  \/ Len(s) - 1 > MaxDepth
  \/ ~Readable(s[Len(s)].at)
  \/ s[Len(s)].next > Len(Directory(s[Len(s)].at))

LEMMA CursorIs ==
  ASSUME NEW s, StackOk(s)
  PROVE  /\ Len(s) \in 1..6 /\ Cursor(s) \in Seq(Nat) /\ Len(Cursor(s)) = Len(s)
         /\ \A k \in 1..(Len(s) - 1) : Cursor(s)[k] = s[k].next - 1
         /\ Cursor(s)[Len(s)] = s[Len(s)].next
<1>1. s \in Seq(Frame) /\ Len(s) \in 1..6
  BY DEF StackOk
<1>2. \A k \in 1..Len(s) : s[k].next \in Nat /\ s[k].next # 0
  BY <1>1, FrameIs
<1>3. PICK n \in 1..6 : n = Len(s)
  BY <1>1
<1>4. PICK c : c = Cursor(s)
  OBVIOUS
<1>5. c = [k \in 1..n |-> IF k = n THEN s[k].next ELSE s[k].next - 1]
  BY <1>3, <1>4 DEF Cursor
<1>6. \A k \in 1..n : c[k] \in Nat
  BY <1>2, <1>3, <1>5
<1>7. c \in [1..n -> Nat]
  BY <1>5, <1>6
<1>8. c \in Seq(Nat) /\ Len(c) = n
  BY <1>7
<1>9. (\A k \in 1..(n - 1) : c[k] = s[k].next - 1) /\ c[n] = s[n].next
  BY <1>5
<1> QED
  BY <1>3, <1>4, <1>8, <1>9

\* A path that reaches the directory on top takes one of its entries.
LEMMA PathAtTop ==
  ASSUME NEW s, StackOk(s), NEW p \in Paths,
         \A k \in 1..(Len(s) - 1) : k <= Len(p.steps) => p.steps[k] = s[k].next - 1
  PROVE  \E n \in 3..5 :
           /\ Len(p.steps) = n /\ Len(s) <= n
           /\ p.steps[Len(s)] \in StepsFrom(s[Len(s)].at)
           /\ \A k \in 1..(Len(s) - 1) : p.entries[k] = Followed(s, k)
           /\ p.entries[Len(s)] = Directory(s[Len(s)].at)[p.steps[Len(s)]]
           /\ Len(s) < n => Directory(s[Len(s)].at)[p.steps[Len(s)]].sub
           /\ Len(s) = n => /\ ~Directory(s[Len(s)].at)[p.steps[Len(s)]].sub
                            /\ InSection(base + Directory(s[Len(s)].at)[p.steps[Len(s)]].to, 16)
<1>1. PICK n \in 3..5 : Len(p.steps) = n /\ \E dirs \in [1..n -> Nat] : Reaches(p, n, dirs)
  BY PathIs
<1>2. PICK dirs \in [1..n -> Nat] : Reaches(p, n, dirs)
  BY <1>1
<1>3. PICK l \in 1..6 : l = Len(s)
  BY DEF StackOk
<1>4. /\ l - 1 < n
      /\ \A k \in 1..((l - 1) + 1) : dirs[k] = s[k].at
      /\ \A k \in 1..(l - 1) : p.entries[k] = Followed(s, k)
  <2>1. l - 1 \in 0..(Len(s) - 1)
    BY <1>3
  <2>2. \A k \in 1..(l - 1) : k <= n => p.steps[k] = s[k].next - 1
    BY <1>1, <1>3
  <2> QED
    BY <1>2, <2>1, <2>2, PathOnStack
<1>5. l <= n /\ dirs[l] = s[l].at
  BY <1>4
<1>6. CASE l < n
  <2>1. l \in 1..(n - 1)
    BY <1>6
  <2>2. /\ p.steps[l] \in StepsFrom(dirs[l]) /\ Directory(dirs[l])[p.steps[l]].sub
        /\ p.entries[l] = Directory(dirs[l])[p.steps[l]]
    BY <1>2, <2>1 DEF Reaches, Leads
  <2> QED
    BY <1>1, <1>3, <1>4, <1>5, <1>6, <2>2
<1>7. CASE l = n
  <2>1. /\ p.steps[n] \in StepsFrom(dirs[n]) /\ ~Directory(dirs[n])[p.steps[n]].sub
        /\ p.entries[n] = Directory(dirs[n])[p.steps[n]]
        /\ InSection(base + Directory(dirs[n])[p.steps[n]].to, 16)
    BY <1>2 DEF Reaches
  <2>2. ~(l < n)
    BY <1>7
  <2> QED
    BY <1>1, <1>3, <1>4, <1>5, <1>7, <2>1, <2>2
<1> QED
  BY <1>5, <1>6, <1>7

\* A directory with nothing left is passed by every path that reaches it.
LEMMA NothingLeftIs ==
  ASSUME HasResources(file), NEW s, StackOk(s), NothingLeft(s), NEW p \in Paths,
         \A k \in 1..(Len(s) - 1) : k <= Len(p.steps) => p.steps[k] = s[k].next - 1
  PROVE  PassedBy(p, Cursor(s))
<1>1. PICK l \in 1..6 : l = Len(s)
  BY DEF StackOk
<1>2. PICK n \in 3..5 : Len(p.steps) = n /\ l <= n /\ p.steps[l] \in StepsFrom(s[l].at)
  BY <1>1, PathAtTop
<1>3. p.steps[l] \in 1..Len(Directory(s[l].at)) /\ Len(Directory(s[l].at)) \in Nat /\ Readable(s[l].at)
  BY <1>2, DirectoryIs
<1>4. s[l].next > Len(Directory(s[l].at))
  BY <1>1, <1>2, <1>3 DEF NothingLeft, MaxDepth
<1>5. PICK c \in Seq(Nat) : c = Cursor(s)
  BY CursorIs
<1>6. Len(c) = l /\ c[l] = s[l].next /\ \A k \in 1..(l - 1) : c[k] = s[k].next - 1
  BY <1>1, <1>5, CursorIs
<1>7. c[l] \in Nat /\ l \in DOMAIN c
  BY <1>1, <1>5, <1>6
<1>8. p.steps[l] < c[l]
  BY <1>3, <1>4, <1>6, <1>7
<1>9. \A j \in 1..(l - 1) : p.steps[j] = c[j]
  <2>1. \A j \in 1..(l - 1) : j <= Len(p.steps)
    BY <1>2
  <2> QED
    BY <1>1, <1>6, <2>1
<1> QED
  BY <1>2, <1>5, <1>7, <1>8, <1>9 DEF PassedBy

\* Leaving the root directory, all paths are done.
LEMMA DoneAtEnd ==
  ASSUME HasResources(file), NEW s, StackOk(s), NothingLeft(s), Len(s) = 1
  PROVE  DoneBefore(Cursor(s)) = Paths
<1>1. ASSUME NEW p \in Paths PROVE PassedBy(p, Cursor(s))
  <2>1. 1..(Len(s) - 1) = {}
    OBVIOUS
  <2> QED
    BY <2>1, NothingLeftIs
<1> QED
  BY <1>1 DEF DoneBefore

\* Leaving a subdirectory, the paths done are those done before.
LEMMA DoneOnLeave ==
  ASSUME HasResources(file), NEW s, StackOk(s), NothingLeft(s), NEW t, StackOk(t),
         Len(t) = Len(s) - 1, \A k \in 1..Len(t) : t[k] = s[k]
  PROVE  DoneBefore(Cursor(t)) = DoneBefore(Cursor(s))
<1>1. PICK n \in 1..5 : n = Len(t) /\ n + 1 = Len(s)
  <2>1. Len(t) \in 1..6 /\ Len(s) \in 1..6
    BY DEF StackOk
  <2> QED
    BY <2>1
<1>2. PICK c \in Seq(Nat) : c = Cursor(s)
  BY CursorIs
<1>3. PICK d \in Seq(Nat) : d = Cursor(t)
  BY CursorIs
<1>4. /\ Len(c) = n + 1 /\ Len(d) = n /\ DOMAIN c = 1..(n + 1) /\ DOMAIN d = 1..n
      /\ \A k \in 1..n : c[k] = s[k].next - 1
      /\ \A k \in 1..(n - 1) : d[k] = c[k]
      /\ d[n] = c[n] + 1
  <2>1. Len(c) = n + 1 /\ Len(d) = n
    BY <1>1, <1>2, <1>3, CursorIs
  <2>2. \A k \in 1..n : c[k] = s[k].next - 1
    BY <1>1, <1>2, CursorIs
  <2>3. (\A k \in 1..(n - 1) : d[k] = t[k].next - 1) /\ d[n] = t[n].next
    BY <1>1, <1>3, CursorIs
  <2>4. \A k \in 1..n : t[k] = s[k]
    BY <1>1
  <2>5. \A k \in 1..(n - 1) : d[k] = c[k]
    <3>1. \A k \in 1..(n - 1) : k \in 1..n
      OBVIOUS
    <3> QED
      BY <2>2, <2>3, <2>4, <3>1
  <2>6. d[n] = c[n] + 1
    <3>1. n \in 1..n /\ n \in 1..Len(t)
      BY <1>1
    <3>2. PICK x \in Nat : x = t[n].next
      BY <3>1, FrameIs DEF StackOk
    <3>3. c[n] = x - 1 /\ d[n] = x
      BY <2>2, <2>3, <2>4, <3>1, <3>2
    <3> QED
      BY <3>3
  <2> QED
    BY <2>1, <2>2, <2>5, <2>6
<1>5. ASSUME NEW p \in Paths, PassedBy(p, c) PROVE PassedBy(p, d)
  <2>0. PICK m \in 3..5 : Len(p.steps) = m /\ \A k \in 1..m : p.steps[k] \in Nat
    BY PathIs
  <2>1. PICK k \in 1..(n + 1) : /\ k <= m /\ p.steps[k] < c[k]
                               /\ \A j \in 1..(k - 1) : p.steps[j] = c[j]
    BY <1>4, <1>5, <2>0 DEF PassedBy
  <2>2. CASE k \in 1..n
    <3>1. \A j \in 1..(k - 1) : p.steps[j] = d[j]
      <4>1. \A j \in 1..(k - 1) : j \in 1..(n - 1)
        BY <2>2
      <4> QED
        BY <1>4, <2>1, <4>1
    <3>2. p.steps[k] < d[k]
      <4>1. k \in 1..(n - 1) \/ k = n
        BY <2>2
      <4>2. k \in 1..m
        BY <2>1
      <4>3. c[k] \in Nat
        BY <1>4
      <4> QED
        BY <1>4, <2>0, <2>1, <4>1, <4>2, <4>3
    <3> QED
      BY <1>4, <2>0, <2>1, <2>2, <3>1, <3>2 DEF PassedBy
  <2>3. CASE k = n + 1
    <3>1. \A j \in 1..n : p.steps[j] = c[j]
      <4>1. k - 1 = n
        BY <2>3
      <4> QED
        BY <2>1, <4>1
    <3>2. n \in 1..n /\ c[n] \in Nat /\ n <= m
      BY <1>4, <2>1, <2>3
    <3>3. p.steps[n] < d[n]
      BY <1>4, <3>1, <3>2
    <3>4. \A j \in 1..(n - 1) : p.steps[j] = d[j]
      BY <1>4, <3>1
    <3> QED
      BY <1>4, <2>0, <3>2, <3>3, <3>4 DEF PassedBy
  <2> QED
    BY <2>2, <2>3
<1>6. ASSUME NEW p \in Paths, PassedBy(p, d) PROVE PassedBy(p, c)
  <2>0. PICK m \in 3..5 : Len(p.steps) = m /\ \A k \in 1..m : p.steps[k] \in Nat
    BY PathIs
  <2>1. PICK k \in 1..n : /\ k <= m /\ p.steps[k] < d[k]
                          /\ \A j \in 1..(k - 1) : p.steps[j] = d[j]
    BY <1>4, <1>6, <2>0 DEF PassedBy
  <2>2. k \in 1..m /\ k \in 1..(n + 1) /\ p.steps[k] \in Nat /\ c[k] \in Nat
    BY <1>4, <2>0, <2>1
  <2>3. \A j \in 1..(k - 1) : p.steps[j] = c[j]
    <3>1. \A j \in 1..(k - 1) : j \in 1..(n - 1)
      OBVIOUS
    <3> QED
      BY <1>4, <2>1, <3>1
  <2>4. CASE p.steps[k] < c[k]
    BY <1>4, <2>0, <2>1, <2>2, <2>3, <2>4 DEF PassedBy
  <2>5. CASE ~(p.steps[k] < c[k])
    <3>1. k = n /\ p.steps[n] = c[n]
      <4>1. k \in 1..(n - 1) \/ k = n
        OBVIOUS
      <4> QED
        BY <1>4, <2>1, <2>2, <2>5, <4>1
    <3>2. \A j \in 1..n : p.steps[j] = c[j]
      <4>1. \A j \in 1..n : j \in 1..(n - 1) \/ j = n
        OBVIOUS
      <4> QED
        BY <2>3, <3>1, <4>1
    <3>3. \A j \in 1..(Len(s) - 1) : p.steps[j] = s[j].next - 1
      BY <1>1, <1>4, <3>2
    <3> QED
      BY <1>2, <3>3, NothingLeftIs
  <2> QED
    BY <2>4, <2>5
<1>7. \A p \in Paths : PassedBy(p, c) <=> PassedBy(p, d)
  BY <1>5, <1>6
<1> QED
  BY <1>2, <1>3, <1>7 DEF DoneBefore

\* The path that ends in the entry the walk has come to.
ThisPath(s) ==
  [steps |-> [k \in 1..Len(s) |-> IF k = Len(s) THEN s[k].next ELSE s[k].next - 1],
   entries |-> [k \in 1..Len(s) |-> IF k = Len(s) THEN Pending(s) ELSE Followed(s, k)]]

IsResource(s) == Len(s) >= 3 /\ InSection(base + Pending(s).to, 16)

\* What is left of a directory is read from it.
LEMMA PendingIs ==
  ASSUME HasResources(file), NEW s, StackOk(s), ~NothingLeft(s)
  PROVE  /\ Len(s) \in 1..5 /\ s[Len(s)].next \in StepsFrom(s[Len(s)].at)
         /\ Pending(s) \in DirectoryEntry /\ Pending(s).to \in Nat
<1>1. Len(s) \in 1..6 /\ s \in Seq(Frame)
  BY DEF StackOk
<1>2. Len(s) \in 1..5
  <2>1. PICK x \in 1..6 : x = Len(s)
    BY <1>1
  <2>2. ~(x - 1 > 4)
    <3>1. ~(Len(s) - 1 > MaxDepth)
      BY Zenon DEF NothingLeft
    <3> QED
      BY <2>1, <3>1 DEF MaxDepth
  <2> QED
    BY <2>1, <2>2
<1>3. PICK l \in 1..5 : l = Len(s)
  BY <1>2
<1>4. s[l].next \in Nat /\ s[l].next # 0
  BY <1>1, <1>3, FrameIs
<1>5. Readable(s[l].at) /\ ~(s[l].next > Len(Directory(s[l].at)))
  BY <1>3 DEF NothingLeft
<1>6. Len(Directory(s[l].at)) \in Nat /\ DOMAIN Directory(s[l].at) = 1..Len(Directory(s[l].at))
  BY DirectoryIs
<1>7. s[l].next \in 1..Len(Directory(s[l].at))
  BY <1>4, <1>5, <1>6
<1>8. s[l].next \in StepsFrom(s[l].at)
  BY <1>5, <1>6, <1>7 DEF StepsFrom
<1>9. Directory(s[l].at)[s[l].next] \in DirectoryEntry /\ Directory(s[l].at)[s[l].next].to \in Nat
  BY <1>7, DirectoryIs
<1> QED
  BY <1>2, <1>3, <1>8, <1>9 DEF Pending

LEMMA ThisPathIs ==
  ASSUME HasResources(file), base \in Nat, NEW s, StackOk(s), ~NothingLeft(s), ~Pending(s).sub,
         IsResource(s)
  PROVE  /\ ThisPath(s) \in Paths /\ Len(ThisPath(s).steps) = Len(s) /\ Len(ThisPath(s).entries) = Len(s)
         /\ \A k \in 1..Len(s) : ThisPath(s).steps[k] = Cursor(s)[k]
         /\ ThisPath(s).entries[Len(s)] = Pending(s)
         /\ \A k \in 1..(Len(s) - 1) : ThisPath(s).entries[k] = Followed(s, k)
<1>1. PICK n \in 3..5 : n = Len(s)
  <2>1. PICK x \in 1..5 : x = Len(s)
    BY PendingIs
  <2>2. x >= 3
    BY <2>1 DEF IsResource
  <2> QED
    BY <2>1, <2>2
<1>2. s \in Seq(Frame) /\ \A k \in 1..n : s[k].at \in Nat /\ s[k].next \in Nat /\ s[k].next # 0
  BY <1>1, FrameIs DEF StackOk
<1>3. PICK u : u = [k \in 1..n |-> IF k = n THEN s[k].next ELSE s[k].next - 1]
  OBVIOUS
<1>4. /\ u \in Seq(Nat) /\ Len(u) = n /\ u[n] = s[n].next
      /\ \A k \in 1..(n - 1) : u[k] = s[k].next - 1
  <2>1. \A k \in 1..n : u[k] \in Nat
    BY <1>2, <1>3
  <2>2. u \in [1..n -> Nat]
    BY <1>3, <2>1
  <2>3. u \in Seq(Nat) /\ Len(u) = n
    BY <2>2
  <2>4. n \in 1..n /\ u[n] = s[n].next
    BY <1>3
  <2>5. \A k \in 1..(n - 1) : k \in 1..n /\ k # n
    OBVIOUS
  <2> QED
    BY <1>3, <2>3, <2>4, <2>5
<1>5. \A k \in 1..(n - 1) : Descends(s, k)
  BY <1>1 DEF StackOk
<1>6. PICK v : v = [k \in 1..n |-> IF k = n THEN Pending(s) ELSE Followed(s, k)]
  OBVIOUS
<1>7. /\ v \in Seq(DirectoryEntry) /\ Len(v) = n /\ v[n] = Pending(s)
      /\ \A k \in 1..(n - 1) : v[k] = Followed(s, k)
  <2>1. ASSUME NEW k \in 1..(n - 1) PROVE Followed(s, k) \in DirectoryEntry
    <3>1. s[k].next - 1 \in StepsFrom(s[k].at)
      BY <1>5 DEF Descends
    <3>2. s[k].next - 1 \in 1..Len(Directory(s[k].at))
      BY <3>1, DirectoryIs
    <3> QED
      BY <3>2, DirectoryIs DEF Followed
  <2>2. \A k \in 1..n : k = n \/ k \in 1..(n - 1)
    OBVIOUS
  <2>3. \A k \in 1..n : v[k] \in DirectoryEntry
    BY <1>6, <2>1, <2>2, PendingIs
  <2>4. v \in [1..n -> DirectoryEntry]
    BY <1>6, <2>3
  <2> QED
    BY <1>6, <2>4
<1>8. PICK p : p = [steps |-> u, entries |-> v]
  OBVIOUS
<1>9. p.steps = u /\ p.entries = v /\ p \in [steps : Seq(Nat), entries : Seq(DirectoryEntry)]
  BY <1>4, <1>7, <1>8
<1>10. ThisPath(s) = p
  BY <1>1, <1>3, <1>6, <1>8 DEF ThisPath
<1>11. PICK dirs : dirs = [k \in 1..n |-> s[k].at]
  OBVIOUS
<1>12. dirs \in [1..n -> Nat] /\ \A k \in 1..n : dirs[k] = s[k].at
  BY <1>2, <1>11
<1>13. Reaches(p, n, dirs)
  <2>1. dirs[1] = base
    <3>1. 1 \in 1..n /\ s[1].at = base
      BY DEF StackOk
    <3> QED
      BY <1>12, <3>1
  <2>2. ASSUME NEW k \in 1..(n - 1)
        PROVE  /\ p.steps[k] \in StepsFrom(dirs[k])
               /\ Directory(dirs[k])[p.steps[k]].sub
               /\ p.entries[k] = Directory(dirs[k])[p.steps[k]]
               /\ dirs[k + 1] = base + Directory(dirs[k])[p.steps[k]].to
    <3>1. k \in 1..n /\ k + 1 \in 1..n
      OBVIOUS
    <3>2. p.steps[k] = s[k].next - 1 /\ dirs[k] = s[k].at /\ dirs[k + 1] = s[k + 1].at
          /\ p.entries[k] = Followed(s, k)
      BY <1>4, <1>7, <1>9, <1>12, <3>1
    <3> QED
      BY <1>5, <3>2 DEF Descends, Followed
  <2>3. n \in 1..n /\ dirs[n] = s[n].at /\ p.steps[n] = s[n].next /\ p.entries[n] = Pending(s)
    BY <1>4, <1>7, <1>9, <1>12
  <2>4. Pending(s) = Directory(s[n].at)[s[n].next] /\ s[n].next \in StepsFrom(s[n].at)
    BY <1>1, PendingIs DEF Pending
  <2>5. Leads(p, n - 1, dirs)
    BY <2>1, <2>2 DEF Leads
  <2> QED
    BY <2>3, <2>4, <2>5 DEF Reaches, IsResource
<1>14. p \in Paths
  BY <1>4, <1>7, <1>9, <1>12, <1>13 DEF Paths, ResourcePath
<1>15. \A k \in 1..n : p.steps[k] = Cursor(s)[k]
  BY <1>1, <1>3, <1>9 DEF Cursor
<1> QED
  BY <1>1, <1>4, <1>7, <1>9, <1>10, <1>14, <1>15

\* Of the paths that begin with the walk's position, there is that one at most.
LEMMA ThroughIs ==
  ASSUME HasResources(file), base \in Nat, NEW s, StackOk(s), ~NothingLeft(s), ~Pending(s).sub
  PROVE  Through(Cursor(s)) = IF IsResource(s) THEN {ThisPath(s)} ELSE {}
<1>1. PICK n \in 1..5 : n = Len(s)
  BY PendingIs
<1>2. PICK c \in Seq(Nat) : c = Cursor(s)
  BY CursorIs
<1>3. Len(c) = n /\ c[n] = s[n].next /\ \A k \in 1..(n - 1) : c[k] = s[k].next - 1
  BY <1>1, <1>2, CursorIs
<1>4. ASSUME NEW p \in Paths, p \in Through(c) PROVE IsResource(s) /\ Len(p.steps) = n
  <2>1. n <= Len(p.steps) /\ \A k \in 1..n : p.steps[k] = c[k]
    BY <1>3, <1>4 DEF Through
  <2>2. \A k \in 1..(n - 1) : p.steps[k] = s[k].next - 1
    <3>1. \A k \in 1..(n - 1) : k \in 1..n
      OBVIOUS
    <3> QED
      BY <1>3, <2>1, <3>1
  <2>3. p.steps[n] = s[n].next
    BY <1>3, <2>1
  <2>4. PICK m \in 3..5 :
          /\ Len(p.steps) = m /\ n <= m
          /\ n < m => Directory(s[n].at)[p.steps[n]].sub
          /\ n = m => InSection(base + Directory(s[n].at)[p.steps[n]].to, 16)
    <3>1. \A k \in 1..(Len(s) - 1) : k <= Len(p.steps) => p.steps[k] = s[k].next - 1
      BY <1>1, <2>2
    <3>2. PICK m \in 3..5 :
            /\ Len(p.steps) = m /\ Len(s) <= m
            /\ Len(s) < m => Directory(s[Len(s)].at)[p.steps[Len(s)]].sub
            /\ Len(s) = m => InSection(base + Directory(s[Len(s)].at)[p.steps[Len(s)]].to, 16)
      BY <3>1, PathAtTop
    <3> QED
      BY <1>1, <3>2
  <2>5. Pending(s) = Directory(s[n].at)[p.steps[n]]
    BY <1>1, <2>3 DEF Pending
  <2>6. n = m
    BY <2>4, <2>5
  <2> QED
    BY <1>1, <2>4, <2>5, <2>6 DEF IsResource
<1>5. CASE ~IsResource(s)
  <2>1. \A p \in Through(c) : p \in Paths
    BY DEF Through
  <2> QED
    BY <1>2, <1>4, <1>5, <2>1
<1>6. CASE IsResource(s)
  <2>1. PICK this \in Paths : this = ThisPath(s)
    BY <1>6, ThisPathIs
  <2>2. Len(this.steps) = n /\ \A k \in 1..n : this.steps[k] = c[k]
    BY <1>1, <1>2, <1>6, <2>1, ThisPathIs
  <2>3. this \in Through(c)
    BY <1>3, <2>2 DEF Through
  <2>4. ASSUME NEW p \in Through(c) PROVE p = this
    <3>1. p \in Paths /\ n <= Len(p.steps) /\ \A k \in 1..n : p.steps[k] = c[k]
      BY <1>3 DEF Through
    <3>2. Len(this.steps) <= Len(p.steps) /\ \A k \in 1..Len(this.steps) : this.steps[k] = p.steps[k]
      BY <2>2, <3>1
    <3> QED
      BY <3>1, <3>2, NoLongerPath
  <2> QED
    BY <1>2, <1>6, <2>1, <2>3, <2>4
<1> QED
  BY <1>5, <1>6

LabelledAt(s) ==
  IF Len(s) - 1 <= 2 THEN Append(s[Len(s)].labels, LabelOf(Pending(s), Len(s) - 1))
  ELSE s[Len(s)].labels

ResourceOn(s) ==
  [labels |-> LabelledAt(s), rva |-> DataRva(base + Pending(s).to),
   offset |-> PeOffset(file, DataRva(base + Pending(s).to))]

LEMMA LabelledIs ==
  ASSUME HasResources(file), NEW s, StackOk(s), ~NothingLeft(s)
  PROVE  /\ LabelledAt(s) \in Seq(Label)
         /\ Len(LabelledAt(s)) = IF Len(s) <= 3 THEN Len(s) ELSE 3
         /\ \A k \in 1..3 : k < Len(s) => LabelledAt(s)[k] = LabelOf(Followed(s, k), k - 1)
         /\ Len(s) <= 3 => LabelledAt(s)[Len(s)] = LabelOf(Pending(s), Len(s) - 1)
<1>1. PICK n \in 1..5 : n = Len(s)
  BY PendingIs
<1>2. PICK b \in Seq(Label) : b = s[n].labels
  BY <1>1, FrameIs DEF StackOk
<1>3. /\ Len(b) = IF n <= 3 THEN n - 1 ELSE 3
      /\ \A k \in 1..3 : k < n => b[k] = LabelOf(Followed(s, k), k - 1)
  BY <1>1, <1>2 DEF StackOk, LabelsOk
<1>4. PICK x \in Label : x = LabelOf(Pending(s), n - 1)
  BY PendingIs, LabelOfIs
<1>5. PICK w : w = Append(b, x)
  OBVIOUS
<1>6. w \in Seq(Label) /\ Len(w) = Len(b) + 1 /\ w[Len(b) + 1] = x /\ \A k \in 1..Len(b) : w[k] = b[k]
  BY <1>5, AppendIs
<1>7. LabelledAt(s) = IF n - 1 <= 2 THEN w ELSE b
  BY <1>1, <1>2, <1>4, <1>5 DEF LabelledAt
<1>8. CASE n <= 3
  <2>1. LabelledAt(s) = w /\ Len(b) = n - 1 /\ Len(w) = n /\ w[n] = x
    BY <1>3, <1>6, <1>7, <1>8
  <2>2. ASSUME NEW k \in 1..3, k < n PROVE w[k] = LabelOf(Followed(s, k), k - 1)
    <3>1. k \in 1..Len(b)
      BY <2>1, <2>2
    <3> QED
      BY <1>3, <1>6, <2>2, <3>1
  <2> QED
    BY <1>1, <1>4, <1>6, <1>8, <2>1, <2>2
<1>9. CASE ~(n <= 3)
  <2>1. LabelledAt(s) = b /\ Len(b) = 3
    BY <1>3, <1>7, <1>9
  <2> QED
    BY <1>1, <1>3, <1>9, <2>1
<1> QED
  BY <1>8, <1>9

\* What the walk records for an entry is what its path stands for.
LEMMA RecordedIs ==
  ASSUME HasResources(file), base \in Nat, NEW s, StackOk(s), ~NothingLeft(s), ~Pending(s).sub,
         IsResource(s)
  PROVE  ResourceAt(ThisPath(s)) = ResourceOn(s)
<1>1. PICK n \in 3..5 : n = Len(s)
  <2>1. PICK x \in 1..5 : x = Len(s)
    BY PendingIs
  <2>2. x >= 3
    BY <2>1 DEF IsResource
  <2> QED
    BY <2>1, <2>2
<1>2. PICK p \in Paths : p = ThisPath(s)
  BY ThisPathIs
<1>3. /\ Len(p.entries) = n /\ p.entries[n] = Pending(s)
      /\ \A k \in 1..(n - 1) : p.entries[k] = Followed(s, k)
  BY <1>1, <1>2, ThisPathIs
<1>4. PICK a : a = LabelledAt(s)
  OBVIOUS
<1>5. /\ a \in Seq(Label) /\ Len(a) = 3
      /\ \A k \in 1..3 : k < n => a[k] = LabelOf(Followed(s, k), k - 1)
      /\ n <= 3 => a[n] = LabelOf(Pending(s), n - 1)
  <2>1. /\ a \in Seq(Label) /\ Len(a) = IF n <= 3 THEN n ELSE 3
        /\ \A k \in 1..3 : k < n => a[k] = LabelOf(Followed(s, k), k - 1)
        /\ n <= 3 => a[n] = LabelOf(Pending(s), n - 1)
    BY <1>1, <1>4, LabelledIs
  <2> QED
    BY <2>1
<1>6. \A k \in 1..3 : a[k] = LabelOf(p.entries[k], k - 1)
  <2>1. \A k \in 1..3 : k \in 1..(n - 1) \/ (k = n /\ n <= 3)
    OBVIOUS
  <2>2. \A k \in 1..(n - 1) : k < n
    OBVIOUS
  <2> QED
    BY <1>3, <1>5, <2>1, <2>2
<1>7. a = [k \in 1..3 |-> a[k]]
  BY <1>5
<1>8. a = [k \in 1..3 |-> LabelOf(p.entries[k], k - 1)]
  BY <1>6, <1>7
<1>9. p.entries[Len(p.entries)].to = Pending(s).to
  BY <1>3
<1> QED
  BY <1>2, <1>4, <1>8, <1>9 DEF ResourceAt, ResourceOn

\* The stacks the walk goes on with.
AdvancedFrom(s) == Append(SubSeq(s, 1, Len(s) - 1), [s[Len(s)] EXCEPT !.next = @ + 1])

EnteredFrom(s) ==
  Append(AdvancedFrom(s), [at |-> base + Pending(s).to, next |-> 1, labels |-> LabelledAt(s)])

LEMMA AdvancedIs ==
  ASSUME NEW s, StackOk(s)
  PROVE  /\ AdvancedFrom(s) \in Seq(Frame) /\ Len(AdvancedFrom(s)) = Len(s)
         /\ \A k \in 1..(Len(s) - 1) : AdvancedFrom(s)[k] = s[k]
         /\ AdvancedFrom(s)[Len(s)].at = s[Len(s)].at
         /\ AdvancedFrom(s)[Len(s)].next = s[Len(s)].next + 1
         /\ AdvancedFrom(s)[Len(s)].labels = s[Len(s)].labels
         /\ StackOk(AdvancedFrom(s))
<1>1. PICK n \in 1..6 : n = Len(s)
  BY DEF StackOk
<1>2. s \in Seq(Frame)
  BY DEF StackOk
<1>3. PICK f \in Frame : f = s[n]
  BY <1>1, <1>2, FrameIs
<1>4. PICK g : g = [f EXCEPT !.next = @ + 1]
  OBVIOUS
<1>5. g \in Frame /\ g.at = f.at /\ g.next = f.next + 1 /\ g.labels = f.labels
  BY <1>4 DEF Frame
<1>6. PICK a : a = SubSeq(s, 1, n - 1)
  OBVIOUS
<1>7. a \in Seq(Frame) /\ Len(a) = n - 1 /\ \A k \in 1..(n - 1) : a[k] = s[k]
  BY <1>1, <1>2, <1>6
<1>8. PICK t : t = Append(a, g)
  OBVIOUS
<1>9. t \in Seq(Frame) /\ Len(t) = n /\ t[n] = g /\ \A k \in 1..(n - 1) : t[k] = s[k]
  <2>1. t \in Seq(Frame) /\ Len(t) = Len(a) + 1 /\ t[Len(a) + 1] = g /\ \A k \in 1..Len(a) : t[k] = a[k]
    BY <1>5, <1>7, <1>8, AppendIs
  <2>2. Len(a) + 1 = n
    BY <1>7
  <2> QED
    BY <1>7, <2>1, <2>2
<1>10. t = AdvancedFrom(s)
  BY <1>1, <1>3, <1>4, <1>6, <1>8 DEF AdvancedFrom
<1>11. \A k \in 1..n : t[k].at = s[k].at /\ t[k].labels = s[k].labels
  <2>1. \A k \in 1..n : k = n \/ k \in 1..(n - 1)
    OBVIOUS
  <2> QED
    BY <1>3, <1>5, <1>9, <2>1
<1>12. t[1].at = base
  <2>1. 1 \in 1..n /\ s[1].at = base
    BY DEF StackOk
  <2> QED
    BY <1>11, <2>1
<1>13. \A k \in 1..(n - 1) : Followed(t, k) = Followed(s, k)
  BY <1>9 DEF Followed
<1>14. \A k \in 1..(n - 1) : Descends(t, k)
  <2>1. \A k \in 1..(n - 1) : Descends(s, k) /\ k + 1 \in 1..n
    BY <1>1 DEF StackOk
  <2> QED
    BY <1>9, <1>11, <1>13, <2>1 DEF Descends
<1>15. \A i \in 1..n : LabelsOk(t, i)
  <2>1. \A i \in 1..n : LabelsOk(s, i)
    BY <1>1 DEF StackOk
  <2>2. \A i \in 1..n : \A k \in 1..3 : k < i => k \in 1..(n - 1)
    OBVIOUS
  <2> QED
    BY <1>11, <1>13, <2>1, <2>2 DEF LabelsOk
<1>16. StackOk(t)
  BY <1>9, <1>12, <1>14, <1>15 DEF StackOk
<1> QED
  BY <1>1, <1>3, <1>5, <1>9, <1>10, <1>16

LEMMA EnteredIs ==
  ASSUME HasResources(file), base \in Nat, NEW s, StackOk(s), ~NothingLeft(s), Pending(s).sub
  PROVE  /\ StackOk(EnteredFrom(s)) /\ Len(EnteredFrom(s)) = Len(s) + 1
         /\ DoneBefore(Cursor(EnteredFrom(s))) = DoneBefore(Cursor(s))
<1>1. PICK n \in 1..5 : n = Len(s)
  BY PendingIs
<1>2. PICK t : t = AdvancedFrom(s)
  OBVIOUS
<1>3. /\ t \in Seq(Frame) /\ Len(t) = n /\ \A k \in 1..(n - 1) : t[k] = s[k]
      /\ t[n].at = s[n].at /\ t[n].next = s[n].next + 1 /\ StackOk(t)
  BY <1>1, <1>2, AdvancedIs
<1>4. PICK g : g = [at |-> base + Pending(s).to, next |-> 1, labels |-> LabelledAt(s)]
  OBVIOUS
<1>5. /\ g \in Frame /\ g.at = base + Pending(s).to /\ g.next = 1 /\ g.labels = LabelledAt(s)
  <2>1. base + Pending(s).to \in Nat /\ LabelledAt(s) \in Seq(Label) /\ 1 \in Nat \ {0}
    BY PendingIs, LabelledIs
  <2> QED
    BY <1>4, <2>1 DEF Frame
<1>6. PICK w : w = Append(t, g)
  OBVIOUS
<1>7. w \in Seq(Frame) /\ Len(w) = n + 1 /\ w[n + 1] = g /\ \A k \in 1..n : w[k] = t[k]
  BY <1>3, <1>5, <1>6, AppendIs
<1>8. w = EnteredFrom(s)
  BY <1>2, <1>4, <1>6 DEF EnteredFrom
<1>9. w[1].at = base
  <2>1. 1 \in 1..n /\ t[1].at = base
    BY <1>3 DEF StackOk
  <2> QED
    BY <1>7, <2>1
<1>10. \A k \in 1..n : Followed(w, k) = Followed(t, k)
  BY <1>7 DEF Followed
<1>11. Followed(w, n) = Pending(s) /\ w[n].next - 1 = s[n].next /\ w[n].at = s[n].at
  <2>1. n \in 1..n /\ w[n] = t[n]
    BY <1>7
  <2>2. PICK x \in Nat : x = s[n].next
    BY <1>1, FrameIs DEF StackOk
  <2>3. t[n].next - 1 = x
    BY <1>3, <2>2
  <2> QED
    BY <1>1, <1>3, <2>1, <2>2, <2>3 DEF Followed, Pending
<1>12. \A k \in 1..n : Descends(w, k)
  <2>1. \A k \in 1..(n - 1) : Descends(t, k) /\ k \in 1..n /\ k + 1 \in 1..n
    BY <1>3 DEF StackOk
  <2>2. \A k \in 1..(n - 1) : Descends(w, k)
    BY <1>7, <1>10, <2>1 DEF Descends
  <2>3. s[n].next \in StepsFrom(s[n].at)
    BY <1>1, PendingIs
  <2>4. Descends(w, n)
    BY <1>5, <1>7, <1>11, <2>3 DEF Descends
  <2>5. \A k \in 1..n : k = n \/ k \in 1..(n - 1)
    OBVIOUS
  <2> QED
    BY <2>2, <2>4, <2>5
<1>13. \A i \in 1..n : LabelsOk(w, i)
  <2>1. \A i \in 1..n : LabelsOk(t, i)
    BY <1>3 DEF StackOk
  <2>2. \A i \in 1..n : \A k \in 1..3 : k < i => k \in 1..n
    OBVIOUS
  <2> QED
    BY <1>7, <1>10, <2>1, <2>2 DEF LabelsOk
<1>14. LabelsOk(w, n + 1)
  <2>1. Len(w[n + 1].labels) = IF n <= 3 THEN n ELSE 3
    <3>1. Len(LabelledAt(s)) = IF Len(s) <= 3 THEN Len(s) ELSE 3
      BY LabelledIs
    <3> QED
      BY <1>1, <1>5, <1>7, <3>1
  <2>2. Len(w[n + 1].labels) = IF n + 1 <= 3 THEN (n + 1) - 1 ELSE 3
    BY <2>1
  <2>3. ASSUME NEW k \in 1..3, k < n + 1 PROVE w[n + 1].labels[k] = LabelOf(Followed(w, k), k - 1)
    <3>1. CASE k < n
      <4>1. k \in 1..(n - 1) /\ k \in 1..n
        BY <3>1
      <4>2. Followed(w, k) = Followed(s, k)
        BY <1>3, <1>10, <4>1 DEF Followed
      <4>3. LabelledAt(s)[k] = LabelOf(Followed(s, k), k - 1)
        BY <1>1, <3>1, LabelledIs
      <4> QED
        BY <1>5, <1>7, <4>2, <4>3
    <3>2. CASE k = n
      <4>1. n <= 3
        BY <3>2
      <4>2. LabelledAt(s)[n] = LabelOf(Pending(s), n - 1)
        BY <1>1, <4>1, LabelledIs
      <4> QED
        BY <1>5, <1>7, <1>11, <3>2, <4>2
    <3> QED
      BY <2>3, <3>1, <3>2
  <2> QED
    BY <2>2, <2>3 DEF LabelsOk
<1>15. StackOk(w)
  <2>1. \A i \in 1..(n + 1) : i = n + 1 \/ i \in 1..n
    OBVIOUS
  <2>2. \A i \in 1..(n + 1) : LabelsOk(w, i)
    BY <1>13, <1>14, <2>1
  <2>3. (n + 1) - 1 = n /\ n + 1 \in 1..6
    OBVIOUS
  <2> QED
    BY <1>7, <1>9, <1>12, <2>2, <2>3 DEF StackOk
<1>16. PICK c \in Seq(Nat), d \in Seq(Nat) : c = Cursor(s) /\ d = Cursor(w)
  BY <1>15, CursorIs
<1>17. Len(c) = n /\ c[n] = s[n].next /\ \A k \in 1..(n - 1) : c[k] = s[k].next - 1
  BY <1>1, <1>16, CursorIs
<1>18. Len(d) = n + 1 /\ d[n + 1] = 1 /\ \A k \in 1..n : d[k] = w[k].next - 1
  <2>1. Len(d) = n + 1 /\ d[n + 1] = w[n + 1].next /\ \A k \in 1..((n + 1) - 1) : d[k] = w[k].next - 1
    BY <1>7, <1>15, <1>16, CursorIs
  <2>2. (n + 1) - 1 = n
    OBVIOUS
  <2> QED
    BY <1>5, <1>7, <2>1, <2>2
<1>19. \A k \in 1..n : d[k] = c[k]
  <2>1. \A k \in 1..n : k = n \/ (k \in 1..(n - 1))
    OBVIOUS
  <2>2. d[n] = c[n]
    BY <1>11, <1>17, <1>18
  <2>3. ASSUME NEW k \in 1..(n - 1) PROVE d[k] = c[k]
    <3>1. k \in 1..n
      OBVIOUS
    <3>2. w[k] = t[k]
      BY <1>7, <3>1
    <3>3. t[k] = s[k]
      BY <1>3
    <3> QED
      BY <1>17, <1>18, <3>1, <3>2, <3>3
  <2> QED
    BY <2>1, <2>2, <2>3
<1>20. DoneBefore(d) = DoneBefore(c)
  BY <1>16, <1>17, <1>18, <1>19, DoneOnEnter
<1> QED
  BY <1>1, <1>7, <1>8, <1>15, <1>16, <1>20

LEMMA LeftIs ==
  ASSUME HasResources(file), NEW s, StackOk(s), NothingLeft(s), Len(s) # 1
  PROVE  /\ StackOk(SubSeq(s, 1, Len(s) - 1)) /\ SubSeq(s, 1, Len(s) - 1) # <<>>
         /\ DoneBefore(Cursor(SubSeq(s, 1, Len(s) - 1))) = DoneBefore(Cursor(s))
<1>1. PICK n \in 1..5 : n + 1 = Len(s)
  <2>1. PICK m \in 1..6 : m = Len(s)
    BY DEF StackOk
  <2>3. m # 1
    BY <2>1
  <2>2. m - 1 \in 1..5 /\ (m - 1) + 1 = m
    BY <2>3
  <2> QED
    BY <2>1, <2>2
<1>2. s \in Seq(Frame) /\ n = Len(s) - 1
  BY <1>1 DEF StackOk
<1>3. PICK t : t = SubSeq(s, 1, n)
  OBVIOUS
<1>4. t \in Seq(Frame) /\ Len(t) = n /\ \A k \in 1..n : t[k] = s[k]
  BY <1>1, <1>2, <1>3
<1>5. t[1].at = base
  <2>1. 1 \in 1..n /\ s[1].at = base
    BY DEF StackOk
  <2> QED
    BY <1>4, <2>1
<1>6. \A k \in 1..n : Followed(t, k) = Followed(s, k)
  BY <1>4 DEF Followed
<1>7. \A k \in 1..(n - 1) : Descends(t, k)
  <2>1. \A k \in 1..n : Descends(s, k)
    BY <1>2 DEF StackOk
  <2>2. \A k \in 1..(n - 1) : k \in 1..n /\ k + 1 \in 1..n
    OBVIOUS
  <2> QED
    BY <1>4, <1>6, <2>1, <2>2 DEF Descends
<1>8. \A i \in 1..n : LabelsOk(t, i)
  <2>1. \A i \in 1..(n + 1) : LabelsOk(s, i)
    BY <1>1 DEF StackOk
  <2>2. \A i \in 1..n : i \in 1..(n + 1) /\ \A k \in 1..3 : k < i => k \in 1..n
    OBVIOUS
  <2> QED
    BY <1>4, <1>6, <2>1, <2>2 DEF LabelsOk
<1>9. StackOk(t)
  <2>1. n \in 1..6
    OBVIOUS
  <2> QED
    BY <1>4, <1>5, <1>7, <1>8, <2>1 DEF StackOk
<1>10. Len(t) = Len(s) - 1 /\ \A k \in 1..Len(t) : t[k] = s[k]
  BY <1>2, <1>4
<1>11. DoneBefore(Cursor(t)) = DoneBefore(Cursor(s))
  BY <1>9, <1>10, DoneOnLeave
<1>12. t # <<>>
  BY <1>4
<1> QED
  BY <1>2, <1>3, <1>9, <1>11, <1>12

LEMMA PassedOnAdvance ==
  ASSUME HasResources(file), base \in Nat, NEW s, StackOk(s), ~NothingLeft(s), ~Pending(s).sub
  PROVE  DoneBefore(Cursor(AdvancedFrom(s)))
           = DoneBefore(Cursor(s)) \cup (IF IsResource(s) THEN {ThisPath(s)} ELSE {})
<1>1. PICK n \in 1..5 : n = Len(s)
  BY PendingIs
<1>2. PICK t : t = AdvancedFrom(s)
  OBVIOUS
<1>3. /\ Len(t) = n /\ \A k \in 1..(n - 1) : t[k] = s[k]
      /\ t[n].next = s[n].next + 1 /\ StackOk(t)
  BY <1>1, <1>2, AdvancedIs
<1>4. PICK c \in Seq(Nat), d \in Seq(Nat) : c = Cursor(s) /\ d = Cursor(t)
  BY <1>3, CursorIs
<1>5. Len(c) = n /\ c[n] = s[n].next /\ \A k \in 1..(n - 1) : c[k] = s[k].next - 1
  BY <1>1, <1>4, CursorIs
<1>6. Len(d) = n /\ d[n] = t[n].next /\ \A k \in 1..(n - 1) : d[k] = t[k].next - 1
  BY <1>3, <1>4, CursorIs
<1>7. d[n] = c[n] + 1 /\ \A k \in 1..(n - 1) : d[k] = c[k]
  BY <1>3, <1>5, <1>6
<1>8. n \in Nat \ {0}
  OBVIOUS
<1>9. DoneBefore(d) = DoneBefore(c) \cup Through(c)
  BY <1>5, <1>6, <1>7, <1>8, DoneOnAdvance
<1> QED
  BY <1>2, <1>4, <1>9, ThroughIs

\* The paths done come before the one the walk has come to.
LEMMA ThisPathIsNext ==
  ASSUME HasResources(file), base \in Nat, NEW s, StackOk(s), ~NothingLeft(s), ~Pending(s).sub,
         IsResource(s)
  PROVE  /\ ThisPath(s) \in Paths /\ ThisPath(s) \notin DoneBefore(Cursor(s))
         /\ \A y \in DoneBefore(Cursor(s)) : <<y, ThisPath(s)>> \in EarlierPaths
<1>1. PICK p \in Paths : p = ThisPath(s)
  BY ThisPathIs
<1>2. PICK c \in Seq(Nat) : c = Cursor(s)
  BY CursorIs
<1>3. Len(p.steps) = Len(c) /\ \A k \in 1..Len(c) : p.steps[k] = c[k]
  BY <1>1, <1>2, ThisPathIs, CursorIs
<1>4. PICK n \in 3..5 : Len(p.steps) = n /\ DOMAIN p.steps = 1..n /\ \A k \in 1..n : p.steps[k] \in Nat
  BY PathIs
<1>5. Len(c) = n /\ DOMAIN c = 1..n /\ \A k \in 1..n : p.steps[k] = c[k]
  <2>1. Len(c) = n
    BY <1>3, <1>4
  <2>2. DOMAIN c = 1..n
    BY <2>1
  <2> QED
    BY <1>3, <2>1, <2>2
<1>6. p \notin DoneBefore(c)
  <2>1. ASSUME NEW k \in 1..n PROVE ~(p.steps[k] < c[k])
    <3>1. PICK x \in Nat : x = p.steps[k] /\ x = c[k]
      BY <1>4, <1>5
    <3> QED
      BY <3>1
  <2> QED
    BY <1>5, <2>1 DEF DoneBefore, PassedBy
<1>7. ASSUME NEW y \in DoneBefore(c) PROVE <<y, p>> \in EarlierPaths
  <2>1. y \in Paths /\ PassedBy(y, c)
    BY DEF DoneBefore
  <2>2. PICK m \in 3..5 : Len(y.steps) = m /\ DOMAIN y.steps = 1..m
    BY <2>1, PathIs
  <2>3. PICK k \in 1..n : k <= m /\ y.steps[k] < c[k] /\ \A j \in 1..(k - 1) : y.steps[j] = c[j]
    BY <1>5, <2>1, <2>2 DEF PassedBy
  <2>4. k \in 1..m
    BY <2>3
  <2>5. \A j \in 1..(k - 1) : y.steps[j] = p.steps[j]
    <3>1. \A j \in 1..(k - 1) : j \in 1..n
      OBVIOUS
    <3> QED
      BY <1>5, <2>3, <3>1
  <2>6. y.steps[k] < p.steps[k]
    BY <1>5, <2>3
  <2>7. Earlier(y, p)
    BY <1>4, <2>2, <2>4, <2>5, <2>6 DEF Earlier
  <2> QED
    BY <2>1, <2>7, PathsAreOrdered
<1> QED
  BY <1>1, <1>2, <1>6, <1>7

-----------------------------------------------------------------------------
\* What is recorded of the paths done: the first of them, up to the limit.

Lesser(m, n) == IF m < n THEN m ELSE n

Taken(S) ==
  [k \in 1..Lesser(Cardinality(S), MaxResources) |-> ResourceAt(Arranged(S, EarlierPaths)[k])]

ResourcesOfPaths == {ResourceAt(p) : p \in Paths}

LEMMA TakenIs ==
  ASSUME IsFiniteSet(Paths), NEW S \in SUBSET Paths
  PROVE  /\ Taken(S) \in Seq(ResourcesOfPaths) /\ Cardinality(S) \in Nat
         /\ Len(Taken(S)) = Lesser(Cardinality(S), MaxResources)
         /\ IsFiniteSet(S) /\ StrictOrder(S, EarlierPaths)
<1>1. IsFiniteSet(S) /\ Cardinality(S) \in Nat
  BY FS_Subset, FS_CardinalityType
<1>2. StrictOrder(S, EarlierPaths)
  <2>1. StrictOrder(Paths, EarlierPaths)
    BY PathsAreOrdered
  <2> QED
    BY <2>1, Zenon DEF StrictOrder
<1>3. \A k \in 1..Cardinality(S) : Arranged(S, EarlierPaths)[k] \in S
  BY <1>1, <1>2, ArrangedExists
<1>4. PICK m \in Nat : m = Lesser(Cardinality(S), MaxResources) /\ m <= Cardinality(S)
  BY <1>1, ResourceAssumption DEF Lesser
<1>5. \A k \in 1..m : ResourceAt(Arranged(S, EarlierPaths)[k]) \in ResourcesOfPaths
  <2>1. \A k \in 1..m : k \in 1..Cardinality(S)
    BY <1>1, <1>4
  <2> QED
    BY <1>3, <2>1 DEF ResourcesOfPaths
<1>6. PICK f : f = Taken(S)
  OBVIOUS
<1>7. f \in [1..m -> ResourcesOfPaths]
  BY <1>4, <1>5, <1>6 DEF Taken
<1>8. f \in Seq(ResourcesOfPaths) /\ Len(f) = m
  BY <1>7
<1> QED
  BY <1>1, <1>2, <1>4, <1>6, <1>8

LEMMA TakenGrows ==
  ASSUME IsFiniteSet(Paths), NEW S \in SUBSET Paths, NEW x \in Paths, x \notin S,
         \A y \in S : <<y, x>> \in EarlierPaths
  PROVE  Taken(S \cup {x}) = IF Len(Taken(S)) < MaxResources
                             THEN Append(Taken(S), ResourceAt(x)) ELSE Taken(S)
<1>1. PICK T \in SUBSET Paths : T = S \cup {x}
  OBVIOUS
<1>2. /\ Taken(S) \in Seq(ResourcesOfPaths) /\ Cardinality(S) \in Nat
      /\ Len(Taken(S)) = Lesser(Cardinality(S), MaxResources) /\ IsFiniteSet(S)
  BY TakenIs
<1>3. StrictOrder(T, EarlierPaths)
  BY TakenIs
<1>4. /\ Cardinality(T) = Cardinality(S) + 1
      /\ \A k \in 1..Cardinality(S) : Arranged(T, EarlierPaths)[k] = Arranged(S, EarlierPaths)[k]
      /\ Arranged(T, EarlierPaths)[Cardinality(S) + 1] = x
  <2>1. IsFiniteSet(S)
    BY <1>2
  <2>2. OneLater(T, EarlierPaths, S, x)
    BY <1>1, <1>3, <2>1, ArrangedLast
  <2> QED
    BY <2>2 DEF OneLater
<1>5. PICK n \in Nat : n = Cardinality(S)
  BY <1>2
<1>6. MaxResources \in Nat
  BY ResourceAssumption
<1>7. CASE n < MaxResources
  <2>1. Lesser(n, MaxResources) = n /\ Lesser(n + 1, MaxResources) = n + 1
    BY <1>6, <1>7 DEF Lesser
  <2>2. PICK f : f = [k \in 1..(n + 1) |-> ResourceAt(Arranged(T, EarlierPaths)[k])]
    OBVIOUS
  <2>3. Taken(T) = f
    BY <1>4, <1>5, <2>1, <2>2 DEF Taken
  <2>4. PICK g : g = Taken(S)
    OBVIOUS
  <2>5. g = [k \in 1..n |-> ResourceAt(Arranged(S, EarlierPaths)[k])]
    BY <1>5, <2>1, <2>4 DEF Taken
  <2>6. g \in Seq(ResourcesOfPaths) /\ Len(g) = n
    BY <1>2, <1>5, <2>1, <2>4
  <2>7. PICK r \in ResourcesOfPaths : r = ResourceAt(x)
    BY DEF ResourcesOfPaths
  <2>8. PICK h : h = Append(g, r)
    OBVIOUS
  <2>9. h \in Seq(ResourcesOfPaths) /\ Len(h) = n + 1 /\ h[n + 1] = r /\ \A k \in 1..n : h[k] = g[k]
    BY <2>6, <2>7, <2>8, AppendIs
  <2>10. h = [k \in 1..(n + 1) |-> h[k]]
    BY <2>9
  <2>11. \A k \in 1..(n + 1) : h[k] = ResourceAt(Arranged(T, EarlierPaths)[k])
    <3>1. \A k \in 1..(n + 1) : k \in 1..n \/ k = n + 1
      OBVIOUS
    <3>2. \A k \in 1..n : h[k] = ResourceAt(Arranged(T, EarlierPaths)[k])
      BY <1>4, <1>5, <2>5, <2>9
    <3>3. h[n + 1] = ResourceAt(Arranged(T, EarlierPaths)[n + 1])
      BY <1>4, <1>5, <2>7, <2>9
    <3> QED
      BY <3>1, <3>2, <3>3
  <2>12. h = f
    BY <2>2, <2>10, <2>11
  <2>13. Len(Taken(S)) < MaxResources
    BY <1>7, <2>4, <2>6
  <2> QED
    BY <1>1, <2>3, <2>4, <2>7, <2>8, <2>12, <2>13
<1>8. CASE ~(n < MaxResources)
  <2>1. Lesser(n, MaxResources) = MaxResources /\ Lesser(n + 1, MaxResources) = MaxResources
    BY <1>6, <1>8 DEF Lesser
  <2>2. Taken(T) = [k \in 1..MaxResources |-> ResourceAt(Arranged(T, EarlierPaths)[k])]
    BY <1>4, <1>5, <2>1 DEF Taken
  <2>3. Taken(S) = [k \in 1..MaxResources |-> ResourceAt(Arranged(S, EarlierPaths)[k])]
    BY <1>5, <2>1 DEF Taken
  <2>4. \A k \in 1..MaxResources : Arranged(T, EarlierPaths)[k] = Arranged(S, EarlierPaths)[k]
    <3>1. \A k \in 1..MaxResources : k \in 1..n
      BY <1>6, <1>8
    <3> QED
      BY <1>4, <1>5, <3>1
  <2>5. ~(Len(Taken(S)) < MaxResources)
    BY <1>2, <1>5, <1>6, <2>1
  <2> QED
    BY <1>1, <2>2, <2>3, <2>4, <2>5
<1> QED
  BY <1>7, <1>8

LEMMA TakenIsFirst ==
  ASSUME HasResources(file), base \in Nat, NEW S \in SUBSET Paths, Closed(S)
  PROVE  /\ IsPrefix(Taken(S), Expected)
         /\ Len(Taken(Paths)) = IF Len(Expected) < MaxResources THEN Len(Expected) ELSE MaxResources
<1>1. IsFiniteSet(Paths)
  BY PathsAre
<1>2. /\ Taken(S) \in Seq(ResourcesOfPaths) /\ Cardinality(S) \in Nat
      /\ Len(Taken(S)) = Lesser(Cardinality(S), MaxResources)
  BY <1>1, TakenIs
<1>3. Cardinality(Paths) \in Nat /\ Len(Taken(Paths)) = Lesser(Cardinality(Paths), MaxResources)
  BY <1>1, TakenIs
<1>4. StrictOrder(Paths, EarlierPaths)
  BY PathsAreOrdered
<1>5. PICK n \in Nat : n = Cardinality(Paths)
  BY <1>3
<1>6. PICK e : e = Expected
  OBVIOUS
<1>7. e = [k \in 1..n |-> ResourceAt(Arranged(Paths, EarlierPaths)[k])]
  BY <1>5, <1>6, ExpectedIs
<1>8. e \in Seq(ResourcesOfPaths) /\ Len(e) = n
  <2>1. \A k \in 1..n : Arranged(Paths, EarlierPaths)[k] \in Paths
    BY <1>1, <1>4, <1>5, ArrangedExists
  <2>2. \A k \in 1..n : e[k] \in ResourcesOfPaths
    BY <1>7, <2>1 DEF ResourcesOfPaths
  <2>3. e \in [1..n -> ResourcesOfPaths]
    BY <1>7, <2>2
  <2> QED
    BY <2>3
<1>9. PICK m \in Nat : m = Lesser(Cardinality(S), MaxResources) /\ m <= Cardinality(S)
  BY <1>2, ResourceAssumption DEF Lesser
<1>10. \A x \in S, y \in Paths : <<y, x>> \in EarlierPaths => y \in S
  BY DEF Closed
<1>11. /\ Cardinality(S) <= n
       /\ \A k \in 1..Cardinality(S) : Arranged(S, EarlierPaths)[k] = Arranged(Paths, EarlierPaths)[k]
  BY <1>1, <1>4, <1>5, <1>10, ArrangedPrefix
<1>12. m <= n
  BY <1>2, <1>9, <1>11
<1>13. PICK g \in Seq(ResourcesOfPaths) : g = Taken(S) /\ Len(g) = m
  BY <1>2, <1>9
<1>14. \A k \in 1..m : g[k] = e[k]
  <2>1. \A k \in 1..m : k \in 1..Cardinality(S) /\ k \in 1..n
    BY <1>2, <1>9, <1>12
  <2>2. \A k \in 1..m : g[k] = ResourceAt(Arranged(S, EarlierPaths)[k])
    BY <1>9, <1>13 DEF Taken
  <2> QED
    BY <1>7, <1>11, <2>1, <2>2
<1>15. IsPrefix(g, e)
  <2>1. PICK a, b : a = SubSeq(g, 1, m) /\ b = SubSeq(e, 1, m)
    OBVIOUS
  <2>2. a \in Seq(ResourcesOfPaths) /\ Len(a) = m /\ \A k \in 1..m : a[k] = g[k]
    BY <1>13, <2>1
  <2>3. b \in Seq(ResourcesOfPaths) /\ Len(b) = m /\ \A k \in 1..m : b[k] = e[k]
    BY <1>8, <1>12, <2>1
  <2>4. a = b
    BY <1>14, <2>2, <2>3, SeqEqual
  <2> QED
    BY <1>8, <1>12, <1>13, <2>1, <2>4 DEF IsPrefix
<1>16. Len(Taken(Paths)) = IF n < MaxResources THEN n ELSE MaxResources
  BY <1>3, <1>5 DEF Lesser
<1> QED
  BY <1>6, <1>8, <1>13, <1>15, <1>16

-----------------------------------------------------------------------------
\* The tree stays the same when the file, the base and the end do.

Rooted == <<file, base, end>>

LEMMA DirectoriesKept ==
  ASSUME UNCHANGED Rooted
  PROVE  /\ file' = file /\ base' = base
         /\ \A o : Directory(o)' = Directory(o)
         /\ \A o, n : InSection(o, n)' <=> InSection(o, n)
         /\ \A o : StepsFrom(o)' = StepsFrom(o)
         /\ \A e, d : LabelOf(e, d)' = LabelOf(e, d)
<1>1. file' = file /\ base' = base /\ end' = end
  BY DEF Rooted
<1>2. \A o : Directory(o)' = Directory(o)
  BY <1>1 DEF Directory
<1>3. \A o, n : InSection(o, n)' <=> InSection(o, n)
  BY <1>1 DEF InSection
<1>4. \A o : Readable(o)' <=> Readable(o)
  BY <1>1, <1>2 DEF Readable, InSection
<1>5. \A o : StepsFrom(o)' = StepsFrom(o)
  BY <1>2, <1>4 DEF StepsFrom
<1>6. \A e, d : LabelOf(e, d)' = LabelOf(e, d)
  BY <1>1 DEF LabelOf, NameAt
<1> QED
  BY <1>1, <1>2, <1>3, <1>5, <1>6

LEMMA PathsKept ==
  ASSUME UNCHANGED Rooted
  PROVE  /\ Paths' = Paths /\ EarlierPaths' = EarlierPaths
         /\ \A p : ResourceAt(p)' = ResourceAt(p)
<1>1. \A p, n, dirs : Leads(p, n, dirs)' <=> Leads(p, n, dirs)
  BY DirectoriesKept DEF Leads
<1>2. \A p, n, dirs : Reaches(p, n, dirs)' <=> Reaches(p, n, dirs)
  <2>1. SUFFICES ASSUME NEW p, NEW n, NEW dirs PROVE Reaches(p, n, dirs)' <=> Reaches(p, n, dirs)
    OBVIOUS
  <2>2. base + Directory(dirs[n])[p.steps[n]].to = base' + Directory(dirs[n])'[p.steps[n]].to
    BY DirectoriesKept
  <2>3. InSection(base + Directory(dirs[n])[p.steps[n]].to, 16)'
          <=> InSection(base + Directory(dirs[n])[p.steps[n]].to, 16)
    <3>1. end' = end /\ file' = file
      BY DEF Rooted
    <3> QED
      BY <2>2, <3>1 DEF InSection
  <2>4. Leads(p, n - 1, dirs)' <=> Leads(p, n - 1, dirs)
    BY <1>1
  <2> QED
    BY <2>3, <2>4, DirectoriesKept DEF Reaches
<1>3. \A p : ResourcePath(p)' <=> ResourcePath(p)
  BY <1>2 DEF ResourcePath
<1>4. Paths' = Paths
  BY <1>3 DEF Paths
<1>5. EarlierPaths' = EarlierPaths
  BY <1>4 DEF EarlierPaths
<1>6. \A p : ResourceAt(p)' = ResourceAt(p)
  <2>1. file' = file /\ base' = base /\ \A e, d : LabelOf(e, d)' = LabelOf(e, d)
    BY DirectoriesKept
  <2>2. \A o : DataRva(o)' = DataRva(o)
    BY <2>1 DEF DataRva
  <2> QED
    BY <2>1, <2>2 DEF ResourceAt, DataRva
<1> QED
  BY <1>4, <1>5, <1>6

LEMMA WalkKept ==
  ASSUME UNCHANGED Rooted
  PROVE  /\ \A s : StackOk(s)' <=> StackOk(s)
         /\ \A c : DoneBefore(c)' = DoneBefore(c)
         /\ \A S : Taken(S)' = Taken(S)
         /\ \A S : Closed(S)' <=> Closed(S)
<1>1. \A s, i : Followed(s, i)' = Followed(s, i)
  BY DirectoriesKept DEF Followed
<1>2. \A s, i : Descends(s, i)' <=> Descends(s, i)
  BY <1>1, DirectoriesKept DEF Descends
<1>3. \A s, i : LabelsOk(s, i)' <=> LabelsOk(s, i)
  <2>1. \A s, k : LabelOf(Followed(s, k), k - 1)' = LabelOf(Followed(s, k), k - 1)
    <3>1. file' = file /\ base' = base
      BY DEF Rooted
    <3> QED
      BY <1>1, <3>1 DEF LabelOf, NameAt
  <2> QED
    BY <2>1 DEF LabelsOk
<1>4. \A s : StackOk(s)' <=> StackOk(s)
  BY <1>2, <1>3, DirectoriesKept DEF StackOk
<1>5. \A c : DoneBefore(c)' = DoneBefore(c)
  BY PathsKept DEF DoneBefore
<1>6. \A S : Taken(S)' = Taken(S)
  <2>1. SUFFICES ASSUME NEW S PROVE Taken(S)' = Taken(S)
    OBVIOUS
  <2>2. Arranged(S, EarlierPaths)' = Arranged(S, EarlierPaths)
    BY PathsKept
  <2> QED
    BY <2>2, PathsKept DEF Taken
<1>7. \A S : Closed(S)' <=> Closed(S)
  BY PathsKept DEF Closed
<1> QED
  BY <1>4, <1>5, <1>6, <1>7

-----------------------------------------------------------------------------
\* The inductive invariant of the walk.

BeforeWalk ==
  {"allocate", "sections", "strings", "read", "dynamic", "needed", "imports", "delayed",
   "exports", "resources"}

PeSteps == {"imports", "delayed", "exports", "resources"}

\* While the tree is walked, what is recorded stands for the paths done.
Walking ==
  \E s, S : /\ s = stack /\ StackOk(s) /\ S = DoneBefore(Cursor(s)) /\ resources = Taken(S)

\* When the walk is over, for all of them, unless it was cut short.
Walked ==
  \E S : /\ S \in SUBSET Paths /\ Closed(S) /\ resources = Taken(S)
         /\ (pc # "reported" \/ enriched) => S = Paths

ResourcesInv ==
  /\ available \in BOOLEAN /\ base \in Nat /\ end \in 0..file.size
  /\ capacity \in Nat /\ Len(resources) <= capacity /\ capacity <= MaxResources
  /\ pc \in PeSteps => file.kind = "pe"
  /\ ~available => resources = <<>> /\ pc # "walk"
  /\ available => file.kind = "pe" /\ pc \in {"walk", "overlay", "signatures", "hints", "reported"}
  /\ pc = "walk" => Walking
  /\ pc # "walk" => stack = <<>>
  /\ available /\ pc # "walk" => Walked
  /\ enriched => pc = "reported"

LEMMA ResourcesInvImplies == CaseInv /\ ResourcesInv => ResourcesAreTheTree
<1> SUFFICES ASSUME CaseInv, ResourcesInv, available
             PROVE  /\ IsPrefix(resources, Expected)
                    /\ pc \notin {"walk", "reported"} \/ enriched =>
                         Len(resources) = IF Len(Expected) < MaxResources
                                          THEN Len(Expected) ELSE MaxResources
  BY DEF ResourcesAreTheTree
<1>1. HasResources(file) /\ base \in Nat
  BY CaseFacts DEF ResourcesInv
<1>2. CASE pc = "walk"
  <2>1. ~enriched
    BY <1>2 DEF ResourcesInv
  <2>2. PICK s, S : /\ s = stack /\ StackOk(s) /\ S = DoneBefore(Cursor(s)) /\ resources = Taken(S)
    BY <1>2 DEF ResourcesInv, Walking
  <2>3. PICK c \in Seq(Nat) : c = Cursor(s)
    BY <2>2, CursorIs
  <2>4. S \in SUBSET Paths /\ Closed(S)
    BY <2>2, <2>3, DoneIsClosed
  <2>5. IsPrefix(Taken(S), Expected)
    BY <1>1, <2>4, TakenIsFirst
  <2> QED
    BY <1>2, <2>1, <2>2, <2>5
<1>3. CASE pc # "walk"
  <2>1. PICK S : /\ S \in SUBSET Paths /\ Closed(S) /\ resources = Taken(S)
                 /\ (pc # "reported" \/ enriched) => S = Paths
    BY <1>3 DEF ResourcesInv, Walked
  <2>2. /\ IsPrefix(Taken(S), Expected)
        /\ Len(Taken(Paths)) = IF Len(Expected) < MaxResources THEN Len(Expected) ELSE MaxResources
    BY <1>1, <2>1, TakenIsFirst
  <2> QED
    BY <2>1, <2>2
<1> QED
  BY <1>2, <1>3

LEMMA ResourcesInvInit == CaseInv /\ Init => ResourcesInv
<1> SUFFICES ASSUME CaseInv, Init PROVE ResourcesInv
  OBVIOUS
<1>1. file.size \in Nat
  BY CaseFacts
<1>2. 0 \in 0..file.size /\ MaxResources \in Nat /\ Len(<<>>) = 0
  BY <1>1, ResourceAssumption
<1>3. /\ pc = "allocate" /\ available = FALSE /\ base = 0 /\ end = 0 /\ stack = <<>>
      /\ resources = <<>> /\ capacity = 0 /\ enriched = FALSE
  BY DEF Init, ResourcesInit
<1>4. Len(resources) <= capacity /\ capacity <= MaxResources /\ base \in Nat /\ end \in 0..file.size
  BY <1>2, <1>3
<1>5. pc \notin PeSteps /\ pc # "walk"
  BY <1>3 DEF PeSteps
<1> QED
  BY <1>3, <1>4, <1>5 DEF ResourcesInv

\* The walk's operators are those of its stack.
LEMMA WalkIs ==
  ASSUME NEW s, s = stack, StackOk(s)
  PROVE  /\ Finished <=> NothingLeft(s)
         /\ Entry = Pending(s) /\ Below = SubSeq(s, 1, Len(s) - 1)
         /\ Advanced = AdvancedFrom(s)
         /\ Append(Advanced, [at |-> base + Entry.to, next |-> 1, labels |-> Labelled]) = EnteredFrom(s)
         /\ Records <=> IsResource(s)
         /\ Resource = ResourceOn(s)
<1>1. Top = s[Len(s)] /\ Below = SubSeq(s, 1, Len(s) - 1) /\ Depth = Len(s) - 1
  BY DEF Top, Below, Depth
<1>2. Finished <=> NothingLeft(s)
  BY <1>1, Zenon DEF Finished, NothingLeft
<1>3. Entry = Pending(s)
  BY <1>1 DEF Entry, Pending
<1>4. Labelled = LabelledAt(s)
  BY <1>1, <1>3 DEF Labelled, LabelledAt
<1>5. Advanced = AdvancedFrom(s)
  BY <1>1 DEF Advanced, AdvancedFrom
<1>6. Append(Advanced, [at |-> base + Entry.to, next |-> 1, labels |-> Labelled]) = EnteredFrom(s)
  BY <1>3, <1>4, <1>5 DEF EnteredFrom
<1>7. Len(s) - 1 >= 2 <=> Len(s) >= 3
  <2>1. PICK n \in 1..6 : n = Len(s)
    BY DEF StackOk
  <2>2. n - 1 >= 2 <=> n >= 3
    OBVIOUS
  <2> QED
    BY <2>1, <2>2
<1>8. Records <=> IsResource(s)
  BY <1>1, <1>3, <1>7 DEF Records, IsResource
<1>9. Resource = ResourceOn(s)
  BY <1>3, <1>4 DEF Resource, ResourceOn
<1> QED
  BY <1>1, <1>2, <1>3, <1>5, <1>6, <1>8, <1>9

\* What a step of the walk needs of the state before it.
LEMMA WalkingFacts ==
  ASSUME CaseInv, ResourcesInv, pc = "walk"
  PROVE  /\ available /\ HasResources(file) /\ base \in Nat /\ end \in 0..file.size
         /\ file.kind = "pe" /\ ~enriched /\ IsFiniteSet(Paths)
         /\ capacity \in Nat /\ Len(resources) <= capacity /\ capacity <= MaxResources
         /\ MaxResources \in Nat
<1>1. available /\ file.kind = "pe" /\ ~enriched
  BY DEF ResourcesInv
<1>2. HasResources(file) /\ base \in Nat
  BY <1>1, CaseFacts DEF ResourcesInv
<1> QED
  BY <1>1, <1>2, PathsAre, ResourceAssumption DEF ResourcesInv

\* The tree is left alone and the walk goes on.
GoesOn ==
  /\ pc' = "walk" /\ UNCHANGED Rooted /\ available' = available /\ enriched' = enriched

LEMMA WalkGoesOn ==
  ASSUME CaseInv, ResourcesInv, pc = "walk", GoesOn,
         NEW t, t = stack', StackOk(t), resources' = Taken(DoneBefore(Cursor(t))),
         capacity' \in Nat, Len(resources') <= capacity', capacity' <= MaxResources
  PROVE  ResourcesInv'
<1>1. /\ available /\ base \in Nat /\ end \in 0..file.size /\ file.kind = "pe" /\ ~enriched
  BY WalkingFacts
<1>2. file' = file /\ base' = base /\ end' = end /\ available' /\ ~enriched' /\ pc' = "walk"
  BY <1>1 DEF GoesOn, Rooted
<1>3. Walking'
  <2>1. PICK S : S = DoneBefore(Cursor(t))
    OBVIOUS
  <2>2. PICK c : c = Cursor(t)
    OBVIOUS
  <2>3. StackOk(t)' /\ Taken(S)' = Taken(S) /\ DoneBefore(c)' = DoneBefore(c)
    BY WalkKept DEF GoesOn
  <2>4. DoneBefore(Cursor(t))' = S
    BY <2>1, <2>2, <2>3 DEF Cursor
  <2>5. resources' = Taken(S)'
    BY <2>1, <2>3
  <2> QED
    BY <2>3, <2>4, <2>5 DEF Walking
<1> QED
  BY <1>1, <1>2, <1>3 DEF ResourcesInv, PeSteps

LEMMA EnterDirectoryStep ==
  ASSUME CaseInv, ResourcesInv, CollectResources, EnterDirectory
  PROVE  ResourcesInv'
<1>1. pc = "walk" /\ GoesOn /\ resources' = resources /\ capacity' = capacity
  BY DEF EnterDirectory, CollectResources, GoesOn, Rooted
<1>2. PICK s, S : /\ s = stack /\ StackOk(s) /\ S = DoneBefore(Cursor(s)) /\ resources = Taken(S)
  BY <1>1 DEF ResourcesInv, Walking
<1>3. ~NothingLeft(s) /\ Pending(s).sub /\ stack' = EnteredFrom(s)
  BY <1>2, WalkIs DEF EnterDirectory
<1>4. PICK t : t = EnteredFrom(s)
  OBVIOUS
<1>5. StackOk(t) /\ DoneBefore(Cursor(t)) = S
  BY <1>1, <1>2, <1>3, <1>4, WalkingFacts, EnteredIs
<1>6. capacity' \in Nat /\ Len(resources') <= capacity' /\ capacity' <= MaxResources
  BY <1>1, WalkingFacts
<1> QED
  BY <1>1, <1>2, <1>3, <1>4, <1>5, <1>6, WalkGoesOn

LEMMA SkipEntryStep ==
  ASSUME CaseInv, ResourcesInv, CollectResources, SkipEntry
  PROVE  ResourcesInv'
<1>1. pc = "walk" /\ GoesOn /\ resources' = resources /\ capacity' = capacity
  BY DEF SkipEntry, CollectResources, GoesOn, Rooted
<1>2. PICK s, S : /\ s = stack /\ StackOk(s) /\ S = DoneBefore(Cursor(s)) /\ resources = Taken(S)
  BY <1>1 DEF ResourcesInv, Walking
<1>3. /\ ~NothingLeft(s) /\ ~Pending(s).sub /\ stack' = AdvancedFrom(s)
      /\ ~IsResource(s) \/ Len(resources) >= MaxResources
  BY <1>2, WalkIs DEF SkipEntry
<1>4. PICK t : t = AdvancedFrom(s)
  OBVIOUS
<1>5. StackOk(t) /\ DoneBefore(Cursor(t)) = S \cup (IF IsResource(s) THEN {ThisPath(s)} ELSE {})
  BY <1>1, <1>2, <1>3, <1>4, WalkingFacts, AdvancedIs, PassedOnAdvance
<1>6. Taken(DoneBefore(Cursor(t))) = Taken(S)
  <2>1. CASE ~IsResource(s)
    <3>1. S \cup {} = S
      OBVIOUS
    <3> QED
      BY <1>5, <2>1, <3>1
  <2>2. CASE IsResource(s)
    <3>1. PICK p \in Paths : p = ThisPath(s) /\ p \notin S /\ \A y \in S : <<y, p>> \in EarlierPaths
      BY <1>1, <1>2, <1>3, <2>2, WalkingFacts, ThisPathIsNext
    <3>2. S \in SUBSET Paths
      BY <1>2 DEF DoneBefore
    <3>3. ~(Len(Taken(S)) < MaxResources)
      <4>1. Len(Taken(S)) >= MaxResources /\ MaxResources \in Nat /\ Len(Taken(S)) \in Int
        <5>1. Len(Taken(S)) >= MaxResources
          BY <1>2, <1>3, <2>2
        <5>2. Taken(S) \in Seq(ResourcesOfPaths)
          BY <1>1, <3>2, WalkingFacts, TakenIs
        <5>3. Len(Taken(S)) \in Nat
          BY <5>2
        <5> QED
          BY <1>1, <5>1, <5>3, WalkingFacts
      <4> QED
        BY <4>1
    <3>4. Taken(S \cup {p}) = Taken(S)
      <4>1. IsFiniteSet(Paths)
        BY <1>1, WalkingFacts
      <4> QED
        BY <3>1, <3>2, <3>3, <4>1, TakenGrows
    <3> QED
      BY <1>5, <2>2, <3>1, <3>4
  <2> QED
    BY <2>1, <2>2
<1>7. capacity' \in Nat /\ Len(resources') <= capacity' /\ capacity' <= MaxResources
  BY <1>1, WalkingFacts
<1> QED
  BY <1>1, <1>2, <1>3, <1>4, <1>5, <1>6, <1>7, WalkGoesOn

LEMMA RecordResourceStep ==
  ASSUME CaseInv, ResourcesInv, CollectResources, RecordResource
  PROVE  ResourcesInv'
<1>1. pc = "walk" /\ GoesOn
  BY DEF RecordResource, CollectResources, GoesOn, Rooted
<1>2. PICK s, S : /\ s = stack /\ StackOk(s) /\ S = DoneBefore(Cursor(s)) /\ resources = Taken(S)
  BY <1>1 DEF ResourcesInv, Walking
<1>3. /\ ~NothingLeft(s) /\ ~Pending(s).sub /\ stack' = AdvancedFrom(s)
      /\ IsResource(s) /\ Len(resources) < MaxResources
      /\ resources' = Append(resources, ResourceOn(s))
      /\ capacity' = IF Len(resources) = capacity THEN Grown ELSE capacity
  BY <1>2, WalkIs DEF RecordResource
<1>4. PICK t : t = AdvancedFrom(s)
  OBVIOUS
<1>5. HasResources(file) /\ base \in Nat /\ IsFiniteSet(Paths)
  BY <1>1, WalkingFacts
<1>6. PICK p \in Paths : p = ThisPath(s) /\ p \notin S /\ \A y \in S : <<y, p>> \in EarlierPaths
  BY <1>2, <1>3, <1>5, ThisPathIsNext
<1>7. StackOk(t) /\ DoneBefore(Cursor(t)) = S \cup {p}
  BY <1>2, <1>3, <1>4, <1>5, <1>6, AdvancedIs, PassedOnAdvance
<1>8. S \in SUBSET Paths
  BY <1>2 DEF DoneBefore
<1>9. ResourceAt(p) = ResourceOn(s)
  BY <1>2, <1>3, <1>5, <1>6, RecordedIs
<1>10. Taken(S \cup {p}) = Append(Taken(S), ResourceAt(p))
  BY <1>2, <1>3, <1>5, <1>6, <1>8, TakenGrows
<1>11. resources' = Taken(DoneBefore(Cursor(t)))
  BY <1>2, <1>3, <1>7, <1>9, <1>10
<1>12. PICK n \in Nat : n = Len(resources) /\ Len(resources') = n + 1
  <2>1. PICK r : r = Taken(S)
    OBVIOUS
  <2>2. r \in Seq(ResourcesOfPaths)
    BY <1>5, <1>8, <2>1, TakenIs
  <2>3. PICK x \in ResourcesOfPaths : x = ResourceAt(p)
    BY DEF ResourcesOfPaths
  <2>4. PICK w : w = Append(r, x)
    OBVIOUS
  <2>5. Len(w) = Len(r) + 1 /\ Len(r) \in Nat
    BY <2>2, <2>3, <2>4, AppendIs
  <2> QED
    BY <1>2, <1>3, <1>9, <2>1, <2>3, <2>4, <2>5
<1>13. capacity' \in Nat /\ Len(resources') <= capacity' /\ capacity' <= MaxResources
  <2>1. /\ capacity \in Nat /\ n <= capacity /\ capacity <= MaxResources /\ MaxResources \in Nat
        /\ n < MaxResources
    BY <1>1, <1>3, <1>12, WalkingFacts
  <2>2. FirstCapacity \in Nat /\ FirstCapacity # 0
    BY ResourceAssumption
  <2>3. PICK g : g = Grown
    OBVIOUS
  <2>4. n = capacity => g \in Nat /\ n + 1 <= g /\ g <= MaxResources
    BY <2>1, <2>2, <2>3 DEF Grown
  <2>5. capacity' = IF n = capacity THEN g ELSE capacity
    BY <1>3, <1>12, <2>3
  <2> QED
    BY <1>12, <2>1, <2>4, <2>5
<1> QED
  BY <1>1, <1>2, <1>3, <1>4, <1>7, <1>11, <1>13, WalkGoesOn

LEMMA LeaveDirectoryStep ==
  ASSUME CaseInv, ResourcesInv, CollectResources, LeaveDirectory
  PROVE  ResourcesInv'
<1>1. /\ pc = "walk" /\ UNCHANGED Rooted /\ available' = available /\ enriched' = enriched
      /\ resources' = resources /\ capacity' = capacity
  BY DEF LeaveDirectory, CollectResources, Rooted
<1>2. PICK s, S : /\ s = stack /\ StackOk(s) /\ S = DoneBefore(Cursor(s)) /\ resources = Taken(S)
  BY <1>1 DEF ResourcesInv, Walking
<1>3. PICK t : t = SubSeq(s, 1, Len(s) - 1)
  OBVIOUS
<1>4. NothingLeft(s) /\ stack' = t /\ pc' = IF t = <<>> THEN "overlay" ELSE "walk"
  BY <1>2, <1>3, WalkIs DEF LeaveDirectory
<1>5. HasResources(file) /\ capacity \in Nat /\ Len(resources) <= capacity /\ capacity <= MaxResources
  BY <1>1, WalkingFacts
<1>6. CASE Len(s) = 1
  <2>1. S = Paths
    BY <1>2, <1>4, <1>5, <1>6, DoneAtEnd
  <2>2. t = <<>>
    <3>1. s \in Seq(Frame)
      BY <1>2 DEF StackOk
    <3>2. t \in Seq(Frame) /\ Len(t) = 0
      BY <1>3, <1>6, <3>1
    <3> QED
      BY <3>2, EmptySeq
  <2>3. pc' = "overlay" /\ stack' = <<>>
    BY <1>4, <2>2
  <2>4. Closed(Paths)
    BY DEF Closed
  <2>5. Walked'
    <3>2. PICK P : P = Paths
      OBVIOUS
    <3>3. P = Paths' /\ Taken(P)' = Taken(P) /\ (Closed(P)' <=> Closed(P))
      BY <1>1, <3>2, PathsKept, WalkKept
    <3>4. resources' = Taken(P)'
      BY <1>1, <1>2, <2>1, <3>2, <3>3
    <3> QED
      BY <2>4, <3>2, <3>3, <3>4 DEF Walked
  <2>6. available /\ file.kind = "pe" /\ ~enriched /\ base \in Nat /\ end \in 0..file.size
    BY <1>1, WalkingFacts
  <2> QED
    BY <1>1, <1>5, <2>3, <2>5, <2>6 DEF ResourcesInv, PeSteps, Rooted
<1>7. CASE Len(s) # 1
  <2>1. StackOk(t) /\ t # <<>> /\ DoneBefore(Cursor(t)) = S
    BY <1>2, <1>3, <1>4, <1>5, <1>7, LeftIs
  <2>2. GoesOn
    BY <1>1, <1>4, <2>1 DEF GoesOn
  <2> QED
    BY <1>1, <1>2, <1>4, <1>5, <2>1, <2>2, WalkGoesOn
<1> QED
  BY <1>6, <1>7

LEMMA ResourcesOutOfMemoryStep ==
  ASSUME CaseInv, ResourcesInv, CollectResources, ResourcesOutOfMemory
  PROVE  ResourcesInv'
<1>1. /\ pc = "walk" /\ UNCHANGED Rooted /\ available' = available /\ enriched' = enriched
      /\ resources' = resources /\ capacity' = capacity /\ pc' = "reported" /\ stack' = <<>>
  BY DEF ResourcesOutOfMemory, CollectResources, Rooted
<1>2. PICK s, S : /\ s = stack /\ StackOk(s) /\ S = DoneBefore(Cursor(s)) /\ resources = Taken(S)
  BY <1>1 DEF ResourcesInv, Walking
<1>3. PICK c \in Seq(Nat) : c = Cursor(s)
  BY <1>2, CursorIs
<1>4. S \in SUBSET Paths /\ Closed(S)
  BY <1>2, <1>3, DoneIsClosed
<1>5. /\ capacity \in Nat /\ Len(resources) <= capacity /\ capacity <= MaxResources
      /\ available /\ file.kind = "pe" /\ ~enriched /\ base \in Nat /\ end \in 0..file.size
  BY <1>1, WalkingFacts
<1>6. Walked'
  <2>1. Paths' = Paths /\ Taken(S)' = Taken(S) /\ (Closed(S)' <=> Closed(S))
    BY <1>1, PathsKept, WalkKept
  <2>2. S \in SUBSET (Paths') /\ Closed(S)' /\ resources' = Taken(S)'
    BY <1>1, <1>2, <1>4, <2>1
  <2> QED
    BY <1>1, <1>5, <2>2 DEF Walked
<1> QED
  BY <1>1, <1>5, <1>6 DEF ResourcesInv, PeSteps, Rooted

\* The walk begins before all paths.
LEMMA WalkStarts ==
  /\ HasResources(file) /\ base \in Nat /\ resources = <<>>
  /\ stack = <<[at |-> base, next |-> 1, labels |-> <<>>]>>
  => Walking
<1> SUFFICES ASSUME HasResources(file), base \in Nat, resources = <<>>,
                    stack = <<[at |-> base, next |-> 1, labels |-> <<>>]>>
             PROVE  Walking
  OBVIOUS
<1>1. PICK f : f = [at |-> base, next |-> 1, labels |-> <<>>]
  OBVIOUS
<1>2. f \in Frame /\ f.at = base /\ f.next = 1 /\ f.labels = <<>>
  <2>1. <<>> \in Seq(Label) /\ 1 \in Nat \ {0}
    OBVIOUS
  <2> QED
    BY <1>1, <2>1 DEF Frame
<1>3. PICK s : s = <<f>>
  OBVIOUS
<1>4. s \in Seq(Frame) /\ Len(s) = 1 /\ s[1] = f
  BY <1>2, <1>3
<1>5. StackOk(s)
  <2>1. LabelsOk(s, 1)
    BY <1>2, <1>4 DEF LabelsOk
  <2>2. 1..(Len(s) - 1) = {} /\ Len(s) \in 1..6 /\ 1..Len(s) = {1}
    BY <1>4
  <2> QED
    BY <1>2, <1>4, <2>1, <2>2 DEF StackOk
<1>6. DoneBefore(Cursor(s)) = {}
  <2>1. PICK c \in Seq(Nat) : c = Cursor(s)
    BY <1>5, CursorIs
  <2>2. Len(c) = 1 /\ c[1] = 1
    BY <1>2, <1>4, <1>5, <2>1, CursorIs
  <2>3. DOMAIN c = {1}
    BY <2>2
  <2>4. ASSUME NEW p \in Paths, PassedBy(p, c) PROVE FALSE
    <3>1. 1 <= Len(p.steps) /\ p.steps[1] < 1
      BY <2>2, <2>3, <2>4 DEF PassedBy
    <3>2. Len(p.steps) \in Nat
      BY PathIs
    <3>3. 1 \in 1..Len(p.steps)
      BY <3>1, <3>2
    <3>4. p.steps[1] \in Nat /\ p.steps[1] >= 1
      BY <3>3, StepsArePositive
    <3> QED
      BY <3>1, <3>4
  <2> QED
    BY <2>1, <2>4 DEF DoneBefore
<1>7. Taken({}) = <<>>
  <2>1. IsFiniteSet(Paths) /\ {} \in SUBSET Paths
    BY PathsAre
  <2>2. Cardinality({}) = 0
    BY FS_EmptySet
  <2>3. MaxResources \in Nat /\ Lesser(0, MaxResources) = 0
    BY ResourceAssumption DEF Lesser
  <2>4. Taken({}) \in Seq(ResourcesOfPaths) /\ Len(Taken({})) = 0
    BY <2>1, <2>2, <2>3, TakenIs
  <2> QED
    BY <2>4, EmptySeq
<1> QED
  BY <1>1, <1>3, <1>5, <1>6, <1>7 DEF Walking

LEMMA FindResourcesStep ==
  ASSUME CaseInv, ResourcesInv, CollectResources, FindResources
  PROVE  ResourcesInv'
<1>1. /\ pc = "resources" /\ file' = file /\ resources' = resources /\ capacity' = capacity
      /\ enriched' = enriched
  BY DEF FindResources, CollectResources
<1>2. /\ file.kind = "pe" /\ ~available /\ resources = <<>> /\ stack = <<>> /\ ~enriched
      /\ available \in BOOLEAN /\ base \in Nat /\ end \in 0..file.size
      /\ capacity \in Nat /\ Len(resources) <= capacity /\ capacity <= MaxResources
  BY <1>1 DEF ResourcesInv, PeSteps
<1>3. HasAddresses(file) /\ HasResources(file)
  BY <1>2, CaseFacts
<1>4. CASE pc' = "overlay" /\ UNCHANGED <<available, base, end, stack>>
  BY <1>1, <1>2, <1>4 DEF ResourcesInv, PeSteps
<1>5. CASE /\ PeOffset(file, file.resources.rva) # None
           /\ PeSectionEnd(file, file.resources.rva) # None
           /\ available' = TRUE
           /\ base' = The(PeOffset(file, file.resources.rva))
           /\ end' = The(PeSectionEnd(file, file.resources.rva))
           /\ stack' = <<[at |-> base', next |-> 1, labels |-> <<>>]>>
           /\ pc' = "walk"
  <2>1. file.resources.rva \in Nat
    BY <1>3 DEF HasResources
  <2>2. base' \in Nat
    BY <1>3, <1>5, <2>1, PeOffsetIs, TheSome
  <2>3. end' \in 0..file.size
    BY <1>3, <1>5, <2>1, PeSectionEndIs, TheSome
  <2>4. (/\ HasResources(file) /\ base \in Nat /\ resources = <<>>
         /\ stack = <<[at |-> base, next |-> 1, labels |-> <<>>]>>
         => Walking)'
    BY WalkStarts, PTL
  <2>5. Walking'
    BY <1>1, <1>2, <1>3, <1>5, <2>2, <2>4
  <2> QED
    BY <1>1, <1>2, <1>5, <2>2, <2>3, <2>5 DEF ResourcesInv, PeSteps
<1> QED
  BY <1>4, <1>5 DEF FindResources

\* The steps of the other collectors leave the tree alone.
OtherStep ==
  \/ pc' = pc /\ enriched' = enriched
  \/ /\ pc \in BeforeWalk /\ enriched' = enriched
     /\ pc' \in BeforeWalk \cup {"overlay", "reported", "failed", "died"}
     /\ pc' \in PeSteps => pc \in PeSteps \/ file.kind = "pe"
  \/ pc \in {"overlay", "signatures"} /\ pc' \in {"signatures", "hints"} /\ enriched' = enriched
  \/ pc = "hints" /\ pc' = "reported" /\ enriched' = TRUE

LEMMA RuleScanned ==
  ASSUME ScanRule
  PROVE  /\ UNCHANGED <<file, resourceVars>> /\ enriched' = enriched /\ pc = "signatures"
         /\ pc' = pc \/ pc' = "hints"
<1> DEFINE all == InOrder(Occurrences(rule), <)
           m == IF Len(all) < Room THEN Len(all) ELSE Room
           some == SubSeq(all, 1, m)
<1>1. PICK n \in 0..Len(some) :
        /\ hits' = hits \o [i \in 1..n |-> [rule |-> rule, at |-> some[i]]]
        /\ \/ n = Len(some) /\ rule' = rule + 1 /\ pc' = pc
           \/ pc' = "hints" /\ rule' = rule
  BY DEF ScanRule
<1>2. file' = file /\ enriched' = enriched /\ pc = "signatures" /\ collected' = collected
  BY DEF ScanRule
<1> HIDE DEF all, m, some
<1>3. pc' = pc \/ pc' = "hints"
  BY <1>1
<1>4. resourceVars' = resourceVars
  BY <1>2 DEF collected
<1> HIDE DEF ScanRule
<1> QED
  BY <1>2, <1>3, <1>4

LEMMA OtherSteps ==
  ASSUME [Next]_vars
  PROVE  CollectResources \/ (OtherStep /\ UNCHANGED <<file, resourceVars>>)
<1>1. CASE CollectStrings
  <2>1. UNCHANGED <<resourceVars, enriched>>
    BY <1>1 DEF CollectStrings
  <2>2. file' = file /\ pc \in {"strings"} /\ pc' \in {"strings", "read", "failed"}
    BY <1>1 DEF CollectStrings, StringsNext, LeaveOut, ReadContents, ScanText,
       StringsOutOfMemory, NextPass, EndStrings, Extracting
  <2> QED
    BY <2>1, <2>2 DEF OtherStep, BeforeWalk, PeSteps
<1>2. CASE CollectNeeded
  <2>1. UNCHANGED <<resourceVars, enriched>>
    BY <1>2 DEF CollectNeeded
  <2>2. /\ file' = file /\ pc \in {"dynamic", "needed"}
        /\ pc' \in {"dynamic", "needed", "overlay", "reported", "died"}
    BY <1>2 DEF CollectNeeded, NeededNext, ReadDynamic, DynamicOutOfMemory, ResolveStrings,
       AddNeeded, NeededOutOfMemory, SetTexts, DieBehindFile
  <2> QED
    BY <2>1, <2>2 DEF OtherStep, BeforeWalk, PeSteps
<1>3. CASE CollectImports
  <2>1. UNCHANGED <<resourceVars, enriched>>
    BY <1>3 DEF CollectImports
  <2>2. file' = file /\ pc \in PeSteps /\ pc' \in PeSteps \cup {"reported"}
    BY <1>3 DEF CollectImports, ImportsNext, EndImports, ReadDescriptor, SkipDescriptor,
       TakeLibrary, LibraryOutOfMemory, TakeThunk, ThunkOutOfMemory, EndThunks, CountExports,
       Directories, PeSteps
  <2> QED
    BY <2>1, <2>2 DEF OtherStep, BeforeWalk, PeSteps
<1>4. CASE Allocate \/ ReportSection \/ CountTrailingBytes \/ ReadFile
  BY <1>4 DEF Allocate, ReportSection, CountTrailingBytes, ReadFile, OtherStep, BeforeWalk,
     PeSteps, collected
<1>5. CASE StartOverlay \/ EndSignatures \/ Finish
  BY <1>5 DEF StartOverlay, EndSignatures, Finish, OtherStep, collected
<1>6. CASE ScanRule
  BY <1>6, RuleScanned DEF OtherStep
<1>7. CASE UNCHANGED vars
  BY <1>7 DEF vars, OtherStep, collected
<1> QED
  BY <1>1, <1>2, <1>3, <1>4, <1>5, <1>6, <1>7 DEF Next

LEMMA OtherStepKeeps ==
  ASSUME CaseInv, ResourcesInv, OtherStep, UNCHANGED <<file, resourceVars>>
  PROVE  ResourcesInv'
<1>1. /\ UNCHANGED Rooted /\ file' = file /\ base' = base /\ end' = end /\ available' = available
      /\ stack' = stack /\ resources' = resources /\ capacity' = capacity
  BY DEF resourceVars, Rooted
<1>2. /\ available' \in BOOLEAN /\ base' \in Nat /\ end' \in 0..file.size'
      /\ capacity' \in Nat /\ Len(resources') <= capacity' /\ capacity' <= MaxResources
  BY <1>1 DEF ResourcesInv
<1>3. pc' \in PeSteps => file.kind' = "pe"
  BY <1>1 DEF ResourcesInv, OtherStep, PeSteps
<1>4. /\ ~available' => resources' = <<>> /\ pc' # "walk"
      /\ available' => file.kind' = "pe" /\ pc' \in {"walk", "overlay", "signatures", "hints", "reported"}
  BY <1>1 DEF ResourcesInv, OtherStep, BeforeWalk
<1>5. pc' = "walk" => pc = "walk"
  BY DEF OtherStep, BeforeWalk
<1>6. pc' = "walk" => Walking'
  <2> SUFFICES ASSUME pc' = "walk" PROVE Walking'
    OBVIOUS
  <2>1. PICK s, S : /\ s = stack /\ StackOk(s) /\ S = DoneBefore(Cursor(s)) /\ resources = Taken(S)
    BY <1>5 DEF ResourcesInv, Walking
  <2>2. PICK c : c = Cursor(s)
    OBVIOUS
  <2>3. StackOk(s)' /\ Taken(S)' = Taken(S) /\ DoneBefore(c)' = DoneBefore(c)
    BY <1>1, <2>1, WalkKept
  <2>4. DoneBefore(Cursor(s))' = S
    BY <2>1, <2>2, <2>3 DEF Cursor
  <2>5. s = stack' /\ resources' = Taken(S)'
    BY <1>1, <2>1, <2>3
  <2> QED
    BY <2>3, <2>4, <2>5 DEF Walking
<1>7. pc' # "walk" => stack' = <<>>
  <2>1. pc' # "walk" => pc # "walk"
    BY DEF OtherStep, BeforeWalk
  <2> QED
    BY <1>1, <2>1 DEF ResourcesInv
<1>8. available' /\ pc' # "walk" => Walked'
  <2> SUFFICES ASSUME available', pc' # "walk" PROVE Walked'
    OBVIOUS
  <2>1. available /\ pc # "walk" /\ pc \notin BeforeWalk
    BY <1>1 DEF OtherStep, BeforeWalk, ResourcesInv
  <2>2. PICK S : /\ S \in SUBSET Paths /\ Closed(S) /\ resources = Taken(S)
                 /\ (pc # "reported" \/ enriched) => S = Paths
    BY <2>1 DEF ResourcesInv, Walked
  <2>3. Paths' = Paths /\ Taken(S)' = Taken(S) /\ (Closed(S)' <=> Closed(S))
    BY <1>1, PathsKept, WalkKept
  <2>4. (pc' # "reported" \/ enriched') => (pc # "reported" \/ enriched)
    BY <2>1 DEF OtherStep
  <2> QED
    BY <1>1, <2>2, <2>3, <2>4 DEF Walked
<1>9. enriched' => pc' = "reported"
  BY DEF ResourcesInv, OtherStep, BeforeWalk
<1> QED
  BY <1>2, <1>3, <1>4, <1>6, <1>7, <1>8, <1>9 DEF ResourcesInv

LEMMA ResourcesInvNext == CaseInv /\ ResourcesInv /\ [Next]_vars => ResourcesInv'
<1> SUFFICES ASSUME CaseInv, ResourcesInv, [Next]_vars PROVE ResourcesInv'
  OBVIOUS
<1>1. CASE CollectResources
  <2>1. CollectResources => ResourcesNext
    BY DEF CollectResources
  <2> QED
    BY <1>1, <2>1, FindResourcesStep, LeaveDirectoryStep, EnterDirectoryStep, SkipEntryStep,
       RecordResourceStep, ResourcesOutOfMemoryStep DEF ResourcesNext
<1>2. CASE OtherStep /\ UNCHANGED <<file, resourceVars>>
  BY <1>2, OtherStepKeeps
<1> QED
  BY <1>1, <1>2, OtherSteps

\* However the directories refer to each other, the resources listed are the
\* first the tree reaches, in its order and with their labels, and all of them
\* up to the limit unless memory ran out.
THEOREM ResourcesAreTheWholeTree == Spec => []ResourcesAreTheTree
<1>1. CaseInv /\ Init => ResourcesInv
  BY ResourcesInvInit
<1>2. CaseInv /\ ResourcesInv => ResourcesAreTheTree
  BY ResourcesInvImplies
<1> QED
  BY <1>1, <1>2, CaseInvInit, CaseInvNext, ResourcesInvNext, PTL DEF Spec

-----------------------------------------------------------------------------
\* What the collectors of dependencies find in a file.

FileText == STRING \cup {Empty}

Ordinals == {Ordinal(n) : n \in Nat}

AnyText == FileText \cup Ordinals

Library == [name : AnyText, symbols : Seq(AnyText)]

Target == [name : Nat, thunk : Nat]

Thunk == [ordinal : BOOLEAN, value : Nat]

LEMMA BoundedStringIs ==
  ASSUME NEW f, \A o \in DOMAIN f.strings : f.strings[o] \in FileString, NEW o, NEW m
  PROVE  BoundedString(f, o, m) = None \/ \E x \in AnyText : BoundedString(f, o, m) = Some(x)
<1>1. StringAt(f, o).text \in FileText
  <2>1. CASE o \in DOMAIN f.strings
    <3>1. f.strings[o] \in FileString
      BY <2>1
    <3> QED
      BY <2>1, <3>1 DEF StringAt, FileString, FileText
  <2>2. CASE o \notin DOMAIN f.strings
    BY <2>2 DEF StringAt, FileText
  <2> QED
    BY <2>1, <2>2
<1> QED
  BY <1>1 DEF BoundedString, AnyText

LEMMA TextAtIs ==
  ASSUME NEW f, HasAddresses(f), NEW rva, NEW hint
  PROVE  TextAt(f, rva, hint) = None \/ \E x \in AnyText : TextAt(f, rva, hint) = Some(x)
<1>1. \A o \in DOMAIN f.strings : f.strings[o] \in FileString
  BY DEF HasAddresses
<1>2. PICK o, m : TextAt(f, rva, hint) = None \/ TextAt(f, rva, hint) = BoundedString(f, o, m)
  BY DEF TextAt
<1> QED
  BY <1>1, <1>2, BoundedStringIs

LEMMA SymbolIs ==
  ASSUME NEW f, HasAddresses(f), NEW t \in Thunk
  PROVE  SymbolOf(f, t) \in AnyText
<1>1. CASE t.ordinal
  <2>1. Ordinal(t.value) \in Ordinals
    BY DEF Ordinals, Thunk
  <2> QED
    BY <1>1, <2>1 DEF SymbolOf, AnyText
<1>2. CASE ~t.ordinal /\ TextAt(f, t.value, 2) = None
  BY <1>2 DEF SymbolOf, AnyText, FileText
<1>3. CASE ~t.ordinal /\ TextAt(f, t.value, 2) # None
  <2>1. PICK x \in AnyText : TextAt(f, t.value, 2) = Some(x)
    BY <1>3, TextAtIs
  <2>2. SymbolOf(f, t) = The(TextAt(f, t.value, 2))
    BY <1>3 DEF SymbolOf
  <2> QED
    BY <2>1, <2>2, TheSome
<1> QED
  BY <1>1, <1>2, <1>3

LEMMA PointersAre ==
  ASSUME NEW f, HasImports(f), NEW d \in Directories, NEW i \in Nat
  PROVE  Pointers(f, d, i) \in Target
<1>1. PICK raw : raw = Fields(f, d, i)
  OBVIOUS
<1>2. raw \in Descriptor
  <2>1. CASE OffsetOf(f, d, i) \in DOMAIN f.descriptors
    BY <1>1, <2>1 DEF HasImports, Fields
  <2>2. CASE OffsetOf(f, d, i) \notin DOMAIN f.descriptors
    BY <1>1, <2>2 DEF Fields, Descriptor
  <2> QED
    BY <2>1, <2>2
<1>3. raw.attributes \in Nat /\ raw.name \in Nat /\ raw.table \in Nat /\ raw.addresses \in Nat
  BY <1>2 DEF Descriptor
<1>4. ASSUME NEW x \in Nat PROVE Normalized(f, x, raw.attributes) \in Nat
  BY DEF Normalized, HasImports
<1>5. \A x, y \in Nat : FirstNonzero(x, y) \in Nat
  BY DEF FirstNonzero
<1>6. PICK a, b, c \in Nat :
        /\ a = Normalized(f, raw.name, raw.attributes)
        /\ b = FirstNonzero(Normalized(f, raw.table, raw.attributes),
                            Normalized(f, raw.addresses, raw.attributes))
        /\ c = FirstNonzero(raw.table, raw.addresses)
  BY <1>3, <1>4, <1>5
<1>7. \/ Pointers(f, d, i) = [name |-> raw.name, thunk |-> c]
      \/ Pointers(f, d, i) = [name |-> raw.name, thunk |-> raw.table]
      \/ Pointers(f, d, i) = [name |-> a, thunk |-> b]
  BY <1>1, <1>6 DEF Pointers
<1> QED
  BY <1>3, <1>6, <1>7 DEF Target

LEMMA ThunksAtIs ==
  ASSUME NEW f, HasAddresses(f), NEW rva \in Nat
  PROVE  ThunksAt(f, rva) = None \/ \E o \in Nat : ThunksAt(f, rva) = Some(o)
BY PeOffsetIs DEF ThunksAt

LEMMA ThunkAtIs ==
  ASSUME NEW f, HasImports(f), NEW o
  PROVE  ThunkAt(f, o) = None \/ \E t \in Thunk : ThunkAt(f, o) = Some(t)
BY DEF ThunkAt, HasImports, Thunk

LEMMA AppendUniqueIs ==
  ASSUME NEW S, NEW list \in Seq(S), NEW x \in S
  PROVE  AppendUnique(list, x) \in Seq(S)
BY AppendIs DEF AppendUnique

LEMMA FoundOrAddedIs ==
  ASSUME NEW list \in Seq(Library), NEW name \in AnyText, NEW r, r = FoundOrAdded(list, name)
  PROVE  /\ r \in Seq(Library) /\ Named(r, name) \in SUBSET (1..Len(r)) /\ Named(r, name) # {}
         /\ Lowest(Named(r, name)) \in 1..Len(r)
<1>1. r \in Seq(Library) /\ Named(r, name) # {}
  <2>1. CASE Named(list, name) = {}
    <3>1. PICK x : x = [name |-> name, symbols |-> <<>>]
      OBVIOUS
    <3>2. x \in Library
      <4>1. <<>> \in Seq(AnyText)
        OBVIOUS
      <4> QED
        BY <3>1, <4>1 DEF Library
    <3>3. r = Append(list, x)
      BY <2>1, <3>1 DEF FoundOrAdded
    <3>4. r \in Seq(Library) /\ Len(r) = Len(list) + 1 /\ r[Len(list) + 1] = x
      BY <3>2, <3>3, AppendIs
    <3>5. Len(list) + 1 \in DOMAIN r /\ x.name = name
      BY <3>1, <3>4
    <3> QED
      BY <3>4, <3>5 DEF Named
  <2>2. CASE Named(list, name) # {}
    BY <2>2 DEF FoundOrAdded
  <2> QED
    BY <2>1, <2>2
<1>2. DOMAIN r = 1..Len(r) /\ Len(r) \in Nat
  BY <1>1
<1>3. Named(r, name) \in SUBSET (1..Len(r)) /\ Named(r, name) \in SUBSET Nat
  BY <1>2 DEF Named
<1>4. Lowest(Named(r, name)) \in Named(r, name)
  BY <1>1, <1>3, LowestIs
<1> QED
  BY <1>1, <1>3, <1>4

-----------------------------------------------------------------------------
\* Which part of the report changes which variables.

LEMMA WhoChanges ==
  ASSUME [Next]_vars
  PROVE  /\ CollectImports \/ UNCHANGED importVars
         /\ CollectNeeded \/ UNCHANGED neededVars
         /\ ReportSection \/ UNCHANGED <<section, loaded, densest, suspicious>>
<1>1. CASE CollectStrings \/ CollectResources
  BY <1>1 DEF CollectStrings, CollectResources, sectionVars
<1>2. CASE CollectNeeded
  BY <1>2 DEF CollectNeeded, sectionVars
<1>3. CASE CollectImports
  BY <1>3 DEF CollectImports, sectionVars
<1>4. CASE Allocate \/ ReadFile \/ CountTrailingBytes
  BY <1>4 DEF Allocate, ReadFile, CountTrailingBytes, collected, sectionVars
<1>5. CASE ReportSection
  BY <1>5 DEF ReportSection, collected
<1>6. CASE StartOverlay \/ EndSignatures \/ Finish
  BY <1>6 DEF StartOverlay, EndSignatures, Finish, collected, sectionVars
<1>7. CASE ScanRule
  <2>1. collected' = collected /\ sectionVars' = sectionVars
    BY <1>7 DEF ScanRule
  <2> QED
    BY <2>1 DEF collected, sectionVars
<1>8. CASE UNCHANGED vars
  BY <1>8 DEF vars, collected, sectionVars
<1> QED
  BY <1>1, <1>2, <1>3, <1>4, <1>5, <1>6, <1>7, <1>8 DEF Next

\* What has been counted in the loop over the sections.
CountersInv ==
  /\ section \in Nat /\ loaded \subseteq 1..section
  /\ densest \in {0} \cup loaded /\ suspicious \in 0..section

LEMMA CountersInvNext == CountersInv /\ [Next]_vars => CountersInv'
<1> SUFFICES ASSUME CountersInv, [Next]_vars PROVE CountersInv'
  OBVIOUS
<1>1. CASE UNCHANGED <<section, loaded, densest, suspicious>>
  BY <1>1 DEF CountersInv
<1>2. CASE ReportSection
  <2>1. PICK n : n = section + 1
    OBVIOUS
  <2>2. /\ section' = n /\ loaded' \in {loaded, loaded \cup {n}}
        /\ \/ densest' = densest
           \/ densest' = n /\ loaded' = loaded \cup {n}
        /\ suspicious' = suspicious + 1 \/ suspicious' = suspicious
    BY <1>2, <2>1 DEF ReportSection
  <2>3. n \in Nat /\ section \in Nat /\ suspicious \in 0..section
    BY <2>1 DEF CountersInv
  <2>4. loaded \subseteq 1..n /\ n \in 1..n
    BY <2>1, <2>3 DEF CountersInv
  <2>5. loaded' \subseteq 1..section'
    BY <2>2, <2>4
  <2>6. densest' \in {0} \cup loaded'
    BY <2>2 DEF CountersInv
  <2>7. suspicious' \in 0..section'
    BY <2>1, <2>2, <2>3
  <2> QED
    BY <2>2, <2>3, <2>5, <2>6, <2>7 DEF CountersInv
<1> QED
  BY <1>1, <1>2, WhoChanges

\* ELF collectors only run for ELF files.
PlaceInv ==
  /\ pc \in PC /\ (pc \in {"dynamic", "needed"} => file.kind = "elf")
  /\ enriched \in BOOLEAN

LEMMA PlaceInvNext == CaseInv /\ PlaceInv /\ [Next]_vars => PlaceInv'
<1> SUFFICES ASSUME CaseInv, PlaceInv, [Next]_vars PROVE PlaceInv'
  OBVIOUS
<1>0. enriched' \in BOOLEAN
  <2>1. CASE CollectResources
    BY <2>1 DEF CollectResources, PlaceInv
  <2>2. CASE OtherStep
    BY <2>2 DEF OtherStep, PlaceInv
  <2> QED
    BY <2>1, <2>2, OtherSteps
<1>1. CASE CollectResources
  <2>1. file' = file /\ pc' \in {"walk", "overlay", "reported"}
    BY <1>1 DEF CollectResources, ResourcesNext, FindResources, LeaveDirectory, EnterDirectory,
       SkipEntry, RecordResource, ResourcesOutOfMemory
  <2> QED
    BY <1>0, <2>1 DEF PlaceInv, PC
<1>2. CASE CollectNeeded
  <2>1. /\ file' = file /\ pc \in {"dynamic", "needed"}
        /\ pc' \in {"dynamic", "needed", "overlay", "reported", "died"}
    BY <1>2 DEF CollectNeeded, NeededNext, ReadDynamic, DynamicOutOfMemory, ResolveStrings,
       AddNeeded, NeededOutOfMemory, SetTexts, DieBehindFile
  <2> QED
    BY <1>0, <2>1 DEF PlaceInv, PC
<1>3. CASE CollectImports
  <2>1. file' = file /\ pc' \in PeSteps \cup {"reported"}
    BY <1>3 DEF CollectImports, ImportsNext, EndImports, ReadDescriptor, SkipDescriptor,
       TakeLibrary, LibraryOutOfMemory, TakeThunk, ThunkOutOfMemory, EndThunks, CountExports,
       Directories, PeSteps
  <2> QED
    BY <1>0, <2>1 DEF PlaceInv, PC, PeSteps
<1>4. CASE CollectStrings
  <2>1. file' = file /\ pc' \in {"strings", "read", "failed"}
    BY <1>4 DEF CollectStrings, StringsNext, LeaveOut, ReadContents, ScanText,
       StringsOutOfMemory, NextPass, EndStrings, Extracting
  <2> QED
    BY <1>0, <2>1 DEF PlaceInv, PC
<1>5. CASE ReadFile
  BY <1>0, <1>5 DEF ReadFile, PlaceInv, PC
<1>6. CASE Allocate \/ ReportSection \/ CountTrailingBytes
  BY <1>0, <1>6 DEF Allocate, ReportSection, CountTrailingBytes, PlaceInv, PC
<1>7. CASE StartOverlay \/ EndSignatures \/ Finish
  BY <1>0, <1>7 DEF StartOverlay, EndSignatures, Finish, PlaceInv, PC
<1>8. CASE ScanRule
  BY <1>0, <1>8, RuleScanned DEF PlaceInv, PC
<1>9. CASE UNCHANGED vars
  BY <1>0, <1>9 DEF vars, PlaceInv
<1> QED
  BY <1>1, <1>2, <1>3, <1>4, <1>5, <1>6, <1>7, <1>8, <1>9 DEF Next

-----------------------------------------------------------------------------
\* The lists of imports and where their collector stands.

ImportsTyped ==
  /\ lists \in [Directories -> Seq(Library)]
  /\ descriptor \in Nat /\ thunk \in Nat /\ exports \in Nat /\ library \in Nat
  /\ isPe \in BOOLEAN
  /\ pointers = None \/ (library = 0 /\ \E p \in Target : pointers = Some(p))
  /\ pc \in Directories => library <= Len(lists[pc])
  /\ pc \notin Directories \cup {"reported"} => library = 0 /\ pointers = None /\ descriptor = 0

LEMMA ImportsTypedImplies == ImportsTyped => ImportsTypeOK
<1> SUFFICES ASSUME ImportsTyped PROVE ImportsTypeOK
  OBVIOUS
<1>1. DOMAIN lists = Directories
  BY DEF ImportsTyped
<1>2. pointers # None => library = 0
  BY DEF ImportsTyped
<1> QED
  BY <1>1, <1>2 DEF ImportsTyped, ImportsTypeOK

LEMMA ImportsTypedInit == Init => ImportsTyped
<1> SUFFICES ASSUME Init PROVE ImportsTyped
  OBVIOUS
<1>1. <<>> \in Seq(Library)
  OBVIOUS
<1>2. lists = [d \in Directories |-> <<>>]
  BY DEF Init, ImportsInit
<1>3. lists \in [Directories -> Seq(Library)]
  BY <1>1, <1>2
<1>4. pc = "allocate" /\ "allocate" \notin Directories
  BY DEF Init, Directories
<1> QED
  BY <1>3, <1>4 DEF Init, ImportsInit, ImportsTyped

\* While imports are collected the file is known to be a PE file.
LEMMA ImportsFacts ==
  ASSUME CaseInv, ResourcesInv, pc \in Directories \cup {"exports"}
  PROVE  file.kind = "pe" /\ HasAddresses(file) /\ HasImports(file)
<1>1. file.kind = "pe"
  BY DEF ResourcesInv, PeSteps, Directories
<1> QED
  BY <1>1, CaseFacts

LEMMA TakeLibraryTyped ==
  ASSUME CaseInv, ResourcesInv, ImportsTyped, NEW d \in Directories, TakeLibrary(d)
  PROVE  ImportsTyped'
<1>1. pc = d /\ pc' = pc /\ library = 0 /\ pointers' = None /\ exports' = exports /\ isPe' = isPe
  BY DEF TakeLibrary
<1>2. HasAddresses(file) /\ HasImports(file)
  BY <1>1, ImportsFacts
<1>3. PICK p \in pointers, name \in AnyText :
        LET list  == FoundOrAdded(lists[d], name)
            begin == ThunksAt(file, p.thunk)
        IN  /\ lists' = [lists EXCEPT ![d] = list]
            /\ IF begin = None
               THEN descriptor' = descriptor + 1 /\ UNCHANGED <<library, thunk>>
               ELSE /\ library' = Lowest(Named(list, name))
                    /\ thunk' = The(begin)
                    /\ descriptor' = descriptor
  <2>1. PICK p \in pointers : \E name \in TextAt(file, p.name, 0) :
          LET list  == FoundOrAdded(lists[d], name)
              begin == ThunksAt(file, p.thunk)
          IN  /\ lists' = [lists EXCEPT ![d] = list]
              /\ IF begin = None
                 THEN descriptor' = descriptor + 1 /\ UNCHANGED <<library, thunk>>
                 ELSE /\ library' = Lowest(Named(list, name))
                      /\ thunk' = The(begin)
                      /\ UNCHANGED descriptor
    BY DEF TakeLibrary
  <2>2. \A name \in TextAt(file, p.name, 0) : name \in AnyText
    BY <1>2, TextAtIs DEF Some, None
  <2> QED
    BY <2>1, <2>2
<1>4. p \in Target
  BY DEF ImportsTyped, Some, None
<1>5. PICK list : list = FoundOrAdded(lists[d], name)
  OBVIOUS
<1>6. lists[d] \in Seq(Library) /\ lists \in [Directories -> Seq(Library)]
  BY DEF ImportsTyped
<1>7. list \in Seq(Library) /\ Lowest(Named(list, name)) \in 1..Len(list)
  BY <1>5, <1>6, FoundOrAddedIs
<1>8. lists' = [lists EXCEPT ![d] = list]
  BY <1>3, <1>5
<1>9. lists' \in [Directories -> Seq(Library)] /\ lists'[d] = list
  BY <1>6, <1>7, <1>8
<1>10. CASE ThunksAt(file, p.thunk) = None
  <2>1. descriptor' = descriptor + 1 /\ library' = library /\ thunk' = thunk
    BY <1>3, <1>10
  <2>2. Len(list) \in Nat
    BY <1>7
  <2> QED
    BY <1>1, <1>9, <2>1, <2>2 DEF ImportsTyped
<1>11. CASE ThunksAt(file, p.thunk) # None
  <2>1. /\ library' = Lowest(Named(list, name)) /\ thunk' = The(ThunksAt(file, p.thunk))
        /\ descriptor' = descriptor
    BY <1>3, <1>5, <1>11
  <2>2. PICK o \in Nat : ThunksAt(file, p.thunk) = Some(o)
    BY <1>2, <1>4, <1>11, ThunksAtIs DEF Target
  <2>3. thunk' \in Nat
    BY <2>1, <2>2, TheSome
  <2>4. library' \in Nat /\ library' <= Len(list)
    BY <1>7, <2>1
  <2> QED
    BY <1>1, <1>9, <2>1, <2>3, <2>4 DEF ImportsTyped
<1> QED
  BY <1>10, <1>11

LEMMA TakeThunkTyped ==
  ASSUME CaseInv, ResourcesInv, ImportsTyped, NEW d \in Directories, TakeThunk(d)
  PROVE  ImportsTyped'
<1>1. /\ pc = d /\ pc' = pc /\ library # 0 /\ library' = library /\ pointers' = pointers
      /\ exports' = exports /\ isPe' = isPe /\ descriptor' = descriptor
      /\ thunk' = thunk + file.thunkSize
  BY DEF TakeThunk
<1>2. HasAddresses(file) /\ HasImports(file)
  BY <1>1, ImportsFacts
<1>3. thunk' \in Nat
  BY <1>1, <1>2 DEF ImportsTyped, HasImports
<1>4. PICK t \in Thunk :
        lists' = [lists EXCEPT ![d][library].symbols = AppendUnique(@, SymbolOf(file, t))]
  <2>1. PICK t \in ThunkAt(file, thunk) :
          lists' = [lists EXCEPT ![d][library].symbols = AppendUnique(@, SymbolOf(file, t))]
    BY DEF TakeThunk
  <2>2. t \in Thunk
    BY <1>2, ThunkAtIs DEF Some, None
  <2> QED
    BY <2>1, <2>2
<1>5. PICK list \in Seq(Library) : list = lists[d] /\ library \in 1..Len(list)
  BY <1>1 DEF ImportsTyped
<1>6. list[library] \in Library
  BY <1>5
<1>7. PICK symbols \in Seq(AnyText) : symbols = list[library].symbols
  BY <1>6 DEF Library
<1>8. PICK more \in Seq(AnyText) : more = AppendUnique(symbols, SymbolOf(file, t))
  BY <1>2, <1>7, SymbolIs, AppendUniqueIs
<1>9. PICK l : l = [list EXCEPT ![library].symbols = more]
  OBVIOUS
<1>10. lists' = [lists EXCEPT ![d] = l]
  BY <1>4, <1>5, <1>7, <1>8, <1>9 DEF ImportsTyped
<1>11. [list[library] EXCEPT !.symbols = more] \in Library
  BY <1>6, <1>8 DEF Library
<1>12. l \in Seq(Library) /\ Len(l) = Len(list)
  BY <1>5, <1>9, <1>11
<1>13. lists' \in [Directories -> Seq(Library)] /\ lists'[d] = l
  BY <1>10, <1>12 DEF ImportsTyped
<1> QED
  BY <1>1, <1>3, <1>5, <1>12, <1>13 DEF ImportsTyped

LEMMA ReadDescriptorTyped ==
  ASSUME CaseInv, ResourcesInv, ImportsTyped, NEW d \in Directories, ReadDescriptor(d)
  PROVE  ImportsTyped'
<1>1. /\ pc = d /\ pc' = pc /\ library = 0 /\ library' = library
      /\ pointers' = Some(Pointers(file, d, descriptor))
      /\ UNCHANGED <<lists, descriptor, thunk, exports, isPe>>
  BY DEF ReadDescriptor
<1>2. HasImports(file)
  BY <1>1, ImportsFacts
<1>3. Pointers(file, d, descriptor) \in Target
  BY <1>2, PointersAre DEF ImportsTyped
<1> QED
  BY <1>1, <1>3 DEF ImportsTyped

LEMMA CountExportsTyped ==
  ASSUME CaseInv, ResourcesInv, ImportsTyped, CountExports
  PROVE  ImportsTyped'
<1>1. /\ pc = "exports" /\ pc' = "resources"
      /\ exports' = file.exports.count \/ exports' = 0
      /\ isPe' = (exports' # 0 \/ \E d \in Directories : lists[d] # <<>>)
      /\ UNCHANGED <<lists, descriptor, pointers, library, thunk>>
  BY DEF CountExports
<1>2. file.exports.count \in Nat
  BY <1>1, ImportsFacts DEF HasImports
<1>3. isPe' \in BOOLEAN
  BY <1>1
<1>4. pc \notin Directories \cup {"reported"} /\ pc' \notin Directories \cup {"reported"}
  BY <1>1 DEF Directories
<1> QED
  BY <1>1, <1>2, <1>3, <1>4 DEF ImportsTyped

LEMMA ImportsStay ==
  ASSUME [Next]_vars
  PROVE  \/ CollectImports
         \/ UNCHANGED importVars /\ (pc' = pc \/ pc \notin Directories \cup {"reported"})
<1>1. CASE CollectResources
  BY <1>1, WhoChanges DEF CollectResources, ResourcesNext, FindResources, LeaveDirectory,
     EnterDirectory, SkipEntry, RecordResource, ResourcesOutOfMemory, Directories
<1>2. CASE CollectNeeded
  BY <1>2 DEF CollectNeeded, NeededNext, ReadDynamic, DynamicOutOfMemory, ResolveStrings,
     AddNeeded, NeededOutOfMemory, SetTexts, DieBehindFile, Directories
<1>3. CASE CollectStrings
  BY <1>3 DEF CollectStrings, StringsNext, LeaveOut, ReadContents, ScanText,
     StringsOutOfMemory, NextPass, EndStrings, Extracting, Directories
<1>4. CASE Allocate \/ ReportSection \/ CountTrailingBytes \/ ReadFile
  BY <1>4 DEF Allocate, ReportSection, CountTrailingBytes, ReadFile, Directories, collected
<1>5. CASE StartOverlay \/ EndSignatures \/ Finish
  BY <1>5 DEF StartOverlay, EndSignatures, Finish, Directories, collected
<1>6. CASE ScanRule
  <2>1. CollectImports \/ UNCHANGED importVars
    BY WhoChanges
  <2> QED
    BY <1>6, <2>1, RuleScanned DEF Directories
<1>7. CASE UNCHANGED vars
  BY <1>7 DEF vars, collected
<1> QED
  BY <1>1, <1>2, <1>3, <1>4, <1>5, <1>6, <1>7 DEF Next

LEMMA ImportsTypedNext ==
  CaseInv /\ ResourcesInv /\ ImportsTyped /\ [Next]_vars => ImportsTyped'
<1> SUFFICES ASSUME CaseInv, ResourcesInv, ImportsTyped, [Next]_vars PROVE ImportsTyped'
  OBVIOUS
<1>1. CASE CollectImports
  <2>1. ASSUME NEW d \in Directories, EndImports(d) PROVE ImportsTyped'
    <3>1. /\ pc = d /\ pc' = (IF d = "imports" THEN "delayed" ELSE "exports") /\ library = 0
          /\ library' = 0 /\ pointers' = None /\ descriptor' = 0
          /\ UNCHANGED <<lists, thunk, exports, isPe>>
      BY <2>1 DEF EndImports
    <3>2. pc' \in Directories => Len(lists'[pc']) \in Nat
      BY <3>1 DEF ImportsTyped
    <3> QED
      BY <3>1, <3>2 DEF ImportsTyped
  <2>2. ASSUME NEW d \in Directories, SkipDescriptor(d) PROVE ImportsTyped'
    BY <2>2 DEF SkipDescriptor, ImportsTyped
  <2>3. ASSUME NEW d \in Directories, LibraryOutOfMemory(d) \/ ThunkOutOfMemory(d) PROVE ImportsTyped'
    BY <2>3 DEF LibraryOutOfMemory, ThunkOutOfMemory, ImportsTyped, importVars, Directories
  <2>4. ASSUME NEW d \in Directories, EndThunks(d) PROVE ImportsTyped'
    <3>1. /\ pc = d /\ pc' = d /\ library' = 0 /\ descriptor' = descriptor + 1 /\ library # 0
          /\ UNCHANGED <<lists, pointers, thunk, exports, isPe>>
      BY <2>4 DEF EndThunks
    <3>2. Len(lists[d]) \in Nat
      BY DEF ImportsTyped
    <3> QED
      BY <3>1, <3>2 DEF ImportsTyped
  <2>5. CollectImports => ImportsNext
    BY DEF CollectImports
  <2> QED
    BY <1>1, <2>1, <2>2, <2>3, <2>4, <2>5, TakeLibraryTyped, TakeThunkTyped, ReadDescriptorTyped,
       CountExportsTyped DEF ImportsNext
<1>2. CASE UNCHANGED importVars /\ (pc' = pc \/ pc \notin Directories \cup {"reported"})
  <2>1. pc' \in Directories => Len(lists'[pc']) \in Nat /\ lists' = lists
    BY <1>2 DEF ImportsTyped, importVars
  <2> QED
    BY <1>2, <2>1 DEF ImportsTyped, importVars
<1> QED
  BY <1>1, <1>2, ImportsStay

-----------------------------------------------------------------------------
\* The needed libraries and where their collector stands.

Optional == {None} \cup {Some(n) : n \in Nat}

Distinct(s) == \A i, j \in DOMAIN s : s[i] = s[j] => i = j

NeededTyped ==
  /\ cursor \in Nat /\ needed \in Seq(Nat)
  /\ found \in [KeptTags -> Optional] /\ DOMAIN texts = TextTags
  /\ names \in Seq(AnyText) /\ Distinct(names)
  /\ isElf \in BOOLEAN

LEMMA NeededTypedImplies == NeededTyped => NeededTypeOK
BY DEF NeededTyped, NeededTypeOK, Distinct

LEMMA NeededTypedInit == Init => NeededTyped
<1> SUFFICES ASSUME Init PROVE NeededTyped
  OBVIOUS
<1>1. None \in Optional /\ <<>> \in Seq(Nat) /\ <<>> \in Seq(AnyText) /\ Distinct(<<>>)
  BY DEF Optional, Distinct
<1> QED
  BY <1>1 DEF Init, NeededInit, NeededTyped

LEMMA NeededFacts ==
  ASSUME CaseInv, PlaceInv, pc \in {"dynamic", "needed"}
  PROVE  HasDynamic(file)
BY CaseFacts DEF PlaceInv

LEMMA WordsAre ==
  ASSUME NEW f
  PROVE  \A w \in Word(f) : w \in Nat
BY WrapAssumption DEF Word, UInt32, UInt64

LEMMA EntryIs ==
  ASSUME HasDynamic(file), NEW i
  PROVE  EntryAt(file, i) \in DynamicEntry(file) \/ EntryAt(file, i).tag = "null"
<1>1. CASE i + 1 \in DOMAIN file.dynamic
  BY <1>1 DEF HasDynamic, EntryAt
<1>2. CASE i + 1 \notin DOMAIN file.dynamic
  BY <1>2 DEF EntryAt
<1> QED
  BY <1>1, <1>2

LEMMA TextInIs ==
  ASSUME HasDynamic(file), NEW o
  PROVE  TextIn(o) = None \/ \E x \in AnyText : TextIn(o) = Some(x)
<1>1. \A n \in DOMAIN file.strings : file.strings[n] \in FileString
  BY DEF HasDynamic
<1>2. PICK n, m : TextIn(o) = None \/ TextIn(o) = BoundedString(file, n, m)
  BY DEF TextIn
<1> QED
  BY <1>1, <1>2, BoundedStringIs

LEMMA StaysDistinct ==
  ASSUME NEW S, NEW s \in Seq(S), Distinct(s), NEW x \in S
  PROVE  Distinct(AppendUnique(s, x))
<1>1. CASE AppendUnique(s, x) = s
  BY <1>1
<1>2. CASE AppendUnique(s, x) # s
  <2>1. PICK r : r = Append(s, x)
    OBVIOUS
  <2>2. AppendUnique(s, x) = r /\ \A i \in DOMAIN s : s[i] # x
    BY <1>2, <2>1 DEF AppendUnique
  <2>3. PICK n \in Nat : n = Len(s) /\ DOMAIN s = 1..n
    OBVIOUS
  <2>4. DOMAIN r = 1..(n + 1) /\ r[n + 1] = x /\ \A k \in 1..n : r[k] = s[k]
    BY <2>1, <2>3
  <2>5. ASSUME NEW i \in 1..(n + 1), NEW j \in 1..(n + 1), r[i] = r[j] PROVE i = j
    <3>1. (i \in 1..n \/ i = n + 1) /\ (j \in 1..n \/ j = n + 1)
      BY <2>3
    <3> QED
      BY <2>2, <2>3, <2>4, <2>5, <3>1 DEF Distinct
  <2> QED
    BY <2>2, <2>4, <2>5 DEF Distinct
<1> QED
  BY <1>1, <1>2

LEMMA NeededTypedNext == CaseInv /\ PlaceInv /\ NeededTyped /\ [Next]_vars => NeededTyped'
<1> SUFFICES ASSUME CaseInv, PlaceInv, NeededTyped, [Next]_vars PROVE NeededTyped'
  OBVIOUS
<1>1. CASE CollectNeeded
  <2>1. HasDynamic(file)
    BY <1>1, NeededFacts DEF CollectNeeded, NeededNext, ReadDynamic, DynamicOutOfMemory,
       ResolveStrings, AddNeeded, NeededOutOfMemory, SetTexts, DieBehindFile
  <2>2. CASE ReadDynamic
    <3>1. PICK e : e = EntryAt(file, cursor)
      OBVIOUS
    <3>2. /\ ~TableEnds(file, cursor) /\ cursor' = cursor + 1
          /\ UNCHANGED <<names, texts, isElf>>
          /\ found' = IF e.tag \in KeptTags THEN [found EXCEPT ![e.tag] = Some(e.value)] ELSE found
          /\ needed' = IF e.tag = "needed" THEN Append(needed, e.value) ELSE needed
      BY <2>2, <3>1 DEF ReadDynamic
    <3>3. e \in DynamicEntry(file)
      BY <2>1, <3>1, <3>2, EntryIs DEF TableEnds
    <3>4. e.value \in Nat /\ Some(e.value) \in Optional
      BY <3>3, WordsAre DEF DynamicEntry, Optional
    <3>5. found' \in [KeptTags -> Optional]
      BY <3>2, <3>4 DEF NeededTyped
    <3>6. needed' \in Seq(Nat)
      BY <3>2, <3>4, AppendIs DEF NeededTyped
    <3> QED
      BY <3>2, <3>5, <3>6 DEF NeededTyped
  <2>3. CASE AddNeeded
    <3>1. PICK text : text = TextIn(needed[cursor + 1])
      OBVIOUS
    <3>2. /\ cursor' = cursor + 1 /\ UNCHANGED <<found, needed, texts, isElf>>
          /\ names' = IF text = None THEN names ELSE AppendUnique(names, The(text))
      BY <2>3, <3>1 DEF AddNeeded
    <3>3. names' \in Seq(AnyText) /\ Distinct(names)'
      <4>1. CASE text = None
        BY <3>2, <4>1 DEF NeededTyped, Distinct
      <4>2. CASE text # None
        <5>1. PICK x \in AnyText : text = Some(x)
          BY <2>1, <3>1, <4>2, TextInIs
        <5>2. PICK r : r = AppendUnique(names, x)
          OBVIOUS
        <5>3. r \in Seq(AnyText) /\ Distinct(r)
          BY <5>2, AppendUniqueIs, StaysDistinct DEF NeededTyped
        <5>4. names' = r
          BY <3>2, <4>2, <5>1, <5>2, TheSome
        <5> QED
          BY <5>3, <5>4 DEF Distinct
      <4> QED
        BY <4>1, <4>2
    <3> QED
      BY <3>2, <3>3 DEF NeededTyped
  <2>4. CASE SetTexts
    <3>1. UNCHANGED <<cursor, found, needed, names>> /\ DOMAIN texts' = TextTags /\ isElf' \in BOOLEAN
      BY <2>4 DEF SetTexts
    <3> QED
      BY <3>1 DEF NeededTyped, Distinct
  <2>5. CASE ResolveStrings \/ DynamicOutOfMemory \/ NeededOutOfMemory \/ DieBehindFile
    BY <2>5 DEF ResolveStrings, DynamicOutOfMemory, NeededOutOfMemory, DieBehindFile, neededVars, NeededTyped,
       Distinct
  <2> QED
    BY <1>1, <2>2, <2>3, <2>4, <2>5 DEF CollectNeeded, NeededNext
<1>2. CASE UNCHANGED neededVars
  BY <1>2 DEF neededVars, NeededTyped, Distinct
<1> QED
  BY <1>1, <1>2, WhoChanges

-----------------------------------------------------------------------------
\* All of it together.

LEMMA ResourcesTyped ==
  ASSUME CaseInv, ResourcesInv
  PROVE  ResourcesTypeOK
<1>1. Len(stack) <= MaxDepth + 2 /\ \A i \in DOMAIN stack :
        /\ stack[i].at \in Nat /\ stack[i].next \in Nat \ {0}
        /\ stack[i].labels \in Seq(Label) /\ Len(stack[i].labels) <= 3
  <2>1. CASE pc = "walk"
    <3>1. StackOk(stack)
      BY <2>1 DEF ResourcesInv, Walking
    <3>2. PICK s \in Seq(Frame) : s = stack /\ Len(s) \in 1..6
      BY <3>1 DEF StackOk
    <3>3. Len(s) <= MaxDepth + 2
      <4>1. PICK n \in 1..6 : n = Len(s)
        BY <3>2
      <4>2. n <= MaxDepth + 2
        BY DEF MaxDepth
      <4> QED
        BY <4>1, <4>2
    <3>4. ASSUME NEW i \in DOMAIN s PROVE
            /\ s[i].at \in Nat /\ s[i].next \in Nat \ {0}
            /\ s[i].labels \in Seq(Label) /\ Len(s[i].labels) <= 3
      <4>1. i \in 1..Len(s) /\ Len(s) \in Nat
        BY <3>2
      <4>2. Len(s[i].labels) = IF i <= 3 THEN i - 1 ELSE 3
        BY <3>1, <3>2, <4>1 DEF StackOk, LabelsOk
      <4>3. Len(s[i].labels) <= 3
        BY <4>1, <4>2
      <4> QED
        BY <4>1, <4>3, FrameIs
    <3> QED
      BY <3>2, <3>3, <3>4
  <2>2. CASE pc # "walk"
    BY <2>2 DEF ResourcesInv, MaxDepth
  <2> QED
    BY <2>1, <2>2
<1>2. \A i \in DOMAIN resources : Len(resources[i].labels) = 3
  <2>1. CASE ~available
    BY <2>1 DEF ResourcesInv
  <2>2. CASE available
    <3>1. HasResources(file) /\ base \in Nat
      BY <2>2, CaseFacts DEF ResourcesInv
    <3>2. PICK S \in SUBSET Paths : resources = Taken(S)
      BY <2>2 DEF ResourcesInv, Walking, Walked, DoneBefore
    <3>3. IsFiniteSet(Paths)
      BY <3>1, PathsAre
    <3>4. resources \in Seq(ResourcesOfPaths)
      BY <3>2, <3>3, TakenIs
    <3>5. \A x \in ResourcesOfPaths : Len(x.labels) = 3
      BY DEF ResourcesOfPaths, ResourceAt
    <3> QED
      BY <3>4, <3>5
  <2> QED
    BY <2>1, <2>2 DEF ResourcesInv
<1> QED
  BY <1>1, <1>2 DEF ResourcesInv, ResourcesTypeOK

TypeInv ==
  /\ SectionInv /\ OverlayInv /\ StringsInv /\ ResourcesInv
  /\ CountersInv /\ PlaceInv /\ ImportsTyped /\ NeededTyped

\* Every list of a report stays within its limit and within what was allocated
\* for it, and every index within the list it points into.
THEOREM TypeCorrect == Spec => []TypeOK
<1>1. Init => CaseInv /\ TypeInv
  <2>1. Init => CountersInv /\ PlaceInv
    <3>1. Init => /\ section = 0 /\ loaded = {} /\ densest = 0 /\ suspicious = 0
                  /\ pc = "allocate" /\ enriched = FALSE
      BY DEF Init
    <3>2. Init => CountersInv
      BY <3>1 DEF CountersInv
    <3>3. Init => PlaceInv
      BY <3>1 DEF PlaceInv, PC
    <3> QED
      BY <3>2, <3>3
  <2> QED
    BY <2>1, CaseInvInit, SectionInvInit, OverlayInvInit, StringsInvInit, ResourcesInvInit,
       ImportsTypedInit, NeededTypedInit DEF TypeInv
<1>2. CaseInv /\ TypeInv /\ [Next]_vars => TypeInv'
  BY SectionInvNext, OverlayInvNext, StringsInvNext, ResourcesInvNext, CountersInvNext,
     PlaceInvNext, ImportsTypedNext, NeededTypedNext DEF TypeInv
<1>3. CaseInv /\ TypeInv => TypeOK
  <2> SUFFICES ASSUME CaseInv, TypeInv PROVE TypeOK
    OBVIOUS
  <2>1. ResourcesTypeOK /\ ImportsTypeOK /\ NeededTypeOK /\ StringsTypeOK
    BY ResourcesTyped, ImportsTypedImplies, NeededTypedImplies, StringsInvImplies DEF TypeInv
  <2>2. section \in 0..Len(file.listed) /\ mappedEnd \in Nat /\ trailing \in SUBSET Nat
    <3>1. file.size \in Nat /\ mappedEnd \in Nat
      BY CaseFacts DEF TypeInv, SectionInv
    <3>2. PICK n \in Nat : n = Higher(file.size - mappedEnd, 0)
      BY <3>1 DEF Higher
    <3>3. trailing = None \/ trailing = Some(n)
      BY <3>2 DEF TypeInv, SectionInv
    <3>4. trailing \in SUBSET Nat
      BY <3>3 DEF Some, None
    <3> QED
      BY <3>1, <3>4 DEF TypeInv, SectionInv
  <2> QED
    <3>1. pc \in PC /\ loaded \subseteq 1..section /\ densest \in {0} \cup loaded
          /\ suspicious \in 0..section
      BY DEF TypeInv, CountersInv, PlaceInv
    <3>2. rule \in 1..(Len(Rules) + 1) /\ Len(hits) <= MaxHits
      BY DEF TypeInv, OverlayInv
    <3>3. enriched \in BOOLEAN
      BY DEF TypeInv, PlaceInv
    <3> QED
      BY <2>1, <2>2, <3>1, <3>2, <3>3 DEF TypeOK
<1> QED
  BY <1>1, <1>2, <1>3, CaseInvNext, PTL DEF Spec

-----------------------------------------------------------------------------
\* The values of a function at some numbers, in their order.

Along(S, g) == LET order == InOrder(S, <) IN [k \in DOMAIN order |-> g[order[k]]]

\* The values w of g at the numbers of S, which are t in their order.
Follows(w, t, g, S, V) ==
  /\ Len(w) = Cardinality(S) /\ Len(t) = Cardinality(S) /\ Cardinality(S) \in Nat
  /\ w \in Seq(V) /\ t \in Seq(S)
  /\ \A k \in 1..Cardinality(S) : t[k] \in S /\ w[k] = g[t[k]]
  /\ \A x \in S : \E k \in 1..Cardinality(S) : t[k] = x
  /\ \A j, k \in 1..Cardinality(S) : t[j] = t[k] => j = k

LEMMA AlongIs ==
  ASSUME NEW V, NEW D \in SUBSET Int, NEW g \in [D -> V], NEW S \in SUBSET D, IsFiniteSet(S)
  PROVE  Follows(Along(S, g), InOrder(S, <), g, S, V)
<1>1. S \in SUBSET Int
  OBVIOUS
<1>2. PICK t : t = InOrder(S, <)
  OBVIOUS
<1>3. /\ t \in Seq(S) /\ Len(t) = Cardinality(S) /\ DOMAIN t = 1..Cardinality(S)
      /\ \A x \in S : \E k \in 1..Len(t) : t[k] = x
      /\ \A j, k \in 1..Len(t) : j < k => <<t[j], t[k]>> \in LessThan
  BY <1>1, <1>2, InOrderIs DEF Enumerates
<1>4. Cardinality(S) \in Nat
  BY FS_CardinalityType
<1>5. PICK n \in Nat : n = Cardinality(S)
  BY <1>4
<1>6. \A k \in 1..n : t[k] \in S /\ t[k] \in D
  <2>1. \A k \in 1..n : t[k] \in S
    BY <1>3, <1>5
  <2> QED
    BY <2>1
<1>7. Along(S, g) = [k \in 1..n |-> g[t[k]]]
  BY <1>2, <1>3, <1>5 DEF Along
<1>8. [k \in 1..n |-> g[t[k]]] \in [1..n -> V]
  BY <1>6
<1>9. Along(S, g) \in Seq(V) /\ Len(Along(S, g)) = n /\ \A k \in 1..n : Along(S, g)[k] = g[t[k]]
  BY <1>7, <1>8
<1>10. ASSUME NEW j \in 1..n, NEW k \in 1..n, t[j] = t[k] PROVE j = k
  <2>1. <<t[j], t[j]>> \notin LessThan
    BY <1>6 DEF LessThan
  <2>2. ~(j < k) /\ ~(k < j)
    BY <1>3, <1>5, <1>10, <2>1
  <2> QED
    BY <1>5, <2>2
<1> QED
  BY <1>2, <1>3, <1>4, <1>5, <1>6, <1>9, <1>10 DEF Follows

LEMMA AlongAgain ==
  ASSUME NEW S, NEW g, NEW h, IsFiniteSet(S), S \in SUBSET Int, \A x \in S : g[x] = h[x]
  PROVE  Along(S, g) = Along(S, h)
<1>1. PICK t : t = InOrder(S, <)
  OBVIOUS
<1>2. \A k \in DOMAIN t : t[k] \in S
  <2>1. t \in Seq(S)
    BY <1>1, InOrderIs DEF Enumerates
  <2> QED
    BY <2>1
<1>3. \A k \in DOMAIN t : g[t[k]] = h[t[k]]
  BY <1>2
<1>4. Along(S, g) = [k \in DOMAIN t |-> g[t[k]]] /\ Along(S, h) = [k \in DOMAIN t |-> h[t[k]]]
  BY <1>1 DEF Along
<1> QED
  BY <1>3, <1>4

\* The numbers T are those of S and a greater one.
Extends(T, S, x) == T = S \cup {x} /\ \A y \in S : y < x

LEMMA AlongGrows ==
  ASSUME NEW V, NEW D \in SUBSET Int, NEW g \in [D -> V], NEW S \in SUBSET D, IsFiniteSet(S),
         NEW x \in D, NEW T, Extends(T, S, x)
  PROVE  /\ Along(T, g) = Append(Along(S, g), g[x]) /\ IsFiniteSet(T)
         /\ Cardinality(T) = Cardinality(S) + 1
<1>0. T = S \cup {x} /\ \A y \in S : y < x
  BY DEF Extends
<1>1. S \in SUBSET Int /\ x \in Int /\ x \notin S
  BY <1>0
<1>2. IsFiniteSet(T) /\ T \in SUBSET D /\ Cardinality(T) = Cardinality(S) + 1
  BY <1>0, <1>1, FS_AddElement
<1>3. PICK t : t = InOrder(S, <)
  OBVIOUS
<1>4. PICK r : r = Append(t, x)
  OBVIOUS
<1>5. InOrder(T, <) = r
  BY <1>0, <1>1, <1>3, <1>4, InOrderGrows
<1>6. PICK u, w : u = Along(S, g) /\ w = Along(T, g)
  OBVIOUS
<1>7. /\ u \in Seq(V) /\ Len(u) = Cardinality(S) /\ Cardinality(S) \in Nat
      /\ t \in Seq(S) /\ Len(t) = Cardinality(S)
      /\ \A k \in 1..Cardinality(S) : t[k] \in S /\ u[k] = g[t[k]]
  <2>1. Follows(u, t, g, S, V)
    BY <1>3, <1>6, AlongIs
  <2> QED
    BY <2>1 DEF Follows
<1>8. /\ w \in Seq(V) /\ Len(w) = Cardinality(T)
      /\ \A k \in 1..Cardinality(T) : w[k] = g[r[k]]
  <2>1. Follows(w, r, g, T, V)
    BY <1>2, <1>5, <1>6, AlongIs
  <2> QED
    BY <2>1 DEF Follows
<1>9. PICK n \in Nat : n = Cardinality(S) /\ Cardinality(T) = n + 1
  BY <1>2, <1>7
<1>10. t \in Seq(D) /\ Len(t) = n
  BY <1>7, <1>9, WiderSeq
<1>11. r[n + 1] = x /\ \A k \in 1..n : r[k] = t[k]
  BY <1>4, <1>10
<1>12. PICK y : y = g[x] /\ y \in V
  OBVIOUS
<1>13. PICK z : z = Append(u, y)
  OBVIOUS
<1>14. /\ z \in Seq(V) /\ Len(z) = n + 1 /\ z[n + 1] = y
       /\ \A k \in 1..n : z[k] = u[k]
  BY <1>7, <1>9, <1>12, <1>13
<1>15. ASSUME NEW k \in 1..(n + 1) PROVE w[k] = z[k]
  <2>1. k \in 1..n \/ k = n + 1
    BY <1>9
  <2>2. CASE k \in 1..n
    <3>1. w[k] = g[r[k]]
      BY <1>8, <1>9
    <3>2. z[k] = u[k] /\ r[k] = t[k]
      BY <1>11, <1>14, <2>2
    <3>3. u[k] = g[t[k]]
      BY <1>7, <1>9, <2>2
    <3> QED
      BY <3>1, <3>2, <3>3
  <2>3. CASE k = n + 1
    BY <1>8, <1>9, <1>11, <1>12, <1>14, <2>3
  <2> QED
    BY <2>1, <2>2, <2>3
<1>16. w = z
  BY <1>8, <1>9, <1>14, <1>15, SeqEqual
<1> QED
  BY <1>2, <1>6, <1>12, <1>13, <1>16

LEMMA AlongNothing == \A g : Along({}, g) = <<>> /\ InOrder({}, <) = <<>>
<1>1. PICK t : t = InOrder({}, <)
  OBVIOUS
<1>2. DOMAIN t = {} /\ t \in Seq({}) /\ Len(t) = 0
  <2>1. IsFiniteSet({}) /\ Cardinality({}) = 0 /\ {} \in SUBSET Int
    BY FS_EmptySet
  <2>2. t \in Seq({}) /\ Len(t) = 0
    BY <1>1, <2>1, InOrderIs DEF Enumerates
  <2> QED
    BY <2>2
<1>3. t = <<>>
  BY <1>2, EmptySeq
<1>4. \A g : Along({}, g) = [k \in DOMAIN t |-> g[t[k]]]
  BY <1>1 DEF Along
<1>5. \A g : [k \in {} |-> g[t[k]]] = <<>>
  OBVIOUS
<1> QED
  BY <1>1, <1>2, <1>3, <1>4, <1>5

-----------------------------------------------------------------------------
\* The texts of a sequence.

LEMMA TextPlacesAre ==
  ASSUME NEW S, NEW s \in Seq(S)
  PROVE  /\ TextPlaces(s) \in SUBSET (1..Len(s)) /\ IsFiniteSet(TextPlaces(s)) /\ Len(s) \in Nat
         /\ s \in [1..Len(s) -> S] /\ Texts(s) = Along(TextPlaces(s), s)
<1>1. TextPlaces(s) \in SUBSET (1..Len(s)) /\ Len(s) \in Nat /\ s \in [1..Len(s) -> S]
  BY DEF TextPlaces
<1>2. IsFiniteSet(1..Len(s))
  BY <1>1, FS_Interval
<1>3. IsFiniteSet(TextPlaces(s))
  BY <1>1, <1>2, FS_Subset
<1>4. Texts(s) = Along(TextPlaces(s), s)
  BY DEF Texts, Along
<1> QED
  BY <1>1, <1>3, <1>4

\* The texts w are those of s.
Shows(w, s) ==
  /\ \A i \in 1..Len(s) : s[i] # Empty => \E k \in DOMAIN w : w[k] = s[i]
  /\ \A k \in DOMAIN w : w[k] # Empty /\ \E i \in 1..Len(s) : w[k] = s[i]

LEMMA TextsInclude ==
  ASSUME NEW S, NEW s \in Seq(S)
  PROVE  Texts(s) \in Seq(S) /\ Shows(Texts(s), s)
<1> DEFINE P == TextPlaces(s)
           D == 1..Len(s)
<1>1. /\ P \in SUBSET D /\ IsFiniteSet(P) /\ Len(s) \in Nat
      /\ s \in [D -> S] /\ Texts(s) = Along(P, s) /\ D \in SUBSET Int
  BY TextPlacesAre
<1>2. \A i \in P : s[i] # Empty
  BY DEF TextPlaces
<1>3. ASSUME NEW i \in D, s[i] # Empty PROVE \E j \in P : s[j] = s[i]
  <2> DEFINE A == {j \in D : s[j] = s[i]}
  <2>1. A \in SUBSET Nat /\ i \in A
    BY <1>1
  <2>2. PICK j \in A : \A k \in A : j <= k
    BY <2>1, LeastExists
  <2>3. \A k \in 1..(j - 1) : s[k] # s[j]
    BY <2>2
  <2> QED
    BY <1>3, <2>2, <2>3 DEF TextPlaces
<1> HIDE DEF P, D
<1>4. PICK w, t : w = Along(P, s) /\ t = InOrder(P, <)
  OBVIOUS
<1>5. PICK n \in Nat : n = Cardinality(P)
  BY <1>1, FS_CardinalityType
<1>6. /\ w \in Seq(S) /\ Len(w) = n
      /\ \A k \in 1..n : t[k] \in P /\ w[k] = s[t[k]]
      /\ \A x \in P : \E k \in 1..n : t[k] = x
  <2>1. Follows(w, t, s, P, S)
    BY <1>1, <1>4, AlongIs
  <2> QED
    BY <1>5, <2>1 DEF Follows
<1>7. DOMAIN w = 1..n
  BY <1>6
<1>8. ASSUME NEW i \in D, s[i] # Empty PROVE \E k \in DOMAIN w : w[k] = s[i]
  <2>1. PICK j \in P : s[j] = s[i]
    BY <1>3, <1>8
  <2> QED
    BY <1>6, <1>7, <2>1
<1>9. ASSUME NEW k \in DOMAIN w PROVE w[k] # Empty /\ \E i \in D : w[k] = s[i]
  <2>1. t[k] \in P /\ w[k] = s[t[k]]
    BY <1>6, <1>7
  <2>2. t[k] \in D /\ s[t[k]] # Empty
    BY <1>1, <1>2, <2>1
  <2> QED
    BY <2>1, <2>2
<1>10. Texts(s) = w /\ D = 1..Len(s)
  BY <1>1, <1>4 DEF D
<1> QED
  BY <1>6, <1>8, <1>9, <1>10 DEF Shows

\* One more element is taken as append_string_unique takes it.
LEMMA TextsGrow ==
  ASSUME NEW S, NEW s \in Seq(S), NEW x \in S
  PROVE  Texts(Append(s, x)) = AppendUnique(Texts(s), x)
<1>1. PICK r : r = Append(s, x)
  OBVIOUS
<1>2. PICK n \in Nat : n = Len(s)
  OBVIOUS
<1>3. /\ r \in Seq(S) /\ Len(r) = n + 1 /\ r[n + 1] = x /\ \A i \in 1..n : r[i] = s[i]
      /\ DOMAIN s = 1..n /\ DOMAIN r = 1..(n + 1)
  BY <1>1, <1>2
<1>4. PICK P, Q : P = TextPlaces(s) /\ Q = TextPlaces(r)
  OBVIOUS
<1>5. /\ P \in SUBSET (1..n) /\ IsFiniteSet(P) /\ Texts(s) = Along(P, s)
      /\ Texts(r) = Along(Q, r) /\ r \in [1..(n + 1) -> S] /\ s \in [1..n -> S]
  BY <1>2, <1>3, <1>4, TextPlacesAre
<1>6. \A i \in 1..n : \A j \in 1..(i - 1) : j \in 1..n
  BY <1>2
<1>7. \A i \in 1..n : i \in P <=> i \in Q
  BY <1>3, <1>4, <1>6 DEF TextPlaces
<1>8. n + 1 \in Q <=> (x # Empty /\ \A i \in 1..n : s[i] # x)
  <2>1. (n + 1) - 1 = n /\ n + 1 \in DOMAIN r
    BY <1>3
  <2> QED
    BY <1>3, <1>4, <2>1 DEF TextPlaces
<1>9. Q \in SUBSET (1..(n + 1)) /\ \A i \in 1..(n + 1) : i \in 1..n \/ i = n + 1
  BY <1>3, <1>4 DEF TextPlaces
<1>10. Along(P, r) = Along(P, s)
  <2>1. \A i \in P : r[i] = s[i]
    BY <1>3, <1>5
  <2>2. P \in SUBSET Int
    BY <1>5
  <2> QED
    BY <1>5, <2>1, <2>2, AlongAgain
<1>11. CASE x = Empty \/ \E i \in 1..n : s[i] = x
  <2>1. P = Q
    BY <1>5, <1>7, <1>8, <1>9, <1>11
  <2>2. x = Empty \/ \E k \in DOMAIN Texts(s) : Texts(s)[k] = x
    <3>1. Shows(Texts(s), s)
      BY TextsInclude
    <3> QED
      BY <1>2, <1>11, <3>1 DEF Shows
  <2> QED
    BY <1>1, <1>5, <1>10, <2>1, <2>2 DEF AppendUnique
<1>12. CASE x # Empty /\ \A i \in 1..n : s[i] # x
  <2>1. PICK m : m = n + 1 /\ Q = P \cup {m}
    BY <1>5, <1>7, <1>8, <1>9, <1>12
  <2>2. Extends(Q, P, m)
    BY <1>5, <2>1 DEF Extends
  <2>3. PICK D : D = 1..m
    OBVIOUS
  <2>4. P \in SUBSET D /\ D \in SUBSET Int /\ m \in D /\ r \in [D -> S] /\ IsFiniteSet(P)
    BY <1>5, <2>1, <2>3
  <2>6. Along(Q, r) = Append(Along(P, r), r[m])
    BY <2>2, <2>4, AlongGrows
  <2>7. ~ \E k \in DOMAIN Texts(s) : Texts(s)[k] = x
    <3>1. Shows(Texts(s), s)
      BY TextsInclude
    <3> QED
      BY <1>2, <1>12, <3>1 DEF Shows
  <2> QED
    BY <1>1, <1>3, <1>5, <1>10, <1>12, <2>1, <2>6, <2>7 DEF AppendUnique
<1> QED
  BY <1>11, <1>12

LEMMA NoTexts == Texts(<<>>) = <<>>
<1>1. TextPlaces(<<>>) = {}
  BY DEF TextPlaces
<1>2. Texts(<<>>) = Along({}, <<>>)
  BY <1>1 DEF Texts, Along
<1> QED
  BY <1>2, AlongNothing

-----------------------------------------------------------------------------
\* The thunks of a descriptor.

FirstThunk(f, d, i) == ThunksAt(f, Pointers(f, d, i).thunk)

ThunkNo(f, d, i, n) == ThunkAt(f, The(FirstThunk(f, d, i)) + n * f.thunkSize)

\* The symbols of the first m thunks of a descriptor.
SymbolsRead(f, d, i, m) == [n \in 1..m |-> SymbolOf(f, The(ThunkNo(f, d, i, n - 1)))]

\* The first m thunks are there.
ThunksThere(f, d, i, m) == \A n \in 0..(m - 1) : ThunkNo(f, d, i, n) # None

\* A file whose imports can be read.
Importing(f, d) == HasAddresses(f) /\ HasImports(f) /\ d \in Directories

LEMMA Products ==
  ASSUME NEW n \in Nat, NEW t \in Nat \ {0}
  PROVE  n * t \in Nat /\ n <= n * t /\ (n + 1) * t = n * t + t
<1>1. PICK u \in Nat : t = u + 1
  <2>1. t - 1 \in Nat /\ t = (t - 1) + 1
    OBVIOUS
  <2> QED
    BY <2>1
<1>2. n * u \in Nat /\ n * t = n * u + n
  BY <1>1
<1>3. (n + 1) * t = n * t + t
  OBVIOUS
<1> QED
  BY <1>2, <1>3

LEMMA FirstThunkIs ==
  ASSUME NEW f, NEW d, Importing(f, d), NEW i \in Nat, FirstThunk(f, d, i) # None
  PROVE  The(FirstThunk(f, d, i)) \in Nat /\ FirstThunk(f, d, i) = Some(The(FirstThunk(f, d, i)))
<1>1. HasAddresses(f) /\ HasImports(f) /\ d \in Directories
  BY DEF Importing
<1>2. Pointers(f, d, i) \in Target
  BY <1>1, PointersAre
<1>3. Pointers(f, d, i).thunk \in Nat
  BY <1>2 DEF Target
<1>4. PICK o \in Nat : FirstThunk(f, d, i) = Some(o)
  BY <1>1, <1>3, ThunksAtIs DEF FirstThunk
<1> QED
  BY <1>4, TheSome

\* A thunk ends within the file.
LEMMA ThunkNoIs ==
  ASSUME NEW f, NEW d, Importing(f, d), NEW i \in Nat, FirstThunk(f, d, i) # None, NEW n \in Nat
  PROVE  \/ ThunkNo(f, d, i, n) = None
         \/ n < f.size /\ \E t \in Thunk : ThunkNo(f, d, i, n) = Some(t)
<1>1. HasImports(f) /\ f.size \in Nat /\ f.thunkSize \in Nat \ {0}
  BY DEF Importing, HasImports, HasAddresses
<1>2. PICK o \in Nat : o = The(FirstThunk(f, d, i))
  BY FirstThunkIs
<1>3. PICK ts \in Nat \ {0} : ts = f.thunkSize
  BY <1>1
<1>4. PICK p \in Nat : p = n * ts /\ n <= p
  BY Products
<1>5. ThunkNo(f, d, i, n) = ThunkAt(f, o + p)
  BY <1>2, <1>3, <1>4 DEF ThunkNo
<1>6. ThunkAt(f, o + p) # None => o + p + ts <= f.size
  BY <1>3 DEF ThunkAt
<1>7. ThunkAt(f, o + p) = None \/ \E t \in Thunk : ThunkAt(f, o + p) = Some(t)
  BY <1>1, ThunkAtIs
<1>8. o + p + ts <= f.size => n < f.size
  BY <1>1, <1>4
<1> QED
  BY <1>5, <1>6, <1>7, <1>8

LEMMA SymbolsReadAre ==
  ASSUME NEW f, NEW d, Importing(f, d), NEW i \in Nat, FirstThunk(f, d, i) # None, NEW m \in Nat,
         ThunksThere(f, d, i, m)
  PROVE  /\ SymbolsRead(f, d, i, m) \in Seq(AnyText)
         /\ m = 0 => SymbolsRead(f, d, i, m) = <<>>
<1>1. ASSUME NEW n \in 1..m PROVE SymbolOf(f, The(ThunkNo(f, d, i, n - 1))) \in AnyText
  <2>1. n - 1 \in 0..(m - 1) /\ n - 1 \in Nat
    OBVIOUS
  <2>2. PICK t \in Thunk : ThunkNo(f, d, i, n - 1) = Some(t)
    BY <2>1, ThunkNoIs DEF ThunksThere
  <2> QED
    BY <2>2, TheSome, SymbolIs DEF Importing
<1>2. SymbolsRead(f, d, i, m) \in [1..m -> AnyText]
  BY <1>1 DEF SymbolsRead
<1>3. m = 0 => SymbolsRead(f, d, i, m) = <<>>
  BY DEF SymbolsRead
<1> QED
  BY <1>2, <1>3

LEMMA OneMoreSymbol ==
  ASSUME NEW f, NEW d, Importing(f, d), NEW i \in Nat, FirstThunk(f, d, i) # None, NEW m \in Nat,
         ThunksThere(f, d, i, m), NEW t \in Thunk, ThunkNo(f, d, i, m) = Some(t)
  PROVE  /\ ThunksThere(f, d, i, m + 1)
         /\ SymbolsRead(f, d, i, m + 1) = Append(SymbolsRead(f, d, i, m), SymbolOf(f, t))
<1>1. ThunksThere(f, d, i, m + 1)
  <2>1. \A n \in 0..((m + 1) - 1) : n \in 0..(m - 1) \/ n = m
    OBVIOUS
  <2> QED
    BY <2>1, TheSome DEF ThunksThere
<1>2. PICK g : g = [n \in 1..(m + 1) |-> SymbolOf(f, The(ThunkNo(f, d, i, n - 1)))]
  OBVIOUS
<1>3. g \in Seq(AnyText) /\ g = SymbolsRead(f, d, i, m + 1) /\ Len(g) = m + 1
  BY <1>1, <1>2, SymbolsReadAre DEF SymbolsRead
<1>4. g[m + 1] = SymbolOf(f, t)
  <2>1. (m + 1) - 1 = m /\ m + 1 \in 1..(m + 1)
    OBVIOUS
  <2> QED
    BY <1>2, <2>1, TheSome
<1>5. SymbolsRead(f, d, i, m) = [n \in 1..m |-> g[n]]
  <2>1. \A n \in 1..m : n \in 1..(m + 1)
    OBVIOUS
  <2>2. \A n \in 1..m : g[n] = SymbolOf(f, The(ThunkNo(f, d, i, n - 1)))
    BY <1>2, <2>1
  <2> QED
    BY <2>2 DEF SymbolsRead
<1>6. \A n \in 1..(m + 1) : g[n] \in AnyText
  BY <1>3
<1>7. [n \in 1..(m + 1) |-> g[n]] = Append([n \in 1..m |-> g[n]], g[m + 1])
  BY <1>6, OneMore
<1>8. [n \in 1..(m + 1) |-> g[n]] = g
  BY <1>2
<1> QED
  BY <1>1, <1>3, <1>4, <1>5, <1>7, <1>8

\* What a descriptor's symbols are when the first thunk that is not there is m.
LEMMA AllSymbolsRead ==
  ASSUME NEW f, NEW d, Importing(f, d), NEW i \in Nat, FirstThunk(f, d, i) # None, NEW m \in Nat,
         ThunksThere(f, d, i, m), ThunkNo(f, d, i, m) = None
  PROVE  SymbolsOf(f, d, i) = SymbolsRead(f, d, i, m)
<1> DEFINE L == {n \in 0..f.size : ThunkNo(f, d, i, n) = None}
<1>1. f.size \in Nat
  BY DEF Importing, HasAddresses
<1>2. m <= f.size
  <2>1. CASE m = 0
    BY <1>1, <2>1
  <2>2. CASE m # 0
    <3>1. m - 1 \in 0..(m - 1) /\ m - 1 \in Nat
      BY <2>2
    <3>2. m - 1 < f.size
      BY <3>1, ThunkNoIs DEF ThunksThere
    <3> QED
      BY <1>1, <3>1, <3>2
  <2> QED
    BY <2>1, <2>2
<1>3. m \in L /\ L \in SUBSET Nat
  BY <1>1, <1>2
<1>4. \A n \in L : m <= n
  BY <1>1 DEF ThunksThere
<1>5. PICK l : l = Lowest(L)
  OBVIOUS
<1>6. SymbolsOf(f, d, i) = [n \in 1..l |-> SymbolOf(f, The(ThunkNo(f, d, i, n - 1)))]
  BY <1>5 DEF SymbolsOf, FirstThunk, ThunkNo
<1> HIDE DEF L
<1>7. l \in L /\ l <= m
  BY <1>3, <1>5, LowestIs
<1>8. l = m
  BY <1>3, <1>4, <1>7
<1> QED
  BY <1>6, <1>8 DEF SymbolsRead

LEMMA SymbolsOfIs ==
  ASSUME NEW f, NEW d, Importing(f, d), NEW i \in Nat
  PROVE  /\ SymbolsOf(f, d, i) \in Seq(AnyText)
         /\ FirstThunk(f, d, i) = None => SymbolsOf(f, d, i) = <<>>
<1>1. CASE FirstThunk(f, d, i) = None
  <2>1. SymbolsOf(f, d, i) = <<>>
    BY <1>1 DEF SymbolsOf, FirstThunk
  <2> QED
    BY <2>1
<1>2. CASE FirstThunk(f, d, i) # None
  <2> DEFINE A == {n \in Nat : ThunkNo(f, d, i, n) = None}
  <2>1. f.size \in Nat
    BY DEF Importing, HasAddresses
  <2>2. f.size \in A
    BY <1>2, <2>1, ThunkNoIs
  <2>3. PICK m \in A : \A n \in A : m <= n
    <3>1. A \in SUBSET Nat /\ A # {}
      BY <2>2
    <3> HIDE DEF A
    <3> QED
      BY <3>1, LeastExists
  <2>4. m \in Nat /\ ThunkNo(f, d, i, m) = None /\ ThunksThere(f, d, i, m)
    BY <2>3 DEF ThunksThere
  <2>5. SymbolsOf(f, d, i) = SymbolsRead(f, d, i, m)
    BY <1>2, <2>4, AllSymbolsRead
  <2> QED
    BY <1>2, <2>4, <2>5, SymbolsReadAre
<1> QED
  BY <1>1, <1>2

-----------------------------------------------------------------------------
\* The names that descriptors give, and the symbols that go with a name.

LEMMA NameOfIs ==
  ASSUME NEW f, NEW d, Importing(f, d), NEW i
  PROVE  \/ NameOf(f, d, i) = None
         \/ /\ The(NameOf(f, d, i)) \in AnyText
            /\ NameOf(f, d, i) = Some(The(NameOf(f, d, i)))
<1>1. NameOf(f, d, i) = None \/ \E x \in AnyText : NameOf(f, d, i) = Some(x)
  BY TextAtIs DEF NameOf, Importing
<1> QED
  BY <1>1, TheSome

LEMMA MentionsAre ==
  ASSUME NEW f, NEW d, NEW n \in Nat, NEW name
  PROVE  /\ Mentions(f, d, n, name) \in SUBSET Nat /\ IsFiniteSet(Mentions(f, d, n, name))
         /\ \A i \in Mentions(f, d, n, name) : i < n /\ NameOf(f, d, i) = name
<1>1. IsFiniteSet(0..(n - 1))
  BY FS_Interval
<1>2. Mentions(f, d, n, name) \in SUBSET (0..(n - 1))
  BY DEF Mentions
<1>3. \A i \in 0..(n - 1) : i \in Nat /\ i < n
  OBVIOUS
<1> QED
  BY <1>1, <1>2, <1>3, FS_Subset DEF Mentions

LEMMA MentionsGrow ==
  ASSUME NEW f, NEW d, NEW n \in Nat, NEW name
  PROVE  /\ NameOf(f, d, n) = name =>
              Mentions(f, d, n + 1, name) = Mentions(f, d, n, name) \cup {n}
         /\ NameOf(f, d, n) # name => Mentions(f, d, n + 1, name) = Mentions(f, d, n, name)
<1>1. 0..((n + 1) - 1) = 0..(n - 1) \cup {n}
  OBVIOUS
<1> QED
  BY <1>1 DEF Mentions

AllSymbols(f, d) == [i \in Nat |-> SymbolsOf(f, d, i)]

LEMMA MentionedIs ==
  ASSUME NEW f, NEW d, Importing(f, d), NEW n \in Nat, NEW name
  PROVE  /\ AllSymbols(f, d) \in [Nat -> Seq(AnyText)]
         /\ Mentioned(f, d, n, name) = FlattenSeq(Along(Mentions(f, d, n, name), AllSymbols(f, d)))
         /\ Along(Mentions(f, d, n, name), AllSymbols(f, d)) \in Seq(Seq(AnyText))
         /\ Mentioned(f, d, n, name) \in Seq(AnyText)
         /\ Mentions(f, d, n, name) = {} => Mentioned(f, d, n, name) = <<>>
<1> DEFINE M == Mentions(f, d, n, name)
           g == AllSymbols(f, d)
<1>1. g \in [Nat -> Seq(AnyText)] /\ \A i \in Nat : g[i] = SymbolsOf(f, d, i)
  BY SymbolsOfIs DEF AllSymbols
<1>2. M \in SUBSET Nat /\ IsFiniteSet(M)
  BY MentionsAre
<1>3. PICK t : t = InOrder(M, <)
  OBVIOUS
<1>4. \A k \in DOMAIN t : t[k] \in Nat
  <2>1. M \in SUBSET Int
    BY <1>2
  <2>2. t \in Seq(M)
    BY <1>2, <1>3, <2>1, InOrderIs DEF Enumerates
  <2> QED
    BY <1>2, <2>2
<1>5. [k \in DOMAIN t |-> SymbolsOf(f, d, t[k])] = [k \in DOMAIN t |-> g[t[k]]]
  BY <1>1, <1>4
<1>6. Mentioned(f, d, n, name) = FlattenSeq(Along(M, g))
  BY <1>3, <1>5 DEF Mentioned, Along
<1> HIDE DEF M, g
<1>7. Along(M, g) \in Seq(Seq(AnyText))
  <2>1. Nat \in SUBSET Int
    OBVIOUS
  <2>2. Follows(Along(M, g), InOrder(M, <), g, M, Seq(AnyText))
    BY <1>1, <1>2, <2>1, AlongIs
  <2> QED
    BY <2>2 DEF Follows
<1>8. FlattenSeq(Along(M, g)) \in Seq(AnyText)
  BY <1>7, FlattenIsSeq
<1>9. M = {} => FlattenSeq(Along(M, g)) = <<>>
  <2>1. M = {} => Along(M, g) = <<>>
    BY AlongNothing
  <2> QED
    BY <1>7, <2>1, FlattenIsSeq
<1> QED
  BY <1>1, <1>6, <1>7, <1>8, <1>9 DEF M, g

LEMMA MentionedGrows ==
  ASSUME NEW f, NEW d, Importing(f, d), NEW n \in Nat, NEW name
  PROVE  Mentioned(f, d, n + 1, name) =
           IF NameOf(f, d, n) = name THEN Mentioned(f, d, n, name) \o SymbolsOf(f, d, n)
           ELSE Mentioned(f, d, n, name)
<1>1. PICK M, N, g : /\ M = Mentions(f, d, n, name) /\ N = Mentions(f, d, n + 1, name)
                     /\ g = AllSymbols(f, d)
  OBVIOUS
<1>2. /\ g \in [Nat -> Seq(AnyText)] /\ Mentioned(f, d, n, name) = FlattenSeq(Along(M, g))
      /\ Along(M, g) \in Seq(Seq(AnyText))
  BY <1>1, MentionedIs
<1>3. n + 1 \in Nat /\ Mentioned(f, d, n + 1, name) = FlattenSeq(Along(N, g))
  BY <1>1, MentionedIs
<1>4. M \in SUBSET Nat /\ IsFiniteSet(M) /\ \A i \in M : i < n
  BY <1>1, MentionsAre
<1>5. CASE NameOf(f, d, n) = name
  <2>1. Extends(N, M, n)
    BY <1>1, <1>4, <1>5, MentionsGrow DEF Extends
  <2>2. Nat \in SUBSET Int
    OBVIOUS
  <2>3. Along(N, g) = Append(Along(M, g), g[n])
    BY <1>2, <1>4, <2>1, <2>2, AlongGrows
  <2>4. g[n] = SymbolsOf(f, d, n) /\ g[n] \in Seq(AnyText)
    BY <1>1, <1>2 DEF AllSymbols
  <2>5. FlattenSeq(Append(Along(M, g), g[n])) = FlattenSeq(Along(M, g)) \o g[n]
    BY <1>2, <2>4, FlattenAppend
  <2> QED
    BY <1>2, <1>3, <1>5, <2>3, <2>4, <2>5
<1>6. CASE NameOf(f, d, n) # name
  <2>1. Mentions(f, d, n + 1, name) = Mentions(f, d, n, name)
    BY <1>6, MentionsGrow
  <2>2. N = M
    BY <1>1, <2>1
  <2> QED
    BY <1>2, <1>3, <1>6, <2>2
<1> QED
  BY <1>5, <1>6

LEMMA FirstMentionsAre ==
  ASSUME NEW f, NEW d, NEW n \in Nat
  PROVE  /\ FirstMentions(f, d, n) \in SUBSET {i \in Nat : NameOf(f, d, i) # None}
         /\ IsFiniteSet(FirstMentions(f, d, n))
         /\ \A i \in FirstMentions(f, d, n) :
              i < n /\ NameOf(f, d, i) # None /\ Mentions(f, d, i, NameOf(f, d, i)) = {}
<1>1. IsFiniteSet(0..(n - 1))
  BY FS_Interval
<1>2. FirstMentions(f, d, n) \in SUBSET (0..(n - 1))
  BY DEF FirstMentions
<1>3. \A i \in 0..(n - 1) : i \in Nat /\ i < n
  OBVIOUS
<1> QED
  BY <1>1, <1>2, <1>3, FS_Subset DEF FirstMentions

LEMMA FirstMentionsGrow ==
  ASSUME NEW f, NEW d, NEW n \in Nat
  PROVE  /\ NameOf(f, d, n) # None /\ Mentions(f, d, n, NameOf(f, d, n)) = {} =>
              FirstMentions(f, d, n + 1) = FirstMentions(f, d, n) \cup {n}
         /\ NameOf(f, d, n) = None \/ Mentions(f, d, n, NameOf(f, d, n)) # {} =>
              FirstMentions(f, d, n + 1) = FirstMentions(f, d, n)
<1>1. 0..((n + 1) - 1) = 0..(n - 1) \cup {n}
  OBVIOUS
<1> QED
  BY <1>1 DEF FirstMentions

\* A name is first given once.
LEMMA FirstMentionIsOne ==
  ASSUME NEW f, NEW d, NEW n \in Nat, NEW i \in FirstMentions(f, d, n), NEW j \in FirstMentions(f, d, n),
         NameOf(f, d, i) = NameOf(f, d, j)
  PROVE  i = j
<1>1. /\ i \in Nat /\ j \in Nat
      /\ Mentions(f, d, i, NameOf(f, d, i)) = {} /\ Mentions(f, d, j, NameOf(f, d, j)) = {}
  BY FirstMentionsAre
<1>2. ~(i < j)
  <2>1. i < j => i \in 0..(j - 1)
    BY <1>1
  <2> QED
    BY <1>1, <2>1 DEF Mentions
<1>3. ~(j < i)
  <2>1. j < i => j \in 0..(i - 1)
    BY <1>1
  <2> QED
    BY <1>1, <2>1 DEF Mentions
<1> QED
  BY <1>1, <1>2, <1>3

\* A name that is given is first given somewhere.
LEMMA FirstMentionExists ==
  ASSUME NEW f, NEW d, NEW n \in Nat, NEW name, name # None, Mentions(f, d, n, name) # {}
  PROVE  \E i \in FirstMentions(f, d, n) : NameOf(f, d, i) = name
<1>1. Mentions(f, d, n, name) \in SUBSET Nat
  BY MentionsAre
<1>2. PICK i \in Mentions(f, d, n, name) : \A j \in Mentions(f, d, n, name) : i <= j
  BY <1>1, LeastExists
<1>3. i \in 0..(n - 1) /\ NameOf(f, d, i) = name
  BY <1>2 DEF Mentions
<1>4. ASSUME NEW j \in 0..(i - 1) PROVE NameOf(f, d, j) # name
  <2>1. j \in 0..(n - 1) /\ ~(i <= j)
    BY <1>3
  <2> QED
    BY <1>2, <2>1 DEF Mentions
<1>5. Mentions(f, d, i, name) = {}
  BY <1>4 DEF Mentions
<1> QED
  BY <1>3, <1>5 DEF FirstMentions

-----------------------------------------------------------------------------
\* The libraries that have been declared.

Naming(f, d) == {i \in Nat : NameOf(f, d, i) # None}

\* What is listed for a descriptor when n descriptors have been read.
EntryOf(f, d, n) ==
  [j \in Naming(f, d) |->
     [name |-> The(NameOf(f, d, j)), symbols |-> Texts(Mentioned(f, d, n, NameOf(f, d, j)))]]

\* The symbols for a descriptor when t has been read of those of descriptor i.
MentionedSoFar(f, d, i, t, j) ==
  IF NameOf(f, d, j) = NameOf(f, d, i) THEN Mentioned(f, d, i, NameOf(f, d, j)) \o t
  ELSE Mentioned(f, d, i, NameOf(f, d, j))

EntrySoFar(f, d, i, t) ==
  [j \in Naming(f, d) |->
     [name |-> The(NameOf(f, d, j)), symbols |-> Texts(MentionedSoFar(f, d, i, t, j))]]

\* The libraries then.
DeclaredSoFar(f, d, i, t) == Along(FirstMentions(f, d, i + 1), EntrySoFar(f, d, i, t))

LEMMA EntryOfIs ==
  ASSUME NEW f, NEW d, Importing(f, d), NEW n \in Nat
  PROVE  EntryOf(f, d, n) \in [Naming(f, d) -> Library]
<1>1. ASSUME NEW j \in Naming(f, d)
      PROVE  [name |-> The(NameOf(f, d, j)), symbols |-> Texts(Mentioned(f, d, n, NameOf(f, d, j)))]
               \in Library
  <2>1. The(NameOf(f, d, j)) \in AnyText
    BY NameOfIs DEF Naming
  <2>2. Mentioned(f, d, n, NameOf(f, d, j)) \in Seq(AnyText)
    BY MentionedIs
  <2>3. Texts(Mentioned(f, d, n, NameOf(f, d, j))) \in Seq(AnyText)
    BY <2>2, TextsInclude
  <2> QED
    BY <2>1, <2>3 DEF Library
<1> QED
  BY <1>1 DEF EntryOf

LEMMA MentionedSoFarIs ==
  ASSUME NEW f, NEW d, Importing(f, d), NEW i \in Nat, NEW t \in Seq(AnyText), NEW j
  PROVE  /\ MentionedSoFar(f, d, i, t, j) \in Seq(AnyText)
         /\ t = <<>> => MentionedSoFar(f, d, i, t, j) = Mentioned(f, d, i, NameOf(f, d, j))
         /\ t = SymbolsOf(f, d, i) =>
              MentionedSoFar(f, d, i, t, j) = Mentioned(f, d, i + 1, NameOf(f, d, j))
<1>1. PICK s : s = Mentioned(f, d, i, NameOf(f, d, j))
  OBVIOUS
<1>2. s \in Seq(AnyText)
  BY <1>1, MentionedIs
<1>3. s \o t \in Seq(AnyText) /\ (t = <<>> => s \o t = s)
  BY <1>2
<1>4. CASE NameOf(f, d, j) = NameOf(f, d, i)
  <2>1. MentionedSoFar(f, d, i, t, j) = s \o t
    BY <1>1, <1>4 DEF MentionedSoFar
  <2>2. Mentioned(f, d, i + 1, NameOf(f, d, j)) = s \o SymbolsOf(f, d, i)
    BY <1>1, <1>4, MentionedGrows
  <2> QED
    BY <1>1, <1>3, <2>1, <2>2
<1>5. CASE NameOf(f, d, j) # NameOf(f, d, i)
  <2>1. MentionedSoFar(f, d, i, t, j) = s
    BY <1>1, <1>5 DEF MentionedSoFar
  <2>2. Mentioned(f, d, i + 1, NameOf(f, d, j)) = s
    BY <1>1, <1>5, MentionedGrows
  <2> QED
    BY <1>1, <1>2, <2>1, <2>2
<1> QED
  BY <1>4, <1>5

LEMMA EntrySoFarIs ==
  ASSUME NEW f, NEW d, Importing(f, d), NEW i \in Nat, NEW t \in Seq(AnyText)
  PROVE  /\ EntrySoFar(f, d, i, t) \in [Naming(f, d) -> Library]
         /\ t = <<>> => EntrySoFar(f, d, i, t) = EntryOf(f, d, i)
         /\ t = SymbolsOf(f, d, i) => EntrySoFar(f, d, i, t) = EntryOf(f, d, i + 1)
<1>0. ASSUME NEW j
      PROVE  /\ t = <<>> => MentionedSoFar(f, d, i, t, j) = Mentioned(f, d, i, NameOf(f, d, j))
             /\ t = SymbolsOf(f, d, i) =>
                  MentionedSoFar(f, d, i, t, j) = Mentioned(f, d, i + 1, NameOf(f, d, j))
  BY MentionedSoFarIs
<1>1. ASSUME NEW j \in Naming(f, d)
      PROVE  [name |-> The(NameOf(f, d, j)), symbols |-> Texts(MentionedSoFar(f, d, i, t, j))]
               \in Library
  <2>1. The(NameOf(f, d, j)) \in AnyText
    BY NameOfIs DEF Naming
  <2>2. MentionedSoFar(f, d, i, t, j) \in Seq(AnyText)
    BY MentionedSoFarIs
  <2>3. Texts(MentionedSoFar(f, d, i, t, j)) \in Seq(AnyText)
    BY <2>2, TextsInclude
  <2> QED
    BY <2>1, <2>3 DEF Library
<1>2. EntrySoFar(f, d, i, t) \in [Naming(f, d) -> Library]
  BY <1>1 DEF EntrySoFar
<1>3. ASSUME t = <<>> PROVE EntrySoFar(f, d, i, t) = EntryOf(f, d, i)
  <2>1. ASSUME NEW j
        PROVE  MentionedSoFar(f, d, i, t, j) = Mentioned(f, d, i, NameOf(f, d, j))
    BY <1>0, <1>3
  <2> QED
    BY <2>1 DEF EntrySoFar, EntryOf
<1>4. ASSUME t = SymbolsOf(f, d, i) PROVE EntrySoFar(f, d, i, t) = EntryOf(f, d, i + 1)
  <2>1. ASSUME NEW j
        PROVE  MentionedSoFar(f, d, i, t, j) = Mentioned(f, d, i + 1, NameOf(f, d, j))
    BY <1>0, <1>4
  <2> QED
    BY <2>1 DEF EntrySoFar, EntryOf
<1> QED
  BY <1>2, <1>3, <1>4

LEMMA DeclaredByIs ==
  ASSUME NEW f, NEW d, Importing(f, d), NEW n \in Nat
  PROVE  DeclaredBy(f, d, n) = Along(FirstMentions(f, d, n), EntryOf(f, d, n))
<1>1. PICK F, t : F = FirstMentions(f, d, n) /\ t = InOrder(F, <)
  OBVIOUS
<1>2. \A k \in DOMAIN t : t[k] \in Naming(f, d)
  <2>1. F \in SUBSET Nat /\ F \in SUBSET Naming(f, d) /\ IsFiniteSet(F)
    BY <1>1, FirstMentionsAre DEF Naming
  <2>2. F \in SUBSET Int
    BY <2>1
  <2>3. t \in Seq(F)
    BY <1>1, <2>1, <2>2, InOrderIs DEF Enumerates
  <2>4. \A k \in DOMAIN t : t[k] \in F
    BY <2>3
  <2> QED
    BY <2>1, <2>4
<1>3. DeclaredBy(f, d, n) =
        [k \in DOMAIN t |-> [name |-> The(NameOf(f, d, t[k])),
                             symbols |-> Texts(Mentioned(f, d, n, NameOf(f, d, t[k])))]]
  BY <1>1 DEF DeclaredBy
<1>4. PICK g : g = EntryOf(f, d, n)
  OBVIOUS
<1>5. \A k \in DOMAIN t :
        g[t[k]] = [name |-> The(NameOf(f, d, t[k])),
                   symbols |-> Texts(Mentioned(f, d, n, NameOf(f, d, t[k])))]
  BY <1>2, <1>4 DEF EntryOf
<1>6. Along(F, g) = [k \in DOMAIN t |-> g[t[k]]]
  BY <1>1 DEF Along
<1>7. DeclaredBy(f, d, n) = Along(F, g)
  BY <1>3, <1>5, <1>6
<1>8. F = FirstMentions(f, d, n)
  BY <1>1
<1> QED
  BY <1>4, <1>7, <1>8

LEMMA NothingDeclared ==
  ASSUME NEW f, NEW d, Importing(f, d)
  PROVE  DeclaredBy(f, d, 0) = <<>>
<1>1. FirstMentions(f, d, 0) = {}
  BY DEF FirstMentions
<1> QED
  BY <1>1, DeclaredByIs, AlongNothing

\* Typed, and which descriptor each library is of.
LibrariesOf(w, t, F, g) ==
  /\ w \in Seq(Library) /\ DOMAIN w = DOMAIN t
  /\ \A k \in DOMAIN w : t[k] \in F /\ w[k] = g[t[k]]
  /\ \A i \in F : \E k \in DOMAIN w : t[k] = i
  /\ \A j, k \in DOMAIN w : t[j] = t[k] => j = k

Ordered(F) == InOrder(F, <)

LEMMA LibrariesAre ==
  ASSUME NEW f, NEW d, Importing(f, d), NEW n \in Nat, NEW g \in [Naming(f, d) -> Library]
  PROVE  LibrariesOf(Along(FirstMentions(f, d, n), g), Ordered(FirstMentions(f, d, n)),
                     FirstMentions(f, d, n), g)
<1>0. PICK F, D : F = FirstMentions(f, d, n) /\ D = Naming(f, d)
  OBVIOUS
<1>1. PICK t, w : t = InOrder(F, <) /\ w = Along(F, g)
  OBVIOUS
<1>2. F \in SUBSET D /\ IsFiniteSet(F) /\ D \in SUBSET Int
  BY <1>0, FirstMentionsAre DEF Naming
<1>3. Follows(w, t, g, F, Library)
  BY <1>0, <1>1, <1>2, AlongIs
<1>4. PICK m \in Nat : m = Cardinality(F)
  BY <1>3 DEF Follows
<1>5. /\ w \in Seq(Library) /\ DOMAIN w = 1..m /\ t \in Seq(F) /\ DOMAIN t = 1..m
      /\ \A k \in 1..m : t[k] \in F /\ w[k] = g[t[k]]
      /\ \A i \in F : \E k \in 1..m : t[k] = i
      /\ \A j, k \in 1..m : t[j] = t[k] => j = k
  BY <1>3, <1>4 DEF Follows
<1>6. LibrariesOf(w, t, F, g)
  BY <1>5 DEF LibrariesOf
<1>7. w = Along(F, g) /\ t = Ordered(F)
  BY <1>1 DEF Ordered
<1> QED
  BY <1>0, <1>6, <1>7

\* A descriptor whose thunks have all been read.
LEMMA DeclaredAfter ==
  ASSUME NEW f, NEW d, Importing(f, d), NEW i \in Nat
  PROVE  DeclaredSoFar(f, d, i, SymbolsOf(f, d, i)) = DeclaredBy(f, d, i + 1)
<1>1. SymbolsOf(f, d, i) \in Seq(AnyText)
  BY SymbolsOfIs
<1>2. EntrySoFar(f, d, i, SymbolsOf(f, d, i)) = EntryOf(f, d, i + 1)
  BY <1>1, EntrySoFarIs
<1>3. i + 1 \in Nat
  OBVIOUS
<1>4. DeclaredBy(f, d, i + 1) = Along(FirstMentions(f, d, i + 1), EntryOf(f, d, i + 1))
  BY <1>3, DeclaredByIs
<1> QED
  BY <1>2, <1>4 DEF DeclaredSoFar

\* A descriptor without a name.
LEMMA DeclaredSkipping ==
  ASSUME NEW f, NEW d, Importing(f, d), NEW i \in Nat, NameOf(f, d, i) = None
  PROVE  DeclaredBy(f, d, i + 1) = DeclaredBy(f, d, i)
<1>1. PICK F, g, h : F = FirstMentions(f, d, i) /\ g = EntryOf(f, d, i) /\ h = EntryOf(f, d, i + 1)
  OBVIOUS
<1>2. i + 1 \in Nat
  OBVIOUS
<1>3. FirstMentions(f, d, i + 1) = F
  BY <1>1, FirstMentionsGrow
<1>4. F \in SUBSET Naming(f, d) /\ IsFiniteSet(F) /\ F \in SUBSET Int
  BY <1>1, FirstMentionsAre DEF Naming
<1>5. ASSUME NEW j \in F PROVE h[j] = g[j]
  <2>1. j \in Naming(f, d) /\ NameOf(f, d, i) # NameOf(f, d, j)
    BY <1>4 DEF Naming
  <2>2. Mentioned(f, d, i + 1, NameOf(f, d, j)) = Mentioned(f, d, i, NameOf(f, d, j))
    BY <2>1, MentionedGrows
  <2> QED
    BY <1>1, <2>1, <2>2 DEF EntryOf
<1>6. Along(F, h) = Along(F, g)
  BY <1>4, <1>5, AlongAgain
<1>7. DeclaredBy(f, d, i + 1) = Along(F, h)
  BY <1>1, <1>2, <1>3, DeclaredByIs
<1>8. DeclaredBy(f, d, i) = Along(F, g)
  BY <1>1, DeclaredByIs
<1> QED
  BY <1>6, <1>7, <1>8

LEMMA DeclaredByTyped ==
  ASSUME NEW f, NEW d, Importing(f, d), NEW n \in Nat
  PROVE  DeclaredBy(f, d, n) \in Seq(Library)
<1>1. PICK g : g = EntryOf(f, d, n)
  OBVIOUS
<1>2. g \in [Naming(f, d) -> Library]
  BY <1>1, EntryOfIs
<1>3. PICK t : LibrariesOf(Along(FirstMentions(f, d, n), g), t, FirstMentions(f, d, n), g)
  BY <1>2, LibrariesAre
<1>4. Along(FirstMentions(f, d, n), g) \in Seq(Library)
  BY <1>3 DEF LibrariesOf
<1> QED
  BY <1>1, <1>4, DeclaredByIs

\* A library that is declared is one of the list just when a descriptor named it.
LEMMA NamedIs ==
  ASSUME NEW f, NEW d, Importing(f, d), NEW n \in Nat, NEW name \in AnyText
  PROVE  Named(DeclaredBy(f, d, n), name) = {} <=> Mentions(f, d, n, Some(name)) = {}
<1>1. PICK F, g, w : F = FirstMentions(f, d, n) /\ g = EntryOf(f, d, n) /\ w = DeclaredBy(f, d, n)
  OBVIOUS
<1>2. g \in [Naming(f, d) -> Library] /\ w = Along(F, g) /\ F \in SUBSET Naming(f, d)
  BY <1>1, EntryOfIs, DeclaredByIs, FirstMentionsAre DEF Naming
<1>3. PICK t : LibrariesOf(w, t, F, g)
  BY <1>1, <1>2, LibrariesAre
<1>4. /\ \A k \in DOMAIN w : t[k] \in F /\ w[k] = g[t[k]]
      /\ \A i \in F : \E k \in DOMAIN w : t[k] = i
  BY <1>3 DEF LibrariesOf
<1>5. ASSUME NEW i \in F
      PROVE  g[i].name = The(NameOf(f, d, i)) /\ NameOf(f, d, i) = Some(g[i].name)
  <2>1. i \in Naming(f, d) /\ NameOf(f, d, i) # None
    BY <1>2 DEF Naming
  <2>2. g[i].name = The(NameOf(f, d, i))
    BY <1>1, <2>1 DEF EntryOf
  <2>3. NameOf(f, d, i) = Some(The(NameOf(f, d, i)))
    BY <2>1, NameOfIs
  <2> QED
    BY <2>2, <2>3
<1>6. ASSUME NEW k \in Named(w, name) PROVE Mentions(f, d, n, Some(name)) # {}
  <2>1. k \in DOMAIN w /\ w[k].name = name
    BY DEF Named
  <2>2. t[k] \in F /\ g[t[k]].name = name
    BY <1>4, <2>1
  <2>3. PICK i \in F : g[i].name = name
    BY <2>2
  <2>4. NameOf(f, d, i) = Some(name)
    BY <1>5, <2>3
  <2>5. i \in 0..(n - 1)
    BY <1>1 DEF FirstMentions
  <2> QED
    BY <2>4, <2>5 DEF Mentions
<1>7. ASSUME Mentions(f, d, n, Some(name)) # {} PROVE Named(w, name) # {}
  <2>1. Some(name) # None
    BY TheSome
  <2>2. PICK i \in F : NameOf(f, d, i) = Some(name)
    BY <1>1, <1>7, <2>1, FirstMentionExists
  <2>3. g[i].name = name
    BY <1>5, <2>2, TheSome
  <2>4. PICK k \in DOMAIN w : t[k] = i
    BY <1>4
  <2>5. w[k].name = name
    BY <1>4, <2>3, <2>4
  <2> QED
    BY <2>5 DEF Named
<1> QED
  BY <1>1, <1>6, <1>7

\* A name that is read is looked for in the list, and added if it is not there.
LEMMA DeclaredNaming ==
  ASSUME NEW f, NEW d, Importing(f, d), NEW i \in Nat, NEW name \in AnyText,
         NameOf(f, d, i) = Some(name)
  PROVE  DeclaredSoFar(f, d, i, <<>>) = FoundOrAdded(DeclaredBy(f, d, i), name)
<1>1. PICK F, g, w : F = FirstMentions(f, d, i) /\ g = EntryOf(f, d, i) /\ w = DeclaredBy(f, d, i)
  OBVIOUS
<1>2. g \in [Naming(f, d) -> Library] /\ w = Along(F, g)
  BY <1>1, EntryOfIs, DeclaredByIs
<1>3. F \in SUBSET Naming(f, d) /\ IsFiniteSet(F) /\ Naming(f, d) \in SUBSET Int
      /\ \A j \in F : j < i
  BY <1>1, FirstMentionsAre DEF Naming
<1>4. EntrySoFar(f, d, i, <<>>) = g
  <2>1. <<>> \in Seq(AnyText)
    OBVIOUS
  <2>2. PICK t : t = <<>> /\ t \in Seq(AnyText)
    BY <2>1
  <2>3. EntrySoFar(f, d, i, t) = EntryOf(f, d, i)
    BY <2>2, EntrySoFarIs
  <2> QED
    BY <1>1, <2>2, <2>3
<1>5. NameOf(f, d, i) # None /\ The(NameOf(f, d, i)) = name
  BY TheSome
<1>6. CASE Mentions(f, d, i, Some(name)) = {}
  <2>1. FirstMentions(f, d, i + 1) = F \cup {i}
    BY <1>1, <1>5, <1>6, FirstMentionsGrow
  <2>2. i \in Naming(f, d)
    BY <1>5 DEF Naming
  <2>3. Along(F \cup {i}, g) = Append(w, g[i])
    <3>1. PICK T : T = F \cup {i}
      OBVIOUS
    <3>2. Extends(T, F, i)
      BY <1>3, <3>1 DEF Extends
    <3>3. Along(T, g) = Append(Along(F, g), g[i])
      BY <1>2, <1>3, <2>2, <3>2, AlongGrows
    <3> QED
      BY <1>2, <3>1, <3>3
  <2>4. g[i] = [name |-> name, symbols |-> <<>>]
    <3>1. Mentioned(f, d, i, NameOf(f, d, i)) = <<>>
      BY <1>6, MentionedIs
    <3> QED
      BY <1>1, <1>5, <2>2, <3>1, NoTexts DEF EntryOf
  <2>5. Named(w, name) = {}
    BY <1>1, <1>6, NamedIs
  <2> QED
    BY <1>1, <1>4, <2>1, <2>3, <2>4, <2>5 DEF DeclaredSoFar, FoundOrAdded
<1>7. CASE Mentions(f, d, i, Some(name)) # {}
  <2>1. FirstMentions(f, d, i + 1) = F
    BY <1>1, <1>5, <1>7, FirstMentionsGrow
  <2>2. Named(w, name) # {}
    BY <1>1, <1>7, NamedIs
  <2> QED
    BY <1>1, <1>2, <1>4, <2>1, <2>2 DEF DeclaredSoFar, FoundOrAdded
<1> QED
  BY <1>6, <1>7

\* A symbol goes to the library whose thunks are being read.
LEMMA DeclaredReading ==
  ASSUME NEW f, NEW d, Importing(f, d), NEW i \in Nat, NEW name \in AnyText,
         NameOf(f, d, i) = Some(name), NEW t \in Seq(AnyText), NEW x \in AnyText,
         NEW w, w = DeclaredSoFar(f, d, i, t), NEW n \in DOMAIN w, w[n].name = name
  PROVE  /\ DeclaredSoFar(f, d, i, Append(t, x)) = [w EXCEPT ![n].symbols = AppendUnique(@, x)]
         /\ w \in Seq(Library)
<1>1. PICK F, g : F = FirstMentions(f, d, i + 1) /\ g = EntrySoFar(f, d, i, t)
  OBVIOUS
<1>2. PICK r : r = Append(t, x)
  OBVIOUS
<1>3. r \in Seq(AnyText)
  BY <1>2
<1>4. PICK h : h = EntrySoFar(f, d, i, r)
  OBVIOUS
<1>5. g \in [Naming(f, d) -> Library] /\ h \in [Naming(f, d) -> Library] /\ i + 1 \in Nat
  BY <1>1, <1>3, <1>4, EntrySoFarIs
<1>6. w = Along(F, g)
  BY <1>1 DEF DeclaredSoFar
<1>7. PICK o : o = Ordered(F) /\ LibrariesOf(w, o, F, g)
  BY <1>1, <1>5, <1>6, LibrariesAre
<1>8. PICK v : v = DeclaredSoFar(f, d, i, r)
  OBVIOUS
<1>9. v = Along(F, h)
  BY <1>1, <1>4, <1>8 DEF DeclaredSoFar
<1>10. F \in SUBSET Naming(f, d) /\ IsFiniteSet(F) /\ F \in SUBSET Int
  BY <1>1, <1>5, FirstMentionsAre DEF Naming
<1>11. /\ w \in Seq(Library) /\ DOMAIN w = DOMAIN o
       /\ \A k \in DOMAIN w : o[k] \in F /\ w[k] = g[o[k]]
       /\ \A j, k \in DOMAIN w : o[j] = o[k] => j = k
  BY <1>7 DEF LibrariesOf
<1>12. v \in Seq(Library) /\ DOMAIN v = DOMAIN o /\ \A k \in DOMAIN v : v[k] = h[o[k]]
  <2>1. LibrariesOf(v, o, F, h)
    BY <1>1, <1>5, <1>7, <1>9, LibrariesAre
  <2> QED
    BY <2>1 DEF LibrariesOf
<1>13. ASSUME NEW j \in F PROVE NameOf(f, d, j) = Some(g[j].name) /\ g[j] \in Library
  <2>1. j \in Naming(f, d) /\ NameOf(f, d, j) # None
    BY <1>10 DEF Naming
  <2>2. g[j].name = The(NameOf(f, d, j))
    BY <1>1, <2>1 DEF EntrySoFar
  <2>3. NameOf(f, d, j) = Some(The(NameOf(f, d, j)))
    BY <2>1, NameOfIs
  <2> QED
    BY <1>5, <2>1, <2>2, <2>3
<1>14. ASSUME NEW j \in F, NameOf(f, d, j) # NameOf(f, d, i) PROVE h[j] = g[j]
  <2>1. j \in Naming(f, d)
    BY <1>10
  <2>2. MentionedSoFar(f, d, i, r, j) = MentionedSoFar(f, d, i, t, j)
    BY <1>14 DEF MentionedSoFar
  <2> QED
    BY <1>1, <1>4, <2>1, <2>2 DEF EntrySoFar
<1>15. ASSUME NEW j \in F, NameOf(f, d, j) = NameOf(f, d, i)
       PROVE  h[j] = [g[j] EXCEPT !.symbols = AppendUnique(@, x)]
  <2>1. j \in Naming(f, d)
    BY <1>10
  <2>2. PICK s : s = Mentioned(f, d, i, NameOf(f, d, j))
    OBVIOUS
  <2>3. s \in Seq(AnyText)
    BY <2>2, MentionedIs
  <2>4. MentionedSoFar(f, d, i, t, j) = s \o t /\ MentionedSoFar(f, d, i, r, j) = s \o r
    BY <1>15, <2>2 DEF MentionedSoFar
  <2>5. s \o r = Append(s \o t, x) /\ s \o t \in Seq(AnyText)
    BY <1>2, <2>3
  <2>6. Texts(MentionedSoFar(f, d, i, r, j)) = AppendUnique(Texts(MentionedSoFar(f, d, i, t, j)), x)
    BY <2>4, <2>5, TextsGrow
  <2>7. g[j] = [name |-> The(NameOf(f, d, j)), symbols |-> Texts(MentionedSoFar(f, d, i, t, j))]
    BY <1>1, <2>1 DEF EntrySoFar
  <2>8. h[j] = [name |-> The(NameOf(f, d, j)), symbols |-> Texts(MentionedSoFar(f, d, i, r, j))]
    BY <1>4, <2>1 DEF EntrySoFar
  <2> QED
    BY <2>6, <2>7, <2>8
<1>16. NameOf(f, d, o[n]) = NameOf(f, d, i)
  BY <1>11, <1>13
<1>17. ASSUME NEW k \in DOMAIN w, k # n PROVE v[k] = w[k]
  <2>1. o[k] \in F /\ o[n] \in F /\ o[k] # o[n]
    BY <1>11, <1>17
  <2>2. NameOf(f, d, o[k]) # NameOf(f, d, i)
    BY <1>1, <1>5, <1>16, <2>1, FirstMentionIsOne
  <2> QED
    BY <1>11, <1>12, <1>14, <2>1, <2>2
<1>18. v[n] = [w[n] EXCEPT !.symbols = AppendUnique(@, x)]
  <2>1. o[n] \in F /\ w[n] = g[o[n]] /\ v[n] = h[o[n]]
    BY <1>11, <1>12
  <2> QED
    BY <1>15, <1>16, <2>1
<1>19. v = [w EXCEPT ![n].symbols = AppendUnique(@, x)]
  <2>1. PICK y : y = [w[n] EXCEPT !.symbols = AppendUnique(@, x)]
    OBVIOUS
  <2>2. v = [k \in DOMAIN w |-> IF k = n THEN y ELSE w[k]]
    BY <1>11, <1>12, <1>17, <1>18, <2>1
  <2>3. [w EXCEPT ![n].symbols = AppendUnique(@, x)] = [w EXCEPT ![n] = y]
    BY <2>1
  <2> QED
    BY <1>11, <2>2, <2>3
<1> QED
  BY <1>2, <1>8, <1>11, <1>19

-----------------------------------------------------------------------------
\* Where the collector stands in a directory: at descriptor i, with its
\* pointers p once they are read, at thunk offset o of library l of the list.

NoneEnds(f, d, i) == \A j \in 0..(i - 1) : ~Ends(f, d, j)

\* The thunks of descriptor i are being read, and m of them have been.
ReadsThunks(f, d, i, m, l, o, list) ==
  /\ NameOf(f, d, i) # None /\ FirstThunk(f, d, i) # None
  /\ l \in DOMAIN list /\ list[l].name = The(NameOf(f, d, i))
  /\ o = The(FirstThunk(f, d, i)) + m * f.thunkSize
  /\ ThunksThere(f, d, i, m)
  /\ list = DeclaredSoFar(f, d, i, SymbolsRead(f, d, i, m))

Reads(f, d, i, p, l, o, list) ==
  /\ NoneEnds(f, d, i)
  /\ i # 0 \/ p # None \/ l # 0 => f.headersOk /\ Usable(f, d)
  /\ p # None \/ l # 0 => ~Ends(f, d, i)
  /\ p # None => p = Some(Pointers(f, d, i)) /\ l = 0
  /\ l = 0 => list = DeclaredBy(f, d, i)
  /\ l # 0 => \E m \in Nat : ReadsThunks(f, d, i, m, l, o, list)

LEMMA NoneEndsGrows ==
  ASSUME NEW f, NEW d, NEW i \in Nat, NoneEnds(f, d, i), ~Ends(f, d, i)
  PROVE  NoneEnds(f, d, i + 1)
<1>1. \A j \in 0..((i + 1) - 1) : j \in 0..(i - 1) \/ j = i
  OBVIOUS
<1> QED
  BY <1>1 DEF NoneEnds

LEMMA ReadsFirst ==
  ASSUME NEW f, NEW d, Importing(f, d), NEW o
  PROVE  Reads(f, d, 0, None, 0, o, <<>>)
<1>1. NoneEnds(f, d, 0)
  BY DEF NoneEnds
<1> QED
  BY <1>1, NothingDeclared DEF Reads

LEMMA ReadsPointers ==
  ASSUME NEW f, NEW d, Importing(f, d), NEW i \in Nat, NEW o, NEW list,
         Reads(f, d, i, None, 0, o, list), f.headersOk, Usable(f, d), ~Ends(f, d, i)
  PROVE  Reads(f, d, i, Some(Pointers(f, d, i)), 0, o, list)
BY DEF Reads

LEMMA ReadsSkipped ==
  ASSUME NEW f, NEW d, Importing(f, d), NEW i \in Nat, NEW p, NEW o, NEW list, p # None,
         Reads(f, d, i, p, 0, o, list), NameOf(f, d, i) = None
  PROVE  Reads(f, d, i + 1, None, 0, o, list)
<1>1. /\ NoneEnds(f, d, i) /\ f.headersOk /\ Usable(f, d) /\ ~Ends(f, d, i)
      /\ list = DeclaredBy(f, d, i)
  BY DEF Reads
<1>2. NoneEnds(f, d, i + 1)
  BY <1>1, NoneEndsGrows
<1>3. list = DeclaredBy(f, d, i + 1)
  BY <1>1, DeclaredSkipping
<1> QED
  BY <1>1, <1>2, <1>3 DEF Reads

LEMMA ReadsLibrary ==
  ASSUME NEW f, NEW d, Importing(f, d), NEW i \in Nat, NEW p, NEW o, NEW list, p # None,
         Reads(f, d, i, p, 0, o, list), NEW name \in AnyText, NameOf(f, d, i) = Some(name),
         NEW r, r = FoundOrAdded(list, name)
  PROVE  /\ FirstThunk(f, d, i) = None => Reads(f, d, i + 1, None, 0, o, r)
         /\ FirstThunk(f, d, i) # None =>
              Reads(f, d, i, None, Lowest(Named(r, name)), The(FirstThunk(f, d, i)), r)
<1>1. /\ NoneEnds(f, d, i) /\ f.headersOk /\ Usable(f, d) /\ ~Ends(f, d, i)
      /\ list = DeclaredBy(f, d, i)
  BY DEF Reads
<1>2. r = DeclaredSoFar(f, d, i, <<>>)
  BY <1>1, DeclaredNaming
<1>3. CASE FirstThunk(f, d, i) = None
  <2>1. NoneEnds(f, d, i + 1)
    BY <1>1, NoneEndsGrows
  <2>2. SymbolsOf(f, d, i) = <<>>
    BY <1>3, SymbolsOfIs
  <2>3. r = DeclaredBy(f, d, i + 1)
    BY <1>2, <2>2, DeclaredAfter
  <2> QED
    BY <1>1, <1>3, <2>1, <2>3 DEF Reads
<1>4. CASE FirstThunk(f, d, i) # None
  <2>1. PICK l : l = Lowest(Named(r, name))
    OBVIOUS
  <2>2. list \in Seq(Library)
    BY <1>1, DeclaredByTyped
  <2>3. /\ r \in Seq(Library) /\ Named(r, name) \in SUBSET (1..Len(r)) /\ Named(r, name) # {}
        /\ l \in 1..Len(r)
    BY <2>1, <2>2, FoundOrAddedIs
  <2>4. l \in Named(r, name)
    <3>1. Named(r, name) \in SUBSET Nat
      BY <2>3
    <3> QED
      BY <2>1, <2>3, <3>1, LowestIs
  <2>5. l \in DOMAIN r /\ r[l].name = The(NameOf(f, d, i)) /\ l # 0
    BY <2>3, <2>4, TheSome DEF Named
  <2>6. ThunksThere(f, d, i, 0)
    BY DEF ThunksThere
  <2>7. SymbolsRead(f, d, i, 0) = <<>>
    BY <1>4, <2>6, SymbolsReadAre
  <2>8. PICK b \in Nat : b = The(FirstThunk(f, d, i))
    BY <1>4, FirstThunkIs
  <2>9. b = b + 0 * f.thunkSize
    BY DEF Importing, HasImports
  <2>10. NameOf(f, d, i) # None
    BY TheSome
  <2>11. ReadsThunks(f, d, i, 0, l, b, r)
    BY <1>2, <1>4, <2>5, <2>6, <2>7, <2>8, <2>9, <2>10 DEF ReadsThunks
  <2>12. Reads(f, d, i, None, l, b, r)
    BY <1>1, <2>5, <2>11 DEF Reads
  <2> QED
    BY <1>4, <2>1, <2>8, <2>12
<1> QED
  BY <1>3, <1>4

LEMMA ReadsThunk ==
  ASSUME NEW f, NEW d, Importing(f, d), NEW i \in Nat, NEW l, NEW o, NEW list, l # 0,
         Reads(f, d, i, None, l, o, list), NEW t \in Thunk, ThunkAt(f, o) = Some(t)
  PROVE  /\ Reads(f, d, i, None, l, o + f.thunkSize,
                  [list EXCEPT ![l].symbols = AppendUnique(@, SymbolOf(f, t))])
         /\ l \in DOMAIN list
<1>1. PICK m \in Nat : ReadsThunks(f, d, i, m, l, o, list)
  BY DEF Reads
<1>2. /\ NameOf(f, d, i) # None /\ FirstThunk(f, d, i) # None
      /\ l \in DOMAIN list /\ list[l].name = The(NameOf(f, d, i))
      /\ o = The(FirstThunk(f, d, i)) + m * f.thunkSize
      /\ ThunksThere(f, d, i, m)
      /\ list = DeclaredSoFar(f, d, i, SymbolsRead(f, d, i, m))
  BY <1>1 DEF ReadsThunks
<1>3. ThunkNo(f, d, i, m) = Some(t)
  BY <1>2 DEF ThunkNo
<1>4. PICK s, x : s = SymbolsRead(f, d, i, m) /\ x = SymbolOf(f, t)
  OBVIOUS
<1>5. s \in Seq(AnyText) /\ x \in AnyText
  BY <1>2, <1>4, SymbolsReadAre, SymbolIs DEF Importing
<1>6. ThunksThere(f, d, i, m + 1) /\ SymbolsRead(f, d, i, m + 1) = Append(s, x)
  BY <1>2, <1>3, <1>4, OneMoreSymbol
<1>7. PICK name \in AnyText : NameOf(f, d, i) = Some(name) /\ name = The(NameOf(f, d, i))
  BY <1>2, NameOfIs
<1>8. PICK r : r = [list EXCEPT ![l].symbols = AppendUnique(@, x)]
  OBVIOUS
<1>9. DeclaredSoFar(f, d, i, Append(s, x)) = r /\ list \in Seq(Library)
  BY <1>2, <1>4, <1>5, <1>7, <1>8, DeclaredReading
<1>10. l \in DOMAIN r /\ r[l].name = name
  <2>1. list[l] \in Library
    BY <1>2, <1>9
  <2> QED
    BY <1>2, <1>7, <1>8, <1>9, <2>1 DEF Library
<1>11. PICK b \in Nat, ts \in Nat \ {0} : b = The(FirstThunk(f, d, i)) /\ ts = f.thunkSize
  BY <1>2, FirstThunkIs DEF Importing, HasImports
<1>12. o + ts = b + (m + 1) * ts
  <2>1. m * ts \in Nat /\ (m + 1) * ts = m * ts + ts
    BY Products
  <2> QED
    BY <1>2, <1>11, <2>1
<1>13. m + 1 \in Nat
  OBVIOUS
<1>14. ReadsThunks(f, d, i, m + 1, l, o + ts, r)
  BY <1>2, <1>6, <1>7, <1>9, <1>10, <1>11, <1>12 DEF ReadsThunks
<1>15. Reads(f, d, i, None, l, o + ts, r)
  BY <1>13, <1>14 DEF Reads
<1> QED
  BY <1>2, <1>4, <1>8, <1>11, <1>15

LEMMA ReadsAll ==
  ASSUME NEW f, NEW d, Importing(f, d), NEW i \in Nat, NEW l, NEW o, NEW list, l # 0,
         Reads(f, d, i, None, l, o, list), ThunkAt(f, o) = None
  PROVE  Reads(f, d, i + 1, None, 0, o, list)
<1>1. PICK m \in Nat : ReadsThunks(f, d, i, m, l, o, list)
  BY DEF Reads
<1>2. /\ FirstThunk(f, d, i) # None
      /\ o = The(FirstThunk(f, d, i)) + m * f.thunkSize
      /\ ThunksThere(f, d, i, m)
      /\ list = DeclaredSoFar(f, d, i, SymbolsRead(f, d, i, m))
  BY <1>1 DEF ReadsThunks
<1>3. ThunkNo(f, d, i, m) = None
  BY <1>2 DEF ThunkNo
<1>4. SymbolsOf(f, d, i) = SymbolsRead(f, d, i, m)
  BY <1>2, <1>3, AllSymbolsRead
<1>5. list = DeclaredBy(f, d, i + 1)
  BY <1>2, <1>4, DeclaredAfter
<1>6. NoneEnds(f, d, i) /\ f.headersOk /\ Usable(f, d) /\ ~Ends(f, d, i)
  BY DEF Reads
<1>7. NoneEnds(f, d, i + 1)
  BY <1>6, NoneEndsGrows
<1> QED
  BY <1>5, <1>6, <1>7 DEF Reads

LEMMA ReadsWhole ==
  ASSUME NEW f, NEW d, Importing(f, d), NEW i \in Nat, NEW o, NEW list,
         Reads(f, d, i, None, 0, o, list), f.headersOk /\ Usable(f, d) => Ends(f, d, i)
  PROVE  list = Declared(f, d)
<1>1. NoneEnds(f, d, i) /\ (i # 0 => f.headersOk /\ Usable(f, d)) /\ list = DeclaredBy(f, d, i)
  BY DEF Reads
<1>2. CASE f.headersOk /\ Usable(f, d)
  <2>1. PICK q \in Nat : q = f[d].size \div DescriptorSize(d)
    <3>1. f[d].size \in Nat /\ DescriptorSize(d) \in Nat \ {0}
      BY DEF Importing, HasImports, DescriptorSize
    <3>2. f[d].size \div DescriptorSize(d) \in Nat
      BY <3>1
    <3> QED
      BY <3>2
  <2>2. PICK L : L = {n \in 0..q : Ends(f, d, n)}
    OBVIOUS
  <2>3. i <= q
    <3>1. CASE i = 0
      BY <2>1, <3>1
    <3>2. CASE i # 0
      <4>1. PICK j \in Nat : i = j + 1 /\ j \in 0..(i - 1)
        <5>1. i - 1 \in Nat /\ i = (i - 1) + 1 /\ i - 1 \in 0..(i - 1)
          BY <3>2
        <5> QED
          BY <5>1
      <4>2. ~Ends(f, d, j)
        BY <1>1, <4>1 DEF NoneEnds
      <4>3. ~(j >= q)
        BY <2>1, <4>2 DEF Ends
      <4> QED
        BY <4>1, <4>3
    <3> QED
      BY <3>1, <3>2
  <2>4. i \in L /\ L \in SUBSET Nat
    BY <1>2, <2>2, <2>3
  <2>5. Lowest(L) \in L /\ Lowest(L) <= i
    BY <2>4, LowestIs
  <2>6. ~(Lowest(L) < i)
    <3>1. PICK n \in Nat : n = Lowest(L) /\ Ends(f, d, n)
      BY <2>2, <2>4, <2>5
    <3>2. n < i => n \in 0..(i - 1)
      OBVIOUS
    <3> QED
      BY <1>1, <3>1, <3>2 DEF NoneEnds
  <2>7. Lowest(L) = i
    <3>1. PICK n \in Nat : n = Lowest(L)
      BY <2>4, <2>5
    <3> QED
      BY <2>5, <2>6, <3>1
  <2>8. DescriptorCount(f, d) = i
    BY <1>2, <2>1, <2>2, <2>7 DEF DescriptorCount
  <2> QED
    BY <1>1, <2>8 DEF Declared
<1>3. CASE ~(f.headersOk /\ Usable(f, d))
  <2>1. DescriptorCount(f, d) = i
    BY <1>1, <1>3 DEF DescriptorCount
  <2> QED
    BY <1>1, <2>1 DEF Declared
<1> QED
  BY <1>2, <1>3

-----------------------------------------------------------------------------
\* The import lists of the report.

Before == {"allocate", "sections", "strings", "read"}

\* The directories were read to their end, and not since memory ran out.
ImportsDone ==
  \/ pc \in {"resources", "walk"} \/ isPe
  \/ file.kind = "pe" /\ (pc \in {"overlay", "signatures", "hints"} \/ enriched)

ImportsAre(f, l) == \A d \in Directories : l[d] = Declared(f, d)

ImportsWhole ==
  /\ pc \in Directories => Reads(file, pc, descriptor, pointers, library, thunk, lists[pc])
  /\ pc \in Before => lists["imports"] = <<>>
  /\ pc \in Before \cup {"imports"} => lists["delayed"] = <<>>
  /\ pc = "delayed" => lists["imports"] = Declared(file, "imports")
  /\ pc = "exports" \/ ImportsDone => ImportsAre(file, lists)
  /\ ImportsDone => (isPe <=> (exports # 0 \/ \E d \in Directories : lists[d] # <<>>))
  /\ isPe => /\ file.kind = "pe"
             /\ pc \in {"resources", "walk", "overlay", "signatures", "hints", "reported"}

LEMMA ImportsWholeInit == Init => ImportsWhole
<1> SUFFICES ASSUME Init PROVE ImportsWhole
  OBVIOUS
<1>1. pc = "allocate" /\ ~isPe /\ ~enriched
  BY DEF Init, ImportsInit
<1>2. lists["imports"] = <<>> /\ lists["delayed"] = <<>>
  BY DEF Init, ImportsInit, Directories
<1> QED
  BY <1>1, <1>2 DEF ImportsWhole, ImportsDone, Directories

LEMMA ImportsStart ==
  ASSUME CaseInv, file.kind = "pe", NEW d \in Directories
  PROVE  Importing(file, d)
BY CaseFacts DEF Importing

\* A step within a directory.
LEMMA DirectoryStep ==
  ASSUME ResourcesInv, ImportsWhole, NEW d \in Directories, pc = d, pc' = d, file' = file,
         isPe' = isPe, enriched' = enriched,
         \A e \in Directories : e = d \/ lists'[e] = lists[e],
         Reads(file, d, descriptor', pointers', library', thunk', lists'[d])
  PROVE  ImportsWhole'
<1>1. ~isPe /\ ~enriched /\ d \in {"imports", "delayed"}
  BY DEF ImportsWhole, ResourcesInv, Directories
<1>2. ~ImportsDone' /\ ~isPe'
  BY <1>1 DEF ImportsDone
<1>3. pc' \in Directories => Reads(file', pc', descriptor', pointers', library', thunk', lists'[pc'])
  OBVIOUS
<1>4. /\ pc' \in Before \cup {"imports"} => lists'["delayed"] = <<>>
      /\ pc' = "delayed" => lists'["imports"] = Declared(file', "imports")
  <2>1. CASE d = "imports"
    <3>1. lists["delayed"] = <<>>
      BY <2>1 DEF ImportsWhole
    <3> QED
      BY <2>1, <3>1 DEF Directories
  <2>2. CASE d = "delayed"
    <3>1. lists["imports"] = Declared(file, "imports")
      BY <2>2 DEF ImportsWhole
    <3> QED
      BY <2>2, <3>1 DEF Directories, Before
  <2> QED
    BY <1>1, <2>1, <2>2
<1>5. pc' \notin Before /\ pc' # "exports"
  BY <1>1 DEF Before
<1> QED
  BY <1>2, <1>3, <1>4, <1>5 DEF ImportsWhole

LEMMA DirectoryFacts ==
  ASSUME CaseInv, ResourcesInv, ImportsTyped, ImportsWhole, NEW d \in Directories, pc = d
  PROVE  /\ Importing(file, d) /\ file.kind = "pe" /\ descriptor \in Nat
         /\ lists \in [Directories -> Seq(Library)]
         /\ Reads(file, d, descriptor, pointers, library, thunk, lists[d])
         /\ ~isPe /\ ~enriched
<1>1. file.kind = "pe"
  BY ImportsFacts
<1>2. ~isPe /\ ~enriched
  BY DEF ImportsWhole, ResourcesInv, Directories
<1> QED
  BY <1>1, <1>2, ImportsStart DEF ImportsWhole, ImportsTyped

LEMMA ReadDescriptorStep ==
  ASSUME CaseInv, ResourcesInv, ImportsTyped, ImportsWhole, enriched' = enriched,
         NEW d \in Directories, ReadDescriptor(d)
  PROVE  ImportsWhole'
<1>1. /\ pc = d /\ pc' = pc /\ library = 0 /\ pointers = None /\ file' = file
      /\ file.headersOk /\ Usable(file, d) /\ ~Ends(file, d, descriptor)
      /\ pointers' = Some(Pointers(file, d, descriptor))
      /\ UNCHANGED <<lists, descriptor, library, thunk, isPe>>
  BY DEF ReadDescriptor
<1>2. Reads(file, d, descriptor, Some(Pointers(file, d, descriptor)), 0, thunk, lists[d])
  BY <1>1, DirectoryFacts, ReadsPointers
<1> QED
  BY <1>1, <1>2, DirectoryStep

LEMMA SkipDescriptorStep ==
  ASSUME CaseInv, ResourcesInv, ImportsTyped, ImportsWhole, enriched' = enriched,
         NEW d \in Directories, SkipDescriptor(d)
  PROVE  ImportsWhole'
<1>1. /\ pc = d /\ pc' = pc /\ library = 0 /\ file' = file
      /\ descriptor' = descriptor + 1 /\ pointers' = None
      /\ UNCHANGED <<lists, library, thunk, isPe>>
  BY DEF SkipDescriptor
<1>2. PICK p \in pointers : TextAt(file, p.name, 0) = None
  BY DEF SkipDescriptor
<1>3. /\ Importing(file, d) /\ descriptor \in Nat
      /\ Reads(file, d, descriptor, pointers, 0, thunk, lists[d])
  BY <1>1, DirectoryFacts
<1>4. pointers # None /\ pointers = Some(Pointers(file, d, descriptor))
  BY <1>2, <1>3 DEF Reads, None
<1>5. NameOf(file, d, descriptor) = None
  BY <1>2, <1>4 DEF NameOf, Some
<1>6. Reads(file, d, descriptor + 1, None, 0, thunk, lists[d])
  BY <1>3, <1>4, <1>5, ReadsSkipped
<1> QED
  BY <1>1, <1>6, DirectoryStep

LEMMA TakeLibraryStep ==
  ASSUME CaseInv, ResourcesInv, ImportsTyped, ImportsWhole, enriched' = enriched,
         NEW d \in Directories, TakeLibrary(d)
  PROVE  ImportsWhole'
<1>1. pc = d /\ pc' = pc /\ library = 0 /\ file' = file /\ pointers' = None /\ isPe' = isPe
  BY DEF TakeLibrary
<1>2. PICK p \in pointers : \E name \in TextAt(file, p.name, 0) :
        LET list  == FoundOrAdded(lists[d], name)
            begin == ThunksAt(file, p.thunk)
        IN  /\ lists' = [lists EXCEPT ![d] = list]
            /\ IF begin = None
               THEN descriptor' = descriptor + 1 /\ UNCHANGED <<library, thunk>>
               ELSE /\ library' = Lowest(Named(list, name))
                    /\ thunk' = The(begin)
                    /\ UNCHANGED descriptor
  BY DEF TakeLibrary
<1>3. PICK name \in TextAt(file, p.name, 0) :
        LET list  == FoundOrAdded(lists[d], name)
            begin == ThunksAt(file, p.thunk)
        IN  /\ lists' = [lists EXCEPT ![d] = list]
            /\ IF begin = None
               THEN descriptor' = descriptor + 1 /\ UNCHANGED <<library, thunk>>
               ELSE /\ library' = Lowest(Named(list, name))
                    /\ thunk' = The(begin)
                    /\ UNCHANGED descriptor
  BY <1>2
<1>4. /\ Importing(file, d) /\ descriptor \in Nat /\ lists \in [Directories -> Seq(Library)]
      /\ Reads(file, d, descriptor, pointers, 0, thunk, lists[d])
  BY <1>1, DirectoryFacts
<1>5. pointers # None /\ pointers = Some(Pointers(file, d, descriptor))
  BY <1>4 DEF Reads, None
<1>6. p = Pointers(file, d, descriptor)
  BY <1>5 DEF Some
<1>7. /\ name \in NameOf(file, d, descriptor)
      /\ ThunksAt(file, p.thunk) = FirstThunk(file, d, descriptor)
  BY <1>6 DEF NameOf, FirstThunk
<1>8. name \in AnyText /\ NameOf(file, d, descriptor) = Some(name)
  <2>1. NameOf(file, d, descriptor) # None
    BY <1>7 DEF None
  <2>2. PICK x \in AnyText : NameOf(file, d, descriptor) = Some(x)
    BY <1>4, <2>1, NameOfIs
  <2> QED
    BY <1>7, <2>2 DEF Some
<1>9. PICK r : r = FoundOrAdded(lists[d], name)
  OBVIOUS
<1>10. /\ FirstThunk(file, d, descriptor) = None =>
            Reads(file, d, descriptor + 1, None, 0, thunk, r)
       /\ FirstThunk(file, d, descriptor) # None =>
            Reads(file, d, descriptor, None, Lowest(Named(r, name)),
                  The(FirstThunk(file, d, descriptor)), r)
  BY <1>4, <1>5, <1>8, <1>9, ReadsLibrary
<1>11. /\ lists' = [lists EXCEPT ![d] = r]
       /\ FirstThunk(file, d, descriptor) = None =>
            descriptor' = descriptor + 1 /\ library' = 0 /\ thunk' = thunk
       /\ FirstThunk(file, d, descriptor) # None =>
            /\ library' = Lowest(Named(r, name)) /\ descriptor' = descriptor
            /\ thunk' = The(FirstThunk(file, d, descriptor))
  BY <1>1, <1>3, <1>7, <1>9
<1>12. lists'[d] = r /\ \A e \in Directories : e = d \/ lists'[e] = lists[e]
  BY <1>4, <1>11
<1>13. Reads(file, d, descriptor', pointers', library', thunk', lists'[d])
  BY <1>1, <1>10, <1>11, <1>12
<1> QED
  BY <1>1, <1>12, <1>13, DirectoryStep

LEMMA TakeThunkStep ==
  ASSUME CaseInv, ResourcesInv, ImportsTyped, ImportsWhole, enriched' = enriched,
         NEW d \in Directories, TakeThunk(d)
  PROVE  ImportsWhole'
<1>1. /\ pc = d /\ pc' = pc /\ library # 0 /\ file' = file /\ thunk' = thunk + file.thunkSize
      /\ UNCHANGED <<descriptor, pointers, library, isPe>>
  BY DEF TakeThunk
<1>2. PICK t \in ThunkAt(file, thunk) :
        lists' = [lists EXCEPT ![d][library].symbols = AppendUnique(@, SymbolOf(file, t))]
  BY DEF TakeThunk
<1>3. /\ Importing(file, d) /\ descriptor \in Nat /\ lists \in [Directories -> Seq(Library)]
      /\ Reads(file, d, descriptor, pointers, library, thunk, lists[d])
  BY <1>1, DirectoryFacts
<1>4. pointers = None
  BY <1>1, <1>3 DEF Reads
<1>5. t \in Thunk /\ ThunkAt(file, thunk) = Some(t)
  <2>1. ThunkAt(file, thunk) # None
    BY <1>2 DEF None
  <2>2. PICK x \in Thunk : ThunkAt(file, thunk) = Some(x)
    BY <1>3, <2>1, ThunkAtIs DEF Importing
  <2> QED
    BY <1>2, <2>2 DEF Some
<1>6. PICK list : list = lists[d]
  OBVIOUS
<1>7. PICK r : r = [list EXCEPT ![library].symbols = AppendUnique(@, SymbolOf(file, t))]
  OBVIOUS
<1>8. Reads(file, d, descriptor, None, library, thunk + file.thunkSize, r)
  BY <1>1, <1>3, <1>4, <1>5, <1>6, <1>7, ReadsThunk
<1>9. lists' = [lists EXCEPT ![d] = r]
  BY <1>2, <1>3, <1>6, <1>7
<1>10. lists'[d] = r /\ \A e \in Directories : e = d \/ lists'[e] = lists[e]
  BY <1>3, <1>9
<1> QED
  BY <1>1, <1>4, <1>8, <1>10, DirectoryStep

LEMMA EndThunksStep ==
  ASSUME CaseInv, ResourcesInv, ImportsTyped, ImportsWhole, enriched' = enriched,
         NEW d \in Directories, EndThunks(d)
  PROVE  ImportsWhole'
<1>1. /\ pc = d /\ pc' = pc /\ library # 0 /\ file' = file /\ library' = 0
      /\ descriptor' = descriptor + 1 /\ ThunkAt(file, thunk) = None
      /\ UNCHANGED <<lists, pointers, thunk, isPe>>
  BY DEF EndThunks
<1>2. /\ Importing(file, d) /\ descriptor \in Nat
      /\ Reads(file, d, descriptor, pointers, library, thunk, lists[d])
  BY <1>1, DirectoryFacts
<1>3. pointers = None
  BY <1>1, <1>2 DEF Reads
<1>4. Reads(file, d, descriptor + 1, None, 0, thunk, lists[d])
  BY <1>1, <1>2, <1>3, ReadsAll
<1> QED
  BY <1>1, <1>3, <1>4, DirectoryStep

LEMMA EndImportsStep ==
  ASSUME CaseInv, ResourcesInv, ImportsTyped, ImportsWhole, enriched' = enriched,
         NEW d \in Directories, EndImports(d)
  PROVE  ImportsWhole'
<1>1. /\ pc = d /\ library = 0 /\ pointers = None /\ file' = file
      /\ file.headersOk /\ Usable(file, d) => Ends(file, d, descriptor)
      /\ descriptor' = 0 /\ pc' = IF d = "imports" THEN "delayed" ELSE "exports"
      /\ UNCHANGED <<lists, pointers, library, thunk, isPe>>
  BY DEF EndImports
<1>2. /\ Importing(file, d) /\ file.kind = "pe" /\ descriptor \in Nat
      /\ Reads(file, d, descriptor, None, 0, thunk, lists[d])
      /\ ~isPe /\ ~enriched
  BY <1>1, DirectoryFacts
<1>3. lists[d] = Declared(file, d)
  BY <1>1, <1>2, ReadsWhole
<1>4. d \in {"imports", "delayed"}
  BY DEF Directories
<1>5. ~ImportsDone' /\ ~isPe'
  BY <1>1, <1>2 DEF ImportsDone
<1>6. CASE d = "imports"
  <2>1. pc' = "delayed" /\ "delayed" \in Directories
    BY <1>1, <1>6 DEF Directories
  <2>2. lists["delayed"] = <<>>
    BY <1>1, <1>6 DEF ImportsWhole
  <2>3. Importing(file, "delayed")
    BY <1>2, <2>1, ImportsStart
  <2>4. Reads(file, "delayed", 0, None, 0, thunk, <<>>)
    BY <2>3, ReadsFirst
  <2>5. Reads(file', pc', descriptor', pointers', library', thunk', lists'[pc'])
    BY <1>1, <2>1, <2>2, <2>4
  <2> QED
    BY <1>1, <1>3, <1>5, <1>6, <2>1, <2>5 DEF ImportsWhole, Before
<1>7. CASE d = "delayed"
  <2>1. pc' = "exports" /\ "exports" \notin Directories
    BY <1>1, <1>7 DEF Directories
  <2>2. lists["imports"] = Declared(file, "imports")
    BY <1>1, <1>7 DEF ImportsWhole
  <2>3. ImportsAre(file', lists')
    BY <1>1, <1>3, <1>7, <2>2 DEF ImportsAre, Directories
  <2> QED
    BY <1>5, <2>1, <2>3 DEF ImportsWhole, Before
<1> QED
  BY <1>4, <1>6, <1>7

LEMMA CountExportsStep ==
  ASSUME CaseInv, ResourcesInv, ImportsTyped, ImportsWhole, enriched' = enriched, CountExports
  PROVE  ImportsWhole'
<1>1. /\ pc = "exports" /\ pc' = "resources" /\ file' = file /\ lists' = lists
      /\ isPe' = (exports' # 0 \/ \E d \in Directories : lists[d] # <<>>)
  BY DEF CountExports
<1>2. file.kind = "pe"
  BY <1>1, ImportsFacts
<1>3. ImportsAre(file', lists')
  BY <1>1 DEF ImportsWhole
<1>4. isPe' <=> (exports' # 0 \/ \E d \in Directories : lists'[d] # <<>>)
  BY <1>1
<1>5. pc' \notin Directories /\ pc' \notin Before \cup {"imports"} /\ pc' # "delayed"
  BY <1>1 DEF Directories, Before
<1> QED
  BY <1>1, <1>2, <1>3, <1>4, <1>5 DEF ImportsWhole

LEMMA ImportsOutOfMemoryStep ==
  ASSUME CaseInv, ResourcesInv, ImportsTyped, ImportsWhole, enriched' = enriched,
         NEW d \in Directories, LibraryOutOfMemory(d) \/ ThunkOutOfMemory(d)
  PROVE  ImportsWhole'
<1>1. pc = d /\ pc' = "reported" /\ isPe' = isPe
  BY DEF LibraryOutOfMemory, ThunkOutOfMemory, importVars
<1>2. ~isPe' /\ ~enriched'
  BY <1>1, DirectoryFacts
<1> QED
  BY <1>1, <1>2 DEF ImportsWhole, ImportsDone, Directories, Before

\* The steps outside the import collector.
Moves ==
  \/ pc' = pc /\ enriched' = enriched
  \/ /\ enriched' = enriched
     /\ \/ pc \in Before /\ pc' \in Before \cup {"failed"}
        \/ pc = "read" /\ pc' \in {"reported", "dynamic"}
        \/ pc = "read" /\ pc' = "imports" /\ file.kind = "pe"
        \/ pc = "read" /\ pc' = "overlay" /\ file.kind # "pe"
        \/ pc \in {"dynamic", "needed"} /\ pc' \in {"needed", "overlay", "reported", "died"} /\ file.kind # "pe"
        \/ pc \in {"resources", "walk"} /\ pc' \in {"walk", "overlay", "reported"}
        \/ pc \in {"overlay", "signatures"} /\ pc' \in {"signatures", "hints"}
  \/ pc = "hints" /\ pc' = "reported"

LEMMA OthersMove ==
  ASSUME CaseInv, PlaceInv, [Next]_vars
  PROVE  CollectImports \/ (Moves /\ file' = file /\ UNCHANGED importVars)
<1>0. file' = file /\ (CollectImports \/ UNCHANGED importVars)
  BY FileIsKept, WhoChanges
<1>1. CASE CollectStrings
  <2>1. pc = "strings" /\ pc' \in {"strings", "read", "failed"} /\ enriched' = enriched
    BY <1>1 DEF CollectStrings, StringsNext, LeaveOut, ReadContents, ScanText,
       StringsOutOfMemory, NextPass, EndStrings, Extracting
  <2> QED
    BY <1>0, <2>1 DEF Moves, Before
<1>2. CASE CollectNeeded
  <2>1. pc \in {"dynamic", "needed"} /\ pc' \in {"dynamic", "needed", "overlay", "reported", "died"}
        /\ enriched' = enriched
    BY <1>2 DEF CollectNeeded, NeededNext, ReadDynamic, DynamicOutOfMemory, ResolveStrings,
       AddNeeded, NeededOutOfMemory, SetTexts, DieBehindFile
  <2>2. file.kind # "pe"
    BY <2>1 DEF PlaceInv
  <2>3. pc' = "dynamic" => pc = "dynamic"
    BY <1>2 DEF CollectNeeded, NeededNext, ReadDynamic, DynamicOutOfMemory, ResolveStrings,
       AddNeeded, NeededOutOfMemory, SetTexts, DieBehindFile
  <2> QED
    BY <1>0, <2>1, <2>2, <2>3 DEF Moves
<1>3. CASE CollectResources
  <2>1. pc \in {"resources", "walk"} /\ pc' \in {"walk", "overlay", "reported"}
        /\ enriched' = enriched
    BY <1>3 DEF CollectResources, ResourcesNext, FindResources, LeaveDirectory, EnterDirectory,
       SkipEntry, RecordResource, ResourcesOutOfMemory
  <2> QED
    BY <1>0, <2>1 DEF Moves
<1>4. CASE ReadFile
  BY <1>0, <1>4 DEF ReadFile, Moves, Before
<1>5. CASE Allocate \/ ReportSection \/ CountTrailingBytes
  BY <1>0, <1>5 DEF Allocate, ReportSection, CountTrailingBytes, Moves, Before
<1>6. CASE StartOverlay \/ EndSignatures \/ Finish
  BY <1>0, <1>6 DEF StartOverlay, EndSignatures, Finish, Moves
<1>7. CASE ScanRule
  BY <1>0, <1>7, RuleScanned DEF Moves
<1>8. CASE UNCHANGED vars
  BY <1>0, <1>8 DEF vars, Moves
<1> QED
  BY <1>0, <1>1, <1>2, <1>3, <1>4, <1>5, <1>6, <1>7, <1>8 DEF Next

LEMMA MovesKeep ==
  ASSUME CaseInv, ResourcesInv, ImportsTyped, ImportsWhole, Moves, file' = file,
         UNCHANGED importVars
  PROVE  ImportsWhole'
<1>1. UNCHANGED <<lists, descriptor, pointers, library, thunk, exports, isPe>>
  BY DEF importVars
<1>2. ImportsDone' => ImportsDone
  <2>1. enriched' => enriched' = enriched \/ pc = "hints"
    BY DEF Moves
  <2>2. enriched => pc = "reported"
    BY DEF ResourcesInv
  <2>3. pc' \in {"resources", "walk", "overlay", "signatures", "hints"} =>
          pc' = pc \/ file.kind # "pe" \/ pc \in {"resources", "walk", "overlay", "signatures"}
    BY DEF Moves, Before
  <2>4. pc' \in {"resources", "walk"} => pc \in {"resources", "walk"}
    BY DEF Moves, Before
  <2>5. pc \in {"resources", "walk"} => ImportsDone
    BY DEF ImportsDone
  <2> QED
    BY <1>1, <2>1, <2>2, <2>3, <2>4, <2>5 DEF ImportsDone
<1>3. pc' \in Directories => Reads(file', pc', descriptor', pointers', library', thunk', lists'[pc'])
  <2>1. CASE pc' = pc
    BY <1>1, <2>1 DEF ImportsWhole
  <2>2. CASE pc' # pc /\ pc' \in Directories
    <3>1. pc = "read" /\ pc' = "imports" /\ file.kind = "pe"
      BY <2>2 DEF Moves, Directories, Before
    <3>2. lists["imports"] = <<>> /\ library = 0 /\ pointers = None /\ descriptor = 0
      BY <3>1 DEF ImportsWhole, ImportsTyped, Before, Directories
    <3>3. Importing(file, "imports")
      BY <3>1, ImportsStart DEF Directories
    <3>4. Reads(file, "imports", 0, None, 0, thunk, <<>>)
      BY <3>3, ReadsFirst
    <3> QED
      BY <1>1, <3>1, <3>2, <3>4
  <2> QED
    BY <2>1, <2>2
<1>4. /\ pc' \in Before => pc \in Before
      /\ pc' \in Before \cup {"imports"} => pc \in Before \cup {"imports"}
      /\ pc' \in {"delayed", "exports"} => pc' = pc
  BY DEF Moves, Before
<1>5. isPe' => pc' \in {"resources", "walk", "overlay", "signatures", "hints", "reported"}
  <2>1. isPe' => pc \in {"resources", "walk", "overlay", "signatures", "hints", "reported"}
    BY <1>1 DEF ImportsWhole
  <2> QED
    BY <2>1 DEF Moves, Before
<1>6. /\ pc' \in Before => lists'["imports"] = <<>>
      /\ pc' \in Before \cup {"imports"} => lists'["delayed"] = <<>>
      /\ pc' = "delayed" => lists'["imports"] = Declared(file', "imports")
  BY <1>1, <1>4 DEF ImportsWhole
<1>7. pc' = "exports" \/ ImportsDone' => ImportsAre(file', lists')
  BY <1>1, <1>2, <1>4 DEF ImportsWhole
<1>8. ImportsDone' => (isPe' <=> (exports' # 0 \/ \E d \in Directories : lists'[d] # <<>>))
  BY <1>1, <1>2 DEF ImportsWhole
<1>9. isPe' => file'.kind = "pe"
  BY <1>1 DEF ImportsWhole
<1> QED
  BY <1>3, <1>5, <1>6, <1>7, <1>8, <1>9 DEF ImportsWhole

LEMMA ImportsWholeNext ==
  CaseInv /\ ResourcesInv /\ PlaceInv /\ ImportsTyped /\ ImportsWhole /\ [Next]_vars => ImportsWhole'
<1> SUFFICES ASSUME CaseInv, ResourcesInv, PlaceInv, ImportsTyped, ImportsWhole, [Next]_vars
             PROVE  ImportsWhole'
  OBVIOUS
<1>1. CASE CollectImports
  <2>1. ImportsNext /\ enriched' = enriched
    BY <1>1 DEF CollectImports
  <2> QED
    BY <2>1, EndImportsStep, ReadDescriptorStep, SkipDescriptorStep, TakeLibraryStep,
       ImportsOutOfMemoryStep, TakeThunkStep, EndThunksStep, CountExportsStep DEF ImportsNext
<1>2. CASE Moves /\ file' = file /\ UNCHANGED importVars
  BY <1>2, MovesKeep
<1> QED
  BY <1>1, <1>2, OthersMove

-----------------------------------------------------------------------------
\* The needed libraries of the report.

TableGoesOn(f, n) == \A i \in 0..(n - 1) : ~TableEnds(f, i)

NeededIn(f, n) == {i \in 1..n : f.dynamic[i].tag = "needed"}

DynamicValues(f) == [i \in DOMAIN f.dynamic |-> f.dynamic[i].value]

\* The values of the needed entries among the first n.
NeededBefore(f, n) == Along(NeededIn(f, n), DynamicValues(f))

TableEnd(f) == Lowest({i \in 0..Len(f.dynamic) : TableEnds(f, i)})

\* The text at each offset of the string table, if there is one.
AllTexts == [o \in Nat |-> IF TextIn(o) = None THEN Empty ELSE The(TextIn(o))]

ReadTexts(g, s, n) == [k \in 1..n |-> g[s[k]]]

LEMMA TableWithin ==
  ASSUME NEW f, HasDynamic(f), NEW n \in Nat, TableGoesOn(f, n)
  PROVE  n <= Len(f.dynamic) /\ \A i \in 1..n : i \in DOMAIN f.dynamic
<1>1. ASSUME NEW i \in 1..n PROVE i \in DOMAIN f.dynamic
  <2>1. PICK j \in Nat : j = i - 1 /\ j \in 0..(n - 1) /\ j + 1 = i
    <3>1. i - 1 \in Nat /\ i - 1 \in 0..(n - 1) /\ (i - 1) + 1 = i
      OBVIOUS
    <3> QED
      BY <3>1
  <2>2. EntryAt(f, j).tag # "null"
    BY <2>1 DEF TableGoesOn, TableEnds
  <2> QED
    BY <2>1, <2>2 DEF EntryAt
<1>2. n <= Len(f.dynamic)
  <2>1. f.dynamic \in Seq(DynamicEntry(f))
    BY DEF HasDynamic
  <2>2. n # 0 => n \in 1..n
    OBVIOUS
  <2> QED
    BY <1>1, <2>1, <2>2
<1> QED
  BY <1>1, <1>2

LEMMA NeededInIs ==
  ASSUME NEW f, HasDynamic(f), NEW n \in Nat, TableGoesOn(f, n)
  PROVE  /\ NeededIn(f, n) \in SUBSET DOMAIN f.dynamic /\ IsFiniteSet(NeededIn(f, n))
         /\ DOMAIN f.dynamic \in SUBSET Int /\ DynamicValues(f) \in [DOMAIN f.dynamic -> Nat]
         /\ NeededBefore(f, n) \in Seq(Nat)
<1>1. IsFiniteSet(NeededIn(f, n))
  <2>1. IsFiniteSet(1..n) /\ NeededIn(f, n) \in SUBSET (1..n)
    BY FS_Interval DEF NeededIn
  <2> QED
    BY <2>1, FS_Subset
<1>2. NeededIn(f, n) \in SUBSET DOMAIN f.dynamic
  BY TableWithin DEF NeededIn
<1>3. f.dynamic \in Seq(DynamicEntry(f))
  BY DEF HasDynamic
<1>4. DOMAIN f.dynamic \in SUBSET Int /\ DynamicValues(f) \in [DOMAIN f.dynamic -> Nat]
  <2>1. DOMAIN f.dynamic \in SUBSET Int
    BY <1>3
  <2>2. ASSUME NEW i \in DOMAIN f.dynamic PROVE f.dynamic[i].value \in Nat
    <3>1. f.dynamic[i] \in DynamicEntry(f)
      BY <1>3
    <3> QED
      BY <3>1, WordsAre DEF DynamicEntry
  <2> QED
    BY <2>1, <2>2 DEF DynamicValues
<1>5. PICK S, D, g, t : /\ S = NeededIn(f, n) /\ D = DOMAIN f.dynamic /\ g = DynamicValues(f)
                        /\ t = Ordered(S)
  OBVIOUS
<1>6. Follows(Along(S, g), t, g, S, Nat)
  BY <1>1, <1>2, <1>4, <1>5, AlongIs DEF Ordered
<1>7. NeededBefore(f, n) \in Seq(Nat)
  BY <1>5, <1>6 DEF Follows, NeededBefore
<1> QED
  BY <1>1, <1>2, <1>4, <1>7

LEMMA NeededGrows ==
  ASSUME NEW f, HasDynamic(f), NEW n \in Nat, TableGoesOn(f, n), ~TableEnds(f, n),
         NEW e, e = EntryAt(f, n)
  PROVE  /\ TableGoesOn(f, n + 1)
         /\ NeededBefore(f, n + 1) = IF e.tag = "needed" THEN Append(NeededBefore(f, n), e.value)
                                     ELSE NeededBefore(f, n)
<1>1. TableGoesOn(f, n + 1)
  <2>1. \A i \in 0..((n + 1) - 1) : i \in 0..(n - 1) \/ i = n
    OBVIOUS
  <2> QED
    BY <2>1 DEF TableGoesOn
<1>2. n + 1 \in DOMAIN f.dynamic /\ e = f.dynamic[n + 1]
  BY DEF TableEnds, EntryAt
<1>3. 1..(n + 1) = 1..n \cup {n + 1}
  OBVIOUS
<1>4. PICK S, T, g, D : /\ S = NeededIn(f, n) /\ T = NeededIn(f, n + 1) /\ g = DynamicValues(f)
                        /\ D = DOMAIN f.dynamic
  OBVIOUS
<1>5. S \in SUBSET D /\ IsFiniteSet(S) /\ D \in SUBSET Int /\ g \in [D -> Nat]
  BY <1>4, NeededInIs
<1>6. NeededBefore(f, n) = Along(S, g) /\ NeededBefore(f, n + 1) = Along(T, g)
  BY <1>4 DEF NeededBefore
<1>7. CASE e.tag = "needed"
  <2>1. T = S \cup {n + 1}
    BY <1>2, <1>3, <1>4, <1>7 DEF NeededIn
  <2>2. \A y \in S : y < n + 1
    BY <1>4 DEF NeededIn
  <2>3. PICK m : m = n + 1
    OBVIOUS
  <2>4. Extends(T, S, m)
    BY <2>1, <2>2, <2>3 DEF Extends
  <2>5. m \in D
    BY <1>2, <1>4, <2>3
  <2>6. Along(T, g) = Append(Along(S, g), g[m])
    BY <1>5, <2>4, <2>5, AlongGrows
  <2>7. g[m] = e.value
    BY <1>2, <1>4, <2>3 DEF DynamicValues
  <2> QED
    BY <1>1, <1>6, <1>7, <2>6, <2>7
<1>8. CASE e.tag # "needed"
  <2>1. T = S
    BY <1>2, <1>3, <1>4, <1>8 DEF NeededIn
  <2> QED
    BY <1>1, <1>6, <1>8, <2>1
<1> QED
  BY <1>7, <1>8

LEMMA TableEndIs ==
  ASSUME NEW f, HasDynamic(f), NEW n \in Nat, TableGoesOn(f, n), TableEnds(f, n)
  PROVE  TableEnd(f) = n
<1>1. PICK L : L = {i \in 0..Len(f.dynamic) : TableEnds(f, i)}
  OBVIOUS
<1>2. n <= Len(f.dynamic) /\ Len(f.dynamic) \in Nat
  BY TableWithin DEF HasDynamic
<1>3. n \in L /\ L \in SUBSET Nat
  BY <1>1, <1>2
<1>4. Lowest(L) \in L /\ Lowest(L) <= n
  BY <1>3, LowestIs
<1>5. PICK l \in Nat : l = Lowest(L) /\ TableEnds(f, l) /\ l <= n
  BY <1>1, <1>3, <1>4
<1>6. ~(l < n)
  <2>1. l < n => l \in 0..(n - 1)
    OBVIOUS
  <2> QED
    BY <1>5, <2>1 DEF TableGoesOn
<1> QED
  BY <1>1, <1>5, <1>6 DEF TableEnd

LEMMA AllTextsAre ==
  ASSUME HasDynamic(file)
  PROVE  AllTexts \in [Nat -> AnyText]
<1>1. ASSUME NEW o \in Nat PROVE (IF TextIn(o) = None THEN Empty ELSE The(TextIn(o))) \in AnyText
  <2>1. Empty \in AnyText
    BY DEF AnyText, FileText
  <2>2. CASE TextIn(o) # None
    <3>1. PICK x \in AnyText : TextIn(o) = Some(x)
      BY <2>2, TextInIs
    <3> QED
      BY <2>2, <3>1, TheSome
  <2> QED
    BY <2>1, <2>2
<1> QED
  BY <1>1 DEF AllTexts

LEMMA TextsStay ==
  ASSUME file' = file, found' = found
  PROVE  AllTexts' = AllTexts /\ NeededTexts' = NeededTexts
<1>1. ASSUME NEW o PROVE TextIn(o)' = TextIn(o)
  BY DEF TextIn, Value, StringTable, TextOffset
<1>2. AllTexts' = AllTexts
  BY <1>1 DEF AllTexts
<1>3. NeededTexts' = NeededTexts
  BY <1>1 DEF NeededTexts
<1> QED
  BY <1>2, <1>3

\* The texts of the needed entries, as they are read one after another.
LEMMA NeededTextsAre ==
  ASSUME HasDynamic(file), NEW n \in Nat, TableGoesOn(file, n), TableEnds(file, n),
         NEW s, s = NeededBefore(file, n)
  PROVE  NeededTexts = Texts(ReadTexts(AllTexts, s, Len(s)))
<1>1. PICK f : f = file
  OBVIOUS
<1>2. PICK S, t : S = NeededIn(f, n) /\ t = Ordered(S)
  OBVIOUS
<1>3. PICK D, g : D = DOMAIN f.dynamic /\ g = DynamicValues(f)
  OBVIOUS
<1>4. S \in SUBSET D /\ IsFiniteSet(S) /\ D \in SUBSET Int /\ g \in [D -> Nat]
  BY <1>1, <1>2, <1>3, NeededInIs
<1>5. s = Along(S, g)
  BY <1>1, <1>2, <1>3 DEF NeededBefore
<1>6. Follows(s, t, g, S, Nat)
  BY <1>2, <1>4, <1>5, AlongIs DEF Ordered
<1>7. PICK m \in Nat : m = Cardinality(S)
  BY <1>6 DEF Follows
<1>8. /\ Len(s) = m /\ s \in Seq(Nat) /\ DOMAIN t = 1..m
      /\ \A k \in 1..m : t[k] \in D /\ s[k] = g[t[k]]
  <2>1. /\ Len(s) = m /\ s \in Seq(Nat) /\ Len(t) = m /\ t \in Seq(S)
        /\ \A k \in 1..m : t[k] \in S /\ s[k] = g[t[k]]
    BY <1>6, <1>7 DEF Follows
  <2>2. \A k \in 1..m : t[k] \in D
    BY <1>4, <2>1
  <2>3. DOMAIN t = 1..m
    BY <2>1
  <2> QED
    BY <2>1, <2>2, <2>3
<1>9. NeededPlaces(f) = t
  <2>1. TableEnd(f) = n
    BY <1>1, TableEndIs
  <2>2. S = {i \in 1..TableEnd(f) : f.dynamic[i].tag = "needed"}
    BY <1>2, <2>1 DEF NeededIn
  <2> QED
    BY <1>2, <2>2 DEF NeededPlaces, TableEnd, Ordered
<1>10. PICK text : text = [k \in DOMAIN t |-> TextIn(f.dynamic[t[k]].value)]
  OBVIOUS
<1>11. NeededTexts = Texts([k \in DOMAIN t |-> IF text[k] = None THEN Empty ELSE The(text[k])])
  BY <1>1, <1>9, <1>10 DEF NeededTexts
<1>12. ASSUME NEW k \in 1..m
       PROVE  (IF text[k] = None THEN Empty ELSE The(text[k])) = AllTexts[s[k]]
  <2>0. t[k] \in D /\ s[k] = g[t[k]] /\ s[k] \in Nat
    BY <1>8
  <2>1. s[k] = f.dynamic[t[k]].value /\ s[k] \in Nat
    BY <1>3, <2>0 DEF DynamicValues
  <2>2. text[k] = TextIn(s[k])
    BY <1>8, <1>10, <2>1
  <2> QED
    BY <2>1, <2>2 DEF AllTexts
<1>13. [k \in DOMAIN t |-> IF text[k] = None THEN Empty ELSE The(text[k])]
         = ReadTexts(AllTexts, s, Len(s))
  BY <1>8, <1>12 DEF ReadTexts
<1> QED
  BY <1>11, <1>13

NeededWhole ==
  /\ pc \in Before => cursor = 0 /\ needed = <<>> /\ names = <<>>
  /\ pc = "dynamic" => TableGoesOn(file, cursor) /\ needed = NeededBefore(file, cursor) /\ names = <<>>
  /\ pc = "needed" => /\ \E n \in Nat : /\ TableGoesOn(file, n) /\ TableEnds(file, n)
                                        /\ needed = NeededBefore(file, n)
                      /\ cursor <= Len(needed)
                      /\ names = Texts(ReadTexts(AllTexts, needed, cursor))
  /\ isElf => /\ file.kind = "elf" /\ pc \in {"overlay", "signatures", "hints", "reported"}
              /\ names = NeededTexts

LEMMA NeededWholeInit == Init => NeededWhole
BY DEF Init, NeededInit, NeededWhole, Before

LEMMA ReadTextsGrow ==
  ASSUME NEW g \in [Nat -> AnyText], NEW s \in Seq(Nat), NEW n \in Nat, n < Len(s)
  PROVE  /\ ReadTexts(g, s, n + 1) = Append(ReadTexts(g, s, n), g[s[n + 1]])
         /\ ReadTexts(g, s, n) \in Seq(AnyText) /\ g[s[n + 1]] \in AnyText
<1>1. \A k \in 1..(n + 1) : s[k] \in Nat
  OBVIOUS
<1>2. PICK h : h = [k \in 1..(n + 1) |-> g[s[k]]]
  OBVIOUS
<1>3. \A k \in 1..(n + 1) : h[k] = g[s[k]] /\ h[k] \in AnyText
  BY <1>1, <1>2
<1>4. [k \in 1..(n + 1) |-> h[k]] = Append([k \in 1..n |-> h[k]], h[n + 1])
  BY <1>3, OneMore
<1>5. n + 1 \in 1..(n + 1) /\ \A k \in 1..n : k \in 1..(n + 1)
  OBVIOUS
<1>6. ReadTexts(g, s, n) = [k \in 1..n |-> h[k]] /\ ReadTexts(g, s, n + 1) = [k \in 1..(n + 1) |-> h[k]]
  BY <1>3, <1>5 DEF ReadTexts
<1>7. [k \in 1..n |-> h[k]] \in Seq(AnyText)
  BY <1>3, <1>5
<1> QED
  BY <1>3, <1>4, <1>5, <1>6, <1>7

LEMMA ReadDynamicStep ==
  ASSUME CaseInv, PlaceInv, NeededTyped, NeededWhole, ReadDynamic
  PROVE  NeededWhole'
<1>1. PICK e : e = EntryAt(file, cursor)
  OBVIOUS
<1>2. /\ pc = "dynamic" /\ pc' = pc /\ file' = file /\ ~TableEnds(file, cursor)
      /\ needed' = IF e.tag = "needed" THEN Append(needed, e.value) ELSE needed
      /\ cursor' = cursor + 1 /\ names' = names /\ isElf' = isElf
  BY <1>1 DEF ReadDynamic
<1>3. HasDynamic(file) /\ cursor \in Nat
  BY <1>2, NeededFacts DEF NeededTyped
<1>4. TableGoesOn(file, cursor) /\ needed = NeededBefore(file, cursor) /\ names = <<>> /\ ~isElf
  BY <1>2 DEF NeededWhole
<1>5. /\ TableGoesOn(file, cursor + 1)
      /\ NeededBefore(file, cursor + 1) =
           IF e.tag = "needed" THEN Append(NeededBefore(file, cursor), e.value)
           ELSE NeededBefore(file, cursor)
  BY <1>1, <1>2, <1>3, <1>4, NeededGrows
<1>6. TableGoesOn(file', cursor') /\ needed' = NeededBefore(file', cursor') /\ names' = <<>>
  BY <1>2, <1>4, <1>5
<1> QED
  BY <1>2, <1>4, <1>6 DEF NeededWhole, Before

LEMMA ResolveStringsStep ==
  ASSUME CaseInv, PlaceInv, NeededTyped, NeededWhole, ResolveStrings
  PROVE  NeededWhole'
<1>1. /\ pc = "dynamic" /\ pc' \in {"needed", "overlay"} /\ file' = file /\ TableEnds(file, cursor)
      /\ cursor' = 0 /\ UNCHANGED <<found, needed, names, isElf>>
  BY DEF ResolveStrings
<1>2. HasDynamic(file) /\ cursor \in Nat /\ needed \in Seq(Nat)
  BY <1>1, NeededFacts DEF NeededTyped
<1>3. TableGoesOn(file, cursor) /\ needed = NeededBefore(file, cursor) /\ names = <<>> /\ ~isElf
  BY <1>1 DEF NeededWhole
<1>4. PICK n \in Nat : n = cursor
  BY <1>2
<1>5. TableGoesOn(file', n) /\ TableEnds(file', n) /\ needed' = NeededBefore(file', n)
  BY <1>1, <1>3, <1>4
<1>6. Texts(ReadTexts(AllTexts, needed, 0)) = <<>>
  <2>1. ReadTexts(AllTexts, needed, 0) = <<>>
    BY DEF ReadTexts
  <2> QED
    BY <2>1, NoTexts
<1>7. names' = Texts(ReadTexts(AllTexts', needed', cursor'))
  BY <1>1, <1>3, <1>6, TextsStay
<1>8. cursor' <= Len(needed')
  BY <1>1, <1>2
<1> QED
  BY <1>1, <1>3, <1>5, <1>7, <1>8 DEF NeededWhole, Before

LEMMA AddNeededStep ==
  ASSUME CaseInv, PlaceInv, NeededTyped, NeededWhole, AddNeeded
  PROVE  NeededWhole'
<1>1. PICK text : text = TextIn(needed[cursor + 1])
  OBVIOUS
<1>2. /\ pc = "needed" /\ pc' = pc /\ file' = file /\ cursor < Len(needed) /\ cursor' = cursor + 1
      /\ names' = IF text = None THEN names ELSE AppendUnique(names, The(text))
      /\ UNCHANGED <<found, needed, isElf>>
  BY <1>1 DEF AddNeeded
<1>3. HasDynamic(file) /\ cursor \in Nat /\ needed \in Seq(Nat)
  BY <1>2, NeededFacts DEF NeededTyped
<1>4. PICK g, s, n : g = AllTexts /\ s = needed /\ n = cursor
  OBVIOUS
<1>5. g \in [Nat -> AnyText] /\ s \in Seq(Nat) /\ n \in Nat /\ n < Len(s)
  BY <1>2, <1>3, <1>4, AllTextsAre
<1>6. names = Texts(ReadTexts(g, s, n)) /\ ~isElf
  BY <1>2, <1>4 DEF NeededWhole
<1>7. PICK x, r : x = g[s[n + 1]] /\ r = ReadTexts(g, s, n)
  OBVIOUS
<1>8. ReadTexts(g, s, n + 1) = Append(r, x) /\ r \in Seq(AnyText) /\ x \in AnyText
  BY <1>5, <1>7, ReadTextsGrow
<1>9. Texts(Append(r, x)) = AppendUnique(Texts(r), x)
  BY <1>8, TextsGrow
<1>10. s[n + 1] \in Nat
  BY <1>5
<1>11. x = IF text = None THEN Empty ELSE The(text)
  BY <1>1, <1>4, <1>7, <1>10 DEF AllTexts
<1>12. names' = AppendUnique(names, x)
  BY <1>2, <1>11 DEF AppendUnique
<1>13. names' = Texts(ReadTexts(AllTexts', needed', cursor'))
  <2>1. AllTexts' = g /\ needed' = s /\ cursor' = n + 1
    BY <1>2, <1>4, TextsStay
  <2> QED
    BY <1>6, <1>7, <1>8, <1>9, <1>12, <2>1
<1>14. cursor' <= Len(needed')
  BY <1>2, <1>3
<1>15. \E m \in Nat : /\ TableGoesOn(file', m) /\ TableEnds(file', m)
                      /\ needed' = NeededBefore(file', m)
  BY <1>2 DEF NeededWhole
<1> QED
  BY <1>2, <1>6, <1>13, <1>14, <1>15 DEF NeededWhole, Before

LEMMA SetTextsStep ==
  ASSUME CaseInv, PlaceInv, NeededTyped, NeededWhole, SetTexts
  PROVE  NeededWhole'
<1>1. /\ pc = "needed" /\ pc' = "overlay" /\ file' = file /\ cursor >= Len(needed)
      /\ UNCHANGED <<found, names>>
  BY DEF SetTexts
<1>2. HasDynamic(file) /\ cursor \in Nat /\ needed \in Seq(Nat) /\ file.kind = "elf"
  BY <1>1, NeededFacts DEF NeededTyped, PlaceInv
<1>3. PICK n \in Nat : TableGoesOn(file, n) /\ TableEnds(file, n) /\ needed = NeededBefore(file, n)
  BY <1>1 DEF NeededWhole
<1>4. cursor <= Len(needed) /\ names = Texts(ReadTexts(AllTexts, needed, cursor))
  BY <1>1 DEF NeededWhole
<1>5. cursor = Len(needed)
  BY <1>1, <1>2, <1>4
<1>6. PICK s : s = needed
  OBVIOUS
<1>7. NeededTexts = Texts(ReadTexts(AllTexts, s, Len(s)))
  BY <1>2, <1>3, <1>6, NeededTextsAre
<1>8. names' = NeededTexts'
  BY <1>1, <1>4, <1>5, <1>6, <1>7, TextsStay
<1> QED
  BY <1>1, <1>2, <1>8 DEF NeededWhole, Before

LEMMA NeededBreaksOffStep ==
  ASSUME NeededWhole, DynamicOutOfMemory \/ NeededOutOfMemory \/ DieBehindFile
  PROVE  NeededWhole'
<1>1. pc \in {"dynamic", "needed"} /\ pc' \in {"reported", "died"} /\ isElf' = isElf
  BY DEF DynamicOutOfMemory, NeededOutOfMemory, DieBehindFile, neededVars
<1>2. ~isElf
  BY <1>1 DEF NeededWhole
<1> QED
  BY <1>1, <1>2 DEF NeededWhole, Before

\* The steps outside the collector of needed libraries.
MovesBeside ==
  \/ pc' = pc
  \/ pc \in Before /\ pc' \in Before \cup {"failed", "reported", "overlay", "imports"}
  \/ pc = "read" /\ pc' = "dynamic" /\ file.kind = "elf"
  \/ pc \notin Before \cup {"dynamic", "needed", "overlay", "signatures", "hints", "reported"}
     /\ pc' \notin Before \cup {"dynamic", "needed"}
  \/ pc \in {"overlay", "signatures", "hints"} /\ pc' \in {"signatures", "hints", "reported"}

LEMMA OthersMoveBeside ==
  ASSUME CaseInv, [Next]_vars
  PROVE  CollectNeeded \/ (MovesBeside /\ file' = file /\ UNCHANGED neededVars)
<1>0. file' = file /\ (CollectNeeded \/ UNCHANGED neededVars)
  BY FileIsKept, WhoChanges
<1>1. CASE CollectStrings
  <2>1. pc = "strings" /\ pc' \in {"strings", "read", "failed"}
    BY <1>1 DEF CollectStrings, StringsNext, LeaveOut, ReadContents, ScanText,
       StringsOutOfMemory, NextPass, EndStrings, Extracting
  <2> QED
    BY <1>0, <2>1 DEF MovesBeside, Before
<1>2. CASE CollectImports
  <2>1. pc \in PeSteps /\ pc' \in PeSteps \cup {"reported"}
    BY <1>2 DEF CollectImports, ImportsNext, EndImports, ReadDescriptor, SkipDescriptor,
       TakeLibrary, LibraryOutOfMemory, TakeThunk, ThunkOutOfMemory, EndThunks, CountExports,
       Directories, PeSteps
  <2> QED
    BY <1>0, <2>1 DEF MovesBeside, PeSteps, Before
<1>3. CASE CollectResources
  <2>1. pc \in {"resources", "walk"} /\ pc' \in {"walk", "overlay", "reported"}
    BY <1>3 DEF CollectResources, ResourcesNext, FindResources, LeaveDirectory, EnterDirectory,
       SkipEntry, RecordResource, ResourcesOutOfMemory
  <2> QED
    BY <1>0, <2>1 DEF MovesBeside, Before
<1>4. CASE ReadFile
  BY <1>0, <1>4 DEF ReadFile, MovesBeside, Before
<1>5. CASE Allocate \/ ReportSection \/ CountTrailingBytes
  BY <1>0, <1>5 DEF Allocate, ReportSection, CountTrailingBytes, MovesBeside, Before
<1>6. CASE StartOverlay \/ EndSignatures \/ Finish
  BY <1>0, <1>6 DEF StartOverlay, EndSignatures, Finish, MovesBeside
<1>7. CASE ScanRule
  BY <1>0, <1>7, RuleScanned DEF MovesBeside
<1>8. CASE UNCHANGED vars
  BY <1>0, <1>8 DEF vars, MovesBeside
<1> QED
  BY <1>0, <1>1, <1>2, <1>3, <1>4, <1>5, <1>6, <1>7, <1>8 DEF Next

LEMMA MovesBesideKeep ==
  ASSUME CaseInv, NeededWhole, MovesBeside, file' = file, UNCHANGED neededVars
  PROVE  NeededWhole'
<1>1. UNCHANGED <<cursor, found, needed, names, isElf>>
  BY DEF neededVars
<1>2. AllTexts' = AllTexts /\ NeededTexts' = NeededTexts
  BY <1>1, TextsStay
<1>3. pc' \in Before => pc \in Before
  BY DEF MovesBeside, Before
<1>4. pc' = "needed" => pc = "needed"
  BY DEF MovesBeside, Before
<1>5. pc' = "dynamic" => pc = "dynamic" \/ (pc = "read" /\ file.kind = "elf")
  BY DEF MovesBeside, Before
<1>6. isElf' => /\ file'.kind = "elf" /\ names' = NeededTexts'
                /\ pc' \in {"overlay", "signatures", "hints", "reported"}
  <2>1. isElf => /\ file.kind = "elf" /\ pc \in {"overlay", "signatures", "hints", "reported"}
                 /\ names = NeededTexts
    BY DEF NeededWhole
  <2>2. pc \in {"overlay", "signatures", "hints", "reported"} =>
          pc' \in {"overlay", "signatures", "hints", "reported"}
    BY DEF MovesBeside, Before
  <2> QED
    BY <1>1, <1>2, <2>1, <2>2
<1>7. pc' = "dynamic" =>
        TableGoesOn(file', cursor') /\ needed' = NeededBefore(file', cursor') /\ names' = <<>>
  <2>1. CASE pc = "dynamic"
    BY <1>1, <2>1 DEF NeededWhole
  <2>2. CASE pc = "read" /\ file.kind = "elf"
    <3>1. cursor = 0 /\ needed = <<>> /\ names = <<>>
      BY <2>2 DEF NeededWhole, Before
    <3>2. TableGoesOn(file, 0) /\ NeededBefore(file, 0) = <<>>
      <4>1. TableGoesOn(file, 0)
        BY DEF TableGoesOn
      <4>2. NeededIn(file, 0) = {}
        BY DEF NeededIn
      <4> QED
        BY <4>1, <4>2, AlongNothing DEF NeededBefore
    <3> QED
      BY <1>1, <3>1, <3>2
  <2> QED
    BY <1>5, <2>1, <2>2
<1>8. pc' = "needed" =>
        /\ \E n \in Nat : /\ TableGoesOn(file', n) /\ TableEnds(file', n)
                          /\ needed' = NeededBefore(file', n)
        /\ cursor' <= Len(needed')
        /\ names' = Texts(ReadTexts(AllTexts', needed', cursor'))
  BY <1>1, <1>2, <1>4 DEF NeededWhole
<1>9. pc' \in Before => cursor' = 0 /\ needed' = <<>> /\ names' = <<>>
  BY <1>1, <1>3 DEF NeededWhole
<1> QED
  BY <1>6, <1>7, <1>8, <1>9 DEF NeededWhole

LEMMA NeededWholeNext ==
  CaseInv /\ PlaceInv /\ NeededTyped /\ NeededWhole /\ [Next]_vars => NeededWhole'
<1> SUFFICES ASSUME CaseInv, PlaceInv, NeededTyped, NeededWhole, [Next]_vars PROVE NeededWhole'
  OBVIOUS
<1>1. CASE CollectNeeded
  <2>1. NeededNext
    BY <1>1 DEF CollectNeeded
  <2> QED
    BY <2>1, ReadDynamicStep, ResolveStringsStep, AddNeededStep, SetTextsStep,
       NeededBreaksOffStep DEF NeededNext
<1>2. CASE MovesBeside /\ file' = file /\ UNCHANGED neededVars
  BY <1>2, MovesBesideKeep
<1> QED
  BY <1>1, <1>2, OthersMoveBeside

\* What a report that was finished says of its imports is what the file declares.
LEMMA ImportsWholeImplies ==
  ASSUME CaseInv, ImportsTyped, ImportsWhole, NeededWhole
  PROVE  DependenciesAreWhole
<1>1. isPe => ImportsAre(file, lists) /\ file.kind = "pe"
  BY DEF ImportsWhole, ImportsDone
<1>2. isElf => names = NeededTexts /\ file.kind = "elf"
  BY DEF NeededWhole
<1>3. enriched /\ file.kind = "pe" => ImportsDone
  BY DEF ImportsDone
<1>4. enriched /\ file.kind = "pe" =>
        (isPe <=> (exports # 0 \/ \E d \in Directories : Declared(file, d) # <<>>))
  BY <1>3 DEF ImportsWhole, ImportsAre
<1>5. isPe \in BOOLEAN
  BY DEF ImportsTyped
<1>6. enriched /\ file.kind = "pe" =>
        isPe = (exports # 0 \/ \E d \in Directories : Declared(file, d) # <<>>)
  BY <1>4, <1>5
<1>7. isPe => \A d \in Directories : lists[d] = Declared(file, d)
  BY <1>1 DEF ImportsAre
<1>8. ~(isPe /\ isElf)
  BY <1>1, <1>2
<1> QED
  BY <1>2, <1>6, <1>7, <1>8 DEF DependenciesAreWhole

DependenciesInv ==
  /\ ResourcesInv /\ PlaceInv /\ ImportsTyped /\ NeededTyped
  /\ ImportsWhole /\ NeededWhole

\* Whenever a dependency summary is printed it is whole: each library once, in
\* the order of its first mention, with each of its symbols once, whatever
\* descriptors share it, and each needed library once.
THEOREM DependenciesAreWholeAndOnce == Spec => []DependenciesAreWhole
<1>1. Init => CaseInv /\ DependenciesInv
  <2>1. Init => PlaceInv
    BY DEF Init, PlaceInv, PC
  <2> QED
    BY <2>1, CaseInvInit, ResourcesInvInit, ImportsTypedInit, NeededTypedInit, ImportsWholeInit,
       NeededWholeInit DEF DependenciesInv
<1>2. CaseInv /\ DependenciesInv /\ [Next]_vars => DependenciesInv'
  BY ResourcesInvNext, PlaceInvNext, ImportsTypedNext, NeededTypedNext, ImportsWholeNext,
     NeededWholeNext DEF DependenciesInv
<1>3. CaseInv /\ DependenciesInv => DependenciesAreWhole
  BY ImportsWholeImplies DEF DependenciesInv
<1> QED
  BY <1>1, <1>2, <1>3, CaseInvNext, PTL DEF Spec
=============================================================================
