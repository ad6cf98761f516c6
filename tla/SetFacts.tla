------------------------------ MODULE SetFacts ------------------------------
(***************************************************************************)
(* Facts about numbers and finite sets that the proofs of several parts    *)
(* use: induction, least and greatest members, places in an order, and     *)
(* what a set adds up to.                                                  *)
(*                                                                         *)
(* Induction is stated for a set of numbers and not for a predicate, so    *)
(* that the provers can instantiate it.                                    *)
(***************************************************************************)
EXTENDS Integers, FiniteSets, FiniteSetTheorems, WellFoundedInduction, TLAPS

\* A set of numbers has a least one.
LEMMA HasLeast ==
  ASSUME NEW S \in SUBSET Nat, S # {}
  PROVE  \E m \in S : \A y \in S : m <= y
  <1> DEFINE R == OpToRel(<, Nat)
  <1>1. PICK m \in S : \A y \in S : <<y, m>> \notin R
    <2>1. IsWellFoundedOn(R, Nat)
      BY NatLessThanWellFounded
    <2> HIDE DEF R
    <2> QED BY <2>1, WFMin
  <1>2. ASSUME NEW y \in S, ~(m <= y) PROVE FALSE
    <2>1. y \in Nat /\ m \in Nat /\ y < m
      BY <1>2
    <2>2. <<y, m>> \in R
      BY <2>1 DEF OpToRel
    <2> QED BY <1>1, <2>2
  <1> QED BY <1>2

\* A set of numbers that has a bound has a greatest one.
LEMMA HasGreatest ==
  ASSUME NEW S \in SUBSET Nat, S # {}, NEW b \in Nat, \A x \in S : x <= b
  PROVE  \E m \in S : \A y \in S : y <= m
  <1> DEFINE T == {b - x : x \in S}
  <1>1. T \in SUBSET Nat /\ T # {}
    <2>1. \A x \in S : b - x \in Nat
      OBVIOUS
    <2>2. PICK x : x \in S
      OBVIOUS
    <2>3. b - x \in T
      BY <2>2
    <2> QED BY <2>1, <2>3
  <1>2. PICK t \in T : \A u \in T : t <= u
    <2> HIDE DEF T
    <2> QED BY <1>1, HasLeast
  <1>3. PICK m \in S : t = b - m
    OBVIOUS
  <1>4. ASSUME NEW y \in S PROVE y <= m
    <2>1. b - y \in T
      OBVIOUS
    <2>2. b - m <= b - y
      BY <1>2, <1>3, <2>1
    <2> QED BY <2>2
  <1> QED BY <1>4

\* A set of numbers that has 0 and every successor of a member has them all.
LEMMA SetInduction ==
  ASSUME NEW S, 0 \in S, \A n \in Nat : n \in S => n + 1 \in S
  PROVE  \A n \in Nat : n \in S
  <1> DEFINE T == Nat \ S
  <1> SUFFICES ASSUME T # {} PROVE FALSE
    OBVIOUS
  <1>1. PICK x \in T : \A y \in T : x <= y
    <2>1. T \in SUBSET Nat
      OBVIOUS
    <2> HIDE DEF T
    <2> QED BY <2>1, HasLeast
  <1>2. x # 0 /\ x - 1 \in Nat /\ x - 1 + 1 = x /\ ~(x <= x - 1)
    OBVIOUS
  <1> QED BY <1>1, <1>2

-----------------------------------------------------------------------------
(***************************************************************************)
(* Sums over a finite set, as the folds of the community modules define    *)
(* them: the function that adds up every subset, one member at a time.     *)
(***************************************************************************)

Some(s) == CHOOSE x \in s : TRUE

\* h adds up what f is on each subset of S.
AddsUpSets(h, f, S) ==
  h = [s \in SUBSET S |-> IF s = {} THEN 0 ELSE f[Some(s)] + h[s \ {Some(s)}]]

\* A non-empty finite set is one of its members and a set that has one less.
LEMMA OneLess ==
  ASSUME NEW s, IsFiniteSet(s), s # {}
  PROVE  /\ Some(s) \in s /\ IsFiniteSet(s \ {Some(s)})
         /\ Cardinality(s) \in Nat \ {0}
         /\ Cardinality(s \ {Some(s)}) = Cardinality(s) - 1
  <1>1. Some(s) \in s
    BY DEF Some
  <1> QED BY <1>1, FS_RemoveElement, FS_EmptySet, FS_CardinalityType

\* Whatever f is, a finite set's subsets can be added up.
LEMMA SumsExist ==
  ASSUME NEW S, IsFiniteSet(S), NEW f
  PROVE  \E h : AddsUpSets(h, f, S)
  <1> DEFINE Small(k) == {s \in SUBSET S : Cardinality(s) <= k}
             At(h, s) == IF s = {} THEN 0 ELSE f[Some(s)] + h[s \ {Some(s)}]
             Good(k) == \E h : h = [s \in Small(k) |-> At(h, s)]
             N == {k \in Nat : Good(k)}
  <1>1. \A s \in SUBSET S : IsFiniteSet(s) /\ Cardinality(s) \in Nat
    BY FS_Subset, FS_CardinalityType
  <1>2. 0 \in N
    <2>1. \A s \in Small(0) : s = {}
      BY <1>1, FS_EmptySet
    <2> DEFINE h == [s \in Small(0) |-> 0]
    <2>2. h = [s \in Small(0) |-> At(h, s)]
      BY <2>1
    <2> QED BY <2>2
  <1>3. ASSUME NEW k \in Nat, k \in N PROVE k + 1 \in N
    <2>1. PICK h : h = [s \in Small(k) |-> At(h, s)]
      BY <1>3
    <2> DEFINE g == [s \in Small(k + 1) |-> IF Cardinality(s) <= k THEN h[s]
                                            ELSE f[Some(s)] + h[s \ {Some(s)}]]
    <2>2. ASSUME NEW s \in Small(k + 1) PROVE g[s] = At(g, s)
      <3>1. CASE s = {}
        <4>1. s \in Small(k)
          BY <3>1, FS_EmptySet
        <4> QED BY <2>1, <3>1, <4>1
      <3>2. CASE s # {}
        <4> DEFINE r == s \ {Some(s)}
        <4>1. r \in SUBSET S /\ Cardinality(r) = Cardinality(s) - 1 /\ Cardinality(s) \in Nat
          BY <1>1, <3>2, OneLess
        <4>2. r \in Small(k) /\ r \in Small(k + 1)
          BY <4>1
        <4>3. g[r] = h[r]
          BY <4>2
        <4>4. Cardinality(s) <= k => g[s] = h[s] /\ h[s] = f[Some(s)] + h[r]
          <5> SUFFICES ASSUME Cardinality(s) <= k PROVE g[s] = h[s] /\ h[s] = f[Some(s)] + h[r]
            OBVIOUS
          <5>1. s \in Small(k)
            OBVIOUS
          <5> QED BY <2>1, <3>2, <5>1
        <4>5. g[s] = f[Some(s)] + h[r]
          BY <4>4
        <4> HIDE DEF g
        <4> QED BY <3>2, <4>3, <4>5
      <3> QED BY <3>1, <3>2
    <2>3. g = [s \in Small(k + 1) |-> At(g, s)]
      BY <2>2
    <2> HIDE DEF g, At, Small
    <2>4. Good(k + 1)
      BY <2>3, Zenon
    <2> QED BY <2>4
  <1>4. Cardinality(S) \in N
    <2> HIDE DEF N
    <2> QED BY <1>2, <1>3, SetInduction, FS_CardinalityType
  <1>5. Small(Cardinality(S)) = SUBSET S
    BY FS_Subset
  <1>6. PICK h : h = [s \in Small(Cardinality(S)) |-> At(h, s)]
    BY <1>4
  <1>7. h = [s \in SUBSET S |-> At(h, s)]
    BY <1>5, <1>6
  <1> QED BY <1>7 DEF AddsUpSets

\* A product distributes over a sum.
LEMMA Distributes ==
  ASSUME NEW a \in Int, NEW b \in Int, NEW c \in Int
  PROVE  /\ (a + b) * c = a * c + b * c /\ c * (a + b) = c * a + c * b
         /\ a * c \in Int /\ b * c \in Int /\ a * c = c * a
  BY Z3

\* Numbers add up to a number, no number at all to 0, and shares that are each
\* at most b to at most as many times b.
LEMMA SumsBounded ==
  ASSUME NEW S, IsFiniteSet(S), NEW f \in [S -> Nat], NEW h, AddsUpSets(h, f, S)
  PROVE  /\ h[S] \in Nat
         /\ S = {} => h[S] = 0
         /\ \A c \in Nat, b \in Nat :
              (\A x \in S : f[x] * c <= b) => h[S] * c <= Cardinality(S) * b
  <1> DEFINE Bounded(s, c, b) == (\A x \in S : f[x] * c <= b) => h[s] * c <= Cardinality(s) * b
             Good(s) == h[s] \in Nat /\ \A c \in Nat, b \in Nat : Bounded(s, c, b)
             N == {k \in Nat : \A s \in SUBSET S : Cardinality(s) = k => Good(s)}
  <1>1. \A s \in SUBSET S : IsFiniteSet(s) /\ Cardinality(s) \in Nat
    BY FS_Subset, FS_CardinalityType
  <1>2. h[{}] = 0 /\ \A s \in SUBSET S : s # {} => h[s] = f[Some(s)] + h[s \ {Some(s)}]
    <2>1. {} \in SUBSET S
      OBVIOUS
    <2> QED BY <2>1 DEF AddsUpSets
  <1>3. 0 \in N
    <2> SUFFICES ASSUME NEW s \in SUBSET S, Cardinality(s) = 0 PROVE Good(s)
      OBVIOUS
    <2>1. s = {}
      BY <1>1, FS_EmptySet
    <2>2. h[s] = 0
      BY <1>2, <2>1
    <2>3. \A c \in Nat, b \in Nat : 0 * c = 0 /\ 0 * b = 0
      OBVIOUS
    <2> QED BY <2>2, <2>3
  <1>4. ASSUME NEW k \in Nat, k \in N PROVE k + 1 \in N
    <2> SUFFICES ASSUME NEW s \in SUBSET S, Cardinality(s) = k + 1 PROVE Good(s)
      OBVIOUS
    <2> DEFINE x == Some(s)
               r == s \ {Some(s)}
    <2>1. s # {}
      BY FS_EmptySet
    <2>2. x \in S /\ f[x] \in Nat /\ r \in SUBSET S /\ Cardinality(r) = k
      BY <1>1, <2>1, OneLess
    <2>3. Good(r)
      BY <1>4, <2>2
    <2>4. h[s] = f[x] + h[r]
      BY <1>2, <2>1
    <2>5. h[r] \in Nat /\ h[s] \in Nat
      BY <2>2, <2>3, <2>4
    <2>6. ASSUME NEW c \in Nat, NEW b \in Nat, \A y \in S : f[y] * c <= b
          PROVE  h[s] * c <= (k + 1) * b
      <3>1. f[x] * c <= b
        BY <2>2, <2>6
      <3>2. h[r] * c <= k * b
        BY <2>2, <2>3, <2>6
      <3> HIDE DEF x, r
      <3>3. h[s] * c = f[x] * c + h[r] * c /\ f[x] * c \in Int /\ h[r] * c \in Int
        BY <2>2, <2>4, <2>5, Distributes
      <3>4. (k + 1) * b = k * b + 1 * b /\ k * b \in Int /\ 1 * b = b
        BY Distributes
      <3> QED BY <3>1, <3>2, <3>3, <3>4
    <2> QED BY <2>5, <2>6
  <1>5. \A k \in Nat : k \in N
    <2> HIDE DEF N
    <2> QED BY <1>3, <1>4, SetInduction
  <1>6. Good(S)
    BY <1>1, <1>5
  <1>7. S = {} => h[S] = 0
    BY <1>2
  <1> QED BY <1>6, <1>7

\* Who has the members before it counted has a number of its own.
LEMMA PlacesDiffer ==
  ASSUME NEW R, IsFiniteSet(R), NEW below \in [R -> SUBSET R],
         \A x \in R : x \notin below[x],
         \A x, y \in R : x # y => x \in below[y] \/ y \in below[x],
         \A x, y \in R : x \in below[y] => below[x] \subseteq below[y]
  PROVE  /\ \A x \in R : Cardinality(below[x]) \in Nat /\ Cardinality(below[x]) < Cardinality(R)
         /\ \A x, y \in R : Cardinality(below[x]) = Cardinality(below[y]) => x = y
  <1>1. ASSUME NEW S \in SUBSET R, NEW T \in SUBSET R, S \subseteq T, S # T
        PROVE  Cardinality(S) < Cardinality(T)
    <2>1. IsFiniteSet(T)
      BY FS_Subset
    <2> QED BY <1>1, <2>1, FS_Subset, FS_CardinalityType
  <1>2. \A x \in R : below[x] \in SUBSET R /\ IsFiniteSet(below[x]) /\ Cardinality(below[x]) \in Nat
    BY FS_Subset, FS_CardinalityType
  <1>3. \A x \in R : Cardinality(below[x]) < Cardinality(R)
    <2> SUFFICES ASSUME NEW x \in R PROVE Cardinality(below[x]) < Cardinality(R)
      OBVIOUS
    <2>1. below[x] # R
      OBVIOUS
    <2> QED BY <1>1, <1>2, <2>1
  <1>4. ASSUME NEW x \in R, NEW y \in R, x \in below[y] PROVE Cardinality(below[x]) < Cardinality(below[y])
    <2>1. below[x] \subseteq below[y] /\ below[x] # below[y]
      BY <1>4
    <2> QED BY <1>1, <1>2, <2>1
  <1>5. ASSUME NEW x \in R, NEW y \in R, x # y PROVE Cardinality(below[x]) # Cardinality(below[y])
    <2>1. Cardinality(below[x]) < Cardinality(below[y]) \/ Cardinality(below[y]) < Cardinality(below[x])
      BY <1>4, <1>5
    <2> QED BY <1>2, <2>1
  <1> QED BY <1>2, <1>3, <1>5
=============================================================================
