-------------------------- MODULE Pages_proofs ---------------------------
(***************************************************************************)
(* Proofs about what the panel shows of its nodes: their live log          *)
(* (LiveLog) and the load of each config (ConfigLoad), for any number of   *)
(* handlers, readers, nodes and hosts, any sizes of the ring, the batches  *)
(* and the list, and any faults.                                           *)
(***************************************************************************)
EXTENDS LiveLog, ConfigLoad, SetFacts, SequenceTheorems, TLAPS

-----------------------------------------------------------------------------
(***************************************************************************)
(* LiveLog: lines are stored once and in order, and no poll skips one.     *)
(***************************************************************************)

(* Sequences of line ids                                                    *)

Increasing(s) == \A i, j \in 1..Len(s) : i < j => s[i] < s[j]

\* No line is missing in s but after an id of P.
GapsOnlyAfter(s, P) == \A i \in 1..Len(s) - 1 : s[i + 1] # s[i] + 1 => s[i] \in P
Consecutive(s) == GapsOnlyAfter(s, {})

\* What Only collects up to line i: a recursion over the lines.
Collects(f, lines, ids) ==
  /\ DOMAIN f = 0..Len(lines)
  /\ f[0] = <<>>
  /\ \A i \in 1..Len(lines) :
       f[i] = IF lines[i] \in ids THEN Append(f[i - 1], lines[i]) ELSE f[i - 1]

LEMMA OnlyCollects ==
  ASSUME NEW T, NEW lines \in Seq(T), NEW ids
  PROVE  \E f : Collects(f, lines, ids) /\ Only(lines, ids) = f[Len(lines)]
  <1> DEFINE N == Len(lines)
             At(f, i) == IF i = 0 THEN <<>>
                         ELSE IF lines[i] \in ids THEN Append(f[i - 1], lines[i]) ELSE f[i - 1]
             Partial(k) == {f \in [0..k -> Seq(T)] : \A i \in 0..k : f[i] = At(f, i)}
             S == {k \in Nat : k <= N => Partial(k) # {}}
  <1>1. 0 \in S
    <2>1. [i \in 0..0 |-> <<>>] \in Partial(0)
      OBVIOUS
    <2> QED BY <2>1
  <1>2. ASSUME NEW k \in Nat, k \in S PROVE k + 1 \in S
    <2> SUFFICES ASSUME k + 1 <= N PROVE Partial(k + 1) # {}
      OBVIOUS
    <2>1. PICK f \in Partial(k) : TRUE
      <3> HIDE DEF Partial
      <3>1. k <= N
        OBVIOUS
      <3>2. Partial(k) # {}
        BY <1>2, <3>1
      <3> QED BY <3>2
    <2> DEFINE new == IF lines[k + 1] \in ids THEN Append(f[k], lines[k + 1]) ELSE f[k]
               g == [i \in 0..k + 1 |-> IF i = k + 1 THEN new ELSE f[i]]
    <2>2. lines[k + 1] \in T /\ f[k] \in Seq(T)
      OBVIOUS
    <2>3. new \in Seq(T)
      BY <2>2
    <2>4. g \in [0..k + 1 -> Seq(T)]
      <3> HIDE DEF new
      <3> QED BY <2>3
    <2>5. ASSUME NEW i \in 0..k + 1 PROVE g[i] = At(g, i)
      <3>1. CASE i = k + 1
        <4>1. g[i - 1] = f[k] /\ i # 0
          BY <3>1
        <4> QED BY <3>1, <4>1
      <3>2. CASE i # k + 1
        <4>1. i \in 0..k /\ (i # 0 => i - 1 \in 0..k /\ i - 1 # k + 1)
          BY <3>2
        <4>2. g[i] = f[i] /\ (i # 0 => g[i - 1] = f[i - 1])
          BY <4>1
        <4>3. f[i] = At(f, i)
          BY <4>1
        <4> QED BY <4>2, <4>3
      <3> QED BY <3>1, <3>2
    <2>6. g \in Partial(k + 1)
      <3> HIDE DEF g
      <3> QED BY <2>4, <2>5
    <2> QED BY <2>6
  <1>3. N \in S
    <2> HIDE DEF S
    <2> QED BY <1>1, <1>2, SetInduction
  <1>4. PICK g \in Partial(N) : TRUE
    BY <1>3
  <1> DEFINE only == CHOOSE f : f = [i \in 0..N |-> At(f, i)]
  <1>5. g = [i \in 0..N |-> At(g, i)]
    BY <1>4
  <1>6. only = [i \in 0..N |-> At(only, i)]
    BY <1>5
  <1>7. Only(lines, ids) = only[N]
    BY DEF Only
  <1> HIDE DEF only
  <1>8. Collects(only, lines, ids)
    <2>1. DOMAIN only = 0..N /\ only[0] = <<>>
      BY <1>6
    <2>2. ASSUME NEW i \in 1..N
          PROVE  only[i] = IF lines[i] \in ids THEN Append(only[i - 1], lines[i]) ELSE only[i - 1]
      <3>1. i \in 0..N /\ i # 0
        OBVIOUS
      <3> QED BY <1>6, <3>1
    <2> QED BY <2>1, <2>2 DEF Collects
  <1> QED BY <1>7, <1>8

LEMMA SetOf ==
  ASSUME NEW T, NEW s \in Seq(T)
  PROVE  ToSet(s) = {s[i] : i \in 1..Len(s)}
  BY DEF ToSet

LEMMA EmptyFacts ==
  ASSUME NEW T
  PROVE  /\ <<>> \in Seq(T) /\ Len(<<>>) = 0 /\ ToSet(<<>>) = {}
         /\ Increasing(<<>>) /\ \A P : GapsOnlyAfter(<<>>, P)
  BY DEF ToSet, Increasing, GapsOnlyAfter

LEMMA AppendFacts ==
  ASSUME NEW T, NEW s \in Seq(T), NEW x \in T
  PROVE  /\ Append(s, x) \in Seq(T) /\ Len(Append(s, x)) = Len(s) + 1
         /\ Append(s, x)[Len(s) + 1] = x
         /\ \A k \in 1..Len(s) : Append(s, x)[k] = s[k]
         /\ ToSet(Append(s, x)) = ToSet(s) \cup {x}
  <1> DEFINE t == Append(s, x)
             n == Len(s)
  <1>1. t \in Seq(T) /\ Len(t) = n + 1 /\ t[n + 1] = x /\ \A k \in 1..n : t[k] = s[k]
    OBVIOUS
  <1>2. ToSet(t) = {t[k] : k \in 1..n + 1} /\ ToSet(s) = {s[k] : k \in 1..n}
    BY <1>1, SetOf
  <1>3. n \in Nat
    OBVIOUS
  <1> HIDE DEF t, n
  <1>4. 1..n + 1 = 1..n \cup {n + 1}
    BY <1>3
  <1>5. \A y : y \in ToSet(t) <=> y \in ToSet(s) \cup {x}
    BY <1>1, <1>2, <1>4
  <1>6. ToSet(t) = ToSet(s) \cup {x}
    BY <1>5
  <1> QED BY <1>1, <1>6 DEF t, n

\* Only keeps the order and drops what has another id.
LEMMA OnlyFacts ==
  ASSUME NEW T, T \subseteq Nat, NEW lines \in Seq(T), NEW ids
  PROVE  /\ Only(lines, ids) \in Seq(T)
         /\ ToSet(Only(lines, ids)) = ToSet(lines) \cap ids
         /\ Len(Only(lines, ids)) <= Len(lines)
         /\ Increasing(lines) => Increasing(Only(lines, ids))
  <1> DEFINE N == Len(lines)
  <1>1. PICK f : Collects(f, lines, ids) /\ Only(lines, ids) = f[N]
    BY OnlyCollects
  <1> DEFINE Seen(i) == {lines[j] : j \in 1..i}
             Good(i) == /\ f[i] \in Seq(T) /\ Len(f[i]) <= i
                        /\ ToSet(f[i]) = Seen(i) \cap ids
                        /\ Increasing(lines) => Increasing(f[i])
             S == {i \in Nat : i <= N => Good(i)}
  <1>2. 0 \in S
    <2>1. f[0] = <<>> /\ Seen(0) = {}
      BY <1>1 DEF Collects
    <2> HIDE DEF Seen
    <2>2. f[0] \in Seq(T) /\ Len(f[0]) = 0 /\ ToSet(f[0]) = {} /\ Increasing(f[0])
      BY <2>1, EmptyFacts
    <2>3. Good(0)
      BY <2>1, <2>2
    <2> HIDE DEF Good
    <2> QED BY <2>3
  <1>3. ASSUME NEW i \in Nat, i \in S PROVE i + 1 \in S
    <2> SUFFICES ASSUME i + 1 <= N PROVE Good(i + 1)
      OBVIOUS
    <2> DEFINE x == lines[i + 1]
    <2>1. Good(i) /\ x \in T /\ i + 1 \in 1..N /\ (i + 1) - 1 = i
      BY <1>3
    <2>2. f[i + 1] = IF x \in ids THEN Append(f[i], x) ELSE f[i]
      BY <1>1, <2>1 DEF Collects
    <2>3. Seen(i + 1) = Seen(i) \cup {x}
      OBVIOUS
    <2>4. CASE x \in ids
      <3>1. f[i + 1] = Append(f[i], x) /\ f[i] \in Seq(T)
        BY <2>1, <2>2, <2>4
      <3>2. Len(f[i + 1]) = Len(f[i]) + 1 /\ f[i + 1] \in Seq(T)
        BY <2>1, <3>1
      <3>3. f[i + 1][Len(f[i]) + 1] = x /\ \A k \in 1..Len(f[i]) : f[i + 1][k] = f[i][k]
        BY <3>1
      <3>4. ToSet(f[i + 1]) = ToSet(f[i]) \cup {x}
        BY <2>1, <3>1, AppendFacts
      <3>5. ASSUME Increasing(lines) PROVE Increasing(f[i + 1])
        <4>1. \A k \in 1..Len(f[i]) : f[i][k] < x
          <5> TAKE k \in 1..Len(f[i])
          <5>1. f[i][k] \in Seen(i)
            BY <2>1, SetOf
          <5>2. PICK j \in 1..i : f[i][k] = lines[j]
            BY <5>1
          <5> QED BY <2>1, <3>5, <5>2 DEF Increasing
        <4>2. Increasing(f[i])
          BY <2>1, <3>5
        <4> SUFFICES ASSUME NEW j \in 1..Len(f[i]) + 1, NEW k \in 1..Len(f[i]) + 1, j < k
                     PROVE  f[i + 1][j] < f[i + 1][k]
          BY <3>2 DEF Increasing
        <4>3. j \in 1..Len(f[i]) /\ f[i + 1][j] = f[i][j]
          BY <3>1, <3>3
        <4>4. CASE k = Len(f[i]) + 1
          BY <3>3, <4>1, <4>3, <4>4
        <4>5. CASE k \in 1..Len(f[i])
          BY <3>3, <4>2, <4>3, <4>5 DEF Increasing
        <4> QED BY <4>4, <4>5
      <3>6. ToSet(f[i + 1]) = Seen(i + 1) \cap ids
        <4> HIDE DEF Seen, x
        <4> QED BY <2>1, <2>3, <2>4, <3>4
      <3> QED BY <2>1, <3>2, <3>5, <3>6
    <2>5. CASE x \notin ids
      <3>1. f[i + 1] = f[i]
        BY <2>2, <2>5
      <3>2. Seen(i + 1) \cap ids = Seen(i) \cap ids
        <4> HIDE DEF Seen, x
        <4> QED BY <2>3, <2>5
      <3> HIDE DEF Seen, x
      <3> QED BY <2>1, <3>1, <3>2
    <2> QED BY <2>4, <2>5
  <1>4. N \in Nat /\ N \in S
    <2> HIDE DEF S
    <2> QED BY <1>2, <1>3, SetInduction
  <1>5. Good(N)
    BY <1>4
  <1>6. Seen(N) = ToSet(lines)
    BY DEF ToSet
  <1> HIDE DEF Seen
  <1> QED BY <1>1, <1>5, <1>6

\* t is what s has from place d + 1 on.
Part(t, s, d) == Len(t) + d <= Len(s) /\ \A i \in 1..Len(t) : t[i] = s[i + d]

\* LastOf is a tail, FirstOf a prefix.
LEMMA LastOfFacts ==
  ASSUME NEW T, NEW s \in Seq(T), NEW n \in Nat \ {0}
  PROVE  LET t == LastOf(s, n)
         IN /\ t \in Seq(T) /\ Len(t) <= n
            /\ Len(s) <= n => t = s
            /\ Len(s) > n => Len(t) = n
            /\ \E d \in Nat : Part(t, s, d) /\ Len(t) + d = Len(s)
  <1>1. CASE Len(s) > n
    <2> DEFINE d == Len(s) - n
               t == SubSeq(s, d + 1, Len(s))
    <2>1. d \in Nat /\ d + 1 \in 1..Len(s) /\ Len(s) = n + d
      BY <1>1
    <2>2. t \in Seq(T) /\ Len(t) = n
      BY <2>1
    <2>3. \A i \in 1..n : t[i] = s[i + d]
      BY <2>1, <2>2
    <2>4. LastOf(s, n) = t
      BY <1>1, <2>1 DEF LastOf
    <2>5. Part(t, s, d) /\ Len(t) + d = Len(s)
      <3> HIDE DEF t, d
      <3> QED BY <2>1, <2>2, <2>3 DEF Part
    <2>6. \E e \in Nat : Part(t, s, e) /\ Len(t) + e = Len(s)
      <3> HIDE DEF t, d
      <3> QED BY <2>1, <2>5
    <2>7. ~ (Len(s) <= n) /\ Len(t) <= n
      BY <1>1, <2>2
    <2> HIDE DEF t, d
    <2> QED BY <1>1, <2>2, <2>4, <2>6, <2>7, Zenon
  <1>2. CASE Len(s) <= n
    <2>1. LastOf(s, n) = s
      BY <1>2 DEF LastOf
    <2>2. Part(s, s, 0) /\ Len(s) + 0 = Len(s) /\ 0 \in Nat
      BY DEF Part
    <2>3. \E e \in Nat : Part(s, s, e) /\ Len(s) + e = Len(s)
      BY <2>2
    <2>4. ~ (Len(s) > n)
      BY <1>2
    <2> QED BY <1>2, <2>1, <2>3, <2>4, Zenon
  <1> QED BY <1>1, <1>2

LEMMA FirstOfFacts ==
  ASSUME NEW T, NEW s \in Seq(T), NEW n \in Nat \ {0}
  PROVE  LET t == FirstOf(s, n)
         IN /\ t \in Seq(T) /\ Len(t) <= n
            /\ s # <<>> => t # <<>>
            /\ Part(t, s, 0)
  <1>1. CASE Len(s) > n
    <2>1. FirstOf(s, n) = SubSeq(s, 1, n)
      BY <1>1 DEF FirstOf
    <2>2. SubSeq(s, 1, n) \in Seq(T) /\ Len(SubSeq(s, 1, n)) = n
      BY <1>1
    <2>3. \A i \in 1..n : SubSeq(s, 1, n)[i] = s[i]
      BY <1>1, <2>2
    <2>4. SubSeq(s, 1, n) # <<>>
      BY <2>2, EmptyFacts
    <2>5. Part(SubSeq(s, 1, n), s, 0)
      BY <1>1, <2>2, <2>3 DEF Part
    <2> QED BY <1>1, <2>1, <2>2, <2>4, <2>5
  <1>2. CASE Len(s) <= n
    <2>1. FirstOf(s, n) = s
      BY <1>2 DEF FirstOf
    <2>2. Part(s, s, 0)
      BY DEF Part
    <2> QED BY <1>2, <2>1, <2>2
  <1> QED BY <1>1, <1>2

\* A part of a sequence inherits its order, its gaps and its lines.
LEMMA PartFacts ==
  ASSUME NEW T, T \subseteq Nat, NEW s \in Seq(T), NEW t \in Seq(T), NEW d \in Nat,
         Part(t, s, d)
  PROVE  /\ ToSet(t) \subseteq ToSet(s)
         /\ Increasing(s) => Increasing(t)
         /\ \A P : GapsOnlyAfter(s, P) => GapsOnlyAfter(t, P)
  <1>0. /\ Len(s) \in Nat /\ Len(t) \in Nat
        /\ \A i \in 1..Len(t) : i + d \in 1..Len(s) /\ t[i] = s[i + d]
    <2> DEFINE m == Len(s)
               k == Len(t)
    <2>1. m \in Nat /\ k \in Nat
      OBVIOUS
    <2>2. k + d <= m /\ \A i \in 1..k : t[i] = s[i + d]
      BY DEF Part
    <2> SUFFICES m \in Nat /\ k \in Nat /\ \A i \in 1..k : i + d \in 1..m /\ t[i] = s[i + d]
      OBVIOUS
    <2>3. \A i \in 1..k : i + d \in 1..m
      <3> HIDE DEF m, k
      <3> QED BY <2>1, <2>2
    <2> HIDE DEF m, k
    <2> QED BY <2>1, <2>2, <2>3, Zenon
  <1>1. ToSet(t) \subseteq ToSet(s)
    <2> SUFFICES ASSUME NEW y \in ToSet(t) PROVE y \in ToSet(s)
      OBVIOUS
    <2>1. ToSet(t) = {t[i] : i \in 1..Len(t)} /\ ToSet(s) = {s[i] : i \in 1..Len(s)}
      BY SetOf
    <2>2. PICK i \in 1..Len(t) : y = t[i]
      BY <2>1
    <2>3. y = s[i + d] /\ i + d \in 1..Len(s)
      BY <1>0, <2>2
    <2> QED BY <2>1, <2>3
  <1>2. Increasing(s) => Increasing(t)
    BY <1>0 DEF Increasing
  <1>3. ASSUME NEW P, GapsOnlyAfter(s, P) PROVE GapsOnlyAfter(t, P)
    <2> SUFFICES ASSUME NEW i \in 1..Len(t) - 1, t[i + 1] # t[i] + 1 PROVE t[i] \in P
      BY DEF GapsOnlyAfter
    <2>1. i \in 1..Len(t) /\ i + 1 \in 1..Len(t) /\ i + d \in 1..Len(s) - 1 /\ (i + 1) + d = (i + d) + 1
      BY <1>0
    <2>2. t[i] = s[i + d] /\ t[i + 1] = s[(i + d) + 1]
      BY <1>0, <2>1
    <2> QED BY <1>3, <2>1, <2>2 DEF GapsOnlyAfter
  <1> QED BY <1>1, <1>2, <1>3

LEMMA LastOfKeeps ==
  ASSUME NEW T, T \subseteq Nat, NEW s \in Seq(T), NEW n \in Nat \ {0}
  PROVE  LET t == LastOf(s, n)
         IN /\ t \in Seq(T) /\ Len(t) <= n
            /\ ToSet(t) \subseteq ToSet(s)
            /\ Increasing(s) => Increasing(t)
            /\ \A P : GapsOnlyAfter(s, P) => GapsOnlyAfter(t, P)
            /\ s # <<>> => t # <<>> /\ t[Len(t)] = s[Len(s)]
            /\ s = <<>> => t = <<>>
  <1> DEFINE t == LastOf(s, n)
  <1>1. /\ t \in Seq(T) /\ Len(t) <= n
        /\ Len(s) <= n => t = s
        /\ Len(s) > n => Len(t) = n
        /\ \E d \in Nat : Part(t, s, d) /\ Len(t) + d = Len(s)
    BY LastOfFacts
  <1> HIDE DEF t
  <1>2. PICK d \in Nat : Part(t, s, d) /\ Len(t) + d = Len(s)
    BY <1>1
  <1>3. /\ ToSet(t) \subseteq ToSet(s)
        /\ Increasing(s) => Increasing(t)
        /\ \A P : GapsOnlyAfter(s, P) => GapsOnlyAfter(t, P)
    BY <1>1, <1>2, PartFacts
  <1>4. ASSUME s # <<>> PROVE t # <<>> /\ t[Len(t)] = s[Len(s)]
    <2>1. Len(s) > 0 /\ Len(t) \in Nat
      BY <1>1, <1>4
    <2>2. Len(t) > 0
      BY <1>1, <2>1
    <2>3. Len(t) \in 1..Len(t)
      BY <2>1, <2>2
    <2> QED BY <1>2, <2>1, <2>2, <2>3, EmptyFacts DEF Part
  <1>5. s = <<>> => t = <<>>
    BY <1>1, EmptyFacts
  <1> QED BY <1>1, <1>3, <1>4, <1>5 DEF t

LEMMA FirstOfKeeps ==
  ASSUME NEW T, T \subseteq Nat, NEW s \in Seq(T), NEW n \in Nat \ {0}
  PROVE  LET t == FirstOf(s, n)
         IN /\ t \in Seq(T) /\ Len(t) <= n
            /\ ToSet(t) \subseteq ToSet(s)
            /\ Increasing(s) => Increasing(t)
            /\ \A P : GapsOnlyAfter(s, P) => GapsOnlyAfter(t, P)
            /\ s # <<>> => t # <<>> /\ t[1] = s[1]
            /\ s = <<>> => t = <<>>
  <1> DEFINE t == FirstOf(s, n)
  <1>1. /\ t \in Seq(T) /\ Len(t) <= n
        /\ s # <<>> => t # <<>>
        /\ Part(t, s, 0)
    BY FirstOfFacts
  <1> HIDE DEF t
  <1>2. /\ ToSet(t) \subseteq ToSet(s)
        /\ Increasing(s) => Increasing(t)
        /\ \A P : GapsOnlyAfter(s, P) => GapsOnlyAfter(t, P)
    BY <1>1, PartFacts
  <1>3. s # <<>> => t # <<>> /\ t[1] = s[1]
    <2>1. t # <<>> => 1 \in 1..Len(t)
      BY <1>1
    <2> QED BY <1>1, <2>1 DEF Part
  <1>4. s = <<>> => t = <<>>
    BY <1>1, EmptyFacts DEF Part
  <1> QED BY <1>1, <1>2, <1>3, <1>4 DEF t

\* An increasing sequence climbs by one or more each line, ...
LEMMA Climbs ==
  ASSUME NEW s \in Seq(Nat), Increasing(s)
  PROVE  \A i \in 1..Len(s) : s[i] >= s[1] + i - 1
  <1> DEFINE n == Len(s)
             S == {k \in Nat : k + 1 <= n => s[k + 1] >= s[1] + k}
  <1>1. 0 \in S
    OBVIOUS
  <1>2. ASSUME NEW k \in Nat, k \in S PROVE k + 1 \in S
    <2> SUFFICES ASSUME (k + 1) + 1 <= n PROVE s[(k + 1) + 1] >= s[1] + (k + 1)
      OBVIOUS
    <2>1. k + 1 \in 1..n /\ (k + 1) + 1 \in 1..n /\ 1 \in 1..n
      OBVIOUS
    <2>2. s[k + 1] < s[(k + 1) + 1]
      BY <2>1 DEF Increasing
    <2>3. s[k + 1] \in Nat /\ s[(k + 1) + 1] \in Nat /\ s[1] \in Nat
      BY <2>1
    <2> QED BY <1>2, <2>2, <2>3
  <1>3. \A k \in Nat : k \in S
    <2> HIDE DEF S
    <2> QED BY <1>1, <1>2, SetInduction
  <1>4. n \in Nat
    OBVIOUS
  <1>5. ASSUME NEW i \in 1..n PROVE s[i] >= s[1] + i - 1
    <2>1. i - 1 \in Nat /\ (i - 1) + 1 = i /\ i - 1 \in S
      BY <1>3, <1>4
    <2>2. s[i] \in Nat /\ s[1] \in Nat
      BY <1>4
    <2> QED BY <1>4, <2>1, <2>2
  <1> QED BY <1>5

\* ... one without gaps by exactly one.
LEMMA Counts ==
  ASSUME NEW s \in Seq(Nat), Consecutive(s)
  PROVE  \A i \in 1..Len(s) : s[i] = s[1] + i - 1
  <1> DEFINE n == Len(s)
             S == {k \in Nat : k + 1 <= n => s[k + 1] = s[1] + k}
  <1>1. 0 \in S
    OBVIOUS
  <1>2. ASSUME NEW k \in Nat, k \in S PROVE k + 1 \in S
    <2> SUFFICES ASSUME (k + 1) + 1 <= n PROVE s[(k + 1) + 1] = s[1] + (k + 1)
      OBVIOUS
    <2>1. k + 1 \in 1..n - 1 /\ k + 1 \in 1..n /\ 1 \in 1..n
      OBVIOUS
    <2>2. s[(k + 1) + 1] = s[k + 1] + 1
      BY <2>1 DEF Consecutive, GapsOnlyAfter
    <2>3. s[k + 1] \in Nat /\ s[1] \in Nat
      BY <2>1
    <2> QED BY <1>2, <2>1, <2>2, <2>3
  <1>3. \A k \in Nat : k \in S
    <2> HIDE DEF S
    <2> QED BY <1>1, <1>2, SetInduction
  <1>4. n \in Nat
    OBVIOUS
  <1>5. ASSUME NEW i \in 1..n PROVE s[i] = s[1] + i - 1
    <2>1. i - 1 \in Nat /\ (i - 1) + 1 = i /\ i - 1 \in S
      BY <1>3, <1>4
    <2>2. s[i] \in Nat /\ s[1] \in Nat
      BY <1>4
    <2> QED BY <1>4, <2>1, <2>2
  <1> QED BY <1>5

LEMMA StepOver ==
  ASSUME NEW x \in Nat, NEW j \in Nat, NEW k \in Nat, j < k, NEW y, NEW z, NEW w,
         y = x + j - 1, z = x + k - 1, w = x + (j + 1) - 1
  PROVE  w = y + 1 /\ w <= z
  OBVIOUS

LEMMA Within ==
  ASSUME NEW a \in Nat, NEW b \in Nat, NEW y \in a..b, NEW z \in a..b, NEW w,
         w = y + 1, w <= z
  PROVE  w \in a..b
  OBVIOUS

LEMMA SpanBounds ==
  ASSUME NEW x \in Nat, NEW m \in Nat, NEW n \in Nat, NEW j \in 1..m, NEW k \in 1..m,
         NEW y, NEW z, y = x + j - 1, z = x + k - 1, z >= y + n - 1
  PROVE  n <= m
  OBVIOUS

\* What an interval keeps of a run of lines is a run that is no longer.
LEMMA RunOfRun ==
  ASSUME NEW s \in Seq(Nat), Increasing(s), Consecutive(s),
         NEW t \in Seq(Nat), Increasing(t), NEW a \in Nat, NEW b \in Nat,
         ToSet(t) = ToSet(s) \cap (a..b)
  PROVE  Consecutive(t) /\ Len(t) <= Len(s)
  <1> DEFINE m == Len(s)
             n == Len(t)
  <1>1. m \in Nat /\ n \in Nat /\ (\A i \in 1..m : s[i] \in Nat) /\ (\A i \in 1..n : t[i] \in Nat)
    OBVIOUS
  <1>2. \A i \in 1..m : s[i] = s[1] + i - 1
    BY Counts
  <1>3. \A i \in 1..n : t[i] >= t[1] + i - 1
    BY Climbs
  <1>4. ToSet(s) = {s[i] : i \in 1..m} /\ ToSet(t) = {t[i] : i \in 1..n}
    BY SetOf
  <1>5. \A i, j \in 1..n : i < j => t[i] < t[j]
    BY DEF Increasing
  <1>6. (\A i \in 1..n - 1 : t[i + 1] = t[i] + 1) => Consecutive(t)
    BY DEF Consecutive, GapsOnlyAfter
  <1> HIDE DEF m, n
  <1>7. \A i \in 1..n : \E j \in 1..m : t[i] = s[j]
    BY <1>4
  <1>8. ASSUME NEW i \in 1..n - 1 PROVE t[i + 1] = t[i] + 1
    <2>1. i \in 1..n /\ i + 1 \in 1..n /\ t[i] < t[i + 1]
      BY <1>1, <1>5
    <2>2. PICK j \in 1..m, k \in 1..m : t[i] = s[j] /\ t[i + 1] = s[k]
      BY <1>7, <2>1
    <2>3. s[j] < s[k] /\ s[j] = s[1] + j - 1 /\ s[k] = s[1] + k - 1 /\ s[1] \in Nat
      BY <1>1, <1>2, <2>1, <2>2
    <2>4. j + 1 \in 1..m /\ j < k /\ j \in Nat /\ k \in Nat
      BY <1>1, <2>3
    <2>5. s[j + 1] = s[j] + 1 /\ s[j + 1] <= s[k]
      <3>1. s[j + 1] = s[1] + (j + 1) - 1
        BY <1>2, <2>4
      <3> QED BY <2>3, <2>4, <3>1, StepOver
    <2>6. t[i] \in a..b /\ t[i + 1] \in a..b
      BY <1>4, <2>1
    <2>7. s[j + 1] \in a..b
      BY <2>2, <2>5, <2>6, Within
    <2>8. s[j + 1] \in ToSet(t)
      BY <1>4, <2>4, <2>7
    <2>9. PICK h \in 1..n : t[h] = s[j + 1]
      BY <1>4, <2>8
    <2>10. t[i] < t[h]
      BY <1>1, <2>2, <2>5, <2>9
    <2>11. i < h
      BY <1>1, <1>5, <2>1, <2>10
    <2>12. i + 1 = h \/ t[i + 1] < t[h]
      BY <1>1, <1>5, <2>1, <2>11
    <2> QED BY <1>1, <2>1, <2>2, <2>5, <2>9, <2>12
  <1>9. n <= m
    <2>1. CASE n = 0
      BY <1>1, <2>1
    <2>2. CASE n # 0
      <3>1. 1 \in 1..n /\ n \in 1..n
        BY <1>1, <2>2
      <3>2. PICK j \in 1..m, k \in 1..m : t[1] = s[j] /\ t[n] = s[k]
        BY <1>7, <3>1
      <3>3. s[j] = s[1] + j - 1 /\ s[k] = s[1] + k - 1 /\ s[1] \in Nat
        BY <1>1, <1>2
      <3>4. t[n] >= t[1] + n - 1
        BY <1>3, <3>1
      <3> QED BY <1>1, <3>2, <3>3, <3>4, SpanBounds
    <2> QED BY <2>1, <2>2
  <1> QED BY <1>6, <1>8, <1>9 DEF m, n

LEMMA LeastFirst ==
  ASSUME NEW t \in Seq(Nat), Increasing(t), NEW x \in ToSet(t), \A y \in ToSet(t) : x <= y
  PROVE  t # <<>> /\ t[1] = x
  <1>1. ToSet(t) = {t[i] : i \in 1..Len(t)}
    BY SetOf
  <1>2. PICK i \in 1..Len(t) : x = t[i]
    BY <1>1
  <1>3. 1 \in 1..Len(t) /\ i \in Nat /\ t[1] \in Nat /\ t[i] \in Nat
    BY <1>2
  <1>4. x <= t[1]
    BY <1>1, <1>3
  <1>5. i = 1 \/ t[1] < t[i]
    BY <1>2, <1>3 DEF Increasing
  <1>6. t # <<>>
    BY <1>3, EmptyFacts
  <1> QED BY <1>2, <1>3, <1>4, <1>5, <1>6

-----------------------------------------------------------------------------
(* What is sent and what is stored of it                                    *)

Batch(t) == t \in Seq(Lines) /\ Increasing(t) /\ Consecutive(t)

\* The ids whose line, if there ever was one, has left the agent's ring.
PassedIds == {id \in Lines : id < OldestID \/ ring = <<>>}

\* The lines carry on after base, unless that is no line or one of P.
Follows(t, base, P) == t # <<>> => t[1] = base + 1 \/ base = 0 \/ base \in P

LEMMA LineFacts ==
  /\ Lines \subseteq Nat /\ MaxLines \in Nat
  /\ \A t : t \in Seq(Lines) => t \in Seq(Nat)
  /\ {RingCap, LogsFirst, LogsMax, RingSize, PageLimit} \subseteq Nat \ {0}
  /\ LogsFirst <= LogsMax /\ LogsMax <= RingSize
  BY SizesAssumption, BoundsAssumption, OrderAssumption DEF Lines

LEMMA NewerFacts ==
  ASSUME NEW s \in Seq(Lines), NEW after \in 0..MaxLines
  PROVE  LET t == Newer(s, after)
         IN /\ t \in Seq(Lines)
            /\ ToSet(t) = ToSet(s) \cap (after + 1..MaxLines)
            /\ Increasing(s) => Increasing(t)
            /\ Batch(s) => Batch(t)
            /\ Len(t) <= Len(s)
  <1> DEFINE t == Newer(s, after)
  <1>1. /\ t \in Seq(Lines) /\ Len(t) <= Len(s)
        /\ ToSet(t) = ToSet(s) \cap (after + 1..MaxLines)
        /\ Increasing(s) => Increasing(t)
    BY OnlyFacts, LineFacts DEF Newer
  <1>2. after + 1 \in Nat
    OBVIOUS
  <1> HIDE DEF t
  <1>3. ASSUME Batch(s) PROVE Batch(t)
    <2>1. s \in Seq(Nat) /\ t \in Seq(Nat)
      BY <1>1, LineFacts
    <2>2. Consecutive(t)
      BY <1>1, <1>2, <1>3, <2>1, RunOfRun, LineFacts DEF Batch
    <2> QED BY <1>1, <1>3, <2>2 DEF Batch
  <1> QED BY <1>1, <1>3 DEF t

LEMMA InOrderFacts ==
  ASSUME NEW ids, ids \subseteq Lines
  PROVE  InOrder(ids) \in Seq(Lines) /\ Increasing(InOrder(ids)) /\ ToSet(InOrder(ids)) = ids
  <1> DEFINE all == [n \in Lines |-> n]
  <1>1. all \in Seq(Lines) /\ Len(all) = MaxLines
    BY BoundsAssumption DEF Lines
  <1>2. \A i \in 1..MaxLines : all[i] = i
    BY DEF Lines
  <1>3. Increasing(all)
    BY <1>1, <1>2, BoundsAssumption DEF Increasing
  <1>4. ToSet(all) = Lines
    <2>1. ToSet(all) = {all[i] : i \in 1..MaxLines}
      BY <1>1, SetOf
    <2> QED BY <1>2, <2>1 DEF Lines
  <1>5. InOrder(ids) = Only(all, ids)
    BY DEF InOrder
  <1> HIDE DEF all
  <1>6. /\ Only(all, ids) \in Seq(Lines)
        /\ ToSet(Only(all, ids)) = ToSet(all) \cap ids
        /\ Increasing(all) => Increasing(Only(all, ids))
    BY <1>1, OnlyFacts, LineFacts
  <1>7. Lines \cap ids = ids
    OBVIOUS
  <1> QED BY <1>3, <1>4, <1>5, <1>6, <1>7

\* prepareNodeLogs keeps a run, what is newer than the cursor, all of it.
LEMMA PrepareFacts ==
  ASSUME NEW logs, Batch(logs), Len(logs) <= LogsMax, NEW after \in 0..MaxLines, NEW P
  PROVE  LET t == PrepareNodeLogs(logs, after)
         IN /\ Batch(t) /\ Len(t) <= LogsMax
            /\ ToSet(t) = {id \in ToSet(logs) : id > after}
            /\ Follows(logs, after, P) => Follows(t, after, P)
  <1> DEFINE ids == {id \in ToSet(logs) : id > after}
             t == InOrder(ids)
  <1>1. logs \in Seq(Lines) /\ logs \in Seq(Nat)
    BY LineFacts DEF Batch
  <1>2. ToSet(logs) \subseteq Lines
    BY <1>1, SetOf
  <1>3. ids = ToSet(logs) \cap (after + 1..MaxLines) /\ after + 1 \in Nat
    BY <1>2, LineFacts DEF Lines
  <1>4. t \in Seq(Lines) /\ Increasing(t) /\ ToSet(t) = ids
    <2> HIDE DEF ids
    <2> QED BY <1>2, <1>3, InOrderFacts
  <1> HIDE DEF t
  <1>5. Consecutive(t) /\ Len(t) <= Len(logs)
    BY <1>1, <1>3, <1>4, RunOfRun, LineFacts DEF Batch
  <1>6. Len(t) \in Nat /\ Len(logs) \in Nat
    BY <1>1, <1>4
  <1>7. Len(t) <= LogsMax /\ Len(t) <= RingSize
    BY <1>5, <1>6, LineFacts
  <1>8. PrepareNodeLogs(logs, after) = t
    BY <1>6, <1>7, LineFacts DEF PrepareNodeLogs, LastOf, t
  <1>9. ASSUME Follows(logs, after, P) PROVE Follows(t, after, P)
    <2> SUFFICES ASSUME t # <<>>, ~ (after = 0 \/ after \in P) PROVE t[1] = after + 1
      BY DEF Follows
    <2>1. logs # <<>>
      BY <1>5, <1>4, <1>6, EmptyFacts
    <2>2. logs[1] = after + 1
      BY <1>9, <2>1 DEF Follows
    <2>3. after + 1 \in ToSet(logs)
      <3>1. 1 \in 1..Len(logs)
        BY <1>1, <2>1
      <3> QED BY <1>1, <2>2, <3>1, SetOf
    <2>4. after + 1 \in ids
      BY <2>3
    <2>5. \A y \in ids : after + 1 <= y
      BY <1>2, <1>3
    <2>6. t \in Seq(Nat)
      BY <1>4, LineFacts
    <2> HIDE DEF ids
    <2> QED BY <1>4, <2>4, <2>5, <2>6, LeastFirst
  <1> QED BY <1>4, <1>5, <1>7, <1>8, <1>9 DEF Batch

\* The ring is a run that ends with the newest line.
RingInv ==
  /\ Batch(ring) /\ Len(ring) <= RingCap
  /\ ring # <<>> => ring[Len(ring)] = last /\ clock <= last

\* selectLiveLogs sends a run that carries on after the cursor, or the newest
\* lines if it cannot.
LEMMA SelectFacts ==
  ASSUME RingInv, NEW after \in 0..MaxLines
  PROVE  LET t == SelectLiveLogs(after)
         IN /\ Batch(t) /\ Len(t) <= LogsMax
            /\ ToSet(t) \subseteq ToSet(ring)
            /\ Follows(t, after, PassedIds)
  <1>1. ring \in Seq(Lines) /\ Increasing(ring) /\ GapsOnlyAfter(ring, {}) /\ Batch(ring)
    BY DEF RingInv, Batch, Consecutive
  <1>2. LogsFirst \in Nat \ {0} /\ LogsMax \in Nat \ {0} /\ LogsFirst <= LogsMax /\ Lines \subseteq Nat
    BY LineFacts
  <1>3. CASE after <= 0 \/ after < OldestID
    <2> DEFINE t == LastOf(ring, LogsFirst)
    <2>1. SelectLiveLogs(after) = t
      BY <1>3 DEF SelectLiveLogs
    <2>2. /\ t \in Seq(Lines) /\ Len(t) <= LogsFirst /\ ToSet(t) \subseteq ToSet(ring)
          /\ Increasing(t) /\ GapsOnlyAfter(t, {})
      BY <1>1, <1>2, LastOfKeeps
    <2> HIDE DEF t
    <2>3. Len(t) <= LogsMax
      BY <1>2, <2>2
    <2>4. Follows(t, after, PassedIds)
      <3>1. after = 0 \/ after \in PassedIds
        BY <1>3 DEF PassedIds, Lines
      <3> QED BY <3>1 DEF Follows
    <2> QED BY <2>1, <2>2, <2>3, <2>4 DEF Batch, Consecutive
  <1>4. CASE ~ (after <= 0 \/ after < OldestID)
    <2> DEFINE u == Newer(ring, after)
               t == FirstOf(u, LogsMax)
    <2>1. SelectLiveLogs(after) = t
      BY <1>4 DEF SelectLiveLogs
    <2>2. /\ u \in Seq(Lines) /\ Increasing(u) /\ GapsOnlyAfter(u, {})
          /\ ToSet(u) = ToSet(ring) \cap (after + 1..MaxLines)
      BY <1>1, NewerFacts DEF Batch, Consecutive
    <2> HIDE DEF u
    <2>3. /\ t \in Seq(Lines) /\ Len(t) <= LogsMax /\ ToSet(t) \subseteq ToSet(u)
          /\ Increasing(t) /\ GapsOnlyAfter(t, {})
          /\ u # <<>> => t # <<>> /\ t[1] = u[1]
          /\ u = <<>> => t = <<>>
      BY <1>2, <2>2, FirstOfKeeps
    <2> HIDE DEF t
    <2>4. ASSUME t # <<>> PROVE t[1] = after + 1
      <3>1. u # <<>>
        BY <2>3, <2>4
      <3>2. 1 \in 1..Len(u) /\ u[1] \in ToSet(u)
        <4>1. 1 \in 1..Len(u)
          BY <2>2, <3>1
        <4> QED BY <2>2, <4>1, SetOf
      <3>3. u[1] \in ToSet(ring) /\ u[1] \in after + 1..MaxLines
        BY <2>2, <3>2
      <3>4. ToSet(ring) = {ring[i] : i \in 1..Len(ring)} /\ Len(ring) \in Nat
        BY <1>1, SetOf
      <3>5. PICK i \in 1..Len(ring) : u[1] = ring[i]
        BY <3>3, <3>4
      <3>6. 1 \in 1..Len(ring) /\ ring # <<>>
        BY <3>4, EmptyFacts
      <3>7. ring[1] <= after /\ ring[1] \in Nat
        <4>1. OldestID = ring[1]
          BY <1>1, <3>6 DEF OldestID
        <4>2. ring[1] \in Lines
          BY <1>1, <3>6
        <4>3. after \in Nat
          OBVIOUS
        <4>4. ring[1] \in Nat
          BY <1>2, <4>2
        <4>5. ~ (after < ring[1])
          BY <1>4, <4>1, Zenon
        <4> QED BY <4>3, <4>4, <4>5
      <3>8. ring[i] = ring[1] + i - 1
        BY <1>1, Counts, LineFacts DEF Consecutive
      <3> DEFINE k == after + 1 - ring[1] + 1
      <3>9. k \in 1..Len(ring) /\ ring[1] + k - 1 = after + 1
        <4>1. after \in Nat /\ i \in Nat /\ i <= Len(ring) /\ u[1] \in Nat /\ after + 1 <= u[1]
          BY <3>3, <3>4
        <4> DEFINE x == ring[1]
                   y == u[1]
                   m == Len(ring)
        <4>2. y = x + i - 1 /\ x <= after /\ x \in Nat /\ m \in Nat /\ after + 1 <= y /\ i <= m
          BY <3>4, <3>5, <3>7, <3>8, <4>1
        <4> HIDE DEF x, y, m
        <4>3. after + 1 - x + 1 \in 1..m /\ x + (after + 1 - x + 1) - 1 = after + 1
          BY <4>1, <4>2
        <4> QED BY <4>3 DEF x, m
      <3> HIDE DEF k
      <3>10. ring[k] = after + 1
        BY <1>1, <3>9, Counts, LineFacts DEF Consecutive
      <3>11. after + 1 \in ToSet(ring)
        BY <3>4, <3>9, <3>10
      <3>12. after + 1 \in ToSet(u)
        <4>1. after + 1 \in after + 1..MaxLines
          BY <3>3, LineFacts
        <4> QED BY <2>2, <3>11, <4>1
      <3>13. \A y \in ToSet(u) : after + 1 <= y
        BY <2>2
      <3>14. u[1] = after + 1
        <4>1. u \in Seq(Nat)
          BY <2>2, LineFacts
        <4> QED BY <2>2, <3>12, <3>13, <4>1, LeastFirst
      <3> QED BY <2>3, <3>1, <3>14
    <2>5. Follows(t, after, PassedIds)
      BY <2>4 DEF Follows
    <2>6. ToSet(t) \subseteq ToSet(ring)
      BY <2>2, <2>3
    <2> QED BY <2>1, <2>3, <2>5, <2>6 DEF Batch, Consecutive
  <1> QED BY <1>3, <1>4

-----------------------------------------------------------------------------
(* The invariant                                                            *)

HandlerRec == [stage : {"idle", "sent", "read", "answered"}, base : 0..MaxLines,
               logs : Seq(Lines), after : 0..MaxLines, stream : BOOLEAN]

\* What a handler holds are lines given before id n; they carry on after what
\* the agent knew of the panel and, once the cursor is read, after that.
HandlerOK(h, n, P) ==
  /\ h \in HandlerRec
  /\ Batch(h.logs) /\ Len(h.logs) <= LogsMax
  /\ h.base < n /\ h.after < n /\ \A id \in ToSet(h.logs) : id < n
  /\ h.stage \in {"idle", "answered"} => h.logs = <<>>
  /\ h.stage = "sent" => Follows(h.logs, h.base, P)
  /\ h.stage = "read" =>
       /\ \A id \in ToSet(h.logs) : id > h.after
       /\ h.after = h.base => Follows(h.logs, h.base, P)

HandlersInv ==
  /\ handler \in [Slots -> HandlerRec]
  /\ \A s \in Slots : HandlerOK(handler[s], NewId, PassedIds)

SmallTypes ==
  /\ last \in 0..MaxLines /\ clock \in 1..MaxLines + 1
  /\ logStream \in BOOLEAN /\ logAfter \in 0..MaxLines
  /\ waiting \in Slots \cup {NoRequest}
  /\ seq \in 0..MaxLines /\ watched \in BOOLEAN /\ viewing \in BOOLEAN
  /\ behind \in {"never", "chosen", "read"}
  /\ next \in 0..MaxLines /\ page \subseteq Lines
  /\ faults \in 0..MaxFaults

\* The panel's list, the cursor and how far the batches have kept up with it.
StoredInv ==
  /\ stored \in Seq(Lines) /\ Len(stored) <= RingSize
  /\ seq < NewId /\ logAfter < NewId /\ \A id \in ToSet(stored) : id < NewId
  /\ behind # "read" => Increasing(stored) /\ (stored # <<>> => seq = stored[Len(stored)])
  /\ behind = "never" => GapsOnlyAfter(stored, PassedIds)

LogInv == SmallTypes /\ RingInv /\ HandlersInv /\ StoredInv

LEMMA NewIdFacts ==
  ASSUME SmallTypes
  PROVE  /\ NewId \in Nat \ {0} /\ clock <= NewId /\ last < NewId
         /\ clock \in Nat /\ last \in Nat
  BY DEF SmallTypes, NewId

\* More ids given and more of them passed: a handler stays as good as it was.
LEMMA HandlerGrows ==
  ASSUME NEW h, NEW n \in Nat, NEW m \in Nat, n <= m, NEW P, NEW Q,
         \A id \in P : id < n => id \in Q, HandlerOK(h, n, P)
  PROVE  HandlerOK(h, m, Q)
  <1>1. h \in HandlerRec /\ h.base \in Nat /\ h.after \in Nat /\ h.logs \in Seq(Nat)
    BY LineFacts DEF HandlerOK, HandlerRec
  <1>2. h.base < m /\ h.after < m
    BY <1>1 DEF HandlerOK
  <1>3. \A id \in ToSet(h.logs) : id < m
    <2>1. ToSet(h.logs) \subseteq Nat
      BY <1>1, SetOf
    <2> QED BY <2>1 DEF HandlerOK
  <1>4. Follows(h.logs, h.base, P) => Follows(h.logs, h.base, Q)
    BY DEF HandlerOK, Follows
  <1> QED BY <1>2, <1>3, <1>4 DEF HandlerOK

\* The same for what is stored.
LEMMA GapsGrow ==
  ASSUME NEW s \in Seq(Lines), NEW n, \A id \in ToSet(s) : id < n, NEW P, NEW Q,
         \A id \in P : id < n => id \in Q, GapsOnlyAfter(s, P)
  PROVE  GapsOnlyAfter(s, Q)
  <1> SUFFICES ASSUME NEW i \in 1..Len(s) - 1, s[i + 1] # s[i] + 1 PROVE s[i] \in Q
    BY DEF GapsOnlyAfter
  <1>1. i \in 1..Len(s)
    OBVIOUS
  <1>2. s[i] \in ToSet(s)
    BY <1>1, SetOf
  <1> QED BY <1>2 DEF GapsOnlyAfter

LEMMA IdleRec ==
  /\ Idle \in HandlerRec
  /\ Idle.stage = "idle" /\ Idle.base = 0 /\ Idle.logs = <<>> /\ Idle.after = 0 /\ Idle.stream = FALSE
  BY EmptyFacts, BoundsAssumption DEF Idle, HandlerRec

LEMMA IdleFacts ==
  ASSUME NEW n \in Nat \ {0}, NEW P
  PROVE  HandlerOK(Idle, n, P)
  <1>1. Idle \in HandlerRec
    BY EmptyFacts, BoundsAssumption DEF Idle, HandlerRec
  <1>2. Idle.logs = <<>> /\ Idle.base = 0 /\ Idle.after = 0 /\ Idle.stage = "idle"
    BY DEF Idle
  <1>3. Batch(<<>>)
    BY EmptyFacts DEF Batch, Consecutive
  <1>4. ToSet(<<>>) = {} /\ Len(<<>>) <= LogsMax
    BY EmptyFacts, LineFacts
  <1> QED BY <1>1, <1>2, <1>3, <1>4 DEF HandlerOK

\* One handler moves while the agent's ring stays.
LEMMA HandlerMoves ==
  ASSUME LogInv, NEW s \in Slots, NEW h, HandlerOK(h, NewId, PassedIds),
         handler' = [handler EXCEPT ![s] = h], UNCHANGED <<ring, last, clock>>
  PROVE  HandlersInv'
  <1>1. NewId' = NewId /\ PassedIds' = PassedIds
    BY DEF NewId, PassedIds, OldestID
  <1>2. handler' \in [Slots -> HandlerRec]
    BY DEF LogInv, HandlersInv, HandlerOK
  <1>3. \A r \in Slots : HandlerOK(handler'[r], NewId, PassedIds)
    BY DEF LogInv, HandlersInv
  <1> QED BY <1>1, <1>2, <1>3 DEF HandlersInv

\* Every id of the ring has been given.
LEMMA RingBelow ==
  ASSUME LogInv
  PROVE  \A id \in ToSet(ring) : id < NewId
  <1> SUFFICES ASSUME NEW id \in ToSet(ring) PROVE id < NewId
    OBVIOUS
  <1>1. ring \in Seq(Lines) /\ Increasing(ring) /\ ring \in Seq(Nat)
    BY LineFacts DEF LogInv, RingInv, Batch
  <1>2. PICK i \in 1..Len(ring) : id = ring[i]
    BY <1>1, SetOf
  <1>3. Len(ring) \in 1..Len(ring) /\ i \in Nat /\ i <= Len(ring) /\ Len(ring) \in Nat
    BY <1>1, <1>2
  <1>4. ring[Len(ring)] = last
    BY <1>1, <1>3, EmptyFacts DEF LogInv, RingInv
  <1>5. i = Len(ring) \/ ring[i] < ring[Len(ring)]
    BY <1>1, <1>2, <1>3 DEF Increasing
  <1>6. ring[i] \in Nat
    BY <1>1, <1>2
  <1>7. last < NewId /\ last \in Nat /\ NewId \in Nat
    BY NewIdFacts DEF LogInv
  <1> QED BY <1>2, <1>4, <1>5, <1>6, <1>7

LEMMA HandlersKept ==
  ASSUME LogInv, UNCHANGED <<ring, last, clock, handler>>
  PROVE  HandlersInv'
  BY DEF LogInv, HandlersInv, NewId, PassedIds, OldestID

LEMMA StoredKept ==
  ASSUME LogInv, UNCHANGED <<ring, last, clock, stored, seq, logAfter, behind>>
  PROVE  StoredInv'
  <1>1. NewId' = NewId /\ PassedIds' = PassedIds
    BY DEF NewId, PassedIds, OldestID
  <1> QED BY <1>1 DEF LogInv, StoredInv

LEMMA RingKept ==
  ASSUME LogInv, UNCHANGED <<ring, last, clock>>
  PROVE  RingInv'
  BY DEF LogInv, RingInv

\* The ring takes a line: ids go on without a gap, and what had passed has passed.
LEMMA AddRing ==
  ASSUME LogInv, Add
  PROVE  /\ RingInv'
         /\ NewId' = NewId + 1
         /\ \A id \in PassedIds : id < NewId => id \in PassedIds'
  <1> DEFINE n == NewId
             u == Append(ring, n)
             t == LastOf(u, RingCap)
  <1>1. last' = n /\ ring' = t /\ clock' = clock /\ n <= MaxLines
    BY DEF Add
  <1>2. n \in Nat \ {0} /\ clock <= n /\ last < n /\ clock \in Nat /\ last \in Nat /\ n \in Lines
    BY <1>1, NewIdFacts, BoundsAssumption DEF LogInv, Lines
  <1>3. NewId' = n + 1
    BY <1>1, <1>2 DEF NewId
  <1>4. /\ ring \in Seq(Lines) /\ Increasing(ring) /\ GapsOnlyAfter(ring, {}) /\ Len(ring) \in Nat
        /\ ring # <<>> => ring[Len(ring)] = last /\ clock <= last
    BY DEF LogInv, RingInv, Batch, Consecutive
  <1>5. /\ u \in Seq(Lines) /\ Len(u) = Len(ring) + 1 /\ u[Len(ring) + 1] = n
        /\ \A k \in 1..Len(ring) : u[k] = ring[k]
        /\ ToSet(u) = ToSet(ring) \cup {n}
    BY <1>2, <1>4, AppendFacts
  <1>6. ring # <<>> => n = last + 1
    BY <1>2, <1>4 DEF NewId
  <1> HIDE DEF n, u, t
  <1>7. \A k \in 1..Len(ring) : ring[k] \in Nat /\ ring[k] < n
    <2> SUFFICES ASSUME NEW k \in 1..Len(ring) PROVE ring[k] \in Nat /\ ring[k] < n
      OBVIOUS
    <2>1. ring # <<>> /\ Len(ring) \in 1..Len(ring) /\ k \in Nat /\ k <= Len(ring)
      BY <1>4, EmptyFacts
    <2>2. ring[k] \in Nat /\ ring[Len(ring)] = last
      BY <1>4, <2>1, LineFacts
    <2>3. k = Len(ring) \/ ring[k] < ring[Len(ring)]
      BY <1>4, <2>1 DEF Increasing
    <2> QED BY <1>2, <2>2, <2>3
  <1>8. Increasing(u)
    <2> SUFFICES ASSUME NEW i \in 1..Len(ring) + 1, NEW j \in 1..Len(ring) + 1, i < j PROVE u[i] < u[j]
      BY <1>5 DEF Increasing
    <2>1. i \in 1..Len(ring) /\ u[i] = ring[i]
      BY <1>4, <1>5
    <2>2. CASE j = Len(ring) + 1
      BY <1>5, <1>7, <2>1, <2>2
    <2>3. CASE j # Len(ring) + 1
      <3>1. j \in 1..Len(ring) /\ u[j] = ring[j]
        BY <1>4, <1>5, <2>3
      <3> QED BY <1>4, <2>1, <3>1 DEF Increasing
    <2> QED BY <2>2, <2>3
  <1>9. GapsOnlyAfter(u, {})
    <2> SUFFICES ASSUME NEW i \in 1..Len(ring) PROVE u[i + 1] = u[i] + 1
      BY <1>4, <1>5 DEF GapsOnlyAfter
    <2>1. u[i] = ring[i] /\ i \in Nat /\ i <= Len(ring)
      BY <1>4, <1>5
    <2>2. CASE i = Len(ring)
      <3>1. ring # <<>>
        BY <2>2, EmptyFacts
      <3> QED BY <1>4, <1>5, <1>6, <2>1, <2>2, <3>1
    <2>3. CASE i # Len(ring)
      <3>1. i + 1 \in 1..Len(ring) /\ i \in 1..Len(ring) - 1
        BY <1>4, <2>1, <2>3
      <3>2. ring[i + 1] = ring[i] + 1
        BY <1>4, <3>1 DEF GapsOnlyAfter
      <3> QED BY <1>5, <2>1, <3>1, <3>2
    <2> QED BY <2>2, <2>3
  <1>10. u # <<>>
    BY <1>4, <1>5, EmptyFacts
  <1>11. /\ t \in Seq(Lines) /\ Len(t) <= RingCap /\ ToSet(t) \subseteq ToSet(u)
         /\ Increasing(t) /\ GapsOnlyAfter(t, {})
         /\ t # <<>> /\ t[Len(t)] = u[Len(u)]
    <2>1. RingCap \in Nat \ {0} /\ Lines \subseteq Nat
      BY LineFacts
    <2> QED BY <1>5, <1>8, <1>9, <1>10, <2>1, LastOfKeeps DEF t
  <1>12. RingInv'
    <2>1. t[Len(t)] = n
      BY <1>5, <1>11
    <2> QED BY <1>1, <1>2, <1>11, <2>1 DEF RingInv, Batch, Consecutive
  <1>13. ASSUME NEW id \in PassedIds, id < n PROVE id \in PassedIds'
    <2>1. OldestID' = t[1] /\ t[1] \in ToSet(u) /\ id \in Nat /\ id \in Lines
      <3>1. 1 \in 1..Len(t)
        BY <1>11
      <3>2. t[1] \in ToSet(t)
        BY <1>11, <3>1, SetOf
      <3> QED BY <1>1, <1>11, <3>2, LineFacts DEF OldestID, PassedIds
    <2>2. id < t[1]
      <3>1. CASE ring = <<>>
        <4>1. ToSet(ring) = {}
          BY <3>1, EmptyFacts
        <4> QED BY <1>5, <1>13, <2>1, <4>1
      <3>2. CASE ring # <<>>
        <4>1. id < ring[1] /\ 1 \in 1..Len(ring)
          BY <1>4, <3>2 DEF PassedIds, OldestID
        <4>2. ASSUME NEW y \in ToSet(ring) PROVE ring[1] <= y /\ y \in Nat /\ ring[1] \in Nat
          <5>1. PICK k \in 1..Len(ring) : y = ring[k]
            BY <1>4, SetOf
          <5>2. k = 1 \/ ring[1] < ring[k]
            BY <1>4, <4>1, <5>1 DEF Increasing
          <5> QED BY <1>7, <4>1, <5>1, <5>2
        <4>3. t[1] = n \/ t[1] \in ToSet(ring)
          BY <1>5, <2>1
        <4> QED BY <1>13, <2>1, <4>1, <4>2, <4>3
      <3> QED BY <3>1, <3>2
    <2> QED BY <2>1, <2>2 DEF PassedIds
  <1> QED BY <1>3, <1>12, <1>13 DEF n

-----------------------------------------------------------------------------
(* The browser's polls                                                      *)

\* What is read is enough: no stored line after the cursor lies further back.
LEMMA TailCovers ==
  ASSUME LogInv, NEW n \in Nat \ {0}, Covered(n), next # 0, Increasing(stored),
         NEW id \in ToSet(stored), id > next
  PROVE  id \in ToSet(LastOf(stored, n))
  <1> DEFINE t == LastOf(stored, n)
  <1>1. stored \in Seq(Lines) /\ Len(stored) <= RingSize /\ Len(stored) \in Nat /\ RingSize \in Nat
    BY LineFacts DEF LogInv, StoredInv
  <1>2. /\ t \in Seq(Lines)
        /\ Len(stored) <= n => t = stored
        /\ Len(stored) > n => Len(t) = n
        /\ \E d \in Nat : Part(t, stored, d) /\ Len(t) + d = Len(stored)
    BY <1>1, LastOfFacts
  <1>3. Len(t) < n \/ n >= RingSize \/ \E x \in ToSet(t) : x <= next
    BY DEF Covered
  <1> HIDE DEF t
  <1>4. CASE Len(t) < n \/ n >= RingSize
    <2>1. Len(stored) <= n
      BY <1>1, <1>2, <1>4
    <2> QED BY <1>2, <2>1 DEF t
  <1>5. CASE \E x \in ToSet(t) : x <= next
    <2>1. PICK d \in Nat : Part(t, stored, d) /\ Len(t) + d = Len(stored)
      BY <1>2
    <2>2. /\ ToSet(t) = {t[i] : i \in 1..Len(t)}
          /\ ToSet(stored) = {stored[i] : i \in 1..Len(stored)}
      BY <1>1, <1>2, SetOf
    <2>3. PICK i \in 1..Len(t) : t[i] <= next
      BY <1>5, <2>2
    <2>4. PICK j \in 1..Len(stored) : id = stored[j]
      BY <2>2
    <2>5. t[i] = stored[i + d] /\ Len(t) \in Nat /\ i \in Nat /\ j \in Nat /\ i <= Len(t) /\ j <= Len(stored)
      BY <1>1, <1>2, <2>1 DEF Part
    <2>6. i + d \in 1..Len(stored)
      BY <1>1, <2>1, <2>5
    <2>7. stored[i + d] \in Nat /\ stored[j] \in Nat /\ next \in Nat
      <3>1. stored[i + d] \in Lines /\ stored[j] \in Lines
        BY <1>1, <2>6
      <3>2. next \in 0..MaxLines
        BY DEF LogInv, SmallTypes
      <3>3. Lines \subseteq Nat
        BY LineFacts
      <3>4. stored[i + d] \in Nat /\ stored[j] \in Nat
        BY <3>1, <3>3, Zenon
      <3>5. next \in Nat
        BY <3>2
      <3> QED BY <3>4, <3>5, Zenon
    <2>8. ~ (j <= d)
      <3> SUFFICES ASSUME j <= d PROVE FALSE
        OBVIOUS
      <3>1. j < i + d
        BY <2>5
      <3>2. stored[j] < stored[i + d]
        BY <2>6, <3>1 DEF Increasing
      <3> QED BY <2>3, <2>4, <2>5, <2>7, <3>2
    <2>9. j - d \in 1..Len(t) /\ (j - d) + d = j
      BY <1>1, <2>1, <2>5, <2>8
    <2>10. t[j - d] = stored[j]
      BY <2>1, <2>9 DEF Part
    <2> QED BY <2>2, <2>4, <2>9, <2>10 DEF t
  <1> QED BY <1>3, <1>4, <1>5

\* Sorting changes neither the lines nor an order that is right.
LEMMA SortedFacts ==
  ASSUME NEW t \in Seq(Lines), NEW all \in Sorted(t)
  PROVE  /\ all \in Seq(Lines) /\ ToSet(t) \subseteq ToSet(all)
         /\ Increasing(t) => Increasing(all)
  <1> DEFINE m == Len(t)
  <1>1. m \in Nat /\ DOMAIN t = 1..m /\ \A i \in 1..m : t[i] \in Lines /\ t[i] \in Nat
    BY LineFacts
  <1>2. PICK p \in Bijection(DOMAIN t, DOMAIN t) :
          all = [i \in DOMAIN t |-> t[p[i]]] /\ \A i, j \in DOMAIN all : i < j => all[i] <= all[j]
    BY DEF Sorted
  <1>3. p \in [1..m -> 1..m] /\ \A k \in 1..m : \E i \in 1..m : p[i] = k
    BY <1>1, <1>2 DEF Bijection, Surjection
  <1>4. \A i, j \in 1..m : p[i] = p[j] => i = j
    BY <1>1, <1>2 DEF Bijection, Injection, IsInjective
  <1>5. all = [i \in 1..m |-> t[p[i]]]
    BY <1>1, <1>2
  <1> HIDE DEF m
  <1>6. all \in [1..m -> Lines] /\ \A i \in 1..m : all[i] = t[p[i]]
    BY <1>1, <1>3, <1>5
  <1>7. all \in Seq(Lines) /\ Len(all) = m
    BY <1>1, <1>6
  <1>8. ToSet(t) \subseteq ToSet(all)
    <2> SUFFICES ASSUME NEW y \in ToSet(t) PROVE y \in ToSet(all)
      OBVIOUS
    <2>1. PICK k \in 1..m : y = t[k]
      BY SetOf DEF m
    <2>2. PICK i \in 1..m : p[i] = k
      BY <1>3
    <2>3. y = all[i]
      BY <1>6, <2>1, <2>2
    <2> QED BY <1>7, <2>3, SetOf
  <1>9. ASSUME Increasing(t) PROVE Increasing(all)
    <2> SUFFICES ASSUME NEW i \in 1..m, NEW j \in 1..m, i < j PROVE all[i] < all[j]
      BY <1>7 DEF Increasing
    <2>1. all[i] <= all[j] /\ all[i] = t[p[i]] /\ all[j] = t[p[j]]
      BY <1>2, <1>6
    <2>2. p[i] \in 1..m /\ p[j] \in 1..m /\ p[i] # p[j] /\ p[i] \in Nat /\ p[j] \in Nat
      <3>1. i # j /\ p[i] \in 1..m /\ p[j] \in 1..m
        BY <1>1, <1>3
      <3>2. p[i] # p[j]
        BY <1>4, <3>1
      <3> QED BY <1>1, <3>1, <3>2
    <2>3. p[i] < p[j] \/ p[j] < p[i]
      BY <2>2
    <2>4. t[p[i]] # t[p[j]]
      <3>1. t[p[i]] < t[p[j]] \/ t[p[j]] < t[p[i]]
        BY <1>9, <2>2, <2>3 DEF Increasing, m
      <3>2. t[p[i]] \in Nat /\ t[p[j]] \in Nat
        BY <1>1, <2>2
      <3> QED BY <3>1, <3>2
    <2>5. t[p[i]] \in Nat /\ t[p[j]] \in Nat
      BY <1>1, <2>2
    <2> QED BY <2>1, <2>4, <2>5
  <1> QED BY <1>7, <1>8, <1>9

\* A page is cut from the front of what is newer than the cursor.
LEMMA PageFacts ==
  ASSUME LogInv, NEW all \in Seq(Lines)
  PROVE  LET e == PickLogPage(all)
         IN /\ e \in Seq(Lines)
            /\ (next # 0 /\ Increasing(all) /\ e # <<>>) =>
                 \A id \in ToSet(all) : next < id /\ id <= e[Len(e)] => id \in ToSet(e)
  <1>1. next \in 0..MaxLines /\ 0 \in 0..MaxLines /\ PageLimit \in Nat \ {0} /\ Lines \subseteq Nat
    BY LineFacts DEF LogInv, SmallTypes
  <1>2. CASE next = 0
    <2> DEFINE u == Newer(all, 0)
    <2>1. u \in Seq(Lines)
      BY <1>1, NewerFacts
    <2> HIDE DEF u
    <2>2. LastOf(u, PageLimit) \in Seq(Lines)
      BY <1>1, <2>1, LastOfKeeps
    <2>3. PickLogPage(all) = LastOf(u, PageLimit)
      BY <1>2 DEF PickLogPage, u
    <2> QED BY <1>2, <2>2, <2>3
  <1>3. CASE next # 0
    <2> DEFINE u == Newer(all, next)
               e == FirstOf(u, PageLimit)
    <2>1. /\ u \in Seq(Lines) /\ ToSet(u) = ToSet(all) \cap (next + 1..MaxLines)
          /\ Increasing(all) => Increasing(u)
      BY <1>1, NewerFacts
    <2>2. PickLogPage(all) = e
      BY <1>3 DEF PickLogPage
    <2> HIDE DEF u
    <2>3. e \in Seq(Lines) /\ Part(e, u, 0)
      BY <1>1, <2>1, FirstOfFacts
    <2> HIDE DEF e
    <2>4. ASSUME Increasing(all), e # <<>>, NEW id \in ToSet(all), next < id, id <= e[Len(e)]
          PROVE  id \in ToSet(e)
      <3> DEFINE q == Len(e)
      <3>1. q \in Nat /\ q \in 1..q /\ Len(u) \in Nat /\ q <= Len(u) /\ e[q] = u[q]
        <4>1. q \in Nat /\ q \in 1..q /\ Len(u) \in Nat
          BY <2>1, <2>3, <2>4
        <4>2. q + 0 <= Len(u) /\ e[q] = u[q + 0]
          BY <2>3, <4>1 DEF Part
        <4> QED BY <4>1, <4>2
      <3>2. id \in Lines /\ id \in Nat
        <4>1. ToSet(all) = {all[i] : i \in 1..Len(all)}
          BY SetOf
        <4>2. id \in Lines
          BY <2>4, <4>1
        <4> QED BY <1>1, <4>2
      <3>3. id \in ToSet(u)
        BY <1>1, <2>1, <2>4, <3>2 DEF Lines
      <3>4. PICK k \in 1..Len(u) : id = u[k]
        BY <2>1, <3>3, SetOf
      <3>5. k \in Nat /\ q \in 1..Len(u) /\ u[q] \in Nat /\ u[k] \in Nat
        BY <2>1, <3>1, LineFacts
      <3>6. ~ (q < k)
        <4> SUFFICES ASSUME q < k PROVE FALSE
          OBVIOUS
        <4>1. u[q] < u[k]
          BY <2>1, <2>4, <3>5 DEF Increasing
        <4> QED BY <2>4, <3>1, <3>4, <3>5, <4>1
      <3>7. k \in 1..q /\ k + 0 = k
        BY <3>1, <3>5, <3>6
      <3>8. e[k] = u[k]
        BY <2>3, <3>7 DEF Part
      <3> QED BY <2>3, <3>4, <3>7, <3>8, SetOf
    <2> QED BY <2>2, <2>3, <2>4
  <1> QED BY <1>2, <1>3

\* What a poll reads and what it then shows.
LEMMA PollFacts ==
  ASSUME LogInv, Poll
  PROVE  /\ next' \in 0..MaxLines /\ page' \subseteq Lines
         /\ (next # 0 /\ next' > next /\ behind # "read") =>
               \A id \in ToSet(stored) : next < id /\ id <= next' => id \in page'
  <1>1. PICK all \in ReadLogEntries :
          LET e == PickLogPage(all)
          IN next' = (IF e = <<>> THEN next ELSE Last(e)) /\ page' = ToSet(e)
    BY DEF Poll
  <1> DEFINE e == PickLogPage(all)
  <1>2. next' = (IF e = <<>> THEN next ELSE e[Len(e)]) /\ page' = ToSet(e)
    BY <1>1 DEF Last
  <1>3. PICK n \in ReadSizes : Covered(n) /\ all \in Sorted(LastOf(stored, n))
    BY DEF ReadLogEntries
  <1>4. n \in Nat \ {0}
    BY <1>3, LineFacts DEF ReadSizes
  <1>5. stored \in Seq(Lines) /\ Lines \subseteq Nat /\ next \in 0..MaxLines /\ next \in Nat
    BY LineFacts DEF LogInv, StoredInv, SmallTypes
  <1> DEFINE t == LastOf(stored, n)
  <1>6. t \in Seq(Lines) /\ (Increasing(stored) => Increasing(t))
    BY <1>4, <1>5, LastOfKeeps
  <1>7. all \in Seq(Lines) /\ ToSet(t) \subseteq ToSet(all) /\ (Increasing(t) => Increasing(all))
    BY <1>3, <1>6, SortedFacts
  <1>8. /\ e \in Seq(Lines)
        /\ (next # 0 /\ Increasing(all) /\ e # <<>>) =>
              \A id \in ToSet(all) : next < id /\ id <= e[Len(e)] => id \in ToSet(e)
    BY <1>7, PageFacts
  <1> HIDE DEF e
  <1>9. next' \in 0..MaxLines
    <2>1. CASE e = <<>>
      BY <1>2, <1>5, <2>1
    <2>2. CASE e # <<>>
      <3>1. Len(e) \in 1..Len(e)
        BY <1>8, <2>2
      <3>2. e[Len(e)] \in Lines
        BY <1>8, <3>1
      <3> QED BY <1>2, <2>2, <3>2 DEF Lines
    <2> QED BY <2>1, <2>2
  <1>10. page' \subseteq Lines
    BY <1>2, <1>8, SetOf
  <1>11. ASSUME next # 0, next' > next, behind # "read", NEW id \in ToSet(stored), next < id, id <= next'
         PROVE  id \in page'
    <2>1. e # <<>> /\ next' = e[Len(e)]
      BY <1>2, <1>5, <1>11
    <2>2. Increasing(stored)
      BY <1>11 DEF LogInv, StoredInv
    <2>3. id \in ToSet(t)
      <3>1. id > next
        BY <1>11
      <3> QED BY <1>3, <1>4, <1>11, <2>2, <3>1, TailCovers
    <2> QED BY <1>2, <1>6, <1>7, <1>8, <1>11, <2>1, <2>2, <2>3
  <1> QED BY <1>9, <1>10, <1>11

-----------------------------------------------------------------------------
(* The steps                                                                *)

LEMMA FaultCounts ==
  ASSUME SmallTypes, faults < MaxFaults, faults' = faults + 1
  PROVE  faults' \in 0..MaxFaults
  BY BoundsAssumption DEF SmallTypes

LEMMA Falsehood == FALSE \in BOOLEAN /\ TRUE \in BOOLEAN
  OBVIOUS

\* Every step keeps the ranges.
LEMMA SmallStep ==
  ASSUME LogInv, [Next]_vars
  PROVE  SmallTypes'
  <1> USE BoundsAssumption DEF agent, redis, browser
  <1>0. SmallTypes /\ NewId \in Nat \ {0} /\ HandlersInv /\ StoredInv
    BY NewIdFacts DEF LogInv
  <1>1. CASE Add
    BY <1>0, <1>1 DEF SmallTypes, Add
  <1>2. ASSUME NEW s \in Slots, Tick(s) PROVE SmallTypes'
    BY <1>0, <1>2 DEF SmallTypes, Tick
  <1>3. ASSUME NEW s \in Slots, TakeAnswer(s) PROVE SmallTypes'
    <2>1. handler[s].stream \in BOOLEAN /\ handler[s].after \in 0..MaxLines
      BY <1>0 DEF HandlersInv, HandlerRec
    <2>2. /\ logStream' \in BOOLEAN /\ logAfter' \in 0..MaxLines /\ waiting' = NoRequest
          /\ UNCHANGED <<last, clock, seq, watched, viewing, behind, next, page, faults>>
      BY <1>3, <2>1 DEF TakeAnswer
    <2> QED BY <1>0, <2>2, Zenon DEF SmallTypes
  <1>4. ASSUME NEW s \in Slots, GiveUp(s) PROVE SmallTypes'
    <2>1. faults' \in 0..MaxFaults
      BY <1>0, <1>4, FaultCounts DEF GiveUp
    <2>2. logStream' \in BOOLEAN
      BY <1>4, Falsehood, Zenon DEF GiveUp
    <2>3. waiting' = NoRequest /\ UNCHANGED <<last, clock, logAfter, seq, watched, viewing, behind, next, page>>
      BY <1>4 DEF GiveUp
    <2> QED BY <1>0, <2>1, <2>2, <2>3, Zenon DEF SmallTypes
  <1>5. ASSUME NEW s \in Slots, ReadSeq(s) PROVE SmallTypes'
    BY <1>0, <1>5 DEF SmallTypes, ReadSeq
  <1>6. ASSUME NEW s \in Slots, Exec(s) PROVE SmallTypes'
    <2>1. handler[s].logs \in Seq(Lines)
      BY <1>0 DEF HandlersInv, HandlerRec
    <2>2. seq' \in 0..MaxLines
      <3>1. CASE handler[s].logs = <<>>
        BY <1>0, <1>6, <3>1 DEF SmallTypes, Exec, SeqAfter
      <3>2. CASE handler[s].logs # <<>>
        <4>1. seq' = handler[s].logs[Len(handler[s].logs)]
          BY <1>6, <3>2 DEF Exec, SeqAfter, Last
        <4>2. Len(handler[s].logs) \in 1..Len(handler[s].logs)
          BY <2>1, <3>2
        <4>3. seq' \in Lines
          BY <2>1, <4>1, <4>2
        <4> QED BY <4>3 DEF Lines
      <3> QED BY <3>1, <3>2
    <2>3. behind' \in {"never", "chosen", "read"}
      BY <1>0, <1>6 DEF SmallTypes, Exec
    <2>4. UNCHANGED <<last, clock, logStream, logAfter, waiting, watched, viewing, next, page, faults>>
      BY <1>6 DEF Exec
    <2> QED BY <1>0, <2>2, <2>3, <2>4, Zenon DEF SmallTypes
  <1>7. CASE AgentRestart
    <2>1. faults' \in 0..MaxFaults
      BY <1>0, <1>7, FaultCounts DEF AgentRestart
    <2>2. last' \in 0..MaxLines /\ logAfter' \in 0..MaxLines
      BY <1>7 DEF AgentRestart
    <2>3. clock' \in 1..MaxLines + 1
      BY <1>0, <1>7 DEF SmallTypes, AgentRestart
    <2>4. logStream' \in BOOLEAN
      BY <1>7, Falsehood, Zenon DEF AgentRestart
    <2>5. waiting' = NoRequest /\ UNCHANGED <<seq, watched, viewing, behind, next, page>>
      BY <1>7 DEF AgentRestart
    <2> QED BY <1>0, <2>1, <2>2, <2>3, <2>4, <2>5, Zenon DEF SmallTypes
  <1>8. CASE RedisLoses
    <2>1. faults' \in 0..MaxFaults
      BY <1>0, <1>8, FaultCounts DEF RedisLoses
    <2>2. seq' \in 0..MaxLines
      BY <1>8 DEF RedisLoses
    <2>3. watched' \in BOOLEAN
      BY <1>8, Falsehood, Zenon DEF RedisLoses
    <2>4. UNCHANGED <<last, clock, logStream, logAfter, waiting, viewing, behind, next, page>>
      BY <1>8 DEF RedisLoses
    <2> QED BY <1>0, <2>1, <2>2, <2>3, <2>4, Zenon DEF SmallTypes
  <1>9. CASE WatchExpires \/ OpenView \/ CloseView
    <2>1. watched' \in BOOLEAN /\ viewing' \in BOOLEAN
      BY <1>0, <1>9, Falsehood, Zenon DEF SmallTypes, WatchExpires, OpenView, CloseView
    <2>2. next' \in 0..MaxLines /\ page' \subseteq Lines
      BY <1>0, <1>9 DEF SmallTypes, WatchExpires, OpenView, CloseView
    <2>3. UNCHANGED <<last, clock, logStream, logAfter, waiting, seq, behind, faults>>
      BY <1>9 DEF WatchExpires, OpenView, CloseView
    <2> QED BY <1>0, <2>1, <2>2, <2>3, Zenon DEF SmallTypes
  <1>10. CASE Poll
    <2>1. next' \in 0..MaxLines /\ page' \subseteq Lines
      BY <1>10, PollFacts
    <2> QED BY <1>0, <1>10, <2>1 DEF SmallTypes, Poll
  <1>11. CASE UNCHANGED vars
    BY <1>0, <1>11 DEF SmallTypes, vars
  <1> QED BY <1>1, <1>2, <1>3, <1>4, <1>5, <1>6, <1>7, <1>8, <1>9, <1>10, <1>11 DEF Next

\* The agent gets a line: what the handlers and the list have stays right.
LEMMA AddStep ==
  ASSUME LogInv, Add
  PROVE  RingInv' /\ HandlersInv' /\ StoredInv'
  <1>1. RingInv' /\ NewId' = NewId + 1 /\ \A id \in PassedIds : id < NewId => id \in PassedIds'
    BY AddRing
  <1>2. NewId \in Nat /\ NewId + 1 \in Nat /\ NewId <= NewId + 1
    BY NewIdFacts DEF LogInv
  <1>3. UNCHANGED <<handler, stored, seq, logAfter, behind>>
    BY DEF Add, redis
  <1>4. HandlersInv'
    <2>1. \A s \in Slots : HandlerOK(handler[s], NewId, PassedIds)
      BY DEF LogInv, HandlersInv
    <2>2. \A s \in Slots : HandlerOK(handler[s], NewId', PassedIds')
      BY <1>1, <1>2, <2>1, HandlerGrows
    <2> QED BY <1>3, <2>2 DEF LogInv, HandlersInv
  <1>5. StoredInv'
    <2>1. behind = "never" => GapsOnlyAfter(stored, PassedIds')
      BY <1>1, GapsGrow DEF LogInv, StoredInv
    <2>2. ToSet(stored) \subseteq Nat /\ seq \in Nat /\ logAfter \in Nat
      <3>1. stored \in Seq(Nat)
        BY LineFacts DEF LogInv, StoredInv
      <3> QED BY <3>1, SetOf DEF LogInv, SmallTypes
    <2>3. seq < NewId' /\ logAfter < NewId' /\ \A id \in ToSet(stored) : id < NewId'
      BY <1>1, <1>2, <2>2 DEF LogInv, StoredInv
    <2> QED BY <1>3, <2>1, <2>3 DEF LogInv, StoredInv
  <1> QED BY <1>1, <1>4, <1>5

\* The agent restarts: no line is in its ring, so every gap is allowed.
LEMMA RestartStep ==
  ASSUME LogInv, AgentRestart
  PROVE  RingInv' /\ HandlersInv' /\ StoredInv'
  <1>1. /\ ring' = <<>> /\ last' = 0 /\ clock' = NewId /\ logAfter' = 0
        /\ UNCHANGED <<stored, seq, behind>>
        /\ handler' = [s \in Slots |-> IF handler[s].stage = "answered" THEN Idle ELSE handler[s]]
    BY DEF AgentRestart, NewId, redis
  <1>2. NewId \in Nat \ {0}
    BY NewIdFacts DEF LogInv
  <1>3. NewId' = NewId
    BY <1>1, <1>2 DEF NewId
  <1>4. PassedIds' = Lines
    BY <1>1 DEF PassedIds
  <1>5. \A id \in PassedIds : id \in Lines
    BY DEF PassedIds
  <1>6. RingInv'
    <2>1. Batch(<<>>) /\ Len(<<>>) <= RingCap
      BY EmptyFacts, LineFacts DEF Batch, Consecutive
    <2> QED BY <1>1, <2>1 DEF RingInv
  <1>7. HandlersInv'
    <2> SUFFICES handler' \in [Slots -> HandlerRec] /\ \A s \in Slots : HandlerOK(handler'[s], NewId, Lines)
      BY <1>3, <1>4 DEF HandlersInv
    <2>1. HandlerOK(Idle, NewId, Lines)
      BY <1>2, IdleFacts
    <2>2. ASSUME NEW s \in Slots PROVE HandlerOK(handler[s], NewId, Lines)
      <3>1. HandlerOK(handler[s], NewId, PassedIds)
        BY DEF LogInv, HandlersInv
      <3> QED BY <1>2, <1>5, <3>1, HandlerGrows
    <2>3. \A s \in Slots : HandlerOK(handler'[s], NewId, Lines)
      BY <1>1, <2>1, <2>2
    <2>4. handler' \in [Slots -> HandlerRec]
      BY <1>1, <2>1, <2>2 DEF HandlerOK
    <2> QED BY <2>3, <2>4
  <1>8. StoredInv'
    <2>1. behind = "never" => GapsOnlyAfter(stored, Lines)
      BY <1>5, GapsGrow DEF LogInv, StoredInv
    <2>2. 0 < NewId
      BY <1>2
    <2> QED BY <1>1, <1>3, <1>4, <2>1, <2>2 DEF LogInv, StoredInv
  <1> QED BY <1>6, <1>7, <1>8

LEMMA OneHandler ==
  ASSUME LogInv, NEW s \in Slots
  PROVE  /\ handler[s] \in HandlerRec /\ HandlerOK(handler[s], NewId, PassedIds)
         /\ Batch(handler[s].logs) /\ Len(handler[s].logs) <= LogsMax
         /\ handler[s].base \in 0..MaxLines /\ handler[s].after \in 0..MaxLines
  BY DEF LogInv, HandlersInv, HandlerOK, HandlerRec

\* A request is sent: with no lines or with those SelectLiveLogs picks.
LEMMA TickStep ==
  ASSUME LogInv, NEW s \in Slots, Tick(s)
  PROVE  HandlersInv'
  <1> DEFINE t == SelectLiveLogs(logAfter)
             full == [Idle EXCEPT !.stage = "sent", !.base = logAfter, !.logs = t]
             bare == [Idle EXCEPT !.stage = "sent"]
  <1>1. /\ Batch(t) /\ Len(t) <= LogsMax
        /\ ToSet(t) \subseteq ToSet(ring) /\ Follows(t, logAfter, PassedIds)
    BY SelectFacts DEF LogInv, SmallTypes
  <1>2. logAfter \in 0..MaxLines /\ logAfter < NewId /\ NewId \in Nat \ {0} /\ last < NewId /\ last \in Nat
    BY NewIdFacts DEF LogInv, StoredInv, SmallTypes
  <1>3. \A id \in ToSet(t) : id < NewId
    BY <1>1, RingBelow
  <1> HIDE DEF t
  <1>4. HandlerOK(full, NewId, PassedIds)
    <2>1. /\ full.stage = "sent" /\ full.base = logAfter /\ full.logs = t
          /\ full.after = 0 /\ full.stream = FALSE /\ full \in HandlerRec
      BY <1>1, <1>2, IdleRec DEF Batch, HandlerRec
    <2> HIDE DEF full
    <2>2. 0 < NewId
      BY <1>2
    <2> QED BY <1>1, <1>2, <1>3, <2>1, <2>2 DEF HandlerOK
  <1>5. HandlerOK(bare, NewId, PassedIds)
    <2>1. /\ bare.stage = "sent" /\ bare.base = 0 /\ bare.logs = <<>>
          /\ bare.after = 0 /\ bare \in HandlerRec
      BY IdleRec DEF HandlerRec
    <2> HIDE DEF bare
    <2>2. Batch(<<>>) /\ Len(<<>>) <= LogsMax /\ ToSet(<<>>) = {} /\ 0 < NewId
      BY <1>2, EmptyFacts, LineFacts DEF Batch, Consecutive
    <2> QED BY <2>1, <2>2 DEF HandlerOK, Follows
  <1>6. UNCHANGED <<ring, last, clock>> /\ handler' = [handler EXCEPT ![s] = IF logStream THEN full ELSE bare]
    BY DEF Tick, t
  <1> HIDE DEF full, bare
  <1>7. CASE logStream
    BY <1>4, <1>6, <1>7, HandlerMoves
  <1>8. CASE ~ logStream
    BY <1>5, <1>6, <1>8, HandlerMoves
  <1> QED BY <1>7, <1>8

\* The transaction reads the cursor: what is left of the batch is newer.
LEMMA ReadStep ==
  ASSUME LogInv, NEW s \in Slots, ReadSeq(s)
  PROVE  HandlersInv'
  <1> DEFINE h == handler[s]
             t == PrepareNodeLogs(h.logs, seq)
             g == [h EXCEPT !.stage = "read", !.after = seq, !.logs = t]
  <1>1. /\ h \in HandlerRec /\ HandlerOK(h, NewId, PassedIds)
        /\ Batch(h.logs) /\ Len(h.logs) <= LogsMax
    BY OneHandler
  <1>2. seq \in 0..MaxLines /\ seq < NewId /\ h.stage = "sent"
    BY DEF LogInv, StoredInv, SmallTypes, ReadSeq
  <1>3. /\ Batch(t) /\ Len(t) <= LogsMax
        /\ ToSet(t) = {id \in ToSet(h.logs) : id > seq}
        /\ Follows(h.logs, seq, PassedIds) => Follows(t, seq, PassedIds)
    BY <1>1, <1>2, PrepareFacts
  <1> HIDE DEF t, h
  <1>4. HandlerOK(g, NewId, PassedIds)
    <2>1. /\ g.stage = "read" /\ g.base = h.base /\ g.logs = t /\ g.after = seq /\ g \in HandlerRec
      BY <1>1, <1>2, <1>3 DEF HandlerRec, Batch
    <2> HIDE DEF g
    <2>2. \A id \in ToSet(t) : id < NewId /\ id > seq
      BY <1>1, <1>3 DEF HandlerOK
    <2>3. seq = h.base => Follows(t, h.base, PassedIds)
      BY <1>1, <1>2, <1>3 DEF HandlerOK
    <2>4. h.base < NewId
      BY <1>1 DEF HandlerOK
    <2> QED BY <1>2, <1>3, <2>1, <2>2, <2>3, <2>4 DEF HandlerOK
  <1>5. UNCHANGED <<ring, last, clock>> /\ handler' = [handler EXCEPT ![s] = g]
    <2>1. handler' = [handler EXCEPT ![s].stage = "read", ![s].after = seq, ![s].logs = t]
      BY DEF ReadSeq, t, h
    <2>2. handler \in [Slots -> HandlerRec]
      BY DEF LogInv, HandlersInv
    <2> QED BY <2>1, <2>2 DEF ReadSeq, agent, h, HandlerRec
  <1> HIDE DEF g
  <1> QED BY <1>4, <1>5, HandlerMoves

\* The agent takes an answer: its copy of the cursor is one the panel has had.
LEMMA AnswerStep ==
  ASSUME LogInv, NEW s \in Slots, TakeAnswer(s)
  PROVE  HandlersInv' /\ StoredInv'
  <1>1. NewId \in Nat \ {0} /\ HandlerOK(handler[s], NewId, PassedIds)
    BY NewIdFacts, OneHandler DEF LogInv
  <1>2. /\ UNCHANGED <<ring, last, clock, stored, seq, behind>>
        /\ logAfter' = handler[s].after /\ handler' = [handler EXCEPT ![s] = Idle]
    BY DEF TakeAnswer, redis
  <1>3. HandlersInv'
    BY <1>1, <1>2, IdleFacts, HandlerMoves
  <1>4. NewId' = NewId /\ PassedIds' = PassedIds
    BY <1>2 DEF NewId, PassedIds, OldestID
  <1>5. logAfter' < NewId
    BY <1>1, <1>2 DEF HandlerOK
  <1>6. StoredInv'
    BY <1>2, <1>4, <1>5 DEF LogInv, StoredInv
  <1> QED BY <1>3, <1>6

LEMMA GiveUpStep ==
  ASSUME LogInv, NEW s \in Slots, GiveUp(s)
  PROVE  HandlersInv' /\ StoredInv'
  <1>1. NewId \in Nat \ {0}
    BY NewIdFacts DEF LogInv
  <1>2. UNCHANGED <<ring, last, clock, stored, seq, logAfter, behind>>
    BY DEF GiveUp, redis
  <1>3. CASE handler' = [handler EXCEPT ![s] = Idle]
    BY <1>1, <1>2, <1>3, IdleFacts, HandlerMoves, StoredKept
  <1>4. CASE UNCHANGED handler
    <2>1. HandlersInv'
      BY <1>2, <1>4 DEF LogInv, HandlersInv, NewId, PassedIds, OldestID
    <2> QED BY <1>2, <2>1, StoredKept
  <1> QED BY <1>3, <1>4 DEF GiveUp

\* The cursor and the list after a batch that is newer than the cursor.
LEMMA Appended ==
  ASSUME NEW s \in Seq(Lines), NEW t \in Seq(Lines), NEW after \in Nat, NEW P,
         Increasing(s), Increasing(t), GapsOnlyAfter(t, {}),
         s # <<>> => s[Len(s)] <= after,
         \A id \in ToSet(t) : id > after
  PROVE  /\ Increasing(s \o t)
         /\ (GapsOnlyAfter(s, P) /\ (s = <<>> \/ t = <<>> \/ t[1] = s[Len(s)] + 1 \/ s[Len(s)] \in P))
               => GapsOnlyAfter(s \o t, P)
  <1> DEFINE u == s \o t
             m == Len(s)
             n == Len(t)
  <1>1. /\ m \in Nat /\ n \in Nat /\ Len(u) = m + n
        /\ \A i \in 1..m : u[i] = s[i]
        /\ \A i \in 1..n : u[m + i] = t[i]
    OBVIOUS
  <1>2. (\A i \in 1..m : s[i] \in Nat) /\ (\A i \in 1..n : t[i] \in Nat)
    BY LineFacts
  <1>3. \A i \in 1..m : s[i] <= after
    <2> SUFFICES ASSUME NEW i \in 1..m PROVE s[i] <= after
      OBVIOUS
    <2>1. m \in 1..m /\ s # <<>> /\ i \in Nat /\ i <= m
      BY <1>1, EmptyFacts
    <2>2. i = m \/ s[i] < s[m]
      BY <2>1 DEF Increasing
    <2>3. s[m] <= after /\ s[m] \in Nat /\ s[i] \in Nat
      BY <1>2, <2>1
    <2> QED BY <2>2, <2>3
  <1>4. \A i \in 1..n : after < t[i]
    <2> SUFFICES ASSUME NEW i \in 1..n PROVE after < t[i]
      OBVIOUS
    <2>1. t[i] \in ToSet(t)
      BY SetOf
    <2> QED BY <1>2, <2>1
  <1>5. (\A i, j \in 1..m : i < j => s[i] < s[j]) /\ (\A i, j \in 1..n : i < j => t[i] < t[j])
    BY DEF Increasing
  <1>6. \A i \in 1..m + n : i \notin 1..m => i - m \in 1..n /\ m + (i - m) = i
    BY <1>1
  <1> HIDE DEF u, m, n
  <1>7. ASSUME NEW i \in 1..m + n, NEW j \in 1..m + n, i < j PROVE u[i] < u[j]
    <2>1. CASE i \in 1..m /\ j \in 1..m
      BY <1>1, <1>5, <1>7, <2>1
    <2>2. CASE i \in 1..m /\ j \notin 1..m
      <3>1. u[i] = s[i] /\ u[j] = t[j - m] /\ j - m \in 1..n
        BY <1>1, <1>6, <2>2
      <3>2. s[i] <= after /\ after < t[j - m] /\ s[i] \in Nat /\ t[j - m] \in Nat
        BY <1>2, <1>3, <1>4, <2>2, <3>1
      <3> QED BY <3>1, <3>2
    <2>3. CASE i \notin 1..m
      <3>1. i \in Nat /\ j \in Nat /\ j \notin 1..m
        BY <1>1, <1>7, <2>3
      <3>2. u[i] = t[i - m] /\ u[j] = t[j - m] /\ i - m \in 1..n /\ j - m \in 1..n /\ i - m < j - m
        BY <1>1, <1>6, <1>7, <2>3, <3>1
      <3> QED BY <1>5, <3>2
    <2> QED BY <2>1, <2>2, <2>3
  <1>8. Increasing(u)
    BY <1>1, <1>7 DEF Increasing
  <1>9. ASSUME GapsOnlyAfter(s, P), s = <<>> \/ t = <<>> \/ t[1] = s[m] + 1 \/ s[m] \in P
        PROVE  GapsOnlyAfter(u, P)
    <2> SUFFICES ASSUME NEW i \in 1..m + n - 1, u[i + 1] # u[i] + 1 PROVE u[i] \in P
      BY <1>1 DEF GapsOnlyAfter
    <2>1. i \in Nat /\ i >= 1 /\ i + 1 <= m + n
      BY <1>1
    <2>2. CASE i < m
      <3>1. i \in 1..m - 1 /\ u[i] = s[i] /\ u[i + 1] = s[i + 1]
        BY <1>1, <2>1, <2>2
      <3> QED BY <1>9, <3>1 DEF GapsOnlyAfter, m
    <2>3. CASE i = m
      <3>1. u[i] = s[m] /\ u[i + 1] = t[1] /\ m \in 1..m /\ 1 \in 1..n
        BY <1>1, <2>1, <2>3
      <3>2. s # <<>> /\ t # <<>>
        BY <1>1, <3>1, EmptyFacts DEF m, n
      <3> QED BY <1>9, <3>1, <3>2
    <2>4. CASE i > m
      <3>1. i - m \in 1..n - 1 /\ i - m \in 1..n /\ (i - m) + 1 \in 1..n /\ m + (i - m) = i /\ m + ((i - m) + 1) = i + 1
        BY <1>1, <2>1, <2>4
      <3>2. u[i] = t[i - m] /\ u[i + 1] = t[(i - m) + 1]
        BY <1>1, <3>1
      <3>3. t[(i - m) + 1] = t[i - m] + 1
        BY <3>1 DEF GapsOnlyAfter, n
      <3> QED BY <3>2, <3>3
    <2> QED BY <1>1, <2>1, <2>2, <2>3, <2>4
  <1> QED BY <1>8, <1>9 DEF u, m

LEMMA ConcatFacts ==
  ASSUME NEW s \in Seq(Lines), NEW t \in Seq(Lines)
  PROVE  /\ s \o t \in Seq(Lines)
         /\ ToSet(s \o t) \subseteq ToSet(s) \cup ToSet(t)
         /\ t # <<>> => s \o t # <<>> /\ (s \o t)[Len(s \o t)] = t[Len(t)]
         /\ t = <<>> => s \o t = s
  <1> DEFINE u == s \o t
             m == Len(s)
             n == Len(t)
  <1>1. /\ u \in Seq(Lines) /\ m \in Nat /\ n \in Nat /\ Len(u) = m + n
        /\ \A i \in 1..m : u[i] = s[i]
        /\ \A i \in 1..n : u[m + i] = t[i]
    OBVIOUS
  <1>2. /\ ToSet(u) = {u[i] : i \in 1..Len(u)} /\ ToSet(s) = {s[i] : i \in 1..m}
        /\ ToSet(t) = {t[i] : i \in 1..n}
    BY <1>1, SetOf
  <1>3. t = <<>> => s \o t = s
    OBVIOUS
  <1>4. t # <<>> => n \in 1..n
    BY <1>1
  <1> HIDE DEF u, m, n
  <1>5. ASSUME NEW y \in ToSet(u) PROVE y \in ToSet(s) \cup ToSet(t)
    <2>1. PICK i \in 1..m + n : y = u[i]
      BY <1>1, <1>2
    <2>2. CASE i \in 1..m
      BY <1>1, <1>2, <2>1, <2>2
    <2>3. CASE i \notin 1..m
      <3>1. i - m \in 1..n /\ m + (i - m) = i
        BY <1>1, <2>3
      <3>2. u[i] = t[i - m]
        BY <1>1, <3>1
      <3> QED BY <1>2, <2>1, <3>1, <3>2
    <2> QED BY <2>2, <2>3
  <1>6. ASSUME t # <<>> PROVE u # <<>> /\ u[Len(u)] = t[n]
    <2>1. n \in 1..n /\ Len(u) # 0
      BY <1>1, <1>4, <1>6
    <2> QED BY <1>1, <2>1, EmptyFacts
  <1> QED BY <1>1, <1>3, <1>5, <1>6 DEF u, n

\* The transaction: what goes in behind the cursor continues the list.
LEMMA ExecStep ==
  ASSUME LogInv, NEW s \in Slots, Exec(s)
  PROVE  HandlersInv' /\ StoredInv'
  <1> DEFINE h == handler[s]
             u == stored \o h.logs
             t == LastOf(u, RingSize)
  <1>1. /\ h \in HandlerRec /\ HandlerOK(h, NewId, PassedIds)
        /\ h.logs \in Seq(Lines) /\ Increasing(h.logs) /\ GapsOnlyAfter(h.logs, {})
        /\ h.after \in Nat /\ h.base \in Nat
    BY OneHandler DEF Batch, Consecutive
  <1>2. /\ UNCHANGED <<ring, last, clock, logAfter>>
        /\ stored' = t /\ seq' = (IF h.logs = <<>> THEN seq ELSE h.logs[Len(h.logs)])
        /\ handler' = [handler EXCEPT ![s] =
                          IF waiting = s
                          THEN [Idle EXCEPT !.stage = "answered", !.after = seq', !.stream = watched]
                          ELSE Idle]
    BY DEF Exec, agent, SeqAfter, Last
  <1>3. NewId' = NewId /\ PassedIds' = PassedIds /\ NewId \in Nat \ {0}
    BY <1>2, NewIdFacts DEF NewId, PassedIds, OldestID, LogInv
  <1>4. /\ stored \in Seq(Lines) /\ Len(stored) <= RingSize /\ seq \in 0..MaxLines /\ watched \in BOOLEAN
        /\ seq < NewId /\ logAfter < NewId /\ \A id \in ToSet(stored) : id < NewId
        /\ behind # "read" => Increasing(stored) /\ (stored # <<>> => seq = stored[Len(stored)])
        /\ behind = "never" => GapsOnlyAfter(stored, PassedIds)
        /\ RingSize \in Nat \ {0} /\ Lines \subseteq Nat
    BY LineFacts DEF LogInv, StoredInv, SmallTypes
  <1>5. \A id \in ToSet(h.logs) : id < NewId
    BY <1>1 DEF HandlerOK
  <1>6. h.logs # <<>> => h.stage = "read" /\ h.logs[Len(h.logs)] \in ToSet(h.logs)
    <2>1. h.logs # <<>> => h.stage = "read"
      BY DEF Exec
    <2>2. h.logs # <<>> => Len(h.logs) \in 1..Len(h.logs)
      BY <1>1
    <2> HIDE DEF h
    <2> QED BY <1>1, <2>1, <2>2, SetOf
  <1>7. seq' \in 0..MaxLines /\ seq' < NewId
    <2>1. ToSet(h.logs) \subseteq Lines
      BY <1>1, SetOf
    <2> QED BY <1>2, <1>4, <1>5, <1>6, <2>1 DEF Lines
  <1>8. HandlersInv'
    <2> DEFINE g == [Idle EXCEPT !.stage = "answered", !.after = seq', !.stream = watched]
    <2>1. HandlerOK(g, NewId, PassedIds)
      <3>1. /\ g.stage = "answered" /\ g.base = 0 /\ g.logs = <<>> /\ g.after = seq' /\ g \in HandlerRec
        BY <1>4, <1>7, IdleRec DEF HandlerRec
      <3> HIDE DEF g
      <3>2. Batch(<<>>) /\ Len(<<>>) <= LogsMax /\ ToSet(<<>>) = {} /\ 0 < NewId
        BY <1>3, EmptyFacts, LineFacts DEF Batch, Consecutive
      <3> QED BY <1>7, <3>1, <3>2 DEF HandlerOK
    <2>2. HandlerOK(Idle, NewId, PassedIds)
      BY <1>3, IdleFacts
    <2>3. UNCHANGED <<ring, last, clock>>
      BY <1>2
    <2> HIDE DEF g
    <2>4. CASE waiting = s
      <3>1. handler' = [handler EXCEPT ![s] = g]
        BY <1>2, <2>4 DEF g
      <3> QED BY <2>1, <2>3, <3>1, HandlerMoves
    <2>5. CASE waiting # s
      <3>1. handler' = [handler EXCEPT ![s] = Idle]
        BY <1>2, <2>5
      <3> QED BY <2>2, <2>3, <3>1, HandlerMoves
    <2> QED BY <2>4, <2>5
  <1>9. /\ u \in Seq(Lines) /\ ToSet(u) \subseteq ToSet(stored) \cup ToSet(h.logs)
        /\ h.logs # <<>> => u # <<>> /\ u[Len(u)] = h.logs[Len(h.logs)]
        /\ h.logs = <<>> => u = stored
    <2> HIDE DEF h
    <2> QED BY <1>1, <1>4, ConcatFacts
  <1>10. behind' = IF h.logs # <<>> /\ seq > h.after THEN "read"
                   ELSE IF /\ h.logs # <<>> /\ stored # <<>> /\ behind = "never"
                           /\ seq # h.base \/ seq # h.after
                        THEN "chosen" ELSE behind
    BY DEF Exec
  <1> HIDE DEF u, h
  <1>11. /\ t \in Seq(Lines) /\ Len(t) <= RingSize /\ ToSet(t) \subseteq ToSet(u)
         /\ Increasing(u) => Increasing(t)
         /\ \A P : GapsOnlyAfter(u, P) => GapsOnlyAfter(t, P)
         /\ u # <<>> => t # <<>> /\ t[Len(t)] = u[Len(u)]
    BY <1>4, <1>9, LastOfKeeps
  <1>12. u = stored => t = stored
    BY <1>4, <1>9, LastOfFacts
  <1> HIDE DEF t
  <1>13. \A id \in ToSet(t) : id < NewId
    BY <1>4, <1>5, <1>9, <1>11
  <1>14. CASE h.logs = <<>>
    <2>1. t = stored /\ seq' = seq /\ behind' = behind
      BY <1>2, <1>9, <1>10, <1>12, <1>14
    <2>2. StoredInv'
      BY <1>2, <1>3, <1>4, <2>1 DEF StoredInv
    <2> QED BY <1>8, <2>2
  <1>15. CASE h.logs # <<>> /\ seq > h.after
    <2>1. behind' = "read"
      BY <1>10, <1>15
    <2>2. StoredInv'
      BY <1>2, <1>3, <1>4, <1>7, <1>11, <1>13, <2>1 DEF StoredInv
    <2> QED BY <1>8, <2>2
  <1>16. CASE h.logs # <<>> /\ ~ (seq > h.after)
    <2>1. /\ behind' # "read" => behind # "read"
          /\ behind' = "never" => behind = "never" /\ (stored = <<>> \/ (seq = h.base /\ seq = h.after))
      BY <1>10, <1>16
    <2>2. /\ \A id \in ToSet(h.logs) : id > h.after
          /\ h.after = h.base => Follows(h.logs, h.base, PassedIds)
      BY <1>1, <1>6, <1>16 DEF HandlerOK
    <2>3. seq <= h.after
      BY <1>1, <1>4, <1>16
    <2>4. seq' = u[Len(u)] /\ t # <<>> /\ t[Len(t)] = u[Len(u)]
      BY <1>2, <1>9, <1>11, <1>16
    <2>5. ASSUME behind # "read" PROVE Increasing(u)
      BY <1>1, <1>4, <2>2, <2>3, <2>5, Appended DEF u
    <2>6. ASSUME behind' = "never" PROVE GapsOnlyAfter(u, PassedIds)
      <3>1. behind = "never" /\ Increasing(stored) /\ GapsOnlyAfter(stored, PassedIds)
            /\ (stored # <<>> => seq = stored[Len(stored)])
        BY <1>4, <2>1, <2>6
      <3>2. \/ stored = <<>> \/ h.logs[1] = stored[Len(stored)] + 1
            \/ stored[Len(stored)] \in PassedIds
        <4> SUFFICES ASSUME stored # <<>>
                     PROVE  h.logs[1] = stored[Len(stored)] + 1 \/ stored[Len(stored)] \in PassedIds
          OBVIOUS
        <4>1. seq = h.base /\ seq = h.after /\ seq = stored[Len(stored)]
          BY <2>1, <2>6, <3>1
        <4>2. Len(stored) \in 1..Len(stored)
          BY <1>4
        <4>3. seq \in Lines
          BY <1>4, <4>1, <4>2
        <4>4. seq # 0
          BY <4>3 DEF Lines
        <4>5. h.logs[1] = h.base + 1 \/ h.base \in PassedIds
          BY <1>16, <2>2, <4>1, <4>4 DEF Follows
        <4> QED BY <4>1, <4>5
      <3> QED BY <1>1, <1>4, <2>2, <2>3, <3>1, <3>2, Appended DEF u
    <2>7. StoredInv'
      BY <1>2, <1>3, <1>4, <1>7, <1>11, <1>13, <2>1, <2>4, <2>5, <2>6 DEF StoredInv
    <2> QED BY <1>8, <2>7
  <1> QED BY <1>14, <1>15, <1>16

LEMMA LosesStep ==
  ASSUME LogInv, RedisLoses
  PROVE  StoredInv'
  <1>1. /\ stored' = <<>> /\ seq' = 0
        /\ UNCHANGED <<ring, last, clock, logAfter, behind>>
    BY DEF RedisLoses, agent
  <1>2. NewId' = NewId /\ NewId \in Nat \ {0}
    BY <1>1, NewIdFacts DEF NewId, LogInv
  <1>3. <<>> \in Seq(Lines) /\ Len(<<>>) <= RingSize /\ ToSet(<<>>) = {} /\ Increasing(<<>>)
        /\ \A P : GapsOnlyAfter(<<>>, P)
    BY EmptyFacts, LineFacts
  <1>4. 0 < NewId /\ logAfter < NewId
    BY <1>2 DEF LogInv, StoredInv
  <1> QED BY <1>1, <1>2, <1>3, <1>4 DEF StoredInv

-----------------------------------------------------------------------------
(* The theorems                                                             *)

LEMMA LogInvariant == Spec => []LogInv
  <1>1. Init => LogInv
    <2> SUFFICES ASSUME Init PROVE LogInv
      OBVIOUS
    <2>1. SmallTypes
      <3>1. /\ logStream \in BOOLEAN /\ watched \in BOOLEAN /\ viewing \in BOOLEAN
            /\ waiting \in Slots \cup {NoRequest} /\ page \subseteq Lines
        BY Falsehood, Zenon DEF Init
      <3>2. /\ last \in 0..MaxLines /\ clock \in 1..MaxLines + 1 /\ logAfter \in 0..MaxLines
            /\ seq \in 0..MaxLines /\ next \in 0..MaxLines /\ faults \in 0..MaxFaults
            /\ behind \in {"never", "chosen", "read"}
        BY BoundsAssumption, SMT DEF Init
      <3> QED BY <3>1, <3>2 DEF SmallTypes
    <2>2. NewId = 1 /\ 1 \in Nat \ {0}
      BY DEF Init, NewId
    <2>3. RingInv
      BY EmptyFacts, LineFacts DEF Init, RingInv, Batch, Consecutive
    <2>4. HandlersInv
      <3>1. HandlerOK(Idle, NewId, PassedIds)
        BY <2>2, IdleFacts
      <3> QED BY <3>1, IdleRec DEF Init, HandlersInv
    <2>5. StoredInv
      BY <2>2, EmptyFacts, LineFacts DEF Init, StoredInv
    <2> QED BY <2>1, <2>3, <2>4, <2>5 DEF LogInv
  <1>2. LogInv /\ [Next]_vars => LogInv'
    <2> SUFFICES ASSUME LogInv, [Next]_vars PROVE RingInv' /\ HandlersInv' /\ StoredInv'
      BY SmallStep DEF LogInv
    <2> USE DEF agent, redis, browser
    <2>1. CASE Add
      BY <2>1, AddStep
    <2>2. CASE AgentRestart
      BY <2>2, RestartStep
    <2>3. ASSUME NEW s \in Slots, Tick(s) PROVE RingInv' /\ HandlersInv' /\ StoredInv'
      BY <2>3, TickStep, RingKept, StoredKept DEF Tick
    <2>4. ASSUME NEW s \in Slots, TakeAnswer(s) PROVE RingInv' /\ HandlersInv' /\ StoredInv'
      BY <2>4, AnswerStep, RingKept DEF TakeAnswer
    <2>5. ASSUME NEW s \in Slots, GiveUp(s) PROVE RingInv' /\ HandlersInv' /\ StoredInv'
      BY <2>5, GiveUpStep, RingKept DEF GiveUp
    <2>6. ASSUME NEW s \in Slots, ReadSeq(s) PROVE RingInv' /\ HandlersInv' /\ StoredInv'
      BY <2>6, ReadStep, RingKept, StoredKept DEF ReadSeq
    <2>7. ASSUME NEW s \in Slots, Exec(s) PROVE RingInv' /\ HandlersInv' /\ StoredInv'
      BY <2>7, ExecStep, RingKept DEF Exec
    <2>8. CASE RedisLoses
      BY <2>8, LosesStep, RingKept, HandlersKept DEF RedisLoses
    <2>9. CASE WatchExpires \/ OpenView \/ CloseView \/ Poll
      BY <2>9, RingKept, HandlersKept, StoredKept DEF WatchExpires, OpenView, CloseView, Poll
    <2>10. CASE UNCHANGED vars
      BY <2>10, RingKept, HandlersKept, StoredKept DEF vars
    <2> QED BY <2>1, <2>2, <2>3, <2>4, <2>5, <2>6, <2>7, <2>8, <2>9, <2>10 DEF Next
  <1> QED BY <1>1, <1>2, PTL DEF Spec

\* The log the panel stores is the agent's (live.go, nodelive.go): each line once
\* and in order, whatever was resent, unless a handler stored an old batch behind
\* a newer one; and without a gap but where lines had left the agent's ring,
\* unless the cursor was not the one a batch was chosen by.
THEOREM LogTheorem == Spec => []LogIsExact
  <1>1. LogInv => TypeOK
    <2> SUFFICES ASSUME LogInv PROVE TypeOK
      OBVIOUS
    <2>1. ring \in Seq(Lines) /\ Len(ring) <= RingCap
      BY DEF LogInv, RingInv, Batch
    <2>2. ASSUME NEW s \in Slots
          PROVE  /\ handler[s].stage \in {"idle", "sent", "read", "answered"}
                 /\ handler[s].logs \in Seq(Lines) /\ Len(handler[s].logs) <= LogsMax
                 /\ {handler[s].base, handler[s].after} \subseteq 0..MaxLines
                 /\ handler[s].stream \in BOOLEAN
      BY OneHandler DEF HandlerRec
    <2>3. stored \in Seq(Lines) /\ Len(stored) <= RingSize
      BY DEF LogInv, StoredInv
    <2> QED BY <2>1, <2>2, <2>3 DEF TypeOK, LogInv, SmallTypes
  <1>2. LogInv => StoredOnce
    <2> SUFFICES ASSUME LogInv, behind # "read"
                 PROVE  /\ \A i \in 1..Len(stored) - 1 : stored[i] < stored[i + 1]
                        /\ stored # <<>> => seq = Last(stored)
      BY DEF StoredOnce
    <2>1. stored \in Seq(Lines) /\ Increasing(stored) /\ (stored # <<>> => seq = stored[Len(stored)])
      BY DEF LogInv, StoredInv
    <2>2. \A i \in 1..Len(stored) - 1 : i \in 1..Len(stored) /\ i + 1 \in 1..Len(stored) /\ i < i + 1
      BY <2>1
    <2> QED BY <2>1, <2>2 DEF Increasing, Last
  <1>3. LogInv => NoGaps
    BY DEF LogInv, StoredInv, NoGaps, GapsOnlyAfter, PassedIds
  <1> QED BY <1>1, <1>2, <1>3, LogInvariant, PTL DEF LogIsExact

\* A poll never moves the browser's cursor over a stored line it has not given it
\* (logs.go): not over one that lies before what it read of the list, and not over
\* one that its page left out.
THEOREM PagesTheorem == Spec => NothingSkipped
  <1> DEFINE A == (next # 0 /\ next' > next /\ behind # "read") =>
                    \A id \in ToSet(stored) : next < id /\ id <= next' => id \in page'
  <1>1. LogInv /\ [Next]_vars => [A]_vars
    <2> SUFFICES ASSUME LogInv, Next PROVE A
      OBVIOUS
    <2>1. next \in Nat
      BY DEF LogInv, SmallTypes
    <2>2. CASE Poll
      BY <2>2, PollFacts
    <2>3. CASE CloseView
      BY <2>1, <2>3 DEF CloseView
    <2>4. CASE ~ Poll /\ ~ CloseView
      <3>1. next' = next
        BY <2>4 DEF Next, Add, Tick, TakeAnswer, GiveUp, ReadSeq, Exec, AgentRestart, RedisLoses,
                    WatchExpires, OpenView, browser
      <3> QED BY <2>1, <3>1
    <2> QED BY <2>2, <2>3, <2>4
  <1> QED BY <1>1, LogInvariant, PTL DEF Spec, NothingSkipped

-----------------------------------------------------------------------------
(***************************************************************************)
(* ConfigLoad: the picture of the load is recent, and flatters no config.  *)
(* A snapshot is honest by what its arithmetic is: the percentage is the   *)
(* greatest of the home nodes' own, and where a fleet is so small that one *)
(* node must carry its share, some node does.  That it is recent takes an  *)
(* invariant about the one flight and the readers that wait for it.        *)
(***************************************************************************)

\* What a node reports can be added up.
Countable(np) ==
  np.total \in Nat /\ IsFiniteSet(DOMAIN np.ports) /\ np.ports \in [DOMAIN np.ports -> Nat]

\* A node's connections are a number.
LEMMA TotalFacts ==
  ASSUME NEW np, Countable(np)
  PROVE  Total(np) \in Nat
  <1> DEFINE S == DOMAIN np.ports
             f == np.ports
             F(h) == [t \in SUBSET S |-> IF t = {} THEN 0 ELSE f[Some(t)] + h[t \ {Some(t)}]]
             sum == CHOOSE h : h = F(h)
  <1>1. PICK g : g = F(g)
    <2>1. PICK g : AddsUpSets(g, f, S)
      BY SumsExist DEF Countable
    <2>2. g = F(g)
      BY <2>1 DEF AddsUpSets
    <2> HIDE DEF F
    <2> QED BY <2>2
  <1>2. sum = F(sum)
    BY <1>1
  <1>3. Total(np) = Max({np.total, sum[S]})
    BY DEF Total, MapThenSumSet, MapThenFoldSet, Some
  <1> HIDE DEF sum
  <1>4. sum[S] \in Nat
    BY <1>2, SumsBounded DEF AddsUpSets, Countable
  <1>5. PICK a \in Nat, b \in Nat : a = np.total /\ b = sum[S]
    BY <1>4 DEF Countable
  <1>6. \E x \in {a, b} : \A y \in {a, b} : x >= y
    OBVIOUS
  <1>7. Max({a, b}) \in {a, b}
    BY <1>6 DEF Max
  <1> QED BY <1>3, <1>5, <1>7

\* A quotient of numbers is a number.
LEMMA Quotients ==
  ASSUME NEW a \in Nat, NEW b \in Nat \ {0}
  PROVE  a \div b \in Nat
  OBVIOUS

\* A share is read as at most 100.
LEMMA PercentFacts ==
  ASSUME NEW conns \in Nat, NEW capacity \in Nat \ {0}
  PROVE  Percent(conns, capacity) \in 0 .. 100
  <1>1. 200 * conns + capacity \in Nat /\ 2 * capacity \in Nat \ {0}
    OBVIOUS
  <1>2. PICK q \in Nat : q = (200 * conns + capacity) \div (2 * capacity)
    BY <1>1, Quotients
  <1>3. \E x \in {100, q} : \A y \in {100, q} : x <= y
    OBVIOUS
  <1>4. Min({100, q}) \in {100, q} /\ Min({100, q}) <= 100
    BY <1>3 DEF Min
  <1> QED BY <1>2, <1>4 DEF Percent

LEMMA CapacityFacts ==
  ASSUME NEW n \in LoadNodes
  PROVE  CapacityOf(n) \in Nat \ {0}
  BY FiguresAssumption DEF CapacityOf

\* Everything that was read can be added up, and is of nodes of the fleet.
Readable(data) ==
  DOMAIN data.nodes \subseteq LoadNodes /\ \A n \in DOMAIN data.nodes : Countable(data.nodes[n])

LEMMA PortConnsFacts ==
  ASSUME NEW np, Countable(np), NEW port
  PROVE  PortConns(np, port) \in Nat
  BY DEF PortConns, Countable

\* When a fleet is so small that one of its nodes must carry its share, a port with
\* candidates has a home.
LEMMA HomeFacts ==
  ASSUME NEW h, NEW data, Readable(data), NEW use, use \subseteq DOMAIN data.nodes
  PROVE  /\ Home(h, use, data) \subseteq use
         /\ use # {} /\ Cardinality(LoadNodes) <= HomeShare => Home(h, use, data) # {}
  <1> DEFINE f == [n \in use |-> PortConns(data.nodes[n], h.port)]
             F(g) == [t \in SUBSET use |->
                        IF t = {} THEN 0 ELSE PortConns(data.nodes[Some(t)], h.port) + g[t \ {Some(t)}]]
             sum == CHOOSE g : g = F(g)
  <1>1. IsFiniteSet(use) /\ use \subseteq LoadNodes /\ Cardinality(use) \in Nat
        /\ Cardinality(use) <= Cardinality(LoadNodes) /\ Cardinality(LoadNodes) \in Nat
    BY FiguresAssumption, FS_Subset, FS_CardinalityType DEF Readable
  <1>2. f \in [use -> Nat]
    BY PortConnsFacts DEF Readable
  <1>3. \A t \in SUBSET use : t # {} => Some(t) \in use
    BY DEF Some
  <1>4. \A g : F(g) = [t \in SUBSET use |-> IF t = {} THEN 0 ELSE f[Some(t)] + g[t \ {Some(t)}]]
    BY <1>3
  <1>5. PICK g : g = F(g)
    <2>1. PICK g : AddsUpSets(g, f, use)
      BY <1>1, SumsExist
    <2>2. g = [t \in SUBSET use |-> IF t = {} THEN 0 ELSE f[Some(t)] + g[t \ {Some(t)}]]
      BY <2>1 DEF AddsUpSets
    <2>3. g = F(g)
      <3> HIDE DEF F, f
      <3> QED BY <1>4, <2>2
    <2> HIDE DEF F
    <2> QED BY <2>3
  <1>6. sum = F(sum)
    BY <1>5
  <1>7. PortSum(h, use, data) = sum[use]
    BY DEF PortSum, MapThenSumSet, MapThenFoldSet, Some
  <1> HIDE DEF sum
  <1>8. AddsUpSets(sum, f, use)
    BY <1>4, <1>6 DEF AddsUpSets
  <1>9. \A n \in use : f[n] = PortConns(data.nodes[n], h.port) /\ f[n] \in Nat
    BY <1>2
  <1> HIDE DEF f, F
  <1>10. /\ sum[use] \in Nat
         /\ \A c \in Nat, b \in Nat : (\A x \in use : f[x] * c <= b) => sum[use] * c <= Cardinality(use) * b
    BY <1>1, <1>2, <1>8, SumsBounded
  <1>11. Home(h, use, data) = IF sum[use] = 0 THEN use ELSE {n \in use : f[n] * HomeShare >= sum[use]}
    BY <1>7, <1>9 DEF Home
  <1>12. ASSUME use # {}, Cardinality(LoadNodes) <= HomeShare, Home(h, use, data) = {} PROVE FALSE
    <2>1. sum[use] # 0 /\ \A n \in use : ~ (f[n] * HomeShare >= sum[use])
      BY <1>11, <1>12
    <2> DEFINE total == sum[use]
               b == total - 1
               m == Cardinality(use)
    <2>2. total \in Nat /\ b \in Nat /\ HomeShare \in Nat \ {0} /\ m \in Nat /\ m <= HomeShare
      BY <1>1, <1>10, <1>12, <2>1, FiguresAssumption
    <2>3. \A n \in use : f[n] * HomeShare <= b
      <3> SUFFICES ASSUME NEW n \in use PROVE f[n] * HomeShare <= b
        OBVIOUS
      <3>1. f[n] * HomeShare \in Int
        BY <1>9, <2>2, Distributes
      <3> QED BY <2>1, <2>2, <3>1
    <2>4. total * HomeShare <= m * b
      BY <1>10, <2>2, <2>3
    <2>5. m * b <= HomeShare * b
      <3>1. PICK d \in Nat : HomeShare = m + d
        <4>1. HomeShare - m \in Nat /\ HomeShare = m + (HomeShare - m)
          BY <2>2
        <4> QED BY <4>1
      <3>2. (m + d) * b = m * b + d * b /\ d * b \in Int /\ m * b \in Int
        BY <2>2, Distributes
      <3>3. d * b >= 0
        BY <2>2
      <3> QED BY <3>1, <3>2, <3>3
    <2>6. total * HomeShare = HomeShare * b + HomeShare /\ HomeShare * b \in Int /\ m * b \in Int
      <3>1. (b + 1) * HomeShare = b * HomeShare + 1 * HomeShare /\ b * HomeShare = HomeShare * b /\ b * HomeShare \in Int
        BY <2>2, Distributes
      <3>2. total = b + 1 /\ 1 * HomeShare = HomeShare
        BY <2>2
      <3>3. m * b \in Int
        BY <2>2, Distributes
      <3> HIDE DEF b, m, total
      <3> QED BY <3>1, <3>2, <3>3
    <2> HIDE DEF b, m, total
    <2> QED BY <2>2, <2>4, <2>5, <2>6
  <1> QED BY <1>11, <1>12

\* A config's percentage is at least each of its home nodes' own.
LEMMA HostPercentFacts ==
  ASSUME NEW h, NEW data, Readable(data), NEW home, home \subseteq DOMAIN data.nodes
  PROVE  \A n \in home :
           HostPercent(h, home, data) >= Percent(Total(data.nodes[n]), CapacityOf(n))
  <1> DEFINE A == {Percent(PortConns(data.nodes[n], h.port), CapacityOf(n)) : n \in home}
             B == {Percent(Total(data.nodes[n]), CapacityOf(n)) : n \in home}
             S == {0} \cup A \cup B
  <1>1. ASSUME NEW n \in home
        PROVE  /\ Percent(PortConns(data.nodes[n], h.port), CapacityOf(n)) \in 0 .. 100
               /\ Percent(Total(data.nodes[n]), CapacityOf(n)) \in 0 .. 100
    <2>1. n \in LoadNodes /\ Countable(data.nodes[n])
      BY DEF Readable
    <2> QED BY <2>1, CapacityFacts, PercentFacts, PortConnsFacts, TotalFacts
  <1>2. S \in SUBSET Nat /\ S # {} /\ 100 \in Nat /\ \A x \in S : x <= 100
    BY <1>1
  <1>3. PICK m \in S : \A y \in S : y <= m
    <2> HIDE DEF S
    <2> QED BY <1>2, HasGreatest
  <1>4. HostPercent(h, home, data) = Max(S)
    BY DEF HostPercent
  <1>5. ASSUME NEW n \in home PROVE Percent(Total(data.nodes[n]), CapacityOf(n)) \in S
    OBVIOUS
  <1> HIDE DEF S
  <1>6. \A y \in S : y \in Nat
    BY <1>2
  <1>7. \A y \in S : m >= y
    BY <1>3, <1>6
  <1>8. \A y \in S : Max(S) >= y
    BY <1>7 DEF Max
  <1> QED BY <1>4, <1>5, <1>8

\* A known load is of a config's home nodes, and flatters none of them.
HonestLoad(load, nodes) ==
  load.known =>
    /\ Cardinality(LoadNodes) <= HomeShare => load.home # {}
    /\ \A n \in load.home : n \in DOMAIN nodes /\ load.percent >= nodes[n].percent

HonestSnap(s) == \A id \in DOMAIN s.hosts : HonestLoad(s.hosts[id], s.nodes)

NodeLoads(data) ==
  [n \in DOMAIN data.nodes |-> [conns |-> Total(data.nodes[n]),
                                percent |-> Percent(Total(data.nodes[n]), CapacityOf(n))]]

LEMMA ComputeFacts ==
  ASSUME NEW h, NEW data, data.live => Readable(data)
  PROVE  HonestLoad(Compute(h, data), NodeLoads(data))
  <1> DEFINE cands == Candidates(h, data)
             use == Matched(h, cands)
             home == Home(h, use, data)
             load == [known |-> TRUE, conns |-> PortSum(h, use, data),
                      percent |-> HostPercent(h, home, data),
                      level |-> LevelFor(HostPercent(h, home, data)), home |-> home]
  <1>1. CASE ~data.live \/ h.port = 0 \/ cands = {}
    <2>1. Compute(h, data) = UnknownLoad
      BY <1>1 DEF Compute
    <2> QED BY <2>1 DEF UnknownLoad, HonestLoad
  <1>2. CASE ~(~data.live \/ h.port = 0 \/ cands = {})
    <2>1. Compute(h, data) = load
      BY <1>2 DEF Compute
    <2>2. Readable(data)
      BY <1>2
    <2>3. cands \subseteq DOMAIN data.nodes
      BY DEF Candidates
    <2>4. use \subseteq cands /\ use # {}
      BY <1>2 DEF Matched
    <2>5. load.home = home /\ load.percent = HostPercent(h, home, data)
      OBVIOUS
    <2> HIDE DEF cands, use, home, load
    <2>6. /\ home \subseteq use
          /\ Cardinality(LoadNodes) <= HomeShare => home # {}
      BY <2>2, <2>3, <2>4, HomeFacts DEF home
    <2>7. \A n \in home : HostPercent(h, home, data) >= Percent(Total(data.nodes[n]), CapacityOf(n))
      BY <2>2, <2>3, <2>4, <2>6, HostPercentFacts
    <2>8. \A n \in home : /\ n \in DOMAIN NodeLoads(data)
                          /\ NodeLoads(data)[n].percent = Percent(Total(data.nodes[n]), CapacityOf(n))
      BY <2>3, <2>4, <2>6 DEF NodeLoads
    <2> QED BY <2>1, <2>5, <2>6, <2>7, <2>8 DEF HonestLoad
  <1> QED BY <1>1, <1>2

AnswerOK(d) ==
  /\ DOMAIN d = {"known", "ips", "at", "failed", "refreshing"}
  /\ d.ips \in Answers \cup {{}} /\ d.refreshing \in BOOLEAN

LoadTypes ==
  /\ tick \in 0 .. MaxClock
  /\ presence \in [LoadNodes -> {[ports |-> r.ports, total |-> r.total, until |-> u] :
                                  r \in Readings \cup {NoReading}, u \in 0 .. (MaxClock + KeyTTL)}]
  /\ disabled \subseteq LoadNodes
  /\ DOMAIN dns = Names
  /\ \A a \in Names : AnswerOK(dns[a])

LEMMA PresenceFacts ==
  ASSUME LoadTypes, NEW n \in LoadNodes
  PROVE  Countable(presence[n])
  <1>1. PICK r \in Readings \cup {NoReading}, u \in 0 .. (MaxClock + KeyTTL) :
          presence[n] = [ports |-> r.ports, total |-> r.total, until |-> u]
    BY DEF LoadTypes
  <1>2. CASE r \in Readings
    BY <1>1, <1>2, FiguresAssumption DEF Countable
  <1>3. CASE r = NoReading
    <2>1. DOMAIN <<>> = {} /\ <<>> \in [{} -> Nat]
      OBVIOUS
    <2>2. IsFiniteSet({})
      BY FS_EmptySet
    <2>3. presence[n].ports = <<>> /\ presence[n].total = 0
      BY <1>1, <1>3 DEF NoReading
    <2> QED BY <2>1, <2>2, <2>3 DEF Countable
  <1> QED BY <1>2, <1>3

LEMMA BuildIsHonest ==
  ASSUME LoadTypes, NEW at, NEW s \in Builds(at)
  PROVE  HonestSnap(s)
  <1>1. ASSUME NEW nodes, NEW data, data.live => Readable(data), s = BuildFrom(at, nodes, data)
        PROVE  HonestSnap(s)
    <2> DEFINE ids == {HostRows[i].id : i \in RealHosts}
               chosen(id) == CHOOSE h \in Range(HostRows) : h.id = id
               loads == [id \in ids |-> Compute(chosen(id), data)]
    <2>1. s = [at |-> at, live |-> data.live, nodes |-> NodeLoads(data), hosts |-> loads]
      BY <1>1 DEF BuildFrom, NodeLoads
    <2>2. s.nodes = NodeLoads(data) /\ s.hosts = loads
      BY <2>1
    <2>3. ASSUME NEW id \in DOMAIN s.hosts PROVE HonestLoad(s.hosts[id], s.nodes)
      <3>1. s.hosts[id] = Compute(chosen(id), data)
        BY <2>2, <2>3
      <3> QED BY <1>1, <2>2, <3>1, ComputeFacts
    <2> QED BY <2>3 DEF HonestSnap
  <1>2. ~ NoData.live
    BY DEF NoData
  <1>3. Readable(Read(ActiveNodes))
    <2> DEFINE nodes == {i \in ActiveNodes : Live /\ Reporting(i)}
    <2>1. Read(ActiveNodes).nodes = [n \in nodes |-> [ports |-> presence[n].ports, total |-> presence[n].total]]
      BY DEF Read
    <2>2. nodes \subseteq LoadNodes
      BY DEF ActiveNodes
    <2> HIDE DEF nodes
    <2>3. ASSUME NEW n \in nodes PROVE Countable([ports |-> presence[n].ports, total |-> presence[n].total])
      BY <2>2, PresenceFacts DEF Countable
    <2> QED BY <2>1, <2>2, <2>3 DEF Readable
  <1>4. CASE s = EmptySnapshot(at)
    <2>1. s.hosts = <<>> /\ DOMAIN <<>> = {}
      BY <1>4 DEF EmptySnapshot
    <2> QED BY <2>1 DEF HonestSnap
  <1> QED BY <1>1, <1>2, <1>3, <1>4 DEF Builds

\* The one flight is young, and later than what is stored.
FlightInv ==
  /\ tick \in Nat
  /\ flight # NoSnap => flight.at \in Nat /\ flight.at <= tick /\ tick <= flight.at + BuildTimeout
  /\ snap # NoSnap => snap.at \in Nat /\ snap.at <= tick
  /\ flight # NoSnap /\ snap # NoSnap => snap.at <= flight.at

\* Who waits waits for a flight that began recently enough, and who is woken finds
\* what it brought, or something later.
ReaderOK(q) ==
  /\ q = [st |-> q.st, asked |-> q.asked, shown |-> q.shown] /\ q.asked \in Nat
  /\ q.st = "waits" => flight # NoSnap /\ q.asked <= flight.at + BuildTimeout
  /\ q.st = "woken" => snap # NoSnap /\ q.asked - MaxStale < snap.at
  /\ q.st = "done" => q.asked - MaxStale < q.shown.at

LoadInv ==
  /\ FlightInv
  /\ DOMAIN reader = Readers /\ \A r \in Readers : ReaderOK(reader[r])

\* A snapshot is told from its absence, and carries the time its rebuild began.
LEMMA BuildFacts ==
  ASSUME NEW at, NEW s \in Builds(at)
  PROVE  s # NoSnap /\ s.at = at
  <1>1. ASSUME NEW live, NEW nodes, NEW hosts, s = [at |-> at, live |-> live, nodes |-> nodes, hosts |-> hosts]
        PROVE  s # NoSnap /\ s.at = at
    <2>1. "live" \in DOMAIN s /\ DOMAIN NoSnap = {"none"}
      BY <1>1 DEF NoSnap
    <2> QED BY <1>1, <2>1
  <1>2. ASSUME NEW nodes, NEW data, s = BuildFrom(at, nodes, data) PROVE s # NoSnap /\ s.at = at
    <2>1. PICK loads, shares :
            /\ loads = [n \in DOMAIN data.nodes |->
                          [conns |-> Total(data.nodes[n]),
                           percent |-> Percent(Total(data.nodes[n]), CapacityOf(n))]]
            /\ shares = [id \in {HostRows[i].id : i \in RealHosts} |->
                           Compute(CHOOSE h \in Range(HostRows) : h.id = id, data)]
      OBVIOUS
    <2>2. s = [at |-> at, live |-> data.live, nodes |-> loads, hosts |-> shares]
      BY <1>2, <2>1 DEF BuildFrom
    <2> QED BY <1>1, <2>2
  <1>3. CASE s = EmptySnapshot(at)
    <2>1. s = [at |-> at, live |-> FALSE, nodes |-> <<>>, hosts |-> <<>>]
      BY <1>3 DEF EmptySnapshot
    <2> QED BY <1>1, <2>1
  <1> QED BY <1>2, <1>3 DEF Builds

\* A rebuild that runs is told from none.
LEMMA FlightIsOne ==
  ASSUME NEW at
  PROVE  [at |-> at] # NoSnap /\ [at |-> at].at = at
  <1>1. PICK f : f = [at |-> at]
    OBVIOUS
  <1>2. DOMAIN f = {"at"} /\ DOMAIN NoSnap = {"none"} /\ "at" # "none"
    BY <1>1 DEF NoSnap
  <1> QED BY <1>1, <1>2

\* A reader asks: it is answered, or it waits.
LEMMA SnapshotStep ==
  ASSUME LoadInv, NEW r \in Readers, Snapshot(r)
  PROVE  LoadInv'
  <1>0. /\ FlightInv /\ DOMAIN reader = Readers /\ (\A q \in Readers : ReaderOK(reader[q]))
        /\ SnapTTL \in Nat /\ MaxStale \in Nat /\ BuildTimeout \in Nat /\ UNCHANGED <<tick, snap>>
    BY TimesAssumption DEF LoadInv, Snapshot
  <1>1. flight' = flight \/ (flight = NoSnap /\ flight' = [at |-> tick])
    BY DEF Snapshot, StartRefresh
  <1>2. flight' # NoSnap => /\ flight'.at \in Nat /\ flight'.at <= tick /\ tick <= flight'.at + BuildTimeout
                            /\ snap # NoSnap => snap.at <= flight'.at
    <2>1. CASE flight' = flight
      BY <1>0, <2>1 DEF FlightInv
    <2>2. CASE flight' = [at |-> tick]
      <3>1. flight'.at = tick
        BY <2>2, FlightIsOne
      <3> QED BY <1>0, <3>1 DEF FlightInv
    <2> QED BY <1>1, <2>1, <2>2
  <1>3. FlightInv'
    BY <1>0, <1>2 DEF FlightInv
  <1>4. ASSUME NEW q \in Readers, reader'[q] = reader[q] PROVE ReaderOK(reader[q])'
    <2>1. ReaderOK(reader[q])
      BY <1>0
    <2>2. flight # NoSnap => flight' = flight
      BY <1>1
    <2> QED BY <1>0, <1>4, <2>1, <2>2 DEF ReaderOK
  <1>5. CASE StillUsable
    <2>1. PICK v : v = [st |-> "done", asked |-> tick, shown |-> Shown(snap)]
      OBVIOUS
    <2>2. v.st = "done" /\ v.asked = tick /\ v.shown = Shown(snap) /\ v = [st |-> v.st, asked |-> v.asked, shown |-> v.shown]
      BY <2>1
    <2>3. Shown(snap).at = snap.at
      BY DEF Shown
    <2>4. snap.at \in Nat /\ tick \in Nat /\ tick - snap.at < MaxStale
      BY <1>0, <1>5 DEF FlightInv, StillUsable
    <2>5. v.asked - MaxStale < v.shown.at
      BY <1>0, <2>2, <2>3, <2>4
    <2>6. reader' = [reader EXCEPT ![r] = v]
      BY <1>5, <2>1 DEF Snapshot
    <2>7. DOMAIN reader' = Readers /\ reader'[r] = v /\ \A q \in Readers \ {r} : reader'[q] = reader[q]
      BY <1>0, <2>6
    <2>8. ReaderOK(reader[r])'
      BY <2>2, <2>4, <2>5, <2>7 DEF ReaderOK
    <2>9. (\A q \in Readers : ReaderOK(reader[q]))'
      BY <1>4, <2>7, <2>8
    <2> QED BY <1>3, <2>7, <2>9 DEF LoadInv
  <1>6. CASE ~StillUsable
    <2>1. PICK v : v = [st |-> "waits", asked |-> tick, shown |-> NoSnap]
      OBVIOUS
    <2>2. v.st = "waits" /\ v.asked = tick /\ v = [st |-> v.st, asked |-> v.asked, shown |-> v.shown]
      BY <2>1
    <2>3. flight' # NoSnap /\ tick \in Nat
      BY <1>0, <1>1, <1>6, FlightIsOne DEF Snapshot, StartRefresh, FlightInv
    <2>4. reader' = [reader EXCEPT ![r] = v]
      BY <1>6, <2>1 DEF Snapshot
    <2>5. DOMAIN reader' = Readers /\ reader'[r] = v /\ \A q \in Readers \ {r} : reader'[q] = reader[q]
      BY <1>0, <2>4
    <2>6. ReaderOK(reader[r])'
      BY <1>2, <2>2, <2>3, <2>5 DEF ReaderOK
    <2>7. (\A q \in Readers : ReaderOK(reader[q]))'
      BY <1>4, <2>5, <2>6
    <2> QED BY <1>3, <2>5, <2>7 DEF LoadInv
  <1> QED BY <1>5, <1>6

\* A rebuild ends: whoever waited finds a picture no older than it may be.
LEMMA FinishStep ==
  ASSUME LoadInv, FinishBuild
  PROVE  LoadInv'
  <1>0. /\ FlightInv /\ DOMAIN reader = Readers /\ (\A q \in Readers : ReaderOK(reader[q]))
        /\ MaxStale \in Nat /\ BuildTimeout \in Nat /\ BuildTimeout < MaxStale
    BY TimesAssumption DEF LoadInv
  <1>1. /\ flight # NoSnap /\ flight' = NoSnap /\ tick' = tick
        /\ reader' = [r \in Readers |-> IF reader[r].st = "waits" THEN [reader[r] EXCEPT !.st = "woken"] ELSE reader[r]]
        /\ snap' \in Builds(flight.at)
    BY DEF FinishBuild
  <1>2. snap' # NoSnap /\ snap'.at = flight.at
    BY <1>1, BuildFacts
  <1>3. flight.at \in Nat /\ flight.at <= tick /\ tick \in Nat /\ (snap # NoSnap => snap.at \in Nat /\ snap.at <= flight.at)
    BY <1>0, <1>1 DEF FlightInv
  <1>4. FlightInv'
    BY <1>1, <1>2, <1>3 DEF FlightInv
  <1>5. ASSUME NEW q \in Readers PROVE ReaderOK(reader[q])'
    <2>1. ReaderOK(reader[q])
      BY <1>0
    <2>2. CASE reader[q].st = "waits"
      <3>1. reader'[q] = [reader[q] EXCEPT !.st = "woken"]
        BY <1>1, <2>2
      <3>2. PICK w : w = reader[q]
        OBVIOUS
      <3>3. w = [st |-> w.st, asked |-> w.asked, shown |-> w.shown] /\ w.asked \in Nat /\ w.asked <= flight.at + BuildTimeout
        BY <2>1, <2>2, <3>2 DEF ReaderOK
      <3>4. PICK v : v = reader'[q]
        OBVIOUS
      <3>5. v = [st |-> "woken", asked |-> w.asked, shown |-> w.shown]
        BY <3>1, <3>2, <3>3, <3>4
      <3>6. v.st = "woken" /\ v.asked = w.asked /\ v = [st |-> v.st, asked |-> v.asked, shown |-> v.shown]
        BY <3>5
      <3>7. v.asked - MaxStale < flight.at
        BY <1>0, <1>3, <3>3, <3>6
      <3> QED BY <1>2, <3>3, <3>4, <3>6, <3>7 DEF ReaderOK
    <2>3. CASE reader[q].st # "waits"
      <3>1. reader'[q] = reader[q]
        BY <1>1, <2>3
      <3>2. reader[q].st = "woken" => reader[q].asked - MaxStale < flight.at
        BY <1>0, <1>3, <2>1 DEF ReaderOK
      <3> QED BY <1>2, <2>1, <2>3, <3>1, <3>2 DEF ReaderOK
    <2> QED BY <2>2, <2>3
  <1>6. DOMAIN reader' = Readers
    BY <1>1
  <1> QED BY <1>4, <1>5, <1>6 DEF LoadInv

\* A reader that waited reads, or has gone.
LEMMA ReaderSteps ==
  ASSUME LoadInv, NEW r \in Readers, Woken(r) \/ Gone(r)
  PROVE  LoadInv'
  <1>0. /\ FlightInv /\ DOMAIN reader = Readers /\ (\A q \in Readers : ReaderOK(reader[q]))
        /\ UNCHANGED <<tick, snap, flight>>
    BY DEF LoadInv, Woken, Gone
  <1>1. FlightInv'
    BY <1>0 DEF FlightInv
  <1>2. ASSUME NEW v, reader' = [reader EXCEPT ![r] = v], ReaderOK(v) PROVE LoadInv'
    <2>1. DOMAIN reader' = Readers /\ reader'[r] = v /\ \A q \in Readers \ {r} : reader'[q] = reader[q]
      BY <1>0, <1>2
    <2>2. \A q \in Readers : ReaderOK(reader'[q])
      BY <1>0, <1>2, <2>1
    <2>3. (\A q \in Readers : ReaderOK(reader[q]))'
      BY <1>0, <2>2 DEF ReaderOK
    <2> QED BY <1>1, <2>1, <2>3 DEF LoadInv
  <1>3. CASE Woken(r)
    <2>1. PICK w : w = reader[r]
      OBVIOUS
    <2>2. ReaderOK(w) /\ w.st = "woken"
      BY <1>0, <1>3, <2>1 DEF Woken
    <2>3. PICK v : v = [st |-> "done", asked |-> w.asked, shown |-> Shown(snap)]
      OBVIOUS
    <2>4. reader' = [reader EXCEPT ![r] = v]
      <3>1. PICK sh : sh = Shown(snap)
        OBVIOUS
      <3>2. reader' = [reader EXCEPT ![r].st = "done", ![r].shown = sh]
        BY <1>3, <3>1 DEF Woken
      <3>3. w = [st |-> w.st, asked |-> w.asked, shown |-> w.shown]
        BY <2>2 DEF ReaderOK
      <3>4. PICK u : u = [w EXCEPT !.st = "done"]
        OBVIOUS
      <3>5. [u EXCEPT !.shown = sh] = v
        <4>1. PICK x, a, b : x = w.st /\ a = w.asked /\ b = w.shown
          OBVIOUS
        <4>2. w = [st |-> x, asked |-> a, shown |-> b]
          BY <3>3, <4>1
        <4>3. u = [st |-> "done", asked |-> a, shown |-> b]
          BY <3>4, <4>2
        <4>4. [u EXCEPT !.shown = sh] = [st |-> "done", asked |-> a, shown |-> sh]
          BY <4>3
        <4> QED BY <2>3, <3>1, <4>1, <4>4
      <3>6. reader' = [reader EXCEPT ![r] = [u EXCEPT !.shown = sh]]
        BY <1>0, <2>1, <3>2, <3>4
      <3> QED BY <3>5, <3>6
    <2>5. Shown(snap).at = snap.at
      BY DEF Shown
    <2>6. v.st = "done" /\ v.asked = w.asked /\ v.shown = Shown(snap) /\ v = [st |-> v.st, asked |-> v.asked, shown |-> v.shown]
      BY <2>3
    <2>7. ReaderOK(v)
      BY <2>2, <2>5, <2>6 DEF ReaderOK
    <2> QED BY <1>2, <2>4, <2>7
  <1>4. CASE Gone(r)
    <2>1. PICK v : v = [st |-> "idle", asked |-> 0, shown |-> NoSnap]
      OBVIOUS
    <2>2. reader' = [reader EXCEPT ![r] = v]
      BY <1>4, <2>1 DEF Gone
    <2>3. v.st = "idle" /\ v.asked = 0 /\ v = [st |-> v.st, asked |-> v.asked, shown |-> v.shown]
      BY <2>1
    <2>4. ReaderOK(v)
      BY <2>3 DEF ReaderOK
    <2> QED BY <1>2, <2>2, <2>4
  <1> QED BY <1>3, <1>4

\* No request is answered with a load picture as old as maxStale when it asked:
\* the flight it waits for began within one buildTimeout (loadmap.go's Snapshot
\* and startRefresh).
LEMMA AnswersRecent == LoadSpec => []LoadInv
  <1>1. LoadInit => LoadInv
    <2> SUFFICES ASSUME LoadInit PROVE LoadInv
      OBVIOUS
    <2>1. PICK v : v = [st |-> "idle", asked |-> 0, shown |-> NoSnap]
      OBVIOUS
    <2>2. v.st = "idle" /\ v.asked = 0 /\ v = [st |-> v.st, asked |-> v.asked, shown |-> v.shown]
      BY <2>1
    <2>3. reader = [r \in Readers |-> v] /\ tick = 0 /\ snap = NoSnap /\ flight = NoSnap
      BY <2>1 DEF LoadInit
    <2> QED BY <2>2, <2>3 DEF LoadInv, FlightInv, ReaderOK
  <1>2. LoadInv /\ [LoadNext]_mapVars => LoadInv'
    <2> SUFFICES ASSUME LoadInv, [LoadNext]_mapVars PROVE LoadInv'
      OBVIOUS
    <2>1. ASSUME UNCHANGED <<snap, flight, reader>>, tick' \in Nat, tick <= tick',
                 flight # NoSnap => tick' <= flight.at + BuildTimeout
          PROVE  LoadInv'
      <3>1. FlightInv /\ DOMAIN reader = Readers /\ \A q \in Readers : ReaderOK(reader[q])
        BY DEF LoadInv
      <3>2. FlightInv'
        BY <2>1, <3>1 DEF FlightInv
      <3>3. (\A q \in Readers : ReaderOK(reader[q]))'
        BY <2>1, <3>1 DEF ReaderOK
      <3> QED BY <2>1, <3>1, <3>2, <3>3 DEF LoadInv
    <2>2. tick \in Nat /\ (flight # NoSnap => flight.at \in Nat /\ tick <= flight.at + BuildTimeout) /\ BuildTimeout \in Nat
      BY TimesAssumption DEF LoadInv, FlightInv
    <2>3. ASSUME UNCHANGED <<tick, snap, flight, reader>> PROVE LoadInv'
      BY <2>1, <2>2, <2>3
    <2>4. ASSUME NEW n \in LoadNodes, NodeLive(n) \/ EditNode(n) PROVE LoadInv'
      BY <2>3, <2>4 DEF NodeLive, EditNode
    <2>5. ASSUME NEW a \in Names, Resolved(a) PROVE LoadInv'
      BY <2>3, <2>5 DEF Resolved
    <2>6. CASE LoadTick
      BY <2>1, <2>2, <2>6 DEF LoadTick
    <2>7. CASE UNCHANGED mapVars
      BY <2>3, <2>7 DEF mapVars
    <2> QED BY <2>4, <2>5, <2>6, <2>7, SnapshotStep, FinishStep, ReaderSteps DEF LoadNext
  <1> QED BY <1>1, <1>2, PTL DEF LoadSpec

ReaderStates == {"idle", "waits", "woken", "done"}

FiguresInv ==
  /\ LoadTypes
  /\ snap # NoSnap => HonestSnap(snap)
  /\ DOMAIN reader = Readers
  /\ \A r \in Readers : "st" \in DOMAIN reader[r] /\ reader[r].st \in ReaderStates

LEMMA ResolvedStep ==
  ASSUME LoadTypes, NEW a \in Names, Resolved(a)
  PROVE  LoadTypes'
  <1>1. PICK ips \in Answers :
          dns' = [dns EXCEPT ![a].refreshing = FALSE, ![a].at = tick, ![a].failed = (ips = {}),
                             ![a].ips = IF ips = {} THEN @ ELSE ips]
    BY DEF Resolved
  <1>2. PICK failed : failed = (ips = {})
    OBVIOUS
  <1> DEFINE d1 == [dns[a] EXCEPT !.refreshing = FALSE]
             d2 == [d1 EXCEPT !.at = tick]
             d3 == [d2 EXCEPT !.failed = failed]
             d4 == [d3 EXCEPT !.ips = IF ips = {} THEN @ ELSE ips]
  <1>3. AnswerOK(dns[a]) /\ DOMAIN dns = Names
    BY DEF LoadTypes
  <1>4. FALSE \in BOOLEAN
    BY Zenon
  <1>5. DOMAIN d1 = DOMAIN dns[a] /\ d1.refreshing = FALSE /\ d1.ips = dns[a].ips
    BY <1>3 DEF AnswerOK
  <1> HIDE DEF d1
  <1>6. DOMAIN d2 = DOMAIN dns[a] /\ d2.refreshing = FALSE /\ d2.ips = dns[a].ips
    BY <1>3, <1>5 DEF AnswerOK
  <1> HIDE DEF d2
  <1>7. DOMAIN d3 = DOMAIN dns[a] /\ d3.refreshing = FALSE /\ d3.ips = dns[a].ips
    BY <1>3, <1>6 DEF AnswerOK
  <1> HIDE DEF d3
  <1>8. DOMAIN d4 = DOMAIN dns[a] /\ d4.refreshing = FALSE
        /\ d4.ips = IF ips = {} THEN dns[a].ips ELSE ips
    BY <1>3, <1>7 DEF AnswerOK
  <1>9. dns' = [dns EXCEPT ![a] = d4]
    BY <1>1, <1>2, <1>3 DEF d1, d2, d3
  <1> HIDE DEF d4
  <1>10. AnswerOK(d4)
    BY <1>3, <1>4, <1>8 DEF AnswerOK
  <1>11. DOMAIN dns' = Names /\ \A b \in Names : dns'[b] = IF b = a THEN d4 ELSE dns[b]
    BY <1>3, <1>9
  <1>12. UNCHANGED <<tick, presence, disabled>>
    BY DEF Resolved
  <1> QED BY <1>10, <1>11, <1>12 DEF LoadTypes, AnswerOK

LEMMA LookupFacts ==
  ASSUME LoadTypes, NEW used, dns' = AfterLookups(used)
  PROVE  DOMAIN dns' = Names /\ \A a \in Names : AnswerOK(dns'[a])
  <1>1. ASSUME NEW a \in Names PROVE AnswerOK([dns[a] EXCEPT !.known = TRUE, !.refreshing = TRUE])
    <2> DEFINE d == [dns[a] EXCEPT !.known = TRUE]
    <2>1. AnswerOK(dns[a])
      BY DEF LoadTypes
    <2>2. DOMAIN d = DOMAIN dns[a] /\ d.ips = dns[a].ips
      BY <2>1 DEF AnswerOK
    <2> HIDE DEF d
    <2>3. TRUE \in BOOLEAN
      BY Zenon
    <2>4. AnswerOK([d EXCEPT !.refreshing = TRUE])
      BY <2>1, <2>2, <2>3 DEF AnswerOK
    <2> QED BY <2>4 DEF d
  <1>2. \A a \in Names : AnswerOK(dns[a])
    BY DEF LoadTypes
  <1>3. ASSUME NEW a \in Names
        PROVE  dns'[a] = dns[a] \/ dns'[a] = [dns[a] EXCEPT !.known = TRUE, !.refreshing = TRUE]
    BY DEF AfterLookups
  <1>4. DOMAIN dns' = Names
    BY DEF AfterLookups
  <1> QED BY <1>1, <1>2, <1>3, <1>4

LEMMA PresenceSteps ==
  ASSUME LoadTypes, LoadTick \/ \E n \in LoadNodes : NodeLive(n)
  PROVE  LoadTypes'
  <1> USE TimesAssumption
  <1> DEFINE key(r, u) == [ports |-> r.ports, total |-> r.total, until |-> u]
             Keys == {key(r, u) : r \in Readings \cup {NoReading}, u \in 0 .. (MaxClock + KeyTTL)}
  <1>1. presence \in [LoadNodes -> Keys] /\ tick \in 0 .. MaxClock
    BY DEF LoadTypes
  <1>2. CASE LoadTick
    <2>1. NoReading \in Keys
      <3>1. NoReading = key(NoReading, 0) /\ 0 \in 0 .. (MaxClock + KeyTTL)
        BY DEF NoReading
      <3> QED BY <3>1
    <2> HIDE DEF Keys
    <2>2. presence' \in [LoadNodes -> Keys]
      BY <1>1, <1>2, <2>1 DEF LoadTick
    <2>3. tick' \in 0 .. MaxClock /\ UNCHANGED <<disabled, dns>>
      BY <1>1, <1>2 DEF LoadTick
    <2> QED BY <2>2, <2>3 DEF LoadTypes, Keys, AnswerOK
  <1>3. ASSUME NEW n \in LoadNodes, NodeLive(n) PROVE LoadTypes'
    <2>1. PICK r \in Readings : presence' = [presence EXCEPT ![n] = key(r, tick + KeyTTL)]
      BY <1>3 DEF NodeLive
    <2>2. key(r, tick + KeyTTL) \in Keys
      BY <1>1
    <2> HIDE DEF Keys, key
    <2>3. presence' \in [LoadNodes -> Keys]
      BY <1>1, <2>1, <2>2
    <2>4. UNCHANGED <<tick, disabled, dns>>
      BY <1>3 DEF NodeLive
    <2> QED BY <2>3, <2>4 DEF LoadTypes, Keys, key, AnswerOK
  <1> QED BY <1>2, <1>3

LEMMA ReadersKept ==
  ASSUME DOMAIN reader = Readers,
         \A r \in Readers : "st" \in DOMAIN reader[r] /\ reader[r].st \in ReaderStates,
         NEW r \in Readers, NEW v, reader' = [reader EXCEPT ![r] = v],
         "st" \in DOMAIN v, v.st \in ReaderStates
  PROVE  /\ DOMAIN reader' = Readers
         /\ \A q \in Readers : "st" \in DOMAIN reader'[q] /\ reader'[q].st \in ReaderStates
  <1>1. DOMAIN reader' = Readers /\ \A q \in Readers : reader'[q] = IF q = r THEN v ELSE reader[q]
    OBVIOUS
  <1> QED BY <1>1

LEMMA FiguresSteps ==
  ASSUME FiguresInv, [LoadNext]_mapVars
  PROVE  FiguresInv'
  <1> DEFINE R == /\ DOMAIN reader = Readers
                  /\ \A r \in Readers : "st" \in DOMAIN reader[r] /\ reader[r].st \in ReaderStates
  <1>1. LoadTypes /\ R /\ (snap # NoSnap => HonestSnap(snap))
    BY DEF FiguresInv
  <1>2. ASSUME UNCHANGED <<tick, presence, disabled, dns>> PROVE LoadTypes'
    BY <1>1, <1>2 DEF LoadTypes, AnswerOK
  <1>3. ASSUME UNCHANGED <<snap, reader>>, LoadTypes' PROVE FiguresInv'
    BY <1>1, <1>3 DEF FiguresInv, HonestSnap, HonestLoad
  <1>4. CASE LoadTick \/ \E n \in LoadNodes : NodeLive(n)
    BY <1>1, <1>3, <1>4, PresenceSteps DEF LoadTick, NodeLive
  <1>5. ASSUME NEW n \in LoadNodes, EditNode(n) PROVE FiguresInv'
    <2>1. disabled' \subseteq LoadNodes /\ UNCHANGED <<tick, presence, dns, snap, reader>>
      BY <1>1, <1>5 DEF EditNode, LoadTypes
    <2> QED BY <1>1, <1>3, <2>1 DEF LoadTypes, AnswerOK
  <1>6. ASSUME NEW a \in Names, Resolved(a) PROVE FiguresInv'
    BY <1>1, <1>3, <1>6, ResolvedStep DEF Resolved
  <1>7. ASSUME NEW r \in Readers, Snapshot(r) PROVE FiguresInv'
    <2>1. LoadTypes' /\ snap' = snap
      BY <1>2, <1>7 DEF Snapshot
    <2>2. PICK st, shown :
            st \in ReaderStates /\ reader' = [reader EXCEPT ![r] = [st |-> st, asked |-> tick, shown |-> shown]]
      BY <1>7 DEF Snapshot, ReaderStates
    <2> DEFINE v == [st |-> st, asked |-> tick, shown |-> shown]
    <2>3. "st" \in DOMAIN v /\ v.st \in ReaderStates
      BY <2>2
    <2> HIDE DEF v
    <2>4. reader' = [reader EXCEPT ![r] = v]
      BY <2>2 DEF v
    <2>5. R'
      BY <1>1, <2>3, <2>4, ReadersKept
    <2> QED BY <1>1, <2>1, <2>5 DEF FiguresInv, HonestSnap, HonestLoad
  <1>8. ASSUME NEW r \in Readers, Woken(r) PROVE FiguresInv'
    <2>1. LoadTypes' /\ snap' = snap
      BY <1>2, <1>8 DEF Woken
    <2> DEFINE w == [reader[r] EXCEPT !.st = "done"]
               v == [w EXCEPT !.shown = Shown(snap)]
    <2>2. "st" \in DOMAIN w /\ w.st = "done"
      BY <1>1
    <2> HIDE DEF w
    <2>3. "st" \in DOMAIN v /\ v.st \in ReaderStates
      BY <2>2 DEF ReaderStates
    <2>4. reader' = [reader EXCEPT ![r] = v]
      BY <1>1, <1>8 DEF Woken, w
    <2> HIDE DEF v
    <2>5. R'
      BY <1>1, <2>3, <2>4, ReadersKept
    <2> QED BY <1>1, <2>1, <2>5 DEF FiguresInv, HonestSnap, HonestLoad
  <1>9. ASSUME NEW r \in Readers, Gone(r) PROVE FiguresInv'
    <2>1. LoadTypes' /\ snap' = snap
      BY <1>2, <1>9 DEF Gone
    <2> DEFINE v == [st |-> "idle", asked |-> 0, shown |-> NoSnap]
    <2>2. "st" \in DOMAIN v /\ v.st \in ReaderStates
      BY DEF ReaderStates
    <2> HIDE DEF v
    <2>3. reader' = [reader EXCEPT ![r] = v]
      BY <1>9 DEF Gone, v
    <2>4. R'
      BY <1>1, <2>2, <2>3, ReadersKept
    <2> QED BY <1>1, <2>1, <2>4 DEF FiguresInv, HonestSnap, HonestLoad
  <1>10. CASE FinishBuild
    <2>1. HonestSnap(snap')
      <3>1. PICK s \in Builds(flight.at) : snap' = s
        BY <1>10 DEF FinishBuild
      <3> QED BY <1>1, <3>1, BuildIsHonest
    <2>2. LoadTypes'
      <3>1. dns' = AfterLookups(AddressesUsed) /\ UNCHANGED <<tick, presence, disabled>>
        BY <1>10 DEF FinishBuild
      <3>2. DOMAIN dns' = Names /\ \A a \in Names : AnswerOK(dns'[a])
        BY <1>1, <3>1, LookupFacts
      <3> QED BY <1>1, <3>1, <3>2 DEF LoadTypes, AnswerOK
    <2>3. R'
      <3>1. reader' = [r \in Readers |-> IF reader[r].st = "waits" THEN [reader[r] EXCEPT !.st = "woken"]
                                         ELSE reader[r]]
        BY <1>10 DEF FinishBuild
      <3>2. ASSUME NEW r \in Readers
            PROVE  "st" \in DOMAIN reader'[r] /\ reader'[r].st \in ReaderStates
        <4>1. "st" \in DOMAIN reader[r] /\ reader[r].st \in ReaderStates
          BY <1>1
        <4> QED BY <3>1, <4>1 DEF ReaderStates
      <3> QED BY <3>1, <3>2
    <2> QED BY <2>1, <2>2, <2>3 DEF FiguresInv, HonestSnap, HonestLoad
  <1>11. CASE UNCHANGED mapVars
    BY <1>2, <1>3, <1>11 DEF mapVars
  <1> QED BY <1>4, <1>5, <1>6, <1>7, <1>8, <1>9, <1>10, <1>11 DEF LoadNext

\* Whatever the nodes report and whenever they fall silent, no request is answered
\* with a picture of the load as old as maxStale when it asked, and no config whose
\* load is known reads freer than a node that carries it (loadmap.go).
THEOREM LoadTheorem == LoadSpec => []LoadIsHonest
  <1>1. LoadInit => FiguresInv
    <2> SUFFICES ASSUME LoadInit PROVE FiguresInv
      OBVIOUS
    <2>1. AnswerOK(Unresolved)
      <3>1. FALSE \in BOOLEAN
        BY Zenon
      <3> QED BY <3>1 DEF AnswerOK, Unresolved
    <2>2. presence \in [LoadNodes -> {[ports |-> r.ports, total |-> r.total, until |-> u] :
                                        r \in Readings \cup {NoReading}, u \in 0 .. (MaxClock + KeyTTL)}]
      <3>1. NoReading = [ports |-> NoReading.ports, total |-> NoReading.total, until |-> 0]
            /\ 0 \in 0 .. (MaxClock + KeyTTL)
        BY TimesAssumption DEF NoReading
      <3> QED BY <3>1 DEF LoadInit
    <2>3. LoadTypes
      BY <2>1, <2>2, TimesAssumption DEF LoadInit, LoadTypes
    <2>4. snap = NoSnap
      BY DEF LoadInit
    <2>5. ASSUME NEW r \in Readers PROVE "st" \in DOMAIN reader[r] /\ reader[r].st \in ReaderStates
      BY DEF LoadInit, ReaderStates
    <2>6. DOMAIN reader = Readers
      BY DEF LoadInit
    <2> QED BY <2>3, <2>4, <2>5, <2>6 DEF FiguresInv
  <1>2. FiguresInv /\ [LoadNext]_mapVars => FiguresInv'
    BY FiguresSteps
  <1>3. LoadInv /\ FiguresInv => LoadIsHonest
    <2> SUFFICES ASSUME LoadInv, FiguresInv PROVE LoadIsHonest
      OBVIOUS
    <2>1. LoadTypeOK
      <3>1. /\ snap # NoSnap => snap.at \in 0 .. tick
            /\ flight # NoSnap => flight.at \in 0 .. tick
        BY DEF LoadInv, FlightInv
      <3>2. \A a \in Names : dns[a].ips \in Answers \cup {{}} /\ dns[a].refreshing \in BOOLEAN
        BY DEF FiguresInv, LoadTypes, AnswerOK
      <3> QED BY <3>1, <3>2 DEF LoadTypeOK, FiguresInv, LoadTypes, ReaderStates
    <2>2. AnswersAreRecent
      <3> SUFFICES ASSUME NEW r \in Readers, reader[r].st = "done"
                   PROVE  reader[r].shown.at > reader[r].asked - MaxStale
        BY DEF AnswersAreRecent
      <3>1. reader[r].asked - MaxStale < reader[r].shown.at
        BY DEF LoadInv, ReaderOK
      <3> QED BY <3>1
    <2>3. AsFreeAsItsNode
      <3> SUFFICES ASSUME snap # NoSnap, NEW id \in DOMAIN HostsLoad(snap).hosts
                   PROVE  LET snapped == HostsLoad(snap)
                          IN /\ Cardinality(LoadNodes) <= HomeShare => snapped.hosts[id].nodeIds # {}
                             /\ \A n \in snapped.hosts[id].nodeIds : snapped.hosts[id].percent >= snapped.nodes[n]
        BY DEF AsFreeAsItsNode
      <3>1. id \in DOMAIN snap.hosts /\ snap.hosts[id].known
            /\ HostsLoad(snap).hosts[id].percent = snap.hosts[id].percent
            /\ HostsLoad(snap).hosts[id].nodeIds = snap.hosts[id].home
        BY DEF HostsLoad
      <3>2. HonestLoad(snap.hosts[id], snap.nodes)
        BY <3>1 DEF FiguresInv, HonestSnap
      <3>3. \A n \in DOMAIN snap.nodes : HostsLoad(snap).nodes[n] = snap.nodes[n].percent
        BY DEF HostsLoad
      <3> QED BY <3>1, <3>2, <3>3 DEF HonestLoad
    <2> QED BY <2>1, <2>2, <2>3 DEF LoadIsHonest
  <1> QED BY <1>1, <1>2, <1>3, AnswersRecent, PTL DEF LoadSpec
=============================================================================
