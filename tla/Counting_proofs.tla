-------------------------- MODULE Counting_proofs ---------------------------
(***************************************************************************)
(* What is counted is counted right: connections in the presence table     *)
(* (ConnTracking), bytes on their way from a node to the panel's tables    *)
(* (UsageReport), and traffic on its way from the queue to the billing bot *)
(* (ResellerBilling), for any number of connections, users, reports,       *)
(* admins and failures.                                                    *)
(***************************************************************************)
EXTENDS ConnTracking, UsageReport, ResellerBilling, SetFacts, TLAPS

-----------------------------------------------------------------------------
(***************************************************************************)
(* ConnTracking: the counters are exact and no connection outlives its     *)
(* core, for any number of connections, users, ports and cores.            *)
(***************************************************************************)

\* The generation of counters follows the cores, so a reset never runs out.
GenInv == presence = IF stage = "none" THEN core ELSE core - 1

\* Nothing is counted before OpenConn.
UncountedInv ==
    \A c \in Conns : phase[c] \in {"new", "handshake", "tracked"} => counted[c] = {}

TypeInv == TrackTypeOK /\ GenInv /\ UncountedInv

\* A connection is counted under keys of the presence table.
LEMMA KeyInKeys ==
    ASSUME NEW c \in Conns, NEW step \in 1 .. 3, KeyAt(c, step) # NoPort
    PROVE  KeyAt(c, step) \in Keys
BY DEF KeyAt, Keys

\* The manager, the groups and the goroutines are well formed, with what that
\* rests on.
LEMMA TypeInvariance == TrackSpec => []TypeInv
<1>1. TrackInit => TypeInv
  BY CoresAssumption DEF TrackInit, TypeInv, TrackTypeOK, GenInv, UncountedInv, Phases, Gens
<1>2. TypeInv /\ [TrackNext]_trackVars => TypeInv'
  <2> SUFFICES ASSUME TypeInv, [TrackNext]_trackVars PROVE TypeInv'
    OBVIOUS
  <2> USE CoresAssumption DEF TypeInv, TrackTypeOK, GenInv, UncountedInv, Phases, Gens, Becomes, coreVars, groupVars, connVars
  <2>1. ASSUME NEW c \in Conns, Accept(c) PROVE TypeInv'
    BY <2>1 DEF Accept
  <2>2. ASSUME NEW c \in Conns, HandshakeFails(c) PROVE TypeInv'
    BY <2>2 DEF HandshakeFails
  <2>3. ASSUME NEW c \in Conns, Track(c) PROVE TypeInv'
    <3>1. CASE owner[c] \in closed
      BY <2>3, <3>1 DEF Track, Hold
    <3>2. CASE owner[c] \notin closed
      BY <2>3, <3>2 DEF Track, Hold
    <3> QED BY <3>1, <3>2
  <2>4. ASSUME NEW c \in Conns, RoutePacket(c) \/ OpenConn(c) PROVE TypeInv'
    <3>1. CASE RoutePacket(c)
      BY <3>1 DEF RoutePacket
    <3>2. CASE OpenConn(c)
      BY <3>2, SMTT(40) DEF OpenConn
    <3> QED BY <2>4, <3>1, <3>2
  <2>5. ASSUME NEW c \in Conns, NEW step \in 1 .. 3, CountOne(c, step) PROVE TypeInv'
    <3>1. KeyAt(c, step) \in Keys
      BY <2>5, KeyInKeys DEF CountOne, ConnKeys
    <3> QED BY <2>5, <3>1, SMTT(40) DEF CountOne, Add
  <2>6. ASSUME NEW c \in Conns, OnClose(c) PROVE TypeInv'
    BY <2>6 DEF OnClose
  <2>7. ASSUME NEW c \in Conns, NEW step \in 1 .. 3, UncountOne(c, step) PROVE TypeInv'
    BY <2>7, SMTT(40) DEF UncountOne, Uncount, Add
  <2>8. ASSUME NEW c \in Conns, Release(c) \/ OnCloseAgain(c) PROVE TypeInv'
    BY <2>8 DEF Release, OnCloseAgain
  <2>9. ASSUME NEW c \in Conns, CloseWorker(c) PROVE TypeInv'
    BY <2>9 DEF CloseWorker
  <2>10. CASE StartCore
    BY <2>10 DEF StartCore
  <2>11. CASE CloseBox
    BY <2>11 DEF CloseBox
  <2>12. CASE CloseAll
    BY <2>12 DEF CloseAll
  <2>13. CASE ResetPresence
    BY <2>13 DEF ResetPresence
  <2>14. CASE UNCHANGED trackVars
    BY <2>14 DEF trackVars
  <2> QED BY <2>1, <2>2, <2>3, <2>4, <2>5, <2>6, <2>7, <2>8, <2>9, <2>10, <2>11,
             <2>12, <2>13, <2>14 DEF TrackNext, CoreStep, ConnStep
<1> QED BY <1>1, <1>2, PTL DEF TrackSpec

\* The manager, the groups and the goroutines are always well formed.
THEOREM TrackTypeCorrect == TrackSpec => []TrackTypeOK
<1>1. TypeInv => TrackTypeOK
  BY DEF TypeInv
<1> QED BY <1>1, TypeInvariance, PTL

-----------------------------------------------------------------------------
(***************************************************************************)
(* The counters.                                                           *)
(***************************************************************************)

\* A step that leaves every connection's counts alone leaves the sets alone.
LEMMA CountedUnchanged ==
    ASSUME CountsAreExact, UNCHANGED <<gen, counted, count>>
    PROVE  CountsAreExact'
<1>1. \A g \in Gens, key \in Keys : Counted(g, key)' = Counted(g, key)
  BY DEF Counted
<1> QED BY <1>1 DEF CountsAreExact

\* An add counts one connection more, under one key of one generation.
LEMMA CountOneExact ==
    ASSUME TypeInv, CountsAreExact, NEW c \in Conns, NEW step \in 1 .. 3, CountOne(c, step)
    PROVE  CountsAreExact'
<1> DEFINE k == KeyAt(c, step)
<1> USE DEF TypeInv, TrackTypeOK
<1>1. k \in Keys /\ k \notin counted[c]
  BY KeyInKeys DEF CountOne, ConnKeys
<1>2. /\ gen' = gen
      /\ counted' = [counted EXCEPT ![c] = @ \cup {k}]
      /\ count' = [count EXCEPT ![gen[c]][k] = @ + 1]
  BY DEF CountOne, Add
<1> HIDE DEF k
<1> SUFFICES ASSUME NEW g \in Gens, NEW key \in Keys
             PROVE  count'[g][key] = Cardinality(Counted(g, key)')
  BY DEF CountsAreExact, Counted
<1>3. count[g][key] = Cardinality(Counted(g, key)) /\ IsFiniteSet(Counted(g, key))
  BY ConnsAssumption, FS_Subset DEF CountsAreExact, Counted
<1>4. CASE g = gen[c] /\ key = k
  <2>1. Counted(g, key)' = Counted(g, key) \cup {c} /\ c \notin Counted(g, key)
    BY <1>1, <1>2, <1>4 DEF Counted
  <2>2. count'[g][key] = count[g][key] + 1
    BY <1>1, <1>2, <1>4
  <2>3. Cardinality(Counted(g, key) \cup {c}) = Cardinality(Counted(g, key)) + 1
    <3> DEFINE S == Counted(g, key)
    <3>1. IsFiniteSet(S) /\ c \notin S
      BY <1>3, <2>1
    <3> HIDE DEF S
    <3>2. Cardinality(S \cup {c}) = Cardinality(S) + 1
      BY <3>1, FS_AddElement
    <3> QED BY <3>2 DEF S
  <2> QED BY <1>3, <2>1, <2>2, <2>3
<1>5. CASE ~ (g = gen[c] /\ key = k)
  <2>1. Counted(g, key)' = Counted(g, key)
    BY <1>1, <1>2, <1>5 DEF Counted
  <2>2. count'[g][key] = count[g][key]
    BY <1>1, <1>2, <1>5
  <2> QED BY <1>3, <2>1, <2>2
<1> QED BY <1>4, <1>5

\* A subtraction of the close func takes away what its connection added.
LEMMA UncountOneExact ==
    ASSUME TypeInv, CountsAreExact, NEW c \in Conns, NEW step \in 1 .. 3, UncountOne(c, step)
    PROVE  CountsAreExact'
<1> DEFINE k == KeyAt(c, step)
<1> USE DEF TypeInv, TrackTypeOK
<1>1. k \in Keys /\ k \in counted[c]
  BY DEF UncountOne
<1>2. /\ gen' = gen
      /\ counted' = [counted EXCEPT ![c] = @ \ {k}]
      /\ count' = [count EXCEPT ![gen[c]][k] = @ + (-1)]
  BY DEF UncountOne, Uncount, Add
<1> HIDE DEF k
<1> SUFFICES ASSUME NEW g \in Gens, NEW key \in Keys
             PROVE  count'[g][key] = Cardinality(Counted(g, key)')
  BY DEF CountsAreExact, Counted
<1>3. count[g][key] = Cardinality(Counted(g, key)) /\ IsFiniteSet(Counted(g, key))
  BY ConnsAssumption, FS_Subset DEF CountsAreExact, Counted
<1>4. CASE g = gen[c] /\ key = k
  <2>1. Counted(g, key)' = Counted(g, key) \ {c} /\ c \in Counted(g, key)
    BY <1>1, <1>2, <1>4 DEF Counted
  <2>2. count'[g][key] = count[g][key] - 1
    BY <1>1, <1>2, <1>4
  <2>3. Cardinality(Counted(g, key) \ {c}) = Cardinality(Counted(g, key)) - 1
    BY <1>3, <2>1, FS_RemoveElement
  <2> QED BY <1>3, <2>1, <2>2, <2>3
<1>5. CASE ~ (g = gen[c] /\ key = k)
  <2>1. Counted(g, key)' = Counted(g, key)
    BY <1>1, <1>2, <1>5 DEF Counted
  <2>2. count'[g][key] = count[g][key]
    BY <1>1, <1>2, <1>5
  <2> QED BY <1>3, <2>1, <2>2
<1> QED BY <1>4, <1>5

\* The counters of every generation are exact at all times: presence neither
\* leaks nor goes negative, whatever the order of opens, closes delivered once
\* or twice, and core restarts.
THEOREM CountsTheorem == TrackSpec => []CountsAreExact
<1>1. TrackInit => CountsAreExact
  <2> SUFFICES ASSUME TrackInit, NEW g \in Gens, NEW key \in Keys
               PROVE  count[g][key] = Cardinality(Counted(g, key))
    BY DEF CountsAreExact
  <2>1. Counted(g, key) = {}
    BY DEF TrackInit, Counted
  <2> QED BY <2>1, FS_EmptySet DEF TrackInit
<1>2. TypeInv /\ CountsAreExact /\ [TrackNext]_trackVars => CountsAreExact'
  <2> SUFFICES ASSUME TypeInv, CountsAreExact, [TrackNext]_trackVars PROVE CountsAreExact'
    OBVIOUS
  <2>1. CASE UNCHANGED <<gen, counted, count>>
    BY <2>1, CountedUnchanged
  <2>2. ASSUME NEW c \in Conns, OpenConn(c) PROVE CountsAreExact'
    <3>1. counted[c] = {} /\ counted' = counted /\ count' = count
      BY <2>2 DEF OpenConn, TypeInv, UncountedInv
    <3>2. \A d \in Conns : d # c => gen'[d] = gen[d]
      BY <2>2 DEF OpenConn, TypeInv, TrackTypeOK
    <3>3. \A g \in Gens, key \in Keys : Counted(g, key)' = Counted(g, key)
      BY <3>1, <3>2 DEF Counted
    <3> QED BY <3>1, <3>3 DEF CountsAreExact
  <2>3. ASSUME NEW c \in Conns, NEW step \in 1 .. 3, CountOne(c, step) PROVE CountsAreExact'
    BY <2>3, CountOneExact
  <2>4. ASSUME NEW c \in Conns, NEW step \in 1 .. 3, UncountOne(c, step) PROVE CountsAreExact'
    BY <2>4, UncountOneExact
  <2>5. CASE CoreStep
    BY <2>1, <2>5 DEF CoreStep, StartCore, CloseBox, CloseAll, ResetPresence, connVars
  <2>6. ASSUME NEW c \in Conns,
               \/ Accept(c) \/ HandshakeFails(c) \/ Track(c) \/ RoutePacket(c)
               \/ OnClose(c) \/ Release(c) \/ OnCloseAgain(c) \/ CloseWorker(c)
        PROVE  UNCHANGED <<gen, counted, count>>
    BY <2>6 DEF Accept, HandshakeFails, Track, RoutePacket, OnClose, Release, OnCloseAgain,
                CloseWorker, connVars
  <2>7. CASE UNCHANGED trackVars
    BY <2>1, <2>7 DEF trackVars, connVars
  <2> QED BY <2>1, <2>2, <2>3, <2>4, <2>5, <2>6, <2>7 DEF TrackNext, ConnStep
<1> QED BY <1>1, <1>2, TypeInvariance, PTL DEF TrackSpec

-----------------------------------------------------------------------------
(***************************************************************************)
(* The connections of a closed core.                                       *)
(***************************************************************************)

\* While its core's group is open, a tracked connection whose socket is open
\* is in the group, where CloseAll will find it.
HeldInv ==
    \A c \in Conns :
        phase[c] \in {"tracked", "counting", "open"} /\ open[c] /\ owner[c] \notin closed =>
            c \in held

OutliveInv == HeldInv /\ NoneOutlivesItsCore

\* No connection of a closed core is left open with nobody closing it.
THEOREM OutliveTheorem == TrackSpec => []NoneOutlivesItsCore
<1>1. TrackInit => OutliveInv
  BY DEF TrackInit, OutliveInv, HeldInv, NoneOutlivesItsCore
<1>2. TypeInv /\ OutliveInv /\ [TrackNext]_trackVars => OutliveInv'
  <2> SUFFICES ASSUME TypeInv, OutliveInv, [TrackNext]_trackVars PROVE OutliveInv'
    OBVIOUS
  <2> USE DEF TypeInv, TrackTypeOK, OutliveInv, HeldInv, NoneOutlivesItsCore, Phases, Becomes,
              coreVars, groupVars, connVars
  <2>1. ASSUME NEW c \in Conns, Accept(c) PROVE OutliveInv'
    BY <2>1 DEF Accept
  <2>2. ASSUME NEW c \in Conns, HandshakeFails(c) PROVE OutliveInv'
    BY <2>2 DEF HandshakeFails
  <2>3. ASSUME NEW c \in Conns, Track(c) PROVE OutliveInv'
    <3>1. CASE owner[c] \in closed
      BY <2>3, <3>1 DEF Track, Hold
    <3>2. CASE owner[c] \notin closed
      BY <2>3, <3>2 DEF Track, Hold
    <3> QED BY <3>1, <3>2
  <2>4. ASSUME NEW c \in Conns, RoutePacket(c) PROVE OutliveInv'
    BY <2>4 DEF RoutePacket
  <2>5. ASSUME NEW c \in Conns, OpenConn(c) PROVE OutliveInv'
    BY <2>5 DEF OpenConn
  <2>6. ASSUME NEW c \in Conns, NEW step \in 1 .. 3, CountOne(c, step) PROVE OutliveInv'
    BY <2>6 DEF CountOne
  <2>7. ASSUME NEW c \in Conns, OnClose(c) PROVE OutliveInv'
    BY <2>7 DEF OnClose
  <2>8. ASSUME NEW c \in Conns, NEW step \in 1 .. 3, UncountOne(c, step) PROVE OutliveInv'
    BY <2>8 DEF UncountOne
  <2>9. ASSUME NEW c \in Conns, Release(c) PROVE OutliveInv'
    BY <2>9 DEF Release
  <2>10. ASSUME NEW c \in Conns, OnCloseAgain(c) PROVE OutliveInv'
    BY <2>10 DEF OnCloseAgain
  <2>11. ASSUME NEW c \in Conns, CloseWorker(c) PROVE OutliveInv'
    BY <2>11 DEF CloseWorker
  <2>12. CASE StartCore \/ CloseBox \/ ResetPresence
    BY <2>12 DEF StartCore, CloseBox, ResetPresence
  <2>13. CASE CloseAll
    BY <2>13 DEF CloseAll
  <2>14. CASE UNCHANGED trackVars
    BY <2>14 DEF trackVars
  <2> QED BY <2>1, <2>2, <2>3, <2>4, <2>5, <2>6, <2>7, <2>8, <2>9, <2>10, <2>11,
             <2>12, <2>13, <2>14 DEF TrackNext, CoreStep, ConnStep
<1>3. OutliveInv => NoneOutlivesItsCore
  BY DEF OutliveInv
<1> QED BY <1>1, <1>2, <1>3, TypeInvariance, PTL DEF TrackSpec

-----------------------------------------------------------------------------
(***************************************************************************)
(* UsageReport: totals are sums over the reports, so what a step does to   *)
(* one is an induction over the reports (TotalAddsUp, TotalChanges).  The  *)
(* invariant then balances what each table holds, what is on its way there *)
(* and what was carried.                                                   *)
(***************************************************************************)

Rows == [at : Resolve .. Done, usage : Usages]

\* What a report will still add through statement s.
Share(row, s, u) == IF row.at <= s THEN Delta(row.usage, u) ELSE 0

\* What a report whose users are known will still add through statement s.
WorkShare(row, s, u) == IF row.at \in 1 .. s THEN Delta(row.usage, u) ELSE 0

ComingIn(rows, s, u) == TotalOf([r \in Reports |-> Share(rows[r], s, u)])
InWorkIn(rows, s, u) == TotalOf([r \in Reports |-> WorkShare(rows[r], s, u)])

\* A Drain holds what it took from the counters, and no report was sent before
\* it was made.
DrainInv ==
    /\ \A u \in Users, d \in Directions : counter[u][d] + drain.got[u][d] <= served[u][d]
    /\ drain.on => made < MaxReports
    /\ \A u \in Users, d \in Directions :
          (~ drain.on \/ <<u, d>> \in drain.left) => drain.got[u][d] = 0
    /\ \A r \in Reports : r > made => report[r] = Ended

\* Two statements agree about user u.
Agree(s, t, u) ==
    \/ table[s][u] + InWorkIn(report, s, u) = table[t][u] + InWorkIn(report, t, u)
    \/ IncrementAdmins \in {s, t} /\ u \notin Owned
    \/ UpsertNodeUsers \in {s, t} /\ known # Users

Alike == happened["statement"] = 0 =>
            \A u \in known, s \in Statements, t \in Statements : Agree(s, t, u)

ReportInv == UsageTypeOK /\ DrainInv /\ AtMostOnce /\ NothingDropped /\ Alike

\* f adds up the amounts of the reports, one after another.
AddsUp(f, amount) ==
    /\ f \in [0 .. MaxReports -> Nat]
    /\ f[0] = 0
    /\ \A n \in Reports : f[n] = f[n - 1] + amount[n]

\* A total is the last of the sums that add it up.
LEMMA TotalAddsUp ==
  ASSUME NEW amount \in [Reports -> Nat]
  PROVE  \E f : AddsUp(f, amount) /\ TotalOf(amount) = f[MaxReports]
  <1> USE ReportsAssumption
  <1> DEFINE Partial(k) == {f \in [0 .. k -> Nat] :
                              f[0] = 0 /\ \A n \in 1 .. k : f[n] = f[n - 1] + amount[n]}
             S == {k \in Nat : k <= MaxReports => Partial(k) # {}}
  <1>1. 0 \in S
    <2>1. [n \in 0 .. 0 |-> 0] \in Partial(0)
      OBVIOUS
    <2> QED BY <2>1
  <1>2. ASSUME NEW k \in Nat, k \in S PROVE k + 1 \in S
    <2> SUFFICES ASSUME k + 1 <= MaxReports PROVE Partial(k + 1) # {}
      OBVIOUS
    <2>1. PICK f \in Partial(k) : TRUE
      BY <1>2
    <2> DEFINE g == [n \in 0 .. k + 1 |-> IF n = k + 1 THEN f[k] + amount[k + 1] ELSE f[n]]
    <2>2. k + 1 \in Reports
      BY DEF Reports
    <2>3. g \in [0 .. k + 1 -> Nat]
      BY <2>2
    <2>4. ASSUME NEW n \in 1 .. k + 1 PROVE g[n] = g[n - 1] + amount[n]
      <3>1. n - 1 \in 0 .. k /\ n \in 0 .. k + 1
        OBVIOUS
      <3> QED BY <3>1
    <2>5. g \in Partial(k + 1)
      BY <2>3, <2>4
    <2> QED BY <2>5
  <1>3. MaxReports \in S
    <2> HIDE DEF S
    <2> QED BY <1>1, <1>2, SetInduction
  <1>4. PICK g \in Partial(MaxReports) : TRUE
    BY <1>3
  <1> DEFINE SumAt(f, n) == IF n = 0 THEN 0 ELSE f[n - 1] + amount[n]
  <1> DEFINE sum == CHOOSE f : f = [n \in 0 .. MaxReports |-> SumAt(f, n)]
  <1>5. g = [n \in 0 .. MaxReports |-> SumAt(g, n)]
    BY <1>4
  <1>6. sum = [n \in 0 .. MaxReports |-> SumAt(sum, n)]
    BY <1>5
  <1>7. TotalOf(amount) = sum[MaxReports]
    BY DEF TotalOf
  <1> HIDE DEF sum
  <1>8. AddsUp(sum, amount)
    <2> DEFINE T == {n \in Nat : n <= MaxReports => sum[n] = g[n]}
    <2>1. 0 \in T
      BY <1>4, <1>6
    <2>2. ASSUME NEW n \in Nat, n \in T PROVE n + 1 \in T
      <3> SUFFICES ASSUME n + 1 <= MaxReports PROVE sum[n + 1] = g[n + 1]
        OBVIOUS
      <3>1. sum[n] = g[n] /\ n + 1 \in 0 .. MaxReports /\ n + 1 \in 1 .. MaxReports /\ n + 1 # 0 /\ (n + 1) - 1 = n
        BY <2>2
      <3>2. sum[n + 1] = sum[n] + amount[n + 1]
        BY <1>6, <3>1
      <3>3. g[n + 1] = g[n] + amount[n + 1]
        BY <1>4, <3>1
      <3> QED BY <3>1, <3>2, <3>3
    <2>3. \A n \in Nat : n \in T
      <3> HIDE DEF T
      <3> QED BY <2>1, <2>2, SetInduction
    <2>4. \A n \in 0 .. MaxReports : sum[n] = g[n]
      BY <2>3
    <2>5. sum = g
      BY <1>4, <1>6, <2>4
    <2> QED BY <1>4, <2>5 DEF AddsUp, Reports
  <1> QED BY <1>7, <1>8

\* A total is a number.
LEMMA TotalType ==
  ASSUME NEW amount \in [Reports -> Nat]
  PROVE  TotalOf(amount) \in Nat
  BY TotalAddsUp, ReportsAssumption DEF AddsUp

\* Changing the amount of one report changes the total by as much.
LEMMA TotalChanges ==
  ASSUME NEW a \in [Reports -> Nat], NEW b \in [Reports -> Nat], NEW r \in Reports,
         \A n \in Reports \ {r} : a[n] = b[n]
  PROVE  TotalOf(b) = TotalOf(a) - a[r] + b[r]
  <1> USE ReportsAssumption
  <1>1. PICK f : AddsUp(f, a) /\ TotalOf(a) = f[MaxReports]
    BY TotalAddsUp
  <1>2. PICK g : AddsUp(g, b) /\ TotalOf(b) = g[MaxReports]
    BY TotalAddsUp
  <1> DEFINE Follows(n) == g[n] = IF n < r THEN f[n] ELSE f[n] - a[r] + b[r]
             S == {n \in Nat : n <= MaxReports => Follows(n)}
  <1>3. 0 \in S
    BY <1>1, <1>2 DEF AddsUp, Reports
  <1>4. ASSUME NEW n \in Nat, n \in S PROVE n + 1 \in S
    <2> SUFFICES ASSUME n + 1 <= MaxReports PROVE Follows(n + 1)
      OBVIOUS
    <2>1. Follows(n) /\ n + 1 \in Reports /\ (n + 1) - 1 = n /\ n \in 0 .. MaxReports
      BY <1>4 DEF Reports
    <2>2. f[n + 1] = f[n] + a[n + 1] /\ g[n + 1] = g[n] + b[n + 1] /\ f[n] \in Nat /\ g[n] \in Nat
      BY <1>1, <1>2, <2>1 DEF AddsUp
    <2>3. r \in Nat /\ a[r] \in Nat /\ b[r] \in Nat /\ a[n + 1] \in Nat /\ b[n + 1] \in Nat
      BY <2>1 DEF Reports
    <2>4. n + 1 # r => a[n + 1] = b[n + 1]
      BY <2>1
    <2> QED BY <2>1, <2>2, <2>3, <2>4
  <1>5. MaxReports \in S
    <2> HIDE DEF S
    <2> QED BY <1>3, <1>4, SetInduction
  <1>6. r <= MaxReports /\ r \in Nat
    BY DEF Reports
  <1> QED BY <1>1, <1>2, <1>5, <1>6

\* The total of nothing is nothing.
LEMMA TotalOfNothing ==
  ASSUME NEW a \in [Reports -> Nat], \A n \in Reports : a[n] = 0
  PROVE  TotalOf(a) = 0
  <1> USE ReportsAssumption
  <1>1. PICK f : AddsUp(f, a) /\ TotalOf(a) = f[MaxReports]
    BY TotalAddsUp
  <1> DEFINE S == {n \in Nat : n <= MaxReports => f[n] = 0}
  <1>2. 0 \in S
    BY <1>1 DEF AddsUp
  <1>3. ASSUME NEW n \in Nat, n \in S PROVE n + 1 \in S
    <2> SUFFICES ASSUME n + 1 <= MaxReports PROVE f[n + 1] = 0
      OBVIOUS
    <2>1. f[n] = 0 /\ n + 1 \in Reports /\ (n + 1) - 1 = n
      BY <1>3 DEF Reports
    <2> QED BY <1>1, <2>1 DEF AddsUp
  <1>4. MaxReports \in S
    <2> HIDE DEF S
    <2> QED BY <1>2, <1>3, SetInduction
  <1> QED BY <1>1, <1>4

-----------------------------------------------------------------------------
LEMMA DeltaType ==
  ASSUME NEW bytes \in Usages, NEW u \in Users
  PROVE  /\ \A d \in Directions : bytes[u][d] \in 0 .. MaxBytes
         /\ bytes[u]["up"] \in Nat /\ bytes[u]["down"] \in Nat
         /\ Delta(bytes, u) \in 0 .. 2 * MaxBytes
  BY ReportsAssumption DEF Usages, Directions, Delta

LEMMA NothingType ==
  /\ Nothing \in Usages
  /\ Ended \in Rows
  /\ \A u \in Users : Delta(Nothing, u) = 0
  BY ReportsAssumption DEF Usages, Directions, Nothing, Ended, Rows, Resolve, Done, Delta

LEMMA ShareType ==
  ASSUME NEW row \in Rows, NEW s \in Statements, NEW u \in Users
  PROVE  Share(row, s, u) \in Nat /\ WorkShare(row, s, u) \in Nat
  <1>1. Delta(row.usage, u) \in Nat
    BY DeltaType, ReportsAssumption DEF Rows
  <1> QED BY <1>1 DEF Share, WorkShare

LEMMA ComingIs ==
  \A s \in Statements, u \in Users : Coming(s, u) = ComingIn(report, s, u)
  BY DEF Coming, ComingIn, Share

\* Rewriting one report changes what is coming by what it changes in its share.
LEMMA ComingChanges ==
  ASSUME NEW rows \in [Reports -> Rows], NEW r \in Reports, NEW x \in Rows,
         NEW s \in Statements, NEW u \in Users
  PROVE  /\ ComingIn(rows, s, u) \in Nat
         /\ ComingIn([rows EXCEPT ![r] = x], s, u) \in Nat
         /\ ComingIn([rows EXCEPT ![r] = x], s, u)
              = ComingIn(rows, s, u) - Share(rows[r], s, u) + Share(x, s, u)
         /\ InWorkIn(rows, s, u) \in Nat
         /\ InWorkIn([rows EXCEPT ![r] = x], s, u) \in Nat
         /\ InWorkIn([rows EXCEPT ![r] = x], s, u)
              = InWorkIn(rows, s, u) - WorkShare(rows[r], s, u) + WorkShare(x, s, u)
  <1> DEFINE new == [rows EXCEPT ![r] = x]
             a == [n \in Reports |-> Share(rows[n], s, u)]
             b == [n \in Reports |-> Share(new[n], s, u)]
             c == [n \in Reports |-> WorkShare(rows[n], s, u)]
             d == [n \in Reports |-> WorkShare(new[n], s, u)]
  <1>1. \A n \in Reports : new[n] \in Rows /\ rows[n] \in Rows /\ (n # r => new[n] = rows[n]) /\ new[r] = x
    OBVIOUS
  <1> HIDE DEF new
  <1>2. a \in [Reports -> Nat] /\ b \in [Reports -> Nat] /\ c \in [Reports -> Nat] /\ d \in [Reports -> Nat]
    BY <1>1, ShareType
  <1>3. \A n \in Reports \ {r} : a[n] = b[n] /\ c[n] = d[n]
    BY <1>1
  <1>4. a[r] = Share(rows[r], s, u) /\ b[r] = Share(x, s, u) /\ c[r] = WorkShare(rows[r], s, u) /\ d[r] = WorkShare(x, s, u)
    BY <1>1
  <1>5. /\ ComingIn(rows, s, u) = TotalOf(a) /\ ComingIn(new, s, u) = TotalOf(b)
        /\ InWorkIn(rows, s, u) = TotalOf(c) /\ InWorkIn(new, s, u) = TotalOf(d)
    BY DEF ComingIn, InWorkIn
  <1> HIDE DEF a, b, c, d
  <1>6. TotalOf(b) = TotalOf(a) - a[r] + b[r] /\ TotalOf(d) = TotalOf(c) - c[r] + d[r]
    BY <1>2, <1>3, TotalChanges
  <1>7. TotalOf(a) \in Nat /\ TotalOf(b) \in Nat /\ TotalOf(c) \in Nat /\ TotalOf(d) \in Nat
    BY <1>2, TotalType
  <1> QED BY <1>4, <1>5, <1>6, <1>7 DEF new

LEMMA ReportInvInit == UsageInit => ReportInv
  <1> SUFFICES ASSUME UsageInit PROVE ReportInv
    OBVIOUS
  <1>0. served = Nothing /\ counter = Nothing /\ drain.got = Nothing
    BY DEF UsageInit
  <1> USE ReportsAssumption DEF UsageInit
  <1>1. \A r \in Reports : report[r] = Ended
    OBVIOUS
  <1>2. \A s \in Statements, u \in Users : ComingIn(report, s, u) = 0 /\ InWorkIn(report, s, u) = 0
    <2> SUFFICES ASSUME NEW s \in Statements, NEW u \in Users
                 PROVE  ComingIn(report, s, u) = 0 /\ InWorkIn(report, s, u) = 0
      OBVIOUS
    <2> DEFINE a == [n \in Reports |-> Share(report[n], s, u)]
               c == [n \in Reports |-> WorkShare(report[n], s, u)]
    <2>1. \A n \in Reports : a[n] = 0 /\ c[n] = 0
      BY <1>1 DEF Share, WorkShare, Ended, Done, Statements
    <2>2. a \in [Reports -> Nat] /\ c \in [Reports -> Nat]
      BY <2>1
    <2>3. TotalOf(a) = 0 /\ TotalOf(c) = 0
      <3> HIDE DEF a, c
      <3> QED BY <2>1, <2>2, TotalOfNothing
    <2> QED BY <2>3 DEF ComingIn, InWorkIn
  <1>3. \A s \in Statements, u \in Users : OnItsWay(s, u) = 0 /\ table[s][u] = 0 /\ Delta(served, u) = 0
    <2>1. served = Nothing /\ counter = Nothing /\ drain.got = Nothing
      BY <1>0
    <2>2. \A u \in Users : Delta(served, u) = 0 /\ Delta(counter, u) = 0 /\ Delta(drain.got, u) = 0
      BY <2>1, NothingType
    <2>3. \A s \in Statements, u \in Users : Coming(s, u) = 0
      BY <1>2, ComingIs
    <2>4. \A s \in Statements, u \in Users : table[s][u] = 0
      OBVIOUS
    <2>5. \A s \in Statements, u \in Users : OnItsWay(s, u) = 0
      <3> SUFFICES ASSUME NEW s \in Statements, NEW u \in Users PROVE OnItsWay(s, u) = 0
        OBVIOUS
      <3>1. Delta(counter, u) = 0 /\ Delta(drain.got, u) = 0 /\ Coming(s, u) = 0
        BY <2>2, <2>3
      <3> QED BY <3>1 DEF OnItsWay
    <2> QED BY <2>2, <2>4, <2>5
  <1>4. UsageTypeOK
    BY NothingType DEF UsageTypeOK, Rows, Statements, Events
  <1>5. DrainInv
    BY <1>1 DEF DrainInv, Nothing, Directions
  <1>6. AtMostOnce /\ NothingDropped
    BY <1>3 DEF AtMostOnce, NothingDropped, Statements, IncrementUsers
  <1>7. Alike
    BY <1>2, <1>3 DEF Alike, Agree
  <1> QED BY <1>4, <1>5, <1>6, <1>7 DEF ReportInv

\* What the invariant says of the amounts.
LEMMA AmountTypes ==
  ASSUME ReportInv
  PROVE  /\ report \in [Reports -> Rows]
         /\ served \in Usages /\ counter \in Usages /\ drain.got \in Usages
         /\ \A u \in Users : /\ Delta(served, u) \in 0 .. 2 * MaxBytes
                             /\ Delta(counter, u) \in Nat
                             /\ Delta(drain.got, u) \in Nat
         /\ \A s \in Statements, u \in Users :
              /\ table[s][u] \in Nat
              /\ Coming(s, u) = ComingIn(report, s, u)
              /\ Coming(s, u) \in Nat
              /\ InWorkIn(report, s, u) \in Nat
  <1>1. report \in [Reports -> Rows] /\ served \in Usages /\ counter \in Usages /\ drain.got \in Usages
    BY DEF ReportInv, UsageTypeOK, Rows
  <1>2. \A u \in Users : /\ Delta(served, u) \in 0 .. 2 * MaxBytes
                         /\ Delta(counter, u) \in 0 .. 2 * MaxBytes
                         /\ Delta(drain.got, u) \in 0 .. 2 * MaxBytes
    BY <1>1, DeltaType
  <1>3. ASSUME NEW s \in Statements, NEW u \in Users
        PROVE  ComingIn(report, s, u) \in Nat /\ InWorkIn(report, s, u) \in Nat
    <2> DEFINE a == [n \in Reports |-> Share(report[n], s, u)]
               c == [n \in Reports |-> WorkShare(report[n], s, u)]
    <2>1. a \in [Reports -> Nat] /\ c \in [Reports -> Nat]
      BY <1>1, ShareType
    <2>2. TotalOf(a) \in Nat /\ TotalOf(c) \in Nat
      <3> HIDE DEF a, c
      <3> QED BY <2>1, TotalType
    <2> QED BY <2>2 DEF ComingIn, InWorkIn
  <1>4. \A s \in Statements, u \in Users : table[s][u] \in Nat
    BY ReportsAssumption DEF ReportInv, UsageTypeOK
  <1> QED BY <1>1, <1>2, <1>3, <1>4, ComingIs, ReportsAssumption

\* g is f with user u's counter in direction d set to v.
Sets(f, g, u, d, v) ==
    /\ g \in Usages
    /\ g[u][d] = v
    /\ \A w \in Users, e \in Directions : (w # u \/ e # d) => g[w][e] = f[w][e]
    /\ Delta(g, u) = Delta(f, u) - f[u][d] + v
    /\ \A w \in Users \ {u} : Delta(g, w) = Delta(f, w)

\* Setting one counter changes its user's bytes by as much.
LEMMA DeltaChanges ==
  ASSUME NEW f \in Usages, NEW u \in Users, NEW d \in Directions, NEW v \in 0 .. MaxBytes,
         NEW g, g = [f EXCEPT ![u][d] = v]
  PROVE  Sets(f, g, u, d, v)
  <1>1. g \in Usages
    BY DEF Usages
  <1>2. g[u][d] = v
    BY DEF Usages
  <1>3. \A w \in Users, e \in Directions : (w # u \/ e # d) => g[w][e] = f[w][e]
    BY DEF Usages
  <1>4. /\ f[u]["up"] \in Nat /\ f[u]["down"] \in Nat /\ "up" \in Directions /\ "down" \in Directions
        /\ (d = "up" \/ d = "down") /\ v \in Nat
    BY DeltaType, ReportsAssumption DEF Directions
  <1>5. Delta(g, u) = Delta(f, u) - f[u][d] + v
    <2>1. CASE d = "up"
      <3>1. g[u]["up"] = v /\ g[u]["down"] = f[u]["down"]
        BY <1>2, <1>3, <1>4, <2>1
      <3> QED BY <3>1, <1>4, <2>1 DEF Delta
    <2>2. CASE d = "down"
      <3>1. g[u]["down"] = v /\ g[u]["up"] = f[u]["up"]
        BY <1>2, <1>3, <1>4, <2>2
      <3> QED BY <3>1, <1>4, <2>2 DEF Delta
    <2> QED BY <1>4, <2>1, <2>2
  <1>6. \A w \in Users \ {u} : Delta(g, w) = Delta(f, w)
    BY <1>3, <1>4 DEF Delta
  <1> QED BY <1>1, <1>2, <1>3, <1>5, <1>6 DEF Sets

\* What statement s's table holds of user u's traffic and what is on its way there.
Balance(s, u) == table[s][u] + OnItsWay(s, u)

\* A step that adds to nobody's balance, and takes from it only when something is
\* lost or fails or the user goes, keeps both balances.
LEMMA BalanceKept ==
  ASSUME ReportInv,
         \A s \in Statements, u \in Users :
            Balance(s, u)' \in Nat /\ Delta(served', u) \in Nat
            /\ Balance(s, u)' + Delta(served, u) <= Balance(s, u) + Delta(served', u),
         known' \subseteq known,
         (happened["lost"] + happened["statement"])' = 0 =>
            /\ happened["lost"] + happened["statement"] = 0
            /\ \A u \in known' :
                 Balance(IncrementUsers, u)' + Delta(served, u) = Balance(IncrementUsers, u) + Delta(served', u)
  PROVE  AtMostOnce' /\ NothingDropped'
  <1>1. /\ \A s \in Statements, u \in Users :
             /\ Balance(s, u) \in Nat
             /\ Delta(served, u) \in Nat
             /\ Balance(s, u) <= Delta(served, u)
        /\ IncrementUsers \in Statements /\ known \subseteq Users
    <2>1. \A s \in Statements, u \in Users : Balance(s, u) \in Nat /\ Delta(served, u) \in Nat
      BY AmountTypes, ReportsAssumption DEF Balance, OnItsWay
    <2>2. \A s \in Statements, u \in Users : Balance(s, u) <= Delta(served, u)
      BY DEF ReportInv, AtMostOnce, Balance
    <2>3. IncrementUsers \in Statements /\ known \subseteq Users
      BY DEF ReportInv, UsageTypeOK, Statements, IncrementUsers
    <2> QED BY <2>1, <2>2, <2>3
  <1>2. ASSUME NEW s \in Statements, NEW u \in Users
        PROVE  Balance(s, u)' <= Delta(served', u)
    <2> DEFINE a == Balance(s, u)'
               b == Delta(served', u)
               c == Balance(s, u)
               e == Delta(served, u)
    <2>1. a \in Nat /\ b \in Nat /\ c \in Nat /\ e \in Nat /\ c <= e /\ a + e <= c + b
      BY <1>1
    <2> HIDE DEF a, b, c, e
    <2>2. a <= b
      BY <2>1
    <2> QED BY <2>2 DEF a, b
  <1>3. AtMostOnce'
    BY <1>2 DEF AtMostOnce, Balance
  <1>4. ASSUME (happened["lost"] + happened["statement"])' = 0, NEW u \in known'
        PROVE  Balance(IncrementUsers, u)' = Delta(served', u)
    <2> DEFINE a == Balance(IncrementUsers, u)'
               b == Delta(served', u)
               c == Balance(IncrementUsers, u)
               e == Delta(served, u)
    <2>1. c = e
      BY <1>4 DEF ReportInv, NothingDropped, Balance
    <2>2. a \in Nat /\ b \in Nat /\ c \in Nat /\ e \in Nat /\ a + e = c + b
      BY <1>1, <1>4
    <2> HIDE DEF a, b, c, e
    <2>3. a = b
      BY <2>1, <2>2
    <2> QED BY <2>3 DEF a, b
  <1>5. NothingDropped'
    BY <1>4 DEF NothingDropped, Balance
  <1> QED BY <1>3, <1>5

\* A statement's tables keep agreeing while no report and no table is touched.
LEMMA AlikeKept ==
  ASSUME ReportInv, UNCHANGED <<report, table, known>>,
         happened'["statement"] = 0 => happened["statement"] = 0
  PROVE  Alike'
  BY DEF ReportInv, Alike, Agree

\* What a Happens or a HappensIf does to the counts.
LEMMA HappensCounts ==
  ASSUME ReportInv, NEW e \in Events, NEW b \in BOOLEAN, HappensIf(b, e)
  PROVE  /\ happened' \in [Events -> 0 .. MaxEvents]
         /\ \A k \in {"lost", "statement"} :
              happened'[k] = 0 => happened[k] = 0
         /\ (happened["lost"] + happened["statement"])' = 0 =>
              happened'["lost"] = 0 /\ happened'["statement"] = 0
              /\ happened["lost"] + happened["statement"] = 0
         /\ b => happened'[e] # 0
  <1> USE ReportsAssumption
  <1>1. happened \in [Events -> 0 .. MaxEvents]
    BY DEF ReportInv, UsageTypeOK
  <1>2. CASE ~ b
    BY <1>1, <1>2 DEF HappensIf, Events
  <1>3. CASE b
    <2>1. /\ happened' = [happened EXCEPT ![e] = @ + 1]
          /\ happened["lost"] + happened["statement"] + happened["delete"] + happened["disable"] < MaxEvents
      BY <1>3 DEF HappensIf, Happens
    <2>2. happened[e] + 1 \in 1 .. MaxEvents
      BY <1>1, <2>1 DEF Events
    <2>3. happened' \in [Events -> 0 .. MaxEvents] /\ happened'[e] = happened[e] + 1
          /\ \A k \in Events \ {e} : happened'[k] = happened[k]
      BY <1>1, <2>1, <2>2
    <2>4. \A k \in Events : happened'[k] \in Nat /\ happened[k] \in Nat /\ happened[k] <= happened'[k]
      BY <1>1, <2>3, <2>2
    <2> QED BY <2>2, <2>3, <2>4 DEF Events
  <1> QED BY <1>2, <1>3

-----------------------------------------------------------------------------
\* The types of what a step on the node leaves alone.
LEMMA AddTrafficKeeps ==
  ASSUME ReportInv, NEW u \in Users, NEW d \in Directions, AddTraffic(u, d)
  PROVE  ReportInv'
  <1> DEFINE x == served[u][d] + 1
             y == counter[u][d] + 1
  <1>0. d \in Directions /\ drain.got[u][d] \in Nat
    BY AmountTypes, DeltaType, ReportsAssumption DEF Directions
  <1>1. /\ served' = [served EXCEPT ![u][d] = x] /\ counter' = [counter EXCEPT ![u][d] = y]
        /\ served[u][d] < MaxBytes
        /\ UNCHANGED <<drain, made, report, known, table, status, happened>>
    BY DEF AddTraffic
  <1>2. served[u][d] \in 0 .. MaxBytes /\ counter[u][d] \in 0 .. MaxBytes /\ counter[u][d] + drain.got[u][d] <= served[u][d]
    BY AmountTypes, DeltaType DEF ReportInv, DrainInv
  <1>3. x \in 0 .. MaxBytes /\ y \in 0 .. MaxBytes
    BY <1>0, <1>1, <1>2, ReportsAssumption
  <1> HIDE DEF x, y
  <1>4. /\ served' \in Usages /\ counter' \in Usages
        /\ served'[u][d] = x /\ counter'[u][d] = y
        /\ \A w \in Users, e \in Directions : (w # u \/ e # d) => served'[w][e] = served[w][e] /\ counter'[w][e] = counter[w][e]
        /\ Delta(served', u) = Delta(served, u) - served[u][d] + x
        /\ Delta(counter', u) = Delta(counter, u) - counter[u][d] + y
        /\ \A w \in Users \ {u} : Delta(served', w) = Delta(served, w) /\ Delta(counter', w) = Delta(counter, w)
    <2>1. served \in Usages /\ counter \in Usages
      BY AmountTypes
    <2>2. Sets(served, served', u, d, x)
      BY <1>1, <1>3, <2>1, DeltaChanges
    <2>3. Sets(counter, counter', u, d, y)
      BY <1>1, <1>3, <2>1, DeltaChanges
    <2> QED BY <2>2, <2>3 DEF Sets
  <1>5. /\ Delta(served', u) = Delta(served, u) + 1 /\ Delta(counter', u) = Delta(counter, u) + 1
    BY <1>4, <1>2, AmountTypes, ReportsAssumption DEF x, y
  <1>6. UsageTypeOK'
    BY <1>1, <1>4 DEF ReportInv, UsageTypeOK
  <1>7. DrainInv'
    <2>1. \A w \in Users, e \in Directions : counter'[w][e] + drain.got[w][e] <= served'[w][e]
      <3> SUFFICES ASSUME NEW w \in Users, NEW e \in Directions
                   PROVE  counter'[w][e] + drain.got[w][e] <= served'[w][e]
        OBVIOUS
      <3>1. CASE w = u /\ e = d
        <4>1. y + drain.got[u][d] <= x
          BY <1>0, <1>2, ReportsAssumption DEF x, y
        <4> QED BY <1>4, <4>1, <3>1
      <3>2. CASE w # u \/ e # d
        BY <3>2, <1>4 DEF ReportInv, DrainInv
      <3> QED BY <3>1, <3>2
    <2> QED BY <1>1, <2>1 DEF ReportInv, DrainInv
  <1>8. \A s \in Statements, w \in Users :
          /\ Coming(s, w)' = Coming(s, w)
          /\ Balance(s, w)' \in Nat /\ Delta(served', w) \in Nat
          /\ Balance(s, w)' + Delta(served, w) = Balance(s, w) + Delta(served', w)
    <2> SUFFICES ASSUME NEW s \in Statements, NEW w \in Users
                 PROVE  /\ Coming(s, w)' = Coming(s, w)
                        /\ Balance(s, w)' \in Nat /\ Delta(served', w) \in Nat
                        /\ Balance(s, w)' + Delta(served, w) = Balance(s, w) + Delta(served', w)
      OBVIOUS
    <2>1. Coming(s, w)' = Coming(s, w)
      BY <1>1 DEF Coming
    <2>2. Balance(s, w)' = table[s][w] + (Delta(counter', w) + Delta(drain.got, w) + Coming(s, w))
      BY <1>1, <2>1 DEF Balance, OnItsWay
    <2>3. Balance(s, w) = table[s][w] + (Delta(counter, w) + Delta(drain.got, w) + Coming(s, w))
      BY DEF Balance, OnItsWay
    <2>4. /\ table[s][w] \in Nat /\ Delta(counter, w) \in Nat /\ Delta(drain.got, w) \in Nat
          /\ Coming(s, w) \in Nat /\ Delta(served, w) \in Nat
      BY AmountTypes, ReportsAssumption
    <2>5. \/ Delta(served', w) = Delta(served, w) + 1 /\ Delta(counter', w) = Delta(counter, w) + 1
          \/ Delta(served', w) = Delta(served, w) /\ Delta(counter', w) = Delta(counter, w)
      BY <1>4, <1>5
    <2> QED BY <2>1, <2>2, <2>3, <2>4, <2>5
  <1>9. AtMostOnce' /\ NothingDropped'
    <2>1. known' \subseteq known /\ happened' = happened /\ known \subseteq Users /\ IncrementUsers \in Statements
      BY <1>1 DEF ReportInv, UsageTypeOK, Statements, IncrementUsers
    <2>2. \A s \in Statements, w \in Users : Balance(s, w)' + Delta(served, w) <= Balance(s, w) + Delta(served', w)
      <3> SUFFICES ASSUME NEW s \in Statements, NEW w \in Users
                   PROVE Balance(s, w)' + Delta(served, w) <= Balance(s, w) + Delta(served', w)
        OBVIOUS
      <3>1. Balance(s, w)' + Delta(served, w) \in Nat
        BY <1>8, AmountTypes, ReportsAssumption
      <3> QED BY <3>1, <1>8
    <2> QED BY <1>8, <2>1, <2>2, BalanceKept
  <1>10. Alike'
    BY <1>1, AlikeKept
  <1> QED BY <1>6, <1>7, <1>9, <1>10 DEF ReportInv

LEMMA DrainBeginKeeps ==
  ASSUME ReportInv, DrainBegin
  PROVE  ReportInv'
  <1>1. /\ ~ drain.on /\ made < MaxReports
        /\ drain' = [left |-> Users \X Directions, got |-> Nothing, on |-> TRUE]
        /\ UNCHANGED <<served, counter, made, report, known, table, status, happened>>
    BY DEF DrainBegin
  <1>2. drain'.got \in Usages /\ drain'.on /\ drain'.got = Nothing
    BY <1>1, NothingType
  <1>3. \A w \in Users, e \in Directions : drain.got[w][e] = 0 /\ drain'.got[w][e] = 0
    BY <1>1, <1>2 DEF ReportInv, DrainInv, Nothing
  <1>4. UsageTypeOK'
    BY <1>1, NothingType DEF ReportInv, UsageTypeOK
  <1>5. DrainInv'
    BY <1>1, <1>2, <1>3 DEF ReportInv, DrainInv
  <1>6. \A w \in Users : Delta(drain'.got, w) = Delta(drain.got, w)
    BY <1>3 DEF Delta, Directions
  <1>7. \A s \in Statements, w \in Users : Balance(s, w)' = Balance(s, w)
    BY <1>1, <1>6 DEF Balance, OnItsWay, Coming
  <1>8. \A s \in Statements, w \in Users : Balance(s, w) \in Nat /\ Delta(served, w) \in Nat
    BY AmountTypes, ReportsAssumption DEF Balance, OnItsWay
  <1>9. AtMostOnce'
    BY <1>7, <1>1 DEF ReportInv, AtMostOnce, Balance
  <1>10. NothingDropped'
    BY <1>7, <1>1 DEF ReportInv, NothingDropped, Balance, UsageTypeOK, Statements, IncrementUsers
  <1>11. Alike'
    BY <1>1, AlikeKept
  <1> QED BY <1>4, <1>5, <1>9, <1>10, <1>11 DEF ReportInv

LEMMA DrainOneKeeps ==
  ASSUME ReportInv, NEW u \in Users, NEW d \in Directions, DrainOne(u, d)
  PROVE  ReportInv'
  <1> DEFINE c == counter[u][d]
  <1>1. /\ drain.on /\ <<u, d>> \in drain.left
        /\ drain' = [drain EXCEPT !.left = @ \ {<<u, d>>}, !.got[u][d] = c]
        /\ counter' = [counter EXCEPT ![u][d] = 0]
        /\ UNCHANGED <<served, made, report, known, table, status, happened>>
    BY DEF DrainOne, DrainSwap
  <1>2. c \in 0 .. MaxBytes /\ 0 \in 0 .. MaxBytes
    BY AmountTypes, DeltaType, ReportsAssumption
  <1>3. /\ drain.got[u][d] = 0
        /\ \A w \in Users, e \in Directions : counter[w][e] + drain.got[w][e] <= served[w][e]
    BY <1>1 DEF ReportInv, DrainInv
  <1> DEFINE got == [drain.got EXCEPT ![u][d] = c]
  <1>4. /\ drain'.got = got /\ drain'.on = drain.on /\ drain'.left = drain.left \ {<<u, d>>}
        /\ drain'.left \subseteq Users \X Directions
        /\ drain' \in [left : SUBSET (Users \X Directions), got : {got}, on : BOOLEAN]
    BY <1>1 DEF ReportInv, UsageTypeOK
  <1> HIDE DEF c
  <1>5. /\ got \in Usages /\ got[u][d] = c
        /\ \A w \in Users, e \in Directions : (w # u \/ e # d) => got[w][e] = drain.got[w][e]
        /\ Delta(got, u) = Delta(drain.got, u) - drain.got[u][d] + c
        /\ \A w \in Users \ {u} : Delta(got, w) = Delta(drain.got, w)
    <2>1. drain.got \in Usages
      BY AmountTypes
    <2>2. Sets(drain.got, got, u, d, c)
      BY <1>2, <2>1, DeltaChanges
    <2> QED BY <2>2 DEF Sets
  <1>6. /\ counter' \in Usages /\ counter'[u][d] = 0
        /\ \A w \in Users, e \in Directions : (w # u \/ e # d) => counter'[w][e] = counter[w][e]
        /\ Delta(counter', u) = Delta(counter, u) - counter[u][d] + 0
        /\ \A w \in Users \ {u} : Delta(counter', w) = Delta(counter, w)
    <2>1. counter \in Usages
      BY AmountTypes
    <2>2. Sets(counter, counter', u, d, 0)
      BY <1>1, <1>2, <2>1, DeltaChanges
    <2> QED BY <2>2 DEF Sets
  <1> HIDE DEF got
  <1>7. UsageTypeOK'
    BY <1>1, <1>4, <1>5, <1>6 DEF ReportInv, UsageTypeOK
  <1>8. DrainInv'
    <2>1. \A w \in Users, e \in Directions : counter'[w][e] + got[w][e] <= served[w][e]
      <3> SUFFICES ASSUME NEW w \in Users, NEW e \in Directions
                   PROVE  counter'[w][e] + got[w][e] <= served[w][e]
        OBVIOUS
      <3>1. CASE w = u /\ e = d
        <4>1. c + 0 = c /\ 0 + c = c
          BY <1>2, ReportsAssumption
        <4>2. c <= served[u][d]
          BY <1>3, <4>1 DEF c
        <4> QED BY <1>5, <1>6, <4>1, <4>2, <3>1
      <3>2. CASE w # u \/ e # d
        BY <3>2, <1>3, <1>5, <1>6
      <3> QED BY <3>1, <3>2
    <2>2. \A w \in Users, e \in Directions : <<w, e>> \in drain'.left => got[w][e] = 0
      <3> SUFFICES ASSUME NEW w \in Users, NEW e \in Directions, <<w, e>> \in drain'.left
                   PROVE  got[w][e] = 0
        OBVIOUS
      <3>1. <<w, e>> \in drain.left /\ (w # u \/ e # d)
        BY <1>4
      <3>2. drain.got[w][e] = 0
        BY <3>1 DEF ReportInv, DrainInv
      <3> QED BY <3>1, <3>2, <1>5
    <2>3. made < MaxReports /\ \A r \in Reports : r > made => report[r] = Ended
      BY <1>1 DEF ReportInv, DrainInv
    <2> QED BY <2>1, <2>2, <2>3, <1>1, <1>4 DEF DrainInv
  <1>9. \A s \in Statements, w \in Users : Balance(s, w)' = Balance(s, w)
    <2> SUFFICES ASSUME NEW s \in Statements, NEW w \in Users PROVE Balance(s, w)' = Balance(s, w)
      OBVIOUS
    <2>1. Coming(s, w)' = Coming(s, w)
      BY <1>1 DEF Coming
    <2>2. Balance(s, w)' = table[s][w] + (Delta(counter', w) + Delta(got, w) + Coming(s, w))
      BY <1>1, <1>4, <2>1 DEF Balance, OnItsWay
    <2>3. Balance(s, w) = table[s][w] + (Delta(counter, w) + Delta(drain.got, w) + Coming(s, w))
      BY DEF Balance, OnItsWay
    <2>4. Delta(counter, w) \in Nat /\ Delta(drain.got, w) \in Nat /\ Coming(s, w) \in Nat /\ table[s][w] \in Nat
      BY AmountTypes
    <2>5. Delta(counter', w) + Delta(got, w) = Delta(counter, w) + Delta(drain.got, w)
      <3>1. CASE w = u
        <4>1. c \in Nat /\ Delta(got, u) = Delta(drain.got, u) + c /\ Delta(counter', u) = Delta(counter, u) - c
          BY <1>2, <1>3, <1>5, <1>6, <2>4, <3>1, ReportsAssumption DEF c
        <4> QED BY <4>1, <2>4, <3>1
      <3>2. CASE w # u
        BY <3>2, <1>5, <1>6
      <3> QED BY <3>1, <3>2
    <2> QED BY <2>2, <2>3, <2>5
  <1>10. AtMostOnce'
    BY <1>9, <1>1 DEF ReportInv, AtMostOnce, Balance
  <1>11. NothingDropped'
    BY <1>9, <1>1 DEF ReportInv, NothingDropped, Balance, UsageTypeOK, Statements, IncrementUsers
  <1>12. Alike'
    BY <1>1, AlikeKept
  <1> QED BY <1>7, <1>8, <1>10, <1>11, <1>12 DEF ReportInv

-----------------------------------------------------------------------------
\* Report r becomes x: what that does to what is coming and in work.
RowChanged(r, x) ==
    /\ report' \in [Reports -> Rows]
    /\ report'[r] = x /\ \A n \in Reports \ {r} : report'[n] = report[n]
    /\ \A s \in Statements, u \in Users :
         /\ Share(report[r], s, u) \in Nat /\ Share(x, s, u) \in Nat
         /\ WorkShare(report[r], s, u) \in Nat /\ WorkShare(x, s, u) \in Nat
         /\ Coming(s, u)' \in Nat
         /\ Coming(s, u)' = Coming(s, u) - Share(report[r], s, u) + Share(x, s, u)
         /\ InWorkIn(report', s, u) \in Nat
         /\ InWorkIn(report', s, u)
              = InWorkIn(report, s, u) - WorkShare(report[r], s, u) + WorkShare(x, s, u)

LEMMA RowChanges ==
  ASSUME ReportInv, NEW r \in Reports, NEW x \in Rows, report' = [report EXCEPT ![r] = x]
  PROVE  RowChanged(r, x)
  <1>1. report \in [Reports -> Rows]
    BY AmountTypes
  <1>2. \A s \in Statements, u \in Users :
          /\ Coming(s, u) = ComingIn(report, s, u)
          /\ Coming(s, u)' = ComingIn(report', s, u)
    <2>1. \A s \in Statements, u \in Users : Coming(s, u)' = ComingIn(report', s, u)
      BY DEF Coming, ComingIn, Share
    <2> QED BY <2>1, AmountTypes
  <1> HIDE DEF ReportInv
  <1>3. ASSUME NEW s \in Statements, NEW u \in Users
        PROVE  /\ Share(report[r], s, u) \in Nat /\ Share(x, s, u) \in Nat
               /\ WorkShare(report[r], s, u) \in Nat /\ WorkShare(x, s, u) \in Nat
               /\ Coming(s, u)' \in Nat
               /\ Coming(s, u)' = Coming(s, u) - Share(report[r], s, u) + Share(x, s, u)
               /\ InWorkIn(report', s, u) \in Nat
               /\ InWorkIn(report', s, u)
                    = InWorkIn(report, s, u) - WorkShare(report[r], s, u) + WorkShare(x, s, u)
    <2>1. /\ Share(report[r], s, u) \in Nat /\ Share(x, s, u) \in Nat
          /\ WorkShare(report[r], s, u) \in Nat /\ WorkShare(x, s, u) \in Nat
      BY <1>1, ShareType
    <2>2. /\ ComingIn([report EXCEPT ![r] = x], s, u) \in Nat
          /\ ComingIn([report EXCEPT ![r] = x], s, u)
               = ComingIn(report, s, u) - Share(report[r], s, u) + Share(x, s, u)
          /\ InWorkIn([report EXCEPT ![r] = x], s, u) \in Nat
          /\ InWorkIn([report EXCEPT ![r] = x], s, u)
               = InWorkIn(report, s, u) - WorkShare(report[r], s, u) + WorkShare(x, s, u)
      BY <1>1, ComingChanges
    <2> QED BY <1>2, <2>1, <2>2
  <1> QED BY <1>1, <1>3 DEF RowChanged

\* Nothing else touches the agreement of two statements.
LEMMA AlikeFollows ==
  ASSUME ReportInv, known' \subseteq known,
         happened'["statement"] = 0 =>
            /\ happened["statement"] = 0
            /\ \A u \in known', s \in Statements, t \in Statements : Agree(s, t, u) => Agree(s, t, u)'
  PROVE  Alike'
  BY DEF ReportInv, Alike

\* The shares of a row before, in and after its statement.
LEMMA Shares ==
  ASSUME NEW row \in Rows, NEW s \in Statements, NEW u \in Users
  PROVE  /\ row.at = Done => Share(row, s, u) = 0 /\ WorkShare(row, s, u) = 0
         /\ row.at = MarkNode => Share(row, s, u) = 0 /\ WorkShare(row, s, u) = 0
         /\ row.at = Resolve => Share(row, s, u) = Delta(row.usage, u) /\ WorkShare(row, s, u) = 0
         /\ row.at \in 1 .. s => /\ Share(row, s, u) = Delta(row.usage, u)
                                 /\ WorkShare(row, s, u) = Delta(row.usage, u)
         /\ row.at > s => Share(row, s, u) = 0 /\ WorkShare(row, s, u) = 0
  BY DEF Share, WorkShare, Rows, Statements, Done, MarkNode, Resolve

LEMMA PushKeeps ==
  ASSUME ReportInv, NEW lost \in BOOLEAN, Push(lost)
  PROVE  ReportInv'
  <1> DEFINE x == IF lost THEN Ended ELSE [at |-> Resolve, usage |-> drain.got]
             r == made + 1
  <1>1. /\ drain.on /\ HappensIf(lost, "lost") /\ made' = made + 1
        /\ drain' = [drain EXCEPT !.on = FALSE, !.got = Nothing]
        /\ report' = [report EXCEPT ![r] = x]
        /\ UNCHANGED <<served, counter, known, table, status>>
    BY DEF Push
  <1>2. /\ made \in 0 .. MaxReports /\ made < MaxReports /\ r \in Reports /\ made' \in 0 .. MaxReports
        /\ report[r] = Ended
    <2>1. made \in 0 .. MaxReports /\ made < MaxReports
      BY <1>1 DEF ReportInv, UsageTypeOK, DrainInv
    <2>2. r \in Reports /\ r > made /\ made + 1 \in 0 .. MaxReports
      BY <2>1, ReportsAssumption DEF Reports
    <2> QED BY <1>1, <2>1, <2>2 DEF ReportInv, DrainInv
  <1>3. x \in Rows
    <2>1. drain.got \in Usages
      BY AmountTypes
    <2> QED BY <2>1, NothingType DEF Rows, Resolve, Done
  <1>4. /\ drain'.left = drain.left /\ drain'.on = FALSE /\ drain'.got = Nothing
        /\ drain' \in [left : SUBSET (Users \X Directions), got : Usages, on : BOOLEAN]
    BY <1>1, NothingType DEF ReportInv, UsageTypeOK
  <1>5. /\ happened' \in [Events -> 0 .. MaxEvents]
        /\ (happened["lost"] + happened["statement"])' = 0 => ~ lost /\ happened["lost"] + happened["statement"] = 0
        /\ happened'["statement"] = 0 => happened["statement"] = 0
    <2>1. "lost" \in Events
      BY DEF Events
    <2> QED BY <1>1, <2>1, HappensCounts
  <1> HIDE DEF r, x
  <1>12. RowChanged(r, x)
    BY <1>1, <1>2, <1>3, RowChanges
  <1>6. UsageTypeOK'
    <2>1. report' \in [Reports -> Rows]
      BY <1>12 DEF RowChanged
    <2> QED BY <1>1, <1>2, <1>4, <1>5, <2>1 DEF ReportInv, UsageTypeOK, Rows
  <1>7. DrainInv'
    <2>1. \A w \in Users, e \in Directions : counter[w][e] + Nothing[w][e] <= served[w][e] /\ Nothing[w][e] = 0
      <3> SUFFICES ASSUME NEW w \in Users, NEW e \in Directions
                   PROVE  counter[w][e] + Nothing[w][e] <= served[w][e] /\ Nothing[w][e] = 0
        OBVIOUS
      <3>1. Nothing[w][e] = 0
        BY DEF Nothing
      <3>2. counter[w][e] + drain.got[w][e] <= served[w][e]
        BY DEF ReportInv, DrainInv
      <3>3. counter[w][e] \in Nat /\ drain.got[w][e] \in Nat /\ served[w][e] \in Nat
        BY AmountTypes, DeltaType, ReportsAssumption
      <3> QED BY <3>1, <3>2, <3>3
    <2>2. \A n \in Reports : n > made' => report'[n] = Ended
      <3> SUFFICES ASSUME NEW n \in Reports, n > made + 1 PROVE report'[n] = Ended
        BY <1>1
      <3>1. n > made /\ n # r
        BY <1>2 DEF Reports, r
      <3>2. report[n] = Ended
        BY <3>1 DEF ReportInv, DrainInv
      <3> QED BY <3>1, <3>2, <1>12 DEF RowChanged
    <2> QED BY <1>1, <1>4, <2>1, <2>2 DEF DrainInv
  <1>8. \A s \in Statements, u \in Users :
          /\ Balance(s, u)' \in Nat /\ Balance(s, u) \in Nat
          /\ Balance(s, u)' <= Balance(s, u)
          /\ ~ lost => Balance(s, u)' = Balance(s, u)
    <2> SUFFICES ASSUME NEW s \in Statements, NEW u \in Users
                 PROVE  /\ Balance(s, u)' \in Nat /\ Balance(s, u) \in Nat
                        /\ Balance(s, u)' <= Balance(s, u)
                        /\ ~ lost => Balance(s, u)' = Balance(s, u)
      OBVIOUS
    <2>1. Coming(s, u)' = Coming(s, u) - Share(report[r], s, u) + Share(x, s, u)
      BY <1>12 DEF RowChanged
    <2>2. Share(report[r], s, u) = 0
      BY <1>2, NothingType, Shares DEF Ended
    <2>3. Share(x, s, u) = IF lost THEN 0 ELSE Delta(drain.got, u)
      <3>1. CASE lost
        <4>1. x \in Rows /\ x.at = Done
          BY <1>3, <3>1 DEF x, Ended
        <4> QED BY <3>1, <4>1, Shares
      <3>2. CASE ~ lost
        <4>1. x \in Rows /\ x.at = Resolve /\ x.usage = drain.got
          BY <1>3, <3>2 DEF x
        <4> QED BY <3>2, <4>1, Shares
      <3> QED BY <3>1, <3>2
    <2>4. Delta(drain'.got, u) = 0
      BY <1>4, NothingType
    <2>5. Balance(s, u)' = table[s][u] + (Delta(counter, u) + 0 + Coming(s, u)')
      BY <1>1, <2>4 DEF Balance, OnItsWay
    <2>6. Balance(s, u) = table[s][u] + (Delta(counter, u) + Delta(drain.got, u) + Coming(s, u))
      BY DEF Balance, OnItsWay
    <2>7. Delta(counter, u) \in Nat /\ Delta(drain.got, u) \in Nat /\ Coming(s, u) \in Nat /\ table[s][u] \in Nat
      BY AmountTypes
    <2> QED BY <2>1, <2>2, <2>3, <2>5, <2>6, <2>7
  <1>9. AtMostOnce' /\ NothingDropped'
    <2>1. \A s \in Statements, u \in Users :
            Balance(s, u)' \in Nat /\ Delta(served', u) \in Nat
            /\ Balance(s, u)' + Delta(served, u) <= Balance(s, u) + Delta(served', u)
      <3> SUFFICES ASSUME NEW s \in Statements, NEW u \in Users
                   PROVE Balance(s, u)' \in Nat /\ Delta(served', u) \in Nat
                         /\ Balance(s, u)' + Delta(served, u) <= Balance(s, u) + Delta(served', u)
        OBVIOUS
      <3>1. Delta(served, u) \in Nat /\ served' = served
        BY <1>1, AmountTypes, ReportsAssumption
      <3> QED BY <3>1, <1>8
    <2>2. known' \subseteq known /\ known \subseteq Users /\ IncrementUsers \in Statements
      BY <1>1 DEF ReportInv, UsageTypeOK, Statements, IncrementUsers
    <2>3. ~ lost => \A u \in known' :
              Balance(IncrementUsers, u)' + Delta(served, u) = Balance(IncrementUsers, u) + Delta(served', u)
      BY <1>1, <1>8, <2>2
    <2> QED BY <1>5, <2>1, <2>2, <2>3, BalanceKept
  <1>10. Alike'
    <2>1. \A s \in Statements, u \in Users : InWorkIn(report', s, u) = InWorkIn(report, s, u)
      <3> SUFFICES ASSUME NEW s \in Statements, NEW u \in Users
                   PROVE  InWorkIn(report', s, u) = InWorkIn(report, s, u)
        OBVIOUS
      <3>1. InWorkIn(report', s, u) = InWorkIn(report, s, u) - WorkShare(report[r], s, u) + WorkShare(x, s, u)
        BY <1>12 DEF RowChanged
      <3>2. WorkShare(report[r], s, u) = 0
        BY <1>2, NothingType, Shares DEF Ended
      <3>3. WorkShare(x, s, u) = 0
        <4>1. x \in Rows /\ (x.at = Done \/ x.at = Resolve)
          BY <1>3 DEF x, Ended
        <4> QED BY <4>1, Shares
      <3>4. InWorkIn(report, s, u) \in Nat
        BY AmountTypes
      <3> QED BY <3>1, <3>2, <3>3, <3>4
    <2>2. \A s \in Statements, t \in Statements, u \in known' : Agree(s, t, u) => Agree(s, t, u)'
      BY <1>1, <2>1 DEF Agree, ReportInv, UsageTypeOK
    <2> QED BY <1>1, <1>5, <2>2, AlikeFollows
  <1> QED BY <1>6, <1>7, <1>9, <1>10 DEF ReportInv

\* While the statements for a report run nobody's balance grows.
LEMMA ReportBalance ==
  ASSUME ReportInv, UNCHANGED <<served, counter, drain>>, known' \subseteq known,
         \A s \in Statements, u \in Users :
            /\ table'[s][u] \in Nat /\ Coming(s, u)' \in Nat
            /\ table'[s][u] + Coming(s, u)' <= table[s][u] + Coming(s, u),
         (happened["lost"] + happened["statement"])' = 0 =>
            /\ happened["lost"] + happened["statement"] = 0
            /\ \A u \in known' : table'[IncrementUsers][u] + Coming(IncrementUsers, u)'
                                   = table[IncrementUsers][u] + Coming(IncrementUsers, u)
  PROVE  AtMostOnce' /\ NothingDropped'
  <1>1. \A u \in Users : Delta(served, u) \in Nat /\ Delta(counter, u) \in Nat /\ Delta(drain.got, u) \in Nat
    BY AmountTypes, ReportsAssumption
  <1>2. \A s \in Statements, u \in Users : table[s][u] \in Nat /\ Coming(s, u) \in Nat
    BY AmountTypes
  <1>3. IncrementUsers \in Statements /\ known \subseteq Users
    BY DEF ReportInv, UsageTypeOK, Statements, IncrementUsers
  <1>4. ASSUME NEW s \in Statements, NEW u \in Users
        PROVE  /\ Balance(s, u)' \in Nat /\ Delta(served', u) \in Nat
               /\ Balance(s, u)' + Delta(served, u) <= Balance(s, u) + Delta(served', u)
               /\ table'[s][u] + Coming(s, u)' = table[s][u] + Coming(s, u) =>
                    Balance(s, u)' + Delta(served, u) = Balance(s, u) + Delta(served', u)
    <2>1. /\ Balance(s, u)' = table'[s][u] + (Delta(counter, u) + Delta(drain.got, u) + Coming(s, u)')
          /\ Balance(s, u) = table[s][u] + (Delta(counter, u) + Delta(drain.got, u) + Coming(s, u))
      BY DEF Balance, OnItsWay
    <2>2. /\ table'[s][u] \in Nat /\ Coming(s, u)' \in Nat /\ table[s][u] \in Nat /\ Coming(s, u) \in Nat
          /\ table'[s][u] + Coming(s, u)' <= table[s][u] + Coming(s, u)
      BY <1>2
    <2>3. Delta(served, u) \in Nat /\ Delta(counter, u) \in Nat /\ Delta(drain.got, u) \in Nat /\ served' = served
      BY <1>1
    <2> HIDE DEF ReportInv
    <2> QED BY <2>1, <2>2, <2>3
  <1> QED BY <1>3, <1>4, BalanceKept

LEMMA ResolveUsersKeeps ==
  ASSUME ReportInv, NEW r \in Reports, NEW fails \in BOOLEAN, ResolveUsers(r, fails)
  PROVE  ReportInv'
  <1> DEFINE y == [at |-> IncrementUsers,
                   usage |-> [u \in Users |-> IF u \in known THEN report[r].usage[u] ELSE Nothing[u]]]
             x == IF fails THEN Ended ELSE y
  <1>1. /\ report[r].at = Resolve /\ HappensIf(fails, "statement")
        /\ report' = [report EXCEPT ![r] = x]
        /\ UNCHANGED <<served, counter, drain, made, known, table, status>>
    BY DEF ResolveUsers
  <1>2. report[r] \in Rows /\ report[r].usage \in Usages
    BY AmountTypes DEF Rows
  <1>3. /\ y \in Rows /\ x \in Rows
        /\ \A u \in Users : Delta(y.usage, u) = IF u \in known THEN Delta(report[r].usage, u) ELSE 0
    <2>1. y.usage \in Usages
      BY <1>2, NothingType DEF Usages
    <2>2. y \in Rows
      BY <2>1 DEF Rows, Resolve, Done, IncrementUsers
    <2>3. \A u \in Users : Delta(y.usage, u) = IF u \in known THEN Delta(report[r].usage, u) ELSE 0
      BY NothingType DEF Delta
    <2> QED BY <2>2, <2>3, NothingType
  <1>4. y.at = IncrementUsers
    OBVIOUS
  <1> HIDE DEF y
  <1>5. x = IF fails THEN Ended ELSE y
    OBVIOUS
  <1> HIDE DEF x
  <1>6. RowChanged(r, x)
    BY <1>1, <1>3, RowChanges
  <1>7. /\ happened' \in [Events -> 0 .. MaxEvents]
        /\ (happened["lost"] + happened["statement"])' = 0 => ~ fails /\ happened["lost"] + happened["statement"] = 0
        /\ happened'["statement"] = 0 => ~ fails /\ happened["statement"] = 0
    <2>1. "statement" \in Events
      BY DEF Events
    <2> QED BY <1>1, <2>1, HappensCounts
  <1>8. ASSUME NEW s \in Statements, NEW u \in Users
        PROVE  /\ Share(report[r], s, u) = Delta(report[r].usage, u) /\ WorkShare(report[r], s, u) = 0
               /\ Share(x, s, u) = IF fails THEN 0 ELSE Delta(y.usage, u)
               /\ WorkShare(x, s, u) = IF fails THEN 0 ELSE Delta(y.usage, u)
    <2>1. IncrementUsers \in 1 .. s
      BY DEF IncrementUsers, Statements
    <2>2. fails => x.at = Done
      BY <1>5 DEF Ended
    <2> QED BY <1>1, <1>2, <1>3, <1>4, <1>5, <2>1, <2>2, Shares
  <1>9. UsageTypeOK'
    <2>1. report' \in [Reports -> Rows]
      BY <1>6 DEF RowChanged
    <2> QED BY <1>1, <1>7, <2>1 DEF ReportInv, UsageTypeOK, Rows
  <1>10. DrainInv'
    <2>1. ASSUME NEW n \in Reports, n > made PROVE report'[n] = Ended
      <3>1. report[n] = Ended /\ n # r
        BY <2>1, <1>1 DEF ReportInv, DrainInv, Ended, Done, Resolve
      <3> QED BY <3>1, <1>6 DEF RowChanged
    <2> QED BY <1>1, <2>1 DEF ReportInv, DrainInv
  <1>11. AtMostOnce' /\ NothingDropped'
    <2>1. ASSUME NEW s \in Statements, NEW u \in Users
          PROVE  /\ table'[s][u] \in Nat /\ Coming(s, u)' \in Nat
                 /\ table'[s][u] + Coming(s, u)' <= table[s][u] + Coming(s, u)
                 /\ (~ fails /\ u \in known) => table'[s][u] + Coming(s, u)' = table[s][u] + Coming(s, u)
      <3>1. /\ Coming(s, u)' \in Nat
            /\ Coming(s, u)' = Coming(s, u) - Share(report[r], s, u) + Share(x, s, u)
            /\ Share(report[r], s, u) \in Nat /\ Share(x, s, u) \in Nat
        BY <1>6 DEF RowChanged
      <3>2. Share(x, s, u) <= Share(report[r], s, u) /\ ((~ fails /\ u \in known) => Share(x, s, u) = Share(report[r], s, u))
        BY <1>3, <1>8, <3>1
      <3>3. table[s][u] \in Nat /\ Coming(s, u) \in Nat /\ table' = table
        BY <1>1, AmountTypes
      <3> QED BY <3>1, <3>2, <3>3
    <2>2. known' = known /\ known \subseteq Users /\ IncrementUsers \in Statements
      BY <1>1 DEF ReportInv, UsageTypeOK, Statements, IncrementUsers
    <2> QED BY <1>1, <1>7, <2>1, <2>2, ReportBalance
  <1>12. Alike'
    <2>1. ASSUME NEW s \in Statements, NEW t \in Statements, NEW u \in known, ~ fails, Agree(s, t, u)
          PROVE  Agree(s, t, u)'
      <3>1. u \in Users /\ known' = known /\ table' = table
        BY <1>1 DEF ReportInv, UsageTypeOK
      <3>2. /\ InWorkIn(report', s, u) = InWorkIn(report, s, u) - WorkShare(report[r], s, u) + WorkShare(x, s, u)
            /\ InWorkIn(report', t, u) = InWorkIn(report, t, u) - WorkShare(report[r], t, u) + WorkShare(x, t, u)
            /\ WorkShare(x, s, u) \in Nat
        BY <1>6, <3>1 DEF RowChanged
      <3>3. WorkShare(report[r], s, u) = 0 /\ WorkShare(report[r], t, u) = 0 /\ WorkShare(x, s, u) = WorkShare(x, t, u)
        BY <1>8, <3>1
      <3>4. /\ InWorkIn(report, s, u) \in Nat /\ InWorkIn(report, t, u) \in Nat
            /\ table[s][u] \in Nat /\ table[t][u] \in Nat
        BY <3>1, AmountTypes
      <3>5. table[s][u] + InWorkIn(report, s, u) = table[t][u] + InWorkIn(report, t, u)
              => table[s][u] + InWorkIn(report', s, u) = table[t][u] + InWorkIn(report', t, u)
        BY <3>2, <3>3, <3>4
      <3> QED BY <2>1, <3>1, <3>5 DEF Agree
    <2> QED BY <1>1, <1>7, <2>1, AlikeFollows
  <1> QED BY <1>9, <1>10, <1>11, <1>12 DEF ReportInv

LEMMA RunStatementKeeps ==
  ASSUME ReportInv, NEW r \in Reports, NEW k \in Statements, NEW fails \in BOOLEAN,
         RunStatement(r, k, fails)
  PROVE  ReportInv'
  <1> DEFINE x == [report[r] EXCEPT !.at = k + 1]
             D(u) == Delta(report[r].usage, u)
  <1>1. /\ report[r].at = k /\ HappensIf(fails, "statement") /\ Apply(r, k, fails)
        /\ report' = [report EXCEPT ![r] = x]
        /\ UNCHANGED <<served, counter, drain, made, known, status>>
    BY DEF RunStatement
  <1>2. report[r] \in Rows /\ report[r].usage \in Usages /\ \A u \in Users : D(u) \in Nat
    <2>1. report[r] \in Rows /\ report[r].usage \in Usages
      BY AmountTypes DEF Rows
    <2> QED BY <2>1, DeltaType, ReportsAssumption
  <1>3. x \in Rows /\ x.at = k + 1 /\ x.usage = report[r].usage
    BY <1>2 DEF Rows, Statements, Resolve, Done
  <1> HIDE DEF x
  <1>4. RowChanged(r, x)
    BY <1>1, <1>3, RowChanges
  <1>5. /\ happened' \in [Events -> 0 .. MaxEvents]
        /\ (happened["lost"] + happened["statement"])' = 0 => ~ fails /\ happened["lost"] + happened["statement"] = 0
        /\ happened'["statement"] = 0 => ~ fails /\ happened["statement"] = 0
    <2>1. "statement" \in Events
      BY DEF Events
    <2> QED BY <1>1, <2>1, HappensCounts
  <1>6. /\ known \subseteq Users /\ table \in [Statements -> [Users -> 0 .. 2 * MaxBytes]]
        /\ k \in 1 .. 6
    BY DEF ReportInv, UsageTypeOK, Statements
  <1>7. ASSUME NEW s \in Statements, NEW u \in Users
        PROVE  /\ Share(report[r], k, u) = D(u) /\ Share(x, k, u) = 0
               /\ WorkShare(report[r], k, u) = D(u) /\ WorkShare(x, k, u) = 0
               /\ s # k => Share(x, s, u) = Share(report[r], s, u) /\ WorkShare(x, s, u) = WorkShare(report[r], s, u)
    BY <1>1, <1>3, <1>6 DEF Share, WorkShare, Statements
  <1>8. /\ table' \in [Statements -> [Users -> Nat]]
        /\ \A s \in Statements \ {k}, u \in Users : table'[s][u] = table[s][u]
        /\ \A u \in Users :
             table'[k][u] = table[k][u]
               + (IF ~ fails /\ ~ Refused(r, k) /\ u \in Found(r, k) THEN D(u) ELSE 0)
    <2>1. ASSUME NEW u \in Users
          PROVE  table[k][u] \in Nat /\ table[k][u] + 0 = table[k][u] /\ table[k][u] + D(u) \in Nat
      <3>1. table[k][u] \in Nat
        BY AmountTypes
      <3>2. D(u) \in Nat
        BY <1>2
      <3> HIDE DEF D, ReportInv
      <3> QED BY <3>1, <3>2
    <2>2. CASE fails \/ Refused(r, k)
      <3>1. table' = table
        BY <1>1, <2>2 DEF Apply
      <3>2. table' \in [Statements -> [Users -> Nat]]
        BY <3>1, <1>6, ReportsAssumption
      <3> QED BY <2>1, <2>2, <3>1, <3>2
    <2>3. CASE ~ (fails \/ Refused(r, k))
      <3>1. table' = [table EXCEPT ![k] = [u \in Users |->
                        table[k][u] + (IF u \in Found(r, k) THEN D(u) ELSE 0)]]
        BY <1>1, <2>3 DEF Apply
      <3>2. [u \in Users |-> table[k][u] + (IF u \in Found(r, k) THEN D(u) ELSE 0)] \in [Users -> Nat]
        BY <2>1
      <3>3. table \in [Statements -> [Users -> Nat]]
        BY <1>6, ReportsAssumption
      <3>4. table' \in [Statements -> [Users -> Nat]]
        BY <3>1, <3>2, <3>3
      <3>5. table'[k] = [u \in Users |-> table[k][u] + (IF u \in Found(r, k) THEN D(u) ELSE 0)]
        BY <3>1, <3>3
      <3>6. \A s \in Statements \ {k} : table'[s] = table[s]
        BY <3>1, <3>3
      <3> QED BY <2>3, <3>4, <3>5, <3>6
    <2> QED BY <2>2, <2>3
  <1>9. ASSUME NEW u \in known
        PROVE  \/ u \in Found(r, k)
               \/ D(u) = 0
               \/ k = IncrementAdmins /\ u \notin Owned
    BY <1>2, <1>6 DEF Found, Billed, IncrementAdmins, IncrementUsers
  <1>10. Refused(r, k) => k = UpsertNodeUsers /\ known # Users
    BY <1>6 DEF Refused, Billed
  <1> HIDE DEF D
  <1>11. ASSUME NEW s \in Statements, NEW u \in Users
         PROVE  /\ table'[s][u] \in Nat /\ Coming(s, u)' \in Nat
                /\ table'[s][u] + Coming(s, u)' <= table[s][u] + Coming(s, u)
                /\ (~ fails /\ u \in known) =>
                     \/ table'[s][u] + Coming(s, u)' = table[s][u] + Coming(s, u)
                     \/ s # IncrementUsers
    <2>1. /\ Coming(s, u)' \in Nat
          /\ Coming(s, u)' = Coming(s, u) - Share(report[r], s, u) + Share(x, s, u)
          /\ Share(report[r], s, u) \in Nat
      BY <1>4 DEF RowChanged
    <2>2. table[s][u] \in Nat /\ Coming(s, u) \in Nat /\ D(u) \in Nat /\ table'[s][u] \in Nat
      BY <1>2, <1>8, AmountTypes
    <2>3. CASE s = k
      <3>1. Coming(s, u)' = Coming(s, u) - D(u)
        BY <2>1, <2>2, <2>3, <1>7
      <3>2. table'[s][u] = table[s][u] \/ table'[s][u] = table[s][u] + D(u)
        BY <1>8, <2>2, <2>3
      <3>3. (~ fails /\ u \in known /\ s = IncrementUsers) => table'[s][u] = table[s][u] + D(u)
        <4> SUFFICES ASSUME ~ fails, u \in known, s = IncrementUsers
                     PROVE  table'[s][u] = table[s][u] + D(u)
          OBVIOUS
        <4>1. ~ Refused(r, k) /\ (u \in Found(r, k) \/ D(u) = 0)
          BY <1>9, <1>10, <2>3 DEF IncrementUsers, IncrementAdmins, UpsertNodeUsers
        <4> QED BY <1>8, <2>2, <2>3, <4>1
      <3> QED BY <2>1, <2>2, <3>1, <3>2, <3>3
    <2>4. CASE s # k
      <3>1. table'[s][u] = table[s][u] /\ Share(x, s, u) = Share(report[r], s, u)
        BY <1>7, <1>8, <2>4
      <3> QED BY <2>1, <2>2, <3>1
    <2> QED BY <2>3, <2>4
  <1>12. AtMostOnce' /\ NothingDropped'
    <2>1. IncrementUsers \in Statements /\ known' = known
      BY <1>1 DEF Statements, IncrementUsers
    <2>2. (happened["lost"] + happened["statement"])' = 0 =>
            /\ happened["lost"] + happened["statement"] = 0
            /\ \A u \in known' : table'[IncrementUsers][u] + Coming(IncrementUsers, u)'
                                   = table[IncrementUsers][u] + Coming(IncrementUsers, u)
      BY <1>5, <1>6, <1>11, <2>1
    <2>3. UNCHANGED <<served, counter, drain>>
      BY <1>1
    <2> QED BY <1>11, <2>1, <2>2, <2>3, ReportBalance
  <1>13. UsageTypeOK'
    <2>1. report' \in [Reports -> Rows]
      BY <1>4 DEF RowChanged
    <2>2. ASSUME NEW s \in Statements, NEW u \in Users PROVE table'[s][u] \in 0 .. 2 * MaxBytes
      <3>1. /\ table'[s][u] \in Nat /\ Coming(s, u)' \in Nat
            /\ table'[s][u] + Coming(s, u)' <= table[s][u] + Coming(s, u)
        BY <1>11
      <3>2. table[s][u] + (Delta(counter, u) + Delta(drain.got, u) + Coming(s, u)) <= Delta(served, u)
        BY DEF ReportInv, AtMostOnce, OnItsWay
      <3>3. /\ table[s][u] \in Nat /\ Delta(counter, u) \in Nat /\ Delta(drain.got, u) \in Nat
            /\ Coming(s, u) \in Nat /\ Delta(served, u) \in 0 .. 2 * MaxBytes /\ 2 * MaxBytes \in Nat
        BY AmountTypes, ReportsAssumption
      <3> DEFINE m == 2 * MaxBytes
      <3>4. m \in Nat /\ Delta(served, u) <= m
        BY <3>3
      <3> HIDE DEF m
      <3>5. table'[s][u] <= m
        BY <3>1, <3>2, <3>3, <3>4
      <3> QED BY <3>1, <3>3, <3>5 DEF m
    <2>3. table' \in [Statements -> [Users -> 0 .. 2 * MaxBytes]]
      BY <1>8, <2>2
    <2> QED BY <1>1, <1>5, <2>1, <2>3 DEF ReportInv, UsageTypeOK, Rows
  <1>14. DrainInv'
    <2>1. ASSUME NEW n \in Reports, n > made PROVE report'[n] = Ended
      <3>1. report[n] = Ended /\ n # r
        BY <2>1, <1>1, <1>6 DEF ReportInv, DrainInv, Ended, Done
      <3> QED BY <3>1, <1>4 DEF RowChanged
    <2> QED BY <1>1, <2>1 DEF ReportInv, DrainInv
  <1>15. ASSUME NEW s \in Statements, NEW u \in known, ~ fails
         PROVE  \/ table'[s][u] + InWorkIn(report', s, u) = table[s][u] + InWorkIn(report, s, u)
                \/ s = IncrementAdmins /\ u \notin Owned
                \/ s = UpsertNodeUsers /\ known # Users
    <2>1. u \in Users
      BY <1>6
    <2>2. /\ InWorkIn(report', s, u) = InWorkIn(report, s, u) - WorkShare(report[r], s, u) + WorkShare(x, s, u)
          /\ WorkShare(report[r], s, u) \in Nat
      BY <1>4, <2>1 DEF RowChanged
    <2>3. table[s][u] \in Nat /\ InWorkIn(report, s, u) \in Nat /\ D(u) \in Nat
      BY <1>2, <2>1, AmountTypes
    <2>4. CASE s = k
      <3>1. InWorkIn(report', s, u) = InWorkIn(report, s, u) - D(u)
        BY <1>7, <2>1, <2>2, <2>3, <2>4
      <3>2. \/ table'[s][u] = table[s][u] + D(u)
            \/ k = IncrementAdmins /\ u \notin Owned
            \/ k = UpsertNodeUsers /\ known # Users
        BY <1>8, <1>9, <1>10, <1>15, <2>1, <2>3, <2>4
      <3> QED BY <2>3, <2>4, <3>1, <3>2
    <2>5. CASE s # k
      <3>1. table'[s][u] = table[s][u] /\ WorkShare(x, s, u) = WorkShare(report[r], s, u)
        BY <1>7, <1>8, <2>1, <2>5
      <3> QED BY <2>2, <2>3, <3>1
    <2> QED BY <2>4, <2>5
  <1>16. Alike'
    <2>1. ASSUME NEW s \in Statements, NEW t \in Statements, NEW u \in known, ~ fails, Agree(s, t, u)
          PROVE  Agree(s, t, u)'
      <3>1. known' = known
        BY <1>1
      <3>2. \/ table[s][u] + InWorkIn(report, s, u) = table[t][u] + InWorkIn(report, t, u)
            \/ IncrementAdmins \in {s, t} /\ u \notin Owned
            \/ UpsertNodeUsers \in {s, t} /\ known # Users
        BY <2>1 DEF Agree
      <3>3. /\ \/ table'[s][u] + InWorkIn(report', s, u) = table[s][u] + InWorkIn(report, s, u)
               \/ s = IncrementAdmins /\ u \notin Owned
               \/ s = UpsertNodeUsers /\ known # Users
            /\ \/ table'[t][u] + InWorkIn(report', t, u) = table[t][u] + InWorkIn(report, t, u)
               \/ t = IncrementAdmins /\ u \notin Owned
               \/ t = UpsertNodeUsers /\ known # Users
        BY <1>15, <2>1
      <3> QED BY <3>1, <3>2, <3>3 DEF Agree
    <2> QED BY <1>1, <1>5, <2>1, AlikeFollows
  <1> QED BY <1>12, <1>13, <1>14, <1>16 DEF ReportInv

LEMMA MarkConnectedKeeps ==
  ASSUME ReportInv, NEW r \in Reports, NEW fails \in BOOLEAN, MarkConnected(r, fails)
  PROVE  ReportInv'
  <1>1. /\ report[r].at = MarkNode /\ HappensIf(fails, "statement")
        /\ report' = [report EXCEPT ![r] = Ended]
        /\ status' = IF fails THEN status ELSE StatusAfterReport
        /\ UNCHANGED <<served, counter, drain, made, known, table>>
    BY DEF MarkConnected
  <1>2. report[r] \in Rows /\ Ended \in Rows /\ Ended.at = Done
    BY AmountTypes, NothingType DEF Ended
  <1>3. RowChanged(r, Ended)
    BY <1>1, <1>2, RowChanges
  <1>4. /\ happened' \in [Events -> 0 .. MaxEvents]
        /\ (happened["lost"] + happened["statement"])' = 0 => happened["lost"] + happened["statement"] = 0
        /\ happened'["statement"] = 0 => happened["statement"] = 0
    <2>1. "statement" \in Events
      BY DEF Events
    <2> QED BY <1>1, <2>1, HappensCounts
  <1>5. ASSUME NEW s \in Statements, NEW u \in Users
        PROVE  Coming(s, u)' = Coming(s, u) /\ InWorkIn(report', s, u) = InWorkIn(report, s, u)
               /\ Coming(s, u) \in Nat /\ table[s][u] \in Nat
    <2>1. /\ Share(report[r], s, u) = 0 /\ WorkShare(report[r], s, u) = 0
          /\ Share(Ended, s, u) = 0 /\ WorkShare(Ended, s, u) = 0
      BY <1>1, <1>2, Shares
    <2>2. /\ Coming(s, u)' = Coming(s, u) - Share(report[r], s, u) + Share(Ended, s, u)
          /\ InWorkIn(report', s, u)
               = InWorkIn(report, s, u) - WorkShare(report[r], s, u) + WorkShare(Ended, s, u)
      BY <1>3 DEF RowChanged
    <2>3. Coming(s, u) \in Nat /\ InWorkIn(report, s, u) \in Nat /\ table[s][u] \in Nat
      BY AmountTypes
    <2> QED BY <2>1, <2>2, <2>3
  <1>6. UsageTypeOK'
    <2>1. report' \in [Reports -> Rows]
      BY <1>3 DEF RowChanged
    <2>2. status' \in {"connecting", "connected", "disabled"}
      BY <1>1 DEF ReportInv, UsageTypeOK, StatusAfterReport
    <2> QED BY <1>1, <1>4, <2>1, <2>2 DEF ReportInv, UsageTypeOK, Rows
  <1>7. DrainInv'
    <2>1. ASSUME NEW n \in Reports, n > made PROVE report'[n] = Ended
      <3>1. report[n] = Ended
        BY <2>1 DEF ReportInv, DrainInv
      <3> QED BY <3>1, <1>3 DEF RowChanged
    <2> QED BY <1>1, <2>1 DEF ReportInv, DrainInv
  <1>8. AtMostOnce' /\ NothingDropped'
    <2>1. known' = known /\ known \subseteq Users /\ IncrementUsers \in Statements
      BY <1>1 DEF ReportInv, UsageTypeOK, Statements, IncrementUsers
    <2>2. \A s \in Statements, u \in Users :
            /\ table'[s][u] \in Nat /\ Coming(s, u)' \in Nat
            /\ table'[s][u] + Coming(s, u)' <= table[s][u] + Coming(s, u)
            /\ table'[s][u] + Coming(s, u)' = table[s][u] + Coming(s, u)
      BY <1>1, <1>5
    <2> QED BY <1>1, <1>4, <2>1, <2>2, ReportBalance
  <1>9. Alike'
    <2>1. \A s \in Statements, t \in Statements, u \in known' : Agree(s, t, u) => Agree(s, t, u)'
      BY <1>1, <1>5 DEF Agree, ReportInv, UsageTypeOK
    <2> QED BY <1>1, <1>4, <2>1, AlikeFollows
  <1> QED BY <1>6, <1>7, <1>8, <1>9 DEF ReportInv

LEMMA DeleteUserKeeps ==
  ASSUME ReportInv, NEW v \in Users, DeleteUser(v)
  PROVE  ReportInv'
  <1>1. /\ HappensIf(TRUE, "delete") /\ known' = known \ {v}
        /\ table' = [table EXCEPT ![IncrementUsers][v] = 0, ![UpsertNodeUsers][v] = 0]
        /\ UNCHANGED <<served, counter, drain, made, report, status>>
    BY DEF DeleteUser, HappensIf
  <1>2. /\ known \subseteq Users /\ table \in [Statements -> [Users -> 0 .. 2 * MaxBytes]]
        /\ IncrementUsers \in Statements /\ UpsertNodeUsers \in Statements /\ IncrementUsers # UpsertNodeUsers
    BY DEF ReportInv, UsageTypeOK, Statements, IncrementUsers, UpsertNodeUsers
  <1>3. /\ happened' \in [Events -> 0 .. MaxEvents]
        /\ (happened["lost"] + happened["statement"])' = 0 => happened["lost"] + happened["statement"] = 0
        /\ happened'["statement"] = 0 => happened["statement"] = 0
    <2>1. "delete" \in Events
      BY DEF Events
    <2> QED BY <1>1, <2>1, HappensCounts
  <1> DEFINE one == [table EXCEPT ![IncrementUsers][v] = 0]
  <1>4. /\ one \in [Statements -> [Users -> 0 .. 2 * MaxBytes]]
        /\ one[IncrementUsers][v] = 0
        /\ \A s \in Statements, u \in Users : (s # IncrementUsers \/ u # v) => one[s][u] = table[s][u]
    BY <1>2, ReportsAssumption
  <1>5. table' = [one EXCEPT ![UpsertNodeUsers][v] = 0]
    BY <1>1
  <1> HIDE DEF one
  <1>6. /\ table' \in [Statements -> [Users -> 0 .. 2 * MaxBytes]]
        /\ table'[UpsertNodeUsers][v] = 0
        /\ \A s \in Statements, u \in Users : (s # UpsertNodeUsers \/ u # v) => table'[s][u] = one[s][u]
    BY <1>2, <1>4, <1>5, ReportsAssumption
  <1>7. ASSUME NEW s \in Statements, NEW u \in Users
        PROVE  /\ table'[s][u] \in Nat /\ table[s][u] \in Nat
               /\ table'[s][u] = 0 \/ table'[s][u] = table[s][u]
               /\ u # v => table'[s][u] = table[s][u]
    <2>1. table'[s][u] \in 0 .. 2 * MaxBytes /\ table[s][u] \in 0 .. 2 * MaxBytes
      BY <1>2, <1>6
    <2>2. table'[s][u] \in Nat /\ table[s][u] \in Nat
      BY <2>1, ReportsAssumption
    <2> QED BY <1>2, <1>4, <1>6, <2>2
  <1>8. UsageTypeOK'
    BY <1>1, <1>2, <1>3, <1>6 DEF ReportInv, UsageTypeOK
  <1>9. DrainInv'
    BY <1>1 DEF ReportInv, DrainInv
  <1>10. \A s \in Statements, u \in Users : Coming(s, u)' = Coming(s, u) /\ Coming(s, u) \in Nat
    BY <1>1, AmountTypes DEF Coming
  <1>11. AtMostOnce' /\ NothingDropped'
    <2>1. ASSUME NEW s \in Statements, NEW u \in Users
          PROVE  /\ table'[s][u] \in Nat /\ Coming(s, u)' \in Nat
                 /\ table'[s][u] + Coming(s, u)' <= table[s][u] + Coming(s, u)
                 /\ u \in known' => table'[s][u] + Coming(s, u)' = table[s][u] + Coming(s, u)
      <3>1. /\ table'[s][u] \in Nat /\ table[s][u] \in Nat /\ Coming(s, u) \in Nat
            /\ table'[s][u] = 0 \/ table'[s][u] = table[s][u]
            /\ Coming(s, u)' = Coming(s, u)
        BY <1>7, <1>10
      <3>2. u \in known' => table'[s][u] = table[s][u]
        BY <1>1, <1>7
      <3> QED BY <3>1, <3>2
    <2> QED BY <1>1, <1>2, <1>3, <2>1, ReportBalance
  <1>12. Alike'
    <2>1. \A s \in Statements, t \in Statements, u \in known' : Agree(s, t, u) => Agree(s, t, u)'
      BY <1>1, <1>2, <1>7, SMTT(40) DEF Agree
    <2> QED BY <1>1, <1>3, <2>1, AlikeFollows
  <1> QED BY <1>8, <1>9, <1>11, <1>12 DEF ReportInv

LEMMA SetDisabledKeeps ==
  ASSUME ReportInv, NEW disabled \in BOOLEAN, SetDisabled(disabled)
  PROVE  ReportInv'
  <1>1. /\ HappensIf(TRUE, "disable")
        /\ status' \in {"connecting", "connected", "disabled"}
        /\ UNCHANGED <<served, counter, drain, made, report, known, table>>
    BY DEF SetDisabled, HappensIf, ReportInv, UsageTypeOK
  <1>2. /\ happened' \in [Events -> 0 .. MaxEvents]
        /\ (happened["lost"] + happened["statement"])' = 0 => happened["lost"] + happened["statement"] = 0
        /\ happened'["statement"] = 0 => happened["statement"] = 0
    <2>1. "disable" \in Events
      BY DEF Events
    <2> QED BY <1>1, <2>1, HappensCounts
  <1>3. UsageTypeOK'
    BY <1>1, <1>2 DEF ReportInv, UsageTypeOK
  <1>4. DrainInv'
    BY <1>1 DEF ReportInv, DrainInv
  <1>5. AtMostOnce' /\ NothingDropped'
    BY <1>1, <1>2 DEF ReportInv, AtMostOnce, NothingDropped, OnItsWay, Coming
  <1>6. Alike'
    BY <1>1, <1>2, AlikeKept
  <1> QED BY <1>3, <1>4, <1>5, <1>6 DEF ReportInv

\* Every step keeps the invariant.
LEMMA ReportInvNext == ReportInv /\ [UsageNext]_usageVars => ReportInv'
  <1> SUFFICES ASSUME ReportInv, [UsageNext]_usageVars PROVE ReportInv'
    OBVIOUS
  <1>1. ASSUME NEW u \in Users, NEW d \in Directions, AddTraffic(u, d) PROVE ReportInv'
    BY <1>1, AddTrafficKeeps
  <1>2. ASSUME NEW u \in Users, NEW d \in Directions, DrainOne(u, d) PROVE ReportInv'
    BY <1>2, DrainOneKeeps
  <1>3. CASE DrainBegin
    BY <1>3, DrainBeginKeeps
  <1>4. ASSUME NEW lost \in BOOLEAN, Push(lost) PROVE ReportInv'
    BY <1>4, PushKeeps
  <1>5. ASSUME NEW r \in Reports, NEW fails \in BOOLEAN, ResolveUsers(r, fails) PROVE ReportInv'
    BY <1>5, ResolveUsersKeeps
  <1>6. ASSUME NEW r \in Reports, NEW fails \in BOOLEAN, NEW s \in Statements, RunStatement(r, s, fails) PROVE ReportInv'
    BY <1>6, RunStatementKeeps
  <1>7. ASSUME NEW r \in Reports, NEW fails \in BOOLEAN, MarkConnected(r, fails) PROVE ReportInv'
    BY <1>7, MarkConnectedKeeps
  <1>8. ASSUME NEW u \in Users, DeleteUser(u) PROVE ReportInv'
    BY <1>8, DeleteUserKeeps
  <1>9. ASSUME NEW disabled \in BOOLEAN, SetDisabled(disabled) PROVE ReportInv'
    BY <1>9, SetDisabledKeeps
  <1>10. CASE UNCHANGED usageVars
    <2>1. UNCHANGED <<served, counter, drain, made, report, known, table, status, happened>>
      BY <1>10 DEF usageVars
    <2>2. UsageTypeOK' /\ DrainInv'
      BY <2>1 DEF ReportInv, UsageTypeOK, DrainInv
    <2>3. AtMostOnce' /\ NothingDropped'
      BY <2>1 DEF ReportInv, AtMostOnce, NothingDropped, OnItsWay, Coming
    <2>4. Alike'
      BY <2>1, AlikeKept
    <2> QED BY <2>2, <2>3, <2>4 DEF ReportInv
  <1> QED BY <1>1, <1>2, <1>3, <1>4, <1>5, <1>6, <1>7, <1>8, <1>9, <1>10 DEF UsageNext

\* Where no report is being applied, tables that agree up to work agree.
LEMMA ReportInvTables == ReportInv => TablesAgree
  <1> SUFFICES ASSUME ReportInv, happened["statement"] = 0,
                      \A r \in Reports : report[r].at \notin Statements,
                      NEW u \in known, NEW s \in Statements, NEW t \in Statements
               PROVE  \/ table[s][u] = table[t][u]
                      \/ IncrementAdmins \in {s, t} /\ u \notin Owned
                      \/ UpsertNodeUsers \in {s, t} /\ known # Users
    BY DEF TablesAgree
  <1>1. u \in Users
    BY DEF ReportInv, UsageTypeOK
  <1>2. ASSUME NEW k \in Statements PROVE InWorkIn(report, k, u) = 0
    <2> DEFINE c == [n \in Reports |-> WorkShare(report[n], k, u)]
    <2>1. \A n \in Reports : c[n] = 0
      BY DEF WorkShare, Statements
    <2>2. c \in [Reports -> Nat]
      BY <2>1
    <2>3. TotalOf(c) = 0
      <3> HIDE DEF c
      <3> QED BY <2>1, <2>2, TotalOfNothing
    <2> QED BY <2>3 DEF InWorkIn
  <1>3. Agree(s, t, u)
    BY DEF ReportInv, Alike
  <1>4. table[s][u] \in Nat /\ table[t][u] \in Nat
    BY <1>1, AmountTypes
  <1> QED BY <1>2, <1>3, <1>4 DEF Agree

\* Only SetDisabled and a report's last statement write the status, and neither
\* connects a disabled node.
LEMMA DisabledStep ==
  ASSUME ReportInv, [UsageNext]_usageVars, status = "disabled"
  PROVE  status' \in {"disabled", "connecting"}
  BY DEF UsageNext, usageVars, AddTraffic, DrainOne, DrainBegin, Push, ResolveUsers, RunStatement,
         MarkConnected, StatusAfterReport, DeleteUser, SetDisabled

\* Whatever is lost, fails or overlaps, no byte is counted twice, the tables of a
\* report agree, and a report never connects a disabled node (nodereport.go).
THEOREM UsageCounts == UsageSpec => UsageAddsUp
  <1>1. UsageInit => ReportInv
    BY ReportInvInit
  <1>2. ReportInv /\ [UsageNext]_usageVars => ReportInv'
    BY ReportInvNext
  <1>3. ReportInv => UsageTypeOK /\ AtMostOnce /\ TablesAgree
    BY ReportInvTables DEF ReportInv
  <1>4. ReportInv /\ [UsageNext]_usageVars => [status = "disabled" => status' \in {"disabled", "connecting"}]_status
    BY DisabledStep
  <1> QED BY <1>1, <1>2, <1>3, <1>4, PTL DEF UsageSpec, UsageAddsUp, DisabledStays

\* While no push is lost and no statement fails, every byte of a known user is in
\* users.used_traffic or on its way there (traffic.go, node/main.go, nodereport.go).
THEOREM UsageArrives == UsageSpec => []NothingDropped
  <1>1. UsageInit => ReportInv
    BY ReportInvInit
  <1>2. ReportInv /\ [UsageNext]_usageVars => ReportInv'
    BY ReportInvNext
  <1>3. ReportInv => NothingDropped
    BY DEF ReportInv
  <1> QED BY <1>1, <1>2, <1>3, PTL DEF UsageSpec

-----------------------------------------------------------------------------
(***************************************************************************)
(* ResellerBilling: billing loses nothing and writes nothing off, for any  *)
(* number of admins, concurrent node reports, failed rounds and changes of *)
(* the settings.  TypeOK alone is not inductive: that MarkSent leaves      *)
(* pending a natural number needs SentIsPending, and SentIsPending needs   *)
(* that nothing but MarkSent lowers a row that exists.                     *)
(***************************************************************************)

\* What is in the post being sent or marked is still pending: a node report
\* only adds to it, and no second post is under way.
SentIsPending ==
    /\ post = "none" => sent = Zero
    /\ \A a \in admins : sent[a] <= pending[a]

\* A deleted admin has no rows.
NoRows ==
    \A a \in Admins \ admins : pending[a] = 0 /\ reported[a] = 0 /\ usage[a] + erased[a] = 0 /\ unqueued[a] = 0

\* The bot has charged what is reported and, once it answered, the post.
Charged ==
    \A a \in Admins :
        reported[a] + (IF post = "charged" /\ a \in admins THEN sent[a] ELSE 0) <= charged[a]

IInv == TypeOK /\ SentIsPending /\ NoRows /\ NothingLost /\ Charged

\* The empty amounts are amounts.
LEMMA ZeroType == Zero \in Amounts /\ \A a \in Admins : Zero[a] = 0
  BY DEF Zero, Amounts

\* The sum of two amounts is one, and adds up admin by admin.
LEMMA AddType ==
  ASSUME NEW f \in Amounts, NEW g \in Amounts
  PROVE  Plus(f, g) \in Amounts /\ \A a \in Admins : Plus(f, g)[a] = f[a] + g[a]
  BY DEF Plus, Amounts

\* The panel starts with empty queues and nothing charged.
LEMMA InitIInv == Init => IInv
  <1> SUFFICES ASSUME Init PROVE IInv
    OBVIOUS
  <1>1. TypeOK
    BY ZeroType, BoundsAssumption DEF Init, TypeOK, Faults
  <1>2. SentIsPending /\ NoRows /\ NothingLost /\ Charged
    BY ZeroType DEF Init, SentIsPending, NoRows, NothingLost, Charged
  <1> QED BY <1>1, <1>2 DEF IInv

\* Every step of a node report, the administrator, the loop and the bot keeps
\* the invariant.
LEMMA NextIInv == IInv /\ [Next]_vars => IInv'
  <1> SUFFICES ASSUME IInv, [Next]_vars PROVE IInv'
    OBVIOUS
  <1> USE DEF IInv
  <1>1. ASSUME NEW h \in Handlers, NEW fails \in BOOLEAN, ResolveSettings(h, fails)
        PROVE IInv'
    BY <1>1 DEF ResolveSettings, TypeOK, SentIsPending, NoRows, NothingLost, Charged,
       settingsVars, queueVars, loopVars
  <1>2. ASSUME NEW h \in Handlers, NEW a \in Admins, BulkIncrementAdminUsage(h, a)
        PROVE IInv'
    <2> USE <1>2 DEF BulkIncrementAdminUsage, settingsVars, loopVars
    <2>0. handler' \in [Handlers -> {"idle", "queue", "skip"}]
      BY DEF TypeOK
    <2>1. CASE handler[h] = "queue"
      <3>1. TypeOK'
        BY <2>0, <2>1 DEF TypeOK, Amounts
      <3>2. SentIsPending' /\ Charged'
        BY <2>1 DEF TypeOK, Amounts, SentIsPending, Charged
      <3>4. NoRows'
        BY <2>1 DEF TypeOK, Amounts, NoRows
      <3>3. NothingLost'
        BY <2>1 DEF TypeOK, Amounts, NothingLost
      <3> QED BY <3>1, <3>2, <3>3, <3>4
    <2>2. CASE handler[h] # "queue"
      <3>1. TypeOK'
        BY <2>0, <2>2 DEF TypeOK, Amounts
      <3>2. SentIsPending' /\ Charged'
        BY <2>2 DEF TypeOK, Amounts, SentIsPending, Charged
      <3>4. NoRows'
        BY <2>2 DEF TypeOK, Amounts, NoRows
      <3>3. NothingLost'
        BY <2>2 DEF TypeOK, Amounts, NothingLost
      <3> QED BY <3>1, <3>2, <3>3, <3>4
    <2> QED BY <2>1, <2>2
  <1>3. ASSUME NEW on \in BOOLEAN, SaveSettings(on) PROVE IInv'
    BY <1>3 DEF SaveSettings, TypeOK, SentIsPending, NoRows, NothingLost, Charged,
       nodeVars, queueVars, loopVars
  <1>4. ASSUME NEW a \in Admins, DeleteAdmin(a) PROVE IInv'
    <2> USE <1>4 DEF DeleteAdmin, settingsVars, loopVars
    <2>1. TypeOK'
      BY DEF TypeOK, Amounts
    <2>2. SentIsPending' /\ Charged'
      BY DEF TypeOK, Amounts, SentIsPending, Charged
    <2>3. NoRows' /\ NothingLost'
      BY DEF TypeOK, Amounts, NoRows, NothingLost
    <2> QED BY <2>1, <2>2, <2>3
  <1>11. ASSUME NEW a \in Admins, ResetAdminUsage(a) PROVE IInv'
    <2> USE <1>11 DEF ResetAdminUsage, settingsVars, queueVars, loopVars
    <2>1. TypeOK'
      BY DEF TypeOK, Amounts
    <2>2. SentIsPending' /\ Charged'
      BY DEF TypeOK, Amounts, SentIsPending, Charged
    <2>3. NoRows' /\ NothingLost'
      BY DEF TypeOK, Amounts, NoRows, NothingLost
    <2> QED BY <2>1, <2>2, <2>3
  <1>5. CASE Tick
    BY <1>5 DEF Tick, TypeOK, Amounts, SentIsPending, NoRows, NothingLost, Charged,
       settingsVars, nodeVars, queueVars
  <1>6. CASE Mark
    <2> USE <1>6 DEF Mark, MarkSent, Answered, settingsVars, nodeVars
    <2>1. ASSUME NEW a \in Admins
          PROVE  /\ pending[a] \in Nat /\ reported[a] \in Nat /\ sent[a] \in Nat
                 /\ a \in admins => /\ pending'[a] = pending[a] - sent[a]
                                    /\ pending'[a] \in Nat
                                    /\ reported'[a] = reported[a] + sent[a]
                 /\ a \notin admins => pending'[a] = pending[a] /\ reported'[a] = reported[a]
      BY <2>1 DEF TypeOK, Amounts, SentIsPending
    <2>2. pending' \in Amounts /\ reported' \in Amounts
      BY <2>1 DEF Amounts
    <2>3. TypeOK'
      BY <2>2, ZeroType DEF TypeOK
    <2>4. SentIsPending' /\ NoRows'
      BY <2>1, <2>2, ZeroType DEF SentIsPending, NoRows, Amounts, TypeOK
    <2>5. NothingLost'
      BY <2>1 DEF NothingLost, NoRows, TypeOK, Amounts
    <2>6. Charged'
      BY <2>1, ZeroType DEF Charged, TypeOK, Amounts
    <2> QED BY <2>3, <2>4, <2>5, <2>6
  <1>7. CASE RoundFails
    <2> USE <1>7 DEF RoundFails, settingsVars, nodeVars, queueVars
    <2>1. faults + 1 \in Faults
      BY BoundsAssumption DEF TypeOK, Faults
    <2>2. (IF post = "sent" THEN sent ELSE Zero) \in Amounts
      BY ZeroType DEF TypeOK
    <2>3. late' \in [Faults -> Amounts]
      BY <2>1, <2>2 DEF TypeOK
    <2>4. TypeOK'
      BY <2>1, <2>3, ZeroType DEF TypeOK, Faults
    <2>5. SentIsPending' /\ NoRows' /\ NothingLost' /\ Charged'
      BY ZeroType DEF TypeOK, Amounts, SentIsPending, NoRows, NothingLost, Charged
    <2> QED BY <2>4, <2>5
  <1>8. CASE BotCharges
    <2> USE <1>8 DEF BotCharges, settingsVars, nodeVars, queueVars
    <2>1. charged' \in Amounts /\ \A a \in Admins : charged'[a] = charged[a] + sent[a]
      BY AddType DEF TypeOK
    <2>2. TypeOK'
      BY <2>1 DEF TypeOK
    <2>3. SentIsPending' /\ NoRows' /\ NothingLost'
      BY DEF SentIsPending, NoRows, NothingLost
    <2>4. Charged'
      BY <2>1 DEF Charged, TypeOK, Amounts
    <2> QED BY <2>2, <2>3, <2>4
  <1>9. ASSUME NEW f \in Faults, NEW lost \in BOOLEAN, BotChargesLate(f, lost) PROVE IInv'
    <2> USE <1>9 DEF BotChargesLate, settingsVars, nodeVars, queueVars
    <2>1. late[f] \in Amounts /\ charged \in Amounts
      BY DEF TypeOK
    <2>2. charged' \in Amounts /\ \A a \in Admins : charged'[a] >= charged[a]
      BY <2>1, AddType DEF Amounts
    <2>3. late' \in [Faults -> Amounts]
      BY ZeroType DEF TypeOK
    <2>4. TypeOK'
      BY <2>2, <2>3 DEF TypeOK
    <2>5. SentIsPending' /\ NoRows' /\ NothingLost'
      BY DEF SentIsPending, NoRows, NothingLost
    <2>6. Charged'
      BY <2>1, <2>2 DEF Charged, TypeOK, Amounts
    <2> QED BY <2>4, <2>5, <2>6
  <1>10. CASE UNCHANGED vars
    BY <1>10 DEF vars, TypeOK, SentIsPending, NoRows, NothingLost, Charged,
       settingsVars, nodeVars, queueVars, loopVars
  <1> QED BY <1>1, <1>2, <1>3, <1>4, <1>5, <1>6, <1>7, <1>8, <1>9, <1>10, <1>11 DEF Next

\* The invariant holds throughout.
LEMMA Inductive == Spec => []IInv
  BY InitIInv, NextIInv, PTL DEF Spec

\* No amount of the queue, of the post or of the bot's ledger is ever negative,
\* whatever order node reports and marks come in.
THEOREM TypeCorrect == Spec => []TypeOK
  <1>1. IInv => TypeOK
    BY DEF IInv
  <1> QED BY <1>1, Inductive, PTL

\* Queued traffic is pending or reported for ever, in every interleaving of
\* node reports and resets of the counter with the loop's read, post and mark.
THEOREM NothingLostTheorem == Spec => []NothingLost
  <1>1. IInv => NothingLost
    BY DEF IInv
  <1> QED BY <1>1, Inductive, PTL

\* What the panel counts as reported has been charged by the bot.
THEOREM ReportedTheorem == Spec => []ReportedWasCharged
  <1>1. ASSUME IInv, NEW a \in Admins PROVE reported[a] <= charged[a]
    <2>1. reported[a] \in Nat /\ charged[a] \in Nat /\ sent[a] \in Nat
      BY <1>1 DEF IInv, TypeOK, Amounts
    <2>2. CASE post = "charged" /\ a \in admins
      BY <1>1, <2>1, <2>2 DEF IInv, Charged
    <2>3. CASE ~ (post = "charged" /\ a \in admins)
      BY <1>1, <2>1, <2>3 DEF IInv, Charged
    <2> QED BY <2>2, <2>3
  <1>2. IInv => ReportedWasCharged
    BY <1>1 DEF ReportedWasCharged
  <1> QED BY <1>2, Inductive, PTL

\* Only a round that failed leaves anything for the bot to process late.
LateIsFailed == \A f \in Faults : f > faults => late[f] = Zero

\* A step keeps ChargedOnce because, while no round has failed, only the post
\* the loop waits for is ever charged, and it is marked before the next one.
LEMMA NextOnce ==
  IInv /\ LateIsFailed /\ ChargedOnce /\ [Next]_vars => LateIsFailed' /\ ChargedOnce'
  <1> SUFFICES ASSUME IInv, LateIsFailed, ChargedOnce, [Next]_vars
               PROVE  LateIsFailed' /\ ChargedOnce'
    OBVIOUS
  <1>0. TypeOK /\ faults \in Nat
    BY BoundsAssumption DEF IInv, TypeOK
  <1>1. CASE \/ \E h \in Handlers, fails \in BOOLEAN : ResolveSettings(h, fails)
             \/ \E h \in Handlers, a \in Admins : BulkIncrementAdminUsage(h, a)
             \/ \E on \in BOOLEAN : SaveSettings(on)
             \/ \E a \in Admins : ResetAdminUsage(a)
             \/ UNCHANGED vars
    <2>1. UNCHANGED <<admins, reported, post, sent, faults, late, charged>>
      BY <1>1 DEF ResolveSettings, BulkIncrementAdminUsage, SaveSettings, ResetAdminUsage, vars,
         settingsVars, nodeVars, queueVars, loopVars
    <2> QED BY <2>1 DEF LateIsFailed, ChargedOnce
  <1>2. ASSUME NEW a \in Admins, DeleteAdmin(a) PROVE LateIsFailed' /\ ChargedOnce'
    BY <1>0, <1>2 DEF DeleteAdmin, loopVars, LateIsFailed, ChargedOnce, TypeOK, Amounts
  <1>3. CASE Tick
    BY <1>0, <1>3 DEF Tick, queueVars, LateIsFailed, ChargedOnce
  <1>4. CASE Mark
    <2>1. LateIsFailed'
      BY <1>4 DEF Mark, LateIsFailed
    <2>2. ASSUME NEW a \in admins', faults' = 0
          PROVE  charged'[a] = reported'[a] + (IF post' = "charged" THEN sent'[a] ELSE 0)
      <3>1. a \in admins /\ a \in Admins
        BY <1>0, <1>4, <2>2 DEF Mark, TypeOK
      <3>2. reported'[a] = reported[a] + sent[a] /\ post' = "none" /\ charged' = charged
        BY <1>4, <3>1 DEF Mark, MarkSent
      <3>3. charged[a] = reported[a] + sent[a]
        BY <1>4, <2>2, <3>1 DEF Mark, Answered, ChargedOnce
      <3>4. reported[a] \in Nat /\ sent[a] \in Nat
        BY <1>0, <3>1 DEF TypeOK, Amounts
      <3> QED BY <3>2, <3>3, <3>4
    <2> QED BY <2>1, <2>2 DEF ChargedOnce
  <1>5. CASE RoundFails
    <2>1. faults' # 0 /\ faults' = faults + 1
      BY <1>0, <1>5 DEF RoundFails
    <2>2. ASSUME NEW f \in Faults, f > faults' PROVE late'[f] = Zero
      <3>1. f \in Int /\ f # faults + 1 /\ f > faults
        BY <1>0, <2>1, <2>2 DEF Faults
      <3>2. late'[f] = late[f]
        BY <1>0, <1>5, <3>1 DEF RoundFails, TypeOK
      <3> QED BY <3>1, <3>2 DEF LateIsFailed
    <2> QED BY <2>1, <2>2 DEF LateIsFailed, ChargedOnce
  <1>6. CASE BotCharges
    <2>1. LateIsFailed'
      BY <1>6 DEF BotCharges, LateIsFailed
    <2>2. \A a \in Admins : charged'[a] = charged[a] + sent[a]
      BY <1>0, <1>6, AddType DEF BotCharges, TypeOK
    <2>3. \A a \in Admins : reported[a] \in Nat /\ sent[a] \in Nat
      BY <1>0 DEF TypeOK, Amounts
    <2>4. \A a \in admins : faults = 0 => charged[a] = reported[a]
      BY <1>0, <1>6, <2>3 DEF BotCharges, ChargedOnce, TypeOK
    <2>5. admins \subseteq Admins
      BY <1>0 DEF TypeOK
    <2> QED BY <1>6, <2>1, <2>2, <2>3, <2>4, <2>5 DEF BotCharges, ChargedOnce, queueVars
  <1>7. ASSUME NEW f \in Faults, NEW lost \in BOOLEAN, BotChargesLate(f, lost)
        PROVE  LateIsFailed' /\ ChargedOnce'
    <2>1. faults # 0
      BY <1>0, <1>7 DEF BotChargesLate, LateIsFailed, Faults
    <2>2. ChargedOnce'
      BY <1>7, <2>1 DEF BotChargesLate, ChargedOnce
    <2>3. LateIsFailed'
      BY <1>0, <1>7 DEF BotChargesLate, LateIsFailed, TypeOK
    <2> QED BY <2>2, <2>3
  <1> QED BY <1>1, <1>2, <1>3, <1>4, <1>5, <1>6, <1>7 DEF Next

\* As long as no round fails after sending, no reseller is charged twice.
THEOREM ChargedOnceTheorem == Spec => []ChargedOnce
  <1>1. Init => LateIsFailed /\ ChargedOnce
    BY ZeroType DEF Init, LateIsFailed, ChargedOnce
  <1> QED BY <1>1, Inductive, NextOnce, PTL DEF Spec

-----------------------------------------------------------------------------
(***************************************************************************)
(* The refinement: each step is a step of the ledger or leaves it alone.   *)
(***************************************************************************)

\* A node report meters one unit of one admin's traffic, or none.
LEMMA ReportRefines ==
  ASSUME IInv, NEW h \in Handlers, NEW a \in Admins, BulkIncrementAdminUsage(h, a)
  PROVE  Ledger!Meter(a) \/ UNCHANGED Ledger!ledger
  <1>1. CASE handler[h] = "queue"
    BY <1>1 DEF BulkIncrementAdminUsage, Ledger!Meter
  <1>2. CASE handler[h] # "queue"
    BY <1>2 DEF BulkIncrementAdminUsage, Ledger!ledger
  <1> QED BY <1>1, <1>2

\* A mark settles: what leaves the queue was in the post that the bot charged,
\* admin by admin, and a row that is gone stays as it is.
LEMMA MarkRefines ==
  ASSUME IInv, Mark
  PROVE  Ledger!Settle
  <1> USE DEF Mark, MarkSent, Answered
  <1>1. ASSUME NEW a \in Admins
        PROVE  /\ pending'[a] + reported'[a] = pending[a] + reported[a]
               /\ reported[a] <= reported'[a] /\ reported'[a] <= charged[a]
    <2>1. /\ pending[a] \in Nat /\ reported[a] \in Nat /\ sent[a] \in Nat /\ charged[a] \in Nat
          /\ reported[a] + (IF a \in admins THEN sent[a] ELSE 0) <= charged[a]
      BY <1>1 DEF IInv, TypeOK, Amounts, Charged
    <2>2. CASE a \in admins
      BY <1>1, <2>1, <2>2
    <2>3. CASE a \notin admins
      BY <1>1, <2>1, <2>3
    <2> QED BY <2>2, <2>3
  <1> QED BY <1>1 DEF Ledger!Settle

\* The bot only ever adds to what it has charged, late posts included.
LEMMA ChargeRefines ==
  ASSUME IInv, BotCharges \/ \E f \in Faults, lost \in BOOLEAN : BotChargesLate(f, lost)
  PROVE  Ledger!Bill
  <1>1. UNCHANGED <<pending, reported>>
    BY DEF BotCharges, BotChargesLate, queueVars
  <1>2. \A a \in Admins : charged'[a] >= charged[a]
    <2>1. CASE BotCharges
      BY <2>1, AddType DEF BotCharges, IInv, TypeOK, Amounts
    <2>2. ASSUME NEW f \in Faults, NEW lost \in BOOLEAN, BotChargesLate(f, lost)
          PROVE  \A a \in Admins : charged'[a] >= charged[a]
      <3>1. late[f] \in Amounts /\ charged \in Amounts
        BY DEF IInv, TypeOK
      <3> QED BY <2>2, <3>1, AddType DEF BotChargesLate, Amounts
    <2> QED BY <2>1, <2>2
  <1> QED BY <1>1, <1>2 DEF Ledger!Bill

\* Every step of the detailed system maps to a step of the ledger or a stutter.
LEMMA NextRefines == IInv /\ [Next]_vars => [Ledger!LedgerNext]_(Ledger!ledger)
  <1> SUFFICES ASSUME IInv, [Next]_vars PROVE [Ledger!LedgerNext]_(Ledger!ledger)
    OBVIOUS
  <1> USE DEF Ledger!LedgerNext
  <1>1. CASE \/ \E h \in Handlers, fails \in BOOLEAN : ResolveSettings(h, fails)
             \/ \E on \in BOOLEAN : SaveSettings(on)
             \/ \E a \in Admins : ResetAdminUsage(a)
             \/ Tick \/ RoundFails \/ UNCHANGED vars
    BY <1>1 DEF ResolveSettings, SaveSettings, ResetAdminUsage, Tick, RoundFails, vars, queueVars, Ledger!ledger
  <1>2. ASSUME NEW h \in Handlers, NEW a \in Admins, BulkIncrementAdminUsage(h, a)
        PROVE  [Ledger!LedgerNext]_(Ledger!ledger)
    BY <1>2, ReportRefines
  <1>3. ASSUME NEW a \in Admins, DeleteAdmin(a) PROVE [Ledger!LedgerNext]_(Ledger!ledger)
    BY <1>3 DEF DeleteAdmin, Ledger!Close
  <1>4. CASE Mark
    BY <1>4, MarkRefines
  <1>5. CASE BotCharges \/ \E f \in Faults, lost \in BOOLEAN : BotChargesLate(f, lost)
    BY <1>5, ChargeRefines
  <1> QED BY <1>1, <1>2, <1>3, <1>4, <1>5 DEF Next

\* The queue, the loop and the bot implement the ledger, for any number of
\* admins, overlapping node reports and failed rounds: traffic leaves the queue
\* only by being settled, and nothing is settled that the bot has not charged.
THEOREM RefinementTheorem == Spec => ImplementsLedger
  <1>1. Init => Ledger!LedgerInit
    BY DEF Init, Zero, Ledger!LedgerInit
  <1>2. QED
    BY <1>1, Inductive, NextRefines, PTL DEF Spec, ImplementsLedger, Ledger!LedgerSpec
=============================================================================
