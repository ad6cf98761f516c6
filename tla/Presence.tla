------------------------------ MODULE Presence ------------------------------
(***************************************************************************)
(* Who is online (internal/httpapi/presence.go).  Nodes list their         *)
(* connected users over the live channel into Redis, where a score ages    *)
(* and a node's keys expire; usage reports stamp online_at in the          *)
(* database.  A page trusts Redis only while every connected node has its  *)
(* live keys there, and falls back to the database otherwise.              *)
(*                                                                         *)
(* Times are ages in ticks of one live interval, each capped where nothing *)
(* tells a larger age apart, so time is unbounded.                         *)
(***************************************************************************)
EXTENDS Integers, FiniteSets

CONSTANTS
    Viewed,      \* users
    LiveNodes,     \* nodes
    Owned,         \* the users of the reseller whose dashboard asks
    Scopes,        \* whose dashboards ask: the fleet's, a reseller's
    Window,        \* presenceOnlineWindow
    KeyTTL,        \* presenceKeyTTL
    NodesTTL,      \* connectedNodesTTL
    DbWindow,      \* onlineWindow
    Retention,     \* presenceRetention
    ReportEvery,   \* the most a node takes from one report to the end of the next
    MaxTurns       \* how often users and nodes come and go

Nowhere == "nowhere"

ASSUME PresenceAssumption ==
    /\ {Window, KeyTTL, NodesTTL, DbWindow, Retention, ReportEvery} \subseteq Nat
    /\ IsFiniteSet(Viewed) /\ Nowhere \notin LiveNodes
    /\ 0 < NodesTTL /\ 0 < Window /\ Window < KeyTTL /\ KeyTTL < DbWindow
    /\ Window < Retention /\ Owned \subseteq Viewed
    /\ Scopes \subseteq {"fleet", "reseller"}

Old == Retention + 1
Never == Retention + DbWindow + 2

\* One who left this long ago is in no window any more.
GoneFor == DbWindow + ReportEvery

VARIABLES
    at,         \* user -> the node it is connected to
    connAge,    \* user -> ticks since it connected or left
    leftAge,    \* node -> user -> ticks since it left that node
    listed,     \* user -> age of its score in presence:users, Never when absent
    stamped,    \* user -> age of users.online_at
    keyAge,     \* node -> age of its live keys, KeyTTL when they are gone
    chan,       \* node -> [up, age]: the live channel works, and since when
    status,     \* node -> [connected, age]: its row, and since when
    known,      \* liveNodes: [ids, age] of the remembered connected nodes
    counted,    \* scope -> [n, fresh]: the remembered online counts
    turns,      \* comings and goings so far
    page        \* the last answer: [user, online] or a count

presVars == <<at, connAge, leftAge, listed, stamped, keyAge, chan, status, known, counted, turns, page>>

Turn == turns < MaxTurns /\ turns' = turns + 1
AgeCap(a, top) == IF a < top THEN a + 1 ELSE top
ScopeUsers(s) == IF s = "fleet" THEN Viewed ELSE Owned
NoPage == [kind |-> "none"]

-----------------------------------------------------------------------------
(* Nodes and users                                                         *)

Connect(u, n) ==
    /\ Turn
    /\ at[u] = Nowhere
    /\ at' = [at EXCEPT ![u] = n]
    /\ connAge' = [connAge EXCEPT ![u] = 0]
    /\ page' = NoPage
    /\ UNCHANGED <<leftAge, listed, stamped, keyAge, chan, status, known, counted>>

Leave(u) ==
    /\ Turn
    /\ at[u] # Nowhere
    /\ leftAge' = [leftAge EXCEPT ![at[u]][u] = 0]
    /\ at' = [at EXCEPT ![u] = Nowhere]
    /\ connAge' = [connAge EXCEPT ![u] = 0]
    /\ page' = NoPage
    /\ UNCHANGED <<listed, stamped, keyAge, chan, status, known, counted>>

\* handleNodeLive: one transaction scores the node's users and renews its keys.
\* A node whose channel works sends it every tick.
LiveUsers == {u \in Viewed : at[u] # Nowhere /\ chan[at[u]].up}

\* The users a report can have bytes of: the node drains its counters for every
\* report, so they are connected or left after the one before.
Reportable(n) == {u \in Viewed : at[u] = n \/ leftAge[n][u] <= ReportEvery}

\* handleNodeReport: the users that moved bytes are stamped, also those who have
\* left meanwhile; the node is connected unless an admin disabled it.
NodeReport(n) ==
    /\ \E moved \in SUBSET Reportable(n) :
          stamped' = [u \in Viewed |-> IF u \in moved THEN 0 ELSE stamped[u]]
    /\ status' = [status EXCEPT ![n] = IF @.connected THEN @ ELSE [connected |-> TRUE, age |-> 0]]
    /\ page' = NoPage
    /\ UNCHANGED <<at, connAge, leftAge, listed, keyAge, chan, known, counted, turns>>

\* An admin takes the node out of service.
DisableNode(n) ==
    /\ Turn
    /\ status[n].connected
    /\ status' = [status EXCEPT ![n] = [connected |-> FALSE, age |-> 0]]
    /\ page' = NoPage
    /\ UNCHANGED <<at, connAge, leftAge, listed, stamped, keyAge, chan, known, counted>>

\* The live channel breaks (an old build, a lost route) or comes back.
ChannelTurns(n) ==
    /\ Turn
    /\ chan' = [chan EXCEPT ![n] = [up |-> ~@.up, age |-> 0]]
    /\ page' = NoPage
    /\ UNCHANGED <<at, connAge, leftAge, listed, stamped, keyAge, status, known, counted>>

\* A tick: ages grow, and every node with a channel sends its live report.
Pass ==
    /\ connAge' = [u \in Viewed |-> AgeCap(connAge[u], GoneFor + 1)]
    /\ leftAge' = [n \in LiveNodes |-> [u \in Viewed |-> AgeCap(leftAge[n][u], ReportEvery + 1)]]
    /\ listed' = [u \in Viewed |-> IF u \in LiveUsers THEN 0
                                     ELSE IF listed[u] = Never THEN Never ELSE AgeCap(listed[u], Old)]
    /\ stamped' = [u \in Viewed |-> IF stamped[u] = Never THEN Never ELSE AgeCap(stamped[u], DbWindow + 1)]
    /\ keyAge' = [n \in LiveNodes |-> IF chan[n].up THEN 0 ELSE AgeCap(keyAge[n], KeyTTL)]
    /\ chan' = [n \in LiveNodes |-> [chan[n] EXCEPT !.age = AgeCap(@, KeyTTL)]]
    /\ status' = [n \in LiveNodes |-> [status[n] EXCEPT !.age = AgeCap(@, NodesTTL)]]
    /\ known' = [known EXCEPT !.age = AgeCap(@, NodesTTL)]
    /\ counted' = [s \in Scopes |-> [counted[s] EXCEPT !.fresh = FALSE]]
    /\ page' = NoPage
    /\ UNCHANGED <<at, turns>>

\* RunPresenceTrim.
PresenceTrim ==
    /\ \E u \in Viewed : listed[u] = Old
    /\ listed' = [u \in Viewed |-> IF listed[u] = Old THEN Never ELSE listed[u]]
    /\ page' = NoPage
    /\ UNCHANGED <<at, connAge, leftAge, stamped, keyAge, chan, status, known, counted, turns>>

-----------------------------------------------------------------------------
(* Pages                                                                   *)

\* connectedNodeIDs: read at most once per connectedNodesTTL; an error keeps the last answer.
ConnectedNow == {n \in LiveNodes : status[n].connected}
Known(readable) ==
    IF known.age < NodesTTL \/ ~readable THEN known ELSE [ids |-> ConnectedNow, age |-> 0]

\* Fault: any node's report makes presence authoritative.
AnyNodeLive(ids) == \E n \in LiveNodes : keyAge[n] < KeyTTL

\* presence:live, and the live total of every connected node.
Authoritative(ids) ==
    /\ \E n \in LiveNodes : keyAge[n] < KeyTTL
    /\ \A n \in ids : keyAge[n] < KeyTTL

InWindow(u) == listed[u] <= Window
InDbWindow(u) == stamped[u] <= DbWindow

\* userStatus; Redis trouble is the empty view.
UserStatus(u, ids, redis) ==
    IF redis /\ Authoritative(ids) THEN InWindow(u) ELSE InDbWindow(u)

\* The user list: one pipelined read for the page, after the list of nodes.
LookAt(u) ==
    \E readable, redis \in BOOLEAN :
       /\ known' = Known(readable)
       /\ page' = [kind |-> "user", user |-> u, current |-> Known(readable).age < NodesTTL,
                   online |-> UserStatus(u, Known(readable).ids, redis)]
       /\ UNCHANGED <<at, connAge, leftAge, listed, stamped, keyAge, chan, status, counted, turns>>

\* presenceOnlineCount, or the database's count.
OnlineCount(s, ids, redis) ==
    Cardinality({u \in ScopeUsers(s) : UserStatus(u, ids, redis)})

\* onlineUsersCount, remembered for onlineCountTTL (less than a tick).
Count(s) ==
    IF counted[s].fresh
      THEN /\ page' = [kind |-> "count", scope |-> s, n |-> counted[s].n]
           /\ UNCHANGED <<at, connAge, leftAge, listed, stamped, keyAge, chan, status, known, counted, turns>>
      ELSE \E readable, redis \in BOOLEAN :
           LET n == OnlineCount(s, Known(readable).ids, redis)
           IN /\ known' = Known(readable)
              /\ counted' = [counted EXCEPT ![s] = [n |-> n, fresh |-> TRUE]]
              /\ page' = [kind |-> "count", scope |-> s, n |-> n]
              /\ UNCHANGED <<at, connAge, leftAge, listed, stamped, keyAge, chan, status, turns>>

PresInit ==
    /\ at = [u \in Viewed |-> Nowhere]
    /\ connAge = [u \in Viewed |-> GoneFor + 1]
    /\ leftAge = [n \in LiveNodes |-> [u \in Viewed |-> ReportEvery + 1]]
    /\ listed = [u \in Viewed |-> Never]
    /\ stamped = [u \in Viewed |-> Never]
    /\ keyAge = [n \in LiveNodes |-> KeyTTL]
    /\ chan \in [LiveNodes -> {[up |-> b, age |-> KeyTTL] : b \in BOOLEAN}]
    /\ status = [n \in LiveNodes |-> [connected |-> FALSE, age |-> NodesTTL]]
    /\ known = [ids |-> {}, age |-> NodesTTL]
    /\ counted = [s \in Scopes |-> [n |-> 0, fresh |-> FALSE]]
    /\ turns = 0
    /\ page = NoPage

PresNext ==
    \/ \E u \in Viewed : Leave(u) \/ LookAt(u) \/ \E n \in LiveNodes : Connect(u, n)
    \/ \E n \in LiveNodes : NodeReport(n) \/ DisableNode(n) \/ ChannelTurns(n)
    \/ \E s \in Scopes : Count(s)
    \/ PresenceTrim
    \/ Pass

PresSpec == PresInit /\ [][PresNext]_presVars

-----------------------------------------------------------------------------
PresTypeOK ==
    /\ at \in [Viewed -> LiveNodes \cup {Nowhere}]
    /\ \A u \in Viewed : connAge[u] \in 0..(GoneFor + 1) /\ listed[u] \in 0..Never /\ stamped[u] \in 0..Never
    /\ \A n \in LiveNodes : keyAge[n] \in 0..KeyTTL /\ chan[n].age \in 0..KeyTTL /\ status[n].age \in 0..NodesTTL
    /\ \A n \in LiveNodes, u \in Viewed : leftAge[n][u] \in 0..(ReportEvery + 1)
    /\ known.ids \subseteq LiveNodes /\ known.age \in 0..NodesTTL
    /\ \A s \in Scopes : counted[s].n \in 0..Cardinality(ScopeUsers(s))

\* The node has been connected for as long as the list of nodes is remembered, and
\* its channel has worked, or not, for as long as its keys live.
Settled(n) == status[n].connected /\ status[n].age >= NodesTTL /\ chan[n].age >= KeyTTL

SurelyOnline(u) ==
    at[u] # Nowhere /\ Settled(at[u]) /\ connAge[u] >= 1 /\ InDbWindow(u)

SurelyOffline(u) == at[u] = Nowhere /\ connAge[u] > GoneFor

\* A user with an open connection on a settled node, whose bytes were reported
\* lately, is shown online, whatever the other nodes' live channels do ("any
\* missing node sends the caller back to the database"), unless the nodes could not
\* be read and an older list of them was used; one who left is not shown online
\* for longer than onlineWindow from the last report that can still bring its bytes
\* (userStatus, onlineUsersCount, BulkIncrementUserUsage).
OnlineIsTrue ==
    /\ page.kind = "user" =>
          /\ SurelyOnline(page.user) /\ page.current => page.online
          /\ SurelyOffline(page.user) => ~page.online
    /\ page.kind = "count" =>
          Cardinality({u \in ScopeUsers(page.scope) : SurelyOffline(u)}) + page.n
             <= Cardinality(ScopeUsers(page.scope))

\* What pages say of who is online, and of how many (presence.go).
PresenceIsSound == PresTypeOK /\ OnlineIsTrue
=============================================================================
