---------------------------- MODULE ConnTracking ----------------------------
(***************************************************************************)
(* How a node follows the client connections of its cores: the presence    *)
(* counters of internal/nodecore/traffic/presence.go, which outlive every  *)
(* core, and the ConnGroup of conngroup.go, one per core, which ends what  *)
(* the core accepted.  The inbound handler of every protocol tracks a      *)
(* connection in both and the router calls its onClose, possibly twice,    *)
(* while stopNodeLocked closes the core and starts a fresh generation of   *)
(* counters at any point in between.                                       *)
(*                                                                         *)
(* Each atomic add, compare-and-swap and critical section is one step.     *)
(***************************************************************************)
EXTENDS Integers, FiniteSets

CONSTANTS
    Conns,      \* the client connections, each accepted at most once
    UserOf,     \* the user a connection authenticates as
    PortOf,     \* the listening port it arrived on, NoPort when unknown
    Carriers,   \* those carrying a multiplexed session, which no router relays
    Total,      \* the key of a generation's total counter
    NoPort,
    MaxCores    \* how many cores the agent starts

ASSUME ConnsAssumption == IsFiniteSet(Conns)
ASSUME CoresAssumption == MaxCores \in Nat

\* What one connection is counted under, besides the total.
Keys == {UserOf[c] : c \in Conns} \cup {PortOf[c] : c \in Conns} \cup {Total}

Gens == 0 .. MaxCores

VARIABLES
    core,      \* how many cores have been started; the last one is current
    stage,     \* "none", "running", "boxClosed" or "groupClosed"
    presence,  \* the current generation of counters
    count,     \* the counters: [Gens -> [Keys -> Int]]
    closed,    \* the cores whose ConnGroup is closed
    held,      \* the connections their core's ConnGroup holds
    closing,   \* the connections CloseAll took and has still to close
    phase,     \* what each connection's goroutines have got to
    owner,     \* the core that accepted it, 0 before that
    gen,       \* the generation its counts are in
    counted,   \* the keys it is counted under just now
    open       \* whether its socket is open

coreVars == <<core, stage, presence>>
groupVars == <<closed, held, closing>>
connVars == <<phase, owner, gen, counted, open>>
trackVars == <<coreVars, groupVars, connVars, count>>

-----------------------------------------------------------------------------
TrackInit ==
    /\ core = 0
    /\ stage = "none"
    /\ presence = 0
    /\ count = [g \in Gens |-> [k \in Keys |-> 0]]
    /\ closed = {}
    /\ held = {}
    /\ closing = {}
    /\ phase = [c \in Conns |-> "new"]
    /\ owner = [c \in Conns |-> 0]
    /\ gen = [c \in Conns |-> 0]
    /\ counted = [c \in Conns |-> {}]
    /\ open = [c \in Conns |-> TRUE]

\* The order in which OpenConn adds and its close func subtracts.
KeyAt(c, step) ==
    CASE step = 1 -> UserOf[c]
      [] step = 2 -> PortOf[c]
      [] step = 3 -> Total

ConnKeys(c) == {UserOf[c], PortOf[c], Total} \ {NoPort}

Add(g, key, n) == count' = [count EXCEPT ![g][key] = @ + n]

Becomes(c, ph) == phase' = [phase EXCEPT ![c] = ph]

-----------------------------------------------------------------------------
(***************************************************************************)
(* The inbound handler.                                                    *)
(***************************************************************************)

\* A listener of the running core accepts the connection.
Accept(c) ==
    /\ phase[c] = "new"
    /\ stage = "running"
    /\ Becomes(c, "handshake")
    /\ owner' = [owner EXCEPT ![c] = core]
    /\ UNCHANGED <<coreVars, groupVars, gen, counted, open, count>>

\* Authentication fails: the connection never reaches the code that counts.
HandshakeFails(c) ==
    /\ phase[c] = "handshake"
    /\ Becomes(c, "done")
    /\ open' = [open EXCEPT ![c] = FALSE]
    /\ UNCHANGED <<coreVars, groupVars, owner, gen, counted, count>>

\* Fault: Hold does not look at closed.
HoldAlways(c) == held' = held \cup {c} /\ UNCHANGED open

\* ConnGroup.Hold: a group that is already closed closes the connection instead.
Hold(c) ==
    IF owner[c] \in closed
      THEN open' = [open EXCEPT ![c] = FALSE] /\ UNCHANGED held
      ELSE held' = held \cup {c} /\ UNCHANGED open

Track(c) ==
    /\ phase[c] = "handshake"
    /\ Becomes(c, "tracked")
    /\ Hold(c)
    /\ UNCHANGED <<coreVars, closed, closing, owner, gen, counted, count>>

\* Any connection may turn out to be a packet one.  newPacketConnectionEx tracks
\* and routes it, but opens no presence count.
RoutePacket(c) ==
    /\ phase[c] = "tracked"
    /\ Becomes(c, "open")
    /\ UNCHANGED <<coreVars, groupVars, owner, gen, counted, open, count>>

\* OpenConn picks the generation of counters it and its close func will use.
OpenConn(c) ==
    /\ phase[c] = "tracked"
    /\ Becomes(c, "counting")
    /\ gen' = [gen EXCEPT ![c] = presence]
    /\ UNCHANGED <<coreVars, groupVars, owner, counted, open, count>>

\* One of its atomic adds; with the last one the connection is routed.
CountOne(c, step) ==
    /\ phase[c] = "counting"
    /\ KeyAt(c, step) \in ConnKeys(c) \ counted[c]
    /\ \A earlier \in 1 .. step - 1 : KeyAt(c, earlier) \in counted[c] \cup {NoPort}
    /\ Add(gen[c], KeyAt(c, step), 1)
    /\ counted' = [counted EXCEPT ![c] = @ \cup {KeyAt(c, step)}]
    /\ Becomes(c, IF step = 3 THEN "open" ELSE "counting")
    /\ UNCHANGED <<coreVars, groupVars, owner, gen, open>>

\* What ends a routed connection for sure: a closed socket, and the closed
\* router for what it relays; a carrier only ends when its own socket does.
Ends(c) ==
    \/ ~ open[c]
    \/ /\ owner[c] < core \/ stage # "running"
       /\ c \notin Carriers

\* The first call of onClose wins the compare-and-swap of the close func.
OnClose(c) ==
    /\ phase[c] = "open"
    /\ Becomes(c, "ending")
    /\ open' = [open EXCEPT ![c] = FALSE]
    /\ UNCHANGED <<coreVars, groupVars, owner, gen, counted, count>>

\* Fault: the close func subtracts from the current generation.
UncountCurrent(c, key) == Add(presence, key, -1)

\* The close func subtracts from the generation it opened in.
Uncount(c, key) == Add(gen[c], key, -1)

\* Fault: the close func returns early for a connection without a known port.
UncountOneKnownPort(c, step) ==
    /\ phase[c] = "ending"
    /\ KeyAt(c, step) \in counted[c]
    /\ \A earlier \in 1 .. step - 1 : KeyAt(c, earlier) \notin counted[c]
    /\ step = 3 => PortOf[c] # NoPort
    /\ Uncount(c, KeyAt(c, step))
    /\ counted' = [counted EXCEPT ![c] = @ \ {KeyAt(c, step)}]
    /\ UNCHANGED <<coreVars, groupVars, phase, owner, gen, open>>

UncountOne(c, step) ==
    /\ phase[c] = "ending"
    /\ KeyAt(c, step) \in counted[c]
    /\ \A earlier \in 1 .. step - 1 : KeyAt(c, earlier) \notin counted[c]
    /\ Uncount(c, KeyAt(c, step))
    /\ counted' = [counted EXCEPT ![c] = @ \ {KeyAt(c, step)}]
    /\ UNCHANGED <<coreVars, groupVars, phase, owner, gen, open>>

\* The chained release: the group forgets the connection.
Release(c) ==
    /\ phase[c] = "ending"
    /\ counted[c] = {}
    /\ held' = held \ {c}
    /\ Becomes(c, "done")
    /\ UNCHANGED <<coreVars, closed, closing, owner, gen, counted, open, count>>

\* A second delivery of onClose loses the compare-and-swap and only releases,
\* which is idempotent; it may overtake the first one's subtractions.
OnCloseAgain(c) ==
    /\ phase[c] \in {"ending", "done"}
    /\ c \in held
    /\ held' = held \ {c}
    /\ UNCHANGED <<coreVars, closed, closing, connVars, count>>

-----------------------------------------------------------------------------
(***************************************************************************)
(* The core: startNodeLocked and stopNodeLocked, under server.mu.          *)
(***************************************************************************)
StartCore ==
    /\ stage = "none"
    /\ core < MaxCores
    /\ core' = core + 1
    /\ stage' = "running"
    /\ UNCHANGED <<presence, groupVars, connVars, count>>

\* Node.Close: the listeners and the router stop.
CloseBox ==
    /\ stage = "running"
    /\ stage' = "boxClosed"
    /\ UNCHANGED <<core, presence, groupVars, connVars, count>>

\* ConnGroup.CloseAll's critical section: closed, copy and clear.
CloseAll ==
    /\ stage = "boxClosed"
    /\ stage' = "groupClosed"
    /\ closed' = closed \cup {core}
    /\ closing' = closing \cup {c \in held : owner[c] = core}
    /\ held' = {c \in held : owner[c] # core}
    /\ UNCHANGED <<core, presence, connVars, count>>

\* A worker of CloseAll closes one connection.  CloseAll waits closeWait for
\* them at most, so this may come after the rest of stopNodeLocked.
CloseWorker(c) ==
    /\ c \in closing
    /\ closing' = closing \ {c}
    /\ open' = [open EXCEPT ![c] = FALSE]
    /\ UNCHANGED <<coreVars, closed, held, phase, owner, gen, counted, count>>

\* Fault: node is not set to nil, so it can be closed and reset once more.
ResetPresenceAgain ==
    /\ stage = "groupClosed"
    /\ presence' = presence + 1
    /\ UNCHANGED <<core, stage, groupVars, connVars, count>>

\* The end of stopNodeLocked: node is nil, ResetPresence.
ResetPresence ==
    /\ stage = "groupClosed"
    /\ stage' = "none"
    /\ presence' = presence + 1
    /\ UNCHANGED <<core, groupVars, connVars, count>>

-----------------------------------------------------------------------------
ConnStep(c) ==
    \/ Accept(c)
    \/ HandshakeFails(c)
    \/ Track(c)
    \/ RoutePacket(c)
    \/ OpenConn(c)
    \/ \E step \in 1 .. 3 : CountOne(c, step)
    \/ OnClose(c)
    \/ \E step \in 1 .. 3 : UncountOne(c, step)
    \/ Release(c)
    \/ OnCloseAgain(c)
    \/ CloseWorker(c)

CoreStep == StartCore \/ CloseBox \/ CloseAll \/ ResetPresence

TrackNext == CoreStep \/ \E c \in Conns : ConnStep(c)

TrackSpec == TrackInit /\ [][TrackNext]_trackVars

\* What the connection's goroutine does next once the handshake is over; the
\* router calls onClose for every way a connection ends, and a close once begun
\* goes through.  A handshake waits for the client, with no deadline.
GoOn(c) ==
    \/ OpenConn(c) \/ RoutePacket(c)
    \/ \E step \in 1 .. 3 : CountOne(c, step) \/ UncountOne(c, step)
    \/ Ends(c) /\ OnClose(c)
    \/ Release(c)

\* Goroutines run.  A client need not ever leave, nor finish its handshake.
TrackFairness ==
    /\ WF_trackVars(CloseAll) /\ WF_trackVars(ResetPresence)
    /\ \A c \in Conns : WF_trackVars(GoOn(c)) /\ WF_trackVars(CloseWorker(c))

TrackFairSpec == TrackSpec /\ TrackFairness

-----------------------------------------------------------------------------
(***************************************************************************)
(* Properties.                                                             *)
(***************************************************************************)
Phases == {"new", "handshake", "tracked", "counting", "open", "ending", "done"}

\* The values the manager, the groups and the goroutines can hold.
TrackTypeOK ==
    /\ core \in Gens
    /\ stage \in {"none", "running", "boxClosed", "groupClosed"}
    /\ presence \in Gens
    /\ count \in [Gens -> [Keys -> Int]]
    /\ closed \subseteq Gens
    /\ held \subseteq Conns
    /\ closing \subseteq Conns
    /\ phase \in [Conns -> Phases]
    /\ owner \in [Conns -> Gens]
    /\ gen \in [Conns -> Gens]
    /\ counted \in [Conns -> SUBSET Keys]
    /\ open \in [Conns -> BOOLEAN]

\* The connections counted under key in generation g.
Counted(g, key) == {c \in Conns : gen[c] = g /\ key \in counted[c]}

\* Every counter of every generation is exactly the number of connections
\* that are counted in it: a close delivered twice, a close that arrives after
\* its core was replaced and a connection that opens while the counters are
\* replaced can neither leave a count behind nor drive one below zero.
CountsAreExact ==
    \A g \in Gens, key \in Keys : count[g][key] = Cardinality(Counted(g, key))

\* "A connection whose handshake finishes after its core was closed is refused
\* at once instead of joining the next generation": no connection of a core
\* whose group is closed is left with an open socket nobody is closing.
NoneOutlivesItsCore ==
    \A c \in Conns :
        owner[c] \in closed /\ phase[c] \in {"tracked", "counting", "open"} =>
            c \in closing \/ ~ open[c]

\* A closed core is forgotten completely: every connection it accepted that got
\* past its handshake, be it after the close, ends and leaves its counters and
\* its group, multiplexed carriers included.
ClosedCoreDrains ==
    \A c \in Conns :
        owner[c] \in closed /\ phase[c] # "handshake" ~>
            phase[c] = "done" /\ counted[c] = {} /\ c \notin held
=============================================================================
