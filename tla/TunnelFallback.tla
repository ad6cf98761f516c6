---------------------------- MODULE TunnelFallback ----------------------------
(***************************************************************************)
(* How a node keeps its WireGuard exits working: tunnelhealth.Monitor      *)
(* probes every tracked tunnel in rounds and turns the results into a      *)
(* verdict with hysteresis, and nodecore.Supervisor, one per core, points  *)
(* each fallback group's selector at the tunnel or at the default route.   *)
(* The two run on their own tickers while the core is stopped and started, *)
(* which takes the watched interfaces away and gives them back.            *)
(*                                                                         *)
(* A round is: take the names, probe them all at once, record each result  *)
(* as it comes, forget every other tunnel.  Streaks are capped where a     *)
(* longer one makes no difference.                                         *)
(***************************************************************************)
EXTENDS Naturals, Sequences, SequencesExt

CONSTANTS
    Tunnels,
    NGroups,     \* the fallback groups of the config, in their order
    IfaceOf,     \* the interface each of them is bound to
    DownAfter, UpAfter,
    MaxRestarts  \* how often the core is stopped

ASSUME StreaksAssumption == DownAfter \in Nat \ {0} /\ UpAfter \in Nat \ {0}
ASSUME RestartsAssumption == MaxRestarts \in Nat
ASSUME GroupsAssumption == NGroups \in Nat /\ IfaceOf \in [1 .. NGroups -> Tunnels]

Groups == 1 .. NGroups
Results == {"ok", "fail", "missing"}

VARIABLES
    configured, \* the tunnels this host is configured for; it never changes
    world,    \* what a probe of each tunnel would find right now
    watched,  \* Monitor.watched
    known,    \* the tunnels Monitor.entries has
    up,       \* their verdicts
    okStreak, failStreak,
    busy,     \* whether a round is under way
    names,    \* the tunnels it covers
    left,     \* those not recorded yet
    probed,   \* the results that are in, [tunnel |-> result] pairs
    history,  \* the last results recorded since the agent started
    running,  \* whether a core and its supervisor run
    restarts,
    pos,      \* the group the pass of Reconcile is at, 0 between passes
    want,     \* what it has decided for it
    selected, \* what each selector routes to
    active    \* Supervisor.active

monitorVars == <<watched, known, up, okStreak, failStreak>>
roundVars == <<busy, names, left, probed>>
coreVars == <<running, restarts, pos, want, selected, active>>
tunnelVars == <<configured, world, monitorVars, roundVars, history, coreVars>>

TunnelInit ==
    /\ configured \in SUBSET Tunnels
    /\ world \in [Tunnels -> Results]
    /\ watched = {}
    /\ known = {}
    /\ up = [t \in Tunnels |-> FALSE]
    /\ okStreak = [t \in Tunnels |-> 0]
    /\ failStreak = [t \in Tunnels |-> 0]
    /\ busy = FALSE
    /\ names = {}
    /\ left = {}
    /\ probed = {}
    /\ history = [t \in Tunnels |-> <<>>]
    /\ running = FALSE
    /\ restarts = 0
    /\ pos = 0
    /\ want = "none"
    /\ selected = [g \in Groups |-> "primary"]
    /\ active = [g \in Groups |-> FALSE]

\* The tunnel, its peer or its interface comes and goes.
WorldChanges(t) ==
    /\ \E r \in Results \ {world[t]} : world' = [world EXCEPT ![t] = r]
    /\ UNCHANGED <<configured, monitorVars, roundVars, history, coreVars>>

-----------------------------------------------------------------------------
(***************************************************************************)
(* Monitor.Tick.                                                           *)
(***************************************************************************)

\* hostmetrics.TunnelNames: the configured tunnels and those that exist.
Discover == configured \cup {t \in Tunnels : world[t] # "missing"}

\* The round begins with trackedNames.
TickBegins ==
    /\ ~ busy
    /\ busy' = TRUE
    /\ names' = Discover \cup watched
    /\ left' = names'
    /\ UNCHANGED <<configured, world, monitorVars, probed, history, coreVars>>

\* A probe of the round returns; each in a goroutine of its own.
Probe(t) ==
    /\ t \in left
    /\ \A p \in probed : p[1] # t
    /\ probed' = probed \cup {<<t, world[t]>>}
    /\ UNCHANGED <<configured, world, monitorVars, busy, names, left, history, coreVars>>

AtMost(n, cap) == IF n > cap THEN cap ELSE n

\* Fault: a failed probe does not end the run of good ones.
OkStreakKept(t, result) == AtMost(okStreak[t] + (IF result = "ok" THEN 1 ELSE 0), UpAfter)

OkStreakAfter(t, result) ==
    IF result # "ok" THEN 0
    ELSE IF t \in known THEN AtMost(okStreak[t] + 1, UpAfter) ELSE 1

FailStreakAfter(t, result) ==
    IF result = "ok" THEN 0
    ELSE IF t \in known THEN AtMost(failStreak[t] + 1, DownAfter) ELSE 1

\* Fault: a missing interface is a failed probe like any other.
VerdictPatient(t, result) ==
    IF result = "ok"
      THEN t \notin known \/ up[t] \/ OkStreakAfter(t, result) >= UpAfter
      ELSE t \in known /\ up[t] /\ FailStreakAfter(t, result) < DownAfter

\* record: the first result decides at once, a missing interface is down at
\* once, and otherwise only a long enough run of results turns the verdict.
VerdictAfter(t, result) ==
    IF result = "ok"
      THEN t \notin known \/ up[t] \/ OkStreakAfter(t, result) >= UpAfter
      ELSE /\ t \in known /\ result # "missing"
           /\ up[t] /\ FailStreakAfter(t, result) < DownAfter

Record(t, result) ==
    /\ <<t, result>> \in probed
    /\ probed' = probed \ {<<t, result>>}
    /\ left' = left \ {t}
    /\ known' = known \cup {t}
    /\ up' = [up EXCEPT ![t] = VerdictAfter(t, result)]
    /\ okStreak' = [okStreak EXCEPT ![t] = OkStreakAfter(t, result)]
    /\ failStreak' = [failStreak EXCEPT ![t] = FailStreakAfter(t, result)]
    /\ history' = [history EXCEPT ![t] =
                     IF Len(@) <= UpAfter \/ Len(@) <= DownAfter THEN Append(@, result)
                     ELSE Append(Tail(@), result)]
    /\ UNCHANGED <<configured, world, watched, busy, names, coreVars>>

\* The end of Tick deletes the entries the round did not cover.
TickEnds ==
    /\ busy
    /\ left = {}
    /\ busy' = FALSE
    /\ known' = known \cap names
    /\ names' = {}
    /\ UNCHANGED <<configured, world, watched, up, okStreak, failStreak, left, probed, history, coreVars>>

-----------------------------------------------------------------------------
(***************************************************************************)
(* The core and its supervisor.                                            *)
(***************************************************************************)

\* startNodeLocked: fresh selectors at their default, the tunnel; then Watch.
StartCore ==
    /\ ~ running
    /\ running' = TRUE
    /\ watched' = {IfaceOf[g] : g \in Groups}
    /\ selected' = [g \in Groups |-> "primary"]
    /\ active' = [g \in Groups |-> FALSE]
    /\ UNCHANGED <<configured, world, known, up, okStreak, failStreak, roundVars, history, restarts, pos, want>>

\* Fault: the pass of the old supervisor goes on with the new core.
StopKeepsPass == UNCHANGED <<pos, want>>

\* supCancel: whatever the old supervisor still does, it does to its own core.
StopPass == pos' = 0 /\ want' = "none"

\* stopNodeLocked: Watch(nil), and the core closes.
StopCore ==
    /\ running
    /\ restarts < MaxRestarts
    /\ restarts' = restarts + 1
    /\ running' = FALSE
    /\ watched' = {}
    /\ StopPass
    /\ UNCHANGED <<configured, world, known, up, okStreak, failStreak, roundVars, history, selected, active>>

\* Monitor.Up: a tunnel without an entry counts as up.
Up(t) == t \in known => up[t]

\* Fault: a group on the fallback is left there.
WantedSticky(g) ==
    IF Up(IfaceOf[g]) /\ selected[g] = "primary" THEN "primary" ELSE "fallback"

Wanted(g) == IF Up(IfaceOf[g]) THEN "primary" ELSE "fallback"

\* Run starts a pass over the groups.
ReconcileBegins ==
    /\ running
    /\ pos = 0
    /\ NGroups > 0
    /\ pos' = 1
    /\ UNCHANGED <<configured, world, monitorVars, roundVars, history, running, restarts, want, selected, active>>

\* Reconcile asks for the health of the group's tunnel ...
Decide ==
    /\ pos # 0
    /\ want = "none"
    /\ want' = Wanted(pos)
    /\ UNCHANGED <<configured, world, monitorVars, roundVars, history, running, restarts, pos, selected, active>>

\* ... and then moves the selector and notes it, whatever changed meanwhile.
Switch ==
    /\ want # "none"
    /\ selected' = [selected EXCEPT ![pos] = want]
    /\ active' = [active EXCEPT ![pos] = (want = "fallback")]
    /\ want' = "none"
    /\ pos' = IF pos = NGroups THEN 0 ELSE pos + 1
    /\ UNCHANGED <<configured, world, monitorVars, roundVars, history, running, restarts>>

-----------------------------------------------------------------------------
TunnelNext ==
    \/ \E t \in Tunnels : WorldChanges(t) \/ Probe(t)
    \/ \E t \in Tunnels, result \in Results : Record(t, result)
    \/ TickBegins
    \/ TickEnds
    \/ StartCore
    \/ StopCore
    \/ ReconcileBegins
    \/ Decide
    \/ Switch

TunnelSpec == TunnelInit /\ [][TunnelNext]_tunnelVars

\* Both tickers fire for ever, every probe returns within ProbeTimeout, and a
\* pass of Reconcile never waits.
TunnelFairSpec ==
    /\ TunnelSpec
    /\ WF_tunnelVars(TickBegins) /\ WF_tunnelVars(TickEnds)
    /\ \A t \in Tunnels : WF_tunnelVars(Probe(t)) /\ WF_tunnelVars(\E r \in Results : Record(t, r))
    /\ WF_tunnelVars(ReconcileBegins) /\ WF_tunnelVars(Decide) /\ WF_tunnelVars(Switch)

-----------------------------------------------------------------------------
(***************************************************************************)
(* Properties.                                                             *)
(***************************************************************************)

\* The values of the monitor's and the supervisor's fields; without a core
\* there is no pass.
TunnelTypeOK ==
    /\ configured \subseteq Tunnels
    /\ world \in [Tunnels -> Results]
    /\ watched \subseteq Tunnels
    /\ known \subseteq Tunnels
    /\ up \in [Tunnels -> BOOLEAN]
    /\ okStreak \in [Tunnels -> 0 .. UpAfter]
    /\ failStreak \in [Tunnels -> 0 .. DownAfter]
    /\ busy \in BOOLEAN
    /\ names \subseteq (IF busy THEN Tunnels ELSE {})
    /\ left \subseteq names
    /\ probed \subseteq left \X Results
    /\ running \in BOOLEAN
    /\ restarts \in 0 .. MaxRestarts
    /\ pos \in 0 .. (IF running THEN NGroups ELSE 0)
    /\ want \in {"none", "primary", "fallback"}
    /\ selected \in [Groups -> {"primary", "fallback"}]
    /\ active \in [Groups -> BOOLEAN]

\* The last n results of a tunnel are all in the set.
LastAre(t, n, results) ==
    Len(history[t]) >= n /\ \A i \in Len(history[t]) - n + 1 .. Len(history[t]) :
        history[t][i] \in results

\* "UpAfter is how many consecutive good rounds turn a down tunnel up", "a
\* single dropped probe must not move users", "a missing interface is down at
\* once": after its first probe the verdict of a tunnel the host is configured
\* for only turns with the results that were recorded for it, across any number
\* of core restarts.
VerdictIsEarned ==
    [][\A t \in configured :
         /\ ~ Up(t) /\ Up(t)' => LastAre(t, UpAfter, {"ok"})'
         /\ Up(t) /\ ~ Up(t)' =>
               \/ LastAre(t, DownAfter, {"fail", "missing"})'
               \/ LastAre(t, 1, {"missing"})'
               \/ Len(history'[t]) = 1]_tunnelVars

\* "A missing interface is down at once", and only a tunnel "that has never
\* been probed counts as up": Reconcile never chooses a tunnel whose interface
\* was missing when it was last probed, if the host is configured for it.
MissingIsDown ==
    [][want = "none" /\ want' = "primary" /\ IfaceOf[pos] \in configured =>
        ~ LastAre(IfaceOf[pos], 1, {"missing"})]_tunnelVars

\* Every exit ends up where its tunnel says: over the tunnel when that stays
\* healthy, over the default route when it stays dead, whatever restarts the
\* rounds and the passes ran into before.
FollowsTheTunnel ==
    \A g \in Groups :
        /\ <>[](running /\ world[IfaceOf[g]] = "ok") => <>[](selected[g] = "primary")
        /\ <>[](running /\ world[IfaceOf[g]] # "ok") => <>[](selected[g] = "fallback" /\ active[g])

\* Verdicts are earned, and a missing interface is never chosen (monitor.go, fallback.go).
VerdictsAreSound == []TunnelTypeOK /\ VerdictIsEarned /\ MissingIsDown
=============================================================================
