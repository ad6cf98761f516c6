----------------------------- MODULE ConfigLoad -----------------------------
(***************************************************************************)
(* How crowded each config is, as the subscription page shows it           *)
(* (internal/loadmap, internal/httpapi/hostsload.go).  Nodes report their  *)
(* open connections into Redis keys that expire; a snapshot of the fleet's *)
(* load is rebuilt by at most one background flight, served while it is    *)
(* young, still served while it is middle-aged, and waited for when it is  *)
(* old.  Names are resolved in the background by a cache of their own.     *)
(***************************************************************************)
EXTENDS Integers, Sequences, FiniteSets, FiniteSetsExt, SequencesExt

CONSTANTS
    LoadNodes,     \* ids of the rows of nodes
    Profile,       \* node -> [cap, tags, ports, addr]: capacity 0 is none, empty sets are no filter
    HostRows,      \* the enabled hosts in display order: [id, remark, addr, port, tag]
    Readings,      \* what a node can report: [ports: port -> connections, total]
    DefaultCap,    \* CONFIG_LOAD_CAPACITY
    Names,         \* the addresses that are names
    Answers,       \* what the resolver can answer for a name: sets of IPs, {} is a failure
    Readers,       \* subscription requests
    SortByLoad,    \* CONFIG_SORT_BY_LOAD
    HomeShare,     \* homeShareDivisor
    SnapTTL, MaxStale, BuildTimeout, KeyTTL, DnsTTL, DnsFailTTL,
    MaxClock, MaxReports, MaxNodeEdits

ASSUME TimesAssumption ==
    /\ SnapTTL \in Nat /\ MaxStale \in Nat /\ BuildTimeout \in Nat /\ KeyTTL \in Nat
    /\ 0 < SnapTTL /\ SnapTTL < MaxStale /\ BuildTimeout < MaxStale
    /\ MaxClock \in Nat

\* handleNodeLive keeps no port without connections and no negative total, and
\* WithConfigLoad no capacity below 1.
ASSUME FiguresAssumption ==
    /\ IsFiniteSet(LoadNodes) /\ \A n \in LoadNodes : Profile[n].cap \in Int
    /\ \A r \in Readings : /\ r.total \in Nat /\ IsFiniteSet(DOMAIN r.ports)
                           /\ r.ports \in [DOMAIN r.ports -> Nat]
    /\ DefaultCap \in Nat \ {0} /\ HomeShare \in Nat \ {0}

VARIABLES
    tick,       \* now
    presence,   \* node -> its Redis keys: [ports, total, until]
    disabled,   \* the nodes an admin disabled
    dns,        \* name -> [ips, at, failed, refreshing, known]
    snap,       \* the stored snapshot, or NoSnap
    flight,     \* the rebuild that runs: [at], or NoSnap
    reader,     \* reader -> [st, asked, shown]
    spent       \* [reports, edits]: how many of the bounded inputs happened

mapVars == <<tick, presence, disabled, dns, snap, flight, reader, spent>>

NoSnap == [none |-> TRUE]
NoReading == [ports |-> <<>>, total |-> 0, until |-> 0]
HostIds == {HostRows[i].id : i \in 1..Len(HostRows)}

-----------------------------------------------------------------------------
(* Redis                                                                   *)

\* presence:live is set, with the same TTL, by every node's report.
Live == \E n \in LoadNodes : presence[n].until > tick
Reporting(n) == presence[n].until > tick

\* handleNodeLive writes the three keys in one transaction.
NodeLive(n) ==
    /\ spent.reports < MaxReports
    /\ \E r \in Readings :
          presence' = [presence EXCEPT ![n] =
                         [ports |-> r.ports, total |-> r.total, until |-> tick + KeyTTL]]
    /\ spent' = [spent EXCEPT !.reports = @ + 1]
    /\ UNCHANGED <<tick, disabled, dns, snap, flight, reader>>

\* Read: whether anyone reports, and each node's connections.
Read(ids) ==
    [live |-> Live,
     nodes |-> [n \in {i \in ids : Live /\ Reporting(i)} |->
                  [ports |-> presence[n].ports, total |-> presence[n].total]]]
NoData == [live |-> FALSE, nodes |-> <<>>]

-----------------------------------------------------------------------------
(* The DNS cache                                                           *)

Unresolved == [known |-> FALSE, ips |-> {}, at |-> 0, failed |-> FALSE, refreshing |-> FALSE]

\* lookup answers from memory; an IP literal answers itself.
Lookup(a) == IF a \in Names THEN dns[a].ips ELSE {a}

Expired(e) == tick - e.at >= (IF e.failed THEN DnsFailTTL ELSE DnsTTL)

\* lookup starts one background refresh of a name that is new or expired.
AfterLookups(used) ==
    [a \in Names |->
       IF a \in used /\ ~dns[a].refreshing /\ (~dns[a].known \/ Expired(dns[a]))
         THEN [dns[a] EXCEPT !.known = TRUE, !.refreshing = TRUE]
         ELSE dns[a]]

\* spawn: a lookup ends; a failure keeps the previous answer.
Resolved(a) ==
    /\ dns[a].refreshing
    /\ \E ips \in Answers :
          dns' = [dns EXCEPT ![a].refreshing = FALSE, ![a].at = tick, ![a].failed = (ips = {}),
                             ![a].ips = IF ips = {} THEN @ ELSE ips]
    /\ UNCHANGED <<tick, presence, disabled, snap, flight, reader, spent>>

-----------------------------------------------------------------------------
(* Building a snapshot                                                     *)

\* round(100 * conns / capacity), clamped.
Percent(conns, capacity) == Min({100, (200 * conns + capacity) \div (2 * capacity)})

LevelFor(p) == IF p < 40 THEN "free" ELSE IF p < 70 THEN "normal" ELSE IF p < 90 THEN "busy" ELSE "full"

CapacityOf(n) == IF Profile[n].cap >= 1 THEN Profile[n].cap ELSE DefaultCap

PortConns(np, p) == IF p \in DOMAIN np.ports THEN np.ports[p] ELSE 0

\* total: never less than what the ports add up to.
Total(np) == Max({np.total, MapThenSumSet(LAMBDA p : np.ports[p], DOMAIN np.ports)})

ActiveNodes == LoadNodes \ disabled

Serves(n, h) == /\ Profile[n].tags = {} \/ h.tag \in Profile[n].tags
                /\ Profile[n].ports = {} \/ h.port \in Profile[n].ports

\* The reporting nodes that have the host's port open or serve it by their profile.
Candidates(h, data) ==
    {n \in DOMAIN data.nodes : h.port \in DOMAIN data.nodes[n].ports \/ Serves(n, h)}

\* Those the host's address names, when it names any.
Matched(h, cands) ==
    LET hit == {n \in cands : Lookup(h.addr) \cap Lookup(Profile[n].addr) # {}}
    IN IF hit # {} THEN hit ELSE cands

PortSum(h, use, data) == MapThenSumSet(LAMBDA n : PortConns(data.nodes[n], h.port), use)

\* The nodes the port's traffic sits on: at least one part in HomeShare of it.
Home(h, use, data) ==
    IF PortSum(h, use, data) = 0 THEN use
    ELSE {n \in use : PortConns(data.nodes[n], h.port) * HomeShare >= PortSum(h, use, data)}

\* Fault: the config's own connections only.
OnlyItsPort(h, home, data) ==
    Max({0} \cup {Percent(PortConns(data.nodes[n], h.port), CapacityOf(n)) : n \in home})

\* The larger of the port's and the whole node's share, over the home nodes.
HostPercent(h, home, data) ==
    Max({0} \cup {Percent(PortConns(data.nodes[n], h.port), CapacityOf(n)) : n \in home}
            \cup {Percent(Total(data.nodes[n]), CapacityOf(n)) : n \in home})

UnknownLoad == [known |-> FALSE, conns |-> 0, percent |-> 0, level |-> "unknown", home |-> {}]

Compute(h, data) ==
    LET cands == Candidates(h, data)
        use   == Matched(h, cands)
        home  == Home(h, use, data)
    IN IF ~data.live \/ h.port = 0 \/ cands = {} THEN UnknownLoad
       ELSE [known |-> TRUE, conns |-> PortSum(h, use, data),
             percent |-> HostPercent(h, home, data),
             level |-> LevelFor(HostPercent(h, home, data)), home |-> home]

\* Info pseudo-hosts ({DATA_LEFT} and the like) have no load.
IsInfo(h) == h.remark = "info"
RealHosts == {i \in 1..Len(HostRows) : ~IsInfo(HostRows[i])}

EmptySnapshot(at) == [at |-> at, live |-> FALSE, hosts |-> <<>>, nodes |-> <<>>]

BuildFrom(at, nodes, data) ==
    [at |-> at, live |-> data.live,
     nodes |-> [n \in DOMAIN data.nodes |->
                  [conns |-> Total(data.nodes[n]),
                   percent |-> Percent(Total(data.nodes[n]), CapacityOf(n))]],
     hosts |-> [id \in {HostRows[i].id : i \in RealHosts} |->
                  Compute(CHOOSE h \in Range(HostRows) : h.id = id, data)]]

\* build with everything readable, without nodes, without Redis, without hosts
\* (or after a panic): whatever cannot be read leaves hosts unknown.
Builds(at) ==
    {BuildFrom(at, ActiveNodes, IF ActiveNodes = {} THEN NoData ELSE Read(ActiveNodes)),
     BuildFrom(at, {}, NoData), EmptySnapshot(at)}

\* build resolves every active node's address and, for hosts with candidates, theirs.
AddressesUsed ==
    {Profile[n].addr : n \in ActiveNodes}
    \cup {HostRows[i].addr : i \in {j \in RealHosts :
            Live /\ HostRows[j].port > 0 /\ Candidates(HostRows[j], Read(ActiveNodes)) # {}}}

-----------------------------------------------------------------------------
(* The order of a subscription's configs                                   *)

\* remark: info hosts keep their place; a config without data ranks after the known ones.
UnknownLoadSortKey == 101

Pending(s) ==
    [i \in 1..Len(HostRows) |->
       LET id == HostRows[i].id
       IN [id |-> id, sortable |-> id \in DOMAIN s.hosts,
           key |-> IF id \in DOMAIN s.hosts /\ s.hosts[id].known THEN s.hosts[id].percent
                   ELSE UnknownLoadSortKey]]

\* The sortable items, by load and then in display order, go back into the
\* slots that sortable items held.
SortPendingByLoad(items) ==
    LET slots  == {i \in DOMAIN items : items[i].sortable}
        byPlace == SetToSortSeq(slots, <)
        byLoad == SetToSortSeq(slots, LAMBDA i, j : \/ items[i].key < items[j].key
                                                    \/ items[i].key = items[j].key /\ i < j)
    IN [i \in DOMAIN items |->
          IF i \notin slots THEN items[i]
          ELSE items[byLoad[CHOOSE k \in DOMAIN byPlace : byPlace[k] = i]]]

Rendered(s) == IF SortByLoad THEN SortPendingByLoad(Pending(s)) ELSE Pending(s)

-----------------------------------------------------------------------------
(* Serving snapshots                                                       *)

Shown(s) == [at |-> s.at, order |-> [i \in 1..Len(HostRows) |-> Rendered(s)[i].id]]

\* startRefresh joins the rebuild that runs or starts one.
StartRefresh == flight' = IF flight = NoSnap THEN [at |-> tick] ELSE flight

Fresh == snap # NoSnap /\ tick - snap.at < SnapTTL
\* Fault: any snapshot is good enough.
NeverWaits == snap # NoSnap
StillUsable == snap # NoSnap /\ tick - snap.at < MaxStale

\* Snapshot: answer at once while there is a usable one, otherwise wait for a rebuild.
Snapshot(r) ==
    /\ reader[r].st \in {"idle", "done"}
    /\ IF StillUsable
         THEN /\ reader' = [reader EXCEPT ![r] = [st |-> "done", asked |-> tick, shown |-> Shown(snap)]]
              /\ IF Fresh THEN UNCHANGED flight ELSE StartRefresh
         ELSE /\ StartRefresh
              /\ reader' = [reader EXCEPT ![r] = [st |-> "waits", asked |-> tick, shown |-> NoSnap]]
    /\ UNCHANGED <<tick, presence, disabled, dns, snap, spent>>

\* The flight ends: the snapshot is stored and the waiting requests wake up.
FinishBuild ==
    /\ flight # NoSnap
    /\ snap' \in Builds(flight.at)
    /\ dns' = AfterLookups(AddressesUsed)
    /\ flight' = NoSnap
    /\ reader' = [r \in Readers |-> IF reader[r].st = "waits" THEN [reader[r] EXCEPT !.st = "woken"]
                                    ELSE reader[r]]
    /\ UNCHANGED <<tick, presence, disabled, spent>>

Woken(r) ==
    /\ reader[r].st = "woken"
    /\ reader' = [reader EXCEPT ![r].st = "done", ![r].shown = Shown(snap)]
    /\ UNCHANGED <<tick, presence, disabled, dns, snap, flight, spent>>

\* The request's own context ends first; whatever it gets, nobody reads it.
Gone(r) ==
    /\ reader[r].st = "waits"
    /\ reader' = [reader EXCEPT ![r] = [st |-> "idle", asked |-> 0, shown |-> NoSnap]]
    /\ UNCHANGED <<tick, presence, disabled, dns, snap, flight, spent>>

EditNode(n) ==
    /\ spent.edits < MaxNodeEdits
    /\ disabled' = IF n \in disabled THEN disabled \ {n} ELSE disabled \cup {n}
    /\ spent' = [spent EXCEPT !.edits = @ + 1]
    /\ UNCHANGED <<tick, presence, dns, snap, flight, reader>>

\* Time passes and Redis drops the keys whose time is over; a rebuild ends within
\* buildTimeout, its context's deadline.
LoadTick ==
    /\ tick < MaxClock
    /\ flight # NoSnap => tick < flight.at + BuildTimeout
    /\ tick' = tick + 1
    /\ presence' = [n \in LoadNodes |-> IF presence[n].until > tick + 1 THEN presence[n] ELSE NoReading]
    /\ UNCHANGED <<disabled, dns, snap, flight, reader, spent>>

LoadInit ==
    /\ tick = 0
    /\ presence = [n \in LoadNodes |-> NoReading]
    /\ disabled = {}
    /\ dns = [a \in Names |-> Unresolved]
    /\ snap = NoSnap
    /\ flight = NoSnap
    /\ reader = [r \in Readers |-> [st |-> "idle", asked |-> 0, shown |-> NoSnap]]
    /\ spent = [reports |-> 0, edits |-> 0]

LoadNext ==
    \/ \E n \in LoadNodes : NodeLive(n) \/ EditNode(n)
    \/ \E a \in Names : Resolved(a)
    \/ \E r \in Readers : Snapshot(r) \/ Woken(r) \/ Gone(r)
    \/ FinishBuild
    \/ LoadTick

LoadSpec == LoadInit /\ [][LoadNext]_mapVars

-----------------------------------------------------------------------------
\* handleGetHostsLoad: what the admin's page and the subscriptions have of a snapshot;
\* a host nothing reports for has no figures.
HostsLoad(s) ==
    [hosts |-> [id \in {i \in DOMAIN s.hosts : s.hosts[i].known} |->
                  [percent |-> s.hosts[id].percent, nodeIds |-> s.hosts[id].home]],
     nodes |-> [n \in DOMAIN s.nodes |-> s.nodes[n].percent]]

LoadTypeOK ==
    /\ tick \in 0..MaxClock
    /\ presence \in [LoadNodes -> {[ports |-> r.ports, total |-> r.total, until |-> u] :
                          r \in Readings \cup {NoReading}, u \in 0..(MaxClock + KeyTTL)}]
    /\ disabled \subseteq LoadNodes
    /\ \A a \in Names : dns[a].ips \in Answers \cup {{}} /\ dns[a].refreshing \in BOOLEAN
    /\ snap # NoSnap => snap.at \in 0..tick
    /\ flight # NoSnap => flight.at \in 0..tick
    /\ \A r \in Readers : reader[r].st \in {"idle", "waits", "woken", "done"}

\* No request that is still being read is answered with a load picture as old as
\* maxStale when it asked (Snapshot, startRefresh): the one flight it waits for
\* began at most one buildTimeout before.
AnswersAreRecent ==
    \A r \in Readers : reader[r].st = "done" => reader[r].shown.at > reader[r].asked - MaxStale

\* A config with a known load reads at least as crowded as each of its home nodes,
\* and has one when the nodes are so few that one of them must carry its share
\* (compute).
AsFreeAsItsNode ==
    snap # NoSnap =>
      LET page == HostsLoad(snap)
      IN \A id \in DOMAIN page.hosts :
           /\ Cardinality(LoadNodes) <= HomeShare => page.hosts[id].nodeIds # {}
           /\ \A n \in page.hosts[id].nodeIds : page.hosts[id].percent >= page.nodes[n]

\* "A config is only as free as the node that carries it" (loadmap.go:5): one that
\* users are connected to does not read freer than every node does.
NotFreerThanEveryNode ==
    snap # NoSnap =>
      LET page == HostsLoad(snap)
      IN \A id \in DOMAIN page.hosts :
           snap.hosts[id].conns > 0 =>
             \E n \in DOMAIN page.nodes : page.hosts[id].percent >= page.nodes[n]

\* The load that pages and subscriptions show is recent and not flattering (loadmap.go).
LoadIsHonest == LoadTypeOK /\ AnswersAreRecent /\ AsFreeAsItsNode
=============================================================================
