# Rapido-Go: TLA+ models, checks and proofs

This directory holds TLA+ specifications of Rapido-Go (the Go sources under
`src/`), the TLC configurations that check them on small instances, and TLAPS
proofs of every invariant and action property the runs check. Every module is translated from the code;
`PROJECT.json` maps each definition to the lines it models, lists the runs, the
faults each property is tested against, the hazards and the theorems.

    tlc -workers 2 -config NodeSync.cfg NodeSyncMC     # one run
    tlapm Remote_proofs.tla                            # one module's proofs

## 1. The system

Rapido-Go is a self-hosted proxy panel. Three kinds of process share a
PostgreSQL database and a Redis instance:

- **panel, role `api`**: stateless HTTP servers, several may run. They serve the
  dashboard and the admin API, subscriptions, the nodes' config polls and the
  nodes' live requests.
- **panel, role `backend`**: meant to be a singleton (a Postgres advisory lock
  held on a connection of its own, `cmd/panel/main.go`). It takes the nodes'
  usage reports and runs the periodic jobs: status review, reseller billing,
  gateway refresh, pruning, the Telegram console.
- **node agents** (`cmd/node`): one per relay, with sing-box embedded. A node
  only dials out: it *pulls* its config, *pushes* usage and health, and posts a
  *live* request every few seconds. Inside the agent the pull loop, the push
  loop, the live loop, the tunnel monitor, the exit supervisor, local management
  endpoints and every client connection run concurrently.

Almost nothing is in a database transaction: a handler reads a row, decides, and
writes with later statements. Correctness rests on conditional `UPDATE`s,
versions read before data, cursors, atomic swaps and on loops that come again.

### Inventory

| Component | State | Operations | Talks to | What is hard |
|---|---|---|---|---|
| Config sync (`cmd/node/main.go`) | running core, `lastPulled`, per-listener users | pull, hot update, full restart, `/start`, `/stop`, PUT users | node-config endpoint | answer applied under a later lock than its ETag; partial hot updates; failed restarts |
| Protocol inbounds (`internal/nodecore/*/inbound.go`) | user tables of eight protocols | UpdateUsers, handshake, session, stream | sing-box services | lists replaced during handshakes and under live sessions |
| Connection tracking (`internal/nodecore/traffic`) | presence counters per generation, connection groups | track, open, close, CloseAll, ResetPresence | router callbacks, core restarts | callbacks delivered twice or after the core was replaced |
| Usage metering (`traffic.go`, `nodereport.go`) | atomic counters; usage tables | Add, Drain, push, six statements | backend, database | lost pushes, partial failure, users deleted in between |
| Reseller billing (`resellerusagejob`) | queue rows: pending, reported | enqueue, tick, post, mark | external bot | answer lost after it charged; reports arriving during a post |
| Tunnel health, fallback (`tunnelhealth`, `nodecore/fallback.go`) | streaks, verdicts, exits' selection | probe round, record, Watch, reconcile | kernel interfaces, core restarts | rounds and passes across restarts; hysteresis |
| Node config cache (`nodeconfigcache.go`) | data version, entries, snapshot, two single-flight groups | poll, load, render, expire | database triggers | data read in several queries; builds shared between polls |
| User lifecycle (`user.go`, `user_bulk.go`, `reviewjob`) | `users` and `next_plans` rows | create, edit, delete, resets, plans, emergency recharge, bulk switches, review tick | nodes' usage, the clock | read-decide-write without transactions, the loop against requests |
| Credentials and links (`user.go`, `subscription.go`, `token.go`) | proxies, created and revoked times, links handed out | create under a cap, reconcile, revoke, delete, open | reseller bot | exact times against rounded ones; a namesake's link |
| Administrators (`admin.go`, `store.go`, `auth`) | row, two cached copies, verification cache, failed-login counter | login, resolve, create, update, delete, invalidate | Redis | a late SET after an invalidation, overlapping logins |
| Live log (`live.go`, `nodelive.go`, `logs.go`) | agent's ring, Redis list and cursor, browser's cursor | add, tick, handle, poll | Redis | given-up requests whose handler goes on, restarts, overflow |
| Presence (`presence.go`) | Redis scores and TTL keys, cached node list | node-live, count, status | Redis, database | two windows and three TTLs deciding one answer |
| Config load (`loadmap`, `hostsload.go`) | snapshot, one rebuild flight, DNS cache | report, rebuild, read, resolve | Redis, DNS | waiting for a flight that began before the question |
| Inbounds and hosts (`inbounds.go`, `hosts.go`, `xrayconfig.go`) | inbounds, hosts, tag lists, proxies | sync, put, delete, import | database, cache | several statements per call, no transaction |
| Core config, profiles (`coreconfig.go`, `nodeprofile.go`, `node.go`) | fleet config, overrides, cached copy | save, merge, validate | each other | each validated against the other, then written |
| Gateway (`gateway_sync.go`, `gateway_status.go`, `gatewayjob`) | replicas, peers, cached status | push, receive, refresh, merge into subscriptions | peer panels | lost and reordered pushes, stale status, collisions of names |
| Backup, restore, import (`backup.go`, `legacyimport.go`) | maintenance flag, files, the database | dump, restore, truncate and insert, flush | psql, Redis | requests admitted before the flag, crashes half-way |
| Start and singleton (`cmd/panel/main.go`) | signing key, advisory lock | read or make key, acquire, jobs, stop | database | lock lost while the jobs go on; first boot |
| Telegram console (`internal/telegrambot`) | offset, queues, sessions, screens | poll, dispatch, tap, type, call the panel | Telegram, the panel's API | redelivery, old buttons, expired sessions |
| Formats, dumps' parsing, metrics, tickets, notifications, command lines, dashboard | see `PROJECT.json` | | | formatting, parsing or single statements |

What makes the components correct:

- *config sync*: the running core is what `lastPulled` says, since the next pull
  is compared with that, and the loop is never wedged on a stale comparison;
- *inbounds*: a stream is billed to the user whose secret opened it, and exactly
  the accepted list is admitted;
- *connections*: counters equal the connections they count, and no socket of a
  replaced core survives;
- *metering*: no byte is charged twice; without failures none is dropped;
- *billing*: nothing queued is lost, written off or forgotten by the reset of a
  counter; everything is billed;
- *fallback*: a verdict turns only on enough consecutive results, a missing
  tunnel is never used, exits end up following the tunnel;
- *config cache*: what is filed under the current version is the database's
  content, and no poll gets less than was committed before it began;
- *lifecycle*: limits are enforced in the end, a disabled account stays so, an
  emergency grant is given once, nobody writes a namesake's account;
- *links*: a link just handed out works, one ended a second ago does not, and a
  link opens no other account;
- *administrators*: a request is judged by the current row unless a reader raced
  the change, a password or token that a reset ended before that row is refused,
  and guessing is stopped;
- *live log*: stored once, in order, no avoidable gaps; an open view catches up;
- *presence*: who is surely connected is shown online; who left longer ago than
  the window, counted from the last report that can carry the user's bytes, is
  not;
- *load*: an answer is recent, and a config is shown as free as its node;
- *inbounds and hosts, core config*: lists and tables agree when nobody is at
  work and no reader filed what it had read before, every node's merged config is
  valid, an import removes nothing;
- *gateway*: a replica is as its owner's user is unless a push left it behind,
  local users are never touched, peers' hosts come from an enabled peer that
  answered lately, in the order of the load of its live nodes;
- *restore*: what is replaced is in the safety backup, the flag has an owner
  unless a process died or Redis did not answer;
- *start*: one key, and one backend but for lost connections and the last ticks
  of one that was told to stop;
- *console*: each tap once, in order, under its own administrator's rights, and
  it does what the screen said.

## 2. Modules

Each component has a module `X.tla`. In all of them one action is what the code
does atomically: a critical section, one SQL statement, one Redis command or
transaction, one atomic instruction; the HTTP exchanges in between are separate
steps, so that everything else can happen there. Definitions marked `Fault:`
are plausible mistakes in the operator that follows; each property is known to
fail when the named operator is replaced by its fault. Variables named after
something that went wrong (`altered`, `behind`, `raced`, `crossed`, `drifted`,
...) are history variables: no action reads them; they let a property name
exactly the behaviours it does not speak about.

Five modules have an instance `XMC.tla` of their own. The others are checked in
five sums, `AccountsMC`, `ConsoleMC`, `CountingMC` (ConnTracking and
ResellerBilling), `FleetMC` and `PanelsMC`: the components of a sum share no
variables, so their product would only multiply states without adding an
interleaving that matters; a behaviour of the sum is a behaviour of one
component, chosen at the start (`part`), while the others rest.

Proofs are in eight modules, each with the theorems of several components, one
part after another:

| Module | Theorems about |
|---|---|
| `Remote_proofs` | NodeSync and its refinement of ConfigDelivery, TunnelFallback, Gateway, PeerHosts, Inbounds |
| `Counting_proofs` | ConnTracking, UsageReport, ResellerBilling and its refinement of BillingLedger |
| `Accounts_proofs` | LoginLimit, AdminAuth, Presence, UserLinks |
| `Panels_proofs` | PanelStart, Restore, NodeConfigCache |
| `Console_proofs` | UserLifecycle, TelegramPoller, TelegramConsole |
| `Fleet_proofs` | CoreConfig, InboundCatalog |
| `Pages_proofs` | LiveLog, ConfigLoad |
| `SetFacts` | no component: numbers, finite sets, orders and sums, cited by the others |

### The node

**NodeSync** - `desired` is what the panel would render, `lastPulled`, `node`
(the core and each listener's users) and `pull` are the agent's. `PullSend`,
`PullAnswer`/`PullFail` and `PullApply` are pullOnce around its HTTP request;
`HandleStart`, `HandleStop`, `HandleUpdateUsers` the management endpoints. A
config is its core part and, per inbound, protocol, shape, ports and users; its
version is a hash, so equality of configs. `altered`: what made the core
something the pull loop did not intend. **ConfigDelivery** is its abstract
specification: `Announce`, `Fetch`, `Restart`, `Refresh`, `Discard` over what is
published, fetched and running, with no versions, 304s, lastPulled or comparison
of configs. `NodeSync!ImplementsDelivery` is the refinement: fetched is the answer
in the loop's hands, delivered the core unless it was started by hand, and
`Fixed` is what a config fixes in a running core - all but its lists, and of those
the cipher.

**Inbounds** - one listener of any of the eight protocols; `UpdateVLESSUsers` to
`UpdateAnyTLSUsers` are what each fork does with a new list (which entries it
refuses, what an empty list means), handshakes resolve to a `userkey.Key` and
open streams later, sessions of the QUIC protocols and anytls stay.

**ConnTracking** - connections go through handshake, `Track`, `OpenConn`, three
`CountOne`s and the close callback's three `UncountOne`s, interleaved with
`CloseBox`, `CloseAll`, its workers and `ResetPresence`. A counter belongs to a
generation. Multiplexed carriers and packet sessions are included. A handshake
need never end: nothing in the agent ends the one of a plain TCP client that is
silent, which is in no group yet.

**TunnelFallback** - a probe round (`TickBegins`, `Probe`, `Record`,
`TickEnds`), the supervisor's pass (`ReconcileBegins`, `Decide`, `Switch`) and
the core's stop and start. Whether the host has the tunnel configured is chosen
initially; the tunnel's health is the environment's.

### From node to panel

**UsageReport** - `AddTraffic` and a `Drain` that swaps counters one by one;
`Push` that may be lost; a handler with one step per statement, each able to
fail; deletion of users and disabling of the node in between. A table is the
bytes of each user it holds.

**ResellerBilling** - `BulkIncrementAdminUsage` raises an administrator's counter
and fills the queue in one statement, `ResetAdminUsage` zeroes the counter and
leaves the queue, `Tick` reads it and posts, the bot (external) charges now, late
or never, `Mark` subtracts what was sent. Rounds fail at any point; settings
change; admins are deleted. What resets took is `erased`, a history variable. One
backend runs the loop; a restore or an import replaces the tables and is outside.
**BillingLedger** is its abstract specification: `Meter`, `Bill`, `Settle`,
`Close` over queued, settled and billed amounts, with no loop, posts or
failures. `ResellerBilling!ImplementsLedger` is the refinement: queued is
pending, settled is reported, billed is what the bot charged.

**LiveLog** - `Add`, `Tick`, `TakeAnswer`, `GiveUp`, `AgentRestart` are the
agent; `ReadSeq` and `Exec` the handler around its Redis transaction; `Poll` the
browser's GET /api/logs. An abandoned request's handler goes on in its slot.
Ids only matter by comparison, so they are consecutive; that ids keep growing
over an agent restart (they are wall-clock microseconds) is assumed, as the
code's comment does: a clock set back across a restart hides the new lines until
it has caught up.

**Presence** - times are ages in ticks of a live request, capped where nothing
tells larger ones apart. Nodes connect users, post (or fail to), and report: a
report stamps everybody with a drained delta, also those who left since the one
before (`Reportable`), and what a user moved before leaving is in the next one
that a node drains, at most `ReportEvery` later. That is the push of syncLoop's
one ticker with its 5 s timeout; a loop that a slow restart of the core holds up
for longer is outside, and with it late stamps. Pages decide by `Authoritative`
between Redis and the database.

**ConfigLoad** - nodes' readings in keys that expire, the one rebuild flight,
the snapshot's three ages, readers that take, wait or are woken, names resolved
in the background; the mapping from readings to a config's percentage
(`Home`, `LevelFor`, listener ports) as operators. A config with a known load is
as crowded as each of its home nodes; that it has one holds only of fleets of at
most `HomeShare` nodes (section 6).

### The panel's data

**NodeConfigCache** - the database's content is a version per part; `Change`
bumps one part and the data version together (the triggers). Polls read the
version, look up, join a build; builds use or load a snapshot part by part.

**UserLifecycle** - one account at a time (accounts share nothing), with the
row each caller read kept in its `job`; one action per statement of each handler
and of the review tick; callers stop between statements (`Stop`). Integers wrap
the columns' width through `MaxInt`.

**UserLinks** - creation under the reseller's cap, `ReconcileProxies`,
`RotateProxy` and `SetUserSubRevoked`, deletion and re-creation under the name,
links of both kinds opened by `LoadSubscriptionUser`. Time is in parts of a
second, which `TokenTime` rounds up to whole ones.

**AdminAuth** - the row, its two cached copies (`memo`), tokens, the
verification cache; `FetchAdmin` and `StoreAdmin` are GetOrSet's two halves,
`WriteAdmin` and `Invalidate` a writer's. **LoginLimit** - the counter of failed
logins: peek, compare, INCR, EXPIRE, with Redis refusing at will.

**InboundCatalog** - a call is the list of statements it has still to run
(`todo`); calls interleave by statement and the first that fails ends its call.
Where the code ranges over a Go map, the statements come in any order. A reader
that misses the cached tag list reads the table (`FetchTags`) and files what it
read later (`FileTags`), maybe after the invalidation that was to remove it;
`raced` names the lists filed that late.
**CoreConfig** - an outbound is the tag it groups or a leaf, a rule its target;
`ValidateCoreConfig` and `Apply` are the checks and the merge, each save a read,
a check and a later write; the import merges into the cached copy, which a reader
may have filed after the row it read was replaced and the copy dropped
(`unflushed`).

### Panels and operators

**Gateway** - two panels, one user name with one protocol, pushes as full
snapshots in flight without order, receivers that read by name, write the row by
id, read the credentials and write those, statement by statement, rotated
secrets. A push that fails half-way leaves what it wrote; two served at once can
each insert a row of credentials. `drifted` names the panels that a push left
behind, `alone` those with a single push on its way, which mends that when it
ends well. The owner's own change is one step: its handler's statements are
UserLifecycle's and UserLinks'.
**PeerHosts** - the refresh tick, the cached status with its TTL, a subscription
that lists peers and then reads; peers are edited meanwhile. A peer's figure is the sum
(`Figure`) of the connections of its nodes that reported lately, and an answer
remembers which those were.

**Restore** - `Course` is the steps of a backup, a restore or an import;
operators work through them while requests admitted before the flag go on, calls
fail and processes die, also while two operators overlap. `RaiseFlag` may set the
flag and lose the answer, which leaves it up with nobody to lower it. Once two
have overlapped, `MaxTogether` bounds the users that requests still create.
**PanelStart** - the signing key, the advisory lock and its connection. A backend
that is told to stop (`Shutdown`) gives the lock up when one of its loops has
returned (`GiveUpLock`), and lingers while the others end their ticks (`Leave`);
an import and a restore replace the key (`ImportKey`, `RestoreKey`).

**TelegramPoller** - updates, offset, redelivery after a restart, the queue and
workers of each account, the identity of a call. **TelegramConsole** - one chat:
screens with live buttons, the session and its expiry, the wizard, edits that
read and write back an account others change. A screen may not arrive (`unseen`)
and a session may not be written or deleted (`stale`), at most `MaxTroubles` times
together with the changes of others; the handlers go on as the code does. The
amounts of a draft are left out.

### How they meet

NodeConfigCache answers NodeSync's pulls (`PullAnswer` takes "what the panel
renders now", which is what AnswersAreFresh and CurrentIsExact justify);
CoreConfig and InboundCatalog are what its snapshot reads; Inbounds' lists are
NodeSync's; ConnTracking's cores are NodeSync's and its counts are ConfigLoad's
and Presence's readings; UsageReport's statement 3 is ResellerBilling's
`BulkIncrementAdminUsage` and its statement 1 UserLifecycle's
`IncrementUserUsage`; TelegramPoller hands TelegramConsole its taps, whose calls
end at UserLifecycle and UserLinks; PanelStart is why ResellerBilling,
UserLifecycle and PeerHosts have one loop.

## 3. Runs

All passing runs explore their whole state space.

| Run | Bounds | Shows |
|---|---|---|
| `nodesync` | 11 configs differing in every way diffPulledConfig tells apart, two listeners, refused lists, all endpoints | The core has lastPulled's shape and ciphers (ComparisonIsSound) unless started by hand, its exact users unless altered (RunningIsLastPulled); ImplementsDelivery; Converges: once the panel settles and nobody starts or stops the core by hand, a config that can be built is applied in the end and a core is up |
| `counting` | 2 connections (one a carrier), 3 cores; 2 resellers with 2 and 1 bytes, 1 reset of a counter, 2 failed rounds | CountsAreExact, NoneOutlivesItsCore; ClosedCoreDrains: all that a closed core accepted, once past its handshake, ends; NothingLost (what a counter says, with what resets took, is queued, reported or was never to be billed), ChargedOnce (no failure after sending), EverythingIsBilled, ImplementsLedger |
| `usage` | 2 users, 1 byte per direction, 2 overlapping reports, any 2 events | UsageAddsUp: at most once in each table, tables agree, a disabled node stays so; NothingDropped without lost pushes or failing statements |
| `fallback` | 2 exits over 1 tunnel, thresholds 2 and 3, 1 restart | VerdictsAreSound (earned by consecutive results; missing is down), FollowsTheTunnel |
| `lifecycle_overlap` | 2 administrators with 2 calls and the loop interleaved statement by statement, the account created twice, 1 caller that stops half-way | StaleCallersAreHarmless (own account only, one emergency grant), Enforced, HoldsEnd |
| `livelog` | 4 lines, ring 3, list 2, page and batch 1, 2 handlers, 2 faults | LogIsExact (stored once, in order, no avoidable gap), NothingSkipped, ViewCatchesUp |
| `accounts` | 2 requests at once, 2 passwords, clock 3; 2 logins against a limit of 2; 2 clerks, 2 names, cap 1, 2 parts of a second; 2 nodes, windows 1 to 3, a report each tick, 3 comings and goings | AuthIsSound, LockoutIsSound, LinksAreSound, PresenceIsSound |
| `console` | 2 administrators, restarts, redelivery; one chat, 2 accounts, 1 change by others, lost screen or session; one caller at a time, 3 calls of 20 kinds, 1 of them stopping half-way, with traffic and time passing between | TapsAreSafe, ChatIsSafe, StatusIsSound (a status agrees with the limits), DisabledStays |
| `fleet` | 2 clerks and 2 savers, 2 tags, 1 tag list and 1 row in a late reader's hands, nodes with overrides, 2 load reports, lists of 2 users | CatalogInv, CoreConfigIsSound, ImportsOnlyAdd, LoadIsHonest, InboundsAreExact |
| `panels` | 2 panels, 5 changes, 2 pushes at once; 2 peers; 2 operators and a request, overlapping and failing, 1 user made after an overlap; 3 processes, 5 starts and key replacements, 2 faults; 2 polls, 2 profiles, 1 change | GatewayIsSound, PeerHostsAreSound, RestoreSafe, StartIsSound, CurrentIsExact, AnswersAreFresh |
| `nodesync_revert` | | a disagreement, section 6 |
| `crowded` | 6 nodes on one port, all full | a disagreement, section 6 |

A property such as AuthIsSound is a conjunction of the module's type invariant
and its named parts (CachedIsCurrent, OldCredentialsRefused), each with its
comment in the module.

Why the bounds are enough: every module's interactions are pairwise - a handler
against a change, a close against a restart, a report against another - so two
of each actor and one or two faults reach each order of their steps; thresholds,
windows and ring sizes are the smallest at which their two sides differ (a ring
that overflows while the cursor is still in it needs three lines; up and down
thresholds differ so that swapping them shows; Presence's windows keep the
order 15 s < 20 s < 180 s). Of all but the liveness properties the theorems
remove the bounds. `CHECK_DEADLOCK FALSE` is used where the bounded work of an instance
ends. Symmetry is declared only over callers, panels, names, passwords and handlers that no
definition tells apart, and in no run with a temporal property but `console`'s
and `fleet`'s action properties, which are about one step.

**Fairness.** Only loops and goroutines that the code keeps running are fair:
syncLoop's and liveLoop's timers, the monitor's and supervisor's tickers, the
review and billing tickers, CloseAll's workers, a handler that has begun. In
NodeSync a pull that works and a core that starts are *strongly* fair: they fail
now and then, not for ever. No client, administrator, change or fault is fair,
except that an open log view keeps polling. In ConnTracking the steps a goroutine
takes by itself are fair (`GoOn`), a client's handshake is not: a silent client
keeps it open for ever, so ClosedCoreDrains speaks of the connections whose
handshake ended. Liveness properties whose conclusion
depends on the environment say so in their premise (the desired config stays,
the tunnel stays healthy or dead, the settings stay complete, the view stays
open). `CountingMC` asks each part's fairness only of the part
that runs. The modules of the other sums have no liveness property: what the
code promises of them in the end is bounded by TTLs, which the models turn into
safety.

## 4. Proofs

TLAPS proves the following for every value of the constants that satisfies the
named ASSUMEs of the modules. Those are what the code fixes (Presence's windows
keep 15 s < 20 s < 180 s, a rebuild's deadline is shorter than maxStale), types
of inputs (lists are sequences, ports are numbers), finiteness of the sets that
are counted, and that a marker (`None`, `Nobody`, `NULL`, ...) is not one of the
things it stands beside. In each module one inductive invariant carries all the
theorems; it is named here with what it adds to the property and why the
property alone is not inductive. Properties that a history variable conditions
(`crossed`, `raced`, ...) are proved with that condition, as they are checked.

**Remote_proofs.**
- *NodeSync* (`ShapeInv`, `ExactInv`): RunningShapeIsLastPulled and
  CipherIsTheListeners, the parts of ComparisonIsSound, are inductive only
  together, with the types: a hot update
  keeps ciphers because the listeners' shape is lastPulled's, and keeps the shape
  because diffPulledConfig asks for a restart otherwise. ExactInv adds that each
  listener serves lastPulled's users unless `altered`. From ShapeInv
  DeliveryTheorem takes every step to a step of ConfigDelivery or to a stutter: a
  hot update is a Refresh because the running core, like lastPulled, differs from
  the answer in nothing but its lists (HotIsFixed).
- *TunnelFallback* (`TunnelInv`): a streak is the length of a run of equal results
  at the end of its tunnel's history (EntriesInv), so a verdict that turned has
  the results that earned it; a round probes no tunnel twice and leaves out none
  that is configured (RoundInv).
- *Gateway* (`GwInv`): rows carry ids that changes made, and a user's owner has
  one row of credentials (RowsWereMade); the row a receiver goes on to write by id
  is not a local user's, and an id comes to nobody else (ReadingsHold); a push that is alone
  carries what its owner has now and finds at each of its statements what it left
  at the one before, and any other push leaves its panel among the drifted
  (LonePushes); so a replica outside those, with nothing in flight, follows its
  owner (ReplicasAreOwned).
- *PeerHosts* (`PeerInv`): a cached or travelling answer is one its peer could
  have given (CopiesAreTrue), and its age and the time it has left never exceed
  StatusTTL by more than the tick that renews it; a figure is the sum over the
  nodes that were alive when the answer was given, all of them and no other
  (FigureFacts), so the order of the panels is that of those sums.
- *Inbounds* (`InboundInv`): the table and the key of every handshake belong to
  an owner of the client's secret at the time it was looked up (OwnedBy), so
  replacing the list under it cannot redirect what is billed; the table admits
  exactly the list taken last (TookTheLast).

**Counting_proofs.**
- *ConnTracking*: CountsAreExact needs that a connection's generation has begun
  and that nothing is counted before OpenConn (`TypeInv`); its step lemmas say
  that one Count or Uncount changes exactly one counter and one set by one.
  NoneOutlivesItsCore needs that an open connection of a core that is not closed
  is held by its group (`HeldInv`).
- *UsageReport* (`ReportInv`): of each user and direction, what is in the counter
  and in the hands of a Drain is no more than what was served (DrainInv); a table
  and the reports that have not reached its statement add up to no more than was
  taken, and to exactly that while nothing failed (AtMostOnce, NothingDropped);
  two tables differ by the reports between their statements (Alike). Totals over
  the reports are folds over a range: that a total changes by what one report
  changes is an induction over that range, by SetInduction.
- *ResellerBilling* (`IInv`): NothingLost counts what resets took (`erased`),
  since a reset moves no queue row; SentIsPending (what is in the post is still
  pending: the reason why MarkUsageSent may subtract), NoRows (a deleted reseller
  has none) and Charged (the bot charged what is reported and an answered post).
  From it RefinementTheorem takes every step of the queue, the loop and the bot
  to a step of BillingLedger or to a stutter: a report is Meter, a charge is
  Bill, a mark is Settle (which SentIsPending and Charged allow), the deletion of
  a reseller is Close, and posts, losses and failed rounds change nothing.

**Accounts_proofs.**
- *LoginLimit* (`LimitInv`): what the counter has reached and the logins past
  their peek together stay below the bound; the counter alone does not tell how
  far it may still go.
- *AdminAuth* (`AuthInv`): ids are never reused, what a call carries was the row
  at some time not before its read, and a verdict of the verification cache is
  true of the pair of password and hash it is kept under - which is why it needs
  no invalidation.
- *Presence* (`PresInv`): a node's keys are at least as old as its channel's last
  word (KeysAge), a live node's users are among the listed (LiveAreListed,
  KnownIsComplete), a user who left is old everywhere but for stamps that came up
  to ReportEvery after the leaving (GoneAge), and a remembered count leaves room
  for the users who are surely gone (CountsHold).
- *UserLinks* (`LinkInv`): TokenTime rounds up by less than a second, which is
  what makes both halves hold - a new link opens, one ended a second ago does
  not; RoomIsKept: unless two checks raced, at most one due write passed its
  check and there is room for it.

**Panels_proofs.**
- *PanelStart* (`StartInv`): who runs all the loops holds the lock or lost its
  connection, who gave it up only lingers, and the lock's holder is up
  (LockIsHeld); key rows and processes about to make one are no more than the
  processes (KeysAreFew), so there is one key unless two made the first at once or another came with an
  import or a restore (KeyIsShared).
- *Restore* (`RestInv`): outside crossings at most one operator is past the flag
  (OneAtATime); the flag is raised by an operator at work, unless a crash or a lost
  answer left it (FlagIsOwned); what is dropped is in the backup taken or was made
  by a request still running (BackupCovers); a cache filled before the replacement is owed a
  flush (FlushIsOwed); imported owners are mapped (OwnersAreHere) and sequences
  lead the ids, except in an import that keeps ids and has not set them yet
  (SequencesLead).
- *NodeConfigCache* (`IInv`): for CurrentIsExact, BuildsReached and FlightsExact:
  what is in flight under the *current* version equals the content, because
  nothing changed since that version was read. AnswersFreshTheorem needs more: a
  poll's floor - what was committed before it began - is below everything it can
  still be handed, so every build or load a poll may join, and every entry filed
  under the version it read, covers that floor.

**Console_proofs.**
- *UserLifecycle* (`LifeInv`): with callers one after another the row a caller
  read is the row but for the traffic and time since (Reading), from which the
  status it computes is justified; with overlapping callers only the identity of
  the account is left, and that is StaleTheorem. DisabledTheorem is an action
  property from the same invariant.
- *TelegramPoller* (`PollInv`): per account, the updates that ran and those that
  wait form one log, in order and without repetition among those Redis could
  mark, below the offset (LogOK); one worker at a time (OneWorker); a batch is
  ascending from the offset (BatchOK).
- *TelegramConsole* (`ChatInv`): if the last screen arrived and Redis did as it
  was told, the session is what that screen asked for (Asked), and a handler that
  must end a session has ended it before anything else can be typed (Quiet); what
  a confirmation does is on the screen itself, so it needs neither.

**Fleet_proofs.**
- *CoreConfig* (`CoreInv`): a checked document stays valid until it is written
  because its caller is alone (Alone, StillValid); unless a flush
  failed or a reader filed an older row late, an import starts from the row
  (StartsFromRow), which with the lemma MergeFacts
  gives the action property ImportsOnlyAdd.
- *InboundCatalog* (`CatInv`): what a call has still to run is a well-formed
  program (`Runnable`): each write comes after the read it relies on and before
  the invalidation it owes, whatever order the Go maps gave. What a call has read
  still holds as long as calls are about different tags (ReadsHold); a cached
  list that the table contradicts is owed to an invalidation some call is about
  to run, or a reader filed it late (ListsAreOwed); and priorities are distinct, or a PUT is half-way
  through replacing the hosts and what it has still to write makes them distinct
  (RanksHold). CatalogTheorem is the whole of CatalogInv: priorities are distinct
  unless calls overlapped or ended early, or a PUT named only some of the tags.

**Pages_proofs.**
- *LiveLog* (`LogInv`): the ring is a run of consecutive ids that ends with the
  newest line (RingInv); a handler's lines carry on after the cursor they were
  chosen for, unless that line had left the ring (HandlersInv); the stored list is
  sorted and ends at the cursor, and has gaps only after lines that left the ring,
  as long as no late batch went in (StoredInv).
  The sizes need only be in the code's order, 200 <= 500 <= 2000
  (OrderAssumption). PagesTheorem is the action property NothingSkipped.
- *ConfigLoad*: for AnswersAreRecent (`LoadInv`), the flight that runs is younger
  than buildTimeout and later than what is stored, and a waiting reader asked
  within it; for the figures (`FiguresInv`), every stored snapshot is honest
  because a rebuild can only make honest ones. That a config on at most
  `HomeShare` nodes has a home node is a pigeonhole argument over its nodes'
  connections. LoadTheorem is both.

**SetFacts.** The library's induction theorems take an operator, which the
provers cannot instantiate. SetInduction states induction for a *set* of numbers
instead, proved from the least member of its complement (WFMin); with it sums
over ranges and over finite sets are defined (SumsExist), distribute over the
folds' definition and are bounded, as the modules' totals need. The rest is
about least and greatest members and places in an order.

What the attempts changed, in the model:
- `appendNewRoutingRules` also drops rules that repeat within the imported file;
- the edit of a user refuses an expiry that does not fit;
- a safety backup taken by a request that was admitted before an import raised
  its flag dumps half-imported tables (`unsynced`);
- a chat's screens and the wizard's draft are passed on as the handlers do;
- a config of a known load need not have a home node (section 6);
- LiveLog's `behind` is also set when Redis lost the list and an old batch comes
  late, which leaves a gap all the same;
- `CreateHost` bounds the priority it writes, not the one it was given, and the
  maps of a PUT are ranged over in any order (InboundCatalog).

**Only model-checked.** The seven liveness properties: Converges,
ClosedCoreDrains, EverythingIsBilled, FollowsTheTunnel, Enforced, HoldsEnd and
ViewCatchesUp. They rest on fairness, and the prover handles neither fairness
nor ENABLED. Every other property of a passing run is the statement of a
theorem.

## 5. Not modelled

`PROJECT.json` gives the reason for each component. In short: share links,
client configs, pages, screens' wording and the parsing of other panels' dumps
are text without a protocol; host metrics are arithmetic on samples; tickets are
single rows; notifications are sent and forgotten; installers, certificates and
command lines are I/O; the panel's log publisher is LiveLog without a network;
the dashboard is a view. Of modelled components: templates, periodic resets by
strategy and notes (UserLifecycle), single-field validation (InboundCatalog,
CoreConfig), read-only listings (TelegramConsole). Modules with a backend job
assume one backend; PanelStart shows when that holds. Real time appears only as
ordering, ages, ticks and expiry events.

## 6. Disagreements between the code and what it says

Checked by a run that TLC must find violated:

- `nodesync_revert`: a hot update taken by one inbound and refused by another
  leaves a core that is not lastPulled; if the panel then goes back to the
  previous config, the answer is 304 and the inbound keeps the wrong users
  (`cmd/node/main.go:1533` against its comment).
- `crowded`: six nodes serve a port evenly and are full. None carries the fifth
  of the port's connections that makes a home node (`loadmap.go:525`), so the
  config has no home node, its percent stays 0 and it is shown, and sorted, as
  the freest of all; "a config is only as free as the node that carries it"
  (`loadmap.go:5`). LoadIsHonest asks for a home node only while there are at
  most `HomeShare` nodes, where one of them must carry its share.

Reproduced by hand, with the configurations kept here:

- `tlc -config UserLifecycle_undisable.cfg UserLifecycleMC`: a single-user
  traffic reset writes a status computed from the row it read, and re-activates
  an account disabled in between (`user.go:762` against `usage.sql:70-71`,
  "resetting traffic must never silently un-disable an account").
- `tlc -config UserLifecycle_huge.cfg UserLifecycleMC`: nothing bounds a plan's
  expiry (`user.go:587`); `now + expire` overflows INTEGER in every tick and the
  tick ends there, for every user after it (`reviewjob.go:2-3`).
- `tlc -config PanelStart_lock.cfg PanelStart`: a rolling restart, with no fault
  at all. The backend that is told to stop unlocks when one of its loops has
  returned and waits for none of the other six (`cmd/panel/main.go:247-270`); one
  may be in a tick, which for billing marks what it sent on a detached context
  for up to 10 s (`resellerusagejob.go:104-108`), and the waiting backend starts
  beside it, which the comment above says it never does. With `MaxDbFaults = 1`
  the other way shows too: the connection that holds the lock ends unnoticed
  (`main.go:240`). PanelsAgree names both (`Lingering`, `cut`).

Met while modelling, without a run of their own:

*Node.*
- A manual start followed by a pull is compared with lastPulled, not with what
  runs: a restart can be taken for a hot update (`main.go:1606`). The NodeSync
  properties exclude a core started by hand.
- `main.go:1398` logs "will retry next tick" for a failed push, but the drained
  deltas are gone: usage is at most once, not retried. NothingDropped
  is conditioned on no lost push.
- A probe round whose names were taken between Watch(nil) and the next Watch
  deletes the entry of a tunnel the new core uses; Up answers TRUE for an
  unknown name (`monitor.go:171`).
- `selectLiveLogs` says that a cursor older than the oldest held line means
  "lines in between are gone"; when exactly the cursor's own line was the last
  to leave the ring (or the agent restarted) none need be gone, and all but the
  newest 200 are skipped (`cmd/node/live.go:270`). NoGaps states what holds.

*Caches and loops.*
- An entry's age counts from its rendering (`nodeconfigcache.go:131`), the
  snapshot's from its load: a change the triggers miss can stay hidden for
  nearly twice `nodeConfigSafetyTTL`, against lines 16-17.
- The review loop writes a status judged on a row listed earlier
  (`reviewjob.go:105`); an emergency recharge checks eligibility before its
  statement (`subscription_emergency.go:92`); usage logs hold the usage read
  before the reset (`reviewjob.go:122`, `user.go:742`).
- A plan that keeps the remainder adds a negative one for an overdrawn account,
  and a limit of zero or less means unlimited (`review.sql:52`).
- A plan with `fire_on_either = false` is looked at only while the account is
  active, when at most one of its conditions holds for long (`reviewjob.go:85`):
  the first limit reached ends the account and the plan never fires.
- The live handler reads its cursor outside the transaction
  (`nodelive.go:128`): a handler the agent gave up can store its lines behind
  newer ones and move the cursor back. LogIsExact names that case through
  `behind`; ViewCatchesUp holds regardless.
- GetOrSet reads the database and files what it read in two steps
  (`cacheaside.go:21-41`): a reader that began before a change can file the old
  list of tags, or the old core config, after the invalidation that was to drop
  it, where it stays until its TTL. An import that merges into such a copy writes
  over what was saved since (`xrayimport.go:200`). CatalogInv and ImportsOnlyAdd
  name it through `raced` and `unflushed`.
- A reset of an administrator's usage zeroes `users_usage` but not the queue of
  what is to be billed (`admins.sql:40-49`): the two counters of the same traffic
  differ from then on by what resets took, and NothingLost says by just that.
- Presence trusts a node until its total expires after 20 s but a user's entry
  only for 15 s (`presence.go`): for five seconds all users of a node whose live
  channel died are offline, which queuePresenceLive's comment rules out; and
  nothing turns a dead node's status from connected, so while it is in the list
  Redis stays unauthoritative.

*Administration.*
- Overlapping deletes of the last inbounds can prune every user's credentials:
  the question and the deletion are two statements (`inbounds.go:438`). PUT
  xray config drops the settings that only hysteria2, tuic and snell have
  (`xrayconfig.go:115`). Hosts created or put at the same time can share a
  priority. Overlapping saves of the fleet's config and of a node's overrides
  can leave an invalid merged config; CoreConfigIsSound exempts that overlap.
- A link handed out up to a second before a revocation survives it; revoking
  rotates the secrets before it ends the link (`user.go:806`).
- Two pushes about one user served at once can each insert a row of credentials
  for a protocol, since the table keeps no uniqueness, and the reconciliation of
  later pushes updates one of them and removes neither (`user.go:636`): the
  replica then opens with secrets its owner has rotated. A push that fails
  between its statements leaves a policy with older credentials.
- Revoking pushes nothing to gateway peers; ensureGatewaySettings gets or
  creates without uniqueness (`gateway.go:38`). A peer repointed while a call is
  out stores the old panel's status under its id. forEachUserHost says one
  globally sorted sequence, but hosts are grouped by proxy; its `sort.Slice`
  leaves ties in any order.
- On a first boot two processes each make a `jwt_secrets` row
  (`cmd/panel/main.go:318`).
- A "create" button of an old screen creates a user before its own summary was
  shown (`actions.go`).
- The console saves what typed text will mean before it shows the question, and
  a screen that neither edit nor new message brings is only logged
  (`dispatch.go:111-125`), as is, if at all, a session that Redis did not delete
  (`session.go:79-81`): text typed then goes to what no screen asked for. ChatIsSafe
  names it through `unseen` and `stale`; nothing is reset, revoked, deleted or
  dumped that way.

*Restore and import.*
- A request admitted before the flag writes after the safety backup and is lost,
  against `backup.go:271`'s "nothing can write"; two overlapping restores lift
  each other's flag, and FlushAll wipes it too; a crash, or a Redis call whose
  answer is lost, leaves it up for ever (it has no TTL, and when raising it fails
  the deferred call that lowers it was not registered yet, `backup.go:279-282`); a dump that crashed leaves a truncated
  file in the list. RestoreSafe names these through `crossed`, `lame` and the
  other history variables.
- `TRUNCATE ... CASCADE` empties tickets and usage tables that
  `legacyimport.sql:48` says are not touched; overlapping imports can give users
  to the wrong admins.

## 7. Plan

Done: the modules above, and theorems about all of them. Next:

1. The liveness properties' safety halves: a variant that no step raises while
   the premise holds (the pull's comparison, the exits not yet switched), which
   the prover can take, so that only the fair step is left to TLC.
2. The components that are `partly` modelled in `PROJECT.json`.
