------------------------------ MODULE NodeSync ------------------------------
(***************************************************************************)
(* The config half of a node agent (cmd/node/main.go): the pull loop that  *)
(* fetches the panel's desired config and applies it hot or by a full      *)
(* restart of the sing-box core, and the management endpoints POST /start, *)
(* POST /stop and PUT /inbounds/{tag}/users that share the core with it.   *)
(*                                                                         *)
(* A config is a record [core, inbounds]; inbounds maps each tag to a spec *)
(* [protocol, shape, ports, users], where shape stands for every field of  *)
(* inboundSpec but its protocol, its ports and its user list.  The panel's *)
(* version is a hash of the payload, so two configs have the same version  *)
(* exactly when they are equal and the model carries no version field.     *)
(*                                                                         *)
(* Everything done while server.mu is held is one step.  The HTTP exchange *)
(* of a pull is not under the lock: a pull is three steps.                 *)
(***************************************************************************)
EXTENDS Naturals, FiniteSets

CONSTANTS
    Configs,        \* the configs the panel may render for this node
    HotProtocols,   \* the protocols this node serves and can update live
    Shadowsocks,    \* the one whose cipher is fixed when a listener starts
    NoUsers,        \* the empty user list
    Method(_),      \* shadowsocksMethod: the cipher a user list names
    Rejected,       \* <<protocol, users>> whose list UpdateUsers refuses
    ManualCalls,    \* subset of {"start", "stop", "users"}: endpoints in use
    ManualConfigs,  \* the bodies POST /start may carry
    ManualUsers,    \* the lists PUT .../users may carry
    None

ASSUME NoneAssumption == None \notin Configs \cup ManualConfigs

VARIABLES
    desired,     \* what the panel would render for this node now
    lastPulled,  \* server.lastPulled, None before the first one
    node,        \* server.node and server.plan: None, or the running core
    pull,        \* the pull in flight, if any
    altered      \* what made the running core something else than the pull loop
                 \* meant: a history the code does not keep

vars == <<desired, lastPulled, node, pull, altered>>

\* The core was started by hand, a list was set by hand, or a hot update failed
\* half way.
Alterations == {"start", "users", "refused"}

AllConfigs == Configs \cup ManualConfigs

-----------------------------------------------------------------------------
(***************************************************************************)
(* Configs and running cores.                                              *)
(***************************************************************************)

\* The sing-box listeners one inbound expands into, one per port.  An inbound
\* of a protocol buildOptionsPlan has no case for is dropped without an error.
InboundListeners(cfg, tag) ==
    IF cfg.inbounds[tag].protocol \in HotProtocols
      THEN {<<tag, port>> : port \in cfg.inbounds[tag].ports}
      ELSE {}

Listeners(cfg) ==
    UNION {InboundListeners(cfg, tag) : tag \in DOMAIN cfg.inbounds}

Tag(listener) == listener[1]

\* The core buildOptionsPlan and nodecore.New make of cfg: the config it was
\* built from (which fixes its listeners, their protocols and their ciphers)
\* and the user list each listener currently serves.
CoreOf(cfg) ==
    [cfg   |-> cfg,
     users |-> [l \in Listeners(cfg) |-> cfg.inbounds[Tag(l)].users]]

\* A list that UpdateUsers refuses is refused by the inbound's constructor too,
\* because it calls the same function: nodecore.New then fails.
Buildable(cfg) ==
    \A tag \in DOMAIN cfg.inbounds :
        InboundListeners(cfg, tag) # {} =>
            <<cfg.inbounds[tag].protocol, cfg.inbounds[tag].users>> \notin Rejected

\* nodePlan.listenerTags: an unknown tag stands for a listener of that name,
\* which is not running.
ListenerTags(core, tag) ==
    IF tag \in DOMAIN core.cfg.inbounds /\ InboundListeners(core.cfg, tag) # {}
      THEN InboundListeners(core.cfg, tag)
      ELSE {<<tag, "none">>}

\* nodecore.UpdateUsers succeeds on a running listener of that protocol when
\* its service takes the list; on an error the running list is unchanged.
Accepts(core, listener, protocol, users) ==
    /\ listener \in DOMAIN core.users
    /\ core.cfg.inbounds[Tag(listener)].protocol = protocol
    /\ <<protocol, users>> \notin Rejected

-----------------------------------------------------------------------------
(***************************************************************************)
(* diffPulledConfig.                                                       *)
(***************************************************************************)
SameShape(a, b) == a.protocol = b.protocol /\ a.shape = b.shape /\ a.ports = b.ports

UsersChanged(old, next) ==
    {tag \in DOMAIN next.inbounds : old.inbounds[tag].users # next.inbounds[tag].users}

\* A change of user list the running listener cannot take.
NeedsNewListener(old, next, tag) ==
    LET protocol == next.inbounds[tag].protocol
    IN  \/ protocol \notin HotProtocols
        \/ /\ protocol = Shadowsocks
           /\ Method(old.inbounds[tag].users) # Method(next.inbounds[tag].users)

\* Fault: the core section is not compared.
NeedsRestartNoCore(old, next) ==
    \/ old = None
    \/ DOMAIN old.inbounds # DOMAIN next.inbounds
    \/ \E tag \in DOMAIN next.inbounds :
          ~ SameShape(old.inbounds[tag], next.inbounds[tag])
    \/ \E tag \in UsersChanged(old, next) : NeedsNewListener(old, next, tag)

NeedsRestart(old, next) ==
    \/ old = None
    \/ old.core # next.core
    \/ DOMAIN old.inbounds # DOMAIN next.inbounds
    \/ \E tag \in DOMAIN next.inbounds :
          ~ SameShape(old.inbounds[tag], next.inbounds[tag])
    \/ \E tag \in UsersChanged(old, next) : NeedsNewListener(old, next, tag)

-----------------------------------------------------------------------------
\* Fault: "unchanged" is believed while nothing runs.
RunningLastPulledNoCore == lastPulled # None

\* runningLastPulledLocked.
RunningLastPulled ==
    /\ lastPulled # None
    /\ node # None \/ DOMAIN lastPulled.inbounds = {}

Init ==
    /\ desired \in Configs
    /\ lastPulled = None
    /\ node = None
    /\ pull = [phase |-> "idle"]
    /\ altered = {}

\* An administrator, a quota or an expiry changes what the panel renders.
Publish(cfg) ==
    /\ cfg # desired
    /\ desired' = cfg
    /\ UNCHANGED <<lastPulled, node, pull, altered>>

\* pullOnce up to client.Do: If-None-Match is decided under the lock.
PullSend ==
    /\ pull.phase = "idle"
    /\ pull' = [phase |-> "sent",
                etag  |-> IF RunningLastPulled THEN lastPulled ELSE None]
    /\ UNCHANGED <<desired, lastPulled, node, altered>>

\* The panel answers: 304 when the ETag still matches, else the whole body.
PullAnswer ==
    /\ pull.phase = "sent"
    /\ pull' = IF pull.etag = desired
                 THEN [phase |-> "idle"]
                 ELSE [phase |-> "answered", body |-> desired]
    /\ UNCHANGED <<desired, lastPulled, node, altered>>

\* The request fails, times out, is refused, or its body does not decode.
PullFail ==
    /\ pull.phase # "idle"
    /\ pull' = [phase |-> "idle"]
    /\ UNCHANGED <<desired, lastPulled, node, altered>>

\* Fault: a restart that forgets stopNodeLocked.
ApplyFullKeepingListeners(cfg, started) ==
    /\ started => Buildable(cfg)
    /\ node' = IF ~ started THEN None
               ELSE [CoreOf(cfg) EXCEPT !.users =
                       [l \in Listeners(cfg) \cup (IF node = None THEN {} ELSE DOMAIN node.users) |->
                          IF l \in Listeners(cfg) THEN cfg.inbounds[Tag(l)].users ELSE node.users[l]]]
    /\ lastPulled' = IF started THEN cfg ELSE lastPulled
    /\ altered' = {}

\* applyFullLocked: stop what runs, then start afresh.  started is FALSE when
\* buildOptionsPlan, nodecore.New or Node.Start fails: nothing runs then, and
\* lastPulled still names the previous config.
ApplyFull(cfg, started) ==
    /\ started => Buildable(cfg)
    /\ node' = IF started THEN CoreOf(cfg) ELSE None
    /\ lastPulled' = IF started THEN cfg ELSE lastPulled
    /\ altered' = {}

\* The listener belongs to a changed inbound and takes the new list.
Takes(l, changed, cfg) ==
    /\ Tag(l) \in changed
    /\ Accepts(node, l, cfg.inbounds[Tag(l)].protocol, cfg.inbounds[Tag(l)].users)

\* Fault: only one listener of a multi-port inbound is updated.
HotUsersOneListener(changed, cfg) ==
    [l \in DOMAIN node.users |->
        IF Takes(l, changed, cfg) /\ l = CHOOSE k \in DOMAIN node.users : Tag(k) = Tag(l)
          THEN cfg.inbounds[Tag(l)].users ELSE node.users[l]]

HotUsers(changed, cfg) ==
    [l \in DOMAIN node.users |->
        IF Takes(l, changed, cfg) THEN cfg.inbounds[Tag(l)].users ELSE node.users[l]]

HotFailed(changed, cfg) ==
    \E tag \in changed : \E l \in ListenerTags(node, tag) : ~ Takes(l, changed, cfg)

\* The hot path: every listener of every changed inbound is tried, one failure
\* does not stop the others, and lastPulled moves only if all of them worked.
ApplyHot(cfg) ==
    LET changed == UsersChanged(lastPulled, cfg)
    IN  /\ node' = [node EXCEPT !.users = HotUsers(changed, cfg)]
        /\ lastPulled' = IF HotFailed(changed, cfg) THEN lastPulled ELSE cfg
        /\ altered' = IF HotFailed(changed, cfg) THEN altered \cup {"refused"} ELSE altered

\* pullOnce from its second s.mu.Lock to the end.
PullApply(started) ==
    /\ pull.phase = "answered"
    /\ pull' = [phase |-> "idle"]
    /\ LET cfg == pull.body
       IN  IF RunningLastPulled /\ lastPulled = cfg
             THEN UNCHANGED <<lastPulled, node, altered>>
             ELSE IF node = None /\ DOMAIN cfg.inbounds = {}
             THEN lastPulled' = cfg /\ UNCHANGED <<node, altered>>
             ELSE IF node = None \/ NeedsRestart(lastPulled, cfg)
             THEN ApplyFull(cfg, started)
             ELSE ApplyHot(cfg)
    /\ UNCHANGED desired

-----------------------------------------------------------------------------
(***************************************************************************)
(* The management endpoints.  None of them touches lastPulled.             *)
(***************************************************************************)
HandleStart(cfg) ==
    /\ "start" \in ManualCalls
    /\ node = None
    /\ Buildable(cfg)
    /\ node' = CoreOf(cfg)
    /\ altered' = {"start"}
    /\ UNCHANGED <<desired, lastPulled, pull>>

HandleStop ==
    /\ "stop" \in ManualCalls
    /\ node # None
    /\ node' = None
    /\ altered' = {}
    /\ UNCHANGED <<desired, lastPulled, pull>>

UsersOfInbound(tag, users) ==
    [l \in DOMAIN node.users |-> IF Tag(l) = tag THEN users ELSE node.users[l]]

\* The listeners of the inbound all run the same protocol, so the first
\* failure, at which the handler returns, is a failure of all of them.
HandleUpdateUsers(tag, protocol, users) ==
    /\ "users" \in ManualCalls
    /\ node # None
    /\ protocol \in HotProtocols
    /\ (/\ protocol = Shadowsocks
        /\ users # NoUsers
        /\ tag \in DOMAIN node.cfg.inbounds
        /\ node.cfg.inbounds[tag].protocol = Shadowsocks)
         => Method(users) = Method(node.cfg.inbounds[tag].users)
    /\ \A l \in ListenerTags(node, tag) : Accepts(node, l, protocol, users)
    /\ node' = [node EXCEPT !.users = UsersOfInbound(tag, users)]
    /\ altered' = altered \cup {"users"}
    /\ UNCHANGED <<desired, lastPulled, pull>>

\* The agent process dies and comes back with nothing in memory.
AgentRestart ==
    /\ node' = None
    /\ lastPulled' = None
    /\ pull' = [phase |-> "idle"]
    /\ altered' = {}
    /\ UNCHANGED desired

-----------------------------------------------------------------------------
ManualTags == UNION {DOMAIN cfg.inbounds : cfg \in AllConfigs}

Next ==
    \/ \E cfg \in Configs : Publish(cfg)
    \/ PullSend
    \/ PullAnswer
    \/ PullFail
    \/ \E started \in BOOLEAN : PullApply(started)
    \/ \E cfg \in ManualConfigs : HandleStart(cfg)
    \/ HandleStop
    \/ \E tag \in ManualTags, protocol \in HotProtocols, users \in ManualUsers :
          HandleUpdateUsers(tag, protocol, users)
    \/ AgentRestart

Spec == Init /\ [][Next]_vars

\* syncLoop polls for the life of the process and handles each answer.  A poll
\* fails and a core fails to start now and then, not for ever: the ones that
\* work are strongly fair.
Fairness ==
    /\ WF_vars(PullSend)
    /\ WF_vars(\E started \in BOOLEAN : PullApply(started))
    /\ SF_vars(PullAnswer)
    /\ SF_vars(PullApply(TRUE))

FairSpec == Spec /\ Fairness

-----------------------------------------------------------------------------
(***************************************************************************)
(* Properties.                                                             *)
(***************************************************************************)

PullStates ==
    [phase : {"idle"}]
      \cup [phase : {"sent"}, etag : Configs \cup {None}]
      \cup [phase : {"answered"}, body : Configs]

\* The values server's fields and a pull in flight can hold: a running core
\* serves exactly the listeners of the config it was built from.
TypeOK ==
    /\ desired \in Configs
    /\ lastPulled \in Configs \cup {None}
    /\ node # None => /\ node = [cfg |-> node.cfg, users |-> node.users]
                      /\ node.cfg \in AllConfigs
                      /\ node.users = [l \in Listeners(node.cfg) |-> node.users[l]]
    /\ pull \in PullStates
    /\ altered \subseteq Alterations

\* What runs is cfg, user list by user list.
Serves(cfg) ==
    /\ node # None
    /\ \A tag \in DOMAIN cfg.inbounds :
         \A l \in InboundListeners(cfg, tag) :
            l \in DOMAIN node.users /\ node.users[l] = cfg.inbounds[tag].users

\* runningLastPulledLocked "reports whether what this node is running is
\* lastPulled": unless a list was set by hand or a hot update failed half way on
\* the core that runs, whenever it answers yes, every listener of lastPulled is
\* up and serves exactly lastPulled's users.  An unchanged version is answered
\* 304 on the strength of it, so a node on which it is false keeps wrong users.
RunningIsLastPulled ==
    altered = {} /\ RunningLastPulled => DOMAIN lastPulled.inbounds = {} \/ Serves(lastPulled)

\* Whatever hot update failed half way and whatever list was set by hand, a core
\* that was not started by hand has the core section, the inbounds, protocols,
\* shapes, ports and ciphers of lastPulled, the config the next pull is compared
\* with: a restart is never skipped that is needed.
RunningShapeIsLastPulled ==
    node # None /\ "start" \notin altered =>
        /\ lastPulled # None
        /\ node.cfg.core = lastPulled.core
        /\ DOMAIN node.cfg.inbounds = DOMAIN lastPulled.inbounds
        /\ \A tag \in DOMAIN lastPulled.inbounds :
              /\ SameShape(node.cfg.inbounds[tag], lastPulled.inbounds[tag])
              /\ lastPulled.inbounds[tag].protocol = Shadowsocks =>
                   Method(node.cfg.inbounds[tag].users) = Method(lastPulled.inbounds[tag].users)

\* "The cipher is fixed while the listener runs; a different one would be
\* accepted and silently not applied": no shadowsocks listener of a core that
\* was not started by hand ever serves a user list that names another cipher
\* than the one the listener runs.
CipherIsTheListeners ==
    node # None /\ "start" \notin altered =>
        \A l \in DOMAIN node.users :
            node.cfg.inbounds[Tag(l)].protocol = Shadowsocks /\ node.users[l] # NoUsers =>
                Method(node.users[l]) = Method(node.cfg.inbounds[Tag(l)].users)

\* diffPulledConfig compares an answer with lastPulled, and what comes of that is
\* right for what runs, in a core that was not started by hand.
ComparisonIsSound == RunningShapeIsLastPulled /\ CipherIsTheListeners

\* Once the panel settles, the agent stays up and nobody starts or stops its
\* core by hand, the node gets there if the config can be built: it records that
\* config as applied and a core is up if the config has inbounds - a failed
\* restart, a lost answer or a refused list on the way does not wedge it.
Converges ==
    /\ <>[][FALSE]_desired
    /\ <>[][~ AgentRestart /\ ~ HandleStop]_vars
    /\ <>[]("start" \notin altered)
    => <>[](Buildable(desired) =>
                lastPulled = desired /\ (node # None \/ DOMAIN desired.inbounds = {}))

\* The same for the access the panel granted: once it settles on a config that
\* can be built, the node's listeners serve that config's users and no others.
UsersConverge ==
    /\ <>[][FALSE]_desired
    /\ <>[][~ AgentRestart /\ ~ HandleStop]_vars
    => <>[](Buildable(desired) /\ DOMAIN desired.inbounds # {} => Serves(desired))

-----------------------------------------------------------------------------
(***************************************************************************)
(* The refinement of ConfigDelivery.                                       *)
(***************************************************************************)

\* What a running core cannot change: all of its config but the user lists, and
\* of those the cipher that a shadowsocks listener took from its list.
Fixed(cfg) ==
    [core     |-> cfg.core,
     inbounds |-> [tag \in DOMAIN cfg.inbounds |->
                     LET spec == cfg.inbounds[tag]
                     IN  <<spec.protocol, spec.shape, spec.ports,
                           IF spec.protocol = Shadowsocks THEN {Method(spec.users)} ELSE {}>>]]

AsOffer(core) == [fixed |-> Fixed(core.cfg), lists |-> core.users]

Offered(cfg) == AsOffer(CoreOf(cfg))

Delivery ==
    INSTANCE ConfigDelivery WITH
        Offers    <- {Offered(cfg) : cfg \in Configs},
        ByHand    <- ManualUsers,
        published <- Offered(desired),
        fetched   <- IF pull.phase = "answered" THEN {Offered(pull.body)} ELSE {},
        delivered <- IF node = None \/ "start" \in altered THEN {} ELSE {AsOffer(node)}

\* pullOnce compares what it fetched with lastPulled, not with what runs, and
\* sends lastPulled's version for the panel to compare: seen from outside it is
\* as if neither existed.  Each answer is what the panel rendered when it was
\* asked and is applied at most once; a hot update reaches only a core that
\* differs from the answer in nothing but its lists, and gives its listeners
\* lists of that answer; and a restart leaves nothing of the core before it.
ImplementsDelivery == Delivery!DeliverySpec
=============================================================================
