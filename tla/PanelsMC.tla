------------------------------- MODULE PanelsMC -------------------------------
(***************************************************************************)
(* Instances of the parts in which panels, and processes of one panel, act *)
(* together: the gateway's replicas and its peers' hosts, backups and      *)
(* restores, the start of the processes, and the cache of node configs.    *)
(* The parts share no state here, so each behaviour is one of one part,    *)
(* chosen at the start, while the others rest.                             *)
(***************************************************************************)
EXTENDS Gateway, PeerHosts, Restore, PanelStart, NodeConfigCache, TLC

CONSTANTS m1, m2, p1, p2, t1

VARIABLE part

\* PeerHosts: one host whose security comes from its inbound and one of a
\* protocol that the user does not have.
HostsDef ==
    [s \in Sites |->
       {[tag |-> "a", proto |-> "vless", rank |-> 1, own |-> "inbound_default", inbound |-> "reality"],
        [tag |-> "b", proto |-> "trojan", rank |-> 0, own |-> "tls", inbound |-> "none"]}]

\* Restore: the admin and the user of the panel that an import comes from.
AdminsDef == <<3>>
UsersDef == <<[src |-> 2, admin |-> 3]>>

\* Panels, operators, processes, polls and profiles are interchangeable.
Perms == Permutations({m1, m2}) \cup Permutations({p1, p2})

PanelsInit ==
    /\ part \in {"gateway", "peers", "restore", "start", "cache"}
    /\ GatewayInit /\ PeerInit /\ RestoreInit /\ StartInit /\ Init
    /\ part # "cache" => \A r \in Polls : profile[r] = p1

PanelsNext ==
    /\ UNCHANGED part
    /\ \/ part = "gateway" /\ GatewayNext /\ UNCHANGED <<peerVars, restVars, startVars, vars>>
       \/ part = "peers" /\ PeerNext /\ UNCHANGED <<gwVars, restVars, startVars, vars>>
       \/ part = "restore" /\ RestoreNext /\ UNCHANGED <<gwVars, peerVars, startVars, vars>>
       \/ part = "start" /\ StartNext /\ UNCHANGED <<gwVars, peerVars, restVars, vars>>
       \/ part = "cache" /\ Next /\ UNCHANGED <<gwVars, peerVars, restVars, startVars>>

PanelsSpec == PanelsInit /\ [][PanelsNext]_<<part, gwVars, peerVars, restVars, startVars, vars>>
=============================================================================
