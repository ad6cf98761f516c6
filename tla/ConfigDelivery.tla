---------------------------- MODULE ConfigDelivery ----------------------------
(***************************************************************************)
(* What the delivery of configs to a node promises, without versions,      *)
(* 304s, lastPulled and the comparison of configs: the panel publishes,    *)
(* the node fetches what is published at that time, and applies what it    *)
(* fetched once, if at all.  Either it starts the fetched config afresh,   *)
(* or it puts some of the fetched lists on listeners of a core that        *)
(* differs from the fetched config in nothing but its lists.               *)
(*                                                                         *)
(* An offer is a config as a core runs it: [fixed, lists], what cannot     *)
(* change while it runs and the user list of each listener.  A core that   *)
(* an operator started from a config of their own is none of the panel's   *)
(* and does not appear.                                                    *)
(***************************************************************************)
CONSTANTS
    Offers, \* what the panel may publish
    ByHand  \* the lists an operator may set

VARIABLES
    published, \* the offer the panel makes now
    fetched,   \* the offer in the node's hands: a set of at most one
    delivered  \* the running core made of offers: a set of at most one

delivery == <<published, fetched, delivered>>

DeliveryInit ==
    /\ published \in Offers
    /\ fetched = {}
    /\ delivered = {}

Announce ==
    /\ published' \in Offers
    /\ UNCHANGED <<fetched, delivered>>

Fetch ==
    /\ fetched = {}
    /\ fetched' = {published}
    /\ UNCHANGED <<published, delivered>>

\* Nothing comes of what was fetched.
Discard ==
    /\ fetched' = {}
    /\ UNCHANGED <<published, delivered>>

\* What runs is replaced as a whole, or ends and its replacement fails.
Restart ==
    /\ fetched # {}
    /\ fetched' = {}
    /\ delivered' \in {fetched, {}}
    /\ UNCHANGED published

WithLists(c, S, new) ==
    [fixed |-> c.fixed, lists |-> [l \in DOMAIN c.lists |-> IF l \in S THEN new[l] ELSE c.lists[l]]]

\* Some listeners take their list of the offer, the others keep the one they have.
Refresh ==
    /\ fetched' = {}
    /\ \E o \in fetched, c \in delivered :
          /\ o.fixed = c.fixed
          /\ \E S \in SUBSET (DOMAIN c.lists \cap DOMAIN o.lists) :
                delivered' = {WithLists(c, S, o.lists)}
    /\ UNCHANGED published

\* An operator sets one list on some listeners.
SetLists ==
    /\ \E c \in delivered, list \in ByHand :
          \E S \in SUBSET DOMAIN c.lists :
             delivered' = {WithLists(c, S, [l \in S |-> list])}
    /\ UNCHANGED <<published, fetched>>

\* An operator stops the core, or the agent ends.
Stop ==
    /\ delivered' = {}
    /\ fetched' \in {fetched, {}}
    /\ UNCHANGED published

DeliveryNext ==
    \/ Announce \/ Fetch \/ Discard
    \/ Restart \/ Refresh
    \/ SetLists \/ Stop

DeliverySpec == DeliveryInit /\ [][DeliveryNext]_delivery
=============================================================================
