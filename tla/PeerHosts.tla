----------------------------- MODULE PeerHosts -----------------------------
(***************************************************************************)
(* Another panel's hosts in a user's subscription (internal/gatewayjob,    *)
(* httpapi/gateway_status.go, gateway_subscription.go, gatewayclient).     *)
(*                                                                         *)
(* A background tick asks every enabled peer for its hosts and its load,   *)
(* in a goroutine each, and keeps the answers in Redis under the peer's id *)
(* for peerStatusTTL.  A subscription lists the peers and then reads those *)
(* keys; it never calls a peer.  Meanwhile admins disable, repoint and     *)
(* delete peers, calls time out, and the peers' own nodes stop reporting.  *)
(*                                                                         *)
(* Times are ages in ticks of one refresh interval.                        *)
(***************************************************************************)
EXTENDS Integers, FiniteSets, FiniteSetsExt, SequencesExt

CONSTANTS
    Sites,        \* the other panels
    Entries,      \* ids of gateway_peers rows, above 0
    SiteHosts,    \* site -> set of its enabled hosts: [tag, proto, rank, own, inbound]
    UserProtos,   \* the protocols the subscriber has a proxy for
    SiteNodes,    \* nodes of each site
    Crowds,       \* connection counts a node reports
    StatusTTL,    \* peerStatusTTL
    StaleAfter,   \* staleAfter, of a node's sample
    MaxEdits,     \* bound: changes of peers by admins
    MaxSamples    \* bound: samples of the sites' nodes and failed calls

\* An inbound's own security is none, tls or reality (inbounds.go:240).
ASSUME PeerHostsAssumption ==
    /\ StatusTTL \in Nat \ {0} /\ StaleAfter \in Nat
    /\ IsFiniteSet(SiteNodes) /\ Crowds \subseteq Nat
    /\ \A s \in Sites : \A h \in SiteHosts[s] : h.inbound # "inbound_default"

VARIABLES
    entry,     \* id -> [site, enabled]; site "none" when the row is gone
    sample,    \* site -> node -> [conns, age]
    asked,     \* id -> the call under way: [site, answer, old]
    kept,      \* id -> the cached status [answer, old, left], or NoStatus
    listing,   \* the peers a subscription listed, or NoList
    merged,    \* what its page shows: a sequence of [id, host, crowd, site, old]
    edits, samples

peerVars == <<entry, sample, asked, kept, listing, merged, edits, samples>>

Gone == [site |-> "none", enabled |-> FALSE]
NoAnswer == [hosts |-> {}, crowd |-> 0, live |-> <<>>]
NoCall == [site |-> "none", answer |-> NoAnswer, old |-> 0]
NoStatus == [site |-> "none", answer |-> NoAnswer, old |-> 0, left |-> 0]
NoList == {0}
TooOld == StatusTTL + 2
Aged(a, top) == IF a < top THEN a + 1 ELSE top
Edit == edits < MaxEdits /\ edits' = edits + 1
Event == samples < MaxSamples /\ samples' = samples + 1

-----------------------------------------------------------------------------
(* The peer's side                                                         *)

\* Fault: the last sample counts however old it is.
EverReported(s) == SiteNodes

\* computePanelCrowdedness skips nodes without a recent sample.
Counted(s) == {n \in SiteNodes : sample[s][n].age <= StaleAfter}
Figure(conns) == MapThenSumSet(LAMBDA n : conns[n], DOMAIN conns)
Crowdedness(s) == Figure([n \in Counted(s) |-> sample[s][n].conns])

\* BuildEffectiveInbound: the host's own value, or its inbound's.
Resolved(h) == [tag |-> h.tag, proto |-> h.proto, rank |-> h.rank,
                security |-> IF h.own = "inbound_default" THEN h.inbound ELSE h.own]

\* handleGatewayStatus; live, for the properties, is what the nodes alive just now carry.
Status(s) == [hosts |-> {Resolved(h) : h \in SiteHosts[s]}, crowd |-> Crowdedness(s),
              live |-> [n \in {m \in SiteNodes : sample[s][m].age <= StaleAfter} |-> sample[s][n].conns]]

\* A node of a site reports its connections.
Sampled(s, n) ==
    /\ Event
    /\ \E c \in Crowds : sample' = [sample EXCEPT ![s][n] = [conns |-> c, age |-> 0]]
    /\ merged' = <<>>
    /\ UNCHANGED <<entry, asked, kept, listing, edits>>

-----------------------------------------------------------------------------
(* gatewayjob                                                              *)

\* refresh starts a call for every enabled peer, with the row it read.
StartRefresh ==
    /\ \E e \in Entries : entry[e].enabled /\ asked[e] = NoCall
    /\ asked' = [e \in Entries |-> IF entry[e].enabled /\ asked[e] = NoCall
                                   THEN [NoCall EXCEPT !.site = entry[e].site] ELSE asked[e]]
    /\ merged' = <<>>
    /\ UNCHANGED <<entry, sample, kept, listing, edits, samples>>

\* The peer answers.
PeerAnswers(e) ==
    /\ asked[e].site # "none" /\ asked[e].answer = NoAnswer
    /\ asked' = [asked EXCEPT ![e].answer = Status(asked[e].site)]
    /\ merged' = <<>>
    /\ UNCHANGED <<entry, sample, kept, listing, edits, samples>>

\* Fault: the entry never ages out.
KeepsForever(e) == [site |-> asked[e].site, answer |-> asked[e].answer, old |-> asked[e].old, left |-> TooOld + 1]

\* Set with peerStatusTTL, under the peer's id.
KeepsFor(e) == [site |-> asked[e].site, answer |-> asked[e].answer, old |-> asked[e].old, left |-> StatusTTL]

StoreStatus(e) ==
    /\ asked[e].answer # NoAnswer
    /\ kept' = [kept EXCEPT ![e] = KeepsFor(e)]
    /\ asked' = [asked EXCEPT ![e] = NoCall]
    /\ merged' = <<>>
    /\ UNCHANGED <<entry, sample, listing, edits, samples>>

\* The call, its decoding or the Set fails: what was cached stays.
RefreshFails(e) ==
    /\ asked[e] # NoCall /\ Event
    /\ asked' = [asked EXCEPT ![e] = NoCall]
    /\ merged' = <<>>
    /\ UNCHANGED <<entry, sample, kept, listing, edits>>

\* Time passes; no call outlives peerCallTimeout, which is below a tick.
RefreshInterval ==
    /\ \A e \in Entries : asked[e].old = 0
    /\ sample' = [s \in Sites |-> [n \in SiteNodes |-> [sample[s][n] EXCEPT !.age = Aged(@, StaleAfter + 1)]]]
    /\ asked' = [e \in Entries |-> IF asked[e] = NoCall THEN NoCall ELSE [asked[e] EXCEPT !.old = 1]]
    /\ kept' = [e \in Entries |-> IF kept[e].left <= 1 THEN NoStatus
                                  ELSE [kept[e] EXCEPT !.old = Aged(@, TooOld), !.left = IF @ > TooOld THEN @ ELSE @ - 1]]
    /\ listing' = NoList
    /\ merged' = <<>>
    /\ UNCHANGED <<entry, edits, samples>>

-----------------------------------------------------------------------------
(* Admins                                                                  *)

\* A peer is added, disabled, enabled or repointed, or removed; ids are not reused.
PutPeer(e) ==
    /\ Edit
    /\ \E s \in Sites, on \in BOOLEAN : entry' = [entry EXCEPT ![e] = [site |-> s, enabled |-> on]]
    /\ entry'[e] # entry[e]
    /\ merged' = <<>>
    /\ UNCHANGED <<sample, asked, kept, listing, samples>>

DeletePeer(e) ==
    /\ Edit
    /\ entry[e] # Gone
    /\ entry' = [entry EXCEPT ![e] = Gone]
    /\ merged' = <<>>
    /\ UNCHANGED <<sample, asked, kept, listing, samples>>

-----------------------------------------------------------------------------
(* A subscription                                                          *)

\* gatherPeerHosts lists the peers...
ListPeers ==
    /\ listing = NoList
    /\ listing' = {e \in Entries : entry[e].enabled}
    /\ merged' = <<>>
    /\ UNCHANGED <<entry, sample, asked, kept, edits, samples>>

\* ... reads each one's key, keeps the hosts whose protocol the user has, ...
EligiblePeers ==
    UNION {{[id |-> e, host |-> h, crowd |-> kept[e].answer.crowd, site |-> kept[e].site,
             live |-> kept[e].answer.live, old |-> kept[e].old] :
               h \in {x \in kept[e].answer.hosts : x.proto \in UserProtos}} : e \in listing}

\* ... and sorts them: the less crowded peer first, then by the peer's priority.
Before(a, b) == a.crowd < b.crowd \/ (a.crowd = b.crowd /\ a.host.rank <= b.host.rank)

MergePeers ==
    /\ listing # NoList
    /\ \E s \in SetToSeqs(EligiblePeers) :
          /\ \A i, j \in DOMAIN s : i < j => Before(s[i], s[j])
          /\ merged' = s
    /\ listing' = NoList
    /\ UNCHANGED <<entry, sample, asked, kept, edits, samples>>

PeerInit ==
    /\ entry = [e \in Entries |-> Gone]
    /\ sample = [s \in Sites |-> [n \in SiteNodes |-> [conns |-> 0, age |-> StaleAfter + 1]]]
    /\ asked = [e \in Entries |-> NoCall]
    /\ kept = [e \in Entries |-> NoStatus]
    /\ listing = NoList /\ merged = <<>>
    /\ edits = 0 /\ samples = 0

PeerNext ==
    \/ \E s \in Sites, n \in SiteNodes : Sampled(s, n)
    \/ StartRefresh \/ RefreshInterval \/ ListPeers \/ MergePeers
    \/ \E e \in Entries : PeerAnswers(e) \/ StoreStatus(e) \/ RefreshFails(e) \/ PutPeer(e) \/ DeletePeer(e)

PeerSpec == PeerInit /\ [][PeerNext]_peerVars

-----------------------------------------------------------------------------
(* Properties                                                              *)

\* A host on a page is one its panel offered at most peerStatusTTL (and one call)
\* ago, to a user who has its protocol, with a security a client can use; and its
\* panel was ranked by the connections of its nodes that were alive, all of them and
\* no others, so that a dead node never makes a panel look busy.
PeersServedRightly ==
    \A i \in DOMAIN merged : LET o == merged[i] IN
      /\ o.old <= StatusTTL
      /\ o.host.proto \in UserProtos /\ o.host.security # "inbound_default"
      /\ \E h \in SiteHosts[o.site] : h.tag = o.host.tag /\ h.proto = o.host.proto
      /\ o.crowd = Figure(o.live)
      /\ \A j \in DOMAIN merged : merged[j].crowd < o.crowd => j < i

PeerTypeOK ==
    /\ \A e \in Entries : entry[e].site \in Sites \cup {"none"} /\ asked[e].old \in 0 .. 1
    /\ \A e \in Entries : kept[e].left \in 0 .. TooOld + 1 /\ kept[e].old \in 0 .. TooOld
    /\ \A s \in Sites, n \in SiteNodes : sample[s][n].age \in 0 .. StaleAfter + 1

\* What a subscription gets of the other panels (gateway_subscription.go).
PeerHostsAreSound == PeerTypeOK /\ PeersServedRightly
=============================================================================
