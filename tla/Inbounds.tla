------------------------------ MODULE Inbounds ------------------------------
(***************************************************************************)
(* One of the node's listeners: the forked sing-box inbounds of            *)
(* internal/nodecore (vless, vmess, trojan, shadowsocks, hysteria2, tuic,  *)
(* snell, anytls), whose user list is replaced while clients are in the    *)
(* middle of their handshakes (Node.UpdateUsers).                          *)
(*                                                                         *)
(* A handshake takes as long as the client likes.  What it resolves is a   *)
(* userkey.Key, which carries the name; upstream's index into the user     *)
(* list would be looked up a second time, in whatever list is then there.  *)
(* The QUIC protocols and anytls authenticate a session once and open      *)
(* streams on it for as long as it lives.                                  *)
(*                                                                         *)
(* A user is a name and a secret: the UUID, password or user key that its  *)
(* protocol authenticates by.  What TLS, transports and the wire services  *)
(* of sing do is external; that they resolve a secret in the list they     *)
(* were last given is how the code uses them.                              *)
(***************************************************************************)
EXTENDS Integers, Sequences, FiniteSets

CONSTANTS
  Clients,     \* connections (or QUIC sessions) of clients
  UserLists,   \* the lists that a pull or a PUT may bring
  UserSecrets, \* secrets that clients present
  Unnamed,     \* the empty name
  NoSecret,    \* a missing UUID or key
  Nobody,      \* no user: nothing found, nothing resolved
  MaxUpdates   \* bound: user lists sent

UserNames == STRING \cup {Unnamed}

(* userkey.Key: a name, and the label that its bytes are billed under. *)
UserKeys == [name : UserNames, label : UserNames \X Nat]

ASSUME UserListsAssumption ==
  /\ \A l \in UserLists : l \in Seq([name : UserNames, secret : UserSecrets \cup {NoSecret}])
  /\ NoSecret \notin UserSecrets
  /\ Nobody \notin UserKeys /\ Nobody \notin [UserSecrets -> UserKeys \cup {Nobody}]
  /\ Nobody \notin UserNames \X Nat
  /\ MaxUpdates \in Nat

VARIABLES
  protocol,   \* the listener's type
  options,    \* what is wrong with its options, if anything
  inbound,    \* "none", "built", "started", "closed"
  service,    \* the wire service's user table, and when it was installed
  accepted,   \* history: the last list whose update returned no error
  sent,       \* history: the last list sent
  updates,    \* lists sent so far
  client,     \* each client's connection
  owners      \* history: whom the presented secret belonged to since Accept

inbVars == <<protocol, options, inbound, service, accepted, sent, updates, client, owners>>

Protocols == {"vless", "vmess", "trojan", "shadowsocks", "hysteria2", "tuic", "snell", "anytls"}

(* Protocols whose connection carries several streams of its user. *)
Multiplexed == {"hysteria2", "tuic", "anytls"}

(* userkey.Build: one key per user, labelled by its name, or by its place    *)
(* when it has none.                                                         *)
Build(users) ==
  [i \in DOMAIN users |->
     [name |-> users[i].name,
      label |-> <<users[i].name, IF users[i].name = Unnamed THEN i - 1 ELSE 0>>]]

(* The table of a service: whom each secret authenticates, the last of those *)
(* that share it.                                                            *)
TableOf(users, keys) ==
  [s \in UserSecrets |->
     LET holders == {i \in DOMAIN users : users[i].secret = s}
     IN IF holders = {} THEN Nobody
        ELSE keys[CHOOSE i \in holders : \A j \in holders : j <= i]]

Keyed(users) == TableOf(users, Build(users))

SharedSecret(users) ==
  \E i, j \in DOMAIN users : i # j /\ users[i].secret = users[j].secret

MissingSecret(users) == \E i \in DOMAIN users : users[i].secret = NoSecret

----------------------------------------------------------------------------
(* What the constructors refuse, by the part of the options at fault. *)

VLESSRefuses == {"multiplex", "tls", "transport"}
VMessRefuses == {"multiplex", "tls", "transport"}
TrojanRefuses ==
  {"tls", "fallback address", "fallback ALPN without TLS", "fallback ALPN address",
   "transport", "multiplex"}
ShadowsocksRefuses ==
  {"destinations", "managed", "method of 2022", "method unknown", "multiplex"}
Hysteria2Refuses ==
  {"TLS missing", "tls", "obfs password", "obfs type", "masquerade directory",
   "masquerade URL", "masquerade type"}
Hysteria2RealmRefuses == {"realm address", "realm resolver", "realm client", "service"}
TUICRefuses == {"TLS missing", "tls", "service"}
SnellRefuses == {"version", "mode", "service"}
AnyTLSRefuses == {"TLS missing", "tls", "service"}

Refuses(p) ==
  CASE p = "vless" -> VLESSRefuses
    [] p = "vmess" -> VMessRefuses
    [] p = "trojan" -> TrojanRefuses
    [] p = "shadowsocks" -> ShadowsocksRefuses
    [] p = "hysteria2" -> Hysteria2Refuses \cup Hysteria2RealmRefuses
    [] p = "tuic" -> TUICRefuses
    [] p = "snell" -> SnellRefuses
    [] p = "anytls" -> AnyTLSRefuses

----------------------------------------------------------------------------
(* UpdateUsers of each inbound: the new table, or Nobody when it fails. *)

UpdateVLESSUsers(users) == Keyed(users)
UpdateVMessUsers(users) == Keyed(users)
UpdateTrojanUsers(users) == IF SharedSecret(users) THEN Nobody ELSE Keyed(users)
(* A service of its own for each list, stored when it is complete. *)
UpdateShadowsocksUsers(users) == Keyed(users)
UpdateHysteria2Users(users) == Keyed(users)
UpdateTUICUsers(users) == IF MissingSecret(users) THEN Nobody ELSE Keyed(users)

\* Fault: an empty list goes to sing-snell, which refuses it.
UpdateSnellPassesEmpty(users) ==
  IF MissingSecret(users) \/ SharedSecret(users) \/ users = <<>>
  THEN Nobody ELSE Keyed(users)

(* sing-snell takes no empty list: an entry that no client can present       *)
(* stands for it, so its table has nobody for every secret presented.        *)
UpdateSnellUsers(users) ==
  IF MissingSecret(users) \/ SharedSecret(users) THEN Nobody ELSE Keyed(users)

(* anytls hands the name itself through; an unnamed user has none. *)
UpdateAnyTLSUsers(users) ==
  TableOf(users, [i \in DOMAIN users |-> [name |-> users[i].name, label |-> <<users[i].name, 0>>]])

UpdateUsersOf(p, users) ==
  CASE p = "vless" -> UpdateVLESSUsers(users)
    [] p = "vmess" -> UpdateVMessUsers(users)
    [] p = "trojan" -> UpdateTrojanUsers(users)
    [] p = "shadowsocks" -> UpdateShadowsocksUsers(users)
    [] p = "hysteria2" -> UpdateHysteria2Users(users)
    [] p = "tuic" -> UpdateTUICUsers(users)
    [] p = "snell" -> UpdateSnellUsers(users)
    [] p = "anytls" -> UpdateAnyTLSUsers(users)

----------------------------------------------------------------------------
NoClient == [stage |-> "none", secret |-> NoSecret, table |-> Nobody, key |-> Nobody,
             billed |-> Nobody, counted |-> FALSE, streams |-> 0]

NoTable == [s \in UserSecrets |-> Nobody]

InbInit ==
  /\ protocol \in Protocols
  /\ options \in Refuses(protocol) \cup {"sound"}
  /\ inbound = "none"
  /\ service = NoTable
  /\ accepted = <<>> /\ sent = <<>>
  /\ updates = 0
  /\ client = [c \in Clients |-> NoClient]
  /\ owners = [c \in Clients |-> {}]

LabelOf(key) == IF key = Nobody THEN Nobody ELSE key.label

(* Installing a table also gives every open handshake a new owner of its secret. *)
Install(table) ==
  /\ service' = table
  /\ owners' = [c \in Clients |->
       IF client[c].stage = "none" THEN owners[c]
       ELSE owners[c] \cup {LabelOf(table[client[c].secret])}]

(* NewInbound: the options are judged first, then the first list installed.  *)
NewInbound(users) ==
  /\ inbound = "none"
  /\ options \notin Refuses(protocol)
  /\ LET table == UpdateUsersOf(protocol, users)
     IN /\ table # Nobody
        /\ inbound' = "built"
        /\ Install(table)
        /\ accepted' = users /\ sent' = users
  /\ UNCHANGED <<protocol, options, updates, client>>

(* Start opens the listener: TLS first, then TCP, or the transport on it ... *)
StartTCP ==
  /\ protocol \notin {"hysteria2", "tuic"}
  /\ inbound = "built"
  /\ inbound' = "started"
  /\ UNCHANGED <<protocol, options, service, accepted, sent, updates, client, owners>>

(* ... or UDP with the QUIC service on it. *)
StartQUIC ==
  /\ protocol \in {"hysteria2", "tuic"}
  /\ inbound = "built"
  /\ inbound' = "started"
  /\ UNCHANGED <<protocol, options, service, accepted, sent, updates, client, owners>>

(* Node.UpdateUsers: the inbound's own UpdateUsers decides, all or nothing.  *)
UpdateUsers(users) ==
  /\ inbound = "started"
  /\ updates < MaxUpdates
  /\ updates' = updates + 1
  /\ sent' = users
  /\ LET table == UpdateUsersOf(protocol, users)
     IN IF table = Nobody
        THEN UNCHANGED <<service, accepted, owners>>
        ELSE Install(table) /\ accepted' = users
  /\ UNCHANGED <<protocol, options, inbound, client>>

Accept(c, s, table) ==
  /\ inbound = "started"
  /\ client[c].stage = "none"
  /\ client' = [client EXCEPT ![c] =
       [NoClient EXCEPT !.stage = "handshake", !.secret = s, !.table = table]]
  /\ owners' = [owners EXCEPT ![c] = {LabelOf(service[s])}]
  /\ UNCHANGED <<protocol, options, inbound, service, accepted, sent, updates>>

(* A client connects: the one service is asked when its header has come ...  *)
AcceptClient(c, s) == protocol # "shadowsocks" /\ Accept(c, s, Nobody)

(* ... except that shadowsocks loads the service of now for the connection.  *)
AcceptShadowsocks(c, s) == protocol = "shadowsocks" /\ Accept(c, s, service)

Resolve(c) ==
  (IF protocol = "shadowsocks" THEN client[c].table ELSE service)[client[c].secret]

(* The service has read the client's header and found its user. *)
Authenticate(c) ==
  /\ client[c].stage = "handshake"
  /\ Resolve(c) # Nobody
  /\ client' = [client EXCEPT ![c].stage = "authenticated", ![c].key = Resolve(c),
                              ![c].table = Nobody]
  /\ UNCHANGED <<protocol, options, inbound, service, accepted, sent, updates, owners>>

(* No such user, or the TLS handshake failed: CloseOnHandshakeFailure. *)
RefuseClient(c) ==
  /\ client[c].stage = "handshake"
  /\ client' = [client EXCEPT ![c] = NoClient]
  /\ owners' = [owners EXCEPT ![c] = {}]
  /\ UNCHANGED <<protocol, options, inbound, service, accepted, sent, updates>>

(* trojan relays whom it does not know to the fallback, if it has one: no    *)
(* user, nothing counted.                                                    *)
FallbackConnection(c) ==
  /\ protocol = "trojan"
  /\ client[c].stage = "handshake" /\ Resolve(c) = Nobody
  /\ client' = [client EXCEPT ![c].stage = "fallback"]
  /\ UNCHANGED <<protocol, options, inbound, service, accepted, sent, updates, owners>>

\* Fault: the key is a position, looked up again in the list of now.
BilledByPosition(c) ==
  LET places == {i \in DOMAIN accepted : Build(accepted)[i] = client[c].key}
  IN IF places # {} THEN client[c].key.label
     ELSE IF accepted = <<>> THEN Nobody ELSE Build(accepted)[1].label

(* Whom a stream is billed to. *)
BilledTo(c) == client[c].key.label

(* The stream's bytes are billed; a TCP stream is also counted as presence.  *)
Route(c, label, counted) ==
  /\ client[c].stage = "authenticated"
  /\ client[c].streams = 0
  /\ client' = [client EXCEPT ![c].streams = 1, ![c].billed = label, ![c].counted = counted]
  /\ UNCHANGED <<protocol, options, inbound, service, accepted, sent, updates, owners>>

(* newConnectionEx and its likes, one per inbound. *)
RouteVLESS(c) == protocol = "vless" /\ Route(c, BilledTo(c), TRUE)
RouteVMess(c) == protocol = "vmess" /\ Route(c, BilledTo(c), TRUE)
RouteTrojan(c) == protocol = "trojan" /\ Route(c, BilledTo(c), TRUE)
RouteShadowsocks(c) == protocol = "shadowsocks" /\ Route(c, BilledTo(c), TRUE)
RouteHysteria2(c) == protocol = "hysteria2" /\ Route(c, BilledTo(c), TRUE)
RouteTUIC(c) == protocol = "tuic" /\ Route(c, BilledTo(c), TRUE)
RouteSnell(c) == protocol = "snell" /\ Route(c, BilledTo(c), TRUE)

(* anytls neither bills nor counts an unnamed user. *)
RouteAnyTLS(c) ==
  /\ protocol = "anytls"
  /\ IF client[c].key = Nobody \/ client[c].key.name = Unnamed
     THEN Route(c, Nobody, FALSE)
     ELSE Route(c, BilledTo(c), TRUE)

(* newPacketConnectionEx: billed, never counted; anytls has no packets. *)
RoutePacketVLESS(c) == protocol = "vless" /\ Route(c, BilledTo(c), FALSE)
RoutePacketVMess(c) == protocol = "vmess" /\ Route(c, BilledTo(c), FALSE)
RoutePacketTrojan(c) == protocol = "trojan" /\ Route(c, BilledTo(c), FALSE)
RoutePacketShadowsocks(c) == protocol = "shadowsocks" /\ Route(c, BilledTo(c), FALSE)
RoutePacketHysteria2(c) == protocol = "hysteria2" /\ Route(c, BilledTo(c), FALSE)
RoutePacketTUIC(c) == protocol = "tuic" /\ Route(c, BilledTo(c), FALSE)
RoutePacketSnell(c) == protocol = "snell" /\ Route(c, BilledTo(c), FALSE)

RouteAny(c) ==
  \/ RouteVLESS(c) \/ RouteVMess(c) \/ RouteTrojan(c) \/ RouteShadowsocks(c)
  \/ RouteHysteria2(c) \/ RouteTUIC(c) \/ RouteSnell(c) \/ RouteAnyTLS(c)
  \/ RoutePacketVLESS(c) \/ RoutePacketVMess(c) \/ RoutePacketTrojan(c)
  \/ RoutePacketShadowsocks(c) \/ RoutePacketHysteria2(c) \/ RoutePacketTUIC(c)
  \/ RoutePacketSnell(c)

(* A stream ends; without multiplexing its connection ends with it. *)
EndStream(c) ==
  /\ client[c].streams = 1
  /\ IF protocol \in Multiplexed
     THEN /\ client' = [client EXCEPT ![c].streams = 0, ![c].counted = FALSE,
                                      ![c].billed = Nobody]
          /\ UNCHANGED owners
     ELSE /\ client' = [client EXCEPT ![c] = NoClient]
          /\ owners' = [owners EXCEPT ![c] = {}]
  /\ UNCHANGED <<protocol, options, inbound, service, accepted, sent, updates>>

(* Close: no more clients; the open ones are the core's to close. *)
CloseInbound ==
  /\ inbound = "started"
  /\ inbound' = "closed"
  /\ UNCHANGED <<protocol, options, service, accepted, sent, updates, client, owners>>

InbNext ==
  \/ \E l \in UserLists : NewInbound(l) \/ UpdateUsers(l)
  \/ StartTCP \/ StartQUIC
  \/ \E c \in Clients :
       \/ \E s \in UserSecrets : AcceptClient(c, s) \/ AcceptShadowsocks(c, s)
       \/ Authenticate(c)
       \/ RefuseClient(c)
       \/ FallbackConnection(c)
       \/ RouteAny(c)
       \/ EndStream(c)
  \/ CloseInbound

InbSpec == InbInit /\ [][InbNext]_inbVars

----------------------------------------------------------------------------
InbTypeOK ==
  /\ protocol \in Protocols
  /\ options \in Refuses(protocol) \cup {"sound"}
  /\ inbound \in {"none", "built", "started", "closed"}
  /\ DOMAIN service = UserSecrets
  /\ updates \in 0..MaxUpdates
  /\ \A c \in Clients :
       /\ client[c].stage \in {"none", "handshake", "authenticated", "fallback"}
       /\ client[c].streams \in 0..1

(* A stream is billed to whoever held its secret at some time since its      *)
(* client connected: a list that is replaced during a handshake, or under a  *)
(* living session, never moves bytes to another user of the listener.        *)
BilledToOwner ==
  \A c \in Clients :
    client[c].streams = 1 /\ client[c].billed # Nobody => client[c].billed \in owners[c]

(* The service admits exactly the secrets of the last list it took, and it   *)
(* takes every list whose users have secrets of their own, the empty one     *)
(* too: who was removed is out, and a refused list changes nothing           *)
(* (nodecore.go, "On error the running list is unchanged"; snell, "refuses   *)
(* every real client").                                                      *)
AdmitsTheAcceptedList ==
  inbound = "started" =>
    /\ \A s \in UserSecrets :
         service[s] # Nobody <=> \E i \in DOMAIN accepted : accepted[i].secret = s
    /\ ~SharedSecret(sent) /\ ~MissingSecret(sent) => accepted = sent

(* A listener admits the list it took and bills who it admitted (nodecore's  *)
(* inbound packages).                                                        *)
InboundsAreExact == InbTypeOK /\ BilledToOwner /\ AdmitsTheAcceptedList
=============================================================================
