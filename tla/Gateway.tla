------------------------------ MODULE Gateway ------------------------------
(***************************************************************************)
(* Panels that replicate their users to each other (the Gateway):          *)
(* internal/httpapi/gateway.go, gateway_sync.go, the dispatching handlers  *)
(* of user.go, internal/gatewayclient.                                     *)
(*                                                                         *)
(* Every change of a local user is pushed to each enabled peer as a full   *)
(* snapshot, in a goroutine of its own: pushes overtake each other, are    *)
(* lost, and are refused once the peer has changed its secret.  The        *)
(* receiver reads the user by name, writes its row by id, reads its        *)
(* credentials and writes those, each in a statement of its own, while     *)
(* other pushes and its own administrators go on.  The calls that push     *)
(* nothing, such as revoking a subscription, are modelled too.             *)
(*                                                                         *)
(* One username with one protocol is modelled; a policy and credentials    *)
(* are the number of the change that wrote them.  The table of credentials *)
(* does not keep a user to one row of a protocol, so a user has a set of   *)
(* rows, each with its key.                                                *)
(***************************************************************************)
EXTENDS Integers, FiniteSets

CONSTANTS
  Panels,       \* the panels, each every other's peer
  MaxWrites,    \* bound: changes of users
  MaxPushes,    \* bound: pushes on their way
  MaxRotations  \* bound: changes of secrets and of peer entries

ASSUME GatewayAssumption ==
  /\ MaxWrites \in Nat /\ MaxPushes \in Nat \ {0} /\ MaxRotations \in Nat
  /\ IsFiniteSet(Panels) /\ "none" \notin Panels

VARIABLES
  person,     \* each panel's row of the user
  pushes,     \* pushes that are due, sent, or being served
  secret,     \* each panel's own gateway secret, by its version
  peer,       \* each panel's entry for another: the secret it has, enabled
  writes,     \* changes so far: the newest row id, policy and credentials
  rotations,
  drifted,    \* history: panels whose copy a lost, failed, refused, overtaken or
              \*   missing push may have left behind
  alone,      \* history: panels with one push on its way, that no other push to
              \*   the panel and no change that is not pushed has overlapped
  trespassed, \* history: a push changed or removed a panel's own user
  echoed      \* history: a replica was pushed on

gwVars == <<person, pushes, secret, peer, writes, rotations, drifted, alone, trespassed, echoed>>

NoPerson == [id |-> 0, origin |-> "none", policy |-> 0, creds |-> {}]

GatewayInit ==
  /\ person = [p \in Panels |-> NoPerson]
  /\ pushes = {}
  /\ secret = [p \in Panels |-> 0]
  /\ peer = [p \in Panels |-> [q \in Panels \ {p} |-> [secret |-> 0, enabled |-> TRUE]]]
  /\ writes = 0 /\ rotations = 0
  /\ drifted = {} /\ alone = {}
  /\ trespassed = FALSE /\ echoed = FALSE

Others(p) == Panels \ {p}
Local(p) == person[p].origin = p
Replica(p) == person[p] # NoPerson /\ ~Local(p)

----------------------------------------------------------------------------
(* The owner's side *)

(* A push to each other panel is due: the user as the statement returned it. *)
Due(p, row, deleted) ==
  {[from |-> p, to |-> q, row |-> row, policy |-> writes + 1, creds |-> {}, deleted |-> deleted,
    stage |-> "due", secret |-> 0, seen |-> 0, listed |-> {}] : q \in Others(p)}

\* Fault: replicas are pushed like any other user.
PushesAll(p) == TRUE

(* dispatchGatewayUserSync and dispatchGatewayUserDelete skip a replica. *)
PushesOn(p) == Local(p)

Queue(p, due) ==
  /\ Cardinality(pushes) + Cardinality(due) <= MaxPushes
  /\ pushes' = pushes \cup due
  /\ LET busy == {q \in Others(p) : \E x \in pushes : x.to = q}
     IN drifted' = drifted \cup busy /\ alone' = (alone \cup Others(p)) \ busy

(* A change that is not pushed leaves these panels' copies behind. *)
Behind(missed) == drifted' = drifted \cup missed /\ alone' = alone \ missed

WriteRow(p, row) ==
  /\ writes < MaxWrites
  /\ writes' = writes + 1
  /\ person' = [person EXCEPT ![p] = row]

CreateUserRow(p) ==
  /\ person[p] = NoPerson
  /\ WriteRow(p, [id |-> writes', origin |-> p, policy |-> writes',
                  creds |-> {[key |-> writes', no |-> writes']}])
  /\ Queue(p, Due(p, writes', FALSE))
  /\ UNCHANGED <<secret, peer, rotations, trespassed, echoed>>

Renewed(creds, no) == {[c EXCEPT !.no = no] : c \in creds}

(* handleModifyUser refuses a replica. *)
ModifyUserRow(p) ==
  /\ Local(p)
  /\ WriteRow(p, [person[p] EXCEPT !.policy = writes', !.creds = Renewed(@, writes')])
  /\ Queue(p, Due(p, person[p].id, FALSE))
  /\ UNCHANGED <<secret, peer, rotations, trespassed, echoed>>

(* handleDeleteUser deletes replicas too; only a local user's end is pushed. *)
DeleteUserRow(p) ==
  /\ person[p] # NoPerson
  /\ WriteRow(p, NoPerson)
  /\ IF PushesOn(p) THEN /\ Queue(p, Due(p, person[p].id, TRUE))
                         /\ echoed' = (echoed \/ ~Local(p))
     ELSE Behind({p}) /\ UNCHANGED <<pushes, echoed>>
  /\ UNCHANGED <<secret, peer, rotations, trespassed>>

(* handleRevokeUserSub and the review job push nothing. *)
SilentChange(p, revoke) ==
  /\ person[p] # NoPerson
  /\ WriteRow(p, IF revoke THEN [person[p] EXCEPT !.creds = Renewed(@, writes')]
               ELSE [person[p] EXCEPT !.policy = writes'])
  /\ Behind(IF Local(p) THEN Others(p) ELSE {p})
  /\ UNCHANGED <<pushes, secret, peer, rotations, trespassed, echoed>>

(* A push is over, and did its part or not: one that stayed alone puts right *)
(* whatever the copy had missed.                                             *)
Ends(x, done) ==
  /\ pushes' = pushes \ {x}
  /\ drifted' = IF done /\ x.to \in alone THEN drifted \ {x.to} ELSE drifted \cup {x.to}
  /\ alone' = alone \ {x.to}

Goes(x, y) == pushes' = (pushes \ {x}) \cup {y} /\ UNCHANGED <<drifted, alone>>

Numbers(creds) == {c.no : c \in creds}

(* dispatchGatewayPush reads the proxies, of the row's id, and the peers     *)
(* only now.                                                                 *)
SendPush(x) ==
  /\ x.stage = "due"
  /\ LET owner == person[x.from]
         entry == peer[x.from][x.to]
         creds == IF ~x.deleted /\ owner.id = x.row THEN Numbers(owner.creds) ELSE {}
     IN \/ entry.enabled /\ Goes(x, [x EXCEPT !.stage = "sent", !.secret = entry.secret, !.creds = creds])
        \/ ~entry.enabled /\ Ends(x, FALSE)
  /\ UNCHANGED <<person, secret, peer, writes, rotations, trespassed, echoed>>

(* The peer is unreachable, or stops at any of its statements: the error is  *)
(* only logged, and what was written stays.                                  *)
PushLost(x) ==
  /\ x.stage # "due"
  /\ Ends(x, FALSE)
  /\ UNCHANGED <<person, secret, peer, writes, rotations, trespassed, echoed>>

----------------------------------------------------------------------------
(* The receiver's side *)

(* requireGatewaySecret, and handleGatewaySyncUser up to its first decision: *)
(* the row by its name; a local user is refused as a conflict.               *)
ReceivePush(x) ==
  /\ x.stage = "sent"
  /\ IF x.secret = secret[x.to] /\ ~Local(x.to)
     THEN Goes(x, [x EXCEPT !.stage = "read", !.seen = person[x.to].id])
     ELSE Ends(x, FALSE)
  /\ UNCHANGED <<person, secret, peer, writes, rotations, trespassed, echoed>>

\* Fault: the statements find the user by its name.
FoundByName(x) == person[x.to] # NoPerson

(* DeleteUser, UpdateGatewaySyncedUser, the proxies: by the id that was read *)
(* or created.                                                               *)
StillThere(x) == person[x.to].id = x.seen

Writes(x, row) ==
  /\ person' = [person EXCEPT ![x.to] = row]
  /\ trespassed' = (trespassed \/ Local(x.to))

(* The row: gone, with new policy, or a new one of the push's origin, without *)
(* credentials yet.  The statement fails when the row, or the name, is not   *)
(* as it was read.                                                           *)
ServePush(x) ==
  /\ x.stage = "read"
  /\ LET found == x.seen # 0 /\ StillThere(x)
         free == x.seen = 0 /\ person[x.to] = NoPerson
     IN \/ /\ x.deleted
           /\ IF found THEN Writes(x, NoPerson) ELSE UNCHANGED <<person, trespassed>>
           /\ Ends(x, TRUE)
           /\ UNCHANGED writes
        \/ /\ ~x.deleted /\ found
           /\ Writes(x, [person[x.to] EXCEPT !.policy = x.policy])
           /\ Goes(x, [x EXCEPT !.stage = "row"])
           /\ UNCHANGED writes
        \/ /\ ~x.deleted /\ free
           /\ writes < MaxWrites /\ writes' = writes + 1
           /\ Writes(x, [id |-> writes', origin |-> x.from, policy |-> x.policy, creds |-> {}])
           /\ Goes(x, [x EXCEPT !.stage = "listed", !.seen = writes'])
        \/ /\ ~x.deleted /\ ~found /\ ~free
           /\ Ends(x, FALSE)
           /\ UNCHANGED <<person, trespassed, writes>>
  /\ UNCHANGED <<secret, peer, rotations, echoed>>

Keys(creds) == {c.key : c \in creds}

(* reconcileProxies reads the proxies; a new replica's are created unread.   *)
ListProxies(x) ==
  /\ x.stage = "row"
  /\ Goes(x, [x EXCEPT !.stage = "listed",
                       !.listed = IF StillThere(x) THEN Keys(person[x.to].creds) ELSE {}])
  /\ UNCHANGED <<person, secret, peer, writes, rotations, trespassed, echoed>>

(* A listed row is written; without one, a row of the push's own is created. *)
WithRow(x, creds, no) ==
  IF x.listed = {} THEN {creds \cup {[key |-> x.policy, no |-> no]}}
  ELSE {{IF c.key = k THEN [c EXCEPT !.no = no] ELSE c : c \in creds} : k \in x.listed \cap Keys(creds)}

(* What reconcileProxies, or createProxyForUser, can make of the proxies: the *)
(* listed ones go when the push has none; a listed one that is gone cannot   *)
(* be written.                                                               *)
Reconciled(x, creds) ==
  IF x.creds = {} THEN {{c \in creds : c.key \notin x.listed}}
  ELSE UNION {WithRow(x, creds, no) : no \in x.creds}

WriteProxies(x) ==
  /\ x.stage = "listed"
  /\ LET row == person[x.to]
         made == IF StillThere(x) THEN Reconciled(x, row.creds) ELSE {}
         right == row.origin = x.from /\ \A j, k \in x.listed : j = k
     IN \/ /\ made = {} /\ Ends(x, FALSE)
           /\ UNCHANGED <<person, trespassed>>
        \/ \E creds \in made : Writes(x, [row EXCEPT !.creds = creds]) /\ Ends(x, right)
  /\ UNCHANGED <<secret, peer, writes, rotations, echoed>>

----------------------------------------------------------------------------
(* Settings *)

(* handleUpdateGatewaySettings: peers keep the old secret until told. *)
RotateSecret(p) ==
  /\ rotations < MaxRotations
  /\ rotations' = rotations + 1
  /\ secret' = [secret EXCEPT ![p] = @ + 1]
  /\ UNCHANGED <<person, pushes, peer, writes, drifted, alone, trespassed, echoed>>

(* handleUpdateGatewayPeer *)
UpdatePeer(p, q) ==
  /\ rotations < MaxRotations
  /\ rotations' = rotations + 1
  /\ \E enabled \in BOOLEAN :
       peer' = [peer EXCEPT ![p][q] = [secret |-> secret[q], enabled |-> enabled]]
  /\ UNCHANGED <<person, pushes, secret, writes, drifted, alone, trespassed, echoed>>

GatewayNext ==
  \/ \E p \in Panels :
       \/ CreateUserRow(p) \/ ModifyUserRow(p) \/ DeleteUserRow(p)
       \/ \E revoke \in BOOLEAN : SilentChange(p, revoke)
       \/ RotateSecret(p)
       \/ \E q \in Others(p) : UpdatePeer(p, q)
  \/ \E x \in pushes :
       \/ SendPush(x) \/ PushLost(x) \/ ReceivePush(x)
       \/ ServePush(x) \/ ListProxies(x) \/ WriteProxies(x)

GatewaySpec == GatewayInit /\ [][GatewayNext]_gwVars

----------------------------------------------------------------------------
GatewayTypeOK ==
  /\ \A p \in Panels : person[p].id \in 0..MaxWrites /\ person[p].origin \in Panels \cup {"none"}
  /\ Cardinality(pushes) <= MaxPushes
  /\ \A x \in pushes : x.stage \in {"due", "sent", "read", "row", "listed"} /\ x.from # x.to
  /\ drifted \subseteq Panels /\ alone \subseteq Panels

(* A push never changes or removes a user that belongs to the receiving      *)
(* panel, although it decides on an earlier reading (gateway_sync.go:44),    *)
(* and replicas are not pushed on (gateway_sync.go:160).                     *)
LocalUsersAreSovereign == ~trespassed /\ ~echoed

(* When nothing is on its way, a replica is its owner's user as it is now    *)
(* and a deleted user has no replica, unless a push was lost, refused or     *)
(* overlapped by another, or the change was one that is not pushed; and the  *)
(* next push that none overlaps puts all of that right, unless two earlier   *)
(* ones left the replica two rows of credentials (gateway_sync.go:220).      *)
ReplicasFollow ==
  \A q \in Panels :
    Replica(q) /\ q \notin drifted /\ (\A x \in pushes : x.to # q) =>
      LET owner == person[person[q].origin]
      IN /\ owner # NoPerson
         /\ owner.policy = person[q].policy
         /\ Numbers(owner.creds) = Numbers(person[q].creds)

(* Panels share users without taking over one another's (gateway_sync.go).   *)
GatewayIsSound == GatewayTypeOK /\ LocalUsersAreSovereign /\ ReplicasFollow
=============================================================================
