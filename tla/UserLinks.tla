------------------------------ MODULE UserLinks ------------------------------
(***************************************************************************)
(* A customer's credentials and subscription link: creating a user under   *)
(* the reseller's cap, its proxies, revoking, deleting and re-creating it, *)
(* and opening the link (internal/httpapi/user.go, subscription.go,        *)
(* internal/subscription/token.go, internal/proxysettings).  Handlers run  *)
(* their statements one by one, with no transaction around them.  Times    *)
(* are parts of a second: rows hold exact times, a link a rounded one.     *)
(***************************************************************************)
EXTENDS Integers, FiniteSets

CONSTANTS
    UserNames,      \* usernames
    LinkProtos,     \* the protocols of a create request
    TagsOf,         \* protocol -> the tags of its inbounds, one host each
    VisionProtos,   \* the ones whose flow defaults to Vision (vless)
    Clerks,         \* concurrent requests of one reseller
    UsersLimit,     \* what the reseller API answers for it
    Parts,          \* clock steps per second
    MaxNow, MaxLinkWrites, MaxLinks

\* The imported user is one the reseller may have, and the clock begins after it.
ASSUME LinksAssumption ==
    /\ Parts \in Nat /\ Parts > 0 /\ MaxNow \in Nat /\ Parts < MaxNow
    /\ VisionProtos \subseteq LinkProtos
    /\ IsFiniteSet(UserNames) /\ UsersLimit \in Nat /\ UsersLimit > 0

VARIABLES
    now,        \* the clock, in parts of a second
    row,        \* username -> its row, or NoRow
    proxy,      \* <<user id, protocol>> -> [cred, flow, excluded] of the proxies that exist
    minted,     \* the links handed out
    job,        \* clerk -> the handler it is in
    opened,     \* the last opened link: [link, found, ok], or NoOpen
    pages,      \* what the last opened link was given: protocol -> settings and tags
    used,       \* [ids, creds, writes]: ids and credentials used so far
    capRaced       \* a cap check passed while another one's write was still due

linkVars == <<now, row, proxy, minted, job, opened, pages, used, capRaced>>

NoRow == [id |-> 0]
NoOpen == [ok |-> FALSE, found |-> NoRow]
IdleJob == [at |-> "idle"]
Without(f, S) == [x \in DOMAIN f \ S |-> f[x]]
With(f, k, v) == [x \in DOMAIN f \cup {k} |-> IF x = k THEN v ELSE f[x]]
Write == used.writes < MaxLinkWrites

-----------------------------------------------------------------------------
(* Settings                                                                *)

\* A proxy's settings: its secrets as one credential, and for the protocols that
\* have one the flow.
Settings == [cred : 1..used.creds, flow : {"none", "vision"}, excluded : SUBSET UNION {TagsOf[p] : p \in LinkProtos}]

\* FromWire: a missing secret is generated, an empty flow becomes Vision.
FromWire(p, cred, flow, excluded) ==
    [cred |-> cred, excluded |-> excluded,
     flow |-> IF p \in VisionProtos /\ flow = "none" THEN "vision" ELSE flow]

\* FromStored: what the row holds, with nothing coerced.
FromStored(p, s) == s

Revoked(p, s, cred) == [FromStored(p, s) EXCEPT !.cred = cred]

-----------------------------------------------------------------------------
(* Links                                                                   *)

\* Fault: whole seconds, rounded down.
TokenFloor(t) == (t \div Parts) * Parts

\* CreateToken rounds the time up to the next whole second.
TokenTime(t) == ((t + Parts - 1) \div Parts) * Parts

\* Every response about a user carries a link of its own.
CreateToken(r) == [kind |-> "name", name |-> r.name, owner |-> r.id, ts |-> TokenTime(now), minted |-> now]

\* ParseToken: the panel's own and Marzban's links name the user, PasarGuard's give its id.
Named(l) ==
    IF l.kind = "id" THEN LET who == {n \in UserNames : row[n].id = l.owner}
                          IN IF who = {} THEN NoRow ELSE row[CHOOSE n \in who : TRUE]
    ELSE row[l.name]

\* Fault: only revocations end a link.
OnlyRevoked(l, r) == r.revoked > l.ts

TokenPredates(l, r) == r.created > l.ts \/ r.revoked > l.ts

\* loadSubscriptionUser: one read of the row decides.
LoadSubscriptionUser(l) ==
    /\ opened' = [link |-> l, found |-> Named(l), ok |-> Named(l) # NoRow /\ ~TokenPredates(l, Named(l))]
    /\ pages' = <<>>
    /\ UNCHANGED <<now, row, proxy, minted, job, used, capRaced>>

\* forEachUserHost reads the proxies afterwards, by the row's id, and gives the hosts
\* of the tags that are not excluded; a protocol without any is left out.
SubtractTags(all, exclude) == all \ exclude
Included(id, p) == SubtractTags(TagsOf[p], proxy[<<id, p>>].excluded)

ForEachUserHost ==
    /\ opened.ok
    /\ LET id == opened.found.id
           served == {p \in LinkProtos : <<id, p>> \in DOMAIN proxy /\ Included(id, p) # {}}
       IN pages' = [p \in served |-> [settings |-> FromStored(p, proxy[<<id, p>>]), tags |-> Included(id, p)]]
    /\ UNCHANGED <<now, row, proxy, minted, job, opened, used, capRaced>>

-----------------------------------------------------------------------------
(* Creating a user                                                         *)

Counted == {n \in UserNames : row[n] # NoRow /\ row[n].status = "active"}
Due(c) == \E d \in Clerks \ {c} : job[d].at \in {"insert", "reactivate"}

\* Fault: the cap is not checked.
NoLimit == TRUE

UnderLimit == Cardinality(Counted) < UsersLimit

\* enforceResellerAPIUserLimit; an unreachable reseller API never blocks.
EnforceUserLimit(c, n) ==
    /\ job[c].at = "idle" /\ Write
    /\ UnderLimit
    /\ job' = [job EXCEPT ![c] = [at |-> "insert", name |-> n]]
    /\ capRaced' = (capRaced \/ Due(c))
    /\ UNCHANGED <<now, row, proxy, minted, opened, pages, used>>

\* CreateUser: the name is unique.
InsertUser(c) ==
    /\ job[c].at = "insert"
    /\ LET n == job[c].name
       IN IF row[n] # NoRow
            THEN job' = [job EXCEPT ![c] = IdleJob] /\ UNCHANGED <<row, used>>
            ELSE /\ row' = [row EXCEPT ![n] = [id |-> used.ids + 1, name |-> n, status |-> "active",
                                               created |-> now, revoked |-> 0]]
                 /\ used' = [used EXCEPT !.ids = @ + 1, !.writes = @ + 1]
                 /\ job' = [job EXCEPT ![c] = [at |-> "proxies", user |-> row'[n], left |-> LinkProtos]]
    /\ UNCHANGED <<now, proxy, minted, opened, pages, capRaced>>

\* createProxyForUser, one protocol at a time; one that fails ends the handler.
CreateProxyForUser(c, p) ==
    /\ job[c].at = "proxies" /\ p \in job[c].left
    /\ \/ /\ \E n \in UserNames : row[n].id = job[c].user.id
          /\ \E asked \in SUBSET TagsOf[p] :
               LET included == IF asked = {} THEN TagsOf[p] ELSE asked
               IN proxy' = With(proxy, <<job[c].user.id, p>>,
                                FromWire(p, used.creds + 1, "none", SubtractTags(TagsOf[p], included)))
          /\ used' = [used EXCEPT !.creds = @ + 1]
          /\ job' = [job EXCEPT ![c].left = @ \ {p}]
       \/ job' = [job EXCEPT ![c] = IdleJob] /\ UNCHANGED <<proxy, used>>
    /\ UNCHANGED <<now, row, minted, opened, pages, capRaced>>

\* buildUserResponse at the end of a handler.
RespondWithUser(c) ==
    /\ \/ job[c].at = "proxies" /\ job[c].left = {}
       \/ job[c].at = "respond"
    /\ minted' = minted \cup {CreateToken(job[c].user)}
    /\ job' = [job EXCEPT ![c] = IdleJob]
    /\ UNCHANGED <<now, row, proxy, opened, pages, used, capRaced>>

-----------------------------------------------------------------------------
(* Changing it                                                             *)

\* handleGetUser, handleListUsers.
GetUser(n) ==
    /\ row[n] # NoRow /\ CreateToken(row[n]) \notin minted /\ Cardinality(minted) < MaxLinks
    /\ minted' = minted \cup {CreateToken(row[n])}
    /\ UNCHANGED <<now, row, proxy, job, opened, pages, used, capRaced>>

\* handleModifyUser: a proxy is set from what the client sends back, or removed.
ReconcileProxies(n, p) ==
    /\ row[n] # NoRow /\ Write
    /\ LET key == <<row[n].id, p>>
       IN \/ /\ key \in DOMAIN proxy
             /\ \/ proxy' = [proxy EXCEPT ![key] = FromWire(p, @.cred, @.flow, @.excluded)]
                \/ proxy' = Without(proxy, {key})
             /\ used' = [used EXCEPT !.writes = @ + 1]
          \/ /\ key \notin DOMAIN proxy
             /\ proxy' = With(proxy, key, FromWire(p, used.creds + 1, "none", {}))
             /\ used' = [used EXCEPT !.creds = @ + 1, !.writes = @ + 1]
    /\ UNCHANGED <<now, row, minted, job, opened, pages, capRaced>>

\* reconcileExcludedInbounds: an empty list excludes every inbound of the protocol.
ReconcileExcludedInbounds(n, p) ==
    /\ row[n] # NoRow /\ Write /\ <<row[n].id, p>> \in DOMAIN proxy
    /\ \E tags \in SUBSET TagsOf[p] :
         proxy' = [proxy EXCEPT ![<<row[n].id, p>>].excluded = SubtractTags(TagsOf[p], tags)]
    /\ used' = [used EXCEPT !.writes = @ + 1]
    /\ UNCHANGED <<now, row, minted, job, opened, pages, capRaced>>

\* handleModifyUser: a status; making a disabled user active asks the cap first.
Disable(n) ==
    /\ row[n] # NoRow /\ row[n].status = "active" /\ Write
    /\ row' = [row EXCEPT ![n].status = "disabled"]
    /\ used' = [used EXCEPT !.writes = @ + 1]
    /\ UNCHANGED <<now, proxy, minted, job, opened, pages, capRaced>>

CheckReactivate(c, n) ==
    /\ job[c].at = "idle" /\ row[n] # NoRow /\ row[n].status = "disabled"
    /\ UnderLimit
    /\ job' = [job EXCEPT ![c] = [at |-> "reactivate", name |-> n, id |-> row[n].id]]
    /\ capRaced' = (capRaced \/ Due(c))
    /\ UNCHANGED <<now, row, proxy, minted, opened, pages, used>>

Reactivate(c) ==
    /\ job[c].at = "reactivate"
    /\ row' = [row EXCEPT ![job[c].name] =
                 IF @.id = job[c].id THEN [@ EXCEPT !.status = "active"] ELSE @]
    /\ job' = [job EXCEPT ![c] = IdleJob]
    /\ UNCHANGED <<now, proxy, minted, opened, pages, used, capRaced>>

\* handleRevokeUserSub: the secrets first, one by one, then sub_revoked_at.
BeginRevoke(c, n) ==
    /\ job[c].at = "idle" /\ row[n] # NoRow /\ Write
    /\ used' = [used EXCEPT !.writes = @ + 1]
    /\ job' = [job EXCEPT ![c] = [at |-> "rotate", user |-> row[n],
                 left |-> {p \in LinkProtos : <<row[n].id, p>> \in DOMAIN proxy}]]
    /\ UNCHANGED <<now, row, proxy, minted, opened, pages, capRaced>>

RotateProxy(c, p) ==
    /\ job[c].at = "rotate" /\ p \in job[c].left
    /\ LET key == <<job[c].user.id, p>>
       IN IF key \in DOMAIN proxy
            THEN /\ proxy' = [proxy EXCEPT ![key] = Revoked(p, @, used.creds + 1)]
                 /\ used' = [used EXCEPT !.creds = @ + 1]
                 /\ job' = [job EXCEPT ![c].left = @ \ {p}]
            ELSE job' = [job EXCEPT ![c] = IdleJob] /\ UNCHANGED <<proxy, used>>
    /\ UNCHANGED <<now, row, minted, opened, pages, capRaced>>

SetUserSubRevoked(c) ==
    /\ job[c].at = "rotate" /\ job[c].left = {}
    /\ LET n == job[c].user.name
       IN IF row[n].id # job[c].user.id
            THEN job' = [job EXCEPT ![c] = IdleJob] /\ UNCHANGED row
            ELSE /\ row' = [row EXCEPT ![n].revoked = now]
                 /\ job' = [job EXCEPT ![c] = [at |-> "respond", user |-> row'[n]]]
    /\ UNCHANGED <<now, proxy, minted, opened, pages, used, capRaced>>

\* handleDeleteUser: the proxies go with the row.
RemoveUser(n) ==
    /\ row[n] # NoRow /\ Write
    /\ row' = [row EXCEPT ![n] = NoRow]
    /\ proxy' = Without(proxy, {<<row[n].id, p>> : p \in LinkProtos})
    /\ used' = [used EXCEPT !.writes = @ + 1]
    /\ UNCHANGED <<now, minted, job, opened, pages, capRaced>>

LinkTick ==
    /\ now < MaxNow
    /\ now' = now + 1
    /\ UNCHANGED <<row, proxy, minted, job, opened, pages, used, capRaced>>

\* One imported user, stored without a flow, with the link its old panel gave it.
LinkInit ==
    \E n \in UserNames, kind \in {"id", "jwt"} :
      /\ now = Parts + 1
      /\ row = [m \in UserNames |-> IF m = n THEN [id |-> 1, name |-> n, status |-> "active",
                                                   created |-> 1, revoked |-> 0] ELSE NoRow]
      /\ proxy = [k \in {1} \X LinkProtos |-> [cred |-> 1, flow |-> "none", excluded |-> {}]]
      /\ minted = {[kind |-> kind, name |-> n, owner |-> 1, ts |-> Parts, minted |-> Parts]}
      /\ job = [c \in Clerks |-> IdleJob]
      /\ opened = NoOpen
      /\ pages = <<>>
      /\ used = [ids |-> 1, creds |-> 1, writes |-> 0]
      /\ capRaced = FALSE

LinkNext ==
    \/ \E c \in Clerks, n \in UserNames : EnforceUserLimit(c, n) \/ CheckReactivate(c, n) \/ BeginRevoke(c, n)
    \/ \E c \in Clerks : InsertUser(c) \/ RespondWithUser(c) \/ Reactivate(c) \/ SetUserSubRevoked(c)
    \/ \E c \in Clerks, p \in LinkProtos : CreateProxyForUser(c, p) \/ RotateProxy(c, p)
    \/ \E n \in UserNames : GetUser(n) \/ Disable(n) \/ RemoveUser(n)
    \/ \E n \in UserNames, p \in LinkProtos : ReconcileProxies(n, p) \/ ReconcileExcludedInbounds(n, p)
    \/ \E l \in minted : LoadSubscriptionUser(l)
    \/ ForEachUserHost
    \/ LinkTick

LinkSpec == LinkInit /\ [][LinkNext]_linkVars

-----------------------------------------------------------------------------
LinkTypeOK ==
    /\ now \in 0..MaxNow
    /\ \A n \in UserNames : row[n] # NoRow => row[n].created \in 0..now /\ row[n].revoked \in 0..now
    /\ \A k \in DOMAIN proxy : proxy[k] \in Settings
    /\ \A l \in minted : l.minted \in 0..now
    /\ \A c \in Clerks : job[c].at \in {"idle", "insert", "proxies", "respond", "reactivate", "rotate"}

\* Opening a link (loadSubscriptionUser): one handed out since the account was
\* created and last revoked is never refused, however little time has passed; one
\* handed out a second or more before the revocation, or about an earlier account
\* of that name, is never honoured.
LinksAnswerRightly ==
    LET l == opened.link
        r == opened.found
    IN r # NoRow =>
         /\ l.owner = r.id /\ l.minted >= r.revoked => opened.ok
         /\ opened.ok => /\ r.revoked - l.minted < Parts
                         /\ l.owner = r.id \/ r.created - l.minted < Parts

\* The reseller's cap (enforceResellerAPIUserLimit) is exceeded only when two checks
\* passed before either's write.
CapHolds == Cardinality(Counted) > UsersLimit => capRaced

\* Links open for whom they should, and the cap holds (subscription.go, user.go).
LinksAreSound == LinkTypeOK /\ LinksAnswerRightly /\ CapHolds
=============================================================================
