----------------------------- MODULE AdminAuth -----------------------------
(***************************************************************************)
(* An administrator's account: logging in, tokens, the cached row that     *)
(* every authenticated request is judged by, and the handlers that change  *)
(* the row (internal/httpapi/admin.go and store.go, internal/auth,         *)
(* internal/cache).                                                        *)
(*                                                                         *)
(* The row is cached in Redis under two keys.  A reader that misses reads  *)
(* the database and stores what it read in a later step; a writer reads    *)
(* the row, writes all of its columns back and then deletes both keys.     *)
(* Nothing orders one caller's steps with another's.                       *)
(*                                                                         *)
(* One username is modelled; its account may be deleted and created again. *)
(* A password is its number and stands for its hash.  Time has two ticks   *)
(* to the second: a token's issue time is cut to the second.               *)
(***************************************************************************)
EXTENDS Integers, FiniteSets

CONSTANTS
  Callers,      \* concurrent requests
  Passwords,    \* passwords that are set and tried
  VerifyMax,    \* verifyMaxEntries, 4096
  MaxClock,     \* bound: ticks
  MaxAdminOps,  \* bound: creations and changes of the row
  NoAdmin       \* no row, or no cache entry

ASSUME AdminSizesAssumption ==
  VerifyMax \in Nat \ {0} /\ MaxClock \in Nat /\ MaxClock >= 2 /\ MaxAdminOps \in Nat

VARIABLES
  admin,      \* the row: id, is_sudo, is_owner, hashed_password, password_reset_at
  memo,       \* Redis: the cached row under its username (key 0) and its ids
  call,       \* each caller's stage and what it has read
  token,      \* the newest token: its claimed and its true time of issue
  identity,   \* the identity that the last authenticated request was given
  login,      \* the last login that succeeded: did its password match the row's?
  verdicts,   \* VerifyCache.entries
  clock,
  adminOps,   \* creations and changes so far
  raced       \* history: keys whose entry was stored after the row had changed,
              \*   or outlived a write whose invalidation never came

adminVars == <<admin, memo, call, token, identity, login, verdicts, clock,
               adminOps, raced>>

Ids == 1..MaxAdminOps
Keys == {0} \cup Ids

Waiting == [stage |-> "idle", key |-> 0, row |-> NoAdmin, plain |-> ""]

AdminInit ==
  /\ admin = NoAdmin
  /\ memo = [k \in Keys |-> NoAdmin]
  /\ call = [r \in Callers |-> Waiting]
  /\ token = NoAdmin
  /\ identity = NoAdmin
  /\ login = TRUE
  /\ verdicts = {}
  /\ clock = 2 /\ adminOps = 0
  /\ raced = {}

(* The row that a key stands for. *)
RowOf(k) == IF admin # NoAdmin /\ k \in {0, admin.id} THEN admin ELSE NoAdmin

Store(k, row) ==
  /\ memo' = [memo EXCEPT ![k] = row]
  /\ raced' = IF row # RowOf(k) THEN raced \cup {k} ELSE raced \ {k}

Drop(keys) ==
  /\ memo' = [k \in Keys |-> IF k \in keys THEN NoAdmin ELSE memo[k]]
  /\ raced' = raced \ keys

----------------------------------------------------------------------------
(* Authenticated requests *)

Second(t) == (t \div 2) * 2

\* Fault: both times are compared by the second.
PredatesBySecond(t, row) == row.reset # 0 /\ Second(row.reset) > t.iat

(* A token from before the last password reset is refused. *)
Predates(t, row) == row.reset # 0 /\ row.reset > t.iat

(* resolve: the row, not the token, says what the caller may do. *)
ResolveToken(row) ==
  identity' = IF Predates(token, row) THEN NoAdmin
              ELSE [sudo |-> row.sudo, owner |-> row.owner, old |-> token.born < row.reset]

(* GetOrSet, a hit: RequireAdmin and RequireSudo take the cached row. *)
ResolveHit ==
  /\ token # NoAdmin
  /\ memo[0] # NoAdmin
  /\ ResolveToken(memo[0])
  /\ UNCHANGED <<admin, memo, call, token, login, verdicts, clock, adminOps, raced>>

(* GetOrSet, a miss: the row is read from the database.  A missing row is    *)
(* not cached, and the token is refused.                                     *)
FetchAdmin(r, k) ==
  /\ call[r].stage = "idle"
  /\ memo[k] = NoAdmin
  /\ k = 0 => token # NoAdmin
  /\ IF RowOf(k) = NoAdmin
     THEN call' = call /\ identity' = NoAdmin
     ELSE /\ call' = [call EXCEPT ![r] = [Waiting EXCEPT !.stage = "fetched", !.key = k,
                                                         !.row = RowOf(k)]]
          /\ UNCHANGED identity
  /\ UNCHANGED <<admin, memo, token, login, verdicts, clock, adminOps, raced>>

(* ... and stored, however long ago it was read; a failing Redis only costs  *)
(* the entry.                                                                *)
StoreAdmin(r) ==
  /\ call[r].stage = "fetched"
  /\ Store(call[r].key, call[r].row) \/ UNCHANGED <<memo, raced>>
  /\ IF call[r].key = 0 THEN ResolveToken(call[r].row) ELSE UNCHANGED identity
  /\ call' = [call EXCEPT ![r] = Waiting]
  /\ UNCHANGED <<admin, token, login, verdicts, clock, adminOps>>

MemoExpires(k) ==
  /\ memo[k] # NoAdmin
  /\ Drop({k})
  /\ UNCHANGED <<admin, call, token, identity, login, verdicts, clock, adminOps>>

----------------------------------------------------------------------------
(* Changing the row *)

CreateAdmin(pw, sudo) ==
  /\ admin = NoAdmin
  /\ adminOps < MaxAdminOps
  /\ adminOps' = adminOps + 1
  /\ admin' = [id |-> adminOps', sudo |-> sudo, owner |-> FALSE, pw |-> pw, reset |-> 0]
  /\ raced' = raced \cup {k \in {0} : memo[k] # NoAdmin}
  /\ UNCHANGED <<memo, call, token, identity, login, verdicts, clock>>

Grants == {"grant sudo", "revoke sudo", "grant owner", "revoke owner"}
Changes == Grants \cup Passwords

\* A password names itself, not one of the other changes.
ASSUME ChangesAssumption == Grants \cap Passwords = {}

(* Only an owner touches another sudo account or revokes sudo, only an owner *)
(* changes owners, and none removes itself.                                  *)
Permitted(row, self, byOwner, change) ==
  /\ self \/ ~row.sudo \/ byOwner
  /\ change = "revoke sudo" /\ row.sudo => byOwner
  /\ change = "grant owner" /\ ~row.owner => byOwner
  /\ change = "revoke owner" /\ row.owner => byOwner /\ ~self

(* The columns that UpdateAdmin writes: all of them, from the row as read.   *)
Changed(row, change) ==
  CASE change = "grant sudo" -> [row EXCEPT !.sudo = TRUE]
    [] change = "revoke sudo" -> [row EXCEPT !.sudo = FALSE]
    [] change = "grant owner" -> [row EXCEPT !.owner = TRUE]
    [] change = "revoke owner" -> [row EXCEPT !.owner = FALSE]
    [] change \in Passwords -> [row EXCEPT !.pw = change, !.reset = clock]

(* handleUpdateAdmin up to its UPDATE: by the account itself, with the       *)
(* identity it was given, or by another sudo administrator or owner.         *)
UpdateRead(r, self, byOwner, change) ==
  /\ call[r].stage = "idle"
  /\ admin # NoAdmin
  /\ self => identity # NoAdmin /\ identity.sudo /\ byOwner = identity.owner
  /\ Permitted(admin, self, byOwner, change)
  /\ call' = [call EXCEPT ![r] = [Waiting EXCEPT !.stage = "update", !.key = admin.id,
                                                 !.row = Changed(admin, change)]]
  /\ UNCHANGED <<admin, memo, token, identity, login, verdicts, clock, adminOps, raced>>

(* handleDeleteAdmin: never a sudo account.                                  *)
DeleteRead(r) ==
  /\ call[r].stage = "idle"
  /\ admin # NoAdmin /\ ~admin.sudo
  /\ call' = [call EXCEPT ![r] = [Waiting EXCEPT !.stage = "update", !.key = admin.id]]
  /\ UNCHANGED <<admin, memo, token, identity, login, verdicts, clock, adminOps, raced>>

(* handleDeleteInactiveAdmins picks its rows by a query that leaves sudo     *)
(* accounts out, removes each one's users and goes on the same way.          *)
InactiveRead(r) == DeleteRead(r)

(* The statement: it finds its row by id, or fails. *)
WriteAdmin(r) ==
  /\ call[r].stage = "update"
  /\ IF admin # NoAdmin /\ admin.id = call[r].key
     THEN /\ adminOps < MaxAdminOps
          /\ admin' = call[r].row
          /\ adminOps' = adminOps + 1
          /\ call' = [call EXCEPT ![r].stage = "written"]
     ELSE /\ call' = [call EXCEPT ![r] = Waiting]
          /\ UNCHANGED <<admin, adminOps>>
  /\ UNCHANGED <<memo, token, identity, login, verdicts, clock, raced>>

\* Fault: only the entry under the id is dropped.
InvalidateById(id) == {id}

(* InvalidateAdmin deletes both of the account's keys. *)
InvalidateAdmin(id) == {0, id}

Invalidate(r) ==
  /\ call[r].stage = "written"
  /\ Drop(InvalidateAdmin(call[r].key))
  /\ call' = [call EXCEPT ![r] = Waiting]
  /\ UNCHANGED <<admin, token, identity, login, verdicts, clock, adminOps>>

(* handleResetAdminUsage writes a column that nothing here reads, then drops *)
(* the entries.                                                              *)
ResetAdminUsage ==
  /\ admin # NoAdmin
  /\ Drop(InvalidateAdmin(admin.id))
  /\ UNCHANGED <<admin, call, token, identity, login, verdicts, clock, adminOps>>

(* A caller's connection, its process or Redis fails in the middle. *)
CallStops(r) ==
  /\ call[r].stage # "idle"
  /\ call' = [call EXCEPT ![r] = Waiting]
  /\ raced' = IF call[r].stage = "written"
              THEN raced \cup {k \in {0, call[r].key} : memo[k] # NoAdmin}
              ELSE raced
  /\ UNCHANGED <<admin, memo, token, identity, login, verdicts, clock, adminOps>>

----------------------------------------------------------------------------
(* Logging in *)

\* Fault: a verdict is remembered for the password alone.
VerdictOfPassword(plain, hashed) == <<plain, "any">>

(* VerifyCache.key covers the stored hash, so a changed password misses.     *)
VerdictKey(plain, hashed) == <<plain, hashed>>

(* handleLogin, past its limiter (LoginLimit): the row is read uncached ...  *)
LoginBegins(r, plain) ==
  /\ call[r].stage = "idle"
  /\ call' = [call EXCEPT ![r] = [Waiting EXCEPT !.stage = "login", !.plain = plain,
                                                 !.row = admin]]
  /\ UNCHANGED <<admin, memo, token, identity, login, verdicts, clock, adminOps, raced>>

(* Verify: a remembered verdict, or a comparison that is then remembered.    *)
Remembered(key) == {v \in verdicts : v.key = key}

Verdict(plain, hashed) ==
  LET known == Remembered(VerdictKey(plain, hashed))
  IN IF known # {} THEN (CHOOSE v \in known : TRUE).ok ELSE plain = hashed

(* evictLocked: a full cache loses an arbitrary entry. *)
Remember(plain, hashed) ==
  LET entry == [key |-> VerdictKey(plain, hashed), ok |-> Verdict(plain, hashed)]
  IN IF Remembered(entry.key) # {} THEN verdicts' = verdicts
     ELSE IF Cardinality(verdicts) < VerifyMax THEN verdicts' = verdicts \cup {entry}
     ELSE \E v \in verdicts : verdicts' = (verdicts \ {v}) \cup {entry}

VerdictExpires ==
  /\ \E v \in verdicts : verdicts' = verdicts \ {v}
  /\ UNCHANGED <<admin, memo, call, token, identity, login, clock, adminOps, raced>>

(* ... and the password compared with what was read: a token ... *)
LoginSucceeds(r) ==
  /\ call[r].stage = "login"
  /\ call[r].row # NoAdmin
  /\ Verdict(call[r].plain, call[r].row.pw)
  /\ Remember(call[r].plain, call[r].row.pw)
  /\ token' = [iat |-> Second(clock), born |-> clock]
  /\ login' = (call[r].plain = call[r].row.pw)
  /\ call' = [call EXCEPT ![r] = Waiting]
  /\ UNCHANGED <<admin, memo, identity, clock, adminOps, raced>>

(* ... or a refusal. *)
LoginFails(r) ==
  /\ call[r].stage = "login"
  /\ IF call[r].row = NoAdmin THEN UNCHANGED verdicts
     ELSE /\ ~Verdict(call[r].plain, call[r].row.pw)
          /\ Remember(call[r].plain, call[r].row.pw)
  /\ call' = [call EXCEPT ![r] = Waiting]
  /\ UNCHANGED <<admin, memo, token, identity, login, clock, adminOps, raced>>

AdminTick ==
  /\ clock < MaxClock
  /\ clock' = clock + 1
  /\ UNCHANGED <<admin, memo, call, token, identity, login, verdicts, adminOps, raced>>

AdminNext ==
  \/ ResolveHit
  \/ \E r \in Callers :
       \/ \E k \in Keys : FetchAdmin(r, k)
       \/ StoreAdmin(r)
       \/ \E self, byOwner \in BOOLEAN, change \in Changes : UpdateRead(r, self, byOwner, change)
       \/ DeleteRead(r) \/ InactiveRead(r)
       \/ WriteAdmin(r)
       \/ Invalidate(r)
       \/ CallStops(r)
       \/ \E p \in Passwords : LoginBegins(r, p)
       \/ LoginSucceeds(r) \/ LoginFails(r)
  \/ \E p \in Passwords, sudo \in BOOLEAN : CreateAdmin(p, sudo)
  \/ ResetAdminUsage
  \/ \E k \in Keys : MemoExpires(k)
  \/ VerdictExpires
  \/ AdminTick

AdminSpec == AdminInit /\ [][AdminNext]_adminVars

----------------------------------------------------------------------------
Rows == [id : Ids, sudo : BOOLEAN, owner : BOOLEAN, pw : Passwords, reset : 0..MaxClock]

AdminTypeOK ==
  /\ admin \in Rows \cup {NoAdmin}
  /\ \A k \in Keys : memo[k] \in Rows \cup {NoAdmin}
  /\ \A r \in Callers :
       call[r].stage \in {"idle", "fetched", "update", "written", "login"}
  /\ Cardinality(verdicts) <= VerifyMax
  /\ clock \in 2..MaxClock
  /\ login \in BOOLEAN
  /\ raced \subseteq Keys

(* What requests are judged by is the account's row, except while a writer   *)
(* has still to drop the entry, and where a reader stored what it had read   *)
(* before the write, or a writer stopped before it dropped the entry         *)
(* (cacheaside.go:31, store.go:77): then it is the TTL that ends it.         *)
CachedIsCurrent ==
  \A k \in Keys :
    memo[k] # NoAdmin /\ memo[k] # RowOf(k) =>
      \/ k \in raced
      \/ \E r \in Callers : call[r].stage = "written" /\ k \in {0, call[r].key}

(* No password but the stored one logs in, however verdicts are remembered;  *)
(* and no token older than the password reset of the row it was judged by is *)
(* honoured, whatever the rounding of its time.                              *)
OldCredentialsRefused ==
  /\ login
  /\ identity # NoAdmin => ~identity.old

(* Requests are judged by the account as it is, and credentials end when     *)
(* they should (middleware.go, admin.go, adminauth.go).                      *)
AuthIsSound == AdminTypeOK /\ CachedIsCurrent /\ OldCredentialsRefused
=============================================================================
