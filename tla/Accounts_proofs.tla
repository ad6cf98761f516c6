--------------------------- MODULE Accounts_proofs ---------------------------
(***************************************************************************)
(* What the runs of AccountsMC check for a few requests, users and nodes,  *)
(* proved for any number of them: the login limiter, the administrators'   *)
(* accounts, presence, and users' links.  Each part has an inductive       *)
(* invariant of its own, stated before its proof.                          *)
(***************************************************************************)
EXTENDS AdminAuth, LoginLimit, UserLinks, Presence, FiniteSetTheorems, TLAPS

-----------------------------------------------------------------------------
(***************************************************************************)
(* The login limiter.                                                      *)
(***************************************************************************)

\* The logins whose peek is behind them and whose failure is still to be counted.
Comparing == {l \in Logins : attempt[l] = "comparing"}

\* Every failure that is counted was let through: what the counter can still
\* reach is what it has reached and the logins that are past their peek.
LimitInv ==
  /\ LimitTypeOK
  /\ failures + Cardinality(Comparing) <= LoginMax + Cardinality(Logins) - 1 + blind
  /\ failures > 0 /\ ~expiring => orphaned \/ \E l \in Logins : attempt[l] = "counted"

\* The logins past their peek are finitely many, and no more than there are logins.
LEMMA ComparingFinite ==
  ASSUME LimitTypeOK
  PROVE  /\ Cardinality(Comparing) \in Nat /\ Cardinality(Logins) \in Nat
         /\ Cardinality(Comparing) <= Cardinality(Logins)
         /\ IsFiniteSet(Comparing)
  <1>1. Comparing \subseteq Logins
    BY DEF Comparing
  <1> QED BY <1>1, LoginMaxAssumption, FS_Subset, FS_CardinalityType

\* A login that leaves its comparison makes them one fewer, any other change of
\* its stage at most one more.
LEMMA ComparingChanges ==
  ASSUME LimitTypeOK, NEW l \in Logins, NEW s \in {"idle", "comparing", "counted"}, Stage(l, s)
  PROVE  /\ attempt[l] = "comparing" /\ s # "comparing" =>
               Cardinality(Comparing') = Cardinality(Comparing) - 1
         /\ attempt[l] # "comparing" /\ s # "comparing" => Comparing' = Comparing
         /\ attempt[l] # "comparing" /\ s = "comparing" =>
               Cardinality(Comparing') = Cardinality(Comparing) + 1
         /\ attempt' \in [Logins -> {"idle", "comparing", "counted"}]
         /\ attempt'[l] = s /\ \A k \in Logins \ {l} : attempt'[k] = attempt[k]
  <1>1. /\ attempt' \in [Logins -> {"idle", "comparing", "counted"}]
        /\ attempt'[l] = s /\ \A k \in Logins \ {l} : attempt'[k] = attempt[k]
    BY DEF LimitTypeOK, Stage
  <1>2. ASSUME attempt[l] = "comparing", s # "comparing"
        PROVE  Cardinality(Comparing') = Cardinality(Comparing) - 1
    <2>1. Comparing' = Comparing \ {l} /\ l \in Comparing
      BY <1>1, <1>2 DEF Comparing
    <2> QED BY <2>1, ComparingFinite, FS_RemoveElement
  <1>3. ASSUME attempt[l] # "comparing", s # "comparing"
        PROVE  Comparing' = Comparing
    BY <1>1, <1>3 DEF Comparing
  <1>4. ASSUME attempt[l] # "comparing", s = "comparing"
        PROVE  Cardinality(Comparing') = Cardinality(Comparing) + 1
    <2>1. Comparing' = Comparing \cup {l} /\ l \notin Comparing
      BY <1>1, <1>4 DEF Comparing
    <2> QED BY <2>1, ComparingFinite, FS_AddElement
  <1> QED BY <1>1, <1>2, <1>3, <1>4

\* Every step of a login, and the end of a window, preserves the invariant.
LEMMA LimitStep ==
  ASSUME LimitInv, [LimitNext]_limitVars
  PROVE  LimitInv'
  <1> USE DEF LimitInv
  <1>0. LoginMax \in Nat /\ LoginMax > 0 /\ blind \in Nat /\ failures \in Nat /\ MaxBlind \in Nat
    BY LoginMaxAssumption DEF LimitTypeOK
  <1>1. ASSUME NEW l \in Logins, Peek(l)
        PROVE  LimitInv'
    <2>1. CASE failures >= LoginMax
      <3>1. attempt' = attempt /\ UNCHANGED <<failures, expiring, blind, orphaned>>
        BY <1>1, <2>1 DEF Peek, Stage, TooManyFailedLogins, LimitTypeOK
      <3> QED BY <3>1 DEF LimitTypeOK, Comparing
    <2>2. CASE failures < LoginMax
      <3>1. Stage(l, "comparing") /\ UNCHANGED <<failures, expiring, blind, orphaned>> /\ attempt[l] = "idle"
        BY <1>1, <2>2, <1>0 DEF Peek, TooManyFailedLogins
      <3>2. LimitTypeOK'
        BY <3>1, ComparingChanges DEF LimitTypeOK
      <3>3. Cardinality(Comparing') <= Cardinality(Logins) /\ Cardinality(Comparing') \in Nat
            /\ Cardinality(Logins) \in Nat
        <4>1. Comparing' \subseteq Logins
          BY DEF Comparing
        <4> QED BY <4>1, LoginMaxAssumption, FS_Subset, FS_CardinalityType
      <3>4. failures' + Cardinality(Comparing') <= LoginMax + Cardinality(Logins) - 1 + blind'
        BY <3>3, <3>1, <2>2, <1>0
      <3> QED BY <3>1, <3>2, <3>4, ComparingChanges
    <2> QED BY <2>1, <2>2, <1>0
  <1>2. ASSUME NEW l \in Logins, PeekFails(l)
        PROVE  LimitInv'
    <2>1. Stage(l, "comparing") /\ UNCHANGED <<failures, expiring, orphaned>> /\ attempt[l] = "idle"
          /\ blind' = blind + 1 /\ blind < MaxBlind
      BY <1>2 DEF PeekFails
    <2> QED BY <2>1, <1>0, ComparingChanges, ComparingFinite DEF LimitTypeOK
  <1>3. ASSUME NEW l \in Logins, LoggedIn(l) \/ RecordLost(l)
        PROVE  LimitInv'
    <2>1. Stage(l, "idle") /\ blind' = blind /\ attempt[l] = "comparing"
      BY <1>3 DEF LoggedIn, RecordLost
    <2>2. /\ attempt'[l] = "idle" /\ \A k \in Logins \ {l} : attempt'[k] = attempt[k]
          /\ attempt' \in [Logins -> {"idle", "comparing", "counted"}]
          /\ Cardinality(Comparing') = Cardinality(Comparing) - 1
      BY <2>1, ComparingChanges
    <2>3. CASE NoCounter
      <3>1. failures' = 0 /\ expiring' \in BOOLEAN /\ orphaned' \in BOOLEAN
        BY <2>3, Zenon DEF NoCounter
      <3>2. failures' + Cardinality(Comparing') <= LoginMax + Cardinality(Logins) - 1 + blind'
        BY <2>1, <2>2, <3>1, <1>0, ComparingFinite
      <3> QED BY <2>1, <2>2, <3>1, <3>2 DEF LimitTypeOK
    <2>4. CASE UNCHANGED <<failures, expiring, orphaned>>
      <3>2. failures' + Cardinality(Comparing') <= LoginMax + Cardinality(Logins) - 1 + blind'
        BY <2>1, <2>2, <2>4, <1>0, ComparingFinite
      <3>3. LimitTypeOK'
        BY <2>1, <2>2, <2>4 DEF LimitTypeOK
      <3>4. failures' > 0 /\ ~expiring' => orphaned' \/ \E k \in Logins : attempt'[k] = "counted"
        BY <2>1, <2>2, <2>4
      <3> QED BY <3>2, <3>3, <3>4
    <2> QED BY <1>3, <2>3, <2>4 DEF LoggedIn, RecordLost
  <1>4. ASSUME NEW l \in Logins, RecordFailedLogin(l)
        PROVE  LimitInv'
    <2>1. Stage(l, IF failures' = 1 THEN "counted" ELSE "idle") /\ UNCHANGED <<expiring, blind, orphaned>>
          /\ attempt[l] = "comparing" /\ failures' = failures + 1
      BY <1>4 DEF RecordFailedLogin
    <2> QED BY <2>1, <1>0, ComparingChanges, ComparingFinite DEF LimitTypeOK
  <1>5. ASSUME NEW l \in Logins, SetExpiry(l) \/ ExpiryLost(l)
        PROVE  LimitInv'
    <2>1. Stage(l, "idle") /\ UNCHANGED <<failures, blind>> /\ attempt[l] = "counted"
      BY <1>5 DEF SetExpiry, ExpiryLost
    <2>2. /\ expiring' \in BOOLEAN /\ orphaned' \in BOOLEAN
          /\ failures > 0 => expiring' \/ orphaned'
      <3>1. expiring \in BOOLEAN /\ orphaned \in BOOLEAN
        BY DEF LimitTypeOK
      <3>2. CASE SetExpiry(l)
        <4>1. expiring' = (failures > 0) /\ orphaned' = orphaned
          BY <3>2 DEF SetExpiry
        <4>2. expiring' \in BOOLEAN /\ orphaned' \in BOOLEAN
          BY <3>1, <4>1, <1>0, SMT
        <4> QED BY <4>1, <4>2, Zenon
      <3>3. CASE ExpiryLost(l)
        <4>1. orphaned' = (failures > 0) /\ expiring' = expiring
          BY <3>3 DEF ExpiryLost
        <4>2. expiring' \in BOOLEAN /\ orphaned' \in BOOLEAN
          BY <3>1, <4>1, <1>0, SMT
        <4> QED BY <4>1, <4>2, Zenon
      <3> QED BY <1>5, <3>2, <3>3
    <2> QED BY <2>1, <2>2, <1>0, ComparingChanges, ComparingFinite DEF LimitTypeOK
  <1>6. ASSUME WindowEnds
        PROVE  LimitInv'
    <2>1. attempt' = attempt /\ blind' = blind /\ failures' = 0 /\ expiring' \in BOOLEAN /\ orphaned' \in BOOLEAN
      BY <1>6, Zenon DEF WindowEnds, NoCounter
    <2>2. Comparing' = Comparing
      BY <2>1 DEF Comparing
    <2> QED BY <2>1, <2>2, <1>0, ComparingFinite DEF LimitTypeOK
  <1>7. CASE UNCHANGED limitVars
    BY <1>7 DEF limitVars, LimitTypeOK, Comparing
  <1> QED BY <1>1, <1>2, <1>3, <1>4, <1>5, <1>6, <1>7 DEF LimitNext

\* handleLogin's limiter lets a window count at most LoginMax failures and one more
\* for every other login in flight or let through blindly, and a counter without
\* an expiry is one whose first failure still owes or lost it (cache.go): for any
\* number of concurrent logins and any limit.
THEOREM LockoutTheorem == LimitSpec => []LockoutIsSound
  <1>1. LimitInit => LimitInv
    <2> SUFFICES ASSUME LimitInit PROVE LimitInv
      OBVIOUS
    <2>1. LimitTypeOK
      <3>1. expiring \in BOOLEAN /\ orphaned \in BOOLEAN
        BY Zenon DEF LimitInit
      <3>2. attempt \in [Logins -> {"idle", "comparing", "counted"}] /\ failures = 0 /\ blind = 0
        BY DEF LimitInit
      <3> QED BY <3>1, <3>2, LoginMaxAssumption DEF LimitTypeOK
    <2>3. Comparing = {}
      BY DEF LimitInit, Comparing
    <2>2. failures = 0 /\ blind = 0 /\ Cardinality(Comparing) = 0
      BY <2>3, FS_EmptySet DEF LimitInit
    <2> QED BY <2>1, <2>2, ComparingFinite, LoginMaxAssumption DEF LimitInv
  <1>2. LimitInv => LockoutIsSound
    <2> SUFFICES ASSUME LimitInv PROVE LockoutIsSound
      OBVIOUS
    <2>1. failures \in Nat /\ blind \in Nat /\ LoginMax \in Nat
      BY LoginMaxAssumption DEF LimitInv, LimitTypeOK
    <2> QED BY <2>1, ComparingFinite DEF LimitInv, LockoutIsSound, LoginsLimited
  <1> QED BY <1>1, <1>2, LimitStep, PTL DEF LimitSpec
-----------------------------------------------------------------------------
(***************************************************************************)
(* The administrator's account.                                            *)
(***************************************************************************)

\* What a caller carries from one of its statements to the next.
Calls == [stage : {"idle", "fetched", "update", "written", "login"}, key : Keys,
          row : Rows \cup {NoAdmin}, plain : Passwords \cup {""}]

\* A token's claimed time of issue is never later than its true one.
TokenOK == token \in [iat : Nat, born : Nat] /\ token.iat <= token.born

\* Ids are never used again, so nothing is cached or carried under a later one.
IdsAreFresh ==
  /\ adminOps \in 0..MaxAdminOps
  /\ admin # NoAdmin => admin.id <= adminOps
  /\ \A k \in Keys : memo[k] # NoAdmin => k <= adminOps
  /\ \A r \in Callers : call[r].key <= adminOps

\* A caller that changes a row keeps the row's id; one that resolves a token
\* holds a row, and the token is there.
CallsAreHonest ==
  \A r \in Callers :
    /\ call[r].stage = "update" /\ call[r].row # NoAdmin => call[r].row.id = call[r].key
    /\ call[r].stage = "fetched" => call[r].row # NoAdmin
    /\ call[r].stage = "fetched" /\ call[r].key = 0 => TokenOK

\* A remembered verdict is what a comparison says.
VerdictsAreTrue ==
  /\ IsFiniteSet(verdicts)
  /\ \A v \in verdicts : v.ok = (v.key[1] = v.key[2])

AuthShape ==
  /\ memo \in [Keys -> Rows \cup {NoAdmin}]
  /\ call \in [Callers -> Calls]
  /\ token = NoAdmin \/ TokenOK

AuthInv == AuthIsSound /\ AuthShape /\ IdsAreFresh /\ CallsAreHonest /\ VerdictsAreTrue

\* The keys, and the times, are numbers.
LEMMA AuthTypes ==
  /\ 0 \in Keys /\ Keys \subseteq Nat /\ Ids \subseteq Keys
  /\ Waiting \in Calls /\ Waiting.stage = "idle" /\ Waiting.key = 0
  <1>1. 0 \in Keys /\ Keys \subseteq Nat /\ Ids \subseteq Keys
    BY AdminSizesAssumption DEF Keys, Ids
  <1> QED BY <1>1 DEF Calls, Waiting

\* UpdateAdmin writes a row of the same id.
LEMMA ChangedRow ==
  ASSUME NEW row0 \in Rows, NEW change \in Changes, clock \in 2..MaxClock
  PROVE  Changed(row0, change) \in Rows /\ Changed(row0, change).id = row0.id
  <1>1. clock \in 0..MaxClock
    BY AdminSizesAssumption
  <1>2. CASE change = "grant sudo"
    <2>1. Changed(row0, change) = [row0 EXCEPT !.sudo = TRUE]
      BY <1>2, ChangesAssumption DEF Changed, Grants
    <2> QED BY <2>1 DEF Rows
  <1>3. CASE change = "revoke sudo"
    <2>1. Changed(row0, change) = [row0 EXCEPT !.sudo = FALSE]
      BY <1>3, ChangesAssumption DEF Changed, Grants
    <2> QED BY <2>1 DEF Rows
  <1>4. CASE change = "grant owner"
    <2>1. Changed(row0, change) = [row0 EXCEPT !.owner = TRUE]
      BY <1>4, ChangesAssumption DEF Changed, Grants
    <2> QED BY <2>1 DEF Rows
  <1>5. CASE change = "revoke owner"
    <2>1. Changed(row0, change) = [row0 EXCEPT !.owner = FALSE]
      BY <1>5, ChangesAssumption DEF Changed, Grants
    <2> QED BY <2>1 DEF Rows
  <1>6. CASE change \in Passwords
    <2>1. Changed(row0, change) = [row0 EXCEPT !.pw = change, !.reset = clock]
      BY <1>6, ChangesAssumption DEF Changed, Grants
    <2> QED BY <1>1, <1>6, <2>1 DEF Rows
  <1> QED BY <1>2, <1>3, <1>4, <1>5, <1>6 DEF Changes, Grants

\* A request is never given an identity by a token older than the row's reset.
LEMMA ResolveIsHonest ==
  ASSUME NEW row0 \in Rows, TokenOK, ResolveToken(row0)
  PROVE  identity' # NoAdmin => ~identity'.old
  <1>1. token.iat \in Nat /\ token.born \in Nat /\ token.iat <= token.born /\ row0.reset \in Nat
    BY AdminSizesAssumption DEF TokenOK, Rows
  <1>2. CASE Predates(token, row0)
    BY <1>2 DEF ResolveToken
  <1>3. CASE ~Predates(token, row0)
    <2>1. ~(token.born < row0.reset)
      BY <1>1, <1>3 DEF Predates
    <2>2. identity'.old = (token.born < row0.reset)
      BY <1>3 DEF ResolveToken
    <2> QED BY <2>1, <2>2, Zenon
  <1> QED BY <1>2, <1>3

\* What the entries stand for is unaffected by a step that leaves the row, the
\* entries, the writers and the raced keys alone.
LEMMA CachedKept ==
  ASSUME CachedIsCurrent, UNCHANGED <<admin, memo, raced>>,
         \A r \in Callers : call[r].stage = "written" => call'[r] = call[r]
  PROVE  CachedIsCurrent'
  BY DEF CachedIsCurrent, RowOf

\* Verify says yes to nothing but the stored password, and remembers the truth.
LEMMA VerdictIsTrue ==
  ASSUME VerdictsAreTrue, Cardinality(verdicts) <= VerifyMax, NEW plain, NEW hashed
  PROVE  /\ Verdict(plain, hashed) = (plain = hashed)
         /\ Remember(plain, hashed) => VerdictsAreTrue' /\ Cardinality(verdicts') <= VerifyMax
  <1>1. Verdict(plain, hashed) = (plain = hashed)
    <2> DEFINE kept == Remembered(VerdictKey(plain, hashed))
    <2>1. CASE kept # {}
      <3>1. (CHOOSE v \in kept : TRUE) \in kept
        BY <2>1
      <3>2. PICK w \in verdicts : w = (CHOOSE v \in kept : TRUE) /\ w.key = <<plain, hashed>>
        BY <3>1 DEF Remembered, VerdictKey
      <3>3. w.key[1] = plain /\ w.key[2] = hashed
        BY <3>2
      <3>4. w.ok = (w.key[1] = w.key[2])
        BY <3>2 DEF VerdictsAreTrue
      <3>5. w.ok = (plain = hashed)
        BY <3>3, <3>4
      <3>6. Verdict(plain, hashed) = w.ok
        BY <2>1, <3>2 DEF Verdict
      <3> QED BY <3>5, <3>6
    <2>2. CASE kept = {}
      BY <2>2 DEF Verdict
    <2> QED BY <2>1, <2>2
  <1>2. ASSUME Remember(plain, hashed)
        PROVE  VerdictsAreTrue' /\ Cardinality(verdicts') <= VerifyMax
    <2> DEFINE entry == [key |-> VerdictKey(plain, hashed), ok |-> Verdict(plain, hashed)]
    <2>1. entry.key[1] = plain /\ entry.key[2] = hashed /\ entry.ok = Verdict(plain, hashed)
      BY DEF VerdictKey
    <2>2. entry.ok = (entry.key[1] = entry.key[2])
      BY <1>1, <2>1
    <2>3. IsFiniteSet(verdicts) /\ Cardinality(verdicts) \in Nat /\ VerifyMax \in Nat /\ VerifyMax > 0
      BY FS_CardinalityType, AdminSizesAssumption DEF VerdictsAreTrue
    <2>4. \/ verdicts' = verdicts
          \/ Cardinality(verdicts) < VerifyMax /\ verdicts' = verdicts \cup {entry}
          \/ \E v \in verdicts : verdicts' = (verdicts \ {v}) \cup {entry}
      BY <1>2 DEF Remember
    <2>5. IsFiniteSet(verdicts') /\ Cardinality(verdicts') <= VerifyMax
      <3>1. CASE verdicts' = verdicts
        BY <3>1, <2>3
      <3>2. CASE Cardinality(verdicts) < VerifyMax /\ verdicts' = verdicts \cup {entry}
        BY <3>2, <2>3, FS_AddElement
      <3>3. ASSUME NEW v \in verdicts, verdicts' = (verdicts \ {v}) \cup {entry}
            PROVE  IsFiniteSet(verdicts') /\ Cardinality(verdicts') <= VerifyMax
        <4>1. /\ IsFiniteSet(verdicts \ {v})
              /\ Cardinality(verdicts \ {v}) = Cardinality(verdicts) - 1
          BY <2>3, FS_RemoveElement
        <4>2. /\ IsFiniteSet(verdicts')
              /\ \/ Cardinality(verdicts') = Cardinality(verdicts \ {v})
                 \/ Cardinality(verdicts') = Cardinality(verdicts \ {v}) + 1
          BY <3>3, <4>1, FS_AddElement
        <4> QED BY <2>3, <4>1, <4>2
      <3> QED BY <2>4, <3>1, <3>2, <3>3
    <2>6. \A v \in verdicts' : v \in verdicts \/ v = entry
      BY <2>4
    <2> QED BY <2>2, <2>5, <2>6 DEF VerdictsAreTrue
  <1> QED BY <1>1, <1>2

\* A caller moves on, and nothing that requests are judged by changes.
LEMMA CallerMoves ==
  ASSUME AuthInv, NEW r \in Callers, NEW c \in Calls, call' = [call EXCEPT ![r] = c],
         UNCHANGED <<admin, memo, clock, adminOps, raced>>,
         token' = token \/ TokenOK', OldCredentialsRefused', login' \in BOOLEAN,
         VerdictsAreTrue', Cardinality(verdicts') <= VerifyMax,
         call[r].stage # "written", c.key <= adminOps,
         c.stage = "update" /\ c.row # NoAdmin => c.row.id = c.key,
         c.stage = "fetched" => c.row # NoAdmin,
         c.stage = "fetched" /\ c.key = 0 => TokenOK'
  PROVE  AuthInv'
  <1> USE DEF AuthInv, AuthIsSound, AuthShape
  <1>1. call' \in [Callers -> Calls] /\ call'[r] = c /\ \A q \in Callers \ {r} : call'[q] = call[q]
    OBVIOUS
  <1>2. AuthShape'
    BY <1>1 DEF TokenOK
  <1>3. AdminTypeOK'
    <2>1. \A q \in Callers : call'[q].stage \in {"idle", "fetched", "update", "written", "login"}
      BY <1>1 DEF Calls
    <2> QED BY <2>1 DEF AdminTypeOK
  <1>4. CachedIsCurrent'
    <2>1. \A q \in Callers : call[q].stage = "written" => call'[q] = call[q]
      BY <1>1
    <2> QED BY <2>1, CachedKept
  <1>5. IdsAreFresh'
    BY <1>1 DEF IdsAreFresh
  <1>6. CallsAreHonest'
    <2>1. TokenOK => TokenOK'
      BY DEF TokenOK
    <2> QED BY <1>1, <2>1 DEF CallsAreHonest
  <1> QED BY <1>2, <1>3, <1>4, <1>5, <1>6

\* The steps that move one caller: a request that misses, the readings before an
\* UPDATE or a DELETE, and logins.
LEMMA CallerSteps ==
  ASSUME AuthInv, NEW r \in Callers,
         \/ \E k \in Keys : FetchAdmin(r, k)
         \/ \E self, byOwner \in BOOLEAN, change \in Changes : UpdateRead(r, self, byOwner, change)
         \/ DeleteRead(r)
         \/ \E p \in Passwords : LoginBegins(r, p)
         \/ LoginSucceeds(r) \/ LoginFails(r)
  PROVE  AuthInv'
  <1> USE DEF AuthInv, AuthIsSound
  <1>0. adminOps \in Nat /\ admin \in Rows \cup {NoAdmin} /\ call[r] \in Calls /\ login \in BOOLEAN
        /\ clock \in 2..MaxClock
    BY AdminSizesAssumption DEF IdsAreFresh, AdminTypeOK, AuthShape
  <1>1. ASSUME UNCHANGED verdicts
        PROVE  VerdictsAreTrue' /\ Cardinality(verdicts') <= VerifyMax
    BY <1>1 DEF VerdictsAreTrue, AdminTypeOK
  <1>2. ASSUME UNCHANGED <<identity, login>>
        PROVE  OldCredentialsRefused' /\ login' \in BOOLEAN
    BY <1>0, <1>2 DEF OldCredentialsRefused
  <1>3. ASSUME NEW k \in Keys, FetchAdmin(r, k)
        PROVE  AuthInv'
    <2>1. CASE RowOf(k) = NoAdmin
      <3>1. UNCHANGED <<admin, memo, call, token, login, verdicts, clock, adminOps, raced>> /\ identity' = NoAdmin
        BY <1>3, <2>1 DEF FetchAdmin
      <3>2. AuthShape' /\ IdsAreFresh' /\ CallsAreHonest' /\ VerdictsAreTrue' /\ AdminTypeOK' /\ CachedIsCurrent'
        BY <3>1 DEF AuthShape, IdsAreFresh, CallsAreHonest, VerdictsAreTrue, AdminTypeOK, CachedIsCurrent,
           RowOf, TokenOK
      <3>3. OldCredentialsRefused'
        BY <3>1 DEF OldCredentialsRefused
      <3> QED BY <3>2, <3>3
    <2>2. CASE RowOf(k) # NoAdmin
      <3> DEFINE c == [Waiting EXCEPT !.stage = "fetched", !.key = k, !.row = RowOf(k)]
      <3>1. /\ call' = [call EXCEPT ![r] = c]
            /\ UNCHANGED <<admin, memo, token, login, verdicts, clock, adminOps, raced, identity>>
            /\ call[r].stage = "idle" /\ (k = 0 => token # NoAdmin)
        BY <1>3, <2>2 DEF FetchAdmin
      <3>2. RowOf(k) = admin /\ admin # NoAdmin /\ k \in {0, admin.id}
        BY <2>2 DEF RowOf
      <3>3. c \in Calls /\ c.stage = "fetched" /\ c.key = k /\ c.row = admin
        BY <1>0, <3>2 DEF Calls, Waiting
      <3>4. k <= adminOps
        BY <3>2, <1>0 DEF IdsAreFresh
      <3>5. k = 0 => TokenOK'
        BY <3>1 DEF AuthShape, TokenOK
      <3> HIDE DEF c
      <3> QED BY <1>1, <1>2, <3>1, <3>2, <3>3, <3>4, <3>5, CallerMoves
    <2> QED BY <2>1, <2>2
  <1>4. ASSUME NEW self \in BOOLEAN, NEW byOwner \in BOOLEAN, NEW change \in Changes,
               UpdateRead(r, self, byOwner, change)
        PROVE  AuthInv'
    <2> DEFINE c == [Waiting EXCEPT !.stage = "update", !.key = admin.id, !.row = Changed(admin, change)]
    <2>1. /\ call' = [call EXCEPT ![r] = c]
          /\ UNCHANGED <<admin, memo, token, login, verdicts, clock, adminOps, raced, identity>>
          /\ call[r].stage = "idle" /\ admin # NoAdmin
      BY <1>4 DEF UpdateRead
    <2>2. Changed(admin, change) \in Rows /\ Changed(admin, change).id = admin.id /\ admin.id \in Keys
      BY <1>0, <2>1, ChangedRow, AuthTypes DEF Rows
    <2>3. c \in Calls /\ c.stage = "update" /\ c.key = admin.id /\ c.row = Changed(admin, change)
      BY <2>2 DEF Calls, Waiting
    <2>4. c.key <= adminOps
      BY <2>1, <2>3 DEF IdsAreFresh
    <2> HIDE DEF c
    <2> QED BY <1>1, <1>2, <2>1, <2>2, <2>3, <2>4, CallerMoves
  <1>5. ASSUME DeleteRead(r)
        PROVE  AuthInv'
    <2> DEFINE c == [Waiting EXCEPT !.stage = "update", !.key = admin.id]
    <2>1. /\ call' = [call EXCEPT ![r] = c]
          /\ UNCHANGED <<admin, memo, token, login, verdicts, clock, adminOps, raced, identity>>
          /\ call[r].stage = "idle" /\ admin # NoAdmin
      BY <1>5 DEF DeleteRead
    <2>2. admin.id \in Keys
      BY <1>0, <2>1, AuthTypes DEF Rows
    <2>3. c \in Calls /\ c.stage = "update" /\ c.key = admin.id /\ c.row = NoAdmin
      BY <2>2 DEF Calls, Waiting
    <2>4. c.key <= adminOps
      BY <2>1, <2>3 DEF IdsAreFresh
    <2> HIDE DEF c
    <2> QED BY <1>1, <1>2, <2>1, <2>3, <2>4, CallerMoves
  <1>6. ASSUME NEW p \in Passwords, LoginBegins(r, p)
        PROVE  AuthInv'
    <2> DEFINE c == [Waiting EXCEPT !.stage = "login", !.plain = p, !.row = admin]
    <2>1. /\ call' = [call EXCEPT ![r] = c]
          /\ UNCHANGED <<admin, memo, token, login, verdicts, clock, adminOps, raced, identity>>
          /\ call[r].stage = "idle"
      BY <1>6 DEF LoginBegins
    <2>2. c \in Calls /\ c.stage = "login" /\ c.key = 0
      BY <1>0, AuthTypes DEF Calls, Waiting
    <2>3. c.key <= adminOps
      BY <1>0, <2>2
    <2> HIDE DEF c
    <2> QED BY <1>1, <1>2, <2>1, <2>2, <2>3, CallerMoves
  <1>7. ASSUME LoginSucceeds(r)
        PROVE  AuthInv'
    <2>1. /\ call' = [call EXCEPT ![r] = Waiting]
          /\ UNCHANGED <<admin, memo, clock, adminOps, raced, identity>>
          /\ call[r].stage = "login"
          /\ Verdict(call[r].plain, call[r].row.pw) /\ Remember(call[r].plain, call[r].row.pw)
          /\ token' = [iat |-> Second(clock), born |-> clock]
          /\ login' = (call[r].plain = call[r].row.pw)
      BY <1>7 DEF LoginSucceeds
    <2>2. VerdictsAreTrue' /\ Cardinality(verdicts') <= VerifyMax
      BY <2>1, VerdictIsTrue DEF AdminTypeOK
    <2>3. Verdict(call[r].plain, call[r].row.pw) = (call[r].plain = call[r].row.pw)
      BY VerdictIsTrue DEF AdminTypeOK
    <2>4. login' = TRUE
      BY <2>1, <2>3
    <2>5. TokenOK'
      <3>1. Second(clock) \in Nat /\ clock \in Nat /\ Second(clock) <= clock
        BY <1>0, AdminSizesAssumption DEF Second
      <3> QED BY <2>1, <3>1 DEF TokenOK
    <2>6. OldCredentialsRefused' /\ login' \in BOOLEAN
      BY <2>1, <2>4 DEF OldCredentialsRefused
    <2>7. Waiting \in Calls /\ Waiting.stage = "idle" /\ Waiting.key <= adminOps
      BY <1>0, AuthTypes
    <2> QED BY <2>1, <2>2, <2>5, <2>6, <2>7, CallerMoves
  <1>8. ASSUME LoginFails(r)
        PROVE  AuthInv'
    <2>1. /\ call' = [call EXCEPT ![r] = Waiting]
          /\ UNCHANGED <<admin, memo, token, login, clock, adminOps, raced, identity>>
          /\ call[r].stage = "login"
          /\ verdicts' = verdicts \/ Remember(call[r].plain, call[r].row.pw)
      BY <1>8 DEF LoginFails
    <2>2. VerdictsAreTrue' /\ Cardinality(verdicts') <= VerifyMax
      BY <1>1, <2>1, VerdictIsTrue DEF AdminTypeOK
    <2>3. Waiting \in Calls /\ Waiting.stage = "idle" /\ Waiting.key <= adminOps
      BY <1>0, AuthTypes
    <2> QED BY <1>2, <2>1, <2>2, <2>3, CallerMoves
  <1> QED BY <1>3, <1>4, <1>5, <1>6, <1>7, <1>8

\* Dropping entries: those that stay are as current as before, and what a writer
\* still owes is dropped with it.
LEMMA DropIsSafe ==
  ASSUME AuthInv, NEW keys, Drop(keys), admin' = admin,
         \A q \in Callers : call[q].stage = "written" =>
            call'[q] = call[q] \/ {0, call[q].key} \subseteq keys
  PROVE  /\ CachedIsCurrent' /\ raced' \subseteq Keys
         /\ memo' \in [Keys -> Rows \cup {NoAdmin}]
         /\ \A k \in Keys : memo'[k] # NoAdmin => memo'[k] = memo[k]
  <1>1. /\ memo' \in [Keys -> Rows \cup {NoAdmin}]
        /\ \A k \in Keys : memo'[k] # NoAdmin => memo'[k] = memo[k] /\ k \notin keys
        /\ raced' = raced \ keys
    BY DEF Drop, AuthInv, AuthShape
  <1>2. raced' \subseteq Keys
    BY <1>1 DEF AuthInv, AuthIsSound, AdminTypeOK
  <1>3. ASSUME NEW k \in Keys, memo'[k] # NoAdmin, memo'[k] # RowOf(k)'
        PROVE  k \in raced' \/ \E q \in Callers : call'[q].stage = "written" /\ k \in {0, call'[q].key}
    <2>1. memo[k] # NoAdmin /\ memo[k] # RowOf(k) /\ k \notin keys
      BY <1>1, <1>3 DEF RowOf
    <2>2. k \in raced \/ \E q \in Callers : call[q].stage = "written" /\ k \in {0, call[q].key}
      BY <2>1 DEF AuthInv, AuthIsSound, CachedIsCurrent
    <2> QED BY <1>1, <2>1, <2>2
  <1> QED BY <1>1, <1>2, <1>3 DEF CachedIsCurrent

\* The steps that drop entries: the end of a write, a usage reset, and the TTL.
LEMMA DropSteps ==
  ASSUME AuthInv,
         \/ \E r \in Callers : Invalidate(r)
         \/ ResetAdminUsage
         \/ \E k \in Keys : MemoExpires(k)
  PROVE  AuthInv'
  <1>1. /\ UNCHANGED <<admin, token, identity, login, verdicts, clock, adminOps>>
        /\ \E keys : Drop(keys) /\ \A q \in Callers : call[q].stage = "written" =>
              call'[q] = call[q] \/ {0, call[q].key} \subseteq keys
        /\ call' \in [Callers -> Calls]
        /\ \A q \in Callers : call'[q] = call[q] \/ call'[q] = Waiting
    <2>0. call \in [Callers -> Calls]
      BY DEF AuthInv, AuthShape
    <2>1. ASSUME NEW r \in Callers, Invalidate(r)
          PROVE  <1>1!1 /\ <1>1!2 /\ <1>1!3 /\ <1>1!4
      <3>1. /\ UNCHANGED <<admin, token, identity, login, verdicts, clock, adminOps>>
            /\ Drop({0, call[r].key}) /\ call' = [call EXCEPT ![r] = Waiting]
        BY <2>1 DEF Invalidate, InvalidateAdmin
      <3>2. /\ call' \in [Callers -> Calls] /\ call'[r] = Waiting
            /\ \A q \in Callers \ {r} : call'[q] = call[q]
        BY <2>0, <3>1, AuthTypes
      <3> QED BY <3>1, <3>2
    <2>2. ASSUME ResetAdminUsage
          PROVE  <1>1!1 /\ <1>1!2 /\ <1>1!3 /\ <1>1!4
      BY <2>0, <2>2 DEF ResetAdminUsage
    <2>3. ASSUME NEW k \in Keys, MemoExpires(k)
          PROVE  <1>1!1 /\ <1>1!2 /\ <1>1!3 /\ <1>1!4
      BY <2>0, <2>3 DEF MemoExpires
    <2> QED BY <2>1, <2>2, <2>3
  <1>2. /\ CachedIsCurrent' /\ raced' \subseteq Keys
        /\ memo' \in [Keys -> Rows \cup {NoAdmin}]
        /\ \A k \in Keys : memo'[k] # NoAdmin => memo'[k] = memo[k]
    BY <1>1, DropIsSafe
  <1>3. AuthShape' /\ VerdictsAreTrue' /\ OldCredentialsRefused'
    BY <1>1, <1>2 DEF AuthInv, AuthIsSound, AuthShape, VerdictsAreTrue, OldCredentialsRefused, TokenOK
  <1>4. AdminTypeOK'
    <2>1. \A q \in Callers : call'[q].stage \in {"idle", "fetched", "update", "written", "login"}
      BY <1>1 DEF Calls
    <2> QED BY <1>1, <1>2, <2>1 DEF AuthInv, AuthIsSound, AdminTypeOK
  <1>5. IdsAreFresh' /\ CallsAreHonest'
    <2>1. adminOps \in Nat
      BY DEF AuthInv, IdsAreFresh
    <2> QED BY <1>1, <1>2, <2>1, AuthTypes DEF AuthInv, IdsAreFresh, CallsAreHonest, TokenOK
  <1> QED BY <1>2, <1>3, <1>4, <1>5 DEF AuthInv, AuthIsSound

\* A reader stores what it read: an entry that is no longer the row is raced.
LEMMA StoreStep ==
  ASSUME AuthInv, NEW r \in Callers, StoreAdmin(r)
  PROVE  AuthInv'
  <1>0. call[r] \in Calls /\ call[r].stage = "fetched" /\ call[r].row \in Rows /\ call[r].key \in Keys
        /\ call[r].key <= adminOps /\ (call[r].key = 0 => TokenOK) /\ adminOps \in Nat
    <2>1. call[r] \in Calls /\ call[r].stage = "fetched"
      BY DEF StoreAdmin, AuthInv, AuthShape
    <2>2. call[r].row # NoAdmin /\ (call[r].key = 0 => TokenOK)
      BY <2>1 DEF AuthInv, CallsAreHonest
    <2>3. call[r].key <= adminOps /\ adminOps \in Nat
      BY DEF AuthInv, IdsAreFresh
    <2>4. call[r].key \in Keys /\ call[r].row \in Rows
      BY <2>1, <2>2 DEF Calls
    <2> QED BY <2>1, <2>2, <2>3, <2>4
  <1>1. /\ UNCHANGED <<admin, token, login, verdicts, clock, adminOps>>
        /\ call' = [call EXCEPT ![r] = Waiting]
    BY DEF StoreAdmin
  <1>2. /\ call' \in [Callers -> Calls] /\ call'[r] = Waiting
        /\ \A q \in Callers \ {r} : call'[q] = call[q]
    BY <1>1, AuthTypes DEF AuthInv, AuthShape
  <1>3. OldCredentialsRefused'
    <2>1. identity' # NoAdmin => ~identity'.old
      <3>1. CASE call[r].key = 0
        BY <1>0, <3>1, ResolveIsHonest DEF StoreAdmin
      <3>2. CASE call[r].key # 0
        <4>1. identity' = identity
          BY <3>2 DEF StoreAdmin
        <4> QED BY <4>1 DEF AuthInv, AuthIsSound, OldCredentialsRefused
      <3> QED BY <3>1, <3>2
    <2> QED BY <1>1, <2>1 DEF AuthInv, AuthIsSound, OldCredentialsRefused
  <1>4. /\ CachedIsCurrent' /\ raced' \subseteq Keys
        /\ memo' \in [Keys -> Rows \cup {NoAdmin}]
        /\ \A k \in Keys : memo'[k] # NoAdmin => k = call[r].key \/ memo'[k] = memo[k]
    <2>1. CASE Store(call[r].key, call[r].row)
      <3>1. /\ memo' = [memo EXCEPT ![call[r].key] = call[r].row]
            /\ raced' = IF call[r].row # RowOf(call[r].key) THEN raced \cup {call[r].key}
                        ELSE raced \ {call[r].key}
        BY <2>1 DEF Store
      <3>2. /\ memo' \in [Keys -> Rows \cup {NoAdmin}] /\ memo'[call[r].key] = call[r].row
            /\ \A k \in Keys \ {call[r].key} : memo'[k] = memo[k]
        BY <1>0, <3>1 DEF AuthInv, AuthShape
      <3>3. raced' \subseteq Keys
        BY <1>0, <3>1 DEF AuthInv, AuthIsSound, AdminTypeOK
      <3>4. ASSUME NEW k \in Keys, memo'[k] # NoAdmin, memo'[k] # RowOf(k)'
            PROVE  k \in raced' \/ \E q \in Callers : call'[q].stage = "written" /\ k \in {0, call'[q].key}
        <4>1. RowOf(k)' = RowOf(k)
          BY <1>1 DEF RowOf
        <4>2. CASE k = call[r].key
          BY <3>1, <3>2, <3>4, <4>1, <4>2
        <4>3. CASE k # call[r].key
          <5>1. k \in raced \/ \E q \in Callers : call[q].stage = "written" /\ k \in {0, call[q].key}
            BY <3>2, <3>4, <4>1, <4>3 DEF AuthInv, AuthIsSound, CachedIsCurrent
          <5> QED BY <1>0, <1>2, <3>1, <4>3, <5>1
        <4> QED BY <4>2, <4>3
      <3> QED BY <3>2, <3>3, <3>4 DEF CachedIsCurrent
    <2>2. CASE UNCHANGED <<memo, raced>>
      <3>1. CachedIsCurrent'
        BY <1>0, <1>1, <1>2, <2>2, CachedKept DEF AuthInv, AuthIsSound
      <3> QED BY <2>2, <3>1 DEF AuthInv, AuthIsSound, AuthShape, AdminTypeOK
    <2> QED BY <2>1, <2>2 DEF StoreAdmin
  <1>5. AuthShape' /\ VerdictsAreTrue'
    BY <1>1, <1>2, <1>4 DEF AuthInv, AuthShape, VerdictsAreTrue, TokenOK
  <1>6. AdminTypeOK'
    <2>1. \A q \in Callers : call'[q].stage \in {"idle", "fetched", "update", "written", "login"}
      BY <1>2 DEF Calls
    <2> QED BY <1>1, <1>4, <2>1 DEF AuthInv, AuthIsSound, AdminTypeOK
  <1>7. IdsAreFresh' /\ CallsAreHonest'
    BY <1>0, <1>1, <1>2, <1>4, AuthTypes DEF AuthInv, IdsAreFresh, CallsAreHonest, TokenOK
  <1> QED BY <1>3, <1>4, <1>5, <1>6, <1>7 DEF AuthInv, AuthIsSound

\* A writer's statement changes what its two keys stand for, and it owes them.
LEMMA WriteStep ==
  ASSUME AuthInv, NEW r \in Callers, WriteAdmin(r)
  PROVE  AuthInv'
  <1>0. call[r] \in Calls /\ call[r].stage = "update" /\ adminOps \in Nat /\ admin \in Rows \cup {NoAdmin}
    BY DEF WriteAdmin, AuthInv, AuthIsSound, AuthShape, IdsAreFresh, AdminTypeOK
  <1>1. CASE ~(admin # NoAdmin /\ admin.id = call[r].key)
    <2>1. /\ call' = [call EXCEPT ![r] = Waiting]
          /\ UNCHANGED <<admin, memo, token, identity, login, verdicts, clock, adminOps, raced>>
      BY <1>1 DEF WriteAdmin
    <2>2. Waiting \in Calls /\ Waiting.stage = "idle" /\ Waiting.key <= adminOps
      BY <1>0, AuthTypes
    <2>3. VerdictsAreTrue' /\ Cardinality(verdicts') <= VerifyMax /\ OldCredentialsRefused' /\ login' \in BOOLEAN
      BY <2>1 DEF AuthInv, AuthIsSound, VerdictsAreTrue, AdminTypeOK, OldCredentialsRefused
    <2> QED BY <1>0, <2>1, <2>2, <2>3, CallerMoves
  <1>2. CASE admin # NoAdmin /\ admin.id = call[r].key
    <2>1. /\ adminOps < MaxAdminOps /\ adminOps' = adminOps + 1 /\ admin' = call[r].row
          /\ call' = [call EXCEPT ![r].stage = "written"]
          /\ UNCHANGED <<memo, token, identity, login, verdicts, clock, raced>>
      BY <1>2 DEF WriteAdmin
    <2>2. /\ call' \in [Callers -> Calls]
          /\ call'[r].stage = "written" /\ call'[r].key = call[r].key
          /\ \A q \in Callers \ {r} : call'[q] = call[q]
      BY <1>0, <2>1 DEF AuthInv, AuthShape, Calls
    <2>3. call[r].row \in Rows \cup {NoAdmin} /\ (call[r].row # NoAdmin => call[r].row.id = call[r].key)
          /\ call[r].key \in Keys
      BY <1>0 DEF AuthInv, CallsAreHonest, Calls
    <2>4. \A k \in Keys : k \notin {0, call[r].key} => RowOf(k)' = RowOf(k)
      BY <1>2, <2>1, <2>3 DEF RowOf
    <2>5. CachedIsCurrent'
      <3>1. ASSUME NEW k \in Keys, memo'[k] # NoAdmin, memo'[k] # RowOf(k)'
            PROVE  k \in raced' \/ \E q \in Callers : call'[q].stage = "written" /\ k \in {0, call'[q].key}
        <4>1. CASE k \in {0, call[r].key}
          BY <2>2, <4>1
        <4>2. CASE k \notin {0, call[r].key}
          <5>1. k \in raced \/ \E q \in Callers : call[q].stage = "written" /\ k \in {0, call[q].key}
            BY <2>1, <2>4, <3>1, <4>2 DEF AuthInv, AuthIsSound, CachedIsCurrent
          <5> QED BY <1>0, <2>1, <2>2, <5>1
        <4> QED BY <4>1, <4>2
      <3> QED BY <3>1 DEF CachedIsCurrent
    <2>6. AuthShape' /\ VerdictsAreTrue' /\ OldCredentialsRefused'
      BY <2>1, <2>2 DEF AuthInv, AuthIsSound, AuthShape, VerdictsAreTrue, OldCredentialsRefused, TokenOK
    <2>7. AdminTypeOK'
      <3>1. \A q \in Callers : call'[q].stage \in {"idle", "fetched", "update", "written", "login"}
        BY <2>2 DEF Calls
      <3> QED BY <2>1, <2>3, <3>1 DEF AuthInv, AuthIsSound, AdminTypeOK
    <2>8. IdsAreFresh'
      <3>1. /\ adminOps' \in 0..MaxAdminOps /\ adminOps' > adminOps
            /\ \A k \in Keys : k <= adminOps => k <= adminOps'
        BY <1>0, <2>1, AdminSizesAssumption, AuthTypes
      <3>2. \A q \in Callers : call'[q].key = call[q].key /\ call[q].key \in Keys
        BY <2>2 DEF Calls, AuthInv, AuthShape
      <3>3. admin' # NoAdmin => admin'.id = call[r].key
        BY <2>1, <2>3
      <3> QED BY <2>1, <2>3, <3>1, <3>2, <3>3 DEF AuthInv, IdsAreFresh
    <2>9. CallsAreHonest'
      <3>1. TokenOK' = TokenOK
        BY <2>1 DEF TokenOK
      <3> QED BY <2>2, <3>1 DEF AuthInv, CallsAreHonest
    <2> QED BY <2>5, <2>6, <2>7, <2>8, <2>9 DEF AuthInv, AuthIsSound
  <1> QED BY <1>1, <1>2

\* A caller stops: the entries that its write leaves behind are raced.
LEMMA StopStep ==
  ASSUME AuthInv, NEW r \in Callers, CallStops(r)
  PROVE  AuthInv'
  <1>0. call[r] \in Calls /\ call[r].key \in Keys /\ 0 \in Keys /\ adminOps \in Nat
    <2>1. call[r] \in Calls /\ adminOps \in Nat
      BY DEF AuthInv, AuthShape, IdsAreFresh
    <2> QED BY <2>1, AuthTypes DEF Calls
  <1>1. /\ call' = [call EXCEPT ![r] = Waiting]
        /\ raced' = IF call[r].stage = "written"
                    THEN raced \cup {k \in {0, call[r].key} : memo[k] # NoAdmin} ELSE raced
        /\ UNCHANGED <<admin, memo, token, identity, login, verdicts, clock, adminOps>>
    BY DEF CallStops
  <1>2. /\ call' \in [Callers -> Calls] /\ call'[r] = Waiting
        /\ \A q \in Callers \ {r} : call'[q] = call[q]
    BY <1>1, AuthTypes DEF AuthInv, AuthShape
  <1>3. CachedIsCurrent'
    <2>1. ASSUME NEW k \in Keys, memo'[k] # NoAdmin, memo'[k] # RowOf(k)'
          PROVE  k \in raced' \/ \E q \in Callers : call'[q].stage = "written" /\ k \in {0, call'[q].key}
      <3>1. memo[k] # NoAdmin /\ memo[k] # RowOf(k)
        BY <1>1, <2>1 DEF RowOf
      <3>2. k \in raced \/ \E q \in Callers : call[q].stage = "written" /\ k \in {0, call[q].key}
        BY <3>1 DEF AuthInv, AuthIsSound, CachedIsCurrent
      <3> QED BY <1>1, <1>2, <3>1, <3>2
    <2> QED BY <2>1 DEF CachedIsCurrent
  <1>4. AuthShape' /\ VerdictsAreTrue' /\ OldCredentialsRefused'
    BY <1>1, <1>2 DEF AuthInv, AuthIsSound, AuthShape, VerdictsAreTrue, OldCredentialsRefused, TokenOK
  <1>5. AdminTypeOK'
    <2>1. \A q \in Callers : call'[q].stage \in {"idle", "fetched", "update", "written", "login"}
      BY <1>2 DEF Calls
    <2>2. raced' \subseteq Keys
      BY <1>0, <1>1 DEF AuthInv, AuthIsSound, AdminTypeOK
    <2> QED BY <1>1, <2>1, <2>2 DEF AuthInv, AuthIsSound, AdminTypeOK
  <1>6. IdsAreFresh' /\ CallsAreHonest'
    BY <1>0, <1>1, <1>2, AuthTypes DEF AuthInv, IdsAreFresh, CallsAreHonest, TokenOK
  <1> QED BY <1>3, <1>4, <1>5, <1>6 DEF AuthInv, AuthIsSound

\* A new account has an id nothing is cached under; what was cached under its
\* name is raced.
LEMMA CreateStep ==
  ASSUME AuthInv, NEW p \in Passwords, NEW sudo \in BOOLEAN, CreateAdmin(p, sudo)
  PROVE  AuthInv'
  <1> DEFINE new == [id |-> adminOps', sudo |-> sudo, owner |-> FALSE, pw |-> p, reset |-> 0]
  <1>0. adminOps \in Nat /\ 0 \in Keys /\ Keys \subseteq Nat
    BY AuthTypes DEF AuthInv, IdsAreFresh
  <1>1. /\ admin = NoAdmin /\ adminOps < MaxAdminOps /\ adminOps' = adminOps + 1 /\ admin' = new
        /\ raced' = raced \cup {k \in {0} : memo[k] # NoAdmin}
        /\ UNCHANGED <<memo, call, token, identity, login, verdicts, clock>>
    BY DEF CreateAdmin
  <1>2. new \in Rows /\ new.id = adminOps'
    BY <1>0, <1>1, AdminSizesAssumption DEF Rows, Ids
  <1> HIDE DEF new
  <1>3. \A k \in Keys : memo[k] # NoAdmin => k <= adminOps
    BY DEF AuthInv, IdsAreFresh
  <1>4. CachedIsCurrent'
    <2>1. ASSUME NEW k \in Keys, memo'[k] # NoAdmin, memo'[k] # RowOf(k)'
          PROVE  k \in raced' \/ \E q \in Callers : call'[q].stage = "written" /\ k \in {0, call'[q].key}
      <3>1. CASE k = 0
        BY <1>1, <2>1, <3>1
      <3>2. CASE k # 0
        <4>1. k # adminOps'
          BY <1>0, <1>1, <1>3, <2>1
        <4>2. RowOf(k) = NoAdmin /\ memo[k] # NoAdmin
          BY <1>1, <2>1 DEF RowOf
        <4>3. k \in raced \/ \E q \in Callers : call[q].stage = "written" /\ k \in {0, call[q].key}
          BY <4>2 DEF AuthInv, AuthIsSound, CachedIsCurrent
        <4> QED BY <1>1, <4>3
      <3> QED BY <3>1, <3>2
    <2> QED BY <2>1 DEF CachedIsCurrent
  <1>5. AuthShape' /\ VerdictsAreTrue' /\ OldCredentialsRefused' /\ CallsAreHonest'
    BY <1>1 DEF AuthInv, AuthIsSound, AuthShape, VerdictsAreTrue, OldCredentialsRefused, TokenOK, CallsAreHonest
  <1>6. AdminTypeOK'
    <2>1. raced' \subseteq Keys
      BY <1>0, <1>1 DEF AuthInv, AuthIsSound, AdminTypeOK
    <2> QED BY <1>1, <1>2, <2>1 DEF AuthInv, AuthIsSound, AdminTypeOK
  <1>7. IdsAreFresh'
    <2>1. /\ adminOps' \in 0..MaxAdminOps /\ adminOps' <= adminOps'
          /\ \A k \in Keys : k <= adminOps => k <= adminOps'
      BY <1>0, <1>1, AdminSizesAssumption
    <2>2. \A q \in Callers : call[q].key \in Keys
      BY DEF AuthInv, AuthShape, Calls
    <2> QED BY <1>1, <1>2, <2>1, <2>2 DEF AuthInv, IdsAreFresh
  <1> QED BY <1>4, <1>5, <1>6, <1>7 DEF AuthInv, AuthIsSound

\* A request that hits, the TTL of a verdict, the clock: nothing else changes.
LEMMA QuietSteps ==
  ASSUME AuthInv, ResolveHit \/ VerdictExpires \/ AdminTick \/ UNCHANGED adminVars
  PROVE  AuthInv'
  <1>1. /\ UNCHANGED <<admin, memo, call, token, login, adminOps, raced>>
        /\ CachedIsCurrent' /\ CallsAreHonest' /\ IdsAreFresh' /\ AuthShape'
    <2>1. UNCHANGED <<admin, memo, call, token, login, adminOps, raced>>
      BY DEF ResolveHit, VerdictExpires, AdminTick, adminVars
    <2> QED BY <2>1 DEF AuthInv, AuthIsSound, CachedIsCurrent, CallsAreHonest, IdsAreFresh, AuthShape, RowOf, TokenOK
  <1>2. VerdictsAreTrue' /\ Cardinality(verdicts') <= VerifyMax
    <2>1. CASE verdicts' = verdicts
      BY <2>1 DEF AuthInv, AuthIsSound, AdminTypeOK, VerdictsAreTrue
    <2>2. CASE VerdictExpires
      <3>1. PICK v \in verdicts : verdicts' = verdicts \ {v}
        BY <2>2 DEF VerdictExpires
      <3>2. IsFiniteSet(verdicts) /\ Cardinality(verdicts) \in Nat /\ Cardinality(verdicts) <= VerifyMax
        BY FS_CardinalityType DEF AuthInv, AuthIsSound, AdminTypeOK, VerdictsAreTrue
      <3>3. IsFiniteSet(verdicts') /\ Cardinality(verdicts') = Cardinality(verdicts) - 1
        BY <3>1, <3>2, FS_RemoveElement
      <3> QED BY <3>1, <3>2, <3>3, AdminSizesAssumption DEF AuthInv, VerdictsAreTrue
    <2> QED BY <2>1, <2>2 DEF ResolveHit, AdminTick, adminVars
  <1>3. clock' \in 2..MaxClock
    BY AdminSizesAssumption DEF AuthInv, AuthIsSound, AdminTypeOK, ResolveHit, VerdictExpires, AdminTick, adminVars
  <1>4. OldCredentialsRefused'
    <2>1. CASE identity' = identity
      BY <1>1, <2>1 DEF AuthInv, AuthIsSound, OldCredentialsRefused
    <2>2. CASE ResolveHit
      <3>1. memo[0] \in Rows /\ TokenOK /\ ResolveToken(memo[0])
        BY <2>2, AuthTypes DEF ResolveHit, AuthInv, AuthShape
      <3> QED BY <1>1, <3>1, ResolveIsHonest DEF AuthInv, AuthIsSound, OldCredentialsRefused
    <2> QED BY <2>1, <2>2 DEF VerdictExpires, AdminTick, adminVars
  <1>5. AdminTypeOK'
    BY <1>1, <1>2, <1>3 DEF AuthInv, AuthIsSound, AdminTypeOK
  <1> QED BY <1>1, <1>2, <1>4, <1>5 DEF AuthInv, AuthIsSound

\* Requests are judged by the account as it is, but for the entries a late reader
\* or a stopped writer left; no verdict of the cache logs in with a password that is
\* not the one of the row a request was judged by; and no token from before that row's
\* last password reset is honoured (middleware.go, store.go, verifycache.go): for any
\* number of concurrent callers, passwords and changes.
THEOREM AuthTheorem == AdminSpec => []AuthIsSound
  <1>1. AdminInit => AuthInv
    <2> SUFFICES ASSUME AdminInit PROVE AuthInv
      OBVIOUS
    <2>1. /\ admin = NoAdmin /\ memo = [k \in Keys |-> NoAdmin] /\ call = [r \in Callers |-> Waiting]
          /\ token = NoAdmin /\ identity = NoAdmin /\ verdicts = {} /\ clock = 2 /\ adminOps = 0 /\ raced = {}
      BY DEF AdminInit
    <2>2. AuthShape /\ CachedIsCurrent
      BY <2>1, AuthTypes DEF AuthShape, CachedIsCurrent
    <2>3. IdsAreFresh /\ CallsAreHonest
      BY <2>1, AuthTypes, AdminSizesAssumption DEF IdsAreFresh, CallsAreHonest
    <2>4. VerdictsAreTrue /\ Cardinality(verdicts) <= VerifyMax
      BY <2>1, FS_EmptySet, AdminSizesAssumption DEF VerdictsAreTrue
    <2>5. login /\ login \in BOOLEAN
      BY Zenon DEF AdminInit
    <2>6. AdminTypeOK
      BY <2>1, <2>4, <2>5, AuthTypes, AdminSizesAssumption DEF AdminTypeOK
    <2>7. OldCredentialsRefused
      BY <2>1, <2>5 DEF OldCredentialsRefused
    <2> QED BY <2>2, <2>3, <2>4, <2>6, <2>7 DEF AuthInv, AuthIsSound
  <1>2. AuthInv /\ [AdminNext]_adminVars => AuthInv'
    BY CallerSteps, DropSteps, StoreStep, WriteStep, StopStep, CreateStep, QuietSteps DEF AdminNext, InactiveRead
  <1>3. AuthInv => AuthIsSound
    BY DEF AuthInv
  <1> QED BY <1>1, <1>2, <1>3, PTL DEF AdminSpec

-----------------------------------------------------------------------------
(***************************************************************************)
(* Presence.                                                               *)
(***************************************************************************)

PresShape ==
  /\ connAge \in [Viewed -> 0..(GoneFor + 1)]
  /\ leftAge \in [LiveNodes -> [Viewed -> 0..(ReportEvery + 1)]]
  /\ listed \in [Viewed -> 0..Never]
  /\ stamped \in [Viewed -> 0..Never]
  /\ keyAge \in [LiveNodes -> 0..KeyTTL]
  /\ chan \in [LiveNodes -> [up : BOOLEAN, age : 0..KeyTTL]]
  /\ status \in [LiveNodes -> [connected : BOOLEAN, age : 0..NodesTTL]]
  /\ known \in [ids : SUBSET LiveNodes, age : 0..NodesTTL]
  /\ counted \in [Scopes -> [n : Nat, fresh : BOOLEAN]]

\* The keys of a node without a channel are at least as old as its silence.
KeysAge == \A n \in LiveNodes : ~chan[n].up => keyAge[n] >= chan[n].age

\* A user on a node whose channel works has been listed since both are a tick old.
LiveAreListed ==
  \A u \in Viewed : at[u] # Nowhere /\ connAge[u] >= 1 =>
    (chan[at[u]].up /\ chan[at[u]].age >= 1 => listed[u] = 0)

\* A node that was connected before the list of nodes was read is in it.
KnownIsComplete ==
  \A n \in LiveNodes : status[n].connected /\ status[n].age > known.age => n \in known.ids

\* What says that a user is online is as old as the user's absence, or as the last
\* report that could bring its bytes.
GoneAge ==
  \A u \in Viewed : at[u] = Nowhere =>
    /\ stamped[u] + ReportEvery >= connAge[u]
    /\ \A n \in LiveNodes : leftAge[n][u] >= connAge[u] \/ leftAge[n][u] > ReportEvery
    /\ listed[u] >= connAge[u] \/ listed[u] > Window

Gone(s) == {u \in ScopeUsers(s) : SurelyOffline(u)}

\* A remembered count still leaves room for the users who are surely gone.
CountsHold ==
  \A s \in Scopes : counted[s].fresh =>
    Cardinality(Gone(s)) + counted[s].n <= Cardinality(ScopeUsers(s))

PresInv ==
  /\ PresTypeOK /\ PresShape /\ KeysAge /\ LiveAreListed /\ KnownIsComplete /\ GoneAge
  /\ CountsHold /\ OnlineIsTrue

\* The windows, and the ages they stand for, are numbers.
LEMMA Ages ==
  /\ Window \in Nat /\ KeyTTL \in Nat /\ NodesTTL \in Nat /\ DbWindow \in Nat /\ Retention \in Nat
  /\ 0 < NodesTTL /\ 0 < Window /\ Window < KeyTTL /\ KeyTTL < DbWindow /\ Window < Retention
  /\ Old \in Nat /\ Never \in Nat /\ Window < Old /\ Old < Never /\ DbWindow + 1 < Never
  /\ ReportEvery \in Nat /\ GoneFor = DbWindow + ReportEvery
  BY PresenceAssumption DEF Old, Never, GoneFor

\* An age counts up to its cap and stays there.
LEMMA AgeCapType ==
  ASSUME NEW top \in Nat, NEW a \in Nat
  PROVE  /\ AgeCap(a, top) \in 0..top
         /\ a < top => AgeCap(a, top) = a + 1
         /\ a >= top => AgeCap(a, top) = top
  BY DEF AgeCap

\* The users of a scope are finitely many, those who are gone among them.
LEMMA ScopesFinite ==
  ASSUME NEW s
  PROVE  /\ ScopeUsers(s) \subseteq Viewed /\ IsFiniteSet(ScopeUsers(s))
         /\ Cardinality(ScopeUsers(s)) \in Nat
         /\ \A S \in SUBSET ScopeUsers(s) :
              IsFiniteSet(S) /\ Cardinality(S) \in Nat /\ Cardinality(S) <= Cardinality(ScopeUsers(s))
  <1>1. ScopeUsers(s) \subseteq Viewed
    BY PresenceAssumption DEF ScopeUsers
  <1> QED BY <1>1, PresenceAssumption, FS_Subset, FS_CardinalityType

\* Nobody comes to be surely gone but by the passing of time, so the counts hold.
LEMMA CountsKept ==
  ASSUME PresInv, counted' = counted,
         \A u \in Viewed : SurelyOffline(u)' => SurelyOffline(u)
  PROVE  CountsHold'
  <1>1. ASSUME NEW s \in Scopes, counted[s].fresh
        PROVE  Cardinality(Gone(s)') + counted[s].n <= Cardinality(ScopeUsers(s))
    <2>1. Gone(s)' \subseteq Gone(s) /\ Gone(s) \subseteq ScopeUsers(s) /\ Gone(s)' \subseteq ScopeUsers(s)
      BY ScopesFinite DEF Gone, ScopeUsers
    <2>2. /\ Cardinality(Gone(s)') <= Cardinality(Gone(s)) /\ Cardinality(Gone(s)') \in Nat
          /\ Cardinality(Gone(s)) \in Nat /\ Cardinality(ScopeUsers(s)) \in Nat
      BY <2>1, ScopesFinite, FS_Subset
    <2>3. counted[s].n \in Nat
      BY DEF PresInv, PresShape
    <2>4. Cardinality(Gone(s)) + counted[s].n <= Cardinality(ScopeUsers(s))
      BY <1>1 DEF PresInv, CountsHold
    <2> QED BY <2>2, <2>3, <2>4
  <1> QED BY <1>1 DEF CountsHold, ScopeUsers

\* Users and nodes come and go, and nodes report.
LEMMA TurnSteps ==
  ASSUME PresInv,
         \/ \E u \in Viewed, n \in LiveNodes : Connect(u, n)
         \/ \E u \in Viewed : Leave(u)
         \/ \E n \in LiveNodes : NodeReport(n) \/ DisableNode(n) \/ ChannelTurns(n)
         \/ PresenceTrim
  PROVE  PresInv'
  <1> USE DEF PresInv
  <1>0. Nowhere \notin LiveNodes /\ OnlineIsTrue' /\ counted' = counted /\ known' = known
    <2>1. page' = NoPage /\ counted' = counted /\ known' = known
      BY DEF Connect, Leave, NodeReport, DisableNode, ChannelTurns, PresenceTrim
    <2> QED BY <2>1, PresenceAssumption DEF OnlineIsTrue, NoPage
  <1>1. ASSUME NEW u \in Viewed, NEW a \in LiveNodes \cup {Nowhere},
               at' = [at EXCEPT ![u] = a], connAge' = [connAge EXCEPT ![u] = 0],
               leftAge' \in [LiveNodes -> [Viewed -> 0..(ReportEvery + 1)]],
               \A n \in LiveNodes : \A x \in Viewed \ {u} : leftAge'[n][x] = leftAge[n][x],
               UNCHANGED <<listed, stamped, keyAge, chan, status>>
        PROVE  PresInv'
    <2>1. /\ at' \in [Viewed -> LiveNodes \cup {Nowhere}] /\ connAge' \in [Viewed -> 0..(GoneFor + 1)]
          /\ at'[u] = a /\ connAge'[u] = 0
          /\ \A x \in Viewed \ {u} : at'[x] = at[x] /\ connAge'[x] = connAge[x]
      BY <1>1, Ages DEF PresTypeOK, PresShape
    <2>2. PresTypeOK' /\ PresShape' /\ KeysAge' /\ KnownIsComplete'
      BY <1>0, <1>1, <2>1 DEF PresTypeOK, PresShape, KeysAge, KnownIsComplete, ScopeUsers
    <2>3. LiveAreListed'
      BY <1>1, <2>1 DEF LiveAreListed
    <2>4. GoneAge'
      <3>1. ASSUME NEW x \in Viewed, at'[x] = Nowhere
            PROVE  /\ stamped'[x] + ReportEvery >= connAge'[x]
                   /\ \A n \in LiveNodes : leftAge'[n][x] >= connAge'[x] \/ leftAge'[n][x] > ReportEvery
                   /\ listed'[x] >= connAge'[x] \/ listed'[x] > Window
        <4>1. CASE x = u
          <5>1. \A n \in LiveNodes : leftAge'[n][x] \in 0..(ReportEvery + 1)
            BY <1>1
          <5>2. connAge'[x] = 0 /\ stamped'[x] \in 0..Never /\ listed'[x] \in 0..Never
            BY <1>1, <2>1, <4>1 DEF PresShape
          <5> QED BY <5>1, <5>2, Ages
        <4>2. CASE x # u
          BY <1>1, <2>1, <3>1, <4>2 DEF GoneAge
        <4> QED BY <4>1, <4>2
      <3> QED BY <3>1 DEF GoneAge
    <2>5. \A x \in Viewed : SurelyOffline(x)' => SurelyOffline(x)
      BY <2>1, Ages DEF SurelyOffline
    <2> QED BY <1>0, <2>2, <2>3, <2>4, <2>5, CountsKept
  <1>2. ASSUME NEW n \in LiveNodes, NodeReport(n)
        PROVE  PresInv'
    <2>1. UNCHANGED <<at, connAge, leftAge, listed, keyAge, chan>>
      BY <1>2 DEF NodeReport
    <2>2. /\ stamped' \in [Viewed -> 0..Never]
          /\ \A u \in Viewed : stamped'[u] = stamped[u] \/ (stamped'[u] = 0 /\ (at[u] = n \/ leftAge[n][u] <= ReportEvery))
      BY <1>2, Ages DEF NodeReport, Reportable, PresShape
    <2>3. /\ status' \in [LiveNodes -> [connected : BOOLEAN, age : 0..NodesTTL]]
          /\ \A m \in LiveNodes : status'[m] = status[m] \/ status'[m].age = 0
      <3>1. status' = [status EXCEPT ![n] = IF @.connected THEN @ ELSE [connected |-> TRUE, age |-> 0]]
        BY <1>2 DEF NodeReport
      <3>2. [connected |-> TRUE, age |-> 0] \in [connected : BOOLEAN, age : 0..NodesTTL]
        BY Ages
      <3>3. \A m \in LiveNodes : status'[m] = status[m] \/ status'[m] = [connected |-> TRUE, age |-> 0]
        BY <3>1 DEF PresShape
      <3> QED BY <3>1, <3>2, <3>3 DEF PresShape
    <2>4. PresShape' /\ PresTypeOK'
      BY <1>0, <2>1, <2>2, <2>3 DEF PresTypeOK, PresShape, ScopeUsers
    <2>5. KeysAge' /\ LiveAreListed'
      BY <2>1 DEF KeysAge, LiveAreListed
    <2>6. KnownIsComplete'
      BY <1>0, <2>3, Ages DEF KnownIsComplete, PresShape
    <2>7. GoneAge'
      <3>1. ASSUME NEW u \in Viewed, at[u] = Nowhere
            PROVE  stamped'[u] + ReportEvery >= connAge[u]
        <4>1. /\ connAge[u] \in Nat /\ leftAge[n][u] \in Nat /\ stamped[u] \in Nat
              /\ stamped[u] + ReportEvery >= connAge[u]
              /\ leftAge[n][u] >= connAge[u] \/ leftAge[n][u] > ReportEvery
          BY <3>1, Ages DEF PresShape, GoneAge
        <4>2. stamped'[u] = stamped[u] \/ (stamped'[u] = 0 /\ leftAge[n][u] <= ReportEvery)
          BY <1>0, <2>2, <3>1
        <4> QED BY <4>1, <4>2, Ages
      <3> QED BY <2>1, <3>1 DEF GoneAge
    <2>8. \A x \in Viewed : SurelyOffline(x)' => SurelyOffline(x)
      BY <2>1 DEF SurelyOffline
    <2> QED BY <1>0, <2>4, <2>5, <2>6, <2>7, <2>8, CountsKept
  <1>3. ASSUME NEW n \in LiveNodes, DisableNode(n)
        PROVE  PresInv'
    <2>1. UNCHANGED <<at, connAge, leftAge, listed, stamped, keyAge, chan>>
          /\ status' = [status EXCEPT ![n] = [connected |-> FALSE, age |-> 0]]
      BY <1>3 DEF DisableNode
    <2>2. [connected |-> FALSE, age |-> 0] \in [connected : BOOLEAN, age : 0..NodesTTL]
      BY Ages
    <2>3. /\ status' \in [LiveNodes -> [connected : BOOLEAN, age : 0..NodesTTL]]
          /\ \A m \in LiveNodes : status'[m] = status[m] \/ status'[m].age = 0
      BY <2>1, <2>2 DEF PresShape
    <2>4. PresShape' /\ PresTypeOK'
      BY <1>0, <2>1, <2>3 DEF PresTypeOK, PresShape, ScopeUsers
    <2>5. KeysAge' /\ LiveAreListed' /\ GoneAge'
      BY <2>1 DEF KeysAge, LiveAreListed, GoneAge
    <2>6. KnownIsComplete'
      BY <1>0, <2>3, Ages DEF KnownIsComplete, PresShape
    <2>8. \A x \in Viewed : SurelyOffline(x)' => SurelyOffline(x)
      BY <2>1 DEF SurelyOffline
    <2> QED BY <1>0, <2>4, <2>5, <2>6, <2>8, CountsKept
  <1>4. ASSUME NEW n \in LiveNodes, ChannelTurns(n)
        PROVE  PresInv'
    <2>1. UNCHANGED <<at, connAge, leftAge, listed, stamped, keyAge, status>>
          /\ chan' = [chan EXCEPT ![n] = [up |-> ~@.up, age |-> 0]]
      BY <1>4 DEF ChannelTurns
    <2>2. [up |-> ~chan[n].up, age |-> 0] \in [up : BOOLEAN, age : 0..KeyTTL]
      BY Ages
    <2>3. /\ chan' \in [LiveNodes -> [up : BOOLEAN, age : 0..KeyTTL]]
          /\ \A m \in LiveNodes : chan'[m] = chan[m] \/ chan'[m].age = 0
      <3>1. /\ chan'[n] = [up |-> ~chan[n].up, age |-> 0]
            /\ \A m \in LiveNodes \ {n} : chan'[m] = chan[m]
        BY <2>1, Zenon DEF PresShape
      <3>2. chan'[n].age = 0
        BY <3>1
      <3>3. chan' \in [LiveNodes -> [up : BOOLEAN, age : 0..KeyTTL]]
        BY <2>1, <2>2, Zenon DEF PresShape
      <3> QED BY <3>1, <3>2, <3>3
    <2>4. PresShape' /\ PresTypeOK'
      BY <1>0, <2>1, <2>3 DEF PresTypeOK, PresShape, ScopeUsers
    <2>5. GoneAge' /\ KnownIsComplete'
      BY <1>0, <2>1 DEF GoneAge, KnownIsComplete
    <2>6. KeysAge'
      BY <2>1, <2>3, Ages DEF KeysAge, PresShape
    <2>7. LiveAreListed'
      BY <2>1, <2>3 DEF LiveAreListed, PresTypeOK
    <2>8. \A x \in Viewed : SurelyOffline(x)' => SurelyOffline(x)
      BY <2>1 DEF SurelyOffline
    <2> QED BY <1>0, <2>4, <2>5, <2>6, <2>7, <2>8, CountsKept
  <1>5. ASSUME PresenceTrim
        PROVE  PresInv'
    <2>1. UNCHANGED <<at, connAge, leftAge, stamped, keyAge, chan, status>>
          /\ listed' = [u \in Viewed |-> IF listed[u] = Old THEN Never ELSE listed[u]]
      BY <1>5 DEF PresenceTrim
    <2>2. /\ listed' \in [Viewed -> 0..Never]
          /\ \A u \in Viewed : listed'[u] = listed[u] \/ (listed[u] = Old /\ listed'[u] = Never)
      <3>1. Never \in 0..Never
        BY Ages
      <3>2. listed \in [Viewed -> 0..Never]
        BY DEF PresShape
      <3> QED BY <2>1, <3>1, <3>2
    <2>3. PresShape' /\ PresTypeOK'
      BY <1>0, <2>1, <2>2 DEF PresTypeOK, PresShape, ScopeUsers
    <2>4. LiveAreListed'
      BY <2>1, <2>2, Ages DEF LiveAreListed
    <2>5. GoneAge'
      BY <2>1, <2>2, Ages DEF GoneAge
    <2>6. KeysAge' /\ KnownIsComplete'
      BY <1>0, <2>1 DEF KeysAge, KnownIsComplete
    <2>8. \A x \in Viewed : SurelyOffline(x)' => SurelyOffline(x)
      BY <2>1 DEF SurelyOffline
    <2> QED BY <1>0, <2>3, <2>4, <2>5, <2>6, <2>8, CountsKept
  <1>6. ASSUME NEW u \in Viewed, NEW n \in LiveNodes, Connect(u, n)
        PROVE  PresInv'
    BY <1>1, <1>6 DEF Connect, PresShape
  <1>7. ASSUME NEW u \in Viewed, Leave(u)
        PROVE  PresInv'
    <2>1. leftAge' = [leftAge EXCEPT ![at[u]][u] = 0] /\ at[u] \in LiveNodes
      BY <1>7 DEF Leave, PresTypeOK
    <2>2. /\ leftAge' \in [LiveNodes -> [Viewed -> 0..(ReportEvery + 1)]]
          /\ \A n \in LiveNodes : \A x \in Viewed \ {u} : leftAge'[n][x] = leftAge[n][x]
      BY <2>1, Ages DEF PresShape
    <2> QED BY <1>1, <1>7, <2>2 DEF Leave
  <1> QED BY <1>2, <1>3, <1>4, <1>5, <1>6, <1>7

\* A tick: what is online is listed anew, and everything else ages alike.
LEMMA PassStep ==
  ASSUME PresInv, Pass
  PROVE  PresInv'
  <1> USE DEF PresInv
  <1>0. at' = at /\ OnlineIsTrue' /\ at \in [Viewed -> LiveNodes \cup {Nowhere}]
    BY DEF Pass, OnlineIsTrue, NoPage, PresTypeOK
  <1>1. /\ connAge' \in [Viewed -> 0..(GoneFor + 1)]
        /\ \A u \in Viewed : connAge'[u] = AgeCap(connAge[u], GoneFor + 1) /\ connAge[u] \in 0..(GoneFor + 1)
    <2>1. \A u \in Viewed : connAge[u] \in 0..(GoneFor + 1) /\ connAge[u] \in Nat
      BY Ages DEF PresShape
    <2>2. \A u \in Viewed : AgeCap(connAge[u], GoneFor + 1) \in 0..(GoneFor + 1)
      BY <2>1, AgeCapType, Ages
    <2>3. connAge' = [u \in Viewed |-> AgeCap(connAge[u], GoneFor + 1)]
      BY DEF Pass
    <2> QED BY <2>1, <2>2, <2>3
  <1>15. /\ leftAge' \in [LiveNodes -> [Viewed -> 0..(ReportEvery + 1)]]
         /\ \A n \in LiveNodes, u \in Viewed :
              leftAge'[n][u] = AgeCap(leftAge[n][u], ReportEvery + 1) /\ leftAge[n][u] \in 0..(ReportEvery + 1)
    <2>1. \A n \in LiveNodes, u \in Viewed : leftAge[n][u] \in 0..(ReportEvery + 1) /\ leftAge[n][u] \in Nat
      BY Ages DEF PresShape
    <2>2. \A n \in LiveNodes, u \in Viewed : AgeCap(leftAge[n][u], ReportEvery + 1) \in 0..(ReportEvery + 1)
      BY <2>1, AgeCapType, Ages
    <2>3. leftAge' = [n \in LiveNodes |-> [u \in Viewed |-> AgeCap(leftAge[n][u], ReportEvery + 1)]]
      BY DEF Pass
    <2> QED BY <2>1, <2>2, <2>3
  <1>2. /\ listed' \in [Viewed -> 0..Never]
        /\ \A u \in Viewed : /\ u \in LiveUsers => listed'[u] = 0
                             /\ u \notin LiveUsers =>
                                  listed'[u] = IF listed[u] = Never THEN Never ELSE AgeCap(listed[u], Old)
                             /\ listed[u] \in 0..Never
    <2>1. \A u \in Viewed : listed[u] \in 0..Never /\ listed[u] \in Nat
      BY Ages DEF PresShape
    <2>2. \A u \in Viewed : AgeCap(listed[u], Old) \in 0..(Old)
      BY <2>1, AgeCapType, Ages
    <2>3. \A u \in Viewed : AgeCap(listed[u], Old) \in 0..Never
      BY <2>2, Ages
    <2>4. 0 \in 0..Never /\ Never \in 0..Never
      BY Ages
    <2> QED BY <2>1, <2>3, <2>4 DEF Pass
  <1>3. /\ stamped' \in [Viewed -> 0..Never]
        /\ \A u \in Viewed :
             stamped'[u] = IF stamped[u] = Never THEN Never ELSE AgeCap(stamped[u], DbWindow + 1)
    <2>1. \A u \in Viewed : stamped[u] \in 0..Never /\ stamped[u] \in Nat
      BY Ages DEF PresShape
    <2>2. \A u \in Viewed : AgeCap(stamped[u], DbWindow + 1) \in 0..(DbWindow + 1)
      BY <2>1, AgeCapType, Ages
    <2>3. \A u \in Viewed : AgeCap(stamped[u], DbWindow + 1) \in 0..Never
      BY <2>2, Ages
    <2>4. 0 \in 0..Never /\ Never \in 0..Never
      BY Ages
    <2> QED BY <2>1, <2>3, <2>4 DEF Pass
  <1>4. /\ keyAge' \in [LiveNodes -> 0..KeyTTL]
        /\ \A n \in LiveNodes : ~chan[n].up => keyAge'[n] = AgeCap(keyAge[n], KeyTTL)
    <2>0. \A n \in LiveNodes : keyAge[n] \in Nat /\ KeyTTL \in Nat /\ 0 \in 0..KeyTTL
      BY Ages DEF PresShape
    <2>1. \A n \in LiveNodes : AgeCap(keyAge[n], KeyTTL) \in 0..KeyTTL
      BY <2>0, AgeCapType
    <2> QED BY <2>0, <2>1 DEF Pass
  <1>5. /\ chan' \in [LiveNodes -> [up : BOOLEAN, age : 0..KeyTTL]]
        /\ \A n \in LiveNodes : chan'[n].up = chan[n].up /\ chan'[n].age = AgeCap(chan[n].age, KeyTTL)
    <2>0. \A n \in LiveNodes : chan[n].age \in Nat /\ KeyTTL \in Nat
      BY Ages DEF PresShape
    <2>1. \A n \in LiveNodes : AgeCap(chan[n].age, KeyTTL) \in 0..KeyTTL
      BY <2>0, AgeCapType
    <2>2. chan' = [n \in LiveNodes |-> [chan[n] EXCEPT !.age = AgeCap(@, KeyTTL)]]
      BY DEF Pass
    <2> QED BY <2>1, <2>2 DEF PresShape
  <1>6. /\ status' \in [LiveNodes -> [connected : BOOLEAN, age : 0..NodesTTL]]
        /\ \A n \in LiveNodes : status'[n].connected = status[n].connected
                                /\ status'[n].age = AgeCap(status[n].age, NodesTTL)
    <2>0. \A n \in LiveNodes : status[n].age \in Nat /\ NodesTTL \in Nat
      BY Ages DEF PresShape
    <2>1. \A n \in LiveNodes : AgeCap(status[n].age, NodesTTL) \in 0..NodesTTL
      BY <2>0, AgeCapType
    <2>2. status' = [n \in LiveNodes |-> [status[n] EXCEPT !.age = AgeCap(@, NodesTTL)]]
      BY DEF Pass
    <2> QED BY <2>1, <2>2 DEF PresShape
  <1>7. /\ known' \in [ids : SUBSET LiveNodes, age : 0..NodesTTL]
        /\ known'.ids = known.ids /\ known'.age = AgeCap(known.age, NodesTTL)
    <2>1. AgeCap(known.age, NodesTTL) \in 0..NodesTTL
      BY AgeCapType, Ages DEF PresShape
    <2> QED BY <2>1 DEF Pass, PresShape
  <1>8. /\ counted' \in [Scopes -> [n : Nat, fresh : BOOLEAN]]
        /\ \A s \in Scopes : counted'[s].n = counted[s].n /\ counted'[s].fresh = FALSE
    <2>1. counted' = [s \in Scopes |-> [counted[s] EXCEPT !.fresh = FALSE]]
      BY DEF Pass
    <2> QED BY <2>1 DEF PresShape
  <1>9. PresShape' /\ PresTypeOK'
    BY <1>0, <1>1, <1>2, <1>3, <1>4, <1>5, <1>6, <1>7, <1>8, <1>15 DEF PresShape, PresTypeOK, ScopeUsers
  <1>10. CountsHold'
    <2>1. \A s \in Scopes : ~counted'[s].fresh
      BY <1>8
    <2> QED BY <2>1 DEF CountsHold
  <1>11. KeysAge'
    <2>1. ASSUME NEW n \in LiveNodes, ~chan'[n].up
          PROVE  keyAge'[n] >= chan'[n].age
      <3>1. keyAge[n] >= chan[n].age /\ keyAge[n] \in 0..KeyTTL /\ chan[n].age \in 0..KeyTTL
            /\ keyAge'[n] = AgeCap(keyAge[n], KeyTTL) /\ chan'[n].age = AgeCap(chan[n].age, KeyTTL)
        BY <1>4, <1>5, <2>1 DEF KeysAge, PresShape
      <3> QED BY <3>1, Ages DEF AgeCap
    <2> QED BY <2>1 DEF KeysAge
  <1>12. LiveAreListed'
    <2>1. ASSUME NEW u \in Viewed, at[u] # Nowhere, chan'[at[u]].up
          PROVE  listed'[u] = 0
      <3>1. u \in LiveUsers
        BY <1>0, <1>5, <2>1 DEF LiveUsers
      <3> QED BY <1>2, <3>1
    <2> QED BY <1>0, <2>1 DEF LiveAreListed
  <1>13. KnownIsComplete'
    <2>1. ASSUME NEW n \in LiveNodes, status'[n].connected, status'[n].age > known'.age
          PROVE  n \in known'.ids
      <3>1. /\ status[n].connected
            /\ status[n].age \in 0..NodesTTL /\ known.age \in 0..NodesTTL
            /\ status'[n].age = AgeCap(status[n].age, NodesTTL) /\ known'.age = AgeCap(known.age, NodesTTL)
        BY <1>6, <1>7, <2>1 DEF PresShape
      <3>2. status[n].age > known.age
        BY <2>1, <3>1, Ages DEF AgeCap
      <3> QED BY <1>7, <3>1, <3>2 DEF KnownIsComplete
    <2> QED BY <2>1 DEF KnownIsComplete
  <1>14. GoneAge'
    <2>1. ASSUME NEW u \in Viewed, at[u] = Nowhere
          PROVE  /\ stamped'[u] + ReportEvery >= connAge'[u]
                 /\ \A n \in LiveNodes : leftAge'[n][u] >= connAge'[u] \/ leftAge'[n][u] > ReportEvery
                 /\ listed'[u] >= connAge'[u] \/ listed'[u] > Window
      <3>1. u \notin LiveUsers
        BY <2>1 DEF LiveUsers
      <3>2. /\ stamped[u] + ReportEvery >= connAge[u] /\ (listed[u] >= connAge[u] \/ listed[u] > Window)
            /\ stamped[u] \in 0..Never /\ listed[u] \in 0..Never /\ connAge[u] \in 0..(GoneFor + 1)
        BY <2>1 DEF GoneAge, PresShape
      <3>3. stamped'[u] + ReportEvery >= connAge'[u]
        BY <1>1, <1>3, <3>2, Ages DEF AgeCap
      <3>6. ASSUME NEW n \in LiveNodes
            PROVE  leftAge'[n][u] >= connAge'[u] \/ leftAge'[n][u] > ReportEvery
        <4>1. leftAge[n][u] >= connAge[u] \/ leftAge[n][u] > ReportEvery
          BY <2>1 DEF GoneAge
        <4>2. /\ leftAge'[n][u] = AgeCap(leftAge[n][u], ReportEvery + 1) /\ leftAge[n][u] \in 0..(ReportEvery + 1)
              /\ connAge'[u] = AgeCap(connAge[u], GoneFor + 1) /\ connAge[u] \in 0..(GoneFor + 1)
          BY <1>1, <1>15
        <4> QED BY <4>1, <4>2, Ages DEF AgeCap
      <3>4. listed'[u] = IF listed[u] = Never THEN Never ELSE AgeCap(listed[u], Old)
        BY <1>2, <3>1
      <3>5. listed'[u] >= connAge'[u] \/ listed'[u] > Window
        BY <1>1, <3>2, <3>4, Ages DEF AgeCap
      <3> QED BY <3>3, <3>5, <3>6
    <2> QED BY <1>0, <2>1 DEF GoneAge
  <1> QED BY <1>0, <1>9, <1>10, <1>11, <1>12, <1>13, <1>14

\* What a page says of a user, from a list of nodes that is current or not.
LEMMA StatusIsTrue ==
  ASSUME PresInv, NEW readable \in BOOLEAN, NEW redis \in BOOLEAN, NEW u \in Viewed
  PROVE  /\ Known(readable) \in [ids : SUBSET LiveNodes, age : 0..NodesTTL]
         /\ \A n \in LiveNodes : status[n].connected /\ status[n].age > Known(readable).age => n \in Known(readable).ids
         /\ SurelyOnline(u) /\ Known(readable).age < NodesTTL => UserStatus(u, Known(readable).ids, redis)
         /\ SurelyOffline(u) => ~UserStatus(u, Known(readable).ids, redis)
  <1> USE DEF PresInv
  <1>1. \/ Known(readable) = known
        \/ Known(readable) = [ids |-> ConnectedNow, age |-> 0]
    BY DEF Known
  <1>2. Known(readable) \in [ids : SUBSET LiveNodes, age : 0..NodesTTL]
    BY <1>1, Ages DEF PresShape, ConnectedNow
  <1>3. \A n \in LiveNodes : status[n].connected /\ status[n].age > Known(readable).age => n \in Known(readable).ids
    BY <1>1 DEF KnownIsComplete, ConnectedNow
  <1>4. ASSUME SurelyOnline(u), Known(readable).age < NodesTTL
        PROVE  UserStatus(u, Known(readable).ids, redis)
    <2>1. CASE redis /\ Authoritative(Known(readable).ids)
      <3>1. /\ at[u] \in LiveNodes /\ status[at[u]].connected /\ status[at[u]].age >= NodesTTL
            /\ chan[at[u]].age >= KeyTTL /\ connAge[u] >= 1
        BY <1>4 DEF SurelyOnline, Settled, PresTypeOK
      <3>2. at[u] \in Known(readable).ids
        <4>1. status[at[u]].age \in 0..NodesTTL /\ Known(readable).age \in 0..NodesTTL
          BY <1>2, <3>1 DEF PresShape
        <4>2. status[at[u]].age > Known(readable).age
          BY <1>4, <3>1, <4>1, Ages
        <4> QED BY <1>3, <3>1, <4>2
      <3>3. keyAge[at[u]] < KeyTTL
        BY <2>1, <3>2 DEF Authoritative
      <3>4. chan[at[u]].up
        <4>1. keyAge[at[u]] \in 0..KeyTTL /\ chan[at[u]].age \in 0..KeyTTL
          BY <3>1 DEF PresShape
        <4>2. ~(keyAge[at[u]] >= chan[at[u]].age)
          BY <3>1, <3>3, <4>1, Ages
        <4> QED BY <3>1, <4>2 DEF KeysAge
      <3>5. listed[u] = 0
        <4>1. chan[at[u]].age >= 1 /\ at[u] # Nowhere
          BY <3>1, <1>4, Ages DEF PresShape, SurelyOnline
        <4> QED BY <3>1, <3>4, <4>1 DEF LiveAreListed
      <3>6. InWindow(u)
        BY <3>5, Ages DEF InWindow
      <3> QED BY <2>1, <3>6 DEF UserStatus
    <2>2. CASE ~(redis /\ Authoritative(Known(readable).ids))
      <3>1. InDbWindow(u)
        BY <1>4 DEF SurelyOnline
      <3> QED BY <2>2, <3>1 DEF UserStatus
    <2> QED BY <2>1, <2>2
  <1>5. ASSUME SurelyOffline(u)
        PROVE  ~UserStatus(u, Known(readable).ids, redis)
    <2>1. at[u] = Nowhere /\ connAge[u] > GoneFor
      BY <1>5 DEF SurelyOffline
    <2>2. listed[u] \in Nat /\ stamped[u] \in Nat /\ connAge[u] \in Nat
      BY Ages DEF PresShape
    <2>3. ~InWindow(u) /\ ~InDbWindow(u)
      BY <2>1, <2>2, Ages DEF GoneAge, InWindow, InDbWindow
    <2> QED BY <2>3 DEF UserStatus
  <1> QED BY <1>2, <1>3, <1>4, <1>5

\* A page of one user.
LEMMA LookStep ==
  ASSUME PresInv, NEW u \in Viewed, LookAt(u)
  PROVE  PresInv'
  <1> USE DEF PresInv
  <1>1. PICK readable \in BOOLEAN, redis \in BOOLEAN :
          /\ known' = Known(readable)
          /\ page' = [kind |-> "user", user |-> u, current |-> Known(readable).age < NodesTTL,
                      online |-> UserStatus(u, Known(readable).ids, redis)]
    BY DEF LookAt
  <1>2. UNCHANGED <<at, connAge, leftAge, listed, stamped, keyAge, chan, status, counted>>
    BY DEF LookAt
  <1>3. PresShape' /\ PresTypeOK' /\ KeysAge' /\ LiveAreListed' /\ GoneAge' /\ KnownIsComplete'
    BY <1>1, <1>2, StatusIsTrue
       DEF PresShape, PresTypeOK, KeysAge, LiveAreListed, GoneAge, KnownIsComplete, ScopeUsers
  <1>4. CountsHold'
    BY <1>2, CountsKept DEF SurelyOffline
  <1>5. OnlineIsTrue'
    <2>1. /\ page'.kind = "user" /\ page'.user = u
          /\ page'.current = (Known(readable).age < NodesTTL)
          /\ page'.online = UserStatus(u, Known(readable).ids, redis)
      BY <1>1, Zenon
    <2>2. SurelyOnline(u)' = SurelyOnline(u) /\ SurelyOffline(u)' = SurelyOffline(u)
      BY <1>2 DEF SurelyOnline, SurelyOffline, Settled, InDbWindow
    <2>3. SurelyOnline(u)' /\ page'.current => page'.online
      BY <2>1, <2>2, StatusIsTrue, Zenon
    <2>4. SurelyOffline(u)' => ~page'.online
      BY <2>1, <2>2, StatusIsTrue, Zenon
    <2> QED BY <2>1, <2>3, <2>4 DEF OnlineIsTrue
  <1> QED BY <1>3, <1>4, <1>5

\* A count, remembered or taken now.
LEMMA CountStep ==
  ASSUME PresInv, NEW s \in Scopes, Count(s)
  PROVE  PresInv'
  <1> USE DEF PresInv
  <1>0. UNCHANGED <<at, connAge, leftAge, listed, stamped, keyAge, chan, status>>
    BY DEF Count
  <1>1. Gone(s)' = Gone(s) /\ ScopeUsers(s)' = ScopeUsers(s)
    BY <1>0 DEF Gone, ScopeUsers, SurelyOffline
  <1>2. CASE counted[s].fresh
    <2>1. known' = known /\ counted' = counted /\ page' = [kind |-> "count", scope |-> s, n |-> counted[s].n]
      BY <1>2 DEF Count
    <2>2. PresShape' /\ PresTypeOK' /\ KeysAge' /\ LiveAreListed' /\ GoneAge' /\ KnownIsComplete'
      BY <1>0, <2>1 DEF PresShape, PresTypeOK, KeysAge, LiveAreListed, GoneAge, KnownIsComplete, ScopeUsers
    <2>3. CountsHold'
      BY <1>0, <2>1, CountsKept DEF SurelyOffline
    <2>4. OnlineIsTrue'
      <3>1. Cardinality(Gone(s)') + page'.n <= Cardinality(ScopeUsers(s)) /\ page'.kind = "count" /\ page'.scope = s
        BY <1>1, <1>2, <2>1 DEF CountsHold
      <3> QED BY <3>1, <1>1 DEF OnlineIsTrue, Gone, ScopeUsers
    <2> QED BY <2>2, <2>3, <2>4
  <1>3. CASE ~counted[s].fresh
    <2>1. PICK readable \in BOOLEAN, redis \in BOOLEAN :
            /\ known' = Known(readable)
            /\ counted' = [counted EXCEPT ![s] = [n |-> OnlineCount(s, Known(readable).ids, redis), fresh |-> TRUE]]
            /\ page' = [kind |-> "count", scope |-> s, n |-> OnlineCount(s, Known(readable).ids, redis)]
      BY <1>3 DEF Count
    <2> DEFINE online == {u \in ScopeUsers(s) : UserStatus(u, Known(readable).ids, redis)}
               k == OnlineCount(s, Known(readable).ids, redis)
    <2>2. k \in Nat /\ k <= Cardinality(ScopeUsers(s)) /\ Cardinality(Gone(s)) + k <= Cardinality(ScopeUsers(s))
      <3>1. online \subseteq ScopeUsers(s) /\ Gone(s) \subseteq ScopeUsers(s) /\ k = Cardinality(online)
        BY DEF OnlineCount, Gone
      <3>2. online \cap Gone(s) = {}
        <4>1. ASSUME NEW u \in online, u \in Gone(s)
              PROVE  FALSE
          BY <4>1, StatusIsTrue, ScopesFinite DEF Gone
        <4> QED BY <4>1
      <3>3. /\ IsFiniteSet(online) /\ IsFiniteSet(Gone(s))
            /\ Cardinality(online) \in Nat /\ Cardinality(Gone(s)) \in Nat
            /\ Cardinality(online) <= Cardinality(ScopeUsers(s)) /\ Cardinality(ScopeUsers(s)) \in Nat
        BY <3>1, ScopesFinite
      <3> HIDE DEF online
      <3>4. Cardinality(online \cup Gone(s)) = Cardinality(online) + Cardinality(Gone(s)) - Cardinality({})
        BY <3>2, <3>3, FS_Union
      <3>5. Cardinality(online \cup Gone(s)) <= Cardinality(ScopeUsers(s))
        BY <3>1, ScopesFinite
      <3>6. Cardinality({}) = 0
        BY FS_EmptySet
      <3> QED BY <3>1, <3>3, <3>4, <3>5, <3>6
    <2> HIDE DEF k
    <2>3. counted' = [counted EXCEPT ![s] = [n |-> k, fresh |-> TRUE]] /\ page' = [kind |-> "count", scope |-> s, n |-> k]
      BY <2>1 DEF k
    <2>4. /\ counted' \in [Scopes -> [n : Nat, fresh : BOOLEAN]] /\ counted'[s].n = k
          /\ \A x \in Scopes \ {s} : counted'[x] = counted[x]
      BY <2>2, <2>3 DEF PresShape
    <2>5. known' \in [ids : SUBSET LiveNodes, age : 0..NodesTTL] /\ KnownIsComplete'
      <3>1. CASE Viewed = {}
        <4>1. \/ known' = known
              \/ known' = [ids |-> ConnectedNow, age |-> 0]
          BY <2>1 DEF Known
        <4> QED BY <1>0, <4>1, Ages DEF KnownIsComplete, ConnectedNow, PresShape
      <3>2. CASE Viewed # {}
        BY <1>0, <2>1, <3>2, StatusIsTrue DEF KnownIsComplete
      <3> QED BY <3>1, <3>2
    <2>6. PresShape' /\ PresTypeOK' /\ KeysAge' /\ LiveAreListed' /\ GoneAge'
      <3>1. \A x \in Scopes : counted'[x].n \in 0..Cardinality(ScopeUsers(x))
        BY <2>2, <2>4, ScopesFinite DEF PresTypeOK
      <3> QED BY <1>0, <2>4, <2>5, <3>1 DEF PresShape, PresTypeOK, KeysAge, LiveAreListed, GoneAge, ScopeUsers
    <2>7. CountsHold'
      <3>1. \A x \in Scopes : Gone(x)' = Gone(x) /\ ScopeUsers(x)' = ScopeUsers(x)
        BY <1>0 DEF Gone, ScopeUsers, SurelyOffline
      <3> QED BY <2>2, <2>4, <3>1 DEF CountsHold
    <2>8. OnlineIsTrue'
      <3>1. Cardinality(Gone(s)') + page'.n <= Cardinality(ScopeUsers(s)) /\ page'.kind = "count" /\ page'.scope = s
        BY <1>1, <2>2, <2>3
      <3> QED BY <3>1, <1>1 DEF OnlineIsTrue, Gone, ScopeUsers
    <2> QED BY <2>5, <2>6, <2>7, <2>8
  <1> QED BY <1>2, <1>3

\* A user with an open connection on a settled node, whose bytes were reported
\* lately, is shown online, and one who left is not for longer than onlineWindow
\* from the last report that can bring its bytes; no count includes a user who is surely gone (presence.go): for any number of
\* users and nodes, any windows in that order, and time without bound.
THEOREM PresenceTheorem == PresSpec => []PresenceIsSound
  <1>1. PresInit => PresInv
    <2> SUFFICES ASSUME PresInit PROVE PresInv
      OBVIOUS
    <2>1. /\ at = [u \in Viewed |-> Nowhere] /\ connAge = [u \in Viewed |-> GoneFor + 1]
          /\ leftAge = [n \in LiveNodes |-> [u \in Viewed |-> ReportEvery + 1]]
          /\ listed = [u \in Viewed |-> Never] /\ stamped = [u \in Viewed |-> Never]
          /\ keyAge = [n \in LiveNodes |-> KeyTTL]
          /\ status = [n \in LiveNodes |-> [connected |-> FALSE, age |-> NodesTTL]]
          /\ known = [ids |-> {}, age |-> NodesTTL]
          /\ counted = [s \in Scopes |-> [n |-> 0, fresh |-> FALSE]]
      BY DEF PresInit
    <2>2. chan \in [LiveNodes -> [up : BOOLEAN, age : 0..KeyTTL]]
      <3>1. \A b \in BOOLEAN : [up |-> b, age |-> KeyTTL] \in [up : BOOLEAN, age : 0..KeyTTL]
        BY Ages
      <3> QED BY <3>1 DEF PresInit
    <2>3. PresShape
      BY <2>1, <2>2, Ages DEF PresShape
    <2>4. PresTypeOK
      <3>1. \A s \in Scopes : counted[s].n \in 0..Cardinality(ScopeUsers(s))
        BY <2>1, ScopesFinite
      <3> QED BY <2>1, <2>3, <3>1 DEF PresTypeOK, PresShape
    <2>5. KeysAge /\ LiveAreListed /\ KnownIsComplete /\ GoneAge
      BY <2>1, <2>2, Ages DEF KeysAge, LiveAreListed, KnownIsComplete, GoneAge
    <2>6. CountsHold
      <3>1. \A s \in Scopes : ~counted[s].fresh
        BY <2>1
      <3> QED BY <3>1 DEF CountsHold
    <2>7. OnlineIsTrue
      BY DEF PresInit, NoPage, OnlineIsTrue
    <2> QED BY <2>3, <2>4, <2>5, <2>6, <2>7 DEF PresInv
  <1>2. PresInv /\ [PresNext]_presVars => PresInv'
    <2>1. ASSUME PresInv, PresNext PROVE PresInv'
      BY <2>1, TurnSteps, PassStep, LookStep, CountStep DEF PresNext
    <2>2. ASSUME PresInv, UNCHANGED presVars PROVE PresInv'
      BY <2>2 DEF presVars, PresInv, PresShape, PresTypeOK, KeysAge, LiveAreListed, KnownIsComplete, GoneAge,
         CountsHold, OnlineIsTrue, Gone, SurelyOffline, SurelyOnline, Settled, InDbWindow, ScopeUsers
    <2> QED BY <2>1, <2>2
  <1>3. PresInv => PresenceIsSound
    BY DEF PresInv, PresenceIsSound
  <1> QED BY <1>1, <1>2, <1>3, PTL DEF PresSpec

-----------------------------------------------------------------------------
(***************************************************************************)
(* Users' links.                                                           *)
(***************************************************************************)

Accts == [id : Nat \ {0}, name : UserNames, status : {"active", "disabled"}, created : Nat, revoked : Nat]

Jobs ==
  [at : {"idle"}] \cup [at : {"insert"}, name : UserNames] \cup
  [at : {"proxies", "rotate"}, user : Accts, left : SUBSET LinkProtos] \cup
  [at : {"respond"}, user : Accts] \cup [at : {"reactivate"}, name : UserNames, id : Nat \ {0}]

HandedOut == [kind : {"name", "id", "jwt"}, name : UserNames, owner : Nat, ts : Nat, minted : Nat]

\* Ids, credentials and the clock only grow.
CountersOK == used \in [ids : Nat, creds : Nat, writes : Nat] /\ now \in 0..MaxNow

RowsOK ==
  /\ row \in [UserNames -> Accts \cup {NoRow}]
  /\ \A n \in UserNames : row[n] # NoRow =>
       row[n].id <= used.ids /\ row[n].created <= now /\ row[n].revoked <= now

ProxiesOK == \A k \in DOMAIN proxy : proxy[k] \in Settings

JobsOK ==
  /\ job \in [Clerks -> Jobs]
  /\ \A c \in Clerks : job[c].at \in {"proxies", "respond", "rotate"} => job[c].user.id <= used.ids

\* A link's time is the whole second at or after its minting, and no account that
\* exists by its owner's id is younger: ids are never used twice.
LinksOK ==
  \A l \in minted :
    /\ l \in HandedOut /\ l.owner <= used.ids /\ l.minted <= now
    /\ l.minted <= l.ts /\ l.ts < l.minted + Parts
    /\ \A n \in UserNames : row[n] # NoRow /\ row[n].id = l.owner => row[n].created <= l.ts

DueJobs == {c \in Clerks : job[c].at \in {"insert", "reactivate"}}

\* Unless two checks raced, at most one check's write is due, and there is room for it.
RoomIsKept ==
  capRaced \/ /\ \A c, d \in DueJobs : c = d
              /\ Cardinality(Counted) <= UsersLimit
              /\ DueJobs # {} => Cardinality(Counted) < UsersLimit

LinkInv ==
  /\ CountersOK /\ RowsOK /\ ProxiesOK /\ JobsOK /\ LinksOK /\ RoomIsKept
  /\ LinksAnswerRightly

\* CreateToken's time is at most a second after the moment it stands for.
LEMMA TokenTimeRounds ==
  ASSUME NEW t \in Nat
  PROVE  TokenTime(t) \in Nat /\ t <= TokenTime(t) /\ TokenTime(t) < t + Parts
  <1>1. ((t + Parts - 1) \div Parts) \in Nat
    BY LinksAssumption
  <1>2. ((t + Parts - 1) \div Parts) * Parts >= t
    BY LinksAssumption
  <1>3. ((t + Parts - 1) \div Parts) * Parts < t + Parts
    BY LinksAssumption
  <1>4. ((t + Parts - 1) \div Parts) * Parts \in Nat
    BY <1>1, LinksAssumption
  <1> QED BY <1>1, <1>2, <1>3, <1>4 DEF TokenTime

\* The users that count are finitely many.
LEMMA CountedFinite ==
  /\ IsFiniteSet(Counted) /\ Cardinality(Counted) \in Nat
  /\ \A S \in SUBSET Counted : Cardinality(S) \in Nat /\ Cardinality(S) <= Cardinality(Counted)
  <1>1. Counted \subseteq UserNames
    BY DEF Counted
  <1>2. IsFiniteSet(Counted) /\ Cardinality(Counted) \in Nat
    BY <1>1, LinksAssumption, FS_Subset, FS_CardinalityType
  <1> QED BY <1>2, FS_Subset, FS_CardinalityType

\* Time, ids and credentials never go back.
LEMMA CountersGrow ==
  ASSUME LinkInv, [LinkNext]_linkVars
  PROVE  CountersOK' /\ used'.ids >= used.ids /\ used'.creds >= used.creds /\ now' >= now
  <1>1. /\ used \in [ids : Nat, creds : Nat, writes : Nat] /\ now \in 0..MaxNow /\ MaxNow \in Nat
        /\ used.ids \in Nat /\ used.creds \in Nat
    BY LinksAssumption DEF LinkInv, CountersOK
  <1>2. CASE LinkTick
    BY <1>1, <1>2 DEF LinkTick, CountersOK
  <1>3. CASE UNCHANGED <<now, used>>
    BY <1>1, <1>3 DEF CountersOK
  <1>4. CASE now' = now /\ used' = [used EXCEPT !.writes = @ + 1]
    BY <1>1, <1>4 DEF CountersOK
  <1>5. CASE now' = now /\ used' = [used EXCEPT !.creds = @ + 1]
    BY <1>1, <1>5 DEF CountersOK
  <1>6. CASE now' = now /\ used' = [used EXCEPT !.creds = @ + 1, !.writes = @ + 1]
    <2>1. used' = [ids |-> used.ids, creds |-> used.creds + 1, writes |-> used.writes + 1]
      BY <1>1, <1>6
    <2> QED BY <1>1, <1>6, <2>1 DEF CountersOK
  <1>7. CASE now' = now /\ used' = [used EXCEPT !.ids = @ + 1, !.writes = @ + 1]
    <2>1. used' = [ids |-> used.ids + 1, creds |-> used.creds, writes |-> used.writes + 1]
      BY <1>1, <1>7
    <2> QED BY <1>1, <1>7, <2>1 DEF CountersOK
  <1>8. ASSUME NEW c \in Clerks, InsertUser(c) \/ RespondWithUser(c) \/ Reactivate(c) \/ SetUserSubRevoked(c)
        PROVE  UNCHANGED <<now, used>> \/ (now' = now /\ used' = [used EXCEPT !.ids = @ + 1, !.writes = @ + 1])
    BY <1>8 DEF InsertUser, RespondWithUser, Reactivate, SetUserSubRevoked
  <1>9. ASSUME NEW c \in Clerks, NEW n \in UserNames, EnforceUserLimit(c, n) \/ CheckReactivate(c, n) \/ BeginRevoke(c, n)
        PROVE  UNCHANGED <<now, used>> \/ (now' = now /\ used' = [used EXCEPT !.writes = @ + 1])
    BY <1>9 DEF EnforceUserLimit, CheckReactivate, BeginRevoke
  <1>10. ASSUME NEW c \in Clerks, NEW p \in LinkProtos, CreateProxyForUser(c, p) \/ RotateProxy(c, p)
         PROVE  UNCHANGED <<now, used>> \/ (now' = now /\ used' = [used EXCEPT !.creds = @ + 1])
    BY <1>10 DEF CreateProxyForUser, RotateProxy
  <1>11. ASSUME NEW n \in UserNames, GetUser(n) \/ Disable(n) \/ RemoveUser(n)
         PROVE  UNCHANGED <<now, used>> \/ (now' = now /\ used' = [used EXCEPT !.writes = @ + 1])
    BY <1>11 DEF GetUser, Disable, RemoveUser
  <1>12. ASSUME NEW n \in UserNames, NEW p \in LinkProtos, ReconcileProxies(n, p) \/ ReconcileExcludedInbounds(n, p)
         PROVE  now' = now /\ (used' = [used EXCEPT !.writes = @ + 1] \/ used' = [used EXCEPT !.creds = @ + 1, !.writes = @ + 1])
    BY <1>12 DEF ReconcileProxies, ReconcileExcludedInbounds
  <1>13. ASSUME (\E l \in minted : LoadSubscriptionUser(l)) \/ ForEachUserHost \/ UNCHANGED linkVars
         PROVE  UNCHANGED <<now, used>>
    BY <1>13 DEF LoadSubscriptionUser, ForEachUserHost, linkVars
  <1> QED BY <1>2, <1>3, <1>4, <1>5, <1>6, <1>7, <1>8, <1>9, <1>10, <1>11, <1>12, <1>13 DEF LinkNext

\* Settings stay settings as more credentials are used.
LEMMA SettingsGrow ==
  ASSUME LinkInv, CountersOK', used'.creds >= used.creds, NEW s \in Settings
  PROVE  s \in Settings'
  <1>1. used.creds \in Nat /\ used'.creds \in Nat
    BY DEF LinkInv, CountersOK
  <1>2. 1..used.creds \subseteq 1..used'.creds
    BY <1>1
  <1> QED BY <1>2 DEF Settings

\* FromWire, Revoked and the reconciliations give settings again.
LEMMA ProxiesStep ==
  ASSUME LinkInv, [LinkNext]_linkVars
  PROVE  ProxiesOK'
  <1>0. CountersOK' /\ used'.creds >= used.creds /\ used.creds \in Nat /\ used'.creds \in Nat
    BY CountersGrow DEF LinkInv, CountersOK
  <1>1. \A k \in DOMAIN proxy : proxy[k] \in Settings'
    BY <1>0, SettingsGrow DEF LinkInv, ProxiesOK
  <1>2. CASE \E S : proxy' = Without(proxy, S)
    BY <1>1, <1>2 DEF Without, ProxiesOK
  <1>3. CASE UNCHANGED proxy
    BY <1>1, <1>3 DEF ProxiesOK
  <1>4. \A p \in LinkProtos : \A e \in SUBSET TagsOf[p], flow \in {"none", "vision"}, cred \in 1..used'.creds :
           FromWire(p, cred, flow, e) \in Settings'
    BY DEF FromWire, Settings
  <1>5. ASSUME NEW k, NEW s \in Settings', proxy' = With(proxy, k, s)
        PROVE  ProxiesOK'
    BY <1>1, <1>5 DEF With, ProxiesOK
  <1>6. ASSUME NEW k \in DOMAIN proxy, NEW s \in Settings', proxy' = [proxy EXCEPT ![k] = s]
        PROVE  ProxiesOK'
    BY <1>1, <1>6 DEF ProxiesOK
  <1>7. ASSUME NEW c \in Clerks, NEW p \in LinkProtos, CreateProxyForUser(c, p)
        PROVE  ProxiesOK'
    <2>1. CASE UNCHANGED proxy
      BY <1>3, <2>1
    <2>2. ASSUME NEW asked \in SUBSET TagsOf[p], used' = [used EXCEPT !.creds = @ + 1],
                 proxy' = With(proxy, <<job[c].user.id, p>>,
                   FromWire(p, used.creds + 1, "none",
                     SubtractTags(TagsOf[p], IF asked = {} THEN TagsOf[p] ELSE asked)))
          PROVE  ProxiesOK'
      <3> DEFINE e == SubtractTags(TagsOf[p], IF asked = {} THEN TagsOf[p] ELSE asked)
      <3>1. e \in SUBSET TagsOf[p]
        BY DEF SubtractTags
      <3>2. used.creds + 1 \in 1..used'.creds
        BY <1>0, <2>2 DEF LinkInv, CountersOK
      <3>3. FromWire(p, used.creds + 1, "none", e) \in Settings'
        BY <1>4, <3>1, <3>2
      <3> HIDE DEF e
      <3> QED BY <1>5, <2>2, <3>3 DEF e
    <2> QED BY <1>7, <2>1, <2>2 DEF CreateProxyForUser
  <1>8. ASSUME NEW c \in Clerks, NEW p \in LinkProtos, RotateProxy(c, p)
        PROVE  ProxiesOK'
    <2>1. CASE UNCHANGED proxy
      BY <1>3, <2>1
    <2>2. ASSUME NEW key \in DOMAIN proxy, used' = [used EXCEPT !.creds = @ + 1],
                 proxy' = [proxy EXCEPT ![key] = Revoked(p, @, used.creds + 1)]
          PROVE  ProxiesOK'
      <3>1. used.creds + 1 \in 1..used'.creds
        BY <1>0, <2>2 DEF LinkInv, CountersOK
      <3>2. Revoked(p, proxy[key], used.creds + 1) \in Settings'
        BY <1>1, <3>1 DEF Revoked, FromStored, Settings
      <3> QED BY <1>6, <2>2, <3>2
    <2> QED BY <1>8, <2>1, <2>2 DEF RotateProxy
  <1>9. ASSUME NEW n \in UserNames, NEW p \in LinkProtos, ReconcileProxies(n, p)
        PROVE  ProxiesOK'
    <2> DEFINE key == <<row[n].id, p>>
    <2>1. ASSUME key \in DOMAIN proxy, proxy' = [proxy EXCEPT ![key] = FromWire(p, @.cred, @.flow, @.excluded)]
          PROVE  ProxiesOK'
      <3>1. proxy[key] \in Settings'
        BY <1>1, <2>1
      <3>2. FromWire(p, proxy[key].cred, proxy[key].flow, proxy[key].excluded) \in Settings'
        BY <3>1 DEF FromWire, Settings
      <3> QED BY <1>6, <2>1, <3>2
    <2>2. ASSUME used' = [used EXCEPT !.creds = @ + 1, !.writes = @ + 1],
                 proxy' = With(proxy, key, FromWire(p, used.creds + 1, "none", {}))
          PROVE  ProxiesOK'
      <3>1. used.creds + 1 \in 1..used'.creds
        BY <1>0, <2>2 DEF LinkInv, CountersOK
      <3> QED BY <1>4, <1>5, <2>2, <3>1
    <2> QED BY <1>2, <1>9, <2>1, <2>2 DEF ReconcileProxies
  <1>10. ASSUME NEW n \in UserNames, NEW p \in LinkProtos, ReconcileExcludedInbounds(n, p)
         PROVE  ProxiesOK'
    <2> DEFINE key == <<row[n].id, p>>
    <2>1. PICK tags \in SUBSET TagsOf[p] :
            proxy' = [proxy EXCEPT ![key].excluded = SubtractTags(TagsOf[p], tags)] /\ key \in DOMAIN proxy
      BY <1>10 DEF ReconcileExcludedInbounds
    <2>2. [proxy[key] EXCEPT !.excluded = SubtractTags(TagsOf[p], tags)] \in Settings'
      BY <1>1, <2>1 DEF SubtractTags, Settings
    <2> QED BY <1>6, <2>1, <2>2
  <1>11. ASSUME NEW n \in UserNames, GetUser(n) \/ Disable(n) \/ RemoveUser(n)
         PROVE  UNCHANGED proxy \/ \E S : proxy' = Without(proxy, S)
    BY <1>11 DEF GetUser, Disable, RemoveUser
  <1>12. ASSUME NEW c \in Clerks, \/ InsertUser(c) \/ RespondWithUser(c) \/ Reactivate(c) \/ SetUserSubRevoked(c)
                                  \/ \E n \in UserNames : EnforceUserLimit(c, n) \/ CheckReactivate(c, n) \/ BeginRevoke(c, n)
         PROVE  UNCHANGED proxy
    BY <1>12 DEF InsertUser, RespondWithUser, Reactivate, SetUserSubRevoked, EnforceUserLimit, CheckReactivate, BeginRevoke
  <1>13. ASSUME (\E l \in minted : LoadSubscriptionUser(l)) \/ ForEachUserHost \/ LinkTick \/ UNCHANGED linkVars
         PROVE  UNCHANGED proxy
    BY <1>13 DEF LoadSubscriptionUser, ForEachUserHost, LinkTick, linkVars
  <1> QED BY <1>2, <1>3, <1>7, <1>8, <1>9, <1>10, <1>11, <1>12, <1>13 DEF LinkNext

\* What a handler holds at each of its stages.
LEMMA JobHolds ==
  ASSUME LinkInv, NEW c \in Clerks
  PROVE  /\ job[c] \in Jobs /\ job[c].at \in {"idle", "insert", "proxies", "respond", "reactivate", "rotate"}
         /\ job[c].at = "insert" => job[c].name \in UserNames
         /\ job[c].at \in {"proxies", "rotate"} =>
              job[c] \in [at : {"proxies", "rotate"}, user : Accts, left : SUBSET LinkProtos]
         /\ job[c].at \in {"proxies", "rotate", "respond"} => job[c].user \in Accts /\ job[c].user.id <= used.ids
         /\ job[c].at = "reactivate" => job[c].name \in UserNames /\ job[c].id \in Nat \ {0}
  <1>1. job[c] \in Jobs
    BY DEF LinkInv, JobsOK
  <1>2. job[c].at \in {"proxies", "rotate", "respond"} => job[c].user.id <= used.ids
    BY DEF LinkInv, JobsOK
  <1> QED BY <1>1, <1>2 DEF Jobs

\* An account keeps its id and its time of creation, or it is a new one.
Aged(n) ==
  row'[n] # NoRow =>
    \/ row'[n].id > used.ids
    \/ row[n] # NoRow /\ row'[n].id = row[n].id /\ row'[n].created = row[n].created

\* Every step keeps the rows well formed, and each account its id and its time of
\* creation.
LEMMA RowsStep ==
  ASSUME LinkInv, [LinkNext]_linkVars
  PROVE  RowsOK' /\ \A n \in UserNames : Aged(n)
  <1>0. /\ CountersOK' /\ used'.ids >= used.ids /\ now' >= now
        /\ used.ids \in Nat /\ used'.ids \in Nat /\ now \in Nat /\ now' \in Nat
    BY CountersGrow, LinksAssumption DEF LinkInv, CountersOK
  <1>1. /\ row \in [UserNames -> Accts \cup {NoRow}]
        /\ \A n \in UserNames : row[n] # NoRow =>
             /\ row[n] \in Accts /\ row[n].id \in Nat /\ row[n].created \in Nat /\ row[n].revoked \in Nat
             /\ row[n].id <= used.ids /\ row[n].created <= now /\ row[n].revoked <= now
    BY DEF LinkInv, RowsOK, Accts
  <1>2. ASSUME UNCHANGED row
        PROVE  RowsOK' /\ \A n \in UserNames : Aged(n)
    BY <1>0, <1>1, <1>2 DEF RowsOK, Aged
  <1>3. ASSUME NEW n \in UserNames, NEW r \in Accts \cup {NoRow}, row' = [row EXCEPT ![n] = r],
               r # NoRow => /\ r.id <= used'.ids /\ r.created <= now' /\ r.revoked <= now'
                            /\ \/ r.id > used.ids
                               \/ row[n] # NoRow /\ r.id = row[n].id /\ r.created = row[n].created
        PROVE  RowsOK' /\ \A m \in UserNames : Aged(m)
    <2>1. row'[n] = r /\ \A m \in UserNames \ {n} : row'[m] = row[m]
      BY <1>1, <1>3
    <2>2. row' \in [UserNames -> Accts \cup {NoRow}]
      BY <1>1, <1>3
    <2>3. \A m \in UserNames : Aged(m)
      BY <1>3, <2>1 DEF Aged
    <2>4. \A m \in UserNames \ {n} : row'[m] # NoRow =>
             row'[m].id <= used'.ids /\ row'[m].created <= now' /\ row'[m].revoked <= now'
      BY <1>0, <1>1, <2>1
    <2> QED BY <1>3, <2>1, <2>2, <2>3, <2>4 DEF RowsOK
  <1>4. ASSUME NEW c \in Clerks, InsertUser(c)
        PROVE  RowsOK' /\ \A n \in UserNames : Aged(n)
    <2>1. CASE row[job[c].name] # NoRow
      BY <1>2, <1>4, <2>1 DEF InsertUser
    <2>2. CASE row[job[c].name] = NoRow
      <3> DEFINE n == job[c].name
                 r == [id |-> used.ids + 1, name |-> n, status |-> "active", created |-> now, revoked |-> 0]
      <3>1. n \in UserNames
        BY <1>4, JobHolds DEF InsertUser
      <3>2. row' = [row EXCEPT ![n] = r] /\ used' = [used EXCEPT !.ids = @ + 1, !.writes = @ + 1] /\ now' = now
        BY <1>4, <2>2 DEF InsertUser
      <3>3. used'.ids = used.ids + 1
        BY <3>2 DEF LinkInv, CountersOK
      <3>4. r \in Accts /\ r.id = used.ids + 1 /\ r.created = now /\ r.revoked = 0
        BY <1>0, <3>1 DEF Accts
      <3> HIDE DEF r
      <3>5. r.id <= used'.ids /\ r.created <= now' /\ r.revoked <= now' /\ r.id > used.ids
        BY <1>0, <3>2, <3>3, <3>4
      <3> QED BY <1>3, <3>1, <3>2, <3>4, <3>5
    <2> QED BY <2>1, <2>2
  <1>5. ASSUME NEW c \in Clerks, Reactivate(c)
        PROVE  RowsOK' /\ \A n \in UserNames : Aged(n)
    <2> DEFINE n == job[c].name
               r == IF row[n].id = job[c].id THEN [row[n] EXCEPT !.status = "active"] ELSE row[n]
    <2>1. n \in UserNames /\ job[c].id \in Nat \ {0} /\ row' = [row EXCEPT ![n] = r] /\ now' = now
      BY <1>5, JobHolds DEF Reactivate
    <2>2. CASE row[n].id = job[c].id
      <3>1. row[n] # NoRow
        BY <2>1, <2>2 DEF NoRow
      <3>2. r \in Accts /\ r.id = row[n].id /\ r.created = row[n].created /\ r.revoked = row[n].revoked
        BY <1>1, <2>1, <2>2, <3>1 DEF Accts
      <3> HIDE DEF r
      <3>3. r.id <= used'.ids /\ r.created <= now' /\ r.revoked <= now'
        BY <1>0, <1>1, <2>1, <3>1, <3>2
      <3> QED BY <1>3, <2>1, <3>1, <3>2, <3>3
    <2>3. CASE row[n].id # job[c].id
      <3>1. row' = row
        BY <1>1, <2>1, <2>3
      <3> QED BY <1>2, <3>1
    <2> QED BY <2>2, <2>3
  <1>6. ASSUME NEW c \in Clerks, SetUserSubRevoked(c)
        PROVE  RowsOK' /\ \A n \in UserNames : Aged(n)
    <2> DEFINE n == job[c].user.name
    <2>1. job[c].user \in Accts
      BY <1>6, JobHolds DEF SetUserSubRevoked
    <2>2. CASE row[n].id # job[c].user.id
      BY <1>2, <1>6, <2>2 DEF SetUserSubRevoked
    <2>3. CASE row[n].id = job[c].user.id
      <3>1. n \in UserNames /\ row[n] # NoRow
        BY <2>1, <2>3 DEF Accts, NoRow
      <3> DEFINE r == [row[n] EXCEPT !.revoked = now]
      <3>2. row' = [row EXCEPT ![n] = r] /\ now' = now
        BY <1>6, <2>3, Zenon DEF SetUserSubRevoked
      <3>3. r \in Accts /\ r.id = row[n].id /\ r.created = row[n].created /\ r.revoked = now
        BY <1>0, <1>1, <3>1 DEF Accts
      <3> HIDE DEF r
      <3>4. r.id <= used'.ids /\ r.created <= now' /\ r.revoked <= now'
        BY <1>0, <1>1, <3>1, <3>2, <3>3
      <3> QED BY <1>3, <3>1, <3>2, <3>3, <3>4
    <2> QED BY <2>2, <2>3
  <1>7. ASSUME NEW n \in UserNames, Disable(n)
        PROVE  RowsOK' /\ \A m \in UserNames : Aged(m)
    <2> DEFINE r == [row[n] EXCEPT !.status = "disabled"]
    <2>1. row' = [row EXCEPT ![n] = r] /\ now' = now /\ row[n] # NoRow
      BY <1>7, Zenon DEF Disable
    <2>2. r \in Accts /\ r.id = row[n].id /\ r.created = row[n].created /\ r.revoked = row[n].revoked
      BY <1>1, <2>1 DEF Accts
    <2> HIDE DEF r
    <2>3. r.id <= used'.ids /\ r.created <= now' /\ r.revoked <= now'
      BY <1>0, <1>1, <2>1, <2>2
    <2> QED BY <1>3, <2>1, <2>2, <2>3
  <1>8. ASSUME NEW n \in UserNames, RemoveUser(n)
        PROVE  RowsOK' /\ \A m \in UserNames : Aged(m)
    BY <1>3, <1>8 DEF RemoveUser
  <1>9. ASSUME NEW c \in Clerks, \/ RespondWithUser(c)
                                 \/ \E n \in UserNames : EnforceUserLimit(c, n) \/ CheckReactivate(c, n) \/ BeginRevoke(c, n)
                                 \/ \E p \in LinkProtos : CreateProxyForUser(c, p) \/ RotateProxy(c, p)
        PROVE  UNCHANGED row
    BY <1>9 DEF RespondWithUser, EnforceUserLimit, CheckReactivate, BeginRevoke, CreateProxyForUser, RotateProxy
  <1>10. ASSUME NEW n \in UserNames, GetUser(n) \/ \E p \in LinkProtos : ReconcileProxies(n, p) \/ ReconcileExcludedInbounds(n, p)
         PROVE  UNCHANGED row
    BY <1>10 DEF GetUser, ReconcileProxies, ReconcileExcludedInbounds
  <1>11. ASSUME (\E l \in minted : LoadSubscriptionUser(l)) \/ ForEachUserHost \/ LinkTick \/ UNCHANGED linkVars
         PROVE  UNCHANGED row
    BY <1>11 DEF LoadSubscriptionUser, ForEachUserHost, LinkTick, linkVars
  <1> QED BY <1>2, <1>4, <1>5, <1>6, <1>7, <1>8, <1>9, <1>10, <1>11 DEF LinkNext

\* The handlers go from stage to stage, and hold accounts that are or were there.
LEMMA JobsStep ==
  ASSUME LinkInv, [LinkNext]_linkVars
  PROVE  JobsOK'
  <1>0. used'.ids >= used.ids /\ used.ids \in Nat /\ used'.ids \in Nat /\ CountersOK'
    BY CountersGrow DEF LinkInv, CountersOK
  <1>1. job \in [Clerks -> Jobs]
    BY DEF LinkInv, JobsOK
  <1>2. \A c \in Clerks : job[c].at \in {"proxies", "respond", "rotate"} => job[c].user.id <= used'.ids
    BY <1>0, JobHolds DEF Accts
  <1>3. ASSUME NEW c \in Clerks, NEW j \in Jobs, job' = [job EXCEPT ![c] = j],
               j.at \in {"proxies", "respond", "rotate"} => j.user.id <= used'.ids
        PROVE  JobsOK'
    BY <1>1, <1>2, <1>3 DEF JobsOK
  <1>4. IdleJob \in Jobs /\ IdleJob.at = "idle"
    BY DEF IdleJob, Jobs
  <1>5. ASSUME UNCHANGED job
        PROVE  JobsOK'
    BY <1>1, <1>2, <1>5 DEF JobsOK
  <1>6. ASSUME NEW c \in Clerks, job' = [job EXCEPT ![c] = IdleJob]
        PROVE  JobsOK'
    BY <1>3, <1>4, <1>6
  <1>7. ASSUME NEW c \in Clerks, NEW p, job' = [job EXCEPT ![c].left = @ \ {p}], job[c].at \in {"proxies", "rotate"}
        PROVE  JobsOK'
    <2> DEFINE j == [job[c] EXCEPT !.left = job[c].left \ {p}]
    <2>1. job' = [job EXCEPT ![c] = j]
      BY <1>7, Zenon
    <2>2. j \in [at : {"proxies", "rotate"}, user : Accts, left : SUBSET LinkProtos] /\ j.user = job[c].user
      BY <1>7, JobHolds
    <2>3. j \in Jobs
      BY <2>2 DEF Jobs
    <2> HIDE DEF j
    <2> QED BY <1>2, <1>3, <1>7, <2>1, <2>2, <2>3
  <1>8. ASSUME NEW c \in Clerks, NEW n \in UserNames, EnforceUserLimit(c, n) \/ CheckReactivate(c, n) \/ BeginRevoke(c, n)
        PROVE  JobsOK'
    <2>0. row[n] # NoRow => row[n] \in Accts /\ row[n].id \in Nat \ {0} /\ row[n].id <= used.ids
      BY DEF LinkInv, RowsOK, Accts
    <2>1. CASE EnforceUserLimit(c, n)
      <3>1. [at |-> "insert", name |-> n] \in Jobs
        BY DEF Jobs
      <3> QED BY <1>3, <2>1, <3>1 DEF EnforceUserLimit
    <2>2. CASE CheckReactivate(c, n)
      <3>1. [at |-> "reactivate", name |-> n, id |-> row[n].id] \in Jobs
        BY <2>0, <2>2 DEF Jobs, CheckReactivate
      <3> QED BY <1>3, <2>2, <3>1 DEF CheckReactivate
    <2>3. CASE BeginRevoke(c, n)
      <3> DEFINE j == [at |-> "rotate", user |-> row[n], left |-> {p \in LinkProtos : <<row[n].id, p>> \in DOMAIN proxy}]
      <3>1. j \in Jobs /\ j.user = row[n] /\ row[n] # NoRow
        BY <2>0, <2>3 DEF Jobs, BeginRevoke
      <3>2. job' = [job EXCEPT ![c] = j]
        BY <2>3 DEF BeginRevoke
      <3> HIDE DEF j
      <3>3. j.user.id <= used'.ids
        BY <1>0, <2>0, <3>1
      <3> QED BY <1>3, <3>1, <3>2, <3>3
    <2> QED BY <1>8, <2>1, <2>2, <2>3
  <1>9. ASSUME NEW c \in Clerks, InsertUser(c)
        PROVE  JobsOK'
    <2>1. CASE row[job[c].name] # NoRow
      BY <1>6, <1>9, <2>1 DEF InsertUser
    <2>2. CASE row[job[c].name] = NoRow
      <3> DEFINE n == job[c].name
                 r == [id |-> used.ids + 1, name |-> n, status |-> "active", created |-> now, revoked |-> 0]
                 j == [at |-> "proxies", user |-> r, left |-> LinkProtos]
      <3>1. n \in UserNames
        BY <1>9, JobHolds DEF InsertUser
      <3>2. row' = [row EXCEPT ![n] = r] /\ used' = [used EXCEPT !.ids = @ + 1, !.writes = @ + 1]
            /\ job' = [job EXCEPT ![c] = [at |-> "proxies", user |-> row'[n], left |-> LinkProtos]]
        BY <1>9, <2>2 DEF InsertUser
      <3>3. row'[n] = r
        BY <3>1, <3>2 DEF LinkInv, RowsOK
      <3>4. used'.ids = used.ids + 1
        BY <3>2 DEF LinkInv, CountersOK
      <3>5. now \in Nat
        BY LinksAssumption DEF LinkInv, CountersOK
      <3>6. r \in Accts /\ r.id = used.ids + 1
        BY <1>0, <3>1, <3>5 DEF Accts
      <3> HIDE DEF r
      <3>7. j \in Jobs /\ j.user = r
        BY <3>6 DEF Jobs
      <3>8. job' = [job EXCEPT ![c] = j]
        BY <3>2, <3>3
      <3> HIDE DEF j
      <3>9. j.user.id <= used'.ids
        BY <1>0, <3>4, <3>6, <3>7
      <3> QED BY <1>3, <3>7, <3>8, <3>9
    <2> QED BY <2>1, <2>2
  <1>10. ASSUME NEW c \in Clerks, SetUserSubRevoked(c)
         PROVE  JobsOK'
    <2> DEFINE n == job[c].user.name
    <2>1. job[c].user \in Accts
      BY <1>10, JobHolds DEF SetUserSubRevoked
    <2>2. CASE row[n].id # job[c].user.id
      BY <1>6, <1>10, <2>2 DEF SetUserSubRevoked
    <2>3. CASE row[n].id = job[c].user.id
      <3>1. n \in UserNames /\ row[n] # NoRow
        BY <2>1, <2>3 DEF Accts, NoRow
      <3>2. /\ row' = [row EXCEPT ![n] = [row[n] EXCEPT !.revoked = now]]
            /\ job' = [job EXCEPT ![c] = [at |-> "respond", user |-> row'[n]]]
        BY <1>10, <2>3, Zenon DEF SetUserSubRevoked
      <3>3. row[n] \in Accts /\ now \in Nat /\ row \in [UserNames -> Accts \cup {NoRow}]
        BY <3>1, LinksAssumption DEF LinkInv, RowsOK, CountersOK
      <3>4. row'[n] \in Accts /\ row'[n].id = job[c].user.id
        BY <2>3, <3>1, <3>2, <3>3 DEF Accts
      <3>5. [at |-> "respond", user |-> row'[n]] \in Jobs
        BY <3>4 DEF Jobs
      <3>6. job[c].user.id <= used'.ids
        BY <1>2, <1>10, JobHolds DEF SetUserSubRevoked
      <3> QED BY <1>3, <3>2, <3>4, <3>5, <3>6
    <2> QED BY <2>2, <2>3
  <1>11. ASSUME NEW c \in Clerks, NEW p \in LinkProtos, CreateProxyForUser(c, p) \/ RotateProxy(c, p)
         PROVE  JobsOK'
    BY <1>6, <1>7, <1>11 DEF CreateProxyForUser, RotateProxy
  <1>12. ASSUME NEW c \in Clerks, RespondWithUser(c) \/ Reactivate(c)
         PROVE  JobsOK'
    BY <1>6, <1>12 DEF RespondWithUser, Reactivate
  <1>13. ASSUME NEW n \in UserNames, \/ GetUser(n) \/ Disable(n) \/ RemoveUser(n)
                                     \/ \E p \in LinkProtos : ReconcileProxies(n, p) \/ ReconcileExcludedInbounds(n, p)
         PROVE  UNCHANGED job
    BY <1>13 DEF GetUser, Disable, RemoveUser, ReconcileProxies, ReconcileExcludedInbounds
  <1>14. ASSUME (\E l \in minted : LoadSubscriptionUser(l)) \/ ForEachUserHost \/ LinkTick \/ UNCHANGED linkVars
         PROVE  UNCHANGED job
    BY <1>14 DEF LoadSubscriptionUser, ForEachUserHost, LinkTick, linkVars
  <1> QED BY <1>5, <1>8, <1>9, <1>10, <1>11, <1>12, <1>13, <1>14 DEF LinkNext

\* A link that is handed out is about an account that is or was there, and stands for
\* the whole second at or after now; the older ones outlive every change of a row.
LEMMA LinksStep ==
  ASSUME LinkInv, [LinkNext]_linkVars
  PROVE  LinksOK'
  <1>0. /\ CountersOK' /\ used'.ids >= used.ids /\ now' >= now
        /\ used.ids \in Nat /\ used'.ids \in Nat /\ now \in Nat /\ now' \in Nat
    BY CountersGrow, LinksAssumption DEF LinkInv, CountersOK
  <1>1. /\ \A n \in UserNames : Aged(n)
        /\ \A n \in UserNames : row[n] # NoRow =>
             /\ row[n] \in Accts /\ row[n].id \in Nat /\ row[n].created \in Nat
             /\ row[n].id <= used.ids /\ row[n].created <= now
    BY RowsStep DEF LinkInv, RowsOK, Accts
  <1> DEFINE Good(l) == /\ l \in HandedOut /\ l.owner <= used.ids /\ l.minted <= now
                        /\ l.minted <= l.ts /\ l.ts < l.minted + Parts
                        /\ \A n \in UserNames : row[n] # NoRow /\ row[n].id = l.owner => row[n].created <= l.ts
  <1>2. \A l \in minted : Good(l)
    BY DEF LinkInv, LinksOK
  <1>3. ASSUME NEW l, Good(l)
        PROVE  /\ l \in HandedOut /\ l.owner <= used'.ids /\ l.minted <= now'
               /\ l.minted <= l.ts /\ l.ts < l.minted + Parts
               /\ \A n \in UserNames : row'[n] # NoRow /\ row'[n].id = l.owner => row'[n].created <= l.ts
    <2>1. l.owner \in Nat /\ l.minted \in Nat /\ l.ts \in Nat
      BY <1>3 DEF HandedOut
    <2>2. ASSUME NEW n \in UserNames, row'[n] # NoRow, row'[n].id = l.owner
          PROVE  row'[n].created <= l.ts
      <3>1. l.owner <= used.ids /\ ~(l.owner > used.ids)
        BY <1>0, <1>3, <2>1
      <3>2. row[n] # NoRow /\ row'[n].id = row[n].id /\ row'[n].created = row[n].created
        BY <1>1, <2>2, <3>1 DEF Aged
      <3> QED BY <1>3, <2>2, <3>2
    <2> QED BY <1>0, <1>3, <2>1, <2>2
  <1>4. ASSUME NEW r \in Accts, r.id <= used.ids
        PROVE  Good(CreateToken(r))
    <2>1. TokenTime(now) \in Nat /\ now <= TokenTime(now) /\ TokenTime(now) < now + Parts
      BY <1>0, TokenTimeRounds
    <2> DEFINE l == CreateToken(r)
    <2>2. l \in HandedOut /\ l.owner = r.id /\ l.minted = now /\ l.ts = TokenTime(now)
      BY <1>0, <2>1 DEF CreateToken, HandedOut, Accts
    <2> HIDE DEF l
    <2>3. \A n \in UserNames : row[n] # NoRow => row[n].created <= l.ts
      BY <1>0, <1>1, <2>1, <2>2
    <2>4. Good(l)
      BY <1>0, <1>4, <2>1, <2>2, <2>3
    <2> QED BY <2>4 DEF l
  <1> HIDE DEF Good
  <1>5. ASSUME \A l \in minted' : Good(l)
        PROVE  LinksOK'
    BY <1>3, <1>5 DEF LinksOK
  <1>6. ASSUME UNCHANGED minted
        PROVE  LinksOK'
    BY <1>2, <1>5, <1>6
  <1>7. ASSUME NEW c \in Clerks, RespondWithUser(c)
        PROVE  LinksOK'
    <2>1. job[c].user \in Accts /\ job[c].user.id <= used.ids
      BY <1>7, JobHolds DEF RespondWithUser
    <2>2. Good(CreateToken(job[c].user))
      BY <1>4, <2>1
    <2> QED BY <1>2, <1>5, <1>7, <2>2 DEF RespondWithUser
  <1>8. ASSUME NEW n \in UserNames, GetUser(n)
        PROVE  LinksOK'
    <2>1. Good(CreateToken(row[n]))
      BY <1>1, <1>4, <1>8 DEF GetUser
    <2> QED BY <1>2, <1>5, <1>8, <2>1 DEF GetUser
  <1>9. ASSUME NEW c \in Clerks, \/ InsertUser(c) \/ Reactivate(c) \/ SetUserSubRevoked(c)
                                 \/ \E n \in UserNames : EnforceUserLimit(c, n) \/ CheckReactivate(c, n) \/ BeginRevoke(c, n)
                                 \/ \E p \in LinkProtos : CreateProxyForUser(c, p) \/ RotateProxy(c, p)
        PROVE  UNCHANGED minted
    BY <1>9 DEF InsertUser, Reactivate, SetUserSubRevoked, EnforceUserLimit, CheckReactivate, BeginRevoke,
         CreateProxyForUser, RotateProxy
  <1>10. ASSUME NEW n \in UserNames, \/ Disable(n) \/ RemoveUser(n)
                                     \/ \E p \in LinkProtos : ReconcileProxies(n, p) \/ ReconcileExcludedInbounds(n, p)
         PROVE  UNCHANGED minted
    BY <1>10 DEF Disable, RemoveUser, ReconcileProxies, ReconcileExcludedInbounds
  <1>11. ASSUME (\E l \in minted : LoadSubscriptionUser(l)) \/ ForEachUserHost \/ LinkTick \/ UNCHANGED linkVars
         PROVE  UNCHANGED minted
    BY <1>11 DEF LoadSubscriptionUser, ForEachUserHost, LinkTick, linkVars
  <1> QED BY <1>6, <1>7, <1>8, <1>9, <1>10, <1>11 DEF LinkNext

\* Opening a link reads one row, and its time settles which of the two it is.
LEMMA AnswersStep ==
  ASSUME LinkInv, [LinkNext]_linkVars
  PROVE  LinksAnswerRightly'
  <1>1. ASSUME UNCHANGED opened
        PROVE  LinksAnswerRightly'
    BY <1>1 DEF LinkInv, LinksAnswerRightly
  <1>2. ASSUME NEW l \in minted, LoadSubscriptionUser(l)
        PROVE  LinksAnswerRightly'
    <2> DEFINE r == Named(l)
    <2>1. opened' = [link |-> l, found |-> r, ok |-> r # NoRow /\ ~TokenPredates(l, r)]
      BY <1>2 DEF LoadSubscriptionUser
    <2>2. /\ l \in HandedOut /\ l.minted <= l.ts /\ l.ts < l.minted + Parts
          /\ \A n \in UserNames : row[n] # NoRow /\ row[n].id = l.owner => row[n].created <= l.ts
          /\ l.minted \in Nat /\ l.ts \in Nat /\ Parts \in Nat /\ l.name \in UserNames
      BY LinksAssumption DEF LinkInv, LinksOK, HandedOut
    <2>3. r # NoRow => \E n \in UserNames : r = row[n]
      <3>1. CASE l.kind = "id"
        <4> DEFINE who == {n \in UserNames : row[n].id = l.owner}
        <4>1. r = IF who = {} THEN NoRow ELSE row[CHOOSE n \in who : TRUE]
          BY <3>1, Zenon DEF Named
        <4>2. who # {} => (CHOOSE n \in who : TRUE) \in who
          OBVIOUS
        <4> HIDE DEF r
        <4> QED BY <4>1, <4>2
      <3>2. CASE l.kind # "id"
        BY <2>2, <3>2 DEF Named
      <3> QED BY <3>1, <3>2
    <2> HIDE DEF r
    <2>4. ASSUME r # NoRow
          PROVE  r.created \in Nat /\ r.revoked \in Nat /\ (r.id = l.owner => r.created <= l.ts)
      BY <2>2, <2>3, <2>4 DEF LinkInv, RowsOK, Accts
    <2>5. opened'.link = l /\ opened'.found = r /\ opened'.ok = (r # NoRow /\ ~TokenPredates(l, r))
      BY <2>1
    <2>6. ASSUME r # NoRow
          PROVE  opened'.ok <=> ~(r.created > l.ts \/ r.revoked > l.ts)
      BY <2>5, <2>6, Zenon DEF TokenPredates
    <2>7. ASSUME r # NoRow, l.owner = r.id, l.minted >= r.revoked
          PROVE  ~(r.created > l.ts \/ r.revoked > l.ts)
      BY <2>2, <2>4, <2>7
    <2>8. ASSUME r # NoRow, ~(r.created > l.ts \/ r.revoked > l.ts)
          PROVE  r.revoked - l.minted < Parts /\ r.created - l.minted < Parts
      BY <2>2, <2>4, <2>8
    <2> QED BY <2>5, <2>6, <2>7, <2>8, Zenon DEF LinksAnswerRightly
  <1>3. ASSUME NEW c \in Clerks, \/ InsertUser(c) \/ Reactivate(c) \/ SetUserSubRevoked(c) \/ RespondWithUser(c)
                                 \/ \E n \in UserNames : EnforceUserLimit(c, n) \/ CheckReactivate(c, n) \/ BeginRevoke(c, n)
                                 \/ \E p \in LinkProtos : CreateProxyForUser(c, p) \/ RotateProxy(c, p)
        PROVE  UNCHANGED opened
    BY <1>3 DEF InsertUser, Reactivate, SetUserSubRevoked, RespondWithUser, EnforceUserLimit, CheckReactivate, BeginRevoke,
         CreateProxyForUser, RotateProxy
  <1>4. ASSUME NEW n \in UserNames, \/ Disable(n) \/ RemoveUser(n) \/ GetUser(n)
                                    \/ \E p \in LinkProtos : ReconcileProxies(n, p) \/ ReconcileExcludedInbounds(n, p)
        PROVE  UNCHANGED opened
    BY <1>4 DEF Disable, RemoveUser, GetUser, ReconcileProxies, ReconcileExcludedInbounds
  <1>5. ASSUME ForEachUserHost \/ LinkTick \/ UNCHANGED linkVars
        PROVE  UNCHANGED opened
    BY <1>5 DEF ForEachUserHost, LinkTick, linkVars
  <1> QED BY <1>1, <1>2, <1>3, <1>4, <1>5 DEF LinkNext

\* A check leaves room for one write, and the write that was due takes it.
LEMMA RoomStep ==
  ASSUME LinkInv, [LinkNext]_linkVars
  PROVE  RoomIsKept'
  <1>0. /\ IsFiniteSet(Counted) /\ Cardinality(Counted) \in Nat /\ UsersLimit \in Nat
        /\ RoomIsKept /\ row \in [UserNames -> Accts \cup {NoRow}] /\ row' \in [UserNames -> Accts \cup {NoRow}]
        /\ job \in [Clerks -> Jobs]
    BY CountedFinite, RowsStep, LinksAssumption DEF LinkInv, RowsOK, JobsOK
  <1>1. ASSUME Counted' \subseteq Counted, DueJobs' \subseteq DueJobs, UNCHANGED capRaced
        PROVE  RoomIsKept'
    <2>1. Cardinality(Counted') \in Nat /\ Cardinality(Counted') <= Cardinality(Counted)
      BY <1>1, CountedFinite
    <2>2. CASE capRaced
      BY <1>1, <2>2 DEF RoomIsKept
    <2>3. CASE ~capRaced
      <3>1. /\ \A c, d \in DueJobs : c = d
            /\ Cardinality(Counted) <= UsersLimit
            /\ DueJobs # {} => Cardinality(Counted) < UsersLimit
        BY <1>0, <2>3 DEF RoomIsKept
      <3>2. /\ \A c, d \in DueJobs' : c = d
            /\ DueJobs' # {} => DueJobs # {}
        BY <1>1, <3>1
      <3>3. Cardinality(Counted') <= UsersLimit /\ (DueJobs # {} => Cardinality(Counted') < UsersLimit)
        BY <1>0, <2>1, <3>1
      <3> QED BY <3>2, <3>3, Zenon DEF RoomIsKept
    <2> QED BY <2>2, <2>3
  <1>2. ASSUME NEW c \in DueJobs, NEW n, Counted' \subseteq Counted \cup {n}, DueJobs' \subseteq DueJobs \ {c}, UNCHANGED capRaced
        PROVE  RoomIsKept'
    <2>1. IsFiniteSet(Counted \cup {n}) /\ Cardinality(Counted \cup {n}) \in Nat
          /\ Cardinality(Counted \cup {n}) <= Cardinality(Counted) + 1
      <3>1. /\ IsFiniteSet(Counted \cup {n})
            /\ Cardinality(Counted \cup {n}) = IF n \in Counted THEN Cardinality(Counted) ELSE Cardinality(Counted) + 1
        BY <1>0, FS_AddElement, Zenon
      <3> QED BY <1>0, <3>1
    <2>2. Cardinality(Counted') \in Nat /\ Cardinality(Counted') <= Cardinality(Counted) + 1
      <3>1. Cardinality(Counted') \in Nat /\ Cardinality(Counted') <= Cardinality(Counted \cup {n})
        BY <1>2, <2>1, FS_Subset, FS_CardinalityType
      <3> QED BY <1>0, <2>1, <3>1
    <2>3. CASE capRaced
      BY <1>2, <2>3 DEF RoomIsKept
    <2>4. CASE ~capRaced
      <3>1. DueJobs' = {} /\ Cardinality(Counted) < UsersLimit
        BY <1>0, <1>2, <2>4 DEF RoomIsKept
      <3>2. Cardinality(Counted') <= UsersLimit
        BY <1>0, <2>2, <3>1
      <3> QED BY <3>1, <3>2, Zenon DEF RoomIsKept
    <2> QED BY <2>3, <2>4
  <1>3. ASSUME NEW c \in Clerks, UnderLimit, UNCHANGED row, \A d \in Clerks \ {c} : job'[d] = job[d],
               capRaced' = (capRaced \/ Due(c))
        PROVE  RoomIsKept'
    <2>1. Counted' = Counted
      BY <1>3 DEF Counted
    <2>2. CASE capRaced \/ Due(c)
      BY <1>3, <2>2, Zenon DEF RoomIsKept
    <2>3. CASE ~(capRaced \/ Due(c))
      <3>1. \A d \in DueJobs' : d = c
        BY <1>3, <2>3 DEF Due, DueJobs
      <3>2. Cardinality(Counted') <= UsersLimit /\ Cardinality(Counted') < UsersLimit
        BY <1>0, <1>3, <2>1 DEF UnderLimit
      <3>3. \A d, e \in DueJobs' : d = e
        BY <3>1
      <3> QED BY <3>2, <3>3, Zenon DEF RoomIsKept
    <2> QED BY <2>2, <2>3
  <1>4. ASSUME UNCHANGED row
        PROVE  Counted' \subseteq Counted
    BY <1>4 DEF Counted
  <1>5. ASSUME NEW c \in Clerks, NEW j, job' = [job EXCEPT ![c] = j], j.at \notin {"insert", "reactivate"}
        PROVE  DueJobs' \subseteq DueJobs \ {c}
    BY <1>0, <1>5 DEF DueJobs
  <1>6. ASSUME UNCHANGED job
        PROVE  DueJobs' \subseteq DueJobs
    BY <1>6 DEF DueJobs
  <1>7. ASSUME NEW c \in Clerks, NEW n \in UserNames, EnforceUserLimit(c, n) \/ CheckReactivate(c, n)
        PROVE  RoomIsKept'
    <2>1. /\ UnderLimit /\ UNCHANGED row /\ capRaced' = (capRaced \/ Due(c))
          /\ \E j : job' = [job EXCEPT ![c] = j]
      BY <1>7 DEF EnforceUserLimit, CheckReactivate
    <2>2. \A d \in Clerks \ {c} : job'[d] = job[d]
      BY <1>0, <2>1
    <2> QED BY <1>3, <2>1, <2>2
  <1>8. ASSUME NEW c \in Clerks, InsertUser(c)
        PROVE  RoomIsKept'
    <2> DEFINE n == job[c].name
    <2>1. c \in DueJobs /\ capRaced' = capRaced
      BY <1>8 DEF InsertUser, DueJobs
    <2>2. DueJobs' \subseteq DueJobs \ {c}
      <3>1. CASE row[n] # NoRow
        BY <1>5, <1>8, <3>1 DEF InsertUser, IdleJob
      <3>2. CASE row[n] = NoRow
        <4>1. job' = [job EXCEPT ![c] = [at |-> "proxies", user |-> row'[n], left |-> LinkProtos]]
          BY <1>8, <3>2 DEF InsertUser
        <4> QED BY <1>5, <4>1
      <3> QED BY <3>1, <3>2
    <2>3. \A m \in UserNames \ {n} : row'[m] = row[m]
      BY <1>0, <1>8 DEF InsertUser
    <2>4. Counted' \subseteq Counted \cup {n}
      BY <2>3 DEF Counted
    <2> QED BY <1>2, <2>1, <2>2, <2>4
  <1>9. ASSUME NEW c \in Clerks, Reactivate(c)
        PROVE  RoomIsKept'
    <2> DEFINE n == job[c].name
    <2>1. c \in DueJobs /\ capRaced' = capRaced
      BY <1>9 DEF Reactivate, DueJobs
    <2>2. DueJobs' \subseteq DueJobs \ {c}
      BY <1>5, <1>9 DEF Reactivate, IdleJob
    <2>3. \A m \in UserNames \ {n} : row'[m] = row[m]
      BY <1>0, <1>9 DEF Reactivate
    <2>4. Counted' \subseteq Counted \cup {n}
      BY <2>3 DEF Counted
    <2> QED BY <1>2, <2>1, <2>2, <2>4
  <1>10. ASSUME NEW c \in Clerks, SetUserSubRevoked(c)
         PROVE  RoomIsKept'
    <2> DEFINE n == job[c].user.name
    <2>1. DueJobs' \subseteq DueJobs \ {c}
      <3>1. CASE row[n].id # job[c].user.id
        BY <1>5, <1>10, <3>1 DEF SetUserSubRevoked, IdleJob
      <3>2. CASE row[n].id = job[c].user.id
        <4>1. job' = [job EXCEPT ![c] = [at |-> "respond", user |-> row'[n]]]
          BY <1>10, <3>2 DEF SetUserSubRevoked
        <4> QED BY <1>5, <4>1
      <3> QED BY <3>1, <3>2
    <2>2. CASE row' = row
      BY <1>1, <1>4, <1>10, <2>1, <2>2 DEF SetUserSubRevoked
    <2>3. CASE row[n].id = job[c].user.id
      <3>0. job[c].user \in Accts
        BY <1>10, JobHolds DEF SetUserSubRevoked
      <3>1. row[n] # NoRow /\ n \in UserNames
        BY <2>3, <3>0 DEF Accts, NoRow
      <3>2. row' = [row EXCEPT ![n] = [row[n] EXCEPT !.revoked = now]]
        BY <1>10, <2>3, Zenon DEF SetUserSubRevoked
      <3>3. row'[n].status = row[n].status /\ \A m \in UserNames \ {n} : row'[m] = row[m]
        BY <1>0, <3>1, <3>2 DEF Accts
      <3>4. Counted' \subseteq Counted
        BY <3>1, <3>3 DEF Counted
      <3> QED BY <1>1, <1>10, <2>1, <3>4 DEF SetUserSubRevoked
    <2> QED BY <1>10, <2>2, <2>3 DEF SetUserSubRevoked
  <1>11. ASSUME NEW n \in UserNames, Disable(n) \/ RemoveUser(n)
         PROVE  RoomIsKept'
    <2>1. /\ \A m \in UserNames \ {n} : row'[m] = row[m]
          /\ UNCHANGED <<job, capRaced>>
      BY <1>0, <1>11 DEF Disable, RemoveUser
    <2>2. row'[n] # NoRow /\ row'[n].status = "active" => row[n] # NoRow /\ row[n].status = "active"
      BY <1>0, <1>11 DEF Disable, RemoveUser
    <2>3. Counted' \subseteq Counted
      BY <2>1, <2>2 DEF Counted
    <2> QED BY <1>1, <1>6, <2>1, <2>3
  <1>12. ASSUME NEW c \in Clerks, NEW p \in LinkProtos, CreateProxyForUser(c, p) \/ RotateProxy(c, p)
         PROVE  RoomIsKept'
    <2>1. UNCHANGED <<row, capRaced>> /\ job[c].at \in {"proxies", "rotate"}
      BY <1>12 DEF CreateProxyForUser, RotateProxy
    <2>2. CASE job' = [job EXCEPT ![c] = IdleJob]
      BY <1>1, <1>4, <1>5, <2>1, <2>2 DEF IdleJob
    <2>3. CASE job' = [job EXCEPT ![c].left = @ \ {p}]
      <3>1. job' = [job EXCEPT ![c] = [job[c] EXCEPT !.left = job[c].left \ {p}]]
        BY <2>3, Zenon
      <3>2. [job[c] EXCEPT !.left = job[c].left \ {p}].at \notin {"insert", "reactivate"}
        BY <2>1, JobHolds
      <3> QED BY <1>1, <1>4, <1>5, <2>1, <3>1, <3>2
    <2> QED BY <1>12, <2>2, <2>3 DEF CreateProxyForUser, RotateProxy
  <1>13. ASSUME NEW c \in Clerks, RespondWithUser(c) \/ \E n \in UserNames : BeginRevoke(c, n)
         PROVE  RoomIsKept'
    <2>1. UNCHANGED <<row, capRaced>>
      BY <1>13 DEF RespondWithUser, BeginRevoke
    <2>2. DueJobs' \subseteq DueJobs \ {c}
      BY <1>5, <1>13 DEF RespondWithUser, BeginRevoke, IdleJob
    <2> QED BY <1>1, <1>4, <2>1, <2>2
  <1>14. ASSUME NEW n \in UserNames, GetUser(n) \/ \E p \in LinkProtos : ReconcileProxies(n, p) \/ ReconcileExcludedInbounds(n, p)
         PROVE  UNCHANGED <<row, job, capRaced>>
    BY <1>14 DEF GetUser, ReconcileProxies, ReconcileExcludedInbounds
  <1>15. ASSUME (\E l \in minted : LoadSubscriptionUser(l)) \/ ForEachUserHost \/ LinkTick \/ UNCHANGED linkVars
         PROVE  UNCHANGED <<row, job, capRaced>>
    BY <1>15 DEF LoadSubscriptionUser, ForEachUserHost, LinkTick, linkVars
  <1>16. ASSUME UNCHANGED <<row, job, capRaced>>
         PROVE  RoomIsKept'
    BY <1>1, <1>4, <1>6, <1>16
  <1> QED BY <1>7, <1>8, <1>9, <1>10, <1>11, <1>12, <1>13, <1>14, <1>15, <1>16 DEF LinkNext

\* Opening a link (loadSubscriptionUser): one handed out since the account was created and
\* last revoked is never refused; one a second or more older, or about an earlier account
\* of that name, is never honoured.  The reseller's cap is only exceeded by checks that raced.
THEOREM LinksTheorem == LinkSpec => []LinksAreSound
  <1>1. LinkInit => LinkInv
    <2> SUFFICES ASSUME LinkInit PROVE LinkInv
      OBVIOUS
    <2>0. PICK n \in UserNames, kind \in {"id", "jwt"} :
            /\ now = Parts + 1
            /\ row = [m \in UserNames |-> IF m = n THEN [id |-> 1, name |-> n, status |-> "active",
                                                         created |-> 1, revoked |-> 0] ELSE NoRow]
            /\ proxy = [k \in {1} \X LinkProtos |-> [cred |-> 1, flow |-> "none", excluded |-> {}]]
            /\ minted = {[kind |-> kind, name |-> n, owner |-> 1, ts |-> Parts, minted |-> Parts]}
            /\ job = [c \in Clerks |-> IdleJob] /\ opened = NoOpen
            /\ used = [ids |-> 1, creds |-> 1, writes |-> 0]
      BY DEF LinkInit
    <2> USE LinksAssumption
    <2>1. CountersOK
      BY <2>0 DEF CountersOK
    <2>2. RowsOK
      BY <2>0 DEF RowsOK, Accts, NoRow
    <2>3. ProxiesOK
      BY <2>0 DEF ProxiesOK, Settings
    <2>4. JobsOK
      BY <2>0 DEF JobsOK, Jobs, IdleJob
    <2>5. LinksOK
      <3>1. [kind |-> kind, name |-> n, owner |-> 1, ts |-> Parts, minted |-> Parts] \in HandedOut
        BY DEF HandedOut
      <3>2. \A m \in UserNames : row[m] # NoRow => row[m].created = 1
        BY <2>0
      <3> QED BY <2>0, <3>1, <3>2 DEF LinksOK
    <2>6. RoomIsKept
      <3>1. Counted \subseteq {n}
        BY <2>0 DEF Counted
      <3>2. DueJobs = {}
        BY <2>0 DEF DueJobs, IdleJob
      <3>3. IsFiniteSet({n}) /\ Cardinality({n}) = 1
        BY FS_Singleton
      <3>4. Cardinality(Counted) \in Nat /\ Cardinality(Counted) <= 1
        BY <3>1, <3>3, FS_Subset, FS_CardinalityType
      <3>5. Cardinality(Counted) <= UsersLimit
        BY <3>4
      <3> QED BY <3>2, <3>5 DEF RoomIsKept
    <2>7. LinksAnswerRightly
      BY <2>0 DEF LinksAnswerRightly, NoOpen
    <2> QED BY <2>1, <2>2, <2>3, <2>4, <2>5, <2>6, <2>7 DEF LinkInv
  <1>2. LinkInv /\ [LinkNext]_linkVars => LinkInv'
    BY CountersGrow, RowsStep, ProxiesStep, JobsStep, LinksStep, RoomStep, AnswersStep DEF LinkInv
  <1>3. LinkInv => LinksAreSound
    <2> SUFFICES ASSUME LinkInv PROVE LinksAreSound
      OBVIOUS
    <2>1. LinkTypeOK
      <3>1. \A n \in UserNames : row[n] # NoRow => row[n].created \in 0..now /\ row[n].revoked \in 0..now
        BY LinksAssumption DEF LinkInv, CountersOK, RowsOK, Accts
      <3>2. \A l \in minted : l.minted \in 0..now
        BY LinksAssumption DEF LinkInv, CountersOK, LinksOK, HandedOut
      <3> QED BY <3>1, <3>2, JobHolds DEF LinkTypeOK, LinkInv, CountersOK, ProxiesOK
    <2>2. CapHolds
      <3>1. Cardinality(Counted) \in Nat /\ UsersLimit \in Nat
        BY CountedFinite, LinksAssumption
      <3> QED BY <3>1 DEF LinkInv, RoomIsKept, CapHolds
    <2> QED BY <2>1, <2>2 DEF LinksAreSound, LinkInv
  <1> QED BY <1>1, <1>2, <1>3, PTL DEF LinkSpec
=============================================================================
