----------------------------- MODULE LoginLimit -----------------------------
(***************************************************************************)
(* The limiter in front of handleLogin: wrong passwords from one address   *)
(* are counted in Redis for a window (internal/httpapi/admin.go,           *)
(* Client.Incr in internal/cache/cache.go).                                *)
(*                                                                         *)
(* A login peeks at the counter, compares the password, and only then      *)
(* counts a failure: INCR, and for the first failure of a window a second  *)
(* command, EXPIRE.  Logins from the address overlap freely.  Redis        *)
(* refuses a command whenever it likes: the peek then lets the login pass. *)
(***************************************************************************)
EXTENDS Integers, FiniteSets

CONSTANTS
  Logins,    \* concurrent logins from the address
  LoginMax,  \* loginRateLimitMax, 20
  MaxBlind   \* bound: peeks that fail

ASSUME LoginMaxAssumption ==
  LoginMax \in Nat \ {0} /\ MaxBlind \in Nat /\ IsFiniteSet(Logins)

VARIABLES
  attempt,   \* each login's stage
  failures,  \* Redis: the counter, 0 when there is none
  expiring,  \* the counter has a time to live
  blind,     \* history: logins that a failing peek let through
  orphaned   \* history: the login that began the window never set its expiry

limitVars == <<attempt, failures, expiring, blind, orphaned>>

LimitInit ==
  /\ attempt = [l \in Logins |-> "idle"]
  /\ failures = 0 /\ expiring = FALSE
  /\ blind = 0 /\ orphaned = FALSE

Stage(l, stage) == attempt' = [attempt EXCEPT ![l] = stage]

NoCounter == failures' = 0 /\ expiring' = FALSE /\ orphaned' = FALSE

\* Fault: nobody is turned away.
NeverTooMany == FALSE

TooManyFailedLogins == failures >= LoginMax

(* handleLogin peeks; an error counts as "not too many". *)
Peek(l) ==
  /\ attempt[l] = "idle"
  /\ Stage(l, IF TooManyFailedLogins THEN "idle" ELSE "comparing")
  /\ UNCHANGED <<failures, expiring, blind, orphaned>>

PeekFails(l) ==
  /\ attempt[l] = "idle"
  /\ blind < MaxBlind
  /\ Stage(l, "comparing")
  /\ blind' = blind + 1
  /\ UNCHANGED <<failures, expiring, orphaned>>

(* clearFailedLogins: a correct password forgets the address's failures. *)
LoggedIn(l) ==
  /\ attempt[l] = "comparing"
  /\ Stage(l, "idle")
  /\ NoCounter \/ UNCHANGED <<failures, expiring, orphaned>>
  /\ UNCHANGED blind

(* recordFailedLogin: INCR ... *)
RecordFailedLogin(l) ==
  /\ attempt[l] = "comparing"
  /\ failures' = failures + 1
  /\ Stage(l, IF failures' = 1 THEN "counted" ELSE "idle")
  /\ UNCHANGED <<expiring, blind, orphaned>>

(* ... which a failing Redis loses. *)
RecordLost(l) ==
  /\ attempt[l] = "comparing"
  /\ Stage(l, "idle")
  /\ UNCHANGED <<failures, expiring, blind, orphaned>>

(* ... and EXPIRE, on whatever counter is there by now. *)
SetExpiry(l) ==
  /\ attempt[l] = "counted"
  /\ Stage(l, "idle")
  /\ expiring' = (failures > 0)
  /\ UNCHANGED <<failures, blind, orphaned>>

(* The client hangs up, Redis fails or the process stops in between. *)
ExpiryLost(l) ==
  /\ attempt[l] = "counted"
  /\ Stage(l, "idle")
  /\ orphaned' = (failures > 0)
  /\ UNCHANGED <<failures, expiring, blind>>

WindowEnds ==
  /\ expiring
  /\ NoCounter
  /\ UNCHANGED <<attempt, blind>>

LimitNext ==
  \/ \E l \in Logins :
       \/ Peek(l) \/ PeekFails(l)
       \/ LoggedIn(l) \/ RecordFailedLogin(l) \/ RecordLost(l)
       \/ SetExpiry(l) \/ ExpiryLost(l)
  \/ WindowEnds

LimitSpec == LimitInit /\ [][LimitNext]_limitVars

----------------------------------------------------------------------------
LimitTypeOK ==
  /\ attempt \in [Logins -> {"idle", "comparing", "counted"}]
  /\ failures \in Nat
  /\ expiring \in BOOLEAN /\ orphaned \in BOOLEAN
  /\ blind \in 0..MaxBlind

(* However logins overlap, a window counts at most LoginMax failures and one *)
(* more for each other login that had already peeked, or whose peek failed   *)
(* (admin.go:97, 136); and a counter without an expiry is one whose first    *)
(* failure is still to set it, or lost its chance (cache.go:166): otherwise  *)
(* every lockout ends.                                                       *)
LoginsLimited ==
  /\ failures <= LoginMax + Cardinality(Logins) - 1 + blind
  /\ failures > 0 /\ ~expiring => orphaned \/ \E l \in Logins : attempt[l] = "counted"

(* A lockout comes in time, and ends (admin.go, cache.go).                   *)
LockoutIsSound == LimitTypeOK /\ LoginsLimited
=============================================================================
