---------------------------- MODULE UserLifecycle ----------------------------
(***************************************************************************)
(* A user's account: its row of users and its next_plans row, written by   *)
(* the admin's requests (internal/httpapi/user.go, user_bulk.go, admin.go),*)
(* by the user's own emergency recharge (subscription_emergency.go), by    *)
(* the traffic the nodes report and by the review loop of                  *)
(* internal/reviewjob, which ends accounts that crossed their limits,      *)
(* fires their next plan and starts accounts on hold.                      *)
(*                                                                         *)
(* Every handler and every tick of the loop reads the row with one query   *)
(* and writes it with others; nothing is in a transaction.  One action is  *)
(* one statement, and the row a caller read stays in its job, as stale as  *)
(* it has become.  Any caller can stop between two statements: a query     *)
(* fails, a client goes away (its request's context is cancelled), the     *)
(* process restarts.                                                       *)
(*                                                                         *)
(* Accounts share nothing here, so the model has one at a time; an account *)
(* created after another was deleted has a new id.  Credentials, notes and *)
(* owners are not part of it, nor is node_user_usages (see UsageReport).   *)
(***************************************************************************)
EXTENDS Integers

CONSTANTS
    NULL,        \* SQL's NULL, and a field a request does not mention
    Admins,      \* the requests that can be handled at the same time
    Review,      \* the review loop, of which there is one
    Requests,    \* what the requests ask for: see Request
    Overlap,     \* whether callers run at the same time or one after another
    MaxInt,      \* the largest value of an INTEGER column
    MaxTime,     \* how long the clock runs
    MaxTraffic,  \* how much traffic the nodes report
    MaxCalls,    \* how many requests come in
    MaxUsers,    \* how often the account is created
    MaxFaults    \* how many callers stop half-way

Actors == Admins \cup {Review}
EmergencyData == 1
EmergencyTime == 1

Statuses == {"active", "on_hold", "disabled", "limited", "expired"}
Maybe(S) == S \cup {NULL}

\* One row of users.
Row ==
    [id : 1 .. MaxUsers, status : Statuses, limit : Maybe(Int), used : Nat,
     expire : Maybe(Nat), hold : Maybe(Nat), timeout : Maybe(Nat),
     edit : Nat, online : Maybe(Nat), emergency : BOOLEAN]

\* One row of next_plans; add_remaining_traffic is called drop, which is what
\* ResetUserByNextPlan makes of it.
Plan == [limit : Nat, expire : Nat, drop : BOOLEAN, either : BOOLEAN]

\* A request: what it calls and, for a create or an edit, its body.
Request ==
    [call : {"create", "modify", "reset", "next", "delete", "deleteExpired",
             "emergency", "resetAll", "disableAll", "activateAll"},
     status : Maybe({"active", "on_hold", "disabled"}), limit : Maybe(Nat),
     expire : Maybe(Nat), hold : Maybe(Nat), timeout : Maybe(Nat),
     plan : Maybe(Plan)]

ASSUME ConstantsAssumption ==
    /\ Review \notin Admins
    /\ Requests \subseteq Request
    /\ Overlap \in BOOLEAN
    /\ {MaxInt, MaxTime, MaxTraffic, MaxCalls, MaxUsers, MaxFaults} \subseteq Nat
    /\ NULL \notin Int /\ NULL \notin Row

VARIABLES
    row,     \* the users row, or NULL
    plan,    \* its next_plans row, or NULL
    now,     \* the clock
    traffic, \* how much the nodes have reported
    users,   \* how many accounts were created; the id of the last one
    calls,   \* how many requests came in
    faults,  \* how many callers stopped half-way
    job      \* each caller: at, what it runs next; id, row and now, what it read

Idle == [at |-> "idle", id |-> 0, row |-> NULL, now |-> 0, req |-> NULL]

userVars == <<row, plan>>
bounds == <<traffic, users, calls, faults>>
vars == <<userVars, now, bounds, job>>

Init ==
    /\ row = NULL
    /\ plan = NULL
    /\ now = 1
    /\ traffic = 0
    /\ users = 0
    /\ calls = 0
    /\ faults = 0
    /\ job = [p \in Actors |-> Idle]

-----------------------------------------------------------------------------
(***************************************************************************)
(* Reading a row.                                                          *)
(***************************************************************************)

\* normalizeZero: a zero means that the field is not set.
NormalizeZero(v) == IF v = 0 THEN NULL ELSE v

Limited(r) == r.limit # NULL /\ r.limit > 0 /\ r.used >= r.limit
Expired(r, t) == r.expire # NULL /\ r.expire # 0 /\ r.expire <= t

\* Fault: the query looks only at the expiry.
NeedsExpiryReview(r, t) == r.status = "active" /\ Expired(r, t)

\* GetUsersNeedingStatusReview's WHERE.
NeedsStatusReview(r, t) == r.status = "active" /\ (Limited(r) \/ Expired(r, t))

OnlineSinceEdit(r) == r.online # NULL /\ r.edit <= r.online
TimeoutCame(r, t) == r.timeout # NULL /\ r.timeout <= t

\* Fault: a hold ends only when its timeout has come.
EndsHoldOnTimeout(r, t) == r.status = "on_hold" /\ TimeoutCame(r, t)

\* reviewOnHoldUsers: the user has been online since the last edit, or the
\* timeout of the hold has come.
EndsHold(r, t) == r.status = "on_hold" /\ (OnlineSinceEdit(r) \/ TimeoutCame(r, t))

\* Fault: the statement finds the row by its name.
OwnByName(p) == row # NULL

\* Whether a value goes into an INTEGER column; the statement fails otherwise.
Fits(v) == v # NULL => v <= MaxInt

\* The row that p read still exists: statements are WHERE id = $1.
Own(p) == row # NULL /\ row.id = job[p].id

\* A caller begins: in runs without overlap, once the others are done.
CanBegin(p) ==
    /\ job[p].at = "idle"
    /\ Overlap \/ \A o \in Actors : job[o].at = "idle"

Goto(p, at) == job' = [job EXCEPT ![p].at = at]
Done(p) == job' = [job EXCEPT ![p] = Idle]

-----------------------------------------------------------------------------
(***************************************************************************)
(* The requests.                                                           *)
(***************************************************************************)

Body(r) == [limit |-> NormalizeZero(r.limit), expire |-> NormalizeZero(r.expire),
            hold |-> NormalizeZero(r.hold), timeout |-> r.timeout]

\* A user on hold needs a duration and cannot have an expiry; an expiry must
\* fit its column.
ValidBody(r) ==
    /\ r.status = "on_hold" => Body(r).hold # NULL /\ Body(r).expire = NULL
    /\ Fits(r.expire)

\* handleCreateUser: the row, and then its plan.
CreateUser(p, r) ==
    /\ CanBegin(p) /\ r.call = "create" /\ ValidBody(r) /\ r.status # "disabled"
    /\ row = NULL /\ users < MaxUsers
    /\ row' = [id |-> users + 1, status |-> IF r.status = NULL THEN "active" ELSE r.status,
               limit |-> Body(r).limit, used |-> 0, expire |-> Body(r).expire,
               hold |-> Body(r).hold, timeout |-> Body(r).timeout,
               edit |-> now, online |-> NULL, emergency |-> FALSE]
    /\ users' = users + 1
    /\ job' = [job EXCEPT ![p] = IF r.plan = NULL THEN Idle
                                 ELSE [Idle EXCEPT !.at = "setPlan", !.id = users + 1, !.req = r]]
    /\ UNCHANGED <<plan, now, traffic, calls, faults>>

\* What a handler runs after it has read the row.
FirstStatement ==
    [modify |-> "write", reset |-> "log", next |-> "readPlan", delete |-> "delete",
     deleteExpired |-> "delete", emergency |-> "grant", resetAll |-> "zero",
     disableAll |-> "disable", activateAll |-> "activateAll"]

\* The checks that a handler makes on the request and on the row it read.
Eligible(r) ==
    CASE r.call = "modify" -> ValidBody(r)
      [] r.call = "deleteExpired" ->
            row.status \in {"expired", "limited"} /\ row.expire # NULL /\ row.expire <= now
      [] r.call = "emergency" -> ~ row.emergency /\ row.status \in {"limited", "expired"}
      [] OTHER -> TRUE

\* loadAuthorizedUser, loadSubscriptionUser, ListExpiredUsers or ListUserIDs.
LoadUser(p, r) ==
    /\ CanBegin(p) /\ r.call # "create" /\ calls < MaxCalls
    /\ row # NULL /\ Eligible(r)
    /\ job' = [job EXCEPT ![p] = [at |-> FirstStatement[r.call], id |-> row.id,
                                  row |-> row, now |-> 0, req |-> r]]
    /\ calls' = calls + 1
    /\ UNCHANGED <<userVars, now, traffic, users, faults>>

\* handleModifyUser's status: the request's own or the stale row's, moved by
\* the limit that the request sets and then by its expiry.
ModifiedStatus(old, r) ==
    LET s0 == IF r.status = NULL THEN old.status ELSE r.status
        s1 == CASE r.limit = NULL \/ s0 \in {"expired", "disabled"} -> s0
                [] OTHER ->
                     IF Body(r).limit = NULL \/ old.used < r.limit
                       THEN (IF s0 = "on_hold" THEN s0 ELSE "active")
                       ELSE "limited"
    IN CASE r.expire = NULL \/ s1 \notin {"active", "expired"} -> s1
         [] OTHER -> IF Body(r).expire = NULL \/ r.expire > now THEN "active" ELSE "expired"

\* UpdateUserCore: every field, the ones the request leaves alone as they were
\* when the handler read them.
UpdateUserCore(p) ==
    /\ job[p].at = "write"
    /\ LET old == job[p].row
           r == job[p].req
           Set(given, value, was) == IF given = NULL THEN was ELSE value
       IN IF Own(p)
            THEN /\ row' = [row EXCEPT
                        !.status = ModifiedStatus(old, r),
                        !.limit = Set(r.limit, Body(r).limit, old.limit),
                        !.expire = Set(r.expire, Body(r).expire, old.expire),
                        !.hold = Set(r.hold, Body(r).hold, old.hold),
                        !.timeout = Set(r.timeout, r.timeout, old.timeout),
                        !.edit = now]
                 /\ Goto(p, "setPlan")
            ELSE Done(p) /\ UNCHANGED row
    /\ UNCHANGED <<plan, now, bounds>>

\* UpsertNextPlan (which needs the user), or DeleteNextPlanByUserID when the
\* body has no plan.
SetPlan(p) ==
    /\ job[p].at = "setPlan"
    /\ plan' = IF Own(p) THEN job[p].req.plan ELSE plan
    /\ Done(p)
    /\ UNCHANGED <<row, now, bounds>>

\* Fault: the plan's foreign key does not cascade.
DeleteUserAlone(p) ==
    /\ job[p].at = "delete"
    /\ row' = IF Own(p) THEN NULL ELSE row
    /\ Done(p)
    /\ UNCHANGED <<plan, now, bounds>>

\* DeleteUser and DeleteUsersByIDs: plan and logs go with the row.
DeleteUser(p) ==
    /\ job[p].at = "delete"
    /\ row' = IF Own(p) THEN NULL ELSE row
    /\ plan' = IF Own(p) THEN NULL ELSE plan
    /\ Done(p)
    /\ UNCHANGED <<now, bounds>>

\* Fault: a reset leaves the status alone.
ResetKeepsStatus(old) == old.status

\* Fault: a reset makes the account active, whatever it was.
ResetToActive(old) == "active"

\* handleResetUserDataUsage reactivates unless the account, as it was when
\* the handler read it, is expired or disabled.
ResetStatus(old) == IF old.status \in {"expired", "disabled"} THEN old.status ELSE "active"

\* ResetUserTraffic.
ResetUserTraffic(p) ==
    /\ job[p].at = "reset"
    /\ IF Own(p)
         THEN /\ row' = [row EXCEPT !.used = 0, !.status = ResetStatus(job[p].row)]
              /\ Goto(p, "dropPlan")
         ELSE Done(p) /\ UNCHANGED row
    /\ UNCHANGED <<plan, now, bounds>>

\* ResetUsersUsageByIDs: the status is judged in the statement itself.
ResetUsersUsageByIDs(p) ==
    /\ job[p].at = "zero"
    /\ row' = IF Own(p)
                THEN [row EXCEPT !.used = 0,
                        !.status = IF @ \in {"on_hold", "expired", "disabled"} THEN @ ELSE "active"]
                ELSE row
    /\ Goto(p, "wipe")
    /\ UNCHANGED <<plan, now, bounds>>

\* DeleteUserUsageLogsByUserIDs; the logs are not part of the model.
DeleteUserUsageLogs(p) ==
    /\ job[p].at = "wipe"
    /\ Goto(p, "dropPlan")
    /\ UNCHANGED <<userVars, now, bounds>>

\* Fault: the claim of the grant is not part of the statement.
UnclaimedAlways(p) == Own(p)

\* ApplyEmergencyRecharge's WHERE.
Unclaimed(p) == Own(p) /\ ~ row.emergency

\* ApplyEmergencyRecharge.
ApplyEmergencyRecharge(p) ==
    /\ job[p].at = "grant"
    /\ LET expire == IF row.expire # NULL /\ row.expire > 0
                       THEN (IF row.expire > now THEN row.expire ELSE now) + EmergencyTime
                       ELSE row.expire
       IN IF Unclaimed(p) /\ Fits(expire)
            THEN row' = [row EXCEPT
                    !.emergency = TRUE, !.status = "active", !.expire = expire,
                    !.limit = IF @ # NULL /\ @ > 0 THEN @ + EmergencyData ELSE @]
            ELSE UNCHANGED row
    /\ Done(p)
    /\ UNCHANGED <<plan, now, bounds>>

\* DisableActiveUsersByAdminID and ActivateDisabledUsersByAdminID.
SwitchUsers(p) ==
    /\ job[p].at \in {"disable", "activateAll"}
    /\ row' = CASE row = NULL -> row
                [] job[p].at = "disable" /\ row # NULL /\ row.status \in {"active", "on_hold"} ->
                        [row EXCEPT !.status = "disabled"]
                [] job[p].at = "activateAll" /\ row # NULL /\ row.status = "disabled" ->
                        [row EXCEPT !.status = "active"]
                [] OTHER -> row
    /\ Done(p)
    /\ UNCHANGED <<plan, now, bounds>>

-----------------------------------------------------------------------------
(***************************************************************************)
(* Firing the next plan: handleActivateNextPlan, and fireNextPlan of the   *)
(* review loop.                                                            *)
(***************************************************************************)

\* The loop's condition for firing the plan of a row it listed at time t.
Fires(r, t) == plan.either \/ (Limited(r) /\ Expired(r, t))

\* GetNextPlanByUserID.
ReadPlan(p) ==
    /\ job[p].at = "readPlan"
    /\ LET has == Own(p) /\ plan # NULL
       IN CASE p # Review -> IF has THEN Goto(p, "log") ELSE Done(p)
            [] p = Review -> Goto(p, IF has /\ Fires(job[p].row, job[p].now) THEN "log" ELSE "flip")
    /\ UNCHANGED <<userVars, now, bounds>>

\* CreateUserUsageLog with the usage that the caller read (it needs the user),
\* for a reset or for a plan.  Clearing node_user_usages changes nothing here.
CreateUserUsageLog(p) ==
    /\ job[p].at = "log"
    /\ IF Own(p)
         THEN Goto(p, IF p # Review /\ job[p].req.call = "reset" THEN "reset" ELSE "apply")
         ELSE Done(p)
    /\ UNCHANGED <<userVars, now, bounds>>

\* ResetUserByNextPlan's data_limit: NULL stays NULL.
PlannedLimit == IF plan.drop THEN plan.limit
                ELSE IF row.limit = NULL THEN NULL
                ELSE plan.limit + (row.limit - row.used)

\* ResetUserByNextPlan, which fails without a plan or when the expiry does not
\* fit its column.
ResetUserByNextPlan(p) ==
    /\ job[p].at = "apply"
    /\ IF Own(p) /\ plan # NULL /\ Fits(now + plan.expire)
         THEN /\ row' = [row EXCEPT !.status = "active", !.limit = PlannedLimit,
                                    !.expire = now + plan.expire, !.used = 0]
              /\ Goto(p, "dropPlan")
         ELSE Done(p) /\ UNCHANGED row
    /\ UNCHANGED <<plan, now, bounds>>

\* DeleteNextPlanByUserID: the last statement of a reset, and of a plan.
DeleteNextPlan(p) ==
    /\ job[p].at = "dropPlan"
    /\ plan' = IF Own(p) THEN NULL ELSE plan
    /\ IF p = Review THEN Goto(p, "holds") ELSE Done(p)
    /\ UNCHANGED <<row, now, bounds>>

-----------------------------------------------------------------------------
(***************************************************************************)
(* One tick of the review loop: reviewActiveUsers, then reviewOnHoldUsers. *)
(***************************************************************************)

GetUsersNeedingStatusReview ==
    /\ CanBegin(Review)
    /\ job' = [job EXCEPT ![Review] =
            IF row # NULL /\ NeedsStatusReview(row, now)
              THEN [at |-> "readPlan", id |-> row.id, row |-> row, now |-> now, req |-> NULL]
              ELSE [Idle EXCEPT !.at = "holds", !.now = now]]
    /\ UNCHANGED <<userVars, now, bounds>>

\* UpdateUserStatusOnly, which asks nothing of the row.
UpdateUserStatusOnly ==
    /\ job[Review].at = "flip"
    /\ row' = IF Own(Review)
                THEN [row EXCEPT !.status = IF Limited(job[Review].row) THEN "limited" ELSE "expired"]
                ELSE row
    /\ Goto(Review, "holds")
    /\ UNCHANGED <<plan, now, bounds>>

GetOnHoldUsers ==
    /\ job[Review].at = "holds"
    /\ IF row # NULL /\ EndsHold(row, job[Review].now)
         THEN job' = [job EXCEPT ![Review].at = "start", ![Review].id = row.id, ![Review].row = row]
         ELSE Done(Review)
    /\ UNCHANGED <<userVars, now, bounds>>

\* ActivateOnHoldUser starts the account's time, or leaves it without an end
\* when the row has no duration (any more).
ActivateOnHoldUser ==
    /\ job[Review].at = "start"
    /\ LET expire == IF row.hold = NULL THEN NULL ELSE now + row.hold
       IN row' = IF Own(Review) /\ Fits(expire)
                   THEN [row EXCEPT !.status = "active", !.expire = expire,
                                    !.hold = NULL, !.timeout = NULL]
                   ELSE row
    /\ Done(Review)
    /\ UNCHANGED <<plan, now, bounds>>

-----------------------------------------------------------------------------
(***************************************************************************)
(* Nodes, clock and faults.                                                *)
(***************************************************************************)

\* BulkIncrementUserUsage.
IncrementUserUsage ==
    /\ row # NULL /\ traffic < MaxTraffic
    /\ row' = [row EXCEPT !.used = @ + 1, !.online = now]
    /\ traffic' = traffic + 1
    /\ UNCHANGED <<plan, now, users, calls, faults, job>>

ClockTick ==
    /\ now < MaxTime
    /\ now' = now + 1
    /\ UNCHANGED <<userVars, bounds, job>>

\* A caller stops between two statements.
Stop(p) ==
    /\ job[p].at # "idle" /\ faults < MaxFaults
    /\ faults' = faults + 1
    /\ Done(p)
    /\ UNCHANGED <<userVars, now, traffic, users, calls>>

\* The statements of a caller that has begun.
Continue(p) ==
    \/ UpdateUserCore(p) \/ SetPlan(p) \/ DeleteUser(p)
    \/ ResetUserTraffic(p) \/ ResetUsersUsageByIDs(p) \/ DeleteUserUsageLogs(p)
    \/ ApplyEmergencyRecharge(p) \/ SwitchUsers(p)
    \/ ReadPlan(p) \/ CreateUserUsageLog(p) \/ ResetUserByNextPlan(p) \/ DeleteNextPlan(p)

ReviewTick ==
    GetUsersNeedingStatusReview \/ UpdateUserStatusOnly \/ GetOnHoldUsers \/ ActivateOnHoldUser

Next ==
    \/ \E p \in Admins, r \in Requests : CreateUser(p, r) \/ LoadUser(p, r)
    \/ \E p \in Actors : Continue(p) \/ Stop(p)
    \/ ReviewTick
    \/ IncrementUserUsage
    \/ ClockTick

Spec == Init /\ [][Next]_vars

\* The loop's ticker and goroutine run on, and a handler that has begun ends.
FairSpec ==
    /\ Spec
    /\ WF_vars(ReviewTick \/ Continue(Review))
    /\ \A p \in Admins : WF_vars(Continue(p))

-----------------------------------------------------------------------------
(***************************************************************************)
(* Properties.                                                             *)
(***************************************************************************)

\* The states are well formed: a plan belongs to a user (its foreign key), a
\* user whose expiry is set has one that fits its column, and a caller beyond
\* its first query knows the id of a user that existed.
TypeOK ==
    /\ row = NULL \/ row \in Row
    /\ row # NULL => row.id = users /\ Fits(row.expire)
    /\ plan = NULL \/ (row # NULL /\ plan \in Plan)
    /\ now \in Nat
    /\ traffic \in 0 .. MaxTraffic /\ users \in 0 .. MaxUsers
    /\ calls \in 0 .. MaxCalls /\ faults \in 0 .. MaxFaults
    /\ \A p \in Actors :
          /\ job[p].row = NULL \/ job[p].row \in Row
          /\ job[p].id \in 0 .. users
          /\ job[p].at \notin {"idle", "holds"} => job[p].id > 0

\* Callers one after another: whoever is shown as out of data has used up a
\* limit that is set, and whoever is shown as expired has an expiry in the
\* past, after any sequence of edits, resets, plans, grants and ticks.
Justified ==
    row # NULL =>
        /\ row.status = "limited" => Limited(row)
        /\ row.status = "expired" => Expired(row, now)

\* Callers one after another: an account that was switched off comes back only
\* because an admin asked for it: by an edit that sets another status, by
\* activating all users or by firing its plan.
DisabledStays ==
    [][row # NULL /\ row' # NULL /\ row.status = "disabled" /\ row'.status # "disabled" =>
        \E p \in Admins :
            \/ job[p].at \in {"activateAll", "apply"}
            \/ job[p].at = "write" /\ job[p].req.status \notin {NULL, "disabled"}]_vars

\* A caller that read one account never writes to another that was created
\* under the same name after the first was deleted.
OwnUserOnly ==
    [][\A p \in Actors :
        /\ job'[p] # job[p]
        /\ job[p].at \notin {"idle", "holds", "disable", "activateAll"}
        /\ row # NULL /\ row.id # job[p].id
        => row' = row /\ plan' = plan]_vars

\* An account gets one emergency grant in its life, however many requests for
\* it are handled at once.
EmergencyOnce ==
    [][\A p \in Admins :
        job[p].at = "grant" /\ job'[p] # job[p] /\ row # NULL /\ row.emergency => row' = row]_vars

\* What a caller read may be stale; it never makes the caller write to another
\* account, or grant a second time (user.go, subscription_emergency.go).
StaleCallersAreHarmless == OwnUserOnly /\ EmergencyOnce

\* However edits, resets, plans, grants and ticks interleave, no account stays
\* active beyond its limit or its expiry: the review loop "flips a user
\* active->limited/expired when they cross their data_limit/expire".
Enforced ==
    []<>(row = NULL \/ row.status # "active" \/ ~ (Limited(row) \/ Expired(row, now)))

\* A hold ends once the user was online after the last edit, or its timeout
\* has come.
HoldsEnd ==
    []<>(row = NULL \/ row.status # "on_hold"
         \/ ~ (OnlineSinceEdit(row) \/ TimeoutCame(row, now)))

\* What the reset query says: a reset never un-disables an account.
ResetsKeepDisabled ==
    [][\A p \in Admins :
        job[p].at \in {"reset", "zero"} /\ job'[p].at # job[p].at /\ row # NULL /\ row' # NULL
            /\ row.status = "disabled" => row'.status = "disabled"]_vars

\* Callers one after another leave no status without its reason (user.go, reviewjob.go).
StatusIsSound == TypeOK /\ Justified
=============================================================================
