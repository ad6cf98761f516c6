--------------------------- MODULE Console_proofs ---------------------------
(***************************************************************************)
(* Proofs about a user's account under its callers (UserLifecycle), about  *)
(* the Telegram updates that reach the console (TelegramPoller) and about  *)
(* the console's chat (TelegramConsole).                                   *)
(***************************************************************************)
EXTENDS TelegramPoller, TelegramConsole, UserLifecycle, FiniteSetTheorems, TLAPS

-----------------------------------------------------------------------------
(***************************************************************************)
(* The account.                                                            *)
(***************************************************************************)

\* The stages of a request, and those of the review loop.
AdminStages == {"idle", "setPlan", "write", "log", "readPlan", "delete", "grant", "zero", "disable",
                "activateAll", "reset", "wipe", "apply", "dropPlan"}
ReviewStages == {"idle", "readPlan", "log", "apply", "dropPlan", "flip", "holds", "start"}

\* The stages at which a caller goes by the row it read and has not written it.
Reads == {"write", "readPlan", "log", "reset", "apply", "flip", "grant", "start"}

Jobs == [at : AdminStages \cup ReviewStages, id : Nat, row : Maybe(Row), now : Nat, req : Maybe(Requests)]

\* A caller is at a stage of its own, and has there what the stage works on.
JobOK(p, j, n) ==
  /\ j.id <= n
  /\ j.at \notin {"idle", "holds"} => j.id > 0
  /\ p = Review => j.at \in ReviewStages
  /\ p # Review => j.at \in AdminStages /\ (j.at # "idle" => j.req \in Requests)
  /\ j.at \in Reads => j.row \in Row /\ Fits(j.row.expire)
  /\ j.at = "write" => ValidBody(j.req)

RowOK(r, n) == r = NULL \/ (r \in Row /\ r.id = n /\ Fits(r.expire))

LifeShape ==
  /\ RowOK(row, users)
  /\ plan = NULL \/ (row # NULL /\ plan \in Plan)
  /\ now \in Nat
  /\ traffic \in 0 .. MaxTraffic /\ users \in 0 .. MaxUsers
  /\ calls \in 0 .. MaxCalls /\ faults \in 0 .. MaxFaults
  /\ job \in [Actors -> Jobs] /\ \A p \in Actors : JobOK(p, job[p], users)

\* The row a caller goes by is the account's, but for the traffic since.
Reading(p, j, r, t) ==
  j.at \in Reads =>
    /\ r # NULL /\ r.id = j.id
    /\ r.status = j.row.status /\ r.limit = j.row.limit /\ r.expire = j.row.expire
    /\ r.used >= j.row.used
    /\ p = Review /\ j.at # "start" => NeedsStatusReview(j.row, j.now) /\ j.now <= t
    /\ j.at = "start" => j.row.status = "on_hold"
    /\ j.at = "grant" => j.row.status \in {"limited", "expired"}

\* One caller at a time.
Serial == \A p, q \in Actors : job[p].at # "idle" /\ job[q].at # "idle" => p = q

LifeInv ==
  /\ LifeShape
  /\ Overlap \/ (Serial /\ Justified /\ \A p \in Actors : Reading(p, job[p], row, now))

\* A caller moves to a job, and the others stay where they are.
LEMMA JobMove ==
  ASSUME LifeShape, NEW p \in Actors, NEW j \in Jobs, users' \in Nat, users <= users', JobOK(p, j, users'),
         job' = [job EXCEPT ![p] = j]
  PROVE  /\ job' \in [Actors -> Jobs] /\ \A q \in Actors : JobOK(q, job'[q], users')
         /\ job'[p] = j /\ \A q \in Actors \ {p} : job'[q] = job[q]
  <1>1. /\ job' \in [Actors -> Jobs] /\ job'[p] = j /\ \A q \in Actors \ {p} : job'[q] = job[q]
    BY DEF LifeShape
  <1>2. \A q \in Actors \ {p} : JobOK(q, job[q], users')
    <2> SUFFICES ASSUME NEW q \in Actors \ {p} PROVE JobOK(q, job[q], users')
      OBVIOUS
    <2>1. JobOK(q, job[q], users) /\ job[q].id \in Nat /\ users \in Nat
      BY DEF LifeShape, Jobs
    <2> QED BY <2>1 DEF JobOK
  <1> QED BY <1>1, <1>2

\* The fields of a job.
LEMMA JobFields ==
  ASSUME LifeShape, NEW p \in Actors
  PROVE  /\ job[p] \in Jobs /\ JobOK(p, job[p], users) /\ job[p].id \in Nat /\ job[p].now \in Nat
         /\ job[p].row \in Maybe(Row) /\ job[p].req \in Maybe(Requests)
         /\ job[p].at \in AdminStages \cup ReviewStages
  <1>1. job[p] \in Jobs /\ JobOK(p, job[p], users)
    BY DEF LifeShape
  <1> QED BY <1>1 DEF Jobs

\* A caller that is over holds nothing.
LEMMA JobIdle ==
  /\ Idle \in Jobs /\ Idle.at = "idle" /\ Idle.id = 0 /\ Idle.now = 0
  /\ \A p, n : n \in Nat => JobOK(p, Idle, n)
  <1>1. Idle \in Jobs /\ Idle.at = "idle" /\ Idle.id = 0 /\ Idle.now = 0
    BY DEF Idle, Jobs, Maybe, AdminStages
  <1> QED BY <1>1 DEF JobOK, Reads, ReviewStages, AdminStages

\* A caller that moves to its next statement keeps what it read.
LEMMA JobAt ==
  ASSUME NEW j \in Jobs, NEW at \in AdminStages \cup ReviewStages, NEW k, k = [j EXCEPT !.at = at]
  PROVE  k \in Jobs /\ k.at = at /\ k.id = j.id /\ k.row = j.row /\ k.now = j.now /\ k.req = j.req
  BY DEF Jobs

\* A step of one caller that keeps what it goes by.
LEMMA ActorMoves ==
  ASSUME LifeInv, LifeShape', NEW p \in Actors, job[p].at # "idle" \/ CanBegin(p),
         \A q \in Actors \ {p} : job'[q] = job[q],
         ~Overlap => Reading(p, job'[p], row', now') /\ Justified'
  PROVE  LifeInv'
  <1>1. CASE Overlap
    BY <1>1 DEF LifeInv
  <1>2. CASE ~Overlap
    <2>1. \A q \in Actors \ {p} : job[q].at = "idle"
      BY <1>2 DEF LifeInv, Serial, CanBegin
    <2>2. \A q \in Actors \ {p} : Reading(q, job'[q], row', now')
      BY <2>1 DEF Reading, Reads
    <2>3. Serial'
      BY <2>1 DEF Serial
    <2>4. \A q \in Actors : Reading(q, job'[q], row', now')
      BY <1>2, <2>2
    <2> QED BY <1>2, <2>3, <2>4 DEF LifeInv
  <1> QED BY <1>1, <1>2 DEF ConstantsAssumption

\* A step of a caller that writes nothing.
LEMMA JobOnly ==
  ASSUME LifeInv, NEW p \in Actors, job[p].at # "idle" \/ CanBegin(p),
         NEW j \in Jobs, JobOK(p, j, users), job' = [job EXCEPT ![p] = j],
         UNCHANGED <<row, plan, now, traffic, users>>,
         calls' \in 0 .. MaxCalls, faults' \in 0 .. MaxFaults,
         ~Overlap => Reading(p, j, row, now)
  PROVE  LifeInv'
  <1>0. LifeShape /\ users \in Nat
    BY DEF LifeInv, LifeShape
  <1>1. /\ job' \in [Actors -> Jobs] /\ \A q \in Actors : JobOK(q, job'[q], users')
        /\ job'[p] = j /\ \A q \in Actors \ {p} : job'[q] = job[q]
    <2>1. users' \in Nat /\ users <= users' /\ JobOK(p, j, users')
      BY <1>0
    <2> QED BY <1>0, <2>1, JobMove
  <1>2. LifeShape'
    BY <1>0, <1>1 DEF LifeShape
  <1>3. ~Overlap => Justified'
    BY DEF LifeInv, Justified
  <1> QED BY <1>1, <1>2, <1>3, ActorMoves

\* A caller goes to a stage where it still reads only if it was at one.
LEMMA GotoOnly ==
  ASSUME LifeInv, NEW p \in Actors, job[p].at # "idle", NEW at \in AdminStages \cup ReviewStages, at # "idle",
         IF p = Review THEN at \in ReviewStages ELSE at \in AdminStages,
         job[p].id > 0 \/ at = "holds",
         at \in Reads => job[p].at \in Reads \ {"start"} /\ at \notin {"start", "grant", "write"},
         Goto(p, at), UNCHANGED <<row, plan, now, traffic, users, calls, faults>>
  PROVE  LifeInv'
  <1>0. LifeShape
    BY DEF LifeInv
  <1>1. PICK k : k = [job[p] EXCEPT !.at = at]
    OBVIOUS
  <1>2. job' = [job EXCEPT ![p] = k]
    BY <1>0, <1>1, Zenon DEF Goto
  <1>3. k \in Jobs /\ k.at = at /\ k.id = job[p].id /\ k.row = job[p].row /\ k.now = job[p].now /\ k.req = job[p].req
    <2>1. job[p] \in Jobs
      BY <1>0, JobFields
    <2> QED BY <1>1, <2>1, JobAt
  <1>4. JobOK(p, k, users)
    <2>1. JobOK(p, job[p], users)
      BY <1>0, JobFields
    <2> QED BY <1>3, <2>1 DEF JobOK, Reads
  <1>5. ~Overlap => Reading(p, k, row, now)
    <2> SUFFICES ASSUME ~Overlap, at \in Reads PROVE Reading(p, k, row, now)
      BY <1>3 DEF Reading
    <2>1. Reading(p, job[p], row, now)
      BY DEF LifeInv
    <2> QED BY <1>3, <2>1 DEF Reading
  <1>6. calls' \in 0 .. MaxCalls /\ faults' \in 0 .. MaxFaults
    BY <1>0 DEF LifeShape
  <1> QED BY <1>2, <1>3, <1>4, <1>5, <1>6, JobOnly

\* A caller ends, by itself or for a fault.
LEMMA EndOnly ==
  ASSUME LifeInv, NEW p \in Actors, job[p].at # "idle", Done(p),
         UNCHANGED <<row, plan, now, traffic, users, calls>>, faults' \in 0 .. MaxFaults
  PROVE  LifeInv'
  <1>1. users \in Nat /\ calls' \in 0 .. MaxCalls
    BY DEF LifeInv, LifeShape
  <1>2. JobOK(p, Idle, users) /\ Idle \in Jobs /\ job' = [job EXCEPT ![p] = Idle]
    BY <1>1, JobIdle DEF Done
  <1>3. Reading(p, Idle, row, now)
    BY JobIdle DEF Reading, Reads
  <1> QED BY <1>1, <1>2, <1>3, JobOnly

\* The statements that read, and a caller that stops.
LEMMA StopStep ==
  ASSUME LifeInv, NEW p \in Actors, Stop(p)
  PROVE  LifeInv'
  <1>1. faults' \in 0 .. MaxFaults
    <2>1. faults \in 0 .. MaxFaults /\ faults < MaxFaults /\ faults' = faults + 1
      BY DEF LifeInv, LifeShape, Stop
    <2>2. MaxFaults \in Nat
      BY ConstantsAssumption
    <2> QED BY <2>1, <2>2
  <1> QED BY <1>1, EndOnly DEF Stop, userVars

\* The statements that write neither the row nor the plan.
LEMMA ReadingStatements ==
  ASSUME LifeInv, NEW p \in Actors, DeleteUserUsageLogs(p) \/ ReadPlan(p) \/ CreateUserUsageLog(p)
  PROVE  LifeInv'
  <1>0. LifeShape /\ faults \in 0 .. MaxFaults
    BY DEF LifeInv, LifeShape
  <1>1. /\ UNCHANGED <<row, plan, now, traffic, users, calls, faults>>
        /\ job[p].at \in {"wipe", "readPlan", "log"}
    BY DEF DeleteUserUsageLogs, ReadPlan, CreateUserUsageLog, userVars, bounds
  <1>2. job[p].id > 0 /\ job[p].at # "idle" /\ (job[p].at = "wipe" => p # Review)
    BY <1>0, <1>1, JobFields DEF JobOK, ReviewStages
  <1>3. CASE Done(p)
    BY <1>0, <1>1, <1>2, <1>3, EndOnly
  <1>4. CASE DeleteUserUsageLogs(p)
    BY <1>1, <1>2, <1>4, GotoOnly DEF DeleteUserUsageLogs, AdminStages, Reads
  <1>5. CASE ReadPlan(p) /\ p # Review /\ Goto(p, "log")
    BY <1>1, <1>2, <1>5, GotoOnly DEF ReadPlan, AdminStages, Reads
  <1>6. ASSUME ReadPlan(p), p = Review, NEW at \in {"log", "flip"}, Goto(p, at) PROVE LifeInv'
    BY <1>1, <1>2, <1>6, GotoOnly DEF ReadPlan, ReviewStages, Reads
  <1>7. CASE CreateUserUsageLog(p) /\ p # Review /\ Goto(p, "reset")
    BY <1>1, <1>2, <1>7, GotoOnly DEF CreateUserUsageLog, AdminStages, Reads
  <1>8. CASE CreateUserUsageLog(p) /\ Goto(p, "apply")
    BY <1>1, <1>2, <1>8, GotoOnly DEF CreateUserUsageLog, AdminStages, ReviewStages, Reads
  <1>9. ReadPlan(p) => \/ Done(p) \/ (p # Review /\ Goto(p, "log"))
                       \/ (p = Review /\ \E at \in {"log", "flip"} : Goto(p, at))
    <2>1. CASE p = Review
      BY <2>1 DEF ReadPlan
    <2>2. CASE p # Review
      BY <2>2 DEF ReadPlan
    <2> QED BY <2>1, <2>2
  <1>10. CreateUserUsageLog(p) => \/ Done(p) \/ (p # Review /\ Goto(p, "reset")) \/ Goto(p, "apply")
    BY DEF CreateUserUsageLog
  <1> QED BY <1>3, <1>4, <1>5, <1>6, <1>7, <1>8, <1>9, <1>10

\* A request reads the row.
LEMMA LoadUserStep ==
  ASSUME LifeInv, NEW p \in Admins, NEW r \in Requests, LoadUser(p, r)
  PROVE  LifeInv'
  <1>0. /\ LifeShape /\ row # NULL /\ row \in Row /\ row.id = users /\ Fits(row.expire) /\ users \in Nat /\ now \in Nat
        /\ users > 0 /\ faults \in 0 .. MaxFaults /\ calls' \in 0 .. MaxCalls
        /\ p \in Actors /\ p # Review /\ CanBegin(p) /\ r \in Request
    <2>1. LifeShape /\ row # NULL /\ calls < MaxCalls /\ calls' = calls + 1 /\ CanBegin(p)
      BY DEF LifeInv, LoadUser
    <2>2. row \in Row /\ row.id = users /\ Fits(row.expire) /\ users \in Nat /\ now \in Nat /\ faults \in 0 .. MaxFaults
          /\ calls \in 0 .. MaxCalls
      BY <2>1 DEF LifeShape, RowOK
    <2>3. users > 0
      BY <2>2 DEF Row
    <2>4. calls' \in 0 .. MaxCalls
      BY <2>1, <2>2, ConstantsAssumption
    <2> QED BY <2>1, <2>2, <2>3, <2>4, ConstantsAssumption DEF Actors
  <1>1. PICK at : at = FirstStatement[r.call]
    OBVIOUS
  <1>2. /\ at \in {"write", "log", "readPlan", "delete", "grant", "zero", "disable", "activateAll"}
        /\ at = "write" => ValidBody(r)
        /\ at = "grant" => row.status \in {"limited", "expired"}
    <2>1. r.call \in {"modify", "reset", "next", "delete", "deleteExpired", "emergency", "resetAll", "disableAll", "activateAll"}
      BY <1>0 DEF LoadUser, Request
    <2>2. /\ at \in {"write", "log", "readPlan", "delete", "grant", "zero", "disable", "activateAll"}
          /\ at = "write" => r.call = "modify"
          /\ at = "grant" => r.call = "emergency"
      BY <1>1, <2>1 DEF FirstStatement
    <2>3. r.call = "modify" => ValidBody(r)
      BY DEF LoadUser, Eligible
    <2>4. r.call = "emergency" => row.status \in {"limited", "expired"}
      BY DEF LoadUser, Eligible
    <2> QED BY <2>2, <2>3, <2>4
  <1>3. PICK j : j = [at |-> at, id |-> row.id, row |-> row, now |-> 0, req |-> r]
    OBVIOUS
  <1>4. j \in Jobs /\ j.at = at /\ j.id = row.id /\ j.row = row /\ j.now = 0 /\ j.req = r
    BY <1>0, <1>2, <1>3 DEF Jobs, AdminStages, Maybe
  <1>5. job' = [job EXCEPT ![p] = j] /\ UNCHANGED <<row, plan, now, traffic, users, faults>>
    BY <1>1, <1>3 DEF LoadUser, userVars
  <1>6. JobOK(p, j, users)
    BY <1>0, <1>2, <1>4 DEF JobOK, AdminStages
  <1>7. Reading(p, j, row, now)
    <2>1. row.used >= row.used
      BY <1>0 DEF Row
    <2> QED BY <1>0, <1>2, <1>4, <2>1 DEF Reading
  <1> QED BY <1>0, <1>4, <1>5, <1>6, <1>7, JobOnly

\* A statement that writes, after which its caller goes by no row it read.
LEMMA WriteMoves ==
  ASSUME LifeInv, NEW p \in Actors, job[p].at # "idle",
         NEW at \in {"setPlan", "dropPlan", "wipe", "holds"},
         p = Review => at \in {"dropPlan", "holds"}, p # Review => at # "holds",
         Done(p) \/ (Goto(p, at) /\ job[p].id > 0),
         RowOK(row', users), plan' = NULL \/ (row' # NULL /\ plan' \in Plan),
         UNCHANGED <<now, traffic, users, calls, faults>>,
         ~Overlap => Justified'
  PROVE  LifeInv'
  <1>0. LifeShape /\ users \in Nat
    BY DEF LifeInv, LifeShape
  <1>1. PICK j \in Jobs : job' = [job EXCEPT ![p] = j] /\ JobOK(p, j, users) /\ j.at \notin Reads
    <2>1. CASE Done(p)
      <3>1. Idle \in Jobs /\ JobOK(p, Idle, users) /\ Idle.at \notin Reads
        BY <1>0, JobIdle DEF Reads
      <3> QED BY <2>1, <3>1 DEF Done
    <2>2. CASE Goto(p, at) /\ job[p].id > 0
      <3>1. PICK k : k = [job[p] EXCEPT !.at = at]
        OBVIOUS
      <3>2. job' = [job EXCEPT ![p] = k]
        BY <2>2, <3>1, Zenon DEF Goto
      <3>3. job[p] \in Jobs /\ JobOK(p, job[p], users) /\ at \in AdminStages \cup ReviewStages
        BY <1>0, JobFields DEF AdminStages, ReviewStages
      <3>4. k \in Jobs /\ k.at = at /\ k.id = job[p].id /\ k.row = job[p].row /\ k.req = job[p].req
        BY <3>1, <3>3, JobAt
      <3>5. JobOK(p, k, users) /\ k.at \notin Reads
        BY <2>2, <3>3, <3>4 DEF JobOK, Reads, AdminStages, ReviewStages
      <3> QED BY <3>2, <3>4, <3>5
    <2> QED BY <2>1, <2>2
  <1>2. /\ job' \in [Actors -> Jobs] /\ \A q \in Actors : JobOK(q, job'[q], users')
        /\ job'[p] = j /\ \A q \in Actors \ {p} : job'[q] = job[q]
    <2>1. users' \in Nat /\ users <= users' /\ JobOK(p, j, users')
      BY <1>0, <1>1
    <2> QED BY <1>0, <1>1, <2>1, JobMove
  <1>3. LifeShape'
    BY <1>0, <1>2 DEF LifeShape
  <1>4. Reading(p, job'[p], row', now')
    BY <1>1, <1>2 DEF Reading
  <1> QED BY <1>2, <1>3, <1>4, ActorMoves

\* The fields of a row.
LEMMA RowFields ==
  ASSUME NEW r \in Row
  PROVE  /\ r.id \in 1 .. MaxUsers /\ r.status \in Statuses /\ r.limit \in Maybe(Int) /\ r.used \in Nat
         /\ r.expire \in Maybe(Nat) /\ r.hold \in Maybe(Nat) /\ r.timeout \in Maybe(Nat)
         /\ r.edit \in Nat /\ r.online \in Maybe(Nat) /\ r.emergency \in BOOLEAN
  BY DEF Row

\* The fields of a request, and of the body it is normalised to.
LEMMA BodyFields ==
  ASSUME NEW r \in Request
  PROVE  /\ r.status \in Maybe({"active", "on_hold", "disabled"})
         /\ r.limit \in Maybe(Nat) /\ r.expire \in Maybe(Nat) /\ r.hold \in Maybe(Nat)
         /\ r.timeout \in Maybe(Nat) /\ r.plan \in Maybe(Plan)
         /\ Body(r).limit = (IF r.limit = 0 THEN NULL ELSE r.limit) /\ Body(r).limit \in Maybe(Nat)
         /\ Body(r).expire = (IF r.expire = 0 THEN NULL ELSE r.expire) /\ Body(r).expire \in Maybe(Nat)
         /\ Body(r).hold \in Maybe(Nat) /\ Body(r).timeout = r.timeout
  <1>1. /\ r.status \in Maybe({"active", "on_hold", "disabled"})
        /\ r.limit \in Maybe(Nat) /\ r.expire \in Maybe(Nat) /\ r.hold \in Maybe(Nat)
        /\ r.timeout \in Maybe(Nat) /\ r.plan \in Maybe(Plan)
    BY DEF Request
  <1>2. /\ Body(r).limit = NormalizeZero(r.limit) /\ Body(r).expire = NormalizeZero(r.expire)
        /\ Body(r).hold = NormalizeZero(r.hold) /\ Body(r).timeout = r.timeout
    BY DEF Body
  <1>3. \A v \in Maybe(Nat) : NormalizeZero(v) \in Maybe(Nat)
    BY DEF NormalizeZero, Maybe
  <1> QED BY <1>1, <1>2, <1>3 DEF NormalizeZero

\* The status that an edit gives an account has its reason.
LEMMA ModifiedFacts ==
  ASSUME NEW old \in Row, NEW r \in Request, now \in Nat
  PROVE  /\ ModifiedStatus(old, r) \in Statuses
         /\ ModifiedStatus(old, r) = "limited" =>
              \/ r.limit = NULL /\ old.status = "limited"
              \/ r.limit # NULL /\ r.limit # 0 /\ old.used >= r.limit
         /\ ModifiedStatus(old, r) = "expired" =>
              \/ r.expire = NULL /\ old.status = "expired"
              \/ r.expire # NULL /\ r.expire # 0 /\ r.expire <= now
         /\ old.status = "disabled" /\ ModifiedStatus(old, r) # "disabled" => r.status \notin {NULL, "disabled"}
  <1> DEFINE s0 == IF r.status = NULL THEN old.status ELSE r.status
             s1 == CASE r.limit = NULL \/ s0 \in {"expired", "disabled"} -> s0
                     [] OTHER -> IF Body(r).limit = NULL \/ old.used < r.limit
                                   THEN (IF s0 = "on_hold" THEN s0 ELSE "active")
                                   ELSE "limited"
             s2 == CASE r.expire = NULL \/ s1 \notin {"active", "expired"} -> s1
                     [] OTHER -> IF Body(r).expire = NULL \/ r.expire > now THEN "active" ELSE "expired"
  <1>1. ModifiedStatus(old, r) = s2
    BY DEF ModifiedStatus
  <1>2. /\ s0 \in Statuses /\ (s0 = "limited" => old.status = "limited") /\ (s0 = "expired" => old.status = "expired")
        /\ old.status = "disabled" /\ s0 # "disabled" => r.status \notin {NULL, "disabled"}
    BY RowFields, BodyFields DEF Maybe, Statuses
  <1>3. /\ s1 \in Statuses /\ (s0 = "disabled" => s1 = "disabled") /\ (s1 = "expired" => s0 = "expired")
        /\ s1 = "limited" => \/ r.limit = NULL /\ s0 = "limited"
                             \/ r.limit # NULL /\ r.limit # 0 /\ old.used >= r.limit
    <2> HIDE DEF s0
    <2>1. CASE r.limit = NULL \/ s0 \in {"expired", "disabled"}
      <3>1. s1 = s0
        BY <2>1
      <3> QED BY <1>2, <2>1, <3>1
    <2>2. CASE ~(r.limit = NULL \/ s0 \in {"expired", "disabled"})
      <3>1. r.limit \in Nat /\ old.used \in Nat /\ Body(r).limit = (IF r.limit = 0 THEN NULL ELSE r.limit)
        BY <2>2, RowFields, BodyFields DEF Maybe
      <3>2. s1 = IF Body(r).limit = NULL \/ old.used < r.limit THEN (IF s0 = "on_hold" THEN s0 ELSE "active") ELSE "limited"
        BY <2>2
      <3> QED BY <1>2, <2>2, <3>1, <3>2 DEF Statuses
    <2> QED BY <2>1, <2>2
  <1>4. /\ s2 \in Statuses /\ (s1 = "disabled" => s2 = "disabled") /\ (s2 = "limited" => s1 = "limited")
        /\ s2 = "expired" => \/ r.expire = NULL /\ s1 = "expired"
                             \/ r.expire # NULL /\ r.expire # 0 /\ r.expire <= now
    <2> HIDE DEF s1
    <2>1. CASE r.expire = NULL \/ s1 \notin {"active", "expired"}
      <3>1. s2 = s1
        BY <2>1
      <3> QED BY <1>3, <2>1, <3>1
    <2>2. CASE ~(r.expire = NULL \/ s1 \notin {"active", "expired"})
      <3>1. r.expire \in Nat /\ Body(r).expire = (IF r.expire = 0 THEN NULL ELSE r.expire)
        BY <2>2, BodyFields DEF Maybe
      <3>2. s2 = IF Body(r).expire = NULL \/ r.expire > now THEN "active" ELSE "expired"
        BY <2>2
      <3> QED BY <1>3, <2>2, <3>1, <3>2 DEF Statuses
    <2> QED BY <2>1, <2>2
  <1> HIDE DEF s0, s1, s2
  <1> QED BY <1>1, <1>2, <1>3, <1>4

\* What a caller that goes by its row knows of the account.
LEMMA OwnFacts ==
  ASSUME LifeInv, NEW p \in Actors
  PROVE  /\ LifeShape /\ users \in Nat /\ now \in Nat /\ job[p] \in Jobs /\ JobOK(p, job[p], users)
         /\ RowOK(row, users) /\ (row # NULL => row \in Row) /\ (plan = NULL \/ (row # NULL /\ plan \in Plan))
         /\ job[p].at \in Reads => job[p].row \in Row /\ Fits(job[p].row.expire)
         /\ job[p].at \notin {"idle", "holds"} => job[p].id > 0
         /\ ~Overlap => Justified /\ Reading(p, job[p], row, now)
  <1>1. LifeShape /\ users \in Nat /\ now \in Nat /\ RowOK(row, users) /\ (plan = NULL \/ (row # NULL /\ plan \in Plan))
    BY DEF LifeInv, LifeShape
  <1>2. job[p] \in Jobs /\ JobOK(p, job[p], users)
    BY <1>1, JobFields
  <1>3. job[p].at \in Reads => job[p].row \in Row /\ Fits(job[p].row.expire)
    BY <1>2 DEF JobOK
  <1>4. job[p].at \notin {"idle", "holds"} => job[p].id > 0
    BY <1>2 DEF JobOK
  <1>5. ~Overlap => Justified /\ Reading(p, job[p], row, now)
    BY DEF LifeInv
  <1>6. row # NULL => row \in Row
    BY <1>1 DEF RowOK
  <1> QED BY <1>1, <1>2, <1>3, <1>4, <1>5, <1>6

\* An edit writes every field, by the row it read.
LEMMA UpdateUserCoreStep ==
  ASSUME LifeInv, NEW p \in Actors, UpdateUserCore(p)
  PROVE  LifeInv'
  <1> DEFINE old == job[p].row
             r == job[p].req
             Set(given, value, was) == IF given = NULL THEN was ELSE value
  <1>0. job[p].at = "write" /\ UNCHANGED <<plan, now, traffic, users, calls, faults>>
    BY DEF UpdateUserCore, bounds
  <1>1. /\ LifeShape /\ users \in Nat /\ now \in Nat /\ RowOK(row, users) /\ (row # NULL => row \in Row)
        /\ plan = NULL \/ (row # NULL /\ plan \in Plan)
        /\ old \in Row /\ Fits(old.expire) /\ job[p].id > 0 /\ JobOK(p, job[p], users)
        /\ ~Overlap => Justified /\ Reading(p, job[p], row, now)
    BY <1>0, OwnFacts DEF Reads
  <1>2. p # Review /\ r \in Request /\ ValidBody(r)
    BY <1>0, <1>1, ConstantsAssumption DEF JobOK, ReviewStages
  <1>3. CASE Done(p) /\ row' = row
    <2>1. ~Overlap => Justified'
      BY <1>0, <1>1, <1>3 DEF Justified
    <2> QED BY <1>0, <1>1, <1>2, <1>3, <2>1, WriteMoves
  <1>4. CASE Own(p) /\ Goto(p, "setPlan")
             /\ row' = [row EXCEPT
                        !.status = ModifiedStatus(old, r),
                        !.limit = Set(r.limit, Body(r).limit, old.limit),
                        !.expire = Set(r.expire, Body(r).expire, old.expire),
                        !.hold = Set(r.hold, Body(r).hold, old.hold),
                        !.timeout = Set(r.timeout, r.timeout, old.timeout),
                        !.edit = now]
    <2>1. row # NULL /\ row \in Row /\ row.id = users
      BY <1>1, <1>4 DEF Own, RowOK
    <2>2. PICK s, l, e, h, t : /\ s = ModifiedStatus(old, r) /\ l = Set(r.limit, Body(r).limit, old.limit)
                               /\ e = Set(r.expire, Body(r).expire, old.expire) /\ h = Set(r.hold, Body(r).hold, old.hold)
                               /\ t = Set(r.timeout, r.timeout, old.timeout)
      OBVIOUS
    <2>3. s \in Statuses /\ l \in Maybe(Int) /\ e \in Maybe(Nat) /\ h \in Maybe(Nat) /\ t \in Maybe(Nat) /\ Fits(e)
      <3>1. s \in Statuses
        BY <1>1, <1>2, <2>2, ModifiedFacts
      <3>2. l \in Maybe(Int) /\ e \in Maybe(Nat) /\ h \in Maybe(Nat) /\ t \in Maybe(Nat)
        BY <1>1, <1>2, <2>2, RowFields, BodyFields DEF Maybe
      <3>3. Fits(e)
        <4>1. Fits(r.expire) /\ Body(r).expire \in {NULL, r.expire}
          BY <1>2, BodyFields DEF ValidBody
        <4> QED BY <1>1, <2>2, <4>1 DEF Fits
      <3> QED BY <3>1, <3>2, <3>3
    <2>4. PICK v : v = [row EXCEPT !.status = s, !.limit = l, !.expire = e, !.hold = h, !.timeout = t, !.edit = now]
      OBVIOUS
    <2>5. row' = v
      BY <1>4, <2>2, <2>4
    <2>6. v \in Row /\ v.id = row.id /\ v.status = s /\ v.limit = l /\ v.expire = e /\ v.used = row.used
      BY <1>1, <2>1, <2>3, <2>4 DEF Row
    <2>7. RowOK(row', users) /\ (plan' = NULL \/ (row' # NULL /\ plan' \in Plan))
      BY <1>0, <1>1, <2>1, <2>3, <2>5, <2>6, ConstantsAssumption DEF RowOK
    <2>8. ~Overlap => Justified'
      <3> SUFFICES ASSUME ~Overlap PROVE Justified'
        OBVIOUS
      <3>1. /\ row.status = old.status /\ row.limit = old.limit /\ row.expire = old.expire /\ row.used >= old.used
        BY <1>0, <1>1 DEF Reading, Reads
      <3>2. (old.status = "limited" => Limited(row)) /\ (old.status = "expired" => Expired(row, now))
        BY <1>1, <2>1, <3>1 DEF Justified
      <3>3. row.used \in Nat /\ old.used \in Nat
        BY <1>1, <2>1, RowFields
      <3>4. s = "limited" => Limited(v)
        <4>1. CASE r.limit = NULL /\ old.status = "limited"
          BY <2>2, <2>6, <3>1, <3>2, <4>1 DEF Limited
        <4>2. CASE r.limit # NULL /\ r.limit # 0 /\ old.used >= r.limit
          <5>1. r.limit \in Nat /\ l = r.limit
            BY <1>2, <2>2, <4>2, BodyFields DEF Maybe
          <5> QED BY <2>6, <3>1, <3>3, <4>2, <5>1 DEF Limited
        <4> QED BY <1>1, <1>2, <2>2, <4>1, <4>2, ModifiedFacts
      <3>5. s = "expired" => Expired(v, now)
        <4>1. CASE r.expire = NULL /\ old.status = "expired"
          BY <2>2, <2>6, <3>1, <3>2, <4>1 DEF Expired
        <4>2. CASE r.expire # NULL /\ r.expire # 0 /\ r.expire <= now
          <5>1. r.expire \in Nat /\ e = r.expire
            BY <1>2, <2>2, <4>2, BodyFields DEF Maybe
          <5> QED BY <2>6, <4>2, <5>1 DEF Expired
        <4> QED BY <1>1, <1>2, <2>2, <4>1, <4>2, ModifiedFacts
      <3> QED BY <1>0, <2>5, <2>6, <3>4, <3>5 DEF Justified
    <2> QED BY <1>0, <1>1, <1>2, <1>4, <2>7, <2>8, WriteMoves
  <1> QED BY <1>3, <1>4 DEF UpdateUserCore

\* The plan of a body is kept, or the plan goes.
LEMMA PlanStatements ==
  ASSUME LifeInv, NEW p \in Actors, SetPlan(p) \/ DeleteNextPlan(p)
  PROVE  LifeInv'
  <1>0. job[p].at \in {"setPlan", "dropPlan"} /\ UNCHANGED <<row, now, traffic, users, calls, faults>>
    BY DEF SetPlan, DeleteNextPlan, bounds
  <1>1. /\ LifeShape /\ RowOK(row, users) /\ job[p].id > 0 /\ JobOK(p, job[p], users)
        /\ plan = NULL \/ (row # NULL /\ plan \in Plan)
    BY <1>0, OwnFacts
  <1>2. ~Overlap => Justified'
    BY <1>0, OwnFacts DEF Justified
  <1>3. CASE SetPlan(p)
    <2>1. p # Review /\ job[p].req \in Request
      BY <1>1, <1>3, ConstantsAssumption DEF JobOK, ReviewStages, SetPlan
    <2>2. job[p].req.plan \in Maybe(Plan)
      BY <2>1, BodyFields
    <2>3. plan' = NULL \/ (row' # NULL /\ plan' \in Plan)
      BY <1>0, <1>1, <1>3, <2>2 DEF SetPlan, Own, Maybe
    <2> QED BY <1>0, <1>1, <1>2, <1>3, <2>1, <2>3, WriteMoves DEF SetPlan
  <1>4. CASE DeleteNextPlan(p)
    <2>1. plan' = NULL \/ (row' # NULL /\ plan' \in Plan)
      BY <1>0, <1>1, <1>4 DEF DeleteNextPlan
    <2>2. Done(p) \/ (p = Review /\ Goto(p, "holds"))
      BY <1>4 DEF DeleteNextPlan
    <2>3. CASE Done(p)
      <3>1. p = Review => "dropPlan" \in {"dropPlan", "holds"}
        OBVIOUS
      <3>2. p # Review => "dropPlan" # "holds"
        OBVIOUS
      <3> QED BY <1>0, <1>1, <1>2, <2>1, <2>3, <3>1, <3>2, WriteMoves
    <2>4. CASE p = Review /\ Goto(p, "holds")
      BY <1>0, <1>1, <1>2, <2>1, <2>4, WriteMoves
    <2> QED BY <2>2, <2>3, <2>4
  <1> QED BY <1>3, <1>4

\* The account goes, and its plan with it.
LEMMA DeleteUserStep ==
  ASSUME LifeInv, NEW p \in Actors, DeleteUser(p)
  PROVE  LifeInv'
  <1>0. job[p].at = "delete" /\ Done(p) /\ UNCHANGED <<now, traffic, users, calls, faults>>
    BY DEF DeleteUser, bounds
  <1>1. /\ LifeShape /\ RowOK(row, users) /\ JobOK(p, job[p], users)
        /\ plan = NULL \/ (row # NULL /\ plan \in Plan)
    BY <1>0, OwnFacts
  <1>2. \/ row' = NULL /\ plan' = NULL
        \/ row' = row /\ plan' = plan
    BY DEF DeleteUser
  <1>3. RowOK(row', users) /\ (plan' = NULL \/ (row' # NULL /\ plan' \in Plan))
    BY <1>1, <1>2 DEF RowOK
  <1>4. ~Overlap => Justified'
    BY <1>0, <1>2, OwnFacts DEF Justified
  <1>5. p # Review
    BY <1>0, <1>1 DEF JobOK, ReviewStages
  <1> QED BY <1>0, <1>3, <1>4, <1>5, WriteMoves

\* A reset empties the count and judges the status by the row it read, or by the row.
LEMMA ResetSteps ==
  ASSUME LifeInv, NEW p \in Actors, ResetUserTraffic(p) \/ ResetUsersUsageByIDs(p)
  PROVE  LifeInv'
  <1>0. job[p].at \in {"reset", "zero"} /\ UNCHANGED <<plan, now, traffic, users, calls, faults>>
    BY DEF ResetUserTraffic, ResetUsersUsageByIDs, bounds
  <1>1. /\ LifeShape /\ RowOK(row, users) /\ JobOK(p, job[p], users) /\ job[p].id > 0 /\ (row # NULL => row \in Row)
        /\ plan = NULL \/ (row # NULL /\ plan \in Plan)
        /\ job[p].at = "reset" => job[p].row \in Row
        /\ ~Overlap => Justified /\ Reading(p, job[p], row, now)
    BY <1>0, OwnFacts DEF Reads
  <1>2. p # Review
    BY <1>0, <1>1 DEF JobOK, ReviewStages
  <1>3. \/ row' = row
        \/ \E s \in Statuses : /\ row # NULL /\ row' = [row EXCEPT !.used = 0, !.status = s]
                               /\ s # "limited" /\ (~Overlap /\ s = "expired" => row.status = "expired")
    <2>1. CASE ResetUserTraffic(p)
      <3>1. job[p].row.status \in Statuses
        BY <1>1, <2>1, RowFields DEF ResetUserTraffic
      <3>2. ~Overlap => row.status = job[p].row.status
        BY <1>1, <2>1 DEF Reading, Reads, ResetUserTraffic
      <3>3. PICK s : s = ResetStatus(job[p].row)
        OBVIOUS
      <3>4. s \in Statuses /\ s # "limited" /\ (~Overlap /\ s = "expired" => row.status = "expired")
        BY <3>1, <3>2, <3>3 DEF ResetStatus, Statuses
      <3>5. row' = row \/ (row # NULL /\ row' = [row EXCEPT !.used = 0, !.status = s])
        BY <2>1, <3>3 DEF ResetUserTraffic, Own
      <3> QED BY <3>4, <3>5
    <2>2. CASE ResetUsersUsageByIDs(p) /\ row' # row
      <3>1. PICK s : s = IF row.status \in {"on_hold", "expired", "disabled"} THEN row.status ELSE "active"
        OBVIOUS
      <3>2. row # NULL /\ row' = [row EXCEPT !.used = 0, !.status = s]
        BY <2>2, <3>1 DEF ResetUsersUsageByIDs, Own
      <3>3. s \in Statuses /\ s # "limited" /\ (s = "expired" => row.status = "expired")
        BY <3>1 DEF Statuses
      <3> QED BY <3>2, <3>3
    <2> QED BY <2>1, <2>2
  <1>4. RowOK(row', users) /\ (plan' = NULL \/ (row' # NULL /\ plan' \in Plan)) /\ (~Overlap => Justified')
    <2>1. CASE row' = row
      BY <1>0, <1>1, <2>1 DEF Justified
    <2>2. ASSUME NEW s \in Statuses, row # NULL, row' = [row EXCEPT !.used = 0, !.status = s],
                 s # "limited", ~Overlap /\ s = "expired" => row.status = "expired"
          PROVE  RowOK(row', users) /\ row' # NULL /\ (~Overlap => Justified')
      <3>1. row \in Row /\ row.id = users /\ Fits(row.expire)
        BY <1>1, <2>2 DEF RowOK
      <3>2. row' \in Row /\ row'.id = row.id /\ row'.status = s /\ row'.expire = row.expire
        BY <2>2, <3>1 DEF Row
      <3>3. RowOK(row', users) /\ row' # NULL
        BY <3>1, <3>2, ConstantsAssumption DEF RowOK
      <3>4. ~Overlap => Justified'
        BY <1>0, <1>1, <2>2, <3>2 DEF Justified, Expired
      <3> QED BY <3>3, <3>4
    <2> QED BY <1>0, <1>1, <1>3, <2>1, <2>2
  <1>5. Done(p) \/ Goto(p, "dropPlan") \/ Goto(p, "wipe")
    BY DEF ResetUserTraffic, ResetUsersUsageByIDs
  <1>6. CASE Done(p) \/ Goto(p, "dropPlan")
    BY <1>0, <1>1, <1>2, <1>4, <1>6, WriteMoves
  <1>7. CASE Goto(p, "wipe")
    BY <1>0, <1>1, <1>2, <1>4, <1>7, WriteMoves
  <1> QED BY <1>5, <1>6, <1>7

\* A statement that leaves the account in a status that needs no reason.
LEMMA PlainWrite ==
  ASSUME LifeInv, NEW p \in Actors, job[p].at \notin {"idle", "holds"}, row # NULL, row' \in Row, row'.id = row.id,
         Fits(row'.expire), row'.status \notin {"limited", "expired"},
         Done(p) \/ Goto(p, "dropPlan"), UNCHANGED <<plan, now, traffic, users, calls, faults>>
  PROVE  LifeInv'
  <1>1. /\ LifeShape /\ RowOK(row, users) /\ job[p].id > 0
        /\ plan = NULL \/ (row # NULL /\ plan \in Plan)
    BY OwnFacts
  <1>2. RowOK(row', users) /\ (plan' = NULL \/ (row' # NULL /\ plan' \in Plan))
    BY <1>1, ConstantsAssumption DEF RowOK
  <1>3. Justified'
    BY DEF Justified
  <1>4. p # Review => "dropPlan" # "holds"
    OBVIOUS
  <1> QED BY <1>1, <1>2, <1>3, <1>4, WriteMoves

\* A statement that finds nothing to write.
LEMMA NoWrite ==
  ASSUME LifeInv, NEW p \in Actors, job[p].at # "idle", Done(p), row' = row,
         UNCHANGED <<plan, now, traffic, users, calls, faults>>
  PROVE  LifeInv'
  <1>1. faults' \in 0 .. MaxFaults
    BY DEF LifeInv, LifeShape
  <1> QED BY <1>1, EndOnly

\* The emergency grant (ApplyEmergencyRecharge).
LEMMA GrantStep ==
  ASSUME LifeInv, NEW p \in Actors, ApplyEmergencyRecharge(p)
  PROVE  LifeInv'
  <1> DEFINE expire == IF row.expire # NULL /\ row.expire > 0
                         THEN (IF row.expire > now THEN row.expire ELSE now) + EmergencyTime
                         ELSE row.expire
             limit == IF row.limit # NULL /\ row.limit > 0 THEN row.limit + EmergencyData ELSE row.limit
  <1>0. job[p].at = "grant" /\ Done(p) /\ UNCHANGED <<plan, now, traffic, users, calls, faults>>
    BY DEF ApplyEmergencyRecharge, bounds
  <1>1. CASE row' = row
    BY <1>0, <1>1, NoWrite
  <1>2. CASE row' # row
    <2>1. row # NULL /\ Fits(expire) /\ row' = [row EXCEPT !.emergency = TRUE, !.status = "active", !.expire = expire, !.limit = limit]
      BY <1>2 DEF ApplyEmergencyRecharge, Unclaimed, Own
    <2>2. row \in Row /\ now \in Nat
      BY <2>1, OwnFacts
    <2>3. expire \in Maybe(Nat) /\ limit \in Maybe(Int)
      <3>1. row.expire \in Maybe(Nat) /\ row.limit \in Maybe(Int)
        BY <2>2, RowFields
      <3> QED BY <2>2, <3>1 DEF Maybe, EmergencyTime, EmergencyData
    <2> HIDE DEF expire, limit
    <2>4. PICK v : v = [row EXCEPT !.emergency = TRUE, !.status = "active", !.expire = expire, !.limit = limit]
      OBVIOUS
    <2>5. v \in Row /\ v.id = row.id /\ v.expire = expire /\ v.status = "active"
      BY <2>2, <2>3, <2>4 DEF Row, Statuses
    <2>6. row' = v
      BY <2>1, <2>4
    <2> QED BY <1>0, <2>1, <2>5, <2>6, PlainWrite
  <1> QED BY <1>1, <1>2

\* The bulk switch of an administrator's users, to disabled or to active.
LEMMA SwitchStep ==
  ASSUME LifeInv, NEW p \in Actors, SwitchUsers(p)
  PROVE  LifeInv'
  <1>0. job[p].at \in {"disable", "activateAll"} /\ Done(p) /\ UNCHANGED <<plan, now, traffic, users, calls, faults>>
    BY DEF SwitchUsers, bounds
  <1>1. CASE row' = row
    BY <1>0, <1>1, NoWrite
  <1>2. CASE row' # row
    <2>1. row # NULL /\ \E s \in {"disabled", "active"} : row' = [row EXCEPT !.status = s]
      BY <1>2 DEF SwitchUsers
    <2>2. row \in Row /\ RowOK(row, users)
      BY <2>1, OwnFacts
    <2>3. PICK s \in {"disabled", "active"} : row' = [row EXCEPT !.status = s]
      BY <2>1
    <2>4. row' \in Row /\ row'.id = row.id /\ row'.expire = row.expire /\ row'.status = s
      BY <2>2, <2>3 DEF Row, Statuses
    <2>5. Fits(row'.expire)
      BY <2>1, <2>2, <2>4 DEF RowOK
    <2> QED BY <1>0, <2>1, <2>4, <2>5, PlainWrite
  <1> QED BY <1>1, <1>2

\* The next plan takes the place of the one that ended (ResetUserByNextPlan).
LEMMA NextPlanStep ==
  ASSUME LifeInv, NEW p \in Actors, ResetUserByNextPlan(p)
  PROVE  LifeInv'
  <1>0. job[p].at = "apply" /\ UNCHANGED <<plan, now, traffic, users, calls, faults>>
    BY DEF ResetUserByNextPlan, bounds
  <1>1. CASE Done(p) /\ row' = row
    BY <1>0, <1>1, NoWrite
  <1>2. CASE /\ Own(p) /\ plan # NULL /\ Fits(now + plan.expire) /\ Goto(p, "dropPlan")
             /\ row' = [row EXCEPT !.status = "active", !.limit = PlannedLimit, !.expire = now + plan.expire, !.used = 0]
    <2>1. row # NULL /\ row \in Row /\ now \in Nat /\ plan \in Plan
      BY <1>2, OwnFacts DEF Own
    <2>2. PICK e, l : e = now + plan.expire /\ l = PlannedLimit
      OBVIOUS
    <2>3. e \in Nat /\ l \in Maybe(Int)
      <3>1. plan.expire \in Nat /\ plan.limit \in Nat
        BY <2>1 DEF Plan
      <3>2. row.limit \in Maybe(Int) /\ row.used \in Nat
        BY <2>1, RowFields
      <3> QED BY <2>1, <2>2, <3>1, <3>2 DEF PlannedLimit, Maybe
    <2>4. PICK v : v = [row EXCEPT !.status = "active", !.limit = l, !.expire = e, !.used = 0]
      OBVIOUS
    <2>5. v \in Row /\ v.id = row.id /\ v.expire = e /\ v.status = "active"
      BY <2>1, <2>3, <2>4 DEF Row, Statuses, Maybe
    <2>6. row' = v
      BY <1>2, <2>2, <2>4
    <2> QED BY <1>0, <1>2, <2>1, <2>2, <2>5, <2>6, PlainWrite
  <1> QED BY <1>1, <1>2 DEF ResetUserByNextPlan

\* The review loop reads the rows that need it.
LEMMA ReviewReads ==
  ASSUME LifeInv, GetUsersNeedingStatusReview \/ GetOnHoldUsers
  PROVE  LifeInv'
  <1>0. Review \in Actors /\ UNCHANGED <<row, plan, now, traffic, users, calls, faults>>
    BY DEF Actors, GetUsersNeedingStatusReview, GetOnHoldUsers, userVars, bounds
  <1>1. /\ LifeShape /\ users \in Nat /\ now \in Nat /\ job[Review] \in Jobs /\ JobOK(Review, job[Review], users)
        /\ RowOK(row, users) /\ (row # NULL => row \in Row)
    BY <1>0, OwnFacts
  <1>2. calls' \in 0 .. MaxCalls /\ faults' \in 0 .. MaxFaults
    BY <1>0, <1>1 DEF LifeShape
  <1>3. row # NULL => row.id = users /\ users > 0 /\ users \in Nat /\ row.used >= row.used /\ Fits(row.expire)
    BY <1>1 DEF RowOK, Row
  <1>4. CASE GetUsersNeedingStatusReview /\ row # NULL /\ NeedsStatusReview(row, now)
    <2>1. PICK j : j = [at |-> "readPlan", id |-> row.id, row |-> row, now |-> now, req |-> NULL]
      OBVIOUS
    <2>2. j \in Jobs /\ j.at = "readPlan" /\ j.id = row.id /\ j.row = row /\ j.now = now
      BY <1>1, <1>3, <1>4, <2>1 DEF Jobs, Maybe, AdminStages
    <2>3. job' = [job EXCEPT ![Review] = j] /\ CanBegin(Review)
      BY <1>4, <2>1 DEF GetUsersNeedingStatusReview
    <2>4. JobOK(Review, j, users)
      BY <1>1, <1>3, <1>4, <2>2 DEF JobOK, ReviewStages, Reads
    <2>5. Reading(Review, j, row, now)
      BY <1>1, <1>3, <1>4, <2>2 DEF Reading
    <2> QED BY <1>0, <1>2, <2>2, <2>3, <2>4, <2>5, JobOnly
  <1>5. CASE GetUsersNeedingStatusReview /\ ~(row # NULL /\ NeedsStatusReview(row, now))
    <2>1. PICK j : j = [Idle EXCEPT !.at = "holds", !.now = now]
      OBVIOUS
    <2>2. j \in Jobs /\ j.at = "holds" /\ j.id = 0
      BY <1>1, <2>1, JobIdle DEF Jobs, ReviewStages
    <2>3. job' = [job EXCEPT ![Review] = j] /\ CanBegin(Review)
      BY <1>5, <2>1 DEF GetUsersNeedingStatusReview
    <2>4. JobOK(Review, j, users) /\ Reading(Review, j, row, now)
      BY <1>1, <2>2 DEF JobOK, ReviewStages, Reads, Reading
    <2> QED BY <1>0, <1>2, <2>2, <2>3, <2>4, JobOnly
  <1>6. CASE GetOnHoldUsers /\ row # NULL /\ EndsHold(row, job[Review].now)
    <2>1. PICK j : j = [job[Review] EXCEPT !.at = "start", !.id = row.id, !.row = row]
      OBVIOUS
    <2>2. j \in Jobs /\ j.at = "start" /\ j.id = row.id /\ j.row = row /\ j.now = job[Review].now
      BY <1>1, <1>3, <1>6, <2>1 DEF Jobs, Maybe, ReviewStages
    <2>3. job' = [job EXCEPT ![Review] = j] /\ job[Review].at = "holds"
      BY <1>6, <2>1 DEF GetOnHoldUsers, LifeShape
    <2>4. JobOK(Review, j, users)
      BY <1>1, <1>3, <1>6, <2>2 DEF JobOK, ReviewStages, Reads
    <2>5. ~Overlap => Reading(Review, j, row, now)
      <3>1. row.status = "on_hold"
        BY <1>6 DEF EndsHold
      <3> QED BY <1>1, <1>3, <1>6, <2>2, <3>1 DEF Reading
    <2> QED BY <1>0, <1>2, <2>2, <2>3, <2>4, <2>5, JobOnly
  <1>7. CASE GetOnHoldUsers /\ ~(row # NULL /\ EndsHold(row, job[Review].now))
    BY <1>0, <1>2, <1>7, NoWrite DEF GetOnHoldUsers
  <1> QED BY <1>4, <1>5, <1>6, <1>7

\* The review loop ends an account for the reason it saw, which still holds.
LEMMA FlipStep ==
  ASSUME LifeInv, UpdateUserStatusOnly
  PROVE  LifeInv'
  <1>0. Review \in Actors /\ job[Review].at = "flip" /\ Goto(Review, "holds")
        /\ UNCHANGED <<plan, now, traffic, users, calls, faults>>
    BY DEF Actors, UpdateUserStatusOnly, bounds
  <1>1. /\ LifeShape /\ now \in Nat /\ RowOK(row, users) /\ (row # NULL => row \in Row) /\ job[Review].id > 0
        /\ job[Review].row \in Row /\ job[Review] \in Jobs
        /\ plan = NULL \/ (row # NULL /\ plan \in Plan)
        /\ ~Overlap => Justified /\ Reading(Review, job[Review], row, now)
    BY <1>0, OwnFacts DEF Reads
  <1>2. CASE row' = row
    <2>1. ~Overlap => Justified'
      BY <1>0, <1>1, <1>2 DEF Justified
    <2> QED BY <1>0, <1>1, <1>2, <2>1, WriteMoves
  <1>3. CASE row' # row
    <2>1. PICK s : s = IF Limited(job[Review].row) THEN "limited" ELSE "expired"
      OBVIOUS
    <2>2. row # NULL /\ row' = [row EXCEPT !.status = s]
      BY <1>3, <2>1 DEF UpdateUserStatusOnly, Own
    <2>3. row \in Row /\ row.id = users /\ Fits(row.expire)
      BY <1>1, <2>2 DEF RowOK
    <2>4. row' \in Row /\ row'.id = row.id /\ row'.status = s /\ row'.limit = row.limit /\ row'.expire = row.expire
          /\ row'.used = row.used
      BY <2>1, <2>2, <2>3 DEF Row, Statuses
    <2>5. RowOK(row', users) /\ row' # NULL
      BY <2>3, <2>4, ConstantsAssumption DEF RowOK
    <2>6. ~Overlap => Justified'
      <3> SUFFICES ASSUME ~Overlap PROVE Justified'
        OBVIOUS
      <3>1. /\ row.limit = job[Review].row.limit /\ row.expire = job[Review].row.expire
            /\ row.used >= job[Review].row.used /\ NeedsStatusReview(job[Review].row, job[Review].now)
            /\ job[Review].now <= now
        BY <1>0, <1>1 DEF Reading, Reads
      <3>2. row.used \in Nat /\ job[Review].row.used \in Nat /\ row.limit \in Maybe(Int) /\ row.expire \in Maybe(Nat)
            /\ job[Review].now \in Nat
        BY <1>1, <2>3, RowFields DEF Jobs
      <3>3. s = "limited" => Limited(row')
        BY <2>1, <2>4, <3>1, <3>2 DEF Limited, Maybe
      <3>4. s = "expired" => Expired(row', now)
        BY <1>1, <2>1, <2>4, <3>1, <3>2 DEF Expired, NeedsStatusReview, Maybe
      <3> QED BY <1>0, <2>4, <3>3, <3>4 DEF Justified
    <2> QED BY <1>0, <1>1, <2>5, <2>6, WriteMoves
  <1> QED BY <1>2, <1>3

\* An account on hold starts.
LEMMA StartHoldStep ==
  ASSUME LifeInv, ActivateOnHoldUser
  PROVE  LifeInv'
  <1>0. Review \in Actors /\ job[Review].at = "start" /\ Done(Review)
        /\ UNCHANGED <<plan, now, traffic, users, calls, faults>>
    BY DEF Actors, ActivateOnHoldUser, bounds
  <1>1. CASE row' = row
    BY <1>0, <1>1, NoWrite
  <1>2. CASE row' # row
    <2>1. PICK e : e = IF row.hold = NULL THEN NULL ELSE now + row.hold
      OBVIOUS
    <2>2. row # NULL /\ Fits(e) /\ row' = [row EXCEPT !.status = "active", !.expire = e, !.hold = NULL, !.timeout = NULL]
      BY <1>2, <2>1 DEF ActivateOnHoldUser, Own
    <2>3. row \in Row /\ now \in Nat
      BY <1>0, <2>2, OwnFacts
    <2>4. e \in Maybe(Nat)
      BY <2>1, <2>3, RowFields DEF Maybe
    <2>5. PICK v : v = [row EXCEPT !.status = "active", !.expire = e, !.hold = NULL, !.timeout = NULL]
      OBVIOUS
    <2>6. v \in Row /\ v.id = row.id /\ v.expire = e /\ v.status = "active"
      BY <2>3, <2>4, <2>5 DEF Row, Statuses, Maybe
    <2>7. row' = v
      BY <2>2, <2>5
    <2> QED BY <1>0, <2>2, <2>6, <2>7, PlainWrite
  <1> QED BY <1>1, <1>2

\* An account is created.
LEMMA CreateUserStep ==
  ASSUME LifeInv, NEW p \in Admins, NEW r \in Requests, CreateUser(p, r)
  PROVE  LifeInv'
  <1>0. /\ p \in Actors /\ p # Review /\ CanBegin(p) /\ ValidBody(r) /\ r.status # "disabled" /\ row = NULL /\ r \in Request
        /\ users < MaxUsers /\ users' = users + 1
        /\ UNCHANGED <<plan, now, traffic, calls, faults>>
    BY ConstantsAssumption DEF Actors, CreateUser
  <1>1. LifeShape /\ users \in Nat /\ now \in Nat /\ plan = NULL /\ MaxUsers \in Nat
    BY <1>0, OwnFacts, ConstantsAssumption
  <1>2. PICK s : s = IF r.status = NULL THEN "active" ELSE r.status
    OBVIOUS
  <1>3. s \in {"active", "on_hold"}
    BY <1>0, <1>2, BodyFields DEF Maybe
  <1>4. row' = [id |-> users + 1, status |-> s,
                limit |-> Body(r).limit, used |-> 0, expire |-> Body(r).expire,
                hold |-> Body(r).hold, timeout |-> Body(r).timeout,
                edit |-> now, online |-> NULL, emergency |-> FALSE]
    BY <1>2 DEF CreateUser
  <1>5. row' \in Row /\ row'.id = users' /\ row'.status = s /\ row'.expire = Body(r).expire
    <2>1. /\ Body(r).limit \in Maybe(Int) /\ Body(r).expire \in Maybe(Nat) /\ Body(r).hold \in Maybe(Nat)
          /\ Body(r).timeout \in Maybe(Nat)
      BY <1>0, BodyFields DEF Maybe
    <2>2. users + 1 \in 1 .. MaxUsers /\ s \in Statuses /\ NULL \in Maybe(Nat)
      BY <1>0, <1>1, <1>3 DEF Statuses, Maybe
    <2> HIDE DEF Body
    <2> QED BY <1>0, <1>1, <1>4, <2>1, <2>2 DEF Row
  <1>6. Fits(row'.expire)
    <2>1. Fits(r.expire) /\ Body(r).expire \in {NULL, r.expire}
      BY <1>0, BodyFields DEF ValidBody
    <2> QED BY <1>5, <2>1 DEF Fits
  <1>7. PICK j \in Jobs : job' = [job EXCEPT ![p] = j] /\ JobOK(p, j, users') /\ j.at \notin Reads
    <2>1. CASE r.plan = NULL
      <3>1. Idle \in Jobs /\ JobOK(p, Idle, users') /\ Idle.at \notin Reads
        BY <1>0, <1>1, JobIdle DEF Reads
      <3> QED BY <2>1, <3>1 DEF CreateUser
    <2>2. CASE r.plan # NULL
      <3>1. PICK j : j = [Idle EXCEPT !.at = "setPlan", !.id = users + 1, !.req = r]
        OBVIOUS
      <3>2. job' = [job EXCEPT ![p] = j]
        BY <2>2, <3>1 DEF CreateUser
      <3>a. users + 1 \in Nat /\ r \in Maybe(Requests) /\ "setPlan" \in AdminStages \cup ReviewStages /\ Idle \in Jobs
        BY <1>1, JobIdle DEF Maybe, AdminStages
      <3>3. j \in Jobs /\ j.at = "setPlan" /\ j.id = users + 1 /\ j.req = r
        BY <3>a, <3>1 DEF Jobs
      <3>4. JobOK(p, j, users') /\ j.at \notin Reads
        BY <1>0, <1>1, <3>3 DEF JobOK, Reads, AdminStages
      <3> QED BY <3>2, <3>3, <3>4
    <2> QED BY <2>1, <2>2
  <1>8. /\ job' \in [Actors -> Jobs] /\ \A q \in Actors : JobOK(q, job'[q], users')
        /\ job'[p] = j /\ \A q \in Actors \ {p} : job'[q] = job[q]
    <2>1. users' \in Nat /\ users <= users'
      BY <1>0, <1>1
    <2> QED BY <1>0, <1>1, <1>7, <2>1, JobMove
  <1>9. LifeShape'
    <2>1. users' \in 0 .. MaxUsers /\ RowOK(row', users') /\ plan' = NULL
      BY <1>0, <1>1, <1>5, <1>6 DEF RowOK
    <2> QED BY <1>0, <1>1, <1>8, <2>1 DEF LifeShape
  <1>10. Reading(p, job'[p], row', now') /\ Justified'
    BY <1>3, <1>5, <1>7, <1>8 DEF Reading, Justified
  <1> QED BY <1>0, <1>8, <1>9, <1>10, ActorMoves

\* Traffic only adds to the usage, and time only passes.
LEMMA WorldSteps ==
  ASSUME LifeInv, IncrementUserUsage \/ ClockTick \/ UNCHANGED vars
  PROVE  LifeInv'
  <1>0. LifeShape /\ now \in Nat /\ traffic \in 0 .. MaxTraffic /\ RowOK(row, users)
        /\ UNCHANGED <<plan, users, calls, faults, job>>
    BY DEF LifeInv, LifeShape, IncrementUserUsage, ClockTick, vars, userVars, bounds
  <1>1. now' \in Nat /\ now <= now' /\ traffic' \in 0 .. MaxTraffic
    <2>1. MaxTraffic \in Nat
      BY ConstantsAssumption
    <2> QED BY <1>0, <2>1 DEF IncrementUserUsage, ClockTick, vars, userVars, bounds
  <1>2. /\ RowOK(row', users) /\ (row # NULL => row' # NULL)
        /\ row' # NULL => /\ row # NULL /\ row'.id = row.id /\ row'.status = row.status /\ row'.limit = row.limit
                          /\ row'.expire = row.expire /\ row'.used >= row.used
                          /\ row'.used \in Nat /\ row.used \in Nat /\ row.limit \in Maybe(Int) /\ row.expire \in Maybe(Nat)
    <2>1. CASE row' = row
      BY <1>0, <2>1, RowFields DEF RowOK
    <2>2. CASE IncrementUserUsage
      <3>1. row # NULL /\ row \in Row /\ row.id = users /\ Fits(row.expire) /\ row.used \in Nat
            /\ row.limit \in Maybe(Int) /\ row.expire \in Maybe(Nat)
        BY <1>0, <2>2, RowFields DEF RowOK, IncrementUserUsage
      <3>2. PICK n : n = row.used + 1
        OBVIOUS
      <3>3. row' = [row EXCEPT !.used = n, !.online = now] /\ n \in Nat /\ n >= row.used
        BY <2>2, <3>1, <3>2 DEF IncrementUserUsage
      <3>4. PICK v : v = [row EXCEPT !.used = n, !.online = now]
        OBVIOUS
      <3>5. /\ v \in Row /\ v.id = row.id /\ v.status = row.status /\ v.limit = row.limit
            /\ v.expire = row.expire /\ v.used = n
        BY <1>0, <3>1, <3>3, <3>4 DEF Row, Maybe
      <3>6. row' = v
        BY <3>3, <3>4
      <3> QED BY <3>1, <3>3, <3>5, <3>6, ConstantsAssumption DEF RowOK
    <2> QED BY <2>1, <2>2 DEF ClockTick, vars, userVars
  <1>3. LifeShape'
    <2>1. plan' = NULL \/ (row' # NULL /\ plan' \in Plan)
      BY <1>0, <1>2 DEF LifeShape
    <2> QED BY <1>0, <1>1, <1>2, <2>1 DEF LifeShape
  <1>4. ~Overlap => Serial' /\ Justified' /\ \A p \in Actors : Reading(p, job'[p], row', now')
    <2> SUFFICES ASSUME ~Overlap PROVE Serial' /\ Justified' /\ \A p \in Actors : Reading(p, job'[p], row', now')
      OBVIOUS
    <2>1. Serial /\ Justified /\ \A p \in Actors : Reading(p, job[p], row, now)
      BY DEF LifeInv
    <2>2. Serial'
      BY <1>0, <2>1 DEF Serial
    <2>3. Justified'
      <3>1. CASE row' = NULL
        BY <3>1 DEF Justified
      <3>2. CASE row' # NULL
        <4>1. Limited(row) => Limited(row')
          BY <1>2, <3>2 DEF Limited, Maybe
        <4>2. Expired(row, now) => Expired(row', now')
          BY <1>0, <1>1, <1>2, <3>2 DEF Expired, Maybe
        <4> QED BY <1>2, <2>1, <3>2, <4>1, <4>2 DEF Justified
      <3> QED BY <3>1, <3>2
    <2>4. ASSUME NEW p \in Actors PROVE Reading(p, job[p], row', now')
      <3> SUFFICES ASSUME job[p].at \in Reads PROVE Reading(p, job[p], row', now')
        BY DEF Reading
      <3>1. Reading(p, job[p], row, now) /\ job[p].row \in Row /\ job[p].now \in Nat
        BY <1>0, <2>1, JobFields DEF JobOK
      <3>2. job[p].row.used \in Nat
        BY <3>1, RowFields
      <3> QED BY <1>0, <1>1, <1>2, <3>1, <3>2 DEF Reading
    <2> QED BY <1>0, <2>2, <2>3, <2>4
  <1> QED BY <1>3, <1>4 DEF LifeInv

\* The invariant holds at first, and every step keeps it.
LEMMA LifeInvariant == Spec => []LifeInv
  <1>1. Init => LifeInv
    <2> SUFFICES ASSUME Init PROVE LifeInv
      OBVIOUS
    <2>1. job \in [Actors -> Jobs] /\ \A p \in Actors : job[p] = Idle
      BY JobIdle DEF Init
    <2>2. \A p \in Actors : JobOK(p, job[p], users)
      <3>1. users \in Nat
        BY DEF Init
      <3> QED BY <2>1, <3>1, JobIdle
    <2>3. LifeShape
      BY <2>1, <2>2, ConstantsAssumption DEF Init, LifeShape, RowOK
    <2>4. Serial /\ Justified /\ \A p \in Actors : Reading(p, job[p], row, now)
      BY <2>1, JobIdle DEF Init, Serial, Justified, Reading, Reads
    <2> QED BY <2>3, <2>4 DEF LifeInv
  <1>2. LifeInv /\ [Next]_vars => LifeInv'
    <2> SUFFICES ASSUME LifeInv, [Next]_vars PROVE LifeInv'
      OBVIOUS
    <2>1. ASSUME NEW p \in Admins, NEW r \in Requests, CreateUser(p, r) \/ LoadUser(p, r) PROVE LifeInv'
      BY <2>1, CreateUserStep, LoadUserStep
    <2>2. ASSUME NEW p \in Actors, Continue(p) PROVE LifeInv'
      BY <2>2, UpdateUserCoreStep, PlanStatements, DeleteUserStep, ResetSteps, ReadingStatements,
         GrantStep, SwitchStep, NextPlanStep DEF Continue
    <2>3. ASSUME NEW p \in Actors, Stop(p) PROVE LifeInv'
      BY <2>3, StopStep
    <2>4. CASE ReviewTick
      BY <2>4, ReviewReads, FlipStep, StartHoldStep DEF ReviewTick
    <2>5. CASE IncrementUserUsage \/ ClockTick \/ UNCHANGED vars
      BY <2>5, WorldSteps
    <2> QED BY <2>1, <2>2, <2>3, <2>4, <2>5 DEF Next
  <1> QED BY <1>1, <1>2, PTL DEF Spec

\* Callers one after another leave the account well formed, shown as out of
\* data only when it has used up a limit and as expired only when its expiry
\* has passed (handleModifyUser, handleResetUserDataUsage, reviewActiveUsers).
THEOREM StatusTheorem == ~Overlap /\ Spec => []StatusIsSound
  <1> SUFFICES ASSUME ~Overlap PROVE Spec => []StatusIsSound
    OBVIOUS
  <1>1. LifeInv => TypeOK
    <2> SUFFICES ASSUME LifeInv PROVE TypeOK
      OBVIOUS
    <2>1. LifeShape /\ users \in Nat
      BY DEF LifeInv, LifeShape
    <2>2. ASSUME NEW p \in Actors
          PROVE  /\ job[p].row = NULL \/ job[p].row \in Row
                 /\ job[p].id \in 0 .. users
                 /\ job[p].at \notin {"idle", "holds"} => job[p].id > 0
      BY <2>1, JobFields DEF JobOK, Maybe
    <2> QED BY <2>1, <2>2 DEF TypeOK, LifeShape, RowOK
  <1>2. LifeInv => Justified
    BY DEF LifeInv
  <1>3. LifeInv => StatusIsSound
    BY <1>1, <1>2 DEF StatusIsSound
  <1> QED BY <1>3, LifeInvariant, PTL

\* A step that brings a disabled account back is one an admin asked for.
LEMMA ReturnIsAsked ==
  ASSUME ~Overlap, LifeInv, Next, row # NULL, row' # NULL, row.status = "disabled", row'.status # "disabled"
  PROVE  \E p \in Admins : \/ job[p].at \in {"activateAll", "apply"}
                           \/ job[p].at = "write" /\ job[p].req.status \notin {NULL, "disabled"}
  <1>0. row \in Row /\ row' # row
    BY DEF LifeInv, LifeShape, RowOK
  <1>1. \A p \in Actors : /\ JobOK(p, job[p], users) /\ Reading(p, job[p], row, now) /\ now \in Nat
                          /\ job[p].at \in Reads => job[p].row \in Row
    BY OwnFacts
  <1>2. \A p \in Actors : p # Review => p \in Admins
    BY DEF Actors
  <1>3. ASSUME NEW p \in Actors, UpdateUserCore(p)
        PROVE  p \in Admins /\ job[p].at = "write" /\ job[p].req.status \notin {NULL, "disabled"}
    <2>1. job[p].at = "write" /\ row'.status = ModifiedStatus(job[p].row, job[p].req)
      <3>1. job[p].at = "write"
        BY <1>3 DEF UpdateUserCore
      <3>2. Own(p)
        BY <1>0, <1>3 DEF UpdateUserCore
      <3> DEFINE Set(given, value, was) == IF given = NULL THEN was ELSE value
                 old == job[p].row
                 r == job[p].req
      <3>3. row' = [row EXCEPT
                        !.status = ModifiedStatus(old, r),
                        !.limit = Set(r.limit, Body(r).limit, old.limit),
                        !.expire = Set(r.expire, Body(r).expire, old.expire),
                        !.hold = Set(r.hold, Body(r).hold, old.hold),
                        !.timeout = Set(r.timeout, r.timeout, old.timeout),
                        !.edit = now]
        BY <1>3, <3>2 DEF UpdateUserCore
      <3>4. PICK s, l, e, h, t : /\ s = ModifiedStatus(old, r) /\ l = Set(r.limit, Body(r).limit, old.limit)
                                 /\ e = Set(r.expire, Body(r).expire, old.expire) /\ h = Set(r.hold, Body(r).hold, old.hold)
                                 /\ t = Set(r.timeout, r.timeout, old.timeout)
        OBVIOUS
      <3>5. row' = [row EXCEPT !.status = s, !.limit = l, !.expire = e, !.hold = h, !.timeout = t, !.edit = now]
        BY <3>3, <3>4
      <3>6. row'.status = s
        BY <1>0, <3>5 DEF Row
      <3> QED BY <3>1, <3>4, <3>6
    <2>2. p # Review /\ job[p].req \in Request /\ job[p].row \in Row /\ job[p].row.status = "disabled"
      BY <1>1, <2>1, ConstantsAssumption DEF JobOK, ReviewStages, Reading, Reads
    <2> QED BY <1>1, <1>2, <2>1, <2>2, ModifiedFacts
  <1>4. \A p \in Actors : ~ResetUserTraffic(p)
    <2> SUFFICES ASSUME NEW p \in Actors, ResetUserTraffic(p) PROVE FALSE
      OBVIOUS
    <2>1. job[p].at = "reset" /\ row' = [row EXCEPT !.used = 0, !.status = ResetStatus(job[p].row)]
      BY <1>0 DEF ResetUserTraffic
    <2>2. job[p].row.status = "disabled"
      BY <1>1, <2>1 DEF Reading, Reads
    <2>3. ResetStatus(job[p].row) = "disabled"
      BY <2>2 DEF ResetStatus
    <2> QED BY <1>0, <2>1, <2>3 DEF Row
  <1>5. \A p \in Actors : ~ResetUsersUsageByIDs(p)
    <2> SUFFICES ASSUME NEW p \in Actors, ResetUsersUsageByIDs(p) PROVE FALSE
      OBVIOUS
    <2>1. row' = [row EXCEPT !.used = 0, !.status = "disabled"]
      BY <1>0 DEF ResetUsersUsageByIDs
    <2> QED BY <1>0, <2>1 DEF Row
  <1>6. \A p \in Actors : ~ApplyEmergencyRecharge(p)
    BY <1>1 DEF ApplyEmergencyRecharge, Reading, Reads
  <1>7. ASSUME NEW p \in Actors, SwitchUsers(p) PROVE p \in Admins /\ job[p].at = "activateAll"
    <2>1. job[p].at = "activateAll"
      BY <1>0, <1>7 DEF SwitchUsers
    <2> QED BY <1>1, <1>2, <2>1 DEF JobOK, ReviewStages
  <1>8. ASSUME NEW p \in Actors, ResetUserByNextPlan(p) PROVE p \in Admins /\ job[p].at = "apply"
    <2>1. job[p].at = "apply"
      BY <1>8 DEF ResetUserByNextPlan
    <2>2. p # Review
      BY <1>1, <2>1 DEF Reading, Reads, NeedsStatusReview
    <2> QED BY <1>2, <2>1, <2>2
  <1>9. ~UpdateUserStatusOnly /\ ~ActivateOnHoldUser
    <2>1. Review \in Actors
      BY DEF Actors
    <2> QED BY <1>1, <2>1 DEF UpdateUserStatusOnly, ActivateOnHoldUser, Reading, Reads, NeedsStatusReview
  <1>10. ~IncrementUserUsage
    BY <1>0 DEF IncrementUserUsage, Row
  <1>11. \A p \in Actors : ~(SetPlan(p) \/ DeleteUser(p) \/ DeleteUserUsageLogs(p) \/ ReadPlan(p) \/ CreateUserUsageLog(p)
                             \/ DeleteNextPlan(p) \/ Stop(p))
    BY <1>0 DEF SetPlan, DeleteUser, DeleteUserUsageLogs, ReadPlan, CreateUserUsageLog, DeleteNextPlan, Stop, userVars
  <1>12. ~GetUsersNeedingStatusReview /\ ~GetOnHoldUsers /\ ~ClockTick
    BY <1>0 DEF GetUsersNeedingStatusReview, GetOnHoldUsers, ClockTick, userVars
  <1>13. \A p \in Admins, r \in Requests : ~CreateUser(p, r) /\ ~LoadUser(p, r)
    BY <1>0 DEF CreateUser, LoadUser, userVars
  <1> QED BY <1>3, <1>4, <1>5, <1>6, <1>7, <1>8, <1>9, <1>10, <1>11, <1>12, <1>13 DEF Next, Continue, ReviewTick

\* Callers one after another: what an admin switched off, no reset, grant, plan
\* of the review loop or start of a hold brings back (UpdateUserCore,
\* ResetUserTraffic, ApplyEmergencyRecharge, ActivateOnHoldUser).
THEOREM DisabledTheorem == ~Overlap /\ Spec => DisabledStays
  <1> SUFFICES ASSUME ~Overlap PROVE Spec => DisabledStays
    OBVIOUS
  <1> DEFINE A == row # NULL /\ row' # NULL /\ row.status = "disabled" /\ row'.status # "disabled" =>
                    \E p \in Admins :
                      \/ job[p].at \in {"activateAll", "apply"}
                      \/ job[p].at = "write" /\ job[p].req.status \notin {NULL, "disabled"}
  <1>1. LifeInv /\ [Next]_vars => [A]_vars
    BY ReturnIsAsked
  <1> HIDE DEF A
  <1>2. Spec => [][A]_vars
    BY <1>1, LifeInvariant, PTL DEF Spec
  <1> USE DEF A
  <1> QED BY <1>2 DEF DisabledStays

\* A caller's job changes by a step of its own.
LEMMA OwnStep ==
  ASSUME LifeInv, Next, NEW p \in Actors, job'[p] # job[p]
  PROVE  \/ \E r \in Requests : CreateUser(p, r) \/ LoadUser(p, r)
         \/ Continue(p) \/ Stop(p) \/ (p = Review /\ ReviewTick)
  <1>1. job \in [Actors -> Jobs]
    BY DEF LifeInv, LifeShape
  <1>2. ASSUME NEW q \in Actors, NEW v, job' = [job EXCEPT ![q] = v] PROVE p = q
    BY <1>1, <1>2
  <1>3. ASSUME NEW q \in Actors, NEW at, Goto(q, at) PROVE p = q
    BY <1>1, <1>3 DEF Goto
  <1>4. ASSUME NEW q \in Actors, Done(q) PROVE p = q
    BY <1>2, <1>4 DEF Done
  <1>5. \A q \in Admins, r \in Requests : CreateUser(q, r) \/ LoadUser(q, r) => p = q
    BY <1>2 DEF CreateUser, LoadUser, Actors
  <1>6. \A q \in Actors : Continue(q) \/ Stop(q) => p = q
    <2> SUFFICES ASSUME NEW q \in Actors, Continue(q) \/ Stop(q) PROVE p = q
      OBVIOUS
    <2>1. UpdateUserCore(q) \/ SetPlan(q) \/ DeleteUser(q) \/ ResetUserTraffic(q) => p = q
      BY <1>3, <1>4 DEF UpdateUserCore, SetPlan, DeleteUser, ResetUserTraffic
    <2>2. ResetUsersUsageByIDs(q) \/ DeleteUserUsageLogs(q) \/ ApplyEmergencyRecharge(q) \/ SwitchUsers(q) \/ Stop(q) => p = q
      BY <1>3, <1>4 DEF ResetUsersUsageByIDs, DeleteUserUsageLogs, ApplyEmergencyRecharge, SwitchUsers, Stop
    <2>3. ReadPlan(q) => p = q
      <3>1. CASE q = Review
        BY <1>3, <1>4, <3>1 DEF ReadPlan
      <3>2. CASE q # Review
        BY <1>3, <1>4, <3>2 DEF ReadPlan
      <3> QED BY <3>1, <3>2
    <2>4. CreateUserUsageLog(q) \/ ResetUserByNextPlan(q) \/ DeleteNextPlan(q) => p = q
      BY <1>3, <1>4 DEF CreateUserUsageLog, ResetUserByNextPlan, DeleteNextPlan
    <2> QED BY <2>1, <2>2, <2>3, <2>4 DEF Continue
  <1>7. ReviewTick => p = Review
    <2>1. Review \in Actors
      BY DEF Actors
    <2>2. GetUsersNeedingStatusReview \/ ActivateOnHoldUser => p = Review
      BY <1>2, <1>4, <2>1 DEF GetUsersNeedingStatusReview, ActivateOnHoldUser
    <2>3. UpdateUserStatusOnly => p = Review
      BY <1>3, <2>1 DEF UpdateUserStatusOnly
    <2>4. GetOnHoldUsers => p = Review
      BY <1>1, <1>4, <2>1 DEF GetOnHoldUsers
    <2> QED BY <2>2, <2>3, <2>4 DEF ReviewTick
  <1>8. ~IncrementUserUsage /\ ~ClockTick
    BY DEF IncrementUserUsage, ClockTick
  <1> QED BY <1>5, <1>6, <1>7, <1>8 DEF Next

\* Callers at the same time too: whatever a caller read, it writes to no
\* account that was made after the one it read was deleted, and a second
\* emergency grant writes nothing (the statements' WHERE id = $1,
\* ApplyEmergencyRecharge's claim).
THEOREM StaleTheorem == Spec => StaleCallersAreHarmless
  <1> DEFINE A == \A p \in Actors :
                    /\ job'[p] # job[p]
                    /\ job[p].at \notin {"idle", "holds", "disable", "activateAll"}
                    /\ row # NULL /\ row.id # job[p].id
                    => row' = row /\ plan' = plan
             B == \A p \in Admins :
                    job[p].at = "grant" /\ job'[p] # job[p] /\ row # NULL /\ row.emergency => row' = row
  <1>1. LifeInv /\ [Next]_vars => [A]_vars
    <2> SUFFICES ASSUME LifeInv, Next, NEW p \in Actors, job'[p] # job[p],
                        job[p].at \notin {"idle", "holds", "disable", "activateAll"}, row # NULL, row.id # job[p].id
                 PROVE  row' = row /\ plan' = plan
      OBVIOUS
    <2>1. ~Own(p)
      BY DEF Own
    <2>2. \A r \in Requests : ~CreateUser(p, r) /\ ~LoadUser(p, r)
      BY DEF CreateUser, LoadUser, CanBegin
    <2>3. CASE Stop(p)
      BY <2>3 DEF Stop, userVars
    <2>4. CASE p = Review /\ ReviewTick
      BY <2>1, <2>4 DEF ReviewTick, GetUsersNeedingStatusReview, CanBegin, UpdateUserStatusOnly, GetOnHoldUsers,
                        ActivateOnHoldUser, userVars
    <2>5. CASE Continue(p)
      BY <2>1, <2>5 DEF Continue, UpdateUserCore, SetPlan, DeleteUser, ResetUserTraffic, ResetUsersUsageByIDs,
                        DeleteUserUsageLogs, ApplyEmergencyRecharge, Unclaimed, SwitchUsers, ReadPlan, CreateUserUsageLog,
                        ResetUserByNextPlan, DeleteNextPlan, userVars
    <2> QED BY <2>2, <2>3, <2>4, <2>5, OwnStep
  <1>2. LifeInv /\ [Next]_vars => [B]_vars
    <2> SUFFICES ASSUME LifeInv, Next, NEW p \in Admins, job[p].at = "grant", job'[p] # job[p], row # NULL, row.emergency
                 PROVE  row' = row
      OBVIOUS
    <2>1. p \in Actors /\ p # Review
      BY ConstantsAssumption DEF Actors
    <2>2. \A r \in Requests : ~CreateUser(p, r) /\ ~LoadUser(p, r)
      BY DEF CreateUser, LoadUser, CanBegin
    <2>3. CASE Stop(p)
      BY <2>3 DEF Stop, userVars
    <2>4. CASE Continue(p)
      <3>1. ApplyEmergencyRecharge(p)
        BY <2>4 DEF Continue, UpdateUserCore, SetPlan, DeleteUser, ResetUserTraffic, ResetUsersUsageByIDs,
                    DeleteUserUsageLogs, SwitchUsers, ReadPlan, CreateUserUsageLog,
                    ResetUserByNextPlan, DeleteNextPlan
      <3> QED BY <3>1 DEF ApplyEmergencyRecharge, Unclaimed
    <2> QED BY <2>1, <2>2, <2>3, <2>4, OwnStep
  <1>3. LifeInv /\ [Next]_vars => [A]_vars /\ [B]_vars
    BY <1>1, <1>2
  <1> HIDE DEF A, B
  <1>4. Spec => [][A]_vars /\ [][B]_vars
    BY <1>3, LifeInvariant, PTL DEF Spec
  <1> USE DEF A, B
  <1> QED BY <1>4 DEF StaleCallersAreHarmless, OwnUserOnly, EmergencyOnce

-----------------------------------------------------------------------------
(***************************************************************************)
(* The updates.                                                            *)
(***************************************************************************)

\* An update with the start it was dispatched in is known: it was taken, or
\* Redis failed, and what this start dispatched is below the offset.
Known(id, s, seen, off, st) == id \in seen /\ s <= st /\ (s = st => id < off)

\* One update is before another, which is not the same one again unless Redis
\* failed to mark it.
Ordered(i, s, j, t, un) == (i \notin un /\ j \notin un => i # j) /\ (s = t => i < j)

\* An account's log: the updates handled, r, and those in the queue, q.
LogOK(q, r, seen, un, off, st) ==
  /\ \A i \in 1 .. Len(q) : Known(q[i].id, q[i].start, seen, off, st)
  /\ \A i \in 1 .. Len(r) : Known(r[i][1], r[i][2], seen, off, st)
  /\ \A i, j \in 1 .. Len(q) : i < j => Ordered(q[i].id, q[i].start, q[j].id, q[j].start, un)
  /\ \A i, j \in 1 .. Len(r) : i < j => Ordered(r[i][1], r[i][2], r[j][1], r[j][2], un)
  /\ \A i \in 1 .. Len(r), j \in 1 .. Len(q) : Ordered(r[i][1], r[i][2], q[j].id, q[j].start, un)

Taps(W) == [id : Nat, who : W, start : Nat]

\* The jobs carry an identity of some set of names.
QueueShape == \E W : queue \in [Accounts -> Seq(Taps(W))] /\ busy \in [Accounts -> SUBSET Taps(W)]

PollShape ==
  /\ sentBy \in Seq(Accounts) /\ Len(sentBy) <= MaxSent
  /\ confirmed \in 0 .. Len(sentBy) /\ offset \in 0 .. Len(sentBy) + 1
  /\ starts \in Nat /\ batch \in Seq(Nat)
  /\ taken \subseteq 1 .. MaxSent /\ unmarked \subseteq 1 .. MaxSent
  /\ tokens \in [Accounts -> 0 .. Burst] /\ workers \in [Accounts -> 0 .. 1]
  /\ QueueShape /\ \A a \in Accounts : Len(queue[a]) <= MaxQueued
  /\ ran \in [Accounts -> Seq(Nat \X Nat)]

\* The batch holds updates that are not done with, in the order they were made.
BatchOK ==
  /\ \A i \in 1 .. Len(batch) : batch[i] \in 1 .. Len(sentBy) /\ offset <= batch[i]
  /\ \A i, j \in 1 .. Len(batch) : i < j => batch[i] < batch[j]

OneWorker == \A a \in Accounts : busy[a] = {} \/ (workers[a] = 1 /\ \E tap : busy[a] = {tap})

LogsOK == \A a \in Accounts : LogOK(queue[a], ran[a], taken \cup unmarked, unmarked, offset, starts)

PollInv == PollShape /\ BatchOK /\ OneWorker /\ LogsOK /\ ~overstepped

\* A log stays in order while updates are marked and the offset grows, and
\* when the polling starts over.
LEMMA LogGrows ==
  ASSUME NEW W, NEW q \in Seq(Taps(W)), NEW r \in Seq(Nat \X Nat), NEW seen, NEW un, NEW off \in Nat, NEW st \in Nat,
         NEW seen2, NEW un2, NEW off2 \in Nat, NEW st2 \in Nat,
         LogOK(q, r, seen, un, off, st), seen \subseteq seen2, un \subseteq un2,
         (st2 = st /\ off <= off2) \/ st < st2
  PROVE  LogOK(q, r, seen2, un2, off2, st2)
  <1>1. \A i \in 1 .. Len(q) : q[i].id \in Nat /\ q[i].start \in Nat
    <2>1. \A i \in 1 .. Len(q) : q[i] \in Taps(W)
      OBVIOUS
    <2> QED BY <2>1 DEF Taps
  <1>2. \A i \in 1 .. Len(r) : r[i][1] \in Nat /\ r[i][2] \in Nat
    <2>1. \A i \in 1 .. Len(r) : r[i] \in Nat \X Nat
      OBVIOUS
    <2> QED BY <2>1
  <1>3. \A i, s : i \in Nat /\ s \in Nat /\ Known(i, s, seen, off, st) => Known(i, s, seen2, off2, st2)
    BY DEF Known
  <1>4. \A i, s, j, t : Ordered(i, s, j, t, un) => Ordered(i, s, j, t, un2)
    BY DEF Ordered
  <1> QED BY <1>1, <1>2, <1>3, <1>4 DEF LogOK

\* A queue that is lost.
LEMMA LogLost ==
  ASSUME NEW q, NEW r, NEW seen, NEW un, NEW off, NEW st, LogOK(q, r, seen, un, off, st)
  PROVE  LogOK(<<>>, r, seen, un, off, st)
  BY DEF LogOK

\* An update joins the queue: it was not taken before, or Redis has failed.
LEMMA LogAppend ==
  ASSUME NEW W, NEW q \in Seq(Taps(W)), NEW r \in Seq(Nat \X Nat), NEW seen, NEW un, NEW off \in Nat, NEW st \in Nat,
         NEW tap \in Taps(W), NEW seen2, NEW un2,
         LogOK(q, r, seen, un, off, st), seen \subseteq seen2, un \subseteq un2,
         tap.id \in seen2, tap.id \in un2 \/ tap.id \notin seen, tap.start = st, off <= tap.id
  PROVE  LogOK(Append(q, tap), r, seen2, un2, tap.id + 1, st)
  <1>a. PICK q2 : q2 = Append(q, tap)
    OBVIOUS
  <1>0. tap.id \in Nat /\ tap.start \in Nat
    BY DEF Taps
  <1>1. LogOK(q, r, seen2, un2, tap.id + 1, st)
    <2>1. PICK n \in Nat : n = tap.id + 1 /\ off <= n
      BY <1>0
    <2>2. LogOK(q, r, seen2, un2, n, st)
      BY <2>1, LogGrows, SMTT(40)
    <2> QED BY <2>1, <2>2
  <1>2. \A i \in 1 .. Len(q) : q[i].id \in Nat /\ q[i].start \in Nat
    <2>1. \A i \in 1 .. Len(q) : q[i] \in Taps(W)
      OBVIOUS
    <2> QED BY <2>1 DEF Taps
  <1>3. \A i \in 1 .. Len(r) : r[i][1] \in Nat /\ r[i][2] \in Nat
    <2>1. \A i \in 1 .. Len(r) : r[i] \in Nat \X Nat
      OBVIOUS
    <2> QED BY <2>1
  <1>4. Len(q2) = Len(q) + 1 /\ q2[Len(q) + 1] = tap /\ (\A i \in 1 .. Len(q) : q2[i] = q[i]) /\ Len(q) \in Nat
    BY <1>a
  <1>5. \A i, s : i \in Nat /\ s \in Nat /\ Known(i, s, seen, off, st) => Ordered(i, s, tap.id, tap.start, un2)
    BY <1>0 DEF Known, Ordered
  <1>6. Known(tap.id, tap.start, seen2, tap.id + 1, st)
    BY <1>0 DEF Known
  <1>7. \A i \in 1 .. Len(q2) : i \in 1 .. Len(q) \/ i = Len(q) + 1
    BY <1>4
  <1>8. \A i \in 1 .. Len(q2) : Known(q2[i].id, q2[i].start, seen2, tap.id + 1, st)
    BY <1>1, <1>4, <1>6, <1>7 DEF LogOK
  <1>9. \A i, j \in 1 .. Len(q2) : i < j => Ordered(q2[i].id, q2[i].start, q2[j].id, q2[j].start, un2)
    <2> SUFFICES ASSUME NEW i \in 1 .. Len(q2), NEW j \in 1 .. Len(q2), i < j
                 PROVE  Ordered(q2[i].id, q2[i].start, q2[j].id, q2[j].start, un2)
      OBVIOUS
    <2>1. i \in 1 .. Len(q)
      BY <1>4, <1>7
    <2>2. CASE j \in 1 .. Len(q)
      BY <1>1, <1>4, <2>1, <2>2 DEF LogOK
    <2>3. CASE j = Len(q) + 1
      BY <1>2, <1>4, <1>5, <2>1, <2>3 DEF LogOK
    <2> QED BY <1>7, <2>2, <2>3
  <1>10. \A i \in 1 .. Len(r), j \in 1 .. Len(q2) : Ordered(r[i][1], r[i][2], q2[j].id, q2[j].start, un2)
    <2> SUFFICES ASSUME NEW i \in 1 .. Len(r), NEW j \in 1 .. Len(q2)
                 PROVE  Ordered(r[i][1], r[i][2], q2[j].id, q2[j].start, un2)
      OBVIOUS
    <2>2. CASE j \in 1 .. Len(q)
      BY <1>1, <1>4, <2>2 DEF LogOK
    <2>3. CASE j = Len(q) + 1
      BY <1>3, <1>4, <1>5, <2>3 DEF LogOK
    <2> QED BY <1>7, <2>2, <2>3
  <1>11. LogOK(q2, r, seen2, un2, tap.id + 1, st)
    BY <1>1, <1>8, <1>9, <1>10 DEF LogOK
  <1> QED BY <1>a, <1>11

\* The first update of the queue is handled.
LEMMA LogMoves ==
  ASSUME NEW W, NEW q \in Seq(Taps(W)), NEW r \in Seq(Nat \X Nat), NEW seen, NEW un, NEW off \in Nat, NEW st \in Nat,
         q # <<>>,
         LogOK(q, r, seen, un, off, st)
  PROVE  /\ LogOK(Tail(q), Append(r, <<Head(q).id, Head(q).start>>), seen, un, off, st)
         /\ Append(r, <<Head(q).id, Head(q).start>>) \in Seq(Nat \X Nat)
  <1>a. PICK q2, r2 : q2 = Tail(q) /\ r2 = Append(r, <<Head(q).id, Head(q).start>>)
    OBVIOUS
  <1>0. Len(q) \in Nat \ {0} /\ Head(q) = q[1] /\ q[1] \in Taps(W)
    OBVIOUS
  <1>1. PICK e : e = <<q[1].id, q[1].start>>
    OBVIOUS
  <1>2. e \in Nat \X Nat /\ e[1] = q[1].id /\ e[2] = q[1].start
    BY <1>0, <1>1 DEF Taps
  <1>3. r2 = Append(r, e)
    BY <1>a, <1>0, <1>1
  <1>4. r2 \in Seq(Nat \X Nat) /\ Len(r2) = Len(r) + 1 /\ r2[Len(r) + 1] = e /\ (\A i \in 1 .. Len(r) : r2[i] = r[i])
        /\ Len(r) \in Nat
    BY <1>2, <1>3
  <1>5. Len(q2) = Len(q) - 1 /\ \A i \in 1 .. Len(q2) : q2[i] = q[i + 1] /\ i + 1 \in 1 .. Len(q) /\ 1 < i + 1
    BY <1>a, <1>0
  <1>6. 1 \in 1 .. Len(q) /\ \A i \in 1 .. Len(r2) : i \in 1 .. Len(r) \/ i = Len(r) + 1
    BY <1>0, <1>4
  <1>7. \A i \in 1 .. Len(q2) : Known(q2[i].id, q2[i].start, seen, off, st)
    BY <1>5 DEF LogOK
  <1>8. \A i \in 1 .. Len(r2) : Known(r2[i][1], r2[i][2], seen, off, st)
    BY <1>2, <1>4, <1>6 DEF LogOK
  <1>9. \A i, j \in 1 .. Len(q2) : i < j => Ordered(q2[i].id, q2[i].start, q2[j].id, q2[j].start, un)
    <2> SUFFICES ASSUME NEW i \in 1 .. Len(q2), NEW j \in 1 .. Len(q2), i < j
                 PROVE  Ordered(q2[i].id, q2[i].start, q2[j].id, q2[j].start, un)
      OBVIOUS
    <2>1. i + 1 \in 1 .. Len(q) /\ j + 1 \in 1 .. Len(q) /\ i + 1 < j + 1
      BY <1>5
    <2>2. Ordered(q[i + 1].id, q[i + 1].start, q[j + 1].id, q[j + 1].start, un)
      BY <2>1 DEF LogOK
    <2> QED BY <1>5, <2>2
  <1>10. \A i, j \in 1 .. Len(r2) : i < j => Ordered(r2[i][1], r2[i][2], r2[j][1], r2[j][2], un)
    <2> SUFFICES ASSUME NEW i \in 1 .. Len(r2), NEW j \in 1 .. Len(r2), i < j
                 PROVE  Ordered(r2[i][1], r2[i][2], r2[j][1], r2[j][2], un)
      OBVIOUS
    <2>1. i \in 1 .. Len(r)
      BY <1>4, <1>6
    <2>2. CASE j \in 1 .. Len(r)
      BY <1>4, <2>1, <2>2 DEF LogOK
    <2>3. CASE j = Len(r) + 1
      <3>1. Ordered(r[i][1], r[i][2], q[1].id, q[1].start, un)
        BY <1>6, <2>1 DEF LogOK
      <3> QED BY <1>2, <1>4, <2>1, <2>3, <3>1
    <2> QED BY <1>6, <2>2, <2>3
  <1>11. \A i \in 1 .. Len(r2), j \in 1 .. Len(q2) : Ordered(r2[i][1], r2[i][2], q2[j].id, q2[j].start, un)
    <2> SUFFICES ASSUME NEW i \in 1 .. Len(r2), NEW j \in 1 .. Len(q2)
                 PROVE  Ordered(r2[i][1], r2[i][2], q2[j].id, q2[j].start, un)
      OBVIOUS
    <2>1. j + 1 \in 1 .. Len(q) /\ 1 < j + 1 /\ q2[j] = q[j + 1]
      BY <1>5
    <2>2. CASE i \in 1 .. Len(r)
      <3>1. Ordered(r[i][1], r[i][2], q[j + 1].id, q[j + 1].start, un)
        BY <2>1, <2>2 DEF LogOK
      <3> QED BY <1>4, <2>1, <2>2, <3>1
    <2>3. CASE i = Len(r) + 1
      <3>1. Ordered(q[1].id, q[1].start, q[j + 1].id, q[j + 1].start, un)
        BY <1>6, <2>1 DEF LogOK
      <3> QED BY <1>2, <1>4, <2>1, <2>3, <3>1
    <2> QED BY <1>6, <2>2, <2>3
  <1>12. LogOK(q2, r2, seen, un, off, st)
    BY <1>7, <1>8, <1>9, <1>10, <1>11 DEF LogOK
  <1> QED BY <1>a, <1>4, <1>12

\* A larger set of identities.
LEMMA QueueWidens ==
  ASSUME NEW W, NEW V, W \subseteq V, queue \in [Accounts -> Seq(Taps(W))], busy \in [Accounts -> SUBSET Taps(W)]
  PROVE  queue \in [Accounts -> Seq(Taps(V))] /\ busy \in [Accounts -> SUBSET Taps(V)]
  <1>1. Taps(W) \subseteq Taps(V)
    BY DEF Taps
  <1>2. ASSUME NEW s \in Seq(Taps(W)) PROVE s \in Seq(Taps(V))
    BY <1>1
  <1> QED BY <1>1, <1>2

\* The logs of a step that neither queues nor handles an update.
LEMMA LogsStay ==
  ASSUME PollInv, UNCHANGED <<queue, ran>>, offset' \in Nat, starts' \in Nat, taken \subseteq taken', unmarked \subseteq unmarked',
         (starts' = starts /\ offset <= offset') \/ starts < starts'
  PROVE  LogsOK'
  <1>1. PICK W : queue \in [Accounts -> Seq(Taps(W))]
    BY DEF PollInv, PollShape, QueueShape
  <1>2. offset \in Nat /\ starts \in Nat /\ ran \in [Accounts -> Seq(Nat \X Nat)]
    BY DEF PollInv, PollShape
  <1>3. taken \cup unmarked \subseteq taken' \cup unmarked'
    OBVIOUS
  <1> SUFFICES ASSUME NEW a \in Accounts
               PROVE  LogOK(queue[a], ran[a], taken' \cup unmarked', unmarked', offset', starts')
    BY DEF LogsOK
  <1>4. LogOK(queue[a], ran[a], taken \cup unmarked, unmarked, offset, starts) /\ queue[a] \in Seq(Taps(W)) /\ ran[a] \in Seq(Nat \X Nat)
    BY <1>1, <1>2 DEF PollInv, LogsOK
  <1>5. PICK seen, seen2 : seen = taken \cup unmarked /\ seen2 = taken' \cup unmarked'
    OBVIOUS
  <1>6. LogOK(queue[a], ran[a], seen, unmarked, offset, starts) /\ seen \subseteq seen2
    BY <1>3, <1>4, <1>5
  <1>7. PICK q, r, un2, off2, st2 : q = queue[a] /\ r = ran[a] /\ un2 = unmarked' /\ off2 = offset' /\ st2 = starts'
    OBVIOUS
  <1>8. q \in Seq(Taps(W)) /\ r \in Seq(Nat \X Nat) /\ off2 \in Nat /\ st2 \in Nat /\ unmarked \subseteq un2
    BY <1>4, <1>7
  <1>9. (st2 = starts /\ offset <= off2) \/ starts < st2
    BY <1>7
  <1>10. LogOK(q, r, seen, unmarked, offset, starts)
    BY <1>6, <1>7
  <1>11. LogOK(q, r, seen2, un2, off2, st2)
    BY <1>2, <1>6, <1>8, <1>9, <1>10, LogGrows, SMTT(30)
  <1> QED BY <1>5, <1>7, <1>11

\* An account sends an update, its bucket fills up, an administrator changes, or nothing happens.
LEMMA OutsideSteps ==
  ASSUME PollInv,
         (\E a \in Accounts : SendUpdate(a) \/ Refill(a)) \/ (\E i \in DOMAIN admins : AdminChanges(i)) \/ UNCHANGED pollVars
  PROVE  PollInv'
  <1>0. PollShape /\ BatchOK /\ OneWorker /\ LogsOK /\ ~overstepped /\ QueueShape
    BY DEF PollInv, PollShape
  <1>1. /\ UNCHANGED <<confirmed, offset, batch, taken, queue, workers, busy, ran, unmarked, overstepped, starts>>
        /\ \/ UNCHANGED <<sentBy, tokens>>
           \/ (\E a \in Accounts : Len(sentBy) < MaxSent /\ sentBy' = Append(sentBy, a)) /\ UNCHANGED tokens
           \/ (\E a \in Accounts : tokens' = [tokens EXCEPT ![a] = Burst]) /\ UNCHANGED sentBy
    BY DEF SendUpdate, Refill, AdminChanges, pollVars
  <1>2. sentBy' \in Seq(Accounts) /\ Len(sentBy') <= MaxSent /\ Len(sentBy) <= Len(sentBy') /\ tokens' \in [Accounts -> 0 .. Burst]
        /\ Len(sentBy) \in Nat /\ Len(sentBy') \in Nat
    <2>1. MaxSent \in Nat /\ Burst \in 0 .. Burst
      BY TelegramAssumption
    <2>2. sentBy \in Seq(Accounts) /\ Len(sentBy) <= MaxSent /\ tokens \in [Accounts -> 0 .. Burst]
      BY <1>0 DEF PollShape
    <2>3. CASE UNCHANGED <<sentBy, tokens>>
      BY <2>2, <2>3
    <2>4. ASSUME NEW a \in Accounts, Len(sentBy) < MaxSent, sentBy' = Append(sentBy, a)
          PROVE  sentBy' \in Seq(Accounts) /\ Len(sentBy') <= MaxSent /\ Len(sentBy) <= Len(sentBy') /\ Len(sentBy') \in Nat
      <3>1. sentBy' \in Seq(Accounts) /\ Len(sentBy') = Len(sentBy) + 1 /\ Len(sentBy) \in Nat
        BY <2>2, <2>4
      <3> QED BY <2>1, <2>4, <3>1
    <2>5. ASSUME NEW a \in Accounts, tokens' = [tokens EXCEPT ![a] = Burst] PROVE tokens' \in [Accounts -> 0 .. Burst]
      BY <2>1, <2>2, <2>5
    <2>6. Len(sentBy) \in Nat
      BY <2>2
    <2> QED BY <1>1, <2>2, <2>3, <2>4, <2>5, <2>6
  <1>3. QueueShape'
    BY <1>0, <1>1 DEF QueueShape
  <1>4. PollShape'
    <2>1. confirmed' \in 0 .. Len(sentBy') /\ offset' \in 0 .. Len(sentBy') + 1
      BY <1>0, <1>1, <1>2, SMTT(40) DEF PollShape
    <2> QED BY <1>0, <1>1, <1>2, <1>3, <2>1 DEF PollShape
  <1>5. BatchOK'
    <2>1. \A i \in 1 .. Len(batch) : batch[i] \in 1 .. Len(sentBy')
      BY <1>0, <1>2 DEF BatchOK
    <2> QED BY <1>0, <1>1, <2>1 DEF BatchOK
  <1>6. OneWorker' /\ LogsOK'
    BY <1>0, <1>1 DEF OneWorker, LogsOK
  <1> QED BY <1>0, <1>1, <1>4, <1>5, <1>6 DEF PollInv

\* getUpdates confirms what is below the offset and brings the rest.
LEMMA GetUpdatesStep ==
  ASSUME PollInv, GetUpdates
  PROVE  PollInv'
  <1>0. PollShape /\ OneWorker /\ LogsOK /\ ~overstepped /\ QueueShape
        /\ UNCHANGED <<sentBy, offset, taken, tokens, queue, workers, busy, ran, unmarked, overstepped, starts>>
    BY DEF PollInv, PollShape, GetUpdates
  <1>1. sentBy \in Seq(Accounts) /\ Len(sentBy) \in Nat /\ confirmed \in 0 .. Len(sentBy) /\ offset \in 0 .. Len(sentBy) + 1
    BY <1>0 DEF PollShape
  <1>2. confirmed' \in 0 .. Len(sentBy) /\ offset <= confirmed' + 1
    BY <1>1 DEF GetUpdates
  <1>3. \/ batch' = [i \in 1 .. (Len(sentBy) - confirmed') |-> confirmed' + i]
        \/ batch' = <<>>
    BY DEF GetUpdates
  <1>4. PICK n \in Nat : n = Len(sentBy) - confirmed'
    BY <1>1, <1>2
  <1>5. batch' \in Seq(Nat) /\ BatchOK'
    <2>1. CASE batch' = <<>>
      BY <2>1 DEF BatchOK
    <2>2. CASE batch' = [i \in 1 .. n |-> confirmed' + i]
      <3>a. PICK L, c \in Nat : L = Len(sentBy) /\ c = confirmed' /\ n = L - c /\ offset <= c + 1 /\ offset \in Nat
        <4>1. Len(sentBy) \in Nat /\ confirmed' \in Nat /\ offset \in Nat
          BY <1>1, <1>2
        <4> QED BY <1>2, <1>4, <4>1
      <3>1. batch' \in [1 .. n -> Nat]
        BY <2>2, <3>a
      <3>2. batch' \in Seq(Nat) /\ Len(batch') = n
        BY <3>1
      <3>3. \A i \in 1 .. n : batch'[i] = confirmed' + i
        BY <2>2
      <3>4. \A i \in 1 .. n : batch'[i] \in 1 .. Len(sentBy) /\ offset <= batch'[i]
        <4>1. \A i \in 1 .. n : c + i \in 1 .. L /\ offset <= c + i
          <5>1. n \in Nat /\ L \in Nat /\ c \in Nat /\ n = L - c /\ offset \in Nat /\ offset <= c + 1
            BY <1>4, <3>a
          <5> QED BY <5>1
        <4> QED BY <3>a, <3>3, <4>1
      <3>5. \A i, j \in 1 .. n : i < j => batch'[i] < batch'[j]
        BY <1>2, <3>3
      <3> QED BY <1>0, <3>2, <3>4, <3>5 DEF BatchOK
    <2> QED BY <1>3, <1>4, <2>1, <2>2
  <1>6. QueueShape'
    BY <1>0 DEF QueueShape
  <1>7. PollShape'
    BY <1>0, <1>2, <1>5, <1>6 DEF PollShape
  <1>8. OneWorker' /\ LogsOK'
    BY <1>0 DEF OneWorker, LogsOK
  <1> QED BY <1>0, <1>5, <1>7, <1>8 DEF PollInv

\* Polling starts over from offset 0, in this process or in a new one, whose queues are empty.
LEMMA StartSteps ==
  ASSUME PollInv, NewBotClient \/ Restart
  PROVE  PollInv'
  <1>0. PollShape /\ OneWorker /\ LogsOK /\ ~overstepped /\ QueueShape /\ starts \in Nat
        /\ UNCHANGED <<sentBy, confirmed, taken, ran, unmarked, overstepped>>
        /\ offset' = 0 /\ batch' = <<>> /\ starts' = starts + 1
    BY DEF PollInv, PollShape, NewBotClient, Restart
  <1>1. BatchOK' /\ batch' \in Seq(Nat) /\ starts' \in Nat /\ starts < starts' /\ offset' \in Nat
    BY <1>0 DEF BatchOK
  <1>2. offset' \in 0 .. Len(sentBy') + 1
    <2>1. Len(sentBy) \in Nat
      BY <1>0 DEF PollShape
    <2> QED BY <1>0, <2>1
  <1>3. CASE NewBotClient
    <2>1. UNCHANGED <<tokens, queue, workers, busy>>
      BY <1>3 DEF NewBotClient
    <2>2. QueueShape' /\ OneWorker'
      BY <1>0, <2>1 DEF QueueShape, OneWorker
    <2>3. PollShape'
      BY <1>0, <1>1, <1>2, <2>1, <2>2 DEF PollShape
    <2>4. LogsOK'
      BY <1>0, <1>1, <2>1, LogsStay
    <2> QED BY <1>0, <1>1, <2>2, <2>3, <2>4 DEF PollInv
  <1>4. CASE Restart
    <2>1. /\ tokens' = [a \in Accounts |-> Burst] /\ queue' = [a \in Accounts |-> <<>>]
          /\ workers' = [a \in Accounts |-> 0] /\ busy' = [a \in Accounts |-> {}]
      BY <1>4 DEF Restart
    <2>2. QueueShape' /\ OneWorker'
      BY <2>1 DEF QueueShape, OneWorker
    <2>3. tokens' \in [Accounts -> 0 .. Burst] /\ workers' \in [Accounts -> 0 .. 1] /\ \A a \in Accounts : Len(queue'[a]) <= MaxQueued
      BY <2>1, TelegramAssumption
    <2>4. PollShape'
      BY <1>0, <1>1, <1>2, <2>2, <2>3 DEF PollShape
    <2>5. LogsOK'
      <3> SUFFICES ASSUME NEW a \in Accounts PROVE LogOK(<<>>, ran[a], taken \cup unmarked, unmarked, offset', starts')
        BY <1>0, <2>1 DEF LogsOK
      <3>1. PICK W : queue \in [Accounts -> Seq(Taps(W))]
        BY <1>0 DEF QueueShape
      <3>2. LogOK(queue[a], ran[a], taken \cup unmarked, unmarked, offset, starts) /\ ran[a] \in Seq(Nat \X Nat) /\ offset \in Nat
            /\ queue[a] \in Seq(Taps(W))
        <4>1. LogOK(queue[a], ran[a], taken \cup unmarked, unmarked, offset, starts) /\ queue[a] \in Seq(Taps(W))
          BY <1>0, <3>1 DEF LogsOK
        <4>2. ran \in [Accounts -> Seq(Nat \X Nat)] /\ offset \in Nat
          BY <1>0 DEF PollShape
        <4> QED BY <4>1, <4>2
      <3>3. LogOK(queue[a], ran[a], taken \cup unmarked, unmarked, offset', starts')
        BY <1>0, <1>1, <3>2, LogGrows
      <3> QED BY <3>3, LogLost
    <2> QED BY <1>0, <1>1, <2>2, <2>4, <2>5 DEF PollInv
  <1> QED BY <1>3, <1>4

\* What a dispatched update may do: it is marked or Redis fails, and it joins
\* its account's queue or is dropped.
LEMMA DispatchFacts ==
  ASSUME PollInv, Dispatch
  PROVE  \E id \in 1 .. Len(sentBy) : \E a \in Accounts :
           /\ id = Head(batch) /\ offset <= id /\ offset' = id + 1 /\ batch # <<>> /\ batch' = Tail(batch)
           /\ UNCHANGED <<sentBy, confirmed, busy, ran, overstepped, starts>>
           /\ taken \subseteq taken' /\ taken' \subseteq taken \cup {id}
           /\ unmarked \subseteq unmarked' /\ unmarked' \subseteq unmarked \cup {id}
           /\ tokens' = tokens \/ (tokens[a] > 0 /\ tokens' = [tokens EXCEPT ![a] = @ - 1])
           /\ \/ UNCHANGED <<queue, workers>>
              \/ /\ \E who : Enqueue(a, [id |-> id, who |-> who, start |-> starts])
                 /\ id \in taken' \cup unmarked'
                 /\ id \in unmarked' \/ id \notin taken \cup unmarked
  <1>1. batch # <<>> /\ batch \in Seq(Nat) /\ sentBy \in Seq(Accounts) /\ BatchOK
    BY DEF Dispatch, PollInv, PollShape
  <1>2. PICK id : id = Head(batch)
    OBVIOUS
  <1>3. id \in 1 .. Len(sentBy) /\ offset <= id
    <2>1. 1 \in 1 .. Len(batch) /\ Head(batch) = batch[1]
      BY <1>1
    <2> QED BY <1>1, <1>2, <2>1 DEF BatchOK
  <1>4. PICK a \in Accounts : a = sentBy[id]
    BY <1>1, <1>3
  <1>5. offset' = id + 1
    <2>1. offset \in Nat /\ id \in Nat
      BY <1>3 DEF PollInv, PollShape
    <2> QED BY <1>2, <1>3, <2>1 DEF Dispatch
  <1>6. UNCHANGED <<sentBy, confirmed, busy, ran, overstepped, starts>> /\ batch' = Tail(batch)
    BY DEF Dispatch
  <1>7. PICK who : \/ UNCHANGED <<tokens, taken, queue, workers, unmarked, changes>>
                   \/ /\ tokens[a] > 0 /\ tokens' = [tokens EXCEPT ![a] = @ - 1]
                      /\ \/ /\ taken' = taken \cup {id} /\ unmarked' = unmarked
                            /\ IF FirstDelivery(id) THEN Enqueue(a, [id |-> id, who |-> who, start |-> starts])
                               ELSE UNCHANGED <<queue, workers>>
                         \/ /\ taken' = taken /\ unmarked' = unmarked \cup {id}
                            /\ Enqueue(a, [id |-> id, who |-> who, start |-> starts])
    <2>1. PICK rows \in AdminsFor :
             LET who == Authorize(a, rows)
                 tap == [id |-> id, who |-> who, start |-> starts]
             IN /\ authByID' = rows
                /\ \/ /\ who = Nobody \/ tokens[a] = 0
                      /\ UNCHANGED <<tokens, taken, queue, workers, unmarked, changes>>
                   \/ /\ who # Nobody /\ tokens[a] > 0
                      /\ tokens' = [tokens EXCEPT ![a] = @ - 1]
                      /\ \/ /\ taken' = taken \cup {id}
                            /\ IF FirstDelivery(id) THEN Enqueue(a, tap)
                               ELSE UNCHANGED <<queue, workers>>
                            /\ UNCHANGED <<unmarked, changes>>
                         \/ /\ changes < MaxChanges
                            /\ changes' = changes + 1
                            /\ unmarked' = unmarked \cup {id}
                            /\ Enqueue(a, tap)
                            /\ UNCHANGED taken
      BY <1>2, <1>4 DEF Dispatch
    <2>2. PICK w : w = Authorize(a, rows)
      OBVIOUS
    <2> QED BY <2>1
  <1>8. FirstDelivery(id) => id \notin taken
    BY DEF FirstDelivery
  <1>9. /\ taken \subseteq taken' /\ taken' \subseteq taken \cup {id}
        /\ unmarked \subseteq unmarked' /\ unmarked' \subseteq unmarked \cup {id}
        /\ tokens' = tokens \/ (tokens[a] > 0 /\ tokens' = [tokens EXCEPT ![a] = @ - 1])
    BY <1>7
  <1>10. \/ UNCHANGED <<queue, workers>>
         \/ /\ Enqueue(a, [id |-> id, who |-> who, start |-> starts])
            /\ id \in taken' \cup unmarked'
            /\ id \in unmarked' \/ id \notin taken \cup unmarked
    BY <1>7, <1>8
  <1> QED BY <1>1, <1>2, <1>3, <1>4, <1>5, <1>6, <1>9, <1>10

\* An update is dispatched.
LEMMA DispatchStep ==
  ASSUME PollInv, Dispatch
  PROVE  PollInv'
  <1>0. PollShape /\ BatchOK /\ OneWorker /\ LogsOK /\ ~overstepped /\ QueueShape
    BY DEF PollInv, PollShape
  <1>1. PICK id \in 1 .. Len(sentBy), a \in Accounts :
           /\ id = Head(batch) /\ offset <= id /\ offset' = id + 1 /\ batch # <<>> /\ batch' = Tail(batch)
           /\ UNCHANGED <<sentBy, confirmed, busy, ran, overstepped, starts>>
           /\ taken \subseteq taken' /\ taken' \subseteq taken \cup {id}
           /\ unmarked \subseteq unmarked' /\ unmarked' \subseteq unmarked \cup {id}
           /\ tokens' = tokens \/ (tokens[a] > 0 /\ tokens' = [tokens EXCEPT ![a] = @ - 1])
           /\ \/ UNCHANGED <<queue, workers>>
              \/ /\ \E who : Enqueue(a, [id |-> id, who |-> who, start |-> starts])
                 /\ id \in taken' \cup unmarked'
                 /\ id \in unmarked' \/ id \notin taken \cup unmarked
    BY DispatchFacts
  <1>2. /\ sentBy \in Seq(Accounts) /\ Len(sentBy) \in Nat /\ Len(sentBy) <= MaxSent /\ MaxSent \in Nat /\ batch \in Seq(Nat)
        /\ offset \in Nat /\ starts \in Nat /\ id \in Nat
    BY <1>0, TelegramAssumption DEF PollShape
  <1>3. batch' \in Seq(Nat) /\ BatchOK'
    <2>1. batch' \in Seq(Nat) /\ Len(batch) \in Nat \ {0} /\ Len(batch') = Len(batch) - 1 /\ id = batch[1]
      BY <1>1, <1>2
    <2>2. \A i \in 1 .. Len(batch') : batch'[i] = batch[i + 1] /\ i + 1 \in 1 .. Len(batch) /\ 1 < i + 1 /\ 1 \in 1 .. Len(batch)
      BY <1>1, <1>2, <2>1
    <2>3. \A i \in 1 .. Len(batch') : batch[i + 1] \in 1 .. Len(sentBy) /\ id < batch[i + 1]
      BY <1>0, <2>1, <2>2 DEF BatchOK
    <2>4. \A i, j \in 1 .. Len(batch') : i < j => batch[i + 1] < batch[j + 1]
      <3> SUFFICES ASSUME NEW i \in 1 .. Len(batch'), NEW j \in 1 .. Len(batch'), i < j PROVE batch[i + 1] < batch[j + 1]
        OBVIOUS
      <3>1. i + 1 \in 1 .. Len(batch) /\ j + 1 \in 1 .. Len(batch) /\ i + 1 < j + 1
        BY <2>2
      <3> QED BY <1>0, <3>1 DEF BatchOK
    <2>5. \A i \in 1 .. Len(batch') : batch'[i] \in 1 .. Len(sentBy) /\ id + 1 <= batch'[i]
      BY <1>2, <2>2, <2>3, SMTT(40)
    <2>6. \A i, j \in 1 .. Len(batch') : i < j => batch'[i] < batch'[j]
      BY <2>2, <2>4
    <2> QED BY <1>1, <2>1, <2>5, <2>6 DEF BatchOK
  <1>4. /\ taken' \subseteq 1 .. MaxSent /\ unmarked' \subseteq 1 .. MaxSent /\ tokens' \in [Accounts -> 0 .. Burst]
        /\ offset' \in 0 .. Len(sentBy') + 1 /\ offset <= offset' /\ offset' \in Nat
    <2>1. id \in 1 .. MaxSent
      BY <1>2
    <2>2. taken \subseteq 1 .. MaxSent /\ unmarked \subseteq 1 .. MaxSent /\ tokens \in [Accounts -> 0 .. Burst]
      BY <1>0 DEF PollShape
    <2>3. tokens' \in [Accounts -> 0 .. Burst]
      <3>1. tokens[a] \in 0 .. Burst /\ Burst \in Nat
        BY <2>2, TelegramAssumption
      <3>2. tokens[a] > 0 => tokens[a] - 1 \in 0 .. Burst
        BY <3>1
      <3>3. CASE tokens[a] > 0 /\ tokens' = [tokens EXCEPT ![a] = @ - 1]
        <4>1. PICK k \in 0 .. Burst : k = tokens[a] - 1
          BY <3>2, <3>3
        <4>2. tokens' = [tokens EXCEPT ![a] = k]
          BY <3>3, <4>1
        <4> QED BY <2>2, <4>1, <4>2
      <3>4. tokens' = tokens \/ (tokens[a] > 0 /\ tokens' = [tokens EXCEPT ![a] = @ - 1])
        BY <1>1, Zenon
      <3> QED BY <2>2, <3>3, <3>4
    <2>4. id + 1 \in 0 .. Len(sentBy) + 1 /\ (offset <= id => offset <= id + 1) /\ id + 1 \in Nat
      BY <1>2
    <2>5. offset <= id /\ offset' = id + 1 /\ sentBy' = sentBy
      BY <1>1
    <2>6. taken' \subseteq taken \cup {id} /\ unmarked' \subseteq unmarked \cup {id}
      BY <1>1
    <2>7. taken' \subseteq 1 .. MaxSent /\ unmarked' \subseteq 1 .. MaxSent
      BY <2>1, <2>2, <2>6
    <2> QED BY <2>3, <2>4, <2>5, <2>7
  <1>5. CASE UNCHANGED <<queue, workers>>
    <2>1. QueueShape' /\ OneWorker'
      BY <1>0, <1>1, <1>5 DEF QueueShape, OneWorker
    <2>2. PollShape'
      BY <1>0, <1>1, <1>2, <1>3, <1>4, <1>5, <2>1 DEF PollShape
    <2>3. LogsOK'
      BY <1>1, <1>2, <1>4, <1>5, LogsStay
    <2> QED BY <1>0, <1>1, <1>3, <2>1, <2>2, <2>3 DEF PollInv
  <1>6. ASSUME NEW who, Enqueue(a, [id |-> id, who |-> who, start |-> starts]), queue' # queue,
               id \in taken' \cup unmarked', id \in unmarked' \/ id \notin taken \cup unmarked
        PROVE  PollInv'
    <2>1. PICK V : queue \in [Accounts -> Seq(Taps(V))] /\ busy \in [Accounts -> SUBSET Taps(V)]
      BY <1>0 DEF QueueShape
    <2>2. PICK W : W = V \cup {who}
      OBVIOUS
    <2>3. queue \in [Accounts -> Seq(Taps(W))] /\ busy \in [Accounts -> SUBSET Taps(W)]
      BY <2>1, <2>2, QueueWidens
    <2>4. PICK tap : tap = [id |-> id, who |-> who, start |-> starts]
      OBVIOUS
    <2>5. tap \in Taps(W) /\ tap.id = id /\ tap.start = starts
      BY <1>2, <2>2, <2>4 DEF Taps
    <2>6. /\ Len(queue[a]) < MaxQueued /\ queue' = [queue EXCEPT ![a] = Append(queue[a], tap)]
          /\ workers' = [workers EXCEPT ![a] = WorkersFor(a)]
      <3>1. MaxQueued \in Nat /\ Len(queue[a]) \in Nat
        BY <2>3, TelegramAssumption
      <3> QED BY <1>6, <2>4, <3>1 DEF Enqueue
    <2>7. PICK q2 : q2 = Append(queue[a], tap)
      OBVIOUS
    <2>8. q2 \in Seq(Taps(W)) /\ Len(q2) <= MaxQueued
      <3>1. MaxQueued \in Nat /\ Len(queue[a]) \in Nat /\ queue[a] \in Seq(Taps(W))
        BY <2>3, TelegramAssumption
      <3>2. q2 \in Seq(Taps(W)) /\ Len(q2) = Len(queue[a]) + 1
        BY <2>5, <2>7, <3>1
      <3> QED BY <2>6, <3>1, <3>2
    <2>9. queue' \in [Accounts -> Seq(Taps(W))] /\ queue'[a] = q2 /\ \A b \in Accounts \ {a} : queue'[b] = queue[b]
      BY <2>3, <2>6, <2>7, <2>8
    <2>10. QueueShape'
      BY <1>1, <2>3, <2>9 DEF QueueShape
    <2>11. workers' \in [Accounts -> 0 .. 1] /\ OneWorker'
      <3>1. workers \in [Accounts -> 0 .. 1]
        BY <1>0 DEF PollShape
      <3>2. WorkersFor(a) = 1
        BY <3>1 DEF WorkersFor
      <3>3. workers' \in [Accounts -> 0 .. 1] /\ workers'[a] = 1 /\ \A b \in Accounts \ {a} : workers'[b] = workers[b]
        BY <2>6, <3>1, <3>2
      <3>4. \A b \in Accounts : workers[b] = 1 => workers'[b] = 1
        BY <3>3
      <3> QED BY <1>0, <1>1, <3>3, <3>4 DEF OneWorker
    <2>12. PollShape'
      <3>1. \A b \in Accounts : Len(queue'[b]) <= MaxQueued
        BY <1>0, <2>8, <2>9 DEF PollShape
      <3> QED BY <1>0, <1>1, <1>2, <1>3, <1>4, <2>10, <2>11, <3>1 DEF PollShape
    <2>13. LogsOK'
      <3>1. PICK seen, seen2 : seen = taken \cup unmarked /\ seen2 = taken' \cup unmarked'
        OBVIOUS
      <3>2. /\ seen \subseteq seen2 /\ unmarked \subseteq unmarked' /\ tap.id \in seen2
            /\ tap.id \in unmarked' \/ tap.id \notin seen
        BY <1>1, <1>6, <2>5, <3>1
      <3> SUFFICES ASSUME NEW b \in Accounts PROVE LogOK(queue'[b], ran[b], seen2, unmarked', offset', starts)
        BY <1>1, <3>1 DEF LogsOK
      <3>3. /\ LogOK(queue[b], ran[b], seen, unmarked, offset, starts) /\ queue[b] \in Seq(Taps(W))
        BY <1>0, <2>3, <3>1 DEF LogsOK
      <3>4. ran[b] \in Seq(Nat \X Nat)
        BY <1>0 DEF PollShape
      <3>5. CASE b = a
        <4>1. offset <= tap.id
          BY <1>1, <2>5
        <4>2. PICK q, r : q = queue[a] /\ r = ran[a]
          OBVIOUS
        <4>3. /\ LogOK(q, r, seen, unmarked, offset, starts) /\ q \in Seq(Taps(W)) /\ r \in Seq(Nat \X Nat)
              /\ offset \in Nat /\ starts \in Nat /\ tap \in Taps(W) /\ tap.start = starts
          BY <1>2, <2>5, <2>7, <3>3, <3>4, <3>5, <4>2
        <4>4. LogOK(Append(q, tap), r, seen2, unmarked', tap.id + 1, starts)
          BY <3>2, <4>1, <4>3, LogAppend
        <4>5. queue'[b] = Append(q, tap) /\ ran[b] = r /\ offset' = tap.id + 1
          BY <1>1, <2>5, <2>7, <2>9, <3>5, <4>2
        <4> QED BY <4>4, <4>5
      <3>6. CASE b # a
        <4>1. LogOK(queue[b], ran[b], seen2, unmarked', offset', starts)
          BY <1>2, <1>4, <3>2, <3>3, <3>4, LogGrows
        <4> QED BY <2>9, <3>6, <4>1
      <3> QED BY <3>5, <3>6
    <2> QED BY <1>0, <1>1, <1>3, <2>11, <2>12, <2>13 DEF PollInv
  <1>7. ASSUME NEW who, Enqueue(a, [id |-> id, who |-> who, start |-> starts]), queue' = queue PROVE workers' = workers
    <2>1. PICK W : queue \in [Accounts -> Seq(Taps(W))]
      BY <1>0 DEF QueueShape
    <2>2. PICK tap : tap = [id |-> id, who |-> who, start |-> starts]
      OBVIOUS
    <2>3. SUFFICES ASSUME queue = [queue EXCEPT ![a] = Append(queue[a], tap)] PROVE FALSE
      BY <1>7, <2>2 DEF Enqueue
    <2>4. queue[a] = Append(queue[a], tap) /\ queue[a] \in Seq(Taps(W))
      BY <2>1, <2>3
    <2>5. Len(Append(queue[a], tap)) = Len(queue[a]) + 1 /\ Len(queue[a]) \in Nat
      BY <2>4
    <2> QED BY <2>4, <2>5
  <1> QED BY <1>1, <1>5, <1>6, <1>7

\* An account has no handler or one.
LEMMA BusyCount ==
  ASSUME OneWorker, NEW a \in Accounts
  PROVE  Cardinality(busy[a]) \in {0, 1} /\ (Cardinality(busy[a]) = 0 => busy[a] = {})
  <1>1. CASE busy[a] = {}
    <2>1. Cardinality({}) = 0
      BY FS_EmptySet
    <2> QED BY <1>1, <2>1
  <1>2. ASSUME NEW tap, busy[a] = {tap} PROVE Cardinality(busy[a]) = 1
    <2>1. Cardinality({tap}) = 1
      BY FS_Singleton
    <2> QED BY <1>2, <2>1
  <1> QED BY <1>1, <1>2 DEF OneWorker

\* An update is taken from the queue, its handler calls the panel and ends, and the goroutine ends.
LEMMA WorkerSteps ==
  ASSUME PollInv, NEW a \in Accounts,
         NextJob(a) \/ WorkerEnds(a) \/ \E tap \in busy[a] : PanelCall(a, tap) \/ JobEnds(a, tap)
  PROVE  PollInv'
  <1>0. PollShape /\ BatchOK /\ OneWorker /\ LogsOK /\ ~overstepped /\ QueueShape
        /\ UNCHANGED <<sentBy, confirmed, offset, batch, taken, tokens, unmarked, starts>>
    BY DEF PollInv, PollShape, NextJob, WorkerEnds, PanelCall, JobEnds
  <1>1. PICK W : queue \in [Accounts -> Seq(Taps(W))] /\ busy \in [Accounts -> SUBSET Taps(W)]
    BY <1>0 DEF QueueShape
  <1>2. workers \in [Accounts -> 0 .. 1] /\ ran \in [Accounts -> Seq(Nat \X Nat)] /\ offset \in Nat /\ starts \in Nat
    BY <1>0 DEF PollShape
  <1>3. BatchOK'
    BY <1>0 DEF BatchOK
  <1>4. Cardinality(busy[a]) < workers[a] => busy[a] = {} /\ workers[a] = 1
    <2> SUFFICES ASSUME Cardinality(busy[a]) < workers[a] PROVE busy[a] = {} /\ workers[a] = 1
      OBVIOUS
    <2>1. Cardinality(busy[a]) \in {0, 1} /\ (Cardinality(busy[a]) = 0 => busy[a] = {})
      BY <1>0, BusyCount
    <2> QED BY <1>2, <2>1
  <1>5. CASE NextJob(a)
    <2>1. busy[a] = {} /\ workers[a] = 1 /\ queue[a] # <<>> /\ UNCHANGED <<workers, overstepped>>
      BY <1>4, <1>5 DEF NextJob
    <2>2. PICK h, q2, r2 : h = Head(queue[a]) /\ q2 = Tail(queue[a]) /\ r2 = Append(ran[a], <<Head(queue[a]).id, Head(queue[a]).start>>)
      OBVIOUS
    <2>3. queue[a] \in Seq(Taps(W)) /\ ran[a] \in Seq(Nat \X Nat)
      BY <1>1, <1>2
    <2>4. h \in Taps(W) /\ q2 \in Seq(Taps(W)) /\ Len(q2) <= Len(queue[a]) /\ Len(q2) \in Nat /\ Len(queue[a]) \in Nat
      BY <2>1, <2>2, <2>3
    <2>5. queue' = [queue EXCEPT ![a] = q2] /\ busy' = [busy EXCEPT ![a] = busy[a] \cup {h}] /\ ran' = [ran EXCEPT ![a] = r2]
      BY <1>5, <2>2 DEF NextJob
    <2>6. PICK seen : seen = taken \cup unmarked
      OBVIOUS
    <2>7. \A b \in Accounts : LogOK(queue[b], ran[b], seen, unmarked, offset, starts)
      BY <1>0, <2>6 DEF LogsOK
    <2>8. LogOK(q2, r2, seen, unmarked, offset, starts) /\ r2 \in Seq(Nat \X Nat)
      <3>1. PICK q, r : q = queue[a] /\ r = ran[a]
        OBVIOUS
      <3>2. LogOK(q, r, seen, unmarked, offset, starts) /\ q \in Seq(Taps(W)) /\ r \in Seq(Nat \X Nat) /\ q # <<>>
        BY <2>1, <2>3, <2>7, <3>1
      <3>3. q2 = Tail(q) /\ r2 = Append(r, <<Head(q).id, Head(q).start>>)
        BY <2>2, <3>1
      <3>4. /\ LogOK(Tail(q), Append(r, <<Head(q).id, Head(q).start>>), seen, unmarked, offset, starts)
            /\ Append(r, <<Head(q).id, Head(q).start>>) \in Seq(Nat \X Nat)
        BY <1>2, <3>2, LogMoves
      <3> QED BY <3>3, <3>4
    <2>9. queue' \in [Accounts -> Seq(Taps(W))] /\ queue'[a] = q2 /\ \A b \in Accounts \ {a} : queue'[b] = queue[b]
      BY <1>1, <2>4, <2>5
    <2>10. ran' \in [Accounts -> Seq(Nat \X Nat)] /\ ran'[a] = r2 /\ \A b \in Accounts \ {a} : ran'[b] = ran[b]
      BY <1>2, <2>5, <2>8
    <2>11. busy' \in [Accounts -> SUBSET Taps(W)] /\ busy'[a] = {h} /\ \A b \in Accounts \ {a} : busy'[b] = busy[b]
      BY <1>1, <2>1, <2>4, <2>5
    <2>12. QueueShape'
      BY <2>9, <2>11 DEF QueueShape
    <2>13. OneWorker'
      BY <1>0, <2>1, <2>11 DEF OneWorker
    <2>14. LogsOK'
      BY <1>0, <2>6, <2>7, <2>8, <2>9, <2>10 DEF LogsOK
    <2>15. PollShape'
      <3>1. \A b \in Accounts : Len(queue'[b]) <= MaxQueued
        <4>1. Len(queue[a]) <= MaxQueued /\ MaxQueued \in Nat
          BY <1>0, TelegramAssumption DEF PollShape
        <4>2. Len(q2) <= MaxQueued
          BY <2>4, <4>1
        <4> QED BY <1>0, <2>9, <4>2 DEF PollShape
      <3> QED BY <1>0, <2>1, <2>10, <2>12, <3>1 DEF PollShape
    <2> QED BY <1>0, <1>3, <2>1, <2>13, <2>14, <2>15 DEF PollInv
  <1>6. CASE WorkerEnds(a)
    <2>1. busy[a] = {} /\ workers[a] = 1 /\ UNCHANGED <<queue, busy, ran, overstepped>> /\ workers' = [workers EXCEPT ![a] = workers[a] - 1]
      BY <1>4, <1>6 DEF WorkerEnds
    <2>2. workers' \in [Accounts -> 0 .. 1] /\ \A b \in Accounts \ {a} : workers'[b] = workers[b]
      BY <1>2, <2>1
    <2>3. OneWorker'
      BY <1>0, <2>1, <2>2 DEF OneWorker
    <2>4. LogsOK' /\ QueueShape'
      BY <1>0, <2>1 DEF LogsOK, QueueShape
    <2>5. PollShape'
      BY <1>0, <2>1, <2>2, <2>4 DEF PollShape
    <2> QED BY <1>0, <1>3, <2>1, <2>3, <2>4, <2>5 DEF PollInv
  <1>7. ASSUME NEW tap \in busy[a], PanelCall(a, tap) PROVE PollInv'
    <2>1. UNCHANGED <<queue, workers, busy, ran>> /\ ~overstepped'
      BY <1>7 DEF PanelCall, RightsOfCall
    <2>2. LogsOK' /\ QueueShape' /\ OneWorker'
      BY <1>0, <2>1 DEF LogsOK, QueueShape, OneWorker
    <2>3. PollShape'
      BY <1>0, <2>1, <2>2 DEF PollShape
    <2> QED BY <1>3, <2>1, <2>2, <2>3 DEF PollInv
  <1>8. ASSUME NEW tap \in busy[a], JobEnds(a, tap) PROVE PollInv'
    <2>1. UNCHANGED <<queue, workers, ran, overstepped>> /\ busy' = [busy EXCEPT ![a] = busy[a] \ {tap}]
      BY <1>8 DEF JobEnds
    <2>2. busy' \in [Accounts -> SUBSET Taps(W)] /\ busy'[a] = busy[a] \ {tap} /\ \A b \in Accounts \ {a} : busy'[b] = busy[b]
      BY <1>1, <2>1
    <2>3. busy'[a] = {}
      BY <1>0, <1>8, <2>2 DEF OneWorker
    <2>4. QueueShape' /\ LogsOK'
      BY <1>0, <1>1, <2>1, <2>2 DEF LogsOK, QueueShape
    <2>5. OneWorker'
      BY <1>0, <2>1, <2>2, <2>3 DEF OneWorker
    <2>6. PollShape'
      BY <1>0, <2>1, <2>4 DEF PollShape
    <2> QED BY <1>0, <1>3, <2>1, <2>4, <2>5, <2>6 DEF PollInv
  <1> QED BY <1>5, <1>6, <1>7, <1>8

\* An account's taps are handled one at a time, each at most once unless Redis
\* failed, in the order they were made while the polling goes on, and with no
\* more rights than the administrator they are charged to (Run, dispatch,
\* enqueue, firstDelivery, call).
THEOREM TapsTheorem == PollSpec => []TapsAreSafe
  <1>1. PollInit => PollInv
    <2> SUFFICES ASSUME PollInit PROVE PollInv
      OBVIOUS
    <2>1. QueueShape /\ OneWorker /\ BatchOK /\ LogsOK
      BY DEF PollInit, QueueShape, OneWorker, BatchOK, LogsOK, LogOK
    <2>2. PollShape
      BY <2>1, TelegramAssumption DEF PollInit, PollShape
    <2> QED BY <2>1, <2>2 DEF PollInv, PollInit
  <1>2. PollInv /\ [PollNext]_pollVars => PollInv'
    BY OutsideSteps, GetUpdatesStep, StartSteps, DispatchStep, WorkerSteps DEF PollNext
  <1>3. PollInv => TapsAreSafe
    <2> SUFFICES ASSUME PollInv PROVE TapsAreSafe
      OBVIOUS
    <2>1. PollTypeOK
      <3>1. Len(sentBy) \in Nat /\ MaxSent \in Nat /\ Len(sentBy) <= MaxSent
        BY TelegramAssumption DEF PollInv, PollShape
      <3>2. confirmed \in 0 .. MaxSent /\ offset \in 0 .. MaxSent + 1
        BY <3>1 DEF PollInv, PollShape
      <3> QED BY <3>2 DEF PollTypeOK, PollInv, PollShape
    <2>2. TapsInOrderOnce
      <3> SUFFICES ASSUME NEW a \in Accounts
                   PROVE  /\ Cardinality(busy[a]) <= 1
                          /\ \A i, j \in 1 .. Len(ran[a]) :
                               i < j /\ {ran[a][i][1], ran[a][j][1]} \cap unmarked = {} =>
                                 /\ ran[a][i][1] # ran[a][j][1]
                                 /\ ran[a][i][2] = ran[a][j][2] => ran[a][i][1] < ran[a][j][1]
        BY DEF TapsInOrderOnce
      <3>1. Cardinality(busy[a]) \in {0, 1}
        BY BusyCount DEF PollInv
      <3>2. \A i, j \in 1 .. Len(ran[a]) : i < j => Ordered(ran[a][i][1], ran[a][i][2], ran[a][j][1], ran[a][j][2], unmarked)
        BY DEF PollInv, LogsOK, LogOK
      <3> QED BY <3>1, <3>2 DEF Ordered
    <2> QED BY <2>1, <2>2 DEF TapsAreSafe, NoBorrowedRights, PollInv
  <1> QED BY <1>1, <1>2, <1>3, PTL DEF PollSpec

-----------------------------------------------------------------------------
(***************************************************************************)
(* The chat.                                                               *)
(***************************************************************************)

WizardSteps == {"name", "tmpl", "limit", "days", "confirm"}
NamedKinds == {"card", "rs", "rv", "dl", "ex", "dt", "ask ex", "ask dt", "ask nt"}
Kinds == NamedKinds \cup WizardSteps \cup {"home", "bk", "list", "wizfail", "tmplfail", "error", "info", "deleted"}

\* A screen about an account names one, and the others name none.
Screens == [kind : NamedKinds, name : Names] \cup [kind : Kinds \ NamedKinds, name : {""}]

ChatRows == [limit : 0 .. MaxAmount, expire : 0 .. MaxAmount, plan : BOOLEAN]
Drafts == [name : Names \cup {""}, tmpl : BOOLEAN]

\* A session of the wizard is at one of its steps; one that waits for text has an account.
Sessions ==
  [mode : {"nu"}, step : WizardSteps, user : {""}, msg : Nat, draft : Drafts]
    \cup [mode : {"ex", "dt", "nt"}, step : {""}, user : Names, msg : Nat, draft : {NoDraft}]

Pendings == [op : {"ex", "dt", "t", "nt"}, name : Names, fields : ChatRows, cur : ChatRows, msg : Nat]

SessionOK(s, n) == s = NoSession \/ (s \in Sessions /\ s.msg <= n)
PendingOK(p, n) == p = NoPending \/ (p \in Pendings /\ p.msg <= n)

ChatShape ==
  /\ accounts \in [Names -> ChatRows \cup {NoAccount}]
  /\ chat \in Seq(Screens) /\ Len(chat) \in 1 .. MaxMessages /\ last \in 1 .. Len(chat)
  /\ SessionOK(session, Len(chat)) /\ PendingOK(pending, Len(chat))

\* The screen after which text means the session.
AsksAt(s, scr) ==
  \/ s.mode \in DOMAIN Ask /\ scr = Screen(Ask[s.mode], s.user)
  \/ s.mode = "nu" /\ scr.kind = s.step
  \/ scr.kind \in {"error", "wizfail", "tmplfail"}

\* A session is asked for by the last screen, unless that screen did not arrive
\* or Redis did not do as it was told.
Asked == ~unseen /\ ~stale /\ session # NoSession => AsksAt(session, chat[last])

\* A handler that is to end a session has tried to, but for a note's.
Quiet == pending # NoPending /\ pending.op # "nt" => session = NoSession \/ stale

ChatInv == ChatShape /\ Asked /\ Quiet /\ ~planLost /\ ~misdirected /\ ~unconfirmed

\* The kinds of a screen.
LEMMA ScreenKinds ==
  /\ \A k \in NamedKinds, n \in Names : Screen(k, n) \in Screens
  /\ \A k \in Kinds \ NamedKinds : Screen(k, "") \in Screens
  /\ Home \in Screens
  /\ \A k, n : Screen(k, n).kind = k /\ Screen(k, n).name = n
  <1>1. (\A k \in NamedKinds, n \in Names : Screen(k, n) \in Screens) /\ (\A k \in Kinds \ NamedKinds : Screen(k, "") \in Screens)
    BY DEF Screen, Screens
  <1>2. "home" \in Kinds \ NamedKinds
    BY DEF Kinds, NamedKinds
  <1> QED BY <1>1, <1>2 DEF Screen, Home

\* A screen is shown, in place or as a new message, or does not arrive.
LEMMA Shown ==
  ASSUME ChatShape, NEW m \in 0 .. Len(chat), NEW scr \in Screens, Show(m, scr)
  PROVE  /\ chat' \in Seq(Screens) /\ Len(chat') \in 1 .. MaxMessages /\ last' \in 1 .. Len(chat')
         /\ Len(chat) <= Len(chat') /\ (~unseen' => chat'[last'] = scr)
  <1>1. chat \in Seq(Screens) /\ Len(chat) \in 1 .. MaxMessages /\ Len(chat) \in Nat /\ MaxMessages \in Nat /\ last \in 1 .. Len(chat)
    BY ConsoleAssumption DEF ChatShape
  <1>2. CASE m # 0 /\ chat' = [chat EXCEPT ![m] = scr] /\ last' = m
    BY <1>1, <1>2
  <1>3. CASE Len(chat) < MaxMessages /\ chat' = Append(chat, scr) /\ last' = Len(chat')
    <2>1. chat' \in Seq(Screens) /\ Len(chat') = Len(chat) + 1 /\ chat'[Len(chat) + 1] = scr
      BY <1>1, <1>3
    <2> QED BY <1>1, <1>3, <2>1
  <1>4. CASE UNCHANGED <<chat, last>> /\ unseen' = TRUE
    BY <1>1, <1>4
  <1> QED BY <1>2, <1>3, <1>4 DEF Show

\* A step that shows a screen, which asks for the session it leaves.
LEMMA ShowKeeps ==
  ASSUME ChatInv, NEW m \in 0 .. Len(chat), NEW scr \in Screens, Show(m, scr),
         accounts' \in [Names -> ChatRows \cup {NoAccount}],
         SessionOK(session', Len(chat)), ~stale' /\ session' # NoSession => AsksAt(session', scr),
         pending' = NoPending, ~planLost', ~misdirected', ~unconfirmed'
  PROVE  ChatInv'
  <1>1. /\ chat' \in Seq(Screens) /\ Len(chat') \in 1 .. MaxMessages /\ last' \in 1 .. Len(chat')
        /\ Len(chat) <= Len(chat') /\ (~unseen' => chat'[last'] = scr) /\ Len(chat) \in Nat /\ Len(chat') \in Nat
    BY Shown DEF ChatInv, ChatShape
  <1>2. SessionOK(session', Len(chat'))
    <2>1. session' \in Sessions => session'.msg \in Nat
      BY DEF Sessions
    <2> QED BY <1>1, <2>1 DEF SessionOK
  <1>3. PendingOK(pending', Len(chat'))
    BY DEF PendingOK
  <1>4. ChatShape'
    BY <1>1, <1>2, <1>3 DEF ChatShape
  <1>5. Asked'
    BY <1>1 DEF Asked
  <1>6. Quiet'
    BY DEF Quiet
  <1> QED BY <1>4, <1>5, <1>6 DEF ChatInv

\* A step that shows nothing.
LEMMA SilentKeeps ==
  ASSUME ChatInv, UNCHANGED <<chat, last, unseen>>, accounts' \in [Names -> ChatRows \cup {NoAccount}],
         session' \in {session, NoSession}, session' = NoSession \/ stale' \/ UNCHANGED <<session, stale>>,
         PendingOK(pending', Len(chat)), pending' # NoPending /\ pending'.op # "nt" => session' = NoSession \/ stale',
         ~planLost', ~misdirected', ~unconfirmed'
  PROVE  ChatInv'
  <1>1. SessionOK(session', Len(chat'))
    BY DEF ChatInv, ChatShape, SessionOK
  <1>2. ChatShape'
    BY <1>1 DEF ChatInv, ChatShape
  <1>3. Asked'
    BY DEF ChatInv, Asked
  <1>4. Quiet'
    BY DEF Quiet
  <1> QED BY <1>2, <1>3, <1>4 DEF ChatInv

\* What a button carries, by the screen it is on.
LEMMA ButtonFacts ==
  ASSUME NEW scr \in Screens, NEW b \in Buttons(scr)
  PROVE  /\ b[1] \in {"u", "rs", "rv", "dl", "ex", "dt", "t", "nt", "qr"} => b[2] \in Names
         /\ b[1] \in {"rs", "rv", "dl"} /\ b[3] = "y" => scr = Screen(b[1], b[2])
         /\ b[1] = "bk" /\ b[3] = "y" => scr = Screen("bk", "")
         /\ b[1] \in {"ex", "dt"} => b[3] \in {"", "c", "n"}
         /\ b[1] = "nu" => b[3] \in {"", "t0", "t1", "l", "d", "ok", "b", "n"}
  <1>1. scr.kind \in NamedKinds => scr.name \in Names
    BY DEF Screens
  <1>2. scr = Screen(scr.kind, scr.name) /\ (scr.kind = "bk" => scr.name = "")
    BY DEF Screens, Screen, NamedKinds
  <1> DEFINE Carries(x, y, z) ==
               /\ x \in {"u", "rs", "rv", "dl", "ex", "dt", "t", "nt", "qr"} => y \in Names
               /\ x \in {"rs", "rv", "dl"} /\ z = "y" => scr = Screen(x, y)
               /\ x = "bk" /\ z = "y" => scr = Screen("bk", "")
               /\ x \in {"ex", "dt"} => z \in {"", "c", "n"}
               /\ x = "nu" => z \in {"", "t0", "t1", "l", "d", "ok", "b", "n"}
  <1>3. ASSUME b \in Nav PROVE \E x, y, z : b = <<x, y, z>> /\ Carries(x, y, z)
    <2>1. Carries("h", "", "") /\ Carries("us", "", "")
      OBVIOUS
    <2> HIDE DEF Carries
    <2> QED BY <1>3, <2>1 DEF Nav
  <1>4. ASSUME scr.kind = "home" /\ b \in HomeKeyboard PROVE \E x, y, z : b = <<x, y, z>> /\ Carries(x, y, z)
    <2>1. \A op \in {"nu", "sy", "hp", "lg", "nd", "bk"} : Carries(op, "", "")
      OBVIOUS
    <2> HIDE DEF Carries
    <2>2. PICK op \in {"nu", "sy", "hp", "lg", "nd", "bk"} : b = <<op, "", "">>
      BY <1>4 DEF HomeKeyboard
    <2> QED BY <2>1, <2>2
  <1>5. ASSUME scr.kind = "bk" /\ b \in {<<"bk", "", "y">>} PROVE \E x, y, z : b = <<x, y, z>> /\ Carries(x, y, z)
    <2>1. Carries("bk", "", "y")
      BY <1>2, <1>5
    <2> HIDE DEF Carries
    <2> QED BY <1>5, <2>1
  <1>6. ASSUME scr.kind = "list" /\ b \in {<<"u", n, "">> : n \in Names} \cup {<<"nop", "", "">>} PROVE \E x, y, z : b = <<x, y, z>> /\ Carries(x, y, z)
    <2>1. Carries("nop", "", "") /\ \A n \in Names : Carries("u", n, "")
      OBVIOUS
    <2> HIDE DEF Carries
    <2> QED BY <1>6, <2>1
  <1>7. ASSUME scr.kind = "card" /\ b \in CardKeyboard(scr.name) PROVE \E x, y, z : b = <<x, y, z>> /\ Carries(x, y, z)
    <2>1. \A op \in {"t", "rs", "rv", "dl", "ex", "dt", "nt", "qr"} : Carries(op, scr.name, "")
      BY <1>1, <1>7 DEF NamedKinds
    <2> HIDE DEF Carries
    <2>2. PICK op \in {"t", "rs", "rv", "dl", "ex", "dt", "nt", "qr"} : b = <<op, scr.name, "">>
      BY <1>7 DEF CardKeyboard
    <2> QED BY <2>1, <2>2
  <1>8. ASSUME scr.kind \in {"rs", "rv", "dl"} /\ b \in {<<scr.kind, scr.name, "y">>, <<"u", scr.name, "">>} PROVE \E x, y, z : b = <<x, y, z>> /\ Carries(x, y, z)
    <2>1. Carries(scr.kind, scr.name, "y") /\ Carries("u", scr.name, "")
      BY <1>1, <1>2, <1>8 DEF NamedKinds
    <2> HIDE DEF Carries
    <2> QED BY <1>8, <2>1
  <1>9. ASSUME scr.kind \in {"ex", "dt"} /\ b \in {<<scr.kind, scr.name, "c">>, <<scr.kind, scr.name, "n">>} PROVE \E x, y, z : b = <<x, y, z>> /\ Carries(x, y, z)
    <2>1. Carries(scr.kind, scr.name, "c") /\ Carries(scr.kind, scr.name, "n")
      BY <1>1, <1>9 DEF NamedKinds
    <2> HIDE DEF Carries
    <2> QED BY <1>9, <2>1
  <1>10. ASSUME scr.kind \in WizardSteps /\ b \in WizardKeyboard(scr.kind) \cup {<<"nu", "", "b">>} PROVE \E x, y, z : b = <<x, y, z>> /\ Carries(x, y, z)
    <2>1. \A z \in {"", "t0", "t1", "l", "d", "ok", "b", "n"} : Carries("nu", "", z)
      OBVIOUS
    <2> HIDE DEF Carries
    <2>2. \/ b \in {<<"nu", "", "t0">>, <<"nu", "", "t1">>} \/ b \in {<<"nu", "", "l">>} \/ b \in {<<"nu", "", "d">>}
          \/ b \in {<<"nu", "", "ok">>} \/ b \in {<<"nu", "", "b">>}
      BY <1>10, Zenon DEF WizardKeyboard, WizardSteps
    <2>3. \E z \in {"", "t0", "t1", "l", "d", "ok", "b", "n"} : b = <<"nu", "", z>>
      BY <2>2
    <2> QED BY <2>1, <2>3
  <1>11. ASSUME scr.kind = "wizfail" /\ b \in {<<"nu", "", "n">>, <<"nu", "", "b">>} PROVE \E x, y, z : b = <<x, y, z>> /\ Carries(x, y, z)
    <2>1. Carries("nu", "", "n") /\ Carries("nu", "", "b")
      OBVIOUS
    <2> HIDE DEF Carries
    <2> QED BY <1>11, <2>1
  <1>12. ASSUME scr.kind = "tmplfail" /\ b \in {<<"nu", "", "b">>} PROVE \E x, y, z : b = <<x, y, z>> /\ Carries(x, y, z)
    <2>1. Carries("nu", "", "b")
      OBVIOUS
    <2> HIDE DEF Carries
    <2> QED BY <1>12, <2>1
  <1>13. b \notin Nav =>
           \/ scr.kind = "home" /\ b \in HomeKeyboard
           \/ scr.kind = "bk" /\ b \in {<<"bk", "", "y">>}
           \/ scr.kind = "list" /\ b \in {<<"u", n, "">> : n \in Names} \cup {<<"nop", "", "">>}
           \/ scr.kind = "card" /\ b \in CardKeyboard(scr.name)
           \/ scr.kind \in {"rs", "rv", "dl"} /\ b \in {<<scr.kind, scr.name, "y">>, <<"u", scr.name, "">>}
           \/ scr.kind \in {"ex", "dt"} /\ b \in {<<scr.kind, scr.name, "c">>, <<scr.kind, scr.name, "n">>}
           \/ scr.kind \in WizardSteps /\ b \in WizardKeyboard(scr.kind) \cup {<<"nu", "", "b">>}
           \/ scr.kind = "wizfail" /\ b \in {<<"nu", "", "n">>, <<"nu", "", "b">>}
           \/ scr.kind = "tmplfail" /\ b \in {<<"nu", "", "b">>}
    BY DEF Buttons, WizardSteps
  <1>14. PICK x, y, z : b = <<x, y, z>> /\ Carries(x, y, z)
    BY <1>3, <1>4, <1>5, <1>6, <1>7, <1>8, <1>9, <1>10, <1>11, <1>12, <1>13
  <1>15. b[1] = x /\ b[2] = y /\ b[3] = z
    BY <1>14
  <1> QED BY <1>14, <1>15

\* A number up to a bound lies in the interval that ends there.
LEMMA Within ==
  /\ \A k, n \in Nat : k <= n => k \in 0 .. n
  /\ \A k, l, n \in Nat : k <= l /\ l <= n => k \in 0 .. n
  OBVIOUS

\* Every amount a button, a text or a template gives is one an account can hold.
LEMMA AmountFacts ==
  /\ 0 \in 0 .. MaxAmount /\ MaxAmount \in 0 .. MaxAmount
  /\ \A n \in Amounts \cup {0} : n \in 0 .. MaxAmount
  BY ConsoleAssumption

\* The wizard's empty form is a form.
LEMMA EmptyDraft == NoDraft \in Drafts
  BY DEF NoDraft, Drafts

\* What the invariant says of the messages, the accounts and the session.
LEMMA ChatFacts ==
  ASSUME ChatInv
  PROVE  /\ ChatShape /\ Len(chat) \in Nat /\ 0 \in 0 .. Len(chat)
         /\ \A m \in 1 .. Len(chat) : chat[m] \in Screens /\ m \in 0 .. Len(chat)
         /\ accounts \in [Names -> ChatRows \cup {NoAccount}]
         /\ SessionOK(session, Len(chat)) /\ PendingOK(pending, Len(chat))
         /\ ~planLost /\ ~misdirected /\ ~unconfirmed
  <1>1. ChatShape /\ chat \in Seq(Screens) /\ ~planLost /\ ~misdirected /\ ~unconfirmed
    BY DEF ChatInv, ChatShape
  <1>2. Len(chat) \in Nat /\ \A m \in 1 .. Len(chat) : chat[m] \in Screens
    BY <1>1
  <1> QED BY <1>1, <1>2 DEF ChatShape

\* The session that text goes to has a message of the chat, and is asked for if
\* nothing got lost.
LEMMA SessionFacts ==
  ASSUME ChatInv, session.mode # ""
  PROVE  /\ session \in Sessions /\ session.msg \in 0 .. Len(chat) /\ ~Astray(session)
         /\ session.mode = "nu" => session.step \in WizardSteps /\ session.draft \in Drafts
         /\ session.mode \in {"ex", "dt", "nt"} => session.user \in Names
         /\ session.mode \in {"nu", "ex", "dt", "nt"}
  <1>1. session # NoSession
    <2>1. NoSession.mode = ""
      BY DEF NoSession
    <2> QED BY <2>1
  <1>2. session \in Sessions /\ session.msg <= Len(chat) /\ Len(chat) \in Nat
    BY <1>1, ChatFacts DEF SessionOK
  <1>3. /\ session.msg \in Nat /\ session.mode \in {"nu", "ex", "dt", "nt"}
        /\ session.mode = "nu" => session.step \in WizardSteps /\ session.draft \in Drafts
        /\ session.mode \in {"ex", "dt", "nt"} => session.user \in Names
    BY <1>2 DEF Sessions
  <1>4. ~Astray(session)
    BY <1>1 DEF ChatInv, Asked, AsksAt, AsksFor, Astray
  <1>5. session.msg \in 0 .. Len(chat)
    <2>1. session.msg \in Nat /\ Len(chat) \in Nat /\ session.msg <= Len(chat)
      BY <1>2, <1>3
    <2> QED BY <2>1, Within, Zenon
  <1> QED BY <1>2, <1>3, <1>4, <1>5

\* Redis takes the session it is given, or keeps the one it has.
LEMMA EndedSession ==
  ASSUME ChatInv, EndSession
  PROVE  /\ session' \in {session, NoSession} /\ SessionOK(session', Len(chat))
         /\ session' = NoSession \/ stale'
  <1>1. session' \in {session, NoSession} /\ (session' = NoSession \/ stale')
    BY DEF EndSession, Stored
  <1> QED BY <1>1, ChatFacts DEF SessionOK

\* An edit of an account that exists makes an account.
LEMMA EditedRows ==
  ASSUME NEW u \in ChatRows, NEW op \in {"ex", "dt", "t", "nt"}, NEW n \in Nat
  PROVE  Edited(op, u, n) \in ChatRows
  <1>1. u.expire \in 0 .. MaxAmount /\ u.limit \in 0 .. MaxAmount /\ MaxAmount \in Nat
    BY ConsoleAssumption DEF ChatRows
  <1>2. \A k \in Nat : Cap(k) \in 0 .. MaxAmount
    BY <1>1 DEF Cap
  <1>3. u.expire + n \in Nat /\ u.limit + n \in Nat
    BY <1>1
  <1>4. PICK e, l \in 0 .. MaxAmount : e = Cap(u.expire + n) /\ l = Cap(u.limit + n)
    BY <1>2, <1>3
  <1>5. Extended(u, n) = [u EXCEPT !.expire = e] /\ WithData(u, n) = [u EXCEPT !.limit = l]
    BY <1>4 DEF Extended, WithData
  <1>6. [u EXCEPT !.expire = e] \in ChatRows /\ [u EXCEPT !.limit = l] \in ChatRows
    BY <1>4 DEF ChatRows
  <1> QED BY <1>5, <1>6 DEF Edited

\* A handler reads the account it will edit.
LEMMA ReadAccountStep ==
  ASSUME ChatInv, pending = NoPending, NEW op \in {"ex", "dt", "t", "nt"}, NEW nm \in Names, NEW n \in Amounts \cup {0},
         NEW m \in 0 .. Len(chat), ReadAccount(op, nm, n, m),
         UNCHANGED <<accounts, planLost, unconfirmed>>, ~misdirected',
         session' \in {session, NoSession},
         session' = NoSession \/ stale' \/ (op = "nt" /\ UNCHANGED <<session, stale>>)
  PROVE  ChatInv'
  <1>0. /\ accounts \in [Names -> ChatRows \cup {NoAccount}] /\ ~planLost' /\ ~unconfirmed' /\ Len(chat) \in Nat
        /\ SessionOK(session, Len(chat)) /\ accounts' = accounts
    BY ChatFacts
  <1>1. SessionOK(session', Len(chat))
    BY <1>0 DEF SessionOK
  <1>2. CASE ~Exists(nm)
    <2>1. Show(m, Screen("error", "")) /\ pending' = NoPending
      BY <1>2 DEF ReadAccount
    <2>2. Screen("error", "") \in Screens /\ AsksAt(session', Screen("error", ""))
      BY ScreenKinds DEF Kinds, NamedKinds, WizardSteps, AsksAt
    <2> QED BY <1>0, <1>1, <2>1, <2>2, ShowKeeps
  <1>3. CASE Exists(nm) /\ ~Editable(op, accounts[nm])
    <2>1. Show(m, Screen("card", nm)) /\ pending' = NoPending
      BY <1>3 DEF ReadAccount
    <2>2. Screen("card", nm) \in Screens
      BY ScreenKinds DEF NamedKinds
    <2>3. session' = NoSession \/ stale'
      BY <1>3 DEF Editable
    <2> QED BY <1>0, <1>1, <2>1, <2>2, <2>3, ShowKeeps
  <1>4. CASE Exists(nm) /\ Editable(op, accounts[nm])
    <2>1. PICK u, f : u = accounts[nm] /\ f = Edited(op, accounts[nm], n)
      OBVIOUS
    <2>2. u \in ChatRows
      BY <1>0, <1>4, <2>1 DEF Exists
    <2>3. n \in Nat
      BY ConsoleAssumption
    <2>4. f \in ChatRows
      BY <2>1, <2>2, <2>3, EditedRows
    <2>5. pending' = [op |-> op, name |-> nm, fields |-> f, cur |-> u, msg |-> m] /\ UNCHANGED <<chat, last, unseen>>
      BY <1>4, <2>1 DEF ReadAccount, shown
    <2>6. pending' \in Pendings /\ pending'.msg = m /\ pending'.op = op
      BY <1>0, <2>2, <2>4, <2>5 DEF Pendings
    <2>7. PendingOK(pending', Len(chat))
      BY <1>0, <2>6 DEF PendingOK
    <2>8. pending' # NoPending /\ pending'.op # "nt" => session' = NoSession \/ stale'
      BY <2>6
    <2> QED BY <1>0, <2>5, <2>7, <2>8, SilentKeeps
  <1> QED BY <1>2, <1>3, <1>4

\* The edit is written, with the plan the account had, or is refused.
LEMMA ModifySteps ==
  ASSUME ChatInv, ModifyUser \/ ModifyFails
  PROVE  ChatInv'
  <1>0. /\ accounts \in [Names -> ChatRows \cup {NoAccount}] /\ ~planLost /\ ~misdirected /\ ~unconfirmed /\ Len(chat) \in Nat
        /\ PendingOK(pending, Len(chat)) /\ Quiet
    BY ChatFacts DEF ChatInv
  <1>1. pending # NoPending /\ pending' = NoPending /\ EndsNote /\ UNCHANGED <<misdirected, unconfirmed>>
    BY DEF ModifyUser, ModifyFails
  <1>2. session' \in {session, NoSession} /\ (session' = NoSession \/ stale')
    <2>1. CASE pending.op = "nt"
      BY <1>1, <2>1 DEF EndsNote, Stored
    <2>2. CASE pending.op # "nt"
      BY <1>0, <1>1, <2>2 DEF EndsNote, Quiet, stored
    <2> QED BY <2>1, <2>2
  <1>3. pending \in Pendings /\ pending.msg <= Len(chat)
    BY <1>0, <1>1 DEF PendingOK
  <1>4. PICK m, op, nm, fs, cu : m = pending.msg /\ op = pending.op /\ nm = pending.name /\ fs = pending.fields /\ cu = pending.cur
    OBVIOUS
  <1>5. m \in Nat /\ op \in {"ex", "dt", "t", "nt"} /\ nm \in Names /\ fs \in ChatRows /\ cu \in ChatRows
    BY <1>3, <1>4 DEF Pendings
  <1>6. m \in 0 .. Len(chat)
    BY <1>0, <1>3, <1>4, <1>5
  <1>7. SessionOK(session', Len(chat))
    BY <1>2, ChatFacts DEF SessionOK
  <1>8. CASE Show(m, Screen("error", "")) /\ UNCHANGED <<accounts, planLost>>
    <2>1. Screen("error", "") \in Screens
      BY ScreenKinds DEF Kinds, NamedKinds, WizardSteps
    <2> QED BY <1>0, <1>1, <1>2, <1>6, <1>7, <1>8, <2>1, ShowKeeps
  <1>9. CASE ModifyUser /\ Exists(nm)
    <2>1. PICK u, v : u = accounts[nm] /\ v = Modified(op, accounts[nm], fs, PlanSent(cu))
      OBVIOUS
    <2>2. u \in ChatRows
      BY <1>0, <1>5, <1>9, <2>1 DEF Exists
    <2>3. v \in ChatRows /\ v.plan = cu.plan
      <3>1. PICK e, l, pl : e = fs.expire /\ l = fs.limit /\ pl = cu.plan
        OBVIOUS
      <3>2. e \in 0 .. MaxAmount /\ l \in 0 .. MaxAmount /\ pl \in BOOLEAN
        BY <1>5, <3>1 DEF ChatRows
      <3>3. v \in {[u EXCEPT !.expire = e, !.plan = pl], [u EXCEPT !.limit = l, !.plan = pl], [u EXCEPT !.plan = pl]}
        BY <1>5, <2>1, <3>1 DEF Modified, PlanSent
      <3>4. PICK a, b, c : a = [u EXCEPT !.expire = e, !.plan = pl] /\ b = [u EXCEPT !.limit = l, !.plan = pl]
                           /\ c = [u EXCEPT !.plan = pl]
        OBVIOUS
      <3>5. a \in ChatRows /\ a.plan = pl
        BY <2>2, <3>2, <3>4 DEF ChatRows
      <3>6. b \in ChatRows /\ b.plan = pl
        BY <2>2, <3>2, <3>4 DEF ChatRows
      <3>7. c \in ChatRows /\ c.plan = pl
        BY <2>2, <3>2, <3>4 DEF ChatRows
      <3> QED BY <3>1, <3>3, <3>4, <3>5, <3>6, <3>7
    <2>4. accounts' = [accounts EXCEPT ![nm] = v] /\ planLost' = (u.plan = cu.plan /\ v.plan # u.plan)
          /\ Show(m, Screen("card", nm))
      BY <1>4, <1>9, <2>1 DEF ModifyUser
    <2>5. accounts' \in [Names -> ChatRows \cup {NoAccount}]
      BY <1>0, <2>3, <2>4
    <2>6. ~planLost'
      BY <2>3, <2>4
    <2>7. Screen("card", nm) \in Screens
      BY <1>5, ScreenKinds DEF NamedKinds
    <2> QED BY <1>0, <1>1, <1>2, <1>6, <1>7, <2>4, <2>5, <2>6, <2>7, ShowKeeps
  <1>10. CASE ModifyUser /\ ~Exists(nm)
    BY <1>4, <1>8, <1>10 DEF ModifyUser
  <1>11. CASE ModifyFails
    BY <1>4, <1>8, <1>11 DEF ModifyFails
  <1> QED BY <1>9, <1>10, <1>11

\* The wizard goes to a step and shows it.
LEMMA GoToStep ==
  ASSUME ChatInv, NEW st \in WizardSteps, NEW d \in Drafts, NEW m \in 0 .. Len(chat), GoTo(st, d, m),
         pending' = NoPending, accounts' = accounts, ~planLost', ~misdirected', ~unconfirmed'
  PROVE  ChatInv'
  <1>0. accounts \in [Names -> ChatRows \cup {NoAccount}] /\ Len(chat) \in Nat
    BY ChatFacts
  <1>1. PICK w : w = [mode |-> "nu", step |-> st, user |-> "", msg |-> m, draft |-> d]
    OBVIOUS
  <1>2. w \in Sessions /\ w.msg = m /\ w.mode = "nu" /\ w.step = st
    <2>1. m \in Nat
      BY <1>0
    <2>2. w \in [mode : {"nu"}, step : WizardSteps, user : {""}, msg : Nat, draft : Drafts]
      BY <1>1, <2>1
    <2> QED BY <1>1, <2>2 DEF Sessions
  <1>3. Show(m, Screen(st, "")) /\ SessionOK(session', Len(chat)) /\ (session' = w \/ stale')
    <2>1. Show(m, Screen(st, "")) /\ Stored(session, w)
      BY <1>1 DEF GoTo, Wizard
    <2>2. session' = w \/ (session' = session /\ stale')
      BY <2>1 DEF Stored
    <2>3. SessionOK(w, Len(chat)) /\ SessionOK(session, Len(chat))
      BY <1>0, <1>2, ChatFacts DEF SessionOK
    <2> QED BY <2>1, <2>2, <2>3
  <1>4. Screen(st, "") \in Screens
    BY ScreenKinds DEF Kinds, NamedKinds, WizardSteps
  <1>5. AsksAt(w, Screen(st, ""))
    BY <1>2, ScreenKinds DEF AsksAt
  <1> QED BY <1>0, <1>3, <1>4, <1>5, ShowKeeps

\* A template's draft, an empty one with its name, and one with a new name.
LEMMA TemplateDrafts ==
  ASSUME NEW d \in Drafts
  PROVE  /\ [NoDraft EXCEPT !.name = d.name] \in Drafts /\ [d EXCEPT !.tmpl = TRUE] \in Drafts
         /\ \A nm \in Names : [d EXCEPT !.name = nm] \in Drafts
  <1>1. NoDraft \in Drafts /\ d.name \in Names \cup {""}
    BY DEF NoDraft, Drafts
  <1> QED BY <1>1 DEF Drafts

\* The screens that ask for text.
LEMMA AskKinds == DOMAIN Ask = {"ex", "dt", "nt"} /\ \A op \in {"ex", "dt", "nt"} : Ask[op] \in NamedKinds
  <1>1. DOMAIN Ask = {"ex", "dt", "nt"} /\ Ask["ex"] = "ask ex" /\ Ask["dt"] = "ask dt" /\ Ask["nt"] = "ask nt"
    BY DEF Ask
  <1> QED BY <1>1 DEF NamedKinds

\* Text is typed.
LEMMA TextSteps ==
  ASSUME ChatInv,
         Command \/ SearchText \/ TextTooLong \/ TypeNote \/ (\E n \in Amounts \cup {0} : TypeAmount(n))
         \/ (\E nm \in Names : TypeWizard(nm))
  PROVE  ChatInv'
  <1>0. /\ accounts \in [Names -> ChatRows \cup {NoAccount}] /\ ~planLost /\ ~misdirected /\ ~unconfirmed /\ Len(chat) \in Nat
        /\ 0 \in 0 .. Len(chat) /\ SessionOK(session, Len(chat)) /\ SessionOK(NoSession, Len(chat))
    BY ChatFacts DEF SessionOK
  <1>1. pending = NoPending /\ UNCHANGED <<accounts, planLost, unconfirmed>>
    BY DEF Command, SearchText, TextTooLong, TypeNote, TypeAmount, TypeWizard
  <1>2. CASE Command
    <2>1. EndSession /\ Show(0, Home) /\ UNCHANGED <<pending, misdirected>>
      BY <1>2 DEF Command
    <2> QED BY <1>0, <1>1, <2>1, ScreenKinds, EndedSession, ShowKeeps
  <1>3. CASE SearchText
    <2>1. session' = session /\ (session = NoSession \/ stale') /\ UNCHANGED <<pending, misdirected>>
          /\ \E scr \in {Screen("list", "")} \cup {Screen("card", n) : n \in Names} : Show(0, scr)
      BY <1>3 DEF SearchText
    <2>2. PICK scr \in {Screen("list", "")} \cup {Screen("card", n) : n \in Names} : Show(0, scr)
      BY <2>1
    <2>3. scr \in Screens
      BY ScreenKinds DEF Kinds, NamedKinds, WizardSteps
    <2> QED BY <1>0, <1>1, <2>1, <2>2, <2>3, ShowKeeps
  <1>31. CASE TextTooLong
    <2>1. session' = session /\ Show(0, Screen("error", "")) /\ UNCHANGED <<pending, misdirected>>
      BY <1>31 DEF TextTooLong, stored
    <2>2. Screen("error", "") \in Screens /\ AsksAt(session', Screen("error", ""))
      BY ScreenKinds DEF Kinds, NamedKinds, WizardSteps, AsksAt
    <2> QED BY <1>0, <1>1, <2>1, <2>2, ShowKeeps
  <1>4. CASE TypeNote
    <2>1. session.mode = "nt" /\ misdirected' = Astray(session)
      BY <1>4 DEF TypeNote
    <2>2. PICK nm, m : nm = session.user /\ m = session.msg
      OBVIOUS
    <2>3. nm \in Names /\ m \in 0 .. Len(chat) /\ ~misdirected'
      BY <2>1, <2>2, SessionFacts
    <2>4. CASE ReadAccount("nt", nm, 0, m) /\ (IF Exists(nm) THEN UNCHANGED stored ELSE EndSession)
      <3>1. session' \in {session, NoSession} /\ (session' = NoSession \/ stale' \/ UNCHANGED <<session, stale>>)
        BY <2>4, EndedSession DEF stored
      <3> QED BY <1>1, <2>3, <2>4, <3>1, ReadAccountStep
    <2>5. CASE Show(m, Screen(Ask["nt"], nm)) /\ Stored(session, session) /\ UNCHANGED pending
      <3>1. session' = session /\ Ask["nt"] \in NamedKinds /\ "nt" \in DOMAIN Ask
        BY <2>5, AskKinds DEF Stored
      <3>2. Screen(Ask["nt"], nm) \in Screens /\ AsksAt(session', Screen(Ask["nt"], nm))
        BY <2>1, <2>2, <2>3, <3>1, ScreenKinds DEF AsksAt
      <3> QED BY <1>0, <1>1, <2>3, <2>5, <3>1, <3>2, ShowKeeps
    <2> QED BY <1>4, <2>2, <2>4, <2>5 DEF TypeNote
  <1>5. ASSUME NEW n \in Amounts \cup {0}, TypeAmount(n) PROVE ChatInv'
    <2>1. session.mode \in {"ex", "dt"} /\ misdirected' = Astray(session)
      BY <1>5 DEF TypeAmount
    <2>2. PICK nm, m, op : nm = session.user /\ m = session.msg /\ op = session.mode
      OBVIOUS
    <2>3. nm \in Names /\ m \in 0 .. Len(chat) /\ ~misdirected' /\ op \in {"ex", "dt"}
      BY <2>1, <2>2, SessionFacts
    <2>4. CASE n = 0
      <3>1. Show(m, Screen(Ask[op], nm)) /\ UNCHANGED <<session, pending>>
        BY <1>5, <2>2, <2>4 DEF TypeAmount, Stored
      <3>2. Ask[op] \in NamedKinds /\ op \in DOMAIN Ask
        BY <2>3, AskKinds
      <3>3. Screen(Ask[op], nm) \in Screens /\ AsksAt(session', Screen(Ask[op], nm))
        BY <2>2, <2>3, <3>1, <3>2, ScreenKinds DEF AsksAt
      <3> QED BY <1>0, <1>1, <2>3, <3>1, <3>3, ShowKeeps
    <2>5. CASE n # 0
      <3>1. EndSession /\ ReadAccount(op, nm, n, m)
        BY <1>5, <2>2, <2>5 DEF TypeAmount
      <3> QED BY <1>1, <2>3, <3>1, EndedSession, ReadAccountStep
    <2> QED BY <2>4, <2>5
  <1>6. ASSUME NEW nm \in Names, TypeWizard(nm) PROVE ChatInv'
    <2>1. session.mode = "nu" /\ misdirected' = Astray(session) /\ pending' = NoPending
      BY <1>1, <1>6 DEF TypeWizard
    <2>2. PICK d, m, st : d = session.draft /\ m = session.msg /\ st = session.step
      OBVIOUS
    <2>3. d \in Drafts /\ m \in 0 .. Len(chat) /\ ~misdirected' /\ st \in WizardSteps
      BY <2>1, <2>2, SessionFacts
    <2>4. \/ \E s \in WizardSteps, e \in Drafts : GoTo(s, e, m)
          \/ Show(m, Screen("error", "")) /\ UNCHANGED session
      <3>1. PICK s \in WizardSteps : s = IF HasTemplate THEN "tmpl" ELSE "limit"
        BY DEF WizardSteps
      <3>2. PICK e \in Drafts : e = [d EXCEPT !.name = nm]
        BY <2>3, TemplateDrafts
      <3>3. \/ GoTo(s, e, m) \/ GoTo("days", d, m) \/ GoTo("confirm", d, m) \/ GoTo(st, d, m)
            \/ Show(m, Screen("error", "")) /\ UNCHANGED session
        BY <1>6, <2>2, <3>1, <3>2 DEF TypeWizard, stored
      <3>4. "days" \in WizardSteps /\ "confirm" \in WizardSteps
        BY DEF WizardSteps
      <3> QED BY <2>3, <3>3, <3>4
    <2>5. CASE Show(m, Screen("error", "")) /\ UNCHANGED session
      <3>1. Screen("error", "") \in Screens /\ AsksAt(session', Screen("error", ""))
        BY ScreenKinds DEF Kinds, NamedKinds, WizardSteps, AsksAt
      <3> QED BY <1>0, <1>1, <2>1, <2>3, <2>5, <3>1, ShowKeeps
    <2>6. ASSUME NEW s \in WizardSteps, NEW e \in Drafts, GoTo(s, e, m) PROVE ChatInv'
      BY <1>0, <1>1, <2>1, <2>3, <2>6, GoToStep
    <2> QED BY <2>4, <2>5, <2>6
  <1> QED BY <1>2, <1>3, <1>31, <1>4, <1>5, <1>6

\* A session expires, somebody else edits an account, or nothing happens.
LEMMA AsideSteps ==
  ASSUME ChatInv, SessionExpires \/ (\E n \in Names : OthersEdit(n)) \/ UNCHANGED chatVars
  PROVE  ChatInv'
  <1>0. /\ accounts \in [Names -> ChatRows \cup {NoAccount}] /\ ~planLost /\ ~misdirected /\ ~unconfirmed
        /\ PendingOK(pending, Len(chat)) /\ Quiet
    BY ChatFacts DEF ChatInv
  <1>1. /\ UNCHANGED <<chat, unseen, pending, last, planLost, misdirected, unconfirmed>>
        /\ session' = NoSession \/ UNCHANGED <<session, stale>>
    BY DEF SessionExpires, OthersEdit, chatVars, shown, stored
  <1>2. accounts' \in [Names -> ChatRows \cup {NoAccount}]
    <2>1. CASE accounts' = accounts
      BY <1>0, <2>1
    <2>2. ASSUME NEW n \in Names, OthersEdit(n) PROVE accounts' \in [Names -> ChatRows \cup {NoAccount}]
      <3>1. CASE Exists(n)
        <4>1. PICK u : u = accounts[n]
          OBVIOUS
        <4>2. u \in ChatRows /\ u.plan \in BOOLEAN
          BY <1>0, <3>1, <4>1 DEF Exists, ChatRows
        <4>3. PICK q \in BOOLEAN : q = ~u.plan
          BY <4>2
        <4>4. [u EXCEPT !.plan = q] \in ChatRows /\ [u EXCEPT !.limit = 0] \in ChatRows
          BY <4>2, ConsoleAssumption DEF ChatRows
        <4>5. PICK v \in {NoAccount, [u EXCEPT !.plan = q], [u EXCEPT !.limit = 0]} : accounts' = [accounts EXCEPT ![n] = v]
          BY <2>2, <3>1, <4>1, <4>3 DEF OthersEdit
        <4> QED BY <1>0, <4>4, <4>5
      <3>2. CASE ~Exists(n)
        <4>1. PICK v : v = [limit |-> MaxAmount, expire |-> 0, plan |-> TRUE]
          OBVIOUS
        <4>2. v \in ChatRows
          BY <4>1, ConsoleAssumption DEF ChatRows
        <4>3. accounts' = [accounts EXCEPT ![n] = v]
          BY <2>2, <3>2, <4>1 DEF OthersEdit
        <4> QED BY <1>0, <4>2, <4>3
      <3> QED BY <3>1, <3>2
    <2> QED BY <2>1, <2>2 DEF SessionExpires, chatVars
  <1>3. pending' # NoPending /\ pending'.op # "nt" => session' = NoSession \/ stale'
    BY <1>0, <1>1 DEF Quiet
  <1> QED BY <1>0, <1>1, <1>2, <1>3, SilentKeeps

\* A tap inside the wizard.
LEMMA WizardTapStep ==
  ASSUME ChatInv, NEW m \in 1 .. Len(chat), NEW arg \in {"", "t0", "t1", "l", "d", "ok", "b", "n"}, WizardTap(m, arg),
         pending' = NoPending, UNCHANGED <<planLost, misdirected>>
  PROVE  ChatInv'
  <1>0. /\ accounts \in [Names -> ChatRows \cup {NoAccount}] /\ ~planLost' /\ ~misdirected' /\ ~unconfirmed /\ Len(chat) \in Nat
        /\ m \in 0 .. Len(chat) /\ SessionOK(session, Len(chat)) /\ SessionOK(NoSession, Len(chat))
    BY ChatFacts DEF SessionOK
  <1>1. PICK d : d = session.draft
    OBVIOUS
  <1>2. ASSUME NEW s \in WizardSteps, NEW e \in Drafts, GoTo(s, e, m), UNCHANGED <<accounts, unconfirmed>> PROVE ChatInv'
    BY <1>0, <1>2, GoToStep
  <1>3. ASSUME NEW scr \in {Screen("error", ""), Screen("wizfail", ""), Screen("tmplfail", "")}, Show(m, scr), UNCHANGED <<accounts, session, unconfirmed>>
        PROVE  ChatInv'
    <2>1. PICK k \in {"error", "wizfail", "tmplfail"} : scr = Screen(k, "")
      BY <1>3
    <2>2. k \in Kinds \ NamedKinds
      BY DEF Kinds, NamedKinds, WizardSteps
    <2>3. scr \in Screens /\ scr.kind = k
      BY <2>1, <2>2, ScreenKinds
    <2>4. AsksAt(session', scr)
      BY <2>3 DEF AsksAt
    <2> QED BY <1>0, <1>3, <2>3, <2>4, ShowKeeps
  <1>4. CASE arg = ""
    <2>1. GoTo("name", NoDraft, m) /\ UNCHANGED <<accounts, unconfirmed>>
      BY <1>4 DEF WizardTap
    <2>2. "name" \in WizardSteps /\ NoDraft \in Drafts
      BY EmptyDraft DEF WizardSteps
    <2> QED BY <1>2, <2>1, <2>2
  <1>5. CASE Show(m, Screen("error", "")) /\ UNCHANGED <<accounts, stored, unconfirmed>>
    BY <1>3, <1>5 DEF stored
  <1>6. ASSUME arg # "", session.mode = "nu", ~(Show(m, Screen("error", "")) /\ UNCHANGED <<accounts, stored, unconfirmed>>)
        PROVE  ChatInv'
    <2>1. d \in Drafts /\ session.step \in WizardSteps
      BY <1>1, <1>6, SessionFacts
    <2>2. CASE arg = "ok"
      <3>1. WizardCreate(d, m)
        BY <1>1, <1>6, <2>2 DEF WizardTap
      <3>2. CASE d.name = ""
        <4>1. GoTo("name", d, m) /\ UNCHANGED <<accounts, unconfirmed>> /\ "name" \in WizardSteps
          BY <3>1, <3>2 DEF WizardCreate, WizardSteps
        <4> QED BY <1>2, <2>1, <4>1
      <3>3. CASE d.name # "" /\ Exists(d.name)
        BY <1>3, <3>1, <3>3 DEF WizardCreate, stored
      <3>4. CASE d.name # "" /\ ~Exists(d.name)
        <4>0. PICK limit, days \in IF d.tmpl THEN {MaxAmount} ELSE Amounts \cup {0} :
                accounts' = [accounts EXCEPT ![d.name] = [limit |-> limit, expire |-> days, plan |-> FALSE]]
          BY <3>1, <3>4 DEF WizardCreate
        <4>1. PICK nm, v : nm = d.name /\ v = [limit |-> limit, expire |-> days, plan |-> FALSE]
          OBVIOUS
        <4>2. nm \in Names /\ v \in ChatRows
          BY <2>1, <3>4, <4>1, AmountFacts DEF Drafts, ChatRows
        <4>3. accounts' = [accounts EXCEPT ![nm] = v] /\ EndSession /\ Show(m, Screen("card", nm)) /\ ~unconfirmed'
          BY <1>0, <3>1, <3>4, <4>0, <4>1 DEF WizardCreate, EndSession
        <4>4. accounts' \in [Names -> ChatRows \cup {NoAccount}]
          BY <1>0, <4>2, <4>3
        <4>5. Screen("card", nm) \in Screens
          BY <4>2, ScreenKinds DEF NamedKinds
        <4> QED BY <1>0, <4>3, <4>4, <4>5, EndedSession, ShowKeeps
      <3> QED BY <3>2, <3>3, <3>4
    <2>3. CASE arg # "ok"
      <3>0. UNCHANGED <<accounts, unconfirmed>>
        BY <1>6, <2>3 DEF WizardTap
      <3>2. [NoDraft EXCEPT !.name = d.name] \in Drafts /\ [d EXCEPT !.tmpl = TRUE] \in Drafts
        BY <2>1, TemplateDrafts
      <3>3. CASE arg = "t0"
        <4>1. GoTo("limit", [NoDraft EXCEPT !.name = d.name], m) /\ "limit" \in WizardSteps
          BY <1>1, <1>6, <2>3, <3>3 DEF WizardTap, WizardTemplate, WizardSteps
        <4> QED BY <1>2, <3>0, <3>2, <4>1
      <3>4. CASE arg = "t1"
        <4>1. \/ GoTo("confirm", [d EXCEPT !.tmpl = TRUE], m)
              \/ Show(m, Screen("tmplfail", "")) /\ UNCHANGED session
          BY <1>1, <1>6, <2>3, <3>4 DEF WizardTap, WizardTemplate, stored
        <4>2. "confirm" \in WizardSteps
          BY DEF WizardSteps
        <4> QED BY <1>2, <1>3, <3>0, <3>2, <4>1, <4>2
      <3>5. CASE arg = "l"
        <4>1. GoTo("days", d, m) /\ "days" \in WizardSteps
          BY <1>1, <1>6, <2>3, <3>5 DEF WizardTap, WizardSteps
        <4> QED BY <1>2, <2>1, <3>0, <4>1
      <3>6. CASE arg = "d"
        <4>1. GoTo("confirm", d, m) /\ "confirm" \in WizardSteps
          BY <1>1, <1>6, <2>3, <3>6 DEF WizardTap, WizardSteps
        <4> QED BY <1>2, <2>1, <3>0, <4>1
      <3>7. CASE arg = "n"
        <4>1. GoTo("name", d, m) /\ "name" \in WizardSteps
          BY <1>1, <1>6, <2>3, <3>7 DEF WizardTap, WizardSteps
        <4> QED BY <1>2, <2>1, <3>0, <4>1
      <3>8. CASE arg = "b"
        <4>1. PICK s : s = PreviousStep(session)
          OBVIOUS
        <4>2. CASE s = ""
          <5>1. EndSession /\ Show(m, Home)
            BY <1>6, <2>3, <3>8, <4>1, <4>2 DEF WizardTap, EndSession
          <5> QED BY <1>0, <3>0, <5>1, ScreenKinds, EndedSession, ShowKeeps
        <4>3. CASE s # ""
          <5>1. GoTo(s, d, m)
            BY <1>1, <1>6, <2>3, <3>8, <4>1, <4>3 DEF WizardTap
          <5>2. s \in WizardSteps
            BY <4>1, <4>3 DEF PreviousStep, WizardSteps
          <5> QED BY <1>2, <2>1, <3>0, <5>1, <5>2
        <4> QED BY <4>2, <4>3
      <3> QED BY <1>6, <2>3, <3>3, <3>4, <3>5, <3>6, <3>7, <3>8
    <2> QED BY <2>2, <2>3
  <1> QED BY <1>4, <1>5, <1>6 DEF WizardTap

\* A handler asks for text, and its session says what for.
LEMMA AskStep ==
  ASSUME ChatInv, NEW op \in {"ex", "dt", "nt"}, NEW nm \in Names, NEW m \in 0 .. Len(chat),
         AskFor(op, nm, m), Show(m, Screen(Ask[op], nm)),
         pending' = NoPending, accounts' = accounts, ~planLost', ~misdirected', ~unconfirmed'
  PROVE  ChatInv'
  <1>0. accounts \in [Names -> ChatRows \cup {NoAccount}] /\ Len(chat) \in Nat /\ m \in Nat
    BY ChatFacts
  <1>01. PICK v : v = [NoSession EXCEPT !.mode = op, !.user = nm, !.msg = m]
    OBVIOUS
  <1>1. v = [mode |-> op, step |-> "", user |-> nm, msg |-> m, draft |-> NoDraft]
    BY <1>01 DEF NoSession
  <1>2. v \in Sessions /\ v.msg = m /\ v.mode = op /\ v.user = nm
    <2>2. v \in [mode : {"ex", "dt", "nt"}, step : {""}, user : Names, msg : Nat, draft : {NoDraft}]
      BY <1>0, <1>1
    <2>3. v.msg = m /\ v.mode = op /\ v.user = nm
      BY <1>1
    <2>4. v \in Sessions
      BY <2>2 DEF Sessions
    <2> QED BY <2>3, <2>4
  <1>3. SessionOK(session', Len(chat)) /\ (session' = v \/ stale')
    <2>2. PICK old \in {session, NoSession} : Stored(old, v)
      BY <1>01 DEF AskFor
    <2>4. session' = v \/ (session' = old /\ stale')
      BY <2>2 DEF Stored
    <2>3. SessionOK(v, Len(chat)) /\ SessionOK(NoSession, Len(chat)) /\ SessionOK(session, Len(chat))
      BY <1>0, <1>2, ChatFacts DEF SessionOK
    <2>5. SessionOK(old, Len(chat))
      BY <2>2, <2>3
    <2> QED BY <2>4, <2>5, <2>3
  <1>4. Screen(Ask[op], nm) \in Screens /\ AsksAt(v, Screen(Ask[op], nm))
    BY <1>2, AskKinds, ScreenKinds DEF AsksAt
  <1> QED BY <1>0, <1>3, <1>4, ShowKeeps

\* A tap on a button of any message of the chat.
LEMMA TapStep ==
  ASSUME ChatInv, NEW m \in 1 .. Len(chat), NEW b \in Buttons(chat[m]), Tap(m, b)
  PROVE  ChatInv'
  <1>0. /\ accounts \in [Names -> ChatRows \cup {NoAccount}] /\ ~planLost /\ ~misdirected /\ ~unconfirmed /\ Len(chat) \in Nat
        /\ m \in 0 .. Len(chat) /\ chat[m] \in Screens /\ SessionOK(NoSession, Len(chat)) /\ PendingOK(NoPending, Len(chat))
    BY ChatFacts DEF SessionOK, PendingOK
  <1>1. pending = NoPending /\ UNCHANGED <<planLost, misdirected>>
    BY DEF Tap
  <1>2. PICK op, nm, arg : op = b[1] /\ nm = b[2] /\ arg = b[3]
    OBVIOUS
  <1>3. /\ op \in {"u", "rs", "rv", "dl", "ex", "dt", "t", "nt", "qr"} => nm \in Names
        /\ op \in {"rs", "rv", "dl"} /\ arg = "y" => chat[m] = Screen(op, nm)
        /\ op = "bk" /\ arg = "y" => chat[m] = Screen("bk", "")
        /\ op \in {"ex", "dt"} => arg \in {"", "c", "n"}
        /\ op = "nu" => arg \in {"", "t0", "t1", "l", "d", "ok", "b", "n"}
    BY <1>0, <1>2, ButtonFacts
  \* A screen without a session.
  <1>5. ASSUME NEW scr \in Screens, Show(m, scr), EndSession, pending' = NoPending,
               accounts' \in [Names -> ChatRows \cup {NoAccount}], ~unconfirmed'
        PROVE  ChatInv'
    BY <1>0, <1>1, <1>5, EndedSession, ShowKeeps
  <1>6. ASSUME op = "nop", UNCHANGED <<accounts, shown, stored, pending, unconfirmed>> PROVE ChatInv'
    BY <1>0, <1>1, <1>6, SilentKeeps DEF shown, stored
  <1>7. ASSUME op \in {"h", "us", "u"}, EndSession,
               Show(m, IF op = "h" THEN Home ELSE IF op = "us" THEN Screen("list", "")
                       ELSE IF Exists(nm) THEN Screen("card", nm) ELSE Screen("error", "")),
               UNCHANGED <<accounts, pending, unconfirmed>>
        PROVE  ChatInv'
    <2>1. Home \in Screens /\ Screen("list", "") \in Screens /\ Screen("error", "") \in Screens
          /\ (op = "u" => Screen("card", nm) \in Screens)
      BY <1>3, ScreenKinds DEF Kinds, NamedKinds, WizardSteps
    <2>2. PICK scr \in Screens : Show(m, scr)
      BY <1>7, <2>1
    <2> QED BY <1>0, <1>1, <1>5, <1>7, <2>2
  <1>8. ASSUME op \in {"sy", "nd", "hp", "lg"}, EndSession,
               Show(m, IF op = "lg" THEN Home ELSE Screen("info", "")), UNCHANGED <<accounts, pending, unconfirmed>>
        PROVE  ChatInv'
    <2>1. Home \in Screens /\ Screen("info", "") \in Screens
      BY ScreenKinds DEF Kinds, NamedKinds, WizardSteps
    <2>2. PICK scr \in Screens : Show(m, scr)
      BY <1>8, <2>1
    <2> QED BY <1>0, <1>1, <1>5, <1>8, <2>2
  <1>9. ASSUME op = "bk", EndSession, Backup(arg, m), UNCHANGED <<accounts, pending>> PROVE ChatInv'
    <2>1. Screen("bk", "") \in Screens /\ Screen("info", "") \in Screens
      BY ScreenKinds DEF Kinds, NamedKinds, WizardSteps
    <2>2. PICK scr \in Screens : Show(m, scr)
      BY <1>9, <2>1 DEF Backup
    <2>4. ~unconfirmed'
      BY <1>3, <1>9 DEF Backup, IsConfirmed
    <2> QED BY <1>0, <1>1, <1>5, <1>9, <2>2, <2>4
  <1>10. ASSUME op \in {"rs", "rv", "dl"}, EndSession, Destroy(op, nm, arg, m), UNCHANGED pending PROVE ChatInv'
    <2>1. /\ Screen(op, nm) \in Screens /\ Screen("card", nm) \in Screens /\ nm \in Names
          /\ Screen("error", "") \in Screens /\ Screen("deleted", "") \in Screens
      BY <1>3, <1>10, ScreenKinds DEF Kinds, NamedKinds, WizardSteps
    <2>2. PICK scr \in Screens : Show(m, scr)
      BY <1>10, <2>1 DEF Destroy
    <2>4. ~unconfirmed'
      BY <1>0, <1>3, <1>10 DEF Destroy, IsConfirmed
    <2>5. accounts' = accounts \/ accounts' = [accounts EXCEPT ![nm] = NoAccount]
      BY <1>10 DEF Destroy
    <2>6. accounts' \in [Names -> ChatRows \cup {NoAccount}]
      BY <1>0, <2>1, <2>5
    <2> QED BY <1>1, <1>5, <1>10, <2>2, <2>4, <2>6
  <1>11. ASSUME op = "t", EndSession, ReadAccount(op, nm, 0, m), UNCHANGED <<accounts, unconfirmed>> PROVE ChatInv'
    <2>1. nm \in Names
      BY <1>3, <1>11
    <2> QED BY <1>0, <1>1, <1>11, <2>1, EndedSession, ReadAccountStep
  <1>12. ASSUME op \in {"ex", "dt"}, AskAmount(op, nm, arg, m), UNCHANGED <<accounts, unconfirmed>> PROVE ChatInv'
    <2>0. nm \in Names
      BY <1>3, <1>12
    <2>1. CASE arg = "" /\ Show(m, Screen(op, nm)) /\ EndSession /\ UNCHANGED pending
      <3>1. Screen(op, nm) \in Screens
        BY <1>12, <2>0, ScreenKinds DEF NamedKinds
      <3> QED BY <1>0, <1>1, <1>5, <1>12, <2>0, <2>1, <3>1
    <2>2. CASE AskFor(op, nm, m) /\ Show(m, Screen(Ask[op], nm)) /\ UNCHANGED pending
      BY <1>0, <1>1, <1>12, <2>0, <2>2, AskStep
    <2>3. ASSUME NEW n \in Amounts, ReadAccount(op, nm, n, m), EndSession PROVE ChatInv'
      BY <1>0, <1>1, <1>12, <2>0, <2>3, EndedSession, ReadAccountStep
    <2> QED BY <1>12, <2>1, <2>2, <2>3 DEF AskAmount
  <1>13. ASSUME op = "nt", AskFor("nt", nm, m),
                Show(m, Screen(Ask[op], nm)), UNCHANGED <<accounts, pending, unconfirmed>>
         PROVE  ChatInv'
    <2>1. nm \in Names
      BY <1>3, <1>13
    <2> QED BY <1>0, <1>1, <1>13, <2>1, AskStep
  <1>14. ASSUME op = "qr", EndSession, IF Exists(nm) THEN UNCHANGED shown ELSE Show(m, Screen("error", "")),
                UNCHANGED <<accounts, pending, unconfirmed>>
         PROVE  ChatInv'
    <2>1. Screen("error", "") \in Screens
      BY ScreenKinds DEF Kinds, NamedKinds, WizardSteps
    <2>2. CASE Exists(nm)
      BY <1>0, <1>1, <1>14, <2>2, EndedSession, SilentKeeps DEF shown
    <2>3. CASE ~Exists(nm)
      BY <1>0, <1>1, <1>5, <1>14, <2>1, <2>3
    <2> QED BY <2>2, <2>3
  <1>15. ASSUME op = "nu", WizardTap(m, arg), UNCHANGED pending PROVE ChatInv'
    BY <1>1, <1>3, <1>15, WizardTapStep
  <1> QED BY <1>2, <1>6, <1>7, <1>8, <1>9, <1>10, <1>11, <1>12, <1>13, <1>14, <1>15 DEF Tap

\* The console destroys nothing but from a screen that asked for just that and
\* keeps an account's plan, whatever old buttons are tapped, whatever screens
\* and sessions get lost and whoever else edits the accounts; typed text goes
\* to what the last screen asked for, when that screen arrived and Redis did as
\* it was told last (show, onCallback, input, saveSession, modifyUser).
THEOREM ChatTheorem == ChatSpec => []ChatIsSafe
  <1>1. ChatInit => ChatInv
    <2> SUFFICES ASSUME ChatInit PROVE ChatInv
      OBVIOUS
    <2>1. [limit |-> MaxAmount, expire |-> MaxAmount, plan |-> TRUE] \in ChatRows
      BY ConsoleAssumption DEF ChatRows
    <2>2. accounts \in [Names -> ChatRows \cup {NoAccount}]
      BY <2>1 DEF ChatInit
    <2>3. chat \in Seq(Screens) /\ Len(chat) \in 1 .. MaxMessages /\ last \in 1 .. Len(chat)
      <3>1. chat = <<Home>> /\ Home \in Screens /\ last = 1
        BY ScreenKinds DEF ChatInit
      <3>2. Len(chat) = 1 /\ chat \in Seq(Screens)
        BY <3>1
      <3> QED BY <3>1, <3>2, ConsoleAssumption
    <2>4. ChatShape
      BY <2>2, <2>3 DEF ChatInit, ChatShape, SessionOK, PendingOK
    <2> QED BY <2>4 DEF ChatInit, ChatInv, Asked, Quiet
  <1>2. ChatInv /\ [ChatNext]_chatVars => ChatInv'
    BY TapStep, ModifySteps, TextSteps, AsideSteps DEF ChatNext, ChatStep
  <1>3. ChatInv => ChatIsSafe
    <2> SUFFICES ASSUME ChatInv PROVE ChatIsSafe
      OBVIOUS
    <2>1. MaxMessages \in Nat /\ Len(chat) \in Nat /\ Len(chat) \in 1 .. MaxMessages
      BY ConsoleAssumption DEF ChatInv, ChatShape
    <2>2. session.mode \in {"", "ex", "dt", "nt", "nu"} /\ session.msg \in Nat /\ session.msg <= Len(chat)
      <3>1. NoSession.mode = "" /\ NoSession.msg = 0
        BY DEF NoSession
      <3>2. session \in Sessions => session.mode \in {"ex", "dt", "nt", "nu"} /\ session.msg \in Nat
        BY DEF Sessions
      <3>3. session = NoSession \/ (session \in Sessions /\ session.msg <= Len(chat))
        BY ChatFacts DEF SessionOK
      <3>4. CASE session = NoSession
        <4>1. 0 \in Nat /\ 0 <= Len(chat)
          BY <2>1
        <4>2. session.mode = "" /\ session.msg = 0
          BY <3>1, <3>4
        <4> QED BY <4>1, <4>2, Zenon
      <3>5. CASE session \in Sessions /\ session.msg <= Len(chat)
        BY <3>2, <3>5, Zenon
      <3> QED BY <3>3, <3>4, <3>5
    <2>3. pending.msg \in Nat /\ pending.msg <= Len(chat)
      <3>1. NoPending.msg = 0
        BY DEF NoPending
      <3>2. pending \in Pendings => pending.msg \in Nat
        BY DEF Pendings
      <3> QED BY <2>1, <3>1, <3>2, ChatFacts DEF PendingOK
    <2>4. \A n \in Names : accounts[n] = NoAccount \/ {accounts[n].limit, accounts[n].expire} \subseteq 0 .. MaxAmount
      <3>1. \A n \in Names : accounts[n] = NoAccount \/ accounts[n] \in ChatRows
        BY ChatFacts
      <3> QED BY <3>1 DEF ChatRows
    <2>5. session.msg \in 0 .. MaxMessages /\ pending.msg \in 0 .. MaxMessages
      <3>1. Len(chat) <= MaxMessages
        BY <2>1
      <3> QED BY <2>1, <2>2, <2>3, <3>1, Within, Zenon
    <2> QED BY <2>1, <2>2, <2>4, <2>5, ChatFacts DEF ChatIsSafe, ChatTypeOK, PlanKept, DoesWhatWasAsked
  <1> QED BY <1>1, <1>2, <1>3, PTL DEF ChatSpec
=============================================================================
