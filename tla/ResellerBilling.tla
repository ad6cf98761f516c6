--------------------------- MODULE ResellerBilling ---------------------------
(***************************************************************************)
(* Billing resellers: node reports queue each admin's traffic in the       *)
(* statement that raises admins.users_usage (BulkIncrementAdminUsage), the *)
(* loop of internal/resellerusagejob posts what is queued to the reseller  *)
(* bot and moves it to reported once the bot answered, and the bot charges *)
(* a post when it processes it - also one whose sender has given up.       *)
(*                                                                         *)
(* The loop runs in one backend process; that a second may run beside it,  *)
(* for a while or after a lost connection, is PanelStart's.  A timeout     *)
(* or a restart while a post is out, and a mark that fails or is cut short *)
(* by a crash, are its faults.  A restore or an import of another panel's  *)
(* database replaces these tables altogether and is not among the steps.   *)
(***************************************************************************)
EXTENDS Integers

CONSTANTS
    Admins,
    Handlers,    \* the node reports that can be handled at the same time
    MaxUsage,    \* how much traffic each admin's users make
    MaxFaults,   \* how many rounds of the loop fail after sending
    MaxSettings, \* how often the integration settings are saved
    MaxResets    \* how often an administrator resets a usage counter

ASSUME BoundsAssumption ==
    MaxUsage \in [Admins -> Nat] /\ MaxFaults \in Nat /\ MaxSettings \in Nat /\ MaxResets \in Nat

VARIABLES
    configured, \* Config.CanReportUsage() of the stored settings
    saves,      \* how often they were saved
    admins,     \* the admins that exist
    usage,      \* admins.users_usage
    erased,     \* what resets have taken off it (a history variable)
    resets,     \* how many there were
    unqueued,   \* the part of it that was never queued (a history variable)
    pending,    \* reseller_api_usage_queue.pending
    reported,   \* reseller_api_usage_queue.reported
    handler,    \* each node report: "idle", or whether it will queue
    post,       \* the loop's report: "none", "sent" or "charged"
    sent,       \* what it says
    faults,     \* how many rounds have failed after sending
    late,       \* what each of them left for the bot to process
    charged     \* what the bot has charged each reseller

nodeVars == <<usage, erased, resets, unqueued, handler>>
queueVars == <<pending, reported>>
loopVars == <<post, sent, faults, late>>
settingsVars == <<configured, saves>>
vars == <<settingsVars, admins, nodeVars, queueVars, loopVars, charged>>

Zero == [a \in Admins |-> 0]
Plus(f, g) == [a \in Admins |-> f[a] + g[a]]
Faults == 1 .. MaxFaults

Init ==
    /\ configured \in BOOLEAN
    /\ saves = 0
    /\ admins = Admins
    /\ usage = Zero
    /\ erased = Zero
    /\ resets = 0
    /\ unqueued = Zero
    /\ pending = Zero
    /\ reported = Zero
    /\ handler = [h \in Handlers |-> "idle"]
    /\ post = "none"
    /\ sent = Zero
    /\ faults = 0
    /\ late = [f \in Faults |-> Zero]
    /\ charged = Zero

-----------------------------------------------------------------------------
(***************************************************************************)
(* handleNodeReport and the administrator.                                 *)
(***************************************************************************)

\* The handler reads the settings; when it cannot, the usage is not queued.
ResolveSettings(h, fails) ==
    /\ handler[h] = "idle"
    /\ handler' = [handler EXCEPT ![h] = IF configured /\ ~ fails THEN "queue" ELSE "skip"]
    /\ UNCHANGED <<settingsVars, admins, usage, erased, resets, unqueued, queueVars, loopVars, charged>>

\* BulkIncrementAdminUsage with one unit of traffic of admin a: one statement.
BulkIncrementAdminUsage(h, a) ==
    /\ handler[h] # "idle"
    /\ a \in admins
    /\ usage[a] + erased[a] < MaxUsage[a]
    /\ usage' = [usage EXCEPT ![a] = @ + 1]
    /\ IF handler[h] = "queue"
         THEN pending' = [pending EXCEPT ![a] = @ + 1] /\ UNCHANGED unqueued
         ELSE unqueued' = [unqueued EXCEPT ![a] = @ + 1] /\ UNCHANGED pending
    /\ handler' = [handler EXCEPT ![h] = "idle"]
    /\ UNCHANGED <<settingsVars, admins, erased, resets, reported, loopVars, charged>>

\* Fault: the reset clears what the admin has in the queue with it.
ResetQueueToo(a) ==
    /\ a \in admins
    /\ resets < MaxResets
    /\ resets' = resets + 1
    /\ erased' = [erased EXCEPT ![a] = @ + usage[a]]
    /\ usage' = [usage EXCEPT ![a] = 0]
    /\ pending' = [pending EXCEPT ![a] = 0]
    /\ UNCHANGED <<settingsVars, admins, unqueued, handler, reported, loopVars, charged>>

\* POST /admin/usage/reset: the counter on the admin's card goes to zero and
\* what is queued or reported of it stays.
ResetAdminUsage(a) ==
    /\ a \in admins
    /\ resets < MaxResets
    /\ resets' = resets + 1
    /\ erased' = [erased EXCEPT ![a] = @ + usage[a]]
    /\ usage' = [usage EXCEPT ![a] = 0]
    /\ UNCHANGED <<settingsVars, admins, unqueued, handler, queueVars, loopVars, charged>>

\* The integration settings are saved with or without a URL and a secret.
SaveSettings(on) ==
    /\ saves < MaxSettings
    /\ saves' = saves + 1
    /\ configured' = on
    /\ UNCHANGED <<admins, nodeVars, queueVars, loopVars, charged>>

\* An admin is deleted and its row of the queue with it (ON DELETE CASCADE).
DeleteAdmin(a) ==
    /\ a \in admins
    /\ admins' = admins \ {a}
    /\ usage' = [usage EXCEPT ![a] = 0]
    /\ erased' = [erased EXCEPT ![a] = 0]
    /\ unqueued' = [unqueued EXCEPT ![a] = 0]
    /\ pending' = [pending EXCEPT ![a] = 0]
    /\ reported' = [reported EXCEPT ![a] = 0]
    /\ UNCHANGED <<settingsVars, resets, handler, loopVars, charged>>

-----------------------------------------------------------------------------
(***************************************************************************)
(* The loop.                                                               *)
(***************************************************************************)

\* Fault: the query takes rows with more than one unit.
HasMore(a) == pending[a] > 1

\* GetPendingResellerAPIUsage's WHERE.
HasPending(a) == pending[a] > 0

\* Tick reads the settings and the queue and posts; with nothing queued or
\* nothing configured it does nothing.
Tick ==
    /\ post = "none"
    /\ configured
    /\ \E a \in Admins : HasPending(a)
    /\ post' = "sent"
    /\ sent' = pending
    /\ UNCHANGED <<settingsVars, admins, nodeVars, queueVars, faults, late, charged>>

\* Fault: the row is zeroed, with what a node report added meanwhile.
MarkZero ==
    /\ pending' = [a \in Admins |-> IF sent[a] > 0 THEN 0 ELSE pending[a]]
    /\ reported' = [a \in Admins |->
                      IF a \in admins THEN reported[a] + sent[a] ELSE reported[a]]

\* Fault: the row is zeroed, whatever was in it counting as reported.
MarkAll ==
    /\ pending' = [a \in Admins |-> IF sent[a] > 0 THEN 0 ELSE pending[a]]
    /\ reported' = [a \in Admins |->
                      IF a \in admins /\ sent[a] > 0 THEN reported[a] + pending[a] ELSE reported[a]]

\* Fault: a row that was deleted meanwhile is written again.
MarkUpsert ==
    /\ pending' = [a \in Admins |-> pending[a] - sent[a]]
    /\ reported' = Plus(reported, sent)

\* MarkResellerAPIUsageReported: what was sent moves, in the rows still there.
MarkSent ==
    /\ pending' = [a \in Admins |-> IF a \in admins THEN pending[a] - sent[a] ELSE pending[a]]
    /\ reported' = [a \in Admins |-> IF a \in admins THEN reported[a] + sent[a] ELSE reported[a]]

\* Fault: the post is marked without looking at the bot's answer.
AnsweredOrNot == post # "none"

\* ReportUsages returned nil: the bot has processed the post.
Answered == post = "charged"

\* What was sent is marked, also while the process is shutting down.
Mark ==
    /\ Answered
    /\ MarkSent
    /\ post' = "none"
    /\ sent' = Zero
    /\ UNCHANGED <<settingsVars, admins, nodeVars, faults, late, charged>>

\* A round that posted fails: a timeout, a refusal or a restart while the post
\* is out, and then the bot may still get to it; or the mark fails.
RoundFails ==
    /\ post # "none"
    /\ faults < MaxFaults
    /\ faults' = faults + 1
    /\ late' = [late EXCEPT ![faults + 1] = IF post = "sent" THEN sent ELSE Zero]
    /\ post' = "none"
    /\ sent' = Zero
    /\ UNCHANGED <<settingsVars, admins, nodeVars, queueVars, charged>>

-----------------------------------------------------------------------------
(***************************************************************************)
(* The bot.                                                                *)
(***************************************************************************)

\* It processes the post the loop is waiting for and answers.
BotCharges ==
    /\ post = "sent"
    /\ post' = "charged"
    /\ charged' = Plus(charged, sent)
    /\ UNCHANGED <<settingsVars, admins, nodeVars, queueVars, sent, faults, late>>

\* It processes, or never gets, a post whose sender has given up.
BotChargesLate(f, lost) ==
    /\ late[f] # Zero
    /\ late' = [late EXCEPT ![f] = Zero]
    /\ charged' = IF lost THEN charged ELSE Plus(charged, late[f])
    /\ UNCHANGED <<settingsVars, admins, nodeVars, queueVars, post, sent, faults>>

-----------------------------------------------------------------------------
Next ==
    \/ \E h \in Handlers, fails \in BOOLEAN : ResolveSettings(h, fails)
    \/ \E h \in Handlers, a \in Admins : BulkIncrementAdminUsage(h, a)
    \/ \E on \in BOOLEAN : SaveSettings(on)
    \/ \E a \in Admins : ResetAdminUsage(a) \/ DeleteAdmin(a)
    \/ Tick
    \/ Mark
    \/ RoundFails
    \/ BotCharges
    \/ \E f \in Faults, lost \in BOOLEAN : BotChargesLate(f, lost)

Spec == Init /\ [][Next]_vars

\* The ticker fires for ever, and a bot that is up answers: a round either
\* fails, which the model allows MaxFaults times, or comes to its end.
FairSpec ==
    /\ Spec
    /\ WF_vars(Tick)
    /\ WF_vars(BotCharges)
    /\ WF_vars(Mark)

-----------------------------------------------------------------------------
(***************************************************************************)
(* Properties.                                                             *)
(***************************************************************************)
Amounts == [Admins -> Nat]

\* Nothing is ever negative: a row of the queue never pays back more than was
\* put into it.
TypeOK ==
    /\ configured \in BOOLEAN
    /\ saves \in Nat
    /\ admins \subseteq Admins
    /\ usage \in Amounts
    /\ erased \in Amounts
    /\ resets \in Nat
    /\ unqueued \in Amounts
    /\ pending \in Amounts
    /\ reported \in Amounts
    /\ handler \in [Handlers -> {"idle", "queue", "skip"}]
    /\ post \in {"none", "sent", "charged"}
    /\ sent \in Amounts
    /\ faults \in 0 .. MaxFaults
    /\ late \in [Faults -> Amounts]
    /\ charged \in Amounts

\* "An unreachable bot delays billing without losing any": all the traffic that
\* was queued when it was added to users_usage is pending or reported, whatever
\* reports arrive while a post is out, whatever round fails, and also when the
\* counter itself has been reset since.
NothingLost ==
    \A a \in Admins : usage[a] + erased[a] = pending[a] + reported[a] + unqueued[a]

\* Nothing is written off: what counts as reported the bot has charged.
ReportedWasCharged == \A a \in Admins : reported[a] <= charged[a]

\* A reseller pays no byte twice unless a round failed after sending: with no
\* such round the bot has charged what is reported and the post being marked.
ChargedOnce ==
    faults = 0 =>
        \A a \in admins :
            charged[a] = reported[a] + (IF post = "charged" THEN sent[a] ELSE 0)

\* Everything queued is billed in the end, once the settings stay complete.
EverythingIsBilled ==
    <>[]configured => <>[](\A a \in Admins : pending[a] = 0)

Ledger == INSTANCE BillingLedger WITH queued <- pending, settled <- reported, billed <- charged

\* The queue, the loop and the bot together keep the ledger's promise: whatever
\* reports arrive and whatever rounds fail, traffic leaves the queue only once it is
\* billed (resellerusagejob.go, "only once the bot has accepted it").
ImplementsLedger == Ledger!LedgerSpec
=============================================================================
