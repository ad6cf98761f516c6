----------------------------- MODULE UsageReport -----------------------------
(***************************************************************************)
(* How traffic reaches the database: traffic.Manager's per-user counters,  *)
(* which every connection adds to; pushOnce, which drains them and posts   *)
(* the deltas; and handleNodeReport, which applies one report in separate  *)
(* statements, each allowed to fail on its own.                            *)
(*                                                                         *)
(* A statement's table is modelled by the bytes of each user it holds; the *)
(* totals of admins, nodes and system by the share of each user.  The host *)
(* metrics of a report are left out.  The node gives a push five seconds; the   *)
(* handler of one it gave up on may still be running when the next report  *)
(* arrives, so any number of reports can be in flight.                     *)
(***************************************************************************)
EXTENDS Naturals

CONSTANTS
    Users,
    MaxBytes,   \* how much traffic each user sends in each direction
    MaxReports, \* how many reports the node makes
    Owned,      \* the users that belong to an admin
    MaxEvents   \* how many things go wrong or are done by an administrator

ASSUME ReportsAssumption == MaxBytes \in Nat /\ MaxReports \in Nat /\ MaxEvents \in Nat
ASSUME OwnedAssumption == Owned \subseteq Users

\* The statements of handleNodeReport in their order.
Statements == 1 .. 6
IncrementUsers == 1   \* BulkIncrementUserUsage: users.used_traffic
UpsertNodeUsers == 2  \* BulkUpsertNodeUserUsage: node_user_usages
IncrementAdmins == 3  \* BulkIncrementAdminUsage: admins and the billing queue
UpsertNode == 4       \* UpsertNodeUsage: node_usages
IncrementNode == 5    \* IncrementNodeCumulative: nodes
IncrementSystem == 6  \* IncrementSystemCumulative: system

\* Where a handler is before the first statement, at MarkNodeConnectedIf-
\* NotDisabled and after it.
Resolve == 0
MarkNode == 7
Done == 8

Reports == 1 .. MaxReports

VARIABLES
    served,  \* bytes carried so far: [Users -> [{"up", "down"} -> Nat]]
    counter, \* Manager.users
    drain,   \* the Drain under way: what is left to swap and what it got
    made,    \* how many reports have been sent
    report,  \* each report's deltas and the statement its handler is at
    known,   \* the users the panel still has
    table,   \* each statement's table: [Statements -> [Users -> Nat]]
    status,  \* nodes.status
    happened \* how often each event happened; the code keeps no such count

usageVars == <<served, counter, drain, made, report, known, table, status, happened>>

\* A push that is lost, a statement that fails, a user deleted, the node
\* disabled or enabled.
Events == {"lost", "statement", "delete", "disable"}

\* Event e happens now.
Happens(e) ==
    /\ happened["lost"] + happened["statement"] + happened["delete"]
         + happened["disable"] < MaxEvents
    /\ happened' = [happened EXCEPT ![e] = @ + 1]

\* Event e happens now if b.
HappensIf(b, e) == IF b THEN Happens(e) ELSE UNCHANGED happened

Directions == {"up", "down"}
Nothing == [u \in Users |-> [d \in Directions |-> 0]]

\* A report not made yet, lost, or applied.
Ended == [at |-> Done, usage |-> Nothing]

Delta(usage, u) == usage[u]["up"] + usage[u]["down"]

UsageInit ==
    /\ served = Nothing
    /\ counter = Nothing
    /\ drain = [left |-> {}, got |-> Nothing, on |-> FALSE]
    /\ made = 0
    /\ report = [r \in Reports |-> Ended]
    /\ known = Users
    /\ table = [s \in Statements |-> [u \in Users |-> 0]]
    /\ status = "connecting"
    /\ happened = [e \in Events |-> 0]

-----------------------------------------------------------------------------
(***************************************************************************)
(* The node.                                                               *)
(***************************************************************************)

\* Manager.Add from WrapConn's and WrapPacketConn's counting functions.
AddTraffic(u, d) ==
    /\ served[u][d] < MaxBytes
    /\ served' = [served EXCEPT ![u][d] = @ + 1]
    /\ counter' = [counter EXCEPT ![u][d] = @ + 1]
    /\ UNCHANGED <<drain, made, report, known, table, status, happened>>

\* pushOnce calls Drain.
DrainBegin ==
    /\ ~ drain.on
    /\ made < MaxReports
    /\ drain' = [left |-> Users \X Directions, got |-> Nothing, on |-> TRUE]
    /\ UNCHANGED <<served, counter, made, report, known, table, status, happened>>

\* Fault: the counter is read now and cleared when the Drain is over.
DrainLoad(u, d) ==
    /\ drain' = [drain EXCEPT !.left = @ \ {<<u, d>>}, !.got[u][d] = counter[u][d]]
    /\ counter' = IF drain.left = {<<u, d>>} THEN Nothing ELSE counter

\* Fault: the counters are read and never cleared.
DrainKeep(u, d) ==
    /\ drain' = [drain EXCEPT !.left = @ \ {<<u, d>>}, !.got[u][d] = counter[u][d]]
    /\ counter' = counter

\* One atomic Swap(0), up before down for each user.
DrainSwap(u, d) ==
    /\ drain' = [drain EXCEPT !.left = @ \ {<<u, d>>}, !.got[u][d] = counter[u][d]]
    /\ counter' = [counter EXCEPT ![u][d] = 0]

DrainOne(u, d) ==
    /\ drain.on
    /\ <<u, d>> \in drain.left
    /\ d = "down" => <<u, "up">> \notin drain.left
    /\ DrainSwap(u, d)
    /\ UNCHANGED <<served, made, report, known, table, status, happened>>

\* The request goes out, or fails on the way: the deltas are gone either way.
Push(lost) ==
    /\ drain.on
    /\ drain.left = {}
    /\ HappensIf(lost, "lost")
    /\ made' = made + 1
    /\ drain' = [drain EXCEPT !.on = FALSE, !.got = Nothing]
    /\ report' = [report EXCEPT ![made + 1] =
                    IF lost THEN Ended ELSE [at |-> Resolve, usage |-> drain.got]]
    /\ UNCHANGED <<served, counter, known, table, status>>

-----------------------------------------------------------------------------
(***************************************************************************)
(* handleNodeReport, one step per statement.                               *)
(***************************************************************************)

\* GetUsersByUsernames: only users that still exist count.  When it fails the
\* handler answers 500 and applies nothing; without users it is not asked.
ResolveUsers(r, fails) ==
    /\ report[r].at = Resolve
    /\ fails => \E u \in Users : Delta(report[r].usage, u) > 0
    /\ HappensIf(fails, "statement")
    /\ report' = [report EXCEPT ![r] =
                    IF fails THEN Ended
                    ELSE [at |-> IncrementUsers,
                          usage |-> [u \in Users |->
                              IF u \in known THEN @.usage[u] ELSE Nothing[u]]]]
    /\ UNCHANGED <<served, counter, drain, made, known, table, status>>

\* The users statement s has a delta for.
Billed(r, s) ==
    {u \in Users : Delta(report[r].usage, u) > 0 /\ (s = IncrementAdmins => u \in Owned)}

\* The users whose row statement s finds: one deleted since the report was
\* resolved has no row in users, and still counts in the totals.
Found(r, s) == IF s = IncrementUsers THEN Billed(r, s) \cap known ELSE Billed(r, s)

\* node_user_usages refuses the whole batch when one of its users is gone
\* (user_id REFERENCES users).
Refused(r, s) == s = UpsertNodeUsers /\ ~ (Billed(r, s) \subseteq known)

\* Fault: a statement that fails is run again although it went through.
ApplyTwice(r, s, fails) ==
    table' = [table EXCEPT ![s] = [u \in Users |->
                table[s][u] + (IF u \notin Found(r, s) THEN 0 ELSE
                               IF fails THEN 2 * Delta(report[r].usage, u)
                                        ELSE Delta(report[r].usage, u))]]

\* Fault: the node's and the panel's totals are only added to when the report
\* has traffic in both directions.
ApplyBothDirections(r, s, fails) ==
    table' = IF fails \/ Refused(r, s)
                \/ (s >= UpsertNode /\ \E d \in Directions :
                        \A u \in Users : report[r].usage[u][d] = 0)
             THEN table
             ELSE [table EXCEPT ![s] = [u \in Users |->
                     table[s][u] + (IF u \in Found(r, s)
                                    THEN Delta(report[r].usage, u) ELSE 0)]]

\* A statement applies its deltas, or fails and is only logged.
Apply(r, s, fails) ==
    table' = IF fails \/ Refused(r, s) THEN table
             ELSE [table EXCEPT ![s] = [u \in Users |->
                     table[s][u] + (IF u \in Found(r, s)
                                    THEN Delta(report[r].usage, u) ELSE 0)]]

RunStatement(r, s, fails) ==
    /\ report[r].at = s
    /\ HappensIf(fails, "statement")
    /\ Apply(r, s, fails)
    /\ report' = [report EXCEPT ![r].at = s + 1]
    /\ UNCHANGED <<served, counter, drain, made, known, status>>

\* Fault: any report shows that the node is connected.
ConnectedStatus == "connected"

\* MarkNodeConnectedIfNotDisabled's UPDATE ... WHERE.
StatusAfterReport == IF status = "disabled" THEN status ELSE "connected"

\* The last statement, and the handler answers 200 whatever failed.
MarkConnected(r, fails) ==
    /\ report[r].at = MarkNode
    /\ HappensIf(fails, "statement")
    /\ report' = [report EXCEPT ![r] = Ended]
    /\ status' = IF fails THEN status ELSE StatusAfterReport
    /\ UNCHANGED <<served, counter, drain, made, known, table>>

(***************************************************************************)
(* The administrator.                                                      *)
(***************************************************************************)

\* handleDeleteUser: the user's row goes and its node_user_usages with it; the
\* usage the node still holds is dropped when it arrives.
DeleteUser(u) ==
    /\ u \in known
    /\ Happens("delete")
    /\ known' = known \ {u}
    /\ table' = [table EXCEPT ![IncrementUsers][u] = 0, ![UpsertNodeUsers][u] = 0]
    /\ UNCHANGED <<served, counter, drain, made, report, status>>

\* handleUpdateNode with the disabled field, as UpdateNode's CASE reads it.
SetDisabled(disabled) ==
    /\ Happens("disable")
    /\ status' = IF disabled THEN "disabled"
                 ELSE IF status = "disabled" THEN "connecting" ELSE status
    /\ UNCHANGED <<served, counter, drain, made, report, known, table>>

-----------------------------------------------------------------------------
UsageNext ==
    \/ \E u \in Users, d \in Directions : AddTraffic(u, d) \/ DrainOne(u, d)
    \/ DrainBegin
    \/ \E lost \in BOOLEAN : Push(lost)
    \/ \E r \in Reports, fails \in BOOLEAN :
          \/ ResolveUsers(r, fails)
          \/ \E s \in Statements : RunStatement(r, s, fails)
          \/ MarkConnected(r, fails)
    \/ \E u \in Users : DeleteUser(u)
    \/ \E disabled \in BOOLEAN : SetDisabled(disabled)

UsageSpec == UsageInit /\ [][UsageNext]_usageVars

-----------------------------------------------------------------------------
(***************************************************************************)
(* Properties.                                                             *)
(***************************************************************************)
Usages == [Users -> [Directions -> 0 .. MaxBytes]]

\* The values the node's counters, the reports in flight and the tables hold.
UsageTypeOK ==
    /\ served \in Usages
    /\ counter \in Usages
    /\ drain \in [left : SUBSET (Users \X Directions), got : Usages, on : BOOLEAN]
    /\ made \in 0 .. MaxReports
    /\ report \in [Reports -> [at : Resolve .. Done, usage : Usages]]
    /\ known \subseteq Users
    /\ table \in [Statements -> [Users -> 0 .. 2 * MaxBytes]]
    /\ status \in {"connecting", "connected", "disabled"}
    /\ happened \in [Events -> 0 .. MaxEvents]

\* The total of what each report has.
TotalOf(amount) ==
    LET sum[n \in 0 .. MaxReports] == IF n = 0 THEN 0 ELSE sum[n - 1] + amount[n]
    IN  sum[MaxReports]

\* What the reports in flight will still add through statement s.
Coming(s, u) ==
    TotalOf([r \in Reports |-> IF report[r].at <= s THEN Delta(report[r].usage, u) ELSE 0])

\* What of user u's traffic is still on its way to statement s's table.
OnItsWay(s, u) == Delta(counter, u) + Delta(drain.got, u) + Coming(s, u)

\* No byte is ever counted twice, in any of the tables, whatever is lost,
\* fails or is still running when the next report comes: quotas and bills are
\* never charged for more than was carried.
AtMostOnce ==
    \A s \in Statements, u \in Users : table[s][u] + OnItsWay(s, u) <= Delta(served, u)

\* As long as no push is lost and no statement fails, no traffic of a user the
\* panel knows is dropped - it is in users.used_traffic or on its way there,
\* however traffic, drains, overlapping reports and deletions interleave.
NothingDropped ==
    happened["lost"] + happened["statement"] = 0 =>
        \A u \in known :
            table[IncrementUsers][u] + OnItsWay(IncrementUsers, u) = Delta(served, u)

\* While no statement fails, a user's quota, the reseller's bill, the node's and
\* the panel's totals agree about every user whenever no report is being
\* applied, also after reports were lost and users deleted; the per-node history
\* agrees as well as long as no user was deleted under a report.
TablesAgree ==
    (happened["statement"] = 0 /\ \A r \in Reports : report[r].at \notin Statements) =>
        \A u \in known, s, t \in Statements :
            \/ table[s][u] = table[t][u]
            \/ IncrementAdmins \in {s, t} /\ u \notin Owned
            \/ UpsertNodeUsers \in {s, t} /\ known # Users

\* A report that was already being applied when an administrator disabled the
\* node does not bring it back: a disabled node is first enabled, and then
\* connected by a report.
DisabledStays ==
    [][status = "disabled" => status' \in {"disabled", "connecting"}]_status

\* Nothing is counted twice, the tables tell one story, and a report never brings
\* a disabled node back (nodereport.go).
UsageAddsUp == [](UsageTypeOK /\ AtMostOnce /\ TablesAgree) /\ DisabledStays
=============================================================================
