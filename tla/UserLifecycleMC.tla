--------------------------- MODULE UserLifecycleMC ---------------------------
(***************************************************************************)
(* Instances of UserLifecycle: what the requests of each run ask for.      *)
(***************************************************************************)
EXTENDS UserLifecycle, TLC

CONSTANTS a1, a2

Call(call) == [call |-> call, status |-> NULL, limit |-> NULL, expire |-> NULL,
               hold |-> NULL, timeout |-> NULL, plan |-> NULL]

Limit(r, l) == [r EXCEPT !.limit = l]
Expire(r, t) == [r EXCEPT !.expire = t]
WithStatus(r, s) == [r EXCEPT !.status = s]
OnHold(r, d, t) == [r EXCEPT !.status = "on_hold", !.hold = d, !.timeout = t]
WithPlan(r, d, drop, either) ==
    [r EXCEPT !.plan = [limit |-> 1, expire |-> d, drop |-> drop, either |-> either]]

\* An account with a limit and an expiry, one with a plan, and one on hold.
Creates == {Expire(Limit(Call("create"), 1), 2),
            WithPlan(Limit(Call("create"), 1), 1, FALSE, TRUE),
            OnHold(Limit(Call("create"), 1), 1, 2)}

\* A limit that is raised and one that is lifted, an expiry moved into the past
\* and into the future, the statuses, a plan and an edit of nothing.
Edits == {Limit(Call("modify"), 2), Limit(Call("modify"), 0),
          Expire(Call("modify"), 1), Expire(Call("modify"), 3),
          WithStatus(Call("modify"), "disabled"), WithStatus(Call("modify"), "active"),
          OnHold(Call("modify"), 1, NULL),
          WithPlan(Call("modify"), 1, TRUE, FALSE), Call("modify")}

OtherCalls == {Call(c) : c \in {"reset", "next", "delete", "deleteExpired", "emergency",
                            "resetAll", "disableAll", "activateAll"}}

SerialRequests == Creates \cup Edits \cup OtherCalls

\* What races with the review loop and with each other: an edit that writes back
\* what it read, resets, switches, grants, and a delete before the next create.
OverlapRequests ==
    {WithPlan(Limit(Call("create"), 1), 1, FALSE, TRUE), OnHold(Call("create"), 1, 2),
     WithStatus(Call("modify"), "active")}
    \cup {Call(c) : c \in {"reset", "delete", "emergency", "resetAll", "disableAll"}}

\* Two requests that end in a disabled account becoming active.
StaleRequests == Creates \cup {WithStatus(Call("modify"), "disabled"), Call("reset")}

\* A plan whose expiry is as long as the column's largest value.
HugeRequests == {WithPlan(Limit(Call("create"), 1), MaxInt, TRUE, TRUE)}
=============================================================================
