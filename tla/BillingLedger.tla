---------------------------- MODULE BillingLedger ----------------------------
(***************************************************************************)
(* What the billing of resellers promises, without the loop, its posts and *)
(* its failures: traffic is queued, the bot bills, and what it has billed  *)
(* is settled.  Traffic leaves the queue only by being settled, nothing is *)
(* settled that was not billed, and a bill is never taken back.  An        *)
(* admin's accounts end with the admin.                                    *)
(***************************************************************************)
EXTENDS Naturals

CONSTANT Admins

VARIABLES
    queued,  \* what is to be billed
    settled, \* what was billed and need not be sent again
    billed   \* what the bot has charged

ledger == <<queued, settled, billed>>

LedgerInit ==
    /\ queued = [a \in Admins |-> 0]
    /\ settled = [a \in Admins |-> 0]
    /\ billed = [a \in Admins |-> 0]

\* Traffic of one admin is metered.
Meter(a) ==
    /\ queued' = [queued EXCEPT ![a] = @ + 1]
    /\ UNCHANGED <<settled, billed>>

\* The bot charges, whatever it was sent.
Bill ==
    /\ \A a \in Admins : billed'[a] >= billed[a]
    /\ UNCHANGED <<queued, settled>>

\* What was billed moves.
Settle ==
    /\ \A a \in Admins :
          /\ queued'[a] + settled'[a] = queued[a] + settled[a]
          /\ settled[a] <= settled'[a] /\ settled'[a] <= billed[a]
    /\ UNCHANGED billed

Close(a) ==
    /\ queued' = [queued EXCEPT ![a] = 0]
    /\ settled' = [settled EXCEPT ![a] = 0]
    /\ UNCHANGED billed

LedgerNext ==
    \/ \E a \in Admins : Meter(a) \/ Close(a)
    \/ Bill
    \/ Settle

LedgerSpec == LedgerInit /\ [][LedgerNext]_ledger
=============================================================================
