------------------------------ MODULE CountingMC ------------------------------
(***************************************************************************)
(* Instances of the two parts whose counts are settled later than they     *)
(* are made: ConnTracking, with two connections of one user over three     *)
(* cores, one of them the carrier of a multiplexed session on a port       *)
(* nobody knows; and ResellerBilling, with two units of traffic for one    *)
(* admin, so that one can land while a post is out, one for another, two   *)
(* failed rounds, which leave two posts with the bot at once, and a reset. *)
(*                                                                         *)
(* They share no state, so each behaviour is one of one part, chosen at    *)
(* the start, while the other rests.                                       *)
(***************************************************************************)
EXTENDS ConnTracking, ResellerBilling, TLC

CONSTANTS c1, c2, a1, a2, n1

VARIABLE part

MCUserOf == c1 :> "alice" @@ c2 :> "alice"
MCPortOf == c1 :> "p443" @@ c2 :> "none"
MCMaxUsage == a1 :> 2 @@ a2 :> 1

CountingInit ==
    /\ part \in {"conns", "billing"}
    /\ TrackInit /\ Init
    /\ part = "conns" => ~ configured

CountingNext ==
    /\ UNCHANGED part
    /\ \/ part = "conns" /\ TrackNext /\ UNCHANGED vars
       \/ part = "billing" /\ Next /\ UNCHANGED trackVars

\* Each part's own fairness, which asks nothing of a part at rest: there is no
\* core whose connections could go on, and no ticker runs in part "conns".
CountingSpec ==
    /\ CountingInit
    /\ [][CountingNext]_<<part, vars, trackVars>>
    /\ TrackFairness
    /\ WF_vars(part = "billing" /\ Tick)
    /\ WF_vars(part = "billing" /\ BotCharges)
    /\ WF_vars(part = "billing" /\ Mark)
=============================================================================
