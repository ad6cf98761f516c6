------------------------------ MODULE AccountsMC ------------------------------
(***************************************************************************)
(* Instances of the parts that decide who gets in and who is shown as in:  *)
(* administrators' accounts and logins, users' links, and presence.  The   *)
(* parts share no state, so each behaviour is one of one part, chosen at   *)
(* the start, while the others rest.                                       *)
(***************************************************************************)
EXTENDS AdminAuth, LoginLimit, UserLinks, Presence, TLC

CONSTANTS m1, m2, u1, u2, w1, w2

VARIABLE part

TagsDef == [p \in LinkProtos |-> {1}]

\* Overlapping requests are interchangeable, nodes are, and passwords are.
Perms == Permutations({m1, m2}) \cup Permutations({w1, w2})

AccountsInit ==
    /\ part \in {"auth", "limit", "links", "presence"}
    /\ AdminInit /\ LimitInit /\ LinkInit /\ PresInit
    /\ part # "links" => row[u1] # NoRow /\ \A l \in minted : l.kind = "id"
    /\ \A n \in LiveNodes : chan[n].up

AccountsNext ==
    /\ UNCHANGED part
    /\ \/ part = "auth" /\ AdminNext /\ UNCHANGED <<limitVars, linkVars, presVars>>
       \/ part = "limit" /\ LimitNext /\ UNCHANGED <<adminVars, linkVars, presVars>>
       \/ part = "links" /\ LinkNext /\ UNCHANGED <<adminVars, limitVars, presVars>>
       \/ part = "presence" /\ PresNext /\ UNCHANGED <<adminVars, limitVars, linkVars>>

AccountsSpec ==
    AccountsInit /\ [][AccountsNext]_<<part, adminVars, limitVars, linkVars, presVars>>
=============================================================================
