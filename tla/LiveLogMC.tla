------------------------------ MODULE LiveLogMC ------------------------------
(* LiveLog on small sizes: two handlers can overlap, the ring overflows, a   *)
(* backlog takes several requests and the browser several pages.             *)
EXTENDS LiveLog
CONSTANTS h1, h2, none
MCSlots == {h1, h2}
=============================================================================
