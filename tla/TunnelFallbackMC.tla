--------------------------- MODULE TunnelFallbackMC ---------------------------
(***************************************************************************)
(* Instances of TunnelFallback: two exits over one tunnel, with the two    *)
(* and three rounds the monitor's defaults ask for.                        *)
(***************************************************************************)
EXTENDS TunnelFallback

MCIfaceOf == [g \in Groups |-> "wg0"]
=============================================================================
