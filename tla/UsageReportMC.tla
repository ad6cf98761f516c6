---------------------------- MODULE UsageReportMC ----------------------------
(***************************************************************************)
(* An instance of UsageReport: two users, one of them without an admin,    *)
(* one byte each in either direction, two reports that may overlap, and    *)
(* any two of the events.  Bytes and reports are bounded, so the model     *)
(* stops.                                                                  *)
(***************************************************************************)
EXTENDS UsageReport
=============================================================================
