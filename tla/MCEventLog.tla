----------------------------- MODULE MCEventLog -----------------------------
(***************************************************************************)
(* The event log for TLC, with every buffer at one or two records, so that *)
(* the ring evicts, the primary fills and subscriptions overflow.          *)
(***************************************************************************)
EXTENDS EventLog, TLC

CONSTANTS p1, p2, f1, s1, s2
=============================================================================
