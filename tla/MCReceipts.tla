----------------------------- MODULE MCReceipts -----------------------------
(***************************************************************************)
(* Instances of Receipts for TLC: two goroutines, a blocking and a         *)
(* synchronous command, and ages and caps small enough to run out.         *)
(***************************************************************************)
EXTENDS Receipts

CONSTANTS g1, g2, cancel, submit
=============================================================================
