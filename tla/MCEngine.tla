------------------------------ MODULE MCEngine ------------------------------
(***************************************************************************)
(* Instances of Engine for TLC.  The .cfg files choose the session, the    *)
(* chain policy and the commands clients send; every bound is a constant   *)
(* of Engine or Session.                                                   *)
(***************************************************************************)
EXTENDS Engine, TLC

CONSTANTS c1, c2, h1, h2

\* Cancels in flight are interchangeable, and so are hosts.
Symmetry == Permutations(Calls) \cup Permutations(Hosts)
=============================================================================
