------------------------------- MODULE MCAsks -------------------------------
(***************************************************************************)
(* The ask registry for TLC, with every retention bound at one.            *)
(***************************************************************************)
EXTENDS Asks

\* A number ahead of a question's visible counter.
MCAhead == {Numbered("question", FALSE, 3)}
=============================================================================
