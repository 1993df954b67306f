---------------------------- MODULE MCRegistry ----------------------------
(***************************************************************************)
(* One host id for TLC: two host processes given it, one after the other   *)
(* or at once, a scan and an orphan sweep.                                 *)
(***************************************************************************)
EXTENDS Registry, TLC

CONSTANTS h1, h2, f1, f2, f3

\* Hosts are interchangeable; and so are inode numbers, of which CreateLock takes
\* one that nothing names, whichever it is.
Symmetry == Permutations(Hosts) \cup Permutations(Files)
===========================================================================
