----------------------------- MODULE MCBarrier -----------------------------
(***************************************************************************)
(* Barrier on four CPUs that all take part, and on one CPU of several,     *)
(* which the others do not join.                                           *)
(***************************************************************************)
EXTENDS Barrier, TLC

CONSTANTS c1, c2, c3, c4

MCCPU == {c1, c2, c3, c4}

\* The only CPU that cpumask= leaves.
MCLone == {c1}
=============================================================================
