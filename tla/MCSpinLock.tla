----------------------------- MODULE MCSpinLock -----------------------------
(***************************************************************************)
(* SpinLock on four CPUs and a "byte" of six values, -3 .. 2: the          *)
(* largest number of CPUs CountAssumption allows for that width, so that   *)
(* the byte reaches its least value.                                       *)
(***************************************************************************)
EXTENDS SpinLock, TLC

CONSTANTS c1, c2, c3, c4

MCCPU == {c1, c2, c3, c4}
MCHalf == 3
=============================================================================
