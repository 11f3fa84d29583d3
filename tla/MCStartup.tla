----------------------------- MODULE MCStartup -----------------------------
(***************************************************************************)
(* Startup on four CPUs of which cpumask= leaves out one.                  *)
(***************************************************************************)
EXTENDS Startup

MCSelected == {0, 1, 3}
=============================================================================
