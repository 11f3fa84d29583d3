------------------------------ MODULE MCSched ------------------------------
(***************************************************************************)
(* Sched on a few CPUs and a short list of tests.                          *)
(***************************************************************************)
EXTENDS Sched, TLC

Entry(sel, cpus, pat) == [sel |-> sel, cpus |-> cpus, pat |-> pat]

\* The kinds of tests of the program's own list: for one CPU after the other, for
\* all of them, for CPU 0 only, and the bit fade test.
MixedSeq == << Entry(TRUE, -1, 0), Entry(TRUE, -1, 1), Entry(TRUE, 32, 2),
               Entry(FALSE, 32, 3), Entry(TRUE, 1, 11), Entry(TRUE, 0, 0) >>

\* One test selected by the user or with tstlist=.
OneSeq == << Entry(TRUE, 32, 2), Entry(FALSE, 32, 3), Entry(TRUE, 0, 0) >>

\* The memory ends where map_page() fails, or before, with an empty last window.  A
\* switch of the mode on the latter is left to CpusAgree's counterexample.
TwoMachines == {[mapEnd |-> 1, keys |-> 1], [mapEnd |-> 9, keys |-> 0]}

\* The latter, alone and with a switch of the mode.
OpenEnd == {[mapEnd |-> 9, keys |-> 0]}
OpenEndSwitched == {[mapEnd |-> 9, keys |-> 1]}

AllModes == {"all", "rrobin", "seq"}
=============================================================================
