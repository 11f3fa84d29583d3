----------------------------- MODULE Rendezvous -----------------------------
(***************************************************************************)
(* What a barrier promises.  A CPU that arrives waits; the waiting CPUs    *)
(* are let go together, and only when every CPU waits.  A CPU that has     *)
(* returned may arrive for the next round before the others have returned  *)
(* from this one.                                                          *)
(***************************************************************************)
CONSTANT CPU        \* the CPUs that meet

VARIABLE stage      \* what each CPU is doing: "run", "wait" or "go"

Init == stage = [p \in CPU |-> "run"]

Arrive(p) == stage[p] = "run" /\ stage' = [stage EXCEPT ![p] = "wait"]

Release == /\ \A p \in CPU : stage[p] = "wait"
           /\ stage' = [p \in CPU |-> "go"]

Leave(p) == stage[p] = "go" /\ stage' = [stage EXCEPT ![p] = "run"]

Next == Release \/ \E p \in CPU : Arrive(p) \/ Leave(p)

Spec == Init /\ [][Next]_stage
=============================================================================
