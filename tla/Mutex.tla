------------------------------- MODULE Mutex -------------------------------
(***************************************************************************)
(* What a spin lock promises: at most one CPU owns it, and only the owner  *)
(* gives it back.                                                          *)
(***************************************************************************)
CONSTANTS CPU,      \* the CPUs that use the lock
          NoOwner   \* the value of owner while the lock is free

VARIABLE owner

Init == owner = NoOwner

Acquire(p) == owner = NoOwner /\ owner' = p

Release(p) == owner = p /\ owner' = NoOwner

Next == \E p \in CPU : Acquire(p) \/ Release(p)

Spec == Init /\ [][Next]_owner
=============================================================================
