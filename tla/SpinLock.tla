------------------------------ MODULE SpinLock ------------------------------
(***************************************************************************)
(* spin_lock and spin_unlock of src/arch/i386/arch-smp.h, one instruction  *)
(* that touches the lock byte per action.  The byte is 1 while the lock is *)
(* free.  Every spin_lock decrements it, the sign of the result says       *)
(* whether the lock was taken, and spin_unlock stores 1 whatever the byte  *)
(* holds.                                                                  *)
(*                                                                         *)
(* The code has two waiting loops, chosen by cpu_id.fid.bits.mon: one      *)
(* tests the byte, the other sleeps in monitor/mwait before it tests.      *)
(* cpuid.c clears the bit, so that only the first is used; both are        *)
(* modelled, and liveness is stated of the first.                          *)
(***************************************************************************)
EXTENDS Integers, FiniteSets

CONSTANTS CPU,      \* the CPUs that use the lock
          NoOwner,  \* "no CPU", the owner of a free lock
          Mons,     \* the values cpu_id.fid.bits.mon may have
          Half      \* decb works on -Half .. Half-1; Half is 128 for a byte

ASSUME CPUAssumption == IsFiniteSet(CPU)
ASSUME NoOwnerAssumption == NoOwner \notin CPU
ASSUME MonsAssumption == Mons \subseteq BOOLEAN
ASSUME HalfAssumption == Half \in Nat /\ Half >= 2
\* main.c runs at most MAX_CPUS = 32 CPUs, far below the 129 a byte can bear.
ASSUME CountAssumption == Cardinality(CPU) <= Half + 1

VARIABLES slock,  \* the low byte of spinlock_t.slock
          mon,    \* cpu_id.fid.bits.mon, constant
          armed,  \* the CPUs whose monitor no store has triggered yet
          pc      \* where each CPU is in the code

vars == <<slock, mon, armed, pc>>

Byte == -Half .. Half - 1

DecByte(x) == IF x = -Half THEN Half - 1 ELSE x - 1

\* Fault: mwait is used, as if cpuid.c did not clear the bit.
SpinsWithMonitor == "monitor"

\* The label the code jumps to when decb leaves a negative byte.
Spins == IF mon THEN "monitor" ELSE "test"

Init == /\ slock = 1
        /\ mon \in Mons
        /\ armed = {}
        /\ pc = [p \in CPU |-> "idle"]

Goto(p, from, to) == pc[p] = from /\ pc' = [pc EXCEPT ![p] = to]

\* The CPU calls spin_lock.
Request(p) == Goto(p, "idle", "decb") /\ UNCHANGED <<slock, mon, armed>>

\* Fault: the sign is taken of the byte before decb.
DecbTestsOld(p) == /\ slock' = DecByte(slock)
                   /\ Goto(p, "decb", IF slock >= 0 THEN "cs" ELSE Spins)
                   /\ armed' = {}
                   /\ UNCHANGED mon

\* lock; decb / jns.  The store triggers every armed monitor.
Decb(p) == /\ slock' = DecByte(slock)
           /\ Goto(p, "decb", IF slock' >= 0 THEN "cs" ELSE Spins)
           /\ armed' = {}
           /\ UNCHANGED mon

Monitor(p) == /\ Goto(p, "monitor", "mwait")
              /\ armed' = armed \cup {p}
              /\ UNCHANGED <<slock, mon>>

\* mwait returns when the armed line was stored to ...
Wake(p) == /\ Goto(p, "mwait", "test")
           /\ p \notin armed
           /\ UNCHANGED <<slock, mon, armed>>

\* ... and may return for a reason of the processor's own.
WakeSpuriously(p) == /\ Goto(p, "mwait", "test")
                     /\ p \in armed
                     /\ armed' = armed \ {p}
                     /\ UNCHANGED <<slock, mon>>

\* Fault: a loser retries decb at once, without the jle loop.
TestRetriesAtOnce(p) == Goto(p, "test", "decb") /\ UNCHANGED <<slock, mon, armed>>

\* cmpb $0 / jle.
Test(p) == /\ Goto(p, "test", IF slock <= 0 THEN Spins ELSE "decb")
           /\ UNCHANGED <<slock, mon, armed>>

\* spin_unlock: movb $1.
Unlock(p) == /\ Goto(p, "cs", "idle")
             /\ slock' = 1
             /\ armed' = {}
             /\ UNCHANGED mon

Next == \E p \in CPU : \/ Request(p) \/ Decb(p) \/ Monitor(p) \/ Wake(p)
                       \/ WakeSpuriously(p) \/ Test(p) \/ Unlock(p)

Spec == Init /\ [][Next]_vars

\* A running CPU executes its next instruction; nothing obliges it to ask for
\* the lock, nor mwait to return early.
Fairness == \A p \in CPU : /\ WF_vars(Decb(p))    /\ WF_vars(Monitor(p))
                           /\ WF_vars(Wake(p))    /\ WF_vars(Test(p))
                           /\ WF_vars(Unlock(p))

FairSpec == Spec /\ Fairness

-----------------------------------------------------------------------------
Waiting(p) == pc[p] \in {"decb", "monitor", "mwait", "test"}

\* The types; the byte is never above 1, which it would be once it wrapped.
TypeOK == /\ slock \in Byte /\ slock <= 1
          /\ mon \in Mons
          /\ armed \subseteq CPU
          /\ pc \in [CPU -> {"idle", "decb", "monitor", "mwait", "test", "cs"}]

\* The CPUs that have decremented the byte and not left the loop since.
Below == {p \in CPU : pc[p] \in {"monitor", "mwait", "test", "cs"}}

\* At most one CPU is between spin_lock and spin_unlock, although every CPU
\* that fails leaves the byte one lower (arch-smp.h, decb/jns).
MutualExclusion ==
  \A p, q \in CPU : pc[p] = "cs" /\ pc[q] = "cs" => p = q

\* The byte cannot wrap from -128 to 127: each CPU takes at most one off it
\* between two unlocks, because jle keeps a loser in the loop until the byte is
\* positive again.
BoundedCount == 1 - slock <= Cardinality(Below)

\* The byte is positive exactly while nobody holds the lock: a loser's late
\* decrement never makes a held lock look free nor a free one look held.
FreeWhenPositive == IF \E p \in CPU : pc[p] = "cs" THEN slock <= 0 ELSE slock = 1

\* The inductive invariant of the lock.
IInv == TypeOK /\ MutualExclusion /\ BoundedCount /\ FreeWhenPositive

owner == IF \E p \in CPU : pc[p] = "cs" THEN CHOOSE p \in CPU : pc[p] = "cs"
         ELSE NoOwner

M == INSTANCE Mutex

\* The byte protocol implements the abstract lock, so that modules built on
\* spin_lock may take it in one step.
ImplementsMutex == M!Spec

\* While CPUs compete for the lock one of them always gets it: the losers'
\* decrements cannot keep all of them out, and no unlock is lost on a loser about
\* to wait (in the loop that is used, mon being clear).
LockProgress == ~mon => ((\E p \in CPU : Waiting(p)) ~> (\E p \in CPU : pc[p] = "cs"))
=============================================================================
