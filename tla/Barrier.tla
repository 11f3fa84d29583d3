------------------------------ MODULE Barrier ------------------------------
(***************************************************************************)
(* barrier() and barrier_init() of src/smp.c, one access to the shared     *)
(* barrier structure per action.  The spin lock barr->lck is taken and     *)
(* given back in one step, which module SpinLock justifies; st1 and st2    *)
(* are read outside of it by spin_wait, so their stores are steps of their *)
(* own.  s_barrier() is the same code on the s_ fields.                    *)
(***************************************************************************)
EXTENDS Integers, FiniteSets

CONSTANTS CPU,       \* the CPUs that call barrier()
          NoOwner,   \* the owner of a free lock
          NumCpus,   \* num_cpus, which barrier() looks at
          MaxProc    \* the argument of barrier_init(), act_cpus in the code

ASSUME CPUAssumption == IsFiniteSet(CPU)
ASSUME NoOwnerAssumption == NoOwner \notin CPU
ASSUME NumberAssumption == NumCpus \in Nat /\ MaxProc \in Nat

VARIABLES lck,      \* the CPU that holds barr->lck
          maxproc,  \* barr->maxproc
          count,    \* barr->count
          st1,      \* barr->st1: the entrance is open
          st2,      \* barr->st2: the CPUs inside may leave
          pc        \* where each CPU is in barrier(), "out" if not inside

vars == <<lck, maxproc, count, st1, st2, pc>>

\* barrier_init(max).
BarrierInit(max) == /\ lck = NoOwner
                    /\ maxproc = max
                    /\ count = max
                    /\ st1 = 1
                    /\ st2 = 0

Init == BarrierInit(MaxProc) /\ pc = [p \in CPU |-> "out"]

Goto(p, from, to) == pc[p] = from /\ pc' = [pc EXCEPT ![p] = to]

\* The guard that makes barrier() return at once is not a step of the protocol.
Active == NumCpus # 1

Call(p) == /\ Active
           /\ Goto(p, "out", "enter")
           /\ UNCHANGED <<lck, maxproc, count, st1, st2>>

\* spin_wait(&barr->st1).
Enter(p) == /\ st1 # 0
            /\ Goto(p, "enter", "lock")
            /\ UNCHANGED <<lck, maxproc, count, st1, st2>>

\* spin_lock(&barr->lck) and spin_unlock(&barr->lck).
Lock(p, from, to) == /\ lck = NoOwner
                     /\ lck' = p
                     /\ Goto(p, from, to)
                     /\ UNCHANGED <<maxproc, count, st1, st2>>

Unlock(p, from, to) == /\ lck' = NoOwner
                       /\ Goto(p, from, to)
                       /\ UNCHANGED <<maxproc, count, st1, st2>>

LockToCount(p) == Lock(p, "lock", "count")

\* Fault: the CPU next to last takes itself for the last.
CountDownEarly(p) == /\ count' = count - 1
                     /\ Goto(p, "count", IF count' <= 1 THEN "close" ELSE "counted")
                     /\ UNCHANGED <<lck, maxproc, st1, st2>>

\* if (--barr->count == 0).
CountDown(p) == /\ count' = count - 1
                /\ Goto(p, "count", IF count' = 0 THEN "close" ELSE "counted")
                /\ UNCHANGED <<lck, maxproc, st1, st2>>

\* Fault: the entrance stays open while the CPUs leave.
CloseForgets(p) == /\ Goto(p, "close", "release")
                   /\ UNCHANGED <<lck, maxproc, count, st1, st2>>

\* The last CPU in holds up any CPUs re-entering ...
Close(p) == /\ st1' = 0
            /\ Goto(p, "close", "release")
            /\ UNCHANGED <<lck, maxproc, count, st2>>

\* ... releases the others ...
Release(p) == /\ st2' = 1
              /\ Goto(p, "release", "self")
              /\ UNCHANGED <<lck, maxproc, count, st1>>

\* Fault: the counter is reset for the next round at once.
CountSelfResets(p) == /\ count' = maxproc
                      /\ Goto(p, "self", "unlock")
                      /\ UNCHANGED <<lck, maxproc, st1, st2>>

\* ... and counts itself out.
CountSelf(p) == /\ count' = count + 1
                /\ Goto(p, "self", "unlock")
                /\ UNCHANGED <<lck, maxproc, st1, st2>>

UnlockToWait(p) == Unlock(p, "counted", "wait")

\* spin_wait(&barr->st2).
Wait(p) == /\ st2 # 0
           /\ Goto(p, "wait", "relock")
           /\ UNCHANGED <<lck, maxproc, count, st1, st2>>

Relock(p) == Lock(p, "relock", "recount")

\* if (++barr->count == barr->maxproc).
CountUp(p) == /\ count' = count + 1
              /\ Goto(p, "recount", IF count' = maxproc THEN "reopen" ELSE "unlock")
              /\ UNCHANGED <<lck, maxproc, st1, st2>>

\* Fault: st2 is stored before st1 when the barrier is made ready.
ReopenClosesFirst(p) == /\ st2' = 0
                        /\ Goto(p, "reopen", "hold")
                        /\ UNCHANGED <<lck, maxproc, count, st1>>

\* The last CPU out opens the entrance and stops releasing.
Reopen(p) == /\ st1' = 1
             /\ Goto(p, "reopen", "hold")
             /\ UNCHANGED <<lck, maxproc, count, st2>>

Hold(p) == /\ st2' = 0
           /\ Goto(p, "hold", "unlock")
           /\ UNCHANGED <<lck, maxproc, count, st1>>

Return(p) == Unlock(p, "unlock", "out")

Step(p) == \/ Enter(p)     \/ LockToCount(p) \/ CountDown(p) \/ Close(p)
           \/ Release(p)   \/ CountSelf(p)   \/ UnlockToWait(p) \/ Wait(p)
           \/ Relock(p)    \/ CountUp(p)     \/ Reopen(p) \/ Hold(p) \/ Return(p)

Next == \E p \in CPU : Call(p) \/ Step(p)

Spec == Init /\ [][Next]_vars

\* Every CPU keeps executing, and keeps coming back to the barrier.
Fairness == \A p \in CPU : WF_vars(Call(p)) /\ WF_vars(Step(p))

FairSpec == Spec /\ Fairness
-----------------------------------------------------------------------------
\* The labels between spin_lock(&barr->lck) and its spin_unlock.
Locked == {"count", "close", "release", "self", "counted", "recount", "reopen",
           "hold", "unlock"}

\* The labels of a CPU that has been counted in and not yet out.
Counted == {"counted", "wait", "relock", "recount", "close", "release", "self"}

In(labels) == {p \in CPU : pc[p] \in labels}

TypeOK == /\ lck \in CPU \cup {NoOwner}
          /\ maxproc = MaxProc
          /\ count \in 0 .. MaxProc
          /\ st1 \in {0, 1} /\ st2 \in {0, 1}
          /\ pc \in [CPU -> {"out", "enter", "lock", "wait", "relock"} \cup Locked]

\* The counter is exact in every state, whichever CPUs are between their two
\* uses of it: maxproc less the CPUs counted in and not yet out (smp.c:39,
\* 42 and 48 together).
CountExact == count = MaxProc - Cardinality(In(Counted))

\* A CPU that comes back early is held up: while a released CPU has not counted
\* itself out, no CPU can be in front of or inside the count of the next round
\* ("Hold up any processes re-entering", smp.c:40).
ReentryHeldUp ==
  st2 = 1 /\ In(Counted) # {} => In({"lock", "count", "counted"}) = {}

\* The entrance is shut with nobody being released only while the last CPU goes
\* from the one store to the other, so no CPU can be left between two closed
\* doors (smp.c:40-41).
NeverShutIn ==
  /\ st1 = 0 /\ st2 = 0 => In({"release"}) # {}
  /\ st1 = 0 /\ st2 = 1 => In(Counted \cup {"reopen"}) # {}

\* The CPU between spin_lock and spin_unlock is the one that holds the lock.
LockHeld == \A p \in CPU : pc[p] \in Locked <=> lck = p

\* What the two doors are while a CPU is at each label.
Doors ==
  \A p \in CPU :
    /\ pc[p] \in {"lock", "count", "counted"} => st1 = 1
    /\ pc[p] \in {"count", "counted"} => st2 = 0
    /\ pc[p] \in {"relock", "recount"} => st1 = 0 /\ st2 = 1
    /\ pc[p] = "close"   => st1 = 1 /\ st2 = 0 /\ In(Counted) = CPU
    /\ pc[p] = "release" => st1 = 0 /\ st2 = 0 /\ In(Counted) = CPU
    /\ pc[p] = "self"    => st1 = 0 /\ st2 = 1 /\ In(Counted) = CPU
    /\ pc[p] = "reopen"  => st1 = 0 /\ st2 = 1 /\ In(Counted) = {}
    /\ pc[p] = "hold"    => st1 = 1 /\ st2 = 1 /\ In(Counted) = {}

\* Both doors are open only while the last CPU out goes from reopen to hold.
BothOpen == st1 = 1 /\ st2 = 1 => In({"hold"}) # {}

\* barrier_init was given the number of CPUs that take part, and there are at
\* least two of them: initialise_cpus with act_cpus >= 2 CPUs that all start.
Participants == MaxProc = Cardinality(CPU) /\ MaxProc >= 2

\* The inductive invariant of the barrier (smp.c:32-54): the counter, the lock
\* and the two doors agree with the label of every CPU.
IInv == Participants /\ TypeOK /\ CountExact /\ LockHeld /\ Doors
        /\ NeverShutIn /\ BothOpen

\* The stage of a CPU in the abstract barrier: released once st2 is set.
StageOf(p) ==
  CASE pc[p] \in {"out", "enter", "lock", "count"}     -> "run"
    [] pc[p] \in {"unlock", "reopen", "hold"}          -> "go"
    [] OTHER -> IF st2 = 1 THEN "go" ELSE "wait"

R == INSTANCE Rendezvous WITH stage <- [p \in CPU |-> StageOf(p)]

\* No CPU gets past barrier() before all of them have arrived, round after
\* round, although st1, st2 and count are shared by consecutive rounds.
ImplementsRendezvous == R!Spec

\* Every CPU that calls barrier() returns, provided that all of them keep
\* calling it.
CallsReturn == \A p \in CPU : pc[p] # "out" ~> pc[p] = "out"
=============================================================================
