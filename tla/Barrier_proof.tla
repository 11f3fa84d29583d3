--------------------------- MODULE Barrier_proof ---------------------------
(***************************************************************************)
(* The barrier works for every number of CPUs from two up: its counter is  *)
(* exact, nobody is shut in, and it implements the rendezvous.             *)
(***************************************************************************)
EXTENDS Barrier, FiniteSetTheorems, TLAPS

USE CPUAssumption, NoOwnerAssumption, NumberAssumption

\* A set of CPUs is finite, has at most MaxProc members, and is CPU when it has
\* all MaxProc of them.
LEMMA InFacts ==
  ASSUME Participants, NEW S, S \subseteq CPU
  PROVE  /\ IsFiniteSet(S)
         /\ Cardinality(S) \in 0 .. MaxProc
         /\ Cardinality(S) = MaxProc => S = CPU
         /\ Cardinality(S) = 0 <=> S = {}
<1>1. IsFiniteSet(S) /\ Cardinality(S) <= Cardinality(CPU)
      /\ (Cardinality(S) = Cardinality(CPU) => S = CPU)
  BY FS_Subset DEF Participants
<1>2. Cardinality(S) \in Nat
  BY <1>1, FS_CardinalityType
<1>3. Cardinality(S) = 0 <=> S = {}
  BY <1>1, FS_EmptySet
<1> QED
  BY <1>1, <1>2, <1>3 DEF Participants

\* How the set of counted CPUs changes with the label of one CPU.
LEMMA CountedStep ==
  ASSUME TypeOK, NEW p \in CPU, NEW to, pc' = [pc EXCEPT ![p] = to]
  PROVE  In(Counted)' = IF to \in Counted THEN In(Counted) \cup {p}
                                          ELSE In(Counted) \ {p}
BY DEF TypeOK, In, Counted

\* How its size changes when the CPU enters or leaves the set.
LEMMA CountedSize ==
  ASSUME Participants, NEW p \in CPU
  PROVE  /\ p \notin In(Counted) =>
              Cardinality(In(Counted) \cup {p}) = Cardinality(In(Counted)) + 1
         /\ p \in In(Counted) =>
              Cardinality(In(Counted) \ {p}) = Cardinality(In(Counted)) - 1
<1>1. In(Counted) \subseteq CPU
  BY DEF In
<1>2. IsFiniteSet(In(Counted))
  BY <1>1, InFacts
<1> QED
  BY <1>2, FS_AddElement, FS_RemoveElement

\* With every participant counted, the initial state satisfies the inductive invariant.
LEMMA InitInv == Participants /\ Init => IInv
<1> SUFFICES ASSUME Participants, Init PROVE IInv
  OBVIOUS
<1>1. In(Counted) = {}
  BY DEF Init, In, Counted
<1>2. TypeOK /\ LockHeld /\ Doors /\ NeverShutIn /\ BothOpen
  BY DEF Init, BarrierInit, TypeOK, LockHeld, Locked, Doors, NeverShutIn, BothOpen
<1>3. CountExact
  BY <1>1, FS_EmptySet DEF Init, BarrierInit, CountExact
<1> QED
  BY <1>2, <1>3 DEF IInv

\* Steps outside of the lock that only move one CPU past an open door.
LEMMA MoveInv ==
  ASSUME IInv, NEW p \in CPU, Call(p) \/ Enter(p) \/ Wait(p)
  PROVE  IInv'
<1> USE DEF Goto
<1>1. UNCHANGED <<lck, maxproc, count, st1, st2>>
  BY DEF Call, Enter, Wait
<1>2. PICK to \in {"enter", "lock", "relock"} :
         /\ pc' = [pc EXCEPT ![p] = to]
         /\ to = "enter"  => pc[p] = "out"
         /\ to = "lock"   => pc[p] = "enter" /\ st1 = 1
         /\ to = "relock" => pc[p] = "wait" /\ st2 = 1
  BY DEF Call, Enter, Wait, IInv, TypeOK
<1>3. In(Counted)' = In(Counted)
  BY <1>2 DEF IInv, TypeOK, In, Counted
<1>4. TypeOK' /\ LockHeld' /\ CountExact'
  BY <1>1, <1>2, <1>3 DEF IInv, TypeOK, LockHeld, Locked, CountExact
<1>5. to = "relock" => st1 = 0
  <2> SUFFICES ASSUME to = "relock", st1 = 1 PROVE FALSE
    BY DEF IInv, TypeOK
  <2>1. p \in In(Counted)
    BY <1>2 DEF In, Counted
  <2>2. \E q \in CPU : pc[q] = "hold"
    BY <1>2 DEF IInv, BothOpen, In
  <2> QED
    BY <2>1, <2>2 DEF IInv, Doors
<1>6. Doors'
  BY <1>1, <1>2, <1>3, <1>5 DEF IInv, TypeOK, Doors
<1>7. NeverShutIn' /\ BothOpen'
  BY <1>1, <1>2, <1>3 DEF IInv, TypeOK, NeverShutIn, BothOpen, In, Counted
<1> QED
  BY <1>4, <1>6, <1>7 DEF IInv

\* Taking the lock: the CPU finds it free, so no other CPU is at a locked label.
LEMMA LockInv ==
  ASSUME IInv, NEW p \in CPU, LockToCount(p) \/ Relock(p)
  PROVE  IInv'
<1> USE DEF Goto
<1>1. /\ UNCHANGED <<maxproc, count, st1, st2>>
      /\ lck = NoOwner /\ lck' = p
  BY DEF LockToCount, Relock, Lock
<1>2. PICK to \in {"count", "recount"} :
         /\ pc' = [pc EXCEPT ![p] = to]
         /\ to = "count"   => pc[p] = "lock"
         /\ to = "recount" => pc[p] = "relock"
  BY DEF LockToCount, Relock, Lock
<1>3. \A q \in CPU : pc[q] \notin Locked
  BY <1>1 DEF IInv, LockHeld
<1>4. In(Counted)' = In(Counted)
  BY <1>2 DEF IInv, TypeOK, In, Counted
<1>5. TypeOK' /\ LockHeld' /\ CountExact'
  BY <1>1, <1>2, <1>3, <1>4 DEF IInv, TypeOK, LockHeld, Locked, CountExact
<1>6. to = "count" => st1 = 1 /\ st2 = 0
  BY <1>2, <1>3 DEF IInv, TypeOK, Doors, BothOpen, In, Locked
<1>7. Doors'
  BY <1>1, <1>2, <1>3, <1>4, <1>6 DEF IInv, TypeOK, Doors, Locked
<1>8. NeverShutIn' /\ BothOpen'
  BY <1>1, <1>2, <1>3, <1>4 DEF IInv, TypeOK, NeverShutIn, BothOpen, In, Counted, Locked
<1> QED
  BY <1>5, <1>7, <1>8 DEF IInv, Participants

\* Giving the lock back.
LEMMA UnlockInv ==
  ASSUME IInv, NEW p \in CPU, UnlockToWait(p) \/ Return(p)
  PROVE  IInv'
<1> USE DEF Goto
<1>1. UNCHANGED <<maxproc, count, st1, st2>> /\ lck' = NoOwner
  BY DEF UnlockToWait, Return, Unlock
<1>2. PICK to \in {"wait", "out"} :
         /\ pc' = [pc EXCEPT ![p] = to]
         /\ to = "wait" => pc[p] = "counted"
         /\ to = "out"  => pc[p] = "unlock"
  BY DEF UnlockToWait, Return, Unlock
<1>3. lck = p /\ \A q \in CPU \ {p} : pc[q] \notin Locked
  BY <1>2 DEF IInv, LockHeld, Locked
<1>4. In(Counted)' = In(Counted)
  BY <1>2 DEF IInv, TypeOK, In, Counted
<1>5. TypeOK' /\ LockHeld' /\ CountExact'
  BY <1>1, <1>2, <1>3, <1>4 DEF IInv, TypeOK, LockHeld, Locked, CountExact
<1>6. Doors'
  BY <1>1, <1>2, <1>3, <1>4 DEF IInv, TypeOK, Doors
<1>7. NeverShutIn' /\ BothOpen'
  BY <1>1, <1>2, <1>4 DEF IInv, TypeOK, NeverShutIn, BothOpen, In, Counted
<1> QED
  BY <1>5, <1>6, <1>7 DEF IInv, Participants

\* A step of the CPU that holds the lock: the others are at labels outside of it.
LEMMA Alone ==
  ASSUME IInv, NEW p \in CPU, pc[p] \in Locked
  PROVE  lck = p /\ \A q \in CPU \ {p} : pc[q] \notin Locked
BY DEF IInv, LockHeld

\* The count of an arriving CPU.
LEMMA CountDownInv == ASSUME IInv, NEW p \in CPU, CountDown(p) PROVE IInv'
<1> USE DEF Goto
<1> DEFINE to == IF count' = 0 THEN "close" ELSE "counted"
<1>1. /\ pc[p] = "count" /\ pc' = [pc EXCEPT ![p] = to]
      /\ count' = count - 1 /\ UNCHANGED <<lck, maxproc, st1, st2>>
  BY DEF CountDown
<1>2. lck = p /\ \A q \in CPU \ {p} : pc[q] \notin Locked
  BY <1>1, Alone DEF Locked
<1>3. p \notin In(Counted) /\ In(Counted)' = In(Counted) \cup {p}
  BY <1>1, CountedStep DEF IInv, In, Counted
<1>4. CountExact'
  <2>1. Cardinality(In(Counted)') = Cardinality(In(Counted)) + 1
    BY <1>3, CountedSize DEF IInv
  <2>2. Cardinality(In(Counted)) \in Nat
    BY InFacts DEF IInv, In
  <2> QED
    BY <1>1, <2>1, <2>2 DEF IInv, CountExact
<1>5. count' = 0 => In(Counted)' = CPU
  <2>1. In(Counted)' \subseteq CPU
    BY DEF In
  <2> QED
    BY <2>1, <1>4, InFacts DEF IInv, CountExact, Participants
<1>6. count' \in 0 .. MaxProc
  <2>1. In(Counted)' \subseteq CPU
    BY DEF In
  <2>2. Cardinality(In(Counted)') \in 0 .. MaxProc
    BY <2>1, InFacts DEF IInv
  <2> QED
    BY <2>2, <1>4 DEF CountExact
<1>7. TypeOK' /\ LockHeld'
  BY <1>1, <1>2, <1>6 DEF IInv, TypeOK, LockHeld, Locked
<1>8. st1 = 1 /\ st2 = 0
  BY <1>1 DEF IInv, Doors
<1>9. Doors' /\ NeverShutIn' /\ BothOpen'
  BY <1>1, <1>2, <1>5, <1>8 DEF IInv, TypeOK, Doors, NeverShutIn, BothOpen, Locked
<1> QED
  BY <1>4, <1>7, <1>9 DEF IInv, Participants

\* A CPU counts itself out: the last one in, or one that was released.
LEMMA CountUpInv ==
  ASSUME IInv, NEW p \in CPU, CountSelf(p) \/ CountUp(p)
  PROVE  IInv'
<1> USE DEF Goto
<1>1. PICK to \in {"unlock", "reopen"} :
         /\ pc' = [pc EXCEPT ![p] = to]
         /\ pc[p] \in {"self", "recount"}
         /\ pc[p] = "recount" => (to = "reopen" <=> count' = MaxProc)
         /\ pc[p] = "self" => to = "unlock"
  BY DEF CountSelf, CountUp, IInv, TypeOK
<1>2. count' = count + 1 /\ UNCHANGED <<lck, maxproc, st1, st2>>
  BY DEF CountSelf, CountUp
<1>3. lck = p /\ \A q \in CPU \ {p} : pc[q] \notin Locked
  BY <1>1, Alone DEF Locked
<1>4. p \in In(Counted) /\ In(Counted)' = In(Counted) \ {p}
  BY <1>1, CountedStep DEF IInv, In, Counted
<1>5. CountExact'
  <2>1. Cardinality(In(Counted)') = Cardinality(In(Counted)) - 1
    BY <1>4, CountedSize DEF IInv
  <2>2. Cardinality(In(Counted)) \in Nat
    BY InFacts DEF IInv, In
  <2> QED
    BY <1>2, <2>1, <2>2 DEF IInv, CountExact
<1>6. /\ Cardinality(In(Counted)') \in 0 .. MaxProc
      /\ Cardinality(In(Counted)') = 0 <=> In(Counted)' = {}
  <2>1. In(Counted)' \subseteq CPU
    BY DEF In
  <2> QED
    BY <2>1, InFacts DEF IInv
<1>7. count' \in 0 .. MaxProc /\ (count' = MaxProc <=> In(Counted)' = {})
  BY <1>5, <1>6 DEF CountExact
<1>8. TypeOK' /\ LockHeld'
  BY <1>1, <1>2, <1>3, <1>7 DEF IInv, TypeOK, LockHeld, Locked
<1>9. st1 = 0 /\ st2 = 1
  BY <1>1 DEF IInv, Doors
<1>10. Doors'
  BY <1>1, <1>2, <1>3, <1>7, <1>9 DEF IInv, TypeOK, Doors, Locked
<1>11. NeverShutIn'
  <2>1. CASE to = "reopen"
    BY <1>1, <1>2, <1>9, <2>1 DEF IInv, TypeOK, NeverShutIn, In
  <2>2. CASE pc[p] = "self"
    <3>1. In(Counted) = CPU
      BY <2>2 DEF IInv, Doors
    <3>2. Cardinality(CPU) - 1 # 0
      BY DEF IInv, Participants
    <3>3. In(Counted)' # {}
      BY <1>4, <1>6, <3>1, <3>2, CountedSize DEF IInv
    <3> QED
      BY <1>2, <1>9, <3>3 DEF NeverShutIn, In
  <2>3. CASE pc[p] = "recount" /\ to = "unlock"
    <3>1. In(Counted)' # {}
      BY <1>1, <1>7, <2>3
    <3> QED
      BY <1>2, <1>9, <3>1 DEF NeverShutIn, In
  <2> QED
    BY <1>1, <2>1, <2>2, <2>3
<1>12. BothOpen'
  BY <1>2, <1>9 DEF BothOpen
<1> QED
  BY <1>5, <1>8, <1>10, <1>11, <1>12 DEF IInv, Participants

\* The stores to the doors, by the last CPU in and by the last CPU out.
LEMMA DoorInv ==
  ASSUME IInv, NEW p \in CPU, Close(p) \/ Release(p) \/ Reopen(p) \/ Hold(p)
  PROVE  IInv'
<1> USE DEF Goto
<1>1. UNCHANGED <<lck, maxproc, count>>
  BY DEF Close, Release, Reopen, Hold
<1>2. PICK to \in {"release", "self", "hold", "unlock"} :
         /\ pc' = [pc EXCEPT ![p] = to]
         /\ to = "release" => pc[p] = "close"   /\ st1' = 0   /\ st2' = st2
         /\ to = "self"    => pc[p] = "release" /\ st1' = st1 /\ st2' = 1
         /\ to = "hold"    => pc[p] = "reopen"  /\ st1' = 1   /\ st2' = st2
         /\ to = "unlock"  => pc[p] = "hold"    /\ st1' = st1 /\ st2' = 0
  BY DEF Close, Release, Reopen, Hold
<1>3. lck = p /\ \A q \in CPU \ {p} : pc[q] \notin Locked
  BY <1>2, Alone DEF Locked
<1>4. In(Counted)' = In(Counted)
  BY <1>2 DEF IInv, TypeOK, In, Counted
<1>5. TypeOK' /\ LockHeld' /\ CountExact'
  BY <1>1, <1>2, <1>3, <1>4 DEF IInv, TypeOK, LockHeld, Locked, CountExact
<1>6. CASE to \in {"release", "self"}
  <2>1. In(Counted) = CPU /\ st2 = 0 /\ (to = "self" => st1 = 0)
    BY <1>2, <1>6 DEF IInv, Doors
  <2>2. \A q \in CPU : pc[q] \in Counted /\ pc[q] # "relock"
    BY <2>1 DEF IInv, Doors, In
  <2>3. Doors'
    BY <1>2, <1>3, <1>4, <1>6, <2>1, <2>2 DEF IInv, TypeOK, Doors, Locked, Counted
  <2>4. NeverShutIn' /\ BothOpen'
    BY <1>2, <1>4, <1>6, <2>1 DEF IInv, TypeOK, Doors, NeverShutIn, BothOpen, In, Counted
  <2> QED
    BY <1>5, <2>3, <2>4 DEF IInv, Participants
<1>7. CASE to \in {"hold", "unlock"}
  <2>1. In(Counted) = {} /\ st2 = 1 /\ (to = "unlock" => st1 = 1)
    BY <1>2, <1>7 DEF IInv, Doors
  <2>2. \A q \in CPU : pc[q] \notin {"wait", "relock"}
    BY <2>1 DEF In, Counted
  <2>3. Doors'
    BY <1>2, <1>3, <1>4, <1>7, <2>1, <2>2 DEF IInv, TypeOK, Doors, Locked
  <2>4. NeverShutIn' /\ BothOpen'
    BY <1>2, <1>4, <1>7, <2>1 DEF IInv, TypeOK, Doors, NeverShutIn, BothOpen, In
  <2> QED
    BY <1>5, <2>3, <2>4 DEF IInv, Participants
<1> QED
  BY <1>2, <1>6, <1>7

\* Every step preserves the inductive invariant.
LEMMA StepInv == IInv /\ [Next]_vars => IInv'
<1> SUFFICES ASSUME IInv, [Next]_vars PROVE IInv'
  OBVIOUS
<1>1. CASE UNCHANGED vars
  BY <1>1 DEF vars, IInv, Participants, TypeOK, CountExact, LockHeld, Doors,
              NeverShutIn, BothOpen, In
<1>2. ASSUME NEW p \in CPU, Call(p) \/ Step(p) PROVE IInv'
  BY <1>2, MoveInv, LockInv, UnlockInv, CountDownInv, CountUpInv, DoorInv DEF Step
<1> QED
  BY <1>1, <1>2 DEF Next

\* The inductive invariant holds in every reachable state.
THEOREM Invariance == Participants /\ Spec => []IInv
BY InitInv, StepInv, PTL DEF Spec

\* The counter of the barrier is exact for every number of CPUs.
THEOREM CountExactHolds == Participants /\ Spec => []CountExact
<1>1. IInv => CountExact
  BY DEF IInv
<1> QED
  BY <1>1, Invariance, PTL

\* A CPU that comes back early is held up until the last one has left.
THEOREM ReentryHeldUpHolds == Participants /\ Spec => []ReentryHeldUp
<1>1. IInv => ReentryHeldUp
  <2> SUFFICES ASSUME IInv, st2 = 1, In(Counted) # {}
               PROVE  In({"lock", "count", "counted"}) = {}
    BY DEF ReentryHeldUp
  <2>1. In({"hold"}) = {}
    BY DEF IInv, Doors, In
  <2>2. st1 = 0
    BY <2>1 DEF IInv, BothOpen, TypeOK
  <2> QED
    BY <2>2 DEF IInv, Doors, In
<1> QED
  BY <1>1, Invariance, PTL

\* No CPU is ever left between two closed doors.
THEOREM NeverShutInHolds == Participants /\ Spec => []NeverShutIn
<1>1. IInv => NeverShutIn
  BY DEF IInv
<1> QED
  BY <1>1, Invariance, PTL

\* Every step of the barrier is a step of the rendezvous or changes no stage.
LEMMA StepRefines ==
  IInv /\ [Next]_vars => [R!Next]_[p \in CPU |-> StageOf(p)]
<1> SUFFICES ASSUME IInv, [Next]_vars
             PROVE  [R!Next]_[p \in CPU |-> StageOf(p)]
  OBVIOUS
<1> USE DEF Goto
<1> DEFINE stage == [p \in CPU |-> StageOf(p)]
<1>1. CASE UNCHANGED vars
  BY <1>1 DEF vars, StageOf
<1>2. ASSUME NEW p \in CPU, \/ Call(p) \/ Enter(p) \/ LockToCount(p) \/ Close(p)
                            \/ CountSelf(p) \/ UnlockToWait(p) \/ Wait(p)
                            \/ Relock(p) \/ CountUp(p) \/ Reopen(p)
      PROVE  stage' = stage
  <2>1. st2' = st2 /\ \A q \in CPU \ {p} : pc'[q] = pc[q]
    BY <1>2 DEF Call, Enter, LockToCount, Lock, Close, CountSelf, UnlockToWait,
                Unlock, Wait, Relock, CountUp, Reopen, IInv, TypeOK
  <2>2. pc[p] \in {"self", "recount"} => st2 = 1
    BY DEF IInv, Doors
  <2>3. StageOf(p)' = StageOf(p)
    BY <1>2, <2>1, <2>2 DEF Call, Enter, LockToCount, Lock, Close, CountSelf,
         UnlockToWait, Unlock, Wait, Relock, CountUp, Reopen, IInv, TypeOK, StageOf
  <2>4. \A q \in CPU : StageOf(q)' = StageOf(q)
    BY <2>1, <2>3 DEF StageOf
  <2> QED
    BY <2>4
<1>3. ASSUME NEW p \in CPU, CountDown(p) PROVE R!Arrive(p)
  <2>1. st2 = 0 /\ st2' = 0
    BY <1>3 DEF CountDown, IInv, Doors
  <2>2. StageOf(p) = "run" /\ StageOf(p)' = "wait"
    BY <1>3, <2>1 DEF CountDown, StageOf, IInv, TypeOK
  <2>3. \A q \in CPU \ {p} : StageOf(q)' = StageOf(q)
    BY <1>3, <2>1 DEF CountDown, StageOf, IInv, TypeOK
  <2> QED
    BY <2>2, <2>3 DEF R!Arrive
<1>4. ASSUME NEW p \in CPU, Release(p) PROVE R!Release
  <2>1. st2 = 0 /\ st2' = 1 /\ In(Counted) = CPU
    BY <1>4 DEF Release, IInv, Doors
  <2>2. \A q \in CPU : pc[q] \in Counted
    BY <2>1 DEF In
  <2>3. \A q \in CPU : pc'[q] \in Counted
    BY <1>4, <2>2 DEF Release, IInv, TypeOK, Counted
  <2>4. \A q \in CPU : StageOf(q) = "wait" /\ StageOf(q)' = "go"
    BY <2>1, <2>2, <2>3 DEF StageOf, Counted
  <2> QED
    BY <2>4 DEF R!Release
<1>5. ASSUME NEW p \in CPU, Hold(p) PROVE stage' = stage
  <2>1. In(Counted) = {}
    BY <1>5 DEF Hold, IInv, Doors
  <2>2. \A q \in CPU : pc[q] \notin Counted
    BY <2>1 DEF In
  <2>3. \A q \in CPU : StageOf(q)' = StageOf(q)
    BY <1>5, <2>2 DEF Hold, StageOf, Counted, IInv, TypeOK, Locked
  <2> QED
    BY <2>3
<1>6. ASSUME NEW p \in CPU, Return(p) PROVE R!Leave(p)
  <2>1. StageOf(p) = "go" /\ StageOf(p)' = "run"
    BY <1>6 DEF Return, Unlock, StageOf, IInv, TypeOK
  <2>2. \A q \in CPU \ {p} : StageOf(q)' = StageOf(q)
    BY <1>6 DEF Return, Unlock, StageOf, IInv, TypeOK
  <2> QED
    BY <2>1, <2>2 DEF R!Leave
<1> QED
  BY <1>1, <1>2, <1>3, <1>4, <1>5, <1>6 DEF Next, Step, R!Next

\* The barrier of smp.c implements the rendezvous: nobody passes before all
\* have arrived.
THEOREM Refinement == Participants /\ Spec => ImplementsRendezvous
<1>1. Init => R!Init
  BY DEF Init, R!Init, StageOf
<1> QED
  BY <1>1, Invariance, StepRefines, PTL DEF Spec, ImplementsRendezvous, R!Spec
=============================================================================
