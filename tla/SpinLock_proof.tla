--------------------------- MODULE SpinLock_proof ---------------------------
(***************************************************************************)
(* The spin lock excludes, for every number of CPUs its byte can bear, and *)
(* implements the abstract lock.                                           *)
(***************************************************************************)
EXTENDS SpinLock, FiniteSetTheorems, TLAPS

USE CPUAssumption, NoOwnerAssumption, HalfAssumption, CountAssumption

\* Facts on the number of CPUs that have lowered the byte: it is a number, and
\* a CPU outside of Below leaves room for one more decrement.
LEMMA BelowFacts ==
  /\ IsFiniteSet(Below)
  /\ Cardinality(Below) \in Nat
  /\ \A p \in CPU : p \notin Below => Cardinality(Below) + 1 <= Half + 1
<1>1. Below \subseteq CPU
  BY DEF Below
<1>2. IsFiniteSet(Below) /\ Cardinality(Below) \in Nat /\ Cardinality(CPU) \in Nat
  BY <1>1, FS_Subset, FS_CardinalityType
<1>3. ASSUME NEW p \in CPU, p \notin Below
      PROVE  Cardinality(Below) + 1 <= Half + 1
  <2>1. Below \cup {p} \subseteq CPU
    BY <1>1
  <2>2. Cardinality(Below \cup {p}) = Cardinality(Below) + 1
    BY <1>2, <1>3, FS_AddElement
  <2>3. Cardinality(Below \cup {p}) <= Cardinality(CPU)
    BY <2>1, FS_Subset
  <2> QED
    BY <1>2, <2>2, <2>3
<1> QED
  BY <1>2, <1>3

\* The initial state satisfies the inductive invariant.
LEMMA InitInv == Init => IInv
<1> SUFFICES ASSUME Init PROVE IInv
  OBVIOUS
<1>1. TypeOK /\ MutualExclusion /\ FreeWhenPositive
  BY DEF Init, TypeOK, Byte, MutualExclusion, FreeWhenPositive
<1>2. BoundedCount
  BY BelowFacts DEF Init, BoundedCount
<1> QED
  BY <1>1, <1>2 DEF IInv

\* What a step that moves one CPU does to the set Below.
LEMMA BelowStep ==
  ASSUME TypeOK, NEW p \in CPU, NEW to,
         pc' = [pc EXCEPT ![p] = to]
  PROVE  Below' = IF to \in {"monitor", "mwait", "test", "cs"}
                  THEN Below \cup {p} ELSE Below \ {p}
BY DEF TypeOK, Below

\* A decb by a CPU that is not below cannot wrap the byte.
LEMMA NoWrap ==
  ASSUME IInv, NEW p \in CPU, Decb(p)
  PROVE  slock' = slock - 1 /\ slock' \in Byte
<1>1. p \notin Below
  BY DEF Decb, Goto, Below, IInv, TypeOK
<1>2. 1 - slock <= Half
  BY <1>1, BelowFacts DEF IInv, BoundedCount, TypeOK, Byte
<1> QED
  BY <1>2 DEF Decb, DecByte, IInv, TypeOK, Byte

\* Every step preserves the inductive invariant.
LEMMA StepInv == IInv /\ [Next]_vars => IInv'
<1> SUFFICES ASSUME IInv, [Next]_vars PROVE IInv'
  OBVIOUS
<1> USE DEF Goto, Spins
<1>1. CASE UNCHANGED vars
  BY <1>1 DEF vars, IInv, TypeOK, MutualExclusion, BoundedCount,
              FreeWhenPositive, Below
<1>2. ASSUME NEW p \in CPU, Request(p) PROVE IInv'
  <2>1. TypeOK' /\ MutualExclusion' /\ FreeWhenPositive'
    BY <1>2 DEF Request, IInv, TypeOK, MutualExclusion, FreeWhenPositive, Byte
  <2>2. Below' = Below
    BY <1>2 DEF Request, Below, IInv, TypeOK
  <2> QED
    BY <1>2, <2>1, <2>2 DEF Request, IInv, BoundedCount
<1>3. ASSUME NEW p \in CPU, Decb(p) PROVE IInv'
  <2>1. slock' = slock - 1 /\ slock' \in Byte
    BY <1>3, NoWrap
  <2>2. TypeOK'
    BY <1>3, <2>1 DEF Decb, IInv, TypeOK, Byte
  <2>3. Below' = Below \cup {p} /\ p \notin Below
    BY <1>3 DEF Decb, Below, IInv, TypeOK
  <2>4. BoundedCount'
    <3>1. Cardinality(Below') = Cardinality(Below) + 1
      BY <2>3, BelowFacts, FS_AddElement
    <3> QED
      BY <3>1, <2>1, BelowFacts DEF BoundedCount, IInv, TypeOK, Byte
  <2>5. MutualExclusion' /\ FreeWhenPositive'
    <3>1. CASE \E q \in CPU : pc[q] = "cs"
      <4>1. slock' < 0
        BY <3>1, <2>1 DEF IInv, FreeWhenPositive, TypeOK, Byte
      <4>2. \A q \in CPU : pc'[q] = "cs" <=> pc[q] = "cs"
        BY <4>1, <1>3, <2>1 DEF Decb, IInv, TypeOK, Byte
      <4> QED
        BY <3>1, <4>1, <4>2, <2>1 DEF IInv, MutualExclusion, FreeWhenPositive, Byte
    <3>2. CASE ~\E q \in CPU : pc[q] = "cs"
      <4>1. slock' = 0
        BY <3>2, <2>1 DEF IInv, FreeWhenPositive
      <4>2. \A q \in CPU : pc'[q] = "cs" <=> q = p
        BY <4>1, <3>2, <1>3 DEF Decb, IInv, TypeOK
      <4> QED
        BY <4>1, <4>2 DEF MutualExclusion, FreeWhenPositive
    <3> QED
      BY <3>1, <3>2
  <2> QED
    BY <2>2, <2>4, <2>5 DEF IInv
<1>4. ASSUME NEW p \in CPU, Monitor(p) \/ Wake(p) \/ WakeSpuriously(p)
      PROVE  IInv'
  <2>1. TypeOK' /\ MutualExclusion' /\ FreeWhenPositive'
    BY <1>4 DEF Monitor, Wake, WakeSpuriously, IInv, TypeOK, MutualExclusion,
                FreeWhenPositive, Byte
  <2>2. Below' = Below /\ slock' = slock
    BY <1>4 DEF Monitor, Wake, WakeSpuriously, Below, IInv, TypeOK
  <2> QED
    BY <2>1, <2>2 DEF IInv, BoundedCount
<1>5. ASSUME NEW p \in CPU, Test(p) PROVE IInv'
  <2>1. TypeOK' /\ MutualExclusion' /\ FreeWhenPositive'
    BY <1>5 DEF Test, IInv, TypeOK, MutualExclusion, FreeWhenPositive, Byte
  <2>2. CASE slock <= 0
    <3>1. Below' = Below /\ slock' = slock
      BY <1>5, <2>2 DEF Test, Below, IInv, TypeOK
    <3> QED
      BY <2>1, <3>1 DEF IInv, BoundedCount
  <2>3. CASE slock > 0
    <3>1. slock' = 1
      BY <1>5, <2>3 DEF Test, IInv, TypeOK, Byte
    <3>2. Cardinality(Below') \in Nat
      <4>1. Below' \subseteq CPU
        BY DEF Below
      <4> QED
        BY <4>1, FS_Subset, FS_CardinalityType
    <3> QED
      BY <2>1, <3>1, <3>2 DEF IInv, BoundedCount
  <2> QED
    BY <2>2, <2>3 DEF IInv, TypeOK, Byte
<1>6. ASSUME NEW p \in CPU, Unlock(p) PROVE IInv'
  <2>1. TypeOK'
    BY <1>6 DEF Unlock, IInv, TypeOK, Byte
  <2>2. ~\E q \in CPU : pc'[q] = "cs"
    BY <1>6 DEF Unlock, IInv, TypeOK, MutualExclusion
  <2>3. Cardinality(Below') \in Nat
    <3>1. Below' \subseteq CPU
      BY DEF Below
    <3> QED
      BY <3>1, FS_Subset, FS_CardinalityType
  <2> QED
    BY <1>6, <2>1, <2>2, <2>3 DEF Unlock, IInv, MutualExclusion, BoundedCount,
                                  FreeWhenPositive
<1> QED
  BY <1>1, <1>2, <1>3, <1>4, <1>5, <1>6 DEF Next

\* The inductive invariant holds in every reachable state.
THEOREM Invariance == Spec => []IInv
BY InitInv, StepInv, PTL DEF Spec

\* At most one CPU holds a lock taken with spin_lock, for every number of CPUs
\* up to 129 and with either waiting loop.
THEOREM MutualExclusionHolds == Spec => []MutualExclusion
<1>1. IInv => MutualExclusion
  BY DEF IInv
<1> QED
  BY <1>1, Invariance, PTL

\* The losers' decrements never exceed the number of CPUs in the loop, so the
\* byte never wraps.
THEOREM BoundedCountHolds == Spec => []BoundedCount
<1>1. IInv => BoundedCount
  BY DEF IInv
<1> QED
  BY <1>1, Invariance, PTL

\* The byte tells a held lock from a free one in every state.
THEOREM FreeWhenPositiveHolds == Spec => []FreeWhenPositive
<1>1. IInv => FreeWhenPositive
  BY DEF IInv
<1> QED
  BY <1>1, Invariance, PTL

\* The owner is the CPU in the critical section, which is unique.
OwnerIs == /\ \A p \in CPU : pc[p] = "cs" => owner = p
           /\ (~\E p \in CPU : pc[p] = "cs") => owner = NoOwner

LEMMA OwnerUnique == MutualExclusion => OwnerIs
<1> SUFFICES ASSUME MutualExclusion PROVE OwnerIs
  OBVIOUS
<1>1. ASSUME NEW p \in CPU, pc[p] = "cs" PROVE owner = p
  <2>1. owner = CHOOSE q \in CPU : pc[q] = "cs"
    BY <1>1 DEF owner
  <2>2. owner \in CPU /\ pc[owner] = "cs"
    BY <1>1, <2>1
  <2> QED
    BY <1>1, <2>2 DEF MutualExclusion
<1> QED
  BY <1>1 DEF owner, OwnerIs

\* The same after a step.
LEMMA OwnerUniqueNext == MutualExclusion' => OwnerIs'
BY OwnerUnique, PTL

\* Every step of the byte protocol is a step of the abstract lock or leaves its
\* owner unchanged.
LEMMA StepRefines == IInv /\ IInv' /\ [Next]_vars => [M!Next]_owner
<1> SUFFICES ASSUME IInv, IInv', [Next]_vars PROVE [M!Next]_owner
  OBVIOUS
<1> USE DEF Goto, Spins
<1>1. OwnerIs
  BY OwnerUnique DEF IInv
<1>2. OwnerIs'
  BY OwnerUniqueNext DEF IInv
<1>3. ASSUME \A p \in CPU : pc'[p] = "cs" <=> pc[p] = "cs"
      PROVE  owner' = owner
  BY <1>1, <1>2, <1>3 DEF OwnerIs
<1>4. CASE UNCHANGED vars
  BY <1>3, <1>4 DEF vars
<1>5. ASSUME NEW p \in CPU, \/ Request(p) \/ Monitor(p) \/ Wake(p)
                            \/ WakeSpuriously(p) \/ Test(p)
      PROVE  owner' = owner
  BY <1>3, <1>5 DEF Request, Monitor, Wake, WakeSpuriously, Test, IInv, TypeOK
<1>6. ASSUME NEW p \in CPU, Decb(p) PROVE M!Acquire(p) \/ owner' = owner
  <2>1. slock' = slock - 1 /\ slock' \in Byte
    BY <1>6, NoWrap
  <2>2. CASE slock' >= 0
    <3>1. ~\E q \in CPU : pc[q] = "cs"
      BY <2>1, <2>2 DEF IInv, FreeWhenPositive, TypeOK, Byte
    <3>2. pc'[p] = "cs"
      BY <1>6, <2>2 DEF Decb, IInv, TypeOK
    <3> QED
      BY <1>1, <1>2, <3>1, <3>2 DEF M!Acquire, OwnerIs
  <2>3. CASE ~(slock' >= 0)
    <3>1. \A q \in CPU : pc'[q] = "cs" <=> pc[q] = "cs"
      BY <1>6, <2>3 DEF Decb, IInv, TypeOK
    <3> QED
      BY <3>1, <1>3
  <2> QED
    BY <2>2, <2>3
<1>7. ASSUME NEW p \in CPU, Unlock(p) PROVE M!Release(p)
  <2>1. pc[p] = "cs" /\ ~\E q \in CPU : pc'[q] = "cs"
    BY <1>7 DEF Unlock, IInv, TypeOK, MutualExclusion
  <2> QED
    BY <1>1, <1>2, <2>1 DEF M!Release, OwnerIs
<1> QED
  BY <1>4, <1>5, <1>6, <1>7 DEF Next, M!Next

\* The byte protocol of arch-smp.h implements the abstract lock.
THEOREM Refinement == Spec => ImplementsMutex
<1>1. Init => M!Init
  BY DEF Init, M!Init, owner
<1> QED
  BY <1>1, Invariance, StepRefines, PTL DEF Spec, ImplementsMutex, M!Spec
=============================================================================
