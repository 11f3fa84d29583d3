--------------------------- MODULE Startup_proof ---------------------------
(***************************************************************************)
(* For every number of CPUs, selection and number of relocations the CPUs  *)
(* have dense and distinct ordinals once they test, none tests before      *)
(* every selected CPU has its own, and none shares the boot stack unless   *)
(* the boot CPU has given one up.                                          *)
(***************************************************************************)
EXTENDS Startup, FiniteSetTheorems, TLAPS

USE NumAssumption, SelectedAssumption, DeadAssumption, MovesAssumption

\* The CPUs that have an ordinal: the others are on their way to it.
Unnumbered == {"begin", "halted", "waking", "enter", "register", "lost", "lock", "read", "write"}
Numbered == {p \in Selected : pc[p] \notin Unnumbered}

\* Only the boot CPU boots, the others one after the other.
BootOrder ==
  /\ \A p \in CPU : /\ pc[p] \in {"begin", "boot", "poll"} => p = 0
                    /\ pc[p] \in Unnumbered \ {"begin"} => p # 0
  /\ \A p \in CPU \ Selected : pc[p] = "halted"
  /\ pc[0] = "begin" => booting = 1
  /\ pc[0] \in {"begin", "boot"} => \A p \in CPU : p >= booting => pc[p] = "halted"
  /\ pc[0] = "poll" => /\ booting < NumCpus /\ booting \in Selected
                       /\ \A p \in CPU : p > booting => pc[p] = "halted"

\* The ordinals given so far are 0 .. cpu_ord - 1 ...
OrdinalsGiven ==
  /\ cpu_ord = Cardinality(Numbered)
  /\ \A p \in Selected : pc[p] = "write" => my_ord[p] = cpu_ord

\* ... and one for each CPU, if each has its own number.
OrdinalsOwn ==
  met = {} => /\ \A p \in Selected : num[p] = p
              /\ \A p \in Numbered : num_to_ord[p] < cpu_ord
              /\ \A p, q \in Numbered : num_to_ord[p] = num_to_ord[q] => p = q
              /\ \A p \in Numbered : pc[p] # "restart" => my_ord[p] = num_to_ord[p]

\* The number of a CPU is that of an AP, its own or another's.
NumbersSelected == \A p \in Selected : num[p] \in Selected

\* As long as the boot CPU waits for each AP it is the only one that has been started
\* and has not registered itself.
Arriving == {"waking", "enter", "register"}
ArrivesAlone ==
  late = {} => /\ met = {}
               /\ \A p \in Selected : pc[p] \in Arriving => pc[0] = "poll" /\ p = booting
               /\ \A p \in Selected : pc[p] \in {"halted"} \cup Arriving => p \notin started

\* A CPU stops at the barrier only where it calls it.
AtSites == \A p \in Selected : stage[p] # "run" => pc[p] \in Sites

\* Who has been let out of the barrier has been so with everybody.
Past == {"check", "done", "main", "copied", "jump", "restart"}
Opened == start_seq = 2 \/ \E p \in Selected : stage[p] = "go" \/ pc[p] \in Past
TogetherPast == Opened => \A p \in Selected : p \in Numbered

IInv == /\ TypeOK /\ MutexHandedOver /\ BootOrder /\ OrdinalsGiven /\ OrdinalsOwn
        /\ NumbersSelected /\ ArrivesAlone /\ AtSites /\ TogetherPast
-----------------------------------------------------------------------------
LEMMA SelectedCpus ==
  /\ Selected \subseteq CPU /\ 0 \in Selected /\ NoCpu \notin Selected
  /\ \A p \in CPU : p \in Nat /\ p < NumCpus
BY DEF CPU, NoCpu

\* Nobody has an ordinal that is not below the number of CPUs selected.
LEMMA NumberedSize ==
  /\ Cardinality(Numbered) \in Nat /\ Cardinality(Selected) \in Nat
  /\ Cardinality(Numbered) <= Cardinality(Selected) /\ Cardinality(Selected) <= NumCpus
  /\ \A p \in Selected \ Numbered :
        /\ Cardinality(Numbered) < Cardinality(Selected)
        /\ Cardinality(Numbered \cup {p}) = Cardinality(Numbered) + 1
<1>1. IsFiniteSet(CPU) /\ Cardinality(CPU) = NumCpus
  BY FS_Interval DEF CPU
<1>2. /\ IsFiniteSet(Selected) /\ Cardinality(Selected) \in Nat
      /\ Cardinality(Selected) <= NumCpus
  BY <1>1, FS_Subset, FS_CardinalityType
<1>3. Numbered \subseteq Selected
  BY DEF Numbered
<1>4. /\ IsFiniteSet(Numbered) /\ Cardinality(Numbered) \in Nat
      /\ Cardinality(Numbered) <= Cardinality(Selected)
  BY <1>2, <1>3, FS_Subset, FS_CardinalityType
<1>5. ASSUME NEW p \in Selected \ Numbered
      PROVE  /\ Cardinality(Numbered) < Cardinality(Selected)
             /\ Cardinality(Numbered \cup {p}) = Cardinality(Numbered) + 1
  <2>1. Cardinality(Numbered \cup {p}) = Cardinality(Numbered) + 1
    BY <1>4, <1>5, FS_AddElement
  <2>2. Numbered \cup {p} \subseteq Selected
    BY <1>3, <1>5
  <2>3. Cardinality(Numbered \cup {p}) <= Cardinality(Selected)
    BY <1>2, <2>2, FS_Subset
  <2> QED
    BY <1>2, <1>4, <2>1, <2>3
<1> QED
  BY <1>2, <1>4, <1>5

\* What a CPU reads as its ordinal is below the number of CPUs selected.
LEMMA OrdinalsBelow ==
  ASSUME OrdinalsGiven
  PROVE  /\ cpu_ord \in Nat /\ cpu_ord <= NumCpus
         /\ \A p \in Selected \ Numbered : cpu_ord < Cardinality(Selected)
<1>1. cpu_ord = Cardinality(Numbered)
  BY DEF OrdinalsGiven
<1>2. cpu_ord \in Nat /\ cpu_ord <= NumCpus
  BY <1>1, NumberedSize
<1>3. ASSUME NEW p \in Selected \ Numbered PROVE cpu_ord < Cardinality(Selected)
  BY <1>1, <1>3, NumberedSize
<1> QED
  BY <1>2, <1>3

\* Who is about to take an ordinal takes one of those.
LEMMA NextOrdinal ==
  ASSUME OrdinalsGiven, NEW p \in Selected \ Numbered
  PROVE  cpu_ord \in Nat /\ cpu_ord \in CPU /\ cpu_ord + 1 \in 0 .. NumCpus
<1>1. cpu_ord \in Nat /\ cpu_ord < NumCpus
  BY OrdinalsBelow, NumberedSize
<1> QED
  BY <1>1 DEF CPU

\* A CPU in a step of its own neither is nor becomes one that is booted or boots.
LEMMA OrderKept ==
  ASSUME IInv, NEW p \in Selected, NEW to, UNCHANGED booting,
         pc' = [pc EXCEPT ![p] = to],
         pc[p] \notin {"begin", "boot", "poll", "halted"},
         to \notin {"begin", "boot", "poll", "halted"},
         to \in Unnumbered => pc[p] \in Unnumbered
  PROVE  BootOrder'
<1>1. p \in CPU /\ DOMAIN pc = CPU /\ pc = [q \in CPU |-> pc[q]]
  BY SelectedCpus DEF IInv, TypeOK
<1>2. \A q \in CPU : pc'[q] = IF q = p THEN to ELSE pc[q]
  BY <1>1
<1> QED
  BY <1>1, <1>2 DEF IInv, BootOrder, Unnumbered

\* A step that gives no ordinal and takes none.
LEMMA NumberedKept ==
  ASSUME IInv, NEW p \in Selected, NEW to, pc' = [pc EXCEPT ![p] = to],
         to \in Unnumbered <=> pc[p] \in Unnumbered
  PROVE  Numbered' = Numbered
BY SelectedCpus DEF IInv, TypeOK, Numbered

\* A CPU that has registered itself leaves it to the others whether they are alone.
LEMMA AloneKept ==
  ASSUME IInv, NEW p \in Selected, NEW to, UNCHANGED <<booting, started, late, met>>,
         pc' = [pc EXCEPT ![p] = to],
         pc[p] \notin {"begin", "boot", "poll", "halted"} \cup Arriving,
         to \notin {"begin", "boot", "poll", "halted"} \cup Arriving
  PROVE  ArrivesAlone'
<1>1. \A q \in Selected : pc'[q] = IF q = p THEN to ELSE pc[q]
  BY SelectedCpus DEF IInv, TypeOK
<1>2. p # 0 \/ pc[0] # "poll"
  OBVIOUS
<1> QED
  BY <1>1, <1>2, SelectedCpus DEF IInv, ArrivesAlone

\* At first there is the boot CPU, without an ordinal.
LEMMA InitInv == Init => IInv
<1> SUFFICES ASSUME Init PROVE IInv
  OBVIOUS
<1>1. TypeOK /\ MutexHandedOver
  BY SelectedCpus DEF Init, B!Init, TypeOK, MutexHandedOver, Sites, CPU, NoCpu
<1>2. BootOrder /\ AtSites /\ TogetherPast
  BY SelectedCpus DEF Init, B!Init, BootOrder, Unnumbered, AtSites, TogetherPast, Opened, Past
<1>3. Numbered = {}
  BY SelectedCpus DEF Init, Numbered, Unnumbered
<1>4. OrdinalsGiven /\ OrdinalsOwn
  BY <1>3, FS_EmptySet, SelectedCpus DEF Init, OrdinalsGiven, OrdinalsOwn
<1>5. NumbersSelected /\ ArrivesAlone
  BY SelectedCpus DEF Init, NumbersSelected, ArrivesAlone, Arriving
<1> QED
  BY <1>1, <1>2, <1>4, <1>5 DEF IInv
-----------------------------------------------------------------------------
\* A step that gives no ordinal leaves all of them as they are.
LEMMA OrdinalsStand ==
  ASSUME IInv, NEW p \in Selected, NEW to, pc' = [pc EXCEPT ![p] = to],
         to \in Unnumbered <=> pc[p] \in Unnumbered, to # "write",
         pc[p] # "restart", UNCHANGED <<ords, num>>, met \subseteq met'
  PROVE  OrdinalsGiven' /\ OrdinalsOwn' /\ NumbersSelected'
<1>1. Numbered' = Numbered
  BY NumberedKept
<1>2. \A q \in Selected : pc'[q] = IF q = p THEN to ELSE pc[q]
  BY SelectedCpus DEF IInv, TypeOK
<1>3. OrdinalsGiven' /\ NumbersSelected'
  BY <1>1, <1>2 DEF IInv, OrdinalsGiven, NumbersSelected, ords
<1>4. ASSUME met' = {} PROVE OrdinalsOwn'
  <2>1. met = {}
    BY <1>4
  <2> QED
    BY <1>1, <1>2, <2>1 DEF IInv, OrdinalsOwn, Numbered, ords
<1> QED
  BY <1>3, <1>4 DEF OrdinalsOwn

LEMMA NextBooting ==
  ASSUME NEW b \in 1 .. NumCpus
  PROVE  /\ b # 0
         /\ b < NumCpus => b + 1 \in 1 .. NumCpus
         /\ \A p \in CPU : p >= b + 1 => p > b /\ p >= b /\ p # 0
BY SelectedCpus

\* The boot CPU takes the first ordinal and starts the others.
LEMMA BootInv ==
  ASSUME IInv, Boot
  PROVE  IInv'
<1>1. 0 \in CPU /\ 0 \in Selected /\ booting \in 1 .. NumCpus /\ NumCpus \in Nat
  BY SelectedCpus DEF IInv, TypeOK
<1>2. DOMAIN pc = CPU /\ pc = [q \in CPU |-> pc[q]]
  BY DEF IInv, TypeOK
<1>3. CASE Begin
  <2>1. /\ UNCHANGED <<booting, started, late, num, met, mutex, stage, managed, moves>>
        /\ pc[0] = "begin" /\ pc' = [pc EXCEPT ![0] = "boot"]
        /\ start_seq' = 1 /\ cpu_ord' = cpu_ord + 1
        /\ num_to_ord' = [num_to_ord EXCEPT ![0] = cpu_ord]
        /\ my_ord' = [my_ord EXCEPT ![0] = cpu_ord]
    BY <1>3 DEF Begin, Goto, stack
  <2>2. \A p \in CPU \ {0} : pc[p] = "halted"
    BY <1>1, <2>1, SelectedCpus DEF IInv, BootOrder
  <2>3. Numbered = {} /\ Numbered' = {0}
    BY <1>1, <1>2, <2>1, <2>2, SelectedCpus DEF Numbered, Unnumbered
  <2>4. cpu_ord = 0
    BY <2>3, FS_EmptySet DEF IInv, OrdinalsGiven
  <2>5. TypeOK'
    BY <1>1, <2>1, <2>4 DEF IInv, TypeOK
  <2>6. MutexHandedOver'
    BY <1>1, <2>1, <1>2, SelectedCpus DEF IInv, MutexHandedOver
  <2>7. BootOrder'
    BY <1>1, <1>2, <2>1, <2>2 DEF BootOrder, Unnumbered
  <2>8. OrdinalsGiven' /\ OrdinalsOwn'
    <3>1. Cardinality({0}) = 1
      BY FS_Singleton
    <3>2. cpu_ord' = 1 /\ num_to_ord'[0] = 0 /\ my_ord'[0] = 0
      BY <1>1, <2>1, <2>4 DEF IInv, TypeOK
    <3>3. \A p \in Selected : pc'[p] # "write"
      BY <1>2, <2>1, <2>2, SelectedCpus
    <3> QED
      BY <2>1, <2>3, <3>1, <3>2, <3>3 DEF IInv, OrdinalsGiven, OrdinalsOwn
  <2>9. AtSites'
    BY <1>2, <2>1, SelectedCpus DEF IInv, AtSites, Sites
  <2>10. TogetherPast'
    <3>1. \A p \in Selected : pc[p] \in {"begin", "halted"} /\ pc'[p] \in {"boot", "halted"}
      BY <1>2, <2>1, <2>2, SelectedCpus
    <3>2. \A p \in Selected : stage'[p] # "go" /\ pc'[p] \notin Past
      BY <2>1, <3>1 DEF IInv, AtSites, Sites, Past
    <3> QED
      BY <2>1, <3>2 DEF TogetherPast, Opened
  <2>11. NumbersSelected' /\ ArrivesAlone'
    BY <1>2, <2>1, <2>2, SelectedCpus DEF IInv, NumbersSelected, ArrivesAlone, Arriving
  <2> QED
    BY <2>5, <2>6, <2>7, <2>8, <2>9, <2>10, <2>11 DEF IInv
<1>4. CASE BootAp
  <2>1. /\ UNCHANGED <<boot, ords, num, met, mutex, stage, managed, moves>>
        /\ booting < NumCpus /\ booting \in Selected /\ pc[0] = "boot"
    BY <1>4 DEF BootAp, stack
  <2>2. PICK to \in {"halted", "waking"} :
          pc' = [pc EXCEPT ![0] = "poll", ![booting] = to]
    <3>1. pc[booting] = "halted"
      BY <1>1, <2>1, SelectedCpus DEF IInv, BootOrder
    <3>2. CASE booting \in Dead
      BY <1>1, <1>2, <1>4, <3>1, <3>2, SelectedCpus DEF BootAp
    <3>3. CASE booting \notin Dead
      BY <1>4, <3>3 DEF BootAp
    <3> QED
      BY <3>2, <3>3
  <2>3. /\ booting \in CPU /\ booting # 0 /\ pc[booting] = "halted"
        /\ \A p \in CPU : pc'[p] = IF p = booting THEN to ELSE IF p = 0 THEN "poll" ELSE pc[p]
    BY <1>1, <1>2, <2>1, <2>2, SelectedCpus DEF IInv, BootOrder
  <2>4. \A p \in Selected :
          \/ pc'[p] = pc[p]
          \/ /\ pc[p] \in {"boot", "halted"} /\ pc'[p] \in {"poll", "halted", "waking"}
             /\ (pc'[p] = "poll") <=> (pc[p] = "boot")
    BY <2>1, <2>2, <2>3, SelectedCpus
  <2>5. Numbered' = Numbered
    BY <2>4 DEF Numbered, Unnumbered
  <2>6. TypeOK'
    BY <1>1, <2>1, <2>2 DEF IInv, TypeOK, boot, ords
  <2>7. MutexHandedOver' /\ AtSites'
    BY <2>1, <2>4 DEF IInv, MutexHandedOver, AtSites, Sites
  <2>8. BootOrder'
    <3>1. booting' = booting /\ pc'[0] = "poll" /\ booting \in Nat
      BY <1>1, <2>1, <2>3 DEF boot
    <3>2. \A p \in CPU : p > booting => pc'[p] = "halted"
      BY <1>1, <2>1, <2>3, <3>1, SelectedCpus DEF IInv, BootOrder
    <3>3. \A p \in CPU : /\ pc'[p] \in {"begin", "boot", "poll"} => p = 0
                         /\ pc'[p] \in Unnumbered \ {"begin"} => p # 0
      BY <2>3 DEF IInv, BootOrder, Unnumbered
    <3>4. \A p \in CPU \ Selected : pc'[p] = "halted"
      BY <1>1, <2>1, <2>3 DEF IInv, BootOrder
    <3> QED
      BY <2>1, <3>1, <3>2, <3>3, <3>4 DEF BootOrder
  <2>9. OrdinalsGiven' /\ OrdinalsOwn' /\ NumbersSelected'
    BY <2>1, <2>4, <2>5 DEF IInv, OrdinalsGiven, OrdinalsOwn, NumbersSelected, Numbered, Unnumbered, ords
  <2>10. TogetherPast'
    BY <2>1, <2>4, <2>5 DEF IInv, TogetherPast, Opened, Past, boot
  <2>11. ArrivesAlone'
    <3>1. late = {} => \A p \in Selected : pc[p] \notin Arriving
      BY <2>1 DEF IInv, ArrivesAlone
    <3>2. pc'[0] = "poll"
      BY <1>1, <2>3
    <3> QED
      BY <2>1, <2>3, <3>1, <3>2, SelectedCpus DEF IInv, ArrivesAlone, Arriving, boot
  <2> QED
    BY <2>6, <2>7, <2>8, <2>9, <2>10, <2>11 DEF IInv
<1>5. CASE NotSelected \/ Booted \/ Timeout \/ AllBooted
  <2>1. PICK to \in {"boot", "start done"} :
          /\ UNCHANGED <<start_seq, started, ords, num, met, mutex, stage, managed, moves>>
          /\ pc[0] \in {"boot", "poll"} /\ pc' = [pc EXCEPT ![0] = to]
          /\ booting' \in {booting, booting + 1}
          /\ to = "boot" => booting' = booting + 1 /\ booting < NumCpus
          /\ to = "start done" => booting' = booting
          /\ late' \subseteq late \cup {booting}
          /\ late' # late => booting \in Selected
          /\ pc[0] = "poll" => booting \in started \/ booting \in late'
          /\ late \subseteq late'
    BY <1>1, <1>2, <1>5 DEF NotSelected, Booted, Timeout, AllBooted, Goto, boot, stack, IInv, BootOrder
  <2>2. \A p \in CPU : pc'[p] = IF p = 0 THEN to ELSE pc[p]
    BY <1>2, <2>1
  <2>3. Numbered' = Numbered
    BY <1>1, <2>1, <2>2, SelectedCpus DEF Numbered, Unnumbered
  <2>4. TypeOK'
    <3>1. booting' \in 1 .. NumCpus /\ booting # 0
      BY <1>1, <2>1, NextBooting
    <3>2. late' \subseteq Selected \ {0}
      BY <2>1, <3>1 DEF IInv, TypeOK
    <3> QED
      BY <2>1, <3>1, <3>2 DEF IInv, TypeOK, ords, Sites
  <2>5. MutexHandedOver' /\ AtSites'
    BY <1>1, <2>1, <2>2, SelectedCpus DEF IInv, MutexHandedOver, AtSites, Sites
  <2>6. BootOrder'
    <3>1. \A p \in CPU : /\ pc'[p] \in {"begin", "boot", "poll"} => p = 0
                         /\ pc'[p] \in Unnumbered \ {"begin"} => p # 0
      BY <2>1, <2>2 DEF IInv, BootOrder, Unnumbered
    <3>2. to = "boot" => \A p \in CPU : p >= booting' => pc'[p] = "halted"
      <4> SUFFICES ASSUME to = "boot", NEW p \in CPU, p >= booting' PROVE pc'[p] = "halted"
        OBVIOUS
      <4>1. p > booting /\ p >= booting /\ p # 0
        BY <1>1, <2>1, SelectedCpus, NextBooting
      <4> QED
        BY <2>1, <2>2, <4>1 DEF IInv, BootOrder
    <3>3. \A p \in CPU \ Selected : pc'[p] = "halted"
      BY <1>1, <2>2 DEF IInv, BootOrder
    <3> QED
      BY <1>1, <2>1, <2>2, <3>1, <3>2, <3>3 DEF BootOrder
  <2>7. OrdinalsGiven' /\ OrdinalsOwn' /\ NumbersSelected'
    <3>1. \A p \in Numbered : p \in Selected /\ (pc'[p] # "restart" => pc[p] # "restart")
      BY <2>1, <2>2, SelectedCpus DEF Numbered
    <3>2. \A p \in Selected : pc'[p] = "write" => pc[p] = "write"
      BY <2>1, <2>2, SelectedCpus
    <3> QED
      BY <2>1, <2>3, <3>1, <3>2 DEF IInv, OrdinalsGiven, OrdinalsOwn, NumbersSelected, ords
  <2>8. TogetherPast'
    BY <2>1, <2>2, <2>3, SelectedCpus DEF IInv, TogetherPast, Opened, Past
  <2>9. ArrivesAlone'
    <3>1. late' = {} => late = {} /\ \A p \in Selected : pc[p] \notin Arriving
      BY <1>1, <2>1 DEF IInv, ArrivesAlone
    <3> QED
      BY <2>1, <2>2, <3>1, SelectedCpus DEF IInv, ArrivesAlone, Arriving
  <2> QED
    BY <2>4, <2>5, <2>6, <2>7, <2>8, <2>9 DEF IInv
<1> QED
  BY <1>3, <1>4, <1>5 DEF Boot

\* CPUs come to the barrier, and are let out of it with the last of them.
LEMMA BarrierInv ==
  ASSUME IInv, Release \/ \E p \in Selected : Arrive(p)
  PROVE  IInv'
<1>1. /\ UNCHANGED <<boot, ords, stack, mutex, managed, moves, pc>>
      /\ stage' \in [Selected -> {"run", "wait", "go"}]
  BY DEF Release, Arrive, B!Release, B!Arrive, IInv, TypeOK
<1>2. /\ TypeOK' /\ MutexHandedOver' /\ BootOrder' /\ OrdinalsGiven' /\ OrdinalsOwn'
      /\ NumbersSelected' /\ ArrivesAlone'
  BY <1>1 DEF IInv, TypeOK, MutexHandedOver, BootOrder, OrdinalsGiven, OrdinalsOwn,
     NumbersSelected, ArrivesAlone, Numbered, boot, ords, stack
<1>3. Numbered' = Numbered
  BY <1>1 DEF Numbered
<1>4. CASE Release
  <2>1. \A p \in Selected : stage[p] = "wait" /\ pc[p] \in Sites
    BY <1>4 DEF Release, B!Release, IInv, AtSites
  <2>2. AtSites'
    BY <1>1, <2>1 DEF AtSites
  <2>3. \A p \in Selected : p \in Numbered
    BY <2>1 DEF Numbered, Unnumbered, Sites
  <2> QED
    BY <1>2, <1>3, <2>2, <2>3 DEF IInv, TogetherPast
<1>5. CASE \E p \in Selected : Arrive(p)
  <2>1. PICK p \in Selected : /\ stage[p] = "run" /\ pc[p] \in Sites
                              /\ stage' = [stage EXCEPT ![p] = "wait"]
    BY <1>5 DEF Arrive, B!Arrive
  <2>2. \A q \in Selected : stage'[q] = IF q = p THEN "wait" ELSE stage[q]
    BY <2>1 DEF IInv, TypeOK
  <2>3. AtSites'
    BY <1>1, <2>1, <2>2 DEF IInv, AtSites
  <2>4. TogetherPast'
    BY <1>1, <1>3, <2>2 DEF IInv, TogetherPast, Opened, boot
  <2> QED
    BY <1>2, <2>3, <2>4 DEF IInv
<1> QED
  BY <1>4, <1>5
-----------------------------------------------------------------------------
\* A step of a CPU that is not at the barrier, without a change of start_seq.
LEMMA AwayFromBarrier ==
  ASSUME IInv, NEW p \in Selected, NEW to, pc' = [pc EXCEPT ![p] = to],
         stage' = stage, start_seq' = start_seq, pc[p] \notin Sites,
         to \in Past => pc[p] \in Past,
         to \in Unnumbered => pc[p] \in Unnumbered
  PROVE  AtSites' /\ TogetherPast'
<1>1. \A q \in Selected : pc'[q] = IF q = p THEN to ELSE pc[q]
  BY SelectedCpus DEF IInv, TypeOK
<1>2. AtSites'
  BY <1>1 DEF IInv, AtSites
<1>3. \A q \in Selected : q \in Numbered => q \in Numbered'
  BY <1>1 DEF Numbered
<1>4. Opened' => Opened
  BY <1>1 DEF Opened
<1> QED
  BY <1>2, <1>3, <1>4 DEF IInv, TogetherPast

\* An AP is on the boot stack while no other CPU can be on its way to the other copy.
LEMMA EnterInv ==
  ASSUME IInv, NEW p \in Selected, Enter(p)
  PROVE  IInv'
<1>1. /\ UNCHANGED <<boot, ords, num, mutex, stage, managed, moves>>
      /\ pc[p] = "waking" /\ pc' = [pc EXCEPT ![p] = "enter"]
      /\ met' = IF OnBootStack = {} THEN met ELSE met \cup OnBootStack \cup {p}
  BY DEF Enter, Goto
<1>2. p \in CPU /\ p # 0
  BY <1>1, SelectedCpus DEF IInv, BootOrder, Unnumbered
<1>3. \A q \in Selected : pc'[q] = IF q = p THEN "enter" ELSE pc[q]
  BY <1>1, SelectedCpus DEF IInv, TypeOK
<1>4. \A q \in OnBootStack : q \in Selected \ {0} /\ pc[q] = "enter"
  <2>1. \A q \in Selected : pc[q] # "restart"
    BY <1>1 DEF IInv, TogetherPast, Opened, Past, Numbered, Unnumbered
  <2> QED
    BY <2>1 DEF IInv, BootOrder, OnBootStack, Unnumbered
<1>5. TypeOK'
  <2>1. met' \subseteq Selected \ {0}
    BY <1>1, <1>2, <1>4 DEF IInv, TypeOK
  <2> QED
    BY <1>1, <2>1 DEF IInv, TypeOK, boot, ords
<1>6. MutexHandedOver'
  BY <1>1, <1>3 DEF IInv, MutexHandedOver
<1>7. BootOrder' /\ OrdinalsGiven' /\ OrdinalsOwn' /\ NumbersSelected'
  <2>1. met \subseteq met'
    BY <1>1
  <2> QED
    BY <1>1, <2>1, OrderKept, OrdinalsStand DEF Unnumbered, boot
<1>8. AtSites' /\ TogetherPast'
  BY <1>1, AwayFromBarrier DEF Sites, Past, Unnumbered, boot
<1>9. ArrivesAlone'
  <2>1. late = {} => \A q \in OnBootStack : q = p
    BY <1>1, <1>4 DEF IInv, ArrivesAlone, Arriving
  <2>2. late = {} => OnBootStack = {}
    BY <1>1, <1>4, <2>1
  <2> QED
    BY <1>1, <1>2, <1>3, <2>2, SelectedCpus DEF IInv, ArrivesAlone, Arriving, boot
<1> QED
  BY <1>5, <1>6, <1>7, <1>8, <1>9 DEF IInv

\* It takes its number with it, or another's, or does not come back.
LEMMA SwitchInv ==
  ASSUME IInv, NEW p \in Selected, SwitchStack(p) \/ TakeNumber(p) \/ GoAstray(p)
  PROVE  IInv'
<1>1. PICK to \in {"register", "lost"} :
        /\ UNCHANGED <<boot, ords, met, mutex, stage, managed, moves>>
        /\ pc[p] = "enter" /\ pc' = [pc EXCEPT ![p] = to]
        /\ \/ num' = num
           \/ met # {} /\ \E q \in met : num' = [num EXCEPT ![p] = q]
        /\ to = "lost" => met # {}
  BY DEF SwitchStack, TakeNumber, GoAstray, Goto, stack
<1>2. p \in CPU /\ met \subseteq Selected \ {0}
  BY SelectedCpus DEF IInv, TypeOK
<1>3. \A q \in Selected : pc'[q] = IF q = p THEN to ELSE pc[q]
  BY <1>1, SelectedCpus DEF IInv, TypeOK
<1>4. /\ num' \in [CPU -> CPU] /\ (\A q \in CPU \ {0} : num'[q] # 0)
      /\ NumbersSelected'
  <2>1. /\ num \in [CPU -> CPU] /\ (\A q \in CPU \ {0} : num[q] # 0)
        /\ \A q \in Selected : num[q] \in Selected
    BY DEF IInv, TypeOK, NumbersSelected
  <2>2. CASE num' = num
    BY <2>1, <2>2 DEF NumbersSelected
  <2>3. ASSUME NEW r \in met, num' = [num EXCEPT ![p] = r]
        PROVE  /\ num' \in [CPU -> CPU] /\ (\A q \in CPU \ {0} : num'[q] # 0)
               /\ NumbersSelected'
    <3>1. r \in CPU /\ r \in Selected /\ r # 0
      BY <1>2, SelectedCpus
    <3>2. \A q \in CPU : num'[q] = IF q = p THEN r ELSE num[q]
      BY <2>1, <2>3
    <3>3. num' \in [CPU -> CPU]
      BY <2>1, <2>3, <3>1
    <3> QED
      BY <2>1, <3>1, <3>2, <3>3, SelectedCpus DEF NumbersSelected
  <2> QED
    BY <1>1, <2>2, <2>3
<1>5. TypeOK'
  BY <1>1, <1>4 DEF IInv, TypeOK, boot, ords
<1>6. MutexHandedOver'
  BY <1>1, <1>3 DEF IInv, MutexHandedOver
<1>7. BootOrder' /\ AtSites' /\ TogetherPast'
  BY <1>1, OrderKept, AwayFromBarrier DEF Unnumbered, Sites, Past, boot
<1>8. OrdinalsGiven' /\ OrdinalsOwn'
  <2>1. Numbered' = Numbered
    BY <1>1, NumberedKept DEF Unnumbered
  <2>2. OrdinalsGiven'
    BY <1>1, <1>3, <2>1 DEF IInv, OrdinalsGiven, ords
  <2>3. \A q \in Numbered : pc'[q] = pc[q]
    BY <1>1, <1>3 DEF Numbered, Unnumbered
  <2>4. met' = {} => num' = num
    BY <1>1
  <2> QED
    BY <1>1, <2>1, <2>2, <2>3, <2>4 DEF IInv, OrdinalsOwn, ords
<1>9. ArrivesAlone'
  <2>1. p # 0
    BY <1>1 DEF IInv, BootOrder, Unnumbered
  <2>2. pc'[0] = pc[0]
    BY <1>3, <2>1, SelectedCpus
  <2> QED
    BY <1>1, <1>3, <2>2 DEF IInv, ArrivesAlone, Arriving, boot
<1> QED
  BY <1>4, <1>5, <1>6, <1>7, <1>8, <1>9 DEF IInv

\* An AP registers itself and takes the mutex for its ordinal.
LEMMA RegisterInv ==
  ASSUME IInv, NEW p \in Selected, Register(p) \/ Lock(p)
  PROVE  IInv'
<1>1. PICK to \in {"lock", "read"} :
        /\ UNCHANGED <<start_seq, booting, late, ords, num, met, stage, managed, moves>>
        /\ pc' = [pc EXCEPT ![p] = to]
        /\ to = "lock" => /\ pc[p] = "register" /\ mutex' = mutex
                          /\ started' = started \cup {num[p]}
        /\ to = "read" => pc[p] = "lock" /\ started' = started /\ mutex = NoCpu /\ mutex' = p
  BY DEF Register, Lock, Goto, boot, stack
<1>2. p # 0
  BY <1>1, SelectedCpus DEF IInv, BootOrder, Unnumbered
<1>3. \A q \in Selected : pc'[q] = IF q = p THEN to ELSE pc[q]
  BY <1>1, SelectedCpus DEF IInv, TypeOK
<1>4. TypeOK'
  <2>1. num[p] \in Selected \ {0}
    BY <1>2, SelectedCpus DEF IInv, TypeOK, NumbersSelected
  <2> QED
    BY <1>1, <2>1 DEF IInv, TypeOK, ords
<1>5. MutexHandedOver'
  BY <1>1, <1>3, SelectedCpus DEF IInv, MutexHandedOver
<1>6. BootOrder' /\ OrdinalsGiven' /\ OrdinalsOwn' /\ NumbersSelected'
  BY <1>1, OrderKept, OrdinalsStand DEF Unnumbered
<1>7. AtSites' /\ TogetherPast'
  BY <1>1, AwayFromBarrier DEF Sites, Past, Unnumbered
<1>8. ArrivesAlone'
  <2>1. CASE to = "read"
    BY <1>1, <2>1, AloneKept DEF Arriving
  <2>2. CASE to = "lock"
    <3>1. pc'[0] = pc[0]
      BY <1>2, <1>3, SelectedCpus
    <3>2. late = {} => /\ num[p] = p
                       /\ \A q \in Selected : pc[q] \in Arriving => q = p
      BY <1>1, <2>2 DEF IInv, ArrivesAlone, OrdinalsOwn, Arriving
    <3> QED
      BY <1>1, <1>3, <2>2, <3>1, <3>2 DEF IInv, ArrivesAlone, Arriving
  <2> QED
    BY <2>1, <2>2
<1> QED
  BY <1>4, <1>5, <1>6, <1>7, <1>8 DEF IInv

\* It reads the next ordinal.
LEMMA ReadInv ==
  ASSUME IInv, NEW p \in Selected, ReadOrd(p)
  PROVE  IInv'
<1>1. /\ UNCHANGED <<boot, cpu_ord, num_to_ord, num, met, mutex, stage, managed, moves>>
      /\ pc[p] = "read" /\ pc' = [pc EXCEPT ![p] = "write"]
      /\ my_ord' = [my_ord EXCEPT ![p] = cpu_ord]
  BY DEF ReadOrd, Goto, stack
<1>2. \A q \in Selected : /\ pc'[q] = IF q = p THEN "write" ELSE pc[q]
                          /\ my_ord'[q] = IF q = p THEN cpu_ord ELSE my_ord[q]
  BY <1>1, SelectedCpus DEF IInv, TypeOK
<1>3. TypeOK'
  BY <1>1 DEF IInv, TypeOK, boot
<1>4. MutexHandedOver'
  BY <1>1, <1>2 DEF IInv, MutexHandedOver
<1>5. BootOrder'
  BY <1>1, OrderKept DEF Unnumbered, boot
<1>6. OrdinalsGiven' /\ OrdinalsOwn' /\ NumbersSelected'
  <2>1. Numbered' = Numbered /\ p \notin Numbered
    BY <1>1, NumberedKept DEF Numbered, Unnumbered
  <2>2. \A q \in Numbered : q # p /\ q \in Selected
    BY <2>1 DEF Numbered
  <2> QED
    BY <1>1, <1>2, <2>1, <2>2 DEF IInv, OrdinalsGiven, OrdinalsOwn, NumbersSelected
<1>7. AtSites' /\ TogetherPast' /\ ArrivesAlone'
  BY <1>1, AwayFromBarrier, AloneKept DEF Sites, Past, Unnumbered, Arriving, boot
<1> QED
  BY <1>3, <1>4, <1>5, <1>6, <1>7 DEF IInv

\* It makes that ordinal its own: nobody has it, and nobody else is about to.
LEMMA WriteInv ==
  ASSUME IInv, NEW p \in Selected, WriteOrd(p)
  PROVE  IInv'
<1>1. /\ UNCHANGED <<boot, my_ord, num, met, mutex, stage, managed, moves>>
      /\ pc[p] = "write" /\ pc' = [pc EXCEPT ![p] = "unlock"]
      /\ cpu_ord' = my_ord[p] + 1
      /\ num_to_ord' = [num_to_ord EXCEPT ![num[p]] = my_ord[p]]
  BY DEF WriteOrd, Goto, stack
<1>2. my_ord[p] = cpu_ord
  BY <1>1 DEF IInv, OrdinalsGiven
<1>3. \A q \in Selected : /\ pc'[q] = IF q = p THEN "unlock" ELSE pc[q]
                          /\ num_to_ord'[q] = IF q = num[p] THEN cpu_ord ELSE num_to_ord[q]
  BY <1>1, <1>2, SelectedCpus DEF IInv, TypeOK
<1>4. p \notin Numbered /\ Numbered' = Numbered \cup {p}
  BY <1>1, <1>3 DEF Numbered, Unnumbered
<1>5. cpu_ord \in Nat /\ cpu_ord \in CPU /\ cpu_ord + 1 \in 0 .. NumCpus
  BY <1>4, NextOrdinal DEF IInv
<1>6. TypeOK'
  BY <1>1, <1>2, <1>5 DEF IInv, TypeOK, boot
<1>7. MutexHandedOver'
  BY <1>1, <1>3 DEF IInv, MutexHandedOver
<1>8. BootOrder'
  BY <1>1, OrderKept DEF Unnumbered, boot
<1>9. OrdinalsGiven'
  <2>1. cpu_ord' = Cardinality(Numbered')
    BY <1>1, <1>2, <1>4, NumberedSize DEF IInv, OrdinalsGiven
  <2>2. \A q \in Selected : pc'[q] # "write"
    BY <1>1, <1>3 DEF IInv, MutexHandedOver
  <2> QED
    BY <2>1, <2>2 DEF OrdinalsGiven
<1>10. OrdinalsOwn'
  <2> SUFFICES ASSUME met' = {} PROVE OrdinalsOwn'
    BY DEF OrdinalsOwn
  <2>1. met = {} /\ \A q \in Selected : num[q] = q
    BY <1>1 DEF IInv, OrdinalsOwn
  <2>2. \A q \in Numbered : num_to_ord[q] < cpu_ord /\ num_to_ord[q] \in Nat /\ q \in Selected
    BY <2>1, SelectedCpus DEF IInv, OrdinalsOwn, TypeOK, Numbered
  <2>3. \A q \in Selected : num_to_ord'[q] = IF q = p THEN cpu_ord ELSE num_to_ord[q]
    BY <1>3, <2>1
  <2>4. \A q \in Numbered' : num_to_ord'[q] < cpu_ord'
    BY <1>1, <1>2, <1>4, <1>5, <2>2, <2>3
  <2>5. \A q, t \in Numbered' : num_to_ord'[q] = num_to_ord'[t] => q = t
    <3>1. \A q, t \in Numbered : num_to_ord[q] = num_to_ord[t] => q = t
      BY <2>1 DEF IInv, OrdinalsOwn
    <3>2. \A q \in Numbered : num_to_ord[q] # cpu_ord /\ num_to_ord'[q] = num_to_ord[q]
      <4> SUFFICES ASSUME NEW q \in Numbered
                   PROVE  num_to_ord[q] # cpu_ord /\ num_to_ord'[q] = num_to_ord[q]
        OBVIOUS
      <4>1. q # p /\ q \in Selected /\ num_to_ord[q] < cpu_ord /\ num_to_ord[q] \in Nat
        BY <1>4, <2>2
      <4> QED
        BY <1>5, <2>3, <4>1
    <3>3. num_to_ord'[p] = cpu_ord
      BY <2>3
    <3> QED
      BY <1>4, <3>1, <3>2, <3>3
  <2>6. \A q \in Numbered' : pc'[q] # "restart" => my_ord'[q] = num_to_ord'[q]
    BY <1>1, <1>2, <1>3, <1>4, <2>1, <2>2, <2>3 DEF IInv, OrdinalsOwn
  <2> QED
    BY <1>1, <2>1, <2>4, <2>5, <2>6 DEF OrdinalsOwn
<1>11. AtSites' /\ TogetherPast' /\ ArrivesAlone' /\ NumbersSelected'
  BY <1>1, AwayFromBarrier, AloneKept
     DEF Sites, Past, Unnumbered, Arriving, boot, IInv, NumbersSelected
<1> QED
  BY <1>6, <1>7, <1>8, <1>9, <1>10, <1>11 DEF IInv

\* The values that relocations give.
LEMMA MoveTypes ==
  ASSUME IInv, NEW p \in Selected
  PROVE  /\ moves[p] < MaxMoves => [moves EXCEPT ![p] = @ + 1] \in [CPU -> 0 .. MaxMoves]
         /\ num_to_ord[num[p]] \in 0 .. NumCpus /\ NumCpus \in 0 .. NumCpus
         /\ 2 \in 0 .. 2
<1>1. p \in CPU /\ moves \in [CPU -> 0 .. MaxMoves] /\ num_to_ord[num[p]] \in CPU
  BY SelectedCpus DEF IInv, TypeOK
<1>2. moves[p] < MaxMoves => moves[p] + 1 \in 0 .. MaxMoves
  BY <1>1
<1> QED
  BY <1>1, <1>2 DEF CPU

\* Steps that change neither ordinals nor, but for the mutex given back, the mutex.
LEMMA RunInv ==
  ASSUME IInv, NEW p \in Selected, Unlock(p) \/ Check(p) \/ Done(p) \/ Move(p)
  PROVE  IInv'
<1>1. PICK to \in {"start done", "done", "main", "copied"} :
        /\ UNCHANGED <<booting, started, late, ords, num, met, stage>>
        /\ pc' = [pc EXCEPT ![p] = to]
        /\ to = "start done" => pc[p] = "unlock" /\ mutex' = NoCpu
        /\ to # "start done" => pc[p] \in {"check", "done", "main"} /\ mutex' = mutex
        /\ start_seq' = start_seq \/ (pc[p] = "done" /\ start_seq' = 2)
        /\ managed' \in {managed, managed \cup {p}}
        /\ moves' = moves \/ (moves[p] < MaxMoves /\ moves' = [moves EXCEPT ![p] = @ + 1])
  <2>1. CASE Unlock(p)
    BY <2>1 DEF Unlock, Goto, boot, stack
  <2>2. CASE Check(p)
    BY <2>2 DEF Check, Goto, boot, stack
  <2>3. CASE Done(p)
    BY <2>3 DEF Done, Goto, stack
  <2>4. CASE Move(p)
    BY <2>4 DEF Move, Goto, boot, stack
  <2> QED
    BY <2>1, <2>2, <2>3, <2>4
<1>2. \A q \in Selected : pc'[q] = IF q = p THEN to ELSE pc[q]
  BY <1>1, SelectedCpus DEF IInv, TypeOK
<1>3. moves' \in [CPU -> 0 .. MaxMoves]
  <2>1. moves \in [CPU -> 0 .. MaxMoves]
    BY DEF IInv, TypeOK
  <2>2. CASE moves' = moves
    BY <2>1, <2>2
  <2>3. CASE moves[p] < MaxMoves /\ moves' = [moves EXCEPT ![p] = @ + 1]
    BY <2>3, MoveTypes
  <2> QED
    BY <1>1, <2>2, <2>3
<1>4. TypeOK'
  <2>1. start_seq \in 0 .. 2 /\ managed \subseteq Selected
    BY DEF IInv, TypeOK
  <2>2. start_seq' \in {start_seq, 2}
    BY <1>1
  <2>3. start_seq' \in 0 .. 2
    BY <2>1, <2>2, MoveTypes, Zenon
  <2>4. managed' \subseteq Selected
    BY <1>1, <2>1
  <2> QED
    BY <1>1, <1>3, <2>3, <2>4 DEF IInv, TypeOK, ords, Sites
<1>5. MutexHandedOver'
  BY <1>1, <1>2, SelectedCpus DEF IInv, MutexHandedOver
<1>6. BootOrder' /\ OrdinalsGiven' /\ OrdinalsOwn' /\ NumbersSelected' /\ ArrivesAlone'
  BY <1>1, OrderKept, OrdinalsStand, AloneKept DEF Unnumbered, Arriving
<1>7. AtSites'
  BY <1>1, <1>2 DEF IInv, AtSites, Sites
<1>8. Numbered' = Numbered
  BY <1>1, NumberedKept DEF Unnumbered
<1>9. Opened' => Opened
  BY <1>1, <1>2 DEF Opened, Past
<1>10. TogetherPast'
  BY <1>8, <1>9 DEF IInv, TogetherPast
<1> QED
  BY <1>4, <1>5, <1>6, <1>7, <1>10 DEF IInv

\* A CPU leaves the barrier.
LEMMA LeaveInv ==
  ASSUME IInv, NEW p \in Selected, StartDone(p) \/ Copied(p)
  PROVE  IInv'
<1>1. PICK to \in {"check", "jump"} :
        /\ UNCHANGED <<boot, ords, num, met, mutex, managed, moves>>
        /\ stage[p] = "go" /\ stage' = [stage EXCEPT ![p] = "run"]
        /\ pc[p] \in Sites /\ pc' = [pc EXCEPT ![p] = to]
  BY DEF StartDone, Copied, Goto, B!Leave, Sites, stack
<1>2. \A q \in Selected : /\ pc'[q] = IF q = p THEN to ELSE pc[q]
                          /\ stage'[q] = IF q = p THEN "run" ELSE stage[q]
  BY <1>1, SelectedCpus DEF IInv, TypeOK
<1>3. TypeOK'
  BY <1>1 DEF IInv, TypeOK, boot, ords
<1>4. MutexHandedOver'
  BY <1>1, <1>2 DEF IInv, MutexHandedOver, Sites
<1>5. BootOrder' /\ OrdinalsGiven' /\ OrdinalsOwn' /\ NumbersSelected' /\ ArrivesAlone'
  BY <1>1, OrderKept, OrdinalsStand, AloneKept DEF Unnumbered, Arriving, Sites, boot
<1>6. AtSites'
  BY <1>1, <1>2 DEF IInv, AtSites
<1>7. Opened /\ Numbered' = Numbered
  BY <1>1, NumberedKept DEF Opened, Unnumbered, Sites
<1>8. TogetherPast'
  BY <1>7 DEF IInv, TogetherPast
<1> QED
  BY <1>3, <1>4, <1>5, <1>6, <1>8 DEF IInv

\* A CPU loses its ordinal with its stack, and looks it up again.
LEMMA RestartInv ==
  ASSUME IInv, NEW p \in Selected, Jump(p) \/ Restart(p)
  PROVE  IInv'
<1>1. PICK to \in {"restart", "start done"} :
        /\ UNCHANGED <<boot, cpu_ord, num_to_ord, met, stage, managed, moves>>
        /\ pc' = [pc EXCEPT ![p] = to]
        /\ to = "restart" => /\ pc[p] = "jump" /\ mutex = NoCpu /\ mutex' = p
                             /\ num' = [num EXCEPT ![p] = p]
                             /\ my_ord' = [my_ord EXCEPT ![p] = NumCpus]
        /\ to = "start done" => /\ pc[p] = "restart" /\ mutex' = NoCpu /\ num' = num
                                /\ my_ord' = [my_ord EXCEPT ![p] = num_to_ord[num[p]]]
  BY DEF Jump, Restart, Goto, stack
<1>2. \A q \in Selected : pc'[q] = IF q = p THEN to ELSE pc[q]
  BY <1>1, SelectedCpus DEF IInv, TypeOK
<1>3. /\ num' \in [CPU -> CPU] /\ (\A q \in CPU \ {0} : num'[q] # 0)
      /\ NumbersSelected' /\ (\A q \in Selected : num[q] = q => num'[q] = q)
  <2>1. p \in CPU /\ num \in [CPU -> CPU]
    BY SelectedCpus DEF IInv, TypeOK
  <2>2. \A q \in CPU : num'[q] = num[q] \/ (q = p /\ num'[q] = p)
    BY <1>1, <2>1
  <2>3. num' \in [CPU -> CPU]
    BY <1>1, <2>1
  <2> QED
    BY <2>2, <2>3, SelectedCpus DEF IInv, TypeOK, NumbersSelected
<1>4. TypeOK'
  <2>1. my_ord' \in [CPU -> 0 .. NumCpus]
    <3>1. my_ord \in [CPU -> 0 .. NumCpus]
      BY DEF IInv, TypeOK
    <3>2. /\ [my_ord EXCEPT ![p] = NumCpus] \in [CPU -> 0 .. NumCpus]
          /\ [my_ord EXCEPT ![p] = num_to_ord[num[p]]] \in [CPU -> 0 .. NumCpus]
      BY <3>1, MoveTypes
    <3> QED
      BY <1>1, <3>2
  <2> QED
    BY <1>1, <1>3, <2>1 DEF IInv, TypeOK, boot, Sites
<1>5. MutexHandedOver'
  BY <1>1, <1>2, SelectedCpus DEF IInv, MutexHandedOver
<1>6. BootOrder' /\ AtSites' /\ TogetherPast' /\ ArrivesAlone'
  BY <1>1, OrderKept, AwayFromBarrier, AloneKept DEF Unnumbered, Arriving, Sites, Past, boot
<1>7. OrdinalsGiven' /\ OrdinalsOwn'
  <2>1. Numbered' = Numbered
    BY <1>1, NumberedKept DEF Unnumbered
  <2>2. ASSUME met = {}
        PROVE  \A q \in Numbered : pc'[q] # "restart" => my_ord'[q] = num_to_ord[q]
    <3>1. \A q \in Selected : q # p \/ to = "start done" =>
             my_ord'[q] = IF q = p THEN num_to_ord[num[p]] ELSE my_ord[q]
      BY <1>1, SelectedCpus DEF IInv, TypeOK
    <3>2. \A q \in Numbered : pc[q] # "restart" => my_ord[q] = num_to_ord[q]
      BY <2>2 DEF IInv, OrdinalsOwn
    <3>3. num[p] = p
      BY <2>2 DEF IInv, OrdinalsOwn
    <3> SUFFICES ASSUME NEW q \in Numbered, pc'[q] # "restart" PROVE my_ord'[q] = num_to_ord[q]
      OBVIOUS
    <3>4. q \in Selected
      BY DEF Numbered
    <3>5. CASE q = p
      BY <1>1, <1>2, <3>1, <3>3, <3>4, <3>5
    <3>6. CASE q # p
      BY <1>2, <3>1, <3>2, <3>4, <3>6
    <3> QED
      BY <3>5, <3>6
  <2>3. \A q \in Selected : pc'[q] = "write" => my_ord'[q] = cpu_ord
    BY <1>1, <1>2, SelectedCpus DEF IInv, OrdinalsGiven, TypeOK
  <2>4. OrdinalsGiven'
    BY <1>1, <2>1, <2>3 DEF IInv, OrdinalsGiven
  <2>5. OrdinalsOwn'
    BY <1>1, <1>3, <2>1, <2>2 DEF IInv, OrdinalsOwn
  <2> QED
    BY <2>4, <2>5
<1> QED
  BY <1>3, <1>4, <1>5, <1>6, <1>7 DEF IInv
-----------------------------------------------------------------------------
\* The invariant holds in every state, whichever CPUs are selected or dead and
\* however late the boot CPU finds them.
THEOREM Invariance == Spec => []IInv
<1>1. IInv /\ [Next]_vars => IInv'
  <2> SUFFICES ASSUME IInv, [Next]_vars PROVE IInv'
    OBVIOUS
  <2>1. CASE UNCHANGED vars
    BY <2>1 DEF vars, boot, ords, stack, IInv, TypeOK, MutexHandedOver, BootOrder, OrdinalsGiven,
       OrdinalsOwn, NumbersSelected, ArrivesAlone, Numbered, AtSites, TogetherPast, Opened
  <2>2. CASE Boot
    BY <2>2, BootInv
  <2>3. CASE Release
    BY <2>3, BarrierInv
  <2>4. ASSUME NEW p \in Selected, Step(p) PROVE IInv'
    BY <2>4, BarrierInv, EnterInv, SwitchInv, RegisterInv, ReadInv, WriteInv, RunInv, LeaveInv,
       RestartInv DEF Step
  <2>5. ASSUME NEW p \in Selected, Test(p) \/ Astray(p) PROVE UNCHANGED vars
    BY <2>5 DEF Test, Astray
  <2> QED
    BY <2>1, <2>2, <2>3, <2>4, <2>5 DEF Next
<1> QED
  BY <1>1, InitInv, PTL DEF Spec

\* The ordinals are dense and distinct while CPUs test (arch.c:78-83, 92): one that
\* is below the counter and given once stays so over every relocation.
THEOREM OrdinalsKeptHolds == Spec => []OrdinalsKept
<1>1. IInv => OrdinalsKept
  <2> SUFFICES ASSUME IInv, met = {} PROVE OrdinalsDense
    BY DEF IInv, OrdinalsKept
  <2>1. \A p \in CPU \cap Numbered : p \in Selected /\ num_to_ord[p] < cpu_ord
    BY DEF IInv, OrdinalsOwn, Numbered
  <2>2. \A p \in Numbered : num_to_ord[p] \in Nat
    BY SelectedCpus DEF IInv, TypeOK, Numbered
  <2>3. cpu_ord \in Nat /\ cpu_ord <= Cardinality(Selected) /\ Cardinality(Selected) \in Nat
    BY NumberedSize DEF IInv, OrdinalsGiven
  <2>4. \A p \in Running : p \in Numbered /\ my_ord[p] = num_to_ord[p]
    BY DEF Running, IInv, BootOrder, OrdinalsOwn, Numbered, Unnumbered
  <2>5. \A p \in Running : my_ord[p] < Cardinality(Selected)
    BY <2>1, <2>2, <2>3, <2>4 DEF Running
  <2> QED
    BY <2>4, <2>5 DEF IInv, OrdinalsOwn, OrdinalsDense
<1> QED
  BY <1>1, Invariance, PTL

\* Nobody tests before every selected CPU has its ordinal (arch.c:96,
\* arch-smp.c:566-569): who is past the barrier is so because all came to it.
THEOREM NobodyLeftBehindHolds == Spec => []NobodyLeftBehind
<1>1. IInv => NobodyLeftBehind
  BY DEF IInv, TogetherPast, Opened, Numbered, Unnumbered, NobodyLeftBehind
<1> QED
  BY <1>1, Invariance, PTL

\* No two CPUs are on a boot stack as long as the boot CPU gives nobody up
\* (arch-smp.c:560-576, main.c:85-87): it starts an AP when the one before has left
\* the stack, and the mutex keeps apart those that jump.
THEOREM BootStackAloneHolds == Spec => []BootStackAlone
<1>1. IInv => BootStackAlone
  <2> SUFFICES ASSUME IInv, late = {}, NEW p \in OnBootStack, NEW q \in OnBootStack PROVE p = q
    BY DEF BootStackAlone, OneAtATime
  <2>1. p \in Selected /\ q \in Selected
    BY DEF IInv, BootOrder, OnBootStack
  <2>2. CASE pc[p] = "enter" /\ pc[q] = "enter"
    BY <2>1, <2>2 DEF IInv, ArrivesAlone, Arriving
  <2>3. CASE pc[p] = "restart" /\ pc[q] = "restart"
    BY <2>1, <2>3 DEF IInv, MutexHandedOver
  <2>4. pc[p] = pc[q]
    BY <2>1 DEF IInv, TogetherPast, Opened, Past, Numbered, Unnumbered, OnBootStack
  <2> QED
    BY <2>2, <2>3, <2>4 DEF OnBootStack
<1> QED
  BY <1>1, Invariance, PTL
=============================================================================
