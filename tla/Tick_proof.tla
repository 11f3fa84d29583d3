----------------------------- MODULE Tick_proof -----------------------------
(***************************************************************************)
(* For every number of CPUs, pieces, errors and configuration changes the  *)
(* CPUs that test a window keep in step, count each error once and spare   *)
(* the BIOS's area.                                                        *)
(***************************************************************************)
EXTENDS Tick, FiniteSetTheorems, TLAPS

USE RunAssumption, PiecesAssumption, ErrorsAssumption, LeadAssumption, BoundsAssumption

Labels == Sites \cup {"window", "begin", "tick", "input", "bail", "piece", "lock",
                      "lock usb", "load", "store", "error input", "unlock", "left"}

\* Between the tick and the next one.
Testing == {"tick", "piece", "lock", "lock usb", "load", "store", "error input", "unlock"}

\* Calls of s_barrier() before the first tick.
LeadRound == IF LeadBarrier THEN 1 ELSE 0

\* What the label of a CPU says of its barrier, its ticks and itself.
Places ==
  \A p \in CPU : /\ stage[p] # "run" => pc[p] \in Sites
                 /\ pc[p] = "lead" => LeadRound = 1
                 /\ pc[p] \in {"window", "lead", "begin"} => ticks[p] = 0
                 /\ pc[p] \notin {"window", "lead", "begin", "tick"} => ticks[p] > 0
                 /\ pc[p] = "tick" => ticks[p] < Pieces
                 /\ pc[p] = "input" => p = mstr_cpu

\* The calls of s_barrier() that a CPU has been let out of.
Inside(p) == pc[p] = "input" \/ (pc[p] = "held" /\ stage[p] # "go")
Rounds(p) == IF pc[p] = "window" THEN 0
             ELSE IF pc[p] = "lead" /\ stage[p] # "go" THEN 0
             ELSE LeadRound + ticks[p] - (IF Inside(p) THEN 1 ELSE 0)

\* They are the same for all CPUs at any time, those that have left included.
SameRound == \A p, q \in CPU : Rounds(p) = Rounds(q)

\* The master counts the ticks it is past.
MasterCounts ==
  nticks = ticks[mstr_cpu] - (IF pc[mstr_cpu] \in {"input", "held"} THEN 1 ELSE 0)

\* The error counter is read and written under the mutex.
Owned == \A p \in CPU : /\ pc[p] \in {"load", "store", "error input", "unlock"} => mutex = p
                        /\ pc[p] = "store" => seen[p] = ecount

\* After the change at a tick no CPU comes past that tick.
ChangeHolds == changed > 0 => /\ bail = 1
                              /\ \A p \in CPU : pc[p] \in Testing => ticks[p] < changed

\* The master raises the start before anybody leaves the first barrier.
Raised == LeadRound = 1 => /\ pc[mstr_cpu] # "window" => lower = "raised"
                         /\ \A p \in CPU : start[p] # "bios"

IInv == /\ TypeOK /\ Places /\ SameRound /\ MasterCounts /\ Owned /\ ErrorsExact
        /\ ChangeHolds /\ Raised
-----------------------------------------------------------------------------
Reporting == {p \in CPU : pc[p] \in {"lock", "load", "store"}}

LEMMA OneMore ==
  ASSUME NEW m \in Nat, NEW x \in 0 .. m, x < m
  PROVE  x + 1 \in 0 .. m
OBVIOUS

LEMMA MasterIsCpu == mstr_cpu \in CPU /\ Nobody \notin CPU
BY DEF mstr_cpu, CPU, Nobody

\* The size of the set of CPUs that are about to count an error.
LEMMA ReportingSize ==
  ASSUME NEW p \in CPU
  PROVE  /\ Cardinality(Reporting) \in Nat
         /\ p \notin Reporting => Cardinality(Reporting \cup {p}) = Cardinality(Reporting) + 1
         /\ p \in Reporting => /\ Cardinality(Reporting) > 0
                             /\ Cardinality(Reporting \ {p}) = Cardinality(Reporting) - 1
<1>1. IsFiniteSet(CPU)
  BY FS_Interval DEF CPU
<1>2. IsFiniteSet(Reporting)
  BY <1>1, FS_Subset DEF Reporting
<1> QED
  BY <1>2, FS_AddElement, FS_RemoveElement, FS_CardinalityType, FS_EmptySet

\* How that set changes with the label of one CPU.
LEMMA ReportingStep ==
  ASSUME TypeOK, NEW p \in CPU, NEW to, pc' = [pc EXCEPT ![p] = to]
  PROVE  Reporting' = IF to \in {"lock", "load", "store"} THEN Reporting \cup {p}
                                                        ELSE Reporting \ {p}
BY DEF TypeOK, Reporting

LEMMA LeadRoundType == LeadRound \in {0, 1}
BY DEF LeadRound

\* The parts of the types that steps of the CPUs need.
LEMMA TickType ==
  ASSUME IInv, NEW q \in CPU
  PROVE  ticks[q] \in Nat /\ ticks[q] <= Pieces
<1>1. ticks[q] \in 0 .. Pieces
  BY DEF IInv, TypeOK
<1> QED
  BY <1>1

LEMMA Shapes ==
  ASSUME IInv
  PROVE  /\ DOMAIN pc = CPU /\ pc = [q \in CPU |-> pc[q]]
         /\ DOMAIN ticks = CPU /\ ticks = [q \in CPU |-> ticks[q]]
         /\ DOMAIN stage = CPU /\ stage = [q \in CPU |-> stage[q]]
BY DEF IInv, TypeOK

\* CPUs start in step.
LEMMA InitInv == Init => IInv
<1> SUFFICES ASSUME Init PROVE IInv
  OBVIOUS
<1>1. TypeOK
  BY DEF Init, B!Init, TypeOK, Sites, Nobody
<1>2. Places /\ SameRound /\ MasterCounts /\ Owned /\ ChangeHolds /\ Raised
  BY MasterIsCpu DEF Init, B!Init, Places, SameRound, Rounds, MasterCounts, Owned, ChangeHolds,
     Testing, Raised
<1>3. ErrorsExact
  <2>1. {p \in CPU : pc[p] \in {"lock", "load", "store"}} = {}
    BY DEF Init
  <2> QED
    BY <2>1, FS_EmptySet DEF Init, ErrorsExact
<1> QED
  BY <1>1, <1>2, <1>3 DEF IInv
-----------------------------------------------------------------------------
\* A step of one CPU that changes the rounds of none keeps all in the same one.
LEMMA RoundsKept ==
  ASSUME SameRound, \A q \in CPU : Rounds(q)' = Rounds(q)
  PROVE  SameRound'
BY DEF SameRound

\* A step that moves no CPU to or from a label of an error counts nothing.
LEMMA NothingCounted ==
  ASSUME ErrorsExact, Reporting' = Reporting, UNCHANGED <<ecount, found>>
  PROVE  ErrorsExact'
BY DEF ErrorsExact, Reporting

\* Waiting at the barrier, and being let out of it all together.
LEMMA BarrierInv ==
  ASSUME IInv, Release \/ \E p \in CPU : Arrive(p)
  PROVE  IInv'
<1>1. /\ UNCHANGED <<range, ticks, nticks, count, input, pc>>
      /\ stage' \in [CPU -> {"run", "wait", "go"}]
  BY DEF Release, Arrive, B!Release, B!Arrive, IInv, TypeOK
<1>2. TypeOK' /\ MasterCounts' /\ Owned' /\ ErrorsExact' /\ ChangeHolds' /\ Raised'
  BY <1>1 DEF IInv, TypeOK, MasterCounts, Owned, ErrorsExact, ChangeHolds, Raised,
     range, count, input
<1>3. CASE Release
  <2>1. \A q \in CPU : stage[q] = "wait" /\ stage'[q] = "go" /\ pc[q] \in Sites
    BY <1>3 DEF Release, B!Release, IInv, Places
  <2>2. Places'
    BY <1>1, <2>1 DEF IInv, Places
  <2>3. \A q \in CPU : Rounds(q)' = Rounds(q) + 1
    <3> SUFFICES ASSUME NEW q \in CPU PROVE Rounds(q)' = Rounds(q) + 1
      OBVIOUS
    <3>1. ticks' = ticks /\ pc' = pc
      BY <1>1
    <3>2. ticks[q] \in Nat
      BY TickType
    <3>3. pc[q] = "lead" => LeadRound = 1
      BY DEF IInv, Places
    <3>4. pc[q] = "lead" => ticks[q] = 0
      BY DEF IInv, Places
    <3> QED
      BY <2>1, <3>1, <3>2, <3>3, <3>4, LeadRoundType DEF Rounds, Inside, Sites
  <2> QED
    BY <1>2, <2>2, <2>3 DEF IInv, SameRound
<1>4. CASE \E p \in CPU : Arrive(p)
  <2>1. PICK p \in CPU : Arrive(p)
    BY <1>4
  <2>2. stage' = [stage EXCEPT ![p] = "wait"] /\ stage[p] = "run" /\ pc[p] \in Sites
    BY <2>1 DEF Arrive, B!Arrive
  <2>3. Places'
    BY <1>1, <2>2 DEF IInv, TypeOK, Places
  <2>4. \A q \in CPU : Rounds(q)' = Rounds(q)
    BY <1>1, <2>2, LeadRoundType DEF IInv, TypeOK, Rounds, Inside
  <2> QED
    BY <1>2, <2>3, <2>4, RoundsKept DEF IInv
<1> QED
  BY <1>3, <1>4

\* From the window to the first tick.
LEMMA BeginInv ==
  ASSUME IInv, NEW p \in CPU, DoTest(p) \/ Lead(p) \/ Begin(p)
  PROVE  IInv'
<1>1. PICK to \in {"lead", "begin", "tick"} :
         /\ UNCHANGED <<ticks, nticks, count, input>>
         /\ pc' = [pc EXCEPT ![p] = to]
         /\ to = "lead"  => pc[p] = "window" /\ LeadRound = 1
         /\ to = "begin" => \/ pc[p] = "window" /\ LeadRound = 0
                            \/ pc[p] = "lead" /\ stage[p] = "go"
         /\ to = "tick"  => pc[p] = "begin"
         /\ stage' = IF pc[p] = "lead" THEN [stage EXCEPT ![p] = "run"] ELSE stage
  BY DEF DoTest, Lead, Begin, Passes, Goto, B!Leave, LeadRound
<1>2. /\ lower' = IF pc[p] = "window" /\ p = mstr_cpu THEN "raised" ELSE lower
      /\ start' = IF pc[p] = "begin" THEN [start EXCEPT ![p] = lower] ELSE start
  BY DEF DoTest, Lead, Begin, Passes, Goto, range
<1>3. TypeOK'
  BY <1>1, <1>2 DEF IInv, TypeOK, Sites, count, input
<1>4. Places'
  <2>1. ASSUME NEW q \in CPU PROVE (stage[q] # "run" => pc[q] \in Sites)'
    BY <1>1, Shapes DEF IInv, Places, Sites
  <2>2. pc[p] \in {"window", "lead", "begin"} /\ ticks[p] = 0
    BY <1>1 DEF IInv, Places
  <2>3. Pieces > 0
    OBVIOUS
  <2> QED
    BY <1>1, <2>1, <2>2, <2>3, Shapes DEF IInv, Places
<1>5. SameRound'
  <2>1. \A q \in CPU \ {p} : Rounds(q)' = Rounds(q)
    BY <1>1, Shapes DEF Rounds, Inside
  <2>2. Rounds(p)' = Rounds(p)
    <3>1. ticks[p] = 0 /\ (pc[p] = "lead" => LeadRound = 1)
      BY <1>1 DEF IInv, Places
    <3>2. pc'[p] = "lead" => stage'[p] = "run"
      BY <1>1, Shapes DEF IInv, Places, Sites
    <3> QED
      BY <1>1, <3>1, <3>2, LeadRoundType, Shapes DEF Rounds, Inside
  <2> QED
    BY <2>1, <2>2, RoundsKept DEF IInv
<1>6. MasterCounts' /\ Owned'
  BY <1>1, MasterIsCpu DEF IInv, TypeOK, MasterCounts, Owned, count
<1>7. ErrorsExact'
  <2>1. Reporting' = Reporting
    BY <1>1 DEF IInv, TypeOK, Reporting
  <2> QED
    BY <1>1, <2>1, NothingCounted DEF IInv, count
<1>8. ChangeHolds'
  BY <1>1 DEF IInv, TypeOK, Places, ChangeHolds, Testing, input
<1>9. Raised'
  <2>1. SUFFICES ASSUME LeadRound = 1 PROVE Raised'
    BY DEF Raised
  <2>2. (pc[mstr_cpu] # "window")' => lower' = "raised"
    BY <1>1, <1>2, <2>1, MasterIsCpu DEF IInv, TypeOK, Raised
  <2>3. pc[p] = "begin" => lower = "raised"
    <3>1. pc[p] = "begin" => ticks[p] = 0
      BY DEF IInv, Places
    <3>2. pc[p] = "begin" => Rounds(p) = 1
      BY <2>1, <3>1, LeadRoundType DEF Rounds, Inside
    <3>3. pc[mstr_cpu] = "window" => Rounds(mstr_cpu) = 0
      BY DEF Rounds
    <3> QED
      BY <2>1, <3>2, <3>3, MasterIsCpu DEF IInv, SameRound, Raised
  <2> QED
    BY <1>2, <2>1, <2>2, <2>3 DEF IInv, TypeOK, Raised
<1> QED
  BY <1>3, <1>4, <1>5, <1>6, <1>7, <1>8, <1>9 DEF IInv

\* The call of do_tick.
LEMMA DoTickInv ==
  ASSUME IInv, NEW p \in CPU, DoTick(p)
  PROVE  IInv'
<1>1. PICK to \in {"input", "held"} :
         /\ UNCHANGED <<range, nticks, count, input, stage>>
         /\ pc[p] = "tick" /\ pc' = [pc EXCEPT ![p] = to]
         /\ to = "input" <=> p = mstr_cpu
         /\ ticks' = [ticks EXCEPT ![p] = @ + 1]
  BY DEF DoTick, Goto
<1>2. ticks[p] \in Nat /\ ticks[p] < Pieces /\ stage[p] = "run"
  BY <1>1, TickType, Shapes DEF IInv, TypeOK, Places, Sites
<1>3. TypeOK'
  <2>1. ticks[p] + 1 \in 0 .. Pieces
    BY <1>2
  <2>2. ticks \in [CPU -> 0 .. Pieces]
    BY DEF IInv, TypeOK
  <2>3. ticks' \in [CPU -> 0 .. Pieces]
    BY <1>1, <2>1, <2>2
  <2> QED
    BY <1>1, <2>3 DEF IInv, TypeOK, Sites, range, count, input
<1>4. Places'
  <2>1. ASSUME NEW q \in CPU PROVE (stage[q] # "run" => pc[q] \in Sites)'
    BY <1>1, Shapes DEF IInv, Places, Sites
  <2> QED
    BY <1>1, <1>2, <2>1, Shapes DEF IInv, Places
<1>5. SameRound'
  <2>1. \A q \in CPU \ {p} : Rounds(q)' = Rounds(q)
    BY <1>1, Shapes DEF Rounds, Inside
  <2>2. Rounds(p)' = Rounds(p)
    BY <1>1, <1>2, LeadRoundType, Shapes DEF Rounds, Inside
  <2> QED
    BY <2>1, <2>2, RoundsKept DEF IInv
<1>6. MasterCounts' /\ Owned'
  <2>1. MasterCounts'
    BY <1>1, <1>2, MasterIsCpu, Shapes DEF IInv, MasterCounts
  <2>2. Owned'
    BY <1>1, Shapes DEF IInv, Owned, count
  <2> QED
    BY <2>1, <2>2
<1>7. ErrorsExact'
  <2>1. Reporting' = Reporting
    BY <1>1, Shapes DEF Reporting
  <2> QED
    BY <1>1, <2>1, NothingCounted DEF IInv, count
<1>8. ChangeHolds' /\ Raised'
  BY <1>1, Shapes, MasterIsCpu DEF IInv, ChangeHolds, Testing, input, range, Raised
<1> QED
  BY <1>3, <1>4, <1>5, <1>6, <1>7, <1>8 DEF IInv

\* The master looks for input, and may change the configuration: the others are
\* not past the tick before.
LEMMA InputInv ==
  ASSUME IInv, NEW p \in CPU, NoKey(p) \/ Key(p)
  PROVE  IInv'
<1>1. /\ UNCHANGED <<range, ticks, nticks, count, stage>>
      /\ pc[p] = "input" /\ pc' = [pc EXCEPT ![p] = "held"]
      /\ \/ UNCHANGED input
         \/ bail' = 1 /\ changed' = ticks[p] /\ keys < MaxKeys /\ keys' = keys + 1
  BY DEF NoKey, Key, Configure, Goto
<1>2. p = mstr_cpu /\ stage[p] = "run" /\ ticks[p] \in Nat /\ ticks[p] > 0
  BY <1>1, Shapes, TickType DEF IInv, TypeOK, Places, Sites
<1>3. TypeOK'
  <2>1. ticks[p] \in 0 .. Pieces
    BY <1>2, TickType
  <2>2. bail \in {0, 1} /\ changed \in 0 .. Pieces /\ keys \in 0 .. MaxKeys
    BY DEF IInv, TypeOK
  <2>3. bail' \in {0, 1} /\ changed' \in 0 .. Pieces
    BY <1>1, <2>1, <2>2 DEF input
  <2>4. keys' \in 0 .. MaxKeys
    BY <1>1, <2>2 DEF input
  <2> QED
    BY <1>1, <2>3, <2>4 DEF IInv, TypeOK, Sites, range, count
<1>4. Places'
  <2>1. ASSUME NEW q \in CPU PROVE (stage[q] # "run" => pc[q] \in Sites)'
    BY <1>1, Shapes DEF IInv, Places, Sites
  <2> QED
    BY <1>1, <1>2, <2>1, Shapes DEF IInv, Places
<1>5. SameRound'
  <2>1. \A q \in CPU : Rounds(q)' = Rounds(q)
    BY <1>1, <1>2, Shapes DEF Rounds, Inside
  <2> QED
    BY <2>1, RoundsKept DEF IInv
<1>6. MasterCounts' /\ Owned'
  BY <1>1, <1>2, Shapes DEF IInv, MasterCounts, Owned, count
<1>7. ErrorsExact'
  <2>1. Reporting' = Reporting
    BY <1>1, Shapes DEF Reporting
  <2> QED
    BY <1>1, <2>1, NothingCounted DEF IInv, count
<1>8. ChangeHolds'
  <2>1. CASE UNCHANGED input
    BY <1>1, <2>1, Shapes DEF IInv, ChangeHolds, Testing, input
  <2>2. CASE bail' = 1 /\ changed' = ticks[p]
    <3> SUFFICES ASSUME NEW q \in CPU, pc'[q] \in Testing PROVE ticks'[q] < changed'
      BY <2>2 DEF ChangeHolds
    <3>1. pc[q] \in Testing /\ q # p
      BY <1>1, Shapes DEF Testing
    <3>2. ticks[q] \in Nat
      BY TickType
    <3>3. /\ Rounds(q) = LeadRound + ticks[q]
          /\ Rounds(p) = LeadRound + ticks[p] - 1
      <4>1. pc[q] \notin {"window", "lead", "input", "held"}
        BY <3>1 DEF Testing
      <4>2. Rounds(q) = LeadRound + ticks[q]
        BY <3>2, <4>1, LeadRoundType DEF Rounds, Inside
      <4>3. Rounds(p) = LeadRound + ticks[p] - 1
        BY <1>1 DEF Rounds, Inside
      <4> QED
        BY <4>2, <4>3
    <3>4. Rounds(p) = Rounds(q)
      BY DEF IInv, SameRound
    <3> QED
      BY <1>1, <1>2, <2>2, <3>2, <3>3, <3>4, LeadRoundType
  <2> QED
    BY <1>1, <2>1, <2>2
<1>9. Raised'
  BY <1>1, Shapes, MasterIsCpu DEF IInv, Raised, range
<1> QED
  BY <1>3, <1>4, <1>5, <1>6, <1>7, <1>8, <1>9 DEF IInv

\* The return from do_tick, and BAILR: after a change the CPU leaves.
LEMMA BailInv ==
  ASSUME IInv, NEW p \in CPU, Held(p) \/ Bail(p)
  PROVE  IInv'
<1>1. PICK to \in {"bail", "left", "piece"} :
         /\ UNCHANGED <<range, ticks, count, input>>
         /\ pc' = [pc EXCEPT ![p] = to]
         /\ to = "bail"  => /\ pc[p] = "held" /\ stage[p] = "go"
                            /\ stage' = [stage EXCEPT ![p] = "run"]
                            /\ nticks' = IF p = mstr_cpu THEN nticks + 1 ELSE nticks
         /\ to # "bail"  => pc[p] = "bail" /\ UNCHANGED <<stage, nticks>>
         /\ to = "piece" => bail # 1
  BY DEF Held, Bail, Passes, Goto, B!Leave
<1>2. ticks[p] \in Nat /\ ticks[p] > 0 /\ (pc[p] = "bail" => stage[p] = "run")
  BY <1>1, TickType, Shapes DEF IInv, TypeOK, Places, Sites
<1>3. Places'
  <2>1. ASSUME NEW q \in CPU PROVE (stage[q] # "run" => pc[q] \in Sites)'
    BY <1>1, <1>2, Shapes DEF IInv, Places, Sites
  <2> QED
    BY <1>1, <1>2, <2>1, Shapes DEF IInv, Places
<1>4. MasterCounts'
  <2>1. ticks[mstr_cpu] \in Nat
    BY TickType, MasterIsCpu
  <2> QED
    BY <1>1, <2>1, MasterIsCpu, Shapes DEF IInv, MasterCounts
<1>5. TypeOK'
  <2>1. nticks' \in 0 .. Pieces
    <3>1. ticks'[mstr_cpu] \in Nat /\ ticks'[mstr_cpu] <= Pieces
          /\ (pc'[mstr_cpu] \in {"input", "held"} => ticks'[mstr_cpu] > 0)
      BY <1>1, <1>3, TickType, MasterIsCpu DEF Places
    <3> QED
      BY <1>4, <3>1 DEF MasterCounts
  <2> QED
    BY <1>1, <2>1 DEF IInv, TypeOK, Sites, range, count, input
<1>6. SameRound'
  <2>1. \A q \in CPU \ {p} : Rounds(q)' = Rounds(q)
    BY <1>1, Shapes DEF Rounds, Inside
  <2>2. Rounds(p)' = Rounds(p)
    BY <1>1, <1>2, LeadRoundType, Shapes DEF Rounds, Inside
  <2> QED
    BY <2>1, <2>2, RoundsKept DEF IInv
<1>7. Owned'
  BY <1>1, Shapes DEF IInv, Owned, count
<1>8. ErrorsExact'
  <2>1. Reporting' = Reporting
    BY <1>1, Shapes DEF Reporting
  <2> QED
    BY <1>1, <2>1, NothingCounted DEF IInv, count
<1>9. ChangeHolds' /\ Raised'
  BY <1>1, Shapes, MasterIsCpu DEF IInv, ChangeHolds, Testing, input, range, Raised
<1> QED
  BY <1>3, <1>4, <1>5, <1>6, <1>7, <1>8, <1>9 DEF IInv

\* What a CPU does between two ticks does not concern the ticks.
Reports == Testing \ {"tick"}

LEMMA BetweenTicks ==
  ASSUME IInv, NEW p \in CPU, NEW to \in Testing \cup {"left"},
         pc[p] \in Reports, pc' = [pc EXCEPT ![p] = to],
         to = "tick" => ticks[p] < Pieces,
         UNCHANGED <<range, ticks, nticks, stage, changed>>, bail' \in {bail, 1}
  PROVE  Places' /\ SameRound' /\ MasterCounts' /\ ChangeHolds' /\ Raised'
<1>1. pc[p] \notin {"window", "lead", "begin", "tick", "input", "held"}
  BY DEF Reports, Testing
<1>2. to \notin {"window", "lead", "begin", "input", "held", "bail"}
  BY DEF Testing
<1>3. stage[p] = "run" /\ ticks[p] > 0
  BY <1>1, Shapes DEF IInv, TypeOK, Places, Sites, Reports, Testing
<1>4. Places'
  <2>1. ASSUME NEW q \in CPU PROVE (stage[q] # "run" => pc[q] \in Sites)'
    BY <1>3, Shapes DEF IInv, Places, Sites
  <2> QED
    BY <1>2, <1>3, <2>1, Shapes DEF IInv, Places
<1>5. SameRound'
  <2>1. \A q \in CPU : Rounds(q)' = Rounds(q)
    BY <1>1, <1>2, Shapes DEF Rounds, Inside
  <2> QED
    BY <2>1, RoundsKept DEF IInv
<1>6. MasterCounts'
  BY <1>1, <1>2, MasterIsCpu, Shapes DEF IInv, MasterCounts
<1>7. ChangeHolds'
  BY Shapes DEF IInv, ChangeHolds, Reports, Testing
<1>8. Raised'
  BY <1>1, Shapes, MasterIsCpu DEF IInv, Raised, range
<1> QED
  BY <1>4, <1>5, <1>6, <1>7, <1>8

\* A piece is over, or an error of the BIOS is skipped, with the mutex.
LEMMA PieceInv ==
  ASSUME IInv, NEW p \in CPU, Piece(p) \/ LockAndSkip(p)
  PROVE  IInv'
<1>1. PICK to \in {"tick", "left", "piece"} :
         /\ UNCHANGED <<range, ticks, nticks, ecount, seen, found, input, stage>>
         /\ pc[p] \in {"piece", "lock usb"} /\ pc' = [pc EXCEPT ![p] = to]
         /\ to = "tick" => ticks[p] < Pieces
         /\ \/ mutex' = mutex
            \/ mutex = Nobody /\ mutex' = p
  BY DEF Piece, LockAndSkip, Next1, Goto, count
<1>2. Places' /\ SameRound' /\ MasterCounts' /\ ChangeHolds' /\ Raised'
  BY <1>1, BetweenTicks DEF Testing, Reports, input
<1>3. TypeOK'
  BY <1>1 DEF IInv, TypeOK, range, input
<1>4. Owned'
  BY <1>1, MasterIsCpu, Shapes DEF IInv, Owned
<1>5. ErrorsExact'
  <2>1. Reporting' = Reporting
    BY <1>1, Shapes DEF Reporting
  <2> QED
    BY <1>1, <2>1, NothingCounted DEF IInv
<1> QED
  BY <1>2, <1>3, <1>4, <1>5 DEF IInv

\* An error is found.
LEMMA ErrorInv ==
  ASSUME IInv, NEW p \in CPU, Error(p)
  PROVE  IInv'
<1>1. PICK to \in {"lock", "lock usb"} :
         /\ UNCHANGED <<range, ticks, nticks, mutex, ecount, seen, input, stage>>
         /\ pc[p] = "piece" /\ pc' = [pc EXCEPT ![p] = to]
         /\ found < MaxErrors
         /\ found' = IF pc'[p] = "lock" THEN found + 1 ELSE found
  BY DEF Error, Goto
<1>2. found' = IF to = "lock" THEN found + 1 ELSE found
  BY <1>1, Shapes
<1>3. Places' /\ SameRound' /\ MasterCounts' /\ ChangeHolds' /\ Raised'
  BY <1>1, BetweenTicks DEF Testing, Reports, input
<1>4. found \in 0 .. MaxErrors /\ ecount \in 0 .. MaxErrors
  BY DEF IInv, TypeOK
<1>5. TypeOK'
  <2>1. found + 1 \in 0 .. MaxErrors
    BY <1>1, <1>4, OneMore
  <2>2. found' \in 0 .. MaxErrors
    BY <1>2, <1>4, <2>1
  <2> QED
    BY <1>1, <2>2 DEF IInv, TypeOK, range, input
<1>6. Owned'
  BY <1>1, Shapes DEF IInv, Owned
<1>7. ErrorsExact'
  <2>1. Reporting' = IF to = "lock" THEN Reporting \cup {p} ELSE Reporting \ {p}
    BY <1>1, ReportingStep DEF IInv
  <2>2. p \notin Reporting
    BY <1>1 DEF Reporting
  <2>3. Reporting \ {p} = Reporting
    BY <2>2
  <2>4. ecount = found - Cardinality(Reporting)
    BY DEF IInv, ErrorsExact, Reporting
  <2>5. ecount' = found' - Cardinality(Reporting')
    <3>1. Cardinality(Reporting) \in Nat
          /\ Cardinality(Reporting \cup {p}) = Cardinality(Reporting) + 1
      BY <2>2, ReportingSize
    <3>2. CASE to = "lock"
      BY <1>1, <1>2, <1>4, <2>1, <2>4, <3>1, <3>2
    <3>3. CASE to # "lock"
      BY <1>1, <1>2, <2>1, <2>3, <2>4, <3>3
    <3> QED
      BY <3>2, <3>3
  <2> QED
    BY <2>5 DEF ErrorsExact, Reporting
<1> QED
  BY <1>3, <1>5, <1>6, <1>7 DEF IInv

\* The counter under the mutex: nobody else is between its lock and its unlock.
LEMMA CountInv ==
  ASSUME IInv, NEW p \in CPU, Lock(p) \/ Load(p)
  PROVE  IInv'
<1>1. PICK to \in {"load", "store"} :
         /\ UNCHANGED <<range, ticks, nticks, ecount, found, input, stage>>
         /\ pc' = [pc EXCEPT ![p] = to]
         /\ to = "load" => /\ pc[p] = "lock" /\ mutex = Nobody /\ mutex' = p
                           /\ seen' = seen
         /\ to = "store" => /\ pc[p] = "load" /\ mutex' = mutex
                            /\ seen' = [seen EXCEPT ![p] = ecount]
  BY DEF Lock, Load, Goto
<1>2. Places' /\ SameRound' /\ MasterCounts' /\ ChangeHolds' /\ Raised'
  BY <1>1, BetweenTicks DEF Testing, Reports, input
<1>3. TypeOK'
  <2>1. TypeOK /\ ecount \in 0 .. MaxErrors
    BY DEF IInv, TypeOK
  <2>2. pc' \in [CPU -> Sites \cup {"window", "begin", "tick", "input", "bail", "piece", "lock",
                                   "lock usb", "load", "store", "error input", "unlock", "left"}]
    BY <1>1, <2>1 DEF TypeOK
  <2>3. mutex' \in CPU \cup {Nobody}
    BY <1>1, <2>1 DEF TypeOK
  <2>4. seen' \in [CPU -> 0 .. MaxErrors]
    BY <1>1, <2>1 DEF TypeOK
  <2> QED
    BY <1>1, <2>1, <2>2, <2>3, <2>4 DEF TypeOK, range, input
<1>4. Owned'
  <2>1. CASE to = "load"
    <3>1. ASSUME NEW q \in CPU PROVE pc[q] \notin {"load", "store", "error input", "unlock"}
      BY <1>1, <2>1, MasterIsCpu DEF IInv, Owned
    <3> QED
      BY <1>1, <2>1, <3>1, Shapes DEF Owned
  <2>2. CASE to = "store"
    <3>1. mutex = p
      BY <1>1, <2>2 DEF IInv, Owned
    <3>2. seen'[p] = ecount /\ \A q \in CPU \ {p} : seen'[q] = seen[q]
      BY <1>1, <2>2 DEF IInv, TypeOK
    <3> QED
      BY <1>1, <2>2, <3>1, <3>2, Shapes DEF IInv, Owned
  <2> QED
    BY <2>1, <2>2
<1>5. ErrorsExact'
  <2>1. Reporting' = Reporting
    BY <1>1, Shapes DEF Reporting
  <2> QED
    BY <1>1, <2>1, NothingCounted DEF IInv
<1> QED
  BY <1>2, <1>3, <1>4, <1>5 DEF IInv

\* What counting the error of a CPU makes of the counter.
LEMMA OneCounted ==
  ASSUME IInv, NEW p \in Reporting
  PROVE  /\ ecount + 1 = found - Cardinality(Reporting \ {p})
         /\ ecount + 1 \in 0 .. MaxErrors
<1>1. found \in 0 .. MaxErrors /\ ecount \in 0 .. MaxErrors
  BY DEF IInv, TypeOK
<1>2. p \in CPU
  BY DEF Reporting
<1>3. PICK c \in Nat : c > 0 /\ c = Cardinality(Reporting) /\ Cardinality(Reporting \ {p}) = c - 1
  BY <1>2, ReportingSize
<1>4. ecount = found - c
  BY <1>3 DEF IInv, ErrorsExact, Reporting
<1>5. found \in Nat /\ ecount \in Nat /\ found <= MaxErrors
  BY <1>1
<1>6. ecount + 1 = found - (c - 1) /\ ecount + 1 <= MaxErrors
  BY <1>3, <1>4, <1>5
<1> QED
  BY <1>3, <1>5, <1>6

LEMMA StoreInv ==
  ASSUME IInv, NEW p \in CPU, Store(p)
  PROVE  IInv'
<1>1. PICK to \in {"error input", "unlock"} :
         /\ UNCHANGED <<range, ticks, nticks, mutex, seen, found, input, stage>>
         /\ pc[p] = "store" /\ pc' = [pc EXCEPT ![p] = to]
         /\ ecount' = seen[p] + 1
  BY DEF Store, Goto
<1>2. seen[p] = ecount /\ mutex = p
  BY <1>1 DEF IInv, Owned
<1>3. Places' /\ SameRound' /\ MasterCounts' /\ ChangeHolds' /\ Raised'
  BY <1>1, BetweenTicks DEF Testing, Reports, input
<1>4. found \in 0 .. MaxErrors /\ ecount \in 0 .. MaxErrors
  BY DEF IInv, TypeOK
<1>5. p \in Reporting /\ Reporting' = Reporting \ {p}
  BY <1>1, ReportingStep DEF IInv, Reporting
<1>6. /\ ecount + 1 = found - Cardinality(Reporting')
      /\ ecount + 1 \in 0 .. MaxErrors
  BY <1>5, OneCounted
<1>7. ecount' = ecount + 1 /\ found' = found
  BY <1>1, <1>2
<1>8. ErrorsExact'
  BY <1>6, <1>7 DEF ErrorsExact, Reporting
<1>9. TypeOK'
  <2>1. ecount' \in 0 .. MaxErrors
    BY <1>6, <1>7
  <2> QED
    BY <1>1, <2>1 DEF IInv, TypeOK, range, input
<1>10. Owned'
  BY <1>1, <1>2, Shapes DEF IInv, Owned
<1> QED
  BY <1>3, <1>8, <1>9, <1>10 DEF IInv

\* The user answers an error, and the mutex is given back.
LEMMA UnlockInv ==
  ASSUME IInv, NEW p \in CPU, ErrorInput(p) \/ Unlock(p)
  PROVE  IInv'
<1>1. PICK to \in {"unlock", "piece"} :
         /\ UNCHANGED <<range, ticks, nticks, ecount, seen, found, changed, stage>>
         /\ pc' = [pc EXCEPT ![p] = to]
         /\ to = "unlock" => pc[p] = "error input" /\ mutex' = mutex
         /\ to = "piece"  => pc[p] = "unlock" /\ mutex' = Nobody
         /\ \/ UNCHANGED input
            \/ bail' = 1 /\ keys < MaxKeys /\ keys' = keys + 1
  BY DEF ErrorInput, Unlock, Configure, Goto, count, input
<1>2. bail' \in {bail, 1}
  BY <1>1 DEF input
<1>3. Places' /\ SameRound' /\ MasterCounts' /\ ChangeHolds' /\ Raised'
  BY <1>1, <1>2, BetweenTicks DEF Testing, Reports
<1>4. TypeOK'
  <2>1. keys \in 0 .. MaxKeys /\ bail \in {0, 1}
    BY DEF IInv, TypeOK
  <2>2. UNCHANGED input => keys' \in 0 .. MaxKeys
    BY <2>1 DEF input
  <2>3. keys < MaxKeys => keys + 1 \in 0 .. MaxKeys
    BY <2>1, OneMore
  <2>4. keys' \in 0 .. MaxKeys
    BY <1>1, <2>1, <2>2, <2>3
  <2> QED
    BY <1>1, <1>2, <2>1, <2>4 DEF IInv, TypeOK, range
<1>5. Owned'
  BY <1>1, MasterIsCpu, Shapes DEF IInv, Owned
<1>6. ErrorsExact'
  <2>1. Reporting' = Reporting
    BY <1>1, Shapes DEF Reporting
  <2> QED
    BY <1>1, <2>1, NothingCounted DEF IInv
<1> QED
  BY <1>3, <1>4, <1>5, <1>6 DEF IInv
-----------------------------------------------------------------------------
\* The invariant holds in every state, whatever the constants are.
THEOREM Invariance == Spec => []IInv
<1>1. IInv /\ [Next]_vars => IInv'
  <2> SUFFICES ASSUME IInv, [Next]_vars PROVE IInv'
    OBVIOUS
  <2>1. CASE UNCHANGED vars
    <3>1. TypeOK' /\ Places' /\ MasterCounts' /\ Owned' /\ ChangeHolds' /\ Raised'
      BY <2>1 DEF vars, range, count, input, IInv, TypeOK, Places, MasterCounts, Owned,
         ChangeHolds, Raised
    <3>2. SameRound'
      BY <2>1 DEF vars, IInv, SameRound, Rounds, Inside
    <3>3. ErrorsExact'
      BY <2>1 DEF vars, count, IInv, ErrorsExact
    <3> QED
      BY <3>1, <3>2, <3>3 DEF IInv
  <2>2. CASE Release \/ \E p \in CPU : Arrive(p)
    BY <2>2, BarrierInv
  <2>3. CASE Over
    BY <2>1, <2>3 DEF Over
  <2>4. ASSUME NEW p \in CPU, Step(p) \/ Key(p) \/ Error(p)
        PROVE  IInv'
    BY <2>4, BarrierInv, BeginInv, DoTickInv, InputInv, BailInv, PieceInv, ErrorInv, CountInv,
       StoreInv, UnlockInv DEF Step
  <2> QED
    BY <2>1, <2>2, <2>3, <2>4 DEF Next
<1> QED
  BY <1>1, InitInv, PTL DEF Spec

\* No error is lost or counted twice (error.c:35-62): the value that ++(v->ecount)
\* stores is one more than the counter, since only the owner of the mutex changes it.
THEOREM ErrorsExactHolds == Spec => []ErrorsExact
<1>1. IInv => ErrorsExact
  BY DEF IInv
<1> QED
  BY <1>1, Invariance, PTL

\* The CPUs keep in step, those that have left included, and after a change none
\* tests another piece (error.c:465-470): all have been let out of s_barrier()
\* equally often.
THEOREM LockstepHolds == Spec => []Lockstep
<1>1. IInv => Lockstep
  <2> SUFFICES ASSUME IInv PROVE Lockstep
    OBVIOUS
  <2>1. InStep
    <3> SUFFICES ASSUME NEW p \in CPU, NEW q \in CPU PROVE ticks[p] - ticks[q] <= 1
      BY DEF InStep
    <3>1. ASSUME NEW r \in CPU
          PROVE  /\ ticks[r] \in Nat /\ Rounds(r) \in Int
                 /\ ticks[r] <= Rounds(r) - LeadRound + 1
                 /\ Rounds(r) >= LeadRound => ticks[r] >= Rounds(r) - LeadRound
                 /\ Rounds(r) < LeadRound => ticks[r] = 0
      <4>1. ticks[r] \in Nat
        BY TickType
      <4>2. Inside(r) => ticks[r] > 0
        BY DEF IInv, Places, Inside
      <4>3. pc[r] \in {"window", "lead"} => ticks[r] = 0
        BY DEF IInv, Places
      <4>4. pc[r] = "lead" => LeadRound = 1
        BY DEF IInv, Places
      <4> QED
        BY <4>1, <4>2, <4>3, <4>4, LeadRoundType DEF Rounds
    <3>2. Rounds(p) = Rounds(q)
      BY DEF IInv, SameRound
    <3> QED
      BY <3>1, <3>2, LeadRoundType
  <2>2. ChangeSeen
    BY DEF IInv, ChangeHolds, ChangeSeen, Testing
  <2> QED
    BY <2>1, <2>2 DEF IInv, Lockstep
<1> QED
  BY <1>1, Invariance, PTL

\* If the test begins with a barrier no CPU tests the BIOS's area (main.c:461).
THEOREM LegacyAreaSparedHolds ==
  ASSUME LeadBarrier PROVE Spec => []LegacyAreaSpared
<1>1. IInv => LegacyAreaSpared
  BY DEF IInv, Raised, LeadRound, LegacyAreaSpared
<1> QED
  BY <1>1, Invariance, PTL
=============================================================================
