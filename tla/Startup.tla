------------------------------ MODULE Startup ------------------------------
(***************************************************************************)
(* How the CPUs come to memtest_main: test_start of src/arch/i386/arch.c   *)
(* for the boot CPU, for the application processors it starts              *)
(* (initialise_cpus, smp_boot_ap of arch-smp.c) and, with start_seq = 2,   *)
(* for a CPU that run_at of main.c sends to the other copy of the program. *)
(*                                                                         *)
(* An action is the code between two accesses to what the CPUs share;      *)
(* cpu_ord++ is a load and a store.  barrier() is the rendezvous that      *)
(* module Barrier implements.  memtest_main is only its relocations.  All  *)
(* CPUs start on one boot stack, which each leaves for a stack of its own; *)
(* what becomes of CPUs that meet there is undefined.                      *)
(***************************************************************************)
EXTENDS Integers, FiniteSets

CONSTANTS NumCpus,   \* num_cpus, after smp_find_cpus and maxcpus=
          Selected,  \* the CPUs that cpu_mask[] selects, with CPU 0
          Dead,      \* those of them that never react to the startup IPI
          MaxMoves   \* bound on the relocations of a CPU

CPU == 0 .. NumCpus - 1

ASSUME NumAssumption == NumCpus \in Nat /\ NumCpus >= 2
ASSUME SelectedAssumption == {0} \subseteq Selected /\ Selected \subseteq CPU
ASSUME DeadAssumption == Dead \subseteq Selected \ {0}
ASSUME MovesAssumption == MaxMoves \in Nat

NoCpu == NumCpus   \* nobody holds the mutex

VARIABLES
  start_seq,
  booting,     \* the i of initialise_cpus' loop
  started,     \* AP[].started
  late,        \* CPUs for which the boot CPU stopped waiting
  cpu_ord,     \* the next ordinal
  num_to_ord,
  my_ord,      \* my_cpu_ord on each CPU's stack, NumCpus before it has one
  num,         \* my_cpu_num on each CPU's stack
  met,         \* CPUs that were on the boot stack together with another
  mutex,       \* the owner of barr->mutex
  stage,       \* where each CPU is in barrier(), a stage of Rendezvous
  managed,     \* CPUs whose CR4 and EFER the memory management setup has set
  moves,       \* relocations of each CPU so far
  pc

boot  == <<start_seq, booting, started, late>>
ords  == <<cpu_ord, num_to_ord, my_ord>>
stack == <<num, met>>
vars  == <<boot, ords, stack, mutex, stage, managed, moves, pc>>

B == INSTANCE Rendezvous WITH CPU <- Selected

Sites == {"copied", "start done"}   \* the calls of barrier()

Goto(p, from, to) == pc[p] = from /\ pc' = [pc EXCEPT ![p] = to]

Init == /\ start_seq = 0 /\ booting = 1 /\ started = {} /\ late = {}
        /\ cpu_ord = 0
        /\ num_to_ord = [p \in CPU |-> 0] /\ my_ord = [p \in CPU |-> NumCpus]
        /\ num = [p \in CPU |-> p] /\ met = {}
        /\ mutex = NoCpu
        /\ B!Init
        /\ managed = {}
        /\ moves = [p \in CPU |-> 0]
        /\ pc = [p \in CPU |-> IF p = 0 THEN "begin" ELSE "halted"]
-----------------------------------------------------------------------------
\* The boot CPU: "if this is the first time here we are CPU 0".
Begin == /\ Goto(0, "begin", "boot")
         /\ start_seq = 0
         /\ start_seq' = 1
         /\ cpu_ord' = cpu_ord + 1
         /\ num_to_ord' = [num_to_ord EXCEPT ![0] = cpu_ord]
         /\ my_ord' = [my_ord EXCEPT ![0] = cpu_ord]
         /\ UNCHANGED <<booting, started, late, stack, mutex, stage, managed, moves>>

\* boot_ap: the IPIs start the CPU at test_start, unless it is dead.
BootAp == /\ booting < NumCpus /\ booting \in Selected
          /\ pc[0] = "boot"
          /\ pc' = [pc EXCEPT ![0] = "poll",
                              ![booting] = IF booting \in Dead THEN @ ELSE "waking"]
          /\ UNCHANGED <<boot, ords, stack, mutex, stage, managed, moves>>

NotSelected == /\ booting < NumCpus /\ booting \notin Selected
               /\ pc[0] = "boot"
               /\ booting' = booting + 1
               /\ UNCHANGED <<start_seq, started, late, ords, stack, mutex, stage, managed, moves, pc>>

\* smp_boot_ap ends with the CPU started or after the timeout.
Booted == /\ booting \in started
          /\ Goto(0, "poll", "boot")
          /\ booting' = booting + 1
          /\ UNCHANGED <<start_seq, started, late, ords, stack, mutex, stage, managed, moves>>

Timeout == /\ booting \notin started
           /\ Goto(0, "poll", "boot")
           /\ late' = late \cup {booting}
           /\ booting' = booting + 1
           /\ UNCHANGED <<start_seq, started, ords, stack, mutex, stage, managed, moves>>

AllBooted == /\ booting = NumCpus
             /\ Goto(0, "boot", "start done")
             /\ UNCHANGED <<boot, ords, stack, mutex, stage, managed, moves>>
-----------------------------------------------------------------------------
OnBootStack == {p \in CPU : pc[p] \in {"enter", "restart"}}

\* Fault: an AP registers itself before it has left the boot stack.
EnterRegisters(p) ==
  /\ Goto(p, "waking", "enter")
  /\ started' = started \cup {p}
  /\ met' = IF OnBootStack = {} THEN met ELSE met \cup OnBootStack \cup {p}
  /\ UNCHANGED <<start_seq, booting, late, ords, num, mutex, stage, managed, moves>>

\* An AP comes out of the trampoline, on the boot stack, ...
Enter(p) == /\ Goto(p, "waking", "enter")
            /\ met' = IF OnBootStack = {} THEN met ELSE met \cup OnBootStack \cup {p}
            /\ UNCHANGED <<boot, ords, num, mutex, stage, managed, moves>>

\* ... of which it takes a copy with it, ...
SwitchStack(p) == /\ Goto(p, "enter", "register")
                  /\ p \notin met
                  /\ UNCHANGED <<boot, ords, stack, mutex, stage, managed, moves>>

\* ... with the number of one of those that it met there, ...
TakeNumber(p) == /\ Goto(p, "enter", "register")
                 /\ \E q \in met : num' = [num EXCEPT ![p] = q]
                 /\ p \in met
                 /\ UNCHANGED <<boot, ords, met, mutex, stage, managed, moves>>

\* ... or returns to where another was to return, and is lost.
GoAstray(p) == /\ Goto(p, "enter", "lost")
               /\ p \in met
               /\ UNCHANGED <<boot, ords, stack, mutex, stage, managed, moves>>

\* It registers itself, ...
Register(p) == /\ start_seq < 2
               /\ Goto(p, "register", "lock")
               /\ started' = started \cup {num[p]}
               /\ UNCHANGED <<start_seq, booting, late, ords, stack, mutex, stage, managed, moves>>

\* Fault: the ordinal is taken without the mutex.
LockBlindly(p) == /\ Goto(p, "lock", "read")
                  /\ mutex' = p
                  /\ UNCHANGED <<boot, ords, stack, stage, managed, moves>>

Lock(p) == /\ mutex = NoCpu
           /\ mutex' = p
           /\ Goto(p, "lock", "read")
           /\ UNCHANGED <<boot, ords, stack, stage, managed, moves>>

\* ... and takes the next ordinal under the mutex.
ReadOrd(p) == /\ Goto(p, "read", "write")
              /\ my_ord' = [my_ord EXCEPT ![p] = cpu_ord]
              /\ UNCHANGED <<boot, cpu_ord, num_to_ord, stack, mutex, stage, managed, moves>>

WriteOrd(p) == /\ Goto(p, "write", "unlock")
               /\ cpu_ord' = my_ord[p] + 1
               /\ num_to_ord' = [num_to_ord EXCEPT ![num[p]] = my_ord[p]]
               /\ UNCHANGED <<boot, my_ord, stack, mutex, stage, managed, moves>>

\* Fault: the mutex is not given back.
UnlockForgets(p) == /\ Goto(p, "unlock", "start done")
                    /\ UNCHANGED <<boot, ords, stack, mutex, stage, managed, moves>>

Unlock(p) == /\ Goto(p, "unlock", "start done")
             /\ mutex' = NoCpu
             /\ UNCHANGED <<boot, ords, stack, stage, managed, moves>>
-----------------------------------------------------------------------------
Arrive(p) == /\ pc[p] \in Sites
             /\ B!Arrive(p)
             /\ UNCHANGED <<boot, ords, stack, mutex, managed, moves, pc>>

\* Fault: the barrier waits for the CPUs that have registered only.
ReleaseStarted == /\ \A p \in started \cup {0} : stage[p] = "wait"
                  /\ stage' = [p \in Selected |-> IF stage[p] = "wait" THEN "go" ELSE stage[p]]
                  /\ UNCHANGED <<boot, ords, stack, mutex, managed, moves, pc>>

Release == B!Release /\ UNCHANGED <<boot, ords, stack, mutex, managed, moves, pc>>

StartDone(p) == /\ B!Leave(p)
                /\ Goto(p, "start done", "check")
                /\ UNCHANGED <<boot, ords, stack, mutex, managed, moves>>

\* if (start_seq < 2) set up the memory management of this CPU.
Check(p) == /\ Goto(p, "check", "done")
            /\ managed' = IF start_seq < 2 THEN managed \cup {p} ELSE managed
            /\ UNCHANGED <<boot, ords, stack, mutex, stage, moves>>

Done(p) == /\ Goto(p, "done", "main")
           /\ start_seq' = 2
           /\ UNCHANGED <<booting, started, late, ords, stack, mutex, stage, managed, moves>>
-----------------------------------------------------------------------------
\* memtest_main calls run_at, which waits for the copy, ...
Move(p) == /\ moves[p] < MaxMoves
           /\ Goto(p, "main", "copied")
           /\ moves' = [moves EXCEPT ![p] = @ + 1]
           /\ UNCHANGED <<boot, ords, stack, mutex, stage, managed>>

Copied(p) == /\ B!Leave(p)
             /\ Goto(p, "copied", "jump")
             /\ UNCHANGED <<boot, ords, stack, mutex, managed, moves>>

\* ... takes the mutex and jumps to test_start on the boot stack, where the CPU asks
\* for its number again, ...
Jump(p) == /\ mutex = NoCpu
           /\ mutex' = p
           /\ Goto(p, "jump", "restart")
           /\ num' = [num EXCEPT ![p] = p]
           /\ my_ord' = [my_ord EXCEPT ![p] = NumCpus]
           /\ UNCHANGED <<boot, cpu_ord, num_to_ord, met, stage, managed, moves>>

\* ... which gives the mutex back and looks the ordinal up.
Restart(p) == /\ start_seq = 2
              /\ Goto(p, "restart", "start done")
              /\ mutex' = NoCpu
              /\ my_ord' = [my_ord EXCEPT ![p] = num_to_ord[num[p]]]
              /\ UNCHANGED <<boot, cpu_ord, num_to_ord, stack, stage, managed, moves>>

\* The relocations modelled are over; the CPU keeps testing.
Test(p) == /\ pc[p] = "main" /\ moves[p] = MaxMoves
           /\ UNCHANGED vars

\* What a lost CPU executes is not the program.
Astray(p) == /\ pc[p] = "lost"
             /\ UNCHANGED vars

Step(p) == \/ Enter(p) \/ SwitchStack(p) \/ TakeNumber(p) \/ GoAstray(p)
           \/ Register(p) \/ Lock(p) \/ ReadOrd(p) \/ WriteOrd(p) \/ Unlock(p)
           \/ Arrive(p) \/ StartDone(p) \/ Check(p) \/ Done(p)
           \/ Move(p) \/ Copied(p) \/ Jump(p) \/ Restart(p)

Boot == Begin \/ BootAp \/ NotSelected \/ Booted \/ Timeout \/ AllBooted

Next == Boot \/ Release \/ \E p \in Selected : Step(p) \/ Test(p) \/ Astray(p)

Spec == Init /\ [][Next]_vars

\* Every running CPU executes its next instruction.
Fairness == /\ WF_vars(Boot) /\ WF_vars(Release)
            /\ \A p \in Selected : WF_vars(Step(p))

FairSpec == Spec /\ Fairness
-----------------------------------------------------------------------------
TypeOK ==
  /\ start_seq \in 0 .. 2 /\ booting \in 1 .. NumCpus
  /\ started \subseteq Selected \ {0} /\ late \subseteq Selected \ {0}
  /\ cpu_ord \in 0 .. NumCpus
  /\ num_to_ord \in [CPU -> CPU] /\ my_ord \in [CPU -> 0 .. NumCpus]
  /\ num \in [CPU -> CPU] /\ met \subseteq Selected \ {0}
  /\ \A p \in CPU \ {0} : num[p] # 0
  /\ mutex \in Selected \cup {NoCpu}
  /\ stage \in [Selected -> {"run", "wait", "go"}]
  /\ managed \subseteq Selected
  /\ moves \in [CPU -> 0 .. MaxMoves]
  /\ pc \in [CPU -> Sites \cup {"begin", "boot", "poll", "halted", "waking", "enter",
                     "register", "lost", "lock", "read", "write", "unlock", "check", "done", "main",
                     "jump", "restart"}]

\* The CPUs that are past the startup barrier, this time or before.
Running == {p \in CPU : pc[p] \in {"check", "done", "main", "copied"}}

\* The ordinals are 0 .. act_cpus - 1, one each, in whatever order the CPUs came
\* up and however often they moved: the division of memory by my_cpu_ord and the
\* choice of mstr_cpu = act_cpus - 1 depend on it (arch.c:78-83, 92).
OrdinalsDense ==
  \A p \in Running : my_ord[p] < Cardinality(Selected) /\
     \A q \in Running : my_ord[p] = my_ord[q] => p = q

\* Nobody tests, nor sees start_seq = 2 and takes a start for a restart, before
\* every selected CPU has its ordinal, not even when the boot CPU gave a slow CPU
\* up (arch.c:96, arch-smp.c:566-569).
NobodyLeftBehind ==
  start_seq = 2 => \A p \in Selected :
     pc[p] \notin {"halted", "waking", "enter", "register", "lost", "lock", "read", "write"}

\* The mutex that run_at takes before its jump is the one that test_start gives
\* back after it; between them and around cpu_ord no two CPUs hold it.
MutexHandedOver ==
  \A p \in Selected : pc[p] \in {"read", "write", "unlock", "restart"} <=> mutex = p

\* Ordinals are right because the mutex that guards them is handed over right, unless
\* a CPU may have taken another's number on the boot stack.
OrdinalsKept == TypeOK /\ MutexHandedOver /\ (met = {} => OrdinalsDense)

\* "We use a lock to insure that only one CPU at a time jumps to the new code.  Some of
\* the startup stuff is not thread safe!" (main.c:85-86): no two CPUs on a boot stack.
OneAtATime == \A p, q \in OnBootStack : p = q

\* That is so, at startup without a lock and on the way to the other copy with one, as
\* long as the boot CPU gives nobody up (arch-smp.c:560-576, main.c:87, arch.c:89).
BootStackAlone == late = {} => OneAtATime

\* All CPUs reach memtest_main, also those that the boot CPU gave up, unless one of
\* these met another on the boot stack (arch-smp.c:566-574).
EveryoneStarts == \A p \in Selected : <>(pc[p] = "main" \/ met # {})

\* "Setup Memory Management and measure memory speed, we do it here because we
\* need all of the available CPUs" (arch.c:101): no CPU begins testing without it.
EveryoneManaged == \A p \in Selected : pc[p] = "main" => p \in managed

\* "SMP: Boot timeout for ... Turning off SMP" (arch-smp.c:572-574): the boot CPU
\* goes on without the CPU that did not answer.
TimeoutTurnsOffSmp == late # {} ~> pc[0] = "main"
=============================================================================
