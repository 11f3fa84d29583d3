------------------------------- MODULE Sched -------------------------------
(***************************************************************************)
(* The loop every CPU runs over tests and memory windows: memtest_main,    *)
(* run_at, test_setup (src/main.c), the restart of test_start after a      *)
(* relocation (src/arch/i386/arch.c) and next_test (src/common.c).         *)
(*                                                                         *)
(* Each global variable is shared by all CPUs with no lock; an action is   *)
(* the code between two points at which another CPU's access matters.      *)
(* barrier() is the rendezvous that module Barrier is shown to implement;  *)
(* s_barrier() lets its callers go when s_maxproc of them have come.  A    *)
(* window is a number: -1 for the low window tested from high memory, k    *)
(* for the k-th 2 GB.                                                      *)
(***************************************************************************)
EXTENDS Integers, Sequences, FiniteSets

CONSTANTS NumCpus,   \* num_cpus = act_cpus: CPUs found, selected and started
          TestSeq,   \* tseq[]: [sel, cpus, pat], its last entry with cpus = 0
          Modes,     \* the values of cpu_mode the user switches between
          LastWin,   \* the last 2 GB window that holds memory to test
          MaxMem,    \* MAX_MEM, as a window
          FadeSteps, \* the value of bitf_seq that ends the bit fade test (6)
          Machines   \* [mapEnd, keys]: map_page() fails from window mapEnd on;
                     \* bound on the configuration changes by the user

ASSUME NumAssumption == NumCpus \in Nat /\ NumCpus >= 2
ASSUME ModeAssumption == Modes \subseteq {"all", "rrobin", "seq"}
ASSUME BoundAssumption == /\ LastWin \in Nat /\ MaxMem \in Nat /\ FadeSteps \in Nat
                          /\ Machines \subseteq [mapEnd : Nat, keys : Nat]

CPU == 0 .. NumCpus - 1
Low == -1
Bailed == -2     \* stands for a window that was left because of bail

\* tseq[t], counted from 0.
Tseq(t) == TestSeq[t + 1]

ASSUME ListAssumption ==
  /\ TestSeq \in Seq([sel : BOOLEAN, cpus : Int, pat : Nat]) /\ Len(TestSeq) > 1
  /\ \A t \in 0 .. Len(TestSeq) - 1 : Tseq(t).cpus = 0 <=> t = Len(TestSeq) - 1

VARIABLES
  test, cpu_mode, cpu_sel,         \* what is tested and by whom
  window, win_next, segs, winx,    \* the window loop; winx is the window
  mstr_cpu, run_cpus,              \* the selection of CPUs
  bail, bitf_seq, pass_flag,
  ltest,     \* test_setup's own ltest: the test the parameters were set up for
  c_iter,    \* the iterations it chose, "reduced" or "full"
  pass,      \* v->pass, counted to 1: what matters is whether it is 0
  mutex,     \* barr->mutex: the CPU that holds it, or NumCpus
  loc,       \* the copy of the program each CPU executes, "low" or "high"
  fresh,     \* the copy CPU 0 made last: it holds the globals' latest values
  run,       \* the local variable run of each CPU
  stage,     \* where each CPU is in barrier(), a stage of Rendezvous
  sstage,    \* the same for s_barrier()
  s_maxproc,
  pc,        \* where each CPU is in the code
  machine,   \* the machine and its user
  keys,      \* configuration changes so far
  tested     \* history: <<cpu, window>> tested since the last end of test

params  == <<ltest, c_iter, pass>>
control == <<test, cpu_mode, cpu_sel, mstr_cpu, run_cpus, bitf_seq, pass_flag, params>>
loop    == <<window, win_next, segs, winx, bail>>
sync    == <<stage, sstage, s_maxproc, mutex>>
place   == <<loc, fresh, run, pc>>
aux     == <<machine, keys, tested>>
vars    == <<control, loop, sync, place, aux>>

\* The call sites of barrier() and s_barrier().
Sites  == {"sched", "copied", "started", "selected", "ready"}
SSites == {"window", "tick", "end"}

B == INSTANCE Rendezvous

MapEnd == machine.mapEnd

Goto(p, from, to) == pc[p] = from /\ pc' = [pc EXCEPT ![p] = to]

\* test_start has done its first barrier; set_defaults has run.
Init == /\ test = 0 /\ cpu_mode = "all" /\ cpu_sel = 0
        /\ window = 0 /\ win_next = 0 /\ segs = 0 /\ winx = Low
        /\ mstr_cpu = 0 /\ run_cpus = 0
        /\ bail = 0 /\ bitf_seq = 0 /\ pass_flag = 0
        /\ ltest = -1 /\ c_iter = "reduced" /\ pass = 0
        /\ mutex = NumCpus
        /\ loc = [p \in CPU |-> "low"] /\ fresh = "low"
        /\ run = [p \in CPU |-> FALSE]
        /\ B!Init
        /\ sstage = [p \in CPU |-> "run"] /\ s_maxproc = 0
        /\ pc = [p \in CPU |-> "top"]
        /\ machine \in Machines /\ keys = 0 /\ tested = {}
-----------------------------------------------------------------------------
(***************************************************************************)
(* The barriers.                                                           *)
(***************************************************************************)
Arrive(p) == /\ pc[p] \in Sites
             /\ B!Arrive(p)
             /\ UNCHANGED <<control, loop, sstage, s_maxproc, mutex, place, aux>>

Release == B!Release
           /\ UNCHANGED <<control, loop, sstage, s_maxproc, mutex, place, aux>>

\* The CPU returns from the barrier() at a site and goes on at a label.
Passes(p, from, to) == B!Leave(p) /\ Goto(p, from, to)

SWaiting == {p \in CPU : sstage[p] = "wait"}

\* s_barrier() returns at once when run_cpus is 1.
SArrive(p) == /\ pc[p] \in SSites
              /\ sstage[p] = "run"
              /\ sstage' = [sstage EXCEPT ![p] = IF run_cpus = 1 THEN "go" ELSE "wait"]
              /\ UNCHANGED <<control, loop, stage, s_maxproc, mutex, place, aux>>

SRelease == /\ SWaiting # {}
            /\ Cardinality(SWaiting) = s_maxproc
            /\ sstage' = [p \in CPU |-> IF p \in SWaiting THEN "go" ELSE sstage[p]]
            /\ UNCHANGED <<control, loop, stage, s_maxproc, mutex, place, aux>>

SPasses(p, from, to) == /\ sstage[p] = "go"
                        /\ sstage' = [sstage EXCEPT ![p] = "run"]
                        /\ Goto(p, from, to)
-----------------------------------------------------------------------------
(***************************************************************************)
(* The top of the test loop.                                               *)
(***************************************************************************)
SingleCpuTest(t) == Tseq(t).cpus = -1

\* Skip single CPU tests if we are using only one CPU: the test ...
DecideSkip(p) == /\ SingleCpuTest(test) /\ cpu_mode # "all"
                 /\ Goto(p, "top", "skip")
                 /\ UNCHANGED <<control, loop, sync, loc, fresh, run, aux>>

\* ... and the increment, which another CPU may come between.
Skip(p) == /\ Goto(p, "skip", "top")
           /\ test' = test + 1
           /\ UNCHANGED <<cpu_mode, cpu_sel, mstr_cpu, run_cpus, bitf_seq, pass_flag,
                          params, loop, sync, loc, fresh, run, aux>>

\* test_setup() by one CPU: "we only do half of the iterations on the first pass".
SetUp == /\ ltest' = test
         /\ c_iter' = IF test = ltest THEN c_iter
                      ELSE IF pass = 0 THEN "reduced" ELSE "full"

\* test_setup(): the parameters are set up once per test.
Setup(p) == /\ ~(SingleCpuTest(test) /\ cpu_mode # "all")
            /\ Goto(p, "top", "loop")
            /\ SetUp
            /\ UNCHANGED <<test, cpu_mode, cpu_sel, mstr_cpu, run_cpus, bitf_seq, pass,
                           pass_flag, loop, sync, loc, fresh, run, aux>>

\* while (win_next <= end of memory + WIN_SZ).
Loop(p) == /\ Goto(p, "loop", IF win_next <= LastWin + 1 THEN "sched" ELSE "end")
           /\ UNCHANGED <<control, loop, sync, loc, fresh, run, aux>>

\* Fault: the program is never moved back to low memory.
PlaceStaysHigh(p) ==
  LET w == IF Tseq(test).pat = 11 /\ window = 0 THEN 1 ELSE window
  IN /\ Passes(p, "sched", IF w = 0 /\ loc[p] = "low" THEN "copy" ELSE "select")
     /\ window' = w
     /\ UNCHANGED <<control, win_next, segs, winx, bail, sstage, s_maxproc, mutex,
                    loc, fresh, run, aux>>

\* Fault: no test is run on the low window.
PlaceSkipsLow(p) ==
  LET w == IF window = 0 THEN 1 ELSE window
  IN /\ Passes(p, "sched", IF loc[p] = "high" THEN "copy" ELSE "select")
     /\ window' = w
     /\ UNCHANGED <<control, win_next, segs, winx, bail, sstage, s_maxproc, mutex,
                    loc, fresh, run, aux>>

\* Past the main scheduling barrier: nothing is tested beyond MAX_MEM; the bit
\* fade test starts at window 1; relocate if the window to come covers the program.
Place(p) ==
  LET w == IF Tseq(test).pat = 11 /\ window = 0 THEN 1 ELSE window
      to == IF win_next > MaxMem THEN "end"
            ELSE IF (w = 0) = (loc[p] = "low") THEN "copy" ELSE "select"
  IN /\ Passes(p, "sched", to)
     /\ window' = IF win_next > MaxMem THEN window ELSE w
     /\ UNCHANGED <<control, win_next, segs, winx, bail, sstage, s_maxproc, mutex,
                    loc, fresh, run, aux>>

(***************************************************************************)
(* run_at() and the start of the copy.                                     *)
(***************************************************************************)
Other(l) == IF l = "low" THEN "high" ELSE "low"

\* CPU 0 copies the program; everybody waits for the copy.
Copy(p) == /\ Goto(p, "copy", "copied")
           /\ fresh' = IF p = 0 THEN Other(loc[p]) ELSE fresh
           /\ UNCHANGED <<control, loop, sync, loc, run, aux>>

\* Fault: the window is counted by a CPU that leaves the copy.
CopiedCounts(p) ==
  /\ Passes(p, "copied", "jump")
  /\ window' = 1
  /\ UNCHANGED <<control, win_next, segs, winx, bail, sstage, s_maxproc, mutex, loc,
                 fresh, run, aux>>

Copied(p) == /\ Passes(p, "copied", "jump")
             /\ UNCHANGED <<control, loop, sstage, s_maxproc, mutex, loc, fresh, run, aux>>

\* spin_lock(&barr->mutex) and the jump to the other copy, ...
Jump(p) == /\ mutex = NumCpus
           /\ mutex' = p
           /\ Goto(p, "jump", "restart")
           /\ loc' = [loc EXCEPT ![p] = Other(@)]
           /\ UNCHANGED <<control, loop, stage, sstage, s_maxproc, fresh, run, aux>>

\* Fault: the lock is not given back after a relocation.
RestartKeeps(p) ==
  /\ Goto(p, "restart", "started")
  /\ UNCHANGED <<control, loop, stage, sstage, s_maxproc, mutex, loc, fresh, run, aux>>

\* ... where test_start gives the lock back.
Restart(p) == /\ Goto(p, "restart", "started")
              /\ mutex' = NumCpus
              /\ UNCHANGED <<control, loop, stage, sstage, s_maxproc, loc, fresh, run, aux>>

Started(p) == /\ Passes(p, "started", "top")
              /\ UNCHANGED <<control, loop, sstage, s_maxproc, mutex, loc, fresh, run, aux>>
-----------------------------------------------------------------------------
(***************************************************************************)
(* The selection of CPUs.                                                  *)
(***************************************************************************)
OneCpu == cpu_mode # "all" \/ SingleCpuTest(test)

\* One CPU, cpu_sel, does the window and says so; the others do not run.
SelectOne(p) == /\ OneCpu
                /\ run' = [run EXCEPT ![p] = (p = cpu_sel)]
                /\ IF p = cpu_sel
                   THEN mstr_cpu' = p /\ run_cpus' = 1
                   ELSE UNCHANGED <<mstr_cpu, run_cpus>>

\* As many CPUs as the test asks for, the highest of them being the master.
SelectMany(p) == LET n == IF NumCpus < Tseq(test).cpus THEN NumCpus ELSE Tseq(test).cpus
                 IN /\ ~OneCpu
                    /\ run' = [run EXCEPT ![p] = p < Tseq(test).cpus]
                    /\ mstr_cpu' = n - 1
                    /\ run_cpus' = n

Select(p) == /\ SelectOne(p) \/ SelectMany(p)
             /\ Goto(p, "select", "selected")
             /\ UNCHANGED <<test, cpu_mode, cpu_sel, bitf_seq, pass_flag, params, loop,
                            sync, loc, fresh, aux>>

\* Fault: the CPUs not selected go back before the sub barrier is ready.
SelectedLeaves(p) ==
  /\ Passes(p, "selected", IF run[p] THEN "subinit" ELSE "loop")
  /\ UNCHANGED <<control, loop, sstage, s_maxproc, mutex, loc, fresh, run, aux>>

Selected(p) == /\ Passes(p, "selected", "subinit")
               /\ UNCHANGED <<control, loop, sstage, s_maxproc, mutex, loc, fresh, run, aux>>

\* The master does s_barrier_init(run_cpus).
SubInit(p) == /\ Goto(p, "subinit", "ready")
              /\ s_maxproc' = IF p = mstr_cpu THEN run_cpus ELSE s_maxproc
              /\ UNCHANGED <<control, loop, stage, sstage, mutex, loc, fresh, run, aux>>

\* Not selected CPUs go back to the scheduling barrier.
Ready(p) == /\ Passes(p, "ready", IF run[p] THEN "pick" ELSE "loop")
            /\ UNCHANGED <<control, loop, sstage, s_maxproc, mutex, loc, fresh, run, aux>>
-----------------------------------------------------------------------------
(***************************************************************************)
(* A window.                                                               *)
(***************************************************************************)
\* The master sets up the window and lists its segments.
NextWindow == IF window = 0 THEN Low ELSE IF window = 1 THEN 0 ELSE win_next

\* Fault: window 0 is not counted.
PickForgets(p) ==
  /\ Goto(p, "pick", "window")
  /\ IF p = mstr_cpu
     THEN /\ winx' = NextWindow
          /\ window' = IF window \in {0, 1} THEN window + 1 ELSE window
          /\ win_next' = IF window \in {0, 1} THEN win_next ELSE win_next + 1
          /\ segs' = IF NextWindow <= LastWin THEN 1 ELSE 0
     ELSE UNCHANGED <<winx, window, win_next, segs>>
  /\ UNCHANGED <<control, bail, sync, loc, fresh, run, aux>>

Pick(p) == /\ Goto(p, "pick", "window")
           /\ IF p = mstr_cpu
              THEN /\ winx' = NextWindow
                   /\ window' = IF window \in {0, 1} THEN window + 1 ELSE window
                   /\ win_next' = IF window = 0 THEN win_next ELSE win_next + 1
                   /\ segs' = IF NextWindow <= LastWin THEN 1 ELSE 0
              ELSE UNCHANGED <<winx, window, win_next, segs>>
           /\ UNCHANGED <<control, bail, sync, loc, fresh, run, aux>>

\* Skip a window without memory; stop at one that cannot be mapped.
Window(p) == /\ SPasses(p, "window", IF segs = 0 THEN "loop"
                                     ELSE IF winx >= MapEnd THEN "end" ELSE "keys")
             /\ UNCHANGED <<control, loop, stage, s_maxproc, mutex, loc, fresh, run, aux>>

\* do_test(): every tick the master looks at the keyboard, ...
NoKey(p) == /\ Goto(p, "keys", "tick")
            /\ UNCHANGED <<control, loop, sync, loc, fresh, run, aux>>

\* ... and the user may switch cpu_mode, which also ends the test.
SwitchMode(p) == /\ p = mstr_cpu /\ keys < machine.keys
                 /\ Goto(p, "keys", "tick")
                 /\ keys' = keys + 1
                 /\ \E m \in Modes \ {cpu_mode} : cpu_mode' = m
                 /\ bail' = 1
                 /\ UNCHANGED <<test, cpu_sel, mstr_cpu, run_cpus, bitf_seq, pass_flag,
                                params, window, win_next, segs, winx, sync, loc, fresh, run,
                                machine, tested>>

\* Past do_tick's s_barrier() the CPU tests its part of the window, or bails out.
Test(p) == /\ SPasses(p, "tick", "loop")
           /\ tested' = tested \cup {<<p, IF bail = 0 THEN winx ELSE Bailed>>}
           /\ UNCHANGED <<control, loop, stage, s_maxproc, mutex, loc, fresh, run, machine,
                          keys>>
-----------------------------------------------------------------------------
(***************************************************************************)
(* The end of a test.                                                      *)
(***************************************************************************)
\* Set up for the next set of windows; only the master goes on to the
\* housekeeping.
Reset(p) == /\ SPasses(p, "end", IF p = mstr_cpu THEN "house" ELSE "top")
            /\ win_next' = 0 /\ window' = 0 /\ bail' = 0
            /\ UNCHANGED <<control, segs, winx, stage, s_maxproc, mutex, loc, fresh, run, aux>>

NextCpu == (cpu_sel + 1) % NumCpus

\* Another step of the bit fade test.
House(p) ==
  LET fading == Tseq(test).pat = 11 /\ bitf_seq # FadeSteps
      turn == cpu_mode # "all" \/ SingleCpuTest(test)
      last == NextCpu = 0
      to == CASE fading -> "top"
              [] cpu_mode = "rrobin" -> "next"
              [] cpu_mode = "seq" -> IF last THEN "next" ELSE "pass"
              [] OTHER -> IF turn /\ ~last THEN "top" ELSE "next"
  IN /\ Goto(p, "house", to)
     /\ bitf_seq' = IF fading THEN bitf_seq + 1 ELSE 0
     /\ cpu_sel' = IF turn /\ ~fading THEN NextCpu ELSE cpu_sel
     /\ tested' = {}
     /\ UNCHANGED <<test, cpu_mode, mstr_cpu, run_cpus, pass_flag, params, loop, sync,
                    loc, fresh, run, machine, keys>>

\* next_test(), one store to test at a time: another CPU may see each value.
Unselected(t) == ~Tseq(t).sel /\ Tseq(t).cpus # 0

Advance(p) == /\ \/ Goto(p, "next", "scan")
                 \/ Goto(p, "scan", "scan") /\ Unselected(test)
                 \/ Goto(p, "rescan", "rescan") /\ Unselected(test)
              /\ test' = test + 1
              /\ UNCHANGED <<cpu_mode, cpu_sel, mstr_cpu, run_cpus, bitf_seq, pass_flag,
                             params, loop, sync, loc, fresh, run, aux>>

\* The end of the list: a pass is complete, search again from the start.
Wrap(p) == /\ Goto(p, "scan", "rescan")
           /\ Tseq(test).cpus = 0
           /\ pass_flag' = pass_flag + 1
           /\ test' = 0
           /\ UNCHANGED <<cpu_mode, cpu_sel, mstr_cpu, run_cpus, bitf_seq, params, loop,
                          sync, loc, fresh, run, aux>>

Found(p) == /\ \/ Goto(p, "scan", "pass") /\ Tseq(test).cpus # 0
               \/ Goto(p, "rescan", "pass")
            /\ ~Unselected(test)
            /\ UNCHANGED <<control, loop, sync, loc, fresh, run, aux>>

\* If this was the last test then we finished a pass.  The ltest that is reset
\* here is the global one, which nothing reads.
Pass(p) == /\ Goto(p, "pass", "top")
           /\ pass_flag' = 0
           /\ pass' = IF pass_flag = 0 THEN pass ELSE 1
           /\ bail' = 0
           /\ UNCHANGED <<test, cpu_mode, cpu_sel, mstr_cpu, run_cpus, bitf_seq, ltest,
                          c_iter, window, win_next, segs, winx, sync, loc, fresh, run, aux>>

Step(p) == \/ DecideSkip(p) \/ Skip(p) \/ Setup(p) \/ Loop(p) \/ Place(p)
           \/ Copy(p) \/ Copied(p) \/ Jump(p) \/ Restart(p) \/ Started(p)
           \/ Select(p) \/ Selected(p) \/ SubInit(p) \/ Ready(p)
           \/ Pick(p) \/ Window(p) \/ NoKey(p) \/ Test(p)
           \/ Reset(p) \/ House(p) \/ Advance(p) \/ Wrap(p) \/ Found(p) \/ Pass(p)
           \/ Arrive(p) \/ SArrive(p)

Next == Release \/ SRelease \/ \E p \in CPU : Step(p) \/ SwitchMode(p)

Spec == Init /\ [][Next]_vars

\* Every CPU executes its next instruction and the barriers let go those they
\* owe it (CallsReturn of module Barrier).
Fairness == /\ WF_vars(Release) /\ WF_vars(SRelease)
            /\ \A p \in CPU : WF_vars(Step(p))

FairSpec == Spec /\ Fairness
-----------------------------------------------------------------------------
Testing == {"keys", "tick"}

TypeOK ==
  /\ test \in 0 .. Len(TestSeq) - 1 /\ ltest \in -1 .. Len(TestSeq) - 1
  /\ cpu_mode \in {"all", "rrobin", "seq"} /\ cpu_sel \in CPU /\ mstr_cpu \in CPU
  /\ run_cpus \in 0 .. NumCpus /\ s_maxproc \in 0 .. NumCpus
  /\ window \in 0 .. 2 /\ win_next \in 0 .. LastWin + 2 /\ winx \in Low .. LastWin + 1
  /\ segs \in {0, 1} /\ bail \in {0, 1} /\ pass_flag \in {0, 1}
  /\ bitf_seq \in 0 .. FadeSteps /\ machine \in Machines
  /\ c_iter \in {"reduced", "full"} /\ pass \in {0, 1}
  /\ mutex \in CPU \cup {NumCpus}
  /\ loc \in [CPU -> {"low", "high"}] /\ fresh \in {"low", "high"}
  /\ run \in [CPU -> BOOLEAN]
  /\ stage \in [CPU -> {"run", "wait", "go"}] /\ sstage \in [CPU -> {"run", "wait", "go"}]
  /\ pc \in [CPU -> Sites \cup SSites \cup Testing \cup
                    {"top", "skip", "loop", "copy", "jump", "restart", "select",
                     "subinit", "pick", "house", "next", "scan", "rescan", "pass"}]

\* One barrier structure serves all the calls of barrier() in main.c and arch.c:
\* when it lets the CPUs go they have all come to the same call.
SameSite == (\A p \in CPU : stage[p] = "wait") => \A p, q \in CPU : pc[p] = pc[q]

\* A CPU never tests the memory it executes from: the low window is tested from
\* high memory and every other window from low memory (main.c:194-208).
NeverTestsItself ==
  \A p \in CPU : pc[p] \in Testing => (winx = Low <=> loc[p] = "high")

\* The CPUs that test a window are as many as s_barrier() waits for, and the
\* master is one of them (main.c:213-267).
SelectionAgrees ==
  \A p \in CPU : pc[p] \in Testing \cup {"pick", "window"} =>
     /\ run[p] /\ run[mstr_cpu]
     /\ Cardinality({q \in CPU : run[q]}) = run_cpus
     /\ s_maxproc = run_cpus

\* Nobody is inside of s_barrier() when the master initializes it again
\* (main.c:256-262).
SubBarrierIdle ==
  pc[mstr_cpu] = "subinit" => \A q \in CPU : sstage[q] = "run"

\* The parameters in force while a test runs are those of that test, although
\* every CPU does test_setup() and next_test() leaves other values of test in
\* between (main.c:413-448).
SetupMatches == \A p \in CPU : pc[p] \in Testing => ltest = test

\* The CPUs agree on where they are, on who takes part, and on what is in force.
CpusAgree == TypeOK /\ SameSite /\ SelectionAgrees /\ SubBarrierIdle /\ SetupMatches

\* The globals move with the program: no CPU changes one in the copy it is about
\* to leave once CPU 0 has taken the copy (main.c:73-91).
StaleCopyUntouched ==
  [][\A p \in CPU : pc'[p] # pc[p] /\ loc[p] # fresh => UNCHANGED <<control, loop>>]_vars

\* The windows a test covers: all that hold memory and can be mapped, without the
\* low one for the bit fade test.
Windows == {w \in Low .. LastWin : w < MapEnd /\ w <= MaxMem /\ (Tseq(test).pat = 11 => w # Low)}

\* At the end of a test that nobody cut short, every CPU selected for it has
\* tested every window.
Coverage ==
  \A p \in CPU : pc[p] = "house" /\ (\A t \in tested : t[2] # Bailed) =>
     tested = {q \in CPU : run[q]} \X Windows

\* No CPU tests a window twice in one run of a test for several CPUs.  One that tests
\* alone may: another, which waits for nobody, sets the windows back at their end.
WindowOnce ==
  [][\A p \in CPU : pc[p] = "tick" /\ pc'[p] = "loop" /\ bail = 0 /\ run_cpus # 1
        => <<p, winx>> \notin tested]_vars

\* A CPU that was not selected comes late to the end of the windows and sets them
\* back under the CPU that tests alone (main.c:176, 332-334).
SetsBack == \E p \in CPU : /\ run_cpus = 1 /\ p # mstr_cpu
                           /\ pc[p] = "end" /\ pc'[p] = "top" /\ win_next > 0
                           /\ pc[mstr_cpu] \in {"window", "keys", "tick", "loop"}

\* Tests go on for ever, pass after pass, unless the windows are set back again and
\* again: one that is waited for at a barrier or at the mutex always comes, on every
\* path out of the window loop, the normal end and that at map_page().
PassCompletes == \/ []<>(\E p \in CPU : pc[p] = "pass" /\ pass_flag = 1)
                 \/ []<><<SetsBack>>_vars

\* Tests go on for ever, whoever comes late.
PassAlwaysCompletes == []<>(\E p \in CPU : pc[p] = "pass" /\ pass_flag = 1)

\* "Not selected CPUs go back to the scheduling barrier" (main.c:264).
NotSelectedGoBack ==
  [][\A p \in CPU : pc[p] = "loop" /\ pc'[p] # "loop" /\ ~run[p]
        => pc'[p] = "sched"]_vars

\* "Skip single CPU tests if we are using only one CPU" (main.c:166): only a
\* single CPU test is skipped.
SkipsOnlySingle ==
  [][\A p \in CPU : pc[p] = "skip" /\ pc'[p] = "top" => SingleCpuTest(test)]_vars

\* "Reduce iterations for first pass" (main.c:430): the tests of the first pass do
\* fewer iterations, those of the later passes do all of them.
ReducedOnFirstPass ==
  \A p \in CPU : pc[p] \in Testing => (c_iter = "reduced" <=> pass = 0)
=============================================================================
