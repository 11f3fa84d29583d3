---------------------------- MODULE Sched_proof ----------------------------
(***************************************************************************)
(* For every number of CPUs, memory and list of tests like the program's,  *)
(* for all CPUs or for one at a time: the CPUs agree at every barrier, the *)
(* test covers every window, and never the memory they execute from.       *)
(***************************************************************************)
EXTENDS Sched, FiniteSetTheorems, TLAPS

USE DEF MapEnd

\* The list of the program has tests for all CPUs and tests for one CPU at a time:
\* each in turn, or CPU 0.  The latter need the memory to end below MAX_MEM.
All(t) == Tseq(t).cpus >= NumCpus
Alone(t) == Tseq(t).cpus \in {-1, 1}
Runs(t) == All(t) \/ (Alone(t) /\ LastWin < MaxMem)

\* The tests that are run are of these two kinds, some test is selected, and the
\* user does not change cpu_mode.  The first test runs, selected or not.
CodeList == /\ Modes \subseteq {"all"}
            /\ \A t \in 0 .. Len(TestSeq) - 2 : t = 0 \/ Tseq(t).sel => Runs(t)
            /\ \E t \in 0 .. Len(TestSeq) - 2 : Tseq(t).sel

\* The highest CPU is the master of the windows that all test.
Master == NumCpus - 1

\* Who is to test, with whom as the master.
Chief == IF All(test) THEN Master ELSE IF SingleCpuTest(test) THEN cpu_sel ELSE 0
Team == IF All(test) THEN CPU ELSE {Chief}
Size == IF All(test) THEN NumCpus ELSE 1

(***************************************************************************)
(* A phase is what the CPUs do from one barrier to the next, and has the   *)
(* name of the one they come from: some are still leaving it, some are     *)
(* between the two, some at the next one.                                  *)
(***************************************************************************)
Gone(p) == stage[p] = "go" \/ sstage[p] = "go"

Where(from, between, ahead) ==
  \A p \in CPU : \/ pc[p] = from /\ Gone(p)
                 \/ pc[p] \in between
                 \/ pc[p] \in ahead /\ ~Gone(p)

\* A CPU that waits is at a barrier of that kind.
AtBarrier == \A p \in CPU : /\ stage[p] # "run" => pc[p] \in Sites
                            /\ sstage[p] # "run" => pc[p] \in SSites

(***************************************************************************)
(* What holds of the shared variables in each of them.                     *)
(***************************************************************************)
Quiet == /\ bail = 0 /\ cpu_mode = "all"
         /\ window # 2 => win_next = 0

TestRuns == test \in 0 .. Len(TestSeq) - 2 /\ Runs(test)
InForce == TestRuns /\ ltest = test /\ pass_flag = 0

\* The bit fade test has left the low window out.
Settled == Tseq(test).pat = 11 => window # 0

\* All CPUs have been chosen, or those of the test, or one.
AllChosen == mstr_cpu = Master /\ run_cpus = NumCpus /\ \A p \in CPU : run[p]
Chosen == AllChosen /\ s_maxproc = NumCpus
ChosenLater == win_next > 0 /\ All(test) => Chosen
TeamChosen == mstr_cpu = Chief /\ run_cpus = Size /\ \A p \in CPU : run[p] <=> p \in Team
Lone == run_cpus = 1 /\ s_maxproc = 1 /\ \A p \in CPU : run[p] <=> p = mstr_cpu
NoWait == \A p \in CPU : sstage[p] # "wait"

Settle(l) == \A p \in CPU : loc[p] = l
WindowLeft == win_next <= LastWin + 1 /\ win_next <= MaxMem

\* The windows below one have been tested, by all CPUs; by one CPU that tests alone
\* these, and perhaps others, since the windows may have been started again.
Below(w) == {x \in Windows : x < w}
Cursor == IF window = 0 THEN Low ELSE win_next
Done == IF All(test) THEN tested = CPU \X Below(Cursor)
        ELSE tested \subseteq {Chief} \X Windows /\ {Chief} \X Below(Cursor) \subseteq tested

InStarted == /\ Where("started", {"top", "loop"}, {"sched"})
             /\ TestRuns /\ pass_flag = 0 /\ ChosenLater /\ Settle(fresh) /\ Done
             /\ win_next <= LastWin + 1
             /\ \A p \in CPU : pc[p] \in {"loop", "sched"} => ltest = test

InSched == /\ Where("sched", {"copy", "select"}, {"copied", "selected", "end"})
           /\ InForce /\ ChosenLater /\ Done /\ win_next <= LastWin + 1
           /\ Settle(IF pc[0] = "copied" THEN Other(fresh) ELSE fresh)
           /\ pc[Chief] = "selected" => mstr_cpu = Chief /\ run_cpus = Size
           /\ \A p \in CPU :
                /\ pc[p] \in {"copy", "copied", "select", "selected"} =>
                     Settled /\ win_next <= MaxMem
                /\ pc[p] \in {"copy", "copied"} => (window = 0 <=> loc[p] = "low")
                /\ pc[p] \in {"select", "selected"} => (window = 0 <=> loc[p] = "high")
                /\ pc[p] = "selected" => (run[p] <=> p \in Team)
                /\ pc[p] = "end" => win_next > MaxMem

InCopied == /\ Where("copied", {"jump", "restart"}, {"started"})
            /\ InForce /\ ChosenLater /\ Done /\ Settled /\ WindowLeft
            /\ \A p \in CPU : loc[p] = IF pc[p] \in {"restart", "started"} THEN fresh
                                                                         ELSE Other(fresh)

\* The window picked is the next one to be tested.
Before == tested = CPU \X Below(winx)

Ours == InForce /\ TeamChosen /\ Done /\ Settled /\ WindowLeft /\ Settle(fresh)
        /\ (window = 0 <=> fresh = "high")

InSelected == /\ Where("selected", {"subinit"}, {"ready"})
              /\ Ours
              /\ (win_next > 0 /\ All(test)) \/ pc[Chief] = "ready" => s_maxproc = Size

\* A window that is under test, of those that the CPUs have agreed on.
Fits == /\ InForce /\ Settle(fresh) /\ winx <= LastWin + 1
        /\ winx = Low => Tseq(test).pat # 11
        /\ winx = Low <=> fresh = "high"
        /\ segs = IF winx <= LastWin THEN 1 ELSE 0

Picked == /\ Fits /\ All(test) /\ Chosen
          /\ window # 0 /\ win_next = winx + 1 /\ winx <= MaxMem

InReady == /\ Where("ready", {"pick"}, {"window"})
           /\ All(test)
           /\ pc[Master] # "window" => Ours /\ Chosen
           /\ pc[Master] = "window" => Picked /\ Before

InWindow == /\ Where("window", {"loop", "keys"}, {"tick", "end"})
            /\ Picked /\ Before
            /\ \A p \in CPU : /\ pc[p] \in {"keys", "tick"} => segs = 1 /\ winx < MapEnd
                              /\ pc[p] = "loop" => segs = 0
                              /\ pc[p] = "end" => segs = 0 \/ winx >= MapEnd

InTick == /\ Where("tick", {"loop"}, {"sched", "end"})
          /\ Picked /\ segs = 1 /\ winx < MapEnd
          /\ tested = (CPU \X Below(winx)) \cup ({p \in CPU : pc[p] # "tick"} \X {winx})
          /\ \A p \in CPU : /\ pc[p] = "sched" => win_next <= LastWin + 1
                            /\ pc[p] = "end" => win_next > LastWin + 1

(***************************************************************************)
(* One CPU tests: it goes from the barrier before the window to the next   *)
(* scheduling barrier by itself, and the others do not wait for it to read *)
(* where the windows are.  One that finds the last window picked leaves the*)
(* loop, sets the windows back, and comes to the scheduling barrier too.   *)
(***************************************************************************)
InSoloReady == /\ Where("ready", {"pick", "loop"}, {"sched"})
               /\ ~All(test) /\ Ours /\ Lone /\ NoWait
               /\ pc[mstr_cpu] \in {"ready", "pick"}
               /\ \A p \in CPU : pc[p] = "pick" => p = mstr_cpu

Apart == /\ ~All(test) /\ Fits /\ Lone /\ mstr_cpu = Chief
         /\ IF window = 0 THEN segs = 0 ELSE win_next = winx + 1
         /\ tested \subseteq {mstr_cpu} \X Windows
         /\ {mstr_cpu} \X Below(winx) \subseteq tested

InSoloWindow ==
  /\ Where("ready", {"window", "keys", "tick", "loop", "end", "top"}, {"sched"})
  /\ Apart /\ NoWait
  /\ pc[mstr_cpu] \notin {"ready", "top"}
  /\ pc[mstr_cpu] \in {"keys", "tick"} => segs = 1 /\ winx < MapEnd
  /\ pc[mstr_cpu] \in {"loop", "sched"} => {mstr_cpu} \X Below(winx + 1) \subseteq tested
  /\ pc[mstr_cpu] = "end" => {mstr_cpu} \X Windows \subseteq tested
  /\ pc[mstr_cpu] = "sched" => win_next <= LastWin + 1
  /\ \A p \in CPU : p # mstr_cpu => /\ pc[p] \notin {"window", "keys", "tick"}
                                    /\ pc[p] \in {"end", "top"} => segs = 0

\* The master ends the test; when it has tested alone the others may still be on
\* their way from the barrier before the window.
EndLabels == {"top", "loop", "house", "next", "scan", "rescan", "pass"}
EndFrom == IF run_cpus = 1 THEN "ready" ELSE "end"
EndBetween == IF run_cpus = 1 THEN EndLabels \cup {"end"} ELSE EndLabels

InEnd == /\ Where(EndFrom, EndBetween, {"sched"})
         /\ IF run_cpus = 1 THEN Lone /\ NoWait /\ pc[mstr_cpu] \notin {"ready", "end"}
                            ELSE Chosen
         /\ Settle(fresh)
         /\ \A p \in CPU : pc[p] \notin {"ready", "end"} => win_next = 0 /\ window = 0
         /\ \A p \in CPU : pc[p] \notin {"ready", "end", "top", "loop", "sched"} => p = mstr_cpu
         /\ tested = IF pc[mstr_cpu] \in {"end", "house"} THEN {q \in CPU : run[q]} \X Windows ELSE {}
         /\ pc[mstr_cpu] \notin {"scan", "rescan"} => TestRuns
         /\ pc[mstr_cpu] = "rescan" => \E t \in test .. Len(TestSeq) - 2 : Tseq(t).sel
         /\ pc[mstr_cpu] \notin {"rescan", "pass"} => pass_flag = 0
         /\ pc[mstr_cpu] \in {"loop", "sched"} => ltest = test

InPhase == \/ InStarted \/ InSched \/ InCopied \/ InSelected
           \/ InReady \/ InWindow \/ InTick
           \/ InSoloReady \/ InSoloWindow \/ InEnd

IInv == TypeOK /\ AtBarrier /\ Quiet /\ InPhase
-----------------------------------------------------------------------------
(***************************************************************************)
(* Where the CPUs are.                                                     *)
(***************************************************************************)
Labels == {"top", "skip", "loop", "copy", "jump", "restart", "select", "subinit", "pick",
           "house", "next", "scan", "rescan", "pass"}

LEMMA Shapes ==
  ASSUME TypeOK
  PROVE  /\ DOMAIN pc = CPU /\ DOMAIN stage = CPU /\ DOMAIN sstage = CPU
         /\ DOMAIN loc = CPU /\ DOMAIN run = CPU
         /\ Master \in CPU /\ 0 \in CPU /\ mstr_cpu \in CPU
         /\ \A p \in CPU : /\ pc[p] \in Sites \cup SSites \cup Testing \cup Labels
                           /\ stage[p] \in {"run", "wait", "go"}
                           /\ sstage[p] \in {"run", "wait", "go"}
<1>1. Master \in CPU /\ 0 \in CPU
  BY NumAssumption DEF Master, CPU
<1> QED
  BY <1>1 DEF TypeOK, Labels

LEMMA Elements ==
  ASSUME NEW S, NEW s \in Seq(S), NEW i \in 1 .. Len(s)
  PROVE  s[i] \in S
OBVIOUS

LEMMA Entries ==
  ASSUME NEW t \in 0 .. Len(TestSeq) - 1
  PROVE  Tseq(t) \in [sel : BOOLEAN, cpus : Int, pat : Nat]
<1>1. Len(TestSeq) \in Nat /\ t + 1 \in 1 .. Len(TestSeq)
  BY ListAssumption
<1> QED
  BY <1>1, ListAssumption, Elements DEF Tseq

\* The CPUs of a test that runs are all or one.
LEMMA Kinds ==
  ASSUME TypeOK, TestRuns
  PROVE  /\ Tseq(test).cpus \in Int /\ Chief \in CPU /\ Chief \in Team
         /\ Size \in 1 .. NumCpus
         /\ All(test) => /\ Chief = Master /\ Team = CPU /\ Size = NumCpus
                         /\ ~SingleCpuTest(test)
         /\ ~All(test) => /\ Team = {Chief} /\ Size = 1 /\ LastWin < MaxMem
                          /\ Tseq(test).cpus \in {-1, 1}
                          /\ ~SingleCpuTest(test) => Chief = 0
<1>1. Tseq(test).cpus \in Int
  BY Entries DEF TypeOK
<1>2. CASE All(test)
  BY <1>1, <1>2, NumAssumption, Shapes DEF All, Chief, Team, Size, SingleCpuTest
<1>3. CASE ~All(test)
  BY <1>1, <1>3, NumAssumption, Shapes
     DEF TypeOK, TestRuns, Runs, Alone, Chief, Team, Size, SingleCpuTest
<1> QED
  BY <1>1, <1>2, <1>3

\* With a test for all CPUs the team is everybody.
LEMMA TeamIsAll ==
  ASSUME TypeOK, TestRuns, All(test)
  PROVE  /\ TeamChosen <=> AllChosen
         /\ Done <=> tested = CPU \X Below(Cursor)
BY Kinds DEF TeamChosen, AllChosen, Done

\* The label of a CPU says which phase it is in.
LEMMA PhaseOf ==
  ASSUME IInv, NEW p \in CPU
  PROVE  /\ pc[p] # "skip"
         /\ pc[p] = "top" => InStarted \/ InSoloWindow \/ InEnd
         /\ pc[p] = "loop" => \/ InStarted \/ InWindow \/ InTick
                              \/ InSoloReady \/ InSoloWindow \/ InEnd
         /\ pc[p] \in {"copy", "select"} => InSched
         /\ pc[p] \in {"jump", "restart"} => InCopied
         /\ pc[p] = "subinit" => InSelected
         /\ pc[p] = "pick" => InReady \/ InSoloReady
         /\ pc[p] = "keys" => InWindow \/ InSoloWindow
         /\ pc[p] \in EndLabels \ {"top", "loop"} => InEnd
<1>1. InPhase
  BY DEF IInv
<1>2. CASE InStarted
  BY <1>2 DEF InStarted, Where, EndLabels
<1>3. CASE InSched
  BY <1>3 DEF InSched, Where, EndLabels
<1>4. CASE InCopied
  BY <1>4 DEF InCopied, Where, EndLabels
<1>5. CASE InSelected
  BY <1>5 DEF InSelected, Where, EndLabels
<1>6. CASE InReady
  BY <1>6 DEF InReady, Where, EndLabels
<1>7. CASE InWindow
  BY <1>7 DEF InWindow, Where, EndLabels
<1>8. CASE InTick
  BY <1>8 DEF InTick, Where, EndLabels
<1>9. CASE InSoloReady
  BY <1>9 DEF InSoloReady, Where, EndLabels
<1>10. CASE InSoloWindow
  BY <1>10 DEF InSoloWindow, Where, EndLabels
<1>11. CASE InEnd
  BY <1>11 DEF InEnd, Where, EndLabels, EndFrom, EndBetween
<1> QED
  BY <1>1, <1>2, <1>3, <1>4, <1>5, <1>6, <1>7, <1>8, <1>9, <1>10, <1>11 DEF InPhase

\* So does the barrier that a CPU is leaving.
LEMMA Leaving ==
  ASSUME IInv, NEW p \in CPU, Gone(p)
  PROVE  /\ pc[p] = "started" => InStarted
         /\ pc[p] = "sched" => InSched
         /\ pc[p] = "copied" => InCopied
         /\ pc[p] = "selected" => InSelected
         /\ pc[p] = "ready" => InReady \/ InSoloReady \/ InSoloWindow \/ InEnd
         /\ pc[p] = "window" => InWindow \/ InSoloWindow
         /\ pc[p] = "tick" => InTick \/ InSoloWindow
         /\ pc[p] = "end" => InSoloWindow \/ InEnd
<1>1. InPhase
  BY DEF IInv
<1>2. CASE InStarted
  BY <1>2 DEF InStarted, Where
<1>3. CASE InSched
  BY <1>3 DEF InSched, Where
<1>4. CASE InCopied
  BY <1>4 DEF InCopied, Where
<1>5. CASE InSelected
  BY <1>5 DEF InSelected, Where
<1>6. CASE InReady
  BY <1>6 DEF InReady, Where
<1>7. CASE InWindow
  BY <1>7 DEF InWindow, Where
<1>8. CASE InTick
  BY <1>8 DEF InTick, Where
<1>9. CASE InSoloReady
  BY <1>9 DEF InSoloReady, Where
<1>10. CASE InSoloWindow
  BY <1>10 DEF InSoloWindow, Where
<1>11. CASE InEnd
  BY <1>11 DEF InEnd, Where, EndLabels, EndFrom, EndBetween
<1> QED
  BY <1>1, <1>2, <1>3, <1>4, <1>5, <1>6, <1>7, <1>8, <1>9, <1>10, <1>11 DEF InPhase

\* A CPU goes from one label to the next, and is not let go from there yet.
Moves(p, to) == /\ pc' = [pc EXCEPT ![p] = to]
                /\ \/ UNCHANGED <<stage, sstage>> /\ pc[p] \notin Sites \cup SSites
                   \/ B!Leave(p) /\ UNCHANGED sstage /\ pc[p] \in Sites
                   \/ sstage[p] = "go" /\ sstage' = [sstage EXCEPT ![p] = "run"]
                      /\ UNCHANGED stage

LEMMA Moving ==
  ASSUME TypeOK, AtBarrier, NEW p \in CPU, NEW to, Moves(p, to)
  PROVE  /\ pc'[p] = to /\ ~Gone(p)' /\ AtBarrier' /\ (NoWait => NoWait')
         /\ \A q \in CPU : q # p => pc'[q] = pc[q] /\ (Gone(q)' <=> Gone(q))
         /\ stage' \in [CPU -> {"run", "wait", "go"}]
         /\ sstage' \in [CPU -> {"run", "wait", "go"}]
<1>1. /\ pc'[p] = to /\ \A q \in CPU : q # p => pc'[q] = pc[q]
      /\ stage'[p] = "run" /\ sstage'[p] = "run"
      /\ \A q \in CPU : q # p => stage'[q] = stage[q] /\ sstage'[q] = sstage[q]
  BY Shapes DEF Moves, B!Leave, AtBarrier, Sites, SSites
<1>2. /\ stage' \in [CPU -> {"run", "wait", "go"}]
      /\ sstage' \in [CPU -> {"run", "wait", "go"}]
  BY DEF TypeOK, Moves, B!Leave
<1> QED
  BY <1>1, <1>2 DEF Gone, AtBarrier, NoWait

LEMMA Stays ==
  ASSUME TypeOK, AtBarrier, NEW p \in CPU, NEW to, Moves(p, to),
         NEW from, NEW between, NEW ahead, Where(from, between, ahead),
         to \in between \cup ahead
  PROVE  Where(from, between, ahead)'
BY Moving DEF Where

AllLabels == Sites \cup SSites \cup Testing \cup Labels

LEMMA Moved ==
  ASSUME IInv, NEW p \in CPU, NEW to \in AllLabels, Moves(p, to)
  PROVE  /\ pc' \in [CPU -> AllLabels] /\ AtBarrier' /\ (NoWait => NoWait')
         /\ stage' \in [CPU -> {"run", "wait", "go"}]
         /\ sstage' \in [CPU -> {"run", "wait", "go"}]
         /\ pc'[p] = to /\ ~Gone(p)'
         /\ \A q \in CPU : q # p => pc'[q] = pc[q]
         /\ \A from, between, ahead :
              Where(from, between, ahead) /\ to \in between \cup ahead
                => Where(from, between, ahead)'
<1>1. TypeOK /\ AtBarrier
  BY DEF IInv
<1>2. pc' \in [CPU -> AllLabels]
  BY <1>1 DEF TypeOK, AllLabels, Labels, Moves
<1> QED
  BY <1>1, <1>2, Moving, Stays

\* The data of a phase, unless a step changes them.
Data == <<control, loop, s_maxproc, mutex, loc, fresh, run, aux>>

LEMMA SameWindows ==
  ASSUME UNCHANGED Data
  PROVE  /\ Windows' = Windows /\ Cursor' = Cursor
         /\ \A w : Below(w)' = Below(w)
         /\ (All(test))' = All(test) /\ Chief' = Chief /\ Team' = Team /\ Size' = Size
         /\ EndFrom' = EndFrom /\ EndBetween' = EndBetween
         /\ UNCHANGED <<loc, fresh, run, test, ltest, pass_flag, win_next, window, segs, winx,
                        tested, mstr_cpu, run_cpus, s_maxproc, machine>>
BY DEF Data, control, loop, params, aux, Windows, Cursor, Below, Tseq, All, Chief, Team, Size,
   SingleCpuTest, EndFrom, EndBetween

LEMMA SameData ==
  ASSUME UNCHANGED Data
  PROVE  /\ Quiet => Quiet'
         /\ TestRuns => TestRuns'
         /\ InForce => InForce'
         /\ Chosen => Chosen'
         /\ ChosenLater => ChosenLater'
         /\ Settle(fresh) => Settle(fresh)'
         /\ Done => Done'
         /\ Before => Before'
         /\ Settled => Settled'
         /\ WindowLeft => WindowLeft'
         /\ Ours => Ours'
         /\ Picked => Picked'
         /\ Lone => Lone'
         /\ Apart => Apart'
         /\ UNCHANGED machine
<1>1. /\ test' = test /\ cpu_mode' = cpu_mode /\ cpu_sel' = cpu_sel /\ window' = window
      /\ win_next' = win_next /\ segs' = segs /\ winx' = winx /\ mstr_cpu' = mstr_cpu
      /\ run_cpus' = run_cpus /\ bail' = bail /\ pass_flag' = pass_flag /\ ltest' = ltest
      /\ loc' = loc /\ fresh' = fresh /\ run' = run /\ s_maxproc' = s_maxproc
      /\ tested' = tested /\ machine' = machine
  BY DEF Data, control, loop, params, aux
<1>2. /\ Quiet => Quiet'
      /\ TestRuns <=> TestRuns'
      /\ InForce <=> InForce'
      /\ AllChosen <=> AllChosen'
      /\ Chosen <=> Chosen'
      /\ Lone <=> Lone'
      /\ Settle(fresh) <=> Settle(fresh)'
      /\ Settled <=> Settled'
      /\ WindowLeft <=> WindowLeft'
  BY <1>1 DEF Quiet, TestRuns, Runs, All, Alone, Tseq, InForce, AllChosen, Chosen, Lone, Settle,
     Settled, WindowLeft
<1>3. Done <=> Done'
  BY <1>1, SameWindows DEF Done
<1>4. Before <=> Before'
  BY <1>1, SameWindows DEF Before
<1>5. ChosenLater <=> ChosenLater'
  BY <1>1, <1>2, SameWindows DEF ChosenLater
<1>6. TeamChosen <=> TeamChosen'
  BY <1>1, SameWindows DEF TeamChosen
<1>7. Ours <=> Ours'
  BY <1>1, <1>2, <1>3, <1>6 DEF Ours
<1>8. Fits <=> Fits'
  BY <1>1, <1>2 DEF Fits, Tseq
<1>9. Picked <=> Picked'
  BY <1>1, <1>2, <1>8, SameWindows DEF Picked
<1>10. Apart <=> Apart'
  BY <1>1, <1>2, <1>8, SameWindows DEF Apart
<1> QED
  BY <1>1, <1>2, <1>3, <1>4, <1>5, <1>7, <1>9, <1>10

LEMMA OnlyMoves ==
  ASSUME IInv, NEW p \in CPU, NEW to \in AllLabels, Moves(p, to), UNCHANGED Data
  PROVE  TypeOK' /\ AtBarrier' /\ Quiet'
<1>1. TypeOK /\ Quiet
  BY DEF IInv
<1>2. TypeOK'
  BY <1>1, Moved DEF TypeOK, Data, control, loop, params, aux, AllLabels, Labels
<1> QED
  BY <1>1, <1>2, Moved, SameData
-----------------------------------------------------------------------------
(***************************************************************************)
(* The end of a test, and one CPU that tests.                              *)
(***************************************************************************)
\* At the end of a test the master goes on alone, with nothing tested yet of what
\* comes next.
LEMMA EndStep ==
  ASSUME IInv, InEnd, NEW p \in CPU, NEW to \in EndLabels \cup {"sched"}, Moves(p, to),
         UNCHANGED <<mstr_cpu, run_cpus, run, s_maxproc, loc, fresh, machine>>,
         win_next' = 0, window' = 0,
         p # mstr_cpu => /\ to \in {"top", "loop", "sched"}
                         /\ UNCHANGED <<test, pass_flag, tested>>
                         /\ ltest' \in {ltest, test},
         p = mstr_cpu => /\ tested' = IF to = "house" THEN {q \in CPU : run[q]} \X Windows' ELSE {}
                         /\ to \notin {"scan", "rescan"} => TestRuns'
                         /\ to = "rescan" => \E t \in test' .. Len(TestSeq) - 2 : Tseq(t).sel
                         /\ to \notin {"rescan", "pass"} => pass_flag' = 0
                         /\ to \in {"loop", "sched"} => ltest' = test'
  PROVE  InEnd'
<1>1. to \in AllLabels /\ mstr_cpu \in CPU
  BY Shapes DEF IInv, EndLabels, AllLabels, Labels, Sites
<1>2. pc'[p] = to /\ \A q \in CPU : q # p => pc'[q] = pc[q]
  BY <1>1, Moved
<1>3. Where(EndFrom, EndBetween, {"sched"})'
  <2>1. to \in EndBetween \cup {"sched"} /\ EndFrom' = EndFrom /\ EndBetween' = EndBetween
    BY DEF EndBetween, EndFrom
  <2>2. Where(EndFrom, EndBetween, {"sched"})
    BY DEF InEnd
  <2> HIDE DEF EndFrom, EndBetween
  <2>3. \A from, between, ahead :
          Where(from, between, ahead) /\ to \in between \cup ahead => Where(from, between, ahead)'
    BY <1>1, Moved
  <2>4. \A q \in CPU : \/ pc'[q] = EndFrom /\ Gone(q)'
                       \/ pc'[q] \in EndBetween
                       \/ pc'[q] \in {"sched"} /\ ~Gone(q)'
    BY <1>1, <2>1, <2>2, <1>2, Moving DEF Where, IInv
  <2> QED
    BY <2>1, <2>4 DEF Where
<1>4. IF run_cpus' = 1 THEN Lone' /\ NoWait' /\ pc'[mstr_cpu'] \notin {"ready", "end"} ELSE Chosen'
  <2>1. CASE run_cpus = 1
    BY <1>1, <1>2, <2>1, Moved DEF InEnd, Lone, EndLabels
  <2>2. CASE run_cpus # 1
    BY <2>2 DEF InEnd, Chosen, AllChosen
  <2> QED
    BY <2>1, <2>2
<1>5. Settle(fresh)'
  BY DEF InEnd, Settle
<1>6. \A q \in CPU : pc'[q] \notin {"ready", "end", "top", "loop", "sched"} => q = mstr_cpu'
  BY <1>2 DEF InEnd
<1>7. CASE p # mstr_cpu
  <2>1. pc'[mstr_cpu'] = pc[mstr_cpu]
    BY <1>1, <1>2, <1>7
  <2>2. Windows' = Windows /\ TestRuns' = TestRuns
    BY <1>7 DEF Windows, Tseq, TestRuns, Runs, All, Alone
  <2> QED
    BY <1>3, <1>4, <1>5, <1>6, <1>7, <2>1, <2>2 DEF InEnd
<1>8. CASE p = mstr_cpu
  <2>1. pc'[mstr_cpu'] = to /\ to # "end"
    BY <1>2, <1>8 DEF EndLabels
  <2> QED
    BY <1>3, <1>4, <1>5, <1>6, <1>8, <2>1 DEF InEnd
<1> QED
  BY <1>7, <1>8

\* Where the windows are once one of the CPUs is past the end.
LEMMA EndWindows ==
  ASSUME IInv, InEnd
  PROVE  /\ \A p \in CPU : pc[p] \notin {"ready", "end"} => win_next = 0 /\ window = 0
         /\ run_cpus = 1 => win_next = 0 /\ window = 0
BY Shapes DEF IInv, InEnd

\* While one CPU tests the others go on to the scheduling barrier, by the end of the
\* loop or not, ...
LEMMA SoloOther ==
  ASSUME IInv, InSoloWindow, NEW p \in CPU, p # mstr_cpu,
         NEW to \in {"loop", "end", "top", "sched"}, Moves(p, to),
         to \in {"end", "top"} => segs = 0,
         UNCHANGED <<test, cpu_sel, mstr_cpu, run_cpus, run, s_maxproc, loc, fresh, segs, winx,
                     pass_flag, machine, tested>>,
         ltest' \in {ltest, test},
         UNCHANGED <<window, win_next>> \/ (segs = 0 /\ window' = 0 /\ win_next' = 0)
  PROVE  InSoloWindow'
<1>1. to \in AllLabels /\ mstr_cpu \in CPU
  BY Shapes DEF IInv, AllLabels, Labels, Sites, SSites
<1>2. pc'[p] = to /\ NoWait' /\ \A q \in CPU : q # p => pc'[q] = pc[q]
  BY <1>1, Moved DEF InSoloWindow
<1>3. Where("ready", {"window", "keys", "tick", "loop", "end", "top"}, {"sched"})'
  BY <1>1, Moved DEF InSoloWindow
<1>4. Windows' = Windows /\ \A w : Below(w)' = Below(w)
  BY DEF Windows, Below, Tseq
<1>5. Apart'
  <2>1. (All(test))' = All(test) /\ Chief' = Chief
    BY DEF All, Chief, Tseq, SingleCpuTest
  <2>2. Fits'
    BY DEF InSoloWindow, Apart, Fits, InForce, TestRuns, Runs, All, Alone, Settle, Tseq
  <2>3. Lone'
    BY DEF InSoloWindow, Apart, Lone
  <2> QED
    BY <1>4, <2>1, <2>2, <2>3 DEF InSoloWindow, Apart
<1>6. pc'[mstr_cpu'] = pc[mstr_cpu]
  BY <1>1, <1>2
<1>7. \A q \in CPU : q # mstr_cpu' => /\ pc'[q] \notin {"window", "keys", "tick"}
                                      /\ pc'[q] \in {"end", "top"} => segs' = 0
  BY <1>2 DEF InSoloWindow
<1>8. pc[mstr_cpu] = "sched" => win_next' <= LastWin + 1
  BY BoundAssumption DEF InSoloWindow
<1> QED
  BY <1>2, <1>3, <1>4, <1>5, <1>6, <1>7, <1>8 DEF InSoloWindow

\* ... and it goes on with the window it has picked.
LEMMA SoloMaster ==
  ASSUME IInv, InSoloWindow, NEW to \in {"keys", "tick", "loop", "end", "sched"},
         Moves(mstr_cpu, to),
         UNCHANGED <<control, loop, s_maxproc, loc, fresh, run, machine>>,
         tested' \subseteq {mstr_cpu} \X Windows, tested \subseteq tested',
         to \in {"keys", "tick"} => segs = 1 /\ winx < MapEnd,
         to \in {"loop", "sched"} => {mstr_cpu} \X Below(winx + 1) \subseteq tested',
         to = "end" => {mstr_cpu} \X Windows \subseteq tested',
         to = "sched" => win_next <= LastWin + 1
  PROVE  InSoloWindow'
<1>1. to \in AllLabels /\ mstr_cpu \in CPU
  BY Shapes DEF IInv, AllLabels, Labels, Sites, SSites, Testing
<1>2. pc'[mstr_cpu] = to /\ NoWait' /\ \A q \in CPU : q # mstr_cpu => pc'[q] = pc[q]
  BY <1>1, Moved DEF InSoloWindow
<1>3. Where("ready", {"window", "keys", "tick", "loop", "end", "top"}, {"sched"})'
  BY <1>1, Moved DEF InSoloWindow
<1>4. UNCHANGED <<test, ltest, pass_flag, cpu_sel, mstr_cpu, run_cpus, segs, winx, window,
                  win_next, machine>>
  BY DEF control, params, loop
<1>5. Windows' = Windows /\ Below(winx)' = Below(winx) /\ Below(winx + 1)' = Below(winx + 1)
  BY <1>4 DEF Windows, Below, Tseq
<1>6. Apart'
  <2>1. (All(test))' = All(test) /\ Chief' = Chief
    BY <1>4 DEF All, Chief, Tseq, SingleCpuTest
  <2>2. Fits'
    BY <1>4 DEF InSoloWindow, Apart, Fits, InForce, TestRuns, Runs, All, Alone, Settle, Tseq
  <2>3. Lone'
    BY <1>4 DEF InSoloWindow, Apart, Lone
  <2>4. tested' \subseteq {mstr_cpu} \X Windows /\ {mstr_cpu} \X Below(winx) \subseteq tested'
    BY DEF InSoloWindow, Apart
  <2> QED
    BY <1>4, <1>5, <2>1, <2>2, <2>3, <2>4 DEF InSoloWindow, Apart
<1>7. \A q \in CPU : q # mstr_cpu' => /\ pc'[q] \notin {"window", "keys", "tick"}
                                      /\ pc'[q] \in {"end", "top"} => segs' = 0
  BY <1>2, <1>4 DEF InSoloWindow
<1> QED
  BY <1>2, <1>3, <1>4, <1>5, <1>6, <1>7 DEF InSoloWindow
-----------------------------------------------------------------------------
(***************************************************************************)
(* What the windows tested amount to.                                      *)
(***************************************************************************)
LEMMA MapEndType ==
  ASSUME TypeOK
  PROVE  MapEnd \in Nat
BY BoundAssumption DEF TypeOK

LEMMA NextBelow ==
  ASSUME TypeOK, Fits, winx <= MaxMem, segs = 1, winx < MapEnd
  PROVE  winx \in Windows /\ Below(winx + 1) = Below(winx) \cup {winx}
<1>1. winx \in Low .. LastWin
  BY BoundAssumption DEF TypeOK, Fits, Low
<1>2. winx \in Windows
  BY <1>1 DEF Fits, Windows
<1>3. \A w \in Windows : w \in Int
  BY BoundAssumption DEF Windows, Low
<1>4. \A w \in Windows : w < winx + 1 <=> w < winx \/ w = winx
  BY <1>2, <1>3
<1> QED
  BY <1>2, <1>4 DEF Below

LEMMA NoneBelow ==
  ASSUME NEW w \in Int, w <= Low
  PROVE  Below(w) = {}
BY BoundAssumption DEF Below, Windows, Low

LEMMA AllBelow ==
  ASSUME TypeOK, NEW w \in Int, w > LastWin \/ w >= MapEnd \/ w > MaxMem
  PROVE  Below(w) = Windows
BY BoundAssumption, MapEndType DEF Below, Windows, Low

\* What the CPU that tests alone knows of the window it has picked.
LEMMA Picks ==
  ASSUME IInv, InSoloWindow
  PROVE  /\ winx \in Int /\ win_next \in Nat /\ winx <= MaxMem /\ mstr_cpu \in CPU
         /\ segs = IF winx <= LastWin THEN 1 ELSE 0
         /\ segs = 0 => Below(winx) = Windows /\ Below(winx + 1) = Windows
         /\ winx >= MapEnd => Below(winx) = Windows
         /\ win_next > LastWin + 1 => segs = 0
         /\ segs = 1 => window # 0 /\ win_next = winx + 1
<1>1. /\ winx \in Int /\ win_next \in Nat /\ mstr_cpu \in CPU /\ winx <= LastWin + 1
      /\ segs = IF winx <= LastWin THEN 1 ELSE 0
      /\ window # 2 => win_next = 0
      /\ IF window = 0 THEN segs = 0 ELSE win_next = winx + 1
  BY BoundAssumption, Shapes DEF IInv, TypeOK, Quiet, InSoloWindow, Apart, Fits, Low
<1>2. LastWin < MaxMem
  BY Kinds DEF IInv, InSoloWindow, Apart, Fits, InForce
<1>3. winx <= MaxMem
  BY <1>1, <1>2, BoundAssumption
<1>4. segs = 0 => Below(winx) = Windows /\ Below(winx + 1) = Windows
  BY <1>1, AllBelow, BoundAssumption DEF IInv
<1> QED
  BY <1>1, <1>3, <1>4, AllBelow, BoundAssumption DEF IInv
-----------------------------------------------------------------------------
(***************************************************************************)
(* The steps that change no data.                                          *)
(***************************************************************************)
LEMMA DecideSkipInv ==
  ASSUME CodeList, IInv, NEW p \in CPU, DecideSkip(p)
  PROVE  FALSE
BY DEF DecideSkip, IInv, Quiet

LEMMA LoopInv ==
  ASSUME CodeList, IInv, NEW p \in CPU, Loop(p)
  PROVE  IInv'
<1> DEFINE to == IF win_next <= LastWin + 1 THEN "sched" ELSE "end"
<1>1. pc[p] = "loop" /\ Moves(p, to) /\ UNCHANGED Data /\ to \in AllLabels
  BY DEF Loop, Goto, Moves, Data, control, loop, params, aux, sync, Sites, SSites, AllLabels
<1>2. TypeOK' /\ AtBarrier' /\ Quiet'
  BY <1>1, OnlyMoves
<1>3. TypeOK /\ AtBarrier
  BY DEF IInv
<1>4. pc'[p] = to /\ \A q \in CPU : q # p => pc'[q] = pc[q]
  BY <1>1, <1>3, Moving
<1>5. UNCHANGED <<fresh, loc, test, cpu_sel, ltest, pass_flag, win_next, winx, segs, tested, window,
                  mstr_cpu, run_cpus, run, s_maxproc, machine>>
  BY <1>1 DEF Data, control, loop, params, aux
<1>6. CASE InStarted
  <2>1. to = "sched"
    BY <1>6 DEF InStarted
  <2>2. Where("started", {"top", "loop"}, {"sched"})'
    BY <1>1, <1>3, <1>6, <2>1, Stays DEF InStarted
  <2>3. InStarted'
    BY <1>1, <1>4, <1>5, <1>6, <2>1, <2>2, SameData DEF InStarted
  <2> QED
    BY <1>2, <2>3 DEF IInv, InPhase
<1>7. CASE InWindow
  <2>1. segs = 0 /\ to = "end"
    BY <1>1, <1>3, <1>7, BoundAssumption DEF InWindow, Picked, Fits, TypeOK, Low
  <2>2. Where("window", {"loop", "keys"}, {"tick", "end"})'
    BY <1>1, <1>3, <1>7, <2>1, Stays DEF InWindow
  <2>3. InWindow'
    BY <1>1, <1>4, <1>5, <1>7, <2>1, <2>2, SameData DEF InWindow
  <2> QED
    BY <1>2, <2>3 DEF IInv, InPhase
<1>8. CASE InTick
  <2>1. Where("tick", {"loop"}, {"sched", "end"})'
    BY <1>1, <1>3, <1>8, Stays DEF InTick
  <2>2. {q \in CPU : pc'[q] # "tick"} = {q \in CPU : pc[q] # "tick"}
    BY <1>1, <1>4
  <2>3. Below(winx)' = Below(winx)
    BY <1>5 DEF Below, Windows, Tseq
  <2>4. InTick'
    BY <1>1, <1>3, <1>4, <1>5, <1>8, <2>1, <2>2, <2>3, SameData, BoundAssumption DEF InTick, TypeOK
  <2> QED
    BY <1>2, <2>4 DEF IInv, InPhase
<1>9. CASE InSoloReady
  <2>1. to = "sched"
    BY <1>9 DEF InSoloReady, Ours, WindowLeft
  <2>2. Where("ready", {"pick", "loop"}, {"sched"})' /\ NoWait'
    BY <1>1, <1>9, <2>1, Moved DEF InSoloReady
  <2>3. mstr_cpu \in CPU /\ (All(test))' = All(test)
    BY <1>1, <1>3, Shapes, SameWindows
  <2>4. InSoloReady'
    BY <1>1, <1>4, <1>5, <1>9, <2>1, <2>2, <2>3, SameData DEF InSoloReady
  <2> QED
    BY <1>2, <2>4 DEF IInv, InPhase
<1>10. CASE InSoloWindow
  <2>1. InSoloWindow'
    <3>1. CASE p # mstr_cpu
      BY <1>1, <1>5, <1>10, <3>1, Picks, SoloOther, BoundAssumption
    <3>2. CASE p = mstr_cpu
      <4>1. {mstr_cpu} \X Below(winx + 1) \subseteq tested /\ tested \subseteq {mstr_cpu} \X Windows
        BY <1>1, <1>10, <3>2 DEF InSoloWindow, Apart
      <4>2. to = "end" => Below(winx + 1) = Windows
        BY <1>10, Picks, BoundAssumption
      <4> QED
        BY <1>1, <1>5, <1>10, <3>2, <4>1, <4>2, SoloMaster DEF Data
    <3> QED
      BY <3>1, <3>2
  <2> QED
    BY <1>2, <2>1 DEF IInv, InPhase
<1>11. CASE InEnd
  <2>1. to = "sched" /\ win_next = 0 /\ window = 0
    BY <1>1, <1>11, BoundAssumption DEF InEnd
  <2>2. p = mstr_cpu => tested = {} /\ TestRuns /\ pass_flag = 0 /\ ltest = test
    BY <1>1, <1>11 DEF InEnd
  <2>3. p = mstr_cpu => TestRuns'
    BY <1>1, <2>2, SameData
  <2>4. InEnd'
    BY <1>1, <1>5, <1>11, <2>1, <2>2, <2>3, EndStep
  <2> QED
    BY <1>2, <2>4 DEF IInv, InPhase
<1> QED
  BY <1>1, <1>6, <1>7, <1>8, <1>9, <1>10, <1>11, PhaseOf

\* The steps whose new label is the only thing a phase has to allow for.
LEMMA CopiedInv ==
  ASSUME CodeList, IInv, NEW p \in CPU, Copied(p)
  PROVE  IInv'
<1>1. /\ pc[p] = "copied" /\ stage[p] = "go" /\ Moves(p, "jump") /\ UNCHANGED Data
      /\ "jump" \in AllLabels
  BY DEF Copied, Passes, Goto, B!Leave, Moves, Data, control, loop, params, aux, Sites, Labels,
     AllLabels
<1>2. TypeOK' /\ AtBarrier' /\ Quiet'
  BY <1>1, OnlyMoves
<1>3. TypeOK /\ AtBarrier /\ InCopied
  BY <1>1, Leaving DEF IInv, Gone
<1>4. pc'[p] = "jump" /\ \A q \in CPU : q # p => pc'[q] = pc[q]
  BY <1>1, <1>3, Moving
<1>5. Where("copied", {"jump", "restart"}, {"started"})'
  BY <1>1, <1>3, Stays DEF InCopied
<1>6. loc' = loc /\ fresh' = fresh
  BY <1>1 DEF Data
<1>7. InCopied'
  BY <1>1, <1>3, <1>4, <1>5, <1>6, SameData DEF InCopied, Other
<1> QED
  BY <1>2, <1>7 DEF IInv, InPhase

LEMMA StartedInv ==
  ASSUME CodeList, IInv, NEW p \in CPU, Started(p)
  PROVE  IInv'
<1>1. /\ pc[p] = "started" /\ stage[p] = "go" /\ Moves(p, "top") /\ UNCHANGED Data
      /\ "top" \in AllLabels
  BY DEF Started, Passes, Goto, B!Leave, Moves, Data, control, loop, params, aux, Sites, Labels,
     AllLabels
<1>2. TypeOK' /\ AtBarrier' /\ Quiet'
  BY <1>1, OnlyMoves
<1>3. TypeOK /\ AtBarrier /\ InStarted
  BY <1>1, Leaving DEF IInv, Gone
<1>4. pc'[p] = "top" /\ \A q \in CPU : q # p => pc'[q] = pc[q]
  BY <1>1, <1>3, Moving
<1>5. Where("started", {"top", "loop"}, {"sched"})'
  BY <1>1, <1>3, Stays DEF InStarted
<1>6. UNCHANGED <<test, ltest, pass_flag, win_next>>
  BY <1>1 DEF Data, control, loop, params
<1>7. InStarted'
  BY <1>1, <1>3, <1>4, <1>5, <1>6, SameData DEF InStarted
<1> QED
  BY <1>2, <1>7 DEF IInv, InPhase

LEMMA SelectedInv ==
  ASSUME CodeList, IInv, NEW p \in CPU, Selected(p)
  PROVE  IInv'
<1>1. /\ pc[p] = "selected" /\ stage[p] = "go" /\ Moves(p, "subinit") /\ UNCHANGED Data
      /\ "subinit" \in AllLabels
  BY DEF Selected, Passes, Goto, B!Leave, Moves, Data, control, loop, params, aux, Sites, Labels,
     AllLabels
<1>2. TypeOK' /\ AtBarrier' /\ Quiet'
  BY <1>1, OnlyMoves
<1>3. TypeOK /\ AtBarrier /\ InSelected
  BY <1>1, Leaving DEF IInv, Gone
<1>4. pc'[p] = "subinit" /\ \A q \in CPU : q # p => pc'[q] = pc[q]
  BY <1>1, <1>3, Moving
<1>5. Where("selected", {"subinit"}, {"ready"})' /\ Ours'
  BY <1>1, <1>3, Stays, SameData DEF InSelected
<1>6. Chief \in CPU
  BY <1>3, Kinds DEF InSelected, Ours, InForce
<1>7. (win_next' > 0 /\ (All(test))') \/ pc'[Chief'] = "ready" => s_maxproc' = Size'
  BY <1>1, <1>3, <1>4, <1>6, SameWindows DEF InSelected
<1>8. InSelected'
  BY <1>5, <1>7 DEF InSelected
<1> QED
  BY <1>2, <1>8 DEF IInv, InPhase

\* With a test for all CPUs nobody goes back to the scheduling barrier; with one for
\* a single CPU all but the master do.
LEMMA ReadyInv ==
  ASSUME CodeList, IInv, NEW p \in CPU, Ready(p)
  PROVE  IInv'
<1> DEFINE to == IF run[p] THEN "pick" ELSE "loop"
<1>1. /\ pc[p] = "ready" /\ stage[p] = "go" /\ Moves(p, to) /\ UNCHANGED Data
      /\ to \in AllLabels
  BY DEF Ready, Passes, Goto, B!Leave, Moves, Data, control, loop, params, aux, Sites, Labels,
     AllLabels
<1>2. TypeOK' /\ AtBarrier' /\ Quiet'
  BY <1>1, OnlyMoves
<1>3. TypeOK /\ AtBarrier /\ mstr_cpu \in CPU
  BY Shapes DEF IInv
<1>4. pc'[p] = to /\ \A q \in CPU : q # p => pc'[q] = pc[q]
  BY <1>1, <1>3, Moving
<1>5. UNCHANGED <<fresh, loc, test, cpu_sel, ltest, pass_flag, win_next, winx, segs, tested, window,
                  mstr_cpu, run_cpus, run, s_maxproc, machine>>
  BY <1>1 DEF Data, control, loop, params, aux
<1>6. CASE InReady
  <2>1. run[p]
    BY <1>3, <1>6, TeamIsAll, Shapes DEF InReady, Ours, InForce, Picked, Chosen, AllChosen
  <2>2. Where("ready", {"pick"}, {"window"})'
    BY <1>1, <1>3, <1>6, <2>1, Stays DEF InReady
  <2>3. InReady'
    BY <1>1, <1>3, <1>4, <1>6, <2>1, <2>2, SameData, SameWindows, Shapes DEF InReady
  <2> QED
    BY <1>2, <2>3 DEF IInv, InPhase
<1>7. CASE InSoloReady
  <2>1. run[p] <=> p = mstr_cpu
    BY <1>7 DEF InSoloReady, Lone
  <2>2. Where("ready", {"pick", "loop"}, {"sched"})' /\ NoWait'
    BY <1>1, <1>7, Moved DEF InSoloReady
  <2>3. InSoloReady'
    BY <1>1, <1>3, <1>4, <1>5, <1>7, <2>1, <2>2, SameData, SameWindows DEF InSoloReady
  <2> QED
    BY <1>2, <2>3 DEF IInv, InPhase
<1>8. CASE InSoloWindow
  <2>1. p # mstr_cpu /\ to = "loop"
    BY <1>1, <1>8 DEF InSoloWindow, Apart, Lone
  <2>2. InSoloWindow'
    BY <1>1, <1>5, <1>8, <2>1, SoloOther
  <2> QED
    BY <1>2, <2>2 DEF IInv, InPhase
<1>9. CASE InEnd
  <2>1. run_cpus = 1
    BY <1>1, <1>9 DEF InEnd, Where, EndFrom, EndBetween, EndLabels
  <2>2. p # mstr_cpu /\ to = "loop"
    BY <1>1, <1>9, <2>1 DEF InEnd, Lone
  <2>3. to \in EndLabels \cup {"sched"} /\ win_next' = 0 /\ window' = 0
    BY <1>5, <1>9, <2>1, <2>2, EndWindows DEF EndLabels
  <2>4. InEnd'
    BY <1>1, <1>5, <1>9, <2>2, <2>3, EndStep
  <2> QED
    BY <1>2, <2>4 DEF IInv, InPhase
<1> QED
  BY <1>1, <1>6, <1>7, <1>8, <1>9, Leaving DEF Gone

LEMMA WindowInv ==
  ASSUME CodeList, IInv, NEW p \in CPU, Window(p)
  PROVE  IInv'
<1> DEFINE to == IF segs = 0 THEN "loop" ELSE IF winx >= MapEnd THEN "end" ELSE "keys"
<1>1. /\ pc[p] = "window" /\ sstage[p] = "go" /\ Moves(p, to) /\ UNCHANGED Data
      /\ to \in AllLabels
  BY DEF Window, SPasses, Goto, Moves, Data, control, loop, params, aux, SSites, Testing, Labels,
     AllLabels
<1>2. TypeOK' /\ AtBarrier' /\ Quiet'
  BY <1>1, OnlyMoves
<1>3. TypeOK /\ AtBarrier
  BY DEF IInv
<1>4. pc'[p] = to /\ \A q \in CPU : q # p => pc'[q] = pc[q]
  BY <1>1, <1>3, Moving
<1>5. segs' = segs /\ winx' = winx /\ segs \in {0, 1} /\ winx \in Int /\ machine.mapEnd \in Nat
  BY <1>1, <1>3, BoundAssumption, MapEndType DEF Data, loop, TypeOK, Low
<1>6. CASE InWindow
  <2>1. Where("window", {"loop", "keys"}, {"tick", "end"})'
    BY <1>1, <1>3, <1>6, Stays DEF InWindow
  <2>2. InWindow'
    BY <1>1, <1>3, <1>4, <1>5, <1>6, <2>1, SameData, BoundAssumption DEF InWindow
  <2> QED
    BY <1>2, <2>2 DEF IInv, InPhase
<1>7. CASE InSoloWindow
  <2>1. p = mstr_cpu
    BY <1>1, <1>7 DEF InSoloWindow
  <2>2. {mstr_cpu} \X Below(winx) \subseteq tested /\ tested \subseteq {mstr_cpu} \X Windows
    BY <1>7 DEF InSoloWindow, Apart
  <2>3. /\ to = "loop" => Below(winx) = Below(winx + 1)
        /\ to = "end" => Below(winx) = Windows
    BY <1>7, Picks
  <2>4. to = "keys" => segs = 1 /\ winx < MapEnd
    BY <1>5, BoundAssumption
  <2>5. UNCHANGED <<control, loop, s_maxproc, loc, fresh, run, machine, tested>>
    BY <1>1 DEF Data, aux
  <2>6. to \in {"keys", "loop", "end"}
    OBVIOUS
  <2> HIDE DEF to
  <2>7. InSoloWindow'
    BY <1>1, <1>7, <2>1, <2>2, <2>3, <2>4, <2>5, <2>6, SoloMaster
  <2> QED
    BY <1>2, <2>7 DEF IInv, InPhase
<1> QED
  BY <1>1, <1>6, <1>7, Leaving DEF Gone

LEMMA NoKeyInv ==
  ASSUME CodeList, IInv, NEW p \in CPU, NoKey(p)
  PROVE  IInv'
<1>1. pc[p] = "keys" /\ Moves(p, "tick") /\ UNCHANGED Data /\ "tick" \in AllLabels
  BY DEF NoKey, Goto, Moves, Data, control, loop, params, aux, sync, Sites, SSites, AllLabels
<1>2. TypeOK' /\ AtBarrier' /\ Quiet'
  BY <1>1, OnlyMoves
<1>3. TypeOK /\ AtBarrier
  BY DEF IInv
<1>4. pc'[p] = "tick" /\ \A q \in CPU : q # p => pc'[q] = pc[q]
  BY <1>1, <1>3, Moving
<1>5. segs' = segs /\ winx' = winx
  BY <1>1 DEF Data, loop
<1>6. CASE InWindow
  <2>1. Where("window", {"loop", "keys"}, {"tick", "end"})'
    BY <1>1, <1>3, <1>6, Stays DEF InWindow
  <2>2. InWindow'
    BY <1>1, <1>3, <1>4, <1>5, <1>6, <2>1, SameData DEF InWindow
  <2> QED
    BY <1>2, <2>2 DEF IInv, InPhase
<1>7. CASE InSoloWindow
  <2>1. p = mstr_cpu /\ segs = 1 /\ winx < MapEnd /\ tested \subseteq {mstr_cpu} \X Windows
    BY <1>1, <1>7 DEF InSoloWindow, Apart
  <2>2. UNCHANGED <<control, loop, s_maxproc, loc, fresh, run, machine, tested>>
    BY <1>1 DEF Data, aux
  <2>3. InSoloWindow'
    BY <1>1, <1>7, <2>1, <2>2, SoloMaster
  <2> QED
    BY <1>2, <2>3 DEF IInv, InPhase
<1> QED
  BY <1>1, <1>6, <1>7, PhaseOf

\* The next test is one that is selected, not the end of the list.
LEMMA FoundInv ==
  ASSUME CodeList, IInv, NEW p \in CPU, Found(p)
  PROVE  IInv'
<1>1. /\ pc[p] \in {"scan", "rescan"} /\ Moves(p, "pass") /\ UNCHANGED Data
      /\ "pass" \in AllLabels
  BY DEF Found, Goto, Moves, Data, control, loop, params, aux, sync, Sites, SSites, Labels,
     AllLabels
<1>2. TypeOK' /\ AtBarrier' /\ Quiet'
  BY <1>1, OnlyMoves
<1>3. TypeOK /\ InEnd
  BY <1>1, PhaseOf DEF IInv, EndLabels
<1>4. p = mstr_cpu /\ win_next = 0 /\ window = 0 /\ tested = {}
  BY <1>1, <1>3 DEF InEnd
<1>5. test \in 0 .. Len(TestSeq) - 1 /\ Len(TestSeq) \in Nat
  BY <1>3, ListAssumption DEF TypeOK
<1>6. Tseq(test).cpus # 0
  <2>1. CASE pc[p] = "scan"
    BY <2>1 DEF Found, Goto
  <2>2. CASE pc[p] = "rescan"
    <3>1. \E t \in test .. Len(TestSeq) - 2 : Tseq(t).sel
      BY <1>3, <1>4, <2>2 DEF InEnd
    <3>2. test # Len(TestSeq) - 1
      BY <1>5, <3>1
    <3> QED
      BY <1>5, <3>2, ListAssumption
  <2> QED
    BY <1>1, <2>1, <2>2
<1>7. TestRuns
  <2>1. test \in 0 .. Len(TestSeq) - 2
    BY <1>5, <1>6, ListAssumption
  <2>2. Tseq(test).sel
    BY <1>6 DEF Found, Unselected
  <2> QED
    BY <2>1, <2>2 DEF CodeList, TestRuns
<1>8. UNCHANGED <<mstr_cpu, run_cpus, run, s_maxproc, loc, fresh, win_next, window, machine, tested>>
  BY <1>1 DEF Data, control, loop, params, aux
<1>9. TestRuns' /\ "pass" \in EndLabels
  BY <1>1, <1>7, SameData DEF EndLabels
<1>10. InEnd'
  BY <1>1, <1>3, <1>4, <1>8, <1>9, EndStep
<1> QED
  BY <1>2, <1>10 DEF IInv, InPhase
-----------------------------------------------------------------------------
(***************************************************************************)
(* The barriers.                                                           *)
(***************************************************************************)
\* A CPU that arrives stays where it is.
LEMMA SamePlace ==
  ASSUME IInv, UNCHANGED Data, UNCHANGED pc, \A q \in CPU : Gone(q)' <=> Gone(q),
         run_cpus = 1 /\ NoWait => NoWait'
  PROVE  InPhase'
<1>1. UNCHANGED <<loc, fresh, run, test, ltest, pass_flag, win_next, window, segs, winx,
                  tested, mstr_cpu, run_cpus, s_maxproc>>
  BY DEF Data, control, loop, params, aux
<1>2. \A from, between, ahead : Where(from, between, ahead) => Where(from, between, ahead)'
  BY DEF Where
<1>3. /\ Windows' = Windows /\ \A w : Below(w)' = Below(w)
      /\ (All(test))' = All(test) /\ Chief' = Chief /\ Team' = Team /\ Size' = Size
      /\ EndFrom' = EndFrom /\ EndBetween' = EndBetween
  BY SameWindows
<1>4. ASSUME InStarted PROVE InStarted'
  BY <1>1, <1>2, <1>4, SameData DEF InStarted
<1>5. ASSUME InSched PROVE InSched'
  <2>1. /\ Where("sched", {"copy", "select"}, {"copied", "selected", "end"})'
        /\ InForce' /\ ChosenLater' /\ Done' /\ win_next' <= LastWin + 1
    BY <1>1, <1>2, <1>5, SameData DEF InSched
  <2>2. Settle(IF pc[0] = "copied" THEN Other(fresh) ELSE fresh)'
    BY <1>1, <1>5 DEF InSched, Settle, Other
  <2>3. Settled' <=> Settled
    BY <1>1 DEF Settled, Tseq
  <2> QED
    BY <1>1, <1>3, <1>5, <2>1, <2>2, <2>3 DEF InSched
<1>6. ASSUME InCopied PROVE InCopied'
  BY <1>1, <1>2, <1>6, SameData DEF InCopied, Other
<1>7. ASSUME InSelected PROVE InSelected'
  BY <1>1, <1>2, <1>3, <1>7, SameData DEF InSelected
<1>8. ASSUME InReady PROVE InReady'
  BY <1>1, <1>2, <1>3, <1>8, SameData DEF InReady
<1>9. ASSUME InWindow PROVE InWindow'
  BY <1>1, <1>2, <1>9, SameData DEF InWindow
<1>10. ASSUME InTick PROVE InTick'
  BY <1>1, <1>2, <1>3, <1>10, SameData DEF InTick
<1>11. ASSUME InSoloReady PROVE InSoloReady'
  BY <1>1, <1>2, <1>3, <1>11, SameData DEF InSoloReady, Lone
<1>12. ASSUME InSoloWindow PROVE InSoloWindow'
  BY <1>1, <1>2, <1>3, <1>12, SameData DEF InSoloWindow, Apart, Lone
<1>13. ASSUME InEnd PROVE InEnd'
  <2>1. Where(EndFrom, EndBetween, {"sched"})'
    BY <1>2, <1>3, <1>13 DEF InEnd, Where
  <2>2. TestRuns => TestRuns'
    BY SameData
  <2>3. IF run_cpus' = 1 THEN Lone' /\ NoWait' /\ pc'[mstr_cpu'] \notin {"ready", "end"} ELSE Chosen'
    BY <1>1, <1>13, SameData DEF InEnd
  <2> QED
    BY <1>1, <1>3, <1>13, <2>1, <2>2, <2>3, SameData DEF InEnd
<1> QED
  BY <1>4, <1>5, <1>6, <1>7, <1>8, <1>9, <1>10, <1>11, <1>12, <1>13 DEF IInv, InPhase

LEMMA ArriveInv ==
  ASSUME CodeList, IInv, NEW p \in CPU, Arrive(p)
  PROVE  IInv'
<1>1. /\ stage[p] = "run" /\ stage' = [stage EXCEPT ![p] = "wait"] /\ pc[p] \in Sites
      /\ UNCHANGED pc /\ UNCHANGED sstage /\ UNCHANGED Data
  BY DEF Arrive, B!Arrive, place, Data
<1>2. TypeOK /\ AtBarrier /\ Quiet
  BY DEF IInv
<1>3. /\ stage' \in [CPU -> {"run", "wait", "go"}] /\ stage'[p] = "wait"
      /\ \A q \in CPU : q # p => stage'[q] = stage[q]
  BY <1>1, <1>2, Shapes DEF TypeOK
<1>4. TypeOK'
  BY <1>1, <1>2, <1>3 DEF TypeOK, Data, control, loop, params, aux
<1>5. AtBarrier' /\ \A q \in CPU : Gone(q)' <=> Gone(q)
  BY <1>1, <1>2, <1>3 DEF AtBarrier, Gone
<1> QED
  BY <1>1, <1>2, <1>4, <1>5, SamePlace, SameData DEF IInv, NoWait

\* At s_barrier() the CPUs are chosen, or one is.
LEMMA AtSub ==
  ASSUME IInv, NEW p \in CPU, pc[p] \in SSites
  PROVE  Chosen \/ ((InSoloWindow \/ InEnd) /\ Lone /\ NoWait)
<1>1. CASE InSched
  <2>1. pc[p] = "end"
    BY <1>1 DEF InSched, Where, SSites
  <2>2. win_next > 0 /\ All(test)
    BY <1>1, <2>1, Kinds, BoundAssumption DEF InSched, InForce, IInv, TypeOK
  <2> QED
    BY <1>1, <2>2 DEF InSched, ChosenLater
<1>2. CASE InReady
  BY <1>2 DEF InReady, Picked
<1>3. CASE InWindow
  BY <1>3 DEF InWindow, Picked
<1>4. CASE InTick
  BY <1>4 DEF InTick, Picked
<1>5. CASE InSoloWindow
  BY <1>5 DEF InSoloWindow, Apart
<1>6. CASE InEnd
  BY <1>6 DEF InEnd
<1>7. ~InStarted /\ ~InCopied /\ ~InSelected /\ ~InSoloReady
  BY DEF InStarted, InCopied, InSelected, InSoloReady, Where, SSites
<1> QED
  BY <1>1, <1>2, <1>3, <1>4, <1>5, <1>6, <1>7 DEF IInv, InPhase

\* When all are chosen they come together; one that tests alone is let go at once.
LEMMA SArriveInv ==
  ASSUME CodeList, IInv, NEW p \in CPU, SArrive(p)
  PROVE  IInv'
<1>1. /\ sstage[p] = "run" /\ pc[p] \in SSites
      /\ sstage' = [sstage EXCEPT ![p] = IF run_cpus = 1 THEN "go" ELSE "wait"]
      /\ UNCHANGED pc /\ UNCHANGED stage /\ UNCHANGED Data
  BY DEF SArrive, place, Data
<1>2. TypeOK /\ AtBarrier /\ Quiet
  BY DEF IInv
<1>3. /\ sstage' \in [CPU -> {"run", "wait", "go"}]
      /\ sstage'[p] = IF run_cpus = 1 THEN "go" ELSE "wait"
      /\ \A q \in CPU : q # p => sstage'[q] = sstage[q]
  BY <1>1, <1>2, Shapes DEF TypeOK
<1>4. TypeOK'
  BY <1>1, <1>2, <1>3 DEF TypeOK, Data, control, loop, params, aux
<1>5. AtBarrier' /\ Quiet'
  BY <1>1, <1>2, <1>3, SameData DEF AtBarrier
<1>6. CASE Chosen
  <2>1. run_cpus # 1
    BY <1>6, NumAssumption DEF Chosen, AllChosen
  <2>2. \A q \in CPU : Gone(q)' <=> Gone(q)
    BY <1>1, <1>3, <2>1 DEF Gone
  <2>3. InPhase'
    BY <1>1, <2>1, <2>2, SamePlace
  <2> QED
    BY <1>4, <1>5, <2>3 DEF IInv
<1>7. CASE (InSoloWindow \/ InEnd) /\ Lone /\ NoWait
  <2>1. run_cpus = 1
    BY <1>7 DEF Lone
  <2>2. NoWait' /\ \A q \in CPU : q # p => (Gone(q)' <=> Gone(q))
    BY <1>1, <1>3, <1>7, <2>1 DEF NoWait, Gone
  <2>3. /\ UNCHANGED <<loc, fresh, run, test, ltest, pass_flag, win_next, window, segs, winx,
                       tested, mstr_cpu, run_cpus, s_maxproc, machine>>
        /\ Windows' = Windows /\ \A w : Below(w)' = Below(w)
    BY <1>1, SameWindows
  <2>4. CASE InSoloWindow
    <3>1. Where("ready", {"window", "keys", "tick", "loop", "end", "top"}, {"sched"})'
      BY <1>1, <2>2, <2>4 DEF InSoloWindow, Where, SSites
    <3>2. Apart'
      BY <1>1, <2>4, SameData DEF InSoloWindow
    <3>3. InSoloWindow'
      BY <1>1, <2>2, <2>3, <2>4, <3>1, <3>2 DEF InSoloWindow
    <3> QED
      BY <1>4, <1>5, <3>3 DEF IInv, InPhase
  <2>5. CASE InEnd
    <3>1. Where(EndFrom, EndBetween, {"sched"})'
      BY <1>1, <2>1, <2>2, <2>3, <2>5 DEF InEnd, Where, SSites, EndFrom, EndBetween
    <3>2. Lone' /\ (TestRuns => TestRuns') /\ Settle(fresh)'
      BY <1>1, <1>7, <2>5, SameData DEF InEnd
    <3>3. pc[mstr_cpu] \notin {"ready", "end"}
      BY <2>1, <2>5 DEF InEnd
    <3>4. InEnd'
      BY <1>1, <2>1, <2>2, <2>3, <2>5, <3>1, <3>2, <3>3 DEF InEnd
    <3> QED
      BY <1>4, <1>5, <3>4 DEF IInv, InPhase
  <2> QED
    BY <1>7, <2>4, <2>5
<1> QED
  BY <1>1, <1>6, <1>7, AtSub
\* When they all wait they are in the same place.
Together(site) == \A p \in CPU : pc[p] = site /\ ~Gone(p)

LEMMA AllWait ==
  ASSUME IInv, \A p \in CPU : stage[p] = "wait"
  PROVE  \/ Together("sched") /\ (InStarted \/ InTick \/ InSoloWindow \/ InEnd)
         \/ Together("copied") /\ InSched
         \/ Together("selected") /\ InSched
         \/ Together("started") /\ InCopied
         \/ Together("ready") /\ InSelected
<1>1. \A p \in CPU : pc[p] \in Sites /\ ~Gone(p)
  BY DEF IInv, AtBarrier, Gone, Sites, SSites
<1>2. 0 \in CPU /\ mstr_cpu \in CPU
  BY Shapes DEF IInv
<1>3. CASE InStarted
  BY <1>1, <1>3 DEF InStarted, Where, Sites, Together
<1>4. CASE InSched
  <2>1. \A p \in CPU : pc[p] \in {"copied", "selected"}
    BY <1>1, <1>4 DEF InSched, Where, Sites
  <2>2. \A p, q \in CPU : ~(pc[p] = "copied" /\ pc[q] = "selected")
    <3>1. \A p \in CPU : loc[p] \in {"low", "high"}
      BY DEF IInv, TypeOK
    <3>2. \A p, q \in CPU : loc[p] = loc[q]
      BY <1>4 DEF InSched, Settle
    <3> QED
      BY <1>4, <3>1, <3>2 DEF InSched
  <2> QED
    BY <1>1, <1>2, <1>4, <2>1, <2>2 DEF Together
<1>5. CASE InCopied
  BY <1>1, <1>5 DEF InCopied, Where, Sites, Together
<1>6. CASE InSelected
  BY <1>1, <1>6 DEF InSelected, Where, Sites, Together
<1>7. CASE InTick
  BY <1>1, <1>7 DEF InTick, Where, Sites, Together
<1>8. CASE InSoloWindow
  BY <1>1, <1>8 DEF InSoloWindow, Where, Sites, Together
<1>9. CASE InEnd
  <2>1. \A p \in CPU : pc[p] = "sched"
    BY <1>1, <1>9 DEF InEnd, Where, Sites, EndFrom, EndBetween, EndLabels
  <2> QED
    BY <1>1, <1>9, <2>1 DEF Together
<1>10. ~InReady /\ ~InWindow /\ ~InSoloReady
  BY <1>1, <1>2 DEF InReady, InWindow, InSoloReady, Where, Sites
<1> QED
  BY <1>3, <1>4, <1>5, <1>6, <1>7, <1>8, <1>9, <1>10 DEF IInv, InPhase

LEMMA AllWaitSub ==
  ASSUME IInv, \A p \in CPU : sstage[p] = "wait"
  PROVE  \/ Together("window") /\ InReady
         \/ Together("tick") /\ InWindow
         \/ Together("end") /\ (InSched \/ InWindow \/ InTick)
<1>1. \A p \in CPU : pc[p] \in SSites /\ ~Gone(p)
  BY DEF IInv, AtBarrier, Gone, Sites, SSites
<1>2. 0 \in CPU /\ ~NoWait
  BY Shapes DEF IInv, NoWait
<1>3. CASE InSched
  BY <1>1, <1>3 DEF InSched, Where, SSites, Together
<1>4. CASE InReady
  BY <1>1, <1>4 DEF InReady, Where, SSites, Together
<1>5. CASE InTick
  BY <1>1, <1>5 DEF InTick, Where, SSites, Together
<1>6. CASE InWindow
  <2>1. \A p \in CPU : pc[p] \in {"tick", "end"}
    BY <1>1, <1>6 DEF InWindow, Where, SSites
  <2>2. winx \in Int /\ machine.mapEnd \in Nat
    BY BoundAssumption, MapEndType DEF IInv, TypeOK, Low
  <2>3. \A p, q \in CPU : ~(pc[p] = "tick" /\ pc[q] = "end")
    BY <1>6, <2>2, BoundAssumption DEF InWindow
  <2> QED
    BY <1>1, <1>2, <1>6, <2>1, <2>3 DEF Together
<1>7. ~InStarted /\ ~InCopied /\ ~InSelected
  BY <1>1, <1>2 DEF InStarted, InCopied, InSelected, Where, SSites
<1>8. ~InSoloReady /\ ~InSoloWindow
  BY <1>2 DEF InSoloReady, InSoloWindow
<1>9. ~InEnd
  BY <1>1, <1>2 DEF InEnd, Where, SSites, EndFrom, EndBetween, EndLabels
<1> QED
  BY <1>3, <1>4, <1>5, <1>6, <1>7, <1>8, <1>9 DEF IInv, InPhase

\* Everybody leaves the barrier they were at.
LEMMA Left ==
  ASSUME NEW site, Together(site), UNCHANGED pc, \A p \in CPU : Gone(p)'
  PROVE  /\ \A between, ahead : Where(site, between, ahead)'
         /\ \A p \in CPU : pc'[p] = site
BY DEF Together, Where

\* At the scheduling barrier the windows below the next one have been tested.
LEMMA DoneSoFar ==
  ASSUME IInv, Together("sched"), InStarted \/ InTick \/ InSoloWindow \/ InEnd
  PROVE  Done
<1>1. TypeOK /\ mstr_cpu \in CPU /\ Master \in CPU
  BY Shapes DEF IInv
<1>2. CASE InStarted
  BY <1>2 DEF InStarted
<1>3. CASE InTick
  <2>1. tested = (CPU \X Below(winx)) \cup (CPU \X {winx})
    BY <1>3 DEF InTick, Together
  <2>2. tested = CPU \X (Below(winx) \cup {winx})
    BY <2>1
  <2>3. Below(Cursor) = Below(winx) \cup {winx}
    BY <1>1, <1>3, NextBelow DEF InTick, Picked, Cursor
  <2> QED
    BY <1>1, <1>3, <2>2, <2>3 DEF Done, InTick, Picked
<1>4. CASE InSoloWindow
  <2>1. /\ ~All(test) /\ mstr_cpu = Chief /\ tested \subseteq {Chief} \X Windows
        /\ {Chief} \X Below(winx + 1) \subseteq tested
    BY <1>1, <1>4 DEF InSoloWindow, Apart, Together
  <2>2. Below(Cursor) \subseteq Below(winx + 1)
    <3>1. CASE window = 0
      BY <3>1, NoneBelow DEF Cursor, Low
    <3>2. CASE window # 0
      BY <1>4, <3>2 DEF InSoloWindow, Apart, Cursor
    <3> QED
      BY <3>1, <3>2
  <2> QED
    BY <2>1, <2>2 DEF Done
<1>5. CASE InEnd
  <2>1. tested = {} /\ window = 0
    BY <1>1, <1>5 DEF InEnd, Together
  <2>2. Below(Cursor) = {}
    BY <2>1, NoneBelow DEF Cursor, Low
  <2> QED
    BY <2>1, <2>2 DEF Done
<1> QED
  BY <1>2, <1>3, <1>4, <1>5

LEMMA ReleaseInv ==
  ASSUME CodeList, IInv, Release
  PROVE  IInv'
<1>1. /\ \A p \in CPU : stage[p] = "wait"
      /\ stage' = [p \in CPU |-> "go"]
      /\ UNCHANGED pc /\ UNCHANGED sstage /\ UNCHANGED Data
  BY DEF Release, B!Release, place, Data
<1>2. TypeOK /\ AtBarrier /\ Quiet
  BY DEF IInv
<1>3. TypeOK' /\ AtBarrier' /\ Quiet'
  <2>1. TypeOK'
    BY <1>1, <1>2 DEF TypeOK, Data, control, loop, params, aux
  <2>2. AtBarrier'
    BY <1>1, <1>2 DEF AtBarrier
  <2> QED
    BY <1>1, <1>2, <2>1, <2>2, SameData
<1>4. \A p \in CPU : Gone(p)'
  BY <1>1 DEF Gone
<1>5. 0 \in CPU /\ Master \in CPU /\ mstr_cpu \in CPU
  BY <1>2, Shapes
<1>6. CASE Together("sched") /\ (InStarted \/ InTick \/ InSoloWindow \/ InEnd)
  <2>1. Where("sched", {"copy", "select"}, {"copied", "selected", "end"})'
        /\ \A p \in CPU : pc'[p] = "sched"
    BY <1>1, <1>4, <1>6, Left
  <2>2. InForce /\ Settle(fresh) /\ win_next <= LastWin + 1
    BY <1>5, <1>6, BoundAssumption DEF InStarted, InTick, InSoloWindow, InEnd, Picked, Apart, Fits,
       InForce, Together
  <2>3. ChosenLater
    BY <1>5, <1>6 DEF InStarted, InTick, InSoloWindow, InEnd, Picked, Apart, ChosenLater, Together
  <2>4. InForce' /\ ChosenLater' /\ Settle(fresh)' /\ Done' /\ win_next' = win_next
    BY <1>1, <1>6, <2>2, <2>3, DoneSoFar, SameData, SameWindows
  <2>5. Chief' \in CPU
    BY <1>1, <1>2, <2>2, Kinds, SameWindows DEF InForce
  <2>6. InSched'
    BY <1>5, <2>1, <2>2, <2>4, <2>5 DEF InSched
  <2> QED
    BY <1>3, <2>6 DEF IInv, InPhase
<1>7. CASE Together("copied") /\ InSched
  <2>1. Where("copied", {"jump", "restart"}, {"started"})' /\ \A p \in CPU : pc'[p] = "copied"
    BY <1>1, <1>4, <1>7, Left
  <2>2. InForce /\ ChosenLater /\ Done /\ Settled /\ WindowLeft
    BY <1>5, <1>7 DEF InSched, Together, WindowLeft
  <2>3. \A p \in CPU : loc[p] = Other(fresh)
    BY <1>5, <1>7 DEF InSched, Together, Settle
  <2>4. InForce' /\ ChosenLater' /\ Done' /\ Settled' /\ WindowLeft'
    BY <1>1, <2>2, SameData
  <2>5. \A p \in CPU : loc'[p] = Other(fresh')
    BY <1>1, <2>3, SameWindows
  <2>6. InCopied'
    BY <2>1, <2>4, <2>5 DEF InCopied, Other
  <2> QED
    BY <1>3, <2>6 DEF IInv, InPhase
<1>8. CASE Together("selected") /\ InSched
  <2>1. Where("selected", {"subinit"}, {"ready"})' /\ \A p \in CPU : pc'[p] = "selected"
    BY <1>1, <1>4, <1>8, Left
  <2>2. InForce /\ Done /\ Settled /\ WindowLeft /\ ChosenLater /\ Settle(fresh)
    BY <1>5, <1>8 DEF InSched, Together, WindowLeft
  <2>3. window = 0 <=> fresh = "high"
    BY <1>5, <1>8, <2>2 DEF InSched, Together, Settle
  <2>4. Chief \in CPU /\ (All(test) => Size = NumCpus)
    BY <1>2, <2>2, Kinds DEF InForce
  <2>5. TeamChosen
    BY <1>8, <2>4 DEF InSched, Together, TeamChosen
  <2>6. Ours' /\ win_next' = win_next /\ s_maxproc' = s_maxproc
    BY <1>1, <2>2, <2>3, <2>5, SameData, SameWindows DEF Ours
  <2>7. win_next > 0 /\ All(test) => s_maxproc = Size
    BY <2>2, <2>4 DEF ChosenLater, Chosen
  <2>8. Chief' = Chief /\ Size' = Size /\ (All(test))' = All(test)
    BY <1>1, SameWindows
  <2>9. InSelected'
    BY <2>1, <2>4, <2>6, <2>7, <2>8 DEF InSelected
  <2> QED
    BY <1>3, <2>9 DEF IInv, InPhase
<1>9. CASE Together("started") /\ InCopied
  <2>1. Where("started", {"top", "loop"}, {"sched"})' /\ \A p \in CPU : pc'[p] = "started"
    BY <1>1, <1>4, <1>9, Left
  <2>2. /\ TestRuns /\ pass_flag = 0 /\ ChosenLater /\ Settle(fresh) /\ Done
        /\ win_next <= LastWin + 1
    BY <1>9 DEF InCopied, InForce, Settle, Together, WindowLeft
  <2>3. /\ TestRuns' /\ pass_flag' = 0 /\ ChosenLater' /\ Settle(fresh)' /\ Done'
        /\ win_next' <= LastWin + 1
    BY <1>1, <2>2, SameData, SameWindows
  <2>4. InStarted'
    BY <2>1, <2>3 DEF InStarted
  <2> QED
    BY <1>3, <2>4 DEF IInv, InPhase
<1>10. CASE Together("ready") /\ InSelected
  <2>1. /\ \A between, ahead : Where("ready", between, ahead)'
        /\ \A p \in CPU : pc'[p] = "ready"
    BY <1>1, <1>4, <1>10, Left
  <2>2. Ours /\ TestRuns /\ TeamChosen
    BY <1>10 DEF InSelected, Ours, InForce
  <2>3. Chief \in CPU
    BY <1>2, <2>2, Kinds
  <2>4. s_maxproc = Size
    BY <1>10, <2>3 DEF InSelected, Together
  <2>5. CASE All(test)
    <3>1. Chosen
      BY <1>2, <2>2, <2>4, <2>5, Kinds, TeamIsAll DEF Chosen
    <3>2. Ours' /\ Chosen' /\ (All(test))' = All(test)
      BY <1>1, <2>2, <3>1, SameData, SameWindows
    <3>3. InReady'
      BY <1>5, <2>1, <2>5, <3>2 DEF InReady
    <3> QED
      BY <1>3, <3>3 DEF IInv, InPhase
  <2>6. CASE ~All(test)
    <3>1. Lone /\ NoWait
      <4>1. Lone
        BY <1>2, <2>2, <2>4, <2>6, Kinds DEF Lone, TeamChosen
      <4>2. NoWait
        BY <1>1 DEF NoWait, IInv, AtBarrier, Sites, SSites
      <4> QED
        BY <4>1, <4>2
    <3>2. /\ Ours' /\ Lone' /\ NoWait' /\ (All(test))' = All(test) /\ mstr_cpu' = mstr_cpu
      BY <1>1, <2>2, <3>1, SameData, SameWindows DEF NoWait
    <3>3. InSoloReady'
      BY <1>5, <2>1, <2>6, <3>2 DEF InSoloReady
    <3> QED
      BY <1>3, <3>3 DEF IInv, InPhase
  <2> QED
    BY <2>5, <2>6
<1> QED
  BY <1>1, <1>6, <1>7, <1>8, <1>9, <1>10, AllWait

\* s_barrier() lets everybody go.
LEMMA SReleaseAll ==
  ASSUME IInv, SRelease
  PROVE  \A p \in CPU : sstage[p] = "wait"
<1>1. PICK p \in CPU : sstage[p] = "wait"
  BY DEF SRelease, SWaiting
<1>2. s_maxproc = NumCpus
  BY <1>1, AtSub DEF IInv, AtBarrier, Chosen, NoWait
<1>3. IsFiniteSet(CPU) /\ Cardinality(CPU) = NumCpus
  BY NumAssumption, FS_Interval DEF CPU
<1>4. SWaiting = CPU
  BY <1>2, <1>3, FS_Subset DEF SRelease, SWaiting
<1> QED
  BY <1>4 DEF SWaiting

LEMMA SReleaseInv ==
  ASSUME CodeList, IInv, SRelease
  PROVE  IInv'
<1>1. /\ \A p \in CPU : sstage[p] = "wait"
      /\ sstage' = [p \in CPU |-> "go"]
      /\ UNCHANGED pc /\ UNCHANGED stage /\ UNCHANGED Data
  BY SReleaseAll DEF SRelease, SWaiting, place, Data
<1>2. TypeOK /\ AtBarrier /\ Quiet
  BY DEF IInv
<1>3. TypeOK' /\ AtBarrier' /\ Quiet'
  <2>1. TypeOK'
    BY <1>1, <1>2 DEF TypeOK, Data, control, loop, params, aux
  <2>2. AtBarrier'
    BY <1>1, <1>2 DEF AtBarrier
  <2> QED
    BY <1>1, <1>2, <2>1, <2>2, SameData
<1>4. \A p \in CPU : Gone(p)'
  BY <1>1 DEF Gone
<1>5. 0 \in CPU /\ Master \in CPU /\ winx \in Int /\ win_next \in Int
  BY <1>2, Shapes, BoundAssumption DEF TypeOK, Low
<1>6. CASE Together("window") /\ InReady
  <2>1. Where("window", {"loop", "keys"}, {"tick", "end"})' /\ \A p \in CPU : pc'[p] = "window"
    BY <1>1, <1>4, <1>6, Left
  <2>2. Picked' /\ Before'
    BY <1>1, <1>5, <1>6, SameData DEF InReady, Together
  <2>3. InWindow'
    BY <2>1, <2>2 DEF InWindow
  <2> QED
    BY <1>3, <2>3 DEF IInv, InPhase
<1>7. CASE Together("tick") /\ InWindow
  <2>1. Where("tick", {"loop"}, {"sched", "end"})' /\ \A p \in CPU : pc'[p] = "tick"
    BY <1>1, <1>4, <1>7, Left
  <2>2. Picked' /\ Before' /\ segs' = 1 /\ winx' < MapEnd'
    BY <1>1, <1>5, <1>7, SameData, SameWindows DEF InWindow, Together
  <2>3. {p \in CPU : pc'[p] # "tick"} = {}
    BY <2>1
  <2>4. tested' = (CPU \X Below(winx)') \cup ({p \in CPU : pc'[p] # "tick"} \X {winx'})
    BY <2>2, <2>3 DEF Before
  <2>5. InTick'
    BY <2>1, <2>2, <2>4 DEF InTick
  <2> QED
    BY <1>3, <2>5 DEF IInv, InPhase
<1>8. CASE Together("end") /\ (InSched \/ InWindow \/ InTick)
  <2>1. Where("end", EndLabels, {"sched"})' /\ \A p \in CPU : pc'[p] = "end"
    BY <1>1, <1>4, <1>8, Left
  <2>2. Chosen
    BY <1>1, <1>5, <1>8, AtSub DEF Together, SSites, NoWait
  <2>3. InForce /\ Settle(fresh)
    BY <1>5, <1>8 DEF InSched, InWindow, InTick, Picked, Fits, Together
  <2>4. tested = CPU \X Windows
    <3>1. CASE InSched
      <4>1. win_next > MaxMem /\ Cursor = win_next
        BY <1>2, <1>5, <1>8, <3>1, BoundAssumption DEF InSched, Together, Quiet, Cursor
      <4>2. All(test)
        BY <1>2, <1>5, <2>3, <3>1, <4>1, Kinds, BoundAssumption DEF InSched, InForce
      <4> QED
        BY <1>2, <1>5, <2>3, <3>1, <4>1, <4>2, AllBelow, TeamIsAll DEF InSched, InForce, IInv
    <3>2. CASE InWindow
      <4>1. winx > LastWin \/ winx >= MapEnd
        BY <1>5, <1>8, <3>2, BoundAssumption DEF InWindow, Picked, Fits, Together
      <4> QED
        BY <1>2, <1>5, <3>2, <4>1, AllBelow DEF InWindow, Before, IInv
    <3>3. CASE InTick
      BY <1>5, <1>8, <3>3, BoundAssumption DEF InTick, Picked, Fits, Together
    <3> QED
      BY <1>8, <3>1, <3>2, <3>3
  <2>5. /\ InForce' /\ Settle(fresh)' /\ Chosen' /\ run' = run /\ mstr_cpu' = mstr_cpu
        /\ tested' = CPU \X Windows' /\ EndFrom' = EndFrom
    BY <1>1, <2>2, <2>3, <2>4, SameData, SameWindows
  <2>6. run_cpus' # 1 /\ EndFrom' = "end" /\ mstr_cpu' \in CPU
    BY <1>5, <2>5, NumAssumption DEF Chosen, AllChosen, EndFrom
  <2>7. tested' = {q \in CPU : run'[q]} \X Windows'
    BY <2>5 DEF Chosen, AllChosen
  <2>8. Where(EndFrom, EndBetween, {"sched"})'
    BY <2>1, <2>6, <1>4 DEF Where
  <2>9. InEnd'
    BY <2>1, <2>5, <2>6, <2>7, <2>8 DEF InEnd, InForce
  <2> QED
    BY <1>3, <2>9 DEF IInv, InPhase
<1> QED
  BY <1>1, <1>6, <1>7, <1>8, AllWaitSub

-----------------------------------------------------------------------------
(***************************************************************************)
(* The steps that change data.                                             *)
(***************************************************************************)
LEMMA SetupInv ==
  ASSUME CodeList, IInv, NEW p \in CPU, Setup(p)
  PROVE  IInv'
<1>1. pc[p] = "top" /\ Moves(p, "loop") /\ "loop" \in AllLabels
  BY DEF Setup, Goto, Moves, sync, Sites, SSites, Labels, AllLabels
<1>2. /\ UNCHANGED <<test, cpu_mode, cpu_sel, mstr_cpu, run_cpus, bitf_seq, pass, pass_flag>>
      /\ UNCHANGED <<window, win_next, segs, winx, bail>>
      /\ UNCHANGED <<s_maxproc, mutex, loc, fresh, run, machine, keys, tested>>
      /\ ltest' = test /\ c_iter' \in {c_iter, "reduced", "full"}
  BY DEF Setup, SetUp, sync, loop, aux
<1>3. TypeOK /\ Quiet
  BY DEF IInv
<1>4. TypeOK'
  BY <1>1, <1>2, <1>3, Moved DEF TypeOK, AllLabels, Labels
<1>5. AtBarrier' /\ Quiet'
  BY <1>1, <1>2, <1>3, Moved DEF Quiet
<1>6. TestRuns' = TestRuns
  BY <1>2 DEF TestRuns, Runs, All, Alone, Tseq
<1>7. CASE InStarted
  <2>1. Where("started", {"top", "loop"}, {"sched"})'
    BY <1>1, <1>7, Moved DEF InStarted
  <2>2. Done' = Done
    BY <1>2 DEF Done, Windows, Cursor, Below, Tseq, All, Chief, SingleCpuTest
  <2>3. ChosenLater' = ChosenLater /\ Settle(fresh)' = Settle(fresh)
    BY <1>2 DEF ChosenLater, Chosen, AllChosen, Settle, All, Tseq
  <2>4. InStarted'
    BY <1>2, <1>6, <1>7, <2>1, <2>2, <2>3 DEF InStarted
  <2> QED
    BY <1>4, <1>5, <2>4 DEF IInv, InPhase
<1>8. CASE InSoloWindow
  <2>1. p # mstr_cpu
    BY <1>1, <1>8 DEF InSoloWindow
  <2>2. InSoloWindow'
    BY <1>1, <1>2, <1>8, <2>1, SoloOther
  <2> QED
    BY <1>4, <1>5, <2>2 DEF IInv, InPhase
<1>9. CASE InEnd
  <2>1. win_next = 0 /\ window = 0
    BY <1>1, <1>9, EndWindows
  <2>2. p = mstr_cpu => tested = {} /\ TestRuns /\ pass_flag = 0
    BY <1>1, <1>9 DEF InEnd
  <2>3. "loop" \in EndLabels
    BY DEF EndLabels
  <2>4. InEnd'
    BY <1>1, <1>2, <1>6, <1>9, <2>1, <2>2, <2>3, EndStep
  <2> QED
    BY <1>4, <1>5, <2>4 DEF IInv, InPhase
<1> QED
  BY <1>1, <1>7, <1>8, <1>9, PhaseOf

\* The first CPU past the scheduling barrier may leave the low window out, and that
\* is what the others then find.
LEMMA PlaceInv ==
  ASSUME CodeList, IInv, NEW p \in CPU, Place(p)
  PROVE  IInv'
<1> DEFINE w == IF Tseq(test).pat = 11 /\ window = 0 THEN 1 ELSE window
           to == IF win_next > MaxMem THEN "end"
                 ELSE IF (w = 0) = (loc[p] = "low") THEN "copy" ELSE "select"
<1>1. /\ pc[p] = "sched" /\ stage[p] = "go" /\ Moves(p, to) /\ to \in AllLabels
  BY DEF Place, Passes, Goto, B!Leave, Moves, Sites, SSites, Labels, AllLabels
<1>2. /\ window' = IF win_next > MaxMem THEN window ELSE w
      /\ UNCHANGED <<control, win_next, segs, winx, bail, s_maxproc, mutex, loc, fresh, run, aux>>
  BY DEF Place
<1>3. TypeOK /\ Quiet /\ InSched
  BY <1>1, Leaving DEF IInv, Gone
<1>4. window \in 0 .. 2 /\ window' \in 0 .. 2 /\ win_next \in Nat
  BY <1>2, <1>3, BoundAssumption DEF TypeOK
<1>5. TypeOK'
  BY <1>1, <1>2, <1>3, <1>4, Moved DEF TypeOK, control, params, aux, AllLabels, Labels
<1>6. AtBarrier' /\ Quiet'
  BY <1>1, <1>2, <1>3, <1>4, Moved DEF Quiet, control
<1>7. Where("sched", {"copy", "select"}, {"copied", "selected", "end"})'
  BY <1>1, <1>3, Moved DEF InSched
<1>8. InForce' /\ ChosenLater' /\ win_next' = win_next
  BY <1>2, <1>3 DEF InSched, InForce, TestRuns, Runs, All, Alone, Tseq, ChosenLater, Chosen,
     AllChosen, control, params
<1>9. Settle(IF pc[0] = "copied" THEN Other(fresh) ELSE fresh)'
  <2>1. 0 \in CPU /\ (pc'[0] = "copied" <=> pc[0] = "copied")
    BY <1>1, <1>3, Moved, Shapes
  <2> QED
    BY <1>2, <1>3, <2>1 DEF InSched, Settle, Other
<1>10. UNCHANGED <<All(test), Chief, Team, Size>>
  BY <1>2 DEF control, All, Chief, Team, Size, Tseq, SingleCpuTest
<1>11. Done'
  <2>1. tested' = tested /\ Windows' = Windows /\ \A x : Below(x)' = Below(x)
    BY <1>2 DEF control, aux, Windows, Below, Tseq
  <2>2. CASE window' = window
    BY <1>2, <1>3, <1>10, <2>1, <2>2 DEF InSched, Done, Cursor
  <2>3. CASE window = 0 /\ window' = 1 /\ Tseq(test).pat = 11
    <3>1. win_next' = 0 /\ Cursor = Low /\ Cursor' = 0
      BY <1>2, <1>3, <2>3 DEF Quiet, Cursor
    <3>2. Below(0) = {} /\ Below(Low) = {}
      BY <2>3, BoundAssumption DEF Below, Windows, Low
    <3> QED
      BY <1>3, <1>10, <2>1, <3>1, <3>2 DEF InSched, Done
  <2> QED
    BY <1>2, <1>4, <2>2, <2>3
<1>12. ASSUME NEW q \in CPU
       PROVE  /\ pc'[q] \in {"copy", "copied", "select", "selected"} =>
                   Settled' /\ win_next' <= MaxMem
              /\ pc'[q] \in {"copy", "copied"} => (window' = 0 <=> loc'[q] = "low")
              /\ pc'[q] \in {"select", "selected"} => (window' = 0 <=> loc'[q] = "high")
              /\ pc'[q] = "selected" => (run'[q] <=> q \in Team')
              /\ pc'[q] = "end" => win_next' > MaxMem
  <2>1. /\ test' = test /\ loc' = loc /\ run' = run /\ mstr_cpu' = mstr_cpu
        /\ run_cpus' = run_cpus
    BY <1>2 DEF control
  <2>2. CASE q = p
    <3>1. pc'[q] = to /\ loc[p] \in {"low", "high"}
      BY <1>1, <1>3, <2>2, Moved DEF TypeOK
    <3>2. CASE win_next > MaxMem
      BY <1>8, <3>1, <3>2
    <3>3. CASE ~(win_next > MaxMem)
      <4>1. window' = w /\ win_next' <= MaxMem
        BY <1>2, <1>4, <1>8, <3>3, BoundAssumption
      <4>2. Settled'
        BY <2>1, <4>1 DEF Settled, Tseq
      <4> QED
        BY <2>1, <2>2, <3>1, <3>3, <4>1, <4>2
    <3> QED
      BY <3>2, <3>3
  <2>3. CASE q # p
    <3>1. pc'[q] = pc[q]
      BY <1>1, <2>3, Moved
    <3>2. CASE pc[q] \in {"copy", "copied", "select", "selected"}
      <4>1. Settled /\ win_next <= MaxMem
        BY <1>3, <3>2 DEF InSched
      <4>2. window' = window
        BY <1>2, <4>1 DEF Settled
      <4>3. Settled'
        BY <2>1, <4>1, <4>2 DEF Settled, Tseq
      <4> QED
        BY <1>3, <1>8, <1>10, <2>1, <3>1, <3>2, <4>1, <4>2, <4>3 DEF InSched
    <3> QED
      BY <1>3, <1>8, <1>10, <2>1, <3>1, <3>2 DEF InSched
  <2> QED
    BY <2>2, <2>3
<1>13. pc'[Chief'] = "selected" => mstr_cpu' = Chief' /\ run_cpus' = Size'
  <2>1. Chief \in CPU /\ to # "selected"
    BY <1>3, Kinds DEF InSched, InForce
  <2>2. pc'[Chief] = "selected" => pc[Chief] = "selected"
    BY <1>1, <2>1, Moved
  <2> QED
    BY <1>2, <1>3, <1>10, <2>2 DEF InSched, control
<1>14. InSched'
  BY <1>3, <1>7, <1>8, <1>9, <1>11, <1>12, <1>13 DEF InSched
<1> QED
  BY <1>5, <1>6, <1>14 DEF IInv, InPhase

LEMMA CopyInv ==
  ASSUME CodeList, IInv, NEW p \in CPU, Copy(p)
  PROVE  IInv'
<1>1. pc[p] = "copy" /\ Moves(p, "copied") /\ "copied" \in AllLabels
  BY DEF Copy, Goto, Moves, sync, Sites, SSites, AllLabels
<1>2. /\ fresh' = IF p = 0 THEN Other(loc[p]) ELSE fresh
      /\ UNCHANGED <<control, loop, s_maxproc, mutex, loc, run, aux>>
  BY DEF Copy, sync
<1>3. TypeOK /\ Quiet /\ InSched
  BY <1>1, PhaseOf DEF IInv
<1>4. TypeOK'
  BY <1>1, <1>2, <1>3, Moved DEF TypeOK, control, params, loop, aux, AllLabels, Labels, Other
<1>5. AtBarrier' /\ Quiet'
  BY <1>1, <1>2, <1>3, Moved DEF Quiet, control, loop
<1>6. Where("sched", {"copy", "select"}, {"copied", "selected", "end"})'
  BY <1>1, <1>3, Moved DEF InSched
<1>7. /\ InForce' /\ ChosenLater' /\ Done' /\ win_next' = win_next
      /\ Settled' = Settled
  BY <1>2, <1>3 DEF InSched, InForce, TestRuns, Runs, All, Alone, Tseq, ChosenLater, Chosen,
     AllChosen, control, params, loop, aux, Done, Below, Windows, Cursor, Settled, Chief, SingleCpuTest
<1>8. Settle(IF pc[0] = "copied" THEN Other(fresh) ELSE fresh)'
  <2>1. 0 \in CPU /\ \A q \in CPU : loc[q] \in {"low", "high"}
    BY <1>3, Shapes DEF TypeOK
  <2>2. CASE p = 0
    <3>1. \A q \in CPU : loc[q] = loc[0]
      BY <1>1, <1>3, <2>1, <2>2 DEF InSched, Settle
    <3>2. pc'[0] = "copied" /\ fresh' = Other(loc[0])
      BY <1>1, <1>2, <2>2, Moved
    <3>3. Other(fresh') = loc[0]
      BY <2>1, <3>2 DEF Other
    <3> QED
      BY <1>2, <3>1, <3>2, <3>3 DEF Settle, Other
  <2>3. CASE p # 0
    <3>1. pc'[0] = pc[0]
      BY <1>1, <2>1, <2>3, Moved
    <3> QED
      BY <1>2, <1>3, <2>3, <3>1 DEF InSched, Settle, Other
  <2> QED
    BY <2>2, <2>3
<1>9. ASSUME NEW q \in CPU
      PROVE  /\ pc'[q] \in {"copy", "copied", "select", "selected"} =>
                  Settled' /\ win_next' <= MaxMem
             /\ pc'[q] \in {"copy", "copied"} => (window' = 0 <=> loc'[q] = "low")
             /\ pc'[q] \in {"select", "selected"} => (window' = 0 <=> loc'[q] = "high")
             /\ pc'[q] = "selected" => (run'[q] <=> q \in Team')
             /\ pc'[q] = "end" => win_next' > MaxMem
  <2>1. /\ loc' = loc /\ run' = run /\ mstr_cpu' = mstr_cpu /\ run_cpus' = run_cpus
        /\ window' = window
    BY <1>2 DEF control, loop
  <2>2. pc'[q] = pc[q] \/ (pc[q] = "copy" /\ pc'[q] = "copied")
    BY <1>1, Moved
  <2>3. Team' = Team
    BY <1>2 DEF control, Team, Chief, All, Tseq, SingleCpuTest
  <2> QED
    BY <1>3, <1>7, <2>1, <2>2, <2>3 DEF InSched
<1>10. pc'[Chief'] = "selected" => mstr_cpu' = Chief' /\ run_cpus' = Size'
  <2>1. Chief \in CPU /\ Chief' = Chief /\ Size' = Size
    BY <1>2, <1>3, Kinds DEF InSched, InForce, control, Chief, Size, All, Tseq, SingleCpuTest
  <2>2. pc'[Chief] = "selected" => pc[Chief] = "selected"
    BY <1>1, <2>1, Moved
  <2> QED
    BY <1>2, <1>3, <2>1, <2>2 DEF InSched, control
<1>11. InSched'
  BY <1>3, <1>6, <1>7, <1>8, <1>9, <1>10 DEF InSched
<1> QED
  BY <1>4, <1>5, <1>11 DEF IInv, InPhase

LEMMA JumpInv ==
  ASSUME CodeList, IInv, NEW p \in CPU, Jump(p)
  PROVE  IInv'
<1>1. pc[p] = "jump" /\ Moves(p, "restart") /\ "restart" \in AllLabels
  BY DEF Jump, Goto, Moves, Labels, AllLabels, Sites, SSites
<1>2. /\ mutex' = p /\ loc' = [loc EXCEPT ![p] = Other(@)]
      /\ UNCHANGED <<control, loop, s_maxproc, fresh, run, aux>>
  BY DEF Jump
<1>3. TypeOK /\ Quiet /\ InCopied
  BY <1>1, PhaseOf DEF IInv
<1>4. /\ loc' \in [CPU -> {"low", "high"}] /\ loc'[p] = Other(loc[p])
      /\ \A q \in CPU : q # p => loc'[q] = loc[q]
  BY <1>2, <1>3 DEF TypeOK, Other
<1>5. TypeOK'
  BY <1>1, <1>2, <1>3, <1>4, Moved DEF TypeOK, control, params, loop, aux, AllLabels, Labels
<1>6. AtBarrier' /\ Quiet'
  BY <1>1, <1>2, <1>3, Moved DEF Quiet, control, loop
<1>7. Where("copied", {"jump", "restart"}, {"started"})'
  BY <1>1, <1>3, Moved DEF InCopied
<1>8. InForce' /\ ChosenLater' /\ Done' /\ Settled' /\ WindowLeft'
  BY <1>2, <1>3 DEF InCopied, InForce, TestRuns, Runs, All, Alone, Tseq, ChosenLater, Chosen,
     AllChosen, control, params, loop, aux, Done, Below, Windows, Cursor, Settled, WindowLeft,
     Chief, SingleCpuTest
<1>9. ASSUME NEW q \in CPU
      PROVE  loc'[q] = IF pc'[q] \in {"restart", "started"} THEN fresh' ELSE Other(fresh')
  <2>1. CASE q = p
    <3>1. loc[p] = Other(fresh) /\ pc'[p] = "restart" /\ fresh \in {"low", "high"}
      BY <1>1, <1>3, Moved DEF InCopied, TypeOK
    <3> QED
      BY <1>2, <1>4, <2>1, <3>1 DEF Other
  <2>2. CASE q # p
    BY <1>1, <1>2, <1>3, <1>4, <2>2, Moved DEF InCopied, Other
  <2> QED
    BY <2>1, <2>2
<1>10. InCopied'
  BY <1>7, <1>8, <1>9 DEF InCopied, Other
<1> QED
  BY <1>5, <1>6, <1>10 DEF IInv, InPhase

LEMMA RestartInv ==
  ASSUME CodeList, IInv, NEW p \in CPU, Restart(p)
  PROVE  IInv'
<1>1. pc[p] = "restart" /\ Moves(p, "started") /\ "started" \in AllLabels
  BY DEF Restart, Goto, Moves, Labels, AllLabels, Sites, SSites
<1>2. mutex' = NumCpus /\ UNCHANGED <<control, loop, s_maxproc, loc, fresh, run, aux>>
  BY DEF Restart
<1>3. TypeOK /\ Quiet /\ InCopied
  BY <1>1, PhaseOf DEF IInv
<1>4. TypeOK'
  BY <1>1, <1>2, <1>3, Moved DEF TypeOK, control, params, loop, aux, AllLabels, Labels
<1>5. AtBarrier' /\ Quiet'
  BY <1>1, <1>2, <1>3, Moved DEF Quiet, control, loop
<1>6. Where("copied", {"jump", "restart"}, {"started"})'
  BY <1>1, <1>3, Moved DEF InCopied
<1>7. InForce' /\ ChosenLater' /\ Done' /\ Settled' /\ WindowLeft'
  BY <1>2, <1>3 DEF InCopied, InForce, TestRuns, Runs, All, Alone, Tseq, ChosenLater, Chosen,
     AllChosen, control, params, loop, aux, Done, Below, Windows, Cursor, Settled, WindowLeft,
     Chief, SingleCpuTest
<1>8. ASSUME NEW q \in CPU
      PROVE  loc'[q] = IF pc'[q] \in {"restart", "started"} THEN fresh' ELSE Other(fresh')
  BY <1>1, <1>2, <1>3, Moved DEF InCopied, Other
<1>9. InCopied'
  BY <1>6, <1>7, <1>8 DEF InCopied, Other
<1> QED
  BY <1>4, <1>5, <1>9 DEF IInv, InPhase

\* The test asks for all CPUs, for the one whose turn it is, or for CPU 0.
LEMMA Selects ==
  ASSUME TypeOK, Quiet, TestRuns, NEW p \in CPU, Select(p)
  PROVE  /\ run' = [run EXCEPT ![p] = (p \in Team)]
         /\ \/ mstr_cpu' = Chief /\ run_cpus' = Size
            \/ p # Chief /\ ~All(test) /\ UNCHANGED <<mstr_cpu, run_cpus>>
<1>1. Tseq(test).cpus \in Int /\ NumCpus \in Nat /\ NumCpus >= 2
  BY Kinds, NumAssumption
<1>2. OneCpu <=> SingleCpuTest(test)
  BY DEF OneCpu, Quiet
<1> DEFINE n == IF NumCpus < Tseq(test).cpus THEN NumCpus ELSE Tseq(test).cpus
<1>3. CASE SingleCpuTest(test)
  <2>1. ~All(test) /\ Chief = cpu_sel /\ Team = {cpu_sel} /\ Size = 1
    BY <1>3, Kinds DEF Chief
  <2>2. SelectOne(p)
    BY <1>2, <1>3 DEF Select, SelectMany
  <2>3. run' = [run EXCEPT ![p] = (p = cpu_sel)]
    BY <2>2 DEF SelectOne
  <2>4. run' = [run EXCEPT ![p] = (p \in Team)]
    BY <2>1, <2>3
  <2> QED
    BY <2>1, <2>2, <2>4 DEF SelectOne
<1>4. CASE ~SingleCpuTest(test)
  <2>1. SelectMany(p)
    BY <1>2, <1>4 DEF Select, SelectOne
  <2>2. run' = [run EXCEPT ![p] = p < Tseq(test).cpus] /\ mstr_cpu' = n - 1 /\ run_cpus' = n
    BY <2>1 DEF SelectMany
  <2>3. n = Size /\ n - 1 = Chief
    <3>1. CASE All(test)
      BY <1>1, <3>1, Kinds DEF All, Master
    <3>2. CASE ~All(test)
      <4>1. Tseq(test).cpus = 1
        BY <1>4, <3>2, Kinds DEF SingleCpuTest
      <4> QED
        BY <1>1, <1>4, <3>2, <4>1, Kinds
    <3> QED
      BY <3>1, <3>2
  <2>4. p < Tseq(test).cpus <=> p \in Team
    <3>1. CASE All(test)
      BY <1>1, <3>1, Kinds DEF All, CPU
    <3>2. CASE ~All(test)
      <4>1. Tseq(test).cpus = 1 /\ Team = {0}
        BY <1>4, <3>2, Kinds DEF SingleCpuTest
      <4> QED
        BY <1>1, <4>1 DEF CPU
    <3> QED
      BY <3>1, <3>2
  <2>5. (p < Tseq(test).cpus) = (p \in Team)
    BY <1>1, <2>4
  <2> QED
    BY <2>2, <2>3, <2>5
<1> QED
  BY <1>3, <1>4

LEMMA SelectInv ==
  ASSUME CodeList, IInv, NEW p \in CPU, Select(p)
  PROVE  IInv'
<1>1. pc[p] = "select" /\ Moves(p, "selected") /\ "selected" \in AllLabels
  BY DEF Select, Goto, Moves, sync, Labels, AllLabels, Sites, SSites
<1>2. UNCHANGED <<test, cpu_mode, cpu_sel, bitf_seq, pass_flag, params, loop, s_maxproc, mutex,
                  loc, fresh, aux>>
  BY DEF Select, sync
<1>3. TypeOK /\ Quiet /\ InSched /\ TestRuns
  BY <1>1, PhaseOf DEF IInv, InSched, InForce
<1>4. /\ run' = [run EXCEPT ![p] = (p \in Team)]
      /\ \/ mstr_cpu' = Chief /\ run_cpus' = Size
         \/ p # Chief /\ ~All(test) /\ UNCHANGED <<mstr_cpu, run_cpus>>
  BY <1>3, Selects
<1>5. /\ run' \in [CPU -> BOOLEAN] /\ (run'[p] <=> p \in Team)
      /\ \A q \in CPU : q # p => run'[q] = run[q]
  <2> DEFINE b == p \in Team
  <2>1. b \in BOOLEAN /\ (b <=> p \in Team)
    OBVIOUS
  <2>2. run' = [run EXCEPT ![p] = b]
    BY <1>4
  <2> HIDE DEF b
  <2>3. run' \in [CPU -> BOOLEAN] /\ run'[p] = b /\ \A q \in CPU : q # p => run'[q] = run[q]
    BY <1>3, <2>1, <2>2 DEF TypeOK
  <2> QED
    BY <2>1, <2>3
<1>6. Chief \in CPU /\ Size \in 1 .. NumCpus /\ Size \in 0 .. NumCpus
  <2>1. Chief \in CPU /\ Size \in 1 .. NumCpus
    BY <1>3, Kinds
  <2> QED
    BY <2>1, NumAssumption
<1>7. TypeOK'
  BY <1>1, <1>2, <1>3, <1>4, <1>5, <1>6, Moved DEF TypeOK, params, loop, aux, AllLabels, Labels
<1>8. AtBarrier' /\ Quiet'
  BY <1>1, <1>2, <1>3, Moved DEF Quiet, loop
<1>9. Where("sched", {"copy", "select"}, {"copied", "selected", "end"})'
  BY <1>1, <1>3, Moved DEF InSched
<1>10. UNCHANGED <<All(test), Chief, Team, Size, Settled>>
  BY <1>2 DEF All, Chief, Team, Size, Tseq, SingleCpuTest, Settled, loop
<1>11. InForce' /\ Done' /\ win_next' = win_next
  BY <1>2, <1>3, <1>10 DEF InSched, InForce, TestRuns, Runs, All, Alone, Tseq, params, loop, aux,
     Done, Below, Windows, Cursor
<1>12. ChosenLater'
  <2>1. SUFFICES ASSUME win_next > 0, All(test) PROVE Chosen'
    BY <1>10, <1>11 DEF ChosenLater
  <2>2. Chosen /\ Chief = Master /\ Size = NumCpus /\ Team = CPU
    BY <1>3, <2>1, Kinds DEF InSched, ChosenLater
  <2> QED
    BY <1>2, <1>4, <1>5, <2>1, <2>2 DEF Chosen, AllChosen
<1>13. Settle(IF pc[0] = "copied" THEN Other(fresh) ELSE fresh)'
  <2>1. 0 \in CPU /\ (pc'[0] = "copied" <=> pc[0] = "copied")
    BY <1>1, <1>3, Moved, Shapes
  <2> QED
    BY <1>2, <1>3, <2>1 DEF InSched, Settle, Other
<1>14. ASSUME NEW q \in CPU
       PROVE  /\ pc'[q] \in {"copy", "copied", "select", "selected"} =>
                   Settled' /\ win_next' <= MaxMem
              /\ pc'[q] \in {"copy", "copied"} => (window' = 0 <=> loc'[q] = "low")
              /\ pc'[q] \in {"select", "selected"} => (window' = 0 <=> loc'[q] = "high")
              /\ pc'[q] = "selected" => (run'[q] <=> q \in Team')
              /\ pc'[q] = "end" => win_next' > MaxMem
  <2>1. loc' = loc /\ window' = window
    BY <1>2 DEF loop
  <2>2. (q # p /\ pc'[q] = pc[q] /\ run'[q] = run[q])
        \/ (q = p /\ pc[q] = "select" /\ pc'[q] = "selected")
    BY <1>1, <1>5, Moved
  <2> QED
    BY <1>3, <1>5, <1>10, <1>11, <2>1, <2>2 DEF InSched
<1>15. pc'[Chief'] = "selected" => mstr_cpu' = Chief' /\ run_cpus' = Size'
  <2>1. p # Chief => pc'[Chief] = pc[Chief]
    BY <1>1, <1>6, Moved
  <2> QED
    BY <1>3, <1>4, <1>10, <2>1 DEF InSched
<1>16. InSched'
  BY <1>3, <1>9, <1>11, <1>12, <1>13, <1>14, <1>15 DEF InSched
<1> QED
  BY <1>7, <1>8, <1>16 DEF IInv, InPhase

LEMMA SubInitInv ==
  ASSUME CodeList, IInv, NEW p \in CPU, SubInit(p)
  PROVE  IInv'
<1>1. pc[p] = "subinit" /\ Moves(p, "ready") /\ "ready" \in AllLabels
  BY DEF SubInit, Goto, Moves, AllLabels, Sites, SSites
<1>2. /\ s_maxproc' = IF p = mstr_cpu THEN run_cpus ELSE s_maxproc
      /\ UNCHANGED <<control, loop, mutex, loc, fresh, run, aux>>
  BY DEF SubInit
<1>3. TypeOK /\ Quiet /\ InSelected
  BY <1>1, PhaseOf DEF IInv
<1>4. TypeOK'
  BY <1>1, <1>2, <1>3, Moved DEF TypeOK, control, params, loop, aux, AllLabels, Labels
<1>5. AtBarrier' /\ Quiet'
  BY <1>1, <1>2, <1>3, Moved DEF Quiet, control, loop
<1>6. Where("selected", {"subinit"}, {"ready"})'
  BY <1>1, <1>3, Moved DEF InSelected
<1>7. UNCHANGED <<All(test), Chief, Team, Size>> /\ Chief \in CPU
  BY <1>2, <1>3, Kinds DEF InSelected, Ours, InForce, All, Chief, Team, Size, Tseq, SingleCpuTest,
     control
<1>8. Ours' /\ win_next' = win_next
  <2>1. TeamChosen' = TeamChosen
    BY <1>2, <1>7 DEF TeamChosen, control
  <2>2. Done' = Done
    BY <1>2, <1>7 DEF Done, Below, Windows, Cursor, Tseq, control, loop, aux
  <2>3. InForce' = InForce
    BY <1>2 DEF InForce, TestRuns, Runs, All, Alone, Tseq, control, params
  <2> QED
    BY <1>2, <1>3, <2>1, <2>2, <2>3 DEF InSelected, Ours, Settle, control, loop, Settled, Tseq,
       WindowLeft
<1>9. (win_next' > 0 /\ (All(test))') \/ pc'[Chief'] = "ready" => s_maxproc' = Size'
  <2>1. TeamChosen
    BY <1>3 DEF InSelected, Ours
  <2>2. CASE p = Chief
    BY <1>2, <1>7, <2>1, <2>2 DEF TeamChosen
  <2>3. CASE p # Chief
    <3>1. pc'[Chief] = pc[Chief] /\ s_maxproc' = s_maxproc
      BY <1>1, <1>2, <1>7, <2>1, <2>3, Moved DEF TeamChosen
    <3> QED
      BY <1>3, <1>7, <1>8, <3>1 DEF InSelected
  <2> QED
    BY <2>2, <2>3
<1>10. InSelected'
  BY <1>6, <1>8, <1>9 DEF InSelected
<1> QED
  BY <1>4, <1>5, <1>10 DEF IInv, InPhase

\* The master picks the window: for all CPUs, or for itself.
LEMMA PickInv ==
  ASSUME CodeList, IInv, NEW p \in CPU, Pick(p)
  PROVE  IInv'
<1>1. pc[p] = "pick" /\ Moves(p, "window") /\ "window" \in AllLabels
  BY DEF Pick, Goto, Moves, sync, AllLabels, Sites, SSites
<1>2. UNCHANGED <<control, bail, s_maxproc, mutex, loc, fresh, run, aux>>
  BY DEF Pick, sync
<1>3. TypeOK /\ Quiet /\ (InReady \/ InSoloReady) /\ Master \in CPU
  BY <1>1, PhaseOf, Shapes DEF IInv
<1>4. InReady => mstr_cpu = Master
  BY <1>3, TeamIsAll DEF InReady, Ours, InForce, Picked, Chosen, AllChosen
<1>5. CASE p # mstr_cpu
  <2>1. InReady /\ p # Master
    BY <1>1, <1>3, <1>4, <1>5 DEF InSoloReady
  <2>2. UNCHANGED Data
    BY <1>2, <1>5 DEF Pick, Data, loop
  <2>3. TypeOK' /\ AtBarrier' /\ Quiet'
    BY <1>1, <2>2, OnlyMoves
  <2>4. pc'[Master] = pc[Master]
    BY <1>1, <1>3, <2>1, Moved
  <2>5. Where("ready", {"pick"}, {"window"})'
    BY <1>1, <2>1, Moved DEF InReady
  <2>6. InReady'
    BY <2>1, <2>2, <2>4, <2>5, SameData, SameWindows DEF InReady
  <2> QED
    BY <2>3, <2>6 DEF IInv, InPhase
<1>6. CASE p = mstr_cpu
  <2>1. Ours /\ pc'[p] = "window" /\ \A q \in CPU : q # p => pc'[q] = pc[q]
    BY <1>1, <1>3, <1>4, <1>6, Moved DEF InReady, InSoloReady
  <2>2. /\ winx' = NextWindow
        /\ window' = IF window \in {0, 1} THEN window + 1 ELSE window
        /\ win_next' = IF window = 0 THEN win_next ELSE win_next + 1
        /\ segs' = IF NextWindow <= LastWin THEN 1 ELSE 0
    BY <1>6 DEF Pick
  <2>3. /\ window \in 0 .. 2 /\ win_next \in Nat /\ (window # 2 => win_next = 0)
        /\ win_next <= LastWin + 1 /\ win_next <= MaxMem
    BY <1>3, <2>1, BoundAssumption DEF TypeOK, Quiet, Ours, WindowLeft
  <2>4. /\ winx' = Cursor /\ winx' \in Int /\ winx' >= Low /\ winx' <= LastWin + 1
        /\ winx' <= MaxMem /\ (winx' = Low <=> window = 0)
        /\ win_next' = winx' + 1 /\ window' \in {1, 2} /\ (window' # 2 => win_next' = 0)
    BY <2>2, <2>3, BoundAssumption DEF NextWindow, Cursor, Low
  <2>5. segs' = IF winx' <= LastWin THEN 1 ELSE 0
    BY <2>2
  <2>6. TypeOK'
    BY <1>1, <1>2, <1>3, <2>3, <2>4, <2>5, BoundAssumption, Moved
       DEF TypeOK, control, params, aux, AllLabels, Labels, Low
  <2>7. AtBarrier' /\ Quiet'
    BY <1>1, <1>2, <1>3, <2>4, Moved DEF Quiet, control
  <2>8. InForce' /\ Settle(fresh)'
    BY <1>2, <2>1 DEF Ours, InForce, TestRuns, Runs, All, Alone, Tseq, Settle, control, params
  <2>9. (winx' = Low => Tseq(test').pat # 11) /\ (winx' = Low <=> fresh' = "high")
    BY <1>2, <2>1, <2>4 DEF Ours, Settled, control, Tseq
  <2>10. Fits'
    BY <2>4, <2>5, <2>8, <2>9 DEF Fits, Tseq
  <2>11. UNCHANGED <<tested, Windows, All(test), Chief, mstr_cpu>> /\ Below(winx)' = Below(Cursor)
    BY <1>2, <2>4 DEF control, aux, Windows, Tseq, All, Chief, SingleCpuTest, Below
  <2>12. CASE InReady
    <3>1. Chosen'
      BY <1>1, <1>2, <1>4, <1>6, <2>12 DEF InReady, Chosen, AllChosen, control
    <3>2. Picked'
      BY <2>4, <2>10, <2>11, <2>12, <3>1 DEF Picked, InReady
    <3>3. Before'
      BY <1>3, <2>1, <2>11, <2>12, TeamIsAll DEF Ours, InForce, InReady, Before
    <3>4. Where("ready", {"pick"}, {"window"})'
      BY <1>1, <2>12, Moved DEF InReady
    <3>5. InReady'
      BY <1>4, <1>6, <2>1, <2>11, <2>12, <3>2, <3>3, <3>4 DEF InReady
    <3> QED
      BY <2>6, <2>7, <3>5 DEF IInv, InPhase
  <2>13. CASE InSoloReady
    <3>1. Lone' /\ NoWait'
      BY <1>1, <1>2, <2>13, Moved DEF InSoloReady, Lone, control
    <3>2. /\ mstr_cpu = Chief /\ tested \subseteq {Chief} \X Windows
          /\ {Chief} \X Below(Cursor) \subseteq tested
      BY <2>13 DEF InSoloReady, Ours, TeamChosen, Done
    <3>3. window' # 0
      BY <2>4
    <3>4. Apart'
      BY <2>4, <2>10, <2>11, <2>13, <3>1, <3>2, <3>3 DEF Apart, InSoloReady
    <3>5. \A q \in CPU : \/ pc'[q] = "ready" /\ Gone(q)'
                         \/ pc'[q] \in {"window", "loop"}
                         \/ pc'[q] \in {"sched"} /\ ~Gone(q)'
      <4>1. TypeOK /\ AtBarrier
        BY DEF IInv
      <4>2. \A q \in CPU : q # p => (Gone(q)' <=> Gone(q))
        BY <1>1, <4>1, Moving
      <4> QED
        BY <1>6, <2>1, <2>13, <4>2 DEF InSoloReady, Where
    <3>6. Where("ready", {"window", "keys", "tick", "loop", "end", "top"}, {"sched"})'
      BY <3>5 DEF Where
    <3>7. pc'[mstr_cpu'] = "window"
      BY <1>6, <2>1, <2>11
    <3>8. \A q \in CPU : q # mstr_cpu' => pc'[q] \in {"ready", "loop", "sched"}
      BY <1>6, <2>1, <2>11, <2>13 DEF InSoloReady, Where
    <3>9. InSoloWindow'
      BY <3>1, <3>4, <3>6, <3>7, <3>8 DEF InSoloWindow
    <3> QED
      BY <2>6, <2>7, <3>9 DEF IInv, InPhase
  <2> QED
    BY <1>3, <2>12, <2>13
<1> QED
  BY <1>5, <1>6

LEMMA TestInv ==
  ASSUME CodeList, IInv, NEW p \in CPU, Test(p)
  PROVE  IInv'
<1>1. pc[p] = "tick" /\ sstage[p] = "go" /\ Moves(p, "loop") /\ "loop" \in AllLabels
  BY DEF Test, SPasses, Goto, Moves, AllLabels, Labels, Sites, SSites
<1>2. TypeOK /\ Quiet
  BY DEF IInv
<1>3. /\ tested' = tested \cup {<<p, winx>>}
      /\ UNCHANGED <<control, loop, s_maxproc, mutex, loc, fresh, run, machine, keys>>
  BY <1>2 DEF Test, Quiet
<1>4. TypeOK'
  BY <1>1, <1>2, <1>3, Moved DEF TypeOK, control, params, loop, AllLabels, Labels
<1>5. AtBarrier' /\ Quiet'
  BY <1>1, <1>2, <1>3, Moved DEF Quiet, control, loop
<1>6. CASE InTick
  <2>1. Where("tick", {"loop"}, {"sched", "end"})'
    BY <1>1, <1>6, Moved DEF InTick
  <2>2. UNCHANGED <<win_next, winx, segs, test, machine>> /\ Picked'
    BY <1>3, <1>6 DEF InTick, Picked, Fits, InForce, TestRuns, Runs, All, Alone, Tseq, Chosen,
       AllChosen, Settle, control, params, loop
  <2>3. Below(winx)' = Below(winx)
    BY <2>2 DEF Below, Windows, Tseq
  <2>4. {q \in CPU : pc'[q] # "tick"} = {q \in CPU : pc[q] # "tick"} \cup {p}
    BY <1>1, Moved
  <2>5. tested' = (CPU \X Below(winx)') \cup ({q \in CPU : pc'[q] # "tick"} \X {winx'})
    <3>1. tested = (CPU \X Below(winx)) \cup ({q \in CPU : pc[q] # "tick"} \X {winx})
      BY <1>6 DEF InTick
    <3> DEFINE others == {q \in CPU : pc[q] # "tick"}
    <3>2. (others \cup {p}) \X {winx} = (others \X {winx}) \cup {<<p, winx>>}
      OBVIOUS
    <3>3. tested' = (CPU \X Below(winx)) \cup ((others \cup {p}) \X {winx})
      BY <1>3, <3>1, <3>2
    <3> QED
      BY <2>2, <2>3, <2>4, <3>3
  <2>6. \A q \in CPU : /\ pc'[q] = "sched" => win_next' <= LastWin + 1
                       /\ pc'[q] = "end" => win_next' > LastWin + 1
    BY <1>1, <1>6, <2>2, Moved DEF InTick
  <2>7. InTick'
    BY <1>6, <2>1, <2>2, <2>5, <2>6 DEF InTick
  <2> QED
    BY <1>4, <1>5, <2>7 DEF IInv, InPhase
<1>7. CASE InSoloWindow
  <2>1. p = mstr_cpu /\ segs = 1 /\ winx < MapEnd
    BY <1>1, <1>7 DEF InSoloWindow
  <2>2. /\ tested \subseteq {mstr_cpu} \X Windows /\ {mstr_cpu} \X Below(winx) \subseteq tested
        /\ Fits
    BY <1>7 DEF InSoloWindow, Apart
  <2>3. winx \in Windows /\ Below(winx + 1) = Below(winx) \cup {winx}
    BY <1>2, <1>7, <2>1, <2>2, NextBelow, Picks
  <2>4. /\ tested' \subseteq {mstr_cpu} \X Windows /\ tested \subseteq tested'
        /\ {mstr_cpu} \X Below(winx + 1) \subseteq tested'
    BY <1>3, <2>1, <2>2, <2>3
  <2>5. InSoloWindow'
    BY <1>1, <1>3, <1>7, <2>1, <2>4, SoloMaster
  <2> QED
    BY <1>4, <1>5, <2>5 DEF IInv, InPhase
<1> QED
  BY <1>1, <1>6, <1>7, Leaving DEF Gone
-----------------------------------------------------------------------------
(***************************************************************************)
(* The end of a test.                                                      *)
(***************************************************************************)
LEMMA ResetInv ==
  ASSUME CodeList, IInv, NEW p \in CPU, Reset(p)
  PROVE  IInv'
<1> DEFINE to == IF p = mstr_cpu THEN "house" ELSE "top"
<1>1. pc[p] = "end" /\ sstage[p] = "go" /\ Moves(p, to) /\ to \in AllLabels
  BY DEF Reset, SPasses, Goto, Moves, AllLabels, Labels, Sites, SSites
<1>2. /\ win_next' = 0 /\ window' = 0 /\ bail' = 0
      /\ UNCHANGED <<control, segs, winx, s_maxproc, mutex, loc, fresh, run, aux>>
  BY DEF Reset
<1>3. TypeOK /\ Quiet /\ mstr_cpu \in CPU
  BY Shapes DEF IInv
<1>4. TypeOK'
  BY <1>1, <1>2, <1>3, BoundAssumption, Moved DEF TypeOK, control, params, aux, AllLabels, Labels
<1>5. AtBarrier' /\ Quiet'
  BY <1>1, <1>2, <1>3, Moved DEF Quiet, control
<1>6. UNCHANGED <<test, cpu_sel, ltest, pass_flag, tested, mstr_cpu, run_cpus, machine>>
  BY <1>2 DEF control, params, aux
<1>7. TestRuns' = TestRuns /\ Windows' = Windows
  BY <1>6 DEF TestRuns, Runs, All, Alone, Windows, Tseq
<1>8. CASE InEnd
  <2>1. p = mstr_cpu => /\ tested = {q \in CPU : run[q]} \X Windows
                        /\ TestRuns /\ pass_flag = 0
    BY <1>1, <1>8 DEF InEnd
  <2>2. to \in EndLabels \cup {"sched"} /\ (p # mstr_cpu => to = "top") /\ (p = mstr_cpu => to = "house")
    BY DEF EndLabels
  <2> HIDE DEF to
  <2>3. InEnd'
    BY <1>1, <1>2, <1>6, <1>7, <1>8, <2>1, <2>2, EndStep
  <2> QED
    BY <1>4, <1>5, <2>3 DEF IInv, InPhase
<1>9. CASE InSoloWindow /\ p # mstr_cpu
  <2>1. segs = 0 /\ to = "top"
    BY <1>1, <1>9 DEF InSoloWindow
  <2>2. InSoloWindow'
    BY <1>1, <1>2, <1>6, <1>9, <2>1, SoloOther
  <2> QED
    BY <1>4, <1>5, <2>2 DEF IInv, InPhase
<1>10. CASE InSoloWindow /\ p = mstr_cpu
  <2>1. to = "house" /\ pc'[p] = "house" /\ \A q \in CPU : q # p => pc'[q] = pc[q]
    BY <1>1, <1>10, Moved
  <2>2. Lone' /\ NoWait' /\ run_cpus' = 1
    BY <1>1, <1>2, <1>10, Moved DEF InSoloWindow, Apart, Lone, control
  <2>3. Where("ready", {"window", "keys", "tick", "loop", "end", "top", "house"}, {"sched"})
    BY <1>10 DEF InSoloWindow, Where
  <2>4. Where("ready", {"window", "keys", "tick", "loop", "end", "top", "house"}, {"sched"})'
    BY <1>1, <2>1, <2>3, Moved
  <2>5. \A q \in CPU : q # mstr_cpu' => pc'[q] \in {"ready", "loop", "end", "top", "sched"}
    BY <1>6, <1>10, <2>1 DEF InSoloWindow, Where
  <2>6. \A q \in CPU : pc'[q] \notin {"window", "keys", "tick"}
    BY <1>6, <1>10, <2>1, <2>5
  <2>7. Where(EndFrom, EndBetween, {"sched"})'
    BY <2>2, <2>4, <2>6 DEF Where, EndFrom, EndBetween, EndLabels
  <2>8. Settle(fresh)' /\ TestRuns' /\ pass_flag' = 0
    BY <1>2, <1>6, <1>7, <1>10 DEF InSoloWindow, Apart, Fits, InForce, Settle
  <2>9. tested' = {q \in CPU : run'[q]} \X Windows'
    <3>1. tested = {mstr_cpu} \X Windows
      BY <1>1, <1>10 DEF InSoloWindow, Apart
    <3>2. {q \in CPU : run'[q]} = {mstr_cpu}
      BY <1>3, <1>6, <2>2 DEF Lone
    <3> QED
      BY <1>6, <1>7, <3>1, <3>2
  <2>10. InEnd'
    BY <1>2, <1>6, <1>10, <2>1, <2>2, <2>5, <2>7, <2>8, <2>9 DEF InEnd
  <2> QED
    BY <1>4, <1>5, <2>10 DEF IInv, InPhase
<1> QED
  BY <1>1, <1>8, <1>9, <1>10, Leaving DEF Gone

LEMMA HouseInv ==
  ASSUME CodeList, IInv, NEW p \in CPU, House(p)
  PROVE  IInv'
<1>1. pc[p] = "house" /\ TypeOK /\ Quiet
  BY DEF House, Goto, IInv
<1>2. InEnd
  BY <1>1, PhaseOf DEF EndLabels
<1>3. p = mstr_cpu /\ TestRuns /\ pass_flag = 0
  BY <1>1, <1>2 DEF InEnd
<1> DEFINE fading == Tseq(test).pat = 11 /\ bitf_seq # FadeSteps
           turn == SingleCpuTest(test)
           to == IF fading \/ (turn /\ NextCpu # 0) THEN "top" ELSE "next"
<1>4. /\ pc' = [pc EXCEPT ![p] = to] /\ tested' = {} /\ cpu_sel' \in {cpu_sel, NextCpu}
      /\ bitf_seq' = IF fading THEN bitf_seq + 1 ELSE 0
      /\ UNCHANGED <<test, cpu_mode, mstr_cpu, run_cpus, pass_flag, params, loop, sync, loc, fresh,
                     run, machine, keys>>
  BY <1>1 DEF House, Goto, Quiet
<1>5. Moves(p, to) /\ to \in {"top", "next"} /\ to \in EndLabels /\ to \in AllLabels
  BY <1>1, <1>4 DEF Moves, sync, EndLabels, AllLabels, Labels, Sites, SSites
<1>6. bitf_seq' \in 0 .. FadeSteps
  BY <1>1, <1>4, BoundAssumption DEF TypeOK
<1>7. cpu_sel' \in CPU
  <2>1. cpu_sel \in CPU /\ NumCpus \in Nat /\ NumCpus >= 2
    BY <1>1, NumAssumption DEF TypeOK
  <2>2. NextCpu \in CPU
    BY <2>1 DEF NextCpu, CPU
  <2> QED
    BY <1>4, <2>1, <2>2
<1>8. TypeOK'
  BY <1>1, <1>4, <1>5, <1>6, <1>7, Moved DEF TypeOK, params, loop, sync, AllLabels, Labels
<1>9. AtBarrier' /\ Quiet'
  BY <1>1, <1>4, <1>5, Moved DEF Quiet, loop
<1>10. TestRuns' /\ pass_flag' = 0
  BY <1>3, <1>4 DEF TestRuns, Runs, All, Alone, Tseq
<1>11. win_next' = 0 /\ window' = 0
  BY <1>1, <1>2, <1>4, EndWindows DEF loop
<1>12. UNCHANGED <<mstr_cpu, run_cpus, run, s_maxproc, loc, fresh>>
  BY <1>4 DEF sync
<1> HIDE DEF to
<1>13. InEnd'
  BY <1>2, <1>3, <1>4, <1>5, <1>10, <1>11, <1>12, EndStep
<1> QED
  BY <1>8, <1>9, <1>13 DEF IInv, InPhase

LEMMA AdvanceInv ==
  ASSUME CodeList, IInv, NEW p \in CPU, Advance(p)
  PROVE  IInv'
<1> DEFINE to == IF pc[p] = "rescan" THEN "rescan" ELSE "scan"
<1>1. /\ pc[p] \in {"next", "scan", "rescan"} /\ pc' = [pc EXCEPT ![p] = to]
      /\ pc[p] # "next" => Unselected(test)
      /\ test' = test + 1
      /\ UNCHANGED <<cpu_mode, cpu_sel, mstr_cpu, run_cpus, bitf_seq, pass_flag, params, loop, sync,
                     loc, fresh, run, aux>>
  BY DEF Advance, Goto
<1>2. TypeOK /\ Quiet /\ InEnd
  BY <1>1, PhaseOf DEF EndLabels, IInv
<1>3. Moves(p, to) /\ to \in {"scan", "rescan"} /\ to \in EndLabels /\ to \in AllLabels
  BY <1>1 DEF Moves, sync, EndLabels, AllLabels, Labels, Sites, SSites
<1>4. p = mstr_cpu
  BY <1>1, <1>2 DEF InEnd
<1>5. Len(TestSeq) \in Nat /\ test \in 0 .. Len(TestSeq) - 1
  BY <1>2, ListAssumption DEF TypeOK
<1>6. test \in 0 .. Len(TestSeq) - 2
  <2>1. CASE pc[p] = "next"
    BY <1>2, <1>4, <2>1 DEF InEnd, TestRuns
  <2>2. CASE pc[p] # "next"
    BY <1>1, <1>5, <2>2, ListAssumption DEF Unselected
  <2> QED
    BY <2>1, <2>2
<1>7. test' \in 0 .. Len(TestSeq) - 1
  BY <1>1, <1>5, <1>6
<1>8. to = "rescan" => \E t \in test' .. Len(TestSeq) - 2 : Tseq(t).sel
  <2>1. SUFFICES ASSUME pc[p] = "rescan" PROVE \E t \in test' .. Len(TestSeq) - 2 : Tseq(t).sel
    OBVIOUS
  <2>2. PICK t \in test .. Len(TestSeq) - 2 : Tseq(t).sel
    BY <1>2, <1>4, <2>1 DEF InEnd
  <2>3. t # test
    BY <1>1, <2>1, <2>2 DEF Unselected
  <2> QED
    BY <1>1, <1>5, <1>6, <2>2, <2>3
<1>9. to # "rescan" => pass_flag' = 0
  BY <1>1, <1>2, <1>4 DEF InEnd
<1>10. tested' = {} /\ win_next' = 0 /\ window' = 0
  BY <1>1, <1>2, <1>4, EndWindows DEF InEnd, aux, loop
<1>11. TypeOK'
  BY <1>1, <1>2, <1>3, <1>7, Moved DEF TypeOK, params, loop, sync, aux, AllLabels, Labels
<1>12. AtBarrier' /\ Quiet'
  BY <1>1, <1>2, <1>3, Moved DEF Quiet, loop
<1>13. UNCHANGED <<mstr_cpu, run_cpus, run, s_maxproc, loc, fresh, machine>>
  BY <1>1 DEF sync, aux
<1> HIDE DEF to
<1>14. InEnd'
  BY <1>2, <1>3, <1>4, <1>8, <1>9, <1>10, <1>13, EndStep
<1> QED
  BY <1>11, <1>12, <1>14 DEF IInv, InPhase

\* There is a selected test to be found from the start of the list.
LEMMA WrapInv ==
  ASSUME CodeList, IInv, NEW p \in CPU, Wrap(p)
  PROVE  IInv'
<1>1. /\ pc[p] = "scan" /\ pc' = [pc EXCEPT ![p] = "rescan"]
      /\ pass_flag' = pass_flag + 1 /\ test' = 0
      /\ UNCHANGED <<cpu_mode, cpu_sel, mstr_cpu, run_cpus, bitf_seq, params, loop, sync, loc,
                     fresh, run, aux>>
  BY DEF Wrap, Goto
<1>2. TypeOK /\ Quiet /\ InEnd
  BY <1>1, PhaseOf DEF EndLabels, IInv
<1>3. Moves(p, "rescan") /\ "rescan" \in EndLabels /\ "rescan" \in AllLabels
  BY <1>1 DEF Moves, sync, EndLabels, AllLabels, Labels, Sites, SSites
<1>4. p = mstr_cpu /\ pass_flag = 0 /\ tested' = {} /\ win_next' = 0 /\ window' = 0
  BY <1>1, <1>2, EndWindows DEF InEnd, aux, loop
<1>5. test' \in 0 .. Len(TestSeq) - 1 /\ \E t \in test' .. Len(TestSeq) - 2 : Tseq(t).sel
  BY <1>1, ListAssumption DEF CodeList
<1>6. TypeOK'
  BY <1>1, <1>2, <1>3, <1>4, <1>5, Moved DEF TypeOK, params, loop, sync, aux, AllLabels, Labels
<1>7. AtBarrier' /\ Quiet'
  BY <1>1, <1>2, <1>3, Moved DEF Quiet, loop
<1>8. UNCHANGED <<mstr_cpu, run_cpus, run, s_maxproc, loc, fresh, machine>>
  BY <1>1 DEF sync, aux
<1>9. InEnd'
  BY <1>2, <1>3, <1>4, <1>5, <1>8, EndStep
<1> QED
  BY <1>6, <1>7, <1>9 DEF IInv, InPhase

LEMMA PassInv ==
  ASSUME CodeList, IInv, NEW p \in CPU, Pass(p)
  PROVE  IInv'
<1>1. /\ pc[p] = "pass" /\ pc' = [pc EXCEPT ![p] = "top"]
      /\ pass_flag' = 0 /\ pass' \in {pass, 1} /\ bail' = 0
      /\ UNCHANGED <<test, cpu_mode, cpu_sel, mstr_cpu, run_cpus, bitf_seq, ltest, c_iter, window,
                     win_next, segs, winx, sync, loc, fresh, run, aux>>
  BY DEF Pass, Goto
<1>2. TypeOK /\ Quiet /\ InEnd
  BY <1>1, PhaseOf DEF EndLabels, IInv
<1>3. Moves(p, "top") /\ "top" \in EndLabels /\ "top" \in AllLabels
  BY <1>1 DEF Moves, sync, EndLabels, AllLabels, Labels, Sites, SSites
<1>4. p = mstr_cpu /\ TestRuns /\ tested' = {} /\ win_next' = 0 /\ window' = 0
  BY <1>1, <1>2, EndWindows DEF InEnd, aux
<1>5. TestRuns'
  BY <1>1, <1>4 DEF TestRuns, Runs, All, Alone, Tseq
<1>6. TypeOK'
  BY <1>1, <1>2, <1>3, Moved DEF TypeOK, sync, aux, AllLabels, Labels
<1>7. AtBarrier' /\ Quiet'
  BY <1>1, <1>2, <1>3, Moved DEF Quiet
<1>8. UNCHANGED <<mstr_cpu, run_cpus, run, s_maxproc, loc, fresh, machine>>
  BY <1>1 DEF sync, aux
<1>9. InEnd'
  BY <1>1, <1>2, <1>3, <1>4, <1>5, <1>8, EndStep
<1> QED
  BY <1>6, <1>7, <1>9 DEF IInv, InPhase
-----------------------------------------------------------------------------
(***************************************************************************)
(* The theorems.                                                           *)
(***************************************************************************)
LEMMA InitInv == CodeList /\ Init => IInv
<1> SUFFICES ASSUME CodeList, Init PROVE IInv
  OBVIOUS
<1>1. /\ stage = [p \in CPU |-> "run"] /\ sstage = [p \in CPU |-> "run"]
      /\ pc = [p \in CPU |-> "top"]
  BY DEF Init, B!Init
<1>2. Len(TestSeq) - 1 \in Nat /\ 0 \in 0 .. Len(TestSeq) - 2
  BY ListAssumption
<1>3. 0 \in CPU
  BY NumAssumption DEF CPU
<1>4. TypeOK
  BY <1>1, <1>2, <1>3, NumAssumption, BoundAssumption DEF Init, TypeOK, Low
<1>5. AtBarrier /\ Quiet
  BY <1>1 DEF Init, AtBarrier, Quiet
<1>6. Where("started", {"top", "loop"}, {"sched"})
  BY <1>1 DEF Where
<1>7. Done
  BY NoneBelow DEF Init, Done, Cursor, Low
<1>8. InStarted
  BY <1>1, <1>2, <1>6, <1>7, BoundAssumption DEF Init, InStarted, TestRuns, CodeList, ChosenLater,
     Settle
<1> QED
  BY <1>4, <1>5, <1>8 DEF IInv, InPhase

LEMMA SkipInv ==
  ASSUME CodeList, IInv, NEW p \in CPU, Skip(p)
  PROVE  FALSE
BY PhaseOf DEF Skip, Goto

LEMMA SwitchInv ==
  ASSUME CodeList, IInv, NEW p \in CPU, SwitchMode(p)
  PROVE  FALSE
BY DEF SwitchMode, CodeList, IInv, Quiet

LEMMA StutterInv ==
  ASSUME IInv, UNCHANGED vars
  PROVE  IInv'
<1>1. UNCHANGED Data /\ UNCHANGED pc /\ UNCHANGED <<stage, sstage>>
  BY DEF vars, Data, sync, place
<1>2. TypeOK' /\ AtBarrier'
  BY DEF vars, IInv, TypeOK, AtBarrier, control, loop, sync, place, aux, params
<1> QED
  BY <1>1, <1>2, SamePlace, SameData DEF IInv, Gone, NoWait

LEMMA NextInv == CodeList /\ IInv /\ [Next]_vars => IInv'
<1> SUFFICES ASSUME CodeList, IInv, [Next]_vars PROVE IInv'
  OBVIOUS
<1>1. CASE Release
  BY <1>1, ReleaseInv
<1>2. CASE SRelease
  BY <1>2, SReleaseInv
<1>3. ASSUME NEW p \in CPU, Step(p) \/ SwitchMode(p) PROVE IInv'
  BY <1>3, DecideSkipInv, SkipInv, SetupInv, LoopInv, PlaceInv, CopyInv, CopiedInv, JumpInv,
     RestartInv, StartedInv, SelectInv, SelectedInv, SubInitInv, ReadyInv, PickInv, WindowInv,
     NoKeyInv, TestInv, ResetInv, HouseInv, AdvanceInv, WrapInv, FoundInv, PassInv, ArriveInv,
     SArriveInv, SwitchInv
     DEF Step
<1>4. CASE UNCHANGED vars
  BY <1>4, StutterInv
<1> QED
  BY <1>1, <1>2, <1>3, <1>4 DEF Next

\* The invariant: the CPUs are in the same phase, and what it says of the shared
\* variables holds.
THEOREM Invariance == ASSUME CodeList PROVE Spec => []IInv
<1>1. Init => IInv
  BY InitInv
<1>2. IInv /\ [Next]_vars => IInv'
  BY NextInv
<1> QED
  BY <1>1, <1>2, PTL DEF Spec

\* A CPU that tests is one of those chosen for the window and of the test set up.
LEMMA AtWork ==
  ASSUME IInv, NEW p \in CPU, pc[p] \in Testing \cup {"pick", "window"}
  PROVE  /\ Chosen \/ (Lone /\ p = mstr_cpu)
         /\ InForce /\ Settle(fresh)
         /\ pc[p] \in Testing => Fits
         /\ pc[p] = "tick" /\ run_cpus # 1 => tested = CPU \X Below(winx) \/ InTick
<1>1. InReady \/ InWindow \/ InTick \/ InSoloReady \/ InSoloWindow
  BY DEF IInv, InPhase, InStarted, InSched, InCopied, InSelected, InEnd, Where, Testing, EndLabels,
     EndFrom, EndBetween
<1>2. CASE InReady
  BY <1>2 DEF InReady, Ours, Picked, Fits, Where, Testing
<1>3. CASE InWindow
  BY <1>3 DEF InWindow, Picked, Fits, Before
<1>4. CASE InTick
  BY <1>4 DEF InTick, Picked, Fits
<1>5. CASE InSoloReady
  BY <1>5 DEF InSoloReady, Ours, Where, Testing
<1>6. CASE InSoloWindow
  BY <1>6 DEF InSoloWindow, Apart, Lone, Fits, Where, Testing
<1> QED
  BY <1>1, <1>2, <1>3, <1>4, <1>5, <1>6

LEMMA HowManyRun ==
  ASSUME IInv, Chosen \/ Lone
  PROVE  Cardinality({q \in CPU : run[q]}) = run_cpus /\ s_maxproc = run_cpus /\ run[mstr_cpu]
<1>1. mstr_cpu \in CPU
  BY Shapes DEF IInv
<1>2. CASE Chosen
  <2>1. {q \in CPU : run[q]} = CPU
    BY <1>2 DEF Chosen, AllChosen
  <2>2. Cardinality(CPU) = NumCpus
    BY NumAssumption, FS_Interval DEF CPU
  <2> QED
    BY <1>1, <1>2, <2>1, <2>2 DEF Chosen, AllChosen
<1>3. CASE Lone
  <2>1. {q \in CPU : run[q]} = {mstr_cpu}
    BY <1>1, <1>3 DEF Lone
  <2> QED
    BY <1>1, <1>3, <2>1, FS_Singleton DEF Lone
<1> QED
  BY <1>2, <1>3

LEMMA Agree == IInv => CpusAgree
<1> SUFFICES ASSUME IInv PROVE CpusAgree
  OBVIOUS
<1>1. TypeOK
  BY DEF IInv
<1>2. SameSite
  BY AllWait DEF SameSite, Together
<1>3. SelectionAgrees
  <2>1. SUFFICES ASSUME NEW p \in CPU, pc[p] \in Testing \cup {"pick", "window"}
                 PROVE  /\ run[p] /\ run[mstr_cpu]
                        /\ Cardinality({q \in CPU : run[q]}) = run_cpus
                        /\ s_maxproc = run_cpus
    BY DEF SelectionAgrees
  <2>2. Chosen \/ (Lone /\ p = mstr_cpu)
    BY <2>1, AtWork
  <2> QED
    BY <2>1, <2>2, HowManyRun DEF Chosen, AllChosen, Lone
<1>4. SubBarrierIdle
  <2>1. SUFFICES ASSUME pc[mstr_cpu] = "subinit" PROVE \A q \in CPU : sstage[q] = "run"
    BY DEF SubBarrierIdle
  <2>2. InSelected
    BY <1>1, <2>1, PhaseOf DEF TypeOK
  <2>3. \A q \in CPU : pc[q] \notin SSites
    BY <2>2 DEF InSelected, Where, SSites
  <2> QED
    BY <2>3 DEF IInv, AtBarrier
<1>5. SetupMatches
  BY AtWork DEF SetupMatches, InForce
<1> QED
  BY <1>1, <1>2, <1>3, <1>4, <1>5 DEF CpusAgree

\* main.c:155-325: however the CPUs follow each other through the loop, those that a
\* barrier lets go come from the same call, the number s_barrier() waits for is that
\* of the CPUs that test, nobody is inside of it when it is initialized, and the
\* parameters in force are those of the test.
THEOREM CpusAgreeHolds == ASSUME CodeList PROVE Spec => []CpusAgree
BY Invariance, Agree, PTL

LEMMA NeverItself == IInv => NeverTestsItself
<1> SUFFICES ASSUME IInv, NEW p \in CPU, pc[p] \in Testing
             PROVE  winx = Low <=> loc[p] = "high"
  BY DEF NeverTestsItself
<1>1. Fits /\ Settle(fresh)
  BY AtWork
<1> QED
  BY <1>1 DEF Fits, Settle

\* main.c:194-208: whatever the windows, the program is never in the one under test.
THEOREM NeverTestsItselfHolds == ASSUME CodeList PROVE Spec => []NeverTestsItself
BY Invariance, NeverItself, PTL

LEMMA Covered == IInv => Coverage
<1> SUFFICES ASSUME IInv, NEW p \in CPU, pc[p] = "house"
             PROVE  tested = {q \in CPU : run[q]} \X Windows
  BY DEF Coverage
<1>1. InEnd
  BY PhaseOf DEF EndLabels
<1> QED
  BY <1>1 DEF InEnd

\* main.c:172-325: at the end of each test every CPU chosen for it has tested every
\* window that holds memory, is mapped and is below MAX_MEM.
THEOREM CoverageHolds == ASSUME CodeList PROVE Spec => []Coverage
BY Invariance, Covered, PTL

LEMMA NotYetTested ==
  ASSUME IInv, NEW p \in CPU, pc[p] = "tick", run_cpus # 1
  PROVE  <<p, winx>> \notin tested
<1>1. winx \in Int
  BY BoundAssumption DEF IInv, TypeOK, Low
<1>2. winx \notin Below(winx)
  BY <1>1 DEF Below
<1>3. tested = CPU \X Below(winx) \/ InTick
  BY AtWork DEF Testing
<1>4. CASE InTick
  BY <1>2, <1>4 DEF InTick
<1> QED
  BY <1>2, <1>3, <1>4

\* main.c:236-255: no CPU tests a window twice in a run of a test for several CPUs.
THEOREM WindowOnceHolds == ASSUME CodeList PROVE Spec => WindowOnce
<1>1. IInv => (\A p \in CPU : pc[p] = "tick" /\ pc'[p] = "loop" /\ bail = 0 /\ run_cpus # 1
                 => <<p, winx>> \notin tested)
  BY NotYetTested
<1> QED
  BY Invariance, <1>1, PTL DEF WindowOnce

\* The copy that CPU 0 has taken holds what the others will find.
LEMMA StaleStep ==
  ASSUME CodeList, IInv, NEW p \in CPU, Step(p), loc[p] # fresh, pc'[p] # pc[p]
  PROVE  UNCHANGED <<control, loop>>
<1>1. TypeOK /\ 0 \in CPU /\ Master \in CPU
  BY Shapes DEF IInv
<1>2. \/ InSched /\ pc[0] = "copied" /\ loc[p] = loc[0]
      \/ InCopied
  BY <1>1 DEF IInv, InPhase, InStarted, InSched, InSelected, Ours, InReady, InWindow, InTick,
     Picked, Fits, InSoloReady, InSoloWindow, Apart, InEnd, Settle
<1>3. CASE InCopied
  <2>1. pc[p] \in {"copied", "jump", "restart", "started"}
    BY <1>3 DEF InCopied, Where
  <2>2. Copied(p) \/ Jump(p) \/ Restart(p) \/ Started(p) \/ Arrive(p)
    BY <2>1 DEF Step, DecideSkip, Skip, Setup, Loop, Place, Copy, Select, Selected, SubInit, Ready,
       Pick, Window, NoKey, Test, Reset, House, Advance, Wrap, Found, Pass, SArrive, Goto, Passes,
       SPasses, SSites
  <2> QED
    BY <2>2 DEF Copied, Jump, Restart, Started, Arrive
<1>4. CASE InSched /\ pc[0] = "copied" /\ loc[p] = loc[0]
  <2>1. Settled /\ win_next <= MaxMem /\ (window = 0 <=> loc[p] = "low")
    BY <1>1, <1>4 DEF InSched
  <2>2. pc[p] \in {"sched", "copy", "copied", "select", "selected", "end"}
    BY <1>4 DEF InSched, Where
  <2>3. pc[p] # "select"
    BY <1>1, <1>4, <2>1 DEF InSched, TypeOK
  <2>4. pc[p] \in {"copied", "selected", "end"} => ~Gone(p)
    BY <1>4 DEF InSched, Where
  <2>5. Place(p) \/ Copy(p) \/ Arrive(p) \/ SArrive(p)
    BY <2>2, <2>3, <2>4 DEF Step, DecideSkip, Skip, Setup, Loop, Copied, Jump, Restart, Started,
       Select, Selected, SubInit, Ready, Pick, Window, NoKey, Test, Reset, House, Advance, Wrap,
       Found, Pass, Goto, Passes, SPasses, B!Leave, Gone
  <2>6. CASE Place(p)
    <3>1. window' = window
      BY <2>1, <2>6 DEF Place, Settled
    <3> QED
      BY <2>6, <3>1 DEF Place, loop
  <2> QED
    BY <2>5, <2>6 DEF Copy, Arrive, SArrive
<1> QED
  BY <1>2, <1>3, <1>4

\* Only the label of the CPU that steps changes.
LEMMA OthersStay ==
  ASSUME IInv, NEW p \in CPU, NEW q \in CPU, q # p, Step(p)
  PROVE  pc'[q] = pc[q]
<1>1. DOMAIN pc = CPU
  BY Shapes DEF IInv
<1>2. (\E to : pc' = [pc EXCEPT ![p] = to]) \/ pc' = pc
  BY DEF Step, DecideSkip, Skip, Setup, Loop, Place, Copy, Copied, Jump, Restart, Started, Select,
     Selected, SubInit, Ready, Pick, Window, NoKey, Test, Reset, House, Advance, Wrap, Found, Pass,
     Arrive, SArrive, Goto, Passes, SPasses, place
<1> QED
  BY <1>1, <1>2

\* main.c:73-91: the globals that the copy takes along are not changed in the memory
\* left behind.
THEOREM StaleCopyUntouchedHolds == ASSUME CodeList PROVE Spec => StaleCopyUntouched
<1>1. ASSUME IInv, [Next]_vars
      PROVE  [\A p \in CPU : pc'[p] # pc[p] /\ loc[p] # fresh => UNCHANGED <<control, loop>>]_vars
  <2>1. SUFFICES ASSUME NEW p \in CPU, pc'[p] # pc[p], loc[p] # fresh
                 PROVE  UNCHANGED <<control, loop>>
    OBVIOUS
  <2>2. CASE \E q \in CPU : Step(q)
    BY <1>1, <2>1, <2>2, OthersStay, StaleStep
  <2>3. CASE \E q \in CPU : SwitchMode(q)
    BY <1>1, <2>3, SwitchInv
  <2>4. CASE Release \/ SRelease \/ UNCHANGED vars
    BY <2>4 DEF Release, SRelease, vars
  <2> QED
    BY <1>1, <2>2, <2>3, <2>4 DEF Next
<1> QED
  BY Invariance, <1>1, PTL DEF Spec, StaleCopyUntouched
=============================================================================
