------------------------------- MODULE Memory -------------------------------
(***************************************************************************)
(* From the firmware's tables to the memory that is tested: the start of   *)
(* the boot CPU (src/arch/i386/arch.c, src/arch/riscv/arch.c), the windows *)
(* and segments of src/main.c, and the page tables of                      *)
(* src/arch/i386/arch-vmem.c.  One CPU stands for those that a test        *)
(* selects; Sched has what lies between them.                              *)
(*                                                                         *)
(* Addresses are pages of 4 KB and all sizes are the code's.  A segment of *)
(* v->map is [pbase, start, last], start and last the pages its virtual    *)
(* addresses are in.                                                       *)
(***************************************************************************)
EXTENDS Firmware, Cpus

CONSTANTS Cases,      \* records, see MCMemory
          TestSeq,    \* tseq: records [cpus, pat, iter]
          MaxMenus,   \* changes of the address range
          ProgSize    \* pages of the program and its data

ASSUME ProgAssumption == ProgSize \in 1 .. 144   \* from 64 KB to 640 KB

VARIABLES case, pc, pmap, plim_lower, plim_upper, win1_end,
          smp,                \* num_cpus, found_cpus, cpu_num_to_apic_id
          test, ltest, cpu_sel, bitf_seq,
          window, win_next, zeroth_window,
          copy,               \* the copy of the program that runs, "low" or "high"
          map,                \* v->map
          segs,
          mapped_win, paging, \* the window last mapped, and whether paging is on
          written,            \* history: what the test has written in this window
          bail, test_ticks, nticks,
          tested,             \* history: ranges of pages written and checked
          menus, changed      \* changes of the range: "now" or "before" in this test

boot == <<case, pmap, win1_end, smp>>
limits == <<plim_lower, plim_upper>>
tests == <<test, ltest, cpu_sel, bitf_seq, test_ticks>>
place == <<window, win_next, zeroth_window, copy>>
view == <<map, segs, mapped_win, paging>>
aux == <<tested, menus, changed>>
vars == <<pc, boot, limits, tests, place, view, written, bail, nticks, aux>>

WIN_SZ == 524288        \* 2 GB
SPINSZ == 67108864      \* words between two ticks, 256 MB
PAGE_WORDS == 1024
win0_start == 256       \* 1 MB
LOCK_PAGE == 159        \* BARRIER_ADDR, 0x9ff00
PAE_LIMIT == 16777216   \* 64 GB
FIRST_DIVISER == 3

Tseq(t) == TestSeq[t + 1]
LastTest == Len(TestSeq) - 1
Riscv == case.port = "riscv"
LastEnd(m) == m[Len(m)].end
act == act_cpus(smp, case.opts)
low_page == IF Riscv THEN pmap[1].start ELSE 16   \* LOW_TEST_ADR
-----------------------------------------------------------------------------
(* Virtual addresses. *)

\* map_page: the window to map, 0 if none is needed, -1 if it cannot be.
map_page(page) ==
  LET win == page \div WIN_SZ
  IN IF Riscv \/ win = 0 THEN 0
     ELSE IF ~case.pae \/ (~case.lm /\ page > PAE_LIMIT) THEN -1
     ELSE win

mapping(page) == IF Riscv \/ page < WIN_SZ THEN page ELSE (page % WIN_SZ) + WIN_SZ
emapping(page) == mapping(page - 1)

\* The physical pages behind virtual pages a .. b that lie on one side of 2 GB:
\* the page tables map the upper half to the window.
Physical(a, b) == IF Riscv \/ ~paging \/ a < WIN_SZ THEN <<a, b>>
                  ELSE <<(a % WIN_SZ) + mapped_win * WIN_SZ, (b % WIN_SZ) + mapped_win * WIN_SZ>>
\* page_of: the page that an error names.
page_of(a) == IF Riscv \/ a < WIN_SZ THEN a ELSE (a % WIN_SZ) + mapped_win * WIN_SZ
Least(a, b) == IF a < b THEN a ELSE b
Most(a, b) == IF a > b THEN a ELSE b
Ranges(s) == IF Riscv THEN {<<s.start, s.last>>}
             ELSE {Physical(r[1], r[2]) :
                     r \in {x \in {<<s.start, Least(s.last, WIN_SZ - 1)>>,
                                   <<Most(s.start, WIN_SZ), s.last>>} : x[1] <= x[2]}}
Touched == UNION {Ranges(map[i]) : i \in 1 .. segs}
In(q, ranges) == \E r \in ranges : r[1] <= q /\ q <= r[2]
-----------------------------------------------------------------------------
(* Windows and segments. *)

\* The parts of the map in a window that begins at the lower limit.
compute_segments(win, m, lo, hi) ==
  LET wstart == win.start + lo
      wend == Least(win.end + lo, hi)
      Cut(e) == [start |-> Most(e.start, wstart), end |-> Least(e.end, wend)]
      cut == SelectSeq([i \in DOMAIN m |-> Cut(m[i])], LAMBDA s : s.start < s.end)
  IN IF wstart >= wend THEN <<>>
     ELSE [i \in DOMAIN cut |-> [pbase |-> cut[i].start, start |-> mapping(cut[i].start),
                                 last |-> emapping(cut[i].end)]]

\* The words of a segment, as a difference of pointers to its first and last.
Words(s) == (s.last - s.start + 1) * PAGE_WORDS - 1
Turns(words) == (words + SPINSZ - 1) \div SPINSZ

\* find_chunks' windows; those after the last memory are empty.
ChunkWindow(j) == IF j = 0 THEN [start |-> 0, end |-> win1_end]
                  ELSE IF j = 1 THEN [start |-> win0_start, end |-> WIN_SZ]
                  ELSE [start |-> (j - 1) * WIN_SZ, end |-> j * WIN_SZ]
ChunkSegs(m, lo, hi) == [j \in 1 .. hi \div WIN_SZ + 3 |->
                           compute_segments(ChunkWindow(j - 1), m, lo, hi)]

Divided(pat) == smp.num_cpus > 1 /\ pat \in {2, 4, 5, 6, 7, 8, 9, 10}
\* Fault: the part of one CPU is counted as if it were the segment.
ChunksUndivided(t, m, lo, hi) ==
  FoldLeft(LAMBDA ch, s : ch + Turns(Words(s)), 0, FlattenSeq(ChunkSegs(m, lo, hi)))
\* find_chunks: the SPINSZ parts of all windows, for one CPU's share.
find_chunks(t, m, lo, hi) ==
  LET Share(s) == IF Divided(Tseq(t).pat) THEN Words(s) \div act ELSE Words(s)
  IN FoldLeft(LAMBDA ch, s : ch + Turns(Share(s)), 0, FlattenSeq(ChunkSegs(m, lo, hi)))

\* What find_chunks leaves in v->map, where compute_segments puts its segments.
Scratch(m, lo, hi) ==
  LET Over(old, new) == [i \in 1 .. Most(Len(old), Len(new)) |->
                           IF i \in DOMAIN new THEN new[i] ELSE old[i]]
  IN FoldLeft(Over, map, ChunkSegs(m, lo, hi))

c_iter(t) == IF case.first THEN Tseq(t).iter \div FIRST_DIVISER ELSE Tseq(t).iter

find_ticks_for_test(t, m, lo, hi) ==
  LET pat == Tseq(t).pat
      c == c_iter(t)
      ch == find_chunks(t, m, lo, hi)
      ticks == CASE pat \in {0, 1, 2} -> 2
                 [] pat \in {3, 4} -> 2 + 4 * c
                 [] pat = 5 -> 24 + 24 * c
                 [] pat = 6 -> c + 4 * c
                 [] pat = 7 -> ch + ch \div act + c * ch
                 [] pat = 8 -> (1 + c * 2) * 64
                 [] pat = 9 -> 3 * c
                 [] pat = 10 -> 4 * 40 * c
                 [] pat = 11 -> c * 2 + 4 * ch
      rounds == IF Tseq(t).cpus = -1 THEN act ELSE 1
  IN IF t \in case.sel THEN ticks * rounds * (IF pat \in {7, 11} THEN 1 ELSE ch) ELSE 0
-----------------------------------------------------------------------------
(* The boot CPU's start. *)
Init == /\ case \in Cases
        /\ pc = "map" /\ pmap = <<>> /\ plim_lower = 0 /\ plim_upper = 0 /\ win1_end = 0
        /\ smp = Unknown
        /\ test = 0 /\ ltest = -1 /\ cpu_sel = 0 /\ bitf_seq = 0
        /\ window = 0 /\ win_next = 0 /\ zeroth_window = 0 /\ copy = "low"
        /\ map = <<>> /\ segs = 0 /\ mapped_win = 1 /\ paging = FALSE /\ written = {}
        /\ bail = FALSE /\ test_ticks = 0 /\ nticks = 0
        /\ tested = {} /\ menus = 0 /\ changed = "no"

\* mem_size() or parse_fdt().
ReadMap == /\ pc = "map"
           /\ pc' = "cpus"
           /\ pmap' = IF Riscv THEN parse_fdt(case.tree, case.stack).pmap ELSE mem_size(case.fw)
           /\ plim_lower' = IF Riscv THEN pmap'[1].start ELSE 0
           /\ plim_upper' = IF Riscv THEN 0 ELSE LastEnd(pmap')
           /\ UNCHANGED <<case, win1_end, smp, tests, place, view, written, bail, nticks, aux>>

\* init() calls initialise_cpus().
StartCpus == /\ pc = "cpus"
             /\ pc' = "defaults"
             /\ smp' = IF Riscv THEN [Unknown EXCEPT !.found_cpus = 1]
                       ELSE initialise_cpus(case.smp, case.opts)
             /\ UNCHANGED <<case, pmap, win1_end, limits, tests, place, view, written, bail, nticks, aux>>

test_pages == FoldLeft(LAMBDA n, s : n + s.end - s.start, 0, pmap)

\* "Adjust the map to not test the page at 939k, reserved for locks".
LeaveOut(m) == [m EXCEPT ![1].end = @ - 1]

\* set_defaults(), the place of the high copy and the page of the locks; what
\* find_ticks_for_pass() leaves in v->map is overwritten before it is read.
Defaults ==
  /\ pc = "defaults"
  /\ pc' = "setup"
  /\ plim_lower' = pmap[1].start
  /\ plim_upper' = LastEnd(pmap)
  /\ win1_end' = IF Riscv
                   THEN plim_lower' + (IF test_pages > 12032 THEN 8192 ELSE 768)
                   ELSE IF LastEnd(pmap) > 12032 THEN 8192 ELSE 768
  /\ pmap' = IF Riscv THEN pmap ELSE LeaveOut(pmap)
  /\ zeroth_window' = plim_lower'
  /\ UNCHANGED <<case, smp, tests, window, win_next, copy, view, written, bail, nticks, aux>>
-----------------------------------------------------------------------------
(* memtest_main. *)
Fade == Tseq(test).pat = 11
NextTest(t) == LET later == {u \in case.sel : u > t}
                   from == IF later = {} THEN case.sel ELSE later
               IN CHOOSE u \in from : \A x \in from : u <= x

\* Tests of a single CPU are skipped with one CPU; a new test is set up.
Setup ==
  /\ pc = "setup"
  /\ IF Tseq(test).cpus = -1 /\ smp.num_cpus = 1
       THEN test' = test + 1 /\ UNCHANGED <<pc, ltest, test_ticks, nticks, map, tested, changed>>
       ELSE /\ pc' = "loop"
            /\ UNCHANGED test
            /\ IF test = ltest THEN UNCHANGED <<ltest, test_ticks, nticks, map, tested, changed>>
               ELSE /\ ltest' = test
                    /\ test_ticks' = find_ticks_for_test(test, pmap, plim_lower, plim_upper)
                    /\ map' = IF test \in case.sel THEN Scratch(pmap, plim_lower, plim_upper) ELSE map
                    /\ nticks' = 0
                    /\ tested' = {}
                    /\ changed' = IF bail THEN changed ELSE "no"
  /\ UNCHANGED <<boot, limits, cpu_sel, bitf_seq, place, segs, mapped_win, paging, written, bail, menus>>

MoreWindows == win_next <= LastEnd(pmap) + WIN_SZ
\* "we cannot relocate so bump the window to 1".
ThisWindow == IF Fade /\ window = 0 THEN 1 ELSE window

\* Fault: the low window is tested from the low copy.
StaysLow == IF ThisWindow # 0 THEN "low" ELSE copy
\* The copy that can test a window.
CopyFor == IF ThisWindow # 0 THEN "low" ELSE "high"

\* run_at(): the program goes on in the other copy, at the start of memtest_main.
RunAt == /\ pc = "loop" /\ MoreWindows /\ CopyFor # copy
         /\ pc' = "setup"
         /\ window' = ThisWindow
         /\ copy' = CopyFor
         /\ zeroth_window' = plim_lower
         /\ UNCHANGED <<boot, limits, tests, win_next, view, written, bail, nticks, aux>>

\* Fault: the windows begin 2 GB further on.
WinxSkips(w) == CASE w = 0 -> [start |-> 0, end |-> win1_end - zeroth_window]
                  [] w = 1 -> [start |-> win0_start, end |-> WIN_SZ]
                  [] OTHER -> [start |-> win_next + WIN_SZ, end |-> win_next + 2 * WIN_SZ]
Winx(w) == CASE w = 0 -> [start |-> 0, end |-> win1_end - zeroth_window]
             [] w = 1 -> [start |-> win0_start, end |-> WIN_SZ]
             [] OTHER -> [start |-> win_next, end |-> win_next + WIN_SZ]

\* "Relocated so we need to test all selected lower memory".
FromLimit(m) == IF copy = "high" THEN [m EXCEPT ![1].start = mapping(plim_lower)] ELSE m

\* The next window: its segments and, if there are any, its mapping.
Window ==
  /\ pc = "loop" /\ MoreWindows /\ CopyFor = copy
  /\ window' = Least(ThisWindow + 1, 2)
  /\ win_next' = IF ThisWindow = 0 THEN win_next ELSE win_next + WIN_SZ
  /\ LET m == compute_segments(Winx(ThisWindow), pmap, plim_lower, plim_upper)
         win == IF m = <<>> THEN 0 ELSE map_page(m[1].pbase)
     IN /\ segs' = Len(m)
        /\ map' = IF m = <<>> THEN map ELSE FromLimit(m)
        /\ mapped_win' = IF win > 0 THEN win ELSE mapped_win
        /\ paging' = (win > 0)
        /\ pc' = IF m = <<>> THEN "loop" ELSE IF win < 0 THEN "end" ELSE "test"
  /\ UNCHANGED <<boot, limits, tests, zeroth_window, copy, written, bail, nticks, aux>>

Sleeping == Fade /\ bitf_seq \in {1, 4, 6}

\* A test fills all segments, ticking once per turn, ...
Write == /\ pc = "test"
         /\ pc' = "check"
         /\ written' = IF Sleeping THEN {} ELSE Touched
         /\ UNCHANGED <<boot, limits, tests, place, view, bail, nticks, aux>>

\* run_cpus and the share of the master, which has the last part.
run_cpus == IF Tseq(test).cpus = -1 THEN 1 ELSE Least(act, Tseq(test).cpus)
Share(s) ==
  LET align == IF Tseq(test).pat \in {7, 8} THEN 64 ELSE 4
      chunk == (((4 * Words(s)) \div run_cpus + align - 1) \div align) * (align \div 4)
  IN IF Tseq(test).pat \in {0, 1, 2, 11} \/ run_cpus = 1 THEN Words(s)
     ELSE Words(s) - chunk * (run_cpus - 1)
Chunks == FoldLeft(LAMBDA n, s : n + Turns(Share(s)), 0, SubSeq(map, 1, segs))

\* The ticks of a test on its segments in src/test.c and invoke_test; those of
\* sleep(), one whenever the clock has moved, are left out.
TicksOf(pat, c, ch) == CASE pat = 0 -> 4
                         [] pat \in {1, 2} -> 2 * ch
                         [] pat \in {3, 4} -> 2 * (1 + 2 * c) * ch
                         [] pat = 5 -> 16 * (1 + 2 * c) * ch
                         [] pat = 6 -> c * (1 + 2 * 2) * ch
                         [] pat = 7 -> (1 + c + 1) * ch
                         [] pat = 8 -> 64 * (1 + 2 * c) * ch
                         [] pat = 9 -> 3 * c * ch
                         [] pat = 10 -> c * 20 * 2 * (1 + 2 + 1) * ch
                         [] pat = 11 -> IF Sleeping THEN 0 ELSE ch

\* ... and checks them, unless the user has changed something.
Check == /\ pc = "check"
         /\ pc' = "loop"
         /\ IF bail THEN UNCHANGED <<tested, nticks>>
            ELSE /\ tested' = tested \cup (written \cap Touched)
                 /\ nticks' = nticks + TicksOf(Tseq(test).pat, c_iter(test), Chunks)
         /\ written' = {}
         /\ paging' = FALSE
         /\ UNCHANGED <<boot, limits, tests, place, map, segs, mapped_win, bail, menus, changed>>

\* get_config, between two ticks: a limit that is accepted makes the tests end
\* and test--; find_ticks_for_pass computes segments in any case.
LowerOk(page) == page + 1 <= plim_upper
UpperOk(page) == page = 0 \/ page - 1 >= plim_lower  \* page 0 - 1 is the largest page
SetLimits(lo, hi, ok) ==
  /\ pc = "check" /\ menus < MaxMenus
  /\ menus' = menus + 1
  /\ plim_lower' = lo /\ plim_upper' = hi
  /\ IF ok THEN test' = test - 1 /\ bail' = TRUE /\ changed' = "now"
     ELSE UNCHANGED <<test, bail, changed>>
  /\ map' = Scratch(pmap, lo, hi)
  /\ UNCHANGED <<pc, boot, ltest, cpu_sel, bitf_seq, test_ticks, place, segs, mapped_win, paging,
                 written, nticks, tested>>
Lower == \E page \in case.lowers :
           SetLimits(IF LowerOk(page) THEN page ELSE plim_lower, plim_upper, LowerOk(page))
Upper == \E page \in case.uppers :
           SetLimits(plim_lower, IF UpperOk(page) THEN page ELSE plim_upper, UpperOk(page))
AllMemory == case.lowers # {} /\ SetLimits(0, LastEnd(pmap), TRUE)

\* The loop over the windows is over.
Leave == /\ pc = "loop" /\ ~MoreWindows
         /\ pc' = "end"
         /\ UNCHANGED <<boot, limits, tests, place, view, written, bail, nticks, aux>>

\* The next round of the bit fade test, the next CPU or the next test.
House ==
  IF Fade /\ bitf_seq # 6
    THEN bitf_seq' = bitf_seq + 1 /\ UNCHANGED <<test, cpu_sel, ltest>>
    ELSE /\ bitf_seq' = 0
         /\ UNCHANGED ltest
         /\ IF Tseq(test).cpus = -1 /\ cpu_sel + 1 < act
              THEN cpu_sel' = cpu_sel + 1 /\ UNCHANGED test
              ELSE cpu_sel' = 0 /\ test' = NextTest(test)

EndTest == /\ pc = "end"
           /\ pc' = "setup"
           /\ window' = 0 /\ win_next' = 0
           /\ bail' = FALSE
           /\ House
           /\ tested' = {}
           /\ changed' = IF changed = "now" THEN "before" ELSE changed
           /\ UNCHANGED <<boot, limits, test_ticks, zeroth_window, copy, view, written, nticks, menus>>

Next == \/ ReadMap \/ StartCpus \/ Defaults
        \/ Setup \/ RunAt \/ Window \/ Write \/ Check \/ Leave \/ EndTest
        \/ Lower \/ Upper \/ AllMemory

Spec == Init /\ [][Next]_vars
-----------------------------------------------------------------------------
TypeOK ==
  /\ pc \in {"map", "cpus", "defaults", "setup", "loop", "test", "check", "end"}
  /\ test \in -1 .. LastTest /\ ltest \in -1 .. LastTest /\ window \in 0 .. 2
  /\ segs \in 0 .. Len(map) /\ menus \in 0 .. MaxMenus
  /\ \A i \in Numbers : smp.ids[i] \in Nat

(* The memory that the firmware describes, KB by KB. *)
TypesAt(k) == {e.type : e \in {x \in {case.fw.e820[i] : i \in DOMAIN case.fw.e820} :
                                 x.addr <= k /\ k < x.addr + x.size}}
KbType(k) == IF k >= RES_START /\ k < RES_END THEN 0 ELSE Highest({0} \cup TypesAt(k))
\* Pages all of whose KBs are of one type that is memory.
ReportedPage(q) == \E t \in {RAM, ACPI} : \A k \in 4 * q .. 4 * q + 3 : KbType(k) = t
MemoryPage(q) == IF case.ram # {} THEN In(q, case.ram) ELSE ReportedPage(q)
InMap(q) == \E i \in DOMAIN pmap : pmap[i].start <= q /\ q < pmap[i].end

\* The pages where something may change, and their neighbours.
Edges == {pmap[i].start : i \in DOMAIN pmap} \cup {pmap[i].end : i \in DOMAIN pmap}
         \cup {e.addr \div 4 : e \in {case.fw.e820[i] : i \in DOMAIN case.fw.e820}}
         \cup {(e.addr + e.size) \div 4 : e \in {case.fw.e820[i] : i \in DOMAIN case.fw.e820}}
         \cup {x[1] : x \in case.ram} \cup {x[2] : x \in case.ram}
         \cup {plim_lower, plim_lower + win0_start, plim_upper, win1_end, win1_end + ProgSize, low_page,
               low_page + ProgSize, LOCK_PAGE, PAE_LIMIT} \cup {n * WIN_SZ : n \in 1 .. 3}
Points == UNION {{q - 1, q, q + 1} : q \in Edges} \cap Nat

\* The map is the memory that the firmware reports, in ascending order and
\* without overlaps: overlapping, adjacent and unsorted entries, pages that are
\* partly memory and the hole below 1 MB (memsize.c:36-162, linuxbios.c, parse_fdt).
MapExact ==
  pc = "cpus" =>
    /\ \A q \in Points : InMap(q) <=> MemoryPage(q)
    /\ \A i \in 2 .. Len(pmap) : pmap[i - 1].start < pmap[i].start /\ pmap[i - 1].end <= pmap[i].start

\* Pages that the page tables can reach (arch-vmem.c:67-76).
Reachable(q) == Riscv \/ q < WIN_SZ \/ (case.pae /\ (case.lm \/ q < PAE_LIMIT))

\* A test that nobody disturbs writes and checks each page of the map within the
\* limits, whatever windows, relocations and mappings that takes; the bit fade
\* test, which does not relocate, leaves the first MB out (main.c:176-326).
TestedAll ==
  pc = "end" /\ changed # "now" /\ ~Sleeping =>
    \A q \in Points : /\ InMap(q) /\ plim_lower <= q /\ q < plim_upper /\ Reachable(q)
                      /\ (Fade => q >= plim_lower + win0_start)
                      => In(q, tested)

\* The pages the running program is in.
Program == IF copy = "low" THEN <<low_page, low_page + ProgSize - 1>>
           ELSE <<win1_end, win1_end + ProgSize - 1>>

\* While a test runs its segments are pages of the map within the limits, mapped
\* so that an error names the page it is in, and none of them is the program's
\* own or the one of the locks, after any change of the limits; and what the page
\* tables can reach (compute_segments, map_page, do_test).
SegmentsSound == TypeOK /\ (
  pc \in {"test", "check"} /\ ~(pc = "check" /\ bail) =>
    /\ \A i \in 1 .. segs : /\ map[i].start <= map[i].last
                            /\ Physical(map[i].start, map[i].start)[1] = page_of(map[i].start)
    /\ \A q \in Points : In(q, Touched) => /\ InMap(q) /\ plim_lower <= q /\ q < plim_upper
                                           /\ Reachable(q) /\ ~In(q, {Program})
                                           /\ (~Riscv => q # LOCK_PAGE))

LastRound == Tseq(test).cpus # -1 \/ cpu_sel + 1 >= act
AllReachable == \A i \in DOMAIN pmap : Reachable(pmap[i].end - 1)
FullTest == pc = "end" /\ changed = "no" /\ test = ltest /\ test \in case.sel /\ LastRound /\ AllReachable

\* "Compute the total number of ticks per pass" (main.c:547): the ticks foreseen
\* for a test are those it makes.
TicksAsForeseen == FullTest => nticks = test_ticks

\* They are for memory from address 0 (find_chunks takes win1_end for the size of
\* the first window) and the tests whose loops find_ticks_for_test counts right,
\* with the windows it enumerates and the shares it divides by (main.c:489-625).
Foreseen == {1, 6, 9, 10} \cup (IF smp.num_cpus = 1 THEN {2, 3, 7, 8} ELSE {})
ForecastExact == FullTest /\ plim_lower = 0 /\ Tseq(test).pat \in Foreseen => nticks = test_ticks

\* Whatever tables the firmware has, a CPU that is booted is not the boot CPU,
\* and takes itself for the number it was booted as, so that no two share a
\* stack, an ordinal or a part of memory; all CPUs that tables list are found.
CpusNumbered ==
  pc = "defaults" /\ ~Riscv =>
    /\ \A i \in Booted(smp, case.opts) : /\ smp.ids[i] \in case.hw.ids \ {case.hw.bsp}
                                         /\ smp_my_cpu_num(smp, smp.ids[i]) = i
    /\ smp_my_cpu_num(smp, case.hw.bsp) = 0
    /\ smp.num_cpus <= MAX_CPUS
    /\ case.hw.listed => smp.num_cpus = Least(case.opts.maxcpus, Least(MAX_CPUS, Cardinality(case.hw.ids)))

\* The firmware's tables are read right: those of the memory and those of the CPUs
\* (mem_size, parse_fdt, smp_find_cpus).
TablesRead == MapExact /\ CpusNumbered

\* Windows, segments and mappings leave nothing out and take nothing that is not
\* theirs, over relocations and changes of the limits (main.c:176-326, 636-731).
WindowsSound == TestedAll /\ SegmentsSound
=============================================================================
