# A TLA+ model of memtest86+

memtest86+ is a stand-alone program: it boots on a bare machine, starts all CPUs, and
tests memory with all of them until it is switched off. There is no operating system
under it. The CPUs are synchronized by a spin lock and two barriers of the program's own,
nearly all of its variables are globals that every CPU reads and writes without a lock,
and it moves itself between two places in memory so that it can test the one it leaves.
What goes wrong in such a program is an order of steps, and its users see it as a hang
or as errors that are not there. That is what this project is about.

The modules model the x86 build (`src/arch/i386`) and, where it differs in what the tests
do or in how memory is found, the RISC-V one. Names are those of the source.

- [The system](#the-system)
- [Modules](#modules)
- [The runs](#the-runs)
- [Disagreements found](#disagreements-found)
- [Proofs](#proofs)
- [Not modelled](#not-modelled)
- [Plan](#plan)

## The system

| component | state | operations | correct when |
|---|---|---|---|
| spin lock (`arch-smp.h`) | one byte, 1 = free | `spin_lock`, `spin_unlock`, `spin_wait` | it excludes, the byte never wraps, no unlock is lost |
| barriers (`smp.c`) | `lck`, `maxproc`, `count`, `st1`, `st2`, twice (`s_`) | `barrier_init`, `barrier`, `s_barrier_init`, `s_barrier` | nobody passes before all have come, round after round; every call returns |
| startup (`arch.c`, `arch-smp.c`, `head.S`) | `start_seq`, `AP[].started`, `cpu_ord`, `num_to_ord`, `barr->mutex`, `boot_stack` | `test_start`, `switch_to_main_stack`, `initialise_cpus`, `boot_ap`, `smp_boot_ap` | one CPU at a time is on the boot stack; every selected CPU comes to `memtest_main` with an ordinal of its own, set up, also after a timeout |
| test loop (`main.c`, `next_test`) | `test`, `cpu_mode`, `cpu_sel`, `mstr_cpu`, `run_cpus`, `window`, `win_next`, `segs`, `bail`, `bitf_seq`, `ltest`, `pass_flag`, where each CPU executes | `memtest_main`, `run_at`, `test_setup`, `next_test` | the CPUs agree on test, window and selection; each window is tested once; nobody tests the memory it runs in; passes go on for ever |
| ticks and errors (`error.c`, `do_test`) | `bail`, `nticks`, `v->ecount`, `barr->mutex`, `v->map[0].start` | `do_tick`, `BAILR`, `error`, `update_err_counts`, `check_input`, `get_config` | the CPUs keep in step, leave a test together, count each error once |
| division of memory (`test.c`) | `p`, `pe`, `start`, `end` of each CPU | `calculate_chunk` and the loops around `do_tick` | the parts tile the segment; all CPUs make the same number of ticks; each word is tested |
| test patterns (`test.c`, `test.inc.c`, `random.c`) | the memory, seeds | `addr_tst1/2`, `movinv1`, `movinvr`, `movinv32`, `modtst`, `block_move`, bit fade, their C and assembly inner loops | sound memory gives no error; a faulty word is found, and is the one named; nothing outside the part is written |
| memory map (`memsize.c`, `linuxbios.c`, RISC-V `parse_fdt`) | `v->pmap[]`, `v->msegs` | `mem_size`, `sanitize_e820_map`, `memsize_820/801/linuxbios`, `sort_pmap` | the map is the RAM of the firmware's tables, in whole pages, sorted |
| CPU tables (`arch-smp.c`) | `num_cpus`, `found_cpus`, `cpu_num_to_apic_id` | `smp_find_cpus`, `read_mp_config_table`, `parse_madt` | CPUs are numbered from the boot CPU on, each APIC id once |
| windows and segments (`main.c`) | `winx`, `v->map[]`, `window` | `compute_segments`, `find_chunks`, `find_ticks_for_test`, the window loop | all memory within the limits is tested, from the copy that is not in it; tick forecast equals ticks made |
| virtual memory (`vmem.c`, `arch-vmem.c`) | page tables, `mapped_win` | `map_page`, `mapping`, `emapping`, `page_of` | an address and its page agree |
| BadRAM patterns (`patn.c`) | `v->patn[]`, `v->numpatn` | `insertaddress`, `relocateiffree`, `relocateidx`, `cheapindex`, `combicost`, `combine`, `addresses` | every faulty address is covered; the table stays in bounds; merging ends |
| error summary (`error.c`) | `v->erri`, print mode, `msg_line` | `common_err`, `printpatn`, `print_hdr` | lowest and highest address, bits and counts are those of the errors since the summary began |
| command line (`common.c`) | `tseq[].sel`, `cpu_mask`, `serial_cons` | `parse_command_line`, `set_defaults` | a list or a mask selects what it says |
| configuration menu, keyboard, serial line (`config.c`, `lib.c`) | `tseq[].sel`, `v->plim_*`, `cpu_mode`, `bail`, the screens saved under popups, `slock` | `get_config`, `adj_mem`, `popup*`, `getval`, `get_list`, `check_input`, `scroll` | a selection is a legal one, tests go on with it, and the screen is as it was |
| self relocation (`reloc.c`, `reloc.inc.c`, `startup_32`, RISC-V `riscv_entry`) | the words of each copy of the image, `last_load_address`, `zerobss` | `_dl_start`, `elf_get_dynamic_info`, `elf_dynamic_do_rel(a)`, `run_at`, `move_to_correct_addr` | every word of the copy in use is what it is meant to be at that place, however often it was relocated; the data are kept |
| screen and serial terminal (`screen_buffer.c`, `lib.c`, popups of `config.c`) | the screen, `screen_buf`, the terminal and its cursor, `msg_line`, `slock` | `cprint`, `scroll`, `clear_scroll`, `cplace`, `ttyprint`, `tty_print_region`, `popup`, `popdown`, `popclear` | the terminal shows what the screen does |
| conversions (`lib.c`, clock of `do_tick`) | — | `dprint`, `aprint`, `hprint2/3`, `itoa`, `ser_map`, `ascii_to_keycode`, `strstr`, `strncmp`, `memcmp`, `memmove`, elapsed time | what is shown, entered, found or moved is what was given |
| rest of initialization, chipset and memory identification, timing menu, rest of the boot code, test runner, build | | | see [Not modelled](#not-modelled) |

**How they interact.** Shared state is everything: there are no messages. The spin lock
protects the barrier's fields (`lck`), and as `barr->mutex` the ordinals at startup, the
jump of `run_at` and the screen with the error counters. `barrier()` is used by
`test_start`, `run_at` and `memtest_main`, one structure for all its call sites;
`s_barrier()` by the CPUs selected for the current window, in `memtest_main`, `do_tick`
and the tests. `memtest_main` calls `run_at`, which jumps to `test_start` in the other
copy, which calls `memtest_main` again. `do_test` calls a test, the test `do_tick` and
`error`, both of them `check_input`, and that `get_config`, which changes `bail`,
`cpu_mode` and the tests selected in the middle of everything.

**What is hard.** The lock's losers decrement the byte at any time. Consecutive rounds
of a barrier share their flags. CPUs that are not selected for a test run through the
same loop as those that are, at their own speed. A barrier that *precedes* a variable's
last reader does not protect it from its next writer. The boot CPU gives up CPUs that
come later, and starts the next one on the stack these are on. One early return with a mutex held, or one iteration more on one CPU, stops
the machine. The user's menu runs inside a test, in the middle of loops that hold copies
of what it changes. Loops are unrolled in assembly and differ from the C beside them at
the last word of a block. Divisions are rounded and the 32-bit sums wrap. `PROJECT.json`
lists each of these at its line ("hazards").

## Modules

| module | models | how |
|---|---|---|
| `Mutex` | — | abstract: one owner, `Acquire`, `Release` |
| `SpinLock` | `arch-smp.h:271-313` | one action per instruction that touches the byte: `Decb`, `Test` (`cmpb`/`jle`), `Unlock` (`movb $1`), and `Monitor`, `Wake`, `WakeSpuriously` for the monitor/mwait loop; the byte has `2*Half` values and wraps |
| `Rendezvous` | — | abstract barrier: each CPU is running, waiting or let go; all that wait are let go at once when all wait |
| `Barrier` | `smp.c:11-54`, `spin_wait` | one action per access to the structure: `Enter`, `Lock…`, `CountDown`, `Close`, `Release`, `CountSelf`, `Wait`, `CountUp`, `Reopen`, `Hold`, `Return`; the spin lock is one step |
| `Startup` | `test_start`, `initialise_cpus`, `boot_ap`, `smp_boot_ap`; `run_at` as far as the mutex goes | the boot CPU's loop (`BootAp`, `Booted`, `Timeout`, `AllBooted`), each CPU's `Enter`, on the boot stack, and `SwitchStack`, off it (or `TakeNumber`, `GoAstray`, if it met another there), `Register`, `Lock`, `ReadOrd`, `WriteOrd`, `Unlock`, `StartDone`, `Check`, `Done`, and relocations `Move`, `Copied`, `Jump`, `Restart` |
| `Sched` | `memtest_main`, `run_at`, `test_setup`, `next_test`, the restart in `test_start` | the loop, cut where another CPU's access matters: `DecideSkip`/`Skip` (`test++`), `Setup`, `Loop`, `Place`, `Copy`…`Started`, `Select`, `Selected`, `SubInit`, `Ready`, `Pick`, `Window`, `Test`, `Reset`, `House`, `Advance`/`Wrap`/`Found`, `Pass`; `SwitchMode` is the user's `get_config` |
| `Tick` | `do_test`, the loop of a test, `do_tick`, `BAILR`, `error`, `update_err_counts` | inside one window: `DoTick`, `NoKey`/`Key`, `Held`, `Bail`, `Piece`/`Error`, `Lock`, `Load`, `Store`, `ErrorInput`, `Unlock`, and `LockAndSkip`, the early return of `error()` |
| `Chunk` | `calculate_chunk` and the loops that walk up, down and in the bit fade test | `Start`, `End` of each CPU's part; `Tick` is one iteration of all CPUs, which the barrier in `do_tick` keeps in step |
| `Badram` | `patn.c` | the arithmetic on address/mask pairs as operators, `Known`, `Append`, `Widen` (`insertaddress`), `Merge`, `NoMerge` (a level of `relocateiffree`) |
| `Snippets` | the inner loops of `test.c`, `arch/i386/test.inc.c`, `arch/riscv/test.inc.c`; `random.c` | each loop as an operator that takes the memory and the loop's registers to those after it, in the C, x86 and RISC-V version, with the word at which each stops |
| `Patterns` | `invoke_test` and the tests of `test.c` | a test is a sequence of loops over segments; an action is one turn of the loop around `do_tick`, a block of a CPU's part; the memory may have a stuck bit, two words in one cell, or an address line without effect |
| `Firmware` | `memsize.c`, `linuxbios.c`, `parse_fdt` | operators from the tables (e820, the sizes of two older calls, LinuxBIOS, a device tree) to the map of pages |
| `Cpus` | `smp_find_cpus` and below | operators from the MP and ACPI tables to the numbers of CPUs and their APIC ids |
| `Memory` | `test_start` of the boot CPU, the window loop of `memtest_main`, `do_test`, `find_chunks`, `find_ticks_for_test`, `arch-vmem.c`, `adj_mem` | one CPU from the firmware's tables to the end of a pass, in pages of the code's own sizes; the address range may change in the middle of a test |
| `Options` | `simple_strtoul`, `getval`, `get_list`, options of the command line | operators from what is typed to numbers, lists and masks |
| `Summary` | `common_err`'s `v->erri` | operators, an error at a time |
| `Console` | `parse_command_line`, `set_defaults`, `check_input`, `get_config` with all popups, `scroll`, `common_err`, `printpatn`, `next_test` | each CPU has a stack of calls that wait for a key; a step runs from one such place to the next, as the program does, with everything in between |
| `Reloc` | `startup_32` (`.bss`), `reloc.c`, both `reloc.inc.c`, the jump of `run_at`, RISC-V `riscv_entry` and `move_to_correct_addr` | memory as words, with copies of a small image; one action per part of `_dl_start` and one per relocation (`elf_dynamic_do_rel`), then the program runs (`Started`), writes its data (`Work`), and copies itself and goes on in the other place (`run_at`, `Barrier`, `Jump`); `Test` leaves anything in the memory it is not in |
| `Terminal` | `cprint`, `scroll`, `clear_scroll`, `cplace`, `ttyprint`, `footer`, the keys of the display in `check_input`; `screen_buffer.c`; the popups; `display_init` | each CPU has a list of calls to make, first one first; `Cursor` and `Send` are the two halves of `ttyprint`, so that another CPU may come between |
| `Convert` | the numbers, key codes and strings of `lib.c`, `aprint`, the clock of `do_tick` | operators; an action is a call with one input |
| `Program` | the three above, side by side | they share no variable; `part` says which of them moves, so that each is looked at by itself |
| `MC…` | | values for the constants, nothing else; `Tick` and `Badram` need none |
| `SpinLock_proof`, `Barrier_proof`, `Startup_proof`, `Tick_proof`, `Chunk_proof`, `Sched_proof`, `Badram_proof`, `Console_proof` | | theorems, checked by TLAPS |

**Composition.** `Barrier` takes `spin_lock` as one step because `SpinLock` implements
`Mutex`. `Sched`, `Startup` and `Tick` take `barrier()` and `s_barrier()` as the
`Rendezvous` that `Barrier` implements, by `INSTANCE Rendezvous` on a variable `stage`;
that calls return, which their fairness of `Release` assumes, is `CallsReturn` of
`Barrier`. `Sched` has one window in one step for each CPU, `Tick` looks into it, and `Chunk` says
why the ticks of all CPUs are equally many, which `Tick` takes for granted (`Pieces`).
`Memory` extends `Firmware` and `Cpus`: the map and the CPUs they find are what its windows
are cut from, and its ticks are divided as in `Chunk`. `Patterns` extends `Snippets` and has
`calculate_chunk` with every test's own alignment. `Reloc` looks into the copy that `Sched`
takes as one step with a usable image at its end. `Terminal` has the characters of which
`Console` has messages. `Program` extends `Terminal` and takes `Reloc` and `Convert` as
instances: what they model meets elsewhere only as one step (a copy, a message, a number),
so that nothing is lost in letting one of them move. `Console` extends `Options` and `Summary`;
its `get_config` is what `SwitchMode` of `Sched`, `Key` of `Tick` and `SetLimits` of `Memory`
each see a part of.

**Reading an action.** `pc[p]` is where CPU `p` is; `Goto(p, from, to)` is its guard and
its move. A definition under a comment that begins with *Fault:* is not part of the
model: it is a variant of the definition after it with a plausible bug, and
`PROJECT.json` ("mutants") says which property it breaks.

**Abstractions.** In `Sched` windows are numbers (-1 is the low window) and a window's
contents are one step; the test list is reduced to what the loop asks of a test: selected,
CPUs (-1, 1, 32) and the bit fade's pattern number 11; `v->pass` counts to 1; a
configuration change is a switch of `cpu_mode` there and just `bail` in `Tick`. Keys and
errors are bounded (`MaxKeys` of `Tick`, `keys` of `Sched`'s machines, `MaxErrors`, `MaxMenus`,
`MaxEntry`, `MaxDepth`), and so are the changes of the limits in test 0 (`MaxChanges`) and the
relocations at startup (`MaxMoves`). What two CPUs do to each other on one boot stack is
undefined; in `Startup` each of them goes on with the number of any that met there, its own
or another's, or is lost. `Patterns` has a word of `Bits` bits, a block of `SPINSZ` words
and banks of `BANK` words; `addr_tst1`'s other bank sizes are other values of that constant.
Only one CPU of a test is in `Patterns`, since the parts do not meet (`Tiling`). `Memory`
lets one CPU stand for all that are selected, leaves the contents of the tests to `Patterns`,
and counts the bit fade's ticks without those of `sleep`; `MAX_MEM` (8 TB) is beyond its
machines and is in `Sched`. In `Console` a screen is the set of its messages, not its
characters; the confidence score is left out, and so are the summary's types for parity and
ECC errors, whose poll is commented out (`error.c:622`). `Reloc` has words instead of
bytes, addresses modulo `M`, and one table of relocations where the image may have two, one
after the other; relocations that the link leaves out of it (`-Bsymbolic`) are in no machine
of the run. In `Terminal` colours are left out, and what the terminal shows is
what was sent at the place where its cursor is. In `Convert` a digit is its value.

Left out on purpose, as dead code: `restart_flag` and `reloc_pending` are never set by
anything, so their branches in `memtest_main` and `test_start` are not modelled; the
monitor/mwait loop of `spin_lock` is modelled, though `cpuid.c:86-87` clears the bit that
selects it. With `v->fail_safe & 3` SMP and both barriers are off together; the models
are of the other case.

## The runs

| run | configuration | checks | shows |
|---|---|---|---|
| `spinlock` | 4 CPUs, a "byte" of 6 values, both waiting loops | the inductive invariant `IInv` (types, `MutualExclusion`, `BoundedCount`, `FreeWhenPositive`), `ImplementsMutex`, `LockProgress` | the lock is right; the byte reaches its least value and does not wrap; progress is that of the loop the program uses |
| `barrier` | 4 CPUs, all take part | `IInv`, `ImplementsRendezvous`, `CallsReturn` | rounds do not mix, every call returns |
| `sched` | 3 CPUs, all kinds of tests, one not selected, windows -1, 0, 1; a machine where the last one cannot be mapped, with one mode switch at any tick, and one whose memory ends before it | `CpusAgree` (types, `SameSite`, `SelectionAgrees`, `SubBarrierIdle`, `SetupMatches`), `NeverTestsItself`, `Coverage`, `StaleCopyUntouched`, `WindowOnce`, `PassCompletes` | the CPUs agree on where they are and who tests what; each window is tested, and once by CPUs that test together; passes go on for ever, unless late CPUs set the windows back again and again |
| `startup` | 4 CPUs, 3 selected, any may be given up too early, 2 relocations each | `OrdinalsKept` (types, `MutexHandedOver`, `OrdinalsDense`), `NobodyLeftBehind`, `BootStackAlone`, `EveryoneStarts` | everyone starts, and keeps its ordinal, unless CPUs meet on the boot stack, and they meet only if the boot CPU gave one up |
| `tick` | 3 CPUs, 3 ticks, 2 changes, 2 errors, some in the BIOS's words | `LegacyAreaSpared`, `ErrorsExact`, `Lockstep` (types, `InStep`, `ChangeSeen`), `TestEnds` | exact counts, in step |
| `tick_leave` | 2 CPUs, 1 change | `LeaveTogether` is violated | see below |
| `chunk` | the code's own sizes: 256 MB pieces, segments of 16 to 48 pages and within 3 pages of 1 to 8 pieces, 1 to 32 CPUs, 4 and 64 byte multiples, up and down | `TicksAgree` (`SameTicks`, `Uneven`), `EachWordOnce` (`Tiling`: types and `PartsOfSegment`; `AllTested`) | equal ticks, each word once |
| `badram` | 8 words in any order, table of 3 | `TableSound` (types, `KnownIsCovered`), `RelocationEnds`, `NothingForgotten` | a step loses an address only where `relocateiffree` leaves the table or merges a pattern with itself; see below for both |
| `patterns` | all tests, C, x86 and RISC-V loops, 1 to 3 CPUs, segments of 1, 3 and 6 pages of 16 words in blocks of 32; no fault, 8 stuck bits, 3 pairs of words in one cell, address lines | `ErrorsTrue` (`InWatermarks`, `NoFalseErrors`, `FaultNamed`), `FaultFound` | the pattern written is the one expected, through inversions, rotations, moves and at every end of a block; a fault is found and named, up to the words each test leaves out (`LeftOut`) |
| `console` | 12 users, each with a few keys, on the keyboard or a serial line; 3 tests, 2 windows, 3 errors; 1 or 2 CPUs; in test 0 the limits are changed up to four times, over two segments of which the limits may lie in one | `ScreenRestored`, `SummaryExact`, `TextTaken` (`ListSelects`, `LimitAsTyped`), `LimitsHold` | popups leave the screen as it was; the summary is that of the errors; what is typed is what is set, and the limits keep their order, whichever is moved, up to four times |
| `memory` | 20 machines with the code's own sizes: 16 MB to 6.5 GB, e820 maps in and out of order, older BIOS calls, LinuxBIOS, device trees, MP and ACPI tables, no PAE, no long mode, 1 to 5 CPUs, changed limits | `TablesRead` (`MapExact`, `CpusNumbered`), `WindowsSound` (`TestedAll`, `SegmentsSound`), `ForecastExact` | from the tables to the page: everything reported as memory within the limits is tested, and nothing else; the running copy is not in it; ticks are as foreseen for the tests in `Foreseen` |
| `program` | three parts, one of which moves in a behaviour. Image: an i386 one with every relocation type, 2 CPUs; a RISC-V one with those a link can leave, loaded at 5 pages, overlapping its place or not. Display: a screen of 5 rows and 2 columns, one CPU, texts of one and two characters. Conversions: 43 numbers at the borders of the widths in every field, all characters, all strings of up to 5 of 3 letters, all moves in a small memory, all quotients of 8 bits | `ImageAsLinked` (with the data kept), `TestsAgain`; `TerminalFollows` (types, `Shown`, `CopyOfScreen`), `RedrawShowsAll`; `NumbersShown`, `TextsExact` | whoever executes in a copy finds each word as it is meant to be there, also the third time, with what the program has stored, and it tests in both places for ever; the terminal shows what the screen does, but for the line that scroll opens and the last column; what is shown, entered, found and moved is what was given |

**Bounds.** Four CPUs in the lock and the barrier are enough for a holder, two losers at
different places and a newcomer; the proofs then take any number. Three CPUs in `Sched`,
`Startup` and `Tick` give a master, a selected other and one that is not selected or late.
Two passes and three windows make the program relocate to the high copy and back and the
window variables wrap; the state space of `Sched` has no further counter. Its window loop has
two ends, and each of the two machines meets one of them: `map_page` fails (`MapEnd = 1`), or
`win_next` has passed the last window, which holds no memory (`MapEnd = 9`). On the latter a
CPU that is not selected may come late, between the master's last pick and its look at
`win_next`, and set the windows back; fairness does not keep it from being late every time.
`PassCompletes` says that this is the only way for a pass not to end. The mode is switched on
the first machine only, since on the second three CPUs that `test++` together run off the list
(`SkipsOnlySingle` below). Three ticks let a CPU be a tick behind at the first and
at the last of them. The `chunk` run has the actual sizes, chosen where one CPU or one
word more makes a tick more. In `badram` a table of three fills up with the eight words,
a table of ten never would; `Width` is large enough that no pattern of the run covers
half of all addresses (`FaultsCovered` below says what happens then). In `patterns` a word
has 4 bits, so that `movinv32` turns its pattern 4 times, `modtst` takes every 4th word
(`MOD_SZ`), and blocks of 32 words, two pages, end between and at the ends of segments of
one, three and six pages and of parts for 2 and 3 CPUs. The faults are at the first and last word
of a segment and at both sides of the end of a block. In `console` the menus are the
code's own; what is bounded is how long the user types (`MaxEntry`, `ListLen`), how many
errors there are and that no CPU goes deeper than `MaxDepth` calls; four changes of the limits
in test 0 (`MaxChanges`) move both of them, each more than once and in either order, across
the border of the two segments and up against each other; a scroll area of two
lines is full at the second error. In `memory` all sizes and addresses are the code's, and
2 GB, 4 GB, 640 KB and 1 MB are borders that occur; `Disagreeing` has what is at or
beyond the others. In `program` the image of 15 words has one word for each type of relocation,
with and without a symbol of the program; the memory of 64 holds both copies, and addresses
wrap in it. Two CPUs are the one that copies and the one that only follows. The scroll area
of the display has two lines and the popup covers a line of it and one above; of its two columns
one is the last, which the terminal is not sent. The numbers include 0, both sides of each power of ten and of two that a field or a unit ends
at; a kilobyte of `aprint` is 8, and an int has 4 hexadecimal digits.

**Deadlock** is checked except where the code itself stops: `tick` and `tick_leave`
(the CPUs can hang, that is the finding), `chunk` and `patterns` (a walk, a test ends)
and `console` (the user has pressed the keys of the bound). A machine of `memory`, an image
that moves in `program`, and the rest go on for ever.

**Fairness.** Every CPU executes: weak fairness of each CPU's steps, since nothing but
the code's own waiting loops stops a CPU. A spin loop that reads a variable is an
action whose guard is the variable's value. Calling `barrier()` again is fair because the
program never ends. In `Reloc` the
jump waits for the mutex of the one before it and the copy for the barrier, both fair.
Nobody is obliged to ask for the lock, to press a key, or to have an
error; mwait need not wake by itself. `LockProgress` says that *some* CPU gets the lock;
a single CPU may starve, as the lock has no queue.

## Disagreements found

One is a run, with its counterexample, and listed in `PROJECT.json` ("findings"):

- **A late CPU leaves a test alone** (`tick_leave`; `error.c:466-470`, `test.h:24`). `bail`
  is read after the tick's barrier. A slow CPU sees what the master sets at the *next*
  tick, leaves, and the master waits at that barrier for ever.

The others were met in the same way. Each is shown by a configuration beside the modules,
some of them with other constants, which the table gives: `tlc -config <cfg> MC<module>`
(`Tick` and `Badram` themselves). Where a configuration has more than one property, or another
one than the table names, leave only the one of interest in it, or use `-workers 1 -continue`.

**CPUs.** `Sched (a)` is `Sched.cfg` with `NumCpus = 2`, `LastWin = 0`, `FadeSteps = 1`,
`Machines <- OpenEndSwitched`; `Startup (b)` is `Startup.cfg` with `NumCpus = 2`, `Selected = {0, 1}`,
`MaxMoves = 0`; `Tick (c)` is `TickLeave.cfg` with `Pieces = 1`, `ErrorsAt = {"usb", "other"}`,
`MaxErrors = 2`, `MaxKeys = 0`, without `LeadBarrier` and `Addresses`, and `FairSpec`;
`Chunk (d)` is `Chunk.cfg` with `Sizes <- SmallSizes` and `Walks = {"up", "fade"}`.

| configuration | property | what happens |
|---|---|---|
| `Barrier.cfg` with `CPU <- MCLone`, `NumCpus = 2`, `MaxProc = 1`, no deadlock check | `CallsReturn` | `smp.c:34`: `barrier()` returns at once if `num_cpus` is 1, but is set up for `act_cpus`; with `cpumask=` leaving CPU 0 of several, the second call waits for an entrance nobody opens |
| Sched (a) | `NotSelectedGoBack` | `main.c:264`, `276-294`: after `continue` the loop looks at `win_next`, which the master advances; a CPU that is not selected leaves the window loop and resets `win_next`, `window` and `bail`. The CPU that tests alone may then find the windows set back and test all of them again: `WindowOnce` is about tests for several CPUs, and without `run_cpus # 1` it fails in `Sched.cfg` |
| `Sched.cfg` with `NumCpus = 2`, `Machines <- OpenEnd` | `PassAlwaysCompletes` | `main.c:176`, `332-334`: the same, with the windows set back between the master's last pick and its look at `win_next`: it starts them again, and as often as the other is late |
| `Sched.cfg` with `MaxMem = 1`, `Machines <- OpenEnd` | `CpusAgree` | `main.c:184`, `276`: with memory beyond 8 TB and a test for one CPU, which `s_barrier()` lets through alone, a fast CPU leaves at the `break` and sets `win_next` back before a slow one looks: they wait at different calls of `barrier()` |
| Sched (a) | `SkipsOnlySingle` | `main.c:169`: every CPU does `test++` when single CPU tests are skipped, together they skip others. Three of them run off the end of the list: `CpusAgree` fails in `Sched.cfg` with `Machines <- OpenEndSwitched` |
| Sched (a) with `TestSeq <- OneSeq`, `Modes = {"all"}`, `Machines <- OpenEnd` | `ReducedOnFirstPass` | `main.c:390` resets the global `ltest`; `test_setup` (`main.c:415`) has a static one, so that with one test selected the first pass's parameters stay |
| `Startup.cfg` | `OneAtATime` | "We use a lock to insure that only one CPU at a time jumps to the new code. Some of the startup stuff is not thread safe!" (`main.c:85-86`): at the first start there is no lock. When `smp_boot_ap` gives a CPU up (`arch-smp.c:569`) and that comes late, it and the next one are on one `boot_stack` (`head.S:820`), until `switch_to_main_stack` (`main.c:97-119`) |
| `Startup.cfg` | `OrdinalsDense` | the same: one of the two may leave with the number of the other on its stack, and after a relocation look up the other's ordinal; a CPU that lost its way never comes to the barrier, and `EveryoneStarts` fails without `met # {}` |
| Startup (b) | `EveryoneManaged` | `arch.c:103`: a CPU late out of the startup barrier reads the `start_seq = 2` of a faster one and skips its CR4 and EFER setup |
| Startup (b) with `Dead = {1}`, no deadlock check | `TimeoutTurnsOffSmp` | `arch-smp.c:572` prints "Turning off SMP" and does not; the boot CPU waits for the missing CPU for ever |
| Tick (c) | `ErrorsReported` | `error.c:42` returns with `barr->mutex` held: the next error hangs |
| Tick (c) | `LegacyAreaSpared` | `main.c:458-463`: the raised start of the first segment may be set after another CPU has read the old one, in the tests that have no barrier first |
| Chunk (d) | `InsideSegment` | `test.c:101-102` says "round down" and rounds up: on a small segment and many CPUs parts reach outside of it |
| Chunk (d) | `FadeFillsAll` | `test.c:1011-1015`: the bit fade loops leave out the last word of each piece |

**Patterns and BadRAM.**

| configuration | property | what happens |
|---|---|---|
| `PatternsFaults.cfg` | `RandomFindsStuck` | `common.c:333` takes the complement of `p1`, which holds a page number, not of `sp1`: the random test does not write the complement and does not find every stuck bit |
| `PatternsFaults.cfg` | `BankLineFound` | `test.c:164`: of a segment that begins at a bank `addr_tst1` looks at none (`p > v->map[j].start`), so that an address line which is dead in one bank only is not found there |
| `PatternsFaults.cfg` | `FaultNamed` | on RISC-V `error()` may change `t0` and `t1`, which the loop around the call goes on with (`ClobberCases`): the next words are called faulty |
| `Badram.cfg` with `Width = 5`, `MAXPATNS = 2`, `Orders = {"up"}`, `Spec` | `FaultsCovered` | `patn.c:95`: a pattern with one bit left in its mask is merged with itself and dropped |
| `Badram.cfg` with `Span = 4`, `MAXPATNS = 10`, `Orders = {"any"}`, `Spec` | `FaultsCovered` | `patn.c:114-118`: after a merge into the last pattern, which the line before moved into the gap, the recursion goes on with the slot it left |

With `Orders = {"up", "down"}`, `Width = 9` and `Span = 6`, the code's table of ten and
sixteen words in the order of a sweep, `FaultsCovered` holds; but a sweep is no safe order, it
only does not fill that table with so few words. One that fills its table, of a larger memory
or with fewer patterns, loses addresses by the same two lines.

**Console** (`ConsoleFaults.cfg`).

| property | what happens |
|---|---|
| `FadeFilledFirst` | the bit fade test is selected in the menu in the middle of another: on the way out `bitf_seq++` comes first, so that it begins at stage 1, with memory nobody has filled, and reports errors that are none |
| `MapOfWindow` | `config.c:73`: leaving the menu computes the ticks of the pass, and with them overwrites the `v->map` of the window under test |
| `InTable` | `config.c:89`: test numbers 12 and 0 pass the check and are the end of the list, or an entry in front of it; `config.c:192`, `214`, `226`: in test 0 a changed limit does `test--` too, and until the next test is looked for the one that runs is `tseq[-1]` |
| `ListEnds` | `config.c:128`: the loop over a list stays for ever at a character that is neither digit nor end |
| `MessageInArea` | `lib.c:159`: the menu can be opened while a CPU waits to scroll; it resets `msg_line`, and the waiting line is printed above the scroll area |
| `ScreenRestored` | another CPU prints an error while the master has the menu open; `popdown` puts back what was there before |
| `HighestIsMax` | `error.c:177`: an error that is the lowest so far is not looked at for the highest address, which stays 0 after the first |
| `NotCrossed` | `config.c:211`: an upper limit of 0 is always taken |
| `OnlySelectedRun` | `common.c:144`: with `tstlist=` test 0 runs first all the same; a list in the menu leaves its last digit in `test` (`config.c:155`) |
| `MaskSelects` | `common.c:160`: the digits of `cpumask=` are shifted into a mask of all ones, so that a short one leaves the CPUs above it selected; a second option is shifted in behind the first |
| `ExamplesAccepted` | `lib.c:860`: the example `console=ttyS0,9600e8` is refused |

**Memory** (`MemoryFaults.cfg`; `Disagreeing` of `MCMemory` has a machine for each).

| machine | property | what happens |
|---|---|---|
| lower limit above the low window | `TestedAll`, `SegmentsSound` | `main.c:642`: windows begin at the limit; they lie across a border of 2 GB, which the page tables map in two parts, or the memory between the limit and the first border is not tested |
| lower limit in the hole below 1 MB | `SegmentsSound` | `main.c:458`: the start of the first segment is set to the limit, in the hole |
| limit refused | `TestedAll`, `SegmentsSound`, `ForecastExact` | `config.c:73`: the menu's forecast has overwritten `v->map` in the middle of the test, although no limit has changed |
| RAM across or from 640 KB | `MapExact`, `SegmentsSound` | `memsize.c`: the cut at the hole assumes an entry ends before it or begins in front of it |
| an empty e820 entry | `MapExact` | `memsize.c:307`: both its change points are taken as its start, and the entries after it overlap it for ever |
| LinuxBIOS entries out of order | `MapExact`, `SegmentsSound` | `memsize.c:90`: `sort_pmap` moves entries over each other, and loses some |
| tests 4 and 10 | `TicksAsForeseen` | `main.c:541`: the forecast of the walking ones on later passes and of the bit fade test is not what they make |
| two CPUs, tests 3, 6, 7 | `TicksAsForeseen` | their patterns' forecasts are not divided among CPUs as the tests are |
| memory from 64 GB on, no long mode | `SegmentsSound` | `arch-vmem.c`: the page at 64 GB passes `page > 0x1000000` and is mapped at 0 |
| MP table found bad half way | `CpusNumbered` | `arch-smp.c:472`: the ACPI tables count its CPUs again |
| single enabled CPU, boot CPU not first in the MADT | `CpusNumbered` | `arch-smp.c:388`: the first enabled CPU is taken to be the boot CPU, and its place is set only with the second |
| RISC-V, limits changed | `SegmentsSound`, `ForecastExact` | windows of the x86 are laid over a map that has none |
| RISC-V, two memory nodes out of order | `MapExact` | nothing sorts them |

**Relocation and display** (`Program.cfg` with the constants of the first column).

| constants | property | what happens |
|---|---|---|
| `Machines <- WithSymbol` | `ImageAsLinked` | `arch/riscv/reloc.inc.c:40`, `64-69`: an `R_RISCV_64` relocation against a symbol of the program is promised the base of the image and gets the symbol's link address. The Makefile's `-Bsymbolic` keeps such relocations out |
| those of the run | `OpenedLineIsClear` | `lib.c:183`, `190`: `scroll()` sends the terminal a region without the line it has opened and without the last column; on the serial line a message is written over the one before |
| `Cleared = FALSE`, `SCREEN_X = 3` | `RedrawShowsAll` | `arch/riscv/arch.c:169`, `lib.c:486`: on RISC-V the copy of the screen is not cleared, and a row is sent up to the first NUL, so that `L` does not redraw what is behind |
| `Cpus = {m, o}` | `Shown` | `lib.c:223`: only error messages are printed under the mutex. Where two CPUs print at once (`sx` and `sy` are static, the cursor is one), a text goes where the other's cursor was sent |

Seen in the source in passing, without a configuration: `arch-lib.c:30` says that `.` is as
good as `c`, and `.` is not in `ser_map`; `itoa` does not write the least
int; `hprint2` shows the low 32 bits of a RISC-V `ulong`; `dprint` of 0 in a field of one,
from the left, shows nothing; `strstr` does not go back to where a match began and reads
on behind the end; with `clks_msec` at 0, a clock that was not measured, the bisection of
the elapsed time does not end (`error.c:581`); the tenths of a megabyte in the summary are
taken from four bits of the eight (`error.c:260`); on RISC-V `_dl_start` reads the `DT_REL`
and `DT_PLTREL` entries that its image lacks through `NULL` (`reloc.c:182-184`), and the spin
locks are empty; `sort_pmap` writes its first
entry to `pmap[-1]` too; a LinuxBIOS table without memory leaves `v->msegs` at 0,
and the end of memory is then read from `pmap[-1]`; the RISC-V forecast takes `win1_end`
for a size; `sleep()` (`test.c:1065-1098`) keeps the time stamp counter in 32 bits on i386
and waits for a deadline of 64, and makes a tick at each change of the clock.

## Proofs

TLAPS checks `SpinLock_proof`, `Barrier_proof`, `Startup_proof`, `Tick_proof`,
`Chunk_proof`, `Sched_proof`, `Badram_proof` and `Console_proof`, for every number of CPUs.

**SpinLock.** Assumed: `CPU` is finite, `NoOwner` is not in it, `Half >= 2`, and there are
at most `Half + 1` CPUs (129 for a byte; the program has `MAX_CPUS = 32`). The inductive
invariant is `IInv == TypeOK /\ MutualExclusion /\ BoundedCount /\ FreeWhenPositive`.
Exclusion alone is not inductive: that `decb` yields a non-negative byte must imply that
nobody is inside, which is `FreeWhenPositive`; and that holds after a loser's decrement
only if the byte does not wrap, which needs `BoundedCount`: every decrement since the
last store of 1 belongs to a CPU that is still between its `decb` and its next one. The
lemma `BelowFacts` gives such a CPU's room by the cardinality of `CPU`. From the
invariant follow `MutualExclusionHolds`, `BoundedCountHolds`, `FreeWhenPositiveHolds`,
and `Refinement`: the protocol implements `Mutex` with `owner` as the CPU in its critical
section.

**Barrier.** Assumed: `CPU` is finite, `NoOwner` is not in it, and (as the hypothesis
`Participants` of each theorem) `barrier_init` was given the number of CPUs that take part,
at least two. The invariant adds to the exact count the lock (`LockHeld`) and, for each
label, what the two doors and the set of CPUs counted in must be (`Doors`). The key steps
are `CountDownInv` and `CountUpInv`: the counter reaches 0 when everybody is counted in,
and `maxproc` when nobody is any more, by cardinality; the doors then say that nobody is
inside the count while a round is being closed or reopened. From it follow
`CountExactHolds`, `ReentryHeldUpHolds`, `NeverShutInHolds` and `Refinement`: `barrier()`
implements `Rendezvous`, the CPUs being let go at the store of `st2`.

**Startup.** Assumed: at least two CPUs, and that CPU 0 is selected and not dead. The
ordinals come under a mutex to CPUs that are booted one after the other, and both matter:
`BootOrder` says that the CPUs not reached yet are halted and only CPU 0 boots, and
`OrdinalsGiven` that the ordinals taken are distinct, below `cpu_ord`, and
`cpu_ord` is the number of CPUs that have one (`Numbered`), by cardinality; so the next
one is below the number selected (`NextOrdinal`). `WriteInv` is where two CPUs could get
the same one: `MutexHandedOver` says nobody else has read the counter. `TogetherPast`
says that who is past `barrier()`, or that `start_seq` is 2, means that all selected CPUs
are numbered, which `BarrierInv` shows for the release and which nothing undoes. A CPU in
its jump has lost its ordinal with its stack, and `RestartInv` gives it the same one, if
`num_to_ord` has it there: `OrdinalsOwn` says so as long as no two CPUs met on the boot stack,
each then having its own number. `BootStackAloneHolds` is the other half: while
nobody has been given up, the only CPU on its way from the boot stack to its registration is
the one the boot CPU waits for (`ArrivesAlone`, kept by `AloneKept`), and in a relocation
the mutex admits one.

**Tick.** Assumed: at least two CPUs and one piece; errors, changes and the leading
barrier are arbitrary. `Lockstep` needs to know where the CPUs are with respect to
`s_barrier()`, which no variable says: `SameRound` counts, from a CPU's label and ticks,
how often it has been let out (`Rounds`), and says that this number is the same for all
at any time, for a CPU that has left the test as well. `BarrierInv` shows it for the
release, the only step that changes it (all CPUs are waiting then, so all numbers rise by
one); every other step keeps each CPU's number. `ChangeHolds` adds that after the
master's change at tick k nobody passes tick k: those already at its barrier see `bail`.
For the counter, `Owned` says that whoever is between its load and its store holds the
mutex and has loaded the value the counter still has; the step of each error label then
changes the set of CPUs still to count by one (`ReportingStep`, `OneCounted`). `Raised`
says the master raises the segment's start before anybody leaves the first barrier;
`LegacyAreaSparedHolds` has `LeadBarrier` as its hypothesis, and the table above shows
the property does not hold without.

**Chunk.** Two hypotheses on the sizes. `Fits`: the segment is large enough that the
rounding up of all parts but the last leaves some of the last one, n(n-1)(4a-1) bytes for
n CPUs and an alignment of a words, which is 16 pages for 32 CPUs and 64 bytes;
`InsideSegment` above shows that a smaller segment breaks the division. `Uneven`: no part is a whole number of pieces
long, or a word more; the run `chunk` checks it for the code's own sizes, as a part of
`TicksAgree`. `PartFits` and `Parts` give `PartsOfSegment` from the inequalities of the two
divisions. The invariant (`Up`, `Down`) says that the end of the current piece is a whole
number of pieces from where the CPU began, and that what lies behind the pointer was tested
once; `IterationUp` and `IterationDown` keep it, with `NotWhole` for the iteration that
meets the end of the part: only there could the loop stop with a word untested.

That all CPUs make the same number of ticks (`TicksAgreeHolds`), and that no part is
`Uneven`, has `Roomy` as its hypothesis: a piece is a whole number of pages, alignments
divide a page, and what the rounding takes from the last part, and eight bytes a CPU, is
in the segment, or in a page if the segment is longer than a piece for every CPU. A
segment is then k whole pieces for every CPU and a rest of at least a page and at most a
piece for every CPU (`WholePieces`), and `RoomyParts` shows that each part, the shortened
last one too, lies strictly between k and k + 1 pieces. `DoneTogether` carries this to the
walks: k pieces are made by each CPU and one more finishes each. `Roomy` implies `Fits`
and `Uneven`, so `Tiling` and `AllTested`, which `EachWordOnceHolds` puts together, need
nothing else; `SizesOfCode` says that it holds for pieces of q pages, segments of 16 to 8q
pages, 1 to 32 CPUs, and alignments of 4 and 64 bytes, whatever q is (65536 in the code).

**Badram.** Nothing is assumed but what the module does (`Width`, `Span` and the table's
size). `TableSoundHolds` is about `addresses()` and `combicost()`, which count the
addresses of a pattern in 32 bits: the least and greatest number of a set (`Least`,
`Greatest`) and the number of subsets (`PowerGrows`) make the comparison of two counts
that of two masks (`Costs`, `FewerBits`), and a combination costs nothing just when its
mask is the old one, that is when the pattern covers the address already (`KnownExact`).
The invariant `BInv` adds to the types that every mask is inside of `DEFAULT_MASK`, which
the counting needs. `NothingForgottenHolds` rests on `CombineCovers`: a step keeps every
address covered, unless `relocateiffree` works on a slot outside of the table or merges a
pattern with itself, the two lines under `FaultsCovered` above.
`CombineLeast` says that `combine()` gives up no address it need not.

**Console.** Assumed: the errors of a case have an address in a page below the mark of an
empty summary, and bits of a 32-bit word. `SInv`, for `SummaryExactHolds`, says that an
error on its way to the screen is one of the case, and that the summary is untouched
since `set_defaults` until the first error is counted, after which it sums what was
`seen`; each place of a call stack at which a key may change the report mode comes in
between, and clears nothing. `ScrInv`, for `ScreenRestoredHolds`, describes the call stacks
(`Shape`: which call may wait below which, and that the lines of an error wait under the
menu and never above it), and what `save` and `save2` hold for each: while a menu is open
it is the only one (`OneMenu`), and what it covers, with what a popup on it covers, is
what is put back. Its hypothesis is `OneUser`: with two CPUs at the keyboard one saves the
other's menu, and `ConsoleFaults.cfg` shows the screen that this leaves.

`LimitsAreHeld`, for `LimitsHold`, has `MapSorted` as its hypothesis: the map is not empty,
and no range of it begins before the end of one in front of it. That is what `MapExact` of
`Memory` says of the firmware's tables; pages of two overlapping ranges (`MemoryFaults.cfg`)
`adj_mem` counts twice. `adj_mem` is a fold over the map, and `getval` one over the keys. That
a fold is a function at all, with the value its recursion says, is `FoldExists`, and what
holds along it is `FoldInduction`: induction over the sets of positions as a plain set, by
the least counterexample (`LeastOf`), which needs no operator for its parameter. With it
`AdjMemCounts` says that the sum over the entries is the number of pages in them, a sorted
map having no page twice, and `GetvalNumber` that what is typed, in any base and with any
suffix, is a number. `LInv` says that the keys typed are keys, and that the limits are in
order unless the upper one is 0, which the menu takes without comparing (`NotCrossed` above).

`TextTakenHolds`, for `TextTaken`, has `OneUser` again (two users of the menu write into one
buffer) and `CommandLines`: the command line is a sequence of options, and the text of a
`tstlist=` one of characters. Two lemmas say what the code's loops compute, for every text.
`ListIsExact`: a list selects exactly the numbers below `k` in it that stand between commas,
up to its first empty place. Its induction goes over the digits read (`ScanInv`): what has
been selected is what the numbers that end before the one being read say (`Found`), and
`j` is the value of the digits of that one (`Midway`, with `NumberGrows`). `GetvalPages`:
what `getval` returns are the pages of the digits and the unit, if the buffer holds what
its keys can put there (`NumberText`: digits of the base of the first characters, an x
behind a leading 0, a unit at the end), which each key, BS too, preserves (`TypedText`,
although the base is read from the buffer anew each time). `TextInv` then says when these
apply: a number is in the buffer while the stack has a call of `getval` (`FieldInv`), and
no test is selected while it has one of `get_list`, whatever was selected before, since the
menu clears the table first; without that a list would add to the old selection. The
command line has been read before any call is on a stack.

**Sched.** The hypothesis is `CodeList`. Every test that can be run is, as in `tseq`
(`common.c:19-32`), for all CPUs (`All`) or for one at a time (`Alone`: each in turn, or
CPU 0); where it is for one, the memory ends below `MAX_MEM`; some test is selected; and the
user does not switch `cpu_mode`. CPUs, windows, the steps of the bit fade and the list
itself are arbitrary. The last two conditions are needed: with none selected the search for
the next test does not end, and after a switch every CPU does `test++` for the tests that
are skipped (`SkipsOnlySingle`), so that with enough CPUs `test` leaves the list. The memory
limit is needed too, see the table above.

The invariant is built on *phases*, named for the barrier the CPUs come from: `Where` says
that each CPU is still leaving that barrier, at a label between it and the next one, or
there and not let go. Each phase then has its own facts about the shared variables
(`InStarted` ... `InEnd`), and a race is a step that another CPU of the same phase may not
notice: the first CPU past the scheduling barrier moves `window` for the bit fade test,
after which the others move nothing (`Settled`, `PlaceInv`); all do `test_setup` while the
master looks for the next test, but the master's own comes last (`InEnd`); the master picks
the window while the others may not yet have left the barrier before (`InReady`).

When one CPU tests it waits for nobody from the barrier before the window to the next
scheduling barrier, so that the two sides of a phase no longer take turns: `InSoloReady`
and `InSoloWindow` let the others be anywhere from that barrier to the scheduling one,
while the one that tests is in its window, back from it, or at the end of the test. One of
the others that looks at `win_next` once the last window is picked goes through `end`,
where `s_barrier()` does not hold it, and sets the windows back. It can do so only when
that window has no memory in it (`pc[p] \in {"end", "top"} => segs = 0`), which is all that
keeps it from setting them back under a window being tested (`SoloOther`, `SoloMaster`,
`EndStep`). `InEnd` then has CPUs that have yet to leave the barrier before the window.

`AllWait` and `AllWaitSub` say that CPUs which all wait are in one place, since what each
decided by is the same for all; `ReleaseInv` and `SReleaseInv` then start the next phase.
`CoverageHolds` and `WindowOnceHolds` rest on `Done` and `Before`: what several CPUs have
tested is exactly what lies below the next window, by all of them; what one has tested
alone is at least that, and more only if the windows were set back. `StaleCopyUntouchedHolds`
needs only the phases in which the copies differ.

Only model-checked: liveness (`LockProgress`, `CallsReturn`, `PassCompletes`,
`EveryoneStarts`, `TestEnds`, `RelocationEnds`, `TestsAgain`), which the prover cannot do under
fairness; `Sched` where the user switches `cpu_mode`, or where a test is for some of the
CPUs but more than one; and everything in `Patterns`, `Memory` and `Program`: what the recursive definitions of
`Snippets`, `Firmware`, `Cpus` and `Reloc` compute for every input is an induction over data,
out of the prover's reach but for single folds and the one loop over a list, as above.

## Not modelled

- Chipset, SPD, DMI, PCI and CPU identification (`controller.c`, `spd.c`, `jedec_id.h`,
  `dmi.c`, `pci.c`, `cpuid.c` and most of `init.c`): tables of devices, port I/O and
  formatting, without a state the tests depend on. They are more than a third of the
  source. What other CPUs feel of the screen, the mutex held over `check_input`, is in
  `Tick` and `Console`.
- `extra.c`, the memory timing menu: no list of objects in a Makefile holds it.
- Boot sector, setup and `head.S` up to the zeroing of `.bss`: they load the image and enter
  protected mode. `inter()` and the trap handlers: the program ends there.
- Initialization: the speed measurement and the lines that say what was found. The fail-safe
  keys switch off SMP and both barriers together.
- The command line's `btrace`, `maxcpus`, `onepass` and address limits: a flag or a
  number each. The confidence score, and colours.
- `test-runner.c` runs the tests in a process of the build machine.

## Plan

Done: the lock and barriers, startup, ticks, division and scheduling with their proofs,
BadRAM, patterns, memory from the tables to the windows, the console, relocation, the
display, conversions. Left, in this order;
modules written so that they can be proved about (no `RECURSIVE`, one action per
operation, invariants in named parts):

1. Theorems: the parts of `Memory` that are no folds (windows, the copy in use), and
   `TerminalFollows`.
2. `Sched` refined: the window as the steps of `Tick`, with the selected CPUs only, and
   `Memory`'s windows under `Sched`'s numbers.
