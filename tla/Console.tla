------------------------------ MODULE Console ------------------------------
(***************************************************************************)
(* The user at the keyboard or at a serial line, while tests run: the      *)
(* command line and set_defaults (src/common.c), check_input, getval,      *)
(* get_list, wait_keyup and scroll (src/lib.c), get_config and its popups  *)
(* (src/config.c), common_err and printpatn (src/error.c), and the         *)
(* housekeeping at the end of a test (src/main.c, next_test).              *)
(*                                                                         *)
(* stack[p] is the call stack of CPU p, innermost first, <<>> while it     *)
(* tests: a function that waits for a key is on it until the key comes.    *)
(* CPU "m" is the master, which polls the keyboard at each tick; "o" is    *)
(* another one, which comes to the keyboard only with an error of its own. *)
(***************************************************************************)
EXTENDS Options, Summary, TLC

CONSTANTS
  Cases,      \* scenarios: the command line, the CPUs with events, the menus the user
              \* opens and the keys they press, the errors that occur, the last test
              \* that begins, and cpu_sel of what is in front of tseq
  CpuSel,     \* cpu_sel of each test of tseq, -1, 1 or 32; the last is the bit fade
  ActCpus,    \* act_cpus
  Map,        \* v->pmap, a sequence of [start, end], in pages
  LastWin,    \* the last window with segments
  ListLen,    \* characters get_list takes, 63 in the code
  MaxEntry,   \* bound: characters the user types into getval
  MaxChanges, \* bound: changes of the limits that are taken while test 0 runs
  MaxErrors,  \* bound: errors that occur, and lines when the patterns are asked for
  MaxDepth,   \* bound: calls of a CPU that is in a menu it has entered while printing
  MaxPass,    \* bound: passes
  MaxLine,    \* last line of the scroll region, 23 in the code
  LINE_SCROLL \* its first line, 14 in the code

ASSUME CpuSelAssumption == Len(CpuSel) > 1 /\ \A i \in DOMAIN CpuSel : CpuSel[i] \in {-1, 1, 32}
ASSUME ActCpusAssumption == ActCpus \in Nat \ {0}
ASSUME MapAssumption == \A i \in DOMAIN Map : Map[i].start < Map[i].end
ASSUME LineAssumption == LINE_SCROLL <= MaxLine
\* A word has 32 bits; the page of an address is below what the summary begins with.
ASSUME ErrorAssumption == \A c \in Cases : \A e \in c.errors :
                            e.adr \in Nat /\ page_of(e.adr) < NoPage /\ e.xor \in SUBSET (0 .. 31)

VARIABLES
  case,      \* the scenario, constant
  opts,      \* options of the command line still to be parsed
  started,   \* the defaults are set
  serial,    \* serial_cons
  mask,      \* cpu_mask
  stack, mutex,
  err,       \* the error a CPU is printing
  prt,       \* prt of get_config: the patterns are printed when it is left
  held,      \* the key that is down, or NUL
  slock,     \* scroll lock
  buf,       \* what has been typed into getval or get_list
  sel, test, pass, bail, cpu_sel, cpu_mode, bitf_seq,
  lower, upper, selected_pages,
  win, mapped,  \* the window being tested, and the window v->map describes
  mem,       \* history: what the bit fade test has put into all of the memory
  screen, save, save2,  \* [top, msgs]: what is in front, and the messages on it
  printmode, erri, msg_line, patns,
  ecount,    \* v->ecount
  seen,      \* history: errors since the summary was started
  printed    \* history: lines printed, and the line of the last one

progress == <<sel, test, pass, bail, cpu_sel, cpu_mode, bitf_seq, win, mem>>
limits == <<lower, upper, selected_pages>>
popups == <<screen, save, save2>>
report == <<printmode, erri, msg_line, patns, ecount, seen, printed>>
boot == <<case, opts, started, serial, mask>>
calls == <<stack, mutex, err, prt>>
typing == <<held, slock, buf>>
vars == <<boot, calls, typing, progress, limits, mapped, popups, report>>

CPU == case.cpus
NTests == Len(CpuSel)            \* 11 in the code
Fade == NTests - 1               \* the test with pattern 11
\* tseq[i]: the last entry ends the list, case.before is in front of the first.
EntryCpus(i) == IF i < 0 THEN case.before ELSE IF i >= NTests THEN 0 ELSE CpuSel[i + 1]
NoError == [adr |-> 0, xor |-> {}, mask |-> {}, type |-> 0]
-----------------------------------------------------------------------------
(* parse_command_line, one option at a time, and set_defaults. *)
Option(o) ==
  CASE o.opt = "tstlist" -> /\ sel' = (sel \ (0 .. NTests - 1)) \cup ListOf(o.text, NTests).sel
                            /\ UNCHANGED <<serial, mask>>
    [] o.opt = "cpumask" -> mask' = mask \cap CpuMask(o.text) /\ UNCHANGED <<serial, sel>>
    [] o.opt = "console" -> serial' = (serial \/ SerialOk(o)) /\ UNCHANGED <<mask, sel>>

Parse == /\ opts # <<>>
         /\ Option(Head(opts))
         /\ opts' = Tail(opts)
         /\ UNCHANGED <<case, started, calls, typing, test, pass, bail, cpu_sel, cpu_mode, bitf_seq, limits,
                        win, mapped, mem, popups, report>>

\* The loop of memtest_main that skips the tests that go from CPU to CPU.
SkipFrom(t, mode) == IF ActCpus > 1 /\ mode = "all" THEN t
                     ELSE CHOOSE u \in t .. NTests : EntryCpus(u) # -1
                                                     /\ \A i \in t .. u - 1 : EntryCpus(i) = -1

\* Fault: a segment that straddles the lower limit is counted as a whole.
adj_mem_whole(lo, up) ==
  LET Pages(s) == IF s.start >= lo /\ s.end <= up THEN s.end - s.start
                  ELSE IF s.start < lo THEN IF s.end < lo THEN 0
                                            ELSE IF s.end > up THEN up - lo ELSE s.end - s.start
                  ELSE IF s.start > up THEN 0 ELSE up - s.start
  IN FoldLeft(LAMBDA n, s : n + Pages(s), 0, Map)

adj_mem(lo, up) ==
  LET Pages(s) == IF s.start >= lo /\ s.end <= up THEN s.end - s.start
                  ELSE IF s.start < lo THEN IF s.end < lo THEN 0
                                            ELSE IF s.end > up THEN up - lo ELSE s.end - lo
                  ELSE IF s.start > up THEN 0 ELSE up - s.start
  IN FoldLeft(LAMBDA n, s : n + Pages(s), 0, Map)

\* The first start: test stays 0, the bit fade test is taken off the selection.
set_defaults == /\ opts = <<>> /\ ~started
                /\ started' = TRUE
                /\ sel' = sel \ {Fade}
                /\ lower' = Map[1].start /\ upper' = Map[Len(Map)].end
                /\ test' = SkipFrom(test, "all")
                /\ cpu_mode' = "all" /\ cpu_sel' = 0 /\ bail' = FALSE /\ pass' = 0
                /\ printmode' = "addresses" /\ msg_line' = LINE_SCROLL - 1 /\ erri' = Empty /\ patns' = FALSE
                /\ ecount' = 0
                /\ UNCHANGED <<case, opts, serial, mask, calls, typing, bitf_seq, selected_pages, win,
                               mapped, mem, popups, seen, printed>>

Tests == [top |-> "tests", msgs |-> 0]
Init == /\ case \in Cases
        /\ opts = case.opts /\ started = FALSE /\ serial = FALSE /\ mask = 0 .. MaskBits - 1
        /\ stack = [p \in CPU |-> <<>>] /\ mutex = NUL
        /\ err = [p \in CPU |-> NoError] /\ prt = [p \in CPU |-> FALSE]
        /\ held = NUL /\ slock = FALSE /\ buf = <<>>
        /\ sel = 0 .. NTests - 1 /\ test = 0 /\ pass = 0 /\ bail = FALSE
        /\ cpu_sel = 0 /\ cpu_mode = "all" /\ bitf_seq = 0
        /\ lower = 0 /\ upper = 0 /\ selected_pages = 0
        /\ win = 0 /\ mapped = 0 /\ mem = "other"
        /\ screen = Tests /\ save = Tests /\ save2 = Tests
        /\ printmode = "addresses" /\ erri = Empty /\ msg_line = LINE_SCROLL - 1 /\ patns = FALSE
        /\ ecount = 0 /\ seen = {} /\ printed = [n |-> 0, line |-> 0]

Running == started
-----------------------------------------------------------------------------
(* Keys.  A key is pressed or released when a CPU polls for it; a serial   *)
(* line has no releases.                                                   *)
Event == case.keys \cup {"REL"}
get_key(e) == IF e = "REL" THEN held # NUL /\ held' = NUL
              ELSE /\ held = NUL
                   /\ held' = IF serial THEN NUL ELSE e

Top(p) == IF stack[p] = <<>> THEN "test" ELSE Head(stack[p])
\* p returns from its n innermost calls and calls fs.
Unwind(p, n, fs) == stack' = [stack EXCEPT ![p] = fs \o SubSeq(@, n + 1, Len(@))]
Call(p, fs) == Unwind(p, 0, fs)
Return(p) == Unwind(p, 1, <<>>)

popup == save' = screen /\ screen' = [top |-> "menu", msgs |-> 0] /\ UNCHANGED save2
\* Fault: what the other popup has saved comes back.
popdown_other == screen' = save2 /\ UNCHANGED <<save, save2>>
popdown == screen' = save /\ UNCHANGED <<save, save2>>
pop2up == save2' = screen /\ screen' = [top |-> "data", msgs |-> 0] /\ UNCHANGED save
pop2down == screen' = save2 /\ UNCHANGED <<save, save2>>

\* check_input, with an event: the release of a key is taken for the key.  The
\* innermost n calls of p are over, and fs follow.
check_input(p, e, n, fs) ==
  LET key == IF e = "REL" THEN held ELSE e
  IN /\ get_key(e)
     /\ \/ key = "ESC" /\ Unwind(p, n, <<"halted">>) /\ UNCHANGED <<slock, prt, popups>>
        \/ /\ key = "c"
           /\ popup
           /\ Unwind(p, n, <<"keyup", "menu">> \o fs)
           /\ prt' = [prt EXCEPT ![p] = FALSE]
           /\ UNCHANGED slock
        \/ /\ key \in {"CR", "SP"}
           /\ slock' = (key = "SP")
           /\ Unwind(p, n, fs)
           /\ UNCHANGED <<prt, popups>>
        \/ key \notin {"ESC", "c", "CR", "SP"} /\ Unwind(p, n, fs) /\ UNCHANGED <<slock, prt, popups>>

\* The master at a tick, and scroll when the scroll lock is on.
Poll(p) == /\ Running
           /\ \/ p = "m" /\ Top(p) = "test"
              \/ Top(p) = "locked" /\ slock
           /\ \E e \in Event : check_input(p, e, 0, <<>>) /\ Len(stack'[p]) <= MaxDepth
           /\ UNCHANGED <<boot, mutex, err, buf, progress, limits, mapped, report>>

\* wait_keyup; with a serial line it takes a key, if there is one, and returns.
wait_keyup(p) ==
  /\ Top(p) = "keyup"
  /\ \/ \E e \in Event : /\ get_key(e)
                         /\ IF e = "REL" \/ serial THEN Return(p) ELSE UNCHANGED stack
     \/ serial /\ Return(p) /\ UNCHANGED held
  /\ UNCHANGED <<boot, mutex, err, prt, slock, buf, progress, limits, mapped, popups, report>>
-----------------------------------------------------------------------------
(* get_config. *)
cancel == {"0", "SP"}

\* The submenus of (1) to (4), each after popclear and wait_keyup.
OpenMenu(p, e) ==
  LET of == [x \in {"1", "2", "3", "4"} |->
               CASE x = "1" -> "tests" [] x = "2" -> "range" [] x = "3" -> "errors" [] x = "4" -> "cpus"]
  IN /\ e \in DOMAIN of /\ e \in case.menus
     /\ Call(p, <<"keyup", of[e]>>)
     /\ UNCHANGED popups

\* (6) the popup of the memory devices, over the menu, until any event; (7) the
\* SPD data, with the menu taken down meanwhile.
ShowData(p, e) == \/ e = "6" /\ pop2up /\ Call(p, <<"dmi">>)
                  \/ /\ e = "7"
                     /\ save2' = save /\ screen' = [top |-> "data", msgs |-> 0] /\ UNCHANGED save
                     /\ Call(p, <<"keyup", "spd">>)

\* (0), CR, SP and (5) leave the menu.
LeaveMenu(p, e) == /\ e \in cancel \cup {"CR", "5"}
                   /\ popdown
                   /\ Unwind(p, 1, IF prt[p] THEN <<"patn">> ELSE <<>>)

Menu(p) == /\ Top(p) = "menu"
           /\ \E e \in Event : /\ get_key(e)
                               /\ \/ OpenMenu(p, e) \/ ShowData(p, e) \/ LeaveMenu(p, e)
                                  \/ /\ e \notin {"0", "1", "2", "3", "4", "5", "6", "7", "SP", "CR"}
                                     /\ UNCHANGED <<stack, popups>>
           /\ UNCHANGED <<boot, mutex, err, prt, slock, buf, progress, limits, mapped, report>>

Data(p) == /\ \/ Top(p) = "dmi" /\ pop2down /\ Return(p)
              \/ Top(p) = "spd" /\ Unwind(p, 1, <<"keyup", "spd_end">>) /\ UNCHANGED popups
           /\ \E e \in Event : get_key(e)
           /\ UNCHANGED <<boot, mutex, err, prt, slock, buf, progress, limits, mapped, report>>
\* pop2down of show_spd, then popup of get_config
ShownSpd(p) == /\ Top(p) = "spd_end" /\ Return(p)
               /\ save' = save2 /\ screen' = [top |-> "menu", msgs |-> 0] /\ UNCHANGED save2
               /\ UNCHANGED <<boot, mutex, err, prt, typing, progress, limits, mapped, report>>

\* (1) test selection: all tests, skip, a number, a list.
TestMenu(p) ==
  /\ Top(p) = "tests"
  /\ \E e \in Event :
       /\ get_key(e)
       /\ \/ /\ e = "1"
             /\ sel' = 0 .. NTests - 1
             /\ mapped' = LastWin            \* find_ticks_for_pass
             /\ Return(p)
             /\ UNCHANGED <<buf, bail>>
          \/ e = "2" /\ bail' = TRUE /\ Return(p) /\ UNCHANGED <<buf, sel, mapped>>
          \/ /\ e = "3"
             /\ buf' = <<>>
             /\ Call(p, <<"keyup", "number">>)
             /\ UNCHANGED <<sel, bail, mapped>>
          \/ /\ e = "4"
             /\ buf' = <<>>
             /\ sel' = sel \ (0 .. NTests - 1)
             /\ Call(p, <<"keyup", "list">>)
             /\ UNCHANGED <<bail, mapped>>
          \/ e \in cancel /\ Return(p) /\ UNCHANGED <<buf, sel, bail, mapped>>
          \/ e \notin {"1", "2", "3", "4"} \cup cancel /\ UNCHANGED <<stack, buf, sel, bail, mapped>>
  /\ UNCHANGED <<boot, mutex, err, prt, slock, test, pass, cpu_sel, cpu_mode, bitf_seq, win, mem,
                 limits, popups, report>>

\* The entry of a number: a key of getval but CR, which needs a character.
Type(p) ==
  /\ Top(p) \in {"number", "lower", "upper"}
  /\ \E e \in Event : /\ get_key(e)
                      /\ e # "CR" \/ buf = <<>>
                      /\ buf' = Typed(buf, e)
                      /\ Len(buf') <= MaxEntry
  /\ UNCHANGED <<boot, calls, slock, progress, limits, mapped, popups, report>>

Entered(p, f) == Top(p) = f /\ buf # <<>> /\ get_key("CR")

\* The menu is told from 1; 0 and NTests + 1 are taken too.
SelectTest(p) ==
  LET n == getval(buf, 0) - 1
  IN /\ Entered(p, "number")
     /\ IF n <= NTests
          THEN /\ sel' = (sel \ (0 .. NTests - 1)) \cup {n}
               /\ pass' = -1 /\ test' = n /\ bail' = TRUE
               /\ mapped' = LastWin
               /\ Unwind(p, 2, <<>>)
          ELSE Return(p) /\ UNCHANGED <<sel, pass, test, bail, mapped>>
     /\ buf' = <<>>
     /\ UNCHANGED <<boot, mutex, err, prt, slock, cpu_sel, cpu_mode, bitf_seq, win, mem,
                    limits, popups, report>>

ListKeys == Digits \cup {","}
\* get_list keeps what BS has erased as a blank until it is typed over or ended.
List(p) ==
  /\ Top(p) = "list"
  /\ \E e \in Event :
       /\ get_key(e)
       /\ buf' = IF e \in ListKeys THEN Append(buf, e)
                 ELSE IF e = "BS" /\ buf # <<>> THEN Front(buf) ELSE buf
       /\ IF (e = "CR" /\ buf # <<>>) \/ Len(buf') = ListLen
            THEN Unwind(p, 1, <<"listed">>) ELSE UNCHANGED stack
  /\ UNCHANGED <<boot, mutex, err, prt, slock, progress, limits, mapped, popups, report>>

\* The numbers of the list that are tests are selected, or all if none is; the
\* last digit is the test that ends now.  A list that does not end with a
\* number is looked at for ever.
SelectList(p) ==
  LET l == ListOf(buf, NTests)
  IN /\ Top(p) = "listed" /\ l.ended
     /\ sel' = sel \cup (IF l.sel = {} THEN 0 .. NTests - 1 ELSE l.sel)
     /\ pass' = -1 /\ test' = l.n /\ bail' = TRUE
     /\ mapped' = LastWin
     /\ Unwind(p, 2, <<>>)
     /\ buf' = <<>>
     /\ UNCHANGED <<boot, mutex, err, prt, held, slock, cpu_sel, cpu_mode, bitf_seq, win, mem,
                    limits, popups, report>>
-----------------------------------------------------------------------------
(* (2) the address range. *)
\* test-- and bail++, in test 0 as in any other.
Decrement == test + MaxChanges > 0 /\ test' = test - 1 /\ bail' = TRUE

\* page - 1 of page 0 is the largest page
LowerOk(page) == page + 1 <= upper
UpperOk(page) == page = 0 \/ page - 1 >= lower

SetLower(p) == LET page == getval(buf, 12)
               IN /\ Entered(p, "lower")
                  /\ IF LowerOk(page) THEN lower' = page /\ Decrement
                                      ELSE UNCHANGED <<lower, test, bail>>
                  /\ UNCHANGED upper
SetUpper(p) == LET page == getval(buf, 12)
               IN /\ Entered(p, "upper")
                  /\ IF UpperOk(page) THEN upper' = page /\ Decrement
                                      ELSE UNCHANGED <<upper, test, bail>>
                  /\ UNCHANGED lower
AllMemory(p) == /\ Top(p) = "range" /\ get_key("3")
                /\ lower' = 0 /\ upper' = Map[Len(Map)].end
                /\ Decrement
SetLimits(p) == /\ \/ (SetLower(p) \/ SetUpper(p)) /\ Unwind(p, 2, <<>>)
                   \/ "3" \in case.keys /\ AllMemory(p) /\ Return(p)
                /\ selected_pages' = adj_mem(lower', upper')
                /\ mapped' = LastWin          \* find_chunks
                /\ buf' = <<>>
                /\ UNCHANGED <<boot, mutex, err, prt, slock, sel, pass, cpu_sel, cpu_mode,
                               bitf_seq, win, mem, popups, report>>

RangeMenu(p) ==
  /\ Top(p) = "range"
  /\ \E e \in Event \ {"3"} :
       /\ get_key(e)
       /\ \/ /\ e \in {"1", "2"}
             /\ buf' = <<>>
             /\ Call(p, <<"keyup", IF e = "1" THEN "lower" ELSE "upper">>)
          \/ e \in cancel /\ Return(p) /\ UNCHANGED buf
          \/ e \notin {"1", "2"} \cup cancel /\ UNCHANGED <<stack, buf>>
  /\ UNCHANGED <<boot, mutex, err, prt, slock, progress, limits, mapped, popups, report>>

(* (3) the error report mode. *)
SetMode(mode) ==
  /\ printmode' = mode
  /\ erri' = [erri EXCEPT !.hdr_flag = FALSE,
                          !.eadr = IF mode \in {"summary", "addresses"} THEN 0 ELSE @]
  /\ msg_line' = IF mode = "addresses" THEN LINE_SCROLL - 1 ELSE msg_line
ModeOf == [x \in {"1", "2", "3", "4"} |->
             CASE x = "1" -> "summary" [] x = "2" -> "addresses" [] x = "3" -> "patterns" [] x = "4" -> "none"]

ErrorMenu(p) ==
  /\ Top(p) = "errors"
  /\ \E e \in Event :
       /\ get_key(e)
       /\ e = "3" => printed.n < MaxErrors
       /\ IF e \in DOMAIN ModeOf
            THEN /\ SetMode(ModeOf[e])
                 /\ prt' = [prt EXCEPT ![p] = @ \/ e = "3"]
            ELSE UNCHANGED <<prt, printmode, erri, msg_line>>
       /\ IF e \in DOMAIN ModeOf \cup {"5"} \cup cancel THEN Return(p) ELSE UNCHANGED stack
  /\ UNCHANGED <<boot, mutex, err, slock, buf, progress, limits, mapped, popups, patns, ecount, seen, printed>>

(* (4) the CPU mode; it is written to the screen between popdown and popup. *)
CpuMode == [x \in {"1", "2", "3"} |-> CASE x = "1" -> "all" [] x = "2" -> "rrobin" [] x = "3" -> "seq"]
CpuMenu(p) ==
  /\ Top(p) = "cpus"
  /\ \E e \in Event :
       /\ get_key(e)
       /\ IF e \in DOMAIN CpuMode THEN cpu_mode' = CpuMode[e] /\ bail' = (bail \/ cpu_mode # CpuMode[e])
                                  ELSE UNCHANGED <<cpu_mode, bail>>
       /\ IF e \in DOMAIN CpuMode \cup cancel THEN Return(p) ELSE UNCHANGED stack
  /\ UNCHANGED <<boot, mutex, err, prt, slock, buf, sel, test, pass, cpu_sel, bitf_seq, win, mem,
                 limits, mapped, popups, report>>

Config(p) == Menu(p) \/ Data(p) \/ ShownSpd(p) \/ TestMenu(p) \/ Type(p) \/ SelectTest(p) \/ List(p)
             \/ SelectList(p) \/ SetLimits(p) \/ RangeMenu(p) \/ ErrorMenu(p) \/ CpuMenu(p)
-----------------------------------------------------------------------------
(* common_err, and the lines it prints. *)
Duplicate(e) == e.adr = erri.eadr /\ e.xor = erri.exor

\* An individual error is a call that waits for the keyboard, then for scroll.
AddressError(p, e) ==
  /\ printmode = "addresses"
  /\ IF Duplicate(e) THEN UNCHANGED <<stack, mutex, err, erri>>
     ELSE /\ erri' = [erri EXCEPT !.hdr_flag = TRUE]
          /\ mutex' = p
          /\ err' = [err EXCEPT ![p] = e]
          /\ Call(p, <<"line", "unlock">>)
  /\ UNCHANGED <<patns, seen>>

SummaryError(p, e) == /\ printmode = "summary"
                      /\ erri' = Summarize(erri, e)
                      /\ seen' = seen \cup {e}
                      /\ UNCHANGED <<stack, mutex, err, patns>>

\* insertaddress need not change the patterns (Badram).
PatternError(p, e) ==
  /\ printmode = "patterns"
  /\ erri' = [erri EXCEPT !.hdr_flag = TRUE]
  /\ \/ /\ test \notin {0, 5} /\ e.type = 0
        /\ patns' = TRUE
        /\ mutex' = p
        /\ err' = [err EXCEPT ![p] = NoError]
        /\ Call(p, <<"patn", "unlock">>)
     \/ /\ test \in {0, 5} \/ e.type # 0 \/ patns
        /\ UNCHANGED <<stack, mutex, err, patns>>
  /\ UNCHANGED seen

CountError(p, e) == /\ printmode = "none"
                    /\ erri' = [erri EXCEPT !.hdr_flag = TRUE]
                    /\ UNCHANGED <<stack, mutex, err, patns, seen>>

Error(p) ==
  /\ Running /\ Top(p) = "test" /\ mutex = NUL
  /\ ecount < MaxErrors /\ ecount' = ecount + 1
  /\ \E e \in case.errors : \/ AddressError(p, e) \/ SummaryError(p, e)
                            \/ PatternError(p, e) \/ CountError(p, e)
  /\ UNCHANGED <<boot, prt, typing, progress, limits, mapped, popups, printmode, msg_line, printed>>

\* check_input, before a line of its own and in printpatn, with or without a key.
LineInput(p) ==
  /\ Top(p) \in {"line", "patn"}
  /\ LET rest == <<IF Top(p) = "line" THEN "scroll" ELSE "badram">>
     IN \/ \E e \in Event : check_input(p, e, 1, rest) /\ Len(stack'[p]) <= MaxDepth
        \/ Unwind(p, 1, rest) /\ UNCHANGED <<held, slock, prt, popups>>
  /\ UNCHANGED <<boot, mutex, err, buf, progress, limits, mapped, report>>

\* A line goes on what is in front.
PrintLine(p, l) ==
  /\ printed' = [n |-> printed.n + 1, line |-> l]
  /\ screen' = [screen EXCEPT !.msgs = @ + 1]
  /\ erri' = IF err[p] = NoError THEN erri
             ELSE [erri EXCEPT !.eadr = err[p].adr, !.exor = err[p].xor]
  /\ Return(p)

\* scroll: at the bottom it waits until the scroll lock is off, then moves the
\* lines up, wherever msg_line is by now.
scroll(p) ==
  /\ \/ Top(p) = "scroll" /\ msg_line < MaxLine /\ msg_line' = msg_line + 1 /\ PrintLine(p, msg_line')
     \/ Top(p) = "locked" /\ ~slock /\ PrintLine(p, msg_line) /\ UNCHANGED msg_line
     \/ /\ Top(p) = "scroll" /\ msg_line >= MaxLine
        /\ Unwind(p, 1, <<"locked">>)
        /\ UNCHANGED <<msg_line, printed, screen, erri>>
  /\ UNCHANGED <<boot, mutex, err, prt, typing, progress, limits, mapped, save, save2,
                 printmode, patns, ecount, seen>>

\* printpatn without patterns, and spin_unlock of the error.
Done(p) == /\ \/ Top(p) = "badram" /\ Unwind(p, 1, IF patns THEN <<"scroll">> ELSE <<>>) /\ UNCHANGED mutex
              \/ Top(p) = "unlock" /\ Return(p) /\ mutex' = NUL
           /\ UNCHANGED <<boot, err, prt, typing, progress, limits, mapped, popups, report>>
-----------------------------------------------------------------------------
(* The tests: windows, and the housekeeping after the last one. *)
Idle == \A p \in CPU : stack[p] = <<>>

Window == /\ Running /\ Idle /\ win < LastWin
          /\ win' = win + 1 /\ mapped' = win + 1
          /\ UNCHANGED <<boot, calls, typing, sel, test, pass, bail, cpu_sel, cpu_mode, bitf_seq, mem,
                         limits, popups, report>>

\* next_test, as [test, pass_flag].
SelectedFrom(t) == CHOOSE u \in t .. NTests : (u \in sel \/ u = NTests) /\ \A i \in t .. u - 1 : i \notin sel
next_test == LET t == SelectedFrom(test + 1)
             IN IF t < NTests THEN [test |-> t, pass_flag |-> FALSE]
                              ELSE [test |-> SelectedFrom(0), pass_flag |-> TRUE]
Stay == [test |-> test, pass_flag |-> FALSE]

\* The advancement of CPUs and tests.
Advance == LET last == cpu_sel + 1 >= ActCpus
               Cycle == IF last THEN 0 ELSE cpu_sel + 1
           IN CASE cpu_mode = "rrobin" -> [cpu |-> Cycle, next |-> next_test]
                [] cpu_mode = "seq" \/ EntryCpus(test) = -1 ->
                     [cpu |-> Cycle, next |-> IF last THEN next_test ELSE Stay]
                [] OTHER -> [cpu |-> cpu_sel, next |-> next_test]

\* What a stage of the bit fade test, or another test, leaves in the memory.
Left == CASE test # Fade -> "other"
          [] test = Fade /\ bitf_seq = 0 /\ ~bail -> "zeros"
          [] test = Fade /\ bitf_seq = 3 /\ ~bail -> "ones"
          [] test = Fade /\ bitf_seq \in {0, 3} /\ bail -> "other"
          [] OTHER -> mem

House ==
  /\ Running /\ Idle /\ win = LastWin /\ test < NTests
  /\ win' = 0 /\ mapped' = 0 /\ bail' = FALSE
  /\ mem' = Left
  /\ IF test = Fade /\ bitf_seq # 6
       THEN bitf_seq' = bitf_seq + 1 /\ UNCHANGED <<cpu_sel, test, pass>>
       ELSE /\ bitf_seq' = 0
            /\ cpu_sel' = Advance.cpu
            /\ test' = SkipFrom(Advance.next.test, cpu_mode)
            /\ pass' = IF Advance.next.pass_flag THEN pass + 1 ELSE pass
            /\ pass' <= MaxPass
  /\ test' <= case.last
  /\ UNCHANGED <<boot, calls, typing, sel, cpu_mode, limits, popups, report>>

Next == \/ Parse \/ set_defaults \/ Window \/ House
        \/ \E p \in CPU : \/ Poll(p) \/ wait_keyup(p) \/ Config(p)
                          \/ Error(p) \/ LineInput(p) \/ scroll(p) \/ Done(p)
Spec == Init /\ [][Next]_vars
-----------------------------------------------------------------------------
\* A list leaves its last digit in test.
TypeOK == /\ test \in (-MaxChanges .. NTests) \cup (-1 .. 9) /\ sel \subseteq -1 .. NTests /\ bitf_seq \in 0 .. 6
          /\ cpu_sel \in 0 .. ActCpus - 1 /\ win \in 0 .. LastWin /\ mapped \in 0 .. LastWin

\* The tests a list selects are the numbers written between its commas, whether
\* it is typed into the menu or follows tstlist= (the loops of config.c and
\* common.c); a list of the menu without one that is a test selects them all.
ListSelects ==
  LET Chosen(text) == NumbersIn(text) \cap (0 .. NTests - 1)
      chosen == sel' \cap (0 .. NTests - 1)    \* what is beside the table stays as it is
  IN /\ \A p \in CPU : Top(p) = "listed" /\ stack'[p] # stack[p]
                       => chosen = IF Chosen(buf) = {} THEN 0 .. NTests - 1 ELSE Chosen(buf)
     /\ opts' # opts /\ opts # <<>> /\ Head(opts).opt = "tstlist" => chosen = Chosen(Head(opts).text)

\* A limit of the address range is the number of pages that the text says:
\* digits of one base and at most one unit (getval of lib.c).
Digits16(text, base) == \A i \in DOMAIN text : \E d \in 0 .. base - 1 : text[i] = HexDigits[d + 1]
PagesTyped(text) ==
  LET unit == Last(text)
      number == IF unit \in Units THEN Front(text) ELSE text
      hex == Len(number) > 1 /\ SubSeq(number, 1, 2) = <<"0", "x">>
      digits == IF hex THEN SubSeq(number, 3, Len(number)) ELSE number
      base == IF hex THEN 16 ELSE IF At(number, 1) = "0" THEN 8 ELSE 10
      n == FoldLeft(LAMBDA r, c : r * base + Value(c), 0, digits)
  IN IF ~Digits16(digits, base) THEN -1
     ELSE CASE unit = "g" -> n * 262144 [] unit = "m" -> n * 256 [] unit = "p" -> n
            [] unit = "k" -> n \div 4 [] OTHER -> n \div 4096
LimitAsTyped == \A p \in CPU : /\ Top(p) = "lower" /\ lower' # lower => lower' = PagesTyped(buf)
                               /\ Top(p) = "upper" /\ upper' # upper => upper' = PagesTyped(buf)

\* What is typed is what is set.
TextTaken == [][ListSelects /\ LimitAsTyped]_vars

\* The limits are not crossed, whatever is typed in whichever order, but by an
\* upper limit of 0; and the pages to be tested are those of the memory map
\* between them (config.c).
LimitsHold ==
  [][limits' # limits /\ upper' # 0
     => /\ lower' < upper'
        /\ Running => selected_pages' = Cardinality({g \in 0 .. Map[Len(Map)].end :
                           lower' <= g /\ g < upper' /\ \E i \in DOMAIN Map : Map[i].start <= g /\ g < Map[i].end})]_vars

\* When no CPU is in a menu the screen shows the tests and every line printed,
\* after any nesting of popups and of the menu in the printing of an error.
InMenu(p) == \E i \in DOMAIN stack[p] : stack[p][i] \notin {"line", "patn", "scroll", "badram", "locked", "unlock"}
ScreenRestored == (\A p \in CPU : ~InMenu(p)) => screen = [top |-> "tests", msgs |-> printed.n]

\* The summary: the lowest address, the bits in error, and how few and how many
\* of them an error had, over all of its errors (common_err).
AddressOf(a) == a.page * PAGE + a.offset
SummaryExact ==
  seen # {} => /\ \A e \in seen : AddressOf(erri.low) <= e.adr
               /\ \E e \in seen : AddressOf(erri.low) = e.adr
               /\ erri.ebits = UNION {e.xor : e \in seen}
               /\ \A e \in seen : Cardinality(e.xor) \in erri.min_bits .. erri.max_bits
               /\ \E e, f \in seen : Cardinality(e.xor) = erri.min_bits /\ Cardinality(f.xor) = erri.max_bits
-----------------------------------------------------------------------------
(* Not so: each of these has a configuration of its own. *)
\* The bit fade test checks memory it has filled ("initializes all of memory with
\* a pattern", README:436).
FadeFilledFirst == Running /\ Idle /\ test = Fade /\ ~bail
                   => /\ bitf_seq = 2 => mem = "zeros"
                      /\ bitf_seq = 5 => mem = "ones"
\* A test works on the segments of its window (config.c:73).
MapOfWindow == Running /\ Idle /\ ~bail => mapped = win
\* A test of the table runs, and its errors are counted (config.c:89, 192, 214, 226).
InTable == Running /\ Idle => test \in 0 .. NTests - 1
\* The loop over a list ends (config.c:128).
ListEnds == \A p \in CPU : Top(p) = "listed" => ListOf(buf, NTests).ended
\* Messages are printed in the scroll region (lib.c:159).
MessageInArea == printed.n > 0 => printed.line \in LINE_SCROLL .. MaxLine
\* The summary's highest address (error.c:177), and its longest run (error.c:208).
HighestIsMax == seen # {} => \E e \in seen : AddressOf(erri.high) = e.adr /\ \A f \in seen : f.adr <= e.adr
\* The upper limit is above the lower one (config.c:211).
NotCrossed == Running => lower < upper
\* Only selected tests run (common.c:144, config.c:155).
OnlySelectedRun == Running /\ Idle /\ ~bail => test \in sel
\* The CPUs of cpumask= are used, and no others (common.c:160).
MaskSelects == [][opts' # opts /\ opts # <<>> /\ Head(opts).opt = "cpumask"
                  => mask' \subseteq {i \in 0 .. MaskBits - 1 :
                                        i = 0 \/ (simple_strtoul(<<"0", "x">> \o Head(opts).text, 16) \div 2 ^ i) % 2 = 1}]_vars
\* console=ttyS0,9600e8 is accepted (lib.c:860).
ExamplesAccepted == Running /\ (\E i \in DOMAIN case.opts : case.opts[i].opt = "console") => serial
=============================================================================
