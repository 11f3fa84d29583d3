------------------------------ MODULE Patterns ------------------------------
(***************************************************************************)
(* The memory tests of src/test.c as invoke_test (src/common.c) calls      *)
(* them: what one CPU writes and checks in its parts of the segments of a  *)
(* window, block by block, with a memory that may have one fault.          *)
(*                                                                         *)
(* A test is a sequence of loops over the segments, `todo`; a step is one  *)
(* turn of the do-while around do_tick, a block of SPINSZ words.  Addresses *)
(* count words; the additions of SPINSZ that wrap around 2^32 end a loop   *)
(* as its end does and have no case of their own.  Barriers are in Sched.  *)
(***************************************************************************)
EXTENDS Snippets, Sequences, SequencesExt

CONSTANTS Cases,    \* records [port, pat, map, run_cpus, me, fault, seed, page]
          Top,      \* the highest address of the memory
          SPINSZ,   \* words between two ticks, 256 MB in the code
          ROUND,    \* where addr_tst1 puts its first word, 0x20000 bytes in the code
          BANK,     \* bank of addr_tst1, 1 MB (or 256 KB) in the code, in words
          c_iter,   \* iterations of the test in this pass
          ByteBits  \* bits of the pattern of test 5, 8 in the code

ASSUME SpinAssumption == SPINSZ \in Nat \ {0} /\ c_iter \in Nat \ {0}
ASSUME ByteAssumption == ByteBits \in 1 .. Bits /\ Bits % ByteBits = 0
ASSUME CasesAssumption ==
  \A c \in Cases : /\ c.me \in 0 .. c.run_cpus - 1
                   /\ \A i \in DOMAIN c.map : 0 <= c.map[i].start /\ c.map[i].end <= Top
                   /\ c.port = "riscv" => c.run_cpus = 1

VARIABLES case,   \* the test and its circumstances, constant
          todo,   \* the loops still to run, the current one first
          j,      \* the segment of the current loop
          pe,     \* end of the block
          w,      \* the working state, see Snippets
          bail    \* the user has changed something

vars == <<case, todo, j, pe, w, bail>>

\* The lines of an address up to Top.
AddressLines == CHOOSE n \in 0 .. 16 : Top < 2 ^ n /\ \A i \in 0 .. n - 1 : Top >= 2 ^ i
segs == Len(case.map)
mstr_cpu == case.run_cpus - 1
loop == todo[1]
Done == todo = <<>>
-----------------------------------------------------------------------------
\* The tests that do not call calculate_chunk.
Whole == 0

\* calculate_chunk: the part of segment i, its last word included, when parts
\* are multiples of align words.
ChunkWords(i, align) ==
  LET bytes == (4 * (case.map[i].end - case.map[i].start)) \div case.run_cpus
  IN ((bytes + 4 * align - 1) \div (4 * align)) * align
Start(i, align) == IF case.run_cpus = 1 \/ align = Whole THEN case.map[i].start
                   ELSE case.map[i].start + case.me * ChunkWords(i, align)
End(i, align) == IF case.me = mstr_cpu \/ align = Whole THEN case.map[i].end
                 ELSE Start(i, align) + ChunkWords(i, align) - 1

\* Fault: the end is one past the last word in every loop.
HiPast(l, i) == End(i, l.align) + 1

\* The words of a loop's segment: some loops take the last MOD_SZ away or work
\* with an end one past the last word.
Lo(l, i) == Start(i, l.align)
Hi(l, i) == End(i, l.align) + (IF l.cut = "modulo" THEN -MOD_SZ
                               ELSE IF l.cut = "past" THEN 1 ELSE 0)
-----------------------------------------------------------------------------
(* The loops of a test, in their order. *)
Loop(do, align, cut, args) == args @@ [do |-> do, align |-> align, cut |-> cut]
Repeat(n, s) == FlattenSeq([i \in 1 .. n |-> s])

\* Two passes over the address lines of the window, two over the banks.
addr_tst1 == <<Loop("lines", Whole, "no", [p1 |-> 0]), Loop("lines", Whole, "no", [p1 |-> Not(0)]),
               Loop("banks", Whole, "no", [p1 |-> 0]), Loop("banks", Whole, "no", [p1 |-> Not(0)])>>

addr_tst2 == <<Loop("own_put", Whole, "no", <<>>), Loop("own_check", Whole, "no", <<>>)>>

movinvr == <<Loop("rand_put", 1, "no", <<>>),
             Loop("rand_check", 1, "no", [inv |-> FALSE]),
             Loop("rand_check", 1, "no", [inv |-> TRUE])>>

movinv1(iter, p1, p2) ==
  LET arg == [p1 |-> p1, p2 |-> p2]
  IN <<Loop("inv_put", 1, "no", arg)>>
     \o Repeat(iter, <<Loop("inv_up", 1, "no", arg), Loop("inv_down", 1, "no", arg)>>)

\* Parts of 64 bytes, half the period of the pattern.
movinv32(iter, p1, lb, hb, sval, off) ==
  LET arg == [p1 |-> p1, lb |-> lb, hb |-> hb, sval |-> sval, off |-> off]
      half == Bits \div 2
  IN <<Loop("shift_put", half, "no", arg)>>
     \o Repeat(iter, <<Loop("shift_up", half, "no", arg), Loop("shift_down", half, "no", arg)>>)

modtst(offset, iter, p1, p2) ==
  LET arg == [offset |-> offset, p1 |-> p1, p2 |-> p2]
  IN <<Loop("mod_put", 1, "modulo", arg)>>
     \o Repeat(iter, <<Loop("mod_others", 1, "no", arg)>>)
     \o <<Loop("mod_check", 1, "modulo", arg)>>

block_move(iter) == <<Loop("block_put", 16, "past", <<>>),
                      Loop("block_move", 16, "past", [iter |-> iter]),
                      Loop("block_check", 16, "past", <<>>)>>

bit_fade == <<Loop("fade_put", Whole, "no", [p1 |-> 0]), Loop("fade_check", Whole, "no", [p1 |-> 0]),
              Loop("fade_put", Whole, "no", [p1 |-> Not(0)]), Loop("fade_check", Whole, "no", [p1 |-> Not(0)])>>

\* Both orders of a pattern and its complement.
BothWays(test(_, _), p1) == test(p1, Not(p1)) \o test(Not(p1), p1)
Inversions(p1, p2) == movinv1(c_iter, p1, p2)
Modulo(p1) == FlattenSeq([i \in 1 .. MOD_SZ |->
                BothWays(LAMBDA x, y : modtst(i - 1, 2, x, y), p1)])

\* Test 5: a bit that walks through the bytes of a word.
ByteOnes == (2 ^ Bits - 1) \div (2 ^ ByteBits - 1)
Walking(i) == 2 ^ (ByteBits - i) * ByteOnes
\* Test 8: for (i=0, p1=1; p1; p1<<=1, i++).
Shifted(i) == movinv32(c_iter, 2 ^ i, 1, 2 ^ (Bits - 1), 0, i)
              \o movinv32(c_iter, Not(2 ^ i), Not(1), Not(2 ^ (Bits - 1)), 1, i)

\* The n-th value of memtest_rand after rand_seed.
RandAt(seed, n) == LET y[i \in 0 .. n] == IF i = 0 THEN seed ELSE NextSeed(y[i - 1])
                   IN Rand(y[n])

\* Test 6: the complement is taken of p1, which holds the page of the last end.
RandomPair(c, i) == movinv1(2, RandAt(c.seed, i), Not(c.page))
invoke_test(c) ==
  CASE c.pat = 0 -> addr_tst1
    [] c.pat \in {1, 2} -> addr_tst2
    [] c.pat \in {3, 4} -> BothWays(Inversions, 0)
    [] c.pat = 5 -> FlattenSeq([i \in 1 .. ByteBits |-> BothWays(Inversions, Walking(i))])
    [] c.pat = 6 -> FlattenSeq([i \in 1 .. c_iter |-> RandomPair(c, i)])
    [] c.pat = 7 -> block_move(c_iter)
    [] c.pat = 8 -> FlattenSeq([i \in 1 .. Bits |-> Shifted(i - 1)])
    [] c.pat = 9 -> Repeat(c_iter, movinvr)
    [] c.pat = 10 -> FlattenSeq([i \in 1 .. c_iter |-> Modulo(RandAt(c.seed, i))])
    [] c.pat = 11 -> bit_fade
-----------------------------------------------------------------------------
(* Entering a loop and its segments. *)
Down(l) == l.do \in {"inv_down", "shift_down"}
FirstSeg(l) == IF Down(l) THEN segs ELSE 1
LastSeg(l) == IF Down(l) \/ l.do = "lines" THEN 1 ELSE segs

\* Fault: the pattern starts again at the highest bit.
TurnFresh(x, l) == [x EXCEPT !.k = Bits, !.pat = l.hb]

\* The pattern of the last word, between the way up and the way down.
TurnBack(x, l) ==
  LET k == IF x.k - 1 < 0 THEN Bits - 1 ELSE x.k - 1
      pat[n \in 0 .. Bits] == IF n = 0 THEN l.lb ELSE Shl(pat[n - 1], l.sval)
  IN [x EXCEPT !.k = k + 1, !.pat = pat[k]]

\* What happens once, before the loop over the segments.
OnLoop(x, l) == CASE l.do \in {"rand_put", "rand_check"} -> [x EXCEPT !.y = case.seed]
                  [] l.do = "shift_down" -> TurnBack(x, l)
                  [] OTHER -> x

\* What happens at the start of each segment.
OnSegment(x, l, i) ==
  LET at == [x EXCEPT !.p = IF Down(l) THEN Hi(l, i) ELSE Lo(l, i)]
  IN CASE l.do \in {"shift_put", "shift_up"} -> [at EXCEPT !.k = l.off, !.pat = l.p1]
       [] l.do \in {"mod_put", "mod_check"} -> [at EXCEPT !.p = @ + l.offset]
       [] l.do = "lines" -> [at EXCEPT !.p = Roundup(@, ROUND)]
       [] l.do = "banks" -> [at EXCEPT !.p = Roundup(@, BANK)]
       [] l.do = "mod_others" -> [at EXCEPT !.k = 0]
       [] OTHER -> at

PeOf(l, i) == IF Down(l) THEN Hi(l, i) ELSE Lo(l, i)

Enter(x, l, i) == /\ j' = i
                  /\ pe' = PeOf(l, i)
                  /\ w' = OnSegment(x, l, i)

\* done: on to the next segment, to the next loop, or out of the test.
Leave(x) ==
  IF j # LastSeg(loop)
    THEN Enter(x, loop, IF Down(loop) THEN j - 1 ELSE j + 1) /\ UNCHANGED todo
    ELSE /\ todo' = Tail(todo)
         /\ IF Len(todo) = 1 THEN w' = x /\ UNCHANGED <<j, pe>>
            ELSE Enter(OnLoop(x, todo[2]), todo[2], FirstSeg(todo[2]))

Start0(c) == [mem |-> [a \in 0 .. Top |-> Not(1)], fault |-> c.fault, p |-> 0, k |-> 0,
              pat |-> 0, y |-> 0, t |-> TRUE, err |-> {}, stored |-> {}]

Init == /\ case \in Cases
        /\ todo = invoke_test(case)
        /\ bail = FALSE
        /\ j = FirstSeg(loop)
        /\ pe = PeOf(loop, j)
        /\ w = OnSegment(OnLoop(Start0(case), loop), loop, j)
-----------------------------------------------------------------------------
(* A turn of the loop: do_tick, the next pe and, unless p is there, a snippet. *)
NextPe == IF Down(loop)
            THEN IF pe - SPINSZ < Lo(loop, j) THEN Lo(loop, j) ELSE pe - SPINSZ
            ELSE IF pe + SPINSZ >= Hi(loop, j) THEN Hi(loop, j) ELSE pe + SPINSZ
IsLast == IF Down(loop) THEN pe - SPINSZ < Lo(loop, j) ELSE pe + SPINSZ >= Hi(loop, j)

\* x is the state after the snippet, with p where the next block begins.
Turn(do, x, pe1) ==
  /\ ~Done /\ loop.do = do
  /\ UNCHANGED <<case, bail>>
  /\ IF w.p = NextPe THEN Leave(w)
     ELSE IF IsLast THEN Leave(x)
     ELSE w' = x /\ pe' = pe1 /\ UNCHANGED <<todo, j>>

Next1(x) == [x EXCEPT !.p = NextPe + 1]
Back1(x) == [x EXCEPT !.p = NextPe - 1]
Port(c, i386, riscv) == CASE case.port = "c" -> c [] case.port = "i386" -> i386
                          [] case.port = "riscv" -> riscv

\* The address lines of p, up to the end of the last segment.
Lines == /\ ~Done /\ loop.do = "lines"
         /\ Leave(AddressBits(w, w.p, loop.p1, case.map[segs].end, AddressLines))
         /\ UNCHANGED <<case, bail>>

\* Bank by bank; p += bank adds bank words, which are four banks.  A segment that
\* begins with a bank, where p is its start, is left at once.
InBanks(p) == p < Hi(loop, j) /\ p > Lo(loop, j) /\ p # 0
Banks == /\ ~Done /\ loop.do = "banks"
         /\ IF InBanks(w.p)
              THEN /\ w' = [AddressBits(w, w.p, loop.p1, Hi(loop, j), AddressLines) EXCEPT !.p = @ + 4 * BANK]
                   /\ UNCHANGED <<todo, j, pe>>
              ELSE Leave(w)
         /\ UNCHANGED <<case, bail>>

OwnPut == Turn("own_put", Next1(Port(c_addr_tst2_1(w, NextPe), i386_addr_tst2_snippet1(w, NextPe),
                                     riscv_addr_tst2_snippet1(w, NextPe))), NextPe)
OwnCheck == Turn("own_check", Next1(Port(c_addr_tst2_2(w, NextPe), i386_addr_tst2_snippet2(w, NextPe),
                                         riscv_addr_tst2_snippet2(w, NextPe))), NextPe)

RandPut == Turn("rand_put", Next1(Port(c_movinvr_1(w, NextPe), i386_movinvr_snippet1(w, NextPe),
                                       riscv_movinvr_snippet1(w, NextPe))), NextPe)
RandCheck == Turn("rand_check", Next1(Port(c_movinvr_2(w, NextPe, loop.inv),
                                           i386_movinvr_snippet2(w, NextPe, loop.inv),
                                           riscv_movinvr_snippet2(w, NextPe, loop.inv))), NextPe)

InvPut == Turn("inv_put", Next1(Port(c_movinv1_1(w, NextPe, loop.p1),
                                     i386_movinv1_snippet1(w, NextPe, loop.p1),
                                     riscv_movinv1_snippet1(w, NextPe, loop.p1))), NextPe)
InvUp == Turn("inv_up", Next1(Port(c_movinv1_2(w, NextPe, loop.p1, loop.p2),
                                   i386_movinv1_snippet2(w, NextPe, loop.p1, loop.p2),
                                   riscv_movinv1_snippet2(w, NextPe, loop.p1, loop.p2))), NextPe)
InvDown == Turn("inv_down", Back1(Port(c_movinv1_3(w, NextPe, loop.p1, loop.p2),
                                       i386_movinv1_snippet3(w, NextPe, loop.p1, loop.p2),
                                       riscv_movinv1_snippet3(w, NextPe, loop.p1, loop.p2))), NextPe)

Half == 2 ^ (Bits - 1)
ShiftPut == Turn("shift_put", Next1(Port(c_movinv32_1(w, NextPe, loop.sval, loop.lb),
                                         i386_movinv32_snippet1(w, NextPe, loop.sval, loop.lb),
                                         riscv_movinv32_snippet1(w, NextPe, loop.sval, loop.lb))), NextPe)
ShiftUp == Turn("shift_up", Next1(Port(c_movinv32_2(w, NextPe, loop.sval, loop.lb),
                                       i386_movinv32_snippet2(w, NextPe, loop.sval, loop.lb),
                                       riscv_movinv32_snippet2(w, NextPe, loop.sval, loop.lb))), NextPe)
ShiftDown ==
  LET p3 == loop.sval * Half
  IN Turn("shift_down", Back1(Port(c_movinv32_3(w, NextPe, p3, loop.hb),
                                   i386_movinv32_snippet3(w, NextPe, p3, loop.hb),
                                   riscv_movinv32_snippet3(w, NextPe, p3, loop.hb))), NextPe)

ModPut == Turn("mod_put", Port(c_modtst_1(w, NextPe, loop.p1), i386_modtst_snippet1(w, NextPe, loop.p1),
                               riscv_modtst_snippet1(w, NextPe, loop.p1)), NextPe)
ModOthers == Turn("mod_others", Next1(Port(c_modtst_2(w, NextPe, loop.p2, loop.offset),
                                           i386_modtst_snippet2(w, NextPe, loop.p2, loop.offset),
                                           riscv_modtst_snippet2(w, NextPe, loop.p2, loop.offset))), NextPe)
ModCheck == Turn("mod_check", Port(c_modtst_3(w, NextPe, loop.p1), i386_modtst_snippet3(w, NextPe, loop.p1),
                                   riscv_modtst_snippet3(w, NextPe, loop.p1)), NextPe)

\* Without assembly the three loops do nothing.
BlockPut == Turn("block_put", Port(w, i386_block_move_snippet1(w, (NextPe - w.p) \div 16), w), NextPe)
BlockMove ==
  LET n == (NextPe - w.p) \div 2
      moved[i \in 0 .. loop.iter] == IF i = 0 THEN w
                                     ELSE i386_block_move_snippet2(moved[i - 1], w.p + n, n)
  IN Turn("block_move", [Port(w, moved[loop.iter], w) EXCEPT !.p = NextPe], NextPe)
BlockCheck == Turn("block_check", Port(w, i386_block_move_snippet3(w, NextPe - 2), w), NextPe - 2)

\* The words before pe; pe itself is left out.
FadePut == Turn("fade_put", Next1(Turns(LAMBDA s, a : Store(s, a, loop.p1), w, w.p, 1, NextPe - w.p)), NextPe)
FadeCheck == Turn("fade_check", Next1(Turns(LAMBDA s, a : Check(s, a, loop.p1), w, w.p, 1, NextPe - w.p)), NextPe)

\* do_tick finds bail set, and BAILR and BAILOUT leave the test.
Bail == /\ ~Done
        /\ bail' = TRUE
        /\ todo' = <<>>
        /\ UNCHANGED <<case, j, pe, w>>

Next == \/ Lines \/ Banks
        \/ OwnPut \/ OwnCheck
        \/ RandPut \/ RandCheck
        \/ InvPut \/ InvUp \/ InvDown
        \/ ShiftPut \/ ShiftUp \/ ShiftDown
        \/ ModPut \/ ModOthers \/ ModCheck
        \/ BlockPut \/ BlockMove \/ BlockCheck
        \/ FadePut \/ FadeCheck
        \/ Bail

Spec == Init /\ [][Next]_vars
-----------------------------------------------------------------------------
TypeOK ==
  /\ case \in Cases /\ bail \in BOOLEAN
  /\ j \in 1 .. segs
  /\ w.k \in 0 .. Bits /\ w.pat \in Words
  /\ ~Done => /\ pe \in PeOf(loop, j) - 2 .. Hi(loop, j) \/ Down(loop)
              /\ w.p \in Lo(loop, j) - 1 .. Hi(loop, j) + (IF loop.do = "banks" THEN 4 * BANK ELSE MOD_SZ)

\* The words this CPU is to test.
Mine == UNION {Start(i, 1) .. End(i, 1) : i \in 1 .. segs}
All == UNION {case.map[i].start .. case.map[i].end : i \in 1 .. segs}

\* A test stores nothing outside of the segments, as test-runner.c checks with
\* its watermarks (test-runner.c:137), although the loops of modtst run past pe
\* and those of block_move work with an end behind the last word.
InWatermarks == TypeOK /\ w.stored \subseteq All

\* Memory without a fault gives no error, whichever version of the inner loops
\* runs and wherever the blocks, parts and segments end: what one loop leaves in
\* memory is what the next one expects, above all for the pattern of movinv32,
\* which is carried from segment to segment on the way down (test.c:647-654).
NoFalseErrors == case.fault.kind = "none" => w.err = {}

\* The tests that check a word where it was written name a word with a fault.
FaultNamed ==
  /\ case.fault.kind = "stuck" /\ case.pat # 7 => w.err \subseteq {case.fault.a}
  /\ case.fault.kind = "alias" /\ case.pat \in {1, 2} => w.err \subseteq {case.fault.a, case.fault.b}

\* Words that a test leaves out by its design: modtst stops MOD_SZ words early,
\* the bit fade test leaves out the last word of each block.
LeftOut ==
  CASE case.pat = 10 -> UNION {End(i, 1) - MOD_SZ .. End(i, 1) : i \in 1 .. segs}
    [] case.pat = 11 -> UNION {{b \in case.map[i].start .. case.map[i].end :
                                  b = case.map[i].end \/ (b - case.map[i].start) % (SPINSZ + 1) = SPINSZ}
                               : i \in 1 .. segs}
    [] OTHER -> {}

\* An address line that the whole window ignores is found by test 0.
LineFound ==
  case.pat = 0 /\ case.fault.kind = "line" /\ case.fault.lo = 0
    => LET p == Roundup(case.map[1].start, ROUND)
       IN (p \div case.fault.m) % 2 = 0 /\ p + case.fault.m < case.map[segs].end => w.err # {}

\* A bit of this CPU's words that is stuck is found by every inversion test, by
\* the modulo and by the bit fade test; two words that share a cell are found by
\* the own address test and by the inversions, an address line by test 0.
FaultFound ==
  Done /\ ~bail =>
    /\ case.fault.kind = "stuck" /\ case.pat \notin {0, 1, 2, 6, 7} /\ case.fault.a \in Mine \ LeftOut
         => w.err # {}
    /\ case.fault.kind = "alias" /\ case.pat \in {1, 2, 3, 4, 5, 8, 9} /\ {case.fault.a, case.fault.b} \subseteq Mine
         => w.err # {}
    /\ LineFound

\* What the tests report is true: sound memory is never called faulty, a faulty word
\* is the one named, and the tests themselves store nowhere but in the segments.
ErrorsTrue == InWatermarks /\ NoFalseErrors /\ FaultNamed

\* README:397: test 6 has "a random number and it's complement", so that it finds
\* a stuck bit as the other inversions do.
RandomFindsStuck ==
  Done /\ ~bail /\ case.pat = 6 /\ case.fault.kind = "stuck" /\ case.fault.a \in Mine => w.err # {}

\* "Now check the address bits in each bank" (test.c:164): a line that a bank
\* ignores is found.
BankLineFound ==
  Done /\ ~bail /\ case.pat = 0 /\ case.fault.kind = "line" /\ case.fault.m < BANK
    /\ case.fault.lo % BANK = 0 /\ case.fault.hi = case.fault.lo + BANK - 1
    /\ case.fault.lo .. case.fault.hi + 1 \subseteq All
    => w.err # {}
=============================================================================
