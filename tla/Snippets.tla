------------------------------ MODULE Snippets ------------------------------
(***************************************************************************)
(* The inner loops of the memory tests: the plain C of src/test.c, the     *)
(* i386 assembly of src/arch/i386/test.inc.c and the RISC-V assembly of    *)
(* src/arch/riscv/test.inc.c that replace it.                              *)
(*                                                                         *)
(* A loop takes the working state w of a test and the pe of its block:     *)
(*   w.mem, w.fault    the memory and what is wrong with it                *)
(*   w.p, w.k, w.pat   the locals p, k and pat of the test                 *)
(*   w.y               the random generator's SEED_Y of this CPU           *)
(*   w.t               FALSE when error() has cleared t0 and t1 (RISC-V)   *)
(*   w.err, w.stored   history: addresses reported and addresses stored to *)
(* Addresses count words.  A word has Bits bits in place of 32.            *)
(***************************************************************************)
EXTENDS Integers

CONSTANTS Bits,     \* bits of a word and period of movinv32's pattern, 32 in the code
          MOD_SZ    \* 20 in the code

ASSUME BitsAssumption == Bits \in 2 .. 16
ASSUME ModAssumption == MOD_SZ \in {4 * n : n \in 1 .. 8}

Words == 0 .. 2 ^ Bits - 1
Not(x) == 2 ^ Bits - 1 - x
Shl(x, sval) == (2 * x + sval) % 2 ^ Bits
Shr(x, top) == (x \div 2) + top

\* Memory.  In an "alias" the address b selects the cell of a; the addresses lo to
\* hi ignore a "line" m; the lowest bit of a "stuck" word always reads as bit.
Cell(w, a) ==
  CASE w.fault.kind = "alias" /\ a = w.fault.b -> w.fault.a
    [] w.fault.kind = "line" /\ a \in w.fault.lo .. w.fault.hi /\ (a \div w.fault.m) % 2 = 1 -> a - w.fault.m
    [] OTHER -> a
Read(w, a) == IF w.fault.kind = "stuck" /\ a = w.fault.a
                THEN 2 * (w.mem[a] \div 2) + w.fault.bit ELSE w.mem[Cell(w, a)]
Store(w, a, x) == [w EXCEPT !.mem[Cell(w, a)] = x, !.stored = @ \cup {a}]

\* Fault: the word after is reported.
ReportNext(w, a) == [w EXCEPT !.err = @ \cup {a + 1}]

\* error() and ad_err2(), which do not preserve t0 and t1 on RISC-V.
Report(w, a) == [w EXCEPT !.err = @ \cup {a}]
Check(w, a, good) == IF Read(w, a) # good THEN Report(w, a) ELSE w

\* memtest_rand: the low half of its value, SEED_Y.
NextSeed(y) == 30903 * (y % 65536) + y \div 65536
Rand(y) == y % 2 ^ Bits

\* n turns of a loop over the addresses a, a + step, ...
Turns(Op(_, _), w, a, step, n) ==
  LET turn[i \in 0 .. n] == IF i = 0 THEN w ELSE Op(turn[i - 1], a + (i - 1) * step)
  IN turn[n]

\* for (; p <= pe; p++), and the loops of the assembly, which test at the bottom.
For(Op(_, _), w, pe) == Turns(Op, w, w.p, 1, IF w.p <= pe THEN pe - w.p + 1 ELSE 0)
DoUp(Op(_, _), w, pe) == Turns(Op, w, w.p, 1, IF w.p <= pe THEN pe - w.p + 1 ELSE 1)
DoDown(Op(_, _), w, pe) == Turns(Op, w, w.p, -1, IF w.p >= pe THEN w.p - pe + 1 ELSE 1)
-----------------------------------------------------------------------------
(* addr_tst1: p holds x; the complement is stored at p | mask for each bit of the
   address below end and must leave p alone.  The 100 (or 50) repetitions change
   nothing unless the first finds an error, which ends them. *)
Roundup(a, n) == ((a + n - 1) \div n) * n
\* Fault: a bit that p has ends the loop.
AddressBreaks(w, p, x, end, lines) ==
  LET bit(i) == 2 ^ i
      pt(i) == p + bit(i)
      Reached(i) == \A n \in 0 .. i : (p \div bit(n)) % 2 = 0 /\ pt(n) < end
      turn[i \in 0 .. lines] ==
        IF i = 0 THEN Store(w, p, x)
        ELSE IF ~Reached(i - 1) THEN turn[i - 1]
        ELSE Check(Store(turn[i - 1], pt(i - 1), Not(x)), p, x)
  IN turn[lines]

AddressBits(w, p, x, end, lines) ==
  LET bit(i) == 2 ^ i
      pt(i) == p + bit(i)
      Reached(i) == \A n \in 0 .. i : (p \div bit(n)) % 2 = 0 => pt(n) < end
      turn[i \in 0 .. lines] ==
        IF i = 0 THEN Store(w, p, x)
        ELSE IF (p \div bit(i - 1)) % 2 = 1 \/ ~Reached(i - 1) THEN turn[i - 1]
        ELSE Check(Store(turn[i - 1], pt(i - 1), Not(x)), p, x)
  IN turn[lines]

(* addr_tst2: each word holds its own address. *)
PutOwn(w, a) == Store(w, a, a)
CheckOwn(w, a) == Check(w, a, a)

c_addr_tst2_1(w, pe) == For(PutOwn, w, pe)
c_addr_tst2_2(w, pe) == For(CheckOwn, w, pe)
i386_addr_tst2_snippet1(w, pe) == DoUp(PutOwn, w, pe)
i386_addr_tst2_snippet2(w, pe) == DoUp(CheckOwn, w, pe)
riscv_addr_tst2_snippet1(w, pe) == DoUp(PutOwn, w, pe)
riscv_addr_tst2_snippet2(w, pe) == DoUp(CheckOwn, w, pe)

(* movinvr: random words; inv is TRUE in the second check, of the complement. *)
PutRand(w, a) == LET y == NextSeed(w.y) IN Store([w EXCEPT !.y = y], a, Rand(y))
CheckRand(w, a, inv) ==
  LET y == NextSeed(w.y)
      num == IF inv THEN Not(Rand(y)) ELSE Rand(y)
  IN Store(Check([w EXCEPT !.y = y], a, num), a, Not(num))
\* The RISC-V loop stores the complement of the random word, whatever inv says.
RiscvCheckRand(w, a, inv) ==
  LET y == NextSeed(w.y)
      num == IF inv THEN Not(Rand(y)) ELSE Rand(y)
  IN Store(Check([w EXCEPT !.y = y], a, num), a, Not(Rand(y)))

c_movinvr_1(w, pe) == For(PutRand, w, pe)
c_movinvr_2(w, pe, inv) == For(LAMBDA s, a : CheckRand(s, a, inv), w, pe)
i386_movinvr_snippet1(w, pe) == DoUp(PutRand, w, pe)
i386_movinvr_snippet2(w, pe, inv) == DoUp(LAMBDA s, a : CheckRand(s, a, inv), w, pe)
riscv_movinvr_snippet1(w, pe) == DoUp(PutRand, w, pe)
riscv_movinvr_snippet2(w, pe, inv) == DoUp(LAMBDA s, a : RiscvCheckRand(s, a, inv), w, pe)

(* movinv1: one pattern and its complement. *)
CheckPut(w, a, good, new) == Store(Check(w, a, good), a, new)

c_movinv1_1(w, pe, p1) == For(LAMBDA s, a : Store(s, a, p1), w, pe)
c_movinv1_2(w, pe, p1, p2) == For(LAMBDA s, a : CheckPut(s, a, p1, p2), w, pe)
c_movinv1_3(w, pe, p1, p2) == DoDown(LAMBDA s, a : CheckPut(s, a, p2, p1), w, pe)
i386_movinv1_snippet1(w, pe, p1) == For(LAMBDA s, a : Store(s, a, p1), w, pe)
i386_movinv1_snippet2(w, pe, p1, p2) == DoUp(LAMBDA s, a : CheckPut(s, a, p1, p2), w, pe)
i386_movinv1_snippet3(w, pe, p1, p2) == DoDown(LAMBDA s, a : CheckPut(s, a, p2, p1), w, pe)
riscv_movinv1_snippet1(w, pe, p1) == DoUp(LAMBDA s, a : Store(s, a, p1), w, pe)
riscv_movinv1_snippet2(w, pe, p1, p2) == DoUp(LAMBDA s, a : CheckPut(s, a, p1, p2), w, pe)
riscv_movinv1_snippet3(w, pe, p1, p2) == DoDown(LAMBDA s, a : CheckPut(s, a, p2, p1), w, pe)
-----------------------------------------------------------------------------
(* movinv32: a pattern that shifts by a bit from word to word. *)
StepUp(w, lb, sval) == IF w.k + 1 >= Bits THEN [w EXCEPT !.k = 0, !.pat = lb]
                       ELSE [w EXCEPT !.k = @ + 1, !.pat = Shl(@, sval)]
StepDown(w, hb, p3) == IF w.k - 1 <= 0 THEN [w EXCEPT !.k = Bits, !.pat = hb]
                       ELSE [w EXCEPT !.k = @ - 1, !.pat = Shr(@, p3)]

PutShifted(w, a, sval, lb) == StepUp(Store(w, a, w.pat), lb, sval)
CheckUp(w, a, sval, lb) == StepUp(CheckPut(w, a, w.pat, Not(w.pat)), lb, sval)
CheckDown(w, a, p3, hb) == StepDown(CheckPut(w, a, Not(w.pat), w.pat), hb, p3)

c_movinv32_1(w, pe, sval, lb) == For(LAMBDA s, a : PutShifted(s, a, sval, lb), w, pe)
c_movinv32_2(w, pe, sval, lb) == For(LAMBDA s, a : CheckUp(s, a, sval, lb), w, pe)
c_movinv32_3(w, pe, p3, hb) ==
  IF w.p >= pe THEN DoDown(LAMBDA s, a : CheckDown(s, a, p3, hb), w, pe) ELSE w
i386_movinv32_snippet1(w, pe, sval, lb) == DoUp(LAMBDA s, a : PutShifted(s, a, sval, lb), w, pe)
i386_movinv32_snippet2(w, pe, sval, lb) == DoUp(LAMBDA s, a : CheckUp(s, a, sval, lb), w, pe)
i386_movinv32_snippet3(w, pe, p3, hb) == DoDown(LAMBDA s, a : CheckDown(s, a, p3, hb), w, pe)
riscv_movinv32_snippet1(w, pe, sval, lb) == DoUp(LAMBDA s, a : PutShifted(s, a, sval, lb), w, pe)

\* The RISC-V checks hold the last k in t0 and the mask of a word in t1, which a
\* call does not preserve: error() may leave them as they are or, w.fault.clears,
\* cleared.  A cleared mask clears pat and complements nothing.
Masked(w) == IF w.t THEN w.pat ELSE 0
Flipped(w, x) == IF w.t THEN Not(x) ELSE x
Expect(w, a, good) == IF Read(w, a) = good THEN w
                      ELSE [Report(w, a) EXCEPT !.t = @ /\ ~w.fault.clears]

riscv_movinv32_snippet2(w, pe, sval, lb) ==
  LET turn(s, a) ==
        LET pat == Masked(s)
            r == Expect([s EXCEPT !.pat = pat], a, pat)
            x == Store(r, a, Flipped(r, pat))
        IN IF x.t THEN StepUp(x, lb, sval) ELSE [x EXCEPT !.k = 0, !.pat = lb]
  IN [DoUp(turn, w, pe) EXCEPT !.t = TRUE]
riscv_movinv32_snippet3(w, pe, p3, hb) ==
  LET turn(s, a) ==
        LET pat == Masked(s)
            r == Expect([s EXCEPT !.pat = pat], a, Flipped(s, pat))
            x == Store(r, a, pat)
        IN IF x.t THEN StepDown(x, hb, p3)
           ELSE IF x.k <= 0 THEN [x EXCEPT !.k = Bits, !.pat = hb]
           ELSE [x EXCEPT !.k = @ - 1, !.pat = Shr(@, p3)]
  IN [DoDown(turn, w, pe) EXCEPT !.t = TRUE]
-----------------------------------------------------------------------------
(* modtst: every MOD_SZ-th word; the first and third loop keep their p. *)
\* The turns of a loop by step: while p <= pe, or at least once while p < pe.
WhileLeq(p, pe, step) == IF p <= pe THEN (pe - p) \div step + 1 ELSE 0
OnceLess(p, pe, step) == IF p < pe THEN (pe - p - 1) \div step + 1 ELSE 1
OnceLeq(p, pe, step) == IF p <= pe THEN (pe - p) \div step + 1 ELSE 1
Stride(Op(_, _), w, step, n) == [Turns(Op, w, w.p, step, n) EXCEPT !.p = w.p + n * step]

PutOthers(w, a, p2, offset) ==
  LET s == IF w.k # offset THEN Store(w, a, p2) ELSE w
  IN [s EXCEPT !.k = IF @ + 1 > MOD_SZ - 1 THEN 0 ELSE @ + 1]

c_modtst_1(w, pe, p1) == Stride(LAMBDA s, a : Store(s, a, p1), w, MOD_SZ, WhileLeq(w.p, pe, MOD_SZ))
c_modtst_2(w, pe, p2, offset) == For(LAMBDA s, a : PutOthers(s, a, p2, offset), w, pe)
c_modtst_3(w, pe, p1) ==
  Stride(LAMBDA s, a : Check(s, a, p1), w, MOD_SZ, WhileLeq(w.p, pe - 1, MOD_SZ))
i386_modtst_snippet1(w, pe, p1) ==
  Stride(LAMBDA s, a : Store(s, a, p1), w, MOD_SZ, OnceLess(w.p, pe, MOD_SZ))
i386_modtst_snippet2(w, pe, p2, offset) == DoUp(LAMBDA s, a : PutOthers(s, a, p2, offset), w, pe)
i386_modtst_snippet3(w, pe, p1) ==
  Stride(LAMBDA s, a : Check(s, a, p1), w, MOD_SZ, OnceLess(w.p, pe, MOD_SZ))
\* The RISC-V loop adds MOD_SZ to p, in bytes: four times as many words get p1.
riscv_modtst_snippet1(w, pe, p1) ==
  Stride(LAMBDA s, a : Store(s, a, p1), w, MOD_SZ \div 4, OnceLeq(w.p, pe, MOD_SZ \div 4))
riscv_modtst_snippet2(w, pe, p2, offset) == DoUp(LAMBDA s, a : PutOthers(s, a, p2, offset), w, pe)
riscv_modtst_snippet3(w, pe, p1) ==
  Stride(LAMBDA s, a : Check(s, a, p1), w, MOD_SZ, OnceLess(w.p, pe, MOD_SZ))
-----------------------------------------------------------------------------
(* block_move: there is no C and no RISC-V version of its loops. *)
\* Blocks of 16 words, of a bit that rotates (through the carry) and its complement.
i386_block_move_snippet1(w, n) ==
  LET eax(i) == IF i % (Bits + 1) = Bits THEN 0 ELSE 2 ^ (i % (Bits + 1))
      put(s, a) == LET o == a - w.p
                       x == eax(o \div 16)
                   IN Store(s, a, IF o % 16 \in {4, 5, 10, 11, 14, 15} THEN Not(x) ELSE x)
  IN Stride(put, w, 1, 16 * n)

\* movsl: the words from src on to dst on, one after the other.
Copy(w, dst, src, n) == Turns(LAMBDA s, a : Store(s, dst + (a - src), Read(s, a)), w, src, 1, n)

\* The first half to the second, and back 8 words further on, with wrapping.
i386_block_move_snippet2(w, pp, n) ==
  LET there == Copy(w, pp, w.p, n)
      back == Copy(there, w.p + 8, pp, n - 8)
  IN Copy(back, w.p, pp + n - 8, 8)

\* Adjacent words must be equal; p stays at the last pair.
i386_block_move_snippet3(w, pe) ==
  LET n == IF w.p < pe THEN (pe - w.p - 1) \div 2 + 2 ELSE 1
      pair(s, a) == IF Read(s, a) # Read(s, a + 1) THEN Report(s, a) ELSE s
  IN [Turns(pair, w, w.p, 2, n) EXCEPT !.p = w.p + 2 * (n - 1)]
=============================================================================
