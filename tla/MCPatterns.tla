---------------------------- MODULE MCPatterns ----------------------------
(***************************************************************************)
(* Patterns on words of 4 bits, blocks of 32 words and segments of pages   *)
(* of 16 words: the parts and blocks end at every kind of place.           *)
(***************************************************************************)
EXTENDS Patterns

Page == 16
Seg(a, n) == [start |-> Page * a, end |-> Page * (a + n) - 1]

\* A window of one segment or of two, in blocks of two pages.
Maps == {<<Seg(1, 3)>>, <<Seg(1, 1), Seg(3, 3)>>, <<Seg(1, 6)>>}

NoFault == [kind |-> "none", clears |-> FALSE]
Stuck(a, b) == [kind |-> "stuck", a |-> a, bit |-> b, clears |-> FALSE]
Alias(a, b) == [kind |-> "alias", a |-> a, b |-> b, clears |-> FALSE]

Mapped == UNION {m[i].start .. m[i].end : m \in Maps, i \in {1}}
Faults == {NoFault} \cup {Stuck(a, b) : a \in {16, 31, 49, 63}, b \in {0, 1}}
          \cup {Alias(16, 24), Alias(17, 49), Alias(50, 60)}

\* Tests 1, 8 (cpu_sel of tseq) and 11 run on one CPU.
Line(m, lo, hi) == [kind |-> "line", m |-> m, lo |-> lo, hi |-> hi, clears |-> FALSE]
LineFaults == {Line(2 ^ i, 0, 127) : i \in 0 .. 6} \cup {Line(2 ^ i, 32 * b, 32 * b + 31) : i \in {0, 4}, b \in {1, 2}}
Pats == {1, 2, 3, 5, 6, 7, 8, 9, 10, 11}
OneCpu == {1, 8, 11}
Teams == {<<1, 0>>, <<2, 0>>, <<2, 1>>, <<3, 1>>}

MCCases ==
  {[port |-> t, pat |-> q, map |-> m, run_cpus |-> n[1], me |-> n[2], fault |-> f,
    seed |-> 362436069, page |-> 6] :
     t \in {"c", "i386", "riscv"}, q \in Pats, m \in Maps, n \in Teams, f \in Faults}

\* A segment must be large enough for the 64 bytes of a part of block_move.
AddressCases ==
  {[port |-> "c", pat |-> 0, map |-> m, run_cpus |-> 1, me |-> 0, fault |-> f,
    seed |-> 1, page |-> 6] : m \in Maps \cup {<<Seg(2, 4)>>}, f \in LineFaults \cup {NoFault, Stuck(49, 1)}}

PatternsCases == AddressCases \cup
  {c \in MCCases : /\ c.run_cpus > 1 => c.port = "i386" /\ c.pat \notin OneCpu
                   /\ c.map[1].end = 111 <=> c.pat = 7}

\* An error() that clears t0 and t1.
ClobberCases == {[c EXCEPT !.fault.clears = TRUE] :
                   c \in {x \in PatternsCases : x.port = "riscv" /\ x.pat = 8}}

Disagreeing == PatternsCases \cup ClobberCases
=============================================================================
