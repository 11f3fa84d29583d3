------------------------------ MODULE Options ------------------------------
(***************************************************************************)
(* What the user writes: the options of the command line (src/common.c)    *)
(* and the numbers and lists typed into the menu (src/lib.c,               *)
(* src/config.c).  A text is a sequence of characters, NUL is past its end.*)
(***************************************************************************)
EXTENDS Integers, Sequences, SequencesExt, FiniteSets

CONSTANTS MaskBits,   \* CPUs of a mask, 32 in the code
          DigitBits   \* bits of a digit of cpumask=, 4 in the code

ASSUME MaskAssumption == MaskBits \in Nat \ {0} /\ DigitBits \in 1 .. 4

NUL == "NUL"
HexDigits == <<"0", "1", "2", "3", "4", "5", "6", "7", "8", "9", "a", "b", "c", "d", "e", "f">>
Digits == {HexDigits[i] : i \in 1 .. 10}
Value(c) == CHOOSE i \in 0 .. 15 : HexDigits[i + 1] = c
At(text, i) == IF i \in DOMAIN text THEN text[i] ELSE NUL
-----------------------------------------------------------------------------
\* simple_strtoul, in base 8, 10 or 16; the numbers typed stay below 2^31.
simple_strtoul(cp, base) ==
  LET from == IF base = 16 /\ At(cp, 1) = "0" /\ At(cp, 2) = "x" THEN 3 ELSE 1
      Is(i) == \E d \in 0 .. base - 1 : At(cp, i) = HexDigits[d + 1]
      to == CHOOSE i \in from - 1 .. Len(cp) : (\A k \in from .. i : Is(k)) /\ ~Is(i + 1)
  IN FoldLeft(LAMBDA r, c : r * base + Value(c), 0, SubSeq(cp, from, to))

\* getval: the base in which the next digit is read.
BaseOf(buf) == IF At(buf, 1) = "0" /\ At(buf, 2) = "x" THEN 16
               ELSE IF At(buf, 1) = "0" THEN 8 ELSE 10

Units == {"p", "g", "m", "k"}

\* A key that getval puts into its buffer: none after a suffix.
Accepts(buf, c) == /\ At(buf, Len(buf)) \notin Units
                   /\ \/ c \in Units
                      \/ c = "x" /\ buf = <<"0">>
                      \/ \E d \in 0 .. BaseOf(buf) - 1 : c = HexDigits[d + 1]
Typed(buf, c) == IF c = "BS" THEN IF buf = <<>> THEN buf ELSE Front(buf)
                 ELSE IF Accepts(buf, c) THEN Append(buf, c) ELSE buf

SuffixShift(c) == CASE c = "g" -> 30 [] c = "m" -> 20 [] c = "p" -> 12 [] c = "k" -> 10
                    [] OTHER -> 0

\* The value getval returns in units of 2^result_shift.
getval(buf, result_shift) ==
  LET shift == SuffixShift(Last(buf)) - result_shift
      val == simple_strtoul(buf, BaseOf(buf))
  IN IF shift > 0 THEN val * 2 ^ shift ELSE val \div 2 ^ (-shift)
-----------------------------------------------------------------------------
\* Fault: a number that is not followed by a comma is forgotten.
ScanUntilComma(s, cp, k) ==
  LET j == 10 * s.j + Value(cp[s.i])
      next == At(cp, s.i + 1)
  IN [i |-> IF next = "," THEN s.i + 2 ELSE s.i + 1,
      j |-> IF next = "," THEN 0 ELSE j,
      sel |-> IF next = "," /\ j < k THEN s.sel \cup {j} ELSE s.sel,
      n |-> Value(cp[s.i]), ended |-> next \notin Digits \cup {","}]

\* One digit of a list of tests: a number ends before the first other character,
\* the list at anything but a comma.
Scan(s, cp, k) ==
  LET j == 10 * s.j + Value(cp[s.i])
      next == At(cp, s.i + 1)
  IN [i |-> IF next = "," THEN s.i + 2 ELSE s.i + 1,
      j |-> IF next \in Digits THEN j ELSE 0,
      sel |-> IF next \notin Digits /\ j < k THEN s.sel \cup {j} ELSE s.sel,
      n |-> Value(cp[s.i]), ended |-> next \notin Digits \cup {","}]

\* A list of tests below k: those selected, the last digit, and whether the list
\* has ended with a number.  At a character that is no digit where a number
\* should begin tstlist= stops reading and the menu goes on looking for ever.
ListOf(cp, k) ==
  LET s[t \in 0 .. Len(cp)] ==
        IF t = 0 THEN [i |-> 1, j |-> 0, sel |-> {}, n |-> 0, ended |-> FALSE]
        ELSE IF s[t - 1].ended \/ At(cp, s[t - 1].i) \notin Digits THEN s[t - 1]
        ELSE Scan(s[t - 1], cp, k)
  IN s[Len(cp)]

\* Reference: the numbers between the commas up to the first empty place.
NumbersIn(cp) ==
  LET Number(i, l) == \A k \in i .. l : cp[k] \in Digits
      Begins(i) == /\ i = 1 \/ cp[i - 1] = ","
                   /\ \A k \in 1 .. i - 1 : cp[k] \in Digits \cup {","}
                   /\ \A k \in 1 .. i - 1 : cp[k] = "," => k # 1 /\ cp[k - 1] # ","
      Ends(l) == At(cp, l + 1) \notin Digits
  IN {simple_strtoul(SubSeq(cp, x[1], x[2]), 10) :
        x \in {y \in (1 .. Len(cp)) \X (1 .. Len(cp)) :
                 y[1] <= y[2] /\ Number(y[1], y[2]) /\ Begins(y[1]) /\ Ends(y[2])}}
-----------------------------------------------------------------------------
\* cpumask=: bin_mask begins with all bits set and shifts the digits in.
bin_mask(text) ==
  LET digit(m, c) == (m * 2 ^ DigitBits + Value(c)) % 2 ^ MaskBits
      m == FoldLeft(digit, 2 ^ MaskBits - 1, text)
  IN m - (m % 2) + 1

\* The CPUs that are left in cpu_mask.
CpuMask(text) == {i \in 0 .. MaskBits - 1 : (bin_mask(text) \div 2 ^ i) % 2 = 1}

\* console=: [tty, sep, baud, end, bits, rest], where end is the character after
\* the baud rate and rest what follows the number of bits.
SerialOk(p) ==
  /\ p.tty \in 0 .. 1
  /\ \/ p.sep = NUL
     \/ /\ p.sep = ","
        /\ p.baud > 0 /\ 115200 % p.baud = 0
        /\ \/ p.end = NUL
           \* a number of bits is "garbage at the end" whatever follows it
           \/ p.end \in {"n", "o", "e"} /\ p.bits = NUL
Serial(p) == [tty |-> p.tty,
              baud |-> IF p.sep = "," THEN p.baud ELSE 9600,
              parity |-> IF p.sep = "," /\ p.end # NUL THEN p.end ELSE "n"]
=============================================================================
