------------------------------ MODULE Convert ------------------------------
(***************************************************************************)
(* The conversions of src/lib.c and the elapsed time of do_tick            *)
(* (src/error.c), one call at a time: call holds the function and what it  *)
(* is given, out what it returns or hands to cprint.  A printed digit is a *)
(* number from 0 to 15, a blank is SP and a minus sign MINUS.              *)
(***************************************************************************)
EXTENDS Integers, Sequences, SequencesExt, FiniteSetsExt

CONSTANTS
  Values,      \* numbers to be printed
  Unit,        \* a kilobyte of aprint, 1024 in the code; a page is 4 of them
  AddrDigits,  \* digits that aprint has room for, 4 in the code
  NIB,         \* hexadecimal digits of an unsigned int, 8 in the code
  TimeBits,    \* bits of the elapsed time, 64 in the code
  Letters,     \* characters of the strings that are searched for
  MaxString    \* bound: length of a string

\* What the values in the code have in common; Program assumes it of its own.
Units == Unit \in {2 ^ k : k \in 2 .. 10} /\ AddrDigits \in 1 .. 4 /\ Unit <= 10 ^ AddrDigits
Widths == NIB \in 1 .. 8 /\ TimeBits \in 2 .. 14

VARIABLES call, out
vars == <<call, out>>

SP == -1
MINUS == -2
-----------------------------------------------------------------------------
(* dprint: decimal, in a field of len that grows when the number is wider. *)

\* Fault: no figure is left of a zero.
Shows_nonzero(started, k, j) == started \/ k > 0

Shows(started, k, j) == started \/ k > 0 \/ j = 1

Left[val, j \in Nat, started \in BOOLEAN] ==
  IF j = 0 THEN <<>>
  ELSE LET k == val \div j
           show == Shows(started, k, j)
       IN IF k > 9 THEN Left[val, j * 10, started]
          ELSE <<IF show THEN k ELSE SP>> \o Left[val - k * j, j \div 10, show]

\* "right" leaves the blanks out and fills up behind the number.
Right[val, j, room \in Nat, started \in BOOLEAN] ==
  LET k == val \div j
  IN IF room = 0 THEN <<>>
     ELSE IF j = 0 THEN <<IF ~started /\ room > 1 THEN 0 ELSE SP>> \o Right[val, 0, room - 1, TRUE]
     ELSE IF k > 9 THEN Right[val, j * 10, room + 1, started]
     ELSE IF k = 0 /\ ~started THEN Right[val, j \div 10, room, FALSE]
     ELSE <<k>> \o Right[val - k * j, j \div 10, room - 1, TRUE]

dprint(val, len, right) ==
  LET j == IF len > 1 THEN 10 ^ (len - 1) ELSE 1
  IN IF val > 999999999 \/ len > 9 THEN <<>>
     ELSE IF right THEN Right[val, j, len, FALSE] ELSE Left[val, j, FALSE]

\* aprint: a number of pages with a unit of K, M, G or T, rounded to the unit.
aprint(page) ==
  LET Shown(unit) == [unit |-> unit, text |-> dprint((4 * page + unit \div 2) \div unit, AddrDigits, FALSE)]
      fits == {k \in 0 .. 2 : (4 * page) \div Unit ^ k < 10 ^ AddrDigits - 1}
  IN Shown(Unit ^ IF fits = {} THEN 3 ELSE Min(fits))
-----------------------------------------------------------------------------
(* Hexadecimal, and itoa. *)
Nibbles(val, n) == [k \in 1 .. n |-> (val \div 16 ^ (n - k)) % 16]

\* hprint2: at least digits long, the low NIB digits at most, also of an unsigned
\* long of RISC-V.  hprint asks for all of them.
hprint2(val, digits) ==
  LET s == Nibbles(val, NIB)
      flag == NIB + 1 - Min({k \in 1 .. NIB : s[k] # 0} \cup {NIB})
  IN SubSeq(s, NIB + 1 - Max({flag, Min({digits, NIB})}), NIB)

\* hprint3: exactly digits long, from the last to the first.
hprint3(val, digits) == Nibbles(val, digits)

Found[n \in Nat] == <<n % 10>> \o IF n < 10 THEN <<>> ELSE Found[n \div 10]

itoa(n) == Reverse(Found[IF n < 0 THEN -n ELSE n] \o IF n < 0 THEN <<MINUS>> ELSE <<>>)
-----------------------------------------------------------------------------
(* The keys of a terminal: ser_map, of which the first entry counts, and   *)
(* the characters that getval and get_list make of a key's code.  An ASCII *)
(* code is a number; a character that a function compares is one too.      *)
Specials == <<<<{27}, 1>>, <<{127, 8}, 14>>, <<{10, 13}, 28>>, <<{9}, 15>>, <<{19}, 57>>, <<{17}, 28>>, <<{32}, 57>>>>

\* a to z, each as small and capital letter and with the control key.
LetterCodes == <<30, 48, 46, 32, 18, 33, 34, 35, 23, 36, 37, 38, 50, 49, 24, 25, 16, 19, 31, 20, 22, 47, 17, 45, 21, 44>>
LetterKeys == [k \in 1 .. 26 |-> <<{96 + k, 64 + k, k}, LetterCodes[k]>>]

Signs == <<<<{45, 95, 31, 61, 43}, 12>>, <<{91, 123, 27}, 26>>, <<{93, 125, 29}, 27>>, <<{59, 58}, 39>>,
           <<{39, 34}, 40>>, <<{96, 126}, 41>>, <<{92, 124, 28}, 43>>, <<{44, 60}, 51>>, <<{46, 62}, 52>>, <<{47, 63}, 53>>>>
DigitKeys == <<<<{49, 33}, 2>>, <<{50, 64}, 3>>, <<{51, 35}, 4>>, <<{52, 36}, 5>>, <<{53, 37}, 6>>,
               <<{54, 94, 30}, 7>>, <<{55, 38}, 8>>, <<{56, 42}, 9>>, <<{57, 40}, 10>>, <<{48, 41}, 11>>>>

\* Fault: the special cases come last.
ser_map_late == LetterKeys \o Signs \o DigitKeys \o Specials

ser_map == Specials \o LetterKeys \o Signs \o DigitKeys

ascii_to_keycode(in) ==
  LET hits == {k \in DOMAIN ser_map : in \in ser_map[k][1]}
  IN IF hits = {} THEN 0 ELSE ser_map[Min(hits)][2]

\* The cases of getval, which come for 0 to 9, p, g, m, k, x and a to f; , is get_list's.
CaseCode == <<11, 2, 3, 4, 5, 6, 7, 8, 9, 10, 25, 34, 50, 37, 45, 30, 48, 46, 32, 18, 33, 51>>
CaseChar == <<48, 49, 50, 51, 52, 53, 54, 55, 56, 57, 112, 103, 109, 107, 120, 97, 98, 99, 100, 101, 102, 44>>
Entry(code) == LET k == {j \in DOMAIN CaseCode : CaseCode[j] = code}
               IN IF k = {} THEN 0 ELSE CaseChar[CHOOSE j \in k : TRUE]
-----------------------------------------------------------------------------
(* Strings and memory. *)

Restart(i) == 1

\* What has matched so far is given up, and not looked at again.  Beyond the end
\* of the string the code goes on to the first character of the needle, and gives up.
Search[hay, needle \in Seq(Letters), i, j \in Nat] ==
  IF needle[i] = hay[j]
  THEN IF i = Len(needle) THEN j
       ELSE IF j = Len(hay) THEN -1 ELSE Search[hay, needle, i + 1, j + 1]
  ELSE IF j = Len(hay) THEN -1 ELSE Search[hay, needle, Restart(i), j + 1]

\* smp_default_mode asks whether the result is -1, nobody where the needle is.
strstr(hay, needle) == Search[hay, needle, 1, 1] # -1

\* A char of the difference of two.
Narrow(d) == ((d + 128) % 256) - 128

Told(s1, s2) == {k \in DOMAIN s1 : s1[k] # s2[k] \/ s1[k] = 0}

\* strncmp: the first difference within n characters, if the strings do not end before.
strncmp(s1, s2, n) ==
  LET k == {j \in Told(s1, s2) : j <= n} IN IF k = {} THEN 0 ELSE Narrow(s1[Min(k)] - s2[Min(k)])

\* memcmp: the first difference within count.
memcmp(s1, s2, count) ==
  LET k == {j \in 1 .. count : s1[j] # s2[j]} IN IF k = {} THEN 0 ELSE s1[Min(k)] - s2[Min(k)]

MoveOrder(dest, src, n) == [k \in 1 .. n |-> IF dest < src THEN k - 1 ELSE n - k]

\* memmove: one element after the other, away from where the areas overlap.
memmove(mem, dest, src, n) ==
  IF dest = src THEN mem
  ELSE FoldLeft(LAMBDA m, o : [m EXCEPT ![dest + o] = m[src + o]], mem, MoveOrder(dest, src, n))
-----------------------------------------------------------------------------
(* Elapsed seconds: a division of 64 bits without a divide instruction.    *)
Times(a, b) == (a * b) % 2 ^ TimeBits
Shift[elapsed, divisor, shift \in Nat] ==
  IF Times(divisor, 2 ^ shift) < elapsed THEN Shift[elapsed, divisor, shift + 1] ELSE shift

Upper(shift) == 2 ^ shift + 1

Bisect[elapsed, divisor, l, r \in Nat] ==
  IF l >= r - 1 THEN l
  ELSE LET m == l + (r - l) \div 2
       IN IF Times(divisor, m) <= elapsed THEN Bisect[elapsed, divisor, m, r]
          ELSE Bisect[elapsed, divisor, l, m]

Seconds(elapsed, divisor) == Bisect[elapsed, divisor, 0, Upper(Shift[elapsed, divisor, 0])]
-----------------------------------------------------------------------------
Strings(n) == UNION {[1 .. k -> Letters] : k \in 1 .. n}

Init == call = [fn |-> "none"] /\ out = <<>>
Call(c, result) == call' = c /\ out' = result
Decimal == \E val \in Values, len \in 0 .. 9, right \in BOOLEAN :
             Call([fn |-> "dprint", val |-> val, len |-> len, right |-> right], dprint(val, len, right))
Address == \E page \in Values : page < 2 ^ 28 /\ Call([fn |-> "aprint", page |-> page], aprint(page))
Hex == \E val \in Values, digits \in 1 .. NIB + 2 :
         \/ Call([fn |-> "hprint2", val |-> val, digits |-> digits], hprint2(val, digits))
         \/ digits <= 8 /\ Call([fn |-> "hprint3", val |-> val, digits |-> digits], hprint3(val, digits))
Integer == \E n \in Values, sign \in {1, -1} : Call([fn |-> "itoa", n |-> sign * n], itoa(sign * n))
Key == \E in \in 1 .. 127 : Call([fn |-> "key", in |-> in], ascii_to_keycode(in))
SearchFor == \E hay \in Strings(MaxString), needle \in Strings(3) : Len(needle) > 1 /\
               Call([fn |-> "strstr", hay |-> hay, needle |-> needle], strstr(hay, needle))
Move == \E dest, src \in 0 .. 4, n \in 0 .. 3 :
          Call([fn |-> "memmove", dest |-> dest, src |-> src, n |-> n], memmove([a \in 0 .. 6 |-> a], dest, src, n))
\* Four characters of memory, a string with the NUL that ends it and what is behind it.
Areas == [1 .. 4 -> {0, 97, 98, 225}]
Compare == \E s1, s2 \in {a \in Areas : \E k \in 1 .. 4 : a[k] = 0}, n \in 0 .. 4 :
             Call([fn |-> "compare", s1 |-> s1, s2 |-> s2, n |-> n], <<strncmp(s1, s2, n), memcmp(s1, s2, n)>>)
\* clks_msec is not 0, and elapsed below half of what the bits can hold.
Elapsed == \E elapsed \in 0 .. 2 ^ (TimeBits - 1) - 1, divisor \in 1 .. 2 ^ (TimeBits - 1) - 1 :
             Call([fn |-> "time", elapsed |-> elapsed, divisor |-> divisor], Seconds(elapsed, divisor))
Return == call.fn # "none" /\ Call([fn |-> "none"], <<>>)
Next == (call.fn = "none" /\ (Decimal \/ Address \/ Hex \/ Integer \/ Key \/ SearchFor \/ Move \/ Compare \/ Elapsed)) \/ Return
Spec == Init /\ [][Next]_vars
-----------------------------------------------------------------------------
ValueOf(base, digits) == FoldLeft(LAMBDA a, d : a * base + d, 0, digits)
NoLeadingZero(digits) == digits # <<>> /\ (digits[1] # 0 \/ Len(digits) = 1)
Blanks(n) == [k \in 1 .. n |-> SP]

\* dprint shows the number whatever the width: in full, with blanks up to the
\* width in front or, for "right", behind; and zero as a figure.  (No caller asks
\* for a zero of one place to the right, which would be a blank.)
DecimalShown ==
  call.fn = "dprint" /\ call.val <= 999999999 /\ (call.right => call.len > 1) =>
    LET digits == SelectSeq(out, LAMBDA d : d # SP)
        pad == Blanks(Max({call.len - Len(digits), 0}))
    IN /\ NoLeadingZero(digits) /\ ValueOf(10, digits) = call.val
       /\ out = IF call.right THEN digits \o pad ELSE pad \o digits

\* The size that aprint shows is off by half of its unit at most, and up to
\* gigabytes it fits the room in front of the unit.
AddressShown ==
  call.fn = "aprint" =>
    LET n == ValueOf(10, SelectSeq(out.text, LAMBDA d : d # SP))
        off == n * out.unit - 4 * call.page
    IN /\ 2 * off <= out.unit /\ -2 * off <= out.unit
       /\ out.unit < Unit ^ 3 => Len(out.text) = AddrDigits

\* A hexadecimal number reads as the value, modulo what NIB digits (hprint2) or the
\* digits asked for (hprint3) can hold, with the width promised.
HexShown ==
  /\ call.fn = "hprint2" =>
       /\ ValueOf(16, out) = IF NIB < 8 THEN call.val % 16 ^ NIB ELSE call.val
       /\ Len(out) >= Min({call.digits, NIB})
       /\ Len(out) > Min({call.digits, NIB}) => NoLeadingZero(out)
  /\ call.fn = "hprint3" =>
       /\ Len(out) = call.digits
       /\ ValueOf(16, out) = IF call.digits < 8 THEN call.val % 16 ^ call.digits ELSE call.val

\* itoa's text reads as the number: the sign first, once.
IntegerShown ==
  call.fn = "itoa" =>
    LET digits == SelectSeq(out, LAMBDA d : d # MINUS)
    IN /\ NoLeadingZero(digits)
       /\ IF call.n < 0 THEN out = <<MINUS>> \o digits /\ ValueOf(10, digits) = -call.n
          ELSE out = digits /\ ValueOf(10, out) = call.n

\* A character of a number typed on a terminal is entered as itself, small or
\* capital; the control keys of a terminal (BS, TAB, LF, CR, ^Q, ^S, ESC, DEL) enter
\* no character, though each but DEL is the control key of a letter or a sign too.
TypedIsEntered ==
  call.fn = "key" =>
    /\ call.in \in Range(CaseChar) => Entry(out) = call.in
    /\ call.in + 32 \in Range(CaseChar) /\ call.in >= 65 => Entry(out) = call.in + 32
    /\ call.in \in {8, 9, 10, 13, 17, 19, 27, 127} => out # 0 /\ Entry(out) = 0

\* strstr finds only what is there, and finds it unless the first letter of the
\* needle comes earlier in the string too.
FoundIsThere ==
  call.fn = "strstr" =>
    LET At(k) == /\ k + Len(call.needle) - 1 <= Len(call.hay)
                 /\ SubSeq(call.hay, k, k + Len(call.needle) - 1) = call.needle
    IN /\ out => \E k \in DOMAIN call.hay : At(k)
       /\ (\E k \in DOMAIN call.hay : At(k) /\ \A j \in 1 .. k - 1 : call.hay[j] # call.needle[1]) => out

\* strncmp tells whether the strings begin alike, whatever lies behind their ends and
\* although its result is a char; memcmp whether the areas do, and which is the lower.
PrefixTold ==
  call.fn = "compare" =>
    LET Text(s) == SubSeq(s, 1, Min({k \in 1 .. 4 : s[k] = 0} \cup {call.n}))
    IN /\ (out[1] = 0) = (Text(call.s1) = Text(call.s2))
       /\ (out[2] = 0) = (SubSeq(call.s1, 1, call.n) = SubSeq(call.s2, 1, call.n))
       /\ \A k \in 1 .. call.n :
            (\A j \in 1 .. k - 1 : call.s1[j] = call.s2[j]) /\ call.s1[k] < call.s2[k] => out[2] < 0

\* memmove leaves at the destination what was at the source, overlap or not, and
\* nothing else changes.  (Element a of the memory holds a.)
MovedWhole ==
  call.fn = "memmove" =>
    \A a \in DOMAIN out :
      out[a] = IF a - call.dest \in 0 .. call.n - 1 THEN a - call.dest + call.src ELSE a

\* The search by halves ends with the quotient.
SecondsExact == call.fn = "time" => out = call.elapsed \div call.divisor

\* A number on the screen is the one that was meant: sizes, addresses, counts and
\* the time, up to the widths and the rounding of each (lib.c, do_tick).
NumbersShown == DecimalShown /\ AddressShown /\ HexShown /\ IntegerShown /\ SecondsExact

\* Characters come through: as keys from the serial line, and as strings or areas
\* that are searched, compared or moved (lib.c).
TextsExact == TypedIsEntered /\ FoundIsThere /\ PrefixTold /\ MovedWhole
=============================================================================
