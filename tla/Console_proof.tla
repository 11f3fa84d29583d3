--------------------------- MODULE Console_proof ---------------------------
(***************************************************************************)
(* Four promises of the console, for any users, errors and bounds: the     *)
(* summary is that of the errors, a menu leaves the screen as it was, the  *)
(* limits typed in keep their order and count the pages between them, and  *)
(* what is selected or set is what was typed.                              *)
(***************************************************************************)
EXTENDS Console, FiniteSetTheorems, SequenceTheorems, NaturalsInduction, WellFoundedInduction, TLAPS

Word == SUBSET (0 .. 31)
WordAddress == [page : Nat, offset : 0 .. PAGE - 1]

\* What v->erri may hold.
Summaries ==
  [low : WordAddress, high : [page : Nat, offset : Nat], min_bits : 0 .. 32, max_bits : 0 .. 32,
   tbits : Nat, ebits : Word, maxl : Nat, eadr : Nat, exor : Word, hdr_flag : BOOLEAN]

ErriOK == erri \in Summaries
\* A CPU prints an error of the case.
PrintedErrors == err \in [CPU -> case.errors \cup {NoError}]
\* Errors are counted after set_defaults, and are those of the case.
SeenErrors == /\ case \in Cases
              /\ seen \subseteq case.errors
              /\ ~started => seen = {}
\* Before the first error the summary says what set_defaults has put into it.
Untouched(e) == e.low = Empty.low /\ e.ebits = {} /\ e.min_bits = 32 /\ e.max_bits = 0
\* The summary e of the errors of S, the body of SummaryExact.
Sums(e, S) ==
  /\ \A f \in S : AddressOf(e.low) <= f.adr
  /\ \E f \in S : AddressOf(e.low) = f.adr
  /\ e.ebits = UNION {f.xor : f \in S}
  /\ \A f \in S : Cardinality(f.xor) \in e.min_bits .. e.max_bits
  /\ \E f, g \in S : Cardinality(f.xor) = e.min_bits /\ Cardinality(g.xor) = e.max_bits
SummaryOK == IF seen = {} THEN Untouched(erri) ELSE Sums(erri, seen)

SInv == ErriOK /\ PrintedErrors /\ SeenErrors /\ SummaryOK
-----------------------------------------------------------------------------
\* An address is the word of its page that its offset says.
LEMMA PageAndOffset ==
  ASSUME NEW a \in Nat
  PROVE  /\ page_of(a) \in Nat
         /\ OffsetOf(a) \in 0 .. PAGE - 1
         /\ AddressOf([page |-> page_of(a), offset |-> OffsetOf(a)]) = a
BY PageAssumption DEF page_of, OffsetOf, AddressOf

\* Low takes the lower one of two addresses.
LEMMA LowIsLower ==
  ASSUME NEW low \in WordAddress, NEW a \in Nat
  PROVE  /\ Low(low, page_of(a), OffsetOf(a)) \in WordAddress
         /\ AddressOf(Low(low, page_of(a), OffsetOf(a))) = IF AddressOf(low) > a THEN a ELSE AddressOf(low)
<1> DEFINE p == page_of(a)
           o == OffsetOf(a)
<1>1. p \in Nat /\ o \in 0 .. PAGE - 1 /\ a = p * PAGE + o
  BY PageAndOffset DEF AddressOf
<1>2. low.page \in Nat /\ low.offset \in 0 .. PAGE - 1 /\ AddressOf(low) = low.page * PAGE + low.offset
  BY DEF WordAddress, AddressOf
<1>3. PAGE \in Nat \ {0}
  BY PageAssumption
<1> HIDE DEF p, o
<1>4. /\ Low(low, p, o) \in WordAddress
      /\ AddressOf(Low(low, p, o)) = IF AddressOf(low) > a THEN a ELSE AddressOf(low)
  <2>1. CASE low.page > p
    <3>1. low.page * PAGE >= p * PAGE + PAGE
      <4>1. PICK d \in Nat : low.page = p + 1 + d
        BY <1>1, <1>2, <2>1, low.page = p + 1 + (low.page - p - 1), low.page - p - 1 \in Nat
      <4> QED BY <4>1, <1>1, <1>3
    <3>2. AddressOf(low) > a
      BY <3>1, <1>1, <1>2, <1>3
    <3>3. Low(low, p, o) = [page |-> p, offset |-> o]
      BY <2>1 DEF Low
    <3> QED BY <3>2, <3>3, <1>1 DEF WordAddress, AddressOf
  <2>2. CASE low.page < p
    <3>1. low.page * PAGE + PAGE <= p * PAGE
      <4>1. PICK d \in Nat : p = low.page + 1 + d
        BY <1>1, <1>2, <2>2, p = low.page + 1 + (p - low.page - 1), p - low.page - 1 \in Nat
      <4> QED BY <4>1, <1>2, <1>3
    <3>2. ~(AddressOf(low) > a)
      BY <3>1, <1>1, <1>2, <1>3
    <3>3. Low(low, p, o) = low
      BY <2>2, <1>1, <1>2 DEF Low
    <3> QED BY <3>2, <3>3
  <2>3. CASE low.page = p
    <3>1. AddressOf(low) > a <=> low.offset > o
      <4> DEFINE m == p * PAGE
      <4>1. m \in Int
        BY <1>1, <1>3
      <4>2. a = m + o /\ AddressOf(low) = m + low.offset
        BY <1>1, <1>2, <2>3
      <4> HIDE DEF m
      <4> QED BY <4>1, <4>2, <1>1, <1>2
    <3>2. Low(low, p, o) = IF low.offset > o THEN [page |-> p, offset |-> o] ELSE low
      BY <2>3, <1>1, <1>2 DEF Low
    <3> QED BY <3>1, <3>2, <1>1 DEF WordAddress, AddressOf
  <2> QED BY <1>1, <1>2, <2>1, <2>2, <2>3
<1> QED BY <1>4 DEF p, o

\* The bits of a word can be counted.
LEMMA BitsCounted ==
  ASSUME NEW w \in Word
  PROVE  Cardinality(w) \in 0 .. 32
<1>1. IsFiniteSet(0 .. 31) /\ Cardinality(0 .. 31) = 32
  <2>1. \A a, b \in Int : /\ IsFiniteSet(a .. b)
                            /\ Cardinality(a .. b) = IF a > b THEN 0 ELSE b - a + 1
    BY FS_Interval
  <2>2. 0 \in Int /\ 31 \in Int
    OBVIOUS
  <2>3. IsFiniteSet(0 .. 31) /\ Cardinality(0 .. 31) = IF 0 > 31 THEN 0 ELSE 31 - 0 + 1
    BY <2>1, <2>2, Zenon
  <2> QED BY <2>3
<1>2. IsFiniteSet(w) /\ Cardinality(w) <= 32
  <2>1. w \in SUBSET (0 .. 31)
    BY DEF Word
  <2>2. IsFiniteSet(w) /\ Cardinality(w) <= Cardinality(0 .. 31)
    BY <1>1, <2>1, FS_Subset, Zenon
  <2> QED BY <1>1, <2>2
<1>3. Cardinality(w) \in Nat
  BY <1>2, FS_CardinalityType
<1> QED BY <1>2, <1>3

\* The address in a summary that no error has touched is above all of them.
LEMMA AboveAll ==
  ASSUME NEW c \in Cases, NEW e \in c.errors
  PROVE  /\ e.adr \in Nat /\ e.xor \in Word
         /\ Empty.low \in WordAddress
         /\ AddressOf(Empty.low) > e.adr
<1> DEFINE p == page_of(e.adr)
           o == OffsetOf(e.adr)
<1>1. e.adr \in Nat /\ e.xor \in Word /\ p < NoPage
  BY ErrorAssumption DEF Word
<1>2. PAGE \in Nat \ {0} /\ NoPage \in Nat
  BY PageAssumption, SMT DEF NoPage
<1>3. p \in Nat /\ o \in 0 .. PAGE - 1 /\ e.adr = p * PAGE + o
  BY <1>1, PageAndOffset DEF AddressOf
<1>4. Empty.low = [page |-> NoPage, offset |-> PAGE - 1]
  BY DEF Empty
<1>5. Empty.low \in WordAddress /\ AddressOf(Empty.low) = NoPage * PAGE + PAGE - 1
  BY <1>4, <1>2 DEF WordAddress, AddressOf
<1> HIDE DEF p, o
<1>6. PICK d \in Nat : NoPage = p + 1 + d
  BY <1>1, <1>2, <1>3, NoPage = p + 1 + (NoPage - p - 1), NoPage - p - 1 \in Nat
<1>7. NoPage * PAGE = p * PAGE + PAGE + d * PAGE /\ d * PAGE \in Nat /\ p * PAGE \in Nat
  BY <1>2, <1>3, <1>6
<1> QED BY <1>1, <1>2, <1>3, <1>5, <1>7

\* One more error is summed up.
LEMMA OneMore ==
  ASSUME NEW c \in Cases, NEW S \in SUBSET c.errors, NEW f \in c.errors, NEW e \in Summaries,
         IF S = {} THEN Untouched(e) ELSE Sums(e, S)
  PROVE  Summarize(e, f) \in Summaries /\ Sums(Summarize(e, f), S \cup {f})
<1> DEFINE r == Summarize(e, f)
           n == Cardinality(f.xor)
           page == page_of(f.adr)
           offset == OffsetOf(f.adr)
           T == S \cup {f}
<1>1. f.adr \in Nat /\ f.xor \in Word /\ AddressOf(Empty.low) > f.adr
  BY AboveAll
<1>2. n \in 0 .. 32
  BY <1>1, BitsCounted
<1>3. page \in Nat /\ offset \in 0 .. PAGE - 1 /\ PAGE \in Nat \ {0}
  BY <1>1, PageAndOffset, PageAssumption
<1>4. /\ e.low \in WordAddress /\ e.high \in [page : Nat, offset : Nat]
      /\ e.min_bits \in 0 .. 32 /\ e.max_bits \in 0 .. 32 /\ e.tbits \in Nat /\ e.ebits \in Word
      /\ e.maxl \in Nat /\ e.eadr \in Nat /\ e.exor \in Word
  BY DEF Summaries
<1>5. /\ r.low = Low(e.low, page, offset)
      /\ r.max_bits = IF n > e.max_bits THEN n ELSE e.max_bits
      /\ r.min_bits = IF n < e.min_bits THEN n ELSE e.min_bits
      /\ r.ebits = e.ebits \cup f.xor
  BY DEF Summarize, Summaries, BitsOf
<1>6. /\ r.low \in WordAddress
      /\ AddressOf(r.low) = IF AddressOf(e.low) > f.adr THEN f.adr ELSE AddressOf(e.low)
  BY <1>1, <1>4, <1>5, LowIsLower
<1>7. AddressOf(e.low) \in Nat
  BY <1>3, <1>4 DEF WordAddress, AddressOf
<1>8. \A g \in S : g.adr \in Nat /\ Cardinality(g.xor) \in 0 .. 32
  BY AboveAll, BitsCounted
<1>9. r \in Summaries
  <2>1. High(e, page, offset) \in [page : Nat, offset : Nat]
    BY <1>3, <1>4 DEF High
  <2>2. RunLength(e, f.adr) \in Nat
    BY DEF RunLength
  <2>3. r.low \in WordAddress /\ e.ebits \cup f.xor \in Word
    BY <1>1, <1>4, <1>6 DEF Word
  <2>4. /\ (IF n > e.max_bits THEN n ELSE e.max_bits) \in 0 .. 32
        /\ (IF n < e.min_bits THEN n ELSE e.min_bits) \in 0 .. 32
        /\ e.tbits + n \in Nat
    BY <1>2, <1>4
  <2> HIDE DEF n, page, offset
  <2>5. r = [e EXCEPT !.low = Low(e.low, page, offset), !.high = High(e, page, offset),
                      !.tbits = e.tbits + n, !.max_bits = IF n > e.max_bits THEN n ELSE e.max_bits,
                      !.min_bits = IF n < e.min_bits THEN n ELSE e.min_bits, !.ebits = e.ebits \cup f.xor,
                      !.maxl = IF RunLength(e, f.adr) > e.maxl THEN RunLength(e, f.adr) ELSE e.maxl,
                      !.eadr = f.adr, !.hdr_flag = TRUE]
    BY DEF Summarize, BitsOf, n, page, offset
  <2>6. (IF RunLength(e, f.adr) > e.maxl THEN RunLength(e, f.adr) ELSE e.maxl) \in Nat
    BY <1>4, <2>2
  <2> DEFINE low == Low(e.low, page, offset)
             high == High(e, page, offset)
             most == IF n > e.max_bits THEN n ELSE e.max_bits
             least == IF n < e.min_bits THEN n ELSE e.min_bits
             bits == e.ebits \cup f.xor
             longest == IF RunLength(e, f.adr) > e.maxl THEN RunLength(e, f.adr) ELSE e.maxl
             tbits == e.tbits + n
             a == [e EXCEPT !.low = low, !.high = high, !.tbits = tbits]
             b == [a EXCEPT !.max_bits = most, !.min_bits = least, !.ebits = bits]
  <2>7. low \in WordAddress /\ high \in [page : Nat, offset : Nat] /\ tbits \in Nat
    BY <1>5, <2>1, <2>3, <2>4
  <2>8. most \in 0 .. 32 /\ least \in 0 .. 32 /\ bits \in Word /\ longest \in Nat /\ f.adr \in Nat
    BY <1>1, <2>3, <2>4, <2>6
  <2>9. r = [e EXCEPT !.low = low, !.high = high, !.tbits = tbits, !.max_bits = most, !.min_bits = least,
                      !.ebits = bits, !.maxl = longest, !.eadr = f.adr, !.hdr_flag = TRUE]
    BY <2>5
  <2> HIDE DEF low, high, most, least, bits, longest, tbits
  <2>10. a \in Summaries
    BY <2>7 DEF Summaries
  <2>11. r = [b EXCEPT !.maxl = longest, !.eadr = f.adr, !.hdr_flag = TRUE]
    BY <2>9 DEF Summaries
  <2> HIDE DEF a
  <2>12. b \in Summaries
    BY <2>8, <2>10 DEF Summaries
  <2> HIDE DEF b
  <2> QED BY <2>8, <2>11, <2>12 DEF Summaries
<1> HIDE DEF r, n, page, offset
<1>10. Sums(r, T)
  <2>1. CASE S = {}
    <3>1. AddressOf(r.low) = f.adr
      BY <2>1, <1>1, <1>6 DEF Untouched
    <3>2. r.min_bits = n /\ r.max_bits = n
      BY <2>1, <1>2, <1>5 DEF Untouched
    <3>3. r.ebits = f.xor
      BY <2>1, <1>5 DEF Untouched
    <3>4. T = {f} /\ UNION {g.xor : g \in T} = f.xor
      BY <2>1
    <3> QED BY <3>1, <3>2, <3>3, <3>4, <1>1, <1>2 DEF Sums, n
  <2>2. CASE S # {}
    <3>1. Sums(e, S)
      BY <2>2
    <3>2. PICK a \in S, b \in S, d \in S :
            /\ AddressOf(e.low) = a.adr
            /\ Cardinality(b.xor) = e.min_bits /\ Cardinality(d.xor) = e.max_bits
      BY <3>1 DEF Sums
    <3>3. \A g \in S : AddressOf(e.low) <= g.adr /\ Cardinality(g.xor) \in e.min_bits .. e.max_bits
      BY <3>1 DEF Sums
    <3>4. \A g \in T : AddressOf(r.low) <= g.adr
      BY <3>3, <1>1, <1>6, <1>7, <1>8
    <3>5. \E g \in T : AddressOf(r.low) = g.adr
      BY <3>2, <1>6
    <3>6. r.ebits = UNION {g.xor : g \in T}
      <4>1. e.ebits = UNION {g.xor : g \in S}
        BY <3>1 DEF Sums
      <4> QED BY <4>1, <1>5
    <3>7. \A g \in T : Cardinality(g.xor) \in r.min_bits .. r.max_bits
      BY <3>3, <1>2, <1>4, <1>5, <1>8 DEF n
    <3>8. \E g, h \in T : Cardinality(g.xor) = r.min_bits /\ Cardinality(h.xor) = r.max_bits
      BY <3>2, <1>5 DEF n
    <3> QED BY <3>4, <3>5, <3>6, <3>7, <3>8 DEF Sums
  <2> QED BY <2>1, <2>2
<1> QED BY <1>9, <1>10 DEF r
-----------------------------------------------------------------------------
LEMMA InitSInv == Init => SInv
<1> SUFFICES ASSUME Init PROVE SInv
  OBVIOUS
<1>1. PAGE \in Nat \ {0} /\ NoPage \in Nat
  BY PageAssumption, SMT DEF NoPage
<1>2. erri = Empty /\ seen = {} /\ case \in Cases /\ err = [p \in CPU |-> NoError]
  BY DEF Init
<1>3. Empty \in Summaries /\ Untouched(Empty)
  BY <1>1 DEF Empty, Summaries, WordAddress, Word, Untouched
<1> QED BY <1>2, <1>3 DEF SInv, ErriOK, PrintedErrors, SeenErrors, SummaryOK

\* The errors and the summary stay as they are.
LEMMA SameReport ==
  ASSUME SInv, UNCHANGED <<case, err, erri, seen>>, started => started'
  PROVE  SInv'
BY DEF SInv, ErriOK, PrintedErrors, SeenErrors, SummaryOK, CPU, Untouched, Sums

\* What a change of the mode, or a printed line, does to the summary.
LEMMA SameSums ==
  ASSUME SInv, UNCHANGED <<case, started, seen>>, ErriOK', PrintedErrors',
         /\ erri'.low = erri.low /\ erri'.ebits = erri.ebits
         /\ erri'.min_bits = erri.min_bits /\ erri'.max_bits = erri.max_bits
  PROVE  SInv'
BY DEF SInv, SeenErrors, SummaryOK, Untouched, Sums
-----------------------------------------------------------------------------
\* set_defaults begins a summary; no error has been counted before it.
LEMMA DefaultsSInv == SInv /\ set_defaults => SInv'
<1> SUFFICES ASSUME SInv, set_defaults PROVE SInv'
  OBVIOUS
<1>1. erri' = Empty /\ UNCHANGED <<case, err, seen>> /\ seen = {}
  BY DEF set_defaults, calls, SInv, SeenErrors
<1>2. PAGE \in Nat \ {0} /\ NoPage \in Nat
  BY PageAssumption, SMT DEF NoPage
<1>3. Empty \in Summaries /\ Untouched(Empty)
  BY <1>2 DEF Empty, Summaries, WordAddress, Word, Untouched
<1> QED BY <1>1, <1>3 DEF SInv, ErriOK, PrintedErrors, SeenErrors, SummaryOK, CPU

\* A new mode keeps the counts: only the header and the last address go.
LEMMA ErrorMenuSInv == ASSUME NEW p \in CPU, SInv, ErrorMenu(p) PROVE SInv'
<1>1. UNCHANGED <<case, started, err, seen>>
  BY DEF ErrorMenu, boot
<1>2. CASE UNCHANGED erri
  BY <1>1, <1>2, SameReport
<1>3. CASE \E mode : SetMode(mode)
  <2>1. /\ erri' \in Summaries
        /\ erri'.low = erri.low /\ erri'.ebits = erri.ebits
        /\ erri'.min_bits = erri.min_bits /\ erri'.max_bits = erri.max_bits
    <3>1. PICK adr \in {0, erri.eadr} : erri' = [erri EXCEPT !.hdr_flag = FALSE, !.eadr = adr]
      BY <1>3 DEF SetMode
    <3>2. erri \in Summaries /\ adr \in Nat
      BY DEF SInv, ErriOK, Summaries
    <3> QED BY <3>1, <3>2 DEF Summaries
  <2>2. PrintedErrors'
    BY <1>1 DEF SInv, PrintedErrors, CPU
  <2> QED BY <1>1, <2>1, <2>2, SameSums DEF ErriOK
<1> QED BY <1>2, <1>3 DEF ErrorMenu

\* An error is summed up, or gets a line of its own.
LEMMA ErrorSInv == ASSUME NEW p \in CPU, SInv, Error(p) PROVE SInv'
<1>1. PICK e \in case.errors : \/ AddressError(p, e) \/ SummaryError(p, e)
                               \/ PatternError(p, e) \/ CountError(p, e)
  BY DEF Error
<1>2. UNCHANGED <<case, started>> /\ started /\ case \in Cases
  BY DEF Error, boot, Running, SInv, SeenErrors
<1>3. ASSUME UNCHANGED seen, err' \in [CPU -> case.errors \cup {NoError}],
             erri' = erri \/ erri' = [erri EXCEPT !.hdr_flag = TRUE]
      PROVE  SInv'
  <2>1. /\ erri' \in Summaries
        /\ erri'.low = erri.low /\ erri'.ebits = erri.ebits
        /\ erri'.min_bits = erri.min_bits /\ erri'.max_bits = erri.max_bits
    BY <1>3 DEF SInv, ErriOK, Summaries
  <2> QED BY <1>2, <1>3, <2>1, SameSums DEF ErriOK, PrintedErrors, CPU
<1>4. err \in [CPU -> case.errors \cup {NoError}]
  BY DEF SInv, PrintedErrors
<1>5. CASE AddressError(p, e)
  BY <1>3, <1>4, <1>5 DEF AddressError
<1>6. CASE SummaryError(p, e)
  <2>1. erri' = Summarize(erri, e) /\ seen' = seen \cup {e} /\ UNCHANGED err
    BY <1>6 DEF SummaryError
  <2>2. erri \in Summaries /\ seen \in SUBSET case.errors
        /\ (IF seen = {} THEN Untouched(erri) ELSE Sums(erri, seen))
    BY DEF SInv, ErriOK, SeenErrors, SummaryOK
  <2>3. erri' \in Summaries /\ Sums(erri', seen')
    BY <1>2, <2>1, <2>2, OneMore
  <2> QED BY <1>2, <1>4, <2>1, <2>2, <2>3 DEF SInv, ErriOK, PrintedErrors, SeenErrors, SummaryOK, CPU
<1>7. CASE PatternError(p, e)
  BY <1>3, <1>4, <1>7 DEF PatternError
<1>8. CASE CountError(p, e)
  BY <1>3, <1>4, <1>8 DEF CountError
<1> QED BY <1>1, <1>5, <1>6, <1>7, <1>8

\* A line of an error leaves its address and its bits for the next one.
LEMMA ScrollSInv == ASSUME NEW p \in CPU, SInv, scroll(p) PROVE SInv'
<1>1. UNCHANGED <<case, started, err, seen>>
  BY DEF scroll, boot
<1>2. CASE UNCHANGED erri
  BY <1>1, <1>2, SameReport
<1>3. CASE ~UNCHANGED erri
  <2>1. err[p] # NoError /\ erri' = [erri EXCEPT !.eadr = err[p].adr, !.exor = err[p].xor]
    BY <1>3 DEF scroll, PrintLine
  <2>2. err[p] \in case.errors /\ case \in Cases
    BY <2>1 DEF SInv, PrintedErrors, SeenErrors
  <2>3. err[p].adr \in Nat /\ err[p].xor \in Word
    BY <2>2, AboveAll
  <2>4. /\ erri' \in Summaries
        /\ erri'.low = erri.low /\ erri'.ebits = erri.ebits
        /\ erri'.min_bits = erri.min_bits /\ erri'.max_bits = erri.max_bits
    BY <2>1, <2>3 DEF SInv, ErriOK, Summaries
  <2> QED BY <1>1, <2>4, SameSums DEF ErriOK, SInv, PrintedErrors, CPU
<1> QED BY <1>2, <1>3

\* Nothing else that the user does touches the report.
LEMMA ConfigSInv == ASSUME NEW p \in CPU, SInv, Config(p) PROVE SInv'
<1>1. CASE Menu(p) \/ Data(p) \/ ShownSpd(p)
  BY <1>1, SameReport DEF Menu, Data, ShownSpd, boot, report
<1>2. CASE TestMenu(p) \/ Type(p)
  BY <1>2, SameReport DEF TestMenu, Type, boot, calls, report
<1>3. CASE SelectTest(p) \/ List(p)
  BY <1>3, SameReport DEF SelectTest, List, boot, report
<1>4. CASE SelectList(p)
  BY <1>4, SameReport DEF SelectList, boot, report
<1>5. CASE SetLimits(p) \/ RangeMenu(p) \/ CpuMenu(p)
  BY <1>5, SameReport DEF SetLimits, RangeMenu, CpuMenu, boot, report
<1>6. CASE ErrorMenu(p)
  BY <1>6, ErrorMenuSInv
<1> QED BY <1>1, <1>2, <1>3, <1>4, <1>5, <1>6 DEF Config

\* Every step keeps it.
LEMMA NextSInv == SInv /\ [Next]_vars => SInv'
<1> SUFFICES ASSUME SInv, [Next]_vars PROVE SInv'
  OBVIOUS
<1>1. CASE UNCHANGED vars
  BY <1>1, SameReport DEF vars, boot, calls, report
<1>2. CASE Parse
  BY <1>2, SameReport DEF Parse, calls, report
<1>3. CASE set_defaults
  BY <1>3, DefaultsSInv
<1>4. CASE Window \/ House
  BY <1>4, SameReport DEF Window, House, boot, calls, report
<1>5. ASSUME NEW p \in CPU, Poll(p) \/ wait_keyup(p) PROVE SInv'
  BY <1>5, SameReport DEF Poll, wait_keyup, boot, report
<1>6. ASSUME NEW p \in CPU, Config(p) PROVE SInv'
  BY <1>6, ConfigSInv
<1>7. ASSUME NEW p \in CPU, Error(p) PROVE SInv'
  BY <1>7, ErrorSInv
<1>8. ASSUME NEW p \in CPU, LineInput(p) \/ Done(p) PROVE SInv'
  BY <1>8, SameReport DEF LineInput, Done, boot, report
<1>9. ASSUME NEW p \in CPU, scroll(p) PROVE SInv'
  BY <1>9, ScrollSInv
<1> QED BY <1>1, <1>2, <1>3, <1>4, <1>5, <1>6, <1>7, <1>8, <1>9 DEF Next

LEMMA SInvSummary == SInv => SummaryExact
BY DEF SInv, SummaryOK, Sums, SummaryExact

\* For any users, errors and changes of the report mode, the lowest address of
\* the summary, its bits in error and the fewest and most bits of an error are
\* those of the errors that common_err has summed up: a line that is printed, or
\* a mode that is left and taken again, loses none of them.
THEOREM SummaryExactHolds == Spec => []SummaryExact
<1>1. Init => SInv
  BY InitSInv
<1>2. SInv /\ [Next]_vars => SInv'
  BY NextSInv
<1>3. SInv => SummaryExact
  BY SInvSummary
<1> QED BY <1>1, <1>2, <1>3, PTL DEF Spec
-----------------------------------------------------------------------------
(* The screen: what is on the call stack of a CPU, and what a popup saves. *)
\* The calls that print a line, the menus over the first one, and what is typed
\* into them.
Lines == {"line", "patn", "scroll", "badram", "locked", "unlock"}
Submenus == {"tests", "range", "errors", "cpus", "dmi", "spd", "spd_end"}
Entries == {"number", "list", "listed", "lower", "upper"}
Frame == Lines \cup Submenus \cup Entries \cup {"menu", "keyup", "halted"}

\* What has called f.
Under(f) == CASE f \in Submenus -> {"menu"}
              [] f \in {"number", "list", "listed"} -> {"tests"}
              [] f \in {"lower", "upper"} -> {"range"}
              [] f = "keyup" -> {"menu"} \cup Submenus \cup Entries

AllLines(s) == \A i \in 1 .. Len(s) : s[i] \in Lines

\* A menu is entered from a test or from a line; what is over it is known.
Shape(s) ==
  /\ s \in Seq(Frame)
  /\ \A i \in 1 .. Len(s) : s[i] \in Lines \cup {"menu"} => \A j \in i + 1 .. Len(s) : s[j] \in Lines
  /\ \A i \in 1 .. Len(s) : s[i] \in Submenus \cup Entries \cup {"keyup"} => i < Len(s) /\ s[i + 1] \in Under(s[i])

Push(f, s) == <<f>> \o s
Fits(f, s) == /\ f \in Frame
              /\ f \in Lines \cup {"menu"} => AllLines(s)
              /\ f \in Submenus \cup Entries \cup {"keyup"} => s # <<>> /\ Head(s) \in Under(f)

\* A call puts a frame on the stack.
LEMMA Pushed ==
  ASSUME NEW s, Shape(s), NEW f, Fits(f, s)
  PROVE  /\ Shape(Push(f, s)) /\ Push(f, s) # <<>> /\ Head(Push(f, s)) = f /\ Tail(Push(f, s)) = s
         /\ AllLines(Push(f, s)) <=> f \in Lines
<1> DEFINE r == Push(f, s)
<1>1. s \in Seq(Frame) /\ Len(s) \in Nat /\ f \in Frame
  BY DEF Shape, Fits
<1>2. /\ r \in Seq(Frame) /\ Len(r) = 1 + Len(s)
      /\ r[1] = f /\ \A i \in 1 .. Len(s) : r[i + 1] = s[i]
  <2>1. <<f>> \in Seq(Frame) /\ Len(<<f>>) = 1 /\ <<f>>[1] = f
    BY <1>1
  <2> QED BY <1>1, <2>1, ConcatProperties DEF Push
<1>3. r # <<>> /\ Head(r) = f
  BY <1>2
<1>4. Tail(r) = s
  <2>1. Tail(r) \in Seq(Frame) /\ Len(Tail(r)) = Len(s) /\ \A i \in 1 .. Len(s) : Tail(r)[i] = s[i]
    BY <1>1, <1>2, <1>3, HeadTailProperties
  <2> QED BY <1>1, <2>1, SeqEqual
<1>5. \A i \in 1 .. Len(r) : i = 1 \/ (i - 1 \in 1 .. Len(s) /\ r[i] = s[i - 1])
  BY <1>1, <1>2
<1>6. AllLines(r) <=> f \in Lines
  <2>1. 1 \in 1 .. Len(r)
    BY <1>1, <1>2
  <2>2. ASSUME f \in Lines PROVE AllLines(r)
    <3>1. AllLines(s)
      BY <2>2 DEF Fits
    <3> HIDE DEF r
    <3> QED BY <2>2, <3>1, <1>2, <1>5 DEF AllLines
  <2> QED BY <2>1, <2>2, <1>2 DEF AllLines
<1>7. ASSUME NEW i \in 1 .. Len(r), r[i] \in Lines \cup {"menu"}, NEW j \in i + 1 .. Len(r)
      PROVE  r[j] \in Lines
  <2>1. j - 1 \in 1 .. Len(s) /\ r[j] = s[j - 1]
    BY <1>1, <1>2, <1>5, <1>7
  <2>2. CASE i = 1
    BY <2>1, <2>2, <1>2, <1>7 DEF Fits, AllLines
  <2>3. CASE i # 1
    <3>1. i - 1 \in 1 .. Len(s) /\ s[i - 1] = r[i] /\ j - 1 \in (i - 1) + 1 .. Len(s)
      BY <2>1, <2>3, <1>1, <1>2, <1>5
    <3>2. \A k \in 1 .. Len(s) : s[k] \in Lines \cup {"menu"} => \A l \in k + 1 .. Len(s) : s[l] \in Lines
      BY DEF Shape
    <3> QED BY <1>7, <2>1, <3>1, <3>2
  <2> QED BY <2>2, <2>3
<1>8. ASSUME NEW i \in 1 .. Len(r), r[i] \in Submenus \cup Entries \cup {"keyup"}
      PROVE  i < Len(r) /\ r[i + 1] \in Under(r[i])
  <2>1. CASE i = 1
    BY <2>1, <1>1, <1>2, <1>8 DEF Fits
  <2>2. CASE i # 1
    BY <2>2, <1>1, <1>2, <1>5, <1>8 DEF Shape
  <2> QED BY <2>1, <2>2
<1> QED BY <1>2, <1>3, <1>4, <1>6, <1>7, <1>8 DEF Shape

\* A return takes one off.
LEMMA Popped ==
  ASSUME NEW s, Shape(s), s # <<>>
  PROVE  /\ Shape(Tail(s)) /\ Head(s) \in Frame
         /\ Head(s) \in Lines \cup {"menu"} => AllLines(Tail(s))
         /\ Head(s) \in Lines <=> AllLines(s)
         /\ Head(s) \in Submenus \cup Entries \cup {"keyup"} => Tail(s) # <<>> /\ Head(Tail(s)) \in Under(Head(s))
<1> DEFINE t == Tail(s)
<1>1. s \in Seq(Frame) /\ Len(s) \in Nat \ {0} /\ Head(s) = s[1] /\ s[1] \in Frame
  BY DEF Shape
<1>2. t \in Seq(Frame) /\ Len(t) = Len(s) - 1 /\ \A i \in 1 .. Len(t) : t[i] = s[i + 1]
  BY <1>1, HeadTailProperties
<1> HIDE DEF t
<1>3. s[1] \in Lines \cup {"menu"} => AllLines(t)
  BY <1>1, <1>2 DEF Shape, AllLines
<1>4. s[1] \in Lines <=> AllLines(s)
  <2>1. \A i \in 1 .. Len(s) : i = 1 \/ i \in 1 + 1 .. Len(s)
    BY <1>1
  <2> QED BY <2>1, <1>1 DEF Shape, AllLines
<1>5. s[1] \in Submenus \cup Entries \cup {"keyup"} => t # <<>> /\ Head(t) \in Under(s[1])
  <2> SUFFICES ASSUME s[1] \in Submenus \cup Entries \cup {"keyup"} PROVE t # <<>> /\ Head(t) \in Under(s[1])
    OBVIOUS
  <2>1. 1 < Len(s) /\ s[1 + 1] \in Under(s[1])
    BY <1>1 DEF Shape
  <2> QED BY <2>1, <1>1, <1>2
<1>6. Shape(t)
  <2>1. ASSUME NEW i \in 1 .. Len(t), t[i] \in Lines \cup {"menu"}, NEW j \in i + 1 .. Len(t)
        PROVE  t[j] \in Lines
    <3>1. i + 1 \in 1 .. Len(s) /\ j + 1 \in (i + 1) + 1 .. Len(s) /\ t[i] = s[i + 1] /\ t[j] = s[j + 1]
      BY <1>1, <1>2, <2>1
    <3> QED BY <3>1, <2>1 DEF Shape
  <2>2. ASSUME NEW i \in 1 .. Len(t), t[i] \in Submenus \cup Entries \cup {"keyup"}
        PROVE  i < Len(t) /\ t[i + 1] \in Under(t[i])
    <3>1. i + 1 \in 1 .. Len(s) /\ t[i] = s[i + 1]
      BY <1>1, <1>2
    <3>2. i + 1 < Len(s) /\ s[(i + 1) + 1] \in Under(s[i + 1])
      BY <3>1, <2>2 DEF Shape
    <3>3. i < Len(t) /\ t[i + 1] = s[(i + 1) + 1]
      BY <3>2, <1>1, <1>2
    <3> QED BY <3>1, <3>2, <3>3
  <2> QED BY <1>2, <2>1, <2>2 DEF Shape
<1> QED BY <1>1, <1>3, <1>4, <1>5, <1>6 DEF t

Calls(t, a, b, c) ==
  /\ <<>> \o t = t
  /\ <<a>> \o t = Push(a, t)
  /\ <<a, b>> \o t = Push(a, Push(b, t))
  /\ <<a, b, c>> \o t = Push(a, Push(b, Push(c, t)))
\* Frames that are put in front of a stack are calls, the first one last.
LEMMA Called ==
  ASSUME NEW t \in Seq(Frame), NEW a \in Frame, NEW b \in Frame, NEW c \in Frame
  PROVE  Calls(t, a, b, c)
<1>1. <<>> \o t = t
  BY ConcatEmptySeq
<1>2. /\ <<a>> \in Seq(Frame) /\ <<b>> \in Seq(Frame) /\ <<b, c>> \in Seq(Frame) /\ <<c>> \in Seq(Frame)
      /\ <<a, b>> \in Seq(Frame) /\ <<a, b, c>> \in Seq(Frame)
  OBVIOUS
<1>4. <<a, b>> = <<a>> \o <<b>> /\ <<b, c>> = <<b>> \o <<c>>
  <2>1. ASSUME NEW x \in Frame, NEW y \in Frame PROVE <<x, y>> = <<x>> \o <<y>>
    <3>1. <<x>> \in Seq(Frame) /\ <<y>> \in Seq(Frame) /\ <<x, y>> \in Seq(Frame)
          /\ Len(<<x>>) = 1 /\ Len(<<y>>) = 1 /\ Len(<<x, y>>) = 2
          /\ <<x>>[1] = x /\ <<y>>[1] = y /\ <<x, y>>[1] = x /\ <<x, y>>[2] = y
      OBVIOUS
    <3>2. <<x>> \o <<y>> \in Seq(Frame) /\ Len(<<x>> \o <<y>>) = 2
          /\ \A i \in 1 .. 2 : (<<x>> \o <<y>>)[i] = IF i <= 1 THEN <<x>>[i] ELSE <<y>>[i - 1]
      BY <3>1, ConcatProperties
    <3>3. \A i \in 1 .. 2 : (<<x>> \o <<y>>)[i] = <<x, y>>[i]
      BY <3>1, <3>2
    <3> QED BY <3>1, <3>2, <3>3, SeqEqual
  <2> QED BY <2>1
<1>5. <<a, b, c>> = <<a>> \o <<b, c>>
  <2>1. /\ Len(<<a>>) = 1 /\ Len(<<b, c>>) = 2 /\ Len(<<a, b, c>>) = 3
        /\ <<a>>[1] = a /\ <<b, c>>[1] = b /\ <<b, c>>[2] = c
        /\ <<a, b, c>>[1] = a /\ <<a, b, c>>[2] = b /\ <<a, b, c>>[3] = c
    OBVIOUS
  <2>2. <<a>> \o <<b, c>> \in Seq(Frame) /\ Len(<<a>> \o <<b, c>>) = 3
        /\ \A i \in 1 .. 3 : (<<a>> \o <<b, c>>)[i] = IF i <= 1 THEN <<a>>[i] ELSE <<b, c>>[i - 1]
    BY <1>2, <2>1, ConcatProperties
  <2>3. \A i \in 1 .. 3 : (<<a>> \o <<b, c>>)[i] = <<a, b, c>>[i]
    BY <2>1, <2>2
  <2> QED BY <1>2, <2>1, <2>2, <2>3, SeqEqual
<1>3. (<<a>> \o <<b>>) \o t = <<a>> \o (<<b>> \o t) /\ (<<b>> \o <<c>>) \o t = <<b>> \o (<<c>> \o t)
      /\ (<<a>> \o <<b, c>>) \o t = <<a>> \o (<<b, c>> \o t)
  BY <1>2, ConcatAssociative
<1> QED BY <1>1, <1>2, <1>3, <1>4, <1>5 DEF Push, Calls

\* What Unwind does to a stack, said with calls and returns.
LEMMA Unwound ==
  ASSUME NEW s \in Seq(Frame), NEW a \in Frame, NEW b \in Frame, NEW c \in Frame
  PROVE  /\ <<>> \o SubSeq(s, 0 + 1, Len(s)) = s
         /\ <<a>> \o SubSeq(s, 0 + 1, Len(s)) = Push(a, s)
         /\ <<a, b>> \o SubSeq(s, 0 + 1, Len(s)) = Push(a, Push(b, s))
         /\ s # <<>> => /\ <<>> \o SubSeq(s, 1 + 1, Len(s)) = Tail(s)
                        /\ <<a>> \o SubSeq(s, 1 + 1, Len(s)) = Push(a, Tail(s))
                        /\ <<a, b>> \o SubSeq(s, 1 + 1, Len(s)) = Push(a, Push(b, Tail(s)))
                        /\ <<a, b, c>> \o SubSeq(s, 1 + 1, Len(s)) = Push(a, Push(b, Push(c, Tail(s))))
                        /\ Tail(s) # <<>> => <<>> \o SubSeq(s, 2 + 1, Len(s)) = Tail(Tail(s))
<1>1. \A u \in Seq(Frame) : Calls(u, a, b, c)
  BY Called
<1>2. SubSeq(s, 0 + 1, Len(s)) = s
  <2>1. SubSeq(s, 1, Len(s)) = s
    BY SubSeqFull
  <2> QED BY <2>1
<1>3. ASSUME s # <<>>
      PROVE  Tail(s) \in Seq(Frame) /\ SubSeq(s, 1 + 1, Len(s)) = Tail(s)
  <2>1. Tail(s) = SubSeq(s, 2, Len(s)) /\ Tail(s) \in Seq(Frame)
    BY <1>3, TailIsSubSeq, HeadTailProperties
  <2> QED BY <2>1
<1>4. ASSUME s # <<>>, Tail(s) # <<>>
      PROVE  Tail(Tail(s)) \in Seq(Frame) /\ SubSeq(s, 2 + 1, Len(s)) = Tail(Tail(s))
  <2>1. Len(s) \in Nat /\ 2 \in 1 .. Len(s) /\ Len(s) \in 2 .. Len(s)
    <3>1. Tail(s) \in Seq(Frame) /\ Len(Tail(s)) = Len(s) - 1 /\ Len(s) \in Nat
      BY <1>4, HeadTailProperties
    <3>2. Len(Tail(s)) # 0
      BY <1>4, <3>1, EmptySeq
    <3> QED BY <3>1, <3>2
  <2>2. Tail(SubSeq(s, 2, Len(s))) = SubSeq(s, 3, Len(s))
    <3>1. Tail(SubSeq(s, 2, Len(s))) = SubSeq(s, 2 + 1, Len(s))
      BY <2>1, HeadTailOfSubSeq
    <3> QED BY <3>1
  <2>3. Tail(s) = SubSeq(s, 2, Len(s)) /\ Tail(s) \in Seq(Frame)
    BY <1>4, TailIsSubSeq, HeadTailProperties
  <2>4. Tail(Tail(s)) \in Seq(Frame)
    BY <1>4, <2>3, HeadTailProperties
  <2> QED BY <2>2, <2>3, <2>4
<1>5. ASSUME s # <<>>, Tail(s) # <<>> PROVE <<>> \o SubSeq(s, 2 + 1, Len(s)) = Tail(Tail(s))
  BY <1>1, <1>4, <1>5 DEF Calls
<1>6. ASSUME s # <<>>
      PROVE  /\ <<>> \o SubSeq(s, 1 + 1, Len(s)) = Tail(s)
             /\ <<a>> \o SubSeq(s, 1 + 1, Len(s)) = Push(a, Tail(s))
             /\ <<a, b>> \o SubSeq(s, 1 + 1, Len(s)) = Push(a, Push(b, Tail(s)))
             /\ <<a, b, c>> \o SubSeq(s, 1 + 1, Len(s)) = Push(a, Push(b, Push(c, Tail(s))))
  BY <1>1, <1>3, <1>6 DEF Calls
<1> QED BY <1>1, <1>2, <1>5, <1>6 DEF Calls
-----------------------------------------------------------------------------
\* Whoever may open the menu is alone at the keyboard: another CPU whose error is
\* printed meanwhile writes over the menu (Console's configuration of its own).
OneUser == \A c \in Cases : "c" \notin c.keys \/ \E p \in c.cpus : c.cpus = {p}

Shown == [top |-> "tests", msgs |-> printed.n]
Stacks == stack \in [CPU -> Seq(Frame)] /\ \A p \in CPU : Shape(stack[p])
Menus == Submenus \cup Entries \cup {"menu", "keyup"}

\* Without the menu the screen is never covered.
NoMenus == /\ "c" \notin case.keys /\ held # "c" /\ screen = Shown
           /\ \A p \in CPU : stack[p] = <<>> \/ Head(stack[p]) \in Lines \cup {"halted"}

\* The menu has put what it covers into save; while the SPD data is shown in its
\* place, save2 has it.
OverData(s) == \/ Head(s) \in {"spd", "spd_end"}
               \/ Head(s) = "keyup" /\ Head(Tail(s)) \in {"spd", "spd_end"}
Covered(s) == IF AllLines(s) THEN screen = Shown
              ELSE Head(s) = "halted" \/ (save = Shown /\ (OverData(s) => save2 = Shown))
OneMenu == (\E p \in CPU : CPU = {p}) /\ \A p \in CPU : Covered(stack[p])

ScrInv == case \in Cases /\ Stacks /\ (NoMenus \/ OneMenu)

LEMMA InitScrInv == ASSUME OneUser, Init PROVE ScrInv
<1>1. case \in Cases /\ stack = [p \in CPU |-> <<>>] /\ held = NUL /\ screen = Shown
  BY DEF Init, Tests, Shown
<1>2. <<>> \in Seq(Frame) /\ Len(<<>>) = 0
  OBVIOUS
<1>3. Shape(<<>>) /\ AllLines(<<>>)
  BY <1>2 DEF Shape, AllLines
<1>4. Stacks
  BY <1>1, <1>2, <1>3 DEF Stacks
<1>5. NUL # "c"
  BY DEF NUL
<1>6. CASE "c" \notin case.keys
  BY <1>1, <1>4, <1>5, <1>6 DEF ScrInv, NoMenus
<1>7. CASE \E p \in CPU : CPU = {p}
  BY <1>1, <1>3, <1>4, <1>7 DEF ScrInv, OneMenu, Covered
<1> QED BY <1>1, <1>6, <1>7 DEF OneUser, CPU

\* A step that leaves the stacks and the screen alone.
LEMMA QuietStep ==
  ASSUME ScrInv, UNCHANGED <<case, stack, screen, save, save2, printed>>, NoMenus => held' # "c"
  PROVE  ScrInv'
BY DEF ScrInv, Stacks, NoMenus, OneMenu, Covered, Shown, CPU

\* A step of p that leaves r on its stack.
LEMMA StackStep ==
  ASSUME ScrInv, NEW p \in CPU, NEW r, Shape(r),
         UNCHANGED case, stack' = [stack EXCEPT ![p] = r],
         NoMenus => /\ held' # "c" /\ screen' = Shown'
                    /\ r = <<>> \/ Head(r) \in Lines \cup {"halted"},
         OneMenu => IF AllLines(r) THEN screen' = Shown'
                    ELSE Head(r) = "halted" \/ (save' = Shown' /\ (OverData(r) => save2' = Shown'))
  PROVE  ScrInv'
<1>1. r \in Seq(Frame) /\ stack \in [CPU -> Seq(Frame)]
  BY DEF Shape, ScrInv, Stacks
<1>2. stack'[p] = r /\ \A q \in CPU : q # p => stack'[q] = stack[q]
  BY <1>1
<1>3. CPU' = CPU /\ case' \in Cases
  BY DEF CPU, ScrInv
<1>4. Stacks'
  BY <1>1, <1>2, <1>3 DEF ScrInv, Stacks
<1>5. CASE NoMenus
  <2>1. \A q \in CPU : stack'[q] = <<>> \/ Head(stack'[q]) \in Lines \cup {"halted"}
    BY <1>2, <1>5 DEF NoMenus
  <2> QED BY <1>3, <1>4, <1>5, <2>1 DEF ScrInv, NoMenus
<1>6. CASE OneMenu
  <2>1. \A q \in CPU : q = p
    BY <1>6 DEF OneMenu
  <2>2. \A q \in CPU : Covered(stack[q])'
    BY <1>2, <1>6, <2>1 DEF Covered
  <2> QED BY <1>3, <1>4, <1>6, <2>2 DEF ScrInv, OneMenu
<1> QED BY <1>5, <1>6 DEF ScrInv

\* Only a user of the menu presses c.
LEMMA KeyHeld ==
  ASSUME NEW e \in Event \cup {"CR", "3"}, get_key(e)
  PROVE  NoMenus => held' # "c"
BY DEF get_key, Event, NoMenus, NUL

\* What is known of a CPU in a menu.
LEMMA InMenus ==
  ASSUME ScrInv, NEW p \in CPU, Top(p) \in Menus
  PROVE  LET s == stack[p]
         IN /\ s \in Seq(Frame) /\ Shape(s) /\ s # <<>> /\ Head(s) = Top(p)
            /\ ~NoMenus /\ save = Shown /\ (OverData(s) => save2 = Shown)
            /\ Shape(Tail(s)) /\ Tail(s) \in Seq(Frame)
            /\ Top(p) = "menu" => AllLines(Tail(s))
            /\ Top(p) # "menu" => /\ Tail(s) # <<>> /\ Head(Tail(s)) \in Under(Top(p))
                                  /\ ~AllLines(Tail(s))
<1> DEFINE s == stack[p]
<1>1. s \in Seq(Frame) /\ Shape(s)
  BY DEF ScrInv, Stacks
<1>2. s # <<>> /\ Head(s) = Top(p)
  BY DEF Top, Menus, Submenus, Entries
<1> HIDE DEF s
<1>3. Head(s) \notin Lines /\ Head(s) # "halted"
  BY <1>2 DEF Menus, Submenus, Entries, Lines
<1>4. ~NoMenus
  BY <1>2, <1>3 DEF NoMenus, s
<1>5. ~AllLines(s)
  BY <1>1, <1>2, <1>3, Popped
<1>6. save = Shown /\ (OverData(s) => save2 = Shown)
  BY <1>3, <1>4, <1>5 DEF ScrInv, OneMenu, Covered, s
<1>7. Shape(Tail(s)) /\ Tail(s) \in Seq(Frame)
  BY <1>1, <1>2, Popped DEF Shape
<1>8. Top(p) = "menu" => AllLines(Tail(s))
  BY <1>1, <1>2, Popped
<1>9. ASSUME Top(p) # "menu"
      PROVE  Tail(s) # <<>> /\ Head(Tail(s)) \in Under(Top(p)) /\ ~AllLines(Tail(s))
  <2>1. Tail(s) # <<>> /\ Head(Tail(s)) \in Under(Top(p))
    BY <1>1, <1>2, <1>9, Popped DEF Menus
  <2>2. Head(Tail(s)) \notin Lines
    BY <2>1, <1>9 DEF Under, Menus, Submenus, Entries, Lines
  <2> QED BY <2>1, <2>2, <1>7, Popped
<1> QED BY <1>1, <1>2, <1>4, <1>6, <1>7, <1>8, <1>9 DEF s
-----------------------------------------------------------------------------
(* In the menu. *)
\* A step from menu to menu: something is called over the menu, or it returns.
LEMMA MenuStep ==
  ASSUME ScrInv, NEW p \in CPU, Top(p) \in Menus, NEW r, Shape(r), r # <<>>, Head(r) \in Menus,
         UNCHANGED <<case, save, printed>>, stack' = [stack EXCEPT ![p] = r],
         OverData(r) => save2' = save
  PROVE  ScrInv'
<1>1. ~NoMenus /\ save = Shown
  BY InMenus
<1>2. Head(r) \notin Lines
  BY DEF Menus, Submenus, Entries, Lines
<1>3. ~AllLines(r)
  BY <1>2, Popped
<1>4. save' = Shown' /\ (OverData(r) => save2' = Shown')
  BY <1>1 DEF Shown
<1> QED BY <1>1, <1>3, <1>4, StackStep

\* A return to the menu that has called.
LEMMA MenuReturn ==
  ASSUME ScrInv, NEW p \in CPU, Top(p) \in Menus, Top(p) # "menu",
         Return(p), UNCHANGED <<case, save, save2, printed>>
  PROVE  ScrInv'
<1> DEFINE s == stack[p]
           r == Tail(s)
<1>1. /\ s \in Seq(Frame) /\ s # <<>> /\ Shape(r) /\ r # <<>>
      /\ Head(s) = Top(p) /\ Head(r) \in Under(Top(p)) /\ save = Shown /\ (OverData(s) => save2 = Shown)
  BY InMenus
<1>2. "menu" \in Frame /\ stack' = [stack EXCEPT ![p] = <<>> \o SubSeq(s, 1 + 1, Len(s))]
  BY DEF Return, Unwind, Frame
<1>3. stack' = [stack EXCEPT ![p] = r]
  BY <1>1, <1>2, Unwound
<1> HIDE DEF r
<1>4. Head(r) \in Menus \ {"keyup"}
  BY <1>1 DEF Under, Menus, Submenus, Entries
<1>5. OverData(r) => OverData(s)
  <2> SUFFICES ASSUME Head(r) \in {"spd", "spd_end"} PROVE OverData(s)
    BY <1>4 DEF OverData
  <2>1. Top(p) = "keyup"
    BY <1>1 DEF Under, Menus, Submenus, Entries
  <2> QED BY <1>1, <2>1 DEF OverData, r
<1> QED BY <1>1, <1>3, <1>4, <1>5, MenuStep

\* A number or a list that is entered returns to the first menu.
LEMMA EntryReturn ==
  ASSUME ScrInv, NEW p \in CPU, Top(p) \in Entries,
         Unwind(p, 2, <<>>), UNCHANGED <<case, save, save2, printed>>
  PROVE  ScrInv'
<1> DEFINE s == stack[p]
           t == Tail(s)
           r == Tail(t)
<1>1. Top(p) \in Menus /\ Top(p) # "menu"
  BY DEF Menus, Entries
<1>2. /\ s \in Seq(Frame) /\ s # <<>> /\ Shape(t) /\ t # <<>> /\ Head(t) \in Under(Top(p))
  BY <1>1, InMenus
<1>3. "menu" \in Frame /\ stack' = [stack EXCEPT ![p] = <<>> \o SubSeq(s, 2 + 1, Len(s))]
  BY DEF Unwind, Frame
<1>4. stack' = [stack EXCEPT ![p] = r]
  BY <1>2, <1>3, Unwound
<1>5. Head(t) \in {"tests", "range"}
  BY <1>2 DEF Under, Entries, Submenus
<1> HIDE DEF t
<1>6. Shape(r) /\ r # <<>> /\ Head(r) \in Under(Head(t))
  BY <1>2, <1>5, Popped DEF Submenus
<1> HIDE DEF r
<1>7. Head(r) = "menu"
  BY <1>5, <1>6 DEF Under, Submenus
<1>8. Head(r) \in Menus /\ ~OverData(r)
  BY <1>7 DEF Menus, OverData
<1> QED BY <1>1, <1>4, <1>6, <1>8, MenuStep

\* wait_keyup, and then something over the menu that is in front.
LEMMA MenuCall ==
  ASSUME ScrInv, NEW p \in CPU, Top(p) \in Menus, NEW f \in Submenus \cup Entries,
         Top(p) \in Under(f), f \in {"spd", "spd_end"} => save2' = save,
         Call(p, <<"keyup", f>>), UNCHANGED <<case, save, printed>>
  PROVE  ScrInv'
<1> DEFINE s == stack[p]
           r == Push("keyup", Push(f, s))
<1>1. s \in Seq(Frame) /\ Shape(s) /\ s # <<>> /\ Head(s) = Top(p)
  BY InMenus
<1>2. "keyup" \in Frame /\ f \in Frame /\ stack' = [stack EXCEPT ![p] = <<"keyup", f>> \o SubSeq(s, 0 + 1, Len(s))]
  BY DEF Call, Unwind, Frame
<1>3. stack' = [stack EXCEPT ![p] = r]
  BY <1>1, <1>2, Unwound
<1>4. Fits(f, s)
  BY <1>1, <1>2 DEF Fits, Submenus, Entries, Lines
<1>5. Shape(Push(f, s)) /\ Push(f, s) # <<>> /\ Head(Push(f, s)) = f
  BY <1>1, <1>4, Pushed
<1>6. Fits("keyup", Push(f, s))
  BY <1>2, <1>5 DEF Fits, Under, Submenus, Entries, Lines
<1>7. Shape(r) /\ r # <<>> /\ Head(r) = "keyup" /\ Tail(r) = Push(f, s)
  BY <1>5, <1>6, Pushed
<1>8. OverData(r) => save2' = save
  BY <1>5, <1>7 DEF OverData
<1>9. Head(r) \in Menus
  BY <1>7 DEF Menus
<1> HIDE DEF r
<1> QED BY <1>3, <1>7, <1>8, <1>9, MenuStep
-----------------------------------------------------------------------------
LEMMA KeyupScr == ASSUME ScrInv, NEW p \in CPU, wait_keyup(p) PROVE ScrInv'
<1>1. Top(p) \in Menus /\ Top(p) # "menu" /\ UNCHANGED <<case, screen, save, save2, printed>>
  BY DEF wait_keyup, Menus, boot, popups, report
<1>2. ~NoMenus
  BY <1>1, InMenus
<1>3. CASE UNCHANGED stack
  BY <1>1, <1>2, <1>3, QuietStep
<1>4. CASE Return(p)
  BY <1>1, <1>4, MenuReturn
<1> QED BY <1>3, <1>4 DEF wait_keyup

\* Leaving the menu brings back what it has covered.
LEMMA LeaveScr ==
  ASSUME ScrInv, NEW p \in CPU, Top(p) = "menu", NEW e, LeaveMenu(p, e), UNCHANGED <<case, printed>>
  PROVE  ScrInv'
<1> DEFINE s == stack[p]
           t == Tail(s)
<1>1. /\ s \in Seq(Frame) /\ s # <<>> /\ Shape(t) /\ AllLines(t) /\ ~NoMenus /\ save = Shown
  BY InMenus DEF Menus
<1>2. screen' = Shown'
  BY <1>1 DEF LeaveMenu, popdown, Shown
<1>3. /\ "patn" \in Frame
      /\ stack' = [stack EXCEPT ![p] = (IF prt[p] THEN <<"patn">> ELSE <<>>) \o SubSeq(s, 1 + 1, Len(s))]
  BY DEF LeaveMenu, Unwind, Frame, Lines
<1>4. /\ <<"patn">> \o SubSeq(s, 1 + 1, Len(s)) = Push("patn", t)
      /\ <<>> \o SubSeq(s, 1 + 1, Len(s)) = t
  BY <1>1, <1>3, Unwound
<1>5. Fits("patn", t)
  BY <1>1, <1>3 DEF Fits, Submenus, Entries, Lines
<1>6. Shape(Push("patn", t)) /\ AllLines(Push("patn", t))
  BY <1>1, <1>5, Pushed DEF Lines
<1> HIDE DEF t
<1>7. PICK r \in {t, Push("patn", t)} : stack' = [stack EXCEPT ![p] = r]
  BY <1>3, <1>4
<1>8. Shape(r) /\ AllLines(r)
  BY <1>1, <1>6, <1>7
<1> QED BY <1>1, <1>2, <1>7, <1>8, StackStep

LEMMA MenuScr == ASSUME ScrInv, NEW p \in CPU, Menu(p) PROVE ScrInv'
<1>1. Top(p) = "menu" /\ UNCHANGED <<case, printed>>
  BY DEF Menu, boot, report
<1>2. Top(p) \in Menus
  BY <1>1 DEF Menus
<1>3. ~NoMenus
  BY <1>2, InMenus
<1>4. PICK e \in Event : \/ OpenMenu(p, e) \/ ShowData(p, e) \/ LeaveMenu(p, e) \/ UNCHANGED <<stack, popups>>
  BY DEF Menu
<1>5. CASE UNCHANGED <<stack, popups>>
  BY <1>1, <1>3, <1>5, QuietStep DEF popups
<1>6. CASE LeaveMenu(p, e)
  BY <1>1, <1>6, LeaveScr
<1>7. CASE OpenMenu(p, e)
  <2>1. PICK f \in {"tests", "range", "errors", "cpus"} : Call(p, <<"keyup", f>>)
    BY <1>7 DEF OpenMenu
  <2>2. UNCHANGED <<save, save2>>
    BY <1>7 DEF OpenMenu, popups
  <2>3. f \in Submenus \cup Entries /\ Top(p) \in Under(f) /\ f \notin {"spd", "spd_end"}
    BY <1>1 DEF Submenus, Under
  <2> QED BY <1>1, <1>2, <2>1, <2>2, <2>3, MenuCall
<1>8. CASE ShowData(p, e)
  <2>1. CASE Call(p, <<"keyup", "spd">>) /\ save2' = save /\ UNCHANGED save
    <3>1. "spd" \in Submenus \cup Entries /\ Top(p) \in Under("spd")
      BY <1>1 DEF Submenus, Under
    <3> QED BY <1>1, <1>2, <2>1, <3>1, MenuCall
  <2>2. CASE Call(p, <<"dmi">>) /\ UNCHANGED save
    <3> DEFINE s == stack[p]
               r == Push("dmi", s)
    <3>1. s \in Seq(Frame) /\ Shape(s) /\ s # <<>> /\ Head(s) = Top(p)
      BY <1>2, InMenus
    <3>2. "dmi" \in Frame /\ stack' = [stack EXCEPT ![p] = <<"dmi">> \o SubSeq(s, 0 + 1, Len(s))]
      BY <2>2 DEF Call, Unwind, Frame, Submenus
    <3>3. stack' = [stack EXCEPT ![p] = r]
      BY <3>1, <3>2, Unwound
    <3>4. Fits("dmi", s)
      BY <1>1, <3>1, <3>2 DEF Fits, Under, Submenus, Lines
    <3>5. Shape(r) /\ r # <<>> /\ Head(r) = "dmi"
      BY <3>1, <3>4, Pushed
    <3>6. Head(r) \in Menus /\ ~OverData(r)
      BY <3>5 DEF Menus, Submenus, OverData
    <3> HIDE DEF r
    <3> QED BY <1>1, <1>2, <2>2, <3>3, <3>5, <3>6, MenuStep
  <2> QED BY <1>8, <2>1, <2>2 DEF ShowData, pop2up
<1> QED BY <1>4, <1>5, <1>6, <1>7, <1>8

\* The memory devices are a popup over the menu; after the SPD data the menu is
\* put over what save2 has kept.
LEMMA DataScr == ASSUME ScrInv, NEW p \in CPU, Data(p) \/ ShownSpd(p) PROVE ScrInv'
<1>1. UNCHANGED <<case, printed>>
  BY DEF Data, ShownSpd, boot, report
<1>2. Top(p) \in Menus /\ Top(p) # "menu" /\ Top(p) \in {"dmi", "spd", "spd_end"}
  BY DEF Data, ShownSpd, Menus, Submenus
<1> DEFINE s == stack[p]
           t == Tail(s)
<1>3. /\ s \in Seq(Frame) /\ s # <<>> /\ Head(s) = Top(p) /\ ~NoMenus
      /\ save = Shown /\ (OverData(s) => save2 = Shown)
      /\ Shape(t) /\ t # <<>> /\ Head(t) \in Under(Top(p))
  BY <1>2, InMenus
<1>4. Head(t) = "menu"
  BY <1>2, <1>3 DEF Under, Submenus
<1>5. /\ "keyup" \in Frame /\ "spd_end" \in Frame
      /\ <<>> \o SubSeq(s, 1 + 1, Len(s)) = t
      /\ <<"keyup", "spd_end">> \o SubSeq(s, 1 + 1, Len(s)) = Push("keyup", Push("spd_end", t))
  <2>1. "keyup" \in Frame /\ "spd_end" \in Frame
    BY DEF Frame, Submenus
  <2> QED BY <1>3, <2>1, Unwound
<1>6. CASE Top(p) = "dmi" /\ pop2down /\ Return(p)
  BY <1>1, <1>2, <1>6, MenuReturn DEF pop2down
<1>7. CASE Top(p) = "spd" /\ Unwind(p, 1, <<"keyup", "spd_end">>) /\ UNCHANGED popups
  <2> DEFINE r == Push("keyup", Push("spd_end", t))
  <2>1. stack' = [stack EXCEPT ![p] = r]
    BY <1>5, <1>7 DEF Unwind
  <2>2. Fits("spd_end", t)
    BY <1>3, <1>4, <1>5 DEF Fits, Under, Submenus, Lines
  <2>3. Shape(Push("spd_end", t)) /\ Push("spd_end", t) # <<>> /\ Head(Push("spd_end", t)) = "spd_end"
    BY <1>3, <2>2, Pushed
  <2>4. Fits("keyup", Push("spd_end", t))
    BY <1>5, <2>3 DEF Fits, Under, Submenus, Entries, Lines
  <2>5. Shape(r) /\ r # <<>> /\ Head(r) = "keyup"
    BY <2>3, <2>4, Pushed
  <2>6. UNCHANGED save /\ save2' = save
    BY <1>3, <1>7 DEF popups, OverData
  <2>7. Head(r) \in Menus
    BY <2>5 DEF Menus
  <2> HIDE DEF r
  <2> QED BY <1>1, <1>2, <2>1, <2>5, <2>6, <2>7, MenuStep
<1>8. CASE ShownSpd(p)
  <2>1. Return(p) /\ save' = save2 /\ UNCHANGED save2 /\ Top(p) = "spd_end"
    BY <1>8 DEF ShownSpd
  <2>2. save' = save
    BY <1>3, <2>1 DEF OverData
  <2> QED BY <1>1, <1>2, <2>1, <2>2, MenuReturn
<1> QED BY <1>6, <1>7, <1>8 DEF Data

\* The submenus: a key goes back, asks for an entry, or does nothing; so does the
\* end of an entry.
LEMMA SubmenuScr ==
  ASSUME ScrInv, NEW p \in CPU, Top(p) \in Submenus \cup Entries, UNCHANGED <<case, screen, save, save2, printed>>,
         \/ UNCHANGED stack
         \/ Return(p)
         \/ \E f \in Entries : Top(p) \in Under(f) /\ Call(p, <<"keyup", f>>)
         \/ Top(p) \in Entries /\ Unwind(p, 2, <<>>)
  PROVE  ScrInv'
<1>1. Top(p) \in Menus /\ Top(p) # "menu"
  BY DEF Menus, Submenus, Entries
<1>2. CASE UNCHANGED stack
  <2>1. ~NoMenus
    BY <1>1, InMenus
  <2> QED BY <1>2, <2>1, QuietStep
<1>3. CASE Return(p)
  BY <1>1, <1>3, MenuReturn
<1>4. ASSUME NEW f \in Entries, Top(p) \in Under(f), Call(p, <<"keyup", f>>)
      PROVE  ScrInv'
  <2>1. f \in Submenus \cup Entries /\ f \notin {"spd", "spd_end"}
    BY DEF Entries
  <2> QED BY <1>1, <1>4, <2>1, MenuCall
<1>5. CASE Top(p) \in Entries /\ Unwind(p, 2, <<>>)
  BY <1>5, EntryReturn
<1> QED BY <1>2, <1>3, <1>4, <1>5

\* A list that is typed in becomes one that is looked at.
LEMMA ListScr ==
  ASSUME ScrInv, NEW p \in CPU, Top(p) = "list", Unwind(p, 1, <<"listed">>),
         UNCHANGED <<case, screen, save, save2, printed>>
  PROVE  ScrInv'
<1> DEFINE s == stack[p]
           t == Tail(s)
           r == Push("listed", t)
<1>1. Top(p) \in Menus /\ Top(p) # "menu"
  BY DEF Menus, Entries
<1>2. s \in Seq(Frame) /\ s # <<>> /\ Shape(t) /\ t # <<>> /\ Head(t) \in Under(Top(p))
  BY <1>1, InMenus
<1>3. "listed" \in Frame /\ stack' = [stack EXCEPT ![p] = <<"listed">> \o SubSeq(s, 1 + 1, Len(s))]
  BY DEF Unwind, Frame, Entries
<1>4. stack' = [stack EXCEPT ![p] = r]
  BY <1>2, <1>3, Unwound
<1>5. Fits("listed", t)
  BY <1>2, <1>3 DEF Fits, Under, Submenus, Lines
<1>6. Shape(r) /\ r # <<>> /\ Head(r) = "listed"
  BY <1>2, <1>5, Pushed
<1>7. Head(r) \in Menus /\ ~OverData(r)
  BY <1>6 DEF Menus, Entries, OverData
<1> HIDE DEF r
<1> QED BY <1>1, <1>4, <1>6, <1>7, MenuStep

LEMMA ConfigScr == ASSUME ScrInv, NEW p \in CPU, Config(p) PROVE ScrInv'
<1>1. CASE Menu(p)
  BY <1>1, MenuScr
<1>2. CASE Data(p) \/ ShownSpd(p)
  BY <1>2, DataScr
<1>3. CASE TestMenu(p)
  <2>1. Top(p) = "tests" /\ UNCHANGED <<case, screen, save, save2, printed>>
    BY <1>3 DEF TestMenu, boot, popups, report
  <2>2. \/ UNCHANGED stack \/ Return(p)
        \/ \E f \in {"number", "list"} : Call(p, <<"keyup", f>>)
    BY <1>3 DEF TestMenu
  <2>3. Top(p) \in Submenus /\ \A f \in {"number", "list"} : f \in Entries /\ Top(p) \in Under(f)
    BY <2>1 DEF Submenus, Entries, Under
  <2> QED BY <2>1, <2>2, <2>3, SubmenuScr
<1>4. CASE Type(p)
  <2>1. Top(p) \in Entries /\ UNCHANGED <<case, stack, screen, save, save2, printed>>
    BY <1>4 DEF Type, Entries, boot, calls, popups, report
  <2> QED BY <2>1, SubmenuScr
<1>5. CASE SelectTest(p)
  <2>1. Top(p) \in Entries /\ UNCHANGED <<case, screen, save, save2, printed>>
    BY <1>5 DEF SelectTest, Entered, Entries, boot, popups, report
  <2>2. Unwind(p, 2, <<>>) \/ Return(p)
    BY <1>5 DEF SelectTest
  <2> QED BY <2>1, <2>2, SubmenuScr
<1>6. CASE List(p)
  <2>1. Top(p) = "list" /\ UNCHANGED <<case, screen, save, save2, printed>>
    BY <1>6 DEF List, boot, popups, report
  <2>2. Unwind(p, 1, <<"listed">>) \/ UNCHANGED stack
    BY <1>6 DEF List
  <2>3. Top(p) \in Entries
    BY <2>1 DEF Entries
  <2> QED BY <2>1, <2>2, <2>3, ListScr, SubmenuScr
<1>7. CASE SelectList(p)
  <2>1. Top(p) \in Entries /\ UNCHANGED <<case, screen, save, save2, printed>>
    BY <1>7 DEF SelectList, Entries, boot, popups, report
  <2>2. Unwind(p, 2, <<>>)
    BY <1>7 DEF SelectList
  <2> QED BY <2>1, <2>2, SubmenuScr
<1>8. CASE SetLimits(p)
  <2>1. UNCHANGED <<case, screen, save, save2, printed>>
    BY <1>8 DEF SetLimits, boot, popups, report
  <2>2. CASE (SetLower(p) \/ SetUpper(p)) /\ Unwind(p, 2, <<>>)
    <3>1. Top(p) \in Entries
      BY <2>2 DEF SetLower, SetUpper, Entered, Entries
    <3> QED BY <2>1, <2>2, <3>1, SubmenuScr
  <2>3. CASE AllMemory(p) /\ Return(p)
    <3>1. Top(p) \in Submenus
      BY <2>3 DEF AllMemory, Submenus
    <3> QED BY <2>1, <2>3, <3>1, SubmenuScr
  <2> QED BY <1>8, <2>2, <2>3 DEF SetLimits
<1>9. CASE RangeMenu(p)
  <2>1. Top(p) = "range" /\ UNCHANGED <<case, screen, save, save2, printed>>
    BY <1>9 DEF RangeMenu, boot, popups, report
  <2>2. \/ UNCHANGED stack \/ Return(p)
        \/ \E f \in {"lower", "upper"} : Call(p, <<"keyup", f>>)
    BY <1>9 DEF RangeMenu
  <2>3. Top(p) \in Submenus /\ \A f \in {"lower", "upper"} : f \in Entries /\ Top(p) \in Under(f)
    BY <2>1 DEF Submenus, Entries, Under
  <2> QED BY <2>1, <2>2, <2>3, SubmenuScr
<1>10. CASE ErrorMenu(p) \/ CpuMenu(p)
  <2>1. Top(p) \in Submenus /\ UNCHANGED <<case, screen, save, save2, printed>>
    BY <1>10 DEF ErrorMenu, CpuMenu, Submenus, boot, popups, report
  <2>2. UNCHANGED stack \/ Return(p)
    BY <1>10 DEF ErrorMenu, CpuMenu
  <2> QED BY <2>1, <2>2, SubmenuScr
<1> QED BY <1>1, <1>2, <1>3, <1>4, <1>5, <1>6, <1>7, <1>8, <1>9, <1>10 DEF Config
-----------------------------------------------------------------------------
(* In a test or in the printing of a line. *)
LEMMA InLines ==
  ASSUME ScrInv, NEW p \in CPU, Top(p) \in Lines \cup {"test"}
  PROVE  LET s == stack[p]
         IN /\ s \in Seq(Frame) /\ Shape(s) /\ AllLines(s) /\ screen = Shown
            /\ s = <<>> <=> Top(p) = "test"
            /\ s # <<>> => Head(s) = Top(p) /\ Shape(Tail(s)) /\ Tail(s) \in Seq(Frame) /\ AllLines(Tail(s))
<1> DEFINE s == stack[p]
<1>1. s \in Seq(Frame) /\ Shape(s)
  BY DEF ScrInv, Stacks
<1>2. CASE s = <<>>
  <2>1. Top(p) = "test" /\ AllLines(s)
    BY <1>2 DEF Top, AllLines
  <2> QED BY <1>1, <1>2, <2>1 DEF ScrInv, NoMenus, OneMenu, Covered
<1>3. CASE s # <<>>
  <2>1. Head(s) = Top(p) /\ Head(s) \in Frame
    BY <1>1, <1>3, Popped DEF Top
  <2>2. Top(p) # "test"
    BY <2>1 DEF Frame, Lines, Submenus, Entries
  <2>3. AllLines(s) /\ Shape(Tail(s)) /\ AllLines(Tail(s))
    BY <1>1, <1>3, <2>1, <2>2, Popped
  <2> HIDE DEF s
  <2>4. screen = Shown
    BY <2>3 DEF ScrInv, NoMenus, OneMenu, Covered, s
  <2> QED BY <1>1, <1>3, <2>1, <2>2, <2>3, <2>4 DEF s, Shape
<1> QED BY <1>2, <1>3

\* The lines go on, and the screen shows all that have been printed.
LEMMA LineStep ==
  ASSUME ScrInv, NEW p \in CPU, NEW r, Shape(r), AllLines(r), UNCHANGED case,
         stack' = [stack EXCEPT ![p] = r], NoMenus => held' # "c", screen' = Shown'
  PROVE  ScrInv'
<1>1. r = <<>> \/ Head(r) \in Lines
  BY Popped
<1> QED BY <1>1, StackStep

\* A line that is put on lines.
LEMMA LinePushed ==
  ASSUME NEW t, Shape(t), AllLines(t), NEW f \in Lines
  PROVE  Shape(Push(f, t)) /\ AllLines(Push(f, t)) /\ Push(f, t) # <<>> /\ f \in Frame /\ Push(f, t) \in Seq(Frame)
<1>1. Fits(f, t) /\ f \in Frame
  BY DEF Fits, Frame, Lines, Submenus, Entries
<1>2. Shape(Push(f, t)) /\ AllLines(Push(f, t)) /\ Push(f, t) # <<>>
  BY <1>1, Pushed
<1> QED BY <1>1, <1>2 DEF Shape

\* check_input, from a test or a line: whatever the key, the lines below it are
\* there when the menu is left.
LEMMA InputScr ==
  ASSUME ScrInv, NEW p \in CPU, NEW e \in Event, NEW n, NEW fs, NEW t, NEW u,
         screen = Shown, Shape(t), AllLines(t), Shape(u), AllLines(u), UNCHANGED <<case, printed>>,
         <<"halted">> \o SubSeq(stack[p], n + 1, Len(stack[p])) = Push("halted", t),
         fs \o SubSeq(stack[p], n + 1, Len(stack[p])) = u,
         (<<"keyup", "menu">> \o fs) \o SubSeq(stack[p], n + 1, Len(stack[p])) = Push("keyup", Push("menu", u)),
         check_input(p, e, n, fs)
  PROVE  ScrInv'
<1> DEFINE key == IF e = "REL" THEN held ELSE e
<1>1. NoMenus => held' # "c"
  BY KeyHeld DEF check_input
<1>2. CASE key = "ESC" /\ Unwind(p, n, <<"halted">>) /\ UNCHANGED <<slock, prt, popups>>
  <2>1. stack' = [stack EXCEPT ![p] = Push("halted", t)]
    BY <1>2 DEF Unwind
  <2>2. Fits("halted", t)
    BY DEF Fits, Frame, Lines, Submenus, Entries
  <2>3. Shape(Push("halted", t)) /\ Head(Push("halted", t)) = "halted" /\ ~AllLines(Push("halted", t))
    BY <2>2, Pushed DEF Lines
  <2>4. screen' = Shown'
    BY <1>2 DEF popups, Shown
  <2> QED BY <1>1, <2>1, <2>3, <2>4, StackStep
<1>3. CASE key = "c" /\ popup /\ Unwind(p, n, <<"keyup", "menu">> \o fs)
  <2> DEFINE r == Push("keyup", Push("menu", u))
  <2>1. stack' = [stack EXCEPT ![p] = r]
    BY <1>3 DEF Unwind
  <2>2. Fits("menu", u)
    BY DEF Fits, Frame, Lines, Submenus, Entries
  <2>3. Shape(Push("menu", u)) /\ Push("menu", u) # <<>> /\ Head(Push("menu", u)) = "menu"
    BY <2>2, Pushed
  <2>4. Fits("keyup", Push("menu", u))
    BY <2>3 DEF Fits, Under, Frame, Lines, Submenus, Entries
  <2>5. Shape(r) /\ Head(r) = "keyup" /\ Tail(r) = Push("menu", u) /\ ~AllLines(r)
    BY <2>3, <2>4, Pushed DEF Lines
  <2>6. ~OverData(r)
    BY <2>3, <2>5 DEF OverData
  <2>7. save' = Shown'
    BY <1>3 DEF popup, Shown
  <2>8. ~NoMenus
    BY <1>3 DEF NoMenus, Event
  <2> HIDE DEF r
  <2> QED BY <1>1, <2>1, <2>5, <2>6, <2>7, <2>8, StackStep
<1>4. CASE Unwind(p, n, fs) /\ UNCHANGED popups
  <2>1. stack' = [stack EXCEPT ![p] = u] /\ screen' = Shown'
    BY <1>4 DEF Unwind, popups, Shown
  <2> QED BY <1>1, <2>1, LineStep
<1> QED BY <1>2, <1>3, <1>4 DEF check_input

LEMMA PollScr == ASSUME ScrInv, NEW p \in CPU, Poll(p) PROVE ScrInv'
<1> DEFINE s == stack[p]
<1>1. PICK e \in Event : check_input(p, e, 0, <<>>)
  BY DEF Poll
<1>2. Top(p) \in Lines \cup {"test"} /\ UNCHANGED <<case, printed>>
  BY DEF Poll, Lines, boot, report
<1>3. s \in Seq(Frame) /\ Shape(s) /\ AllLines(s) /\ screen = Shown
  BY <1>2, InLines
<1>4. "halted" \in Frame /\ "keyup" \in Frame /\ "menu" \in Frame
  BY DEF Frame
<1>5. /\ <<"halted">> \o SubSeq(s, 0 + 1, Len(s)) = Push("halted", s)
      /\ <<>> \o SubSeq(s, 0 + 1, Len(s)) = s
      /\ <<"keyup", "menu">> \o SubSeq(s, 0 + 1, Len(s)) = Push("keyup", Push("menu", s))
  BY <1>3, <1>4, Unwound
<1>6. <<"keyup", "menu">> \o <<>> = <<"keyup", "menu">>
  <2>1. <<"keyup", "menu">> \in Seq(Frame)
    BY <1>4
  <2> QED BY <2>1, ConcatEmptySeq
<1> QED BY <1>1, <1>2, <1>3, <1>5, <1>6, InputScr

\* The calls of check_input are followed by what comes after it.
LEMMA AndThen ==
  ASSUME NEW a \in Frame, NEW b \in Frame, NEW c \in Frame
  PROVE  <<a, b>> \o <<c>> = <<a, b, c>>
<1>1. /\ <<a, b>> \in Seq(Frame) /\ <<c>> \in Seq(Frame) /\ <<a, b, c>> \in Seq(Frame)
      /\ Len(<<a, b>>) = 2 /\ Len(<<c>>) = 1 /\ Len(<<a, b, c>>) = 3
      /\ <<a, b>>[1] = a /\ <<a, b>>[2] = b /\ <<c>>[1] = c
      /\ <<a, b, c>>[1] = a /\ <<a, b, c>>[2] = b /\ <<a, b, c>>[3] = c
  OBVIOUS
<1>2. <<a, b>> \o <<c>> \in Seq(Frame) /\ Len(<<a, b>> \o <<c>>) = 3
      /\ \A i \in 1 .. 3 : (<<a, b>> \o <<c>>)[i] = IF i <= 2 THEN <<a, b>>[i] ELSE <<c>>[i - 2]
  BY <1>1, ConcatProperties
<1>3. \A i \in 1 .. 3 : (<<a, b>> \o <<c>>)[i] = <<a, b, c>>[i]
  BY <1>1, <1>2
<1> QED BY <1>1, <1>2, <1>3, SeqEqual

LEMMA LineInputScr == ASSUME ScrInv, NEW p \in CPU, LineInput(p) PROVE ScrInv'
<1> DEFINE s == stack[p]
           t == Tail(s)
           f == IF Top(p) = "line" THEN "scroll" ELSE "badram"
           u == Push(f, t)
<1>1. Top(p) \in {"line", "patn"} /\ UNCHANGED <<case, printed>> /\ f \in Lines
  BY DEF LineInput, Lines, boot, report
<1>2. /\ s \in Seq(Frame) /\ s # <<>> /\ Shape(t) /\ AllLines(t) /\ screen = Shown
  BY <1>1, InLines DEF Lines
<1>3. Shape(u) /\ AllLines(u) /\ f \in Frame
  BY <1>1, <1>2, LinePushed
<1>4. "halted" \in Frame /\ "keyup" \in Frame /\ "menu" \in Frame
  BY DEF Frame
<1>5. <<"keyup", "menu">> \o <<f>> = <<"keyup", "menu", f>>
  BY <1>3, <1>4, AndThen
<1>6. /\ <<"halted">> \o SubSeq(s, 1 + 1, Len(s)) = Push("halted", t)
      /\ <<f>> \o SubSeq(s, 1 + 1, Len(s)) = u
      /\ <<"keyup", "menu", f>> \o SubSeq(s, 1 + 1, Len(s)) = Push("keyup", Push("menu", u))
  <2> HIDE DEF f
  <2>1. <<"halted">> \o SubSeq(s, 1 + 1, Len(s)) = Push("halted", t)
    BY <1>2, <1>4, Unwound
  <2>2. <<f>> \o SubSeq(s, 1 + 1, Len(s)) = u
    BY <1>2, <1>3, Unwound
  <2>3. <<"keyup", "menu", f>> \o SubSeq(s, 1 + 1, Len(s)) = Push("keyup", Push("menu", u))
    <3>1. SubSeq(s, 1 + 1, Len(s)) = t /\ t \in Seq(Frame)
      <4>1. t = SubSeq(s, 2, Len(s)) /\ t \in Seq(Frame)
        BY <1>2, TailIsSubSeq, HeadTailProperties
      <4> QED BY <4>1
    <3>2. <<"keyup", "menu", f>> \o t = Push("keyup", Push("menu", Push(f, t)))
      <4> HIDE DEF t
      <4>1. Calls(t, "keyup", "menu", f)
        BY <1>3, <1>4, <3>1, Called
      <4> QED BY <4>1 DEF Calls
    <3> QED BY <3>1, <3>2
  <2> QED BY <2>1, <2>2, <2>3
<1>7. ASSUME NEW e \in Event, check_input(p, e, 1, <<f>>)
      PROVE  ScrInv'
  <2> HIDE DEF f, t, u, s
  <2> QED BY <1>1, <1>2, <1>3, <1>5, <1>6, <1>7, InputScr DEF s
<1>8. CASE Unwind(p, 1, <<f>>) /\ UNCHANGED <<held, slock, prt, popups>>
  <2>1. stack' = [stack EXCEPT ![p] = u]
    BY <1>6, <1>8 DEF Unwind
  <2>2. screen' = Shown' /\ (NoMenus => held' # "c")
    BY <1>1, <1>2, <1>8 DEF popups, Shown, NoMenus
  <2> HIDE DEF u
  <2> QED BY <1>1, <1>3, <2>1, <2>2, LineStep
<1> QED BY <1>7, <1>8 DEF LineInput

\* An error calls the printing of its line, and the unlocking after it.
LEMMA ErrorScr == ASSUME ScrInv, NEW p \in CPU, Error(p) PROVE ScrInv'
<1> DEFINE s == stack[p]
<1>1. Top(p) = "test" /\ UNCHANGED <<case, held, screen, save, save2, printed>>
  BY DEF Error, boot, typing, popups
<1>2. s \in Seq(Frame) /\ Shape(s) /\ AllLines(s) /\ screen = Shown
  BY <1>1, InLines
<1>3. CASE UNCHANGED stack
  BY <1>1, <1>3, QuietStep DEF NoMenus
<1>4. ASSUME NEW f \in {"line", "patn"}, Call(p, <<f, "unlock">>)
      PROVE  ScrInv'
  <2> DEFINE r == Push(f, Push("unlock", s))
  <2>1. f \in Lines /\ "unlock" \in Lines
    BY DEF Lines
  <2>2. Shape(Push("unlock", s)) /\ AllLines(Push("unlock", s)) /\ "unlock" \in Frame
    BY <1>2, <2>1, LinePushed
  <2>3. Shape(r) /\ AllLines(r) /\ f \in Frame
    BY <2>1, <2>2, LinePushed
  <2>4. <<f, "unlock">> \o SubSeq(s, 0 + 1, Len(s)) = r
    BY <1>2, <2>2, <2>3, Unwound
  <2>5. stack' = [stack EXCEPT ![p] = r]
    BY <1>4, <2>4 DEF Call, Unwind
  <2>6. screen' = Shown' /\ (NoMenus => held' # "c")
    BY <1>1, <1>2 DEF Shown, NoMenus
  <2> HIDE DEF r
  <2> QED BY <1>1, <2>3, <2>5, <2>6, LineStep
<1>5. UNCHANGED stack \/ \E f \in {"line", "patn"} : Call(p, <<f, "unlock">>)
  BY DEF Error, AddressError, SummaryError, PatternError, CountError
<1> QED BY <1>3, <1>4, <1>5

\* A line is printed on the screen of the tests, and counted.
LEMMA ScrollScr == ASSUME ScrInv, NEW p \in CPU, scroll(p) PROVE ScrInv'
<1> DEFINE s == stack[p]
           t == Tail(s)
<1>1. Top(p) \in {"scroll", "locked"} /\ UNCHANGED <<case, held, save, save2>>
  BY DEF scroll, boot, typing
<1>2. s \in Seq(Frame) /\ s # <<>> /\ Shape(t) /\ AllLines(t) /\ screen = Shown
  BY <1>1, InLines DEF Lines
<1>3. "locked" \in Lines /\ "locked" \in Frame
  BY DEF Lines, Frame
<1>4. /\ <<>> \o SubSeq(s, 1 + 1, Len(s)) = t
      /\ <<"locked">> \o SubSeq(s, 1 + 1, Len(s)) = Push("locked", t)
  BY <1>2, <1>3, Unwound
<1>5. Shape(Push("locked", t)) /\ AllLines(Push("locked", t))
  BY <1>2, <1>3, LinePushed
<1>6. NoMenus => held' # "c"
  BY <1>1 DEF NoMenus
<1>7. ASSUME NEW l, PrintLine(p, l)
      PROVE  ScrInv'
  <2>1. stack' = [stack EXCEPT ![p] = t]
    BY <1>4, <1>7 DEF PrintLine, Return, Unwind
  <2>2. screen' = Shown'
    BY <1>2, <1>7 DEF PrintLine, Shown
  <2> HIDE DEF t
  <2> QED BY <1>1, <1>2, <1>6, <2>1, <2>2, LineStep
<1>8. CASE Unwind(p, 1, <<"locked">>) /\ UNCHANGED <<msg_line, printed, screen, erri>>
  <2>1. stack' = [stack EXCEPT ![p] = Push("locked", t)]
    BY <1>4, <1>8 DEF Unwind
  <2>2. screen' = Shown'
    BY <1>2, <1>8 DEF Shown
  <2> QED BY <1>1, <1>5, <1>6, <2>1, <2>2, LineStep
<1> QED BY <1>7, <1>8 DEF scroll

LEMMA DoneScr == ASSUME ScrInv, NEW p \in CPU, Done(p) PROVE ScrInv'
<1> DEFINE s == stack[p]
           t == Tail(s)
<1>1. Top(p) \in {"badram", "unlock"} /\ UNCHANGED <<case, held, screen, printed>>
  BY DEF Done, boot, typing, popups, report
<1>2. s \in Seq(Frame) /\ s # <<>> /\ Shape(t) /\ AllLines(t) /\ screen = Shown
  BY <1>1, InLines DEF Lines
<1>3. "scroll" \in Lines /\ "scroll" \in Frame
  BY DEF Lines, Frame
<1>4. /\ <<>> \o SubSeq(s, 1 + 1, Len(s)) = t
      /\ <<"scroll">> \o SubSeq(s, 1 + 1, Len(s)) = Push("scroll", t)
  BY <1>2, <1>3, Unwound
<1>5. Shape(Push("scroll", t)) /\ AllLines(Push("scroll", t))
  BY <1>2, <1>3, LinePushed
<1>6. screen' = Shown' /\ (NoMenus => held' # "c")
  BY <1>1, <1>2 DEF Shown, NoMenus
<1>7. stack' = [stack EXCEPT ![p] = t] \/ stack' = [stack EXCEPT ![p] = Push("scroll", t)]
  <2>1. CASE Unwind(p, 1, IF patns THEN <<"scroll">> ELSE <<>>)
    BY <1>4, <2>1 DEF Unwind
  <2>2. CASE Return(p)
    BY <1>4, <2>2 DEF Return, Unwind
  <2> QED BY <2>1, <2>2 DEF Done
<1> HIDE DEF t
<1> QED BY <1>1, <1>2, <1>5, <1>6, <1>7, LineStep
-----------------------------------------------------------------------------
\* Every step keeps what is behind the menu.
LEMMA NextScrInv == ScrInv /\ [Next]_vars => ScrInv'
<1> SUFFICES ASSUME ScrInv, [Next]_vars PROVE ScrInv'
  OBVIOUS
<1>1. CASE UNCHANGED vars
  BY <1>1, QuietStep DEF vars, boot, calls, typing, popups, report, NoMenus
<1>2. CASE Parse
  BY <1>2, QuietStep DEF Parse, calls, typing, popups, report, NoMenus
<1>3. CASE set_defaults
  BY <1>3, QuietStep DEF set_defaults, calls, typing, popups, NoMenus
<1>4. CASE Window \/ House
  BY <1>4, QuietStep DEF Window, House, boot, calls, typing, popups, report, NoMenus
<1>5. ASSUME NEW p \in CPU, Poll(p) \/ wait_keyup(p) PROVE ScrInv'
  BY <1>5, PollScr, KeyupScr
<1>6. ASSUME NEW p \in CPU, Config(p) PROVE ScrInv'
  BY <1>6, ConfigScr
<1>7. ASSUME NEW p \in CPU, Error(p) PROVE ScrInv'
  BY <1>7, ErrorScr
<1>8. ASSUME NEW p \in CPU, LineInput(p) \/ Done(p) PROVE ScrInv'
  BY <1>8, LineInputScr, DoneScr
<1>9. ASSUME NEW p \in CPU, scroll(p) PROVE ScrInv'
  BY <1>9, ScrollScr
<1> QED BY <1>1, <1>2, <1>3, <1>4, <1>5, <1>6, <1>7, <1>8, <1>9 DEF Next

\* Out of the menu the invariant is the property: a stack without menus is one of
\* lines.
LEMMA ScrInvRestored == ScrInv => ScreenRestored
<1> SUFFICES ASSUME ScrInv, \A p \in CPU : ~InMenu(p) PROVE screen = Shown
  BY DEF ScreenRestored, Shown
<1>1. CASE NoMenus
  BY <1>1 DEF NoMenus
<1>2. CASE OneMenu
  <2>1. PICK p \in CPU : Covered(stack[p]) /\ stack[p] \in Seq(Frame)
    BY <1>2 DEF OneMenu, ScrInv, Stacks
  <2>2. DOMAIN stack[p] = 1 .. Len(stack[p])
    BY <2>1
  <2>3. AllLines(stack[p])
    BY <2>2 DEF InMenu, AllLines, Lines
  <2> QED BY <2>1, <2>3 DEF Covered
<1> QED BY <1>1, <1>2 DEF ScrInv

\* For any user of the menu who is alone at the keyboard, and for any number of
\* CPUs whose user only locks the scrolling: whenever no menu is open, the screen
\* shows the tests with every line that has been printed, whichever popups and
\* data were looked at, and from wherever in the printing of an error the menu
\* was opened (get_config, popup and pop2up; check_input and scroll).
THEOREM ScreenRestoredHolds ==
  ASSUME OneUser
  PROVE  Spec => []ScreenRestored
<1>1. Init => ScrInv
  BY InitScrInv
<1>2. ScrInv /\ [Next]_vars => ScrInv'
  BY NextScrInv
<1>3. ScrInv => ScreenRestored
  BY ScrInvRestored
<1> QED BY <1>1, <1>2, <1>3, PTL DEF Spec
-----------------------------------------------------------------------------
(***************************************************************************)
(* The limits of the address range (LimitsHold).  adj_mem and              *)
(* simple_strtoul are folds: what a fold gives is proved for sets of       *)
(* positions, by the least number of them for which it would fail.         *)
(***************************************************************************)
\* A set of numbers has a least one.
LEMMA LeastOf ==
  ASSUME NEW S \in SUBSET Nat, S # {}
  PROVE  \E n \in S : \A m \in S : n <= m
<1> DEFINE R == OpToRel(<, Nat)
<1>1. IsWellFoundedOn(R, Nat)
  BY NatLessThanWellFounded
<1>2. \A x, y \in Nat : <<y, x>> \in R <=> y < x
  BY DEF OpToRel
<1> HIDE DEF R
<1>3. PICK n \in S : \A y \in S : ~ (<<y, n>> \in R)
  BY <1>1, WFMin
<1>4. \A y \in S : ~ (y < n)
  BY <1>2, <1>3
<1>5. \A y \in S : n <= y
  BY <1>4
<1> QED
  BY <1>5

\* The greatest number of a set of positions.
LEMMA MaxIn ==
  ASSUME NEW n \in Nat, NEW S \in SUBSET (1 .. n), S # {}
  PROVE  Max(S) \in S /\ \A x \in S : Max(S) >= x
<1> DEFINE T == {n - x : x \in S}
<1>1. T \in SUBSET Nat /\ T # {}
  <2>1. \A x \in S : n - x \in Nat
    OBVIOUS
  <2> QED
    BY <2>1
<1>2. PICK k \in T : \A m \in T : k <= m
  BY <1>1, LeastOf
<1>3. PICK x \in S : k = n - x
  BY <1>2
<1>4. \A y \in S : x >= y
  <2> SUFFICES ASSUME NEW y \in S PROVE x >= y
    OBVIOUS
  <2>1. k <= n - y
    BY <1>2
  <2> QED
    BY <1>3, <2>1
<1> QED
  BY <1>4 DEF Max

\* What holds of no position, and of a set of them if it holds without the last one,
\* holds of all sets of positions: the induction along a fold.
LEMMA FoldInduction ==
  ASSUME NEW n \in Nat, NEW G,
         {} \in G,
         \A s \in SUBSET (1 .. n) : s # {} /\ s \ {Max(s)} \in G => s \in G
  PROVE  \A s \in SUBSET (1 .. n) : s \in G
<1> DEFINE Bad == {k \in 0 .. n : \E s \in SUBSET (1 .. k) : s \notin G}
<1>1. ASSUME Bad # {} PROVE FALSE
  <2>1. Bad \in SUBSET Nat
    OBVIOUS
  <2>2. PICK k \in Bad : \A m \in Bad : k <= m
    BY <1>1, <2>1, LeastOf
  <2>3. PICK s \in SUBSET (1 .. k) : s \notin G
    BY <2>2
  <2>4. s # {} /\ k \in 0 .. n /\ k \in Nat
    BY <2>2, <2>3
  <2>5. PICK x \in s : TRUE
    BY <2>4
  <2>6. x \in 1 .. k /\ k \in 1 .. n /\ k - 1 \in 0 .. n
    BY <2>3, <2>4, <2>5
  <2>7. Max(s) \in s /\ \A y \in s : Max(s) >= y
    BY <2>3, <2>4, MaxIn
  <2>8. s \ {Max(s)} \in SUBSET (1 .. k - 1) /\ s \in SUBSET (1 .. n)
    <3>1. ASSUME NEW y \in s, y # Max(s) PROVE y \in 1 .. k - 1
      <4>1. y \in 1 .. k /\ Max(s) \in 1 .. k /\ y <= Max(s)
        BY <2>3, <2>7
      <4> QED
        BY <2>4, <3>1, <4>1
    <3>2. \A y \in 1 .. k : y \in 1 .. n
      BY <2>6
    <3> QED
      BY <2>3, <3>1, <3>2
  <2>9. k - 1 \notin Bad
    <3>1. \A m \in Bad : k <= m
      BY <2>2
    <3>2. ~ (k <= k - 1)
      BY <2>4
    <3> HIDE DEF Bad
    <3> QED
      BY <3>1, <3>2
  <2>10. s \ {Max(s)} \in G
    BY <2>6, <2>8, <2>9
  <2> QED
    BY <2>3, <2>4, <2>8, <2>10
<1>2. n \notin Bad
  BY <1>1
<1> QED
  BY <1>2

\* f folds h over positions up to n, from b.
FoldsTo(V, b, n, h, f) ==
  /\ f \in [SUBSET (1 .. n) -> V]
  /\ \A s \in SUBSET (1 .. n) : f[s] = IF s = {} THEN b ELSE h[<<f[s \ {Max(s)}], Max(s)>>]

\* A fold over positions has a value, whatever the function h that it repeats.
LEMMA FoldExists ==
  ASSUME NEW V, NEW b \in V, NEW n \in Nat, NEW h \in [V \X (1 .. n) -> V]
  PROVE  \E f : FoldsTo(V, b, n, h, f)
<1> DEFINE Sol(k, f) == /\ f \in [SUBSET (1 .. k) -> V]
                        /\ \A s \in SUBSET (1 .. k) : f[s] = IF s = {} THEN b ELSE h[<<f[s \ {Max(s)}], Max(s)>>]
           Bad == {k \in 0 .. n : ~ \E f : Sol(k, f)}
<1>1. Sol(0, [s \in SUBSET (1 .. 0) |-> b])
  OBVIOUS
<1>2. ASSUME NEW k \in 1 .. n, NEW f, Sol(k - 1, f) PROVE \E g : Sol(k, g)
  <2> DEFINE g == [s \in SUBSET (1 .. k) |-> IF k \in s THEN h[<<f[s \ {k}], k>>] ELSE f[s]]
  <2>1. ASSUME NEW s \in SUBSET (1 .. k), k \in s
        PROVE  /\ Max(s) = k /\ s \ {k} \in SUBSET (1 .. k - 1)
               /\ f[s \ {k}] \in V /\ g[s] \in V
               /\ g[s] = h[<<g[s \ {k}], k>>]
    <3> HIDE DEF g, Sol
    <3>0. k \in Nat /\ s # {}
      BY <2>1
    <3>1. Max(s) \in s /\ \A x \in s : Max(s) >= x
      BY <3>0, MaxIn
    <3>2. Max(s) = k
      <4>1. Max(s) \in 1 .. k /\ Max(s) >= k
        BY <2>1, <3>1
      <4> QED
        BY <3>0, <4>1
    <3> USE DEF g, Sol
    <3>3. s \ {k} \in SUBSET (1 .. k - 1)
      BY <2>1
    <3>4. f[s \ {k}] \in V
      BY <1>2, <3>3
    <3>5. s \ {k} \in SUBSET (1 .. k) /\ g[s \ {k}] = f[s \ {k}]
      OBVIOUS
    <3>6. <<f[s \ {k}], k>> \in V \X (1 .. n)
      BY <3>4
    <3> HIDE DEF Sol
    <3>7. g[s] = h[<<f[s \ {k}], k>>] /\ g[s] \in V
      BY <2>1, <3>6
    <3> QED
      BY <3>2, <3>3, <3>4, <3>5, <3>7
  <2>2. ASSUME NEW s \in SUBSET (1 .. k), k \notin s
        PROVE  /\ s \in SUBSET (1 .. k - 1) /\ g[s] \in V
               /\ g[s] = IF s = {} THEN b ELSE h[<<g[s \ {Max(s)}], Max(s)>>]
    <3>1. s \in SUBSET (1 .. k - 1) /\ g[s] = f[s]
      BY <2>2
    <3>2. s \ {Max(s)} \in SUBSET (1 .. k) /\ g[s \ {Max(s)}] = f[s \ {Max(s)}]
      BY <2>2
    <3> QED
      BY <1>2, <3>1, <3>2
  <2>3. g \in [SUBSET (1 .. k) -> V]
    <3>1. \A s \in SUBSET (1 .. k) : g[s] \in V
      BY <2>1, <2>2
    <3> QED
      BY <3>1
  <2>4. ASSUME NEW s \in SUBSET (1 .. k)
        PROVE  g[s] = IF s = {} THEN b ELSE h[<<g[s \ {Max(s)}], Max(s)>>]
    <3> HIDE DEF g, Sol
    <3>1. CASE k \in s
      BY <2>1, <3>1
    <3>2. CASE k \notin s
      BY <2>2, <3>2
    <3> QED
      BY <3>1, <3>2
  <2> HIDE DEF g
  <2> QED
    BY <2>3, <2>4
<1> HIDE DEF Sol
<1>3. ASSUME Bad # {} PROVE FALSE
  <2>0. Bad \in SUBSET Nat
    OBVIOUS
  <2>1. PICK k \in Bad : \A m \in Bad : k <= m
    BY <1>3, <2>0, LeastOf
  <2>2. k # 0
    BY <1>1, <2>1
  <2>3. k \in 1 .. n /\ k - 1 \in 0 .. n /\ k - 1 \notin Bad
    BY <2>1, <2>2
  <2>4. PICK f : Sol(k - 1, f)
    BY <2>3
  <2> QED
    BY <1>2, <2>1, <2>3, <2>4
<1>4. PICK f : Sol(n, f)
  BY <1>3
<1> QED
  BY <1>4 DEF Sol, FoldsTo
-----------------------------------------------------------------------------
\* A digit has a value.
LEMMA DigitValue ==
  ASSUME NEW d \in 0 .. 15
  PROVE  Value(HexDigits[d + 1]) \in 0 .. 15 /\ HexDigits[d + 1] # NUL
<1>1. \E i \in 0 .. 15 : HexDigits[i + 1] = HexDigits[d + 1]
  OBVIOUS
<1>2. Value(HexDigits[d + 1]) \in 0 .. 15
  BY <1>1 DEF Value
<1>3. d + 1 \in 1 .. 16 /\ \A k \in 1 .. 16 : HexDigits[k] # NUL
  BY DEF HexDigits, NUL
<1> QED
  BY <1>2, <1>3

\* What simple_strtoul returns is a number, wherever the digits of the text end.
LEMMA StrtoulNumber ==
  ASSUME NEW T, NEW cp \in Seq(T), NEW base \in {8, 10, 16}
  PROVE  simple_strtoul(cp, base) \in Nat
<1> DEFINE from == IF base = 16 /\ At(cp, 1) = "0" /\ At(cp, 2) = "x" THEN 3 ELSE 1
           Is(i) == \E d \in 0 .. base - 1 : At(cp, i) = HexDigits[d + 1]
           to == CHOOSE i \in from - 1 .. Len(cp) : (\A k \in from .. i : Is(k)) /\ ~Is(i + 1)
           sub == SubSeq(cp, from, to)
           n == Len(sub)
           it == CHOOSE f : f = [s \in SUBSET DOMAIN sub |->
                                   IF s = {} THEN 0 ELSE f[s \ {Max(s)}] * base + Value(sub[Max(s)])]
<1>1. simple_strtoul(cp, base) = it[DOMAIN sub]
  BY DEF simple_strtoul, FoldLeft, MapThenFoldSet
<1>2. Len(cp) \in Nat /\ DOMAIN cp = 1 .. Len(cp)
  OBVIOUS
<1>3. \A i \in Int : Is(i) => i \in 1 .. Len(cp)
  <2> SUFFICES ASSUME NEW i \in Int, i \notin DOMAIN cp, NEW d \in 0 .. base - 1, At(cp, i) = HexDigits[d + 1]
               PROVE  FALSE
    BY <1>2
  <2>1. At(cp, i) = NUL
    BY DEF At
  <2>2. d \in 0 .. 15
    OBVIOUS
  <2> QED
    BY <2>1, <2>2, DigitValue
<1>4. from \in {1, 3} /\ from - 1 <= Len(cp)
  <2>1. At(cp, 2) = "x" => 2 \in DOMAIN cp
    BY DEF At, NUL
  <2> QED
    BY <1>2, <2>1
<1> HIDE DEF from, Is
<1>5. /\ to \in from - 1 .. Len(cp)
      /\ \A k \in from .. to : Is(k)
  <2> DEFINE Ends == {k \in from .. Len(cp) + 1 : ~Is(k)}
  <2>1. Ends \in SUBSET Nat /\ Len(cp) + 1 \in Ends
    BY <1>2, <1>3, <1>4
  <2>2. PICK e \in Ends : \A k \in Ends : e <= k
    BY <2>1, LeastOf
  <2>3. e \in from .. Len(cp) + 1 /\ ~Is(e)
    BY <2>2
  <2>4. ASSUME NEW k \in from .. e - 1 PROVE Is(k)
    <3>1. k \in from .. Len(cp) + 1 /\ ~ (e <= k)
      BY <1>2, <1>4, <2>3
    <3> QED
      BY <2>2, <3>1
  <2>5. /\ e - 1 \in from - 1 .. Len(cp)
        /\ \A k \in from .. e - 1 : Is(k)
        /\ ~Is(e - 1 + 1)
    BY <1>2, <1>4, <2>3, <2>4
  <2> HIDE DEF Ends
  <2> QED
    BY <2>5
<1> HIDE DEF to
<1>6. /\ n = to - from + 1 /\ n \in Nat /\ DOMAIN sub = 1 .. n
      /\ \A i \in 1 .. n : sub[i] = cp[from + i - 1]
  BY <1>2, <1>4, <1>5
<1>7. ASSUME NEW i \in 1 .. n PROVE Value(sub[i]) \in Nat
  <2>1. from + i - 1 \in from .. to
    BY <1>4, <1>5, <1>6
  <2>2. Is(from + i - 1) /\ from + i - 1 \in 1 .. Len(cp)
    BY <1>2, <1>3, <1>4, <1>5, <2>1
  <2>3. PICK d \in 0 .. base - 1 : At(cp, from + i - 1) = HexDigits[d + 1]
    BY <2>2 DEF Is
  <2>4. d \in 0 .. 15
    OBVIOUS
  <2>5. At(cp, from + i - 1) = cp[from + i - 1]
    BY <1>2, <2>2 DEF At
  <2>6. sub[i] = HexDigits[d + 1]
    BY <1>6, <2>3, <2>5
  <2>7. Value(HexDigits[d + 1]) \in 0 .. 15
    BY <2>4, DigitValue
  <2> QED
    BY <2>6, <2>7
<1> HIDE DEF sub, n
<1>8. it = [s \in SUBSET DOMAIN sub |-> IF s = {} THEN 0 ELSE it[s \ {Max(s)}] * base + Value(sub[Max(s)])]
  <2> DEFINE h == [x \in Nat \X (1 .. n) |-> x[1] * base + Value(sub[x[2]])]
  <2>1. h \in [Nat \X (1 .. n) -> Nat]
    BY <1>7
  <2>2. n \in Nat
    BY <1>6
  <2>3. PICK f : FoldsTo(Nat, 0, n, h, f)
    <3>1. 0 \in Nat
      OBVIOUS
    <3> HIDE DEF h
    <3> QED
      BY <2>1, <2>2, <3>1, FoldExists
  <2>4. ASSUME NEW s \in SUBSET (1 .. n)
        PROVE  f[s] = IF s = {} THEN 0 ELSE f[s \ {Max(s)}] * base + Value(sub[Max(s)])
    <3>1. CASE s = {}
      BY <2>3, <3>1 DEF FoldsTo
    <3>2. CASE s # {}
      <4>1. Max(s) \in 1 .. n
        BY <2>2, <3>2, MaxIn
      <4>2. f[s \ {Max(s)}] \in Nat
        BY <2>3 DEF FoldsTo
      <4>3. h[<<f[s \ {Max(s)}], Max(s)>>] = f[s \ {Max(s)}] * base + Value(sub[Max(s)])
        BY <4>1, <4>2
      <4> HIDE DEF h
      <4> QED
        BY <2>3, <3>2, <4>3 DEF FoldsTo
    <3> QED
      BY <3>1, <3>2
  <2>5. f = [s \in SUBSET DOMAIN sub |-> IF s = {} THEN 0 ELSE f[s \ {Max(s)}] * base + Value(sub[Max(s)])]
    BY <1>6, <2>3, <2>4 DEF FoldsTo
  <2> QED
    BY <2>5
<1> HIDE DEF it
<1>9. \A s \in SUBSET (1 .. n) : it[s] \in Nat
  <2> DEFINE G == {s \in SUBSET (1 .. n) : it[s] \in Nat}
  <2>1. {} \in G
    BY <1>6, <1>8
  <2>2. ASSUME NEW s \in SUBSET (1 .. n), s # {}, s \ {Max(s)} \in G PROVE s \in G
    <3>1. Max(s) \in 1 .. n
      BY <1>6, <2>2, MaxIn
    <3>2. it[s] = it[s \ {Max(s)}] * base + Value(sub[Max(s)])
      BY <1>6, <1>8, <2>2
    <3>3. it[s \ {Max(s)}] \in Nat /\ Value(sub[Max(s)]) \in Nat /\ base \in Nat
      BY <1>7, <2>2, <3>1
    <3>4. \A x, y, z \in Nat : x * y + z \in Nat
      OBVIOUS
    <3>5. it[s] \in Nat
      BY <3>2, <3>3, <3>4
    <3> QED
      BY <2>2, <3>5
  <2>3. n \in Nat
    BY <1>6
  <2>4. \A s \in SUBSET (1 .. n) : s \in G
    <3> HIDE DEF G
    <3> QED
      BY <2>1, <2>2, <2>3, FoldInduction
  <2> QED
    BY <2>4
<1> QED
  BY <1>1, <1>6, <1>9 DEF it

\* Powers of two are numbers.
LEMMA PowerNumber ==
  ASSUME NEW n \in Nat
  PROVE  2 ^ n \in Nat \ {0}
<1>1. IsFiniteSet(1 .. n) /\ Cardinality(1 .. n) = n
  BY FS_Interval
<1>2. Cardinality(SUBSET (1 .. n)) = 2 ^ n /\ IsFiniteSet(SUBSET (1 .. n))
  BY <1>1, FS_SUBSET
<1>3. SUBSET (1 .. n) # {}
  OBVIOUS
<1> QED
  BY <1>2, <1>3, FS_CardinalityType, FS_EmptySet

\* What getval returns is a number, with or without a unit at the end.
LEMMA GetvalNumber ==
  ASSUME NEW T, NEW text \in Seq(T)
  PROVE  getval(text, 12) \in Int
<1> DEFINE shift == SuffixShift(Last(text)) - 12
           val == simple_strtoul(text, BaseOf(text))
<1>1. val \in Nat
  <2>1. BaseOf(text) \in {8, 10, 16}
    BY DEF BaseOf
  <2> QED
    BY <2>1, StrtoulNumber
<1>2. SuffixShift(Last(text)) \in Nat
  BY DEF SuffixShift
<1> HIDE DEF val
<1>3. shift \in Int /\ (shift > 0 => 2 ^ shift \in Nat) /\ (~ (shift > 0) => 2 ^ (-shift) \in Nat)
  <2>1. shift \in Int /\ (shift > 0 => shift \in Nat) /\ (~ (shift > 0) => -shift \in Nat)
    BY <1>2
  <2> HIDE DEF shift
  <2> QED
    BY <2>1, PowerNumber
<1>4. ~ (shift > 0) => 2 ^ (-shift) # 0
  <2>1. shift \in Int /\ (~ (shift > 0) => -shift \in Nat)
    BY <1>2
  <2> HIDE DEF shift
  <2> QED
    BY <2>1, PowerNumber
<1> HIDE DEF shift
<1>5. getval(text, 12) = IF shift > 0 THEN val * 2 ^ shift ELSE val \div 2 ^ (-shift)
  BY DEF getval, shift, val
<1> QED
  BY <1>1, <1>3, <1>4, <1>5

-----------------------------------------------------------------------------
\* The memory map is in order, its entries do not meet, and it is not empty: what
\* mem_size leaves in v->pmap (MapExact of Memory).
MapSorted ==
  /\ Map \in Seq([start : Nat, end : Nat]) /\ Map # <<>>
  /\ \A i, j \in DOMAIN Map : i < j => Map[i].end <= Map[j].start

\* The pages between two limits that are in entries of the map, those of s alone.
PagesIn(s, lo, up) ==
  {g \in 0 .. Map[Len(Map)].end : lo <= g /\ g < up /\ \E i \in s : Map[i].start <= g /\ g < Map[i].end}

LEMMA MapFacts ==
  ASSUME MapSorted
  PROVE  /\ Len(Map) \in Nat \ {0} /\ DOMAIN Map = 1 .. Len(Map)
         /\ \A i \in DOMAIN Map : /\ Map[i].start \in Nat /\ Map[i].end \in Nat
                                  /\ Map[i].start < Map[i].end /\ Map[i].end <= Map[Len(Map)].end
<1>1. Len(Map) \in Nat \ {0} /\ DOMAIN Map = 1 .. Len(Map)
  BY DEF MapSorted
<1>2. \A i \in DOMAIN Map : Map[i].start \in Nat /\ Map[i].end \in Nat /\ Map[i].start < Map[i].end
  <2> SUFFICES ASSUME NEW i \in DOMAIN Map
               PROVE  Map[i].start \in Nat /\ Map[i].end \in Nat /\ Map[i].start < Map[i].end
    OBVIOUS
  <2>1. Map[i] \in [start : Nat, end : Nat]
    BY <1>1, ElementOfSeq DEF MapSorted
  <2>2. Map[i].start \in Nat /\ Map[i].end \in Nat
    BY <2>1
  <2> QED
    BY <2>2, MapAssumption
<1>3. ASSUME NEW i \in DOMAIN Map PROVE Map[i].end <= Map[Len(Map)].end
  <2>1. CASE i = Len(Map)
    BY <1>2, <2>1
  <2>2. CASE i # Len(Map)
    <3>1. i < Len(Map) /\ Len(Map) \in DOMAIN Map
      BY <1>1, <2>2
    <3>2. Map[i].end <= Map[Len(Map)].start
      BY <3>1 DEF MapSorted
    <3> QED
      BY <1>2, <3>1, <3>2
  <2> QED
    BY <2>1, <2>2
<1> QED
  BY <1>1, <1>2, <1>3

\* The pages that adj_mem counts for an entry.
PagesOf(s, lo, up) ==
  IF s.start >= lo /\ s.end <= up THEN s.end - s.start
  ELSE IF s.start < lo THEN IF s.end < lo THEN 0
                            ELSE IF s.end > up THEN up - lo ELSE s.end - lo
  ELSE IF s.start > up THEN 0 ELSE up - s.start

\* The five cases of adj_mem count the pages of an entry that are between the limits.
LEMMA EntryPages ==
  ASSUME MapSorted, NEW lo \in Int, NEW up \in Int, lo < up, NEW i \in DOMAIN Map
  PROVE  /\ IsFiniteSet(PagesIn({i}, lo, up))
         /\ Cardinality(PagesIn({i}, lo, up)) = PagesOf(Map[i], lo, up)
<1> DEFINE a == Map[i].start
           b == Map[i].end
           from == IF a < lo THEN lo ELSE a
           to == (IF b > up THEN up ELSE b) - 1
<1>1. a \in Nat /\ b \in Nat /\ a < b /\ b <= Map[Len(Map)].end /\ Map[Len(Map)].end \in Nat
  <2>1. Len(Map) \in DOMAIN Map
    BY MapFacts
  <2> QED
    BY <2>1, MapFacts
<1>2. PagesIn({i}, lo, up) = from .. to
  <2>1. PagesIn({i}, lo, up) = {g \in 0 .. Map[Len(Map)].end : lo <= g /\ g < up /\ a <= g /\ g < b}
    BY DEF PagesIn
  <2>2. a \in Int /\ b \in Int
    BY <1>1
  <2> HIDE DEF a, b
  <2>3. \A g \in Int : g \in from .. to <=> lo <= g /\ g < up /\ a <= g /\ g < b
    BY <2>2
  <2>4. \A g \in Int : lo <= g /\ g < up /\ a <= g /\ g < b => g \in 0 .. Map[Len(Map)].end
    BY <1>1
  <2>5. from .. to \subseteq Int /\ 0 .. Map[Len(Map)].end \subseteq Int
    BY <1>1, <2>2
  <2> HIDE DEF from, to
  <2> QED
    BY <2>1, <2>3, <2>4, <2>5
<1>3. PagesOf(Map[i], lo, up) = IF from > to THEN 0 ELSE to - from + 1
  <2>1. PagesOf(Map[i], lo, up) =
          IF a >= lo /\ b <= up THEN b - a
          ELSE IF a < lo THEN IF b < lo THEN 0 ELSE IF b > up THEN up - lo ELSE b - lo
          ELSE IF a > up THEN 0 ELSE up - a
    BY DEF PagesOf
  <2>2. a \in Int /\ b \in Int /\ a < b
    BY <1>1
  <2> HIDE DEF a, b
  <2>3. CASE a < lo
    BY <2>1, <2>2, <2>3
  <2>4. CASE ~ (a < lo) /\ b <= up
    BY <2>1, <2>2, <2>4
  <2>5. CASE ~ (a < lo) /\ ~ (b <= up)
    BY <2>1, <2>2, <2>5
  <2> QED
    BY <2>3, <2>4, <2>5
<1>4. from \in Int /\ to \in Int
  BY <1>1
<1> HIDE DEF from, to
<1> QED
  BY <1>2, <1>3, <1>4, FS_Interval

\* adj_mem counts the pages of the memory map between the limits, each once.
LEMMA AdjMemCounts ==
  ASSUME MapSorted, NEW lo \in Int, NEW up \in Int, lo < up
  PROVE  adj_mem(lo, up) = Cardinality(PagesIn(DOMAIN Map, lo, up))
<1> DEFINE n == Len(Map)
           f == [s \in SUBSET DOMAIN Map |-> Cardinality(PagesIn(s, lo, up))]
           it == CHOOSE g : g = [s \in SUBSET DOMAIN Map |->
                                   IF s = {} THEN 0 ELSE g[s \ {Max(s)}] + PagesOf(Map[Max(s)], lo, up)]
<1>1. adj_mem(lo, up) = it[DOMAIN Map]
  BY DEF adj_mem, FoldLeft, MapThenFoldSet, PagesOf
<1>2. n \in Nat \ {0} /\ DOMAIN Map = 1 .. n
  BY MapFacts
<1>3. \A s \in SUBSET DOMAIN Map : IsFiniteSet(PagesIn(s, lo, up))
  <2> SUFFICES ASSUME NEW s \in SUBSET DOMAIN Map PROVE IsFiniteSet(PagesIn(s, lo, up))
    OBVIOUS
  <2>1. IsFiniteSet(0 .. Map[Len(Map)].end)
    <3>1. Map[Len(Map)].end \in Int
      BY <1>2, MapFacts
    <3>2. \A e \in Int : IsFiniteSet(0 .. e)
      BY FS_Interval
    <3> QED
      BY <3>1, <3>2
  <2>2. PagesIn(s, lo, up) \subseteq 0 .. Map[Len(Map)].end
    BY DEF PagesIn
  <2> QED
    BY <2>1, <2>2, FS_Subset
<1>4. ASSUME NEW s \in SUBSET DOMAIN Map, s # {}
      PROVE  f[s] = f[s \ {Max(s)}] + PagesOf(Map[Max(s)], lo, up)
  <2> DEFINE m == Max(s)
             A == PagesIn(s \ {m}, lo, up)
             B == PagesIn({m}, lo, up)
  <2>1. m \in s /\ m \in DOMAIN Map /\ \A x \in s : m >= x
    BY <1>2, <1>4, MaxIn
  <2> HIDE DEF m
  <2>2. PagesIn(s, lo, up) = A \cup B
    BY <2>1 DEF PagesIn
  <2>3. A \cap B = {}
    <3> SUFFICES ASSUME NEW g \in A, g \in B PROVE FALSE
      OBVIOUS
    <3>1. g \in Nat /\ Map[m].start <= g
      BY DEF PagesIn
    <3>2. PICK i \in s \ {m} : g < Map[i].end
      BY DEF PagesIn
    <3>3. i \in DOMAIN Map /\ i < m
      BY <1>2, <2>1, <3>2
    <3>4. Map[i].end <= Map[m].start
      BY <2>1, <3>3 DEF MapSorted
    <3> QED
      BY <2>1, <3>1, <3>2, <3>3, <3>4, MapFacts
  <2>4. /\ IsFiniteSet(A) /\ IsFiniteSet(B)
        /\ Cardinality(B) = PagesOf(Map[m], lo, up)
    BY <1>3, <2>1, EntryPages
  <2> HIDE DEF A, B
  <2>5. Cardinality(A \cup B) = Cardinality(A) + Cardinality(B)
    <3>1. Cardinality(A \cup B) = Cardinality(A) + Cardinality(B) - Cardinality(A \cap B)
      BY <2>4, FS_Union
    <3>2. Cardinality(A \cap B) = 0 /\ Cardinality(A) \in Nat /\ Cardinality(B) \in Nat
      BY <2>3, <2>4, FS_EmptySet, FS_CardinalityType
    <3> QED
      BY <3>1, <3>2
  <2>6. f[s] = Cardinality(A \cup B) /\ f[s \ {m}] = Cardinality(A)
    BY <2>2 DEF A
  <2> QED
    BY <2>4, <2>5, <2>6 DEF m
<1>5. f[{}] = 0
  <2>1. PagesIn({}, lo, up) = {}
    BY DEF PagesIn
  <2> QED
    BY <2>1, FS_EmptySet
<1>6. it = [s \in SUBSET DOMAIN Map |-> IF s = {} THEN 0 ELSE it[s \ {Max(s)}] + PagesOf(Map[Max(s)], lo, up)]
  <2>1. ASSUME NEW s \in SUBSET DOMAIN Map
        PROVE  f[s] = IF s = {} THEN 0 ELSE f[s \ {Max(s)}] + PagesOf(Map[Max(s)], lo, up)
    <3> HIDE DEF f
    <3> QED
      BY <1>4, <1>5
  <2>2. f = [s \in SUBSET DOMAIN Map |-> IF s = {} THEN 0 ELSE f[s \ {Max(s)}] + PagesOf(Map[Max(s)], lo, up)]
    <3>1. f = [s \in SUBSET DOMAIN Map |-> f[s]]
      OBVIOUS
    <3> HIDE DEF f
    <3> QED
      BY <2>1, <3>1
  <2> HIDE DEF f
  <2> QED
    BY <2>2
<1> HIDE DEF it, f
<1>7. \A s \in SUBSET (1 .. n) : it[s] = f[s]
  <2> DEFINE G == {s \in SUBSET (1 .. n) : it[s] = f[s]}
  <2>1. {} \in G
    BY <1>2, <1>5, <1>6
  <2>2. ASSUME NEW s \in SUBSET (1 .. n), s # {}, s \ {Max(s)} \in G PROVE s \in G
    <3>1. it[s] = it[s \ {Max(s)}] + PagesOf(Map[Max(s)], lo, up)
      BY <1>2, <1>6, <2>2
    <3>2. f[s] = f[s \ {Max(s)}] + PagesOf(Map[Max(s)], lo, up)
      BY <1>2, <1>4, <2>2
    <3> QED
      BY <2>2, <3>1, <3>2
  <2>3. n \in Nat
    BY <1>2
  <2>4. \A s \in SUBSET (1 .. n) : s \in G
    <3> HIDE DEF G
    <3> QED
      BY <2>1, <2>2, <2>3, FoldInduction
  <2> QED
    BY <2>4
<1> QED
  BY <1>1, <1>2, <1>7 DEF f

-----------------------------------------------------------------------------
\* The limits are never crossed but by an upper limit of 0; the buffer holds keys.
LInv == /\ buf \in Seq(Event)
        /\ lower \in Int /\ upper \in Int
        /\ upper = 0 \/ lower < upper

\* What LimitsHold asks of a step.
LimitsStep ==
  limits' # limits /\ upper' # 0
    => /\ lower' < upper'
       /\ Running => selected_pages' = Cardinality(PagesIn(DOMAIN Map, lower', upper'))

LEMMA SameLimits ==
  ASSUME LInv, UNCHANGED <<case, limits>>, buf' \in Seq(Event)
  PROVE  LInv' /\ LimitsStep
<1>1. Event' = Event
  BY DEF Event
<1>2. lower' = lower /\ upper' = upper /\ limits' = limits
  BY DEF limits
<1> QED
  BY <1>1, <1>2 DEF LInv, LimitsStep

\* A key is put into the buffer, or the last one is taken out.
LEMMA TypedKeys ==
  ASSUME NEW T, NEW text \in Seq(T), NEW e \in T
  PROVE  Typed(text, e) \in Seq(T) /\ (text # <<>> => Front(text) \in Seq(T))
<1>1. text # <<>> => Front(text) \in Seq(T)
  BY DEF Front
<1>2. Append(text, e) \in Seq(T)
  OBVIOUS
<1> QED
  BY <1>1, <1>2 DEF Typed

\* The menu of the address range: both limits are compared with the other one before
\* they are set (config.c:189-231), and the pages are counted afterwards.
LEMMA SetLimitsHolds ==
  ASSUME MapSorted, LInv, NEW p, SetLimits(p)
  PROVE  LInv' /\ LimitsStep
<1> DEFINE page == getval(buf, 12)
<1>1. page \in Int
  BY GetvalNumber DEF LInv
<1> HIDE DEF page
<1>2. case' = case /\ buf' = <<>> /\ selected_pages' = adj_mem(lower', upper')
  BY DEF SetLimits, boot
<1>3. Event' = Event /\ buf' \in Seq(Event')
  BY <1>2 DEF Event
<1>4. lower' \in Int /\ upper' \in Int /\ (upper' = 0 \/ lower' < upper')
  <2>1. CASE SetLower(p)
    <3>1. /\ upper' = upper
          /\ IF LowerOk(page) THEN lower' = page ELSE lower' = lower
      BY <2>1 DEF SetLower, page
    <3> QED
      BY <1>1, <3>1 DEF LowerOk, LInv
  <2>2. CASE SetUpper(p)
    <3>1. /\ lower' = lower
          /\ IF UpperOk(page) THEN upper' = page ELSE upper' = upper
      BY <2>2 DEF SetUpper, page
    <3> QED
      BY <1>1, <3>1 DEF UpperOk, LInv
  <2>3. CASE AllMemory(p)
    <3>1. lower' = 0 /\ upper' = Map[Len(Map)].end
      BY <2>3 DEF AllMemory
    <3>2. Len(Map) \in DOMAIN Map
      BY MapFacts
    <3>3. Map[Len(Map)].end \in Nat /\ Map[Len(Map)].start \in Nat /\ Map[Len(Map)].start < Map[Len(Map)].end
      BY <3>2, MapFacts
    <3> QED
      BY <3>1, <3>3
  <2> QED
    BY <2>1, <2>2, <2>3 DEF SetLimits
<1>5. lower' < upper' => adj_mem(lower', upper') = Cardinality(PagesIn(DOMAIN Map, lower', upper'))
  BY <1>4, AdjMemCounts
<1> QED
  BY <1>2, <1>3, <1>4, <1>5 DEF LInv, LimitsStep

LEMMA DefaultsLimits ==
  ASSUME MapSorted, LInv, set_defaults
  PROVE  LInv' /\ LimitsStep
<1>1. /\ case' = case /\ buf' = buf /\ ~Running
      /\ lower' = Map[1].start /\ upper' = Map[Len(Map)].end
  BY DEF set_defaults, typing, Running
<1>2. 1 \in DOMAIN Map
  BY MapFacts
<1>3. Map[1].start \in Nat /\ Map[1].end \in Nat /\ Map[1].start < Map[1].end /\ Map[1].end <= Map[Len(Map)].end
  BY <1>2, MapFacts
<1>4. Map[Len(Map)].end \in Nat
  <2>1. Len(Map) \in DOMAIN Map
    BY MapFacts
  <2> QED
    BY <2>1, MapFacts
<1>5. Event' = Event
  BY <1>1 DEF Event
<1> QED
  BY <1>1, <1>3, <1>4, <1>5 DEF LInv, LimitsStep

\* Every other step leaves the limits alone, and puts keys into the buffer at most.
LEMMA ConfigLimits ==
  ASSUME MapSorted, LInv, NEW p, Config(p)
  PROVE  LInv' /\ LimitsStep
<1>1. buf \in Seq(Event)
  BY DEF LInv
<1>2. CASE SetLimits(p)
  BY <1>2, SetLimitsHolds
<1>3. CASE Type(p)
  <2>1. PICK e \in Event : buf' = Typed(buf, e)
    BY <1>3 DEF Type
  <2>2. buf' \in Seq(Event) /\ UNCHANGED <<case, limits>>
    BY <1>1, <1>3, <2>1, TypedKeys DEF Type, boot
  <2> QED
    BY <2>2, SameLimits
<1>4. CASE List(p)
  <2>1. PICK e \in Event : buf' = IF e \in ListKeys THEN Append(buf, e)
                                  ELSE IF e = "BS" /\ buf # <<>> THEN Front(buf) ELSE buf
    BY <1>4 DEF List
  <2>2. buf' \in Seq(Event)
    BY <1>1, <2>1, TypedKeys
  <2>3. UNCHANGED <<case, limits>>
    BY <1>4 DEF List, boot
  <2> QED
    BY <2>2, <2>3, SameLimits
<1>5. CASE Menu(p) \/ Data(p) \/ ShownSpd(p) \/ ErrorMenu(p) \/ CpuMenu(p)
  <2>1. buf' = buf /\ UNCHANGED <<case, limits>>
    BY <1>5 DEF Menu, Data, ShownSpd, ErrorMenu, CpuMenu, boot, typing
  <2> QED
    BY <1>1, <2>1, SameLimits
<1>6. CASE TestMenu(p) \/ SelectTest(p) \/ SelectList(p) \/ RangeMenu(p)
  <2>1. UNCHANGED <<case, limits>>
    BY <1>6 DEF TestMenu, SelectTest, SelectList, RangeMenu, boot
  <2>2. buf' = buf \/ buf' = <<>>
    BY <1>6 DEF TestMenu, SelectTest, SelectList, RangeMenu
  <2>3. <<>> \in Seq(Event)
    OBVIOUS
  <2>4. buf' \in Seq(Event)
    BY <1>1, <2>2, <2>3
  <2> QED
    BY <2>1, <2>4, SameLimits
<1> QED
  BY <1>2, <1>3, <1>4, <1>5, <1>6 DEF Config

LEMMA OtherLimits ==
  ASSUME LInv,
         \/ UNCHANGED vars \/ Parse \/ Window \/ House
         \/ \E p \in CPU : Poll(p) \/ wait_keyup(p) \/ Error(p) \/ LineInput(p) \/ scroll(p) \/ Done(p)
  PROVE  LInv' /\ LimitsStep
<1>1. buf' = buf /\ UNCHANGED <<case, limits>>
  <2>1. CASE UNCHANGED vars \/ Parse \/ Window \/ House
    BY <2>1 DEF vars, Parse, Window, House, boot, typing
  <2>2. ASSUME NEW p \in CPU, Poll(p) \/ wait_keyup(p) \/ Error(p) \/ LineInput(p) \/ scroll(p) \/ Done(p)
        PROVE  buf' = buf /\ UNCHANGED <<case, limits>>
    BY <2>2 DEF Poll, wait_keyup, Error, LineInput, scroll, Done, boot, typing
  <2> QED
    BY <2>1, <2>2
<1>2. buf' \in Seq(Event)
  BY <1>1 DEF LInv
<1> QED
  BY <1>1, <1>2, SameLimits

\* The limits keep their order and the pages to be tested are counted right, after any
\* keys in any order, for every memory map that mem_size can leave.
THEOREM LimitsAreHeld ==
  ASSUME MapSorted
  PROVE  Spec => LimitsHold
<1>1. Init => LInv
  BY DEF Init, LInv
<1>2. LInv /\ [Next]_vars => LInv' /\ LimitsStep
  <2> SUFFICES ASSUME LInv, [Next]_vars PROVE LInv' /\ LimitsStep
    OBVIOUS
  <2>1. CASE set_defaults
    BY <2>1, DefaultsLimits
  <2>2. ASSUME NEW p \in CPU, Config(p) PROVE LInv' /\ LimitsStep
    BY <2>2, ConfigLimits
  <2>3. CASE \/ UNCHANGED vars \/ Parse \/ Window \/ House
             \/ \E p \in CPU : Poll(p) \/ wait_keyup(p) \/ Error(p) \/ LineInput(p) \/ scroll(p) \/ Done(p)
    BY <2>3, OtherLimits
  <2> QED
    BY <2>1, <2>2, <2>3 DEF Next
<1>3. LInv /\ [Next]_vars =>
        [limits' # limits /\ upper' # 0
          => /\ lower' < upper'
             /\ Running => selected_pages' = Cardinality({g \in 0 .. Map[Len(Map)].end :
                  lower' <= g /\ g < upper' /\ \E i \in DOMAIN Map : Map[i].start <= g /\ g < Map[i].end})]_vars
  BY <1>2 DEF LimitsStep, PagesIn
<1> QED
  BY <1>1, <1>2, <1>3, PTL DEF Spec, LimitsHold
-----------------------------------------------------------------------------
(***************************************************************************)
(* What is typed is what is set (TextTaken): how the texts of getval and   *)
(* of a list are read, then what the buffer and the selection are while    *)
(* one is typed.                                                           *)
(***************************************************************************)
\* The number that digits of a base say, read from the left.
Number(base, digits) == FoldLeft(LAMBDA r, c : r * base + Value(c), 0, digits)
HasValues(digits) == \A i \in 1 .. Len(digits) : Value(digits[i]) \in Nat
Reads(base, digits, f) ==
  /\ f \in [SUBSET (1 .. Len(digits)) -> Nat]
  /\ \A s \in SUBSET (1 .. Len(digits)) :
       f[s] = IF s = {} THEN 0 ELSE f[s \ {Max(s)}] * base + Value(digits[Max(s)])

LEMMA NumberReads ==
  ASSUME NEW T, NEW digits \in Seq(T), NEW base \in Nat, HasValues(digits)
  PROVE  \E f : Reads(base, digits, f) /\ Number(base, digits) = f[1 .. Len(digits)]
<1> DEFINE n == Len(digits)
           it == CHOOSE f : f = [s \in SUBSET DOMAIN digits |->
                                   IF s = {} THEN 0 ELSE f[s \ {Max(s)}] * base + Value(digits[Max(s)])]
           h == [x \in Nat \X (1 .. n) |-> x[1] * base + Value(digits[x[2]])]
<1>1. Number(base, digits) = it[DOMAIN digits]
  BY DEF Number, FoldLeft, MapThenFoldSet
<1>2. n \in Nat /\ DOMAIN digits = 1 .. n
  OBVIOUS
<1>3. \A i \in 1 .. n : Value(digits[i]) \in Nat
  BY DEF HasValues
<1> HIDE DEF n
<1>4. h \in [Nat \X (1 .. n) -> Nat]
  BY <1>3
<1>5. PICK f : FoldsTo(Nat, 0, n, h, f)
  <2>1. 0 \in Nat
    OBVIOUS
  <2> HIDE DEF h
  <2> QED
    BY <1>2, <1>4, <2>1, FoldExists
<1>6. ASSUME NEW s \in SUBSET (1 .. n)
      PROVE  f[s] = IF s = {} THEN 0 ELSE f[s \ {Max(s)}] * base + Value(digits[Max(s)])
  <2>1. CASE s = {}
    BY <1>5, <2>1 DEF FoldsTo
  <2>2. CASE s # {}
    <3>1. Max(s) \in 1 .. n
      BY <1>2, <2>2, MaxIn
    <3>2. f[s \ {Max(s)}] \in Nat
      BY <1>5 DEF FoldsTo
    <3>3. h[<<f[s \ {Max(s)}], Max(s)>>] = f[s \ {Max(s)}] * base + Value(digits[Max(s)])
      BY <3>1, <3>2
    <3> HIDE DEF h
    <3> QED
      BY <1>5, <2>2, <3>3 DEF FoldsTo
  <2> QED
    BY <2>1, <2>2
<1>7. f \in [SUBSET (1 .. n) -> Nat]
  BY <1>5 DEF FoldsTo
<1>8. f = [s \in SUBSET DOMAIN digits |-> IF s = {} THEN 0 ELSE f[s \ {Max(s)}] * base + Value(digits[Max(s)])]
  BY <1>2, <1>6, <1>7
<1>9. it = [s \in SUBSET DOMAIN digits |-> IF s = {} THEN 0 ELSE it[s \ {Max(s)}] * base + Value(digits[Max(s)])]
  BY <1>8
<1> HIDE DEF it
<1>10. \A s \in SUBSET (1 .. n) : it[s] = f[s]
  <2> DEFINE G == {s \in SUBSET (1 .. n) : it[s] = f[s]}
  <2>1. {} \in G
    BY <1>2, <1>6, <1>9
  <2>2. ASSUME NEW s \in SUBSET (1 .. n), s # {}, s \ {Max(s)} \in G PROVE s \in G
    <3>1. it[s] = it[s \ {Max(s)}] * base + Value(digits[Max(s)])
      BY <1>2, <1>9, <2>2
    <3>2. f[s] = f[s \ {Max(s)}] * base + Value(digits[Max(s)])
      BY <1>6, <2>2
    <3> QED
      BY <2>2, <3>1, <3>2
  <2>3. \A s \in SUBSET (1 .. n) : s \in G
    <3> HIDE DEF G
    <3> QED
      BY <1>2, <2>1, <2>2, FoldInduction
  <2> QED
    BY <2>3
<1> QED
  BY <1>1, <1>2, <1>6, <1>7, <1>10 DEF Reads, n

\* A digit more.
LEMMA NumberGrows ==
  ASSUME NEW T, NEW digits \in Seq(T), NEW base \in Nat, NEW c \in T, HasValues(digits), Value(c) \in Nat
  PROVE  /\ Number(base, Append(digits, c)) = Number(base, digits) * base + Value(c)
         /\ Number(base, digits) \in Nat
         /\ HasValues(Append(digits, c))
<1> DEFINE n == Len(digits)
           more == Append(digits, c)
<1>1. more \in Seq(T) /\ Len(more) = n + 1 /\ n \in Nat /\ more[n + 1] = c /\ \A i \in 1 .. n : more[i] = digits[i]
  OBVIOUS
<1> HIDE DEF more
<1>2. HasValues(more)
  BY <1>1 DEF HasValues
<1>3. PICK f : Reads(base, digits, f) /\ Number(base, digits) = f[1 .. n]
  BY NumberReads
<1>4. PICK g : Reads(base, more, g) /\ Number(base, more) = g[1 .. n + 1]
  BY <1>1, <1>2, NumberReads
<1> HIDE DEF n
<1>5. \A s \in SUBSET (1 .. n) : g[s] = f[s]
  <2> DEFINE G == {s \in SUBSET (1 .. n) : g[s] = f[s]}
  <2>1. {} \in G
    BY <1>1, <1>3, <1>4 DEF Reads, n
  <2>2. ASSUME NEW s \in SUBSET (1 .. n), s # {}, s \ {Max(s)} \in G PROVE s \in G
    <3>1. Max(s) \in 1 .. n
      BY <1>1, <2>2, MaxIn
    <3>2. f[s] = f[s \ {Max(s)}] * base + Value(digits[Max(s)])
      BY <1>3, <2>2 DEF Reads, n
    <3>3. s \in SUBSET (1 .. n + 1)
      BY <1>1
    <3>4. g[s] = g[s \ {Max(s)}] * base + Value(more[Max(s)])
      BY <1>1, <1>4, <2>2, <3>3 DEF Reads
    <3> QED
      BY <1>1, <2>2, <3>1, <3>2, <3>4
  <2>3. \A s \in SUBSET (1 .. n) : s \in G
    <3> HIDE DEF G
    <3> QED
      BY <1>1, <2>1, <2>2, FoldInduction
  <2> QED
    BY <2>3
<1>6. g[1 .. n + 1] = g[1 .. n] * base + Value(c)
  <2> DEFINE s == 1 .. n + 1
  <2>0. n \in Nat
    BY <1>1
  <2>1. s \in SUBSET (1 .. n + 1) /\ n + 1 \in s /\ n + 1 \in Nat
    BY <2>0
  <2>5. s # {}
    BY <2>1
  <2>2. Max(s) = n + 1
    <3>1. Max(s) \in s /\ Max(s) >= n + 1
      BY <2>1, <2>5, MaxIn
    <3> QED
      BY <1>1, <3>1
  <2>3. s \ {n + 1} = 1 .. n
    BY <1>1
  <2> HIDE DEF s
  <2>4. g[s] = g[s \ {Max(s)}] * base + Value(more[Max(s)])
    BY <1>1, <1>4, <2>1, <2>5 DEF Reads
  <2> QED
    BY <1>1, <2>2, <2>3, <2>4 DEF s
<1>7. f[1 .. n] \in Nat
  BY <1>3 DEF Reads, n
<1>8. g[1 .. n] = f[1 .. n]
  BY <1>5
<1>9. Number(base, more) = Number(base, digits) * base + Value(c)
  BY <1>3, <1>4, <1>6, <1>8
<1>10. Number(base, digits) \in Nat
  BY <1>3, <1>7
<1> QED
  BY <1>2, <1>9, <1>10 DEF more

LEMMA NumberEmpty ==
  ASSUME NEW base \in Nat
  PROVE  Number(base, <<>>) = 0 /\ HasValues(<<>>)
<1>1. <<>> \in Seq(Nat) /\ Len(<<>>) = 0
  OBVIOUS
<1>2. HasValues(<<>>)
  BY <1>1 DEF HasValues
<1>3. PICK f : Reads(base, <<>>, f) /\ Number(base, <<>>) = f[1 .. 0]
  BY <1>1, <1>2, NumberReads
<1>4. 1 .. 0 = {} /\ {} \in SUBSET (1 .. 0)
  OBVIOUS
<1> QED
  BY <1>1, <1>2, <1>3, <1>4 DEF Reads

DigitAt(text, base, i) == \E d \in 0 .. base - 1 : At(text, i) = HexDigits[d + 1]

\* A character that is a digit is in the text.
LEMMA DigitInside ==
  ASSUME NEW T, NEW text \in Seq(T), NEW base \in {8, 10, 16}, NEW i \in Int, DigitAt(text, base, i)
  PROVE  i \in 1 .. Len(text) /\ At(text, i) = text[i] /\ Value(text[i]) \in Nat
<1>1. PICK d \in 0 .. base - 1 : At(text, i) = HexDigits[d + 1]
  BY DEF DigitAt
<1>2. d \in 0 .. 15
  OBVIOUS
<1>3. HexDigits[d + 1] # NUL /\ Value(HexDigits[d + 1]) \in 0 .. 15
  BY <1>2, DigitValue
<1>4. i \in DOMAIN text
  BY <1>1, <1>3 DEF At
<1>5. At(text, i) = text[i]
  BY <1>4 DEF At
<1> QED
  BY <1>1, <1>3, <1>4, <1>5

\* simple_strtoul reads the digits from where they begin to the first other character.
LEMMA StrtoulReads ==
  ASSUME NEW T, NEW text \in Seq(T), NEW base \in {8, 10, 16},
         NEW from, from = (IF base = 16 /\ At(text, 1) = "0" /\ At(text, 2) = "x" THEN 3 ELSE 1),
         NEW to \in from - 1 .. Len(text),
         \A k \in from .. to : DigitAt(text, base, k),
         ~DigitAt(text, base, to + 1)
  PROVE  /\ simple_strtoul(text, base) = Number(base, SubSeq(text, from, to))
         /\ HasValues(SubSeq(text, from, to))
<1> DEFINE Ends(i) == (\A k \in from .. i : DigitAt(text, base, k)) /\ ~DigitAt(text, base, i + 1)
           end == CHOOSE i \in from - 1 .. Len(text) : Ends(i)
<1>1. from \in {1, 3} /\ Len(text) \in Nat
  OBVIOUS
<1>2. Ends(to)
  OBVIOUS
<1>3. ASSUME NEW i \in from - 1 .. Len(text), Ends(i) PROVE i = to
  <2>1. CASE i < to
    <3>1. i + 1 \in from .. to
      BY <1>1, <2>1
    <3> QED
      BY <1>3, <3>1
  <2>2. CASE to < i
    <3>1. to + 1 \in from .. i
      BY <1>1, <2>2
    <3> QED
      BY <1>3, <3>1
  <2> QED
    BY <1>1, <2>1, <2>2
<1> HIDE DEF Ends
<1>4. end = to
  BY <1>2, <1>3
<1> HIDE DEF end
<1>5. simple_strtoul(text, base) = Number(base, SubSeq(text, from, end))
  BY DEF simple_strtoul, Number, FoldLeft, MapThenFoldSet, end, Ends, DigitAt
<1>6. HasValues(SubSeq(text, from, to))
  <2> DEFINE sub == SubSeq(text, from, to)
  <2>1. Len(sub) = to - from + 1 /\ \A i \in 1 .. Len(sub) : sub[i] = text[from + i - 1]
    BY <1>1
  <2> HIDE DEF sub
  <2>2. ASSUME NEW i \in 1 .. Len(sub) PROVE Value(sub[i]) \in Nat
    <3>1. from + i - 1 \in from .. to /\ from + i - 1 \in Int
      BY <1>1, <2>1
    <3>2. DigitAt(text, base, from + i - 1)
      BY <3>1
    <3>3. Value(text[from + i - 1]) \in Nat
      BY <3>1, <3>2, DigitInside
    <3> QED
      BY <2>1, <3>3
  <2> QED
    BY <2>2 DEF HasValues, sub
<1> QED
  BY <1>4, <1>5, <1>6

\* What getval can have in its buffer: digits of the base, an x behind a leading 0, a unit
\* at the end.
NumberText(text) ==
  \A i \in DOMAIN text :
    \/ text[i] \in Units /\ i = Len(text)
    \/ text[i] = "x" /\ i = 2 /\ text[1] = "0"
    \/ \E d \in 0 .. BaseOf(text) - 1 : text[i] = HexDigits[d + 1]

LEMMA NotDigits ==
  ASSUME NEW d \in 0 .. 15
  PROVE  HexDigits[d + 1] \notin Units /\ HexDigits[d + 1] # "x"
BY DEF HexDigits, Units

LEMMA Digit0 ==
  ASSUME NEW base \in {8, 10, 16}
  PROVE  \E d \in 0 .. base - 1 : HexDigits[d + 1] = "0"
<1>1. 0 \in 0 .. base - 1 /\ HexDigits[0 + 1] = "0"
  BY DEF HexDigits
<1> QED
  BY <1>1

\* A key that is taken leaves such a text, and so does one that is taken back.
LEMMA TypedText ==
  ASSUME NEW T, NEW text \in Seq(T), NumberText(text), NEW e \in T
  PROVE  NumberText(Typed(text, e))
<1> DEFINE n == Len(text)
<1>1. n \in Nat /\ DOMAIN text = 1 .. n /\ \A i \in 1 .. n : At(text, i) = text[i]
  BY DEF At
<1>2. CASE e = "BS" /\ text # <<>>
  <2> DEFINE r == Front(text)
  <2>1. n # 0
    BY <1>2
  <2>2. r \in Seq(T) /\ Len(r) = n - 1 /\ DOMAIN r = 1 .. n - 1 /\ \A i \in 1 .. n - 1 : r[i] = text[i]
    BY <1>1, <2>1 DEF Front
  <2> HIDE DEF r, n
  <2>3. \A i \in 1 .. n - 1 : At(r, i) = At(text, i)
    BY <1>1, <2>2 DEF At
  <2>4. n - 1 >= 2 => BaseOf(r) = BaseOf(text)
    BY <1>1, <2>3 DEF BaseOf
  <2>5. ASSUME NEW i \in 1 .. n - 1
        PROVE  \/ r[i] = "x" /\ i = 2 /\ r[1] = "0"
               \/ \E d \in 0 .. BaseOf(r) - 1 : r[i] = HexDigits[d + 1]
    <3>1. r[i] = text[i] /\ i \in DOMAIN text /\ i # n
      BY <1>1, <2>2
    <3>2. CASE text[i] = "x" /\ i = 2 /\ text[1] = "0"
      BY <1>1, <2>2, <3>1, <3>2
    <3>3. CASE \E d \in 0 .. BaseOf(text) - 1 : text[i] = HexDigits[d + 1]
      <4>1. CASE n - 1 >= 2
        BY <2>4, <3>1, <3>3, <4>1
      <4>2. CASE n - 1 < 2
        <5>1. i = 1 /\ n = 2
          BY <1>1, <4>2
        <5>2. PICK d \in 0 .. BaseOf(text) - 1 : text[1] = HexDigits[d + 1]
          BY <3>3, <5>1
        <5>3. CASE text[1] = "0"
          BY <3>1, <5>1, <5>3, Digit0 DEF BaseOf
        <5>4. CASE text[1] # "0"
          <6>1. At(text, 1) # "0" /\ At(r, 1) # "0"
            BY <1>1, <2>3, <5>1, <5>4
          <6>2. BaseOf(text) = 10 /\ BaseOf(r) = 10
            BY <6>1 DEF BaseOf
          <6> QED
            BY <3>1, <5>1, <5>2, <6>2
        <5> QED
          BY <5>3, <5>4
      <4> QED
        BY <1>1, <4>1, <4>2
    <3> QED
      BY <3>1, <3>2, <3>3 DEF NumberText, n
  <2>6. NumberText(r)
    BY <2>2, <2>5 DEF NumberText
  <2> QED
    BY <1>2, <2>6 DEF Typed, r
<1>3. CASE e # "BS" /\ Accepts(text, e)
  <2> DEFINE r == Append(text, e)
  <2>1. r \in Seq(T) /\ Len(r) = n + 1 /\ DOMAIN r = 1 .. n + 1 /\ r[n + 1] = e /\ \A i \in 1 .. n : r[i] = text[i]
    OBVIOUS
  <2> HIDE DEF r
  <2>2. n = 0 \/ text[n] \notin Units
    <3>1. n # 0 => At(text, Len(text)) = text[n]
      BY <1>1
    <3> QED
      BY <1>3, <3>1 DEF Accepts
  <2>3. n >= 2 => BaseOf(r) = BaseOf(text)
    <3>1. n >= 2 => At(r, 1) = At(text, 1) /\ At(r, 2) = At(text, 2)
      BY <1>1, <2>1 DEF At
    <3> QED
      BY <3>1 DEF BaseOf
  <2>4. /\ e = "x" /\ text = <<"0">> => BaseOf(r) = 16
        /\ e # "x" /\ n >= 1 => BaseOf(r) = BaseOf(text)
    <3>1. n >= 1 => At(r, 1) = At(text, 1) /\ (n = 1 => At(r, 2) = e /\ At(text, 2) = NUL)
      BY <1>1, <2>1 DEF At
    <3>2. text = <<"0">> => n = 1 /\ At(text, 1) = "0"
      BY <1>1
    <3> QED
      BY <1>1, <2>3, <3>1, <3>2 DEF BaseOf, NUL
  <2>5. ASSUME NEW i \in 1 .. n
        PROVE  \/ r[i] = "x" /\ i = 2 /\ r[1] = "0"
               \/ \E d \in 0 .. BaseOf(r) - 1 : r[i] = HexDigits[d + 1]
    <3>1. r[i] = text[i] /\ i \in DOMAIN text /\ n >= 1 /\ r[1] = text[1]
      BY <1>1, <2>1
    <3>2. \/ text[i] = "x" /\ i = 2 /\ text[1] = "0"
          \/ \E d \in 0 .. BaseOf(text) - 1 : text[i] = HexDigits[d + 1]
      BY <1>1, <2>2, <3>1 DEF NumberText
    <3>3. CASE text[i] = "x" /\ i = 2 /\ text[1] = "0"
      BY <3>1, <3>3
    <3>4. ASSUME NEW d \in 0 .. BaseOf(text) - 1, text[i] = HexDigits[d + 1]
          PROVE  \E c \in 0 .. BaseOf(r) - 1 : r[i] = HexDigits[c + 1]
      <4>1. CASE BaseOf(r) = BaseOf(text)
        BY <3>1, <3>4, <4>1
      <4>2. CASE BaseOf(r) # BaseOf(text)
        <5>1. e = "x" /\ n = 1
          BY <1>1, <2>3, <2>4, <3>1, <4>2
        <5>2. text = <<"0">>
          <6>1. 0 .. BaseOf(text) - 1 \subseteq 0 .. 15
            BY DEF BaseOf
          <6>2. ~ \E c \in 0 .. BaseOf(text) - 1 : e = HexDigits[c + 1]
            BY <5>1, <6>1, NotDigits
          <6>3. e \notin Units
            BY <5>1 DEF Units
          <6> QED
            BY <1>3, <6>2, <6>3 DEF Accepts
        <5>3. r[i] = "0" /\ BaseOf(r) = 16
          BY <1>1, <2>4, <3>1, <5>1, <5>2
        <5> QED
          BY <5>3, Digit0
      <4> QED
        BY <4>1, <4>2
    <3> QED
      BY <3>2, <3>3, <3>4
  <2>6. \/ e \in Units
        \/ e = "x" /\ n = 1 /\ r[1] = "0"
        \/ \E d \in 0 .. BaseOf(r) - 1 : e = HexDigits[d + 1]
    <3>1. CASE e = "x" /\ text = <<"0">>
      <4>1. n = 1 /\ text[1] = "0"
        BY <3>1
      <4> QED
        BY <2>1, <3>1, <4>1
    <3>2. ASSUME NEW d \in 0 .. BaseOf(text) - 1, e = HexDigits[d + 1]
          PROVE  \E c \in 0 .. BaseOf(r) - 1 : e = HexDigits[c + 1]
      <4>1. e # "x"
        <5>1. d \in 0 .. 15
          <6>1. BaseOf(text) \in {8, 10, 16}
            BY DEF BaseOf
          <6> QED
            BY <6>1
        <5> QED
          BY <3>2, <5>1, NotDigits
      <4>2. CASE n >= 1
        BY <2>4, <3>2, <4>1, <4>2
      <4>3. CASE n = 0
        <5>1. BaseOf(text) = 10
          BY <1>1, <4>3 DEF BaseOf, At, NUL
        <5>2. At(r, 1) = e /\ At(r, 2) = NUL
          BY <2>1, <4>3 DEF At
        <5>3. CASE e = "0"
          BY <5>2, <5>3, Digit0 DEF BaseOf, NUL
        <5>4. CASE e # "0"
          BY <3>2, <5>1, <5>2, <5>4 DEF BaseOf
        <5> QED
          BY <5>3, <5>4
      <4> QED
        BY <1>1, <4>2, <4>3
    <3> QED
      BY <1>3, <3>1, <3>2 DEF Accepts
  <2>7. NumberText(r)
    <3> SUFFICES ASSUME NEW i \in 1 .. n + 1
                 PROVE  \/ r[i] \in Units /\ i = n + 1
                        \/ r[i] = "x" /\ i = 2 /\ r[1] = "0"
                        \/ \E d \in 0 .. BaseOf(r) - 1 : r[i] = HexDigits[d + 1]
      BY <2>1 DEF NumberText
    <3>1. CASE i = n + 1
      BY <2>1, <2>6, <3>1
    <3>2. CASE i # n + 1
      <4>1. i \in 1 .. n
        BY <1>1, <3>2
      <4> QED
        BY <2>5, <4>1
    <3> QED
      BY <3>1, <3>2
  <2> QED
    BY <1>3, <2>7 DEF Typed, r
<1>4. CASE (e = "BS" /\ text = <<>>) \/ (e # "BS" /\ ~Accepts(text, e))
  BY <1>4 DEF Typed
<1> QED
  BY <1>2, <1>3, <1>4

\* The number is the characters before the unit, and its digits those behind "0x".
NumberEnd(text) == IF text[Len(text)] \in Units THEN Len(text) - 1 ELSE Len(text)
DigitsFrom(text) == IF At(text, 1) = "0" /\ At(text, 2) = "x" THEN 3 ELSE 1

LEMMA NumberPart ==
  ASSUME NEW T, NEW text \in Seq(T), text # <<>>, NumberText(text)
  PROVE  LET n == Len(text)
             m == NumberEnd(text)
             from == DigitsFrom(text)
         IN /\ n \in Nat /\ n >= 1 /\ m \in Nat /\ (m = n \/ m = n - 1)
            /\ \A i \in 1 .. n : At(text, i) = text[i]
            /\ \A i \in 1 .. m : text[i] \notin Units
            /\ m = n - 1 => text[n] \in Units
            /\ from \in {1, 3} /\ from - 1 <= m
            /\ \A k \in from .. m : DigitAt(text, BaseOf(text), k)
            /\ ~DigitAt(text, BaseOf(text), m + 1)
<1> DEFINE n == Len(text)
           m == NumberEnd(text)
           from == DigitsFrom(text)
           base == BaseOf(text)
<1>1. n \in Nat /\ n >= 1 /\ DOMAIN text = 1 .. n /\ \A i \in 1 .. n : At(text, i) = text[i]
  BY DEF At
<1>2. (text[n] \in Units => m = n - 1) /\ (text[n] \notin Units => m = n)
  BY DEF NumberEnd
<1>3. base \in {8, 10, 16} /\ from \in {1, 3}
  BY DEF BaseOf, DigitsFrom
<1>4. \A i \in 1 .. n : \/ text[i] \in Units /\ i = n
                        \/ text[i] = "x" /\ i = 2 /\ text[1] = "0"
                        \/ \E d \in 0 .. base - 1 : text[i] = HexDigits[d + 1]
  BY <1>1 DEF NumberText
<1>5. (from = 3) <=> (At(text, 1) = "0" /\ At(text, 2) = "x")
  BY DEF DigitsFrom
<1>6. \A i \in Int \ (1 .. n) : At(text, i) = NUL
  BY <1>1 DEF At
<1> HIDE DEF n, m, from, base
<1>7. \A d \in 0 .. base - 1 : HexDigits[d + 1] \notin Units /\ HexDigits[d + 1] # "x"
  <2>1. \A d \in 0 .. base - 1 : d \in 0 .. 15
    BY <1>3
  <2> QED
    BY <2>1, NotDigits
<1>8. m \in Nat /\ (m = n \/ m = n - 1) /\ (m = n - 1 => text[n] \in Units)
  BY <1>1, <1>2
<1>9. "x" \notin Units
  BY DEF Units
<1>10. \A i \in 1 .. m : text[i] \notin Units /\ i \in 1 .. n
  <2> SUFFICES ASSUME NEW i \in 1 .. m PROVE text[i] \notin Units /\ i \in 1 .. n
    OBVIOUS
  <2>1. i \in 1 .. n /\ (i = n => m = n)
    BY <1>1, <1>8
  <2>2. i = n => text[i] \notin Units
    BY <1>1, <1>2, <2>1
  <2> QED
    BY <1>4, <1>7, <1>9, <2>1, <2>2
<1>11. from = 3 => n >= 2 /\ text[2] = "x" /\ text[1] = "0" /\ m >= 2
  <2> SUFFICES ASSUME from = 3 PROVE n >= 2 /\ text[2] = "x" /\ text[1] = "0" /\ m >= 2
    OBVIOUS
  <2>1. At(text, 1) = "0" /\ At(text, 2) = "x"
    BY <1>5
  <2>2. 2 \in 1 .. n
    BY <1>6, <2>1 DEF NUL
  <2>3. text[2] = "x" /\ text[1] = "0" /\ n >= 2
    BY <1>1, <2>1, <2>2
  <2>4. n = 2 => m = 2
    BY <1>2, <1>9, <2>3
  <2> QED
    BY <1>1, <1>8, <2>3, <2>4
<1>12. from - 1 <= m
  BY <1>3, <1>8, <1>11
<1>13. ASSUME NEW k \in from .. m PROVE DigitAt(text, base, k)
  <2>0. from \in Nat /\ 1 <= from
    BY <1>3
  <2>1. k \in 1 .. m /\ k \in 1 .. n
    BY <1>1, <1>8, <2>0
  <2>2. ~ (text[k] = "x" /\ k = 2 /\ text[1] = "0")
    <3> SUFFICES ASSUME text[k] = "x", k = 2, text[1] = "0" PROVE FALSE
      OBVIOUS
    <3>1. At(text, 1) = "0" /\ At(text, 2) = "x"
      BY <1>1, <2>1
    <3>2. from = 3
      BY <1>5, <3>1
    <3> QED
      BY <1>3, <3>2
  <2>3. text[k] \notin Units
    BY <1>10, <2>1
  <2> QED
    BY <1>1, <1>4, <2>1, <2>2, <2>3 DEF DigitAt
<1>14. ~DigitAt(text, base, m + 1)
  <2> SUFFICES ASSUME DigitAt(text, base, m + 1) PROVE FALSE
    OBVIOUS
  <2>1. m + 1 \in 1 .. n
    BY <1>3, <1>8, DigitInside DEF n
  <2>2. m + 1 = n /\ text[n] \in Units
    BY <1>1, <1>8, <2>1
  <2>3. PICK d \in 0 .. base - 1 : text[n] = HexDigits[d + 1]
    BY <1>1, <2>1, <2>2 DEF DigitAt
  <2> QED
    BY <1>7, <2>2, <2>3
<1> QED
  BY <1>1, <1>3, <1>8, <1>10, <1>12, <1>13, <1>14 DEF n, m, from, base

\* PagesTyped cuts the same digits out of the text.
LEMMA DigitsPart ==
  ASSUME NEW T, NEW text \in Seq(T), text # <<>>, NumberText(text)
  PROVE  LET m == NumberEnd(text)
             from == DigitsFrom(text)
             number == IF Last(text) \in Units THEN Front(text) ELSE text
             hex == Len(number) > 1 /\ SubSeq(number, 1, 2) = <<"0", "x">>
             digits == IF hex THEN SubSeq(number, 3, Len(number)) ELSE number
             base == IF hex THEN 16 ELSE IF At(number, 1) = "0" THEN 8 ELSE 10
         IN /\ base = BaseOf(text)
            /\ digits = SubSeq(text, from, m)
<1> DEFINE n == Len(text)
           m == NumberEnd(text)
           from == DigitsFrom(text)
           number == IF Last(text) \in Units THEN Front(text) ELSE text
           hex == Len(number) > 1 /\ SubSeq(number, 1, 2) = <<"0", "x">>
           digits == IF hex THEN SubSeq(number, 3, Len(number)) ELSE number
           base == IF hex THEN 16 ELSE IF At(number, 1) = "0" THEN 8 ELSE 10
<1>1. /\ n \in Nat /\ n >= 1 /\ m \in Nat /\ (m = n \/ m = n - 1)
      /\ \A i \in 1 .. n : At(text, i) = text[i]
      /\ \A i \in 1 .. m : text[i] \notin Units
      /\ m = n - 1 => text[n] \in Units
      /\ from \in {1, 3} /\ from - 1 <= m
  BY NumberPart
<1>2. Last(text) = text[n]
  BY DEF Last
<1>3. (from = 3) <=> (At(text, 1) = "0" /\ At(text, 2) = "x")
  BY DEF DigitsFrom
<1>4. \A i \in Int \ (1 .. n) : At(text, i) = NUL
  BY DEF At
<1>5. Front(text) = SubSeq(text, 1, n - 1)
  BY DEF Front
<1> HIDE DEF from, m, n
<1>6. number = SubSeq(text, 1, m)
  <2>1. SubSeq(text, 1, n) = text
    BY DEF n
  <2>2. CASE m = n
    <3>1. text[n] \notin Units
      BY <1>1, <2>2
    <3> QED
      BY <1>2, <2>1, <2>2, <3>1
  <2>3. CASE m = n - 1
    BY <1>1, <1>2, <1>5, <2>3
  <2> QED
    BY <1>1, <2>2, <2>3
<1> HIDE DEF number
<1>7. /\ number \in Seq(T) /\ Len(number) = m
      /\ \A i \in 1 .. m : number[i] = text[i]
  BY <1>1, <1>6 DEF n
<1>8. \A i \in Int : At(number, i) = IF i \in 1 .. m THEN text[i] ELSE NUL
  BY <1>1, <1>7 DEF At
<1>9. At(number, 1) = "0" <=> At(text, 1) = "0"
  <2>1. CASE m >= 1
    <3>1. 1 \in 1 .. m /\ 1 \in 1 .. n
      BY <1>1, <2>1
    <3> QED
      BY <1>1, <1>8, <3>1
  <2>2. CASE m = 0
    <3>1. n = 1 /\ text[1] \in Units
      BY <1>1, <2>2
    <3>2. At(text, 1) # "0"
      BY <1>1, <3>1 DEF Units
    <3>3. At(number, 1) = NUL
      BY <1>8, <2>2
    <3> QED
      BY <3>2, <3>3 DEF NUL
  <2> QED
    BY <1>1, <2>1, <2>2
<1>10. hex <=> from = 3
  <2>1. ASSUME hex PROVE from = 3
    <3>1. m > 1 /\ SubSeq(number, 1, 2) = <<"0", "x">>
      BY <1>7, <2>1
    <3>2. SubSeq(number, 1, 2)[1] = number[1] /\ SubSeq(number, 1, 2)[2] = number[2]
      BY <1>1, <1>7, <3>1
    <3>5. <<"0", "x">>[1] = "0" /\ <<"0", "x">>[2] = "x"
      OBVIOUS
    <3>6. number[1] = "0" /\ number[2] = "x"
      BY <3>1, <3>2, <3>5
    <3>3. text[1] = "0" /\ text[2] = "x"
      BY <1>1, <1>7, <3>1, <3>6
    <3>4. At(text, 1) = "0" /\ At(text, 2) = "x"
      BY <1>1, <3>1, <3>3
    <3> QED
      BY <1>3, <3>4
  <2>2. ASSUME from = 3 PROVE hex
    <3>1. m >= 2 /\ 1 \in 1 .. m /\ 2 \in 1 .. m /\ 1 \in 1 .. n /\ 2 \in 1 .. n
      BY <1>1, <2>2
    <3>2. At(text, 1) = "0" /\ At(text, 2) = "x"
      BY <1>3, <2>2
    <3>3. number[1] = "0" /\ number[2] = "x"
      BY <1>1, <1>7, <3>1, <3>2
    <3>4. SubSeq(number, 1, 2) = <<number[1], number[2]>>
      <4> DEFINE s == SubSeq(number, 1, 2)
                 r == <<number[1], number[2]>>
      <4>1. s \in Seq(T) /\ Len(s) = 2 /\ s[1] = number[1] /\ s[2] = number[2]
        BY <1>1, <1>7, <3>1
      <4>2. r \in Seq(T) /\ Len(r) = 2 /\ r[1] = number[1] /\ r[2] = number[2]
        BY <1>1, <1>7, <3>1
      <4> HIDE DEF s, r
      <4>3. \A i \in 1 .. 2 : s[i] = r[i]
        BY <4>1, <4>2
      <4> QED
        BY <4>1, <4>2, <4>3, SeqEqual DEF s, r
    <3> QED
      BY <1>7, <3>1, <3>3, <3>4
  <2> QED
    BY <2>1, <2>2
<1> HIDE DEF hex
<1>11. base = BaseOf(text)
  <2>1. hex <=> (At(text, 1) = "0" /\ At(text, 2) = "x")
    BY <1>3, <1>10
  <2> QED
    BY <1>9, <2>1 DEF BaseOf
<1>12. digits = SubSeq(text, from, m)
  <2>1. CASE hex
    <3>1. from = 3 /\ 2 <= m
      BY <1>1, <1>10, <2>1
    <3>2. SubSeq(number, 3, m) = SubSeq(text, 3, m)
      BY <1>1, <1>6, <3>1 DEF n
    <3> QED
      BY <1>7, <2>1, <3>1, <3>2
  <2>2. CASE ~hex
    <3>1. from = 1
      BY <1>1, <1>10, <2>2
    <3> QED
      BY <1>6, <2>2, <3>1
  <2> QED
    BY <2>1, <2>2
<1> QED
  BY <1>11, <1>12 DEF from, m, number, hex, digits, base

\* The number typed is the number of pages, in whatever unit (getval).
LEMMA GetvalPages ==
  ASSUME NEW T, NEW text \in Seq(T), text # <<>>, NumberText(text)
  PROVE  getval(text, 12) = PagesTyped(text)
<1> DEFINE m == NumberEnd(text)
           from == DigitsFrom(text)
           number == IF Last(text) \in Units THEN Front(text) ELSE text
           hex == Len(number) > 1 /\ SubSeq(number, 1, 2) = <<"0", "x">>
           digits == IF hex THEN SubSeq(number, 3, Len(number)) ELSE number
           base == IF hex THEN 16 ELSE IF At(number, 1) = "0" THEN 8 ELSE 10
           unit == Last(text)
           val == Number(base, digits)
           sub == SubSeq(text, from, m)
<1>1. base = BaseOf(text) /\ digits = sub
  BY DigitsPart
<1>2. PagesTyped(text) = IF ~Digits16(digits, base) THEN -1
                         ELSE CASE unit = "g" -> val * 262144 [] unit = "m" -> val * 256 [] unit = "p" -> val
                                [] unit = "k" -> val \div 4 [] OTHER -> val \div 4096
  BY SMT DEF PagesTyped, Number, FoldLeft, MapThenFoldSet
<1>3. getval(text, 12) = LET shift == SuffixShift(unit) - 12
                             read == simple_strtoul(text, BaseOf(text))
                         IN IF shift > 0 THEN read * 2 ^ shift ELSE read \div 2 ^ (-shift)
  BY SMT DEF getval
<1> HIDE DEF digits, base, unit, val, hex, number
<1>4. base \in {8, 10, 16}
  BY <1>1 DEF BaseOf
<1>5. /\ Len(text) \in Nat /\ m \in Nat /\ (m = Len(text) \/ m = Len(text) - 1)
      /\ \A i \in 1 .. Len(text) : At(text, i) = text[i]
      /\ from \in {1, 3} /\ from - 1 <= m
      /\ \A k \in from .. m : DigitAt(text, base, k)
      /\ ~DigitAt(text, base, m + 1)
  BY <1>1, NumberPart
<1>6. from = IF base = 16 /\ At(text, 1) = "0" /\ At(text, 2) = "x" THEN 3 ELSE 1
  BY <1>1 DEF BaseOf, DigitsFrom
<1> HIDE DEF from, m
<1>7. m \in from - 1 .. Len(text)
  BY <1>5
<1>8. simple_strtoul(text, base) = Number(base, sub)
  BY <1>4, <1>5, <1>6, <1>7, StrtoulReads
<1>9. simple_strtoul(text, BaseOf(text)) = val
  BY <1>1, <1>8 DEF val
<1>10. val \in Nat
  BY <1>1, <1>4, <1>9, StrtoulNumber
<1>11. Digits16(digits, base)
  <2>0. from \in Nat /\ 1 <= from
    BY <1>5
  <2>1. Len(sub) = m - from + 1 /\ DOMAIN sub = 1 .. m - from + 1 /\ \A i \in 1 .. m - from + 1 : sub[i] = text[from + i - 1]
    BY <1>5, <2>0
  <2> HIDE DEF sub
  <2>2. ASSUME NEW i \in 1 .. m - from + 1 PROVE \E d \in 0 .. base - 1 : sub[i] = HexDigits[d + 1]
    <3>1. from + i - 1 \in from .. m /\ from + i - 1 \in 1 .. Len(text)
      BY <1>5, <2>0
    <3>2. DigitAt(text, base, from + i - 1)
      BY <1>5, <3>1
    <3> QED
      BY <1>5, <2>1, <3>1, <3>2 DEF DigitAt
  <2> QED
    BY <1>1, <2>1, <2>2 DEF Digits16
<1>12. PagesTyped(text) = CASE unit = "g" -> val * 262144 [] unit = "m" -> val * 256 [] unit = "p" -> val
                                [] unit = "k" -> val \div 4 [] OTHER -> val \div 4096
  BY <1>2, <1>11
<1>13. getval(text, 12) = LET shift == SuffixShift(unit) - 12
                          IN IF shift > 0 THEN val * 2 ^ shift ELSE val \div 2 ^ (-shift)
  BY <1>3, <1>9
<1> HIDE DEF sub
<1>14. 2 ^ 18 = 262144 /\ 2 ^ 8 = 256 /\ 2 ^ 0 = 1 /\ 2 ^ 2 = 4 /\ 2 ^ 12 = 4096
  BY SMT
<1>20. \A s \in Int : -s = 0 - s
  BY SMT
<1>15. CASE unit = "g"
  <2>1. SuffixShift(unit) - 12 = 18
    BY <1>15, SMT DEF SuffixShift
  <2>2. getval(text, 12) = val * 2 ^ 18
    BY <1>13, <2>1, SMT
  <2> QED
    BY <1>12, <1>14, <1>15, <2>2, SMT
<1>16. CASE unit = "m"
  <2>1. SuffixShift(unit) - 12 = 8
    BY <1>16, SMT DEF SuffixShift
  <2>2. getval(text, 12) = val * 2 ^ 8
    BY <1>13, <2>1, SMT
  <2> QED
    BY <1>12, <1>14, <1>16, <2>2, SMT
<1>17. CASE unit = "p"
  <2>1. SuffixShift(unit) = 12
    BY <1>17, SMT DEF SuffixShift
  <2>2. getval(text, 12) = val \div 2 ^ 0
    BY <1>13, <2>1, SMT
  <2>3. val \div 1 = val
    BY <1>10, SMT
  <2> QED
    BY <1>12, <1>14, <1>17, <2>2, <2>3, SMT
<1>18. CASE unit = "k"
  <2>1. SuffixShift(unit) = 10
    BY <1>18, SMT DEF SuffixShift
  <2>3. ~ (SuffixShift(unit) - 12 > 0) /\ SuffixShift(unit) - 12 \in Int /\ 0 - (SuffixShift(unit) - 12) = 2
    BY <2>1, SMT
  <2>4. getval(text, 12) = val \div 2 ^ (-(SuffixShift(unit) - 12))
    BY <1>13, <2>3, SMT
  <2>5. -(SuffixShift(unit) - 12) = 0 - (SuffixShift(unit) - 12)
    BY <1>20, <2>3, Zenon
  <2>2. getval(text, 12) = val \div 2 ^ 2
    BY <2>3, <2>4, <2>5, Zenon
  <2> QED
    BY <1>12, <1>14, <1>18, <2>2, SMT
<1>19. CASE unit \notin {"g", "m", "p", "k"}
  <2>1. SuffixShift(unit) = 0
    BY <1>19, SMT DEF SuffixShift
  <2>3. ~ (SuffixShift(unit) - 12 > 0) /\ SuffixShift(unit) - 12 \in Int /\ 0 - (SuffixShift(unit) - 12) = 12
    BY <2>1, SMT
  <2>4. getval(text, 12) = val \div 2 ^ (-(SuffixShift(unit) - 12))
    BY <1>13, <2>3, SMT
  <2>5. -(SuffixShift(unit) - 12) = 0 - (SuffixShift(unit) - 12)
    BY <1>20, <2>3, Zenon
  <2>2. getval(text, 12) = val \div 2 ^ 12
    BY <2>3, <2>4, <2>5, Zenon
  <2> QED
    BY <1>12, <1>14, <1>19, <2>2, SMT
<1> QED
  BY <1>15, <1>16, <1>17, <1>18, <1>19, Zenon

(***************************************************************************)
(* A list of tests.  The reading of a list is a recursive function of the  *)
(* number of characters read; what it has selected is proved along them.   *)
(***************************************************************************)
\* Induction up to n.
LEMMA UpTo ==
  ASSUME NEW n \in Nat, NEW G, 0 \in G, \A t \in 1 .. n : t - 1 \in G => t \in G
  PROVE  \A t \in 0 .. n : t \in G
<1> DEFINE Bad == {t \in 0 .. n : t \notin G}
<1>1. ASSUME Bad # {} PROVE FALSE
  <2>1. Bad \in SUBSET Nat
    OBVIOUS
  <2>2. PICK t \in Bad : \A m \in Bad : t <= m
    BY <1>1, <2>1, LeastOf
  <2>3. t \in 1 .. n /\ t - 1 \in 0 .. n /\ ~ (t <= t - 1) /\ t \notin G
    BY <2>2
  <2>4. t - 1 \in G
    BY <2>2, <2>3
  <2> QED
    BY <2>3, <2>4
<1> QED
  BY <1>1

\* What is repeated n times gives a sequence of values.
Repeats(V, b, n, h, f) == f \in [0 .. n -> V] /\ f[0] = b /\ \A t \in 1 .. n : f[t] = h[f[t - 1]]

LEMMA RunExists ==
  ASSUME NEW V, NEW b \in V, NEW n \in Nat, NEW h \in [V -> V]
  PROVE  \E f : Repeats(V, b, n, h, f)
<1> DEFINE g == [x \in V \X (1 .. n) |-> h[x[1]]]
<1>1. g \in [V \X (1 .. n) -> V]
  OBVIOUS
<1>2. PICK f : FoldsTo(V, b, n, g, f)
  <2> HIDE DEF g
  <2> QED
    BY <1>1, FoldExists
<1> DEFINE r == [t \in 0 .. n |-> f[1 .. t]]
<1>3. \A t \in 0 .. n : 1 .. t \in SUBSET (1 .. n) /\ f[1 .. t] \in V
  <2> SUFFICES ASSUME NEW t \in 0 .. n PROVE 1 .. t \in SUBSET (1 .. n) /\ f[1 .. t] \in V
    OBVIOUS
  <2>1. 1 .. t \in SUBSET (1 .. n)
    OBVIOUS
  <2> QED
    BY <1>2, <2>1 DEF FoldsTo
<1>4. r \in [0 .. n -> V]
  BY <1>3
<1>5. r[0] = b
  <2>1. 1 .. 0 = {} /\ 0 \in 0 .. n
    OBVIOUS
  <2> QED
    BY <1>2, <1>3, <2>1 DEF FoldsTo
<1>6. ASSUME NEW t \in 1 .. n PROVE r[t] = h[r[t - 1]]
  <2> DEFINE s == 1 .. t
  <2>1. t - 1 \in 0 .. n /\ t \in 0 .. n /\ t \in s /\ s # {} /\ s \in SUBSET (1 .. n) /\ t \in Nat
    OBVIOUS
  <2>2. Max(s) = t
    <3>1. Max(s) \in s /\ Max(s) >= t
      BY <2>1, MaxIn
    <3> QED
      BY <3>1
  <2>3. s \ {t} = 1 .. t - 1
    OBVIOUS
  <2> HIDE DEF s
  <2>4. f[s] = g[<<f[s \ {t}], t>>]
    BY <1>2, <2>1, <2>2 DEF FoldsTo
  <2>5. f[1 .. t - 1] \in V
    BY <1>3, <2>1
  <2>6. g[<<f[1 .. t - 1], t>>] = h[f[1 .. t - 1]]
    BY <2>5
  <2>7. r[t] = f[s] /\ r[t - 1] = f[1 .. t - 1]
    BY <2>1 DEF s
  <2> HIDE DEF g, r
  <2> QED
    BY <2>3, <2>4, <2>6, <2>7
<1> HIDE DEF r
<1> QED
  BY <1>4, <1>5, <1>6 DEF Repeats

\* A state of the reading of a list.
Reading == [i : Nat, j : Nat, sel : SUBSET Nat, n : Nat, ended : BOOLEAN]
Begun == [i |-> 1, j |-> 0, sel |-> {}, n |-> 0, ended |-> FALSE]

LEMMA DigitsOf ==
  /\ \A c : c \in Digits <=> \E d \in 0 .. 9 : c = HexDigits[d + 1]
  /\ \A c \in Digits : Value(c) \in Nat /\ c # NUL /\ c # ","
<1>1. \A c : c \in Digits <=> \E d \in 0 .. 9 : c = HexDigits[d + 1]
  <2>1. \A d \in 0 .. 9 : d + 1 \in 1 .. 10
    OBVIOUS
  <2>2. \A i \in 1 .. 10 : i - 1 \in 0 .. 9 /\ (i - 1) + 1 = i
    OBVIOUS
  <2> QED
    BY <2>1, <2>2 DEF Digits
<1>2. ASSUME NEW d \in 0 .. 9 PROVE Value(HexDigits[d + 1]) \in Nat /\ HexDigits[d + 1] # NUL /\ HexDigits[d + 1] # ","
  <2>1. d \in 0 .. 15
    OBVIOUS
  <2>2. d + 1 \in 1 .. 16 /\ \A i \in 1 .. 16 : HexDigits[i] # ","
    BY DEF HexDigits
  <2>3. Value(HexDigits[d + 1]) \in 0 .. 15 /\ HexDigits[d + 1] # NUL
    BY <2>1, DigitValue
  <2>4. Value(HexDigits[d + 1]) \in Nat
    BY <2>3
  <2>5. HexDigits[d + 1] # ","
    BY <2>2
  <2> QED
    BY <2>3, <2>4, <2>5
<1> QED
  BY <1>1, <1>2

LEMMA ScanReads ==
  ASSUME NEW T, NEW cp \in Seq(T), NEW k \in Nat, NEW s \in Reading, At(cp, s.i) \in Digits
  PROVE  /\ Scan(s, cp, k) \in Reading
         /\ s.i \in 1 .. Len(cp) /\ cp[s.i] \in Digits /\ At(cp, s.i) = cp[s.i]
<1>0. At(cp, s.i) # NUL
  BY DigitsOf
<1>1. s.i \in 1 .. Len(cp) /\ At(cp, s.i) = cp[s.i]
  BY <1>0 DEF At
<1>2. Value(cp[s.i]) \in Nat
  BY <1>1, DigitsOf
<1>3. s.j \in Nat /\ s.sel \in SUBSET Nat /\ s.i \in Nat
  BY DEF Reading
<1>4. 10 * s.j + Value(cp[s.i]) \in Nat
  BY <1>2, <1>3
<1> DEFINE j == 10 * s.j + Value(cp[s.i])
           r == Scan(s, cp, k)
           next == At(cp, s.i + 1)
<1>5. /\ r = [i |-> r.i, j |-> r.j, sel |-> r.sel, n |-> r.n, ended |-> r.ended]
      /\ r.i = (IF next = "," THEN s.i + 2 ELSE s.i + 1)
      /\ r.j = (IF next \in Digits THEN j ELSE 0)
      /\ r.sel = (IF next \notin Digits /\ j < k THEN s.sel \cup {j} ELSE s.sel)
      /\ r.n = Value(cp[s.i])
      /\ r.ended = (next \notin Digits \cup {","})
  BY DEF Scan
<1>10. j \in Nat
  BY <1>4
<1> HIDE DEF r, next, j
<1>6. r.i \in Nat /\ r.j \in Nat /\ r.n \in Nat
  <2>1. s.i + 1 \in Nat /\ s.i + 2 \in Nat
    BY <1>3
  <2>2. r.i \in Nat
    BY <1>5, <2>1
  <2>3. r.j \in Nat
    <3>1. r.j = IF next \in Digits THEN j ELSE 0
      BY <1>5
    <3>2. 0 \in Nat
      OBVIOUS
    <3>3. r.j = j \/ r.j = 0
      BY <3>1
    <3> QED
      BY <1>10, <3>2, <3>3, Zenon
  <2>4. r.n \in Nat
    BY <1>2, <1>5
  <2> QED
    BY <2>2, <2>3, <2>4
<1>7. r.sel \in SUBSET Nat
  BY <1>3, <1>5, <1>10
<1>8. r.ended \in BOOLEAN
  BY <1>5
<1>9. r \in Reading
  BY <1>5, <1>6, <1>7, <1>8 DEF Reading
<1> QED
  BY <1>1, <1>9 DEF r

\* The reading of a list, and where it leads.
Runs(cp, k, s) ==
  /\ s[0] = Begun
  /\ \A t \in 1 .. Len(cp) : s[t] = IF s[t - 1].ended \/ At(cp, s[t - 1].i) \notin Digits THEN s[t - 1]
                                    ELSE Scan(s[t - 1], cp, k)

LEMMA ListRuns ==
  ASSUME NEW T, NEW cp \in Seq(T), NEW k \in Nat
  PROVE  \E s : Runs(cp, k, s) /\ ListOf(cp, k) = s[Len(cp)]
<1> DEFINE n == Len(cp)
           it == CHOOSE s : s = [t \in 0 .. Len(cp) |->
                   IF t = 0 THEN [i |-> 1, j |-> 0, sel |-> {}, n |-> 0, ended |-> FALSE]
                   ELSE IF s[t - 1].ended \/ At(cp, s[t - 1].i) \notin Digits THEN s[t - 1]
                   ELSE Scan(s[t - 1], cp, k)]
           h == [s \in Reading |-> IF s.ended \/ At(cp, s.i) \notin Digits THEN s ELSE Scan(s, cp, k)]
<1>1. ListOf(cp, k) = it[n]
  BY DEF ListOf
<1>2. n \in Nat
  OBVIOUS
<1>3. h \in [Reading -> Reading]
  BY ScanReads
<1>4. Begun \in Reading
  BY DEF Begun, Reading
<1>5. PICK f : Repeats(Reading, Begun, n, h, f)
  <2> HIDE DEF h, n
  <2> QED
    BY <1>2, <1>3, <1>4, RunExists
<1>10. f \in [0 .. n -> Reading] /\ f[0] = Begun /\ \A t \in 1 .. n : f[t] = h[f[t - 1]]
  BY <1>5 DEF Repeats
<1>6. f = [t \in 0 .. Len(cp) |->
            IF t = 0 THEN [i |-> 1, j |-> 0, sel |-> {}, n |-> 0, ended |-> FALSE]
            ELSE IF f[t - 1].ended \/ At(cp, f[t - 1].i) \notin Digits THEN f[t - 1]
            ELSE Scan(f[t - 1], cp, k)]
  <2>1. ASSUME NEW t \in 0 .. n, t # 0
        PROVE  f[t] = IF f[t - 1].ended \/ At(cp, f[t - 1].i) \notin Digits THEN f[t - 1]
                      ELSE Scan(f[t - 1], cp, k)
    <3>1. t \in 1 .. n /\ t - 1 \in 0 .. n
      BY <1>2, <2>1
    <3>2. f[t - 1] \in Reading /\ f[t] = h[f[t - 1]]
      BY <1>10, <3>1
    <3> QED
      BY <3>2
  <2> QED
    BY <1>10, <2>1 DEF Begun
<1>7. it = [t \in 0 .. Len(cp) |->
            IF t = 0 THEN [i |-> 1, j |-> 0, sel |-> {}, n |-> 0, ended |-> FALSE]
            ELSE IF it[t - 1].ended \/ At(cp, it[t - 1].i) \notin Digits THEN it[t - 1]
            ELSE Scan(it[t - 1], cp, k)]
  BY <1>6
<1> HIDE DEF it
<1>8. it[0] = Begun
  BY <1>2, <1>7 DEF Begun
<1>9. ASSUME NEW t \in 1 .. Len(cp)
      PROVE  it[t] = IF it[t - 1].ended \/ At(cp, it[t - 1].i) \notin Digits THEN it[t - 1]
                     ELSE Scan(it[t - 1], cp, k)
  <2>1. t \in 0 .. Len(cp) /\ t # 0
    BY <1>2
  <2> QED
    BY <1>7, <2>1
<1> QED
  BY <1>1, <1>8, <1>9 DEF Runs

\* Where a number of a list may begin, and where the numbers of a list are (NumbersIn).
BeginsAt(cp, i) == /\ i = 1 \/ cp[i - 1] = ","
                   /\ \A k \in 1 .. i - 1 : cp[k] \in Digits \cup {","}
                   /\ \A k \in 1 .. i - 1 : cp[k] = "," => k # 1 /\ cp[k - 1] # ","
Written(cp) == {y \in (1 .. Len(cp)) \X (1 .. Len(cp)) :
                  /\ y[1] <= y[2] /\ \A k \in y[1] .. y[2] : cp[k] \in Digits
                  /\ BeginsAt(cp, y[1]) /\ At(cp, y[2] + 1) \notin Digits}
\* The numbers below k that end before place b.
Found(cp, k, b) == {v \in 0 .. k - 1 :
                      \E y \in Written(cp) : y[2] < b /\ v = simple_strtoul(SubSeq(cp, y[1], y[2]), 10)}

LEMMA NumbersFound ==
  ASSUME NEW T, NEW cp \in Seq(T), NEW k \in Nat
  PROVE  NumbersIn(cp) \cap (0 .. k - 1) = Found(cp, k, Len(cp) + 1)
<1>1. NumbersIn(cp) = {simple_strtoul(SubSeq(cp, y[1], y[2]), 10) : y \in Written(cp)}
  BY DEF NumbersIn, Written, BeginsAt
<1>2. \A y \in Written(cp) : y[2] < Len(cp) + 1
  BY DEF Written
<1> QED
  BY <1>1, <1>2 DEF Found

\* A number that begins at b and goes to i is the only one that ends behind b and not
\* behind the character after i.
LEMMA OneNumber ==
  ASSUME NEW T, NEW cp \in Seq(T), NEW b \in Nat, NEW i \in 1 .. Len(cp), 1 <= b, b <= i,
         BeginsAt(cp, b), \A x \in b .. i : cp[x] \in Digits, At(cp, i + 1) \notin Digits
  PROVE  /\ <<b, i>> \in Written(cp)
         /\ \A y \in Written(cp) : b <= y[2] /\ y[2] < i + 2 => y = <<b, i>>
<1>1. <<b, i>> \in Written(cp)
  BY DEF Written
<1>2. ASSUME NEW y \in Written(cp), b <= y[2], y[2] < i + 2
      PROVE  y = <<b, i>>
  <2>1. /\ y[1] \in 1 .. Len(cp) /\ y[2] \in 1 .. Len(cp) /\ y = <<y[1], y[2]>>
        /\ y[1] <= y[2] /\ (\A k \in y[1] .. y[2] : cp[k] \in Digits)
        /\ BeginsAt(cp, y[1]) /\ At(cp, y[2] + 1) \notin Digits
    BY DEF Written
  <2>2. \A x \in 1 .. Len(cp) : At(cp, x) = cp[x]
    BY DEF At
  <2>3. y[2] # i + 1
    <3> SUFFICES ASSUME y[2] = i + 1 PROVE FALSE
      OBVIOUS
    <3>1. i + 1 \in y[1] .. y[2] /\ i + 1 \in 1 .. Len(cp)
      BY <2>1
    <3> QED
      BY <2>1, <2>2, <3>1
  <2>4. y[2] = i
    <3>0. y[2] \in Nat /\ i \in Nat /\ y[2] <= i
      BY <1>2, <2>1, <2>3
    <3> SUFFICES ASSUME y[2] < i PROVE FALSE
      BY <3>0
    <3>1. y[2] + 1 \in b .. i /\ y[2] + 1 \in 1 .. Len(cp)
      BY <1>2, <2>1
    <3> QED
      BY <2>1, <2>2, <3>1
  <2>5. ~ (b < y[1])
    <3> SUFFICES ASSUME b < y[1] PROVE FALSE
      OBVIOUS
    <3>1. y[1] - 1 \in b .. i /\ y[1] # 1
      BY <2>1, <2>4
    <3>2. cp[y[1] - 1] \in Digits /\ cp[y[1] - 1] = ","
      BY <2>1, <3>1 DEF BeginsAt
    <3> QED
      BY <3>2, DigitsOf
  <2>6. ~ (y[1] < b)
    <3> SUFFICES ASSUME y[1] < b PROVE FALSE
      OBVIOUS
    <3>1. b - 1 \in y[1] .. y[2] /\ b # 1
      BY <1>2, <2>1
    <3>2. cp[b - 1] \in Digits /\ cp[b - 1] = ","
      BY <2>1, <3>1 DEF BeginsAt
    <3> QED
      BY <3>2, DigitsOf
  <2>7. y[1] = b
    BY <2>1, <2>5, <2>6
  <2> QED
    BY <2>1, <2>4, <2>7
<1> QED
  BY <1>1, <1>2

LEMMA TenDigits ==
  \A text, x : DigitAt(text, 10, x) <=> At(text, x) \in Digits
<1>1. 10 - 1 = 9
  OBVIOUS
<1> QED
  BY <1>1, DigitsOf, Zenon DEF DigitAt

\* What simple_strtoul makes of the digits.
LEMMA DigitsRead ==
  ASSUME NEW T, NEW digits \in Seq(T), \A x \in 1 .. Len(digits) : digits[x] \in Digits
  PROVE  simple_strtoul(digits, 10) = Number(10, digits) /\ HasValues(digits)
<1> DEFINE n == Len(digits)
<1>1. n \in Nat /\ (\A x \in 1 .. n : At(digits, x) = digits[x]) /\ At(digits, n + 1) = NUL
  BY DEF At
<1>2. \A x \in 1 .. n : DigitAt(digits, 10, x)
  BY <1>1, TenDigits
<1>3. ~ DigitAt(digits, 10, n + 1)
  BY <1>1, DigitsOf, TenDigits
<1>4. n \in 1 - 1 .. Len(digits)
  BY <1>1
<1>5. SubSeq(digits, 1, n) = digits
  OBVIOUS
<1>6. 1 = IF 10 = 16 /\ At(digits, 1) = "0" /\ At(digits, 2) = "x" THEN 3 ELSE 1
  OBVIOUS
<1>7. 10 \in {8, 10, 16}
  OBVIOUS
<1> HIDE DEF n
<1>8. \A base \in {8, 10, 16} : \A from : \A to \in from - 1 .. Len(digits) :
        /\ from = (IF base = 16 /\ At(digits, 1) = "0" /\ At(digits, 2) = "x" THEN 3 ELSE 1)
        /\ (\A k \in from .. to : DigitAt(digits, base, k)) /\ ~ DigitAt(digits, base, to + 1)
        => /\ simple_strtoul(digits, base) = Number(base, SubSeq(digits, from, to))
           /\ HasValues(SubSeq(digits, from, to))
  BY StrtoulReads, Zenon
<1>9. simple_strtoul(digits, 10) = Number(10, SubSeq(digits, 1, n)) /\ HasValues(SubSeq(digits, 1, n))
  BY <1>2, <1>3, <1>4, <1>6, <1>7, <1>8, Zenon
<1> QED
  BY <1>5, <1>9, Zenon

\* What has been read of a list: the number that is being read began at b.
Midway(cp, k, s, b) ==
  /\ b \in Nat /\ 1 <= b /\ b <= s.i /\ s.i <= Len(cp) + 1
  /\ BeginsAt(cp, b)
  /\ \A x \in b .. s.i - 1 : cp[x] \in Digits
  /\ s.j = Number(10, SubSeq(cp, b, s.i - 1))
  /\ b < s.i => At(cp, s.i) \in Digits
  /\ s.sel = Found(cp, k, b)
ScanInv(cp, k, s) ==
  /\ s \in Reading
  /\ IF s.ended THEN s.sel = Found(cp, k, Len(cp) + 1) ELSE \E b : Midway(cp, k, s, b)

LEMMA BegunInv ==
  ASSUME NEW T, NEW cp \in Seq(T), NEW k \in Nat
  PROVE  ScanInv(cp, k, Begun)
<1>1. Begun \in Reading /\ Begun.i = 1 /\ Begun.j = 0 /\ Begun.sel = {} /\ ~Begun.ended
  BY DEF Begun, Reading
<1>2. BeginsAt(cp, 1)
  BY DEF BeginsAt
<1>3. SubSeq(cp, 1, 0) = <<>>
  OBVIOUS
<1>4. Found(cp, k, 1) = {}
  BY DEF Found, Written
<1>5. Number(10, <<>>) = 0
  BY NumberEmpty
<1>7. Begun.i - 1 = 0 /\ 1 \in Nat /\ 1 <= Begun.i /\ ~ (1 < Begun.i) /\ Begun.i <= Len(cp) + 1
  BY <1>1
<1>8. \A x \in 1 .. Begun.i - 1 : cp[x] \in Digits
  BY <1>7
<1>9. Begun.j = Number(10, SubSeq(cp, 1, Begun.i - 1))
  BY <1>1, <1>3, <1>5, <1>7
<1>10. Begun.sel = Found(cp, k, 1)
  BY <1>1, <1>4
<1>6. Midway(cp, k, Begun, 1)
  BY <1>2, <1>7, <1>8, <1>9, <1>10 DEF Midway
<1> QED
  BY <1>1, <1>6 DEF ScanInv

LEMMA ScanInvStep ==
  ASSUME NEW T, NEW cp \in Seq(T), NEW k \in Nat, NEW s, ScanInv(cp, k, s), ~s.ended, At(cp, s.i) \in Digits
  PROVE  ScanInv(cp, k, Scan(s, cp, k)) /\ Scan(s, cp, k).i > s.i
<1> DEFINE i == s.i
           j == 10 * s.j + Value(cp[i])
           next == At(cp, i + 1)
           r == Scan(s, cp, k)
<1>1. s \in Reading /\ r \in Reading /\ i \in 1 .. Len(cp) /\ cp[i] \in Digits /\ i \in Nat
  BY ScanReads DEF ScanInv, Reading
<1>2. PICK b : Midway(cp, k, s, b)
  BY DEF ScanInv
<1>3. /\ b \in Nat /\ 1 <= b /\ b <= i
      /\ BeginsAt(cp, b)
      /\ \A x \in b .. i - 1 : cp[x] \in Digits
      /\ s.j = Number(10, SubSeq(cp, b, i - 1))
      /\ s.sel = Found(cp, k, b)
  BY <1>2 DEF Midway
<1>4. \A x \in b .. i : cp[x] \in Digits
  <2> SUFFICES ASSUME NEW x \in b .. i PROVE cp[x] \in Digits
    OBVIOUS
  <2>1. x = i \/ x \in b .. i - 1
    BY <1>1, <1>3
  <2> QED
    BY <1>1, <1>3, <2>1
<1>5. /\ r.i = IF next = "," THEN i + 2 ELSE i + 1
      /\ r.j = IF next \in Digits THEN j ELSE 0
      /\ r.sel = IF next \notin Digits /\ j < k THEN s.sel \cup {j} ELSE s.sel
      /\ r.ended = (next \notin Digits \cup {","})
  BY DEF Scan
<1>6. j = Number(10, SubSeq(cp, b, i)) /\ j \in Nat /\ simple_strtoul(SubSeq(cp, b, i), 10) = j
  <2> DEFINE d == SubSeq(cp, b, i - 1)
             e == SubSeq(cp, b, i)
  <2>1. d \in Seq(T) /\ Len(d) = i - b /\ \A x \in 1 .. Len(d) : d[x] = cp[b + x - 1]
    BY <1>1, <1>3
  <2>2. e \in Seq(T) /\ Len(e) = i - b + 1 /\ \A x \in 1 .. Len(e) : e[x] = cp[b + x - 1]
    BY <1>1, <1>3
  <2> HIDE DEF d, e, i
  <2>12. cp[i] \in T
    BY <1>1
  <2>13. Value(cp[i]) \in Nat
    BY <1>1, DigitsOf
  <2>3. e = Append(d, cp[i])
    <3> DEFINE a == Append(d, cp[i])
    <3>4. a \in Seq(T) /\ Len(a) = Len(d) + 1 /\ a[Len(d) + 1] = cp[i] /\ \A x \in 1 .. Len(d) : a[x] = d[x]
      BY <2>1, <2>12
    <3>1. a \in Seq(T) /\ Len(a) = i - b + 1 /\ a[i - b + 1] = cp[i] /\ \A x \in 1 .. i - b : a[x] = d[x]
      BY <2>1, <3>4
    <3> HIDE DEF a
    <3>2. ASSUME NEW x \in 1 .. Len(e) PROVE e[x] = a[x]
      <4>1. CASE x = i - b + 1
        BY <1>1, <1>3, <2>2, <3>1, <4>1
      <4>2. CASE x # i - b + 1
        <5>1. x \in 1 .. i - b
          BY <1>1, <1>3, <2>2, <4>2
        <5> QED
          BY <2>1, <2>2, <3>1, <5>1
      <4> QED
        BY <4>1, <4>2
    <3> QED
      BY <2>2, <3>1, <3>2, SeqEqual DEF a
  <2>4. \A x \in 1 .. Len(d) : d[x] \in Digits
    <3> SUFFICES ASSUME NEW x \in 1 .. Len(d) PROVE d[x] \in Digits
      OBVIOUS
    <3>1. b + x - 1 \in b .. i
      BY <1>1, <1>3, <2>1
    <3> QED
      BY <1>4, <2>1, <3>1
  <2>5. \A x \in 1 .. Len(e) : e[x] \in Digits
    <3> SUFFICES ASSUME NEW x \in 1 .. Len(e) PROVE e[x] \in Digits
      OBVIOUS
    <3>1. b + x - 1 \in b .. i
      BY <1>1, <1>3, <2>2
    <3> QED
      BY <1>4, <2>2, <3>1
  <2>6. HasValues(d)
    BY <2>1, <2>4, DigitsRead
  <2>7. simple_strtoul(e, 10) = Number(10, e)
    BY <2>2, <2>5, DigitsRead
  <2>8. cp[i] \in T /\ Value(cp[i]) \in Nat /\ 10 \in Nat
    BY <2>12, <2>13
  <2>9. Number(10, Append(d, cp[i])) = Number(10, d) * 10 + Value(cp[i]) /\ Number(10, d) \in Nat
    <3> DEFINE c == cp[i]
    <3>1. d \in Seq(T) /\ c \in T /\ Value(c) \in Nat /\ 10 \in Nat /\ HasValues(d)
      BY <2>1, <2>6, <2>8
    <3> HIDE DEF c
    <3>2. Number(10, Append(d, c)) = Number(10, d) * 10 + Value(c)
      BY <3>1, NumberGrows
    <3>3. Number(10, d) \in Nat
      BY <3>1, NumberGrows
    <3> QED
      BY <3>2, <3>3 DEF c
  <2>10. s.j = Number(10, d) /\ s.j \in Nat
    BY <1>3, <2>9 DEF d
  <2>11. j = s.j * 10 + Value(cp[i]) /\ j \in Nat
    BY <2>8, <2>10
  <2> HIDE DEF j
  <2> QED
    BY <2>3, <2>7, <2>9, <2>10, <2>11 DEF e
<1> HIDE DEF i, j, next, r
<1>7. ASSUME next \notin Digits
      PROVE  \A c \in Nat : c >= i + 1 /\ (\A y \in Written(cp) : y[2] < c => y[2] < i + 2)
               => r.sel = Found(cp, k, c)
  <2> SUFFICES ASSUME NEW c \in Nat, c >= i + 1, \A y \in Written(cp) : y[2] < c => y[2] < i + 2
               PROVE  r.sel = Found(cp, k, c)
    OBVIOUS
  <2>1. <<b, i>> \in Written(cp) /\ \A y \in Written(cp) : b <= y[2] /\ y[2] < i + 2 => y = <<b, i>>
    BY <1>1, <1>3, <1>4, <1>7, OneNumber DEF next
  <2>2. \A y \in Written(cp) : y[2] \in Nat
    BY DEF Written
  <2>3. \A y \in Written(cp) : y[2] < c <=> (y[2] < b \/ y = <<b, i>>)
    BY <1>1, <1>3, <2>1, <2>2
  <2>4. <<b, i>>[1] = b /\ <<b, i>>[2] = i
    OBVIOUS
  <2>5. \A v : v \in Found(cp, k, c) <=> (v \in Found(cp, k, b) \/ (v = j /\ v \in 0 .. k - 1))
    BY <1>6, <2>1, <2>3, <2>4 DEF Found
  <2>6. r.sel = IF j < k THEN s.sel \cup {j} ELSE s.sel
    BY <1>5, <1>7
  <2>7. j < k <=> j \in 0 .. k - 1
    BY <1>6
  <2> QED
    BY <1>3, <2>5, <2>6, <2>7
<1>8. CASE next \in Digits
  <2>1. next # ","
    BY <1>8, DigitsOf
  <2>2. r.i = i + 1 /\ r.j = j /\ r.sel = s.sel /\ ~r.ended
    BY <1>5, <1>8, <2>1
  <2>3. r.i - 1 = i /\ r.i > i
    BY <1>1, <2>2
  <2>4. Midway(cp, k, r, b)
    BY <1>1, <1>3, <1>4, <1>6, <1>8, <2>2, <2>3 DEF Midway, next
  <2> QED
    BY <1>1, <2>2, <2>3, <2>4 DEF ScanInv, r, i
<1>9. CASE next = ","
  <2>1. next \notin Digits
    BY <1>9, DigitsOf
  <2>2. r.i = i + 2 /\ r.j = 0 /\ ~r.ended
    BY <1>5, <1>9, <2>1
  <2>3. i + 1 \in 1 .. Len(cp) /\ cp[i + 1] = ","
    <3>1. At(cp, i + 1) = "," /\ "," # NUL
      BY <1>9 DEF next, NUL
    <3>2. i + 1 \in DOMAIN cp
      BY <3>1 DEF At
    <3>3. DOMAIN cp = 1 .. Len(cp)
      OBVIOUS
    <3>4. cp[i + 1] = ","
      BY <3>1, <3>2 DEF At
    <3> QED
      BY <3>2, <3>3, <3>4
  <2>4. BeginsAt(cp, i + 2)
    <3>0. (i + 2) - 1 = i + 1
      BY <1>1
    <3>1. cp[(i + 2) - 1] = ","
      BY <2>3, <3>0
    <3>2. ASSUME NEW x \in 1 .. (i + 2) - 1 PROVE cp[x] \in Digits \cup {","} /\ (cp[x] = "," => x # 1 /\ cp[x - 1] # ",")
      <4>1. CASE x \in 1 .. b - 1
        BY <1>3, <4>1 DEF BeginsAt
      <4>2. CASE x \in b .. i
        BY <1>4, <4>2, DigitsOf
      <4>3. CASE x = i + 1
        <5>1. x # 1 /\ x - 1 = i
          BY <1>1, <4>3
        <5>2. cp[i] # ","
          BY <1>1, DigitsOf
        <5> QED
          BY <2>3, <4>3, <5>1, <5>2
      <4>4. x \in 1 .. i + 1
        BY <3>0
      <4>5. x \in 1 .. b - 1 \/ x \in b .. i \/ x = i + 1
        BY <1>1, <1>3, <4>4
      <4> QED
        BY <4>1, <4>2, <4>3, <4>5
    <3> QED
      BY <3>1, <3>2 DEF BeginsAt
  <2>5. r.sel = Found(cp, k, i + 2)
    BY <1>1, <1>7, <2>1
  <2>6. SubSeq(cp, i + 2, r.i - 1) = <<>>
    BY <1>1, <2>2
  <2>7. Number(10, <<>>) = 0
    BY NumberEmpty
  <2>9. i + 2 \in Nat /\ 1 <= i + 2 /\ i + 2 <= r.i /\ r.i <= Len(cp) + 1 /\ ~ (i + 2 < r.i)
    <3>1. i + 2 \in Nat /\ 1 <= i + 2 /\ i + 2 <= i + 2 /\ ~ (i + 2 < i + 2)
      BY <1>1
    <3>4. Len(cp) \in Nat
      OBVIOUS
    <3>5. i \in Nat /\ i + 1 \in 1 .. Len(cp)
      BY <1>1, <2>3
    <3>3. i \in Int /\ Len(cp) \in Int /\ i + 1 <= Len(cp)
      BY <3>4, <3>5
    <3>2. i + 2 <= Len(cp) + 1
      BY <3>3
    <3> QED
      BY <2>2, <3>1, <3>2
  <2>10. \A x \in i + 2 .. r.i - 1 : cp[x] \in Digits
    BY <1>1, <2>2
  <2>8. Midway(cp, k, r, i + 2)
    BY <2>2, <2>4, <2>5, <2>6, <2>7, <2>9, <2>10 DEF Midway
  <2> QED
    BY <1>1, <2>2, <2>8 DEF ScanInv, r, i
<1>10. CASE next \notin Digits \cup {","}
  <2>1. r.i = i + 1 /\ r.ended
    BY <1>5, <1>10
  <2>2. ASSUME NEW y \in Written(cp), ~ (y[2] < i + 2) PROVE FALSE
    <3>1. /\ y[1] \in 1 .. Len(cp) /\ y[2] \in 1 .. Len(cp) /\ y[1] <= y[2]
          /\ (\A x \in y[1] .. y[2] : cp[x] \in Digits) /\ BeginsAt(cp, y[1])
      BY DEF Written
    <3>2. i + 1 \in 1 .. Len(cp) /\ cp[i + 1] = next
      BY <1>1, <2>2, <3>1 DEF next, At
    <3>3. CASE y[1] <= i + 1
      <4>1. i + 1 \in y[1] .. y[2]
        BY <1>1, <2>2, <3>1, <3>3
      <4> QED
        BY <1>10, <3>1, <3>2, <4>1
    <3>4. CASE y[1] > i + 1
      <4>1. i + 1 \in 1 .. y[1] - 1
        BY <1>1, <3>1, <3>4
      <4> QED
        BY <1>10, <3>1, <3>2, <4>1 DEF BeginsAt
    <3> QED
      BY <1>1, <3>1, <3>3, <3>4
  <2>3. Len(cp) + 1 \in Nat /\ Len(cp) + 1 >= i + 1
    BY <1>1
  <2>4. r.sel = Found(cp, k, Len(cp) + 1)
    BY <1>7, <1>10, <2>2, <2>3
  <2> QED
    BY <1>1, <2>1, <2>4 DEF ScanInv, r, i
<1> QED
  BY <1>8, <1>9, <1>10

\* A list that has been read to its end selects the numbers written in it.
LEMMA StopInv ==
  ASSUME NEW T, NEW cp \in Seq(T), NEW k \in Nat, NEW s, ScanInv(cp, k, s), s.ended \/ At(cp, s.i) \notin Digits
  PROVE  s.sel = Found(cp, k, Len(cp) + 1)
<1>1. CASE s.ended
  BY <1>1 DEF ScanInv
<1>2. CASE ~s.ended
  <2>1. PICK b : Midway(cp, k, s, b)
    BY <1>2 DEF ScanInv
  <2>2. s.i \in Nat
    BY DEF ScanInv, Reading
  <2>3. /\ b \in Nat /\ 1 <= b /\ s.i = b /\ BeginsAt(cp, b) /\ At(cp, b) \notin Digits
        /\ s.sel = Found(cp, k, b)
    BY <1>2, <2>1, <2>2 DEF Midway
  <2>4. ASSUME NEW y \in Written(cp), b <= y[2] PROVE FALSE
    <3>1. /\ y[1] \in 1 .. Len(cp) /\ y[2] \in 1 .. Len(cp) /\ y[1] <= y[2]
          /\ (\A x \in y[1] .. y[2] : cp[x] \in Digits) /\ BeginsAt(cp, y[1])
      BY DEF Written
    <3>2. b \in 1 .. Len(cp) /\ cp[b] \notin Digits
      BY <2>3, <2>4, <3>1 DEF At
    <3>3. CASE y[1] <= b
      <4>1. b \in y[1] .. y[2]
        BY <2>3, <2>4, <3>1, <3>3
      <4> QED
        BY <3>1, <3>2, <4>1
    <3>4. CASE b < y[1]
      <4>1. b \in 1 .. y[1] - 1
        BY <2>3, <3>1, <3>4
      <4>2. cp[b] = ","
        BY <3>1, <3>2, <4>1 DEF BeginsAt
      <4>3. b # 1 /\ cp[b - 1] # ","
        BY <3>1, <4>1, <4>2 DEF BeginsAt
      <4> QED
        BY <2>3, <4>3 DEF BeginsAt
    <3> QED
      BY <2>3, <3>1, <3>3, <3>4
  <2>5. \A y \in Written(cp) : y[2] < Len(cp) + 1 /\ y[2] \in Nat
    BY DEF Written
  <2>6. \A y \in Written(cp) : y[2] < b
    BY <2>3, <2>4, <2>5
  <2>7. Found(cp, k, b) = Found(cp, k, Len(cp) + 1)
    BY <2>5, <2>6 DEF Found
  <2> QED
    BY <2>3, <2>7
<1> QED
  BY <1>1, <1>2

LEMMA ListIsExact ==
  ASSUME NEW T, NEW cp \in Seq(T), NEW k \in Nat
  PROVE  ListOf(cp, k).sel = NumbersIn(cp) \cap (0 .. k - 1)
<1>1. PICK s : Runs(cp, k, s) /\ ListOf(cp, k) = s[Len(cp)]
  BY ListRuns
<1> DEFINE Stops(t) == s[t].ended \/ At(cp, s[t].i) \notin Digits
           G == {t \in 0 .. Len(cp) : ScanInv(cp, k, s[t]) /\ (Stops(t) \/ t < s[t].i)}
<1>2. 0 \in G
  <2>1. s[0] = Begun /\ Begun.i = 1
    BY <1>1 DEF Runs, Begun
  <2> QED
    BY <2>1, BegunInv
<1>3. ASSUME NEW t \in 1 .. Len(cp), t - 1 \in G PROVE t \in G
  <2>1. s[t] = IF Stops(t - 1) THEN s[t - 1] ELSE Scan(s[t - 1], cp, k)
    BY <1>1 DEF Runs
  <2>2. ScanInv(cp, k, s[t - 1]) /\ (Stops(t - 1) \/ t - 1 < s[t - 1].i)
    BY <1>3
  <2>3. CASE Stops(t - 1)
    BY <2>1, <2>2, <2>3
  <2>4. CASE ~Stops(t - 1)
    <3>1. ScanInv(cp, k, s[t]) /\ s[t].i > s[t - 1].i
      BY <2>1, <2>2, <2>4, ScanInvStep
    <3>2. s[t].i \in Nat /\ s[t - 1].i \in Nat
      BY <2>2, <3>1 DEF ScanInv, Reading
    <3>3. t < s[t].i
      BY <2>2, <2>4, <3>1, <3>2
    <3> QED
      BY <3>1, <3>3
  <2> QED
    BY <2>3, <2>4
<1>4. Len(cp) \in G
  <2>1. Len(cp) \in Nat /\ Len(cp) \in 0 .. Len(cp)
    OBVIOUS
  <2> HIDE DEF G
  <2> QED
    BY <1>2, <1>3, <2>1, UpTo
<1>5. ScanInv(cp, k, s[Len(cp)]) /\ Stops(Len(cp))
  <2>1. ScanInv(cp, k, s[Len(cp)]) /\ (Stops(Len(cp)) \/ Len(cp) < s[Len(cp)].i)
    BY <1>4
  <2>2. ASSUME Len(cp) < s[Len(cp)].i PROVE At(cp, s[Len(cp)].i) = NUL
    BY <2>2 DEF At
  <2> QED
    BY <2>1, <2>2, DigitsOf
<1> QED
  BY <1>1, <1>5, StopInv, NumbersFound

(* What is on a call stack, as a set. *)
Frames(s) == {s[i] : i \in 1 .. Len(s)}
Numbers == {"number", "lower", "upper"}
Lists == {"list", "listed"}

LEMMA FramesConcat ==
  ASSUME NEW S, NEW a \in Seq(S), NEW b \in Seq(S)
  PROVE  Frames(a \o b) \subseteq Frames(a) \cup Frames(b)
<1>1. Len(a) \in Nat /\ Len(b) \in Nat /\ Len(a \o b) = Len(a) + Len(b)
      /\ \A i \in 1 .. Len(a) + Len(b) : (a \o b)[i] = IF i <= Len(a) THEN a[i] ELSE b[i - Len(a)]
  BY ConcatProperties
<1>2. ASSUME NEW i \in 1 .. Len(a \o b) PROVE (a \o b)[i] \in Frames(a) \cup Frames(b)
  <2>1. CASE i <= Len(a)
    <3>1. i \in 1 .. Len(a) /\ (a \o b)[i] = a[i]
      BY <1>1, <2>1
    <3> QED
      BY <3>1 DEF Frames
  <2>2. CASE ~ (i <= Len(a))
    <3>1. i - Len(a) \in 1 .. Len(b) /\ (a \o b)[i] = b[i - Len(a)]
      BY <1>1, <2>2
    <3> QED
      BY <3>1 DEF Frames
  <2> QED
    BY <2>1, <2>2
<1> QED
  BY <1>2 DEF Frames

LEMMA FramesSub ==
  ASSUME NEW S, NEW s \in Seq(S), NEW n \in Nat
  PROVE  SubSeq(s, n + 1, Len(s)) \in Seq(S) /\ Frames(SubSeq(s, n + 1, Len(s))) \subseteq Frames(s)
<1> DEFINE u == SubSeq(s, n + 1, Len(s))
<1>1. /\ u \in Seq(S) /\ Len(s) \in Nat
      /\ Len(u) = (IF n + 1 <= Len(s) THEN Len(s) - n ELSE 0)
      /\ \A i \in 1 .. Len(u) : u[i] = s[n + i]
  OBVIOUS
<1> HIDE DEF u
<1>2. ASSUME NEW i \in 1 .. Len(u) PROVE u[i] \in Frames(s)
  <2>1. n + i \in 1 .. Len(s) /\ u[i] = s[n + i]
    BY <1>1
  <2> QED
    BY <2>1 DEF Frames
<1> QED
  BY <1>1, <1>2 DEF Frames, u

LEMMA FramesListed ==
  ASSUME NEW a, NEW b, NEW S, a \in S, b \in S
  PROVE  /\ <<>> \in Seq(S) /\ Frames(<<>>) = {}
         /\ <<a>> \in Seq(S) /\ Frames(<<a>>) = {a}
         /\ <<a, b>> \in Seq(S) /\ Frames(<<a, b>>) = {a, b}
<1>1. Len(<<>>) = 0 /\ Len(<<a>>) = 1 /\ Len(<<a, b>>) = 2 /\ <<a>>[1] = a /\ <<a, b>>[1] = a /\ <<a, b>>[2] = b
  OBVIOUS
<1>2. Frames(<<>>) = {}
  BY <1>1 DEF Frames
<1>3. Frames(<<a>>) = {a}
  BY <1>1 DEF Frames
<1>4. Frames(<<a, b>>) = {a, b}
  <2>1. 1 .. 2 = {1, 2}
    OBVIOUS
  <2> QED
    BY <1>1, <2>1 DEF Frames
<1> QED
  BY <1>2, <1>3, <1>4

\* What calls and returns put on the stack.
LEMMA FramesUnwind ==
  ASSUME stack \in [CPU -> Seq(Frame)], NEW p \in CPU, NEW n \in Nat, NEW fs \in Seq(Frame), Unwind(p, n, fs)
  PROVE  /\ Frames(stack'[p]) \subseteq Frames(fs) \cup Frames(stack[p])
         /\ \A q \in CPU : q # p => stack'[q] = stack[q]
<1> DEFINE s == stack[p]
           u == SubSeq(s, n + 1, Len(s))
<1>1. s \in Seq(Frame)
  OBVIOUS
<1>2. stack' = [stack EXCEPT ![p] = fs \o u]
  BY DEF Unwind
<1>3. stack'[p] = fs \o u /\ \A q \in CPU : q # p => stack'[q] = stack[q]
  BY <1>2
<1> HIDE DEF s
<1>4. u \in Seq(Frame) /\ Frames(u) \subseteq Frames(s)
  BY <1>1, FramesSub
<1> HIDE DEF u
<1>5. Frames(fs \o u) \subseteq Frames(fs) \cup Frames(u)
  BY <1>4, FramesConcat
<1> QED
  BY <1>3, <1>4, <1>5 DEF s

LEMMA FramesTop ==
  ASSUME NEW s \in Seq(Frame), s # <<>>
  PROVE  Frames(s) = {Head(s)} \cup Frames(Tail(s))
<1>1. Len(s) \in Nat \ {0} /\ Head(s) = s[1]
  OBVIOUS
<1>2. Tail(s) \in Seq(Frame) /\ Len(Tail(s)) = Len(s) - 1 /\ \A i \in 1 .. Len(Tail(s)) : Tail(s)[i] = s[i + 1]
  BY HeadTailProperties
<1>3. ASSUME NEW i \in 1 .. Len(s) PROVE s[i] \in {Head(s)} \cup Frames(Tail(s))
  <2>1. CASE i = 1
    BY <1>1, <2>1
  <2>2. CASE i # 1
    <3>1. i - 1 \in 1 .. Len(Tail(s)) /\ (i - 1) + 1 = i
      BY <1>1, <1>2, <2>2
    <3>2. Tail(s)[i - 1] = s[i]
      BY <1>2, <3>1
    <3> QED
      BY <3>1, <3>2 DEF Frames
  <2> QED
    BY <2>1, <2>2
<1>4. ASSUME NEW i \in 1 .. Len(Tail(s)) PROVE Tail(s)[i] \in Frames(s)
  <2>1. i + 1 \in 1 .. Len(s) /\ Tail(s)[i] = s[i + 1]
    BY <1>1, <1>2
  <2> QED
    BY <2>1 DEF Frames
<1>5. Head(s) \in Frames(s)
  <2>1. 1 \in 1 .. Len(s)
    BY <1>1
  <2> QED
    BY <1>1, <2>1 DEF Frames
<1> QED
  BY <1>3, <1>4, <1>5 DEF Frames

\* What is under the menu of the tests, and under what it calls.
LEMMA FramesUnder ==
  ASSUME NEW s, Shape(s), s # <<>>
  PROVE  /\ Head(s) = "menu" => Frames(s) \subseteq {"menu"} \cup Lines
         /\ Head(s) = "tests" => /\ Tail(s) # <<>> /\ Frames(s) \subseteq {"tests", "menu"} \cup Lines
                                 /\ Frames(Tail(s)) \subseteq {"menu"} \cup Lines
         /\ Head(s) \in {"number", "list", "listed"}
              => /\ Tail(s) # <<>> /\ Frames(Tail(s)) \subseteq {"tests", "menu"} \cup Lines
                 /\ Tail(Tail(s)) \in Seq(Frame) /\ Frames(Tail(Tail(s))) \subseteq {"menu"} \cup Lines
<1>1. \A t : Shape(t) => t \in Seq(Frame)
  BY DEF Shape
<1>2. \A t : Shape(t) /\ AllLines(t) => Frames(t) \subseteq Lines
  BY DEF AllLines, Frames
<1>3. ASSUME NEW t, Shape(t), t # <<>>, Head(t) = "menu"
      PROVE  Frames(t) \subseteq {"menu"} \cup Lines
  <2>1. Shape(Tail(t)) /\ AllLines(Tail(t))
    BY <1>3, Popped
  <2> QED
    BY <1>1, <1>2, <1>3, <2>1, FramesTop
<1>4. ASSUME NEW t, Shape(t), t # <<>>, Head(t) = "tests"
      PROVE  /\ Tail(t) # <<>> /\ Frames(t) \subseteq {"tests", "menu"} \cup Lines
             /\ Tail(t) \in Seq(Frame) /\ Frames(Tail(t)) \subseteq {"menu"} \cup Lines
  <2>1. Shape(Tail(t)) /\ Tail(t) # <<>> /\ Head(Tail(t)) \in Under("tests")
    BY <1>4, Popped DEF Submenus
  <2>2. Head(Tail(t)) = "menu"
    BY <2>1 DEF Under, Submenus
  <2> QED
    BY <1>1, <1>3, <1>4, <2>1, <2>2, FramesTop
<1>5. ASSUME Head(s) \in {"number", "list", "listed"}
      PROVE  /\ Tail(s) # <<>> /\ Frames(Tail(s)) \subseteq {"tests", "menu"} \cup Lines
             /\ Tail(Tail(s)) \in Seq(Frame) /\ Frames(Tail(Tail(s))) \subseteq {"menu"} \cup Lines
  <2>1. Shape(Tail(s)) /\ Tail(s) # <<>> /\ Head(Tail(s)) \in Under(Head(s))
    BY <1>5, Popped DEF Entries
  <2>2. Head(Tail(s)) = "tests"
    BY <1>5, <2>1 DEF Under, Submenus
  <2> QED
    BY <1>4, <2>1, <2>2
<1> QED
  BY <1>3, <1>4, <1>5

\* The texts of the command line are sequences of characters.
OptionsOf(c) == {c.opts[i] : i \in 1 .. Len(c.opts)}
CommandLines == \A c \in Cases : /\ c.opts \in Seq(OptionsOf(c))
                                 /\ \A o \in OptionsOf(c) : o.opt = "tstlist" => o.text \in Seq(STRING)

\* While a number is typed the buffer holds one; while a list is typed no test is
\* selected.  No menu is open before the command line has been read.
Unlisted == sel \cap (0 .. NTests - 1) = {}
FieldInv(q) == /\ Frames(stack[q]) \cap Numbers # {} => NumberText(buf)
               /\ Frames(stack[q]) \cap Lists # {} => Unlisted
TextInv == /\ ScrInv /\ buf \in Seq(Event)
           /\ opts \in Seq(OptionsOf(case))
           /\ started => opts = <<>>
           /\ \A q \in CPU : stack[q] # <<>> => started
           /\ \A q \in CPU : FieldInv(q)

LEMMA NoText ==
  NumberText(<<>>)
BY DEF NumberText

LEMMA InitText ==
  ASSUME OneUser, CommandLines, Init
  PROVE  TextInv
<1>1. ScrInv
  BY InitScrInv
<1>2. buf = <<>> /\ opts = case.opts /\ ~started /\ case \in Cases /\ \A q \in CPU : stack[q] = <<>>
  BY DEF Init
<1>3. Frames(<<>>) = {} /\ <<>> \in Seq(Event)
  BY DEF Frames
<1>4. opts \in Seq(OptionsOf(case))
  BY <1>2 DEF CommandLines
<1> QED
  BY <1>1, <1>2, <1>3, <1>4 DEF TextInv, FieldInv

\* A step of p: what is on the stack afterwards, and what it needs of the buffer and
\* the selection; that p is alone if it changes them.
LEMMA TextStep ==
  ASSUME TextInv, ScrInv', UNCHANGED <<case, opts, started>>, started, buf' \in Seq(Event),
         NEW p \in CPU, \A q \in CPU : q # p => stack'[q] = stack[q],
         Frames(stack'[p]) \cap Numbers # {} => NumberText(buf'),
         Frames(stack'[p]) \cap Lists # {} => Unlisted',
         CPU = {p} \/ UNCHANGED <<buf, sel>>
  PROVE  TextInv'
<1>1. CPU' = CPU /\ Event' = Event
  BY DEF CPU, Event
<1>2. ASSUME NEW q \in CPU PROVE FieldInv(q)'
  <2>1. CASE q = p
    BY <2>1 DEF FieldInv
  <2>2. CASE q # p
    <3>1. UNCHANGED <<buf, sel>> /\ stack'[q] = stack[q]
      BY <2>2
    <3>2. Unlisted' <=> Unlisted
      BY <3>1 DEF Unlisted, NTests
    <3> QED
      BY <3>1, <3>2 DEF FieldInv, TextInv
  <2> QED
    BY <2>1, <2>2
<1>3. opts' \in Seq(OptionsOf(case'))
  BY DEF TextInv
<1> QED
  BY <1>1, <1>2, <1>3 DEF TextInv

\* Calls and returns that leave the buffer and the selection alone.
LEMMA QuietText ==
  ASSUME TextInv, ScrInv', UNCHANGED <<case, opts, started, buf, sel>>, started,
         NEW p \in CPU,
         \/ UNCHANGED stack
         \/ \E n \in Nat : \E fs \in Seq(Frame) : Unwind(p, n, fs) /\ Frames(fs) \cap Entries = {}
  PROVE  TextInv'
<1>1. stack \in [CPU -> Seq(Frame)]
  BY DEF TextInv, ScrInv, Stacks
<1>2. /\ Frames(stack'[p]) \cap Entries \subseteq Frames(stack[p]) \cap Entries
      /\ \A q \in CPU : q # p => stack'[q] = stack[q]
  <2>1. CASE UNCHANGED stack
    BY <2>1
  <2>2. ASSUME NEW n \in Nat, NEW fs \in Seq(Frame), Unwind(p, n, fs), Frames(fs) \cap Entries = {}
        PROVE  /\ Frames(stack'[p]) \cap Entries \subseteq Frames(stack[p]) \cap Entries
               /\ \A q \in CPU : q # p => stack'[q] = stack[q]
    BY <1>1, <2>2, FramesUnwind
  <2> QED
    BY <2>1, <2>2
<1>3. Numbers \subseteq Entries /\ Lists \subseteq Entries
  BY DEF Numbers, Lists, Entries
<1>4. buf' \in Seq(Event) /\ (Unlisted' <=> Unlisted) /\ buf' = buf
  BY DEF TextInv, Unlisted, NTests
<1>5. FieldInv(p)
  BY DEF TextInv
<1>6. Frames(stack'[p]) \cap Numbers # {} => NumberText(buf')
  BY <1>2, <1>3, <1>4, <1>5 DEF FieldInv
<1>7. Frames(stack'[p]) \cap Lists # {} => Unlisted'
  BY <1>2, <1>3, <1>4, <1>5 DEF FieldInv
<1> QED
  BY <1>2, <1>4, <1>6, <1>7, TextStep

\* Who is in a menu is alone there, and its CPU has something on its stack.
LEMMA AloneInMenu ==
  ASSUME TextInv, NEW p \in CPU, Top(p) \in Menus
  PROVE  /\ CPU = {p} /\ started /\ opts = <<>>
         /\ stack[p] \in Seq(Frame) /\ Shape(stack[p]) /\ stack[p] # <<>> /\ Head(stack[p]) = Top(p)
         /\ Top(p) \in Frames(stack[p])
<1>1. ScrInv
  BY DEF TextInv
<1>2. stack[p] \in Seq(Frame) /\ Shape(stack[p]) /\ stack[p] # <<>> /\ Head(stack[p]) = Top(p) /\ ~NoMenus
  BY <1>1, InMenus
<1>3. CPU = {p}
  BY <1>1, <1>2 DEF ScrInv, OneMenu
<1>4. Top(p) \in Frames(stack[p])
  BY <1>2, FramesTop
<1> QED
  BY <1>2, <1>3, <1>4 DEF TextInv

\* One call over a menu, and a return.
LEMMA Over ==
  ASSUME NEW f \in Frame
  PROVE  /\ <<>> \in Seq(Frame) /\ Frames(<<>>) = {}
         /\ <<f>> \in Seq(Frame) /\ Frames(<<f>>) = {f}
         /\ <<"keyup", f>> \in Seq(Frame) /\ Frames(<<"keyup", f>>) = {"keyup", f}
<1>1. "keyup" \in Frame
  BY DEF Frame
<1> QED
  BY <1>1, FramesListed

LEMMA NotEntries ==
  /\ (Lines \cup {"menu", "keyup", "halted"} \cup Submenus) \cap Entries = {}
  /\ Numbers \cap Lists = {} /\ Numbers \cup Lists = Entries
  /\ Lines \cup {"menu", "keyup", "halted"} \cup Submenus \cup Entries = Frame
BY DEF Lines, Submenus, Entries, Numbers, Lists, Frame

\* What calls a frame that is no entry, or returns, is quiet.
LEMMA PlainText ==
  ASSUME TextInv, ScrInv', UNCHANGED <<case, opts, started, buf, sel>>, started, NEW p \in CPU,
         \/ UNCHANGED stack \/ Unwind(p, 1, <<>>)
         \/ \E f \in Frame \ Entries : \/ Unwind(p, 0, <<f>>) \/ Unwind(p, 1, <<f>>)
                                       \/ Unwind(p, 0, <<"keyup", f>>) \/ Unwind(p, 1, <<"keyup", f>>)
  PROVE  TextInv'
<1>1. 0 \in Nat /\ 1 \in Nat
  OBVIOUS
<1>2. CASE UNCHANGED stack
  BY <1>2, QuietText
<1>3. CASE Unwind(p, 1, <<>>)
  <2>1. <<>> \in Seq(Frame) /\ Frames(<<>>) \cap Entries = {}
    BY DEF Frames
  <2> QED
    BY <1>1, <1>3, <2>1, QuietText
<1>4. ASSUME NEW f \in Frame \ Entries,
             \/ Unwind(p, 0, <<f>>) \/ Unwind(p, 1, <<f>>)
             \/ Unwind(p, 0, <<"keyup", f>>) \/ Unwind(p, 1, <<"keyup", f>>)
      PROVE  TextInv'
  <2>1. /\ <<f>> \in Seq(Frame) /\ Frames(<<f>>) \cap Entries = {}
        /\ <<"keyup", f>> \in Seq(Frame) /\ Frames(<<"keyup", f>>) \cap Entries = {}
    BY Over, NotEntries
  <2>2. CASE Unwind(p, 0, <<f>>)
    BY <1>1, <2>1, <2>2, QuietText
  <2>3. CASE Unwind(p, 1, <<f>>)
    BY <1>1, <2>1, <2>3, QuietText
  <2>4. CASE Unwind(p, 0, <<"keyup", f>>)
    BY <1>1, <2>1, <2>4, QuietText
  <2>5. CASE Unwind(p, 1, <<"keyup", f>>)
    BY <1>1, <2>1, <2>5, QuietText
  <2> QED
    BY <1>4, <2>2, <2>3, <2>4, <2>5
<1> QED
  BY <1>2, <1>3, <1>4

\* check_input calls the menu at most, and what follows it.
LEMMA InputText ==
  ASSUME TextInv, ScrInv', UNCHANGED <<case, opts, started, buf, sel>>, started, NEW p \in CPU,
         NEW e, NEW n \in Nat, NEW fs \in Seq(Frame), Frames(fs) \cap Entries = {}, check_input(p, e, n, fs)
  PROVE  TextInv'
<1>1. "halted" \in Frame \ Entries /\ "keyup" \in Frame \ Entries /\ "menu" \in Frame \ Entries
  BY NotEntries
<1>2. CASE Unwind(p, n, <<"halted">>)
  <2>1. <<"halted">> \in Seq(Frame) /\ Frames(<<"halted">>) \cap Entries = {}
    BY <1>1, Over
  <2> QED
    BY <1>2, <2>1, QuietText
<1>3. CASE Unwind(p, n, <<"keyup", "menu">> \o fs)
  <2>1. <<"keyup", "menu">> \in Seq(Frame) /\ Frames(<<"keyup", "menu">>) \cap Entries = {}
    BY <1>1, Over
  <2> DEFINE gs == <<"keyup", "menu">> \o fs
  <2>2. gs \in Seq(Frame)
    BY <2>1, ConcatProperties
  <2>3. Frames(gs) \subseteq Frames(<<"keyup", "menu">>) \cup Frames(fs)
    BY <2>1, FramesConcat
  <2>4. Frames(gs) \cap Entries = {}
    BY <2>1, <2>3
  <2> HIDE DEF gs
  <2>5. Unwind(p, n, gs)
    BY <1>3 DEF gs
  <2> QED
    BY <2>2, <2>4, <2>5, QuietText
<1>4. CASE Unwind(p, n, fs)
  BY <1>4, QuietText
<1> QED
  BY <1>2, <1>3, <1>4 DEF check_input

\* What a CPU in a menu does to its own stack.
LEMMA MenuText ==
  ASSUME TextInv, ScrInv', UNCHANGED <<case, opts, started>>, NEW p \in CPU, Top(p) \in Menus,
         buf' \in Seq(Event),
         Frames(stack'[p]) \cap Numbers # {} => NumberText(buf'),
         Frames(stack'[p]) \cap Lists # {} => Unlisted'
  PROVE  TextInv'
<1>1. CPU = {p} /\ started
  BY AloneInMenu
<1>2. \A q \in CPU : q # p => stack'[q] = stack[q]
  BY <1>1
<1> QED
  BY <1>1, <1>2, TextStep

\* What is on its stack afterwards.
LEMMA Afterwards ==
  ASSUME TextInv, NEW p \in CPU
  PROVE  /\ UNCHANGED stack => stack'[p] = stack[p]
         /\ Return(p) => Frames(stack'[p]) \subseteq Frames(stack[p])
         /\ \A f \in Frame : Call(p, <<"keyup", f>>) => Frames(stack'[p]) \subseteq {"keyup", f} \cup Frames(stack[p])
<1>1. stack \in [CPU -> Seq(Frame)] /\ 0 \in Nat /\ 1 \in Nat
  BY DEF TextInv, ScrInv, Stacks
<1>2. ASSUME Return(p) PROVE Frames(stack'[p]) \subseteq Frames(stack[p])
  <2>1. <<>> \in Seq(Frame) /\ Frames(<<>>) = {} /\ Unwind(p, 1, <<>>)
    BY <1>2 DEF Return, Frames
  <2> QED
    BY <1>1, <2>1, FramesUnwind
<1>3. ASSUME NEW f \in Frame, Call(p, <<"keyup", f>>)
      PROVE  Frames(stack'[p]) \subseteq {"keyup", f} \cup Frames(stack[p])
  <2>1. <<"keyup", f>> \in Seq(Frame) /\ Frames(<<"keyup", f>>) = {"keyup", f} /\ Unwind(p, 0, <<"keyup", f>>)
    BY <1>3, Over DEF Call
  <2> QED
    BY <1>1, <2>1, FramesUnwind
<1> QED
  BY <1>2, <1>3

\* The return from an entry to the menu it was called from leaves none on the stack.
LEMMA EntryLeft ==
  ASSUME TextInv, NEW p \in CPU, Top(p) \in {"number", "listed"}, Unwind(p, 2, <<>>)
  PROVE  Frames(stack'[p]) \cap Entries = {}
<1> DEFINE s == stack[p]
<1>1. Top(p) \in Menus
  BY DEF Menus, Entries
<1>2. s \in Seq(Frame) /\ Shape(s) /\ s # <<>> /\ Head(s) = Top(p)
  BY <1>1, AloneInMenu
<1>3. Tail(s) # <<>> /\ Frames(Tail(Tail(s))) \subseteq {"menu"} \cup Lines
  BY <1>2, FramesUnder
<1>4. "menu" \in Frame /\ stack' = [stack EXCEPT ![p] = <<>> \o SubSeq(s, 2 + 1, Len(s))]
  BY DEF Unwind, Frame
<1>5. stack \in [CPU -> Seq(Frame)]
  BY DEF TextInv, ScrInv, Stacks
<1>6. stack'[p] = <<>> \o SubSeq(s, 2 + 1, Len(s))
  BY <1>4, <1>5
<1>7. <<>> \o SubSeq(s, 2 + 1, Len(s)) = Tail(Tail(s))
  BY <1>2, <1>3, <1>4, Unwound
<1> QED
  BY <1>3, <1>6, <1>7, NotEntries

\* The menu of the tests: a list begins with no test selected, an entry with no text.
LEMMA TestMenuText ==
  ASSUME TextInv, ScrInv', NEW p \in CPU, TestMenu(p)
  PROVE  TextInv'
<1>1. Top(p) = "tests" /\ UNCHANGED <<case, opts, started>>
  BY DEF TestMenu, boot
<1>2. Top(p) \in Menus
  BY <1>1 DEF Menus, Submenus
<1>3. Frames(stack[p]) \cap Entries = {}
  <2>1. Shape(stack[p]) /\ stack[p] # <<>> /\ Head(stack[p]) = "tests"
    BY <1>1, <1>2, AloneInMenu
  <2>2. Frames(stack[p]) \subseteq {"tests", "menu"} \cup Lines
    BY <2>1, FramesUnder
  <2> QED
    BY <2>2 DEF Lines, Entries
<1>4. \/ (UNCHANGED stack \/ Return(p)) /\ UNCHANGED buf
      \/ buf' = <<>> /\ Call(p, <<"keyup", "number">>)
      \/ buf' = <<>> /\ Call(p, <<"keyup", "list">>) /\ sel' = sel \ (0 .. NTests - 1)
  BY DEF TestMenu
<1>5. buf \in Seq(Event) /\ <<>> \in Seq(Event)
  BY DEF TextInv
<1>6. CASE (UNCHANGED stack \/ Return(p)) /\ UNCHANGED buf
  <2>1. Frames(stack'[p]) \cap Numbers = {} /\ Frames(stack'[p]) \cap Lists = {}
    BY <1>3, <1>6, Afterwards, NotEntries
  <2> QED
    BY <1>1, <1>2, <1>5, <1>6, <2>1, MenuText
<1>7. CASE buf' = <<>> /\ Call(p, <<"keyup", "number">>)
  <2>1. "number" \in Frame
    BY DEF Frame, Entries
  <2>2. Frames(stack'[p]) \subseteq {"keyup", "number"} \cup Frames(stack[p])
    BY <1>7, <2>1, Afterwards
  <2>3. Frames(stack'[p]) \cap Lists = {}
    BY <1>3, <2>2, NotEntries DEF Lists
  <2>4. NumberText(buf')
    BY <1>7, NoText
  <2> QED
    BY <1>1, <1>2, <1>5, <1>7, <2>3, <2>4, MenuText
<1>8. CASE buf' = <<>> /\ Call(p, <<"keyup", "list">>) /\ sel' = sel \ (0 .. NTests - 1)
  <2>1. NumberText(buf')
    BY <1>8, NoText
  <2>2. Unlisted'
    BY <1>8 DEF Unlisted, NTests
  <2> QED
    BY <1>1, <1>2, <1>5, <1>8, <2>1, <2>2, MenuText
<1> QED
  BY <1>4, <1>6, <1>7, <1>8

\* A key of a number.
LEMMA TypeText ==
  ASSUME TextInv, ScrInv', NEW p \in CPU, Type(p)
  PROVE  TextInv'
<1>1. Top(p) \in Numbers /\ UNCHANGED <<case, opts, started, stack, sel>>
  BY DEF Type, Numbers, boot, calls, progress
<1>2. Top(p) \in Menus
  BY <1>1, NotEntries DEF Menus
<1>3. Top(p) \in Frames(stack[p]) /\ Frames(stack[p]) \cap Numbers # {}
  BY <1>1, <1>2, AloneInMenu
<1>4. FieldInv(p) /\ buf \in Seq(Event) /\ NumberText(buf)
  BY <1>3 DEF TextInv, FieldInv
<1>5. PICK e \in Event : buf' = Typed(buf, e)
  BY DEF Type
<1>6. buf' \in Seq(Event) /\ NumberText(buf')
  BY <1>4, <1>5, TypedKeys, TypedText
<1>7. Frames(stack'[p]) \cap Lists # {} => Unlisted'
  BY <1>1, <1>4 DEF FieldInv, Unlisted, NTests
<1> QED
  BY <1>1, <1>2, <1>6, <1>7, MenuText

\* A test number, or a list, that is entered.
LEMMA SelectTestText ==
  ASSUME TextInv, ScrInv', NEW p \in CPU, SelectTest(p)
  PROVE  TextInv'
<1>1. Top(p) = "number" /\ UNCHANGED <<case, opts, started>> /\ buf' = <<>>
  BY DEF SelectTest, Entered, boot
<1>2. Top(p) \in Menus
  BY <1>1 DEF Menus, Entries
<1>3. NumberText(buf') /\ buf' \in Seq(Event)
  BY <1>1, NoText
<1>4. CASE Unwind(p, 2, <<>>)
  <2>1. Frames(stack'[p]) \cap Lists = {}
    BY <1>1, <1>4, EntryLeft, NotEntries
  <2> QED
    BY <1>1, <1>2, <1>3, <2>1, MenuText
<1>5. CASE Return(p) /\ UNCHANGED sel
  <2>1. Frames(stack'[p]) \subseteq Frames(stack[p])
    BY <1>5, Afterwards
  <2>2. Frames(stack'[p]) \cap Lists # {} => Unlisted'
    BY <1>5, <2>1 DEF TextInv, FieldInv, Unlisted, NTests
  <2> QED
    BY <1>1, <1>2, <1>3, <2>2, MenuText
<1> QED
  BY <1>4, <1>5 DEF SelectTest

LEMMA ListText ==
  ASSUME TextInv, ScrInv', NEW p \in CPU, List(p)
  PROVE  TextInv'
<1> DEFINE s == stack[p]
<1>1. Top(p) = "list" /\ UNCHANGED <<case, opts, started, sel>>
  BY DEF List, boot, progress
<1>2. Top(p) \in Menus
  BY <1>1 DEF Menus, Entries
<1>3. s \in Seq(Frame) /\ Shape(s) /\ s # <<>> /\ Head(s) = "list" /\ "list" \in Frames(s)
  BY <1>1, <1>2, AloneInMenu
<1>4. Unlisted /\ Unlisted'
  <2>1. Frames(s) \cap Lists # {}
    BY <1>3 DEF Lists
  <2>2. FieldInv(p)
    BY DEF TextInv
  <2>3. Unlisted
    BY <2>1, <2>2 DEF FieldInv
  <2> QED
    BY <1>1, <2>3 DEF Unlisted, NTests
<1>5. Frames(s) \cap Numbers = {}
  <2>1. Frames(Tail(s)) \subseteq {"tests", "menu"} \cup Lines
    BY <1>3, FramesUnder
  <2>2. Frames(s) \subseteq {"list", "tests", "menu"} \cup Lines
    BY <1>3, <2>1, FramesTop
  <2> QED
    BY <2>2 DEF Lines, Numbers
<1>6. Frames(stack'[p]) \cap Numbers = {}
  <2>1. CASE UNCHANGED stack
    BY <1>5, <2>1
  <2>2. CASE Unwind(p, 1, <<"listed">>)
    <3>1. "listed" \in Frame /\ 1 \in Nat
      BY DEF Frame, Entries
    <3>2. <<"listed">> \in Seq(Frame) /\ Frames(<<"listed">>) = {"listed"}
      BY <3>1, Over
    <3>3. stack \in [CPU -> Seq(Frame)]
      BY DEF TextInv, ScrInv, Stacks
    <3>4. Frames(stack'[p]) \subseteq {"listed"} \cup Frames(s)
      BY <2>2, <3>1, <3>2, <3>3, FramesUnwind
    <3> QED
      BY <1>5, <3>4 DEF Numbers
  <2> QED
    BY <2>1, <2>2 DEF List
<1>7. buf' \in Seq(Event)
  <2>1. buf \in Seq(Event)
    BY DEF TextInv
  <2>2. PICK e \in Event : buf' = IF e \in ListKeys THEN Append(buf, e)
                                 ELSE IF e = "BS" /\ buf # <<>> THEN Front(buf) ELSE buf
    BY DEF List
  <2>3. buf # <<>> => Front(buf) \in Seq(Event)
    BY <2>1, TypedKeys
  <2>4. Append(buf, e) \in Seq(Event)
    BY <2>1
  <2> QED
    BY <2>1, <2>2, <2>3, <2>4
<1> QED
  BY <1>1, <1>2, <1>4, <1>6, <1>7, MenuText

LEMMA SelectListText ==
  ASSUME TextInv, ScrInv', NEW p \in CPU, SelectList(p)
  PROVE  TextInv'
<1>1. Top(p) = "listed" /\ UNCHANGED <<case, opts, started>> /\ buf' = <<>> /\ Unwind(p, 2, <<>>)
  BY DEF SelectList, boot
<1>2. Top(p) \in Menus
  BY <1>1 DEF Menus, Entries
<1>3. NumberText(buf') /\ buf' \in Seq(Event)
  BY <1>1, NoText
<1>4. Frames(stack'[p]) \cap Lists = {}
  BY <1>1, EntryLeft, NotEntries
<1> QED
  BY <1>1, <1>2, <1>3, <1>4, MenuText

\* The address range changes nothing of the selection.
LEMMA RangeText ==
  ASSUME TextInv, ScrInv', NEW p \in CPU, SetLimits(p) \/ RangeMenu(p)
  PROVE  TextInv'
<1>1. UNCHANGED <<case, opts, started, sel>>
  BY DEF SetLimits, RangeMenu, boot, progress
<1>2. Top(p) \in Menus
  BY DEF SetLimits, SetLower, SetUpper, AllMemory, Entered, RangeMenu, Menus, Entries, Submenus
<1>3. 1 \in Nat /\ 2 \in Nat /\ 0 \in Nat /\ stack \in [CPU -> Seq(Frame)] /\ FieldInv(p) /\ buf \in Seq(Event)
  BY DEF TextInv, ScrInv, Stacks
<1>4. \/ /\ buf' = <<>> \/ buf' = buf
         /\ UNCHANGED stack \/ Return(p) \/ Unwind(p, 2, <<>>)
      \/ buf' = <<>> /\ \E f \in {"lower", "upper"} : Call(p, <<"keyup", f>>)
  BY DEF SetLimits, RangeMenu
<1>5. Frames(stack'[p]) \cap Lists \subseteq Frames(stack[p]) \cap Lists
  <2>1. CASE UNCHANGED stack \/ Return(p)
    BY <2>1, Afterwards
  <2>2. CASE Unwind(p, 2, <<>>)
    <3>1. <<>> \in Seq(Frame) /\ Frames(<<>>) = {}
      BY DEF Frames
    <3> QED
      BY <1>3, <2>2, <3>1, FramesUnwind
  <2>3. ASSUME NEW f \in {"lower", "upper"}, Call(p, <<"keyup", f>>)
        PROVE  Frames(stack'[p]) \cap Lists \subseteq Frames(stack[p]) \cap Lists
    <3>1. f \in Frame /\ f \notin Lists /\ "keyup" \notin Lists
      BY DEF Frame, Entries, Lists
    <3> QED
      BY <2>3, <3>1, Afterwards
  <2> QED
    BY <1>4, <2>1, <2>2, <2>3
<1>6. Frames(stack'[p]) \cap Lists # {} => Unlisted'
  BY <1>1, <1>3, <1>5 DEF FieldInv, Unlisted, NTests
<1>7. NumberText(<<>>) /\ <<>> \in Seq(Event)
  BY NoText
<1>8. CASE buf' = <<>>
  BY <1>1, <1>2, <1>6, <1>7, <1>8, MenuText
<1>9. CASE buf' = buf /\ (UNCHANGED stack \/ Return(p) \/ Unwind(p, 2, <<>>))
  <2>1. Frames(stack'[p]) \subseteq Frames(stack[p])
    <3>1. CASE UNCHANGED stack \/ Return(p)
      BY <3>1, Afterwards
    <3>2. CASE Unwind(p, 2, <<>>)
      <4>1. <<>> \in Seq(Frame) /\ Frames(<<>>) = {}
        BY DEF Frames
      <4> QED
        BY <1>3, <3>2, <4>1, FramesUnwind
    <3> QED
      BY <1>9, <3>1, <3>2
  <2>2. Frames(stack'[p]) \cap Numbers # {} => NumberText(buf')
    BY <1>3, <1>9, <2>1 DEF FieldInv
  <2> QED
    BY <1>1, <1>2, <1>3, <1>6, <1>9, <2>2, MenuText
<1> QED
  BY <1>4, <1>8, <1>9

\* The menus in which nothing is typed, and the data they show.
LEMMA MenusText ==
  ASSUME TextInv, ScrInv', NEW p \in CPU,
         wait_keyup(p) \/ Menu(p) \/ Data(p) \/ ShownSpd(p) \/ ErrorMenu(p) \/ CpuMenu(p)
  PROVE  TextInv'
<1>1. UNCHANGED <<case, opts, started, buf, sel>>
  BY DEF wait_keyup, Menu, Data, ShownSpd, ErrorMenu, CpuMenu, boot, typing, progress
<1>2. Top(p) \in Menus
  BY DEF wait_keyup, Menu, Data, ShownSpd, ErrorMenu, CpuMenu, Menus, Submenus
<1>3. started
  BY <1>2, AloneInMenu
<1>4. {"patn", "dmi", "spd", "spd_end"} \cup Submenus \subseteq Frame \ Entries
  BY DEF Frame, Lines, Submenus, Entries
<1>5. \/ UNCHANGED stack \/ Unwind(p, 1, <<>>)
      \/ \E f \in Frame \ Entries : \/ Unwind(p, 0, <<f>>) \/ Unwind(p, 1, <<f>>)
                                    \/ Unwind(p, 0, <<"keyup", f>>) \/ Unwind(p, 1, <<"keyup", f>>)
  <2>1. CASE wait_keyup(p)
    BY <2>1 DEF wait_keyup, Return
  <2>2. CASE Menu(p)
    <3>1. PICK e \in Event : OpenMenu(p, e) \/ ShowData(p, e) \/ LeaveMenu(p, e) \/ UNCHANGED stack
      BY <2>2 DEF Menu
    <3>2. CASE OpenMenu(p, e)
      <4>1. \E f \in {"tests", "range", "errors", "cpus"} : Unwind(p, 0, <<"keyup", f>>)
        BY <3>2 DEF OpenMenu, Call
      <4> QED
        BY <1>4, <4>1 DEF Submenus
    <3>3. CASE ShowData(p, e)
      <4>1. Unwind(p, 0, <<"dmi">>) \/ Unwind(p, 0, <<"keyup", "spd">>)
        BY <3>3 DEF ShowData, Call
      <4> QED
        BY <1>4, <4>1
    <3>4. CASE LeaveMenu(p, e)
      <4>1. Unwind(p, 1, <<"patn">>) \/ Unwind(p, 1, <<>>)
        BY <3>4 DEF LeaveMenu
      <4> QED
        BY <1>4, <4>1
    <3> QED
      BY <3>1, <3>2, <3>3, <3>4
  <2>3. CASE Data(p)
    <3>1. Return(p) \/ Unwind(p, 1, <<"keyup", "spd_end">>)
      BY <2>3 DEF Data
    <3> QED
      BY <1>4, <3>1 DEF Return
  <2>4. CASE ShownSpd(p) \/ ErrorMenu(p) \/ CpuMenu(p)
    BY <2>4 DEF ShownSpd, ErrorMenu, CpuMenu, Return
  <2> QED
    BY <2>1, <2>2, <2>3, <2>4
<1> QED
  BY <1>1, <1>3, <1>5, PlainText

LEMMA ConfigText ==
  ASSUME TextInv, ScrInv', NEW p \in CPU, Config(p)
  PROVE  TextInv'
BY TestMenuText, TypeText, SelectTestText, ListText, SelectListText, RangeText, MenusText DEF Config

\* The printing of an error, and the menu called from it.
LEMMA PrintText ==
  ASSUME TextInv, ScrInv', NEW p \in CPU,
         Poll(p) \/ Error(p) \/ LineInput(p) \/ scroll(p) \/ Done(p)
  PROVE  TextInv'
<1>1. UNCHANGED <<case, opts, started, buf, sel>>
  BY DEF Poll, Error, LineInput, scroll, Done, boot, typing, progress
<1>2. started
  <2>1. stack[p] # <<>> => started
    BY DEF TextInv
  <2>2. CASE Poll(p) \/ Error(p)
    BY <2>2 DEF Poll, Error, Running
  <2>3. CASE LineInput(p) \/ scroll(p) \/ Done(p)
    <3>1. Top(p) # "test"
      BY <2>3 DEF LineInput, scroll, Done
    <3> QED
      BY <2>1, <3>1 DEF Top
  <2> QED
    BY <2>2, <2>3
<1>3. Lines \subseteq Frame \ Entries /\ 0 \in Nat /\ 1 \in Nat
  BY NotEntries
<1>4. ASSUME NEW f \in Lines
      PROVE  /\ <<f>> \in Seq(Frame) /\ Frames(<<f>>) \cap Entries = {}
             /\ <<f, "unlock">> \in Seq(Frame) /\ Frames(<<f, "unlock">>) \cap Entries = {}
  <2>1. f \in Frame /\ "unlock" \in Frame /\ f \notin Entries /\ "unlock" \notin Entries
    BY <1>3 DEF Lines
  <2> QED
    BY <2>1, FramesListed
<1>5. CASE Poll(p)
  <2>1. PICK e : check_input(p, e, 0, <<>>)
    BY <1>5 DEF Poll
  <2>2. <<>> \in Seq(Frame) /\ Frames(<<>>) \cap Entries = {}
    BY DEF Frames
  <2> QED
    BY <1>1, <1>2, <1>3, <2>1, <2>2, InputText
<1>6. CASE LineInput(p)
  <2>1. PICK f \in {"scroll", "badram"} : (\E e \in Event : check_input(p, e, 1, <<f>>)) \/ Unwind(p, 1, <<f>>)
    BY <1>6 DEF LineInput
  <2>2. f \in Lines /\ f \in Frame \ Entries
    BY <1>3 DEF Lines
  <2>3. <<f>> \in Seq(Frame) /\ Frames(<<f>>) \cap Entries = {}
    BY <1>4, <2>2
  <2>4. CASE Unwind(p, 1, <<f>>)
    BY <1>1, <1>2, <2>2, <2>4, PlainText
  <2>5. ASSUME NEW e \in Event, check_input(p, e, 1, <<f>>) PROVE TextInv'
    BY <1>1, <1>2, <1>3, <2>3, <2>5, InputText
  <2> QED
    BY <2>1, <2>4, <2>5
<1>7. CASE Error(p)
  <2>1. UNCHANGED stack \/ \E f \in {"line", "patn"} : Unwind(p, 0, <<f, "unlock">>)
    BY <1>7 DEF Error, AddressError, SummaryError, PatternError, CountError, Call
  <2>2. CASE UNCHANGED stack
    BY <1>1, <1>2, <2>2, PlainText
  <2>3. ASSUME NEW f \in {"line", "patn"}, Unwind(p, 0, <<f, "unlock">>) PROVE TextInv'
    <3>1. f \in Lines
      BY DEF Lines
    <3>2. <<f, "unlock">> \in Seq(Frame) /\ Frames(<<f, "unlock">>) \cap Entries = {}
      BY <1>4, <3>1
    <3> QED
      BY <1>1, <1>2, <1>3, <2>3, <3>2, QuietText
  <2> QED
    BY <2>1, <2>2, <2>3
<1>8. CASE scroll(p) \/ Done(p)
  <2>1. Unwind(p, 1, <<>>) \/ Unwind(p, 1, <<"locked">>) \/ Unwind(p, 1, <<"scroll">>)
    BY <1>8 DEF scroll, PrintLine, Done, Return
  <2>2. "locked" \in Frame \ Entries /\ "scroll" \in Frame \ Entries
    BY <1>3 DEF Lines
  <2> QED
    BY <1>1, <1>2, <2>1, <2>2, PlainText
<1> QED
  BY <1>5, <1>6, <1>7, <1>8

\* The command line is taken before any menu is open.
LEMMA OtherText ==
  ASSUME TextInv, ScrInv', UNCHANGED vars \/ Parse \/ set_defaults \/ Window \/ House
  PROVE  TextInv'
<1>1. UNCHANGED <<case, stack, buf>>
  BY DEF vars, Parse, set_defaults, Window, House, boot, calls, typing
<1>2. CPU' = CPU /\ Event' = Event /\ buf' \in Seq(Event)
  BY <1>1 DEF CPU, Event, TextInv
<1>3. UNCHANGED sel \/ \A q \in CPU : stack[q] = <<>>
  <2>1. CASE UNCHANGED sel
    BY <2>1
  <2>2. CASE Parse
    BY <2>2 DEF Parse, TextInv
  <2>3. CASE set_defaults
    BY <2>3 DEF set_defaults, TextInv
  <2>4. UNCHANGED vars \/ Window \/ House => UNCHANGED sel
    BY DEF vars, progress, Window, House
  <2> QED
    BY <2>1, <2>2, <2>3, <2>4
<1>4. ASSUME NEW q \in CPU PROVE FieldInv(q)'
  <2>1. CASE UNCHANGED sel
    <3>1. (Unlisted' <=> Unlisted) /\ FieldInv(q)
      BY <2>1 DEF Unlisted, NTests, TextInv
    <3> QED
      BY <1>1, <3>1 DEF FieldInv
  <2>2. CASE stack[q] = <<>>
    <3>1. Frames(<<>>) = {}
      BY DEF Frames
    <3> QED
      BY <1>1, <2>2, <3>1 DEF FieldInv
  <2> QED
    BY <1>3, <2>1, <2>2
<1>5. /\ opts' \in Seq(OptionsOf(case'))
      /\ started' => opts' = <<>>
      /\ \A q \in CPU : stack'[q] # <<>> => started'
  <2>1. CASE UNCHANGED <<opts, started>>
    BY <1>1, <2>1 DEF TextInv
  <2>2. CASE Parse
    BY <1>1, <2>2 DEF Parse, TextInv
  <2>3. CASE set_defaults
    BY <1>1, <2>3 DEF set_defaults, TextInv
  <2> QED
    BY <2>1, <2>2, <2>3 DEF vars, Window, House, boot
<1> QED
  BY <1>2, <1>4, <1>5 DEF TextInv

LEMMA NextText == TextInv /\ [Next]_vars => TextInv'
<1> SUFFICES ASSUME TextInv, [Next]_vars PROVE TextInv'
  OBVIOUS
<1>1. ScrInv'
  BY NextScrInv DEF TextInv
<1>2. CASE UNCHANGED vars \/ Parse \/ set_defaults \/ Window \/ House
  BY <1>1, <1>2, OtherText
<1>3. ASSUME NEW p \in CPU, wait_keyup(p) PROVE TextInv'
  BY <1>1, <1>3, MenusText
<1>4. ASSUME NEW p \in CPU, Config(p) PROVE TextInv'
  BY <1>1, <1>4, ConfigText
<1>5. ASSUME NEW p \in CPU, Poll(p) \/ Error(p) \/ LineInput(p) \/ scroll(p) \/ Done(p) PROVE TextInv'
  BY <1>1, <1>5, PrintText
<1> QED
  BY <1>2, <1>3, <1>4, <1>5 DEF Next

\* The list of the menu: no test is selected when it is taken.
LEMMA SelectsTyped ==
  ASSUME TextInv, NEW p \in CPU, SelectList(p)
  PROVE  sel' \cap (0 .. NTests - 1) = IF NumbersIn(buf) \cap (0 .. NTests - 1) = {} THEN 0 .. NTests - 1
                                       ELSE NumbersIn(buf) \cap (0 .. NTests - 1)
<1> DEFINE l == ListOf(buf, NTests)
           C == NumbersIn(buf) \cap (0 .. NTests - 1)
<1>1. Top(p) = "listed"
  BY DEF SelectList
<1>2. Top(p) \in Frames(stack[p])
  BY <1>1, AloneInMenu DEF Menus, Entries
<1>3. Frames(stack[p]) \cap Lists # {}
  BY <1>1, <1>2 DEF Lists
<1>4. Unlisted /\ buf \in Seq(Event)
  BY <1>3 DEF TextInv, FieldInv
<1>5. NTests \in Nat
  BY CpuSelAssumption DEF NTests
<1>6. l.sel = C
  BY <1>4, <1>5, ListIsExact
<1>7. sel' = sel \cup (IF l.sel = {} THEN 0 .. NTests - 1 ELSE l.sel)
  BY DEF SelectList
<1> HIDE DEF l
<1>8. CASE C = {}
  <2>1. sel' = sel \cup (0 .. NTests - 1)
    BY <1>6, <1>7, <1>8
  <2> QED
    BY <1>8, <2>1
<1>9. CASE C # {}
  <2>1. sel' = sel \cup C
    BY <1>6, <1>7, <1>9
  <2>2. sel' \cap (0 .. NTests - 1) = C
    BY <1>4, <2>1 DEF Unlisted
  <2> QED
    BY <1>9, <2>2
<1> QED
  BY <1>8, <1>9

\* tstlist= takes the place of what was selected.
LEMMA SelectsWritten ==
  ASSUME CommandLines, TextInv, Parse, Head(opts).opt = "tstlist"
  PROVE  sel' \cap (0 .. NTests - 1) = NumbersIn(Head(opts).text) \cap (0 .. NTests - 1)
<1> DEFINE o == Head(opts)
<1>1. opts # <<>> /\ opts \in Seq(OptionsOf(case)) /\ case \in Cases /\ Option(o)
  BY DEF Parse, TextInv, ScrInv
<1>2. o \in OptionsOf(case)
  BY <1>1
<1>3. o.text \in Seq(STRING)
  BY <1>1, <1>2 DEF CommandLines
<1>4. NTests \in Nat
  BY CpuSelAssumption DEF NTests
<1>5. ListOf(o.text, NTests).sel = NumbersIn(o.text) \cap (0 .. NTests - 1)
  BY <1>3, <1>4, ListIsExact
<1>6. sel' = (sel \ (0 .. NTests - 1)) \cup ListOf(o.text, NTests).sel
  BY <1>1 DEF Option
<1> QED
  BY <1>5, <1>6

\* The limits of the menu are the pages of the number that was typed.
LEMMA LimitsTyped ==
  ASSUME TextInv, NEW p \in CPU, Top(p) \in {"lower", "upper"}, SetLimits(p)
  PROVE  /\ Top(p) = "lower" /\ lower' # lower => lower' = PagesTyped(buf)
         /\ Top(p) = "upper" /\ upper' # upper => upper' = PagesTyped(buf)
<1>1. Top(p) \in Frames(stack[p])
  BY AloneInMenu DEF Menus, Entries
<1>2. Frames(stack[p]) \cap Numbers # {}
  BY <1>1 DEF Numbers
<1>3. NumberText(buf) /\ buf \in Seq(Event)
  BY <1>2 DEF TextInv, FieldInv
<1>4. Top(p) # "range" /\ buf # <<>>
  BY DEF SetLimits, SetLower, SetUpper, AllMemory, Entered
<1>5. getval(buf, 12) = PagesTyped(buf)
  BY <1>3, <1>4, GetvalPages
<1>6. \/ Top(p) = "lower" /\ (lower' = getval(buf, 12) \/ lower' = lower)
      \/ Top(p) = "upper" /\ (upper' = getval(buf, 12) \/ upper' = upper)
  BY <1>4 DEF SetLimits, SetLower, SetUpper, AllMemory, Entered
<1> QED
  BY <1>5, <1>6

\* While a menu is open no other action is enabled: the tests wait.
LEMMA OwnStep ==
  ASSUME TextInv, Next, NEW p \in CPU, Top(p) \in Menus
  PROVE  wait_keyup(p) \/ Config(p)
<1>1. CPU = {p} /\ started /\ opts = <<>> /\ stack[p] # <<>>
  BY AloneInMenu
<1>2. \/ Window \/ House
      \/ Poll(p) \/ wait_keyup(p) \/ Config(p) \/ Error(p) \/ LineInput(p) \/ scroll(p) \/ Done(p)
  BY <1>1 DEF Next, Parse, set_defaults
<1>3. Top(p) \notin Lines \cup {"test"}
  BY DEF Menus, Submenus, Entries, Lines
<1>4. ~ (Poll(p) \/ Error(p) \/ LineInput(p) \/ scroll(p) \/ Done(p))
  BY <1>3 DEF Poll, Error, LineInput, scroll, Done, Lines
<1>5. ~ (Window \/ House)
  BY <1>1 DEF Window, House, Idle
<1> QED
  BY <1>2, <1>4, <1>5

LEMMA StepSelects ==
  ASSUME CommandLines, TextInv, [Next]_vars
  PROVE  ListSelects
<1> DEFINE chosen == sel' \cap (0 .. NTests - 1)
           Chosen(text) == NumbersIn(text) \cap (0 .. NTests - 1)
<1>1. ASSUME NEW p \in CPU, Top(p) = "listed", stack'[p] # stack[p]
      PROVE  chosen = IF Chosen(buf) = {} THEN 0 .. NTests - 1 ELSE Chosen(buf)
  <2>1. Next /\ stack' # stack
    BY <1>1 DEF vars, calls
  <2>2. Top(p) \in Menus
    BY <1>1 DEF Menus, Entries
  <2>3. wait_keyup(p) \/ Config(p)
    BY <2>1, <2>2, OwnStep
  <2>4. SelectList(p)
    BY <1>1, <2>3 DEF wait_keyup, Config, Menu, Data, ShownSpd, TestMenu, Type, SelectTest, Entered, List,
                      SetLimits, SetLower, SetUpper, AllMemory, RangeMenu, ErrorMenu, CpuMenu
  <2> QED
    BY <2>4, SelectsTyped
<1>2. ASSUME opts' # opts, opts # <<>>, Head(opts).opt = "tstlist"
      PROVE  chosen = Chosen(Head(opts).text)
  <2>1. ~ UNCHANGED opts /\ Next
    BY <1>2 DEF vars, boot
  <2>2. Parse
    <3>1. set_defaults \/ Window \/ House => UNCHANGED opts
      BY DEF set_defaults, Window, House, boot
    <3>2. ASSUME NEW p \in CPU, Poll(p) \/ wait_keyup(p) \/ Error(p) \/ LineInput(p) \/ scroll(p) \/ Done(p)
          PROVE  UNCHANGED opts
      BY <3>2 DEF Poll, wait_keyup, Error, LineInput, scroll, Done, boot
    <3>3. ASSUME NEW p \in CPU, Config(p)
          PROVE  UNCHANGED opts
      BY <3>3 DEF Config, Menu, Data, ShownSpd, TestMenu, Type, SelectTest, List, SelectList,
                  SetLimits, RangeMenu, ErrorMenu, CpuMenu, boot
    <3> QED
      BY <2>1, <3>1, <3>2, <3>3 DEF Next
  <2> QED
    BY <1>2, <2>2, SelectsWritten
<1> QED
  BY <1>1, <1>2 DEF ListSelects

LEMMA StepLimits ==
  ASSUME TextInv, [Next]_vars
  PROVE  LimitAsTyped
<1>1. ASSUME NEW p \in CPU, Top(p) \in {"lower", "upper"}, lower' # lower \/ upper' # upper
      PROVE  SetLimits(p)
  <2>1. Next /\ ~ UNCHANGED limits
    BY <1>1 DEF vars, limits
  <2>2. Top(p) \in Menus
    BY <1>1 DEF Menus, Entries
  <2>3. wait_keyup(p) \/ Config(p)
    BY <2>1, <2>2, OwnStep
  <2> QED
    BY <2>1, <2>3 DEF wait_keyup, Config, Menu, Data, ShownSpd, TestMenu, Type, SelectTest, List, SelectList,
                      RangeMenu, ErrorMenu, CpuMenu
<1>2. ASSUME NEW p \in CPU
      PROVE  /\ Top(p) = "lower" /\ lower' # lower => lower' = PagesTyped(buf)
             /\ Top(p) = "upper" /\ upper' # upper => upper' = PagesTyped(buf)
  BY <1>1, LimitsTyped
<1> QED
  BY <1>2 DEF LimitAsTyped

\* For any user of the menu who is alone at the keyboard and for any command line,
\* whatever is typed, erased and cancelled: a list selects exactly the tests whose
\* numbers are written between its commas, in the menu as behind tstlist=, and a
\* limit of the address range becomes the pages that its digits and its unit say
\* (getval and get_list of lib.c, the loops of config.c and common.c).
THEOREM TextTakenHolds ==
  ASSUME OneUser, CommandLines
  PROVE  Spec => TextTaken
<1>1. Init => TextInv
  BY InitText
<1>2. TextInv /\ [Next]_vars => TextInv'
  BY NextText
<1>3. TextInv /\ [Next]_vars => ListSelects /\ LimitAsTyped
  BY StepSelects, StepLimits
<1> QED
  BY <1>1, <1>2, <1>3, PTL DEF Spec, TextTaken
=============================================================================
