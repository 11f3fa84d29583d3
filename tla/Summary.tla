------------------------------ MODULE Summary ------------------------------
(***************************************************************************)
(* v->erri, the error summary of common_err (src/error.c).  Addresses      *)
(* count words, so that neighbours differ by 1 where the code has 4; a     *)
(* word is the set of its bits.  An error is a record [adr, xor, mask]:    *)
(* xor is good ^ bad, mask the fourth argument of common_err, which is the *)
(* same but for ad_err1, of type 1, where it is an address line.           *)
(* Types 2 and 3 are left out: nothing calls poll_errors or parity_err.    *)
(***************************************************************************)
EXTENDS Integers, FiniteSets

CONSTANT PAGE    \* words of a page, 1024 in the code

ASSUME PageAssumption == PAGE \in Nat \ {0}

NoPage == 2147483647
Empty == [low |-> [page |-> NoPage, offset |-> PAGE - 1], high |-> [page |-> 0, offset |-> 0],
          min_bits |-> 32, max_bits |-> 0, tbits |-> 0, ebits |-> {}, maxl |-> 0,
          eadr |-> 0, exor |-> {}, hdr_flag |-> FALSE]

page_of(adr) == adr \div PAGE
OffsetOf(adr) == adr % PAGE

\* Fault: the offset of a lower page is compared with that of the old one.
LowKeeps(low, page, offset) ==
  [page |-> IF low.page > page THEN page ELSE low.page,
   offset |-> IF low.offset > offset THEN offset ELSE low.offset]

Low(low, page, offset) ==
  IF low.page > page \/ (low.page = page /\ low.offset > offset)
    THEN [page |-> page, offset |-> offset] ELSE low

\* The highest address, in branches that follow those of the lowest one: an
\* error that lowers the lowest page leaves it alone, one that lowers the offset
\* in that page sets its offset, and a higher page keeps the old offset.
High(e, page, offset) ==
  LET h1 == IF e.low.page > page THEN e.high
            ELSE IF e.low.page = page /\ e.low.offset > offset THEN [e.high EXCEPT !.offset = offset]
            ELSE IF e.high.page < page THEN [e.high EXCEPT !.page = page]
            ELSE e.high
  IN IF h1.page = page /\ h1.offset < offset THEN [h1 EXCEPT !.offset = offset] ELSE h1

\* Fault: the mask of ad_err1 is counted as bits in error.
BitsOfMask(err) == err.mask
BitsOf(err) == err.xor

\* The length of a run of errors is 1 or 2, as it is set to 1 for each error.
RunLength(e, adr) == IF adr = e.eadr + 1 \/ adr = e.eadr - 1 THEN 2 ELSE 1

Summarize(e, err) ==
  LET page == page_of(err.adr)
      offset == OffsetOf(err.adr)
      bits == BitsOf(err)
      n == Cardinality(bits)
  IN [e EXCEPT !.low = Low(@, page, offset),
               !.high = High(e, page, offset),
               !.tbits = @ + n,
               !.max_bits = IF n > @ THEN n ELSE @,
               !.min_bits = IF n < @ THEN n ELSE @,
               !.ebits = @ \cup bits,
               !.maxl = IF RunLength(e, err.adr) > @ THEN RunLength(e, err.adr) ELSE @,
               !.eadr = err.adr,
               !.hdr_flag = TRUE]
=============================================================================
