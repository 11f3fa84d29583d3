------------------------------- MODULE Badram -------------------------------
(***************************************************************************)
(* The BadRAM patterns of src/patn.c: an array of address/mask pairs that  *)
(* cover the faulty addresses reported so far.  A word of the machine is   *)
(* the set of its bits that are 1, a cost is a number below 2^Width.       *)
(*                                                                         *)
(* insertaddress is called with barr->mutex held, so that its steps are    *)
(* those of one CPU: Insert is the call up to relocateiffree, Relocate one *)
(* level of relocateiffree's recursion on itself.                          *)
(***************************************************************************)
EXTENDS Integers, FiniteSets, FiniteSetsExt

CONSTANTS Width,     \* the bits of an address, 32 in the code
          Span,      \* the faulty addresses differ in bits below this one only
          MAXPATNS,  \* BADRAM_MAXPATNS, the size of the array, 10 in the code
          Orders     \* the orders in which faults come: "any", "up", "down"

ASSUME WidthAssumption == Width \in Nat /\ Width >= 3
ASSUME SpanAssumption == Span \in 2 .. Width
ASSUME SizeAssumption == MAXPATNS \in Nat \ {0}

VARIABLES patn,     \* the array, the slots beyond numpatn included
          numpatn,
          idx,      \* the argument of relocateiffree, -1 outside of it
          order,    \* the order of the faults, constant
          faults    \* history: the addresses reported

vars == <<patn, numpatn, idx, order, faults>>

Bits == 0 .. Width - 1
Word == 2 ^ Width
Slots == 0 .. MAXPATNS - 1

\* All but the two low bits: faults are those of a 32-bit word.
DEFAULT_MASK == 2 .. Width - 1
Address == SUBSET (2 .. Span - 1)
Value(w) == MapThenSumSet(LAMBDA b : 2 ^ b, w)

\* COMBINE_MASK keeps the bits of both masks in which the addresses agree.
Combine(x, y) ==
  LET mask == {b \in x.mask \cap y.mask : b \in x.adr <=> b \in y.adr}
  IN [adr |-> (x.adr \cup y.adr) \cap mask, mask |-> mask]

\* addresses(): doubled for every bit that is not in the mask, in 32 bits.
Addresses(mask) == (2 ^ (Width - Cardinality(mask))) % Word

\* Fault: the cost is counted from the other mask.
CombiCostOfOther(x, y) == (Addresses(Combine(x, y).mask) - Addresses(y.mask)) % Word

\* How many more addresses the first pattern covers once it is combined.
CombiCost(x, y) == (Addresses(Combine(x, y).mask) - Addresses(x.mask)) % Word

\* The search goes from the last pattern to the first and keeps a strict minimum.
CheapIndex(table, x, mincost) ==
  LET cheap == {i \in 0 .. numpatn - 1 : CombiCost(table[i], x) < mincost}
      best  == {i \in cheap : \A j \in cheap : CombiCost(table[i], x) <= CombiCost(table[j], x)}
  IN IF cheap = {} THEN -1 ELSE Max(best)

Fault(a) == [adr |-> a, mask |-> DEFAULT_MASK]

\* Variables that is zero at the start.
Init == /\ patn = [i \in Slots |-> [adr |-> {}, mask |-> {}]]
        /\ numpatn = 0
        /\ idx = -1
        /\ order \in Orders
        /\ faults = {}

\* One sweep of a test through memory reports addresses in one direction.
InOrder(a) == CASE order = "up"   -> \A f \in faults : Value(f) <= Value(a)
                [] order = "down" -> \A f \in faults : Value(f) >= Value(a)
                [] OTHER -> TRUE

\* The address is covered by a pattern: nothing is done.
Known(a) == /\ idx = -1 /\ InOrder(a)
            /\ CheapIndex(patn, Fault(a), 1) # -1
            /\ faults' = faults \cup {a}
            /\ UNCHANGED <<patn, numpatn, idx, order>>

\* There is room for a pattern of its own ...
Append(a) == /\ idx = -1 /\ InOrder(a)
             /\ CheapIndex(patn, Fault(a), 1) = -1
             /\ numpatn < MAXPATNS
             /\ patn' = [patn EXCEPT ![numpatn] = Fault(a)]
             /\ numpatn' = numpatn + 1
             /\ idx' = numpatn
             /\ faults' = faults \cup {a}
             /\ UNCHANGED order

\* ... or the pattern that grows least is widened.
Widen(a) == /\ idx = -1 /\ InOrder(a)
            /\ CheapIndex(patn, Fault(a), 1) = -1
            /\ numpatn = MAXPATNS
            /\ idx' = CheapIndex(patn, Fault(a), Word - 1)
            /\ patn' = [patn EXCEPT ![idx'] = Combine(@, Fault(a))]
            /\ faults' = faults \cup {a}
            /\ UNCHANGED <<numpatn, order>>

\* relocateidx(): inverting the address is to keep the pattern from being found.
RelocateIdx == CheapIndex([patn EXCEPT ![idx].adr = Bits \ @], patn[idx],
                          1 + Addresses(patn[idx].mask))

\* Fault: the array is not made shorter.
MergeKeeps == /\ idx # -1 /\ RelocateIdx # -1
              /\ patn' = [patn EXCEPT ![RelocateIdx] = Combine(@, patn[idx])]
              /\ idx' = RelocateIdx
              /\ UNCHANGED <<numpatn, order, faults>>

\* Fault: the pattern merged into is not widened.
MergeForgets == /\ idx # -1 /\ RelocateIdx # -1
                /\ patn' = [patn EXCEPT ![idx] = patn[numpatn - 1]]
                /\ numpatn' = numpatn - 1
                /\ idx' = RelocateIdx
                /\ UNCHANGED <<order, faults>>

\* relocateiffree(): merge with another pattern if that costs nothing; the last
\* pattern fills the gap; go on with the pattern merged into.
Merge ==
  /\ idx # -1 /\ RelocateIdx # -1
  /\ LET merged == [patn EXCEPT ![RelocateIdx] = Combine(@, patn[idx])]
     IN patn' = IF idx < numpatn - 1
                THEN [merged EXCEPT ![idx] = merged[numpatn - 1]] ELSE merged
  /\ numpatn' = numpatn - 1
  /\ idx' = RelocateIdx
  /\ UNCHANGED <<order, faults>>

NoMerge == /\ idx # -1 /\ RelocateIdx = -1
           /\ idx' = -1
           /\ UNCHANGED <<patn, numpatn, order, faults>>

Insert(a) == Known(a) \/ Append(a) \/ Widen(a)
Relocate == Merge \/ NoMerge

Next == Relocate \/ \E a \in Address : Insert(a)

Spec == Init /\ [][Next]_vars

\* A call of insertaddress runs on; memory need not have any further fault.
FairSpec == Spec /\ WF_vars(Relocate)
-----------------------------------------------------------------------------
Pattern == [adr : SUBSET Bits, mask : SUBSET Bits]

\* The indices stay inside of the array and the patterns normalised: an address
\* has no bit outside of its mask.
TypeOK == /\ patn \in [Slots -> Pattern]
          /\ numpatn \in 0 .. MAXPATNS
          /\ idx \in {-1} \cup Slots
          /\ \A i \in 0 .. numpatn - 1 : patn[i].adr \subseteq patn[i].mask

Covers(x, a) == a \cap x.mask = x.adr
Covered(a) == \E i \in 0 .. numpatn - 1 : Covers(patn[i], a)

\* Between two calls each faulty address is covered by a pattern ("Keep track of a
\* number of BadRAM patterns in an array; combine new faulty addresses with it",
\* patn.c:29-30): to keep Linux off the faulty memory is all the patterns are for.
\* relocateiffree loses some (patn.c:95, 118), in the order of a sweep as well.
FaultsCovered == idx = -1 => \A a \in faults : Covered(a)

\* The test that decides whether an address is new (patn.c:126) says so exactly
\* when no pattern covers it, although it compares costs and not addresses.
KnownIsCovered ==
  idx = -1 => \A a \in Address : CheapIndex(patn, Fault(a), 1) # -1 <=> Covered(a)

\* And the table stays inside of the array, with normalised patterns.
TableSound == TypeOK /\ KnownIsCovered

\* A step covers the address it is given, and uncovers none, for any order of the
\* faults: what is lost is lost where relocateiffree merges a pattern with itself,
\* or goes on with a slot that is no longer in the table (patn.c:95-118).
InTable == idx = -1 \/ (idx < numpatn /\ RelocateIdx # idx)
NothingForgotten ==
  [][InTable => \A a \in Address : Covered(a) \/ (a \in faults' /\ a \notin faults) => Covered(a)']_vars

\* relocateiffree comes to an end (patn.c:118): with the screen's mutex held an
\* endless recursion would stop every CPU that finds an error.
RelocationEnds == idx # -1 ~> idx = -1
=============================================================================
