---------------------------- MODULE Badram_proof ----------------------------
(***************************************************************************)
(* What the BadRAM patterns keep for any width of the address, any size of *)
(* the table and any order of the faults: the arithmetic of patn.c, which  *)
(* compares numbers of addresses where it means sets of them.              *)
(***************************************************************************)
EXTENDS Badram, FiniteSetTheorems, TLAPS

\* A set of naturals that is not empty has a least one, and a greatest one if it
\* is bounded.
LEMMA Least ==
  ASSUME NEW S \in SUBSET Nat, S # {}
  PROVE  \E n \in S : \A m \in S : n <= m
<1> DEFINE R == OpToRel(<, Nat)
<1>1. IsWellFoundedOn(R, Nat)
  BY NatLessThanWellFounded
<1>2. \A x, y \in Nat : <<y, x>> \in R <=> y < x
  BY DEF OpToRel
<1> HIDE DEF R
<1>3. PICK n \in S : \A y \in S : ~ (<<y, n>> \in R)
  BY <1>1, WFMin
<1>4. \A y \in S : ~ (y < n)
  BY <1>2, <1>3
<1>5. \A y \in S : n <= y
  BY <1>4
<1> QED BY <1>5

LEMMA Greatest ==
  ASSUME NEW n \in Nat, NEW S \in SUBSET (0 .. n), S # {}
  PROVE  \E x \in S : \A y \in S : x >= y
<1> DEFINE T == {n - x : x \in S}
<1>1. T \in SUBSET Nat /\ T # {}
  <2>1. \A x \in S : x \in 0 .. n /\ n - x \in Nat
    OBVIOUS
  <2>2. PICK z \in S : TRUE
    OBVIOUS
  <2> QED BY <2>1, <2>2
<1>2. PICK k \in T : \A m \in T : k <= m
  BY <1>1, Least
<1>3. PICK x \in S : k = n - x
  BY <1>2
<1>4. ASSUME NEW y \in S PROVE x >= y
  <2>1. n - x <= n - y
    BY <1>2, <1>3
  <2> QED BY <2>1, x \in 0 .. n, y \in 0 .. n
<1> QED BY <1>4

LEMMA MaxOf ==
  ASSUME NEW n \in Nat, NEW S \in SUBSET (0 .. n), S # {}
  PROVE  Max(S) \in S
BY Greatest DEF Max
-----------------------------------------------------------------------------
\* 2^n is the number of subsets of 1 .. n: it grows with n.
LEMMA PowerGrows ==
  ASSUME NEW n \in Nat
  PROVE  2 ^ n \in Nat \ {0} /\ \A m \in 0 .. n - 1 : 2 ^ m \in Nat /\ 2 ^ m < 2 ^ n
<1>1. ASSUME NEW k \in Nat
      PROVE  /\ IsFiniteSet(SUBSET (1 .. k)) /\ Cardinality(SUBSET (1 .. k)) = 2 ^ k
             /\ 2 ^ k \in Nat
  <2>1. \A a, b \in Int : IsFiniteSet(a .. b) /\ Cardinality(a .. b) = IF a > b THEN 0 ELSE b - a + 1
    BY FS_Interval
  <2>2. IsFiniteSet(1 .. k) /\ Cardinality(1 .. k) = k
    BY <2>1
  <2>3. IsFiniteSet(SUBSET (1 .. k)) /\ Cardinality(SUBSET (1 .. k)) = 2 ^ k
    BY <2>2, FS_SUBSET
  <2> QED BY <2>3, FS_CardinalityType
<1>2. ASSUME NEW m \in 0 .. n - 1
      PROVE  2 ^ m \in Nat /\ 2 ^ m < 2 ^ n
  <2>1. m \in Nat /\ SUBSET (1 .. m) \in SUBSET (SUBSET (1 .. n))
    OBVIOUS
  <2>2. {n} \in SUBSET (1 .. n) /\ {n} \notin SUBSET (1 .. m)
    OBVIOUS
  <2> DEFINE A == SUBSET (1 .. n)
             B == SUBSET (1 .. m)
  <2>3. IsFiniteSet(A) /\ B \in SUBSET A /\ A # B
    BY <1>1, <2>1, <2>2
  <2>4. Cardinality(B) <= Cardinality(A) /\ Cardinality(A) # Cardinality(B)
    <3> HIDE DEF A, B
    <3> QED BY <2>3, FS_Subset
  <2>5. Cardinality(A) = 2 ^ n /\ Cardinality(B) = 2 ^ m /\ 2 ^ m \in Nat /\ 2 ^ n \in Nat
    BY <1>1, <2>1
  <2> HIDE DEF A, B
  <2> QED BY <2>4, <2>5
<1>3. 2 ^ n # 0
  <2>1. CASE n = 0
    <3>1. 2 ^ 0 = 1
      OBVIOUS
    <3> QED BY <2>1, <3>1
  <2>2. CASE n # 0
    <3>1. 0 \in 0 .. n - 1
      BY <2>2
    <3>2. 2 ^ 0 \in Nat /\ 2 ^ 0 < 2 ^ n
      BY <1>2, <3>1
    <3> QED BY <1>1, <3>2
  <2> QED BY <2>1, <2>2
<1> QED BY <1>1, <1>2, <1>3

LEMMA Sizes ==
  /\ Width \in Nat /\ Width >= 3 /\ MAXPATNS \in Nat \ {0}
  /\ IsFiniteSet(Bits) /\ Cardinality(Bits) = Width
  /\ Word \in Nat /\ Word > 1
<1>1. Width \in Nat /\ Width >= 3 /\ MAXPATNS \in Nat \ {0}
  BY WidthAssumption, SizeAssumption
<1>2. \A a, b \in Int : IsFiniteSet(a .. b) /\ Cardinality(a .. b) = IF a > b THEN 0 ELSE b - a + 1
  BY FS_Interval
<1>3. IsFiniteSet(Bits) /\ Cardinality(Bits) = Width
  BY <1>1, <1>2 DEF Bits
<1>4. 0 \in 0 .. Width - 1
  BY <1>1
<1>5. 2 ^ 0 = 1
  OBVIOUS
<1>6. Word \in Nat /\ Word > 1
  BY <1>1, <1>4, <1>5, PowerGrows DEF Word
<1> QED BY <1>1, <1>3, <1>6

\* The number of addresses of a mask in Width bits: 0 stands for all of them.
LEMMA AddressesOf ==
  ASSUME NEW m \in SUBSET Bits
  PROVE  /\ Cardinality(m) \in 0 .. Width /\ (m = {} <=> Cardinality(m) = 0)
         /\ m = {} => Addresses(m) = 0
         /\ m # {} => Addresses(m) = 2 ^ (Width - Cardinality(m)) /\ Addresses(m) \in 1 .. Word - 1
<1> DEFINE n == Cardinality(m)
<1>1. IsFiniteSet(m) /\ n <= Width /\ Width \in Nat /\ Width >= 3
  BY Sizes, FS_Subset
<1>2. n \in 0 .. Width /\ (m = {} <=> n = 0)
  BY <1>1, FS_CardinalityType, FS_EmptySet
<1> HIDE DEF n
<1>3. Word = 2 ^ Width /\ Word \in Nat /\ Word > 1
  BY Sizes DEF Word
<1>4. Addresses(m) = (2 ^ (Width - n)) % Word
  BY DEF Addresses, n
<1>5. CASE m = {}
  <2>1. Width - n = Width
    BY <1>1, <1>2, <1>5
  <2>2. Addresses(m) = Word % Word
    BY <1>3, <1>4, <2>1
  <2> QED BY <1>2, <1>3, <1>5, <2>2 DEF n
<1>6. CASE m # {}
  <2>1. Width - n \in 0 .. Width - 1 /\ Width - n \in Nat
    BY <1>1, <1>2, <1>6
  <2>2. 2 ^ (Width - n) \in Nat \ {0} /\ 2 ^ (Width - n) < 2 ^ Width
    BY <1>1, <2>1, PowerGrows
  <2> DEFINE a == 2 ^ (Width - n)
  <2>3. a \in Nat \ {0} /\ a < Word
    BY <1>3, <2>2
  <2> HIDE DEF a
  <2>4. a % Word = a
    BY <1>3, <2>3
  <2> QED BY <1>2, <1>3, <1>4, <1>6, <2>3, <2>4 DEF n, a
<1> QED BY <1>5, <1>6

\* A mask with fewer bits has more addresses.
LEMMA FewerBits ==
  ASSUME NEW k \in SUBSET Bits, NEW m \in SUBSET k
  PROVE  /\ m \in SUBSET Bits
         /\ Addresses(m) = Addresses(k) <=> m = k
         /\ m # {} => Addresses(k) <= Addresses(m)
<1>1. m \in SUBSET Bits /\ IsFiniteSet(k) /\ IsFiniteSet(m)
  BY Sizes, FS_Subset
<1> DEFINE a == Cardinality(m)
           b == Cardinality(k)
<1>2. a <= b /\ (a = b => m = k)
  BY <1>1, FS_Subset
<1>3. a \in 0 .. Width /\ b \in 0 .. Width /\ Width \in Nat
  BY <1>1, AddressesOf, Sizes
<1>4. CASE m = {}
  BY <1>1, <1>4, AddressesOf
<1>5. CASE m # {}
  <2>1. k # {}
    BY <1>5
  <2>2. /\ Addresses(m) = 2 ^ (Width - a) /\ Addresses(m) \in Int
        /\ Addresses(k) = 2 ^ (Width - b) /\ Addresses(k) \in Int
    BY <1>1, <1>5, <2>1, AddressesOf
  <2> HIDE DEF a, b
  <2>3. CASE a = b
    BY <1>2, <2>2, <2>3
  <2>4. CASE a # b
    <3>1. Width - a \in Nat /\ Width - b \in 0 .. (Width - a) - 1
      BY <1>2, <1>3, <2>4
    <3>2. 2 ^ (Width - b) < 2 ^ (Width - a)
      BY <3>1, PowerGrows
    <3> QED BY <2>2, <2>4, <3>2 DEF a, b
  <2> QED BY <2>3, <2>4
<1> QED BY <1>1, <1>4, <1>5
-----------------------------------------------------------------------------
\* COMBINE_MASK keeps bits of both masks; what is combined is normalised.
LEMMA CombinePattern ==
  ASSUME NEW x \in Pattern, NEW y \in Pattern
  PROVE  /\ Combine(x, y) \in Pattern
         /\ Combine(x, y).adr \subseteq Combine(x, y).mask
         /\ Combine(x, y).mask \subseteq x.mask \cap y.mask
BY DEF Combine, Pattern

\* A combination covers what either of the two patterns covers.
LEMMA CombineCovers ==
  ASSUME NEW x \in Pattern, NEW y \in Pattern, x.adr \subseteq x.mask, y.adr \subseteq y.mask, NEW a
  PROVE  Covers(x, a) \/ Covers(y, a) => Covers(Combine(x, y), a)
BY DEF Combine, Covers, Pattern

\* And no more than it has to: any pattern that covers all that the two cover
\* covers their combination (combine() of patn.c).
THEOREM CombineLeast ==
  ASSUME NEW x \in Pattern, NEW y \in Pattern, NEW z \in Pattern,
         x.adr \subseteq x.mask, y.adr \subseteq y.mask, z.adr \subseteq z.mask,
         \A a \in SUBSET Bits : Covers(x, a) \/ Covers(y, a) => Covers(z, a),
         NEW a \in SUBSET Bits, Covers(Combine(x, y), a)
  PROVE  Covers(z, a)
<1> DEFINE c == Combine(x, y)
<1>1. x.adr \in SUBSET Bits /\ y.adr \in SUBSET Bits /\ z.adr \in SUBSET Bits /\ z.mask \in SUBSET Bits
  BY DEF Pattern
<1>2. Covers(z, x.adr) /\ Covers(z, y.adr)
  BY <1>1 DEF Covers
<1>3. ASSUME NEW b \in z.mask
      PROVE  b \in x.mask /\ b \in y.mask /\ (b \in x.adr <=> b \in z.adr) /\ (b \in y.adr <=> b \in z.adr)
  <2>1. (b \in x.adr <=> b \in z.adr) /\ (b \in y.adr <=> b \in z.adr)
    BY <1>2 DEF Covers
  <2>2. ASSUME b \notin x.mask PROVE FALSE
    <3>1. Covers(x, x.adr \cup {b}) /\ x.adr \cup {b} \in SUBSET Bits /\ Covers(x, x.adr)
      BY <1>1, <2>2 DEF Covers
    <3>2. Covers(z, x.adr \cup {b}) /\ Covers(z, x.adr)
      BY <1>1, <3>1
    <3> QED BY <2>2, <3>2 DEF Covers
  <2>3. ASSUME b \notin y.mask PROVE FALSE
    <3>1. Covers(y, y.adr \cup {b}) /\ y.adr \cup {b} \in SUBSET Bits /\ Covers(y, y.adr)
      BY <1>1, <2>3 DEF Covers
    <3>2. Covers(z, y.adr \cup {b}) /\ Covers(z, y.adr)
      BY <1>1, <3>1
    <3> QED BY <2>3, <3>2 DEF Covers
  <2> QED BY <2>1, <2>2, <2>3
<1>4. ASSUME NEW b \in z.mask PROVE b \in c.mask /\ (b \in c.adr <=> b \in z.adr)
  BY <1>3 DEF Combine
<1>5. a \cap c.mask = c.adr
  BY DEF Covers
<1> HIDE DEF c
<1>6. \A b : b \in a \cap z.mask <=> b \in z.adr
  BY <1>4, <1>5
<1> QED BY <1>6 DEF Covers

\* a - b in a word of m values: b is taken from a, or from 0.
LEMMA Difference ==
  ASSUME NEW m \in Nat, m > 1, NEW a \in 0 .. m - 1, NEW b \in 0 .. m - 1
  PROVE  /\ (a - b) % m \in 0 .. m - 1
         /\ (a - b) % m = 0 <=> a = b
         /\ a >= b => (a - b) % m = a - b
         /\ a < b => (a - b) % m = m + a - b
OBVIOUS

\* combicost() is 0 exactly if the combination has the first pattern's mask, and
\* below the largest word, so that a full table can always be widened.
LEMMA Costs ==
  ASSUME NEW x \in Pattern, NEW y \in Pattern
  PROVE  /\ CombiCost(x, y) \in 0 .. Word - 1
         /\ CombiCost(x, y) < 1 <=> Combine(x, y).mask = x.mask
         /\ x.mask \subseteq DEFAULT_MASK => CombiCost(x, y) < Word - 1
<1> DEFINE k == x.mask
           m == Combine(x, y).mask
           A == Addresses(m)
           B == Addresses(k)
<1>1. k \in SUBSET Bits /\ m \in SUBSET k /\ m \in SUBSET Bits
  BY CombinePattern DEF Pattern
<1>2. Word \in Nat /\ Word > 1 /\ Width \in Nat /\ Width >= 3
  BY Sizes
<1>3. CombiCost(x, y) = (A - B) % Word
  BY DEF CombiCost
<1> HIDE DEF k, m
<1>4. A \in 0 .. Word - 1 /\ B \in 0 .. Word - 1
  <2>1. \A w \in SUBSET Bits : Addresses(w) \in 0 .. Word - 1
    BY <1>2, AddressesOf
  <2> QED BY <1>1, <2>1
<1>5. A = B <=> m = k
  BY <1>1, FewerBits
<1>6. m # {} => B >= 1 /\ A >= B
  BY <1>1, <1>4, AddressesOf, FewerBits
<1>7. ASSUME k \subseteq DEFAULT_MASK, k # {}
      PROVE  B >= 2
  <2> DEFINE n == Cardinality(k)
  <2>1. \A a, b \in Int : IsFiniteSet(a .. b) /\ Cardinality(a .. b) = IF a > b THEN 0 ELSE b - a + 1
    BY FS_Interval
  <2>2. IsFiniteSet(DEFAULT_MASK) /\ Cardinality(DEFAULT_MASK) = Width - 2
    BY <1>2, <2>1 DEF DEFAULT_MASK
  <2>3. n <= Width - 2
    BY <1>7, <2>2, FS_Subset
  <2>4. n \in 0 .. Width /\ B = 2 ^ (Width - n)
    BY <1>1, <1>7, AddressesOf
  <2> HIDE DEF n
  <2>5. Width - n \in Nat /\ 0 \in 0 .. (Width - n) - 1
    BY <1>2, <2>3, <2>4
  <2>6. 2 ^ 0 < 2 ^ (Width - n) /\ 2 ^ 0 = 1
    BY <2>5, PowerGrows
  <2> QED BY <1>4, <2>4, <2>6
<1>8. k = {} => m = {} /\ A = 0 /\ B = 0
  BY <1>1, AddressesOf
<1>9. m = {} => A = 0
  BY <1>1, AddressesOf
<1> DEFINE d == (A - B) % Word
<1> HIDE DEF A, B
<1>10. /\ d \in 0 .. Word - 1
       /\ d = 0 <=> A = B
       /\ A >= B => d = A - B
       /\ A < B => d = Word + A - B
  BY <1>2, <1>4, Difference
<1> HIDE DEF d
<1>11. k \subseteq DEFAULT_MASK => d < Word - 1
  <2> SUFFICES ASSUME k \subseteq DEFAULT_MASK PROVE d < Word - 1
    OBVIOUS
  <2>1. CASE k = {}
    BY <1>2, <1>4, <1>8, <1>10, <2>1
  <2>2. CASE k # {} /\ m = {}
    BY <1>2, <1>4, <1>7, <1>9, <1>10, <2>2
  <2>3. CASE m # {}
    BY <1>2, <1>4, <1>6, <1>10, <2>3
  <2> QED BY <2>1, <2>2, <2>3
<1> QED BY <1>3, <1>5, <1>10, <1>11 DEF d, k, m

\* The search finds a pattern of the table if there is one that is cheap enough.
LEMMA CheapFound ==
  ASSUME numpatn \in 0 .. MAXPATNS, NEW table \in [Slots -> Pattern], NEW x \in Pattern, NEW c \in Nat
  PROVE  LET i == CheapIndex(table, x, c)
         IN /\ i # -1 => i \in 0 .. numpatn - 1 /\ i \in Slots /\ CombiCost(table[i], x) < c
            /\ i = -1 => \A j \in 0 .. numpatn - 1 : ~(CombiCost(table[j], x) < c)
<1> DEFINE cost(j) == CombiCost(table[j], x)
           cheap == {j \in 0 .. numpatn - 1 : cost(j) < c}
           best == {j \in cheap : \A k \in cheap : cost(j) <= cost(k)}
<1>1. \A j \in 0 .. numpatn - 1 : j \in Slots /\ table[j] \in Pattern /\ cost(j) \in Nat
  <2>1. Word \in Nat /\ MAXPATNS \in Nat
    BY Sizes
  <2>2. \A j \in 0 .. numpatn - 1 : j \in Slots /\ table[j] \in Pattern
    BY <2>1 DEF Slots
  <2> QED BY <2>1, <2>2, Costs
<1>2. CheapIndex(table, x, c) = IF cheap = {} THEN -1 ELSE Max(best)
  BY DEF CheapIndex
<1>3. CASE cheap = {}
  BY <1>1, <1>2, <1>3
<1>4. CASE cheap # {}
  <2> DEFINE T == {cost(j) : j \in cheap}
  <2>1. T \in SUBSET Nat /\ T # {}
    BY <1>1, <1>4
  <2>2. PICK n \in T : \A k \in T : n <= k
    BY <2>1, Least
  <2>3. best # {}
    BY <2>2
  <2>4. numpatn \in Nat /\ best \in SUBSET (0 .. numpatn)
    BY Sizes
  <2>5. Max(best) \in best
    BY <2>3, <2>4, MaxOf
  <2>6. Max(best) \in 0 .. numpatn - 1 /\ cost(Max(best)) < c
    BY <2>5
  <2>7. Max(best) # -1
    BY <2>6
  <2> QED BY <1>1, <1>2, <1>4, <2>6, <2>7
<1> QED BY <1>3, <1>4
-----------------------------------------------------------------------------
\* All masks, those of slots that are not in the table too, leave out the bits of
\* the byte in a word.
BInv == TypeOK /\ \A i \in Slots : patn[i].mask \subseteq DEFAULT_MASK

LEMMA FaultPattern ==
  ASSUME NEW a \in Address
  PROVE  Fault(a) \in Pattern /\ a \subseteq DEFAULT_MASK /\ Fault(a).adr = a /\ Fault(a).mask = DEFAULT_MASK
<1>1. DEFAULT_MASK \subseteq Bits /\ a \subseteq DEFAULT_MASK
  BY WidthAssumption, SpanAssumption DEF Address, DEFAULT_MASK, Bits
<1> QED BY <1>1 DEF Fault, Pattern

\* The patterns of the table, and those of the other slots.
LEMMA Table ==
  ASSUME BInv
  PROVE  /\ patn \in [Slots -> Pattern] /\ numpatn \in 0 .. MAXPATNS /\ idx \in {-1} \cup Slots
         /\ \A i \in 0 .. numpatn - 1 : i \in Slots /\ patn[i].adr \subseteq patn[i].mask
         /\ \A i \in Slots : patn[i] \in Pattern /\ patn[i].mask \subseteq DEFAULT_MASK
<1>1. MAXPATNS \in Nat
  BY Sizes
<1> QED BY <1>1 DEF BInv, TypeOK, Slots

\* A fault that costs nothing is covered, and one that is covered costs nothing.
LEMMA KnownExact == BInv => KnownIsCovered
<1> SUFFICES ASSUME BInv, NEW a \in Address
             PROVE  CheapIndex(patn, Fault(a), 1) # -1 <=> Covered(a)
  BY DEF KnownIsCovered
<1>1. \A i \in 0 .. numpatn - 1 : CombiCost(patn[i], Fault(a)) < 1 <=> Covers(patn[i], a)
  <2> TAKE i \in 0 .. numpatn - 1
  <2> DEFINE x == patn[i]
  <2>1. x \in Pattern /\ x.adr \subseteq x.mask /\ x.mask \subseteq DEFAULT_MASK
    BY Table
  <2> HIDE DEF x
  <2>2. CombiCost(x, Fault(a)) < 1 <=> Combine(x, Fault(a)).mask = x.mask
    BY <2>1, FaultPattern, Costs
  <2>3. Combine(x, Fault(a)).mask = {b \in x.mask \cap DEFAULT_MASK : b \in x.adr <=> b \in a}
    BY FaultPattern DEF Combine
  <2>4. Combine(x, Fault(a)).mask = x.mask <=> \A b \in x.mask : b \in x.adr <=> b \in a
    BY <2>1, <2>3
  <2>5. Covers(x, a) <=> \A b \in x.mask : b \in x.adr <=> b \in a
    <3>1. ASSUME \A b \in x.mask : b \in x.adr <=> b \in a PROVE a \cap x.mask = x.adr
      BY <2>1, <3>1
    <3>2. ASSUME a \cap x.mask = x.adr PROVE \A b \in x.mask : b \in x.adr <=> b \in a
      BY <3>2
    <3> QED BY <3>1, <3>2 DEF Covers
  <2> QED BY <2>2, <2>4, <2>5 DEF x
<1>2. LET i == CheapIndex(patn, Fault(a), 1)
      IN /\ i # -1 => i \in 0 .. numpatn - 1 /\ CombiCost(patn[i], Fault(a)) < 1
         /\ i = -1 => \A j \in 0 .. numpatn - 1 : ~(CombiCost(patn[j], Fault(a)) < 1)
  BY Table, FaultPattern, CheapFound
<1> QED BY <1>1, <1>2 DEF Covered

\* relocateiffree merges with a pattern of the table.
LEMMA RelocateFound ==
  ASSUME BInv, idx # -1, RelocateIdx # -1
  PROVE  RelocateIdx \in 0 .. numpatn - 1 /\ RelocateIdx \in Slots
<1> DEFINE table == [patn EXCEPT ![idx].adr = Bits \ @]
           c == 1 + Addresses(patn[idx].mask)
<1>1. idx \in Slots /\ patn \in [Slots -> Pattern] /\ patn[idx] \in Pattern /\ numpatn \in 0 .. MAXPATNS
  BY Table
<1>2. table \in [Slots -> Pattern]
  BY <1>1 DEF Pattern
<1>3. c \in Nat
  <2>1. patn[idx].mask \in SUBSET Bits /\ Word \in Nat
    BY <1>1, Sizes DEF Pattern
  <2>2. Addresses(patn[idx].mask) \in Nat
    BY <2>1, AddressesOf
  <2> QED BY <2>2
<1>4. RelocateIdx = CheapIndex(table, patn[idx], c)
  BY DEF RelocateIdx
<1> HIDE DEF table, c
<1> QED BY <1>1, <1>2, <1>3, <1>4, CheapFound

\* A full table has a pattern that can be widened.
LEMMA WidenFound ==
  ASSUME BInv, NEW a \in Address, numpatn = MAXPATNS
  PROVE  CheapIndex(patn, Fault(a), Word - 1) \in 0 .. numpatn - 1 /\ CheapIndex(patn, Fault(a), Word - 1) \in Slots
<1>1. MAXPATNS \in Nat \ {0} /\ Word \in Nat /\ Word > 1
  BY Sizes
<1>2. 0 \in 0 .. numpatn - 1 /\ 0 \in Slots /\ Word - 1 \in Nat
  BY <1>1 DEF Slots
<1>3. CombiCost(patn[0], Fault(a)) < Word - 1
  BY <1>2, Table, FaultPattern, Costs
<1> QED BY <1>2, <1>3, Table, FaultPattern, CheapFound

LEMMA InitBInv == Init => BInv
<1>1. MAXPATNS \in Nat \ {0}
  BY Sizes
<1> QED BY <1>1 DEF Init, BInv, TypeOK, Pattern

\* Every step keeps the table in its bounds and its patterns normalised.
LEMMA NextBInv == BInv /\ [Next]_vars => BInv'
<1> SUFFICES ASSUME BInv, [Next]_vars PROVE BInv'
  OBVIOUS
<1>0. MAXPATNS \in Nat \ {0} /\ Slots = 0 .. MAXPATNS - 1
  BY Sizes DEF Slots
<1>1. CASE UNCHANGED vars
  BY <1>1 DEF vars, BInv, TypeOK
<1>2. ASSUME NEW a \in Address, Known(a) PROVE BInv'
  BY <1>2 DEF Known, BInv, TypeOK
<1>3. ASSUME NEW a \in Address, Append(a) PROVE BInv'
  <2>1. /\ patn' = [patn EXCEPT ![numpatn] = Fault(a)] /\ numpatn < MAXPATNS
        /\ numpatn' = numpatn + 1 /\ idx' = numpatn
    BY <1>3 DEF Append
  <2>2. numpatn \in Slots /\ numpatn' \in 0 .. MAXPATNS
    BY <1>0, <2>1, Table
  <2>3. \A i \in Slots : patn'[i] = IF i = numpatn THEN Fault(a) ELSE patn[i]
    BY <2>1, Table
  <2>4. patn' \in [Slots -> Pattern]
    BY <2>1, Table, FaultPattern
  <2>5. \A i \in 0 .. numpatn' - 1 : i \in Slots /\ (i = numpatn \/ i \in 0 .. numpatn - 1)
    BY <1>0, <2>1, <2>2
  <2> QED BY <2>1, <2>2, <2>3, <2>4, <2>5, Table, FaultPattern DEF BInv, TypeOK
<1>4. ASSUME NEW a \in Address, Widen(a) PROVE BInv'
  <2> DEFINE w == CheapIndex(patn, Fault(a), Word - 1)
             c == Combine(patn[w], Fault(a))
  <2>1. patn' = [patn EXCEPT ![w] = c] /\ numpatn' = numpatn /\ idx' = w /\ numpatn = MAXPATNS
    BY <1>4 DEF Widen
  <2>2. w \in 0 .. numpatn - 1 /\ w \in Slots
    BY <2>1, WidenFound
  <2>3. c \in Pattern /\ c.adr \subseteq c.mask /\ c.mask \subseteq DEFAULT_MASK
    <3>1. patn[w] \in Pattern /\ patn[w].mask \subseteq DEFAULT_MASK /\ Fault(a) \in Pattern
      BY <2>2, Table, FaultPattern
    <3>2. c \in Pattern /\ c.adr \subseteq c.mask /\ c.mask \subseteq patn[w].mask \cap Fault(a).mask
      BY <3>1, CombinePattern
    <3> QED BY <3>1, <3>2
  <2> HIDE DEF w, c
  <2>4. \A i \in Slots : patn'[i] = IF i = w THEN c ELSE patn[i]
    BY <2>1, Table
  <2>5. patn' \in [Slots -> Pattern]
    BY <2>1, <2>3, Table
  <2> QED BY <2>1, <2>2, <2>3, <2>4, <2>5, Table DEF BInv, TypeOK
<1>5. CASE Merge
  <2> DEFINE r == RelocateIdx
             c == Combine(patn[r], patn[idx])
             last == numpatn - 1
             merged == [patn EXCEPT ![r] = c]
  <2>1. /\ idx # -1 /\ r # -1 /\ numpatn' = numpatn - 1 /\ idx' = r
        /\ patn' = IF idx < numpatn - 1 THEN [merged EXCEPT ![idx] = merged[last]] ELSE merged
    BY <1>5 DEF Merge
  <2>2. r \in 0 .. numpatn - 1 /\ r \in Slots /\ idx \in Slots
    BY <2>1, RelocateFound, Table
  <2>3. c \in Pattern /\ c.adr \subseteq c.mask /\ c.mask \subseteq DEFAULT_MASK
    <3>1. patn[r] \in Pattern /\ patn[r].mask \subseteq DEFAULT_MASK /\ patn[idx] \in Pattern
      BY <2>2, Table
    <3>2. c \in Pattern /\ c.adr \subseteq c.mask /\ c.mask \subseteq patn[r].mask \cap patn[idx].mask
      BY <3>1, CombinePattern
    <3> QED BY <3>1, <3>2
  <2> HIDE DEF r, c
  <2>4. numpatn \in 0 .. MAXPATNS /\ last \in 0 .. numpatn - 1 /\ last \in Slots /\ numpatn' \in 0 .. MAXPATNS
    BY <1>0, <2>1, <2>2, Table
  <2>5. merged \in [Slots -> Pattern] /\ \A i \in Slots : merged[i] = IF i = r THEN c ELSE patn[i]
    BY <2>2, <2>3, Table
  <2>6. \A i \in Slots : /\ merged[i].mask \subseteq DEFAULT_MASK
                         /\ i \in 0 .. numpatn - 1 => merged[i].adr \subseteq merged[i].mask
    BY <2>3, <2>5, Table
  <2> HIDE DEF merged, last
  <2>7. patn' \in [Slots -> Pattern] /\ \A i \in Slots : patn'[i] = merged[i] \/ patn'[i] = merged[last]
    BY <2>1, <2>2, <2>4, <2>5
  <2>8. \A i \in 0 .. numpatn' - 1 : i \in Slots /\ i \in 0 .. numpatn - 1
    BY <1>0, <2>1, <2>4
  <2>9. \A i \in 0 .. numpatn' - 1 : patn'[i].adr \subseteq patn'[i].mask
    BY <2>4, <2>6, <2>7, <2>8
  <2>10. \A i \in Slots : patn'[i].mask \subseteq DEFAULT_MASK
    BY <2>4, <2>6, <2>7
  <2> QED BY <2>1, <2>2, <2>4, <2>7, <2>9, <2>10 DEF BInv, TypeOK
<1>6. CASE NoMerge
  BY <1>6 DEF NoMerge, BInv, TypeOK
<1> QED BY <1>1, <1>2, <1>3, <1>4, <1>5, <1>6 DEF Next, Relocate, Insert

\* For any width, any table and any order of the faults: the indices stay inside
\* of the array, a full table always has a pattern to widen, the patterns are
\* normalised, and insertaddress takes an address for known exactly when a
\* pattern covers it, although what it compares are 32-bit numbers of addresses
\* in which all addresses are 0 (patn.c:62-126).
THEOREM TableSoundHolds == Spec => []TableSound
<1>1. Init => BInv
  BY InitBInv
<1>2. BInv /\ [Next]_vars => BInv'
  BY NextBInv
<1>3. BInv => TableSound
  BY KnownExact DEF BInv, TableSound
<1> QED BY <1>1, <1>2, <1>3, PTL DEF Spec
-----------------------------------------------------------------------------
\* A step of insertaddress or relocateiffree uncovers nothing.
LEMMA StepForgetsNothing ==
  ASSUME BInv, BInv', [Next]_vars, InTable, NEW a \in Address,
         Covered(a) \/ (a \in faults' /\ a \notin faults)
  PROVE  Covered(a)'
<1>0. MAXPATNS \in Nat \ {0} /\ Slots = 0 .. MAXPATNS - 1 /\ numpatn \in 0 .. MAXPATNS
  BY Sizes, Table DEF Slots
<1>1. CASE UNCHANGED vars
  BY <1>1 DEF vars, Covered, Covers
<1>2. ASSUME NEW f \in Address, Known(f) PROVE Covered(a)'
  <2>1. Covered(f) /\ UNCHANGED <<patn, numpatn>> /\ faults' = faults \cup {f}
    BY <1>2, KnownExact DEF Known, KnownIsCovered
  <2> QED BY <2>1 DEF Covered, Covers
<1>3. ASSUME NEW f \in Address, Append(f) PROVE Covered(a)'
  <2>1. patn' = [patn EXCEPT ![numpatn] = Fault(f)] /\ numpatn' = numpatn + 1 /\ faults' = faults \cup {f}
        /\ numpatn < MAXPATNS
    BY <1>3 DEF Append
  <2>2. numpatn \in Slots /\ numpatn \in 0 .. numpatn' - 1
    BY <1>0, <2>1
  <2>3. CASE a = f
    <3>1. patn'[numpatn] = Fault(f)
      BY <2>1, <2>2, Table
    <3>2. Covers(Fault(f), f)
      BY FaultPattern DEF Covers
    <3> QED BY <2>2, <2>3, <3>1, <3>2 DEF Covered, Covers
  <2>4. CASE Covered(a)
    <3>1. PICK i \in 0 .. numpatn - 1 : Covers(patn[i], a)
      BY <2>4 DEF Covered
    <3>2. i \in 0 .. numpatn' - 1 /\ patn'[i] = patn[i]
      BY <1>0, <2>1, <3>1, Table
    <3> QED BY <3>1, <3>2 DEF Covered, Covers
  <2> QED BY <2>1, <2>3, <2>4
<1>4. ASSUME NEW f \in Address, Widen(f) PROVE Covered(a)'
  <2> DEFINE w == CheapIndex(patn, Fault(f), Word - 1)
             c == Combine(patn[w], Fault(f))
  <2>1. patn' = [patn EXCEPT ![w] = c] /\ numpatn' = numpatn /\ faults' = faults \cup {f} /\ numpatn = MAXPATNS
    BY <1>4 DEF Widen
  <2>2. w \in 0 .. numpatn - 1 /\ w \in Slots
    BY <2>1, WidenFound
  <2>3. Covers(patn[w], a) \/ Covers(Fault(f), a) => Covers(c, a)
    BY <2>2, Table, FaultPattern, CombineCovers
  <2> HIDE DEF w, c
  <2>4. \A i \in Slots : patn'[i] = IF i = w THEN c ELSE patn[i]
    BY <2>1, Table
  <2>5. CASE a = f
    <3>1. Covers(Fault(f), f)
      BY FaultPattern DEF Covers
    <3> QED BY <2>1, <2>2, <2>3, <2>4, <2>5, <3>1 DEF Covered, Covers
  <2>6. CASE Covered(a)
    <3>1. PICK i \in 0 .. numpatn - 1 : Covers(patn[i], a)
      BY <2>6 DEF Covered
    <3>2. i \in Slots
      BY <3>1, Table
    <3> QED BY <2>1, <2>2, <2>3, <2>4, <3>1, <3>2 DEF Covered, Covers
  <2> QED BY <2>1, <2>5, <2>6
<1>5. CASE Merge
  <2> DEFINE r == RelocateIdx
             c == Combine(patn[r], patn[idx])
             last == numpatn - 1
             merged == [patn EXCEPT ![r] = c]
  <2>1. /\ idx # -1 /\ r # -1 /\ numpatn' = numpatn - 1 /\ UNCHANGED faults
        /\ patn' = IF idx < numpatn - 1 THEN [merged EXCEPT ![idx] = merged[last]] ELSE merged
    BY <1>5 DEF Merge
  <2>2. r \in 0 .. numpatn - 1 /\ r \in Slots /\ idx \in Slots /\ idx < numpatn /\ r # idx
    BY <2>1, RelocateFound, Table DEF InTable
  <2>3. idx \in 0 .. numpatn - 1
    BY <1>0, <2>2
  <2>4. Covers(patn[r], a) \/ Covers(patn[idx], a) => Covers(c, a)
    BY <2>2, <2>3, Table, CombineCovers
  <2>5. PICK i \in 0 .. numpatn - 1 : Covers(patn[i], a)
    BY <2>1 DEF Covered
  <2> HIDE DEF r, c
  <2>6. i \in Slots /\ last \in Slots /\ last \in 0 .. numpatn - 1
    BY <1>0, <2>5
  <2>7. \A j \in Slots : merged[j] = IF j = r THEN c ELSE patn[j]
    BY <2>2, Table
  <2> DEFINE k == IF i = idx THEN r ELSE i
  <2>8. k \in 0 .. numpatn - 1 /\ k \in Slots /\ k # idx /\ Covers(merged[k], a)
    BY <2>2, <2>4, <2>5, <2>6, <2>7
  <2>9. DOMAIN merged = Slots
    BY Table
  <2> HIDE DEF k, merged, last
  <2>10. CASE idx < numpatn - 1
    <3>1. \A j \in Slots : patn'[j] = IF j = idx THEN merged[last] ELSE merged[j]
      BY <2>1, <2>9, <2>10
    <3>2. CASE k = last
      <4>1. idx \in 0 .. numpatn' - 1 /\ patn'[idx] = merged[last]
        BY <1>0, <2>1, <2>2, <2>3, <2>10, <3>1
      <4> QED BY <2>8, <3>2, <4>1 DEF Covered, Covers
    <3>3. CASE k # last
      <4>1. k \in 0 .. numpatn' - 1 /\ patn'[k] = merged[k]
        BY <1>0, <2>1, <2>8, <3>1, <3>3 DEF last
      <4> QED BY <2>8, <4>1 DEF Covered, Covers
    <3> QED BY <3>2, <3>3
  <2>11. CASE ~(idx < numpatn - 1)
    <3>1. idx = numpatn - 1 /\ patn' = merged
      BY <1>0, <2>1, <2>3, <2>11
    <3>2. k \in 0 .. numpatn' - 1
      BY <1>0, <2>1, <2>8, <3>1
    <3> QED BY <2>8, <3>1, <3>2 DEF Covered, Covers
  <2> QED BY <2>10, <2>11
<1>6. CASE NoMerge
  BY <1>6 DEF NoMerge, Covered, Covers
<1> QED BY <1>1, <1>2, <1>3, <1>4, <1>5, <1>6 DEF Next, Relocate, Insert

\* For any width, any table and any order: a step covers the address that is
\* reported and uncovers none, unless relocateiffree works on a slot that is not
\* in the table or merges a pattern with itself.
THEOREM NothingForgottenHolds == Spec => NothingForgotten
<1>1. Init => BInv
  BY InitBInv
<1>2. BInv /\ [Next]_vars => BInv'
  BY NextBInv
<1>3. BInv /\ BInv' /\ [Next]_vars
      => [InTable => \A a \in Address : Covered(a) \/ (a \in faults' /\ a \notin faults) => Covered(a)']_vars
  BY StepForgetsNothing
<1> QED BY <1>1, <1>2, <1>3, PTL DEF Spec, NothingForgotten
=============================================================================
