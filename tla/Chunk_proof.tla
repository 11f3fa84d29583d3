----------------------------- MODULE Chunk_proof -----------------------------
(***************************************************************************)
(* For every size of the segment that the CPUs fit in, the parts that      *)
(* calculate_chunk gives them make it up, and the loops stay inside of     *)
(* them.                                                                   *)
(***************************************************************************)
EXTENDS Chunk, TLAPS

\* The size of the segment that the code takes for granted: what is lost to the
\* rounding up of the parts but the last must leave some of the last one.
Fits == \A n \in Cpus, s \in Sizes, a \in Aligns :
           n * (n - 1) * (4 * a - 1) <= 4 * (1024 * s - 1)

\* Each CPU is inside of its part, at a whole number of pieces from where it began,
\* and has tested what is behind it.
PieceUp(c) == \E k \in Nat : /\ pe[c] = Start(c) + k * SPINSZ
                             /\ k = 0 => p[c] = pe[c]
                             /\ k # 0 => p[c] = pe[c] + 1
                             /\ p[c] <= End(c)

Up(c) == /\ Start(c) <= p[c] /\ p[c] <= End(c) + 1 /\ tested[c] <= p[c] - Start(c)
         /\ walk # "fade" => tested[c] = p[c] - Start(c)
         /\ c \in testing => PieceUp(c)
         /\ c \notin testing => p[c] = End(c) + 1

PieceDown(c) == \E k \in Nat : /\ pe[c] = End(c) - k * SPINSZ
                               /\ k = 0 => p[c] = pe[c]
                               /\ k # 0 => p[c] = pe[c] - 1
                               /\ p[c] >= Start(c)

Down(c) == /\ Start(c) - 1 <= p[c] /\ p[c] <= End(c) /\ tested[c] = End(c) - p[c]
           /\ c \in testing => PieceDown(c)
           /\ c \notin testing => p[c] = Start(c) - 1

Inside(c) == /\ pe[c] \in Start(c) .. End(c) /\ p[c] \in Int /\ tested[c] \in Nat
             /\ walk = "down" => Down(c)
             /\ walk # "down" => Up(c)

Cases == run_cpus \in Cpus /\ size \in Sizes /\ align \in Aligns /\ walk \in Walks

IInv == /\ Cases /\ PartsOfSegment
        /\ DOMAIN p = CPU /\ DOMAIN pe = CPU /\ DOMAIN tested = CPU
        /\ testing \subseteq CPU
        /\ \A c \in CPU : Inside(c)
-----------------------------------------------------------------------------
\* What the division of C gives.
LEMMA Quotient ==
  ASSUME NEW x \in Nat, NEW y \in Nat \ {0}
  PROVE  /\ x \div y \in Nat
         /\ (x \div y) * y <= x
         /\ x < (x \div y) * y + y
BY Z3

LEMMA Remainder ==
  ASSUME NEW k \in Nat, NEW y \in Nat, NEW d \in {0, 1}, y >= 1
  PROVE  (k * y + d) % y <= 1
BY Z3

\* The parts of all CPUs but the last leave some of the segment to the last one.
LEMMA Room ==
  ASSUME NEW n \in Nat, NEW a \in Nat, NEW e \in Nat, NEW b \in Nat, NEW w \in Nat,
         n >= 2, a >= 1,
         b * n <= 4 * e, 4 * e < b * n + n,
         4 * w <= b + 4 * a - 1, b <= 4 * w,
         n * (n - 1) * (4 * a - 1) <= 4 * e
  PROVE  w > 0 /\ (n - 1) * w <= e
OBVIOUS

LEMMA Times ==
  ASSUME NEW x \in Nat, NEW y \in Nat, NEW z \in Nat, x <= y
  PROVE  x * z \in Nat /\ x * z <= y * z /\ (x + 1) * z = x * z + z
OBVIOUS

\* The numbers of a case.
LEMMA CaseNumbers ==
  ASSUME Cases
  PROVE  /\ run_cpus \in Nat /\ run_cpus >= 1 /\ run_cpus \in Cpus
         /\ align \in Nat /\ align >= 1 /\ align \in Aligns
         /\ size \in Sizes /\ SegEnd \in Nat
BY CpusAssumption, SizesAssumption, AlignsAssumption DEF Cases, SegEnd

\* The size of a part, rounded up.
LEMMA PartFits ==
  ASSUME Cases, Fits
  PROVE  /\ ChunkWords \in Nat
         /\ run_cpus >= 2 => ChunkWords > 0 /\ (run_cpus - 1) * ChunkWords <= SegEnd
<1> DEFINE b == (4 * SegEnd) \div run_cpus
           k == (b + 4 * align - 1) \div (4 * align)
<1>1. /\ b \in Nat /\ b * run_cpus <= 4 * SegEnd
      /\ 4 * SegEnd < b * run_cpus + run_cpus
  <2>1. 4 * SegEnd \in Nat /\ run_cpus \in Nat \ {0}
    BY CaseNumbers
  <2> QED
    BY <2>1, Quotient
<1>2. /\ k \in Nat /\ k * (4 * align) <= b + 4 * align - 1
      /\ b + 4 * align - 1 < k * (4 * align) + 4 * align
  <2> HIDE DEF b
  <2>1. b + 4 * align - 1 \in Nat /\ 4 * align \in Nat \ {0}
    BY <1>1, CaseNumbers
  <2> QED
    BY <2>1, Quotient
<1>3. ChunkWords = k * align
  BY DEF ChunkWords
<1> HIDE DEF b, k
<1>4. /\ ChunkWords \in Nat /\ 4 * ChunkWords = k * (4 * align)
  BY <1>2, <1>3, CaseNumbers
<1>5. 4 * ChunkWords <= b + 4 * align - 1 /\ b <= 4 * ChunkWords
  BY <1>1, <1>2, <1>4, CaseNumbers
<1>6. run_cpus * (run_cpus - 1) * (4 * align - 1) <= 4 * SegEnd
  BY CaseNumbers DEF Fits, SegEnd
<1>7. ASSUME run_cpus >= 2
      PROVE  ChunkWords > 0 /\ (run_cpus - 1) * ChunkWords <= SegEnd
  BY <1>1, <1>4, <1>5, <1>6, <1>7, CaseNumbers, Room
<1> QED
  BY <1>4, <1>7

\* The parts make up the segment.
LEMMA Parts ==
  ASSUME Cases, Fits
  PROVE  PartsOfSegment /\ \A c \in CPU : Start(c) \in Nat /\ End(c) \in Nat
<1>1. CASE run_cpus = 1
  <2>1. CPU = {0} /\ mstr_cpu = 0
    BY <1>1 DEF CPU, mstr_cpu
  <2> QED
    BY <1>1, <2>1, CaseNumbers DEF PartsOfSegment, Start, End
<1>2. CASE run_cpus >= 2
  <2> DEFINE w == ChunkWords
             m == mstr_cpu
  <2>1. w \in Nat /\ w > 0 /\ m * w <= SegEnd /\ SegEnd \in Nat
    BY <1>2, PartFits, CaseNumbers DEF mstr_cpu
  <2>2. m \in Nat /\ m \in CPU /\ 0 \in CPU /\ \A c \in CPU : c \in Nat /\ c <= m
    BY CaseNumbers DEF mstr_cpu, CPU
  <2>3. /\ \A c \in CPU : Start(c) = c * w
        /\ \A c \in CPU : End(c) = IF c = m THEN SegEnd ELSE c * w + w - 1
        /\ \A c \in CPU \ {m} : c + 1 \in CPU /\ c + 1 <= m /\ Start(c + 1) = (c + 1) * w
    BY <1>2, CaseNumbers DEF Start, End, mstr_cpu, CPU
  <2> HIDE DEF w, m
  <2>4. ASSUME NEW c \in CPU
        PROVE  /\ c * w \in Nat /\ c * w <= SegEnd /\ (c + 1) * w = c * w + w
               /\ c # m => (c + 1) * w <= SegEnd
    <3>1. c \in Nat /\ c <= m /\ (c # m => c + 1 <= m)
      BY <2>2, <2>3
    <3>2. c * w \in Nat /\ c * w <= m * w /\ (c + 1) * w = c * w + w
      BY <2>1, <2>2, <3>1, Times
    <3>3. c # m => (c + 1) * w <= m * w
      BY <2>1, <2>2, <3>1, Times
    <3> QED
      BY <2>1, <2>2, <3>2, <3>3, Times
  <2>5. \A c \in CPU : /\ Start(c) \in Nat /\ End(c) \in Nat
                       /\ Start(c) <= End(c) /\ End(c) <= SegEnd
    BY <2>1, <2>3, <2>4
  <2>6. \A c \in CPU \ {m} : Start(c + 1) = End(c) + 1
    BY <2>1, <2>3, <2>4
  <2>7. Start(0) = 0 /\ End(m) = SegEnd
    BY <2>1, <2>2, <2>3
  <2> QED
    BY <2>5, <2>6, <2>7 DEF PartsOfSegment, m
<1> QED
  BY <1>1, <1>2, CaseNumbers
-----------------------------------------------------------------------------
\* A part that is k pieces and at most a word long is not what Uneven allows.
LEMMA NotWhole ==
  ASSUME Cases, Fits, Uneven, NEW c \in CPU, NEW k \in Nat, NEW d \in {0, 1}
  PROVE  SPINSZ \in Nat /\ SPINSZ >= 2 /\ End(c) - Start(c) # k * SPINSZ + d
<1>1. SPINSZ \in Nat /\ SPINSZ >= 1 /\ (End(c) - Start(c)) % SPINSZ > 1
  BY SpinAssumption DEF Uneven
<1>2. ASSUME End(c) - Start(c) = k * SPINSZ + d PROVE FALSE
  <2>1. (k * SPINSZ + d) % SPINSZ > 1
    BY <1>1, <1>2
  <2> QED
    BY <1>1, <2>1, Remainder
<1>3. SPINSZ # 1
  <2>1. End(c) - Start(c) \in Int
    BY Parts
  <2>2. \A x \in Int : x % 1 = 0
    BY Z3
  <2> QED
    BY <1>1, <2>1, <2>2
<1> QED
  BY <1>1, <1>2, <1>3

-----------------------------------------------------------------------------
LEMMA InitInv ==
  ASSUME Init, Fits
  PROVE  IInv
<1>1. Cases
  BY DEF Init, Cases
<1>2. PartsOfSegment /\ \A c \in CPU : Start(c) \in Nat /\ End(c) \in Nat
  BY <1>1, Parts
<1>3. \A c \in CPU : Start(c) <= End(c)
  BY <1>2 DEF PartsOfSegment
<1>4. 0 * SPINSZ = 0 /\ 0 \in Nat
  BY SpinAssumption
<1>5. ASSUME NEW c \in CPU PROVE Inside(c)
  <2>1. /\ p[c] = IF walk = "down" THEN End(c) ELSE Start(c)
        /\ pe[c] = p[c] /\ tested[c] = 0 /\ c \in testing
    BY <1>5 DEF Init
  <2>2. CASE walk = "down"
    <3>1. /\ pe[c] = End(c) - 0 * SPINSZ /\ p[c] = pe[c] /\ p[c] >= Start(c)
          /\ Start(c) - 1 <= p[c] /\ p[c] <= End(c) /\ tested[c] = End(c) - p[c]
      BY <1>2, <1>3, <1>4, <1>5, <2>1, <2>2
    <3>2. Down(c)
      BY <1>4, <2>1, <3>1, Zenon DEF Down, PieceDown
    <3> QED
      BY <1>2, <1>3, <1>5, <2>1, <2>2, <3>2 DEF Inside
  <2>3. CASE walk # "down"
    <3>1. /\ pe[c] = Start(c) + 0 * SPINSZ /\ p[c] = pe[c] /\ p[c] <= End(c)
          /\ Start(c) <= p[c] /\ p[c] <= End(c) + 1
          /\ tested[c] = p[c] - Start(c) /\ tested[c] <= p[c] - Start(c)
      BY <1>2, <1>3, <1>4, <1>5, <2>1, <2>3
    <3>2. Up(c)
      BY <1>4, <2>1, <3>1, Zenon DEF Up, PieceUp
    <3> QED
      BY <1>2, <1>3, <1>5, <2>1, <2>3, <3>2 DEF Inside
  <2> QED
    BY <2>2, <2>3
<1> QED
  BY <1>1, <1>2, <1>5 DEF Init, IInv

\* An iteration on the way up: it tests something, and there is more or all is done.
LEMMA IterationUp ==
  ASSUME IInv, Fits, Uneven, NEW c \in testing, walk # "down"
  PROVE  /\ NextPe(c) \in Start(c) .. End(c) /\ p[c] < NextPe(c)
         /\ Stride(c) = NextPe(c) + 1
         /\ Piece(c) = IF walk = "fade" THEN NextPe(c) - p[c] ELSE NextPe(c) - p[c] + 1
         /\ IF Done(c) THEN NextPe(c) = End(c)
            ELSE /\ Stride(c) <= End(c)
                 /\ \E k \in Nat : NextPe(c) = Start(c) + k * SPINSZ /\ k # 0
<1>1. c \in CPU /\ Inside(c) /\ Start(c) \in Nat /\ End(c) \in Nat /\ Cases
  BY Parts DEF IInv
<1>2. PICK k \in Nat : /\ pe[c] = Start(c) + k * SPINSZ
                       /\ k = 0 => p[c] = pe[c]
                       /\ k # 0 => p[c] = pe[c] + 1
                       /\ p[c] <= End(c)
  <2>1. PieceUp(c)
    BY <1>1 DEF Inside, Up
  <2> QED
    BY <2>1 DEF PieceUp
<1>3. /\ SPINSZ \in Nat /\ SPINSZ >= 2 /\ k * SPINSZ \in Nat /\ k + 1 \in Nat
      /\ (k + 1) * SPINSZ = k * SPINSZ + SPINSZ
  <2>1. SPINSZ \in Nat /\ SPINSZ >= 2
    BY <1>1, NotWhole
  <2> QED
    BY <2>1
<1>4. /\ End(c) - Start(c) # k * SPINSZ /\ End(c) - Start(c) # k * SPINSZ + 1
      /\ End(c) - Start(c) # (k + 1) * SPINSZ /\ End(c) - Start(c) # (k + 1) * SPINSZ + 1
  <2>1. \A n \in Nat : \A d \in {0, 1} : End(c) - Start(c) # n * SPINSZ + d
    BY <1>1, NotWhole
  <2>2. k * SPINSZ + 0 = k * SPINSZ /\ (k + 1) * SPINSZ + 0 = (k + 1) * SPINSZ
    BY <1>3
  <2> QED
    BY <1>3, <2>1, <2>2
<1>5. NextPe(c) = IF Done(c) THEN End(c) ELSE pe[c] + SPINSZ
  BY DEF NextPe, NextUp, Done
<1>6. Done(c) <=> pe[c] + SPINSZ >= End(c)
  BY DEF Done
<1>7. p[c] < NextPe(c) /\ NextPe(c) \in Start(c) .. End(c)
  BY <1>1, <1>2, <1>3, <1>4, <1>5, <1>6
<1>8. Stride(c) = NextPe(c) + 1
  BY DEF Stride
<1>9. ~Done(c) => Stride(c) <= End(c) /\ NextPe(c) = Start(c) + (k + 1) * SPINSZ /\ k + 1 # 0
  BY <1>1, <1>2, <1>3, <1>4, <1>5, <1>6, <1>8
<1>10. Piece(c) = IF walk = "fade" THEN NextPe(c) - p[c] ELSE NextPe(c) - p[c] + 1
  BY <1>1, <1>2, <1>3, <1>7 DEF Piece
<1> QED
  BY <1>3, <1>5, <1>7, <1>8, <1>9, <1>10

\* The same on the way down.
LEMMA IterationDown ==
  ASSUME IInv, Fits, Uneven, NEW c \in testing, walk = "down"
  PROVE  /\ NextPe(c) \in Start(c) .. End(c) /\ NextPe(c) < p[c]
         /\ Stride(c) = NextPe(c) - 1
         /\ Piece(c) = p[c] - NextPe(c) + 1
         /\ IF Done(c) THEN NextPe(c) = Start(c)
            ELSE /\ Stride(c) >= Start(c)
                 /\ \E k \in Nat : NextPe(c) = End(c) - k * SPINSZ /\ k # 0
<1>1. c \in CPU /\ Inside(c) /\ Start(c) \in Nat /\ End(c) \in Nat /\ Cases
  BY Parts DEF IInv
<1>2. PICK k \in Nat : /\ pe[c] = End(c) - k * SPINSZ
                       /\ k = 0 => p[c] = pe[c]
                       /\ k # 0 => p[c] = pe[c] - 1
                       /\ p[c] >= Start(c)
  <2>1. PieceDown(c)
    BY <1>1 DEF Inside, Down
  <2> QED
    BY <2>1 DEF PieceDown
<1>3. /\ SPINSZ \in Nat /\ SPINSZ >= 2 /\ k * SPINSZ \in Nat /\ k + 1 \in Nat
      /\ (k + 1) * SPINSZ = k * SPINSZ + SPINSZ
  <2>1. SPINSZ \in Nat /\ SPINSZ >= 2
    BY <1>1, NotWhole
  <2> QED
    BY <2>1
<1>4. /\ End(c) - Start(c) # k * SPINSZ /\ End(c) - Start(c) # k * SPINSZ + 1
      /\ End(c) - Start(c) # (k + 1) * SPINSZ /\ End(c) - Start(c) # (k + 1) * SPINSZ + 1
  <2>1. \A n \in Nat : \A d \in {0, 1} : End(c) - Start(c) # n * SPINSZ + d
    BY <1>1, NotWhole
  <2>2. k * SPINSZ + 0 = k * SPINSZ /\ (k + 1) * SPINSZ + 0 = (k + 1) * SPINSZ
    BY <1>3
  <2> QED
    BY <1>3, <2>1, <2>2
<1>5. NextPe(c) = IF Done(c) THEN Start(c) ELSE pe[c] - SPINSZ
  BY DEF NextPe, NextDown, Done
<1>6. Done(c) <=> pe[c] - SPINSZ < Start(c)
  BY DEF Done
<1>7. NextPe(c) < p[c] /\ NextPe(c) \in Start(c) .. End(c)
  <2>1. CASE Done(c)
    <3>1. p[c] # Start(c)
      <4>1. CASE k = 0
        BY <1>1, <1>2, <1>3, <1>4, <4>1
      <4>2. CASE k # 0
        BY <1>1, <1>2, <1>3, <1>4, <4>2
      <4> QED
        BY <4>1, <4>2
    <3>2. p[c] \in Int /\ p[c] >= Start(c) /\ NextPe(c) = Start(c) /\ Start(c) <= End(c)
      BY <1>1, <1>2, <1>5, <2>1 DEF Inside
    <3> QED
      BY <1>1, <3>1, <3>2
  <2>2. CASE ~Done(c)
    <3>1. pe[c] \in Int /\ pe[c] <= End(c) /\ (p[c] = pe[c] \/ p[c] = pe[c] - 1)
      BY <1>1, <1>2 DEF Inside
    <3>2. NextPe(c) = pe[c] - SPINSZ /\ ~(pe[c] - SPINSZ < Start(c))
      BY <1>5, <1>6, <2>2
    <3> QED
      BY <1>1, <1>3, <3>1, <3>2
  <2> QED
    BY <2>1, <2>2
<1>8. Stride(c) = NextPe(c) - 1
  BY DEF Stride
<1>9. ~Done(c) => Stride(c) >= Start(c) /\ NextPe(c) = End(c) - (k + 1) * SPINSZ /\ k + 1 # 0
  BY <1>1, <1>2, <1>3, <1>4, <1>5, <1>6, <1>8
<1>10. Piece(c) = p[c] - NextPe(c) + 1
  BY <1>1, <1>2, <1>3, <1>7 DEF Piece
<1> QED
  BY <1>3, <1>5, <1>7, <1>8, <1>9, <1>10

\* All CPUs make an iteration.
LEMMA TickInv ==
  ASSUME IInv, Fits, Uneven, Tick
  PROVE  IInv'
<1>1. /\ run_cpus' = run_cpus /\ size' = size /\ align' = align /\ walk' = walk
      /\ CPU' = CPU /\ \A c : Start(c)' = Start(c) /\ End(c)' = End(c)
  BY DEF Tick, case, CPU, Start, End, ChunkWords, SegEnd, mstr_cpu
<1>2. Cases' /\ PartsOfSegment'
  BY <1>1 DEF IInv, Cases, PartsOfSegment, CPU, Start, End, ChunkWords, SegEnd, mstr_cpu
<1>3. DOMAIN p' = CPU' /\ DOMAIN pe' = CPU' /\ DOMAIN tested' = CPU' /\ testing' \subseteq CPU'
  BY <1>1 DEF Tick, IInv
<1>4. ASSUME NEW c \in CPU PROVE Inside(c)'
  <2>1. Inside(c) /\ Start(c) \in Nat /\ End(c) \in Nat
    BY Parts DEF IInv
  <2>2. CASE c \notin testing
    <3>1. /\ p'[c] = p[c] /\ pe'[c] = pe[c] /\ tested'[c] = tested[c] /\ c \notin testing'
      BY <1>4, <2>2 DEF Tick
    <3> QED
      BY <1>1, <2>1, <2>2, <3>1 DEF Inside, Up, Down
  <2>3. CASE c \in testing
    <3>1. /\ pe'[c] = NextPe(c) /\ tested'[c] = tested[c] + Piece(c)
          /\ p[c] # NextPe(c) => p'[c] = Stride(c) /\ (c \in testing' <=> ~Done(c))
      BY <1>4, <2>3 DEF Tick
    <3>2. CASE walk = "down"
      <4>1. /\ NextPe(c) \in Start(c) .. End(c) /\ NextPe(c) < p[c] /\ p[c] <= End(c)
            /\ tested[c] = End(c) - p[c] /\ p[c] \in Int /\ tested[c] \in Nat
            /\ Piece(c) = p[c] - NextPe(c) + 1 /\ Stride(c) = NextPe(c) - 1
        BY <2>1, <2>3, <3>2, IterationDown DEF Inside, Down
      <4>2. p'[c] = NextPe(c) - 1 /\ (c \in testing' <=> ~Done(c))
        BY <2>1, <3>1, <4>1
      <4>3. /\ pe'[c] \in Start(c) .. End(c) /\ p'[c] \in Int /\ tested'[c] \in Nat
            /\ Start(c) - 1 <= p'[c] /\ p'[c] <= End(c) /\ tested'[c] = End(c) - p'[c]
            /\ p'[c] = pe'[c] - 1
        BY <2>1, <3>1, <4>1, <4>2
      <4>4. ASSUME c \in testing'
            PROVE  PieceDown(c)'
        <5>1. Stride(c) >= Start(c) /\ \E k \in Nat : NextPe(c) = End(c) - k * SPINSZ /\ k # 0
          BY <2>3, <3>2, <4>2, <4>4, IterationDown
        <5>2. PICK k \in Nat : NextPe(c) = End(c) - k * SPINSZ /\ k # 0
          BY <5>1
        <5>3. /\ pe'[c] = End(c) - k * SPINSZ /\ p'[c] = pe'[c] - 1
              /\ p'[c] >= Start(c)
          BY <3>1, <4>1, <4>2, <4>3, <5>1, <5>2
        <5> QED
          BY <1>1, <5>2, <5>3, Zenon DEF PieceDown
      <4>5. c \notin testing' => p'[c] = Start(c) - 1
        BY <2>3, <3>2, <4>2, IterationDown
      <4> QED
        BY <1>1, <3>2, <4>3, <4>4, <4>5, Zenon DEF Inside, Down
    <3>3. CASE walk # "down"
      <4>1. /\ NextPe(c) \in Start(c) .. End(c) /\ p[c] < NextPe(c) /\ Start(c) <= p[c]
            /\ tested[c] <= p[c] - Start(c) /\ p[c] \in Int /\ tested[c] \in Nat
            /\ walk # "fade" => tested[c] = p[c] - Start(c)
            /\ Piece(c) = IF walk = "fade" THEN NextPe(c) - p[c] ELSE NextPe(c) - p[c] + 1
            /\ Stride(c) = NextPe(c) + 1
        BY <2>1, <2>3, <3>3, IterationUp DEF Inside, Up
      <4>2. p'[c] = NextPe(c) + 1 /\ (c \in testing' <=> ~Done(c))
        BY <2>1, <3>1, <4>1
      <4>3. /\ pe'[c] \in Start(c) .. End(c) /\ p'[c] \in Int /\ tested'[c] \in Nat
            /\ Start(c) <= p'[c] /\ p'[c] <= End(c) + 1 /\ tested'[c] <= p'[c] - Start(c)
            /\ walk # "fade" => tested'[c] = p'[c] - Start(c)
            /\ p'[c] = pe'[c] + 1
        BY <2>1, <3>1, <4>1, <4>2
      <4>4. ASSUME c \in testing'
            PROVE  PieceUp(c)'
        <5>1. Stride(c) <= End(c) /\ \E k \in Nat : NextPe(c) = Start(c) + k * SPINSZ /\ k # 0
          BY <2>3, <3>3, <4>2, <4>4, IterationUp
        <5>2. PICK k \in Nat : NextPe(c) = Start(c) + k * SPINSZ /\ k # 0
          BY <5>1
        <5>3. /\ pe'[c] = Start(c) + k * SPINSZ /\ p'[c] = pe'[c] + 1
              /\ p'[c] <= End(c)
          BY <3>1, <4>1, <4>2, <4>3, <5>1, <5>2
        <5> QED
          BY <1>1, <5>2, <5>3, Zenon DEF PieceUp
      <4>5. c \notin testing' => p'[c] = End(c) + 1
        BY <2>3, <3>3, <4>2, IterationUp
      <4> QED
        BY <1>1, <3>3, <4>3, <4>4, <4>5, Zenon DEF Inside, Up
    <3> QED
      BY <3>2, <3>3
  <2> QED
    BY <2>2, <2>3
<1> QED
  BY <1>1, <1>2, <1>3, <1>4 DEF IInv
-----------------------------------------------------------------------------
\* The invariant holds if the CPUs fit in and no part ends at a whole piece.
THEOREM Invariance ==
  ASSUME Fits
  PROVE  Spec /\ []Uneven => []IInv
<1>1. IInv /\ Uneven /\ [Next]_vars => IInv'
  <2> SUFFICES ASSUME IInv, Uneven, [Next]_vars PROVE IInv'
    OBVIOUS
  <2>1. CASE UNCHANGED vars
    <3>1. /\ UNCHANGED <<run_cpus, size, align, walk, p, pe, testing, tested>>
          /\ CPU' = CPU /\ \A c : Start(c)' = Start(c) /\ End(c)' = End(c)
      BY <2>1 DEF vars, case, CPU, Start, End, ChunkWords, SegEnd, mstr_cpu
    <3>2. Cases' /\ PartsOfSegment'
      BY <3>1 DEF IInv, Cases, PartsOfSegment, CPU, Start, End, ChunkWords, SegEnd, mstr_cpu
    <3>3. ASSUME NEW c \in CPU PROVE Inside(c)'
      BY <3>1 DEF IInv, Inside, Up, Down, PieceUp, PieceDown
    <3> QED
      BY <3>1, <3>2, <3>3 DEF IInv
  <2>2. CASE Tick
    BY <2>2, TickInv
  <2> QED
    BY <2>1, <2>2 DEF Next
<1>2. Init => IInv
  BY InitInv
<1> QED
  BY <1>1, <1>2, PTL DEF Spec

\* The parts that calculate_chunk gives the CPUs make up the segment, and the loops
\* stay inside of them (test.c:97-115).
THEOREM TilingHolds ==
  ASSUME Fits
  PROVE  Spec /\ []Uneven => []Tiling
<1>1. IInv => Tiling
  <2> SUFFICES ASSUME IInv PROVE TypeOK
    BY DEF IInv, Tiling
  <2>1. ASSUME NEW c \in CPU
        PROVE  /\ pe[c] \in Start(c) .. End(c)
               /\ p[c] \in Start(c) - 1 .. End(c) + 1
               /\ tested[c] \in 0 .. SegEnd + 1
    <3>1. /\ Inside(c) /\ Start(c) \in Nat /\ End(c) \in Nat /\ End(c) <= SegEnd
          /\ SegEnd \in Nat
      BY Parts, CaseNumbers DEF IInv, PartsOfSegment
    <3>2. CASE walk = "down"
      BY <3>1, <3>2 DEF Inside, Down
    <3>3. CASE walk # "down"
      BY <3>1, <3>3 DEF Inside, Up
    <3> QED
      BY <3>2, <3>3
  <2> QED
    BY <2>1 DEF IInv, Cases, TypeOK
<1> QED
  BY <1>1, Invariance, PTL

\* A CPU that is through has tested each word of its part once (test.c:471-491).
THEOREM AllTestedHolds ==
  ASSUME Fits
  PROVE  Spec /\ []Uneven => []AllTested
<1>1. IInv => AllTested
  <2> SUFFICES ASSUME IInv, NEW c \in CPU \ testing, walk # "fade"
               PROVE  tested[c] = End(c) - Start(c) + 1
    BY DEF AllTested
  <2>1. Inside(c) /\ Start(c) \in Nat /\ End(c) \in Nat
    BY Parts DEF IInv
  <2> QED
    BY <2>1 DEF Inside, Up, Down
<1> QED
  BY <1>1, Invariance, PTL
-----------------------------------------------------------------------------
(* Equal ticks.  A segment is k whole pieces for each CPU and t pages more. *)

\* The sizes for which the rounding of calculate_chunk does not matter: pieces are
\* whole pages, the multiples it rounds to divide a page, and what it takes from
\* the last part, and eight bytes for each CPU, is in the segment; beyond a whole
\* piece for every CPU it is in a page.
Roomy ==
  /\ SPINSZ % 1024 = 0
  /\ \A a \in Aligns : 1024 % a = 0
  /\ \A n \in Cpus, s \in Sizes, a \in Aligns :
       n * (n - 1) * (4 * a - 1) + 8 * n
         <= 4 * (1024 * (IF 1024 * s <= n * SPINSZ THEN s ELSE 1) - 1)

\* Each part is k whole pieces, a word and more, but no k + 1.
Pieces(k) == \A c \in CPU : /\ k * SPINSZ + 1 < End(c) - Start(c)
                            /\ End(c) - Start(c) < (k + 1) * SPINSZ
SamePieces == \E k \in Nat : Pieces(k)

LEMMA Divides ==
  ASSUME NEW x \in Nat, NEW y \in Nat \ {0}, x % y = 0
  PROVE  \E q \in Nat : x = q * y
<1>1. x \div y \in Nat /\ (x \div y) * y <= x /\ x < (x \div y) * y + y
  BY Quotient
<1>2. x = (x \div y) * y + (x % y)
  BY Z3
<1> QED
  BY <1>1, <1>2

\* The part w of the CPUs but the last, less the whole pieces, from e words less
\* those: what n times the part is.
LEMMA PartBounds ==
  ASSUME NEW n \in Nat, NEW a \in Nat, NEW e \in Nat, NEW b \in Nat, NEW w \in Nat,
         NEW g \in Nat, NEW f \in Int, NEW v \in Int,
         n >= 1, a >= 1,
         b * n <= 4 * e, 4 * e < b * n + n,
         4 * w <= b + 4 * a - 1, b <= 4 * w,
         e = n * g + f, w = g + v
  PROVE  /\ 4 * (n * v) <= 4 * f + n * (4 * a - 1)
         /\ 4 * f - n + 1 <= 4 * (n * v)
<1>1. n * w = n * g + n * v
  OBVIOUS
<1>2. n * (4 * w) <= n * (b + 4 * a - 1) /\ n * b <= n * (4 * w)
  BY Z3
<1>3. n * (b + 4 * a - 1) = n * b + n * (4 * a - 1) /\ n * (4 * w) = 4 * (n * w) /\ n * b = b * n
  OBVIOUS
<1> QED
  BY <1>1, <1>2, <1>3

\* The last part m, less the whole pieces, is at least two words ...
LEMMA LastAtLeast ==
  ASSUME NEW n \in Nat, NEW a \in Nat, NEW f \in Int, NEW v \in Int, NEW m \in Int,
         n >= 1, a >= 1,
         4 * (n * v) <= 4 * f + n * (4 * a - 1),
         m = f - (n - 1) * v,
         n * (n - 1) * (4 * a - 1) + 8 * n <= 4 * f
  PROVE  m >= 2
<1>1. n * m = n * f - (n - 1) * (n * v)
  OBVIOUS
<1>2. (n - 1) * (4 * (n * v)) <= (n - 1) * (4 * f + n * (4 * a - 1))
  BY Z3
<1>3. /\ (n - 1) * (4 * (n * v)) = 4 * ((n - 1) * (n * v))
      /\ (n - 1) * (4 * f + n * (4 * a - 1)) = 4 * (n * f) - 4 * f + n * (n - 1) * (4 * a - 1)
  OBVIOUS
<1>4. 4 * (n * m) >= 8 * n
  BY <1>1, <1>2, <1>3
<1> QED
  BY <1>4

\* ... and not more than it would be with parts that are not rounded up.
LEMMA LastAtMost ==
  ASSUME NEW n \in Nat, NEW f \in Int, NEW v \in Int, NEW m \in Int,
         n >= 1, n <= 32,
         4 * f - n + 1 <= 4 * (n * v),
         m = f - (n - 1) * v
  PROVE  4 * (n * m) <= 4 * f + 961
<1>1. n * m = n * f - (n - 1) * (n * v)
  OBVIOUS
<1>2. (n - 1) * (4 * f - n + 1) <= (n - 1) * (4 * (n * v))
  BY Z3
<1>3. /\ (n - 1) * (4 * (n * v)) = 4 * ((n - 1) * (n * v))
      /\ (n - 1) * (4 * f - n + 1) = 4 * (n * f) - 4 * f - (n - 1) * (n - 1)
  OBVIOUS
<1>4. (n - 1) * (n - 1) <= 961
  BY Z3
<1> QED
  BY <1>1, <1>2, <1>3, <1>4

\* A part is rounded up to whole pieces at most, since they are multiples too.
LEMMA RoundedWithin ==
  ASSUME NEW n \in Nat, NEW a \in Nat, NEW e \in Nat, NEW b \in Nat, NEW i \in Nat, NEW j \in Nat,
         n >= 1, a >= 1,
         b * n <= 4 * e, e < n * (j * a),
         i * (4 * a) <= b + 4 * a - 1
  PROVE  i * a <= j * a
<1>1. b < 4 * (j * a)
  <2>1. b * n < 4 * (n * (j * a))
    OBVIOUS
  <2>2. 4 * (n * (j * a)) = (4 * (j * a)) * n
    OBVIOUS
  <2> DEFINE y == 4 * (j * a)
  <2>3. y \in Nat /\ b * n < y * n
    BY <2>1, <2>2
  <2> HIDE DEF y
  <2>4. b < y
    BY <2>3, Z3
  <2> QED
    BY <2>4 DEF y
<1>2. i * (4 * a) < (j + 1) * (4 * a)
  BY <1>1
<1>3. i < j + 1
  <2> DEFINE y == 4 * a
  <2>1. y \in Nat /\ i * y < (j + 1) * y
    BY <1>2
  <2> HIDE DEF y
  <2> QED
    BY <2>1, Z3
<1> QED
  BY <1>3, Times

\* The parts of a segment of k whole pieces for each of the n CPUs, and f words;
\* s is a piece.
Lengths(n, a, f, v, m, s) ==
  /\ n \in Nat /\ a \in Nat /\ f \in Nat /\ v \in Int /\ m \in Int /\ s \in Nat
  /\ n >= 1 /\ n <= 32 /\ a >= 1 /\ f >= 1023
  /\ f = n * s - 1 \/ f + 1024 < n * s
  /\ 4 * (n * v) <= 4 * f + n * (4 * a - 1)
  /\ 4 * f - n + 1 <= 4 * (n * v)
  /\ v <= s
  /\ m = f - (n - 1) * v
  /\ n * (n - 1) * (4 * a - 1) + 8 * n <= 4 * f

LEMMA PartLengths ==
  ASSUME NEW n, NEW a, NEW f, NEW v, NEW m, NEW s, Lengths(n, a, f, v, m, s)
  PROVE  3 <= v /\ 2 <= m /\ m < s
<1> USE DEF Lengths
<1>1. m >= 2
  BY LastAtLeast
<1>2. v >= 3
  <2>1. n * v >= 1015
    OBVIOUS
  <2>2. v <= 2 => n * v <= 64
    BY Z3
  <2> QED
    BY <2>1, <2>2
<1>3. CASE f = n * s - 1
  <2>1. CASE n = 1
    BY <1>3, <2>1
  <2>2. CASE n >= 2
    <3>1. 4 * (n * s) - 4 - n + 1 <= 4 * (n * v)
      BY <1>3
    <3>2. n * (s - v) = n * s - n * v
      OBVIOUS
    <3>3. s - v >= 1 => n * (s - v) >= n
      BY <2>2, Z3
    <3>4. v = s
      BY <2>2, <3>1, <3>2, <3>3
    <3>5. (n - 1) * s = n * s - s
      OBVIOUS
    <3> QED
      BY <1>3, <3>4, <3>5
  <2> QED
    BY <2>1, <2>2
<1>4. CASE f + 1024 < n * s
  <2>1. 4 * (n * m) <= 4 * f + 961
    BY LastAtMost
  <2>2. n * m < n * s
    BY <1>4, <2>1
  <2> QED
    BY <1>1, <2>2, Z3
<1> QED
  BY <1>1, <1>2, <1>3, <1>4

\* How the pages of a segment are divided in whole pieces for n CPUs.
LEMMA WholePieces ==
  ASSUME NEW n \in Nat, NEW s \in Nat, NEW q \in Nat, n >= 1, s >= 1, q >= 1
  PROVE  \E k \in Nat, t \in Nat : /\ s = n * (k * q) + t
                                   /\ t >= 1 /\ t <= n * q
                                   /\ k = 0 \/ n * q < s
<1> DEFINE y == n * q
           k == (s - 1) \div y
<1>1. y \in Nat \ {0} /\ s - 1 \in Nat
  BY Z3
<1>2. k \in Nat /\ k * y <= s - 1 /\ s - 1 < k * y + y
  <2> HIDE DEF y
  <2> QED
    BY <1>1, Quotient
<1> DEFINE t == s - k * y
<1>3. t \in Nat /\ t >= 1 /\ t <= y
  <2> HIDE DEF k, y
  <2> QED
    BY <1>1, <1>2
<1>4. k * y = n * (k * q)
  <2> HIDE DEF k
  <2> QED
    BY <1>2
<1>5. k = 0 \/ y < s
  <2> HIDE DEF k, y
  <2>1. k >= 1 => k * y >= y
    BY <1>1, <1>2, Z3
  <2> QED
    BY <1>1, <1>2, <2>1
<1>6. s = n * (k * q) + t
  <2> HIDE DEF k, y
  <2> QED
    BY <1>1, <1>2, <1>4
<1> QED
  BY <1>2, <1>3, <1>5, <1>6

\* In a segment of a size that Roomy allows the parts are equally many pieces.
LEMMA RoomyParts ==
  ASSUME Cases, Roomy
  PROVE  Uneven /\ SamePieces
<1> DEFINE n == run_cpus
           a == align
           e == SegEnd
           b == (4 * SegEnd) \div run_cpus
           i == (b + 4 * align - 1) \div (4 * align)
<1>1. n \in Nat /\ n >= 1 /\ n <= 32 /\ a \in Nat /\ a >= 1 /\ e \in Nat /\ size \in Nat /\ size >= 1
  <2>1. run_cpus \in 1 .. 32 /\ size \in Nat \ {0}
    BY CaseNumbers, CpusAssumption, SizesAssumption
  <2> QED
    BY <2>1, CaseNumbers
<1>2. e = 1024 * size - 1
  BY DEF SegEnd
<1>3. PICK q \in Nat : SPINSZ = 1024 * q /\ q >= 1
  <2>1. SPINSZ \in Nat /\ SPINSZ >= 1 /\ SPINSZ % 1024 = 0
    BY SpinAssumption DEF Roomy
  <2>2. PICK q \in Nat : SPINSZ = q * 1024
    BY <2>1, Divides
  <2> QED
    BY <2>1, <2>2
<1>4. PICK d \in Nat : 1024 = d * a
  <2>1. align \in Nat \ {0} /\ 1024 % align = 0
    BY CaseNumbers DEF Roomy
  <2> QED
    BY <2>1, Divides
<1>4a. PICK k \in Nat, t \in Nat :
          /\ size = n * (k * q) + t
          /\ t >= 1 /\ t <= n * q
          /\ k = 0 \/ n * q < size
  BY <1>1, <1>3, WholePieces
<1> DEFINE whole == n * (k * q)
           round == n * q
<1>5. /\ t \in Nat /\ t >= 1 /\ whole \in Nat /\ round \in Nat
      /\ size = whole + t /\ t <= round /\ (k = 0 \/ round < size)
      /\ k = 0 => whole = 0
  <2>1. whole \in Nat /\ round \in Nat
    BY <1>1, <1>3
  <2>2. k = 0 => whole = 0
    BY <1>1, <1>3
  <2>3. size = whole + t
    BY <1>1, <1>3, <1>4a
  <2>4. t >= 1 /\ t <= round
    BY <1>1, <1>3, <1>4a
  <2>5. k = 0 \/ round < size
    BY <1>4a
  <2> QED
    BY <2>1, <2>2, <2>3, <2>4, <2>5, Zenon
<1> HIDE DEF whole, round
<1> DEFINE g == k * SPINSZ
           f == 1024 * t - 1
           w == ChunkWords
           v == w - g
           m == f - (n - 1) * v
<1>6. /\ b \in Nat /\ b * n <= 4 * e /\ 4 * e < b * n + n
  <2>1. 4 * SegEnd \in Nat /\ run_cpus \in Nat \ {0}
    BY CaseNumbers
  <2> QED
    BY <2>1, Quotient
<1>7. /\ i \in Nat /\ i * (4 * a) <= b + 4 * a - 1 /\ b + 4 * a - 1 < i * (4 * a) + 4 * a
  <2> HIDE DEF b
  <2>1. b + 4 * align - 1 \in Nat /\ 4 * align \in Nat \ {0}
    BY <1>6, CaseNumbers
  <2> QED
    BY <2>1, Quotient
<1>8. w = i * a
  BY DEF ChunkWords
<1> HIDE DEF b, i, w, a, n, e
<1>9. w \in Nat /\ 4 * w <= b + 4 * a - 1 /\ b <= 4 * w
  BY <1>1, <1>6, <1>7, <1>8
<1>10. g \in Nat /\ f \in Nat /\ f >= 1023 /\ v \in Int /\ w = g + v
  <2>1. g \in Nat
    BY <1>3
  <2>2. f \in Nat /\ f >= 1023
    BY <1>5
  <2> HIDE DEF g
  <2> QED
    BY <1>9, <2>1, <2>2
<1>11. e = n * g + f
  <2>1. n * g = 1024 * whole
    BY <1>1, <1>3 DEF whole
  <2>2. f = 1024 * t - 1
    OBVIOUS
  <2> DEFINE y == n * g
  <2>3. y = 1024 * whole
    BY <2>1
  <2> HIDE DEF y, f, g
  <2>4. e = y + f
    BY <1>2, <1>5, <2>2, <2>3
  <2> QED
    BY <2>4 DEF y
<1>12. 4 * (n * v) <= 4 * f + n * (4 * a - 1) /\ 4 * f - n + 1 <= 4 * (n * v)
  <2> HIDE DEF g, f, v
  <2> QED
    BY <1>1, <1>6, <1>9, <1>10, <1>11, PartBounds
<1>13. n * SPINSZ = 1024 * round
  BY <1>1, <1>3 DEF round
<1>14. f = n * SPINSZ - 1 \/ f + 1024 < n * SPINSZ
  <2> DEFINE y == n * SPINSZ
  <2>1. y = 1024 * round
    BY <1>13
  <2> HIDE DEF y
  <2>2. f = y - 1 \/ f + 1024 < y
    BY <1>5, <2>1
  <2> QED
    BY <2>2 DEF y
<1>15. n * (n - 1) * (4 * a - 1) + 8 * n <= 4 * f
  <2>1. n * (n - 1) * (4 * a - 1) + 8 * n
          <= 4 * (1024 * (IF 1024 * size <= n * SPINSZ THEN size ELSE 1) - 1)
    BY CaseNumbers DEF Roomy, n, a
  <2>3. k = 0 => size = t
    BY <1>5
  <2>4. 1024 * size <= n * SPINSZ => size = t
    <3> DEFINE y == n * SPINSZ
    <3>1. y = 1024 * round
      BY <1>13
    <3> HIDE DEF y
    <3>2. 1024 * size <= y => size = t
      BY <1>1, <1>5, <2>3, <3>1
    <3> QED
      BY <3>2 DEF y
  <2> DEFINE z == n * SPINSZ
  <2> HIDE DEF z
  <2>5. (IF 1024 * size <= z THEN size ELSE 1) <= t
    BY <1>5, <2>4 DEF z
  <2> QED
    BY <1>1, <1>5, <2>1, <2>5 DEF z
<1>16. v <= SPINSZ
  <2>1. g + SPINSZ = ((k + 1) * q * d) * a /\ (k + 1) * q * d \in Nat
    BY <1>1, <1>3, <1>4
  <2>2. n * (g + SPINSZ) = n * g + n * SPINSZ
    BY <1>1, <1>3, <1>10
  <2>3. e < n * (g + SPINSZ)
    BY <1>1, <1>10, <1>11, <1>14, <2>2, SpinAssumption
  <2>4. i * a <= ((k + 1) * q * d) * a
    <3> HIDE DEF g
    <3> DEFINE j == (k + 1) * q * d
    <3>1. j \in Nat /\ e < n * (j * a)
      BY <2>1, <2>3
    <3> HIDE DEF j
    <3>2. i * a <= j * a
      BY <1>1, <1>6, <1>7, <3>1, RoundedWithin
    <3> QED
      BY <3>2 DEF j
  <2> QED
    BY <1>3, <1>8, <1>9, <1>10, <2>1, <2>4
<1>17. m \in Int
  BY <1>1, <1>10
<1>18. 3 <= v /\ 2 <= m /\ m < SPINSZ
  <2> HIDE DEF f, v, m
  <2>1. m = f - (n - 1) * v
    BY DEF m
  <2>2. SPINSZ \in Nat
    BY SpinAssumption
  <2> QED
    <3>1. Lengths(n, a, f, v, m, SPINSZ)
      BY <1>1, <1>10, <1>12, <1>14, <1>15, <1>16, <1>17, <2>1, <2>2, Zenon DEF Lengths
    <3> QED
      BY <3>1, PartLengths, Zenon
<1>19. ASSUME NEW c \in CPU
       PROVE  /\ End(c) - Start(c) = g + m \/ End(c) - Start(c) = g + v - 1
  <2>1. CASE c = mstr_cpu
    <3>1. n = 1 => Start(c) = 0 /\ (n - 1) * v = 0
      BY <1>10 DEF Start, n
    <3>2. n # 1 => Start(c) = (n - 1) * w
      BY <2>1 DEF Start, mstr_cpu, n, w
    <3>3. (n - 1) * w = n * g - g + (n - 1) * v
      BY <1>1, <1>10
    <3>4. n = 1 => n * g = g
      BY <1>10
    <3>5. End(c) = e
      BY <2>1 DEF End, e
    <3>6. (n - 1) * v \in Int /\ n * g \in Int
      BY <1>1, <1>10
    <3> QED
      BY <1>1, <1>10, <1>11, <3>1, <3>2, <3>3, <3>4, <3>5, <3>6
  <2>2. CASE c # mstr_cpu
    <3>1. Start(c) \in Int
      BY <1>1, <1>9, <1>19 DEF Start, CPU, w, n
    <3>2. End(c) = Start(c) + w - 1
      BY <2>2 DEF End, w
    <3> QED
      BY <1>9, <1>10, <3>1, <3>2
  <2> QED
    BY <2>1, <2>2
<1>20. (k + 1) * SPINSZ = g + SPINSZ
  BY <1>3
<1>21. Pieces(k)
  <2> SUFFICES ASSUME NEW c \in CPU
               PROVE  g + 1 < End(c) - Start(c) /\ End(c) - Start(c) < g + SPINSZ
    BY <1>20 DEF Pieces
  <2> HIDE DEF g, v, m
  <2> QED
    BY <1>3, <1>10, <1>16, <1>17, <1>18, <1>19
<1>22. ASSUME NEW c \in CPU PROVE (End(c) - Start(c)) % SPINSZ > 1
  <2> DEFINE r == End(c) - Start(c) - g
  <2>1. r \in Nat /\ r > 1 /\ r < SPINSZ /\ End(c) - Start(c) = k * SPINSZ + r
    <3>1. End(c) - Start(c) \in Int
      <4> HIDE DEF g, v, m
      <4> QED
        BY <1>10, <1>17, <1>19
    <3>2. g + 1 < End(c) - Start(c) /\ End(c) - Start(c) < g + SPINSZ
      BY <1>20, <1>21 DEF Pieces
    <3> QED
      BY <1>3, <1>10, <3>1, <3>2
  <2> HIDE DEF r
  <2>2. (k * SPINSZ + r) % SPINSZ = r
    BY <1>3, <2>1, Z3
  <2> QED
    BY <2>1, <2>2
<1> QED
  BY <1>21, <1>22 DEF Uneven, SamePieces
-----------------------------------------------------------------------------
LEMMA RoomyFits ==
  ASSUME Roomy
  PROVE  Fits
<1> SUFFICES ASSUME NEW n \in Cpus, NEW s \in Sizes, NEW a \in Aligns
             PROVE  n * (n - 1) * (4 * a - 1) <= 4 * (1024 * s - 1)
  BY DEF Fits
<1>1. n \in Nat /\ s \in Nat /\ s >= 1
  <2>1. n \in 1 .. 32 /\ s \in Nat \ {0}
    BY CpusAssumption, SizesAssumption
  <2> QED
    BY <2>1
<1> DEFINE x == n * (n - 1) * (4 * a - 1)
           y == n * SPINSZ
<1>2. x + 8 * n <= 4 * (1024 * (IF 1024 * s <= y THEN s ELSE 1) - 1)
  BY DEF Roomy
<1>3. x \in Int
  <2>1. a \in Nat
    BY AlignsAssumption
  <2> QED
    BY <1>1, <2>1
<1> HIDE DEF x, y
<1>4. x <= 4 * (1024 * s - 1)
  BY <1>1, <1>2, <1>3
<1> QED
  BY <1>4 DEF x

\* All CPUs are at the end of the same piece.
SamePiece == \E k \in Nat : \A c \in testing :
               pe[c] = IF walk = "down" THEN End(c) - k * SPINSZ ELSE Start(c) + k * SPINSZ

TInv == IInv /\ Uneven /\ SamePieces /\ SameTicks /\ SamePiece

LEMMA InitTicks ==
  ASSUME Init, Roomy
  PROVE  TInv
<1>1. Cases /\ IInv
  BY InitInv, RoomyFits DEF Init, Cases
<1>2. Uneven /\ SamePieces
  BY <1>1, RoomyParts
<1>3. 0 * SPINSZ = 0 /\ 0 \in Nat
  BY SpinAssumption
<1>4. \A c \in CPU : Start(c) \in Nat /\ End(c) \in Nat
  BY <1>1, Parts, RoomyFits
<1>5. \A c \in testing : pe[c] = IF walk = "down" THEN End(c) - 0 * SPINSZ ELSE Start(c) + 0 * SPINSZ
  BY <1>3, <1>4 DEF Init
<1>6. SamePiece
  BY <1>3, <1>5 DEF SamePiece
<1>7. SameTicks
  BY DEF Init, SameTicks
<1> QED
  BY <1>1, <1>2, <1>6, <1>7 DEF TInv

\* The CPUs come to the end of their parts in the same iteration.
LEMMA DoneTogether ==
  ASSUME TInv, Fits, testing = CPU
  PROVE  \/ \A c \in CPU : Done(c)
         \/ /\ \A c \in CPU : ~Done(c)
            /\ \E k \in Nat : \A c \in CPU :
                 NextPe(c) = IF walk = "down" THEN End(c) - k * SPINSZ ELSE Start(c) + k * SPINSZ
<1>1. PICK k \in Nat : \A c \in CPU :
        pe[c] = IF walk = "down" THEN End(c) - k * SPINSZ ELSE Start(c) + k * SPINSZ
  BY DEF TInv, SamePiece
<1>2. PICK q \in Nat : Pieces(q)
  BY DEF TInv, SamePieces
<1>3. SPINSZ \in Nat /\ SPINSZ >= 1 /\ k * SPINSZ \in Nat /\ q * SPINSZ \in Nat
      /\ (k + 1) * SPINSZ = k * SPINSZ + SPINSZ /\ (q + 1) * SPINSZ = q * SPINSZ + SPINSZ
  BY SpinAssumption
<1>4. /\ k >= q => k * SPINSZ >= q * SPINSZ
      /\ k + 1 <= q => (k + 1) * SPINSZ <= q * SPINSZ
  BY <1>3, Z3
<1>5. ASSUME NEW c \in CPU
      PROVE  /\ Done(c) <=> k >= q
             /\ ~Done(c) => NextPe(c) = IF walk = "down" THEN End(c) - (k + 1) * SPINSZ
                                                         ELSE Start(c) + (k + 1) * SPINSZ
  <2>1. Start(c) \in Nat /\ End(c) \in Nat
    BY Parts DEF TInv, IInv
  <2>2. q * SPINSZ + 1 < End(c) - Start(c) /\ End(c) - Start(c) < (q + 1) * SPINSZ
    BY <1>2 DEF Pieces
  <2> DEFINE x == k * SPINSZ
             y == q * SPINSZ
             s == Start(c)
             f == End(c)
  <2>3. /\ x \in Nat /\ y \in Nat /\ s \in Nat /\ f \in Nat
        /\ y + 1 < f - s /\ f - s < y + SPINSZ
    BY <1>3, <1>4, <2>1, <2>2
  <2>4. k >= q => x >= y
    BY <1>4
  <2>5. k + 1 <= q => x + SPINSZ <= y
    BY <1>3, <1>4
  <2>6. /\ walk = "down" => pe[c] = f - x
        /\ walk # "down" => pe[c] = s + x
    BY <1>1
  <2>7. /\ walk = "down" => (Done(c) <=> pe[c] - SPINSZ < s) /\ (~Done(c) => NextPe(c) = pe[c] - SPINSZ)
        /\ walk # "down" => (Done(c) <=> pe[c] + SPINSZ >= f) /\ (~Done(c) => NextPe(c) = pe[c] + SPINSZ)
    BY DEF Done, NextPe, NextDown, NextUp
  <2>8. (k + 1) * SPINSZ = x + SPINSZ
    BY <1>3
  <2> HIDE DEF x, y, s, f
  <2>9. Done(c) <=> k >= q
    BY <1>3, <2>3, <2>4, <2>5, <2>6, <2>7
  <2>10. ~Done(c) => NextPe(c) = IF walk = "down" THEN f - (x + SPINSZ) ELSE s + (x + SPINSZ)
    BY <1>3, <2>3, <2>6, <2>7
  <2> QED
    BY <2>8, <2>9, <2>10 DEF s, f
<1>6. CASE k >= q
  BY <1>5, <1>6
<1>7. CASE ~(k >= q)
  <2>1. k + 1 \in Nat
    OBVIOUS
  <2> QED
    BY <1>5, <1>7, <2>1
<1> QED
  BY <1>6, <1>7

LEMMA TickTicks ==
  ASSUME TInv, Fits, Tick
  PROVE  TInv'
<1>1. /\ run_cpus' = run_cpus /\ size' = size /\ align' = align /\ walk' = walk
      /\ CPU' = CPU /\ \A c : Start(c)' = Start(c) /\ End(c)' = End(c)
  BY DEF Tick, case, CPU, Start, End, ChunkWords, SegEnd, mstr_cpu
<1>2. IInv' /\ Uneven' /\ SamePieces'
  <2>1. IInv'
    BY TickInv DEF TInv
  <2>2. Uneven' /\ SamePieces'
    BY <1>1 DEF TInv, Uneven, SamePieces, Pieces
  <2> QED
    BY <2>1, <2>2
<1>3. testing = CPU
  BY DEF TInv, SameTicks, Tick
<1>4. ASSUME NEW c \in CPU PROVE p[c] # NextPe(c)
  <2>1. walk = "down" => NextPe(c) < p[c] /\ NextPe(c) \in Start(c) .. End(c)
    BY <1>3, IterationDown DEF TInv
  <2>2. walk # "down" => p[c] < NextPe(c) /\ NextPe(c) \in Start(c) .. End(c)
    BY <1>3, IterationUp DEF TInv
  <2>3. p[c] \in Int /\ Start(c) \in Nat /\ End(c) \in Nat
    BY Parts DEF TInv, IInv, Inside
  <2> QED
    BY <2>1, <2>2, <2>3
<1>5. testing' = {c \in CPU : ~Done(c)} /\ pe' = [c \in CPU |-> NextPe(c)]
  BY <1>3, <1>4 DEF Tick
<1>6. CASE \A c \in CPU : Done(c)
  <2>1. testing' = {} /\ 0 \in Nat
    BY <1>5, <1>6
  <2> QED
    BY <1>2, <2>1 DEF TInv, SameTicks, SamePiece
<1>7. CASE /\ \A c \in CPU : ~Done(c)
           /\ \E k \in Nat : \A c \in CPU :
                NextPe(c) = IF walk = "down" THEN End(c) - k * SPINSZ ELSE Start(c) + k * SPINSZ
  <2>1. testing' = CPU /\ \A c \in CPU : pe'[c] = NextPe(c)
    BY <1>5, <1>7
  <2>2. PICK k \in Nat : \A c \in CPU :
          NextPe(c) = IF walk = "down" THEN End(c) - k * SPINSZ ELSE Start(c) + k * SPINSZ
    BY <1>7
  <2>3. \A c \in testing' : pe'[c] = IF walk' = "down" THEN End(c)' - k * SPINSZ ELSE Start(c)' + k * SPINSZ
    BY <1>1, <2>1, <2>2
  <2>4. SamePiece'
    BY <2>2, <2>3 DEF SamePiece
  <2>5. SameTicks'
    BY <1>1, <2>1 DEF SameTicks
  <2> QED
    BY <1>2, <2>4, <2>5 DEF TInv
<1> QED
  BY <1>3, <1>6, <1>7, DoneTogether

\* Equal ticks: no CPU is left alone at the barrier of do_tick (error.c:470), for any
\* number of CPUs and any segment with room for the rounding of calculate_chunk; and
\* nothing more needs to be known of the sizes for the parts to be tested in full.
THEOREM TicksAgreeHolds ==
  ASSUME Roomy
  PROVE  Spec => []TicksAgree /\ []Tiling /\ []AllTested
<1>1. Fits
  BY RoomyFits
<1>2. Init => TInv
  BY InitTicks
<1>3. TInv /\ [Next]_vars => TInv'
  <2> SUFFICES ASSUME TInv, [Next]_vars PROVE TInv'
    OBVIOUS
  <2>1. CASE UNCHANGED vars
    <3>1. /\ UNCHANGED <<run_cpus, size, align, walk, p, pe, testing, tested>>
          /\ CPU' = CPU /\ \A c : Start(c)' = Start(c) /\ End(c)' = End(c)
      BY <2>1 DEF vars, case, CPU, Start, End, ChunkWords, SegEnd, mstr_cpu
    <3>2. Cases' /\ PartsOfSegment'
      BY <3>1 DEF TInv, IInv, Cases, PartsOfSegment, CPU, Start, End, ChunkWords, SegEnd, mstr_cpu
    <3>3. ASSUME NEW c \in CPU PROVE Inside(c)'
      BY <3>1 DEF TInv, IInv, Inside, Up, Down, PieceUp, PieceDown
    <3>4. IInv'
      BY <3>1, <3>2, <3>3 DEF TInv, IInv
    <3>5. Uneven' /\ SamePieces' /\ SameTicks' /\ SamePiece'
      BY <3>1 DEF TInv, Uneven, SamePieces, Pieces, SameTicks, SamePiece
    <3> QED
      BY <3>4, <3>5 DEF TInv
  <2>2. CASE Tick
    BY <1>1, <2>2, TickTicks
  <2> QED
    BY <2>1, <2>2 DEF Next
<1>4. TInv => TicksAgree /\ Uneven
  BY DEF TInv, TicksAgree
<1>5. Spec /\ []Uneven => []Tiling
  BY <1>1, TilingHolds, PTL
<1>6. Spec /\ []Uneven => []AllTested
  BY <1>1, AllTestedHolds, PTL
<1> QED
  BY <1>2, <1>3, <1>4, <1>5, <1>6, PTL DEF Spec

\* So it is for every segment of a window of the code: up to 32 CPUs, parts of
\* multiples of 4 or 64 bytes, and from 16 pages to eight times what is between two
\* ticks, which are 2 GB and 256 MB: q = 65536 pages.
THEOREM SizesOfCode ==
  ASSUME NEW q \in Nat \ {0}, SPINSZ = 1024 * q,
         Sizes \subseteq 16 .. 8 * q, Aligns \subseteq {1, 16}
  PROVE  Spec => []TicksAgree /\ []Tiling /\ []AllTested
<1>1. SPINSZ % 1024 = 0
  BY Z3
<1>2. \A a \in Aligns : 1024 % a = 0
  <2>1. \A x \in Nat : x = 1 \/ x = 16 => 1024 % x = 0
    BY Z3
  <2> QED
    BY <2>1
<1>3. ASSUME NEW n \in Cpus, NEW s \in Sizes, NEW a \in Aligns
      PROVE  n * (n - 1) * (4 * a - 1) + 8 * n
               <= 4 * (1024 * (IF 1024 * s <= n * SPINSZ THEN s ELSE 1) - 1)
  <2> DEFINE x == n * (n - 1)
             y == n * SPINSZ
  <2>1. n \in 1 .. 32 /\ s \in Nat /\ s >= 16 /\ s <= 8 * q /\ (a = 1 \/ a = 16)
    BY CpusAssumption
  <2>2. y = 1024 * (n * q)
    BY <2>1
  <2>3. x \in Nat /\ x <= 992 /\ (n <= 7 => x <= 42)
    BY <2>1, Z3
  <2>4. ~(1024 * s <= y) => n <= 7
    <3>1. n >= 8 => n * q >= 8 * q
      BY <2>1, Z3
    <3>2. n * q \in Nat
      BY <2>1
    <3> QED
      BY <2>1, <2>2, <3>1, <3>2
  <2> HIDE DEF x, y
  <2>5. x * (4 * a - 1) + 8 * n <= 4 * (1024 * (IF 1024 * s <= y THEN s ELSE 1) - 1)
    <3>1. x * (4 * a - 1) <= x * 63
      BY <2>1, <2>3
    <3>2. x * (4 * a - 1) \in Int
      BY <2>1, <2>3
    <3>3. CASE 1024 * s <= y
      BY <2>1, <2>3, <3>1, <3>2, <3>3
    <3>4. CASE ~(1024 * s <= y)
      BY <2>1, <2>3, <2>4, <3>1, <3>2, <3>4
    <3> QED
      BY <3>3, <3>4
  <2> QED
    BY <2>5 DEF x, y
<1>4. Roomy
  BY <1>1, <1>2, <1>3 DEF Roomy
<1> QED
  BY <1>4, TicksAgreeHolds, PTL

\* Each word of such a segment is tested once, by one CPU.
THEOREM EachWordOnceHolds ==
  ASSUME Roomy
  PROVE  Spec => []EachWordOnce
<1>1. Tiling /\ AllTested => EachWordOnce
  BY DEF EachWordOnce
<1> QED
  BY <1>1, TicksAgreeHolds, PTL
=============================================================================
