------------------------------- MODULE Chunk -------------------------------
(***************************************************************************)
(* How the CPUs of a window share a memory segment and walk through their  *)
(* parts: calculate_chunk and the loops of src/test.c around do_tick.      *)
(*                                                                         *)
(* Addresses count 32-bit words from the start of the segment.  Because    *)
(* do_tick holds s_barrier(), the CPUs make their iterations in step; one  *)
(* that leaves its loop earlier than another would leave the other alone   *)
(* at the barrier.  The additions of SPINSZ that wrap around 2^32 are at   *)
(* the end of the segment, where the loops treat them as the end is        *)
(* treated, so they need no case of their own.                             *)
(***************************************************************************)
EXTENDS Integers

CONSTANTS Sizes,    \* the sizes of the segment, in pages of 1024 words
          Cpus,     \* the values of run_cpus
          Aligns,   \* makeMultipleOf, in words
          Walks,    \* the loops: "up", "down" (movinv1), "fade" (bit_fade_fill)
          SPINSZ    \* words between two ticks, 256 MB in the code

ASSUME SizesAssumption == Sizes \subseteq Nat \ {0}
ASSUME CpusAssumption == Cpus \subseteq 1 .. 32
ASSUME AlignsAssumption == Aligns \subseteq Nat \ {0}
ASSUME SpinAssumption == SPINSZ \in Nat \ {0}

VARIABLES run_cpus, size, align, walk,  \* the case, constant during a walk
          p, pe,                        \* the loops' pointers, one for each CPU
          testing,                      \* the CPUs still in their loops
          tested                        \* history: the words each CPU tested

case == <<run_cpus, size, align, walk>>
vars == <<case, p, pe, testing, tested>>

CPU == 0 .. run_cpus - 1
mstr_cpu == run_cpus - 1

\* emapping() gives the address of the last word of the segment.
SegEnd == 1024 * size - 1

\* Fault: whole pages for each CPU.
PageWords ==
  LET bytes == (4 * SegEnd) \div run_cpus
  IN ((bytes + 4095) \div 4096) * 1024

\* The segment, less its last word, divided in bytes and rounded to words.
ChunkWords ==
  LET bytes == (4 * SegEnd) \div run_cpus
  IN ((bytes + 4 * align - 1) \div (4 * align)) * align

\* Fault: the same end for all.
EndSame(c) == (c + 1) * ChunkWords - 1

Start(c) == IF run_cpus = 1 THEN 0 ELSE c * ChunkWords
End(c) == IF c = mstr_cpu THEN SegEnd ELSE Start(c) + ChunkWords - 1

Init == /\ run_cpus \in Cpus /\ size \in Sizes /\ align \in Aligns /\ walk \in Walks
        /\ p = [c \in CPU |-> IF walk = "down" THEN End(c) ELSE Start(c)]
        /\ pe = p
        /\ testing = CPU
        /\ tested = [c \in CPU |-> 0]
-----------------------------------------------------------------------------
\* An iteration moves pe by SPINSZ, but not past the end.
NextUp(c) == IF pe[c] + SPINSZ >= End(c) THEN End(c) ELSE pe[c] + SPINSZ
NextDown(c) == IF pe[c] - SPINSZ < Start(c) THEN Start(c) ELSE pe[c] - SPINSZ

NextPe(c) == IF walk = "down" THEN NextDown(c) ELSE NextUp(c)

\* done: the loop ends with this iteration.
Done(c) == IF walk = "down" THEN pe[c] - SPINSZ < Start(c) ELSE pe[c] + SPINSZ >= End(c)

\* Fault: the next piece begins with the last word of this one.
StrideOverlaps(c) == NextPe(c)

\* Where the next piece begins.
Stride(c) == IF walk = "down" THEN NextPe(c) - 1 ELSE NextPe(c) + 1

\* The words from p to pe; the bit fade loops leave pe itself out, and p = pe
\* breaks out of the loop before anything is tested.  The way down is a do loop,
\* which tests p even if that is already below pe.
Piece(c) == LET n == IF walk = "down" THEN p[c] - NextPe(c) ELSE NextPe(c) - p[c]
            IN IF n = 0 THEN 0
               ELSE IF walk = "fade" THEN n
               ELSE IF walk = "down" /\ n < 0 THEN 1 ELSE n + 1

\* One tick: every CPU that has not left its loop does an iteration.
Tick == /\ testing # {}
        /\ tested' = [c \in CPU |-> IF c \in testing THEN tested[c] + Piece(c) ELSE tested[c]]
        /\ pe' = [c \in CPU |-> IF c \in testing THEN NextPe(c) ELSE pe[c]]
        /\ p' = [c \in CPU |-> IF c \in testing /\ p[c] # NextPe(c) THEN Stride(c) ELSE p[c]]
        /\ testing' = {c \in testing : ~Done(c) /\ p[c] # NextPe(c)}
        /\ UNCHANGED case

Next == Tick

Spec == Init /\ [][Next]_vars
-----------------------------------------------------------------------------
TypeOK ==
  /\ run_cpus \in Cpus /\ size \in Sizes /\ align \in Aligns /\ walk \in Walks
  /\ \A c \in CPU : /\ pe[c] \in Start(c) .. End(c)
                    /\ p[c] \in Start(c) - 1 .. End(c) + 1
                    /\ tested[c] \in 0 .. SegEnd + 1
  /\ testing \subseteq CPU

\* The CPUs do the same number of ticks, so that nobody is left alone at the
\* barrier of do_tick (error.c:470): the parts may differ by as much as the
\* rounding of calculate_chunk adds up to, but never across a multiple of SPINSZ.
SameTicks == testing \in {{}, CPU}

\* The last piece of a part, in either direction, has more words than the one at
\* which the loops break out (p = pe) or, going down, leave the part.
Uneven == \A c \in CPU : (End(c) - Start(c)) % SPINSZ > 1

\* What calculate_chunk adds to a part moves its end neither across a multiple of
\* SPINSZ nor onto one.
TicksAgree == SameTicks /\ Uneven

\* At the end every CPU has tested each word of its part once, although the last
\* piece is not a whole one and the loops break out at p = pe (test.c:471-491).
AllTested ==
  \A c \in CPU \ testing : walk # "fade" => tested[c] = End(c) - Start(c) + 1

\* The parts of the CPUs make up the segment: none reaches outside of it, no two
\* of them overlap and no word is in none (test.c:97-115).
PartsOfSegment ==
  /\ Start(0) = 0 /\ End(mstr_cpu) = SegEnd
  /\ \A c \in CPU : Start(c) <= End(c) /\ End(c) <= SegEnd
  /\ \A c \in CPU \ {mstr_cpu} : Start(c + 1) = End(c) + 1

\* And the CPUs stay inside of their parts.
Tiling == TypeOK /\ PartsOfSegment

\* Together: each word of the segment is tested once, by the CPU whose part it is in.
EachWordOnce == Tiling /\ AllTested

\* "May miss some ram but better than crashing or producing false errors"
\* (test.c:108): no CPU is given memory outside of the segment.
InsideSegment == \A c \in CPU : End(c) <= SegEnd

\* "Fill all of memory 0's" (common.c:387): the bit fade test reaches every word.
FadeFillsAll ==
  \A c \in CPU \ testing : walk = "fade" => tested[c] = End(c) - Start(c) + 1
=============================================================================
