------------------------------ MODULE Program ------------------------------
(***************************************************************************)
(* Three parts of the program that have no variable in common, side by     *)
(* side: part says which one moves, the others stay as they begin.  The    *)
(* image relocates itself (Reloc), the display follows what is printed     *)
(* (Terminal), and a function of lib.c converts its arguments (Convert).   *)
(***************************************************************************)
EXTENDS Terminal

CONSTANTS Machines, M, Size, Page, First, LL, Data, Garbage,                 \* Reloc
          Values, Unit, AddrDigits, NIB, TimeBits, Letters, MaxString     \* Convert

VARIABLES part,
          mach, mem, pc, at, ll, i, dest, lock, data,
          call, out

image == <<mach, mem, pc, at, ll, i, dest, lock, data>>
conversion == <<call, out>>

Relocation == INSTANCE Reloc
Conversions == INSTANCE Convert

ASSUME RelocAssumption == Relocation!Sizes /\ Relocation!Words /\ Relocation!Programs
ASSUME ConvertAssumption == Conversions!Units /\ Conversions!Widths

allvars == <<part, vars, image, conversion>>

AnyImage == mach = (CHOOSE m \in Machines : TRUE) /\ mem[mach.load + LL] = (CHOOSE g \in Garbage : TRUE)

\* While another part moves the image is one of those it may be.
Begin == /\ part \in {"image", "display", "conversion"} /\ Relocation!Init /\ Init /\ Conversions!Init
         /\ part # "image" => AnyImage

MoveImage == part = "image" /\ Relocation!Next /\ UNCHANGED <<part, vars, conversion>>
Display == part = "display" /\ Next /\ UNCHANGED <<part, image, conversion>>
Conversion == part = "conversion" /\ Conversions!Next /\ UNCHANGED <<part, vars, image>>

\* Fairness: that of Reloc, where the CPUs go on, and with them the test loop.
ImageGoesOn(c) == c \in Relocation!CPU /\ (Relocation!Step(c) \/ Relocation!memtest_main(c)) /\ MoveImage
AllMeet == Relocation!Barrier /\ MoveImage
Whole == /\ Begin /\ [][MoveImage \/ Display \/ Conversion]_allvars
         /\ \A c \in Relocation!AllCpus : WF_allvars(ImageGoesOn(c))
         /\ WF_allvars(AllMeet)
-----------------------------------------------------------------------------
\* The image in use is the program as linked for its place, with its data
\* (_dl_start, run_at).
ImageAsLinked == Relocation!ImageAsLinked

\* The program comes to test again after every move (Reloc).
TestsAgain == part = "image" => Relocation!TestsAgain

\* Numbers are shown as they are (Convert).
NumbersShown == Conversions!NumbersShown

\* Characters and strings come through (Convert).
TextsExact == Conversions!TextsExact
=============================================================================
