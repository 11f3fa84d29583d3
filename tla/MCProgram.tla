----------------------------- MODULE MCProgram ----------------------------
(***************************************************************************)
(* Program with an image of 15 words: an entry, a code word, two pointers of *)
(* the dynamic section, eight words for relocations, and First, LL, Data.  *)
(* The RISC-V program is loaded at each page from the one it is to go to   *)
(* until it no longer overlaps it.                                         *)
(***************************************************************************)
EXTENDS Program, TLC

Image(first, words) == [o \in 0 .. 14 |-> CASE o = 0 -> 61 [] o = 1 -> 62 [] o = 2 -> 4 [] o = 3 -> 7
                                            [] o = 12 -> first [] o \in DOMAIN words -> words[o] [] OTHER -> 0]
R(type, off, value, undef, addend) ==
  [type |-> type, off |-> off, value |-> value, undef |-> undef, addend |-> addend]

\* 32, PC32 and the like keep their addend in the word.
Rels386 == <<R("RELATIVE", 4, 0, TRUE, 0), R("32", 5, 1, FALSE, 0), R("32", 6, 0, TRUE, 0),
             R("PC32", 7, 1, FALSE, 0), R("PC32", 8, 5, TRUE, 0), R("COPY", 9, 1, FALSE, 0),
             R("GLOB_DAT", 10, 4, FALSE, 0), R("NONE", 1, 0, TRUE, 0), R("JMP_SLOT", 11, 1, FALSE, 0)>>
I386 == [arch |-> "i386", cpus |-> 2, load |-> 4, low |-> 4, high |-> 40, dyn |-> {2, 3}, rels |-> Rels386,
         link |-> Image(1, 4 :> 9 @@ 5 :> 2 @@ 6 :> 3 @@ 7 :> 60 @@ 8 :> 2)]

\* With -Bsymbolic, as the Makefile has it, only undefined symbols are left to R_RISCV_64.
RelsRiscv == <<R("RELATIVE", 4, 0, TRUE, 9), R("RELATIVE", 5, 0, TRUE, 0), R("NONE", 6, 0, TRUE, 0),
               R("COPY", 9, 1, FALSE, 0), R("64", 10, 0, TRUE, 0), R("32", 11, 0, TRUE, 3)>>
Riscv(load) == [arch |-> "riscv", cpus |-> 1, load |-> load, low |-> 4, high |-> 48, dyn |-> {2, 3},
                rels |-> RelsRiscv, link |-> Image(0, <<>>)]

\* A symbol of the program itself.
Defined == [Riscv(4) EXCEPT !.rels = <<R("64", 10, 1, FALSE, 0)>>]

Both == {I386} \cup {Riscv(load) : load \in {4, 8, 12, 16, 20}}
WithSymbol == {Defined}
=============================================================================
