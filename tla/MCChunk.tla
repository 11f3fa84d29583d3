------------------------------ MODULE MCChunk ------------------------------
(***************************************************************************)
(* Chunk with the sizes of the code: 256 MB between two ticks, windows of  *)
(* up to 2 GB, up to 32 CPUs.  The sizes of the segments are the smallest  *)
(* ones and those within three pages of a whole number of 256 MB pieces,   *)
(* where a CPU more or a word less makes a tick more or less.              *)
(***************************************************************************)
EXTENDS Chunk

SpinWords == 67108864
SpinPages == 65536
WindowPages == 524288

Near == {k * SpinPages + d : k \in 1 .. 8, d \in -3 .. 3} \cap 1 .. WindowPages

CodeSizes == 16 .. 48 \cup Near
SmallSizes == 1 .. 2
AllCpus == 1 .. 32
CodeAligns == {1, 16}
=============================================================================
