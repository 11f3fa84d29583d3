------------------------------- MODULE Reloc -------------------------------
(***************************************************************************)
(* The program moves itself: startup_32 (head.S), _dl_start (src/reloc.c   *)
(* with the reloc.inc.c of each architecture), run_at (src/main.c) and, on *)
(* RISC-V, move_to_correct_addr.  A copy of the image is Size words of     *)
(* memory from an address on.  The words that hold addresses are changed   *)
(* in place at each startup, by the distance from last_load_address, which *)
(* is a word of the image and moves with it.                               *)
(***************************************************************************)
EXTENDS Integers, Sequences

CONSTANTS
  Machines,  \* the programs: arch, link (the image as linked), rels (DT_REL or DT_RELA,
             \* then DT_JMPREL), dyn (words of the dynamic section with pointers), the
             \* addresses load, low and high, and the number of cpus
  M,         \* bound: words of memory, and 2^w for a word: 2^32 bytes on i386
  Size,      \* _end - _start
  Page,      \* words of a page
  First,     \* the word zerobss (i386) or initial_load_addr (RISC-V)
  LL,        \* the word last_load_address, in .bss
  Data,      \* another word in .bss
  Garbage       \* what the loader may leave in .bss

\* What the code and the linker see to; Program assumes it of its values.
Sizes == M \in Nat /\ Size \in 1 .. M /\ Page \in 1 .. M
Words == {First, LL, Data} \subseteq 0 .. Size - 1 /\ Garbage \subseteq 0 .. M - 1
Programs ==
  \A m \in Machines : /\ m.arch \in {"i386", "riscv"} /\ m.cpus \in Nat \ {0}
                      /\ \A a \in {m.load, m.low, m.high} : a \in 1 .. M - Size
                      /\ m.low + Size <= m.high
                      /\ m.arch = "i386" => m.load = m.low
                      /\ m.arch = "riscv" => m.low <= m.load /\ m.low % Page = 0

VARIABLES
  mach,   \* the program, constant
  mem,    \* memory
  pc, at, \* what each CPU does, and in the copy at which address
  ll, i,  \* map.ll_addr of a CPU in _dl_start, and the relocation it is at
  dest,   \* argument of run_at
  lock,   \* barr->mutex
  data    \* history: what the program has put into Data

vars == <<mach, mem, pc, at, ll, i, dest, lock, data>>

CPU == 0 .. mach.cpus - 1
NoCpu == -1

Wrap(n) == n % M
Bss == {LL, Data}

\* The word at offset o of a copy at b.
Word(b, o) == mem[b + o]
Goto(c, from, to) == pc[c] = from /\ pc' = [pc EXCEPT ![c] = to]

Init == /\ mach \in Machines
        /\ \E g \in Garbage :
             mem = [a \in 0 .. M - 1 |->
                      IF a \in mach.load .. mach.load + Size - 1 /\ a - mach.load \notin Bss
                      THEN mach.link[a - mach.load] ELSE g]
        /\ pc = [c \in CPU |-> IF c = 0 THEN "startup" ELSE "off"]
        /\ at = [c \in CPU |-> mach.load] /\ dest = at
        /\ ll = [c \in CPU |-> 0] /\ i = [c \in CPU |-> 0]
        /\ lock = NoCpu /\ data = 0
-----------------------------------------------------------------------------
\* zerobss is 1, or initial_load_addr 0, until the first startup has zeroed .bss.
startup_32(c) ==
  LET first == Word(at[c], First) = mach.link[First]
      done == IF mach.arch = "i386" THEN 0 ELSE at[c]
  IN /\ Goto(c, "startup", "dl_start")
     /\ mem' = IF first THEN [a \in 0 .. M - 1 |-> IF a - at[c] \in Bss THEN 0
                                                   ELSE IF a = at[c] + First THEN done ELSE mem[a]]
               ELSE mem
     /\ UNCHANGED <<mach, at, ll, i, dest, lock, data>>

\* _dl_start, up to elf_get_dynamic_info.
dl_start(c) ==
  /\ Goto(c, "dl_start", "dynamic")
  /\ ll' = [ll EXCEPT ![c] = Word(at[c], LL)]
  /\ mem' = [mem EXCEPT ![at[c] + LL] = at[c]]
  /\ UNCHANGED <<mach, at, i, dest, lock, data>>

\* Fault: the address of the copy, as if the image came from the linker each time.
DistanceWhole(l, last) == l

Distance(l, last) == l - last

\* The pointers of the dynamic section are words of the image too.
elf_get_dynamic_info(c) ==
  /\ Goto(c, "dynamic", "rel")
  /\ mem' = [a \in 0 .. M - 1 |-> IF a - at[c] \in mach.dyn THEN Wrap(mem[a] + Distance(at[c], ll[c])) ELSE mem[a]]
  /\ i' = [i EXCEPT ![c] = 1]
  /\ UNCHANGED <<mach, at, ll, dest, lock, data>>
-----------------------------------------------------------------------------
(* elf_machine_rel and elf_machine_rel_rela: the new contents of a word w. *)

\* An undefined symbol has base 0, any other the address of the copy.
reloc_386(r, l, last, w) ==
  LET s == IF r.undef THEN 0 ELSE l
      ls == IF r.undef THEN 0 ELSE last
      Once(n) == IF last = 0 THEN n ELSE 0
  IN CASE r.type = "RELATIVE" -> w + Distance(l, last)
       [] r.type = "NONE" -> w
       [] r.type = "COPY" -> mem[Wrap(s + r.value)]
       [] r.type \in {"GLOB_DAT", "JMP_SLOT"} -> s + r.value
       [] r.type = "32" -> w + Once(r.value) + (s - ls)
       [] r.type = "PC32" -> w + Once(r.value - r.off) + (s - l) - (ls - last)

\* R_RISCV_32 and R_RISCV_64 make no use of the base.
reloc_riscv(r, l, last, w) ==
  LET s == IF r.undef THEN 0 ELSE l
  IN CASE r.type = "NONE" -> w
       [] r.type = "RELATIVE" -> w + (IF last = 0 THEN r.addend ELSE 0) + Distance(l, last)
       [] r.type = "COPY" -> mem[Wrap(s + r.value)]
       [] r.type \in {"32", "64"} -> r.value + r.addend

Relocated(r, l, last, w) ==
  Wrap(IF mach.arch = "i386" THEN reloc_386(r, l, last, w) ELSE reloc_riscv(r, l, last, w))

\* The tables are where the dynamic section says; a wrong pointer finds none.
Tables(c) == IF \A d \in mach.dyn : Word(at[c], d) = Wrap(mach.link[d] + at[c]) THEN mach.rels ELSE <<>>

\* elf_dynamic_do_rel and elf_dynamic_do_rela, one relocation at a time.
elf_dynamic_do_rel(c) ==
  /\ pc[c] = "rel" /\ i[c] <= Len(Tables(c))
  /\ LET r == mach.rels[i[c]]
     IN mem' = [mem EXCEPT ![at[c] + r.off] = Relocated(r, at[c], ll[c], @)]
  /\ i' = [i EXCEPT ![c] = @ + 1]
  /\ UNCHANGED <<mach, pc, at, ll, dest, lock, data>>

\* Fault: the lock is not given back.
Started_locked(c) ==
  /\ i[c] > Len(Tables(c))
  /\ Goto(c, "rel", "run")
  /\ UNCHANGED <<mach, mem, at, ll, i, dest, lock, data>>

\* _dl_start returns; test_start and riscv_entry unlock after a relocation.
Started(c) ==
  /\ i[c] > Len(Tables(c))
  /\ Goto(c, "rel", "run")
  /\ lock' = IF lock = c THEN NoCpu ELSE lock
  /\ UNCHANGED <<mach, mem, at, ll, i, dest, data>>

\* The boot CPU starts the others one after the other.
ApStart(c) ==
  /\ pc[0] = "run" /\ at[0] = mach.low
  /\ \A d \in CPU : pc[d] \in {"off", "run"}
  /\ Goto(c, "off", "startup")
  /\ at' = [at EXCEPT ![c] = mach.low]
  /\ UNCHANGED <<mach, mem, ll, i, dest, lock, data>>
-----------------------------------------------------------------------------
Up == {c \in CPU : pc[c] # "off"}
Settled(a) == a \in {mach.low, mach.high}
Testing == Up = CPU /\ \A c \in CPU : pc[c] = "run" /\ Settled(at[c]) /\ at[c] = at[0]

\* run_at: CPU 0 copies the image, then all wait for it.
run_at(c, addr) ==
  /\ Goto(c, "run", "barrier")
  /\ dest' = [dest EXCEPT ![c] = addr]
  /\ mem' = IF c = 0 THEN [a \in 0 .. M - 1 |-> IF a \in addr .. addr + Size - 1 THEN Word(at[0], a - addr)
                                                ELSE mem[a]]
            ELSE mem
  /\ UNCHANGED <<mach, at, ll, i, lock, data>>

\* The two places memtest_main runs at; all CPUs have started when it begins.
memtest_main(c) ==
  /\ Up = CPU /\ Settled(at[c])
  /\ \A d \in CPU : pc[d] \in {"run", "barrier"} /\ at[d] = at[c]
  /\ run_at(c, IF at[c] = mach.low THEN mach.high ELSE mach.low)

\* An image that overlaps the low address goes to the page after its end first.
move_to_correct_addr(c) ==
  LET end == at[c] + Size
      near == at[c] = Word(at[c], First) /\ at[c] - mach.low < Size
  IN /\ mach.arch = "riscv" /\ pc[c] = "run" /\ ~Settled(at[c])
     /\ run_at(c, IF near THEN (end \div Page + 1) * Page ELSE mach.low)

\* The barrier of run_at.
Barrier ==
  /\ \A c \in CPU : pc[c] = "barrier"
  /\ pc' = [c \in CPU |-> "jump"]
  /\ UNCHANGED <<mach, mem, at, ll, i, dest, lock, data>>

\* One CPU at a time jumps to the new code.
Jump(c) ==
  /\ lock = NoCpu /\ lock' = c
  /\ Goto(c, "jump", "startup")
  /\ at' = [at EXCEPT ![c] = dest[c]]
  /\ UNCHANGED <<mach, mem, ll, i, dest, data>>

\* A test writes to all the memory the program is not in.
Test ==
  /\ Testing
  /\ mem' = [a \in 0 .. M - 1 |-> IF a \in at[0] .. at[0] + Size - 1 THEN mem[a] ELSE M - 1]
  /\ UNCHANGED <<mach, pc, at, ll, i, dest, lock, data>>

\* The program changes a variable while all CPUs run.
Work ==
  /\ Testing
  /\ data' = 1 - data
  /\ mem' = [mem EXCEPT ![at[0] + Data] = data']
  /\ UNCHANGED <<mach, pc, at, ll, i, dest, lock>>

Step(c) == \/ startup_32(c) \/ dl_start(c) \/ elf_get_dynamic_info(c) \/ elf_dynamic_do_rel(c)
           \/ Started(c) \/ ApStart(c) \/ move_to_correct_addr(c) \/ Jump(c)
Next == (\E c \in CPU : Step(c) \/ memtest_main(c)) \/ Barrier \/ Test \/ Work

\* Fairness: a CPU goes on, and so does the test loop, to the next window.
AllCpus == UNION {0 .. m.cpus - 1 : m \in Machines}
Spec == /\ Init /\ [][Next]_vars
        /\ \A c \in AllCpus : WF_vars(c \in CPU /\ (Step(c) \/ memtest_main(c)))
        /\ WF_vars(Barrier)
-----------------------------------------------------------------------------
TypeOK ==
  /\ mach \in Machines
  /\ mem \in [0 .. M - 1 -> 0 .. M - 1]
  /\ pc \in [CPU -> {"off", "startup", "dl_start", "dynamic", "rel", "run", "barrier", "jump"}]
  /\ at \in [CPU -> 0 .. M - Size] /\ dest \in [CPU -> 0 .. M - Size]
  /\ ll \in [CPU -> 0 .. M - 1] /\ i \in [CPU -> 0 .. Len(mach.rels) + 1]
  /\ lock \in CPU \cup {NoCpu} /\ data \in 0 .. 1

Executing(c) == pc[c] \in {"run", "barrier", "jump"}

\* What the linker means a word to hold in a copy at b.
Target(r, b) ==
  LET s == IF r.undef THEN r.value ELSE b + r.value
      a == IF mach.arch = "i386" THEN mach.link[r.off] ELSE r.addend
  IN Wrap(CASE r.type = "RELATIVE" -> b + a
            [] r.type = "NONE" -> a
            [] r.type = "COPY" -> mach.link[r.value]
            [] r.type \in {"GLOB_DAT", "JMP_SLOT"} -> s
            [] r.type \in {"32", "64"} -> s + a
            [] r.type = "PC32" -> s + a - (b + r.off))

Targets == {mach.rels[k].off : k \in DOMAIN mach.rels}
Meant(b) ==
  /\ \A k \in DOMAIN mach.rels : Word(b, mach.rels[k].off) = Target(mach.rels[k], b)
  /\ \A d \in mach.dyn : Word(b, d) = Wrap(mach.link[d] + b)
  /\ \A o \in (0 .. Size - 1) \ (Targets \cup mach.dyn \cup Bss \cup {First}) : Word(b, o) = mach.link[o]

AsLinked == \A c \in CPU : Executing(c) => Meant(at[c])
KeepsData == \A c \in CPU : Executing(c) => Word(at[c], Data) = data

\* The copy a CPU executes is the program as linked for the address it is at,
\* whatever moves came before, while the copy to the next place is made, while
\* other CPUs start in it, and with the memory around it overwritten; and what
\* the program has stored goes with it (.bss is zeroed once).
ImageAsLinked == TypeOK /\ AsLinked /\ KeepsData

\* Wherever it was loaded, and after each move, the program comes to test again,
\* with all its CPUs in one copy.
TestsAgain == []<>Testing
=============================================================================
