-------------------------------- MODULE Cpus --------------------------------
(***************************************************************************)
(* How the boot CPU finds the others: src/arch/i386/arch-smp.c, from the   *)
(* tables of the MP specification and of ACPI.  The numbers found are a    *)
(* record [num_cpus, found_cpus, ids], ids the cpu_num_to_apic_id.  A      *)
(* table has a field sum, the sum of its bytes.                            *)
(***************************************************************************)
EXTENDS Integers, Sequences, SequencesExt, FiniteSets

CONSTANT MAX_CPUS  \* 32 in the code

ASSUME CpusAssumption == MAX_CPUS \in Nat \ {0, 1}

Numbers == 0 .. MAX_CPUS - 1
\* As the globals are initialized: there is at least one CPU.
Unknown == [num_cpus |-> 1, found_cpus |-> 0, ids |-> [i \in Numbers |-> 0]]
checksum(table) == table.sum % 256
-----------------------------------------------------------------------------
(* The MP table. *)

\* A CPU of the table: the boot CPU is number 0, the others in their order.
MpProcessor(c, pe) ==
  [num_cpus |-> IF ~pe.boot /\ c.num_cpus < MAX_CPUS THEN c.num_cpus + 1 ELSE c.num_cpus,
   found_cpus |-> c.found_cpus + 1,
   ids |-> IF pe.boot THEN [c.ids EXCEPT ![0] = pe.apic_id]
           ELSE IF c.num_cpus < MAX_CPUS THEN [c.ids EXCEPT ![c.num_cpus] = pe.apic_id] ELSE c.ids]

MpTypes == {"processor", "bus", "ioapic", "intsrc", "lintsrc"}
\* One entry; a type that is not known, or an APIC that is not local, ends it.
MpEntry(s, pe) ==
  CASE ~s.ok -> s
    [] pe.type = "processor" ->
         [ok |-> pe.apic_ver \div 16 = 1, cpus |-> MpProcessor(s.cpus, pe)]
    [] OTHER -> [s EXCEPT !.ok = pe.type \in MpTypes]

\* The CPUs counted before the failure stay counted.
read_mp_config_table(mpc, c) ==
  IF mpc.signature # "PCMP" \/ checksum(mpc) # 0 THEN [ok |-> FALSE, cpus |-> c]
  ELSE FoldLeft(MpEntry, [ok |-> TRUE, cpus |-> c], mpc.entries)

FirstOf(area, Test(_)) == LET found == SelectSeq(area, Test)
                          IN IF found = <<>> THEN [signature |-> "none"] ELSE Head(found)
Found(table) == table.signature # "none"

FloatingPointer(fp) == /\ fp.signature = "_MP_" /\ fp.length = 1
                       /\ checksum(fp) = 0 /\ fp.spec_rev \in {1, 4}
scan_for_floating_ptr_struct(area) == FirstOf(area, FloatingPointer)

\* The first 1 KB, the last of 640 KB, the BIOS and, if it has one, the EBDA.
FindFloating(fw) ==
  LET found == SelectSeq([i \in 1 .. Len(fw.areas) |-> scan_for_floating_ptr_struct(fw.areas[i].mp)], Found)
  IN IF found = <<>> THEN [signature |-> "none"] ELSE Head(found)

\* A default configuration has the CPUs 0 and 1.
DefaultConfig(c) == [c EXCEPT !.num_cpus = 2, !.ids[0] = 0, !.ids[1] = 1]

\* The search in the MP tables, only made when asked for (fail_safe & 8).
MpSearch(fw, c) ==
  LET fp == FindFloating(fw)
  IN IF ~Found(fp) THEN [ok |-> FALSE, cpus |-> c]
     ELSE IF fp.feature \in 1 .. 7 THEN [ok |-> TRUE, cpus |-> DefaultConfig(c)]
     ELSE IF Found(fp.table) THEN read_mp_config_table(fp.table, c)
     ELSE [ok |-> FALSE, cpus |-> c]
-----------------------------------------------------------------------------
(* The tables of ACPI. *)
Rsdp(rp) == rp.signature = "RSD PTR" /\ checksum(rp) = 0
scan_for_rsdp(area) == FirstOf(area, Rsdp)

\* Fault: the place of the first enabled CPU is taken.
MadtCounts(c, pe) ==
  IF pe.type # "processor" \/ ~pe.enabled THEN c
  ELSE [num_cpus |-> IF c.num_cpus < MAX_CPUS THEN c.num_cpus + 1 ELSE c.num_cpus,
        found_cpus |-> c.found_cpus + 1,
        ids |-> IF c.num_cpus < MAX_CPUS THEN [c.ids EXCEPT ![c.num_cpus] = pe.apic_id] ELSE c.ids]
\* An enabled CPU takes the next number; "the first CPU is the BSP, don't
\* increment": the place of the first is written again by the second.
MadtEntry(c, pe) ==
  IF pe.type # "processor" \/ ~pe.enabled THEN c
  ELSE [num_cpus |-> IF c.num_cpus < MAX_CPUS /\ c.found_cpus # 0 THEN c.num_cpus + 1 ELSE c.num_cpus,
        found_cpus |-> c.found_cpus + 1,
        ids |-> IF c.num_cpus < MAX_CPUS THEN [c.ids EXCEPT ![c.num_cpus] = pe.apic_id] ELSE c.ids]

parse_madt(madt, c) ==
  IF checksum(madt) # 0 THEN [ok |-> FALSE, cpus |-> c]
  ELSE [ok |-> TRUE, cpus |-> FoldLeft(MadtEntry, c, madt.entries)]

\* The XSDT, or before revision 2 the RSDT, if it is one.
Rsdt(rp) == IF rp.revision >= 2 THEN rp.xsdt ELSE rp.rsdt
RsdtValid(rp) == LET rt == Rsdt(rp)
                 IN rt.signature = (IF rp.revision >= 2 THEN "XSDT" ELSE "RSDT") /\ checksum(rt) = 0

\* The first MADT among the tables that parse_madt can read.
AcpiSearch(fw, c) ==
  LET bios == scan_for_rsdp(fw.acpi)
      rp == IF Found(bios) THEN bios ELSE scan_for_rsdp(fw.ebda_acpi)
      Tried(s, t) == IF s.ok \/ t.signature # "APIC" THEN s ELSE parse_madt(t, s.cpus)
  IN IF ~Found(rp) \/ ~Found(Rsdt(rp)) \/ ~RsdtValid(rp) THEN c
     ELSE FoldLeft(Tried, [ok |-> FALSE, cpus |-> c], Rsdt(rp).tables).cpus

smp_find_cpus(fw, fail_safe, c) ==
  LET mp == IF (fail_safe \div 8) % 2 = 1 THEN MpSearch(fw, c) ELSE [ok |-> FALSE, cpus |-> c]
  IN IF fail_safe % 4 # 0 THEN c
     ELSE IF mp.ok THEN mp.cpus ELSE AcpiSearch(fw, mp.cpus)
-----------------------------------------------------------------------------
\* initialise_cpus: the CPUs found, at most maxcpus, and how many the mask leaves.
initialise_cpus(fw, o) ==
  LET all == IF o.maxcpus > 1 THEN smp_find_cpus(fw, o.fail_safe, Unknown)
             ELSE [Unknown EXCEPT !.found_cpus = 1]
      num == IF all.num_cpus > o.maxcpus THEN o.maxcpus ELSE all.num_cpus
  IN [all EXCEPT !.num_cpus = num]
act_cpus(c, o) == IF o.maxcpus > 1 THEN Cardinality({i \in 0 .. c.num_cpus - 1 : i \in o.cpu_mask}) ELSE 1

\* The numbers of the CPUs that are booted, through their APIC ids.
Booted(c, o) == {i \in 1 .. c.num_cpus - 1 : i \in o.cpu_mask}

\* smp_my_cpu_num: the number a CPU takes itself for after each jump, 0 if it
\* does not find its id.
smp_my_cpu_num(c, apicid) ==
  LET mine == {i \in Numbers : c.ids[i] = apicid}
  IN IF mine = {} THEN 0 ELSE CHOOSE i \in mine : \A k \in mine : i <= k
=============================================================================
