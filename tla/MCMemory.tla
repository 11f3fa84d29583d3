------------------------------ MODULE MCMemory ------------------------------
(***************************************************************************)
(* Machines: what their firmware tells of memory and CPUs, and what a user *)
(* may set.  Sizes are in KB, limits in pages.                             *)
(***************************************************************************)
EXTENDS Memory

MCTestSeq ==
  LET T(cpus, pat, iter) == [cpus |-> cpus, pat |-> pat, iter |-> iter]
  IN <<T(-1, 0, 6), T(-1, 1, 6), T(32, 2, 6), T(32, 3, 6), T(32, 5, 3), T(32, 6, 30), T(32, 7, 81),
       T(1, 8, 3), T(32, 9, 48), T(32, 10, 6), T(1, 11, 240)>>

MB == 1024
GB == 1024 * MB
E(addr, size, type) == [addr |-> addr, size |-> size, type |-> type]
Bios(e820) == [e820 |-> e820, ext_mem_k |-> 0, alt_mem_k |-> 0, lb_low |-> <<>>, lb_high |-> <<>>]
Sizes(ext, alt) == [Bios(<<>>) EXCEPT !.ext_mem_k = ext, !.alt_mem_k = alt]
-----------------------------------------------------------------------------
(* Tables of LinuxBIOS. *)
Record(tag, size, forward, m) == [tag |-> tag, size |-> size, forward |-> forward, map |-> m]
LbWith(recs, bytes, sum) ==
  LET words == <<16972, 20297, 24, bytes, sum>>
  IN [signature |-> "LBIO", header_bytes |-> 24, header |-> Append(words, ip_compute_csum(words)),
      body |-> <<65000, 1234, 40>>, table_bytes |-> bytes, table_checksum |-> sum,
      table_entries |-> Len(recs), recs |-> recs]
Lb(recs, bytes) == LbWith(recs, bytes, ip_compute_csum(<<65000, 1234, 40>>))
LbMap(m) == Lb(<<Record("mainboard", 30, NoTable, <<>>), Record("memory", 50, NoTable, m)>>, 80)
Forward(to) == Lb(<<Record("forward", 16, to, <<>>)>>, 16)
Coreboot(low, high) == [Bios(<<E(0, 640, RAM)>>) EXCEPT !.lb_low = low, !.lb_high = high]
-----------------------------------------------------------------------------
(* Device trees. *)
Begin(n) == [t |-> "begin", name |-> n]
End == [t |-> "end"]
Node(n, body) == <<Begin(n)>> \o body \o <<End>>
P(n, x) == [t |-> "prop", name |-> n, value |-> x]
Tree(memory) ==
  Node("", <<P("compatible", "sifive,hifive")>>
           \o Node("chosen", <<P("bootargs", "onepass")>>)
           \o Node("cpus", <<P("reg", <<0>>)>> \o Node("cpu@0", <<P("device_type", "cpu"), P("reg", <<0>>)>>))
           \o memory
           \o <<[t |-> "nop"]>>
           \o Node("soc", Node("serial@10010000", <<P("compatible", "sifive,uart0"),
                                                     P("reg", <<0, 262208, 0, 4>>)>>)))
  \o <<[t |-> "stop"]>>
MemoryNode(reg) == Node("memory", <<P("device_type", "memory"), P("reg", reg)>>)
-----------------------------------------------------------------------------
(* Tables of CPUs. *)
None0 == [signature |-> "none"]
Proc(id, isBoot, ver) == [type |-> "processor", apic_id |-> id, boot |-> isBoot, apic_ver |-> ver]
Other(type) == [type |-> type]
Pcmp(entries, sum) == [signature |-> "PCMP", sum |-> sum, entries |-> entries]
Floating(feature, table, sum) == [signature |-> "_MP_", length |-> 1, spec_rev |-> 4, sum |-> sum,
                                  feature |-> feature, table |-> table]
Lapic(id, enabled) == [type |-> "processor", apic_id |-> id, enabled |-> enabled]
Madt(entries, sum) == [signature |-> "APIC", sum |-> sum, entries |-> entries]
Root(sig, tables) == [signature |-> sig, sum |-> 0, tables |-> tables]
RsdpOf(revision, tables) ==
  [signature |-> "RSD PTR", sum |-> 256, revision |-> revision,
   rsdt |-> IF revision >= 2 THEN None0 ELSE Root("RSDT", tables),
   xsdt |-> IF revision >= 2 THEN Root("XSDT", tables) ELSE None0]
Area(mp) == [mp |-> mp]
NoSmp == [areas |-> <<>>, acpi |-> <<>>, ebda_acpi |-> <<>>]
Mp(entries) == [NoSmp EXCEPT !.areas = <<Area(<<>>), Area(<<Floating(0, None0, 3), Floating(0, Pcmp(entries, 512), 256)>>)>>]
Acpi(revision, entries) ==
  [NoSmp EXCEPT !.acpi = <<RsdpOf(revision, <<[signature |-> "FACP"], Madt(entries, 0)>>)>>]
Hw(bsp, others, listed) == [bsp |-> bsp, ids |-> {bsp} \cup others, listed |-> listed]
-----------------------------------------------------------------------------
Opts(maxcpus, mask, fail_safe) == [maxcpus |-> maxcpus, cpu_mask |-> mask, fail_safe |-> fail_safe]
\* A PC with one CPU that runs the tests `sel` (10, the bit fade test, is the
\* user's choice in the menu) on its first pass.
PC(firmware, sel) ==
  [port |-> "i386", fw |-> firmware, tree |-> <<>>, stack |-> [start |-> 7, size |-> 9], ram |-> {},
   smp |-> NoSmp, opts |-> Opts(1, Numbers, 0), hw |-> Hw(0, {}, TRUE), pae |-> TRUE, lm |-> TRUE,
   sel |-> sel, first |-> TRUE, lowers |-> {}, uppers |-> {}]
With(pc0, tables, hw, opts) == [pc0 EXCEPT !.smp = tables, !.hw = hw, !.opts = opts]
Board(memory, ranges) == [PC(Bios(<<>>), {3, 9}) EXCEPT !.port = "riscv", !.tree = Tree(memory), !.ram = ranges]

Bottom == <<E(0, 639, RAM), E(639, 1, RESERVED), E(960, 64, RESERVED)>>
\* 512 MB with tables of ACPI in parts of pages at the end.
Small == Bios(Bottom \o <<E(1024, 523261, RAM), E(524285, 30, ACPI), E(524315, 101, NVS)>>)
\* 3.25 GB and 2.5 GB from 4 GB.
Large == Bios(Bottom \o <<E(1024, 3328 * MB - 1024, RAM), E(3328 * MB, 768 * MB, RESERVED), E(4 * GB, 2560 * MB, RAM)>>)
\* Out of order and overlapping; a page with two types of memory.
Mixed == Bios(<<E(1024, 255 * MB, RAM), E(64 * MB + 2, 9, RESERVED), E(0, 640, RAM), E(64 * MB, 2 * MB, NVS),
                E(700, 500, RESERVED), E(200 * MB, 30 * MB, ACPI), E(220 * MB + 3, 1, RAM), E(300 * MB, 1 * MB, RAM)>>)
\* 16 MB, less than the high copy at 32 MB needs.
Tiny == Bios(Bottom \o <<E(1024, 15 * MB, RAM)>>)

Machines ==
  {PC(Small, {3, 6, 9}), PC(Large, {4, 8, 10}), PC(Mixed, {7, 8}), PC(Tiny, {5, 8}),
   \* without PAE, and without long mode
   [PC(Large, {5, 6}) EXCEPT !.pae = FALSE], [PC(Large, {2, 5}) EXCEPT !.lm = FALSE, !.first = FALSE],
   \* no usable table of the BIOS
   [PC(Sizes(64 * MB, 130050), {3, 8}) EXCEPT !.ram = {<<0, 159>>, <<256, 32767>>, <<32767, 32767>>}],
   [PC([Bios(<<E(8, SPACE - 6, RAM)>>) EXCEPT !.ext_mem_k = 31 * MB], {3, 8}) EXCEPT !.ram = {<<0, 159>>, <<256, 8191>>}],
   \* LinuxBIOS, and forwarded after a table that is damaged
   [PC(Coreboot(<<LbMap(<<E(0, 640, RAM), E(1024, 255 * MB, RAM), E(256 * MB, MB, 3)>>)>>, <<>>), {6, 8})
      EXCEPT !.ram = {<<0, 159>>, <<256, 65535>>}],
   [PC(Coreboot(<<LbWith(<<Record("memory", 16, NoTable, <<E(0, 64, RAM)>>)>>, 16, 1)>>,
                <<[LbMap(<<>>) EXCEPT !.table_entries = 3],
                  Forward(LbMap(<<E(2, 638, RAM), E(1024, 127 * MB, RAM), E(128 * MB, 2, RAM)>>))>>), {6, 8})
      EXCEPT !.ram = {<<1, 159>>, <<256, 32767>>}],
   \* RISC-V boards, one with 32-bit cells
   Board(MemoryNode(<<0, 2 * GB, 0, GB>>), {<<524288, 786431>>}),
   Board(MemoryNode(<<2 * GB, 24 * MB>>), {<<524288, 530431>>}),
   \* several CPUs, by the tables of MP and ACPI
   With(PC(Small, {1, 5, 8}), Mp(<<Other("bus"), Proc(2, FALSE, 20), Proc(0, TRUE, 20), Other("ioapic"), Proc(6, FALSE, 20),
                                   Other("intsrc"), Other("lintsrc")>>), Hw(0, {2, 6}, TRUE), Opts(4, Numbers, 8)),
   With(PC(Large, {5, 9}), Acpi(2, <<Lapic(0, TRUE), Lapic(3, FALSE), Other("ioapic"), Lapic(2, TRUE), Lapic(4, TRUE), Lapic(6, TRUE), Lapic(8, TRUE)>>),
        Hw(0, {2, 4, 6, 8}, TRUE), Opts(32, Numbers \ {2}, 0)),
   With(PC(Tiny, {1, 9}), [Mp(<<>>) EXCEPT !.areas = <<Area(<<Floating(5, None0, 0)>>)>>], Hw(0, {1}, TRUE), Opts(32, Numbers, 8)),
   With(PC(Tiny, {6, 8}), [Acpi(0, <<Lapic(4, TRUE), Lapic(5, TRUE), Lapic(6, TRUE)>>) EXCEPT !.areas = <<Area(<<Floating(0, Pcmp(<<>>, 1), 0)>>)>>],
        Hw(4, {5, 6}, TRUE), Opts(2, Numbers, 8)),
   With(PC(Tiny, {6, 8}), Acpi(0, <<Lapic(0, TRUE), Lapic(1, TRUE)>>), Hw(0, {1}, FALSE), Opts(4, Numbers, 1)),
   With(PC(Tiny, {6, 8}), [NoSmp EXCEPT !.ebda_acpi = <<[RsdpOf(2, <<>>) EXCEPT !.xsdt.sum = 1]>>], Hw(0, {1}, FALSE), Opts(4, Numbers, 0)),
   \* users who set limits
   [PC(Small, {3, 8}) EXCEPT !.lowers = {16, 4096}, !.uppers = {0, 5000, 100000}],
   [PC(Large, {6, 8}) EXCEPT !.lowers = {0}, !.uppers = {600000, 1310720}]}

\* Where properties fail, one machine each; see the README.
Disagreeing ==
  {[PC(Large, {6, 8}) EXCEPT !.lowers = {100000, 524288}],                 \* windows across 2 GB
   [PC(Small, {6, 8}) EXCEPT !.lowers = {10000}],                          \* beyond the low window
   [PC(Small, {6, 8}) EXCEPT !.lowers = {200}],                            \* in the hole
   [PC(Small, {6, 8}) EXCEPT !.lowers = {600000}],                         \* refused, but v->map changes
   PC(Bios(<<E(600, 600, RAM)>>), {6, 8}),                                 \* across the hole
   PC(Bios(<<E(0, 512, RAM), E(640, 384, RAM), E(1024, MB, RAM)>>), {6, 8}),
   PC(Bios(<<E(0, 640, RAM), E(1024, 0, RAM), E(2 * MB, MB, RAM), E(4 * MB, MB, RAM)>>), {6, 8}),
   [PC(Coreboot(<<LbMap(<<E(1024, MB, RAM), E(0, 640, RAM)>>)>>, <<>>), {6, 8}) EXCEPT !.ram = {<<0, 159>>, <<256, 511>>}],
   [PC(Small, {4, 8}) EXCEPT !.first = FALSE], PC(Small, {8, 10}),         \* tests that tick otherwise
   [PC(Bios(Bottom \o <<E(1024, 63 * MB, RAM), E(64 * GB, 8 * MB, RAM)>>), {6, 8}) EXCEPT !.lm = FALSE],
   With(PC(Small, {3, 6, 7}), Mp(<<Proc(0, TRUE, 20), Proc(2, FALSE, 20)>>), Hw(0, {2}, TRUE), Opts(4, Numbers, 8)),
   With(PC(Tiny, {6, 8}), [Mp(<<Proc(0, TRUE, 20), Proc(2, FALSE, 20), Proc(4, FALSE, 0)>>)
                          EXCEPT !.acpi = Acpi(0, <<Lapic(0, TRUE), Lapic(2, TRUE)>>).acpi],
        Hw(0, {2, 4}, FALSE), Opts(4, Numbers, 8)),
   With(PC(Tiny, {6, 8}), Acpi(0, <<Lapic(3, TRUE)>>), Hw(3, {}, TRUE), Opts(4, Numbers, 0)),
   With(PC(Tiny, {6, 8}), Acpi(0, <<Lapic(2, TRUE), Lapic(0, TRUE)>>), Hw(0, {2}, TRUE), Opts(4, Numbers, 0)),
   [Board(MemoryNode(<<0, 2 * GB, 0, GB>>), {<<524288, 786431>>}) EXCEPT !.lowers = {524288}],
   Board(MemoryNode(<<0, 2 * GB, 0, GB>>) \o MemoryNode(<<0, GB, 0, GB>>), {<<262144, 786431>>})}
=============================================================================
