------------------------------ MODULE Firmware ------------------------------
(***************************************************************************)
(* The memory map: how src/arch/i386/memsize.c and linuxbios.c build       *)
(* v->pmap from what the firmware tells, and parse_fdt of                  *)
(* src/arch/riscv/arch.c from a device tree.  Addresses count KB, pages    *)
(* have 4; a map is a sequence of [start, end] in pages.                   *)
(***************************************************************************)
EXTENDS Integers, Sequences, SequencesExt, FiniteSets

CONSTANTS SPACE,     \* KB that an address can count, 2^54 in the code
          E820MAX    \* entries of a map, 127 in the code

ASSUME SpaceAssumption == SPACE \in Nat \ {0} /\ E820MAX \in Nat \ {0}

RAM == 1
RESERVED == 2
ACPI == 3
NVS == 4
RES_START == 640
RES_END == 1024
-----------------------------------------------------------------------------
(* sanitize_e820_map: entries are [addr, size, type] and may overlap. *)
Highest(S) == CHOOSE x \in S : \A y \in S : x >= y

\* Does the change point [addr, of] begin an entry, by comparing addresses?
IsStart(m, c) == c.addr = m[c.of].addr

\* By address, starts before ends, otherwise in the order of the entries.
Precedes(m, c, d) == \/ c.addr < d.addr
                     \/ /\ c.addr = d.addr
                        /\ IF IsStart(m, c) = IsStart(m, d) THEN c.n < d.n ELSE IsStart(m, c)
change_point(m) ==
  LET Point(n) == LET i == (n + 1) \div 2
                  IN [n |-> n, of |-> i, addr |-> m[i].addr + (IF n % 2 = 0 THEN m[i].size ELSE 0)]
  IN SortSeq([n \in 1 .. 2 * Len(m) |-> Point(n)], LAMBDA c, d : Precedes(m, c, d))

\* The entries that cover what follows the point: one that ends is overwritten
\* by the last one of the list.  An entry without size begins twice.
overlap_list(m, list, c) ==
  IF IsStart(m, c) THEN Append(list, c.of)
  ELSE Front([i \in DOMAIN list |-> IF list[i] = c.of THEN Last(list) ELSE list[i]])
TypeOver(m, list) == Highest({0} \cup {m[list[i]].type : i \in DOMAIN list})

\* The turn of the loop for one change point; `new` are the finished entries.
Change(m, s, c) ==
  LET list == overlap_list(m, s.list, c)
      type == TypeOver(m, list)
      size == c.addr - s.addr
      new == IF s.type # 0 /\ size # 0
               THEN Append(s.new, [addr |-> s.addr, size |-> size, type |-> s.type]) ELSE s.new
  IN IF Len(s.new) >= E820MAX THEN s
     ELSE IF type = s.type THEN [s EXCEPT !.list = list]
     ELSE [list |-> list, type |-> type, new |-> new,
           addr |-> IF type # 0 THEN c.addr ELSE s.addr]

sanitize_e820_map(m) ==
  IF \E i \in DOMAIN m : (m[i].addr + m[i].size) % SPACE < m[i].addr THEN <<>>
  ELSE FoldLeft(LAMBDA s, c : Change(m, s, c),
                [list |-> <<>>, type |-> 0, new |-> <<>>, addr |-> 0], change_point(m)).new
-----------------------------------------------------------------------------
(* The map of pages, and how many there are. *)
PageUp(k) == (k + 3) \div 4
PageDown(k) == k \div 4

\* "Don't ever use memory between 640 and 1024k".
Lower640(start, end) == IF start > RES_START /\ start < RES_END THEN RES_END ELSE start
Upper640(start, end) == IF end > RES_START /\ end < RES_END THEN RES_START ELSE end
InHole(start, end) == start > RES_START /\ start < RES_END /\ end < RES_END

Usable(e) == e.type \in {RAM, ACPI}

\* Fault: part of a page counts as a page.
PagesTouched(start, end) == [start |-> PageDown(start), end |-> PageUp(end)]
PagesOf(start, end) == [start |-> PageUp(start), end |-> PageDown(end)]

MapEntry(e) == LET end == e.addr + e.size
               IN PagesOf(Lower640(e.addr, end), Upper640(e.addr, end))

\* The greater of the sizes by the functions 88 and 801, in KB above 1 MB.
memsize_801(fw) ==
  LET mem_size == IF fw.alt_mem_k < fw.ext_mem_k THEN fw.ext_mem_k ELSE fw.alt_mem_k
  IN <<[start |-> 0, end |-> PageDown(RES_START)],
       [start |-> PageUp(RES_END), end |-> PageDown(mem_size + 1024)]>>

memsize_820(fw) ==
  LET nm == sanitize_e820_map(fw.e820)
      used == SelectSeq(nm, LAMBDA e : Usable(e) /\ ~InHole(e.addr, e.addr + e.size))
  IN IF Len(nm) < 1 THEN memsize_801(fw) ELSE [i \in DOMAIN used |-> MapEntry(used[i])]

memsize_linuxbios(e820) ==
  LET ram == SelectSeq(e820, LAMBDA e : e.type = RAM)
  IN [i \in DOMAIN ram |-> PagesOf(ram[i].addr, ram[i].addr + ram[i].size)]

\* sort_pmap, entry i: j is the place to insert it, 0 (before the map) when no
\* entry starts below it.  What is between moves down, over the entry at j.
Insert(m, i) ==
  LET lower == {j \in 1 .. i - 1 : m[i].start > m[j].start}
      j == IF lower = {} THEN 0 ELSE Highest(lower) + 1
  IN [k \in DOMAIN m |-> IF k = j THEN m[i] ELSE IF k \in j .. i - 1 THEN m[k + 1] ELSE m[k]]
sort_pmap(m) == FoldLeft(Insert, m, [i \in DOMAIN m |-> i])
-----------------------------------------------------------------------------
(* The table of LinuxBIOS: [signature, header_bytes, header, body,         *)
(* table_bytes, table_checksum, table_entries, recs], header and body as   *)
(* 16-bit words, the records [tag, size, forward, map] after the header.   *)
NoTable == [signature |-> "none"]
HEADER_BYTES == 24

\* The one's complement of the sum with end-around carry.
ip_compute_csum(words) ==
  LET Sum(s, w) == IF s + w > 65535 THEN s + w - 65535 ELSE s + w
  IN 65535 - FoldLeft(Sum, 0, words)

\* for_each_lbrec: the records up to the first that is empty or leaves the table.
Records(head) ==
  LET rec == head.recs
      before[i \in 0 .. Len(rec)] == IF i = 0 THEN 0 ELSE before[i - 1] + rec[i].size
      Is(i) == rec[i].size >= 1 /\ before[i] <= head.table_bytes
      n == CHOOSE k \in 0 .. Len(rec) :
             (\A i \in 1 .. k : Is(i)) /\ (k < Len(rec) => ~Is(k + 1))
  IN SubSeq(rec, 1, n)
count_lb_records(head) == Len(Records(head))

LbTable(head) == /\ head.signature = "LBIO" /\ head.header_bytes = HEADER_BYTES
                 /\ ip_compute_csum(head.header) = 0
                 /\ ip_compute_csum(head.body) = head.table_checksum
                 /\ count_lb_records(head) = head.table_entries

\* The first table in an area, a sequence of what looks like one.
FirstLb(area) == LET found == SelectSeq(area, LbTable)
                 IN IF found = <<>> THEN NoTable ELSE Head(found)
\* First below 4 KB, then below 1 MB.
find_lb_table(fw) ==
  LET low == FirstLb(fw.lb_low) IN IF low = NoTable THEN FirstLb(fw.lb_high) ELSE low

\* The entries of the memory record, all but RAM reserved.
LbEntries(mem) ==
  [i \in 1 .. (IF Len(mem.map) < E820MAX THEN Len(mem.map) ELSE E820MAX) |->
     [mem.map[i] EXCEPT !.type = IF @ = RAM THEN RAM ELSE RESERVED]]

\* Whether there is a table, and the map it leaves in mem_info: the one of a
\* forwarded table, which is not checked, and of the first record of memory.
query_linuxbios(fw) ==
  LET head == find_lb_table(fw)
      forwarded == head # NoTable /\ head.recs # <<>> /\ head.recs[1].tag = "forward"
      table == IF forwarded THEN head.recs[1].forward ELSE head
      mem == SelectSeq(Records(table), LAMBDA r : r.tag = "memory")
  IN IF head = NoTable \/ table = NoTable THEN [found |-> FALSE]
     ELSE [found |-> TRUE,
           e820 |-> IF mem = <<>> \/ mem[1].map = <<>> THEN <<>> ELSE LbEntries(mem[1])]

\* mem_size: the map, sorted; without a table the BIOS is asked.
mem_size(fw) ==
  LET lb == query_linuxbios(fw)
  IN sort_pmap(IF lb.found THEN memsize_linuxbios(lb.e820) ELSE memsize_820(fw))
-----------------------------------------------------------------------------
(* The device tree: tokens [t |-> "begin", name], [t |-> "end"],           *)
(* [t |-> "prop", name, value], [t |-> "nop"] and [t |-> "stop"].          *)
None == "none"
CELL == 2 ^ 22  \* 4 GB, what a cell of reg counts, in KB

\* reg, by its number of cells: one address, 32 bits of both, or the first range.
RegOf(reg, cells) ==
  CASE Len(cells) = 1 -> [start |-> cells[1], size |-> 0]
    [] Len(cells) = 2 -> [start |-> cells[1], size |-> cells[2]]
    [] OTHER -> [start |-> cells[1] * CELL + cells[2], size |-> cells[3] * CELL + cells[4]]

\* At the end of a node of memory its last reg is a segment, not rounded up.
EndNode(s) ==
  [s EXCEPT !.path = Front(@), !.device_type = None, !.compatible = None,
     !.pmap = IF s.device_type = "memory"
                THEN Append(@, [start |-> PageDown(s.reg.start), end |-> PageDown(s.reg.start + s.reg.size)])
                ELSE @,
     !.uart_base = IF s.compatible = "sifive,uart0" THEN s.reg.start ELSE @]

Prop(s, p) ==
  [s EXCEPT !.args = IF s.path = <<"", "chosen">> /\ p.name = "bootargs" THEN p.value ELSE @,
            !.compatible = IF p.name = "compatible" THEN p.value ELSE @,
            !.device_type = IF p.name = "device_type" THEN p.value ELSE @,
            !.reg = IF p.name = "reg" THEN RegOf(@, p.value) ELSE @]

\* A child makes its parent forget what it is.
Token(s, x) ==
  CASE s.stopped -> s
    [] x.t = "begin" -> [s EXCEPT !.path = Append(@, x.name), !.compatible = None, !.device_type = None]
    [] x.t = "end" -> EndNode(s)
    [] x.t = "prop" -> Prop(s, x)
    [] x.t = "nop" -> s
    [] x.t = "stop" -> [s EXCEPT !.stopped = TRUE]

\* reg holds what the stack held until there is one.
parse_fdt(tokens, stack) ==
  FoldLeft(Token, [path |-> <<>>, compatible |-> None, device_type |-> None, pmap |-> <<>>,
                   reg |-> stack, uart_base |-> 0, args |-> <<>>,
                   stopped |-> FALSE], tokens)
=============================================================================
