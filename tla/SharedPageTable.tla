--------------------------- MODULE SharedPageTable ---------------------------
(***************************************************************************)
(* SharedPageTable of os-page: translation by tables that lie in a         *)
(* LegacyOnDemand memory, with pages of the default size.  The tables are  *)
(* written by an operating system that is not part of the repository; what *)
(* its entries look like is known from the test and from the code that     *)
(* reads them.  Bits are counted in bytes of R values: sixteen of them are *)
(* a factor of R^2.                                                        *)
(***************************************************************************)
EXTENDS GuestMemory, Sequences, SequencesExt

CONSTANTS
  Tables,        \* configurations: records, levels and pte_bytes (8 or 4)
  NoTable,       \* the run is one of GuestMemory
  TableAt(_, _, _), \* where a configuration has the table of a level for a virtual page
  security_dir_vaddr,
  Physical,      \* physical pages that are mapped
  VirtualPages   \* virtual pages that are mapped

ASSUME TableAssumption ==
  /\ M = R ^ 8 /\ PageSize = R ^ 2
  /\ Tables \subseteq [levels : {2, 3}, pte_bytes : {4, 8}]
  /\ VirtualPages \subseteq Nat /\ Physical \subseteq Nat /\ security_dir_vaddr \in Nat
  /\ \A t \in Tables, level \in 1..3, vp \in VirtualPages : TableAt(t, level, vp) \in Nat

\* What arithmetic says of the powers that are used.
ASSUME PowersAssumption ==
  /\ \A i \in 0..8 : R ^ i \in Nat \ {0}
  /\ R ^ 0 = 1 /\ \A i \in 0..7 : R ^ (i + 1) = R ^ i * R

VARIABLES
  table,    \* the configuration
  mapped    \* history: virtual page -> physical page, what was mapped

tableVars == <<table, mapped>>

\* An integer from its bytes, and the bytes of an integer.
ToInt(bytes, n) ==
  LET int[k \in 0..n] == IF k = 0 THEN 0 ELSE int[k - 1] + bytes[k - 1] * R ^ (k - 1)
  IN  int[n]

ToBytes(v, n) == [i \in 0..(n - 1) |-> (v \div R ^ i) % R]

ReadInt(ps, addr, n) == ToInt(read_bytes_at(ps, addr % M, n), n)

Wide(t) == t.pte_bytes = 8

-----------------------------------------------------------------------------
(***************************************************************************)
(* Translation.                                                            *)
(***************************************************************************)
read_pte(ps, addr) == ReadInt(ps, addr, table.pte_bytes)

Root == TableAt(table, table.levels, 0)

\* The entry of a security directory has 32 bits; the wide layout keeps
\* what is above bit 48 of it, which is nothing.
physical(ps, page_pointer) ==
  LET sec_idx  == IF Wide(table) THEN page_pointer % R ^ 2 ELSE page_pointer % R
      low      == IF Wide(table) THEN page_pointer \div R ^ 2 ELSE page_pointer \div R
      shift    == IF Wide(table) THEN R ^ 6 ELSE R ^ 3
      top      == ReadInt(ps, security_dir_vaddr + sec_idx * 4, 4) \div shift
  IN  top * shift + low

Physically(ps, page_pointer, page_offset) ==
  ((physical(ps, page_pointer) * PageSize) % M) + page_offset

translate_2level(ps, vaddr) ==
  Physically(ps, read_pte(ps, Root + (vaddr \div PageSize) * table.pte_bytes),
             vaddr % PageSize)

\* Mutant: the two upper indices are exchanged.
translate_3level_exchanged(ps, vaddr) ==
  LET Entry(base, shift) == read_pte(ps, base + ((vaddr \div shift) % R ^ 2) * table.pte_bytes)
  IN  Physically(ps, Entry(Entry(Entry(Root, R ^ 4), R ^ 6), R ^ 2), vaddr % PageSize)

\* Three indices of sixteen bits, whatever the size of a page.
translate_3level(ps, vaddr) ==
  LET Entry(base, shift) == read_pte(ps, base + ((vaddr \div shift) % R ^ 2) * table.pte_bytes)
  IN  Physically(ps, Entry(Entry(Entry(Root, R ^ 6), R ^ 4), R ^ 2), vaddr % PageSize)

translate(ps, vaddr) ==
  CASE table.levels = 2 -> translate_2level(ps, vaddr)
    [] table.levels = 3 -> translate_3level(ps, vaddr)
    [] OTHER -> Fault

-----------------------------------------------------------------------------
(***************************************************************************)
(* External: the operating system.                                         *)
(***************************************************************************)
Put(ps, addr, v, n) == write_bytes_at(ps, addr, n, ToBytes(v, n))

\* An entry for a physical page: its low part, and the index of an entry of
\* the security directory that has its high part.
HighPart(t, pp) == IF Wide(t) THEN 0 ELSE pp \div R ^ 3
SecIdx(t, pp)   == IF Wide(t) THEN pp % R ^ 2 ELSE HighPart(t, pp)
Pte(t, pp)      == IF Wide(t) THEN pp * R ^ 2 + SecIdx(t, pp) ELSE (pp % R ^ 3) * R + SecIdx(t, pp)

IndexAt(t, level, vp) ==
  IF t.levels = 2 THEN vp ELSE (vp \div R ^ (2 * (level - 1))) % R ^ 2

EntryAddr(t, level, vp) ==
  TableAt(t, IF t.levels = 2 THEN 2 ELSE level, vp) + IndexAt(t, level, vp) * t.pte_bytes

SecAddr(t, pp) == security_dir_vaddr + SecIdx(t, pp) * 4

\* It writes tables that are addresses, start at one root and do not
\* overlap, as far as their entries are in use.
Levels(t) == IF t.levels = 2 THEN {1} ELSE 1..3

Cells(addr, n) == {ByteAddr(addr, i) : i \in 0..(n - 1)}

Same(t, k, vp, l, q) ==
  k = l /\ IF k = 1 THEN vp = q ELSE TableAt(t, k - 1, vp) = TableAt(t, k - 1, q)

ASSUME LayoutAssumption ==
  \A t \in Tables, vp \in VirtualPages :
    /\ TableAt(t, t.levels, vp) = TableAt(t, t.levels, 0)
    /\ \A k \in Levels(t) :
         /\ EntryAddr(t, k, vp) \in 0..(M - 1)
         /\ k > 1 => TableAt(t, k - 1, vp) < R ^ t.pte_bytes
         /\ \A l \in Levels(t), q \in VirtualPages :
              \/ EntryAddr(t, k, vp) = EntryAddr(t, l, q) /\ Same(t, k, vp, l, q)
              \/ Cells(EntryAddr(t, k, vp), t.pte_bytes) \cap Cells(EntryAddr(t, l, q), t.pte_bytes) = {}
         /\ \A pp \in Physical :
              Cells(EntryAddr(t, k, vp), t.pte_bytes) \cap Cells(SecAddr(t, pp), 4) = {}

ASSUME DirectoryAssumption ==
  \A t \in Tables, pp, other \in Physical :
    /\ SecAddr(t, pp) \in 0..(M - 1)
    /\ \/ SecIdx(t, pp) = SecIdx(t, other)
       \/ Cells(SecAddr(t, pp), 4) \cap Cells(SecAddr(t, other), 4) = {}

SetEntry(ps, level, vp, v) == Put(ps, EntryAddr(table, level, vp), v, table.pte_bytes)

\* An entry of the directory: the high part, above what a low part has.
SecEntry(t, pp) == HighPart(t, pp) * (IF Wide(t) THEN 1 ELSE R ^ 3)

SetLeaf(ps, vp, pp) ==
  Put(SetEntry(ps, 1, vp, Pte(table, pp)), SecAddr(table, pp), SecEntry(table, pp), 4)

TableInit ==
  /\ MemoryInit
  /\ table \in IF kind = "tables" THEN Tables ELSE {NoTable}
  /\ mapped = <<>>

Map(vp, pp) ==
  /\ kind = "tables"
  /\ pp < IF Wide(table) THEN R ^ 6 ELSE R ^ 4
  /\ CountWrite
  /\ pages' =
       IF table.levels = 2 THEN SetLeaf(pages, vp, pp)
       ELSE SetLeaf(SetEntry(SetEntry(pages, 3, vp, TableAt(table, 2, vp)), 2, vp, TableAt(table, 1, vp)), vp, pp)
  /\ mapped' = [q \in DOMAIN mapped \cup {vp} |-> IF q = vp THEN pp ELSE mapped[q]]
  /\ UNCHANGED <<kind, memory, result, asked, table>>

\* The entry is cleared.
Unmap(vp) ==
  /\ kind = "tables"
  /\ vp \in DOMAIN mapped
  /\ CountWrite
  /\ pages' = SetEntry(pages, 1, vp, 0)
  /\ mapped' = [q \in DOMAIN mapped \ {vp} |-> mapped[q]]
  /\ UNCHANGED <<kind, memory, result, asked, table>>

TableNext ==
  \/ MemoryNext /\ UNCHANGED tableVars
  \/ \E vp \in VirtualPages, pp \in Physical : Map(vp, pp)
  \/ \E vp \in VirtualPages : Unmap(vp)

TableSpec == TableInit /\ [][TableNext]_<<memoryVars, tableVars>>

-----------------------------------------------------------------------------
\* An address of a mapped page is translated to the same offset in the page
\* that was mapped last, in tables of two and of three levels and with both
\* widths of entries, whatever else was mapped and unmapped meanwhile
\* (SharedPageTable::translate, backends.rs:253-261).
TranslatesAsMapped ==
  \A vp \in DOMAIN mapped, o \in Offsets :
    translate(pages, vp * PageSize + o) = mapped[vp] * PageSize + o
=============================================================================
