----------------------------- MODULE GuestMemory -----------------------------
(***************************************************************************)
(* The runtime memories of os-page: LegacyOnDemand, pages that a write     *)
(* allocates, and LinearHost, one block that starts at a base address.     *)
(* A value is the function of its bytes, the lowest at index 0; an access  *)
(* of 128 bits always faults and is not modelled further.                  *)
(***************************************************************************)
EXTENDS Integers, FiniteSets

CONSTANTS
  M,          \* addresses are 0..M-1: M = R^8, as u64 is 0..2^64-1
  U,          \* usize is 0..U-1
  PageSize,
  R, Byte,    \* a byte has R values, Byte = 0..R-1; R = 256
  AccessWidths, \* access widths in bytes
  Fault,      \* Err(GuestFault::OutOfBounds)
  LinearSize, LinearBase,  \* of the linear memory
  Kinds,      \* memories in use: "legacy", "linear"; "tables" (SharedPageTable)
  Accesses,   \* addresses that are accessed
  ValueAt(_), \* bytes that are written: the value with a given number
  Values,     \* the numbers of values
  MaxWrites   \* bound: writes

ASSUME GuestMemoryAssumption ==
  /\ M \in Nat /\ M >= 8 /\ U \in Nat /\ PageSize \in Nat \ {0}
  /\ M % PageSize = 0
  /\ R \in Nat \ {0, 1} /\ Byte = 0..(R - 1)
  /\ LinearSize \in Nat /\ LinearBase \in Nat
  /\ LinearSize < U - 8 /\ LinearBase + LinearSize < M
  /\ Accesses \subseteq 0..(M - 1)
  /\ AccessWidths \subseteq 1..8
  /\ \A v \in Values, i \in 0..7 : ValueAt(v)[i] \in Byte
  /\ Fault \notin Int
  /\ MaxWrites \in Nat

VARIABLES
  kind,     \* which memory
  pages,    \* LegacyOnDemand: page number -> bytes of the page
  memory,   \* LinearHost: bytes
  result,   \* of the last access
  asked,    \* history: the last access
  writes    \* writes so far

memoryVars == <<kind, pages, memory, result, asked, writes>>

Offsets == 0..(PageSize - 1)
NoBytes == [i \in {} |-> 0]
ZeroPage == [o \in Offsets |-> 0]

-----------------------------------------------------------------------------
(***************************************************************************)
(* LegacyOnDemand                                                          *)
(***************************************************************************)
\* Mutant: addresses do not wrap.
ByteAddrNoWrap(addr, i) == addr + i

\* The byte that is i bytes from addr: wrapping_add.
ByteAddr(addr, i) == (addr + i) % M

PageOf(a)   == a \div PageSize
OffsetOf(a) == a % PageSize

read_bytes_at(ps, addr, n) ==
  [i \in 0..(n - 1) |->
     LET a == ByteAddr(addr, i)
     IN  IF PageOf(a) \in DOMAIN ps THEN ps[PageOf(a)][OffsetOf(a)] ELSE 0]

write_bytes_at(ps, addr, n, value) ==
  LET touched == {PageOf(ByteAddr(addr, i)) : i \in 0..(n - 1)}
  IN  [p \in DOMAIN ps \cup touched |->
         [o \in Offsets |->
            LET old == IF p \in DOMAIN ps THEN ps[p][o] ELSE 0
                i   == (p * PageSize + o - addr) % M
            IN  IF i < n THEN value[i] ELSE old]]

get_page(ps, p) == [q \in DOMAIN ps \cup {p} |-> IF q \in DOMAIN ps THEN ps[q] ELSE ZeroPage]

-----------------------------------------------------------------------------
(***************************************************************************)
(* LinearHost                                                              *)
(***************************************************************************)
\* checked_sub
offset(addr) == IF addr >= LinearBase THEN addr - LinearBase ELSE Fault

saturating_add(x, y) == IF x + y >= U THEN U - 1 ELSE x + y

InBounds(off, n) ==
  LET base == off % U
      end  == saturating_add(base, n)
  IN  ~(end > LinearSize \/ end < base)

read_bytes_linear(mem, off, n) == [i \in 0..(n - 1) |-> mem[(off % U) + i]]

\* Mutant: the highest byte goes to the lowest address.
write_bytes_linear_reversed(mem, off, n, value) ==
  [a \in DOMAIN mem |->
     IF a - (off % U) \in 0..(n - 1) THEN value[n - 1 - (a - (off % U))] ELSE mem[a]]

write_bytes_linear(mem, off, n, value) ==
  [a \in DOMAIN mem |->
     IF a - (off % U) \in 0..(n - 1) THEN value[a - (off % U)] ELSE mem[a]]

LinearOk(addr, n) ==
  /\ offset(addr) # Fault
  /\ InBounds(offset(addr), n)

-----------------------------------------------------------------------------
MemoryInit ==
  /\ kind \in Kinds
  /\ pages = [p \in {} |-> ZeroPage]
  /\ memory = [a \in 0..(LinearSize - 1) |-> 0]
  /\ result = Fault
  /\ asked = [op |-> "none", addr |-> 0, n |-> 0, v |-> 0]
  /\ writes = 0

Asked(op, addr, n, v) == asked' = [op |-> op, addr |-> addr, n |-> n, v |-> v]

LegacyRead(addr, n) ==
  /\ kind = "legacy"
  /\ Asked("read", addr, n, 0)
  /\ result' = read_bytes_at(pages, addr, n)
  /\ UNCHANGED <<kind, pages, memory, writes>>

CountWrite ==
  /\ writes < MaxWrites
  /\ writes' = writes + 1

LegacyWrite(addr, n, v) ==
  /\ kind = "legacy"
  /\ CountWrite
  /\ Asked("write", addr, n, v)
  /\ pages' = write_bytes_at(pages, addr, n, ValueAt(v))
  /\ result' = NoBytes
  /\ UNCHANGED <<kind, memory>>

\* A caller gets a page, which is allocated, and writes a byte of it.
GetPage(addr, v) ==
  /\ kind = "legacy"
  /\ CountWrite
  /\ Asked("poke", addr, 1, v)
  /\ pages' = [get_page(pages, PageOf(addr)) EXCEPT ![PageOf(addr)][OffsetOf(addr)] = ValueAt(v)[0]]
  /\ result' = NoBytes
  /\ UNCHANGED <<kind, memory>>

LinearRead(addr, n) ==
  /\ kind = "linear"
  /\ Asked("read", addr, n, 0)
  /\ result' = IF LinearOk(addr, n) THEN read_bytes_linear(memory, offset(addr), n) ELSE Fault
  /\ UNCHANGED <<kind, pages, memory, writes>>

LinearWrite(addr, n, v) ==
  /\ kind = "linear"
  /\ CountWrite
  /\ Asked("write", addr, n, v)
  /\ IF LinearOk(addr, n)
     THEN /\ memory' = write_bytes_linear(memory, offset(addr), n, ValueAt(v))
          /\ result' = NoBytes
     ELSE /\ result' = Fault
          /\ UNCHANGED memory
  /\ UNCHANGED <<kind, pages>>

MemoryNext ==
  \E addr \in Accesses :
    \/ \E n \in AccessWidths : LegacyRead(addr, n) \/ LinearRead(addr, n)
    \/ \E n \in AccessWidths, v \in Values : LegacyWrite(addr, n, v) \/ LinearWrite(addr, n, v)
    \/ \E v \in Values : GetPage(addr, v)

MemorySpec == MemoryInit /\ [][MemoryNext]_memoryVars

-----------------------------------------------------------------------------
\* Pages have numbers of the address space, and hold bytes.
MemoryTypeOK ==
  /\ kind \in Kinds
  /\ \A p \in DOMAIN pages : p \in 0..(M \div PageSize - 1) /\ pages[p] \in [Offsets -> Byte]
  /\ memory \in [0..(LinearSize - 1) -> Byte]
  /\ writes \in 0..MaxWrites

\* The memory as FlatMemory: a page that is not allocated holds zeros, and
\* a linear memory has the addresses from its base on.
AbsBytes ==
  [a \in 0..(M - 1) |->
     CASE kind = "legacy" -> IF PageOf(a) \in DOMAIN pages THEN pages[PageOf(a)][OffsetOf(a)] ELSE 0
       [] kind = "linear" -> IF a \in LinearBase..(LinearBase + LinearSize - 1) THEN memory[a - LinearBase] ELSE 0
       [] OTHER -> 0]

AbsExists == IF kind = "linear" THEN LinearBase..(LinearBase + LinearSize - 1) ELSE 0..(M - 1)

Flat == INSTANCE FlatMemory WITH bytes <- AbsBytes, exists <- AbsExists,
                             Widths <- AccessWidths

\* Both memories are one flat memory, whatever page boundaries, wrapping
\* and bounds an access meets: the bytes read are the bytes last written,
\* and an access that does not fit changes nothing (GuestMemory for
\* LegacyOnDemand and for LinearHost, backends.rs:108-125 and 302-318).
ImplementsFlatMemory == Flat!Spec
=============================================================================
