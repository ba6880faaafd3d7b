-------------------------- MODULE ElfRewriteProofs ---------------------------
(***************************************************************************)
(* Proofs about the ELF rewriter: what MCRewriters checks on small files   *)
(* holds of every file that satisfies its assumption.                      *)
(***************************************************************************)
EXTENDS MCRewriters, SequenceLemmas, FiniteSetTheorems

-----------------------------------------------------------------------------
(***************************************************************************)
(* Reading an ELF file.                                                    *)
(***************************************************************************)

\* A cell of a file is a number.
LEMMA CellsAreNumbers ==
  ASSUME NEW img, Shaped(img)
  PROVE  /\ Len(img.cells) \in Nat
         /\ DOMAIN img.cells = 1..Len(img.cells)
         /\ \A off \in Nat : InFile(img, off) => Cell(img, off) \in Nat
<1>1. img.cells \in Seq(Nat)
  BY DEF Shaped
<1> QED
  BY <1>1 DEF InFile, Cell

\* The slots of the dynamic array follow each other from an offset on.
LEMMA SlotOffsets ==
  ASSUME NEW img, Shaped(img), Segments(img, "DYNAMIC") # {}
  PROVE  /\ Slot(img, 0) \in Nat
         /\ \A k \in Nat : Slot(img, k) = Slot(img, 0) + 2 * k
         /\ \A k \in Nat : Slot(img, k) \in Nat
         /\ Slots(img) \subseteq Nat
         /\ \A k \in Slots(img), j \in Nat : j <= k => j \in Slots(img)
         /\ \A k \in Nat, j \in Nat : Readable(img, k) /\ j <= k => Readable(img, j)
<1> DEFINE seg == DynSeg(img)
<1>1. seg.offset \in Nat /\ seg.filesz \in Nat
  <2>1. Segments(img, "DYNAMIC") \subseteq 1..Len(img.phdrs)
    BY DEF Segments
  <2>2. Min(Segments(img, "DYNAMIC")) \in Segments(img, "DYNAMIC")
    <3>1. Segments(img, "DYNAMIC") \subseteq Nat
      BY <2>1
    <3> QED
      BY <3>1, MinOf
  <2>3. seg \in [type : {"LOAD", "DYNAMIC"}, offset : Nat, vaddr : Nat, filesz : Nat]
    <3> DEFINE m == Min(Segments(img, "DYNAMIC"))
    <3>1. m \in 1..Len(img.phdrs)
      BY <2>1, <2>2
    <3> HIDE DEF m
    <3>2. img.phdrs[m] \in [type : {"LOAD", "DYNAMIC"}, offset : Nat, vaddr : Nat, filesz : Nat]
      <4> DEFINE H == [type : {"LOAD", "DYNAMIC"}, offset : Nat, vaddr : Nat, filesz : Nat]
      <4>1. img.phdrs \in Seq(H)
        BY DEF Shaped
      <4> HIDE DEF H
      <4>2. img.phdrs[m] \in H
        BY <3>1, <4>1
      <4> QED
        BY <4>2 DEF H
    <3> QED
      BY <3>2 DEF DynSeg, m
  <2> QED
    BY <2>3
<1> HIDE DEF seg
<1>2. \A k : Slot(img, k) = seg.offset + 2 * k
  BY DEF Slot, seg
<1>3. Slots(img) = 0..(seg.filesz \div 2 - 1)
  BY DEF Slots, seg
<1>4. Slots(img) \subseteq Nat /\ \A k \in Slots(img), j \in Nat : j <= k => j \in Slots(img)
  <2> DEFINE m == seg.filesz \div 2 - 1
  <2>1. m \in Int
    BY <1>1
  <2> HIDE DEF m
  <2>2. Slots(img) = 0..m
    BY <1>3 DEF m
  <2> QED
    BY <2>1, <2>2
<1>5. \A k \in Nat : Slot(img, k) \in Nat /\ Slot(img, k) = Slot(img, 0) + 2 * k
  BY <1>1, <1>2
<1>6. ASSUME NEW k \in Nat, NEW j \in Nat, Readable(img, k), j <= k
      PROVE  Readable(img, j)
  <2>1. Len(img.cells) \in Nat
    BY CellsAreNumbers
  <2> QED
    BY <1>1, <1>2, <1>6, <2>1 DEF Readable, InFile
<1> QED
  BY <1>4, <1>5, <1>6

\* The terminator is the first slot with the tag zero.
LEMMA TheTerminator ==
  ASSUME NEW img, Shaped(img), Segments(img, "DYNAMIC") # {}, Terminates(img)
  PROVE  /\ Terminator(img) \in Slots(img)
         /\ Terminator(img) \in Nat
         /\ Readable(img, Terminator(img))
         /\ Tag(img, Terminator(img)) = DT_NULL
         /\ \A k \in 0..(Terminator(img) - 1) :
              k \in Slots(img) /\ Readable(img, k) /\ Tag(img, k) # DT_NULL
<1> DEFINE K == {k \in Slots(img) : Readable(img, k) /\ Tag(img, k) = DT_NULL}
<1>1. K # {} /\ K \subseteq Nat
  BY SlotOffsets DEF Terminates
<1>2. Terminator(img) \in K /\ \A j \in K : Terminator(img) <= j
  BY <1>1, MinOf DEF Terminator
<1>3. ASSUME NEW k \in 0..(Terminator(img) - 1)
      PROVE  k \in Slots(img) /\ Readable(img, k) /\ Tag(img, k) # DT_NULL
  <2>1. Terminator(img) \in Nat /\ k \in Nat /\ k <= Terminator(img) /\ ~ (Terminator(img) <= k)
    BY <1>1, <1>2
  <2>2. k \in Slots(img) /\ Readable(img, k)
    BY <1>2, <2>1, SlotOffsets
  <2> QED
    BY <1>2, <2>1, <2>2
<1> QED
  BY <1>1, <1>2, <1>3

\* A slot that is read holds two numbers.
LEMMA SlotValues ==
  ASSUME NEW img, Shaped(img), Segments(img, "DYNAMIC") # {}, NEW k \in Nat, Readable(img, k)
  PROVE  /\ Tag(img, k) \in Nat
         /\ Val(img, k) \in Nat
         /\ Slot(img, k) + 1 < Len(img.cells)
<1>1. Slot(img, k) \in Nat
  BY SlotOffsets
<1>2. InFile(img, Slot(img, k) + 1) /\ InFile(img, Slot(img, k)) /\ Slot(img, k) + 1 \in Nat
  BY <1>1, CellsAreNumbers DEF Readable, InFile
<1> QED
  BY <1>1, <1>2, CellsAreNumbers DEF Tag, Val, InFile

\* The entries with a tag, the last of them and its value.
LEMMA EntriesOf ==
  ASSUME NEW img, Shaped(img), Segments(img, "DYNAMIC") # {}, Terminates(img),
         NEW tag, Entries(img, tag) # {}
  PROVE  /\ Entries(img, tag) \subseteq 0..(Terminator(img) - 1)
         /\ Max(Entries(img, tag)) \in Entries(img, tag)
         /\ \A k \in Entries(img, tag) : k <= Max(Entries(img, tag))
         /\ ValueOf(img, tag) = Val(img, Max(Entries(img, tag)))
         /\ ValueOf(img, tag) \in Nat
<1> DEFINE K == Entries(img, tag)
<1>1. K \subseteq 0..(Terminator(img) - 1)
  BY DEF Entries
<1>2. Terminator(img) \in Nat
  BY TheTerminator
<1> HIDE DEF K
<1>3. Max(K) \in K /\ \A j \in K : Max(K) >= j
  <2>1. K \subseteq 0..Terminator(img) /\ K # {}
    BY <1>1, <1>2 DEF K
  <2> QED
    BY <1>2, <2>1, MaxOf
<1>4. \A k \in K : k <= Max(K)
  BY <1>1, <1>2, <1>3
<1>5. ValueOf(img, tag) = Val(img, Max(K))
  BY DEF ValueOf, K
<1>6. Val(img, Max(K)) \in Nat
  <2>1. Max(K) \in 0..(Terminator(img) - 1)
    BY <1>1, <1>3
  <2>2. Readable(img, Max(K)) /\ Max(K) \in Nat
    BY <1>2, <2>1, TheTerminator
  <2> QED
    BY <2>2, SlotValues
<1> QED
  BY <1>1, <1>3, <1>4, <1>5, <1>6 DEF K

-----------------------------------------------------------------------------
(***************************************************************************)
(* What rewrite_elf finds in a file it does not refuse.                    *)
(***************************************************************************)
Rewritable(img, name, rpath) ==
  /\ Executable(img) /\ Accepted(img)
  /\ name \in Names /\ rpath \in Names \cup {NoName}
  /\ Status(img, name, rpath) = "Ok"

\* The characters of the name and a zero, and those of the search path and a
\* zero.
TheStrings(name, rpath, new) ==
  /\ new \in Seq(Nat)
  /\ Len(name) \in Nat
  /\ \A i \in 1..Len(name) : new[i] = name[i] /\ name[i] \in Nat \ {0}
  /\ new[Len(name) + 1] = 0
  /\ rpath = NoName => Len(new) = Len(name) + 1
  /\ rpath # NoName =>
       /\ Len(rpath) \in Nat
       /\ Len(new) = Len(name) + Len(rpath) + 2
       /\ \A i \in 1..Len(rpath) : new[Len(name) + 1 + i] = rpath[i] /\ rpath[i] \in Nat \ {0}
       /\ new[Len(new)] = 0

\* That is what the new strings are.
LEMMA NewStringsAre ==
  ASSUME NEW name \in Names, NEW rpath \in Names \cup {NoName}
  PROVE  TheStrings(name, rpath, NewStrings(name, rpath))
<1> DEFINE x == Append(name, 0)
<1>1. Names \subseteq Seq(Nat \ {0}) /\ Names \subseteq Seq(Nat)
  BY ElfAssumption
<1>2. /\ x \in Seq(Nat)
      /\ Len(name) \in Nat
      /\ Len(x) = Len(name) + 1
      /\ \A i \in 1..Len(name) : x[i] = name[i] /\ name[i] \in Nat \ {0}
      /\ x[Len(name) + 1] = 0
  <2>1. name \in Seq(Nat \ {0}) /\ name \in Seq(Nat)
    BY <1>1
  <2> QED
    BY <2>1
<1>3. CASE rpath = NoName
  <2>1. NewStrings(name, rpath) = x \o <<>>
    BY <1>3 DEF NewStrings
  <2> HIDE DEF x
  <2>2. x \o <<>> = x
    BY <1>2, ConcatEmptySeq
  <2> QED
    BY <1>2, <1>3, <2>1, <2>2 DEF TheStrings
<1>4. CASE rpath # NoName
  <2> DEFINE y == Append(rpath, 0)
  <2>1. rpath \in Seq(Nat \ {0}) /\ rpath \in Seq(Nat)
    BY <1>1, <1>4
  <2>2. /\ y \in Seq(Nat)
        /\ Len(rpath) \in Nat
        /\ Len(y) = Len(rpath) + 1
        /\ \A i \in 1..Len(rpath) : y[i] = rpath[i] /\ rpath[i] \in Nat \ {0}
        /\ y[Len(rpath) + 1] = 0
    BY <2>1
  <2>3. NewStrings(name, rpath) = x \o y
    BY <1>4 DEF NewStrings
  <2> HIDE DEF x, y
  <2> DEFINE new == x \o y
  <2>4. /\ new \in Seq(Nat)
        /\ Len(new) = Len(x) + Len(y)
        /\ \A i \in 1..Len(x) + Len(y) : new[i] = IF i <= Len(x) THEN x[i] ELSE y[i - Len(x)]
    <3>1. x \in Seq(Nat) /\ y \in Seq(Nat)
      BY <1>2, <2>2
    <3> QED
      BY <3>1, ConcatProperties
  <2> HIDE DEF new
  <2>5. Len(new) = Len(name) + Len(rpath) + 2
    BY <1>2, <2>2, <2>4
  <2>6. \A i \in 1..(Len(name) + 1) : new[i] = x[i]
    <3> SUFFICES ASSUME NEW i \in 1..(Len(name) + 1) PROVE new[i] = x[i]
      OBVIOUS
    <3>1. i \in 1..Len(x) + Len(y) /\ i <= Len(x)
      BY <1>2, <2>2
    <3> QED
      BY <2>4, <3>1
  <2>7. \A i \in 1..(Len(rpath) + 1) : new[Len(name) + 1 + i] = y[i]
    <3> SUFFICES ASSUME NEW i \in 1..(Len(rpath) + 1) PROVE new[Len(name) + 1 + i] = y[i]
      OBVIOUS
    <3> DEFINE j == Len(name) + 1 + i
    <3>1. j \in 1..Len(x) + Len(y) /\ ~ (j <= Len(x)) /\ j - Len(x) = i
      BY <1>2, <2>2
    <3> HIDE DEF j
    <3>2. new[j] = y[i]
      BY <2>4, <3>1
    <3> QED
      BY <3>2 DEF j
  <2>8. new[Len(new)] = 0
    <3>1. Len(rpath) + 1 \in 1..(Len(rpath) + 1)
      BY <2>2
    <3>2. new[Len(name) + 1 + (Len(rpath) + 1)] = y[Len(rpath) + 1]
      BY <2>7, <3>1, Zenon
    <3>3. Len(name) + 1 + (Len(rpath) + 1) = Len(new)
      BY <1>2, <2>2, <2>5
    <3> QED
      BY <2>2, <3>2, <3>3
  <2>9. NewStrings(name, rpath) = new
    BY <2>3 DEF new
  <2>10. \A i \in 1..Len(name) : new[i] = name[i] /\ name[i] \in Nat \ {0}
    BY <1>2, <2>6
  <2>11. new[Len(name) + 1] = 0
    BY <1>2, <2>6
  <2>12. \A i \in 1..Len(rpath) : new[Len(name) + 1 + i] = rpath[i] /\ rpath[i] \in Nat \ {0}
    <3> SUFFICES ASSUME NEW i \in 1..Len(rpath)
                 PROVE  new[Len(name) + 1 + i] = rpath[i] /\ rpath[i] \in Nat \ {0}
      OBVIOUS
    <3>1. i \in 1..(Len(rpath) + 1)
      BY <2>2
    <3> QED
      BY <2>2, <2>7, <3>1
  <2>13. TheStrings(name, rpath, new)
    BY <1>2, <1>4, <2>2, <2>4, <2>5, <2>8, <2>10, <2>11, <2>12 DEF TheStrings
  <2> QED
    BY <2>9, <2>13
<1> QED
  BY <1>3, <1>4

\* The string table begins at an offset of the file.
LEMMA StringTable ==
  ASSUME NEW img, Executable(img), Accepted(img)
  PROVE  /\ StrtabOffset(img) \in Nat
         /\ Strtab(img) \in Nat
         /\ ValueOf(img, DT_STRSZ) \in Nat
         /\ StringsStart(img) = StrtabOffset(img) + ValueOf(img, DT_STRSZ)
         /\ StringsStart(img) \in Nat
<1>1. Shaped(img) /\ Segments(img, "DYNAMIC") # {} /\ Terminates(img)
  BY DEF Executable, Accepted, Located
<1>2. Strtab(img) \in Nat /\ ValueOf(img, DT_STRSZ) \in Nat
  <2>1. Entries(img, DT_STRTAB) # {} /\ Entries(img, DT_STRSZ) # {}
    BY DEF Accepted, Located
  <2>2. ValueOf(img, DT_STRTAB) \in Nat
    BY <1>1, <2>1, EntriesOf
  <2>3. ValueOf(img, DT_STRSZ) \in Nat
    BY <1>1, <2>1, EntriesOf
  <2> QED
    BY <2>2, <2>3 DEF Strtab
<1> DEFINE w == ValueOf(img, DT_STRTAB)
           m == Min(Loading(img, w))
           h == img.phdrs[m]
<1>3. Loading(img, w) # {} /\ Loading(img, w) \subseteq Nat
  BY DEF Accepted, Located, Loading, Segments
<1>4. m \in Loading(img, w)
  BY <1>3, MinOf
<1>5. StrtabOffset(img) = h.offset + (w - h.vaddr)
  BY DEF StrtabOffset, vaddr_to_file_offset
<1> HIDE DEF m
<1>6. m \in 1..Len(img.phdrs) /\ h.vaddr <= w
  BY <1>4 DEF Loading, Segments
<1>7. h \in [type : {"LOAD", "DYNAMIC"}, offset : Nat, vaddr : Nat, filesz : Nat]
  <2> DEFINE H == [type : {"LOAD", "DYNAMIC"}, offset : Nat, vaddr : Nat, filesz : Nat]
  <2>1. img.phdrs \in Seq(H)
    BY <1>1 DEF Shaped
  <2> HIDE DEF H
  <2>2. img.phdrs[m] \in H
    BY <1>6, <2>1
  <2> QED
    BY <2>2 DEF H
<1>8. h.offset \in Nat /\ h.vaddr \in Nat /\ w \in Nat
  BY <1>2, <1>7 DEF Strtab
<1> HIDE DEF h, w
<1>9. StrtabOffset(img) \in Nat
  BY <1>5, <1>6, <1>8
<1> QED
  BY <1>2, <1>9 DEF StringsStart

\* The slots and the bytes it takes are zero and in the file.
LEMMA RoomIsThere ==
  ASSUME NEW img, NEW name, NEW rpath, Rewritable(img, name, rpath)
  PROVE  /\ EntriesNeeded(rpath) \in {1, 2}
         /\ Terminator(img) + EntriesNeeded(rpath) \in Slots(img)
         /\ \A k \in 1..EntriesNeeded(rpath) : Zero(img, Terminator(img) + k)
         /\ Readable(img, Terminator(img) + EntriesNeeded(rpath))
         /\ StringsStart(img) + Len(NewStrings(name, rpath)) \in PaddingEnds(img)
<1>1. /\ SlotsInSegment(img, rpath)
      /\ \A k \in SpareSlots(img, rpath) : Zero(img, k)
      /\ StringsFree(img, NewStrings(name, rpath))
  BY DEF Rewritable, Status
<1>2. EntriesNeeded(rpath) \in {1, 2}
  BY DEF EntriesNeeded
<1>3. Terminator(img) \in Nat
  BY TheTerminator DEF Rewritable, Executable, Accepted, Located
<1>4. \A k \in 1..EntriesNeeded(rpath) : Zero(img, Terminator(img) + k)
  <2> SUFFICES ASSUME NEW k \in 1..EntriesNeeded(rpath) PROVE Zero(img, Terminator(img) + k)
    OBVIOUS
  <2>1. Terminator(img) + k \in SpareSlots(img, rpath)
    BY <1>2, <1>3 DEF SpareSlots
  <2> QED
    BY <1>1, <2>1
<1>5. Readable(img, Terminator(img) + EntriesNeeded(rpath))
  <2>1. EntriesNeeded(rpath) \in 1..EntriesNeeded(rpath)
    BY <1>2
  <2> QED
    BY <1>4, <2>1 DEF Zero
<1>6. StringsStart(img) + Len(NewStrings(name, rpath)) \in PaddingEnds(img)
  <2> DEFINE n == Len(NewStrings(name, rpath))
             end == StringsStart(img) + n
  <2>1. n \in Nat
    BY NewStringsAre DEF Rewritable, TheStrings
  <2>2. StringsStart(img) \in Nat /\ Len(img.cells) \in Nat
    BY StringTable, CellsAreNumbers DEF Rewritable, Executable
  <2>3. end <= Len(img.cells) /\ \A off \in StringsStart(img)..(end - 1) : Cell(img, off) = 0
    BY <1>1 DEF StringsFree
  <2> HIDE DEF n
  <2>4. end \in StringsStart(img)..Len(img.cells)
    BY <2>1, <2>2, <2>3
  <2>5. end \in PaddingEnds(img)
    BY <2>3, <2>4 DEF PaddingEnds
  <2> QED
    BY <2>5 DEF n
<1> QED
  BY <1>1, <1>2, <1>4, <1>5, <1>6 DEF SlotsInSegment

-----------------------------------------------------------------------------
(***************************************************************************)
(* What rewrite_elf writes, and what it leaves.                            *)
(***************************************************************************)
SizeSlot(img) == Min(Entries(img, DT_STRSZ))

\* The dynamic array begins at o and ends with its slot t, its slot z holds the
\* size of the string table, and of the zero bytes from st on n are taken.
Layout(img, e, o, t, z, st, n) ==
  /\ e \in {1, 2} /\ o \in Nat /\ t \in Nat /\ z \in 0..(t - 1) /\ st \in Nat /\ n \in Nat
  /\ Len(img.cells) \in Nat
  /\ o + 2 * (t + e) + 1 < Len(img.cells)
  /\ st + n <= Len(img.cells)
  /\ \A off \in st..(st + n - 1) : Cell(img, off) = 0
  /\ 0..(t + e) \subseteq Slots(img)
  /\ \A k \in Slots(img) :
       /\ k \in Nat /\ Slot(img, k) = o + 2 * k
       /\ o + 2 * k < st \/ st + n <= o + 2 * k
       /\ o + 2 * k + 1 < st \/ st + n <= o + 2 * k + 1

\* Where rewrite_elf accepts a file, it is laid out so.
LEMMA TheLayout ==
  ASSUME NEW img, NEW name, NEW rpath, Rewritable(img, name, rpath)
  PROVE  Layout(img, EntriesNeeded(rpath), Slot(img, 0), Terminator(img), SizeSlot(img),
                StringsStart(img), Len(NewStrings(name, rpath)))
<1> DEFINE e == EntriesNeeded(rpath)
           o == Slot(img, 0)
           t == Terminator(img)
           z == SizeSlot(img)
           st == StringsStart(img)
           n == Len(NewStrings(name, rpath))
<1>1. /\ Shaped(img) /\ StringsLoaded(img)
      /\ Segments(img, "DYNAMIC") # {} /\ Terminates(img)
      /\ Entries(img, DT_STRSZ) # {}
  BY DEF Rewritable, Executable, Accepted, Located
<1>2. /\ o \in Nat
      /\ \A k \in Nat : Slot(img, k) = o + 2 * k
      /\ Slots(img) \subseteq Nat
      /\ \A k \in Slots(img), j \in Nat : j <= k => j \in Slots(img)
  BY <1>1, SlotOffsets
<1>3. t \in Nat
  BY <1>1, TheTerminator
<1>4. e \in {1, 2} /\ t + e \in Slots(img) /\ Readable(img, t + e) /\ st + n \in PaddingEnds(img)
  BY RoomIsThere
<1>5. z \in 0..(t - 1)
  <2>1. Entries(img, DT_STRSZ) \subseteq 0..(t - 1)
    BY DEF Entries
  <2>2. Min(Entries(img, DT_STRSZ)) \in Entries(img, DT_STRSZ)
    <3>1. Entries(img, DT_STRSZ) \subseteq Nat
      BY <2>1
    <3> QED
      BY <1>1, <3>1, MinOf
  <2> QED
    BY <2>1, <2>2 DEF SizeSlot
<1>6. st \in Nat /\ StrtabOffset(img) \in Nat /\ StrtabOffset(img) <= st
  BY StringTable DEF Rewritable
<1>7. n \in Nat
  BY NewStringsAre DEF Rewritable, TheStrings
<1>8. Len(img.cells) \in Nat
  BY <1>1, CellsAreNumbers
<1> HIDE DEF e, o, t, z, st, n
<1> DEFINE end == st + n
<1> HIDE DEF end
<1>13. end \in PaddingEnds(img)
  BY <1>4 DEF end
<1>14. \A k \in Slots(img) : {Slot(img, k), Slot(img, k) + 1} \cap (StrtabOffset(img)..(end - 1)) = {}
  BY <1>1, <1>13, Zenon DEF StringsLoaded
<1>9. o + 2 * (t + e) + 1 < Len(img.cells)
  <2>1. Slot(img, t + e) = o + 2 * (t + e)
    BY <1>2, <1>3, <1>4
  <2> QED
    BY <1>4, <2>1 DEF Readable, InFile
<1>10. st + n <= Len(img.cells) /\ \A off \in st..(st + n - 1) : Cell(img, off) = 0
  <2>1. end \in st..Len(img.cells) /\ \A off \in st..(end - 1) : Cell(img, off) = 0
    BY <1>13, Zenon DEF PaddingEnds, st
  <2> QED
    BY <1>6, <1>7, <1>8, <2>1 DEF end
<1>15. 0..(t + e) \subseteq Slots(img)
  <2> SUFFICES ASSUME NEW k \in 0..(t + e) PROVE k \in Slots(img)
    OBVIOUS
  <2>1. k \in Nat /\ k <= t + e
    BY <1>3, <1>4
  <2> QED
    BY <1>2, <1>4, <2>1
<1>11. ASSUME NEW k \in Slots(img)
       PROVE  /\ k \in Nat /\ Slot(img, k) = o + 2 * k
              /\ o + 2 * k < st \/ st + n <= o + 2 * k
              /\ o + 2 * k + 1 < st \/ st + n <= o + 2 * k + 1
  <2>2. k \in Nat /\ Slot(img, k) = o + 2 * k
    BY <1>2
  <2>3. {Slot(img, k), Slot(img, k) + 1} \cap (StrtabOffset(img)..(end - 1)) = {}
    BY <1>14
  <2>4. /\ ~ (StrtabOffset(img) <= o + 2 * k /\ o + 2 * k <= end - 1)
        /\ ~ (StrtabOffset(img) <= o + 2 * k + 1 /\ o + 2 * k + 1 <= end - 1)
    BY <1>2, <1>6, <1>7, <2>2, <2>3 DEF end
  <2> QED
    BY <1>2, <1>6, <1>7, <2>2, <2>4 DEF end
<1> HIDE DEF e, o, t, z, st, n
<1>12. Layout(img, e, o, t, z, st, n)
  BY <1>2, <1>3, <1>4, <1>5, <1>6, <1>7, <1>8, <1>9, <1>10, <1>11, <1>15 DEF Layout
<1> QED
  BY <1>12 DEF e, o, t, z, st, n

\* The value that is written to an offset.
LEMMA Written ==
  ASSUME NEW W, NEW p, NEW v, <<p, v>> \in W, \A w \in W : w[1] = p => w[2] = v
  PROVE  /\ \E w \in W : w[1] = p
         /\ (CHOOSE w \in W : w[1] = p)[2] = v
<1>1. <<p, v>>[1] = p
  OBVIOUS
<1>2. \E w \in W : w[1] = p
  BY <1>1
<1>3. (CHOOSE w \in W : w[1] = p) \in W /\ (CHOOSE w \in W : w[1] = p)[1] = p
  BY <1>2
<1> QED
  BY <1>2, <1>3

\* What is written where; every other cell stays.
Patched(out, img, rpath, len, size, new, o, t, z, st) ==
  /\ out.phdrs = img.phdrs /\ out.elf = img.elf /\ out.headers = img.headers /\ out.free = img.free
  /\ out.cells \in Seq(Nat) /\ Len(out.cells) = Len(img.cells)
  /\ Cell(out, o + 2 * t) = DT_NEEDED
  /\ Cell(out, o + 2 * t + 1) = size
  /\ rpath # NoName => /\ Cell(out, o + 2 * t + 2) = DT_RUNPATH
                       /\ Cell(out, o + 2 * t + 3) = size + len + 1
  /\ Cell(out, o + 2 * z + 1) = size + Len(new)
  /\ \A i \in 1..Len(new) : Cell(out, st + i - 1) = new[i]
  /\ \A off \in 0..(Len(img.cells) - 1) :
       \/ Cell(out, off) = Cell(img, off)
       \/ off \in {o + 2 * t, o + 2 * t + 1, o + 2 * z + 1}
       \/ rpath # NoName /\ off \in {o + 2 * t + 2, o + 2 * t + 3}
       \/ off \in st..(st + Len(new) - 1)

\* rewrite_elf writes those cells and no other.
LEMMA RewriteWrites ==
  ASSUME NEW img, NEW name, NEW rpath, Rewritable(img, name, rpath)
  PROVE  Patched(rewrite_elf(img, name, rpath), img, rpath, Len(name), ValueOf(img, DT_STRSZ),
                 NewStrings(name, rpath), Slot(img, 0), Terminator(img), SizeSlot(img),
                 StringsStart(img))
<1> DEFINE out == rewrite_elf(img, name, rpath)
           new == NewStrings(name, rpath)
           size == ValueOf(img, DT_STRSZ)
           e == EntriesNeeded(rpath)
           o == Slot(img, 0)
           t == Terminator(img)
           z == SizeSlot(img)
           st == StringsStart(img)
           W == DynWrites(img, name, rpath)
           L == Len(img.cells)
           F == [i \in 1..L |->
                   IF \E w \in W : w[1] = i - 1 THEN (CHOOSE w \in W : w[1] = i - 1)[2]
                   ELSE IF i - 1 \in st..(st + Len(new) - 1) THEN new[i - st]
                   ELSE img.cells[i]]
<1>1. Layout(img, e, o, t, z, st, Len(new))
  BY TheLayout
<1>2. new \in Seq(Nat) /\ Len(name) \in Nat
  BY NewStringsAre DEF Rewritable, TheStrings
<1>3. size \in Nat /\ img.cells \in Seq(Nat)
  BY StringTable DEF Rewritable, Executable, Shaped
<1>4. /\ out.phdrs = img.phdrs /\ out.elf = img.elf /\ out.headers = img.headers /\ out.free = img.free
      /\ out.cells = F
  BY DEF rewrite_elf
<1>5. W = {<<Slot(img, t), DT_NEEDED>>, <<Slot(img, t) + 1, size>>}
            \cup (IF rpath = NoName THEN {}
                  ELSE {<<Slot(img, t + 1), DT_RUNPATH>>,
                        <<Slot(img, t + 1) + 1, size + Len(name) + 1>>})
            \cup {<<Slot(img, z) + 1, size + Len(new)>>}
  BY DEF DynWrites, NewEntries, SizeSlot
<1>6. rpath # NoName => e = 2
  BY DEF EntriesNeeded
<1> HIDE DEF out, new, size, e, o, t, z, st, W, L
<1>7. /\ o \in Nat /\ t \in Nat /\ z \in 0..(t - 1) /\ st \in Nat /\ Len(new) \in Nat /\ L \in Nat
      /\ e \in {1, 2}
      /\ o + 2 * (t + e) + 1 < L /\ st + Len(new) <= L
  BY <1>1 DEF Layout, L
<1>8. ASSUME NEW k \in 0..(t + e)
      PROVE  /\ Slot(img, k) = o + 2 * k
             /\ o + 2 * k < st \/ st + Len(new) <= o + 2 * k
             /\ o + 2 * k + 1 < st \/ st + Len(new) <= o + 2 * k + 1
  <2>1. k \in Slots(img)
    BY <1>1 DEF Layout
  <2> QED
    BY <1>1, <2>1 DEF Layout
<1>9. /\ Slot(img, t) = o + 2 * t /\ Slot(img, z) = o + 2 * z
      /\ rpath # NoName => Slot(img, t + 1) = o + 2 * t + 2
  <2>1. t \in 0..(t + e) /\ z \in 0..(t + e)
    BY <1>7
  <2>2. rpath # NoName => t + 1 \in 0..(t + e) /\ 2 * (t + 1) = 2 * t + 2
    BY <1>6, <1>7
  <2>3. rpath # NoName => Slot(img, t + 1) = o + 2 * (t + 1) /\ o + 2 * (t + 1) = o + 2 * t + 2
    BY <1>7, <1>8, <2>2
  <2> QED
    BY <1>8, <2>1, <2>3
<1>10. W = {<<o + 2 * t, DT_NEEDED>>, <<o + 2 * t + 1, size>>}
             \cup (IF rpath = NoName THEN {}
                   ELSE {<<o + 2 * t + 2, DT_RUNPATH>>, <<o + 2 * t + 3, size + Len(name) + 1>>})
             \cup {<<o + 2 * z + 1, size + Len(new)>>}
  <2>1. rpath # NoName => Slot(img, t + 1) + 1 = o + 2 * t + 3
    BY <1>7, <1>9
  <2> QED
    BY <1>5, <1>9, <2>1
<1>11. ASSUME NEW w \in W
       PROVE  \/ w[1] = o + 2 * t /\ w[2] = DT_NEEDED
              \/ w[1] = o + 2 * t + 1 /\ w[2] = size
              \/ rpath # NoName /\ w[1] = o + 2 * t + 2 /\ w[2] = DT_RUNPATH
              \/ rpath # NoName /\ w[1] = o + 2 * t + 3 /\ w[2] = size + Len(name) + 1
              \/ w[1] = o + 2 * z + 1 /\ w[2] = size + Len(new)
  BY <1>10
<1>12. ASSUME NEW off \in 0..(L - 1)
       PROVE  Cell(out, off) = F[off + 1] /\ off + 1 \in 1..L /\ (off + 1) - 1 = off
  BY <1>4, <1>7 DEF Cell
<1>13. ASSUME NEW off \in 0..(L - 1), NEW v, <<off, v>> \in W, \A w \in W : w[1] = off => w[2] = v
       PROVE  Cell(out, off) = v
  <2>1. /\ \E w \in W : w[1] = off
        /\ (CHOOSE w \in W : w[1] = off)[2] = v
    BY <1>13, Written
  <2>2. F[off + 1] = (CHOOSE w \in W : w[1] = off)[2]
    BY <1>12, <2>1
  <2> QED
    BY <1>12, <2>1, <2>2
<1>14. ASSUME NEW off \in 0..(L - 1), \A w \in W : w[1] # off
       PROVE  /\ off \in st..(st + Len(new) - 1) => Cell(out, off) = new[(off + 1) - st]
              /\ off \notin st..(st + Len(new) - 1) => Cell(out, off) = Cell(img, off)
  <2> DEFINE j == off + 1
  <2>0. j \in 1..L /\ j - 1 = off
    BY <1>12
  <2> HIDE DEF j
  <2>1. F[j] = IF off \in st..(st + Len(new) - 1) THEN new[j - st] ELSE img.cells[j]
    BY <1>14, <2>0
  <2> QED
    <3> HIDE DEF F
    <3>1. Cell(out, off) = F[j] /\ Cell(img, off) = img.cells[j]
      BY <1>12 DEF Cell, j
    <3>2. new[(off + 1) - st] = new[j - st]
      BY DEF j
    <3> QED
      BY <2>1, <3>1, <3>2
<1> HIDE DEF F
<1>15. Cell(out, o + 2 * t) = DT_NEEDED
  <2>1. o + 2 * t \in 0..(L - 1)
    BY <1>7
  <2>2. <<o + 2 * t, DT_NEEDED>> \in W /\ \A w \in W : w[1] = o + 2 * t => w[2] = DT_NEEDED
    BY <1>7, <1>10, <1>11
  <2> QED
    BY <1>13, <2>1, <2>2
<1>16. Cell(out, o + 2 * t + 1) = size
  <2>1. o + 2 * t + 1 \in 0..(L - 1)
    BY <1>7
  <2>2. <<o + 2 * t + 1, size>> \in W /\ \A w \in W : w[1] = o + 2 * t + 1 => w[2] = size
    BY <1>7, <1>10, <1>11
  <2> QED
    BY <1>13, <2>1, <2>2
<1>17. ASSUME rpath # NoName
       PROVE  Cell(out, o + 2 * t + 2) = DT_RUNPATH /\ Cell(out, o + 2 * t + 3) = size + Len(name) + 1
  <2>1. o + 2 * t + 2 \in 0..(L - 1) /\ o + 2 * t + 3 \in 0..(L - 1)
    BY <1>6, <1>7, <1>17
  <2>2. <<o + 2 * t + 2, DT_RUNPATH>> \in W /\ \A w \in W : w[1] = o + 2 * t + 2 => w[2] = DT_RUNPATH
    BY <1>7, <1>10, <1>11, <1>17
  <2>3. /\ <<o + 2 * t + 3, size + Len(name) + 1>> \in W
        /\ \A w \in W : w[1] = o + 2 * t + 3 => w[2] = size + Len(name) + 1
    BY <1>7, <1>10, <1>11, <1>17
  <2> QED
    BY <1>13, <2>1, <2>2, <2>3
<1>18. Cell(out, o + 2 * z + 1) = size + Len(new)
  <2>1. o + 2 * z + 1 \in 0..(L - 1)
    BY <1>7
  <2>2. <<o + 2 * z + 1, size + Len(new)>> \in W /\ \A w \in W : w[1] = o + 2 * z + 1 => w[2] = size + Len(new)
    BY <1>7, <1>10, <1>11
  <2> QED
    BY <1>13, <2>1, <2>2
<1>19. ASSUME NEW off \in st..(st + Len(new) - 1)
       PROVE  \A w \in W : w[1] # off
  <2>1. t \in 0..(t + e) /\ z \in 0..(t + e)
    BY <1>7
  <2>4. /\ o + 2 * t < st \/ st + Len(new) <= o + 2 * t
        /\ o + 2 * t + 1 < st \/ st + Len(new) <= o + 2 * t + 1
        /\ o + 2 * z + 1 < st \/ st + Len(new) <= o + 2 * z + 1
    BY <1>8, <2>1
  <2>5. off \in Nat /\ st <= off /\ off < st + Len(new)
    BY <1>7
  <2>2. off # o + 2 * t /\ off # o + 2 * t + 1 /\ off # o + 2 * z + 1
    BY <1>7, <2>4, <2>5
  <2>3. rpath # NoName => off # o + 2 * t + 2 /\ off # o + 2 * t + 3
    <3>1. ASSUME rpath # NoName PROVE t + 1 \in 0..(t + e)
      BY <1>6, <1>7, <3>1
    <3>2. ASSUME rpath # NoName
          PROVE  /\ o + 2 * (t + 1) < st \/ st + Len(new) <= o + 2 * (t + 1)
                 /\ o + 2 * (t + 1) + 1 < st \/ st + Len(new) <= o + 2 * (t + 1) + 1
      BY <1>8, <3>1, <3>2
    <3> QED
      BY <1>7, <2>5, <3>2
  <2> QED
    BY <1>11, <2>2, <2>3
<1>20. ASSUME NEW i \in 1..Len(new) PROVE Cell(out, st + i - 1) = new[i]
  <2> DEFINE j == st + i - 1
  <2>1. j \in st..(st + Len(new) - 1) /\ j \in 0..(L - 1) /\ (j + 1) - st = i
    BY <1>7
  <2> HIDE DEF j
  <2>2. Cell(out, j) = new[(j + 1) - st]
    BY <1>14, <1>19, <2>1
  <2> QED
    BY <2>1, <2>2 DEF j
<1>21. ASSUME NEW off \in 0..(L - 1)
       PROVE  \/ Cell(out, off) = Cell(img, off)
              \/ off \in {o + 2 * t, o + 2 * t + 1, o + 2 * z + 1}
              \/ rpath # NoName /\ off \in {o + 2 * t + 2, o + 2 * t + 3}
              \/ off \in st..(st + Len(new) - 1)
  <2>1. CASE \A w \in W : w[1] # off
    BY <1>14, <2>1
  <2>2. CASE \E w \in W : w[1] = off
    BY <1>11, <2>2
  <2> QED
    BY <2>1, <2>2
<1>22. out.cells \in Seq(Nat) /\ Len(out.cells) = L
  <2>1. ASSUME NEW off \in 0..(L - 1) PROVE Cell(out, off) \in Nat
    <3>1. CASE off \in st..(st + Len(new) - 1)
      <4> DEFINE j == (off + 1) - st
      <4>1. Cell(out, off) = new[j]
        BY <1>14, <1>19, <3>1
      <4>2. j \in 1..Len(new)
        BY <1>7, <3>1
      <4> HIDE DEF j
      <4>3. new[j] \in Nat
        BY <1>2, <4>2
      <4> QED
        BY <4>1, <4>3
    <3>2. CASE Cell(out, off) = Cell(img, off)
      <4>1. off + 1 \in 1..L
        BY <1>7
      <4> QED
        BY <1>3, <3>2, <4>1 DEF Cell, L
    <3>3. CASE off \in {o + 2 * t, o + 2 * t + 1, o + 2 * z + 1}
      <4>1. size + Len(new) \in Nat /\ DT_NEEDED \in Nat
        BY <1>3, <1>7 DEF DT_NEEDED
      <4>2. Cell(out, off) \in {DT_NEEDED, size, size + Len(new)}
        BY <1>15, <1>16, <1>18, <3>3
      <4> QED
        BY <1>3, <4>1, <4>2
    <3>4. CASE rpath # NoName /\ off \in {o + 2 * t + 2, o + 2 * t + 3}
      BY <1>2, <1>3, <1>17, <3>4 DEF DT_RUNPATH
    <3> QED
      BY <1>21, <3>1, <3>2, <3>3, <3>4
  <2>2. \A i \in 1..L : F[i] \in Nat
    <3> SUFFICES ASSUME NEW i \in 1..L PROVE F[i] \in Nat
      OBVIOUS
    <3>1. i - 1 \in 0..(L - 1) /\ (i - 1) + 1 = i
      BY <1>7
    <3> QED
      BY <1>12, <2>1, <3>1
  <2>3. F = [i \in 1..L |-> F[i]]
    BY DEF F
  <2>4. F \in Seq(Nat)
    <3>1. F \in [1..L -> Nat]
      BY <2>2, <2>3
    <3> QED
      BY <1>7, <3>1, SeqDef
  <2>5. DOMAIN F = 1..L
    BY <2>3
  <2>6. Len(F) = L
    BY <1>7, <2>4, <2>5
  <2> QED
    BY <1>4, <2>4, <2>6
<1>23. Patched(out, img, rpath, Len(name), size, new, o, t, z, st)
  <2>1. \A off \in 0..(Len(img.cells) - 1) :
          \/ Cell(out, off) = Cell(img, off)
          \/ off \in {o + 2 * t, o + 2 * t + 1, o + 2 * z + 1}
          \/ rpath # NoName /\ off \in {o + 2 * t + 2, o + 2 * t + 3}
          \/ off \in st..(st + Len(new) - 1)
    BY <1>21 DEF L
  <2>2. Len(out.cells) = Len(img.cells)
    BY <1>22 DEF L
  <2> QED
    BY <1>4, <1>15, <1>16, <1>17, <1>18, <1>20, <1>22, <2>1, <2>2 DEF Patched
<1> QED
  BY <1>23 DEF out, new, size, o, t, z, st

\* The new dynamic array: the entries of the old one, the size of the string
\* table, the new entries, a terminator; the slots after that as they were.
NewArray(out, img, rpath, len, size, n, e, t, z) ==
  /\ Shaped(out)
  /\ out.phdrs = img.phdrs /\ out.elf = img.elf /\ out.headers = img.headers /\ out.free = img.free
  /\ Len(out.cells) = Len(img.cells)
  /\ Slots(out) = Slots(img)
  /\ \A k : Slot(out, k) = Slot(img, k) /\ Readable(out, k) = Readable(img, k)
  /\ e \in {1, 2} /\ t \in Nat /\ z \in 0..(t - 1)
  /\ \A k \in 0..(t - 1) : Tag(out, k) = Tag(img, k) /\ (k # z => Val(out, k) = Val(img, k))
  /\ Val(out, z) = size + n
  /\ Tag(out, t) = DT_NEEDED /\ Val(out, t) = size
  /\ e = 2 => Tag(out, t + 1) = DT_RUNPATH /\ Val(out, t + 1) = size + len + 1
  /\ Tag(out, t + e) = 0
  /\ \A k \in Slots(img) :
       k >= t + e /\ Readable(img, k) => Tag(out, k) = Tag(img, k) /\ Val(out, k) = Val(img, k)
  /\ Terminates(out) /\ Terminator(out) = t + e

\* It leaves such a dynamic array.
LEMMA TheNewArray ==
  ASSUME NEW img, NEW name, NEW rpath, Rewritable(img, name, rpath)
  PROVE  NewArray(rewrite_elf(img, name, rpath), img, rpath, Len(name), ValueOf(img, DT_STRSZ),
                  Len(NewStrings(name, rpath)), EntriesNeeded(rpath), Terminator(img),
                  SizeSlot(img))
<1> DEFINE out == rewrite_elf(img, name, rpath)
           new == NewStrings(name, rpath)
           len == Len(name)
           size == ValueOf(img, DT_STRSZ)
           e == EntriesNeeded(rpath)
           o == Slot(img, 0)
           t == Terminator(img)
           z == SizeSlot(img)
           st == StringsStart(img)
           n == Len(new)
           L == Len(img.cells)
<1>1. Layout(img, e, o, t, z, st, n)
  BY TheLayout
<1>2. Patched(out, img, rpath, len, size, new, o, t, z, st)
  BY RewriteWrites
<1>3. (rpath # NoName) <=> (e = 2)
  BY DEF EntriesNeeded
<1>4. /\ Shaped(img) /\ Segments(img, "DYNAMIC") # {} /\ Terminates(img)
      /\ \A k \in 1..e : Zero(img, t + k)
  BY RoomIsThere DEF Rewritable, Executable, Accepted, Located
<1>5. \A k \in 0..(t - 1) : Readable(img, k) /\ Tag(img, k) # DT_NULL
  BY <1>4, TheTerminator
<1> HIDE DEF out, new, len, size, e, o, t, z, st, n, L
<1>6. /\ o \in Nat /\ t \in Nat /\ z \in 0..(t - 1) /\ st \in Nat /\ n \in Nat /\ L \in Nat
      /\ e \in {1, 2}
      /\ o + 2 * (t + e) + 1 < L /\ st + n <= L
  BY <1>1 DEF Layout, L
<1>7. ASSUME NEW k \in Slots(img)
      PROVE  /\ k \in Nat /\ Slot(img, k) = o + 2 * k
             /\ o + 2 * k < st \/ st + n <= o + 2 * k
             /\ o + 2 * k + 1 < st \/ st + n <= o + 2 * k + 1
  BY <1>1 DEF Layout
<1>8. 0..(t + e) \subseteq Slots(img)
  BY <1>1 DEF Layout
<1>9. /\ out.phdrs = img.phdrs /\ out.elf = img.elf /\ out.headers = img.headers /\ out.free = img.free
      /\ out.cells \in Seq(Nat) /\ Len(out.cells) = Len(img.cells)
  BY <1>2 DEF Patched
<1>10. \A k : Slot(out, k) = Slot(img, k)
  BY <1>9 DEF Slot, DynSeg, Segments
<1>11. Slots(out) = Slots(img)
  BY <1>9 DEF Slots, DynSeg, Segments
<1>12. \A k : Readable(out, k) = Readable(img, k)
  BY <1>9, <1>10 DEF Readable, InFile
<1>13. ASSUME NEW off \in 0..(L - 1),
              off < st \/ st + n <= off,
              off # o + 2 * t, off # o + 2 * t + 1, off # o + 2 * z + 1,
              e = 2 => off # o + 2 * t + 2 /\ off # o + 2 * t + 3
       PROVE  Cell(out, off) = Cell(img, off)
  <2>1. \/ Cell(out, off) = Cell(img, off)
        \/ off \in {o + 2 * t, o + 2 * t + 1, o + 2 * z + 1}
        \/ rpath # NoName /\ off \in {o + 2 * t + 2, o + 2 * t + 3}
        \/ off \in st..(st + Len(new) - 1)
    BY <1>2 DEF Patched, L
  <2>2. off \notin st..(st + Len(new) - 1)
    BY <1>6, <1>13 DEF n
  <2> QED
    BY <1>3, <1>13, <2>1, <2>2
<1>14. ASSUME NEW k \in Slots(img), Readable(img, k)
       PROVE  o + 2 * k \in 0..(L - 1) /\ o + 2 * k + 1 \in 0..(L - 1)
  <2>1. o + 2 * k + 1 < L
    BY <1>7, <1>14 DEF Readable, InFile, L
  <2> QED
    BY <1>6, <1>7, <2>1
<1>15. ASSUME NEW k \in Slots(img), Readable(img, k), k < t \/ t + e <= k
       PROVE  Tag(out, k) = Tag(img, k) /\ (k # z => Val(out, k) = Val(img, k))
  <2>0. k \in Nat /\ Slot(img, k) = o + 2 * k /\ Slot(out, k) = o + 2 * k
    BY <1>7, <1>10
  <2>1. Cell(out, o + 2 * k) = Cell(img, o + 2 * k)
    <3>1. /\ o + 2 * k # o + 2 * t /\ o + 2 * k # o + 2 * t + 1 /\ o + 2 * k # o + 2 * z + 1
          /\ e = 2 => o + 2 * k # o + 2 * t + 2 /\ o + 2 * k # o + 2 * t + 3
      BY <1>6, <1>15, <2>0
    <3> QED
      BY <1>7, <1>13, <1>14, <1>15, <3>1
  <2>2. ASSUME k # z PROVE Cell(out, o + 2 * k + 1) = Cell(img, o + 2 * k + 1)
    <3>1. /\ o + 2 * k + 1 # o + 2 * t /\ o + 2 * k + 1 # o + 2 * t + 1
          /\ o + 2 * k + 1 # o + 2 * z + 1
          /\ e = 2 => o + 2 * k + 1 # o + 2 * t + 2 /\ o + 2 * k + 1 # o + 2 * t + 3
      BY <1>6, <1>15, <2>0, <2>2
    <3> QED
      BY <1>7, <1>13, <1>14, <1>15, <3>1
  <2> QED
    BY <2>0, <2>1, <2>2 DEF Tag, Val
<1>16. Shaped(out)
  BY <1>4, <1>9 DEF Shaped
<1>17. \A k \in 0..(t - 1) : Tag(out, k) = Tag(img, k) /\ (k # z => Val(out, k) = Val(img, k))
  <2> SUFFICES ASSUME NEW k \in 0..(t - 1)
               PROVE  Tag(out, k) = Tag(img, k) /\ (k # z => Val(out, k) = Val(img, k))
    OBVIOUS
  <2>1. k \in 0..(t + e) /\ k < t
    BY <1>6
  <2> QED
    BY <1>5, <1>8, <1>15, <2>1
<1>18. \A k \in Slots(img) :
         k >= t + e /\ Readable(img, k) => Tag(out, k) = Tag(img, k) /\ Val(out, k) = Val(img, k)
  <2> SUFFICES ASSUME NEW k \in Slots(img), k >= t + e, Readable(img, k)
               PROVE  Tag(out, k) = Tag(img, k) /\ Val(out, k) = Val(img, k)
    OBVIOUS
  <2>1. t + e <= k /\ k # z
    BY <1>6, <1>7
  <2> QED
    BY <1>15, <2>1
<1>19. \A k \in 0..(t + e) : Slot(out, k) = o + 2 * k
  BY <1>7, <1>8, <1>10
<1>20. Val(out, z) = size + n
  <2>1. z \in 0..(t + e)
    BY <1>6
  <2> QED
    BY <1>2, <1>19, <2>1 DEF Patched, Val, n
<1>21. Tag(out, t) = DT_NEEDED /\ Val(out, t) = size
  <2>1. t \in 0..(t + e)
    BY <1>6
  <2> QED
    BY <1>2, <1>19, <2>1 DEF Patched, Tag, Val
<1>22. e = 2 => Tag(out, t + 1) = DT_RUNPATH /\ Val(out, t + 1) = size + len + 1
  <2> SUFFICES ASSUME e = 2 PROVE Tag(out, t + 1) = DT_RUNPATH /\ Val(out, t + 1) = size + len + 1
    OBVIOUS
  <2>1. t + 1 \in 0..(t + e)
    BY <1>6
  <2>2. Slot(out, t + 1) = o + 2 * t + 2 /\ Slot(out, t + 1) + 1 = o + 2 * t + 3
    BY <1>6, <1>19, <2>1
  <2>3. Cell(out, o + 2 * t + 2) = DT_RUNPATH /\ Cell(out, o + 2 * t + 3) = size + len + 1
    BY <1>2, <1>3 DEF Patched
  <2> QED
    BY <2>2, <2>3 DEF Tag, Val
<1>23. Readable(out, t + e) /\ Tag(out, t + e) = 0
  <2>1. e \in 1..e
    BY <1>6
  <2>2. Zero(img, t + e)
    BY <1>4, <2>1
  <2>3. t + e \in Slots(img) /\ t + e >= t + e
    BY <1>6, <1>8
  <2> QED
    BY <1>12, <1>18, <2>2, <2>3 DEF Zero
<1>24. Terminates(out) /\ Terminator(out) = t + e
  <2> DEFINE K == {k \in Slots(out) : Readable(out, k) /\ Tag(out, k) = DT_NULL}
  <2>1. K \subseteq Nat
    BY <1>7, <1>11
  <2>2. t + e \in K
    <3>1. t + e \in Slots(out)
      BY <1>6, <1>8, <1>11
    <3> QED
      BY <1>23, <3>1 DEF DT_NULL
  <2>3. ASSUME NEW k \in K, ~ (t + e <= k) PROVE FALSE
    <3>1. k \in Nat /\ k < t + e
      BY <1>6, <2>1, <2>3
    <3>2. CASE k < t
      <4>1. k \in 0..(t - 1)
        BY <1>6, <3>1, <3>2
      <4> QED
        BY <1>5, <1>17, <4>1
    <3>3. CASE k = t
      BY <1>21, <3>3 DEF DT_NEEDED, DT_NULL
    <3>4. CASE k > t
      <4>1. e = 2 /\ k = t + 1
        BY <1>6, <3>1, <3>4
      <4> QED
        BY <1>22, <4>1 DEF DT_RUNPATH, DT_NULL
    <3> QED
      BY <1>6, <3>1, <3>2, <3>3, <3>4
  <2>4. Min(K) = t + e
    <3>1. \A k \in K : t + e <= k
      BY <2>3
    <3> HIDE DEF K
    <3> QED
      BY <2>1, <2>2, <3>1, MinIs
  <2> QED
    BY <2>2, <2>4 DEF Terminates, Terminator
<1>25. NewArray(out, img, rpath, len, size, n, e, t, z)
  BY <1>6, <1>9, <1>10, <1>11, <1>12, <1>16, <1>17, <1>18, <1>20, <1>21, <1>22, <1>23, <1>24
     DEF NewArray
<1> QED
  BY <1>25 DEF out, len, size, n, e, t, z, new

\* The entries of each kind in it.
LEMMA NewEntriesAre ==
  ASSUME NEW img, NEW name, NEW rpath, Rewritable(img, name, rpath),
         NEW out, out = rewrite_elf(img, name, rpath)
  PROVE  /\ Entries(out, DT_STRTAB) = Entries(img, DT_STRTAB)
         /\ Entries(out, DT_STRSZ) = Entries(img, DT_STRSZ)
         /\ Entries(out, DT_NEEDED) = Entries(img, DT_NEEDED) \cup {Terminator(img)}
         /\ Entries(out, DT_RUNPATH) = Entries(img, DT_RUNPATH)
              \cup (IF rpath = NoName THEN {} ELSE {Terminator(img) + 1})
         /\ ValueOf(out, DT_STRTAB) = ValueOf(img, DT_STRTAB)
         /\ ValueOf(out, DT_STRSZ) = ValueOf(img, DT_STRSZ) + Len(NewStrings(name, rpath))
<1> DEFINE len == Len(name)
           size == ValueOf(img, DT_STRSZ)
           n == Len(NewStrings(name, rpath))
           e == EntriesNeeded(rpath)
           t == Terminator(img)
           z == SizeSlot(img)
<1>1. NewArray(out, img, rpath, len, size, n, e, t, z)
  BY TheNewArray
<1>2. (rpath # NoName) <=> (e = 2)
  BY DEF EntriesNeeded
<1>3. /\ Shaped(img) /\ Segments(img, "DYNAMIC") # {} /\ Terminates(img)
      /\ Entries(img, DT_STRTAB) # {} /\ Entries(img, DT_STRSZ) # {}
      /\ \A j, k \in Entries(img, DT_STRSZ) : j = k
  BY DEF Rewritable, Executable, Accepted, Located, EntriesFit
<1> HIDE DEF len, size, n, e, t, z
<1>4. /\ e \in {1, 2} /\ t \in Nat /\ z \in 0..(t - 1)
      /\ \A k \in 0..(t - 1) : Tag(out, k) = Tag(img, k) /\ (k # z => Val(out, k) = Val(img, k))
      /\ Val(out, z) = size + n
      /\ Tag(out, t) = DT_NEEDED
      /\ e = 2 => Tag(out, t + 1) = DT_RUNPATH
      /\ Terminator(out) = t + e
  BY <1>1 DEF NewArray
<1>5. \A tag : Entries(out, tag) =
        Entries(img, tag) \cup (IF tag = DT_NEEDED THEN {t} ELSE {})
          \cup (IF e = 2 /\ tag = DT_RUNPATH THEN {t + 1} ELSE {})
  <2> SUFFICES ASSUME NEW tag, NEW k
               PROVE  k \in Entries(out, tag) <=>
                        \/ k \in Entries(img, tag)
                        \/ tag = DT_NEEDED /\ k = t
                        \/ e = 2 /\ tag = DT_RUNPATH /\ k = t + 1
    OBVIOUS
  <2>1. k \in Entries(out, tag) <=> k \in 0..(t + e - 1) /\ Tag(out, k) = tag
    BY <1>4 DEF Entries
  <2>2. k \in Entries(img, tag) <=> k \in 0..(t - 1) /\ Tag(img, k) = tag
    BY DEF Entries, t
  <2>3. k \in 0..(t + e - 1) <=> k \in 0..(t - 1) \/ k = t \/ (e = 2 /\ k = t + 1)
    BY <1>4
  <2>4. t \notin 0..(t - 1) /\ t + 1 \notin 0..(t - 1) /\ t # t + 1
    BY <1>4
  <2> QED
    BY <1>4, <2>1, <2>2, <2>3, <2>4
<1>6. /\ Entries(out, DT_STRTAB) = Entries(img, DT_STRTAB)
      /\ Entries(out, DT_STRSZ) = Entries(img, DT_STRSZ)
      /\ Entries(out, DT_NEEDED) = Entries(img, DT_NEEDED) \cup {t}
      /\ Entries(out, DT_RUNPATH) = Entries(img, DT_RUNPATH)
           \cup (IF rpath = NoName THEN {} ELSE {t + 1})
  <2>1. /\ DT_STRTAB # DT_NEEDED /\ DT_STRTAB # DT_RUNPATH
        /\ DT_STRSZ # DT_NEEDED /\ DT_STRSZ # DT_RUNPATH /\ DT_NEEDED # DT_RUNPATH
    BY DEF DT_STRTAB, DT_STRSZ, DT_NEEDED, DT_RUNPATH
  <2>2. Entries(out, DT_STRTAB) = Entries(img, DT_STRTAB)
    BY <1>5, <2>1
  <2>3. Entries(out, DT_STRSZ) = Entries(img, DT_STRSZ)
    BY <1>5, <2>1
  <2>4. Entries(out, DT_NEEDED) = Entries(img, DT_NEEDED) \cup {t}
    BY <1>5, <2>1
  <2>5. Entries(out, DT_RUNPATH) = Entries(img, DT_RUNPATH)
          \cup (IF rpath = NoName THEN {} ELSE {t + 1})
    BY <1>2, <1>5, <2>1
  <2> QED
    BY <2>2, <2>3, <2>4, <2>5
<1>7. z \in Entries(img, DT_STRSZ) /\ Tag(img, z) = DT_STRSZ
  <2>1. Entries(img, DT_STRSZ) \subseteq Nat
    BY DEF Entries
  <2>2. Min(Entries(img, DT_STRSZ)) \in Entries(img, DT_STRSZ)
    BY <1>3, <2>1, MinOf
  <2> QED
    BY <2>2 DEF Entries, SizeSlot, z
<1>8. ValueOf(out, DT_STRTAB) = ValueOf(img, DT_STRTAB)
  <2> DEFINE m == Max(Entries(img, DT_STRTAB))
  <2>1. m \in Entries(img, DT_STRTAB)
    BY <1>3, EntriesOf
  <2>2. m \in 0..(t - 1) /\ Tag(img, m) = DT_STRTAB
    BY <2>1 DEF Entries, t
  <2>3. m # z
    BY <1>7, <2>2 DEF DT_STRTAB, DT_STRSZ
  <2>4. Val(out, m) = Val(img, m)
    BY <1>4, <2>2, <2>3
  <2> QED
    BY <1>6, <2>4 DEF ValueOf
<1>9. ValueOf(out, DT_STRSZ) = size + n
  <2>1. Max(Entries(img, DT_STRSZ)) = z
    BY <1>3, <1>7, EntriesOf
  <2> QED
    BY <1>4, <1>6, <2>1 DEF ValueOf
<1> QED
  BY <1>6, <1>8, <1>9 DEF t, size, n

-----------------------------------------------------------------------------
(***************************************************************************)
(* The string table that the dynamic linker reads.                         *)
(***************************************************************************)

\* The first size bytes of the string table are loaded, from the offset so on.
Table(img, so, size) ==
  /\ so \in Nat /\ size \in Nat
  /\ ValueOf(img, DT_STRSZ) = size
  /\ Strtab(img) \in Nat
  /\ \A e \in 0..(size - 1) :
       /\ Loading(img, Strtab(img) + e) # {}
       /\ vaddr_to_file_offset(img, Strtab(img) + e) = so + e

\* The string at an offset ends at the first zero.
LEMMA TheStringAt ==
  ASSUME NEW img, NEW so, NEW size, Table(img, so, size),
         NEW o \in Nat, NEW m \in o..(size - 1), Cell(img, so + m) = 0,
         \A j \in o..(m - 1) : Cell(img, so + j) # 0
  PROVE  /\ Ends(img, o) # {}
         /\ StringAt(img, o) = [i \in 1..(m - o) |-> Cell(img, so + (o + i - 1))]
<1> DEFINE v == Strtab(img)
<1>1. so \in Nat /\ size \in Nat /\ ValueOf(img, DT_STRSZ) = size /\ v \in Nat
  BY DEF Table
<1>2. \A e \in 0..(size - 1) :
        Loading(img, v + e) # {} /\ vaddr_to_file_offset(img, v + e) = so + e
  BY DEF Table
<1>3. m \in 0..(size - 1) /\ m \in Nat /\ o <= m
  BY <1>1
<1>4. m \in Ends(img, o)
  BY <1>1, <1>2, <1>3 DEF Ends
<1>5. Ends(img, o) \subseteq Nat
  BY <1>1 DEF Ends
<1>6. ASSUME NEW j \in Ends(img, o) PROVE m <= j
  <2>1. j \in o..(size - 1) /\ Cell(img, vaddr_to_file_offset(img, v + j)) = 0
    BY <1>1 DEF Ends
  <2>2. j \in 0..(size - 1)
    BY <1>1, <2>1
  <2>3. Cell(img, so + j) = 0
    BY <1>2, <2>1, <2>2
  <2>4. j \notin o..(m - 1)
    BY <2>3
  <2> QED
    BY <1>1, <1>3, <2>1, <2>4
<1>7. Min(Ends(img, o)) = m
  BY <1>4, <1>5, <1>6, MinIs
<1>8. StringAt(img, o) = [i \in 1..(m - o) |-> Cell(img, vaddr_to_file_offset(img, v + o + i - 1))]
  BY <1>4, <1>7 DEF StringAt
<1> HIDE DEF v
<1>9. ASSUME NEW i \in 1..(m - o)
      PROVE  vaddr_to_file_offset(img, v + o + i - 1) = so + (o + i - 1)
  <2> DEFINE j == o + i - 1
  <2>1. j \in 0..(size - 1) /\ v + o + i - 1 = v + j
    BY <1>1, <1>3
  <2> HIDE DEF j
  <2>2. vaddr_to_file_offset(img, v + j) = so + j
    BY <1>2, <2>1
  <2> QED
    BY <2>1, <2>2 DEF j
<1> QED
  BY <1>4, <1>8, <1>9

\* What the string table of a file ends with is as the rewriter needs it.
LEMMA StringsOf ==
  ASSUME NEW img, Executable(img), Accepted(img), NEW end \in PaddingEnds(img)
  PROVE  /\ Table(img, StrtabOffset(img), ValueOf(img, DT_STRSZ))
         /\ \A e \in 0..(end - StrtabOffset(img) - 1) :
              /\ Loading(img, Strtab(img) + e) # {}
              /\ vaddr_to_file_offset(img, Strtab(img) + e) = StrtabOffset(img) + e
<1> DEFINE so == StrtabOffset(img)
           size == ValueOf(img, DT_STRSZ)
           v == Strtab(img)
<1>1. so \in Nat /\ size \in Nat /\ v \in Nat /\ StringsStart(img) = so + size
  BY StringTable
<1>2. \A e \in 0..(end - so - 1) :
        Loading(img, v + e) # {} /\ vaddr_to_file_offset(img, v + e) = so + e
  BY Zenon DEF Executable, StringsLoaded
<1>3. end \in StringsStart(img)..Len(img.cells)
  BY DEF PaddingEnds
<1>0. Len(img.cells) \in Nat
  BY CellsAreNumbers DEF Executable
<1> HIDE DEF so, size, v
<1>4. \A e \in 0..(size - 1) : e \in 0..(end - so - 1)
  BY <1>0, <1>1, <1>3
<1>5. Table(img, so, size)
  BY <1>1, <1>2, <1>4 DEF Table, size, v
<1> QED
  BY <1>2, <1>5 DEF so, size, v

\* The new string table: the old bytes, then the new strings.
NewTable(out, img, new, so, size) ==
  /\ Strtab(out) = Strtab(img)
  /\ StrtabOffset(img) = so /\ StrtabOffset(out) = so
  /\ StringsStart(img) = so + size /\ StringsStart(out) = so + size + Len(new)
  /\ Table(img, so, size) /\ Table(out, so, size + Len(new))
  /\ \A e \in 0..(size - 1) : Cell(out, so + e) = Cell(img, so + e)
  /\ \A i \in 1..Len(new) : Cell(out, so + (size + i - 1)) = new[i]

\* It leaves such a string table.
LEMMA TheNewTable ==
  ASSUME NEW img, NEW name, NEW rpath, Rewritable(img, name, rpath),
         NEW out, out = rewrite_elf(img, name, rpath)
  PROVE  NewTable(out, img, NewStrings(name, rpath), StrtabOffset(img), ValueOf(img, DT_STRSZ))
<1> DEFINE new == NewStrings(name, rpath)
           n == Len(new)
           so == StrtabOffset(img)
           size == ValueOf(img, DT_STRSZ)
           v == Strtab(img)
           st == StringsStart(img)
           end == st + n
           e == EntriesNeeded(rpath)
           o == Slot(img, 0)
           t == Terminator(img)
           z == SizeSlot(img)
<1>1. Executable(img) /\ Accepted(img)
  BY DEF Rewritable
<1>2. so \in Nat /\ size \in Nat /\ v \in Nat /\ st = so + size
  BY <1>1, StringTable
<1>3. n \in Nat /\ new \in Seq(Nat)
  BY NewStringsAre DEF Rewritable, TheStrings
<1>4. end \in PaddingEnds(img)
  BY RoomIsThere
<1>5. Layout(img, e, o, t, z, st, n)
  BY TheLayout
<1>6. Patched(out, img, rpath, Len(name), size, new, o, t, z, st)
  BY RewriteWrites
<1>7. /\ ValueOf(out, DT_STRTAB) = v
      /\ ValueOf(out, DT_STRSZ) = size + n
  BY NewEntriesAre DEF Strtab
<1>8. out.phdrs = img.phdrs
  BY <1>6 DEF Patched
<1>9. \A w : /\ Loading(out, w) = Loading(img, w)
             /\ vaddr_to_file_offset(out, w) = vaddr_to_file_offset(img, w)
  BY <1>8 DEF Loading, vaddr_to_file_offset, Segments
<1>10. Strtab(out) = v /\ StrtabOffset(out) = so
  BY <1>7, <1>9 DEF Strtab, StrtabOffset
<1>11. \A d \in 0..(end - so - 1) : Loading(img, v + d) # {} /\ vaddr_to_file_offset(img, v + d) = so + d
  <2> HIDE DEF end
  <2> QED
    BY <1>1, <1>4, StringsOf
<1>12. Table(img, so, size)
  BY <1>1, <1>4, StringsOf
<1>13. \A k \in Slots(img) : {Slot(img, k), Slot(img, k) + 1} \cap (so..(end - 1)) = {}
  <2> HIDE DEF end
  <2> QED
    BY <1>1, <1>4, Zenon DEF Executable, StringsLoaded
<1>14. StringsStart(out) = so + (size + n)
  BY <1>7, <1>10 DEF StringsStart
<1>15. (rpath # NoName) <=> (e = 2)
  BY DEF EntriesNeeded
<1> HIDE DEF new, n, so, size, v, st, end, e, o, t, z
<1>16. end = so + size + n /\ end - so - 1 = size + n - 1
  BY <1>2, <1>3 DEF end
<1>17. Table(out, so, size + n)
  <2> DEFINE all == size + n
  <2>1. all \in Nat /\ \A d \in 0..(all - 1) : d \in 0..(end - so - 1)
    BY <1>2, <1>3, <1>16
  <2>2. ValueOf(out, DT_STRSZ) = all
    BY <1>7
  <2> HIDE DEF all
  <2>3. \A d \in 0..(all - 1) :
          Loading(out, Strtab(out) + d) # {} /\ vaddr_to_file_offset(out, Strtab(out) + d) = so + d
    BY <1>9, <1>10, <1>11, <2>1
  <2>4. Table(out, so, all)
    BY <1>2, <1>10, <2>1, <2>2, <2>3 DEF Table
  <2> QED
    BY <2>4 DEF all
<1>18. /\ o \in Nat /\ t \in Nat /\ z \in 0..(t - 1) /\ e \in {1, 2} /\ Len(img.cells) \in Nat
       /\ end <= Len(img.cells)
       /\ 0..(t + e) \subseteq Slots(img)
       /\ \A k \in Slots(img) : Slot(img, k) = o + 2 * k
  BY <1>5 DEF Layout, end
<1>19. ASSUME NEW k \in 0..(t + e)
       PROVE  o + 2 * k \notin so..(end - 1) /\ o + 2 * k + 1 \notin so..(end - 1)
  <2>1. k \in Slots(img) /\ Slot(img, k) = o + 2 * k
    BY <1>18
  <2>2. {Slot(img, k), Slot(img, k) + 1} \cap (so..(end - 1)) = {}
    BY <1>13, <2>1
  <2> QED
    BY <2>1, <2>2
<1>20. \A d \in 0..(size - 1) : Cell(out, so + d) = Cell(img, so + d)
  <2> SUFFICES ASSUME NEW d \in 0..(size - 1) PROVE Cell(out, so + d) = Cell(img, so + d)
    OBVIOUS
  <2> DEFINE off == so + d
  <2>1. off \in 0..(Len(img.cells) - 1) /\ off \notin st..(st + Len(new) - 1) /\ off \in so..(end - 1)
    BY <1>2, <1>3, <1>16, <1>18 DEF n
  <2> HIDE DEF off
  <2>2. off # o + 2 * t /\ off # o + 2 * t + 1 /\ off # o + 2 * z + 1
    <3>1. t \in 0..(t + e) /\ z \in 0..(t + e)
      BY <1>18
    <3> QED
      BY <1>19, <2>1, <3>1
  <2>3. rpath # NoName => off # o + 2 * t + 2 /\ off # o + 2 * t + 3
    <3> SUFFICES ASSUME rpath # NoName PROVE off # o + 2 * t + 2 /\ off # o + 2 * t + 3
      OBVIOUS
    <3>1. t + 1 \in 0..(t + e)
      BY <1>15, <1>18
    <3>2. o + 2 * (t + 1) = o + 2 * t + 2 /\ o + 2 * (t + 1) + 1 = o + 2 * t + 3
      BY <1>18
    <3> QED
      BY <1>19, <2>1, <3>1, <3>2
  <2>4. Cell(out, off) = Cell(img, off)
    BY <1>6, <2>1, <2>2, <2>3 DEF Patched
  <2> QED
    BY <2>4 DEF off
<1>21. \A i \in 1..Len(new) : Cell(out, so + (size + i - 1)) = new[i]
  <2> SUFFICES ASSUME NEW i \in 1..Len(new) PROVE Cell(out, so + (size + i - 1)) = new[i]
    OBVIOUS
  <2>1. Cell(out, st + i - 1) = new[i]
    BY <1>6 DEF Patched
  <2>2. st + i - 1 = so + (size + i - 1)
    BY <1>2, <1>3 DEF n
  <2> QED
    BY <2>1, <2>2
<1>22. NewTable(out, img, new, so, size)
  <2>1. StringsStart(out) = so + size + Len(new)
    BY <1>2, <1>3, <1>14 DEF n
  <2>2. Table(out, so, size + Len(new))
    BY <1>17 DEF n
  <2>3. StrtabOffset(img) = so /\ StringsStart(img) = so + size /\ Strtab(out) = Strtab(img)
    BY <1>2, <1>10 DEF so, st, v
  <2> QED
    BY <1>10, <1>12, <1>20, <1>21, <2>1, <2>2, <2>3 DEF NewTable
<1> QED
  BY <1>22 DEF new, so, size

\* A string of the old table is read as before.
LEMMA OldStringsStay ==
  ASSUME NEW out, NEW img, NEW new \in Seq(Nat), NEW so, NEW size, NewTable(out, img, new, so, size),
         NEW o \in Nat, Ends(img, o) # {}
  PROVE  Ends(out, o) # {} /\ StringAt(out, o) = StringAt(img, o)
<1>1. /\ Table(img, so, size) /\ Table(out, so, size + Len(new))
      /\ \A e \in 0..(size - 1) : Cell(out, so + e) = Cell(img, so + e)
  BY DEF NewTable
<1>2. /\ so \in Nat /\ size \in Nat /\ ValueOf(img, DT_STRSZ) = size
      /\ \A e \in 0..(size - 1) : vaddr_to_file_offset(img, Strtab(img) + e) = so + e
  BY <1>1 DEF Table
<1> DEFINE m == Min(Ends(img, o))
<1>3. Ends(img, o) \subseteq Nat
  BY <1>2 DEF Ends
<1>4. m \in Ends(img, o) /\ \A j \in Ends(img, o) : m <= j
  BY <1>3, MinOf
<1> HIDE DEF m
<1>5. ASSUME NEW j \in o..(size - 1)
      PROVE  Cell(img, so + j) = 0 <=> j \in Ends(img, o)
  <2>1. j \in 0..(size - 1)
    BY <1>2
  <2>2. Loading(img, Strtab(img) + j) # {} /\ vaddr_to_file_offset(img, Strtab(img) + j) = so + j
    BY <1>1, <2>1 DEF Table
  <2> QED
    BY <1>2, <2>2 DEF Ends
<1>6. m \in o..(size - 1)
  BY <1>2, <1>4 DEF Ends
<1>7. Cell(img, so + m) = 0 /\ \A j \in o..(m - 1) : Cell(img, so + j) # 0
  <2>1. \A j \in o..(m - 1) : j \in o..(size - 1) /\ ~ (m <= j)
    BY <1>2, <1>6
  <2> QED
    BY <1>4, <1>5, <1>6, <2>1
<1>8. StringAt(img, o) = [i \in 1..(m - o) |-> Cell(img, so + (o + i - 1))]
  BY <1>1, <1>6, <1>7, TheStringAt
<1>9. \A j \in o..m : Cell(out, so + j) = Cell(img, so + j)
  <2>1. \A j \in o..m : j \in 0..(size - 1)
    BY <1>2, <1>6
  <2> QED
    BY <1>1, <2>1
<1>10. Cell(out, so + m) = 0 /\ \A j \in o..(m - 1) : Cell(out, so + j) # 0
  <2>1. m \in o..m /\ \A j \in o..(m - 1) : j \in o..m
    BY <1>2, <1>6
  <2> QED
    BY <1>7, <1>9, <2>1
<1>11. m \in o..((size + Len(new)) - 1)
  BY <1>2, <1>6
<1>12. Ends(out, o) # {} /\ StringAt(out, o) = [i \in 1..(m - o) |-> Cell(out, so + (o + i - 1))]
  BY <1>1, <1>10, <1>11, TheStringAt
<1>13. \A i \in 1..(m - o) : o + i - 1 \in o..m
  BY <1>2, <1>6
<1> QED
  BY <1>8, <1>9, <1>12, <1>13

\* The new strings are read from where they were put.
LEMMA NewStringsAreRead ==
  ASSUME NEW out, NEW img, NEW name, NEW rpath, NEW new, NEW so, NEW size,
         TheStrings(name, rpath, new), NewTable(out, img, new, so, size),
         name \in Seq(Nat), rpath # NoName => rpath \in Seq(Nat)
  PROVE  /\ Ends(out, size) # {} /\ StringAt(out, size) = name
         /\ rpath # NoName => /\ Ends(out, size + Len(name) + 1) # {}
                              /\ StringAt(out, size + Len(name) + 1) = rpath
<1>1. /\ Table(out, so, size + Len(new))
      /\ \A i \in 1..Len(new) : Cell(out, so + (size + i - 1)) = new[i]
      /\ Table(img, so, size)
  BY DEF NewTable
<1>2. so \in Nat /\ size \in Nat
  BY <1>1 DEF Table
<1> DEFINE len == Len(name)
           n == Len(new)
<1>3. /\ len \in Nat
      /\ \A i \in 1..len : new[i] = name[i] /\ name[i] # 0
      /\ new[len + 1] = 0
      /\ n \in Nat /\ len + 1 <= n
  BY DEF TheStrings
<1>4. name = [i \in 1..len |-> name[i]]
  OBVIOUS
<1> HIDE DEF len, n
<1>5. Ends(out, size) # {} /\ StringAt(out, size) = name
  <2> DEFINE m == size + len
  <2>1. m \in size..((size + n) - 1) /\ m - size = len
    BY <1>2, <1>3
  <2>2. Cell(out, so + m) = 0
    <3>1. len + 1 \in 1..n /\ size + (len + 1) - 1 = m
      BY <1>2, <1>3
    <3> HIDE DEF m
    <3>2. Cell(out, so + (size + (len + 1) - 1)) = new[len + 1]
      BY <1>1, <3>1 DEF n
    <3> QED
      BY <1>3, <3>1, <3>2
  <2>3. \A i \in 1..len : Cell(out, so + (size + i - 1)) = name[i]
    BY <1>1, <1>3 DEF n
  <2>4. ASSUME NEW j \in size..(m - 1) PROVE Cell(out, so + j) # 0
    <3> DEFINE i == (j - size) + 1
    <3>1. i \in 1..len /\ size + i - 1 = j
      BY <1>2, <1>3
    <3> HIDE DEF i
    <3> QED
      BY <1>3, <2>3, <3>1
  <2> DEFINE all == size + Len(new)
  <2>6. m \in size..(all - 1) /\ Table(out, so, all)
    BY <1>1, <2>1 DEF n
  <2> HIDE DEF m, all
  <2> DEFINE o == size
  <2>7. o \in Nat /\ m \in o..(all - 1) /\ \A j \in o..(m - 1) : Cell(out, so + j) # 0
    BY <1>2, <2>4, <2>6
  <2> HIDE DEF o
  <2>8. Ends(out, o) # {} /\ StringAt(out, o) = [i \in 1..(m - o) |-> Cell(out, so + (o + i - 1))]
    BY <2>2, <2>6, <2>7, TheStringAt
  <2>5. Ends(out, size) # {} /\ StringAt(out, size) = [i \in 1..(m - size) |-> Cell(out, so + (size + i - 1))]
    BY <2>8 DEF o
  <2> QED
    BY <1>4, <2>1, <2>3, <2>5
<1>6. ASSUME rpath # NoName
      PROVE  Ends(out, size + len + 1) # {} /\ StringAt(out, size + len + 1) = rpath
  <2> DEFINE r == Len(rpath)
             o == size + len + 1
             m == o + r
  <2>1. /\ r \in Nat /\ n = len + r + 2
        /\ \A i \in 1..r : new[len + 1 + i] = rpath[i] /\ rpath[i] # 0
        /\ new[n] = 0
    BY <1>6 DEF TheStrings, len, n
  <2>2. rpath = [i \in 1..r |-> rpath[i]]
    BY <1>6
  <2> HIDE DEF r, o
  <2>3. o \in Nat /\ m \in o..((size + n) - 1) /\ m - o = r
    BY <1>2, <1>3, <2>1 DEF o
  <2>4. Cell(out, so + m) = 0
    <3>1. n \in 1..n /\ size + n - 1 = m
      BY <1>2, <1>3, <2>1 DEF o
    <3> HIDE DEF m
    <3>2. Cell(out, so + (size + n - 1)) = new[n]
      BY <1>1, <3>1 DEF n
    <3> QED
      BY <2>1, <3>1, <3>2
  <2>5. \A i \in 1..r : Cell(out, so + (o + i - 1)) = rpath[i]
    <3> SUFFICES ASSUME NEW i \in 1..r PROVE Cell(out, so + (o + i - 1)) = rpath[i]
      OBVIOUS
    <3> DEFINE h == len + 1 + i
    <3>1. h \in 1..n /\ size + h - 1 = o + i - 1
      BY <1>2, <1>3, <2>1 DEF o
    <3>2. new[h] = rpath[i]
      BY <2>1
    <3> HIDE DEF h
    <3>3. Cell(out, so + (size + h - 1)) = new[h]
      BY <1>1, <3>1 DEF n
    <3> QED
      BY <3>1, <3>2, <3>3
  <2>6. ASSUME NEW j \in o..(m - 1) PROVE Cell(out, so + j) # 0
    <3> DEFINE i == (j - o) + 1
    <3>1. i \in 1..r /\ o + i - 1 = j
      BY <2>1, <2>3
    <3> HIDE DEF i
    <3> QED
      BY <2>1, <2>5, <3>1
  <2> HIDE DEF m
  <2>7. Ends(out, o) # {} /\ StringAt(out, o) = [i \in 1..(m - o) |-> Cell(out, so + (o + i - 1))]
    BY <1>1, <2>3, <2>4, <2>6, TheStringAt DEF n
  <2>8. Ends(out, o) # {} /\ StringAt(out, o) = rpath
    BY <2>2, <2>3, <2>5, <2>7
  <2> QED
    BY <2>8 DEF o
<1> QED
  BY <1>5, <1>6 DEF len

\* The libraries the dynamic linker has found after each entry.
LEMMA LibrariesAre ==
  ASSUME NEW img, Terminator(img) \in Nat
  PROVE  /\ Libraries(img)[0] = <<>>
         /\ \A k \in 1..Terminator(img) :
              Libraries(img)[k] =
                IF Tag(img, k - 1) = DT_NEEDED
                THEN Append(Libraries(img)[k - 1], StringAt(img, Val(img, k - 1)))
                ELSE Libraries(img)[k - 1]
<1> DEFINE t == Terminator(img)
           T == Seq({StringAt(img, Val(img, k)) : k \in 0..(t - 1)})
           Then(k, f) == IF Tag(img, k - 1) = DT_NEEDED
                         THEN Append(f, StringAt(img, Val(img, k - 1)))
                         ELSE f
           h == [p \in (1..t) \X T |-> Then(p[1], p[2])]
           All(f) == f = [k \in 0..t |->
                            IF k = 0 THEN <<>>
                            ELSE IF Tag(img, k - 1) = DT_NEEDED
                            THEN Append(f[k - 1], StringAt(img, Val(img, k - 1)))
                            ELSE f[k - 1]]
<1>1. ASSUME NEW k \in 1..t, NEW f \in T PROVE Then(k, f) \in T
  <2> DEFINE V == {StringAt(img, Val(img, j)) : j \in 0..(t - 1)}
             x == StringAt(img, Val(img, k - 1))
  <2>1. k - 1 \in 0..(t - 1)
    OBVIOUS
  <2>2. x \in V
    BY <2>1
  <2>3. f \in Seq(V)
    OBVIOUS
  <2> HIDE DEF V, x
  <2>4. Append(f, x) \in Seq(V)
    BY <2>2, <2>3
  <2> QED
    BY <2>3, <2>4 DEF V, x
<1>2. <<>> \in T
  OBVIOUS
<1> HIDE DEF T, Then
<1>3. \A k \in 1..t, f \in T : h[<<k, f>>] \in T
  BY <1>1
<1>4. \A k \in 1..t, f \in T : h[<<k, f>>] = Then(k, f)
  OBVIOUS
<1> HIDE DEF h
<1>5. PICK g \in [0..t -> T] : g[0] = <<>> /\ \A k \in 1..t : g[k] = h[<<k, g[k - 1]>>]
  <2> DEFINE x == <<>>
  <2> HIDE DEF x, t
  <2>1. t \in Nat /\ x \in T
    BY <1>2 DEF t, x
  <2>2. \E g : Recursive(g, t, T, x, h)
    BY <1>3, <2>1, Recursion
  <2> QED
    BY <2>2 DEF x, Recursive
<1>6. \A k \in 1..t : g[k] = Then(k, g[k - 1])
  <2> SUFFICES ASSUME NEW k \in 1..t PROVE g[k] = Then(k, g[k - 1])
    OBVIOUS
  <2>1. g[k - 1] \in T
    <3>1. k - 1 \in 0..t
      OBVIOUS
    <3> HIDE DEF t
    <3> QED
      BY <1>5, <3>1
  <2> QED
    BY <1>4, <1>5, <2>1
<1>7. All(g)
  <2> DEFINE r == [k \in 0..t |-> IF k = 0 THEN <<>> ELSE Then(k, g[k - 1])]
  <2>1. \A k \in 0..t : g[k] = r[k]
    <3> SUFFICES ASSUME NEW k \in 0..t PROVE g[k] = r[k]
      OBVIOUS
    <3>1. CASE k = 0
      BY <1>5, <3>1
    <3>2. CASE k # 0
      <4>1. k \in 1..t
        BY <3>2
      <4> QED
        BY <1>6, <3>2, <4>1
    <3> QED
      BY <3>1, <3>2
  <2>2. g = r
    BY <1>5, <2>1
  <2> QED
    BY <2>2 DEF Then
<1>8. Libraries(img) = CHOOSE f : All(f)
  BY DEF Libraries
<1>9. All(Libraries(img))
  <2> HIDE DEF All
  <2> QED
    BY <1>7, <1>8
<1> DEFINE f == Libraries(img)
<1> HIDE DEF f
<1>10. All(f)
  BY <1>9 DEF f
<1>11. f[0] = <<>> /\ \A k \in 1..t : f[k] = Then(k, f[k - 1])
  <2>1. \A k \in 0..t : f[k] = IF k = 0 THEN <<>> ELSE Then(k, f[k - 1])
    BY <1>10 DEF Then
  <2>2. 0 \in 0..t /\ \A k \in 1..t : k \in 0..t /\ k # 0
    OBVIOUS
  <2> HIDE DEF Then, t
  <2> QED
    BY <2>1, <2>2
<1> QED
  BY <1>11 DEF Then, f

\* The name of an entry ends inside the string table.
LEMMA NamesEnd ==
  ASSUME NEW img, Executable(img), Accepted(img),
         NEW k \in Entries(img, DT_NEEDED) \cup Entries(img, DT_RUNPATH)
  PROVE  /\ k \in 0..(Terminator(img) - 1) /\ k # SizeSlot(img)
         /\ Val(img, k) \in Nat /\ Ends(img, Val(img, k)) # {}
<1>1. /\ Shaped(img) /\ EntriesFit(img) /\ Segments(img, "DYNAMIC") # {} /\ Terminates(img)
      /\ Entries(img, DT_STRSZ) # {}
  BY DEF Executable, Accepted, Located
<1>2. k \in 0..(Terminator(img) - 1) /\ Tag(img, k) \in {DT_NEEDED, DT_RUNPATH}
  BY DEF Entries
<1>3. Readable(img, k) /\ k \in Nat
  BY <1>1, <1>2, TheTerminator
<1>4. Val(img, k) \in Nat
  BY <1>1, <1>3, SlotValues
<1>5. Ends(img, Val(img, k)) # {}
  BY <1>1 DEF EntriesFit
<1>6. SizeSlot(img) \in Entries(img, DT_STRSZ)
  <2>1. Entries(img, DT_STRSZ) \subseteq Nat
    BY DEF Entries
  <2> QED
    BY <1>1, <2>1, MinOf DEF SizeSlot
<1>7. Tag(img, SizeSlot(img)) = DT_STRSZ
  BY <1>6 DEF Entries
<1>8. k # SizeSlot(img)
  BY <1>2, <1>7 DEF DT_NEEDED, DT_RUNPATH, DT_STRSZ
<1> QED
  BY <1>2, <1>4, <1>5, <1>8

\* The entries of the old array name what they named.
LEMMA OldNamesStay ==
  ASSUME NEW img, NEW name, NEW rpath, Rewritable(img, name, rpath),
         NEW out, out = rewrite_elf(img, name, rpath),
         NEW k \in Entries(img, DT_NEEDED) \cup Entries(img, DT_RUNPATH)
  PROVE  /\ Val(out, k) = Val(img, k)
         /\ Ends(out, Val(out, k)) # {}
         /\ StringAt(out, Val(out, k)) = StringAt(img, Val(img, k))
<1> DEFINE new == NewStrings(name, rpath)
<1>1. NewArray(out, img, rpath, Len(name), ValueOf(img, DT_STRSZ), Len(new),
               EntriesNeeded(rpath), Terminator(img), SizeSlot(img))
  BY TheNewArray
<1>2. /\ k \in 0..(Terminator(img) - 1) /\ k # SizeSlot(img)
      /\ Val(img, k) \in Nat /\ Ends(img, Val(img, k)) # {}
  BY NamesEnd DEF Rewritable
<1>3. Val(out, k) = Val(img, k)
  BY <1>1, <1>2 DEF NewArray
<1>4. NewTable(out, img, new, StrtabOffset(img), ValueOf(img, DT_STRSZ))
  BY TheNewTable
<1>5. new \in Seq(Nat)
  BY NewStringsAre DEF Rewritable, TheStrings
<1> HIDE DEF new
<1> QED
  BY <1>2, <1>3, <1>4, <1>5, OldStringsStay

\* The new entries name what was added.
LEMMA NewNamesAre ==
  ASSUME NEW img, NEW name, NEW rpath, Rewritable(img, name, rpath),
         NEW out, out = rewrite_elf(img, name, rpath)
  PROVE  /\ Ends(out, Val(out, Terminator(img))) # {}
         /\ StringAt(out, Val(out, Terminator(img))) = name
         /\ rpath # NoName => /\ Ends(out, Val(out, Terminator(img) + 1)) # {}
                              /\ StringAt(out, Val(out, Terminator(img) + 1)) = rpath
<1> DEFINE new == NewStrings(name, rpath)
           size == ValueOf(img, DT_STRSZ)
           t == Terminator(img)
<1>1. NewArray(out, img, rpath, Len(name), size, Len(new), EntriesNeeded(rpath), t, SizeSlot(img))
  BY TheNewArray
<1>2. Val(out, t) = size /\ (rpath # NoName => Val(out, t + 1) = size + Len(name) + 1)
  BY <1>1 DEF NewArray, EntriesNeeded
<1>3. NewTable(out, img, new, StrtabOffset(img), size)
  BY TheNewTable
<1>4. TheStrings(name, rpath, new)
  BY NewStringsAre DEF Rewritable
<1>5. name \in Seq(Nat) /\ (rpath # NoName => rpath \in Seq(Nat))
  BY ElfAssumption DEF Rewritable
<1> HIDE DEF new, size, t
<1>6. /\ Ends(out, size) # {} /\ StringAt(out, size) = name
      /\ rpath # NoName => /\ Ends(out, size + Len(name) + 1) # {}
                           /\ StringAt(out, size + Len(name) + 1) = rpath
  BY <1>3, <1>4, <1>5, NewStringsAreRead
<1>7. /\ Ends(out, Val(out, t)) # {} /\ StringAt(out, Val(out, t)) = name
      /\ rpath # NoName => /\ Ends(out, Val(out, t + 1)) # {}
                           /\ StringAt(out, Val(out, t + 1)) = rpath
  BY <1>2, <1>6
<1> QED
  BY <1>7 DEF t

\* The dynamic linker finds one more library, after the others.
LEMMA NeededGrows ==
  ASSUME NEW img, NEW name, NEW rpath, Rewritable(img, name, rpath),
         NEW out, out = rewrite_elf(img, name, rpath)
  PROVE  Needed(out) = Append(Needed(img), name)
<1> DEFINE e == EntriesNeeded(rpath)
           t == Terminator(img)
           old == Libraries(img)
           lib == Libraries(out)
<1>1. NewArray(out, img, rpath, Len(name), ValueOf(img, DT_STRSZ), Len(NewStrings(name, rpath)),
               e, t, SizeSlot(img))
  BY TheNewArray
<1>2. /\ e \in {1, 2} /\ t \in Nat /\ Terminator(out) = t + e
      /\ \A k \in 0..(t - 1) : Tag(out, k) = Tag(img, k)
      /\ Tag(out, t) = DT_NEEDED
      /\ e = 2 => Tag(out, t + 1) = DT_RUNPATH
  BY <1>1 DEF NewArray
<1>3. StringAt(out, Val(out, t)) = name
  BY NewNamesAre
<1>4. ASSUME NEW k \in 0..(t - 1), Tag(img, k) = DT_NEEDED
      PROVE  StringAt(out, Val(out, k)) = StringAt(img, Val(img, k))
  <2>1. k \in Entries(img, DT_NEEDED)
    BY <1>4 DEF Entries
  <2> QED
    BY <2>1, OldNamesStay
<1>5. /\ old[0] = <<>>
      /\ \A k \in 1..t : old[k] = IF Tag(img, k - 1) = DT_NEEDED
                                  THEN Append(old[k - 1], StringAt(img, Val(img, k - 1)))
                                  ELSE old[k - 1]
  BY <1>2, LibrariesAre
<1>6. /\ lib[0] = <<>>
      /\ \A k \in 1..(t + e) : lib[k] = IF Tag(out, k - 1) = DT_NEEDED
                                        THEN Append(lib[k - 1], StringAt(out, Val(out, k - 1)))
                                        ELSE lib[k - 1]
  <2>1. Terminator(out) \in Nat
    BY <1>2
  <2> QED
    BY <1>2, <2>1, LibrariesAre
<1>7. Needed(img) = old[t] /\ Needed(out) = lib[t + e]
  BY <1>2 DEF Needed
<1> HIDE DEF e, t, old, lib
<1> DEFINE N == {k \in Nat : k <= t => lib[k] = old[k]}
<1>8. 0 \in N
  BY <1>5, <1>6
<1>9. ASSUME NEW k \in Nat, k \in N PROVE k + 1 \in N
  <2> SUFFICES ASSUME k + 1 <= t PROVE lib[k + 1] = old[k + 1]
    OBVIOUS
  <2>1. lib[k] = old[k] /\ k \in 0..(t - 1) /\ k + 1 \in 1..t /\ k + 1 \in 1..(t + e) /\ (k + 1) - 1 = k
    BY <1>2, <1>9
  <2> DEFINE j == k + 1
  <2> HIDE DEF j, N
  <2>2. old[j] = IF Tag(img, k) = DT_NEEDED THEN Append(old[k], StringAt(img, Val(img, k))) ELSE old[k]
    BY <1>5, <2>1 DEF j
  <2>3. lib[j] = IF Tag(out, k) = DT_NEEDED THEN Append(lib[k], StringAt(out, Val(out, k))) ELSE lib[k]
    BY <1>6, <2>1 DEF j
  <2>4. lib[j] = old[j]
    BY <1>2, <1>4, <2>1, <2>2, <2>3
  <2> QED
    BY <2>4 DEF j
<1> HIDE DEF N
<1>10. Nat \subseteq N
  BY <1>8, <1>9, SetInduction
<1>11. lib[t] = old[t]
  <2>1. t \in N /\ t <= t
    BY <1>2, <1>10
  <2> QED
    BY <2>1 DEF N
<1>12. lib[t + 1] = Append(lib[t], name)
  <2>1. t + 1 \in 1..(t + e) /\ (t + 1) - 1 = t
    BY <1>2
  <2> DEFINE j == t + 1
  <2> HIDE DEF j
  <2>2. lib[j] = IF Tag(out, t) = DT_NEEDED THEN Append(lib[t], StringAt(out, Val(out, t))) ELSE lib[t]
    BY <1>6, <2>1 DEF j
  <2> QED
    BY <1>2, <1>3, <2>2 DEF j
<1>13. lib[t + e] = lib[t + 1]
  <2>1. CASE e = 1
    BY <2>1
  <2>2. CASE e = 2
    <3>1. t + 2 \in 1..(t + e) /\ (t + 2) - 1 = t + 1
      BY <1>2, <2>2
    <3> DEFINE j == t + 2
               i == t + 1
    <3> HIDE DEF j, i
    <3>2. lib[j] = IF Tag(out, i) = DT_NEEDED THEN Append(lib[i], StringAt(out, Val(out, i))) ELSE lib[i]
      BY <1>6, <3>1 DEF j, i
    <3>3. Tag(out, i) # DT_NEEDED
      BY <1>2, <2>2 DEF i, DT_NEEDED, DT_RUNPATH
    <3> QED
      BY <2>2, <3>2, <3>3 DEF i, j
  <2> QED
    BY <1>2, <2>1, <2>2
<1> QED
  BY <1>7, <1>11, <1>12, <1>13

\* It looks in the search path that was given, if any.
LEMMA RunpathIs ==
  ASSUME NEW img, NEW name, NEW rpath, Rewritable(img, name, rpath),
         NEW out, out = rewrite_elf(img, name, rpath)
  PROVE  Runpath(out) = IF rpath = NoName THEN Runpath(img) ELSE rpath
<1> DEFINE R == Entries(img, DT_RUNPATH)
           t == Terminator(img)
<1>1. Entries(out, DT_RUNPATH) = R \cup (IF rpath = NoName THEN {} ELSE {t + 1})
  BY NewEntriesAre
<1>2. R \subseteq 0..(t - 1) /\ t \in Nat
  BY TheTerminator DEF Rewritable, Executable, Accepted, Located, Entries
<1>3. CASE rpath = NoName
  <2>1. Entries(out, DT_RUNPATH) = R
    BY <1>1, <1>3
  <2>2. CASE R = {}
    BY <1>3, <2>1, <2>2 DEF Runpath
  <2>3. CASE R # {}
    <3>1. Max(R) \in R
      <4>1. R \subseteq 0..t
        BY <1>2
      <4> QED
        BY <1>2, <2>3, <4>1, MaxOf
    <3>2. StringAt(out, Val(out, Max(R))) = StringAt(img, Val(img, Max(R)))
      <4> DEFINE k == Max(R)
      <4>1. k \in Entries(img, DT_NEEDED) \cup Entries(img, DT_RUNPATH)
        BY <3>1
      <4> HIDE DEF k
      <4>2. StringAt(out, Val(out, k)) = StringAt(img, Val(img, k))
        BY <4>1, OldNamesStay
      <4> QED
        BY <4>2 DEF k
    <3> QED
      BY <1>3, <2>1, <2>3, <3>2 DEF Runpath, ValueOf
  <2> QED
    BY <2>2, <2>3
<1>4. CASE rpath # NoName
  <2>1. Entries(out, DT_RUNPATH) = R \cup {t + 1}
    BY <1>1, <1>4
  <2> HIDE DEF R, t
  <2>2. Max(R \cup {t + 1}) = t + 1
    <3>1. /\ R \cup {t + 1} \subseteq 0..(t + 1)
          /\ t + 1 \in R \cup {t + 1}
          /\ \A k \in R \cup {t + 1} : t + 1 >= k
      BY <1>2
    <3>2. t + 1 \in Nat
      BY <1>2
    <3> DEFINE K == R \cup {t + 1}
               m == t + 1
    <3> HIDE DEF K, m
    <3>3. Max(K) = m
      BY <3>1, <3>2, MaxIs DEF K, m
    <3> QED
      BY <3>3 DEF K, m
  <2>3. StringAt(out, Val(out, t + 1)) = rpath
    BY <1>4, NewNamesAre DEF t
  <2> QED
    BY <1>4, <2>1, <2>2, <2>3 DEF Runpath, ValueOf
<1> QED
  BY <1>3, <1>4

-----------------------------------------------------------------------------
(***************************************************************************)
(* A rewritten executable is an executable again.                          *)
(***************************************************************************)

\* What could be padding after its strings was padding before.
LEMMA PaddingShrinks ==
  ASSUME NEW img, NEW name, NEW rpath, Rewritable(img, name, rpath),
         NEW out, out = rewrite_elf(img, name, rpath)
  PROVE  PaddingEnds(out) \subseteq PaddingEnds(img)
<1> DEFINE new == NewStrings(name, rpath)
           n == Len(new)
           size == ValueOf(img, DT_STRSZ)
           e == EntriesNeeded(rpath)
           o == Slot(img, 0)
           t == Terminator(img)
           z == SizeSlot(img)
           st == StringsStart(img)
<1>1. Layout(img, e, o, t, z, st, n)
  BY TheLayout
<1>2. Patched(out, img, rpath, Len(name), size, new, o, t, z, st)
  BY RewriteWrites
<1>3. StringsStart(out) = st + n
  <2>1. NewTable(out, img, new, StrtabOffset(img), size)
    BY TheNewTable
  <2> QED
    BY <2>1 DEF NewTable
<1>4. size \in Nat /\ Len(name) \in Nat /\ n >= 1
  BY StringTable, NewStringsAre DEF Rewritable, TheStrings
<1>5. (rpath # NoName) <=> (e = 2)
  BY DEF EntriesNeeded
<1> HIDE DEF new, n, size, e, o, t, z, st
<1>6. /\ o \in Nat /\ t \in Nat /\ z \in 0..(t - 1) /\ st \in Nat /\ n \in Nat
      /\ e \in {1, 2} /\ Len(img.cells) \in Nat
      /\ st + n <= Len(img.cells)
      /\ \A off \in st..(st + n - 1) : Cell(img, off) = 0
  BY <1>1 DEF Layout
<1>7. ASSUME NEW k \in 0..(t + e)
      PROVE  /\ o + 2 * k < st \/ st + n <= o + 2 * k
             /\ o + 2 * k + 1 < st \/ st + n <= o + 2 * k + 1
  <2>1. k \in Slots(img)
    BY <1>1 DEF Layout
  <2> QED
    BY <1>1, <2>1 DEF Layout
<1>8. /\ Len(out.cells) = Len(img.cells)
      /\ Cell(out, o + 2 * t) = DT_NEEDED
      /\ Cell(out, o + 2 * t + 1) = size
      /\ e = 2 => /\ Cell(out, o + 2 * t + 2) = DT_RUNPATH
                  /\ Cell(out, o + 2 * t + 3) = size + Len(name) + 1
      /\ Cell(out, o + 2 * z + 1) = size + n
      /\ \A off \in 0..(Len(img.cells) - 1) :
           \/ Cell(out, off) = Cell(img, off)
           \/ off \in {o + 2 * t, o + 2 * t + 1, o + 2 * z + 1}
           \/ e = 2 /\ off \in {o + 2 * t + 2, o + 2 * t + 3}
           \/ off \in st..(st + n - 1)
  BY <1>2, <1>5 DEF Patched, n
<1> SUFFICES ASSUME NEW end \in PaddingEnds(out) PROVE end \in PaddingEnds(img)
  OBVIOUS
<1>9. end \in (st + n)..Len(img.cells) /\ \A off \in (st + n)..(end - 1) : Cell(out, off) = 0
  BY <1>3, <1>8 DEF PaddingEnds
<1>10. ASSUME NEW off \in (st + n)..(end - 1) PROVE Cell(img, off) = 0
  <2>1. Cell(out, off) = 0 /\ off \in 0..(Len(img.cells) - 1) /\ off \notin st..(st + n - 1)
    BY <1>6, <1>9
  <2>2. off # o + 2 * t
    BY <1>8, <2>1 DEF DT_NEEDED
  <2>3. off # o + 2 * z + 1
    BY <1>4, <1>6, <1>8, <2>1
  <2>4. off # o + 2 * t + 1
    <3> SUFFICES ASSUME off = o + 2 * t + 1 PROVE FALSE
      OBVIOUS
    <3>1. t \in 0..(t + e)
      BY <1>6
    <3>2. o + 2 * t < st \/ st + n <= o + 2 * t
      BY <1>7, <3>1
    <3>3. CASE st + n <= o + 2 * t
      <4>1. end \in Int
        BY <1>6, <1>9
      <4>2. o + 2 * t \in (st + n)..(end - 1)
        BY <1>6, <2>1, <3>3, <4>1
      <4>3. Cell(out, o + 2 * t) = 0
        BY <1>9, <4>2
      <4> QED
        BY <1>8, <4>3 DEF DT_NEEDED
    <3>4. CASE o + 2 * t < st
      BY <1>4, <1>6, <3>4
    <3> QED
      BY <3>2, <3>3, <3>4
  <2>5. e = 2 => off # o + 2 * t + 2 /\ off # o + 2 * t + 3
    <3> SUFFICES ASSUME e = 2 PROVE off # o + 2 * t + 2 /\ off # o + 2 * t + 3
      OBVIOUS
    <3>1. Cell(out, o + 2 * t + 2) # 0
      BY <1>8 DEF DT_RUNPATH
    <3>2. Cell(out, o + 2 * t + 3) # 0
      BY <1>4, <1>8
    <3> QED
      BY <2>1, <3>1, <3>2
  <2>6. Cell(out, off) = Cell(img, off)
    BY <1>8, <2>1, <2>2, <2>3, <2>4, <2>5
  <2> QED
    BY <2>1, <2>6
<1>11. end \in st..Len(img.cells) /\ \A off \in st..(end - 1) : Cell(img, off) = 0
  <2>1. end \in st..Len(img.cells)
    BY <1>6, <1>9
  <2>2. \A off \in st..(end - 1) : off \in st..(st + n - 1) \/ off \in (st + n)..(end - 1)
    BY <1>6, <1>9
  <2> QED
    BY <1>6, <1>10, <2>1, <2>2
<1> QED
  BY <1>11 DEF PaddingEnds, st

\* What could be a spare slot was one before.
LEMMA SpareSlotsShrink ==
  ASSUME NEW img, NEW name, NEW rpath, Rewritable(img, name, rpath),
         NEW out, out = rewrite_elf(img, name, rpath)
  PROVE  /\ SpareSlotsIn(out) \subseteq SpareSlotsIn(img)
         /\ \A k \in 1..EntriesNeeded(rpath) : Terminator(img) + k \in SpareSlotsIn(img)
<1> DEFINE e == EntriesNeeded(rpath)
           t == Terminator(img)
<1>1. NewArray(out, img, rpath, Len(name), ValueOf(img, DT_STRSZ), Len(NewStrings(name, rpath)),
               e, t, SizeSlot(img))
  BY TheNewArray
<1>2. \A k \in 1..e : Zero(img, t + k)
  BY RoomIsThere
<1>3. 0..(t + e) \subseteq Slots(img) /\ Slots(img) \subseteq Nat
  BY TheLayout DEF Layout
<1> HIDE DEF e, t
<1>4. /\ e \in {1, 2} /\ t \in Nat /\ Terminator(out) = t + e
      /\ Slots(out) = Slots(img)
      /\ \A k : Readable(out, k) = Readable(img, k)
      /\ \A k \in Slots(img) :
           k >= t + e /\ Readable(img, k) => Tag(out, k) = Tag(img, k) /\ Val(out, k) = Val(img, k)
  BY <1>1 DEF NewArray
<1>5. ASSUME NEW k \in 1..e PROVE t + k \in SpareSlotsIn(img)
  <2>1. t + k \in Slots(img) /\ t + k > t
    BY <1>3, <1>4
  <2>2. ASSUME NEW j \in (t + 1)..(t + k) PROVE Zero(img, j)
    <3>1. j - t \in 1..e /\ t + (j - t) = j
      BY <1>4
    <3> QED
      BY <1>2, <3>1
  <2> QED
    BY <2>1, <2>2 DEF SpareSlotsIn, t
<1>6. ASSUME NEW k \in SpareSlotsIn(out) PROVE k \in SpareSlotsIn(img)
  <2>1. k \in Slots(img) /\ k \in Nat /\ k > t + e /\ \A j \in (t + e + 1)..k : Zero(out, j)
    BY <1>3, <1>4, <1>6 DEF SpareSlotsIn
  <2>2. ASSUME NEW j \in (t + 1)..k PROVE Zero(img, j)
    <3>1. CASE j <= t + e
      <4>1. j - t \in 1..e /\ t + (j - t) = j
        BY <1>4, <3>1
      <4> QED
        BY <1>2, <4>1
    <3>2. CASE ~ (j <= t + e)
      <4>1. j \in (t + e + 1)..k /\ j >= t + e /\ j \in Nat /\ j <= k
        BY <1>4, <2>1, <3>2
      <4>2. Zero(out, j)
        BY <2>1, <4>1
      <4>3. j \in Slots(img)
        <5>1. Shaped(img) /\ Segments(img, "DYNAMIC") # {}
          BY DEF Rewritable, Executable, Accepted
        <5> QED
          BY <2>1, <4>1, <5>1, SlotOffsets
      <4> QED
        BY <1>4, <4>1, <4>2, <4>3 DEF Zero
    <3> QED
      BY <3>1, <3>2
  <2>3. k > t
    BY <1>4, <2>1
  <2> QED
    BY <2>1, <2>2, <2>3 DEF SpareSlotsIn, t
<1> QED
  BY <1>5, <1>6 DEF e, t

\* What is left of the padding is zero and comes first.
LEMMA FreeStaysZero ==
  ASSUME NEW img, NEW name, NEW rpath, Rewritable(img, name, rpath),
         NEW out, out = rewrite_elf(img, name, rpath)
  PROVE  FreeIsZero(out)
<1> DEFINE new == NewStrings(name, rpath)
           n == Len(new)
           size == ValueOf(img, DT_STRSZ)
           e == EntriesNeeded(rpath)
           o == Slot(img, 0)
           t == Terminator(img)
           z == SizeSlot(img)
           st == StringsStart(img)
<1>1. Layout(img, e, o, t, z, st, n)
  BY TheLayout
<1>2. Patched(out, img, rpath, Len(name), size, new, o, t, z, st)
  BY RewriteWrites
<1>3. NewArray(out, img, rpath, Len(name), size, n, e, t, z)
  BY TheNewArray
<1>4. StringsStart(out) = st + n
  BY TheNewTable DEF NewTable
<1>5. st \in Nat /\ StrtabOffset(img) \in Nat /\ StrtabOffset(img) <= st
  BY StringTable DEF Rewritable
<1>6. /\ FreeSlots(img) \subseteq SpareSlotsIn(img)
      /\ \E end \in PaddingEnds(img) : FreeBytes(img) \subseteq st..(end - 1)
      /\ StringsLoaded(img)
  BY Zenon DEF Rewritable, Executable, FreeIsZero
<1>7. (rpath # NoName) <=> (e = 2)
  BY DEF EntriesNeeded
<1> HIDE DEF new, n, size, e, o, t, z, st
<1>8. /\ o \in Nat /\ t \in Nat /\ z \in 0..(t - 1) /\ n \in Nat /\ e \in {1, 2}
      /\ Len(img.cells) \in Nat /\ st + n <= Len(img.cells)
      /\ 0..(t + e) \subseteq Slots(img)
      /\ \A k \in Slots(img) : k \in Nat /\ Slot(img, k) = o + 2 * k
  BY <1>1 DEF Layout
<1>9. /\ out.free = img.free
      /\ Len(out.cells) = Len(img.cells)
      /\ Slots(out) = Slots(img)
      /\ \A k : Slot(out, k) = Slot(img, k) /\ Readable(out, k) = Readable(img, k)
      /\ \A k \in Slots(img) :
           k >= t + e /\ Readable(img, k) => Tag(out, k) = Tag(img, k) /\ Val(out, k) = Val(img, k)
      /\ Terminator(out) = t + e
  BY <1>3 DEF NewArray
<1>10. FreeSlots(out) \subseteq SpareSlotsIn(out)
  <2> SUFFICES ASSUME NEW k \in FreeSlots(out) PROVE k \in SpareSlotsIn(out)
    OBVIOUS
  <2>1. k \in Slots(img) /\ k \in Nat /\ k > t + e /\ {Slot(img, k), Slot(img, k) + 1} \subseteq img.free
    BY <1>8, <1>9 DEF FreeSlots
  <2>2. k \in FreeSlots(img)
    BY <1>8, <2>1 DEF FreeSlots, t
  <2>3. \A j \in (t + 1)..k : Zero(img, j)
    BY <1>6, <2>2 DEF SpareSlotsIn, t
  <2>4. ASSUME NEW j \in (t + e + 1)..k PROVE Zero(out, j)
    <3>1. j \in (t + 1)..k /\ j \in Nat /\ j <= k /\ j >= t + e
      BY <1>8, <2>1
    <3>2. Zero(img, j)
      BY <2>3, <3>1
    <3>3. j \in Slots(img)
      <4>1. Shaped(img) /\ Segments(img, "DYNAMIC") # {}
        BY DEF Rewritable, Executable, Accepted
      <4> QED
        BY <2>1, <3>1, <4>1, SlotOffsets
    <3> QED
      BY <1>9, <3>1, <3>2, <3>3 DEF Zero
  <2> QED
    BY <1>9, <2>1, <2>4 DEF SpareSlotsIn
<1>11. PICK end \in PaddingEnds(img) : FreeBytes(img) \subseteq st..(end - 1)
  BY <1>6
<1>12. end \in st..Len(img.cells) /\ \A off \in st..(end - 1) : Cell(img, off) = 0
  BY <1>11, Zenon DEF PaddingEnds, st
<1>13. FreeBytes(out) \subseteq (st + n)..(end - 1)
  <2> SUFFICES ASSUME NEW off \in FreeBytes(out) PROVE off \in (st + n)..(end - 1)
    OBVIOUS
  <2>1. /\ off \in img.free /\ off >= st + n
        /\ off \notin {Slot(img, k) + d : k \in Slots(img), d \in {0, 1}}
    BY <1>4, <1>9 DEF FreeBytes
  <2>2. off \in Int
    <3>1. off \in 0..(Len(img.cells) - 1)
      BY <2>1 DEF Rewritable, Executable, Shaped
    <3> QED
      BY <3>1
  <2>3. off \in FreeBytes(img)
    BY <1>5, <1>8, <2>1, <2>2 DEF FreeBytes, st
  <2> QED
    BY <1>5, <1>11, <1>12, <2>1, <2>2, <2>3
<1>14. \A off \in (st + n)..(end - 1) : Cell(out, off) = 0
  <2> SUFFICES ASSUME NEW off \in (st + n)..(end - 1) PROVE Cell(out, off) = 0
    OBVIOUS
  <2>0. /\ off \in Int /\ st + n <= off /\ off <= end - 1 /\ end \in Int /\ end <= Len(img.cells)
        /\ st \in Nat /\ n \in Nat /\ Len(img.cells) \in Nat
    BY <1>5, <1>8, <1>12
  <2>1. off \in st..(end - 1) /\ off \in 0..(Len(img.cells) - 1) /\ off \notin st..(st + n - 1)
        /\ off \in StrtabOffset(img)..(end - 1)
    BY <1>5, <2>0
  <2>2. ASSUME NEW k \in 0..(t + e) PROVE off # o + 2 * k /\ off # o + 2 * k + 1
    <3>1. k \in Slots(img) /\ Slot(img, k) = o + 2 * k
      BY <1>8
    <3>2. {Slot(img, k), Slot(img, k) + 1} \cap (StrtabOffset(img)..(end - 1)) = {}
      BY <1>6, <1>11, <3>1, Zenon DEF StringsLoaded
    <3> QED
      BY <2>1, <3>1, <3>2
  <2>3. off # o + 2 * t /\ off # o + 2 * t + 1 /\ off # o + 2 * z + 1
    <3>1. t \in 0..(t + e) /\ z \in 0..(t + e)
      BY <1>8
    <3> QED
      BY <2>2, <3>1
  <2>4. rpath # NoName => off # o + 2 * t + 2 /\ off # o + 2 * t + 3
    <3> SUFFICES ASSUME rpath # NoName PROVE off # o + 2 * t + 2 /\ off # o + 2 * t + 3
      OBVIOUS
    <3> DEFINE k == t + 1
    <3>1. k \in 0..(t + e) /\ o + 2 * k = o + 2 * t + 2 /\ o + 2 * k + 1 = o + 2 * t + 3
      BY <1>7, <1>8
    <3> HIDE DEF k
    <3> QED
      BY <2>2, <3>1
  <2>5. Cell(out, off) = Cell(img, off)
    <3>1. \/ Cell(out, off) = Cell(img, off)
          \/ off \in {o + 2 * t, o + 2 * t + 1, o + 2 * z + 1}
          \/ rpath # NoName /\ off \in {o + 2 * t + 2, o + 2 * t + 3}
          \/ off \in st..(st + n - 1)
      BY <1>2, <2>1 DEF Patched, n
    <3> QED
      BY <2>1, <2>3, <2>4, <3>1
  <2> QED
    BY <1>12, <2>1, <2>5
<1>15. \E last \in PaddingEnds(out) : FreeBytes(out) \subseteq StringsStart(out)..(last - 1)
  <2>1. CASE st + n <= end
    <3>1. end \in PaddingEnds(out)
      <4>1. end \in (st + n)..Len(out.cells)
        BY <1>5, <1>8, <1>9, <1>12, <2>1
      <4> QED
        BY <1>4, <1>14, <4>1 DEF PaddingEnds
    <3> QED
      BY <1>4, <1>13, <3>1
  <2>2. CASE ~ (st + n <= end)
    <3>1. st + n \in PaddingEnds(out)
      <4>1. st + n \in (st + n)..Len(out.cells) /\ (st + n)..((st + n) - 1) = {}
        BY <1>5, <1>8, <1>9
      <4> QED
        BY <1>4, <4>1 DEF PaddingEnds
    <3>2. (st + n)..(end - 1) = {}
      BY <1>5, <1>8, <1>12, <2>2
    <3> QED
      BY <1>4, <1>13, <3>1, <3>2
  <2> QED
    BY <2>1, <2>2
<1> QED
  BY <1>10, <1>15 DEF FreeIsZero

\* It is one again.
LEMMA StaysExecutable ==
  ASSUME NEW img, NEW name, NEW rpath, Rewritable(img, name, rpath),
         NEW out, out = rewrite_elf(img, name, rpath)
  PROVE  Accepted(out) /\ Executable(out)
<1> DEFINE t == Terminator(img)
<1>1. NewArray(out, img, rpath, Len(name), ValueOf(img, DT_STRSZ), Len(NewStrings(name, rpath)),
               EntriesNeeded(rpath), t, SizeSlot(img))
  BY TheNewArray
<1>2. /\ Entries(out, DT_STRTAB) = Entries(img, DT_STRTAB)
      /\ Entries(out, DT_STRSZ) = Entries(img, DT_STRSZ)
      /\ Entries(out, DT_NEEDED) = Entries(img, DT_NEEDED) \cup {t}
      /\ Entries(out, DT_RUNPATH) = Entries(img, DT_RUNPATH)
           \cup (IF rpath = NoName THEN {} ELSE {t + 1})
      /\ ValueOf(out, DT_STRTAB) = ValueOf(img, DT_STRTAB)
  BY NewEntriesAre
<1>3. /\ Shaped(out)
      /\ out.phdrs = img.phdrs /\ out.elf = img.elf /\ out.headers = img.headers /\ out.free = img.free
      /\ Slots(out) = Slots(img)
      /\ \A k : Slot(out, k) = Slot(img, k)
      /\ Terminates(out)
  BY <1>1 DEF NewArray
<1>4. /\ \A w : Loading(out, w) = Loading(img, w)
      /\ \A w : vaddr_to_file_offset(out, w) = vaddr_to_file_offset(img, w)
      /\ Segments(out, "DYNAMIC") = Segments(img, "DYNAMIC")
  BY <1>3 DEF Loading, vaddr_to_file_offset, Segments
<1>5. Executable(img) /\ Accepted(img)
  BY DEF Rewritable
<1>6. Accepted(out)
  BY <1>2, <1>3, <1>4, <1>5 DEF Accepted, Located
<1>7. EntriesFit(out)
  <2>1. \A j, k \in Entries(out, DT_STRSZ) : j = k
    BY <1>2, <1>5 DEF Executable, EntriesFit
  <2>2. ASSUME NEW k \in Entries(out, DT_NEEDED) \cup Entries(out, DT_RUNPATH)
        PROVE  Ends(out, Val(out, k)) # {}
    <3>1. CASE k \in Entries(img, DT_NEEDED) \cup Entries(img, DT_RUNPATH)
      BY <3>1, OldNamesStay
    <3>2. CASE k = t
      BY <3>2, NewNamesAre
    <3>3. CASE rpath # NoName /\ k = t + 1
      BY <3>3, NewNamesAre
    <3> QED
      BY <1>2, <3>1, <3>2, <3>3
  <2> QED
    BY <2>1, <2>2 DEF EntriesFit
<1>8. PaddingEnds(out) \subseteq PaddingEnds(img)
  BY PaddingShrinks
<1>9. /\ Strtab(out) = Strtab(img)
      /\ StrtabOffset(out) = StrtabOffset(img)
      /\ StringsStart(out) = StringsStart(img) + Len(NewStrings(name, rpath))
      /\ Len(NewStrings(name, rpath)) \in Nat
  BY TheNewTable, NewStringsAre DEF NewTable, Rewritable, TheStrings
<1>10. StringsLoaded(out)
  <2> SUFFICES ASSUME NEW end \in PaddingEnds(out)
               PROVE  /\ \A k \in Slots(out) :
                           {Slot(out, k), Slot(out, k) + 1} \cap (StrtabOffset(out)..(end - 1)) = {}
                      /\ \A d \in 0..(end - StrtabOffset(out) - 1) :
                           /\ Loading(out, Strtab(out) + d) # {}
                           /\ vaddr_to_file_offset(out, Strtab(out) + d) = StrtabOffset(out) + d
    BY Zenon DEF StringsLoaded
  <2>1. end \in PaddingEnds(img)
    BY <1>8
  <2>2. /\ \A k \in Slots(img) :
             {Slot(img, k), Slot(img, k) + 1} \cap (StrtabOffset(img)..(end - 1)) = {}
        /\ \A d \in 0..(end - StrtabOffset(img) - 1) :
             /\ Loading(img, Strtab(img) + d) # {}
             /\ vaddr_to_file_offset(img, Strtab(img) + d) = StrtabOffset(img) + d
    BY <1>5, <2>1, Zenon DEF Executable, StringsLoaded
  <2> QED
    BY <1>3, <1>4, <1>9, <2>2
<1>11. ZerosAreFree(out)
  <2>1. ASSUME NEW end \in PaddingEnds(out) PROVE StringsStart(out)..(end - 1) \subseteq out.free
    <3>1. StringsStart(img)..(end - 1) \subseteq img.free
      BY <1>5, <1>8 DEF Executable, ZerosAreFree
    <3>2. StringsStart(img) \in Nat
      BY <1>5, StringTable
    <3> QED
      BY <1>3, <1>9, <3>1, <3>2
  <2>2. ASSUME NEW k \in SpareSlotsIn(out) PROVE {Slot(out, k), Slot(out, k) + 1} \subseteq out.free
    <3>1. k \in SpareSlotsIn(img)
      BY SpareSlotsShrink
    <3> QED
      BY <1>3, <1>5, <3>1 DEF Executable, ZerosAreFree
  <2> QED
    BY <2>1, <2>2 DEF ZerosAreFree
<1>12. FreeIsZero(out)
  BY FreeStaysZero
<1> QED
  BY <1>3, <1>6, <1>7, <1>10, <1>11, <1>12 DEF Executable

\* Of the cells in use, it changes the terminator and the size of the string
\* table; and its own terminator stands on a free slot.
LEMMA OnlyPaddingIsTaken ==
  ASSUME NEW img, NEW name, NEW rpath, Rewritable(img, name, rpath),
         NEW out, out = rewrite_elf(img, name, rpath)
  PROVE  /\ \A off \in 0..(Len(img.cells) - 1) :
              \/ Cell(out, off) = Cell(img, off)
              \/ off \in img.free
              \/ off \in {Slot(img, Terminator(img)), Slot(img, Terminator(img)) + 1}
              \/ off = Slot(img, SizeSlot(img)) + 1
         /\ {Slot(img, Terminator(out)), Slot(img, Terminator(out)) + 1} \subseteq img.free
<1> DEFINE new == NewStrings(name, rpath)
           size == ValueOf(img, DT_STRSZ)
           e == EntriesNeeded(rpath)
           o == Slot(img, 0)
           t == Terminator(img)
           z == SizeSlot(img)
           st == StringsStart(img)
<1>1. Layout(img, e, o, t, z, st, Len(new))
  BY TheLayout
<1>2. Patched(out, img, rpath, Len(name), size, new, o, t, z, st)
  BY RewriteWrites
<1>3. Terminator(out) = t + e
  BY TheNewArray DEF NewArray
<1>4. \A k \in 1..e : t + k \in SpareSlotsIn(img)
  BY SpareSlotsShrink
<1>5. /\ \A end \in PaddingEnds(img) : st..(end - 1) \subseteq img.free
      /\ \A k \in SpareSlotsIn(img) : {Slot(img, k), Slot(img, k) + 1} \subseteq img.free
  BY DEF Rewritable, Executable, ZerosAreFree
<1>6. st + Len(new) \in PaddingEnds(img)
  BY RoomIsThere
<1>7. (rpath # NoName) <=> (e = 2)
  BY DEF EntriesNeeded
<1> HIDE DEF new, size, e, o, t, z, st
<1>8. /\ o \in Nat /\ t \in Nat /\ z \in 0..(t - 1) /\ e \in {1, 2}
      /\ 0..(t + e) \subseteq Slots(img)
      /\ \A k \in Slots(img) : Slot(img, k) = o + 2 * k
  BY <1>1 DEF Layout
<1>9. Slot(img, t) = o + 2 * t /\ Slot(img, z) = o + 2 * z
  <2>1. t \in 0..(t + e) /\ z \in 0..(t + e)
    BY <1>8
  <2> QED
    BY <1>8, <2>1
<1>10. {Slot(img, t + e), Slot(img, t + e) + 1} \subseteq img.free
  <2>1. e \in 1..e
    BY <1>8
  <2> QED
    BY <1>4, <1>5, <2>1
<1>11. e = 2 => {o + 2 * t + 2, o + 2 * t + 3} \subseteq img.free
  <2> SUFFICES ASSUME e = 2 PROVE {o + 2 * t + 2, o + 2 * t + 3} \subseteq img.free
    OBVIOUS
  <2>1. 1 \in 1..e /\ t + 1 \in 0..(t + e)
    BY <1>8
  <2>2. Slot(img, t + 1) = o + 2 * (t + 1)
    BY <1>8, <2>1
  <2>3. Slot(img, t + 1) = o + 2 * t + 2 /\ Slot(img, t + 1) + 1 = o + 2 * t + 3
    BY <1>8, <2>2
  <2>4. {Slot(img, t + 1), Slot(img, t + 1) + 1} \subseteq img.free
    BY <1>4, <1>5, <2>1
  <2> QED
    BY <2>3, <2>4
<1>12. st..(st + Len(new) - 1) \subseteq img.free
  <2> DEFINE end == st + Len(new)
  <2>1. end \in PaddingEnds(img) /\ st..(end - 1) = st..(st + Len(new) - 1)
    <3>1. st \in Nat /\ Len(new) \in Nat
      BY <1>1 DEF Layout
    <3>2. end - 1 = st + Len(new) - 1
      BY <3>1
    <3> QED
      BY <1>6, <3>2
  <2> HIDE DEF end
  <2>2. st..(end - 1) \subseteq img.free
    BY <1>5, <2>1
  <2> QED
    BY <2>1, <2>2
<1>13. ASSUME NEW off \in 0..(Len(img.cells) - 1)
       PROVE  \/ Cell(out, off) = Cell(img, off)
              \/ off \in img.free
              \/ off \in {Slot(img, t), Slot(img, t) + 1}
              \/ off = Slot(img, z) + 1
  <2>1. \/ Cell(out, off) = Cell(img, off)
        \/ off \in {o + 2 * t, o + 2 * t + 1, o + 2 * z + 1}
        \/ rpath # NoName /\ off \in {o + 2 * t + 2, o + 2 * t + 3}
        \/ off \in st..(st + Len(new) - 1)
    BY <1>2 DEF Patched
  <2> QED
    BY <1>7, <1>9, <1>11, <1>12, <2>1
<1> QED
  BY <1>3, <1>10, <1>13 DEF t, z

-----------------------------------------------------------------------------
(***************************************************************************)
(* Any number of rewrites.                                                 *)
(***************************************************************************)

\* The libraries of a file are a sequence.
LEMMA NeededIsASequence ==
  ASSUME NEW img, Terminator(img) \in Nat
  PROVE  \E V : Needed(img) \in Seq(V)
<1> DEFINE t == Terminator(img)
           V == {StringAt(img, Val(img, k)) : k \in 0..(t - 1)}
           L == Libraries(img)
           N == {k \in Nat : k <= t => L[k] \in Seq(V)}
<1>1. /\ L[0] = <<>>
      /\ \A k \in 1..t : L[k] = IF Tag(img, k - 1) = DT_NEEDED
                                THEN Append(L[k - 1], StringAt(img, Val(img, k - 1)))
                                ELSE L[k - 1]
  BY LibrariesAre
<1>2. \A k \in 0..(t - 1) : StringAt(img, Val(img, k)) \in V
  OBVIOUS
<1>3. t \in Nat
  OBVIOUS
<1>4. Needed(img) = L[t]
  BY DEF Needed
<1> HIDE DEF t, V, L
<1>5. 0 \in N
  <2>1. L[0] = <<>>
    BY <1>1
  <2>2. <<>> \in Seq(V)
    OBVIOUS
  <2> QED
    BY <2>1, <2>2
<1>6. ASSUME NEW k \in Nat, k \in N PROVE k + 1 \in N
  <2> SUFFICES ASSUME k + 1 <= t PROVE L[k + 1] \in Seq(V)
    OBVIOUS
  <2>1. L[k] \in Seq(V) /\ k \in 0..(t - 1) /\ k + 1 \in 1..t /\ (k + 1) - 1 = k
    BY <1>3, <1>6
  <2> DEFINE j == k + 1
             x == StringAt(img, Val(img, k))
  <2> HIDE DEF j, N
  <2>2. L[j] = IF Tag(img, k) = DT_NEEDED THEN Append(L[k], x) ELSE L[k]
    BY <1>1, <2>1 DEF j
  <2>3. x \in V
    BY <1>2, <2>1
  <2> HIDE DEF x
  <2>4. L[j] \in Seq(V)
    BY <2>1, <2>2, <2>3
  <2> QED
    BY <2>4 DEF j
<1> HIDE DEF N
<1>7. Nat \subseteq N
  BY <1>5, <1>6, SetInduction
<1>8. t \in N /\ t <= t
  BY <1>3, <1>7
<1> QED
  BY <1>4, <1>8 DEF N

\* What was read and one more is what was read, and one more.
Associates(s, u, x) == Append(s \o u, x) = s \o Append(u, x)

\* This holds of all sequences.
LEMMA OneMore ==
  ASSUME NEW U, NEW s \in Seq(U), NEW u \in Seq(U), NEW x \in U
  PROVE  Associates(s, u, x)
<1>1. s \in Seq(U) /\ u \in Seq(U) /\ x \in U
  OBVIOUS
<1>2. Append(s \o u, x) = (s \o u) \o <<x>> /\ Append(u, x) = u \o <<x>> /\ <<x>> \in Seq(U)
  <2>1. s \o u \in Seq(U)
    BY <1>1
  <2> QED
    BY <1>1, <2>1, AppendIsConcat
<1>3. (s \o u) \o <<x>> = s \o (u \o <<x>>)
  BY <1>1, <1>2, ConcatAssociative
<1> QED
  BY <1>2, <1>3 DEF Associates

\* The file against the one it was made from: the names that were added are
\* read after its own, and of its cells in use two kinds have changed.
SinceTheFirst ==
  /\ image.phdrs = original.phdrs /\ image.free = original.free
  /\ Len(image.cells) = Len(original.cells)
  /\ \A k : Slot(image, k) = Slot(original, k)
  /\ Entries(image, DT_STRSZ) = Entries(original, DT_STRSZ)
  /\ \/ Terminator(image) = Terminator(original)
     \/ {Slot(image, Terminator(image)), Slot(image, Terminator(image)) + 1} \subseteq original.free
  /\ \A off \in 0..(Len(original.cells) - 1) :
       \/ Cell(image, off) = Cell(original, off)
       \/ off \in original.free
       \/ off \in {Slot(original, Terminator(original)), Slot(original, Terminator(original)) + 1}
       \/ off = Slot(original, SizeSlot(original)) + 1
  /\ Needed(image) = Needed(original) \o added
  /\ Runpath(image) = IF runpath = NoName THEN Runpath(original) ELSE runpath

\* The inductive invariant: a file that was accepted still is, with all that
\* linkers put into it; another is never changed.
ElfInv ==
  /\ part \in {"elf", "macho", "sign"}
  /\ added \in Seq(Names)
  /\ part = "macho" => added = <<>>
  /\ part # "macho" =>
       /\ original \in Images
       /\ ~Accepted(original) => image = original /\ added = <<>>
       /\ Accepted(original) => Accepted(image) /\ Executable(image) /\ SinceTheFirst

\* A rewrite keeps it.
LEMMA RewriteKeeps ==
  ASSUME ElfInv, part # "macho", NEW name \in Names, NEW rpath \in Names \cup {NoName},
         Status(image, name, rpath) = "Ok",
         image' = rewrite_elf(image, name, rpath), added' = Append(added, name),
         runpath' = IF rpath = NoName THEN runpath ELSE rpath,
         original' = original, part' = part
  PROVE  ElfInv'
<1>1. Accepted(image)
  BY DEF Status, Accepted
<1>2. Accepted(original) /\ Executable(image) /\ SinceTheFirst
  BY <1>1 DEF ElfInv
<1>3. Rewritable(image, name, rpath)
  BY <1>1, <1>2 DEF Rewritable
<1>4. Accepted(image') /\ Executable(image')
  BY <1>3, StaysExecutable
<1>5. /\ image'.phdrs = image.phdrs /\ image'.free = image.free
      /\ Len(image'.cells) = Len(image.cells)
      /\ \A k : Slot(image', k) = Slot(image, k)
  BY <1>3, TheNewArray DEF NewArray
<1>6. Entries(image', DT_STRSZ) = Entries(image, DT_STRSZ)
  BY <1>3, NewEntriesAre
<1>7. /\ \A off \in 0..(Len(image.cells) - 1) :
           \/ Cell(image', off) = Cell(image, off)
           \/ off \in image.free
           \/ off \in {Slot(image, Terminator(image)), Slot(image, Terminator(image)) + 1}
           \/ off = Slot(image, SizeSlot(image)) + 1
      /\ {Slot(image, Terminator(image')), Slot(image, Terminator(image')) + 1} \subseteq image.free
  BY <1>3, OnlyPaddingIsTaken
<1>8. SizeSlot(image) = SizeSlot(original)
  BY <1>2 DEF SinceTheFirst, SizeSlot
<1>9. \A off \in 0..(Len(original.cells) - 1) :
        \/ Cell(image', off) = Cell(original, off)
        \/ off \in original.free
        \/ off \in {Slot(original, Terminator(original)), Slot(original, Terminator(original)) + 1}
        \/ off = Slot(original, SizeSlot(original)) + 1
  <2> SUFFICES ASSUME NEW off \in 0..(Len(original.cells) - 1)
               PROVE  \/ Cell(image', off) = Cell(original, off)
                      \/ off \in original.free
                      \/ off \in {Slot(original, Terminator(original)),
                                  Slot(original, Terminator(original)) + 1}
                      \/ off = Slot(original, SizeSlot(original)) + 1
    OBVIOUS
  <2>1. /\ image.free = original.free /\ Len(image.cells) = Len(original.cells)
        /\ \A k : Slot(image, k) = Slot(original, k)
        /\ \/ Terminator(image) = Terminator(original)
           \/ {Slot(image, Terminator(image)), Slot(image, Terminator(image)) + 1}
                \subseteq original.free
        /\ \/ Cell(image, off) = Cell(original, off)
           \/ off \in original.free
           \/ off \in {Slot(original, Terminator(original)),
                       Slot(original, Terminator(original)) + 1}
           \/ off = Slot(original, SizeSlot(original)) + 1
    BY <1>2 DEF SinceTheFirst
  <2>2. \/ Cell(image', off) = Cell(image, off)
        \/ off \in image.free
        \/ off \in {Slot(image, Terminator(image)), Slot(image, Terminator(image)) + 1}
        \/ off = Slot(image, SizeSlot(image)) + 1
    BY <1>7, <2>1
  <2> QED
    BY <1>8, <2>1, <2>2
<1>10. Needed(image') = Needed(original) \o added' /\ added' \in Seq(Names)
  <2>1. Needed(image') = Append(Needed(image), name)
    BY <1>3, NeededGrows
  <2>2. Needed(image) = Needed(original) \o added /\ added \in Seq(Names)
    BY <1>2 DEF SinceTheFirst, ElfInv
  <2>3. Terminator(original) \in Nat
    <3>1. Accepted(original) /\ Executable(original)
      BY <1>2, ElfAssumption DEF ElfInv
    <3> QED
      BY <3>1, TheTerminator DEF Executable, Accepted, Located
  <2>4. PICK V : Needed(original) \in Seq(V)
    BY <2>3, NeededIsASequence
  <2>5. Append(Needed(original) \o added, name) = Needed(original) \o Append(added, name)
    <3> DEFINE s == Needed(original)
               U == V \cup Names
    <3>1. s \in Seq(U) /\ added \in Seq(U) /\ name \in U
      BY <2>2, <2>4
    <3> HIDE DEF s, U
    <3>2. Associates(s, added, name)
      BY <3>1, OneMore
    <3> QED
      BY <3>2 DEF s, Associates
  <2>6. added' \in Seq(Names)
    BY <2>2
  <2> QED
    BY <2>1, <2>2, <2>5, <2>6
<1>11. Runpath(image') = IF runpath' = NoName THEN Runpath(original) ELSE runpath'
  <2>1. Runpath(image') = IF rpath = NoName THEN Runpath(image) ELSE rpath
    BY <1>3, RunpathIs
  <2>2. Runpath(image) = IF runpath = NoName THEN Runpath(original) ELSE runpath
    BY <1>2 DEF SinceTheFirst
  <2> QED
    BY <2>1, <2>2
<1>12. SinceTheFirst'
  <2>1. /\ image'.phdrs = original'.phdrs /\ image'.free = original'.free
        /\ Len(image'.cells) = Len(original'.cells)
        /\ \A k : Slot(image', k) = Slot(original', k)
        /\ Entries(image', DT_STRSZ) = Entries(original', DT_STRSZ)
    BY <1>2, <1>5, <1>6 DEF SinceTheFirst
  <2>2. {Slot(image', Terminator(image')), Slot(image', Terminator(image')) + 1} \subseteq original'.free
    BY <1>2, <1>5, <1>7 DEF SinceTheFirst
  <2> QED
    BY <1>9, <1>10, <1>11, <2>1, <2>2 DEF SinceTheFirst
<1> QED
  BY <1>2, <1>4, <1>10, <1>12 DEF ElfInv

\* It holds in every state of every behaviour.
LEMMA ElfInvariant ==
  MCSpec => []ElfInv
<1>1. MCInit => ElfInv
  <2> SUFFICES ASSUME MCInit PROVE ElfInv
    OBVIOUS
  <2>1. part \in {"elf", "macho", "sign"} /\ added = <<>>
    BY DEF MCInit, AFile, Init
  <2>2. ASSUME part # "macho" PROVE Init
    BY <2>2 DEF MCInit, AFile
  <2>3. ASSUME part # "macho", Accepted(original)
        PROVE  Accepted(image) /\ Executable(image) /\ SinceTheFirst
    <3>1. image = original /\ original \in Images /\ added = <<>> /\ runpath = NoName
      BY <2>2, <2>3 DEF Init
    <3>2. Executable(original)
      BY <2>3, <3>1, ElfAssumption
    <3>3. Needed(original) = Needed(original) \o <<>>
      <4>1. Terminator(original) \in Nat
        BY <2>3, <3>2, TheTerminator DEF Executable, Accepted, Located
      <4>2. PICK V : Needed(original) \in Seq(V)
        BY <4>1, NeededIsASequence
      <4> QED
        BY <4>2, ConcatEmptySeq
    <3> QED
      BY <2>3, <3>1, <3>2, <3>3 DEF SinceTheFirst
  <2>4. added \in Seq(Names)
    BY <2>1
  <2> QED
    BY <2>1, <2>2, <2>3, <2>4 DEF ElfInv, Init
<1>2. ElfInv /\ [MCNext]_<<part, rewrites, vars, signVars>> => ElfInv'
  <2> SUFFICES ASSUME ElfInv, [MCNext]_<<part, rewrites, vars, signVars>> PROVE ElfInv'
    OBVIOUS
  <2>1. CASE UNCHANGED <<part, vars>>
    BY <2>1 DEF ElfInv, SinceTheFirst, vars
  <2>2. CASE ElfNext
    <3> SUFFICES ASSUME NEW name \in Names, NEW rpath \in Names \cup {NoName}, Rewrite(name, rpath)
                 PROVE  ElfInv'
      BY <2>2 DEF ElfNext, Next
    <3>1. part = "elf" /\ part' = part
      BY <2>2 DEF ElfNext
    <3>2. CASE Status(image, name, rpath) = "Ok"
      BY <3>1, <3>2, RewriteKeeps DEF Rewrite
    <3>3. CASE Status(image, name, rpath) # "Ok"
      BY <3>1, <3>3 DEF Rewrite, ElfInv, SinceTheFirst
    <3> QED
      BY <3>2, <3>3
  <2>3. CASE MachONext
    BY <2>3 DEF MachONext, ElfInv
  <2>4. CASE Signing
    BY <2>1, <2>4 DEF Signing
  <2> QED
    BY <2>1, <2>2, <2>3, <2>4 DEF MCNext
<1> QED
  BY <1>1, <1>2, PTL DEF MCSpec

\* After any number of rewrites of any executable the dynamic linker finds
\* its libraries and then each one that was added, and searches where the
\* last rewrite said (rewrite_elf, lib.rs:216-293).
THEOREM LoaderSeesAddedAlways ==
  MCSpec => []LoaderSeesAdded
<1>1. ElfInv => LoaderSeesAdded
  BY DEF ElfInv, SinceTheFirst, LoaderSeesAdded, Rewritten
<1> QED
  BY <1>1, ElfInvariant, PTL
-----------------------------------------------------------------------------
(***************************************************************************)
(* What a refusal means.                                                   *)
(***************************************************************************)

\* There are at most as many numbers in a set as in an interval that holds it.
LEMMA Within ==
  ASSUME NEW T, NEW lo \in Int, NEW hi \in Int, T \subseteq lo..hi
  PROVE  /\ IsFiniteSet(T) /\ Cardinality(T) \in Nat
         /\ Cardinality(T) <= IF lo > hi THEN 0 ELSE hi - lo + 1
<1>1. IsFiniteSet(lo..hi) /\ Cardinality(lo..hi) = IF lo > hi THEN 0 ELSE hi - lo + 1
  BY FS_Interval
<1>2. IsFiniteSet(T) /\ Cardinality(T) <= Cardinality(lo..hi)
  BY <1>1, FS_Subset
<1>3. Cardinality(T) \in Nat
  BY <1>2, FS_CardinalityType
<1> QED
  BY <1>1, <1>2, <1>3

\* Where the slots are too few or in use, the free ones are too few.
LEMMA TooFewSlots ==
  ASSUME NEW img, Executable(img), Accepted(img), NEW rpath,
         ~SlotsInSegment(img, rpath) \/ \E k \in SpareSlots(img, rpath) : ~Zero(img, k)
  PROVE  Cardinality(FreeSlots(img)) < EntriesNeeded(rpath)
<1> DEFINE t == Terminator(img)
           e == EntriesNeeded(rpath)
<1>1. Shaped(img) /\ Segments(img, "DYNAMIC") # {} /\ Terminates(img)
  BY DEF Executable, Accepted, Located
<1>2. t \in Nat /\ e \in {1, 2}
  BY <1>1, TheTerminator DEF EntriesNeeded
<1>3. /\ Slots(img) \subseteq Nat
      /\ \A k \in Slots(img), j \in Nat : j <= k => j \in Slots(img)
      /\ \A k \in Nat, j \in Nat : Readable(img, k) /\ j <= k => Readable(img, j)
  BY <1>1, SlotOffsets
<1>4. FreeSlots(img) \subseteq SpareSlotsIn(img)
  BY DEF Executable, FreeIsZero
<1>5. SpareSlots(img, rpath) = (t + 1)..(t + e)
  BY DEF SpareSlots
<1>6. (t + e) \in Slots(img) <=> SlotsInSegment(img, rpath)
  BY DEF SlotsInSegment
<1>7. \A k \in SpareSlotsIn(img) : k \in Slots(img) /\ k > t /\ \A j \in (t + 1)..k : Zero(img, j)
  BY DEF SpareSlotsIn
<1> HIDE DEF t, e
<1>8. PICK last \in t..(t + e - 1) : SpareSlotsIn(img) \subseteq (t + 1)..last
  <2>1. CASE ~SlotsInSegment(img, rpath)
    <3> DEFINE last == t + e - 1
    <3>1. last \in t..(t + e - 1)
      BY <1>2
    <3>2. ASSUME NEW k \in SpareSlotsIn(img) PROVE k \in (t + 1)..last
      <4>1. k \in Slots(img) /\ k \in Nat /\ k > t
        BY <1>3, <1>7
      <4>2. t + e \in Nat /\ ~ (t + e <= k)
        BY <1>2, <1>3, <1>6, <2>1, <4>1
      <4> QED
        BY <1>2, <4>1, <4>2
    <3> QED
      BY <3>1, <3>2
  <2>2. CASE SlotsInSegment(img, rpath)
    <3>1. PICK w \in (t + 1)..(t + e) : ~Zero(img, w)
      BY <1>5, <2>2
    <3> DEFINE last == w - 1
    <3>2. last \in t..(t + e - 1)
      BY <1>2, <3>1
    <3>3. ASSUME NEW k \in SpareSlotsIn(img) PROVE k \in (t + 1)..last
      <4>1. k \in Nat /\ k > t /\ \A j \in (t + 1)..k : Zero(img, j)
        BY <1>3, <1>7
      <4>2. w \in Nat /\ w \notin (t + 1)..k
        BY <1>2, <3>1, <4>1
      <4> QED
        BY <1>2, <3>1, <4>1, <4>2
    <3> QED
      BY <3>2, <3>3
  <2> QED
    BY <2>1, <2>2
<1>9. FreeSlots(img) \subseteq (t + 1)..last /\ t + 1 \in Int /\ last \in Int
  BY <1>2, <1>4, <1>8
<1>10. Cardinality(FreeSlots(img)) <= (IF t + 1 > last THEN 0 ELSE last - (t + 1) + 1)
       /\ Cardinality(FreeSlots(img)) \in Nat
  BY <1>9, Within
<1> QED
  BY <1>2, <1>8, <1>10 DEF e

\* Where the bytes are too few or in use, the free ones are too few.
LEMMA TooFewBytes ==
  ASSUME NEW img, Executable(img), Accepted(img), NEW name \in Names,
         NEW rpath \in Names \cup {NoName}, ~StringsFree(img, NewStrings(name, rpath))
  PROVE  Cardinality(FreeBytes(img)) < Len(NewStrings(name, rpath))
<1> DEFINE n == Len(NewStrings(name, rpath))
           st == StringsStart(img)
<1>1. n \in Nat /\ n >= 1
  BY NewStringsAre, SMTT(30) DEF TheStrings
<1>2. st \in Nat
  BY StringTable
<1>3. ~ (st + n <= Len(img.cells) /\ \A off \in st..((st + n) - 1) : Cell(img, off) = 0)
  BY DEF StringsFree
<1>4. PICK end \in PaddingEnds(img) : FreeBytes(img) \subseteq st..(end - 1)
  BY DEF Executable, FreeIsZero
<1>5. end \in st..Len(img.cells) /\ \A off \in st..(end - 1) : Cell(img, off) = 0
  BY <1>4, Zenon DEF PaddingEnds
<1>6. Len(img.cells) \in Nat
  BY CellsAreNumbers DEF Executable
<1> HIDE DEF n, st
<1>7. end \in Nat /\ st <= end /\ end < st + n
  <2>1. end \in Nat /\ st <= end
    BY <1>2, <1>5
  <2>2. ASSUME ~ (end < st + n) PROVE FALSE
    <3>1. st + n <= Len(img.cells)
      BY <1>1, <1>2, <1>5, <1>6, <2>1, <2>2
    <3>2. \A off \in st..((st + n) - 1) : off \in st..(end - 1)
      BY <1>1, <1>2, <2>1, <2>2
    <3> QED
      BY <1>3, <1>5, <3>1, <3>2
  <2> QED
    BY <2>1, <2>2
<1>8. /\ Cardinality(FreeBytes(img)) <= (IF st > end - 1 THEN 0 ELSE (end - 1) - st + 1)
      /\ Cardinality(FreeBytes(img)) \in Nat
  <2>1. end - 1 \in Int /\ st \in Int
    BY <1>2, <1>7
  <2> QED
    BY <1>4, <2>1, Within
<1>9. Cardinality(FreeBytes(img)) < n
  BY <1>1, <1>2, <1>7, <1>8
<1> QED
  BY <1>9 DEF n

\* So an ELF file is refused for want of space only when there is too little.
LEMMA ElfRefusesWhenFull ==
  ASSUME ElfInv, part # "macho"
  PROVE  RefusedOnlyWhenFull
<1> SUFFICES ASSUME NEW name \in Names, NEW rpath \in Names \cup {NoName},
                    Status(image, name, rpath) = "NoFreeStringTableSpace"
             PROVE  \/ Cardinality(FreeSlots(image)) < EntriesNeeded(rpath)
                    \/ Cardinality(FreeBytes(image)) < Len(NewStrings(name, rpath))
  BY DEF RefusedOnlyWhenFull
<1>1. Accepted(image)
  BY DEF Status, Accepted
<1>2. Executable(image)
  BY <1>1 DEF ElfInv
<1>3. \/ ~SlotsInSegment(image, rpath)
      \/ \E k \in SpareSlots(image, rpath) : ~Zero(image, k)
      \/ ~StringsFree(image, NewStrings(name, rpath))
  BY DEF Status
<1>4. CASE ~SlotsInSegment(image, rpath)
  BY <1>1, <1>2, <1>4, TooFewSlots
<1>5. CASE \E k \in SpareSlots(image, rpath) : ~Zero(image, k)
  BY <1>1, <1>2, <1>5, TooFewSlots
<1>6. CASE ~StringsFree(image, NewStrings(name, rpath))
  BY <1>1, <1>2, <1>6, TooFewBytes
<1> QED
  BY <1>3, <1>4, <1>5, <1>6
=============================================================================
