----------------------------- MODULE ElfRewrite -----------------------------
(***************************************************************************)
(* rewrite_elf of os-rewrite-elf: a DT_NEEDED, and perhaps a DT_RUNPATH,   *)
(* is added to an executable by reusing spare slots of its dynamic array   *)
(* and zero bytes after its string table.                                  *)
(*                                                                         *)
(* A file is a sequence of cells and an offset counts cells: a cell is an  *)
(* eight-byte word of the dynamic array or a byte of the string table, so  *)
(* a dynamic entry takes two.  The rewriter may be applied to its own      *)
(* output.  What the rewritten file means is what the dynamic linker makes *)
(* of it: Needed, Runpath.                                                 *)
(***************************************************************************)
EXTENDS Integers, Sequences, FiniteSets, SequencesExt

CONSTANTS
  Images,       \* executables the rewriter is given
  Names,        \* strings to add, sequences of characters
  NoName,       \* rpath_entry: None
  MaxRewrites   \* bound: rewrites of one file

DT_NULL == 0
DT_NEEDED == 1
DT_STRTAB == 5
DT_STRSZ == 10
DT_RUNPATH == 29

VARIABLES
  image,     \* the file: elf, headers (the program headers can be read), phdrs,
             \* cells; and free, the padding in it
  result,    \* what the last rewrite returned
  added,     \* history: the names added so far
  runpath,   \* history: the last DT_RUNPATH added
  original   \* history: the first file

vars == <<image, result, added, runpath, original>>

-----------------------------------------------------------------------------
(***************************************************************************)
(* Reading the file                                                        *)
(***************************************************************************)
Cell(img, off) == img.cells[off + 1]
InFile(img, off) == off < Len(img.cells)

Segments(img, type) == {i \in 1..Len(img.phdrs) : img.phdrs[i].type = type}

DynSeg(img) == img.phdrs[Min(Segments(img, "DYNAMIC"))]

\* Offset of the k-th dynamic entry, its tag and its value.
Slot(img, k) == DynSeg(img).offset + 2 * k
Tag(img, k)  == Cell(img, Slot(img, k))
Val(img, k)  == Cell(img, Slot(img, k) + 1)
Readable(img, k) == InFile(img, Slot(img, k) + 1)

Slots(img) == 0..(DynSeg(img).filesz \div 2 - 1)

\* The scan for the terminator stops where the segment or the file ends.
Terminates(img) ==
  \E k \in Slots(img) :
    /\ Readable(img, k)
    /\ Tag(img, k) = DT_NULL

Terminator(img) == Min({k \in Slots(img) : Readable(img, k) /\ Tag(img, k) = DT_NULL})

\* Of entries with the same tag the last one counts.
Entries(img, tag) == {k \in 0..(Terminator(img) - 1) : Tag(img, k) = tag}
ValueOf(img, tag)    == Val(img, Max(Entries(img, tag)))

Loading(img, vaddr) ==
  {i \in Segments(img, "LOAD") :
     /\ img.phdrs[i].vaddr <= vaddr
     /\ vaddr < img.phdrs[i].vaddr + img.phdrs[i].filesz}

vaddr_to_file_offset(img, vaddr) ==
  LET h == img.phdrs[Min(Loading(img, vaddr))] IN h.offset + (vaddr - h.vaddr)

StrtabOffset(img) == vaddr_to_file_offset(img, ValueOf(img, DT_STRTAB))

-----------------------------------------------------------------------------
(***************************************************************************)
(* rewrite_elf                                                             *)
(***************************************************************************)
EntriesNeeded(rpath) == IF rpath = NoName THEN 1 ELSE 2

SpareSlots(img, rpath) ==
  (Terminator(img) + 1)..(Terminator(img) + EntriesNeeded(rpath))

Zero(img, k) == Readable(img, k) /\ Tag(img, k) = 0 /\ Val(img, k) = 0

\* The segment has a slot after the terminator for each new entry.
SlotsInSegment(img, rpath) == Terminator(img) + EntriesNeeded(rpath) \in Slots(img)

\* The first of these slots that is not zero is not in the file at all.
SlotsTruncated(img, rpath) ==
  \E k \in SpareSlots(img, rpath) :
    /\ ~Readable(img, k)
    /\ \A j \in SpareSlots(img, rpath) : j < k => Zero(img, j)

NewStrings(name, rpath) ==
  Append(name, 0) \o (IF rpath = NoName THEN <<>> ELSE Append(rpath, 0))

StringsStart(img) == StrtabOffset(img) + ValueOf(img, DT_STRSZ)

\* Mutant: the byte that closes the last string is not looked at.
StringsFreeButOne(img, new) ==
  LET end == StringsStart(img) + Len(new)
  IN  /\ end <= Len(img.cells)
      /\ \A off \in StringsStart(img)..(end - 2) : Cell(img, off) = 0

\* Mutant: the last byte of the file is never used.
StringsFreeStrict(img, new) ==
  LET end == StringsStart(img) + Len(new)
  IN  /\ end < Len(img.cells)
      /\ \A off \in StringsStart(img)..(end - 1) : Cell(img, off) = 0

StringsFree(img, new) ==
  LET end == StringsStart(img) + Len(new)
  IN  /\ end <= Len(img.cells)
      /\ \A off \in StringsStart(img)..(end - 1) : Cell(img, off) = 0

Located(img) ==
  /\ Terminates(img)
  /\ Entries(img, DT_STRTAB) # {}
  /\ Entries(img, DT_STRSZ) # {}
  /\ Loading(img, ValueOf(img, DT_STRTAB)) # {}

Status(img, name, rpath) ==
  IF ~img.elf THEN "NotExecutableOrPie"
  ELSE IF ~img.headers THEN "Malformed"
  ELSE IF Segments(img, "DYNAMIC") = {} THEN "NoDynamicSection"
  ELSE IF ~Located(img) THEN "Malformed"
  ELSE IF ~SlotsInSegment(img, rpath) THEN "NoFreeStringTableSpace"
  ELSE IF SlotsTruncated(img, rpath) THEN "Malformed"
  ELSE IF /\ \A k \in SpareSlots(img, rpath) : Zero(img, k)
          /\ StringsFree(img, NewStrings(name, rpath)) THEN "Ok"
  ELSE "NoFreeStringTableSpace"

NewEntries(img, name, rpath) ==
  LET term == Terminator(img)
      size == ValueOf(img, DT_STRSZ)
  IN  {<<Slot(img, term), DT_NEEDED>>, <<Slot(img, term) + 1, size>>}
        \cup (IF rpath = NoName THEN {}
              ELSE {<<Slot(img, term + 1), DT_RUNPATH>>,
                    <<Slot(img, term + 1) + 1, size + Len(name) + 1>>})

\* Mutant: DT_STRSZ is left as it was.
DynWritesStale(img, name, rpath) == NewEntries(img, name, rpath)

\* Mutant: DT_STRSZ is grown by the first string only.
DynWritesShort(img, name, rpath) ==
  NewEntries(img, name, rpath)
    \cup {<<Slot(img, Min(Entries(img, DT_STRSZ))) + 1, ValueOf(img, DT_STRSZ) + Len(name) + 1>>}

\* The words written to the dynamic array: the new entries from the old
\* terminator on, and the size of the string table in its first DT_STRSZ.
DynWrites(img, name, rpath) ==
  NewEntries(img, name, rpath)
    \cup {<<Slot(img, Min(Entries(img, DT_STRSZ))) + 1,
            ValueOf(img, DT_STRSZ) + Len(NewStrings(name, rpath))>>}

\* Mutant: the strings are put at the end of the file.
rewrite_elf_grown(img, name, rpath) ==
  LET writes == DynWrites(img, name, rpath)
  IN  [img EXCEPT !.cells =
         [i \in 1..Len(img.cells) |->
            IF \E w \in writes : w[1] = i - 1
            THEN (CHOOSE w \in writes : w[1] = i - 1)[2]
            ELSE img.cells[i]] \o NewStrings(name, rpath)]

rewrite_elf(img, name, rpath) ==
  LET new    == NewStrings(name, rpath)
      start  == StringsStart(img)
      writes == DynWrites(img, name, rpath)
  IN  [img EXCEPT !.cells =
         [i \in 1..Len(img.cells) |->
            IF \E w \in writes : w[1] = i - 1
            THEN (CHOOSE w \in writes : w[1] = i - 1)[2]
            ELSE IF i - 1 \in start..(start + Len(new) - 1) THEN new[i - start]
            ELSE img.cells[i]]]

-----------------------------------------------------------------------------
Init ==
  /\ image \in Images
  /\ result = "None"
  /\ added = <<>>
  /\ runpath = NoName
  /\ original = image

Rewrite(name, rpath) ==
  /\ Len(added) < MaxRewrites
  /\ result' = Status(image, name, rpath)
  /\ IF result' = "Ok"
     THEN /\ image' = rewrite_elf(image, name, rpath)
          /\ added' = Append(added, name)
          /\ runpath' = IF rpath = NoName THEN runpath ELSE rpath
     ELSE UNCHANGED <<image, added, runpath>>
  /\ UNCHANGED original

Next == \E name \in Names, rpath \in Names \cup {NoName} : Rewrite(name, rpath)

Spec == Init /\ [][Next]_vars

-----------------------------------------------------------------------------
(***************************************************************************)
(* What the dynamic linker makes of the file.  A string is read from the   *)
(* segment that is loaded at its address; it must end inside the string    *)
(* table.                                                                  *)
(***************************************************************************)
Strtab(img) == ValueOf(img, DT_STRTAB)

\* Offset of the zero that ends the string at offset o of the table.
Ends(img, o) ==
  {e \in o..(ValueOf(img, DT_STRSZ) - 1) :
     /\ Loading(img, Strtab(img) + e) # {}
     /\ Cell(img, vaddr_to_file_offset(img, Strtab(img) + e)) = 0}

StringAt(img, o) ==
  IF Ends(img, o) = {} THEN NoName
  ELSE [i \in 1..(Min(Ends(img, o)) - o) |->
          Cell(img, vaddr_to_file_offset(img, Strtab(img) + o + i - 1))]

\* The libraries it has found after each number of entries, in order.
Libraries(img) ==
  LET upTo[k \in 0..Terminator(img)] ==
        IF k = 0 THEN <<>>
        ELSE IF Tag(img, k - 1) = DT_NEEDED
        THEN Append(upTo[k - 1], StringAt(img, Val(img, k - 1)))
        ELSE upTo[k - 1]
  IN  upTo

\* All of them, and the search path it uses: the last DT_RUNPATH.
Needed(img) == Libraries(img)[Terminator(img)]

Runpath(img) ==
  IF Entries(img, DT_RUNPATH) = {} THEN NoName ELSE StringAt(img, ValueOf(img, DT_RUNPATH))

Rewritten == added # <<>>

-----------------------------------------------------------------------------
(***************************************************************************)
(* What linkers put into an executable, and rewrite_elf relies upon        *)
(* (lib.rs:11-26): the zeros it may take hold nothing and are loaded.      *)
(***************************************************************************)
Accepted(img) == img.elf /\ img.headers /\ Segments(img, "DYNAMIC") # {} /\ Located(img)

\* The ends of what could be padding after the string table.
PaddingEnds(img) ==
  {end \in StringsStart(img)..Len(img.cells) :
     \A off \in StringsStart(img)..(end - 1) : Cell(img, off) = 0}

\* The slots after the terminator that could be spare.
SpareSlotsIn(img) ==
  {k \in Slots(img) :
     k > Terminator(img) /\ \A j \in (Terminator(img) + 1)..k : Zero(img, j)}

Shaped(img) ==
  /\ img.cells \in Seq(Nat)
  /\ img.phdrs \in Seq([type : {"LOAD", "DYNAMIC"}, offset : Nat, vaddr : Nat, filesz : Nat])
  /\ img.free \subseteq 0..(Len(img.cells) - 1)

\* One DT_STRSZ, and each name ends inside the string table.
EntriesFit(img) ==
  /\ \A j, k \in Entries(img, DT_STRSZ) : j = k
  /\ \A k \in Entries(img, DT_NEEDED) \cup Entries(img, DT_RUNPATH) : Ends(img, Val(img, k)) # {}

\* The string table and the padding after it are outside the dynamic array,
\* and loaded one byte after the other.
StringsLoaded(img) ==
  \A end \in PaddingEnds(img) :
    /\ \A k \in Slots(img) :
         {Slot(img, k), Slot(img, k) + 1} \cap (StrtabOffset(img)..(end - 1)) = {}
    /\ \A e \in 0..(end - StrtabOffset(img) - 1) :
         /\ Loading(img, Strtab(img) + e) # {}
         /\ vaddr_to_file_offset(img, Strtab(img) + e) = StrtabOffset(img) + e

\* Zeros that the rewriter could take are free.
ZerosAreFree(img) ==
  /\ \A end \in PaddingEnds(img) : StringsStart(img)..(end - 1) \subseteq img.free
  /\ \A k \in SpareSlotsIn(img) : {Slot(img, k), Slot(img, k) + 1} \subseteq img.free

\* The free slots and the free bytes that come after what is in use.
FreeSlots(img) ==
  {k \in Slots(img) : k > Terminator(img) /\ {Slot(img, k), Slot(img, k) + 1} \subseteq img.free}

FreeBytes(img) ==
  {off \in img.free : off >= StringsStart(img)}
    \ {Slot(img, k) + d : k \in Slots(img), d \in {0, 1}}

\* They are the zeros that come first.
FreeIsZero(img) ==
  /\ FreeSlots(img) \subseteq SpareSlotsIn(img)
  /\ \E end \in PaddingEnds(img) : FreeBytes(img) \subseteq StringsStart(img)..(end - 1)

Executable(img) ==
  Shaped(img) /\ EntriesFit(img) /\ StringsLoaded(img) /\ ZerosAreFree(img) /\ FreeIsZero(img)

-----------------------------------------------------------------------------
(***************************************************************************)
(* Properties                                                              *)
(***************************************************************************)
\* The output has the length and the program headers of the input
\* (lib.rs:265, out = original.to_vec()) and the rewriter returns one of
\* its results.
TypeOK ==
  /\ result \in {"None", "Ok", "NotExecutableOrPie", "NoDynamicSection",
                 "NoFreeStringTableSpace", "Malformed"}
  /\ Len(image.cells) = Len(original.cells)
  /\ image.phdrs = original.phdrs
  /\ Len(added) \in 0..MaxRewrites

\* After any number of rewrites the dynamic linker finds every library of
\* the original file and then, in order, each one that was added
\* (rewrite_elf, lib.rs:216-293): no entry is lost behind a terminator, and
\* each name ends inside the string table that DT_STRSZ declares.  It looks
\* in the search path of the last rewrite that gave one, and in the original's
\* if none did (lib.rs:270-274).
LoaderSeesAdded ==
  Rewritten =>
    /\ Needed(image) = Needed(original) \o added
    /\ Runpath(image) = IF runpath = NoName THEN Runpath(original) ELSE runpath

\* Of the bytes that were in use, a rewrite changes the terminator and the
\* value of DT_STRSZ, and no other ("requiring that range to be entirely
\* zero (unused)", lib.rs:244-245).
OnlyPaddingIsUsed ==
  \A off \in 0..(Len(original.cells) - 1) :
    Cell(image, off) # Cell(original, off) =>
      \/ off \in original.free
      \/ off \in {Slot(original, Terminator(original)) + d : d \in {0, 1}}
      \/ \E k \in Entries(original, DT_STRSZ) : off = Slot(original, k) + 1

\* A rewrite is refused for want of space only when the spare slots or the
\* bytes of padding that are left are too few (RewriteError,
\* NoFreeStringTableSpace, lib.rs:71-75).
RefusedOnlyWhenFull ==
  \A name \in Names, rpath \in Names \cup {NoName} :
    Status(image, name, rpath) = "NoFreeStringTableSpace" =>
      \/ Cardinality(FreeSlots(image)) < EntriesNeeded(rpath)
      \/ Cardinality(FreeBytes(image)) < Len(NewStrings(name, rpath))
=============================================================================
