---------------------------- MODULE MachORewrite ----------------------------
(***************************************************************************)
(* rewrite_macho of os-rewrite-macho: an LC_LOAD_DYLIB takes the place of  *)
(* the code signature, or of a data-in-code command and the signature      *)
(* after it; the commands that follow are moved, and a table that grows    *)
(* does so into the zeros after it.                                        *)
(*                                                                         *)
(* A file is its two header fields and a sequence of eight-byte words, of  *)
(* which the load-command table is the first; sizes and offsets count      *)
(* words, offsets from the end of the header.  A command is a word that    *)
(* holds its kind and its size, and a body.  The file is signed again      *)
(* after a rewrite, by a tool that is not part of the repository.          *)
(***************************************************************************)
EXTENDS Integers, Sequences, FiniteSets, SequencesExt

CONSTANTS
  Images,       \* executables the rewriter is given
  Names,        \* dylib_load_path: records, the length in bytes and the words
  MaxRewrites   \* bound: rewrites of one file

LC_LOAD_DYLIB == 12
LC_CODE_SIGNATURE == 29
LC_DATA_IN_CODE == 41

\* Sizes in words: linkedit_data_command, and dylib_command without its name.
LINKEDIT_DATA_COMMAND_SIZE == 2
DYLIB_COMMAND_HEADER_SIZE == 3

VARIABLES
  image,      \* the file: thin64, ncmds, sizeofcmds, words; and free, the padding in it
  result,     \* what the last rewrite returned
  rewrites,   \* history: the number of rewrites that succeeded
  original    \* history: the first file

vars == <<image, result, rewrites, original>>

-----------------------------------------------------------------------------
(***************************************************************************)
(* Load commands.  The first word of a command is 1000 * kind + size.      *)
(***************************************************************************)
Word(img, off) == img.words[off + 1]
InFile(img, off) == off < Len(img.words)

FirstWord(cmd, size) == 1000 * cmd + size
Cmd(img, off)  == Word(img, off) \div 1000
Size(img, off) == Word(img, off) % 1000

\* Where each of the ncmds commands begins, and where the last one ends.
Offsets(img) ==
  LET off[i \in 0..img.ncmds] ==
        IF i = 0 THEN 0
        ELSE IF InFile(img, off[i - 1]) THEN off[i - 1] + Size(img, off[i - 1])
        ELSE off[i - 1]
  IN  off

WellFormed(img) ==
  LET off == Offsets(img)
  IN  /\ img.sizeofcmds <= Len(img.words)
      /\ \A i \in 0..(img.ncmds - 1) :
           /\ InFile(img, off[i])
           /\ Size(img, off[i]) >= 1
           /\ off[i] + Size(img, off[i]) <= Len(img.words)

\* An LC_DATA_IN_CODE and the LC_CODE_SIGNATURE after it.
IsPair(img, i) ==
  LET off == Offsets(img)
  IN  /\ i + 1 < img.ncmds
      /\ Word(img, off[i]) = FirstWord(LC_DATA_IN_CODE, LINKEDIT_DATA_COMMAND_SIZE)
      /\ Word(img, off[i + 1]) = FirstWord(LC_CODE_SIGNATURE, LINKEDIT_DATA_COMMAND_SIZE)

\* An LC_CODE_SIGNATURE that ends the table.
IsLastSignature(img, i) ==
  LET off == Offsets(img)
  IN  /\ Cmd(img, off[i]) = LC_CODE_SIGNATURE
      /\ off[i] + Size(img, off[i]) = img.sizeofcmds

Candidates(img) == {i \in 0..(img.ncmds - 1) : IsPair(img, i) \/ IsLastSignature(img, i)}

\* The first candidate: where it is, its words and its commands.
find_anchor(img) ==
  LET i   == CHOOSE c \in Candidates(img) : \A d \in Candidates(img) : c <= d
      off == Offsets(img)[i]
  IN  IF IsPair(img, i)
      THEN [offset |-> off, size |-> 2 * LINKEDIT_DATA_COMMAND_SIZE, command_count |-> 2]
      ELSE [offset |-> off, size |-> Size(img, off), command_count |-> 1]

-----------------------------------------------------------------------------
(***************************************************************************)
(* rewrite_macho                                                           *)
(***************************************************************************)
\* Mutant: no room for the zero that ends the name.
new_cmd_size_short(name) == DYLIB_COMMAND_HEADER_SIZE + (name.len + 7) \div 8

\* (24 + len + 1 + 7) & !7 bytes.
new_cmd_size(name) == (8 * DYLIB_COMMAND_HEADER_SIZE + name.len + 1 + 7) \div 8

Delta(img, name) == new_cmd_size(name) - find_anchor(img).size

\* Mutant: the words the table grows into are not looked at.
CanGrowAnywhere(img, name) ==
  Delta(img, name) > 0 => img.sizeofcmds + Delta(img, name) <= Len(img.words)

\* Mutant: a word of padding is always left.
CanGrowStrict(img, name) ==
  Delta(img, name) > 0 =>
    /\ img.sizeofcmds + Delta(img, name) < Len(img.words)
    /\ \A off \in img.sizeofcmds..(img.sizeofcmds + Delta(img, name)) : Word(img, off) = 0

\* The words the table grows into are in the file and zero.
CanGrow(img, name) ==
  Delta(img, name) > 0 =>
    /\ img.sizeofcmds + Delta(img, name) <= Len(img.words)
    /\ \A off \in img.sizeofcmds..(img.sizeofcmds + Delta(img, name) - 1) : Word(img, off) = 0

Status(img, name) ==
  IF ~img.thin64 THEN "NotThin64"
  ELSE IF ~WellFormed(img) THEN "Malformed"
  ELSE IF Candidates(img) = {} THEN "NoReplaceableSlot"
  ELSE IF ~CanGrow(img, name) THEN "NoPaddingToGrow"
  ELSE "Ok"

\* name.offset and timestamp, then the versions.
DylibWords(name) ==
  LET size == new_cmd_size(name)
      used == <<FirstWord(LC_LOAD_DYLIB, size), 24002, 65536>> \o name.words
  IN  [i \in 1..size |-> IF i <= Len(used) THEN used[i] ELSE 0]

\* Mutant: the new command is spliced in, and the rest of the file moves.
rewrite_macho_spliced(img, name) ==
  LET anchor == find_anchor(img)
  IN  [img EXCEPT
         !.words = SubSeq(@, 1, anchor.offset) \o DylibWords(name)
                     \o SubSeq(@, anchor.offset + anchor.size + 1, Len(@)),
         !.sizeofcmds = @ + Delta(img, name),
         !.ncmds = @ - anchor.command_count + 1]

\* The words from the end of the anchor to the end of the table are moved
\* by delta; whatever a table that shrinks leaves behind stays.
rewrite_macho(img, name) ==
  LET anchor == find_anchor(img)
      delta  == Delta(img, name)
      new    == DylibWords(name)
      tail   == (anchor.offset + Len(new))..(img.sizeofcmds + delta - 1)
  IN  [img EXCEPT
         !.words = [i \in DOMAIN img.words |->
                      IF i - 1 \in anchor.offset..(anchor.offset + Len(new) - 1)
                      THEN new[i - anchor.offset]
                      ELSE IF i - 1 \in tail THEN img.words[i - delta]
                      ELSE img.words[i]],
         !.sizeofcmds = @ + delta,
         !.ncmds = @ - anchor.command_count + 1]

-----------------------------------------------------------------------------
Init ==
  /\ image \in Images
  /\ result = "None"
  /\ rewrites = 0
  /\ original = image

Rewrite(name) ==
  /\ rewrites < MaxRewrites
  /\ result' = Status(image, name)
  /\ IF result' = "Ok"
     THEN /\ image' = rewrite_macho(image, name)
          /\ rewrites' = rewrites + 1
     ELSE UNCHANGED <<image, rewrites>>
  /\ UNCHANGED original

\* External: codesign adds a signature after the last command of a file
\* that has none, in the padding.
SignatureWords == <<FirstWord(LC_CODE_SIGNATURE, LINKEDIT_DATA_COMMAND_SIZE), 777>>

Sign ==
  /\ result = "Ok"
  /\ \A i \in 0..(image.ncmds - 1) : Cmd(image, Offsets(image)[i]) # LC_CODE_SIGNATURE
  /\ image.sizeofcmds..(image.sizeofcmds + 1) \subseteq image.free
  /\ image' = [image EXCEPT
                 !.words = [i \in DOMAIN image.words |->
                              IF i - image.sizeofcmds \in {1, 2}
                              THEN SignatureWords[i - image.sizeofcmds]
                              ELSE image.words[i]],
                 !.sizeofcmds = @ + 2,
                 !.ncmds = @ + 1]
  /\ result' = "Signed"
  /\ UNCHANGED <<rewrites, original>>

Next == \/ \E name \in Names : Rewrite(name)
        \/ Sign

Spec == Init /\ [][Next]_vars

-----------------------------------------------------------------------------
(***************************************************************************)
(* What linkers put into an executable, and rewrite_macho relies upon      *)
(* (lib.rs:6-12).                                                          *)
(***************************************************************************)
\* The commands fill the table, as the header has it.
Filled(img) ==
  /\ img.words \in Seq(Nat) /\ img.ncmds \in Nat /\ img.sizeofcmds \in Nat
  /\ WellFormed(img)
  /\ Offsets(img)[img.ncmds] = img.sizeofcmds

\* Only the zeros after the table are free, and what follows them begins with
\* a word that is not zero: an instruction, as a rule.
PaddedUntil(img, end) ==
  /\ end \in img.sizeofcmds..Len(img.words)
  /\ img.free = img.sizeofcmds..(end - 1)
  /\ \A off \in img.free : Word(img, off) = 0
  /\ end < Len(img.words) => Word(img, end) # 0

Executable(img) ==
  Filled(img) /\ \E end \in img.sizeofcmds..Len(img.words) : PaddedUntil(img, end)

-----------------------------------------------------------------------------
(***************************************************************************)
(* Properties                                                              *)
(***************************************************************************)
\* The output has the length of the input (lib.rs:172, out =
\* original.to_vec()) and the rewriter returns one of its results.
TypeOK ==
  /\ result \in {"None", "Ok", "Signed", "NotThin64", "Malformed",
                 "NoReplaceableSlot", "NoPaddingToGrow"}
  /\ rewrites \in 0..MaxRewrites
  /\ Len(image.words) = Len(original.words)

\* What a loader that trusts the header finds in the file: the words of
\* each command, and whether the commands fill the table.
Command(img, i) ==
  SubSeq(img.words, Offsets(img)[i] + 1, Offsets(img)[i + 1])

Commands(img) ==
  IF WellFormed(img) /\ Offsets(img)[img.ncmds] = img.sizeofcmds
  THEN [i \in 1..img.ncmds |-> Command(img, i - 1)]
  ELSE <<>>

\* The command of a library: a name of len bytes and at least one zero.
DylibCommand(name) ==
  LET size == DYLIB_COMMAND_HEADER_SIZE + name.len \div 8 + 1
  IN  <<FirstWord(LC_LOAD_DYLIB, size), 24002, 65536>>
        \o [i \in 1..(size - 3) |-> IF i <= Len(name.words) THEN name.words[i] ELSE 0]

Promise == INSTANCE LoadCommands WITH
  commands <- Commands(image),
  Dylibs <- {DylibCommand(name) : name \in Names},
  Signature <- SignatureWords,
  IsSignature <- LAMBDA c : c[1] \div 1000 = LC_CODE_SIGNATURE,
  IsDataInCode <- LAMBDA c : c[1] \div 1000 = LC_DATA_IN_CODE

\* Rewriting and signing, in any order and number, implement LoadCommands:
\* no other command is lost, changed or moved out of order, and the header
\* agrees with the table (rewrite_macho, lib.rs:146-212).
ImplementsLoadCommands == Promise!Spec

\* Words that were in use outside the table do not change ("File offsets
\* and the code-signature blob past the load-command table are never
\* touched", lib.rs:11-12).
OnlyPaddingIsUsed ==
  \A off \in original.sizeofcmds..(Len(original.words) - 1) :
    Word(image, off) # Word(original, off) => off \in original.free

\* The words of padding after the table.
Room(img) == Cardinality({off \in img.free : off >= img.sizeofcmds})

\* A rewrite is refused for want of padding only when the new command needs
\* more than is left (RewriteError, NoPaddingToGrow, lib.rs:51-55).
RefusedOnlyWhenFull ==
  \A name \in Names :
    Status(image, name) = "NoPaddingToGrow" => Room(image) < Delta(image, name)
=============================================================================
