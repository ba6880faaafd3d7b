---------------------------- MODULE MCRewriters -----------------------------
(***************************************************************************)
(* How an artifact is made.  An initial state is an executable of one of   *)
(* the two formats, and its behaviours rewrite that file; or it is a shim  *)
(* and the copies of two programs, and its behaviours sign them.           *)
(***************************************************************************)
EXTENDS MCElfRewrite, MCCodesign

CONSTANTS MachOImages, MachONames

VARIABLES
  part,      \* which of them the behaviour is about; the others do nothing
  rewrites   \* of a Mach-O file; added counts those of an ELF file

M == INSTANCE MCMachORewrite WITH Images <- MachOImages, Names <- MachONames

\* Of ELF, an executable that the rewriter does not refuse is a proper one; a name has
\* no zero byte.
ASSUME ElfAssumption ==
  /\ \A img \in Images : Accepted(img) => Executable(img)
  /\ Names \subseteq Seq(Nat \ {0})
  /\ NoName \notin Names
  /\ MaxRewrites \in Nat

\* Of Mach-O, too, and an executable has one signature at most; the size of a new
\* command is below the 1000 of a first word.
ASSUME MachOAssumption ==
  /\ \A img \in MachOImages :
       /\ img.thin64 /\ M!WellFormed(img) => M!Executable(img)
       /\ LET commands == M!Commands(img)
          IN  \A i, j \in DOMAIN commands :
                commands[i][1] \div 1000 = M!LC_CODE_SIGNATURE
                  /\ commands[j][1] \div 1000 = M!LC_CODE_SIGNATURE => i = j
  /\ MachONames \subseteq [len : Nat, words : Seq(Nat)]
  /\ \A name \in MachONames : M!new_cmd_size(name) < 1000

\* The files and names that are rewritten need no constants.
Inputs == INSTANCE MCMachORewrite WITH Images <- {}, Names <- {}

MCMachOImages == Inputs!MCImages
MCMachONames  == Inputs!MCNames

\* A file that is not rewritten, and programs that do not sign.
AFile    == image \in {CHOOSE img \in Images : TRUE} /\ Init
NoSigner == SignInit /\ binary = [p \in Programs |-> CHOOSE bin \in Binaries : TRUE]

MCInit ==
  \/ part = "elf" /\ Init /\ NoSigner /\ rewrites = 0
  \/ part = "macho" /\ M!Init /\ NoSigner /\ added = <<>> /\ runpath = NoName
  \/ part = "sign" /\ SignInit /\ AFile /\ rewrites = 0

ElfNext   == part = "elf" /\ Next /\ UNCHANGED <<part, rewrites, signVars>>
MachONext == part = "macho" /\ M!Next /\ UNCHANGED <<part, added, runpath, signVars>>
Signing   == part = "sign" /\ SignNext /\ UNCHANGED <<part, rewrites, vars>>

MCNext == ElfNext \/ MachONext \/ Signing

MCSpec == MCInit /\ [][MCNext]_<<part, rewrites, vars, signVars>>

\* The type invariant of each rewriter: a result of its own, and a file of
\* the same length.  SignTypeOK (Codesign) of those who sign.
MCTypeOK == SignTypeOK /\ IF part # "macho" THEN TypeOK ELSE M!TypeOK

\* Of the bytes in use, a rewriter changes those it names and no other.
MCOnlyPaddingIsUsed == IF part # "macho" THEN OnlyPaddingIsUsed ELSE M!OnlyPaddingIsUsed

\* A file is refused for want of room only when there is too little.
MCRefusedOnlyWhenFull == IF part # "macho" THEN RefusedOnlyWhenFull ELSE M!RefusedOnlyWhenFull

\* The load commands of the file; one of another format has none.
FileCommands == IF part # "macho" THEN <<>> ELSE M!Commands(image)

Promise == INSTANCE LoadCommands WITH
  commands <- FileCommands,
  Dylibs <- {M!DylibCommand(name) : name \in MachONames},
  Signature <- M!SignatureWords,
  IsSignature <- LAMBDA cmd : cmd[1] \div 1000 = M!LC_CODE_SIGNATURE,
  IsDataInCode <- LAMBDA cmd : cmd[1] \div 1000 = M!LC_DATA_IN_CODE

\* rewrite_macho and signing implement LoadCommands: no other command is
\* lost, changed or moved out of order (ImplementsLoadCommands).
MachOImplementsLoadCommands == Promise!Spec
=============================================================================
