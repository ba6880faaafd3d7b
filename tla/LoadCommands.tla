---------------------------- MODULE LoadCommands ----------------------------
(***************************************************************************)
(* What rewrite_macho of os-rewrite-macho promises about an executable: its *)
(* load commands are the ones it had, except that a signature, or a        *)
(* data-in-code command and the signature after it, has become the load    *)
(* command of the new library.  Signing the file adds a signature again.   *)
(***************************************************************************)
EXTENDS Naturals, Sequences, SequencesExt

CONSTANTS
  Dylibs,        \* the load commands that may be added
  Signature,     \* LC_CODE_SIGNATURE, as the signing tool writes it
  IsSignature(_),
  IsDataInCode(_)

VARIABLE commands

\* An executable has at most one signature.
Init == \A i, j \in DOMAIN commands :
          IsSignature(commands[i]) /\ IsSignature(commands[j]) => i = j

\* The first i commands and all but the first j stay; the ones between go.
Inject(i, j) ==
  /\ i < j
  /\ j <= Len(commands)
  /\ IsSignature(commands[j])
  /\ \/ i = j - 1
     \/ i = j - 2 /\ IsDataInCode(commands[i + 1])
  /\ \E d \in Dylibs :
       commands' = Append(SubSeq(commands, 1, i), d) \o SubSeq(commands, j + 1, Len(commands))

Sign ==
  /\ \A i \in DOMAIN commands : ~IsSignature(commands[i])
  /\ commands' = Append(commands, Signature)

Next == \/ \E i, j \in 0..Len(commands) : Inject(i, j)
        \/ Sign

Spec == Init /\ [][Next]_commands
=============================================================================
