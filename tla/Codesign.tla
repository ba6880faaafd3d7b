------------------------------ MODULE Codesign ------------------------------
(***************************************************************************)
(* os-codesign-macho: the shim and the rewritten executables are signed so *)
(* that the loader of macOS lets an executable load the shim.  A program   *)
(* calls read_original_entitlements, sign_shim (or signing_info, when it   *)
(* finds the shim signed) and sign_rewritten_executable, for a staged copy *)
(* of its own and with a work directory nobody else is using; the shim is  *)
(* one file that all programs share.                                       *)
(*                                                                         *)
(* A file's bytes are a number.  Text is a sequence of characters, or of   *)
(* pieces of text: a name of an entity is one piece with its semicolon,    *)
(* and "dquote" is the quotation mark.  A hexadecimal digit has two bits   *)
(* here and a byte four, a character of base64 three; a code-directory     *)
(* hash has HashLen digits.                                                *)
(*                                                                         *)
(* What codesign and the loader do, and when the programs call, is not in  *)
(* the repository.                                                         *)
(***************************************************************************)
EXTENDS Naturals, Sequences, FiniteSets, SequencesExt

CONSTANTS
  Programs,       \* those who sign
  Dirs,           \* work directories
  AdHoc,          \* the identity "-"
  Team,           \* of each real identity: a text, or NotSet
  Binaries,      \* binaries before they are rewritten: signed and entitlements
  Chars,          \* characters, and pieces of text
  CDHash,         \* CDHash[identity][content]: hexadecimal digits
  HashLen,        \* digits of a hash that can be used
  ShimIdentifier, \* Identifier of the shim, a text
  NotSet,         \* a team identifier that is not set
  None,           \* no value
  MaxShims,       \* bound: builds of the shim
  MaxCopies       \* bound: copies a program makes

Identities == DOMAIN Team \cup {AdHoc}

AllowJit      == "allow-jit"
AllowUnsigned == "allow-unsigned-executable-memory"
GetTaskAllow  == "get-task-allow"
DisableLibraryValidation == "disable-library-validation"
Carried == {AllowJit, AllowUnsigned, GetTaskAllow}

Pad == 8   \* the character of base64 for no byte

\* Texts; what is known of a shim; library constraints; signatures.
Text == Seq(Chars)
Info == [team : Text \cup {None}, identifier : Text, cdhash : Seq(0..3)]
Constraint == [kind : {"cdhash"}, data : Seq(0..Pad)]
                \cup [kind : {"team"}, team : Text, identifier : Text]
Signature ==
  [by : Identities, content : Nat]
    \cup [by : Identities, content : Nat, constraint : Constraint,
          entitlements : SUBSET (Carried \cup {DisableLibraryValidation})]

ASSUME SigningAssumption ==
  /\ AdHoc \notin DOMAIN Team
  /\ HashLen \in Nat /\ HashLen % 2 = 0
  /\ MaxShims \in Nat \ {0} /\ MaxCopies \in Nat
  /\ \A original \in Binaries : original.signed \in BOOLEAN
  /\ {"&", "<", ">", "dquote", "'", "amp", "lt", "gt", "quot", "apos"} \subseteq Chars
  /\ \A identity \in DOMAIN Team : Team[identity] \in Text
  /\ {ShimIdentifier, NotSet} \subseteq Text
  /\ \A identity \in Identities, content \in 1..MaxShims : CDHash[identity][content] \in Seq(Nat)
  /\ None \notin Constraint \cup Signature \cup Text \cup {"ok", "error"}

VARIABLES
  shim,     \* the shim: content, and the signature: by and content
  exe,      \* exe[p]: the staged copy: content, and the signature of it
  binary, \* binary[p]: the binary the copy was rewritten from
  dirs,     \* dirs[d]: the two property lists in a work directory
  signing,  \* signing[p]: the call p is in, its arguments and its result
  read      \* history: read[p], whether p's last read of entitlements succeeded

signVars == <<shim, exe, binary, dirs, signing, read>>

-----------------------------------------------------------------------------
(***************************************************************************)
(* Conversions.                                                            *)
(***************************************************************************)
EmptyPolicy == [key \in Carried |-> FALSE]

is_adhoc(identity) == identity = AdHoc

\* The list codesign prints: after each key a value, and blanks between them.
Printed(entitlements) ==
  <<"plist", "dict", AllowJit, IF AllowJit \in entitlements THEN "true" ELSE "false",
    AllowUnsigned, "blank", IF AllowUnsigned \in entitlements THEN "true" ELSE "false">>
  \o (IF GetTaskAllow \in entitlements THEN <<GetTaskAllow, "blank", "blank", "true">> ELSE <<>>)

\* Whether what follows the first occurrence of the key, past blanks, is <true/>.
plist_bool(xml, key) ==
  \E i \in DOMAIN xml :
    /\ xml[i] = key
    /\ \A h \in 1..(i - 1) : xml[h] # key
    /\ \E j \in (i + 1)..Len(xml) :
         xml[j] = "true" /\ \A h \in (i + 1)..(j - 1) : xml[h] = "blank"

\* str::replace, for one character.
Replace(text, char, by) ==
  FlattenSeq([i \in DOMAIN text |-> IF text[i] = char THEN by ELSE <<text[i]>>])

\* Mutant: the ampersand is escaped after the others.
xml_escape_late(text) ==
  LET lt == Replace(text, "<", <<"&", "lt">>)
      gt == Replace(lt, ">", <<"&", "gt">>)
      quot == Replace(gt, "dquote", <<"&", "quot">>)
      apos == Replace(quot, "'", <<"&", "apos">>)
  IN  Replace(apos, "&", <<"&", "amp">>)

xml_escape(text) ==
  LET amp == Replace(text, "&", <<"&", "amp">>)
      lt == Replace(amp, "<", <<"&", "lt">>)
      gt == Replace(lt, ">", <<"&", "gt">>)
      quot == Replace(gt, "dquote", <<"&", "quot">>)
  IN  Replace(quot, "'", <<"&", "apos">>)

IsHex(digit) == digit \in 0..3

\* The bytes of a text of digits, or None.
hex_decode(text) ==
  IF Len(text) % 2 = 0 /\ \A i \in DOMAIN text : IsHex(text[i])
  THEN [i \in 1..(Len(text) \div 2) |-> 4 * text[2 * i - 1] + text[2 * i]]
  ELSE None

\* Each three bytes as four characters; those without a byte are padding.
base64_encode(data) ==
  LET byte(i) == IF i <= Len(data) THEN data[i] ELSE 0
      n(g) == 256 * byte(3 * g + 1) + 16 * byte(3 * g + 2) + byte(3 * g + 3)
      char(g, c) == IF 3 * g + c > Len(data) THEN Pad ELSE (n(g) \div <<512, 64, 8, 1>>[c + 1]) % 8
  IN  [i \in 1..(4 * ((Len(data) + 2) \div 3)) |-> char((i - 1) \div 4, (i - 1) % 4)]

-----------------------------------------------------------------------------
(***************************************************************************)
(* codesign and the loader.                                                *)
(***************************************************************************)
IsSigned(file) == file.sig # None /\ file.sig.content = file.content

\* What codesign -dv --verbose=4 reports of a signature of the shim.
Report(sig) ==
  <<[key |-> "Identifier", value |-> ShimIdentifier],
    [key |-> "CandidateCDHash-sha1", value |-> <<3, 3, 3, 3>>],
    [key |-> "CandidateCDHash-sha256", value |-> CDHash[sig.by][sig.content]],
    [key |-> "TeamIdentifier", value |-> IF sig.by = AdHoc THEN NotSet ELSE Team[sig.by]]>>

\* The characters of base64 before the padding, and the bytes that their bits make.
Unpadded(text) ==
  CHOOSE n \in 0..Len(text) :
    /\ \A i \in 1..n : text[i] # Pad
    /\ n < Len(text) => text[n + 1] = Pad

Unpacked(text) ==
  LET bit(i) == (text[(i \div 3) + 1] \div <<4, 2, 1>>[(i % 3) + 1]) % 2
  IN  [b \in 1..((3 * Unpadded(text)) \div 4) |->
        8 * bit(4 * b - 4) + 4 * bit(4 * b - 3) + 2 * bit(4 * b - 2) + bit(4 * b - 1)]

\* The text an XML reader finds in escaped text, None when it is not well formed.
Entity == [e \in {"amp", "lt", "gt", "quot", "apos"} |->
  CASE e = "amp" -> "&" [] e = "lt" -> "<" [] e = "gt" -> ">"
    [] e = "quot" -> "dquote" [] e = "apos" -> "'"]
Unescaped(text) ==
  IF \A i \in DOMAIN text :
       /\ text[i] # "<"
       /\ text[i] = "&" => i < Len(text) /\ text[i + 1] \in DOMAIN Entity
  THEN FlattenSeq([i \in DOMAIN text |->
         IF text[i] = "&" THEN <<Entity[text[i + 1]]>>
         ELSE IF i > 1 /\ text[i - 1] = "&" THEN <<>> ELSE <<text[i]>>])
  ELSE None

\* A library constraint holds for the shim.
Satisfied(constraint) ==
  IF constraint.kind = "cdhash"
  THEN Unpacked(constraint.data) = hex_decode(CDHash[shim.sig.by][shim.content])
  ELSE /\ shim.sig.by # AdHoc
       /\ Unescaped(constraint.team) = Team[shim.sig.by]
       /\ Unescaped(constraint.identifier) = ShimIdentifier

\* The loader takes the shim into a process of p's executable.
Loads(p) ==
  /\ IsSigned(exe[p])
  /\ IsSigned(shim)
  /\ \/ DisableLibraryValidation \in exe[p].sig.entitlements
     \/ /\ AdHoc \notin {exe[p].sig.by, shim.sig.by}
        /\ Team[exe[p].sig.by] = Team[shim.sig.by] /\ Team[shim.sig.by] # NotSet
  /\ Satisfied(exe[p].sig.constraint)

-----------------------------------------------------------------------------
(***************************************************************************)
(* The library.                                                            *)
(***************************************************************************)
\* The value of the last line with a key, None without one.
Field(report, key) ==
  LET at == {i \in DOMAIN report : report[i].key = key}
  IN  IF at = {} THEN None ELSE report[CHOOSE i \in at : \A j \in at : j <= i].value

\* ShimSigningInfo of a report, or None.
signing_info(report) ==
  LET team   == Field(report, "TeamIdentifier")
      ident  == Field(report, "Identifier")
      cdhash == Field(report, "CandidateCDHash-sha256")
  IN  IF /\ ident \notin {None, <<>>}
         /\ cdhash # None
         /\ Len(cdhash) = HashLen /\ \A i \in DOMAIN cdhash : IsHex(cdhash[i])
      THEN [team |-> IF team \in {None, NotSet} THEN None ELSE team,
            identifier |-> ident, cdhash |-> cdhash]
      ELSE None

\* What sign_rewritten_executable asks of the shim before it writes anything.
Usable(identity, info) ==
  IF is_adhoc(identity)
  THEN /\ info.cdhash # <<>>
       /\ hex_decode(info.cdhash) # None
       /\ Len(hex_decode(info.cdhash)) = HashLen \div 2
  ELSE info.team # None

\* Mutant: get-task-allow is carried without the daemon's flag.
EntitlementsList_ungated(identity, policy, allow_get_task_allow) ==
  {key \in Carried : policy[key]}
  \cup (IF is_adhoc(identity) THEN {DisableLibraryValidation} ELSE {})

\* entitlements.plist: the keys that are true.
EntitlementsList(identity, policy, allow_get_task_allow) ==
  {key \in Carried : policy[key] /\ (key = GetTaskAllow => allow_get_task_allow)}
  \cup (IF is_adhoc(identity) THEN {DisableLibraryValidation} ELSE {})

\* library-constraint.plist.
ConstraintList(identity, info) ==
  IF is_adhoc(identity)
  THEN [kind |-> "cdhash", data |-> base64_encode(hex_decode(info.cdhash))]
  ELSE [kind |-> "team", team |-> xml_escape(info.team), identifier |-> xml_escape(info.identifier)]

Idle == [pc |-> "idle", identity |-> None, allow |-> FALSE, policy |-> EmptyPolicy,
         info |-> None, dir |-> None, result |-> None]

SignInit ==
  /\ shim = [content |-> 1, sig |-> None]
  /\ exe = [p \in Programs |-> [content |-> 0, sig |-> None]]
  /\ binary \in [Programs -> Binaries]
  /\ dirs = [d \in Dirs |-> [entitlements |-> None, constraint |-> None]]
  /\ signing = [p \in Programs |-> Idle]
  /\ read = [p \in Programs |-> FALSE]

Goto(p, pc) == signing' = [signing EXCEPT ![p].pc = pc]

\* The call returns an error.
Fails(p) == signing' = [signing EXCEPT ![p].pc = "idle", ![p].result = "error"]

\* p rewrites a fresh copy and begins to sign it, in a directory nobody uses.
Begin(p, identity, allow, d) ==
  /\ signing[p].pc = "idle"
  /\ exe[p].content < MaxCopies
  /\ \A q \in Programs : signing[q].pc # "idle" => signing[q].dir # d
  /\ exe' = [exe EXCEPT ![p] = [content |-> @.content + 1, sig |-> None]]
  /\ signing' = [signing EXCEPT ![p] = [Idle EXCEPT !.pc = "entitlements", !.identity = identity,
                                                   !.allow = allow, !.dir = d]]
  /\ UNCHANGED <<shim, binary, dirs, read>>

\* read_original_entitlements, which a caller answers with the default on error:
\* the original has no valid signature, or codesign fails.
ReadEntitlements(p) ==
  /\ signing[p].pc = "entitlements"
  /\ \/ /\ binary[p].signed
        /\ signing' = [signing EXCEPT ![p].pc = "shim", ![p].policy =
             [key \in Carried |-> plist_bool(Printed(binary[p].entitlements), key)]]
        /\ read' = [read EXCEPT ![p] = TRUE]
     \/ /\ Goto(p, "shim")
        /\ read' = [read EXCEPT ![p] = FALSE]
  /\ UNCHANGED <<shim, exe, binary, dirs>>

\* sign_shim up to the report.
SignShim(p) ==
  /\ signing[p].pc = "shim"
  /\ \/ /\ shim' = [shim EXCEPT !.sig = [by |-> signing[p].identity, content |-> shim.content]]
        /\ Goto(p, "info")
     \/ Fails(p) /\ UNCHANGED shim
  /\ UNCHANGED <<exe, binary, dirs, read>>

\* A program that takes the shim as it is calls signing_info alone.
UseShim(p) ==
  /\ signing[p].pc = "shim"
  /\ Goto(p, "info")
  /\ UNCHANGED <<shim, exe, binary, dirs, read>>

\* signing_info reads the shim, whose signature may be another's by now.
ReadShim(p) ==
  /\ signing[p].pc = "info"
  /\ LET info == IF shim.sig = None THEN None ELSE signing_info(Report(shim.sig))
     IN  \/ info # None /\ signing' = [signing EXCEPT ![p].pc = "write", ![p].info = info]
         \/ Fails(p)
  /\ UNCHANGED <<shim, exe, binary, dirs, read>>

\* A file is written, or the call fails and leaves it as it was or empty.
Write(p, file, content, pc) ==
  \/ dirs' = [dirs EXCEPT ![signing[p].dir][file] = content] /\ Goto(p, pc)
  \/ dirs' \in {dirs, [dirs EXCEPT ![signing[p].dir][file] = None]} /\ Fails(p)

\* sign_rewritten_executable up to the first file.
WriteEntitlements(p) ==
  LET s == signing[p]
  IN  /\ s.pc = "write"
      /\ IF Usable(s.identity, s.info)
         THEN Write(p, "entitlements", EntitlementsList(s.identity, s.policy, s.allow), "constraint")
         ELSE Fails(p) /\ UNCHANGED dirs
      /\ UNCHANGED <<shim, exe, binary, read>>

\* Mutant: a write that failed is not looked at.
WriteConstraint_unchecked(p) ==
  LET s == signing[p]
  IN  /\ s.pc = "constraint"
      /\ dirs' \in {dirs, [dirs EXCEPT ![s.dir].constraint = ConstraintList(s.identity, s.info)]}
      /\ Goto(p, "codesign")
      /\ UNCHANGED <<shim, exe, binary, read>>

\* The second file.
WriteConstraint(p) ==
  /\ signing[p].pc = "constraint"
  /\ Write(p, "constraint", ConstraintList(signing[p].identity, signing[p].info), "codesign")
  /\ UNCHANGED <<shim, exe, binary, read>>

\* codesign reads both files.
Signed(p) ==
  LET s == signing[p]
  IN  [exe EXCEPT ![p].sig = [by |-> s.identity, content |-> exe[p].content,
                              entitlements |-> dirs[s.dir].entitlements,
                              constraint |-> dirs[s.dir].constraint]]

\* Mutant: the status of codesign is not looked at.
SignExecutable_unchecked(p) ==
  /\ signing[p].pc = "codesign"
  /\ exe' \in {exe, Signed(p)}
  /\ signing' = [signing EXCEPT ![p].pc = "idle", ![p].result = "ok"]
  /\ UNCHANGED <<shim, binary, dirs, read>>

SignExecutable(p) ==
  /\ signing[p].pc = "codesign"
  /\ \/ /\ exe' = Signed(p)
        /\ signing' = [signing EXCEPT ![p].pc = "idle", ![p].result = "ok"]
     \/ Fails(p) /\ UNCHANGED exe
  /\ UNCHANGED <<shim, binary, dirs, read>>

\* The process of p ends between two steps, and leaves its files.
Die(p) ==
  /\ signing[p].pc # "idle"
  /\ signing' = [signing EXCEPT ![p] = Idle]
  /\ UNCHANGED <<shim, exe, binary, dirs, read>>

\* A new build of the shim, not signed yet, takes the place of the old one.
UpdateShim ==
  /\ shim.content < MaxShims
  /\ shim' = [content |-> shim.content + 1, sig |-> None]
  /\ UNCHANGED <<exe, binary, dirs, signing, read>>

SignNext ==
  \/ UpdateShim
  \/ \E p \in Programs :
       \/ \E identity \in Identities, allow \in BOOLEAN, d \in Dirs : Begin(p, identity, allow, d)
       \/ ReadEntitlements(p) \/ SignShim(p) \/ UseShim(p) \/ ReadShim(p)
       \/ WriteEntitlements(p) \/ WriteConstraint(p) \/ SignExecutable(p)
       \/ Die(p)

SignSpec == SignInit /\ [][SignNext]_signVars

-----------------------------------------------------------------------------
\* A copy that is signed was signed by the call that made it, which succeeded;
\* an empty result is that of a call that has not returned.
SignTypeOK ==
  \A p \in Programs :
    /\ signing[p].pc \in {"idle", "entitlements", "shim", "info", "write", "constraint", "codesign"}
    /\ signing[p].result \in {None, "ok", "error"}
    /\ signing[p].dir \in Dirs \cup {None}
    /\ signing[p].identity \in Identities \cup {None}
    /\ exe[p].sig # None <=> signing[p].result = "ok"

\* A copy that was signed can load the shim (sign_rewritten_executable), for as
\* long as the shim has a signature like the one whose report was read: with the
\* same hash for a copy signed ad hoc, with the team of the copy's own identity
\* for another.  A later build of the shim, signed by the same team, is loaded
\* by the copies signed before it.
SignedLoadsShim ==
  \A p \in Programs :
    /\ exe[p].sig # None
    /\ IsSigned(shim)
    /\ IF exe[p].sig.by = AdHoc
       THEN CDHash[shim.sig.by][shim.content] = signing[p].info.cdhash
       ELSE /\ shim.sig.by # AdHoc
            /\ {Team[shim.sig.by], signing[p].info.team} = {Team[exe[p].sig.by]}
    => Loads(p)

\* What codesign puts into a copy is what its own call asked for, whoever used
\* the work directory before and however that call ended
\* (sign_rewritten_executable).  "Rewriting must not silently grant or drop"
\* entitlements (EntitlementPolicy, read_original_entitlements): the copy has
\* those its validly signed original had and its program could read,
\* get-task-allow only with the daemon's flag, and one more exactly when it is
\* signed ad hoc.
SignedAsAsked ==
  \A p \in Programs : exe[p].sig # None =>
    /\ exe[p].sig.entitlements \cap Carried =
         {key \in binary[p].entitlements \cap Carried :
            read[p] /\ binary[p].signed /\ (key = GetTaskAllow => signing[p].allow)}
    /\ DisableLibraryValidation \in exe[p].sig.entitlements <=> exe[p].sig.by = AdHoc
    /\ exe[p].sig.by = signing[p].identity /\ exe[p].sig.content = exe[p].content
    /\ exe[p].sig.constraint # None
    /\ IF signing[p].identity = AdHoc
       THEN /\ exe[p].sig.constraint.kind = "cdhash"
            /\ Unpacked(exe[p].sig.constraint.data) = hex_decode(signing[p].info.cdhash)
       ELSE /\ exe[p].sig.constraint.kind = "team"
            /\ Unescaped(exe[p].sig.constraint.team) = signing[p].info.team
            /\ Unescaped(exe[p].sig.constraint.identifier) = signing[p].info.identifier
=============================================================================
