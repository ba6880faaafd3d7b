------------------------------ MODULE HostProofs ------------------------------
(***************************************************************************)
(* Proofs about the host API and the stubs (AbiStubs), for every           *)
(* specification, every tunnel and any number of wrappers and imports; and *)
(* about the shims (ShimCalls), for every document and any uses and calls. *)
(***************************************************************************)
EXTENDS AbiStubs, ShimCalls, SequenceLemmas

-----------------------------------------------------------------------------
(***************************************************************************)
(* Names                                                                   *)
(***************************************************************************)
\* The first element of a sequence, as a sequence.
LEMMA FirstOnly ==
  ASSUME NEW S, NEW s \in Seq(S), Len(s) >= 1
  PROVE  SubSeq(s, 1, 1) = <<s[1]>>
<1>1. s[1] \in S
  OBVIOUS
<1>2. <<s[1]>> \in Seq(S) /\ Len(<<s[1]>>) = 1 /\ <<s[1]>>[1] = s[1]
  BY <1>1
<1>3. SubSeq(s, 1, 1) \in Seq(S) /\ Len(SubSeq(s, 1, 1)) = 1 /\ SubSeq(s, 1, 1)[1] = s[1]
  <2>1. \A i \in 1..1 : s[i] \in S
    BY <1>1
  <2>2. /\ SubSeq(s, 1, 1) \in Seq(S)
        /\ Len(SubSeq(s, 1, 1)) = IF 1 <= 1 THEN 1 - 1 + 1 ELSE 0
        /\ \A i \in 1..(1 - 1 + 1) : SubSeq(s, 1, 1)[i] = s[1 + i - 1]
    BY <2>1, SubSeqProperties
  <2> QED
    BY <2>2
<1>4. \A i \in 1..1 : SubSeq(s, 1, 1)[i] = <<s[1]>>[i]
  BY <1>2, <1>3
<1> QED
  BY <1>2, <1>3, <1>4, SeqEqual

\* A sequence of one element.
LEMMA Single ==
  ASSUME NEW S, NEW x \in S
  PROVE  <<x>> \in Seq(S) /\ Len(<<x>>) = 1 /\ <<x>>[1] = x
  OBVIOUS

\* The underscore as a name.
LEMMA UnderscoreName ==
  <<US>> \in Seq(STRING) /\ Len(<<US>>) = 1 /\ <<US>>[1] = US
<1>1. US \in STRING
  BY PartsAssumption
<1>2. ASSUME NEW x \in STRING
      PROVE  <<x>> \in Seq(STRING) /\ Len(<<x>>) = 1 /\ <<x>>[1] = x
  BY Single
<1> QED
  BY <1>1, <1>2, Zenon

\* A name begins with an underscore when its first part is one.
LEMMA BeginsWith ==
  ASSUME NEW s \in Seq(STRING)
  PROVE  IsPrefix(<<US>>, s) <=> Len(s) >= 1 /\ s[1] = US
<1>1. SubSeq(<<US>>, 1, 1) = <<US>>
  <2>1. Len(<<US>>) >= 1
    BY UnderscoreName
  <2> QED
    BY <2>1, UnderscoreName, FirstOnly
<1>2. IsPrefix(<<US>>, s) <=> Len(s) >= 1 /\ <<US>> = SubSeq(s, 1, 1)
  <2> DEFINE v == <<US>>
  <2>1. Len(v) = 1 /\ SubSeq(v, 1, 1) = v
    BY <1>1, UnderscoreName
  <2> HIDE DEF v
  <2>2. IsPrefix(v, s) <=> Len(s) >= 1 /\ v = SubSeq(s, 1, 1)
    BY <2>1 DEF IsPrefix
  <2> QED
    BY <2>2 DEF v
<1>3. ASSUME Len(s) >= 1 PROVE <<US>> = SubSeq(s, 1, 1) <=> s[1] = US
  <2>1. SubSeq(s, 1, 1) = <<s[1]>>
    BY <1>3, FirstOnly
  <2>2. <<s[1]>> = <<US>> <=> s[1] = US
    OBVIOUS
  <2> QED
    BY <2>1, <2>2
<1> QED
  BY <1>2, <1>3

\* What an underscore before a name does.
LEMMA UnderscoreIs ==
  ASSUME NEW s \in Seq(STRING)
  PROVE  /\ Underscore(s) \in Seq(STRING)
         /\ IsPrefix(<<US>>, Underscore(s))
         /\ Bare(Underscore(s)) = s
<1> DEFINE v == <<US>>
           u == v \o s
<1>0. v \in Seq(STRING)
  BY UnderscoreName
<1> HIDE DEF v
<1>1. /\ u \in Seq(STRING)
      /\ Len(u) = Len(v) + Len(s)
      /\ SubSeq(u, Len(v) + 1, Len(u)) = s
      /\ SubSeq(u, 1, Len(v)) = v
  BY <1>0, ConcatParts
<1> HIDE DEF u
<1>2. IsPrefix(v, u)
  <2>1. Len(s) \in Nat /\ Len(v) = 1
    BY UnderscoreName DEF v
  <2>2. SubSeq(v, 1, 1) = v
    BY <2>1, <1>0, FirstOnly
  <2> QED
    BY <1>1, <2>1, <2>2 DEF IsPrefix
<1>3. StripPrefix(v, u) = s
  BY <1>1, <1>2 DEF StripPrefix
<1> QED
  BY <1>1, <1>2, <1>3 DEF u, v, Underscore, Bare

\* A name is what is left of it with its underscore put back.
LEMMA BareIs ==
  ASSUME NEW s \in Seq(STRING)
  PROVE  /\ Bare(s) \in Seq(STRING)
         /\ IsPrefix(<<US>>, s) => s = Underscore(Bare(s))
         /\ ~IsPrefix(<<US>>, s) => Bare(s) = s
<1>1. CASE IsPrefix(<<US>>, s)
  <2>1. Len(s) >= 1 /\ s[1] = US
    BY <1>1, BeginsWith
  <2>2. 1 \in 0..Len(s) /\ 1 + 1 = 2
    BY <2>1
  <2>3. Bare(s) = SubSeq(s, 1 + 1, Len(s))
    BY <1>1, UnderscoreName DEF Bare, StripPrefix
  <2>4. /\ SubSeq(s, 1 + 1, Len(s)) \in Seq(STRING)
        /\ SubSeq(s, 1, 1) \o SubSeq(s, 1 + 1, Len(s)) = s
    BY <2>2, SplitAt
  <2>5. SubSeq(s, 1, 1) = <<US>>
    BY <2>1, FirstOnly
  <2> QED
    BY <1>1, <2>3, <2>4, <2>5 DEF Underscore
<1>2. CASE ~IsPrefix(<<US>>, s)
  BY <1>2 DEF Bare, StripPrefix
<1> QED
  BY <1>1, <1>2, ZenonT(30)

-----------------------------------------------------------------------------
(***************************************************************************)
(* The imports that os-host-api has                                        *)
(***************************************************************************)
LogUnreachable  == Internal("speet_log_unreachable", <<"i32">>, <<>>)
StubForPc       == Internal("speet_stub_for_pc", <<"i64">>, <<"i64">>)
UnreachableTrap == Internal("speet_unreachable_trap", <<"i32">>, <<>>)

\* The eight imports of the four manifests.
Eight == {Hint, Exit, Write, LogUnreachable, Execve, StubForPc, Printf, UnreachableTrap}

\* What an import intercepts, without underscores.
Stems(imp) == {Bare(t) : t \in imp.intercepts}

\* Three elements and four are seven.
LEMMA ThreeAndFour ==
  ASSUME NEW a, NEW b, NEW c, NEW d, NEW e, NEW f, NEW g
  PROVE  <<a, b, c>> \o <<d, e, f, g>> = <<a, b, c, d, e, f, g>>
<1> DEFINE S == {a, b, c, d, e, f, g}
           s == <<a, b, c>>
           t == <<d, e, f, g>>
           u == <<a, b, c, d, e, f, g>>
<1>1. /\ s \in Seq(S) /\ Len(s) = 3
      /\ t \in Seq(S) /\ Len(t) = 4
      /\ u \in Seq(S) /\ Len(u) = 7
  OBVIOUS
<1>2. s[1] = a /\ s[2] = b /\ s[3] = c /\ t[1] = d /\ t[2] = e /\ t[3] = f /\ t[4] = g
  OBVIOUS
<1>3. u[1] = a /\ u[2] = b /\ u[3] = c /\ u[4] = d /\ u[5] = e /\ u[6] = f /\ u[7] = g
  OBVIOUS
<1> HIDE DEF S, s, t, u
<1>4. /\ s \o t \in Seq(S)
      /\ Len(s \o t) = Len(s) + Len(t)
      /\ \A i \in 1..Len(s) + Len(t) : (s \o t)[i] = IF i <= Len(s) THEN s[i] ELSE t[i - Len(s)]
  BY <1>1, ConcatProperties
<1>5. ASSUME NEW i \in 1..7 PROVE (s \o t)[i] = u[i]
  <2>1. (s \o t)[i] = IF i <= 3 THEN s[i] ELSE t[i - 3]
    BY <1>1, <1>4, SMTT(30)
  <2>2. i \in {1, 2, 3} \/ i - 3 \in {1, 2, 3, 4}
    OBVIOUS
  <2> QED
    BY <1>2, <1>3, <2>1, <2>2
<1>6. s \o t = u
  <2> DEFINE w == s \o t
  <2>1. w \in Seq(S) /\ Len(w) = 7 /\ \A i \in 1..7 : w[i] = u[i]
    BY <1>1, <1>4, <1>5
  <2> HIDE DEF w
  <2>2. w = u
    BY <1>1, <2>1, SeqEqual
  <2> QED
    BY <2>2 DEF w
<1> QED
  BY <1>6 DEF s, t, u

\* The integrated manifest, in full.
LEMMA IntegratedIs ==
  integrated_native = <<Hint, Exit, Write, LogUnreachable, Execve, StubForPc, Printf>>
BY ThreeAndFour DEF integrated_native, native_syscall, LogUnreachable, StubForPc

\* The eight imports differ, and so do their names.
LEMMA EightNames ==
  /\ \A x, y \in Eight : x # y => x.name # y.name
  /\ /\ Hint # Exit /\ Hint # Write /\ Hint # LogUnreachable /\ Hint # Execve
     /\ Hint # StubForPc /\ Hint # Printf /\ Hint # UnreachableTrap
  /\ /\ Exit # Write /\ Exit # LogUnreachable /\ Exit # Execve /\ Exit # StubForPc
     /\ Exit # Printf /\ Exit # UnreachableTrap
  /\ /\ Write # LogUnreachable /\ Write # Execve /\ Write # StubForPc
     /\ Write # Printf /\ Write # UnreachableTrap
  /\ /\ LogUnreachable # Execve /\ LogUnreachable # StubForPc /\ LogUnreachable # Printf
  /\ Execve # StubForPc /\ Execve # Printf /\ StubForPc # Printf
<1>1. /\ Hint.name = <<US, US, "speet_hint">>
      /\ Exit.name = <<"exit">>
      /\ Write.name = <<"write">>
      /\ LogUnreachable.name = <<US, US, "speet_log_unreachable">>
      /\ Execve.name = <<US, US, "speet_execve">>
      /\ StubForPc.name = <<US, US, "speet_stub_for_pc">>
      /\ Printf.name = <<"printf">>
      /\ UnreachableTrap.name = <<US, US, "speet_unreachable_trap">>
  BY DEF Hint, Exit, Write, LogUnreachable, Execve, StubForPc, Printf, UnreachableTrap,
         Internal, FuncImport
<1> DEFINE one(a)   == <<a>>
           three(a) == <<US, US, a>>
<1>2. ASSUME NEW a, NEW b PROVE one(a) # three(b)
  OBVIOUS
<1>3. ASSUME NEW a, NEW b, a # b PROVE one(a) # one(b) /\ three(a) # three(b)
  BY <1>3
<1>4. /\ Hint.name = three("speet_hint")
      /\ Exit.name = one("exit")
      /\ Write.name = one("write")
      /\ LogUnreachable.name = three("speet_log_unreachable")
      /\ Execve.name = three("speet_execve")
      /\ StubForPc.name = three("speet_stub_for_pc")
      /\ Printf.name = one("printf")
      /\ UnreachableTrap.name = three("speet_unreachable_trap")
  BY <1>1
<1> HIDE DEF one, three
<1>5. \A x \in {Exit, Write, Printf}, y \in Eight \ {Exit, Write, Printf} : x.name # y.name
  BY <1>2, <1>4 DEF Eight
<1>6. \A x, y \in {Exit, Write, Printf} : x # y => x.name # y.name
  BY <1>3, <1>4
<1>7. \A x, y \in {Hint, LogUnreachable, Execve, StubForPc, UnreachableTrap} :
        x # y => x.name # y.name
  BY <1>3, <1>4
<1>8. /\ three("speet_hint") # three("speet_log_unreachable")
      /\ three("speet_hint") # three("speet_execve")
      /\ three("speet_hint") # three("speet_stub_for_pc")
      /\ three("speet_hint") # three("speet_unreachable_trap")
      /\ three("speet_log_unreachable") # three("speet_execve")
      /\ three("speet_log_unreachable") # three("speet_stub_for_pc")
      /\ three("speet_execve") # three("speet_stub_for_pc")
      /\ one("exit") # one("write") /\ one("exit") # one("printf") /\ one("write") # one("printf")
  BY <1>3
<1> QED
  BY <1>2, <1>4, <1>5, <1>6, <1>7, <1>8 DEF Eight

\* Every import of a manifest is one of the eight, and none is there twice.
LEMMA ManifestsHaveEight ==
  ASSUME NEW m \in Manifests
  PROVE  /\ m \in Seq(Eight)
         /\ \A i, j \in DOMAIN m : i # j => m[i] # m[j]
         /\ \E i \in DOMAIN m : m[i] = Exit
         /\ \E i \in DOMAIN m : m[i] = Write
<1>1. /\ Hint # Exit /\ Hint # Write /\ Exit # Write /\ Hint # UnreachableTrap
      /\ Exit # UnreachableTrap /\ Write # UnreachableTrap
  BY EightNames
<1>2. CASE m = native_syscall
  BY <1>1, <1>2 DEF native_syscall, Eight
<1>3. CASE m = rv64_syscall
  BY <1>1, <1>3 DEF rv64_syscall, Eight
<1>4. CASE m = corpus_harness
  <2>1. corpus_harness = <<Hint, Write, Exit, UnreachableTrap>>
    BY DEF corpus_harness, UnreachableTrap
  <2> QED
    BY <1>1, <1>4, <2>1 DEF Eight
<1>5. CASE m = integrated_native
  BY <1>1, <1>5, IntegratedIs, EightNames DEF Eight
<1> QED
  BY <1>2, <1>3, <1>4, <1>5 DEF Manifests

\* The imports that os-host-api has are these eight.
LEMMA BuiltInIs == BuiltIn = Eight
<1>1. ASSUME NEW x \in BuiltIn PROVE x \in Eight
  <2>1. PICK m \in Manifests : x \in Range(m)
    BY DEF BuiltIn
  <2>2. PICK i \in DOMAIN m : x = m[i]
    BY <2>1 DEF Range
  <2> QED
    BY <2>2, ManifestsHaveEight
<1>2. Eight \subseteq BuiltIn
  <2>1. UnreachableTrap \in Range(corpus_harness)
    <3>1. corpus_harness = <<Hint, Write, Exit, UnreachableTrap>>
      BY DEF corpus_harness, UnreachableTrap
    <3>2. 4 \in DOMAIN corpus_harness /\ corpus_harness[4] = UnreachableTrap
      BY <3>1
    <3> QED
      BY <3>2 DEF Range
  <2>2. \A x \in Eight \ {UnreachableTrap} : x \in Range(integrated_native)
    <3>1. /\ DOMAIN integrated_native = 1..7
          /\ integrated_native[1] = Hint /\ integrated_native[2] = Exit
          /\ integrated_native[3] = Write /\ integrated_native[4] = LogUnreachable
          /\ integrated_native[5] = Execve /\ integrated_native[6] = StubForPc
          /\ integrated_native[7] = Printf
      BY IntegratedIs
    <3> QED
      BY <3>1 DEF Range, Eight
  <2> QED
    BY <2>1, <2>2 DEF BuiltIn, Manifests
<1> QED
  BY <1>1, <1>2

\* A name of one part, with and without an underscore.
LEMMA OnePart ==
  ASSUME NEW a \in STRING, a # US
  PROVE  /\ <<a>> \in Seq(STRING) /\ Bare(<<a>>) = <<a>>
         /\ ~IsPrefix(<<US>>, <<a>>)
         /\ <<US, a>> = Underscore(<<a>>)
         /\ Underscore(<<a>>) \in Seq(STRING) /\ Bare(Underscore(<<a>>)) = <<a>>
<1>1. <<a>> \in Seq(STRING) /\ Len(<<a>>) = 1 /\ <<a>>[1] = a
  BY Single
<1>2. ~IsPrefix(<<US>>, <<a>>) /\ Bare(<<a>>) = <<a>>
  <2> DEFINE v == <<a>>
  <2>1. v \in Seq(STRING) /\ v[1] # US
    BY <1>1
  <2> HIDE DEF v
  <2>2. ~IsPrefix(<<US>>, v) /\ Bare(v) = v
    BY <2>1, BeginsWith, BareIs
  <2> QED
    BY <2>2 DEF v
<1>3. <<US, a>> = Underscore(<<a>>)
  <2>1. US \in STRING
    BY PartsAssumption
  <2>2. Append(<<US>>, a) = <<US, a>>
    BY AppendToOne
  <2>3. Append(<<US>>, a) = <<US>> \o <<a>>
    <3> DEFINE v == <<US>>
    <3>1. v \in Seq(STRING)
      BY UnderscoreName
    <3> HIDE DEF v
    <3>2. Append(v, a) = v \o <<a>>
      BY <3>1, AppendIsConcat
    <3> QED
      BY <3>2 DEF v
  <2> QED
    BY <2>2, <2>3 DEF Underscore
<1>4. Underscore(<<a>>) \in Seq(STRING) /\ Bare(Underscore(<<a>>)) = <<a>>
  <2> DEFINE v == <<a>>
  <2>1. v \in Seq(STRING)
    BY <1>1
  <2> HIDE DEF v
  <2>2. Underscore(v) \in Seq(STRING) /\ Bare(Underscore(v)) = v
    BY <2>1, UnderscoreIs
  <2> QED
    BY <2>2 DEF v
<1> QED
  BY <1>1, <1>2, <1>3, <1>4

\* What the eight imports intercept.
LEMMA EightStems ==
  /\ \A x \in Eight : x.intercepts \subseteq Seq(STRING)
  /\ \A x \in Eight \ {Exit, Write, Execve, Printf} : x.intercepts = {}
  /\ Stems(Exit) = {<<"exit">>, <<"Exit">>} /\ Stems(Write) = {<<"write">>}
  /\ Stems(Execve) = {<<"execve">>} /\ Stems(Printf) = {<<"printf">>}
<1>1. /\ Hint.intercepts = {} /\ LogUnreachable.intercepts = {}
      /\ StubForPc.intercepts = {} /\ UnreachableTrap.intercepts = {}
  BY DEF Hint, LogUnreachable, StubForPc, UnreachableTrap, Internal, FuncImport
<1>2. /\ Exit.intercepts = BothSpellings(<<"exit">>) \cup {<<US, "Exit">>}
      /\ Write.intercepts = BothSpellings(<<"write">>)
      /\ Execve.intercepts = BothSpellings(<<"execve">>)
      /\ Printf.intercepts = {<<"printf">>}
  BY DEF Exit, Write, Execve, Printf, FuncImport
<1>3. \A a \in {"exit", "Exit", "write", "execve", "printf"} :
        /\ <<a>> \in Seq(STRING) /\ Bare(<<a>>) = <<a>> /\ <<US, a>> = Underscore(<<a>>)
        /\ Underscore(<<a>>) \in Seq(STRING) /\ Bare(Underscore(<<a>>)) = <<a>>
  <2> TAKE a \in {"exit", "Exit", "write", "execve", "printf"}
  <2>1. a \in STRING
    BY PartsAssumption
  <2>2. a # US
    BY DEF US
  <2> QED
    BY <2>1, <2>2, OnePart
<1>4. ASSUME NEW x \in Eight PROVE x.intercepts \subseteq Seq(STRING)
  BY <1>1, <1>2, <1>3 DEF Eight, BothSpellings
<1>5. Stems(Exit) = {<<"exit">>, <<"Exit">>}
  BY <1>2, <1>3 DEF Stems, BothSpellings
<1>6. Stems(Write) = {<<"write">>}
  BY <1>2, <1>3 DEF Stems, BothSpellings
<1>7. Stems(Execve) = {<<"execve">>}
  BY <1>2, <1>3 DEF Stems, BothSpellings
<1>8. Stems(Printf) = {<<"printf">>}
  BY <1>2, <1>3 DEF Stems
<1>9. \A x \in Eight \ {Exit, Write, Execve, Printf} : x.intercepts = {}
  BY <1>1 DEF Eight
<1> QED
  BY <1>4, <1>5, <1>6, <1>7, <1>8, <1>9

\* No two of them intercept names with a stem in common.
LEMMA EightApart ==
  ASSUME NEW x \in Eight, NEW y \in Eight, x # y
  PROVE  x.name # y.name /\ Stems(x) \cap Stems(y) = {}
<1>1. x.name # y.name
  BY EightNames
<1>2. \A z \in Eight \ {Exit, Write, Execve, Printf} : Stems(z) = {}
  BY EightStems DEF Stems
<1>3. /\ <<"exit">> # <<"write">> /\ <<"exit">> # <<"execve">> /\ <<"exit">> # <<"printf">>
      /\ <<"Exit">> # <<"write">> /\ <<"Exit">> # <<"execve">> /\ <<"Exit">> # <<"printf">>
      /\ <<"write">> # <<"execve">> /\ <<"write">> # <<"printf">> /\ <<"execve">> # <<"printf">>
  OBVIOUS
<1>4. CASE x \notin {Exit, Write, Execve, Printf} \/ y \notin {Exit, Write, Execve, Printf}
  BY <1>1, <1>2, <1>4
<1>5. CASE x \in {Exit, Write, Execve, Printf} /\ y \in {Exit, Write, Execve, Printf}
  BY <1>1, <1>3, <1>5, EightStems
<1> QED
  BY <1>4, <1>5

-----------------------------------------------------------------------------
(***************************************************************************)
(* The invariant: what a manifest and the wrappers around it can be        *)
(***************************************************************************)
AddedImport(s) ==
  LET types == bridgesupport_wasm_types(Abi[s])
  IN  FuncImport(s, types.params, types.results, intercept_names(s))

Imports == Eight \cup {AddedImport(s) : s \in DOMAIN Abi}

\* Two imports of a manifest have different names, and intercept names that
\* differ in more than an underscore.
Apart(m) ==
  \A i, j \in DOMAIN m :
    i # j => m[i].name # m[j].name /\ Stems(m[i]) \cap Stems(m[j]) = {}

\* It begins with one of those that os-host-api has.
Extends(m) ==
  \E m0 \in Manifests : DOMAIN m0 \subseteq DOMAIN m /\ \A i \in DOMAIN m0 : m[i] = m0[i]

GoodManifest(m) == m \in Seq(Imports) /\ Extends(m) /\ Apart(m)

\* The hooks of a wrapper are an embedder's or those of this manifest.
Wrappers(m) ==
  {Filtered(allow) : allow \in Policies}
  \cup {Redirecting(hs) : hs \in CustomHooks \cup {derive_hooks_from_manifest(m)}}

HostInv ==
  /\ tunnel \in Tunnels
  /\ GoodManifest(manifest)
  /\ layers \in Seq(Wrappers(manifest)) /\ Len(layers) <= MaxLayers
  /\ stubs \in Requests /\ generate_succeeds(stubs)

\* An import that was added has the name of a function and lists it, and lists
\* no name without the same name with an underscore.
LEMMA ImportSpells ==
  ASSUME NEW imp \in Imports
  PROVE  /\ imp.intercepts \subseteq Seq(STRING)
         /\ imp \notin Eight =>
              /\ imp.name \in DOMAIN Abi /\ imp = AddedImport(imp.name)
              /\ imp.name \in imp.intercepts
              /\ \A t \in imp.intercepts : ~IsPrefix(<<US>>, t) => Underscore(t) \in imp.intercepts
<1>1. CASE imp \in Eight
  BY <1>1, EightStems
<1>2. CASE imp \notin Eight
  <2>1. PICK s \in DOMAIN Abi : imp = AddedImport(s)
    BY <1>2 DEF Imports
  <2>2. imp.name = s /\ imp.intercepts = intercept_names(s)
    BY <2>1 DEF AddedImport, FuncImport
  <2>3. s \in Seq(STRING) /\ Underscore(s) \in Seq(STRING) /\ IsPrefix(<<US>>, Underscore(s))
    BY NamesAssumption, UnderscoreIs
  <2>4. /\ s \in intercept_names(s)
        /\ intercept_names(s) \subseteq {s, Underscore(s)}
        /\ ~IsPrefix(<<US>>, s) => Underscore(s) \in intercept_names(s)
    BY DEF intercept_names, BothSpellings
  <2> QED
    BY <2>1, <2>2, <2>3, <2>4
<1> QED
  BY <1>1, <1>2

\* The import of a name that none intercepts stands apart from the others.
LEMMA AddedApart ==
  ASSUME NEW n \in DOMAIN Abi, NEW imp \in Imports,
         ~ \E t \in imp.intercepts : t = n \/ (IsPrefix(<<US>>, t) /\ Bare(t) = n)
  PROVE  imp.name # n /\ Stems(imp) \cap Stems(AddedImport(n)) = {}
<1>0. n \in Seq(STRING) /\ Bare(n) \in Seq(STRING)
  BY NamesAssumption, BareIs
<1>1. imp.name # n
  <2>1. SUFFICES ASSUME imp.name = n PROVE n \in imp.intercepts
    OBVIOUS
  <2>2. CASE imp \in Eight
    BY <2>1, <2>2, BuiltInIs, NamesAssumption
  <2>3. CASE imp \notin Eight
    BY <2>1, <2>3, ImportSpells
  <2> QED
    BY <2>2, <2>3
<1>2. Stems(AddedImport(n)) = {Bare(n)}
  <2>1. AddedImport(n).intercepts = intercept_names(n)
    BY DEF AddedImport, FuncImport
  <2>2. IsPrefix(<<US>>, n) => intercept_names(n) = {n}
    BY DEF intercept_names
  <2>3. ~IsPrefix(<<US>>, n) => intercept_names(n) = {n, Underscore(n)} /\ Bare(Underscore(n)) = Bare(n)
    BY <1>0, UnderscoreIs, BareIs DEF intercept_names, BothSpellings
  <2> QED
    BY <2>1, <2>2, <2>3 DEF Stems
<1>3. ASSUME NEW t \in imp.intercepts PROVE Bare(t) # Bare(n)
  <2>1. SUFFICES ASSUME Bare(t) = Bare(n) PROVE FALSE
    OBVIOUS
  <2>2. /\ t \in Seq(STRING) /\ t # n /\ ~(IsPrefix(<<US>>, t) /\ Bare(t) = n)
    BY ImportSpells
  <2>3. /\ IsPrefix(<<US>>, t) => t = Underscore(Bare(t))
        /\ ~IsPrefix(<<US>>, t) => Bare(t) = t
        /\ IsPrefix(<<US>>, n) => n = Underscore(Bare(n))
        /\ ~IsPrefix(<<US>>, n) => Bare(n) = n
    BY <1>0, <2>2, BareIs
  <2>4. ~IsPrefix(<<US>>, t) /\ n = Underscore(t)
    BY <2>1, <2>2, <2>3
  <2>5. n \in imp.intercepts
    <3>1. CASE imp \in Eight
      BY <2>4, <3>1, BuiltInIs, NamesAssumption
    <3>2. CASE imp \notin Eight
      BY <2>4, <3>2, ImportSpells
    <3> QED
      BY <3>1, <3>2
  <2> QED
    BY <2>5
<1> QED
  BY <1>1, <1>2, <1>3 DEF Stems

\* A manifest that was good is good with the import of such a name.
LEMMA ExtendKeeps ==
  ASSUME NEW m, GoodManifest(m), NEW n \in DOMAIN Abi, ~AlreadyIntercepted(m, n)
  PROVE  GoodManifest(Append(m, AddedImport(n)))
<1> DEFINE imp == AddedImport(n)
           k == Len(m) + 1
           m1 == Append(m, imp)
<1>1. imp \in Imports /\ imp.name = n
  BY DEF Imports, AddedImport, FuncImport
<1> HIDE DEF imp
<1>2. /\ m \in Seq(Imports) /\ Len(m) \in Nat /\ DOMAIN m = 1..Len(m)
      /\ m1 \in Seq(Imports) /\ DOMAIN m1 = 1..k
      /\ \A i \in DOMAIN m : m1[i] = m[i] /\ m[i] \in Imports
      /\ m1[k] = imp
  BY <1>1 DEF GoodManifest
<1> HIDE DEF m1
<1>3. ASSUME NEW i \in DOMAIN m
      PROVE  m[i].name # imp.name /\ Stems(m[i]) \cap Stems(imp) = {}
  <2>1. ~ \E t \in m[i].intercepts : t = n \/ (IsPrefix(<<US>>, t) /\ Bare(t) = n)
    BY DEF AlreadyIntercepted
  <2>2. m[i] \in Imports
    BY <1>2
  <2>3. m[i].name # n /\ Stems(m[i]) \cap Stems(AddedImport(n)) = {}
    BY <2>1, <2>2, AddedApart
  <2> QED
    BY <1>1, <2>3 DEF imp
<1>4. Apart(m1)
  <2>1. SUFFICES ASSUME NEW i \in 1..k, NEW j \in 1..k, i # j
                 PROVE  m1[i].name # m1[j].name /\ Stems(m1[i]) \cap Stems(m1[j]) = {}
    BY <1>2 DEF Apart
  <2>2. CASE i # k /\ j # k
    <3>1. i \in DOMAIN m /\ j \in DOMAIN m
      BY <1>2, <2>2
    <3>2. Apart(m)
      BY DEF GoodManifest
    <3>3. m[i].name # m[j].name /\ Stems(m[i]) \cap Stems(m[j]) = {}
      BY <2>1, <3>1, <3>2 DEF Apart
    <3> QED
      BY <1>2, <3>1, <3>3
  <2>3. CASE i = k
    <3>1. j \in DOMAIN m
      BY <1>2, <2>1, <2>3
    <3> QED
      BY <1>2, <1>3, <2>3, <3>1
  <2>4. CASE j = k
    <3>1. i \in DOMAIN m
      BY <1>2, <2>1, <2>4
    <3> QED
      BY <1>2, <1>3, <2>4, <3>1
  <2> QED
    BY <2>2, <2>3, <2>4
<1>5. Extends(m1)
  <2>1. PICK m0 \in Manifests : DOMAIN m0 \subseteq DOMAIN m /\ \A i \in DOMAIN m0 : m[i] = m0[i]
    BY DEF GoodManifest, Extends
  <2>2. DOMAIN m0 \subseteq DOMAIN m1 /\ \A i \in DOMAIN m0 : m1[i] = m0[i]
    BY <1>2, <2>1
  <2> QED
    BY <2>2 DEF Extends
<1> QED
  BY <1>2, <1>4, <1>5 DEF GoodManifest, m1, imp

\* The manifests of os-host-api are good.
LEMMA ManifestsGood ==
  ASSUME NEW m \in Manifests
  PROVE  GoodManifest(m)
<1>1. /\ m \in Seq(Eight)
      /\ \A i, j \in DOMAIN m : i # j => m[i] # m[j]
  BY ManifestsHaveEight
<1>2. m \in Seq(Imports)
  BY <1>1 DEF Imports
<1>3. Apart(m)
  BY <1>1, EightApart DEF Apart
<1>4. Extends(m)
  BY DEF Extends
<1> QED
  BY <1>2, <1>3, <1>4 DEF GoodManifest

\* It holds at the start.
LEMMA HostStarts ==
  StubsInit => HostInv
<1> SUFFICES ASSUME StubsInit PROVE HostInv
  OBVIOUS
<1>1. tunnel \in Tunnels /\ manifest = native_syscall /\ layers = <<>>
  BY DEF StubsInit, Init
<1>2. stubs \in Requests /\ generate_succeeds(stubs)
  BY DEF StubsInit
<1>3. GoodManifest(manifest)
  <2>1. native_syscall \in Manifests
    BY DEF Manifests
  <2> QED
    BY <1>1, <2>1, ManifestsGood
<1>4. layers \in Seq(Wrappers(manifest)) /\ Len(layers) <= MaxLayers
  BY <1>1, HostAssumption
<1> QED
  BY <1>1, <1>2, <1>3, <1>4 DEF HostInv

\* And every step keeps it: a manifest is set or extended while there is no
\* wrapper, so that the hooks of a wrapper are those of the manifest.
LEMMA HostKeeps ==
  HostInv /\ [StubsNext]_vars => HostInv'
<1> SUFFICES ASSUME HostInv, [StubsNext]_vars PROVE HostInv'
  OBVIOUS
<1> USE DEF HostInv
<1>1. ASSUME NEW m, with_manifest(m), GoodManifest(m), UNCHANGED stubs PROVE HostInv'
  <2>1. tunnel' = tunnel /\ manifest' = m /\ layers' = <<>> /\ stubs' = stubs
    BY <1>1 DEF with_manifest
  <2>2. <<>> \in Seq(Wrappers(m)) /\ Len(<<>>) <= MaxLayers
    BY HostAssumption
  <2> QED
    BY <1>1, <2>1, <2>2 DEF generate_succeeds
<1>2. ASSUME NEW l \in Wrappers(manifest), Wrap(l), UNCHANGED stubs PROVE HostInv'
  <2>1. /\ tunnel' = tunnel /\ manifest' = manifest /\ stubs' = stubs
        /\ layers' = Append(layers, l) /\ Len(layers) < MaxLayers
    BY <1>2 DEF Wrap
  <2>2. Append(layers, l) \in Seq(Wrappers(manifest)) /\ Len(Append(layers, l)) <= MaxLayers
    BY <2>1, HostAssumption
  <2> QED
    BY <2>1, <2>2 DEF generate_succeeds
<1>3. CASE Build
  <2>1. UNCHANGED stubs
    BY <1>3 DEF Build
  <2>2. ASSUME NEW m \in Manifests, with_manifest(m) PROVE HostInv'
    BY <1>1, <2>1, <2>2, ManifestsGood
  <2>3. ASSUME NEW allow \in Policies, from_policy(allow) PROVE HostInv'
    <3>1. Filtered(allow) \in Wrappers(manifest)
      BY DEF Wrappers
    <3> QED
      BY <1>2, <2>1, <2>3, <3>1 DEF from_policy
  <2>4. ASSUME NEW hs \in CustomHooks, redirecting_new(hs) PROVE HostInv'
    <3>1. Redirecting(hs) \in Wrappers(manifest)
      BY DEF Wrappers
    <3> QED
      BY <1>2, <2>1, <2>4, <3>1 DEF redirecting_new
  <2>5. ASSUME integrated PROVE HostInv'
    <3>1. Redirecting(derive_hooks_from_manifest(manifest)) \in Wrappers(manifest)
      BY DEF Wrappers
    <3> QED
      BY <1>2, <2>1, <2>5, <3>1 DEF integrated
  <2> QED
    BY <1>3, <2>2, <2>3, <2>4, <2>5 DEF Build, Next
<1>4. CASE Extend
  <2>1. PICK n \in DOMAIN Abi : extend_manifest(n)
    BY <1>4 DEF Extend
  <2>2. ~AlreadyIntercepted(manifest, n) /\ with_manifest(Append(manifest, AddedImport(n)))
    BY <2>1 DEF extend_manifest, AddedImport
  <2>3. GoodManifest(Append(manifest, AddedImport(n)))
    BY <2>2, ExtendKeeps
  <2> QED
    BY <1>1, <1>4, <2>2, <2>3 DEF Extend
<1>5. CASE UNCHANGED vars
  <2>1. tunnel' = tunnel /\ manifest' = manifest /\ layers' = layers /\ stubs' = stubs
    BY <1>5 DEF vars, hostVars
  <2> QED
    BY <2>1 DEF generate_succeeds
<1> QED
  BY <1>3, <1>4, <1>5 DEF StubsNext

-----------------------------------------------------------------------------
(***************************************************************************)
(* What the wrappers answer                                                *)
(***************************************************************************)

\* A name is resolved by the tunnel, unless a policy denies it.
LEMMA AmbientIs ==
  ASSUME NEW W, NEW stack \in Seq(W), NEW s
  PROVE  resolve_ambient(stack, s) =
           IF \E i \in 1..Len(stack) : Denies(stack[i], s) THEN NoName ELSE TunnelResolve(s)
<1> DEFINE n == Len(stack)
           All(f) == f = [i \in 0..n |->
                            IF i = 0 THEN TunnelResolve(s)
                            ELSE IF Denies(stack[i], s) THEN NoName ELSE f[i - 1]]
           g == [i \in 0..n |->
                   IF \E j \in 1..i : Denies(stack[j], s) THEN NoName ELSE TunnelResolve(s)]
<1>0. n \in Nat
  OBVIOUS
<1>1. resolve_ambient(stack, s) = (CHOOSE f : All(f))[n]
  BY DEF resolve_ambient
<1> HIDE DEF n
<1>2. g[0] = TunnelResolve(s)
  BY <1>0
<1>3. ASSUME NEW i \in 1..n PROVE g[i] = IF Denies(stack[i], s) THEN NoName ELSE g[i - 1]
  <2>1. /\ g[i] = IF \E j \in 1..i : Denies(stack[j], s) THEN NoName ELSE TunnelResolve(s)
        /\ g[i - 1] = IF \E j \in 1..(i - 1) : Denies(stack[j], s) THEN NoName ELSE TunnelResolve(s)
    BY <1>0
  <2>2. \A j \in 1..i : j = i \/ j \in 1..(i - 1)
    BY <1>0
  <2>3. i \in 1..i /\ \A j \in 1..(i - 1) : j \in 1..i
    BY <1>0
  <2> QED
    BY <2>1, <2>2, <2>3
<1>4. All(g)
  <2>1. \A i \in 0..n : g[i] = IF i = 0 THEN TunnelResolve(s)
                               ELSE IF Denies(stack[i], s) THEN NoName ELSE g[i - 1]
    BY <1>0, <1>2, <1>3
  <2>2. g = [i \in 0..n |-> g[i]]
    OBVIOUS
  <2> HIDE DEF g
  <2>3. [i \in 0..n |-> g[i]] = [i \in 0..n |-> IF i = 0 THEN TunnelResolve(s)
                                 ELSE IF Denies(stack[i], s) THEN NoName ELSE g[i - 1]]
    BY <2>1
  <2> QED
    BY <2>2, <2>3, Zenon
<1>5. ASSUME NEW f, All(f) PROVE f[n] = g[n]
  <2>1. f[0] = g[0] /\ \A i \in 1..n : f[i] = IF Denies(stack[i], s) THEN NoName ELSE f[i - 1]
    BY <1>0, <1>2, <1>5
  <2> HIDE DEF All, g
  <2>2. \A i \in 1..n : f[i - 1] = g[i - 1] => f[i] = g[i]
    BY <1>3, <2>1
  <2>3. f[0] = g[0] /\ n \in Nat
    BY <1>0, <2>1
  <2>4. \A i \in 0..n : f[i] = g[i]
    BY <2>2, <2>3, SameRecursion, SMTT(30)
  <2> QED
    BY <2>3, <2>4
<1>6. resolve_ambient(stack, s) = g[n]
  <2> HIDE DEF All, g
  <2>1. All(CHOOSE f : All(f))
    BY <1>4
  <2> QED
    BY <1>1, <1>5, <2>1
<1> QED
  BY <1>0, <1>6 DEF n

\* An alias is linked that every wrapper retains.
LEMMA RecipeIs ==
  ASSUME NEW W, NEW stack \in Seq(W)
  PROVE  link_recipe(stack) = {a \in TunnelAliases : \A i \in 1..Len(stack) : Retains(stack[i], a)}
<1> DEFINE n == Len(stack)
           All(f) == f = [i \in 0..n |->
                            IF i = 0 THEN TunnelAliases
                            ELSE {a \in f[i - 1] : Retains(stack[i], a)}]
           g == [i \in 0..n |-> {a \in TunnelAliases : \A j \in 1..i : Retains(stack[j], a)}]
<1>0. n \in Nat
  OBVIOUS
<1>1. link_recipe(stack) = (CHOOSE f : All(f))[n]
  BY DEF link_recipe
<1> HIDE DEF n
<1>2. g[0] = TunnelAliases
  BY <1>0
<1>3. ASSUME NEW i \in 1..n PROVE g[i] = {a \in g[i - 1] : Retains(stack[i], a)}
  <2>1. /\ g[i] = {a \in TunnelAliases : \A j \in 1..i : Retains(stack[j], a)}
        /\ g[i - 1] = {a \in TunnelAliases : \A j \in 1..(i - 1) : Retains(stack[j], a)}
    BY <1>0
  <2>2. \A j \in 1..i : j = i \/ j \in 1..(i - 1)
    BY <1>0
  <2>3. i \in 1..i /\ \A j \in 1..(i - 1) : j \in 1..i
    BY <1>0
  <2> QED
    BY <2>1, <2>2, <2>3
<1>4. All(g)
  <2>1. \A i \in 0..n : g[i] = IF i = 0 THEN TunnelAliases
                               ELSE {a \in g[i - 1] : Retains(stack[i], a)}
    BY <1>0, <1>2, <1>3
  <2>2. g = [i \in 0..n |-> g[i]]
    OBVIOUS
  <2> HIDE DEF g
  <2>3. [i \in 0..n |-> g[i]] = [i \in 0..n |-> IF i = 0 THEN TunnelAliases
                                 ELSE {a \in g[i - 1] : Retains(stack[i], a)}]
    BY <2>1
  <2> QED
    BY <2>2, <2>3, Zenon
<1>5. ASSUME NEW f, All(f) PROVE f[n] = g[n]
  <2>1. f[0] = g[0] /\ \A i \in 1..n : f[i] = {a \in f[i - 1] : Retains(stack[i], a)}
    BY <1>0, <1>2, <1>5
  <2> HIDE DEF All, g
  <2>2. \A i \in 1..n : f[i - 1] = g[i - 1] => f[i] = g[i]
    BY <1>3, <2>1
  <2>3. f[0] = g[0] /\ n \in Nat
    BY <1>0, <2>1
  <2>4. \A i \in 0..n : f[i] = g[i]
    BY <2>2, <2>3, SameRecursion, ZenonT(30)
  <2> QED
    BY <2>3, <2>4
<1>6. link_recipe(stack) = g[n]
  <2> HIDE DEF All, g
  <2>1. All(CHOOSE f : All(f))
    BY <1>4
  <2> QED
    BY <1>1, <1>5, <2>1
<1> QED
  BY <1>0, <1>6 DEF n

\* A redirect is that of a wrapper whose hooks have the name, or the search of
\* the manifest finds it.
LEMMA RedirectIs ==
  ASSUME NEW W, NEW stack \in Seq(W), NEW s
  PROVE  \/ resolve_plt_redirect(stack, s) = resolve_intercept(manifest, s)
         \/ \E i \in 1..Len(stack) :
              /\ Hooks(stack[i], s)
              /\ resolve_plt_redirect(stack, s) = HookOf(stack[i], s)
<1> DEFINE n == Len(stack)
           r == resolve_intercept(manifest, s)
           H == {i \in 1..n : Hooks(stack[i], s)}
           T == {r} \cup {HookOf(stack[i], s) : i \in H}
           h == [p \in (1..n) \X T |-> IF Hooks(stack[p[1]], s) THEN HookOf(stack[p[1]], s) ELSE p[2]]
           All(f) == f = [i \in 0..n |->
                            IF i = 0 THEN r
                            ELSE IF Hooks(stack[i], s) THEN HookOf(stack[i], s) ELSE f[i - 1]]
<1>0. n \in Nat /\ r \in T
  OBVIOUS
<1>1. resolve_plt_redirect(stack, s) = (CHOOSE f : All(f))[n]
  BY DEF resolve_plt_redirect
<1>2. \A i \in 1..n, y \in T :
        /\ h[<<i, y>>] = IF Hooks(stack[i], s) THEN HookOf(stack[i], s) ELSE y
        /\ h[<<i, y>>] \in T
  OBVIOUS
<1> HIDE DEF h, n, r
<1> HIDE DEF T
<1>3. PICK g : Recursive(g, n, T, r, h)
  BY <1>0, <1>2, Recursion
<1>4. g = [i \in 0..n |-> g[i]]
  BY <1>3 DEF Recursive
<1>5. g[0] = r /\ \A i \in 0..n : g[i] \in T
  BY <1>0, <1>3 DEF Recursive
<1>6. ASSUME NEW i \in 1..n
      PROVE  g[i] = IF Hooks(stack[i], s) THEN HookOf(stack[i], s) ELSE g[i - 1]
  <2>1. g[i - 1] \in T
    BY <1>0, <1>5
  <2>2. g[i] = h[<<i, g[i - 1]>>]
    BY <1>3 DEF Recursive
  <2> QED
    BY <1>2, <2>1, <2>2
<1>7. All(g)
  <2>1. \A i \in 0..n : g[i] = IF i = 0 THEN r
                               ELSE IF Hooks(stack[i], s) THEN HookOf(stack[i], s) ELSE g[i - 1]
    BY <1>0, <1>5, <1>6
  <2>2. g = [i \in 0..n |-> g[i]]
    BY <1>4
  <2>3. [i \in 0..n |-> g[i]] = [i \in 0..n |-> IF i = 0 THEN r
                                 ELSE IF Hooks(stack[i], s) THEN HookOf(stack[i], s) ELSE g[i - 1]]
    BY <2>1
  <2> QED
    BY <2>2, <2>3, Zenon
<1>8. ASSUME NEW f, All(f) PROVE f[n] = g[n]
  <2>1. /\ f[0] = g[0]
        /\ \A i \in 1..n : f[i] = IF Hooks(stack[i], s) THEN HookOf(stack[i], s) ELSE f[i - 1]
    BY <1>0, <1>5, <1>8
  <2> HIDE DEF All
  <2>2. \A i \in 1..n : f[i - 1] = g[i - 1] => f[i] = g[i]
    BY <1>6, <2>1
  <2>3. f[0] = g[0] /\ n \in Nat
    BY <1>0, <2>1
  <2>4. \A i \in 0..n : f[i] = g[i]
    BY <2>2, <2>3, SameRecursion, ZenonT(30)
  <2> QED
    BY <2>3, <2>4
<1>9. resolve_plt_redirect(stack, s) = g[n]
  <2> HIDE DEF All
  <2>1. All(CHOOSE f : All(f))
    BY <1>7
  <2> QED
    BY <1>1, <1>8, <2>1
<1>10. g[n] \in T
  BY <1>0, <1>5
<1> QED
  BY <1>9, <1>10 DEF T, r, n

-----------------------------------------------------------------------------
(***************************************************************************)
(* Searching a manifest, and the hooks derived from it                     *)
(***************************************************************************)

\* The search finds an import that intercepts the name, if there is one.
LEMMA SearchIs ==
  ASSUME NEW I, NEW m \in Seq(I), NEW s
  PROVE  \/ /\ resolve_intercept(m, s) = NoRedirect
            /\ \A i \in DOMAIN m : ~Intercepts(m[i], s)
         \/ \E i \in DOMAIN m :
              Intercepts(m[i], s) /\ resolve_intercept(m, s) = WasmImport(m[i].name)
<1> DEFINE F == {i \in 1..Len(m) : Intercepts(m[i], s)}
<1>1. DOMAIN m = 1..Len(m) /\ F \subseteq Nat
  OBVIOUS
<1>2. resolve_intercept(m, s) =
        IF (IF F # {} THEN Min(F) ELSE 0) = 0 THEN NoRedirect
        ELSE WasmImport(m[IF F # {} THEN Min(F) ELSE 0].name)
  BY DEF resolve_intercept, SelectInSeq
<1>3. CASE F = {}
  <2>1. resolve_intercept(m, s) = NoRedirect
    BY <1>2, <1>3
  <2>2. \A i \in DOMAIN m : ~Intercepts(m[i], s)
    BY <1>1, <1>3
  <2> QED
    BY <2>1, <2>2
<1>4. CASE F # {}
  <2> DEFINE k == Min(F)
  <2>1. k \in F
    <3> HIDE DEF F
    <3> QED
      BY <1>1, <1>4, MinOf
  <2>2. k # 0 /\ k \in DOMAIN m /\ Intercepts(m[k], s)
    BY <2>1
  <2> HIDE DEF F
  <2>3. resolve_intercept(m, s) = WasmImport(m[k].name)
    BY <1>2, <1>4, <2>2
  <2> QED
    BY <2>2, <2>3
<1> QED
  BY <1>3, <1>4

\* In a manifest with different names an import is found by its own.
LEMMA IndexIs ==
  ASSUME NEW I, NEW m \in Seq(I), \A i, j \in DOMAIN m : i # j => m[i].name # m[j].name,
         NEW k \in DOMAIN m
  PROVE  index_of(m, m[k].name) = k
<1> DEFINE name == m[k].name
           F == {i \in 1..Len(m) : m[i].name = name}
<1>1. F = {k}
  OBVIOUS
<1>2. index_of(m, name) = IF F # {} THEN Min(F) ELSE 0
  BY DEF index_of, SelectInSeq
<1>3. Min({k}) = k
  <2>1. {k} \subseteq Nat /\ {k} # {}
    OBVIOUS
  <2> QED
    BY <2>1, MinOf
<1> HIDE DEF F
<1> QED
  BY <1>1, <1>2, <1>3

\* The hooks have the names that imports list, and lead to one that lists it.
LEMMA HooksAre ==
  ASSUME NEW I, NEW m \in Seq(I)
  PROVE  /\ DOMAIN derive_hooks_from_manifest(m) = UNION {m[i].intercepts : i \in DOMAIN m}
         /\ \A t \in DOMAIN derive_hooks_from_manifest(m) :
              \E k \in DOMAIN m :
                t \in m[k].intercepts /\ derive_hooks_from_manifest(m)[t] = WasmImport(m[k].name)
<1> DEFINE U == UNION {m[i].intercepts : i \in DOMAIN m}
<1>1. DOMAIN derive_hooks_from_manifest(m) = U
  BY DEF derive_hooks_from_manifest
<1>2. ASSUME NEW t \in U
      PROVE  \E k \in DOMAIN m :
               t \in m[k].intercepts /\ derive_hooks_from_manifest(m)[t] = WasmImport(m[k].name)
  <2> DEFINE F == {i \in 1..Len(m) : t \in m[i].intercepts}
             k == Max(F)
             n == Len(m)
  <2>1. F \subseteq 0..n /\ F # {} /\ n \in Nat
    OBVIOUS
  <2>2. derive_hooks_from_manifest(m)[t] = WasmImport(m[IF F # {} THEN Max(F) ELSE 0].name)
    BY DEF derive_hooks_from_manifest, SelectLastInSeq
  <2>3. k \in F
    <3> HIDE DEF F, n
    <3> QED
      BY <2>1, MaxOf
  <2>4. k \in DOMAIN m /\ t \in m[k].intercepts
    BY <2>3
  <2> HIDE DEF F
  <2>5. derive_hooks_from_manifest(m)[t] = WasmImport(m[k].name)
    BY <2>1, <2>2
  <2> QED
    BY <2>4, <2>5
<1> QED
  BY <1>1, <1>2

\* Two imports of a good manifest that intercept the same name are one: if
\* the name has no more than one underscore, both have its stem.
LEMMA OneIntercepts ==
  ASSUME NEW m, GoodManifest(m), NEW s, NEW i \in DOMAIN m, NEW j \in DOMAIN m,
         Intercepts(m[i], s), Intercepts(m[j], s)
  PROVE  i = j
<1>1. Bare(s) \in Stems(m[i]) /\ Bare(s) \in Stems(m[j])
  BY DEF Intercepts, Stems
<1> QED
  BY <1>1 DEF GoodManifest, Apart

\* What a hook of the manifest says of such a name is what the search says.
LEMMA HookIsSearch ==
  ASSUME NEW m, GoodManifest(m), NEW s, OneUnderscore(s),
         Hooks(Redirecting(derive_hooks_from_manifest(m)), s)
  PROVE  HookOf(Redirecting(derive_hooks_from_manifest(m)), s) = resolve_intercept(m, s)
<1> DEFINE hs == derive_hooks_from_manifest(m)
           l  == Redirecting(hs)
           t  == IF s \in DOMAIN hs THEN s ELSE Bare(s)
<1>1. l.hooks = hs /\ m \in Seq(Imports)
  BY DEF Redirecting, GoodManifest
<1>2. t \in DOMAIN hs /\ HookOf(l, s) = hs[t]
  BY <1>1 DEF Hooks, is_hooked, HookOf
<1>3. PICK k \in DOMAIN m : t \in m[k].intercepts /\ hs[t] = WasmImport(m[k].name)
  <2> HIDE DEF t
  <2> QED
    BY <1>1, <1>2, HooksAre
<1>4. Intercepts(m[k], s)
  <2>1. t = s \/ (t = Bare(s) /\ Bare(t) = Bare(s))
    BY DEF OneUnderscore
  <2> QED
    BY <1>3, <2>1 DEF Intercepts
<1>5. PICK i \in DOMAIN m : Intercepts(m[i], s) /\ resolve_intercept(m, s) = WasmImport(m[i].name)
  <2> HIDE DEF hs, l, t
  <2> QED
    BY <1>1, <1>4, SearchIs
<1>6. i = k
  BY <1>4, <1>5, OneIntercepts
<1> QED
  BY <1>2, <1>3, <1>5, <1>6

-----------------------------------------------------------------------------
(***************************************************************************)
(* The properties, from the invariant                                      *)
(***************************************************************************)

\* A wrapper is a policy or has hooks; hooks that are not an embedder's are
\* those of the manifest.
LEMMA WrappersAre ==
  ASSUME HostInv, NEW i \in DOMAIN layers
  PROVE  \/ layers[i].kind = "filtered"
         \/ /\ layers[i].kind = "redirecting"
            /\ layers[i].hooks \in CustomHooks \cup {derive_hooks_from_manifest(manifest)}
            /\ layers[i] = Redirecting(layers[i].hooks)
<1>1. layers[i] \in Wrappers(manifest)
  BY DEF HostInv
<1>2. CASE layers[i] \in {Filtered(allow) : allow \in Policies}
  BY <1>2 DEF Filtered
<1>3. CASE layers[i] \in {Redirecting(hs) :
                            hs \in CustomHooks \cup {derive_hooks_from_manifest(manifest)}}
  <2>1. PICK hs \in CustomHooks \cup {derive_hooks_from_manifest(manifest)} :
          layers[i] = Redirecting(hs)
    BY <1>3
  <2>2. layers[i].kind = "redirecting" /\ layers[i].hooks = hs
    BY <2>1 DEF Redirecting
  <2> QED
    BY <2>1, <2>2
<1> QED
  BY <1>1, <1>2, <1>3 DEF Wrappers

\* Where a redirect comes from: the search, or hooks that have the name.
LEMMA RedirectFrom ==
  ASSUME HostInv, NEW s
  PROVE  \/ Redirect(s) = resolve_intercept(manifest, s)
         \/ \E i \in DOMAIN layers :
              /\ layers[i].kind = "redirecting" /\ Hooks(layers[i], s)
              /\ layers[i].hooks \in CustomHooks \cup {derive_hooks_from_manifest(manifest)}
              /\ layers[i] = Redirecting(layers[i].hooks)
              /\ Redirect(s) = HookOf(layers[i], s)
<1>1. layers \in Seq(Wrappers(manifest)) /\ DOMAIN layers = 1..Len(layers)
  BY DEF HostInv
<1>2. \/ resolve_plt_redirect(layers, s) = resolve_intercept(manifest, s)
      \/ \E i \in 1..Len(layers) :
           Hooks(layers[i], s) /\ resolve_plt_redirect(layers, s) = HookOf(layers[i], s)
  BY <1>1, RedirectIs
<1>3. ASSUME NEW i \in DOMAIN layers, Hooks(layers[i], s)
      PROVE  /\ layers[i].kind = "redirecting"
             /\ layers[i].hooks \in CustomHooks \cup {derive_hooks_from_manifest(manifest)}
             /\ layers[i] = Redirecting(layers[i].hooks)
  <2>1. layers[i].kind = "redirecting" /\ layers[i].kind # "filtered"
    BY <1>3 DEF Hooks
  <2> QED
    BY <2>1, WrappersAre
<1> QED
  BY <1>1, <1>2, <1>3 DEF Redirect

\* An import of the manifest is called by its own position.
LEMMA PositionIs ==
  ASSUME HostInv, NEW k \in DOMAIN manifest
  PROVE  index_of(manifest, manifest[k].name) = k /\ k # 0
<1>1. /\ manifest \in Seq(Imports)
      /\ \A i, j \in DOMAIN manifest : i # j => manifest[i].name # manifest[j].name
  BY DEF HostInv, GoodManifest, Apart
<1>2. k \in 1..Len(manifest)
  BY <1>1
<1> QED
  BY <1>1, <1>2, IndexIs

\* The value types of an import are those of Wasm code.
LEMMA ImportTypes ==
  ASSUME NEW imp \in Imports
  PROVE  /\ imp.name \in Names
         /\ \A k \in DOMAIN imp.params : imp.params[k] \in {"i32", "i64"}
         /\ \A k \in DOMAIN imp.results : imp.results[k] \in {"i32", "i64"}
<1>1. CASE imp \in Eight
  <2>1. imp.name \in Names
    BY <1>1, BuiltInIs DEF Names
  <2>2. /\ Hint.params = <<"i32">> /\ Hint.results = <<>>
        /\ Exit.params = <<"i32">> /\ Exit.results = <<>>
        /\ Write.params = <<"i32", "i32", "i32">> /\ Write.results = <<"i32">>
        /\ LogUnreachable.params = <<"i32">> /\ LogUnreachable.results = <<>>
        /\ Execve.params = <<"i64", "i64", "i64">> /\ Execve.results = <<"i32">>
        /\ StubForPc.params = <<"i64">> /\ StubForPc.results = <<"i64">>
        /\ Printf.params = <<"i64", "i64">> /\ Printf.results = <<"i32">>
        /\ UnreachableTrap.params = <<"i32">> /\ UnreachableTrap.results = <<>>
    BY DEF Hint, Exit, Write, LogUnreachable, Execve, StubForPc, Printf, UnreachableTrap,
           Internal, FuncImport
  <2>3. /\ imp.params \in {<<"i32">>, <<"i64">>, <<"i64", "i64">>, <<"i32", "i32", "i32">>,
                            <<"i64", "i64", "i64">>}
        /\ imp.results \in {<<>>, <<"i32">>, <<"i64">>}
    BY <1>1, <2>2 DEF Eight
  <2>4. \A k \in DOMAIN imp.params : imp.params[k] \in {"i32", "i64"}
    BY <2>3
  <2>5. \A k \in DOMAIN imp.results : imp.results[k] \in {"i32", "i64"}
    BY <2>3
  <2> QED
    BY <2>1, <2>4, <2>5
<1>2. CASE imp \notin Eight
  <2> DEFINE s == imp.name
             f == Abi[s]
  <2>1. s \in DOMAIN Abi /\ imp = AddedImport(s)
    BY <1>2, ImportSpells
  <2>2. /\ imp.params = [i \in DOMAIN f.args |-> WasmType(f.args[i])]
        /\ imp.results = IF f.ret = "v" THEN <<>> ELSE <<WasmType(f.ret)>>
    BY <2>1 DEF AddedImport, FuncImport, bridgesupport_wasm_types
  <2>3. \A t : WasmType(t) \in {"i32", "i64"}
    BY DEF WasmType
  <2>4. \A k \in DOMAIN imp.params : imp.params[k] \in {"i32", "i64"}
    BY <2>2, <2>3
  <2>5. \A k \in DOMAIN imp.results : imp.results[k] \in {"i32", "i64"}
    <3> DEFINE r == WasmType(f.ret)
    <3>1. r \in {"i32", "i64"}
      BY <2>3
    <3>2. imp.results = <<>> \/ imp.results = <<r>>
      BY <2>2
    <3> HIDE DEF r
    <3> QED
      BY <3>1, <3>2
  <2>6. imp.name \in Names
    BY <2>1 DEF Names
  <2> QED
    BY <2>4, <2>5, <2>6
<1> QED
  BY <1>1, <1>2

\* The type invariant.
LEMMA HostTypes ==
  HostInv => TypeOK
<1> SUFFICES ASSUME HostInv PROVE TypeOK
  OBVIOUS
<1>1. IndexIsPosition
  BY PositionIs DEF IndexIsPosition
<1>2. \A i \in DOMAIN manifest : manifest[i] \in Imports
  BY DEF HostInv, GoodManifest
<1>3. \A i \in DOMAIN manifest :
        /\ manifest[i].name \in Names
        /\ \A t \in {"params", "results"} :
             \A k \in DOMAIN manifest[i][t] : manifest[i][t][k] \in {"i32", "i64"}
  <2> TAKE i \in DOMAIN manifest
  <2> DEFINE imp == manifest[i]
  <2>1. imp \in Imports
    BY <1>2
  <2> HIDE DEF imp
  <2>2. /\ imp.name \in Names
        /\ \A k \in DOMAIN imp.params : imp.params[k] \in {"i32", "i64"}
        /\ \A k \in DOMAIN imp.results : imp.results[k] \in {"i32", "i64"}
    BY <2>1, ImportTypes
  <2>3. \A t \in {"params", "results"} : \A k \in DOMAIN imp[t] : imp[t][k] \in {"i32", "i64"}
    BY <2>2
  <2> QED
    BY <2>2, <2>3 DEF imp
<1>4. \A i \in DOMAIN layers : layers[i].kind \in {"filtered", "redirecting"}
  BY WrappersAre
<1> QED
  BY <1>1, <1>3, <1>4 DEF TypeOK, HostInv

\* A redirect to an import names one that the manifest has for guests.
LEMMA RedirectsLeadToImports ==
  HostInv => RedirectsAreImports
<1> SUFFICES ASSUME HostInv, NEW s \in Guests, Redirect(s).to = "import", ~CustomTakes(s)
             PROVE  LET i == index_of(manifest, Redirect(s).name)
                    IN  i # 0 /\ manifest[i].intercepts # {}
  BY DEF RedirectsAreImports
<1>0. GoodManifest(manifest) /\ manifest \in Seq(Imports)
  BY DEF HostInv, GoodManifest
<1>1. SUFFICES \E k \in DOMAIN manifest :
                 Redirect(s).name = manifest[k].name /\ manifest[k].intercepts # {}
  <2> SUFFICES ASSUME NEW k \in DOMAIN manifest,
                      Redirect(s).name = manifest[k].name, manifest[k].intercepts # {}
               PROVE  LET i == index_of(manifest, Redirect(s).name)
                      IN  i # 0 /\ manifest[i].intercepts # {}
    OBVIOUS
  <2>1. index_of(manifest, manifest[k].name) = k /\ k # 0
    BY PositionIs
  <2> QED
    BY <2>1
<1>2. CASE Redirect(s) = resolve_intercept(manifest, s)
  <2>1. NoRedirect.to # "import"
    BY DEF NoRedirect
  <2>2. PICK k \in DOMAIN manifest :
          Intercepts(manifest[k], s) /\ Redirect(s) = WasmImport(manifest[k].name)
    BY <1>0, <1>2, <2>1, SearchIs
  <2> QED
    BY <2>2 DEF Intercepts, WasmImport
<1>3. ASSUME NEW i \in DOMAIN layers, layers[i].kind = "redirecting", Hooks(layers[i], s),
             layers[i].hooks \in CustomHooks \cup {derive_hooks_from_manifest(manifest)},
             layers[i] = Redirecting(layers[i].hooks), Redirect(s) = HookOf(layers[i], s)
      PROVE  \E k \in DOMAIN manifest :
               Redirect(s).name = manifest[k].name /\ manifest[k].intercepts # {}
  <2> DEFINE hs == derive_hooks_from_manifest(manifest)
  <2>1. layers[i].hooks = hs
    BY <1>3 DEF CustomTakes, LayersOf, Hooks
  <2> HIDE DEF hs
  <2>2. PICK t \in DOMAIN hs : Redirect(s) = hs[t]
    BY <1>3, <2>1 DEF Hooks, is_hooked, HookOf
  <2>3. PICK k \in DOMAIN manifest :
          t \in manifest[k].intercepts /\ hs[t] = WasmImport(manifest[k].name)
    BY <1>0, <2>2, HooksAre DEF hs
  <2> QED
    BY <2>2, <2>3 DEF WasmImport
<1> QED
  BY <1>2, <1>3, RedirectFrom

\* Wrapping in the integrated hooks changes no redirect.
LEMMA HooksChangeNothing ==
  HostInv => IntegratedChangesNoRedirect
<1> SUFFICES ASSUME HostInv, NEW s \in Guests, OneUnderscore(s), ~HasCustom
             PROVE  Redirect(s) = resolve_intercept(manifest, s)
  BY DEF IntegratedChangesNoRedirect
<1>1. GoodManifest(manifest)
  BY DEF HostInv
<1>2. ASSUME NEW i \in DOMAIN layers, layers[i].kind = "redirecting"
      PROVE  layers[i].hooks \notin CustomHooks
  BY <1>2 DEF HasCustom, LayersOf
<1>3. CASE Redirect(s) # resolve_intercept(manifest, s)
  <2>1. PICK i \in DOMAIN layers :
          /\ layers[i].kind = "redirecting" /\ Hooks(layers[i], s)
          /\ layers[i].hooks \in CustomHooks \cup {derive_hooks_from_manifest(manifest)}
          /\ layers[i] = Redirecting(layers[i].hooks)
          /\ Redirect(s) = HookOf(layers[i], s)
    BY <1>3, RedirectFrom
  <2>2. layers[i] = Redirecting(derive_hooks_from_manifest(manifest))
    BY <1>2, <2>1
  <2> QED
    BY <1>1, <2>1, <2>2, HookIsSearch
<1> QED
  BY <1>3

\* A skipped name is answered for.
LEMMA SkippedAnswered ==
  HostInv => SkippedNamesAreAnswered
<1> SUFFICES ASSUME HostInv, NEW s \in DOMAIN Abi,
                    NEW i \in DOMAIN manifest, NEW t \in {s, Underscore(s)},
                    t \in manifest[i].intercepts, OneUnderscore(t)
             PROVE  resolve_intercept(manifest, s) # NoRedirect
  BY DEF SkippedNamesAreAnswered
<1>1. t = s \/ Bare(t) = Bare(s)
  <2>1. s \in Seq(STRING)
    BY NamesAssumption
  <2> QED
    BY <2>1, UnderscoreIs DEF OneUnderscore
<1>2. Intercepts(manifest[i], s)
  BY <1>1 DEF Intercepts
<1>3. manifest \in Seq(Imports)
  BY DEF HostInv, GoodManifest
<1>4. PICK k \in DOMAIN manifest : resolve_intercept(manifest, s) = WasmImport(manifest[k].name)
  BY <1>2, <1>3, SearchIs
<1> QED
  BY <1>4 DEF WasmImport, NoRedirect

\* The name under which an alias is emitted is the tunnel's own name for the
\* symbol, with nothing or the ambient prefix before it.
LEMMA AliasNames ==
  ASSUME tunnel \in Tunnels, NEW a \in TunnelAliases
  PROVE  /\ Unambient(a[1]) \in DOMAIN tunnel.symbols
         /\ Unambient(a[1]) \in Seq(STRING)
         /\ a[2] = tunnel.symbols[Unambient(a[1])] /\ a[2] # NoName
         /\ tunnel.prefix = NoName => a[1] = Unambient(a[1])
<1>1. PICK s \in DOMAIN tunnel.symbols : a = <<tunnel.prefix \o s, tunnel.symbols[s]>>
  BY DEF TunnelAliases
<1> DEFINE p == tunnel.prefix
           e == p \o s
<1>2. /\ p \in {NoName, AmbientPrefix}
      /\ s \in Seq(STRING) /\ ~IsPrefix(AmbientPrefix, s) /\ tunnel.symbols[s] # NoName
  BY TunnelAssumption
<1>3. CASE p = NoName
  <2>1. e = s
    BY <1>2, <1>3, ConcatEmptySeq DEF NoName
  <2>2. Unambient(e) = s
    BY <1>2, <2>1 DEF Unambient, StripPrefix
  <2> QED
    BY <1>1, <1>2, <2>1, <2>2
<1>4. CASE p = AmbientPrefix /\ p # NoName
  <2>1. p \in Seq(STRING) /\ Len(p) \in Nat
    <3>1. "ambient_" \in STRING /\ US \in STRING
      BY PartsAssumption
    <3> QED
      BY <1>4, <3>1 DEF AmbientPrefix
  <2> HIDE DEF p
  <2>2. /\ e \in Seq(STRING) /\ Len(e) = Len(p) + Len(s)
        /\ SubSeq(e, 1, Len(p)) = p /\ SubSeq(e, Len(p) + 1, Len(e)) = s
    BY <1>2, <2>1, ConcatParts
  <2> HIDE DEF e
  <2>3. IsPrefix(p, e)
    <3>1. SubSeq(p, 1, Len(p)) = p
      BY <2>1, SubSeqFull
    <3>2. Len(p) <= Len(e)
      BY <1>2, <2>1, <2>2
    <3> QED
      BY <2>2, <3>1, <3>2 DEF IsPrefix
  <2>4. Unambient(e) = s
    BY <1>4, <2>2, <2>3 DEF Unambient, StripPrefix
  <2>5. a[1] = e /\ a[2] = tunnel.symbols[s]
    BY <1>1 DEF e, p
  <2>6. tunnel.prefix # NoName
    BY <1>4 DEF p
  <2> QED
    BY <1>2, <2>4, <2>5, <2>6
<1> QED
  BY <1>2, <1>3, <1>4

\* Of the aliases that rename nothing, those are linked that resolve and that
\* no hook takes.
LEMMA LinkedResolve ==
  ASSUME HostInv, NEW a \in TunnelAliases, Unambient(a[1]) = a[2]
  PROVE  a \in link_recipe(layers) <=>
           /\ resolve_ambient(layers, a[1]) = a[2]
           /\ \A i \in LayersOf("redirecting") : ~is_hooked(layers[i], a[1])
<1> DEFINE x == a[1]
           D == 1..Len(layers)
<1>1. layers \in Seq(Wrappers(manifest)) /\ DOMAIN layers = D /\ tunnel \in Tunnels
  BY DEF HostInv
<1>2. Unambient(x) \in DOMAIN tunnel.symbols /\ a[2] = tunnel.symbols[Unambient(x)] /\ a[2] # NoName
  BY <1>1, AliasNames
<1> HIDE DEF x
<1>3. TunnelResolve(x) = a[2]
  BY <1>2 DEF TunnelResolve
<1>4. link_recipe(layers) = {b \in TunnelAliases : \A i \in D : Retains(layers[i], b)}
  BY <1>1, RecipeIs
<1>5. resolve_ambient(layers, x) =
        IF \E i \in D : Denies(layers[i], x) THEN NoName ELSE TunnelResolve(x)
  BY <1>1, AmbientIs
<1>6. ASSUME NEW i \in D
      PROVE  Retains(layers[i], a) <=>
               /\ ~Denies(layers[i], x)
               /\ layers[i].kind = "redirecting" => ~is_hooked(layers[i], x)
  <2>1. layers[i].kind = "filtered" \/ layers[i].kind = "redirecting"
    BY <1>1, WrappersAre
  <2>2. CASE layers[i].kind = "filtered"
    BY <2>2 DEF Retains, Denies, x
  <2>3. CASE layers[i].kind = "redirecting"
    BY <2>3 DEF Retains, Denies, x
  <2> QED
    BY <2>1, <2>2, <2>3
<1>7. a \in link_recipe(layers) <=> \A i \in D : Retains(layers[i], a)
  BY <1>4
<1>8. resolve_ambient(layers, x) = a[2] <=> \A i \in D : ~Denies(layers[i], x)
  BY <1>2, <1>3, <1>5
<1>9. (\A i \in LayersOf("redirecting") : ~is_hooked(layers[i], x))
        <=> \A i \in D : layers[i].kind = "redirecting" => ~is_hooked(layers[i], x)
  BY <1>1 DEF LayersOf
<1> QED
  BY <1>6, <1>7, <1>8, <1>9 DEF x

\* With the integrated hooks, no name is linked that calls an import.
LEMMA LinkedIsNoImport ==
  ASSUME HostInv, HasIntegrated, tunnel.prefix = <<>>, NEW a \in link_recipe(layers),
         \A i \in DOMAIN manifest :
           Underscore(a[1]) \in manifest[i].intercepts => a[1] \in manifest[i].intercepts
  PROVE  Redirect(a[1]).to # "import"
<1> DEFINE x == a[1]
<1>1. /\ layers \in Seq(Wrappers(manifest)) /\ DOMAIN layers = 1..Len(layers)
      /\ tunnel \in Tunnels /\ manifest \in Seq(Imports)
  BY DEF HostInv, GoodManifest
<1>2. a \in TunnelAliases /\ \A i \in DOMAIN layers : Retains(layers[i], a)
  BY <1>1, RecipeIs
<1>3. x \in Seq(STRING)
  BY <1>1, <1>2, AliasNames DEF NoName
<1>4. \A i \in DOMAIN layers : layers[i].kind = "redirecting" => ~is_hooked(layers[i], x)
  BY <1>2 DEF Retains
<1>5. PICK j \in DOMAIN layers :
        layers[j].kind = "redirecting" /\ layers[j].hooks = derive_hooks_from_manifest(manifest)
  <2>1. PICK j \in DOMAIN layers : layers[j].kind = "redirecting" /\ layers[j].hooks \notin CustomHooks
    BY DEF HasIntegrated, LayersOf
  <2>2. layers[j].kind # "filtered"
    BY <2>1
  <2> QED
    BY <2>1, <2>2, WrappersAre
<1>6. \A i \in DOMAIN manifest : x \notin manifest[i].intercepts /\ Bare(x) \notin manifest[i].intercepts
  <2>1. /\ x \notin DOMAIN derive_hooks_from_manifest(manifest)
        /\ Bare(x) \notin DOMAIN derive_hooks_from_manifest(manifest)
    BY <1>4, <1>5 DEF is_hooked
  <2>2. DOMAIN derive_hooks_from_manifest(manifest)
          = UNION {manifest[i].intercepts : i \in DOMAIN manifest}
    BY <1>1, HooksAre
  <2> QED
    BY <2>1, <2>2
<1>7. ASSUME NEW i \in DOMAIN manifest, Intercepts(manifest[i], x) PROVE FALSE
  <2>1. PICK t \in manifest[i].intercepts : t = x \/ Bare(t) = Bare(x)
    BY <1>7 DEF Intercepts
  <2>2. Bare(t) = Bare(x) /\ t # x /\ t # Bare(x)
    BY <1>6, <2>1
  <2>3. t \in Seq(STRING)
    <3>1. manifest[i] \in Imports
      BY <1>1
    <3> QED
      BY <2>1, <3>1, ImportSpells
  <2>4. IsPrefix(<<US>>, t) /\ t = Underscore(Bare(x))
    BY <2>2, <2>3, BareIs
  <2>5. ~IsPrefix(<<US>>, x) /\ Bare(x) = x
    BY <1>3, <2>2, <2>4, BareIs
  <2>6. Underscore(x) \in manifest[i].intercepts
    BY <2>1, <2>4, <2>5
  <2> QED
    BY <1>6, <2>6
<1>8. resolve_intercept(manifest, x) = NoRedirect
  <2> HIDE DEF x
  <2> QED
    BY <1>1, <1>7, SearchIs
<1>9. Redirect(x) = resolve_intercept(manifest, x)
  <2>1. \A i \in DOMAIN layers : ~Hooks(layers[i], x)
    BY <1>4 DEF Hooks
  <2> HIDE DEF x
  <2> QED
    BY <2>1, RedirectFrom
<1> QED
  BY <1>8, <1>9 DEF NoRedirect

\* Linking and resolving are one decision.
LEMMA LinksAgree ==
  HostInv => LinksWhatItResolves
<1> SUFFICES ASSUME HostInv PROVE LinksWhatItResolves
  OBVIOUS
<1>1. ASSUME NEW a \in TunnelAliases, Unambient(a[1]) = a[2]
      PROVE  a \in link_recipe(layers) <=>
               /\ resolve_ambient(layers, a[1]) = a[2]
               /\ \A i \in LayersOf("redirecting") : ~is_hooked(layers[i], a[1])
  BY <1>1, LinkedResolve
<1>2. ASSUME HasIntegrated, tunnel.prefix = <<>>, NEW a \in link_recipe(layers),
             \A i \in DOMAIN manifest :
               Underscore(a[1]) \in manifest[i].intercepts => a[1] \in manifest[i].intercepts
      PROVE  Redirect(a[1]).to # "import"
  BY <1>2, LinkedIsNoImport
<1> QED
  BY <1>1, <1>2 DEF LinksWhatItResolves

\* The parameters and results of the imports that guests call.
LEMMA CalledEight ==
  /\ Exit.params = <<"i32">> /\ Exit.results = <<>>
  /\ Write.params = <<"i32", "i32", "i32">> /\ Write.results = <<"i32">>
  /\ Execve.params = <<"i64", "i64", "i64">> /\ Execve.results = <<"i32">>
  /\ Printf.params = <<"i64", "i64">> /\ Printf.results = <<"i32">>
BY DEF Exit, Write, Execve, Printf, FuncImport

\* A call of up to six arguments has a local for each.
LEMMA LocalsFit ==
  ASSUME NEW arch \in Archs, NEW n \in 0..6
  PROVE  Len(arg_locals(arch, n)) = n
<1>1. CASE arch = "x86_64"
  <2> DEFINE o == X86Order
  <2>1. o \in Seq(Nat) /\ Len(o) = 6
    BY DEF X86Order
  <2>2. arg_locals(arch, n) = SubSeq(o, 1, n)
    BY <1>1 DEF arg_locals
  <2> HIDE DEF o
  <2> QED
    BY <2>1, <2>2, SplitAt
<1>2. CASE arch # "x86_64"
  <2>1. arg_locals(arch, n) = [i \in 1..n |-> i - 1]
    BY <1>2 DEF arg_locals
  <2>2. [i \in 1..n |-> i - 1] \in Seq(Int) /\ Len([i \in 1..n |-> i - 1]) = n
    OBVIOUS
  <2> QED
    BY <2>1, <2>2
<1> QED
  BY <1>1, <1>2

\* The convention made from an import fits it.
LEMMA ImportFits ==
  ASSUME NEW arch \in Archs, NEW imp, Len(imp.params) \in Nat
  PROVE  FitsImport(import_to_calling_convention(arch, imp), imp)
<1>1. Len(imp.params) <= 6 => Len(arg_locals(arch, Len(imp.params))) = Len(imp.params)
  <2> DEFINE n == Len(imp.params)
  <2>1. n \in Nat
    OBVIOUS
  <2> HIDE DEF n
  <2>2. n <= 6 => n \in 0..6
    BY <2>1
  <2>3. n <= 6 => Len(arg_locals(arch, n)) = n
    BY <2>2, LocalsFit
  <2> QED
    BY <2>3 DEF n
<1> QED
  BY <1>1 DEF FitsImport, import_to_calling_convention, Convention

\* The same of one made from the specification, when each part agrees.
LEMMA StubFitsImport ==
  ASSUME NEW arch \in Archs, NEW b, NEW imp, Len(imp.params) \in Nat,
         Len(Abi[b].args) = Len(imp.params),
         arg_wrap_i32_from_manifest(b) = WrapsOf(imp.params),
         Abi[b].ret # "v" <=> imp.results # <<>>,
         Abi[b].ret # "v" <=> imp.results = <<"i32">>
  PROVE  FitsImport(calling_convention_for(arch, b), imp)
<1>1. Len(imp.params) <= 6 => Len(arg_locals(arch, Len(imp.params))) = Len(imp.params)
  <2> DEFINE n == Len(imp.params)
  <2>1. n \in Nat
    OBVIOUS
  <2> HIDE DEF n
  <2>2. n <= 6 => n \in 0..6
    BY <2>1
  <2>3. n <= 6 => Len(arg_locals(arch, n)) = n
    BY <2>2, LocalsFit
  <2> QED
    BY <2>3 DEF n
<1>2. (Abi[b].ret # "v") = (imp.results # <<>>) /\ (Abi[b].ret # "v") = (imp.results = <<"i32">>)
  OBVIOUS
<1> QED
  BY <1>1, <1>2 DEF FitsImport, calling_convention_for, Convention

\* The imports of native_syscall that guests call are in every manifest.
LEMMA NativeIsThere ==
  ASSUME NEW m, GoodManifest(m), NEW j \in DOMAIN native_syscall, NEW s,
         Intercepts(native_syscall[j], s)
  PROVE  \E k \in DOMAIN m : m[k] = native_syscall[j]
<1>1. native_syscall[j] \in {Hint, Exit, Write}
  BY DEF native_syscall
<1>2. native_syscall[j] # Hint
  <2>1. Hint.intercepts = {}
    BY DEF Hint, Internal, FuncImport
  <2> QED
    BY <2>1 DEF Intercepts
<1>3. PICK m0 \in Manifests : DOMAIN m0 \subseteq DOMAIN m /\ \A i \in DOMAIN m0 : m[i] = m0[i]
  BY DEF GoodManifest, Extends
<1>4. (\E i \in DOMAIN m0 : m0[i] = Exit) /\ (\E i \in DOMAIN m0 : m0[i] = Write)
  BY ManifestsHaveEight
<1> QED
  BY <1>1, <1>2, <1>3, <1>4

\* For a name whose import the manifest has at k, the generator finds the same
\* import, or none that native_syscall has.
LEMMA GeneratorFinds ==
  ASSUME NEW m, GoodManifest(m), NEW b, NEW k \in DOMAIN m, Intercepts(m[k], b)
  PROVE  \/ /\ m[k] \in Range(native_syscall)
            /\ arg_wrap_i32_from_manifest(b) = WrapsOf(m[k].params)
         \/ /\ m[k] \notin Range(native_syscall)
            /\ arg_wrap_i32_from_manifest(b)
                 = [i \in DOMAIN Abi[b].args |-> Abi[b].args[i] = "i"]
<1> DEFINE nat == native_syscall
           r   == resolve_intercept(nat, b)
<1>1. nat \in Manifests /\ nat \in Seq(Eight)
  <2>1. nat \in Manifests
    BY DEF Manifests
  <2> QED
    BY <2>1, ManifestsHaveEight
<1>2. \A i, j \in DOMAIN nat : i # j => nat[i].name # nat[j].name
  BY <1>1, ManifestsGood DEF GoodManifest, Apart
<1>3. arg_wrap_i32_from_manifest(b) =
        IF r # NoRedirect THEN WrapsOf(nat[index_of(nat, r.name)].params)
        ELSE [i \in DOMAIN Abi[b].args |-> Abi[b].args[i] = "i"]
  BY DEF arg_wrap_i32_from_manifest
<1>4. ASSUME NEW j \in DOMAIN nat, Intercepts(nat[j], b) PROVE m[k] = nat[j]
  <2>1. PICK i \in DOMAIN m : m[i] = nat[j]
    BY <1>4, NativeIsThere
  <2>2. i = k
    BY <1>4, <2>1, OneIntercepts
  <2> QED
    BY <2>1, <2>2
<1>5. CASE r = NoRedirect
  <2>1. \A j \in DOMAIN nat : ~Intercepts(nat[j], b)
    <3>1. \A j \in DOMAIN nat : NoRedirect # WasmImport(nat[j].name)
      BY DEF NoRedirect, WasmImport
    <3> HIDE DEF nat
    <3> QED
      BY <1>1, <1>5, <3>1, SearchIs
  <2>2. m[k] \notin Range(nat)
    BY <2>1 DEF Range
  <2> QED
    BY <1>3, <1>5, <2>2
<1>6. CASE r # NoRedirect
  <2>1. PICK j \in DOMAIN nat : Intercepts(nat[j], b) /\ r = WasmImport(nat[j].name)
    <3> HIDE DEF nat
    <3> QED
      BY <1>1, <1>6, SearchIs
  <2>2. r.name = nat[j].name
    BY <2>1 DEF WasmImport
  <2>3. index_of(nat, nat[j].name) = j
    <3> HIDE DEF nat
    <3> QED
      BY <1>1, <1>2, IndexIs
  <2>4. m[k] = nat[j]
    BY <1>4, <2>1
  <2>5. m[k] \in Range(nat)
    BY <2>4 DEF Range
  <2> QED
    BY <1>3, <1>6, <2>2, <2>3, <2>4, <2>5
<1> QED
  BY <1>5, <1>6

\* The parameters of an import that guests call are a sequence.
LEMMA ParamsHaveLength ==
  ASSUME NEW imp \in Imports, imp.intercepts # {}
  PROVE  Len(imp.params) \in Nat
<1>1. CASE imp \in Eight
  <2>1. imp \in {Exit, Write, Execve, Printf}
    BY <1>1, EightStems
  <2> QED
    BY <2>1, CalledEight
<1>2. CASE imp \notin Eight
  <2> DEFINE g == Abi[imp.name].args
             p == imp.params
  <2>1. imp.name \in DOMAIN Abi /\ imp = AddedImport(imp.name)
    BY <1>2, ImportSpells
  <2>2. p = [i \in DOMAIN g |-> WasmType(g[i])]
    BY <2>1 DEF AddedImport, FuncImport, bridgesupport_wasm_types
  <2>3. g \in Seq(STRING)
    BY <2>1, SignaturesAssumption
  <2> HIDE DEF g, p
  <2>4. p \in [1..Len(g) -> {"i32", "i64"}] /\ Len(g) \in Nat
    BY <2>2, <2>3 DEF WasmType
  <2>5. p \in Seq({"i32", "i64"})
    BY <2>4
  <2> QED
    BY <2>5 DEF p
<1> QED
  BY <1>1, <1>2

\* The convention of a stub over a built-in import fits it.
LEMMA BuiltInStubFits ==
  ASSUME NEW arch \in Archs, GoodManifest(manifest), NEW k \in DOMAIN manifest,
         NEW b \in DOMAIN Abi, manifest[k] \in Eight, Intercepts(manifest[k], b)
  PROVE  FitsImport(calling_convention_for(arch, b), manifest[k])
<1> DEFINE imp == manifest[k]
<1>1. imp \in {Exit, Write, Execve, Printf}
  BY EightStems DEF Intercepts
<1>2. Len(imp.params) \in Nat /\ DOMAIN imp.params = 1..Len(imp.params)
  BY <1>1, CalledEight
<1>3. imp.results # <<>> <=> imp.results = <<"i32">>
  BY <1>1, CalledEight
<1>4. /\ Len(Abi[b].args) = Len(imp.params)
      /\ Abi[b].ret = "v" <=> imp.results = <<>>
      /\ imp \notin Range(native_syscall) =>
           \A i \in DOMAIN imp.params : Abi[b].args[i] = "i" <=> imp.params[i] = "i32"
      /\ Abi[b].args \in Seq(STRING)
  <2>1. imp \in BuiltIn /\ Intercepts(imp, b)
    BY BuiltInIs
  <2> QED
    BY <2>1, SignaturesAssumption
<1>5. arg_wrap_i32_from_manifest(b) = WrapsOf(imp.params)
  <2>1. CASE imp \in Range(native_syscall)
    BY <2>1, GeneratorFinds
  <2>2. CASE imp \notin Range(native_syscall)
    <3>1. arg_wrap_i32_from_manifest(b) = [i \in DOMAIN Abi[b].args |-> Abi[b].args[i] = "i"]
      BY <2>2, GeneratorFinds
    <3>2. DOMAIN Abi[b].args = DOMAIN imp.params
      BY <1>2, <1>4
    <3>3. \A i \in DOMAIN imp.params : (Abi[b].args[i] = "i") = (imp.params[i] = "i32")
      BY <1>4, <2>2
    <3> HIDE DEF imp
    <3>4. [i \in DOMAIN Abi[b].args |-> Abi[b].args[i] = "i"]
            = [i \in DOMAIN imp.params |-> imp.params[i] = "i32"]
      BY <3>2, <3>3
    <3> QED
      BY <3>1, <3>4 DEF WrapsOf
  <2> QED
    BY <2>1, <2>2
<1> HIDE DEF imp
<1>6. FitsImport(calling_convention_for(arch, b), imp)
  <2>1. Abi[b].ret # "v" <=> imp.results # <<>>
    BY <1>4
  <2>2. Abi[b].ret # "v" <=> imp.results = <<"i32">>
    BY <1>3, <2>1
  <2> QED
    BY <1>2, <1>4, <1>5, <2>1, <2>2, StubFitsImport
<1> QED
  BY <1>6 DEF imp

\* The convention of a stub over an added import of its own name fits it, when
\* the generator and bridgesupport_wasm_types map its types alike.
LEMMA AddedStubFits ==
  ASSUME NEW arch \in Archs, GoodManifest(manifest), NEW k \in DOMAIN manifest,
         NEW b \in DOMAIN Abi, manifest[k] \notin Eight, Intercepts(manifest[k], b),
         manifest[k].name = b,
         Range(Abi[b].args) \subseteq {"i", "q"}, Abi[b].ret \in {"i", "v"}
  PROVE  FitsImport(calling_convention_for(arch, b), manifest[k])
<1> DEFINE imp == manifest[k]
           f   == Abi[b]
<1>1. imp \in Imports /\ imp \notin Eight /\ imp.name = b
  BY DEF GoodManifest
<1>2. arg_wrap_i32_from_manifest(b) = [i \in DOMAIN f.args |-> f.args[i] = "i"]
  <2>1. native_syscall \in Manifests
    BY DEF Manifests
  <2>2. native_syscall \in Seq(Eight)
    BY <2>1, ManifestsHaveEight
  <2>3. imp \notin Range(native_syscall)
    BY <1>1, <2>2 DEF Range
  <2> QED
    BY <2>3, GeneratorFinds
<1>3. f.args \in Seq(STRING)
  BY SignaturesAssumption
<1> HIDE DEF imp
<1>4. /\ imp.params = [i \in DOMAIN f.args |-> WasmType(f.args[i])]
      /\ imp.results = IF f.ret = "v" THEN <<>> ELSE <<WasmType(f.ret)>>
  <2>1. imp = AddedImport(b)
    BY <1>1, ImportSpells
  <2> QED
    BY <2>1 DEF AddedImport, FuncImport, bridgesupport_wasm_types
<1>5. /\ DOMAIN imp.params = DOMAIN f.args
      /\ \A i \in DOMAIN f.args : (imp.params[i] = "i32") = (f.args[i] = "i")
  <2>1. \A i \in DOMAIN f.args : f.args[i] \in {"i", "q"}
    BY DEF Range
  <2> QED
    BY <1>4, <2>1 DEF WasmType
<1>6. Len(imp.params) \in Nat /\ Len(f.args) = Len(imp.params)
  <2> DEFINE p == imp.params
             g == f.args
  <2>1. p \in [1..Len(g) -> {"i32", "i64"}] /\ Len(g) \in Nat /\ g \in Seq(STRING)
    BY <1>3, <1>4 DEF WasmType
  <2> HIDE DEF p, g
  <2>2. p \in Seq({"i32", "i64"}) /\ Len(p) = Len(g)
    BY <2>1
  <2> QED
    BY <2>1, <2>2 DEF p, g
<1>7. arg_wrap_i32_from_manifest(b) = WrapsOf(imp.params)
  <2>1. [i \in DOMAIN f.args |-> f.args[i] = "i"]
          = [i \in DOMAIN imp.params |-> imp.params[i] = "i32"]
    BY <1>5
  <2> QED
    BY <1>2, <2>1 DEF WrapsOf
<1>8. /\ f.ret # "v" <=> imp.results # <<>>
      /\ f.ret # "v" <=> imp.results = <<"i32">>
  <2>1. f.ret = "v" \/ (f.ret = "i" /\ WasmType(f.ret) = "i32")
    BY DEF WasmType
  <2>2. <<"i32">> # <<>>
    OBVIOUS
  <2> QED
    BY <1>4, <2>1, <2>2
<1>9. FitsImport(calling_convention_for(arch, b), imp)
  BY <1>6, <1>7, <1>8, StubFitsImport
<1> QED
  BY <1>9 DEF imp

\* The convention of a call fits the import that it calls.
LEMMA ConventionsFit ==
  HostInv => ConventionFitsImport
<1> SUFFICES ASSUME HostInv, NEW s \in Guests, OneUnderscore(s), Redirect(s).to = "import",
                    NEW imp, imp = manifest[index_of(manifest, Redirect(s).name)],
                    ~HasCustom,
                    has_stub(s) /\ imp \notin BuiltIn => imp.name = Bare(s) /\ StubFits(s),
                    NEW arch \in Archs
             PROVE  FitsImport(plt_calling_convention(arch, s), imp)
  BY DEF ConventionFitsImport
<1>1. GoodManifest(manifest) /\ manifest \in Seq(Imports)
  BY DEF HostInv, GoodManifest
<1>2. Redirect(s) = resolve_intercept(manifest, s)
  BY HooksChangeNothing DEF IntegratedChangesNoRedirect
<1>3. PICK k \in DOMAIN manifest :
        Intercepts(manifest[k], s) /\ resolve_intercept(manifest, s) = WasmImport(manifest[k].name)
  <2>1. NoRedirect.to # "import"
    BY DEF NoRedirect
  <2> QED
    BY <1>1, <1>2, <2>1, SearchIs
<1>4. index_of(manifest, manifest[k].name) = k
  BY PositionIs
<1>5. imp = manifest[k]
  BY <1>2, <1>3, <1>4 DEF WasmImport
<1>6. CASE has_stub(s)
  <2> DEFINE b == Bare(s)
  <2>1. b \in DOMAIN Abi
    BY <1>6 DEF HostInv, has_stub, generate_succeeds
  <2>2. Intercepts(manifest[k], b)
    <3>1. PICK t \in manifest[k].intercepts : t = s \/ Bare(t) = Bare(s)
      BY <1>3 DEF Intercepts
    <3>2. Bare(t) = b /\ Bare(b) = b
      BY <3>1 DEF OneUnderscore
    <3> QED
      BY <3>2 DEF Intercepts
  <2>3. plt_calling_convention(arch, s) = calling_convention_for(arch, b)
    BY <1>6 DEF plt_calling_convention
  <2> HIDE DEF b
  <2>4. CASE imp \in BuiltIn
    <3>1. manifest[k] \in Eight
      BY <1>5, <2>4, BuiltInIs
    <3> QED
      BY <1>1, <1>5, <2>1, <2>2, <2>3, <3>1, BuiltInStubFits
  <2>5. CASE imp \notin BuiltIn
    <3>1. manifest[k] \notin Eight
      BY <1>5, <2>5, BuiltInIs
    <3>2. manifest[k].name = b /\ Range(Abi[b].args) \subseteq {"i", "q"} /\ Abi[b].ret \in {"i", "v"}
      BY <1>5, <1>6, <2>5 DEF StubFits, b
    <3> QED
      BY <1>1, <1>5, <2>1, <2>2, <2>3, <3>1, <3>2, AddedStubFits
  <2> QED
    BY <2>4, <2>5
<1>7. CASE ~has_stub(s)
  <2>1. resolve_intercept(manifest, s) # NoRedirect
    BY <1>3 DEF WasmImport, NoRedirect
  <2>2. plt_calling_convention(arch, s) = import_to_calling_convention(arch, imp)
    BY <1>2, <1>7, <2>1 DEF plt_calling_convention
  <2>3. Len(imp.params) \in Nat
    <3>1. imp \in Imports /\ imp.intercepts # {}
      BY <1>1, <1>3, <1>5 DEF Intercepts
    <3> QED
      BY <3>1, ParamsHaveLength
  <2> QED
    BY <2>2, <2>3, ImportFits
<1> QED
  BY <1>6, <1>7

-----------------------------------------------------------------------------
(***************************************************************************)
(* The invariant of the shims.  A file is the one checked in or what the   *)
(* last use that wrote it made of it, so what it defines follows from its  *)
(* symbol, but for a few; what was linked compiles; and the calls that     *)
(* have not returned are the guest's bridge, its core and the system's     *)
(* function, in this order and from any of them on.                        *)
(***************************************************************************)
IsCore(sym, file) ==
  \/ lookup(sym) # None /\ file = emit_weak_forward(lookup(sym))
  \/ sym \in DOMAIN os_shim_h /\ file = ForwardFile(c_host_symbol(sym), os_shim_h[sym])
  \/ sym = "execve" /\ file = emit_os_shim_execve

IsBridge(sym, file) ==
  \/ lookup(sym) # None /\ file = emit_default_interposer_bridge(lookup(sym))
  \/ sym \in DOMAIN os_shim_h /\ file = checked_in[<<"interposer", sym>>]

FilesOfSymbols ==
  \A path \in DOMAIN files :
    \E sym :
      \/ path = <<"core", sym>> /\ IsCore(sym, files[path])
      \/ path = <<"interposer", sym>> /\ IsBridge(sym, files[path])

DaemonsCore ==
  lookup("execve") # None /\ DaemonCores =>
    <<"core", "execve">> \in DOMAIN files /\ files[<<"core", "execve">>] = emit_os_shim_execve

AsksForBridge(use) ==
  /\ "InterposerBridge" \in use.kinds /\ "execve" \in resolve_symbols(use)
  /\ ~("Core" \in use.kinds /\ use.with_daemon)

BridgeAskedFor ==
  lookup("execve") # None /\ (\E i \in DOMAIN uses : AsksForBridge(uses[i])) =>
    <<"interposer", "execve">> \in DOMAIN files

Linked ==
  /\ \A path \in DOMAIN files : Compiles(path, linked.platform, linked.implicit)
  /\ \A path \in BridgePaths : HasCore(path[2])

BeforeLinking ==
  /\ parsing # "Ok" => files \in {<<>>, checked_in} /\ uses = <<>> /\ linked = None
  /\ linked = None => frames = <<>> /\ answer = None
  /\ linked # None => Linked

GuestCalls ==
  frames # <<>> =>
    /\ answer = None
    /\ lookup(guest.sym).name = guest.sym
    /\ guest.args = [i \in DOMAIN lookup(guest.sym).args |-> Widest(lookup(guest.sym).args[i])]

\* The symbols whose core the guest's call may go through: that of exit is the
\* one of _exit.
Serving == {guest.sym} \cup {sym \in {"exit"} : guest.sym = "_exit"}

OfGuest(code, syms) == {Frame(code, sym, guest.args) : sym \in syms}

FramesOfCall ==
  OfGuest("bridge", {guest.sym}) \cup OfGuest("core", Serving)
  \cup OfGuest("host", {guest.sym, c_host_symbol(guest.sym)})

Whole ==
  /\ ~linked.implicit
  /\ Resolve(c_host_symbol(guest.sym), "interposer") = "host"
  /\ CarriedFunction(lookup(guest.sym))

InPlace(i) ==
  /\ frames[i].code = "bridge" => i = 1 /\ Bridged(guest.sym)
  /\ frames[i].code = "core" => i <= 2 /\ HasCore(frames[i].sym)
  /\ frames[i].code = "host" => i = Len(frames)

CallsStack ==
  frames # <<>> /\ Whole =>
    /\ frames \in Seq(FramesOfCall)
    /\ Len(frames) \in 1..3
    /\ \A i \in 1..Len(frames) : InPlace(i)

CallsArrive ==
  answer # None /\ Whole =>
    /\ ran.sym \in {guest.sym, c_host_symbol(guest.sym)}
    /\ ran.args = guest.args
    /\ ran.result = answer

ShimInv ==
  /\ uses \in Seq(Uses)
  /\ FilesOfSymbols
  /\ DaemonsCore
  /\ BridgeAskedFor
  /\ BeforeLinking
  /\ GuestCalls
  /\ CallsStack
  /\ CallsArrive

-----------------------------------------------------------------------------
(***************************************************************************)
(* Parsing and generating                                                  *)
(***************************************************************************)
\* A specification is looked up by name.
LEMMA LookupNames ==
  ASSUME NEW sym, lookup(sym) # None
  PROVE  lookup(sym).name = sym
<1>1. \E i \in DOMAIN functions : IsFirst(i, sym)
  BY DEF lookup
<1>2. lookup(sym) = functions[CHOOSE i \in DOMAIN functions : IsFirst(i, sym)]
  BY <1>1 DEF lookup
<1>3. IsFirst(CHOOSE i \in DOMAIN functions : IsFirst(i, sym), sym)
  BY <1>1, Zenon
<1> QED
  BY <1>2, <1>3 DEF IsFirst

\* What is said of a symbol is said of the specification.
LEMMA SameSpecification ==
  ASSUME UNCHANGED functions
  PROVE  /\ SpecNames' = SpecNames
         /\ \A sym : lookup(sym)' = lookup(sym)
         /\ \A sym, file : IsCore(sym, file)' <=> IsCore(sym, file)
         /\ \A sym, file : IsBridge(sym, file)' <=> IsBridge(sym, file)
<1>1. SpecNames' = SpecNames
  BY DEF SpecNames
<1>2. ASSUME NEW sym PROVE lookup(sym)' = lookup(sym)
  BY DEF lookup, IsFirst
<1>3. ASSUME NEW sym, NEW file PROVE IsCore(sym, file)' <=> IsCore(sym, file)
  BY <1>2 DEF IsCore
<1>4. ASSUME NEW sym, NEW file PROVE IsBridge(sym, file)' <=> IsBridge(sym, file)
  BY <1>2 DEF IsBridge
<1> QED
  BY <1>1, <1>2, <1>3, <1>4, Zenon

\* The files that one use of the generator writes.
LEMMA WrittenFiles ==
  ASSUME NEW use, NEW sym
  PROVE  /\ <<"core", sym>> \in DOMAIN generate_c(use) <=> sym \in Cores(use)
         /\ <<"interposer", sym>> \in DOMAIN generate_c(use) <=> sym \in Bridges(use)
         /\ sym \in Cores(use) => generate_c(use)[<<"core", sym>>] = emit_core(sym, use.with_daemon)
         /\ sym \in Bridges(use) =>
              generate_c(use)[<<"interposer", sym>>] = emit_default_interposer_bridge(lookup(sym))
<1> DEFINE P == {<<"core", s>> : s \in Cores(use)} \cup {<<"interposer", s>> : s \in Bridges(use)}
           F(path) == IF path[1] = "core" THEN emit_core(path[2], use.with_daemon)
                      ELSE emit_default_interposer_bridge(lookup(path[2]))
<1>1. generate_c(use) = [path \in P |-> F(path)]
  BY DEF generate_c
<1>2. /\ <<"core", sym>> \in P <=> sym \in Cores(use)
      /\ <<"interposer", sym>> \in P <=> sym \in Bridges(use)
  OBVIOUS
<1>3. /\ F(<<"core", sym>>) = emit_core(sym, use.with_daemon)
      /\ F(<<"interposer", sym>>) = emit_default_interposer_bridge(lookup(sym))
  OBVIOUS
<1> HIDE DEF P, F
<1>4. DOMAIN generate_c(use) = P /\ \A path \in P : generate_c(use)[path] = F(path)
  BY <1>1
<1> HIDE DEF P, F
<1> QED
  BY <1>2, <1>3, <1>4

\* A path of a file that is written is of the one kind or of the other.
LEMMA WrittenPaths ==
  ASSUME NEW use, NEW path \in DOMAIN generate_c(use)
  PROVE  \E sym : path = <<"core", sym>> \/ path = <<"interposer", sym>>
BY DEF generate_c

\* A core is the daemon's for execve only.
LEMMA EmittedCore ==
  ASSUME NEW use, NEW sym \in Cores(use)
  PROVE  IsCore(sym, emit_core(sym, use.with_daemon))
<1>1. lookup(sym) # None
  BY DEF Cores, Known
<1> QED
  BY <1>1 DEF IsCore, emit_core, Overrides

\* So is a bridge that is generated.
LEMMA EmittedBridge ==
  ASSUME NEW use, NEW sym \in Bridges(use)
  PROVE  IsBridge(sym, emit_default_interposer_bridge(lookup(sym)))
<1>1. lookup(sym) # None
  BY DEF Bridges, Known
<1> QED
  BY <1>1 DEF IsBridge

\* The files that are checked in are of the symbols of os_shim.h.
LEMMA CheckedInFiles ==
  ASSUME NEW path \in DOMAIN checked_in
  PROVE  \E sym \in DOMAIN os_shim_h :
           \/ path = <<"core", sym>> /\ checked_in[path] = ForwardFile(c_host_symbol(sym), os_shim_h[sym])
           \/ path = <<"interposer", sym>>
<1>1. path \in {"core", "interposer"} \X DOMAIN os_shim_h
  BY DEF checked_in
<1>2. PICK sym \in DOMAIN os_shim_h : path = <<"core", sym>> \/ path = <<"interposer", sym>>
  BY <1>1
<1>3. CASE path = <<"core", sym>>
  BY <1>1, <1>3 DEF checked_in
<1> QED
  BY <1>2, <1>3

\* The start.
LEMMA ShimStarts == ShimInit => ShimInv
<1> SUFFICES ASSUME ShimInit PROVE ShimInv
  OBVIOUS
<1>1. /\ files \in {<<>>, checked_in} /\ uses = <<>> /\ linked = None
      /\ frames = <<>> /\ answer = None
  BY DEF ShimInit
<1>2. uses \in Seq(Uses) /\ DOMAIN uses = {}
  BY <1>1
<1>3. FilesOfSymbols
  BY <1>1, CheckedInFiles DEF FilesOfSymbols, IsCore, IsBridge
<1> QED
  BY <1>1, <1>2, <1>3 DEF ShimInv, DaemonsCore, DaemonCores, BridgeAskedFor, BeforeLinking,
     GuestCalls, CallsStack, CallsArrive

\* Nothing is generated before the specification has been parsed.
LEMMA ParseKeeps ==
  ASSUME ShimInv, Parse
  PROVE  ShimInv'
<1>1. parsing = "reads"
  BY DEF Parse, ParserNext, StartSignatures, StartFunction, StartPart, EmptyPart, EndFunction, EndOther,
     Eof, ReaderFails, NextEvent
<1>2. /\ files \in {<<>>, checked_in} /\ uses = <<>> /\ linked = None
      /\ frames = <<>> /\ answer = None
  BY <1>1 DEF ShimInv, BeforeLinking
<1>3. /\ files' \in {<<>>, checked_in} /\ uses' = <<>> /\ linked' = None
      /\ frames' = <<>> /\ answer' = None
  BY <1>2 DEF Parse, shimVars
<1>4. uses' \in Seq(Uses) /\ DOMAIN uses' = {}
  BY <1>3
<1>5. FilesOfSymbols'
  BY <1>3, CheckedInFiles DEF FilesOfSymbols, IsCore, IsBridge
<1> QED
  BY <1>3, <1>4, <1>5 DEF ShimInv, DaemonsCore, DaemonCores, BridgeAskedFor, BeforeLinking,
     GuestCalls, CallsStack, CallsArrive

\* What a use writes is of its symbols, and the other files stay.
LEMMA GenerateKeeps ==
  ASSUME ShimInv, NEW use \in Uses, Generate(use)
  PROVE  ShimInv'
<1> DEFINE w == generate_c(use)
<1>1. /\ functions' = functions /\ parsing' = parsing /\ parsing = "Ok" /\ linked = None
      /\ linked' = None /\ frames' = frames /\ answer' = answer
      /\ frames = <<>> /\ answer = None
  BY DEF Generate, parserVars, ShimInv, BeforeLinking
<1>2. /\ uses' = Append(uses, use) /\ uses \in Seq(Uses)
      /\ DOMAIN files' = DOMAIN w \cup DOMAIN files
      /\ \A path \in DOMAIN w : files'[path] = w[path]
      /\ \A path \in DOMAIN files : path \notin DOMAIN w => files'[path] = files[path]
  <2> HIDE DEF w
  <2>1. files' = [path \in DOMAIN w \cup DOMAIN files |-> IF path \in DOMAIN w THEN w[path] ELSE files[path]]
    BY DEF Generate, w
  <2> QED
    BY <2>1 DEF Generate, ShimInv
<1>3. /\ uses' \in Seq(Uses)
      /\ Len(uses) \in Nat
      /\ DOMAIN uses = 1..Len(uses) /\ DOMAIN uses' = 1..(Len(uses) + 1)
      /\ \A i \in 1..Len(uses) : uses'[i] = uses[i]
      /\ uses'[Len(uses) + 1] = use
  BY <1>2
<1>4. /\ SpecNames' = SpecNames
      /\ \A sym : lookup(sym)' = lookup(sym)
      /\ \A sym, file : IsCore(sym, file)' <=> IsCore(sym, file)
      /\ \A sym, file : IsBridge(sym, file)' <=> IsBridge(sym, file)
  BY <1>1, SameSpecification
<1>5. FilesOfSymbols'
  <2> SUFFICES ASSUME NEW path \in DOMAIN files'
               PROVE  \E sym :
                        \/ path = <<"core", sym>> /\ IsCore(sym, files'[path])
                        \/ path = <<"interposer", sym>> /\ IsBridge(sym, files'[path])
    <3> HIDE DEF w
    <3>1. \A sym, p : IsCore(sym, files[p])' <=> IsCore(sym, files'[p])
      BY <1>4 DEF IsCore
    <3>2. \A sym : emit_default_interposer_bridge(lookup(sym))' = emit_default_interposer_bridge(lookup(sym))
      BY <1>4 DEF emit_default_interposer_bridge, c_types
    <3>3. ASSUME NEW sym, NEW p PROVE IsBridge(sym, files[p])' <=> IsBridge(sym, files'[p])
      BY <1>4, <3>2, Zenon DEF IsBridge
    <3> QED
      BY <3>1, <3>3 DEF FilesOfSymbols
  <2>1. CASE path \in DOMAIN w
    <3>1. PICK sym : path = <<"core", sym>> \/ path = <<"interposer", sym>>
      BY <2>1, WrittenPaths
    <3>2. CASE path = <<"core", sym>>
      <4>1. sym \in Cores(use) /\ files'[path] = emit_core(sym, use.with_daemon)
        BY <1>2, <2>1, <3>2, WrittenFiles
      <4> QED
        BY <3>2, <4>1, EmittedCore
    <3>3. CASE path = <<"interposer", sym>>
      <4>1. sym \in Bridges(use) /\ files'[path] = emit_default_interposer_bridge(lookup(sym))
        BY <1>2, <2>1, <3>3, WrittenFiles
      <4> QED
        BY <3>3, <4>1, EmittedBridge
    <3> QED
      BY <3>1, <3>2, <3>3
  <2>2. CASE path \notin DOMAIN w
    <3> HIDE DEF w
    <3>1. path \in DOMAIN files /\ files'[path] = files[path]
      BY <1>2, <2>2
    <3> QED
      BY <3>1 DEF ShimInv, FilesOfSymbols
  <2> QED
    BY <2>1, <2>2
<1>6. DaemonsCore'
  <2> SUFFICES ASSUME lookup("execve") # None, DaemonCores'
               PROVE  /\ <<"core", "execve">> \in DOMAIN files'
                      /\ files'[<<"core", "execve">>] = emit_os_shim_execve
    BY <1>4 DEF DaemonsCore
  <2>1. PICK i \in 1..(Len(uses) + 1) :
          /\ "Core" \in uses'[i].kinds /\ uses'[i].with_daemon
          /\ \A j \in 1..(Len(uses) + 1) : j > i => "Core" \notin uses'[j].kinds
    BY <1>3 DEF DaemonCores
  <2>2. CASE i = Len(uses) + 1
    <3>1. "Core" \in use.kinds /\ use.with_daemon
      BY <1>3, <2>1, <2>2
    <3>2. "execve" \in Cores(use) /\ emit_core("execve", use.with_daemon) = emit_os_shim_execve
      BY <3>1 DEF Cores, Known, Overrides, emit_core
    <3>3. <<"core", "execve">> \in DOMAIN w /\ w[<<"core", "execve">>] = emit_os_shim_execve
      BY <3>2, WrittenFiles
    <3> HIDE DEF w
    <3> QED
      BY <1>2, <3>3
  <2>3. CASE i # Len(uses) + 1
    <3>1. i \in 1..Len(uses) /\ "Core" \notin use.kinds
      BY <1>3, <2>1, <2>3
    <3>2. DaemonCores
      BY <1>3, <2>1, <3>1 DEF DaemonCores
    <3>3. <<"core", "execve">> \in DOMAIN files /\ files[<<"core", "execve">>] = emit_os_shim_execve
      BY <3>2 DEF ShimInv, DaemonsCore
    <3>4. "execve" \notin Cores(use)
      BY <3>1 DEF Cores
    <3>5. <<"core", "execve">> \notin DOMAIN w
      BY <3>4, WrittenFiles
    <3> HIDE DEF w
    <3> QED
      BY <1>2, <3>3, <3>5
  <2> QED
    BY <2>2, <2>3
<1>7. BridgeAskedFor'
  <2>1. \A i : AsksForBridge(uses[i])' <=> AsksForBridge(uses'[i])
    BY <1>4 DEF AsksForBridge, resolve_symbols
  <2> SUFFICES ASSUME lookup("execve") # None, NEW i \in 1..(Len(uses) + 1), AsksForBridge(uses'[i])
               PROVE  <<"interposer", "execve">> \in DOMAIN files'
    BY <1>3, <1>4, <2>1 DEF BridgeAskedFor
  <2>2. CASE i = Len(uses) + 1
    <3>1. AsksForBridge(use)
      BY <1>3, <2>2
    <3>2. "execve" \in Bridges(use)
      BY <3>1 DEF AsksForBridge, Bridges, Known
    <3>3. <<"interposer", "execve">> \in DOMAIN w
      BY <3>2, WrittenFiles
    <3> HIDE DEF w
    <3> QED
      BY <1>2, <3>3
  <2>3. CASE i # Len(uses) + 1
    <3>1. i \in DOMAIN uses /\ AsksForBridge(uses[i])
      BY <1>3, <2>3
    <3>2. <<"interposer", "execve">> \in DOMAIN files
      BY <3>1 DEF ShimInv, BridgeAskedFor
    <3> HIDE DEF w
    <3> QED
      BY <1>2, <3>2
  <2> QED
    BY <2>2, <2>3
<1>8. BeforeLinking'
  BY <1>1 DEF BeforeLinking
<1> HIDE DEF w
<1>9. GuestCalls' /\ CallsStack' /\ CallsArrive'
  BY <1>1 DEF GuestCalls, CallsStack, CallsArrive
<1> QED
  BY <1>3, <1>5, <1>6, <1>7, <1>8, <1>9 DEF ShimInv

-----------------------------------------------------------------------------
(***************************************************************************)
(* Linking and calling                                                     *)
(***************************************************************************)
\* What is said of the files and of the uses of the generator stays.
LEMMA SameFiles ==
  ASSUME ShimInv, UNCHANGED <<files, uses, functions>>
  PROVE  uses' \in Seq(Uses) /\ FilesOfSymbols' /\ DaemonsCore' /\ BridgeAskedFor'
<1>1. /\ SpecNames' = SpecNames
      /\ \A sym : lookup(sym)' = lookup(sym)
  BY SameSpecification
<1>2. uses' \in Seq(Uses)
  BY DEF ShimInv
<1>3. FilesOfSymbols'
  <2>1. \A sym, p : IsCore(sym, files[p])' <=> IsCore(sym, files[p])
    BY <1>1 DEF IsCore
  <2>2. \A sym, p : IsBridge(sym, files[p])' <=> IsBridge(sym, files[p])
    BY <1>1 DEF IsBridge
  <2> QED
    BY <2>1, <2>2 DEF ShimInv, FilesOfSymbols
<1>4. DaemonsCore'
  <2>1. DaemonCores' <=> DaemonCores
    BY DEF DaemonCores
  <2> QED
    BY <1>1, <2>1 DEF ShimInv, DaemonsCore
<1>5. BridgeAskedFor'
  <2>1. \A i : AsksForBridge(uses[i])' <=> AsksForBridge(uses[i])
    BY <1>1 DEF AsksForBridge, resolve_symbols
  <2> QED
    BY <1>1, <2>1 DEF ShimInv, BridgeAskedFor
<1> QED
  BY <1>2, <1>3, <1>4, <1>5

\* The linker asks for files that compile and for the core of every bridge.
LEMMA LinkKeeps ==
  ASSUME ShimInv, NEW p \in Platforms, NEW implicit \in BOOLEAN, NEW daemon \in BOOLEAN,
         Link(p, implicit, daemon)
  PROVE  ShimInv'
<1>1. /\ functions' = functions /\ parsing' = parsing /\ parsing = "Ok"
      /\ files' = files /\ uses' = uses /\ frames' = frames /\ answer' = answer
      /\ frames = <<>> /\ answer = None
      /\ linked' = [platform |-> p, implicit |-> implicit, daemon |-> daemon]
  BY DEF Link, parserVars, ShimInv, BeforeLinking
<1>2. uses' \in Seq(Uses) /\ FilesOfSymbols' /\ DaemonsCore' /\ BridgeAskedFor'
  BY <1>1, SameFiles
<1>3. Linked'
  <2>1. linked'.platform = p /\ linked'.implicit = implicit /\ linked'.daemon = daemon
    BY <1>1
  <2>2. \A path \in DOMAIN files : Compiles(path, p, implicit)
    BY DEF Link
  <2>3. ASSUME NEW path \in DOMAIN files'
        PROVE  Compiles(path, linked.platform, linked.implicit)'
    <3>1. Compiles(path, p, implicit)'
      BY <1>1, <2>2 DEF Compiles
    <3> QED
      BY <2>1, <3>1, Zenon DEF Compiles
  <2>4. ASSUME NEW path \in BridgePaths'
        PROVE  HasCore(path[2])'
    <3>1. path \in BridgePaths
      BY <1>1 DEF BridgePaths
    <3>2. <<"core", path[2]>> \in DOMAIN files \/ (daemon /\ path[2] = "execve")
      BY <3>1 DEF Link
    <3> DEFINE sym == path[2]
    <3>3. <<"core", sym>> \in DOMAIN files' \/ (linked'.daemon /\ sym = "execve")
      BY <1>1, <2>1, <3>2
    <3> HIDE DEF sym
    <3>4. HasCore(sym)'
      BY <3>3 DEF HasCore
    <3> QED
      BY <3>4 DEF sym
  <2> QED
    BY <2>3, <2>4 DEF Linked
<1>4. BeforeLinking'
  BY <1>1, <1>3 DEF BeforeLinking
<1>5. GuestCalls' /\ CallsStack' /\ CallsArrive'
  BY <1>1 DEF GuestCalls, CallsStack, CallsArrive
<1> QED
  BY <1>2, <1>4, <1>5 DEF ShimInv

\* A step of a call leaves what was linked.
LEMMA SameLink ==
  ASSUME ShimInv, linked # None, UNCHANGED <<files, uses, linked, parserVars>>
  PROVE  /\ uses' \in Seq(Uses) /\ FilesOfSymbols' /\ DaemonsCore' /\ BridgeAskedFor'
         /\ Linked'
<1>1. functions' = functions
  BY DEF parserVars
<1>2. Linked'
  BY DEF ShimInv, BeforeLinking, Linked, Compiles, BridgePaths, HasCore
<1> QED
  BY <1>1, <1>2, SameFiles

\* The first frame of a guest's call is of the bridge, the core or the system.
LEMMA CallKeeps ==
  ASSUME ShimInv, NEW sym, NEW redirected \in BOOLEAN, Call(sym, redirected)
  PROVE  ShimInv'
<1> DEFINE func == lookup(sym)
           args == [i \in DOMAIN func.args |-> Widest(func.args[i])]
           code == IF redirected THEN "core" ELSE Resolve(sym, "guest")
<1>1. /\ linked # None /\ func # None
      /\ UNCHANGED <<files, uses, linked, parserVars>>
      /\ guest' = [sym |-> sym, args |-> args]
      /\ answer' = None
      /\ frames' = <<Frame(code, sym, guest'.args)>>
      /\ redirected => HasCore(sym)
  BY DEF Call
<1>2. /\ uses' \in Seq(Uses) /\ FilesOfSymbols' /\ DaemonsCore' /\ BridgeAskedFor'
      /\ Linked'
  BY <1>1, SameLink
<1>3. functions' = functions /\ parsing' = parsing /\ parsing = "Ok"
  BY <1>1 DEF parserVars, ShimInv, BeforeLinking
<1>4. guest'.sym = sym /\ guest'.args = args /\ func.name = sym
  BY <1>1, LookupNames
<1>5. lookup(guest.sym)' = func
  <2>1. lookup(guest.sym)' = lookup(sym)
    BY <1>3, <1>4 DEF lookup, IsFirst
  <2> QED
    BY <2>1
<1> HIDE DEF func
<1>6. GuestCalls'
  BY <1>1, <1>4, <1>5 DEF GuestCalls, Widest
<1>7. CallsStack'
  <2>1. frames' = <<Frame(code, sym, args)>>
    BY <1>1, <1>4
  <2> HIDE DEF args
  <2>2. /\ code \in {"bridge", "core", "host"}
        /\ code = "bridge" => Bridged(sym)
        /\ code = "core" => HasCore(sym)
    BY <1>1 DEF Resolve
  <2> HIDE DEF code
  <2>3. Frame(code, sym, args) \in FramesOfCall'
    BY <1>4, <2>2 DEF FramesOfCall, OfGuest, Serving
  <2>4. frames' \in Seq(FramesOfCall') /\ Len(frames') = 1 /\ frames'[1] = Frame(code, sym, args)
    BY <2>1, <2>3
  <2>5. /\ Bridged(guest.sym)' <=> Bridged(sym)
        /\ HasCore(sym)' <=> HasCore(sym)
    BY <1>1, <1>4 DEF Bridged, BridgePaths, HasCore
  <2>6. InPlace(1)'
    BY <2>2, <2>4, <2>5 DEF InPlace, Frame, HasCore
  <2> QED
    BY <2>4, <2>6 DEF CallsStack
<1>8. CallsArrive'
  BY <1>1 DEF CallsArrive
<1>9. BeforeLinking'
  BY <1>1, <1>2, <1>3 DEF BeforeLinking
<1> QED
  BY <1>2, <1>6, <1>7, <1>8, <1>9 DEF ShimInv

\* The C types that are generated carry the widest values of a function.
LEMMA GeneratedFits ==
  ASSUME NEW func, CarriedFunction(func)
  PROVE  Fits(c_types(func), func)
<1>1. ASSUME NEW slot, Carried(slot)
      PROVE  Through(c_type(slot), Widest(slot)) = Widest(slot)
  BY <1>1 DEF Carried, Through, c_type, Widest
<1>2. \A i \in DOMAIN func.args : Carried(func.args[i])
  BY DEF CarriedFunction
<1>3. Carried(func.retval)
  BY DEF CarriedFunction
<1>4. /\ DOMAIN c_types(func).params = DOMAIN func.args
      /\ \A i \in DOMAIN func.args : c_types(func).params[i] = c_type(func.args[i])
      /\ c_types(func).ret = c_type(func.retval)
  BY DEF c_types
<1> QED
  BY <1>1, <1>2, <1>3, <1>4 DEF Fits

\* What a function of a frame does to arguments and results: nothing.
PassesOn(body, func) == Fits(body.c, func) /\ body.drops = {} /\ ~Undeclared(body)

\* The prototype of a core that the call may go through carries it.
LEMMA PrototypeFits ==
  ASSUME NEW func, CarriedFunction(func), func.name = guest.sym,
         NEW sym \in Serving, sym \in DOMAIN os_shim_h
  PROVE  Fits(os_shim_h[sym], func)
BY DEF CarriedFunction, Serving

\* Whatever core the call goes through, it passes on the call and calls the
\* function of the system that the guest called or, for exit, _exit.
LEMMA CorePassesOn ==
  ASSUME ShimInv, linked # None, Whole, lookup(guest.sym).name = guest.sym,
         NEW sym \in Serving, HasCore(sym)
  PROVE  /\ PassesOn(CoreOf(sym), lookup(guest.sym))
         /\ CoreOf(sym).calls = c_host_symbol(guest.sym)
<1> DEFINE func == lookup(guest.sym)
<1>1. CarriedFunction(func)
  BY DEF Whole
<1>2. c_host_symbol(sym) = c_host_symbol(guest.sym)
  BY DEF Serving, c_host_symbol
<1>3. sym \in DOMAIN os_shim_h => Fits(os_shim_h[sym], func)
  BY <1>1, PrototypeFits
<1>4. sym \notin DOMAIN os_shim_h => sym = guest.sym
  BY DEF Serving, os_shim_h
<1> HIDE DEF func
<1>5. CASE CoreOf(sym) = emit_os_shim_execve /\ sym = "execve"
  <2>1. /\ emit_os_shim_execve.c = os_shim_h["execve"]
        /\ emit_os_shim_execve.calls = "execve" /\ emit_os_shim_execve.drops = {}
        /\ ~Undeclared(emit_os_shim_execve)
    BY DEF emit_os_shim_execve, Undeclared
  <2>2. "execve" \in DOMAIN os_shim_h
    BY DEF os_shim_h
  <2>3. c_host_symbol("execve") = "execve"
    BY DEF c_host_symbol
  <2> QED
    BY <1>2, <1>3, <1>5, <2>1, <2>2, <2>3 DEF PassesOn, func
<1>6. CASE ~(sym = "execve" /\ linked.daemon)
  <2> DEFINE path == <<"core", sym>>
             file == files[path]
  <2>1. CoreOf(sym) = file /\ path \in DOMAIN files
    BY <1>6 DEF CoreOf, HasCore
  <2>2. IsCore(sym, file)
    <3>1. PICK s :
            \/ path = <<"core", s>> /\ IsCore(s, files[path])
            \/ path = <<"interposer", s>>
      BY <2>1 DEF ShimInv, FilesOfSymbols
    <3> QED
      BY <3>1
  <2>3. Compiles(path, linked.platform, linked.implicit)
    BY <2>1 DEF ShimInv, BeforeLinking, Linked
  <2>4. path[2] = sym
    OBVIOUS
  <2>5. /\ ~Undeclared(file)
        /\ file.does = "forward" /\ sym \in DOMAIN os_shim_h => file.c = os_shim_h[sym]
    <3>1. /\ Undeclared(file) => linked.implicit
          /\ file.does = "forward" /\ path[2] \in DOMAIN os_shim_h => file.c = os_shim_h[path[2]]
      BY <2>3 DEF Compiles
    <3> QED
      BY <2>4, <3>1 DEF Whole
  <2> HIDE DEF path, file
  <2>6. CASE lookup(sym) # None /\ file = emit_weak_forward(lookup(sym))
    <3>1. lookup(sym).name = sym
      BY <2>6, LookupNames
    <3>2. /\ file.does = "forward" /\ file.drops = {}
          /\ file.c = c_types(lookup(sym)) /\ file.calls = c_host_symbol(sym)
      BY <2>6, <3>1 DEF emit_weak_forward, ForwardFile
    <3>3. CASE sym \in DOMAIN os_shim_h
      BY <1>2, <1>3, <2>1, <2>5, <3>2, <3>3 DEF PassesOn, func
    <3>4. CASE sym \notin DOMAIN os_shim_h
      <4>1. Fits(c_types(lookup(sym)), lookup(guest.sym))
        BY <1>1, <1>4, <3>4, GeneratedFits DEF func
      <4> QED
        BY <1>2, <2>1, <2>5, <3>2, <4>1 DEF PassesOn
    <3> QED
      BY <3>3, <3>4
  <2>7. CASE sym \in DOMAIN os_shim_h /\ file = ForwardFile(c_host_symbol(sym), os_shim_h[sym])
    <3>1. file.drops = {} /\ file.c = os_shim_h[sym] /\ file.calls = c_host_symbol(sym)
      BY <2>7 DEF ForwardFile
    <3> QED
      BY <1>2, <1>3, <2>1, <2>5, <2>7, <3>1 DEF PassesOn, func
  <2> QED
    BY <1>5, <2>1, <2>2, <2>6, <2>7 DEF IsCore
<1>7. CASE sym = "execve" /\ linked.daemon
  BY <1>5, <1>7 DEF CoreOf
<1> QED
  BY <1>6, <1>7

\* So does the bridge, and its core is one that serves the call.
LEMMA BridgePassesOn ==
  ASSUME ShimInv, linked # None, Whole, lookup(guest.sym).name = guest.sym,
         NEW path \in BridgePaths, files[path].exports = guest.sym
  PROVE  /\ PassesOn(files[path], lookup(guest.sym))
         /\ files[path].calls \in Serving /\ HasCore(files[path].calls)
<1> DEFINE func == lookup(guest.sym)
           file == files[path]
<1>1. CarriedFunction(func) /\ func.name # "printf"
  BY DEF Whole, CarriedFunction
<1>2. path \in DOMAIN files /\ path[1] = "interposer"
  BY DEF BridgePaths
<1>3. PICK sym :
        \/ path = <<"core", sym>>
        \/ path = <<"interposer", sym>> /\ IsBridge(sym, file)
  BY <1>2 DEF ShimInv, FilesOfSymbols
<1>4. path = <<"interposer", sym>> /\ path[2] = sym /\ IsBridge(sym, file)
  BY <1>2, <1>3
<1>5. HasCore(sym)
  BY <1>4 DEF ShimInv, BeforeLinking, Linked
<1>6. ~Undeclared(file)
  <2>1. Compiles(path, linked.platform, linked.implicit)
    BY <1>2 DEF ShimInv, BeforeLinking, Linked
  <2> QED
    BY <2>1 DEF Compiles, Whole
<1>7. file.exports = guest.sym
  OBVIOUS
<1> HIDE DEF func, file
<1>8. CASE lookup(sym) # None /\ file = emit_default_interposer_bridge(lookup(sym))
  <2>1. lookup(sym).name = sym
    BY <1>8, LookupNames
  <2>2. /\ file.calls = sym /\ file.exports = sym /\ file.drops = {}
        /\ file.c = c_types(lookup(sym))
    BY <1>8, <2>1 DEF emit_default_interposer_bridge, BridgeFile
  <2>3. sym = guest.sym
    BY <1>7, <2>2
  <2>4. Fits(c_types(lookup(sym)), func)
    BY <1>1, <2>3, GeneratedFits DEF func
  <2> QED
    BY <1>5, <1>6, <2>2, <2>3, <2>4 DEF PassesOn, Serving, func, file
<1>9. CASE sym \in DOMAIN os_shim_h /\ file = checked_in[<<"interposer", sym>>]
  <2>1. /\ file.calls = sym /\ file.exports = c_host_symbol(sym)
        /\ file.drops = (IF sym = "printf" THEN {2} ELSE {})
        /\ file.c = os_shim_h[sym]
    <3>1. <<"interposer", sym>> \in {"core", "interposer"} \X DOMAIN os_shim_h
      BY <1>9
    <3> QED
      BY <1>9, <3>1 DEF checked_in, BridgeFile
  <2>2. sym \in Serving
    BY <1>7, <2>1 DEF Serving, c_host_symbol
  <2>3. sym # "printf"
    BY <1>1, <1>7, <2>1 DEF c_host_symbol, func
  <2>4. Fits(os_shim_h[sym], func)
    BY <1>1, <1>9, <2>2, PrototypeFits DEF func
  <2> QED
    BY <1>5, <1>6, <2>1, <2>2, <2>3, <2>4 DEF PassesOn, func, file
<1> QED
  BY <1>4, <1>8, <1>9 DEF IsBridge

\* A frame that is in place runs code that passes on the call.
LEMMA BodyPassesOn ==
  ASSUME ShimInv, linked # None, Whole, lookup(guest.sym).name = guest.sym,
         NEW i \in 1..Len(frames), InPlace(i), frames[i] \in FramesOfCall, frames[i].code # "host"
  PROVE  /\ PassesOn(Body(frames[i]), lookup(guest.sym))
         /\ frames[i].code = "bridge" =>
              /\ i = 1
              /\ Body(frames[i]).calls \in Serving /\ HasCore(Body(frames[i]).calls)
         /\ frames[i].code = "core" => i <= 2 /\ Body(frames[i]).calls = c_host_symbol(guest.sym)
<1> DEFINE frame == frames[i]
<1>1. CASE frame.code = "bridge"
  <2>1. frame.sym = guest.sym
    BY <1>1 DEF FramesOfCall, OfGuest, Frame
  <2>2. i = 1 /\ Bridged(guest.sym)
    BY <1>1 DEF InPlace
  <2> DEFINE path == CHOOSE p \in BridgePaths : files[p].exports = guest.sym
  <2>3. path \in BridgePaths /\ files[path].exports = guest.sym
    BY <2>2, Zenon DEF Bridged
  <2>4. Body(frame) = files[path]
    BY <1>1, <2>1 DEF Body
  <2> HIDE DEF path
  <2> QED
    BY <1>1, <2>2, <2>3, <2>4, BridgePassesOn
<1>2. CASE frame.code = "core"
  <2>1. frame.sym \in Serving
    BY <1>2 DEF FramesOfCall, OfGuest, Frame
  <2>2. i <= 2 /\ HasCore(frame.sym)
    BY <1>2 DEF InPlace
  <2>3. Body(frame) = CoreOf(frame.sym)
    BY <1>2 DEF Body
  <2> QED
    BY <1>2, <2>1, <2>2, <2>3, CorePassesOn
<1>3. frame.code \in {"bridge", "core"}
  BY DEF FramesOfCall, OfGuest, Frame
<1> QED
  BY <1>1, <1>2, <1>3

\* Arguments that a function passes on are the guest's.
LEMMA SameArguments ==
  ASSUME NEW func, NEW body, PassesOn(body, func), NEW args,
         args = [i \in DOMAIN func.args |-> Widest(func.args[i])]
  PROVE  [i \in DOMAIN body.c.params |-> PassedOn(body, args, i)] = args
<1>1. DOMAIN args = DOMAIN func.args /\ \A i \in DOMAIN args : args[i] = Widest(func.args[i])
  OBVIOUS
<1>2. DOMAIN body.c.params = DOMAIN args
  BY <1>1 DEF PassesOn, Fits
<1>3. \A i \in DOMAIN args : PassedOn(body, args, i) = args[i]
  BY <1>1 DEF PassesOn, Fits, PassedOn
<1>4. args = [i \in DOMAIN args |-> args[i]]
  OBVIOUS
<1>5. [i \in DOMAIN body.c.params |-> PassedOn(body, args, i)] = [i \in DOMAIN args |-> args[i]]
  BY <1>2, <1>3
<1> QED
  BY <1>4, <1>5, Zenon

\* What is said of the guest's call stays while it is on its way.
LEMMA SameCall ==
  ASSUME UNCHANGED <<files, linked, guest, functions>>
  PROVE  /\ lookup(guest.sym)' = lookup(guest.sym)
         /\ Whole' <=> Whole
         /\ FramesOfCall' = FramesOfCall
         /\ Bridged(guest.sym)' <=> Bridged(guest.sym)
         /\ \A sym : HasCore(sym)' <=> HasCore(sym)
         /\ c_host_symbol(guest.sym)' = c_host_symbol(guest.sym)
<1>1. lookup(guest.sym)' = lookup(guest.sym)
  BY DEF lookup, IsFirst
<1>2. Whole' <=> Whole
  <2>1. CarriedFunction(lookup(guest.sym))' <=> CarriedFunction(lookup(guest.sym))
    BY <1>1 DEF CarriedFunction, Carried, Fits, Widest, Through
  <2>2. Resolve(c_host_symbol(guest.sym), "interposer")' = Resolve(c_host_symbol(guest.sym), "interposer")
    BY DEF Resolve, c_host_symbol, Bridged, BridgePaths
  <2> QED
    BY <2>1, <2>2 DEF Whole
<1>3. FramesOfCall' = FramesOfCall
  BY DEF FramesOfCall, OfGuest, Serving, c_host_symbol
<1>4. Bridged(guest.sym)' <=> Bridged(guest.sym)
  BY DEF Bridged, BridgePaths
<1>5. \A sym : HasCore(sym)' <=> HasCore(sym)
  BY DEF HasCore
<1> QED
  BY <1>1, <1>2, <1>3, <1>4, <1>5 DEF c_host_symbol

\* A bridge calls its core with the guest's arguments, and the core the system.
LEMMA ForwardKeeps ==
  ASSUME ShimInv, Forward
  PROVE  ShimInv'
<1> DEFINE body == Body(Top)
           args == [i \in DOMAIN body.c.params |-> PassedOn(body, Top.args, i)]
           code == IF Top.code = "bridge" THEN "core" ELSE Resolve(body.calls, "interposer")
           next == Frame(code, body.calls, args)
<1>1. /\ frames # <<>> /\ Top.code # "host"
      /\ frames' = Append(frames, next)
      /\ UNCHANGED <<files, uses, linked, guest, answer, ran, parserVars>>
  BY DEF Forward
<1>2. linked # None
  BY <1>1 DEF ShimInv, BeforeLinking
<1>3. /\ uses' \in Seq(Uses) /\ FilesOfSymbols' /\ DaemonsCore' /\ BridgeAskedFor'
      /\ Linked'
  BY <1>1, <1>2, SameLink
<1>4. functions' = functions /\ parsing' = parsing /\ parsing = "Ok"
  BY <1>1, <1>2 DEF parserVars, ShimInv, BeforeLinking
<1>5. /\ lookup(guest.sym)' = lookup(guest.sym)
      /\ Whole' <=> Whole
      /\ FramesOfCall' = FramesOfCall
      /\ Bridged(guest.sym)' <=> Bridged(guest.sym)
      /\ \A sym : HasCore(sym)' <=> HasCore(sym)
  BY <1>1, <1>4, SameCall
<1>6. GuestCalls'
  BY <1>1, <1>5 DEF ShimInv, GuestCalls, Widest
<1>7. CallsStack'
  <2> SUFFICES ASSUME Whole
               PROVE  /\ frames' \in Seq(FramesOfCall)
                      /\ Len(frames') \in 1..3
                      /\ \A i \in 1..Len(frames') : InPlace(i)'
    BY <1>5 DEF CallsStack
  <2> HIDE DEF next, code, args, body
  <2> PICK n \in 1..3 : n = Len(frames)
    BY <1>1 DEF ShimInv, CallsStack
  <2>1. /\ frames \in Seq(FramesOfCall) /\ \A i \in 1..n : InPlace(i)
        /\ lookup(guest.sym).name = guest.sym
        /\ guest.args = [i \in DOMAIN lookup(guest.sym).args |-> Widest(lookup(guest.sym).args[i])]
    BY <1>1 DEF ShimInv, CallsStack, GuestCalls
  <2>2. Top = frames[n] /\ Top \in FramesOfCall /\ InPlace(n)
    BY <2>1 DEF Top, Last
  <2>3. /\ PassesOn(body, lookup(guest.sym))
        /\ Top.code = "bridge" => n = 1 /\ body.calls \in Serving /\ HasCore(body.calls)
        /\ Top.code = "core" => n <= 2 /\ body.calls = c_host_symbol(guest.sym)
    BY <1>1, <1>2, <2>1, <2>2, BodyPassesOn DEF body
  <2>4. Top.args = guest.args /\ Top.code \in {"bridge", "core"}
    BY <1>1, <2>2 DEF FramesOfCall, OfGuest, Frame
  <2>5. args = guest.args
    <3>1. args = [i \in DOMAIN body.c.params |-> PassedOn(body, guest.args, i)]
      BY <2>4 DEF args
    <3> QED
      BY <2>1, <2>3, <3>1, SameArguments
  <2>6. /\ Top.code = "bridge" => code = "core"
        /\ Top.code = "core" => code = "host"
    BY <2>3, <2>4 DEF Whole, code
  <2>7. next \in FramesOfCall
    BY <2>3, <2>4, <2>5, <2>6 DEF FramesOfCall, OfGuest, next
  <2>8. next.code = code /\ next.sym = body.calls
    BY DEF Frame, next
  <2>9. /\ frames' \in Seq(FramesOfCall) /\ Len(frames') = n + 1
        /\ \A i \in 1..n : frames'[i] = frames[i]
        /\ frames'[n + 1] = next
    BY <1>1, <2>1, <2>7
  <2>10. \A i \in 1..n : InPlace(i)'
    <3> SUFFICES ASSUME NEW i \in 1..n PROVE InPlace(i)'
      OBVIOUS
    <3>1. frames[i].code # "host"
      BY <1>1, <2>1, <2>2 DEF InPlace
    <3>2. InPlace(i)
      BY <2>1
    <3> QED
      BY <1>5, <2>9, <3>1, <3>2 DEF InPlace
  <2>11. InPlace(n + 1)'
    BY <1>5, <2>1, <2>3, <2>4, <2>6, <2>8, <2>9 DEF InPlace
  <2> QED
    BY <2>1, <2>3, <2>4, <2>9, <2>10, <2>11
<1>8. CallsArrive'
  <2>1. answer' = None
    BY <1>1 DEF ShimInv, GuestCalls
  <2> QED
    BY <2>1 DEF CallsArrive
<1>9. BeforeLinking'
  BY <1>1, <1>2, <1>3, <1>4 DEF BeforeLinking
<1> QED
  BY <1>3, <1>6, <1>7, <1>8, <1>9 DEF ShimInv

\* A function of a frame that is not the system's hands on the result.
HandsOn(i, result) ==
  frames[i].code # "host" => Through(ResultType(Body(frames[i])), result) = result

\* A result that every frame hands on reaches the guest.
LEMMA ResultArrives ==
  ASSUME NEW result, NEW n \in 1..3, Len(frames) = n, frames[n].code = "host",
         \A i \in 1..n : HandsOn(i, result)
  PROVE  LET passed[i \in 1..Len(frames)] ==
               IF frames[i].code = "host" THEN result
               ELSE Through(ResultType(Body(frames[i])), passed[i + 1])
         IN  passed[1] = result
<1> DEFINE G(i, y) == IF frames[i].code = "host" THEN result
                      ELSE Through(ResultType(Body(frames[i])), y)
           All(f) == f = [i \in 1..n |-> G(i, f[i + 1])]
           passed == CHOOSE f : All(f)
<1>0. /\ G(n, result) = result
      /\ \A y : G(n, y) = result
      /\ \A i \in 1..n : G(i, result) = result
  BY DEF HandsOn
<1>1. \E f : All(f)
  <2> DEFINE g == [i \in 1..n |-> result]
  <2>1. \A i \in 1..n : G(i, g[i + 1]) = result
    <3> SUFFICES ASSUME NEW i \in 1..n PROVE G(i, g[i + 1]) = result
      OBVIOUS
    <3>1. CASE i = n
      BY <1>0, <3>1
    <3>2. CASE i # n
      <4>1. i + 1 \in 1..n
        BY <3>2
      <4>2. g[i + 1] = result
        BY <4>1
      <4> HIDE DEF g, G
      <4> QED
        BY <1>0, <4>2
    <3> QED
      BY <3>1, <3>2
  <2> HIDE DEF G
  <2>2. [i \in 1..n |-> result] = [i \in 1..n |-> G(i, g[i + 1])]
    BY <2>1
  <2>3. g = [i \in 1..n |-> G(i, g[i + 1])]
    BY <2>2
  <2> HIDE DEF g
  <2>4. All(g)
    BY <2>3
  <2> HIDE DEF All
  <2> QED
    BY <2>4
<1>2. All(passed)
  <2> HIDE DEF All
  <2> QED
    BY <1>1, Zenon
<1>3. \A i \in 1..n : passed[i] = G(i, passed[i + 1])
  <2> HIDE DEF G, passed
  <2> QED
    BY <1>2
<1> HIDE DEF G, passed, All
<1>4. passed[n] = result
  BY <1>0, <1>3
<1>5. \A i \in 1..n : i + 1 \in 1..n /\ passed[i + 1] = result => passed[i] = result
  BY <1>0, <1>3
<1>6. passed[1] = result
  <2>1. n = 1 \/ n = 2 \/ n = 3
    OBVIOUS
  <2>2. CASE n = 1
    BY <1>4, <2>2
  <2>3. CASE n = 2
    BY <1>4, <1>5, <2>3
  <2>4. CASE n = 3
    BY <1>4, <1>5, <2>4
  <2> QED
    BY <2>1, <2>2, <2>3, <2>4
<1> QED
  BY <1>6 DEF passed, All, G

\* The system runs the function with the guest's arguments, and its result
\* comes back through the frames as it is.
LEMMA RunKeeps ==
  ASSUME ShimInv, Run
  PROVE  ShimInv'
<1> DEFINE result == Widest(lookup(guest.sym).retval)
<1>1. /\ frames # <<>> /\ Top.code = "host" /\ frames' = <<>>
      /\ UNCHANGED <<files, uses, linked, guest, parserVars>>
      /\ ran' = [sym |-> Top.sym, args |-> Top.args, result |-> result]
      /\ answer' = LET passed[i \in 1..Len(frames)] ==
                         IF frames[i].code = "host" THEN result
                         ELSE Through(ResultType(Body(frames[i])), passed[i + 1])
                   IN  passed[1]
  BY DEF Run
<1>2. linked # None
  BY <1>1 DEF ShimInv, BeforeLinking
<1>3. /\ uses' \in Seq(Uses) /\ FilesOfSymbols' /\ DaemonsCore' /\ BridgeAskedFor'
      /\ Linked'
  BY <1>1, <1>2, SameLink
<1>4. functions' = functions /\ parsing' = parsing /\ parsing = "Ok"
  BY <1>1, <1>2 DEF parserVars, ShimInv, BeforeLinking
<1>5. /\ Whole' <=> Whole
      /\ c_host_symbol(guest.sym)' = c_host_symbol(guest.sym)
  BY <1>1, <1>4, SameCall
<1>6. GuestCalls' /\ CallsStack'
  BY <1>1 DEF GuestCalls, CallsStack
<1>7. CallsArrive'
  <2> SUFFICES ASSUME Whole
               PROVE  /\ Top.sym \in {guest.sym, c_host_symbol(guest.sym)}
                      /\ Top.args = guest.args
                      /\ answer' = result
    BY <1>1, <1>5 DEF CallsArrive
  <2> HIDE DEF result
  <2> PICK n \in 1..3 : n = Len(frames)
    BY <1>1 DEF ShimInv, CallsStack
  <2>1. /\ frames \in Seq(FramesOfCall) /\ \A i \in 1..n : InPlace(i)
        /\ lookup(guest.sym).name = guest.sym
    BY <1>1 DEF ShimInv, CallsStack, GuestCalls
  <2>2. Top = frames[n] /\ Top \in FramesOfCall
    BY <2>1 DEF Top, Last
  <2>3. Top.sym \in {guest.sym, c_host_symbol(guest.sym)} /\ Top.args = guest.args
    BY <1>1, <2>2 DEF FramesOfCall, OfGuest, Frame
  <2>4. \A i \in 1..n : HandsOn(i, result)
    <3> SUFFICES ASSUME NEW i \in 1..n, frames[i].code # "host"
                 PROVE  Through(ResultType(Body(frames[i])), result) = result
      BY DEF HandsOn
    <3>1. PassesOn(Body(frames[i]), lookup(guest.sym))
      BY <1>2, <2>1, BodyPassesOn
    <3> QED
      BY <3>1 DEF PassesOn, Fits, ResultType, result
  <2>5. LET passed[i \in 1..Len(frames)] ==
              IF frames[i].code = "host" THEN result
              ELSE Through(ResultType(Body(frames[i])), passed[i + 1])
        IN  passed[1] = result
    BY <1>1, <2>1, <2>2, <2>4, ResultArrives
  <2> QED
    BY <1>1, <2>3, <2>5, Zenon
<1>8. BeforeLinking'
  BY <1>1, <1>2, <1>3, <1>4 DEF BeforeLinking
<1> QED
  BY <1>3, <1>6, <1>7, <1>8 DEF ShimInv

\* No step of the generator, the linker or a call breaks the invariant.
LEMMA ShimKeeps ==
  ASSUME ShimInv, [ShimNext]_<<parserVars, shimVars>>
  PROVE  ShimInv'
<1>1. CASE Parse
  BY <1>1, ParseKeeps
<1>2. ASSUME NEW use \in Uses, Generate(use) PROVE ShimInv'
  BY <1>2, GenerateKeeps
<1>3. ASSUME NEW p \in Platforms, NEW implicit \in BOOLEAN, NEW daemon \in BOOLEAN,
             Link(p, implicit, daemon)
      PROVE  ShimInv'
  BY <1>3, LinkKeeps
<1>4. ASSUME NEW sym \in SpecNames, NEW redirected \in BOOLEAN, Call(sym, redirected) PROVE ShimInv'
  BY <1>4, CallKeeps
<1>5. CASE Forward
  BY <1>5, ForwardKeeps
<1>6. CASE Run
  BY <1>6, RunKeeps
<1>7. CASE UNCHANGED <<parserVars, shimVars>>
  <2>1. /\ UNCHANGED <<files, uses, linked, frames, guest, answer, ran, functions, parsing>>
    BY <1>7 DEF parserVars, shimVars
  <2>2. uses' \in Seq(Uses) /\ FilesOfSymbols' /\ DaemonsCore' /\ BridgeAskedFor'
    BY <2>1, SameFiles
  <2>3. BeforeLinking'
    BY <2>1 DEF ShimInv, BeforeLinking, Linked, Compiles, BridgePaths, HasCore
  <2>4. /\ lookup(guest.sym)' = lookup(guest.sym)
        /\ Whole' <=> Whole
        /\ FramesOfCall' = FramesOfCall
        /\ Bridged(guest.sym)' <=> Bridged(guest.sym)
        /\ \A sym : HasCore(sym)' <=> HasCore(sym)
        /\ c_host_symbol(guest.sym)' = c_host_symbol(guest.sym)
    BY <2>1, SameCall
  <2>5. GuestCalls'
    BY <2>1, <2>4 DEF ShimInv, GuestCalls, Widest
  <2>6. \A i : InPlace(i)' <=> InPlace(i)
    BY <2>1, <2>4 DEF InPlace
  <2>7. CallsStack'
    BY <2>1, <2>4, <2>6 DEF ShimInv, CallsStack
  <2>8. CallsArrive'
    BY <2>1, <2>4 DEF ShimInv, CallsArrive
  <2> QED
    BY <2>2, <2>3, <2>5, <2>7, <2>8 DEF ShimInv
<1> QED
  BY <1>1, <1>2, <1>3, <1>4, <1>5, <1>6, <1>7 DEF ShimNext

\* The stack is empty when an answer is there, and the answer is the result.
LEMMA CallsAreWhole == ShimInv => CallsArriveWhole
BY DEF ShimInv, CallsArrive, Whole, CallsArriveWhole

\* The daemon's core is what os_shim_execve is, and its bridge is a file.
LEMMA DaemonTakesExecve == ShimInv => DaemonOverridesExecve
<1> SUFFICES ASSUME ShimInv, linked # None, lookup("execve") # None, linked.daemon \/ DaemonCores
             PROVE  /\ linked.daemon \/ <<"core", "execve">> \in DOMAIN files
                    /\ CoreOf("execve").does = "daemon"
                    /\ (\E i \in DOMAIN uses : AsksForBridge(uses[i])) =>
                         <<"interposer", "execve">> \in DOMAIN files
  BY DEF DaemonOverridesExecve, AsksForBridge
<1>1. emit_os_shim_execve.does = "daemon"
  BY DEF emit_os_shim_execve
<1>2. CASE linked.daemon
  BY <1>1, <1>2 DEF CoreOf, ShimInv, BridgeAskedFor
<1>3. CASE ~linked.daemon
  <2>1. <<"core", "execve">> \in DOMAIN files /\ files[<<"core", "execve">>] = emit_os_shim_execve
    BY <1>3 DEF ShimInv, DaemonsCore
  <2> QED
    BY <1>1, <1>3, <2>1 DEF CoreOf, ShimInv, BridgeAskedFor
<1> QED
  BY <1>2, <1>3

-----------------------------------------------------------------------------
(***************************************************************************)
(* Documents                                                               *)
(***************************************************************************)
\* The whole file, of which r elements were read, and any element.
At(node, r) == [node |-> node, read |-> r]
File(r)     == At([tag |-> "", children |-> <<document>>], r)

Items == document.children

\* Before and after the root.
Outside ==
  /\ open = <<File(0)>> \/ open = <<File(1)>>
  /\ ~in_signatures /\ cur_fn = None

\* After n items of the root.
InRoot(n) ==
  /\ open = <<At(document, n), File(1)>>
  /\ in_signatures <=> document.tag = "signatures"
  /\ cur_fn = None

\* After k parts of an item: the function that was begun has those and no more.
HasParts(item, k) ==
  /\ in_signatures <=> document.tag = "signatures"
  /\ ~(item.short /\ item.children = <<>>)
  /\ cur_fn = IF in_signatures /\ item.tag = "function" THEN PartRead(item, k) ELSE None

InItem(n, k) ==
  /\ open = <<At(Items[n], k), At(document, n), File(1)>>
  /\ HasParts(Items[n], k)

\* In the last of them, when it is not written short.
InPart(n, k) ==
  /\ open = <<At(Items[n].children[k], 0), At(Items[n], k), At(document, n), File(1)>>
  /\ HasParts(Items[n], k)

Place ==
  \/ Outside
  \/ \E n \in 0..Len(Items) : InRoot(n)
  \/ \E n \in 1..Len(Items) :
       \/ \E k \in 0..Len(Items[n].children) : InItem(n, k)
       \/ \E k \in 1..Len(Items[n].children) : InPart(n, k)

\* The children of a tag.
Tagged(node, tag) == {part \in Inside(node) : part.tag = tag}

\* While it is read, the functions are those of the items that have ended.
DocumentInv ==
  /\ document \in Documents
  /\ Plain /\ parsing = "reads" => Place /\ functions = Said
  /\ ReadsTheDocument

\* A flattening that has one sequence more.
LEMMA FlattenNext ==
  ASSUME NEW S, NEW n \in Nat, NEW f \in [1..(n + 1) -> Seq(S)]
  PROVE  FlattenSeq(f) = FlattenSeq([i \in 1..n |-> f[i]]) \o f[n + 1]
<1> DEFINE g == [i \in 1..n |-> f[i]]
           x == f[n + 1]
<1>1. g \in Seq(Seq(S)) /\ x \in Seq(S) /\ Len(g) = n
  OBVIOUS
<1>2. f = Append(g, x)
  <2>1. /\ f \in Seq(Seq(S)) /\ Len(f) = n + 1
        /\ \A i \in 1..n : f[i] = g[i]
    OBVIOUS
  <2> HIDE DEF g
  <2>2. /\ Append(g, x) \in Seq(Seq(S)) /\ Len(Append(g, x)) = n + 1
        /\ \A i \in 1..n : Append(g, x)[i] = g[i]
        /\ Append(g, x)[n + 1] = x
    BY <1>1
  <2>3. \A i \in 1..Len(f) : f[i] = Append(g, x)[i]
    BY <2>1, <2>2
  <2> QED
    BY <2>1, <2>2, <2>3, SeqEqual
<1> HIDE DEF g, x
<1>3. FlattenSeq(Append(g, x)) = FlattenSeq(g) \o x
  BY <1>1, FlattenAppend
<1> QED
  BY <1>2, <1>3 DEF g, x

\* The arguments or the results among the first children are a sequence.
LEMMA PartsSeq ==
  ASSUME NEW item, item.children \in Seq(Inside(item)), NEW tag,
         NEW k \in 0..Len(item.children)
  PROVE  Parts(item, k, tag) \in Seq({parse_arg(part) : part \in Tagged(item, tag)})
<1> DEFINE S == {parse_arg(part) : part \in Tagged(item, tag)}
           e(i) == IF item.children[i].tag = tag THEN <<parse_arg(item.children[i])>> ELSE <<>>
           f == [i \in 1..k |-> e(i)]
<1>1. k \in Nat /\ \A i \in 1..k : item.children[i].tag = tag => parse_arg(item.children[i]) \in S
  <2>1. k \in Nat /\ \A i \in 1..k : i \in DOMAIN item.children
    OBVIOUS
  <2> QED
    BY <2>1, Zenon DEF Inside, Tagged
<1>2. Parts(item, k, tag) = FlattenSeq(f)
  BY DEF Parts
<1> HIDE DEF S
<1>3. <<>> \in Seq(S) /\ \A i \in 1..k : e(i) \in Seq(S)
  BY <1>1
<1> HIDE DEF e
<1>4. f \in Seq(Seq(S))
  BY <1>1, <1>3
<1> HIDE DEF f
<1>5. FlattenSeq(f) \in Seq(S)
  BY <1>3, <1>4, FlattenAppend
<1> QED
  BY <1>2, <1>5 DEF S

\* The arguments or the results, with one child more.
LEMMA PartsNext ==
  ASSUME NEW item, item.children \in Seq(Inside(item)), NEW tag,
         NEW k \in 0..(Len(item.children) - 1)
  PROVE  Parts(item, k + 1, tag) =
           IF item.children[k + 1].tag = tag
           THEN Append(Parts(item, k, tag), parse_arg(item.children[k + 1])) ELSE Parts(item, k, tag)
<1> DEFINE S == {parse_arg(part) : part \in Tagged(item, tag)}
           e(i) == IF item.children[i].tag = tag THEN <<parse_arg(item.children[i])>> ELSE <<>>
           f == [i \in 1..(k + 1) |-> e(i)]
           g == [i \in 1..k |-> e(i)]
<1>1. k \in Nat /\ k + 1 \in 1..Len(item.children) /\ k \in 0..Len(item.children)
  OBVIOUS
<1>2. \A i \in 1..(k + 1) : item.children[i].tag = tag => parse_arg(item.children[i]) \in S
  <2>1. \A i \in 1..(k + 1) : i \in DOMAIN item.children
    BY <1>1
  <2> QED
    BY <2>1, Zenon DEF Inside, Tagged
<1>3. Parts(item, k + 1, tag) = FlattenSeq(f) /\ Parts(item, k, tag) = FlattenSeq(g)
  BY DEF Parts
<1>4. Parts(item, k, tag) \in Seq(S)
  BY <1>1, PartsSeq
<1>5. \A i \in 1..(k + 1) : e(i) \in Seq(S)
  <2> HIDE DEF S
  <2> QED
    BY <1>2
<1>6. e(k + 1) = IF item.children[k + 1].tag = tag THEN <<parse_arg(item.children[k + 1])>> ELSE <<>>
  OBVIOUS
<1>7. item.children[k + 1].tag = tag => parse_arg(item.children[k + 1]) \in S
  BY <1>1, <1>2
<1> HIDE DEF S, e
<1>8. f \in [1..(k + 1) -> Seq(S)] /\ f[k + 1] = e(k + 1) /\ g = [i \in 1..k |-> f[i]]
  BY <1>1, <1>5
<1> HIDE DEF f, g
<1>9. FlattenSeq(f) = FlattenSeq(g) \o f[k + 1]
  BY <1>1, <1>8, FlattenNext
<1>10. FlattenSeq(f) = FlattenSeq(g) \o e(k + 1) /\ FlattenSeq(g) \in Seq(S)
  BY <1>3, <1>4, <1>8, <1>9
<1>11. \A s \in Seq(S), a \in S : s \o <<a>> = Append(s, a) /\ s \o <<>> = s
  OBVIOUS
<1>12. CASE item.children[k + 1].tag = tag
  <2>1. e(k + 1) = <<parse_arg(item.children[k + 1])>>
    BY <1>6, <1>12, Zenon
  <2>2. FlattenSeq(g) \o e(k + 1) = Append(FlattenSeq(g), parse_arg(item.children[k + 1]))
    BY <1>7, <1>10, <1>11, <1>12, <2>1, Zenon
  <2>3. Parts(item, k + 1, tag) = Append(Parts(item, k, tag), parse_arg(item.children[k + 1]))
    BY <1>3, <1>10, <2>2, Zenon
  <2> QED
    BY <1>12, <2>3, Zenon
<1>13. CASE item.children[k + 1].tag # tag
  <2>1. e(k + 1) = <<>>
    BY <1>6, <1>13, Zenon
  <2>2. FlattenSeq(g) \o e(k + 1) = FlattenSeq(g)
    BY <1>10, <2>1
  <2>3. Parts(item, k + 1, tag) = Parts(item, k, tag)
    BY <1>3, <1>10, <2>2, Zenon
  <2> QED
    BY <1>13, <2>3, Zenon
<1> QED
  BY <1>12, <1>13

\* Without children there are none.
LEMMA PartsNone ==
  ASSUME NEW item, NEW tag
  PROVE  Parts(item, 0, tag) = <<>>
<1>1. [i \in 1..0 |-> IF item.children[i].tag = tag THEN <<parse_arg(item.children[i])>> ELSE <<>>] = <<>>
  OBVIOUS
<1> QED
  BY <1>1, FlattenEmpty DEF Parts

\* A function of which nothing was read.
LEMMA PartReadNone ==
  ASSUME NEW item
  PROVE  PartRead(item, 0) = [name |-> item.name, args |-> <<>>, retval |-> None]
BY PartsNone DEF PartRead

\* A function with one part more.
WithPart(pf, node) ==
  CASE node.tag = "arg" -> [pf EXCEPT !.args = Append(@, parse_arg(node))]
    [] node.tag = "retval" -> [pf EXCEPT !.retval = parse_arg(node)]
    [] OTHER -> pf

\* One of which one child more was read.
LEMMA PartReadNext ==
  ASSUME NEW item, item.children \in Seq(Inside(item)), NEW k \in 0..(Len(item.children) - 1),
         NEW p, p = item.children[k + 1]
  PROVE  PartRead(item, k + 1) = WithPart(PartRead(item, k), p)
<1> DEFINE A(n) == Parts(item, n, "arg")
           R(n) == Parts(item, n, "retval")
<1>1. /\ A(k + 1) = IF p.tag = "arg" THEN Append(A(k), parse_arg(p)) ELSE A(k)
      /\ R(k + 1) = IF p.tag = "retval" THEN Append(R(k), parse_arg(p)) ELSE R(k)
  BY PartsNext
<1>2. R(k) \in Seq({parse_arg(part) : part \in Tagged(item, "retval")})
  BY PartsSeq
<1>3. \A n : PartRead(item, n) = [name |-> item.name, args |-> A(n),
                                  retval |-> IF R(n) = <<>> THEN None ELSE Last(R(n))]
  BY DEF PartRead
<1> HIDE DEF A, R
<1>4. \A a : Append(R(k), a) # <<>> /\ Last(Append(R(k), a)) = a
  BY <1>2 DEF Last
<1> DEFINE v == IF R(k) = <<>> THEN None ELSE Last(R(k))
<1>0. PartRead(item, k) = [name |-> item.name, args |-> A(k), retval |-> v]
  BY <1>3
<1>5. CASE p.tag = "arg"
  <2>1. A(k + 1) = Append(A(k), parse_arg(p)) /\ R(k + 1) = R(k)
    BY <1>1, <1>5
  <2>2. PartRead(item, k + 1) = [name |-> item.name, args |-> Append(A(k), parse_arg(p)), retval |-> v]
    BY <1>3, <2>1
  <2> HIDE DEF v
  <2>3. \A L : [PartRead(item, k) EXCEPT !.args = L] = [name |-> item.name, args |-> L, retval |-> v]
    BY <1>0
  <2>4. PartRead(item, k).args = A(k)
    BY <1>0
  <2>5. PartRead(item, k + 1) = [PartRead(item, k) EXCEPT !.args = Append(@, parse_arg(p))]
    BY <2>2, <2>3, <2>4, Zenon
  <2> QED
    BY <1>5, <2>5 DEF WithPart
<1>6. CASE p.tag = "retval"
  <2>1. A(k + 1) = A(k) /\ R(k + 1) = Append(R(k), parse_arg(p))
    BY <1>1, <1>6
  <2>2. PartRead(item, k + 1) = [name |-> item.name, args |-> A(k), retval |-> parse_arg(p)]
    BY <1>3, <1>4, <2>1
  <2> HIDE DEF v
  <2>3. [PartRead(item, k) EXCEPT !.retval = parse_arg(p)]
          = [name |-> item.name, args |-> A(k), retval |-> parse_arg(p)]
    BY <1>0
  <2>4. PartRead(item, k + 1) = [PartRead(item, k) EXCEPT !.retval = parse_arg(p)]
    BY <2>2, <2>3, Zenon
  <2> QED
    BY <1>6, <2>4 DEF WithPart
<1>7. CASE p.tag \notin {"arg", "retval"}
  <2>1. A(k + 1) = A(k) /\ R(k + 1) = R(k)
    BY <1>1, <1>7
  <2>2. PartRead(item, k + 1) = PartRead(item, k)
    BY <1>3, <2>1
  <2> QED
    BY <1>7, <2>2 DEF WithPart
<1> QED
  BY <1>5, <1>6, <1>7

\* One that was read to its end is the declaration.
LEMMA PartReadAll ==
  ASSUME NEW item, item.children \in Seq(Inside(item)), None \notin {parse_arg(p) : p \in Tagged(item, "retval")}
  PROVE  finish(PartRead(item, Len(item.children))) = Declared(item)
<1> DEFINE A == Parts(item, Len(item.children), "arg")
           R == Parts(item, Len(item.children), "retval")
           S == {parse_arg(p) : p \in Tagged(item, "retval")}
<1>0. Len(item.children) \in 0..Len(item.children)
  OBVIOUS
<1>1. R \in Seq(S) /\ None \notin S
  BY <1>0, PartsSeq
<1>2. Declared(item) = [name |-> item.name, args |-> A, retval |-> IF R = <<>> THEN void ELSE Last(R)]
  BY DEF Declared
<1>3. PartRead(item, Len(item.children)) =
        [name |-> item.name, args |-> A, retval |-> IF R = <<>> THEN None ELSE Last(R)]
  BY DEF PartRead
<1> HIDE DEF A, R, S
<1>4. CASE R = <<>>
  BY <1>2, <1>3, <1>4 DEF finish
<1>5. CASE R # <<>>
  <2>1. Last(R) # None
    BY <1>1, <1>5 DEF Last
  <2> QED
    BY <1>2, <1>3, <1>5, <2>1 DEF finish
<1> QED
  BY <1>4, <1>5

\* The declarations, with one item more.
LEMMA DeclarationsNext ==
  ASSUME Items \in Seq(Inside(document)), NEW n \in 0..(Len(Items) - 1)
  PROVE  Declarations(n + 1) = IF LeftOut(Items[n + 1]) THEN Declarations(n)
                               ELSE Append(Declarations(n), Declared(Items[n + 1]))
<1> DEFINE S == {Declared(item) : item \in Inside(document)}
           e(i) == IF LeftOut(document.children[i]) THEN <<>> ELSE <<Declared(document.children[i])>>
           f == [i \in 1..(n + 1) |-> e(i)]
           g == [i \in 1..n |-> e(i)]
<1>1. n \in Nat /\ n + 1 \in 1..Len(Items)
  BY DEF Items
<1>2. \A i \in 1..(n + 1) : Declared(document.children[i]) \in S
  <2>1. \A i \in 1..(n + 1) : i \in DOMAIN document.children
    BY <1>1 DEF Items
  <2> QED
    BY <2>1, Zenon DEF Inside
<1>3. Declarations(n + 1) = FlattenSeq(f) /\ Declarations(n) = FlattenSeq(g)
  BY DEF Declarations
<1> HIDE DEF S
<1>4. \A i \in 1..(n + 1) : e(i) \in Seq(S)
  BY <1>2
<1>5. e(n + 1) = IF LeftOut(Items[n + 1]) THEN <<>> ELSE <<Declared(Items[n + 1])>>
  BY DEF Items
<1>6. Declared(Items[n + 1]) \in S
  BY <1>1, <1>2 DEF Items
<1> HIDE DEF e
<1>7. /\ f \in [1..(n + 1) -> Seq(S)] /\ f[n + 1] = e(n + 1) /\ g = [i \in 1..n |-> f[i]]
      /\ g \in Seq(Seq(S)) /\ e(n + 1) \in Seq(S)
  BY <1>1, <1>4
<1> HIDE DEF f, g
<1>8. FlattenSeq(f) = FlattenSeq(g) \o e(n + 1)
  BY <1>1, <1>7, FlattenNext
<1>9. FlattenSeq(g) \in Seq(S)
  BY <1>7, FlattenAppend
<1>10. CASE LeftOut(Items[n + 1])
  <2>1. e(n + 1) = <<>>
    BY <1>5, <1>10, Zenon
  <2>2. FlattenSeq(g) \o e(n + 1) = FlattenSeq(g)
    BY <1>9, <2>1
  <2>3. Declarations(n + 1) = Declarations(n)
    BY <1>3, <1>8, <2>2, Zenon
  <2> QED
    BY <1>10, <2>3, Zenon
<1>11. CASE ~LeftOut(Items[n + 1])
  <2>1. e(n + 1) = <<Declared(Items[n + 1])>>
    BY <1>5, <1>11, Zenon
  <2>2. \A s \in Seq(S), a \in S : s \o <<a>> = Append(s, a)
    OBVIOUS
  <2>3. FlattenSeq(g) \o e(n + 1) = Append(FlattenSeq(g), Declared(Items[n + 1]))
    BY <1>6, <1>9, <2>1, <2>2, Zenon
  <2>4. Declarations(n + 1) = Append(Declarations(n), Declared(Items[n + 1]))
    BY <1>3, <1>8, <2>3, Zenon
  <2> QED
    BY <1>11, <2>4, Zenon
<1> QED
  BY <1>10, <1>11

\* Before the first item there are none.
LEMMA DeclarationsNone == Declarations(0) = <<>>
<1>1. [i \in 1..0 |-> IF LeftOut(document.children[i]) THEN <<>>
                      ELSE <<Declared(document.children[i])>>] = <<>>
  OBVIOUS
<1> QED
  BY <1>1, FlattenEmpty DEF Declarations

-----------------------------------------------------------------------------
\* Items of the root that have ended when the elements o are open.
EndedOf(o) ==
  IF Len(o) > 1 THEN o[Len(o) - 1].read - (IF Len(o) > 2 THEN 1 ELSE 0)
  ELSE IF o = <<File(0)>> THEN 0 ELSE Len(Items)

SaidAfter(n) == IF document.tag = "signatures" THEN Declarations(n) ELSE <<>>

\* What was said now and after a step.
LEMMA SaidNowAndThen ==
  /\ Said = SaidAfter(EndedOf(open))
  /\ document' = document => Said' = SaidAfter(EndedOf(open'))
<1>1. Beginning = <<File(0)>>
  BY DEF Beginning, Opened, File, At
<1>2. Said = SaidAfter(EndedOf(open))
  BY <1>1 DEF Said, SaidAfter, EndedOf, ItemsRead, Items
<1>3. ASSUME document' = document PROVE Said' = SaidAfter(EndedOf(open'))
  <2>1. Beginning' = <<File(0)>>
    BY <1>3 DEF Beginning, Opened, File, At
  <2>2. \A n : Declarations(n)' = Declarations(n)
    BY <1>3 DEF Declarations
  <2>3. ItemsRead' = EndedOf(open')
    BY <1>3, <2>1 DEF EndedOf, ItemsRead, Items
  <2> QED
    BY <1>3, <2>2, <2>3 DEF Said, SaidAfter
<1> QED
  BY <1>2, <1>3

\* Of each place.
LEMMA Ended ==
  /\ EndedOf(<<File(0)>>) = 0
  /\ EndedOf(<<File(1)>>) = Len(Items)
  /\ \A n \in Nat : /\ EndedOf(<<At(document, n), File(1)>>) = n
                    /\ \A x : EndedOf(<<x, At(document, n), File(1)>>) = n - 1
                    /\ \A x, y : EndedOf(<<y, x, At(document, n), File(1)>>) = n - 1
<1>1. EndedOf(<<File(0)>>) = 0
  BY DEF EndedOf
<1>2. EndedOf(<<File(1)>>) = Len(Items)
  <2>0. File(1).read = 1 /\ File(0).read = 0
    BY DEF File, At
  <2>1. <<File(1)>> # <<File(0)>>
    BY <2>0
  <2> QED
    BY <2>1 DEF EndedOf
<1>3. ASSUME NEW n \in Nat, NEW x, NEW y
      PROVE  /\ EndedOf(<<At(document, n), File(1)>>) = n
             /\ EndedOf(<<x, At(document, n), File(1)>>) = n - 1
             /\ EndedOf(<<y, x, At(document, n), File(1)>>) = n - 1
  <2>1. At(document, n).read = n
    BY DEF At
  <2>2. \A a, b : /\ EndedOf(<<a, b>>) = a.read - 0
                  /\ \A c : /\ EndedOf(<<c, a, b>>) = a.read - 1
                            /\ \A d : EndedOf(<<d, c, a, b>>) = a.read - 1
    BY DEF EndedOf
  <2> QED
    BY <2>1, <2>2
<1> QED
  BY <1>1, <1>2, <1>3

\* One event: the next child begins, or the element ends.
LEMMA EventOf ==
  ASSUME NEW node, NEW r \in 0..Len(node.children), Len(node.children) \in Nat, Head(open) = At(node, r),
         NEW event \in {"Start", "Empty", "End"}, NextEvent(event)
  PROVE  /\ r < Len(node.children) =>
              /\ Node = node.children[r + 1]
              /\ event = "Empty" => /\ Node.short /\ Node.children = <<>>
                                    /\ open' = <<At(node, r + 1)>> \o Tail(open)
              /\ event # "Empty" => /\ event = "Start"
                                    /\ ~(Node.short /\ Node.children = <<>>)
                                    /\ open' = <<At(Node, 0)>> \o (<<At(node, r + 1)>> \o Tail(open))
         /\ r = Len(node.children) => /\ event = "End" /\ Len(open) > 1 /\ Node = node /\ open' = Tail(open)
<1>1. Head(open).read = r /\ Head(open).node = node
  BY DEF At
<1>2. [Head(open) EXCEPT !.read = @ + 1] = At(node, r + 1)
  BY DEF At
<1>3. open' = CASE event = "Start" -> <<At(Node, 0)>> \o (<<At(node, r + 1)>> \o Tail(open))
                [] event = "Empty" -> <<At(node, r + 1)>> \o Tail(open)
                [] event = "End" -> Tail(open)
  BY <1>2 DEF NextEvent, Opened, At
<1>4. event = Event
  BY DEF NextEvent
<1>5. CASE r < Len(node.children)
  <2>1. HasChild /\ Node = node.children[r + 1]
    BY <1>1, <1>5 DEF HasChild, Node
  <2> QED
    BY <1>3, <1>4, <1>5, <2>1 DEF Event
<1>6. CASE r = Len(node.children)
  <2>1. ~HasChild /\ Node = node
    BY <1>1, <1>6 DEF HasChild, Node
  <2> QED
    BY <1>3, <1>4, <1>6, <2>1 DEF Event
<1> QED
  BY <1>5, <1>6

ReaderStep ==
  StartSignatures \/ StartFunction \/ StartPart \/ EmptyPart \/ EndFunction \/ EndOther

\* What places claim of an item.
LEMMA ItemIs ==
  ASSUME DocumentInv, Plain, NEW n \in 1..Len(Items)
  PROVE  /\ Len(Items) \in Nat /\ Items \in Seq(Inside(document))
         /\ Items[n] \in Inside(document)
         /\ Items[n].tag # "signatures"
         /\ Items[n].children \in Seq(Inside(Items[n]))
         /\ \A k \in 1..Len(Items[n].children) :
              LET part == Items[n].children[k]
              IN  part.tag \notin {"signatures", "function"} /\ part.children = <<>>
         /\ Items[n].tag = "function" =>
              /\ \A k \in 0..Len(Items[n].children) : PartRead(Items[n], k) # None
              /\ None \notin {parse_arg(p) : p \in Tagged(Items[n], "retval")}
<1>1. document \in Documents
  BY DEF DocumentInv
<1>2. Items \in Seq(Inside(document))
  BY <1>1, DocumentsAssumption DEF Items
<1>3. Items[n] \in Inside(document)
  BY <1>2
<1> DEFINE item == Items[n]
<1>4. /\ item.tag # "signatures"
      /\ item.children \in Seq(Inside(item))
      /\ item.tag = "function" => \A k \in 0..Len(item.children) : PartRead(item, k) # None
      /\ \A part \in Inside(item) :
           /\ part.tag # "signatures"
           /\ item.tag = "function" /\ part.tag \in {"arg", "retval"} => parse_arg(part) # None
  BY <1>1, <1>3, DocumentsAssumption
<1>5. \A part \in Inside(item) : part.tag # "function" /\ part.children = <<>>
  BY <1>3 DEF Plain
<1> HIDE DEF item
<1>6. \A k \in 1..Len(item.children) : item.children[k] \in Inside(item)
  BY <1>4
<1>7. item.tag = "function" => None \notin {parse_arg(p) : p \in Tagged(item, "retval")}
  BY <1>4, Zenon DEF Tagged
<1> QED
  BY <1>2, <1>3, <1>4, <1>5, <1>6, <1>7 DEF item

\* From before or after the root.
LEMMA FromOutside ==
  ASSUME DocumentInv, Plain, parsing = "reads", functions = Said, Outside, ReaderStep, parsing' = "reads"
  PROVE  Place' /\ functions' = Said'
<1>1. document' = document /\ document \in Documents
  BY DEF DocumentInv, ReaderStep, StartSignatures, StartFunction, StartPart, EmptyPart, EndFunction, EndOther
<1>2. Items \in Seq(Inside(document)) /\ Len(Items) \in Nat
  BY <1>1, DocumentsAssumption DEF Items
<1>3. PICK event \in {"Start", "Empty", "End"} : NextEvent(event)
  BY DEF ReaderStep, StartSignatures, StartFunction, StartPart, EmptyPart, EndFunction, EndOther
<1> DEFINE file == [tag |-> "", children |-> <<document>>]
<1>4. \A r : File(r) = At(file, r) /\ File(r)' = File(r)
  BY <1>1 DEF File, At
<1>5. file.children = <<document>>
  OBVIOUS
<1> HIDE DEF file
<1>6. PICK r \in 0..1 : open = <<At(file, r)>>
  BY <1>4 DEF Outside
<1>7. Head(open) = At(file, r) /\ Tail(open) = <<>> /\ Len(open) = 1
  BY <1>6
<1>8. /\ r < Len(file.children) =>
           /\ Node = file.children[r + 1]
           /\ event = "Empty" => /\ Node.short /\ Node.children = <<>>
                                 /\ open' = <<At(file, r + 1)>> \o Tail(open)
           /\ event # "Empty" => /\ event = "Start"
                                 /\ ~(Node.short /\ Node.children = <<>>)
                                 /\ open' = <<At(Node, 0)>> \o (<<At(file, r + 1)>> \o Tail(open))
      /\ r = Len(file.children) => /\ event = "End" /\ Len(open) > 1 /\ Node = file /\ open' = Tail(open)
  <2>1. r \in 0..Len(file.children) /\ Len(file.children) \in Nat
    BY <1>5
  <2> QED
    BY <1>3, <1>7, <2>1, EventOf
<1>81. r = 0 /\ Len(file.children) = 1 /\ r + 1 = 1
  BY <1>5, <1>7, <1>8
<1>9. /\ Node = document
      /\ event = "Empty" => document.children = <<>> /\ open' = <<File(1)>>
      /\ event # "Empty" => event = "Start" /\ open' = <<At(document, 0), File(1)>>
  <2>1. Node = document
    BY <1>5, <1>8, <1>81
  <2>2. \A x, y : <<x>> \o <<>> = <<x>> /\ <<y>> \o (<<x>> \o <<>>) = <<y, x>>
    BY Ahead
  <2>3. r < Len(file.children)
    BY <1>81
  <2>4. /\ event = "Empty" => Node.children = <<>> /\ open' = <<At(file, 1)>> \o <<>>
        /\ event # "Empty" => event = "Start" /\ open' = <<At(Node, 0)>> \o (<<At(file, 1)>> \o <<>>)
    BY <1>7, <1>8, <1>81, <2>3, Zenon
  <2> QED
    BY <1>4, <2>1, <2>2, <2>4, Zenon
<1>10. ~in_signatures /\ cur_fn = None
  BY DEF Outside
<1>11. Said = SaidAfter(0)
  BY <1>4, <1>6, <1>81, SaidNowAndThen, Ended
<1>12. CASE event = "Empty"
  <2>1. EmptyPart
    BY <1>3, <1>12 DEF ReaderStep, StartSignatures, StartFunction, StartPart, EndFunction, EndOther, NextEvent
  <2>2. cur_fn' = None /\ functions' = functions /\ in_signatures' = in_signatures
    BY <1>10, <2>1 DEF EmptyPart, Part
  <2>3. Len(Items) = 0 /\ open' = <<File(1)>>
    BY <1>9, <1>12 DEF Items
  <2>4. Said' = SaidAfter(0)
    BY <1>1, <2>3, SaidNowAndThen, Ended
  <2>5. Outside'
    BY <1>4, <1>10, <2>2, <2>3 DEF Outside
  <2> QED
    BY <1>11, <2>2, <2>4, <2>5 DEF Place
<1>13. CASE event = "Start"
  <2>1. StartSignatures \/ StartFunction \/ StartPart
    BY <1>3, <1>13 DEF ReaderStep, EmptyPart, EndFunction, EndOther, NextEvent
  <2>2. ~StartFunction
    BY <1>10 DEF StartFunction, IsFunction
  <2>3. cur_fn' = None /\ functions' = functions /\ (in_signatures' <=> document.tag = "signatures")
    BY <1>9, <1>10, <2>1, <2>2 DEF StartSignatures, StartPart, Part
  <2>4. open' = <<At(document, 0), File(1)>>
    BY <1>9, <1>13
  <2>5. Said' = SaidAfter(0)
    BY <1>1, <2>4, SaidNowAndThen, Ended
  <2>6. InRoot(0)'
    BY <1>1, <1>4, <2>3, <2>4 DEF InRoot, At
  <2>7. 0 \in 0..Len(Items)'
    BY <1>1, <1>2 DEF Items
  <2> QED
    BY <1>11, <2>3, <2>5, <2>6, <2>7 DEF Place
<1> QED
  BY <1>9, <1>12, <1>13

\* From an item of the root, or its end.
LEMMA FromRoot ==
  ASSUME DocumentInv, Plain, parsing = "reads", functions = Said, NEW n \in 0..Len(Items), InRoot(n),
         ReaderStep, parsing' = "reads"
  PROVE  Place' /\ functions' = Said'
<1>1. document' = document /\ document \in Documents
  BY DEF DocumentInv, ReaderStep, StartSignatures, StartFunction, StartPart, EmptyPart, EndFunction, EndOther
<1>2. Items \in Seq(Inside(document)) /\ Len(Items) \in Nat /\ document.children = Items /\ Items' = Items
  BY <1>1, DocumentsAssumption DEF Items
<1>3. PICK event \in {"Start", "Empty", "End"} : NextEvent(event)
  BY DEF ReaderStep, StartSignatures, StartFunction, StartPart, EmptyPart, EndFunction, EndOther
<1> DEFINE file == File(1)
<1>4. File(1)' = file
  BY <1>1 DEF File, At
<1>5. Head(open) = At(document, n) /\ Tail(open) = <<file>>
  BY DEF InRoot
<1>6. /\ n < Len(document.children) =>
           /\ Node = document.children[n + 1]
           /\ event = "Empty" => /\ Node.short /\ Node.children = <<>>
                                 /\ open' = <<At(document, n + 1)>> \o Tail(open)
           /\ event # "Empty" => /\ event = "Start"
                                 /\ ~(Node.short /\ Node.children = <<>>)
                                 /\ open' = <<At(Node, 0)>> \o (<<At(document, n + 1)>> \o Tail(open))
      /\ n = Len(document.children) =>
           /\ event = "End" /\ Len(open) > 1 /\ Node = document /\ open' = Tail(open)
  <2>1. n \in 0..Len(document.children) /\ Len(document.children) \in Nat
    BY <1>2
  <2> QED
    BY <1>3, <1>5, <2>1, EventOf
<1>7. (in_signatures <=> document.tag = "signatures") /\ cur_fn = None
  BY DEF InRoot
<1>8. Said = SaidAfter(n) /\ n \in Nat
  <2>1. n \in Nat /\ open = <<At(document, n), File(1)>>
    BY DEF InRoot
  <2>2. EndedOf(open) = n
    BY <2>1, Ended
  <2> QED
    BY <2>1, <2>2, SaidNowAndThen
<1> HIDE DEF file
<1>9. CASE n < Len(Items)
  <2> DEFINE item == Items[n + 1]
  <2>1. n + 1 \in 1..Len(Items) /\ n + 1 \in 0..Len(Items) /\ n + 1 \in Nat /\ n \in 0..(Len(Items) - 1)
        /\ (n + 1) - 1 = n
    BY <1>2, <1>9
  <2>2. item.tag # "signatures" /\ Len(item.children) \in Nat
    BY <2>1, ItemIs
  <2>3. Declarations(n + 1) = IF LeftOut(item) THEN Declarations(n) ELSE Append(Declarations(n), Declared(item))
    BY <1>2, <2>1, DeclarationsNext
  <2>4. Node = item
    BY <1>2, <1>6, <1>9
  <2> HIDE DEF item
  <2>5. CASE event = "Empty"
    <3>1. EmptyPart
      BY <1>3, <2>5 DEF ReaderStep, StartSignatures, StartFunction, StartPart, EndFunction, EndOther, NextEvent
    <3>2. cur_fn' = None /\ functions' = functions /\ in_signatures' = in_signatures
      BY <1>7, <3>1 DEF EmptyPart, Part
    <3>3. LeftOut(item)
      BY <1>2, <1>6, <1>9, <2>4, <2>5 DEF LeftOut
    <3>4. open' = <<At(document, n + 1), file>>
      <4>1. open' = <<At(document, n + 1)>> \o <<file>>
        BY <1>2, <1>5, <1>6, <1>9, <2>5
      <4> QED
        BY <4>1, Ahead
    <3>5. Said' = SaidAfter(n + 1)
      <4>1. EndedOf(open') = n + 1
        BY <2>1, <3>4, Ended DEF file
      <4> QED
        BY <1>1, <4>1, SaidNowAndThen
    <3>6. SaidAfter(n + 1) = SaidAfter(n)
      BY <2>3, <3>3 DEF SaidAfter
    <3>7. InRoot(n + 1)'
      <4>1. At(document, n + 1)' = At(document, n + 1)
        BY <1>1 DEF At
      <4> QED
        BY <1>1, <1>4, <1>7, <3>2, <3>4, <4>1 DEF InRoot
    <3>8. n + 1 \in 0..Len(Items)'
      BY <1>2, <2>1
    <3> QED
      BY <1>8, <3>2, <3>5, <3>6, <3>7, <3>8 DEF Place
  <2>6. CASE event = "Start"
    <3>1. StartFunction \/ StartPart
      BY <1>3, <2>2, <2>4, <2>6 DEF ReaderStep, StartSignatures, EmptyPart, EndFunction, EndOther, NextEvent
    <3>2. functions' = functions /\ in_signatures' = in_signatures
      BY <3>1 DEF StartFunction, StartPart
    <3>3. cur_fn' = IF in_signatures /\ item.tag = "function" THEN PartRead(item, 0) ELSE None
      <4>1. CASE StartFunction
        <5>1. in_signatures /\ item.tag = "function"
          BY <2>4, <4>1 DEF StartFunction, IsFunction
        <5>2. cur_fn' = [name |-> item.name, args |-> <<>>, retval |-> None]
          BY <2>4, <4>1 DEF StartFunction
        <5> QED
          BY <5>1, <5>2, PartReadNone
      <4>2. CASE StartPart
        <5>1. ~(in_signatures /\ item.tag = "function")
          BY <2>4, <4>2 DEF StartPart, IsFunction
        <5>2. cur_fn' = None
          BY <1>7, <4>2 DEF StartPart, Part
        <5> QED
          BY <5>1, <5>2
      <4> QED
        BY <3>1, <4>1, <4>2
    <3>4. open' = <<At(item, 0), At(document, n + 1), file>>
      <4>1. open' = <<At(item, 0)>> \o (<<At(document, n + 1)>> \o <<file>>)
        BY <1>2, <1>5, <1>6, <1>9, <2>4, <2>6
      <4>2. <<At(document, n + 1)>> \o <<file>> = <<At(document, n + 1), file>>
        BY Ahead
      <4>3. <<At(item, 0)>> \o <<At(document, n + 1), file>> = <<At(item, 0), At(document, n + 1), file>>
        BY Ahead
      <4> QED
        BY <4>1, <4>2, <4>3, Zenon
    <3>5. Said' = SaidAfter(n)
      <4>1. EndedOf(open') = n
        BY <2>1, <3>4, Ended DEF file
      <4> QED
        BY <1>1, <4>1, SaidNowAndThen
    <3>6. HasParts(item, 0)'
      <4>1. ~(item.short /\ item.children = <<>>)
        BY <1>2, <1>6, <1>9, <2>4, <2>6
      <4>2. PartRead(item, 0)' = PartRead(item, 0) /\ item' = item
        BY <1>2 DEF PartRead, item
      <4>3. (in_signatures' <=> document'.tag = "signatures")
        BY <1>1, <1>7, <3>2
      <4> QED
        BY <3>2, <3>3, <4>1, <4>2, <4>3 DEF HasParts
    <3>7. InItem(n + 1, 0)'
      <4>1. At(document, n + 1)' = At(document, n + 1) /\ At(Items[n + 1], 0)' = At(item, 0) /\ item' = item
        BY <1>1, <1>2 DEF At, item
      <4> QED
        BY <1>2, <1>4, <3>4, <3>6, <4>1 DEF InItem, item
    <3>8. n + 1 \in 1..Len(Items)' /\ 0 \in 0..Len(Items[n + 1].children)'
      BY <1>2, <2>1, <2>2 DEF item
    <3> QED
      BY <1>8, <3>2, <3>5, <3>7, <3>8 DEF Place
  <2> QED
    BY <1>2, <1>6, <1>9, <2>5, <2>6
<1>10. CASE n = Len(Items)
  <2>1. event = "End" /\ Node = document /\ open' = <<file>>
    BY <1>2, <1>5, <1>6, <1>10
  <2>2. EndOther
    BY <1>3, <2>1 DEF Plain, ReaderStep, StartSignatures, StartFunction, StartPart, EmptyPart, EndFunction,
       EndOther, NextEvent
  <2>3. functions' = functions /\ cur_fn' = None /\ ~in_signatures'
    BY <1>7, <2>1, <2>2 DEF EndOther
  <2>4. Said' = SaidAfter(n)
    <3>1. EndedOf(open') = n
      BY <1>10, <2>1, Ended DEF file
    <3> QED
      BY <1>1, <3>1, SaidNowAndThen
  <2>5. Outside'
    BY <1>4, <2>1, <2>3 DEF Outside
  <2> QED
    BY <1>8, <2>3, <2>4, <2>5 DEF Place
<1> QED
  BY <1>9, <1>10

\* One part more: the function that was begun gets it.
LEMMA OnePartMore ==
  ASSUME DocumentInv, Plain, NEW n \in 1..Len(Items), NEW k \in 0..(Len(Items[n].children) - 1),
         HasParts(Items[n], k), Node = Items[n].children[k + 1], Part(Node),
         in_signatures' = in_signatures, document' = document
  PROVE  HasParts(Items[n], k + 1)'
<1> DEFINE item == Items[n]
           part == item.children[k + 1]
<1>1. /\ item.children \in Seq(Inside(item))
      /\ item.tag = "function" => \A j \in 0..Len(item.children) : PartRead(item, j) # None
      /\ k \in 0..Len(item.children) /\ k \in 0..(Len(item.children) - 1)
  BY ItemIs
<1>2. item' = item
  BY DEF Items
<1>3. Node = part
  OBVIOUS
<1> HIDE DEF item
<1>4. PartRead(item, k + 1) = WithPart(PartRead(item, k), part)
  BY <1>1, PartReadNext
<1> HIDE DEF part
<1>5. cur_fn = IF in_signatures /\ item.tag = "function" THEN PartRead(item, k) ELSE None
  BY DEF HasParts, item
<1>6. cur_fn' = IF in_signatures /\ item.tag = "function" THEN PartRead(item, k + 1) ELSE None
  <2>1. CASE in_signatures /\ item.tag = "function"
    <3>1. cur_fn = PartRead(item, k) /\ cur_fn # None
      BY <1>1, <1>5, <2>1
    <3>2. cur_fn' = WithPart(cur_fn, part)
      BY <1>3, <3>1 DEF Part, WithPart
    <3> QED
      BY <1>4, <2>1, <3>1, <3>2
  <2>2. CASE ~(in_signatures /\ item.tag = "function")
    BY <1>5, <2>2 DEF Part
  <2> QED
    BY <2>1, <2>2
<1>7. PartRead(item, k + 1)' = PartRead(item, k + 1)
  BY <1>2 DEF PartRead
<1>8. HasParts(item, k + 1)'
  BY <1>2, <1>6, <1>7 DEF HasParts, item
<1> QED
  BY <1>8 DEF item

\* From a part of an item, or its end.
LEMMA FromItem ==
  ASSUME DocumentInv, Plain, parsing = "reads", functions = Said, NEW n \in 1..Len(Items),
         NEW k \in 0..Len(Items[n].children), InItem(n, k), ReaderStep, parsing' = "reads"
  PROVE  Place' /\ functions' = Said'
<1> DEFINE item == Items[n]
           file == File(1)
           here == At(document, n)
<1>1. document' = document /\ Items' = Items /\ item' = item /\ file' = file /\ here' = here
  <2>1. document' = document
    BY DEF ReaderStep, StartSignatures, StartFunction, StartPart, EmptyPart, EndFunction, EndOther
  <2> QED
    BY <2>1 DEF Items, File, At
<1>2. /\ Len(Items) \in Nat /\ Items \in Seq(Inside(document))
      /\ item.tag # "signatures"
      /\ item.children \in Seq(Inside(item)) /\ Len(item.children) \in Nat
      /\ \A j \in 1..Len(item.children) : item.children[j].tag \notin {"signatures", "function"}
      /\ item.tag = "function" =>
           /\ \A j \in 0..Len(item.children) : PartRead(item, j) # None
           /\ None \notin {parse_arg(p) : p \in Tagged(item, "retval")}
  <2>1. item.children \in Seq(Inside(item))
    BY ItemIs
  <2>2. Len(item.children) \in Nat
    BY <2>1
  <2>3. \A j \in 1..Len(item.children) : item.children[j].tag \notin {"signatures", "function"}
    BY ItemIs
  <2>4. /\ Len(Items) \in Nat /\ Items \in Seq(Inside(document))
        /\ item.tag # "signatures"
        /\ item.tag = "function" =>
             /\ \A j \in 0..Len(item.children) : PartRead(item, j) # None
             /\ None \notin {parse_arg(p) : p \in Tagged(item, "retval")}
    BY ItemIs
  <2> QED
    BY <2>1, <2>2, <2>3, <2>4
<1>3. PICK event \in {"Start", "Empty", "End"} : NextEvent(event)
  BY DEF ReaderStep, StartSignatures, StartFunction, StartPart, EmptyPart, EndFunction, EndOther
<1>4. Head(open) = At(item, k) /\ Tail(open) = <<here, file>> /\ HasParts(item, k)
  BY DEF InItem
<1>5. Said = SaidAfter(n - 1) /\ n \in Nat /\ n - 1 \in 0..(Len(Items) - 1) /\ (n - 1) + 1 = n
      /\ n \in 1..Len(Items)
  <2>1. n \in Nat /\ open = <<At(item, k), At(document, n), File(1)>>
    BY DEF InItem
  <2>2. EndedOf(open) = n - 1
    BY <2>1, Ended
  <2> QED
    BY <1>2, <2>1, <2>2, SaidNowAndThen
<1>6. k \in 0..Len(item.children)
  OBVIOUS
<1>7. EndedOf(<<here, file>>) = n /\ \A x, y : EndedOf(<<x, here, file>>) = n - 1 /\ EndedOf(<<y, x, here, file>>) = n - 1
  BY <1>5, Ended
<1>8. /\ \A r, j : HasParts(item, j)' /\ open' = <<At(item, j), here, file>> => InItem(n, j)'
      /\ \A j : HasParts(item, j)' /\ open' = <<At(item.children[j], 0), At(item, j), here, file>> => InPart(n, j)'
      /\ (in_signatures' <=> in_signatures) /\ cur_fn' = None /\ open' = <<here, file>> => InRoot(n)'
  <2>1. \A x, y : At(x, y)' = At(x, y)
    BY DEF At
  <2>2. in_signatures <=> document.tag = "signatures"
    BY <1>4 DEF HasParts
  <2> QED
    BY <1>1, <2>1, <2>2 DEF InItem, InPart, InRoot
<1>9. /\ \A j \in 0..Len(item.children) : InItem(n, j)' => Place'
      /\ \A j \in 1..Len(item.children) : InPart(n, j)' => Place'
      /\ InRoot(n)' => Place'
  BY <1>1, <1>2, <1>5 DEF Place
<1>10. /\ k < Len(item.children) =>
            /\ Node = item.children[k + 1]
            /\ event = "Empty" => /\ Node.short /\ Node.children = <<>>
                                  /\ open' = <<At(item, k + 1)>> \o Tail(open)
            /\ event # "Empty" => /\ event = "Start"
                                  /\ ~(Node.short /\ Node.children = <<>>)
                                  /\ open' = <<At(Node, 0)>> \o (<<At(item, k + 1)>> \o Tail(open))
       /\ k = Len(item.children) =>
            /\ event = "End" /\ Len(open) > 1 /\ Node = item /\ open' = Tail(open)
  <2> HIDE DEF item
  <2> QED
    BY <1>2, <1>3, <1>4, <1>6, EventOf
<1>11. CASE k < Len(item.children)
  <2>1. /\ k \in 0..(Len(item.children) - 1) /\ k + 1 \in 1..Len(item.children)
        /\ k + 1 \in 0..Len(item.children)
    BY <1>2, <1>6, <1>11
  <2>2. Node = item.children[k + 1] /\ Node.tag \notin {"signatures", "function"}
    BY <1>2, <1>10, <1>11, <2>1, SMTT(30)
  <2>3. EmptyPart \/ StartPart
    <3>1. event # "End"
      BY <1>10, <1>11
    <3> QED
      BY <1>3, <2>2, <3>1 DEF ReaderStep, StartSignatures, StartFunction, IsFunction, EndFunction, EndOther, NextEvent
  <2>4. Part(Node) /\ functions' = functions /\ in_signatures' = in_signatures
    BY <2>3 DEF EmptyPart, StartPart
  <2>5. HasParts(item, k + 1)'
    BY <1>1, <1>4, <2>1, <2>2, <2>4, OnePartMore
  <2> HIDE DEF item, here, file
  <2>6. CASE event = "Empty"
    <3>1. open' = <<At(item, k + 1), here, file>>
      <4>1. open' = <<At(item, k + 1)>> \o <<here, file>>
        BY <1>4, <1>10, <1>11, <2>6
      <4>2. <<At(item, k + 1)>> \o <<here, file>> = <<At(item, k + 1), here, file>>
        BY Ahead
      <4> QED
        BY <4>1, <4>2, Zenon
    <3>2. Said' = SaidAfter(n - 1)
      BY <1>1, <1>7, <3>1, SaidNowAndThen
    <3>3. Place'
      BY <1>8, <1>9, <2>1, <2>5, <3>1
    <3> QED
      BY <1>5, <2>4, <3>2, <3>3
  <2>7. CASE event = "Start"
    <3>1. open' = <<At(item.children[k + 1], 0), At(item, k + 1), here, file>>
      <4>1. open' = <<At(item.children[k + 1], 0)>> \o (<<At(item, k + 1)>> \o <<here, file>>)
        BY <1>4, <1>10, <1>11, <2>2, <2>7
      <4>2. <<At(item, k + 1)>> \o <<here, file>> = <<At(item, k + 1), here, file>>
        BY Ahead
      <4>3. <<At(item.children[k + 1], 0)>> \o <<At(item, k + 1), here, file>>
              = <<At(item.children[k + 1], 0), At(item, k + 1), here, file>>
        BY AheadOfThree, Zenon
      <4> QED
        BY <4>1, <4>2, <4>3, Zenon
    <3>2. Said' = SaidAfter(n - 1)
      BY <1>1, <1>7, <3>1, SaidNowAndThen
    <3>3. Place'
      BY <1>8, <1>9, <2>1, <2>5, <3>1
    <3> QED
      BY <1>5, <2>4, <3>2, <3>3
  <2> QED
    BY <1>10, <1>11, <2>6, <2>7
<1>12. CASE k = Len(item.children)
  <2>1. event = "End" /\ Node = item /\ open' = <<here, file>>
    BY <1>4, <1>10, <1>12
  <2>2. Said' = SaidAfter(n)
    BY <1>1, <1>7, <2>1, SaidNowAndThen
  <2>3. Declarations(n) = IF LeftOut(item) THEN Declarations(n - 1) ELSE Append(Declarations(n - 1), Declared(item))
    <3>1. Declarations((n - 1) + 1) = IF LeftOut(Items[(n - 1) + 1]) THEN Declarations(n - 1)
                                      ELSE Append(Declarations(n - 1), Declared(Items[(n - 1) + 1]))
      BY <1>2, <1>5, DeclarationsNext
    <3> QED
      BY <1>5, <3>1
  <2>4. /\ in_signatures <=> document.tag = "signatures"
        /\ ~(item.short /\ item.children = <<>>)
        /\ cur_fn = IF in_signatures /\ item.tag = "function" THEN PartRead(item, k) ELSE None
    BY <1>4 DEF HasParts
  <2>5. EndFunction \/ EndOther
    BY <1>3, <2>1 DEF ReaderStep, StartSignatures, StartFunction, StartPart, EmptyPart, NextEvent
  <2> HIDE DEF item, here, file
  <2>6. CASE item.tag = "function"
    <3>1. EndFunction
      BY <2>1, <2>5, <2>6 DEF EndOther
    <3>2. /\ functions' = IF cur_fn = None THEN functions ELSE Append(functions, finish(cur_fn))
          /\ cur_fn' = None /\ in_signatures' = in_signatures
      BY <3>1 DEF EndFunction
    <3>3. functions' = SaidAfter(n)
      <4>1. CASE in_signatures
        <5>1. cur_fn = PartRead(item, k) /\ cur_fn # None
          BY <1>2, <1>6, <2>4, <2>6, <4>1
        <5>2. finish(cur_fn) = Declared(item)
          BY <1>2, <1>12, <2>6, <5>1, PartReadAll
        <5>3. ~LeftOut(item)
          BY <2>4, <2>6 DEF LeftOut
        <5> QED
          BY <1>5, <2>3, <2>4, <3>2, <4>1, <5>1, <5>2, <5>3 DEF SaidAfter
      <4>2. CASE ~in_signatures
        BY <1>5, <2>4, <3>2, <4>2 DEF SaidAfter
      <4> QED
        BY <4>1, <4>2
    <3>4. Place'
      BY <1>8, <1>9, <2>1, <3>2
    <3> QED
      BY <2>2, <3>3, <3>4
  <2>7. CASE item.tag # "function"
    <3>1. EndOther
      BY <2>1, <2>5, <2>7 DEF EndFunction
    <3>2. functions' = functions /\ cur_fn' = None /\ (in_signatures' <=> in_signatures)
      BY <1>2, <2>1, <2>4, <2>7, <3>1 DEF EndOther
    <3>3. SaidAfter(n) = SaidAfter(n - 1)
      BY <2>3, <2>7 DEF SaidAfter, LeftOut
    <3>4. Place'
      BY <1>8, <1>9, <2>1, <3>2
    <3> QED
      BY <1>5, <2>2, <3>2, <3>3, <3>4
  <2> QED
    BY <2>6, <2>7
<1> QED
  BY <1>6, <1>11, <1>12

\* From the end of a part that is not written short.
LEMMA FromPart ==
  ASSUME DocumentInv, Plain, parsing = "reads", functions = Said, NEW n \in 1..Len(Items),
         NEW k \in 1..Len(Items[n].children), InPart(n, k), ReaderStep, parsing' = "reads"
  PROVE  Place' /\ functions' = Said'
<1> DEFINE item == Items[n]
           file == File(1)
           here == At(document, n)
           part == item.children[k]
<1>1. document' = document /\ Items' = Items /\ item' = item /\ file' = file /\ here' = here
  <2>1. document' = document
    BY DEF ReaderStep, StartSignatures, StartFunction, StartPart, EmptyPart, EndFunction, EndOther
  <2> QED
    BY <2>1 DEF Items, File, At
<1>2. /\ part.tag \notin {"signatures", "function"} /\ part.children = <<>>
      /\ k \in 0..Len(item.children) /\ n \in Nat
  <2>1. \A j \in 1..Len(item.children) :
          item.children[j].tag \notin {"signatures", "function"} /\ item.children[j].children = <<>>
    BY ItemIs
  <2> QED
    BY <2>1
<1>3. PICK event \in {"Start", "Empty", "End"} : NextEvent(event)
  BY DEF ReaderStep, StartSignatures, StartFunction, StartPart, EmptyPart, EndFunction, EndOther
<1>4. Head(open) = At(part, 0) /\ Tail(open) = <<At(item, k), here, file>> /\ HasParts(item, k)
  BY DEF InPart
<1>5. EndedOf(open) = n - 1 /\ EndedOf(<<At(item, k), here, file>>) = n - 1
  BY <1>2, Ended, ZenonT(30) DEF InPart
<1>6. event = "End" /\ Node = part /\ open' = <<At(item, k), here, file>>
  <2> HIDE DEF part
  <2>1. 0 \in 0..Len(part.children) /\ Len(part.children) \in Nat /\ 0 = Len(part.children)
    BY <1>2
  <2>2. 0 = Len(part.children) => event = "End" /\ Len(open) > 1 /\ Node = part /\ open' = Tail(open)
    BY <1>3, <1>4, <2>1, EventOf
  <2> QED
    BY <1>4, <2>1, <2>2
<1>7. EndOther
  BY <1>2, <1>3, <1>6 DEF ReaderStep, StartSignatures, StartFunction, StartPart, EmptyPart, EndFunction, NextEvent
<1>8. functions' = functions /\ cur_fn' = cur_fn /\ (in_signatures' <=> in_signatures)
  BY <1>2, <1>6, <1>7 DEF EndOther
<1>9. Said' = Said
  BY <1>1, <1>5, <1>6, SaidNowAndThen
<1>10. InItem(n, k)'
  <2>1. HasParts(item, k)'
    <3>1. PartRead(item, k)' = PartRead(item, k)
      BY <1>1 DEF PartRead
    <3> QED
      BY <1>1, <1>4, <1>8, <3>1 DEF HasParts
  <2>2. At(item, k)' = At(item, k)
    BY <1>1 DEF At
  <2> QED
    BY <1>1, <1>6, <2>1, <2>2 DEF InItem
<1>11. Place'
  BY <1>1, <1>2, <1>10 DEF Place
<1> QED
  BY <1>8, <1>9, <1>11

\* A file that ends, where ever it does.
LEMMA FromEof ==
  ASSUME DocumentInv, Eof
  PROVE  DocumentInv'
<1>1. /\ parsing = "reads" /\ parsing' \in {"Ok", "UnexpectedRoot"}
      /\ parsing' = "Ok" => functions' = sort_by_name(functions)
      /\ document' = document /\ open' = open
  BY DEF Eof
<1>2. Plain' <=> Plain
  BY <1>1 DEF Plain
<1>3. Said' = Said
  BY <1>1, SaidNowAndThen
<1>4. Plain => functions = Said
  BY <1>1 DEF DocumentInv
<1>5. ReadsTheDocument'
  BY <1>1, <1>2, <1>3, <1>4 DEF ReadsTheDocument
<1> QED
  BY <1>1, <1>5 DEF DocumentInv

\* What is not of the reader leaves the document's functions.
LEMMA DocumentUnchanged ==
  ASSUME DocumentInv, UNCHANGED parserVars
  PROVE  DocumentInv'
<1>1. document' = document /\ open' = open /\ functions' = functions /\ parsing' = parsing
      /\ cur_fn' = cur_fn /\ in_signatures' = in_signatures
  BY DEF parserVars
<1>2. (Plain' <=> Plain) /\ Said' = Said
  BY <1>1, SaidNowAndThen DEF Plain
<1>3. Place' <=> Place
  BY <1>1 DEF Place, Outside, InRoot, InItem, InPart, HasParts, Items, File, At
<1>4. ReadsTheDocument'
  BY <1>1, <1>2 DEF DocumentInv, ReadsTheDocument
<1> QED
  BY <1>1, <1>2, <1>3, <1>4 DEF DocumentInv

\* The start: nothing was read and nothing is said.
LEMMA DocumentStarts == ShimInit => DocumentInv
<1> SUFFICES ASSUME ShimInit PROVE DocumentInv
  OBVIOUS
<1>1. ParserInit
  BY DEF ShimInit
<1>2. open = <<File(0)>>
  BY <1>1 DEF ParserInit, Beginning, Opened, File, At
<1>3. Said = <<>>
  BY <1>2, SaidNowAndThen, Ended, DeclarationsNone DEF SaidAfter
<1> QED
  BY <1>1, <1>2, <1>3 DEF ParserInit, DocumentInv, Place, Outside, ReadsTheDocument

\* Every step keeps it.
LEMMA DocumentKept ==
  ASSUME DocumentInv, [ShimNext]_<<parserVars, shimVars>>
  PROVE  DocumentInv'
<1>1. ASSUME ReaderStep PROVE DocumentInv'
  <2>1. document' = document /\ parsing = "reads" /\ parsing' \in {"reads", "Xml"}
    BY <1>1 DEF ReaderStep, StartSignatures, StartFunction, StartPart, EmptyPart, EndFunction, EndOther, NextEvent
  <2>2. Plain' <=> Plain
    BY <2>1 DEF Plain
  <2>3. ASSUME Plain, parsing' = "reads" PROVE Place' /\ functions' = Said'
    <3>1. Place /\ functions = Said
      BY <2>1, <2>3 DEF DocumentInv
    <3>2. CASE Outside
      BY <1>1, <2>1, <2>3, <3>1, <3>2, FromOutside
    <3>3. ASSUME NEW n \in 0..Len(Items), InRoot(n) PROVE Place' /\ functions' = Said'
      BY <1>1, <2>1, <2>3, <3>1, <3>3, FromRoot
    <3>4. ASSUME NEW n \in 1..Len(Items), NEW k \in 0..Len(Items[n].children), InItem(n, k)
          PROVE  Place' /\ functions' = Said'
      BY <1>1, <2>1, <2>3, <3>1, <3>4, FromItem
    <3>5. ASSUME NEW n \in 1..Len(Items), NEW k \in 1..Len(Items[n].children), InPart(n, k)
          PROVE  Place' /\ functions' = Said'
      BY <1>1, <2>1, <2>3, <3>1, <3>5, FromPart
    <3> QED
      BY <3>1, <3>2, <3>3, <3>4, <3>5 DEF Place
  <2>4. document' \in Documents /\ ReadsTheDocument'
    BY <2>1 DEF DocumentInv, ReadsTheDocument
  <2> QED
    BY <2>2, <2>3, <2>4 DEF DocumentInv
<1>2. ASSUME ReaderFails PROVE DocumentInv'
  BY <1>2 DEF ReaderFails, DocumentInv, ReadsTheDocument
<1>3. ASSUME Parse PROVE DocumentInv'
  <2>1. ReaderStep \/ Eof \/ ReaderFails
    BY <1>3 DEF Parse, ParserNext, ReaderStep
  <2> QED
    BY <1>1, <1>2, <2>1, FromEof
<1>4. ASSUME UNCHANGED parserVars PROVE DocumentInv'
  BY <1>4, DocumentUnchanged
<1>5. CASE Parse
  BY <1>3, <1>5
<1>6. ASSUME NEW use \in Uses, Generate(use) PROVE DocumentInv'
  BY <1>4, <1>6 DEF Generate
<1>7. ASSUME NEW p \in Platforms, NEW implicit \in BOOLEAN, NEW daemon \in BOOLEAN,
             Link(p, implicit, daemon)
      PROVE  DocumentInv'
  BY <1>4, <1>7 DEF Link
<1>8. ASSUME NEW sym, NEW redirected \in BOOLEAN, Call(sym, redirected) PROVE DocumentInv'
  BY <1>4, <1>8 DEF Call
<1>9. CASE Forward
  BY <1>4, <1>9 DEF Forward
<1>10. CASE Run
  BY <1>4, <1>10 DEF Run
<1>11. CASE UNCHANGED <<parserVars, shimVars>>
  BY <1>4, <1>11
<1> QED
  BY <1>5, <1>6, <1>7, <1>8, <1>9, <1>10, <1>11 DEF ShimNext

-----------------------------------------------------------------------------
(***************************************************************************)
(* Theorems                                                                *)
(***************************************************************************)

\* The invariant holds of every host API that is built.
THEOREM HostInvariant == StubsSpec => []HostInv
<1>1. StubsInit => HostInv
  BY HostStarts
<1>2. HostInv /\ [StubsNext]_vars => HostInv'
  BY HostKeeps
<1> QED
  BY <1>1, <1>2, PTL DEF StubsSpec

\* Every manifest, wrapper and set of stubs has its type, and no name of a
\* manifest is repeated: the index that the recompiler calls is a position.
THEOREM HostTypeCorrect == StubsSpec => []TypeOK
<1>1. HostInv => TypeOK
  BY HostTypes
<1> QED
  BY <1>1, HostInvariant, PTL

\* A redirect to an import names one that the manifest has, and has for guests,
\* of every name that no hook of an embedder takes: the hooks that were copied
\* from the manifest are never stale.
THEOREM RedirectsLead == StubsSpec => []RedirectsAreImports
<1>1. HostInv => RedirectsAreImports
  BY RedirectsLeadToImports
<1> QED
  BY <1>1, HostInvariant, PTL

\* RedirectingHostApi::integrated changes no redirect, although the first import
\* that intercepts a name and the last that lists it are two different ones.
THEOREM IntegratedIsSearch == StubsSpec => []IntegratedChangesNoRedirect
<1>1. HostInv => IntegratedChangesNoRedirect
  BY HooksChangeNothing
<1> QED
  BY <1>1, HostInvariant, PTL

\* link_recipe and resolve_ambient agree, in whatever order policies and hooks
\* were put around the tunnel, and no name has an alias that calls an import.
THEOREM LinkingIsResolving == StubsSpec => []LinksWhatItResolves
<1>1. HostInv => LinksWhatItResolves
  BY LinksAgree
<1> QED
  BY <1>1, HostInvariant, PTL

\* A name that extend_manifest skips is answered for by an import it has.
THEOREM SkippedAreAnswered == StubsSpec => []SkippedNamesAreAnswered
<1>1. HostInv => SkippedNamesAreAnswered
  BY SkippedAnswered
<1> QED
  BY <1>1, HostInvariant, PTL

\* A call is emitted with the signature of the import that it calls.
THEOREM CallsFit == StubsSpec => []ConventionFitsImport
<1>1. HostInv => ConventionFitsImport
  BY ConventionsFit
<1> QED
  BY <1>1, HostInvariant, PTL

\* The invariant of the shims holds in every behaviour of generator, linker
\* and calls.
THEOREM ShimInvariant == ShimSpec => []ShimInv
<1>1. ShimInit => ShimInv
  BY ShimStarts
<1>2. ShimInv /\ [ShimNext]_<<parserVars, shimVars>> => ShimInv'
  BY ShimKeeps
<1> QED
  BY <1>1, <1>2, PTL DEF ShimSpec

\* A guest's call is one call of the host's function, with its arguments and
\* its result, through whatever files were generated or checked in, where the
\* compiler refuses undeclared functions and the core reaches the host.
THEOREM CallsWhole == ShimSpec => []CallsArriveWhole
<1>1. ShimInv => CallsArriveWhole
  BY CallsAreWhole
<1> QED
  BY <1>1, ShimInvariant, PTL

\* The daemon gets every execve that the generator was asked to give it,
\* whatever the uses of the generator and their order.
THEOREM DaemonGetsExecve == ShimSpec => []DaemonOverridesExecve
<1>1. ShimInv => DaemonOverridesExecve
  BY DaemonTakesExecve
<1> QED
  BY <1>1, ShimInvariant, PTL

\* What is read of a document is what it says, wherever the file ends.
THEOREM DocumentsRead == ShimSpec => []ReadsTheDocument
<1>1. ShimInit => DocumentInv
  BY DocumentStarts
<1>2. DocumentInv /\ [ShimNext]_<<parserVars, shimVars>> => DocumentInv'
  BY DocumentKept
<1>3. DocumentInv => ReadsTheDocument
  BY DEF DocumentInv
<1> QED
  BY <1>1, <1>2, <1>3, PTL DEF ShimSpec
=============================================================================
