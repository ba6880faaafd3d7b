------------------------------ MODULE HostApi -------------------------------
(***************************************************************************)
(* The host API of runtime/os-host-api: a TunneledHostApi that holds an    *)
(* import manifest, wrapped in FilteredHostApi (a policy) and              *)
(* RedirectingHostApi (hooks) in any number and order.                     *)
(*                                                                         *)
(* A recompiled guest calls a function of another image by name.  The host *)
(* API answers three questions about that name, each by code of its own:   *)
(* is it redirected to an import (resolve_plt_redirect), may it be         *)
(* resolved on the host (resolve_ambient), is it aliased at link time      *)
(* (link_recipe).  The properties compare the answers.                     *)
(*                                                                         *)
(* A name is the sequence of its parts: leading underscores, the prefix of *)
(* ambient names, and a stem.                                              *)
(***************************************************************************)
EXTENDS Naturals, Sequences, SequencesExt

CONSTANTS
  Guests,      \* names a guest may call
  Tunnels,     \* tunnels of the host (external): host symbols by name, and the
               \* prefix with which aliases are emitted (none or AmbientPrefix)
  Policies,    \* sets of names that a policy allows
  CustomHooks, \* hooks an embedder passes to RedirectingHostApi::new
  MaxLayers    \* bound: wrappers around the tunnelled API

ASSUME HostAssumption == MaxLayers \in Nat /\ Guests \subseteq Seq(STRING)

VARIABLES
  tunnel,      \* the tunnel of the TunneledHostApi
  manifest,    \* its import manifest
  layers       \* the wrappers, the outermost last

hostVars == <<tunnel, manifest, layers>>

(***************************************************************************)
(* Names.                                                                  *)
(***************************************************************************)
US            == "underscore"
NoName        == <<>>
AmbientPrefix == <<US, US, "ambient_">>
Underscore(s) == <<US>> \o s

StripPrefix(p, s) == IF IsPrefix(p, s) THEN SubSeq(s, Len(p) + 1, Len(s)) ELSE s
Bare(s)           == StripPrefix(<<US>>, s)
Unambient(s)      == StripPrefix(AmbientPrefix, s)

(***************************************************************************)
(* Manifests: sequences of imports of the module "env".                    *)
(***************************************************************************)
FuncImport(name, params, results, intercepts) ==
  [name |-> name, params |-> params, results |-> results, intercepts |-> intercepts]

Internal(stem, params, results) == FuncImport(<<US, US, stem>>, params, results, {})

BothSpellings(s) == {s, Underscore(s)}

Hint   == Internal("speet_hint", <<"i32">>, <<>>)
Exit   == FuncImport(<<"exit">>, <<"i32">>, <<>>, BothSpellings(<<"exit">>) \cup {<<US, "Exit">>})
Write  == FuncImport(<<"write">>, <<"i32", "i32", "i32">>, <<"i32">>, BothSpellings(<<"write">>))
Execve == FuncImport(<<US, US, "speet_execve">>, <<"i64", "i64", "i64">>, <<"i32">>,
                     BothSpellings(<<"execve">>))
Printf == FuncImport(<<"printf">>, <<"i64", "i64">>, <<"i32">>, {<<"printf">>})

native_syscall    == <<Hint, Exit, Write>>
integrated_native == native_syscall \o
                       <<Internal("speet_log_unreachable", <<"i32">>, <<>>), Execve,
                         Internal("speet_stub_for_pc", <<"i64">>, <<"i64">>), Printf>>
corpus_harness    == <<Hint, Write, Exit, Internal("speet_unreachable_trap", <<"i32">>, <<>>)>>
rv64_syscall      == <<Exit, Write>>

Manifests == {native_syscall, integrated_native, corpus_harness, rv64_syscall}

\* The position of an import, counted from 1; 0 if there is none.
index_of(m, name) == SelectInSeq(m, LAMBDA imp : imp.name = name)

(***************************************************************************)
(* Redirects.                                                              *)
(***************************************************************************)
WasmImport(name) == [to |-> "import", name |-> name]
NativeShim(name) == [to |-> "native", name |-> name]
Ambient          == [to |-> "ambient", name |-> NoName]
NoRedirect       == [to |-> "none", name |-> NoName]

\* Mutant: an import intercepts only the names it spells out.
Intercepts_exactly(imp, s) == s \in imp.intercepts

Intercepts(imp, s) == \E t \in imp.intercepts : t = s \/ Bare(t) = Bare(s)

\* ImportManifest::resolve_intercept: the first import that intercepts s.
resolve_intercept(m, s) ==
  LET i == SelectInSeq(m, LAMBDA imp : Intercepts(imp, s))
  IN  IF i = 0 THEN NoRedirect ELSE WasmImport(m[i].name)

\* Of two imports that list a name, the last one inserts over the first.
derive_hooks_from_manifest(m) ==
  [s \in UNION {m[i].intercepts : i \in DOMAIN m} |->
     WasmImport(m[SelectLastInSeq(m, LAMBDA imp : s \in imp.intercepts)].name)]

(***************************************************************************)
(* Wrappers, and what each method does with the answer of the API inside.  *)
(***************************************************************************)
NoHooks         == [s \in {} |-> NoRedirect]
Filtered(allow) == [kind |-> "filtered", allowed |-> allow, hooks |-> NoHooks]
Redirecting(hs) == [kind |-> "redirecting", allowed |-> {}, hooks |-> hs]

\* Mutant: hooks are looked up by the name as it is spelled.
is_hooked_exactly(l, s) == s \in DOMAIN l.hooks

is_hooked(l, s) == s \in DOMAIN l.hooks \/ Bare(s) \in DOMAIN l.hooks

HookOf(l, s) == IF s \in DOMAIN l.hooks THEN l.hooks[s] ELSE l.hooks[Bare(s)]

Denies(l, s) == l.kind = "filtered" /\ Unambient(s) \notin l.allowed
Hooks(l, s)  == l.kind = "redirecting" /\ is_hooked(l, s)

\* The tunnel resolves a name it lists, with or without the ambient prefix.
TunnelResolve(s) ==
  IF Unambient(s) \in DOMAIN tunnel.symbols THEN tunnel.symbols[Unambient(s)] ELSE NoName

TunnelAliases == {<<tunnel.prefix \o s, tunnel.symbols[s]>> : s \in DOMAIN tunnel.symbols}

\* The answer of the i innermost wrappers.
resolve_ambient(stack, s) ==
  LET inner[i \in 0..Len(stack)] ==
        IF i = 0 THEN TunnelResolve(s)
        ELSE IF Denies(stack[i], s) THEN NoName ELSE inner[i - 1]
  IN  inner[Len(stack)]

resolve_plt_redirect(stack, s) ==
  LET inner[i \in 0..Len(stack)] ==
        IF i = 0 THEN resolve_intercept(manifest, s)
        ELSE IF Hooks(stack[i], s) THEN HookOf(stack[i], s) ELSE inner[i - 1]
  IN  inner[Len(stack)]

\* Mutant: a policy does not look at the aliases.
Retains_unfiltered(l, a) == l.kind = "filtered" \/ ~is_hooked(l, a[1])

\* Mutant: the names of the allowlist are compared with the prefix on.
Retains_prefixed(l, a) ==
  IF l.kind = "filtered" THEN a[1] \in l.allowed ELSE ~is_hooked(l, a[1])

\* Whether a wrapper retains an alias <<emitted name, host symbol>>.
Retains(l, a) ==
  IF l.kind = "filtered" THEN Unambient(a[1]) \in l.allowed \/ a[2] \in l.allowed
  ELSE ~is_hooked(l, a[1])

link_recipe(stack) ==
  LET inner[i \in 0..Len(stack)] ==
        IF i = 0 THEN TunnelAliases ELSE {a \in inner[i - 1] : Retains(stack[i], a)}
  IN  inner[Len(stack)]

\* Parts of names are strings (the provers do not know it of a literal).
ASSUME PartsAssumption ==
  {US, "ambient_", "exit", "Exit", "write", "execve", "printf"} \subseteq STRING

\* External: a tunnel lists plain names, for symbols that have a name.
ASSUME TunnelAssumption ==
  \A t \in Tunnels :
    /\ t.prefix \in {NoName, AmbientPrefix}
    /\ \A s \in DOMAIN t.symbols :
         s \in Seq(STRING) /\ ~IsPrefix(AmbientPrefix, s) /\ t.symbols[s] # NoName

(***************************************************************************)
(* Building an API.                                                        *)
(***************************************************************************)
Wrap(l) ==
  /\ Len(layers) < MaxLayers
  /\ layers' = Append(layers, l)
  /\ UNCHANGED <<tunnel, manifest>>

\* Only the tunnelled API itself has the builder method.
with_manifest(m) ==
  /\ layers = <<>>
  /\ manifest' = m
  /\ UNCHANGED <<tunnel, layers>>

from_policy(allow) == Wrap(Filtered(allow))

redirecting_new(hs) == Wrap(Redirecting(hs))

\* Mutant: the hooks are those of the integrated runtime, whatever the manifest.
integrated_default == Wrap(Redirecting(derive_hooks_from_manifest(integrated_native)))

integrated == Wrap(Redirecting(derive_hooks_from_manifest(manifest)))

Init ==
  /\ tunnel \in Tunnels
  /\ manifest = native_syscall
  /\ layers = <<>>

Next ==
  \/ \E m \in Manifests : with_manifest(m)
  \/ \E allow \in Policies : from_policy(allow)
  \/ \E hs \in CustomHooks : redirecting_new(hs)
  \/ integrated

Spec == Init /\ [][Next]_hostVars

(***************************************************************************)
(* Properties.                                                             *)
(***************************************************************************)
Redirect(s) == resolve_plt_redirect(layers, s)

LayersOf(kind) == {i \in DOMAIN layers : layers[i].kind = kind}

\* Hooks of an embedder, or those of the manifest, are on the stack.
HasCustom     == \E i \in LayersOf("redirecting") : layers[i].hooks \in CustomHooks
HasIntegrated == \E i \in LayersOf("redirecting") : layers[i].hooks \notin CustomHooks

\* A name with no more than the one underscore that Mach-O puts before it.
OneUnderscore(s) == Bare(Bare(s)) = Bare(s)

\* An embedder's hooks take a name; they may lead anywhere.
CustomTakes(s) ==
  \E i \in LayersOf("redirecting") : layers[i].hooks \in CustomHooks /\ is_hooked(layers[i], s)

\* A redirect to an import names an import that the manifest has, under the
\* position the recompiler calls, and never one that the manifest keeps to
\* itself, for every name that no hook of an embedder takes: the hooks that
\* integrated derives are a copy, made when the API was wrapped.
RedirectsAreImports ==
  \A s \in Guests :
    Redirect(s).to = "import" /\ ~CustomTakes(s) =>
      LET i == index_of(manifest, Redirect(s).name)
      IN  i # 0 /\ manifest[i].intercepts # {}

\* Wrapping in RedirectingHostApi::integrated changes no redirect: the map it
\* derives (last import, both spellings) and the search it stands before
\* (first import, compared without underscores) say the same of a name.
IntegratedChangesNoRedirect ==
  \A s \in Guests :
    OneUnderscore(s) /\ ~HasCustom => Redirect(s) = resolve_intercept(manifest, s)

\* Linking and resolving are one decision: of the aliases that rename
\* nothing, those are linked that resolve_ambient grants and that no hook
\* takes, in whatever order policies and hooks were put around the tunnel.
\* And a name is resolved one way only: with the integrated hooks anywhere in
\* the stack, no name that calls an import has an alias to the host as well,
\* when aliases are emitted without the ambient prefix.  Not claimed of a name
\* that is listed only with an underscore before it: the search takes Exit for
\* _Exit, the hooks do not.
LinksWhatItResolves ==
  /\ \A a \in TunnelAliases :
       Unambient(a[1]) = a[2] =>
         (a \in link_recipe(layers) <=>
            /\ resolve_ambient(layers, a[1]) = a[2]
            /\ \A i \in LayersOf("redirecting") : ~is_hooked(layers[i], a[1]))
  /\ HasIntegrated /\ tunnel.prefix = <<>> =>
       \A a \in link_recipe(layers) :
         (\A i \in DOMAIN manifest : Underscore(a[1]) \in manifest[i].intercepts
                                     => a[1] \in manifest[i].intercepts)
           => Redirect(a[1]).to # "import"

\* What the comment of resolve_intercept says (manifest.rs:184): a name that
\* an import lists, after one underscore was stripped from it, is redirected.
ListedNamesAreRedirected ==
  \A s \in Guests :
    (\E i \in DOMAIN manifest : {s, Bare(s)} \cap manifest[i].intercepts # {})
      => Redirect(s).to # "none"
=============================================================================
