------------------------------ MODULE AbiStubs ------------------------------
(***************************************************************************)
(* Signatures: the imports that os-abi-stubs adds to a manifest from an    *)
(* ABI specification, the stubs that os-abi-codegen generates from the     *)
(* same specification, and the calling convention that the recompiler gets *)
(* for a call.  The type of an argument is one of                          *)
(*   "i"  32 bits and less    "q"  long long, double    "l"  other scalars *)
(*   "*"  data pointers       "^?" function pointers    "v"  void          *)
(***************************************************************************)
EXTENDS HostApi

CONSTANTS
  Abi,      \* the specification: a function from names to [args, ret]
  Requests, \* sets of names that generate may be asked for
  MaxAdded  \* bound: imports added to a manifest

VARIABLE stubs \* the names with a generated stub, checked in

vars == <<hostVars, stubs>>

Archs == {"x86_64", "aarch64"}

(***************************************************************************)
(* Calling conventions.  Wasm code holds guest registers in 64-bit locals. *)
(***************************************************************************)
Convention(locals, wraps, hasResult, extends) ==
  [arg_locals |-> locals, arg_wrap_i32 |-> wraps,
   has_result |-> hasResult, result_extend_i32 |-> extends]

NoConvention == Convention(<<>>, <<>>, FALSE, FALSE)

\* RDI, RSI, RDX, RCX, R8, R9, by number; the first of them are taken.
X86Order == <<7, 6, 2, 3, 8, 9>>

arg_locals(arch, n) ==
  IF arch = "x86_64" THEN SubSeq(X86Order, 1, IF n < 6 THEN n ELSE 6)
  ELSE [i \in 1..n |-> i - 1]

WrapsOf(params) == [i \in DOMAIN params |-> params[i] = "i32"]

\* Mutant: every result is extended.
import_to_calling_convention_extended(arch, imp) ==
  Convention(arg_locals(arch, Len(imp.params)), WrapsOf(imp.params),
             imp.results # <<>>, imp.results # <<>>)

import_to_calling_convention(arch, imp) ==
  Convention(arg_locals(arch, Len(imp.params)), WrapsOf(imp.params),
             imp.results # <<>>, imp.results = <<"i32">>)

(***************************************************************************)
(* os-abi-codegen.                                                         *)
(***************************************************************************)
DataPointers(f) == {i \in DOMAIN f.args : f.args[i] = "*"}

\* Mutant: the specification alone decides.
arg_wrap_i32_from_spec(s) == [i \in DOMAIN Abi[s].args |-> Abi[s].args[i] = "i"]

\* The generator asks the standard manifest first, then the specification.
arg_wrap_i32_from_manifest(s) ==
  LET r == resolve_intercept(native_syscall, s)
  IN  IF r # NoRedirect THEN WrapsOf(native_syscall[index_of(native_syscall, r.name)].params)
      ELSE [i \in DOMAIN Abi[s].args |-> Abi[s].args[i] = "i"]

calling_convention_for(arch, s) ==
  Convention(arg_locals(arch, Len(Abi[s].args)), arg_wrap_i32_from_manifest(s),
             Abi[s].ret # "v", Abi[s].ret # "v")

\* Generation fails for an unknown name and for a pointer in no register.
generate_succeeds(names) ==
  /\ names \subseteq DOMAIN Abi
  /\ \A s \in names, arch \in Archs :
       DataPointers(Abi[s]) \subseteq DOMAIN calling_convention_for(arch, s).arg_locals

\* Imports of the manifests that os-host-api has, and those added to one.
BuiltIn == UNION {Range(m) : m \in Manifests}

Added(m) == SelectSeq(m, LAMBDA imp : imp \notin BuiltIn)

\* External: the names of the runtime's own imports are not those of functions
\* of the system, and no function has the name of a built-in one with an
\* underscore before it (_printf), unless the import lists that too.
ASSUME NamesAssumption ==
  /\ DOMAIN Abi \subseteq Seq(STRING)
  /\ \A imp \in BuiltIn : imp.name \in DOMAIN Abi => imp.name \in imp.intercepts
  /\ \A imp \in BuiltIn : \A t \in imp.intercepts :
       ~IsPrefix(<<US>>, t) /\ Underscore(t) \in DOMAIN Abi => Underscore(t) \in imp.intercepts

\* External: of a function that a built-in import stands for, the specification
\* has the arguments and the result that the import was written for.
ASSUME SignaturesAssumption ==
  /\ \A s \in DOMAIN Abi : Abi[s].args \in Seq(STRING)
  /\ \A s \in DOMAIN Abi, imp \in BuiltIn :
       Intercepts(imp, s) =>
         /\ Len(Abi[s].args) = Len(imp.params)
         /\ Abi[s].ret = "v" <=> imp.results = <<>>
         /\ imp \notin Range(native_syscall) =>
              \A i \in DOMAIN imp.params : Abi[s].args[i] = "i" <=> imp.params[i] = "i32"

(***************************************************************************)
(* os-abi-stubs.                                                           *)
(***************************************************************************)
has_stub(s) == Bare(s) \in stubs

plt_calling_convention(arch, s) ==
  IF has_stub(s) THEN calling_convention_for(arch, Bare(s))
  ELSE LET r == resolve_intercept(manifest, s)
       IN  IF r = NoRedirect THEN NoConvention
           ELSE import_to_calling_convention(arch, manifest[index_of(manifest, r.name)])

WasmType(t) == IF t = "q" THEN "i64" ELSE "i32"

bridgesupport_wasm_types(f) ==
  [params  |-> [i \in DOMAIN f.args |-> WasmType(f.args[i])],
   results |-> IF f.ret = "v" THEN <<>> ELSE <<WasmType(f.ret)>>]

intercept_names(s) == IF IsPrefix(<<US>>, s) THEN {s} ELSE BothSpellings(s)

accepts_function_pointers(s) == \E i \in DOMAIN Abi[s].args : Abi[s].args[i] = "^?"

\* Mutant: no import is looked at.
AlreadyIntercepted_never(m, s) == FALSE

\* An import already intercepts s, or the Mach-O spelling of s.
AlreadyIntercepted(m, s) ==
  \E i \in DOMAIN m : \E t \in m[i].intercepts :
    t = s \/ (IsPrefix(<<US>>, t) /\ Bare(t) = s)

\* Mutant: the import has the Mach-O spelling of the name.
extend_manifest_macho(s) ==
  LET types == bridgesupport_wasm_types(Abi[s])
  IN  /\ ~(accepts_function_pointers(s) /\ ~has_stub(s))
      /\ ~AlreadyIntercepted(manifest, s)
      /\ with_manifest(Append(manifest, FuncImport(Underscore(s), types.params,
                         types.results, intercept_names(s))))

\* extend_manifest for one name and with_manifest of the result; a call with
\* a list of names is a sequence of these.
extend_manifest(s) ==
  LET types == bridgesupport_wasm_types(Abi[s])
  IN  /\ Len(Added(manifest)) < MaxAdded
      /\ ~(accepts_function_pointers(s) /\ ~has_stub(s))
      /\ ~AlreadyIntercepted(manifest, s)
      /\ with_manifest(Append(manifest,
                         FuncImport(s, types.params, types.results, intercept_names(s))))

StubsInit == Init /\ stubs \in {names \in Requests : generate_succeeds(names)}

Extend == (\E s \in DOMAIN Abi : extend_manifest(s)) /\ UNCHANGED stubs

Build == Next /\ UNCHANGED stubs

StubsNext == Build \/ Extend

StubsSpec == StubsInit /\ [][StubsNext]_vars

(***************************************************************************)
(* Properties.                                                             *)
(***************************************************************************)
Names == DOMAIN Abi \cup {imp.name : imp \in BuiltIn}

\* The position of an import in the manifest is the index that the recompiler
\* calls: names are not repeated, whatever was added in whatever order.
IndexIsPosition == \A i \in DOMAIN manifest : index_of(manifest, manifest[i].name) = i

TypeOK ==
  /\ IndexIsPosition
  /\ tunnel \in Tunnels
  /\ \A i \in DOMAIN manifest :
       /\ manifest[i].name \in Names
       /\ \A t \in {"params", "results"} :
            \A k \in DOMAIN manifest[i][t] : manifest[i][t][k] \in {"i32", "i64"}
  /\ \A i \in DOMAIN layers : layers[i].kind \in {"filtered", "redirecting"}
  /\ Len(layers) <= MaxLayers
  /\ stubs \in Requests

\* A name that extend_manifest skips is answered for by an import it has:
\* skipping and resolving compare spellings in two different ways.  Not claimed
\* when the only spelling listed has two underscores.
SkippedNamesAreAnswered ==
  \A s \in DOMAIN Abi :
    /\ AlreadyIntercepted(manifest, s)
    /\ \E i \in DOMAIN manifest, t \in {s, Underscore(s)} :
         t \in manifest[i].intercepts /\ OneUnderscore(t)
    => resolve_intercept(manifest, s) # NoRedirect

\* The signature that a call is emitted with is the signature of the import
\* it calls, whether the convention comes from a stub, generated once and for
\* all against native_syscall, or from the manifest ("whether the call's WASM
\* result is i32", convention.rs:22).  Not claimed of a name with two
\* underscores, nor of a stub over an added import of another name (_tolower
\* for tolower), or of one that takes a pointer or returns 64 bits:
\* bridgesupport_wasm_types and the generator map those types differently.
StubFits(s) ==
  Range(Abi[Bare(s)].args) \subseteq {"i", "q"} /\ Abi[Bare(s)].ret \in {"i", "v"}

FitsImport(cc, imp) ==
  /\ cc.arg_wrap_i32 = WrapsOf(imp.params)
  /\ cc.has_result = (imp.results # <<>>)
  /\ cc.result_extend_i32 = (imp.results = <<"i32">>)
  /\ Len(imp.params) <= 6 => Len(cc.arg_locals) = Len(imp.params)

ConventionFitsImport ==
  \A s \in {n \in Guests : OneUnderscore(n) /\ Redirect(n).to = "import"} :
    LET imp == manifest[index_of(manifest, Redirect(s).name)]
    IN  ~HasCustom /\ (has_stub(s) /\ imp \notin BuiltIn => imp.name = Bare(s) /\ StubFits(s)) =>
          \A arch \in Archs : FitsImport(plt_calling_convention(arch, s), imp)
=============================================================================
