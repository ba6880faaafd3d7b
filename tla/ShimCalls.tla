------------------------------ MODULE ShimCalls ------------------------------
(***************************************************************************)
(* From a BridgeSupport document to a call: os-abi-codegen writes a core,  *)
(* os_shim_{sym}, and a bridge for each symbol it is asked for, beside the *)
(* C files that are checked in; what compiles is linked to the interposer, *)
(* and a guest calls a function of the system by its name, or the core     *)
(* that its call was redirected to.  Files are kept from one use of the    *)
(* generator to the next.                                                  *)
(*                                                                         *)
(* A value is small or wide, and a wide one that passes through an int is  *)
(* cut.  The text of the C files is what it does with names and values.    *)
(***************************************************************************)
EXTENDS BridgeSupport, FiniteSets

CONSTANTS
  Uses,         \* uses of the generator: kinds, with_daemon, symbols or AllSymbols
  AllSymbols,
  Platforms,    \* "Apple", "ELF"
  HostHeaders,  \* names that unistd.h, stdio.h, stdlib.h and string.h declare
  dlfcn_h,      \* what dlfcn.h declares: names and their C types
  MaxUses,      \* bound: uses of the generator
  MaxCalls,     \* bound: calls of a guest
  MaxFrames     \* bound: the guest's stack

VARIABLES
  files,    \* <<directory, symbol>> -> what the file defines
  uses,     \* history: uses so far
  linked,   \* what runs: platform, whether its compiler takes an undeclared
            \* function for one that returns an int, whether the daemon's
            \* execve was linked; or None
  frames,   \* calls that have not returned: which code, its symbol, its arguments
  guest,    \* history: the last call of the guest, or None
  answer,   \* what it returned, or None
  ran,      \* history: what the system ran for it, or None
  guestCalls

shimVars == <<files, uses, linked, frames, guest, answer, ran, guestCalls>>

-----------------------------------------------------------------------------
(***************************************************************************)
(* C types and the functions of a file.                                    *)
(***************************************************************************)
SpecNames == {functions[i].name : i \in DOMAIN functions}

\* AbiSpec::lookup: the first of a name.
IsFirst(i, sym) ==
  functions[i].name = sym /\ \A j \in DOMAIN functions : j < i => functions[j].name # sym

lookup(sym) ==
  IF \E i \in DOMAIN functions : IsFirst(i, sym) THEN functions[CHOOSE i \in DOMAIN functions : IsFirst(i, sym)]
  ELSE None

Known(syms) == {sym \in syms : lookup(sym) # None}

c_host_symbol(sym) == IF sym = "exit" THEN "_exit" ELSE sym

\* Mutant: the unsigned type is forgotten.
c_type_signed(slot) ==
  CASE slot.kind = "Void" -> "void"
    [] slot.kind \in {"FunctionPointer", "Pointer", "Object"} -> "void *"
    [] OTHER -> IF slot.type \in {"q", "d", "D", "L", "l"} THEN "long" ELSE "int"

\* c_param_type and c_return_type.
c_type(slot) ==
  CASE slot.kind = "Void" -> "void"
    [] slot.kind \in {"FunctionPointer", "Pointer", "Object"} -> "void *"
    [] OTHER -> IF slot.type \in {"q", "Q", "d", "D", "L", "l"} THEN "long" ELSE "int"

c_types(func) ==
  [params |-> [i \in DOMAIN func.args |-> c_type(func.args[i])], ret |-> c_type(func.retval)]

Types(params, ret) == [params |-> params, ret |-> ret]

\* The prototypes of the cores; no other core has one.
os_shim_h ==
  [sym \in {"write", "exit", "printf", "putchar", "strlen", "getenv", "execve"} |->
     CASE sym = "write"   -> Types(<<"int", "void *", "long">>, "long")
       [] sym = "exit"    -> Types(<<"int">>, "void")
       [] sym = "printf"  -> Types(<<"const char *", "void *">>, "int")
       [] sym = "putchar" -> Types(<<"int">>, "int")
       [] sym = "strlen"  -> Types(<<"const char *">>, "long")
       [] sym = "getenv"  -> Types(<<"const char *">>, "char *")
       [] sym = "execve"  -> Types(<<"const char *", "char *const *", "char *const *">>, "int")]

ForwardFile(calls, c) == [does |-> "forward", weak |-> TRUE, calls |-> calls, c |-> c, drops |-> {}]

emit_weak_forward(func) == ForwardFile(c_host_symbol(func.name), c_types(func))

emit_os_shim_execve ==
  [does |-> "daemon", weak |-> FALSE, calls |-> "execve", c |-> os_shim_h["execve"], drops |-> {}]

\* A bridge: the core it calls, the name it is there for, what its headers say
\* of that name, and the arguments for which it passes 0.
BridgeFile(calls, exports, header, c, drops) ==
  [does |-> "bridge", weak |-> FALSE, calls |-> calls, exports |-> exports, header |-> header,
   c |-> c, drops |-> drops]

\* Its headers are os_shim.h and dlfcn.h.
emit_default_interposer_bridge(func) ==
  LET header == IF func.name \notin DOMAIN dlfcn_h THEN "undeclared"
                ELSE IF dlfcn_h[func.name] = c_types(func) THEN "declared"
                ELSE "conflicting"
  IN  BridgeFile(func.name, func.name, header, c_types(func), {})

\* The C files beside the generator: their headers declare the names, write
\* and strlen with other types; the bridge of exit is there for _exit, and
\* that of printf drops what follows the format.
checked_in ==
  [path \in {"core", "interposer"} \X DOMAIN os_shim_h |->
     LET sym == path[2]
     IN  IF path[1] = "core" THEN ForwardFile(c_host_symbol(sym), os_shim_h[sym])
         ELSE BridgeFile(sym, c_host_symbol(sym),
                         IF sym \in {"write", "strlen"} THEN "conflicting" ELSE "declared",
                         os_shim_h[sym], IF sym = "printf" THEN {2} ELSE {})]

\* register_daemon_overrides
Overrides(with_daemon) == IF with_daemon THEN {"execve"} ELSE {}

emit_core(sym, with_daemon) ==
  IF sym \in Overrides(with_daemon) THEN emit_os_shim_execve ELSE emit_weak_forward(lookup(sym))

-----------------------------------------------------------------------------
(***************************************************************************)
(* The generator.                                                          *)
(***************************************************************************)
resolve_symbols(use) == IF use.symbols = AllSymbols THEN SpecNames ELSE use.symbols

\* Mutant: the daemon's core only when execve is among the symbols.
CoresOfSymbols(use) == IF "Core" \in use.kinds THEN Known(resolve_symbols(use)) ELSE {}

\* Symbols that get a core: with the daemon execve is one of them.
Cores(use) ==
  IF "Core" \in use.kinds THEN Known(resolve_symbols(use) \cup Overrides(use.with_daemon)) ELSE {}

\* Mutant: with the daemon execve never gets a bridge.
BridgesNotExecve(use) ==
  IF "InterposerBridge" \in use.kinds
  THEN Known(resolve_symbols(use)) \ Overrides(use.with_daemon) ELSE {}

\* Symbols that get a bridge: execve is skipped after the daemon's core.
Bridges(use) ==
  IF "InterposerBridge" \in use.kinds
  THEN {sym \in Known(resolve_symbols(use)) :
          ~("Core" \in use.kinds /\ use.with_daemon /\ sym = "execve")}
  ELSE {}

generate_c(use) ==
  [path \in {<<"core", sym>> : sym \in Cores(use)} \cup {<<"interposer", sym>> : sym \in Bridges(use)} |->
     IF path[1] = "core" THEN emit_core(path[2], use.with_daemon)
     ELSE emit_default_interposer_bridge(lookup(path[2]))]

ShimInit ==
  /\ ParserInit
  /\ files \in {<<>>, checked_in}
  /\ uses = <<>>
  /\ linked = None
  /\ frames = <<>>
  /\ guest = None
  /\ answer = None
  /\ ran = None
  /\ guestCalls = 0

Parse == ParserNext /\ UNCHANGED shimVars

Generate(use) ==
  /\ parsing = "Ok"
  /\ linked = None
  /\ Len(uses) < MaxUses
  /\ LET written == generate_c(use)
     IN  files' = [path \in DOMAIN written \cup DOMAIN files |->
                     IF path \in DOMAIN written THEN written[path] ELSE files[path]]
  /\ uses' = Append(uses, use)
  /\ UNCHANGED <<linked, frames, guest, answer, ran, guestCalls, parserVars>>

\* Mutant: the linker keeps the weak function.
CoreKept(sym) == IF <<"core", sym>> \in DOMAIN files THEN files[<<"core", sym>>] ELSE emit_os_shim_execve

\* What os_shim_{sym} is once linked: a strong function replaces a weak one.
CoreOf(sym) == IF sym = "execve" /\ linked.daemon THEN emit_os_shim_execve ELSE files[<<"core", sym>>]

\* A file calls a function that none of its headers declares.
Undeclared(file) ==
  \/ file.does = "bridge" /\ file.calls \notin DOMAIN os_shim_h
  \/ file.does = "forward" /\ file.calls \notin HostHeaders

\* External: the compiler.  A core of os_shim.h has the types given there; the
\* tuple of a bridge names the function it replaces (Apple), or the bridge
\* defines that function (ELF).
Compiles(path, p, implicit) ==
  LET file == files[path]
  IN  /\ Undeclared(file) => implicit
      /\ file.does = "forward" /\ path[2] \in DOMAIN os_shim_h => file.c = os_shim_h[path[2]]
      /\ file.does = "bridge" =>
           file.header # (IF p = "Apple" THEN "undeclared" ELSE "conflicting")

BridgePaths == {path \in DOMAIN files : path[1] = "interposer"}

\* External: the linker.  A bridge needs its core, and there is one strong
\* function of a name; the daemon's execve may be linked separately.
Link(p, implicit, daemon) ==
  /\ parsing = "Ok"
  /\ linked = None
  /\ \A path \in DOMAIN files : Compiles(path, p, implicit)
  /\ \A path \in BridgePaths :
       <<"core", path[2]>> \in DOMAIN files \/ (daemon /\ path[2] = "execve")
  /\ \A path, other \in BridgePaths : files[path].exports = files[other].exports => path = other
  /\ daemon /\ <<"core", "execve">> \in DOMAIN files => files[<<"core", "execve">>].weak
  /\ linked' = [platform |-> p, implicit |-> implicit, daemon |-> daemon]
  /\ UNCHANGED <<files, uses, frames, guest, answer, ran, guestCalls, parserVars>>

-----------------------------------------------------------------------------
(***************************************************************************)
(* Calls.                                                                  *)
(***************************************************************************)
Through(ctype, value) == IF ctype = "int" /\ value = "wide" THEN "cut" ELSE value

Frame(code, sym, args) == [code |-> code, sym |-> sym, args |-> args]

Bridged(sym) == \E path \in BridgePaths : files[path].exports = sym

\* External: what a name is for the dynamic linker.  Outside Apple it is what
\* the interposer, which is loaded first, exports; on Apple the interposer
\* replaces it for every image but its own.
Resolve(sym, caller) ==
  IF Bridged(sym) /\ (linked.platform = "Apple" => caller = "guest") THEN "bridge" ELSE "host"

\* The widest value of a type.
Widest(slot) == IF slot.type = "i" THEN "small" ELSE "wide"

HasCore(sym) == <<"core", sym>> \in DOMAIN files \/ (sym = "execve" /\ linked.daemon)

\* A function of the system, called with arguments of its types: by its name,
\* or as the core that the call was redirected to.
Call(sym, redirected) ==
  /\ linked # None
  /\ frames = <<>>
  /\ guestCalls < MaxCalls
  /\ lookup(sym) # None
  /\ redirected => HasCore(sym)
  /\ guestCalls' = guestCalls + 1
  /\ guest' = [sym |-> sym, args |-> [i \in DOMAIN lookup(sym).args |-> Widest(lookup(sym).args[i])]]
  /\ answer' = None
  /\ ran' = None
  /\ frames' = <<Frame(IF redirected THEN "core" ELSE Resolve(sym, "guest"), sym, guest'.args)>>
  /\ UNCHANGED <<files, uses, linked, parserVars>>

Top == Last(frames)

\* The code of a frame.
Body(frame) ==
  IF frame.code = "bridge" THEN files[CHOOSE path \in BridgePaths : files[path].exports = frame.sym]
  ELSE CoreOf(frame.sym)

\* What a body passes on for a parameter; a caller may have set none.
PassedOn(body, args, i) ==
  IF i \in body.drops THEN "null"
  ELSE IF i \in DOMAIN args THEN Through(body.c.params[i], args[i])
  ELSE "unset"

\* The wrapper of a bridge calls the core, and the core a name.
Forward ==
  /\ frames # <<>>
  /\ Top.code # "host"
  /\ Len(frames) < MaxFrames
  /\ LET body == Body(Top)
         args == [i \in DOMAIN body.c.params |-> PassedOn(body, Top.args, i)]
     IN  frames' = Append(frames,
                          Frame(IF Top.code = "bridge" THEN "core" ELSE Resolve(body.calls, "interposer"),
                                body.calls, args))
  /\ UNCHANGED <<files, uses, linked, guest, answer, ran, guestCalls, parserVars>>

\* The type that a result has in a body.
ResultType(body) == IF Undeclared(body) THEN "int" ELSE body.c.ret

\* The system runs a function, and what it returns passes through every frame.
Run ==
  /\ frames # <<>>
  /\ Top.code = "host"
  /\ LET result == Widest(lookup(guest.sym).retval)
         passed[i \in 1..Len(frames)] ==
           IF frames[i].code = "host" THEN result ELSE Through(ResultType(Body(frames[i])), passed[i + 1])
     IN  /\ ran' = [sym |-> Top.sym, args |-> Top.args, result |-> result]
         /\ answer' = passed[1]
  /\ frames' = <<>>
  /\ UNCHANGED <<files, uses, linked, guest, guestCalls, parserVars>>

ShimNext ==
  \/ Parse
  \/ \E use \in Uses : Generate(use)
  \/ \E p \in Platforms, implicit, daemon \in BOOLEAN : Link(p, implicit, daemon)
  \/ \E sym \in SpecNames, redirected \in BOOLEAN : Call(sym, redirected)
  \/ Forward
  \/ Run

ShimSpec == ShimInit /\ [][ShimNext]_<<parserVars, shimVars>>

-----------------------------------------------------------------------------
\* The core of a symbol forwards to the function of the host ("Emits a weak
\* `os_shim_{sym}` that forwards to the real host libc symbol", forward.rs:10).
ForwardsToHost ==
  \A i \in DOMAIN frames : i > 1 /\ frames[i - 1].code = "core" => frames[i].code = "host"

\* What the C types of the shims can carry: an int, a 64-bit integer or a
\* pointer; and what os_shim.h declares, as it declares it, but for printf.
Carried(slot) ==
  slot.kind \in {"Void", "FunctionPointer", "Pointer", "Object"} \/ slot.type \in {"i", "q", "Q"}

Fits(c, func) ==
  /\ DOMAIN c.params = DOMAIN func.args
  /\ \A i \in DOMAIN func.args : Through(c.params[i], Widest(func.args[i])) = Widest(func.args[i])
  /\ Through(c.ret, Widest(func.retval)) = Widest(func.retval)

CarriedFunction(func) ==
  /\ \A i \in DOMAIN func.args : Carried(func.args[i])
  /\ Carried(func.retval)
  /\ func.name # "printf"
  /\ func.name \in DOMAIN os_shim_h => Fits(os_shim_h[func.name], func)
  /\ func.name = "_exit" => Fits(os_shim_h["exit"], func)

\* A guest's call is one call of the system's function, with the values that
\* the guest gave and the result that it gave back, by name or redirected,
\* through the checked-in files, the generated ones or both (emit_weak_forward,
\* emit_default_interposer_bridge, c_param_type, c_return_type, os_shim.h).
\* Claimed where the compiler refuses a function that is not declared, and of
\* a core that calls the system and not a bridge (ForwardsToHost).
CallsArriveWhole ==
  /\ answer # None
  /\ ~linked.implicit
  /\ Resolve(c_host_symbol(guest.sym), "interposer") = "host"
  /\ CarriedFunction(lookup(guest.sym))
  => /\ ran.sym \in {guest.sym, c_host_symbol(guest.sym)}
     /\ ran.args = guest.args
     /\ ran.result = answer

\* The last use that generated cores was with the daemon.
DaemonCores ==
  \E i \in DOMAIN uses :
    /\ "Core" \in uses[i].kinds /\ uses[i].with_daemon
    /\ \A j \in DOMAIN uses : j > i => "Core" \notin uses[j].kinds

\* A guest's execve consults the daemon when its function was linked or the
\* cores were last generated for it, also for other symbols (register_override,
\* "wins over BridgeSupport default", registry.rs:38; generate_c.rs:62), and the
\* bridge that takes it there is linked when some use of the generator was
\* asked for it, other than one for the daemon's cores, whose continue skips
\* the bridge (generate_c.rs:42).
DaemonOverridesExecve ==
  LET bridged == \E i \in DOMAIN uses :
                   /\ "InterposerBridge" \in uses[i].kinds /\ "execve" \in resolve_symbols(uses[i])
                   /\ ~("Core" \in uses[i].kinds /\ uses[i].with_daemon)
  IN  linked # None /\ lookup("execve") # None /\ (linked.daemon \/ DaemonCores)
      => /\ linked.daemon \/ <<"core", "execve">> \in DOMAIN files
         /\ CoreOf("execve").does = "daemon"
         /\ bridged => <<"interposer", "execve">> \in DOMAIN files
=============================================================================
