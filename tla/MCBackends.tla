----------------------------- MODULE MCBackends -----------------------------
(***************************************************************************)
(* What recompiled code is and what it runs on.  An initial state is that  *)
(* of one of the backends of OsOp, and its behaviours are the programs of  *)
(* that backend; or of a guest memory, and they are accesses to it; or of  *)
(* a guest that makes system calls.                                        *)
(***************************************************************************)
EXTENDS NativeBackend, MCOsOp, MCGuestMemory, LinuxWasi

CONSTANTS
  WaxConfigs, JsConfigs,  \* configurations of the two backends
  Wrap(_),                \* the low 32 bits
  Round(_)                \* the Number nearest to a BigInt

\* Addresses fit a 32-bit memory, and a Number.
ASSUME AddressesFit == \A a \in Addresses : Wrap(a) = a /\ Round(a) = a

\* Four bytes that are read signed are four bytes that are extended.
ASSUME ExtensionAssumption ==
  \A mem \in Memories, a \in Addresses : SignExtend(Read(mem, a, 4, FALSE)) = Read(mem, a, 4, TRUE)


VARIABLE part  \* which of them the behaviour is about; the others do nothing

AllNative       == [arch : {"x86_64", "aarch64", "riscv64"}, frame : BOOLEAN]
Aarch64Default  == {[arch |-> "aarch64", frame |-> TRUE]}
WaxNoScratch    == [arch : {"wasm"}, memory64 : BOOLEAN, ecall : BOOLEAN, scratch : {FALSE}]
JsScoped        == {[arch |-> "js", prefix |-> TRUE, scoped |-> TRUE]}
None            == {}

SmallU32s  == {1, 7}
MCU64s     == {0, 1, 201}
MCTargets  == {1, 201}
MCHelpers  == {301}

W == INSTANCE WaxBackend
J == INSTANCE JsBackend WITH ExactOnly <- TRUE

IsWax == backend.arch = "wasm"
IsJs  == backend.arch = "js"

MCContents == {<<1, 0, 1>>, <<0>>}
MCWasiMemories == {[a \in Addr |-> a % 2], [a \in Addr |-> 1]}

\* Code that is not run, a memory that is not accessed, a guest without calls.
NoCode   == Init /\ backend = CHOOSE bk \in Backends : TRUE
NoMemory == TableInit /\ kind = "legacy"
NoCalls  ==
  /\ WasiInit
  /\ linear = CHOOSE mem \in WasiMemories : TRUE
  /\ \A d \in DOMAIN wfiles : wfiles[d].input = CHOOSE c \in Contents : TRUE

MCInit ==
  \/ /\ part = "code" /\ NoMemory /\ NoCalls
     /\ Init \/ W!Init(WaxConfigs) \/ J!Init(JsConfigs)
  \/ part = "memory" /\ TableInit /\ NoCode /\ NoCalls
  \/ part = "calls" /\ WasiInit /\ NoCode /\ NoMemory

CodeStays   == UNCHANGED <<part, memoryVars, tableVars, wasiVars>>
NativeNext  == part = "code" /\ ~IsWax /\ ~IsJs /\ Next /\ CodeStays
WaxNext     == part = "code" /\ IsWax /\ W!Next /\ CodeStays
JsNext      == part = "code" /\ IsJs /\ J!Next /\ CodeStays
TablesNext  == part = "memory" /\ TableNext /\ UNCHANGED <<part, vars, wasiVars>>
CallsNext   == part = "calls" /\ WasiNext /\ UNCHANGED <<part, vars, memoryVars, tableVars>>

MCNext == NativeNext \/ WaxNext \/ JsNext \/ TablesNext \/ CallsNext

MCSpec == MCInit /\ [][MCNext]_<<part, vars, memoryVars, tableVars, wasiVars>>

\* TypeOK (NativeBackend) of the native machines; the stack of the others
\* holds values.  MemoryTypeOK (GuestMemory) and WasiTypeOK (LinuxWasi).
MCTypeOK ==
  /\ part = "memory" => MemoryTypeOK
  /\ part = "calls" => WasiTypeOK
  /\ CASE IsWax -> m.stk \in Seq([t : {"i64"}, v : Word]) /\ m.mem \in Memories
       [] IsJs -> m.stk \in Seq([t : {"BigInt", "Number"}, v : Word]) /\ m.mem \in Memories
       [] OTHER -> TypeOK

\* Five code generators and one meaning: what each emits for a program does
\* what OsOp says of the program.  WebAssembly may trap instead, and
\* JavaScript throw; JavaScript takes the value of a store on top.
Machine == INSTANCE OsOp WITH
  stack  <- CASE IsWax -> W!AbsStack [] IsJs -> J!AbsStack [] OTHER -> AbsStack,
  mem    <- m.mem,
  status <- m.status,
  at     <- CASE IsWax -> Nowhere [] IsJs -> m.at [] OTHER -> AbsAt,
  op     <- CASE IsWax -> W!AbsOp [] IsJs -> J!AbsOp [] OTHER -> last,
  order  <- IF IsJs THEN "value" ELSE "addr"

EveryBackendImplementsOsOp ==
  Machine!Init /\ [][part = "code" => [Machine!Next]_(Machine!vars)]_vars

\* ImplementsFlatMemory (GuestMemory): what is read is what was written there.
MCImplementsFlatMemory ==
  Flat!Init /\ [][part = "memory" => [Flat!Next]_(Flat!vars)]_memoryVars

\* ImplementsLinuxCalls (LinuxWasi): a guest's calls are those of Linux.
MCImplementsLinuxCalls ==
  Linux!Init /\ [][part = "calls" => [Linux!Call]_(Linux!linuxVars)]_wasiVars
=============================================================================
