----------------------------- MODULE WaxBackend -----------------------------
(***************************************************************************)
(* The WebAssembly backend of os-target-wax.  The operand stack is that of *)
(* the emitted function, typed; an instruction whose operands have other   *)
(* types than it takes makes the function invalid.                         *)
(***************************************************************************)
EXTENDS Integers, Sequences

CONSTANTS
  Word, Half, Addresses, Widths, Memories, Targets, Helpers, Nowhere,
  Read(_, _, _, _), Write(_, _, _, _), SignExtend(_),
  Wrap(_),         \* the low 32 bits
  StartMemories,   \* guest memory at the start
  U64s, U32s,      \* the scalars a program pushes
  MaxOps,          \* bound: operations of a program
  MaxStack         \* bound: operands on the stack

VARIABLES
  backend,  \* the WaxConfig: memory64, ecall (ecall_import is some), scratch
  m,        \* the function: stk, the two scratch locals, mem, status
  last,     \* history: the last operation
  ops       \* the number of operations emitted

vars == <<backend, m, last, ops>>

I32(v) == [t |-> "i32", v |-> v]
I64(v) == [t |-> "i64", v |-> v]

-----------------------------------------------------------------------------
(***************************************************************************)
(* Instructions.  Each takes operands of given types, the last on top.     *)
(* Nothing happens after a trap or in an invalid function.                 *)
(***************************************************************************)
Top(s)   == s.stk[Len(s.stk)].v
Below(s) == s.stk[Len(s.stk) - 1].v
DropN(s, n) == SubSeq(s.stk, 1, Len(s.stk) - n)

\* The operands on top have these types.
OnTop(s, types) ==
  /\ Len(types) <= Len(s.stk)
  /\ \A i \in 1..Len(types) : s.stk[Len(s.stk) - Len(types) + i].t = types[i]

Instr(s, types, effect) ==
  CASE s.status # "run" -> s
    [] s.status = "run" /\ OnTop(s, types) -> effect
    [] OTHER -> [s EXCEPT !.status = "invalid"]

Replace(s, x) == [s EXCEPT !.stk = Append(DropN(s, 1), x)]

I64Const(s, v)   == Instr(s, <<>>, [s EXCEPT !.stk = Append(@, I64(v))])
DropTop(s)       == Instr(s, <<s.stk[Len(s.stk)].t>>, [s EXCEPT !.stk = DropN(s, 1)])
I32WrapI64(s)    == Instr(s, <<"i64">>, Replace(s, I32(Wrap(Top(s)))))
I64ExtendI32S(s) == Instr(s, <<"i32">>, Replace(s, I64(SignExtend(Top(s)))))
I64ExtendI32U(s) == Instr(s, <<"i32">>, Replace(s, I64(Top(s))))
Unreachable(s)   == Instr(s, <<>>, [s EXCEPT !.status = "trap"])

LocalSet(s, l) == Instr(s, <<"i64">>, [s EXCEPT !.local[l] = Top(s), !.stk = DropN(s, 1)])
LocalGet(s, l) == Instr(s, <<>>, [s EXCEPT !.stk = Append(@, I64(s.local[l]))])

\* The type of an address in the memory.
Addr == IF backend.memory64 THEN "i64" ELSE "i32"

I64Load(s, width, signed) ==
  Instr(s, <<Addr>>, Replace(s, I64(Read(s.mem, Top(s), width, signed))))
I32Load(s) == Instr(s, <<Addr>>, Replace(s, I32(Read(s.mem, Top(s), 4, FALSE))))

\* A store takes the address and then, on top, the value.
MemStore(s, type, width) ==
  Instr(s, <<Addr, type>>,
        [s EXCEPT !.mem = IF Below(s) \in Addresses
                          THEN Write(@, Below(s), width, Top(s)) ELSE @,
                  !.status = IF Below(s) \in Addresses THEN "run" ELSE "trap",
                  !.stk = DropN(s, 2)])

-----------------------------------------------------------------------------
(***************************************************************************)
(* What each operation emits                                               *)
(***************************************************************************)
emit_addr(s) == IF backend.memory64 THEN s ELSE I32WrapI64(s)

\* Mutant: the extensions of a 32-bit load are exchanged.
emit_load_extend_swapped(s, width, signed) ==
  IF width = 4
  THEN IF signed THEN I64ExtendI32U(I32Load(s)) ELSE I64ExtendI32S(I32Load(s))
  ELSE I64Load(s, width, signed)

emit_load_extend(s, width, signed) ==
  IF width = 4
  THEN IF signed THEN I64ExtendI32S(I32Load(s)) ELSE I64ExtendI32U(I32Load(s))
  ELSE I64Load(s, width, signed)

emit_store_wrap(s, width) == MemStore(s, IF width = 4 THEN "i32" ELSE "i64", width)

\* The value is emitted before the address, and wrapped unless it is W64.
CodeStore(s, width) ==
  IF ~backend.scratch THEN Unreachable(s)
  ELSE LET captured == LocalSet(LocalSet(s, "addr"), "value")
           value    == LocalGet(captured, "value")
           wrapped  == IF width = 8 THEN value ELSE I32WrapI64(value)
       IN  emit_store_wrap(emit_addr(LocalGet(wrapped, "addr")), width)

\* External: the imported function answers in place of the top, or takes
\* and gives nothing.
CodeEcall(s, answer) ==
  IF ~backend.ecall THEN Unreachable(s)
  ELSE IF answer = Nowhere THEN s
  ELSE Instr(s, <<"i64">>, Replace(s, I64(answer)))

-----------------------------------------------------------------------------
Depth == Len(m.stk)

AbsStack == IF m.status = "run" THEN [i \in DOMAIN m.stk |-> m.stk[i].v] ELSE <<>>

\* An operation that the backend cannot encode is emitted as a trap.
AbsOp == IF m.status = "trap" THEN [op |-> "Trap", width |-> 0, signed |-> FALSE, value |-> 0]
         ELSE last

Promise == INSTANCE OsOp WITH
  stack <- AbsStack, mem <- m.mem, status <- m.status, at <- Nowhere, op <- AbsOp,
  order <- "addr"

Op(name, width, signed, value) == Promise!Op(name, width, signed, value)
Plain(name) == Promise!Plain(name)

Emit(op, code) ==
  /\ m.status = "run"
  /\ ops < MaxOps
  /\ ops' = ops + 1
  /\ last' = op
  /\ m' = code
  /\ UNCHANGED backend

Init(backends) ==
  /\ backend \in backends
  /\ \E mem \in StartMemories :
       m = [stk |-> <<>>, local |-> [addr |-> 0, value |-> 0], mem |-> mem, status |-> "run"]
  /\ last = Plain("none")
  /\ ops = 0

PushU64(v) == Depth < MaxStack /\ Emit(Op("PushU64", 0, FALSE, v), I64Const(m, v))
PushU32(v) == Depth < MaxStack /\ Emit(Op("PushU32", 0, FALSE, v), I64Const(m, v))
Pop        == Depth >= 1 /\ Emit(Plain("Pop"), DropTop(m))

Load(width, signed) ==
  /\ Depth >= 1
  /\ Top(m) \in Addresses
  /\ Emit(Op("Load", width, signed, 0), emit_load_extend(emit_addr(m), width, signed))

Store(width) ==
  /\ Depth >= 2
  /\ Top(m) \in Addresses
  /\ Emit(Op("Store", width, FALSE, 0), CodeStore(m, width))

Ecall ==
  \E answer \in {Nowhere} \cup U64s :
    /\ answer # Nowhere => Depth >= 1
    /\ Emit(Plain("Ecall"), CodeEcall(m, answer))

Jump(target)     == Emit(Op("Jump", 0, FALSE, target), Unreachable(m))
TailCall(helper) == Emit(Op("TailCall", 0, FALSE, helper), Unreachable(m))
Trap             == Emit(Plain("Trap"), Unreachable(m))
Finish           == Emit(Plain("finish"), [m EXCEPT !.status = "done"])

Next ==
  \/ \E v \in U64s : PushU64(v)
  \/ \E v \in U32s : PushU32(v)
  \/ Pop
  \/ \E w \in Widths, signed \in BOOLEAN : Load(w, signed)
  \/ \E w \in Widths : Store(w)
  \/ Ecall
  \/ \E t \in Targets : Jump(t)
  \/ \E h \in Helpers : TailCall(h)
  \/ Trap
  \/ Finish
=============================================================================
