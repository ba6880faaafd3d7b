------------------------------ MODULE JsBackend ------------------------------
(***************************************************************************)
(* The JavaScript backend of os-page-codegen.  The operand stack is an     *)
(* array of the program that the emitted statements are embedded in; its   *)
(* values are BigInts and Numbers.  A Number is kept here as the 64-bit    *)
(* value it is congruent to.                                               *)
(***************************************************************************)
EXTENDS Integers, Sequences

CONSTANTS
  Word, Half, Addresses, Widths, Memories, Targets, Helpers, Nowhere,
  Read(_, _, _, _), Write(_, _, _, _),
  Round(_),        \* the Number nearest to a BigInt
  StartMemories,   \* guest memory at the start
  U64s, U32s,      \* the scalars a program pushes
  MaxOps,          \* bound: operations of a program
  MaxStack,        \* bound: operands on the stack
  ExactOnly        \* stores of fewer than 64 bits store values a Number holds

VARIABLES
  backend,  \* prefix: helper_prefix names an object; scoped: each operation
            \* is embedded in a block of its own
  m,        \* the program: stk, the names declared, mem, status, at
  last,     \* history: the last operation
  ops       \* the number of operations emitted

vars == <<backend, m, last, ops>>

Big(v) == [t |-> "BigInt", v |-> v]
Num(v) == [t |-> "Number", v |-> v]

Top(s)      == s.stk[Len(s.stk)]
Below(s)    == s.stk[Len(s.stk) - 1]
DropN(s, n) == SubSeq(s.stk, 1, Len(s.stk) - n)

Number(x) == IF x.t = "Number" THEN x.v ELSE Round(x.v)

-----------------------------------------------------------------------------
\* let: a second declaration of a name in a block is a SyntaxError.
Let(s, names) ==
  IF names \cap s.declared # {} THEN [s EXCEPT !.status = "invalid"]
  ELSE [s EXCEPT !.declared = IF backend.scoped THEN {} ELSE @ \cup names]

\* Without a prefix the text of the call begins with a dot: a SyntaxError.
Helper(s) == IF backend.prefix THEN s ELSE [s EXCEPT !.status = "invalid"]

memory_read_expr(s, addr, width, signed) ==
  LET v == Read(s.mem, Number(addr), width, signed)
  IN  IF width = 8 THEN Big(v) ELSE Num(v)

\* setBigUint64 takes no Number; the other setters convert theirs.
memory_write_expr(s, addr, width, value) ==
  IF width = 8 /\ value.t = "Number" THEN [s EXCEPT !.status = "trap"]
  ELSE [s EXCEPT !.mem =
          Write(@, Number(addr), width, IF width = 8 THEN value.v ELSE Number(value))]

Push(s, x) == [s EXCEPT !.stk = Append(@, x)]

CodeLoad(s, width, signed) ==
  LET popped == [Helper(Let(s, {"__addr"})) EXCEPT !.stk = DropN(s, 1)]
  IN  Push(popped, memory_read_expr(s, Top(s), width, signed))

\* Mutant: the operands of a store in the order of OsOp.
CodeStoreInOrder(s, width) ==
  LET popped == [Helper(Let(s, {"__val", "__addr"})) EXCEPT !.stk = DropN(s, 2)]
  IN  memory_write_expr(popped, Top(s), width, Below(s))

\* let __val = pop(); let __addr = pop()
CodeStore(s, width) ==
  LET popped == [Helper(Let(s, {"__val", "__addr"})) EXCEPT !.stk = DropN(s, 2)]
  IN  memory_write_expr(popped, Below(s), width, Top(s))

CodeEcall(s, answer) ==
  [Helper(Let(s, {"__ecall", "__ret"})) EXCEPT !.stk = Append(DropN(s, 1), answer)]

CodeTailCall(s, helper) ==
  IF backend.prefix THEN [s EXCEPT !.status = "tail", !.at = helper] ELSE Helper(s)

\* A jump throws an Error like a trap: "not resolved".
CodeTrap(s) == [s EXCEPT !.status = "trap"]

-----------------------------------------------------------------------------
Depth == Len(m.stk)

AbsStack == IF m.status = "run" THEN [i \in DOMAIN m.stk |-> m.stk[i].v] ELSE <<>>

\* What the backend cannot do throws, which is what a trap does.
AbsOp == IF m.status = "trap" THEN [op |-> "Trap", width |-> 0, signed |-> FALSE, value |-> 0]
         ELSE last

Promise == INSTANCE OsOp WITH
  stack <- AbsStack, mem <- m.mem, status <- m.status, at <- m.at, op <- AbsOp,
  order <- "value"

Op(name, width, signed, value) == Promise!Op(name, width, signed, value)
Plain(name) == Promise!Plain(name)

Emit(op, code) ==
  /\ m.status = "run"
  /\ ops < MaxOps
  /\ ops' = ops + 1
  /\ last' = op
  /\ m' = code
  /\ UNCHANGED backend

Init(backends) ==
  /\ backend \in backends
  /\ \E mem \in StartMemories :
       m = [stk |-> <<>>, declared |-> {}, mem |-> mem, status |-> "run", at |-> Nowhere]
  /\ last = Plain("none")
  /\ ops = 0

PushU64(v) == Depth < MaxStack /\ Emit(Op("PushU64", 0, FALSE, v), Push(m, Big(v)))
PushU32(v) == Depth < MaxStack /\ Emit(Op("PushU32", 0, FALSE, v), Push(m, Big(v)))
Pop        == Depth >= 1 /\ Emit(Plain("Pop"), [m EXCEPT !.stk = DropN(m, 1)])

Load(width, signed) ==
  /\ Depth >= 1
  /\ Top(m).v \in Addresses
  /\ Emit(Op("Load", width, signed, 0), CodeLoad(m, width, signed))

Store(width) ==
  /\ Depth >= 2
  /\ Below(m).v \in Addresses
  /\ ExactOnly /\ width # 8 => Number(Top(m)) = Top(m).v
  /\ Emit(Op("Store", width, FALSE, 0), CodeStore(m, width))

\* External: the answer of the ecall helper, awaited or not.
Ecall ==
  \E answer \in U64s :
    /\ Depth >= 1
    /\ Emit(Plain("Ecall"), CodeEcall(m, Big(answer)))

Jump(target)     == Emit(Op("Jump", 0, FALSE, target), CodeTrap(m))
TailCall(helper) == Emit(Op("TailCall", 0, FALSE, helper), CodeTailCall(m, helper))
Trap             == Emit(Plain("Trap"), CodeTrap(m))
Finish           == Emit(Plain("finish"), [m EXCEPT !.status = "done"])

Next ==
  \/ \E v \in U64s : PushU64(v)
  \/ \E v \in U32s : PushU32(v)
  \/ Pop
  \/ \E w \in Widths, signed \in BOOLEAN : Load(w, signed)
  \/ \E w \in Widths : Store(w)
  \/ Ecall
  \/ \E t \in Targets : Jump(t)
  \/ \E h \in Helpers : TailCall(h)
  \/ Trap
  \/ Finish
=============================================================================
