-------------------------------- MODULE OsOp --------------------------------
(***************************************************************************)
(* The stack machine that os-target-core defines: what a sequence of OsOps *)
(* means, which every code generator has to implement.  A step is one      *)
(* operation.  The operands of an Ecall are left to the backend by the     *)
(* source: it may or may not replace the top of the stack by an answer.    *)
(* The operation is recorded, so that an implementation has to do the      *)
(* operation that it was given and not just any.                           *)
(***************************************************************************)
EXTENDS Integers, Sequences

CONSTANTS
  Word,            \* 64-bit values
  Half,            \* 32-bit values, a part of Word
  Addresses,       \* guest addresses where an access of any width is in memory
  Widths,          \* access widths in bytes
  Memories,        \* contents of guest memory
  Targets,         \* addresses that are jumped to
  Helpers,         \* labels that are tail-called
  Nowhere,         \* control has not left the code
  Read(_, _, _, _),  \* Read(mem, addr, width, signed)
  Write(_, _, _, _) \* Write(mem, addr, width, value)

VARIABLES
  stack,    \* operands, the top last
  mem,      \* guest memory
  status,   \* "run", or how the code was left
  at,       \* where control went
  op,       \* the last operation
  order     \* the operand of a Store that is on top: "addr" or "value"

vars == <<stack, mem, status, at, op, order>>

Op(name, width, signed, value) ==
  [op |-> name, width |-> width, signed |-> signed, value |-> value]

Plain(name) == Op(name, 0, FALSE, 0)

Init ==
  /\ stack = <<>>
  /\ mem \in Memories
  /\ status = "run"
  /\ at = Nowhere
  /\ op = Plain("none")
  /\ order \in {"addr", "value"}

\* The operand on top, the one below it, and what is left without n of them.
Top     == stack[Len(stack)]
Below   == stack[Len(stack) - 1]
Drop(n) == SubSeq(stack, 1, Len(stack) - n)

Push(v) ==
  /\ status = "run"
  /\ stack' = Append(stack, v)
  /\ UNCHANGED <<mem, status, at, order>>

PushU64(v) == Push(v) /\ op' = Op("PushU64", 0, FALSE, v)

\* "Push an unsigned 32-bit scalar": the value itself.
PushU32(v) == Push(v) /\ op' = Op("PushU32", 0, FALSE, v)

Pop ==
  /\ status = "run"
  /\ stack # <<>>
  /\ stack' = Drop(1)
  /\ op' = Plain("Pop")
  /\ UNCHANGED <<mem, status, at, order>>

Load(width, signed) ==
  /\ status = "run"
  /\ stack # <<>>
  /\ Top \in Addresses
  /\ stack' = Append(Drop(1), Read(mem, Top, width, signed))
  /\ op' = Op("Load", width, signed, 0)
  /\ UNCHANGED <<mem, status, at, order>>

\* "value pushed first, address on top" is the order "addr".
Store(width) ==
  LET addr  == IF order = "addr" THEN Top ELSE Below
      value == IF order = "addr" THEN Below ELSE Top
  IN  /\ status = "run"
      /\ Len(stack) >= 2
      /\ addr \in Addresses
      /\ mem' = Write(mem, addr, width, value)
      /\ stack' = Drop(2)
      /\ op' = Op("Store", width, FALSE, 0)
      /\ UNCHANGED <<status, at, order>>

Ecall ==
  /\ status = "run"
  /\ \/ UNCHANGED stack
     \/ stack # <<>> /\ \E v \in Word : stack' = Append(Drop(1), v)
  /\ op' = Plain("Ecall")
  /\ UNCHANGED <<mem, status, at, order>>

Leave(how, where) ==
  /\ status = "run"
  /\ status' = how
  /\ at' = where
  /\ stack' = <<>>
  /\ UNCHANGED <<mem, order>>

Jump(target)     == Leave("jump", target) /\ op' = Op("Jump", 0, FALSE, target)
TailCall(helper) == Leave("tail", helper) /\ op' = Op("TailCall", 0, FALSE, helper)
Trap             == Leave("trap", Nowhere) /\ op' = Plain("Trap")
Finish           == Leave("done", Nowhere) /\ op' = Plain("finish")

Next ==
  \/ \E v \in Word : PushU64(v)
  \/ \E v \in Half : PushU32(v)
  \/ Pop
  \/ \E w \in Widths, signed \in BOOLEAN : Load(w, signed)
  \/ \E w \in Widths : Store(w)
  \/ Ecall
  \/ \E t \in Targets : Jump(t)
  \/ \E h \in Helpers : TailCall(h)
  \/ Trap
  \/ Finish

Spec == Init /\ [][Next]_vars
=============================================================================
