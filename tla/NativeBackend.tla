---------------------------- MODULE NativeBackend ----------------------------
(***************************************************************************)
(* The three backends of os-target-native.  Each emits straight-line       *)
(* machine code for an operation, so an action emits the code of one       *)
(* operation and runs it: on registers, and on the host stack, which holds *)
(* the caller's frame, the function's own frame record and the operands.   *)
(*                                                                         *)
(* The stack is a sequence of words, its top last; an address on it is the *)
(* number of words below.  Memory is reached through runtime helpers that  *)
(* are not part of the repository.                                         *)
(***************************************************************************)
EXTENDS Integers, Sequences, SequencesExt

CONSTANTS
  Backends,     \* configured backends: records, arch and frame (emit_frame)
  Word, Half, Addresses, Widths, Memories, Targets, Helpers, Nowhere,
  Read(_, _, _, _), Write(_, _, _, _),
  SignExtend(_),   \* (v as i32) as u64
  StartMemories,   \* guest memory at the start
  U64s, U32s,      \* the scalars a program pushes
  MaxOps,          \* bound: operations of a program
  MaxStack,        \* bound: operands on the stack
  TailsAreBare,    \* only x86-64 code without frame and operands tail-calls
  X86LeavesNothing \* an x86-64 program ends with an empty operand stack

ASSUME BackendAssumption ==
  Backends \subseteq [arch : {"x86_64", "aarch64", "riscv64"}, frame : BOOLEAN]

ASSUME BoundAssumption == MaxOps \in Nat /\ MaxStack \in Nat

ASSUME WidthAssumption == Widths \subseteq {1, 2, 4, 8}

ASSUME HalfAssumption == Half \subseteq Word

ASSUME AddressAssumption == Addresses \subseteq Word

ASSUME ScalarAssumption ==
  U64s \subseteq Word /\ U32s \subseteq Half /\ \A v \in Half : SignExtend(v) \in Word

\* Eight bytes are read alike whether they are signed or not.
ASSUME MemoryAssumption ==
  /\ StartMemories \subseteq Memories
  /\ \A mem \in Memories, a \in Addresses, w \in Widths :
       /\ \A signed \in BOOLEAN : Read(mem, a, w, signed) \in Word
       /\ \A v \in Word : Write(mem, a, w, v) \in Memories
  /\ \A mem \in Memories, a \in Addresses : Read(mem, a, 8, TRUE) = Read(mem, a, 8, FALSE)

\* Words of the host that are not values of the guest.
CallerFp == -1
ReturnAddress == -2
InsideCode == -3
Clobbered == -4

VARIABLES
  backend,  \* the backend in use
  m,        \* the machine: registers, stk, mem, status and at
  last,     \* history: the last operation
  ops       \* the number of operations emitted

vars == <<backend, m, last, ops>>

Frame == backend.frame
X86 == backend.arch = "x86_64"

-----------------------------------------------------------------------------
(***************************************************************************)
(* Instructions.  The registers of the three machines by their use: acc is *)
(* rax, x0 or a0; arg0 is rdi, x0 or a0; arg1 is rsi, x1 or a1; fp is rbp, *)
(* x29 or s0; lr is x30 or ra.                                             *)
(***************************************************************************)
Arg0 == IF X86 THEN "arg0" ELSE "acc"

Set(s, r, v) == [s EXCEPT !.reg[r] = v]

PushReg(s, r) == [s EXCEPT !.stk = Append(@, s.reg[r])]

PopReg(s, r) == [s EXCEPT !.reg[r] = Last(s.stk), !.stk = Front(@)]

\* What a call leaves in the registers: on x86-64 its return address is
\* gone from the stack again, on the others it is in the link register.
AfterCall(s) ==
  [s EXCEPT !.reg = [@ EXCEPT !["acc"] = Clobbered, !["arg0"] = Clobbered,
                              !["arg1"] = Clobbered, !["lr"] = InsideCode]]

-----------------------------------------------------------------------------
(***************************************************************************)
(* Runtime helpers                                                         *)
(***************************************************************************)
load_helper(width, signed) ==
  CASE width = 1 -> IF signed THEN "load_i8" ELSE "load_u8"
    [] width = 2 -> IF signed THEN "load_i16" ELSE "load_u16"
    [] width = 4 -> IF signed THEN "load_i32" ELSE "load_u32"
    [] width = 8 -> "load_u64"

store_helper(width) ==
  CASE width = 1 -> "store_u8"
    [] width = 2 -> "store_u16"
    [] width = 4 -> "store_u32"
    [] width = 8 -> "store_u64"

\* External: what the helper of each name does.
HelperWidth ==
  [load_u8 |-> 1, load_i8 |-> 1, load_u16 |-> 2, load_i16 |-> 2, load_u32 |-> 4,
   load_i32 |-> 4, load_u64 |-> 8, store_u8 |-> 1, store_u16 |-> 2, store_u32 |-> 4,
   store_u64 |-> 8]

HelperSigned == {"load_i8", "load_i16", "load_i32"}

CallLoad(s, helper) ==
  Set(AfterCall(s), "acc",
      Read(s.mem, s.reg[Arg0], HelperWidth[helper], helper \in HelperSigned))

CallStore(s, helper) ==
  [AfterCall(s) EXCEPT !.mem = Write(@, s.reg[Arg0], HelperWidth[helper], s.reg["arg1"])]

-----------------------------------------------------------------------------
(***************************************************************************)
(* Prologue and epilogue.  On x86-64 the caller has pushed the return      *)
(* address; the others have it in lr.                                      *)
(***************************************************************************)
Entry(b) ==
  [reg    |-> [r \in {"acc", "arg0", "arg1", "fp", "lr"} |->
                 CASE r = "fp" -> CallerFp
                   [] r = "lr" -> IF b.arch = "x86_64" THEN Clobbered ELSE ReturnAddress
                   [] OTHER -> Clobbered],
   stk    |-> IF b.arch = "x86_64" THEN <<ReturnAddress>> ELSE <<>>,
   mem    |-> Clobbered,
   status |-> "run",
   at     |-> Nowhere]

\* Mutant: the frame record is pushed whether or not it is asked for.
emit_prologue_always(s) ==
  LET saved == IF X86 THEN PushReg(s, "fp") ELSE PushReg(PushReg(s, "lr"), "fp")
  IN  Set(saved, "fp", Len(saved.stk))

\* push rbp; mov rbp, rsp / stp x29, x30, [sp, #-16]!; mov x29, sp /
\* addi sp, sp, -16; sd ra, 0(sp); sd fp, 8(sp); mv fp, sp
emit_prologue(s) ==
  IF ~Frame THEN s
  ELSE LET saved == CASE X86 -> PushReg(s, "fp")
                      [] backend.arch = "aarch64" -> PushReg(PushReg(s, "lr"), "fp")
                      [] backend.arch = "riscv64" -> PushReg(PushReg(s, "fp"), "lr")
       IN  Set(saved, "fp", Len(saved.stk))

\* sp := fp
Realign(s) == [s EXCEPT !.stk = SubSeq(@, 1, s.reg["fp"])]

\* The return address is popped on x86-64, and in lr otherwise.
Return(s) ==
  IF X86 THEN [s EXCEPT !.at = Last(s.stk), !.stk = Front(@)]
  ELSE [s EXCEPT !.at = s.reg["lr"]]

\* Mutant: the stack pointer is not set back to the frame record.
emit_epilogue_unaligned(s) ==
  IF ~Frame THEN s
  ELSE Return(CASE X86 -> PopReg(s, "fp")
                [] backend.arch = "aarch64" -> PopReg(PopReg(s, "fp"), "lr")
                [] backend.arch = "riscv64" -> PopReg(PopReg(s, "lr"), "fp"))

\* pop rbp; ret / mov sp, x29; ldp x29, x30, [sp], #16; ret /
\* mv sp, fp; ld fp, 8(sp); ld ra, 0(sp); addi sp, sp, 16; ret
emit_epilogue(s) ==
  IF ~Frame THEN s
  ELSE Return(CASE X86 -> PopReg(s, "fp")
                [] backend.arch = "aarch64" -> PopReg(PopReg(Realign(s), "fp"), "lr")
                [] backend.arch = "riscv64" -> PopReg(PopReg(Realign(s), "lr"), "fp"))

-----------------------------------------------------------------------------
(***************************************************************************)
(* The code of each operation                                              *)
(***************************************************************************)
CodePushU64(s, v) == PushReg(Set(s, "acc", v), "acc")

\* aarch64 and riscv64 sign-extend the scalar, x86_64 does not.
CodePushU32(s, v) ==
  PushReg(Set(s, "acc", IF X86 THEN v ELSE SignExtend(v)), "acc")

CodePop(s) == PopReg(s, "acc")

CodeLoad(s, width, signed) ==
  PushReg(CallLoad(PopReg(s, Arg0), load_helper(width, signed)), "acc")

\* Mutant: the operands are popped in the other order.
CodeStoreSwapped(s, width) ==
  CallStore(PopReg(PopReg(s, "arg1"), Arg0), store_helper(width))

CodeStore(s, width) ==
  CallStore(PopReg(PopReg(s, Arg0), "arg1"), store_helper(width))

CodeEcall(s) == AfterCall(s)

\* The target is the address on the stack.
CodeJump(s, target) ==
  LET popped == PopReg(s, "acc")
  IN  [popped EXCEPT !.status = "jump", !.at = popped.reg["acc"]]

\* Mutant: the helper is called and not jumped to.
CodeTailCallCalled(s, helper) ==
  [s EXCEPT !.status = "tail", !.at = helper, !.reg["lr"] = InsideCode,
            !.stk = IF X86 THEN Append(@, InsideCode) ELSE @]

CodeTailCall(s, helper) == [s EXCEPT !.status = "tail", !.at = helper]

CodeTrap(s) == [s EXCEPT !.status = "trap"]

CodeFinish(s) == [emit_epilogue(s) EXCEPT !.status = "done"]

-----------------------------------------------------------------------------
\* The operands: what lies above the frame record, or above the return
\* address if there is none.
Base ==
  CASE X86 -> IF Frame THEN 2 ELSE 1
    [] OTHER -> IF Frame THEN 2 ELSE 0

Operands == SubSeq(m.stk, Base + 1, Len(m.stk))
Depth == Len(m.stk) - Base

\* What the machine is as one of OsOp.
AbsStack == IF m.status = "run" THEN Operands ELSE <<>>
AbsAt    == IF m.status \in {"jump", "tail"} THEN m.at ELSE Nowhere

Promise == INSTANCE OsOp WITH
  stack <- AbsStack, mem <- m.mem, status <- m.status, at <- AbsAt, op <- last,
  order <- "addr"

Op(name, width, signed, value) == Promise!Op(name, width, signed, value)
Plain(name) == Promise!Plain(name)

Emit(op, code) ==
  /\ m.status = "run"
  /\ ops < MaxOps
  /\ ops' = ops + 1
  /\ last' = op
  /\ m' = code
  /\ UNCHANGED backend

Init ==
  /\ backend \in Backends
  /\ \E mem \in StartMemories : m = [emit_prologue(Entry(backend)) EXCEPT !.mem = mem]
  /\ last = Plain("none")
  /\ ops = 0

PushU64(v) == /\ Depth < MaxStack
              /\ Emit(Op("PushU64", 0, FALSE, v), CodePushU64(m, v))

PushU32(v) == /\ Depth < MaxStack
              /\ Emit(Op("PushU32", 0, FALSE, v), CodePushU32(m, v))

Pop == /\ Depth >= 1
       /\ Emit(Plain("Pop"), CodePop(m))

Load(width, signed) ==
  /\ Depth >= 1
  /\ Last(Operands) \in Addresses
  /\ Emit(Op("Load", width, signed, 0), CodeLoad(m, width, signed))

Store(width) ==
  /\ Depth >= 2
  /\ Last(Operands) \in Addresses
  /\ Emit(Op("Store", width, FALSE, 0), CodeStore(m, width))

Ecall == Emit(Plain("Ecall"), CodeEcall(m))

\* The recompiler pushes the address before the Jump
\* (docs/integrations/speet.md:37).
Jump(target) ==
  /\ Depth >= 1
  /\ Last(Operands) = target
  /\ Emit(Op("Jump", 0, FALSE, target), CodeJump(m, target))

TailCall(helper) ==
  /\ TailsAreBare => X86 /\ ~Frame /\ Depth = 0
  /\ Emit(Op("TailCall", 0, FALSE, helper), CodeTailCall(m, helper))

Trap == Emit(Plain("Trap"), CodeTrap(m))

Finish ==
  /\ X86LeavesNothing /\ X86 => Depth = 0
  /\ Emit(Plain("finish"), CodeFinish(m))

Next ==
  \/ \E v \in U64s : PushU64(v)
  \/ \E v \in U32s : PushU32(v)
  \/ Pop
  \/ \E w \in Widths, signed \in BOOLEAN : Load(w, signed)
  \/ \E w \in Widths : Store(w)
  \/ Ecall
  \/ \E t \in Targets : Jump(t)
  \/ \E h \in Helpers : TailCall(h)
  \/ Trap
  \/ Finish

Spec == Init /\ [][Next]_vars

-----------------------------------------------------------------------------
(***************************************************************************)
(* Properties                                                              *)
(***************************************************************************)
\* The operand stack never reaches into the frame, and whatever is on it is
\* a value of the guest (op, x86_64.rs:243-295 and its siblings).
TypeOK ==
  /\ ops \in 0..MaxOps
  /\ m.mem \in Memories
  /\ m.status \in {"run", "jump", "tail", "trap", "done"}
  /\ m.status = "run" => Depth >= 0 /\ Operands \in Seq(Word)

\* The code that a backend emits for a program does what the program means
\* (Backend::op of the three backends): the same operands, the same memory,
\* the same way out.
ImplementsOsOp == Promise!Spec

\* A helper that is tail-called returns to the caller of the code, with the
\* caller's frame pointer ("Tail-call a host/guest helper",
\* os-target-core/src/lib.rs:52).
TailCallReturnsToCaller ==
  m.status = "tail" =>
    /\ IF X86 THEN m.stk # <<>> /\ Last(m.stk) = ReturnAddress
       ELSE m.reg["lr"] = ReturnAddress
    /\ m.reg["fp"] = CallerFp

\* A framed function returns to its caller with the caller's frame pointer
\* and stack, whatever operands it leaves ("Realign SP to the saved frame
\* record before popping it", aarch64.rs:138); so does code without frame and
\* operands through the helper it ends with.
ReturnsToCaller ==
  backend \in Backends =>
    /\ m.status = "done" /\ Frame =>
         /\ m.at = ReturnAddress
         /\ m.reg["fp"] = CallerFp
         /\ m.stk = <<>>
    /\ TailsAreBare => TailCallReturnsToCaller
=============================================================================
