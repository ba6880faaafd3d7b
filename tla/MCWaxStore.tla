----------------------------- MODULE MCWaxStore -----------------------------
(***************************************************************************)
(* The WebAssembly backend with scratch locals, and the state before the   *)
(* last operation as history.                                              *)
(***************************************************************************)
EXTENDS WaxBackend, MCOsOp

VARIABLE before  \* operands and memory before the last operation

Memory32 == {[arch |-> "wasm", memory64 |-> FALSE, ecall |-> FALSE, scratch |-> TRUE]}
Word32   == {4}
TwoU64s  == {0, 1}
NoU32s   == {}
AllOnes  == {[i \in 0..8 |-> 1]}

MCInit == Init(Memory32) /\ before = [stack |-> <<>>, mem |-> m.mem]

MCNext == Next /\ before' = [stack |-> AbsStack, mem |-> m.mem]

MCSpec == MCInit /\ [][MCNext]_<<vars, before>>

\* A store writes the operand below the top to the address on top, or traps
\* ("Capture both operands and emit them in WASM store order",
\* os-target-wax/src/lib.rs:180).
StoresWhereAsked ==
  last.op = "Store" =>
    LET n == Len(before.stack)
    IN  \/ m.status = "trap" /\ m.mem = before.mem
        \/ /\ m.status = "run"
           /\ m.mem = Write(before.mem, before.stack[n], last.width, before.stack[n - 1])
=============================================================================
