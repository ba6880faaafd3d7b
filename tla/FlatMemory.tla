----------------------------- MODULE FlatMemory -----------------------------
(***************************************************************************)
(* What os-page promises of a guest memory: bytes at addresses, of which   *)
(* some exist.  An access touches consecutive addresses, the last address  *)
(* followed by the first; it is done as a whole, or faults and changes     *)
(* nothing.                                                                *)
(***************************************************************************)
EXTENDS Integers

CONSTANTS
  M,        \* addresses are 0..M-1
  Widths,   \* access widths in bytes
  Accesses, \* addresses that are accessed
  Fault,    \* not a value
  Values,   \* numbers of the values that are written
  ValueAt(_)

VARIABLES
  bytes,    \* the byte at each address
  exists,   \* the addresses that exist; never changes
  result,   \* of the last access
  asked     \* the last access

vars == <<bytes, exists, result, asked>>

Access(op, addr, n, v) == [op |-> op, addr |-> addr, n |-> n, v |-> v]

Cell(addr, i) == (addr + i) % M
Cells(addr, n) == {Cell(addr, i) : i \in 0..(n - 1)}
Accessible(addr, n) == Cells(addr, n) \subseteq exists

Init ==
  /\ bytes = [a \in 0..(M - 1) |-> 0]
  /\ exists \in SUBSET (0..(M - 1))
  /\ result = Fault
  /\ asked = Access("none", 0, 0, 0)

ReadBytes(addr, n) ==
  /\ asked' = Access("read", addr, n, 0)
  /\ result' = IF Accessible(addr, n) THEN [i \in 0..(n - 1) |-> bytes[Cell(addr, i)]]
               ELSE Fault
  /\ UNCHANGED <<bytes, exists>>

\* value: the bytes of the value with number v, the lowest at index 0.
WriteBytes(addr, n, v) ==
  LET value == ValueAt(v) IN
  /\ asked' = Access("write", addr, n, v)
  /\ IF Accessible(addr, n)
     THEN /\ bytes' = [a \in 0..(M - 1) |->
                         IF a \in Cells(addr, n) THEN value[(a - addr) % M] ELSE bytes[a]]
          /\ result' = [i \in {} |-> 0]
     ELSE result' = Fault /\ UNCHANGED bytes
  /\ UNCHANGED exists

\* One byte, through a reference to its page.
Poke(addr, v) ==
  /\ Accessible(addr, 1)
  /\ asked' = Access("poke", addr, 1, v)
  /\ bytes' = [bytes EXCEPT ![addr] = ValueAt(v)[0]]
  /\ result' = [i \in {} |-> 0]
  /\ UNCHANGED exists

Next ==
  \E addr \in Accesses :
    \/ \E n \in Widths : ReadBytes(addr, n)
    \/ \E n \in Widths, v \in Values : WriteBytes(addr, n, v)
    \/ \E v \in Values : Poke(addr, v)

Spec == Init /\ [][Next]_vars
=============================================================================
