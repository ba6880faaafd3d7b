------------------------------- MODULE MCOsOp -------------------------------
(***************************************************************************)
(* Values for the stack machine and its backends, scaled: a byte is one    *)
(* bit, so a 64-bit value has eight and a 32-bit value four.               *)
(***************************************************************************)
EXTENDS Integers, Sequences, FiniteSets

MCWord == 0..255
MCHalf == 0..15
MCWidths == {1, 2, 4, 8}
MCAddresses == {0, 1}
MCMemories == [0..8 -> {0, 1}]

\* Bits from the lowest address up: little endian.
Unsigned(mem, a, width) ==
  LET sum[i \in 0..width] == IF i = 0 THEN 0 ELSE sum[i - 1] + mem[a + i - 1] * 2 ^ (i - 1)
  IN  sum[width]

MCRead(mem, a, width, signed) ==
  IF signed /\ mem[a + width - 1] = 1
  THEN Unsigned(mem, a, width) + 256 - 2 ^ width
  ELSE Unsigned(mem, a, width)

MCWrite(mem, a, width, v) ==
  [i \in DOMAIN mem |->
     IF i \in a..(a + width - 1) THEN (v \div 2 ^ (i - a)) % 2 ELSE mem[i]]

MCSignExtend(v) == IF v >= 8 THEN v + 240 ELSE v

MCWrap(v) == v % 16

\* A Number holds seven of the eight bits of a value: the nearest, and of
\* two the one that ends in zeros.
MCRound(v) == IF v < 128 \/ v % 2 = 0 THEN v ELSE IF v % 4 = 1 THEN v - 1 ELSE (v + 1) % 256

MCStartMemories == {[i \in 0..8 |-> IF i \in {0, 2, 3} THEN 1 ELSE 0]}
=============================================================================
