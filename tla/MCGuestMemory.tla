---------------------------- MODULE MCGuestMemory ----------------------------
(***************************************************************************)
(* Values for GuestMemory and SharedPageTable, scaled: a byte is one bit,  *)
(* so there are 2^8 addresses and 2^2 bytes in a page.                     *)
(***************************************************************************)
EXTENDS SharedPageTable

MCByte     == {0, 1}
MCKinds    == {"legacy", "linear", "tables"}

\* In a page, across a page boundary, across the last address; around the
\* base of the linear memory and around its end, and so far from the base that
\* the end of an access is beyond usize.
MCAccesses == {3, 4, 10, 14, 254}

MCValueAt(v) ==
  [i \in 0..7 |-> IF v = 1 THEN 1 ELSE IF i \in {0, 3, 4, 6} THEN 1 ELSE 0]
MCValues == {1, 2}

MCTables == [levels : {2, 3}, pte_bytes : {4, 8}]

\* Pages that differ in their last, second and first index.
MCVirtualPages == {0, 1, 6, 23}
MCPhysical     == {1, 6, 11, 13, 42}

\* One root, a table for each first index in use, one for each pair.  An
\* entry of half the width holds addresses below 2^4, so those tables
\* overlap where they have no entries in use.
MCTableAt(t, level, vp) ==
  LET first  == vp \div 16
      second == (vp \div 4) % 4
      wide   == t.pte_bytes = 8
  IN  CASE t.levels = 2 -> 0
        [] t.levels = 3 /\ level = 3 -> IF wide THEN 0 ELSE 200
        [] t.levels = 3 /\ level = 2 -> IF wide THEN 32 + 32 * first ELSE 4 * first
        [] t.levels = 3 /\ level = 1 ->
             IF wide THEN 96 + 32 * second + 64 * first ELSE 12 + second + 2 * first
=============================================================================
