---------------------------- MODULE MCElfRewrite ----------------------------
(***************************************************************************)
(* Small executables for ElfRewrite.  The string table of each is          *)
(*   \0 a \0                                                               *)
(* followed by padding and by the first bytes of the next section; its     *)
(* dynamic array needs library "a".                                        *)
(***************************************************************************)
EXTENDS ElfRewrite

a == 97
b == 98
c == 99

MCNames == {<<b>>, <<c, b>>}

Zeros(n) == [i \in 1..n |-> 0]
Strings == <<0, a, 0>>
Base == 100

S == -1   \* stands for the address of the string table

\* Dynamic entries.
Orders == {<<<<DT_NEEDED, 1>>, <<DT_STRTAB, S>>, <<DT_STRSZ, 3>>>>,
           <<<<DT_STRSZ, 3>>, <<DT_STRTAB, S>>, <<DT_RUNPATH, 1>>, <<DT_NEEDED, 1>>>>}
Incomplete == {<<<<DT_NEEDED, 1>>, <<DT_STRTAB, S>>>>, <<<<DT_NEEDED, 1>>, <<DT_STRSZ, 3>>>>}

Flatten(es, strtab) ==
  [i \in 1..(2 * Len(es)) |->
     LET x == es[(i + 1) \div 2][IF i % 2 = 1 THEN 1 ELSE 2]
     IN  IF x = S THEN strtab ELSE x]

\* es: entries; spare: zero slots after the terminator; pad: zero bytes
\* after the strings; next: the section after them; strFirst: the string
\* table lies before the dynamic array; split: the parts are two segments
\* with addresses of their own.
Build(es, spare, pad, next, strFirst, split) ==
  LET dynLen == 2 * (Len(es) + 1 + spare)
      strLen == 3 + pad + Len(next)
      dynOff == IF strFirst THEN strLen ELSE 0
      strOff == IF strFirst THEN 0 ELSE dynLen
      cut    == IF strFirst THEN strLen ELSE dynLen
      total  == dynLen + strLen
      slide  == IF split THEN 50 ELSE 0
      strtab == Base + strOff + (IF strFirst THEN 0 ELSE slide)
      dyn    == Flatten(es, strtab) \o Zeros(2 * (1 + spare))
      str    == Strings \o Zeros(pad) \o next
  IN  [elf   |-> TRUE, headers |-> TRUE,
       phdrs |-> (IF split
                  THEN <<[type |-> "LOAD", offset |-> 0, vaddr |-> Base, filesz |-> cut],
                         [type |-> "LOAD", offset |-> cut, vaddr |-> Base + slide + cut,
                          filesz |-> total - cut]>>
                  ELSE <<[type |-> "LOAD", offset |-> 0, vaddr |-> Base, filesz |-> total]>>)
                 \o <<[type |-> "DYNAMIC", offset |-> dynOff, vaddr |-> Base, filesz |-> dynLen]>>,
       cells |-> IF strFirst THEN str \o dyn ELSE dyn \o str,
       free  |-> ((dynOff + dynLen - 2 * spare)..(dynOff + dynLen - 1))
                   \cup ((strOff + 3)..(strOff + 2 + pad))]

WellFormed ==
  {Build(es, spare, pad, next, strFirst, split) :
     es \in Orders, spare \in 0..4, pad \in 0..7, next \in {<<>>, <<7>>},
     strFirst \in BOOLEAN, split \in BOOLEAN}

Good == Build(<<<<DT_NEEDED, 1>>, <<DT_STRTAB, S>>, <<DT_STRSZ, 3>>>>, 2, 4, <<7>>, FALSE, FALSE)
AtEnd == Build(<<<<DT_NEEDED, 1>>, <<DT_STRTAB, S>>, <<DT_STRSZ, 3>>>>, 2, 4, <<7>>, TRUE, FALSE)

\* The last n cells of the file are missing.
Truncated(img, n) ==
  [img EXCEPT !.cells = SubSeq(@, 1, Len(@) - n), !.free = @ \cap (0..(Len(img.cells) - n - 1))]

\* Not an executable, program headers that cannot be read, statically linked,
\* an entry missing, no segment that loads the string table, a dynamic segment
\* that is too short for its terminator, and one that claims more than the
\* file has.
Rejected ==
  {[Good EXCEPT !.elf = FALSE], [Good EXCEPT !.headers = FALSE],
   [Good EXCEPT !.phdrs = <<@[1]>>],
   [Good EXCEPT !.phdrs[1].filesz = 4],
   [Good EXCEPT !.phdrs[2].filesz = 6],
   Truncated(AtEnd, 2), Truncated(AtEnd, 6), Truncated(AtEnd, 7)}
  \cup {Build(es, 2, 4, <<>>, strFirst, FALSE) : es \in Incomplete, strFirst \in BOOLEAN}

MCImages == WellFormed \cup Rejected
=============================================================================
