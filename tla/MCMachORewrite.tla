--------------------------- MODULE MCMachORewrite ---------------------------
(***************************************************************************)
(* Small executables for MachORewrite: every table of up to three commands  *)
(* with at most one signature, followed by padding and by the first words  *)
(* of the code.                                                            *)
(***************************************************************************)
EXTENDS MachORewrite

\* Names of seven and of eight bytes: the second needs a word for its zero.
MCNames == {[len |-> 7, words |-> <<71>>], [len |-> 8, words |-> <<81>>],
            [len |-> 17, words |-> <<91, 92, 93>>]}

Uuid   == <<FirstWord(27, 3), 271, 272>>
Main   == <<FirstWord(40, 1)>>
Data   == <<FirstWord(LC_DATA_IN_CODE, 2), 411>>
Data3  == <<FirstWord(LC_DATA_IN_CODE, 3), 412, 413>>
Sig    == <<FirstWord(LC_CODE_SIGNATURE, 2), 291>>
Sig5   == <<FirstWord(LC_CODE_SIGNATURE, 5), 292, 293, 294, 295>>   \* longer than its successor
Code   == <<900, 901>>

Tables ==
  {t \in SeqOf({Uuid, Main, Data, Data3, Sig}, 3) :
     Cardinality({i \in DOMAIN t : t[i] = Sig}) <= 1}

Build(table, pad) ==
  LET cmds == FlattenSeq(table)
  IN  [thin64 |-> TRUE,
       ncmds |-> Len(table),
       sizeofcmds |-> Len(cmds),
       words |-> cmds \o [i \in 1..pad |-> 0] \o Code,
       free |-> Len(cmds)..(Len(cmds) + pad - 1)]

\* Without code after the padding: the file ends there.
AtEnd(table, pad) ==
  LET img == Build(table, pad)
  IN  [img EXCEPT !.words = SubSeq(@, 1, Len(@) - Len(Code))]

Good == Build(<<Uuid, Data, Sig, Main>>, 3)

Rejected ==
  {[Good EXCEPT !.thin64 = FALSE],
   [Good EXCEPT !.sizeofcmds = 20],
   [Good EXCEPT !.words = [@ EXCEPT ![1] = FirstWord(27, 0)]],
   [Good EXCEPT !.words = [@ EXCEPT ![1] = FirstWord(27, 99)]],
   [AtEnd(<<Uuid>>, 0) EXCEPT !.ncmds = 2]}

MCImages ==
  {Build(t, pad) : t \in Tables, pad \in {0, 2, 3, 8}}
    \cup {Build(t, pad) : t \in {<<Uuid, Data, Sig, Main>>, <<Uuid, Sig5>>}, pad \in {0, 2, 8}}
    \cup {AtEnd(<<Uuid, Sig>>, pad) : pad \in 0..5}
    \cup Rejected
=============================================================================
