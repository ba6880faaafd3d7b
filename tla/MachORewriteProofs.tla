------------------------- MODULE MachORewriteProofs --------------------------
(***************************************************************************)
(* Proofs about the Mach-O rewriter and the signatures between its runs,   *)
(* and, with those of the ELF rewriter, about both.                        *)
(***************************************************************************)
EXTENDS ElfRewriteProofs, CodesignProofs

-----------------------------------------------------------------------------
(***************************************************************************)
(* Reading a Mach-O file.                                                  *)
(***************************************************************************)

\* Where the next command begins.
NextOffset(img, off) == IF M!InFile(img, off) THEN off + M!Size(img, off) ELSE off

\* A word is a number, and so is the size in it.
LEMMA WordsAreNumbers ==
  ASSUME NEW img, img.words \in Seq(Nat)
  PROVE  /\ Len(img.words) \in Nat
         /\ DOMAIN img.words = 1..Len(img.words)
         /\ \A off \in Nat : M!InFile(img, off) =>
              /\ off \in 0..(Len(img.words) - 1)
              /\ M!Word(img, off) \in Nat
              /\ M!Size(img, off) \in Nat
         /\ \A off \in Nat : NextOffset(img, off) \in Nat
<1>1. Len(img.words) \in Nat /\ DOMAIN img.words = 1..Len(img.words)
  OBVIOUS
<1>2. ASSUME NEW off \in Nat, M!InFile(img, off)
      PROVE  /\ off \in 0..(Len(img.words) - 1)
             /\ M!Word(img, off) \in Nat
             /\ M!Size(img, off) \in Nat
  <2>1. off \in 0..(Len(img.words) - 1) /\ off + 1 \in 1..Len(img.words)
    BY <1>1, <1>2 DEF M!InFile
  <2>2. M!Word(img, off) \in Nat
    BY <2>1 DEF M!Word
  <2>3. M!Size(img, off) \in Nat
    <3> DEFINE w == M!Word(img, off)
    <3>1. w \in Nat
      BY <2>2
    <3> HIDE DEF w
    <3>2. w % 1000 \in Nat
      BY <3>1
    <3> QED
      BY <3>2 DEF M!Size, w
  <2> QED
    BY <2>1, <2>2, <2>3
<1>3. ASSUME NEW off \in Nat PROVE NextOffset(img, off) \in Nat
  BY <1>2 DEF NextOffset
<1> QED
  BY <1>1, <1>2, <1>3

\* Where each command begins.
LEMMA OffsetsAre ==
  ASSUME NEW img, img.words \in Seq(Nat), img.ncmds \in Nat
  PROVE  /\ M!Offsets(img) \in [0..img.ncmds -> Nat]
         /\ M!Offsets(img)[0] = 0
         /\ \A k \in 1..img.ncmds : M!Offsets(img)[k] = NextOffset(img, M!Offsets(img)[k - 1])
<1> DEFINE n == img.ncmds
           h == [p \in (1..n) \X Nat |-> NextOffset(img, p[2])]
           All(f) == f = [k \in 0..n |->
                            IF k = 0 THEN 0
                            ELSE IF M!InFile(img, f[k - 1]) THEN f[k - 1] + M!Size(img, f[k - 1])
                            ELSE f[k - 1]]
<1>1. \A k \in 1..n, f \in Nat : h[<<k, f>>] = NextOffset(img, f)
  OBVIOUS
<1>2. \A k \in 1..n, f \in Nat : h[<<k, f>>] \in Nat
  BY <1>1, WordsAreNumbers
<1> HIDE DEF h
<1>3. PICK g \in [0..n -> Nat] : g[0] = 0 /\ \A k \in 1..n : g[k] = h[<<k, g[k - 1]>>]
  <2>1. n \in Nat
    OBVIOUS
  <2> HIDE DEF n
  <2>2. \E g : Recursive(g, n, Nat, 0, h)
    BY <1>2, <2>1, Recursion
  <2> QED
    BY <2>2 DEF Recursive
<1>4. \A k \in 1..n : g[k] = NextOffset(img, g[k - 1])
  <2> SUFFICES ASSUME NEW k \in 1..n PROVE g[k] = NextOffset(img, g[k - 1])
    OBVIOUS
  <2>1. g[k - 1] \in Nat
    OBVIOUS
  <2> QED
    BY <1>1, <1>3, <2>1
<1>5. All(g)
  <2> DEFINE r == [k \in 0..n |-> IF k = 0 THEN 0 ELSE NextOffset(img, g[k - 1])]
  <2>1. \A k \in 0..n : g[k] = r[k]
    <3> SUFFICES ASSUME NEW k \in 0..n PROVE g[k] = r[k]
      OBVIOUS
    <3>1. CASE k = 0
      BY <1>3, <3>1
    <3>2. CASE k # 0
      BY <1>4, <3>2
    <3> QED
      BY <3>1, <3>2
  <2>2. g = r
    BY <2>1
  <2> QED
    BY <2>2 DEF NextOffset
<1>6. ASSUME NEW f, All(f) PROVE f = g
  <2> DEFINE N == {k \in Nat : k <= n => f[k] = g[k]}
  <2>1. /\ f[0] = 0
        /\ \A k \in 1..n : f[k] = NextOffset(img, f[k - 1])
    BY <1>6 DEF NextOffset
  <2>2. f = [k \in 0..n |-> f[k]]
    BY <1>6
  <2> HIDE DEF All
  <2>3. 0 \in N
    BY <1>3, <2>1
  <2>4. ASSUME NEW k \in Nat, k \in N PROVE k + 1 \in N
    <3> SUFFICES ASSUME k + 1 <= n PROVE f[k + 1] = g[k + 1]
      OBVIOUS
    <3>1. f[k] = g[k] /\ k + 1 \in 1..n /\ (k + 1) - 1 = k
      BY <2>4
    <3> DEFINE j == k + 1
    <3> HIDE DEF j
    <3>2. f[j] = NextOffset(img, f[k]) /\ g[j] = NextOffset(img, g[k])
      BY <1>4, <2>1, <3>1 DEF j
    <3> QED
      BY <3>1, <3>2 DEF j
  <2> HIDE DEF N
  <2>5. Nat \subseteq N
    BY <2>3, <2>4, SetInduction
  <2>6. \A k \in 0..n : f[k] = g[k]
    BY <2>5 DEF N
  <2> QED
    BY <2>2, <2>6
<1>7. M!Offsets(img) = CHOOSE f : All(f)
  BY DEF M!Offsets
<1>8. All(M!Offsets(img))
  <2> HIDE DEF All
  <2> QED
    BY <1>5, <1>7
<1>9. M!Offsets(img) = g
  <2> HIDE DEF All
  <2> QED
    BY <1>6, <1>8
<1> QED
  BY <1>3, <1>4, <1>9

\* g goes from command to command.
Follows(g, img) == g[0] = 0 /\ \A k \in 1..img.ncmds : g[k] = NextOffset(img, g[k - 1])

\* Nothing else follows from command to command.
LEMMA OffsetsFollow ==
  ASSUME NEW img, img.words \in Seq(Nat), img.ncmds \in Nat, NEW g, Follows(g, img)
  PROVE  \A k \in 0..img.ncmds : M!Offsets(img)[k] = g[k]
<1> DEFINE n == img.ncmds
           f == M!Offsets(img)
           N == {k \in Nat : k <= n => f[k] = g[k]}
<1>1. f[0] = 0 /\ \A k \in 1..n : f[k] = NextOffset(img, f[k - 1])
  BY OffsetsAre
<1>2. g[0] = 0 /\ \A k \in 1..n : g[k] = NextOffset(img, g[k - 1])
  BY DEF Follows
<1>3. n \in Nat
  OBVIOUS
<1> HIDE DEF n, f
<1>4. 0 \in N
  BY <1>1, <1>2
<1>5. ASSUME NEW k \in Nat, k \in N PROVE k + 1 \in N
  <2> SUFFICES ASSUME k + 1 <= n PROVE f[k + 1] = g[k + 1]
    OBVIOUS
  <2>1. f[k] = g[k] /\ k + 1 \in 1..n /\ (k + 1) - 1 = k
    BY <1>3, <1>5
  <2> DEFINE j == k + 1
  <2> HIDE DEF j
  <2>2. f[j] = NextOffset(img, f[k]) /\ g[j] = NextOffset(img, g[k])
    BY <1>1, <1>2, <2>1 DEF j
  <2> QED
    BY <2>1, <2>2 DEF j
<1> HIDE DEF N
<1>6. Nat \subseteq N
  BY <1>4, <1>5, SetInduction
<1>7. \A k \in 0..n : f[k] = g[k]
  BY <1>3, <1>6 DEF N
<1> QED
  BY <1>7 DEF n, f

\* The n commands of a table of sz words begin at off, one after the other.
TableAt(img, off, n, sz) ==
  /\ n \in Nat /\ sz \in Nat /\ Len(img.words) \in Nat
  /\ sz <= Len(img.words)
  /\ off[0] = 0 /\ off[n] = sz
  /\ \A k \in 0..n : off[k] \in 0..sz
  /\ \A k \in 0..(n - 1) :
       /\ M!InFile(img, off[k])
       /\ M!Size(img, off[k]) \in 1..999
       /\ off[k + 1] = off[k] + M!Size(img, off[k])
  /\ \A j, k \in 0..n : j <= k => off[j] <= off[k]

\* The load commands of a readable file are such a table.
LEMMA TheTable ==
  ASSUME NEW img, M!Filled(img)
  PROVE  TableAt(img, M!Offsets(img), img.ncmds, img.sizeofcmds)
<1> DEFINE n == img.ncmds
           sz == img.sizeofcmds
           off == M!Offsets(img)
<1>1. /\ img.words \in Seq(Nat) /\ n \in Nat /\ sz \in Nat
      /\ off[n] = sz
      /\ sz <= Len(img.words)
      /\ \A k \in 0..(n - 1) : /\ M!InFile(img, off[k])
                               /\ M!Size(img, off[k]) >= 1
                               /\ off[k] + M!Size(img, off[k]) <= Len(img.words)
  BY DEF M!Filled, M!WellFormed
<1>2. /\ off[0] = 0 /\ \A k \in 0..n : off[k] \in Nat
      /\ \A k \in 1..n : off[k] = NextOffset(img, off[k - 1])
  BY <1>1, OffsetsAre
<1>3. Len(img.words) \in Nat
  BY <1>1
<1> HIDE DEF n, sz, off
<1>4. ASSUME NEW k \in 0..(n - 1)
      PROVE  /\ M!InFile(img, off[k])
             /\ M!Size(img, off[k]) \in 1..999
             /\ off[k + 1] = off[k] + M!Size(img, off[k])
  <2>1. k + 1 \in 1..n /\ (k + 1) - 1 = k /\ k \in 0..n
    BY <1>1
  <2>2. off[k + 1] = NextOffset(img, off[k])
    <3> DEFINE j == k + 1
    <3> HIDE DEF j
    <3>1. off[j] = NextOffset(img, off[k])
      BY <1>2, <2>1 DEF j
    <3> QED
      BY <3>1 DEF j
  <2>3. M!InFile(img, off[k]) /\ off[k + 1] = off[k] + M!Size(img, off[k])
    BY <1>1, <2>2 DEF NextOffset
  <2>4. M!Word(img, off[k]) \in Nat
    BY <1>1, <1>2, <2>1, <2>3, WordsAreNumbers
  <2>5. M!Size(img, off[k]) \in 0..999
    <3> DEFINE w == M!Word(img, off[k])
    <3>1. w \in Nat
      BY <2>4
    <3> HIDE DEF w
    <3>2. w % 1000 \in 0..999
      BY <3>1
    <3> QED
      BY <3>2 DEF M!Size, w
  <2>6. M!Size(img, off[k]) \in 1..999
    <3> DEFINE s == M!Size(img, off[k])
    <3>1. s \in 0..999 /\ s >= 1
      BY <1>1, <2>5
    <3> HIDE DEF s
    <3>2. s \in 1..999
      BY <3>1
    <3> QED
      BY <3>2 DEF s
  <2> QED
    BY <2>3, <2>6
<1>5. \A j, k \in 0..n : j <= k => off[j] <= off[k]
  <2> SUFFICES ASSUME NEW j \in 0..n PROVE \A k \in 0..n : j <= k => off[j] <= off[k]
    OBVIOUS
  <2> DEFINE N == {d \in Nat : j + d <= n => off[j] <= off[j + d]}
  <2>1. 0 \in N
    BY <1>1, <1>2
  <2>2. ASSUME NEW d \in Nat, d \in N PROVE d + 1 \in N
    <3> SUFFICES ASSUME j + (d + 1) <= n PROVE off[j] <= off[j + (d + 1)]
      OBVIOUS
    <3> DEFINE k == j + d
    <3>1. k \in 0..(n - 1) /\ k + 1 = j + (d + 1) /\ k \in 0..n /\ off[j] <= off[k]
      BY <1>1, <2>2
    <3> HIDE DEF k
    <3>2. off[k + 1] = off[k] + M!Size(img, off[k]) /\ M!Size(img, off[k]) \in 1..999
      BY <1>4, <3>1
    <3>3. off[j] <= off[k + 1]
      <4>1. off[j] \in Nat /\ off[k] \in Nat
        BY <1>2, <3>1
      <4> QED
        BY <3>1, <3>2, <4>1
    <3> QED
      BY <3>1, <3>3
  <2> HIDE DEF N
  <2>3. Nat \subseteq N
    BY <2>1, <2>2, SetInduction
  <2>4. ASSUME NEW k \in 0..n, j <= k PROVE off[j] <= off[k]
    <3>1. k - j \in N /\ j + (k - j) = k
      BY <1>1, <2>3, <2>4
    <3> QED
      BY <1>1, <3>1 DEF N
  <2> QED
    BY <2>4
<1>6. \A k \in 0..n : off[k] \in 0..sz
  <2> SUFFICES ASSUME NEW k \in 0..n PROVE off[k] \in 0..sz
    OBVIOUS
  <2>1. n \in 0..n /\ k <= n
    BY <1>1
  <2> QED
    BY <1>1, <1>2, <1>5, <2>1
<1>7. TableAt(img, off, n, sz)
  BY <1>1, <1>2, <1>3, <1>4, <1>5, <1>6 DEF TableAt
<1> QED
  BY <1>7 DEF n, sz, off

\* A table with such beginnings is filled, and these are its offsets.
LEMMA TableIs ==
  ASSUME NEW img, img.words \in Seq(Nat), img.ncmds \in Nat, img.sizeofcmds \in Nat,
         img.sizeofcmds <= Len(img.words),
         NEW g, g[0] = 0, g[img.ncmds] = img.sizeofcmds,
         \A k \in 0..(img.ncmds - 1) :
           /\ g[k] \in Nat /\ M!InFile(img, g[k]) /\ M!Size(img, g[k]) >= 1
           /\ g[k + 1] = g[k] + M!Size(img, g[k])
           /\ g[k + 1] <= Len(img.words)
  PROVE  M!Filled(img) /\ \A k \in 0..img.ncmds : M!Offsets(img)[k] = g[k]
<1>1. \A k \in 1..img.ncmds : g[k] = NextOffset(img, g[k - 1])
  <2> SUFFICES ASSUME NEW k \in 1..img.ncmds PROVE g[k] = NextOffset(img, g[k - 1])
    OBVIOUS
  <2> DEFINE j == k - 1
  <2>1. j \in 0..(img.ncmds - 1) /\ j + 1 = k
    OBVIOUS
  <2> HIDE DEF j
  <2>2. M!InFile(img, g[j]) /\ g[j + 1] = g[j] + M!Size(img, g[j])
    BY <2>1
  <2>3. g[k] = NextOffset(img, g[j])
    BY <2>1, <2>2 DEF NextOffset
  <2> QED
    BY <2>3 DEF j
<1>2. \A k \in 0..img.ncmds : M!Offsets(img)[k] = g[k]
  <2>1. Follows(g, img)
    BY <1>1, Zenon DEF Follows
  <2> QED
    BY <2>1, OffsetsFollow, Zenon
<1>3. M!WellFormed(img)
  <2> DEFINE off == M!Offsets(img)
  <2>1. ASSUME NEW k \in 0..(img.ncmds - 1)
        PROVE  /\ M!InFile(img, off[k])
               /\ M!Size(img, off[k]) >= 1
               /\ off[k] + M!Size(img, off[k]) <= Len(img.words)
    <3>1. off[k] = g[k]
      BY <1>2
    <3> HIDE DEF off
    <3>2. M!InFile(img, g[k]) /\ M!Size(img, g[k]) >= 1 /\ g[k] + M!Size(img, g[k]) <= Len(img.words)
      OBVIOUS
    <3> QED
      BY <3>1, <3>2
  <2> HIDE DEF off
  <2> QED
    BY <2>1 DEF M!WellFormed, off
<1>4. M!Offsets(img)[img.ncmds] = img.sizeofcmds
  <2>1. img.ncmds \in 0..img.ncmds
    OBVIOUS
  <2> QED
    BY <1>2, <2>1
<1> QED
  BY <1>2, <1>3, <1>4 DEF M!Filled

\* The command to be replaced: the signature that is the cnt-th from i on, and
\* before it, if cnt is 2, a data-in-code command.
AnchorAt(img, off, n, i, cnt, from, size) ==
  /\ i \in 0..(n - 1) /\ cnt \in {1, 2} /\ i + cnt <= n
  /\ size \in Nat \ {0}
  /\ off[i] = from /\ off[i + cnt] = from + size
  /\ M!Cmd(img, off[i + cnt - 1]) = M!LC_CODE_SIGNATURE
  /\ cnt = 2 => M!Cmd(img, off[i]) = M!LC_DATA_IN_CODE

\* find_anchor finds such a command.
LEMMA TheAnchor ==
  ASSUME NEW img, M!Filled(img), M!Candidates(img) # {}
  PROVE  \E i : AnchorAt(img, M!Offsets(img), img.ncmds, i, M!find_anchor(img).command_count,
                         M!find_anchor(img).offset, M!find_anchor(img).size)
<1> DEFINE n == img.ncmds
           off == M!Offsets(img)
           K == M!Candidates(img)
           i == CHOOSE k \in K : \A d \in K : k <= d
           anchor == M!find_anchor(img)
<1>1. /\ n \in Nat
      /\ \A k \in 0..(n - 1) : /\ M!Size(img, off[k]) \in 1..999
                               /\ off[k + 1] = off[k] + M!Size(img, off[k])
      /\ \A k \in 0..n : off[k] \in Nat
  BY TheTable DEF TableAt
<1>2. i \in K
  <2>1. K \subseteq Nat
    BY <1>1 DEF M!Candidates
  <2>2. \E m \in K : \A j \in K : m <= j
    BY <2>1, LeastNumber
  <2> HIDE DEF K
  <2> QED
    BY <2>2
<1>3. anchor = IF M!IsPair(img, i)
               THEN [offset |-> off[i], size |-> 2 * M!LINKEDIT_DATA_COMMAND_SIZE, command_count |-> 2]
               ELSE [offset |-> off[i], size |-> M!Size(img, off[i]), command_count |-> 1]
  BY DEF M!find_anchor
<1>4. i \in 0..(n - 1) /\ (M!IsPair(img, i) \/ M!IsLastSignature(img, i))
  BY <1>2 DEF M!Candidates
<1> HIDE DEF n, K, i, anchor
<1>5. CASE M!IsPair(img, i)
  <2>1. /\ i + 1 < n
        /\ M!Word(img, off[i]) = 41002
        /\ M!Word(img, off[i + 1]) = 29002
    BY <1>5 DEF M!IsPair, M!FirstWord, M!LC_DATA_IN_CODE, M!LC_CODE_SIGNATURE,
                M!LINKEDIT_DATA_COMMAND_SIZE, n
  <2> HIDE DEF off
  <2>2. /\ M!Size(img, off[i]) = 2 /\ M!Cmd(img, off[i]) = 41
        /\ M!Size(img, off[i + 1]) = 2 /\ M!Cmd(img, off[i + 1]) = 29
    BY <2>1 DEF M!Size, M!Cmd
  <2>3. i \in 0..(n - 1) /\ i + 1 \in 0..(n - 1) /\ (i + 1) + 1 = i + 2 /\ i \in 0..n
    BY <1>1, <1>4, <2>1
  <2>4. off[i] \in Nat /\ off[i + 1] = off[i] + 2
    BY <1>1, <2>2, <2>3
  <2>5. off[i + 2] = off[i + 1] + 2
    <3> DEFINE j == i + 1
    <3> HIDE DEF j
    <3>1. off[j + 1] = off[j] + 2
      BY <1>1, <2>2, <2>3 DEF j
    <3> QED
      BY <2>3, <3>1 DEF j
  <2>6. anchor.offset = off[i] /\ anchor.size = 4 /\ anchor.command_count = 2
    BY <1>3, <1>5 DEF M!LINKEDIT_DATA_COMMAND_SIZE
  <2>7. (i + 2) - 1 = i + 1 /\ i + 2 <= n /\ off[i + 2] = off[i] + 4
    BY <1>1, <2>3, <2>4, <2>5
  <2>8. AnchorAt(img, off, n, i, 2, off[i], 4)
    BY <1>4, <2>2, <2>4, <2>7 DEF AnchorAt, M!LC_CODE_SIGNATURE, M!LC_DATA_IN_CODE
  <2> QED
    BY <2>6, <2>8 DEF n, off, anchor
<1>6. CASE ~ M!IsPair(img, i)
  <2>1. M!Cmd(img, off[i]) = M!LC_CODE_SIGNATURE
    BY <1>4, <1>6 DEF M!IsLastSignature
  <2> HIDE DEF off
  <2>2. anchor.offset = off[i] /\ anchor.size = M!Size(img, off[i]) /\ anchor.command_count = 1
    BY <1>3, <1>6
  <2>3. M!Size(img, off[i]) \in Nat \ {0} /\ off[i + 1] = off[i] + M!Size(img, off[i])
    <3> DEFINE s == M!Size(img, off[i])
    <3>1. s \in 1..999 /\ off[i + 1] = off[i] + s
      BY <1>1, <1>4
    <3> HIDE DEF s
    <3>2. s \in Nat \ {0}
      BY <3>1
    <3> QED
      BY <3>1, <3>2 DEF s
  <2>4. (i + 1) - 1 = i /\ i + 1 <= n
    BY <1>1, <1>4
  <2>5. AnchorAt(img, off, n, i, 1, off[i], M!Size(img, off[i]))
    BY <1>4, <2>1, <2>3, <2>4 DEF AnchorAt
  <2> QED
    BY <2>2, <2>5 DEF n, off, anchor
<1> QED
  BY <1>5, <1>6

\* The words of a new command: as many as its first word says, which also says
\* that it loads a library.
NewCommand(new, name, s) ==
  /\ s \in 4..999
  /\ new \in Seq(Nat) /\ Len(new) = s
  /\ new[1] = 12000 + s
  /\ new = M!DylibCommand(name)

\* DylibWords is such a command.
LEMMA TheNewCommand ==
  ASSUME NEW name \in MachONames
  PROVE  NewCommand(M!DylibWords(name), name, M!new_cmd_size(name))
<1> DEFINE s == M!new_cmd_size(name)
           F == <<M!FirstWord(M!LC_LOAD_DYLIB, s), 24002, 65536>>
           w == name.words
           used == F \o w
           tail == [i \in 1..(s - 3) |-> IF i <= Len(w) THEN w[i] ELSE 0]
           new == M!DylibWords(name)
<1>1. name.len \in Nat /\ w \in Seq(Nat) /\ s < 1000
  BY MachOAssumption
<1>2. s = 4 + (name.len \div 8)
  BY <1>1 DEF M!new_cmd_size, M!DYLIB_COMMAND_HEADER_SIZE
<1>3. s \in 4..999
  <2> DEFINE d == name.len \div 8
  <2>1. d \in Nat /\ s = 4 + d
    BY <1>1, <1>2
  <2> HIDE DEF d, s
  <2> QED
    BY <1>1, <2>1
<1>4. M!FirstWord(M!LC_LOAD_DYLIB, s) = 12000 + s
  BY <1>3 DEF M!FirstWord, M!LC_LOAD_DYLIB
<1>5. new = [i \in 1..s |-> IF i <= Len(used) THEN used[i] ELSE 0]
  BY DEF M!DylibWords
<1>6. M!DylibCommand(name) = F \o tail
  <2> DEFINE size == M!DYLIB_COMMAND_HEADER_SIZE + name.len \div 8 + 1
             Of(n) == <<M!FirstWord(M!LC_LOAD_DYLIB, n), 24002, 65536>>
                        \o [i \in 1..(n - 3) |-> IF i <= Len(w) THEN w[i] ELSE 0]
  <2>1. M!DylibCommand(name) = Of(size)
    BY DEF M!DylibCommand
  <2>2. size = s
    <3> DEFINE d == name.len \div 8
    <3>1. d \in Nat /\ s = 4 + d
      BY <1>1, <1>2
    <3>2. size = (3 + d) + 1
      BY <3>1 DEF M!DYLIB_COMMAND_HEADER_SIZE
    <3> HIDE DEF d, s, size
    <3> QED
      BY <3>1, <3>2
  <2>3. Of(s) = F \o tail
    OBVIOUS
  <2> HIDE DEF size, s, Of
  <2> QED
    BY <2>1, <2>2, <2>3
<1> HIDE DEF s, new
<1>7. F \in Seq(Nat) /\ Len(F) = 3 /\ F[1] = 12000 + s
  <2>1. M!FirstWord(M!LC_LOAD_DYLIB, s) \in Nat
    BY <1>3, <1>4
  <2> QED
    BY <1>4, <2>1
<1> HIDE DEF F, w
<1>8. /\ used \in Seq(Nat) /\ Len(used) = 3 + Len(w) /\ Len(w) \in Nat
      /\ \A i \in 1..3 : used[i] = F[i]
      /\ \A i \in 4..Len(used) : used[i] = w[i - 3]
  <2>0. IsConcat(used, F, w)
    BY DEF IsConcat
  <2> HIDE DEF used
  <2>1. used \in Seq(Nat) /\ Joined(used, F, w)
    BY <1>1, <1>7, <2>0, ConcatJoins
  <2>2. Len(w) \in Nat
    BY <1>1
  <2> QED
    BY <1>7, <2>1, <2>2 DEF Joined
<1>9. /\ tail \in Seq(Nat) /\ Len(tail) = s - 3
      /\ \A i \in 1..(s - 3) : tail[i] = IF i <= Len(w) THEN w[i] ELSE 0
  <2>1. tail \in [1..(s - 3) -> Nat] /\ s - 3 \in Nat
    BY <1>1, <1>3
  <2>2. tail \in Seq(Nat)
    BY <2>1, SeqDef
  <2> QED
    BY <1>3, <2>1, <2>2
<1> HIDE DEF used, tail
<1>10. new \in [1..s -> Nat] /\ \A i \in 1..s : new[i] = IF i <= Len(used) THEN used[i] ELSE 0
  BY <1>3, <1>5, <1>8
<1>11. new \in Seq(Nat) /\ Len(new) = s
  <2>1. new \in Seq(Nat)
    BY <1>3, <1>10, SeqDef
  <2> QED
    BY <1>3, <1>10, <2>1
<1> DEFINE all == F \o tail
<1>12. /\ all \in Seq(Nat) /\ Len(all) = s
       /\ \A i \in 1..3 : all[i] = F[i]
       /\ \A i \in 4..s : all[i] = tail[i - 3]
  <2>0. IsConcat(all, F, tail)
    BY DEF IsConcat
  <2> HIDE DEF all
  <2>1. all \in Seq(Nat) /\ Joined(all, F, tail)
    BY <1>7, <1>9, <2>0, ConcatJoins
  <2> QED
    BY <1>3, <1>7, <1>9, <2>1 DEF Joined
<1>13. \A i \in 1..s : new[i] = all[i]
  <2> SUFFICES ASSUME NEW i \in 1..s PROVE new[i] = all[i]
    OBVIOUS
  <2> HIDE DEF all
  <2>1. CASE i \in 1..3
    <3>1. i <= Len(used)
      BY <1>8, <2>1
    <3> QED
      BY <1>8, <1>10, <1>12, <2>1, <3>1
  <2>2. CASE i \notin 1..3
    <3>1. i \in 4..s /\ i - 3 \in 1..(s - 3)
      BY <1>3, <2>2
    <3>2. all[i] = IF i - 3 <= Len(w) THEN w[i - 3] ELSE 0
      BY <1>9, <1>12, <3>1
    <3>3. i <= Len(used) <=> i - 3 <= Len(w)
      BY <1>8, <3>1
    <3>4. CASE i <= Len(used)
      <4>1. i \in 4..Len(used)
        BY <1>8, <3>1, <3>4
      <4> QED
        BY <1>8, <1>10, <3>2, <3>3, <3>4, <4>1
    <3>5. CASE ~ (i <= Len(used))
      BY <1>10, <3>2, <3>3, <3>5
    <3> QED
      BY <3>4, <3>5
  <2> QED
    BY <2>1, <2>2
<1>14. new = all
  <2> HIDE DEF all
  <2> QED
    BY <1>11, <1>12, <1>13
<1>15. new[1] = 12000 + s
  <2>1. 1 \in 1..s /\ 1 \in 1..3
    BY <1>3
  <2> QED
    BY <1>7, <1>12, <1>14, <2>1
<1>16. NewCommand(new, name, s)
  BY <1>3, <1>6, <1>11, <1>14, <1>15 DEF NewCommand
<1> QED
  BY <1>16 DEF new, s

-----------------------------------------------------------------------------
(***************************************************************************)
(* Rewriting a Mach-O file.                                                *)
(***************************************************************************)
MachORewritable(img, name) ==
  M!Filled(img) /\ name \in MachONames /\ M!Status(img, name) = "Ok"

\* The s words of the new command stand where those of the anchor did, the
\* words after the anchor follow them, and those after the table are the same.
Moved(out, img, new, from, size, s, n, cnt, sz) ==
  /\ out.words \in Seq(Nat) /\ Len(out.words) = Len(img.words)
  /\ out.thin64 = img.thin64 /\ out.free = img.free
  /\ out.ncmds = (n - cnt) + 1
  /\ out.sizeofcmds = sz + (s - size)
  /\ out.sizeofcmds \in 0..Len(img.words)
  /\ \A p \in 0..(from - 1) : M!Word(out, p) = M!Word(img, p)
  /\ \A p \in from..(from + s - 1) : M!Word(out, p) = new[(p - from) + 1]
  /\ \A p \in (from + size)..(sz - 1) : M!Word(out, p + (s - size)) = M!Word(img, p)
  /\ \A p \in 0..(Len(img.words) - 1) :
       p >= sz /\ p >= sz + (s - size) => M!Word(out, p) = M!Word(img, p)

\* rewrite_macho leaves such a file.
LEMMA RewriteMoves ==
  ASSUME NEW img, NEW name, MachORewritable(img, name),
         NEW out, out = M!rewrite_macho(img, name),
         NEW i, AnchorAt(img, M!Offsets(img), img.ncmds, i, M!find_anchor(img).command_count,
                         M!find_anchor(img).offset, M!find_anchor(img).size)
  PROVE  Moved(out, img, M!DylibWords(name), M!find_anchor(img).offset, M!find_anchor(img).size,
               M!new_cmd_size(name), img.ncmds, M!find_anchor(img).command_count, img.sizeofcmds)
<1> DEFINE n == img.ncmds
           sz == img.sizeofcmds
           off == M!Offsets(img)
           len == Len(img.words)
           w == img.words
           new == M!DylibWords(name)
           s == M!new_cmd_size(name)
           from == M!find_anchor(img).offset
           size == M!find_anchor(img).size
           cnt == M!find_anchor(img).command_count
           delta == s - size
           out_w == out.words
<1>1. TableAt(img, off, n, sz) /\ w \in Seq(Nat)
  BY TheTable DEF MachORewritable, M!Filled
<1>2. NewCommand(new, name, s)
  BY TheNewCommand DEF MachORewritable
<1>3. AnchorAt(img, off, n, i, cnt, from, size)
  OBVIOUS
<1>4. M!Delta(img, name) = delta
  BY DEF M!Delta
<1>5. delta > 0 => sz + delta <= len
  BY <1>4 DEF MachORewritable, M!Status, M!CanGrow
<1>6. out = [img EXCEPT
         !.words = [k \in DOMAIN w |->
                      IF k - 1 \in from..(from + Len(new) - 1)
                      THEN new[k - from]
                      ELSE IF k - 1 \in (from + Len(new))..(sz + delta - 1) THEN w[k - delta]
                      ELSE w[k]],
         !.sizeofcmds = @ + delta,
         !.ncmds = @ - cnt + 1]
  BY <1>4 DEF M!rewrite_macho
<1>7. /\ out.thin64 = img.thin64 /\ out.free = img.free
      /\ out.ncmds = n - cnt + 1
      /\ out.sizeofcmds = sz + delta
  BY <1>6
<1>8. out_w = [k \in DOMAIN w |->
                 IF k - 1 \in from..(from + Len(new) - 1)
                 THEN new[k - from]
                 ELSE IF k - 1 \in (from + Len(new))..(sz + delta - 1) THEN w[k - delta]
                 ELSE w[k]]
  BY <1>6
<1> HIDE DEF n, sz, off, len, new, s, from, size, cnt
<1>9. /\ s \in 4..999 /\ Len(new) = s /\ \A k \in 1..s : new[k] \in Nat
  BY <1>2 DEF NewCommand
<1>10. /\ n \in Nat /\ sz \in Nat /\ len \in Nat /\ sz <= len
       /\ \A k \in 0..n : off[k] \in 0..sz
  BY <1>1 DEF TableAt, len
<1>11. /\ from \in Nat /\ size \in Nat \ {0} /\ from + size <= sz
  <2>1. /\ i \in 0..(n - 1) /\ cnt \in {1, 2} /\ i + cnt <= n /\ size \in Nat \ {0}
        /\ off[i] = from /\ off[i + cnt] = from + size
    BY <1>3 DEF AnchorAt
  <2>2. i \in 0..n /\ i + cnt \in 0..n
    BY <1>10, <2>1
  <2>3. from \in 0..sz /\ from + size \in 0..sz
    BY <1>10, <2>1, <2>2
  <2> QED
    BY <1>10, <2>1, <2>3
<1>12. delta \in Int /\ sz + delta \in 0..len /\ from + s <= sz + delta /\ delta = s - size
  BY <1>5, <1>9, <1>10, <1>11
<1>13. /\ DOMAIN w = 1..len
       /\ \A k \in 1..len : w[k] \in Nat
  BY <1>1 DEF len
<1> HIDE DEF delta, w, out_w
<1>14. /\ DOMAIN out_w = 1..len
       /\ \A k \in 1..len :
            out_w[k] = IF k - 1 \in from..(from + s - 1) THEN new[k - from]
                       ELSE IF k - 1 \in (from + s)..(sz + delta - 1) THEN w[k - delta]
                       ELSE w[k]
  BY <1>8, <1>9, <1>13
<1>15. \A k \in 1..len : out_w[k] \in Nat
  <2> SUFFICES ASSUME NEW k \in 1..len PROVE out_w[k] \in Nat
    OBVIOUS
  <2>1. CASE k - 1 \in from..(from + s - 1)
    <3>1. k - from \in 1..s
      BY <1>9, <1>11, <2>1
    <3> QED
      BY <1>9, <1>14, <2>1, <3>1
  <2>2. CASE k - 1 \notin from..(from + s - 1) /\ k - 1 \in (from + s)..(sz + delta - 1)
    <3>1. k - delta \in 1..len
      BY <1>9, <1>10, <1>11, <1>12, <2>2
    <3> QED
      BY <1>13, <1>14, <2>2, <3>1
  <2>3. CASE k - 1 \notin from..(from + s - 1) /\ k - 1 \notin (from + s)..(sz + delta - 1)
    BY <1>13, <1>14, <2>3
  <2> QED
    BY <2>1, <2>2, <2>3
<1>16. out_w \in Seq(Nat) /\ Len(out_w) = len
  <2>1. out_w = [k \in 1..len |-> out_w[k]]
    BY <1>8, <1>13, <1>14
  <2>2. out_w \in [1..len -> Nat]
    BY <1>15, <2>1
  <2>3. out_w \in Seq(Nat)
    BY <1>10, <2>2, SeqDef
  <2> QED
    BY <1>10, <2>2, <2>3
<1>17. ASSUME NEW p \in 0..(len - 1)
       PROVE  /\ p < from => out_w[p + 1] = w[p + 1]
              /\ p >= from /\ p < from + s => out_w[p + 1] = new[(p - from) + 1]
              /\ p >= sz /\ p >= sz + delta => out_w[p + 1] = w[p + 1]
  <2>1. p + 1 \in 1..len /\ (p + 1) - 1 = p /\ (p + 1) - from = (p - from) + 1
    BY <1>10, <1>11
  <2>2. out_w[p + 1] = IF p \in from..(from + s - 1) THEN new[(p - from) + 1]
                       ELSE IF p \in (from + s)..(sz + delta - 1) THEN w[(p + 1) - delta]
                       ELSE w[p + 1]
    BY <1>14, <2>1
  <2>3. p < from => p \notin from..(from + s - 1) /\ p \notin (from + s)..(sz + delta - 1)
    BY <1>9, <1>11
  <2>4. p >= from /\ p < from + s => p \in from..(from + s - 1)
    BY <1>9, <1>11
  <2>5. p >= sz /\ p >= sz + delta =>
          p \notin from..(from + s - 1) /\ p \notin (from + s)..(sz + delta - 1)
    BY <1>9, <1>10, <1>11, <1>12
  <2> QED
    BY <2>2, <2>3, <2>4, <2>5
<1>18. ASSUME NEW p \in (from + size)..(sz - 1) PROVE out_w[(p + delta) + 1] = w[p + 1]
  <2> DEFINE q == p + delta
  <2>1. /\ q + 1 \in 1..len /\ (q + 1) - 1 = q /\ (q + 1) - delta = p + 1
        /\ q \notin from..(from + s - 1) /\ q \in (from + s)..(sz + delta - 1)
    BY <1>9, <1>10, <1>11, <1>12
  <2> HIDE DEF q
  <2>2. out_w[q + 1] = w[p + 1]
    BY <1>14, <2>1
  <2> QED
    BY <2>2 DEF q
<1>19. /\ \A p \in 0..(len - 1) : M!Word(out, p) = out_w[p + 1] /\ M!Word(img, p) = w[p + 1]
       /\ \A p : M!Word(out, p) = out_w[p + 1] /\ M!Word(img, p) = w[p + 1]
  BY DEF M!Word, w, out_w
<1>20. ASSUME NEW p \in 0..(from - 1) PROVE M!Word(out, p) = M!Word(img, p)
  <2>1. p \in 0..(len - 1) /\ p < from
    BY <1>10, <1>11
  <2> QED
    BY <1>17, <1>19, <2>1
<1>21. ASSUME NEW p \in from..(from + s - 1) PROVE M!Word(out, p) = new[(p - from) + 1]
  <2>1. p \in 0..(len - 1) /\ p >= from /\ p < from + s
    BY <1>9, <1>10, <1>11, <1>12
  <2> QED
    BY <1>17, <1>19, <2>1
<1>22. ASSUME NEW p \in (from + size)..(sz - 1) PROVE M!Word(out, p + delta) = M!Word(img, p)
  BY <1>18, <1>19
<1>23. ASSUME NEW p \in 0..(len - 1), p >= sz, p >= sz + delta
       PROVE  M!Word(out, p) = M!Word(img, p)
  BY <1>17, <1>19, <1>23
<1>24. Moved(out, img, new, from, size, s, n, cnt, sz)
  BY <1>7, <1>12, <1>16, <1>20, <1>21, <1>22, <1>23 DEF Moved, delta, len, out_w
<1> QED
  BY <1>24 DEF n, sz, new, s, from, size, cnt

\* Where the commands of the new table begin: those before the anchor where they
\* did, the others further by as much as the table has grown.
NewOffset(off, i, cnt, delta, k) ==
  IF k <= i THEN off[k] ELSE off[(k + cnt) - 1] + delta

\* The new table is filled.
LEMMA StaysFilled ==
  ASSUME NEW img, NEW out, NEW new, NEW name, NEW off, NEW n, NEW sz,
         NEW from, NEW size, NEW s, NEW cnt, NEW i,
         TableAt(img, off, n, sz), AnchorAt(img, off, n, i, cnt, from, size),
         NewCommand(new, name, s), Moved(out, img, new, from, size, s, n, cnt, sz)
  PROVE  /\ M!Filled(out)
         /\ out.ncmds = (n - cnt) + 1
         /\ \A k \in 0..out.ncmds :
              M!Offsets(out)[k] = NewOffset(off, i, cnt, s - size, k)
<1> DEFINE len == Len(img.words)
           delta == s - size
           m == out.ncmds
           osz == out.sizeofcmds
           g == [k \in 0..m |-> NewOffset(off, i, cnt, delta, k)]
<1>0. n \in Nat /\ sz \in Nat /\ len \in Nat /\ sz <= len
  BY DEF TableAt
<1>1. /\ n \in Nat /\ sz \in Nat /\ len \in Nat /\ sz <= len
      /\ off[0] = 0 /\ off[n] = sz
      /\ \A k \in 0..n : off[k] \in 0..sz
      /\ \A k \in 0..(n - 1) : /\ M!Size(img, off[k]) \in 1..999
                               /\ off[k + 1] = off[k] + M!Size(img, off[k])
      /\ \A j, k \in 0..n : j <= k => off[j] <= off[k]
  BY DEF TableAt
<1>1a. \A k \in 0..n : off[k] \in 0..sz
  BY <1>1
<1>1b. \A k \in 0..(n - 1) : /\ M!Size(img, off[k]) \in 1..999
                             /\ off[k + 1] = off[k] + M!Size(img, off[k])
  BY <1>1
<1>1c. \A j, k \in 0..n : j <= k => off[j] <= off[k]
  BY <1>1
<1>2. /\ i \in 0..(n - 1) /\ cnt \in {1, 2} /\ i + cnt <= n
      /\ size \in Nat \ {0}
      /\ off[i] = from /\ off[i + cnt] = from + size
  BY DEF AnchorAt
<1>3. s \in 4..999 /\ new[1] = 12000 + s
  BY DEF NewCommand
<1>4. /\ out.words \in Seq(Nat) /\ Len(out.words) = len
      /\ m = (n - cnt) + 1
      /\ osz = sz + delta /\ osz \in 0..len
      /\ \A p \in 0..(from - 1) : M!Word(out, p) = M!Word(img, p)
      /\ \A p \in from..(from + s - 1) : M!Word(out, p) = new[(p - from) + 1]
      /\ \A p \in (from + size)..(sz - 1) : M!Word(out, p + delta) = M!Word(img, p)
  BY DEF Moved
<1>5. /\ m \in Nat /\ delta \in Int /\ delta = s - size
      /\ i \in Nat /\ i < m /\ i + cnt \in 0..n /\ from \in 0..sz /\ from \in Nat
  <2>1. m = (n - cnt) + 1 /\ delta = s - size
    BY <1>4
  <2> HIDE DEF len, delta, m, osz
  <2>2. i \in 0..n /\ i \in Nat /\ m \in Nat /\ i < m /\ i + cnt \in 0..n
    BY <1>0, <1>2, <2>1
  <2>3. off[i] \in 0..sz
    BY <1>1a, <2>2
  <2> QED
    BY <1>0, <1>2, <1>3, <2>1, <2>2, <2>3
<1> HIDE DEF len, delta, m, osz
<1>6. /\ \A k \in 0..m : g[k] = NewOffset(off, i, cnt, delta, k)
      /\ \A k \in 0..i : g[k] = off[k]
      /\ \A k \in (i + 1)..m : g[k] = off[(k + cnt) - 1] + delta
  BY <1>5 DEF NewOffset
<1> HIDE DEF g
<1>6a. \A x \in (i + 1)..m : g[x] = off[(x + cnt) - 1] + delta
  BY <1>6
<1>7. g[0] = 0
  BY <1>1, <1>5, <1>6
<1>8. g[m] = osz
  <2>1. m \in (i + 1)..m /\ (m + cnt) - 1 = n
    BY <1>1, <1>2, <1>4, <1>5
  <2> QED
    BY <1>1, <1>4, <1>6, <2>1
<1>9. ASSUME NEW k \in 0..(m - 1)
      PROVE  /\ g[k] \in Nat /\ M!InFile(out, g[k]) /\ M!Size(out, g[k]) >= 1
             /\ g[k + 1] = g[k] + M!Size(out, g[k])
             /\ g[k + 1] <= Len(out.words)
  <2> SUFFICES /\ g[k] \in Nat /\ g[k] < len /\ M!Size(out, g[k]) >= 1
               /\ g[k + 1] = g[k] + M!Size(out, g[k])
               /\ g[k + 1] <= len
    BY <1>4 DEF M!InFile
  <2>1. CASE k < i
    <3>1. /\ k \in 0..(n - 1) /\ k \in 0..n /\ k + 1 \in 0..n /\ i \in 0..n /\ k + 1 <= i
          /\ k \in 0..i /\ k + 1 \in 0..i
      BY <1>0, <1>2, <1>5, <2>1
    <3>2. g[k] = off[k] /\ g[k + 1] = off[k + 1]
      BY <1>6, <3>1
    <3> DEFINE j == k + 1
               c1 == M!Size(img, off[k])
    <3>3. off[j] <= from /\ off[j] = off[k] + c1 /\ c1 \in 1..999 /\ off[k] \in 0..sz
      BY <1>1, <1>2, <3>1
    <3> HIDE DEF c1, j
    <3>4. off[k] \in 0..(from - 1) /\ off[k] < len /\ off[j] <= len
      BY <1>0, <1>5, <3>3
    <3>5. M!Size(out, off[k]) = c1
      <4>1. M!Word(out, off[k]) = M!Word(img, off[k])
        BY <1>4, <3>4
      <4> QED
        BY <4>1 DEF M!Size, c1
    <3> QED
      BY <3>2, <3>3, <3>4, <3>5 DEF j
  <2>2. CASE k = i
    <3>1. k \in 0..i /\ k + 1 \in (i + 1)..m /\ ((k + 1) + cnt) - 1 = i + cnt
      BY <1>2, <1>5, <2>2
    <3>2. g[k] = from /\ g[k + 1] = (from + size) + delta
      BY <1>2, <1>6, <2>2, <3>1
    <3>3. M!Word(out, from) = 12000 + s
      <4>1. from \in from..(from + s - 1) /\ (from - from) + 1 = 1
        BY <1>3, <1>5
      <4> QED
        BY <1>3, <1>4, <4>1
    <3>4. M!Size(out, from) = s
      BY <1>3, <3>3 DEF M!Size
    <3>5. (from + size) + delta = from + s /\ from + s <= len /\ from < len
      <4>1. from + size \in 0..sz
        <5>1. off[i + cnt] \in 0..sz
          BY <1>1a, <1>5
        <5> QED
          BY <1>2, <5>1, Zenon
      <4>2. osz = sz + delta /\ osz \in 0..len
        BY <1>4, Zenon
      <4> QED
        BY <1>0, <1>2, <1>3, <1>5, <4>1, <4>2
    <3> QED
      BY <1>3, <1>5, <3>2, <3>4, <3>5
  <2>3. CASE k > i
    <3> DEFINE j == (k + cnt) - 1
               c1 == M!Size(img, off[j])
    <3>0. cnt \in Nat /\ n \in Nat /\ k \in Nat /\ i \in Nat /\ k + 1 <= m /\ m = (n - cnt) + 1
      BY <1>1, <1>2, <1>4, <1>5
    <3>1. /\ j \in 0..(n - 1) /\ j \in 0..n /\ j + 1 \in 0..n /\ i + cnt <= j
          /\ k \in (i + 1)..m /\ k + 1 \in (i + 1)..m /\ ((k + 1) + cnt) - 1 = j + 1
      <4>1. j = (k + cnt) - 1
        OBVIOUS
      <4> HIDE DEF j
      <4> QED
        BY <2>3, <3>0, <4>1
    <3>2. g[k] = off[j] + delta /\ g[k + 1] = off[j + 1] + delta
      <4>1. j = (k + cnt) - 1 /\ k \in (i + 1)..m /\ k + 1 \in (i + 1)..m
        BY <3>1
      <4>2. g[k] = off[j] + delta
        BY <1>6a, <4>1
      <4>3. g[k + 1] = off[((k + 1) + cnt) - 1] + delta
        BY <1>6a, <4>1
      <4> QED
        BY <3>1, <4>2, <4>3, Zenon
    <3> HIDE DEF j
    <3>3. /\ off[j + 1] = off[j] + c1 /\ c1 \in 1..999
          /\ off[j] \in 0..sz /\ off[j + 1] \in 0..sz
          /\ from + size <= off[j]
      <4>1. off[j + 1] = off[j] + c1 /\ c1 \in 1..999
        BY <1>1b, <3>1
      <4>2. off[j] \in 0..sz /\ off[j + 1] \in 0..sz
        BY <1>1a, <3>1
      <4>3. off[i + cnt] <= off[j]
        BY <1>1c, <1>5, <3>1
      <4>4. from + size <= off[j]
        BY <1>2, <4>3
      <4> HIDE DEF c1
      <4> QED
        BY <4>1, <4>2, <4>4
    <3> HIDE DEF c1
    <3> DEFINE x == off[j]
               y == off[j + 1]
    <3>9. /\ y = x + c1 /\ c1 \in 1..999 /\ x \in 0..sz /\ y \in 0..sz /\ from + size <= x
          /\ from \in Nat /\ size \in Nat /\ sz \in Nat
      BY <1>0, <1>2, <1>5, <3>3
    <3> HIDE DEF x, y
    <3>4. x \in (from + size)..(sz - 1)
      BY <3>9
    <3>5. M!Size(out, x + delta) = c1
      <4>1. M!Word(out, x + delta) = M!Word(img, x)
        BY <1>4, <3>4
      <4> QED
        BY <4>1 DEF M!Size, c1, x
    <3>6. /\ x + delta \in Nat
          /\ y + delta = (x + delta) + c1
          /\ y + delta <= len /\ x + delta < len
      <4>1. osz = sz + delta /\ osz \in 0..len
        BY <1>4, Zenon
      <4> QED
        BY <1>0, <1>3, <1>5, <3>9, <4>1
    <3>7. g[k] = x + delta /\ g[k + 1] = y + delta
      BY <3>2 DEF x, y
    <3>8. c1 >= 1
      BY <3>9
    <3> QED
      BY <3>5, <3>6, <3>7, <3>8
  <2> QED
    BY <1>5, <2>1, <2>2, <2>3
<1>10. M!Filled(out) /\ \A k \in 0..m : M!Offsets(out)[k] = g[k]
  <2>1. /\ out.words \in Seq(Nat) /\ out.ncmds \in Nat /\ out.sizeofcmds \in Nat
        /\ out.sizeofcmds <= Len(out.words)
    BY <1>1, <1>4, <1>5 DEF m, osz
  <2>2. g[0] = 0 /\ g[out.ncmds] = out.sizeofcmds
    BY <1>7, <1>8 DEF m, osz
  <2>3. \A k \in 0..(out.ncmds - 1) :
          /\ g[k] \in Nat /\ M!InFile(out, g[k]) /\ M!Size(out, g[k]) >= 1
          /\ g[k + 1] = g[k] + M!Size(out, g[k])
          /\ g[k + 1] <= Len(out.words)
    BY <1>9 DEF m
  <2>4. M!Filled(out) /\ \A k \in 0..out.ncmds : M!Offsets(out)[k] = g[k]
    BY <2>1, <2>2, <2>3, TableIs
  <2> QED
    BY <2>4 DEF m
<1>11. \A k \in 0..m : M!Offsets(out)[k] = NewOffset(off, i, cnt, delta, k)
  BY <1>6, <1>10
<1> QED
  BY <1>4, <1>10, <1>11 DEF m, delta

-----------------------------------------------------------------------------
(***************************************************************************)
(* The commands a loader finds.                                            *)
(***************************************************************************)

\* Each command is the words between two offsets.
Listed(cmds, img, off, n) ==
  /\ cmds \in Seq(Seq(Nat)) /\ Len(cmds) = n
  /\ \A k \in 0..(n - 1) :
       /\ Len(cmds[k + 1]) = off[k + 1] - off[k]
       /\ \A j \in 0..((off[k + 1] - off[k]) - 1) : cmds[k + 1][j + 1] = M!Word(img, off[k] + j)

\* Commands lists the commands so.
LEMMA TheCommands ==
  ASSUME NEW img, M!Filled(img)
  PROVE  Listed(M!Commands(img), img, M!Offsets(img), img.ncmds)
<1> DEFINE n == img.ncmds
           off == M!Offsets(img)
           w == img.words
           sz == img.sizeofcmds
           cmds == M!Commands(img)
<1>1. /\ n \in Nat /\ sz \in Nat /\ sz <= Len(w)
      /\ \A k \in 0..n : off[k] \in 0..sz
      /\ \A j, k \in 0..n : j <= k => off[j] <= off[k]
      /\ w \in Seq(Nat)
  BY TheTable DEF TableAt, M!Filled
<1>2. cmds = [k \in 1..n |-> M!Command(img, k - 1)]
  BY DEF M!Commands, M!Filled
<1> HIDE DEF cmds, sz, n
<1>3. ASSUME NEW k \in 0..(n - 1)
      PROVE  /\ M!Command(img, k) \in Seq(Nat)
             /\ Len(M!Command(img, k)) = off[k + 1] - off[k]
             /\ \A j \in 0..((off[k + 1] - off[k]) - 1) :
                  M!Command(img, k)[j + 1] = M!Word(img, off[k] + j)
  <2> DEFINE x == off[k]
             y == off[k + 1]
             u == SubSeq(w, x + 1, y)
  <2>1. k \in 0..n /\ k + 1 \in 0..n /\ k <= k + 1
    BY <1>1
  <2>2. x \in 0..sz /\ y \in 0..sz /\ x <= y
    BY <1>1, <2>1
  <2>3. M!Command(img, k) = u
    BY DEF M!Command
  <2> HIDE DEF x, y, w
  <2>4. x \in Nat /\ y \in Nat /\ x <= y /\ y <= Len(w) /\ Len(w) \in Nat
    BY <1>1, <2>2
  <2>5. u \in Seq(Nat) /\ Len(u) = y - x
    <3>1. \A j \in (x + 1)..y : w[j] \in Nat
      BY <1>1, <2>4
    <3> QED
      BY <1>1, <2>4, <3>1
  <2>6. \A j \in 1..(y - x) : u[j] = w[x + j]
    BY <1>1, <2>4
  <2>7. ASSUME NEW j \in 0..((y - x) - 1) PROVE u[j + 1] = w[(x + j) + 1]
    <3>1. j + 1 \in 1..(y - x) /\ x + (j + 1) = (x + j) + 1
      BY <2>4
    <3> DEFINE l == j + 1
    <3> HIDE DEF l, u
    <3>2. u[l] = w[x + l]
      BY <2>6, <3>1 DEF l
    <3> QED
      BY <3>1, <3>2 DEF l
  <2> HIDE DEF u
  <2> QED
    BY <2>3, <2>5, <2>7 DEF M!Word, w, x, y
<1>4. /\ cmds \in Seq(Seq(Nat)) /\ Len(cmds) = n
  <2>1. \A k \in 1..n : M!Command(img, k - 1) \in Seq(Nat)
    <3> SUFFICES ASSUME NEW k \in 1..n PROVE M!Command(img, k - 1) \in Seq(Nat)
      OBVIOUS
    <3>1. k - 1 \in 0..(n - 1)
      BY <1>1
    <3> QED
      BY <1>3, <3>1
  <2> DEFINE T == Seq(Nat)
  <2>2. cmds \in [1..n -> T]
    BY <1>2, <2>1
  <2> HIDE DEF T
  <2>3. cmds \in Seq(T)
    BY <1>1, <2>2, SeqDef
  <2>4. Len(cmds) = n
    BY <1>1, <2>2, <2>3
  <2> QED
    BY <2>3, <2>4 DEF T
<1>5. ASSUME NEW k \in 0..(n - 1) PROVE cmds[k + 1] = M!Command(img, k)
  <2>1. k + 1 \in 1..n /\ (k + 1) - 1 = k
    BY <1>1
  <2> DEFINE l == k + 1
  <2> HIDE DEF l
  <2>2. cmds[l] = M!Command(img, l - 1) /\ l - 1 = k
    BY <1>2, <2>1 DEF l
  <2> QED
    BY <2>2 DEF l
<1>6. Listed(cmds, img, off, n)
  BY <1>3, <1>4, <1>5 DEF Listed
<1> QED
  BY <1>6 DEF cmds, n

\* s and t have n words, and the same.
Agree(s, t, n) ==
  Len(s) = n /\ Len(t) = n /\ \A j \in 0..(n - 1) : s[j + 1] = t[j + 1]

\* Two commands of as many words, one by one the same.
LEMMA SameWords ==
  ASSUME NEW s \in Seq(Nat), NEW t \in Seq(Nat), NEW n, Agree(s, t, n)
  PROVE  s = t
<1>0. Len(s) = n /\ Len(t) = n /\ \A j \in 0..(n - 1) : s[j + 1] = t[j + 1]
  BY DEF Agree
<1>1. n \in Nat
  BY <1>0
<1>2. ASSUME NEW k \in 1..n PROVE s[k] = t[k]
  <2> DEFINE j == k - 1
  <2>1. j \in 0..(n - 1) /\ j + 1 = k
    BY <1>1
  <2> HIDE DEF j
  <2>2. s[j + 1] = t[j + 1]
    BY <1>0, <2>1
  <2> QED
    BY <2>1, <2>2
<1> QED
  BY <1>0, <1>1, <1>2

\* A rewrite puts the new command in the place of the anchor.
LEMMA CommandsMove ==
  ASSUME NEW img, NEW out, NEW new, NEW name, NEW off, NEW n, NEW sz,
         NEW from, NEW size, NEW s, NEW cnt, NEW i, NEW cmds, NEW outs, NEW offs, NEW m,
         TableAt(img, off, n, sz), AnchorAt(img, off, n, i, cnt, from, size),
         NewCommand(new, name, s), Moved(out, img, new, from, size, s, n, cnt, sz),
         m = (n - cnt) + 1,
         \A k \in 0..m : offs[k] = NewOffset(off, i, cnt, s - size, k),
         Listed(cmds, img, off, n), Listed(outs, out, offs, m)
  PROVE  Spliced(outs, cmds, i, i + cnt, new)
<1> DEFINE delta == s - size
<1>1. /\ n \in Nat /\ sz \in Nat
      /\ \A k \in 0..n : off[k] \in 0..sz
      /\ \A j, k \in 0..n : j <= k => off[j] <= off[k]
  BY DEF TableAt
<1>2. /\ i \in 0..(n - 1) /\ cnt \in {1, 2} /\ i + cnt <= n
      /\ size \in Nat \ {0}
      /\ off[i] = from /\ off[i + cnt] = from + size
  BY DEF AnchorAt
<1>3. s \in 4..999 /\ new \in Seq(Nat) /\ Len(new) = s
  BY DEF NewCommand
<1>4. /\ \A p \in 0..(from - 1) : M!Word(out, p) = M!Word(img, p)
      /\ \A p \in from..(from + s - 1) : M!Word(out, p) = new[(p - from) + 1]
      /\ \A p \in (from + size)..(sz - 1) : M!Word(out, p + delta) = M!Word(img, p)
  BY DEF Moved
<1>5. /\ m \in Nat /\ delta \in Int /\ delta = s - size
      /\ i \in Nat /\ i < m /\ i + cnt \in 0..n /\ from \in Nat /\ cnt \in Nat /\ n \in Nat
      /\ m = (n - cnt) + 1 /\ i \in 0..n
  BY <1>1, <1>2, <1>3
<1> HIDE DEF delta
<1>6. /\ \A k \in 0..i : offs[k] = off[k]
      /\ \A k \in (i + 1)..m : offs[k] = off[(k + cnt) - 1] + delta
  BY <1>5 DEF NewOffset, delta
<1>7. /\ cmds \in Seq(Seq(Nat)) /\ Len(cmds) = n
      /\ \A k \in 0..(n - 1) :
           /\ Len(cmds[k + 1]) = off[k + 1] - off[k]
           /\ \A j \in 0..((off[k + 1] - off[k]) - 1) : cmds[k + 1][j + 1] = M!Word(img, off[k] + j)
  BY DEF Listed
<1>8. /\ outs \in Seq(Seq(Nat)) /\ Len(outs) = m
      /\ \A k \in 0..(m - 1) :
           /\ Len(outs[k + 1]) = offs[k + 1] - offs[k]
           /\ \A j \in 0..((offs[k + 1] - offs[k]) - 1) :
                outs[k + 1][j + 1] = M!Word(out, offs[k] + j)
  BY DEF Listed
<1>9. /\ \A k \in 1..n : cmds[k] \in Seq(Nat)
      /\ \A k \in 1..m : outs[k] \in Seq(Nat)
  <2> DEFINE T == Seq(Nat)
  <2>1. cmds \in Seq(T) /\ Len(cmds) = n /\ outs \in Seq(T) /\ Len(outs) = m
    BY <1>7, <1>8
  <2> HIDE DEF T
  <2>2. (\A k \in 1..n : cmds[k] \in T) /\ (\A k \in 1..m : outs[k] \in T)
    BY <2>1
  <2> QED
    BY <2>2 DEF T
<1>10. ASSUME NEW k \in 0..(i - 1) PROVE outs[k + 1] = cmds[k + 1]
  <2> DEFINE x == off[k]
             y == off[k + 1]
             u == outs[k + 1]
             v == cmds[k + 1]
  <2>1. /\ k \in 0..(n - 1) /\ k \in 0..(m - 1) /\ k \in 0..n /\ k + 1 \in 0..n /\ k + 1 <= i
        /\ k <= k + 1 /\ k \in 0..i /\ k + 1 \in 0..i /\ k + 1 \in 1..n /\ k + 1 \in 1..m
    BY <1>5
  <2>2. x \in Nat /\ y \in Nat /\ x <= y /\ y <= from
    BY <1>1, <1>2, <1>5, <2>1
  <2>3. offs[k] = x /\ offs[k + 1] = y
    BY <1>6, <2>1
  <2>4. u \in Seq(Nat) /\ v \in Seq(Nat)
    BY <1>9, <2>1
  <2>5. /\ Len(v) = y - x /\ \A j \in 0..((y - x) - 1) : v[j + 1] = M!Word(img, x + j)
        /\ Len(u) = y - x /\ \A j \in 0..((y - x) - 1) : u[j + 1] = M!Word(out, x + j)
    BY <1>7, <1>8, <2>1, <2>3
  <2> HIDE DEF x, y, u, v
  <2>6. \A j \in 0..((y - x) - 1) : u[j + 1] = v[j + 1]
    <3> SUFFICES ASSUME NEW j \in 0..((y - x) - 1) PROVE u[j + 1] = v[j + 1]
      OBVIOUS
    <3>1. x + j \in 0..(from - 1)
      BY <1>5, <2>2
    <3> QED
      BY <1>4, <2>5, <3>1
  <2>7. u = v
    <3>1. Agree(u, v, y - x)
      BY <2>5, <2>6 DEF Agree
    <3> QED
      BY <2>4, <3>1, SameWords
  <2> QED
    BY <2>7 DEF u, v
<1>11. outs[i + 1] = new
  <2> DEFINE u == outs[i + 1]
  <2>1. i \in 0..(m - 1) /\ i \in 0..i /\ i + 1 \in (i + 1)..m /\ i + 1 \in 1..m
        /\ ((i + 1) + cnt) - 1 = i + cnt
    BY <1>5
  <2>2. offs[i] = from /\ offs[i + 1] = (from + size) + delta
    BY <1>2, <1>6, <2>1
  <2>3. (from + size) + delta = from + s
    BY <1>2, <1>3, <1>5
  <2>4. u \in Seq(Nat)
    BY <1>9, <2>1
  <2>5. /\ Len(u) = (from + s) - from
        /\ \A j \in 0..(((from + s) - from) - 1) : u[j + 1] = M!Word(out, from + j)
    BY <1>8, <2>1, <2>2, <2>3
  <2>6. (from + s) - from = s
    BY <1>3, <1>5
  <2> HIDE DEF u
  <2>7. \A j \in 0..(s - 1) : u[j + 1] = new[j + 1]
    <3> SUFFICES ASSUME NEW j \in 0..(s - 1) PROVE u[j + 1] = new[j + 1]
      OBVIOUS
    <3>1. from + j \in from..(from + s - 1) /\ ((from + j) - from) + 1 = j + 1
      BY <1>3, <1>5
    <3> DEFINE p == from + j
    <3> HIDE DEF p
    <3>2. M!Word(out, p) = new[(p - from) + 1]
      BY <1>4, <3>1 DEF p
    <3> QED
      BY <2>5, <2>6, <3>1, <3>2 DEF p
  <2>8. Len(u) = s
    BY <2>5, <2>6
  <2>9. u = new
    <3>1. Agree(u, new, s)
      BY <1>3, <2>7, <2>8 DEF Agree
    <3> QED
      BY <1>3, <2>4, <3>1, SameWords
  <2> QED
    BY <2>9 DEF u
<1>12. ASSUME NEW k \in (i + cnt)..(n - 1)
       PROVE  outs[((k - cnt) + 1) + 1] = cmds[k + 1]
  <2> DEFINE l == (k - cnt) + 1
             x == off[k]
             y == off[k + 1]
             u == outs[l + 1]
             v == cmds[k + 1]
  <2>0. k \in Int /\ k >= i + cnt /\ k <= n - 1
    BY <1>5
  <2>1. /\ k \in 0..(n - 1) /\ k \in 0..n /\ k + 1 \in 0..n /\ k + 1 \in 1..n
        /\ i + cnt <= k /\ k <= k + 1 /\ n \in 0..n /\ k + 1 <= n
    BY <1>5, <2>0
  <2>2. /\ l \in (i + 1)..m /\ l + 1 \in (i + 1)..m /\ l \in 0..(m - 1) /\ l + 1 \in 1..m
        /\ (l + cnt) - 1 = k /\ ((l + 1) + cnt) - 1 = k + 1
    BY <1>5, <2>0
  <2>3. x \in 0..sz /\ y \in 0..sz /\ x <= y /\ from + size <= x
    BY <1>1, <1>2, <1>5, <2>1
  <2> HIDE DEF l
  <2>4. offs[l] = x + delta
    BY <1>6, <2>2
  <2>5. offs[l + 1] = y + delta
    <3> DEFINE q == l + 1
    <3> HIDE DEF q
    <3>1. offs[q] = off[(q + cnt) - 1] + delta
      BY <1>6, <2>2 DEF q
    <3>2. (q + cnt) - 1 = k + 1
      BY <2>2 DEF q
    <3> QED
      BY <3>1, <3>2 DEF q
  <2>6. (y + delta) - (x + delta) = y - x
    BY <1>1, <1>5, <2>3
  <2>7. u \in Seq(Nat) /\ v \in Seq(Nat)
    BY <1>9, <2>1, <2>2
  <2>8. /\ Len(v) = y - x /\ \A j \in 0..((y - x) - 1) : v[j + 1] = M!Word(img, x + j)
        /\ Len(u) = y - x /\ \A j \in 0..((y - x) - 1) : u[j + 1] = M!Word(out, (x + delta) + j)
    <3> DEFINE d == (y + delta) - (x + delta)
    <3>1. Len(v) = y - x /\ \A j \in 0..((y - x) - 1) : v[j + 1] = M!Word(img, x + j)
      BY <1>7, <2>1
    <3>2. /\ Len(u) = offs[l + 1] - offs[l]
          /\ \A j \in 0..((offs[l + 1] - offs[l]) - 1) : u[j + 1] = M!Word(out, offs[l] + j)
      BY <1>8, <2>2
    <3>3. d = y - x /\ offs[l + 1] - offs[l] = d
      BY <2>4, <2>5, <2>6
    <3> HIDE DEF d, u, v, x, y
    <3> QED
      BY <2>4, <3>1, <3>2, <3>3
  <2> HIDE DEF x, y, u, v
  <2>9. \A j \in 0..((y - x) - 1) : u[j + 1] = v[j + 1]
    <3> SUFFICES ASSUME NEW j \in 0..((y - x) - 1) PROVE u[j + 1] = v[j + 1]
      OBVIOUS
    <3> DEFINE p == x + j
    <3>1. p \in (from + size)..(sz - 1) /\ p + delta = (x + delta) + j
      BY <1>1, <1>2, <1>5, <2>3
    <3> HIDE DEF p
    <3>2. M!Word(out, p + delta) = M!Word(img, p)
      BY <1>4, <3>1
    <3>3. v[j + 1] = M!Word(img, p) /\ u[j + 1] = M!Word(out, (x + delta) + j)
      BY <2>8 DEF p
    <3> QED
      BY <3>1, <3>2, <3>3
  <2>10. u = v
    <3>1. Agree(u, v, y - x)
      BY <2>8, <2>9 DEF Agree
    <3> QED
      BY <2>7, <3>1, SameWords
  <2> QED
    BY <2>10 DEF u, v, l
<1> DEFINE T == Seq(Nat)
           j == i + cnt
<1>13. cmds \in Seq(T) /\ outs \in Seq(T) /\ new \in T
  BY <1>3, <1>7, <1>8
<1> HIDE DEF T
<1>14. j \in Nat /\ i <= j /\ j <= Len(cmds) /\ Len(outs) = (i + 1) + (Len(cmds) - j)
  <2>1. j = i + cnt
    OBVIOUS
  <2>2. Len(cmds) = n /\ Len(outs) = (n - cnt) + 1
    BY <1>5, <1>7, <1>8
  <2> HIDE DEF j
  <2>3. j \in Nat /\ i <= j /\ j <= n /\ (n - cnt) + 1 = (i + 1) + (n - j)
    BY <1>5, <2>1
  <2> QED
    BY <2>2, <2>3
<1>15. \A k \in 1..i : outs[k] = cmds[k]
  <2> SUFFICES ASSUME NEW k \in 1..i PROVE outs[k] = cmds[k]
    OBVIOUS
  <2> DEFINE l == k - 1
  <2>1. l \in 0..(i - 1) /\ l + 1 = k
    BY <1>5
  <2> HIDE DEF l
  <2>2. outs[l + 1] = cmds[l + 1]
    BY <1>10, <2>1
  <2> QED
    BY <2>1, <2>2
<1>16. \A k \in (j + 1)..Len(cmds) : outs[(k - j) + (i + 1)] = cmds[k]
  <2> SUFFICES ASSUME NEW k \in (j + 1)..Len(cmds) PROVE outs[(k - j) + (i + 1)] = cmds[k]
    OBVIOUS
  <2> DEFINE l == k - 1
  <2>1. l \in (i + cnt)..(n - 1) /\ l + 1 = k /\ ((l - cnt) + 1) + 1 = (k - j) + (i + 1)
    BY <1>5, <1>7
  <2> HIDE DEF l
  <2>2. outs[((l - cnt) + 1) + 1] = cmds[l + 1]
    BY <1>12, <2>1
  <2> QED
    BY <2>1, <2>2
<1> HIDE DEF j
<1>17. Spliced(outs, cmds, i, j, new)
  BY <1>5, <1>11, <1>13, <1>14, <1>15, <1>16, SpliceIs
<1> QED
  BY <1>17 DEF j

-----------------------------------------------------------------------------
(***************************************************************************)
(* Signing a Mach-O file.                                                  *)
(***************************************************************************)

\* Two more words belong to the table, those of a signature.
WithSignature(out, img, n, sz) ==
  /\ out.words \in Seq(Nat) /\ Len(out.words) = Len(img.words)
  /\ out.thin64 = img.thin64 /\ out.free = img.free
  /\ out.ncmds = n + 1 /\ out.sizeofcmds = sz + 2
  /\ M!Word(out, sz) = 29002 /\ M!Word(out, sz + 1) = 777
  /\ \A p \in 0..(Len(img.words) - 1) :
       p \notin {sz, sz + 1} => M!Word(out, p) = M!Word(img, p)

SignedFrom(out, img) ==
  out = [img EXCEPT
           !.words = [i \in DOMAIN img.words |->
                        IF i - img.sizeofcmds \in {1, 2}
                        THEN M!SignatureWords[i - img.sizeofcmds]
                        ELSE img.words[i]],
           !.sizeofcmds = @ + 2,
           !.ncmds = @ + 1]

\* What signing writes is one command more.
LEMMA SigningAppends ==
  ASSUME NEW img, img.words \in Seq(Nat), img.sizeofcmds \in Nat,
         img.sizeofcmds + 1 < Len(img.words), NEW out, SignedFrom(out, img)
  PROVE  WithSignature(out, img, img.ncmds, img.sizeofcmds)
<1> DEFINE w == img.words
           v == out.words
           len == Len(w)
           n == img.ncmds
           sz == img.sizeofcmds
           sig == M!SignatureWords
<1>1. /\ out.thin64 = img.thin64 /\ out.free = img.free
      /\ out.ncmds = n + 1 /\ out.sizeofcmds = sz + 2
  BY DEF SignedFrom
<1>2. v = [i \in DOMAIN w |-> IF i - sz \in {1, 2} THEN sig[i - sz] ELSE w[i]]
  BY DEF SignedFrom
<1>3. sig[1] = 29002 /\ sig[2] = 777
  BY DEF M!SignatureWords, M!FirstWord, M!LC_CODE_SIGNATURE, M!LINKEDIT_DATA_COMMAND_SIZE
<1>4. /\ len \in Nat /\ DOMAIN w = 1..len /\ sz + 1 < len /\ sz \in Nat
      /\ \A i \in 1..len : w[i] \in Nat
  OBVIOUS
<1> HIDE DEF sig, v, w, len, n, sz
<1>5. /\ v \in [1..len -> Nat]
      /\ \A i \in 1..len : v[i] = IF i - sz \in {1, 2} THEN sig[i - sz] ELSE w[i]
  <2>1. \A i \in 1..len : v[i] = IF i - sz \in {1, 2} THEN sig[i - sz] ELSE w[i]
    BY <1>2, <1>4
  <2>2. \A i \in 1..len : v[i] \in Nat
    <3> SUFFICES ASSUME NEW i \in 1..len PROVE v[i] \in Nat
      OBVIOUS
    <3> DEFINE d == i - sz
    <3>1. v[i] = IF d \in {1, 2} THEN sig[d] ELSE w[i]
      BY <2>1
    <3>2. w[i] \in Nat
      BY <1>4
    <3> HIDE DEF d
    <3>3. CASE d = 1
      BY <1>3, <3>1, <3>3
    <3>4. CASE d = 2
      BY <1>3, <3>1, <3>4
    <3>5. CASE d \notin {1, 2}
      BY <3>1, <3>2, <3>5
    <3> QED
      BY <3>3, <3>4, <3>5
  <2>3. v = [i \in 1..len |-> v[i]]
    BY <1>2, <1>4
  <2> QED
    BY <2>1, <2>2, <2>3
<1>6. v \in Seq(Nat) /\ Len(v) = len
  <2>1. v \in Seq(Nat)
    BY <1>4, <1>5, SeqDef
  <2> QED
    BY <1>4, <1>5, <2>1
<1>7. v[sz + 1] = 29002 /\ v[(sz + 1) + 1] = 777
  <2>1. /\ sz + 1 \in 1..len /\ (sz + 1) - sz = 1
        /\ (sz + 1) + 1 \in 1..len /\ ((sz + 1) + 1) - sz = 2
    BY <1>4
  <2> DEFINE x == sz + 1
             y == (sz + 1) + 1
  <2> HIDE DEF x, y
  <2>2. x \in 1..len /\ x - sz = 1 /\ y \in 1..len /\ y - sz = 2
    BY <2>1 DEF x, y
  <2>3. v[x] = sig[1] /\ v[y] = sig[2]
    BY <1>5, <2>2
  <2> QED
    BY <1>3, <2>3 DEF x, y
<1>8. ASSUME NEW p \in 0..(len - 1), p \notin {sz, sz + 1} PROVE v[p + 1] = w[p + 1]
  <2> DEFINE x == p + 1
  <2>1. x \in 1..len /\ x - sz \notin {1, 2}
    BY <1>4, <1>8
  <2> HIDE DEF x
  <2>2. v[x] = w[x]
    BY <1>5, <2>1
  <2> QED
    BY <2>2 DEF x
<1>9. \A p : M!Word(out, p) = v[p + 1] /\ M!Word(img, p) = w[p + 1]
  BY DEF M!Word, v, w
<1>10. /\ M!Word(out, sz) = 29002 /\ M!Word(out, sz + 1) = 777
       /\ \A p \in 0..(len - 1) : p \notin {sz, sz + 1} => M!Word(out, p) = M!Word(img, p)
  <2>1. M!Word(out, sz) = 29002 /\ M!Word(out, sz + 1) = 777
    <3>1. M!Word(out, sz) = v[sz + 1] /\ M!Word(out, sz + 1) = v[(sz + 1) + 1]
      BY <1>9
    <3> QED
      BY <1>7, <3>1
  <2>2. ASSUME NEW p \in 0..(len - 1), p \notin {sz, sz + 1} PROVE M!Word(out, p) = M!Word(img, p)
    BY <1>8, <1>9, <2>2
  <2> QED
    BY <2>1, <2>2
<1>11. out.words \in Seq(Nat) /\ Len(out.words) = Len(img.words)
  BY <1>6 DEF v, w, len
<1>12. \A p \in 0..(Len(img.words) - 1) : p \notin {sz, sz + 1} => M!Word(out, p) = M!Word(img, p)
  BY <1>10 DEF w, len
<1> QED
  BY <1>1, <1>10, <1>11, <1>12 DEF WithSignature, n, sz

\* The commands are those there were and the signature.
LEMMA SignatureIsLast ==
  ASSUME NEW img, M!Filled(img), img.sizeofcmds + 1 < Len(img.words), NEW out,
         WithSignature(out, img, img.ncmds, img.sizeofcmds)
  PROVE  /\ M!Filled(out)
         /\ M!Commands(out) = Append(M!Commands(img), M!SignatureWords)
<1> DEFINE n == img.ncmds
           sz == img.sizeofcmds
           off == M!Offsets(img)
           len == Len(img.words)
           m == out.ncmds
           osz == out.sizeofcmds
           g == [k \in 0..(n + 1) |-> IF k <= n THEN off[k] ELSE sz + 2]
<1>1. /\ n \in Nat /\ sz \in Nat /\ len \in Nat
      /\ off[0] = 0 /\ off[n] = sz
      /\ \A k \in 0..n : off[k] \in 0..sz
      /\ \A k \in 0..(n - 1) : /\ M!Size(img, off[k]) \in 1..999
                               /\ off[k + 1] = off[k] + M!Size(img, off[k])
      /\ \A j, k \in 0..n : j <= k => off[j] <= off[k]
  BY TheTable DEF TableAt
<1>2. sz + 1 < len
  OBVIOUS
<1>3. /\ out.words \in Seq(Nat) /\ Len(out.words) = len
      /\ m = n + 1 /\ osz = sz + 2
      /\ M!Word(out, sz) = 29002 /\ M!Word(out, sz + 1) = 777
      /\ \A p \in 0..(len - 1) : p \notin {sz, sz + 1} => M!Word(out, p) = M!Word(img, p)
  BY DEF WithSignature
<1> HIDE DEF n, sz, len, m, osz, off
<1>4. (\A k \in 0..n : g[k] = off[k]) /\ g[n + 1] = sz + 2
  BY <1>1
<1> HIDE DEF g
<1>5. \A p \in 0..(sz - 1) : M!Word(out, p) = M!Word(img, p)
  <2> SUFFICES ASSUME NEW p \in 0..(sz - 1) PROVE M!Word(out, p) = M!Word(img, p)
    OBVIOUS
  <2>1. p \in 0..(len - 1) /\ p \notin {sz, sz + 1}
    BY <1>1, <1>2
  <2> QED
    BY <1>3, <2>1
<1>6. ASSUME NEW k \in 0..(m - 1)
      PROVE  /\ g[k] \in Nat /\ M!InFile(out, g[k]) /\ M!Size(out, g[k]) >= 1
             /\ g[k + 1] = g[k] + M!Size(out, g[k])
             /\ g[k + 1] <= Len(out.words)
  <2> SUFFICES /\ g[k] \in Nat /\ g[k] < len /\ M!Size(out, g[k]) >= 1
               /\ g[k + 1] = g[k] + M!Size(out, g[k])
               /\ g[k + 1] <= len
    BY <1>3 DEF M!InFile
  <2>1. CASE k < n
    <3> DEFINE x == off[k]
               y == off[k + 1]
               c1 == M!Size(img, x)
    <3>1. k \in 0..(n - 1) /\ k \in 0..n /\ k + 1 \in 0..n
      BY <1>1, <1>3, <2>1
    <3>2. g[k] = x /\ g[k + 1] = y
      BY <1>4, <3>1
    <3>3. x \in 0..sz /\ y \in 0..sz /\ y = x + c1 /\ c1 \in 1..999
      BY <1>1, <3>1
    <3> HIDE DEF x, y, c1
    <3>4. x \in 0..(sz - 1) /\ y \in Nat /\ x \in Nat /\ x < len /\ y <= len
      BY <1>1, <1>2, <3>3
    <3>5. M!Size(out, x) = c1
      <4>1. M!Word(out, x) = M!Word(img, x)
        BY <1>5, <3>4
      <4> QED
        BY <4>1 DEF M!Size, c1
    <3>6. c1 >= 1
      BY <3>3
    <3> QED
      BY <3>2, <3>3, <3>4, <3>5, <3>6
  <2>2. CASE k = n
    <3>1. g[k] = sz /\ g[k + 1] = sz + 2
      <4>1. n \in 0..n
        BY <1>1
      <4> QED
        BY <1>1, <1>4, <2>2, <4>1
    <3>2. M!Size(out, sz) = 2
      BY <1>3 DEF M!Size
    <3> QED
      BY <1>1, <1>2, <3>1, <3>2
  <2> QED
    BY <1>1, <1>3, <2>1, <2>2
<1>7. M!Filled(out) /\ \A k \in 0..m : M!Offsets(out)[k] = g[k]
  <2>1. /\ out.words \in Seq(Nat) /\ out.ncmds \in Nat /\ out.sizeofcmds \in Nat
        /\ out.sizeofcmds <= Len(out.words)
    BY <1>1, <1>2, <1>3 DEF m, osz
  <2>2. g[0] = 0 /\ g[out.ncmds] = out.sizeofcmds
    <3>1. g[0] = 0
      BY <1>1, <1>4
    <3>2. g[m] = osz
      BY <1>3, <1>4
    <3> QED
      BY <3>1, <3>2 DEF m, osz
  <2>3. \A k \in 0..(out.ncmds - 1) :
          /\ g[k] \in Nat /\ M!InFile(out, g[k]) /\ M!Size(out, g[k]) >= 1
          /\ g[k + 1] = g[k] + M!Size(out, g[k])
          /\ g[k + 1] <= Len(out.words)
    BY <1>6 DEF m
  <2>4. M!Filled(out) /\ \A k \in 0..out.ncmds : M!Offsets(out)[k] = g[k]
    BY <2>1, <2>2, <2>3, TableIs
  <2> QED
    BY <2>4 DEF m
<1> DEFINE cmds == M!Commands(img)
           outs == M!Commands(out)
           offs == M!Offsets(out)
           sig == M!SignatureWords
           T == Seq(Nat)
           longer == Append(cmds, sig)
<1>8. /\ cmds \in Seq(T) /\ Len(cmds) = n
      /\ \A k \in 0..(n - 1) :
           /\ Len(cmds[k + 1]) = off[k + 1] - off[k]
           /\ \A j \in 0..((off[k + 1] - off[k]) - 1) : cmds[k + 1][j + 1] = M!Word(img, off[k] + j)
  BY TheCommands DEF Listed, n, off
<1>9. /\ outs \in Seq(T) /\ Len(outs) = m
      /\ \A k \in 0..(m - 1) :
           /\ Len(outs[k + 1]) = offs[k + 1] - offs[k]
           /\ \A j \in 0..((offs[k + 1] - offs[k]) - 1) :
                outs[k + 1][j + 1] = M!Word(out, offs[k] + j)
  BY <1>7, TheCommands DEF Listed, m
<1>10. \A k \in 0..m : offs[k] = g[k]
  BY <1>7
<1>11. sig \in T /\ Len(sig) = 2 /\ sig[1] = 29002 /\ sig[2] = 777
  BY DEF M!SignatureWords, M!FirstWord, M!LC_CODE_SIGNATURE, M!LINKEDIT_DATA_COMMAND_SIZE
<1> HIDE DEF cmds, outs, offs, sig
<1>12. (\A k \in 1..n : cmds[k] \in T) /\ (\A k \in 1..m : outs[k] \in T)
  <2> HIDE DEF T
  <2> QED
    BY <1>8, <1>9
<1>13. ASSUME NEW k \in 0..(n - 1) PROVE outs[k + 1] = cmds[k + 1]
  <2> DEFINE x == off[k]
             y == off[k + 1]
             u == outs[k + 1]
             v == cmds[k + 1]
  <2>1. /\ k \in 0..(m - 1) /\ k \in 0..n /\ k + 1 \in 0..n /\ k <= k + 1 /\ k \in 0..m
        /\ k + 1 \in 0..m /\ k + 1 \in 1..n /\ k + 1 \in 1..m
    BY <1>1, <1>3
  <2>2. x \in 0..sz /\ y \in 0..sz /\ x <= y
    BY <1>1, <2>1
  <2>3. offs[k] = x /\ offs[k + 1] = y
    BY <1>4, <1>10, <2>1
  <2>4. u \in Seq(Nat) /\ v \in Seq(Nat)
    BY <1>12, <2>1
  <2>5. /\ Len(v) = y - x /\ \A j \in 0..((y - x) - 1) : v[j + 1] = M!Word(img, x + j)
        /\ Len(u) = y - x /\ \A j \in 0..((y - x) - 1) : u[j + 1] = M!Word(out, x + j)
    BY <1>8, <1>9, <2>1, <2>3
  <2> HIDE DEF x, y, u, v
  <2>6. \A j \in 0..((y - x) - 1) : u[j + 1] = v[j + 1]
    <3> SUFFICES ASSUME NEW j \in 0..((y - x) - 1) PROVE u[j + 1] = v[j + 1]
      OBVIOUS
    <3>1. x + j \in 0..(sz - 1)
      BY <1>1, <2>2
    <3> QED
      BY <1>5, <2>5, <3>1
  <2>7. u = v
    <3>1. Agree(u, v, y - x)
      BY <2>5, <2>6 DEF Agree
    <3> QED
      BY <2>4, <3>1, SameWords
  <2> QED
    BY <2>7 DEF u, v
<1>14. outs[n + 1] = sig
  <2> DEFINE u == outs[n + 1]
  <2>1. n \in 0..(m - 1) /\ n \in 0..n /\ n \in 0..m /\ n + 1 \in 0..m /\ n + 1 \in 1..m
    BY <1>1, <1>3
  <2>2. offs[n] = sz /\ offs[n + 1] = sz + 2
    BY <1>1, <1>4, <1>10, <2>1
  <2>3. u \in Seq(Nat)
    BY <1>12, <2>1
  <2>4. /\ Len(u) = (sz + 2) - sz
        /\ \A j \in 0..(((sz + 2) - sz) - 1) : u[j + 1] = M!Word(out, sz + j)
    BY <1>9, <2>1, <2>2
  <2>5. (sz + 2) - sz = 2 /\ sz + 0 = sz
    BY <1>1
  <2> HIDE DEF u
  <2>6. Len(u) = 2 /\ \A j \in 0..1 : u[j + 1] = M!Word(out, sz + j)
    BY <2>4, <2>5
  <2>7. u[0 + 1] = M!Word(out, sz + 0) /\ u[1 + 1] = M!Word(out, sz + 1)
    BY <2>6
  <2>8. u[1] = 29002 /\ u[2] = 777
    BY <1>3, <2>5, <2>7
  <2>9. u = sig
    <3>1. \A k \in 1..2 : u[k] = sig[k]
      BY <1>11, <2>8
    <3>2. /\ sig \in Seq(Nat) /\ u \in Seq(Nat)
          /\ Len(u) = Len(sig)
          /\ \A k \in 1..Len(u) : u[k] = sig[k]
      BY <1>11, <2>3, <2>6, <3>1
    <3> QED
      BY <3>2
  <2> QED
    BY <2>9 DEF u
<1>15. outs = longer
  <2> HIDE DEF T
  <2>1. longer \in Seq(T) /\ Len(longer) = n + 1
    BY <1>8, <1>11
  <2>2. (\A k \in 1..n : longer[k] = cmds[k]) /\ longer[n + 1] = sig
    BY <1>8, <1>11
  <2>3. \A k \in 1..(n + 1) : outs[k] = longer[k]
    <3> SUFFICES ASSUME NEW k \in 1..(n + 1) PROVE outs[k] = longer[k]
      OBVIOUS
    <3> HIDE DEF longer
    <3>1. CASE k = n + 1
      BY <1>14, <2>2, <3>1
    <3>2. CASE k # n + 1
      <4> DEFINE l == k - 1
      <4>1. l \in 0..(n - 1) /\ l + 1 = k /\ k \in 1..n
        BY <1>1, <3>2
      <4> HIDE DEF l
      <4>2. outs[l + 1] = cmds[l + 1]
        BY <1>13, <4>1
      <4> QED
        BY <2>2, <4>1, <4>2
    <3> QED
      BY <3>1, <3>2
  <2> HIDE DEF longer
  <2> QED
    BY <1>3, <1>9, <2>1, <2>3
<1> QED
  BY <1>7, <1>15 DEF cmds, outs, sig

-----------------------------------------------------------------------------
(***************************************************************************)
(* Any number of rewrites and signatures.                                  *)
(***************************************************************************)

\* The first word of a command, and so its kind.
LEMMA KindOf ==
  ASSUME NEW img, NEW cmds, NEW off, NEW n, NEW sz, NEW k \in 0..(n - 1),
         TableAt(img, off, n, sz), Listed(cmds, img, off, n)
  PROVE  cmds[k + 1][1] \div 1000 = M!Cmd(img, off[k])
<1> DEFINE x == off[k]
           y == off[k + 1]
<1>1. n \in Nat /\ x \in 0..sz /\ y = x + M!Size(img, x) /\ M!Size(img, x) \in 1..999 /\ sz \in Nat
  <2>1. n \in Nat /\ sz \in Nat
    BY DEF TableAt
  <2>2. k \in 0..n
    BY <2>1
  <2>3. off[k] \in 0..sz
    <3>1. \A j \in 0..n : off[j] \in 0..sz
      BY Zenon DEF TableAt
    <3> QED
      BY <2>2, <3>1, Zenon
  <2>4. M!Size(img, off[k]) \in 1..999 /\ off[k + 1] = off[k] + M!Size(img, off[k])
    <3>1. \A j \in 0..(n - 1) :
            /\ M!InFile(img, off[j])
            /\ M!Size(img, off[j]) \in 1..999
            /\ off[j + 1] = off[j] + M!Size(img, off[j])
      BY Zenon DEF TableAt
    <3> QED
      BY <3>1
  <2> QED
    BY <2>1, <2>3, <2>4
<1>2. \A j \in 0..((y - x) - 1) : cmds[k + 1][j + 1] = M!Word(img, x + j)
  BY DEF Listed
<1> HIDE DEF x, y
<1>3. 0 \in 0..((y - x) - 1) /\ x + 0 = x
  <2> DEFINE d == M!Size(img, x)
  <2>1. y = x + d /\ d \in 1..999 /\ x \in Nat
    BY <1>1
  <2> HIDE DEF d
  <2> QED
    BY <2>1
<1>4. cmds[k + 1][0 + 1] = M!Word(img, x + 0)
  BY <1>2, <1>3
<1>5. cmds[k + 1][1] = M!Word(img, x)
  BY <1>3, <1>4
<1> QED
  BY <1>5 DEF M!Cmd, x

\* No command of the file is a signature when none has the kind of one.
LEMMA NoSignatures ==
  ASSUME NEW img, M!Filled(img),
         \A k \in 0..(img.ncmds - 1) : M!Cmd(img, M!Offsets(img)[k]) # M!LC_CODE_SIGNATURE
  PROVE  \A i \in DOMAIN M!Commands(img) :
           M!Commands(img)[i][1] \div 1000 # M!LC_CODE_SIGNATURE
<1> DEFINE n == img.ncmds
           off == M!Offsets(img)
           sz == img.sizeofcmds
           cmds == M!Commands(img)
<1>1. TableAt(img, off, n, sz) /\ Listed(cmds, img, off, n)
  BY TheTable, TheCommands
<1>2. \A k \in 0..(n - 1) : M!Cmd(img, off[k]) # M!LC_CODE_SIGNATURE
  OBVIOUS
<1> HIDE DEF n, off, sz, cmds
<1>3. \A k \in 0..(n - 1) : cmds[k + 1][1] \div 1000 = M!Cmd(img, off[k])
  BY <1>1, KindOf
<1>4. n \in Nat /\ DOMAIN cmds = 1..n
  BY <1>1 DEF TableAt, Listed
<1>5. ASSUME NEW i \in DOMAIN cmds PROVE cmds[i][1] \div 1000 # M!LC_CODE_SIGNATURE
  <2> DEFINE k == i - 1
  <2>1. k \in 0..(n - 1)
    BY <1>4
  <2>2. k + 1 = i
    BY <1>4
  <2> HIDE DEF k
  <2> QED
    BY <1>2, <1>3, <2>1, <2>2
<1> QED
  BY <1>5 DEF cmds

\* The commands from i on to the j-th have become the one of a library.
InjectedAt(outs, cmds, name, i, j) ==
  /\ i < j
  /\ j <= Len(cmds)
  /\ cmds[j][1] \div 1000 = M!LC_CODE_SIGNATURE
  /\ \/ i = j - 1
     \/ i = j - 2 /\ cmds[i + 1][1] \div 1000 = M!LC_DATA_IN_CODE
  /\ Spliced(outs, cmds, i, j, M!DylibCommand(name))

\* A table of sz words that has grown or shrunk into one of osz, of words that
\* were zero; the words after both are the same.
GrownInto(out, img) ==
  /\ Len(out.words) = Len(img.words)
  /\ out.thin64 = img.thin64 /\ out.free = img.free
  /\ \A p \in img.sizeofcmds..(out.sizeofcmds - 1) : M!Word(img, p) = 0
  /\ \A p \in 0..(Len(img.words) - 1) :
       p >= img.sizeofcmds /\ p >= out.sizeofcmds => M!Word(out, p) = M!Word(img, p)

\* A rewrite keeps the table filled, and injects a command.
LEMMA RewriteInjects ==
  ASSUME NEW img, NEW name, MachORewritable(img, name),
         NEW out, out = M!rewrite_macho(img, name)
  PROVE  /\ M!Filled(out)
         /\ GrownInto(out, img)
         /\ \E i, j \in 0..Len(M!Commands(img)) :
              InjectedAt(M!Commands(out), M!Commands(img), name, i, j)
<1> DEFINE n == img.ncmds
           sz == img.sizeofcmds
           off == M!Offsets(img)
           new == M!DylibWords(name)
           s == M!new_cmd_size(name)
           from == M!find_anchor(img).offset
           size == M!find_anchor(img).size
           cnt == M!find_anchor(img).command_count
           cmds == M!Commands(img)
           outs == M!Commands(out)
           offs == M!Offsets(out)
           m == out.ncmds
<1>1. M!Filled(img) /\ M!Candidates(img) # {} /\ M!CanGrow(img, name) /\ name \in MachONames
  BY DEF MachORewritable, M!Status
<1>2. PICK i : AnchorAt(img, off, n, i, cnt, from, size)
  BY <1>1, TheAnchor
<1>3. TableAt(img, off, n, sz) /\ Listed(cmds, img, off, n)
  BY <1>1, TheTable, TheCommands
<1>4. NewCommand(new, name, s)
  BY <1>1, TheNewCommand
<1>5. Moved(out, img, new, from, size, s, n, cnt, sz)
  BY <1>2, RewriteMoves
<1>6. M!Delta(img, name) = s - size
  BY DEF M!Delta
<1> HIDE DEF n, sz, off, new, s, from, size, cnt, cmds
<1>7. /\ M!Filled(out)
      /\ m = (n - cnt) + 1
      /\ \A k \in 0..m : offs[k] = NewOffset(off, i, cnt, s - size, k)
  BY <1>2, <1>3, <1>4, <1>5, StaysFilled
<1>8. Listed(outs, out, offs, m)
  BY <1>7, TheCommands
<1> HIDE DEF outs, offs, m
<1>9. Spliced(outs, cmds, i, i + cnt, new)
  BY <1>2, <1>3, <1>4, <1>5, <1>7, <1>8, CommandsMove
<1>10. /\ i \in 0..(n - 1) /\ cnt \in {1, 2} /\ i + cnt <= n /\ n \in Nat
       /\ M!Cmd(img, off[i + cnt - 1]) = M!LC_CODE_SIGNATURE
       /\ cnt = 2 => M!Cmd(img, off[i]) = M!LC_DATA_IN_CODE
  BY <1>2, <1>3 DEF AnchorAt, TableAt
<1>11. Len(cmds) = n
  BY <1>3 DEF Listed
<1>12. cmds[i + cnt][1] \div 1000 = M!LC_CODE_SIGNATURE
  <2> DEFINE k == i + cnt - 1
  <2>1. k \in 0..(n - 1) /\ k + 1 = i + cnt
    BY <1>10
  <2>2. M!Cmd(img, off[k]) = M!LC_CODE_SIGNATURE
    BY <1>10
  <2> HIDE DEF k
  <2>3. cmds[k + 1][1] \div 1000 = M!Cmd(img, off[k])
    BY <1>3, <2>1, KindOf
  <2> QED
    BY <2>1, <2>2, <2>3
<1>13. cnt = 2 => cmds[i + 1][1] \div 1000 = M!LC_DATA_IN_CODE
  BY <1>3, <1>10, KindOf
<1>14. new = M!DylibCommand(name)
  BY <1>4 DEF NewCommand
<1>15. \E j, k \in 0..Len(cmds) : InjectedAt(outs, cmds, name, j, k)
  <2> DEFINE j == i + cnt
  <2>1. /\ i \in 0..Len(cmds) /\ j \in 0..Len(cmds) /\ i < j /\ j <= Len(cmds)
        /\ cnt = 1 => i = j - 1
        /\ cnt = 2 => i = j - 2
    BY <1>10, <1>11
  <2>2. cmds[j][1] \div 1000 = M!LC_CODE_SIGNATURE /\ Spliced(outs, cmds, i, j, new)
    BY <1>9, <1>12
  <2> HIDE DEF j
  <2>3. InjectedAt(outs, cmds, name, i, j)
    <3>1. \/ i = j - 1
          \/ i = j - 2 /\ cmds[i + 1][1] \div 1000 = M!LC_DATA_IN_CODE
      <4>1. cnt = 1 \/ cnt = 2
        BY <1>10
      <4> QED
        BY <1>13, <2>1, <4>1, Zenon
    <3> QED
      BY <1>14, <2>1, <2>2, <3>1, Zenon DEF InjectedAt
  <2> QED
    BY <2>1, <2>3
<1>16. GrownInto(out, img)
  <2>1. /\ Len(out.words) = Len(img.words)
        /\ out.thin64 = img.thin64 /\ out.free = img.free
        /\ out.sizeofcmds = sz + (s - size)
        /\ \A p \in 0..(Len(img.words) - 1) :
             p >= sz /\ p >= sz + (s - size) => M!Word(out, p) = M!Word(img, p)
    BY <1>5 DEF Moved
  <2>2. s \in Nat /\ size \in Nat /\ sz \in Nat
    <3>1. size \in Nat
      BY <1>2 DEF AnchorAt
    <3>2. sz \in Nat
      BY <1>3 DEF TableAt
    <3>3. s \in Nat
      BY <1>4 DEF NewCommand
    <3> QED
      BY <3>1, <3>2, <3>3
  <2>3. s - size > 0 => \A p \in sz..(sz + (s - size) - 1) : M!Word(img, p) = 0
    BY <1>1, <1>6 DEF M!CanGrow, sz
  <2>4. ASSUME NEW p \in sz..((sz + (s - size)) - 1) PROVE M!Word(img, p) = 0
    <3>1. s - size > 0
      BY <2>2
    <3> QED
      BY <2>2, <2>3, <3>1
  <2>5. \A p \in sz..(out.sizeofcmds - 1) : M!Word(img, p) = 0
    BY <2>1, <2>4
  <2> QED
    BY <2>1, <2>5 DEF GrownInto, sz
<1> QED
  BY <1>7, <1>15, <1>16 DEF outs, cmds

MachOProper(img) == img.thin64 /\ M!WellFormed(img)

\* The table has not grown beyond the padding, and what follows the padding is
\* what it was.
TableInPadding ==
  /\ Len(image.words) = Len(original.words)
  /\ image.free = original.free
  /\ \A end \in original.sizeofcmds..Len(original.words) :
       M!PaddedUntil(original, end) =>
         /\ image.sizeofcmds <= end
         /\ \A off \in end..(Len(original.words) - 1) : M!Word(image, off) = M!Word(original, off)

\* The inductive invariant: a file that was proper has a filled table still;
\* another is never changed, nor signed.
MachOInv ==
  part = "macho" =>
    /\ original \in MachOImages
    /\ ~MachOProper(original) => image = original /\ result # "Ok"
    /\ MachOProper(original) => M!Filled(image) /\ TableInPadding

\* A table that grows takes words of the padding only.
LEMMA GrowsInPadding ==
  ASSUME M!Filled(original), TableInPadding, NEW out, M!Filled(image), M!Filled(out),
         GrownInto(out, image),
         NEW end \in original.sizeofcmds..Len(original.words), M!PaddedUntil(original, end)
  PROVE  /\ out.sizeofcmds <= end
         /\ \A off \in end..(Len(original.words) - 1) : M!Word(out, off) = M!Word(original, off)
<1> DEFINE len == Len(original.words)
           sz == image.sizeofcmds
           osz == out.sizeofcmds
           fst == original.sizeofcmds
<1>1. /\ sz <= end /\ Len(image.words) = len
      /\ \A off \in end..(len - 1) : M!Word(image, off) = M!Word(original, off)
  BY DEF TableInPadding
<1>2. end < len => M!Word(original, end) # 0
  BY DEF M!PaddedUntil
<1>3. /\ sz \in Nat /\ osz \in Nat /\ fst \in Nat /\ len \in Nat
      /\ osz <= Len(out.words)
  BY DEF M!Filled, M!WellFormed
<1>4. /\ Len(out.words) = len
      /\ \A p \in sz..(osz - 1) : M!Word(image, p) = 0
      /\ \A p \in 0..(len - 1) : p >= sz /\ p >= osz => M!Word(out, p) = M!Word(image, p)
  BY <1>1 DEF GrownInto
<1>5. end \in Nat /\ end <= len
  BY <1>3
<1> HIDE DEF len, sz, osz, fst
<1>6. osz <= end
  <2> SUFFICES ASSUME ~ (osz <= end) PROVE FALSE
    OBVIOUS
  <2>1. end \in sz..(osz - 1) /\ end \in end..(len - 1) /\ end < len
    BY <1>1, <1>3, <1>4, <1>5
  <2>2. M!Word(image, end) = 0 /\ M!Word(image, end) = M!Word(original, end)
    BY <1>1, <1>4, <2>1
  <2> QED
    BY <1>2, <2>1, <2>2
<1>7. ASSUME NEW off \in end..(len - 1) PROVE M!Word(out, off) = M!Word(original, off)
  <2>1. off \in 0..(len - 1) /\ off >= sz /\ off >= osz
    BY <1>1, <1>3, <1>5, <1>6
  <2> QED
    BY <1>1, <1>4, <2>1
<1> QED
  BY <1>6, <1>7 DEF len, osz

\* A signature stands in the padding, too.
LEMMA SignsInPadding ==
  ASSUME M!Executable(original), TableInPadding, M!Filled(image),
         image.sizeofcmds..(image.sizeofcmds + 1) \subseteq image.free
  PROVE  /\ image.sizeofcmds + 1 < Len(image.words)
         /\ original.sizeofcmds <= image.sizeofcmds
         /\ \A end \in original.sizeofcmds..Len(original.words) :
              M!PaddedUntil(original, end) => image.sizeofcmds + 2 <= end
<1> DEFINE len == Len(original.words)
           sz == image.sizeofcmds
           fst == original.sizeofcmds
<1>1. sz \in Nat /\ fst \in Nat /\ len \in Nat
  BY DEF M!Filled, M!Executable
<1>2. sz \in original.free /\ sz + 1 \in original.free
  BY <1>1 DEF TableInPadding
<1>3. Len(image.words) = len
  BY DEF TableInPadding
<1>4. \E end \in fst..len : M!PaddedUntil(original, end)
  BY DEF M!Executable
<1>5. ASSUME NEW end \in fst..len, M!PaddedUntil(original, end)
      PROVE  sz + 2 <= end /\ end <= len /\ fst <= sz
  <2>1. original.free = fst..(end - 1)
    BY <1>5 DEF M!PaddedUntil
  <2> HIDE DEF len, sz, fst
  <2> QED
    BY <1>1, <1>2, <1>5, <2>1
<1> HIDE DEF len, sz, fst
<1>6. sz + 1 < len /\ fst <= sz
  BY <1>1, <1>4, <1>5
<1>7. \A end \in fst..len : M!PaddedUntil(original, end) => sz + 2 <= end
  BY <1>5
<1> QED
  BY <1>3, <1>6, <1>7 DEF len, sz, fst

\* The assumptions about a proper file, as the lemmas need them.
LEMMA ProperFiles ==
  ASSUME original \in MachOImages, MachOProper(original)
  PROVE  M!Executable(original) /\ M!Filled(original)
BY MachOAssumption DEF MachOProper, M!Executable

\* A rewrite keeps the invariant and injects a command.
LEMMA MachORewriteStep ==
  ASSUME MachOInv, part = "macho", NEW name \in MachONames, M!Status(image, name) = "Ok",
         image' = M!rewrite_macho(image, name), original' = original, part' = part
  PROVE  /\ MachOInv'
         /\ \E i, j \in 0..Len(M!Commands(image)) :
              InjectedAt(M!Commands(image'), M!Commands(image), name, i, j)
<1>1. MachOProper(original)
  <2> SUFFICES ASSUME ~ MachOProper(original) PROVE FALSE
    OBVIOUS
  <2>1. image = original
    BY DEF MachOInv
  <2>2. image.thin64 /\ M!WellFormed(image)
    BY DEF M!Status
  <2> QED
    BY <2>1, <2>2 DEF MachOProper
<1>2. M!Filled(image) /\ TableInPadding /\ original \in MachOImages
  BY <1>1 DEF MachOInv
<1>3. M!Filled(original)
  BY <1>1, <1>2, ProperFiles
<1>4. MachORewritable(image, name)
  BY <1>2 DEF MachORewritable
<1>5. /\ M!Filled(image')
      /\ GrownInto(image', image)
      /\ \E i, j \in 0..Len(M!Commands(image)) :
           InjectedAt(M!Commands(image'), M!Commands(image), name, i, j)
  BY <1>4, RewriteInjects
<1>6. TableInPadding'
  <2>1. Len(image'.words) = Len(original.words) /\ image'.free = original.free
    BY <1>2, <1>5 DEF TableInPadding, GrownInto
  <2>2. \A end \in original.sizeofcmds..Len(original.words) :
          M!PaddedUntil(original, end) =>
            /\ image'.sizeofcmds <= end
            /\ \A off \in end..(Len(original.words) - 1) :
                 M!Word(image', off) = M!Word(original, off)
    BY <1>2, <1>3, <1>5, GrowsInPadding
  <2> QED
    BY <2>1, <2>2 DEF TableInPadding
<1>7. MachOInv'
  BY <1>1, <1>2, <1>5, <1>6 DEF MachOInv
<1> QED
  BY <1>5, <1>7

\* A signature keeps the invariant and comes after the other commands.
LEMMA MachOSignStep ==
  ASSUME MachOInv, part = "macho", M!Sign, part' = part
  PROVE  /\ MachOInv'
         /\ M!Commands(image') = Append(M!Commands(image), M!SignatureWords)
<1>1. /\ result = "Ok" /\ original' = original
      /\ image.sizeofcmds..(image.sizeofcmds + 1) \subseteq image.free
      /\ SignedFrom(image', image)
  BY DEF M!Sign, SignedFrom
<1>2. MachOProper(original) /\ original \in MachOImages
  BY <1>1 DEF MachOInv
<1>3. M!Filled(image) /\ TableInPadding
  BY <1>2 DEF MachOInv
<1>4. M!Executable(original) /\ M!Filled(original)
  BY <1>2, ProperFiles
<1>5. /\ image.sizeofcmds + 1 < Len(image.words)
      /\ \A end \in original.sizeofcmds..Len(original.words) :
           M!PaddedUntil(original, end) => image.sizeofcmds + 2 <= end
  BY <1>1, <1>3, <1>4, SignsInPadding
<1>6. image.words \in Seq(Nat) /\ image.sizeofcmds \in Nat
  BY <1>3 DEF M!Filled
<1>7. WithSignature(image', image, image.ncmds, image.sizeofcmds)
  BY <1>1, <1>5, <1>6, SigningAppends
<1>8. /\ M!Filled(image')
      /\ M!Commands(image') = Append(M!Commands(image), M!SignatureWords)
  BY <1>3, <1>5, <1>7, SignatureIsLast
<1>9. TableInPadding'
  <2> DEFINE sz == image.sizeofcmds
  <2>1. /\ Len(image'.words) = Len(image.words) /\ image'.free = image.free
        /\ image'.sizeofcmds = sz + 2
        /\ \A p \in 0..(Len(image.words) - 1) :
             p \notin {sz, sz + 1} => M!Word(image', p) = M!Word(image, p)
    BY <1>7 DEF WithSignature
  <2>2. Len(image'.words) = Len(original.words) /\ image'.free = original.free
    BY <1>3, <2>1 DEF TableInPadding
  <2>3. ASSUME NEW end \in original.sizeofcmds..Len(original.words), M!PaddedUntil(original, end)
        PROVE  /\ image'.sizeofcmds <= end
               /\ \A off \in end..(Len(original.words) - 1) :
                    M!Word(image', off) = M!Word(original, off)
    <3>1. sz + 2 <= end /\ sz \in Nat
      BY <1>5, <1>6, <2>3
    <3>2. /\ Len(image.words) = Len(original.words)
          /\ \A off \in end..(Len(original.words) - 1) : M!Word(image, off) = M!Word(original, off)
      BY <1>3, <2>3 DEF TableInPadding
    <3>3. end \in Nat
      <4>1. original.sizeofcmds \in Nat /\ end \in original.sizeofcmds..Len(original.words)
        BY <1>4, <2>3 DEF M!Filled
      <4> QED
        BY <4>1
    <3> HIDE DEF sz
    <3>4. ASSUME NEW off \in end..(Len(original.words) - 1)
          PROVE  M!Word(image', off) = M!Word(original, off)
      <4>1. off \in 0..(Len(image.words) - 1) /\ off \notin {sz, sz + 1}
        BY <3>1, <3>2, <3>3
      <4> QED
        BY <2>1, <3>2, <4>1
    <3> QED
      BY <2>1, <3>1, <3>4
  <2>4. \A end \in original.sizeofcmds..Len(original.words) :
          M!PaddedUntil(original, end) =>
            /\ image'.sizeofcmds <= end
            /\ \A off \in end..(Len(original.words) - 1) :
                 M!Word(image', off) = M!Word(original, off)
    BY <2>3
  <2> QED
    BY <1>1, <2>2, <2>4 DEF TableInPadding
<1>10. MachOInv'
  BY <1>1, <1>2, <1>8, <1>9 DEF MachOInv
<1> QED
  BY <1>8, <1>10

\* It holds in every state of every behaviour.
LEMMA MachOInvariant ==
  MCSpec => []MachOInv
<1>1. MCInit => MachOInv
  <2> SUFFICES ASSUME MCInit, part = "macho" PROVE MachOInv
    BY DEF MachOInv
  <2>1. image \in MachOImages /\ image = original /\ result = "None"
    BY DEF MCInit, M!Init
  <2>2. ASSUME MachOProper(original) PROVE M!Filled(image) /\ TableInPadding
    <3>1. M!Executable(original) /\ M!Filled(original)
      BY <2>1, <2>2, ProperFiles
    <3>2. original.sizeofcmds \in Nat
      BY <3>1 DEF M!Filled
    <3>3. TableInPadding
      BY <2>1, <3>2 DEF TableInPadding
    <3> QED
      BY <2>1, <3>1, <3>3
  <2> QED
    BY <2>1, <2>2 DEF MachOInv
<1>2. MachOInv /\ [MCNext]_<<part, rewrites, vars, signVars>> => MachOInv'
  <2> SUFFICES ASSUME MachOInv, [MCNext]_<<part, rewrites, vars, signVars>> PROVE MachOInv'
    OBVIOUS
  <2>1. CASE UNCHANGED <<part, vars>>
    BY <2>1 DEF MachOInv, TableInPadding, vars
  <2>2. CASE ElfNext
    BY <2>2 DEF ElfNext, MachOInv
  <2>3. CASE Signing
    BY <2>3 DEF Signing, MachOInv
  <2>4. CASE MachONext
    <3>1. part = "macho" /\ part' = part
      BY <2>4 DEF MachONext
    <3>2. ASSUME NEW name \in MachONames, M!Rewrite(name) PROVE MachOInv'
      <4>1. CASE M!Status(image, name) = "Ok"
        BY <3>1, <3>2, <4>1, MachORewriteStep DEF M!Rewrite
      <4>2. CASE M!Status(image, name) # "Ok"
        <5>1. image' = image /\ original' = original /\ result' # "Ok"
          BY <3>2, <4>2 DEF M!Rewrite
        <5> QED
          BY <3>1, <5>1 DEF MachOInv, TableInPadding
      <4> QED
        BY <4>1, <4>2
    <3>3. ASSUME M!Sign PROVE MachOInv'
      BY <3>1, <3>3, MachOSignStep
    <3> QED
      BY <2>4, <3>2, <3>3 DEF MachONext, M!Next
  <2> QED
    BY <2>1, <2>2, <2>3, <2>4 DEF MCNext
<1> QED
  BY <1>1, <1>2, PTL DEF MCSpec

\* A rewrite of a file of either format changes only padding, apart from the
\* fields that must change: it never writes over code or data that follows the
\* padding (os-rewrite-elf lib.rs:244-245, os-rewrite-macho lib.rs:11-12).
THEOREM OnlyPaddingIsUsedAlways ==
  MCSpec => []MCOnlyPaddingIsUsed
<1>1. ElfInv /\ part # "macho" => OnlyPaddingIsUsed
  <2> SUFFICES ASSUME ElfInv, part # "macho" PROVE OnlyPaddingIsUsed
    OBVIOUS
  <2>1. CASE ~ Accepted(original)
    BY <2>1 DEF ElfInv, OnlyPaddingIsUsed
  <2>2. CASE Accepted(original)
    <3>1. SinceTheFirst /\ original \in Images
      BY <2>2 DEF ElfInv
    <3>2. SizeSlot(original) \in Entries(original, DT_STRSZ)
      <4>1. Executable(original)
        BY <2>2, <3>1, ElfAssumption
      <4>2. Entries(original, DT_STRSZ) # {}
        BY <2>2 DEF Accepted, Located
      <4>3. Entries(original, DT_STRSZ) \subseteq Nat
        <5>1. Entries(original, DT_STRSZ) \subseteq 0..(Terminator(original) - 1)
          BY <2>2, <4>1, <4>2, EntriesOf DEF Executable, Accepted, Located
        <5> QED
          BY <5>1
      <4> QED
        BY <4>2, <4>3, MinOf DEF SizeSlot
    <3> SUFFICES ASSUME NEW off \in 0..(Len(original.cells) - 1),
                        Cell(image, off) # Cell(original, off)
                 PROVE  \/ off \in original.free
                        \/ off \in {Slot(original, Terminator(original)) + d : d \in {0, 1}}
                        \/ \E k \in Entries(original, DT_STRSZ) : off = Slot(original, k) + 1
      BY DEF OnlyPaddingIsUsed
    <3>3. \/ off \in original.free
          \/ off \in {Slot(original, Terminator(original)), Slot(original, Terminator(original)) + 1}
          \/ off = Slot(original, SizeSlot(original)) + 1
      BY <3>1 DEF SinceTheFirst
    <3>4. Slot(original, Terminator(original)) + 0 = Slot(original, Terminator(original))
      <4>1. Executable(original)
        BY <2>2, <3>1, ElfAssumption
      <4>2. Terminator(original) \in Nat
        BY <2>2, <4>1, TheTerminator DEF Executable, Accepted, Located
      <4>3. Slot(original, Terminator(original)) \in Nat
        BY <2>2, <4>1, <4>2, SlotOffsets DEF Executable, Accepted
      <4> QED
        BY <4>3
    <3> QED
      BY <3>2, <3>3, <3>4
  <2> QED
    BY <2>1, <2>2
<1>2. MachOInv /\ part = "macho" => M!OnlyPaddingIsUsed
  <2> SUFFICES ASSUME MachOInv, part = "macho",
                      NEW off \in original.sizeofcmds..(Len(original.words) - 1),
                      M!Word(image, off) # M!Word(original, off)
               PROVE  off \in original.free
    BY DEF M!OnlyPaddingIsUsed
  <2>1. MachOProper(original) /\ TableInPadding /\ original \in MachOImages
    BY DEF MachOInv
  <2>2. M!Executable(original)
    BY <2>1, ProperFiles
  <2>3. PICK end \in original.sizeofcmds..Len(original.words) : M!PaddedUntil(original, end)
    BY <2>2 DEF M!Executable
  <2>4. /\ original.free = original.sizeofcmds..(end - 1)
        /\ \A p \in end..(Len(original.words) - 1) : M!Word(image, p) = M!Word(original, p)
    BY <2>1, <2>3 DEF M!PaddedUntil, TableInPadding
  <2>5. original.sizeofcmds \in Nat /\ end \in Nat /\ off \in Nat
    <3>1. original.sizeofcmds \in Nat
      BY <2>2 DEF M!Executable, M!Filled
    <3> QED
      BY <2>3, <3>1
  <2>6. off < end
    <3> SUFFICES ASSUME ~ (off < end) PROVE FALSE
      OBVIOUS
    <3>1. off \in end..(Len(original.words) - 1)
      BY <2>5
    <3> QED
      BY <2>4, <3>1
  <2> QED
    BY <2>4, <2>6
<1>3. ElfInv /\ MachOInv => MCOnlyPaddingIsUsed
  BY <1>1, <1>2 DEF MCOnlyPaddingIsUsed
<1> QED
  BY <1>3, ElfInvariant, MachOInvariant, PTL

\* The commands from i on to the j-th have become one of D.
SplicedIn(u, s, i, j, D) ==
  \E e \in D : u = Append(SubSeq(s, 1, i), e) \o SubSeq(s, j + 1, Len(s))

\* A rewrite of the file is a step of LoadCommands.
LEMMA Injects ==
  ASSUME part = "macho", part' = part, NEW name \in MachONames, NEW i, NEW j,
         InjectedAt(M!Commands(image'), M!Commands(image), name, i, j)
  PROVE  Promise!Inject(i, j)
<1> DEFINE d == M!DylibCommand(name)
           outs == FileCommands'
<1>1. d \in {M!DylibCommand(x) : x \in MachONames}
  OBVIOUS
<1>2. FileCommands = M!Commands(image) /\ outs = M!Commands(image')
  BY DEF FileCommands
<1>3. InjectedAt(outs, FileCommands, name, i, j)
  BY <1>2
<1> DEFINE cmds == FileCommands
<1> HIDE DEF outs, cmds
<1>4. InjectedAt(outs, cmds, name, i, j)
  BY <1>3 DEF cmds
<1>5. /\ i < j
      /\ j <= Len(cmds)
      /\ cmds[j][1] \div 1000 = M!LC_CODE_SIGNATURE
      /\ \/ i = j - 1
         \/ i = j - 2 /\ cmds[i + 1][1] \div 1000 = M!LC_DATA_IN_CODE
      /\ Spliced(outs, cmds, i, j, d)
  BY <1>4 DEF InjectedAt
<1> HIDE DEF d
<1>6. outs = Append(SubSeq(cmds, 1, i), d) \o SubSeq(cmds, j + 1, Len(cmds))
  BY <1>5 DEF Spliced
<1>7. SplicedIn(outs, cmds, i, j, {M!DylibCommand(x) : x \in MachONames})
  BY <1>1, <1>6 DEF SplicedIn
<1>8. /\ j <= Len(FileCommands)
      /\ FileCommands[j][1] \div 1000 = M!LC_CODE_SIGNATURE
      /\ \/ i = j - 1
         \/ i = j - 2 /\ FileCommands[i + 1][1] \div 1000 = M!LC_DATA_IN_CODE
  BY <1>5, ZenonT(30) DEF cmds
<1>9. SplicedIn(FileCommands', FileCommands, i, j, {M!DylibCommand(x) : x \in MachONames})
  BY <1>7 DEF cmds, outs
<1>10. \E e \in {M!DylibCommand(x) : x \in MachONames} :
         FileCommands'
           = Append(SubSeq(FileCommands, 1, i), e) \o SubSeq(FileCommands, j + 1, Len(FileCommands))
  BY <1>9, Zenon DEF SplicedIn
<1>11. i < j
  BY <1>5
<1> QED
  BY <1>8, <1>10, <1>11, ZenonT(30) DEF Promise!Inject

\* Signing the file is one, too: the header has no signature left when it is made.
LEMMA Signs ==
  ASSUME MachOInv, part = "macho", M!Sign, part' = part,
         M!Commands(image') = Append(M!Commands(image), M!SignatureWords)
  PROVE  Promise!Sign
<1>1. /\ FileCommands = M!Commands(image)
      /\ FileCommands' = Append(FileCommands, M!SignatureWords)
  BY DEF FileCommands
<1>2. /\ result = "Ok"
      /\ \A k \in 0..(image.ncmds - 1) :
           M!Cmd(image, M!Offsets(image)[k]) # M!LC_CODE_SIGNATURE
  BY DEF M!Sign
<1>3. M!Filled(image)
  BY <1>2 DEF MachOInv
<1>4. \A i \in DOMAIN FileCommands : FileCommands[i][1] \div 1000 # M!LC_CODE_SIGNATURE
  BY <1>1, <1>2, <1>3, NoSignatures
<1> QED
  BY <1>1, <1>4 DEF Promise!Sign

\* Rewriting and signing a Mach-O file, in any order and number, implement
\* LoadCommands: no command but the replaced signature (and data-in-code) is lost,
\* changed or moved out of order, and the header agrees with the table
\* (rewrite_macho, lib.rs:146-212).
THEOREM MachOImplements ==
  MCSpec => MachOImplementsLoadCommands
<1>1. MCInit => Promise!Init
  <2> SUFFICES ASSUME MCInit, NEW i \in DOMAIN FileCommands, NEW j \in DOMAIN FileCommands,
                      FileCommands[i][1] \div 1000 = M!LC_CODE_SIGNATURE,
                      FileCommands[j][1] \div 1000 = M!LC_CODE_SIGNATURE
               PROVE  i = j
    BY DEF Promise!Init
  <2>1. CASE part # "macho"
    BY <2>1 DEF FileCommands
  <2>2. CASE part = "macho"
    <3>1. image \in MachOImages
      BY <2>2 DEF MCInit, M!Init
    <3> QED
      BY <2>2, <3>1, MachOAssumption DEF FileCommands
  <2> QED
    BY <2>1, <2>2
<1>2. MachOInv /\ [MCNext]_<<part, rewrites, vars, signVars>> => [Promise!Next]_FileCommands
  <2> SUFFICES ASSUME MachOInv, [MCNext]_<<part, rewrites, vars, signVars>>
               PROVE  Promise!Next \/ FileCommands' = FileCommands
    OBVIOUS
  <2>1. CASE UNCHANGED <<part, vars>>
    BY <2>1 DEF vars, FileCommands
  <2>2. CASE ElfNext
    BY <2>2 DEF ElfNext, FileCommands
  <2>3. CASE Signing
    BY <2>3 DEF Signing, FileCommands
  <2>4. CASE MachONext
    <3>1. part = "macho" /\ part' = part
      BY <2>4 DEF MachONext
    <3>2. FileCommands = M!Commands(image) /\ FileCommands' = M!Commands(image')
      BY <3>1 DEF FileCommands
    <3>3. ASSUME NEW name \in MachONames, M!Rewrite(name)
          PROVE  Promise!Next \/ FileCommands' = FileCommands
      <4>1. CASE M!Status(image, name) = "Ok"
        <5>1. PICK i, j \in 0..Len(M!Commands(image)) :
                InjectedAt(M!Commands(image'), M!Commands(image), name, i, j)
          BY <3>1, <3>3, <4>1, MachORewriteStep DEF M!Rewrite
        <5>2. Promise!Inject(i, j)
          BY <3>1, <5>1, Injects
        <5> QED
          BY <3>2, <5>1, <5>2 DEF Promise!Next
      <4>2. CASE M!Status(image, name) # "Ok"
        <5>1. image' = image
          BY <3>3, <4>2 DEF M!Rewrite
        <5> QED
          BY <3>2, <5>1
      <4> QED
        BY <4>1, <4>2
    <3>4. ASSUME M!Sign PROVE Promise!Next
      <4>1. M!Commands(image') = Append(M!Commands(image), M!SignatureWords)
        BY <3>1, <3>4, MachOSignStep
      <4>2. Promise!Sign
        BY <3>1, <3>4, <4>1, Signs
      <4> QED
        BY <4>2 DEF Promise!Next
    <3> QED
      BY <2>4, <3>3, <3>4 DEF MachONext, M!Next
  <2> QED
    BY <2>1, <2>2, <2>3, <2>4 DEF MCNext
<1> QED
  BY <1>1, <1>2, MachOInvariant, PTL DEF MCSpec, MachOImplementsLoadCommands, Promise!Spec
-----------------------------------------------------------------------------
(***************************************************************************)
(* What a refusal means.                                                   *)
(***************************************************************************)
IsSig(cmd) == cmd[1] \div 1000 = M!LC_CODE_SIGNATURE

\* The command at k is a signature when the file has the kind of one there.
SigAt(cmds, img, off, k) == M!Cmd(img, off[k]) = M!LC_CODE_SIGNATURE => IsSig(cmds[k + 1])

\* Every command listed is a signature when the file says so.
LEMMA SigOf ==
  ASSUME NEW img, NEW cmds, NEW off, NEW n, NEW sz, NEW k \in 0..(n - 1),
         TableAt(img, off, n, sz), Listed(cmds, img, off, n)
  PROVE  SigAt(cmds, img, off, k)
<1>1. cmds[k + 1][1] \div 1000 = M!Cmd(img, off[k])
  BY KindOf
<1> QED
  BY <1>1 DEF SigAt, IsSig

SignedOnce(cmds) == \A i, j \in DOMAIN cmds : IsSig(cmds[i]) /\ IsSig(cmds[j]) => i = j

Unsigned(cmds) == \A i \in DOMAIN cmds : ~ IsSig(cmds[i])

\* What is left of the padding is zero.
ZerosFollow == \A p \in image.free : image.sizeofcmds <= p => M!Word(image, p) = 0

\* A file with a signature has a table that is no shorter than the one of the
\* first file; and the signature is the first file's own, or one of two words.
SignedInPlace ==
  \A i \in DOMAIN M!Commands(image) :
    IsSig(M!Commands(image)[i]) =>
      /\ original.sizeofcmds <= image.sizeofcmds
      /\ image = original \/ M!Commands(image)[i] = M!SignatureWords

\* The inductive invariant: a table that shrinks leaves words behind it that are
\* not zero, but then it has no signature and gets none again.
RoomInv ==
  part = "macho" /\ MachOProper(original) =>
    SignedOnce(M!Commands(image)) /\ ZerosFollow /\ SignedInPlace

\* The elements of a spliced sequence: the new one, and the old ones but the j-th.
LEMMA SplicedElements ==
  ASSUME NEW T, NEW s \in Seq(T), NEW x \in T, NEW u, NEW i \in Nat, NEW j \in Nat,
         i < j, j <= Len(s), Spliced(u, s, i, j, x)
  PROVE  \A k \in DOMAIN u : u[k] = x \/ \E m \in DOMAIN s : m # j /\ u[k] = s[m]
<1> DEFINE f == SubSeq(s, 1, i)
           g == Append(f, x)
           h == SubSeq(s, j + 1, Len(s))
           n == Len(s)
<1>1. n \in Nat /\ i \in 0..n /\ DOMAIN s = 1..n
  OBVIOUS
<1>2. f \in Seq(T) /\ Len(f) = i /\ \A k \in 1..i : f[k] = s[k]
  BY <1>1, SubSeqProperties
<1>3. h \in Seq(T) /\ Len(h) = n - j /\ \A k \in 1..(n - j) : h[k] = s[k + j]
  <2>0. s \in Seq(T) /\ j + 1 \in Nat /\ n = Len(s) /\ \A k \in (j + 1)..n : s[k] \in T
    BY <1>1
  <2>1. /\ h \in Seq(T)
        /\ Len(h) = IF j + 1 <= n THEN n - (j + 1) + 1 ELSE 0
        /\ \A k \in 1..((n - (j + 1)) + 1) : h[k] = s[(j + 1) + k - 1]
    BY <1>1, <2>0, SubSeqProperties
  <2>2. Len(h) = n - j
    <3>1. n \in Nat /\ j \in Nat /\ j <= n /\ Len(h) = IF j + 1 <= n THEN n - (j + 1) + 1 ELSE 0
      BY <1>1, <2>1
    <3> HIDE DEF h, n
    <3> QED
      BY <3>1
  <2>3. ASSUME NEW k \in 1..(n - j) PROVE h[k] = s[k + j]
    <3>0. n \in Nat
      BY <1>1
    <3> HIDE DEF h, n
    <3>1. k \in 1..((n - (j + 1)) + 1) /\ (j + 1) + k - 1 = k + j
      BY <3>0
    <3> QED
      BY <2>1, <3>1
  <2> QED
    BY <2>1, <2>2, <2>3
<1>4. u = g \o h
  BY DEF Spliced
<1> HIDE DEF f, h, n
<1>5. g \in Seq(T) /\ Len(g) = i + 1 /\ g[i + 1] = x /\ \A k \in 1..i : g[k] = s[k]
  BY <1>2, AppendProperties
<1> HIDE DEF g
<1>6. DOMAIN u = 1..((i + 1) + (n - j))
  <2>0. g \in Seq(T) /\ h \in Seq(T)
    BY <1>3, <1>5
  <2>1. u \in Seq(T) /\ Len(u) = Len(g) + Len(h)
    BY <1>4, <2>0, ConcatProperties
  <2>2. DOMAIN u = 1..Len(u)
    BY <2>1
  <2>3. Len(g) = i + 1 /\ Len(h) = n - j
    BY <1>3, <1>5
  <2> QED
    BY <2>1, <2>2, <2>3, Zenon
<1> SUFFICES ASSUME NEW k \in DOMAIN u
             PROVE  u[k] = x \/ \E m \in DOMAIN s : m # j /\ u[k] = s[m]
  OBVIOUS
<1>7. CASE k <= i
  <2>1. k \in 1..i /\ k \in DOMAIN s /\ k # j /\ k <= Len(g) /\ k >= 1
    BY <1>1, <1>5, <1>6, <1>7
  <2>2. u[k] = g[k]
    BY <1>3, <1>4, <1>5, <2>1
  <2> QED
    BY <1>5, <2>1, <2>2
<1>8. CASE k = i + 1
  BY <1>3, <1>4, <1>5, <1>8
<1>9. CASE k > i + 1
  <2> DEFINE d == k - (i + 1)
             m == d + j
  <2>1. d \in 1..(n - j) /\ k = Len(g) + d
    BY <1>1, <1>5, <1>6, <1>9
  <2>2. u[k] = h[d]
    BY <1>3, <1>4, <1>5, <2>1
  <2>3. m \in DOMAIN s /\ m # j
    BY <1>1, <2>1
  <2>4. h[d] = s[m]
    BY <1>3, <2>1
  <2> HIDE DEF m, d
  <2> QED
    BY <2>2, <2>3, <2>4
<1> QED
  BY <1>6, <1>7, <1>8, <1>9

\* The command of a library is not a signature.
LEMMA DylibIsNoSignature ==
  ASSUME NEW name \in MachONames
  PROVE  M!DylibCommand(name) \in Seq(Nat) /\ ~ IsSig(M!DylibCommand(name))
<1> DEFINE new == M!DylibWords(name)
           s == M!new_cmd_size(name)
<1>1. NewCommand(new, name, s)
  BY TheNewCommand
<1> HIDE DEF new, s
<1>2. s \in 4..999 /\ new \in Seq(Nat) /\ new[1] = 12000 + s /\ new = M!DylibCommand(name)
  BY <1>1 DEF NewCommand
<1>3. (12000 + s) \div 1000 # 29
  BY <1>2
<1> QED
  BY <1>2, <1>3 DEF IsSig, M!LC_CODE_SIGNATURE

\* A file that was signed once is not signed after a rewrite.
LEMMA InjectionUnsigns ==
  ASSUME NEW cmds \in Seq(Seq(Nat)), SignedOnce(cmds), NEW outs, NEW name \in MachONames,
         NEW i \in Nat, NEW j \in Nat, InjectedAt(outs, cmds, name, i, j)
  PROVE  Unsigned(outs)
<1> DEFINE d == M!DylibCommand(name)
<1>1. d \in Seq(Nat) /\ ~ IsSig(d)
  BY DylibIsNoSignature
<1>2. i < j /\ j <= Len(cmds) /\ IsSig(cmds[j]) /\ Spliced(outs, cmds, i, j, d)
  BY DEF InjectedAt, IsSig
<1> HIDE DEF d
<1>3. \A k \in DOMAIN outs : outs[k] = d \/ \E m \in DOMAIN cmds : m # j /\ outs[k] = cmds[m]
  BY <1>1, <1>2, SplicedElements
<1>4. j \in DOMAIN cmds
  BY <1>2
<1> QED
  BY <1>1, <1>2, <1>3, <1>4 DEF Unsigned, SignedOnce

\* The command to be replaced is two words after a signature of two.
LEMMA AnchorIsSmall ==
  ASSUME NEW img, M!Filled(img), M!Candidates(img) # {},
         \A k \in DOMAIN M!Commands(img) :
           IsSig(M!Commands(img)[k]) => M!Commands(img)[k] = M!SignatureWords
  PROVE  M!find_anchor(img).size \in {2, 4}
<1> DEFINE n == img.ncmds
           sz == img.sizeofcmds
           off == M!Offsets(img)
           cmds == M!Commands(img)
           anchor == M!find_anchor(img)
<1>1. PICK i : AnchorAt(img, off, n, i, anchor.command_count, anchor.offset, anchor.size)
  BY TheAnchor
<1>2. anchor.command_count = 2 => anchor.size = 4
  <2> DEFINE first == CHOOSE k \in M!Candidates(img) : \A d \in M!Candidates(img) : k <= d
  <2>1. anchor = IF M!IsPair(img, first)
                 THEN [offset |-> off[first], size |-> 2 * M!LINKEDIT_DATA_COMMAND_SIZE, command_count |-> 2]
                 ELSE [offset |-> off[first], size |-> M!Size(img, off[first]), command_count |-> 1]
    BY DEF M!find_anchor
  <2> HIDE DEF first, anchor
  <2>2. CASE M!IsPair(img, first)
    BY <2>1, <2>2 DEF M!LINKEDIT_DATA_COMMAND_SIZE
  <2>3. CASE ~ M!IsPair(img, first)
    BY <2>1, <2>3
  <2> QED
    BY <2>2, <2>3
<1>3. TableAt(img, off, n, sz) /\ Listed(cmds, img, off, n)
  BY TheTable, TheCommands
<1>4. \A k \in DOMAIN cmds : IsSig(cmds[k]) => cmds[k] = M!SignatureWords
  OBVIOUS
<1> DEFINE cnt == anchor.command_count
           from == anchor.offset
           size == anchor.size
<1> HIDE DEF n, sz, off, cmds, cnt, from, size
<1>5. /\ i \in 0..(n - 1) /\ cnt \in {1, 2} /\ size \in Nat
      /\ off[i] = from /\ off[i + cnt] = from + size
      /\ cnt = 1 => M!Cmd(img, off[i]) = M!LC_CODE_SIGNATURE
  <2>1. AnchorAt(img, off, n, i, cnt, from, size)
    BY <1>1 DEF cnt, from, size
  <2>2. /\ i \in 0..(n - 1) /\ cnt \in {1, 2} /\ size \in Nat
        /\ off[i] = from /\ off[i + cnt] = from + size
        /\ M!Cmd(img, off[i + cnt - 1]) = M!LC_CODE_SIGNATURE
    BY <2>1 DEF AnchorAt
  <2>3. n \in Nat
    BY <1>3 DEF TableAt
  <2>4. cnt = 1 => i + cnt - 1 = i
    BY <2>2, <2>3
  <2> QED
    BY <2>2, <2>4
<1>6. ASSUME cnt = 1 PROVE size = 2
  <2>1. n \in Nat /\ from \in Nat /\ i + 1 \in DOMAIN cmds
    <3>1. n \in Nat /\ DOMAIN cmds = 1..n /\ sz \in Nat
      BY <1>3 DEF TableAt, Listed
    <3>2. \A k \in 0..n : off[k] \in 0..sz
      BY <1>3, Zenon DEF TableAt
    <3>3. i \in 0..n
      BY <1>5, <3>1
    <3> QED
      BY <1>5, <3>1, <3>2, <3>3
  <2>2. IsSig(cmds[i + 1])
    <3>0. i \in 0..(n - 1)
      BY <1>5
    <3>1. SigAt(cmds, img, off, i)
      <4>1. TableAt(img, off, n, sz) /\ Listed(cmds, img, off, n)
        BY <1>3
      <4> QED
        BY <4>1, <3>0, SigOf
    <3>2. M!Cmd(img, off[i]) = M!LC_CODE_SIGNATURE
      BY <1>5, <1>6
    <3> QED
      BY <3>1, <3>2, Zenon DEF SigAt
  <2>3. cmds[i + 1] = M!SignatureWords
    BY <1>4, <2>1, <2>2
  <2>4. Len(cmds[i + 1]) = off[i + 1] - off[i]
    BY <1>3, <1>5 DEF Listed
  <2>5. Len(M!SignatureWords) = 2
    BY DEF M!SignatureWords
  <2>6. off[i + 1] = from + size /\ off[i] = from
    BY <1>5, <1>6
  <2>7. (from + size) - from = 2
    BY <2>3, <2>4, <2>5, <2>6
  <2> QED
    BY <1>5, <2>1, <2>7
<1> QED
  BY <1>2, <1>5, <1>6 DEF cnt, size

\* So it is no larger than the one that takes its place.
LEMMA NeverShrinks ==
  ASSUME NEW img, NEW name, MachORewritable(img, name),
         NEW out, out = M!rewrite_macho(img, name),
         \A k \in DOMAIN M!Commands(img) :
           IsSig(M!Commands(img)[k]) => M!Commands(img)[k] = M!SignatureWords
  PROVE  img.sizeofcmds <= out.sizeofcmds
<1> DEFINE s == M!new_cmd_size(name)
           size == M!find_anchor(img).size
<1>1. M!Filled(img) /\ M!Candidates(img) # {} /\ name \in MachONames
  BY DEF MachORewritable, M!Status
<1>2. size \in {2, 4}
  BY <1>1, AnchorIsSmall
<1>3. s \in 4..999
  <2>1. NewCommand(M!DylibWords(name), name, s)
    BY <1>1, TheNewCommand
  <2> HIDE DEF s
  <2> QED
    BY <2>1 DEF NewCommand
<1>4. out.sizeofcmds = img.sizeofcmds + (s - size)
  <2>1. PICK i : AnchorAt(img, M!Offsets(img), img.ncmds, i, M!find_anchor(img).command_count,
                          M!find_anchor(img).offset, M!find_anchor(img).size)
    BY <1>1, TheAnchor
  <2>2. Moved(out, img, M!DylibWords(name), M!find_anchor(img).offset, M!find_anchor(img).size,
              M!new_cmd_size(name), img.ncmds, M!find_anchor(img).command_count, img.sizeofcmds)
    BY <2>1, RewriteMoves
  <2> QED
    BY <2>2 DEF Moved
<1>5. img.sizeofcmds \in Nat
  BY <1>1 DEF M!Filled
<1> HIDE DEF s, size
<1> QED
  BY <1>2, <1>3, <1>4, <1>5

\* There is a candidate for a rewrite only where there is a signature.
LEMMA CandidateIsSigned ==
  ASSUME NEW img, M!Filled(img), M!Candidates(img) # {}
  PROVE  \E k \in DOMAIN M!Commands(img) : IsSig(M!Commands(img)[k])
<1> DEFINE n == img.ncmds
           sz == img.sizeofcmds
           off == M!Offsets(img)
           cmds == M!Commands(img)
<1>1. PICK i : AnchorAt(img, off, n, i, M!find_anchor(img).command_count,
                        M!find_anchor(img).offset, M!find_anchor(img).size)
  BY TheAnchor
<1>2. TableAt(img, off, n, sz) /\ Listed(cmds, img, off, n)
  BY TheTable, TheCommands
<1> DEFINE cnt == M!find_anchor(img).command_count
           k == i + cnt - 1
<1> HIDE DEF n, sz, off, cmds, cnt
<1>3. /\ i \in 0..(n - 1) /\ cnt \in {1, 2} /\ i + cnt <= n /\ n \in Nat
      /\ M!Cmd(img, off[k]) = M!LC_CODE_SIGNATURE
  BY <1>1, <1>2 DEF AnchorAt, TableAt, cnt
<1>4. k \in 0..(n - 1) /\ k + 1 \in 1..n
  BY <1>3
<1> HIDE DEF k
<1>5. IsSig(cmds[k + 1])
  <2>1. SigAt(cmds, img, off, k)
    <3>1. TableAt(img, off, n, sz) /\ Listed(cmds, img, off, n) /\ k \in 0..(n - 1)
      BY <1>2, <1>4
    <3> QED
      BY <3>1, SigOf
  <2> QED
    BY <1>3, <2>1 DEF SigAt
<1>6. k + 1 \in DOMAIN cmds
  BY <1>2, <1>4 DEF Listed
<1> QED
  BY <1>5, <1>6 DEF cmds

\* A rewrite keeps the invariant.
LEMMA RoomRewriteStep ==
  ASSUME MachOInv, RoomInv, part = "macho", NEW name \in MachONames,
         M!Status(image, name) = "Ok", image' = M!rewrite_macho(image, name),
         original' = original, part' = part
  PROVE  RoomInv'
<1> SUFFICES ASSUME MachOProper(original)
             PROVE  SignedOnce(M!Commands(image')) /\ ZerosFollow' /\ SignedInPlace'
  BY DEF RoomInv
<1>1. M!Filled(image) /\ TableInPadding /\ original \in MachOImages
  BY DEF MachOInv
<1>2. SignedOnce(M!Commands(image)) /\ ZerosFollow /\ SignedInPlace
  BY DEF RoomInv
<1>3. MachORewritable(image, name)
  BY <1>1 DEF MachORewritable
<1>4. /\ M!Filled(image') /\ GrownInto(image', image)
      /\ \E i, j \in 0..Len(M!Commands(image)) :
           InjectedAt(M!Commands(image'), M!Commands(image), name, i, j)
  BY <1>3, RewriteInjects
<1>5. Unsigned(M!Commands(image'))
  <2> DEFINE cmds == M!Commands(image)
             outs == M!Commands(image')
  <2>1. Listed(cmds, image, M!Offsets(image), image.ncmds)
    BY <1>1, TheCommands
  <2>2. PICK i \in 0..Len(cmds), j \in 0..Len(cmds) : InjectedAt(outs, cmds, name, i, j)
    BY <1>4
  <2>3. SignedOnce(cmds)
    BY <1>2
  <2> HIDE DEF cmds, outs
  <2>4. cmds \in Seq(Seq(Nat)) /\ i \in Nat /\ j \in Nat
    BY <2>1 DEF Listed
  <2>5. Unsigned(outs)
    BY <2>2, <2>3, <2>4, InjectionUnsigns
  <2> QED
    BY <2>5 DEF outs
<1>6. SignedOnce(M!Commands(image')) /\ SignedInPlace'
  BY <1>5 DEF Unsigned, SignedOnce, SignedInPlace
<1>7. PICK end \in original.sizeofcmds..Len(original.words) : M!PaddedUntil(original, end)
  BY <1>1, ProperFiles DEF M!Executable
<1>8. image.free = original.sizeofcmds..(end - 1) /\ Len(image.words) = Len(original.words)
  BY <1>1, <1>7 DEF TableInPadding, M!PaddedUntil
<1>9. /\ original.sizeofcmds \in Nat /\ Len(original.words) \in Nat
      /\ image.sizeofcmds \in Nat /\ image'.sizeofcmds \in Nat
  BY <1>1, <1>4, ProperFiles DEF M!Filled
<1>10. ASSUME NEW p \in image.free, image'.sizeofcmds <= p PROVE M!Word(image', p) = 0
  <2>1. p \in 0..(Len(image.words) - 1) /\ original.sizeofcmds <= p /\ p \in Nat
    BY <1>7, <1>8, <1>9
  <2>2. image.sizeofcmds <= p
    <3>1. CASE image = original
      BY <2>1, <3>1
    <3>2. CASE image # original
      <4>1. \A k \in DOMAIN M!Commands(image) :
              IsSig(M!Commands(image)[k]) => M!Commands(image)[k] = M!SignatureWords
        BY <1>2, <3>2 DEF SignedInPlace
      <4>2. image.sizeofcmds <= image'.sizeofcmds
        BY <1>3, <4>1, NeverShrinks
      <4> QED
        BY <1>9, <1>10, <2>1, <4>2
    <3> QED
      BY <3>1, <3>2
  <2>3. M!Word(image', p) = M!Word(image, p)
    BY <1>4, <1>10, <2>1, <2>2 DEF GrownInto
  <2> QED
    BY <1>2, <2>2, <2>3 DEF ZerosFollow
<1>11. image'.free = image.free
  BY <1>4 DEF GrownInto
<1>12. ZerosFollow'
  BY <1>10, <1>11 DEF ZerosFollow
<1> QED
  BY <1>6, <1>12

\* A signature keeps it, too: it is made where there is none, in the padding.
LEMMA RoomSignStep ==
  ASSUME MachOInv, RoomInv, part = "macho", M!Sign, part' = part
  PROVE  RoomInv'
<1> SUFFICES ASSUME MachOProper(original)
             PROVE  SignedOnce(M!Commands(image')) /\ ZerosFollow' /\ SignedInPlace'
  <2>1. original' = original
    BY DEF M!Sign
  <2> QED
    BY <2>1 DEF RoomInv
<1>1. /\ M!Filled(image) /\ TableInPadding /\ original \in MachOImages
      /\ ZerosFollow
  BY DEF MachOInv, RoomInv
<1>2. /\ original' = original
      /\ image.sizeofcmds..(image.sizeofcmds + 1) \subseteq image.free
      /\ SignedFrom(image', image)
      /\ \A k \in 0..(image.ncmds - 1) :
           M!Cmd(image, M!Offsets(image)[k]) # M!LC_CODE_SIGNATURE
  BY DEF M!Sign, SignedFrom
<1>3. image.sizeofcmds + 1 < Len(image.words) /\ original.sizeofcmds <= image.sizeofcmds
  BY <1>1, <1>2, ProperFiles, SignsInPadding
<1>4. image.words \in Seq(Nat) /\ image.sizeofcmds \in Nat /\ original.sizeofcmds \in Nat
  BY <1>1, ProperFiles DEF M!Filled
<1>5. WithSignature(image', image, image.ncmds, image.sizeofcmds)
  BY <1>2, <1>3, <1>4, SigningAppends
<1>6. M!Commands(image') = Append(M!Commands(image), M!SignatureWords)
  BY MachOSignStep
<1> DEFINE cmds == M!Commands(image)
           outs == M!Commands(image')
           n == Len(cmds)
<1>7. Unsigned(cmds)
  BY <1>1, <1>2, NoSignatures DEF Unsigned, IsSig
<1>8. cmds \in Seq(Seq(Nat)) /\ M!SignatureWords \in Seq(Nat)
  BY <1>1, TheCommands DEF Listed, M!SignatureWords, M!FirstWord, M!LC_CODE_SIGNATURE,
     M!LINKEDIT_DATA_COMMAND_SIZE
<1>9. outs = Append(cmds, M!SignatureWords)
  BY <1>6
<1> HIDE DEF cmds, outs
<1>10. /\ DOMAIN outs = 1..(n + 1) /\ outs[n + 1] = M!SignatureWords
       /\ \A i \in 1..n : i \in DOMAIN cmds /\ outs[i] = cmds[i]
       /\ n \in Nat
  BY <1>8, <1>9, AppendProperties
<1> HIDE DEF n
<1>11. \A i \in DOMAIN outs : IsSig(outs[i]) => i = n + 1
  <2> SUFFICES ASSUME NEW i \in DOMAIN outs, i # n + 1 PROVE ~ IsSig(outs[i])
    OBVIOUS
  <2>1. i \in 1..n
    BY <1>10
  <2> QED
    BY <1>7, <1>10, <2>1 DEF Unsigned
<1>12. SignedOnce(outs)
  BY <1>11 DEF SignedOnce
<1>13. image'.sizeofcmds = image.sizeofcmds + 2 /\ image'.free = image.free
  BY <1>5 DEF WithSignature
<1>14. SignedInPlace'
  <2>1. original'.sizeofcmds <= image'.sizeofcmds
    BY <1>2, <1>3, <1>4, <1>13
  <2>2. \A i \in DOMAIN outs : IsSig(outs[i]) => outs[i] = M!SignatureWords
    BY <1>10, <1>11
  <2> QED
    BY <2>1, <2>2 DEF SignedInPlace, outs
<1>15. ASSUME NEW p \in image.free, image.sizeofcmds + 2 <= p PROVE M!Word(image', p) = 0
  <2>1. p \in 0..(Len(image.words) - 1)
    <3>1. PICK end \in original.sizeofcmds..Len(original.words) : M!PaddedUntil(original, end)
      BY <1>1, ProperFiles DEF M!Executable
    <3>2. p \in original.sizeofcmds..(end - 1) /\ Len(image.words) = Len(original.words)
      BY <1>1, <3>1 DEF TableInPadding, M!PaddedUntil
    <3> QED
      BY <1>4, <3>1, <3>2
  <2>2. p \notin {image.sizeofcmds, image.sizeofcmds + 1} /\ image.sizeofcmds <= p
    BY <1>4, <1>15, <2>1
  <2>3. M!Word(image', p) = M!Word(image, p)
    BY <1>5, <2>1, <2>2 DEF WithSignature
  <2> QED
    BY <1>1, <2>2, <2>3 DEF ZerosFollow
<1>16. ZerosFollow'
  BY <1>13, <1>15 DEF ZerosFollow
<1> QED
  BY <1>12, <1>14, <1>16 DEF outs

\* It holds in every state of every behaviour.
LEMMA RoomInvariant ==
  MCSpec => []RoomInv
<1>1. MCInit => RoomInv
  <2> SUFFICES ASSUME MCInit, part = "macho", MachOProper(original)
               PROVE  SignedOnce(M!Commands(image)) /\ ZerosFollow /\ SignedInPlace
    BY DEF RoomInv
  <2>1. image \in MachOImages /\ image = original
    BY DEF MCInit, M!Init
  <2>2. SignedOnce(M!Commands(image))
    BY <2>1, MachOAssumption DEF SignedOnce, IsSig
  <2>3. PICK end \in original.sizeofcmds..Len(original.words) : M!PaddedUntil(original, end)
    BY <2>1, ProperFiles DEF M!Executable
  <2>4. ZerosFollow
    BY <2>1, <2>3 DEF ZerosFollow, M!PaddedUntil
  <2>5. original.sizeofcmds <= image.sizeofcmds
    BY <2>1, ProperFiles DEF M!Filled
  <2> QED
    BY <2>1, <2>2, <2>4, <2>5 DEF SignedInPlace
<1>2. MachOInv /\ RoomInv /\ [MCNext]_<<part, rewrites, vars, signVars>> => RoomInv'
  <2> SUFFICES ASSUME MachOInv, RoomInv, [MCNext]_<<part, rewrites, vars, signVars>>
               PROVE  RoomInv'
    OBVIOUS
  <2>1. ASSUME part' = part, image' = image, original' = original PROVE RoomInv'
    BY <2>1 DEF RoomInv, ZerosFollow, SignedInPlace
  <2>2. CASE UNCHANGED <<part, vars>>
    BY <2>1, <2>2 DEF vars
  <2>3. CASE ElfNext
    BY <2>3 DEF ElfNext, RoomInv
  <2>4. CASE Signing
    BY <2>4 DEF Signing, RoomInv
  <2>5. CASE MachONext
    <3>1. part = "macho" /\ part' = part
      BY <2>5 DEF MachONext
    <3>2. ASSUME NEW name \in MachONames, M!Rewrite(name) PROVE RoomInv'
      <4>1. CASE M!Status(image, name) = "Ok"
        BY <3>1, <3>2, <4>1, RoomRewriteStep DEF M!Rewrite
      <4>2. CASE M!Status(image, name) # "Ok"
        BY <2>1, <3>1, <3>2, <4>2 DEF M!Rewrite
      <4> QED
        BY <4>1, <4>2
    <3>3. ASSUME M!Sign PROVE RoomInv'
      BY <3>1, <3>3, RoomSignStep
    <3> QED
      BY <2>5, <3>2, <3>3 DEF MachONext, M!Next
  <2> QED
    BY <2>2, <2>3, <2>4, <2>5 DEF MCNext
<1> QED
  BY <1>1, <1>2, MachOInvariant, PTL DEF MCSpec

\* So a Mach-O file is refused for want of padding only when there is too little.
LEMMA MachORefusesWhenFull ==
  ASSUME MachOInv, RoomInv, part = "macho"
  PROVE  M!RefusedOnlyWhenFull
<1> SUFFICES ASSUME NEW name \in MachONames, M!Status(image, name) = "NoPaddingToGrow"
             PROVE  M!Room(image) < M!Delta(image, name)
  BY DEF M!RefusedOnlyWhenFull
<1>1. /\ image.thin64 /\ M!WellFormed(image) /\ M!Candidates(image) # {}
      /\ ~ M!CanGrow(image, name)
  BY DEF M!Status
<1>2. MachOProper(original)
  BY <1>1 DEF MachOInv, MachOProper
<1>3. M!Filled(image) /\ TableInPadding /\ original \in MachOImages /\ ZerosFollow /\ SignedInPlace
  BY <1>2 DEF MachOInv, RoomInv
<1>4. original.sizeofcmds <= image.sizeofcmds
  BY <1>1, <1>3, CandidateIsSigned DEF SignedInPlace
<1>5. PICK end \in original.sizeofcmds..Len(original.words) : M!PaddedUntil(original, end)
  BY <1>2, <1>3, ProperFiles DEF M!Executable
<1>6. /\ image.free = original.sizeofcmds..(end - 1)
      /\ image.sizeofcmds <= end /\ Len(image.words) = Len(original.words)
  BY <1>3, <1>5 DEF TableInPadding, M!PaddedUntil
<1>7. original.sizeofcmds \in Nat /\ image.sizeofcmds \in Nat /\ Len(original.words) \in Nat
  BY <1>2, <1>3, ProperFiles DEF M!Filled
<1> DEFINE delta == M!Delta(image, name)
           sz == image.sizeofcmds
           room == {off \in image.free : off >= sz}
<1>8. delta \in Int
  <2>1. M!find_anchor(image).size \in Nat
    BY <1>1, <1>3, TheAnchor DEF AnchorAt
  <2>2. NewCommand(M!DylibWords(name), name, M!new_cmd_size(name))
    BY TheNewCommand
  <2>3. M!new_cmd_size(name) \in Nat
    BY <2>2 DEF NewCommand
  <2> QED
    BY <2>1, <2>3 DEF M!Delta
<1>9. /\ delta > 0
      /\ ~ (sz + delta <= Len(image.words)
              /\ \A off \in sz..(sz + delta - 1) : M!Word(image, off) = 0)
  BY <1>1 DEF M!CanGrow
<1> HIDE DEF delta
<1>10. end - sz < delta
  <2> SUFFICES ASSUME ~ (end - sz < delta) PROVE FALSE
    OBVIOUS
  <2>1. end \in Nat /\ end <= Len(image.words) /\ sz + delta <= end
    BY <1>5, <1>6, <1>7, <1>8
  <2>2. ASSUME NEW off \in sz..(sz + delta - 1) PROVE M!Word(image, off) = 0
    <3>1. off \in image.free /\ sz <= off
      BY <1>4, <1>6, <1>7, <1>8, <2>1
    <3> QED
      BY <1>3, <3>1 DEF ZerosFollow
  <2>3. sz + delta <= Len(image.words)
    BY <1>6, <1>7, <1>8, <2>1
  <2> QED
    BY <1>9, <2>2, <2>3
<1>11. room \subseteq sz..(end - 1) /\ end - 1 \in Int /\ end \in Int /\ sz \in Int
  <2>1. end \in Int /\ sz \in Int
    BY <1>5, <1>7
  <2>2. ASSUME NEW off \in room PROVE off \in sz..(end - 1)
    <3>1. off \in original.sizeofcmds..(end - 1) /\ off >= sz
      BY <1>6
    <3> QED
      BY <1>7, <2>1, <3>1
  <2> QED
    BY <2>1, <2>2
<1>12. M!Room(image) = Cardinality(room)
  BY DEF M!Room, M!Cardinality, Cardinality
<1> HIDE DEF sz, room
<1>13. /\ Cardinality(room) \in Nat
       /\ Cardinality(room) <= (IF sz > end - 1 THEN 0 ELSE (end - 1) - sz + 1)
  BY <1>11, Within
<1>14. Cardinality(room) < delta
  BY <1>6, <1>8, <1>10, <1>11, <1>13 DEF sz
<1> QED
  BY <1>12, <1>14 DEF delta

\* A file of either format is refused for want of room only when there is too
\* little of it: the rewriters use what linkers leave to the last byte (RewriteError,
\* os-rewrite-elf lib.rs:71-75, os-rewrite-macho lib.rs:51-55).
THEOREM RefusedOnlyWhenFullAlways ==
  MCSpec => []MCRefusedOnlyWhenFull
<1>1. ElfInv /\ MachOInv /\ RoomInv => MCRefusedOnlyWhenFull
  BY ElfRefusesWhenFull, MachORefusesWhenFull DEF MCRefusedOnlyWhenFull
<1> QED
  BY <1>1, ElfInvariant, MachOInvariant, RoomInvariant, PTL
-----------------------------------------------------------------------------
(***************************************************************************)
(* The type invariant.                                                     *)
(***************************************************************************)

\* The results, and the bound of the rewrites.
ResultsInv ==
  IF part # "macho"
  THEN /\ result \in {"None", "Ok", "NotExecutableOrPie", "NoDynamicSection",
                      "NoFreeStringTableSpace", "Malformed"}
       /\ Len(added) \in 0..MaxRewrites
  ELSE /\ result \in {"None", "Ok", "Signed", "NotThin64", "Malformed",
                      "NoReplaceableSlot", "NoPaddingToGrow"}
       /\ rewrites \in 0..MaxRewrites

\* They are kept within them.
LEMMA ResultsInvariant ==
  MCSpec => []ResultsInv
<1>1. MCInit => ResultsInv
  <2> SUFFICES ASSUME MCInit PROVE ResultsInv
    OBVIOUS
  <2>1. part # "macho" => result = "None" /\ added = <<>>
    BY DEF MCInit, AFile, Init
  <2>2. part = "macho" => result = "None" /\ rewrites = 0
    BY DEF MCInit, M!Init
  <2> QED
    BY <2>1, <2>2, ElfAssumption DEF ResultsInv
<1>2. ElfInv /\ ResultsInv /\ [MCNext]_<<part, rewrites, vars, signVars>> => ResultsInv'
  <2> SUFFICES ASSUME ElfInv, ResultsInv, [MCNext]_<<part, rewrites, vars, signVars>>
               PROVE  ResultsInv'
    OBVIOUS
  <2>1. CASE UNCHANGED <<part, rewrites, vars>>
    BY <2>1 DEF ResultsInv, vars
  <2>2. CASE ElfNext
    <3> SUFFICES ASSUME NEW name \in Names, NEW rpath \in Names \cup {NoName}, Rewrite(name, rpath)
                 PROVE  ResultsInv'
      BY <2>2 DEF ElfNext, Next
    <3>1. part = "elf" /\ part' = part /\ added \in Seq(Names) /\ Len(added) \in 0..MaxRewrites
      BY <2>2 DEF ElfNext, ElfInv, ResultsInv
    <3>2. result' \in {"None", "Ok", "NotExecutableOrPie", "NoDynamicSection",
                       "NoFreeStringTableSpace", "Malformed"}
      BY DEF Rewrite, Status
    <3>3. Len(added') \in 0..MaxRewrites
      <4>1. Len(added) < MaxRewrites /\ (added' = added \/ added' = Append(added, name))
        BY DEF Rewrite
      <4>2. MaxRewrites \in Nat /\ Len(Append(added, name)) = Len(added) + 1
        BY <3>1, ElfAssumption
      <4> QED
        BY <3>1, <4>1, <4>2
    <3> QED
      BY <3>1, <3>2, <3>3 DEF ResultsInv
  <2>3. CASE MachONext
    <3>1. part = "macho" /\ part' = part /\ rewrites \in 0..MaxRewrites /\ MaxRewrites \in Nat
      BY <2>3, ElfAssumption DEF MachONext, ResultsInv
    <3>2. ASSUME NEW name \in MachONames, M!Rewrite(name) PROVE ResultsInv'
      <4>1. result' \in {"None", "Ok", "Signed", "NotThin64", "Malformed",
                         "NoReplaceableSlot", "NoPaddingToGrow"}
        BY <3>2 DEF M!Rewrite, M!Status
      <4>2. rewrites' \in 0..MaxRewrites
        BY <3>1, <3>2 DEF M!Rewrite
      <4> QED
        BY <3>1, <4>1, <4>2 DEF ResultsInv
    <3>3. ASSUME M!Sign PROVE ResultsInv'
      BY <3>1, <3>3 DEF M!Sign, ResultsInv
    <3> QED
      BY <2>3, <3>2, <3>3 DEF MachONext, M!Next
  <2>4. CASE Signing
    BY <2>1, <2>4 DEF Signing
  <2> QED
    BY <2>1, <2>2, <2>3, <2>4 DEF MCNext
<1> QED
  BY <1>1, <1>2, ElfInvariant, PTL DEF MCSpec

\* Those who sign do so here as they do alone.
LEMMA SigningInvariant ==
  MCSpec => []SignInv
<1>1. MCInit => SignInv
  BY SignInitInv DEF MCInit, NoSigner
<1>2. SignInv /\ [MCNext]_<<part, rewrites, vars, signVars>> => SignInv'
  <2>1. [MCNext]_<<part, rewrites, vars, signVars>> => [SignNext]_signVars
    BY DEF MCNext, ElfNext, MachONext, Signing
  <2> QED
    BY <2>1, SignStepInv
<1> QED
  BY <1>1, <1>2, PTL DEF MCSpec

\* The rewriters return their results and leave the length of the file, and the
\* program headers of an ELF file, as they were (lib.rs:265, lib.rs:172); and a copy
\* is signed exactly when its call succeeded.
THEOREM RewritersTypeCorrect ==
  MCSpec => []MCTypeOK
<1>1. ElfInv /\ ResultsInv /\ part # "macho" => TypeOK
  <2> SUFFICES ASSUME ElfInv, ResultsInv, part # "macho" PROVE TypeOK
    OBVIOUS
  <2>1. Len(image.cells) = Len(original.cells) /\ image.phdrs = original.phdrs
    BY DEF ElfInv, SinceTheFirst
  <2> QED
    BY <2>1 DEF ResultsInv, TypeOK
<1>2. MachOInv /\ ResultsInv /\ part = "macho" => M!TypeOK
  <2> SUFFICES ASSUME MachOInv, ResultsInv, part = "macho" PROVE M!TypeOK
    OBVIOUS
  <2>1. Len(image.words) = Len(original.words)
    BY DEF MachOInv, TableInPadding
  <2> QED
    BY <2>1 DEF ResultsInv, M!TypeOK
<1>3. SignInv => SignTypeOK
  BY SignedIsTyped
<1>4. ElfInv /\ MachOInv /\ ResultsInv /\ SignInv => MCTypeOK
  BY <1>1, <1>2, <1>3 DEF MCTypeOK
<1> QED
  BY <1>4, ElfInvariant, MachOInvariant, ResultsInvariant, SigningInvariant, PTL
=============================================================================
