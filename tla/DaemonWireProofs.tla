-------------------------- MODULE DaemonWireProofs ---------------------------
(***************************************************************************)
(* How a hook and a daemon talk.  What DaemonWire does with every message  *)
(* and every frame: the codec first, and then the stream between a writer  *)
(* and a reader.  At the end, the socket on which they meet.               *)
(***************************************************************************)
EXTENDS DaemonWire, DaemonSocket, SequenceLemmas

-----------------------------------------------------------------------------
(***************************************************************************)
(* Lengths.                                                                *)
(***************************************************************************)

\* A length that fits two bytes is read from them as it was written, and two
\* bytes are those of the length they are read as.
LEMMA LengthBytes ==
  /\ \A n \in 0..(Limit - 1) :
       /\ n % Base \in Byte /\ (n \div Base) % Base \in Byte
       /\ (n % Base) + Base * ((n \div Base) % Base) = n
  /\ \A a, b \in Byte :
       /\ a + Base * b \in 0..(Limit - 1)
       /\ (a + Base * b) % Base = a
       /\ ((a + Base * b) \div Base) % Base = b
<1>1. Base \in Nat /\ Base > 5
  BY WireAssumption
<1>2. ASSUME NEW n \in 0..(Limit - 1)
      PROVE  /\ n % Base \in Byte /\ (n \div Base) % Base \in Byte
             /\ (n % Base) + Base * ((n \div Base) % Base) = n
  <2>1. n \in Nat /\ n < Base * Base
    BY <1>1, <1>2 DEF Limit
  <2> DEFINE q == n \div Base
             r == n % Base
  <2>2. q \in Int /\ r \in Int /\ n = Base * q + r /\ 0 <= r /\ r < Base
    BY <1>1, <2>1
  <2>3. 0 <= q /\ q < Base
    <3> HIDE DEF q, r
    <3>1. ASSUME q < 0 PROVE FALSE
      <4>1. Base * q <= Base * (-1)
        BY <1>1, <2>2, <3>1
      <4> QED
        BY <1>1, <2>1, <2>2, <4>1
    <3>2. ASSUME q >= Base PROVE FALSE
      <4>1. Base * q >= Base * Base
        BY <1>1, <2>2, <3>2
      <4> QED
        BY <1>1, <2>1, <2>2, <4>1
    <3> QED
      BY <1>1, <2>2, <3>1, <3>2
  <2>4. q % Base = q
    <3> HIDE DEF q
    <3> QED
      BY <1>1, <2>2, <2>3
  <2> QED
    BY <1>1, <2>2, <2>3, <2>4 DEF Byte
<1>3. ASSUME NEW a \in Byte, NEW b \in Byte
      PROVE  /\ a + Base * b \in 0..(Limit - 1)
             /\ (a + Base * b) % Base = a
             /\ ((a + Base * b) \div Base) % Base = b
  <2>1. a \in Nat /\ b \in Nat /\ a < Base /\ b < Base
    BY <1>1 DEF Byte
  <2>2. Base * b \in Nat /\ Base * b <= Base * Base - Base
    <3>1. Base * b <= Base * (Base - 1)
      BY <1>1, <2>1
    <3> QED
      BY <1>1, <2>1, <3>1
  <2> DEFINE m == a + Base * b
  <2>3. m \in Nat /\ m < Base * Base
    BY <1>1, <2>1, <2>2
  <2> DEFINE q == m \div Base
             r == m % Base
  <2>4. q \in Int /\ r \in Int /\ m = Base * q + r /\ 0 <= r /\ r < Base
    <3> HIDE DEF m
    <3> QED
      BY <1>1, <2>3
  <2>5. Base * (b - q) = r - a
    <3> HIDE DEF q, r
    <3> QED
      BY <1>1, <2>1, <2>4
  <2>6. q = b
    <3> HIDE DEF q, r, m
    <3>1. ASSUME b - q >= 1 PROVE FALSE
      <4>1. Base * (b - q) >= Base
        BY <1>1, <2>1, <2>4, <3>1
      <4> QED
        BY <1>1, <2>1, <2>4, <2>5, <4>1
    <3>2. ASSUME b - q <= -1 PROVE FALSE
      <4>1. Base * (b - q) <= Base * (-1)
        BY <1>1, <2>1, <2>4, <3>2
      <4> QED
        BY <1>1, <2>1, <2>4, <2>5, <4>1
    <3> QED
      BY <1>1, <2>1, <2>4, <3>1, <3>2
  <2>7. r = a
    <3> HIDE DEF q, r
    <3> QED
      BY <1>1, <2>1, <2>4, <2>5, <2>6
  <2>8. b % Base = b
    BY <1>1, <2>1
  <2> QED
    BY <1>1, <2>1, <2>3, <2>6, <2>7, <2>8 DEF Limit
<1> QED
  BY <1>2, <1>3

\* What is used of concatenation.
LEMMA BytesConcat ==
  /\ \A s, t \in Seq(Byte) :
       /\ s \o t \in Seq(Byte)
       /\ Len(s \o t) = Len(s) + Len(t)
       /\ SubSeq(s \o t, 1, Len(s)) = s
       /\ From(s \o t, Len(s)) = t
  /\ \A s, t, u \in Seq(Byte) : (s \o t) \o u = s \o (t \o u)
<1>1. ASSUME NEW s \in Seq(Byte), NEW t \in Seq(Byte)
      PROVE  /\ s \o t \in Seq(Byte)
             /\ Len(s \o t) = Len(s) + Len(t)
             /\ SubSeq(s \o t, 1, Len(s)) = s
             /\ From(s \o t, Len(s)) = t
  BY ConcatParts DEF From
<1>2. ASSUME NEW s \in Seq(Byte), NEW t \in Seq(Byte), NEW u \in Seq(Byte)
      PROVE  (s \o t) \o u = s \o (t \o u)
  BY ConcatAssociative
<1> QED
  BY <1>1, <1>2

\* Concatenation gives bytes.
LEMMA BytesClosed == \A s, t \in Seq(Byte) : s \o t \in Seq(Byte)
  BY BytesConcat, Zenon

\* The length of a concatenation.
LEMMA BytesLength == \A s, t \in Seq(Byte) : Len(s \o t) = Len(s) + Len(t)
  BY BytesConcat, Zenon

\* Where a concatenation is bracketed does not matter.
LEMMA BytesAssoc == \A s, t, u \in Seq(Byte) : (s \o t) \o u = s \o (t \o u)
  BY BytesConcat, Zenon

\* The same, under a name that the provers match as a whole.
Regroups(s, t, u) == (s \o t) \o u = s \o (t \o u)

\* Bytes can be bracketed either way.
LEMMA BytesRegroup == \A s, t, u \in Seq(Byte) : Regroups(s, t, u)
  BY BytesAssoc, Zenon DEF Regroups

\* What is put together from two strings, or from three.
LEMMA FlattenFew ==
  ASSUME NEW t \in Seq(Seq(Byte))
  PROVE  /\ Len(t) = 2 => FlattenSeq(t) = t[1] \o t[2]
         /\ Len(t) = 3 => FlattenSeq(t) = t[1] \o (t[2] \o t[3])
<1> DEFINE c(n) == SubSeq(t, 1, n)
           f(n) == FlattenSeq(c(n))
<1>1. ASSUME NEW n \in Nat, n + 1 <= Len(t)
      PROVE  /\ t[n + 1] \in Seq(Byte) /\ f(n) \in Seq(Byte)
             /\ f(n + 1) = f(n) \o t[n + 1]
  <2>1. /\ c(n) \in Seq(Seq(Byte)) /\ t[n + 1] \in Seq(Byte)
        /\ c(n + 1) = Append(c(n), t[n + 1])
    BY <1>1, CutAfter
  <2> HIDE DEF c
  <2>2. /\ FlattenSeq(c(n)) \in Seq(Byte)
        /\ FlattenSeq(Append(c(n), t[n + 1])) = FlattenSeq(c(n)) \o t[n + 1]
    BY <2>1, FlattenAppend
  <2> QED
    BY <2>1, <2>2
<1>2. f(0) = <<>>
  <2>1. SubSeq(t, 1, 0) = <<>>
    BY SubSeqEmpty
  <2> QED
    BY <2>1, FlattenEmpty, Zenon
<1>3. FlattenSeq(t) = f(Len(t))
  BY SubSeqFull
<1> HIDE DEF f
<1>0. \A n, m \in Nat : m = n + 1 /\ m <= Len(t) =>
        t[m] \in Seq(Byte) /\ f(m) = f(n) \o t[m]
  BY <1>1
<1>4. ASSUME Len(t) >= 2
      PROVE  f(2) = t[1] \o t[2] /\ t[1] \in Seq(Byte) /\ t[2] \in Seq(Byte)
  <2>0. /\ 0 \in Nat /\ 1 \in Nat /\ 2 \in Nat
        /\ 1 = 0 + 1 /\ 2 = 1 + 1 /\ 1 <= Len(t) /\ 2 <= Len(t)
    BY <1>4
  <2>1. /\ t[1] \in Seq(Byte) /\ f(1) = f(0) \o t[1]
        /\ t[2] \in Seq(Byte) /\ f(2) = f(1) \o t[2]
    BY <1>0, <2>0, Zenon
  <2>3. <<>> \o t[1] = t[1]
    BY <2>1, ConcatEmptySeq
  <2> QED
    BY <1>2, <2>1, <2>3, Zenon
<1>5. ASSUME Len(t) = 3
      PROVE  f(3) = t[1] \o (t[2] \o t[3])
  <2>1. f(2) = t[1] \o t[2] /\ t[1] \in Seq(Byte) /\ t[2] \in Seq(Byte)
    BY <1>4, <1>5
  <2>2. 2 \in Nat /\ 3 \in Nat /\ 3 = 2 + 1 /\ 3 <= Len(t)
    BY <1>5
  <2>3. t[3] \in Seq(Byte) /\ f(3) = f(2) \o t[3]
    BY <1>0, <2>2, Zenon
  <2>4. (t[1] \o t[2]) \o t[3] = t[1] \o (t[2] \o t[3])
    BY <2>1, <2>3, BytesAssoc, Zenon
  <2> QED
    BY <2>1, <2>3, <2>4, Zenon
<1> QED
  <2>1. ASSUME Len(t) = 2 PROVE FlattenSeq(t) = t[1] \o t[2]
    <3>1. Len(t) >= 2
      BY <2>1
    <3>2. f(2) = t[1] \o t[2]
      BY <1>4, <3>1, Zenon
    <3> QED
      BY <1>3, <2>1, <3>2, Zenon
  <2>2. ASSUME Len(t) = 3 PROVE FlattenSeq(t) = t[1] \o (t[2] \o t[3])
    BY <1>3, <1>5, <2>2, Zenon
  <2> QED
    BY <2>1, <2>2, Zenon

\* Strings that differ in one byte.
Apart(s, t, n, b, c) ==
  /\ Len(s) = Len(t)
  /\ \A i \in 1..Len(s) : s[i] = t[i] \/ (i = n /\ s[i] = b /\ t[i] = c)

\* Only what is put in the middle is different.
LEMMA OneByteApart ==
  ASSUME NEW p \in Seq(Byte), NEW q \in Seq(Byte), NEW x \in Seq(Byte), NEW y \in Seq(Byte),
         Len(x) = 1, Len(y) = 1
  PROVE  Apart(p \o (x \o q), p \o (y \o q), Len(p) + 1, x[1], y[1])
<1>1. Len(p) \in Nat /\ Len(q) \in Nat
  OBVIOUS
<1> DEFINE E(z) == p \o (z \o q)
<1>2. ASSUME NEW z \in Seq(Byte), Len(z) = 1
      PROVE  /\ Len(E(z)) = Len(p) + 1 + Len(q)
             /\ \A i \in 1..(Len(p) + 1 + Len(q)) :
                  E(z)[i] = IF i <= Len(p) THEN p[i]
                            ELSE IF i = Len(p) + 1 THEN z[1] ELSE q[i - Len(p) - 1]
  <2> DEFINE w == z \o q
             v == p \o w
  <2>1. /\ w \in Seq(Byte) /\ Len(w) = 1 + Len(q)
        /\ \A i \in 1..(1 + Len(q)) : w[i] = IF i <= 1 THEN z[i] ELSE q[i - 1]
    <3>1. /\ w \in Seq(Byte) /\ Len(w) = Len(z) + Len(q)
          /\ \A i \in 1..Len(z) + Len(q) : w[i] = IF i <= Len(z) THEN z[i] ELSE q[i - Len(z)]
      BY ConcatProperties
    <3> HIDE DEF w
    <3> QED
      BY <1>2, <3>1
  <2> HIDE DEF w
  <2>2. /\ Len(v) = Len(p) + Len(w)
        /\ \A i \in 1..Len(p) + Len(w) : v[i] = IF i <= Len(p) THEN p[i] ELSE w[i - Len(p)]
    BY <2>1, ConcatProperties
  <2> HIDE DEF v
  <2>3. ASSUME NEW i \in 1..(Len(p) + 1 + Len(q))
        PROVE  v[i] = IF i <= Len(p) THEN p[i] ELSE IF i = Len(p) + 1 THEN z[1] ELSE q[i - Len(p) - 1]
    <3>1. i \in 1..Len(p) + Len(w)
      BY <1>1, <2>1
    <3>2. CASE i <= Len(p)
      BY <2>2, <3>1, <3>2
    <3>3. CASE ~ (i <= Len(p))
      <4>1. v[i] = w[i - Len(p)]
        BY <2>2, <3>1, <3>3
      <4>2. i - Len(p) \in 1..(1 + Len(q))
        BY <1>1, <3>3
      <4>3. w[i - Len(p)] = IF i - Len(p) <= 1 THEN z[i - Len(p)] ELSE q[i - Len(p) - 1]
        BY <2>1, <4>2
      <4>4. CASE i = Len(p) + 1
        BY <1>1, <3>3, <4>1, <4>3, <4>4
      <4>5. CASE i # Len(p) + 1
        BY <1>1, <3>3, <4>1, <4>3, <4>5
      <4> QED
        BY <4>4, <4>5
    <3> QED
      BY <3>2, <3>3
  <2>4. v = E(z)
    BY DEF v, w
  <2>5. Len(v) = Len(p) + 1 + Len(q)
    BY <1>1, <2>1, <2>2
  <2> HIDE DEF E
  <2> QED
    BY <2>3, <2>4, <2>5
<1>3. /\ Len(E(x)) = Len(p) + 1 + Len(q)
      /\ \A i \in 1..(Len(p) + 1 + Len(q)) :
           E(x)[i] = IF i <= Len(p) THEN p[i]
                     ELSE IF i = Len(p) + 1 THEN x[1] ELSE q[i - Len(p) - 1]
  <2> HIDE DEF E
  <2> QED
    BY <1>2
<1>4. /\ Len(E(y)) = Len(p) + 1 + Len(q)
      /\ \A i \in 1..(Len(p) + 1 + Len(q)) :
           E(y)[i] = IF i <= Len(p) THEN p[i]
                     ELSE IF i = Len(p) + 1 THEN y[1] ELSE q[i - Len(p) - 1]
  <2> HIDE DEF E
  <2> QED
    BY <1>2
<1> DEFINE s == E(x)
           t == E(y)
<1> HIDE DEF E
<1>5. /\ Len(s) = Len(t) /\ Len(s) = Len(p) + 1 + Len(q)
      /\ \A i \in 1..Len(s) : s[i] = t[i] \/ (i = Len(p) + 1 /\ s[i] = x[1] /\ t[i] = y[1])
  <2> HIDE DEF s, t
  <2>1. ASSUME NEW i \in 1..Len(s) PROVE s[i] = t[i] \/ (i = Len(p) + 1 /\ s[i] = x[1] /\ t[i] = y[1])
    <3>1. CASE i <= Len(p)
      BY <1>1, <1>3, <1>4, <3>1 DEF s, t
    <3>2. CASE i = Len(p) + 1
      BY <1>1, <1>3, <1>4, <3>2 DEF s, t
    <3>3. CASE i > Len(p) + 1
      BY <1>1, <1>3, <1>4, <3>3 DEF s, t
    <3> QED
      BY <1>1, <3>1, <3>2, <3>3
  <2> QED
    BY <1>3, <1>4, <2>1 DEF s, t
<1> QED
  BY <1>5 DEF s, t, E, Apart

\* A length in front of a text is read back, and so is the text.
LEMMA LengthInFront ==
  ASSUME NEW n \in 0..(Limit - 1), NEW s \in Seq(Byte)
  PROVE  /\ to_le_bytes(n) \in Seq(Byte)
         /\ Len(to_le_bytes(n)) = Width
         /\ to_le_bytes(n) \o s \in Seq(Byte)
         /\ Len(to_le_bytes(n) \o s) = Width + Len(s)
         /\ from_le_bytes(to_le_bytes(n) \o s) = n
         /\ From(to_le_bytes(n) \o s, Width) = s
<1> DEFINE b == to_le_bytes(n)
<1>1. /\ b = <<n % Base, (n \div Base) % Base>>
      /\ n % Base \in Byte /\ (n \div Base) % Base \in Byte
      /\ (n % Base) + Base * ((n \div Base) % Base) = n
  BY LengthBytes DEF to_le_bytes
<1>2. b \in Seq(Byte) /\ Len(b) = 2 /\ b[1] = n % Base /\ b[2] = (n \div Base) % Base
  BY <1>1
<1> HIDE DEF b
<1>3. /\ b \o s \in Seq(Byte)
      /\ Len(b \o s) = Len(b) + Len(s)
      /\ From(b \o s, Len(b)) = s
  <2>1. b \in Seq(Byte)
    BY <1>2
  <2> QED
    BY <2>1, BytesConcat, Zenon
<1>4. (b \o s)[1] = b[1] /\ (b \o s)[2] = b[2]
  <2>1. 1 \in 1..Len(b) + Len(s) /\ 2 \in 1..Len(b) + Len(s) /\ 1 <= Len(b) /\ 2 <= Len(b)
    BY <1>2
  <2> QED
    BY <1>2, <2>1, ConcatProperties
<1>5. from_le_bytes(b \o s) = n
  BY <1>1, <1>2, <1>4 DEF from_le_bytes
<1> QED
  BY <1>2, <1>3, <1>5 DEF b, Width

\* Two bytes in front are the length they are read as.
LEMMA LengthOnly ==
  ASSUME NEW in \in Seq(Byte), Len(in) >= Width
  PROVE  /\ from_le_bytes(in) \in 0..(Limit - 1)
         /\ From(in, Width) \in Seq(Byte)
         /\ Len(From(in, Width)) = Len(in) - Width
         /\ in = to_le_bytes(from_le_bytes(in)) \o From(in, Width)
<1>1. Width = 2 /\ Len(in) \in Nat
  BY DEF Width
<1>2. in[1] \in Byte /\ in[2] \in Byte
  BY <1>1
<1>3. /\ from_le_bytes(in) \in 0..(Limit - 1)
      /\ to_le_bytes(from_le_bytes(in)) = <<in[1], in[2]>>
  BY <1>2, LengthBytes DEF from_le_bytes, to_le_bytes
<1>4. /\ SubSeq(in, 1, 2) \in Seq(Byte) /\ Len(SubSeq(in, 1, 2)) = 2
      /\ From(in, Width) \in Seq(Byte)
      /\ Len(From(in, Width)) = Len(in) - Width
      /\ SubSeq(in, 1, 2) \o From(in, Width) = in
  <2>1. 2 \in 0..Len(in)
    BY <1>1
  <2> QED
    BY <1>1, <2>1, SplitAt DEF From
<1>5. SubSeq(in, 1, 2) = <<in[1], in[2]>>
  BY <1>1, FirstTwo
<1> QED
  BY <1>3, <1>4, <1>5

-----------------------------------------------------------------------------
(***************************************************************************)
(* Fields.                                                                 *)
(***************************************************************************)

\* A text is a sequence of bytes.
LEMMA TextIsBytes ==
  ASSUME NEW s \in Texts
  PROVE  /\ s \in Seq(Byte)
         /\ Len(s) \in 0..(Limit - 1)
         /\ \A i \in 1..Len(s) : s[i] # NotUtf8
<1>1. s \in Seq(Byte \ {NotUtf8}) /\ Len(s) < Limit /\ Len(s) \in Nat
  BY DEF Texts
<1>2. Byte \ {NotUtf8} \subseteq Byte
  OBVIOUS
<1>3. s \in Seq(Byte)
  BY <1>1, <1>2, SeqMonotonic
<1>4. \A i \in 1..Len(s) : s[i] \in Byte \ {NotUtf8}
  BY <1>1
<1>5. Limit \in Nat
  BY WireAssumption DEF Limit
<1> QED
  BY <1>1, <1>3, <1>4, <1>5

\* A result is not a failure.
LEMMA ResultIsNoFailure ==
  ASSUME NEW v \in FieldValue \cup Seq(FieldValue), NEW r \in Seq(Byte)
  PROVE  [value |-> v, rest |-> r] \notin {Failure, Pending}
  BY WireAssumption DEF Returned

\* A string is decoded as it was encoded, and what follows it is left.
LEMMA StringRoundTrip ==
  ASSUME NEW s \in Texts, NEW r \in Seq(Byte)
  PROVE  /\ encode_string(s) \in Seq(Byte)
         /\ decode_string(encode_string(s) \o r) = [value |-> s, rest |-> r]
<1>1. /\ s \in Seq(Byte) /\ Len(s) \in 0..(Limit - 1) /\ Len(s) \in Nat
      /\ \A i \in 1..Len(s) : s[i] # NotUtf8
  BY TextIsBytes
<1> DEFINE b == to_le_bytes(Len(s))
           t == s \o r
           in == encode_string(s) \o r
<1>2. /\ t \in Seq(Byte)
      /\ Len(t) = Len(s) + Len(r)
      /\ SubSeq(t, 1, Len(s)) = s
      /\ SubSeq(t, Len(s) + 1, Len(t)) = r
  BY <1>1, ConcatParts
<1>3. b \in Seq(Byte) /\ encode_string(s) \in Seq(Byte)
  BY <1>1, LengthInFront DEF encode_string
<1>4. in = b \o t
  <2>1. Regroups(b, s, r)
    BY <1>1, <1>3, BytesRegroup, Zenon
  <2>2. (b \o s) \o r = b \o (s \o r)
    BY <2>1, Zenon DEF Regroups
  <2> QED
    BY <2>2, Zenon DEF encode_string
<1>5. \A i \in 1..Len(s) : t[i] # NotUtf8
  <2>1. \A i \in 1..Len(s) : t[i] = s[i]
    BY <1>1, ConcatProperties
  <2> QED
    BY <1>1, <2>1
<1> HIDE DEF b, t
<1>6. /\ Len(in) = Width + Len(t)
      /\ from_le_bytes(in) = Len(s)
      /\ From(in, Width) = t
  <2>1. /\ Len(b \o t) = Width + Len(t)
        /\ from_le_bytes(b \o t) = Len(s)
        /\ From(b \o t, Width) = t
    BY <1>1, <1>2, LengthInFront, Zenon DEF b
  <2> QED
    BY <1>4, <2>1, Zenon
<1> HIDE DEF in
<1>7. /\ ~ (Len(in) < Width)
      /\ ~ (Len(t) < Len(s) \/ \E i \in 1..Len(s) : t[i] = NotUtf8)
  BY <1>1, <1>2, <1>5, <1>6 DEF Width
<1>8. decode_string(in) = [value |-> SubSeq(t, 1, Len(s)), rest |-> From(t, Len(s))]
  BY <1>6, <1>7 DEF decode_string
<1>9. From(t, Len(s)) = r
  BY <1>2 DEF From
<1> QED
  BY <1>2, <1>3, <1>8, <1>9 DEF in

\* What decodes to a string is the encoding of that string.
LEMMA StringOnly ==
  ASSUME NEW in \in Seq(Byte), decode_string(in) # Failure
  PROVE  \E s \in Texts, r \in Seq(Byte) :
           /\ decode_string(in) = [value |-> s, rest |-> r]
           /\ in = encode_string(s) \o r
<1> DEFINE len == from_le_bytes(in)
           t == From(in, Width)
<1>1. Len(in) >= Width
  BY DEF decode_string, Width
<1>2. /\ len \in 0..(Limit - 1)
      /\ t \in Seq(Byte)
      /\ in = to_le_bytes(len) \o t
  BY <1>1, LengthOnly
<1>3. /\ ~ (Len(t) < len)
      /\ \A i \in 1..len : t[i] # NotUtf8
      /\ decode_string(in) = [value |-> SubSeq(t, 1, len), rest |-> From(t, len)]
  BY <1>1 DEF decode_string, Width
<1> HIDE DEF len, t
<1>4. len \in 0..Len(t) /\ len \in Nat /\ len < Limit
  BY <1>2, <1>3, WireAssumption DEF Limit
<1> DEFINE s == SubSeq(t, 1, len)
           r == From(t, len)
<1>5. /\ s \in Seq(Byte) /\ Len(s) = len
      /\ r \in Seq(Byte)
      /\ s \o r = t
  BY <1>2, <1>4, SplitAt DEF From
<1>6. s \in Texts
  <2>1. \A i \in 1..len : t[i] \in Byte \ {NotUtf8}
    BY <1>2, <1>3, <1>4
  <2>2. s \in Seq(Byte \ {NotUtf8})
    BY <1>4, <2>1, SubSeqProperties
  <2> QED
    BY <1>4, <1>5, <2>2 DEF Texts
<1> HIDE DEF s, r
<1>7. in = encode_string(s) \o r
  <2>1. to_le_bytes(len) \in Seq(Byte)
    BY <1>2, <1>5, LengthInFront
  <2>2. (to_le_bytes(len) \o s) \o r = to_le_bytes(len) \o (s \o r)
    BY <1>5, <2>1, BytesAssoc, Zenon
  <2> QED
    BY <1>2, <1>5, <2>2 DEF encode_string
<1> QED
  BY <1>3, <1>5, <1>6, <1>7 DEF s, r

\* What a decoder returns.
Result(v, r) == [value |-> v, rest |-> r]

\* d is a chain of decoding steps: the next value of v from the next part of e.
Reads(d, V, v, e) ==
  \A n \in 1..Len(e) : \A w \in Seq(V), s \in Seq(Byte) :
    d[n - 1] = Result(w, e[n] \o s)
      => d[n] = Result(Append(w, v[n]), s)

\* d is a chain of decoding steps: each that succeeds takes a part of the bytes
\* for a value, and number, value and part are in R.
Takes(d, k, V, R) ==
  \A n \in 1..k : d[n] # Failure =>
    /\ d[n - 1] # Failure
    /\ \A w \in Seq(V), s \in Seq(Byte) :
         d[n - 1] = Result(w, s) =>
           \E x \in V, b, t \in Seq(Byte) :
             /\ d[n] = Result(Append(w, x), t)
             /\ s = b \o t
             /\ <<n, x, b>> \in R

\* The first k values that d decodes, and the parts that in is put together from.
Together(d, k, V, R, in) ==
  \E v \in Seq(V), e \in Seq(Seq(Byte)), r \in Seq(Byte) :
    /\ Len(v) = k /\ Len(e) = k
    /\ d[k] = Result(v, r)
    /\ in = FlattenSeq(e) \o r
    /\ \A n \in 1..k : <<n, v[n], e[n]>> \in R

\* Decoding one value after the other, as decode_string_vec and
\* decode_request do, gives all values that were encoded one after the other.
LEMMA ReadAll ==
  ASSUME NEW k \in Nat, NEW V,
         NEW v \in Seq(V), Len(v) = k,
         NEW e \in Seq(Seq(Byte)), Len(e) = k,
         NEW r \in Seq(Byte),
         NEW d, d[0] = Result(<<>>, FlattenSeq(e) \o r),
         Reads(d, V, v, e)
  PROVE  d[k] = Result(v, r)
<1> DEFINE P(n) == \A s \in Seq(Byte) :
                     FlattenSeq(e) \o r = FlattenSeq(SubSeq(e, 1, n)) \o s
                       => d[n] = Result(SubSeq(v, 1, n), s)
           N == {n \in Nat : n <= k => P(n)}
<1>1. 0 \in N
  <2> SUFFICES ASSUME NEW s \in Seq(Byte), FlattenSeq(e) \o r = FlattenSeq(SubSeq(e, 1, 0)) \o s
               PROVE  d[0] = Result(SubSeq(v, 1, 0), s)
    OBVIOUS
  <2>1. SubSeq(e, 1, 0) = <<>> /\ SubSeq(v, 1, 0) = <<>>
    BY SubSeqEmpty
  <2>2. FlattenSeq(e) \o r = <<>> \o s
    BY <2>1, FlattenEmpty, Zenon
  <2>3. <<>> \o s = s
    BY ConcatEmptySeq
  <2> QED
    BY <2>1, <2>2, <2>3
<1> HIDE DEF P
<1>2. ASSUME NEW n \in Nat, n \in N PROVE n + 1 \in N
  <2> SUFFICES ASSUME n + 1 <= k PROVE P(n + 1)
    OBVIOUS
  <2>0. P(n)
    BY <1>2
  <2> HIDE DEF N
  <2> SUFFICES ASSUME NEW s \in Seq(Byte),
                      FlattenSeq(e) \o r = FlattenSeq(SubSeq(e, 1, n + 1)) \o s
               PROVE  d[n + 1] = Result(SubSeq(v, 1, n + 1), s)
    BY DEF P
  <2> DEFINE f == SubSeq(e, 1, n)
             w == SubSeq(v, 1, n)
  <2>1. /\ f \in Seq(Seq(Byte)) /\ e[n + 1] \in Seq(Byte)
        /\ SubSeq(e, 1, n + 1) = Append(f, e[n + 1])
    BY CutAfter
  <2>2. /\ w \in Seq(V)
        /\ SubSeq(v, 1, n + 1) = Append(w, v[n + 1])
    BY CutAfter
  <2> HIDE DEF f, w
  <2>3. /\ FlattenSeq(f) \in Seq(Byte)
        /\ FlattenSeq(Append(f, e[n + 1])) = FlattenSeq(f) \o e[n + 1]
    BY <2>1, FlattenAppend
  <2>4. /\ e[n + 1] \o s \in Seq(Byte)
        /\ FlattenSeq(e) \o r = FlattenSeq(f) \o (e[n + 1] \o s)
    <3>1. (FlattenSeq(f) \o e[n + 1]) \o s = FlattenSeq(f) \o (e[n + 1] \o s)
      BY <2>1, <2>3, BytesAssoc, Zenon
    <3>2. e[n + 1] \o s \in Seq(Byte)
      BY <2>1, BytesClosed, Zenon
    <3> QED
      BY <2>1, <2>3, <3>1, <3>2
  <2>5. d[n] = Result(w, e[n + 1] \o s)
    BY <2>0, <2>4 DEF P, f, w
  <2>6. n + 1 \in 1..k /\ (n + 1) - 1 = n
    OBVIOUS
  <2>7. d[n + 1] = Result(Append(w, v[n + 1]), s)
    <3>1. d[(n + 1) - 1] = Result(w, e[n + 1] \o s)
            => d[n + 1] = Result(Append(w, v[n + 1]), s)
      BY <2>2, <2>6, Zenon DEF Reads
    <3> QED
      BY <2>5, <2>6, <3>1
  <2> QED
    BY <2>2, <2>7
<1> HIDE DEF N
<1>3. Nat \subseteq N
  BY <1>1, <1>2, SetInduction
<1>4. P(k)
  BY <1>3 DEF N
<1>5. SubSeq(e, 1, k) = e /\ SubSeq(v, 1, k) = v
  BY SubSeqFull
<1> QED
  BY <1>4, <1>5 DEF P

\* And what is decoded one after the other was put together from the parts
\* that each of them was decoded from.
LEMMA OnlyAll ==
  ASSUME NEW k \in Nat, NEW V, NEW R, NEW in \in Seq(Byte),
         NEW d, d[0] = Result(<<>>, in), d[k] # Failure,
         Takes(d, k, V, R)
  PROVE  Together(d, k, V, R, in)
<1> DEFINE Q(n, v, e, r) ==
             /\ Len(v) = n /\ Len(e) = n
             /\ d[n] = Result(v, r)
             /\ in = FlattenSeq(e) \o r
             /\ \A i \in 1..n : <<i, v[i], e[i]>> \in R
           P(n) == \E v \in Seq(V), e \in Seq(Seq(Byte)), r \in Seq(Byte) : Q(n, v, e, r)
           N == {n \in Nat : n <= k /\ d[n] # Failure => P(n)}
<1>1. 0 \in N
  <2>1. <<>> \in Seq(V) /\ <<>> \in Seq(Seq(Byte)) /\ Len(<<>>) = 0
    BY EmptySeq
  <2>2. FlattenSeq(<<>>) \o in = in
    BY FlattenEmpty, ConcatEmptySeq
  <2>3. Q(0, <<>>, <<>>, in)
    BY <2>1, <2>2
  <2> HIDE DEF Q
  <2> QED
    BY <2>1, <2>3
<1> HIDE DEF P
<1>2. ASSUME NEW n \in Nat, n \in N PROVE n + 1 \in N
  <2> SUFFICES ASSUME n + 1 <= k, d[n + 1] # Failure PROVE P(n + 1)
    OBVIOUS
  <2>1. n + 1 \in 1..k /\ (n + 1) - 1 = n /\ n <= k
    OBVIOUS
  <2>2. d[n] # Failure
    BY <2>1 DEF Takes
  <2>3. P(n)
    BY <1>2, <2>1, <2>2
  <2> HIDE DEF N
  <2>4. PICK v \in Seq(V), e \in Seq(Seq(Byte)), r \in Seq(Byte) : Q(n, v, e, r)
    <3> HIDE DEF Q
    <3> QED
      BY <2>3 DEF P
  <2>5. /\ Len(v) = n /\ Len(e) = n
        /\ d[n] = Result(v, r)
        /\ in = FlattenSeq(e) \o r
        /\ \A i \in 1..n : <<i, v[i], e[i]>> \in R
    BY <2>4
  <2>6. PICK x \in V, b \in Seq(Byte), t \in Seq(Byte) :
          /\ d[n + 1] = Result(Append(v, x), t)
          /\ r = b \o t
          /\ <<n + 1, x, b>> \in R
    <3>1. d[(n + 1) - 1] = Result(v, r)
      BY <2>1, <2>5
    <3> HIDE DEF Q
    <3>2. \E x \in V, b, t \in Seq(Byte) :
            /\ d[n + 1] = Result(Append(v, x), t)
            /\ r = b \o t
            /\ <<n + 1, x, b>> \in R
      <4>1. \A w \in Seq(V), s \in Seq(Byte) :
              d[(n + 1) - 1] = Result(w, s) =>
                \E x \in V, b, t \in Seq(Byte) :
                  /\ d[n + 1] = Result(Append(w, x), t)
                  /\ s = b \o t
                  /\ <<n + 1, x, b>> \in R
        BY <2>1, Zenon DEF Takes
      <4> QED
        BY <3>1, <4>1, Zenon
    <3> QED
      BY <3>2
  <2>7. /\ Append(v, x) \in Seq(V) /\ Len(Append(v, x)) = n + 1
        /\ \A i \in 1..n : Append(v, x)[i] = v[i]
        /\ Append(v, x)[n + 1] = x
    BY <2>5, AppendProperties
  <2>8. /\ Append(e, b) \in Seq(Seq(Byte)) /\ Len(Append(e, b)) = n + 1
        /\ \A i \in 1..n : Append(e, b)[i] = e[i]
        /\ Append(e, b)[n + 1] = b
    BY <2>5
  <2>9. in = FlattenSeq(Append(e, b)) \o t
    <3>1. FlattenSeq(e) \in Seq(Byte) /\ FlattenSeq(Append(e, b)) = FlattenSeq(e) \o b
      BY FlattenAppend
    <3>2. FlattenSeq(e) \o (b \o t) = (FlattenSeq(e) \o b) \o t
      BY <3>1, BytesAssoc, Zenon
    <3> QED
      BY <2>5, <2>6, <3>1, <3>2
  <2>10. \A i \in 1..(n + 1) : <<i, Append(v, x)[i], Append(e, b)[i]>> \in R
    <3> SUFFICES ASSUME NEW i \in 1..(n + 1) PROVE <<i, Append(v, x)[i], Append(e, b)[i]>> \in R
      OBVIOUS
    <3>1. CASE i = n + 1
      BY <2>6, <2>7, <2>8, <3>1
    <3>2. CASE i # n + 1
      <4>1. i \in 1..n
        BY <3>2
      <4> QED
        BY <2>5, <2>7, <2>8, <4>1
    <3> QED
      BY <3>1, <3>2
  <2>11. Q(n + 1, Append(v, x), Append(e, b), t)
    BY <2>6, <2>7, <2>8, <2>9, <2>10
  <2> HIDE DEF Q
  <2> QED
    BY <2>7, <2>8, <2>11 DEF P
<1> HIDE DEF N
<1>3. Nat \subseteq N
  BY <1>1, <1>2, SetInduction
<1>4. P(k)
  BY <1>3 DEF N
<1> QED
  BY <1>4 DEF P, Together

\* decode_string_vec is a chain of NextItem.
LEMMA VecChain ==
  ASSUME NEW in \in Seq(Byte), Len(in) >= Width
  PROVE  \E d : /\ d[0] = [value |-> <<>>, rest |-> From(in, Width)]
                /\ \A n \in 1..from_le_bytes(in) : d[n] = NextItem(d[n - 1])
                /\ decode_string_vec(in) = d[from_le_bytes(in)]
<1> DEFINE k == from_le_bytes(in)
           init == [value |-> <<>>, rest |-> From(in, Width)]
           G(n, d) == d = [i \in 0..n |-> IF i = 0 THEN init ELSE NextItem(d[i - 1])]
           P(n) == \E d : G(n, d)
           N == {n \in Nat : P(n)}
<1>0. k \in Nat /\ ~ (Len(in) < Width)
  BY LengthOnly, WireAssumption DEF Limit, Width
<1>0a. decode_string_vec(in) = (CHOOSE d : G(k, d))[k]
  BY <1>0 DEF decode_string_vec
<1> HIDE DEF k, init
<1>1. 0 \in N
  <2> DEFINE d == [i \in 0..0 |-> init]
  <2>1. G(0, d)
    OBVIOUS
  <2> HIDE DEF d, G
  <2> QED
    BY <2>1
<1>2. ASSUME NEW n \in Nat, n \in N PROVE n + 1 \in N
  <2>1. PICK d : G(n, d)
    <3> HIDE DEF G
    <3> QED
      BY <1>2
  <2>2. \A i \in 0..n : d[i] = IF i = 0 THEN init ELSE NextItem(d[i - 1])
    BY <2>1
  <2> DEFINE h == [i \in 0..(n + 1) |-> IF i <= n THEN d[i] ELSE NextItem(d[n])]
  <2>3. ASSUME NEW i \in 0..(n + 1) PROVE h[i] = IF i = 0 THEN init ELSE NextItem(h[i - 1])
    <3>1. CASE i <= n
      <4>1. i \in 0..n /\ h[i] = d[i]
        BY <3>1
      <4>2. i # 0 => h[i - 1] = d[i - 1]
        <5> SUFFICES ASSUME i # 0 PROVE h[i - 1] = d[i - 1]
          OBVIOUS
        <5>1. i - 1 \in 0..(n + 1) /\ i - 1 <= n
          BY <3>1
        <5> QED
          BY <5>1
      <4> HIDE DEF h
      <4> QED
        BY <2>2, <4>1, <4>2
    <3>2. CASE ~ (i <= n)
      <4>1. i # 0 /\ i - 1 = n /\ n \in 0..(n + 1) /\ n <= n
        BY <3>2
      <4>2. h[i] = NextItem(d[n]) /\ h[n] = d[n]
        BY <3>2, <4>1
      <4> HIDE DEF h
      <4> QED
        BY <4>1, <4>2
    <3> QED
      BY <3>1, <3>2
  <2>4. h = [i \in 0..(n + 1) |-> h[i]]
    OBVIOUS
  <2> HIDE DEF h
  <2>5. G(n + 1, h)
    BY <2>3, <2>4
  <2> HIDE DEF G
  <2> QED
    BY <2>5
<1> HIDE DEF N
<1>3. Nat \subseteq N
  BY <1>1, <1>2, SetInduction
<1>4. P(k)
  <2> HIDE DEF P
  <2> QED
    BY <1>0, <1>3 DEF N
<1> DEFINE d == CHOOSE d : G(k, d)
<1>5. G(k, d)
  BY <1>4
<1> HIDE DEF d
<1>6. d[0] = init /\ \A n \in 1..k : d[n] = NextItem(d[n - 1])
  <2>1. \A n \in 0..k : d[n] = IF n = 0 THEN init ELSE NextItem(d[n - 1])
    BY <1>5
  <2> QED
    BY <1>0, <2>1
<1> QED
  BY <1>0a, <1>6 DEF d, k, init

\* The same of decode_fields and NextField.
LEMMA FieldChain ==
  ASSUME NEW kinds, Len(kinds) \in Nat, NEW in
  PROVE  \E d : /\ d[0] = [value |-> <<>>, rest |-> in]
                /\ \A n \in 1..Len(kinds) : d[n] = NextField(d[n - 1], kinds[n])
                /\ decode_fields(kinds, in) = d[Len(kinds)]
<1> DEFINE k == Len(kinds)
           init == [value |-> <<>>, rest |-> in]
           G(n, d) == d = [i \in 0..n |-> IF i = 0 THEN init ELSE NextField(d[i - 1], kinds[i])]
           P(n) == \E d : G(n, d)
           N == {n \in Nat : P(n)}
<1>0. k \in Nat
  OBVIOUS
<1>0a. decode_fields(kinds, in) = (CHOOSE d : G(k, d))[k]
  BY DEF decode_fields
<1> HIDE DEF k, init
<1>1. 0 \in N
  <2> DEFINE d == [i \in 0..0 |-> init]
  <2>1. G(0, d)
    OBVIOUS
  <2> HIDE DEF d, G
  <2> QED
    BY <2>1
<1>2. ASSUME NEW n \in Nat, n \in N PROVE n + 1 \in N
  <2>1. PICK d : G(n, d)
    <3> HIDE DEF G
    <3> QED
      BY <1>2
  <2>2. \A i \in 0..n : d[i] = IF i = 0 THEN init ELSE NextField(d[i - 1], kinds[i])
    BY <2>1
  <2> DEFINE h == [i \in 0..(n + 1) |-> IF i <= n THEN d[i] ELSE NextField(d[n], kinds[i])]
  <2>3. ASSUME NEW i \in 0..(n + 1) PROVE h[i] = IF i = 0 THEN init ELSE NextField(h[i - 1], kinds[i])
    <3>1. CASE i <= n
      <4>1. i \in 0..n /\ h[i] = d[i]
        BY <3>1
      <4>2. i # 0 => h[i - 1] = d[i - 1]
        <5> SUFFICES ASSUME i # 0 PROVE h[i - 1] = d[i - 1]
          OBVIOUS
        <5>1. i - 1 \in 0..(n + 1) /\ i - 1 <= n
          BY <3>1
        <5> QED
          BY <5>1
      <4> HIDE DEF h
      <4> QED
        BY <2>2, <4>1, <4>2
    <3>2. CASE ~ (i <= n)
      <4>1. i # 0 /\ i - 1 = n /\ n \in 0..(n + 1) /\ n <= n
        BY <3>2
      <4>2. h[i] = NextField(d[n], kinds[i]) /\ h[n] = d[n]
        BY <3>2, <4>1
      <4> HIDE DEF h
      <4> QED
        BY <4>1, <4>2
    <3> QED
      BY <3>1, <3>2
  <2>4. h = [i \in 0..(n + 1) |-> h[i]]
    OBVIOUS
  <2> HIDE DEF h
  <2>5. G(n + 1, h)
    BY <2>3, <2>4
  <2> HIDE DEF G
  <2> QED
    BY <2>5
<1> HIDE DEF N
<1>3. Nat \subseteq N
  BY <1>1, <1>2, SetInduction
<1>4. P(k)
  <2> HIDE DEF P
  <2> QED
    BY <1>0, <1>3 DEF N
<1> DEFINE d == CHOOSE d : G(k, d)
<1>5. G(k, d)
  BY <1>4
<1> HIDE DEF d
<1>6. d[0] = init /\ \A n \in 1..k : d[n] = NextField(d[n - 1], kinds[n])
  <2>1. \A n \in 0..k : d[n] = IF n = 0 THEN init ELSE NextField(d[n - 1], kinds[n])
    BY <1>5
  <2> QED
    BY <1>0, <2>1
<1> QED
  BY <1>0a, <1>6 DEF d, k, init

\* What NextItem does after a value, by what decode_string does.
LEMMA NextItemStep ==
  ASSUME NEW w \in Seq(Texts), NEW s \in Seq(Byte)
  PROVE  LET d == [value |-> w, rest |-> s]
         IN  /\ decode_string(s) = Failure => NextItem(d) = Failure
             /\ decode_string(s) # Failure =>
                  NextItem(d) = [value |-> Append(w, decode_string(s).value), rest |-> decode_string(s).rest]
<1> DEFINE d == [value |-> w, rest |-> s]
<1>1. d # Failure
  BY ResultIsNoFailure DEF FieldValue
<1>2. d.rest = s /\ d.value = w
  OBVIOUS
<1> HIDE DEF d
<1>3. NextItem(d) = IF decode_string(s) = Failure THEN Failure
                    ELSE [value |-> Append(w, decode_string(s).value), rest |-> decode_string(s).rest]
  BY <1>1, <1>2 DEF NextItem
<1> QED
  BY <1>3 DEF d

\* After a failure nothing is decoded.
LEMMA NextItemFails ==
  NextItem(Failure) = Failure
  BY DEF NextItem

\* The encodings of strings, one after the other.
LEMMA StringsEncoded ==
  ASSUME NEW items \in Seq(Texts)
  PROVE  LET e == [i \in DOMAIN items |-> encode_string(items[i])]
         IN  /\ e \in Seq(Seq(Byte))
             /\ Len(e) = Len(items)
             /\ \A i \in 1..Len(items) : items[i] \in Texts /\ e[i] = encode_string(items[i])
             /\ FlattenSeq(e) \in Seq(Byte)
             /\ encode_string_vec(items) = to_le_bytes(Len(items)) \o FlattenSeq(e)
<1> DEFINE e == [i \in DOMAIN items |-> encode_string(items[i])]
<1>1. Len(items) \in Nat /\ DOMAIN items = 1..Len(items) /\ \A i \in 1..Len(items) : items[i] \in Texts
  OBVIOUS
<1>2. \A i \in 1..Len(items) : encode_string(items[i]) \in Seq(Byte)
  <2> SUFFICES ASSUME NEW i \in 1..Len(items) PROVE encode_string(items[i]) \in Seq(Byte)
    OBVIOUS
  <2>1. items[i] \in Texts /\ <<>> \in Seq(Byte)
    BY <1>1, EmptySeq
  <2> QED
    BY <2>1, StringRoundTrip
<1>3. e = [i \in 1..Len(items) |-> encode_string(items[i])]
  BY <1>1
<1>4. e \in Seq(Seq(Byte)) /\ Len(e) = Len(items)
  BY <1>1, <1>2, <1>3
<1>5. \A i \in 1..Len(items) : e[i] = encode_string(items[i])
  BY <1>3
<1>6. encode_string_vec(items) = to_le_bytes(Len(items)) \o FlattenSeq(e)
  BY DEF encode_string_vec
<1> HIDE DEF e
<1>7. FlattenSeq(e) \in Seq(Byte)
  <2>1. <<>> \in Seq(Byte)
    BY EmptySeq
  <2> QED
    BY <1>4, <2>1, FlattenAppend
<1> QED
  BY <1>1, <1>4, <1>5, <1>6, <1>7 DEF e

\* A list of strings is decoded as it was encoded.
LEMMA VecRoundTrip ==
  ASSUME NEW items \in FieldValues("vec"), NEW r \in Seq(Byte)
  PROVE  /\ encode_string_vec(items) \in Seq(Byte)
         /\ decode_string_vec(encode_string_vec(items) \o r) = [value |-> items, rest |-> r]
<1>1. items \in Seq(Texts) /\ Len(items) \in 0..(Limit - 1)
  BY WireAssumption DEF FieldValues, Limit
<1> DEFINE e == [i \in DOMAIN items |-> encode_string(items[i])]
           k == Len(items)
           b == to_le_bytes(k)
           f == FlattenSeq(e)
           in == encode_string_vec(items) \o r
<1>2. /\ e \in Seq(Seq(Byte)) /\ Len(e) = k
      /\ \A i \in 1..k : items[i] \in Texts /\ e[i] = encode_string(items[i])
      /\ f \in Seq(Byte)
      /\ encode_string_vec(items) = b \o f
  BY <1>1, StringsEncoded
<1>3. k \in Nat /\ k \in 0..(Limit - 1)
  BY <1>1
<1> HIDE DEF e, k, f
<1>4. b \in Seq(Byte) /\ encode_string_vec(items) \in Seq(Byte) /\ f \o r \in Seq(Byte)
  BY <1>2, <1>3, LengthInFront, BytesConcat
<1> HIDE DEF b
<1>5. in = b \o (f \o r)
  <2>1. (b \o f) \o r = b \o (f \o r)
    <3>1. Regroups(b, f, r)
      BY <1>2, <1>4, BytesRegroup, Zenon
    <3> QED
      BY <3>1, Zenon DEF Regroups
  <2> QED
    BY <1>2, <2>1
<1>6. /\ in \in Seq(Byte)
      /\ Len(in) = Width + Len(f \o r)
      /\ from_le_bytes(in) = k
      /\ From(in, Width) = f \o r
  <2>1. /\ b \o (f \o r) \in Seq(Byte)
        /\ Len(b \o (f \o r)) = Width + Len(f \o r)
        /\ from_le_bytes(b \o (f \o r)) = k
        /\ From(b \o (f \o r), Width) = f \o r
    BY <1>3, <1>4, LengthInFront, Zenon DEF b
  <2> QED
    BY <1>5, <2>1, Zenon
<1> HIDE DEF in
<1>7. PICK d : /\ d[0] = [value |-> <<>>, rest |-> f \o r]
               /\ \A n \in 1..k : d[n] = NextItem(d[n - 1])
               /\ decode_string_vec(in) = d[k]
  <2>1. Len(in) >= Width
    <3>1. Len(f \o r) \in Nat
      BY <1>4
    <3> QED
      BY <1>6, <3>1 DEF Width
  <2>2. \E d : /\ d[0] = [value |-> <<>>, rest |-> From(in, Width)]
               /\ \A n \in 1..from_le_bytes(in) : d[n] = NextItem(d[n - 1])
               /\ decode_string_vec(in) = d[from_le_bytes(in)]
    BY <1>6, <2>1, VecChain
  <2> QED
    BY <1>6, <2>2, Zenon
<1>8. ASSUME NEW n \in 1..k, NEW w \in Seq(Texts), NEW s \in Seq(Byte),
             d[n - 1] = [value |-> w, rest |-> e[n] \o s]
      PROVE  d[n] = [value |-> Append(w, items[n]), rest |-> s]
  <2>1. items[n] \in Texts /\ e[n] = encode_string(items[n]) /\ e[n] \in Seq(Byte) /\ e[n] \o s \in Seq(Byte)
    <3>1. items[n] \in Texts /\ e[n] = encode_string(items[n]) /\ e[n] \in Seq(Byte)
      BY <1>2
    <3> QED
      BY <3>1, BytesConcat, Zenon
  <2>2. decode_string(e[n] \o s) = [value |-> items[n], rest |-> s]
    BY <2>1, StringRoundTrip
  <2>3. [value |-> items[n], rest |-> s] # Failure
    BY <2>1, ResultIsNoFailure DEF FieldValue
  <2>4. NextItem(d[n - 1]) = [value |-> Append(w, items[n]), rest |-> s]
    <3> DEFINE u == e[n] \o s
    <3>1. u \in Seq(Byte) /\ decode_string(u) = [value |-> items[n], rest |-> s] /\ d[n - 1] = [value |-> w, rest |-> u]
      BY <1>8, <2>1, <2>2
    <3> HIDE DEF u
    <3>2. decode_string(u) # Failure
      BY <2>3, <3>1
    <3>3. NextItem([value |-> w, rest |-> u])
            = [value |-> Append(w, decode_string(u).value), rest |-> decode_string(u).rest]
      BY <3>1, <3>2, NextItemStep
    <3> QED
      BY <3>1, <3>3
  <2> QED
    BY <1>7, <2>4
<1>9. d[k] = [value |-> items, rest |-> r]
  <2>0. Reads(d, Texts, items, e)
    BY <1>2, <1>8 DEF Reads, Result
  <2>1. d[0] = Result(<<>>, FlattenSeq(e) \o r)
    BY <1>7 DEF f, Result
  <2>2. Len(items) = k
    BY DEF k
  <2> QED
    <3>1. k \in Nat /\ items \in Seq(Texts) /\ e \in Seq(Seq(Byte)) /\ Len(e) = k
      BY <1>1, <1>2, <1>3
    <3>2. d[k] = Result(items, r)
      BY <2>0, <2>1, <2>2, <3>1, ReadAll
    <3> QED
      BY <3>2 DEF Result
<1> QED
  BY <1>4, <1>7, <1>9 DEF in

\* What decodes to a list of strings is the encoding of that list.
LEMMA VecOnly ==
  ASSUME NEW in \in Seq(Byte), decode_string_vec(in) # Failure
  PROVE  \E items \in FieldValues("vec"), r \in Seq(Byte) :
           /\ decode_string_vec(in) = [value |-> items, rest |-> r]
           /\ in = encode_string_vec(items) \o r
<1> DEFINE k == from_le_bytes(in)
           t == From(in, Width)
           R == {q \in Nat \X Texts \X Seq(Byte) : q[3] = encode_string(q[2])}
<1>1. Len(in) >= Width
  BY DEF decode_string_vec, Width
<1>2. /\ k \in 0..(Limit - 1) /\ k \in Nat
      /\ t \in Seq(Byte)
      /\ in = to_le_bytes(k) \o t
  BY <1>1, LengthOnly
<1>3. PICK d : /\ d[0] = [value |-> <<>>, rest |-> t]
               /\ \A n \in 1..k : d[n] = NextItem(d[n - 1])
               /\ decode_string_vec(in) = d[k]
  BY <1>1, VecChain
<1> HIDE DEF k, t, R
<1>4. ASSUME NEW n \in 1..k, d[n] # Failure
      PROVE  /\ d[n - 1] # Failure
             /\ \A w \in Seq(Texts), s \in Seq(Byte) :
                  d[n - 1] = [value |-> w, rest |-> s] =>
                    \E x \in Texts, b, u \in Seq(Byte) :
                      /\ d[n] = [value |-> Append(w, x), rest |-> u]
                      /\ s = b \o u
                      /\ <<n, x, b>> \in R
  <2>1. d[n] = NextItem(d[n - 1])
    BY <1>3
  <2>2. d[n - 1] # Failure
    BY <1>4, <2>1, NextItemFails
  <2>3. ASSUME NEW w \in Seq(Texts), NEW s \in Seq(Byte), d[n - 1] = [value |-> w, rest |-> s]
        PROVE  \E x \in Texts, b, u \in Seq(Byte) :
                 /\ d[n] = [value |-> Append(w, x), rest |-> u]
                 /\ s = b \o u
                 /\ <<n, x, b>> \in R
    <3>1. /\ decode_string(s) # Failure
          /\ d[n] = [value |-> Append(w, decode_string(s).value), rest |-> decode_string(s).rest]
      BY <1>4, <2>1, <2>3, NextItemStep
    <3>2. PICK x \in Texts, u \in Seq(Byte) :
            /\ decode_string(s) = [value |-> x, rest |-> u]
            /\ s = encode_string(x) \o u
      BY <3>1, StringOnly
    <3>3. encode_string(x) \in Seq(Byte)
      BY <3>2, StringRoundTrip
    <3>4. <<n, x, encode_string(x)>> \in R
      BY <1>2, <3>3 DEF R
    <3>5. d[n] = [value |-> Append(w, x), rest |-> u]
      BY <3>1, <3>2
    <3> QED
      BY <3>2, <3>3, <3>4, <3>5
  <2> QED
    BY <2>2, <2>3
<1>5. PICK v \in Seq(Texts), e \in Seq(Seq(Byte)), r \in Seq(Byte) :
        /\ Len(v) = k /\ Len(e) = k
        /\ d[k] = [value |-> v, rest |-> r]
        /\ t = FlattenSeq(e) \o r
        /\ \A n \in 1..k : <<n, v[n], e[n]>> \in R
  <2>0. Takes(d, k, Texts, R)
    BY <1>4 DEF Takes, Result
  <2>1. d[k] # Failure
    BY <1>3
  <2> QED
    <3>1. k \in Nat /\ t \in Seq(Byte) /\ d[0] = Result(<<>>, t)
      BY <1>2, <1>3 DEF Result
    <3>2. Together(d, k, Texts, R, t)
      BY <2>0, <2>1, <3>1, OnlyAll
    <3> QED
      BY <3>2 DEF Result, Together
<1>6. e = [i \in DOMAIN v |-> encode_string(v[i])]
  <2>1. \A i \in 1..k : e[i] = encode_string(v[i])
    BY <1>5 DEF R
  <2>2. DOMAIN e = 1..k /\ DOMAIN v = 1..k /\ e = [i \in DOMAIN e |-> e[i]]
    BY <1>5
  <2> QED
    BY <2>1, <2>2
<1>7. /\ encode_string_vec(v) = to_le_bytes(k) \o FlattenSeq(e)
      /\ FlattenSeq(e) \in Seq(Byte)
  BY <1>5, <1>6, StringsEncoded
<1>8. v \in FieldValues("vec")
  BY <1>2, <1>5, WireAssumption DEF FieldValues, Limit
<1>9. in = encode_string_vec(v) \o r
  <2>1. to_le_bytes(k) \in Seq(Byte)
    BY <1>2, LengthInFront
  <2>2. (to_le_bytes(k) \o FlattenSeq(e)) \o r = to_le_bytes(k) \o (FlattenSeq(e) \o r)
    BY <1>7, <2>1, BytesAssoc, Zenon
  <2> QED
    BY <1>2, <1>5, <1>7, <2>2
<1> QED
  BY <1>3, <1>5, <1>8, <1>9

Kinds == {"string", "option", "vec", "bool"}

\* A byte in front, read and taken off.
LEMMA ByteInFront ==
  /\ \A b \in Byte, r \in Seq(Byte) :
       /\ <<b>> \in Seq(Byte)
       /\ <<b>> \o r \in Seq(Byte)
       /\ <<b>> \o r # <<>>
       /\ (<<b>> \o r)[1] = b
       /\ Tail(<<b>> \o r) = r
  /\ \A in \in Seq(Byte) : in # <<>> =>
       /\ in[1] \in Byte /\ Tail(in) \in Seq(Byte)
       /\ in = <<in[1]>> \o Tail(in)
<1>1. ASSUME NEW b \in Byte, NEW r \in Seq(Byte)
      PROVE  /\ <<b>> \in Seq(Byte)
             /\ <<b>> \o r \in Seq(Byte)
             /\ <<b>> \o r # <<>>
             /\ (<<b>> \o r)[1] = b
             /\ Tail(<<b>> \o r) = r
  <2> DEFINE s == <<b>>
             in == s \o r
  <2>1. s \in Seq(Byte) /\ Len(s) = 1 /\ s[1] = b
    OBVIOUS
  <2> HIDE DEF s
  <2>2. in \in Seq(Byte) /\ Len(in) = 1 + Len(r) /\ in[1] = b /\ Len(r) \in Nat
    BY <2>1, ConcatProperties
  <2>3. From(in, 1) = r
    <3>1. From(s \o r, Len(s)) = r
      BY <2>1, BytesConcat, Zenon
    <3> QED
      BY <2>1, <3>1, Zenon
  <2> HIDE DEF in
  <2>4. in # <<>>
    BY <2>2, EmptySeq
  <2>5. Tail(in) = r
    BY <2>2, <2>3, <2>4, TailIsSubSeq DEF From
  <2> QED
    BY <2>1, <2>2, <2>4, <2>5 DEF s, in
<1>2. ASSUME NEW in \in Seq(Byte), in # <<>>
      PROVE  /\ in[1] \in Byte /\ Tail(in) \in Seq(Byte)
             /\ in = <<in[1]>> \o Tail(in)
  <2>1. Len(in) \in Nat \ {0}
    BY <1>2, EmptySeq
  <2>2. in[1] \in Byte /\ 1 \in 1..Len(in) /\ Len(in) \in 1..Len(in)
    BY <2>1
  <2>3. Tail(in) \in Seq(Byte) /\ Tail(in) = SubSeq(in, 2, Len(in))
    BY <1>2, HeadTailProperties, TailIsSubSeq
  <2>4. SubSeq(in, 1, Len(in)) = <<in[1]>> \o SubSeq(in, 1 + 1, Len(in))
    BY <2>2, SubSeqRecursiveFirst
  <2>5. SubSeq(in, 1, Len(in)) = in
    BY SubSeqFull
  <2> QED
    BY <2>2, <2>3, <2>4, <2>5
<1> QED
  BY <1>1, <1>2

\* A field of each kind is decoded as it was encoded.
LEMMA FieldRoundTrip ==
  ASSUME NEW kind \in Kinds, NEW v \in FieldValues(kind), NEW r \in Seq(Byte)
  PROVE  /\ v \in FieldValue
         /\ encode_field(kind, v) \in Seq(Byte)
         /\ decode_field(kind, encode_field(kind, v) \o r) = Result(v, r)
<1>0. 0 \in Byte /\ 1 \in Byte
  BY WireAssumption DEF Byte
<1>1. CASE kind = "string"
  <2>1. v \in Texts /\ v \in FieldValue
    BY <1>1 DEF FieldValues, FieldValue
  <2>2. encode_field(kind, v) = encode_string(v)
    BY <1>1 DEF encode_field
  <2>3. \A in : decode_field(kind, in) = decode_string(in)
    BY <1>1 DEF decode_field
  <2> QED
    BY <2>1, <2>2, <2>3, StringRoundTrip DEF Result
<1>2. CASE kind = "vec"
  <2>1. v \in FieldValues("vec") /\ v \in FieldValue
    BY <1>2 DEF FieldValues, FieldValue
  <2>2. encode_field(kind, v) = encode_string_vec(v)
    BY <1>2 DEF encode_field
  <2>3. \A in : decode_field(kind, in) = decode_string_vec(in)
    BY <1>2 DEF decode_field
  <2> QED
    BY <2>1, <2>2, <2>3, VecRoundTrip DEF Result
<1>3. CASE kind = "bool"
  <2>1. v \in BOOLEAN /\ v \in FieldValue
    BY <1>3 DEF FieldValues, FieldValue
  <2> DEFINE b == IF v THEN 1 ELSE 0
             in == <<b>> \o r
  <2>2. encode_field(kind, v) = <<b>>
    BY <1>3 DEF encode_field
  <2>3. b \in Byte /\ ((b # 0) <=> v)
    BY <1>0, <2>1
  <2> HIDE DEF b
  <2>4. <<b>> \in Seq(Byte) /\ in # <<>> /\ in[1] = b /\ Tail(in) = r
    BY <2>3, ByteInFront
  <2> HIDE DEF in
  <2>5. decode_field(kind, in) = [value |-> in[1] # 0, rest |-> Tail(in)]
    BY <1>3, <2>4 DEF decode_field
  <2>6. (b # 0) = v
    BY <2>1, <2>3, Zenon
  <2>7. (in[1] # 0) = v
    BY <2>4, <2>6, Zenon
  <2> QED
    BY <2>1, <2>2, <2>4, <2>5, <2>7, Zenon DEF in, Result
<1>4. CASE kind = "option"
  <2>1. v \in Texts \cup {Absent} /\ v \in FieldValue
    BY <1>4 DEF FieldValues, FieldValue
  <2>2. encode_field(kind, v) = encode_option_string(v)
    BY <1>4 DEF encode_field
  <2>3. \A in : decode_field(kind, in) = decode_option_string(in)
    BY <1>4 DEF decode_field
  <2>4. CASE v = Absent
    <3> DEFINE in == <<0>> \o r
    <3>1. encode_option_string(v) = <<0>>
      BY <2>4 DEF encode_option_string
    <3>2. <<0>> \in Seq(Byte) /\ in # <<>> /\ in[1] = 0 /\ Tail(in) = r
      BY <1>0, ByteInFront
    <3> HIDE DEF in
    <3>3. decode_option_string(in) = [value |-> Absent, rest |-> Tail(in)]
      BY <3>2 DEF decode_option_string
    <3> QED
      BY <2>1, <2>2, <2>3, <2>4, <3>1, <3>2, <3>3 DEF in, Result
  <2>5. CASE v # Absent
    <3> DEFINE s == encode_string(v)
               in == <<1>> \o (s \o r)
    <3>1. v \in Texts /\ encode_option_string(v) = <<1>> \o s
      BY <2>1, <2>5 DEF encode_option_string
    <3>2. s \in Seq(Byte) /\ decode_string(s \o r) = Result(v, r)
      BY <3>1, StringRoundTrip DEF Result
    <3> HIDE DEF s
    <3>3. s \o r \in Seq(Byte) /\ <<1>> \in Seq(Byte) /\ <<1>> \o s \in Seq(Byte)
      BY <1>0, <3>2, ByteInFront, BytesConcat
    <3>4. in # <<>> /\ in[1] = 1 /\ Tail(in) = s \o r
      BY <1>0, <3>3, ByteInFront
    <3>5. (<<1>> \o s) \o r = in
      <4>1. Regroups(<<1>>, s, r)
        BY <3>2, <3>3, BytesRegroup, Zenon
      <4> QED
        BY <4>1, Zenon DEF Regroups
    <3> HIDE DEF in
    <3>6. decode_option_string(in) = decode_string(Tail(in))
      BY <3>4 DEF decode_option_string
    <3> QED
      BY <2>1, <2>2, <2>3, <3>1, <3>2, <3>3, <3>4, <3>5, <3>6
  <2> QED
    BY <2>4, <2>5
<1> QED
  BY <1>1, <1>2, <1>3, <1>4 DEF Kinds

\* The part a field of some kind and value is decoded from.
PartOf(kind, v, b) ==
  IF kind = "bool" THEN Len(b) = 1 /\ v = (b[1] # 0) ELSE b = encode_field(kind, v)

\* What decodes to a field is the encoding of that field, or any byte but zero
\* for TRUE.
LEMMA FieldOnly ==
  ASSUME NEW kind \in Kinds, NEW in \in Seq(Byte), decode_field(kind, in) # Failure
  PROVE  \E v \in FieldValues(kind), b, r \in Seq(Byte) :
           /\ decode_field(kind, in) = Result(v, r)
           /\ in = b \o r
           /\ PartOf(kind, v, b)
<1>0. 0 \in Byte /\ 1 \in Byte
  BY WireAssumption DEF Byte
<1>1. CASE kind = "string"
  <2>1. decode_field(kind, in) = decode_string(in)
    BY <1>1 DEF decode_field
  <2>2. PICK s \in Texts, r \in Seq(Byte) :
          /\ decode_string(in) = [value |-> s, rest |-> r]
          /\ in = encode_string(s) \o r
    BY <2>1, StringOnly
  <2>3. encode_string(s) \in Seq(Byte) /\ s \in FieldValues(kind)
    BY <1>1, <2>2, StringRoundTrip DEF FieldValues
  <2>4. PartOf(kind, s, encode_string(s))
    BY <1>1 DEF PartOf, encode_field
  <2> QED
    BY <2>1, <2>2, <2>3, <2>4 DEF Result
<1>2. CASE kind = "vec"
  <2>1. decode_field(kind, in) = decode_string_vec(in)
    BY <1>2 DEF decode_field
  <2>2. PICK items \in FieldValues("vec"), r \in Seq(Byte) :
          /\ decode_string_vec(in) = [value |-> items, rest |-> r]
          /\ in = encode_string_vec(items) \o r
    BY <2>1, VecOnly
  <2>3. encode_string_vec(items) \in Seq(Byte)
    BY <2>2, VecRoundTrip
  <2>4. PartOf(kind, items, encode_string_vec(items))
    BY <1>2 DEF PartOf, encode_field
  <2> QED
    BY <1>2, <2>1, <2>2, <2>3, <2>4 DEF Result
<1>3. CASE kind = "bool"
  <2>1. in # <<>> /\ decode_field(kind, in) = [value |-> in[1] # 0, rest |-> Tail(in)]
    BY <1>3 DEF decode_field
  <2> DEFINE v == in[1] # 0
             b == <<in[1]>>
             r == Tail(in)
  <2>2. in[1] \in Byte /\ r \in Seq(Byte) /\ in = b \o r
    BY <2>1, ByteInFront
  <2>3. b \in Seq(Byte) /\ Len(b) = 1 /\ b[1] = in[1]
    BY <2>2
  <2>4. v \in FieldValues(kind)
    BY <1>3 DEF FieldValues
  <2>5. PartOf(kind, v, b)
    <3>1. v = (b[1] # 0)
      BY <2>3, Zenon
    <3> HIDE DEF v, b
    <3> QED
      BY <1>3, <2>3, <3>1, Zenon DEF PartOf
  <2>6. decode_field(kind, in) = Result(v, r)
    BY <2>1, Zenon DEF Result
  <2> HIDE DEF v, b, r
  <2> QED
    BY <2>2, <2>3, <2>4, <2>5, <2>6, Zenon
<1>4. CASE kind = "option"
  <2>1. decode_field(kind, in) = decode_option_string(in)
    BY <1>4 DEF decode_field
  <2>2. CASE in # <<>> /\ in[1] = 0
    <3>1. decode_option_string(in) = [value |-> Absent, rest |-> Tail(in)]
      BY <2>2 DEF decode_option_string
    <3>2. <<0>> \in Seq(Byte) /\ Tail(in) \in Seq(Byte) /\ in = <<0>> \o Tail(in)
      BY <1>0, <2>2, ByteInFront
    <3>3. PartOf(kind, Absent, <<0>>) /\ Absent \in FieldValues(kind)
      BY <1>4 DEF PartOf, encode_field, encode_option_string, FieldValues
    <3> QED
      BY <2>1, <3>1, <3>2, <3>3, Zenon DEF Result
  <2>3. CASE in # <<>> /\ in[1] = 1
    <3>1. decode_option_string(in) = decode_string(Tail(in))
      BY <2>3 DEF decode_option_string
    <3>2. <<1>> \in Seq(Byte) /\ Tail(in) \in Seq(Byte) /\ in = <<1>> \o Tail(in)
      BY <1>0, <2>3, ByteInFront
    <3>3. PICK s \in Texts, r \in Seq(Byte) :
            /\ decode_string(Tail(in)) = [value |-> s, rest |-> r]
            /\ Tail(in) = encode_string(s) \o r
      BY <2>1, <3>1, <3>2, StringOnly, Zenon
    <3>4. encode_string(s) \in Seq(Byte) /\ s # Absent
      <4>1. s \in Seq(Byte)
        BY <3>3, TextIsBytes, Zenon
      <4> QED
        BY <3>3, <4>1, StringRoundTrip, WireAssumption
    <3>5. /\ <<1>> \o encode_string(s) \in Seq(Byte)
          /\ in = (<<1>> \o encode_string(s)) \o r
      <4>1. (<<1>> \o encode_string(s)) \o r = <<1>> \o (encode_string(s) \o r)
        <5>1. Regroups(<<1>>, encode_string(s), r)
          BY <3>2, <3>4, BytesRegroup, Zenon
        <5> QED
          BY <5>1, Zenon DEF Regroups
      <4>2. <<1>> \o encode_string(s) \in Seq(Byte)
        BY <3>2, <3>4, BytesClosed, Zenon
      <4> QED
        BY <3>2, <3>3, <4>1, <4>2, Zenon
    <3>6. PartOf(kind, s, <<1>> \o encode_string(s)) /\ s \in FieldValues(kind)
      BY <1>4, <3>4 DEF PartOf, encode_field, encode_option_string, FieldValues
    <3> QED
      BY <2>1, <3>1, <3>3, <3>5, <3>6, Zenon DEF Result
  <2>4. CASE ~ (in # <<>> /\ in[1] = 0) /\ ~ (in # <<>> /\ in[1] = 1)
    <3>1. decode_option_string(in) = Failure
      BY <2>4 DEF decode_option_string
    <3> QED
      BY <2>1, <3>1
  <2> QED
    BY <2>2, <2>3, <2>4
<1> QED
  BY <1>1, <1>2, <1>3, <1>4 DEF Kinds

\* What NextField does after some values, by what decode_field does.
LEMMA NextFieldStep ==
  ASSUME NEW w \in Seq(FieldValue), NEW s \in Seq(Byte), NEW kind
  PROVE  LET d == [value |-> w, rest |-> s]
         IN  /\ decode_field(kind, s) = Failure => NextField(d, kind) = Failure
             /\ decode_field(kind, s) # Failure =>
                  NextField(d, kind)
                    = [value |-> Append(w, decode_field(kind, s).value), rest |-> decode_field(kind, s).rest]
<1> DEFINE d == [value |-> w, rest |-> s]
<1>1. d # Failure
  BY ResultIsNoFailure
<1>2. d.rest = s /\ d.value = w
  OBVIOUS
<1> HIDE DEF d
<1>3. NextField(d, kind) =
        IF decode_field(kind, s) = Failure THEN Failure
        ELSE [value |-> Append(w, decode_field(kind, s).value), rest |-> decode_field(kind, s).rest]
  BY <1>1, <1>2 DEF NextField
<1> QED
  BY <1>3 DEF d

\* After a failure no field is decoded.
LEMMA NextFieldFails ==
  ASSUME NEW kind
  PROVE  NextField(Failure, kind) = Failure
  BY DEF NextField

\* The values of the fields of a message.
ValuesOf(kinds) ==
  {values \in Seq(FieldValue) :
     Len(values) = Len(kinds) /\ \A i \in 1..Len(kinds) : values[i] \in FieldValues(kinds[i])}

\* The fields of a message, one after the other.
LEMMA FieldsEncoded ==
  ASSUME NEW kinds \in Seq(Kinds), NEW values \in ValuesOf(kinds)
  PROVE  LET e == [i \in DOMAIN kinds |-> encode_field(kinds[i], values[i])]
         IN  /\ e \in Seq(Seq(Byte))
             /\ Len(e) = Len(kinds)
             /\ \A i \in 1..Len(kinds) : e[i] = encode_field(kinds[i], values[i])
             /\ FlattenSeq(e) \in Seq(Byte)
             /\ encode_fields(kinds, values) = FlattenSeq(e)
<1> DEFINE e == [i \in DOMAIN kinds |-> encode_field(kinds[i], values[i])]
<1>1. Len(kinds) \in Nat /\ DOMAIN kinds = 1..Len(kinds) /\ \A i \in 1..Len(kinds) : kinds[i] \in Kinds
  OBVIOUS
<1>2. \A i \in 1..Len(kinds) : encode_field(kinds[i], values[i]) \in Seq(Byte)
  <2> SUFFICES ASSUME NEW i \in 1..Len(kinds) PROVE encode_field(kinds[i], values[i]) \in Seq(Byte)
    OBVIOUS
  <2>1. kinds[i] \in Kinds /\ values[i] \in FieldValues(kinds[i]) /\ <<>> \in Seq(Byte)
    BY <1>1, EmptySeq DEF ValuesOf
  <2> QED
    BY <2>1, FieldRoundTrip
<1>3. e = [i \in 1..Len(kinds) |-> encode_field(kinds[i], values[i])]
  BY <1>1
<1>4. e \in Seq(Seq(Byte)) /\ Len(e) = Len(kinds)
  BY <1>1, <1>2, <1>3
<1>5. \A i \in 1..Len(kinds) : e[i] = encode_field(kinds[i], values[i])
  BY <1>3
<1>6. encode_fields(kinds, values) = FlattenSeq(e)
  BY DEF encode_fields
<1> HIDE DEF e
<1>7. FlattenSeq(e) \in Seq(Byte)
  <2>1. <<>> \in Seq(Byte)
    BY EmptySeq
  <2> QED
    BY <1>4, <2>1, FlattenAppend
<1> QED
  BY <1>4, <1>5, <1>6, <1>7 DEF e

\* All fields of a message are decoded as they were encoded, and nothing is
\* left.
LEMMA FieldsRoundTrip ==
  ASSUME NEW kinds \in Seq(Kinds), NEW values \in ValuesOf(kinds)
  PROVE  /\ encode_fields(kinds, values) \in Seq(Byte)
         /\ decode_fields(kinds, encode_fields(kinds, values)) = Result(values, <<>>)
<1> DEFINE e == [i \in DOMAIN kinds |-> encode_field(kinds[i], values[i])]
           k == Len(kinds)
           in == encode_fields(kinds, values)
<1>1. /\ e \in Seq(Seq(Byte)) /\ Len(e) = k
      /\ \A i \in 1..k : e[i] = encode_field(kinds[i], values[i])
      /\ in \in Seq(Byte) /\ in = FlattenSeq(e)
  BY FieldsEncoded, Zenon
<1>2. k \in Nat /\ <<>> \in Seq(Byte)
  BY EmptySeq
<1> HIDE DEF e
<1>3. PICK d : /\ d[0] = [value |-> <<>>, rest |-> in]
               /\ \A n \in 1..k : d[n] = NextField(d[n - 1], kinds[n])
               /\ decode_fields(kinds, in) = d[k]
  BY <1>2, FieldChain
<1>4. in = FlattenSeq(e) \o <<>>
  BY <1>1, ConcatEmptySeq
<1>5. /\ values \in Seq(FieldValue) /\ Len(values) = k
      /\ \A i \in 1..k : kinds[i] \in Kinds /\ values[i] \in FieldValues(kinds[i])
  BY DEF ValuesOf
<1> HIDE DEF k, in
<1>6. Reads(d, FieldValue, values, e)
  <2> SUFFICES ASSUME NEW n \in 1..k, NEW w \in Seq(FieldValue), NEW s \in Seq(Byte),
                      d[n - 1] = Result(w, e[n] \o s)
               PROVE  d[n] = Result(Append(w, values[n]), s)
    BY <1>1 DEF Reads
  <2> DEFINE kind == kinds[n]
             v == values[n]
             u == encode_field(kind, v) \o s
  <2>1. kind \in Kinds /\ v \in FieldValues(kind)
    BY <1>5
  <2>2. d[n] = NextField(d[n - 1], kind) /\ d[n - 1] = Result(w, u)
    BY <1>1, <1>3
  <2> HIDE DEF kind, v
  <2>3. v \in FieldValue /\ u \in Seq(Byte) /\ decode_field(kind, u) = Result(v, s)
    <3>1. encode_field(kind, v) \in Seq(Byte)
      BY <2>1, FieldRoundTrip
    <3> QED
      BY <2>1, <3>1, FieldRoundTrip, BytesConcat, Zenon
  <2> HIDE DEF u
  <2>4. decode_field(kind, u) # Failure
    BY <2>3, ResultIsNoFailure DEF Result
  <2>5. NextField([value |-> w, rest |-> u], kind)
          = [value |-> Append(w, decode_field(kind, u).value), rest |-> decode_field(kind, u).rest]
    BY <2>3, <2>4, NextFieldStep
  <2>6. NextField([value |-> w, rest |-> u], kind) = [value |-> Append(w, v), rest |-> s]
    BY <2>3, <2>5 DEF Result
  <2> QED
    BY <2>2, <2>6 DEF Result, v
<1>7. d[0] = Result(<<>>, FlattenSeq(e) \o <<>>)
  BY <1>3, <1>4 DEF Result
<1>8. d[k] = Result(values, <<>>)
  <2> DEFINE r == <<>>
  <2>1. /\ k \in Nat /\ r \in Seq(Byte)
        /\ e \in Seq(Seq(Byte)) /\ Len(e) = k
        /\ values \in Seq(FieldValue) /\ Len(values) = k
    BY <1>1, <1>2, <1>5
  <2>2. d[0] = Result(<<>>, FlattenSeq(e) \o r)
    BY <1>7
  <2> HIDE DEF r
  <2>3. d[k] = Result(values, r)
    BY <1>6, <2>1, <2>2, ReadAll
  <2> QED
    BY <2>3 DEF r
<1> QED
  BY <1>1, <1>3, <1>8 DEF in

\* The parts that the fields of a message are decoded from.
Parts(kinds, values, e) ==
  /\ e \in Seq(Seq(Byte)) /\ Len(e) = Len(kinds)
  /\ \A i \in 1..Len(kinds) : PartOf(kinds[i], values[i], e[i])

\* What decodes to fields is put together from a part for each of them.
LEMMA FieldsOnly ==
  ASSUME NEW kinds \in Seq(Kinds), NEW in \in Seq(Byte), decode_fields(kinds, in) # Failure
  PROVE  \E values \in ValuesOf(kinds), e \in Seq(Seq(Byte)), r \in Seq(Byte) :
           /\ decode_fields(kinds, in) = Result(values, r)
           /\ in = FlattenSeq(e) \o r
           /\ Parts(kinds, values, e)
<1> DEFINE k == Len(kinds)
           R == {q \in (1..k) \X FieldValue \X Seq(Byte) :
                   q[2] \in FieldValues(kinds[q[1]]) /\ PartOf(kinds[q[1]], q[2], q[3])}
<1>1. k \in Nat /\ \A i \in 1..k : kinds[i] \in Kinds
  OBVIOUS
<1>2. PICK d : /\ d[0] = [value |-> <<>>, rest |-> in]
               /\ \A n \in 1..k : d[n] = NextField(d[n - 1], kinds[n])
               /\ decode_fields(kinds, in) = d[k]
  BY <1>1, FieldChain
<1>3. \A n \in 1..k, x \in FieldValue, b \in Seq(Byte) :
        <<n, x, b>> \in R <=> x \in FieldValues(kinds[n]) /\ PartOf(kinds[n], x, b)
  OBVIOUS
<1> HIDE DEF k, R
<1>4. ASSUME NEW n \in 1..k, d[n] # Failure
      PROVE  /\ d[n - 1] # Failure
             /\ \A w \in Seq(FieldValue), s \in Seq(Byte) :
                  d[n - 1] = Result(w, s) =>
                    \E x \in FieldValue, b, u \in Seq(Byte) :
                      /\ d[n] = Result(Append(w, x), u)
                      /\ s = b \o u
                      /\ <<n, x, b>> \in R
  <2> DEFINE kind == kinds[n]
  <2>1. d[n] = NextField(d[n - 1], kind) /\ kind \in Kinds
    BY <1>1, <1>2
  <2>2. d[n - 1] # Failure
    BY <1>4, <2>1, NextFieldFails
  <2>3. ASSUME NEW w \in Seq(FieldValue), NEW s \in Seq(Byte), d[n - 1] = Result(w, s)
        PROVE  \E x \in FieldValue, b, u \in Seq(Byte) :
                 /\ d[n] = Result(Append(w, x), u)
                 /\ s = b \o u
                 /\ <<n, x, b>> \in R
    <3> HIDE DEF kind
    <3>1. /\ decode_field(kind, s) # Failure
          /\ d[n] = [value |-> Append(w, decode_field(kind, s).value), rest |-> decode_field(kind, s).rest]
      <4>1. d[n] = NextField(Result(w, s), kind) /\ d[n] # Failure
        BY <1>4, <2>1, <2>3, Zenon
      <4>2. NextField(Result(w, s), kind) # Failure
        BY <4>1, Zenon
      <4> QED
        BY <4>1, <4>2, NextFieldStep, Zenon DEF Result
    <3>2. PICK x \in FieldValues(kind), b \in Seq(Byte), u \in Seq(Byte) :
            /\ decode_field(kind, s) = Result(x, u)
            /\ s = b \o u
            /\ PartOf(kind, x, b)
      BY <2>1, <3>1, FieldOnly
    <3>3. x \in FieldValue
      BY <2>1, <3>2, FieldRoundTrip
    <3>4. <<n, x, b>> \in R
      BY <1>3, <3>2, <3>3 DEF kind
    <3>5. d[n] = Result(Append(w, x), u)
      BY <3>1, <3>2 DEF Result
    <3> QED
      BY <3>2, <3>3, <3>4, <3>5
  <2> QED
    BY <2>2, <2>3
<1>5. Together(d, k, FieldValue, R, in)
  <2>1. Takes(d, k, FieldValue, R)
    BY <1>4, Zenon DEF Takes
  <2>2. d[0] = Result(<<>>, in) /\ d[k] # Failure
    BY <1>2 DEF Result, k
  <2> QED
    BY <1>1, <2>1, <2>2, OnlyAll
<1>6. PICK v \in Seq(FieldValue), e \in Seq(Seq(Byte)), r \in Seq(Byte) :
        /\ Len(v) = k /\ Len(e) = k
        /\ d[k] = Result(v, r)
        /\ in = FlattenSeq(e) \o r
        /\ \A n \in 1..k : <<n, v[n], e[n]>> \in R
  BY <1>5 DEF Together
<1>7. ASSUME NEW n \in 1..k
      PROVE  v[n] \in FieldValues(kinds[n]) /\ PartOf(kinds[n], v[n], e[n])
  <2>1. v[n] \in FieldValue /\ e[n] \in Seq(Byte)
    BY <1>6
  <2> QED
    BY <1>3, <1>6, <2>1
<1>8. v \in ValuesOf(kinds) /\ Parts(kinds, v, e)
  BY <1>6, <1>7 DEF ValuesOf, Parts, k
<1> QED
  BY <1>2, <1>6, <1>8

-----------------------------------------------------------------------------
(***************************************************************************)
(* Frames.                                                                 *)
(***************************************************************************)

\* The bytes of a frame that say how long it is.
LEMMA FrameLenBytes ==
  ASSUME NEW frame \in Seq(Byte), Len(frame) >= Header
  PROVE  /\ FrameLen(frame) = Header + frame[3] + Base * frame[4]
         /\ FrameLen(frame) \in Header..(Header + Limit - 1)
         /\ \A i \in 1..Header : frame[i] \in Byte
<1>1. Header = 4 /\ Len(frame) \in Nat /\ Base \in Nat /\ Limit \in Nat
  BY WireAssumption DEF Header, Width, Limit
<1>2. \A i \in 1..Header : frame[i] \in Byte
  BY <1>1
<1> DEFINE t == From(frame, 2)
<1>3. t[1] = frame[3] /\ t[2] = frame[4]
  <2>0. 2 \in 0..Len(frame)
    BY <1>1
  <2>1. \A i \in 1..(Len(frame) - 2) : Above(frame, 2)[i] = frame[2 + i]
    BY <2>0, AboveElements
  <2>2. 1 \in 1..(Len(frame) - 2) /\ 2 \in 1..(Len(frame) - 2)
    BY <1>1
  <2>3. t = Above(frame, 2)
    BY DEF From, Above
  <2> HIDE DEF t
  <2> QED
    BY <2>1, <2>2, <2>3
<1>4. frame[3] \in Byte /\ frame[4] \in Byte /\ frame[3] \in Nat /\ frame[4] \in Nat
  BY <1>1, <1>2 DEF Byte
<1>5. frame[3] + Base * frame[4] \in 0..(Limit - 1)
  BY <1>4, LengthBytes
<1>6. FrameLen(frame) = Header + (frame[3] + Base * frame[4])
  BY <1>3 DEF FrameLen, from_le_bytes
<1>7. Base * frame[4] \in Nat
  BY <1>1, <1>4
<1>8. FrameLen(frame) = Header + frame[3] + Base * frame[4]
  <2> DEFINE n == Base * frame[4]
  <2>1. FrameLen(frame) = Header + (frame[3] + n) /\ n \in Nat
    BY <1>6, <1>7
  <2> HIDE DEF n
  <2>2. FrameLen(frame) = Header + frame[3] + n
    BY <1>1, <1>4, <2>1
  <2> QED
    BY <2>2 DEF n
<1>9. FrameLen(frame) \in Header..(Header + Limit - 1)
  <2> DEFINE n == frame[3] + Base * frame[4]
  <2>1. FrameLen(frame) = Header + n /\ n \in 0..(Limit - 1)
    BY <1>5, <1>6
  <2> HIDE DEF n
  <2> QED
    BY <1>1, <2>1
<1> QED
  BY <1>2, <1>8, <1>9

\* They are in its header.
LEMMA FrameLenInHeader ==
  ASSUME NEW s \in Seq(Byte), NEW t \in Seq(Byte), Len(s) >= Header
  PROVE  /\ FrameLen(s \o t) = FrameLen(s)
         /\ Len(s \o t) >= Header
         /\ \A i \in 1..Header : (s \o t)[i] = s[i]
<1>1. Header = 4 /\ Len(s) \in Nat /\ Len(t) \in Nat
  BY DEF Header, Width
<1>2. s \o t \in Seq(Byte) /\ Len(s \o t) >= Header
  BY <1>1, ConcatProperties
<1>3. \A i \in 1..Header : (s \o t)[i] = s[i]
  <2> SUFFICES ASSUME NEW i \in 1..Header PROVE (s \o t)[i] = s[i]
    OBVIOUS
  <2>1. i \in 1..Len(s) + Len(t) /\ i <= Len(s)
    BY <1>1
  <2> QED
    BY <2>1, ConcatProperties
<1>4. 3 \in 1..Header /\ 4 \in 1..Header
  BY <1>1
<1>5. FrameLen(s \o t) = Header + (s \o t)[3] + Base * (s \o t)[4]
  BY <1>2, FrameLenBytes
<1>6. FrameLen(s) = Header + s[3] + Base * s[4]
  BY FrameLenBytes
<1>7. (s \o t)[3] = s[3] /\ (s \o t)[4] = s[4]
  BY <1>3, <1>4
<1> QED
  BY <1>2, <1>3, <1>5, <1>6, <1>7, Zenon

\* The header of a frame.
LEMMA FrameParts ==
  ASSUME NEW tag \in Byte, NEW payload \in Seq(Byte), Len(payload) < Limit
  PROVE  LET frame == encode_frame(tag, payload)
         IN  /\ frame \in Seq(Byte)
             /\ Len(frame) = Header + Len(payload)
             /\ frame[1] = PROTOCOL_VERSION /\ frame[2] = tag
             /\ FrameLen(frame) = Len(frame)
             /\ From(frame, Header) = payload
             /\ frame = <<PROTOCOL_VERSION, tag>> \o (to_le_bytes(Len(payload)) \o payload)
<1> DEFINE h == <<PROTOCOL_VERSION, tag>>
           b == to_le_bytes(Len(payload))
           frame == encode_frame(tag, payload)
           t == b \o payload
<1>0. Len(payload) \in 0..(Limit - 1) /\ Len(payload) \in Nat
  BY WireAssumption DEF Limit
<1>1. h \in Seq(Byte) /\ Len(h) = 2 /\ h[1] = PROTOCOL_VERSION /\ h[2] = tag
  <2>1. PROTOCOL_VERSION \in Byte
    BY WireAssumption DEF PROTOCOL_VERSION, Byte
  <2> QED
    BY <2>1
<1>2. /\ b \in Seq(Byte) /\ Len(b) = Width
      /\ t \in Seq(Byte) /\ Len(t) = Width + Len(payload)
      /\ from_le_bytes(t) = Len(payload)
  BY <1>0, LengthInFront
<1>3. frame = (h \o b) \o payload
  BY DEF encode_frame
<1> HIDE DEF h, b
<1>4. frame = h \o t /\ h \o b \in Seq(Byte) /\ Len(h \o b) = Header
  <2>1. (h \o b) \o payload = h \o (b \o payload)
    BY <1>1, <1>2, BytesAssoc, Zenon
  <2>2. h \o b \in Seq(Byte) /\ Len(h \o b) = Len(h) + Len(b)
    BY <1>1, <1>2, BytesConcat, Zenon
  <2> QED
    BY <1>1, <1>2, <1>3, <2>1, <2>2 DEF Header
<1> HIDE DEF frame, t
<1>5. /\ frame \in Seq(Byte)
      /\ Len(frame) = 2 + Len(t)
      /\ From(frame, 2) = t
  <2>1. /\ h \o t \in Seq(Byte)
        /\ Len(h \o t) = Len(h) + Len(t)
        /\ From(h \o t, Len(h)) = t
    BY <1>1, <1>2, BytesConcat, Zenon
  <2> QED
    BY <1>1, <1>4, <2>1
<1>6. frame[1] = PROTOCOL_VERSION /\ frame[2] = tag
  <2>1. 1 \in 1..Len(h) + Len(t) /\ 2 \in 1..Len(h) + Len(t) /\ 1 <= Len(h) /\ 2 <= Len(h)
    BY <1>0, <1>1, <1>2 DEF Width
  <2> QED
    BY <1>1, <1>2, <1>4, <2>1, ConcatProperties
<1>7. From(frame, Header) = payload
  <2>1. From((h \o b) \o payload, Len(h \o b)) = payload
    BY <1>4, BytesConcat, Zenon
  <2> QED
    BY <1>3, <1>4, <2>1 DEF frame
<1>8. FrameLen(frame) = Header + Len(payload)
  BY <1>2, <1>5 DEF FrameLen
<1>9. Len(frame) = Header + Len(payload)
  BY <1>0, <1>2, <1>5 DEF Header, Width
<1> QED
  BY <1>4, <1>5, <1>6, <1>7, <1>8, <1>9 DEF frame, h, t, b

\* A frame that is decoded is the encoding of what it is decoded to.
LEMMA FrameOnly ==
  ASSUME NEW frame \in Seq(Byte), decode_frame(frame) # Failure
  PROVE  /\ decode_frame(frame) = [tag |-> frame[2], payload |-> From(frame, Header)]
         /\ frame[2] \in Byte /\ From(frame, Header) \in Seq(Byte)
         /\ Len(From(frame, Header)) < Limit
         /\ frame = encode_frame(frame[2], From(frame, Header))
<1>0. Header = 4 /\ Width = 2 /\ Len(frame) \in Nat /\ Limit \in Nat
  BY WireAssumption DEF Header, Width, Limit
<1>1. /\ Len(frame) >= Header /\ frame[1] = PROTOCOL_VERSION /\ Len(frame) = FrameLen(frame)
      /\ decode_frame(frame) = [tag |-> frame[2], payload |-> From(frame, Header)]
  BY <1>0 DEF decode_frame
<1>2. /\ FrameLen(frame) \in Header..(Header + Limit - 1)
      /\ frame[1] \in Byte /\ frame[2] \in Byte
  BY <1>0, <1>1, FrameLenBytes
<1> DEFINE h == SubSeq(frame, 1, 2)
           t == From(frame, 2)
           p == From(frame, Header)
<1>3. h \in Seq(Byte) /\ Len(h) = 2 /\ t \in Seq(Byte) /\ Len(t) = Len(frame) - 2 /\ h \o t = frame
  <2>1. 2 \in 0..Len(frame)
    BY <1>0, <1>1
  <2> QED
    BY <2>1, SplitAt DEF From
<1>4. p \in Seq(Byte) /\ Len(p) = Len(frame) - Header
  <2>1. Header \in 0..Len(frame)
    BY <1>0, <1>1
  <2> QED
    BY <2>1, SplitAt DEF From
<1>5. h = <<PROTOCOL_VERSION, frame[2]>>
  <2>1. Len(frame) >= 2
    BY <1>0, <1>1
  <2> QED
    BY <1>1, <2>1, FirstTwo
<1>6. /\ from_le_bytes(t) = Len(p)
      /\ t = to_le_bytes(from_le_bytes(t)) \o From(t, Width)
  <2>1. from_le_bytes(t) \in Nat /\ FrameLen(frame) = Header + from_le_bytes(t)
    <3>1. from_le_bytes(t) \in 0..(Limit - 1)
      <4>1. Len(t) >= Width
        BY <1>0, <1>1, <1>3
      <4> QED
        BY <1>3, <4>1, LengthOnly
    <3> QED
      BY <1>0, <3>1 DEF FrameLen
  <2>2. Len(t) >= Width
    BY <1>0, <1>1, <1>3
  <2> HIDE DEF t, p
  <2> QED
    <3>1. /\ from_le_bytes(t) \in 0..(Limit - 1)
          /\ t = to_le_bytes(from_le_bytes(t)) \o From(t, Width)
      BY <1>3, <2>2, LengthOnly, Zenon
    <3>2. from_le_bytes(t) = Len(p)
      BY <1>0, <1>1, <1>4, <2>1
    <3> QED
      BY <3>1, <3>2, Zenon
<1>7. From(t, Width) = p
  <2> DEFINE v == From(t, Width)
  <2>1. v \in Seq(Byte) /\ Len(v) = Len(t) - 2 /\ \A i \in 1..(Len(t) - 2) : v[i] = t[2 + i]
    <3>1. 2 \in 0..Len(t)
      BY <1>0, <1>1, <1>3
    <3>2. v = Above(t, 2)
      BY <1>0 DEF From, Above
    <3> HIDE DEF t, v
    <3> QED
      BY <1>3, <3>1, <3>2, AboveElements
  <2>2. \A i \in 1..(Len(frame) - 2) : t[i] = frame[2 + i]
    <3>1. 2 \in 0..Len(frame)
      BY <1>0, <1>1
    <3>2. t = Above(frame, 2)
      BY DEF From, Above
    <3> HIDE DEF t
    <3> QED
      BY <3>1, <3>2, AboveElements
  <2>3. \A i \in 1..(Len(frame) - 4) : p[i] = frame[4 + i]
    <3>1. 4 \in 0..Len(frame)
      BY <1>0, <1>1
    <3>2. p = Above(frame, 4)
      BY <1>0 DEF From, Above
    <3> HIDE DEF p
    <3> QED
      BY <3>1, <3>2, AboveElements
  <2> HIDE DEF v, t, p
  <2>4. \A i \in 1..Len(v) : v[i] = p[i]
    <3> SUFFICES ASSUME NEW i \in 1..Len(v) PROVE v[i] = p[i]
      OBVIOUS
    <3>1. i \in 1..(Len(t) - 2) /\ 2 + i \in 1..(Len(frame) - 2) /\ i \in 1..(Len(frame) - 4) /\ 2 + (2 + i) = 4 + i
      BY <1>0, <1>1, <1>3, <2>1
    <3>2. v[i] = t[2 + i] /\ t[2 + i] = frame[2 + (2 + i)] /\ p[i] = frame[4 + i]
      BY <2>1, <2>2, <2>3, <3>1
    <3> QED
      BY <3>1, <3>2
  <2>5. Len(v) = Len(p)
    BY <1>0, <1>1, <1>3, <1>4, <2>1
  <2>6. v = p
    BY <1>4, <2>1, <2>4, <2>5, SeqEqual
  <2> QED
    BY <2>6 DEF v
<1>8. Len(p) < Limit
  BY <1>0, <1>1, <1>2, <1>4
<1>9. frame = encode_frame(frame[2], p)
  <2>1. frame = h \o (to_le_bytes(Len(p)) \o p)
    BY <1>3, <1>6, <1>7
  <2>2. frame[2] \in Byte /\ p \in Seq(Byte) /\ Len(p) < Limit
    BY <1>2, <1>4, <1>8
  <2> HIDE DEF p, h
  <2>3. encode_frame(frame[2], p) = <<PROTOCOL_VERSION, frame[2]>> \o (to_le_bytes(Len(p)) \o p)
    BY <2>2, FrameParts
  <2> QED
    BY <1>5, <2>1, <2>3
<1> QED
  BY <1>1, <1>2, <1>4, <1>8, <1>9

-----------------------------------------------------------------------------
(***************************************************************************)
(* Messages.                                                               *)
(***************************************************************************)

\* The tables of fields: each tag is a byte, each field of one of the kinds,
\* and only a Ready has a flag.
LEMMA FieldTables ==
  /\ DOMAIN RequestFields = {OP_PING, OP_ANALYZE, OP_OBTAIN, OP_LIST_BACKENDS}
  /\ RequestFields[OP_PING] = <<>>
  /\ RequestFields[OP_ANALYZE] = <<"string", "option">>
  /\ RequestFields[OP_OBTAIN] = <<"string", "string">>
  /\ RequestFields[OP_LIST_BACKENDS] = <<>>
  /\ DOMAIN ResponseFields =
       {STATUS_PONG, STATUS_SUITABLE, STATUS_UNSUITABLE, STATUS_READY, STATUS_ERROR, STATUS_BACKENDS}
  /\ ResponseFields[STATUS_PONG] = <<>>
  /\ ResponseFields[STATUS_SUITABLE] = <<"string">>
  /\ ResponseFields[STATUS_UNSUITABLE] = <<"string", "vec">>
  /\ ResponseFields[STATUS_READY] = <<"string", "bool", "string">>
  /\ ResponseFields[STATUS_ERROR] = <<"string">>
  /\ ResponseFields[STATUS_BACKENDS] = <<"vec">>
<1>1. /\ DOMAIN RequestFields = {OP_PING, OP_ANALYZE, OP_OBTAIN, OP_LIST_BACKENDS}
      /\ RequestFields[OP_PING] = <<>>
      /\ RequestFields[OP_ANALYZE] = <<"string", "option">>
      /\ RequestFields[OP_OBTAIN] = <<"string", "string">>
      /\ RequestFields[OP_LIST_BACKENDS] = <<>>
  BY DEF RequestFields, OP_PING, OP_ANALYZE, OP_OBTAIN, OP_LIST_BACKENDS
<1>2. /\ DOMAIN ResponseFields =
           {STATUS_PONG, STATUS_SUITABLE, STATUS_UNSUITABLE, STATUS_READY, STATUS_ERROR, STATUS_BACKENDS}
      /\ ResponseFields[STATUS_PONG] = <<>>
      /\ ResponseFields[STATUS_SUITABLE] = <<"string">>
      /\ ResponseFields[STATUS_UNSUITABLE] = <<"string", "vec">>
      /\ ResponseFields[STATUS_READY] = <<"string", "bool", "string">>
      /\ ResponseFields[STATUS_ERROR] = <<"string">>
      /\ ResponseFields[STATUS_BACKENDS] = <<"vec">>
  BY DEF ResponseFields, STATUS_PONG, STATUS_SUITABLE, STATUS_UNSUITABLE, STATUS_READY,
         STATUS_ERROR, STATUS_BACKENDS
<1> QED
  BY <1>1, <1>2

\* What the tables say of each tag.
LEMMA KindsOfTag ==
  /\ \A tag \in DOMAIN RequestFields :
       /\ tag \in Byte /\ RequestFields[tag] \in Seq(Kinds)
       /\ \A i \in 1..Len(RequestFields[tag]) : RequestFields[tag][i] # "bool"
  /\ \A tag \in DOMAIN ResponseFields :
       /\ tag \in Byte /\ ResponseFields[tag] \in Seq(Kinds)
       /\ tag # STATUS_READY =>
            \A i \in 1..Len(ResponseFields[tag]) : ResponseFields[tag][i] # "bool"
<1>1. \A n \in 0..5 : n \in Byte
  BY WireAssumption DEF Byte
<1>2. /\ <<>> \in Seq(Kinds) /\ Len(<<>>) = 0
      /\ <<"string">> \in Seq(Kinds) /\ Len(<<"string">>) = 1 /\ <<"string">>[1] # "bool"
      /\ <<"vec">> \in Seq(Kinds) /\ Len(<<"vec">>) = 1 /\ <<"vec">>[1] # "bool"
  BY DEF Kinds
<1>3. /\ <<"string", "option">> \in Seq(Kinds) /\ Len(<<"string", "option">>) = 2
      /\ <<"string", "option">>[1] # "bool" /\ <<"string", "option">>[2] # "bool"
      /\ <<"string", "string">> \in Seq(Kinds) /\ Len(<<"string", "string">>) = 2
      /\ <<"string", "string">>[1] # "bool" /\ <<"string", "string">>[2] # "bool"
      /\ <<"string", "vec">> \in Seq(Kinds) /\ Len(<<"string", "vec">>) = 2
      /\ <<"string", "vec">>[1] # "bool" /\ <<"string", "vec">>[2] # "bool"
      /\ <<"string", "bool", "string">> \in Seq(Kinds)
  BY DEF Kinds
<1>4. ASSUME NEW tag \in DOMAIN RequestFields
      PROVE  /\ tag \in Byte /\ RequestFields[tag] \in Seq(Kinds)
             /\ \A i \in 1..Len(RequestFields[tag]) : RequestFields[tag][i] # "bool"
  <2>1. tag \in {OP_PING, OP_ANALYZE, OP_OBTAIN, OP_LIST_BACKENDS}
    BY FieldTables
  <2>2. tag \in Byte
    BY <1>1, <2>1 DEF OP_PING, OP_ANALYZE, OP_OBTAIN, OP_LIST_BACKENDS
  <2>3. RequestFields[tag] \in {<<>>, <<"string", "option">>, <<"string", "string">>}
    BY <2>1, FieldTables
  <2> DEFINE kinds == RequestFields[tag]
  <2>4. kinds \in {<<>>, <<"string", "option">>, <<"string", "string">>}
    BY <2>3
  <2> HIDE DEF kinds
  <2>5. kinds \in Seq(Kinds) /\ \A i \in 1..Len(kinds) : kinds[i] # "bool"
    <3>1. CASE kinds = <<>>
      BY <1>2, <3>1
    <3>2. CASE kinds = <<"string", "option">>
      BY <1>3, <3>2
    <3>3. CASE kinds = <<"string", "string">>
      BY <1>3, <3>3
    <3> QED
      BY <2>4, <3>1, <3>2, <3>3
  <2> QED
    BY <2>2, <2>5 DEF kinds
<1>5. ASSUME NEW tag \in DOMAIN ResponseFields
      PROVE  /\ tag \in Byte /\ ResponseFields[tag] \in Seq(Kinds)
             /\ tag # STATUS_READY =>
                  \A i \in 1..Len(ResponseFields[tag]) : ResponseFields[tag][i] # "bool"
  <2>1. tag \in {STATUS_PONG, STATUS_SUITABLE, STATUS_UNSUITABLE, STATUS_READY, STATUS_ERROR, STATUS_BACKENDS}
    BY FieldTables
  <2>2. tag \in Byte
    BY <1>1, <2>1 DEF STATUS_PONG, STATUS_SUITABLE, STATUS_UNSUITABLE, STATUS_READY, STATUS_ERROR, STATUS_BACKENDS
  <2> DEFINE kinds == ResponseFields[tag]
  <2>3. /\ tag = STATUS_READY => kinds = <<"string", "bool", "string">>
        /\ tag # STATUS_READY => kinds \in {<<>>, <<"string">>, <<"vec">>, <<"string", "vec">>}
    BY <2>1, FieldTables
  <2> HIDE DEF kinds
  <2>4. CASE tag = STATUS_READY
    BY <1>3, <2>2, <2>3, <2>4 DEF kinds
  <2>5. CASE tag # STATUS_READY
    <3>1. CASE kinds = <<>>
      BY <1>2, <2>2, <3>1 DEF kinds
    <3>2. CASE kinds = <<"string">>
      BY <1>2, <2>2, <3>2 DEF kinds
    <3>3. CASE kinds = <<"vec">>
      BY <1>2, <2>2, <3>3 DEF kinds
    <3>4. CASE kinds = <<"string", "vec">>
      BY <1>3, <2>2, <3>4 DEF kinds
    <3> QED
      BY <2>3, <2>5, <3>1, <3>2, <3>3, <3>4
  <2> QED
    BY <2>4, <2>5
<1> QED
  BY <1>4, <1>5

Tables == {RequestFields, ResponseFields}

\* What a message is that WellFormed allows.
LEMMA WellFormedParts ==
  ASSUME NEW fields \in Tables, NEW msg, WellFormed(fields, msg)
  PROVE  /\ msg = [tag |-> msg.tag, fields |-> msg.fields]
         /\ msg.tag \in DOMAIN fields /\ msg.tag \in Byte
         /\ fields[msg.tag] \in Seq(Kinds)
         /\ msg.fields \in ValuesOf(fields[msg.tag])
         /\ Len(encode_fields(fields[msg.tag], msg.fields)) < Limit
         /\ msg \notin {Failure, Pending}
<1>1. /\ msg = [tag |-> msg.tag, fields |-> msg.fields]
      /\ msg.tag \in DOMAIN fields
      /\ msg.fields = [i \in DOMAIN fields[msg.tag] |-> msg.fields[i]]
      /\ \A i \in DOMAIN msg.fields : msg.fields[i] \in FieldValues(fields[msg.tag][i])
      /\ Len(encode_fields(fields[msg.tag], msg.fields)) < Limit
  BY Zenon DEF WellFormed
<1>2. msg.tag \in Byte /\ fields[msg.tag] \in Seq(Kinds)
  BY <1>1, KindsOfTag DEF Tables
<1> DEFINE kinds == fields[msg.tag]
           values == msg.fields
<1>3. /\ kinds \in Seq(Kinds)
      /\ values = [i \in DOMAIN kinds |-> values[i]]
      /\ \A i \in DOMAIN values : values[i] \in FieldValues(kinds[i])
  BY <1>1, <1>2
<1> HIDE DEF kinds, values
<1>4. /\ Len(kinds) \in Nat /\ DOMAIN kinds = 1..Len(kinds) /\ DOMAIN values = DOMAIN kinds
      /\ \A i \in 1..Len(kinds) : kinds[i] \in Kinds
  BY <1>3
<1>5. \A i \in 1..Len(kinds) : values[i] \in FieldValues(kinds[i]) /\ values[i] \in FieldValue
  <2> SUFFICES ASSUME NEW i \in 1..Len(kinds)
               PROVE  values[i] \in FieldValues(kinds[i]) /\ values[i] \in FieldValue
    OBVIOUS
  <2>1. kinds[i] \in Kinds /\ values[i] \in FieldValues(kinds[i]) /\ <<>> \in Seq(Byte)
    BY <1>3, <1>4, EmptySeq
  <2> QED
    BY <2>1, FieldRoundTrip
<1>6. values \in ValuesOf(kinds)
  <2>1. values = [i \in 1..Len(kinds) |-> values[i]]
    BY <1>3, <1>4
  <2>2. values \in Seq(FieldValue) /\ Len(values) = Len(kinds)
    BY <1>4, <1>5, <2>1
  <2> QED
    BY <1>5, <2>2 DEF ValuesOf
<1>7. msg \in Returned
  <2>1. values \in Seq(FieldValue)
    BY <1>6 DEF ValuesOf
  <2>2. [tag |-> msg.tag, fields |-> msg.fields] \in [tag : Byte, fields : Seq(FieldValue)]
    BY <1>2, <2>1 DEF values
  <2> QED
    BY <1>1, <2>2 DEF Returned
<1>8. msg \notin {Failure, Pending}
  BY <1>7, WireAssumption
<1> QED
  BY <1>1, <1>2, <1>6, <1>8 DEF kinds, values

\* What decode_frame returns is not a failure.
LEMMA FrameIsNoFailure ==
  ASSUME NEW tag \in Byte, NEW payload \in Seq(Byte)
  PROVE  [tag |-> tag, payload |-> payload] # Failure
  BY WireAssumption DEF Returned

\* A message is decoded as it was encoded (encode_request, decode_request,
\* encode_response, decode_response).
THEOREM MessageRoundTrip ==
  ASSUME NEW fields \in Tables, NEW msg, WellFormed(fields, msg)
  PROVE  /\ Encode(fields, msg) \in Seq(Byte)
         /\ Len(Encode(fields, msg)) >= Header
         /\ FrameLen(Encode(fields, msg)) = Len(Encode(fields, msg))
         /\ Decode(fields, Encode(fields, msg)) = msg
<1> DEFINE kinds == fields[msg.tag]
           values == msg.fields
           tag == msg.tag
           payload == encode_fields(kinds, values)
           frame == Encode(fields, msg)
<1>1. /\ msg = [tag |-> tag, fields |-> values]
      /\ tag \in DOMAIN fields /\ tag \in Byte
      /\ kinds \in Seq(Kinds)
      /\ values \in ValuesOf(kinds)
      /\ Len(payload) < Limit
  BY WellFormedParts
<1>2. frame = encode_frame(tag, payload)
  BY DEF Encode
<1>3. kinds = fields[tag]
  OBVIOUS
<1> HIDE DEF kinds, values, tag
<1>4. payload \in Seq(Byte) /\ decode_fields(kinds, payload) = Result(values, <<>>)
  BY <1>1, FieldsRoundTrip
<1> HIDE DEF payload, frame
<1>5. /\ frame \in Seq(Byte)
      /\ Len(frame) = Header + Len(payload) /\ Len(payload) \in Nat
      /\ frame[1] = PROTOCOL_VERSION /\ frame[2] = tag
      /\ FrameLen(frame) = Len(frame)
      /\ From(frame, Header) = payload
  <2>1. tag \in Byte /\ payload \in Seq(Byte) /\ Len(payload) < Limit /\ Len(payload) \in Nat
    BY <1>1, <1>4
  <2>2. /\ encode_frame(tag, payload) \in Seq(Byte)
        /\ Len(encode_frame(tag, payload)) = Header + Len(payload)
        /\ encode_frame(tag, payload)[1] = PROTOCOL_VERSION /\ encode_frame(tag, payload)[2] = tag
        /\ FrameLen(encode_frame(tag, payload)) = Len(encode_frame(tag, payload))
        /\ From(encode_frame(tag, payload), Header) = payload
    BY <2>1, FrameParts
  <2> QED
    BY <1>2, <2>1, <2>2, Zenon
<1>6. Len(frame) >= Header /\ ~ (Len(frame) < Header)
  BY <1>5 DEF Header, Width
<1>7. decode_frame(frame) = [tag |-> tag, payload |-> payload]
  BY <1>5, <1>6 DEF decode_frame
<1>8. Decode(fields, frame) = [tag |-> tag, fields |-> values]
  <2> DEFINE f == decode_frame(frame)
             d == decode_fields(fields[f.tag], f.payload)
  <2>1. f # Failure /\ f.tag = tag /\ f.payload = payload
    BY <1>1, <1>4, <1>7, FrameIsNoFailure
  <2> HIDE DEF f
  <2>2. d = Result(values, <<>>)
    BY <1>3, <1>4, <2>1
  <2>3. d # Failure /\ d.rest = <<>> /\ d.value = values
    <3>1. values \in Seq(FieldValue) /\ <<>> \in Seq(Byte)
      BY <1>1, EmptySeq DEF ValuesOf
    <3>2. Result(values, <<>>) # Failure
      BY <3>1, ResultIsNoFailure DEF Result
    <3> QED
      BY <2>2, <3>2 DEF Result
  <2> HIDE DEF d
  <2>4. Decode(fields, frame) = IF f = Failure THEN Failure
                                ELSE IF f.tag \notin DOMAIN fields THEN Failure
                                ELSE IF d = Failure THEN Failure
                                ELSE IF d.rest # <<>> THEN Failure
                                ELSE [tag |-> f.tag, fields |-> d.value]
    BY DEF Decode, f, d
  <2> QED
    BY <1>1, <2>1, <2>3, <2>4
<1> QED
  BY <1>1, <1>5, <1>6, <1>8 DEF frame

\* What decodes to a message is a frame around the parts of its fields.
LEMMA DecodeOnly ==
  ASSUME NEW fields \in Tables, NEW frame \in Seq(Byte), Decode(fields, frame) # Failure
  PROVE  \E tag \in DOMAIN fields : \E values \in ValuesOf(fields[tag]), e \in Seq(Seq(Byte)) :
           /\ Decode(fields, frame) = [tag |-> tag, fields |-> values]
           /\ Parts(fields[tag], values, e)
           /\ Len(FlattenSeq(e)) < Limit
           /\ frame = encode_frame(tag, FlattenSeq(e))
<1> DEFINE f == decode_frame(frame)
           d == decode_fields(fields[f.tag], f.payload)
           tag == frame[2]
           payload == From(frame, Header)
<1>1. Decode(fields, frame) = IF f = Failure THEN Failure
                              ELSE IF f.tag \notin DOMAIN fields THEN Failure
                              ELSE IF d = Failure THEN Failure
                              ELSE IF d.rest # <<>> THEN Failure
                              ELSE [tag |-> f.tag, fields |-> d.value]
  BY DEF Decode
<1>2. /\ f # Failure /\ f.tag \in DOMAIN fields /\ d # Failure /\ d.rest = <<>>
      /\ Decode(fields, frame) = [tag |-> f.tag, fields |-> d.value]
  <2> HIDE DEF f, d
  <2> QED
    BY <1>1
<1>3. /\ f = [tag |-> tag, payload |-> payload]
      /\ payload \in Seq(Byte) /\ Len(payload) < Limit
      /\ frame = encode_frame(tag, payload)
  BY <1>2, FrameOnly
<1> HIDE DEF f
<1>4. f.tag = tag /\ f.payload = payload
  BY <1>3
<1> DEFINE kinds == fields[tag]
<1>5. kinds \in Seq(Kinds) /\ tag \in DOMAIN fields /\ d = decode_fields(kinds, payload)
  BY <1>2, <1>4, KindsOfTag DEF Tables
<1> HIDE DEF d, kinds, payload, tag
<1>6. PICK values \in ValuesOf(kinds), e \in Seq(Seq(Byte)), r \in Seq(Byte) :
        /\ d = Result(values, r)
        /\ payload = FlattenSeq(e) \o r
        /\ Parts(kinds, values, e)
  BY <1>2, <1>3, <1>5, FieldsOnly
<1>7. r = <<>> /\ d.value = values
  BY <1>2, <1>6 DEF Result
<1>8. payload = FlattenSeq(e)
  <2>1. FlattenSeq(e) \in Seq(Byte)
    <3>1. <<>> \in Seq(Byte)
      BY EmptySeq
    <3> QED
      BY <3>1, FlattenAppend
  <2> QED
    BY <1>6, <1>7, <2>1, ConcatEmptySeq
<1>9. Decode(fields, frame) = [tag |-> tag, fields |-> values]
  BY <1>2, <1>4, <1>7
<1> QED
  BY <1>3, <1>5, <1>6, <1>8, <1>9 DEF kinds

\* Without a flag among them, the parts are the encodings of the fields.
LEMMA PartsWithoutFlag ==
  ASSUME NEW kinds \in Seq(Kinds), NEW values \in ValuesOf(kinds), NEW e, Parts(kinds, values, e),
         \A i \in 1..Len(kinds) : kinds[i] # "bool"
  PROVE  encode_fields(kinds, values) = FlattenSeq(e)
<1> DEFINE g == [i \in DOMAIN kinds |-> encode_field(kinds[i], values[i])]
<1>1. /\ g \in Seq(Seq(Byte)) /\ Len(g) = Len(kinds)
      /\ \A i \in 1..Len(kinds) : g[i] = encode_field(kinds[i], values[i])
      /\ encode_fields(kinds, values) = FlattenSeq(g)
  BY FieldsEncoded, Zenon
<1> HIDE DEF g
<1>2. e \in Seq(Seq(Byte)) /\ Len(e) = Len(kinds)
  BY DEF Parts
<1>3. \A i \in 1..Len(g) : g[i] = e[i]
  BY <1>1 DEF Parts, PartOf
<1>4. g = e
  BY <1>1, <1>2, <1>3, SeqEqual
<1> QED
  BY <1>1, <1>4

\* The encoding of what is decoded from a frame has the bytes of that frame,
\* but for the flag of a Ready.
LEMMA OnlyTheFlag ==
  ASSUME NEW fields \in Tables, NEW frame \in Seq(Byte), Decode(fields, frame) # Failure
  PROVE  LET msg   == Decode(fields, frame)
             bytes == Encode(fields, msg)
         IN  /\ Len(bytes) = Len(frame)
             /\ \A i \in DOMAIN frame :
                  \/ bytes[i] = frame[i]
                  \/ /\ fields = ResponseFields /\ msg.tag = STATUS_READY
                     /\ i = Header + Width + Len(msg.fields[1]) + 1
                     /\ frame[i] # 0 /\ bytes[i] = 1
<1> DEFINE msg == Decode(fields, frame)
           bytes == Encode(fields, msg)
<1>0. PICK tag \in DOMAIN fields :
        \E values \in ValuesOf(fields[tag]), e \in Seq(Seq(Byte)) :
          /\ msg = [tag |-> tag, fields |-> values]
          /\ Parts(fields[tag], values, e)
          /\ Len(FlattenSeq(e)) < Limit
          /\ frame = encode_frame(tag, FlattenSeq(e))
  <2>1. \E tag \in DOMAIN fields : \E values \in ValuesOf(fields[tag]), e \in Seq(Seq(Byte)) :
          /\ msg = [tag |-> tag, fields |-> values]
          /\ Parts(fields[tag], values, e)
          /\ Len(FlattenSeq(e)) < Limit
          /\ frame = encode_frame(tag, FlattenSeq(e))
    BY DecodeOnly
  <2> HIDE DEF msg
  <2> QED
    BY <2>1
<1> HIDE DEF msg
<1>1. PICK values \in ValuesOf(fields[tag]), e \in Seq(Seq(Byte)) :
        /\ msg = [tag |-> tag, fields |-> values]
        /\ Parts(fields[tag], values, e)
        /\ Len(FlattenSeq(e)) < Limit
        /\ frame = encode_frame(tag, FlattenSeq(e))
  BY <1>0
<1> DEFINE kinds == fields[tag]
<1>2. tag \in Byte /\ kinds \in Seq(Kinds)
  BY KindsOfTag DEF Tables
<1>3. /\ bytes = encode_frame(tag, encode_fields(kinds, values))
      /\ msg.tag = tag /\ msg.fields = values
  BY <1>1 DEF Encode
<1> HIDE DEF bytes
<1>4. ASSUME \A i \in 1..Len(kinds) : kinds[i] # "bool"
      PROVE  bytes = frame
  <2> HIDE DEF kinds
  <2>1. values \in ValuesOf(kinds) /\ Parts(kinds, values, e)
    BY <1>1 DEF kinds
  <2>2. encode_fields(kinds, values) = FlattenSeq(e)
    BY <1>2, <1>4, <2>1, PartsWithoutFlag
  <2> QED
    BY <1>1, <1>3, <2>2
<1>5. ASSUME fields = ResponseFields, tag = STATUS_READY
      PROVE  /\ Len(bytes) = Len(frame)
             /\ \A i \in 1..Len(frame) :
                  \/ bytes[i] = frame[i]
                  \/ /\ i = Header + Width + Len(values[1]) + 1
                     /\ frame[i] # 0 /\ bytes[i] = 1
  <2>1. kinds = <<"string", "bool", "string">>
    BY <1>5, FieldTables
  <2>2. values \in ValuesOf(kinds) /\ Parts(kinds, values, e)
    BY <1>1
  <2> HIDE DEF kinds
  <2>3. Len(kinds) = 3 /\ kinds[1] = "string" /\ kinds[2] = "bool" /\ kinds[3] = "string"
    BY <2>1
  <2> DEFINE x == e[2]
             y == <<IF values[2] THEN 1 ELSE 0>>
             a == encode_string(values[1])
             c == encode_string(values[3])
  <2>4. values[1] \in Texts /\ values[2] \in BOOLEAN /\ values[3] \in Texts
    BY <2>2, <2>3 DEF ValuesOf, FieldValues
  <2>5. e \in Seq(Seq(Byte)) /\ Len(e) = 3 /\ e[1] = a /\ e[3] = c /\ Len(x) = 1 /\ values[2] = (x[1] # 0)
    <3>1. e \in Seq(Seq(Byte)) /\ Len(e) = 3
      BY <2>2, <2>3 DEF Parts
    <3>2. PartOf("string", values[1], e[1]) /\ PartOf("bool", values[2], e[2]) /\ PartOf("string", values[3], e[3])
      BY <2>2, <2>3 DEF Parts
    <3>3. e[1] = a /\ e[3] = c
      BY <3>2 DEF PartOf, encode_field
    <3>4. Len(e[2]) = 1 /\ values[2] = (e[2][1] # 0)
      BY <3>2, Zenon DEF PartOf
    <3> QED
      BY <3>1, <3>3, <3>4, Zenon
  <2>6. x \in Seq(Byte) /\ a \in Seq(Byte) /\ c \in Seq(Byte) /\ Len(a) = Width + Len(values[1])
    <3>1. x \in Seq(Byte)
      <4>1. e \in Seq(Seq(Byte)) /\ 2 \in 1..Len(e)
        BY <2>5
      <4> QED
        BY <4>1, ElementOfSeq, Zenon
    <3>2. <<>> \in Seq(Byte)
      BY EmptySeq
    <3>3. a \in Seq(Byte) /\ c \in Seq(Byte)
      BY <2>4, <3>2, StringRoundTrip
    <3>4. Len(a) = Width + Len(values[1])
      BY <2>4, TextIsBytes, LengthInFront DEF encode_string
    <3> QED
      BY <3>1, <3>3, <3>4
  <2>7. y \in Seq(Byte) /\ Len(y) = 1 /\ (y[1] = 1 \/ y[1] = 0) /\ (y[1] = 1 <=> values[2])
    <3>1. 0 \in Byte /\ 1 \in Byte
      BY WireAssumption DEF Byte
    <3>2. CASE values[2] = TRUE
      <4>1. y = <<1>>
        BY <3>2
      <4> HIDE DEF y
      <4> QED
        BY <3>1, <3>2, <4>1
    <3>3. CASE values[2] = FALSE
      <4>1. y = <<0>>
        BY <3>3
      <4> HIDE DEF y
      <4> QED
        BY <3>1, <3>3, <4>1
    <3> QED
      BY <2>4, <3>2, <3>3
  <2>8. FlattenSeq(e) = a \o (x \o c)
    <3>1. FlattenSeq(e) = e[1] \o (e[2] \o e[3])
      <4>1. e \in Seq(Seq(Byte)) /\ Len(e) = 3
        BY <2>5
      <4> QED
        BY <4>1, FlattenFew, Zenon
    <3>2. e[1] = a /\ e[2] = x /\ e[3] = c
      BY <2>5
    <3> QED
      BY <3>1, <3>2, Zenon
  <2>9. encode_fields(kinds, values) = a \o (y \o c)
    <3> DEFINE g == [i \in 1..3 |-> encode_field(kinds[i], values[i])]
    <3>1. encode_fields(kinds, values) = FlattenSeq(g)
      <4>1. DOMAIN kinds = 1..3
        BY <2>1
      <4> QED
        BY <4>1 DEF encode_fields
    <3>2. g[1] = a /\ g[2] = y /\ g[3] = c
      <4>1. /\ g[1] = encode_field(kinds[1], values[1]) /\ g[2] = encode_field(kinds[2], values[2])
            /\ g[3] = encode_field(kinds[3], values[3])
        OBVIOUS
      <4> HIDE DEF g
      <4>2. encode_field(kinds[1], values[1]) = a /\ encode_field(kinds[3], values[3]) = c
        BY <2>3 DEF encode_field
      <4>3. encode_field(kinds[2], values[2]) = y
        BY <2>3 DEF encode_field
      <4> QED
        BY <4>1, <4>2, <4>3
    <3>3. g = [i \in 1..3 |-> g[i]]
      OBVIOUS
    <3> HIDE DEF g, a, y, c
    <3>4. g \in Seq(Seq(Byte)) /\ Len(g) = 3
      <4>1. \A i \in 1..3 : g[i] \in Seq(Byte)
        BY <2>6, <2>7, <3>2
      <4> QED
        BY <3>3, <4>1
    <3>5. FlattenSeq(g) = g[1] \o (g[2] \o g[3])
      BY <3>4, FlattenFew, Zenon
    <3> QED
      BY <3>1, <3>2, <3>5, Zenon
  <2> HIDE DEF a, c, x, y
  <2> DEFINE h(p) == <<PROTOCOL_VERSION, tag>> \o (to_le_bytes(Len(p)) \o p)
             k == Len(a \o (x \o c))
             b == to_le_bytes(k)
             p == <<PROTOCOL_VERSION, tag>> \o (b \o a)
  <2>10. /\ a \o (x \o c) \in Seq(Byte) /\ a \o (y \o c) \in Seq(Byte)
         /\ Len(a \o (x \o c)) = Len(a \o (y \o c))
         /\ x \o c \in Seq(Byte) /\ y \o c \in Seq(Byte)
         /\ k \in 0..(Limit - 1)
    <3>1. x \o c \in Seq(Byte) /\ y \o c \in Seq(Byte)
      BY <2>6, <2>7, BytesClosed, Zenon
    <3>2. a \o (x \o c) \in Seq(Byte) /\ a \o (y \o c) \in Seq(Byte)
      BY <2>6, <3>1, BytesClosed, Zenon
    <3>3. Len(a \o (x \o c)) = Len(a \o (y \o c))
      <4>1. /\ Len(a \o (x \o c)) = Len(a) + Len(x \o c) /\ Len(x \o c) = Len(x) + Len(c)
            /\ Len(a \o (y \o c)) = Len(a) + Len(y \o c) /\ Len(y \o c) = Len(y) + Len(c)
        BY <2>6, <2>7, <3>1, BytesLength, Zenon
      <4> QED
        BY <2>5, <2>7, <4>1
    <3>4. k < Limit /\ k \in Nat /\ Limit \in Nat
      BY <1>1, <2>8, <3>2, WireAssumption DEF Limit
    <3> HIDE DEF k
    <3> QED
      BY <3>1, <3>2, <3>3, <3>4
  <2>11. frame = h(a \o (x \o c)) /\ bytes = h(a \o (y \o c))
    <3>1. Len(a \o (x \o c)) < Limit /\ Len(a \o (y \o c)) < Limit
      BY <1>1, <2>8, <2>10
    <3>2. encode_frame(tag, a \o (x \o c)) = h(a \o (x \o c))
      BY <1>2, <2>10, <3>1, FrameParts
    <3>3. encode_frame(tag, a \o (y \o c)) = h(a \o (y \o c))
      BY <1>2, <2>10, <3>1, FrameParts
    <3> HIDE DEF h
    <3> QED
      BY <1>1, <1>3, <2>8, <2>9, <3>2, <3>3
  <2>12. b \in Seq(Byte) /\ Len(b) = Width /\ <<PROTOCOL_VERSION, tag>> \in Seq(Byte) /\ Len(<<PROTOCOL_VERSION, tag>>) = 2
    <3>1. PROTOCOL_VERSION \in Byte
      BY WireAssumption DEF PROTOCOL_VERSION, Byte
    <3>2. b \in Seq(Byte) /\ Len(b) = Width
      <4> HIDE DEF k
      <4> QED
        BY <2>6, <2>10, LengthInFront
    <3> HIDE DEF b
    <3> QED
      BY <1>2, <3>1, <3>2
  <2>13. frame = p \o (x \o c) /\ bytes = p \o (y \o c) /\ p \in Seq(Byte) /\ Len(p) = Header + Len(a)
    <3> DEFINE v == <<PROTOCOL_VERSION, tag>>
    <3>1. frame = v \o (b \o (a \o (x \o c))) /\ bytes = v \o (b \o (a \o (y \o c)))
      BY <2>10, <2>11
    <3>2. v \in Seq(Byte) /\ b \in Seq(Byte) /\ Len(v) = 2 /\ Len(b) = Width
      BY <2>12
    <3> HIDE DEF v, b
    <3>3. ASSUME NEW q \in Seq(Byte)
          PROVE  v \o (b \o (a \o q)) = (v \o (b \o a)) \o q
      <4>0. a \in Seq(Byte) /\ b \in Seq(Byte) /\ q \in Seq(Byte)
        BY <2>6, <3>2, <3>3
      <4>1. (b \o a) \o q = b \o (a \o q)
        BY <4>0, BytesAssoc, Zenon
      <4>2. b \o a \in Seq(Byte)
        BY <2>6, <3>2, BytesClosed, Zenon
      <4>3. v \o ((b \o a) \o q) = (v \o (b \o a)) \o q
        <5>1. Regroups(v, b \o a, q)
          BY <4>0, <3>2, <4>2, BytesRegroup, Zenon
        <5> QED
          BY <5>1, Zenon DEF Regroups
      <4> QED
        BY <4>1, <4>3, Zenon
    <3>4. p = v \o (b \o a)
      BY DEF v
    <3> HIDE DEF p
    <3>5. frame = p \o (x \o c) /\ bytes = p \o (y \o c)
      <4>1. x \o c \in Seq(Byte) /\ y \o c \in Seq(Byte)
        BY <2>10
      <4>2. v \o (b \o (a \o (x \o c))) = (v \o (b \o a)) \o (x \o c)
        BY <3>3, <4>1, Zenon
      <4>3. v \o (b \o (a \o (y \o c))) = (v \o (b \o a)) \o (y \o c)
        BY <3>3, <4>1, Zenon
      <4> QED
        BY <3>1, <3>4, <4>2, <4>3, Zenon
    <3>6. /\ b \o a \in Seq(Byte) /\ Len(b \o a) = Len(b) + Len(a)
      BY <2>6, <3>2, BytesConcat, Zenon
    <3>7. p \in Seq(Byte) /\ Len(p) = Len(v) + Len(b \o a)
      BY <3>2, <3>4, <3>6, BytesConcat, Zenon
    <3>8. Len(p) = Header + Len(a)
      <4>1. Len(a) \in Nat
        BY <2>6
      <4> QED
        BY <3>2, <3>6, <3>7, <4>1 DEF Header, Width
    <3> QED
      BY <3>5, <3>7, <3>8
  <2> HIDE DEF p, b, k
  <2>14. /\ Len(frame) = Len(bytes)
         /\ \A i \in 1..Len(frame) :
              frame[i] = bytes[i] \/ (i = Len(p) + 1 /\ frame[i] = x[1] /\ bytes[i] = y[1])
    <3>0. /\ p \in Seq(Byte) /\ c \in Seq(Byte) /\ x \in Seq(Byte) /\ y \in Seq(Byte)
          /\ Len(x) = 1 /\ Len(y) = 1
      BY <2>5, <2>6, <2>7, <2>13
    <3>1. Apart(p \o (x \o c), p \o (y \o c), Len(p) + 1, x[1], y[1])
      BY <3>0, OneByteApart
    <3>2. Apart(frame, bytes, Len(p) + 1, x[1], y[1])
      BY <2>13, <3>1, Zenon
    <3> QED
      BY <3>2 DEF Apart
  <2>15. Len(p) + 1 = Header + Width + Len(values[1]) + 1
    <3>1. Len(values[1]) \in Nat
      BY <2>4, TextIsBytes
    <3> QED
      BY <2>6, <2>13, <3>1 DEF Header, Width
  <2>16. x[1] = y[1] \/ (x[1] # 0 /\ y[1] = 1)
    <3>1. CASE values[2]
      BY <2>5, <2>7, <3>1
    <3>2. CASE ~ values[2]
      BY <2>5, <2>7, <3>2
    <3> QED
      BY <2>4, <3>1, <3>2
  <2> QED
    BY <2>14, <2>15, <2>16
<1>6. DOMAIN frame = 1..Len(frame)
  OBVIOUS
<1>7. (\A i \in 1..Len(kinds) : kinds[i] # "bool") \/ (fields = ResponseFields /\ tag = STATUS_READY)
  BY KindsOfTag DEF Tables
<1> HIDE DEF kinds
<1>8. /\ Len(bytes) = Len(frame)
      /\ \A i \in DOMAIN frame :
           \/ bytes[i] = frame[i]
           \/ /\ fields = ResponseFields /\ msg.tag = STATUS_READY
              /\ i = Header + Width + Len(msg.fields[1]) + 1
              /\ frame[i] # 0 /\ bytes[i] = 1
  <2>1. CASE \A i \in 1..Len(kinds) : kinds[i] # "bool"
    BY <1>4, <2>1
  <2>2. CASE fields = ResponseFields /\ tag = STATUS_READY
    BY <1>3, <1>5, <1>6, <2>2
  <2> QED
    BY <1>7, <2>1, <2>2
<1> QED
  BY <1>8 DEF msg, bytes

\* A part that begins further on is a part of what is there.
LEMMA SubSeqOfFrom ==
  ASSUME NEW in \in Seq(Byte), NEW k \in Nat, NEW n \in Nat, k + n <= Len(in)
  PROVE  SubSeq(in, k + 1, k + n) = SubSeq(From(in, k), 1, n)
<1> DEFINE t == From(in, k)
           a == SubSeq(in, k + 1, k + n)
           b == SubSeq(t, 1, n)
<1>0. Len(in) \in Nat /\ k \in 0..Len(in)
  OBVIOUS
<1>1. t \in Seq(Byte) /\ Len(t) = Len(in) - k /\ \A i \in 1..(Len(in) - k) : t[i] = in[k + i]
  <2>1. t = Above(in, k)
    BY DEF From, Above
  <2> HIDE DEF t
  <2> QED
    BY <1>0, <2>1, AboveElements
<1>2. a \in Seq(Byte) /\ Len(a) = n /\ \A i \in 1..n : a[i] = in[k + i]
  <2>1. \A i \in (k + 1)..(k + n) : in[i] \in Byte
    BY <1>0
  <2>2. /\ a \in Seq(Byte)
        /\ Len(a) = IF k + 1 <= k + n THEN (k + n) - (k + 1) + 1 ELSE 0
        /\ \A i \in 1..((k + n) - (k + 1) + 1) : a[i] = in[(k + 1) + i - 1]
    BY <2>1, SubSeqProperties
  <2> HIDE DEF a
  <2>3. Len(a) = n
    BY <2>2
  <2>4. ASSUME NEW i \in 1..n PROVE a[i] = in[k + i]
    <3>1. i \in 1..((k + n) - (k + 1) + 1) /\ (k + 1) + i - 1 = k + i
      OBVIOUS
    <3> QED
      BY <2>2, <3>1
  <2> QED
    BY <2>2, <2>3, <2>4
<1> HIDE DEF t
<1>3. b \in Seq(Byte) /\ Len(b) = n /\ \A i \in 1..n : b[i] = t[i]
  <2>1. \A i \in 1..n : t[i] \in Byte
    BY <1>0, <1>1
  <2>2. /\ b \in Seq(Byte)
        /\ Len(b) = IF 1 <= n THEN n - 1 + 1 ELSE 0
        /\ \A i \in 1..(n - 1 + 1) : b[i] = t[1 + i - 1]
    BY <2>1, SubSeqProperties
  <2> HIDE DEF b
  <2>3. Len(b) = n
    BY <2>2
  <2>4. ASSUME NEW i \in 1..n PROVE b[i] = t[i]
    <3>1. i \in 1..(n - 1 + 1) /\ 1 + i - 1 = i
      OBVIOUS
    <3> QED
      BY <2>2, <3>1
  <2> QED
    BY <2>2, <2>3, <2>4
<1> HIDE DEF a, b
<1>4. \A i \in 1..Len(a) : a[i] = b[i]
  <2> SUFFICES ASSUME NEW i \in 1..n PROVE a[i] = b[i]
    BY <1>2
  <2>1. i \in 1..(Len(in) - k)
    BY <1>0
  <2> QED
    BY <1>1, <1>2, <1>3, <2>1
<1>5. a = b
  BY <1>2, <1>3, <1>4, SeqEqual
<1> QED
  BY <1>5 DEF a, b, t

\* The hook takes the path of a Ready from its body, if it has room.
LEMMA HookReadsPath ==
  ASSUME NEW msg, WellFormed(ResponseFields, msg), msg.tag = STATUS_READY
  PROVE  /\ msg.fields[1] \in Texts
         /\ wire_read_str(From(Encode(ResponseFields, msg), Header)) \in {msg.fields[1], Failure}
         /\ Len(Encode(ResponseFields, msg)) > Header
<1> DEFINE kinds == ResponseFields[msg.tag]
           values == msg.fields
           payload == encode_fields(kinds, values)
<1>1. /\ msg.tag \in Byte
      /\ kinds \in Seq(Kinds) /\ values \in ValuesOf(kinds) /\ Len(payload) < Limit
  BY WellFormedParts DEF Tables
<1>2. kinds = <<"string", "bool", "string">>
  BY FieldTables
<1>3. Encode(ResponseFields, msg) = encode_frame(msg.tag, payload)
  BY DEF Encode
<1> HIDE DEF kinds, values
<1>4. Len(kinds) = 3 /\ kinds[1] = "string"
  BY <1>2
<1>5. values[1] \in Texts
  BY <1>1, <1>4 DEF ValuesOf, FieldValues
<1> DEFINE e == [i \in DOMAIN kinds |-> encode_field(kinds[i], values[i])]
           s == values[1]
           b == to_le_bytes(Len(s))
           r == e[2] \o e[3]
<1>6. /\ e \in Seq(Seq(Byte)) /\ Len(e) = 3
      /\ e[1] = encode_field(kinds[1], values[1])
      /\ payload \in Seq(Byte) /\ payload = FlattenSeq(e)
  <2>1. /\ e \in Seq(Seq(Byte)) /\ Len(e) = Len(kinds)
        /\ \A i \in 1..Len(kinds) : e[i] = encode_field(kinds[i], values[i])
        /\ FlattenSeq(e) \in Seq(Byte) /\ payload = FlattenSeq(e)
    BY <1>1, FieldsEncoded, Zenon
  <2> HIDE DEF e
  <2> QED
    BY <1>4, <2>1
<1> HIDE DEF e, payload
<1>7. e[1] = b \o s
  BY <1>4, <1>6 DEF encode_field, encode_string
<1>8. payload = e[1] \o r
  BY <1>6, FlattenFew, Zenon
<1>9. r \in Seq(Byte)
  <2>1. e[2] \in Seq(Byte) /\ e[3] \in Seq(Byte)
    <3>1. e \in Seq(Seq(Byte)) /\ 2 \in 1..Len(e) /\ 3 \in 1..Len(e)
      BY <1>6
    <3> QED
      BY <3>1, ElementOfSeq, Zenon
  <2> QED
    BY <2>1, BytesConcat, Zenon
<1>10. s \in Seq(Byte) /\ Len(s) \in 0..(Limit - 1) /\ Len(s) \in Nat
  BY <1>5, TextIsBytes
<1>11. b \in Seq(Byte)
  BY <1>10, LengthInFront
<1> HIDE DEF s, r, b
<1>12. payload = b \o (s \o r) /\ s \o r \in Seq(Byte) /\ Len(s \o r) = Len(s) + Len(r) /\ SubSeq(s \o r, 1, Len(s)) = s
  <2>1. (b \o s) \o r = b \o (s \o r)
    BY <1>9, <1>10, <1>11, BytesAssoc, Zenon
  <2>2. s \o r \in Seq(Byte) /\ Len(s \o r) = Len(s) + Len(r) /\ SubSeq(s \o r, 1, Len(s)) = s
    BY <1>9, <1>10, BytesConcat, Zenon
  <2> QED
    BY <1>7, <1>8, <2>1, <2>2, Zenon
<1>13. from_le_bytes(payload) = Len(s) /\ From(payload, Width) = s \o r /\ Len(payload) = Width + Len(s \o r)
  <2>1. /\ from_le_bytes(b \o (s \o r)) = Len(s) /\ From(b \o (s \o r), Width) = s \o r
        /\ Len(b \o (s \o r)) = Width + Len(s \o r)
    BY <1>10, <1>12, LengthInFront, Zenon DEF b
  <2> QED
    BY <1>12, <2>1, Zenon
<1>14. wire_read_str(payload) \in {s, Failure}
  <2> SUFFICES ASSUME wire_read_str(payload) # Failure PROVE wire_read_str(payload) = s
    OBVIOUS
  <2>1. wire_read_str(payload) = SubSeq(payload, Width + 1, Width + Len(s))
    BY <1>13 DEF wire_read_str
  <2>2. Width \in Nat /\ Len(s) \in Nat /\ Width + Len(s) <= Len(payload)
    <3>1. Len(r) \in Nat /\ Len(s) \in Nat /\ Width = 2
      BY <1>9, <1>10 DEF Width
    <3> QED
      BY <1>12, <1>13, <3>1
  <2>3. SubSeq(payload, Width + 1, Width + Len(s)) = SubSeq(From(payload, Width), 1, Len(s))
    BY <1>6, <2>2, SubSeqOfFrom
  <2> QED
    BY <1>12, <1>13, <2>1, <2>3
<1>15. /\ From(Encode(ResponseFields, msg), Header) = payload
       /\ Len(Encode(ResponseFields, msg)) = Header + Len(payload)
  <2>1. Len(payload) < Limit
    BY <1>1
  <2>2. /\ From(encode_frame(msg.tag, payload), Header) = payload
        /\ Len(encode_frame(msg.tag, payload)) = Header + Len(payload)
    BY <1>1, <1>6, <2>1, FrameParts
  <2> QED
    BY <1>3, <2>2, Zenon
<1>16. Len(Encode(ResponseFields, msg)) > Header
  <2>1. Len(s \o r) \in Nat
    BY <1>12
  <2> QED
    BY <1>13, <1>15, <2>1 DEF Header, Width
<1> QED
  BY <1>5, <1>14, <1>15, <1>16 DEF s, values

\* The bytes the hook writes are those of encode_request, when they fit.
LEMMA HookWrites ==
  ASSUME NEW msg, WellFormed(RequestFields, msg), msg.tag = OP_OBTAIN
  PROVE  HookRequest(msg) \in {Encode(RequestFields, msg), Failure}
<1> DEFINE kinds == RequestFields[msg.tag]
           values == msg.fields
           payload == encode_fields(kinds, values)
           s == values[1]
           t == values[2]
           b == to_le_bytes(Len(s))
           c == to_le_bytes(Len(t))
<1>1. /\ msg.tag \in Byte
      /\ kinds \in Seq(Kinds) /\ values \in ValuesOf(kinds)
  BY WellFormedParts DEF Tables
<1>2. kinds = <<"string", "string">>
  BY FieldTables
<1>3. Encode(RequestFields, msg) = <<2, 2>> \o to_le_bytes(Len(payload)) \o payload
  BY DEF Encode, encode_frame, PROTOCOL_VERSION, OP_OBTAIN
<1> DEFINE p == wire_write_str(<<>>, PayloadCap, s)
           q == wire_write_str(p, PayloadCap, t)
<1>4. HookRequest(msg) = IF q = Failure THEN Failure ELSE <<2, 2>> \o to_le_bytes(Len(q)) \o q
  BY DEF HookRequest
<1> HIDE DEF kinds, values, payload
<1>5. Len(kinds) = 2 /\ kinds[1] = "string" /\ kinds[2] = "string"
  BY <1>2
<1>6. s \in Texts /\ t \in Texts
  BY <1>1, <1>5 DEF ValuesOf, FieldValues
<1>7. s \in Seq(Byte) /\ t \in Seq(Byte) /\ b \in Seq(Byte) /\ c \in Seq(Byte)
  <2>1. /\ s \in Seq(Byte) /\ Len(s) \in 0..(Limit - 1)
        /\ t \in Seq(Byte) /\ Len(t) \in 0..(Limit - 1)
    BY <1>6, TextIsBytes
  <2> HIDE DEF s, t
  <2> QED
    BY <2>1, LengthInFront
<1>8. payload = (b \o s) \o (c \o t)
  <2> DEFINE e == [i \in DOMAIN kinds |-> encode_field(kinds[i], values[i])]
  <2>1. /\ e \in Seq(Seq(Byte)) /\ Len(e) = Len(kinds)
        /\ \A i \in 1..Len(kinds) : e[i] = encode_field(kinds[i], values[i])
        /\ FlattenSeq(e) \in Seq(Byte) /\ payload = FlattenSeq(e)
    BY <1>1, FieldsEncoded, Zenon DEF payload
  <2> HIDE DEF e
  <2>2. e \in Seq(Seq(Byte)) /\ Len(e) = 2
    BY <1>5, <2>1
  <2>3. e[1] = encode_field("string", s) /\ e[2] = encode_field("string", t)
    BY <1>5, <2>1
  <2>4. e[1] = b \o s /\ e[2] = c \o t
    BY <2>3 DEF encode_field, encode_string
  <2>5. FlattenSeq(e) = e[1] \o e[2]
    BY <2>2, FlattenFew, Zenon
  <2> QED
    BY <2>1, <2>4, <2>5, Zenon
<1> HIDE DEF s, t, b, c
<1>9. ASSUME p # Failure, q # Failure
      PROVE  q = payload
  <2>1. p = (<<>> \o b) \o s
    BY <1>9 DEF wire_write_str, b
  <2>2. q = (p \o c) \o t
    <3> HIDE DEF p
    <3> QED
      BY <1>9 DEF wire_write_str, c
  <2>3. <<>> \o b = b
    BY <1>7, ConcatEmptySeq
  <2>4. b \o s \in Seq(Byte) /\ ((b \o s) \o c) \o t = (b \o s) \o (c \o t)
    <3>1. b \o s \in Seq(Byte)
      BY <1>7, BytesClosed, Zenon
    <3> QED
      <4>1. Regroups(b \o s, c, t)
        BY <1>7, <3>1, BytesRegroup, Zenon
      <4> QED
        BY <3>1, <4>1, Zenon DEF Regroups
  <2> HIDE DEF p, q
  <2> QED
    BY <1>8, <2>1, <2>2, <2>3, <2>4, Zenon
<1>10. p = Failure => q = Failure
  <2> HIDE DEF p
  <2> QED
    BY DEF wire_write_str
<1> HIDE DEF p, q
<1> QED
  BY <1>3, <1>4, <1>9, <1>10

\* The bytes of a message, as its writer makes them, are decoded to it.
LEMMA BytesOfMessage ==
  ASSUME NEW m \in Messages
  PROVE  /\ Fields(m) \in Tables
         /\ m.writer # "none" /\ m.reader \in {"daemon", "client", "hook"}
         /\ m.message \notin {Failure, Pending}
         /\ Bytes(m) # Failure =>
              /\ Bytes(m) \in Seq(Byte)
              /\ Len(Bytes(m)) >= Header
              /\ FrameLen(Bytes(m)) = Len(Bytes(m))
              /\ Decode(Fields(m), Bytes(m)) = m.message
         /\ m.reader = "hook" =>
              /\ WellFormed(ResponseFields, m.message)
              /\ Bytes(m) = Encode(ResponseFields, m.message)
              /\ Bytes(m) # Failure
<1>1. /\ <<m.writer, m.reader>> \in {"client", "hook"} \X {"daemon"} \cup {"daemon"} \X {"client", "hook"}
      /\ WellFormed(Fields(m), m.message)
      /\ m.writer = "hook" => m.message.tag = OP_OBTAIN
  BY MessageAssumption
<1>2. Fields(m) \in Tables
  BY DEF Fields, Tables
<1>3. m.message \notin {Failure, Pending}
  BY <1>1, <1>2, WellFormedParts
<1>4. \/ m.writer \in {"client", "hook"} /\ m.reader = "daemon"
      \/ m.writer = "daemon" /\ m.reader \in {"client", "hook"}
  BY <1>1
<1> DEFINE enc == Encode(Fields(m), m.message)
<1>5. /\ enc \in Seq(Byte)
      /\ Len(enc) >= Header
      /\ FrameLen(enc) = Len(enc)
      /\ Decode(Fields(m), enc) = m.message
  BY <1>1, <1>2, MessageRoundTrip
<1>6. Bytes(m) \in {enc, Failure} /\ (m.writer # "hook" => Bytes(m) = enc)
  <2>1. CASE m.writer = "hook"
    <3>1. Fields(m) = RequestFields /\ m.message.tag = OP_OBTAIN
      BY <1>1, <1>4, <2>1 DEF Fields
    <3>2. HookRequest(m.message) \in {enc, Failure}
      BY <1>1, <3>1, HookWrites
    <3> HIDE DEF enc
    <3> QED
      BY <2>1, <3>2 DEF Bytes
  <2>2. CASE m.writer # "hook"
    BY <2>2 DEF Bytes
  <2> QED
    BY <2>1, <2>2
<1>7. enc # Failure
  <2> HIDE DEF enc
  <2> QED
    BY <1>5, WireAssumption DEF Returned
<1> HIDE DEF enc
<1>8. ASSUME m.reader = "hook"
      PROVE  /\ WellFormed(ResponseFields, m.message)
             /\ Bytes(m) = Encode(ResponseFields, m.message)
             /\ Bytes(m) # Failure
  <2>1. Fields(m) = ResponseFields /\ m.writer # "hook"
    BY <1>4, <1>8 DEF Fields
  <2> QED
    BY <1>1, <1>6, <1>7, <2>1 DEF enc
<1>9. Bytes(m) # Failure => Bytes(m) = enc
  BY <1>6
<1>10. m.writer # "none" /\ m.reader \in {"daemon", "client", "hook"}
  BY <1>4
<1> QED
  BY <1>2, <1>3, <1>5, <1>8, <1>9, <1>10

\* The tag of a message is the second byte of its frame.
LEMMA TagOfMessage ==
  ASSUME NEW fields \in Tables, NEW msg, WellFormed(fields, msg)
  PROVE  Encode(fields, msg)[2] = msg.tag
<1> DEFINE payload == encode_fields(fields[msg.tag], msg.fields)
<1>1. /\ msg.tag \in Byte
      /\ fields[msg.tag] \in Seq(Kinds) /\ msg.fields \in ValuesOf(fields[msg.tag])
      /\ Len(payload) < Limit
  BY WellFormedParts
<1>2. payload \in Seq(Byte)
  BY <1>1, FieldsRoundTrip
<1>3. Encode(fields, msg) = encode_frame(msg.tag, payload)
  BY DEF Encode
<1> HIDE DEF payload
<1>4. encode_frame(msg.tag, payload)[2] = msg.tag
  BY <1>1, <1>2, FrameParts
<1> QED
  BY <1>3, <1>4

-----------------------------------------------------------------------------
(***************************************************************************)
(* The stream.  What the reader has, what is under way and what is not yet *)
(* written are together the bytes of the message; and as long as the       *)
(* reader has not returned, its frame is not whole.                        *)
(***************************************************************************)
WireTypeOK ==
  /\ closed \in BOOLEAN
  /\ buf \in Seq(Byte) /\ stream \in Seq(Byte)
  /\ unsent \in Seq(Byte) \cup {Failure}
  /\ \/ message \in Messages
     \/ message.writer = "none" /\ message.reader \in {"daemon", "client"}

\* Nothing of a message is lost.
NothingLost ==
  message \in Messages =>
    IF Bytes(message) = Failure THEN unsent = Failure /\ stream = <<>> /\ buf = <<>>
    ELSE unsent # Failure /\ buf \o (stream \o unsent) = Bytes(message)

\* A reader that has not returned waits for more.
ReaderWaits ==
  received = Pending =>
    IF message.reader = "hook" THEN buf = <<>> \/ (Len(buf) = Header /\ HookTakes(buf))
    ELSE Len(buf) < Header \/ Len(buf) < FrameLen(buf)

\* A Rust reader returns what its bytes decode to.
DecodesItsBytes ==
  message.reader # "hook" /\ received \notin {Pending, Failure} =>
    received = Decode(Fields(message), buf)

\* It returns the message or an error, and an error only when the writer has
\* closed before it had written its message.
ReturnsContent ==
  message \in Messages =>
    /\ received \in {Pending, Failure, Content}
    /\ message.reader # "hook" /\ received = Failure /\ unsent # Failure => closed /\ unsent # <<>>

WireInv ==
  WireTypeOK /\ NothingLost /\ ReaderWaits /\ DecodesItsBytes /\ ReturnsContent

\* Taking bytes from the stream loses none.
LEMMA TakeParts ==
  ASSUME WireTypeOK, NEW n \in 0..Len(stream), Take(n)
  PROVE  /\ buf' \in Seq(Byte) /\ stream' \in Seq(Byte)
         /\ Len(buf') = Len(buf) + n /\ Len(stream') = Len(stream) - n
         /\ SubSeq(stream, 1, n) \in Seq(Byte)
         /\ buf' = buf \o SubSeq(stream, 1, n)
         /\ \A u \in Seq(Byte) : buf' \o (stream' \o u) = buf \o (stream \o u)
<1> DEFINE p == SubSeq(stream, 1, n)
           s == From(stream, n)
<1>1. buf' = buf \o p /\ stream' = s /\ buf \in Seq(Byte) /\ stream \in Seq(Byte)
  BY DEF Take, WireTypeOK
<1>2. /\ p \in Seq(Byte) /\ Len(p) = n
      /\ s \in Seq(Byte) /\ Len(s) = Len(stream) - n
      /\ p \o s = stream
  BY <1>1, SplitAt DEF From
<1> HIDE DEF p, s
<1>3. buf \o p \in Seq(Byte) /\ Len(buf \o p) = Len(buf) + Len(p)
  BY <1>1, <1>2, BytesConcat, Zenon
<1>4. ASSUME NEW u \in Seq(Byte)
      PROVE  buf' \o (stream' \o u) = buf \o (stream \o u)
  <2>0. u \in Seq(Byte) /\ s \o u \in Seq(Byte)
    BY <1>2, <1>4, BytesClosed, Zenon
  <2>1. (buf \o p) \o (s \o u) = buf \o (p \o (s \o u))
    <3>1. \A a, b, c \in Seq(Byte) : (a \o b) \o c = a \o (b \o c)
      BY BytesAssoc, Zenon
    <3>2. buf \in Seq(Byte) /\ p \in Seq(Byte)
      BY <1>1, <1>2, Zenon
    <3> QED
      BY <2>0, <3>1, <3>2, Zenon
  <2>2. (p \o s) \o u = p \o (s \o u)
    <3>1. Regroups(p, s, u)
      BY <1>2, <2>0, BytesRegroup, Zenon
    <3> QED
      BY <3>1, Zenon DEF Regroups
  <2> QED
    BY <1>1, <1>2, <2>1, <2>2, Zenon
<1> QED
  BY <1>1, <1>2, <1>3, <1>4 DEF p

\* What a reader has of a message: its header says how long the message is, and
\* when it has as many bytes, they are the message.
LEMMA PartOfMessage ==
  ASSUME NEW b \in Seq(Byte), NEW t \in Seq(Byte), NEW whole,
         b \o t = whole, Len(whole) >= Header, FrameLen(whole) = Len(whole)
  PROVE  /\ Len(b) >= Header =>
              /\ FrameLen(b) = Len(whole) /\ Len(b) <= Len(whole)
              /\ \A i \in 1..Header : b[i] = whole[i]
         /\ Len(b) = Len(whole) => b = whole
         /\ t = <<>> => b = whole
<1>1. whole \in Seq(Byte) /\ Len(whole) = Len(b) + Len(t) /\ Len(b) \in Nat /\ Len(t) \in Nat
  <2>1. b \o t \in Seq(Byte) /\ Len(b \o t) = Len(b) + Len(t)
    BY BytesConcat, Zenon
  <2>2. Len(b) \in Nat /\ Len(t) \in Nat
    OBVIOUS
  <2> QED
    BY <2>1, <2>2, Zenon
<1>2. ASSUME Len(b) >= Header
      PROVE  /\ FrameLen(b) = Len(whole)
             /\ \A i \in 1..Header : b[i] = whole[i]
  <2>1. FrameLen(b \o t) = FrameLen(b) /\ \A i \in 1..Header : (b \o t)[i] = b[i]
    BY <1>2, FrameLenInHeader
  <2> QED
    BY <2>1
<1>3. ASSUME t = <<>> PROVE b = whole
  BY <1>3, ConcatEmptySeq
<1>4. ASSUME Len(b) = Len(whole) PROVE b = whole
  <2>1. t = <<>>
    BY <1>1, <1>4, EmptySeq
  <2> QED
    BY <1>3, <2>1
<1> QED
  BY <1>1, <1>2, <1>3, <1>4

\* What decodes is a message and no mark.
LEMMA DecodedIsNotPending ==
  ASSUME NEW fields \in Tables, NEW frame \in Seq(Byte)
  PROVE  Decode(fields, frame) # Pending
<1>1. CASE Decode(fields, frame) = Failure
  BY <1>1, WireAssumption
<1>2. CASE Decode(fields, frame) # Failure
  <2>1. PICK tag \in DOMAIN fields :
          \E values \in ValuesOf(fields[tag]) : Decode(fields, frame) = [tag |-> tag, fields |-> values]
    <3>1. \E tag \in DOMAIN fields : \E values \in ValuesOf(fields[tag]), e \in Seq(Seq(Byte)) :
            /\ Decode(fields, frame) = [tag |-> tag, fields |-> values]
            /\ Parts(fields[tag], values, e)
            /\ Len(FlattenSeq(e)) < Limit
            /\ frame = encode_frame(tag, FlattenSeq(e))
      BY <1>2, DecodeOnly
    <3> QED
      BY <3>1, Zenon
  <2>2. PICK values \in ValuesOf(fields[tag]) : Decode(fields, frame) = [tag |-> tag, fields |-> values]
    BY <2>1
  <2>3. tag \in Byte /\ values \in Seq(FieldValue)
    BY <2>2, KindsOfTag DEF Tables, ValuesOf
  <2>4. [tag |-> tag, fields |-> values] \in Returned
    BY <2>3 DEF Returned
  <2> QED
    BY <2>2, <2>4, WireAssumption
<1> QED
  BY <1>1, <1>2

\* The table of the state's message.
LEMMA FieldsOfMessage ==
  Fields(message) \in Tables
  BY DEF Fields, Tables

\* The invariant holds before a byte is written.
LEMMA WireInitially == WireInit => WireInv
<1> SUFFICES ASSUME WireInit PROVE WireInv
  OBVIOUS
<1>1. closed = FALSE /\ buf = <<>> /\ received = Pending /\ <<>> \in Seq(Byte) /\ Len(<<>>) = 0
  BY EmptySeq DEF WireInit
<1>2. Pending # Failure /\ Len(buf) < Header
  BY <1>1, WireAssumption DEF Header, Width
<1>3. CASE message \in Messages /\ unsent = Bytes(message) /\ stream = <<>>
  <2>1. Bytes(message) # Failure => Bytes(message) \in Seq(Byte)
    BY <1>3, BytesOfMessage
  <2>2. Bytes(message) # Failure => buf \o (stream \o unsent) = Bytes(message)
    BY <1>1, <1>3, <2>1, ConcatEmptySeq
  <2>3. WireTypeOK /\ NothingLost
    BY <1>1, <1>3, <2>1, <2>2 DEF WireTypeOK, NothingLost
  <2> QED
    BY <1>1, <1>2, <2>3 DEF WireInv, ReaderWaits, DecodesItsBytes, ReturnsContent
<1>4. ASSUME NEW reader \in {"daemon", "client"},
             message = [writer |-> "none", reader |-> reader, message |-> Failure],
             unsent = <<>>, stream \in Frames
      PROVE  WireInv
  <2>1. message.writer = "none" /\ message.reader \in {"daemon", "client"}
    BY <1>4
  <2>2. message \notin Messages
    BY <2>1, BytesOfMessage
  <2>3. stream \in Seq(Byte)
    BY <1>4, WireAssumption
  <2>4. WireTypeOK
    BY <1>1, <1>4, <2>1, <2>3 DEF WireTypeOK
  <2> QED
    BY <1>1, <1>2, <2>2, <2>4
       DEF WireInv, NothingLost, ReaderWaits, DecodesItsBytes, ReturnsContent
<1> QED
  BY <1>3, <1>4 DEF WireInit

\* The writer moves bytes from what it has to write into the stream.
LEMMA WriteBytesKeeps ==
  ASSUME WireInv, WriteBytes
  PROVE  WireInv'
<1>1. /\ ~closed /\ unsent \notin {Failure, <<>>} /\ closed' = closed
      /\ message' = message /\ buf' = buf /\ received' = received
  BY DEF WriteBytes
<1>2. PICK n \in 1..Len(unsent) : stream' = stream \o SubSeq(unsent, 1, n) /\ unsent' = From(unsent, n)
  BY DEF WriteBytes
<1> DEFINE p == SubSeq(unsent, 1, n)
           u == From(unsent, n)
<1>3. unsent \in Seq(Byte) /\ stream \in Seq(Byte) /\ buf \in Seq(Byte)
  BY <1>1 DEF WireInv, WireTypeOK
<1>4. p \in Seq(Byte) /\ u \in Seq(Byte) /\ p \o u = unsent
  <2>1. n \in 0..Len(unsent)
    BY <1>3
  <2> QED
    BY <1>3, <2>1, SplitAt DEF From
<1>5. stream' = stream \o p /\ unsent' = u
  BY <1>2
<1> HIDE DEF p, u
<1>6. stream \o p \in Seq(Byte) /\ stream' \o unsent' = stream \o unsent
  <2>1. (stream \o p) \o u = stream \o (p \o u)
    <3>1. Regroups(stream, p, u)
      BY <1>3, <1>4, BytesRegroup, Zenon
    <3> QED
      BY <3>1, Zenon DEF Regroups
  <2>2. stream \o p \in Seq(Byte)
    BY <1>3, <1>4, BytesClosed, Zenon
  <2> QED
    BY <1>4, <1>5, <2>1, <2>2, Zenon
<1>7. u # Failure
  BY <1>4, WireAssumption DEF Returned
<1>8. WireTypeOK'
  BY <1>1, <1>4, <1>5, <1>6 DEF WireInv, WireTypeOK
<1>9. NothingLost'
  <2>1. message \in Messages => Bytes(message) # Failure /\ buf \o (stream \o unsent) = Bytes(message)
    BY <1>1 DEF WireInv, NothingLost
  <2>2. Bytes(message)' = Bytes(message)
    BY <1>1 DEF Bytes, Fields
  <2> QED
    BY <1>1, <1>5, <1>6, <1>7, <2>1 DEF NothingLost
<1>10. ReaderWaits' /\ DecodesItsBytes'
  BY <1>1 DEF WireInv, ReaderWaits, DecodesItsBytes, Fields
<1>11. ReturnsContent'
  <2>1. Content' = Content
    BY <1>1 DEF Content
  <2> QED
    BY <1>1, <2>1 DEF WireInv, ReturnsContent
<1> QED
  BY <1>8, <1>9, <1>10, <1>11 DEF WireInv

\* Closing leaves the bytes as they are.
LEMMA CloseWriterKeeps ==
  ASSUME WireInv, CloseWriter
  PROVE  WireInv'
<1>1. closed' = TRUE /\ UNCHANGED <<message, unsent, stream, buf, received>>
  BY DEF CloseWriter
<1>2. WireTypeOK' /\ NothingLost'
  BY <1>1 DEF WireInv, WireTypeOK, NothingLost
<1>3. ReaderWaits' /\ DecodesItsBytes'
  BY <1>1 DEF WireInv, ReaderWaits, DecodesItsBytes
<1>4. ReturnsContent'
  <2>1. Content' = Content
    BY <1>1 DEF Content
  <2> QED
    BY <1>1, <2>1 DEF WireInv, ReturnsContent
<1> QED
  BY <1>2, <1>3, <1>4 DEF WireInv

\* A Rust reader returns the message when it has all of it, or an error when it
\* will never have it.
LEMMA ReadExactKeeps ==
  ASSUME WireInv, ReadExact
  PROVE  WireInv'
<1>0. /\ Header = 4 /\ Pending # Failure
      /\ buf \in Seq(Byte) /\ stream \in Seq(Byte) /\ closed \in BOOLEAN
      /\ Len(buf) \in Nat /\ Len(stream) \in Nat
  BY WireAssumption DEF WireInv, WireTypeOK, Header, Width
<1>1. /\ received = Pending /\ message.reader # "hook"
      /\ message' = message /\ unsent' = unsent /\ closed' = closed
      /\ Content' = Content
  BY DEF ReadExact, Content
<1>2. Len(buf) < Header \/ Len(buf) < FrameLen(buf)
  BY <1>1 DEF WireInv, ReaderWaits
<1>3. CASE stream = <<>> /\ closed /\ received' = Failure /\ UNCHANGED <<buf, stream>>
  <2>1. WireTypeOK' /\ NothingLost'
    BY <1>1, <1>3 DEF WireInv, WireTypeOK, NothingLost
  <2>2. ReaderWaits' /\ DecodesItsBytes'
    BY <1>0, <1>1, <1>3 DEF ReaderWaits, DecodesItsBytes
  <2>3. ASSUME message \in Messages, unsent # Failure PROVE unsent # <<>>
    <3> SUFFICES ASSUME unsent = <<>> PROVE FALSE
      OBVIOUS
    <3>1. Bytes(message) # Failure /\ buf \o (stream \o unsent) = Bytes(message)
      BY <2>3 DEF WireInv, NothingLost
    <3>2. <<>> \in Seq(Byte) /\ <<>> \o <<>> = <<>>
      BY EmptySeq, ConcatEmptySeq
    <3>3. buf = Bytes(message)
      BY <1>0, <1>3, <3>1, <3>2, ConcatEmptySeq
    <3>4. Len(buf) >= Header /\ FrameLen(buf) = Len(buf)
      BY <2>3, <3>1, <3>3, BytesOfMessage
    <3> QED
      BY <1>0, <1>2, <3>4
  <2>4. ReturnsContent'
    BY <1>1, <1>3, <2>3 DEF ReturnsContent
  <2> QED
    BY <2>1, <2>2, <2>4 DEF WireInv
<1>4. ASSUME stream # <<>>,
             Take(IF Len(stream) < Wanted THEN Len(stream) ELSE Wanted),
             received' = IF Len(buf') >= Header /\ Len(buf') = FrameLen(buf')
                         THEN Decode(Fields(message), buf') ELSE Pending
      PROVE  WireInv'
  <2> DEFINE n == IF Len(stream) < Wanted THEN Len(stream) ELSE Wanted
  <2>1. Len(buf) >= Header => FrameLen(buf) \in Nat
    <3> SUFFICES ASSUME Len(buf) >= Header PROVE FrameLen(buf) \in Nat
      OBVIOUS
    <3>1. FrameLen(buf) \in Header..(Header + Limit - 1)
      BY <1>0, FrameLenBytes
    <3> QED
      BY <1>0, <3>1
  <2>2. Wanted \in Nat /\ n \in 0..Len(stream) /\ n <= Wanted
    BY <1>0, <1>2, <2>1 DEF Wanted
  <2>2a. Take(n)
    BY <1>4
  <2> HIDE DEF n
  <2>3. /\ buf' \in Seq(Byte) /\ stream' \in Seq(Byte)
        /\ Len(buf') = Len(buf) + n
        /\ SubSeq(stream, 1, n) \in Seq(Byte)
        /\ buf' = buf \o SubSeq(stream, 1, n)
        /\ \A u \in Seq(Byte) : buf' \o (stream' \o u) = buf \o (stream \o u)
    BY <2>2, <2>2a, TakeParts DEF WireInv
  <2>4. Len(buf') \in Nat
    BY <2>3
  <2>5. Len(buf') >= Header => Len(buf') <= FrameLen(buf') /\ FrameLen(buf') \in Nat
    <3> SUFFICES ASSUME Len(buf') >= Header PROVE Len(buf') <= FrameLen(buf') /\ FrameLen(buf') \in Nat
      OBVIOUS
    <3>1. FrameLen(buf') \in Header..(Header + Limit - 1)
      BY <2>3, FrameLenBytes
    <3>2. FrameLen(buf') \in Nat /\ FrameLen(buf') >= Header
      BY <1>0, <3>1
    <3>3. CASE Len(buf) < Header
      <4>1. Wanted = Header - Len(buf)
        BY <3>3 DEF Wanted
      <4> QED
        BY <1>0, <2>2, <2>3, <3>2, <4>1
    <3>4. CASE ~ (Len(buf) < Header)
      <4>1. Wanted = FrameLen(buf) - Len(buf) /\ Len(buf) >= Header
        BY <1>0, <3>4 DEF Wanted
      <4>2. FrameLen(buf \o SubSeq(stream, 1, n)) = FrameLen(buf)
        BY <1>0, <2>3, <4>1, FrameLenInHeader
      <4>3. FrameLen(buf') = FrameLen(buf)
        BY <2>3, <4>2
      <4> QED
        BY <1>0, <2>1, <2>2, <2>3, <3>2, <4>1, <4>3
    <3> QED
      BY <3>3, <3>4
  <2>6. WireTypeOK'
    BY <1>0, <1>1, <2>3 DEF WireInv, WireTypeOK
  <2>7. NothingLost'
    <3>1. Bytes(message)' = Bytes(message)
      BY <1>1 DEF Bytes, Fields
    <3>2. CASE message \notin Messages
      BY <1>1, <3>2 DEF NothingLost
    <3>3. CASE message \in Messages /\ Bytes(message) = Failure
      BY <1>4, <3>3 DEF WireInv, NothingLost
    <3>4. CASE message \in Messages /\ Bytes(message) # Failure
      <4>1. unsent # Failure /\ buf \o (stream \o unsent) = Bytes(message)
        BY <3>4 DEF WireInv, NothingLost
      <4>2. unsent \in Seq(Byte)
        BY <4>1 DEF WireInv, WireTypeOK
      <4>3. buf' \o (stream' \o unsent) = Bytes(message)
        BY <2>3, <4>1, <4>2
      <4>4. unsent' # Failure /\ Bytes(message)' # Failure /\ buf' \o (stream' \o unsent') = Bytes(message)'
        BY <1>1, <3>1, <3>4, <4>1, <4>3, Zenon
      <4> QED
        BY <4>4 DEF NothingLost
    <3> QED
      BY <3>2, <3>3, <3>4
  <2>8. Decode(Fields(message), buf') # Pending
    BY <2>3, DecodedIsNotPending, FieldsOfMessage
  <2>9. ReaderWaits'
    <3> SUFFICES ASSUME received' = Pending PROVE Len(buf') < Header \/ Len(buf') < FrameLen(buf')
      BY <1>1 DEF ReaderWaits
    <3>1. ~ (Len(buf') >= Header /\ Len(buf') = FrameLen(buf'))
      BY <1>4, <2>8
    <3> QED
      BY <1>0, <2>4, <2>5, <3>1
  <2>10. DecodesItsBytes'
    <3>1. Fields(message)' = Fields(message)
      BY <1>1 DEF Fields
    <3> QED
      BY <1>4, <3>1 DEF DecodesItsBytes
  <2>11. ReturnsContent'
    <3> SUFFICES ASSUME message \in Messages
                 PROVE  /\ received' \in {Pending, Failure, Content}
                        /\ received' = Failure /\ unsent # Failure => closed /\ unsent # <<>>
      BY <1>1 DEF ReturnsContent
    <3>1. CASE ~ (Len(buf') >= Header /\ Len(buf') = FrameLen(buf'))
      BY <1>0, <1>4, <3>1
    <3>2. CASE Len(buf') >= Header /\ Len(buf') = FrameLen(buf')
      <4>1. Bytes(message) # Failure
        BY <1>4 DEF WireInv, NothingLost
      <4>2. unsent \in Seq(Byte) /\ buf' \o (stream' \o unsent) = Bytes(message)
        <5>1. unsent # Failure /\ buf \o (stream \o unsent) = Bytes(message)
          BY <4>1 DEF WireInv, NothingLost
        <5>2. unsent \in Seq(Byte)
          BY <5>1 DEF WireInv, WireTypeOK
        <5> QED
          BY <2>3, <5>1, <5>2
      <4>3. /\ Len(Bytes(message)) >= Header
            /\ FrameLen(Bytes(message)) = Len(Bytes(message))
            /\ Decode(Fields(message), Bytes(message)) = message.message
            /\ message.message # Failure
        BY <4>1, BytesOfMessage
      <4>4. stream' \o unsent \in Seq(Byte)
        BY <2>3, <4>2, BytesClosed, Zenon
      <4>5. buf' = Bytes(message)
        <5> DEFINE b == buf'
                   t == stream' \o unsent
                   whole == Bytes(message)
        <5>1. /\ b \in Seq(Byte) /\ t \in Seq(Byte) /\ b \o t = whole
              /\ Len(whole) >= Header /\ FrameLen(whole) = Len(whole)
              /\ Len(b) >= Header /\ Len(b) = FrameLen(b)
          BY <2>3, <3>2, <4>2, <4>3, <4>4
        <5> HIDE DEF b, t, whole
        <5>2. b = whole
          BY <5>1, PartOfMessage
        <5> QED
          BY <5>2 DEF b, whole
      <4>6. received' = message.message
        BY <1>4, <3>2, <4>3, <4>5
      <4>7. Content = message.message
        BY <1>1 DEF Content
      <4> QED
        BY <4>3, <4>6, <4>7
    <3> QED
      BY <3>1, <3>2
  <2> QED
    BY <2>6, <2>7, <2>9, <2>10, <2>11 DEF WireInv
<1> QED
  BY <1>3, <1>4 DEF ReadExact

\* The hook reads a header, and then the body of a Ready; what it returns is
\* the path or an error.
LEMMA ReadOnceKeeps ==
  ASSUME WireInv, ReadOnce
  PROVE  WireInv'
<1>0. /\ Header = 4 /\ Pending # Failure
      /\ buf \in Seq(Byte) /\ stream \in Seq(Byte)
      /\ Len(buf) \in Nat /\ Len(stream) \in Nat
  BY WireAssumption DEF WireInv, WireTypeOK, Header, Width
<1>1. /\ received = Pending /\ message.reader = "hook"
      /\ message' = message /\ unsent' = unsent /\ closed' = closed
      /\ Content' = Content
  BY DEF ReadOnce, Content
<1>2. buf = <<>> \/ (Len(buf) = Header /\ HookTakes(buf))
  BY <1>1 DEF WireInv, ReaderWaits
<1>3. message \in Messages
  BY <1>1 DEF WireInv, WireTypeOK
<1>4. /\ WellFormed(ResponseFields, message.message)
      /\ Bytes(message) = Encode(ResponseFields, message.message)
      /\ Bytes(message) # Failure
      /\ Bytes(message) \in Seq(Byte)
      /\ Len(Bytes(message)) >= Header
      /\ FrameLen(Bytes(message)) = Len(Bytes(message))
  BY <1>1, <1>3, BytesOfMessage
<1> DEFINE n == IF Len(stream) < Wanted THEN Len(stream) ELSE Wanted
<1>5. /\ Take(n)
      /\ received' = IF n < Wanted THEN Failure
                     ELSE IF Len(buf) < Header THEN IF HookTakes(buf') THEN Pending ELSE Failure
                     ELSE wire_read_str(From(buf', Header))
  BY DEF ReadOnce
<1>6. /\ Len(buf) < Header => buf = <<>> /\ Wanted = Header
      /\ ~ (Len(buf) < Header) =>
           /\ Len(buf) = Header /\ HookTakes(buf)
           /\ Wanted = FrameLen(buf) - Header /\ FrameLen(buf) \in Nat /\ FrameLen(buf) >= Header
  <2>1. Len(<<>>) = 0
    OBVIOUS
  <2>2. ASSUME Len(buf) < Header PROVE buf = <<>> /\ Wanted = Header
    <3> DEFINE k == Len(buf)
    <3>0. k # Header
      <4>1. k \in Nat /\ Header \in Nat /\ k < Header
        BY <1>0, <2>2
      <4> HIDE DEF k
      <4> QED
        BY <4>1
    <3>1. buf = <<>>
      BY <1>2, <3>0, Zenon
    <3>2. Len(buf) = 0
      BY <2>1, <3>1
    <3>3. Wanted = Header - Len(buf)
      BY <2>2, Zenon DEF Wanted
    <3> QED
      BY <1>0, <3>1, <3>2, <3>3
  <2>3. ASSUME ~ (Len(buf) < Header)
        PROVE  /\ Len(buf) = Header /\ HookTakes(buf)
               /\ Wanted = FrameLen(buf) - Header /\ FrameLen(buf) \in Nat /\ FrameLen(buf) >= Header
    <3>1. Len(buf) = Header /\ HookTakes(buf)
      BY <1>0, <1>2, <2>1, <2>3
    <3>2. FrameLen(buf) \in Header..(Header + Limit - 1)
      <4>1. buf \in Seq(Byte) /\ Len(buf) >= Header
        BY <1>0, <3>1
      <4> QED
        BY <4>1, FrameLenBytes
    <3> QED
      BY <1>0, <2>3, <3>1, <3>2 DEF Wanted
  <2> QED
    BY <2>2, <2>3
<1>7. Wanted \in Nat /\ n \in 0..Len(stream) /\ (n < Wanted \/ n = Wanted)
  BY <1>0, <1>6
<1> HIDE DEF n
<1>8. /\ buf' \in Seq(Byte) /\ stream' \in Seq(Byte)
      /\ Len(buf') = Len(buf) + n
      /\ SubSeq(stream, 1, n) \in Seq(Byte)
      /\ buf' = buf \o SubSeq(stream, 1, n)
      /\ \A u \in Seq(Byte) : buf' \o (stream' \o u) = buf \o (stream \o u)
  BY <1>5, <1>7, TakeParts DEF WireInv
<1>9. unsent # Failure /\ unsent \in Seq(Byte) /\ buf' \o (stream' \o unsent) = Bytes(message)
  <2>1. unsent # Failure /\ buf \o (stream \o unsent) = Bytes(message)
    BY <1>3, <1>4 DEF WireInv, NothingLost
  <2>2. unsent \in Seq(Byte)
    BY <2>1 DEF WireInv, WireTypeOK
  <2> QED
    BY <1>8, <2>1, <2>2
<1>10. WireTypeOK'
  BY <1>1, <1>8 DEF WireInv, WireTypeOK
<1>11. NothingLost'
  <2>1. Bytes(message)' = Bytes(message)
    BY <1>1 DEF Bytes, Fields
  <2> QED
    BY <1>1, <1>4, <1>9, <2>1 DEF NothingLost
<1>12. DecodesItsBytes'
  BY <1>1 DEF DecodesItsBytes
<1>13. CASE n < Wanted
  <2>1. received' = Failure
    BY <1>5, <1>13
  <2>2. ReaderWaits'
    BY <1>0, <2>1 DEF ReaderWaits
  <2>3. ReturnsContent'
    BY <1>1, <2>1 DEF ReturnsContent
  <2> QED
    BY <1>10, <1>11, <1>12, <2>2, <2>3 DEF WireInv
<1>14. CASE n = Wanted /\ Len(buf) < Header
  <2>0. ~ (n < Wanted)
    BY <1>7, <1>14
  <2>1. received' = IF HookTakes(buf') THEN Pending ELSE Failure
    BY <1>5, <1>14, <2>0
  <2>2. Len(buf') = Header
    <3>1. Len(buf) = 0
      BY <1>6, <1>14
    <3> QED
      BY <1>0, <1>6, <1>8, <1>14, <3>1
  <2>3. ReaderWaits'
    <3>1. HookTakes(buf)' = HookTakes(buf')
      BY DEF HookTakes
    <3>2. received' = Pending => HookTakes(buf')
      BY <1>0, <2>1
    <3> QED
      BY <1>1, <2>2, <3>1, <3>2 DEF ReaderWaits
  <2>4. ReturnsContent'
    BY <1>1, <2>1 DEF ReturnsContent
  <2> QED
    BY <1>10, <1>11, <1>12, <2>3, <2>4 DEF WireInv
<1>15. CASE n = Wanted /\ ~ (Len(buf) < Header)
  <2>0. ~ (n < Wanted)
    BY <1>7, <1>15
  <2>1. received' = wire_read_str(From(buf', Header))
    BY <1>5, <1>15, <2>0
  <2>2. /\ Len(buf) = Header /\ HookTakes(buf)
        /\ Len(buf') = FrameLen(buf) /\ Len(buf') >= Header
    <3>1. Wanted = FrameLen(buf) - Header /\ FrameLen(buf) \in Nat /\ FrameLen(buf) >= Header
      BY <1>6, <1>15
    <3>2. Len(buf) = Header /\ HookTakes(buf)
      BY <1>6, <1>15
    <3>3. Len(buf') = Len(buf) + n /\ n = FrameLen(buf) - Header
      BY <1>8, <1>15, <3>1
    <3> QED
      BY <1>0, <3>1, <3>2, <3>3
  <2>3. stream' \o unsent \in Seq(Byte) /\ stream \o unsent \in Seq(Byte)
    BY <1>0, <1>8, <1>9, BytesClosed, Zenon
  <2>4. FrameLen(buf) = Len(Bytes(message)) /\ \A i \in 1..Header : buf[i] = Bytes(message)[i]
    <3> DEFINE t == stream \o unsent
               whole == Bytes(message)
    <3>1. /\ buf \in Seq(Byte) /\ t \in Seq(Byte) /\ buf \o t = whole
          /\ Len(whole) >= Header /\ FrameLen(whole) = Len(whole)
          /\ Len(buf) >= Header
      <4>1. buf \o t = whole
        BY <1>3, <1>4 DEF WireInv, NothingLost
      <4>2. Len(buf) >= Header
        BY <1>0, <2>2
      <4> QED
        BY <1>0, <1>4, <2>3, <4>1, <4>2
    <3> HIDE DEF t, whole
    <3>2. FrameLen(buf) = Len(whole) /\ \A i \in 1..Header : buf[i] = whole[i]
      BY <3>1, PartOfMessage
    <3> QED
      BY <3>2 DEF whole
  <2>5. buf' = Bytes(message)
    <3> DEFINE b == buf'
               t == stream' \o unsent
               whole == Bytes(message)
    <3>1. /\ b \in Seq(Byte) /\ t \in Seq(Byte) /\ b \o t = whole
          /\ Len(whole) >= Header /\ FrameLen(whole) = Len(whole)
          /\ Len(b) = Len(whole)
      <4>1. b \in Seq(Byte) /\ b \o t = whole
        BY <1>8, <1>9
      <4>2. Len(b) = Len(whole)
        BY <2>2, <2>4
      <4> QED
        BY <1>4, <2>3, <4>1, <4>2
    <3> HIDE DEF b, t, whole
    <3>2. b = whole
      BY <3>1, PartOfMessage
    <3> QED
      BY <3>2 DEF b, whole
  <2>6. message.message.tag = STATUS_READY
    <3>1. buf[2] = 3
      BY <2>2 DEF HookTakes
    <3>2. Bytes(message)[2] = 3
      BY <1>0, <2>4, <3>1
    <3>3. Encode(ResponseFields, message.message)[2] = message.message.tag
      BY <1>4, TagOfMessage DEF Tables
    <3> QED
      BY <1>4, <3>2, <3>3 DEF STATUS_READY
  <2>7. /\ message.message.fields[1] \in Texts
        /\ received' \in {message.message.fields[1], Failure}
    <3>1. /\ message.message.fields[1] \in Texts
          /\ wire_read_str(From(Encode(ResponseFields, message.message), Header))
               \in {message.message.fields[1], Failure}
      BY <1>4, <2>6, HookReadsPath
    <3> QED
      BY <1>4, <2>1, <2>5, <3>1
  <2>8. Content = message.message.fields[1]
    BY <1>1, <2>6 DEF Content
  <2>9. received' # Pending
    <3>1. message.message.fields[1] \in Returned
      BY <2>7, TextIsBytes DEF Returned
    <3> QED
      BY <1>0, <2>7, <3>1, WireAssumption
  <2>10. ReaderWaits'
    BY <2>9 DEF ReaderWaits
  <2>11. ReturnsContent'
    BY <1>1, <2>7, <2>8 DEF ReturnsContent
  <2> QED
    BY <1>10, <1>11, <1>12, <2>10, <2>11 DEF WireInv
<1> QED
  BY <1>7, <1>13, <1>14, <1>15

\* Every step keeps the invariant.
LEMMA WireStep ==
  ASSUME WireInv, [WireNext]_wireVars
  PROVE  WireInv'
<1>1. CASE WriteBytes
  BY <1>1, WriteBytesKeeps
<1>2. CASE CloseWriter
  BY <1>2, CloseWriterKeeps
<1>3. CASE ReadExact
  BY <1>3, ReadExactKeeps
<1>4. CASE ReadOnce
  BY <1>4, ReadOnceKeeps
<1>5. CASE UNCHANGED wireVars
  <2>1. UNCHANGED <<message, unsent, stream, closed, buf, received>>
    BY <1>5 DEF wireVars
  <2>2. WireTypeOK' /\ NothingLost'
    BY <2>1 DEF WireInv, WireTypeOK, NothingLost, Bytes, Fields
  <2>3. ReaderWaits' /\ DecodesItsBytes'
    BY <2>1 DEF WireInv, ReaderWaits, DecodesItsBytes, Fields, HookTakes
  <2>4. ReturnsContent'
    BY <2>1 DEF WireInv, ReturnsContent, Content
  <2> QED
    BY <2>2, <2>3, <2>4 DEF WireInv
<1> QED
  BY <1>1, <1>2, <1>3, <1>4, <1>5 DEF WireNext

\* However the bytes are cut up and whenever the writer closes, nothing of a
\* message is lost, a reader waits exactly while its frame is not whole, and it
\* returns the message or an error (encode_frame, read_frame, rtd_obtain_path).
THEOREM WireInvariant == WireSpec => []WireInv
<1>1. WireInit => WireInv
  BY WireInitially
<1>2. WireInv /\ [WireNext]_wireVars => WireInv'
  BY WireStep
<1> QED
  BY <1>1, <1>2, PTL DEF WireSpec

\* When the last byte of a message has been taken from the stream, a Rust
\* reader has returned the message and the hook has returned, although the
\* writer's end is open (encode_frame, read_frame, rtd_obtain_path).
THEOREM WholeMessageRead == WireSpec => []WholeMessageIsRead
<1>1. WireInv => WholeMessageIsRead
  <2> SUFFICES ASSUME WireInv, message.writer # "none", unsent = <<>>, stream = <<>>
               PROVE  IF message.reader = "hook" THEN received # Pending ELSE received = Content
    BY DEF WholeMessageIsRead
  <2>1. message \in Messages /\ buf \in Seq(Byte) /\ <<>> \in Seq(Byte) /\ Len(<<>>) = 0
    BY DEF WireInv, WireTypeOK
  <2>2. unsent # Failure
    BY <2>1, WireAssumption DEF Returned
  <2>3. Bytes(message) # Failure /\ buf \o (stream \o unsent) = Bytes(message)
    BY <2>1, <2>2 DEF WireInv, NothingLost
  <2>4. buf = Bytes(message)
    BY <2>1, <2>3, ConcatEmptySeq
  <2>5. Len(buf) >= Header /\ FrameLen(buf) = Len(buf)
    BY <2>1, <2>3, <2>4, BytesOfMessage
  <2>6. Header = 4 /\ Len(buf) \in Nat
    BY <2>1 DEF Header, Width
  <2>7. CASE message.reader = "hook"
    <3> SUFFICES ASSUME received = Pending PROVE FALSE
      BY <2>7
    <3>1. buf = <<>> \/ (Len(buf) = Header /\ HookTakes(buf))
      BY <2>7 DEF WireInv, ReaderWaits
    <3>2. buf # <<>>
      BY <2>1, <2>5, <2>6
    <3>3. Len(buf) = Header /\ buf[2] = 3
      BY <3>1, <3>2 DEF HookTakes
    <3>4. WellFormed(ResponseFields, message.message) /\ buf = Encode(ResponseFields, message.message)
      BY <2>1, <2>4, <2>7, BytesOfMessage
    <3>5. message.message.tag = STATUS_READY
      BY <3>3, <3>4, TagOfMessage DEF Tables, STATUS_READY
    <3>6. Len(buf) > Header
      BY <3>4, <3>5, HookReadsPath
    <3> QED
      BY <2>6, <3>3, <3>6
  <2>8. CASE message.reader # "hook"
    <3>1. received # Pending
      BY <2>5, <2>6, <2>8 DEF WireInv, ReaderWaits
    <3>2. received # Failure
      BY <2>1, <2>2, <2>8 DEF WireInv, ReturnsContent
    <3> QED
      BY <2>1, <2>8, <3>1, <3>2 DEF WireInv, ReturnsContent
  <2> QED
    BY <2>7, <2>8
<1> QED
  BY <1>1, WireInvariant, PTL

\* Bytes that decode are those of the message they decode to, but for the flag
\* of a Ready, whatever bytes a Rust reader is given (decode_frame,
\* decode_request, decode_response).
THEOREM OnlyItsEncodingDecodes == WireSpec => []NothingElseDecodes
<1>1. WireInv => NothingElseDecodes
  <2> DEFINE fields == Fields(message)
             bytes == Encode(fields, received)
  <2> SUFFICES ASSUME WireInv, received \notin {Pending, Failure}, message.reader # "hook"
               PROVE  /\ Len(bytes) = Len(buf)
                      /\ \A i \in DOMAIN buf :
                           \/ bytes[i] = buf[i]
                           \/ /\ message.reader = "client" /\ received.tag = STATUS_READY
                              /\ i = Header + Width + Len(received.fields[1]) + 1
                              /\ buf[i] # 0 /\ bytes[i] = 1
    BY DEF NothingElseDecodes
  <2>1. received = Decode(fields, buf) /\ received # Failure
    BY DEF WireInv, DecodesItsBytes
  <2>2. fields \in Tables /\ buf \in Seq(Byte)
    BY FieldsOfMessage DEF WireInv, WireTypeOK
  <2>3. fields = ResponseFields => message.reader = "client"
    <3>1. STATUS_ERROR \in DOMAIN ResponseFields /\ STATUS_ERROR \notin DOMAIN RequestFields
      BY DEF ResponseFields, RequestFields, STATUS_ERROR, STATUS_PONG, STATUS_SUITABLE,
             STATUS_UNSUITABLE, STATUS_READY, STATUS_BACKENDS,
             OP_PING, OP_ANALYZE, OP_OBTAIN, OP_LIST_BACKENDS
    <3>2. message.reader \in {"daemon", "client"}
      BY BytesOfMessage DEF WireInv, WireTypeOK
    <3> QED
      BY <3>1, <3>2 DEF Fields
  <2> HIDE DEF fields
  <2>4. /\ Len(bytes) = Len(buf)
        /\ \A i \in DOMAIN buf :
             \/ bytes[i] = buf[i]
             \/ /\ fields = ResponseFields /\ received.tag = STATUS_READY
                /\ i = Header + Width + Len(received.fields[1]) + 1
                /\ buf[i] # 0 /\ bytes[i] = 1
    BY <2>1, <2>2, OnlyTheFlag
  <2> QED
    BY <2>3, <2>4
<1> QED
  BY <1>1, WireInvariant, PTL

\* What reaches a reader is what MessageChannel promises: the message that was
\* sent, once, or an error (read_frame, rtd_obtain_path).
THEOREM ChannelImplemented == WireSpec => ImplementsChannel
<1> DEFINE got == IF message.writer = "none" THEN Pending ELSE received
<1>1. WireInit => Channel!Init
  BY DEF WireInit, Channel!Init
<1>2. WireInv /\ WireInv' /\ [WireNext]_wireVars => [Channel!Receive]_<<Content, got>>
  <2> SUFFICES ASSUME WireInv, WireInv', [WireNext]_wireVars, <<Content, got>>' # <<Content, got>>
               PROVE  Channel!Receive
    OBVIOUS
  <2>1. message' = message
    BY DEF WireNext, wireVars, WriteBytes, CloseWriter, ReadExact, ReadOnce
  <2>2. Content' = Content
    BY <2>1 DEF Content
  <2>3. message.writer # "none" /\ received' # received
    BY <2>1, <2>2
  <2>4. message \in Messages
    BY <2>3 DEF WireInv, WireTypeOK
  <2>5. received = Pending
    BY <2>3 DEF WireNext, wireVars, WriteBytes, CloseWriter, ReadExact, ReadOnce
  <2>6. received' \in {Pending, Failure, Content}
    BY <2>1, <2>2, <2>4 DEF WireInv, ReturnsContent
  <2> QED
    BY <2>1, <2>2, <2>3, <2>5, <2>6 DEF Channel!Receive
<1> QED
  BY <1>1, <1>2, WireInvariant, PTL DEF WireSpec, ImplementsChannel, Channel!Spec

-----------------------------------------------------------------------------
(***************************************************************************)
(* How daemons come by their socket (DaemonSocket), for every number of    *)
(* daemons and every set of environments.                                  *)
(***************************************************************************)

\* A daemon whose socket is at the path still listens on it.
BoundListens == \A d \in Daemons : d \in file => Listening(d)

\* While the path is free, no daemon was started yet, or one that found the
\* path free or freed it is on its way to bind.
FreePathIsClaimed ==
  file = {} =>
    \/ \A d \in Daemons : pc[d] = "off"
    \/ \E d \in Daemons : pc[d] \in {"mkdir", "bind"}

\* The file of an earlier boot is there until the first unlink.
StaleUntilUnlinked ==
  Nobody \in file => \A d \in Daemons : pc[d] \in {"off", "unlink"}

\* None of the three survives a failure: a stopped daemon leaves its file, a
\* failed mkdir leaves the path free, a failed unlink leaves the stale file.
SocketInv ==
  failures = 0 => /\ BoundListens
                  /\ FreePathIsClaimed
                  /\ StaleUntilUnlinked
                  /\ FailsOnlyForAnother

-----------------------------------------------------------------------------
\* The initial state has the types.
LEMMA InitTypeOK == Init => TypeOK
  BY SocketAssumption DEF Init, TypeOK

\* A step keeps the types.
LEMMA NextTypeOK == TypeOK /\ [Next]_vars => TypeOK'
<1> SUFFICES ASSUME TypeOK, [Next]_vars
             PROVE  TypeOK'
  OBVIOUS
<1> USE SocketAssumption DEF TypeOK, Move, Fail
<1>1. ASSUME NEW d \in Daemons, Check(d) PROVE TypeOK'
  BY <1>1 DEF Check
<1>2. ASSUME NEW d \in Daemons, Unlink(d) PROVE TypeOK'
  BY <1>2 DEF Unlink
<1>3. ASSUME NEW d \in Daemons, UnlinkFails(d) PROVE TypeOK'
  BY <1>3 DEF UnlinkFails
<1>4. ASSUME NEW d \in Daemons, Mkdir(d) PROVE TypeOK'
  BY <1>4 DEF Mkdir
<1>5. ASSUME NEW d \in Daemons, MkdirFails(d) PROVE TypeOK'
  BY <1>5 DEF MkdirFails
<1>6. ASSUME NEW d \in Daemons, Bind(d) PROVE TypeOK'
  BY <1>6 DEF Bind
<1>7. ASSUME NEW d \in Daemons, Stop(d) PROVE TypeOK'
  BY <1>7 DEF Stop
<1>8. ASSUME NEW d \in Daemons, BindFails(d) PROVE TypeOK'
  BY <1>8 DEF BindFails
<1>9. CASE UNCHANGED vars
  BY <1>9 DEF vars
<1> QED
  BY <1>1, <1>2, <1>3, <1>4, <1>5, <1>6, <1>7, <1>8, <1>9 DEF Next, BindStep

\* In every reachable state of every deployment the variables have their
\* types; the path never holds two sockets, nor that of a daemon which has yet
\* to bind.
THEOREM TypeCorrect == Spec => []TypeOK
  BY InitTypeOK, NextTypeOK, PTL DEF Spec

-----------------------------------------------------------------------------
\* The invariant holds before any daemon is started.
LEMMA InitSocketInv == Init => SocketInv
  BY SocketAssumption
  DEF Init, SocketInv, BoundListens, FreePathIsClaimed, StaleUntilUnlinked,
      FailsOnlyForAnother

\* A step with no failure keeps the invariant; a failure ends its premise.
LEMMA NextSocketInv == TypeOK /\ SocketInv /\ [Next]_vars => SocketInv'
<1> SUFFICES ASSUME TypeOK, SocketInv, [Next]_vars, failures' = 0
             PROVE  SocketInv'
  BY DEF SocketInv
<1>0. failures = 0 /\ ~Fail
  BY DEF TypeOK, Fail, Next, BindStep, Check, Unlink, UnlinkFails, Mkdir,
         MkdirFails, Bind, BindFails, Stop, vars
<1>1. /\ BoundListens
      /\ FreePathIsClaimed
      /\ StaleUntilUnlinked
      /\ FailsOnlyForAnother
  BY <1>0 DEF SocketInv
<1> USE <1>1, SocketAssumption
    DEF TypeOK, Move, Listening, SocketInv, BoundListens, FreePathIsClaimed,
        StaleUntilUnlinked, FailsOnlyForAnother
<1>2. ASSUME NEW d \in Daemons, Check(d) PROVE SocketInv'
  BY <1>2 DEF Check
<1>3. ASSUME NEW d \in Daemons, Unlink(d) PROVE SocketInv'
  BY <1>3 DEF Unlink
<1>4. ASSUME NEW d \in Daemons, Mkdir(d) PROVE SocketInv'
  BY <1>4 DEF Mkdir
<1>5. ASSUME NEW d \in Daemons, Bind(d) PROVE SocketInv'
  BY <1>5 DEF Bind
<1>6. CASE UNCHANGED vars
  BY <1>6 DEF vars
<1> QED
  BY <1>0, <1>2, <1>3, <1>4, <1>5, <1>6
  DEF Next, BindStep, UnlinkFails, MkdirFails, BindFails, Stop

\* The invariant holds in every reachable state.
LEMMA SocketInvariant == Spec => []SocketInv
  BY InitTypeOK, NextTypeOK, InitSocketInv, NextSocketInv, PTL DEF Spec

\* However many daemons chase one another off the path, when all starts are
\* over one of them holds it (bind_socket's check, unlink, bind).
THEOREM SocketServed == Spec => []SomebodyServes
<1>1. TypeOK /\ SocketInv => SomebodyServes
  BY SocketAssumption
  DEF TypeOK, SocketInv, SomebodyServes, BoundListens, FreePathIsClaimed,
      StaleUntilUnlinked, Starting, Reachable
<1> QED
  BY <1>1, TypeCorrect, SocketInvariant, PTL

\* With no failed system call, bind_socket fails only in favour of a daemon
\* that listens.
THEOREM FailureHasWinner == Spec => []FailsOnlyForAnother
<1>1. SocketInv => FailsOnlyForAnother
  BY DEF SocketInv, FailsOnlyForAnother
<1> QED
  BY <1>1, SocketInvariant, PTL

\* Where the variables are given alike and none is empty, default_listen_path
\* and rtd_socket_path name one path.
THEOREM PathsAgree == Spec => []SameEnvironmentMeets
<1>1. TypeOK => SameEnvironmentMeets
  BY SocketAssumption
  DEF TypeOK, SameEnvironmentMeets, Envs, EnvVars, default_listen_path,
      rtd_socket_path, Path, Unset, Empty, Given
<1> QED
  BY <1>1, TypeCorrect, PTL
=============================================================================
