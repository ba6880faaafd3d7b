--------------------------- MODULE CodesignProofs ---------------------------
(***************************************************************************)
(* Theorems about Codesign: what the library writes for codesign reads     *)
(* back as it was meant, and every copy is signed as its call asked.       *)
(***************************************************************************)
EXTENDS Codesign, SequenceLemmas

-----------------------------------------------------------------------------
(***************************************************************************)
(* Hexadecimal digits and base64.                                          *)
(***************************************************************************)

\* Two digits are a byte.
LEMMA HexDecoded ==
  ASSUME NEW text \in Seq(0..3), Len(text) % 2 = 0
  PROVE  /\ hex_decode(text) \in Seq(0..15)
         /\ Len(hex_decode(text)) = Len(text) \div 2
<1> DEFINE n == Len(text) \div 2
           f == [i \in 1..n |-> 4 * text[2 * i - 1] + text[2 * i]]
<1>1. Len(text) \in Nat /\ n \in Nat /\ 2 * n = Len(text)
  OBVIOUS
<1>2. \A i \in DOMAIN text : text[i] \in 0..3
  OBVIOUS
<1>3. hex_decode(text) = f
  BY <1>2 DEF hex_decode, IsHex
<1>4. ASSUME NEW i \in 1..n PROVE 4 * text[2 * i - 1] + text[2 * i] \in 0..15
  <2>1. 2 * i - 1 \in 1..Len(text) /\ 2 * i \in 1..Len(text)
    BY <1>1
  <2>2. text[2 * i - 1] \in 0..3 /\ text[2 * i] \in 0..3
    BY <1>2, <2>1
  <2>3. \A x, y \in 0..3 : 4 * x + y \in 0..15
    OBVIOUS
  <2> QED
    BY <2>2, <2>3, Zenon
<1>5. f \in [1..n -> 0..15]
  BY <1>4
<1> HIDE DEF n, f
<1>6. f \in Seq(0..15) /\ Len(f) = n
  BY <1>1, <1>5
<1> QED
  BY <1>3, <1>6 DEF n

\* The bits of a number of four bits.
LEMMA FourBits ==
  \A x \in 0..15 : \E a, b, c, d \in 0..1 : x = 8 * a + 4 * b + 2 * c + d
<1> SUFFICES ASSUME NEW x \in 0..15
             PROVE  \E a, b, c, d \in 0..1 : x = 8 * a + 4 * b + 2 * c + d
  OBVIOUS
<1> DEFINE a == x \div 8
           b == (x \div 4) % 2
           c == (x \div 2) % 2
           d == x % 2
<1>1. a \in 0..1 /\ b \in 0..1 /\ c \in 0..1 /\ d \in 0..1
  OBVIOUS
<1>2. x = 8 * a + 4 * b + 2 * c + d
  OBVIOUS
<1> HIDE DEF a, b, c, d
<1> QED
  BY <1>1, <1>2

\* Three bits of a character.
LEMMA BitsOfChar ==
  ASSUME NEW q \in Nat, NEW a \in 0..1, NEW b \in 0..1, NEW c \in 0..1, NEW ch,
         ch = (8 * q + (4 * a + 2 * b + c)) % 8
  PROVE  (ch \div 4) % 2 = a /\ (ch \div 2) % 2 = b /\ ch % 2 = c /\ ch \in 0..7
<1>1. ch = 4 * a + 2 * b + c
  OBVIOUS
<1> QED
  BY <1>1

\* Three bytes of four bits, in four characters of three.
Bits(x, y, z, c0, c1, c2, c3) ==
  /\ x = 8 * ((c0 \div 4) % 2) + 4 * ((c0 \div 2) % 2) + 2 * (c0 % 2) + ((c1 \div 4) % 2)
  /\ y = 8 * ((c1 \div 2) % 2) + 4 * (c1 % 2) + 2 * ((c2 \div 4) % 2) + ((c2 \div 2) % 2)
  /\ z = 8 * (c2 % 2) + 4 * ((c3 \div 4) % 2) + 2 * ((c3 \div 2) % 2) + (c3 % 2)
  /\ c0 \in 0..7 /\ c1 \in 0..7 /\ c2 \in 0..7 /\ c3 \in 0..7

IsGroup(x, y, z, n) ==
  /\ x \in 0..15 /\ y \in 0..15 /\ z \in 0..15
  /\ n \in Nat /\ n = 256 * x + 16 * y + z

\* The number of such a group has those four characters as its digits.
LEMMA BitsOfGroup ==
  ASSUME NEW x, NEW y, NEW z, NEW n, IsGroup(x, y, z, n)
  PROVE  Bits(x, y, z, (n \div 512) % 8, (n \div 64) % 8, (n \div 8) % 8, n % 8)
<1>0. /\ x \in 0..15 /\ y \in 0..15 /\ z \in 0..15
      /\ n \in Nat /\ n = 256 * x + 16 * y + z
  BY DEF IsGroup
<1> DEFINE c0 == (n \div 512) % 8
           c1 == (n \div 64) % 8
           c2 == (n \div 8) % 8
           c3 == n % 8
<1>1. PICK x3, x2, x1, x0 \in 0..1 : x = 8 * x3 + 4 * x2 + 2 * x1 + x0
  BY <1>0, FourBits
<1>2. PICK y3, y2, y1, y0 \in 0..1 : y = 8 * y3 + 4 * y2 + 2 * y1 + y0
  BY <1>0, FourBits
<1>3. PICK z3, z2, z1, z0 \in 0..1 : z = 8 * z3 + 4 * z2 + 2 * z1 + z0
  BY <1>0, FourBits
<1> DEFINE q0 == 4 * x3 + 2 * x2 + x1
           q1 == 4 * x0 + 2 * y3 + y2
           q2 == 4 * y1 + 2 * y0 + z3
           q3 == 4 * z2 + 2 * z1 + z0
<1>4. /\ q0 \in 0..7 /\ q1 \in 0..7 /\ q2 \in 0..7 /\ q3 \in 0..7
      /\ n = 512 * q0 + 64 * q1 + 8 * q2 + q3
  BY <1>0, <1>1, <1>2, <1>3
<1> HIDE DEF q0, q1, q2, q3
<1>5. /\ n \div 512 = q0 /\ n \div 64 = 8 * q0 + q1 /\ n \div 8 = 8 * (8 * q0 + q1) + q2
      /\ n = 8 * (8 * (8 * q0 + q1) + q2) + q3
  BY <1>4
<1>6. c0 = q0 /\ c1 = q1 /\ c2 = q2 /\ c3 = q3
  BY <1>4, <1>5
<1>7. c0 = (8 * 0 + (4 * x3 + 2 * x2 + x1)) % 8
  BY <1>4, <1>6 DEF q0
<1>8. c1 = (8 * 0 + (4 * x0 + 2 * y3 + y2)) % 8
  BY <1>4, <1>6 DEF q1
<1>9. c2 = (8 * 0 + (4 * y1 + 2 * y0 + z3)) % 8
  BY <1>4, <1>6 DEF q2
<1>10. c3 = (8 * 0 + (4 * z2 + 2 * z1 + z0)) % 8
  BY <1>4, <1>6 DEF q3
<1>11. (c0 \div 4) % 2 = x3 /\ (c0 \div 2) % 2 = x2 /\ c0 % 2 = x1 /\ c0 \in 0..7
  BY <1>7, BitsOfChar
<1>12. (c1 \div 4) % 2 = x0 /\ (c1 \div 2) % 2 = y3 /\ c1 % 2 = y2 /\ c1 \in 0..7
  BY <1>8, BitsOfChar
<1>13. (c2 \div 4) % 2 = y1 /\ (c2 \div 2) % 2 = y0 /\ c2 % 2 = z3 /\ c2 \in 0..7
  BY <1>9, BitsOfChar
<1>14. (c3 \div 4) % 2 = z2 /\ (c3 \div 2) % 2 = z1 /\ c3 % 2 = z0 /\ c3 \in 0..7
  BY <1>10, BitsOfChar
<1> HIDE DEF c0, c1, c2, c3
<1>15. Bits(x, y, z, c0, c1, c2, c3)
  BY <1>1, <1>2, <1>3, <1>11, <1>12, <1>13, <1>14 DEF Bits
<1> QED
  BY <1>15 DEF c0, c1, c2, c3

\* Padding stands for the bytes that the last three lack.
LEMMA PaddingAtEnd ==
  ASSUME NEW L \in Nat, NEW G, G = (L + 2) \div 3, NEW i \in 1..(4 * G)
  PROVE  /\ (i - 1) \div 4 \in 0..(G - 1) /\ (i - 1) % 4 \in 0..3
         /\ i = 4 * ((i - 1) \div 4) + ((i - 1) % 4) + 1
         /\ 3 * ((i - 1) \div 4) + ((i - 1) % 4) > L <=> i > L + G
<1> DEFINE g == (i - 1) \div 4
           c == (i - 1) % 4
<1>2. G \in Nat /\ L <= 3 * G /\ L + 2 >= 3 * G
  OBVIOUS
<1>3. i \in Nat /\ i >= 1 /\ i <= 4 * G
  BY <1>2
<1>4. g \in Nat /\ c \in 0..3 /\ i - 1 = 4 * g + c
  BY <1>3
<1> HIDE DEF g, c
<1>5. g <= G - 1
  BY <1>2, <1>3, <1>4
<1>6. 3 * g + c > L <=> i > L + G
  BY <1>2, <1>3, <1>4, <1>5
<1>7. g \in 0..(G - 1) /\ c \in 0..3 /\ i = 4 * g + c + 1
  BY <1>2, <1>3, <1>4, <1>5
<1> QED
  BY <1>6, <1>7 DEF g, c

\* The characters of a text of base64: those before the padding, and how many
\* there are.
ByteOf(data, i) == IF i <= Len(data) THEN data[i] ELSE 0

GroupOf(data, g) ==
  256 * ByteOf(data, 3 * g + 1) + 16 * ByteOf(data, 3 * g + 2) + ByteOf(data, 3 * g + 3)

CharOf(data, g, c) == (GroupOf(data, g) \div <<512, 64, 8, 1>>[c + 1]) % 8

Encoded(data, L, G) ==
  /\ L \in Nat /\ G \in Nat /\ L + G \in 0..(4 * G)
  /\ base64_encode(data) \in Seq(0..Pad)
  /\ Len(base64_encode(data)) = 4 * G
  /\ Unpadded(base64_encode(data)) = L + G
  /\ \A g \in 0..(G - 1), c \in 0..3 :
       4 * g + c + 1 <= L + G => base64_encode(data)[4 * g + c + 1] = CharOf(data, g, c)
  /\ \A g \in 0..(G - 1) : /\ ByteOf(data, 3 * g + 1) \in 0..15
                           /\ ByteOf(data, 3 * g + 2) \in 0..15
                           /\ ByteOf(data, 3 * g + 3) \in 0..15

\* base64_encode writes those characters.
LEMMA Base64Chars ==
  ASSUME NEW data \in Seq(0..15)
  PROVE  Encoded(data, Len(data), (Len(data) + 2) \div 3)
<1> DEFINE L == Len(data)
           G == (L + 2) \div 3
<1>0. L = Len(data) /\ G = (L + 2) \div 3
  OBVIOUS
<1> HIDE DEF L, G
<1> DEFINE text == base64_encode(data)
           C(i) == IF 3 * ((i - 1) \div 4) + ((i - 1) % 4) > L THEN Pad
                   ELSE CharOf(data, (i - 1) \div 4, (i - 1) % 4)
<1>1. L \in Nat /\ G \in Nat /\ L + G \in 0..(4 * G)
  <2>1. L \in Nat
    BY <1>0
  <2> QED
    BY <1>0, <2>1
<1>2. text = [i \in 1..(4 * G) |-> C(i)]
  BY <1>0 DEF base64_encode, CharOf, GroupOf, ByteOf
<1>3. \A i \in Nat : i >= 1 => ByteOf(data, i) \in 0..15
  BY <1>0, <1>1 DEF ByteOf
<1>4. ASSUME NEW g \in 0..(G - 1), NEW c \in 0..3
      PROVE  CharOf(data, g, c) \in 0..7
  <2>1. g \in Nat
    BY <1>1
  <2>2. /\ ByteOf(data, 3 * g + 1) \in 0..15 /\ ByteOf(data, 3 * g + 2) \in 0..15
        /\ ByteOf(data, 3 * g + 3) \in 0..15
    BY <1>3, <2>1
  <2>3. GroupOf(data, g) \in Nat
    <3> DEFINE x == ByteOf(data, 3 * g + 1)
               y == ByteOf(data, 3 * g + 2)
               z == ByteOf(data, 3 * g + 3)
    <3>1. GroupOf(data, g) = 256 * x + 16 * y + z
      BY Zenon DEF GroupOf
    <3>2. x \in 0..15 /\ y \in 0..15 /\ z \in 0..15
      BY <2>2, Zenon
    <3> HIDE DEF x, y, z
    <3> QED
      BY <3>1, <3>2
  <2>4. c = 0 \/ c = 1 \/ c = 2 \/ c = 3
    OBVIOUS
  <2>5. <<512, 64, 8, 1>>[c + 1] \in {512, 64, 8, 1}
    BY <2>4
  <2> HIDE DEF C
  <2>6. \A n \in Nat, d \in {512, 64, 8, 1} : (n \div d) % 8 \in 0..7
    OBVIOUS
  <2> DEFINE n == GroupOf(data, g)
             d == <<512, 64, 8, 1>>[c + 1]
  <2>7. CharOf(data, g, c) = (n \div d) % 8 /\ n \in Nat /\ d \in {512, 64, 8, 1}
    BY <2>3, <2>5 DEF CharOf
  <2> HIDE DEF n, d
  <2> QED
    BY <2>6, <2>7
<1> HIDE DEF text
<1>5. ASSUME NEW i \in 1..(4 * G)
      PROVE  /\ text[i] \in 0..Pad
             /\ i > L + G => text[i] = Pad
             /\ i <= L + G => /\ text[i] = CharOf(data, (i - 1) \div 4, (i - 1) % 4)
                              /\ text[i] # Pad
  <2>1. /\ (i - 1) \div 4 \in 0..(G - 1) /\ (i - 1) % 4 \in 0..3
        /\ 3 * ((i - 1) \div 4) + ((i - 1) % 4) > L <=> i > L + G
    BY <1>0, <1>1, PaddingAtEnd
  <2>2. CharOf(data, (i - 1) \div 4, (i - 1) % 4) \in 0..7
    BY <1>4, <2>1, Zenon
  <2>3. text[i] = C(i)
    BY <1>2
  <2> QED
    BY <1>1, <2>1, <2>2, <2>3 DEF Pad
<1> HIDE DEF C
<1>6. text \in Seq(0..Pad) /\ Len(text) = 4 * G
  <2> DEFINE m == 4 * G
  <2>1. m \in Nat
    BY <1>1
  <2>2. text = [i \in 1..m |-> text[i]]
    BY <1>2
  <2>3. \A i \in 1..m : text[i] \in 0..Pad
    BY <1>5
  <2> HIDE DEF m
  <2>4. text \in [1..m -> 0..Pad]
    BY <2>2, <2>3
  <2>5. \A S, f : f \in [1..m -> S] => f \in Seq(S) /\ Len(f) = m
    BY <2>1
  <2>6. text \in Seq(0..Pad) /\ Len(text) = m
    BY <2>4, <2>5, Zenon
  <2> QED
    BY <2>6 DEF m
<1>7. Unpadded(text) = L + G
  <2> DEFINE P(n) == /\ \A i \in 1..n : text[i] # Pad
                     /\ n < Len(text) => text[n + 1] = Pad
  <2>1. P(L + G)
    <3>1. \A i \in 1..(L + G) : i \in 1..(4 * G) /\ i <= L + G
      BY <1>1
    <3>2. L + G < 4 * G => L + G + 1 \in 1..(4 * G) /\ L + G + 1 > L + G
      BY <1>1
    <3> QED
      BY <1>5, <1>6, <3>1, <3>2
  <2>2. ASSUME NEW n \in 0..Len(text), P(n)
        PROVE  n = L + G
    <3>1. n \in Nat /\ n <= 4 * G
      BY <1>1, <1>6
    <3>2. ~ (n < L + G)
      <4> SUFFICES ASSUME n < L + G PROVE FALSE
        OBVIOUS
      <4>1. n + 1 \in 1..(4 * G) /\ n + 1 <= L + G /\ n < Len(text)
        BY <1>1, <1>6, <3>1
      <4> QED
        BY <1>5, <2>2, <4>1
    <3>3. ~ (n > L + G)
      <4> SUFFICES ASSUME n > L + G PROVE FALSE
        OBVIOUS
      <4>1. n \in 1..(4 * G) /\ n \in 1..n
        BY <1>1, <3>1
      <4> QED
        BY <1>5, <2>2, <4>1
    <3> QED
      BY <1>1, <3>1, <3>2, <3>3
  <2>3. Unpadded(text) = CHOOSE n \in 0..Len(text) : P(n)
    BY DEF Unpadded
  <2>4. L + G \in 0..Len(text)
    BY <1>1, <1>6
  <2> HIDE DEF P
  <2> QED
    BY <2>1, <2>2, <2>3, <2>4
<1>8. ASSUME NEW g \in 0..(G - 1), NEW c \in 0..3, 4 * g + c + 1 <= L + G
      PROVE  text[4 * g + c + 1] = CharOf(data, g, c)
  <2> DEFINE i == 4 * g + c + 1
  <2>1. i \in 1..(4 * G) /\ (i - 1) \div 4 = g /\ (i - 1) % 4 = c
    BY <1>1
  <2>2. text[i] = CharOf(data, (i - 1) \div 4, (i - 1) % 4)
    BY <1>5, <1>8, <2>1
  <2> QED
    BY <2>1, <2>2
<1>9. ASSUME NEW g \in 0..(G - 1)
      PROVE  /\ ByteOf(data, 3 * g + 1) \in 0..15 /\ ByteOf(data, 3 * g + 2) \in 0..15
             /\ ByteOf(data, 3 * g + 3) \in 0..15
  BY <1>1, <1>3
<1>10. Encoded(data, L, G)
  BY <1>1, <1>6, <1>7, <1>8, <1>9 DEF text, Encoded
<1> QED
  BY <1>10 DEF L, G

\* What was encoded is read back.
THEOREM Base64RoundTrip ==
  ASSUME NEW data \in Seq(0..15)
  PROVE  Unpacked(base64_encode(data)) = data
<1> DEFINE text == base64_encode(data)
           L == Len(data)
           G == (L + 2) \div 3
           bit(i) == (text[(i \div 3) + 1] \div <<4, 2, 1>>[(i % 3) + 1]) % 2
           B(b) == 8 * bit(4 * b - 4) + 4 * bit(4 * b - 3) + 2 * bit(4 * b - 2) + bit(4 * b - 1)
           u == [b \in 1..L |-> B(b)]
<1>1. /\ L \in Nat /\ G \in Nat /\ L + G \in 0..(4 * G)
      /\ Unpadded(text) = L + G
      /\ \A g \in 0..(G - 1), c \in 0..3 :
           4 * g + c + 1 <= L + G => text[4 * g + c + 1] = CharOf(data, g, c)
      /\ \A g \in 0..(G - 1) : /\ ByteOf(data, 3 * g + 1) \in 0..15
                               /\ ByteOf(data, 3 * g + 2) \in 0..15
                               /\ ByteOf(data, 3 * g + 3) \in 0..15
  <2>1. Encoded(data, L, G)
    BY Base64Chars
  <2> HIDE DEF L, G
  <2> QED
    BY <2>1 DEF Encoded
<1>2. (3 * (L + G)) \div 4 = L
  <2>1. L \in Nat
    BY <1>1
  <2> HIDE DEF L
  <2> QED
    BY <2>1
<1>3. Unpacked(text) = u
  <2>1. Unpacked(text) = [b \in 1..((3 * Unpadded(text)) \div 4) |-> B(b)]
    BY DEF Unpacked
  <2> QED
    BY <1>1, <1>2, <2>1
<1>4. ASSUME NEW b \in 1..L
      PROVE  B(b) = data[b]
  <2> DEFINE g == (b - 1) \div 3
             x == ByteOf(data, 3 * g + 1)
             y == ByteOf(data, 3 * g + 2)
             z == ByteOf(data, 3 * g + 3)
             n == GroupOf(data, g)
             c0 == (n \div 512) % 8
             c1 == (n \div 64) % 8
             c2 == (n \div 8) % 8
             c3 == n % 8
  <2>1. b \in Nat /\ b >= 1 /\ b <= L
    BY <1>1
  <2>2. g \in Nat /\ (b = 3 * g + 1 \/ b = 3 * g + 2 \/ b = 3 * g + 3)
    BY <2>1
  <2>3. g \in 0..(G - 1)
    <3>1. L \in Nat
      BY <1>1
    <3> HIDE DEF L, g
    <3> QED
      BY <2>1, <2>2, <3>1
  <2>4. ByteOf(data, b) = data[b]
    BY <2>1 DEF ByteOf
  <2>5. n = 256 * x + 16 * y + z /\ x \in 0..15 /\ y \in 0..15 /\ z \in 0..15
    BY <1>1, <2>3 DEF GroupOf
  <2>6. /\ x = 8 * ((c0 \div 4) % 2) + 4 * ((c0 \div 2) % 2) + 2 * (c0 % 2) + ((c1 \div 4) % 2)
        /\ y = 8 * ((c1 \div 2) % 2) + 4 * (c1 % 2) + 2 * ((c2 \div 4) % 2) + ((c2 \div 2) % 2)
        /\ z = 8 * (c2 % 2) + 4 * ((c3 \div 4) % 2) + 2 * ((c3 \div 2) % 2) + (c3 % 2)
        /\ c0 \in 0..7 /\ c1 \in 0..7 /\ c2 \in 0..7 /\ c3 \in 0..7
    <3>1. n \in Nat
      <4> HIDE DEF x, y, z, n, c0, c1, c2, c3
      <4> QED
        BY <2>5
    <3>2. Bits(x, y, z, c0, c1, c2, c3)
      <4>1. IsGroup(x, y, z, n)
        <5> HIDE DEF x, y, z, n
        <5> QED
          BY <2>5, <3>1 DEF IsGroup
      <4> HIDE DEF x, y, z, n
      <4> QED
        BY <4>1, BitsOfGroup
    <3> HIDE DEF x, y, z, n, c0, c1, c2, c3
    <3> QED
      BY <3>2, Zenon DEF Bits
  <2>7. /\ CharOf(data, g, 0) = c0 /\ CharOf(data, g, 1) = c1
        /\ CharOf(data, g, 2) = c2 /\ CharOf(data, g, 3) = c3
    <3>1. <<512, 64, 8, 1>>[0 + 1] = 512 /\ <<512, 64, 8, 1>>[1 + 1] = 64
          /\ <<512, 64, 8, 1>>[2 + 1] = 8 /\ <<512, 64, 8, 1>>[3 + 1] = 1
      OBVIOUS
    <3>2. n \in Nat
      <4> HIDE DEF x, y, z, n, c0, c1, c2, c3
      <4> QED
        BY <2>5
    <3> HIDE DEF n
    <3>3. n \div 1 = n
      BY <3>2
    <3> QED
      BY <3>1, <3>3 DEF CharOf, n
  <2> HIDE DEF x, y, z, n, c0, c1, c2, c3, g, text
  <2>8. /\ 4 * g + 1 <= L + G => text[4 * g + 1] = c0
        /\ 4 * g + 2 <= L + G => text[4 * g + 2] = c1
        /\ 4 * g + 3 <= L + G => text[4 * g + 3] = c2
        /\ 4 * g + 4 <= L + G => text[4 * g + 4] = c3
    <3>1. 4 * g + 1 <= L + G => text[4 * g + 1] = c0
      <4>1. 4 * g + 0 + 1 = 4 * g + 1
        BY <2>2
      <4> QED
        BY <1>1, <2>3, <2>7, <4>1
    <3>2. 4 * g + 2 <= L + G => text[4 * g + 2] = c1
      <4>1. 4 * g + 1 + 1 = 4 * g + 2
        BY <2>2
      <4> QED
        BY <1>1, <2>3, <2>7, <4>1
    <3>3. 4 * g + 3 <= L + G => text[4 * g + 3] = c2
      <4>1. 4 * g + 2 + 1 = 4 * g + 3
        BY <2>2
      <4> QED
        BY <1>1, <2>3, <2>7, <4>1
    <3>4. 4 * g + 4 <= L + G => text[4 * g + 4] = c3
      <4>1. 4 * g + 3 + 1 = 4 * g + 4
        BY <2>2
      <4> QED
        BY <1>1, <2>3, <2>7, <4>1
    <3> QED
      BY <3>1, <3>2, <3>3, <3>4
  <2>9. /\ b >= 3 * g + 1 => 4 * g + 2 <= L + G
        /\ b >= 3 * g + 2 => 4 * g + 3 <= L + G
        /\ b >= 3 * g + 3 => 4 * g + 4 <= L + G
    BY <1>1, <2>1, <2>2, <2>3
  <2> DEFINE three == <<4, 2, 1>>
  <2>10. /\ three[0 + 1] = 4 /\ three[1 + 1] = 2 /\ three[2 + 1] = 1
         /\ \A c \in 0..7 : c \div 1 = c
    OBVIOUS
  <2>11. CASE b = 3 * g + 1
    <3>1. 4 * b - 4 = 12 * g /\ 4 * b - 3 = 12 * g + 1 /\ 4 * b - 2 = 12 * g + 2 /\ 4 * b - 1 = 12 * g + 3
      BY <2>2, <2>11
    <3>2. /\ (12 * g) \div 3 = 4 * g /\ (12 * g) % 3 = 0
          /\ (12 * g + 1) \div 3 = 4 * g /\ (12 * g + 1) % 3 = 1
          /\ (12 * g + 2) \div 3 = 4 * g /\ (12 * g + 2) % 3 = 2
          /\ (12 * g + 3) \div 3 = 4 * g + 1 /\ (12 * g + 3) % 3 = 0
          /\ 4 * g + 1 + 1 = 4 * g + 2
      BY <2>2
    <3>3. text[4 * g + 1] = c0 /\ text[4 * g + 2] = c1
      BY <1>1, <2>2, <2>8, <2>9, <2>11
    <3>4. /\ bit(12 * g) = (c0 \div 4) % 2 /\ bit(12 * g + 1) = (c0 \div 2) % 2
          /\ bit(12 * g + 2) = (c0 \div 1) % 2 /\ bit(12 * g + 3) = (c1 \div 4) % 2
      BY <2>10, <3>2, <3>3
    <3>5. B(b) = x
      BY <2>6, <2>10, <3>1, <3>4
    <3> QED
      BY <2>4, <2>11, <3>5 DEF x
  <2>12. CASE b = 3 * g + 2
    <3>1. 4 * b - 4 = 12 * g + 4 /\ 4 * b - 3 = 12 * g + 5 /\ 4 * b - 2 = 12 * g + 6 /\ 4 * b - 1 = 12 * g + 7
      BY <2>2, <2>12
    <3>2. /\ (12 * g + 4) \div 3 = 4 * g + 1 /\ (12 * g + 4) % 3 = 1
          /\ (12 * g + 5) \div 3 = 4 * g + 1 /\ (12 * g + 5) % 3 = 2
          /\ (12 * g + 6) \div 3 = 4 * g + 2 /\ (12 * g + 6) % 3 = 0
          /\ (12 * g + 7) \div 3 = 4 * g + 2 /\ (12 * g + 7) % 3 = 1
          /\ 4 * g + 1 + 1 = 4 * g + 2 /\ 4 * g + 2 + 1 = 4 * g + 3
      BY <2>2
    <3>3. text[4 * g + 2] = c1 /\ text[4 * g + 3] = c2
      BY <1>1, <2>2, <2>8, <2>9, <2>12
    <3>4. /\ bit(12 * g + 4) = (c1 \div 2) % 2 /\ bit(12 * g + 5) = (c1 \div 1) % 2
          /\ bit(12 * g + 6) = (c2 \div 4) % 2 /\ bit(12 * g + 7) = (c2 \div 2) % 2
      BY <2>10, <3>2, <3>3
    <3>5. B(b) = y
      BY <2>6, <2>10, <3>1, <3>4
    <3> QED
      BY <2>4, <2>12, <3>5 DEF y
  <2>13. CASE b = 3 * g + 3
    <3>1. 4 * b - 4 = 12 * g + 8 /\ 4 * b - 3 = 12 * g + 9 /\ 4 * b - 2 = 12 * g + 10 /\ 4 * b - 1 = 12 * g + 11
      BY <2>2, <2>13
    <3>2. /\ (12 * g + 8) \div 3 = 4 * g + 2 /\ (12 * g + 8) % 3 = 2
          /\ (12 * g + 9) \div 3 = 4 * g + 3 /\ (12 * g + 9) % 3 = 0
          /\ (12 * g + 10) \div 3 = 4 * g + 3 /\ (12 * g + 10) % 3 = 1
          /\ (12 * g + 11) \div 3 = 4 * g + 3 /\ (12 * g + 11) % 3 = 2
          /\ 4 * g + 2 + 1 = 4 * g + 3 /\ 4 * g + 3 + 1 = 4 * g + 4
      BY <2>2
    <3>3. text[4 * g + 3] = c2 /\ text[4 * g + 4] = c3
      BY <1>1, <2>2, <2>8, <2>9, <2>13
    <3>4. /\ bit(12 * g + 8) = (c2 \div 1) % 2 /\ bit(12 * g + 9) = (c3 \div 4) % 2
          /\ bit(12 * g + 10) = (c3 \div 2) % 2 /\ bit(12 * g + 11) = (c3 \div 1) % 2
      BY <2>10, <3>2, <3>3
    <3>5. B(b) = z
      BY <2>6, <2>10, <3>1, <3>4
    <3> QED
      BY <2>4, <2>13, <3>5 DEF z
  <2> QED
    BY <2>2, <2>11, <2>12, <2>13
<1> HIDE DEF B
<1>5. u = [b \in 1..L |-> data[b]]
  BY <1>4
<1>6. data = [b \in 1..L |-> data[b]]
  OBVIOUS
<1> QED
  BY <1>3, <1>5, <1>6

-----------------------------------------------------------------------------
(***************************************************************************)
(* Escaped text.                                                           *)
(***************************************************************************)

\* A sequence with one more element.
LEMMA LongerText ==
  ASSUME NEW C, NEW s \in Seq(C), NEW x \in C
  PROVE  /\ Append(s, x) \in Seq(C)
         /\ Len(s) \in Nat /\ DOMAIN s = 1..Len(s)
         /\ Len(Append(s, x)) = Len(s) + 1
         /\ DOMAIN Append(s, x) = 1..(Len(s) + 1)
         /\ Append(s, x)[Len(s) + 1] = x
         /\ \A i \in 1..Len(s) : s[i] \in C /\ Append(s, x)[i] = s[i]
         /\ s \o <<x>> = Append(s, x)
<1>1. Append(s, x) \in Seq(C)
  OBVIOUS
<1>2. Len(s) \in Nat /\ DOMAIN s = 1..Len(s) /\ Len(Append(s, x)) = Len(s) + 1
  OBVIOUS
<1>3. DOMAIN Append(s, x) = 1..(Len(s) + 1)
  BY <1>1, <1>2
<1>4. Append(s, x)[Len(s) + 1] = x
  OBVIOUS
<1>5. \A i \in 1..Len(s) : s[i] \in C /\ Append(s, x)[i] = s[i]
  OBVIOUS
<1>6. s \o <<x>> = Append(s, x)
  OBVIOUS
<1> QED
  BY <1>1, <1>2, <1>3, <1>4, <1>5, <1>6

\* The elements of two sequences after one another.
LEMMA ConcatElements ==
  ASSUME NEW C, NEW s \in Seq(C), NEW t \in Seq(C)
  PROVE  /\ s \o t \in Seq(C)
         /\ Len(s \o t) = Len(s) + Len(t)
         /\ \A i \in 1..Len(s) : (s \o t)[i] = s[i]
         /\ \A i \in 1..Len(t) : (s \o t)[Len(s) + i] = t[i]
<1>1. s \o t \in Seq(C) /\ Len(s \o t) = Len(s) + Len(t)
  OBVIOUS
<1>2. \A i \in 1..Len(s) : (s \o t)[i] = s[i]
  OBVIOUS
<1>3. \A i \in 1..Len(t) : (s \o t)[Len(s) + i] = t[i]
  OBVIOUS
<1> QED
  BY <1>1, <1>2, <1>3

\* A text is replaced character by character.
LEMMA ReplaceAppend ==
  ASSUME NEW C, NEW char \in C, NEW by \in Seq(C)
  PROVE  /\ Replace(<<>>, char, by) = <<>>
         /\ \A text \in Seq(C), x \in C :
              /\ Replace(text, char, by) \in Seq(C)
              /\ Replace(Append(text, x), char, by)
                   = Replace(text, char, by) \o (IF x = char THEN by ELSE <<x>>)
<1> DEFINE P(x) == IF x = char THEN by ELSE <<x>>
           E(text) == [i \in DOMAIN text |-> P(text[i])]
<1>0. \A text : Replace(text, char, by) = FlattenSeq(E(text))
  BY DEF Replace
<1>1. ASSUME NEW x \in C PROVE P(x) \in Seq(C)
  <2>1. <<x>> \in Seq(C)
    OBVIOUS
  <2> QED
    BY <2>1
<1>2. ASSUME NEW text \in Seq(C)
      PROVE  E(text) \in Seq(Seq(C)) /\ Len(E(text)) = Len(text)
  <2>1. DOMAIN text = 1..Len(text) /\ Len(text) \in Nat /\ \A i \in 1..Len(text) : text[i] \in C
    OBVIOUS
  <2>2. \A i \in 1..Len(text) : P(text[i]) \in Seq(C)
    BY <1>1, <2>1
  <2> DEFINE n == Len(text)
             T == Seq(C)
  <2>3. E(text) = [i \in 1..n |-> P(text[i])]
    BY <2>1
  <2> HIDE DEF P, n, T
  <2>4. n \in Nat /\ \A i \in 1..n : P(text[i]) \in T
    BY <2>1, <2>2 DEF n, T
  <2> HIDE DEF E
  <2>5. E(text) \in [1..n -> T]
    BY <2>3, <2>4
  <2>6. \A m \in Nat : \A f : f \in [1..m -> T] => f \in Seq(T) /\ Len(f) = m
    OBVIOUS
  <2> QED
    BY <2>4, <2>5, <2>6 DEF n, T
<1>3. ASSUME NEW text \in Seq(C), NEW x \in C
      PROVE  E(Append(text, x)) = Append(E(text), P(x))
  <2> DEFINE n == Len(text)
             t == Append(text, x)
             T == Seq(C)
  <2>1. /\ n \in Nat /\ DOMAIN text = 1..n /\ DOMAIN t = 1..(n + 1)
        /\ t[n + 1] = x /\ \A i \in 1..n : t[i] = text[i]
    BY LongerText
  <2>2. E(text) \in Seq(T) /\ Len(E(text)) = n /\ P(x) \in T
    BY <1>1, <1>2
  <2> HIDE DEF t, n, P, T
  <2>3. E(t) = [i \in 1..(n + 1) |-> P(t[i])]
    BY <2>1
  <2>4. \A i \in 1..n : E(text)[i] = P(text[i])
    BY <2>1
  <2> HIDE DEF E
  <2>5. Append(E(text), P(x)) = [i \in 1..(n + 1) |-> IF i = n + 1 THEN P(x) ELSE E(text)[i]]
    <3> DEFINE e == E(text)
               y == P(x)
    <3>1. e \in Seq(T) /\ Len(e) = n /\ y \in T
      BY <2>2
    <3> HIDE DEF e, y
    <3>2. DOMAIN Append(e, y) = 1..(n + 1) /\ Append(e, y)[n + 1] = y
          /\ \A i \in 1..n : Append(e, y)[i] = e[i]
      BY <3>1, LongerText
    <3>3. \A i \in 1..(n + 1) : Append(e, y)[i] = IF i = n + 1 THEN y ELSE e[i]
      BY <2>1, <3>2
    <3>4. Append(e, y) = [i \in 1..(n + 1) |-> Append(e, y)[i]]
      <4>1. \A q \in Seq(T) : q = [i \in DOMAIN q |-> q[i]]
        OBVIOUS
      <4>2. Append(e, y) \in Seq(T)
        BY <3>1, LongerText
      <4> QED
        BY <3>2, <4>1, <4>2
    <3> QED
      BY <3>3, <3>4 DEF e, y
  <2>6. \A i \in 1..(n + 1) : P(t[i]) = IF i = n + 1 THEN P(x) ELSE E(text)[i]
    BY <2>1, <2>4
  <2> QED
    BY <2>3, <2>5, <2>6 DEF t
<1>4. Replace(<<>>, char, by) = <<>>
  <2>1. E(<<>>) = <<>>
    OBVIOUS
  <2> QED
    BY <1>0, <2>1, FlattenEmpty
<1> HIDE DEF E, P
<1>5. ASSUME NEW text \in Seq(C), NEW x \in C
      PROVE  /\ Replace(text, char, by) \in Seq(C)
             /\ Replace(Append(text, x), char, by) = Replace(text, char, by) \o P(x)
  <2>1. E(text) \in Seq(Seq(C)) /\ P(x) \in Seq(C)
    BY <1>1, <1>2
  <2>2. /\ FlattenSeq(E(text)) \in Seq(C)
        /\ FlattenSeq(Append(E(text), P(x))) = FlattenSeq(E(text)) \o P(x)
    BY <2>1, FlattenAppend
  <2> QED
    BY <1>0, <1>3, <2>2
<1> QED
  BY <1>4, <1>5 DEF P

\* A replacement of one character by two, character by character.
CharByChar(char, a, e) ==
  LET R(t) == Replace(t, char, <<a, e>>)
  IN  /\ R(<<>>) = <<>>
      /\ \A t \in Text :
           /\ R(t) \in Text
           /\ R(Append(t, char)) = Append(Append(R(t), a), e)
           /\ \A x \in Chars : x # char => R(Append(t, x)) = Append(R(t), x)

\* The empty text stays empty, and only the character it is for is replaced.
LEMMA ReplaceStep ==
  ASSUME NEW char \in Chars, NEW a \in Chars, NEW e \in Chars
  PROVE  CharByChar(char, a, e)
<1> DEFINE by == <<a, e>>
<1>1. by \in Text
  BY DEF Text
<1>2. \A s \in Text, x \in Chars : s \o <<x>> = Append(s, x)
  BY LongerText DEF Text
<1>3. \A s \in Text : s \o <<a, e>> = Append(Append(s, a), e)
  BY DEF Text
<1>4. /\ Replace(<<>>, char, by) = <<>>
      /\ \A text \in Text, x \in Chars :
           /\ Replace(text, char, by) \in Text
           /\ Replace(Append(text, x), char, by)
                = Replace(text, char, by) \o (IF x = char THEN by ELSE <<x>>)
  <2> HIDE DEF by
  <2> QED
    BY <1>1, ReplaceAppend DEF Text
<1>5. ASSUME NEW t \in Text
      PROVE  /\ Replace(t, char, by) \in Text
             /\ Replace(Append(t, char), char, by) = Append(Append(Replace(t, char, by), a), e)
             /\ \A x \in Chars : x # char =>
                  Replace(Append(t, x), char, by) = Append(Replace(t, char, by), x)
  <2> DEFINE r == Replace(t, char, by)
  <2>1. r \in Text
    BY <1>4
  <2>2. Replace(Append(t, char), char, by) = r \o <<a, e>>
    BY <1>4
  <2>3. ASSUME NEW x \in Chars, x # char
        PROVE  Replace(Append(t, x), char, by) = Append(r, x)
    <3>1. Replace(Append(t, x), char, by) = r \o (IF x = char THEN by ELSE <<x>>)
      BY <1>4
    <3> HIDE DEF by, r
    <3>2. Replace(Append(t, x), char, by) = r \o <<x>>
      BY <2>3, <3>1
    <3> QED
      BY <1>2, <2>1, <3>2
  <2>4. r \o <<a, e>> = Append(Append(r, a), e)
    BY <1>3, <2>1
  <2> QED
    BY <2>1, <2>2, <2>3, <2>4
<1> QED
  BY <1>4, <1>5 DEF CharByChar

\* The characters that are written otherwise, and how each is.
Reserved == {"&", "<", ">", "dquote", "'"}

EntityFor(x) ==
  CASE x = "&" -> "amp" [] x = "<" -> "lt" [] x = ">" -> "gt"
    [] x = "dquote" -> "quot" [] x = "'" -> "apos"

\* Each is read back as the character, and holds none of them.
LEMMA EntityFacts ==
  ASSUME NEW x \in Reserved
  PROVE  /\ EntityFor(x) \in DOMAIN Entity /\ EntityFor(x) \in Chars
         /\ EntityFor(x) \notin Reserved
         /\ Entity[EntityFor(x)] = x
<1>1. CASE x = "&"
  BY <1>1, SigningAssumption DEF EntityFor, Entity, Reserved, SigningAssumption
<1>2. CASE x = "<"
  BY <1>2, SigningAssumption DEF EntityFor, Entity, Reserved, SigningAssumption
<1>3. CASE x = ">"
  BY <1>3, SigningAssumption DEF EntityFor, Entity, Reserved, SigningAssumption
<1>4. CASE x = "dquote"
  BY <1>4, SigningAssumption DEF EntityFor, Entity, Reserved, SigningAssumption
<1>5. CASE x = "'"
  BY <1>5, SigningAssumption DEF EntityFor, Entity, Reserved, SigningAssumption
<1> QED
  BY <1>1, <1>2, <1>3, <1>4, <1>5 DEF Reserved

\* One of the five replacements.
Stage(t, c) == Replace(t, c, <<"&", EntityFor(c)>>)

\* A replacement leaves the characters it is not for as they are.
LEMMA StageAppend ==
  ASSUME NEW c \in Reserved
  PROVE  /\ Stage(<<>>, c) = <<>>
         /\ \A t \in Text :
              /\ Stage(t, c) \in Text
              /\ Stage(Append(t, c), c) = Append(Append(Stage(t, c), "&"), EntityFor(c))
              /\ \A x \in Chars : x # c => Stage(Append(t, x), c) = Append(Stage(t, c), x)
<1> DEFINE e == EntityFor(c)
<1>1. e \in Chars
  BY EntityFacts
<1>2. c \in Chars /\ "&" \in Chars
  BY SigningAssumption DEF Reserved
<1> HIDE DEF e
<1>3. CharByChar(c, "&", e)
  BY <1>1, <1>2, ReplaceStep
<1>4. \A t : Replace(t, c, <<"&", e>>) = Stage(t, c)
  BY DEF Stage, e
<1>5. /\ Stage(<<>>, c) = <<>>
      /\ \A t \in Text :
           /\ Stage(t, c) \in Text
           /\ Stage(Append(t, c), c) = Append(Append(Stage(t, c), "&"), e)
           /\ \A x \in Chars : x # c => Stage(Append(t, x), c) = Append(Stage(t, c), x)
  BY <1>3, <1>4 DEF CharByChar
<1> QED
  BY <1>5 DEF e

\* The escaped text of a text with one more character.
LEMMA EscapeAppend ==
  /\ xml_escape(<<>>) = <<>>
  /\ \A t \in Text :
       /\ xml_escape(t) \in Text
       /\ \A x \in Chars :
            xml_escape(Append(t, x)) =
              IF x \in Reserved THEN Append(Append(xml_escape(t), "&"), EntityFor(x))
              ELSE Append(xml_escape(t), x)
<1> DEFINE s1(t) == Stage(t, "&")
           s2(t) == Stage(s1(t), "<")
           s3(t) == Stage(s2(t), ">")
           s4(t) == Stage(s3(t), "dquote")
           s5(t) == Stage(s4(t), "'")
<1>1. \A t : xml_escape(t) = s5(t)
  BY DEF xml_escape, Stage, EntityFor
<1>2. {"&", "<", ">", "dquote", "'"} = Reserved
  BY DEF Reserved
<1> HIDE DEF s1, s2, s3, s4, s5
<1>3. /\ s1(<<>>) = <<>> /\ s2(<<>>) = <<>> /\ s3(<<>>) = <<>> /\ s4(<<>>) = <<>> /\ s5(<<>>) = <<>>
  BY <1>2, StageAppend DEF s1, s2, s3, s4, s5
<1>4. ASSUME NEW t \in Text
      PROVE  s1(t) \in Text /\ s2(t) \in Text /\ s3(t) \in Text /\ s4(t) \in Text /\ s5(t) \in Text
  BY <1>2, StageAppend DEF s1, s2, s3, s4, s5
<1>5. ASSUME NEW t \in Text, NEW x \in Chars
      PROVE  Append(t, x) \in Text
  BY DEF Text
<1>6. ASSUME NEW t \in Text, NEW x \in Chars
      PROVE  /\ x # "&" => s1(Append(t, x)) = Append(s1(t), x)
             /\ x \notin {"&", "<"} => s2(Append(t, x)) = Append(s2(t), x)
             /\ x \notin {"&", "<", ">"} => s3(Append(t, x)) = Append(s3(t), x)
             /\ x \notin {"&", "<", ">", "dquote"} => s4(Append(t, x)) = Append(s4(t), x)
             /\ x \notin Reserved => s5(Append(t, x)) = Append(s5(t), x)
  <2>6. \A u \in Text, c \in {"&", "<", ">", "dquote", "'"} :
           x # c => Stage(Append(u, x), c) = Append(Stage(u, c), x)
    BY <1>2, StageAppend
  <2>7. s1(t) \in Text /\ s2(t) \in Text /\ s3(t) \in Text /\ s4(t) \in Text
    BY <1>4
  <2>1. x # "&" => s1(Append(t, x)) = Append(s1(t), x)
    BY <1>2, StageAppend DEF s1
  <2>2. x \notin {"&", "<"} => s2(Append(t, x)) = Append(s2(t), x)
    <3>1. \A u : s2(u) = Stage(s1(u), "<")
      BY DEF s2
    <3>2. x # "<" => Stage(Append(s1(t), x), "<") = Append(Stage(s1(t), "<"), x)
      BY <2>6, <2>7
    <3> QED
      BY <3>1, <3>2, <2>1
  <2>3. x \notin {"&", "<", ">"} => s3(Append(t, x)) = Append(s3(t), x)
    <3>1. \A u : s3(u) = Stage(s2(u), ">")
      BY DEF s3
    <3>2. x # ">" => Stage(Append(s2(t), x), ">") = Append(Stage(s2(t), ">"), x)
      BY <2>6, <2>7
    <3> QED
      BY <3>1, <3>2, <2>2
  <2>4. x \notin {"&", "<", ">", "dquote"} => s4(Append(t, x)) = Append(s4(t), x)
    <3>1. \A u : s4(u) = Stage(s3(u), "dquote")
      BY DEF s4
    <3>2. x # "dquote" => Stage(Append(s3(t), x), "dquote") = Append(Stage(s3(t), "dquote"), x)
      BY <2>6, <2>7
    <3> QED
      BY <3>1, <3>2, <2>3
  <2>5. x \notin Reserved => s5(Append(t, x)) = Append(s5(t), x)
    <3>1. \A u : s5(u) = Stage(s4(u), "'")
      BY DEF s5
    <3>2. x # "'" => Stage(Append(s4(t), x), "'") = Append(Stage(s4(t), "'"), x)
      BY <2>6, <2>7
    <3> QED
      BY <3>1, <3>2, <2>4, <1>2
  <2> QED
    BY <2>1, <2>2, <2>3, <2>4, <2>5
\* What has been written for a character is not read by a later replacement.
<1>7. ASSUME NEW u \in Text, NEW c \in Reserved, c # "&", NEW e \in Chars, e \notin Reserved
      PROVE  Stage(Append(Append(u, "&"), e), c) = Append(Append(Stage(u, c), "&"), e)
  <2>1. "&" \in Chars /\ "&" # c /\ e # c
    BY <1>7, SigningAssumption
  <2>2. Append(u, "&") \in Text
    BY <2>1, <1>5
  <2> QED
    BY <2>1, <2>2, StageAppend
<1>8. ASSUME NEW t \in Text, NEW x \in Reserved
      PROVE  s5(Append(t, x)) = Append(Append(s5(t), "&"), EntityFor(x))
  <2> DEFINE e == EntityFor(x)
             W(u) == Append(Append(u, "&"), e)
  <2>1. e \in Chars /\ e \notin Reserved
    BY EntityFacts
  <2>2. \A u \in Text, c \in Reserved : c # "&" => Stage(W(u), c) = W(Stage(u, c))
    BY <1>7, <2>1
  <2>3. \A u \in Text : Stage(Append(u, x), x) = W(Stage(u, x))
    BY StageAppend
  <2>4. x \in Chars
    BY SigningAssumption DEF Reserved
  <2>5. s1(t) \in Text /\ s2(t) \in Text /\ s3(t) \in Text /\ s4(t) \in Text
    BY <1>4
  <2>0. \A c \in {"<", ">", "dquote", "'"} : c \in Reserved /\ c # "&"
    BY DEF Reserved
  <2> HIDE DEF e, W
  <2>15. \A u \in Text, c \in {"<", ">", "dquote", "'"} : Stage(W(u), c) = W(Stage(u, c))
    BY <2>0, <2>2
  <2>6. s1(Append(t, x)) = W(s1(t)) => s2(Append(t, x)) = W(s2(t))
    <3>1. \A u : s2(u) = Stage(s1(u), "<")
      BY DEF s2
    <3>2. Stage(W(s1(t)), "<") = W(Stage(s1(t), "<"))
      BY <2>5, <2>15
    <3> QED
      BY <3>1, <3>2
  <2>7. s2(Append(t, x)) = W(s2(t)) => s3(Append(t, x)) = W(s3(t))
    <3>1. \A u : s3(u) = Stage(s2(u), ">")
      BY DEF s3
    <3>2. Stage(W(s2(t)), ">") = W(Stage(s2(t), ">"))
      BY <2>5, <2>15
    <3> QED
      BY <3>1, <3>2
  <2>8. s3(Append(t, x)) = W(s3(t)) => s4(Append(t, x)) = W(s4(t))
    <3>1. \A u : s4(u) = Stage(s3(u), "dquote")
      BY DEF s4
    <3>2. Stage(W(s3(t)), "dquote") = W(Stage(s3(t), "dquote"))
      BY <2>5, <2>15
    <3> QED
      BY <3>1, <3>2
  <2>9. s4(Append(t, x)) = W(s4(t)) => s5(Append(t, x)) = W(s5(t))
    <3>1. \A u : s5(u) = Stage(s4(u), "'")
      BY DEF s5
    <3>2. Stage(W(s4(t)), "'") = W(Stage(s4(t), "'"))
      BY <2>5, <2>15
    <3> QED
      BY <3>1, <3>2
  <2>10. CASE x = "&"
    <3>1. s1(Append(t, x)) = W(s1(t))
      BY <2>3, <2>10 DEF s1
    <3> QED
      BY <3>1, <2>6, <2>7, <2>8, <2>9 DEF W, e
  <2>11. CASE x = "<"
    <3>1. s1(Append(t, x)) = Append(s1(t), x)
      BY <1>6, <2>4, <2>11
    <3>2. s2(Append(t, x)) = W(s2(t))
      BY <2>3, <2>5, <2>11, <3>1 DEF s2
    <3> QED
      BY <3>2, <2>7, <2>8, <2>9 DEF W, e
  <2>12. CASE x = ">"
    <3>1. s2(Append(t, x)) = Append(s2(t), x)
      BY <1>6, <2>4, <2>12
    <3>2. s3(Append(t, x)) = W(s3(t))
      BY <2>3, <2>5, <2>12, <3>1 DEF s3
    <3> QED
      BY <3>2, <2>8, <2>9 DEF W, e
  <2>13. CASE x = "dquote"
    <3>1. s3(Append(t, x)) = Append(s3(t), x)
      BY <1>6, <2>4, <2>13
    <3>2. s4(Append(t, x)) = W(s4(t))
      BY <2>3, <2>5, <2>13, <3>1 DEF s4
    <3> QED
      BY <3>2, <2>9 DEF W, e
  <2>14. CASE x = "'"
    <3>1. s4(Append(t, x)) = Append(s4(t), x)
      BY <1>6, <2>4, <2>14
    <3>2. s5(Append(t, x)) = W(s5(t))
      BY <2>3, <2>5, <2>14, <3>1 DEF s5
    <3> QED
      BY <3>2 DEF W, e
  <2> QED
    BY <2>10, <2>11, <2>12, <2>13, <2>14 DEF Reserved
<1> QED
  BY <1>1, <1>3, <1>4, <1>6, <1>8

\* What an XML reader finds at a place of escaped text, and where it can read.
Piece(u, i) ==
  IF u[i] = "&" THEN <<Entity[u[i + 1]]>>
  ELSE IF i > 1 /\ u[i - 1] = "&" THEN <<>> ELSE <<u[i]>>

WellEscaped(u) ==
  \A i \in 1..Len(u) :
    /\ u[i] # "<"
    /\ u[i] = "&" => i < Len(u) /\ u[i + 1] \in DOMAIN Entity

Pieces(u) == [i \in 1..Len(u) |-> Piece(u, i)]

\* u is read, and t is what is found.
Reads(u, t) ==
  /\ u \in Text /\ WellEscaped(u)
  /\ Pieces(u) \in Seq(Text)
  /\ FlattenSeq(Pieces(u)) = t

\* Such a text is read as what it stands for.
LEMMA ReadsIsUnescaped ==
  ASSUME NEW u, NEW t, Reads(u, t)
  PROVE  Unescaped(u) = t
<1>1. DOMAIN u = 1..Len(u)
  BY DEF Reads, Text
<1>2. WellEscaped(u) /\ FlattenSeq(Pieces(u)) = t
  BY DEF Reads
<1>3. Pieces(u) = [i \in DOMAIN u |-> IF u[i] = "&" THEN <<Entity[u[i + 1]]>>
                     ELSE IF i > 1 /\ u[i - 1] = "&" THEN <<>> ELSE <<u[i]>>]
  BY <1>1 DEF Pieces, Piece
<1> QED
  BY <1>1, <1>2, <1>3 DEF Unescaped, WellEscaped

\* A sequence is the function of its elements.
LEMMA ItsElements ==
  ASSUME NEW T, NEW q \in Seq(T), NEW m \in Nat, Len(q) = m
  PROVE  q = [i \in 1..m |-> q[i]]
OBVIOUS

\* A character that stands for itself is one more piece.
LEMMA ReadsPlain ==
  ASSUME NEW u, NEW t \in Text, Reads(u, t), NEW x \in Chars, x \notin {"&", "<"}
  PROVE  Reads(Append(u, x), Append(t, x))
<1> DEFINE n == Len(u)
           v == Append(u, x)
           p == Pieces(u)
           q == Append(p, <<x>>)
<1>1. u \in Seq(Chars) /\ WellEscaped(u) /\ p \in Seq(Text) /\ FlattenSeq(p) = t
  BY DEF Reads, Text
<1>2. /\ v \in Seq(Chars) /\ n \in Nat /\ Len(v) = n + 1 /\ v[n + 1] = x
      /\ \A i \in 1..n : v[i] = u[i]
  BY <1>1, LongerText
<1>3. p = [i \in 1..n |-> Piece(u, i)]
  BY DEF Pieces
<1>4. Len(p) = n
  <2> HIDE DEF p, n
  <2>1. DOMAIN p = 1..n
    BY <1>3
  <2> QED
    BY <1>1, <1>2, <2>1
<1>5. Pieces(v) = [i \in 1..(n + 1) |-> Piece(v, i)]
  BY <1>2 DEF Pieces
<1>6. <<x>> \in Text
  BY DEF Text
<1>7. /\ q \in Seq(Text) /\ Len(q) = n + 1 /\ q[n + 1] = <<x>>
      /\ \A i \in 1..n : q[i] = p[i]
  <2> HIDE DEF p, n
  <2> QED
    BY <1>1, <1>4, <1>6, LongerText
<1>8. \A i \in 1..n : u[i] # "<" /\ (u[i] = "&" => i < n /\ u[i + 1] \in DOMAIN Entity)
  BY <1>1 DEF WellEscaped
<1> HIDE DEF n, v, p, q
<1>9. ASSUME NEW i \in 1..n
      PROVE  /\ v[i] = u[i]
             /\ v[i] = "&" => v[i + 1] = u[i + 1] /\ i < n
             /\ i > 1 => v[i - 1] = u[i - 1]
  <2>1. u[i] = "&" => i + 1 \in 1..n
    BY <1>2, <1>8
  <2>2. i > 1 => i - 1 \in 1..n
    BY <1>2
  <2> QED
    BY <1>2, <1>8, <2>1, <2>2
<1>10. ASSUME NEW i \in 1..n
       PROVE  Piece(v, i) = q[i]
  <2>1. Piece(v, i) = Piece(u, i)
    BY <1>9 DEF Piece
  <2> QED
    BY <1>3, <1>7, <2>1
<1>11. Piece(v, n + 1) = q[n + 1]
  <2>1. n + 1 > 1 => n \in 1..n /\ (n + 1) - 1 = n
    BY <1>2
  <2>2. n + 1 > 1 => v[n] = u[n] /\ u[n] # "&"
    BY <1>2, <1>8, <2>1
  <2> QED
    BY <1>2, <1>7, <2>1, <2>2 DEF Piece
<1>12. \A i \in 1..(n + 1) : Piece(v, i) = q[i]
  BY <1>2, <1>10, <1>11
<1>13. Pieces(v) = q
  <2>1. n + 1 \in Nat
    BY <1>2
  <2>2. q = [i \in 1..(n + 1) |-> q[i]]
    BY <1>7, <2>1, ItsElements
  <2> QED
    BY <1>5, <1>12, <2>2
<1>14. WellEscaped(v)
  <2>1. ASSUME NEW i \in 1..(n + 1)
        PROVE  v[i] # "<" /\ (v[i] = "&" => i < n + 1 /\ v[i + 1] \in DOMAIN Entity)
    <3>1. CASE i \in 1..n
      BY <1>2, <1>8, <1>9, <3>1
    <3>2. CASE i = n + 1
      BY <1>2, <3>2
    <3> QED
      BY <1>2, <3>1, <3>2
  <2> QED
    BY <1>2, <2>1 DEF WellEscaped
<1>15. FlattenSeq(q) = t \o <<x>>
  <2>1. p \in Seq(Seq(Chars)) /\ <<x>> \in Seq(Chars)
    BY <1>1, <1>6 DEF Text
  <2>2. FlattenSeq(Append(p, <<x>>)) = FlattenSeq(p) \o <<x>>
    BY <2>1, FlattenAppend
  <2> QED
    BY <1>1, <2>2 DEF q
<1>16. t \o <<x>> = Append(t, x)
  BY LongerText DEF Text
<1> QED
  BY <1>2, <1>7, <1>13, <1>14, <1>15, <1>16 DEF Reads, Text, v

\* An entity is one more piece, and an empty one after it.
LEMMA ReadsEntity ==
  ASSUME NEW u, NEW t \in Text, Reads(u, t), NEW x \in Reserved
  PROVE  Reads(Append(Append(u, "&"), EntityFor(x)), Append(t, x))
<1> DEFINE n == Len(u)
           a == "&"
           e == EntityFor(x)
           v == Append(u, a)
           w == Append(v, e)
           p == Pieces(u)
           q == Append(p, <<x>>)
           r == Append(q, <<>>)
<1>0. /\ e \in Chars /\ e \in DOMAIN Entity /\ e # a /\ e # "<" /\ Entity[e] = x
      /\ a \in Chars /\ a # "<" /\ x \in Chars /\ a = "&"
  <2>1. e \in Chars /\ e \in DOMAIN Entity /\ Entity[e] = x /\ e \notin Reserved
    BY EntityFacts
  <2>2. a \in Chars /\ x \in Chars /\ "&" \in Reserved /\ "<" \in Reserved
    BY SigningAssumption DEF Reserved
  <2> HIDE DEF e
  <2> QED
    BY <2>1, <2>2
<1>1. u \in Seq(Chars) /\ WellEscaped(u) /\ p \in Seq(Text) /\ FlattenSeq(p) = t
  BY DEF Reads, Text
<1> HIDE DEF e, a
<1>2. /\ v \in Seq(Chars) /\ n \in Nat /\ Len(v) = n + 1 /\ v[n + 1] = a
      /\ \A i \in 1..n : v[i] = u[i]
  BY <1>0, <1>1, LongerText
<1> HIDE DEF v, n
<1>3. /\ w \in Seq(Chars) /\ Len(w) = n + 2 /\ w[n + 2] = e
      /\ \A i \in 1..(n + 1) : w[i] = v[i]
  <2>1. /\ w \in Seq(Chars) /\ Len(w) = Len(v) + 1 /\ w[Len(v) + 1] = e
        /\ \A i \in 1..Len(v) : w[i] = v[i]
    BY <1>0, <1>2, LongerText
  <2>2. Len(v) + 1 = n + 2
    BY <1>2
  <2> HIDE DEF w
  <2> QED
    BY <1>2, <2>1, <2>2
<1>4. p = [i \in 1..n |-> Piece(u, i)]
  BY DEF Pieces, n
<1>5. Len(p) = n
  <2> HIDE DEF p
  <2>1. DOMAIN p = 1..n
    BY <1>4
  <2> QED
    BY <1>1, <1>2, <2>1
<1>6. Pieces(w) = [i \in 1..(n + 2) |-> Piece(w, i)]
  BY <1>3 DEF Pieces
<1>7. <<x>> \in Text /\ <<>> \in Text
  BY <1>0 DEF Text
<1> HIDE DEF p
<1>8. /\ q \in Seq(Text) /\ Len(q) = n + 1 /\ q[n + 1] = <<x>>
      /\ \A i \in 1..n : q[i] = p[i]
  BY <1>1, <1>5, <1>7, LongerText
<1> HIDE DEF q
<1>9. /\ r \in Seq(Text) /\ Len(r) = n + 2 /\ r[n + 2] = <<>>
      /\ \A i \in 1..(n + 1) : r[i] = q[i]
  <2>1. /\ r \in Seq(Text) /\ Len(r) = Len(q) + 1 /\ r[Len(q) + 1] = <<>>
        /\ \A i \in 1..Len(q) : r[i] = q[i]
    BY <1>7, <1>8, LongerText
  <2>2. Len(q) + 1 = n + 2
    BY <1>2, <1>8
  <2> HIDE DEF r
  <2> QED
    BY <1>8, <2>1, <2>2
<1>10. \A i \in 1..n : u[i] # "<" /\ (u[i] = a => i < n /\ u[i + 1] \in DOMAIN Entity)
  BY <1>1 DEF WellEscaped, n, a
<1> HIDE DEF w, r
<1>11. ASSUME NEW i \in 1..n
       PROVE  /\ w[i] = u[i]
              /\ u[i] = a => w[i + 1] = u[i + 1] /\ i < n
              /\ i > 1 => w[i - 1] = u[i - 1]
  <2>1. u[i] = a => i + 1 \in 1..n
    BY <1>2, <1>10
  <2>2. i > 1 => i - 1 \in 1..n
    BY <1>2
  <2>3. \A j \in 1..n : w[j] = u[j]
    BY <1>2, <1>3
  <2> QED
    BY <1>10, <2>1, <2>2, <2>3
<1>12. w[n + 1] = a /\ w[n + 2] = e
  BY <1>2, <1>3
<1>13. ASSUME NEW i \in 1..n
       PROVE  Piece(w, i) = r[i]
  <2>1. Piece(w, i) = Piece(u, i)
    BY <1>11 DEF Piece, a
  <2> QED
    BY <1>2, <1>4, <1>8, <1>9, <2>1
<1>14. Piece(w, n + 1) = r[n + 1]
  <2>1. n + 1 + 1 = n + 2 /\ n + 1 \in 1..(n + 1)
    BY <1>2
  <2>2. Piece(w, n + 1) = <<x>>
    BY <1>0, <1>12, <2>1 DEF Piece
  <2> QED
    BY <1>8, <1>9, <2>1, <2>2
<1>15. Piece(w, n + 2) = r[n + 2]
  <2>1. n + 2 > 1 /\ (n + 2) - 1 = n + 1
    BY <1>2
  <2>2. w[n + 2] # "&" /\ w[(n + 2) - 1] = "&"
    BY <1>0, <1>12, <2>1
  <2>3. Piece(w, n + 2) = <<>>
    BY <2>1, <2>2 DEF Piece
  <2> QED
    BY <1>9, <2>3
<1>16. \A i \in 1..(n + 2) : Piece(w, i) = r[i]
  BY <1>2, <1>13, <1>14, <1>15
<1>17. Pieces(w) = r
  <2>1. n + 2 \in Nat
    BY <1>2
  <2>2. r = [i \in 1..(n + 2) |-> r[i]]
    BY <1>9, <2>1, ItsElements
  <2> QED
    BY <1>6, <1>16, <2>2
<1>18. WellEscaped(w)
  <2>1. ASSUME NEW i \in 1..(n + 2)
        PROVE  w[i] # "<" /\ (w[i] = a => i < n + 2 /\ w[i + 1] \in DOMAIN Entity)
    <3>1. CASE i \in 1..n
      BY <1>2, <1>10, <1>11, <3>1
    <3>2. CASE i = n + 1
      <4>1. n + 1 + 1 = n + 2 /\ n + 1 < n + 2
        BY <1>2
      <4> QED
        BY <1>0, <1>12, <3>2, <4>1
    <3>3. CASE i = n + 2
      BY <1>0, <1>12, <3>3
    <3> QED
      BY <1>2, <3>1, <3>2, <3>3
  <2> QED
    BY <1>3, <2>1 DEF WellEscaped, a
<1>19. FlattenSeq(r) = Append(t, x)
  <2>1. p \in Seq(Seq(Chars)) /\ q \in Seq(Seq(Chars)) /\ <<x>> \in Seq(Chars) /\ <<>> \in Seq(Chars)
    BY <1>1, <1>7, <1>8 DEF Text
  <2>2. FlattenSeq(q) = t \o <<x>>
    BY <1>1, <2>1, FlattenAppend DEF q
  <2>3. FlattenSeq(r) = FlattenSeq(q) \o <<>>
    BY <2>1, FlattenAppend DEF r
  <2>4. t \o <<x>> = Append(t, x) /\ Append(t, x) \in Text
    BY <1>0, LongerText DEF Text
  <2>5. \A s \in Text : s \o <<>> = s
    BY DEF Text
  <2> QED
    BY <2>2, <2>3, <2>4, <2>5
<1> QED
  BY <1>3, <1>9, <1>17, <1>18, <1>19 DEF Reads, Text, w, v, a, e

\* What has been escaped is read as it was.
THEOREM EscapeRoundTrip ==
  \A t \in Text : xml_escape(t) \in Text /\ Unescaped(xml_escape(t)) = t
<1> DEFINE P(n) == \A t \in Text : Len(t) = n => Reads(xml_escape(t), t)
           N == {n \in Nat : P(n)}
<1>1. P(0)
  <2> SUFFICES ASSUME NEW t \in Text, Len(t) = 0
               PROVE  Reads(xml_escape(t), t)
    OBVIOUS
  <2>1. t = <<>>
    BY DEF Text
  <2>2. Reads(<<>>, <<>>)
    <3>1. <<>> \in Text /\ Len(<<>>) = 0
      BY DEF Text
    <3>2. Pieces(<<>>) = <<>> /\ WellEscaped(<<>>)
      BY <3>1 DEF Pieces, WellEscaped
    <3>3. <<>> \in Seq(Text)
      OBVIOUS
    <3> QED
      BY <3>1, <3>2, <3>3, FlattenEmpty DEF Reads
  <2> QED
    BY <2>1, <2>2, EscapeAppend
<1>2. ASSUME NEW n \in Nat, P(n)
      PROVE  P(n + 1)
  <2> SUFFICES ASSUME NEW t \in Text, Len(t) = n + 1
               PROVE  Reads(xml_escape(t), t)
    OBVIOUS
  <2> DEFINE s == SubSeq(t, 1, n)
             x == t[n + 1]
  <2>1. s \in Text /\ x \in Chars /\ Append(s, x) = t /\ Len(s) = n
    <3>1. t \in Seq(Chars) /\ n + 1 <= Len(t) /\ Len(t) \in Nat
      BY <1>2 DEF Text
    <3>2. s \in Seq(Chars) /\ x \in Chars /\ SubSeq(t, 1, n + 1) = Append(s, x)
      BY <3>1, CutAfter
    <3>3. SubSeq(t, 1, Len(t)) = t
      BY <3>1
    <3>4. Len(s) = n
      BY <1>2, <3>1
    <3> QED
      BY <3>2, <3>3, <3>4 DEF Text
  <2> HIDE DEF s, x
  <2>2. Reads(xml_escape(s), s)
    BY <1>2, <2>1
  <2>3. CASE x \in Reserved
    <3>1. xml_escape(t) = Append(Append(xml_escape(s), "&"), EntityFor(x))
      BY <2>1, <2>3, EscapeAppend
    <3> QED
      BY <2>1, <2>2, <2>3, <3>1, ReadsEntity
  <2>4. CASE x \notin Reserved
    <3>1. xml_escape(t) = Append(xml_escape(s), x)
      BY <2>1, <2>4, EscapeAppend
    <3>2. x \notin {"&", "<"}
      BY <2>4 DEF Reserved
    <3> QED
      BY <2>1, <2>2, <3>1, <3>2, ReadsPlain
  <2> QED
    BY <2>3, <2>4
<1> HIDE DEF P
<1>3. Nat \subseteq N
  <2> HIDE DEF N
  <2>1. 0 \in N /\ \A n \in Nat : n \in N => n + 1 \in N
    BY <1>1, <1>2 DEF N
  <2> QED
    BY <2>1, SetInduction
<1>4. ASSUME NEW t \in Text
      PROVE  xml_escape(t) \in Text /\ Unescaped(xml_escape(t)) = t
  <2>1. Len(t) \in Nat
    BY DEF Text
  <2>2. Reads(xml_escape(t), t)
    <3>1. \A n \in N : P(n)
      OBVIOUS
    <3>2. P(Len(t))
      BY <1>3, <2>1, <3>1
    <3> QED
      BY <3>2 DEF P
  <2> QED
    BY <2>2, ReadsIsUnescaped DEF Reads
<1> QED
  BY <1>4

-----------------------------------------------------------------------------
(***************************************************************************)
(* The invariant.                                                          *)
(***************************************************************************)
\* The entitlements the program of p has read of the binary it rewrote.
PolicyRead(p) ==
  [key \in Carried |-> read[p] /\ binary[p].signed /\ key \in binary[p].entitlements]

\* What a report says of the shim when it says enough.
GoodInfo(info) ==
  /\ info \in Info
  /\ Len(info.cdhash) = HashLen
  /\ info.identifier = ShimIdentifier
  /\ info.team # NotSet

\* The signature p's call asks for.
Asked(p) ==
  LET s == signing[p]
  IN  [by |-> s.identity, content |-> exe[p].content,
       entitlements |-> EntitlementsList(s.identity, s.policy, s.allow),
       constraint |-> ConstraintList(s.identity, s.info)]

Calls == [pc : {"idle", "entitlements", "shim", "info", "write", "constraint", "codesign"},
          identity : Identities \cup {None}, allow : BOOLEAN, policy : [Carried -> BOOLEAN],
          info : Info \cup {None}, dir : Dirs \cup {None}, result : {None, "ok", "error"}]

SignTypes ==
  /\ shim \in [content : 1..MaxShims, sig : {None} \cup [by : Identities, content : 1..MaxShims]]
  /\ exe \in [Programs -> [content : Nat, sig : {None} \cup Signature]]
  /\ binary \in [Programs -> Binaries]
  /\ dirs \in [Dirs -> [entitlements : {None} \cup SUBSET (Carried \cup {DisableLibraryValidation}),
                        constraint : {None} \cup Constraint]]
  /\ signing \in [Programs -> Calls]
  /\ read \in [Programs -> BOOLEAN]

\* How far p's call has come: it has read the entitlements, and the report, ...
Past(p, pcs) == signing[p].pc \in pcs \/ signing[p].result = "ok"

HasRead(p) ==
  /\ signing[p].pc = "entitlements" => signing[p].policy = EmptyPolicy
  /\ Past(p, {"shim", "info", "write", "constraint", "codesign"}) => signing[p].policy = PolicyRead(p)

HasInfo(p) == Past(p, {"write", "constraint", "codesign"}) => GoodInfo(signing[p].info)

HasAsked(p) == Past(p, {"constraint", "codesign"}) => Usable(signing[p].identity, signing[p].info)

\* ... written its lists, in a directory of its own, ...
HasWritten(p) ==
  LET s == signing[p]
  IN  /\ s.pc \in {"constraint", "codesign"} =>
           dirs[s.dir].entitlements = EntitlementsList(s.identity, s.policy, s.allow)
      /\ s.pc = "codesign" => dirs[s.dir].constraint = ConstraintList(s.identity, s.info)

OwnDirs ==
  \A p, q \in Programs :
    p # q /\ signing[p].pc # "idle" /\ signing[q].pc # "idle" => signing[p].dir # signing[q].dir

\* ... and signed the copy, which is when it returns.
HasSigned(p) ==
  /\ signing[p].pc # "idle" =>
       signing[p].identity \in Identities /\ signing[p].dir \in Dirs /\ signing[p].result = None
  /\ signing[p].result = "ok" => signing[p].identity \in Identities
  /\ exe[p].sig = IF signing[p].result = "ok" THEN Asked(p) ELSE None

Sound(p) == HasRead(p) /\ HasInfo(p) /\ HasAsked(p) /\ HasWritten(p) /\ HasSigned(p)

SignInv == SignTypes /\ OwnDirs /\ \A p \in Programs : Sound(p)

\* What is read of the list codesign prints is what was printed.
LEMMA PlistReads ==
  \A entitlements : \A key \in Carried : plist_bool(Printed(entitlements), key) <=> key \in entitlements
<1> SUFFICES ASSUME NEW es, NEW key \in Carried
             PROVE  plist_bool(Printed(es), key) <=> key \in es
  OBVIOUS
<1> DEFINE a == IF AllowJit \in es THEN "true" ELSE "false"
           b == IF AllowUnsigned \in es THEN "true" ELSE "false"
           s == <<"plist", "dict", AllowJit, a, AllowUnsigned, "blank", b>>
           t == <<GetTaskAllow, "blank", "blank", "true">>
           S == {"plist", "dict", AllowJit, AllowUnsigned, GetTaskAllow, "blank", "true", "false"}
           x == Printed(es)
<1>1. /\ s \in Seq(S) /\ Len(s) = 7
      /\ s[1] = "plist" /\ s[2] = "dict" /\ s[3] = AllowJit /\ s[4] = a
      /\ s[5] = AllowUnsigned /\ s[6] = "blank" /\ s[7] = b
  OBVIOUS
<1>2. /\ t \in Seq(S) /\ Len(t) = 4
      /\ t[1] = GetTaskAllow /\ t[2] = "blank" /\ t[3] = "blank" /\ t[4] = "true"
  OBVIOUS
<1>3. x = s \o (IF GetTaskAllow \in es THEN t ELSE <<>>)
  BY DEF Printed
<1> HIDE DEF s, t, S, x, a, b
<1>4. /\ \A i \in 1..7 : x[i] = s[i]
      /\ DOMAIN x = 1..Len(x)
      /\ \/ GetTaskAllow \in es /\ Len(x) = 11 /\ \A i \in 1..4 : x[7 + i] = t[i]
         \/ GetTaskAllow \notin es /\ Len(x) = 7
  <2>1. CASE GetTaskAllow \in es
    <3>1. x = s \o t
      BY <1>3, <2>1
    <3>2. s \in Seq(S) /\ t \in Seq(S)
      BY <1>1, <1>2
    <3>3. Len(s) = 7 /\ Len(t) = 4
      BY <1>1, <1>2
    <3>4. /\ s \o t \in Seq(S) /\ Len(s \o t) = Len(s) + Len(t)
          /\ \A i \in 1..Len(s) : (s \o t)[i] = s[i]
          /\ \A i \in 1..Len(t) : (s \o t)[Len(s) + i] = t[i]
      BY <3>2, ConcatElements
    <3>5. /\ x \in Seq(S) /\ Len(x) = 7 + 4
          /\ \A i \in 1..7 : x[i] = s[i]
          /\ \A i \in 1..4 : x[7 + i] = t[i]
      BY <3>1, <3>3, <3>4
    <3>6. DOMAIN x = 1..Len(x) /\ Len(x) = 11
      BY <3>5
    <3> QED
      BY <2>1, <3>5, <3>6
  <2>2. CASE GetTaskAllow \notin es
    <3>1. s \in Seq(S) /\ Len(s) = 7
      BY <1>1
    <3>2. x = s
      BY <1>3, <2>2, <3>1
    <3>3. DOMAIN s = 1..Len(s)
      BY <3>1
    <3>4. Len(x) = 7 /\ DOMAIN x = 1..Len(x) /\ \A i \in 1..7 : x[i] = s[i]
      BY <3>1, <3>2, <3>3, Zenon
    <3> QED
      BY <2>2, <3>4
  <2> QED
    BY <2>1, <2>2
<1>5. /\ x[1] = "plist" /\ x[2] = "dict" /\ x[3] = AllowJit /\ x[4] = a
      /\ x[5] = AllowUnsigned /\ x[6] = "blank" /\ x[7] = b
  <2>1. 1 \in 1..7 /\ 2 \in 1..7 /\ 3 \in 1..7 /\ 4 \in 1..7 /\ 5 \in 1..7 /\ 6 \in 1..7 /\ 7 \in 1..7
    OBVIOUS
  <2>2. /\ s[1] = "plist" /\ s[2] = "dict" /\ s[3] = AllowJit /\ s[4] = a
        /\ s[5] = AllowUnsigned /\ s[6] = "blank" /\ s[7] = b
    BY <1>1
  <2>3. x[1] = s[1] /\ x[2] = s[2] /\ x[3] = s[3] /\ x[4] = s[4] /\ x[5] = s[5] /\ x[6] = s[6] /\ x[7] = s[7]
    BY <1>4, <2>1, Zenon
  <2> QED
    BY <2>2, <2>3, Zenon
<1>6. GetTaskAllow \in es => x[8] = GetTaskAllow /\ x[9] = "blank" /\ x[10] = "blank" /\ x[11] = "true"
  <2>1. 1 \in 1..4 /\ 2 \in 1..4 /\ 3 \in 1..4 /\ 4 \in 1..4
    OBVIOUS
  <2>2. t[1] = GetTaskAllow /\ t[2] = "blank" /\ t[3] = "blank" /\ t[4] = "true"
    BY <1>2
  <2>3. GetTaskAllow \in es => x[7 + 1] = t[1] /\ x[7 + 2] = t[2] /\ x[7 + 3] = t[3] /\ x[7 + 4] = t[4]
    BY <1>4, <2>1, Zenon
  <2>4. 7 + 1 = 8 /\ 7 + 2 = 9 /\ 7 + 3 = 10 /\ 7 + 4 = 11
    OBVIOUS
  <2> QED
    BY <2>2, <2>3, <2>4, Zenon
<1>7. (GetTaskAllow \in es /\ Len(x) = 11) \/ (GetTaskAllow \notin es /\ Len(x) = 7)
  BY <1>4, Zenon
<1>8. (a = "true" <=> AllowJit \in es) /\ a \in {"true", "false"}
      /\ (b = "true" <=> AllowUnsigned \in es) /\ b \in {"true", "false"}
  BY DEF a, b
<1>9. plist_bool(x, key) <=>
        \E i \in 1..Len(x) :
          /\ x[i] = key
          /\ \A h \in 1..(i - 1) : x[h] # key
          /\ \E j \in (i + 1)..Len(x) : x[j] = "true" /\ \A h \in (i + 1)..(j - 1) : x[h] = "blank"
  BY <1>4 DEF plist_bool
<1>10. /\ AllowJit # AllowUnsigned /\ AllowJit # GetTaskAllow /\ AllowUnsigned # GetTaskAllow
       /\ {AllowJit, AllowUnsigned, GetTaskAllow} \cap {"plist", "dict", "blank", "true", "false"} = {}
  BY DEF AllowJit, AllowUnsigned, GetTaskAllow
<1>15. \A i \in 1..Len(x) : i \in {1, 2, 3, 4, 5, 6, 7} \/ (i \in {8, 9, 10, 11} /\ GetTaskAllow \in es)
  <2>1. \A i \in 1..7 : i \in {1, 2, 3, 4, 5, 6, 7}
    OBVIOUS
  <2>2. \A i \in 1..11 : i \in {1, 2, 3, 4, 5, 6, 7} \/ i \in {8, 9, 10, 11}
    OBVIOUS
  <2>3. CASE GetTaskAllow \in es
    <3>1. Len(x) = 11
      BY <1>7, <2>3
    <3> QED
      BY <2>2, <2>3, <3>1
  <2>4. CASE GetTaskAllow \notin es
    <3>1. Len(x) = 7
      BY <1>7, <2>4
    <3> QED
      BY <2>1, <3>1
  <2> QED
    BY <2>3, <2>4
<1>16. a # key /\ b # key /\ "plist" # key /\ "dict" # key /\ "blank" # key /\ "true" # key
  BY <1>8, <1>10 DEF Carried
\* The one place of the key, and what follows it.
<1>11. ASSUME key = AllowJit PROVE plist_bool(x, key) <=> key \in es
  <2>1. \A i \in 1..Len(x) : x[i] = key <=> i = 3
    <3>1. \A i \in {1, 2, 3, 4, 5, 6, 7} : x[i] = key <=> i = 3
      BY <1>5, <1>10, <1>11, <1>16
    <3>2. GetTaskAllow \in es => \A i \in {8, 9, 10, 11} : x[i] = key <=> i = 3
      BY <1>6, <1>10, <1>11, <1>16
    <3> QED
      BY <1>15, <3>1, <3>2
  <2>2. plist_bool(x, key) <=>
          \E j \in (3 + 1)..Len(x) : x[j] = "true" /\ \A h \in (3 + 1)..(j - 1) : x[h] = "blank"
    <3>1. \A i \in 1..Len(x) : i = 3 => \A h \in 1..(i - 1) : x[h] # key
      BY <1>7, <2>1
    <3>2. (\E i \in 1..Len(x) : x[i] = key) => 3 \in 1..Len(x)
      BY <2>1
    <3> QED
      BY <1>9, <2>1, <3>1, <3>2
  <2>3. a # "blank"
    BY <1>8
  <2>4. \A j \in (3 + 1)..Len(x) : (\A h \in (3 + 1)..(j - 1) : x[h] = "blank") => j = 4
    BY <1>5, <1>7, <2>3
  <2>5. 4 \in (3 + 1)..Len(x) /\ \A h \in (3 + 1)..(4 - 1) : x[h] = "blank"
    <3>1. (3 + 1)..(4 - 1) = {}
      OBVIOUS
    <3> DEFINE l == Len(x)
    <3>2. l \in {7, 11}
      BY <1>7, Zenon
    <3> HIDE DEF l
    <3>3. 4 \in (3 + 1)..l
      BY <3>2
    <3> QED
      BY <3>1, <3>3, Zenon DEF l
  <2>6. plist_bool(x, key) <=> x[4] = "true"
    BY <2>2, <2>4, <2>5
  <2> QED
    <3>1. x[4] = "true" <=> AllowJit \in es
      BY <1>5, <1>8
    <3>2. plist_bool(x, key) <=> AllowJit \in es
      BY <2>6, <3>1
    <3>4. AllowJit \in es <=> key \in es
      BY <1>11
    <3> QED
      BY <3>2, <3>4
<1>12. ASSUME key = AllowUnsigned PROVE plist_bool(x, key) <=> key \in es
  <2>1. \A i \in 1..Len(x) : x[i] = key <=> i = 5
    <3>1. \A i \in {1, 2, 3, 4, 5, 6, 7} : x[i] = key <=> i = 5
      BY <1>5, <1>10, <1>12, <1>16
    <3>2. GetTaskAllow \in es => \A i \in {8, 9, 10, 11} : x[i] = key <=> i = 5
      BY <1>6, <1>10, <1>12, <1>16
    <3> QED
      BY <1>15, <3>1, <3>2
  <2>2. plist_bool(x, key) <=>
          \E j \in (5 + 1)..Len(x) : x[j] = "true" /\ \A h \in (5 + 1)..(j - 1) : x[h] = "blank"
    <3>1. \A i \in 1..Len(x) : i = 5 => \A h \in 1..(i - 1) : x[h] # key
      BY <1>7, <2>1
    <3>2. (\E i \in 1..Len(x) : x[i] = key) => 5 \in 1..Len(x)
      BY <2>1
    <3> QED
      BY <1>9, <2>1, <3>1, <3>2
  <2>3. b # "blank"
    BY <1>8
  <2>4. \A j \in (5 + 1)..Len(x) : x[j] = "true" /\ (\A h \in (5 + 1)..(j - 1) : x[h] = "blank") => j = 7
    BY <1>5, <1>7, <2>3
  <2>5. 7 \in (5 + 1)..Len(x) /\ \A h \in (5 + 1)..(7 - 1) : x[h] = "blank"
    BY <1>5, <1>7
  <2>6. plist_bool(x, key) <=> x[7] = "true"
    BY <2>2, <2>4, <2>5
  <2> QED
    <3>1. x[7] = "true" <=> AllowUnsigned \in es
      BY <1>5, <1>8
    <3>2. plist_bool(x, key) <=> AllowUnsigned \in es
      BY <2>6, <3>1
    <3>4. AllowUnsigned \in es <=> key \in es
      BY <1>12
    <3> QED
      BY <3>2, <3>4
<1>13. ASSUME key = GetTaskAllow PROVE plist_bool(x, key) <=> key \in es
  <2>1. \A i \in 1..Len(x) : x[i] = key <=> i = 8
    <3>1. \A i \in {1, 2, 3, 4, 5, 6, 7} : x[i] = key <=> i = 8
      BY <1>5, <1>10, <1>13, <1>16
    <3>2. GetTaskAllow \in es => \A i \in {8, 9, 10, 11} : x[i] = key <=> i = 8
      BY <1>6, <1>10, <1>13, <1>16
    <3> QED
      BY <1>15, <3>1, <3>2
  <2>2. plist_bool(x, key) <=>
          \E j \in (8 + 1)..Len(x) : x[j] = "true" /\ \A h \in (8 + 1)..(j - 1) : x[h] = "blank"
    <3>1. \A i \in 1..Len(x) : i = 8 => \A h \in 1..(i - 1) : x[h] # key
      BY <1>7, <2>1
    <3>2. (\E i \in 1..Len(x) : x[i] = key) => 8 \in 1..Len(x)
      BY <2>1
    <3> QED
      BY <1>9, <2>1, <3>1, <3>2
  <2>3. GetTaskAllow \in es =>
          11 \in (8 + 1)..Len(x) /\ x[11] = "true" /\ \A h \in (8 + 1)..(11 - 1) : x[h] = "blank"
    BY <1>6, <1>7
  <2>4. plist_bool(x, key) => GetTaskAllow \in es
    BY <1>7, <2>2
  <2> QED
    <3>1. plist_bool(x, key) <=> GetTaskAllow \in es
      BY <2>2, <2>3, <2>4
    <3>4. GetTaskAllow \in es <=> key \in es
      BY <1>13
    <3> QED
      BY <3>1, <3>4
<1>14. plist_bool(x, key) <=> key \in es
  BY <1>11, <1>12, <1>13 DEF Carried
<1> QED
  BY <1>14 DEF x

\* The value of the only line with a key.
LEMMA FieldOfLine ==
  ASSUME NEW r, NEW key, NEW k \in DOMAIN r, k \in Nat,
         \A i \in DOMAIN r : r[i].key = key <=> i = k
  PROVE  Field(r, key) = r[k].value
<1> DEFINE at == {i \in DOMAIN r : r[i].key = key}
<1>1. at = {k}
  OBVIOUS
<1>2. Field(r, key) = IF at = {} THEN None ELSE r[CHOOSE i \in at : \A j \in at : j <= i].value
  BY DEF Field
<1> HIDE DEF at
<1>3. (CHOOSE i \in at : \A j \in at : j <= i) = k
  <2>1. k \in at /\ \A j \in at : j <= k
    BY <1>1
  <2>2. (CHOOSE i \in at : \A j \in at : j <= i) \in at
    BY <2>1
  <2> QED
    BY <1>1, <2>2
<1> QED
  BY <1>1, <1>2, <1>3

\* What is made of a report is what it says, when it says enough.
LEMMA ReportIsGood ==
  ASSUME NEW by \in Identities, NEW content \in 1..MaxShims, NEW sig,
         sig = [by |-> by, content |-> content]
  PROVE  LET info == signing_info(Report(sig))
         IN  info = None \/ GoodInfo(info)
<1> DEFINE team == IF by = AdHoc THEN NotSet ELSE Team[by]
           cdhash == CDHash[by][content]
           r == Report(sig)
           info == signing_info(r)
<1>1. r = <<[key |-> "Identifier", value |-> ShimIdentifier],
            [key |-> "CandidateCDHash-sha1", value |-> <<3, 3, 3, 3>>],
            [key |-> "CandidateCDHash-sha256", value |-> cdhash],
            [key |-> "TeamIdentifier", value |-> team]>>
  BY DEF Report
<1>2. /\ team \in Text /\ cdhash \in Seq(Nat) /\ ShimIdentifier \in Text
  BY SigningAssumption DEF Identities
<1> HIDE DEF team, cdhash, r
<1>3. DOMAIN r = 1..4
  BY <1>1
<1>4. /\ r[1] = [key |-> "Identifier", value |-> ShimIdentifier]
      /\ r[2].key = "CandidateCDHash-sha1"
      /\ r[3] = [key |-> "CandidateCDHash-sha256", value |-> cdhash]
      /\ r[4] = [key |-> "TeamIdentifier", value |-> team]
  BY <1>1
<1>5. \A i \in 1..4 : i \in {1, 2, 3, 4}
  OBVIOUS
<1>6. Field(r, "Identifier") = ShimIdentifier
  <2>1. \A i \in DOMAIN r : r[i].key = "Identifier" <=> i = 1
    BY <1>3, <1>4, <1>5
  <2>2. Field(r, "Identifier") = r[1].value
    BY <1>3, <2>1, FieldOfLine
  <2> QED
    BY <1>4, <2>2
<1>7. Field(r, "CandidateCDHash-sha256") = cdhash
  <2>1. \A i \in DOMAIN r : r[i].key = "CandidateCDHash-sha256" <=> i = 3
    BY <1>3, <1>4, <1>5
  <2>2. Field(r, "CandidateCDHash-sha256") = r[3].value
    BY <1>3, <2>1, FieldOfLine
  <2> QED
    BY <1>4, <2>2
<1>8. Field(r, "TeamIdentifier") = team
  <2>1. \A i \in DOMAIN r : r[i].key = "TeamIdentifier" <=> i = 4
    BY <1>3, <1>4, <1>5
  <2>2. Field(r, "TeamIdentifier") = r[4].value
    BY <1>3, <2>1, FieldOfLine
  <2> QED
    BY <1>4, <2>2
<1>9. ASSUME info # None
      PROVE  /\ Len(cdhash) = HashLen /\ \A i \in DOMAIN cdhash : IsHex(cdhash[i])
             /\ info = [team |-> IF team \in {None, NotSet} THEN None ELSE team,
                        identifier |-> ShimIdentifier, cdhash |-> cdhash]
  BY <1>6, <1>7, <1>8, <1>9 DEF signing_info
<1>10. ASSUME info # None
       PROVE  GoodInfo(info)
  <2>1. cdhash \in Seq(0..3)
    <3>1. cdhash \in Seq(Nat) /\ DOMAIN cdhash = 1..Len(cdhash)
      BY <1>2
    <3>2. \A i \in DOMAIN cdhash : IsHex(cdhash[i])
      BY <1>9, <1>10, Zenon
    <3>3. \A i \in 1..Len(cdhash) : cdhash[i] \in 0..3
      BY <3>1, <3>2 DEF IsHex
    <3> QED
      BY <3>1, <3>3
  <2>2. (IF team \in {None, NotSet} THEN None ELSE team) \in Text \cup {None}
    BY <1>2
  <2>3. None # NotSet
    BY SigningAssumption
  <2> DEFINE tm == IF team \in {None, NotSet} THEN None ELSE team
  <2>4. tm # NotSet
    BY <2>3
  <2>5. info = [team |-> tm, identifier |-> ShimIdentifier, cdhash |-> cdhash]
    BY <1>9, <1>10
  <2> HIDE DEF tm, info
  <2>6. info \in Info
    BY <1>2, <2>1, <2>2, <2>5 DEF Info, tm
  <2>7. info.team = tm /\ info.identifier = ShimIdentifier /\ info.cdhash = cdhash
    BY <2>5
  <2> QED
    BY <1>9, <1>10, <2>4, <2>6, <2>7 DEF GoodInfo
<1> QED
  BY <1>10 DEF r

\* The constraint that is written is read back as what was known of the shim.
LEMMA ConstraintReads ==
  ASSUME NEW identity \in Identities, NEW info, GoodInfo(info), Usable(identity, info)
  PROVE  LET c == ConstraintList(identity, info)
         IN  /\ c \in Constraint
             /\ identity = AdHoc =>
                  c.kind = "cdhash" /\ Unpacked(c.data) = hex_decode(info.cdhash)
             /\ identity # AdHoc =>
                  /\ c.kind = "team" /\ info.team \in Text
                  /\ Unescaped(c.team) = info.team
                  /\ Unescaped(c.identifier) = info.identifier
<1> DEFINE c == ConstraintList(identity, info)
<1>1. info.team \in Text \cup {None} /\ info.identifier \in Text /\ info.cdhash \in Seq(0..3)
  BY DEF GoodInfo, Info
<1>2. CASE identity = AdHoc
  <2> DEFINE bytes == hex_decode(info.cdhash)
  <2>1. c = [kind |-> "cdhash", data |-> base64_encode(bytes)]
    BY <1>2 DEF ConstraintList, is_adhoc
  <2>2. bytes \in Seq(0..15)
    <3>1. Len(info.cdhash) % 2 = 0
      BY SigningAssumption DEF GoodInfo
    <3> QED
      BY <1>1, <3>1, HexDecoded
  <2>3. base64_encode(bytes) \in Seq(0..Pad) /\ Unpacked(base64_encode(bytes)) = bytes
    <3>1. Encoded(bytes, Len(bytes), (Len(bytes) + 2) \div 3)
      BY <2>2, Base64Chars
    <3>2. base64_encode(bytes) \in Seq(0..Pad)
      BY <3>1 DEF Encoded
    <3> QED
      BY <2>2, <3>2, Base64RoundTrip
  <2> HIDE DEF bytes, c
  <2>4. c \in Constraint /\ c.kind = "cdhash" /\ c.data = base64_encode(bytes)
    BY <2>1, <2>3 DEF Constraint
  <2> QED
    BY <1>2, <2>3, <2>4 DEF bytes, c
<1>3. CASE identity # AdHoc
  <2>1. c = [kind |-> "team", team |-> xml_escape(info.team), identifier |-> xml_escape(info.identifier)]
    BY <1>3 DEF ConstraintList, is_adhoc
  <2>2. info.team \in Text
    BY <1>1, <1>3 DEF Usable, is_adhoc
  <2>3. /\ xml_escape(info.team) \in Text /\ Unescaped(xml_escape(info.team)) = info.team
        /\ xml_escape(info.identifier) \in Text /\ Unescaped(xml_escape(info.identifier)) = info.identifier
    BY <1>1, <2>2, EscapeRoundTrip
  <2> HIDE DEF c
  <2>4. /\ c \in Constraint /\ c.kind = "team"
        /\ c.team = xml_escape(info.team) /\ c.identifier = xml_escape(info.identifier)
    BY <2>1, <2>3 DEF Constraint
  <2> QED
    BY <1>3, <2>2, <2>3, <2>4 DEF c
<1> QED
  BY <1>2, <1>3

\* A signature that is asked for is one.
LEMMA AskedIsSignature ==
  ASSUME SignTypes, NEW p \in Programs, signing[p].identity \in Identities,
         GoodInfo(signing[p].info), Usable(signing[p].identity, signing[p].info)
  PROVE  Asked(p) \in Signature /\ Asked(p) # None
<1> DEFINE s == signing[p]
<1>1. ConstraintList(s.identity, s.info) \in Constraint
  BY ConstraintReads
<1>2. EntitlementsList(s.identity, s.policy, s.allow) \in SUBSET (Carried \cup {DisableLibraryValidation})
  BY DEF EntitlementsList
<1>3. exe[p].content \in Nat
  BY DEF SignTypes
<1>4. Asked(p) \in Signature
  BY <1>1, <1>2, <1>3 DEF Asked, Signature
<1> QED
  BY <1>4, SigningAssumption

\* What holds before anything happens.
LEMMA SignInitInv ==
  SignInit => SignInv
<1> SUFFICES ASSUME SignInit PROVE SignInv
  OBVIOUS
<1> USE DEF SignInit
<1>1. Idle \in Calls
  BY DEF Idle, Calls, EmptyPolicy
<1>2. SignTypes
  <2>1. shim \in [content : 1..MaxShims, sig : {None} \cup [by : Identities, content : 1..MaxShims]]
    BY SigningAssumption
  <2> QED
    BY <1>1, <2>1 DEF SignTypes
<1>3. ASSUME NEW p \in Programs
      PROVE  /\ signing[p] = Idle /\ signing[p].pc = "idle" /\ signing[p].result = None
             /\ exe[p].sig = None
  BY DEF Idle
<1>4. None # "ok"
  BY SigningAssumption
<1>5. ASSUME NEW p \in Programs
      PROVE  Sound(p)
  BY <1>3, <1>4 DEF Sound, HasRead, HasInfo, HasAsked, HasWritten, HasSigned, Past
<1>6. OwnDirs
  BY <1>3 DEF OwnDirs
<1> QED
  BY <1>2, <1>5, <1>6 DEF SignInv

\* What a program knows stays true while others work, but not in its directory.
LEMMA Undisturbed ==
  ASSUME NEW q \in Programs, Sound(q),
         signing'[q] = signing[q], exe'[q] = exe[q], binary'[q] = binary[q], read'[q] = read[q],
         signing[q].pc # "idle" => dirs'[signing[q].dir] = dirs[signing[q].dir]
  PROVE  Sound(q)'
<1>1. HasRead(q)'
  BY DEF Sound, HasRead, Past, PolicyRead
<1>2. HasInfo(q)' /\ HasAsked(q)'
  BY DEF Sound, HasInfo, HasAsked, Past
<1>3. HasWritten(q)'
  BY DEF Sound, HasWritten
<1>4. HasSigned(q)'
  BY DEF Sound, HasSigned, Asked
<1> QED
  BY <1>1, <1>2, <1>3, <1>4 DEF Sound

\* Directories stay apart while no program takes another one.
LEMMA DirsStayApart ==
  ASSUME OwnDirs,
         \A q \in Programs : /\ signing'[q].dir = signing[q].dir \/ signing'[q].pc = "idle"
                             /\ signing'[q].pc # "idle" => signing[q].pc # "idle"
  PROVE  OwnDirs'
BY DEF OwnDirs

\* A step of one program that changes no file but perhaps the shim.
LEMMA OwnStep ==
  ASSUME SignInv, NEW p \in Programs, SignTypes', Sound(p)',
         \A q \in Programs \ {p} : signing'[q] = signing[q] /\ exe'[q] = exe[q] /\ read'[q] = read[q],
         binary' = binary,
         \/ dirs' = dirs
         \/ signing[p].pc # "idle" /\ \A d \in Dirs \ {signing[p].dir} : dirs'[d] = dirs[d],
         signing'[p].dir = signing[p].dir \/ signing'[p].pc = "idle",
         signing'[p].pc # "idle" => signing[p].pc # "idle"
  PROVE  SignInv'
<1>1. OwnDirs'
  BY DirsStayApart DEF SignInv
<1>2. ASSUME NEW q \in Programs, q # p
      PROVE  Sound(q)'
  <2>1. Sound(q)
    BY DEF SignInv
  <2>2. signing[q].pc # "idle" => signing[q].dir \in Dirs
    BY <2>1 DEF Sound, HasSigned
  <2>3. signing[q].pc # "idle" => dirs'[signing[q].dir] = dirs[signing[q].dir]
    BY <1>2, <2>2 DEF SignInv, OwnDirs
  <2> QED
    BY <1>2, <2>1, <2>3, Undisturbed
<1> QED
  BY <1>1, <1>2 DEF SignInv

\* A program whose call ends knows nothing that has to stay true.
LEMMA CallEnds ==
  ASSUME NEW p \in Programs, SignTypes, Sound(p), signing[p].pc # "idle",
         signing'[p].pc = "idle", signing'[p].result \in {None, "error"}, exe'[p].sig = exe[p].sig
  PROVE  Sound(p)'
<1>1. None # "ok" /\ signing[p].result = None
  BY SigningAssumption DEF Sound, HasSigned
<1>2. exe[p].sig = None /\ signing'[p].result # "ok"
  BY <1>1 DEF Sound, HasSigned
<1> QED
  BY <1>2 DEF Sound, HasRead, HasInfo, HasAsked, HasWritten, HasSigned, Past

\* Begin: a fresh copy, in a directory no other call is in.
LEMMA BeginKeeps ==
  ASSUME SignInv, NEW p \in Programs, NEW identity \in Identities, NEW allow \in BOOLEAN,
         NEW d \in Dirs, Begin(p, identity, allow, d)
  PROVE  SignInv'
<1> DEFINE s == [Idle EXCEPT !.pc = "entitlements", !.identity = identity, !.allow = allow, !.dir = d]
<1>0. /\ Idle \in Calls /\ Idle.result = None /\ Idle.policy = EmptyPolicy
  BY DEF Idle, Calls, EmptyPolicy
<1>1. /\ s \in Calls /\ s.pc = "entitlements" /\ s.identity = identity /\ s.policy = EmptyPolicy
      /\ s.dir = d /\ s.result = None
  BY <1>0 DEF Calls
<1> HIDE DEF s
<1>3. /\ signing' = [signing EXCEPT ![p] = s]
      /\ exe' = [exe EXCEPT ![p] = [content |-> exe[p].content + 1, sig |-> None]]
      /\ UNCHANGED <<shim, binary, dirs, read>>
      /\ \A q \in Programs : signing[q].pc # "idle" => signing[q].dir # d
  BY DEF Begin, s
<1>4. SignTypes'
  <2>1. signing' \in [Programs -> Calls]
    BY <1>1, <1>3 DEF SignInv, SignTypes
  <2>2. exe' \in [Programs -> [content : Nat, sig : {None} \cup Signature]]
    <3>1. exe[p].content + 1 \in Nat
      BY DEF SignInv, SignTypes
    <3> QED
      BY <1>3, <3>1 DEF SignInv, SignTypes
  <2> QED
    BY <1>3, <2>1, <2>2 DEF SignInv, SignTypes
<1>5. signing'[p] = s /\ exe'[p].sig = None /\ \A q \in Programs \ {p} : signing'[q] = signing[q] /\ exe'[q] = exe[q]
  BY <1>3 DEF SignInv, SignTypes
<1>6. Sound(p)'
  <2>1. None # "ok"
    BY SigningAssumption
  <2> QED
    BY <1>1, <1>5, <2>1 DEF Sound, HasRead, HasInfo, HasAsked, HasWritten, HasSigned, Past
<1>7. ASSUME NEW q \in Programs, q # p
      PROVE  Sound(q)'
  BY <1>3, <1>5, <1>7, Undisturbed DEF SignInv
<1>8. OwnDirs'
  BY <1>1, <1>3, <1>5 DEF SignInv, OwnDirs
<1> QED
  BY <1>4, <1>6, <1>7, <1>8 DEF SignInv

\* What a call goes on to, and what it knows by then, is that of the call.
LEMMA OneField ==
  ASSUME SignTypes, NEW p \in Programs
  PROVE  /\ signing[p] \in Calls
         /\ \A pc \in {"idle", "entitlements", "shim", "info", "write", "constraint", "codesign"} :
              Goto(p, pc) =>
                /\ signing' \in [Programs -> Calls]
                /\ signing'[p] = [signing[p] EXCEPT !.pc = pc]
                /\ \A q \in Programs \ {p} : signing'[q] = signing[q]
         /\ Fails(p) =>
                /\ signing' \in [Programs -> Calls]
                /\ signing'[p].pc = "idle" /\ signing'[p].result = "error"
                /\ \A q \in Programs \ {p} : signing'[q] = signing[q]
<1>1. signing \in [Programs -> Calls] /\ signing[p] \in Calls
  BY DEF SignTypes
<1>2. ASSUME NEW pc \in {"idle", "entitlements", "shim", "info", "write", "constraint", "codesign"},
             Goto(p, pc)
      PROVE  /\ signing' \in [Programs -> Calls]
             /\ signing'[p] = [signing[p] EXCEPT !.pc = pc]
             /\ \A q \in Programs \ {p} : signing'[q] = signing[q]
  <2>1. signing' = [signing EXCEPT ![p] = [signing[p] EXCEPT !.pc = pc]]
    BY <1>2 DEF Goto
  <2>2. [signing[p] EXCEPT !.pc = pc] \in Calls
    BY <1>1 DEF Calls
  <2> QED
    BY <1>1, <2>1, <2>2
<1>3. ASSUME Fails(p)
      PROVE  /\ signing' \in [Programs -> Calls]
             /\ signing'[p].pc = "idle" /\ signing'[p].result = "error"
             /\ \A q \in Programs \ {p} : signing'[q] = signing[q]
  <2> DEFINE s == [[signing[p] EXCEPT !.pc = "idle"] EXCEPT !.result = "error"]
  <2>1. signing' = [signing EXCEPT ![p] = s]
    BY <1>1, <1>3 DEF Fails
  <2>2. s \in Calls /\ s.pc = "idle" /\ s.result = "error"
    BY <1>1 DEF Calls
  <2> HIDE DEF s
  <2> QED
    BY <1>1, <2>1, <2>2
<1> QED
  BY <1>1, <1>2, <1>3

\* A call that fails, whatever it has written of the lists in its directory.
LEMMA FailsKeeps ==
  ASSUME SignInv, NEW p \in Programs, signing[p].pc # "idle", Fails(p), UNCHANGED <<shim, exe, binary, read>>,
         dirs' \in [Dirs -> [entitlements : {None} \cup SUBSET (Carried \cup {DisableLibraryValidation}),
                             constraint : {None} \cup Constraint]],
         \A d \in Dirs \ {signing[p].dir} : dirs'[d] = dirs[d]
  PROVE  SignInv'
<1>1. /\ signing' \in [Programs -> Calls]
      /\ signing'[p].pc = "idle" /\ signing'[p].result = "error"
      /\ \A q \in Programs \ {p} : signing'[q] = signing[q]
  BY OneField DEF SignInv
<1>2. SignTypes'
  BY <1>1 DEF SignInv, SignTypes
<1>3. Sound(p)'
  BY <1>1, CallEnds DEF SignInv
<1> QED
  BY <1>1, <1>2, <1>3, OwnStep

\* ReadEntitlements: the policy is what was read, or all false.
LEMMA ReadEntitlementsKeeps ==
  ASSUME SignInv, NEW p \in Programs, ReadEntitlements(p)
  PROVE  SignInv'
<1> DEFINE policy == [key \in Carried |-> plist_bool(Printed(binary[p].entitlements), key)]
<1>1. /\ signing[p].pc = "entitlements" /\ UNCHANGED <<shim, exe, binary, dirs>>
      /\ Sound(p)
  BY DEF ReadEntitlements, SignInv
<1>2. /\ signing[p] \in Calls /\ signing \in [Programs -> Calls] /\ read \in [Programs -> BOOLEAN]
      /\ binary[p].signed \in BOOLEAN
  BY SigningAssumption DEF SignInv, SignTypes
<1>3. signing[p].result = None /\ exe[p].sig = None /\ None # "ok" /\ signing[p].policy = EmptyPolicy
      /\ signing[p].identity \in Identities /\ signing[p].dir \in Dirs
  BY <1>1, SigningAssumption DEF Sound, HasSigned, HasRead
<1>4. \E s : /\ s \in Calls /\ signing' = [signing EXCEPT ![p] = s] /\ s.pc = "shim"
             /\ s.dir = signing[p].dir /\ s.identity = signing[p].identity /\ s.result = None
             /\ \/ binary[p].signed /\ s.policy = policy /\ read' = [read EXCEPT ![p] = TRUE]
                \/ s.policy = EmptyPolicy /\ read' = [read EXCEPT ![p] = FALSE]
  <2>1. CASE /\ binary[p].signed
             /\ signing' = [signing EXCEPT ![p].pc = "shim", ![p].policy = policy]
             /\ read' = [read EXCEPT ![p] = TRUE]
    <3> DEFINE s == [[signing[p] EXCEPT !.pc = "shim"] EXCEPT !.policy = policy]
    <3>1. signing' = [signing EXCEPT ![p] = s]
      BY <1>2, <2>1
    <3>2. policy \in [Carried -> BOOLEAN]
      BY DEF plist_bool
    <3> HIDE DEF policy
    <3>3. /\ s \in Calls /\ s.pc = "shim" /\ s.policy = policy
          /\ s.dir = signing[p].dir /\ s.identity = signing[p].identity /\ s.result = None
      BY <1>2, <1>3, <3>2 DEF Calls
    <3> HIDE DEF s
    <3> QED
      BY <2>1, <3>1, <3>3
  <2>2. CASE Goto(p, "shim") /\ read' = [read EXCEPT ![p] = FALSE]
    <3> DEFINE s == [signing[p] EXCEPT !.pc = "shim"]
    <3>1. signing' = [signing EXCEPT ![p] = s]
      BY <1>2, <2>2 DEF Goto
    <3>3. /\ s \in Calls /\ s.pc = "shim" /\ s.policy = EmptyPolicy
          /\ s.dir = signing[p].dir /\ s.identity = signing[p].identity /\ s.result = None
      BY <1>2, <1>3 DEF Calls
    <3> HIDE DEF s, policy
    <3> QED
      BY <2>2, <3>1, <3>3
  <2> QED
    BY <2>1, <2>2 DEF ReadEntitlements
<1>5. PICK s : /\ s \in Calls /\ signing' = [signing EXCEPT ![p] = s] /\ s.pc = "shim"
               /\ s.dir = signing[p].dir /\ s.identity = signing[p].identity /\ s.result = None
               /\ \/ binary[p].signed /\ s.policy = policy /\ read' = [read EXCEPT ![p] = TRUE]
                  \/ s.policy = EmptyPolicy /\ read' = [read EXCEPT ![p] = FALSE]
  BY <1>4
<1>6. s.policy = PolicyRead(p)'
  <2>1. CASE binary[p].signed /\ s.policy = policy /\ read' = [read EXCEPT ![p] = TRUE]
    <3>1. read'[p] = TRUE /\ binary'[p].signed = TRUE /\ binary'[p] = binary[p]
      BY <1>1, <1>2, <2>1
    <3>2. \A key \in Carried :
            plist_bool(Printed(binary[p].entitlements), key) = (key \in binary[p].entitlements)
      <4> SUFFICES ASSUME NEW key \in Carried
                   PROVE  plist_bool(Printed(binary[p].entitlements), key) = (key \in binary[p].entitlements)
        OBVIOUS
      <4> DEFINE a == plist_bool(Printed(binary[p].entitlements), key)
                 b == key \in binary[p].entitlements
      <4>1. a <=> b
        BY PlistReads
      <4>3. a \in BOOLEAN /\ b \in BOOLEAN
        BY DEF plist_bool
      <4> HIDE DEF a, b
      <4>2. a = b
        BY <4>1, <4>3
      <4> QED
        BY <4>2 DEF a, b
    <3> QED
      BY <2>1, <3>1, <3>2 DEF PolicyRead
  <2>2. CASE s.policy = EmptyPolicy /\ read' = [read EXCEPT ![p] = FALSE]
    <3>1. read'[p] = FALSE
      BY <1>2, <2>2
    <3> QED
      BY <2>2, <3>1 DEF PolicyRead, EmptyPolicy
  <2> QED
    BY <1>5, <2>1, <2>2
<1> HIDE DEF policy
<1>7. /\ signing' \in [Programs -> Calls] /\ signing'[p] = s
      /\ \A q \in Programs \ {p} : signing'[q] = signing[q] /\ read'[q] = read[q]
      /\ read' \in [Programs -> BOOLEAN]
  BY <1>2, <1>5
<1>8. SignTypes'
  BY <1>1, <1>7 DEF SignInv, SignTypes
<1>9. Sound(p)'
  BY <1>1, <1>3, <1>5, <1>6, <1>7 DEF Sound, HasRead, HasInfo, HasAsked, HasWritten, HasSigned, Past
<1> QED
  BY <1>1, <1>5, <1>7, <1>8, <1>9, OwnStep

\* SignShim and UseShim: the shim is signed, by whoever asks for it last.
LEMMA SignShimKeeps ==
  ASSUME SignInv, NEW p \in Programs, SignShim(p) \/ UseShim(p)
  PROVE  SignInv'
<1>1. /\ signing[p].pc = "shim" /\ UNCHANGED <<exe, binary, dirs, read>>
      /\ Sound(p) /\ SignTypes /\ signing[p] \in Calls
  BY DEF SignShim, UseShim, SignInv, SignTypes
<1>2. signing[p].identity \in Identities /\ signing[p].result = None /\ exe[p].sig = None /\ None # "ok"
  BY <1>1, SigningAssumption DEF Sound, HasSigned
<1>3. CASE /\ Goto(p, "info")
           /\ \/ shim' = [shim EXCEPT !.sig = [by |-> signing[p].identity, content |-> shim.content]]
              \/ shim' = shim
  <2>1. /\ signing' \in [Programs -> Calls]
        /\ signing'[p] = [signing[p] EXCEPT !.pc = "info"]
        /\ \A q \in Programs \ {p} : signing'[q] = signing[q]
    BY <1>1, <1>3, OneField
  <2>2. /\ signing'[p].pc = "info" /\ signing'[p].policy = signing[p].policy
        /\ signing'[p].dir = signing[p].dir /\ signing'[p].identity = signing[p].identity
        /\ signing'[p].result = signing[p].result
    BY <1>1, <2>1 DEF Calls
  <2>3. shim' \in [content : 1..MaxShims, sig : {None} \cup [by : Identities, content : 1..MaxShims]]
    BY <1>1, <1>2, <1>3 DEF SignTypes
  <2>4. SignTypes'
    BY <1>1, <2>1, <2>3 DEF SignTypes
  <2>5. PolicyRead(p)' = PolicyRead(p)
    BY <1>1 DEF PolicyRead
  <2>6. Sound(p)'
    BY <1>1, <1>2, <2>2, <2>5 DEF Sound, HasRead, HasInfo, HasAsked, HasWritten, HasSigned, Past
  <2> QED
    BY <1>1, <2>1, <2>2, <2>4, <2>6, OwnStep
<1>4. CASE Fails(p) /\ UNCHANGED shim
  BY <1>1, <1>4, FailsKeeps DEF SignTypes
<1> QED
  BY <1>3, <1>4 DEF SignShim, UseShim

\* ReadShim: what the report says enough of is kept, and the rest refused.
LEMMA ReadShimKeeps ==
  ASSUME SignInv, NEW p \in Programs, ReadShim(p)
  PROVE  SignInv'
<1> DEFINE info == IF shim.sig = None THEN None ELSE signing_info(Report(shim.sig))
<1>1. /\ signing[p].pc = "info" /\ UNCHANGED <<shim, exe, binary, dirs, read>>
      /\ Sound(p) /\ SignTypes /\ signing[p] \in Calls /\ signing \in [Programs -> Calls]
  BY DEF ReadShim, SignInv, SignTypes
<1>2. signing[p].result = None /\ exe[p].sig = None /\ None # "ok" /\ signing[p].identity \in Identities
  BY <1>1, SigningAssumption DEF Sound, HasSigned
<1>3. info = None \/ GoodInfo(info)
  <2>1. CASE shim.sig = None
    BY <2>1
  <2>2. CASE shim.sig # None
    <3>1. shim.sig \in [by : Identities, content : 1..MaxShims]
      BY <1>1, <2>2 DEF SignTypes
    <3>2. /\ shim.sig.by \in Identities /\ shim.sig.content \in 1..MaxShims
          /\ shim.sig = [by |-> shim.sig.by, content |-> shim.sig.content]
      BY <3>1
    <3>3. signing_info(Report(shim.sig)) = None \/ GoodInfo(signing_info(Report(shim.sig)))
      BY <3>2, ReportIsGood
    <3> QED
      BY <2>2, <3>3
  <2> QED
    BY <2>1, <2>2
<1>4. \/ info # None /\ signing' = [signing EXCEPT ![p].pc = "write", ![p].info = info]
      \/ Fails(p)
  BY DEF ReadShim
<1> HIDE DEF info
<1>5. CASE info # None /\ signing' = [signing EXCEPT ![p].pc = "write", ![p].info = info]
  <2> DEFINE s == [[signing[p] EXCEPT !.pc = "write"] EXCEPT !.info = info]
  <2>1. signing' = [signing EXCEPT ![p] = s]
    BY <1>1, <1>5
  <2>2. info \in Info
    BY <1>3, <1>5 DEF GoodInfo
  <2>3. /\ s \in Calls /\ s.pc = "write" /\ s.info = info /\ s.policy = signing[p].policy
        /\ s.dir = signing[p].dir /\ s.identity = signing[p].identity /\ s.result = signing[p].result
    BY <1>1, <2>2 DEF Calls
  <2> HIDE DEF s
  <2>4. /\ signing' \in [Programs -> Calls] /\ signing'[p] = s
        /\ \A q \in Programs \ {p} : signing'[q] = signing[q]
    BY <1>1, <2>1, <2>3
  <2>5. SignTypes'
    BY <1>1, <2>4 DEF SignTypes
  <2>6. PolicyRead(p)' = PolicyRead(p)
    BY <1>1 DEF PolicyRead
  <2>7. GoodInfo(signing'[p].info)
    BY <1>3, <1>5, <2>3, <2>4
  <2>8. Sound(p)'
    BY <1>1, <1>2, <2>3, <2>4, <2>6, <2>7 DEF Sound, HasRead, HasInfo, HasAsked, HasWritten, HasSigned, Past
  <2> QED
    BY <1>1, <2>3, <2>4, <2>5, <2>8, OwnStep
<1>6. CASE Fails(p)
  BY <1>1, <1>6, FailsKeeps DEF SignTypes
<1> QED
  BY <1>4, <1>5, <1>6

\* A property list in the directory of a call, of a kind with what is there.
ListsType == [entitlements : {None} \cup SUBSET (Carried \cup {DisableLibraryValidation}),
              constraint : {None} \cup Constraint]

\* Write: the list is there and the call goes on, or it ends.
LEMMA WriteDoes ==
  ASSUME SignInv, NEW p \in Programs, signing[p].pc # "idle",
         NEW file \in {"entitlements", "constraint"}, NEW content, NEW pc,
         file = "entitlements" => content \in SUBSET (Carried \cup {DisableLibraryValidation}),
         file = "constraint" => content \in Constraint,
         Write(p, file, content, pc), UNCHANGED <<shim, exe, binary, read>>
  PROVE  \/ SignInv'
         \/ /\ Goto(p, pc)
            /\ dirs' \in [Dirs -> ListsType]
            /\ \A d \in Dirs \ {signing[p].dir} : dirs'[d] = dirs[d]
            /\ dirs'[signing[p].dir] = [dirs[signing[p].dir] EXCEPT ![file] = content]
<1> DEFINE D == signing[p].dir
<1>1. D \in Dirs /\ dirs \in [Dirs -> ListsType]
  BY DEF SignInv, SignTypes, Sound, HasSigned, ListsType
<1>2. dirs[D] \in ListsType
  BY <1>1
<1> HIDE DEF D
<1>3. ASSUME NEW c, c = content \/ c = None
      PROVE  [dirs[D] EXCEPT ![file] = c] \in ListsType
  BY <1>2, <1>3 DEF ListsType
<1>4. ASSUME NEW c, c = content \/ c = None, dirs' = [dirs EXCEPT ![D] = [dirs[D] EXCEPT ![file] = c]]
      PROVE  /\ dirs' \in [Dirs -> ListsType]
             /\ \A d \in Dirs \ {D} : dirs'[d] = dirs[d]
             /\ dirs'[D] = [dirs[D] EXCEPT ![file] = c]
  <2>1. [dirs[D] EXCEPT ![file] = c] \in ListsType
    BY <1>3, <1>4
  <2> HIDE DEF ListsType
  <2> QED
    BY <1>1, <1>4, <2>1
<1>5. CASE dirs' = [dirs EXCEPT ![D][file] = content] /\ Goto(p, pc)
  <2>1. dirs' = [dirs EXCEPT ![D] = [dirs[D] EXCEPT ![file] = content]]
    BY <1>1, <1>5
  <2> QED
    BY <1>4, <1>5, <2>1 DEF D
<1>6. CASE dirs' \in {dirs, [dirs EXCEPT ![D][file] = None]} /\ Fails(p)
  <2>1. /\ dirs' \in [Dirs -> ListsType]
        /\ \A d \in Dirs \ {D} : dirs'[d] = dirs[d]
    <3>1. CASE dirs' = dirs
      BY <1>1, <3>1
    <3>2. CASE dirs' = [dirs EXCEPT ![D][file] = None]
      <4>1. dirs' = [dirs EXCEPT ![D] = [dirs[D] EXCEPT ![file] = None]]
        BY <1>1, <3>2
      <4> QED
        BY <1>4, <4>1
    <3> QED
      BY <1>6, <3>1, <3>2
  <2> QED
    BY <1>6, <2>1, FailsKeeps DEF D, ListsType
<1> QED
  BY <1>5, <1>6 DEF Write, D

\* WriteEntitlements: the list is that of the call, and the shim can be used.
LEMMA WriteEntitlementsKeeps ==
  ASSUME SignInv, NEW p \in Programs, WriteEntitlements(p)
  PROVE  SignInv'
<1> DEFINE s == signing[p]
           list == EntitlementsList(s.identity, s.policy, s.allow)
<1>1. /\ s.pc = "write" /\ UNCHANGED <<shim, exe, binary, read>>
      /\ Sound(p) /\ SignTypes /\ s \in Calls /\ signing \in [Programs -> Calls]
  BY DEF WriteEntitlements, SignInv, SignTypes
<1>2. s.result = None /\ exe[p].sig = None /\ None # "ok" /\ s.identity \in Identities /\ s.dir \in Dirs
  BY <1>1, SigningAssumption DEF Sound, HasSigned
<1>3. CASE ~Usable(s.identity, s.info)
  <2>1. Fails(p) /\ UNCHANGED dirs
    BY <1>3 DEF WriteEntitlements
  <2> QED
    BY <1>1, <2>1, FailsKeeps DEF SignTypes
<1>4. CASE Usable(s.identity, s.info)
  <2>1. list \in SUBSET (Carried \cup {DisableLibraryValidation})
    BY DEF EntitlementsList
  <2>2. Write(p, "entitlements", list, "constraint")
    BY <1>4 DEF WriteEntitlements
  <2> HIDE DEF list
  <2>3. \/ SignInv'
        \/ /\ Goto(p, "constraint")
           /\ dirs' \in [Dirs -> ListsType]
           /\ \A d \in Dirs \ {s.dir} : dirs'[d] = dirs[d]
           /\ dirs'[s.dir] = [dirs[s.dir] EXCEPT !["entitlements"] = list]
    BY <1>1, <2>1, <2>2, WriteDoes
  <2> SUFFICES ASSUME Goto(p, "constraint"), dirs' \in [Dirs -> ListsType],
                      \A d \in Dirs \ {s.dir} : dirs'[d] = dirs[d],
                      dirs'[s.dir] = [dirs[s.dir] EXCEPT !["entitlements"] = list]
               PROVE  SignInv'
    BY <2>3
  <2>4. dirs'[s.dir].entitlements = list
    <3>1. dirs[s.dir] \in ListsType
      BY <1>1, <1>2 DEF SignTypes, ListsType
    <3> QED
      BY <3>1 DEF ListsType
  <2>5. /\ signing' \in [Programs -> Calls]
        /\ signing'[p] = [signing[p] EXCEPT !.pc = "constraint"]
        /\ \A q \in Programs \ {p} : signing'[q] = signing[q]
    BY <1>1, OneField
  <2>6. /\ signing'[p].pc = "constraint" /\ signing'[p].policy = s.policy /\ signing'[p].allow = s.allow
        /\ signing'[p].dir = s.dir /\ signing'[p].identity = s.identity
        /\ signing'[p].info = s.info /\ signing'[p].result = s.result
    BY <1>1, <2>5 DEF Calls
  <2>7. SignTypes'
    BY <1>1, <2>5 DEF SignTypes, ListsType
  <2>8. PolicyRead(p)' = PolicyRead(p)
    BY <1>1 DEF PolicyRead
  <2>9. HasRead(p)' /\ HasInfo(p)' /\ HasAsked(p)' /\ HasSigned(p)'
    BY <1>1, <1>2, <1>4, <2>6, <2>8 DEF Sound, HasRead, HasInfo, HasAsked, HasSigned, Past
  <2>10. HasWritten(p)'
    BY <2>4, <2>6 DEF HasWritten, list
  <2> QED
    BY <1>1, <2>5, <2>6, <2>7, <2>9, <2>10, OwnStep DEF Sound
<1> QED
  BY <1>3, <1>4

\* WriteConstraint: the other list is left as it was written.
LEMMA WriteConstraintKeeps ==
  ASSUME SignInv, NEW p \in Programs, WriteConstraint(p)
  PROVE  SignInv'
<1> DEFINE s == signing[p]
           list == ConstraintList(s.identity, s.info)
<1>1. /\ s.pc = "constraint" /\ UNCHANGED <<shim, exe, binary, read>>
      /\ Sound(p) /\ SignTypes /\ s \in Calls /\ signing \in [Programs -> Calls]
  BY DEF WriteConstraint, SignInv, SignTypes
<1>2. s.result = None /\ exe[p].sig = None /\ None # "ok" /\ s.identity \in Identities /\ s.dir \in Dirs
  BY <1>1, SigningAssumption DEF Sound, HasSigned
<1>3. list \in Constraint
  <2>1. GoodInfo(s.info) /\ Usable(s.identity, s.info)
    BY <1>1 DEF Sound, HasInfo, HasAsked, Past
  <2> QED
    BY <1>2, <2>1, ConstraintReads
<1>4. Write(p, "constraint", list, "codesign")
  BY DEF WriteConstraint
<1> HIDE DEF list
<1>5. \/ SignInv'
      \/ /\ Goto(p, "codesign")
         /\ dirs' \in [Dirs -> ListsType]
         /\ \A d \in Dirs \ {s.dir} : dirs'[d] = dirs[d]
         /\ dirs'[s.dir] = [dirs[s.dir] EXCEPT !["constraint"] = list]
  BY <1>1, <1>3, <1>4, WriteDoes
<1> SUFFICES ASSUME Goto(p, "codesign"), dirs' \in [Dirs -> ListsType],
                    \A d \in Dirs \ {s.dir} : dirs'[d] = dirs[d],
                    dirs'[s.dir] = [dirs[s.dir] EXCEPT !["constraint"] = list]
             PROVE  SignInv'
  BY <1>5
<1>6. dirs'[s.dir].constraint = list /\ dirs'[s.dir].entitlements = dirs[s.dir].entitlements
  <2>1. dirs[s.dir] \in ListsType
    BY <1>1, <1>2 DEF SignTypes, ListsType
  <2> QED
    BY <2>1 DEF ListsType
<1>7. /\ signing' \in [Programs -> Calls]
      /\ signing'[p] = [signing[p] EXCEPT !.pc = "codesign"]
      /\ \A q \in Programs \ {p} : signing'[q] = signing[q]
  BY <1>1, OneField
<1>8. /\ signing'[p].pc = "codesign" /\ signing'[p].policy = s.policy /\ signing'[p].allow = s.allow
      /\ signing'[p].dir = s.dir /\ signing'[p].identity = s.identity
      /\ signing'[p].info = s.info /\ signing'[p].result = s.result
  BY <1>1, <1>7 DEF Calls
<1>9. SignTypes'
  BY <1>1, <1>7 DEF SignTypes, ListsType
<1>10. PolicyRead(p)' = PolicyRead(p)
  BY <1>1 DEF PolicyRead
<1>11. HasRead(p)' /\ HasInfo(p)' /\ HasAsked(p)' /\ HasSigned(p)'
  BY <1>1, <1>2, <1>8, <1>10 DEF Sound, HasRead, HasInfo, HasAsked, HasSigned, Past
<1>12. HasWritten(p)'
  BY <1>1, <1>6, <1>8 DEF Sound, HasWritten, list
<1> QED
  BY <1>1, <1>7, <1>8, <1>9, <1>11, <1>12, OwnStep DEF Sound

\* SignExecutable: what is signed is what the lists say, which is what was asked.
LEMMA SignExecutableKeeps ==
  ASSUME SignInv, NEW p \in Programs, SignExecutable(p)
  PROVE  SignInv'
<1> DEFINE s == signing[p]
<1>1. /\ s.pc = "codesign" /\ UNCHANGED <<shim, binary, dirs, read>>
      /\ Sound(p) /\ SignTypes /\ s \in Calls /\ signing \in [Programs -> Calls]
  BY DEF SignExecutable, SignInv, SignTypes
<1>2. s.result = None /\ exe[p].sig = None /\ None # "ok" /\ s.identity \in Identities /\ s.dir \in Dirs
  BY <1>1, SigningAssumption DEF Sound, HasSigned
<1>3. CASE Fails(p) /\ UNCHANGED exe
  BY <1>1, <1>3, FailsKeeps DEF SignTypes
<1>4. CASE exe' = Signed(p) /\ signing' = [signing EXCEPT ![p].pc = "idle", ![p].result = "ok"]
  <2> DEFINE r == [[signing[p] EXCEPT !.pc = "idle"] EXCEPT !.result = "ok"]
  <2>1. signing' = [signing EXCEPT ![p] = r]
    BY <1>1, <1>4
  <2>2. /\ r \in Calls /\ r.pc = "idle" /\ r.result = "ok" /\ r.policy = s.policy /\ r.allow = s.allow
        /\ r.identity = s.identity /\ r.info = s.info /\ r.dir = s.dir
    BY <1>1 DEF Calls
  <2> HIDE DEF r
  <2>3. /\ signing' \in [Programs -> Calls] /\ signing'[p] = r
        /\ \A q \in Programs \ {p} : signing'[q] = signing[q]
    BY <1>1, <2>1, <2>2
  <2>4. GoodInfo(s.info) /\ Usable(s.identity, s.info) /\ s.policy = PolicyRead(p)
    BY <1>1 DEF Sound, HasRead, HasInfo, HasAsked, Past
  <2>5. /\ dirs[s.dir].entitlements = EntitlementsList(s.identity, s.policy, s.allow)
        /\ dirs[s.dir].constraint = ConstraintList(s.identity, s.info)
    BY <1>1 DEF Sound, HasWritten
  <2>6. exe' = [exe EXCEPT ![p] = [exe[p] EXCEPT !.sig = Asked(p)]]
    BY <1>1, <1>4, <2>5 DEF Signed, Asked, SignTypes
  <2>7. Asked(p) \in Signature
    BY <1>1, <1>2, <2>4, AskedIsSignature
  <2> HIDE DEF s
  <2>8. /\ exe' \in [Programs -> [content : Nat, sig : {None} \cup Signature]]
        /\ exe'[p].sig = Asked(p) /\ exe'[p].content = exe[p].content
        /\ \A q \in Programs \ {p} : exe'[q] = exe[q]
    BY <1>1, <2>6, <2>7 DEF SignTypes
  <2>9. Asked(p)' = Asked(p)
    BY <2>2, <2>3, <2>8 DEF Asked, s
  <2>10. SignTypes'
    BY <1>1, <2>3, <2>8 DEF SignTypes
  <2>11. PolicyRead(p)' = PolicyRead(p)
    BY <1>1 DEF PolicyRead
  <2>12. HasRead(p)' /\ HasInfo(p)' /\ HasAsked(p)' /\ HasWritten(p)'
    BY <2>2, <2>3, <2>4, <2>11 DEF HasRead, HasInfo, HasAsked, HasWritten, Past
  <2>13. HasSigned(p)'
    BY <1>2, <2>2, <2>3, <2>8, <2>9 DEF HasSigned
  <2> QED
    BY <1>1, <2>2, <2>3, <2>8, <2>10, <2>12, <2>13, OwnStep DEF Sound, s
<1> QED
  BY <1>1, <1>3, <1>4 DEF SignExecutable

\* Die: the files stay, and nothing is known of them.
LEMMA DieKeeps ==
  ASSUME SignInv, NEW p \in Programs, Die(p)
  PROVE  SignInv'
<1>1. /\ signing[p].pc # "idle" /\ UNCHANGED <<shim, exe, binary, dirs, read>>
      /\ Sound(p) /\ SignTypes /\ signing \in [Programs -> Calls]
  BY DEF Die, SignInv, SignTypes
<1>2. Idle \in Calls /\ Idle.pc = "idle" /\ Idle.result = None
  BY DEF Idle, Calls, EmptyPolicy
<1>3. /\ signing' \in [Programs -> Calls] /\ signing'[p] = Idle
      /\ \A q \in Programs \ {p} : signing'[q] = signing[q]
  BY <1>1, <1>2 DEF Die
<1>4. SignTypes'
  BY <1>1, <1>3 DEF SignTypes
<1>5. Sound(p)'
  BY <1>1, <1>2, <1>3, CallEnds
<1> QED
  BY <1>1, <1>2, <1>3, <1>4, <1>5, OwnStep

\* UpdateShim: what is known of the shim is what was read of it then.
LEMMA UpdateShimKeeps ==
  ASSUME SignInv, UpdateShim
  PROVE  SignInv'
<1>1. SignTypes /\ UNCHANGED <<exe, binary, dirs, signing, read>>
  BY DEF UpdateShim, SignInv
<1>2. shim' \in [content : 1..MaxShims, sig : {None} \cup [by : Identities, content : 1..MaxShims]]
  BY <1>1, SigningAssumption DEF UpdateShim, SignTypes
<1>3. SignTypes'
  BY <1>1, <1>2 DEF SignTypes
<1>4. OwnDirs'
  BY <1>1 DEF SignInv, OwnDirs
<1>5. ASSUME NEW q \in Programs
      PROVE  Sound(q)'
  BY <1>1, Undisturbed DEF SignInv
<1> QED
  BY <1>3, <1>4, <1>5 DEF SignInv

-----------------------------------------------------------------------------
(***************************************************************************)
(* The theorems.                                                           *)
(***************************************************************************)
\* Every step keeps the invariant.
LEMMA SignStepInv ==
  SignInv /\ [SignNext]_signVars => SignInv'
<1> SUFFICES ASSUME SignInv, [SignNext]_signVars PROVE SignInv'
  OBVIOUS
<1>1. CASE UNCHANGED signVars
  <2>1. UNCHANGED <<shim, exe, binary, dirs, signing, read>>
    BY <1>1 DEF signVars
  <2>2. SignTypes' /\ OwnDirs'
    BY <2>1 DEF SignInv, SignTypes, OwnDirs
  <2>3. ASSUME NEW q \in Programs
        PROVE  Sound(q)'
    BY <2>1, Undisturbed DEF SignInv
  <2> QED
    BY <2>2, <2>3 DEF SignInv
<1>2. CASE UpdateShim
  BY <1>2, UpdateShimKeeps
<1>3. ASSUME NEW p \in Programs,
             \E identity \in Identities, allow \in BOOLEAN, d \in Dirs : Begin(p, identity, allow, d)
      PROVE  SignInv'
  BY <1>3, BeginKeeps
<1>4. ASSUME NEW p \in Programs, ReadEntitlements(p) PROVE SignInv'
  BY <1>4, ReadEntitlementsKeeps
<1>5. ASSUME NEW p \in Programs, SignShim(p) \/ UseShim(p) PROVE SignInv'
  BY <1>5, SignShimKeeps
<1>6. ASSUME NEW p \in Programs, ReadShim(p) PROVE SignInv'
  BY <1>6, ReadShimKeeps
<1>7. ASSUME NEW p \in Programs, WriteEntitlements(p) PROVE SignInv'
  BY <1>7, WriteEntitlementsKeeps
<1>8. ASSUME NEW p \in Programs, WriteConstraint(p) PROVE SignInv'
  BY <1>8, WriteConstraintKeeps
<1>9. ASSUME NEW p \in Programs, SignExecutable(p) PROVE SignInv'
  BY <1>9, SignExecutableKeeps
<1>10. ASSUME NEW p \in Programs, Die(p) PROVE SignInv'
  BY <1>10, DieKeeps
<1> QED
  BY <1>1, <1>2, <1>3, <1>4, <1>5, <1>6, <1>7, <1>8, <1>9, <1>10 DEF SignNext

\* A copy that is signed was signed by the call that made it, and what the calls
\* know stays true (sign_shim, signing_info, sign_rewritten_executable).
THEOREM SignInvariant ==
  SignSpec => []SignInv
<1>1. SignInit => SignInv
  BY SignInitInv
<1>2. SignInv /\ [SignNext]_signVars => SignInv'
  BY SignStepInv
<1> QED
  BY <1>1, <1>2, PTL DEF SignSpec

\* The invariant of those who sign implies their types.
LEMMA SignedIsTyped ==
  SignInv => SignTypeOK
<1> SUFFICES ASSUME SignInv, NEW p \in Programs
             PROVE  /\ signing[p].pc \in {"idle", "entitlements", "shim", "info", "write", "constraint", "codesign"}
                    /\ signing[p].result \in {None, "ok", "error"}
                    /\ signing[p].dir \in Dirs \cup {None}
                    /\ signing[p].identity \in Identities \cup {None}
                    /\ exe[p].sig # None <=> signing[p].result = "ok"
  BY DEF SignTypeOK
<1>1. signing[p] \in Calls /\ Sound(p)
  BY DEF SignInv, SignTypes
<1>2. ASSUME signing[p].result = "ok"
      PROVE  exe[p].sig # None
  <2>1. GoodInfo(signing[p].info) /\ Usable(signing[p].identity, signing[p].info)
        /\ signing[p].identity \in Identities /\ exe[p].sig = Asked(p)
    BY <1>1, <1>2 DEF Sound, HasInfo, HasAsked, HasSigned, Past
  <2> QED
    BY <2>1, AskedIsSignature DEF SignInv
<1>3. signing[p].result # "ok" => exe[p].sig = None
  BY <1>1 DEF Sound, HasSigned
<1> QED
  BY <1>1, <1>2, <1>3 DEF Calls

\* The type invariant of those who sign: a copy has a signature exactly when the
\* call that made it succeeded (sign_rewritten_executable).
THEOREM SignTypeCorrect ==
  SignSpec => []SignTypeOK
BY SignedIsTyped, SignInvariant, PTL

\* What holds of a copy that is signed.
LEMMA SignedCopy ==
  ASSUME SignInv, NEW p \in Programs, exe[p].sig # None
  PROVE  LET s == signing[p]
             sig == exe[p].sig
         IN  /\ s.identity \in Identities /\ GoodInfo(s.info) /\ Usable(s.identity, s.info)
             /\ s.policy = PolicyRead(p)
             /\ sig.by = s.identity /\ sig.content = exe[p].content
             /\ sig.entitlements = EntitlementsList(s.identity, s.policy, s.allow)
             /\ sig.constraint = ConstraintList(s.identity, s.info)
<1>1. Sound(p)
  BY DEF SignInv
<1>2. signing[p].result = "ok"
  BY <1>1 DEF Sound, HasSigned
<1>3. exe[p].sig = Asked(p)
  BY <1>1, <1>2 DEF Sound, HasSigned
<1>4. /\ signing[p].identity \in Identities /\ GoodInfo(signing[p].info)
      /\ Usable(signing[p].identity, signing[p].info)
      /\ signing[p].policy = PolicyRead(p)
  BY <1>1, <1>2 DEF Sound, HasRead, HasInfo, HasAsked, HasSigned, Past
<1> QED
  BY <1>3, <1>4 DEF Asked

\* What codesign puts into a copy is what its own call asked for, for any number
\* of programs, directories, identities and builds, whoever used the directory
\* before (sign_rewritten_executable, EntitlementPolicy).
THEOREM SignedAsAskedHolds ==
  SignSpec => []SignedAsAsked
<1>1. SignInv => SignedAsAsked
  <2> SUFFICES ASSUME SignInv, NEW p \in Programs, exe[p].sig # None
               PROVE  /\ exe[p].sig.entitlements \cap Carried =
                           {key \in binary[p].entitlements \cap Carried :
                              read[p] /\ binary[p].signed /\ (key = GetTaskAllow => signing[p].allow)}
                      /\ DisableLibraryValidation \in exe[p].sig.entitlements <=> exe[p].sig.by = AdHoc
                      /\ exe[p].sig.by = signing[p].identity /\ exe[p].sig.content = exe[p].content
                      /\ exe[p].sig.constraint # None
                      /\ IF signing[p].identity = AdHoc
                         THEN /\ exe[p].sig.constraint.kind = "cdhash"
                              /\ Unpacked(exe[p].sig.constraint.data) = hex_decode(signing[p].info.cdhash)
                         ELSE /\ exe[p].sig.constraint.kind = "team"
                              /\ Unescaped(exe[p].sig.constraint.team) = signing[p].info.team
                              /\ Unescaped(exe[p].sig.constraint.identifier) = signing[p].info.identifier
    BY DEF SignedAsAsked
  <2> DEFINE s == signing[p]
             sig == exe[p].sig
  <2>1. /\ s.identity \in Identities /\ GoodInfo(s.info) /\ Usable(s.identity, s.info)
        /\ s.policy = PolicyRead(p)
        /\ sig.by = s.identity /\ sig.content = exe[p].content
        /\ sig.entitlements = EntitlementsList(s.identity, s.policy, s.allow)
        /\ sig.constraint = ConstraintList(s.identity, s.info)
    BY SignedCopy
  <2> HIDE DEF s, sig
  <2>2. DisableLibraryValidation \notin Carried
    BY DEF DisableLibraryValidation, Carried, AllowJit, AllowUnsigned, GetTaskAllow
  <2>3. \A key \in Carried : s.policy[key] <=> read[p] /\ binary[p].signed /\ key \in binary[p].entitlements
    BY <2>1 DEF PolicyRead
  <2>4. sig.entitlements \cap Carried =
          {key \in binary[p].entitlements \cap Carried :
             read[p] /\ binary[p].signed /\ (key = GetTaskAllow => s.allow)}
    <3>1. \A key : key \in sig.entitlements \cap Carried
                     <=> key \in Carried /\ s.policy[key] /\ (key = GetTaskAllow => s.allow)
      BY <2>1, <2>2 DEF EntitlementsList
    <3> QED
      BY <2>3, <3>1
  <2>5. DisableLibraryValidation \in sig.entitlements <=> sig.by = AdHoc
    BY <2>1, <2>2 DEF EntitlementsList, is_adhoc
  <2>6. LET c == ConstraintList(s.identity, s.info)
        IN  /\ c \in Constraint
            /\ s.identity = AdHoc =>
                 c.kind = "cdhash" /\ Unpacked(c.data) = hex_decode(s.info.cdhash)
            /\ s.identity # AdHoc =>
                 /\ c.kind = "team" /\ s.info.team \in Text
                 /\ Unescaped(c.team) = s.info.team
                 /\ Unescaped(c.identifier) = s.info.identifier
    BY <2>1, ConstraintReads
  <2>7. sig.constraint # None
    BY <2>1, <2>6, SigningAssumption
  <2> QED
    BY <2>1, <2>4, <2>5, <2>6, <2>7 DEF s, sig
<1> QED
  BY <1>1, SignInvariant, PTL

\* A copy that was signed loads the shim for as long as the shim's signature is
\* like the one whose report was read, a later build by the same team too
\* (sign_rewritten_executable, signing_info).
THEOREM SignedLoadsShimHolds ==
  SignSpec => []SignedLoadsShim
<1>1. SignInv => SignedLoadsShim
  <2> SUFFICES ASSUME SignInv, NEW p \in Programs, exe[p].sig # None, IsSigned(shim),
                      IF exe[p].sig.by = AdHoc
                      THEN CDHash[shim.sig.by][shim.content] = signing[p].info.cdhash
                      ELSE /\ shim.sig.by # AdHoc
                           /\ {Team[shim.sig.by], signing[p].info.team} = {Team[exe[p].sig.by]}
               PROVE  Loads(p)
    BY DEF SignedLoadsShim
  <2> DEFINE s == signing[p]
             sig == exe[p].sig
  <2>1. /\ s.identity \in Identities /\ GoodInfo(s.info) /\ Usable(s.identity, s.info)
        /\ sig.by = s.identity /\ sig.content = exe[p].content
        /\ sig.entitlements = EntitlementsList(s.identity, s.policy, s.allow)
        /\ sig.constraint = ConstraintList(s.identity, s.info)
    BY SignedCopy
  <2>2. LET c == ConstraintList(s.identity, s.info)
        IN  /\ c \in Constraint
            /\ s.identity = AdHoc =>
                 c.kind = "cdhash" /\ Unpacked(c.data) = hex_decode(s.info.cdhash)
            /\ s.identity # AdHoc =>
                 /\ c.kind = "team" /\ s.info.team \in Text
                 /\ Unescaped(c.team) = s.info.team
                 /\ Unescaped(c.identifier) = s.info.identifier
    BY <2>1, ConstraintReads
  <2>3. IsSigned(exe[p])
    BY <2>1 DEF IsSigned
  <2>4. CASE sig.by = AdHoc
    <3>1. DisableLibraryValidation \in sig.entitlements
      BY <2>1, <2>4 DEF EntitlementsList, is_adhoc
    <3>2. CDHash[shim.sig.by][shim.content] = s.info.cdhash
      BY <2>4
    <3>3. Satisfied(sig.constraint)
      BY <2>1, <2>2, <2>4, <3>2 DEF Satisfied
    <3> QED
      BY <2>3, <3>1, <3>3 DEF Loads
  <2>5. CASE sig.by # AdHoc
    <3>1. shim.sig.by # AdHoc /\ Team[shim.sig.by] = Team[sig.by] /\ s.info.team = Team[sig.by]
      BY <2>5
    <3>2. s.info.team # NotSet /\ s.info.identifier = ShimIdentifier
      BY <2>1 DEF GoodInfo
    <3>3. Satisfied(sig.constraint)
      BY <2>1, <2>2, <2>5, <3>1, <3>2 DEF Satisfied
    <3> QED
      BY <2>3, <2>5, <3>1, <3>2, <3>3 DEF Loads
  <2> QED
    BY <2>4, <2>5
<1> QED
  BY <1>1, SignInvariant, PTL
=============================================================================
