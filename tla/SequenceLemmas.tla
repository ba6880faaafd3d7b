---------------------------- MODULE SequenceLemmas ----------------------------
(***************************************************************************)
(* Facts about sequences that the proofs of several components use.        *)
(***************************************************************************)
EXTENDS SequencesExt, SequenceTheorems, WellFoundedInduction, TLAPS

\* The part of a sequence above its first b elements.
Above(s, b) == SubSeq(s, b + 1, Len(s))

\* Its length and its elements.
LEMMA AboveElements ==
  ASSUME NEW S, NEW s \in Seq(S), NEW b \in 0..Len(s)
  PROVE  /\ Above(s, b) \in Seq(S)
         /\ Len(Above(s, b)) = Len(s) - b
         /\ \A i \in 1..(Len(s) - b) : Above(s, b)[i] = s[b + i]
<1>1. \A i \in (b + 1)..Len(s) : s[i] \in S
  OBVIOUS
<1>2. Len(s) \in Int /\ b + 1 \in Int
  OBVIOUS
<1>3. /\ SubSeq(s, b + 1, Len(s)) \in Seq(S)
      /\ Len(SubSeq(s, b + 1, Len(s))) = IF b + 1 <= Len(s) THEN Len(s) - (b + 1) + 1 ELSE 0
      /\ \A i \in 1..(Len(s) - (b + 1) + 1) : SubSeq(s, b + 1, Len(s))[i] = s[(b + 1) + i - 1]
  BY <1>1, <1>2, SubSeqProperties
<1> QED
  BY <1>3 DEF Above

\* The same of a sequence without its last element.
LEMMA FrontElements ==
  ASSUME NEW S, NEW s \in Seq(S), s # <<>>
  PROVE  /\ Front(s) \in Seq(S)
         /\ Len(Front(s)) = Len(s) - 1
         /\ Last(s) \in S
         /\ \A i \in 1..(Len(s) - 1) : Front(s)[i] = s[i]
<1> DEFINE k == Len(s) - 1
           f == SubSeq(s, 1, k)
<1>1. Len(s) \in Nat \ {0}
  BY EmptySeq
<1>2. k \in Nat /\ Len(s) \in 1..Len(s)
  BY <1>1
<1>3. s[Len(s)] \in S
  BY <1>2, ElementOfSeq
<1>4. \A i \in 1..k : s[i] \in S
  BY <1>1
<1> HIDE DEF k
<1>5. /\ f \in Seq(S)
      /\ Len(f) = IF 1 <= k THEN k - 1 + 1 ELSE 0
      /\ \A i \in 1..(k - 1 + 1) : f[i] = s[1 + i - 1]
  BY <1>2, <1>4, SubSeqProperties
<1> HIDE DEF f
<1>6. Len(f) = k
  BY <1>2, <1>5
<1>7. ASSUME NEW i \in 1..k
      PROVE  f[i] = s[i]
  <2>1. i \in 1..(k - 1 + 1) /\ i \in Int
    BY <1>2
  <2>2. f[i] = s[1 + i - 1]
    BY <1>5, <2>1, Zenon
  <2>3. 1 + i - 1 = i
    BY <2>1
  <2> QED
    BY <2>2, <2>3, Zenon
<1> QED
  BY <1>3, <1>5, <1>6, <1>7 DEF Front, Last, f, k

\* Pushing onto a sequence pushes onto the part above.
LEMMA AboveAppend ==
  ASSUME NEW S, NEW s \in Seq(S), NEW x \in S, NEW b \in 0..Len(s)
  PROVE  /\ Append(s, x) \in Seq(S)
         /\ Above(Append(s, x), b) = Append(Above(s, b), x)
<1> DEFINE t == Append(s, x)
<1>1. /\ t \in Seq(S)
      /\ Len(t) = Len(s) + 1
      /\ b \in 0..Len(t)
      /\ \A i \in 1..Len(s) : t[i] = s[i]
      /\ t[Len(s) + 1] = x
  OBVIOUS
<1> HIDE DEF t
<1>2. /\ Above(s, b) \in Seq(S)
      /\ Len(Above(s, b)) = Len(s) - b
      /\ \A i \in 1..(Len(s) - b) : Above(s, b)[i] = s[b + i]
  BY AboveElements
<1>3. /\ Above(t, b) \in Seq(S)
      /\ Len(Above(t, b)) = Len(t) - b
      /\ \A i \in 1..(Len(t) - b) : Above(t, b)[i] = t[b + i]
  BY <1>1, AboveElements
<1>4. /\ Append(Above(s, b), x) \in Seq(S)
      /\ Len(Append(Above(s, b), x)) = Len(t) - b
      /\ \A i \in 1..(Len(t) - b) : Append(Above(s, b), x)[i] = t[b + i]
  <2> DEFINE a == Above(s, b)
  <2>1. a \in Seq(S) /\ Len(a) = Len(s) - b
    BY <1>2
  <2>2. \A i \in 1..(Len(s) - b) : a[i] = t[b + i]
    BY <1>1, <1>2
  <2> HIDE DEF a
  <2>3. /\ Append(a, x) \in Seq(S)
        /\ Len(Append(a, x)) = Len(a) + 1
        /\ \A i \in 1..Len(a) : Append(a, x)[i] = a[i]
        /\ Append(a, x)[Len(a) + 1] = x
    BY <2>1
  <2>4. Len(a) + 1 = Len(t) - b /\ Len(s) \in Nat /\ b \in Nat /\ Len(t) = Len(s) + 1
    BY <1>1, <2>1
  <2>5. ASSUME NEW i \in 1..(Len(t) - b)
        PROVE  Append(a, x)[i] = t[b + i]
    <3>1. CASE i = Len(s) - b + 1
      BY <1>1, <2>1, <2>3, <2>4, <3>1
    <3>2. CASE i # Len(s) - b + 1
      BY <2>1, <2>2, <2>3, <2>4, <3>2
    <3> QED
      BY <3>1, <3>2
  <2> QED
    BY <2>3, <2>4, <2>5 DEF a
<1>5. Above(t, b) = Append(Above(s, b), x)
  BY <1>3, <1>4, SeqEqual
<1> QED
  BY <1>1, <1>5 DEF t

\* The top of a sequence is that of the part above, and popping it pops it
\* there.
LEMMA AboveFront ==
  ASSUME NEW S, NEW s \in Seq(S), NEW b \in 0..(Len(s) - 1)
  PROVE  /\ Above(s, b) # <<>>
         /\ Last(Above(s, b)) = Last(s)
         /\ Above(Front(s), b) = Front(Above(s, b))
<1>1. s # <<>> /\ b \in 0..Len(s)
  OBVIOUS
<1>0. Len(s) \in Nat /\ b \in Nat /\ b <= Len(s) - 1
  OBVIOUS
<1>2. /\ Above(s, b) \in Seq(S)
      /\ Len(Above(s, b)) = Len(s) - b
      /\ \A i \in 1..(Len(s) - b) : Above(s, b)[i] = s[b + i]
  BY <1>1, AboveElements
<1>3. Above(s, b) # <<>> /\ Last(Above(s, b)) = Last(s)
  <2>1. Len(s) - b \in 1..(Len(s) - b) /\ b + (Len(s) - b) = Len(s)
    BY <1>0
  <2>2. Above(s, b)[Len(s) - b] = s[Len(s)]
    BY <1>2, <2>1
  <2> QED
    BY <1>0, <1>2, <2>2, EmptySeq DEF Last
<1>4. /\ Front(s) \in Seq(S)
      /\ Len(Front(s)) = Len(s) - 1
      /\ \A i \in 1..(Len(s) - 1) : Front(s)[i] = s[i]
  BY <1>1, FrontElements
<1>5. /\ Above(Front(s), b) \in Seq(S)
      /\ Len(Above(Front(s), b)) = Len(s) - b - 1
      /\ \A i \in 1..(Len(s) - b - 1) : Above(Front(s), b)[i] = Front(s)[b + i]
  <2>1. b \in 0..Len(Front(s))
    BY <1>0, <1>4
  <2>2. /\ Above(Front(s), b) \in Seq(S)
        /\ Len(Above(Front(s), b)) = Len(Front(s)) - b
        /\ \A i \in 1..(Len(Front(s)) - b) : Above(Front(s), b)[i] = Front(s)[b + i]
    BY <2>1, <1>4, AboveElements
  <2>3. Len(Front(s)) - b = Len(s) - b - 1
    BY <1>0, <1>4
  <2> QED
    BY <2>2, <2>3
<1>6. /\ Front(Above(s, b)) \in Seq(S)
      /\ Len(Front(Above(s, b))) = Len(s) - b - 1
      /\ \A i \in 1..(Len(s) - b - 1) : Front(Above(s, b))[i] = Above(s, b)[i]
  BY <1>2, <1>3, FrontElements
<1>7. Above(Front(s), b) = Front(Above(s, b))
  <2>1. \A i \in 1..(Len(s) - b - 1) : Above(Front(s), b)[i] = Front(Above(s, b))[i]
    <3> SUFFICES ASSUME NEW i \in 1..(Len(s) - b - 1)
                 PROVE  Above(Front(s), b)[i] = Front(Above(s, b))[i]
      OBVIOUS
    <3>1. i \in 1..(Len(s) - b) /\ b + i \in 1..(Len(s) - 1)
      BY <1>0
    <3> QED
      BY <1>2, <1>4, <1>5, <1>6, <3>1
  <2> QED
    BY <2>1, <1>5, <1>6, SeqEqual
<1> QED
  BY <1>3, <1>7

\* A sequence without its last two elements, and the one below the top.
LEMMA FrontOfFront ==
  ASSUME NEW S, NEW s \in Seq(S), Len(s) >= 2
  PROVE  /\ Front(s) # <<>>
         /\ Front(Front(s)) = SubSeq(s, 1, Len(s) - 2)
         /\ Last(Front(s)) = s[Len(s) - 1]
<1> DEFINE k == Len(s) - 2
           f == SubSeq(s, 1, k)
<1>1. Len(s) \in Nat /\ s # <<>> /\ k \in Nat /\ k + 2 = Len(s)
  OBVIOUS
<1>2. \A i \in 1..k : s[i] \in S
  BY <1>1
<1> HIDE DEF k
<1>3. /\ f \in Seq(S)
      /\ Len(f) = IF 1 <= k THEN k - 1 + 1 ELSE 0
      /\ \A i \in 1..(k - 1 + 1) : f[i] = s[1 + i - 1]
  BY <1>1, <1>2, SubSeqProperties
<1> HIDE DEF f
<1>4. Len(f) = k
  BY <1>1, <1>3
<1>5. /\ Front(s) \in Seq(S)
      /\ Len(Front(s)) = k + 1
      /\ \A i \in 1..(k + 1) : Front(s)[i] = s[i]
  BY <1>1, FrontElements
<1>6. Front(s) # <<>>
  BY <1>1, <1>5
<1>7. /\ Front(Front(s)) \in Seq(S)
      /\ Len(Front(Front(s))) = k
      /\ \A i \in 1..k : Front(Front(s))[i] = Front(s)[i]
  <2>1. /\ Front(Front(s)) \in Seq(S)
        /\ Len(Front(Front(s))) = Len(Front(s)) - 1
        /\ \A i \in 1..(Len(Front(s)) - 1) : Front(Front(s))[i] = Front(s)[i]
    BY <1>5, <1>6, FrontElements
  <2>2. Len(Front(s)) - 1 = k
    BY <1>1, <1>5
  <2> QED
    BY <2>1, <2>2
<1>8. ASSUME NEW i \in 1..k
      PROVE  Front(Front(s))[i] = f[i]
  <2>1. i \in 1..(k - 1 + 1) /\ i \in 1..(k + 1) /\ i \in Int
    BY <1>1
  <2>2. f[i] = s[1 + i - 1]
    BY <1>3, <2>1, Zenon
  <2>3. 1 + i - 1 = i
    BY <2>1
  <2> QED
    BY <1>5, <1>7, <2>1, <2>2, <2>3, Zenon
<1>9. Front(Front(s)) = f
  BY <1>3, <1>4, <1>7, <1>8, SeqEqual
<1>10. Last(Front(s)) = s[k + 1]
  <2>1. Len(Front(s)) = k + 1 /\ k + 1 \in 1..(k + 1)
    BY <1>1, <1>5
  <2> QED
    BY <1>5, <2>1 DEF Last
<1>11. k + 1 = Len(s) - 1 /\ k = Len(s) - 2
  BY <1>1 DEF k
<1> QED
  BY <1>6, <1>9, <1>10, <1>11 DEF f

\* A sequence of two elements.
LEMMA AppendToOne ==
  ASSUME NEW a, NEW b
  PROVE  Append(<<a>>, b) = <<a, b>>
<1>1. /\ <<a>> \in Seq({a, b}) /\ <<a, b>> \in Seq({a, b})
      /\ Append(<<a>>, b) \in Seq({a, b})
  OBVIOUS
<1>2. Len(Append(<<a>>, b)) = 2 /\ Len(<<a, b>>) = 2
  OBVIOUS
<1>3. \A i \in 1..2 : Append(<<a>>, b)[i] = <<a, b>>[i]
  <2>1. Append(<<a>>, b)[1] = a /\ Append(<<a>>, b)[2] = b
    OBVIOUS
  <2> QED
    BY <2>1
<1> QED
  BY <1>1, <1>2, <1>3, SeqEqual

-----------------------------------------------------------------------------
(***************************************************************************)
(* Induction, for sets that are defined by a concrete formula.             *)
(***************************************************************************)

\* A set of numbers that is not empty has a least element.
LEMMA LeastNumber ==
  ASSUME NEW S, S \subseteq Nat, S # {}
  PROVE  \E m \in S : \A j \in S : m <= j
<1> DEFINE R == OpToRel(<, Nat)
<1>1. PICK m \in S : \A y \in S : ~ (<<y, m>> \in R)
  <2> HIDE DEF R
  <2>1. IsWellFoundedOn(R, Nat)
    BY NatLessThanWellFounded DEF R
  <2> QED
    BY <2>1, WFMin
<1>2. ASSUME NEW y \in S, y < m PROVE FALSE
  <2>1. <<y, m>> \in {ss \in Nat \X Nat : ss[1] < ss[2]}
    BY <1>2
  <2> QED
    BY <1>1, <2>1 DEF OpToRel
<1> QED
  BY <1>2

\* A set that has zero, and with each number the next, has every number.
LEMMA SetInduction ==
  ASSUME NEW S, 0 \in S, \A n \in Nat : n \in S => n + 1 \in S
  PROVE  Nat \subseteq S
<1> DEFINE T == {n \in Nat : n \notin S}
<1>1. SUFFICES ASSUME T # {} PROVE FALSE
  OBVIOUS
<1>2. PICK m \in T : \A j \in T : m <= j
  BY <1>1, LeastNumber
<1>3. m # 0 /\ m - 1 \in Nat
  BY <1>2
<1>4. m - 1 \in S
  BY <1>2, <1>3
<1> QED
  BY <1>2, <1>3, <1>4

\* The least element of a set of numbers, and the greatest of a bounded one.
LEMMA MinOf ==
  ASSUME NEW S, S \subseteq Nat, S # {}
  PROVE  Min(S) \in S /\ \A j \in S : Min(S) <= j
BY LeastNumber DEF Min

\* The greatest element is one of the set.
LEMMA MaxOf ==
  ASSUME NEW n \in Nat, NEW S, S \subseteq 0..n, S # {}
  PROVE  Max(S) \in S /\ \A j \in S : Max(S) >= j
<1> DEFINE T == {n - j : j \in S}
<1>1. PICK m \in T : \A j \in T : m <= j
  <2>1. T \subseteq Nat
    OBVIOUS
  <2> HIDE DEF T
  <2>2. T # {}
    BY DEF T
  <2> QED
    BY <2>1, <2>2, LeastNumber
<1>2. PICK x \in S : m = n - x
  OBVIOUS
<1>3. \A j \in S : x >= j
  <2> SUFFICES ASSUME NEW j \in S PROVE x >= j
    OBVIOUS
  <2>1. n - j \in T
    OBVIOUS
  <2>2. m <= n - j
    BY <1>1, <2>1
  <2> QED
    BY <1>2, <2>2
<1> QED
  BY <1>3 DEF Max

\* An element that is below all others is the least, one that is above them
\* the greatest.
LEMMA MinIs ==
  ASSUME NEW S, S \subseteq Nat, NEW m \in S, \A j \in S : m <= j
  PROVE  Min(S) = m
<1>1. Min(S) \in S /\ \A j \in S : Min(S) <= j
  BY MinOf
<1>2. Min(S) \in Nat /\ m \in Nat /\ Min(S) <= m /\ m <= Min(S)
  BY <1>1
<1> QED
  BY <1>2

\* An element that no other exceeds is the greatest.
LEMMA MaxIs ==
  ASSUME NEW n \in Nat, NEW S, S \subseteq 0..n, NEW m \in S, \A j \in S : m >= j
  PROVE  Max(S) = m
<1> DEFINE x == Max(S)
<1>1. x \in S /\ \A j \in S : x >= j
  BY MaxOf
<1> HIDE DEF x
<1>2. x \in Nat /\ m \in Nat /\ x >= m /\ m >= x
  BY <1>1
<1> QED
  BY <1>2 DEF x

\* A function on 0..n is given by its first value and what follows each.
Recursive(f, n, T, x, h) ==
  f \in [0..n -> T] /\ f[0] = x /\ \A i \in 1..n : f[i] = h[<<i, f[i - 1]>>]

\* There is such a function.
LEMMA Recursion ==
  ASSUME NEW T, NEW x \in T, NEW n \in Nat, NEW h, \A i \in 1..n, y \in T : h[<<i, y>>] \in T
  PROVE  \E f : Recursive(f, n, T, x, h)
<1> DEFINE F(m, f) == f \in [0..m -> T] /\ f[0] = x /\ \A i \in 1..m : f[i] = h[<<i, f[i - 1]>>]
           N == {m \in Nat : m <= n => \E f : F(m, f)}
<1>1. 0 \in N
  <2>1. F(0, [i \in 0..0 |-> x])
    OBVIOUS
  <2> HIDE DEF F
  <2> QED
    BY <2>1
<1>2. ASSUME NEW m \in Nat, m \in N PROVE m + 1 \in N
  <2> SUFFICES ASSUME m + 1 <= n PROVE \E f : F(m + 1, f)
    OBVIOUS
  <2>1. PICK f : F(m, f)
    BY <1>2
  <2> DEFINE y == h[<<m + 1, f[m]>>]
             g == [i \in 0..(m + 1) |-> IF i = m + 1 THEN y ELSE f[i]]
  <2>2. y \in T
    <3>1. f[m] \in T /\ m + 1 \in 1..n
      BY <2>1
    <3> QED
      BY <3>1
  <2>3. g \in [0..(m + 1) -> T] /\ g[0] = x
    BY <2>1, <2>2
  <2>4. ASSUME NEW i \in 1..(m + 1) PROVE g[i] = h[<<i, g[i - 1]>>]
    <3>1. g[i - 1] = f[i - 1]
      OBVIOUS
    <3>2. CASE i = m + 1
      <4>1. g[i] = y /\ i - 1 = m
        BY <3>2
      <4> QED
        BY <3>1, <3>2, <4>1
    <3>3. CASE i # m + 1
      BY <2>1, <3>1, <3>3
    <3> QED
      BY <3>2, <3>3
  <2>5. F(m + 1, g)
    BY <2>3, <2>4
  <2> HIDE DEF F
  <2> QED
    BY <2>5
<1> HIDE DEF N
<1>3. Nat \subseteq N
  BY <1>1, <1>2, SetInduction
<1>4. \E f : F(n, f)
  <2> HIDE DEF F
  <2>1. n \in N /\ n <= n
    BY <1>3
  <2> QED
    BY <2>1 DEF N
<1> QED
  BY <1>4 DEF Recursive

\* Two functions that start with the same value, and follow each value by the
\* same, are the same up to n.
LEMMA SameRecursion ==
  ASSUME NEW n \in Nat, NEW f, NEW g, f[0] = g[0],
         \A i \in 1..n : f[i - 1] = g[i - 1] => f[i] = g[i]
  PROVE  \A i \in 0..n : f[i] = g[i]
<1> DEFINE N == {i \in Nat : i <= n => f[i] = g[i]}
<1>1. 0 \in N
  OBVIOUS
<1>2. ASSUME NEW i \in Nat, i \in N PROVE i + 1 \in N
  <2> SUFFICES ASSUME i + 1 <= n PROVE f[i + 1] = g[i + 1]
    OBVIOUS
  <2>1. f[i] = g[i] /\ i + 1 \in 1..n /\ (i + 1) - 1 = i
    BY <1>2
  <2> DEFINE j == i + 1
  <2> HIDE DEF j
  <2>2. f[j - 1] = g[j - 1] => f[j] = g[j]
    BY <2>1 DEF j
  <2> QED
    BY <2>1, <2>2 DEF j
<1> HIDE DEF N
<1>3. Nat \subseteq N
  BY <1>1, <1>2, SetInduction
<1> QED
  BY <1>3 DEF N

-----------------------------------------------------------------------------
(***************************************************************************)
(* Concatenation, and FlattenSeq, which concatenates a sequence of         *)
(* sequences.                                                              *)
(***************************************************************************)

\* The parts of a sequence that was put together from two.
LEMMA ConcatParts ==
  ASSUME NEW S, NEW s \in Seq(S), NEW t \in Seq(S)
  PROVE  /\ s \o t \in Seq(S)
         /\ Len(s \o t) = Len(s) + Len(t)
         /\ SubSeq(s \o t, 1, Len(s)) = s
         /\ SubSeq(s \o t, Len(s) + 1, Len(s \o t)) = t
<1> DEFINE u == s \o t
<1>1. /\ u \in Seq(S)
      /\ Len(u) = Len(s) + Len(t)
      /\ \A i \in 1..Len(s) + Len(t) : u[i] = IF i <= Len(s) THEN s[i] ELSE t[i - Len(s)]
  BY ConcatProperties
<1>2. Len(s) \in Nat /\ Len(t) \in Nat
  OBVIOUS
<1> HIDE DEF u
<1>3. SubSeq(u, 1, Len(s)) = s
  <2>1. \A i \in 1..Len(s) : u[i] \in S
    BY <1>1, <1>2
  <2>2. /\ SubSeq(u, 1, Len(s)) \in Seq(S)
        /\ Len(SubSeq(u, 1, Len(s))) = Len(s)
        /\ \A i \in 1..Len(s) : SubSeq(u, 1, Len(s))[i] = u[i]
    BY <1>2, <2>1, SubSeqProperties
  <2>3. \A i \in 1..Len(s) : SubSeq(u, 1, Len(s))[i] = s[i]
    BY <1>1, <1>2, <2>2
  <2> QED
    BY <2>2, <2>3, SeqEqual
<1>4. SubSeq(u, Len(s) + 1, Len(u)) = t
  <2>1. \A i \in (Len(s) + 1)..Len(u) : u[i] \in S
    BY <1>1, <1>2
  <2> DEFINE v == SubSeq(u, Len(s) + 1, Len(u))
  <2>2. /\ v \in Seq(S)
        /\ Len(v) = IF Len(s) + 1 <= Len(u) THEN Len(u) - (Len(s) + 1) + 1 ELSE 0
        /\ \A i \in 1..(Len(u) - (Len(s) + 1) + 1) : v[i] = u[(Len(s) + 1) + i - 1]
    BY <1>1, <1>2, <2>1, SubSeqProperties
  <2> HIDE DEF v
  <2>3. Len(v) = Len(t)
    BY <1>1, <1>2, <2>2
  <2>4. ASSUME NEW i \in 1..Len(v) PROVE v[i] = t[i]
    <3>1. i \in 1..(Len(u) - (Len(s) + 1) + 1)
      BY <1>1, <1>2, <2>3
    <3>2. v[i] = u[(Len(s) + 1) + i - 1]
      BY <2>2, <3>1
    <3>3. (Len(s) + 1) + i - 1 = Len(s) + i
      BY <1>2
    <3>4. Len(s) + i \in 1..Len(s) + Len(t) /\ ~ (Len(s) + i <= Len(s)) /\ Len(s) + i - Len(s) = i
      BY <1>2, <2>3
    <3> QED
      BY <1>1, <3>2, <3>3, <3>4
  <2>5. v = t
    BY <2>2, <2>3, <2>4, SeqEqual
  <2> QED
    BY <2>5 DEF v
<1> QED
  BY <1>1, <1>3, <1>4 DEF u

\* A sequence is put together from its first elements and the others.
LEMMA SplitAt ==
  ASSUME NEW S, NEW s \in Seq(S), NEW n \in 0..Len(s)
  PROVE  /\ SubSeq(s, 1, n) \in Seq(S)
         /\ Len(SubSeq(s, 1, n)) = n
         /\ SubSeq(s, n + 1, Len(s)) \in Seq(S)
         /\ Len(SubSeq(s, n + 1, Len(s))) = Len(s) - n
         /\ SubSeq(s, 1, n) \o SubSeq(s, n + 1, Len(s)) = s
<1>1. Len(s) \in Nat /\ n \in Nat /\ n <= Len(s)
  OBVIOUS
<1>2. \A i \in 1..n : s[i] \in S
  BY <1>1
<1>3. SubSeq(s, 1, n) \in Seq(S) /\ Len(SubSeq(s, 1, n)) = n
  BY <1>1, <1>2, SubSeqProperties
<1>4. SubSeq(s, n + 1, Len(s)) \in Seq(S) /\ Len(SubSeq(s, n + 1, Len(s))) = Len(s) - n
  BY AboveElements DEF Above
<1>5. /\ 1 \in 1..Len(s) + 1
      /\ n \in 1 - 1..Len(s)
      /\ Len(s) \in n..Len(s)
  BY <1>1
<1>6. SubSeq(s, 1, n) \o SubSeq(s, n + 1, Len(s)) = SubSeq(s, 1, Len(s))
  BY <1>5, ConcatAdjacentSubSeq
<1> QED
  BY <1>3, <1>4, <1>6, SubSeqFull

\* Nothing flattens to nothing.
LEMMA FlattenEmpty ==
  FlattenSeq(<<>>) = <<>>
  BY DEF FlattenSeq

\* One more sequence at the end comes to stand at the end.
LEMMA FlattenAppend ==
  ASSUME NEW S, NEW e \in Seq(Seq(S)), NEW x \in Seq(S)
  PROVE  /\ FlattenSeq(e) \in Seq(S)
         /\ FlattenSeq(Append(e, x)) = FlattenSeq(e) \o x
<1> DEFINE F(s, g) == g = [i \in 1..Len(s) |-> IF i = 1 THEN s[i] ELSE g[i - 1] \o s[i]]
           flat(s) == CHOOSE g : F(s, g)
<1>1. ASSUME NEW s \in Seq(Seq(S)) PROVE \E g : F(s, g)
  <2> DEFINE G(n, g) == g = [i \in 1..n |-> IF i = 1 THEN s[i] ELSE g[i - 1] \o s[i]]
             P(n) == \E g : G(n, g)
             N == {n \in Nat : P(n)}
  <2>0. Len(s) \in Nat
    OBVIOUS
  <2>1. 0 \in N
    <3> DEFINE g == [i \in 1..0 |-> s[i]]
    <3>1. G(0, g)
      OBVIOUS
    <3> HIDE DEF g, G
    <3> QED
      BY <3>1
  <2>2. ASSUME NEW n \in Nat, n \in N PROVE n + 1 \in N
    <3>1. PICK g : G(n, g)
      <4> HIDE DEF G
      <4> QED
        BY <2>2
    <3>2. \A i \in 1..n : g[i] = IF i = 1 THEN s[i] ELSE g[i - 1] \o s[i]
      BY <3>1
    <3> DEFINE h == [i \in 1..(n + 1) |-> IF i <= n THEN g[i] ELSE IF i = 1 THEN s[i] ELSE g[n] \o s[i]]
    <3>3. ASSUME NEW i \in 1..(n + 1) PROVE h[i] = IF i = 1 THEN s[i] ELSE h[i - 1] \o s[i]
      <4>0. h[i] = IF i <= n THEN g[i] ELSE IF i = 1 THEN s[i] ELSE g[n] \o s[i]
        OBVIOUS
      <4>1. ASSUME i # 1 PROVE h[i - 1] = g[i - 1]
        <5>1. i - 1 \in 1..(n + 1) /\ i - 1 <= n
          BY <4>1
        <5> QED
          BY <5>1
      <4> HIDE DEF h
      <4>2. CASE i <= n
        <5>1. g[i] = IF i = 1 THEN s[i] ELSE g[i - 1] \o s[i]
          BY <3>2, <4>2
        <5>2. h[i] = g[i]
          BY <4>0, <4>2
        <5>3. CASE i = 1
          BY <5>1, <5>2, <5>3
        <5>4. CASE i # 1
          BY <4>1, <5>1, <5>2, <5>4
        <5> QED
          BY <5>3, <5>4
      <4>3. CASE ~ (i <= n)
        <5>1. i - 1 = n
          BY <4>3
        <5>2. h[i] = IF i = 1 THEN s[i] ELSE g[n] \o s[i]
          BY <4>0, <4>3
        <5>3. CASE i = 1
          BY <5>2, <5>3
        <5>4. CASE i # 1
          BY <4>1, <5>1, <5>2, <5>4
        <5> QED
          BY <5>3, <5>4
      <4> QED
        BY <4>2, <4>3
    <3>4. h = [i \in 1..(n + 1) |-> h[i]]
      OBVIOUS
    <3> HIDE DEF h
    <3>5. G(n + 1, h)
      <4>1. [i \in 1..(n + 1) |-> h[i]] = [i \in 1..(n + 1) |-> IF i = 1 THEN s[i] ELSE h[i - 1] \o s[i]]
        BY <3>3
      <4> QED
        BY <3>4, <4>1, Zenon
    <3> HIDE DEF G
    <3> QED
      BY <3>5
  <2> HIDE DEF N
  <2>3. Nat \subseteq N
    BY <2>1, <2>2, SetInduction
  <2>4. P(Len(s))
    <3>1. Len(s) \in Nat /\ Len(s) <= Len(s)
      BY <2>0
    <3>2. Len(s) \in N
      BY <2>3, <3>1
    <3> HIDE DEF P
    <3> QED
      BY <3>1, <3>2 DEF N
  <2> QED
    BY <2>4
<1>2. ASSUME NEW s \in Seq(Seq(S)) PROVE F(s, flat(s))
  BY <1>1, Zenon
<1>3. ASSUME NEW s \in Seq(Seq(S))
      PROVE  FlattenSeq(s) = IF Len(s) = 0 THEN s ELSE flat(s)[Len(s)]
  BY DEF FlattenSeq
<1> HIDE DEF flat
<1> DEFINE t == Append(e, x)
<1>4. /\ t \in Seq(Seq(S))
      /\ Len(t) = Len(e) + 1
      /\ Len(e) \in Nat
      /\ \A i \in 1..Len(e) : t[i] = e[i] /\ e[i] \in Seq(S)
      /\ t[Len(e) + 1] = x
  OBVIOUS
<1> HIDE DEF t
<1>5. \A i \in 1..Len(e) : flat(e)[i] = IF i = 1 THEN e[i] ELSE flat(e)[i - 1] \o e[i]
  <2>1. F(e, flat(e))
    BY <1>2
  <2> QED
    BY <2>1, Zenon
<1>6. \A i \in 1..(Len(e) + 1) : flat(t)[i] = IF i = 1 THEN t[i] ELSE flat(t)[i - 1] \o t[i]
  <2>1. F(t, flat(t))
    BY <1>2, <1>4
  <2> QED
    BY <2>1, <1>4, Zenon
<1> DEFINE N == {n \in Nat : n \in 1..Len(e) => flat(t)[n] = flat(e)[n] /\ flat(e)[n] \in Seq(S)}
<1>7. 0 \in N
  OBVIOUS
<1>8. ASSUME NEW n \in Nat, n \in N PROVE n + 1 \in N
  <2> SUFFICES ASSUME n + 1 \in 1..Len(e)
               PROVE  flat(t)[n + 1] = flat(e)[n + 1] /\ flat(e)[n + 1] \in Seq(S)
    OBVIOUS
  <2>0. n + 1 \in 1..(Len(e) + 1) /\ t[n + 1] = e[n + 1] /\ e[n + 1] \in Seq(S) /\ (n + 1) - 1 = n
    BY <1>4
  <2>1. CASE n = 0
    <3>1. n + 1 = 1
      BY <2>1
    <3> QED
      BY <1>5, <1>6, <2>0, <3>1
  <2>2. CASE n # 0
    <3>1. n \in 1..Len(e) /\ n + 1 # 1
      BY <1>4, <2>2
    <3>2. flat(t)[n] = flat(e)[n] /\ flat(e)[n] \in Seq(S)
      BY <1>8, <3>1
    <3>3. flat(e)[n + 1] = flat(e)[n] \o e[n + 1]
      BY <1>5, <2>0, <3>1
    <3>4. flat(t)[n + 1] = flat(t)[n] \o e[n + 1]
      BY <1>6, <2>0, <3>1
    <3> QED
      BY <2>0, <3>2, <3>3, <3>4, ConcatProperties
  <2> QED
    BY <2>1, <2>2
<1> HIDE DEF N
<1>9. Nat \subseteq N
  BY <1>7, <1>8, SetInduction
<1>10. \A n \in 1..Len(e) : flat(t)[n] = flat(e)[n] /\ flat(e)[n] \in Seq(S)
  BY <1>9 DEF N
<1>11. FlattenSeq(t) = flat(t)[Len(e) + 1]
  BY <1>3, <1>4
<1>12. CASE Len(e) = 0
  <2>1. e = <<>>
    BY <1>12, EmptySeq
  <2>2. FlattenSeq(t) = x
    BY <1>4, <1>6, <1>11, <1>12
  <2>3. FlattenSeq(e) = <<>>
    BY <2>1, FlattenEmpty
  <2> QED
    BY <2>2, <2>3, ConcatEmptySeq, EmptySeq DEF t
<1>13. CASE Len(e) # 0
  <2>1. Len(e) \in 1..Len(e) /\ Len(e) + 1 \in 1..(Len(e) + 1) /\ Len(e) + 1 # 1 /\ (Len(e) + 1) - 1 = Len(e)
    BY <1>4, <1>13
  <2>2. FlattenSeq(e) = flat(e)[Len(e)]
    BY <1>3, <1>13
  <2>3. flat(t)[Len(e) + 1] = flat(t)[Len(e)] \o t[Len(e) + 1]
    BY <1>6, <2>1
  <2>4. flat(t)[Len(e)] = flat(e)[Len(e)] /\ flat(e)[Len(e)] \in Seq(S)
    BY <1>10, <2>1
  <2>5. FlattenSeq(t) = FlattenSeq(e) \o x
    BY <1>4, <1>11, <2>2, <2>3, <2>4
  <2> QED
    BY <2>2, <2>4, <2>5 DEF t
<1> QED
  BY <1>12, <1>13

\* A sequence cut after one more element.
LEMMA CutAfter ==
  ASSUME NEW S, NEW s \in Seq(S), NEW n \in Nat, n + 1 <= Len(s)
  PROVE  /\ SubSeq(s, 1, n) \in Seq(S)
         /\ s[n + 1] \in S
         /\ SubSeq(s, 1, n + 1) = Append(SubSeq(s, 1, n), s[n + 1])
<1>1. Len(s) \in Nat /\ n \in 0..Len(s) /\ n + 1 \in 0..Len(s) /\ n + 1 \in 1..Len(s)
  OBVIOUS
<1>2. s[n + 1] \in S
  BY <1>1
<1> DEFINE f == SubSeq(s, 1, n)
           g == SubSeq(s, 1, n + 1)
<1>3. /\ f \in Seq(S) /\ Len(f) = n
      /\ g \in Seq(S) /\ Len(g) = n + 1
  BY <1>1, SplitAt
<1>4. \A i \in 1..(n + 1) : s[i] \in S
  BY <1>1
<1>5. \A i \in 1..n : f[i] = s[i]
  <2>1. \A i \in 1..(n - 1 + 1) : f[i] = s[1 + i - 1]
    BY <1>4, SubSeqProperties
  <2> HIDE DEF f
  <2> QED
    BY <2>1
<1>6. \A i \in 1..(n + 1) : g[i] = s[i]
  <2>1. \A i \in 1..((n + 1) - 1 + 1) : g[i] = s[1 + i - 1]
    BY <1>4, SubSeqProperties
  <2> HIDE DEF g
  <2> QED
    BY <2>1
<1> HIDE DEF f, g
<1>7. /\ Append(f, s[n + 1]) \in Seq(S)
      /\ Len(Append(f, s[n + 1])) = n + 1
      /\ \A i \in 1..n : Append(f, s[n + 1])[i] = f[i]
      /\ Append(f, s[n + 1])[n + 1] = s[n + 1]
  BY <1>2, <1>3
<1>8. \A i \in 1..Len(g) : g[i] = Append(f, s[n + 1])[i]
  <2> SUFFICES ASSUME NEW i \in 1..Len(g) PROVE g[i] = Append(f, s[n + 1])[i]
    OBVIOUS
  <2>1. CASE i = n + 1
    BY <1>3, <1>6, <1>7, <2>1
  <2>2. CASE i # n + 1
    <3>1. i \in 1..n /\ i \in 1..(n + 1)
      BY <1>3, <2>2
    <3> QED
      BY <1>5, <1>6, <1>7, <3>1
  <2> QED
    BY <2>1, <2>2
<1>9. g = Append(f, s[n + 1])
  BY <1>3, <1>7, <1>8, SeqEqual
<1> QED
  BY <1>2, <1>3, <1>9 DEF f, g

\* The first two elements of a sequence.
LEMMA FirstTwo ==
  ASSUME NEW S, NEW s \in Seq(S), Len(s) >= 2
  PROVE  SubSeq(s, 1, 2) = <<s[1], s[2]>>
<1>1. Len(s) \in Nat /\ 2 \in 0..Len(s)
  OBVIOUS
<1>2. s[1] \in S /\ s[2] \in S
  BY <1>1
<1> DEFINE h == SubSeq(s, 1, 2)
           u == <<s[1], s[2]>>
<1>3. h \in Seq(S) /\ Len(h) = 2
  BY <1>1, SplitAt
<1>4. h[1] = s[1] /\ h[2] = s[2]
  <2>1. \A i \in 1..2 : s[i] \in S
    BY <1>1
  <2>2. \A i \in 1..(2 - 1 + 1) : SubSeq(s, 1, 2)[i] = s[1 + i - 1]
    BY <2>1, SubSeqProperties
  <2> QED
    BY <2>2
<1>5. u \in Seq(S) /\ Len(u) = 2 /\ u[1] = s[1] /\ u[2] = s[2]
  BY <1>2
<1> HIDE DEF h, u
<1>6. \A i \in 1..Len(h) : h[i] = u[i]
  BY <1>3, <1>4, <1>5
<1>7. h = u
  BY <1>3, <1>5, <1>6, SeqEqual
<1> QED
  BY <1>7 DEF h, u

\* The elements of one sequence and then those of another.
IsConcat(u, s, t) == u = s \o t

Joined(u, s, t) ==
  /\ Len(u) = Len(s) + Len(t)
  /\ \A i \in 1..Len(s) : u[i] = s[i]
  /\ \A i \in (Len(s) + 1)..Len(u) : u[i] = t[i - Len(s)]

\* A concatenation has those elements.
LEMMA ConcatJoins ==
  ASSUME NEW S, NEW s \in Seq(S), NEW t \in Seq(S), NEW u, IsConcat(u, s, t)
  PROVE  u \in Seq(S) /\ Joined(u, s, t)
<1>0. u = s \o t
  BY DEF IsConcat
<1>1. /\ u \in Seq(S)
      /\ Len(u) = Len(s) + Len(t)
      /\ Len(s) \in Nat /\ Len(t) \in Nat
  BY <1>0
<1>2. \A i \in 1..Len(s) : u[i] = s[i]
  BY <1>0
<1>3. ASSUME NEW i \in (Len(s) + 1)..Len(u) PROVE u[i] = t[i - Len(s)]
  BY <1>0
<1> QED
  BY <1>1, <1>2, <1>3 DEF Joined

\* x stands for the elements of s between the first i and those after the first j.
Spliced(u, s, i, j, x) == u = Append(SubSeq(s, 1, i), x) \o SubSeq(s, j + 1, Len(s))

\* It is known by its elements.
LEMMA SpliceIs ==
  ASSUME NEW S, NEW s \in Seq(S), NEW x \in S, NEW u \in Seq(S),
         NEW i \in Nat, NEW j \in Nat, i <= j, j <= Len(s),
         Len(u) = (i + 1) + (Len(s) - j),
         \A k \in 1..i : u[k] = s[k],
         u[i + 1] = x,
         \A k \in (j + 1)..Len(s) : u[(k - j) + (i + 1)] = s[k]
  PROVE  Spliced(u, s, i, j, x)
<1> DEFINE f == SubSeq(s, 1, i)
           g == Append(f, x)
           h == SubSeq(s, j + 1, Len(s))
           v == g \o h
           n == Len(s)
<1>1. n \in Nat /\ i \in 0..n /\ j \in 0..n
  OBVIOUS
<1>2. f \in Seq(S) /\ Len(f) = i /\ \A k \in 1..i : f[k] = s[k]
  <2>1. f \in Seq(S) /\ Len(f) = i
    BY <1>1, SplitAt
  <2>2. \A k \in 1..i : f[k] = s[k]
    BY <1>1
  <2> QED
    BY <2>1, <2>2
<1>3. h \in Seq(S) /\ Len(h) = n - j /\ \A k \in 1..(n - j) : h[k] = s[j + k]
  <2>1. h \in Seq(S) /\ Len(h) = n - j
    BY <1>1, SplitAt
  <2>2. h = Above(s, j)
    BY DEF Above
  <2>3. \A k \in 1..(n - j) : Above(s, j)[k] = s[j + k]
    BY <1>1, AboveElements
  <2> QED
    BY <2>1, <2>2, <2>3
<1> HIDE DEF f, h
<1>4. g \in Seq(S) /\ Len(g) = i + 1 /\ \A k \in 1..i : g[k] = s[k]
  BY <1>2
<1>5. g[i + 1] = x
  BY <1>2
<1> HIDE DEF g
<1>6. IsConcat(v, g, h)
  BY DEF IsConcat
<1> HIDE DEF v
<1>7. v \in Seq(S) /\ Joined(v, g, h)
  BY <1>3, <1>4, <1>6, ConcatJoins
<1> HIDE DEF n
<1>8. Len(v) = (i + 1) + (n - j) /\ Len(u) = (i + 1) + (n - j)
  BY <1>3, <1>4, <1>7 DEF Joined, n
<1>9. \A k \in 1..Len(u) : u[k] = v[k]
  <2> SUFFICES ASSUME NEW k \in 1..Len(u) PROVE u[k] = v[k]
    OBVIOUS
  <2>1. CASE k <= i
    <3>1. k \in 1..i /\ k \in 1..Len(g)
      BY <1>1, <1>4, <2>1
    <3> QED
      BY <1>4, <1>7, <3>1 DEF Joined
  <2>2. CASE k = i + 1
    <3>1. i + 1 \in 1..Len(g)
      BY <1>1, <1>4
    <3>2. v[i + 1] = x
      BY <1>5, <1>7, <3>1 DEF Joined
    <3> QED
      BY <2>2, <3>2
  <2>3. CASE k > i + 1
    <3> DEFINE d == k - (i + 1)
               q == j + d
    <3>1. /\ d \in 1..(n - j) /\ q \in (j + 1)..n /\ k \in (Len(g) + 1)..Len(v)
          /\ (q - j) + (i + 1) = k /\ k - Len(g) = d
      BY <1>1, <1>4, <1>8, <2>3
    <3> HIDE DEF d
    <3>2. v[k] = s[q]
      BY <1>3, <1>7, <3>1 DEF Joined
    <3> HIDE DEF q
    <3>3. u[(q - j) + (i + 1)] = s[q]
      BY <3>1 DEF n
    <3> QED
      BY <3>1, <3>2, <3>3
  <2> QED
    BY <1>1, <2>1, <2>2, <2>3
<1>10. u = v
  BY <1>7, <1>8, <1>9
<1> QED
  BY <1>10 DEF Spliced, f, g, h, v

\* An element before a sequence.
LEMMA AheadOf ==
  ASSUME NEW S, NEW a \in S, NEW t \in Seq(S), NEW u \in Seq(S), Len(u) = Len(t) + 1, u[1] = a,
         \A i \in 1..Len(t) : u[i + 1] = t[i]
  PROVE  <<a>> \o t = u
<1>1. a \in S
  OBVIOUS
<1>2. <<a>> \in Seq(S) /\ Len(<<a>>) = 1 /\ <<a>>[1] = a
  BY <1>1
<1> DEFINE o == <<a>>
           v == o \o t
<1> HIDE DEF o
<1>3. v \in Seq(S) /\ Len(v) = Len(t) + 1 /\ v[1] = a /\ \A i \in 2..(Len(t) + 1) : v[i] = t[i - 1]
  BY <1>2 DEF o
<1> HIDE DEF v
<1>4. \A i \in 2..(Len(t) + 1) : u[i] = t[i - 1]
  <2> SUFFICES ASSUME NEW i \in 2..(Len(t) + 1) PROVE u[i] = t[i - 1]
    OBVIOUS
  <2>1. i - 1 \in 1..Len(t) /\ (i - 1) + 1 = i
    OBVIOUS
  <2>2. u[(i - 1) + 1] = t[i - 1]
    BY <2>1
  <2> QED
    BY <2>1, <2>2
<1>5. \A i \in 1..Len(v) : v[i] = u[i]
  BY <1>3, <1>4
<1>6. v = u
  BY <1>3, <1>5, SeqEqual
<1> QED
  BY <1>6 DEF v, o

\* An element and then three others.
LEMMA AheadOfThree ==
  ASSUME NEW a, NEW b, NEW c, NEW d
  PROVE  <<a>> \o <<b, c, d>> = <<a, b, c, d>>
<1> DEFINE S == {a, b, c, d}
<1>1. a \in S /\ <<b, c, d>> \in Seq(S) /\ <<a, b, c, d>> \in Seq(S)
  OBVIOUS
<1> HIDE DEF S
<1>2. <<a>> \o <<b, c, d>> = <<a, b, c, d>>
  <2> DEFINE t == <<b, c, d>>
             u == <<a, b, c, d>>
  <2>1. Len(t) = 3 /\ Len(u) = 4 /\ u[1] = a /\ u[2] = t[1] /\ u[3] = t[2] /\ u[4] = t[3]
    OBVIOUS
  <2>2. t \in Seq(S) /\ u \in Seq(S)
    BY <1>1
  <2> HIDE DEF t, u
  <2>3. \A i \in 1..Len(t) : u[i + 1] = t[i]
    BY <2>1
  <2>4. <<a>> \o t = u
    <3>1. u[1] = a /\ Len(u) = Len(t) + 1
      BY <2>1
    <3> QED
      BY <1>1, <2>2, <2>3, <3>1, AheadOf
  <2> QED
    BY <2>4 DEF t, u
<1> QED
  BY <1>2

\* An element and then a few others.
LEMMA Ahead ==
  ASSUME NEW a, NEW b, NEW c
  PROVE  /\ <<a>> \o <<>> = <<a>>
         /\ <<a>> \o <<b>> = <<a, b>>
         /\ <<a>> \o <<b, c>> = <<a, b, c>>
<1> DEFINE S == {a, b, c}
<1>1. a \in S
  OBVIOUS
<1>2. /\ <<>> \in Seq(S) /\ <<b>> \in Seq(S) /\ <<b, c>> \in Seq(S)
      /\ <<a>> \in Seq(S) /\ <<a, b>> \in Seq(S) /\ <<a, b, c>> \in Seq(S)
  OBVIOUS
<1> HIDE DEF S
<1>3. <<a>> \o <<>> = <<a>>
  BY <1>1, <1>2
<1>4. <<a>> \o <<b>> = <<a, b>>
  <2> DEFINE t == <<b>>
             u == <<a, b>>
  <2>1. Len(t) = 1 /\ Len(u) = 2 /\ u[1] = a /\ u[2] = t[1]
    OBVIOUS
  <2>2. t \in Seq(S) /\ u \in Seq(S)
    BY <1>2
  <2> HIDE DEF t, u
  <2>3. \A i \in 1..Len(t) : u[i + 1] = t[i]
    BY <2>1
  <2>4. <<a>> \o t = u
    <3>1. u[1] = a /\ Len(u) = Len(t) + 1
      BY <2>1
    <3> QED
      BY <1>1, <2>2, <2>3, <3>1, AheadOf
  <2> QED
    BY <2>4 DEF t, u
<1>5. <<a>> \o <<b, c>> = <<a, b, c>>
  <2> DEFINE t == <<b, c>>
             u == <<a, b, c>>
  <2>1. Len(t) = 2 /\ Len(u) = 3 /\ u[1] = a /\ u[2] = t[1] /\ u[3] = t[2]
    OBVIOUS
  <2>2. t \in Seq(S) /\ u \in Seq(S)
    BY <1>2
  <2> HIDE DEF t, u
  <2>3. \A i \in 1..Len(t) : u[i + 1] = t[i]
    BY <2>1
  <2>4. <<a>> \o t = u
    <3>1. u[1] = a /\ Len(u) = Len(t) + 1
      BY <2>1
    <3> QED
      BY <1>1, <2>2, <2>3, <3>1, AheadOf
  <2> QED
    BY <2>4 DEF t, u
<1> QED
  BY <1>3, <1>4, <1>5
=============================================================================
