-------------------------- MODULE PdfSyntax_proofs --------------------------
(***************************************************************************)
(* What the forms of PdfSyntax return, for all bytes: a place behind the   *)
(* one they start at and not behind the end, with only bytes of the form   *)
(* in between.  The order in which the parsers' loops go down.  And that a *)
(* number of plain digits comes through an f32 as it is written.           *)
(***************************************************************************)
EXTENDS PdfSyntax, SequenceTheorems, FiniteSetTheorems, WellFoundedInduction, TLAPS

Bytes == Seq(0..255)

\* A set of natural numbers has a least element.
LEMMA MinOfNat ==
    ASSUME NEW S \in SUBSET Nat, S # {}
    PROVE  Min(S) \in S /\ \A y \in S : Min(S) <= y
<1>1. PICK x \in S : \A y \in S : ~(<<y, x>> \in OpToRel(<, Nat))
  BY NatLessThanWellFounded, WFMin
<1>2. \A y \in S : x <= y
  <2>1. SUFFICES ASSUME NEW y \in S
                 PROVE  x <= y
    OBVIOUS
  <2>2. <<y, x>> \notin {ss \in Nat \X Nat : ss[1] < ss[2]}
    BY <1>1, Zenon DEF OpToRel
  <2>3. ~(y < x)
    BY <2>2
  <2> QED
    BY <2>3
<1> QED
  BY <1>2 DEF Min

\* The first place with property S, or else the end: a place from p on, with no place
\* of S before it.
LEMMA FirstPlace ==
    ASSUME NEW n \in Nat, NEW p \in 1..(n + 1), NEW S \in SUBSET (p..n)
    PROVE  /\ Min(S \cup {n + 1}) \in p..(n + 1)
           /\ \A q \in p..(Min(S \cup {n + 1}) - 1) : q \notin S
           /\ Min(S \cup {n + 1}) <= n => Min(S \cup {n + 1}) \in S
<1> DEFINE T == S \cup {n + 1}
           m == Min(T)
<1>1. T \in SUBSET Nat /\ T # {}
  OBVIOUS
<1>2. m \in T
  BY <1>1, MinOfNat
<1>3. \A y \in T : m <= y
  BY <1>1, MinOfNat
<1> HIDE DEF m
<1>4. m \in p..(n + 1)
  BY <1>2
<1>5. \A q \in p..(m - 1) : q \notin S
  BY <1>3, <1>4
<1>6. m <= n => m \in S
  BY <1>2
<1> QED
  BY <1>4, <1>5, <1>6 DEF m

\* A run ends behind its bytes.
LEMMA EndOfRunPlace ==
    ASSUME NEW data \in Bytes, NEW p \in 1..(Len(data) + 1), NEW class
    PROVE  /\ EndOfRun(data, p, class) \in p..(Len(data) + 1)
           /\ \A q \in p..(EndOfRun(data, p, class) - 1) : data[q] \in class
           /\ EndOfRun(data, p, class) <= Len(data) => data[EndOfRun(data, p, class)] \notin class
<1> DEFINE S == {q \in p..Len(data) : data[q] \notin class}
           m == Min(S \cup {Len(data) + 1})
<1>1. Len(data) \in Nat
  BY DEF Bytes
<1>2. S \in SUBSET (p..Len(data))
  OBVIOUS
<1> HIDE DEF S
<1>3. m \in p..(Len(data) + 1) /\ (\A q \in p..(m - 1) : q \notin S) /\ (m <= Len(data) => m \in S)
  BY <1>1, <1>2, FirstPlace
<1> HIDE DEF m
<1>4. \A q \in p..(m - 1) : data[q] \in class
  BY <1>1, <1>3 DEF S
<1>5. m <= Len(data) => data[m] \notin class
  BY <1>3 DEF S
<1>6. EndOfRun(data, p, class) = m
  BY DEF EndOfRun, m, S
<1> QED
  BY <1>3, <1>4, <1>5, <1>6

\* The byte at a place of the data.
LEMMA AtPlace ==
    ASSUME NEW data \in Bytes, NEW p \in Int, At(data, p) # NoByte
    PROVE  p \in 1..Len(data) /\ At(data, p) = data[p]
BY DEF At, NoByte

LEMMA AtByte ==
    ASSUME NEW data \in Bytes, NEW p \in 1..Len(data)
    PROVE  At(data, p) = data[p] /\ At(data, p) # NoByte
<1>1. At(data, p) = data[p]
  BY DEF At
<1>2. data[p] \in 0..255
  BY ElementOfSeq DEF Bytes
<1>3. \A b \in 0..255 : b # -1
  OBVIOUS
<1>4. data[p] # NoByte
  BY <1>2, <1>3 DEF NoByte
<1> QED
  BY <1>1, <1>4

\* A name ends behind its "/".
LEMMA EndOfNamePlace ==
    ASSUME NEW data \in Bytes, NEW p \in 1..Len(data)
    PROVE  EndOfName(data, p) \in (p + 1)..(Len(data) + 1)
<1> DEFINE S == {q \in (p + 1)..Len(data) : data[q] \in White \cup Delimiters}
<1>1. Len(data) \in Nat /\ p + 1 \in 1..(Len(data) + 1)
  BY DEF Bytes
<1>2. S \in SUBSET ((p + 1)..Len(data))
  OBVIOUS
<1> HIDE DEF S
<1>3. Min(S \cup {Len(data) + 1}) \in (p + 1)..(Len(data) + 1)
  BY <1>1, <1>2, FirstPlace
<1> QED
  BY <1>3 DEF EndOfName, S

\* A number ends at its start or behind it, and one that starts with a digit is made of
\* digits and a point.
LEMMA EndOfNumberPlace ==
    ASSUME NEW data \in Bytes, NEW p \in 1..Len(data)
    PROVE  /\ EndOfNumber(data, p) \in p..(Len(data) + 1)
           /\ data[p] \in Digits =>
                 \A q \in p..(EndOfNumber(data, p) - 1) : data[q] \in Digits \cup {Dot}
<1> DEFINE s == PastSign(data, p)
           point == EndOfRun(data, s, Digits)
           end == EndOfRun(data, point + 1, Digits)
<1>0. Len(data) \in Nat
  BY DEF Bytes
<1>1. s \in p..(p + 1) /\ s \in 1..(Len(data) + 1)
  BY <1>0 DEF PastSign
<1>2. data[p] \in Digits => s = p
  BY AtByte DEF PastSign, Digits, Minus, Plus
<1> HIDE DEF s
<1>3. point \in s..(Len(data) + 1) /\ \A q \in s..(point - 1) : data[q] \in Digits
  BY <1>1, EndOfRunPlace
<1> HIDE DEF point
<1>4. CASE At(data, point) = Dot
  <2>1. point \in 1..Len(data) /\ data[point] = Dot
    BY <1>0, <1>1, <1>3, <1>4 DEF At, Dot, NoByte
  <2>2. point + 1 \in 1..(Len(data) + 1)
    BY <1>0, <2>1
  <2>3. end \in (point + 1)..(Len(data) + 1) /\ \A q \in (point + 1)..(end - 1) : data[q] \in Digits
    BY <2>2, EndOfRunPlace
  <2>4. EndOfNumber(data, p) = end
    BY <1>4 DEF EndOfNumber, point, s, end
  <2> HIDE DEF end
  <2>5. end \in p..(Len(data) + 1)
    BY <1>0, <1>1, <1>3, <2>1, <2>3
  <2>6. ASSUME data[p] \in Digits, NEW q \in p..(end - 1)
        PROVE  data[q] \in Digits \cup {Dot}
    <3>1. s = p
      BY <1>2, <2>6
    <3>2. q \in s..(point - 1) \/ q = point \/ q \in (point + 1)..(end - 1)
      BY <1>0, <1>1, <1>3, <2>1, <2>3, <2>5, <3>1
    <3> QED
      BY <1>3, <2>1, <2>3, <3>2
  <2> QED
    BY <2>4, <2>5, <2>6
<1>5. CASE At(data, point) # Dot
  <2>1. EndOfNumber(data, p) = point
    BY <1>5 DEF EndOfNumber, point, s
  <2>2. point \in p..(Len(data) + 1)
    BY <1>0, <1>1, <1>3
  <2>3. data[p] \in Digits => \A q \in p..(point - 1) : data[q] \in Digits
    BY <1>2, <1>3
  <2> QED
    BY <2>1, <2>2, <2>3
<1> QED
  BY <1>4, <1>5

\* A string closes behind the place it opens at.
LEMMA StringEndPlace ==
    ASSUME NEW data \in Bytes, NEW p \in 1..Len(data), NEW e \in StringEnds(data, p)
    PROVE  e \in (p + 1)..Len(data)
BY DEF StringEnds

\* The digits of a hexadecimal string end behind the place it opens at.
LEMMA EndOfHexStringPlace ==
    ASSUME NEW data \in Bytes, NEW p \in 1..Len(data)
    PROVE  EndOfHexString(data, p) \in (p + 1)..(Len(data) + 1)
<1>1. p + 1 \in 1..(Len(data) + 1)
  BY DEF Bytes
<1> QED
  BY <1>1, EndOfRunPlace DEF EndOfHexString

-----------------------------------------------------------------------------
(***************************************************************************)
(* Induction over a set of numbers, and what it gives for functions that   *)
(* are defined by recursion and for FlattenSeq.                            *)
(***************************************************************************)

LEMMA NatInduct ==
    ASSUME NEW S, 0 \in S, \A n \in Nat : n \in S => n + 1 \in S
    PROVE  \A n \in Nat : n \in S
<1>1. SUFFICES ASSUME Nat \ S # {} PROVE FALSE
  OBVIOUS
<1> DEFINE m == Min(Nat \ S)
<1>2. Nat \ S \in SUBSET Nat
  OBVIOUS
<1>3. m \in Nat \ S
  BY <1>1, <1>2, MinOfNat
<1>4. \A y \in Nat \ S : m <= y
  BY <1>1, <1>2, MinOfNat
<1> HIDE DEF m
<1>5. m \in Nat /\ m # 0
  BY <1>3
<1>6. m - 1 \in Nat /\ m - 1 + 1 = m
  BY <1>5
<1>7. m - 1 \in S
  BY <1>4, <1>6
<1> QED
  BY <1>3, <1>6, <1>7

\* Values that follow from one another exist: from a, by a step that depends on the place.
Follows(f, a, n, step) == f[0] = a /\ \A i \in 1..n : f[i] = step[i][f[i - 1]]

LEMMA StepsExist ==
    ASSUME NEW T, NEW a \in T, NEW n \in Nat, NEW step \in [1..n -> [T -> T]]
    PROVE  \E f \in [0..n -> T] : Follows(f, a, n, step)
<1> DEFINE Steps(k, f) == f[0] = a /\ \A i \in 1..k : f[i] = step[i][f[i - 1]]
           S == {k \in Nat : k <= n => \E f \in [0..k -> T] : Steps(k, f)}
<1>1. 0 \in S
  <2> DEFINE f == [i \in 0..0 |-> a]
  <2>1. f \in [0..0 -> T] /\ Steps(0, f)
    OBVIOUS
  <2> HIDE DEF f, Steps
  <2> QED
    BY <2>1
<1>2. ASSUME NEW k \in Nat, k \in S
      PROVE  k + 1 \in S
  <2>1. CASE k + 1 > n
    BY <2>1
  <2>2. CASE k + 1 <= n
    <3>1. PICK f \in [0..k -> T] : Steps(k, f)
      <4>1. k <= n
        BY <2>2
      <4> HIDE DEF Steps
      <4> QED
        BY <1>2, <4>1
    <3> DEFINE next == step[k + 1][f[k]]
               g == [i \in 0..(k + 1) |-> IF i = k + 1 THEN next ELSE f[i]]
    <3>2. next \in T
      BY <2>2
    <3>3. g \in [0..(k + 1) -> T]
      <4> HIDE DEF next
      <4> QED
        BY <3>2
    <3>4. g[0] = a
      BY <3>1
    <3>5. \A i \in 1..(k + 1) : g[i] = step[i][g[i - 1]]
      <4>1. TAKE i \in 1..(k + 1)
      <4>2. CASE i = k + 1
        <5>1. g[i] = next /\ g[i - 1] = f[k] /\ i = k + 1
          BY <4>2
        <5> QED
          BY <5>1
      <4>3. CASE i # k + 1
        <5>1. i \in 1..k /\ g[i] = f[i] /\ g[i - 1] = f[i - 1]
          BY <4>3
        <5> QED
          BY <3>1, <5>1
      <4> QED
        BY <4>2, <4>3
    <3> HIDE DEF g
    <3>6. Steps(k + 1, g)
      BY <3>4, <3>5
    <3> HIDE DEF Steps
    <3> QED
      BY <3>3, <3>6
  <2> QED
    BY <2>1, <2>2
<1> HIDE DEF S
<1>3. n \in S
  BY <1>1, <1>2, NatInduct
<1> QED
  BY <1>3 DEF S, Follows

\* FlattenSeq joins its sequences one by one.
LEMMA FlattenSeqSteps ==
    ASSUME NEW S, NEW seqs \in Seq(Seq(S))
    PROVE  \E f \in [0..Len(seqs) -> Seq(S)] :
              /\ f[0] = <<>>
              /\ \A i \in 1..Len(seqs) : f[i] = f[i - 1] \o seqs[i]
              /\ FlattenSeq(seqs) = f[Len(seqs)]
<1> DEFINE n == Len(seqs)
           step == [i \in 1..n |-> [y \in Seq(S) |-> y \o seqs[i]]]
<1>1. n \in Nat /\ \A i \in 1..n : seqs[i] \in Seq(S)
  BY ElementOfSeq
<1>2. step \in [1..n -> [Seq(S) -> Seq(S)]]
  BY <1>1, ConcatProperties
<1>3. \A y \in Seq(S), i \in 1..n : step[i][y] = y \o seqs[i]
  OBVIOUS
<1> DEFINE empty == <<>>
<1>4. empty \in Seq(S)
  OBVIOUS
<1>41. n \in Nat
  BY <1>1
<1> DEFINE T == Seq(S)
<1>43. empty \in T /\ step \in [1..n -> [T -> T]]
  BY <1>2, <1>4
<1> HIDE DEF step, n, empty, T
<1>44. \E f \in [0..n -> T] : Follows(f, empty, n, step)
  BY <1>41, <1>43, StepsExist
<1>42. PICK f \in [0..n -> Seq(S)] : f[0] = empty /\ \A i \in 1..n : f[i] = step[i][f[i - 1]]
  BY <1>44, Zenon DEF T, Follows
<1>5. f[0] = <<>> /\ \A i \in 1..n : f[i] = step[i][f[i - 1]]
  BY <1>42 DEF empty
<1>6. \A i \in 1..n : f[i - 1] \in Seq(S) /\ f[i] = f[i - 1] \o seqs[i]
  <2>1. TAKE i \in 1..n
  <2>2. i - 1 \in 0..n
    BY <1>1
  <2>3. f[i - 1] \in Seq(S)
    BY <2>2
  <2> QED
    BY <1>3, <1>5, <2>3
<1>61. 1 \in 1..n => f[1] = seqs[1]
  <2> SUFFICES ASSUME 1 \in 1..n PROVE f[1] = seqs[1]
    OBVIOUS
  <2>1. f[1] = f[1 - 1] \o seqs[1]
    BY <1>6, Zenon
  <2>3. 1 - 1 = 0
    OBVIOUS
  <2>2. <<>> \o seqs[1] = seqs[1]
    BY <1>1, ConcatEmptySeq
  <2> QED
    BY <1>5, <2>1, <2>2, <2>3
<1>62. \A k \in Nat : \A i \in 1..n : i = k + 1 => f[i] = f[k] \o seqs[i]
  <2> SUFFICES ASSUME NEW k \in Nat, NEW i \in 1..n, i = k + 1 PROVE f[i] = f[k] \o seqs[i]
    OBVIOUS
  <2>1. f[i] = f[i - 1] \o seqs[i]
    BY <1>6
  <2>2. i - 1 = k
    OBVIOUS
  <2> QED
    BY <2>1, <2>2
<1>7. FlattenSeq(seqs) = f[n]
  <2>1. CASE n = 0
    <3>1. seqs = <<>>
      BY <2>1, EmptySeq DEF n
    <3>2. FlattenSeq(seqs) = seqs
      BY <2>1 DEF FlattenSeq, n
    <3> QED
      BY <1>5, <2>1, <3>1, <3>2
  <2>2. CASE n # 0
    <3> DEFINE IsFlat(g) == g = [i \in 1..n |-> IF i = 1 THEN seqs[i] ELSE g[i - 1] \o seqs[i]]
               flat == CHOOSE g : IsFlat(g)
    <3>1. FlattenSeq(seqs) = flat[n]
      BY <2>2 DEF FlattenSeq, n
    <3> DEFINE h == [i \in 1..n |-> f[i]]
    <3>2. IsFlat(h)
      <4>1. ASSUME NEW i \in 1..n
            PROVE  f[i] = IF i = 1 THEN seqs[i] ELSE h[i - 1] \o seqs[i]
        <5>1. CASE i = 1
          BY <1>61, <5>1
        <5>2. CASE i # 1
          <6>1. i - 1 \in 1..n
            BY <1>1, <5>2
          <6> QED
            BY <1>6, <5>2, <6>1
        <5> QED
          BY <5>1, <5>2
      <4> HIDE DEF IsFlat
      <4>2. h = [i \in 1..n |-> IF i = 1 THEN seqs[i] ELSE h[i - 1] \o seqs[i]]
        BY <4>1
      <4> HIDE DEF h
      <4> QED
        BY <4>2 DEF IsFlat
    <3> HIDE DEF h, IsFlat
    <3>3. IsFlat(flat)
      BY <3>2
    <3> HIDE DEF flat
    <3> DEFINE P == {i \in Nat : i \in 1..n => flat[i] = f[i]}
    <3>4. 0 \in P
      OBVIOUS
    <3>5. ASSUME NEW k \in Nat, k \in P PROVE k + 1 \in P
      <4> SUFFICES ASSUME k + 1 \in 1..n PROVE flat[k + 1] = f[k + 1]
        OBVIOUS
      <4>0. flat = [i \in 1..n |-> IF i = 1 THEN seqs[i] ELSE flat[i - 1] \o seqs[i]]
        BY <3>3 DEF IsFlat
      <4>1. PICK i \in 1..n : i = k + 1
        OBVIOUS
      <4>2. flat[i] = IF i = 1 THEN seqs[i] ELSE flat[i - 1] \o seqs[i]
        BY <4>0, Zenon
      <4>3. f[i] = f[k] \o seqs[i]
        BY <1>62, <4>1
      <4>4. CASE i = 1
        BY <1>61, <4>1, <4>2, <4>4
      <4>5. CASE i # 1
        <5>1. k \in 1..n /\ i - 1 = k
          BY <1>1, <4>1, <4>5
        <5>2. flat[k] = f[k]
          BY <3>5, <5>1
        <5> QED
          BY <4>1, <4>2, <4>3, <4>5, <5>1, <5>2
      <4> QED
        BY <4>4, <4>5
    <3> HIDE DEF P
    <3>6. n \in P
      BY <1>1, <3>4, <3>5, NatInduct
    <3>7. n \in 1..n
      BY <1>1, <2>2
    <3> QED
      BY <3>1, <3>6, <3>7 DEF P
  <2> QED
    BY <2>1, <2>2
<1> QED
  BY <1>5, <1>6, <1>7 DEF n

LEMMA FlattenSeqType ==
    ASSUME NEW S, NEW seqs \in Seq(Seq(S))
    PROVE  FlattenSeq(seqs) \in Seq(S)
<1>1. PICK f \in [0..Len(seqs) -> Seq(S)] : FlattenSeq(seqs) = f[Len(seqs)]
  BY FlattenSeqSteps, Zenon
<1>2. Len(seqs) \in 0..Len(seqs)
  OBVIOUS
<1> QED
  BY <1>1, <1>2

\* What FlattenSeq has still to join.
Tails(g, seqs) == \A i \in 1..Len(seqs) : g[i - 1] = seqs[i] \o g[i]

LEMMA FlattenSeqTails ==
    ASSUME NEW S, NEW seqs \in Seq(Seq(S))
    PROVE  \E g \in [0..Len(seqs) -> Seq(S)] :
              /\ Tails(g, seqs) /\ g[0] = FlattenSeq(seqs) /\ g[Len(seqs)] = <<>>
<1> DEFINE n == Len(seqs)
           T == Seq(S)
           empty == <<>>
           step == [k \in 1..n |-> [y \in T |-> seqs[n + 1 - k] \o y]]
<1>1. n \in Nat /\ \A i \in 1..n : seqs[i] \in T
  BY ElementOfSeq
<1>2. empty \in T /\ \A s \in T : empty \o s = s /\ s \o empty = s
  BY ConcatEmptySeq
<1>3. \A s, t \in T : s \o t \in T
  BY ConcatProperties
<1>4. \A s, t, u \in T : (s \o t) \o u = s \o (t \o u)
  BY ConcatAssociative
<1>5. PICK f \in [0..n -> T] :
         /\ f[0] = empty
         /\ \A i \in 1..n : f[i] = f[i - 1] \o seqs[i]
         /\ FlattenSeq(seqs) = f[n]
  BY FlattenSeqSteps
<1> HIDE DEF n, T, empty
<1>6. \A k \in 1..n : n + 1 - k \in 1..n
  BY <1>1
<1>7. step \in [1..n -> [T -> T]] /\ \A k \in 1..n, y \in T : step[k][y] = seqs[n + 1 - k] \o y
  BY <1>1, <1>3, <1>6
<1> HIDE DEF step
<1>8. \E h \in [0..n -> T] : Follows(h, empty, n, step)
  BY <1>1, <1>2, <1>7, StepsExist
<1>9. PICK h \in [0..n -> T] : h[0] = empty /\ \A k \in 1..n : h[k] = step[k][h[k - 1]]
  BY <1>8, Zenon DEF Follows
<1> DEFINE g == [r \in 0..n |-> h[n - r]]
<1>10. g \in [0..n -> T] /\ g[n] = empty
  <2>1. \A r \in 0..n : n - r \in 0..n
    BY <1>1
  <2>2. n \in 0..n /\ n - n = 0
    BY <1>1
  <2> QED
    BY <1>9, <2>1, <2>2
<1>11. ASSUME NEW i \in 1..n PROVE g[i - 1] = seqs[i] \o g[i]
  <2>1. PICK k \in 1..n : k = n + 1 - i
    BY <1>6
  <2>2. n - (i - 1) = k /\ n - i = k - 1 /\ n + 1 - k = i /\ i - 1 \in 0..n /\ i \in 0..n /\ k - 1 \in 0..n
    BY <1>1, <2>1
  <2>3. g[i - 1] = h[k] /\ g[i] = h[k - 1] /\ h[k - 1] \in T
    BY <2>2
  <2> QED
    BY <1>7, <1>9, <2>2, <2>3
<1> HIDE DEF g
<1> DEFINE Joined(k) == k \in 0..n => f[k] \o g[k] = g[0]
           P == {k \in Nat : Joined(k)}
<1>12. 0 \in P
  <2>1. 0 \in 0..n
    BY <1>1
  <2> QED
    BY <1>2, <1>5, <1>10, <2>1
<1>13. ASSUME NEW k \in Nat, k \in P PROVE k + 1 \in P
  <2> SUFFICES ASSUME k + 1 \in 0..n PROVE f[k + 1] \o g[k + 1] = g[0]
    <3> HIDE DEF Joined
    <3>1. Joined(k + 1) => k + 1 \in P
      OBVIOUS
    <3> QED
      BY <3>1 DEF Joined
  <2>1. PICK i \in 1..n : i = k + 1 /\ i - 1 = k /\ k \in 0..n /\ i \in 0..n
    BY <1>1
  <2>2. f[i] = f[k] \o seqs[i] /\ g[k] = seqs[i] \o g[i]
    BY <1>5, <1>11, <2>1
  <2>3. f[k] \in T /\ seqs[i] \in T /\ g[i] \in T
    BY <1>1, <1>5, <1>10, <2>1
  <2>4. f[i] \o g[i] = f[k] \o g[k]
    <3>1. (f[k] \o seqs[i]) \o g[i] = f[k] \o (seqs[i] \o g[i])
      BY <1>4, <2>3, Zenon
    <3> QED
      BY <2>2, <3>1, Zenon
  <2> QED
    BY <1>13, <2>1, <2>4
<1> HIDE DEF P
<1>14. n \in P
  BY <1>1, <1>12, <1>13, NatInduct
<1>15. f[n] = g[0]
  <2>1. n \in 0..n
    BY <1>1
  <2>2. f[n] \o g[n] = g[0]
    BY <1>14, <2>1 DEF P
  <2> QED
    BY <1>2, <1>5, <1>10, <2>1, <2>2
<1> QED
  BY <1>5, <1>10, <1>11, <1>15, Zenon DEF Tails, n, T, empty

-----------------------------------------------------------------------------
(***************************************************************************)
(* An order for loops inside loops                                         *)
(***************************************************************************)

LessThan == OpToRel(<, Nat)
NatTriples == Nat \X (Nat \X Nat)
LexicalLess == LexPairOrdering(LessThan, LexPairOrdering(LessThan, LessThan, Nat, Nat), Nat, Nat \X Nat)

\* No sequence goes down in the lexicographic order for ever.
LEMMA LexicalOrderIsWellFounded == IsWellFoundedOn(LexicalLess, NatTriples)
BY NatLessThanWellFounded, WFLexPairOrdering DEF LexicalLess, NatTriples, LessThan

\* The first number that differs decides.
LEMMA LessBefore ==
    ASSUME NEW a \in Nat, NEW b \in Nat, NEW c \in Nat, NEW x \in Nat, NEW y \in Nat, NEW z \in Nat,
           a < x \/ (a = x /\ (b < y \/ (b = y /\ c < z)))
    PROVE  <<<<a, <<b, c>>>>, <<x, <<y, z>>>>>> \in LexicalLess
<1>1. \A m, n \in Nat : m < n => <<m, n>> \in LessThan
  BY DEF LessThan, OpToRel
<1> HIDE DEF LessThan
<1> DEFINE InnerOrder == LexPairOrdering(LessThan, LessThan, Nat, Nat)
<1>2. ASSUME b < y \/ (b = y /\ c < z) PROVE <<<<b, c>>, <<y, z>>>> \in InnerOrder
  BY <1>1, <1>2 DEF LexPairOrdering
<1> HIDE DEF InnerOrder
<1>3. LexicalLess = LexPairOrdering(LessThan, InnerOrder, Nat, Nat \X Nat)
  BY DEF LexicalLess, InnerOrder
<1> QED
  BY <1>1, <1>2, <1>3 DEF LexPairOrdering

-----------------------------------------------------------------------------
(***************************************************************************)
(* Powers of two                                                           *)
(***************************************************************************)

\* A set of n elements has 2^n subsets: that is what there is to know of powers.
LEMMA PowerCounts ==
    ASSUME NEW n \in Nat
    PROVE  IsFiniteSet(SUBSET (1..n)) /\ Cardinality(SUBSET (1..n)) = 2^n
<1>1. IsFiniteSet(1..n) /\ Cardinality(1..n) = n
  <2>1. 1 \in Int /\ n \in Int /\ (IF 1 > n THEN 0 ELSE n - 1 + 1) = n
    OBVIOUS
  <2> QED
    BY <2>1, FS_Interval
<1> QED
  BY <1>1, FS_SUBSET

LEMMA PowerIsPositive ==
    ASSUME NEW n \in Nat
    PROVE  2^n \in Nat /\ 2^n > 0
<1>1. 2^n \in Nat
  BY PowerCounts, FS_CardinalityType
<1>2. SUBSET (1..n) # {}
  OBVIOUS
<1>3. 2^n # 0
  BY <1>2, PowerCounts, FS_EmptySet
<1> QED
  BY <1>1, <1>3

LEMMA PowerGrows ==
    ASSUME NEW m \in Nat, NEW n \in Nat, m <= n
    PROVE  2^m <= 2^n
<1>1. SUBSET (1..m) \in SUBSET (SUBSET (1..n))
  OBVIOUS
<1>2. Cardinality(SUBSET (1..m)) <= Cardinality(SUBSET (1..n))
  BY <1>1, PowerCounts, FS_Subset
<1> QED
  BY <1>2, PowerCounts

\* Half of the subsets hold the new element.
LEMMA PowerDoubles ==
    ASSUME NEW n \in Nat
    PROVE  2^(n + 1) = 2 * 2^n
<1> DEFINE x == n + 1
           S == SUBSET (1..n)
           T == {A \cup {x} : A \in S}
           f == [A \in S |-> A \cup {x}]
<1>1. x \notin 1..n /\ 1..x = (1..n) \cup {x}
  OBVIOUS
<1>2. IsFiniteSet(S) /\ Cardinality(S) = 2^n /\ 2^n \in Nat
  BY PowerCounts, PowerIsPositive
<1>3. Cardinality(SUBSET (1..x)) = 2^x
  BY PowerCounts
<1>4. f \in Bijection(S, T)
  <2>1. f \in [S -> T]
    OBVIOUS
  <2>2. ASSUME NEW A \in S, NEW B \in S, f[A] = f[B]
        PROVE  A = B
    <3>1. A \cup {x} = B \cup {x} /\ x \notin A /\ x \notin B
      BY <1>1, <2>2
    <3> QED
      BY <3>1
  <2>3. \A t \in T : \E A \in S : f[A] = t
    OBVIOUS
  <2> HIDE DEF f, S, T
  <2> QED
    BY <2>1, <2>2, <2>3 DEF Bijection, Injection, Surjection, IsInjective
<1>5. IsFiniteSet(T) /\ Cardinality(T) = Cardinality(S)
  <2>1. ExistsBijection(S, T)
    BY <1>4 DEF ExistsBijection
  <2> HIDE DEF S, T
  <2> QED
    BY <1>2, <2>1, FS_Bijection
<1>6. S \cap T = {}
  BY <1>1
<1>7. SUBSET (1..x) = S \cup T
  <2>1. ASSUME NEW A \in SUBSET (1..x)
        PROVE  A \in S \cup T
    <3>1. CASE x \in A
      <4>1. A \ {x} \in S /\ A = (A \ {x}) \cup {x}
        BY <1>1, <3>1
      <4> QED
        BY <4>1
    <3>2. CASE x \notin A
      BY <1>1, <3>2
    <3> QED
      BY <3>1, <3>2
  <2>2. S \cup T \subseteq SUBSET (1..x)
    BY <1>1
  <2> QED
    BY <2>1, <2>2
<1> HIDE DEF S, T, x
<1>8. Cardinality(S \cup T) = Cardinality(S) + Cardinality(T) - Cardinality(S \cap T)
  BY <1>2, <1>5, FS_Union
<1>9. Cardinality(S \cap T) = 0
  BY <1>6, FS_EmptySet
<1>10. 2^x = Cardinality(S) + Cardinality(S) - 0
  BY <1>3, <1>5, <1>7, <1>8, <1>9, Zenon
<1>11. PICK c \in Nat : c = 2^n
  BY <1>2
<1>12. 2^x = c + c - 0
  BY <1>2, <1>10, <1>11, Zenon
<1>13. 2^x = 2 * c
  BY <1>12
<1> QED
  BY <1>11, <1>13, Zenon DEF x

-----------------------------------------------------------------------------
(***************************************************************************)
(* Whole numbers on their way through an f32                               *)
(***************************************************************************)

\* The leading bit of a number that fits the significand has an exponent.
LEMMA ExponentExists ==
    ASSUME NEW m \in 1..31, NEW n \in Nat, n >= 1, n < 2^m
    PROVE  Exponent(n) \in 0..30 /\ n \div 2^Exponent(n) = 1
<1> DEFINE S == {k \in Nat : n < 2^k}
           k == Min(S)
<1>1. S \in SUBSET Nat /\ m \in S
  OBVIOUS
<1> HIDE DEF S
<1>2. k \in S /\ \A y \in S : k <= y
  BY <1>1, MinOfNat
<1>3. k \in Nat /\ n < 2^k /\ k <= m
  BY <1>1, <1>2 DEF S
<1> HIDE DEF k
<1>4. k # 0
  <2>1. 2^0 = 1
    OBVIOUS
  <2>2. ASSUME k = 0 PROVE n < 1
    BY <1>3, <2>1, <2>2, Zenon
  <2> QED
    BY <2>2
<1>5. PICK e \in 0..30 : k = e + 1
  <2>1. k - 1 \in 0..30 /\ k = (k - 1) + 1
    BY <1>3, <1>4
  <2> QED
    BY <2>1
<1>6. e \notin S
  BY <1>2, <1>3, <1>5
<1>7. PICK c \in Nat : c = 2^e /\ c > 0
  BY PowerIsPositive
<1>8. ~(n < c)
  BY <1>6, <1>7 DEF S
<1>9. n < 2 * c
  BY <1>3, <1>5, <1>7, PowerDoubles
<1>10. n \div c = 1
  BY <1>7, <1>8, <1>9
<1> QED
  BY <1>7, <1>10 DEF Exponent

\* What is whole stays as it is when it is rounded to a step that divides it.
LEMMA WholeIsNearest ==
    ASSUME NEW a \in Nat
    PROVE  NearestEven(a, 1) = a
<1>1. a \div 1 = a /\ a % 1 = 0
  OBVIOUS
<1> QED
  BY <1>1 DEF NearestEven

LEMMA WholeIsDivided ==
    ASSUME NEW a \in Nat, NEW c \in Nat, c > 0
    PROVE  (a * c) \div c = a /\ a * c \in Nat
OBVIOUS

LEMMA WholePartIs ==
    ASSUME NEW n \in Nat, NEW d \in Nat
    PROVE  WholePart[<<n, d>>] =
             IF n < d THEN IF RoundsUpToOne(n, d) THEN 1 ELSE 0
             ELSE AtExponent(n, d, Exponent(n \div d))
BY DEF WholePart

\* A number below 2^Mantissa is read as it is.
LEMMA WholeIsExact ==
    ASSUME Mantissa \in 1..31, NEW n \in Nat, n < 2^Mantissa
    PROVE  WholePart[<<n, 1>>] = n
<1>1. CASE n < 1
  <2>1. PICK c \in Nat : c = 2^(Mantissa + 1) /\ c > 0
    BY PowerIsPositive
  <2>2. PICK b \in Nat : b = 2^Mantissa /\ b > 0
    BY PowerIsPositive
  <2>3. c = 2 * b
    BY <2>1, <2>2, PowerDoubles
  <2>4. 1 \div c = 0
    BY <2>2, <2>3
  <2>5. n = 0 /\ ~RoundsUpToOne(n, 1)
    BY <1>1, <2>1, <2>4 DEF RoundsUpToOne
  <2> QED
    BY <1>1, <2>5, WholePartIs
<1>2. CASE n >= 1
  <2>1. n \div 1 = n
    OBVIOUS
  <2>2. PICK e \in 0..30 : e = Exponent(n) /\ n \div 2^e = 1
    BY <1>2, ExponentExists
  <2>3. PICK c \in Nat : c = 2^e /\ c > 0
    BY PowerIsPositive
  <2>4. c <= n
    BY <2>2, <2>3
  <2>5. PICK b \in Nat : b = 2^Mantissa
    BY PowerIsPositive
  <2>6. c < b
    BY <2>4, <2>5
  <2>7. e < Mantissa
    <3>1. SUFFICES ASSUME ~(e < Mantissa) PROVE FALSE
      OBVIOUS
    <3>2. Mantissa <= e /\ Mantissa \in Nat /\ e \in Nat
      BY <3>1
    <3>3. b <= c
      BY <2>3, <2>5, <3>2, PowerGrows
    <3> QED
      BY <2>3, <2>5, <2>6, <3>3
  <2>8. PICK k \in Nat : k = Mantissa - 1 - e
    BY <2>7
  <2>9. PICK s \in Nat : s = 2^k /\ s > 0
    BY PowerIsPositive
  <2>10. AtExponent(n, 1, e) = NearestEven(n * s, 1) \div s
    BY <2>7, <2>8, <2>9 DEF AtExponent
  <2>11. n * s \in Nat /\ (n * s) \div s = n
    BY <2>9, WholeIsDivided
  <2>12. AtExponent(n, 1, e) = n
    BY <2>10, <2>11, WholeIsNearest
  <2>13. WholePart[<<n, 1>>] = AtExponent(n, 1, Exponent(n \div 1))
    BY <1>2, WholePartIs
  <2> QED
    BY <2>1, <2>2, <2>12, <2>13
<1> QED
  BY <1>1, <1>2

\* What is written as it can be read saturates to itself.
LEMMA SaturatedIs ==
    ASSUME NEW number, NEW v \in Nat, NEW max \in Nat, number.negative = FALSE, number.whole = v,
           v <= max
    PROVE  Saturated(number, max) = v
<1>1. {v, max} \in SUBSET Nat /\ {v, max} # {}
  OBVIOUS
<1>2. Min({v, max}) \in {v, max} /\ \A y \in {v, max} : Min({v, max}) <= y
  BY <1>1, MinOfNat
<1>3. Min({v, max}) = v
  BY <1>2
<1> QED
  BY <1>3 DEF Saturated

-----------------------------------------------------------------------------
(***************************************************************************)
(* Digits                                                                  *)
(***************************************************************************)

\* A part of the data: its bytes and its length.
LEMMA TextProperties ==
    ASSUME NEW d \in Bytes, NEW p \in 1..(Len(d) + 1), NEW q \in p..(Len(d) + 1)
    PROVE  /\ Text(d, p, q) \in Bytes
           /\ Len(Text(d, p, q)) = q - p
           /\ DOMAIN Text(d, p, q) = 1..(q - p)
           /\ \A i \in 1..(q - p) : Text(d, p, q)[i] = d[p + i - 1]
<1>1. Len(d) \in Nat /\ p \in Int /\ q - 1 \in Int
  BY DEF Bytes
<1>2. \A i \in p..(q - 1) : i \in 1..Len(d)
  BY <1>1
<1>3. \A i \in p..(q - 1) : d[i] \in 0..255
  BY <1>2, ElementOfSeq DEF Bytes
<1>4. (IF p <= q - 1 THEN (q - 1) - p + 1 ELSE 0) = q - p /\ (q - 1) - p + 1 = q - p
  BY <1>1
<1>5. /\ Text(d, p, q) \in Seq(0..255)
      /\ Len(Text(d, p, q)) = q - p
      /\ \A i \in 1..(q - p) : Text(d, p, q)[i] = d[p + i - 1]
  BY <1>1, <1>3, <1>4, SubSeqProperties DEF Text
<1> QED
  BY <1>5 DEF Bytes

\* A part of the data grows by the byte behind it.
LEMMA TextGrows ==
    ASSUME NEW d \in Bytes, NEW p \in 1..Len(d), NEW q \in p..Len(d)
    PROVE  Text(d, p, q + 1) = Text(d, p, q) \o <<d[q]>>
<1>1. p \in 1..Len(d) /\ q \in p..Len(d) /\ (q + 1) - 1 = q
  OBVIOUS
<1> QED
  BY <1>1, SubSeqRecursiveSecond DEF Text, Bytes

\* The digits of a part of the data that has all of its digits in one place.
LEMMA DigitsOfText ==
    ASSUME NEW d \in Bytes, NEW p \in 1..(Len(d) + 1), NEW q \in p..(Len(d) + 1),
           NEW a \in p..q, NEW b \in a..q,
           \A i \in p..(q - 1) : d[i] \in Digits <=> i \in a..(b - 1)
    PROVE  DigitsOf(Text(d, p, q)) = Text(d, a, b)
<1> DEFINE s == Text(d, p, q)
           empty == <<>>
           seqs == [i \in DOMAIN s |-> IF s[i] \in Digits THEN <<s[i]>> ELSE empty]
<1>1. PICK n \in Nat : n = q - p
  OBVIOUS
<1>2. /\ s \in Bytes
      /\ Len(s) = n
      /\ DOMAIN s = 1..n
      /\ \A i \in 1..n : s[i] = d[p + i - 1]
  BY <1>1, TextProperties
<1>3. \A i \in 1..n : s[i] \in 0..255
  BY <1>2, ElementOfSeq DEF Bytes
<1>4. DigitsOf(s) = FlattenSeq(seqs)
  BY DEF DigitsOf
<1>5. empty \in Seq(0..255) /\ \A t \in Seq(0..255) : t \o empty = t
  BY ConcatEmptySeq
<1> HIDE DEF s
<1>6. /\ seqs \in Seq(Seq(0..255))
      /\ Len(seqs) = n
      /\ \A i \in 1..n : seqs[i] = IF d[p + i - 1] \in Digits THEN <<d[p + i - 1]>> ELSE empty
  <2>1. ASSUME NEW i \in 1..n
        PROVE  (IF s[i] \in Digits THEN <<s[i]>> ELSE empty) \in Seq(0..255)
    <3>1. PICK b0 \in 0..255 : b0 = s[i]
      BY <1>3
    <3>2. <<b0>> \in Seq(0..255)
      OBVIOUS
    <3> HIDE DEF empty
    <3> QED
      BY <1>5, <3>1, <3>2
  <2>2. seqs \in [1..n -> Seq(0..255)]
    BY <1>2, <2>1
  <2> QED
    BY <1>2, <2>2
<1> HIDE DEF seqs, empty
<1>7. PICK f \in [0..n -> Seq(0..255)] :
         /\ f[0] = <<>>
         /\ \A i \in 1..n : f[i] = f[i - 1] \o seqs[i]
         /\ FlattenSeq(seqs) = f[n]
  <2>1. \E f \in [0..Len(seqs) -> Seq(0..255)] :
           /\ f[0] = <<>>
           /\ \A i \in 1..Len(seqs) : f[i] = f[i - 1] \o seqs[i]
           /\ FlattenSeq(seqs) = f[Len(seqs)]
    BY <1>6, FlattenSeqSteps, Zenon
  <2> QED
    BY <1>6, <2>1, Zenon
<1>8. Len(d) \in Nat /\ \A c \in 1..a : Text(d, a, c) = <<>>
  <2>1. ASSUME NEW c \in 1..a
        PROVE  Text(d, a, c) = <<>>
    BY SubSeqEmpty DEF Text
  <2> QED
    BY <2>1 DEF Bytes
<1> DEFINE Clipped(k) == IF p + k <= b THEN p + k ELSE b
           P == {k \in Nat : k \in 0..n => f[k] = Text(d, a, Clipped(k))}
<1>9. 0 \in P
  <2>1. Clipped(0) \in 1..a
    BY <1>1
  <2>2. Text(d, a, Clipped(0)) = <<>>
    BY <1>8, <2>1, Zenon
  <2> QED
    BY <1>7, <2>2
<1>10. ASSUME NEW k \in Nat, k \in P PROVE k + 1 \in P
  <2> SUFFICES ASSUME k + 1 \in 0..n PROVE f[k + 1] = Text(d, a, Clipped(k + 1))
    <3> HIDE DEF Clipped
    <3> QED
      OBVIOUS
  <2>1. PICK j \in 1..n : j = k + 1 /\ k \in 0..n
    OBVIOUS
  <2>2. PICK c \in Nat : c = p + k
    OBVIOUS
  <2>3. f[j] = f[k] \o seqs[j] /\ f[k] \in Seq(0..255)
    <3>1. j - 1 = k
      BY <2>1
    <3> QED
      BY <1>7, <2>1, <3>1
  <2>4. f[k] = Text(d, a, Clipped(k))
    BY <1>10, <2>1
  <2>5. seqs[j] = IF d[c] \in Digits THEN <<d[c]>> ELSE empty
    <3>1. p + j - 1 = c
      BY <2>1, <2>2
    <3> QED
      BY <1>6, <3>1
  <2>6. c \in p..(q - 1)
    BY <1>1, <2>1, <2>2
  <2>7. CASE c \in a..(b - 1)
    <3>1. d[c] \in Digits
      BY <2>6, <2>7
    <3>2. Clipped(k) = c /\ Clipped(k + 1) = c + 1
      BY <2>2, <2>7
    <3>3. a \in 1..Len(d) /\ c \in a..Len(d)
      BY <1>8, <2>6, <2>7
    <3>4. Text(d, a, c + 1) = Text(d, a, c) \o <<d[c]>>
      BY <3>3, TextGrows
    <3>5. seqs[j] = <<d[c]>>
      BY <2>5, <3>1
    <3> QED
      BY <2>1, <2>3, <2>4, <3>2, <3>4, <3>5
  <2>8. CASE c \notin a..(b - 1)
    <3>1. d[c] \notin Digits
      BY <2>6, <2>8
    <3>2. f[j] = f[k]
      BY <1>5, <2>3, <2>5, <3>1
    <3>3. CASE c < a
      <4>1. Clipped(k) \in 1..a /\ Clipped(k + 1) \in 1..a
        BY <2>2, <3>3
      <4>2. Text(d, a, Clipped(k)) = <<>> /\ Text(d, a, Clipped(k + 1)) = <<>>
        BY <1>8, <4>1, Zenon
      <4> QED
        BY <2>1, <2>4, <3>2, <4>2
    <3>4. CASE c >= b
      <4>1. Clipped(k) = b /\ Clipped(k + 1) = b
        BY <2>2, <3>4
      <4> QED
        BY <2>1, <2>4, <3>2, <4>1
    <3> QED
      BY <2>2, <2>8, <3>3, <3>4
  <2> QED
    BY <2>7, <2>8
<1> HIDE DEF P
<1>11. n \in P
  BY <1>9, <1>10, NatInduct
<1>12. Clipped(n) = b
  BY <1>1
<1>13. f[n] = Text(d, a, b)
  <2>1. n \in 0..n
    OBVIOUS
  <2>2. f[n] = Text(d, a, Clipped(n))
    BY <1>11, <2>1 DEF P
  <2> QED
    BY <1>12, <2>2
<1> QED
  BY <1>4, <1>7, <1>13 DEF s

\* The number that digits stand for.
LEMMA DecimalType ==
    ASSUME NEW digits \in Seq(Digits)
    PROVE  Decimal(digits) \in Nat
<1> DEFINE n == Len(digits)
           step == [k \in 1..n |-> [m \in Nat |-> 10 * m + digits[k] - 48]]
           IsValue(g) == g = [k \in 0..n |-> IF k = 0 THEN 0 ELSE 10 * g[k - 1] + digits[k] - 48]
           value == CHOOSE g : IsValue(g)
<1>1. n \in Nat /\ \A k \in 1..n : digits[k] \in 48..57
  BY ElementOfSeq DEF Digits
<1>2. Decimal(digits) = value[n]
  BY DEF Decimal
<1>3. \A k \in 1..n, m \in Nat : 10 * m + digits[k] - 48 \in Nat
  BY <1>1
<1>4. /\ step \in [1..n -> [Nat -> Nat]]
      /\ \A k \in 1..n, m \in Nat : step[k][m] = 10 * m + digits[k] - 48
  BY <1>3
<1> HIDE DEF step, n
<1>5. \E f \in [0..n -> Nat] : Follows(f, 0, n, step)
  BY <1>1, <1>4, StepsExist
<1>6. PICK f \in [0..n -> Nat] : f[0] = 0 /\ \A k \in 1..n : f[k] = step[k][f[k - 1]]
  BY <1>5, Zenon DEF Follows
<1>7. \A k \in 1..n : f[k] = 10 * f[k - 1] + digits[k] - 48
  <2>1. TAKE k \in 1..n
  <2>2. f[k - 1] \in Nat
    BY <1>1
  <2> QED
    BY <1>4, <1>6, <2>2
<1>8. IsValue(f)
  <2>1. ASSUME NEW k \in 0..n
        PROVE  f[k] = IF k = 0 THEN 0 ELSE 10 * f[k - 1] + digits[k] - 48
    BY <1>1, <1>6, <1>7
  <2> QED
    BY <2>1
<1>9. IsValue(value)
  <2> HIDE DEF IsValue
  <2> QED
    BY <1>8
<1> HIDE DEF value
<1> DEFINE P == {k \in Nat : k \in 0..n => value[k] \in Nat}
<1>10. 0 \in P
  BY <1>9
<1>11. ASSUME NEW k \in Nat, k \in P PROVE k + 1 \in P
  <2> SUFFICES ASSUME k + 1 \in 0..n PROVE value[k + 1] \in Nat
    OBVIOUS
  <2>1. PICK j \in 1..n : j = k + 1 /\ j - 1 = k /\ k \in 0..n
    BY <1>1
  <2>2. value[j] = 10 * value[k] + digits[j] - 48
    BY <1>9, <2>1
  <2>3. PICK m \in Nat : m = value[k]
    BY <1>11, <2>1
  <2>4. 10 * m + digits[j] - 48 \in Nat
    BY <1>3
  <2> QED
    BY <2>1, <2>2, <2>3, <2>4
<1> HIDE DEF P, IsValue
<1>12. n \in P
  BY <1>1, <1>10, <1>11, NatInduct
<1>13. n \in 0..n
  BY <1>1
<1> QED
  BY <1>2, <1>12, <1>13 DEF P

\* A number that is written with digits alone is read as what they stand for, as far as
\* the significand reaches.
LEMMA PlainNumber ==
    ASSUME Mantissa \in 1..31,
           NEW d \in Bytes, NEW p \in 1..Len(d), NEW q \in (p + 1)..(Len(d) + 1),
           \A i \in p..(q - 1) : d[i] \in Digits
    PROVE  /\ Decimal(Text(d, p, q)) \in Nat
           /\ NumberFrom(Text(d, p, q)).negative = FALSE
           /\ Decimal(Text(d, p, q)) < 2^Mantissa =>
                 NumberFrom(Text(d, p, q)).whole = Decimal(Text(d, p, q))
<1> DEFINE s == Text(d, p, q)
           v == Decimal(s)
           class == (0..127) \ {Dot}
           point == EndOfRun(s, 1, class)
<1>1. PICK n \in Nat : n = q - p /\ n >= 1
  BY DEF Bytes
<1>2. p \in 1..(Len(d) + 1) /\ q \in p..(Len(d) + 1) /\ Len(d) \in Nat
  BY DEF Bytes
<1>3. /\ s \in Bytes /\ Len(s) = n /\ DOMAIN s = 1..n
      /\ \A i \in 1..n : s[i] = d[p + i - 1]
  BY <1>1, <1>2, TextProperties
<1>4. \A i \in 1..n : s[i] \in Digits
  BY <1>1, <1>3
<1>5. DigitsOf(s) = s
  <2>1. p \in p..q /\ q \in p..q /\ \A i \in p..(q - 1) : d[i] \in Digits <=> i \in p..(q - 1)
    BY <1>2
  <2> QED
    BY <1>2, <2>1, DigitsOfText
<1> HIDE DEF s
<1>6. s \in Seq(Digits)
  <2>1. s \in [1..n -> Digits]
    BY <1>3, <1>4 DEF Bytes
  <2> QED
    BY <2>1
<1>7. v \in Nat
  BY <1>6, DecimalType
<1> HIDE DEF v
<1>8. point = n + 1
  <2>1. 1 \in 1..(Len(s) + 1)
    BY <1>3
  <2>3. Digits \subseteq class
    BY DEF Digits, Dot
  <2> HIDE DEF class
  <2>2. point \in 1..(n + 1) /\ (point <= n => s[point] \notin class)
    <3>1. point \in 1..(Len(s) + 1) /\ (point <= Len(s) => s[point] \notin class)
      BY <1>3, <2>1, EndOfRunPlace
    <3> QED
      BY <1>3, <3>1
  <2> HIDE DEF point
  <2>4. ~(point <= n)
    <3>1. point <= n => point \in 1..n
      BY <2>2
    <3> QED
      BY <1>4, <2>2, <2>3, <3>1
  <2> QED
    BY <2>2, <2>4
<1> HIDE DEF point
<1>9. FractionOf(s) = <<>>
  <2>3. FractionOf(s) = Text(s, point + 1, Len(s) + 1)
    BY DEF FractionOf, point, class
  <2>1. FractionOf(s) = SubSeq(s, point + 1, (Len(s) + 1) - 1)
    BY <2>3 DEF Text
  <2>2. point + 1 \in Int /\ (Len(s) + 1) - 1 \in Int /\ (Len(s) + 1) - 1 < point + 1
    BY <1>3, <1>8
  <2> QED
    BY <2>1, <2>2, SubSeqEmpty
<1>10. 10^Len(FractionOf(s)) = 1
  <2>1. Len(FractionOf(s)) = 0
    BY <1>9
  <2>2. 10^0 = 1
    OBVIOUS
  <2> QED
    BY <2>1, <2>2, Zenon
<1>11. Head(s) # Minus
  <2>1. Head(s) = s[1]
    BY <1>1, <1>3 DEF Bytes
  <2>2. s[1] \in Digits
    BY <1>1, <1>4
  <2> QED
    BY <2>1, <2>2 DEF Digits, Minus
<1>12. NumberFrom(s) = Number(Head(s) = Minus, WholePart[<<v, 1>>])
  BY <1>5, <1>10, Zenon DEF NumberFrom, v
<1>13. NumberFrom(s).negative = FALSE /\ NumberFrom(s).whole = WholePart[<<v, 1>>]
  <2>1. (Head(s) = Minus) = FALSE
    BY <1>11
  <2>2. NumberFrom(s) = Number(FALSE, WholePart[<<v, 1>>])
    BY <1>12, <2>1, Zenon
  <2> HIDE DEF v
  <2> QED
    BY <2>2 DEF Number
<1>14. v < 2^Mantissa => WholePart[<<v, 1>>] = v
  BY <1>7, WholeIsExact
<1> QED
  BY <1>7, <1>13, <1>14 DEF s, v

-----------------------------------------------------------------------------
(***************************************************************************)
(* Where the forms end                                                     *)
(***************************************************************************)

LEMMA Classes ==
    /\ Digits \subseteq NumberStart
    /\ White \cap NumberStart = {}
    /\ White \cap Digits = {}
BY DEF Digits, NumberStart, White, Minus, Plus, Dot

\* A number is a row of its own bytes, and no digit follows.
LEMMA EndOfNumberText ==
    ASSUME NEW d \in Bytes, NEW p \in 1..Len(d), d[p] \in NumberStart
    PROVE  /\ \A i \in p..(EndOfNumber(d, p) - 1) : d[i] \in NumberStart
           /\ EndOfNumber(d, p) <= Len(d) => d[EndOfNumber(d, p)] \notin Digits
<1> DEFINE s == PastSign(d, p)
           point == EndOfRun(d, s, Digits)
           end == EndOfRun(d, point + 1, Digits)
<1>0. Len(d) \in Nat
  BY DEF Bytes
<1>1. s \in p..(p + 1) /\ s \in 1..(Len(d) + 1) /\ \A i \in p..(s - 1) : i = p
  BY <1>0 DEF PastSign
<1> HIDE DEF s
<1>3. /\ point \in s..(Len(d) + 1)
      /\ \A i \in s..(point - 1) : d[i] \in Digits
      /\ point <= Len(d) => d[point] \notin Digits
  BY <1>1, EndOfRunPlace
<1> HIDE DEF point
<1>4. \A i \in p..(point - 1) : d[i] \in NumberStart
  <2>1. TAKE i \in p..(point - 1)
  <2>2. i \in p..(s - 1) \/ i \in s..(point - 1)
    BY <1>0, <1>1, <1>3
  <2> QED
    BY <1>1, <1>3, <2>2, Classes
<1>5. CASE At(d, point) = Dot
  <2>1. point \in 1..Len(d) /\ d[point] = Dot
    BY <1>0, <1>1, <1>3, <1>5 DEF At, Dot, NoByte
  <2>2. point + 1 \in 1..(Len(d) + 1)
    BY <1>0, <2>1
  <2>3. /\ end \in (point + 1)..(Len(d) + 1)
        /\ \A i \in (point + 1)..(end - 1) : d[i] \in Digits
        /\ end <= Len(d) => d[end] \notin Digits
    BY <2>2, EndOfRunPlace
  <2>4. EndOfNumber(d, p) = end
    BY <1>5 DEF EndOfNumber, point, s, end
  <2> HIDE DEF end
  <2>5. ASSUME NEW i \in p..(end - 1)
        PROVE  d[i] \in NumberStart
    <3>1. i \in p..(point - 1) \/ i = point \/ i \in (point + 1)..(end - 1)
      BY <1>0, <1>1, <1>3, <2>1, <2>3
    <3>2. Dot \in NumberStart
      BY DEF NumberStart
    <3> QED
      BY <1>4, <2>1, <2>3, <3>1, <3>2, Classes
  <2> QED
    BY <2>3, <2>4, <2>5
<1>6. CASE At(d, point) # Dot
  <2>1. EndOfNumber(d, p) = point
    BY <1>6 DEF EndOfNumber, point, s
  <2> QED
    BY <1>3, <1>4, <2>1
<1> QED
  BY <1>5, <1>6

LEMMA SkipAgain ==
    ASSUME NEW d \in Bytes, NEW e \in 1..(Len(d) + 1)
    PROVE  SkipWhitespace(d, SkipWhitespace(d, e)) = SkipWhitespace(d, e)
<1>1. PICK n \in Nat : n = Len(d)
  BY DEF Bytes
<1>2. PICK y \in 1..(Len(d) + 1) : y = SkipWhitespace(d, e) /\ (y <= n => d[y] \notin White)
  BY <1>1, EndOfRunPlace DEF SkipWhitespace
<1>3. PICK x \in 1..(Len(d) + 1) : /\ x = SkipWhitespace(d, y) /\ x \in y..(n + 1)
                                   /\ \A i \in y..(x - 1) : d[i] \in White
  BY <1>1, <1>2, EndOfRunPlace DEF SkipWhitespace
<1>4. x = y
  BY <1>1, <1>2, <1>3
<1> QED
  BY <1>2, <1>3, <1>4

\* Two numbers with white space behind each, up to place z: as the parser has read them,
\* from q up to saved and from s up to e.
AsRead(d, q, saved, s, e, z) ==
    /\ \A i \in q..(saved - 1) : d[i] \in NumberStart
    /\ q > 1 => d[q - 1] \notin Digits \/ d[q] \notin Digits
    /\ saved <= Len(d) => d[saved] \notin Digits
    /\ SkipWhitespace(d, saved) = s
    /\ d[s] \in Digits
    /\ \A i \in s..(e - 1) : d[i] \in NumberStart
    /\ SkipWhitespace(d, e) = z

\* As they are written with plain digits, from p up to first and from second up to behind.
AsWritten(d, p, first, second, behind, z) ==
    /\ d[p] \in Digits
    /\ p > 1 => d[p - 1] \notin NumberStart
    /\ EndOfRun(d, p, Digits) = first
    /\ SkipWhitespace(d, first) = second
    /\ EndOfRun(d, second, Digits) = behind
    /\ first < second
    /\ second < behind
    /\ SkipWhitespace(d, behind) = z

\* There is one way only.
LEMMA OneReading ==
    ASSUME NEW d \in Bytes, NEW z \in 1..Len(d),
           NEW q \in 1..Len(d), NEW saved \in (q + 1)..(Len(d) + 1),
           NEW s \in 1..Len(d), NEW e \in (s + 1)..(Len(d) + 1),
           AsRead(d, q, saved, s, e, z),
           NEW p \in 1..Len(d), NEW first \in 1..(Len(d) + 1),
           NEW second \in 1..(Len(d) + 1), NEW behind \in 1..(Len(d) + 1),
           AsWritten(d, p, first, second, behind, z)
    PROVE  q = p /\ saved = first /\ s = second /\ e = behind
<1> USE DEF AsRead, AsWritten
<1>0. PICK n \in Nat : n = Len(d)
  BY DEF Bytes
<1>1. /\ first \in p..(n + 1)
      /\ \A i \in p..(first - 1) : d[i] \in Digits
      /\ first <= n => d[first] \notin Digits
  <2>1. p \in 1..(Len(d) + 1)
    BY <1>0
  <2> QED
    BY <1>0, <2>1, EndOfRunPlace
<1>2. second \in first..(n + 1) /\ \A i \in first..(second - 1) : d[i] \in White
  BY <1>0, <1>1, EndOfRunPlace DEF SkipWhitespace
<1>3. behind \in second..(n + 1) /\ \A i \in second..(behind - 1) : d[i] \in Digits
  BY <1>0, <1>1, <1>2, EndOfRunPlace
<1>4. z \in behind..(n + 1) /\ \A i \in behind..(z - 1) : d[i] \in White
  <2>1. behind \in 1..(Len(d) + 1)
    BY <1>0, <1>1, <1>2, <1>3
  <2>2. /\ EndOfRun(d, behind, White) \in behind..(Len(d) + 1)
        /\ \A i \in behind..(EndOfRun(d, behind, White) - 1) : d[i] \in White
    BY <2>1, EndOfRunPlace
  <2>3. EndOfRun(d, behind, White) = z
    BY DEF SkipWhitespace
  <2> QED
    BY <1>0, <2>2, <2>3
<1>5. e \in 1..(Len(d) + 1) /\ saved \in 1..(Len(d) + 1)
  BY <1>0
<1>6. z \in e..(n + 1) /\ \A i \in e..(z - 1) : d[i] \in White
  <2>1. e \in 1..(Len(d) + 1)
    BY <1>0
  <2>2. /\ EndOfRun(d, e, White) \in e..(Len(d) + 1)
        /\ \A i \in e..(EndOfRun(d, e, White) - 1) : d[i] \in White
    BY <2>1, EndOfRunPlace
  <2>3. EndOfRun(d, e, White) = z
    BY DEF SkipWhitespace
  <2> QED
    BY <1>0, <2>2, <2>3
<1>7. s \in saved..(n + 1) /\ \A i \in saved..(s - 1) : d[i] \in White
  BY <1>0, <1>5, EndOfRunPlace DEF SkipWhitespace
<1>8. e = behind
  <2>1. CASE e < behind
    <3>1. behind - 1 \in e..(z - 1) /\ behind - 1 \in second..(behind - 1)
      BY <1>0, <1>3, <1>4, <2>1
    <3>2. d[behind - 1] \in White /\ d[behind - 1] \in Digits
      BY <1>3, <1>6, <3>1
    <3> QED
      BY <3>2, Classes
  <2>2. CASE behind < e
    <3>1. e - 1 \in behind..(z - 1) /\ e - 1 \in s..(e - 1)
      BY <1>0, <1>4, <1>6, <2>2
    <3>2. d[e - 1] \in White /\ d[e - 1] \in NumberStart
      BY <1>4, <3>1
    <3> QED
      BY <3>2, Classes
  <2> QED
    BY <1>0, <2>1, <2>2
<1>9. saved < s
  <2>1. saved # s
    BY <1>0
  <2> QED
    BY <1>0, <1>7, <2>1
<1>10. s = second
  <2>1. CASE s < second
    <3>1. second - 1 \in first..(second - 1) /\ second - 1 \in s..(e - 1)
      BY <1>0, <1>2, <1>8, <2>1
    <3>2. d[second - 1] \in White /\ d[second - 1] \in NumberStart
      BY <1>2, <3>1
    <3> QED
      BY <3>2, Classes
  <2>2. CASE second < s
    <3>1. s - 1 \in saved..(s - 1) /\ s - 1 \in second..(behind - 1)
      BY <1>0, <1>3, <1>7, <1>8, <1>9, <2>2
    <3>2. d[s - 1] \in White /\ d[s - 1] \in Digits
      BY <1>3, <1>7, <3>1
    <3> QED
      BY <3>2, Classes
  <2> QED
    BY <1>0, <2>1, <2>2
<1>11. p < first
  <2>1. p # first
    BY <1>0, <1>1
  <2> QED
    BY <1>0, <1>1, <2>1
<1>12. saved = first
  <2>1. CASE saved < first
    <3>1. first - 1 \in saved..(s - 1) /\ first - 1 \in p..(first - 1)
      BY <1>0, <1>1, <1>2, <1>10, <1>11, <2>1
    <3>2. d[first - 1] \in White /\ d[first - 1] \in Digits
      BY <1>1, <1>7, <3>1
    <3> QED
      BY <3>2, Classes
  <2>2. CASE first < saved
    <3>1. saved - 1 \in first..(second - 1) /\ saved - 1 \in q..(saved - 1)
      BY <1>0, <1>2, <1>7, <1>10, <2>2
    <3>2. d[saved - 1] \in White /\ d[saved - 1] \in NumberStart
      BY <1>2, <3>1
    <3> QED
      BY <3>2, Classes
  <2> QED
    BY <1>0, <2>1, <2>2
<1>13. q = p
  <2>1. CASE q < p
    <3>1. p > 1 /\ p - 1 \in q..(saved - 1)
      BY <1>0, <1>11, <1>12, <2>1
    <3> QED
      BY <3>1
  <2>2. CASE p < q
    <3>1. q > 1 /\ q - 1 \in p..(first - 1) /\ q \in p..(first - 1)
      BY <1>0, <1>12, <2>2
    <3> QED
      BY <1>1, <3>1
  <2> QED
    BY <1>0, <2>1, <2>2
<1> QED
  BY <1>8, <1>10, <1>12, <1>13

\* A string ends at a parenthesis: nothing else changes paren_depth.
LEMMA StringCloses ==
    ASSUME NEW d \in Bytes, NEW p \in 1..Len(d), NEW e \in StringEnds(d, p),
           \A f \in StringEnds(d, p) : e <= f
    PROVE  d[e] \in {LeftParen, RightParen}
<1> SUFFICES ASSUME d[e] \notin {LeftParen, RightParen}
             PROVE  FALSE
  OBVIOUS
<1> DEFINE Opened(i) == {j \in (p + 1)..i : Unescaped(d, p, j, LeftParen)}
           Closed(i) == {j \in (p + 1)..i : Unescaped(d, p, j, RightParen)}
<1>1. e \in (p + 1)..Len(d) /\ ParenDepth(d, p, e) = 0
  BY DEF StringEnds
<1>2. ~Unescaped(d, p, e, LeftParen) /\ ~Unescaped(d, p, e, RightParen)
  BY DEF Unescaped
<1>3. PICK i \in Nat : i = e - 1 /\ i >= p
  BY <1>1
<1>4. \A j \in (p + 1)..e : j # e => j \in (p + 1)..i
  BY <1>1, <1>3
<1>5. \A j \in (p + 1)..i : j \in (p + 1)..e
  BY <1>1, <1>3
<1>6. Opened(e) = Opened(i) /\ Closed(e) = Closed(i)
  BY <1>2, <1>4, <1>5, Zenon
<1>7. \A k : ParenDepth(d, p, k) = 1 + Cardinality(Opened(k)) - Cardinality(Closed(k))
  BY DEF ParenDepth
<1>8. ParenDepth(d, p, i) = 0
  BY <1>1, <1>6, <1>7
<1>9. CASE i = p
  <2>1. Opened(i) = {} /\ Closed(i) = {}
    BY <1>9
  <2> HIDE DEF Opened, Closed
  <2>2. Cardinality(Opened(i)) = 0 /\ Cardinality(Closed(i)) = 0
    BY <2>1, FS_EmptySet
  <2>3. ParenDepth(d, p, i) = 1 + 0 - 0
    BY <1>7, <2>2, Zenon
  <2> QED
    BY <1>8, <2>3
<1>10. CASE i > p
  <2>1. i \in (p + 1)..Len(d)
    BY <1>1, <1>3, <1>10
  <2>2. i \in StringEnds(d, p)
    BY <1>8, <2>1 DEF StringEnds
  <2> QED
    BY <1>3, <2>2
<1> QED
  BY <1>3, <1>9, <1>10
=============================================================================
