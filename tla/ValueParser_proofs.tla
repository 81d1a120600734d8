------------------------- MODULE ValueParser_proofs -------------------------
(***************************************************************************)
(* Proofs about ValueParser, for every text: the attempts at a reference   *)
(* that are under way hold nothing but numbers and white space, the depth  *)
(* of the recursion stays below the number of bytes read, the parse comes  *)
(* to an end although it goes back, a reference has the numbers that are   *)
(* written, and the answer is the value that ValueReading reads without    *)
(* going back.                                                             *)
(***************************************************************************)
EXTENDS ValueParser, PdfSyntax_proofs

\* The place of the next byte is a place of the data.
DataInv == data \in Bytes /\ pos \in 1..(Len(data) + 1)

\* A frame of a reference can go back, to a place that leaves a byte to each call
\* outside of it, and with a number to return.
Attempt(i) ==
    /\ stack[i].saved \in Nat
    /\ i < stack[i].saved
    /\ stack[i].saved <= pos
    /\ stack[i].number # Nothing

\* Attempts stand one inside the other, each behind the number of the one outside.
Nested(i) ==
    \A j \in i..Len(stack) : Waits(j) /\ stack[i].saved <= stack[j].saved

TextOfWait(i) ==
    \A p \in stack[i].saved..(EndOfWait(i) - 1) : data[p] \in White \cup Digits \cup {Dot}

\* While an attempt is under way the next value starts with a digit.
DigitIsNext ==
    ret = Nothing /\ (\E i \in DOMAIN stack : Waits(i)) => pos <= Len(data) /\ data[pos] \in Digits

StackInv ==
    /\ \E S : stack \in Seq(S)
    /\ Len(stack) < pos
    /\ \A i \in DOMAIN stack : Waits(i) => Attempt(i) /\ Nested(i) /\ TextOfWait(i)

IInv == DataInv /\ StackInv /\ DigitIsNext

LEMMA InvImplies == IInv => OnlyNumbersWait
BY DEF IInv, StackInv, Attempt, Nested, TextOfWait, OnlyNumbersWait

LEMMA InitInv == ASSUME Init PROVE IInv
<1>1. data \in Bytes
  BY TextsAssumption DEF Init, Bytes
<1>2. Len(data) \in Nat
  BY <1>1 DEF Bytes
<1>3. stack = <<>> /\ pos = 1 /\ <<>> \in Seq({}) /\ Len(stack) = 0 /\ DOMAIN stack = {}
  BY DEF Init
<1> QED
  BY <1>1, <1>2, <1>3 DEF IInv, DataInv, StackInv, DigitIsNext

-----------------------------------------------------------------------------
(***************************************************************************)
(* Where things are read                                                   *)
(***************************************************************************)

\* White space and comments are skipped to a place of the data, and nothing is skipped
\* in front of a byte that is neither.
LEMMA SkipPlace ==
    ASSUME NEW d \in Bytes, NEW q \in 1..(Len(d) + 1)
    PROVE  /\ SkipWhitespaceAndComments(d, q) \in q..(Len(d) + 1)
           /\ q <= Len(d) /\ d[q] \notin White \cup {Percent} =>
                 SkipWhitespaceAndComments(d, q) = q
           /\ SkipWhitespaceAndComments(d, q) <= Len(d) =>
                 d[SkipWhitespaceAndComments(d, q)] \notin White
<1> DEFINE S == {p \in q..Len(d) : d[p] \notin White /\ ~InComment(d, q, p)}
           m == Min(S \cup {Len(d) + 1})
<1>1. Len(d) \in Nat
  BY DEF Bytes
<1>2. S \in SUBSET (q..Len(d))
  OBVIOUS
<1>7. \A p \in S : d[p] \notin White
  OBVIOUS
<1>8. ASSUME q <= Len(d), d[q] \notin White \cup {Percent} PROVE q \in S
  <2>1. ~InComment(d, q, q)
    BY <1>1, <1>8 DEF InComment
  <2> QED
    BY <1>1, <1>8, <2>1
<1> HIDE DEF S
<1>3. /\ m \in q..(Len(d) + 1) /\ \A p \in q..(m - 1) : p \notin S
      /\ m <= Len(d) => m \in S
  BY <1>1, <1>2, FirstPlace
<1> HIDE DEF m
<1>5. SkipWhitespaceAndComments(d, q) = m
  BY DEF SkipWhitespaceAndComments, m, S
<1>6. ASSUME q \in S PROVE m = q
  BY <1>1, <1>3, <1>6
<1> QED
  BY <1>3, <1>5, <1>6, <1>7, <1>8

LEMMA PlaceIsNext ==
    ASSUME DataInv
    PROVE  /\ Place \in pos..(Len(data) + 1)
           /\ pos <= Len(data) /\ data[pos] \in Digits => Place = pos
<1>1. ASSUME data[pos] \in Digits PROVE data[pos] \notin White \cup {Percent}
  BY <1>1 DEF White, Digits, Percent
<1> QED
  BY <1>1, SkipPlace DEF DataInv, Place

\* A number is read behind the place it starts at; one that starts with a digit stands
\* on digits and a point.
LEMMA NumberReading ==
    ASSUME NEW d \in Bytes, NEW p \in 1..(Len(d) + 1), NEW r \in NumberAt(d, p)
    PROVE  /\ p \in 1..Len(d)
           /\ r.end \in (p + 1)..(Len(d) + 1)
           /\ r.value # Nothing
           /\ d[p] \in Digits => \A q \in p..(r.end - 1) : d[q] \in Digits \cup {Dot}
<1>0. Len(d) \in Nat
  BY DEF Bytes
<1>1. PICK e \in {EndOfNumber(d, p)} : /\ At(d, p) \in NumberStart /\ IsNumber(d, p, e)
                                       /\ r = Reading(NumberFrom(Text(d, p, e)), e)
  BY DEF NumberAt
<1>2. At(d, p) # NoByte
  BY <1>1 DEF NumberStart, Digits, Minus, Plus, Dot, NoByte
<1>3. p \in 1..Len(d)
  BY <1>2 DEF At
<1>4. e \in p..(Len(d) + 1)
  BY <1>1, <1>3, EndOfNumberPlace
<1>5. e > p
  BY <1>0, <1>1, <1>4 DEF IsNumber
<1>6. r.end = e
  BY <1>1 DEF Reading
<1>7. r.value.kind = "Number"
  BY <1>1 DEF Reading, NumberFrom, Number
<1>8. r.value # Nothing
  BY <1>7 DEF Nothing
<1>9. d[p] \in Digits => \A q \in p..(e - 1) : d[q] \in Digits \cup {Dot}
  BY <1>1, <1>3, EndOfNumberPlace
<1>10. r.end \in (p + 1)..(Len(d) + 1)
  BY <1>0, <1>3, <1>4, <1>5, <1>6
<1> QED
  BY <1>3, <1>6, <1>8, <1>9, <1>10

\* Whatever is read in one go ends behind the place it starts at, and starts with no
\* digit unless it is a number.
LEMMA OtherReadings ==
    ASSUME NEW d \in Bytes, NEW p \in 1..(Len(d) + 1),
           NEW r \in KeywordAt(d, p) \cup NameAt(d, p) \cup StringAt(d, p) \cup HexStringAt(d, p)
    PROVE  /\ p \in 1..Len(d)
           /\ r.end \in (p + 1)..(Len(d) + 1)
           /\ d[p] \notin Digits
<1>0. Len(d) \in Nat
  BY DEF Bytes
<1>1. CASE r \in KeywordAt(d, p)
  <2>1. PICK k \in Keywords : /\ p + Len(k.text) <= Len(d) + 1
                              /\ Text(d, p, p + Len(k.text)) = k.text
                              /\ r = Reading(k.value, p + Len(k.text))
    BY <1>1 DEF KeywordAt
  <2>2. Len(k.text) \in 4..5 /\ k.text[1] \in {110, 116, 102}
    <3> DEFINE n == <<110, 117, 108, 108>>
               t == <<116, 114, 117, 101>>
               f == <<102, 97, 108, 115, 101>>
    <3>1. /\ Len(n) \in 4..5 /\ n[1] \in {110, 116, 102}
          /\ Len(t) \in 4..5 /\ t[1] \in {110, 116, 102}
          /\ Len(f) \in 4..5 /\ f[1] \in {110, 116, 102}
      OBVIOUS
    <3> HIDE DEF n, t, f
    <3>2. \/ k = [text |-> n, value |-> Null]
          \/ k = [text |-> t, value |-> Boolean(TRUE)]
          \/ k = [text |-> f, value |-> Boolean(FALSE)]
      BY Zenon DEF Keywords, n, t, f
    <3>3. \A x, v : [text |-> x, value |-> v].text = x
      OBVIOUS
    <3>4. k.text = n \/ k.text = t \/ k.text = f
      BY <3>2, <3>3, Zenon
    <3> QED
      BY <3>1, <3>4, Zenon
  <2>3. p + Len(k.text) - 1 \in p..Len(d)
    BY <1>0, <2>1, <2>2
  <2>4. Text(d, p, p + Len(k.text))[1] = d[p]
    BY <1>0, <2>2, <2>3, SubSeqProperties DEF Text, Bytes
  <2>5. d[p] \notin Digits
    <3>1. d[p] = k.text[1]
      BY <2>1, <2>4
    <3>2. \A b \in {110, 116, 102} : b \notin Digits
      BY DEF Digits
    <3> QED
      BY <2>2, <3>1, <3>2
  <2>6. r.end = p + Len(k.text)
    BY <2>1 DEF Reading
  <2>7. r.end \in (p + 1)..(Len(d) + 1)
    BY <1>0, <2>1, <2>2, <2>6
  <2> QED
    BY <2>3, <2>5, <2>7
<1>2. CASE r \in NameAt(d, p)
  <2>1. PICK e \in {EndOfName(d, p)} : At(d, p) = Slash /\ r = Reading(Name(Text(d, p + 1, e)), e)
    BY <1>2 DEF NameAt
  <2>2. p \in 1..Len(d) /\ d[p] = Slash
    BY <2>1 DEF At, Slash, NoByte
  <2>3. r.end = EndOfName(d, p)
    BY <2>1 DEF Reading
  <2>4. r.end \in (p + 1)..(Len(d) + 1)
    BY <2>2, <2>3, EndOfNamePlace
  <2> QED
    BY <2>2, <2>4 DEF Slash, Digits
<1>3. CASE r \in StringAt(d, p)
  <2>1. At(d, p) = LeftParen
    BY <1>3 DEF StringAt
  <2>2. PICK e \in StringEnds(d, p) : r = Reading(String(StringBytes(d, p, e)), e + 1)
    BY <1>3 DEF StringAt
  <2>3. p \in 1..Len(d) /\ d[p] = LeftParen
    BY <2>1 DEF At, LeftParen, NoByte
  <2>4. e \in (p + 1)..Len(d)
    BY <2>2, <2>3, StringEndPlace
  <2>5. r.end = e + 1
    BY <2>2 DEF Reading
  <2>6. r.end \in (p + 1)..(Len(d) + 1)
    BY <1>0, <2>4, <2>5
  <2> QED
    BY <2>3, <2>6 DEF LeftParen, Digits
<1>4. CASE r \in HexStringAt(d, p)
  <2>1. PICK e \in {EndOfHexString(d, p)} : /\ At(d, p) = Less /\ At(d, e) = Greater
                                            /\ r = Reading(String(HexStringBytes(d, p, e)), e + 1)
    BY <1>4 DEF HexStringAt
  <2>2. p \in 1..Len(d) /\ d[p] = Less
    BY <2>1 DEF At, Less, NoByte
  <2>3. e \in (p + 1)..(Len(d) + 1)
    BY <2>1, <2>2, EndOfHexStringPlace
  <2>4. e \in 1..Len(d)
    BY <2>1 DEF At, Greater, NoByte
  <2>5. r.end = e + 1
    BY <2>1 DEF Reading
  <2>6. r.end \in (p + 1)..(Len(d) + 1)
    BY <1>0, <2>2, <2>3, <2>4, <2>5
  <2> QED
    BY <2>2, <2>6 DEF Less, Digits
<1> QED
  BY <1>1, <1>2, <1>3, <1>4

-----------------------------------------------------------------------------
(***************************************************************************)
(* Stacks                                                                  *)
(***************************************************************************)

Quiet == \A i \in DOMAIN stack : ~Waits(i)

\* The innermost attempt is the innermost call.
LEMMA TopWaits ==
    ASSUME StackInv, ~Quiet
    PROVE  /\ Len(stack) \in DOMAIN stack
           /\ Waits(Len(stack))
           /\ Top.in = "reference"
<1>1. PICK S : stack \in Seq(S)
  BY DEF StackInv
<1>2. Len(stack) \in Nat /\ DOMAIN stack = 1..Len(stack)
  BY <1>1
<1>3. PICK i \in DOMAIN stack : Waits(i)
  BY DEF Quiet
<1>4. Len(stack) \in i..Len(stack) /\ Len(stack) \in DOMAIN stack
  BY <1>2
<1>5. Nested(i)
  BY <1>3 DEF StackInv
<1>6. Waits(Len(stack))
  BY <1>4, <1>5 DEF Nested
<1>7. stack # <<>>
  BY <1>3
<1>8. Top = stack[Len(stack)]
  BY <1>7 DEF Top
<1> QED
  BY <1>4, <1>6, <1>8 DEF Waits

\* Without an attempt only the places have to be right.
LEMMA QuietStep ==
    ASSUME data' \in Bytes, pos' \in 1..(Len(data') + 1),
           \E S : stack' \in Seq(S),
           Len(stack') < pos',
           \A i \in DOMAIN stack' : stack'[i].in # "reference"
    PROVE  IInv' /\ Quiet'
BY DEF IInv, DataInv, StackInv, DigitIsNext, Waits, Quiet

\* A new call on a stack without an attempt.
LEMMA QuietCall ==
    ASSUME IInv, Quiet, NEW frame, NEW place \in (pos + 1)..(Len(data) + 1),
           frame.in # "reference", Call(frame, place)
    PROVE  IInv' /\ Quiet'
<1>1. PICK S : stack \in Seq(S)
  BY DEF IInv, StackInv
<1>2. stack' = Append(stack, frame) /\ pos' = place /\ data' = data
  BY DEF Call
<1>3. Len(data) \in Nat /\ pos \in 1..(Len(data) + 1) /\ data \in Bytes /\ Len(stack) < pos
  BY DEF IInv, DataInv, StackInv, Bytes
<1>4. stack' \in Seq(S \cup {frame})
  BY <1>1, <1>2, SeqMonotonic, AppendProperties
<1>5. /\ Len(stack) \in Nat
      /\ Len(stack') = Len(stack) + 1
      /\ DOMAIN stack = 1..Len(stack)
      /\ DOMAIN stack' = 1..(Len(stack) + 1)
      /\ \A i \in 1..Len(stack) : stack'[i] = stack[i]
      /\ stack'[Len(stack) + 1] = frame
  BY <1>1, <1>2, AppendProperties
<1>6. Len(stack') < pos' /\ pos' \in 1..(Len(data') + 1)
  BY <1>2, <1>3, <1>5
<1>7. \A i \in DOMAIN stack' : stack'[i].in # "reference"
  <2>1. ASSUME NEW i \in DOMAIN stack' PROVE i \in 1..Len(stack) \/ i = Len(stack) + 1
    BY <1>5
  <2> QED
    BY <1>5, <2>1 DEF Quiet, Waits
<1> QED
  BY <1>2, <1>3, <1>4, <1>6, <1>7, QuietStep

\* The calls under the innermost one.
LEMMA BelowProperties ==
    ASSUME StackInv, stack # <<>>
    PROVE  /\ Len(stack) \in Nat \ {0}
           /\ DOMAIN stack = 1..Len(stack)
           /\ \E S : Below \in Seq(S)
           /\ Len(Below) = Len(stack) - 1
           /\ DOMAIN Below = 1..(Len(stack) - 1)
           /\ \A i \in 1..(Len(stack) - 1) : Below[i] = stack[i]
<1>1. PICK S : stack \in Seq(S)
  BY DEF StackInv
<1>2. Len(stack) \in Nat \ {0} /\ DOMAIN stack = 1..Len(stack)
  BY <1>1, EmptySeq
<1>3. \A i \in 1..(Len(stack) - 1) : i \in 1..Len(stack)
  BY <1>2
<1>4. \A i \in 1..(Len(stack) - 1) : stack[i] \in S
  BY <1>1, <1>3, ElementOfSeq
<1>5. Below \in Seq(S)
  BY <1>1, <1>2, <1>4, SubSeqProperties DEF Below
<1>6. Len(Below) = Len(stack) - 1 /\ \A i \in 1..(Len(stack) - 1) : Below[i] = stack[i]
  BY <1>1, <1>2, <1>4, SubSeqProperties DEF Below
<1>7. DOMAIN Below = 1..(Len(stack) - 1)
  BY <1>5, <1>6
<1> QED
  BY <1>2, <1>5, <1>6, <1>7

\* A caller goes on, or returns, without an attempt below.
LEMMA QuietReturn ==
    ASSUME IInv, stack # <<>>, Quiet, data' = data, pos' \in pos..(Len(data) + 1),
           NEW frame, frame.in # "reference",
           stack' = Below \/ stack' = Append(Below, frame)
    PROVE  IInv' /\ Quiet'
<1>1. /\ Len(stack) \in Nat \ {0}
      /\ DOMAIN stack = 1..Len(stack)
      /\ Len(Below) = Len(stack) - 1
      /\ DOMAIN Below = 1..(Len(stack) - 1)
      /\ \A i \in 1..(Len(stack) - 1) : Below[i] = stack[i]
  BY BelowProperties DEF IInv
<1>2. PICK S : Below \in Seq(S)
  BY BelowProperties DEF IInv
<1>3. Len(data) \in Nat /\ pos \in 1..(Len(data) + 1) /\ data \in Bytes /\ Len(stack) < pos
  BY DEF IInv, DataInv, StackInv, Bytes
<1>4. \A i \in DOMAIN Below : Below[i].in # "reference"
  BY <1>1 DEF Quiet, Waits
<1>5. pos' \in 1..(Len(data') + 1) /\ data' \in Bytes
  BY <1>3
<1>6. CASE stack' = Below
  <2>1. Len(stack') < pos'
    BY <1>1, <1>3, <1>6
  <2> QED
    BY <1>2, <1>4, <1>5, <1>6, <2>1, QuietStep
<1>7. CASE stack' = Append(Below, frame)
  <2>1. stack' \in Seq(S \cup {frame})
    BY <1>2, <1>7, SeqMonotonic, AppendProperties
  <2>0. Len(stack) \in Nat /\ Len(stack) - 1 \in Nat /\ (Len(stack) - 1) + 1 = Len(stack)
    BY <1>1
  <2>2. /\ Len(stack') = Len(stack)
        /\ \A i \in 1..(Len(stack) - 1) : stack'[i] = Below[i]
        /\ stack'[Len(stack)] = frame
    <3>1. /\ Len(stack') = Len(Below) + 1
          /\ \A i \in 1..Len(Below) : stack'[i] = Below[i]
          /\ stack'[Len(Below) + 1] = frame
      BY <1>2, <1>7, AppendProperties
    <3>2. Len(Below) = Len(stack) - 1 /\ Len(Below) + 1 = Len(stack)
      BY <1>1, <2>0
    <3> QED
      BY <3>1, <3>2, Zenon
  <2>5. DOMAIN stack' = 1..Len(stack)
    BY <2>1, <2>2
  <2>3. Len(stack') < pos'
    BY <1>3, <2>0, <2>2
  <2>4. \A i \in DOMAIN stack' : stack'[i].in # "reference"
    <3>1. ASSUME NEW i \in DOMAIN stack' PROVE i \in 1..(Len(stack) - 1) \/ i = Len(stack)
      <4>1. i \in 1..Len(stack)
        BY <2>5, Zenon
      <4> QED
        BY <2>0, <4>1
    <3> QED
      BY <1>1, <1>4, <2>2, <3>1
  <2> QED
    BY <1>5, <2>1, <2>3, <2>4, QuietStep
<1> QED
  BY <1>6, <1>7

\* The same calls wait, and a value has come back.
LEMMA ValueCame ==
    ASSUME IInv, stack' = stack, data' = data, pos' \in pos..(Len(data) + 1), ret' # Nothing
    PROVE  IInv'
<1>1. Len(data) \in Nat /\ pos \in 1..(Len(data) + 1) /\ data \in Bytes /\ Len(stack) < pos
  BY DEF IInv, DataInv, StackInv, Bytes
<1>2. DataInv' /\ DigitIsNext'
  BY <1>1 DEF DataInv, DigitIsNext
<1>3. PICK S : stack \in Seq(S)
  BY DEF IInv, StackInv
<1>4. Len(stack) \in Nat /\ Len(stack') < pos'
  BY <1>1, <1>3
<1>5. ASSUME NEW i \in DOMAIN stack', Waits(i)'
      PROVE  Attempt(i)' /\ Nested(i)' /\ TextOfWait(i)'
  <2>1. i \in DOMAIN stack /\ Waits(i)
    BY <1>5 DEF Waits
  <2>2. Attempt(i) /\ Nested(i) /\ TextOfWait(i)
    BY <2>1 DEF IInv, StackInv
  <2>3. Attempt(i)'
    BY <1>1, <2>2 DEF Attempt
  <2>4. Nested(i)'
    BY <2>2 DEF Nested, Waits
  <2>5. TextOfWait(i)'
    <3>1. CASE i < Len(stack)
      BY <2>2, <3>1 DEF TextOfWait, EndOfWait
    <3>2. CASE ~(i < Len(stack))
      <4>1. EndOfWait(i)' = stack[i].saved
        BY <3>2 DEF EndOfWait
      <4>2. stack[i].saved \in Nat
        BY <2>2 DEF Attempt
      <4> QED
        BY <4>1, <4>2 DEF TextOfWait
    <3> QED
      BY <3>1, <3>2
  <2> QED
    BY <2>3, <2>4, <2>5
<1> QED
  BY <1>2, <1>3, <1>4, <1>5 DEF IInv, StackInv

\* The innermost attempt has ended, at a place that is not before the one it could go
\* back to.
LEMMA AttemptEnds ==
    ASSUME IInv, stack # <<>>, Waits(Len(stack)), data' = data, stack' = Below, ret' # Nothing,
           pos' \in stack[Len(stack)].saved..(Len(data) + 1)
    PROVE  IInv'
<1> DEFINE n == Len(stack)
<1>1. /\ n \in Nat \ {0}
      /\ DOMAIN stack = 1..n
      /\ Len(Below) = n - 1
      /\ DOMAIN Below = 1..(n - 1)
      /\ \A i \in 1..(n - 1) : Below[i] = stack[i]
  BY BelowProperties DEF IInv
<1>2. \E S : stack' \in Seq(S)
  BY BelowProperties DEF IInv
<1>3. Len(data) \in Nat /\ data \in Bytes
  BY DEF IInv, DataInv, Bytes
<1>4. n \in DOMAIN stack /\ Attempt(n)
  BY <1>1 DEF IInv, StackInv
<1>5. stack[n].saved \in Nat /\ n < stack[n].saved
  BY <1>4 DEF Attempt
<1> HIDE DEF n
<1>6. DataInv'
  BY <1>1, <1>3, <1>5 DEF DataInv, n
<1>7. DigitIsNext'
  BY DEF DigitIsNext
<1>8. Len(stack') < pos'
  BY <1>1, <1>3, <1>5 DEF n
<1>9. ASSUME NEW i \in DOMAIN stack', Waits(i)'
      PROVE  Attempt(i)' /\ Nested(i)' /\ TextOfWait(i)'
  <2>1. i \in 1..(n - 1) /\ i \in DOMAIN stack /\ stack'[i] = stack[i]
    BY <1>1, <1>9
  <2>2. Waits(i)
    BY <1>9, <2>1 DEF Waits
  <2>3. Attempt(i) /\ Nested(i) /\ TextOfWait(i)
    BY <2>1, <2>2 DEF IInv, StackInv
  <2>4. stack[i].saved \in Nat /\ i < stack[i].saved /\ stack[i].number # Nothing
    BY <2>3 DEF Attempt
  <2>5. n \in i..n
    BY <1>1, <2>1
  <2>6. stack[i].saved <= stack[n].saved
    BY <2>3, <2>5 DEF Nested, n
  <2>7. stack[i].saved <= pos'
    BY <1>3, <1>5, <2>4, <2>6 DEF n
  <2>8. Attempt(i)'
    BY <2>1, <2>4, <2>7 DEF Attempt
  <2>9. Nested(i)'
    <3>1. ASSUME NEW j \in i..(n - 1)
          PROVE  Waits(j) /\ stack[i].saved <= stack[j].saved /\ stack'[j] = stack[j]
      <4>1. j \in i..n /\ j \in 1..(n - 1)
        BY <1>1, <2>1
      <4> QED
        BY <1>1, <2>3, <4>1 DEF Nested, n
    <3>2. \A j \in i..(n - 1) : stack'[j].in = "reference" /\ stack[i].saved <= stack'[j].saved
      BY <3>1 DEF Waits
    <3>3. Len(stack') = n - 1
      BY <1>1
    <3> QED
      BY <2>1, <3>2, <3>3 DEF Nested, Waits
  <2>10. TextOfWait(i)'
    <3>1. Len(stack') = n - 1
      BY <1>1
    <3>2. CASE i < n - 1
      <4>1. i + 1 \in 1..(n - 1)
        BY <1>1, <2>1, <3>2
      <4>2. stack'[i + 1] = stack[i + 1]
        BY <1>1, <4>1
      <4>3. EndOfWait(i)' = stack[i + 1].saved
        BY <3>1, <3>2, <4>2 DEF EndOfWait
      <4>4. EndOfWait(i) = stack[i + 1].saved
        BY <1>1, <2>1, <3>2 DEF EndOfWait, n
      <4> QED
        BY <2>1, <2>3, <4>3, <4>4 DEF TextOfWait
    <3>3. CASE ~(i < n - 1)
      <4>1. EndOfWait(i)' = stack[i].saved
        BY <2>1, <3>1, <3>3 DEF EndOfWait
      <4> QED
        BY <2>1, <2>4, <4>1 DEF TextOfWait
    <3> QED
      BY <3>2, <3>3
  <2> QED
    BY <2>8, <2>9, <2>10
<1> QED
  BY <1>2, <1>6, <1>7, <1>8, <1>9 DEF IInv, StackInv

\* A further attempt starts inside the last one.
LEMMA AttemptStarts ==
    ASSUME IInv, TryReference
    PROVE  /\ IInv'
           /\ Len(stack') = Len(stack) + 1
           /\ \A i \in 1..Len(stack) : stack'[i] = stack[i]
           /\ stack'[Len(stack) + 1].in = "reference"
           /\ stack'[Len(stack) + 1].saved > pos
           /\ pos' > pos
           /\ ret' = Nothing
<1>1. PICK r \in NumberAt(data, Place) :
         /\ At(data, SkipWhitespace(data, r.end)) \in Digits
         /\ Call(InReference(r.value, r.end), SkipWhitespace(data, r.end))
  BY DEF TryReference
<1> DEFINE next == SkipWhitespace(data, r.end)
           frame == InReference(r.value, r.end)
<1>2. PICK S : stack \in Seq(S)
  BY DEF IInv, StackInv
<1>0. PICK n \in Nat : n = Len(stack)
  BY <1>2
<1>3. Len(data) \in Nat /\ pos \in 1..(Len(data) + 1) /\ data \in Bytes /\ n < pos
  BY <1>0, <1>2 DEF IInv, DataInv, StackInv, Bytes
<1>4. Place \in pos..(Len(data) + 1) /\ Place \in 1..(Len(data) + 1)
  BY <1>3, PlaceIsNext DEF IInv
<1>5. /\ r.end \in (Place + 1)..(Len(data) + 1)
      /\ r.value # Nothing
      /\ data[Place] \in Digits => \A q \in Place..(r.end - 1) : data[q] \in Digits \cup {Dot}
  BY <1>3, <1>4, NumberReading
<1>6. r.end \in 1..(Len(data) + 1)
  BY <1>3, <1>4, <1>5
<1>7. next \in r.end..(Len(data) + 1) /\ \A q \in r.end..(next - 1) : data[q] \in White
  BY <1>3, <1>6, EndOfRunPlace DEF SkipWhitespace
<1>8. next \in 1..Len(data) /\ data[next] \in Digits
  <2>1. At(data, next) \in Digits
    BY <1>1
  <2>2. At(data, next) # NoByte
    BY <2>1 DEF Digits, NoByte
  <2> QED
    BY <2>1, <2>2 DEF At
<1>9. /\ frame.in = "reference"
      /\ frame.saved = r.end
      /\ frame.number = r.value
  BY DEF InReference
<1>10. /\ stack' = Append(stack, frame)
       /\ pos' = next
       /\ data' = data
       /\ ret' = Nothing
  BY <1>1 DEF Call, TryReference, Calls
<1> HIDE DEF next, frame
<1>11. stack' \in Seq(S \cup {frame})
  BY <1>2, <1>10, SeqMonotonic, AppendProperties
<1>12. /\ Len(stack') = n + 1
       /\ \A i \in 1..n : stack'[i] = stack[i]
       /\ stack'[n + 1] = frame
       /\ DOMAIN stack = 1..n
  BY <1>0, <1>2, <1>10, AppendProperties
<1>13. DOMAIN stack' = 1..(n + 1)
  BY <1>11, <1>12
<1>14. DataInv' /\ DigitIsNext'
  BY <1>3, <1>8, <1>10 DEF DataInv, DigitIsNext
<1>15. n + 1 < r.end /\ r.end <= next /\ pos < r.end /\ n + 1 < pos'
  BY <1>3, <1>4, <1>5, <1>7, <1>10
<1>16. ASSUME NEW i \in 1..n, Waits(i)
       PROVE  Attempt(i)' /\ Nested(i)' /\ TextOfWait(i)'
  <2>1. ~Quiet /\ i \in DOMAIN stack
    BY <1>12, <1>16 DEF Quiet
  <2>2. pos <= Len(data) /\ data[pos] \in Digits
    BY <1>16, <2>1 DEF IInv, DigitIsNext, TryReference, Calls
  <2>3. Place = pos
    BY <2>2, PlaceIsNext DEF IInv
  <2>4. \A q \in pos..(r.end - 1) : data[q] \in Digits \cup {Dot}
    BY <1>5, <2>2, <2>3
  <2>5. Attempt(i) /\ Nested(i) /\ TextOfWait(i)
    BY <1>16, <2>1 DEF IInv, StackInv
  <2>6. /\ stack[i].saved \in Nat
        /\ i < stack[i].saved
        /\ stack[i].saved <= pos
        /\ stack[i].number # Nothing
    BY <2>5 DEF Attempt
  <2>7. stack'[i] = stack[i]
    BY <1>12
  <2>8. stack[i].saved <= pos' /\ stack[i].saved <= r.end
    BY <1>3, <1>5, <1>7, <1>10, <1>15, <2>6
  <2>9. Attempt(i)'
    BY <2>6, <2>7, <2>8 DEF Attempt
  <2>10. Nested(i)'
    <3>1. ASSUME NEW j \in i..(n + 1)
          PROVE  stack'[j].in = "reference" /\ stack[i].saved <= stack'[j].saved
      <4>1. CASE j = n + 1
        BY <1>9, <1>12, <2>8, <4>1
      <4>2. CASE j # n + 1
        <5>1. j \in i..n /\ j \in 1..n
          BY <1>3, <4>2
        <5> QED
          BY <1>0, <1>12, <2>5, <5>1 DEF Nested, Waits
      <4> QED
        BY <4>1, <4>2
    <3> QED
      BY <1>12, <2>7, <3>1 DEF Nested, Waits
  <2>11. TextOfWait(i)'
    <3>1. CASE i < n
      <4>1. i + 1 \in 1..n /\ i < n + 1
        BY <1>3, <3>1
      <4>2. EndOfWait(i)' = stack[i + 1].saved
        BY <1>12, <4>1 DEF EndOfWait
      <4>3. EndOfWait(i) = stack[i + 1].saved
        BY <1>0, <3>1 DEF EndOfWait
      <4> QED
        BY <1>10, <2>5, <2>7, <4>2, <4>3 DEF TextOfWait
    <3>2. CASE ~(i < n)
      <4>1. i = n
        BY <1>3, <3>2
      <4>2. EndOfWait(i)' = r.end
        <5>1. i < Len(stack')
          BY <1>3, <1>12
        <5>2. EndOfWait(i)' = stack'[i + 1].saved
          BY <5>1 DEF EndOfWait
        <5> QED
          BY <1>9, <1>12, <4>1, <5>2
      <4>3. EndOfWait(i) = pos
        BY <1>0, <3>2 DEF EndOfWait, TryReference, Calls
      <4>4. \A p \in stack[i].saved..(pos - 1) : data[p] \in White \cup Digits \cup {Dot}
        BY <2>5, <4>3 DEF TextOfWait
      <4>5. ASSUME NEW p \in stack[i].saved..(r.end - 1)
            PROVE  p \in stack[i].saved..(pos - 1) \/ p \in pos..(r.end - 1)
        BY <1>3, <1>6, <2>6
      <4>6. \A p \in stack[i].saved..(r.end - 1) : data[p] \in White \cup Digits \cup {Dot}
        BY <2>4, <4>4, <4>5
      <4> QED
        BY <1>10, <2>7, <4>2, <4>6 DEF TextOfWait
    <3> QED
      BY <3>1, <3>2
  <2> QED
    BY <2>9, <2>10, <2>11
<1>17. Attempt(n + 1)' /\ Nested(n + 1)' /\ TextOfWait(n + 1)'
  <2>1. Attempt(n + 1)'
    BY <1>5, <1>6, <1>9, <1>10, <1>12, <1>15 DEF Attempt
  <2>2. \A j \in (n + 1)..(n + 1) : j = n + 1
    BY <1>3
  <2>3. r.end <= r.end
    BY <1>6
  <2>4. Nested(n + 1)'
    BY <1>9, <1>12, <2>2, <2>3 DEF Nested, Waits
  <2>5. EndOfWait(n + 1)' = next
    <3>1. ~(n + 1 < Len(stack'))
      BY <1>3, <1>12
    <3> QED
      BY <1>10, <3>1 DEF EndOfWait
  <2>6. TextOfWait(n + 1)'
    BY <1>7, <1>9, <1>10, <1>12, <2>5 DEF TextOfWait
  <2> QED
    BY <2>1, <2>4, <2>6
<1>18. ASSUME NEW i \in DOMAIN stack', Waits(i)'
       PROVE  Attempt(i)' /\ Nested(i)' /\ TextOfWait(i)'
  <2>1. i \in 1..n \/ i = n + 1
    <3>1. i \in 1..(n + 1)
      BY <1>13, Zenon
    <3> QED
      BY <1>3, <3>1
  <2>2. CASE i \in 1..n
    <3>1. Waits(i)
      BY <1>12, <1>18, <2>2 DEF Waits
    <3> QED
      BY <1>16, <2>2, <3>1
  <2>3. CASE i = n + 1
    BY <1>17, <2>3, Zenon
  <2> QED
    BY <2>1, <2>2, <2>3
<1>19. Len(stack') < pos'
  BY <1>12, <1>15
<1>20. IInv'
  BY <1>11, <1>14, <1>18, <1>19 DEF IInv, StackInv
<1>21. /\ Len(stack') = Len(stack) + 1
       /\ \A i \in 1..Len(stack) : stack'[i] = stack[i]
       /\ stack'[Len(stack) + 1].in = "reference"
       /\ stack'[Len(stack) + 1].saved = r.end
  <2>1. stack'[n + 1].in = "reference" /\ stack'[n + 1].saved = r.end
    BY <1>9, <1>12
  <2> QED
    BY <1>0, <1>12, <2>1, Zenon
<1>22. r.end > pos /\ pos' > pos
  <2>1. r.end \in Nat /\ next \in Nat
    BY <1>3, <1>6, <1>7
  <2> QED
    BY <1>3, <1>10, <1>15, <2>1
<1> QED
  BY <1>10, <1>20, <1>21, <1>22

-----------------------------------------------------------------------------
(***************************************************************************)
(* Steps                                                                   *)
(***************************************************************************)

\* While an attempt is under way the next value is a number, and nothing else.
LEMMA NumberIsNext ==
    ASSUME IInv, Calls, ~Quiet
    PROVE  Place = pos /\ pos \in 1..Len(data) /\ data[pos] \in Digits
<1>1. pos <= Len(data) /\ data[pos] \in Digits
  BY DEF IInv, DigitIsNext, Calls, Quiet
<1>2. pos \in 1..Len(data)
  BY <1>1 DEF IInv, DataInv, Bytes
<1> QED
  BY <1>1, <1>2, PlaceIsNext DEF IInv

\* A step that leaves what is read for good.
Consumes == Quiet /\ Quiet' /\ pos < pos'

LEMMA ReadOther ==
    ASSUME IInv,
           ReadAnyOf(KeywordAt(data, Place) \cup NameAt(data, Place) \cup StringAt(data, Place)
                         \cup HexStringAt(data, Place))
    PROVE  IInv' /\ Consumes
<1>1. PICK r \in KeywordAt(data, Place) \cup NameAt(data, Place) \cup StringAt(data, Place)
                     \cup HexStringAt(data, Place) :
         Return(r.value, r.end)
  BY DEF ReadAnyOf
<1>2. Len(data) \in Nat /\ pos \in 1..(Len(data) + 1) /\ data \in Bytes /\ Len(stack) < pos
  BY DEF IInv, DataInv, StackInv, Bytes
<1>3. Place \in pos..(Len(data) + 1) /\ Place \in 1..(Len(data) + 1)
  BY <1>2, PlaceIsNext DEF IInv
<1>4. /\ r.end \in (Place + 1)..(Len(data) + 1)
      /\ data[Place] \notin Digits
  BY <1>2, <1>3, OtherReadings
<1>5. Quiet
  BY <1>4, NumberIsNext DEF ReadAnyOf
<1>6. data' = data /\ stack' = stack /\ pos' = r.end
  BY <1>1 DEF Return
<1>7. PICK S : stack \in Seq(S)
  BY DEF IInv, StackInv
<1>8. Len(stack) \in Nat
  BY <1>7
<1>9. Len(stack') < pos' /\ pos' \in 1..(Len(data') + 1)
  BY <1>2, <1>3, <1>4, <1>6, <1>8
<1>10. pos < pos'
  BY <1>2, <1>3, <1>4, <1>6
<1>11. IInv' /\ Quiet'
  BY <1>2, <1>5, <1>6, <1>7, <1>9, QuietStep DEF Quiet, Waits
<1> QED
  BY <1>5, <1>10, <1>11 DEF Consumes

LEMMA ReadNumberStep ==
    ASSUME IInv, ReadNumber
    PROVE  IInv' /\ stack' = stack /\ pos < pos' /\ ret' # Nothing
<1>1. PICK r \in NumberAt(data, Place) :
         Return(r.value, IF SkipWhitespace(data, r.end) > Len(data)
                         THEN SkipWhitespace(data, r.end) ELSE r.end)
  BY DEF ReadNumber
<1>2. Len(data) \in Nat /\ pos \in 1..(Len(data) + 1) /\ data \in Bytes
  BY DEF IInv, DataInv, Bytes
<1>3. Place \in pos..(Len(data) + 1) /\ Place \in 1..(Len(data) + 1)
  BY <1>2, PlaceIsNext DEF IInv
<1>4. r.end \in (Place + 1)..(Len(data) + 1) /\ r.value # Nothing
  BY <1>2, <1>3, NumberReading
<1>5. r.end \in 1..(Len(data) + 1) /\ r.end \in pos..(Len(data) + 1)
  BY <1>2, <1>3, <1>4
<1>6. SkipWhitespace(data, r.end) \in r.end..(Len(data) + 1)
  BY <1>2, <1>5, EndOfRunPlace DEF SkipWhitespace
<1>7. SkipWhitespace(data, r.end) \in pos..(Len(data) + 1)
  BY <1>2, <1>5, <1>6
<1>8. pos' = SkipWhitespace(data, r.end) \/ pos' = r.end
  BY <1>1 DEF Return
<1>9. pos' \in pos..(Len(data) + 1)
  BY <1>5, <1>7, <1>8
<1>10. data' = data /\ stack' = stack /\ ret' = r.value
  BY <1>1 DEF Return
<1>11. pos < pos'
  BY <1>2, <1>3, <1>4, <1>6, <1>8
<1> QED
  BY <1>4, <1>9, <1>10, <1>11, ValueCame

\* Only what starts without a digit opens a bracket.
LEMMA Open == ASSUME IInv, OpenArray \/ OpenDictionary PROVE IInv' /\ Consumes
<1>1. Len(data) \in Nat /\ pos \in 1..(Len(data) + 1) /\ data \in Bytes
  BY DEF IInv, DataInv, Bytes
<1>2. Place \in pos..(Len(data) + 1)
  BY PlaceIsNext DEF IInv
<1>3. CASE OpenArray
  <2>1. At(data, Place) = LeftBracket
    BY <1>3 DEF OpenArray, StartsArray
  <2>2. Place \in 1..Len(data) /\ data[Place] = LeftBracket
    BY <2>1 DEF At, NoByte, LeftBracket
  <2>3. Quiet
    BY <1>3, <2>2, NumberIsNext DEF OpenArray, LeftBracket, Digits
  <2>4. Place + 1 \in (pos + 1)..(Len(data) + 1)
    BY <1>1, <1>2, <2>2
  <2>5. InArray(<<>>).in # "reference"
    BY DEF InArray
  <2> QED
    BY <1>1, <1>3, <2>3, <2>4, <2>5, QuietCall DEF OpenArray, Call, Consumes
<1>4. CASE OpenDictionary
  <2>1. At(data, Place) = Less /\ At(data, Place + 1) = Less
    BY <1>4 DEF OpenDictionary, StartsDictionary
  <2>2. Place \in 1..Len(data) /\ data[Place] = Less /\ Place + 1 \in 1..Len(data)
    BY <2>1 DEF At, NoByte, Less
  <2>3. Quiet
    BY <1>4, <2>2, NumberIsNext DEF OpenDictionary, Less, Digits
  <2>4. Place + 2 \in (pos + 1)..(Len(data) + 1)
    BY <1>1, <1>2, <2>2
  <2>5. InDictionary(<<>>, EmptyMap).in # "reference"
    BY DEF InDictionary
  <2> QED
    BY <1>1, <1>4, <2>3, <2>4, <2>5, QuietCall DEF OpenDictionary, Call, Consumes
<1> QED
  BY <1>3, <1>4

\* Nothing but an attempt is the innermost call while one is under way.
LEMMA TopIsQuiet ==
    ASSUME IInv, stack # <<>>, Top.in # "reference"
    PROVE  Quiet
BY TopWaits DEF IInv

LEMMA Close == ASSUME IInv, CloseArray \/ CloseDictionary PROVE IInv' /\ Consumes
<1>1. Len(data) \in Nat /\ pos \in 1..(Len(data) + 1) /\ data \in Bytes
  BY DEF IInv, DataInv, Bytes
<1>2. Place \in pos..(Len(data) + 1)
  BY PlaceIsNext DEF IInv
<1>3. Top.in \in {"array", "dictionary"}
  BY DEF CloseArray, CloseDictionary
<1>4. stack # <<>> /\ Top.in # "reference"
  BY <1>3 DEF Top
<1>5. Quiet
  BY <1>4, TopIsQuiet
<1>6. data' = data /\ stack' = Below /\ pos' \in {Place + 1, Place + 2}
  BY DEF CloseArray, CloseDictionary, ReturnFromCall
<1>7. pos' \in pos..(Len(data) + 1)
  <2>1. CASE CloseArray
    <3>1. At(data, Place) = RightBracket /\ pos' = Place + 1
      BY <2>1 DEF CloseArray, EndsArray, ReturnFromCall
    <3>2. Place \in 1..Len(data)
      BY <3>1 DEF At, NoByte, RightBracket
    <3> QED
      BY <1>1, <1>2, <3>1, <3>2
  <2>2. CASE CloseDictionary
    <3>1. At(data, Place + 1) = Greater /\ pos' = Place + 2
      BY <2>2 DEF CloseDictionary, EndsDictionary, ReturnFromCall
    <3>2. Place + 1 \in 1..Len(data)
      BY <3>1 DEF At, NoByte, Greater
    <3> QED
      BY <1>1, <1>2, <3>1, <3>2
  <2> QED
    BY <2>1, <2>2
<1>8. InArray(<<>>).in # "reference"
  BY DEF InArray
<1>9. pos < pos'
  BY <1>1, <1>2, <1>6
<1> QED
  BY <1>4, <1>5, <1>6, <1>7, <1>8, <1>9, QuietReturn DEF Consumes

LEMMA Take ==
    ASSUME IInv, TakeItem \/ TakeKey \/ TakeValue
    PROVE  IInv' /\ Quiet /\ Quiet' /\ pos' = pos /\ ret' = Nothing
<1>1. Len(data) \in Nat /\ pos \in 1..(Len(data) + 1) /\ data \in Bytes
  BY DEF IInv, DataInv, Bytes
<1>2. Top.in \in {"array", "dictionary"}
  BY DEF TakeItem, TakeKey, TakeValue
<1>3. stack # <<>> /\ Top.in # "reference"
  BY <1>2 DEF Top
<1>4. Quiet
  BY <1>3, TopIsQuiet
<1>5. ASSUME NEW frame, frame.in # "reference", Continue(frame)
      PROVE  IInv' /\ Quiet' /\ pos' = pos /\ ret' = Nothing
  <2>1. data' = data /\ pos' = pos /\ ret' = Nothing /\ stack' = Append(Below, frame)
    BY <1>5 DEF Continue
  <2>2. pos' \in pos..(Len(data) + 1)
    BY <1>1, <2>1
  <2> QED
    BY <1>3, <1>4, <1>5, <2>1, <2>2, QuietReturn
<1>6. \A items : InArray(items).in # "reference"
  BY DEF InArray
<1>7. \A key, dict : InDictionary(key, dict).in # "reference"
  BY DEF InDictionary
<1> QED
  BY <1>4, <1>5, <1>6, <1>7 DEF TakeItem, TakeKey, TakeValue

\* Where no attempt is under way an error ends the parse.
LEMMA QuietRaise ==
    ASSUME IInv, Quiet, Raise
    PROVE  status' = "err" /\ UNCHANGED <<data, pos, stack, ret>>
BY DEF Raise, Quiet, Waits

\* Nothing can go wrong inside an attempt.
LEMMA Reject ==
    ASSUME IInv, RejectObject \/ RejectKey
    PROVE  status' = "err" /\ UNCHANGED <<data, pos, stack, ret>>
<1>1. CASE RejectObject
  <2>1. ASSUME ~Quiet
        PROVE  FALSE
    <3>1. Place = pos /\ pos \in 1..Len(data) /\ data[pos] \in Digits
      BY <1>1, <2>1, NumberIsNext DEF RejectObject
    <3>2. At(data, pos) = data[pos]
      BY <3>1, AtByte DEF IInv, DataInv
    <3>3. data[pos] \notin {Minus, Plus}
      BY <3>1 DEF Digits, Minus, Plus
    <3>4. PastSign(data, pos) = pos
      BY <3>2, <3>3 DEF PastSign
    <3>5. data \in Bytes /\ Len(data) \in Nat /\ pos \in 1..(Len(data) + 1)
      BY DEF IInv, DataInv, Bytes
    <3> DEFINE point == EndOfRun(data, pos, Digits)
               e == EndOfNumber(data, pos)
    <3>6. /\ point \in pos..(Len(data) + 1)
          /\ point <= Len(data) => data[point] \notin Digits
      BY <3>5, EndOfRunPlace
    <3>7. point > pos
      BY <3>1, <3>5, <3>6
    <3>8. e = IF At(data, point) = Dot THEN EndOfRun(data, point + 1, Digits) ELSE point
      BY <3>4, Zenon DEF EndOfNumber
    <3> HIDE DEF point
    <3>9. ASSUME At(data, point) = Dot
          PROVE  e > pos
      <4>1. point \in 1..Len(data)
        BY <3>9 DEF At, Dot, NoByte
      <4>2. point + 1 \in 1..(Len(data) + 1)
        BY <3>5, <4>1
      <4>3. e \in (point + 1)..(Len(data) + 1)
        BY <3>5, <3>8, <3>9, <4>2, EndOfRunPlace
      <4> QED
        BY <3>5, <3>7, <4>1, <4>3
    <3>10. e > pos
      BY <3>7, <3>8, <3>9
    <3> HIDE DEF e
    <3>11. e \in pos..(Len(data) + 1)
      BY <3>1, <3>5, EndOfNumberPlace DEF e
    <3>12. IsNumber(data, pos, e)
      <4>1. pos \in pos..(e - 1)
        BY <3>5, <3>10, <3>11
      <4> QED
        BY <3>1, <4>1 DEF IsNumber
    <3>13. At(data, pos) \in NumberStart
      BY <3>1, <3>2 DEF NumberStart
    <3>14. Reading(NumberFrom(Text(data, pos, e)), e) \in NumberAt(data, pos)
      BY <3>12, <3>13 DEF NumberAt, e
    <3>15. StartsObject(data, pos)
      BY <3>14, Zenon DEF StartsObject
    <3> QED
      BY <1>1, <3>1, <3>15 DEF RejectObject
  <2> QED
    BY <1>1, <2>1, QuietRaise DEF RejectObject
<1>2. CASE RejectKey
  <2>1. Top.in = "dictionary"
    BY <1>2 DEF RejectKey
  <2>2. stack # <<>> /\ Top.in # "reference"
    BY <2>1 DEF Top
  <2> QED
    BY <1>2, <2>2, TopIsQuiet, QuietRaise DEF RejectKey
<1> QED
  BY <1>1, <1>2

\* The innermost attempt takes its first number for all there is.
LEMMA RaiseInAttempt ==
    ASSUME StackInv, stack # <<>>, Waits(Len(stack)), Raise
    PROVE  /\ data' = data
           /\ pos' = stack[Len(stack)].saved
           /\ ret' = stack[Len(stack)].number
           /\ stack' = Below
<1> DEFINE waiting == {i \in DOMAIN stack : stack[i].in = "reference"}
           w == Max(waiting)
<1>0. Len(stack) \in Nat \ {0} /\ DOMAIN stack = 1..Len(stack) /\ Len(stack) \in DOMAIN stack
  BY BelowProperties
<1>1. Len(stack) \in waiting
  BY <1>0 DEF Waits
<1>2. \A i \in waiting : i \in Nat /\ Len(stack) >= i
  BY <1>0
<1>3. \A x \in waiting : (\A y \in waiting : x >= y) => x = Len(stack)
  BY <1>0, <1>1, <1>2
<1> HIDE DEF waiting
<1>4. w = Len(stack)
  BY <1>1, <1>2, <1>3, Zenon DEF Max
<1> HIDE DEF w
<1>5. /\ pos' = stack[w].saved
      /\ ret' = stack[w].number
      /\ stack' = SubSeq(stack, 1, w - 1)
      /\ data' = data
  BY <1>1, Zenon DEF Raise, waiting, w
<1> QED
  BY <1>4, <1>5 DEF Below

LEMMA EndOfAttempt ==
    ASSUME IInv, TakeGeneration \/ GiveUpTheReference
    PROVE  /\ IInv'
           /\ stack # <<>> /\ Waits(Len(stack))
           /\ stack' = Below
           /\ pos' >= stack[Len(stack)].saved
           /\ ret' # Nothing
<1>1. Len(data) \in Nat /\ pos \in 1..(Len(data) + 1) /\ data \in Bytes
  BY DEF IInv, DataInv, Bytes
<1>2. Top.in = "reference"
  BY DEF TakeGeneration, GiveUpTheReference
<1>3. stack # <<>>
  BY <1>2 DEF Top
<1>4. Top = stack[Len(stack)]
  BY <1>3 DEF Top
<1>5. Waits(Len(stack))
  BY <1>2, <1>4 DEF Waits
<1>6. Len(stack) \in Nat \ {0} /\ DOMAIN stack = 1..Len(stack) /\ Len(stack) \in DOMAIN stack
  BY <1>3, BelowProperties DEF IInv
<1>7. Attempt(Len(stack))
  BY <1>5, <1>6 DEF IInv, StackInv
<1>8. /\ stack[Len(stack)].saved \in Nat
      /\ stack[Len(stack)].saved <= pos
      /\ stack[Len(stack)].number # Nothing
  BY <1>7 DEF Attempt
<1>9. CASE TakeGeneration
  <2>1. At(data, AfterGeneration) = 82
    BY <1>9 DEF TakeGeneration, IsGeneration
  <2>2. AfterGeneration \in 1..Len(data)
    BY <2>1 DEF At, NoByte
  <2>3. AfterGeneration \in pos..(Len(data) + 1)
    BY <1>1, EndOfRunPlace DEF AfterGeneration, SkipWhitespace
  <2>4. /\ pos' = AfterGeneration + 1
        /\ data' = data
        /\ stack' = Below
        /\ ret' = Reference(<<Saturated(Top.number, MaxObject), Saturated(ret, MaxGeneration)>>)
    BY <1>9 DEF TakeGeneration, ReturnFromCall
  <2>5. ret'.kind = "Reference"
    BY <2>4 DEF Reference
  <2>6. ret' # Nothing
    BY <2>5 DEF Nothing
  <2>7. pos' \in stack[Len(stack)].saved..(Len(data) + 1)
    BY <1>1, <1>8, <2>2, <2>3, <2>4
  <2> QED
    BY <1>1, <1>3, <1>5, <1>8, <2>4, <2>6, <2>7, AttemptEnds
<1>10. CASE GiveUpTheReference
  <2>1. /\ data' = data
        /\ pos' = stack[Len(stack)].saved
        /\ ret' = stack[Len(stack)].number
        /\ stack' = Below
    BY <1>3, <1>5, <1>10, RaiseInAttempt DEF IInv, GiveUpTheReference
  <2>2. pos' \in stack[Len(stack)].saved..(Len(data) + 1)
    BY <1>1, <1>8, <2>1
  <2> QED
    BY <1>1, <1>3, <1>5, <1>8, <2>1, <2>2, AttemptEnds
<1> QED
  BY <1>9, <1>10

LEMMA NothingChanges == ASSUME IInv, UNCHANGED <<data, pos, stack, ret>> PROVE IInv'
<1>1. data' = data /\ pos' = pos /\ stack' = stack /\ ret' = ret
  OBVIOUS
<1>2. DataInv' /\ DigitIsNext'
  BY <1>1 DEF IInv, DataInv, DigitIsNext, Waits
<1>3. StackInv'
  BY <1>1 DEF IInv, StackInv, Waits, Attempt, Nested, TextOfWait, EndOfWait
<1> QED
  BY <1>2, <1>3 DEF IInv

LEMMA StepInv == ASSUME IInv, [Next]_vars PROVE IInv'
<1>1. CASE ReadKeyword \/ ReadName \/ ReadString \/ ReadHexString
  BY <1>1, ReadOther DEF ReadKeyword, ReadName, ReadString, ReadHexString, ReadAnyOf
<1>2. CASE ReadNumber
  BY <1>2, ReadNumberStep
<1>3. CASE TryReference
  BY <1>3, AttemptStarts
<1>4. CASE OpenArray \/ OpenDictionary
  BY <1>4, Open
<1>5. CASE CloseArray \/ CloseDictionary
  BY <1>5, Close
<1>6. CASE RejectObject \/ RejectKey
  BY <1>6, Reject, NothingChanges
<1>7. CASE TakeItem \/ TakeKey \/ TakeValue
  BY <1>7, Take
<1>8. CASE TakeGeneration \/ GiveUpTheReference
  BY <1>8, EndOfAttempt
<1>9. CASE Finish
  BY <1>9, NothingChanges DEF Finish
<1>10. CASE UNCHANGED vars
  BY <1>10, NothingChanges DEF vars
<1> QED
  BY <1>1, <1>2, <1>3, <1>4, <1>5, <1>6, <1>7, <1>8, <1>9, <1>10 DEF Next

\* For every text: while parse_reference waits for its second number, however many calls
\* deep, it has seen numbers and white space only, and the recursion is less deep than
\* the number of bytes read.
THEOREM Waiting == Spec => []OnlyNumbersWait
<1>1. Init => IInv
  BY InitInv
<1>2. IInv /\ [Next]_vars => IInv'
  BY StepInv
<1>3. IInv => OnlyNumbersWait
  BY InvImplies
<1> QED
  BY <1>1, <1>2, <1>3, PTL DEF Spec

\* For every text: an error inside an attempt at a reference is only ever that there is
\* no second number followed by an "R"; what is wrong in the text itself is reported to
\* the caller of parse_value and never swallowed by going back.
ErrorsAreReported == [][RejectObject \/ RejectKey => status' = "err"]_vars

THEOREM Errors == Spec => ErrorsAreReported
<1>1. Init => IInv
  BY InitInv
<1>2. IInv /\ [Next]_vars => IInv'
  BY StepInv
<1>3. IInv /\ [Next]_vars => [RejectObject \/ RejectKey => status' = "err"]_vars
  BY Reject
<1> QED
  BY <1>1, <1>2, <1>3, PTL DEF Spec, ErrorsAreReported

-----------------------------------------------------------------------------
(***************************************************************************)
(* Every step leaves less to be done                                       *)
(***************************************************************************)

\* The place up to which the text is read for good: that of the next byte, or the one
\* the outermost attempt can go back to.
Kept == Min({pos} \cup {stack[i].saved : i \in {j \in DOMAIN stack : Waits(j)}})

BytesAhead == IF status = "run" THEN Len(data) + 2 - Kept ELSE 0

\* Attempts start one inside the other, end one after the other, and the value that
\* they leave is taken.
TurnsAhead ==
    IF ~Quiet THEN IF ret = Nothing THEN 3 ELSE 2
    ELSE IF ret = Nothing THEN 0 ELSE 1

\* Within a turn: the bytes that further attempts can read, or the attempts to be ended.
AttemptsAhead ==
    IF Quiet THEN 0 ELSE IF ret = Nothing THEN Len(data) + 1 - pos ELSE Len(stack)

Ahead == <<BytesAhead, <<TurnsAhead, AttemptsAhead>>>>

LeavesLess == <<Ahead', Ahead>> \in LexicalLess

LEMMA KeptIsLeast ==
    ASSUME IInv
    PROVE  /\ Kept \in 1..pos
           /\ Quiet => Kept = pos
           /\ \A i \in DOMAIN stack : Waits(i) => Kept <= stack[i].saved
           /\ \A x \in Nat : /\ x <= pos
                             /\ \A i \in DOMAIN stack : Waits(i) => x <= stack[i].saved
                             => x <= Kept
<1> DEFINE S == {pos} \cup {stack[i].saved : i \in {j \in DOMAIN stack : Waits(j)}}
<1>1. pos \in Nat \ {0}
  BY DEF IInv, DataInv, Bytes
<1>2. \A i \in DOMAIN stack : Waits(i) => stack[i].saved \in Nat \ {0}
  <2>1. ASSUME NEW i \in DOMAIN stack, Waits(i) PROVE stack[i].saved \in Nat \ {0}
    <3>1. Attempt(i)
      BY <2>1 DEF IInv, StackInv
    <3>2. PICK R : stack \in Seq(R)
      BY DEF IInv, StackInv
    <3>3. i \in Nat
      BY <3>2
    <3> QED
      BY <3>1, <3>3 DEF Attempt
  <2> QED
    BY <2>1
<1>3. S \in SUBSET Nat /\ S # {} /\ pos \in S /\ 0 \notin S
  BY <1>1, <1>2
<1>4. \A i \in DOMAIN stack : Waits(i) => stack[i].saved \in S
  OBVIOUS
<1>5. \A x \in S : x = pos \/ \E i \in DOMAIN stack : Waits(i) /\ x = stack[i].saved
  OBVIOUS
<1>6. Quiet => S = {pos}
  BY DEF Quiet
<1> HIDE DEF S
<1>7. Min(S) \in S /\ \A y \in S : Min(S) <= y
  BY <1>3, MinOfNat
<1>8. Kept \in S /\ \A y \in S : Kept <= y
  BY <1>7 DEF Kept, S
<1>9. Kept \in Nat \ {0} /\ Kept <= pos
  BY <1>3, <1>8
<1>10. Kept \in 1..pos
  BY <1>1, <1>9
<1>11. Quiet => Kept = pos
  BY <1>6, <1>8
<1>12. \A i \in DOMAIN stack : Waits(i) => Kept <= stack[i].saved
  BY <1>4, <1>8
<1>13. ASSUME NEW x \in Nat, x <= pos, \A i \in DOMAIN stack : Waits(i) => x <= stack[i].saved
       PROVE  x <= Kept
  BY <1>5, <1>8, <1>13
<1> QED
  BY <1>10, <1>11, <1>12, <1>13

LEMMA AheadType ==
    ASSUME IInv
    PROVE  /\ BytesAhead \in Nat /\ TurnsAhead \in Nat /\ AttemptsAhead \in Nat
           /\ status = "run" => BytesAhead > 0
<1>1. Len(data) \in Nat /\ pos \in 1..(Len(data) + 1)
  BY DEF IInv, DataInv, Bytes
<1>2. PICK S : stack \in Seq(S)
  BY DEF IInv, StackInv
<1>3. Len(stack) \in Nat
  BY <1>2
<1>4. Kept \in 1..pos
  BY KeptIsLeast
<1>5. BytesAhead \in Nat /\ (status = "run" => BytesAhead > 0)
  BY <1>1, <1>4 DEF BytesAhead
<1>6. TurnsAhead \in Nat
  BY DEF TurnsAhead
<1>7. AttemptsAhead \in Nat
  BY <1>1, <1>3 DEF AttemptsAhead
<1> QED
  BY <1>5, <1>6, <1>7

Descends ==
    \/ BytesAhead' < BytesAhead
    \/ /\ BytesAhead' <= BytesAhead
       /\ \/ TurnsAhead' < TurnsAhead
          \/ TurnsAhead' = TurnsAhead /\ AttemptsAhead' < AttemptsAhead

\* What is read for good is not read again.
LEMMA KeptMoves ==
    ASSUME IInv, IInv', status = "run", status' = "run", data' = data
    PROVE  /\ Kept' > Kept => BytesAhead' < BytesAhead
           /\ Kept' >= Kept => BytesAhead' <= BytesAhead
<1>1. Kept \in 1..pos /\ Len(data) \in Nat /\ pos \in 1..(Len(data) + 1)
  BY KeptIsLeast DEF IInv, DataInv, Bytes
<1>2. (IInv => Kept \in 1..pos)'
  BY KeptIsLeast, PTL
<1>3. Kept' \in 1..pos' /\ pos' \in 1..(Len(data) + 1)
  BY <1>2 DEF IInv, DataInv
<1>4. BytesAhead = Len(data) + 2 - Kept /\ BytesAhead' = Len(data) + 2 - Kept'
  BY DEF BytesAhead
<1> QED
  BY <1>1, <1>3, <1>4

LEMMA ConsumingDescends ==
    ASSUME IInv, IInv', Consumes, status = "run", status' = "run", data' = data
    PROVE  Descends
<1>1. Kept = pos
  BY KeptIsLeast DEF Consumes
<1>2. (IInv /\ Quiet => Kept = pos)'
  BY KeptIsLeast, PTL
<1>3. Kept' > Kept
  BY <1>1, <1>2 DEF Consumes
<1> QED
  BY <1>3, KeptMoves DEF Descends

LEMMA StepDescends == ASSUME IInv, IInv', Next PROVE Descends
<1>1. Len(data) \in Nat /\ pos \in 1..(Len(data) + 1)
  BY DEF IInv, DataInv, Bytes
<1>2. PICK n \in Nat : n = Len(stack) /\ DOMAIN stack = 1..n
  <2>1. PICK S : stack \in Seq(S)
    BY DEF IInv, StackInv
  <2> QED
    BY <2>1
<1>3. Kept \in 1..pos
  BY KeptIsLeast
<1>4. pos' \in Nat /\ Len(data') \in Nat
  BY DEF IInv, DataInv, Bytes
<1>5. \A x \in Nat : x <= pos' /\ (\A i \in DOMAIN stack' : Waits(i)' => x <= stack'[i].saved) => x <= Kept'
  <2>1. (IInv => \A x \in Nat : /\ x <= pos
                                /\ \A i \in DOMAIN stack : Waits(i) => x <= stack[i].saved
                                => x <= Kept)'
    BY KeptIsLeast, PTL
  <2> QED
    BY <2>1
<1>0. Kept' \in Nat
  <2>1. (IInv => Kept \in 1..pos)'
    BY KeptIsLeast, PTL
  <2> QED
    BY <1>4, <2>1
<1>6. CASE ReadKeyword \/ ReadName \/ ReadString \/ ReadHexString
  <2>1. Consumes
    BY <1>6, ReadOther DEF ReadKeyword, ReadName, ReadString, ReadHexString, ReadAnyOf
  <2>2. status = "run" /\ status' = "run" /\ data' = data
    BY <1>6 DEF ReadKeyword, ReadName, ReadString, ReadHexString, ReadAnyOf, Calls, Return
  <2> QED
    BY <2>1, <2>2, ConsumingDescends
<1>7. CASE OpenArray \/ OpenDictionary \/ CloseArray \/ CloseDictionary
  <2>1. Consumes
    BY <1>7, Open, Close
  <2>2. status = "run" /\ status' = "run" /\ data' = data
    BY <1>7 DEF OpenArray, OpenDictionary, CloseArray, CloseDictionary, Calls, Call, ReturnFromCall
  <2> QED
    BY <2>1, <2>2, ConsumingDescends
<1>8. CASE ReadNumber
  <2>1. status = "run" /\ status' = "run" /\ data' = data /\ ret = Nothing
    BY <1>8 DEF ReadNumber, Calls, Return
  <2>2. stack' = stack /\ pos < pos' /\ ret' # Nothing
    BY <1>8, ReadNumberStep
  <2>3. Quiet' = Quiet
    BY <2>2 DEF Quiet, Waits
  <2>4. CASE Quiet
    BY <2>1, <2>2, <2>3, <2>4, ConsumingDescends DEF Consumes
  <2>5. CASE ~Quiet
    <3>1. Kept <= Kept'
      <4>1. \A i \in DOMAIN stack' : Waits(i)' => Kept <= stack'[i].saved
        BY <2>2, KeptIsLeast DEF Waits
      <4>2. Kept \in Nat /\ Kept <= pos'
        BY <1>1, <1>3, <1>4, <2>2
      <4> QED
        BY <1>5, <4>1, <4>2
    <3>2. TurnsAhead = 3 /\ TurnsAhead' = 2
      BY <2>1, <2>2, <2>3, <2>5 DEF TurnsAhead
    <3>3. Kept' >= Kept
      BY <1>0, <1>1, <1>3, <3>1
    <3> QED
      BY <2>1, <3>2, <3>3, KeptMoves DEF Descends
  <2> QED
    BY <2>4, <2>5
<1>9. CASE TryReference
  <2>1. status = "run" /\ status' = "run" /\ data' = data /\ ret = Nothing
    BY <1>9 DEF TryReference, Calls, Call
  <2>2. /\ Len(stack') = n + 1
        /\ \A i \in 1..n : stack'[i] = stack[i]
        /\ stack'[n + 1].in = "reference"
        /\ stack'[n + 1].saved > pos
        /\ pos' > pos
        /\ ret' = Nothing
    BY <1>2, <1>9, AttemptStarts
  <2>3. DOMAIN stack' = 1..(n + 1)
    <3>1. PICK S : stack' \in Seq(S)
      BY DEF IInv, StackInv
    <3> QED
      BY <2>2, <3>1
  <2>4. n + 1 \in DOMAIN stack' /\ ~Quiet'
    BY <2>2, <2>3 DEF Quiet, Waits
  <2>5. stack'[n + 1].saved \in Nat
    BY <2>2, <2>4 DEF IInv, StackInv, Attempt, Waits
  <2>6. ASSUME NEW i \in DOMAIN stack', Waits(i)' PROVE i = n + 1 \/ (i \in DOMAIN stack /\ Waits(i))
    <3>1. i = n + 1 \/ i \in 1..n
      BY <2>3
    <3>2. ASSUME i \in 1..n PROVE Waits(i)
      BY <2>2, <2>6, <3>2 DEF Waits
    <3> QED
      BY <1>2, <3>1, <3>2
  <2>7. CASE Quiet
    <3>1. \A i \in DOMAIN stack' : Waits(i)' => i = n + 1
      BY <2>6, <2>7 DEF Quiet
    <3>2. pos + 1 <= Kept'
      <4>1. pos + 1 \in Nat /\ pos + 1 <= pos' /\ pos + 1 <= stack'[n + 1].saved
        BY <1>1, <1>4, <2>2, <2>5
      <4> QED
        BY <1>5, <3>1, <4>1
    <3>3. Kept = pos
      BY <2>7, KeptIsLeast
    <3>4. Kept' > Kept
      BY <1>0, <1>1, <3>2, <3>3
    <3> QED
      BY <2>1, <3>4, KeptMoves DEF Descends
  <2>8. CASE ~Quiet
    <3>1. \A i \in DOMAIN stack' : Waits(i)' => Kept <= stack'[i].saved
      <4>1. ASSUME NEW i \in DOMAIN stack', Waits(i)' PROVE Kept <= stack'[i].saved
        <5>1. CASE i = n + 1
          BY <1>1, <1>3, <2>2, <2>5, <5>1
        <5>2. CASE i \in DOMAIN stack /\ Waits(i)
          BY <1>2, <2>2, <5>2, KeptIsLeast
        <5> QED
          BY <2>6, <4>1, <5>1, <5>2
      <4> QED
        BY <4>1
    <3>2. Kept \in Nat /\ Kept <= pos'
      BY <1>1, <1>3, <1>4, <2>2
    <3>3. Kept' >= Kept
      BY <1>0, <1>5, <3>1, <3>2
    <3>4. TurnsAhead = 3 /\ TurnsAhead' = 3
      BY <2>1, <2>2, <2>4, <2>8 DEF TurnsAhead
    <3>5. AttemptsAhead = Len(data) + 1 - pos /\ AttemptsAhead' = Len(data) + 1 - pos'
      BY <2>1, <2>2, <2>4, <2>8 DEF AttemptsAhead
    <3>6. AttemptsAhead' < AttemptsAhead
      BY <1>1, <1>4, <2>2, <3>5
    <3> QED
      BY <2>1, <3>3, <3>4, <3>6, KeptMoves DEF Descends
  <2> QED
    BY <2>7, <2>8
<1>10. CASE RejectObject \/ RejectKey \/ Finish
  <2>1. status = "run"
    BY <1>10 DEF RejectObject, RejectKey, Finish, Calls, Returned
  <2>2. status' # "run"
    BY <1>10, Reject DEF Finish
  <2>3. BytesAhead' = 0 /\ BytesAhead > 0 /\ BytesAhead \in Nat
    BY <2>1, <2>2, AheadType DEF BytesAhead
  <2> QED
    BY <2>3 DEF Descends
<1>11. CASE TakeItem \/ TakeKey \/ TakeValue
  <2>1. status = "run" /\ status' = "run" /\ data' = data /\ ret # Nothing
    BY <1>11 DEF TakeItem, TakeKey, TakeValue, Returned, Continue
  <2>2. Quiet /\ Quiet' /\ pos' = pos /\ ret' = Nothing
    BY <1>11, Take
  <2>3. Kept = pos
    BY <2>2, KeptIsLeast
  <2>4. (IInv /\ Quiet => Kept = pos)'
    BY KeptIsLeast, PTL
  <2>5. Kept' = Kept /\ Kept \in Nat
    BY <1>1, <2>2, <2>3, <2>4
  <2>6. TurnsAhead = 1 /\ TurnsAhead' = 0
    BY <2>1, <2>2 DEF TurnsAhead
  <2> QED
    BY <2>1, <2>5, <2>6, KeptMoves DEF Descends
<1>12. CASE TakeGeneration \/ GiveUpTheReference
  <2>1. /\ stack # <<>> /\ Waits(n)
        /\ stack' = Below
        /\ pos' >= stack[n].saved
        /\ ret' # Nothing
    BY <1>2, <1>12, EndOfAttempt
  <2>2. status = "run" /\ ret # Nothing
    BY <1>12 DEF TakeGeneration, GiveUpTheReference, Returned
  <2>3. /\ n \in Nat \ {0} /\ Len(stack') = n - 1 /\ DOMAIN stack' = 1..(n - 1)
        /\ \A i \in 1..(n - 1) : stack'[i] = stack[i]
    BY <1>2, <2>1, BelowProperties DEF IInv
  <2>4. ~Quiet
    <3>1. n \in DOMAIN stack
      BY <1>2, <2>3
    <3> QED
      BY <2>1, <3>1 DEF Quiet
  <2>5. status' = "run" /\ data' = data
    <3>1. CASE TakeGeneration
      BY <2>2, <3>1 DEF TakeGeneration, ReturnFromCall
    <3>2. CASE GiveUpTheReference
      BY <2>2, <2>4, <3>2 DEF GiveUpTheReference, Raise, Quiet, Waits
    <3> QED
      BY <1>12, <3>1, <3>2
  <2>6. Kept' >= Kept
    <3>1. ASSUME NEW i \in DOMAIN stack', Waits(i)' PROVE Kept <= stack'[i].saved
      <4>1. i \in 1..(n - 1) /\ i \in DOMAIN stack /\ stack'[i] = stack[i]
        BY <1>2, <2>3
      <4> QED
        BY <3>1, <4>1, KeptIsLeast DEF Waits
    <3>2. Kept <= pos'
      <4>1. n \in DOMAIN stack
        BY <1>2, <2>3
      <4>2. Kept <= stack[n].saved /\ stack[n].saved \in Nat
        BY <2>1, <4>1, KeptIsLeast DEF IInv, StackInv, Attempt
      <4> QED
        BY <1>1, <1>3, <1>4, <2>1, <4>2
    <3>3. Kept \in Nat
      BY <1>1, <1>3
    <3> QED
      BY <1>0, <1>5, <3>1, <3>2, <3>3
  <2>7. TurnsAhead = 2
    BY <2>2, <2>4 DEF TurnsAhead
  <2>8. CASE Quiet'
    <3>1. TurnsAhead' = 1
      BY <2>1, <2>8 DEF TurnsAhead
    <3> QED
      BY <2>2, <2>5, <2>6, <2>7, <3>1, KeptMoves DEF Descends
  <2>9. CASE ~Quiet'
    <3>1. TurnsAhead' = 2
      BY <2>1, <2>9 DEF TurnsAhead
    <3>2. AttemptsAhead = n /\ AttemptsAhead' = n - 1
      BY <1>2, <2>1, <2>2, <2>3, <2>4, <2>9 DEF AttemptsAhead
    <3> QED
      BY <2>2, <2>3, <2>5, <2>6, <2>7, <3>1, <3>2, KeptMoves DEF Descends
  <2> QED
    BY <2>8, <2>9
<1> QED
  BY <1>6, <1>7, <1>8, <1>9, <1>10, <1>11, <1>12 DEF Next

\* Whatever the bytes are, parse_object comes to an end although parse_reference goes back:
\* each step reads bytes for good, or is one of the attempts over the same numbers, of which
\* each is made and given up once before the first of the numbers is taken.
THEOREM EveryStepLeavesLessAhead ==
    /\ Spec => [][LeavesLess]_vars
    /\ IsWellFoundedOn(LexicalLess, NatTriples)
<1>1. IInv /\ IInv' /\ [Next]_vars => [LeavesLess]_vars
  <2> SUFFICES ASSUME IInv, IInv', Next PROVE LeavesLess
    OBVIOUS
  <2>1. BytesAhead \in Nat /\ TurnsAhead \in Nat /\ AttemptsAhead \in Nat
    BY AheadType
  <2>2. (IInv => BytesAhead \in Nat /\ TurnsAhead \in Nat /\ AttemptsAhead \in Nat)'
    BY AheadType, PTL
  <2>3. BytesAhead' \in Nat /\ TurnsAhead' \in Nat /\ AttemptsAhead' \in Nat
    BY <2>2
  <2>4. Descends
    BY StepDescends
  <2>5. \/ BytesAhead' < BytesAhead
        \/ /\ BytesAhead' = BytesAhead
           /\ \/ TurnsAhead' < TurnsAhead
              \/ TurnsAhead' = TurnsAhead /\ AttemptsAhead' < AttemptsAhead
    BY <2>1, <2>3, <2>4 DEF Descends
  <2> QED
    BY <2>1, <2>3, <2>5, LessBefore DEF Ahead, LeavesLess
<1>2. Init => IInv
  BY InitInv
<1>3. IInv /\ [Next]_vars => IInv'
  BY StepInv
<1>4. Spec => [][LeavesLess]_vars
  BY <1>1, <1>2, <1>3, PTL DEF Spec
<1> QED
  BY <1>4, LexicalOrderIsWellFounded

-----------------------------------------------------------------------------
(***************************************************************************)
(* Where the numbers of an attempt were read                               *)
(***************************************************************************)

\* Place p does not stand inside a row of digits.
Apart(p) == p > 1 /\ p <= Len(data) => data[p - 1] \notin Digits \/ data[p] \notin Digits

\* The number was read from q up to e.
ReadFrom(number, q, e) ==
    /\ e \in (q + 1)..(Len(data) + 1)
    /\ \A i \in q..(e - 1) : data[i] \in NumberStart
    /\ Apart(q)
    /\ e <= Len(data) => data[e] \notin Digits
    /\ number = NumberFrom(Text(data, q, e))

\* Where the second number of attempt i starts.
Second(i) == SkipWhitespace(data, stack[i].saved)

FrameInv(i) ==
    /\ Second(i) \in 1..Len(data)
    /\ data[Second(i)] \in Digits
    /\ \E q \in 1..Len(data) :
          /\ ReadFrom(stack[i].number, q, stack[i].saved)
          /\ i > 1 /\ Waits(i - 1) => q = Second(i - 1)

\* The innermost attempt is about to read its second number, or has read it.
SecondInv ==
    Top.in = "reference" =>
        IF ret = Nothing THEN pos = Second(Len(stack))
        ELSE ret.kind = "Number" =>
                 \E e \in 1..(Len(data) + 1) :
                    /\ ReadFrom(ret, Second(Len(stack)), e)
                    /\ pos = e \/ pos = SkipWhitespace(data, e)

ExactInv ==
    /\ IInv
    /\ Apart(pos)
    /\ \A i \in DOMAIN stack : Waits(i) => FrameInv(i)
    /\ SecondInv
    /\ ReferencesAreExact

LEMMA NumberReadFrom ==
    ASSUME DataInv, NEW p \in 1..(Len(data) + 1), Apart(p), NEW r \in NumberAt(data, p)
    PROVE  /\ p \in 1..Len(data)
           /\ r.end \in 1..(Len(data) + 1)
           /\ ReadFrom(r.value, p, r.end)
           /\ r.value.kind = "Number"
<1>0. data \in Bytes /\ Len(data) \in Nat
  BY DEF DataInv, Bytes
<1>1. PICK e \in {EndOfNumber(data, p)} : /\ At(data, p) \in NumberStart
                                          /\ r = Reading(NumberFrom(Text(data, p, e)), e)
  BY DEF NumberAt
<1>2. p \in 1..Len(data) /\ r.end \in (p + 1)..(Len(data) + 1)
  BY <1>0, NumberReading
<1>3. r.end = e /\ r.value = NumberFrom(Text(data, p, e))
  BY <1>1 DEF Reading
<1>4. data[p] \in NumberStart
  BY <1>1, <1>2 DEF At
<1>5. /\ \A i \in p..(e - 1) : data[i] \in NumberStart
      /\ e <= Len(data) => data[e] \notin Digits
  BY <1>0, <1>1, <1>2, <1>4, EndOfNumberText
<1>6. ReadFrom(r.value, p, r.end)
  BY <1>2, <1>3, <1>5 DEF ReadFrom
<1>7. r.value.kind = "Number"
  BY <1>3 DEF NumberFrom, Number
<1>8. r.end \in 1..(Len(data) + 1)
  BY <1>0, <1>2
<1> QED
  BY <1>2, <1>6, <1>7, <1>8

\* White space and comments end before a byte that is in no row of digits with the last
\* of them: a comment ends with its line.
LEMMA PlaceIsApart ==
    ASSUME DataInv, Apart(pos)
    PROVE  Apart(Place)
<1> DEFINE S == {q \in pos..Len(data) : data[q] \notin White /\ ~InComment(data, pos, q)}
           m == Min(S \cup {Len(data) + 1})
<1>1. Len(data) \in Nat /\ pos \in 1..(Len(data) + 1)
  BY DEF DataInv, Bytes
<1>2. S \in SUBSET (pos..Len(data))
  OBVIOUS
<1>3. Place = m
  BY DEF Place, SkipWhitespaceAndComments
<1> HIDE DEF S
<1>4. /\ m \in pos..(Len(data) + 1)
      /\ \A q \in pos..(m - 1) : q \notin S
      /\ m <= Len(data) => m \in S
  BY <1>1, <1>2, FirstPlace
<1> HIDE DEF m
<1>5. CASE m = pos
  BY <1>3, <1>5
<1>6. CASE m > pos /\ m <= Len(data)
  <2>1. m - 1 \in pos..(m - 1) /\ m - 1 \in pos..Len(data)
    BY <1>1, <1>4, <1>6
  <2>2. m - 1 \notin S
    BY <1>4, <2>1
  <2>3. data[m - 1] \in White \/ InComment(data, pos, m - 1)
    BY <2>1, <2>2 DEF S
  <2>4. data[m - 1] \in White
    <3>1. SUFFICES ASSUME InComment(data, pos, m - 1)
                   PROVE  data[m - 1] \in White
      BY <2>3
    <3>2. PICK c \in pos..(m - 1) :
             data[c] = Percent /\ \A i \in c..((m - 1) - 1) : data[i] \notin LineEnds
      BY <3>1, Zenon DEF InComment
    <3>3. ~InComment(data, pos, m)
      BY <1>4, <1>6 DEF S
    <3>4. c \in pos..m
      BY <1>1, <1>4, <3>2
    <3>5. PICK i \in c..(m - 1) : data[i] \in LineEnds
      BY <3>2, <3>3, <3>4, Zenon DEF InComment
    <3>6. i \in c..((m - 1) - 1) \/ i = m - 1
      BY <1>1, <1>4, <3>2
    <3>7. data[m - 1] \in LineEnds
      BY <3>2, <3>5, <3>6
    <3> QED
      BY <3>7 DEF LineEnds, White
  <2> QED
    BY <1>3, <2>4, Classes DEF Apart
<1>7. CASE m > Len(data)
  BY <1>1, <1>3, <1>4, <1>7 DEF Apart
<1> QED
  BY <1>1, <1>4, <1>5, <1>6, <1>7

\* Behind what is no number no row of digits goes on.
LEMMA OtherReadingsEnd ==
    ASSUME DataInv, NEW p \in 1..(Len(data) + 1),
           NEW r \in KeywordAt(data, p) \cup NameAt(data, p) \cup StringAt(data, p)
                         \cup HexStringAt(data, p)
    PROVE  Apart(r.end) /\ r.value.kind # "Reference"
<1>0. data \in Bytes /\ Len(data) \in Nat
  BY DEF DataInv, Bytes
<1>1. p \in 1..Len(data) /\ r.end \in (p + 1)..(Len(data) + 1)
  BY <1>0, OtherReadings
<1>2. CASE r \in KeywordAt(data, p)
  <2>1. PICK k \in Keywords : /\ Text(data, p, p + Len(k.text)) = k.text
                              /\ p + Len(k.text) <= Len(data) + 1
                              /\ r = Reading(k.value, p + Len(k.text))
    BY <1>2 DEF KeywordAt
  <2> DEFINE n == <<110, 117, 108, 108>>
             t == <<116, 114, 117, 101>>
             f == <<102, 97, 108, 115, 101>>
  <2>2. \/ k = [text |-> n, value |-> Null]
        \/ k = [text |-> t, value |-> Boolean(TRUE)]
        \/ k = [text |-> f, value |-> Boolean(FALSE)]
    BY Zenon DEF Keywords, n, t, f
  <2>3. /\ Len(n) = 4 /\ n[Len(n)] = 108
        /\ Len(t) = 4 /\ t[Len(t)] = 101
        /\ Len(f) = 5 /\ f[Len(f)] = 101
    OBVIOUS
  <2> HIDE DEF n, t, f
  <2>4. \A x, v : [text |-> x, value |-> v].text = x
    OBVIOUS
  <2>13. \A x, v : [text |-> x, value |-> v].value = v
    OBVIOUS
  <2>5. k.text = n \/ k.text = t \/ k.text = f
    BY <2>2, <2>4, Zenon
  <2>14. k.value = Null \/ k.value = Boolean(TRUE) \/ k.value = Boolean(FALSE)
    BY <2>2, <2>13, Zenon
  <2>6. Null.kind # "Reference" /\ Boolean(TRUE).kind # "Reference" /\ Boolean(FALSE).kind # "Reference"
    BY DEF Null, Boolean
  <2>7. r.value = k.value /\ r.end = p + Len(k.text)
    BY <2>1 DEF Reading
  <2>8. r.value.kind # "Reference"
    BY <2>6, <2>7, <2>14
  <2>9. PICK l \in 4..5 : l = Len(k.text) /\ k.text[l] \in {101, 108}
    BY <2>3, <2>5
  <2>10. p \in 1..(Len(data) + 1) /\ p + l \in p..(Len(data) + 1) /\ l \in 1..((p + l) - p) /\ p + l - 1 = r.end - 1
    BY <1>0, <1>1, <2>1, <2>7, <2>9
  <2>11. Text(data, p, p + l)[l] = data[p + l - 1]
    BY <1>0, <2>10, TextProperties
  <2>12. data[r.end - 1] \in {101, 108}
    BY <2>1, <2>9, <2>10, <2>11
  <2> QED
    BY <2>8, <2>12 DEF Apart, Digits
<1>3. CASE r \in NameAt(data, p)
  <2>1. PICK e \in {EndOfName(data, p)} : r = Reading(Name(Text(data, p + 1, e)), e)
    BY <1>3 DEF NameAt
  <2>2. r.end = EndOfName(data, p) /\ r.value = Name(Text(data, p + 1, e))
    BY <2>1 DEF Reading
  <2> DEFINE S == {q \in (p + 1)..Len(data) : data[q] \in White \cup Delimiters}
             m == Min(S \cup {Len(data) + 1})
  <2>3. S \in SUBSET ((p + 1)..Len(data)) /\ p + 1 \in 1..(Len(data) + 1)
    BY <1>0, <1>1
  <2>4. r.end = m
    BY <2>2 DEF EndOfName
  <2> HIDE DEF S
  <2>5. m <= Len(data) => m \in S
    BY <1>0, <2>3, FirstPlace
  <2>6. r.end <= Len(data) => data[r.end] \in White \cup Delimiters
    BY <2>4, <2>5 DEF S
  <2>7. (White \cup Delimiters) \cap Digits = {}
    BY DEF White, Delimiters, Digits, LeftParen, RightParen, Less, Greater, LeftBracket,
           RightBracket, Slash, Percent
  <2>8. r.value.kind # "Reference"
    BY <2>2 DEF Name
  <2> QED
    BY <2>6, <2>7, <2>8 DEF Apart
<1>4. CASE r \in StringAt(data, p)
  <2>1. PICK e \in StringEnds(data, p) : /\ \A f \in StringEnds(data, p) : e <= f
                                         /\ r = Reading(String(StringBytes(data, p, e)), e + 1)
    BY <1>4 DEF StringAt
  <2>2. r.end = e + 1 /\ r.value = String(StringBytes(data, p, e))
    BY <2>1 DEF Reading
  <2>3. e \in (p + 1)..Len(data) /\ data[e] \in {LeftParen, RightParen}
    BY <1>0, <1>1, <2>1, StringEndPlace, StringCloses
  <2>4. r.end - 1 = e
    BY <2>2, <2>3
  <2>5. r.value.kind # "Reference"
    BY <2>2 DEF String
  <2> QED
    BY <2>3, <2>4, <2>5 DEF Apart, LeftParen, RightParen, Digits
<1>5. CASE r \in HexStringAt(data, p)
  <2>1. PICK e \in {EndOfHexString(data, p)} :
           At(data, e) = Greater /\ r = Reading(String(HexStringBytes(data, p, e)), e + 1)
    BY <1>5 DEF HexStringAt
  <2>2. r.end = e + 1 /\ r.value = String(HexStringBytes(data, p, e))
    BY <2>1 DEF Reading
  <2>3. e \in 1..Len(data) /\ data[e] = Greater
    BY <2>1 DEF At, Greater, NoByte
  <2>4. r.end - 1 = e
    BY <2>2, <2>3
  <2>5. r.value.kind # "Reference"
    BY <2>2 DEF String
  <2> QED
    BY <2>3, <2>4, <2>5 DEF Apart, Greater, Digits
<1> QED
  BY <1>2, <1>3, <1>4, <1>5

\* The significand of a number holds every generation: of an f32 it has 24 bits, and a
\* generation is a u16.
WidthsFit == Mantissa <= 31 /\ MaxGeneration < 2^Mantissa

LEMMA TakeGenerationIsExact ==
    ASSUME WidthsFit, ExactInv, TakeGeneration
    PROVE  ReferencesAreExact'
<1> DEFINE n == Len(stack)
           s == Second(n)
           saved == stack[n].saved
           z == AfterGeneration
<1>1. data \in Bytes /\ Len(data) \in Nat /\ pos \in 1..(Len(data) + 1)
  BY DEF ExactInv, IInv, DataInv, Bytes
<1>2. Top.in = "reference" /\ ret # Nothing /\ ret.kind = "Number" /\ At(data, z) = 82
  BY DEF TakeGeneration, Returned, IsGeneration
<1>3. stack # <<>>
  BY <1>2 DEF Top
<1>4. Top = stack[n] /\ Waits(n)
  BY <1>2, <1>3 DEF Top, Waits
<1>5. n \in DOMAIN stack
  BY <1>3, BelowProperties DEF ExactInv, IInv
<1>6. FrameInv(n)
  BY <1>4, <1>5 DEF ExactInv
<1>7. s \in 1..Len(data) /\ data[s] \in Digits
  BY <1>6 DEF FrameInv
<1>8. PICK q \in 1..Len(data) : ReadFrom(Top.number, q, saved)
  BY <1>4, <1>6 DEF FrameInv
<1>9. PICK e \in 1..(Len(data) + 1) : ReadFrom(ret, s, e) /\ (pos = e \/ pos = SkipWhitespace(data, e))
  BY <1>2 DEF ExactInv, SecondInv
<1>10. z \in 1..Len(data) /\ data[z] = 82
  BY <1>2 DEF At, NoByte
<1>11. SkipWhitespace(data, e) = z
  BY <1>1, <1>9, SkipAgain DEF AfterGeneration
<1>12. /\ data' = data /\ pos' = z + 1
       /\ ret' = Reference(<<Saturated(Top.number, MaxObject), Saturated(ret, MaxGeneration)>>)
  BY DEF TakeGeneration, ReturnFromCall
<1>13. ret'.ref = <<Saturated(Top.number, MaxObject), Saturated(ret, MaxGeneration)>>
  BY <1>12 DEF Reference
<1>14. /\ saved \in (q + 1)..(Len(data) + 1)
       /\ \A i \in q..(saved - 1) : data[i] \in NumberStart
       /\ q > 1 => data[q - 1] \notin Digits \/ data[q] \notin Digits
       /\ saved <= Len(data) => data[saved] \notin Digits
       /\ Top.number = NumberFrom(Text(data, q, saved))
  BY <1>1, <1>8 DEF ReadFrom, Apart
<1>15. /\ e \in (s + 1)..(Len(data) + 1)
       /\ \A i \in s..(e - 1) : data[i] \in NumberStart
       /\ ret = NumberFrom(Text(data, s, e))
  BY <1>9 DEF ReadFrom
<1>16. SkipWhitespace(data, saved) = s
  BY DEF Second
<1>17. (z + 1) - 1 = z
  BY <1>10
<1> HIDE DEF n, s, saved, z
<1>18. ASSUME NEW p \in 1..((z + 1) - 4), NEW first, NEW second, NEW behind,
              first = EndOfRun(data, p, Digits),
              second = SkipWhitespace(data, first),
              behind = EndOfRun(data, second, Digits),
              data[p] \in Digits,
              p > 1 => data[p - 1] \notin NumberStart,
              first < second, second < behind,
              SkipWhitespace(data, behind) = z,
              NEW w,
              w = <<Decimal(Text(data, p, first)), Decimal(DigitsOf(Text(data, first, z + 1)))>>,
              w[1] < 2^Mantissa, w[1] <= MaxObject, w[2] <= MaxGeneration
       PROVE  ret'.ref = w
  <2>1. p \in 1..Len(data) /\ p \in 1..(Len(data) + 1)
    BY <1>1, <1>10
  <2>2. /\ first \in p..(Len(data) + 1) /\ first \in 1..(Len(data) + 1)
        /\ \A i \in p..(first - 1) : data[i] \in Digits
        /\ first <= Len(data) => data[first] \notin Digits
    BY <1>1, <1>18, <2>1, EndOfRunPlace
  <2>3. /\ second \in first..(Len(data) + 1) /\ second \in 1..(Len(data) + 1)
        /\ \A i \in first..(second - 1) : data[i] \in White
    BY <1>1, <1>18, <2>2, EndOfRunPlace DEF SkipWhitespace
  <2>4. /\ behind \in second..(Len(data) + 1) /\ behind \in 1..(Len(data) + 1)
        /\ \A i \in second..(behind - 1) : data[i] \in Digits
    BY <1>1, <1>18, <2>3, EndOfRunPlace
  <2>5. /\ z \in behind..(Len(data) + 1)
        /\ \A i \in behind..(z - 1) : data[i] \in White
    BY <1>1, <1>18, <2>4, EndOfRunPlace DEF SkipWhitespace
  <2>6. q = p /\ saved = first /\ s = second /\ e = behind
    <3>1. AsRead(data, q, saved, s, e, z)
      BY <1>7, <1>11, <1>14, <1>15, <1>16 DEF AsRead
    <3>2. AsWritten(data, p, first, second, behind, z)
      BY <1>18, <2>1 DEF AsWritten
    <3> QED
      BY <1>1, <1>10, <1>7, <1>14, <1>15, <2>1, <2>2, <2>3, <2>4, <3>1, <3>2, OneReading
  <2>7. first > p
    BY <1>1, <1>18, <2>1, <2>2
  <2>8. DigitsOf(Text(data, first, z + 1)) = Text(data, second, behind)
    <3>1. z + 1 \in first..(Len(data) + 1) /\ second \in first..(z + 1) /\ behind \in second..(z + 1)
      BY <1>1, <1>10, <2>2, <2>3, <2>4, <2>5
    <3>2. ASSUME NEW i \in first..((z + 1) - 1)
          PROVE  data[i] \in Digits <=> i \in second..(behind - 1)
      <4>1. \/ i \in first..(second - 1) \/ i \in second..(behind - 1)
            \/ i \in behind..(z - 1) \/ i = z
        BY <1>1, <1>10, <2>2, <2>3, <2>4, <2>5
      <4>2. 82 \notin Digits
        BY DEF Digits
      <4>3. i \in second..(behind - 1) => i \notin first..(second - 1) /\ i \notin behind..(z - 1) /\ i # z
        BY <1>1, <2>2, <2>3, <2>4, <2>5
      <4> QED
        BY <1>10, <2>3, <2>4, <2>5, <4>1, <4>2, <4>3, Classes
    <3> QED
      BY <1>1, <2>2, <3>1, <3>2, DigitsOfText
  <2> DEFINE a == Decimal(Text(data, p, first))
             b == Decimal(Text(data, second, behind))
  <2>9. w = <<a, b>>
    BY <1>18, <2>8
  <2>10. w[1] = a /\ w[2] = b
    BY <2>9
  <2>11. Mantissa \in 1..31
    BY MantissaAssumption DEF WidthsFit
  <2>12. a \in Nat /\ Top.number.negative = FALSE /\ (a < 2^Mantissa => Top.number.whole = a)
    <3>1. first \in (p + 1)..(Len(data) + 1)
      BY <1>1, <2>1, <2>2, <2>7
    <3> QED
      BY <1>1, <1>14, <2>1, <2>2, <2>6, <2>11, <3>1, PlainNumber
  <2>13. b \in Nat /\ ret.negative = FALSE /\ (b < 2^Mantissa => ret.whole = b)
    <3>1. second \in 1..Len(data) /\ behind \in (second + 1)..(Len(data) + 1)
      BY <1>1, <1>18, <2>3, <2>4
    <3> QED
      BY <1>1, <1>15, <2>4, <2>6, <2>11, <3>1, PlainNumber
  <2> HIDE DEF a, b
  <2>14. a < 2^Mantissa /\ a <= MaxObject
    BY <1>18, <2>10
  <2>15. b < 2^Mantissa /\ b <= MaxGeneration
    <3>1. PICK m \in Nat : m = 2^Mantissa
      BY <2>11, PowerIsPositive
    <3>2. b <= MaxGeneration /\ MaxGeneration < m
      BY <1>18, <2>10, <3>1 DEF WidthsFit
    <3>3. b < m
      BY <2>13, <3>2, MaximaAssumption
    <3> QED
      BY <3>1, <3>2, <3>3
  <2>16. Saturated(Top.number, MaxObject) = a
    BY <2>12, <2>14, SaturatedIs, MaximaAssumption
  <2>17. Saturated(ret, MaxGeneration) = b
    BY <2>13, <2>15, SaturatedIs, MaximaAssumption
  <2> QED
    BY <1>13, <2>9, <2>16, <2>17
<1>19. ASSUME NEW w \in WrittenReferences(z + 1),
              w[1] < 2^Mantissa, w[1] <= MaxObject, w[2] <= MaxGeneration
       PROVE  ret'.ref = w
  <2>1. PICK p \in 1..((z + 1) - 4) :
           /\ data[p] \in Digits
           /\ p > 1 => data[p - 1] \notin NumberStart
           /\ EndOfRun(data, p, Digits) < SkipWhitespace(data, EndOfRun(data, p, Digits))
           /\ SkipWhitespace(data, EndOfRun(data, p, Digits))
                < EndOfRun(data, SkipWhitespace(data, EndOfRun(data, p, Digits)), Digits)
           /\ SkipWhitespace(data, EndOfRun(data, SkipWhitespace(data, EndOfRun(data, p, Digits)), Digits))
                = (z + 1) - 1
           /\ w = <<Decimal(Text(data, p, EndOfRun(data, p, Digits))),
                    Decimal(DigitsOf(Text(data, EndOfRun(data, p, Digits), z + 1)))>>
    BY <1>19, Zenon DEF WrittenReferences
  <2> QED
    BY <1>17, <1>18, <1>19, <2>1
<1>20. WrittenReferences(pos)' = WrittenReferences(z + 1)
  BY <1>12 DEF WrittenReferences
<1> QED
  BY <1>12, <1>19, <1>20 DEF ReferencesAreExact

-----------------------------------------------------------------------------
(***************************************************************************)
(* Steps that keep it                                                      *)
(***************************************************************************)

LEMMA FrameKept ==
    ASSUME data' = data, NEW i, FrameInv(i), stack'[i] = stack[i],
           i > 1 => stack'[i - 1] = stack[i - 1]
    PROVE  FrameInv(i)'
BY DEF FrameInv, ReadFrom, Apart, Second, Waits

\* Where nothing waits only the place has to be right, and the kind of the value.
LEMMA QuietIsExact ==
    ASSUME IInv', Quiet', Apart(pos)', ret'.kind # "Reference"
    PROVE  ExactInv'
<1>1. SecondInv'
  <2>1. SUFFICES ASSUME stack' # <<>>, stack'[Len(stack')].in = "reference"
                 PROVE  FALSE
    BY DEF SecondInv, Top
  <2>2. PICK S : stack' \in Seq(S)
    BY DEF IInv, StackInv
  <2>3. Len(stack') \in DOMAIN stack'
    BY <2>1, <2>2, EmptySeq
  <2> QED
    BY <2>1, <2>3 DEF Quiet, Waits
<1> QED
  BY <1>1 DEF ExactInv, Quiet, ReferencesAreExact

LEMMA InitIsExact == ASSUME Init PROVE ExactInv
<1>1. stack = <<>> /\ pos = 1 /\ ret = Nothing /\ DOMAIN stack = {}
  BY DEF Init
<1>2. Top.in = "nothing" /\ Nothing.kind = "Nothing"
  BY <1>1 DEF Top, Nothing
<1> QED
  BY <1>1, <1>2, InitInv DEF ExactInv, Apart, SecondInv, ReferencesAreExact

LEMMA ReadOtherIsExact ==
    ASSUME ExactInv,
           ReadAnyOf(KeywordAt(data, Place) \cup NameAt(data, Place) \cup StringAt(data, Place)
                         \cup HexStringAt(data, Place))
    PROVE  ExactInv'
<1>1. PICK r \in KeywordAt(data, Place) \cup NameAt(data, Place) \cup StringAt(data, Place)
                     \cup HexStringAt(data, Place) :
         Return(r.value, r.end)
  BY DEF ReadAnyOf
<1>2. IInv' /\ Quiet'
  BY ReadOther DEF Consumes, ExactInv
<1>3. Place \in 1..(Len(data) + 1)
  BY PlaceIsNext DEF ExactInv, IInv, DataInv, Bytes
<1>4. Apart(r.end) /\ r.value.kind # "Reference"
  BY <1>3, OtherReadingsEnd DEF ExactInv, IInv
<1>5. data' = data /\ pos' = r.end /\ ret' = r.value
  BY <1>1 DEF Return
<1>6. Apart(pos)'
  BY <1>4, <1>5 DEF Apart
<1> QED
  BY <1>2, <1>4, <1>5, <1>6, QuietIsExact

\* Where the number that is read now starts.
LEMMA PlaceOfNumber ==
    ASSUME ExactInv, Calls
    PROVE  /\ Apart(Place)
           /\ Place \in 1..(Len(data) + 1)
           /\ Top.in = "reference" => Place = Second(Len(stack))
<1>1. Apart(Place)
  BY PlaceIsApart DEF ExactInv, IInv
<1>2. Place \in 1..(Len(data) + 1)
  BY PlaceIsNext DEF ExactInv, IInv, DataInv, Bytes
<1>3. ASSUME Top.in = "reference"
      PROVE  Place = Second(Len(stack))
  <2>1. ~Quiet
    BY <1>3, TopIsQuiet, BelowProperties DEF ExactInv, IInv, Top, Quiet, Waits
  <2>2. Place = pos
    BY <2>1, NumberIsNext DEF ExactInv
  <2> QED
    BY <1>3, <2>2 DEF ExactInv, SecondInv, Calls
<1> QED
  BY <1>1, <1>2, <1>3

LEMMA ReadNumberIsExact == ASSUME ExactInv, ReadNumber PROVE ExactInv'
<1>1. PICK r \in NumberAt(data, Place) :
         Return(r.value, IF SkipWhitespace(data, r.end) > Len(data)
                         THEN SkipWhitespace(data, r.end) ELSE r.end)
  BY DEF ReadNumber
<1>2. IInv' /\ stack' = stack /\ ret' # Nothing
  BY ReadNumberStep DEF ExactInv
<1>3. /\ Apart(Place)
      /\ Place \in 1..(Len(data) + 1)
      /\ Top.in = "reference" => Place = Second(Len(stack))
  BY PlaceOfNumber DEF ReadNumber
<1>4. /\ r.end \in 1..(Len(data) + 1)
      /\ ReadFrom(r.value, Place, r.end)
      /\ r.value.kind = "Number"
  BY <1>3, NumberReadFrom DEF ExactInv, IInv
<1>5. /\ data' = data /\ ret' = r.value
      /\ \/ pos' = r.end
         \/ pos' = SkipWhitespace(data, r.end) /\ pos' > Len(data)
  BY <1>1 DEF Return
<1>6. Apart(pos)'
  <2>1. CASE pos' = r.end
    BY <1>4, <1>5, <2>1 DEF Apart, ReadFrom
  <2>2. CASE pos' > Len(data)
    <3>1. ~(pos' <= Len(data))
      BY <1>2, <1>5, <2>2 DEF IInv, DataInv, Bytes
    <3> QED
      BY <1>5, <3>1 DEF Apart
  <2> QED
    BY <1>5, <2>1, <2>2
<1>7. \A i \in DOMAIN stack' : Waits(i)' => FrameInv(i)'
  BY <1>2, <1>5, FrameKept DEF ExactInv, Waits
<1>8. SecondInv'
  <2>1. Top' = Top /\ Second(Len(stack))' = Second(Len(stack))
    BY <1>2, <1>5 DEF Top, Second
  <2>2. SUFFICES ASSUME Top.in = "reference"
                 PROVE  \E e \in 1..(Len(data) + 1) :
                           /\ ReadFrom(ret, Second(Len(stack)), e)'
                           /\ pos' = e \/ pos' = SkipWhitespace(data, e)
    BY <1>2, <1>5, <2>1 DEF SecondInv
  <2>3. ReadFrom(ret, Second(Len(stack)), r.end)'
    <3>1. ReadFrom(r.value, Second(Len(stack)), r.end)
      BY <1>3, <1>4, <2>2
    <3> QED
      BY <1>5, <2>1, <3>1 DEF ReadFrom, Apart
  <2> QED
    BY <1>4, <1>5, <2>3
<1> QED
  BY <1>2, <1>4, <1>5, <1>6, <1>7, <1>8 DEF ExactInv, ReferencesAreExact

LEMMA TryReferenceIsExact == ASSUME ExactInv, TryReference PROVE ExactInv'
<1>1. PICK r \in NumberAt(data, Place) :
         /\ At(data, SkipWhitespace(data, r.end)) \in Digits
         /\ Call(InReference(r.value, r.end), SkipWhitespace(data, r.end))
  BY DEF TryReference
<1>6. PICK S : stack \in Seq(S)
  BY DEF ExactInv, IInv, StackInv
<1>0. PICK n \in Nat : n = Len(stack)
  BY <1>6
<1>20. PICK next : next = SkipWhitespace(data, r.end)
  OBVIOUS
<1>2. /\ IInv'
      /\ Len(stack') = n + 1
      /\ \A i \in 1..n : stack'[i] = stack[i]
      /\ ret' = Nothing
  BY <1>0, AttemptStarts DEF ExactInv
<1>3. /\ Apart(Place)
      /\ Place \in 1..(Len(data) + 1)
      /\ Top.in = "reference" => Place = Second(Len(stack))
  BY PlaceOfNumber DEF TryReference
<1>4. /\ Place \in 1..Len(data)
      /\ r.end \in 1..(Len(data) + 1)
      /\ ReadFrom(r.value, Place, r.end)
  BY <1>3, NumberReadFrom DEF ExactInv, IInv
<1>5. data \in Bytes /\ Len(data) \in Nat
  BY DEF ExactInv, IInv, DataInv, Bytes
<1>21. PICK q \in 1..Len(data) : q = Place
  BY <1>4
<1>7. DOMAIN stack = 1..n /\ \A i \in 1..(n + 1) : i \in 1..n \/ i = n + 1
  BY <1>0, <1>6
<1>8. /\ data' = data /\ pos' = next
      /\ stack' = Append(stack, InReference(r.value, r.end))
  BY <1>1, <1>20 DEF Call
<1>9. stack'[n + 1] = InReference(r.value, r.end)
  BY <1>0, <1>6, <1>8, AppendProperties
<1>10. stack'[n + 1].in = "reference" /\ stack'[n + 1].number = r.value /\ stack'[n + 1].saved = r.end
  BY <1>9 DEF InReference
<1>11. DOMAIN stack' = 1..(n + 1)
  BY <1>2 DEF IInv, StackInv
<1>12. next \in 1..Len(data) /\ data[next] \in Digits
  BY <1>1, <1>20 DEF At, NoByte, Digits
<1>13. /\ next \in r.end..(Len(data) + 1)
       /\ \A i \in r.end..(next - 1) : data[i] \in White
  BY <1>4, <1>5, <1>20, EndOfRunPlace DEF SkipWhitespace
<1>14. r.end # next
  BY <1>4, <1>12 DEF ReadFrom
<1>15. Apart(pos)'
  <2>1. next - 1 \in r.end..(next - 1)
    BY <1>4, <1>5, <1>13, <1>14
  <2>2. data[next - 1] \notin Digits
    BY <1>13, <2>1, Classes
  <2> QED
    BY <1>8, <2>2 DEF Apart
<1>16. Second(n + 1)' = next
  BY <1>8, <1>10, <1>20 DEF Second
<1>17. ASSUME NEW i \in DOMAIN stack', Waits(i)'
       PROVE  FrameInv(i)'
  <2>1. CASE i \in 1..n
    <3>1. stack'[i] = stack[i] /\ Waits(i) /\ i \in DOMAIN stack
      BY <1>2, <1>7, <1>17, <2>1 DEF Waits
    <3>2. i > 1 => stack'[i - 1] = stack[i - 1]
      BY <1>2, <1>7, <2>1
    <3> QED
      BY <1>8, <3>1, <3>2, FrameKept DEF ExactInv
  <2>2. CASE i = n + 1
    <3>1. ReadFrom(r.value, q, r.end)'
      <4>1. ReadFrom(r.value, q, r.end)
        BY <1>4, <1>21
      <4> QED
        BY <1>8, <4>1 DEF ReadFrom, Apart
    <3>2. ASSUME i > 1, Waits(i - 1)'
          PROVE  q = Second(i - 1)'
      <4>1. i - 1 = n /\ n \in 1..n /\ stack'[n] = stack[n]
        BY <1>2, <1>7, <2>2, <3>2
      <4>2. stack # <<>> /\ stack[n].in = "reference"
        BY <1>7, <3>2, <4>1 DEF Waits
      <4>3. Top.in = "reference"
        BY <1>0, <4>2 DEF Top
      <4>4. Second(i - 1)' = Second(n)
        BY <1>8, <4>1 DEF Second
      <4> QED
        BY <1>0, <1>3, <1>21, <4>3, <4>4
    <3>3. Second(i)' = next
      BY <1>16, <2>2
    <3>4. ReadFrom(stack[i].number, q, stack[i].saved)'
      BY <1>10, <2>2, <3>1
    <3> QED
      BY <1>8, <1>12, <3>2, <3>3, <3>4 DEF FrameInv
  <2> QED
    BY <1>7, <1>11, <1>17, <2>1, <2>2
<1>18. SecondInv'
  BY <1>2, <1>8, <1>16 DEF SecondInv
<1>19. ReferencesAreExact'
  BY <1>2 DEF ReferencesAreExact, Nothing
<1> QED
  BY <1>2, <1>15, <1>17, <1>18, <1>19 DEF ExactInv

LEMMA OpenIsExact == ASSUME ExactInv, OpenArray \/ OpenDictionary PROVE ExactInv'
<1>1. IInv' /\ Quiet'
  BY Open DEF ExactInv, Consumes
<1>2. Place \in 1..(Len(data) + 1) /\ Len(data) \in Nat
  BY PlaceIsNext DEF ExactInv, IInv, DataInv, Bytes
<1>3. data' = data /\ ret' = ret /\ ret = Nothing
  BY DEF OpenArray, OpenDictionary, Calls, Call
<1>4. data[pos' - 1] \in {LeftBracket, Less}
  <2>1. CASE OpenArray
    <3>1. At(data, Place) = LeftBracket /\ pos' = Place + 1
      BY <2>1 DEF OpenArray, StartsArray, Call
    <3> QED
      BY <1>2, <3>1 DEF At, NoByte, LeftBracket
  <2>2. CASE OpenDictionary
    <3>1. At(data, Place + 1) = Less /\ pos' = Place + 2
      BY <2>2 DEF OpenDictionary, StartsDictionary, Call
    <3>2. pos' - 1 = Place + 1
      BY <1>2, <3>1
    <3> QED
      BY <3>1, <3>2 DEF At, NoByte, Less
  <2> QED
    BY <2>1, <2>2
<1>5. Apart(pos)'
  BY <1>3, <1>4 DEF Apart, LeftBracket, Less, Digits
<1> QED
  BY <1>1, <1>3, <1>5, QuietIsExact DEF Nothing

LEMMA CloseIsExact == ASSUME ExactInv, CloseArray \/ CloseDictionary PROVE ExactInv'
<1>1. IInv' /\ Quiet'
  BY Close DEF ExactInv, Consumes
<1>2. Place \in 1..(Len(data) + 1) /\ Len(data) \in Nat
  BY PlaceIsNext DEF ExactInv, IInv, DataInv, Bytes
<1>3. data' = data /\ ret'.kind # "Reference"
  BY DEF CloseArray, CloseDictionary, ReturnFromCall, Array, Dictionary
<1>4. data[pos' - 1] \in {RightBracket, Greater}
  <2>1. CASE CloseArray
    <3>1. At(data, Place) = RightBracket /\ pos' = Place + 1
      BY <2>1 DEF CloseArray, EndsArray, ReturnFromCall
    <3> QED
      BY <1>2, <3>1 DEF At, NoByte, RightBracket
  <2>2. CASE CloseDictionary
    <3>1. At(data, Place + 1) = Greater /\ pos' = Place + 2
      BY <2>2 DEF CloseDictionary, EndsDictionary, ReturnFromCall
    <3>2. pos' - 1 = Place + 1
      BY <1>2, <3>1
    <3> QED
      BY <3>1, <3>2 DEF At, NoByte, Greater
  <2> QED
    BY <2>1, <2>2
<1>5. Apart(pos)'
  BY <1>3, <1>4 DEF Apart, RightBracket, Greater, Digits
<1> QED
  BY <1>1, <1>3, <1>5, QuietIsExact

LEMMA TakeIsExact == ASSUME ExactInv, TakeItem \/ TakeKey \/ TakeValue PROVE ExactInv'
<1>1. IInv' /\ Quiet' /\ pos' = pos /\ ret' = Nothing
  BY Take DEF ExactInv
<1>2. data' = data
  BY DEF TakeItem, TakeKey, TakeValue, Continue
<1>3. Apart(pos)'
  BY <1>1, <1>2 DEF ExactInv, Apart
<1> QED
  BY <1>1, <1>3, QuietIsExact DEF Nothing

\* The attempts under the innermost one stay as they are when it ends.
LEMMA FramesBelow ==
    ASSUME ExactInv, stack # <<>>, data' = data, stack' = Below
    PROVE  \A i \in DOMAIN stack' : Waits(i)' => FrameInv(i)'
<1>1. /\ Len(stack) \in Nat \ {0}
      /\ DOMAIN stack = 1..Len(stack)
      /\ DOMAIN stack' = 1..(Len(stack) - 1)
      /\ \A i \in 1..(Len(stack) - 1) : stack'[i] = stack[i]
  BY BelowProperties DEF ExactInv, IInv
<1>2. TAKE i \in DOMAIN stack'
<1>3. HAVE Waits(i)'
<1>4. i \in DOMAIN stack /\ stack'[i] = stack[i] /\ (i > 1 => stack'[i - 1] = stack[i - 1])
  BY <1>1
<1>5. Waits(i)
  BY <1>3, <1>4 DEF Waits
<1> QED
  BY <1>4, <1>5, FrameKept DEF ExactInv

LEMMA EndOfAttemptIsExact ==
    ASSUME WidthsFit, ExactInv, TakeGeneration \/ GiveUpTheReference
    PROVE  ExactInv'
<1>1. /\ IInv'
      /\ stack # <<>> /\ Waits(Len(stack))
      /\ stack' = Below
      /\ ret' # Nothing
  BY EndOfAttempt DEF ExactInv
<1>2. data' = data
  <2>1. CASE TakeGeneration
    BY <2>1 DEF TakeGeneration, ReturnFromCall
  <2>2. CASE GiveUpTheReference
    BY <1>1, <2>2, RaiseInAttempt DEF ExactInv, IInv, GiveUpTheReference
  <2> QED
    BY <2>1, <2>2
<1>3. \A i \in DOMAIN stack' : Waits(i)' => FrameInv(i)'
  BY <1>1, <1>2, FramesBelow
<1>4. data \in Bytes /\ Len(data) \in Nat /\ pos \in 1..(Len(data) + 1)
  BY DEF ExactInv, IInv, DataInv, Bytes
<1>5. CASE TakeGeneration
  <2>1. /\ At(data, AfterGeneration) = 82
        /\ pos' = AfterGeneration + 1
        /\ ret'.kind = "Reference"
    BY <1>5 DEF TakeGeneration, IsGeneration, ReturnFromCall, Reference
  <2>2. AfterGeneration \in 1..Len(data) /\ data[AfterGeneration] = 82 /\ pos' - 1 = AfterGeneration
    BY <2>1 DEF At, NoByte
  <2>3. Apart(pos)'
    BY <1>2, <2>2 DEF Apart, Digits
  <2>4. SecondInv'
    BY <1>1, <2>1 DEF SecondInv
  <2> QED
    BY <1>1, <1>3, <1>5, <2>3, <2>4, TakeGenerationIsExact DEF ExactInv
<1>6. CASE GiveUpTheReference
  <2>0. PICK n \in Nat \ {0} : n = Len(stack)
    BY <1>1, BelowProperties DEF ExactInv, IInv
  <2>1. pos' = stack[n].saved /\ ret' = stack[n].number
    BY <1>1, <1>6, <2>0, RaiseInAttempt DEF ExactInv, IInv, GiveUpTheReference
  <2>2. /\ DOMAIN stack = 1..n
        /\ DOMAIN stack' = 1..(n - 1)
        /\ Len(stack') = n - 1
        /\ \A i \in 1..(n - 1) : stack'[i] = stack[i]
    BY <1>1, <2>0, BelowProperties DEF ExactInv, IInv
  <2>3. FrameInv(n)
    BY <1>1, <2>0, <2>2 DEF ExactInv
  <2>4. PICK q \in 1..Len(data) :
           /\ ReadFrom(stack[n].number, q, stack[n].saved)
           /\ n > 1 /\ Waits(n - 1) => q = Second(n - 1)
    BY <2>3 DEF FrameInv
  <2>5. PICK e : e = stack[n].saved
    OBVIOUS
  <2>6. e \in (q + 1)..(Len(data) + 1) /\ (e <= Len(data) => data[e] \notin Digits)
    BY <2>4, <2>5 DEF ReadFrom
  <2>7. Apart(pos)'
    BY <1>2, <2>1, <2>5, <2>6 DEF Apart
  <2>8. ret'.kind = "Number"
    BY <2>1, <2>4 DEF ReadFrom, NumberFrom, Number
  <2>9. SecondInv'
    <3>1. SUFFICES ASSUME Top'.in = "reference"
                   PROVE  \E d \in 1..(Len(data) + 1) :
                             /\ ReadFrom(ret, Second(Len(stack)), d)'
                             /\ pos' = d \/ pos' = SkipWhitespace(data, d)
      BY <1>1, <1>2 DEF SecondInv
    <3>2. stack' # <<>> /\ stack'[n - 1].in = "reference"
      BY <2>2, <3>1 DEF Top
    <3>3. PICK m \in 1..(n - 1) : m = n - 1
      <4>1. n - 1 # 0
        BY <1>1, <2>2, <3>2, EmptySeq DEF IInv, StackInv
      <4> QED
        BY <4>1
    <3>4. stack'[m] = stack[m] /\ Waits(m) /\ n > 1
      BY <2>2, <3>2, <3>3 DEF Waits
    <3>5. q = Second(m)
      BY <2>4, <3>3, <3>4
    <3>6. Second(Len(stack))' = q
      BY <1>2, <2>2, <3>3, <3>4, <3>5 DEF Second
    <3>7. ReadFrom(ret, q, e)'
      BY <1>2, <2>1, <2>4, <2>5 DEF ReadFrom, Apart
    <3>8. ReadFrom(ret, Second(Len(stack)), e)'
      BY <3>6, <3>7
    <3>9. e \in 1..(Len(data) + 1)
      BY <1>4, <2>6
    <3> QED
      BY <2>1, <2>5, <3>8, <3>9
  <2> QED
    BY <1>1, <1>3, <2>7, <2>8, <2>9 DEF ExactInv, ReferencesAreExact
<1> QED
  BY <1>5, <1>6

LEMMA NothingChangesExact ==
    ASSUME ExactInv, UNCHANGED <<data, pos, stack, ret>>
    PROVE  ExactInv'
<1>1. data' = data /\ pos' = pos /\ stack' = stack /\ ret' = ret
  OBVIOUS
<1>2. IInv'
  BY NothingChanges DEF ExactInv
<1>3. Apart(pos)' /\ SecondInv'
  BY <1>1 DEF ExactInv, Apart, SecondInv, Top, Second, ReadFrom
<1>4. \A i \in DOMAIN stack' : Waits(i)' => FrameInv(i)'
  BY <1>1, FrameKept DEF ExactInv, Waits
<1>5. ReferencesAreExact'
  BY <1>1 DEF ExactInv, ReferencesAreExact, WrittenReferences
<1> QED
  BY <1>2, <1>3, <1>4, <1>5 DEF ExactInv

LEMMA StepIsExact == ASSUME WidthsFit, ExactInv, [Next]_vars PROVE ExactInv'
<1>1. CASE ReadKeyword \/ ReadName \/ ReadString \/ ReadHexString
  BY <1>1, ReadOtherIsExact DEF ReadKeyword, ReadName, ReadString, ReadHexString, ReadAnyOf
<1>2. CASE ReadNumber
  BY <1>2, ReadNumberIsExact
<1>3. CASE TryReference
  BY <1>3, TryReferenceIsExact
<1>4. CASE OpenArray \/ OpenDictionary
  BY <1>4, OpenIsExact
<1>5. CASE CloseArray \/ CloseDictionary
  BY <1>5, CloseIsExact
<1>6. CASE RejectObject \/ RejectKey
  BY <1>6, Reject, NothingChangesExact DEF ExactInv
<1>7. CASE TakeItem \/ TakeKey \/ TakeValue
  BY <1>7, TakeIsExact
<1>8. CASE TakeGeneration \/ GiveUpTheReference
  BY <1>8, EndOfAttemptIsExact
<1>9. CASE Finish
  BY <1>9, NothingChangesExact DEF Finish
<1>10. CASE UNCHANGED vars
  BY <1>10, NothingChangesExact DEF vars
<1> QED
  BY <1>1, <1>2, <1>3, <1>4, <1>5, <1>6, <1>7, <1>8, <1>9, <1>10 DEF Next

\* For every text: a reference that is written with plain digits, an object number that
\* the significand of an f32 holds and numbers within u32 and u16, is returned by
\* parse_reference with exactly the numbers that are written, however many attempts were
\* given up before it was found.
THEOREM References == ASSUME WidthsFit PROVE Spec => []ReferencesAreExact
<1>1. Init => ExactInv
  BY InitIsExact
<1>2. ExactInv /\ [Next]_vars => ExactInv'
  BY StepIsExact
<1>3. ExactInv => ReferencesAreExact
  BY DEF ExactInv
<1> QED
  BY <1>1, <1>2, <1>3, PTL DEF Spec

-----------------------------------------------------------------------------
(***************************************************************************)
(* The answer is what the text says.  The grammar reads a text from the    *)
(* end: what a place says follows from what the places behind it say, and  *)
(* so there is one answer for each place.                                  *)
(***************************************************************************)

IsMap(x) == x = [k \in DOMAIN x |-> x[k]]

\* What is read from place q on ends behind it.
EndsBehind(d, readings, q) == \A r \in readings : r.end \in (q + 1)..(Len(d) + 1)

AreLists(readings) == \A r \in readings : \E S : r.value \in Seq(S)

AreMaps(readings) == \A r \in readings : IsMap(r.value)

IsRead(d, parts, q) ==
    /\ EndsBehind(d, parts["value"], q)
    /\ EndsBehind(d, parts["items"], q)
    /\ AreLists(parts["items"])
    /\ EndsBehind(d, parts["entries"], q)
    /\ AreMaps(parts["entries"])

\* A reference with its two numbers.
ReferenceOf(d, n, g) ==
    Reading(Reference(<<Saturated(n.value, MaxObject), Saturated(g.value, MaxGeneration)>>),
            SkipWhitespace(d, g.end) + 1)

\* The number g behind the number n makes a reference of them.
AreReference(d, n, g) ==
    /\ g \in NumberAt(d, SkipWhitespace(d, n.end))
    /\ At(d, SkipWhitespace(d, n.end)) \in Digits
    /\ At(d, SkipWhitespace(d, g.end)) = 82

\* A reference has two numbers.
LEMMA ReferenceIs ==
    ASSUME NEW d, NEW p, NEW r
    PROVE  r \in ReferenceAt(d, p) <=>
              \E n \in NumberAt(d, p) : \E g : AreReference(d, n, g) /\ r = ReferenceOf(d, n, g)
BY DEF ReferenceAt, AreReference, ReferenceOf

LEMMA NumberOrReferenceEnds ==
    ASSUME NEW d \in Bytes, NEW p \in 1..(Len(d) + 1)
    PROVE  EndsBehind(d, NumberOrReferenceAt(d, p), p)
<1> SUFFICES ASSUME NEW r \in NumberOrReferenceAt(d, p) PROVE r.end \in (p + 1)..(Len(d) + 1)
  BY DEF EndsBehind
<1>0. PICK l \in Nat : l = Len(d)
  BY DEF Bytes
<1>1. CASE r \in NumberAt(d, p)
  BY <1>1, NumberReading
<1>2. CASE r \in ReferenceAt(d, p)
  <2>0. PICK n \in NumberAt(d, p) : \E g : AreReference(d, n, g) /\ r = ReferenceOf(d, n, g)
    BY <1>2, ReferenceIs
  <2>1. PICK g : AreReference(d, n, g) /\ r = ReferenceOf(d, n, g)
    BY <2>0
  <2>2. /\ g \in NumberAt(d, SkipWhitespace(d, n.end))
        /\ At(d, SkipWhitespace(d, g.end)) = 82
        /\ r = Reading(Reference(<<Saturated(n.value, MaxObject), Saturated(g.value, MaxGeneration)>>),
                       SkipWhitespace(d, g.end) + 1)
    BY <2>1 DEF AreReference, ReferenceOf
  <2>3. PICK e \in (p + 1)..(l + 1) : e = n.end
    BY <1>0, NumberReading
  <2>4. PICK s \in e..(l + 1) : s = SkipWhitespace(d, n.end)
    BY <1>0, <2>3, EndOfRunPlace DEF SkipWhitespace
  <2>5. PICK e2 \in (s + 1)..(l + 1) : e2 = g.end
    <3>1. s \in 1..(Len(d) + 1)
      BY <1>0, <2>3
    <3> QED
      BY <1>0, <2>2, <2>4, <3>1, NumberReading
  <2>6. PICK z \in e2..(l + 1) : z = SkipWhitespace(d, g.end)
    <3>1. e2 \in 1..(Len(d) + 1)
      BY <1>0, <2>3, <2>4
    <3> QED
      BY <1>0, <2>5, <3>1, EndOfRunPlace DEF SkipWhitespace
  <2>7. z \in 1..l
    BY <1>0, <2>2, <2>6 DEF At, NoByte
  <2>8. r.end = z + 1
    BY <2>2, <2>6 DEF Reading
  <2> QED
    BY <1>0, <2>3, <2>4, <2>5, <2>7, <2>8
<1> QED
  BY <1>1, <1>2 DEF NumberOrReferenceAt

\* One of the readings of a value.
LEMMA ValueIs ==
    ASSUME NEW d, NEW later, NEW q
    PROVE  LET p == SkipWhitespaceAndComments(d, q) IN
           ValueFrom(d, later, q) =
              NumberOrReferenceAt(d, p) \cup ArrayFrom(d, later, p) \cup DictionaryFrom(d, later, p)
                 \cup (KeywordAt(d, p) \cup NameAt(d, p) \cup StringAt(d, p) \cup HexStringAt(d, p))
BY Zenon DEF ValueFrom

LEMMA ReadingIs ==
    ASSUME NEW v, NEW e
    PROVE  Reading(v, e).value = v /\ Reading(v, e).end = e
BY DEF Reading

\* A value ends behind the place it is read from.
LEMMA ValueEnds ==
    ASSUME NEW d \in Bytes, NEW q \in 1..(Len(d) + 1), NEW later,
           \A p \in (q + 1)..(Len(d) + 1) : IsRead(d, later[p], p)
    PROVE  EndsBehind(d, ValueFrom(d, later, q), q)
<1> SUFFICES ASSUME NEW r \in ValueFrom(d, later, q) PROVE r.end \in (q + 1)..(Len(d) + 1)
  BY DEF EndsBehind
<1>0. PICK l \in Nat : l = Len(d)
  BY DEF Bytes
<1>1. PICK p \in q..(l + 1) : p = SkipWhitespaceAndComments(d, q)
  BY <1>0, SkipPlace
<1>2. p \in 1..(Len(d) + 1) /\ p \in 1..(l + 1)
  BY <1>0, <1>1
<1>3. ASSUME NEW e \in Int, e \in (p + 1)..(l + 1) PROVE e \in (q + 1)..(Len(d) + 1)
  BY <1>0, <1>1, <1>3
<1>4. CASE r \in NumberOrReferenceAt(d, p)
  BY <1>0, <1>2, <1>3, <1>4, NumberOrReferenceEnds DEF EndsBehind
<1>5. CASE r \in ArrayFrom(d, later, p)
  <2>1. PICK i \in later[p + 1]["items"] : StartsArray(d, p) /\ r = Reading(Array(i.value), i.end)
    BY <1>5 DEF ArrayFrom
  <2>2. p \in 1..l
    BY <1>0, <1>2, <2>1 DEF StartsArray, At, NoByte, LeftBracket
  <2>3. p + 1 \in (q + 1)..(Len(d) + 1)
    BY <1>0, <1>1, <2>2
  <2>4. i.end \in ((p + 1) + 1)..(l + 1)
    BY <1>0, <2>1, <2>3 DEF IsRead, EndsBehind
  <2>5. r.end = i.end
    BY <2>1 DEF Reading
  <2> QED
    BY <1>0, <1>1, <2>4, <2>5
<1>6. CASE r \in DictionaryFrom(d, later, p)
  <2>1. PICK i \in later[p + 2]["entries"] : StartsDictionary(d, p) /\ r = Reading(Dictionary(i.value), i.end)
    BY <1>6 DEF DictionaryFrom
  <2>2. p + 1 \in 1..l
    BY <1>0, <1>2, <2>1 DEF StartsDictionary, At, NoByte, Less
  <2>3. p + 2 \in (q + 1)..(Len(d) + 1)
    BY <1>0, <1>1, <2>2
  <2>4. i.end \in ((p + 2) + 1)..(l + 1)
    BY <1>0, <2>1, <2>3 DEF IsRead, EndsBehind
  <2>5. r.end = i.end
    BY <2>1 DEF Reading
  <2> QED
    BY <1>0, <1>1, <2>4, <2>5
<1>7. CASE r \in KeywordAt(d, p) \cup NameAt(d, p) \cup StringAt(d, p) \cup HexStringAt(d, p)
  BY <1>0, <1>2, <1>3, <1>7, OtherReadings
<1> QED
  BY <1>1, <1>4, <1>5, <1>6, <1>7, ValueIs

\* A key of a dictionary with its value, and the rest of the dictionary.
AreEntries(d, later, q, k, v, r) ==
    /\ k \in ValueFrom(d, later, q)
    /\ k.value.kind = "Name"
    /\ v \in later[k.end]["value"]
    /\ r \in later[v.end]["entries"]

EntriesOf(k, v, r) == Reading(Overlay([n \in {k.value.name} |-> v.value], r.value), r.end)

LEMMA EntriesAre ==
    ASSUME NEW d, NEW later, NEW q, ~EndsDictionary(d, SkipWhitespaceAndComments(d, q)), NEW x
    PROVE  x \in EntriesFrom(d, later, q) <=>
              \E k, v, r : AreEntries(d, later, q, k, v, r) /\ x = EntriesOf(k, v, r)
<1> DEFINE keys == {k \in ValueFrom(d, later, q) : k.value.kind = "Name"}
           With(k) == UNION {{EntriesOf(k, v, r) : r \in later[v.end]["entries"]} :
                               v \in later[k.end]["value"]}
<1>1. EntriesFrom(d, later, q) = UNION {With(k) : k \in keys}
  BY Zenon DEF EntriesFrom, EntriesOf
<1>2. ASSUME NEW k
      PROVE  x \in With(k) <=>
                \E v \in later[k.end]["value"] : \E r \in later[v.end]["entries"] : x = EntriesOf(k, v, r)
  OBVIOUS
<1> HIDE DEF With
<1>3. x \in EntriesFrom(d, later, q) <=> \E k \in keys : x \in With(k)
  BY <1>1
<1> QED
  BY <1>2, <1>3, Zenon DEF AreEntries

\* An item of an array, and the rest of the array.
AreItems(d, later, q, v, r) == v \in ValueFrom(d, later, q) /\ r \in later[v.end]["items"]

ItemsOf(v, r) == Reading(<<v.value>> \o r.value, r.end)

LEMMA ItemsAre ==
    ASSUME NEW d, NEW later, NEW q, ~EndsArray(d, SkipWhitespaceAndComments(d, q)), NEW x
    PROVE  x \in ItemsFrom(d, later, q) <=>
              \E v, r : AreItems(d, later, q, v, r) /\ x = ItemsOf(v, r)
BY DEF ItemsFrom, AreItems, ItemsOf

\* The rest of an array ends behind the place it is read from, and it is a list.
LEMMA ItemsEnd ==
    ASSUME NEW d \in Bytes, NEW q \in 1..(Len(d) + 1), NEW later,
           \A p \in (q + 1)..(Len(d) + 1) : IsRead(d, later[p], p)
    PROVE  EndsBehind(d, ItemsFrom(d, later, q), q) /\ AreLists(ItemsFrom(d, later, q))
<1>0. PICK l \in Nat : l = Len(d)
  BY DEF Bytes
<1>1. PICK p \in q..(l + 1) : p = SkipWhitespaceAndComments(d, q)
  BY <1>0, SkipPlace
<1>2. CASE EndsArray(d, p)
  <2>1. p \in 1..l
    BY <1>0, <1>1, <1>2 DEF EndsArray, At, NoByte, RightBracket
  <2>2. ItemsFrom(d, later, q) = {Reading(<<>>, p + 1)}
    BY <1>1, <1>2 DEF ItemsFrom
  <2>3. p + 1 \in (q + 1)..(Len(d) + 1) /\ <<>> \in Seq({})
    BY <1>0, <1>1, <2>1
  <2>4. Reading(<<>>, p + 1).end = p + 1 /\ Reading(<<>>, p + 1).value = <<>>
    BY DEF Reading
  <2> HIDE DEF Reading
  <2> QED
    BY <2>2, <2>3, <2>4 DEF EndsBehind, AreLists
<1>3. ASSUME ~EndsArray(d, p), NEW x \in ItemsFrom(d, later, q)
      PROVE  x.end \in (q + 1)..(Len(d) + 1) /\ \E S : x.value \in Seq(S)
  <2>1. PICK v, r : AreItems(d, later, q, v, r) /\ x = ItemsOf(v, r)
    BY <1>1, <1>3, ItemsAre
  <2>2. PICK e \in (q + 1)..(Len(d) + 1) : e = v.end
    BY <2>1, ValueEnds DEF AreItems, EndsBehind
  <2>3. r \in later[e]["items"] /\ IsRead(d, later[e], e)
    BY <2>1, <2>2 DEF AreItems
  <2>4. r.end \in (e + 1)..(Len(d) + 1) /\ \E S : r.value \in Seq(S)
    BY <2>3 DEF IsRead, EndsBehind, AreLists
  <2>5. PICK S : r.value \in Seq(S)
    BY <2>4
  <2>6. x.end = r.end /\ x.value = <<v.value>> \o r.value
    BY <2>1 DEF ItemsOf, Reading
  <2>7. <<v.value>> \in Seq(S \cup {v.value}) /\ r.value \in Seq(S \cup {v.value})
    BY <2>5, SeqMonotonic
  <2>8. x.value \in Seq(S \cup {v.value})
    BY <2>6, <2>7, ConcatProperties
  <2>9. r.end \in (q + 1)..(Len(d) + 1)
    BY <1>0, <2>4
  <2> QED
    BY <2>6, <2>8, <2>9
<1> QED
  BY <1>2, <1>3 DEF EndsBehind, AreLists

LEMMA OverlayIsMap == ASSUME NEW x, NEW y PROVE IsMap(Overlay(x, y))
BY DEF IsMap, Overlay

LEMMA EmptyMapIsMap == IsMap(EmptyMap) /\ DOMAIN EmptyMap = {}
BY DEF IsMap, EmptyMap

\* The rest of a dictionary ends behind the place it is read from, and it is a map.
LEMMA EntriesEnd ==
    ASSUME NEW d \in Bytes, NEW q \in 1..(Len(d) + 1), NEW later,
           \A p \in (q + 1)..(Len(d) + 1) : IsRead(d, later[p], p)
    PROVE  EndsBehind(d, EntriesFrom(d, later, q), q) /\ AreMaps(EntriesFrom(d, later, q))
<1>0. PICK l \in Nat : l = Len(d)
  BY DEF Bytes
<1>1. PICK p \in q..(l + 1) : p = SkipWhitespaceAndComments(d, q)
  BY <1>0, SkipPlace
<1>2. CASE EndsDictionary(d, p)
  <2>1. p + 1 \in 1..l
    BY <1>0, <1>1, <1>2 DEF EndsDictionary, At, NoByte, Greater
  <2>2. EntriesFrom(d, later, q) = {Reading(EmptyMap, p + 2)}
    BY <1>1, <1>2 DEF EntriesFrom
  <2>3. p + 2 \in (q + 1)..(Len(d) + 1)
    BY <1>0, <1>1, <2>1
  <2> QED
    BY <2>2, <2>3, ReadingIs, EmptyMapIsMap DEF EndsBehind, AreMaps
<1>3. ASSUME ~EndsDictionary(d, p), NEW x \in EntriesFrom(d, later, q)
      PROVE  x.end \in (q + 1)..(Len(d) + 1) /\ IsMap(x.value)
  <2>1. PICK k, v, r : AreEntries(d, later, q, k, v, r) /\ x = EntriesOf(k, v, r)
    BY <1>1, <1>3, EntriesAre
  <2>2. PICK a \in (q + 1)..(Len(d) + 1) : a = k.end
    BY <2>1, ValueEnds DEF AreEntries, EndsBehind
  <2>3. v \in later[a]["value"] /\ IsRead(d, later[a], a)
    BY <2>1, <2>2 DEF AreEntries
  <2>4. PICK e \in (a + 1)..(Len(d) + 1) : e = v.end
    BY <2>3 DEF IsRead, EndsBehind
  <2>5. e \in (q + 1)..(Len(d) + 1)
    BY <1>0
  <2>6. r \in later[e]["entries"] /\ IsRead(d, later[e], e)
    BY <2>1, <2>4, <2>5 DEF AreEntries
  <2>7. r.end \in (e + 1)..(Len(d) + 1)
    BY <2>6 DEF IsRead, EndsBehind
  <2>8. r.end \in (q + 1)..(Len(d) + 1)
    BY <1>0, <2>5, <2>7
  <2>9. x.end = r.end /\ IsMap(x.value)
    BY <2>1, OverlayIsMap DEF EntriesOf, Reading
  <2> QED
    BY <2>8, <2>9
<1> QED
  BY <1>2, <1>3 DEF EndsBehind, AreMaps

LEMMA PartsAre ==
    ASSUME NEW d, NEW later, NEW q
    PROVE  /\ PartsFrom(d, later, q)["value"] = ValueFrom(d, later, q)
           /\ PartsFrom(d, later, q)["items"] = ItemsFrom(d, later, q)
           /\ PartsFrom(d, later, q)["entries"] = EntriesFrom(d, later, q)
BY DEF PartsFrom

LEMMA PartsAreRead ==
    ASSUME NEW d \in Bytes, NEW q \in 1..(Len(d) + 1), NEW later,
           \A p \in (q + 1)..(Len(d) + 1) : IsRead(d, later[p], p)
    PROVE  IsRead(d, PartsFrom(d, later, q), q)
BY ValueEnds, ItemsEnd, EntriesEnd, PartsAre, Zenon DEF IsRead

LEMMA ValueAgrees ==
    ASSUME NEW d \in Bytes, NEW q \in 1..(Len(d) + 1), NEW f, NEW h,
           \A p \in (q + 1)..(Len(d) + 1) : f[p] = h[p]
    PROVE  ValueFrom(d, f, q) = ValueFrom(d, h, q)
<1>0. PICK l \in Nat : l = Len(d)
  BY DEF Bytes
<1>1. PICK p \in q..(l + 1) : p = SkipWhitespaceAndComments(d, q)
  BY <1>0, SkipPlace
<1>2. ASSUME StartsArray(d, p) PROVE f[p + 1] = h[p + 1]
  <2>1. p \in 1..l
    BY <1>0, <1>1, <1>2 DEF StartsArray, At, NoByte, LeftBracket
  <2>2. p + 1 \in (q + 1)..(Len(d) + 1)
    BY <1>0, <1>1, <2>1
  <2> QED
    BY <2>2
<1>3. ASSUME StartsDictionary(d, p) PROVE f[p + 2] = h[p + 2]
  <2>1. p + 1 \in 1..l
    BY <1>0, <1>1, <1>3 DEF StartsDictionary, At, NoByte, Less
  <2>2. p + 2 \in (q + 1)..(Len(d) + 1)
    BY <1>0, <1>1, <2>1
  <2> QED
    BY <2>2
<1>4. ArrayFrom(d, f, p) = ArrayFrom(d, h, p)
  BY <1>2, Zenon DEF ArrayFrom
<1>5. DictionaryFrom(d, f, p) = DictionaryFrom(d, h, p)
  BY <1>3, Zenon DEF DictionaryFrom
<1> QED
  BY <1>1, <1>4, <1>5, Zenon DEF ValueFrom

\* What a place says depends only on what the places behind it say.
LEMMA PartsAgree ==
    ASSUME NEW d \in Bytes, NEW q \in 1..(Len(d) + 1), NEW f, NEW h,
           \A p \in (q + 1)..(Len(d) + 1) : f[p] = h[p] /\ IsRead(d, f[p], p)
    PROVE  PartsFrom(d, f, q) = PartsFrom(d, h, q)
<1>0. PICK l \in Nat : l = Len(d)
  BY DEF Bytes
<1>1. ValueFrom(d, f, q) = ValueFrom(d, h, q)
  BY ValueAgrees
<1>2. EndsBehind(d, ValueFrom(d, f, q), q)
  BY ValueEnds
<1>3. ASSUME NEW v \in ValueFrom(d, f, q)
      PROVE  f[v.end] = h[v.end] /\ IsRead(d, f[v.end], v.end) /\ v.end \in (q + 1)..(Len(d) + 1)
  BY <1>2 DEF EndsBehind
<1>4. ItemsFrom(d, f, q) = ItemsFrom(d, h, q)
  <2>1. CASE EndsArray(d, SkipWhitespaceAndComments(d, q))
    BY <2>1, Zenon DEF ItemsFrom
  <2>2. CASE ~EndsArray(d, SkipWhitespaceAndComments(d, q))
    <3>1. \A v, r : AreItems(d, f, q, v, r) <=> AreItems(d, h, q, v, r)
      BY <1>1, <1>3, Zenon DEF AreItems
    <3>2. ASSUME NEW x PROVE x \in ItemsFrom(d, f, q) <=> x \in ItemsFrom(d, h, q)
      <4>1. x \in ItemsFrom(d, f, q) <=> \E v, r : AreItems(d, f, q, v, r) /\ x = ItemsOf(v, r)
        BY <2>2, ItemsAre
      <4>2. x \in ItemsFrom(d, h, q) <=> \E v, r : AreItems(d, h, q, v, r) /\ x = ItemsOf(v, r)
        BY <2>2, ItemsAre
      <4> QED
        BY <3>1, <4>1, <4>2, Zenon
    <3> QED
      BY <3>2, Zenon
  <2> QED
    BY <2>1, <2>2
<1>5. EntriesFrom(d, f, q) = EntriesFrom(d, h, q)
  <2>1. CASE EndsDictionary(d, SkipWhitespaceAndComments(d, q))
    BY <2>1, Zenon DEF EntriesFrom
  <2>2. CASE ~EndsDictionary(d, SkipWhitespaceAndComments(d, q))
    <3>1. ASSUME NEW k \in ValueFrom(d, f, q), NEW v \in f[k.end]["value"]
          PROVE  f[v.end] = h[v.end]
      <4>1. PICK a \in (q + 1)..(Len(d) + 1) : a = k.end
        BY <1>3
      <4>2. v.end \in (a + 1)..(Len(d) + 1)
        BY <3>1, <4>1 DEF IsRead, EndsBehind
      <4>3. v.end \in (q + 1)..(Len(d) + 1)
        BY <1>0, <4>2
      <4> QED
        BY <4>3
    <3>2. ASSUME NEW k, NEW v, NEW r
          PROVE  AreEntries(d, f, q, k, v, r) <=> AreEntries(d, h, q, k, v, r)
      BY <1>1, <1>3, <3>1, Zenon DEF AreEntries
    <3>3. ASSUME NEW x PROVE x \in EntriesFrom(d, f, q) <=> x \in EntriesFrom(d, h, q)
      <4>1. x \in EntriesFrom(d, f, q) <=>
               \E k, v, r : AreEntries(d, f, q, k, v, r) /\ x = EntriesOf(k, v, r)
        BY <2>2, EntriesAre
      <4>2. x \in EntriesFrom(d, h, q) <=>
               \E k, v, r : AreEntries(d, h, q, k, v, r) /\ x = EntriesOf(k, v, r)
        BY <2>2, EntriesAre
      <4> QED
        BY <3>2, <4>1, <4>2, Zenon
    <3> QED
      BY <3>3, Zenon
  <2> QED
    BY <2>1, <2>2
<1> QED
  BY <1>1, <1>4, <1>5, Zenon DEF PartsFrom

\* The readings of the last k places, and of the end, are what PartsFrom says of them.
Solves(d, f, k) ==
    /\ f = [q \in 1..(Len(d) + 1) |-> f[q]]
    /\ \A q \in 1..(Len(d) + 1) : q + k > Len(d) + 1 =>
          f[q] = PartsFrom(d, f, q) /\ IsRead(d, f[q], q)

\* So there is an answer for all places, from the last on.
LEMMA SolutionExists ==
    ASSUME NEW d \in Bytes
    PROVE  \A k \in Nat : \E f : Solves(d, f, k)
<1> DEFINE S == {k \in Nat : \E f : Solves(d, f, k)}
<1>0. PICK l \in Nat : l = Len(d)
  BY DEF Bytes
<1>1. 0 \in S
  <2> DEFINE f == [q \in 1..(Len(d) + 1) |-> 0]
  <2>1. f = [q \in 1..(Len(d) + 1) |-> f[q]]
    OBVIOUS
  <2>2. \A q \in 1..(Len(d) + 1) : ~(q + 0 > Len(d) + 1)
    BY <1>0
  <2> HIDE DEF f
  <2>3. Solves(d, f, 0)
    BY <2>1, <2>2, Zenon DEF Solves
  <2> QED
    BY <2>3
<1>2. ASSUME NEW k \in Nat, k \in S PROVE k + 1 \in S
  <2>1. PICK f : Solves(d, f, k)
    BY <1>2
  <2> DEFINE h == [q \in 1..(Len(d) + 1) |-> PartsFrom(d, f, q)]
  <2>2. h = [q \in 1..(Len(d) + 1) |-> h[q]]
    BY Zenon
  <2>3. ASSUME NEW q \in 1..(Len(d) + 1) PROVE h[q] = PartsFrom(d, f, q)
    BY Zenon
  <2> HIDE DEF h
  <2>4. ASSUME NEW q \in 1..(Len(d) + 1), q + (k + 1) > Len(d) + 1
        PROVE  h[q] = PartsFrom(d, h, q) /\ IsRead(d, h[q], q)
    <3>1. ASSUME NEW p \in (q + 1)..(Len(d) + 1) PROVE f[p] = h[p] /\ IsRead(d, f[p], p)
      <4>1. p \in 1..(Len(d) + 1) /\ p + k > Len(d) + 1
        BY <1>0, <2>4
      <4>2. f[p] = PartsFrom(d, f, p) /\ IsRead(d, f[p], p)
        BY <2>1, <4>1 DEF Solves
      <4> QED
        BY <2>3, <4>1, <4>2
    <3>2. PartsFrom(d, f, q) = PartsFrom(d, h, q)
      BY <3>1, PartsAgree
    <3>3. IsRead(d, PartsFrom(d, f, q), q)
      BY <3>1, PartsAreRead
    <3> QED
      BY <2>3, <3>2, <3>3
  <2>5. Solves(d, h, k + 1)
    BY <2>2, <2>4 DEF Solves
  <2> QED
    BY <2>5
<1> HIDE DEF S
<1>3. \A k \in Nat : k \in S
  BY <1>1, <1>2, NatInduct
<1> QED
  BY <1>3 DEF S

\* The readings of a text are what each place says, given what is read behind it.
LEMMA ReadingsAre ==
    ASSUME NEW d \in Bytes, NEW q \in 1..(Len(d) + 1)
    PROVE  Readings(d)[q] = PartsFrom(d, Readings(d), q) /\ IsRead(d, Readings(d)[q], q)
<1>0. PICK l \in Nat : l = Len(d)
  BY DEF Bytes
<1> DEFINE Is(f) == f = [p \in 1..(Len(d) + 1) |-> PartsFrom(d, f, p)]
<1>1. PICK f : Solves(d, f, Len(d) + 1)
  BY <1>0, SolutionExists
<1>2. ASSUME NEW p \in 1..(Len(d) + 1) PROVE f[p] = PartsFrom(d, f, p)
  <2>1. p + (Len(d) + 1) > Len(d) + 1
    BY <1>0
  <2> QED
    BY <1>1, <2>1 DEF Solves
<1>3. f = [p \in 1..(Len(d) + 1) |-> f[p]]
  BY <1>1 DEF Solves
<1>4. Is(f)
  BY <1>2, <1>3, Zenon
<1>5. Readings(d) = CHOOSE g : Is(g)
  BY Zenon DEF Readings
<1>6. Is(Readings(d))
  BY <1>4, <1>5, Zenon
<1> DEFINE g == Readings(d)
<1>7. ASSUME NEW p \in 1..(Len(d) + 1) PROVE g[p] = PartsFrom(d, g, p)
  BY <1>6, Zenon
<1> HIDE DEF g, Is
<1> DEFINE S == {k \in Nat : \A p \in 1..(Len(d) + 1) : p + k > Len(d) + 1 => IsRead(d, g[p], p)}
<1>8. 0 \in S
  BY <1>0
<1>9. ASSUME NEW k \in Nat, k \in S PROVE k + 1 \in S
  <2>1. ASSUME NEW p \in 1..(Len(d) + 1), p + (k + 1) > Len(d) + 1 PROVE IsRead(d, g[p], p)
    <3>1. ASSUME NEW b \in (p + 1)..(Len(d) + 1) PROVE IsRead(d, g[b], b)
      <4>1. b \in 1..(Len(d) + 1) /\ b + k > Len(d) + 1
        BY <1>0, <2>1
      <4> QED
        BY <1>9, <4>1
    <3>2. IsRead(d, PartsFrom(d, g, p), p)
      BY <3>1, PartsAreRead
    <3> QED
      BY <1>7, <3>2
  <2> QED
    BY <2>1
<1> HIDE DEF S
<1>10. \A k \in Nat : k \in S
  BY <1>8, <1>9, NatInduct
<1>11. Len(d) + 1 \in S /\ q + (Len(d) + 1) > Len(d) + 1
  BY <1>0, <1>10
<1>12. IsRead(d, g[q], q)
  BY <1>11 DEF S
<1> QED
  BY <1>7, <1>12 DEF g

-----------------------------------------------------------------------------
(***************************************************************************)
(* The first byte decides what is read                                     *)
(***************************************************************************)

LexemesAt(d, p) == KeywordAt(d, p) \cup NameAt(d, p) \cup StringAt(d, p) \cup HexStringAt(d, p)

\* There is one keyword at a place at most.
LEMMA KeywordIs ==
    ASSUME NEW d \in Bytes, NEW p \in 1..(Len(d) + 1), NEW r \in KeywordAt(d, p)
    PROVE  /\ At(d, p) \in {110, 116, 102}
           /\ KeywordAt(d, p) = {r}
           /\ r = Reading(r.value, r.end)
           /\ r.value # Nothing
<1> DEFINE n == <<110, 117, 108, 108>>
           t == <<116, 114, 117, 101>>
           f == <<102, 97, 108, 115, 101>>
           a == [text |-> n, value |-> Null]
           b == [text |-> t, value |-> Boolean(TRUE)]
           c == [text |-> f, value |-> Boolean(FALSE)]
           Of(k) == Reading(k.value, p + Len(k.text))
<1>0. PICK l \in Nat : l = Len(d)
  BY DEF Bytes
<1>1. Keywords = {a, b, c}
  BY Zenon DEF Keywords
<1>2. Len(n) = 4 /\ Len(t) = 4 /\ Len(f) = 5 /\ n[1] = 110 /\ t[1] = 116 /\ f[1] = 102
  OBVIOUS
<1> HIDE DEF n, t, f
<1>3. a.text = n /\ b.text = t /\ c.text = f
  OBVIOUS
<1>12. a.value = Null /\ b.value = Boolean(TRUE) /\ c.value = Boolean(FALSE)
  OBVIOUS
<1> HIDE DEF a, b, c
<1>13. /\ Len(a.text) = 4 /\ Len(b.text) = 4 /\ Len(c.text) = 5
       /\ a.text[1] = 110 /\ b.text[1] = 116 /\ c.text[1] = 102
  BY <1>2, <1>3, Zenon
<1>4. ASSUME NEW k \in Keywords PROVE Len(k.text) \in 4..5 /\ k.text[1] \in {110, 116, 102}
  BY <1>1, <1>13
<1>5. ASSUME NEW j \in Keywords, NEW k \in Keywords, j.text[1] = k.text[1] PROVE j = k
  BY <1>1, <1>5, <1>13
<1>6. ASSUME NEW k \in Keywords, p + Len(k.text) <= l + 1, Text(d, p, p + Len(k.text)) = k.text
      PROVE  At(d, p) = k.text[1]
  <2>1. p + Len(k.text) - 1 \in p..l /\ p \in 1..Len(d)
    BY <1>0, <1>4, <1>6
  <2>2. Text(d, p, p + Len(k.text))[1] = d[p]
    BY <1>0, <1>4, <2>1, SubSeqProperties DEF Text, Bytes
  <2> QED
    BY <1>6, <2>1, <2>2, AtByte
<1>7. ASSUME NEW s \in KeywordAt(d, p)
      PROVE  \E k \in Keywords : s = Of(k) /\ At(d, p) = k.text[1]
  <2>1. PICK k \in Keywords : /\ p + Len(k.text) <= Len(d) + 1
                              /\ Text(d, p, p + Len(k.text)) = k.text
                              /\ s = Of(k)
    BY DEF KeywordAt
  <2> QED
    BY <1>0, <1>6, <2>1
<1>8. PICK k \in Keywords : r = Of(k) /\ At(d, p) = k.text[1]
  BY <1>7
<1>9. \A s \in KeywordAt(d, p) : s = r
  BY <1>5, <1>7, <1>8
<1>10. k.value.kind \in {"Null", "Boolean"}
  <2>1. k.value = Null \/ k.value = Boolean(TRUE) \/ k.value = Boolean(FALSE)
    BY <1>1, <1>12, Zenon
  <2> QED
    BY <2>1 DEF Null, Boolean
<1>11. k.value # Nothing
  BY <1>10 DEF Nothing
<1> QED
  BY <1>4, <1>8, <1>9, <1>11, ReadingIs

\* There is one keyword, name or string at a place at most.
LEMMA LexemeIs ==
    ASSUME NEW d \in Bytes, NEW p \in 1..(Len(d) + 1), NEW r \in LexemesAt(d, p)
    PROVE  /\ LexemesAt(d, p) = {r}
           /\ r = Reading(r.value, r.end)
           /\ r.value # Nothing
<1>1. /\ KeywordAt(d, p) # {} => At(d, p) \in {110, 116, 102}
      /\ NameAt(d, p) # {} => At(d, p) = Slash
      /\ StringAt(d, p) # {} => At(d, p) = LeftParen
      /\ HexStringAt(d, p) # {} => At(d, p) = Less
  BY KeywordIs DEF NameAt, StringAt, HexStringAt
<1>2. \/ r \in KeywordAt(d, p) /\ LexemesAt(d, p) = KeywordAt(d, p)
      \/ r \in NameAt(d, p) /\ LexemesAt(d, p) = NameAt(d, p)
      \/ r \in StringAt(d, p) /\ LexemesAt(d, p) = StringAt(d, p)
      \/ r \in HexStringAt(d, p) /\ LexemesAt(d, p) = HexStringAt(d, p)
  BY <1>1 DEF LexemesAt, Slash, LeftParen, Less
<1>3. ASSUME r \in NameAt(d, p)
      PROVE  NameAt(d, p) = {r} /\ r = Reading(r.value, r.end) /\ r.value # Nothing
  <2>1. r = Reading(Name(Text(d, p + 1, EndOfName(d, p))), EndOfName(d, p))
    BY <1>3 DEF NameAt
  <2>2. \A s \in NameAt(d, p) : s = r
    BY <2>1 DEF NameAt
  <2>3. Name(Text(d, p + 1, EndOfName(d, p))).kind # Nothing.kind
    BY DEF Name, Nothing
  <2> QED
    BY <1>3, <2>1, <2>2, <2>3, ReadingIs
<1>4. ASSUME r \in StringAt(d, p)
      PROVE  StringAt(d, p) = {r} /\ r = Reading(r.value, r.end) /\ r.value # Nothing
  <2> DEFINE Of(e) == Reading(String(StringBytes(d, p, e)), e + 1)
             Ends == {e \in StringEnds(d, p) : \A f \in StringEnds(d, p) : e <= f}
  <2>1. StringAt(d, p) = {Of(e) : e \in Ends}
    BY <1>4 DEF StringAt
  <2>2. \A e \in StringEnds(d, p) : e \in Nat
    BY DEF StringEnds
  <2>3. \A e, f \in Ends : e = f
    BY <2>2
  <2> HIDE DEF Ends
  <2>4. PICK e \in Ends : r = Of(e)
    BY <1>4, <2>1
  <2>5. \A s \in StringAt(d, p) : s = r
    BY <2>1, <2>3, <2>4
  <2>6. String(StringBytes(d, p, e)).kind # Nothing.kind
    BY DEF String, Nothing
  <2> QED
    BY <1>4, <2>4, <2>5, <2>6, ReadingIs
<1>5. ASSUME r \in HexStringAt(d, p)
      PROVE  HexStringAt(d, p) = {r} /\ r = Reading(r.value, r.end) /\ r.value # Nothing
  <2> DEFINE e == EndOfHexString(d, p)
  <2>1. r = Reading(String(HexStringBytes(d, p, e)), e + 1)
    BY <1>5 DEF HexStringAt
  <2>2. \A s \in HexStringAt(d, p) : s = r
    BY <2>1 DEF HexStringAt
  <2>3. String(HexStringBytes(d, p, e)).kind # Nothing.kind
    BY DEF String, Nothing
  <2> QED
    BY <1>5, <2>1, <2>2, <2>3, ReadingIs
<1> QED
  BY <1>2, <1>3, <1>4, <1>5, KeywordIs

\* There is one number at a place at most.
LEMMA NumberIs ==
    ASSUME NEW d, NEW p, NEW n \in NumberAt(d, p)
    PROVE  /\ NumberAt(d, p) = {n}
           /\ n = Reading(n.value, n.end)
           /\ n.value.kind = "Number"
           /\ At(d, p) \in NumberStart
<1>1. n = Reading(NumberFrom(Text(d, p, EndOfNumber(d, p))), EndOfNumber(d, p))
  BY DEF NumberAt
<1>2. \A s \in NumberAt(d, p) : s = n
  BY <1>1 DEF NumberAt
<1>3. NumberFrom(Text(d, p, EndOfNumber(d, p))).kind = "Number"
  BY DEF NumberFrom, Number
<1>4. At(d, p) \in NumberStart
  BY DEF NumberAt
<1> QED
  BY <1>1, <1>2, <1>3, <1>4, ReadingIs

\* The parts of a value, each with the bytes it starts with.
LEMMA StartsApart ==
    ASSUME NEW d \in Bytes, NEW p \in 1..(Len(d) + 1)
    PROVE  /\ NumberOrReferenceAt(d, p) # {} => NumberAt(d, p) # {}
           /\ NumberAt(d, p) # {} => At(d, p) \in NumberStart
           /\ LexemesAt(d, p) # {} =>
                 /\ At(d, p) \in {110, 116, 102, Slash, LeftParen, Less}
                 /\ At(d, p) = Less => At(d, p + 1) # Less
           /\ StartsArray(d, p) => At(d, p) = LeftBracket
           /\ StartsDictionary(d, p) => At(d, p) = Less /\ At(d, p + 1) = Less
<1>1. NumberOrReferenceAt(d, p) # {} => NumberAt(d, p) # {}
  BY DEF NumberOrReferenceAt, ReferenceAt
<1>2. NumberAt(d, p) # {} => At(d, p) \in NumberStart
  BY DEF NumberAt
<1>3. KeywordAt(d, p) # {} => At(d, p) \in {110, 116, 102}
  BY KeywordIs
<1>4. NameAt(d, p) # {} => At(d, p) = Slash
  BY DEF NameAt
<1>5. StringAt(d, p) # {} => At(d, p) = LeftParen
  BY DEF StringAt
<1>6. HexStringAt(d, p) # {} => At(d, p) = Less /\ At(d, p + 1) # Less
  BY DEF HexStringAt
<1> QED
  BY <1>1, <1>2, <1>3, <1>4, <1>5, <1>6
  DEF LexemesAt, StartsArray, StartsDictionary, Slash, LeftParen, Less

\* What starts at a place starts nothing else.
LEMMA StartsExclude ==
    ASSUME NEW d \in Bytes, NEW p \in 1..(Len(d) + 1)
    PROVE  /\ LexemesAt(d, p) # {} =>
                 NumberOrReferenceAt(d, p) = {} /\ ~StartsArray(d, p) /\ ~StartsDictionary(d, p)
           /\ NumberAt(d, p) # {} =>
                 LexemesAt(d, p) = {} /\ ~StartsArray(d, p) /\ ~StartsDictionary(d, p)
           /\ StartsArray(d, p) =>
                 LexemesAt(d, p) = {} /\ NumberOrReferenceAt(d, p) = {} /\ ~StartsDictionary(d, p)
           /\ StartsDictionary(d, p) =>
                 LexemesAt(d, p) = {} /\ NumberOrReferenceAt(d, p) = {} /\ ~StartsArray(d, p)
<1> DEFINE b == At(d, p)
           K == {110, 116, 102, Slash, LeftParen, Less}
<1>1. /\ NumberOrReferenceAt(d, p) # {} => NumberAt(d, p) # {}
      /\ NumberAt(d, p) # {} => b \in NumberStart
      /\ LexemesAt(d, p) # {} => b \in K /\ (b = Less => At(d, p + 1) # Less)
      /\ StartsArray(d, p) => b = LeftBracket
      /\ StartsDictionary(d, p) => b = Less /\ At(d, p + 1) = Less
  BY StartsApart
<1>2. /\ \A c \in NumberStart : c \notin K /\ c # LeftBracket /\ c # Less
      /\ \A c \in K : c # LeftBracket
      /\ LeftBracket # Less
  BY DEF NumberStart, Digits, Plus, Minus, Dot, Slash, LeftParen, Less, LeftBracket
<1> HIDE DEF b, K
<1> QED
  BY <1>1, <1>2, Zenon

-----------------------------------------------------------------------------
(***************************************************************************)
(* What the grammar says of a place, by what stands there                  *)
(***************************************************************************)

Start(d, q) == SkipWhitespaceAndComments(d, q)

ItemsAt(d, q)   == Readings(d)[q]["items"]
EntriesAt(d, q) == Readings(d)[q]["entries"]

\* Nothing ends here that is open.
GoesOn(d, q) == ~EndsArray(d, Start(d, q)) /\ ~EndsDictionary(d, Start(d, q))

LEMMA StartPlace ==
    ASSUME NEW d \in Bytes, NEW q \in 1..(Len(d) + 1)
    PROVE  Start(d, q) \in 1..(Len(d) + 1) /\ Start(d, q) \in q..(Len(d) + 1)
<1>1. Start(d, q) \in q..(Len(d) + 1)
  BY SkipPlace DEF Start
<1> QED
  BY <1>1 DEF Bytes

\* What the grammar says of a place.
LEMMA SaysParts ==
    ASSUME NEW d \in Bytes, NEW q \in 1..(Len(d) + 1)
    PROVE  /\ ValueAt(d, q) = ValueFrom(d, Readings(d), q)
           /\ ItemsAt(d, q) = ItemsFrom(d, Readings(d), q)
           /\ EntriesAt(d, q) = EntriesFrom(d, Readings(d), q)
           /\ EndsBehind(d, ValueAt(d, q), q)
           /\ EndsBehind(d, ItemsAt(d, q), q)
           /\ EndsBehind(d, EntriesAt(d, q), q)
           /\ AreLists(ItemsAt(d, q))
           /\ AreMaps(EntriesAt(d, q))
<1>1. Readings(d)[q] = PartsFrom(d, Readings(d), q) /\ IsRead(d, Readings(d)[q], q)
  BY ReadingsAre
<1> QED
  BY <1>1, PartsAre, Zenon DEF IsRead, ValueAt, ItemsAt, EntriesAt

LEMMA ValueIsOneOf ==
    ASSUME NEW d \in Bytes, NEW q \in 1..(Len(d) + 1)
    PROVE  ValueAt(d, q) = NumberOrReferenceAt(d, Start(d, q)) \cup ArrayFrom(d, Readings(d), Start(d, q))
                              \cup DictionaryFrom(d, Readings(d), Start(d, q)) \cup LexemesAt(d, Start(d, q))
BY SaysParts, ValueIs, Zenon DEF Start, LexemesAt

\* A keyword, a name or a string is all that a place says.
LEMMA SaysLexeme ==
    ASSUME NEW d \in Bytes, NEW q \in 1..(Len(d) + 1), NEW r \in LexemesAt(d, Start(d, q))
    PROVE  ValueAt(d, q) = {Reading(r.value, r.end)} /\ r.value # Nothing
<1>1. Start(d, q) \in 1..(Len(d) + 1)
  BY StartPlace
<1>2. /\ LexemesAt(d, Start(d, q)) = {r}
      /\ r = Reading(r.value, r.end)
      /\ r.value # Nothing
  BY <1>1, LexemeIs
<1>3. NumberOrReferenceAt(d, Start(d, q)) = {} /\ ~StartsArray(d, Start(d, q)) /\ ~StartsDictionary(d, Start(d, q))
  BY <1>1, StartsExclude
<1>4. ArrayFrom(d, Readings(d), Start(d, q)) = {} /\ DictionaryFrom(d, Readings(d), Start(d, q)) = {}
  BY <1>3 DEF ArrayFrom, DictionaryFrom
<1> QED
  BY <1>2, <1>3, <1>4, ValueIsOneOf

\* A number starts itself or a reference.
LEMMA SaysNumber ==
    ASSUME NEW d \in Bytes, NEW q \in 1..(Len(d) + 1), NumberAt(d, Start(d, q)) # {}
    PROVE  ValueAt(d, q) = NumberOrReferenceAt(d, Start(d, q))
<1>1. Start(d, q) \in 1..(Len(d) + 1)
  BY StartPlace
<1>2. At(d, Start(d, q)) \in NumberStart
  BY <1>1, StartsApart
<1>3. LexemesAt(d, Start(d, q)) = {} /\ ~StartsArray(d, Start(d, q)) /\ ~StartsDictionary(d, Start(d, q))
  BY <1>1, StartsExclude
<1>4. ArrayFrom(d, Readings(d), Start(d, q)) = {} /\ DictionaryFrom(d, Readings(d), Start(d, q)) = {}
  BY <1>3 DEF ArrayFrom, DictionaryFrom
<1> QED
  BY <1>3, <1>4, ValueIsOneOf

\* A bracket starts an array.
LEMMA SaysArray ==
    ASSUME NEW d \in Bytes, NEW q \in 1..(Len(d) + 1), StartsArray(d, Start(d, q))
    PROVE  /\ ValueAt(d, q) = {Reading(Array(r.value), r.end) : r \in ItemsAt(d, Start(d, q) + 1)}
           /\ GoesOn(d, q)
<1>1. Start(d, q) \in 1..(Len(d) + 1)
  BY StartPlace
<1>2. At(d, Start(d, q)) = LeftBracket
  BY DEF StartsArray
<1>3. /\ LexemesAt(d, Start(d, q)) = {}
      /\ NumberOrReferenceAt(d, Start(d, q)) = {}
      /\ ~StartsDictionary(d, Start(d, q))
  BY <1>1, StartsExclude
<1>4. DictionaryFrom(d, Readings(d), Start(d, q)) = {}
  BY <1>3 DEF DictionaryFrom
<1>5. ArrayFrom(d, Readings(d), Start(d, q)) = {Reading(Array(r.value), r.end) : r \in ItemsAt(d, Start(d, q) + 1)}
  BY Zenon DEF ArrayFrom, ItemsAt
<1>6. GoesOn(d, q)
  BY <1>2 DEF GoesOn, EndsArray, EndsDictionary, LeftBracket, RightBracket, Greater
<1> QED
  BY <1>3, <1>4, <1>5, <1>6, ValueIsOneOf

\* Two signs "<" start a dictionary.
LEMMA SaysDictionary ==
    ASSUME NEW d \in Bytes, NEW q \in 1..(Len(d) + 1), StartsDictionary(d, Start(d, q))
    PROVE  /\ ValueAt(d, q) = {Reading(Dictionary(r.value), r.end) : r \in EntriesAt(d, Start(d, q) + 2)}
           /\ GoesOn(d, q)
<1>1. Start(d, q) \in 1..(Len(d) + 1)
  BY StartPlace
<1>2. At(d, Start(d, q)) = Less /\ At(d, Start(d, q) + 1) = Less
  BY DEF StartsDictionary
<1>3. /\ LexemesAt(d, Start(d, q)) = {}
      /\ NumberOrReferenceAt(d, Start(d, q)) = {}
      /\ ~StartsArray(d, Start(d, q))
  BY <1>1, StartsExclude
<1>4. ArrayFrom(d, Readings(d), Start(d, q)) = {}
  BY <1>3 DEF ArrayFrom
<1>5. DictionaryFrom(d, Readings(d), Start(d, q)) =
         {Reading(Dictionary(r.value), r.end) : r \in EntriesAt(d, Start(d, q) + 2)}
  BY Zenon DEF DictionaryFrom, EntriesAt
<1>6. GoesOn(d, q)
  BY <1>2 DEF GoesOn, EndsArray, EndsDictionary, Less, RightBracket, Greater
<1> QED
  BY <1>3, <1>4, <1>5, <1>6, ValueIsOneOf

\* What starts no object says nothing.
LEMMA SaysNothing ==
    ASSUME NEW d \in Bytes, NEW q \in 1..(Len(d) + 1), ~StartsObject(d, Start(d, q))
    PROVE  ValueAt(d, q) = {}
<1>1. Start(d, q) \in 1..(Len(d) + 1)
  BY StartPlace
<1>2. /\ ~StartsArray(d, Start(d, q))
      /\ ~StartsDictionary(d, Start(d, q))
      /\ NumberAt(d, Start(d, q)) = {}
      /\ LexemesAt(d, Start(d, q)) = {}
  BY DEF StartsObject, LexemesAt
<1>3. NumberOrReferenceAt(d, Start(d, q)) = {}
  BY <1>1, <1>2, StartsApart
<1>4. ArrayFrom(d, Readings(d), Start(d, q)) = {} /\ DictionaryFrom(d, Readings(d), Start(d, q)) = {}
  BY <1>2 DEF ArrayFrom, DictionaryFrom
<1> QED
  BY <1>2, <1>3, <1>4, ValueIsOneOf

\* Where a value can be read no array and no dictionary ends.
LEMMA ValueGoesOn ==
    ASSUME NEW d \in Bytes, NEW q \in 1..(Len(d) + 1), ValueAt(d, q) # {}
    PROVE  GoesOn(d, q)
<1>1. Start(d, q) \in 1..(Len(d) + 1)
  BY StartPlace
<1>2. CASE StartsArray(d, Start(d, q)) \/ StartsDictionary(d, Start(d, q))
  BY <1>2, SaysArray, SaysDictionary
<1>3. CASE ~StartsArray(d, Start(d, q)) /\ ~StartsDictionary(d, Start(d, q))
  <2>1. ArrayFrom(d, Readings(d), Start(d, q)) = {} /\ DictionaryFrom(d, Readings(d), Start(d, q)) = {}
    BY <1>3 DEF ArrayFrom, DictionaryFrom
  <2>2. NumberOrReferenceAt(d, Start(d, q)) # {} \/ LexemesAt(d, Start(d, q)) # {}
    BY <2>1, ValueIsOneOf
  <2>3. At(d, Start(d, q)) \notin {RightBracket, Greater}
    BY <1>1, <2>2, StartsApart DEF NumberStart, Digits, Plus, Minus, Dot, Slash, LeftParen, Less,
       RightBracket, Greater
  <2> QED
    BY <2>3 DEF GoesOn, EndsArray, EndsDictionary
<1> QED
  BY <1>2, <1>3

\* A parser at place p goes on as the grammar does at place q: at the end of the text the
\* white space behind a number may be gone.
SamePlace(d, q, p) == q = p \/ (p = Len(d) + 1 /\ SkipWhitespace(d, q) = p)

\* Both read the same next.
LEMMA SameStart ==
    ASSUME NEW d \in Bytes, NEW q \in 1..(Len(d) + 1), NEW p \in 1..(Len(d) + 1), SamePlace(d, q, p)
    PROVE  Start(d, q) = Start(d, p) /\ SkipWhitespace(d, q) = SkipWhitespace(d, p)
<1>0. PICK l \in Nat : l = Len(d)
  BY DEF Bytes
<1>1. CASE q = p
  BY <1>1
<1>2. CASE p = Len(d) + 1 /\ SkipWhitespace(d, q) = p
  <2>1. \A i \in q..l : d[i] \in White
    <3>1. \A i \in q..(EndOfRun(d, q, White) - 1) : d[i] \in White
      BY EndOfRunPlace
    <3>2. EndOfRun(d, q, White) - 1 = l
      BY <1>0, <1>2 DEF SkipWhitespace
    <3> QED
      BY <3>1, <3>2
  <2>2. PICK s \in q..(l + 1) : s = Start(d, q) /\ (s <= l => d[s] \notin White)
    BY <1>0, SkipPlace DEF Start
  <2>3. s = l + 1
    BY <2>1, <2>2
  <2>4. Start(d, p) \in p..(Len(d) + 1)
    BY StartPlace
  <2>5. Start(d, p) = l + 1
    BY <1>0, <1>2, <2>4
  <2>6. SkipWhitespace(d, p) \in p..(Len(d) + 1)
    BY EndOfRunPlace DEF SkipWhitespace
  <2>7. SkipWhitespace(d, p) = p
    BY <1>0, <1>2, <2>6
  <2> QED
    BY <1>2, <2>2, <2>3, <2>5, <2>7
<1> QED
  BY <1>1, <1>2 DEF SamePlace

-----------------------------------------------------------------------------
(***************************************************************************)
(* The calls under way: what they have, and what the grammar says of the   *)
(* rest                                                                    *)
(***************************************************************************)

\* The entries from place q on are put over those of dict.
EntriesOver(d, dict, q) == {Reading(Dictionary(Overlay(dict, r.value)), r.end) : r \in EntriesAt(d, q)}

\* The call that began at place q and holds frame goes on at place p: what the grammar
\* reads at q is what the frame has and what it reads at p.
Says(d, frame, q, p) ==
    \/ /\ frame.in = "array"
       /\ \E S : frame.items \in Seq(S)
       /\ GoesOn(d, q)
       /\ ValueAt(d, q) = {Reading(Array(frame.items \o r.value), r.end) : r \in ItemsAt(d, p)}
    \/ /\ frame.in = "dictionary"
       /\ frame.key = <<>>
       /\ IsMap(frame.dict)
       /\ GoesOn(d, q)
       /\ ValueAt(d, q) = EntriesOver(d, frame.dict, p)
    \/ /\ frame.in = "dictionary"
       /\ frame.key # <<>>
       /\ GoesOn(d, q)
       /\ ValueAt(d, q) = UNION {EntriesOver(d, Overlay(frame.dict, [k \in {frame.key[1]} |-> v.value]), v.end) :
                                   v \in ValueAt(d, p)}
    \/ /\ frame.in = "reference"
       /\ NumberAt(d, Start(d, q)) = {Reading(frame.number, frame.saved)}
       /\ p = SkipWhitespace(d, frame.saved)
       /\ At(d, p) \in Digits

\* Calls one inside the other, the first from place 1 on.
Chain(d, calls, starts) ==
    /\ starts \in [1..(Len(calls) + 1) -> 1..(Len(d) + 1)]
    /\ starts[1] = 1
    /\ \A i \in 1..Len(calls) : Says(d, calls[i], starts[i], starts[i + 1])

\* The innermost of the calls goes on at place q.
AreOpen(d, calls, q) == \E starts : Chain(d, calls, starts) /\ starts[Len(calls) + 1] = q

\* The first call is for place 1.
LEMMA NoneIsOpen ==
    ASSUME NEW d \in Bytes
    PROVE  /\ AreOpen(d, <<>>, 1)
           /\ \A q : AreOpen(d, <<>>, q) => q = 1
<1> DEFINE starts == [i \in 1..1 |-> 1]
<1>1. Len(<<>>) = 0 /\ Len(d) \in Nat
  BY DEF Bytes
<1>2. starts \in [1..1 -> 1..(Len(d) + 1)] /\ starts[1] = 1
  BY <1>1
<1> HIDE DEF starts
<1>3. Chain(d, <<>>, starts)
  BY <1>1, <1>2 DEF Chain
<1> QED
  BY <1>1, <1>2, <1>3 DEF AreOpen, Chain

\* A call inside the innermost one.
LEMMA OneMoreIsOpen ==
    ASSUME NEW d \in Bytes, NEW S, NEW calls \in Seq(S), NEW q, AreOpen(d, calls, q),
           NEW frame, NEW p \in 1..(Len(d) + 1), Says(d, frame, q, p)
    PROVE  AreOpen(d, Append(calls, frame), p)
<1>1. PICK starts : Chain(d, calls, starts) /\ starts[Len(calls) + 1] = q
  BY DEF AreOpen
<1>2. PICK n \in Nat : n = Len(calls)
  OBVIOUS
<1>3. calls \in Seq(S \cup {frame})
  BY SeqMonotonic
<1>4. /\ Len(Append(calls, frame)) = n + 1
      /\ \A i \in 1..n : Append(calls, frame)[i] = calls[i]
      /\ Append(calls, frame)[n + 1] = frame
  BY <1>2, <1>3, AppendProperties
<1> DEFINE more == [i \in 1..(n + 2) |-> IF i <= n + 1 THEN starts[i] ELSE p]
<1>5. starts \in [1..(n + 1) -> 1..(Len(d) + 1)] /\ starts[1] = 1
  BY <1>1, <1>2 DEF Chain
<1>6. more \in [1..(n + 2) -> 1..(Len(d) + 1)]
  <2>1. ASSUME NEW i \in 1..(n + 2) PROVE (IF i <= n + 1 THEN starts[i] ELSE p) \in 1..(Len(d) + 1)
    BY <1>5
  <2> QED
    BY <2>1
<1>7. \A i \in 1..(n + 1) : more[i] = starts[i]
  <2>1. ASSUME NEW i \in 1..(n + 1) PROVE i \in 1..(n + 2) /\ i <= n + 1
    OBVIOUS
  <2> QED
    BY <2>1
<1>8. more[n + 2] = p
  <2>1. n + 2 \in 1..(n + 2) /\ ~(n + 2 <= n + 1)
    OBVIOUS
  <2> QED
    BY <2>1
<1> HIDE DEF more
<1>9. ASSUME NEW i \in 1..(n + 1) PROVE Says(d, Append(calls, frame)[i], more[i], more[i + 1])
  <2>1. CASE i \in 1..n
    <3>1. i + 1 \in 1..(n + 1)
      BY <2>1
    <3>2. Says(d, calls[i], starts[i], starts[i + 1])
      BY <1>1, <1>2, <2>1 DEF Chain
    <3>3. more[i] = starts[i] /\ more[i + 1] = starts[i + 1] /\ Append(calls, frame)[i] = calls[i]
      BY <1>4, <1>7, <2>1, <3>1
    <3> QED
      BY <3>2, <3>3
  <2>2. CASE i \notin 1..n
    <3>1. i = n + 1 /\ i + 1 = n + 2
      BY <2>2
    <3>2. more[i] = q /\ more[i + 1] = p /\ Append(calls, frame)[i] = frame
      BY <1>1, <1>2, <1>4, <1>7, <1>8, <3>1
    <3> QED
      BY <3>2
  <2> QED
    BY <2>1, <2>2
<1>10. n + 1 + 1 = n + 2 /\ 1 \in 1..(n + 1)
  OBVIOUS
<1>11. Chain(d, Append(calls, frame), more)
  BY <1>4, <1>5, <1>6, <1>7, <1>9, <1>10 DEF Chain
<1> QED
  BY <1>4, <1>8, <1>10, <1>11 DEF AreOpen

\* The innermost call and the others.
LEMMA LastIsOpen ==
    ASSUME NEW d \in Bytes, NEW S, NEW calls \in Seq(S), calls # <<>>, NEW p, AreOpen(d, calls, p)
    PROVE  \E q \in 1..(Len(d) + 1) : /\ AreOpen(d, SubSeq(calls, 1, Len(calls) - 1), q)
                                      /\ Says(d, calls[Len(calls)], q, p)
<1>1. PICK starts : Chain(d, calls, starts) /\ starts[Len(calls) + 1] = p
  BY DEF AreOpen
<1>2. PICK n \in Nat : n + 1 = Len(calls)
  <2>1. Len(calls) \in Nat /\ Len(calls) # 0
    BY EmptySeq
  <2>2. Len(calls) - 1 \in Nat /\ Len(calls) - 1 + 1 = Len(calls)
    BY <2>1
  <2> QED
    BY <2>2
<1> DEFINE rest == SubSeq(calls, 1, Len(calls) - 1)
           less == [i \in 1..(n + 1) |-> starts[i]]
<1>3. Len(calls) - 1 = n
  BY <1>2
<1>4. Len(rest) = n /\ \A i \in 1..n : rest[i] = calls[i]
  <2>1. \A i \in 1..n : calls[i] \in S
    BY <1>2, ElementOfSeq
  <2> QED
    BY <1>3, <2>1, SubSeqProperties
<1> HIDE DEF rest
<1>5. starts \in [1..(n + 2) -> 1..(Len(d) + 1)] /\ starts[1] = 1
  <2>1. n + 1 + 1 = n + 2
    OBVIOUS
  <2> QED
    BY <1>1, <1>2, <2>1 DEF Chain
<1>6. ASSUME NEW i \in 1..(n + 1) PROVE i \in 1..(n + 2) /\ starts[i] \in 1..(Len(d) + 1)
  <2>1. i \in 1..(n + 2)
    OBVIOUS
  <2> QED
    BY <1>5, <2>1
<1>7. less \in [1..(n + 1) -> 1..(Len(d) + 1)] /\ \A i \in 1..(n + 1) : less[i] = starts[i]
  BY <1>6
<1> HIDE DEF less
<1>8. ASSUME NEW i \in 1..n PROVE Says(d, rest[i], less[i], less[i + 1])
  <2>1. i \in 1..(n + 1) /\ i + 1 \in 1..(n + 1)
    OBVIOUS
  <2>2. Says(d, calls[i], starts[i], starts[i + 1])
    BY <1>1, <1>2, <2>1 DEF Chain
  <2> QED
    BY <1>4, <1>7, <2>1, <2>2
<1>9. n + 1 \in 1..(n + 1) /\ 1 \in 1..(n + 1)
  OBVIOUS
<1>10. Chain(d, rest, less)
  BY <1>4, <1>5, <1>7, <1>8, <1>9 DEF Chain
<1>11. AreOpen(d, rest, starts[n + 1])
  BY <1>4, <1>7, <1>9, <1>10 DEF AreOpen
<1>12. Says(d, calls[n + 1], starts[n + 1], p)
  BY <1>1, <1>2, <1>9 DEF Chain
<1>13. starts[n + 1] \in 1..(Len(d) + 1)
  BY <1>6, <1>9
<1> QED
  BY <1>2, <1>11, <1>12, <1>13 DEF rest

\* The parser has value v, or none yet, for the grammar's place q.
OnTheWay(d, calls, q, p, v) ==
    /\ AreOpen(d, calls, q)
    /\ v = Nothing => SamePlace(d, q, p)
    /\ v # Nothing =>
          \E e \in 1..(Len(d) + 1) : ValueAt(d, q) = {Reading(v, e)} /\ SamePlace(d, e, p)

ReadingInv ==
    /\ status = "run" => \E q \in 1..(Len(data) + 1) : OnTheWay(data, stack, q, pos, ret)
    /\ status = "err" => ValueAt(data, 1) = {}
    /\ status = "ok" =>
          \E e \in 1..(Len(data) + 1) : ValueAt(data, 1) = {Reading(ret, e)} /\ SamePlace(data, e, pos)

LEMMA StillOnTheWay ==
    ASSUME NEW q \in 1..(Len(data) + 1), OnTheWay(data, stack', q, pos', ret'),
           data' = data, status' = "run"
    PROVE  ReadingInv'
BY DEF ReadingInv

LEMMA ReadingImplies == ASSUME DataInv, ReadingInv PROVE AnswersTheReading
<1>1. ASSUME status = "ok"
      PROVE  /\ {r.value : r \in ValueAt(data, 1)} = {ret}
             /\ \A r \in ValueAt(data, 1) : SkipWhitespace(data, r.end) = SkipWhitespace(data, pos)
  <2>1. PICK e \in 1..(Len(data) + 1) : ValueAt(data, 1) = {Reading(ret, e)} /\ SamePlace(data, e, pos)
    BY <1>1 DEF ReadingInv
  <2>2. SkipWhitespace(data, e) = SkipWhitespace(data, pos)
    BY <2>1, SameStart DEF DataInv
  <2>3. Reading(ret, e).value = ret /\ Reading(ret, e).end = e
    BY ReadingIs
  <2> HIDE DEF Reading
  <2> QED
    BY <2>1, <2>2, <2>3
<1> QED
  BY <1>1 DEF AnswersTheReading, ReadingInv

LEMMA InitReading == ASSUME Init, DataInv PROVE ReadingInv
<1>1. 1 \in 1..(Len(data) + 1)
  BY DEF DataInv, Bytes
<1>2. AreOpen(data, stack, 1)
  BY NoneIsOpen DEF Init, DataInv
<1>3. OnTheWay(data, stack, 1, pos, ret)
  BY <1>2 DEF OnTheWay, SamePlace, Init
<1> QED
  BY <1>1, <1>3 DEF ReadingInv, Init

\* Where a call is made.
LEMMA CallAt ==
    ASSUME DataInv, ReadingInv, Calls
    PROVE  \E q \in 1..(Len(data) + 1) :
              AreOpen(data, stack, q) /\ Start(data, q) = Place /\ SamePlace(data, q, pos)
<1>1. PICK q \in 1..(Len(data) + 1) : OnTheWay(data, stack, q, pos, ret)
  BY DEF Calls, ReadingInv
<1>2. AreOpen(data, stack, q) /\ SamePlace(data, q, pos)
  BY <1>1 DEF OnTheWay, Calls
<1>3. Start(data, q) = Start(data, pos)
  BY <1>2, SameStart DEF DataInv
<1> QED
  BY <1>2, <1>3 DEF Place, Start

\* Where a value has come back to.
LEMMA ReturnAt ==
    ASSUME DataInv, ReadingInv, Returned
    PROVE  \E q \in 1..(Len(data) + 1), e \in 1..(Len(data) + 1) :
              AreOpen(data, stack, q) /\ ValueAt(data, q) = {Reading(ret, e)} /\ SamePlace(data, e, pos)
BY DEF Returned, ReadingInv, OnTheWay

LEMMA PlaceOfData == ASSUME DataInv PROVE Place \in 1..(Len(data) + 1) /\ Len(data) \in Nat
<1>1. Place \in pos..(Len(data) + 1)
  BY PlaceIsNext
<1> QED
  BY <1>1 DEF DataInv, Bytes

LEMMA ReadOtherReads ==
    ASSUME DataInv, ReadingInv,
           ReadAnyOf(KeywordAt(data, Place)) \/ ReadAnyOf(NameAt(data, Place))
              \/ ReadAnyOf(StringAt(data, Place)) \/ ReadAnyOf(HexStringAt(data, Place))
    PROVE  ReadingInv'
<1>1. PICK r \in LexemesAt(data, Place) : Return(r.value, r.end) /\ Calls
  BY DEF ReadAnyOf, LexemesAt
<1>2. PICK q \in 1..(Len(data) + 1) : AreOpen(data, stack, q) /\ Start(data, q) = Place
  BY <1>1, CallAt
<1>3. ValueAt(data, q) = {Reading(r.value, r.end)} /\ r.value # Nothing
  BY <1>1, <1>2, SaysLexeme DEF DataInv
<1>4. r.end \in 1..(Len(data) + 1)
  <2>1. Place \in 1..(Len(data) + 1) /\ Len(data) \in Nat
    BY PlaceOfData
  <2>2. r.end \in (Place + 1)..(Len(data) + 1)
    BY <1>1, <2>1, OtherReadings DEF LexemesAt, DataInv
  <2> QED
    BY <2>1, <2>2
<1>5. OnTheWay(data, stack', q, pos', ret')
  BY <1>1, <1>2, <1>3, <1>4 DEF Return, OnTheWay, SamePlace
<1> QED
  BY <1>1, <1>5, StillOnTheWay DEF Return, Calls

LEMMA ReadNumberReads == ASSUME DataInv, ReadingInv, ReadNumber PROVE ReadingInv'
<1>0. Place \in 1..(Len(data) + 1) /\ Len(data) \in Nat /\ data \in Bytes
  BY PlaceOfData DEF DataInv
<1>1. PICK n \in NumberAt(data, Place) :
         /\ At(data, SkipWhitespace(data, n.end)) \notin Digits
         /\ Return(n.value, IF SkipWhitespace(data, n.end) > Len(data)
                            THEN SkipWhitespace(data, n.end) ELSE n.end)
  BY DEF ReadNumber
<1>2. PICK q \in 1..(Len(data) + 1) : AreOpen(data, stack, q) /\ Start(data, q) = Place
  BY CallAt DEF ReadNumber
<1>3. NumberAt(data, Place) = {n} /\ n = Reading(n.value, n.end) /\ n.value # Nothing
  BY <1>0, NumberIs, NumberReading
<1>4. ReferenceAt(data, Place) = {}
  <2>1. ASSUME NEW r \in ReferenceAt(data, Place) PROVE FALSE
    <3>1. PICK m \in NumberAt(data, Place) : \E g : AreReference(data, m, g) /\ r = ReferenceOf(data, m, g)
      BY <2>1, ReferenceIs
    <3> QED
      BY <1>1, <1>3, <3>1 DEF AreReference
  <2> QED
    BY <2>1
<1>5. ValueAt(data, q) = {Reading(n.value, n.end)}
  BY <1>0, <1>2, <1>3, <1>4, SaysNumber DEF NumberOrReferenceAt
<1>6. n.end \in 1..(Len(data) + 1)
  BY <1>0, NumberReading
<1>7. SkipWhitespace(data, n.end) \in 1..(Len(data) + 1)
  <2>1. SkipWhitespace(data, n.end) \in n.end..(Len(data) + 1)
    BY <1>0, <1>6, EndOfRunPlace DEF SkipWhitespace
  <2> QED
    BY <1>0, <1>6, <2>1
<1>8. SamePlace(data, n.end, pos')
  BY <1>0, <1>1, <1>7 DEF Return, SamePlace
<1>9. OnTheWay(data, stack', q, pos', ret')
  BY <1>1, <1>2, <1>3, <1>5, <1>6, <1>8 DEF Return, OnTheWay
<1> QED
  BY <1>1, <1>9, StillOnTheWay DEF Return, ReadNumber, Calls

\* A call that the grammar follows.
LEMMA PushReads ==
    ASSUME DataInv, \E S : stack \in Seq(S), status = "run", ret = Nothing,
           NEW q \in 1..(Len(data) + 1), AreOpen(data, stack, q),
           NEW frame, NEW p \in 1..(Len(data) + 1), Says(data, frame, q, p), Call(frame, p)
    PROVE  ReadingInv'
<1>1. AreOpen(data, Append(stack, frame), p)
  BY OneMoreIsOpen DEF DataInv
<1>2. OnTheWay(data, stack', p, pos', ret')
  BY <1>1 DEF OnTheWay, Call, SamePlace
<1> QED
  BY <1>2, StillOnTheWay DEF Call

LEMMA TryReferenceReads ==
    ASSUME IInv, ReadingInv, TryReference PROVE ReadingInv'
<1>0. Place \in 1..(Len(data) + 1) /\ Len(data) \in Nat /\ data \in Bytes
  BY PlaceOfData DEF DataInv, IInv
<1>1. PICK n \in NumberAt(data, Place) :
         /\ At(data, SkipWhitespace(data, n.end)) \in Digits
         /\ Call(InReference(n.value, n.end), SkipWhitespace(data, n.end))
  BY DEF TryReference
<1>2. PICK q \in 1..(Len(data) + 1) : AreOpen(data, stack, q) /\ Start(data, q) = Place
  BY CallAt DEF TryReference, IInv
<1>3. NumberAt(data, Place) = {n} /\ n = Reading(n.value, n.end)
  BY NumberIs
<1>6. n.end \in 1..(Len(data) + 1)
  BY <1>0, NumberReading
<1>7. SkipWhitespace(data, n.end) \in 1..(Len(data) + 1)
  <2>1. SkipWhitespace(data, n.end) \in n.end..(Len(data) + 1)
    BY <1>0, <1>6, EndOfRunPlace DEF SkipWhitespace
  <2> QED
    BY <1>0, <1>6, <2>1
<1>8. Says(data, InReference(n.value, n.end), q, SkipWhitespace(data, n.end))
  BY <1>1, <1>2, <1>3 DEF Says, InReference
<1> QED
  BY <1>1, <1>2, <1>7, <1>8, PushReads DEF IInv, StackInv, TryReference, Calls

\* Overlay has a unit, and brackets do not matter.
LEMMA OverlayEmpty ==
    ASSUME NEW m, IsMap(m)
    PROVE  Overlay(EmptyMap, m) = m /\ Overlay(m, EmptyMap) = m
<1>1. DOMAIN EmptyMap = {}
  BY EmptyMapIsMap
<1>2. Overlay(EmptyMap, m) = [k \in DOMAIN m |-> m[k]]
  BY <1>1 DEF Overlay
<1>3. Overlay(m, EmptyMap) = [k \in DOMAIN m |-> m[k]]
  BY <1>1 DEF Overlay
<1> QED
  BY <1>2, <1>3 DEF IsMap

LEMMA OverlayTwice ==
    ASSUME NEW a, NEW b, NEW c
    PROVE  Overlay(a, Overlay(b, c)) = Overlay(Overlay(a, b), c)
BY DEF Overlay

LEMMA OpenReads ==
    ASSUME IInv, ReadingInv, OpenArray \/ OpenDictionary PROVE ReadingInv'
<1>0. Place \in 1..(Len(data) + 1) /\ Len(data) \in Nat /\ data \in Bytes
  BY PlaceOfData DEF DataInv, IInv
<1>1. PICK q \in 1..(Len(data) + 1) : AreOpen(data, stack, q) /\ Start(data, q) = Place
  BY CallAt DEF OpenArray, OpenDictionary, IInv
<1>2. status = "run" /\ ret = Nothing /\ \E S : stack \in Seq(S)
  BY DEF OpenArray, OpenDictionary, Calls, IInv, StackInv
<1>3. CASE OpenArray
  <2>1. StartsArray(data, Place) /\ Call(InArray(<<>>), Place + 1)
    BY <1>3 DEF OpenArray
  <2>2. Place + 1 \in 1..(Len(data) + 1)
    BY <1>0, <2>1 DEF StartsArray, At, NoByte, LeftBracket
  <2>3. /\ ValueAt(data, q) = {Reading(Array(r.value), r.end) : r \in ItemsAt(data, Place + 1)}
        /\ GoesOn(data, q)
    BY <1>0, <1>1, <2>1, SaysArray
  <2>4. ASSUME NEW r \in ItemsAt(data, Place + 1) PROVE <<>> \o r.value = r.value
    <3>1. \E S : r.value \in Seq(S)
      BY <1>0, <2>2, SaysParts DEF AreLists
    <3> QED
      BY <3>1, ConcatEmptySeq
  <2>5. ValueAt(data, q) = {Reading(Array(<<>> \o r.value), r.end) : r \in ItemsAt(data, Place + 1)}
    BY <2>3, <2>4
  <2>6. InArray(<<>>).in = "array" /\ InArray(<<>>).items = <<>> /\ <<>> \in Seq({})
    BY DEF InArray
  <2>7. Says(data, InArray(<<>>), q, Place + 1)
    BY <2>3, <2>5, <2>6 DEF Says
  <2> QED
    BY <1>1, <1>2, <2>1, <2>2, <2>7, PushReads DEF IInv
<1>4. CASE OpenDictionary
  <2>1. StartsDictionary(data, Place) /\ Call(InDictionary(<<>>, EmptyMap), Place + 2)
    BY <1>4 DEF OpenDictionary
  <2>2. Place + 2 \in 1..(Len(data) + 1)
    <3>1. Place + 1 \in 1..Len(data)
      BY <2>1 DEF StartsDictionary, At, NoByte, Less
    <3> QED
      BY <1>0, <3>1
  <2>3. /\ ValueAt(data, q) = {Reading(Dictionary(r.value), r.end) : r \in EntriesAt(data, Place + 2)}
        /\ GoesOn(data, q)
    BY <1>0, <1>1, <2>1, SaysDictionary
  <2>4. ASSUME NEW r \in EntriesAt(data, Place + 2) PROVE Overlay(EmptyMap, r.value) = r.value
    <3>1. IsMap(r.value)
      BY <1>0, <2>2, SaysParts DEF AreMaps
    <3> QED
      BY <3>1, OverlayEmpty
  <2>5. ValueAt(data, q) = EntriesOver(data, EmptyMap, Place + 2)
    BY <2>3, <2>4 DEF EntriesOver
  <2>6. /\ InDictionary(<<>>, EmptyMap).in = "dictionary"
        /\ InDictionary(<<>>, EmptyMap).key = <<>>
        /\ InDictionary(<<>>, EmptyMap).dict = EmptyMap
    BY DEF InDictionary
  <2>7. Says(data, InDictionary(<<>>, EmptyMap), q, Place + 2)
    BY <2>3, <2>5, <2>6, EmptyMapIsMap DEF Says
  <2> QED
    BY <1>1, <1>2, <2>1, <2>2, <2>7, PushReads DEF IInv
<1> QED
  BY <1>3, <1>4

\* The innermost call and what the grammar says of it.
LEMMA TopSays ==
    ASSUME IInv, stack # <<>>, NEW q, AreOpen(data, stack, q)
    PROVE  \E c \in 1..(Len(data) + 1) : AreOpen(data, Below, c) /\ Says(data, Top, c, q)
<1>1. PICK S : stack \in Seq(S)
  BY DEF IInv, StackInv
<1>2. Top = stack[Len(stack)]
  BY DEF Top
<1> QED
  BY <1>1, <1>2, LastIsOpen DEF IInv, DataInv, Below

\* A call returns value v, which ends at place e.
LEMMA ReturnReads ==
    ASSUME IInv, status = "run", NEW c \in 1..(Len(data) + 1), AreOpen(data, Below, c),
           data' = data, status' = "run", stack' = Below, ret' # Nothing,
           NEW e \in 1..(Len(data) + 1), ValueAt(data, c) = {Reading(ret', e)}, SamePlace(data, e, pos')
    PROVE  ReadingInv'
<1>1. OnTheWay(data, stack', c, pos', ret')
  BY DEF OnTheWay
<1> QED
  BY <1>1, StillOnTheWay

LEMMA CloseReads ==
    ASSUME IInv, ReadingInv, CloseArray \/ CloseDictionary PROVE ReadingInv'
<1>0. Place \in 1..(Len(data) + 1) /\ Len(data) \in Nat /\ data \in Bytes
  BY PlaceOfData DEF DataInv, IInv
<1>1. PICK q \in 1..(Len(data) + 1) : AreOpen(data, stack, q) /\ Start(data, q) = Place
  BY CallAt DEF CloseArray, CloseDictionary, IInv
<1>2. status = "run" /\ stack # <<>>
  BY DEF CloseArray, CloseDictionary, Calls, Top
<1>3. PICK c \in 1..(Len(data) + 1) : AreOpen(data, Below, c) /\ Says(data, Top, c, q)
  BY <1>1, <1>2, TopSays
<1>4. CASE CloseArray
  <2>1. EndsArray(data, Place) /\ ReturnFromCall(Array(Top.items), Place + 1) /\ Top.in = "array"
    BY <1>4 DEF CloseArray
  <2>2. Place + 1 \in 1..(Len(data) + 1)
    BY <1>0, <2>1 DEF EndsArray, At, NoByte, RightBracket
  <2>3. ItemsAt(data, q) = {Reading(<<>>, Place + 1)}
    BY <1>0, <1>1, <2>1, SaysParts DEF ItemsFrom, Start
  <2>4. /\ \E S : Top.items \in Seq(S)
        /\ ValueAt(data, c) = {Reading(Array(Top.items \o r.value), r.end) : r \in ItemsAt(data, q)}
    BY <1>3, <2>1 DEF Says
  <2>5. Top.items \o <<>> = Top.items
    BY <2>4, ConcatEmptySeq
  <2>6. Reading(<<>>, Place + 1).value = <<>> /\ Reading(<<>>, Place + 1).end = Place + 1
    BY ReadingIs
  <2> HIDE DEF Reading
  <2>7. ValueAt(data, c) = {Reading(Array(Top.items), Place + 1)}
    BY <2>3, <2>4, <2>5, <2>6
  <2>8. Array(Top.items) # Nothing
    <3>1. Array(Top.items).kind # Nothing.kind
      BY DEF Array, Nothing
    <3> QED
      BY <3>1
  <2>9. SamePlace(data, Place + 1, Place + 1)
    BY DEF SamePlace
  <2> QED
    BY <1>2, <1>3, <2>1, <2>2, <2>7, <2>8, <2>9, ReturnReads DEF ReturnFromCall
<1>5. CASE CloseDictionary
  <2>1. /\ EndsDictionary(data, Place)
        /\ ReturnFromCall(Dictionary(Top.dict), Place + 2)
        /\ Top.in = "dictionary"
        /\ Top.key = <<>>
    BY <1>5 DEF CloseDictionary
  <2>2. Place + 2 \in 1..(Len(data) + 1)
    <3>1. Place + 1 \in 1..Len(data)
      BY <2>1 DEF EndsDictionary, At, NoByte, Greater
    <3> QED
      BY <1>0, <3>1
  <2>3. EntriesAt(data, q) = {Reading(EmptyMap, Place + 2)}
    BY <1>0, <1>1, <2>1, SaysParts DEF EntriesFrom, Start
  <2>4. IsMap(Top.dict) /\ ValueAt(data, c) = EntriesOver(data, Top.dict, q)
    BY <1>3, <2>1 DEF Says
  <2>5. Overlay(Top.dict, EmptyMap) = Top.dict
    BY <2>4, OverlayEmpty
  <2>6. Reading(EmptyMap, Place + 2).value = EmptyMap /\ Reading(EmptyMap, Place + 2).end = Place + 2
    BY ReadingIs
  <2>7. ValueAt(data, c) = {Reading(Dictionary(Top.dict), Place + 2)}
    BY <2>3, <2>4, <2>5, <2>6 DEF EntriesOver
  <2>8. Dictionary(Top.dict) # Nothing
    <3>1. Dictionary(Top.dict).kind # Nothing.kind
      BY DEF Dictionary, Nothing
    <3> QED
      BY <3>1
  <2>9. SamePlace(data, Place + 2, Place + 2)
    BY DEF SamePlace
  <2> QED
    BY <1>2, <1>3, <2>1, <2>2, <2>7, <2>8, <2>9, ReturnReads DEF ReturnFromCall
<1> QED
  BY <1>4, <1>5

\* A caller goes on behind the value that ends at place e.
LEMMA ContinueReads ==
    ASSUME IInv, Returned, stack # <<>>, NEW c \in 1..(Len(data) + 1), AreOpen(data, Below, c),
           NEW frame, Continue(frame),
           NEW e \in 1..(Len(data) + 1), Says(data, frame, c, e), SamePlace(data, e, pos)
    PROVE  ReadingInv'
<1>1. PICK S : Below \in Seq(S)
  BY BelowProperties DEF IInv
<1>2. AreOpen(data, Append(Below, frame), e)
  BY <1>1, OneMoreIsOpen DEF IInv, DataInv
<1>3. OnTheWay(data, stack', e, pos', ret')
  BY <1>2 DEF OnTheWay, Continue
<1> QED
  BY <1>3, StillOnTheWay DEF Continue, Returned

\* The item is the first of the rest of the array.
LEMMA TakeItemReads == ASSUME IInv, ReadingInv, TakeItem PROVE ReadingInv'
<1>0. data \in Bytes
  BY DEF IInv, DataInv
<1>1. PICK q \in 1..(Len(data) + 1), e \in 1..(Len(data) + 1) :
         AreOpen(data, stack, q) /\ ValueAt(data, q) = {Reading(ret, e)} /\ SamePlace(data, e, pos)
  BY ReturnAt DEF TakeItem, IInv
<1>2. Returned /\ stack # <<>> /\ Top.in = "array" /\ Continue(InArray(Append(Top.items, ret)))
  BY DEF TakeItem, Top
<1>3. PICK c \in 1..(Len(data) + 1) : AreOpen(data, Below, c) /\ Says(data, Top, c, q)
  BY <1>1, <1>2, TopSays
<1>4. /\ \E S : Top.items \in Seq(S)
      /\ GoesOn(data, c)
      /\ ValueAt(data, c) = {Reading(Array(Top.items \o r.value), r.end) : r \in ItemsAt(data, q)}
  BY <1>2, <1>3 DEF Says
<1>5. PICK S : Top.items \in Seq(S)
  BY <1>4
<1>6. ~EndsArray(data, Start(data, q))
  BY <1>0, <1>1, ValueGoesOn DEF GoesOn
<1>7. ItemsAt(data, q) = {Reading(<<ret>> \o r.value, r.end) : r \in ItemsAt(data, e)}
  <2>1. ItemsAt(data, q) = UNION {{Reading(<<v.value>> \o r.value, r.end) : r \in ItemsAt(data, v.end)} :
                                    v \in ValueAt(data, q)}
    BY <1>0, <1>6, SaysParts, Zenon DEF ItemsFrom, Start, ItemsAt
  <2>2. Reading(ret, e).value = ret /\ Reading(ret, e).end = e
    BY ReadingIs
  <2> HIDE DEF Reading
  <2> QED
    BY <1>1, <2>1, <2>2
<1>8. ASSUME NEW r \in ItemsAt(data, e)
      PROVE  Top.items \o (<<ret>> \o r.value) = Append(Top.items, ret) \o r.value
  <2>1. PICK R : r.value \in Seq(R)
    BY <1>0, SaysParts DEF AreLists
  <2> DEFINE T == S \cup R \cup {ret}
  <2>2. Top.items \in Seq(T) /\ r.value \in Seq(T) /\ <<ret>> \in Seq(T)
    BY <1>5, <2>1, SeqMonotonic
  <2> HIDE DEF T
  <2>3. (Top.items \o <<ret>>) \o r.value = Top.items \o (<<ret>> \o r.value)
    <3>1. \A s, t, u \in Seq(T) : (s \o t) \o u = s \o (t \o u)
      BY ConcatAssociative
    <3> QED
      BY <2>2, <3>1
  <2>4. Append(Top.items, ret) = Top.items \o <<ret>>
    BY <1>5
  <2> QED
    BY <2>3, <2>4
<1>9. ValueAt(data, c) = {Reading(Array(Append(Top.items, ret) \o r.value), r.end) : r \in ItemsAt(data, e)}
  <2>1. \A v, x : Reading(v, x).value = v /\ Reading(v, x).end = x
    BY ReadingIs
  <2> DEFINE With(r) == Reading(<<ret>> \o r.value, r.end)
  <2>3. \A r : With(r).value = <<ret>> \o r.value /\ With(r).end = r.end
    BY <2>1, Zenon
  <2>4. ItemsAt(data, q) = {With(r) : r \in ItemsAt(data, e)}
    BY <1>7
  <2> HIDE DEF With
  <2>2. ValueAt(data, c) = {Reading(Array(Top.items \o (<<ret>> \o r.value)), r.end) : r \in ItemsAt(data, e)}
    <3>1. ValueAt(data, c) =
             {Reading(Array(Top.items \o With(r).value), With(r).end) : r \in ItemsAt(data, e)}
      BY <1>4, <2>4
    <3> QED
      BY <2>3, <3>1
  <2> QED
    BY <1>8, <2>2
<1>10. Append(Top.items, ret) \in Seq(S \cup {ret})
  BY <1>5, SeqMonotonic, AppendProperties
<1>11. /\ InArray(Append(Top.items, ret)).in = "array"
       /\ InArray(Append(Top.items, ret)).items = Append(Top.items, ret)
  BY DEF InArray
<1>12. Says(data, InArray(Append(Top.items, ret)), c, e)
  BY <1>4, <1>9, <1>10, <1>11 DEF Says
<1> QED
  BY <1>1, <1>2, <1>3, <1>12, ContinueReads

\* The entries that begin with a value at place q.
LEMMA EntriesWithKey ==
    ASSUME NEW d \in Bytes, NEW q \in 1..(Len(d) + 1), NEW k, NEW e \in 1..(Len(d) + 1),
           ValueAt(d, q) = {Reading(k, e)}
    PROVE  EntriesAt(d, q) =
              IF k.kind = "Name"
              THEN UNION {{Reading(Overlay([n \in {k.name} |-> v.value], r.value), r.end) :
                             r \in EntriesAt(d, v.end)} : v \in ValueAt(d, e)}
              ELSE {}
<1> DEFINE keys == {w \in ValueAt(d, q) : w.value.kind = "Name"}
           AllWith(value, end) == UNION {{Reading(Overlay([n \in {value.name} |-> v.value], r.value), r.end) :
                                            r \in EntriesAt(d, v.end)} : v \in ValueAt(d, end)}
<1>1. ~EndsDictionary(d, Start(d, q))
  BY ValueGoesOn DEF GoesOn
<1>2. EntriesAt(d, q) = UNION {AllWith(w.value, w.end) : w \in keys}
  BY <1>1, SaysParts, Zenon DEF EntriesFrom, Start, EntriesAt, ValueAt
<1>3. Reading(k, e).value = k /\ Reading(k, e).end = e
  BY ReadingIs
<1>4. keys = IF k.kind = "Name" THEN {Reading(k, e)} ELSE {}
  BY <1>3
<1> HIDE DEF keys, AllWith
<1>5. EntriesAt(d, q) = IF k.kind = "Name" THEN AllWith(k, e) ELSE {}
  <2>1. CASE k.kind = "Name"
    BY <1>2, <1>3, <1>4, <2>1
  <2>2. CASE k.kind # "Name"
    BY <1>2, <1>4, <2>2
  <2> QED
    BY <2>1, <2>2
<1> QED
  BY <1>5, Zenon DEF AllWith

\* The key and its value are the first of the rest of the dictionary.
LEMMA TakeKeyReads == ASSUME IInv, ReadingInv, TakeKey PROVE ReadingInv'
<1>0. data \in Bytes
  BY DEF IInv, DataInv
<1>1. PICK q \in 1..(Len(data) + 1), e \in 1..(Len(data) + 1) :
         AreOpen(data, stack, q) /\ ValueAt(data, q) = {Reading(ret, e)} /\ SamePlace(data, e, pos)
  BY ReturnAt DEF TakeKey, IInv
<1>2. /\ Returned /\ stack # <<>> /\ Top.in = "dictionary" /\ Top.key = <<>>
      /\ ret.kind = "Name"
      /\ Continue(InDictionary(<<ret.name>>, Top.dict))
  BY DEF TakeKey, Top
<1>3. PICK c \in 1..(Len(data) + 1) : AreOpen(data, Below, c) /\ Says(data, Top, c, q)
  BY <1>1, <1>2, TopSays
<1>4. GoesOn(data, c) /\ ValueAt(data, c) = EntriesOver(data, Top.dict, q)
  BY <1>2, <1>3 DEF Says
<1> DEFINE With(v) == {Reading(Overlay([n \in {ret.name} |-> v.value], r.value), r.end) :
                         r \in EntriesAt(data, v.end)}
           Over(v) == EntriesOver(data, Overlay(Top.dict, [n \in {ret.name} |-> v.value]), v.end)
<1>5. EntriesAt(data, q) = UNION {With(v) : v \in ValueAt(data, e)}
  BY <1>0, <1>1, <1>2, EntriesWithKey
<1>6. ASSUME NEW v
      PROVE  {Reading(Dictionary(Overlay(Top.dict, x.value)), x.end) : x \in With(v)} = Over(v)
  <2>1. \A a, x : Reading(a, x).value = a /\ Reading(a, x).end = x
    BY ReadingIs
  <2> DEFINE one == [n \in {ret.name} |-> v.value]
  <2> HIDE DEF one
  <2>2. {Reading(Dictionary(Overlay(Top.dict, x.value)), x.end) :
            x \in {Reading(Overlay(one, r.value), r.end) : r \in EntriesAt(data, v.end)}}
         = {Reading(Dictionary(Overlay(Top.dict, Overlay(one, r.value))), r.end) : r \in EntriesAt(data, v.end)}
    <3> DEFINE In(r) == Reading(Overlay(one, r.value), r.end)
    <3>1. \A r : In(r).value = Overlay(one, r.value) /\ In(r).end = r.end
      BY <2>1, Zenon
    <3> HIDE DEF In
    <3>2. {Reading(Dictionary(Overlay(Top.dict, x.value)), x.end) : x \in {In(r) : r \in EntriesAt(data, v.end)}}
          = {Reading(Dictionary(Overlay(Top.dict, In(r).value)), In(r).end) : r \in EntriesAt(data, v.end)}
      OBVIOUS
    <3>3. {Reading(Dictionary(Overlay(Top.dict, In(r).value)), In(r).end) : r \in EntriesAt(data, v.end)}
          = {Reading(Dictionary(Overlay(Top.dict, Overlay(one, r.value))), r.end) : r \in EntriesAt(data, v.end)}
      BY <3>1
    <3> QED
      BY <3>2, <3>3, Zenon DEF In
  <2>3. \A r : Overlay(Top.dict, Overlay(one, r.value)) = Overlay(Overlay(Top.dict, one), r.value)
    BY OverlayTwice
  <2>4. EntriesOver(data, Overlay(Top.dict, one), v.end) =
           {Reading(Dictionary(Overlay(Top.dict, Overlay(one, r.value))), r.end) : r \in EntriesAt(data, v.end)}
    BY <2>3 DEF EntriesOver
  <2> QED
    BY <2>2, <2>4 DEF one
<1> HIDE DEF With, Over
<1>7. ValueAt(data, c) = UNION {Over(v) : v \in ValueAt(data, e)}
  <2>1. ValueAt(data, c) = {Reading(Dictionary(Overlay(Top.dict, x.value)), x.end) :
                              x \in UNION {With(v) : v \in ValueAt(data, e)}}
    BY <1>4, <1>5 DEF EntriesOver
  <2> QED
    BY <1>6, <2>1
<1>8. /\ InDictionary(<<ret.name>>, Top.dict).in = "dictionary"
      /\ InDictionary(<<ret.name>>, Top.dict).key = <<ret.name>>
      /\ InDictionary(<<ret.name>>, Top.dict).dict = Top.dict
      /\ <<ret.name>> # <<>>
      /\ <<ret.name>>[1] = ret.name
  BY DEF InDictionary
<1>9. Says(data, InDictionary(<<ret.name>>, Top.dict), c, e)
  BY <1>4, <1>7, <1>8 DEF Says, Over
<1> QED
  BY <1>1, <1>2, <1>3, <1>9, ContinueReads

LEMMA TakeValueReads == ASSUME IInv, ReadingInv, TakeValue PROVE ReadingInv'
<1>1. PICK q \in 1..(Len(data) + 1), e \in 1..(Len(data) + 1) :
         AreOpen(data, stack, q) /\ ValueAt(data, q) = {Reading(ret, e)} /\ SamePlace(data, e, pos)
  BY ReturnAt DEF TakeValue, IInv
<1> DEFINE more == Overlay(Top.dict, [k \in {Top.key[1]} |-> ret])
<1>2. /\ Returned /\ stack # <<>> /\ Top.in = "dictionary" /\ Top.key # <<>>
      /\ Continue(InDictionary(<<>>, more))
  BY DEF TakeValue, Top
<1>3. PICK c \in 1..(Len(data) + 1) : AreOpen(data, Below, c) /\ Says(data, Top, c, q)
  BY <1>1, <1>2, TopSays
<1>4. /\ GoesOn(data, c)
      /\ ValueAt(data, c) = UNION {EntriesOver(data, Overlay(Top.dict, [k \in {Top.key[1]} |-> v.value]), v.end) :
                                     v \in ValueAt(data, q)}
  BY <1>2, <1>3 DEF Says
<1>5. Reading(ret, e).value = ret /\ Reading(ret, e).end = e
  BY ReadingIs
<1>6. ValueAt(data, c) = EntriesOver(data, more, e)
  BY <1>1, <1>4, <1>5
<1>7. IsMap(more)
  BY OverlayIsMap
<1> HIDE DEF more
<1>8. /\ InDictionary(<<>>, more).in = "dictionary"
      /\ InDictionary(<<>>, more).key = <<>>
      /\ InDictionary(<<>>, more).dict = more
  BY DEF InDictionary
<1>9. Says(data, InDictionary(<<>>, more), c, e)
  BY <1>4, <1>6, <1>7, <1>8 DEF Says
<1> QED
  BY <1>1, <1>2, <1>3, <1>9, ContinueReads

\* What a place that starts with a digit says: a number, or a reference that starts with
\* one.
LEMMA DigitSays ==
    ASSUME NEW d \in Bytes, NEW q \in 1..(Len(d) + 1), At(d, q) \in Digits, ValueAt(d, q) # {}
    PROVE  /\ Start(d, q) = q
           /\ ValueAt(d, q) = NumberOrReferenceAt(d, q)
           /\ NumberAt(d, q) # {}
<1>1. q \in 1..Len(d) /\ d[q] = At(d, q)
  BY DEF At, NoByte, Digits
<1>2. d[q] \notin White \cup {Percent}
  BY <1>1 DEF Digits, White, Percent
<1>3. Start(d, q) = q
  BY <1>1, <1>2, SkipPlace DEF Start, Bytes
<1>4. At(d, q) \notin {110, 116, 102, Slash, LeftParen, Less, LeftBracket}
  BY DEF Digits, Slash, LeftParen, Less, LeftBracket
<1>5. LexemesAt(d, q) = {} /\ ~StartsArray(d, q) /\ ~StartsDictionary(d, q)
  BY <1>4, StartsApart
<1>6. ArrayFrom(d, Readings(d), q) = {} /\ DictionaryFrom(d, Readings(d), q) = {}
  BY <1>5 DEF ArrayFrom, DictionaryFrom
<1>7. ValueAt(d, q) = NumberOrReferenceAt(d, q)
  BY <1>3, <1>5, <1>6, ValueIsOneOf
<1> QED
  BY <1>3, <1>7, StartsApart

\* What the attempt says that has value v, which ends at place e, behind its number n.
LEMMA AttemptSays ==
    ASSUME NEW d \in Bytes, NEW c \in 1..(Len(d) + 1), NEW q \in 1..(Len(d) + 1),
           NEW n, NumberAt(d, Start(d, c)) = {n}, q = SkipWhitespace(d, n.end), At(d, q) \in Digits,
           NEW v, NEW e, ValueAt(d, q) = {Reading(v, e)}
    PROVE  ValueAt(d, c) =
              IF v.kind = "Number" /\ At(d, SkipWhitespace(d, e)) = 82
              THEN {ReferenceOf(d, n, Reading(v, e))} ELSE {n}
<1> DEFINE p == Start(d, c)
           g == Reading(v, e)
<1>1. /\ ValueAt(d, q) = NumberOrReferenceAt(d, q)
      /\ NumberAt(d, q) # {}
  BY DigitSays
<1>2. ValueAt(d, c) = NumberOrReferenceAt(d, p)
  BY SaysNumber
<1>3. PICK m : NumberAt(d, q) = {m} /\ m.value.kind = "Number"
  BY <1>1, NumberIs
<1>4. g.value = v /\ g.end = e
  BY ReadingIs
<1>5. ASSUME NEW r
      PROVE  r \in ReferenceAt(d, p) <=> At(d, SkipWhitespace(d, m.end)) = 82 /\ r = ReferenceOf(d, n, m)
  <2>1. r \in ReferenceAt(d, p) <=> \E b \in {n} : \E h : AreReference(d, b, h) /\ r = ReferenceOf(d, b, h)
    BY ReferenceIs
  <2>2. \A h : AreReference(d, n, h) <=> h = m /\ At(d, SkipWhitespace(d, m.end)) = 82
    BY <1>3 DEF AreReference
  <2> QED
    BY <2>1, <2>2
<1> HIDE DEF g
<1>6. CASE ReferenceAt(d, q) = {}
  <2>1. g = m
    BY <1>1, <1>3, <1>6 DEF NumberOrReferenceAt, g
  <2>2. v.kind = "Number" /\ m.end = e
    BY <1>3, <1>4, <2>1
  <2>3. CASE At(d, SkipWhitespace(d, e)) = 82
    <3>1. ReferenceAt(d, p) = {ReferenceOf(d, n, g)}
      BY <1>5, <2>1, <2>2, <2>3
    <3> QED
      BY <1>2, <2>2, <2>3, <3>1 DEF NumberOrReferenceAt, g
  <2>4. CASE At(d, SkipWhitespace(d, e)) # 82
    <3>1. ReferenceAt(d, p) = {}
      BY <1>5, <2>2, <2>4
    <3> QED
      BY <1>2, <2>4, <3>1 DEF NumberOrReferenceAt
  <2> QED
    BY <2>3, <2>4
<1>7. CASE ReferenceAt(d, q) # {}
  <2>1. g \in ReferenceAt(d, q)
    BY <1>1, <1>7 DEF NumberOrReferenceAt, g
  <2>2. PICK b \in NumberAt(d, q) : \E h : AreReference(d, b, h) /\ g = ReferenceOf(d, b, h)
    BY <2>1, ReferenceIs
  <2>3. PICK h : AreReference(d, b, h) /\ g = ReferenceOf(d, b, h)
    BY <2>2
  <2>4. At(d, SkipWhitespace(d, m.end)) # 82
    BY <1>3, <2>3 DEF AreReference, Digits
  <2>5. g.value.kind = "Reference"
    BY <2>3 DEF ReferenceOf, Reading, Reference
  <2>6. ReferenceAt(d, p) = {}
    BY <1>5, <2>4
  <2> QED
    BY <1>2, <1>4, <2>5, <2>6 DEF NumberOrReferenceAt
<1> QED
  BY <1>6, <1>7

\* Going back: both outcomes of an attempt are what the grammar sees by looking ahead.
LEMMA EndOfAttemptReads ==
    ASSUME IInv, ReadingInv, TakeGeneration \/ GiveUpTheReference PROVE ReadingInv'
<1>0. data \in Bytes /\ Len(data) \in Nat
  BY DEF IInv, DataInv, Bytes
<1>1. PICK q \in 1..(Len(data) + 1), e \in 1..(Len(data) + 1) :
         AreOpen(data, stack, q) /\ ValueAt(data, q) = {Reading(ret, e)} /\ SamePlace(data, e, pos)
  BY ReturnAt DEF TakeGeneration, GiveUpTheReference, IInv
<1>2. Returned /\ stack # <<>> /\ Top.in = "reference" /\ Top = stack[Len(stack)]
  BY DEF TakeGeneration, GiveUpTheReference, Top
<1>3. PICK c \in 1..(Len(data) + 1) : AreOpen(data, Below, c) /\ Says(data, Top, c, q)
  BY <1>1, <1>2, TopSays
<1> DEFINE n == Reading(Top.number, Top.saved)
<1>4. /\ NumberAt(data, Start(data, c)) = {n}
      /\ q = SkipWhitespace(data, Top.saved)
      /\ At(data, q) \in Digits
  BY <1>2, <1>3 DEF Says
<1>5. n.value = Top.number /\ n.end = Top.saved
  BY ReadingIs
<1> HIDE DEF n
<1>6. ValueAt(data, c) = IF ret.kind = "Number" /\ At(data, SkipWhitespace(data, e)) = 82
                         THEN {ReferenceOf(data, n, Reading(ret, e))} ELSE {n}
  BY <1>0, <1>1, <1>4, <1>5, AttemptSays
<1>7. pos \in 1..(Len(data) + 1)
  BY DEF IInv, DataInv
<1>8. AfterGeneration = SkipWhitespace(data, e)
  BY <1>0, <1>1, <1>7, SameStart DEF AfterGeneration
<1>9. stack' = Below /\ ret' # Nothing
  BY EndOfAttempt
<1>10. CASE TakeGeneration
  <2>1. /\ IsGeneration
        /\ ReturnFromCall(Reference(<<Saturated(Top.number, MaxObject), Saturated(ret, MaxGeneration)>>),
                          AfterGeneration + 1)
    BY <1>10 DEF TakeGeneration
  <2>2. ret.kind = "Number" /\ At(data, SkipWhitespace(data, e)) = 82
    BY <1>8, <2>1 DEF IsGeneration
  <2>3. Reading(ret, e).value = ret /\ Reading(ret, e).end = e
    BY ReadingIs
  <2>4. ReferenceOf(data, n, Reading(ret, e)) = Reading(ret', AfterGeneration + 1)
    BY <1>5, <1>8, <2>1, <2>3 DEF ReferenceOf, ReturnFromCall
  <2>5. ValueAt(data, c) = {Reading(ret', AfterGeneration + 1)}
    BY <1>6, <2>2, <2>4
  <2>6. AfterGeneration + 1 \in 1..(Len(data) + 1)
    BY <1>0, <1>8, <2>2 DEF At, NoByte
  <2>7. SamePlace(data, AfterGeneration + 1, pos') /\ data' = data /\ status' = "run" /\ status = "run"
    BY <1>2, <2>1 DEF SamePlace, ReturnFromCall, Returned
  <2> QED
    BY <1>3, <1>9, <2>5, <2>6, <2>7, ReturnReads
<1>11. CASE GiveUpTheReference
  <2>1. ~IsGeneration /\ Raise
    BY <1>11 DEF GiveUpTheReference
  <2>2. ~(ret.kind = "Number" /\ At(data, SkipWhitespace(data, e)) = 82)
    BY <1>8, <2>1 DEF IsGeneration
  <2>3. Waits(Len(stack))
    BY <1>2 DEF Waits
  <2>4. data' = data /\ pos' = Top.saved /\ ret' = Top.number
    BY <1>2, <2>1, <2>3, RaiseInAttempt DEF IInv
  <2>5. ValueAt(data, c) = {Reading(ret', Top.saved)}
    BY <1>6, <2>2, <2>4 DEF n
  <2>6. Top.saved \in 1..(Len(data) + 1)
    <3>1. IInv'
      BY EndOfAttempt
    <3> QED
      BY <2>4, <3>1 DEF IInv, DataInv
  <2>7. status' = "run" /\ status = "run" /\ SamePlace(data, Top.saved, pos')
    <3>1. {i \in DOMAIN stack : stack[i].in = "reference"} # {}
      <4>1. Len(stack) \in DOMAIN stack
        BY <1>2, BelowProperties DEF IInv
      <4> QED
        BY <2>3, <4>1 DEF Waits
    <3>2. status' = status
      BY <2>1, <3>1, Zenon DEF Raise
    <3> QED
      BY <1>2, <2>4, <3>2 DEF SamePlace, Returned
  <2> QED
    BY <1>3, <1>9, <2>4, <2>5, <2>6, <2>7, ReturnReads
<1> QED
  BY <1>10, <1>11

\* A call has no value if none can be read where it goes on, and its end is not there.
LEMMA CallFails ==
    ASSUME NEW d \in Bytes, NEW frame, frame.in # "reference",
           NEW c \in 1..(Len(d) + 1), NEW q \in 1..(Len(d) + 1), Says(d, frame, c, q),
           \/ ValueAt(d, q) = {}
           \/ frame.in = "dictionary" /\ frame.key = <<>> /\ EntriesAt(d, q) = {},
           frame.in = "array" => ~EndsArray(d, Start(d, q)),
           frame.in = "dictionary" /\ frame.key = <<>> => ~EndsDictionary(d, Start(d, q))
    PROVE  ValueAt(d, c) = {} /\ GoesOn(d, c)
<1>1. ValueFrom(d, Readings(d), q) = ValueAt(d, q)
  BY SaysParts
<1>2. CASE frame.in = "array"
  <2>1. ItemsAt(d, q) = {}
    <3>1. ASSUME NEW x \in ItemsFrom(d, Readings(d), q) PROVE FALSE
      <4>1. \E v, r : AreItems(d, Readings(d), q, v, r) /\ x = ItemsOf(v, r)
        BY <1>2, <3>1, ItemsAre DEF Start
      <4> QED
        BY <1>1, <1>2, <4>1 DEF AreItems
    <3> QED
      BY <3>1, SaysParts
  <2> QED
    BY <1>2, <2>1 DEF Says
<1>3. CASE frame.in = "dictionary" /\ frame.key = <<>>
  <2>1. EntriesAt(d, q) = {}
    <3>1. ASSUME ValueAt(d, q) = {}, NEW x \in EntriesFrom(d, Readings(d), q) PROVE FALSE
      <4>1. \E k, v, r : AreEntries(d, Readings(d), q, k, v, r) /\ x = EntriesOf(k, v, r)
        BY <1>3, <3>1, EntriesAre DEF Start
      <4> QED
        BY <1>1, <3>1, <4>1 DEF AreEntries
    <3>2. EntriesAt(d, q) = EntriesFrom(d, Readings(d), q)
      BY SaysParts
    <3> QED
      BY <1>3, <3>1, <3>2
  <2>2. EntriesOver(d, frame.dict, q) = {}
    BY <2>1 DEF EntriesOver
  <2> QED
    BY <1>3, <2>2 DEF Says
<1>4. CASE frame.in = "dictionary" /\ frame.key # <<>>
  <2>1. ValueAt(d, q) = {}
    BY <1>4
  <2> QED
    BY <1>4, <2>1 DEF Says
<1> QED
  BY <1>2, <1>3, <1>4 DEF Says

\* An error is handed on to the first call, when no attempt waits.
LEMMA AllFail ==
    ASSUME NEW d \in Bytes, NEW S
    PROVE  \A k \in Nat : \A calls \in Seq(S), q \in 1..(Len(d) + 1) :
              /\ Len(calls) = k
              /\ AreOpen(d, calls, q)
              /\ \A i \in 1..k : calls[i].in # "reference"
              /\ ValueAt(d, q) = {}
              /\ GoesOn(d, q)
              => ValueAt(d, 1) = {}
<1> DEFINE Fails(calls, q) ==
               /\ AreOpen(d, calls, q)
               /\ \A i \in 1..Len(calls) : calls[i].in # "reference"
               /\ ValueAt(d, q) = {}
               /\ GoesOn(d, q)
           P == {k \in Nat : \A calls \in Seq(S), q \in 1..(Len(d) + 1) :
                               Len(calls) = k /\ Fails(calls, q) => ValueAt(d, 1) = {}}
<1>1. 0 \in P
  <2>1. ASSUME NEW calls \in Seq(S), NEW q \in 1..(Len(d) + 1), Len(calls) = 0, Fails(calls, q)
        PROVE  ValueAt(d, 1) = {}
    <3>1. calls = <<>>
      BY <2>1, EmptySeq
    <3>2. q = 1
      BY <2>1, <3>1, NoneIsOpen
    <3> QED
      BY <2>1, <3>2
  <2> QED
    BY <2>1
<1>2. ASSUME NEW k \in Nat, k \in P PROVE k + 1 \in P
  <2>1. ASSUME NEW calls \in Seq(S), NEW q \in 1..(Len(d) + 1), Len(calls) = k + 1, Fails(calls, q)
        PROVE  ValueAt(d, 1) = {}
    <3> DEFINE rest == SubSeq(calls, 1, Len(calls) - 1)
    <3>1. calls # <<>>
      BY <2>1, EmptySeq
    <3>2. PICK c \in 1..(Len(d) + 1) : AreOpen(d, rest, c) /\ Says(d, calls[Len(calls)], c, q)
      BY <2>1, <3>1, LastIsOpen
    <3>3. Len(calls) - 1 = k /\ k + 1 \in 1..(k + 1)
      BY <2>1
    <3>4. calls[k + 1].in # "reference"
      BY <2>1, <3>3
    <3>5. ValueAt(d, c) = {} /\ GoesOn(d, c)
      BY <2>1, <3>2, <3>4, CallFails DEF GoesOn
    <3>6. rest \in Seq(S) /\ Len(rest) = k /\ \A i \in 1..k : rest[i] = calls[i]
      <4>1. \A i \in 1..k : calls[i] \in S
        BY <2>1, ElementOfSeq
      <4> QED
        BY <2>1, <3>3, <4>1, SubSeqProperties
    <3> HIDE DEF rest
    <3>7. \A i \in 1..k : rest[i].in # "reference"
      <4>1. \A i \in 1..k : i \in 1..(k + 1)
        OBVIOUS
      <4> QED
        BY <2>1, <3>6, <4>1
    <3>8. Fails(rest, c)
      BY <3>2, <3>5, <3>6, <3>7
    <3> HIDE DEF Fails
    <3> QED
      BY <1>2, <3>6, <3>8
  <2> HIDE DEF Fails
  <2> QED
    BY <2>1
<1> HIDE DEF P
<1>3. \A k \in Nat : k \in P
  BY <1>1, <1>2, NatInduct
<1>4. ASSUME NEW k \in Nat, NEW calls \in Seq(S), NEW q \in 1..(Len(d) + 1), Len(calls) = k,
             AreOpen(d, calls, q), \A i \in 1..k : calls[i].in # "reference",
             ValueAt(d, q) = {}, GoesOn(d, q)
      PROVE  ValueAt(d, 1) = {}
  <2>1. Fails(calls, q)
    BY <1>4
  <2> HIDE DEF Fails
  <2> QED
    BY <1>3, <1>4, <2>1 DEF P
<1> QED
  BY <1>4

\* An error in the text is one of the grammar.
LEMMA RejectReads ==
    ASSUME IInv, ReadingInv, RejectObject \/ RejectKey PROVE ReadingInv'
<1>0. data \in Bytes /\ Len(data) \in Nat
  BY DEF IInv, DataInv, Bytes
<1>1. status' = "err" /\ data' = data
  BY Reject
<1>2. PICK q \in 1..(Len(data) + 1) :
         /\ AreOpen(data, stack, q)
         /\ \/ ValueAt(data, q) = {}
            \/ Top.in = "dictionary" /\ Top.key = <<>> /\ EntriesAt(data, q) = {}
         /\ Top.in = "array" => ~EndsArray(data, Start(data, q))
         /\ Top.in = "dictionary" /\ Top.key = <<>> => ~EndsDictionary(data, Start(data, q))
  <2>1. CASE RejectObject
    <3>1. PICK q \in 1..(Len(data) + 1) : AreOpen(data, stack, q) /\ Start(data, q) = Place
      BY <2>1, CallAt DEF RejectObject, IInv
    <3>2. ValueAt(data, q) = {}
      BY <1>0, <2>1, <3>1, SaysNothing DEF RejectObject
    <3>3. /\ Top.in = "array" => ~EndsArray(data, Place)
          /\ Top.in = "dictionary" /\ Top.key = <<>> => ~EndsDictionary(data, Place)
      BY <2>1 DEF RejectObject, EndsTop
    <3> QED
      BY <3>1, <3>2, <3>3
  <2>2. CASE RejectKey
    <3>1. PICK q \in 1..(Len(data) + 1), e \in 1..(Len(data) + 1) :
             AreOpen(data, stack, q) /\ ValueAt(data, q) = {Reading(ret, e)}
      BY <2>2, ReturnAt DEF RejectKey, IInv
    <3>2. EntriesAt(data, q) = {}
      BY <1>0, <2>2, <3>1, EntriesWithKey DEF RejectKey
    <3>3. GoesOn(data, q)
      BY <1>0, <3>1, ValueGoesOn
    <3> QED
      BY <2>2, <3>1, <3>2, <3>3 DEF RejectKey, GoesOn
  <2> QED
    BY <2>1, <2>2
<1>3. ValueAt(data, 1) = {}
  <2>1. CASE stack = <<>>
    <3>1. q = 1
      BY <1>0, <1>2, <2>1, NoneIsOpen
    <3>2. Top.in = "nothing"
      BY <2>1 DEF Top
    <3> QED
      BY <1>2, <3>1, <3>2
  <2>2. CASE stack # <<>>
    <3>1. PICK c \in 1..(Len(data) + 1) : AreOpen(data, Below, c) /\ Says(data, Top, c, q)
      BY <1>2, <2>2, TopSays
    <3>2. Quiet
      <4>1. CASE RejectKey
        <5>1. Top.in # "reference"
          BY <4>1 DEF RejectKey
        <5> QED
          BY <2>2, <5>1, TopIsQuiet
      <4>2. CASE RejectObject
        <5>1. Raise
          BY <4>2 DEF RejectObject
        <5>2. status = "run"
          BY <4>2 DEF RejectObject, Calls
        <5>3. {i \in DOMAIN stack : stack[i].in = "reference"} = {}
          BY <1>1, <5>1, <5>2, Zenon DEF Raise
        <5> QED
          BY <5>3 DEF Quiet, Waits
      <4> QED
        BY <4>1, <4>2
    <3>3. /\ Len(stack) \in Nat \ {0}
          /\ DOMAIN stack = 1..Len(stack)
          /\ Len(Below) = Len(stack) - 1
          /\ \A i \in 1..(Len(stack) - 1) : Below[i] = stack[i]
      BY <2>2, BelowProperties DEF IInv
    <3>4. PICK S : Below \in Seq(S)
      BY <2>2, BelowProperties DEF IInv
    <3>5. Top.in # "reference"
      BY <2>2, <3>2, <3>3 DEF Quiet, Waits, Top
    <3>6. ValueAt(data, c) = {} /\ GoesOn(data, c)
      BY <1>0, <1>2, <3>1, <3>5, CallFails
    <3>7. \A i \in 1..Len(Below) : Below[i].in # "reference"
      BY <3>2, <3>3 DEF Quiet, Waits
    <3>8. Len(Below) \in Nat
      BY <3>4
    <3> QED
      BY <1>0, <3>1, <3>4, <3>6, <3>7, <3>8, AllFail
  <2> QED
    BY <2>1, <2>2
<1> QED
  BY <1>1, <1>3 DEF ReadingInv

LEMMA FinishReads == ASSUME IInv, ReadingInv, Finish PROVE ReadingInv'
<1>1. PICK q \in 1..(Len(data) + 1), e \in 1..(Len(data) + 1) :
         AreOpen(data, stack, q) /\ ValueAt(data, q) = {Reading(ret, e)} /\ SamePlace(data, e, pos)
  BY ReturnAt DEF Finish, IInv
<1>2. q = 1
  BY <1>1, NoneIsOpen DEF Finish, IInv, DataInv
<1> QED
  BY <1>1, <1>2 DEF ReadingInv, Finish

\* Every step keeps to the grammar.
LEMMA StepReads == ASSUME IInv, ReadingInv, [Next]_vars PROVE ReadingInv'
<1>1. CASE ReadKeyword \/ ReadName \/ ReadString \/ ReadHexString
  BY <1>1, ReadOtherReads DEF ReadKeyword, ReadName, ReadString, ReadHexString, IInv
<1>2. CASE ReadNumber
  BY <1>2, ReadNumberReads DEF IInv
<1>3. CASE TryReference
  BY <1>3, TryReferenceReads
<1>4. CASE OpenArray \/ OpenDictionary
  BY <1>4, OpenReads
<1>5. CASE CloseArray \/ CloseDictionary
  BY <1>5, CloseReads
<1>6. CASE RejectObject \/ RejectKey
  BY <1>6, RejectReads
<1>7. CASE TakeItem \/ TakeKey \/ TakeValue
  BY <1>7, TakeItemReads, TakeKeyReads, TakeValueReads
<1>8. CASE TakeGeneration \/ GiveUpTheReference
  BY <1>8, EndOfAttemptReads
<1>9. CASE Finish
  BY <1>9, FinishReads
<1>10. CASE UNCHANGED vars
  BY <1>10 DEF vars, ReadingInv
<1> QED
  BY <1>1, <1>2, <1>3, <1>4, <1>5, <1>6, <1>7, <1>8, <1>9, <1>10 DEF Next

\* For every text: parse_value answers the value that the text says, read once and from
\* left to right, and an error for a text that says none.
THEOREM Answers == Spec => []AnswersTheReading
<1>1. Init => IInv /\ ReadingInv
  BY InitInv, InitReading DEF IInv
<1>2. IInv /\ ReadingInv /\ [Next]_vars => IInv' /\ ReadingInv'
  BY StepInv, StepReads
<1>3. IInv /\ ReadingInv => AnswersTheReading
  BY ReadingImplies DEF IInv
<1> QED
  BY <1>1, <1>2, <1>3, PTL DEF Spec
=============================================================================
