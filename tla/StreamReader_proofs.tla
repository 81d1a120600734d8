------------------------ MODULE StreamReader_proofs ------------------------
(***************************************************************************)
(* Streams, for all of their bytes.  The lexer of content streams moves    *)
(* on: however the bytes are cut short or mixed up, every step consumes at *)
(* least one of them and none goes past the end.  The filters make bytes   *)
(* of bytes, so that this holds for what they yield; the reader aborts at  *)
(* limits only; each of its steps makes progress; and what the predictors  *)
(* undo is what the standard does.                                         *)
(***************************************************************************)
EXTENDS StreamReader, StreamEncodings, PdfSyntax_proofs, WellFoundedInduction

\* What a form at p may read: bytes from p on, one at least, and one token at most.
Fits(lexeme, bytes, p) ==
    /\ lexeme.end \in (p + 1)..(Len(bytes) + 1)
    /\ lexeme.tokens = <<>> \/ \E token : lexeme.tokens = <<token>>

LEMMA LexemeFits ==
    ASSUME NEW bytes, NEW p, NEW end \in (p + 1)..(Len(bytes) + 1), NEW found,
           found = <<>> \/ \E token : found = <<token>>
    PROVE  Fits(Lexeme(found, end), bytes, p)
<1>1. Lexeme(found, end).end = end /\ Lexeme(found, end).tokens = found
  BY DEF Lexeme
<1> QED
  BY <1>1 DEF Fits

LEMMA IfUtf8Fits ==
    ASSUME NEW text, NEW token
    PROVE  IfUtf8(text, token) = <<>> \/ \E t : IfUtf8(text, token) = <<t>>
BY DEF IfUtf8

-----------------------------------------------------------------------------
(***************************************************************************)
(* The forms                                                               *)
(***************************************************************************)

LEMMA NameFits ==
    ASSUME NEW bytes \in Bytes, NEW p \in 1..Len(bytes), NEW x \in NameAt(bytes, p)
    PROVE  Fits(x, bytes, p)
<1> DEFINE end == EndOfName(bytes, p)
           found == IfUtf8(Text(bytes, p + 1, end), NameToken(Text(bytes, p + 1, end)))
<1>1. x = Lexeme(found, end)
  BY Zenon DEF NameAt
<1>2. end \in (p + 1)..(Len(bytes) + 1)
  BY EndOfNamePlace
<1>3. found = <<>> \/ \E token : found = <<token>>
  BY IfUtf8Fits
<1> HIDE DEF found, end
<1> QED
  BY <1>1, <1>2, <1>3, LexemeFits

LEMMA StringFits ==
    ASSUME NEW bytes \in Bytes, NEW p \in 1..Len(bytes), NEW x \in StringAt(bytes, p)
    PROVE  Fits(x, bytes, p)
<1>0. Len(bytes) \in Nat
  BY DEF Bytes
<1>1. CASE StringEnds(bytes, p) = {}
  <2>1. x = Lexeme(<<>>, Len(bytes) + 1)
    BY <1>1, Zenon DEF StringAt
  <2>2. Len(bytes) + 1 \in (p + 1)..(Len(bytes) + 1)
    BY <1>0
  <2> QED
    BY <2>1, <2>2, LexemeFits
<1>2. CASE StringEnds(bytes, p) # {}
  <2> DEFINE end == Min(StringEnds(bytes, p))
             found == <<StringToken(StringBytes(bytes, p, end))>>
  <2>1. x = Lexeme(found, end + 1)
    BY <1>2, Zenon DEF StringAt
  <2>2. StringEnds(bytes, p) \in SUBSET Nat
    BY <1>0 DEF StringEnds
  <2>3. end \in StringEnds(bytes, p)
    BY <1>2, <2>2, MinOfNat
  <2>4. end \in (p + 1)..Len(bytes)
    BY <2>3, StringEndPlace
  <2>5. \E token : found = <<token>>
    OBVIOUS
  <2> HIDE DEF found, end
  <2>6. end + 1 \in (p + 1)..(Len(bytes) + 1)
    BY <1>0, <2>4
  <2> QED
    BY <2>1, <2>5, <2>6, LexemeFits
<1> QED
  BY <1>1, <1>2

LEMMA HexStringFits ==
    ASSUME NEW bytes \in Bytes, NEW p \in 1..Len(bytes), NEW x \in HexStringAt(bytes, p)
    PROVE  Fits(x, bytes, p)
<1> DEFINE end == EndOfHexString(bytes, p)
           found == <<StringToken(HexStringBytes(bytes, p, end))>>
           behind == Min({end + 1, Len(bytes) + 1})
<1>0. Len(bytes) \in Nat
  BY DEF Bytes
<1>1. x = IF At(bytes, end) \in {Greater, NoByte} THEN Lexeme(found, behind) ELSE Lexeme(<<>>, end)
  BY Zenon DEF HexStringAt
<1>2. end \in (p + 1)..(Len(bytes) + 1)
  BY EndOfHexStringPlace
<1>3. \E token : found = <<token>>
  OBVIOUS
<1> HIDE DEF found, end
<1>4. behind \in (p + 1)..(Len(bytes) + 1)
  <2>1. {end + 1, Len(bytes) + 1} \in SUBSET Nat /\ {end + 1, Len(bytes) + 1} # {}
    BY <1>0, <1>2
  <2>2. behind \in {end + 1, Len(bytes) + 1} /\ \A y \in {end + 1, Len(bytes) + 1} : behind <= y
    BY <2>1, MinOfNat
  <2> HIDE DEF behind
  <2> QED
    BY <1>0, <1>2, <2>2
<1> HIDE DEF behind
<1>5. Fits(Lexeme(found, behind), bytes, p)
  BY <1>3, <1>4, LexemeFits
<1>6. Fits(Lexeme(<<>>, end), bytes, p)
  BY <1>2, LexemeFits
<1> QED
  BY <1>1, <1>5, <1>6

\* A number consumes its first byte: a sign, a digit or the point.
LEMMA NumberMoves ==
    ASSUME NEW bytes \in Bytes, NEW p \in 1..Len(bytes), bytes[p] \in NumberStart
    PROVE  EndOfNumber(bytes, p) \in (p + 1)..(Len(bytes) + 1)
<1> DEFINE s == PastSign(bytes, p)
           point == EndOfRun(bytes, s, Digits)
           end == EndOfRun(bytes, point + 1, Digits)
<1>0. Len(bytes) \in Nat
  BY DEF Bytes
<1>1. At(bytes, p) = bytes[p]
  BY AtByte
<1>2. bytes[p] \in {Minus, Plus} => s = p + 1
  BY <1>1 DEF PastSign
<1>3. bytes[p] \notin {Minus, Plus} => s = p
  BY <1>1 DEF PastSign
<1>4. s \in p..(p + 1) /\ s \in 1..(Len(bytes) + 1)
  BY <1>0, <1>2, <1>3
<1> HIDE DEF s
<1>5. point \in s..(Len(bytes) + 1) /\ (point <= Len(bytes) => bytes[point] \notin Digits)
  BY <1>4, EndOfRunPlace
<1> HIDE DEF point
<1>6. EndOfNumber(bytes, p) = IF At(bytes, point) = Dot THEN end ELSE point
  BY DEF EndOfNumber, point, s, end
<1>7. CASE At(bytes, point) = Dot
  <2>1. point \in 1..Len(bytes)
    BY <1>7, <1>0, <1>4, <1>5 DEF At, Dot, NoByte
  <2>2. point + 1 \in 1..(Len(bytes) + 1)
    BY <1>0, <2>1
  <2>3. end \in (point + 1)..(Len(bytes) + 1)
    BY <2>2, EndOfRunPlace
  <2> HIDE DEF end
  <2>4. end \in (p + 1)..(Len(bytes) + 1)
    BY <1>0, <1>4, <1>5, <2>1, <2>3
  <2> QED
    BY <1>6, <1>7, <2>4
<1>8. CASE At(bytes, point) # Dot
  <2>1. point # p
    <3>1. SUFFICES ASSUME point = p PROVE FALSE
      OBVIOUS
    <3>2. bytes[p] # Dot /\ bytes[p] \notin Digits
      BY <1>0, <1>1, <1>5, <1>8, <3>1
    <3>3. bytes[p] \in {Minus, Plus}
      BY <3>2 DEF NumberStart
    <3>4. s = p + 1
      BY <1>2, <3>3
    <3> QED
      BY <1>0, <1>5, <3>1, <3>4
  <2>2. point \in (p + 1)..(Len(bytes) + 1)
    BY <1>0, <1>4, <1>5, <2>1
  <2> QED
    BY <1>6, <1>8, <2>2
<1> QED
  BY <1>7, <1>8

LEMMA NumberFits ==
    ASSUME NEW bytes \in Bytes, NEW p \in 1..Len(bytes), bytes[p] \in NumberStart,
           NEW x \in NumberAt(bytes, p)
    PROVE  Fits(x, bytes, p)
<1> DEFINE end == EndOfNumber(bytes, p)
           found == IF IsNumber(bytes, p, end) THEN <<NumberToken(NumberFrom(Text(bytes, p, end)))>> ELSE <<>>
<1>1. x = Lexeme(found, end)
  BY Zenon DEF NumberAt
<1>2. end \in (p + 1)..(Len(bytes) + 1)
  BY NumberMoves
<1>3. found = <<>> \/ \E token : found = <<token>>
  OBVIOUS
<1> HIDE DEF found, end
<1> QED
  BY <1>1, <1>2, <1>3, LexemeFits

LEMMA OperatorFits ==
    ASSUME NEW bytes \in Bytes, NEW p \in 1..Len(bytes), NEW x \in OperatorAt(bytes, p)
    PROVE  Fits(x, bytes, p)
<1> DEFINE S == {q \in p..Len(bytes) : bytes[q] \in White \cup Delimiters}
           end == EndOfOperator(bytes, p)
           found == IfUtf8(Text(bytes, p, end), OperatorToken(Text(bytes, p, end)))
<1>0. Len(bytes) \in Nat
  BY DEF Bytes
<1>1. x = IF end = p THEN Lexeme(<<>>, p + 1) ELSE Lexeme(found, end)
  BY Zenon DEF OperatorAt
<1>2. end \in p..(Len(bytes) + 1)
  <2>1. S \in SUBSET (p..Len(bytes)) /\ p \in 1..(Len(bytes) + 1)
    BY <1>0
  <2>2. end = Min(S \cup {Len(bytes) + 1})
    BY DEF EndOfOperator
  <2> HIDE DEF S, end
  <2>3. Min(S \cup {Len(bytes) + 1}) \in p..(Len(bytes) + 1)
    BY <1>0, <2>1, FirstPlace
  <2> QED
    BY <2>2, <2>3
<1>3. found = <<>> \/ \E token : found = <<token>>
  BY IfUtf8Fits
<1> HIDE DEF found, end
<1>4. CASE end = p
  <2>1. p + 1 \in (p + 1)..(Len(bytes) + 1)
    BY <1>0
  <2> QED
    BY <1>1, <1>4, <2>1, LexemeFits
<1>5. CASE end # p
  <2>1. end \in (p + 1)..(Len(bytes) + 1)
    BY <1>0, <1>2, <1>5
  <2> QED
    BY <1>1, <1>3, <1>5, <2>1, LexemeFits
<1> QED
  BY <1>4, <1>5

\* A token of two bytes, whose second byte is there, and one of one byte.
LEMMA MarkFits ==
    ASSUME NEW bytes \in Bytes, NEW p \in 1..Len(bytes), NEW token
    PROVE  /\ Fits(Lexeme(<<token>>, p + 1), bytes, p)
           /\ At(bytes, p + 1) # NoByte => Fits(Lexeme(<<token>>, p + 2), bytes, p)
<1>0. Len(bytes) \in Nat /\ p + 1 \in Int
  BY DEF Bytes
<1>1. p + 1 \in (p + 1)..(Len(bytes) + 1)
  BY <1>0
<1>2. At(bytes, p + 1) # NoByte => p + 2 \in (p + 1)..(Len(bytes) + 1)
  BY <1>0, AtPlace
<1> QED
  BY <1>1, <1>2, LexemeFits

-----------------------------------------------------------------------------
(***************************************************************************)
(* The steps                                                               *)
(***************************************************************************)

\* The position is in the content or right behind it.
Within == content \in Bytes /\ pos \in 1..(Len(content) + 1)

\* No more tokens than bytes that have been read.
TokensFit == \E S : tokens \in Seq(S) /\ Len(tokens) < pos

\* What a pass of the loop does.
Moves ==
    /\ content' = content
    /\ pos' \in (pos + 1)..(Len(content) + 1)
    /\ tokens' = tokens \/ \E token : tokens' = tokens \o <<token>>

LEMMA HerePlace ==
    ASSUME Within, NEW p \in Here
    PROVE  p \in pos..Len(content) /\ p \in 1..Len(content)
<1>1. p = EndOfRun(content, pos, White) /\ p <= Len(content)
  BY DEF Here, SkipWhitespace
<1>2. EndOfRun(content, pos, White) \in pos..(Len(content) + 1)
  BY EndOfRunPlace DEF Within
<1>3. Len(content) \in Nat
  BY DEF Within, Bytes
<1> QED
  BY <1>1, <1>2, <1>3 DEF Within

\* A lexeme that fits moves the lexer.
LEMMA TakeMoves ==
    ASSUME Within, TokensFit, NEW p \in Here, NEW lexemes,
           \A x \in lexemes : Fits(x, content, p), Take(lexemes)
    PROVE  Moves
<1>1. PICK x \in lexemes : tokens' = tokens \o x.tokens /\ pos' = x.end /\ UNCHANGED content
  BY Zenon DEF Take
<1>2. Fits(x, content, p)
  OBVIOUS
<1>3. pos' \in (p + 1)..(Len(content) + 1)
  BY <1>1, <1>2 DEF Fits
<1>4. Len(content) \in Nat
  BY DEF Within, Bytes
<1>5. pos' \in (pos + 1)..(Len(content) + 1)
  BY <1>3, <1>4, HerePlace DEF Within
<1>6. tokens' = tokens \/ \E token : tokens' = tokens \o <<token>>
  <2>1. CASE x.tokens = <<>>
    <3>1. PICK S : tokens \in Seq(S)
      BY DEF TokensFit
    <3>2. tokens \o <<>> = tokens
      BY <3>1, ConcatEmptySeq
    <3> QED
      BY <1>1, <2>1, <3>2
  <2>2. CASE \E token : x.tokens = <<token>>
    BY <1>1, <2>2
  <2> QED
    BY <1>2, <2>1, <2>2 DEF Fits
<1> QED
  BY <1>1, <1>5, <1>6 DEF Moves

LEMMA StepMoves ==
    ASSUME Within, TokensFit, ReadToken
    PROVE  Moves
<1>0. content \in Bytes /\ Len(content) \in Nat
  BY DEF Within, Bytes
<1>1. CASE EndOfContent
  <2>1. pos' = Len(content) + 1 /\ content' = content /\ tokens' = tokens /\ pos <= Len(content)
    BY <1>1 DEF EndOfContent
  <2>2. pos' \in (pos + 1)..(Len(content) + 1)
    BY <1>0, <2>1 DEF Within
  <2> QED
    BY <2>1, <2>2 DEF Moves
<1>2. CASE ReadName
  <2>1. PICK p \in Here : Take(NameAt(content, p))
    BY <1>2, Zenon DEF ReadName
  <2>2. p \in 1..Len(content)
    BY HerePlace
  <2> QED
    BY <1>0, <2>1, <2>2, NameFits, TakeMoves
<1>3. CASE ReadString
  <2>1. PICK p \in Here : Take(StringAt(content, p))
    BY <1>3, Zenon DEF ReadString
  <2>2. p \in 1..Len(content)
    BY HerePlace
  <2> QED
    BY <1>0, <2>1, <2>2, StringFits, TakeMoves
<1>4. CASE ReadEmptyString
  <2>1. PICK p \in Here : At(content, p + 1) = Greater /\ Take({Lexeme(<<StringToken(<<>>)>>, p + 2)})
    BY <1>4, Zenon DEF ReadEmptyString
  <2>2. p \in 1..Len(content) /\ At(content, p + 1) # NoByte
    BY <2>1, HerePlace DEF Greater, NoByte
  <2>3. Fits(Lexeme(<<StringToken(<<>>)>>, p + 2), content, p)
    BY <1>0, <2>2, MarkFits
  <2> QED
    BY <2>1, <2>3, TakeMoves
<1>5. CASE ReadHexString
  <2>1. PICK p \in Here : Take(HexStringAt(content, p))
    BY <1>5, Zenon DEF ReadHexString
  <2>2. p \in 1..Len(content)
    BY HerePlace
  <2> QED
    BY <1>0, <2>1, <2>2, HexStringFits, TakeMoves
<1>6. CASE ReadDoubleMark
  <2>1. PICK p \in Here :
           /\ content[p] \in {Less, Greater} /\ At(content, p + 1) = content[p]
           /\ Take({Lexeme(<<Mark(<<content[p], content[p]>>)>>, p + 2)})
    BY <1>6, Zenon DEF ReadDoubleMark
  <2>2. p \in 1..Len(content) /\ At(content, p + 1) # NoByte
    BY <2>1, HerePlace DEF Less, Greater, NoByte
  <2>3. Fits(Lexeme(<<Mark(<<content[p], content[p]>>)>>, p + 2), content, p)
    BY <1>0, <2>2, MarkFits
  <2> QED
    BY <2>1, <2>3, TakeMoves
<1>7. CASE ReadBracket
  <2>1. PICK p \in Here : Take({Lexeme(<<Mark(<<content[p]>>)>>, p + 1)})
    BY <1>7, Zenon DEF ReadBracket
  <2>2. p \in 1..Len(content)
    BY HerePlace
  <2>3. Fits(Lexeme(<<Mark(<<content[p]>>)>>, p + 1), content, p)
    BY <1>0, <2>2, MarkFits
  <2> QED
    BY <2>1, <2>3, TakeMoves
<1>8. CASE ReadNumber
  <2>1. PICK p \in Here : content[p] \in NumberStart /\ Take(NumberAt(content, p))
    BY <1>8, Zenon DEF ReadNumber
  <2>2. p \in 1..Len(content)
    BY HerePlace
  <2> QED
    BY <1>0, <2>1, <2>2, NumberFits, TakeMoves
<1>9. CASE ReadOperator
  <2>1. PICK p \in Here : Take(OperatorAt(content, p))
    BY <1>9, Zenon DEF ReadOperator
  <2>2. p \in 1..Len(content)
    BY HerePlace
  <2> QED
    BY <1>0, <2>1, <2>2, OperatorFits, TakeMoves
<1> QED
  BY <1>1, <1>2, <1>3, <1>4, <1>5, <1>6, <1>7, <1>8, <1>9, Zenon DEF ReadToken

LEMMA LexStarts == LexInit => Within /\ TokensFit
<1> SUFFICES ASSUME LexInit
             PROVE  Within /\ TokensFit
  OBVIOUS
<1>1. content \in Bytes /\ Len(content) \in Nat /\ pos = 1 /\ tokens = <<>>
  BY DEF LexInit, Bytes
<1>2. Within
  BY <1>1 DEF Within
<1>3. tokens \in Seq({}) /\ Len(tokens) < pos
  BY <1>1
<1> QED
  BY <1>2, <1>3 DEF TokensFit

LEMMA LexStays == Within /\ TokensFit /\ [ReadToken]_lexVars => Within' /\ TokensFit'
<1> SUFFICES ASSUME Within, TokensFit, [ReadToken]_lexVars
             PROVE  Within' /\ TokensFit'
  OBVIOUS
<1>1. CASE ReadToken
  <2>1. Moves
    BY <1>1, StepMoves
  <2>2. Len(content) \in Nat
    BY DEF Within, Bytes
  <2>3. Within'
    BY <2>1, <2>2 DEF Moves, Within
  <2>4. PICK S : tokens \in Seq(S) /\ Len(tokens) < pos
    BY DEF TokensFit
  <2>5. CASE tokens' = tokens
    <3>1. Len(tokens) < pos'
      BY <2>1, <2>2, <2>4 DEF Moves, Within
    <3> QED
      BY <2>3, <2>4, <2>5, <3>1 DEF TokensFit
  <2>6. CASE \E token : tokens' = tokens \o <<token>>
    <3>1. PICK token : tokens' = tokens \o <<token>>
      BY <2>6
    <3> DEFINE T == S \cup {token}
    <3>2. tokens \in Seq(T) /\ <<token>> \in Seq(T)
      BY <2>4, SeqMonotonic
    <3> HIDE DEF T
    <3>3. tokens' \in Seq(T) /\ Len(tokens') = Len(tokens) + 1
      BY <3>1, <3>2, ConcatProperties
    <3>4. Len(tokens') < pos'
      BY <2>1, <2>2, <2>4, <3>3 DEF Moves, Within
    <3> QED
      BY <2>3, <3>3, <3>4 DEF TokensFit
  <2> QED
    BY <2>1, <2>5, <2>6 DEF Moves
<1>2. CASE UNCHANGED lexVars
  BY <1>2 DEF lexVars, Within, TokensFit
<1> QED
  BY <1>1, <1>2

\* Every pass of the loop of parse_all consumes a byte at least and never one behind the
\* end: with as many steps as there are bytes the loop has ended.
THEOREM EveryStepConsumes == LexSpec => [][pos < pos' /\ pos' <= Len(content) + 1]_lexVars
<1>1. Within /\ TokensFit /\ [ReadToken]_lexVars => [pos < pos' /\ pos' <= Len(content) + 1]_lexVars
  <2>1. ASSUME Within, TokensFit, ReadToken
        PROVE  pos < pos' /\ pos' <= Len(content) + 1
    <3>1. Moves
      BY <2>1, StepMoves
    <3>2. Len(content) \in Nat
      BY <2>1 DEF Within, Bytes
    <3> QED
      BY <2>1, <3>1, <3>2 DEF Moves, Within
  <2> QED
    BY <2>1
<1> QED
  BY <1>1, LexStarts, LexStays, PTL DEF LexSpec

\* parse_all never gives more tokens than it has read bytes, and stays within its data.
THEOREM TokensAreBounded == LexSpec => [](Within /\ TokensFit)
BY LexStarts, LexStays, PTL DEF LexSpec

-----------------------------------------------------------------------------
(***************************************************************************)
(* The filters make bytes of bytes                                         *)
(***************************************************************************)

LEMMA ByteOf ==
    ASSUME NEW bytes \in Bytes, NEW i \in 1..Len(bytes)
    PROVE  bytes[i] \in 0..255
BY ElementOfSeq DEF Bytes

LEMMA BytesAreNumbers ==
    ASSUME NEW bytes \in Bytes
    PROVE  Len(bytes) \in Nat /\ DOMAIN bytes = 1..Len(bytes) /\ bytes \in Seq(Nat)
<1>1. 0..255 \subseteq Nat
  OBVIOUS
<1>2. bytes \in Seq(Nat)
  BY <1>1, SeqMonotonic, Zenon DEF Bytes
<1> QED
  BY <1>2

\* A part of a sequence.
LEMMA PartType ==
    ASSUME NEW S, NEW seq \in Seq(S), NEW m \in Nat \ {0}, NEW n \in 0..Len(seq)
    PROVE  SubSeq(seq, m, n) \in Seq(S)
<1>1. CASE m <= n
  BY <1>1, SubSeqProperties
<1>2. CASE m > n
  BY <1>2
<1> QED
  BY <1>1, <1>2

LEMMA SolidType ==
    ASSUME NEW bytes \in Bytes
    PROVE  Solid(bytes) \in Bytes
<1> DEFINE B == 0..255
           parts == [i \in DOMAIN bytes |-> IF bytes[i] \in White THEN <<>> ELSE <<bytes[i]>>]
<1>1. Len(bytes) \in Nat /\ DOMAIN bytes = 1..Len(bytes)
  BY DEF Bytes
<1>2. ASSUME NEW i \in 1..Len(bytes)
      PROVE  (IF bytes[i] \in White THEN <<>> ELSE <<bytes[i]>>) \in Seq(B)
  <2>1. bytes[i] \in B
    BY ByteOf
  <2> HIDE DEF B
  <2> QED
    BY <2>1
<1>3. parts \in Seq(Seq(B))
  <2> HIDE DEF B
  <2> QED
    BY <1>1, <1>2
<1> HIDE DEF parts, B
<1>4. FlattenSeq(parts) \in Seq(B)
  BY <1>3, FlattenSeqType
<1> QED
  BY <1>4 DEF Solid, Bytes, B, parts

LEMMA UpToType ==
    ASSUME NEW bytes \in Bytes, NEW mark \in Nat
    PROVE  UpTo(bytes, mark) \in Bytes
<1> DEFINE end == EndOfRun(bytes, 1, (0..255) \ {mark})
<1>1. Len(bytes) \in Nat /\ bytes \in Seq(Nat)
  BY BytesAreNumbers
<1>2. end \in 1..(Len(bytes) + 1)
  BY <1>1, EndOfRunPlace
<1>3. UpTo(bytes, mark) = SubSeq(bytes, 1, end - 1)
  BY DEF UpTo, Text
<1> HIDE DEF end
<1>4. end - 1 \in 0..Len(bytes) /\ 1 \in Nat \ {0}
  BY <1>1, <1>2
<1>5. SubSeq(bytes, 1, end - 1) \in Seq(0..255)
  BY <1>4, PartType DEF Bytes
<1> QED
  BY <1>3, <1>5 DEF Bytes

LEMMA HexValueType ==
    ASSUME NEW b \in HexDigits
    PROVE  HexValue(b) \in 0..15
BY DEF HexValue, HexDigits, Digits

LEMMA PackedHexType ==
    ASSUME NEW bytes \in Bytes, \A i \in 1..Len(bytes) : bytes[i] \in HexDigits
    PROVE  PackedHex(bytes) \in Bytes
<1> DEFINE n == (Len(bytes) + 1) \div 2
           Packed(k) == 16 * HexValue(bytes[2 * k - 1]) + IF 2 * k <= Len(bytes) THEN HexValue(bytes[2 * k]) ELSE 0
<1>1. Len(bytes) \in Nat /\ n \in Nat
  BY DEF Bytes
<1>2. ASSUME NEW k \in 1..n
      PROVE  Packed(k) \in 0..255
  <2>1. 2 * k - 1 \in 1..Len(bytes) /\ (2 * k <= Len(bytes) => 2 * k \in 1..Len(bytes))
    BY <1>1
  <2>2. HexValue(bytes[2 * k - 1]) \in 0..15
    BY <2>1, HexValueType
  <2>3. 2 * k <= Len(bytes) => HexValue(bytes[2 * k]) \in 0..15
    BY <2>1, HexValueType
  <2> DEFINE high == HexValue(bytes[2 * k - 1])
             low == IF 2 * k <= Len(bytes) THEN HexValue(bytes[2 * k]) ELSE 0
  <2>4. high \in 0..15 /\ low \in 0..15
    BY <2>2, <2>3
  <2>5. Packed(k) = 16 * high + low
    OBVIOUS
  <2> HIDE DEF high, low, Packed
  <2> QED
    BY <2>4, <2>5
<1>3. PackedHex(bytes) = [k \in 1..n |-> Packed(k)]
  BY DEF PackedHex
<1> HIDE DEF Packed, n
<1> QED
  BY <1>1, <1>2, <1>3 DEF Bytes

\* The values of the digits of a text.
LEMMA Values85Type ==
    ASSUME NEW bytes \in Bytes, IsAscii85(bytes)
    PROVE  Values85[bytes] \in Seq(0..84)
<1> DEFINE V == 0..84
           parts == [i \in DOMAIN bytes |-> IF bytes[i] = Zero85 THEN <<0, 0, 0, 0, 0>> ELSE <<bytes[i] - 33>>]
<1>1. Len(bytes) \in Nat /\ DOMAIN bytes = 1..Len(bytes) /\ bytes \in Seq(Nat)
  BY BytesAreNumbers
<1>2. ASSUME NEW i \in 1..Len(bytes)
      PROVE  (IF bytes[i] = Zero85 THEN <<0, 0, 0, 0, 0>> ELSE <<bytes[i] - 33>>) \in Seq(V)
  <2>1. bytes[i] = Zero85 \/ bytes[i] - 33 \in V
    <3>1. bytes[i] = Zero85 \/ bytes[i] \in 33..117
      BY <1>1, Zenon DEF IsAscii85, Digits85
    <3> QED
      BY <3>1
  <2>2. 0 \in V
    OBVIOUS
  <2> HIDE DEF V
  <2> QED
    BY <2>1, <2>2
<1>3. parts \in Seq(Seq(V))
  <2> HIDE DEF V
  <2> QED
    BY <1>1, <1>2
<1>4. Values85[bytes] = FlattenSeq(parts)
  BY <1>1 DEF Values85
<1> HIDE DEF parts, V
<1>5. FlattenSeq(parts) \in Seq(V)
  BY <1>3, FlattenSeqType
<1> QED
  BY <1>4, <1>5 DEF V

\* The last group is full.
LEMMA FilledType ==
    ASSUME NEW values \in Seq(0..84)
    PROVE  /\ Lacking(values) \in 0..4
           /\ Filled(values) \in Seq(0..84)
           /\ Len(Filled(values)) = Len(values) + Lacking(values)
           /\ Len(Filled(values)) = 5 * ((Len(values) + 4) \div 5)
<1> DEFINE n == Lacking(values)
           more == [k \in 1..n |-> 84]
<1>1. Len(values) \in Nat
  OBVIOUS
<1>2. n \in 0..4 /\ Len(values) + n = 5 * ((Len(values) + 4) \div 5)
  BY <1>1 DEF Lacking
<1> HIDE DEF n
<1>3. more \in Seq(0..84) /\ Len(more) = n
  BY <1>2
<1> HIDE DEF more
<1>4. values \o more \in Seq(0..84) /\ Len(values \o more) = Len(values) + n
  BY <1>3, ConcatProperties
<1>5. Filled(values) = values \o more
  BY DEF Filled, more, n
<1> QED
  BY <1>2, <1>4, <1>5 DEF n

LEMMA GroupBytesType ==
    ASSUME NEW group \in Seq(0..84), Len(group) = 5
    PROVE  \A i \in 1..4 : GroupBytes[group][i] \in 0..255
<1> DEFINE d1 == group[1]
           d2 == group[2]
           d3 == group[3]
           d4 == group[4]
           d5 == group[5]
           low  == 33969 * d1 + 24301 * d2 + 7225 * d3 + 85 * d4 + d5
           high == 796 * d1 + 9 * d2 + low \div 65536
<1>1. group \in Seq(Nat)
  <2>1. 0..84 \subseteq Nat
    OBVIOUS
  <2> QED
    BY <2>1, SeqMonotonic, Zenon
<1>2. GroupBytes[group] = <<(high \div 256) % 256, high % 256, (low \div 256) % 256, low % 256>>
  BY <1>1 DEF GroupBytes
<1>3. \A i \in 1..5 : group[i] \in Nat
  BY <1>1, ElementOfSeq
<1>31. d1 \in Nat
  BY <1>3
<1>32. d2 \in Nat
  BY <1>3
<1>33. d3 \in Nat
  BY <1>3
<1>34. d4 \in Nat
  BY <1>3
<1>35. d5 \in Nat
  BY <1>3
<1> HIDE DEF d1, d2, d3, d4, d5
<1>5. low \in Nat
  BY <1>31, <1>32, <1>33, <1>34, <1>35
<1> HIDE DEF low
<1>6. high \in Nat
  BY <1>31, <1>32, <1>5
<1> HIDE DEF high
<1> DEFINE b1 == (high \div 256) % 256
           b2 == high % 256
           b3 == (low \div 256) % 256
           b4 == low % 256
<1>7. \A n \in Nat : n % 256 \in 0..255 /\ n \div 256 \in Nat
  OBVIOUS
<1>8. b1 \in 0..255 /\ b2 \in 0..255 /\ b3 \in 0..255 /\ b4 \in 0..255
  BY <1>5, <1>6, <1>7
<1>9. GroupBytes[group] = <<b1, b2, b3, b4>>
  BY <1>2
<1> HIDE DEF b1, b2, b3, b4
<1>10. /\ GroupBytes[group][1] = b1 /\ GroupBytes[group][2] = b2
       /\ GroupBytes[group][3] = b3 /\ GroupBytes[group][4] = b4
  BY <1>9
<1>11. \A i \in 1..4 : i = 1 \/ i = 2 \/ i = 3 \/ i = 4
  OBVIOUS
<1> QED
  BY <1>8, <1>10, <1>11, Zenon

LEMMA FiveInARow ==
    ASSUME NEW k \in Nat, NEW first, NEW last, first = 5 * k + 1, last = 5 * k + 5
    PROVE  first \in 1..last /\ last \in Nat /\ last - first + 1 = 5
OBVIOUS

LEMMA Bytes85Type ==
    ASSUME NEW values \in Seq(0..84)
    PROVE  Bytes85[values] \in Bytes
<1> DEFINE n == 4 * ((Len(values) + 4) \div 5) - Lacking(values)
           g(i) == (i - 1) \div 4
           filled == Filled(values)
           Byte(i) == GroupBytes[GroupBehind(values, g(i))][1 + ((i - 1) % 4)]
<1>0. values \in Seq(Nat)
  <2>1. 0..84 \subseteq Nat
    OBVIOUS
  <2> QED
    BY <2>1, SeqMonotonic, Zenon
<1>1. values \in Seq(Nat) /\ Len(values) \in Nat
  BY <1>0
<1>2. /\ Lacking(values) \in 0..4 /\ filled \in Seq(0..84)
      /\ Len(filled) = Len(values) + Lacking(values) /\ Len(filled) = 5 * ((Len(values) + 4) \div 5)
  BY FilledType
<1>3. n \in Nat
  BY <1>1, <1>2
<1>4. ASSUME NEW i \in 1..n
      PROVE  Byte(i) \in 0..255
  <2>1. g(i) \in Nat /\ 1 + ((i - 1) % 4) \in 1..4 /\ 4 * g(i) < i
    BY <1>3
  <2>2. 5 * g(i) + 5 <= Len(filled)
    BY <1>1, <1>2, <2>1
  <2> HIDE DEF g, filled
  <2>3. /\ GroupBehind(values, g(i)) \in Seq(0..84)
        /\ Len(GroupBehind(values, g(i))) = 5
    <3> DEFINE first == 5 * g(i) + 1
               last == 5 * g(i) + 5
    <3>0. last <= Len(filled)
      BY <2>2
    <3>1. first \in 1..last /\ last \in Nat /\ last - first + 1 = 5
      <4>1. g(i) \in Nat /\ first = 5 * g(i) + 1 /\ last = 5 * g(i) + 5
        BY <2>1
      <4> HIDE DEF first, last
      <4> QED
        BY <4>1, FiveInARow
    <3> HIDE DEF first, last
    <3>2. first \in Int /\ last \in 0..Len(filled) /\ first \in Nat \ {0} /\ first \in 1..last
      <4>1. Len(filled) \in Nat
        BY <1>2
      <4> QED
        BY <3>0, <3>1, <4>1
    <3>3. SubSeq(filled, first, last) \in Seq(0..84)
      BY <1>2, <3>2, PartType
    <3>4. Len(SubSeq(filled, first, last)) = last - first + 1
      BY <1>2, <3>1, <3>2, SubSeqProperties
    <3> QED
      BY <3>1, <3>3, <3>4, Zenon DEF GroupBehind, filled, first, last
  <2> QED
    BY <2>1, <2>3, GroupBytesType
<1>5. Bytes85[values] = [i \in 1..n |-> Byte(i)]
  BY <1>1 DEF Bytes85
<1> HIDE DEF n, g, Byte
<1>6. [i \in 1..n |-> Byte(i)] \in [1..n -> 0..255]
  BY <1>4
<1>7. [i \in 1..n |-> Byte(i)] \in Seq(0..255)
  BY <1>3, <1>6
<1> QED
  BY <1>5, <1>7 DEF Bytes

\* What a filter makes of bytes is bytes or an error.
LEMMA FilterType ==
    ASSUME NEW bytes \in Bytes, NEW name
    PROVE  \/ ApplyFilter(name, bytes) = Err
           \/ /\ ApplyFilter(name, bytes).r = "ok"
              /\ ApplyFilter(name, bytes).v \in Bytes
<1>0. Solid(bytes) \in Bytes
  BY SolidType
<1>1. CASE name = "FlateDecode"
  <2>1. CASE bytes = <<>>
    BY <1>1, <2>1 DEF ApplyFilter
  <2>2. CASE bytes # <<>>
    <3>1. Tail(bytes) \in Bytes
      BY <2>2, HeadTailProperties DEF Bytes
    <3>2. ApplyFilter(name, bytes) = Check(Head(bytes) = ZlibMark, Tail(bytes))
      BY <1>1, <2>2 DEF ApplyFilter, Inflated
    <3> QED
      BY <3>1, <3>2 DEF Check, Ok
  <2> QED
    BY <2>1, <2>2
<1>2. CASE name = "ASCIIHexDecode"
  <2> DEFINE digits == UpTo(Solid(bytes), Greater)
  <2>1. digits \in Bytes
    BY <1>0, UpToType DEF Greater
  <2>2. ApplyFilter(name, bytes) = DecodeAsciiHex[digits]
    BY <1>2 DEF ApplyFilter
  <2> HIDE DEF digits
  <2>3. digits \in Seq(Nat) /\ DOMAIN digits = 1..Len(digits)
    BY <2>1, BytesAreNumbers
  <2>4. DecodeAsciiHex[digits] = Check(\A i \in DOMAIN digits : digits[i] \in HexDigits, PackedHex(digits))
    BY <2>3 DEF DecodeAsciiHex
  <2>5. (\A i \in 1..Len(digits) : digits[i] \in HexDigits) => PackedHex(digits) \in Bytes
    BY <2>1, PackedHexType
  <2>6. CASE \A i \in 1..Len(digits) : digits[i] \in HexDigits
    <3>1. ApplyFilter(name, bytes) = Ok(PackedHex(digits)) /\ PackedHex(digits) \in Bytes
      BY <2>2, <2>3, <2>4, <2>5, <2>6, Zenon DEF Check
    <3> QED
      BY <3>1 DEF Ok
  <2>7. CASE ~ \A i \in 1..Len(digits) : digits[i] \in HexDigits
    BY <2>2, <2>3, <2>4, <2>7, Zenon DEF Check
  <2> QED
    BY <2>6, <2>7
<1>3. CASE name = "ASCII85Decode"
  <2> DEFINE text == UpTo(Solid(bytes), Tilde)
  <2>1. text \in Bytes
    BY <1>0, UpToType DEF Tilde
  <2>2. ApplyFilter(name, bytes) = DecodeAscii85[text]
    BY <1>3 DEF ApplyFilter
  <2> HIDE DEF text
  <2>3. text \in Seq(Nat)
    BY <2>1, BytesAreNumbers
  <2>4. DecodeAscii85[text] = IF IsAscii85(text) THEN Ok(Bytes85[Values85[text]]) ELSE Err
    BY <2>3 DEF DecodeAscii85
  <2>5. IsAscii85(text) => Bytes85[Values85[text]] \in Bytes
    BY <2>1, Values85Type, Bytes85Type
  <2> QED
    BY <2>2, <2>4, <2>5 DEF Ok
<1>4. CASE name \notin {"FlateDecode", "ASCIIHexDecode", "ASCII85Decode"}
  BY <1>4 DEF ApplyFilter
<1> QED
  BY <1>1, <1>2, <1>3, <1>4

-----------------------------------------------------------------------------
(***************************************************************************)
(* Parameters and rows                                                     *)
(***************************************************************************)

LEMMA ColumnsType ==
    ASSUME NEW parms, ColumnsAreWhole(parms)
    PROVE  \/ PredictedColumns(parms) = Err
           \/ PredictedColumns(parms) = Ok({})
           \/ \E n \in Nat : PredictedColumns(parms) = Ok({n})
<1> DEFINE n == ColumnsOf(parms)
<1>1. CASE Entry(parms, "Columns").kind = "Number"
  <2>1. n \in Nat
    <3> DEFINE whole == Entry(parms, "Columns").whole
    <3>1. whole \in Nat
      BY <1>1 DEF ColumnsAreWhole
    <3> HIDE DEF whole
    <3>2. {whole, MaxSize} \in SUBSET Nat
      BY <3>1, SizesAssumption
    <3>3. Min({whole, MaxSize}) \in {whole, MaxSize}
      BY <3>2, MinOfNat
    <3>4. Min({whole, MaxSize}) \in Nat
      BY <3>2, <3>3
    <3>5. n = 0 \/ n = Min({whole, MaxSize})
      BY DEF ColumnsOf, Saturated, whole
    <3> QED
      BY <3>4, <3>5
  <2>2. \/ PredictedColumns(parms) = Err
        \/ PredictedColumns(parms) = Ok({})
        \/ PredictedColumns(parms) = Ok({n})
    BY DEF PredictedColumns
  <2> HIDE DEF n
  <2> QED
    BY <2>1, <2>2
<1>2. CASE Entry(parms, "Columns").kind # "Number"
  BY <1>2 DEF PredictedColumns
<1> QED
  BY <1>1, <1>2

\* One number of bytes consists of rows of another.
Multiple(len, size) == \E k \in Nat : len = k * size

LEMMA RemainderZero ==
    ASSUME NEW len \in Nat, NEW size \in Nat \ {0}, len % size = 0
    PROVE  Multiple(len, size)
<1>1. len \div size \in Nat /\ len = (len \div size) * size
  OBVIOUS
<1> QED
  BY <1>1 DEF Multiple

LEMMA OneRowLess ==
    ASSUME NEW len \in Nat \ {0}, NEW size \in Nat \ {0}, Multiple(len, size)
    PROVE  size <= len /\ Multiple(len - size, size)
<1>1. PICK k \in Nat : len = k * size
  BY DEF Multiple
<1>2. k # 0
  BY <1>1
<1>3. k - 1 \in Nat /\ k * size = (k - 1) * size + size
  BY <1>2
<1>4. (k - 1) * size \in Nat
  BY <1>3
<1> DEFINE less == (k - 1) * size
<1>5. len = less + size /\ less \in Nat /\ less = (k - 1) * size
  BY <1>1, <1>3, <1>4
<1> HIDE DEF less
<1>6. size <= len /\ len - size = less
  BY <1>5
<1> QED
  BY <1>3, <1>5, <1>6 DEF Multiple

\* The rows while they are decoded.
RowsType(state, n) ==
    \E left \in Bytes, above \in [1..n -> 0..255], out \in Bytes :
        /\ state = [columns |-> n, left |-> left, above |-> above, out |-> out]
        /\ Multiple(Len(left), n + 1)

LEMMA RowsOfType ==
    ASSUME NEW n \in Nat, NEW bytes \in Bytes
    PROVE  LET result == RowsOf(n, bytes) IN
           \/ result = Err
           \/ result = Panic /\ (n = MaxSize \/ (n > Room /\ (bytes = <<>> \/ n < Len(bytes))))
           \/ result.r = "ok" /\ RowsType(result.v, n)
<1>0. MaxSize \in Nat /\ Room \in Nat /\ Len(bytes) \in Nat
  BY SizesAssumption, BytesAreNumbers
<1>1. CASE n = MaxSize
  BY <1>1 DEF RowsOf
<1>2. CASE n # MaxSize /\ Len(bytes) % (n + 1) # 0
  BY <1>2 DEF RowsOf
<1>3. CASE n # MaxSize /\ Len(bytes) % (n + 1) = 0
  <2>1. Multiple(Len(bytes), n + 1)
    BY <1>0, <1>3, RemainderZero
  <2>2. CASE n > Room
    <3>1. RowsOf(n, bytes) = Panic
      BY <1>3, <2>2 DEF RowsOf
    <3>2. ASSUME bytes # <<>> PROVE n < Len(bytes)
      <4>1. Len(bytes) \in Nat \ {0} /\ n + 1 \in Nat \ {0}
        BY <1>0, <3>2, EmptySeq DEF Bytes
      <4>2. n + 1 <= Len(bytes)
        BY <2>1, <4>1, OneRowLess
      <4> QED
        BY <1>0, <4>2
    <3> QED
      BY <2>2, <3>1, <3>2
  <2>3. CASE ~(n > Room)
    <3> DEFINE above == [i \in 1..n |-> 0]
    <3>1. RowsOf(n, bytes) = Ok([columns |-> n, left |-> bytes, above |-> above, out |-> <<>>])
      BY <1>3, <2>3, Zenon DEF RowsOf
    <3>2. above \in [1..n -> 0..255] /\ <<>> \in Bytes
      BY DEF Bytes
    <3> HIDE DEF above
    <3>3. RowsType([columns |-> n, left |-> bytes, above |-> above, out |-> <<>>], n)
      BY <2>1, <3>2 DEF RowsType
    <3> QED
      BY <3>1, <3>3 DEF Ok
  <2> QED
    BY <2>2, <2>3
<1> QED
  BY <1>1, <1>2, <1>3

\* A prediction is made of the neighbours.
LEMMA PredictionType ==
    ASSUME NEW algorithm \in 0..4, NEW a \in 0..255, NEW b \in 0..255, NEW c \in 0..255
    PROVE  Prediction(algorithm, a, b, c) \in 0..255
<1>1. CASE algorithm = 4
  <2>1. Prediction(algorithm, a, b, c) = Paeth(a, b, c)
    BY <1>1 DEF Prediction
  <2>2. Paeth(a, b, c) \in {a, b, c}
    BY DEF Paeth
  <2> QED
    BY <2>1, <2>2
<1>2. CASE algorithm = 3
  <2>1. Prediction(algorithm, a, b, c) = (a + b) \div 2
    BY <1>2 DEF Prediction
  <2>2. (a + b) \div 2 \in 0..255
    OBVIOUS
  <2> QED
    BY <2>1, <2>2
<1>3. CASE algorithm \in {0, 1, 2}
  <2>1. Prediction(algorithm, a, b, c) \in {0, a, b}
    BY <1>3 DEF Prediction
  <2> QED
    BY <2>1
<1> QED
  BY <1>1, <1>2, <1>3

\* The byte at place i of a row, when x has been decoded to its left.
DecodedByte(algorithm, row, above, i, x) ==
    (row[i] + Prediction(algorithm, x, above[i], IF i = 1 THEN 0 ELSE above[i - 1])) % 256

LEMMA DecodedByteType ==
    ASSUME NEW algorithm \in 0..4, NEW row \in Bytes, NEW above \in [1..Len(row) -> 0..255],
           NEW i \in 1..Len(row), NEW x \in 0..255
    PROVE  DecodedByte(algorithm, row, above, i, x) \in 0..255
<1> DEFINE corner == IF i = 1 THEN 0 ELSE above[i - 1]
           predicted == Prediction(algorithm, x, above[i], corner)
<1>0. Len(row) \in Nat
  BY BytesAreNumbers
<1>1. corner \in 0..255
  <2>1. CASE i = 1
    BY <2>1
  <2>2. CASE i # 1
    <3>1. i - 1 \in 1..Len(row)
      BY <1>0, <2>2
    <3> QED
      BY <2>2, <3>1
  <2> QED
    BY <2>1, <2>2
<1>2. above[i] \in 0..255
  OBVIOUS
<1> HIDE DEF corner
<1>3. predicted \in 0..255
  BY <1>1, <1>2, PredictionType
<1> DEFINE coded == row[i]
<1>4. coded \in 0..255
  BY ByteOf
<1> HIDE DEF predicted, coded
<1>5. (coded + predicted) % 256 \in 0..255
  BY <1>3, <1>4
<1> QED
  BY <1>5 DEF coded, DecodedByte, predicted, corner

\* A row is decoded from left to right.
Decodes(d, algorithm, row, above) ==
    d[0] = 0 /\ \A i \in 1..Len(row) : d[i] = DecodedByte(algorithm, row, above, i, d[i - 1])

LEMMA DecodedRowSteps ==
    ASSUME NEW algorithm \in 0..4, NEW row \in Bytes, NEW above \in [1..Len(row) -> 0..255]
    PROVE  \E d \in [0..Len(row) -> 0..255] :
              /\ Decodes(d, algorithm, row, above)
              /\ DecodedRow(algorithm, row, above) = [i \in 1..Len(row) |-> d[i]]
<1> DEFINE n == Len(row)
           B == 0..255
           Dec(i, x) == DecodedByte(algorithm, row, above, i, x)
           step == [i \in 1..n |-> [x \in B |-> Dec(i, x)]]
<1>1. n \in Nat /\ 0 \in B
  BY BytesAreNumbers
<1>2. \A i \in 1..n, x \in B : Dec(i, x) \in B
  BY DecodedByteType
<1>3. DecodedRow(algorithm, row, above) =
         LET decoded[i \in 0..n] == IF i = 0 THEN 0 ELSE Dec(i, decoded[i - 1])
         IN  [i \in 1..n |-> decoded[i]]
  BY Zenon DEF DecodedRow, DecodedByte
<1> HIDE DEF Dec, n, B
<1>4. step \in [1..n -> [B -> B]] /\ \A i \in 1..n, x \in B : step[i][x] = Dec(i, x)
  BY <1>2
<1> HIDE DEF step
<1>5. \E f \in [0..n -> B] : Follows(f, 0, n, step)
  BY <1>1, <1>4, StepsExist
<1>6. PICK f \in [0..n -> B] : f[0] = 0 /\ \A i \in 1..n : f[i] = step[i][f[i - 1]]
  BY <1>5, Zenon DEF Follows
<1>7. \A i \in 1..n : f[i] = Dec(i, f[i - 1])
  <2> TAKE i \in 1..n
  <2>1. i - 1 \in 0..n
    BY <1>1
  <2>2. f[i - 1] \in B
    BY <2>1
  <2> QED
    BY <1>4, <1>6, <2>2
<1> DEFINE IsRow(g) == g = [i \in 0..n |-> IF i = 0 THEN 0 ELSE Dec(i, g[i - 1])]
           decoded == CHOOSE g : IsRow(g)
<1>8. DecodedRow(algorithm, row, above) = [i \in 1..n |-> decoded[i]]
  BY <1>3, Zenon
<1>9. IsRow(f)
  <2>1. \A i \in 0..n : f[i] = IF i = 0 THEN 0 ELSE Dec(i, f[i - 1])
    BY <1>1, <1>6, <1>7
  <2> QED
    BY <2>1
<1> HIDE DEF IsRow
<1>10. IsRow(decoded)
  BY <1>9
<1> HIDE DEF decoded
<1>11. decoded = [i \in 0..n |-> IF i = 0 THEN 0 ELSE Dec(i, decoded[i - 1])]
  BY <1>10 DEF IsRow
<1> DEFINE P == {k \in Nat : k \in 0..n => decoded[k] = f[k]}
<1>12. 0 \in P
  BY <1>1, <1>6, <1>11
<1>13. ASSUME NEW k \in Nat, k \in P PROVE k + 1 \in P
  <2> SUFFICES ASSUME k + 1 \in 0..n PROVE decoded[k + 1] = f[k + 1]
    OBVIOUS
  <2>1. PICK i \in 1..n : i = k + 1
    BY <1>1
  <2>2. k \in 0..n /\ i - 1 = k /\ i \in 0..n /\ i # 0
    BY <1>1, <2>1
  <2>3. decoded[i] = Dec(i, decoded[i - 1])
    BY <1>11, <2>2, Zenon
  <2>4. decoded[k] = f[k]
    BY <1>13, <2>2
  <2> QED
    BY <1>7, <2>1, <2>2, <2>3, <2>4
<1> HIDE DEF P
<1>14. \A k \in Nat : k \in P
  BY <1>12, <1>13, NatInduct
<1>15. \A i \in 1..n : decoded[i] = f[i]
  BY <1>1, <1>14 DEF P
<1>16. DecodedRow(algorithm, row, above) = [i \in 1..n |-> f[i]]
  BY <1>8, <1>15
<1> QED
  BY <1>6, <1>7, <1>16 DEF n, B, Dec, Decodes

\* A decoded row consists of bytes, as many as the row.
LEMMA DecodedRowType ==
    ASSUME NEW algorithm \in 0..4, NEW row \in Bytes, NEW above \in [1..Len(row) -> 0..255]
    PROVE  /\ DecodedRow(algorithm, row, above) \in [1..Len(row) -> 0..255]
           /\ DecodedRow(algorithm, row, above) \in Bytes
<1>1. Len(row) \in Nat
  BY BytesAreNumbers
<1>2. PICK d \in [0..Len(row) -> 0..255] :
         /\ Decodes(d, algorithm, row, above)
         /\ DecodedRow(algorithm, row, above) = [i \in 1..Len(row) |-> d[i]]
  BY DecodedRowSteps
<1>3. \A i \in 1..Len(row) : d[i] \in 0..255
  <2> TAKE i \in 1..Len(row)
  <2>1. i \in 0..Len(row)
    BY <1>1
  <2> QED
    BY <2>1
<1> QED
  BY <1>1, <1>2, <1>3 DEF Bytes

\* One pass of the loop takes a row away, and ends the program only at a row without bytes.
LEMMA NextRowType ==
    ASSUME NEW n \in Nat, NEW state, RowsType(state, n), state.left # <<>>
    PROVE  \/ NextRow(state) = Err
           \/ NextRow(state) = Panic /\ n = 0
           \/ /\ NextRow(state).r = "ok"
              /\ RowsType(NextRow(state).v, n)
              /\ Len(NextRow(state).v.left) < Len(state.left)
<1>1. PICK left \in Bytes, above \in [1..n -> 0..255], out \in Bytes :
         /\ state = [columns |-> n, left |-> left, above |-> above, out |-> out]
         /\ Multiple(Len(left), n + 1)
  BY DEF RowsType
<1>2. left # <<>> /\ state.left = left
  BY <1>1
<1>3. Len(left) \in Nat \ {0} /\ n + 1 \in Nat \ {0}
  BY <1>2, EmptySeq DEF Bytes
<1>4. n + 1 <= Len(left) /\ Multiple(Len(left) - (n + 1), n + 1)
  BY <1>1, <1>3, OneRowLess
<1> DEFINE byte == Head(state.left)
           row == SubSeq(state.left, 2, state.columns + 1)
           rest == SubSeq(state.left, state.columns + 2, Len(state.left))
           algorithm == CHOOSE a \in Algorithms(byte) : TRUE
           decoded == DecodedRow(algorithm, row, state.above)
           next == [columns |-> state.columns, left |-> rest, above |-> decoded, out |-> state.out \o decoded]
<1>5. NextRow(state) =
         IF Algorithms(byte) = {} THEN Err
         ELSE IF Algorithms(byte) = {1} /\ state.columns = 0 THEN Panic ELSE Ok(next)
  BY Zenon DEF NextRow
<1>51. state.columns = n /\ state.above = above /\ state.out = out
  BY <1>1
<1>53. next = [columns |-> n, left |-> rest, above |-> decoded, out |-> out \o decoded]
  BY <1>51, Zenon
<1>54. row = SubSeq(left, 2, n + 1) /\ rest = SubSeq(left, n + 2, Len(left)) /\ byte = Head(left)
  BY <1>2, <1>51
<1>55. decoded = DecodedRow(algorithm, row, above)
  BY <1>51
<1> HIDE DEF next, row, rest
<1>6. row \in Bytes /\ Len(row) = n
  <2>1. 2 \in Nat \ {0} /\ n + 1 \in 0..Len(left)
    BY <1>3, <1>4
  <2>2. row \in Bytes
    BY <1>54, <2>1, PartType DEF Bytes
  <2>3. Len(row) = n
    <3>1. CASE n = 0
      BY <1>54, <3>1
    <3>2. CASE n # 0
      BY <1>3, <1>4, <1>54, <3>2, SubSeqProperties DEF Bytes
    <3> QED
      BY <3>1, <3>2
  <2> QED
    BY <2>2, <2>3
<1>7. rest \in Bytes /\ Len(rest) = Len(left) - (n + 1)
  <2>1. n + 2 \in Nat \ {0} /\ Len(left) \in 0..Len(left)
    BY <1>3
  <2>2. rest \in Bytes
    BY <1>54, <2>1, PartType DEF Bytes
  <2>3. Len(rest) = Len(left) - (n + 1)
    <3>1. CASE Len(left) = n + 1
      BY <1>3, <1>54, <3>1
    <3>2. CASE Len(left) # n + 1
      <4>1. n + 2 \in 1..Len(left) /\ Len(left) \in (n + 2)..Len(left)
        BY <1>3, <1>4, <3>2
      <4>2. Len(rest) = Len(left) - (n + 2) + 1
        BY <1>54, <4>1, SubSeqProperties DEF Bytes
      <4> QED
        BY <1>3, <4>2
    <3> QED
      BY <3>1, <3>2
  <2> QED
    BY <2>2, <2>3
<1>8. ASSUME Algorithms(byte) # {} PROVE algorithm \in 0..4
  <2>1. algorithm \in Algorithms(byte)
    BY <1>8
  <2>2. byte \in 0..255
    BY <1>2, <1>54, HeadTailProperties DEF Bytes
  <2> HIDE DEF algorithm, byte
  <2> QED
    BY <2>1, <2>2 DEF Algorithms
<1> HIDE DEF byte, algorithm
<1>9. ASSUME Algorithms(byte) # {}
      PROVE  RowsType(next, n) /\ Len(next.left) < Len(left)
  <2>1. decoded \in [1..n -> 0..255] /\ decoded \in Bytes
    BY <1>6, <1>8, <1>9, <1>55, DecodedRowType
  <2> HIDE DEF decoded
  <2>2. out \o decoded \in Bytes
    BY <2>1, ConcatProperties DEF Bytes
  <2>3. Multiple(Len(rest), n + 1)
    BY <1>4, <1>7
  <2>4. RowsType(next, n)
    BY <1>53, <1>7, <2>1, <2>2, <2>3 DEF RowsType
  <2>5. next.left = rest /\ Len(rest) < Len(left)
    BY <1>3, <1>53, <1>7
  <2> QED
    BY <2>4, <2>5
<1>10. CASE Algorithms(byte) = {}
  BY <1>5, <1>10
<1>11. CASE Algorithms(byte) # {} /\ Algorithms(byte) = {1} /\ n = 0
  BY <1>5, <1>51, <1>11
<1>12. CASE Algorithms(byte) # {} /\ ~(Algorithms(byte) = {1} /\ n = 0)
  <2>1. NextRow(state) = Ok(next)
    BY <1>5, <1>51, <1>12
  <2> QED
    BY <1>2, <1>9, <1>12, <2>1 DEF Ok
<1> QED
  BY <1>10, <1>11, <1>12

-----------------------------------------------------------------------------
(***************************************************************************)
(* The reader                                                              *)
(***************************************************************************)

\* What is left of the chain of a dictionary.
ChainType(steps) ==
    \E S : steps \in Seq(S) /\ \A s \in S : s.step = "parms" => ColumnsAreWhole(s.parms)

LEMMA FilterStepsType ==
    ASSUME NEW dict, ListsItems(Entry(Dictionary(dict), "Filter")),
           \A parms \in ParmsIn(dict) : ColumnsAreWhole(parms)
    PROVE  \/ FilterSteps(dict) = Err
           \/ FilterSteps(dict).r = "ok" /\ ChainType(FilterSteps(dict).v)
<1> DEFINE filter == Entry(Dictionary(dict), "Filter")
           parms == Entry(Dictionary(dict), "DecodeParms")
<1>1. parms \in ParmsIn(dict)
  BY DEF ParmsIn
<1>2. ASSUME NEW k, parms.kind = "Array", k \in DOMAIN parms.items
      PROVE  parms.items[k] \in ParmsIn(dict)
  BY <1>2 DEF ParmsIn, Range
<1>3. CASE "Filter" \notin DOMAIN dict
  <2>1. FilterSteps(dict) = Ok(<<>>)
    <3>1. filter = Null
      BY <1>3 DEF Entry, Entries, Dictionary
    <3>2. filter.kind \notin {"Name", "Array"}
      BY <3>1 DEF Null
    <3> QED
      BY <1>3, <3>2 DEF FilterSteps
  <2>2. <<>> \in Seq({})
    OBVIOUS
  <2> QED
    BY <2>1, <2>2 DEF Ok, ChainType
<1>4. CASE "Filter" \in DOMAIN dict /\ filter.kind = "Name"
  <2> DEFINE S == {Filter(filter.name), Parms(parms)}
             steps == <<Filter(filter.name)>> \o IF "DecodeParms" \in DOMAIN dict THEN <<Parms(parms)>> ELSE <<>>
  <2>1. FilterSteps(dict) = Ok(steps)
    BY <1>4 DEF FilterSteps
  <2>2. <<Filter(filter.name)>> \in Seq(S) /\ <<Parms(parms)>> \in Seq(S) /\ <<>> \in Seq(S)
    OBVIOUS
  <2>3. steps \in Seq(S)
    <3> HIDE DEF S
    <3> QED
      BY <2>2, ConcatProperties
  <2>4. \A s \in S : s.step = "parms" => ColumnsAreWhole(s.parms)
    <3>1. Filter(filter.name).step # "parms"
      BY DEF Filter
    <3>2. Parms(parms).parms = parms
      BY DEF Parms
    <3> QED
      BY <1>1, <3>1, <3>2
  <2> HIDE DEF S, steps
  <2> QED
    BY <2>1, <2>3, <2>4 DEF Ok, ChainType
<1>5. CASE "Filter" \in DOMAIN dict /\ filter.kind = "Array"
  <2> DEFINE S == {Filter(filter.items[k].name) : k \in DOMAIN filter.items} \cup {Parms(p) : p \in ParmsIn(dict)}
             At1(k) == IF filter.items[k].kind = "Name"
                       THEN <<Filter(filter.items[k].name)>> \o ParmsAt(parms, k) ELSE <<>>
             steps == [k \in DOMAIN filter.items |-> At1(k)]
  <2>1. FilterSteps(dict) = Ok(FlattenSeq(steps))
    BY <1>5 DEF FilterSteps
  <2>2. filter.items \in Seq(Range(filter.items))
    BY <1>5 DEF ListsItems
  <2>3. DOMAIN filter.items = 1..Len(filter.items) /\ Len(filter.items) \in Nat
    <3> DEFINE items == filter.items
               R == Range(items)
    <3>1. items \in Seq(R)
      BY <2>2
    <3> HIDE DEF items, R
    <3>2. DOMAIN items = 1..Len(items) /\ Len(items) \in Nat
      BY <3>1
    <3> QED
      BY <3>2 DEF items
  <2>4. ASSUME NEW k \in DOMAIN filter.items
        PROVE  At1(k) \in Seq(S)
    <3>1. Filter(filter.items[k].name) \in S
      OBVIOUS
    <3>2. ParmsAt(parms, k) \in Seq(S)
      <4>1. CASE parms.kind = "Array" /\ k \in DOMAIN parms.items
        <5>1. Parms(parms.items[k]) \in S
          BY <1>2, <4>1
        <5>2. ParmsAt(parms, k) = <<Parms(parms.items[k])>>
          BY <4>1 DEF ParmsAt
        <5> HIDE DEF S
        <5> QED
          BY <5>1, <5>2
      <4>2. CASE ~(parms.kind = "Array" /\ k \in DOMAIN parms.items)
        <5>1. ParmsAt(parms, k) = <<>>
          BY <4>2 DEF ParmsAt
        <5> HIDE DEF S
        <5>2. <<>> \in Seq(S)
          OBVIOUS
        <5> QED
          BY <5>1, <5>2, Zenon
      <4> QED
        BY <4>1, <4>2
    <3> HIDE DEF S
    <3>3. <<Filter(filter.items[k].name)>> \in Seq(S) /\ <<>> \in Seq(S)
      BY <3>1
    <3>4. <<Filter(filter.items[k].name)>> \o ParmsAt(parms, k) \in Seq(S)
      BY <3>2, <3>3, ConcatProperties
    <3> QED
      BY <3>3, <3>4
  <2>5. \A s \in S : s.step = "parms" => ColumnsAreWhole(s.parms)
    <3>1. ASSUME NEW name PROVE Filter(name).step # "parms"
      BY DEF Filter
    <3>2. ASSUME NEW p PROVE Parms(p).parms = p
      BY DEF Parms
    <3> QED
      BY <3>1, <3>2
  <2> HIDE DEF S, At1
  <2>6. steps \in Seq(Seq(S))
    <3> DEFINE n == Len(filter.items)
    <3>1. n \in Nat /\ steps = [k \in 1..n |-> At1(k)] /\ \A k \in 1..n : At1(k) \in Seq(S)
      BY <2>3, <2>4
    <3> HIDE DEF n, steps
    <3> QED
      BY <3>1
  <2> HIDE DEF steps
  <2>7. FlattenSeq(steps) \in Seq(S)
    BY <2>6, FlattenSeqType
  <2> QED
    BY <2>1, <2>5, <2>7 DEF Ok, ChainType
<1>6. CASE "Filter" \in DOMAIN dict /\ filter.kind \notin {"Name", "Array"}
  BY <1>6 DEF FilterSteps
<1> QED
  BY <1>3, <1>4, <1>5, <1>6

LEMMA ChainStep ==
    ASSUME NEW steps, ChainType(steps), steps # <<>>
    PROVE  /\ ChainType(Tail(steps)) /\ Len(steps) \in Nat /\ Len(Tail(steps)) = Len(steps) - 1
           /\ Head(steps).step = "parms" => ColumnsAreWhole(Head(steps).parms)
<1>1. PICK S : steps \in Seq(S) /\ \A s \in S : s.step = "parms" => ColumnsAreWhole(s.parms)
  BY Zenon DEF ChainType
<1>2. Head(steps) \in S /\ Tail(steps) \in Seq(S) /\ Len(Tail(steps)) = Len(steps) - 1 /\ Len(steps) \in Nat
  BY <1>1, HeadTailProperties
<1> QED
  BY <1>1, <1>2, Zenon DEF ChainType

\* The streams before the place read have been joined, and a predictor is at work on the
\* rows of the parameters that are next.
ReaderType ==
    /\ source \in Sources
    /\ phase \in {"fetch", "decode", "rows", "content", "map", "done", "failed", "aborted"}
    /\ read \in 0..Len(source.streams)
    /\ data \in Bytes
    /\ content \in Bytes
    /\ ChainType(todo)
    /\ section \in Sections \cup {"none"}
    /\ pos \in Nat \ {0}
    /\ phase \in {"fetch", "decode", "rows"} => pos = 1 /\ tokens = <<>>
    /\ phase = "content" => Within /\ TokensFit
    /\ phase = "map" => pos <= Len(content) + 2
    /\ phase = "rows" =>
          /\ todo # <<>>
          /\ \E n \in Nat : PredictedColumns(Head(todo).parms) = Ok({n}) /\ RowsType(rows, n)

ReaderInv == ReaderType /\ AbortsOnlyAtLimits

\* A result that ends the reader.
LEMMA StopKeeps ==
    ASSUME ReaderType, phase # "aborted", NEW result, Stop(result),
           result.r = "panic" => AbortsOnlyAtLimits'
    PROVE  ReaderInv'
<1>1. phase' = PhaseAfter(result) /\ UNCHANGED <<source, read, data, todo, rows, section, map, content, pos, tokens>>
  BY DEF Stop, decoderVars, mapVars, lexVars
<1>2. /\ phase' \in {"aborted", "done", "failed"}
      /\ phase' = "aborted" => result.r = "panic"
  BY <1>1 DEF PhaseAfter
<1>3. ReaderType'
  BY <1>1, <1>2 DEF ReaderType
<1>4. AbortsOnlyAtLimits'
  BY <1>2 DEF AbortsOnlyAtLimits
<1> QED
  BY <1>3, <1>4 DEF ReaderInv

\* A step of one of the loops that go on.
LEMMA GoesOn ==
    ASSUME ReaderType', phase' # "aborted"
    PROVE  ReaderInv'
BY DEF ReaderInv, AbortsOnlyAtLimits

LEMMA SourceType ==
    ASSUME source \in Sources
    PROVE  /\ source.use \in {"content", "map"}
           /\ Len(source.streams) \in Nat
           /\ \A k \in 1..Len(source.streams) :
                 /\ source.streams[k].data \in Bytes
                 /\ ListsItems(Entry(Dictionary(source.streams[k].dict), "Filter"))
                 /\ \A parms \in ParmsIn(source.streams[k].dict) : ColumnsAreWhole(parms)
<1> DEFINE streams == source.streams
           R == Range(streams)
<1>1. source.use \in {"content", "map"}
  BY SourcesAssumption
<1>2. streams \in Seq(R)
  BY SourcesAssumption
<1>3. \A stream \in R :
         /\ stream.data \in Seq(0..255)
         /\ ListsItems(Entry(Dictionary(stream.dict), "Filter"))
         /\ \A parms \in ParmsIn(stream.dict) : ColumnsAreWhole(parms)
  BY SourcesAssumption, Zenon
<1> HIDE DEF streams, R
<1>4. Len(streams) \in Nat /\ \A k \in 1..Len(streams) : streams[k] \in R
  BY <1>2
<1> QED
  BY <1>1, <1>3, <1>4, Zenon DEF Bytes, streams

LEMMA OpenStreamKeeps == ReaderType /\ OpenStream => ReaderInv'
<1> SUFFICES ASSUME ReaderType, OpenStream PROVE ReaderInv'
  OBVIOUS
<1> DEFINE stream == source.streams[read + 1]
           steps == FilterSteps(stream.dict)
<1>1. phase = "fetch" /\ read < Len(source.streams)
  BY DEF OpenStream
<1>2. read + 1 \in 1..Len(source.streams) /\ read + 1 \in 0..Len(source.streams)
  BY <1>1, SourceType DEF ReaderType
<1>3. stream.data \in Bytes /\ (steps = Err \/ (steps.r = "ok" /\ ChainType(steps.v)))
  BY <1>2, SourceType, FilterStepsType DEF ReaderType
<1>4. \/ /\ steps.r = "ok"
         /\ phase' = "decode" /\ read' = read + 1
         /\ todo' = steps.v /\ data' = stream.data
         /\ UNCHANGED <<source, rows, section, map, content, pos, tokens>>
      \/ Stop(steps)
  BY DEF OpenStream, mapVars, lexVars
<1> HIDE DEF steps
<1>5. CASE Stop(steps)
  <2>1. steps = Err
    BY <1>3, <1>5 DEF Stop
  <2> QED
    BY <1>1, <1>5, <2>1, StopKeeps DEF Err
<1>6. CASE steps.r = "ok" /\ ~Stop(steps)
  <2>1. ChainType(steps.v)
    BY <1>3, <1>6 DEF Err
  <2> HIDE DEF stream
  <2>2. ReaderType'
    BY <1>1, <1>2, <1>3, <1>4, <1>6, <2>1 DEF ReaderType
  <2> QED
    BY <1>4, <1>6, <2>2, GoesOn
<1> QED
  BY <1>4, <1>5, <1>6

LEMMA FilterStreamKeeps == ReaderType /\ FilterStream => ReaderInv'
<1> SUFFICES ASSUME ReaderType, FilterStream PROVE ReaderInv'
  OBVIOUS
<1> DEFINE result == ApplyFilter(Head(todo).name, data)
<1>1. phase = "decode" /\ todo # <<>>
  BY DEF FilterStream, IsNext
<1>2. result = Err \/ (result.r = "ok" /\ result.v \in Bytes)
  BY FilterType DEF ReaderType
<1>3. \/ /\ result.r = "ok"
         /\ data' = result.v /\ todo' = Tail(todo)
         /\ UNCHANGED <<source, phase, read, rows, section, map, content, pos, tokens>>
      \/ Stop(result)
  BY DEF FilterStream, mapVars, lexVars
<1> HIDE DEF result
<1>4. CASE Stop(result)
  <2>1. result = Err
    BY <1>2, <1>4 DEF Stop
  <2> QED
    BY <1>1, <1>4, <2>1, StopKeeps DEF Err
<1>5. CASE ~Stop(result)
  <2>1. result.v \in Bytes
    BY <1>2, <1>3, <1>5 DEF Err
  <2>2. ChainType(Tail(todo))
    BY <1>1, ChainStep DEF ReaderType
  <2>3. ReaderType'
    BY <1>1, <1>3, <1>5, <2>1, <2>2 DEF ReaderType
  <2> QED
    BY <1>1, <1>3, <1>5, <2>3, GoesOn
<1> QED
  BY <1>4, <1>5

LEMMA PassParmsKeeps == ReaderType /\ PassParms => ReaderInv'
<1> SUFFICES ASSUME ReaderType, PassParms PROVE ReaderInv'
  OBVIOUS
<1> DEFINE columns == PredictedColumns(Head(todo).parms)
<1>1. phase = "decode" /\ todo # <<>> /\ Head(todo).step = "parms"
  BY DEF PassParms, IsNext
<1>2. ColumnsAreWhole(Head(todo).parms)
  BY <1>1, ChainStep DEF ReaderType
<1>3. columns = Err \/ columns.r = "ok"
  BY <1>2, ColumnsType DEF Ok
<1>4. \/ /\ todo' = Tail(todo)
         /\ UNCHANGED <<source, phase, read, data, rows, section, map, content, pos, tokens>>
      \/ Stop(columns)
  BY DEF PassParms, mapVars, lexVars
<1> HIDE DEF columns
<1>5. CASE Stop(columns)
  <2>1. columns = Err
    BY <1>3, <1>5 DEF Stop
  <2> QED
    BY <1>1, <1>5, <2>1, StopKeeps DEF Err
<1>6. CASE ~Stop(columns)
  <2>1. ChainType(Tail(todo))
    BY <1>1, ChainStep DEF ReaderType
  <2>2. ReaderType'
    BY <1>1, <1>4, <1>6, <2>1 DEF ReaderType
  <2> QED
    BY <1>1, <1>4, <1>6, <2>2, GoesOn
<1> QED
  BY <1>5, <1>6

LEMMA OpenRowsKeeps == ReaderType /\ OpenRows => ReaderInv'
<1> SUFFICES ASSUME ReaderType, OpenRows PROVE ReaderInv'
  OBVIOUS
<1>1. phase = "decode" /\ todo # <<>> /\ Head(todo).step = "parms"
  BY DEF OpenRows, IsNext
<1>2. ColumnsAreWhole(Head(todo).parms)
  BY <1>1, ChainStep DEF ReaderType
<1>3. PICK n \in PredictedColumns(Head(todo).parms).v :
         \/ /\ RowsOf(n, data).r = "ok"
            /\ phase' = "rows" /\ rows' = RowsOf(n, data).v
            /\ UNCHANGED <<source, read, data, todo, section, map, content, pos, tokens>>
         \/ Stop(RowsOf(n, data))
  BY DEF OpenRows, mapVars, lexVars
<1>4. n \in Nat /\ PredictedColumns(Head(todo).parms) = Ok({n})
  <2>1. PredictedColumns(Head(todo).parms).r = "ok"
    BY DEF OpenRows
  <2>2. PredictedColumns(Head(todo).parms) # Err
    BY <2>1 DEF Err
  <2>3. PredictedColumns(Head(todo).parms) # Ok({})
    BY <1>3 DEF Ok
  <2>4. PICK c \in Nat : PredictedColumns(Head(todo).parms) = Ok({c})
    BY <1>2, <2>2, <2>3, ColumnsType
  <2>5. n = c
    BY <1>3, <2>4 DEF Ok
  <2> QED
    BY <2>4, <2>5
<1> DEFINE result == RowsOf(n, data)
<1>5. \/ result = Err
      \/ result = Panic /\ (n = MaxSize \/ (n > Room /\ (data = <<>> \/ n < Len(data))))
      \/ result.r = "ok" /\ RowsType(result.v, n)
  BY <1>4, RowsOfType DEF ReaderType
<1>6. \/ /\ result.r = "ok"
         /\ phase' = "rows" /\ rows' = result.v
         /\ UNCHANGED <<source, read, data, todo, section, map, content, pos, tokens>>
      \/ Stop(result)
  BY <1>3
<1> HIDE DEF result
<1>7. CASE Stop(result)
  <2>1. UNCHANGED <<data, todo>>
    BY <1>7 DEF Stop, decoderVars
  <2>2. ASSUME result.r = "panic" PROVE AbortsOnlyAtLimits'
    <3>1. n = MaxSize \/ (n > Room /\ (data = <<>> \/ n < Len(data)))
      BY <1>5, <2>2 DEF Err
    <3>2. n \in PredictedColumns(Head(todo').parms).v
      BY <1>4, <2>1 DEF Ok
    <3> QED
      BY <2>1, <3>1, <3>2 DEF AbortsOnlyAtLimits
  <2> QED
    BY <1>1, <1>7, <2>2, StopKeeps
<1>8. CASE ~Stop(result)
  <2>1. RowsType(result.v, n)
    BY <1>5, <1>6, <1>8 DEF Err, Panic
  <2>2. ReaderType'
    BY <1>1, <1>4, <1>6, <1>8, <2>1 DEF ReaderType
  <2> QED
    BY <1>6, <1>8, <2>2, GoesOn
<1> QED
  BY <1>7, <1>8

LEMMA DecodeRowKeeps == ReaderType /\ DecodeRow => ReaderInv'
<1> SUFFICES ASSUME ReaderType, DecodeRow PROVE ReaderInv'
  OBVIOUS
<1> DEFINE result == NextRow(rows)
<1>1. phase = "rows" /\ rows.left # <<>>
  BY DEF DecodeRow
<1>2. PICK n \in Nat : PredictedColumns(Head(todo).parms) = Ok({n}) /\ RowsType(rows, n)
  BY <1>1 DEF ReaderType
<1>3. \/ result = Err
      \/ result = Panic /\ n = 0
      \/ result.r = "ok" /\ RowsType(result.v, n)
  BY <1>1, <1>2, NextRowType
<1>4. \/ /\ result.r = "ok" /\ rows' = result.v
         /\ UNCHANGED <<source, phase, read, data, todo, section, map, content, pos, tokens>>
      \/ Stop(result)
  BY DEF DecodeRow, mapVars, lexVars
<1> HIDE DEF result
<1>5. CASE Stop(result)
  <2>1. UNCHANGED <<data, todo>>
    BY <1>5 DEF Stop, decoderVars
  <2>2. ASSUME result.r = "panic" PROVE AbortsOnlyAtLimits'
    <3>1. n = 0
      BY <1>3, <2>2 DEF Err
    <3>2. n \in PredictedColumns(Head(todo').parms).v
      BY <1>2, <2>1 DEF Ok
    <3> QED
      BY <3>1, <3>2 DEF AbortsOnlyAtLimits
  <2> QED
    BY <1>1, <1>5, <2>2, StopKeeps
<1>6. CASE ~Stop(result)
  <2>1. RowsType(result.v, n)
    BY <1>3, <1>4, <1>6 DEF Err, Panic
  <2>2. ReaderType'
    BY <1>1, <1>2, <1>4, <1>6, <2>1 DEF ReaderType
  <2> QED
    BY <1>1, <1>4, <1>6, <2>2, GoesOn
<1> QED
  BY <1>5, <1>6

LEMMA CloseRowsKeeps == ReaderType /\ CloseRows => ReaderInv'
<1> SUFFICES ASSUME ReaderType, CloseRows PROVE ReaderInv'
  OBVIOUS
<1>1. /\ phase = "rows" /\ phase' = "decode"
      /\ data' = rows.out /\ todo' = Tail(todo)
      /\ UNCHANGED <<source, read, section, map, content, pos, tokens>>
  BY DEF CloseRows, mapVars, lexVars
<1>2. PICK n \in Nat : RowsType(rows, n)
  BY <1>1 DEF ReaderType
<1>3. rows.out \in Bytes
  BY <1>2 DEF RowsType
<1>4. ChainType(Tail(todo))
  BY <1>1, ChainStep DEF ReaderType
<1>5. ReaderType'
  BY <1>1, <1>3, <1>4 DEF ReaderType
<1> QED
  BY <1>1, <1>5, GoesOn

LEMMA CloseStreamKeeps == ReaderType /\ CloseStream => ReaderInv'
<1> SUFFICES ASSUME ReaderType, CloseStream PROVE ReaderInv'
  OBVIOUS
<1>1. /\ phase = "decode" /\ phase' = "fetch"
      /\ content' = Joined(content, data)
      /\ UNCHANGED <<source, read, data, todo, rows, section, map, pos, tokens>>
  BY DEF CloseStream, decoderVars, mapVars
<1>2. Joined(content, data) \in Bytes
  <2>1. content \in Bytes /\ data \in Bytes /\ <<32>> \in Bytes
    BY DEF ReaderType, Bytes
  <2>2. content \o <<32>> \in Bytes
    BY <2>1, ConcatProperties DEF Bytes
  <2>3. content \o <<32>> \o data \in Bytes
    BY <2>1, <2>2, ConcatProperties DEF Bytes
  <2> QED
    BY <2>1, <2>3 DEF Joined
<1>3. ReaderType'
  BY <1>1, <1>2 DEF ReaderType
<1> QED
  BY <1>1, <1>3, GoesOn

LEMMA StartReadingKeeps == ReaderType /\ StartReading => ReaderInv'
<1> SUFFICES ASSUME ReaderType, StartReading PROVE ReaderInv'
  OBVIOUS
<1>1. /\ phase = "fetch" /\ phase' \in {"done", "content", "map"}
      /\ UNCHANGED <<source, read, data, todo, rows, section, map, content, pos, tokens>>
  BY SourceType DEF StartReading, ReaderType, decoderVars, mapVars, lexVars
<1>2. pos' = 1 /\ tokens' = <<>> /\ content' \in Bytes /\ Len(content') \in Nat
  BY <1>1, BytesAreNumbers DEF ReaderType
<1>3. Within' /\ pos' <= Len(content') + 2
  BY <1>2 DEF Within
<1>4. tokens' \in Seq({}) /\ Len(tokens') < pos'
  BY <1>2
<1>5. TokensFit'
  BY <1>4 DEF TokensFit
<1>6. ReaderType'
  BY <1>1, <1>3, <1>5 DEF ReaderType
<1> QED
  BY <1>1, <1>6, GoesOn

LEMMA LexKeeps == ReaderType /\ Lex => ReaderInv'
<1> SUFFICES ASSUME ReaderType, Lex PROVE ReaderInv'
  OBVIOUS
<1>1. /\ phase = "content" /\ ReadToken
      /\ UNCHANGED <<source, phase, read, data, todo, rows, section, map>>
  BY DEF Lex, decoderVars, mapVars
<1>2. Within /\ TokensFit
  BY <1>1 DEF ReaderType
<1>3. Within' /\ TokensFit'
  BY <1>1, <1>2, LexStays
<1>4. content' \in Bytes /\ pos' \in Nat \ {0}
  BY <1>3 DEF Within
<1>5. ReaderType'
  BY <1>1, <1>3, <1>4 DEF ReaderType
<1> QED
  BY <1>1, <1>5, GoesOn

LEMMA FinishKeeps == ReaderType /\ Finish => ReaderInv'
<1> SUFFICES ASSUME ReaderType, Finish PROVE ReaderInv'
  OBVIOUS
<1>1. phase' = "done" /\ UNCHANGED <<source, read, data, todo, rows, section, map, content, pos, tokens>>
  BY DEF Finish, decoderVars, mapVars, lexVars
<1>2. ReaderType'
  BY <1>1 DEF ReaderType
<1> QED
  BY <1>1, <1>2, GoesOn

\* A line ends within the content.
LEMMA LineMoves ==
    ASSUME ReaderType, NEW places, NEW line \in LineIn(places)
    PROVE  /\ phase = "map" /\ section \in places /\ pos <= Len(content)
           /\ EndOfLine \in pos..(Len(content) + 1)
<1>1. phase = "map" /\ section \in places /\ pos <= Len(content)
  BY DEF LineIn
<1>2. content \in Bytes /\ Len(content) \in Nat /\ pos \in Nat \ {0}
  BY BytesAreNumbers DEF ReaderType
<1>3. pos \in 1..(Len(content) + 1)
  BY <1>1, <1>2
<1>4. EndOfLine \in pos..(Len(content) + 1)
  BY <1>2, <1>3, EndOfRunPlace DEF EndOfLine
<1> QED
  BY <1>1, <1>4

LEMMA NextLineKeeps ==
    ASSUME ReaderType, NEW places, NEW line \in LineIn(places), NextLine, phase' = phase,
           section' \in Sections \cup {"none"}
    PROVE  ReaderInv'
<1>1. UNCHANGED <<source, read, data, todo, rows, content, tokens>> /\ pos' = EndOfLine + 1
  BY DEF NextLine, decoderVars
<1>2. phase = "map" /\ EndOfLine \in pos..(Len(content) + 1)
  BY LineMoves
<1>3. Len(content) \in Nat /\ pos \in Nat \ {0}
  BY BytesAreNumbers DEF ReaderType
<1>4. pos' \in Nat \ {0} /\ pos' <= Len(content') + 2
  BY <1>1, <1>2, <1>3
<1>5. ReaderType'
  BY <1>1, <1>2, <1>4 DEF ReaderType
<1> QED
  BY <1>2, <1>5, GoesOn

\* Only a range takes room for more than one code.
LEMMA OneCodeFits ==
    ASSUME NEW line, NEW range \in EntriesOf("bfchar", line)
    PROVE  ~IsTooWide(range)
<1> DEFINE words == Words[Trimmed(line, Blank)]
<1>1. range \in CharEntries(words)
  BY DEF EntriesOf
<1> HIDE DEF words
<1>2. PICK code \in CodeIn(Unbracketed(words[1])), text \in HexText[Unbracketed(words[2])] :
            range = CodeRange(code, code, text)
  BY <1>1, SMT DEF CharEntries
<1>3. range.first = range.last
  BY <1>2 DEF CodeRange
<1> QED
  BY <1>3 DEF IsTooWide

LEMMA LinesKeep == ReaderType /\ (OpenSection \/ SkipLine \/ CloseSection \/ ReadLine) => ReaderInv'
<1> SUFFICES ASSUME ReaderType, OpenSection \/ SkipLine \/ CloseSection \/ ReadLine PROVE ReaderInv'
  OBVIOUS
<1>0. section \in Sections \cup {"none"}
  BY DEF ReaderType
<1>1. CASE OpenSection
  <2>1. PICK line \in LineIn({"none"}) : section' \in Begins(line) /\ phase' = phase /\ NextLine
    BY <1>1 DEF OpenSection
  <2>2. section' \in Sections
    BY <2>1 DEF Begins
  <2> QED
    BY <2>1, <2>2, NextLineKeeps
<1>2. CASE SkipLine
  <2>1. PICK line \in LineIn({"none"}) : UNCHANGED <<phase, section>> /\ NextLine
    BY <1>2 DEF SkipLine, mapVars
  <2> QED
    BY <1>0, <2>1, NextLineKeeps
<1>3. CASE CloseSection
  <2>1. PICK line \in LineIn(Sections) : section' = "none" /\ phase' = phase /\ NextLine
    BY <1>3 DEF CloseSection
  <2> QED
    BY <2>1, NextLineKeeps
<1>4. CASE ReadLine
  <2>1. PICK line \in LineIn(Sections) :
           \/ UNCHANGED <<phase, section>> /\ NextLine
           \/ (\E range \in EntriesOf(section, line) : IsTooWide(range)) /\ Stop(Panic)
    BY <1>4, Zenon DEF ReadLine
  <2>2. CASE UNCHANGED <<phase, section>> /\ NextLine
    BY <1>0, <2>2, NextLineKeeps
  <2>3. CASE (\E range \in EntriesOf(section, line) : IsTooWide(range)) /\ Stop(Panic)
    <3>1. section \in Sections /\ phase = "map"
      BY LineMoves
    <3>2. section = "bfrange"
      BY <2>3, <3>1, OneCodeFits DEF Sections
    <3>3. section' = section
      BY <2>3 DEF Stop, mapVars
    <3>4. AbortsOnlyAtLimits'
      BY <3>2, <3>3 DEF AbortsOnlyAtLimits
    <3> QED
      BY <2>3, <3>1, <3>4, StopKeeps
  <2> QED
    BY <2>1, <2>2, <2>3
<1> QED
  BY <1>1, <1>2, <1>3, <1>4

LEMMA ReaderStarts == Init => ReaderInv
<1> SUFFICES ASSUME Init PROVE ReaderInv
  OBVIOUS
<1>1. /\ source \in Sources /\ phase = "fetch" /\ read = 0 /\ data = <<>> /\ todo = <<>>
      /\ section = "none" /\ content = <<>> /\ pos = 1 /\ tokens = <<>>
  BY DEF Init
<1>2. 0 \in 0..Len(source.streams)
  BY <1>1, SourceType
<1>3. <<>> \in Seq({}) /\ <<>> \in Seq(0..255)
  OBVIOUS
<1>4. <<>> \in Bytes
  BY <1>3 DEF Bytes
<1>5. ChainType(<<>>)
  <2>1. ASSUME NEW S, S = {} PROVE ChainType(<<>>)
    <3>1. <<>> \in Seq(S) /\ \A s \in S : s.step = "parms" => ColumnsAreWhole(s.parms)
      BY <2>1
    <3> QED
      BY <3>1, Zenon DEF ChainType
  <2> QED
    BY <2>1
<1>6. ReaderType
  BY <1>1, <1>2, <1>4, <1>5 DEF ReaderType
<1> QED
  BY <1>1, <1>6 DEF ReaderInv, AbortsOnlyAtLimits

LEMMA ReaderKeeps == ReaderInv /\ [Next]_readerVars => ReaderInv'
<1> SUFFICES ASSUME ReaderInv, [Next]_readerVars PROVE ReaderInv'
  OBVIOUS
<1>1. ReaderType /\ AbortsOnlyAtLimits
  BY DEF ReaderInv
<1>2. CASE Next
  BY <1>1, <1>2, OpenStreamKeeps, FilterStreamKeeps, PassParmsKeeps, OpenRowsKeeps, DecodeRowKeeps,
     CloseRowsKeeps, CloseStreamKeeps, StartReadingKeeps, LexKeeps, FinishKeeps, LinesKeep, Zenon DEF Next
<1>3. CASE UNCHANGED readerVars
  <2>1. UNCHANGED <<source, phase, read, data, todo, rows, section, map, content, pos, tokens>>
    BY <1>3 DEF readerVars
  <2>2. ReaderType'
    BY <1>1, <2>1 DEF ReaderType, Within, TokensFit
  <2>3. AbortsOnlyAtLimits'
    BY <1>1, <2>1 DEF AbortsOnlyAtLimits
  <2> QED
    BY <2>2, <2>3 DEF ReaderInv
<1> QED
  BY <1>2, <1>3

\* The filters and the predictor make bytes of bytes, whatever the chain, and the lexer of the
\* joined streams stays within them and finds no more tokens than it has read bytes.
THEOREM ReaderTypesAreKept == Spec => []ReaderType
BY ReaderStarts, ReaderKeeps, PTL DEF Spec, ReaderInv

\* apply_png_predictor and parse_cmap end the program only at a row without a byte, at a row or a
\* range of codes that memory has no room for, and at the largest number of columns.
THEOREM AbortsAreAtLimits == Spec => []AbortsOnlyAtLimits
BY ReaderStarts, ReaderKeeps, PTL DEF Spec, ReaderInv

-----------------------------------------------------------------------------
(***************************************************************************)
(* Progress                                                                *)
(***************************************************************************)

\* The streams that are still to be opened and closed, and the reading of what they hold.
StagesAhead ==
    IF phase = "fetch" THEN 2 * (Len(source.streams) - read) + 2
    ELSE IF phase \in {"decode", "rows"} THEN 2 * (Len(source.streams) - read) + 3
    ELSE IF phase \in {"content", "map"} THEN 1 ELSE 0

\* Within a stage: the filters and parameters, or the bytes that are still to be read.
StepsAhead ==
    IF phase = "decode" THEN 2 * Len(todo) + 1
    ELSE IF phase = "rows" THEN 2 * Len(todo)
    ELSE IF phase \in {"content", "map"} THEN Len(content) + 2 - pos ELSE 0

\* Within the parameters: the bytes that the predictor has not taken yet.
BytesAhead == IF phase = "rows" THEN Len(rows.left) ELSE 0

Ahead == <<StagesAhead, <<StepsAhead, BytesAhead>>>>

LeavesLess == <<Ahead', Ahead>> \in LexicalLess

LEMMA AheadType == ReaderType => StagesAhead \in Nat /\ StepsAhead \in Nat /\ BytesAhead \in Nat
<1> SUFFICES ASSUME ReaderType PROVE StagesAhead \in Nat /\ StepsAhead \in Nat /\ BytesAhead \in Nat
  OBVIOUS
<1>1. /\ read \in 0..Len(source.streams) /\ Len(source.streams) \in Nat
      /\ pos \in Nat \ {0} /\ content \in Bytes /\ Len(content) \in Nat
  BY SourceType, BytesAreNumbers DEF ReaderType
<1>2. StagesAhead \in Nat
  BY <1>1 DEF StagesAhead
<1>3. Len(todo) \in Nat
  <2>1. PICK S : todo \in Seq(S)
    BY Zenon DEF ReaderType, ChainType
  <2> QED
    BY <2>1
<1>4. phase \in {"content", "map"} => pos <= Len(content) + 2
  <2>1. CASE phase = "content"
    BY <1>1, <2>1 DEF ReaderType, Within
  <2>2. CASE phase = "map"
    BY <2>2 DEF ReaderType
  <2> QED
    BY <2>1, <2>2
<1>5. StepsAhead \in Nat
  BY <1>1, <1>3, <1>4 DEF StepsAhead
<1>6. BytesAhead \in Nat
  <2>1. CASE phase = "rows"
    <3>1. PICK n \in Nat : RowsType(rows, n)
      BY <2>1 DEF ReaderType
    <3>2. Len(rows.left) \in Nat
      BY <3>1, BytesAreNumbers DEF RowsType
    <3> QED
      BY <3>2 DEF BytesAhead
  <2> QED
    BY <2>1 DEF BytesAhead
<1> QED
  BY <1>2, <1>5, <1>6

Descends ==
    \/ StagesAhead' < StagesAhead
    \/ /\ StagesAhead' = StagesAhead
       /\ \/ StepsAhead' < StepsAhead
          \/ StepsAhead' = StepsAhead /\ BytesAhead' < BytesAhead

Running == {"fetch", "decode", "rows", "content", "map"}

\* A result that ends the reader leaves nothing ahead.
LEMMA StopDescends ==
    ASSUME ReaderType, phase \in Running, NEW result, Stop(result)
    PROVE  Descends
<1>1. phase' \in {"aborted", "done", "failed"}
  BY DEF Stop, PhaseAfter
<1>2. StagesAhead' = 0
  BY <1>1 DEF StagesAhead
<1>3. StagesAhead > 0
  <2>1. read \in 0..Len(source.streams) /\ Len(source.streams) \in Nat
    BY SourceType DEF ReaderType
  <2> QED
    BY <2>1 DEF StagesAhead, Running
<1> QED
  BY <1>2, <1>3 DEF Descends

LEMMA DecoderDescends ==
    ReaderType /\ (OpenStream \/ FilterStream \/ PassParms \/ OpenRows \/ DecodeRow \/ CloseRows
                   \/ CloseStream) => Descends
<1> SUFFICES ASSUME ReaderType,
                    OpenStream \/ FilterStream \/ PassParms \/ OpenRows \/ DecodeRow \/ CloseRows \/ CloseStream
             PROVE  Descends
  OBVIOUS
<1>1. read \in 0..Len(source.streams) /\ Len(source.streams) \in Nat
  BY SourceType DEF ReaderType
<1>2. todo # <<>> => Len(todo) \in Nat /\ Len(Tail(todo)) = Len(todo) - 1
  BY ChainStep DEF ReaderType
<1>3. CASE OpenStream
  <2>1. phase = "fetch" /\ read < Len(source.streams)
    BY <1>3 DEF OpenStream
  <2>2. PICK steps : \/ phase' = "decode" /\ read' = read + 1 /\ source' = source
                     \/ Stop(steps)
    BY <1>3 DEF OpenStream
  <2>3. CASE phase' = "decode" /\ read' = read + 1 /\ source' = source
    <3>1. StagesAhead = 2 * (Len(source.streams) - read) + 2
      BY <2>1 DEF StagesAhead
    <3>2. StagesAhead' = 2 * (Len(source.streams) - (read + 1)) + 3
      BY <2>3 DEF StagesAhead
    <3> QED
      BY <1>1, <3>1, <3>2 DEF Descends
  <2> QED
    BY <2>1, <2>2, <2>3, StopDescends DEF Running
<1>4. CASE FilterStream \/ PassParms
  <2>1. phase = "decode" /\ todo # <<>>
    BY <1>4 DEF FilterStream, PassParms, IsNext
  <2>2. PICK result : \/ todo' = Tail(todo) /\ UNCHANGED <<source, phase, read>>
                      \/ Stop(result)
    BY <1>4 DEF FilterStream, PassParms
  <2>3. CASE todo' = Tail(todo) /\ UNCHANGED <<source, phase, read>>
    <3>1. StagesAhead' = StagesAhead
      BY <2>3 DEF StagesAhead
    <3>2. StepsAhead = 2 * Len(todo) + 1 /\ StepsAhead' = 2 * Len(Tail(todo)) + 1
      BY <2>1, <2>3 DEF StepsAhead
    <3> QED
      BY <1>2, <2>1, <3>1, <3>2 DEF Descends
  <2> QED
    BY <2>1, <2>2, <2>3, StopDescends DEF Running
<1>5. CASE OpenRows
  <2>1. phase = "decode" /\ todo # <<>>
    BY <1>5 DEF OpenRows, IsNext
  <2>2. PICK result : \/ phase' = "rows" /\ UNCHANGED <<source, read, todo>>
                      \/ Stop(result)
    BY <1>5 DEF OpenRows
  <2>3. CASE phase' = "rows" /\ UNCHANGED <<source, read, todo>>
    <3>1. StagesAhead' = StagesAhead
      BY <2>1, <2>3 DEF StagesAhead
    <3>2. StepsAhead = 2 * Len(todo) + 1 /\ StepsAhead' = 2 * Len(todo)
      BY <2>1, <2>3 DEF StepsAhead
    <3> QED
      BY <1>2, <2>1, <3>1, <3>2 DEF Descends
  <2> QED
    BY <2>1, <2>2, <2>3, StopDescends DEF Running
<1>6. CASE DecodeRow
  <2>1. phase = "rows" /\ rows.left # <<>>
    BY <1>6 DEF DecodeRow
  <2>2. PICK n \in Nat : RowsType(rows, n)
    BY <2>1 DEF ReaderType
  <2>3. \/ /\ NextRow(rows).r = "ok" /\ rows' = NextRow(rows).v
           /\ UNCHANGED <<source, phase, read, todo>>
        \/ Stop(NextRow(rows))
    BY <1>6 DEF DecodeRow
  <2>4. CASE NextRow(rows).r = "ok" /\ rows' = NextRow(rows).v /\ UNCHANGED <<source, phase, read, todo>>
    <3>1. Len(rows'.left) < Len(rows.left)
      BY <2>1, <2>2, <2>4, NextRowType DEF Err, Panic
    <3>2. StagesAhead' = StagesAhead /\ StepsAhead' = StepsAhead
      BY <2>1, <2>4 DEF StagesAhead, StepsAhead
    <3>3. BytesAhead = Len(rows.left) /\ BytesAhead' = Len(rows'.left)
      BY <2>1, <2>4 DEF BytesAhead
    <3> QED
      BY <3>1, <3>2, <3>3 DEF Descends
  <2> QED
    BY <2>1, <2>3, <2>4, StopDescends DEF Running
<1>7. CASE CloseRows
  <2>1. phase = "rows" /\ phase' = "decode" /\ todo' = Tail(todo) /\ UNCHANGED <<source, read>>
    BY <1>7 DEF CloseRows
  <2>2. todo # <<>>
    BY <2>1 DEF ReaderType
  <2>3. StagesAhead' = StagesAhead
    BY <2>1 DEF StagesAhead
  <2>4. StepsAhead = 2 * Len(todo) /\ StepsAhead' = 2 * Len(Tail(todo)) + 1
    BY <2>1 DEF StepsAhead
  <2> QED
    BY <1>2, <2>2, <2>3, <2>4 DEF Descends
<1>8. CASE CloseStream
  <2>1. phase = "decode" /\ phase' = "fetch" /\ UNCHANGED <<source, read>>
    BY <1>8 DEF CloseStream
  <2>2. /\ StagesAhead = 2 * (Len(source.streams) - read) + 3
        /\ StagesAhead' = 2 * (Len(source.streams) - read) + 2
    BY <2>1 DEF StagesAhead
  <2> QED
    BY <1>1, <2>2 DEF Descends
<1> QED
  BY <1>3, <1>4, <1>5, <1>6, <1>7, <1>8

LEMMA ReadersDescend ==
    ReaderType /\ (StartReading \/ Lex \/ Finish \/ OpenSection \/ SkipLine \/ CloseSection \/ ReadLine)
        => Descends
<1> SUFFICES ASSUME ReaderType,
                    StartReading \/ Lex \/ Finish \/ OpenSection \/ SkipLine \/ CloseSection \/ ReadLine
             PROVE  Descends
  OBVIOUS
<1>1. /\ read \in 0..Len(source.streams) /\ Len(source.streams) \in Nat /\ source.use \in {"content", "map"}
      /\ pos \in Nat \ {0} /\ Len(content) \in Nat
  BY SourceType, BytesAreNumbers DEF ReaderType
<1>2. CASE StartReading
  <2>1. phase = "fetch" /\ read = Len(source.streams) /\ phase' \in {"done", "content", "map"}
    BY <1>1, <1>2 DEF StartReading
  <2>2. StagesAhead = 2 * (Len(source.streams) - read) + 2 /\ StagesAhead' \in {0, 1}
    BY <2>1 DEF StagesAhead
  <2> QED
    BY <1>1, <2>2 DEF Descends
<1>3. CASE Finish
  <2>1. phase \in {"content", "map"} /\ phase' = "done"
    BY <1>3 DEF Finish
  <2>2. StagesAhead = 1 /\ StagesAhead' = 0
    BY <2>1 DEF StagesAhead
  <2> QED
    BY <2>2 DEF Descends
<1>4. ASSUME phase \in {"content", "map"}, UNCHANGED <<phase, content>>, pos' \in Nat, pos < pos'
      PROVE  Descends
  <2>1. StagesAhead = 1 /\ StagesAhead' = 1
    BY <1>4 DEF StagesAhead
  <2>2. StepsAhead = Len(content) + 2 - pos /\ StepsAhead' = Len(content) + 2 - pos'
    BY <1>4 DEF StepsAhead
  <2> QED
    BY <1>1, <1>4, <2>1, <2>2 DEF Descends
<1>5. CASE Lex
  <2>1. phase = "content" /\ phase' = phase /\ ReadToken
    BY <1>5 DEF Lex
  <2>2. Within /\ TokensFit
    BY <2>1 DEF ReaderType
  <2>3. Moves
    BY <2>1, <2>2, StepMoves
  <2> QED
    BY <1>1, <1>4, <2>1, <2>3 DEF Moves
<1>6. CASE OpenSection \/ SkipLine \/ CloseSection \/ ReadLine
  <2>1. PICK places, line, result :
           /\ line \in LineIn(places)
           /\ (phase' = phase /\ NextLine) \/ Stop(result)
    BY <1>6 DEF OpenSection, SkipLine, CloseSection, ReadLine
  <2>2. phase = "map" /\ EndOfLine \in pos..(Len(content) + 1)
    BY <2>1, LineMoves
  <2>3. CASE phase' = phase /\ NextLine
    <3>1. content' = content /\ pos' \in Nat /\ pos < pos'
      BY <1>1, <2>2, <2>3 DEF NextLine
    <3> QED
      BY <1>4, <2>2, <2>3, <3>1
  <2> QED
    BY <2>1, <2>2, <2>3, StopDescends DEF Running
<1> QED
  BY <1>2, <1>3, <1>5, <1>6

LEMMA EveryStepDescends == ReaderInv /\ ReaderInv' /\ [Next]_readerVars => [LeavesLess]_readerVars
<1> SUFFICES ASSUME ReaderInv, ReaderInv', Next PROVE LeavesLess
  OBVIOUS
<1>1. Descends
  BY DecoderDescends, ReadersDescend, Zenon DEF Next, ReaderInv
<1>2. StagesAhead \in Nat /\ StepsAhead \in Nat /\ BytesAhead \in Nat
  BY AheadType DEF ReaderInv
<1>3. (ReaderType => StagesAhead \in Nat /\ StepsAhead \in Nat /\ BytesAhead \in Nat)'
  BY AheadType, PTL
<1>4. StagesAhead' \in Nat /\ StepsAhead' \in Nat /\ BytesAhead' \in Nat
  BY <1>3 DEF ReaderInv
<1> QED
  BY <1>1, <1>2, <1>4, LessBefore DEF Descends, Ahead, LeavesLess

\* Whatever the streams hold, each step leaves less ahead, and there is no end of going down:
\* none of the loops over streams, filters, rows, tokens and lines runs on for ever.
THEOREM EveryStepLeavesLessAhead ==
    /\ Spec => [][LeavesLess]_readerVars
    /\ IsWellFoundedOn(LexicalLess, NatTriples)
<1>1. Spec => [][LeavesLess]_readerVars
  BY ReaderStarts, ReaderKeeps, EveryStepDescends, PTL DEF Spec
<1> QED
  BY <1>1, LexicalOrderIsWellFounded

-----------------------------------------------------------------------------
(***************************************************************************)
(* What the filters undo                                                   *)
(***************************************************************************)

LEMMA MinIs ==
    ASSUME NEW S \in SUBSET Int, NEW m \in S, \A x \in S : m <= x
    PROVE  Min(S) = m
<1> DEFINE IsMin(x) == x \in S /\ \A y \in S : x <= y
<1>1. Min(S) = CHOOSE x : IsMin(x)
  BY DEF Min
<1>2. ASSUME NEW x, IsMin(x) PROVE x = m
  <2>1. x \in Int /\ m \in Int /\ x <= m /\ m <= x
    BY <1>2
  <2> QED
    BY <2>1
<1>3. IsMin(m)
  OBVIOUS
<1> HIDE DEF IsMin
<1> QED
  BY <1>1, <1>2, <1>3

\* paeth_predictor compares the three distances as the standard asks.
LEMMA PaethIsNearest ==
    ASSUME NEW a \in 0..255, NEW b \in 0..255, NEW c \in 0..255
    PROVE  Paeth(a, b, c) = Nearest(a, b, c)
<1> DEFINE p == a + b - c
           places == <<a, b, c>>
           D(i) == Distance(p, places[i])
           dists == {Distance(p, x) : x \in {a, b, c}}
           near == Min(dists)
           nearest == {i \in 1..3 : D(i) = near}
           place == IF D(1) <= D(2) /\ D(1) <= D(3) THEN 1 ELSE IF D(2) <= D(3) THEN 2 ELSE 3
<1>1. places[1] = a /\ places[2] = b /\ places[3] = c
  OBVIOUS
<1>2. D(1) = Distance(p, a) /\ D(2) = Distance(p, b) /\ D(3) = Distance(p, c)
  BY <1>1
<1>3. D(1) \in Int /\ D(2) \in Int /\ D(3) \in Int
  BY <1>2 DEF Distance
<1>4. dists = {D(1), D(2), D(3)}
  BY <1>2
<1>5. Paeth(a, b, c) = places[place]
  BY <1>1, <1>2 DEF Paeth
<1>6. Nearest(a, b, c) = places[Min(nearest)]
  BY DEF Nearest
<1> HIDE DEF D, dists
<1>7. place \in 1..3 /\ D(place) <= D(1) /\ D(place) <= D(2) /\ D(place) <= D(3)
  BY <1>3
<1>8. near = D(place)
  <2>1. dists \in SUBSET Int /\ D(place) \in dists
    BY <1>3, <1>4, <1>7
  <2>2. \A x \in dists : D(place) <= x
    BY <1>4, <1>7
  <2> HIDE DEF place
  <2> QED
    BY <2>1, <2>2, MinIs
<1> HIDE DEF near
<1>9. Min(nearest) = place
  <2>1. nearest \in SUBSET Int /\ place \in nearest
    BY <1>7, <1>8
  <2>2. \A i \in nearest : place <= i
    BY <1>3, <1>8
  <2> HIDE DEF place, nearest
  <2> QED
    BY <2>1, <2>2, MinIs
<1> QED
  BY <1>5, <1>6, <1>9

LEMMA PredictionsAgree ==
    ASSUME NEW algorithm \in 0..4, NEW a \in 0..255, NEW b \in 0..255, NEW c \in 0..255
    PROVE  Prediction(algorithm, a, b, c) = Predicted(algorithm, a, b, c)
<1> DEFINE half == (a + b) \div 2
           near == Nearest(a, b, c)
<1>1. Predicted(algorithm, a, b, c) = <<0, a, b, half, near>>[algorithm + 1]
  BY DEF Predicted
<1>2. Prediction(4, a, b, c) = near
  <2>1. Prediction(4, a, b, c) = Paeth(a, b, c)
    BY DEF Prediction
  <2> QED
    BY <2>1, PaethIsNearest, Zenon
<1>3. Prediction(3, a, b, c) = half
  BY DEF Prediction
<1> HIDE DEF half, near
<1>4. CASE algorithm = 0
  BY <1>1, <1>4 DEF Prediction
<1>5. CASE algorithm = 1
  BY <1>1, <1>5 DEF Prediction
<1>6. CASE algorithm = 2
  BY <1>1, <1>6 DEF Prediction
<1>7. CASE algorithm = 3
  BY <1>1, <1>3, <1>7
<1>8. CASE algorithm = 4
  BY <1>1, <1>2, <1>8
<1> QED
  BY <1>4, <1>5, <1>6, <1>7, <1>8

\* A row that was encoded is decoded to what it was.
LEMMA RowInverts ==
    ASSUME NEW algorithm \in 0..4, NEW row \in Bytes, NEW above \in [1..Len(row) -> 0..255]
    PROVE  /\ EncodedRow(algorithm, row, above) \in Bytes
           /\ Len(EncodedRow(algorithm, row, above)) = Len(row)
           /\ DecodedRow(algorithm, EncodedRow(algorithm, row, above), above) = row
<1> DEFINE n == Len(row)
           coded == EncodedRow(algorithm, row, above)
           Pred(i) == Predicted(algorithm, LeftOf(row, i), above[i], LeftOf(above, i))
<1>1. n \in Nat /\ row = [i \in 1..n |-> row[i]] /\ \A i \in 1..n : row[i] \in 0..255
  BY BytesAreNumbers, ByteOf DEF Bytes
<1>2. \A i \in 1..n : above[i] \in 0..255 /\ LeftOf(row, i) \in 0..255 /\ LeftOf(above, i) \in 0..255
  <2> TAKE i \in 1..n
  <2>1. above[i] \in 0..255
    OBVIOUS
  <2>2. CASE i = 1
    <3>1. LeftOf(row, i) = 0 /\ LeftOf(above, i) = 0
      BY <2>2 DEF LeftOf
    <3> QED
      BY <2>1, <3>1
  <2>3. CASE i # 1
    <3>1. i - 1 \in 1..n
      BY <1>1, <2>3
    <3>2. LeftOf(row, i) = row[i - 1] /\ LeftOf(above, i) = above[i - 1]
      BY <2>3 DEF LeftOf
    <3>3. row[i - 1] \in 0..255 /\ above[i - 1] \in 0..255
      BY <1>1, <3>1
    <3> QED
      BY <2>1, <3>2, <3>3
  <2> QED
    BY <2>2, <2>3
<1>3. \A i \in 1..n : /\ Pred(i) \in 0..255
                      /\ Pred(i) = Prediction(algorithm, LeftOf(row, i), above[i], LeftOf(above, i))
  <2> TAKE i \in 1..n
  <2> DEFINE a == LeftOf(row, i)
             b == above[i]
             c == LeftOf(above, i)
  <2>1. a \in 0..255 /\ b \in 0..255 /\ c \in 0..255
    BY <1>2
  <2>2. Pred(i) = Predicted(algorithm, a, b, c)
    OBVIOUS
  <2> HIDE DEF a, b, c, Pred
  <2>3. Prediction(algorithm, a, b, c) = Predicted(algorithm, a, b, c)
    BY <2>1, PredictionsAgree
  <2>4. Prediction(algorithm, a, b, c) \in 0..255
    BY <2>1, PredictionType
  <2> QED
    BY <2>2, <2>3, <2>4 DEF a, b, c
<1>4. coded = [i \in 1..n |-> (row[i] + 256 - Pred(i)) % 256]
  BY DEF EncodedRow
<1> HIDE DEF Pred, coded
<1>5. \A x, y \in 0..255 : (x + 256 - y) % 256 \in 0..255
  OBVIOUS
<1>6. coded \in [1..n -> 0..255]
  BY <1>1, <1>3, <1>4, <1>5
<1> HIDE DEF n
<1>7. coded \in Bytes /\ Len(coded) = n
  <2>1. Len(coded) = n
    BY <1>1, <1>6
  <2>2. n \in Nat
    BY <1>1
  <2>3. coded \in Bytes
    BY <1>6, <2>2 DEF Bytes
  <2> QED
    BY <2>1, <2>3
<1>8. PICK d \in [0..n -> 0..255] :
         Decodes(d, algorithm, coded, above) /\ DecodedRow(algorithm, coded, above) = [i \in 1..n |-> d[i]]
  <2>1. above \in [1..Len(coded) -> 0..255]
    BY <1>7 DEF n
  <2>2. \E d \in [0..Len(coded) -> 0..255] :
           /\ Decodes(d, algorithm, coded, above)
           /\ DecodedRow(algorithm, coded, above) = [i \in 1..Len(coded) |-> d[i]]
    BY <1>7, <2>1, DecodedRowSteps
  <2> QED
    BY <1>7, <2>2
<1>9. \A i \in 1..n : d[i] = DecodedByte(algorithm, coded, above, i, d[i - 1])
  BY <1>7, <1>8 DEF Decodes
<1> DEFINE P == {k \in Nat : k \in 1..n => d[k] = row[k]}
<1>10. 0 \in P
  OBVIOUS
<1>11. ASSUME NEW k \in Nat, k \in P PROVE k + 1 \in P
  <2> SUFFICES ASSUME k + 1 \in 1..n PROVE d[k + 1] = row[k + 1]
    OBVIOUS
  <2>1. PICK i \in 1..n : i = k + 1
    OBVIOUS
  <2>2. d[i - 1] = LeftOf(row, i)
    <3>1. CASE k = 0
      BY <1>8, <2>1, <3>1 DEF LeftOf, Decodes
    <3>2. CASE k # 0
      <4>1. k \in 1..n /\ i # 1 /\ i - 1 = k
        BY <1>1, <2>1, <3>2
      <4> QED
        BY <1>11, <4>1 DEF LeftOf
    <3> QED
      BY <3>1, <3>2
  <2>3. d[i] = (coded[i] + Pred(i)) % 256
    <3>1. d[i] = DecodedByte(algorithm, coded, above, i, LeftOf(row, i))
      BY <1>9, <2>2
    <3>2. DecodedByte(algorithm, coded, above, i, LeftOf(row, i)) = (coded[i] + Pred(i)) % 256
      BY <1>3 DEF DecodedByte, LeftOf
    <3> QED
      BY <3>1, <3>2
  <2>4. coded[i] = (row[i] + 256 - Pred(i)) % 256
    BY <1>4
  <2> DEFINE x == row[i]
             y == Pred(i)
  <2>5. x \in 0..255 /\ y \in 0..255
    BY <1>1, <1>3
  <2> HIDE DEF x, y
  <2>6. (((x + 256 - y) % 256) + y) % 256 = x
    BY <2>5
  <2> QED
    BY <2>1, <2>3, <2>4, <2>6 DEF x, y
<1> HIDE DEF P
<1>12. \A k \in Nat : k \in P
  BY <1>10, <1>11, NatInduct
<1>13. \A i \in 1..n : d[i] = row[i]
  <2> TAKE i \in 1..n
  <2>1. i \in Nat
    BY <1>1
  <2>2. i \in P
    BY <1>12, <2>1
  <2> QED
    BY <2>2 DEF P
<1> QED
  BY <1>1, <1>7, <1>8, <1>13 DEF coded, n

LEMMA HexDigitInverts ==
    ASSUME NEW n \in 0..15
    PROVE  HexDigit(n) \in HexDigits /\ HexValue(HexDigit(n)) = n
BY DEF HexDigit, HexDigits, HexValue, Digits

\* Bytes written in hexadecimal digits are read back.
THEOREM HexInverts ==
    ASSUME NEW bytes \in Seq(0..255)
    PROVE  DecodeAsciiHex[HexOf(bytes)] = Ok(bytes)
<1> DEFINE n == Len(bytes)
           digits == HexOf(bytes)
           Value(i) == IF i % 2 = 1 THEN bytes[(i + 1) \div 2] \div 16 ELSE bytes[i \div 2] % 16
<1>1. n \in Nat /\ bytes = [k \in 1..n |-> bytes[k]] /\ \A k \in 1..n : bytes[k] \in 0..255
  BY BytesAreNumbers, ByteOf DEF Bytes
<1>2. digits = [i \in 1..(2 * n) |-> HexDigit(Value(i))]
  BY DEF HexOf
<1>3. \A b \in 0..255 : b \div 16 \in 0..15 /\ b % 16 \in 0..15 /\ 16 * (b \div 16) + (b % 16) = b
  OBVIOUS
<1>4. ASSUME NEW i \in 1..(2 * n) PROVE Value(i) \in 0..15
  <2>1. (i % 2 = 1 => (i + 1) \div 2 \in 1..n) /\ (i % 2 # 1 => i \div 2 \in 1..n)
    BY <1>1
  <2> QED
    BY <1>1, <1>3, <2>1
<1>5. ASSUME NEW k \in 1..n
      PROVE  /\ 2 * k - 1 \in 1..(2 * n) /\ Value(2 * k - 1) = bytes[k] \div 16
             /\ 2 * k \in 1..(2 * n) /\ Value(2 * k) = bytes[k] % 16
  <2>1. 2 * k - 1 \in 1..(2 * n) /\ 2 * k \in 1..(2 * n)
    BY <1>1
  <2>2. (2 * k - 1) % 2 = 1 /\ ((2 * k - 1) + 1) \div 2 = k /\ (2 * k) % 2 # 1 /\ (2 * k) \div 2 = k
    BY <1>1
  <2> QED
    BY <2>1, <2>2
<1> HIDE DEF Value, digits, n
<1>6. ASSUME NEW i \in 1..(2 * n)
      PROVE  digits[i] \in HexDigits /\ HexValue(digits[i]) = Value(i) /\ digits[i] \in Nat
  <2>1. digits[i] = HexDigit(Value(i))
    BY <1>2
  <2>2. HexDigits \subseteq Nat
    BY DEF HexDigits, Digits
  <2> QED
    BY <1>4, <2>1, <2>2, HexDigitInverts
<1>7. 2 * n \in Nat
  BY <1>1
<1>8. DOMAIN digits = 1..(2 * n) /\ Len(digits) = 2 * n
  BY <1>2, <1>7
<1>9. digits \in Seq(Nat)
  BY <1>2, <1>6, <1>7
<1>10. DecodeAsciiHex[digits] = Check(\A i \in DOMAIN digits : digits[i] \in HexDigits, PackedHex(digits))
  BY <1>9 DEF DecodeAsciiHex
<1>11. DecodeAsciiHex[digits] = Ok(PackedHex(digits))
  BY <1>6, <1>8, <1>10 DEF Check
<1> DEFINE Packed(k) == 16 * HexValue(digits[2 * k - 1])
                          + IF 2 * k <= Len(digits) THEN HexValue(digits[2 * k]) ELSE 0
<1>12. PackedHex(digits) = [k \in 1..((Len(digits) + 1) \div 2) |-> Packed(k)]
  BY DEF PackedHex
<1>13. (Len(digits) + 1) \div 2 = n
  BY <1>1, <1>8
<1>14. ASSUME NEW k \in 1..n PROVE Packed(k) = bytes[k]
  <2>1. 2 * k <= Len(digits)
    BY <1>1, <1>8
  <2>2. HexValue(digits[2 * k - 1]) = bytes[k] \div 16 /\ HexValue(digits[2 * k]) = bytes[k] % 16
    BY <1>5, <1>6
  <2> QED
    BY <1>1, <1>3, <2>1, <2>2
<1> HIDE DEF Packed
<1>15. PackedHex(digits) = bytes
  BY <1>1, <1>12, <1>13, <1>14
<1> QED
  BY <1>11, <1>15 DEF digits

LEMMA TwoBytes ==
    ASSUME NEW x \in Nat, NEW y \in Nat, x < 256, y < 256
    PROVE  /\ 256 * x + y \in Nat /\ 256 * x + y < 65536 /\ x % 256 = x
           /\ (256 * x + y) % 256 = y /\ (256 * x + y) \div 256 = x
<1>1. 256 * x + y \in Nat /\ 256 * x + y < 65536
  BY SMT
<1>2. x % 256 = x
  BY SMT
<1>3. (256 * x + y) % 256 = y
  BY SMT
<1>4. (256 * x + y) \div 256 = x
  BY SMT
<1> QED
  BY <1>1, <1>2, <1>3, <1>4

LEMMA TwoWords ==
    ASSUME NEW x \in Nat, NEW y \in Nat, NEW u \in Nat, NEW v \in Nat, u < 65536, v < 65536,
           65536 * x + u = 65536 * y + v
    PROVE  x = y /\ u = v
<1>1. x = y
  BY SMT
<1> QED
  BY <1>1, SMT

LEMMA Quotients ==
    ASSUME NEW low \in Nat, NEW q \in Nat, NEW r \in Nat, r < 65536, low = 65536 * q + r
    PROVE  low % 256 = r % 256 /\ (low \div 256) % 256 = r \div 256
<1> DEFINE s == r \div 256
           t == r % 256
<1>1. s \in Nat /\ t \in Nat /\ t < 256
  BY SMT
<1>2. r = 256 * s + t
  BY SMT
<1> HIDE DEF s, t
<1>3. s < 256
  BY <1>1, <1>2, SMT
<1>4. low = 256 * (256 * q + s) + t
  BY <1>1, <1>2, SMT
<1>5. low % 256 = t
  BY <1>1, <1>4, SMT
<1>6. low \div 256 = 256 * q + s
  BY <1>1, <1>4, SMT
<1>7. (256 * q + s) % 256 = s
  BY <1>1, <1>3, SMT
<1> QED
  BY <1>5, <1>6, <1>7 DEF s, t

\* A carry goes from the low word to the high one.
Carried(top, low, high) == high = top + low \div 65536

SameNumber(top, low, b1, b2, b3, b4) ==
    65536 * top + low = 256 * (256 * (256 * b1 + b2) + b3) + b4

WordBytes(high, low, b1, b2, b3, b4) ==
    /\ (high \div 256) % 256 = b1 /\ high % 256 = b2
    /\ (low \div 256) % 256 = b3 /\ low % 256 = b4

LEMMA BytesOfWords ==
    ASSUME NEW top \in Nat, NEW low \in Nat, NEW high, Carried(top, low, high),
           NEW b1 \in Nat, NEW b2 \in Nat, NEW b3 \in Nat, NEW b4 \in Nat,
           b1 < 256, b2 < 256, b3 < 256, b4 < 256, SameNumber(top, low, b1, b2, b3, b4)
    PROVE  WordBytes(high, low, b1, b2, b3, b4)
<1> DEFINE x == 256 * b1 + b2
           y == 256 * b3 + b4
           q == low \div 65536
           r == low % 65536
<1>1. x \in Nat /\ x % 256 = b2 /\ x \div 256 = b1 /\ b1 % 256 = b1
  BY TwoBytes
<1>11. y \in Nat /\ y < 65536 /\ y % 256 = b4 /\ y \div 256 = b3
  BY TwoBytes
<1>2. 65536 * top + low = 65536 * x + y
  BY SMT DEF SameNumber
<1>31. q \in Nat
  BY SMT
<1>32. r \in Nat /\ r < 65536
  BY SMT
<1>33. low = 65536 * q + r
  BY SMT
<1>5. high = top + q
  BY DEF Carried
<1> HIDE DEF x, y, q, r
<1>4. low % 256 = r % 256 /\ (low \div 256) % 256 = r \div 256
  BY <1>31, <1>32, <1>33, Quotients
<1>61. x \in Nat /\ y \in Nat /\ y < 65536
  BY <1>1, <1>11
<1>63. high \in Nat
  BY <1>5, <1>31, <1>32, SMT
<1>6. 65536 * high + r = 65536 * x + y
  BY <1>61, <1>31, <1>32, <1>2, <1>33, <1>5, SMT
<1>7. high = x /\ r = y
  BY <1>61, <1>31, <1>32, <1>63, <1>6, TwoWords, SMT
<1> QED
  BY <1>1, <1>11, <1>4, <1>7, SMT DEF WordBytes

\* The digits of a group to the base 85 are read as the bytes of its number.
THEOREM GroupInverts ==
    ASSUME NEW group \in Seq(0..84), Len(group) = 5,
           NEW b1 \in 0..255, NEW b2 \in 0..255, NEW b3 \in 0..255, NEW b4 \in 0..255,
           85 * (85 * (85 * (85 * group[1] + group[2]) + group[3]) + group[4]) + group[5]
             = 256 * (256 * (256 * b1 + b2) + b3) + b4
    PROVE  GroupBytes[group] = <<b1, b2, b3, b4>>
<1> DEFINE d1 == group[1]
           d2 == group[2]
           d3 == group[3]
           d4 == group[4]
           d5 == group[5]
           low  == 33969 * d1 + 24301 * d2 + 7225 * d3 + 85 * d4 + d5
           high == 796 * d1 + 9 * d2 + low \div 65536
<1>1. group \in Seq(Nat)
  <2>1. 0..84 \subseteq Nat
    OBVIOUS
  <2> QED
    BY <2>1, SeqMonotonic, Zenon
<1>2. GroupBytes[group] = <<(high \div 256) % 256, high % 256, (low \div 256) % 256, low % 256>>
  BY <1>1 DEF GroupBytes
<1>3. \A i \in 1..5 : group[i] \in Nat
  BY <1>1, ElementOfSeq
<1>31. d1 \in Nat
  BY <1>3
<1>32. d2 \in Nat
  BY <1>3
<1>33. d3 \in Nat
  BY <1>3
<1>34. d4 \in Nat
  BY <1>3
<1>35. d5 \in Nat
  BY <1>3
<1>4. 85 * (85 * (85 * (85 * d1 + d2) + d3) + d4) + d5 = 256 * (256 * (256 * b1 + b2) + b3) + b4
  OBVIOUS
<1> HIDE DEF d1, d2, d3, d4, d5
<1> DEFINE top == 796 * d1 + 9 * d2
<1>5. low \in Nat
  BY <1>31, <1>32, <1>33, <1>34, <1>35
<1>6. SameNumber(top, low, b1, b2, b3, b4)
  BY <1>31, <1>32, <1>33, <1>34, <1>35, <1>4, SMT DEF SameNumber
<1>7. top \in Nat
  BY <1>31, <1>32
<1>8. Carried(top, low, high)
  BY <1>5, <1>31, <1>32 DEF Carried
<1>9. b1 \in Nat /\ b2 \in Nat /\ b3 \in Nat /\ b4 \in Nat
  OBVIOUS
<1>10. b1 < 256 /\ b2 < 256 /\ b3 < 256 /\ b4 < 256
  OBVIOUS
<1> HIDE DEF low, top, high
<1>11. WordBytes(high, low, b1, b2, b3, b4)
  BY <1>5, <1>6, <1>7, <1>8, <1>9, <1>10, BytesOfWords, Zenon
<1> QED
  BY <1>2, <1>11 DEF WordBytes

\* The predictor byte, the row and what follows it.
RowInFront(left, kind, coded, n, rest) ==
    Head(left) = kind /\ SubSeq(left, 2, n + 1) = coded /\ SubSeq(left, n + 2, Len(left)) = rest

LoopState(n, left, above, out) == [columns |-> n, left |-> left, above |-> above, out |-> out]

LEMMA ConcatParts ==
    ASSUME NEW kind \in 0..255, NEW coded \in Bytes, NEW rest \in Bytes, NEW n \in Nat, Len(coded) = n
    PROVE  RowInFront(<<kind>> \o coded \o rest, kind, coded, n, rest)
<1> DEFINE front == <<kind>> \o coded
           left == front \o rest
           B == 0..255
<1>1. <<kind>> \in Seq(B) /\ Len(<<kind>>) = 1 /\ <<kind>>[1] = kind
  OBVIOUS
<1> HIDE DEF B
<1>2. coded \in Seq(B) /\ rest \in Seq(B) /\ Len(rest) \in Nat
  BY DEF Bytes, B
<1>3. /\ front \in Seq(B) /\ Len(front) = 1 + n
      /\ \A i \in 1..(1 + n) : front[i] = IF i <= 1 THEN <<kind>>[i] ELSE coded[i - 1]
  BY <1>1, <1>2, ConcatProperties
<1> HIDE DEF front
<1>4. /\ left \in Seq(B) /\ Len(left) = 1 + n + Len(rest)
      /\ \A i \in 1..Len(left) : left[i] = IF i <= 1 + n THEN front[i] ELSE rest[i - (1 + n)]
  <2>1. front \in Seq(B) /\ rest \in Seq(B) /\ Len(front) = 1 + n
    BY <1>2, <1>3
  <2>2. /\ left \in Seq(B) /\ Len(left) = Len(front) + Len(rest)
        /\ \A i \in 1..(Len(front) + Len(rest)) :
              left[i] = IF i <= Len(front) THEN front[i] ELSE rest[i - Len(front)]
    <3>1. left \in Seq(B)
      BY <2>1, ConcatProperties
    <3>2. Len(left) = Len(front) + Len(rest)
      BY <2>1, ConcatProperties
    <3>3. ASSUME NEW i \in 1..(Len(front) + Len(rest))
          PROVE  left[i] = IF i <= Len(front) THEN front[i] ELSE rest[i - Len(front)]
      BY <2>1, ConcatProperties
    <3> QED
      BY <3>1, <3>2, <3>3
  <2> HIDE DEF left
  <2> QED
    BY <2>1, <2>2
<1> HIDE DEF left
<1>5. Head(left) = kind
  <2>1. 1 \in 1..Len(left) /\ 1 \in 1..(1 + n)
    BY <1>2, <1>4
  <2>2. left[1] = kind
    BY <1>1, <1>3, <1>4, <2>1
  <2> QED
    BY <1>4, <2>1, <2>2
<1>6. SubSeq(left, 2, n + 1) = coded
  <2> DEFINE part == SubSeq(left, 2, n + 1)
  <2>1. part = [i \in 1..n |-> left[i + 1]]
    BY <1>4
  <2>2. ASSUME NEW i \in 1..n PROVE left[i + 1] = coded[i]
    <3>1. PICK j \in 1..(1 + n) : j = i + 1 /\ j # 1 /\ j - 1 = i
      OBVIOUS
    <3>2. j \in 1..Len(left)
      BY <1>2, <1>4
    <3> QED
      BY <1>3, <1>4, <3>1, <3>2
  <2>3. coded = [i \in 1..n |-> coded[i]]
    BY <1>2
  <2> QED
    BY <2>1, <2>2, <2>3
<1>7. SubSeq(left, n + 2, Len(left)) = rest
  <2> DEFINE m == Len(rest)
  <2>1. m \in Nat /\ Len(left) = n + 1 + m
    BY <1>2, <1>4
  <2>2. SubSeq(left, n + 2, Len(left)) = [i \in 1..m |-> left[i + n + 1]]
    BY <1>4, <2>1
  <2>3. ASSUME NEW i \in 1..m PROVE left[i + n + 1] = rest[i]
    <3>1. PICK j \in 1..Len(left) : j = i + n + 1 /\ j > 1 + n /\ j - (1 + n) = i
      BY <2>1
    <3> QED
      BY <1>4, <3>1
  <2>4. rest = [i \in 1..m |-> rest[i]]
    BY <1>2
  <2> QED
    BY <2>2, <2>3, <2>4
<1> QED
  BY <1>5, <1>6, <1>7, Zenon DEF left, front, RowInFront

\* What one pass of the loop is given, and what it makes of a coded row.
PassFits(algorithm, kind, n, row, above, rest, out) ==
    /\ algorithm \in 0..4 /\ kind \in 0..255 /\ Algorithms(kind) = {algorithm}
    /\ n \in Nat /\ (n # 0 \/ algorithm # 1)
    /\ row \in Seq(0..255) /\ Len(row) = n /\ above \in [1..n -> 0..255]
    /\ rest \in Seq(0..255) /\ out \in Seq(0..255)

PassUndoes(algorithm, kind, n, row, above, rest, out) ==
    NextRow(LoopState(n, <<kind>> \o EncodedRow(algorithm, row, above) \o rest, above, out))
      = Ok(LoopState(n, rest, row, out \o row))

LEMMA PassUndoesFitting ==
    ASSUME NEW algorithm, NEW kind, NEW n, NEW row, NEW above, NEW rest, NEW out,
           PassFits(algorithm, kind, n, row, above, rest, out)
    PROVE  PassUndoes(algorithm, kind, n, row, above, rest, out)
<1> USE DEF PassFits
<1> DEFINE coded == EncodedRow(algorithm, row, above)
           left == <<kind>> \o coded \o rest
           state == LoopState(n, left, above, out)
           next == LoopState(n, rest, row, out \o row)
<1>1. coded \in Bytes /\ Len(coded) = n /\ DecodedRow(algorithm, coded, above) = row
  BY RowInverts DEF Bytes
<1> HIDE DEF coded
<1>2. RowInFront(left, kind, coded, n, rest)
  <2>1. rest \in Bytes
    BY DEF Bytes
  <2> QED
    BY <1>1, <2>1, ConcatParts, Zenon
<1> HIDE DEF left
<1>3. state.columns = n /\ state.left = left /\ state.above = above /\ state.out = out
  BY DEF LoopState
<1>4. (CHOOSE a \in Algorithms(kind) : TRUE) = algorithm
  OBVIOUS
<1>5. ~(Algorithms(kind) = {} \/ (Algorithms(kind) = {1} /\ n = 0))
  OBVIOUS
<1> HIDE DEF state
<1> DEFINE byte == Head(state.left)
           itsRow == SubSeq(state.left, 2, state.columns + 1)
           decoded == DecodedRow(CHOOSE a \in Algorithms(byte) : TRUE, itsRow, state.above)
<1>6. NextRow(state) =
         IF Algorithms(byte) = {} THEN Err
         ELSE IF Algorithms(byte) = {1} /\ state.columns = 0 THEN Panic
         ELSE Ok([columns |-> state.columns,
                  left |-> SubSeq(state.left, state.columns + 2, Len(state.left)),
                  above |-> decoded, out |-> state.out \o decoded])
  BY Zenon DEF NextRow
<1>7. byte = kind /\ itsRow = coded /\ SubSeq(left, n + 2, Len(left)) = rest
  BY <1>2, <1>3 DEF RowInFront
<1>8. decoded = row
  BY <1>1, <1>3, <1>4, <1>7
<1> HIDE DEF byte, itsRow, decoded
<1>9. NextRow(state) = Ok(next)
  BY <1>3, <1>5, <1>6, <1>7, <1>8, Zenon DEF LoopState
<1> QED
  BY <1>9, Zenon DEF PassUndoes, state, next, left, coded

\* A pass of the loop over rows undoes the prediction of the PNG standard for one row, under
\* whatever row: it takes away the predictor byte and the row, and appends what the row was.
THEOREM PassUndoesRow ==
    ASSUME NEW algorithm \in 0..4, NEW kind \in 0..255, Algorithms(kind) = {algorithm},
           NEW n \in Nat, n # 0 \/ algorithm # 1,
           NEW row \in Seq(0..255), Len(row) = n, NEW above \in [1..n -> 0..255],
           NEW rest \in Seq(0..255), NEW out \in Seq(0..255)
    PROVE  NextRow(LoopState(n, <<kind>> \o EncodedRow(algorithm, row, above) \o rest, above, out))
             = Ok(LoopState(n, rest, row, out \o row))
<1>1. PassFits(algorithm, kind, n, row, above, rest, out)
  BY DEF PassFits
<1>2. PassUndoes(algorithm, kind, n, row, above, rest, out)
  BY <1>1, PassUndoesFitting
<1> QED
  BY <1>2, Zenon DEF PassUndoes

LEMMA OneRowMore ==
    ASSUME NEW len \in Nat, NEW size \in Nat, Multiple(len, size)
    PROVE  Multiple(size + len, size)
<1>1. PICK k \in Nat : len = k * size
  BY DEF Multiple
<1>2. size + len = (k + 1) * size
  BY <1>1
<1> QED
  BY <1>2 DEF Multiple

LEMMA NoRemainder ==
    ASSUME NEW len \in Nat, NEW size \in Nat, size > 0, Multiple(len, size)
    PROVE  len % size = 0
<1>1. PICK k \in Nat : len = size * k
  BY DEF Multiple
<1> QED
  BY <1>1, SMT

\* A predictor byte names the algorithm that it ends in.
LEMMA KindsNameAlgorithms ==
    ASSUME NEW kind \in RowKinds
    PROVE  kind \in 0..255 /\ kind % 10 \in 0..4 /\ Algorithms(kind) = {kind % 10}
<1>1. kind \in 0..255 /\ kind % 10 \in 0..4
  BY DEF RowKinds
<1>2. CASE kind \in 0..4
  BY <1>2 DEF Algorithms
<1>3. CASE kind \in 10..12
  <2>1. kind % 10 = kind - 10
    BY <1>3
  <2> QED
    BY <1>3, <2>1 DEF Algorithms
<1> QED
  BY <1>1, <1>2, <1>3 DEF RowKinds

\* What the loop has made of r rows: their bytes, the row above, and the rest.
AboveOf(raw, n, r) == IF r = 0 THEN Zeros(n) ELSE raw[r]

AfterRow(raw, n, rest, out, r) ==
    LoopState(n, rest[r], AboveOf(raw, n, r), out[r])

\* The loop of apply_png_predictor undoes the prediction of all rows, each by its own
\* algorithm: from what stands before its first pass, every pass takes one row away without
\* an error, and in the end nothing is left and the rows have been put out.
THEOREM LoopUndoesRows ==
    ASSUME NEW n \in Nat \ {0}, n < MaxSize, n <= Room,
           NEW raw \in Seq([1..n -> 0..255]), NEW kinds \in [1..Len(raw) -> RowKinds]
    PROVE  \E states :
              /\ RowsOf(n, FlattenSeq(EncodedRows(raw, n, kinds))) = Ok(states[0])
              /\ \A r \in 1..Len(raw) :
                    states[r - 1].left # <<>> /\ NextRow(states[r - 1]) = Ok(states[r])
              /\ states[Len(raw)].left = <<>> /\ states[Len(raw)].out = FlattenSeq(raw)
<1> DEFINE N == Len(raw)
           B == 0..255
           above(r) == AboveOf(raw, n, r)
           coded(r) == EncodedRow(kinds[r] % 10, raw[r], above(r - 1))
           seqs == EncodedRows(raw, n, kinds)
<1>1. N \in Nat /\ \A r \in 1..N : raw[r] \in [1..n -> B] /\ kinds[r] \in RowKinds
  BY ElementOfSeq
<1>2. \A r \in 0..N : above(r) \in [1..n -> B]
  <2>1. Zeros(n) \in [1..n -> B]
    BY DEF Zeros
  <2>2. \A r \in 0..N : r = 0 \/ r \in 1..N
    BY <1>1
  <2> HIDE DEF N, B
  <2> QED
    BY <1>1, <2>1, <2>2 DEF AboveOf
<1>3. \A row \in [1..n -> B] : row \in Seq(B) /\ Len(row) = n
  OBVIOUS
<1>4. \A r \in 1..N : r - 1 \in 0..N
  BY <1>1
<1>5. ASSUME NEW r \in 1..N
      PROVE  /\ coded(r) \in Bytes /\ Len(coded(r)) = n
             /\ <<kinds[r]>> \o coded(r) \in Bytes /\ Len(<<kinds[r]>> \o coded(r)) = n + 1
             /\ kinds[r] \in 0..255
  <2>1. kinds[r] \in 0..255 /\ kinds[r] % 10 \in 0..4
    BY <1>1, KindsNameAlgorithms
  <2>2. raw[r] \in Bytes /\ Len(raw[r]) = n /\ above(r - 1) \in [1..n -> 0..255]
    BY <1>1, <1>2, <1>3, <1>4 DEF Bytes
  <2> HIDE DEF above, N
  <2>3. coded(r) \in Bytes /\ Len(coded(r)) = n
    BY <2>1, <2>2, RowInverts
  <2> HIDE DEF coded
  <2>4. <<kinds[r]>> \in Bytes /\ Len(<<kinds[r]>>) = 1
    BY <2>1 DEF Bytes
  <2> QED
    BY <2>1, <2>3, <2>4, ConcatProperties DEF Bytes
<1>6. seqs = [r \in 1..N |-> <<kinds[r]>> \o coded(r)]
  <2>1. DOMAIN raw = 1..N
    OBVIOUS
  <2>2. \A r \in 1..N : AboveOf(raw, n, r - 1) = IF r = 1 THEN Zeros(n) ELSE raw[r - 1]
    BY <1>1 DEF AboveOf
  <2> HIDE DEF N
  <2> QED
    BY <2>1, <2>2 DEF EncodedRows
<1> HIDE DEF above, coded, seqs, N, B
<1>7. seqs \in Seq(Bytes) /\ Len(seqs) = N /\ \A r \in 1..N : seqs[r] = <<kinds[r]>> \o coded(r)
  BY <1>1, <1>5, <1>6
<1>8. PICK rest \in [0..N -> Bytes] : Tails(rest, seqs) /\ rest[0] = FlattenSeq(seqs) /\ rest[N] = <<>>
  BY <1>7, FlattenSeqTails DEF Bytes
<1>9. \A r \in 1..N : rest[r - 1] = <<kinds[r]>> \o coded(r) \o rest[r]
  BY <1>7, <1>8 DEF Tails
<1>10. raw \in Seq(Seq(B))
  BY <1>1, <1>3 DEF N, B
<1>11. PICK out \in [0..N -> Seq(B)] :
         out[0] = <<>> /\ (\A r \in 1..N : out[r] = out[r - 1] \o raw[r]) /\ FlattenSeq(raw) = out[N]
  BY <1>10, FlattenSeqSteps DEF N
<1>12. \A r \in 1..N : rest[r - 1] # <<>> /\ Len(rest[r - 1]) = n + 1 + Len(rest[r])
  <2> TAKE r \in 1..N
  <2> DEFINE front == <<kinds[r]>> \o coded(r)
  <2>0. r \in 0..N
    BY <1>1
  <2>1. front \in Seq(B) /\ Len(front) = n + 1 /\ rest[r] \in Seq(B)
    BY <1>5, <2>0 DEF Bytes, B
  <2>2. rest[r - 1] = front \o rest[r]
    BY <1>9
  <2> HIDE DEF front
  <2>3. Len(front \o rest[r]) = Len(front) + Len(rest[r])
    BY <2>1, ConcatProperties
  <2>4. Len(rest[r]) \in Nat
    BY <2>1
  <2>5. Len(rest[r - 1]) = n + 1 + Len(rest[r])
    BY <2>1, <2>2, <2>3
  <2>6. \A m \in Nat : n + 1 + m # 0
    OBVIOUS
  <2>7. Len(rest[r - 1]) # 0
    BY <2>4, <2>5, <2>6, Zenon
  <2>8. rest[r - 1] # <<>>
    BY <2>7
  <2> QED
    BY <2>5, <2>8, Zenon
<1> DEFINE After(r) == AfterRow(raw, n, rest, out, r)
           states == [r \in 0..N |-> After(r)]
<1>13. ASSUME NEW r \in 1..N
       PROVE  NextRow(After(r - 1)) = Ok(After(r))
  <2> DEFINE algorithm == kinds[r] % 10
             kind == kinds[r]
             row == raw[r]
             up == above(r - 1)
             its == rest[r]
             before == out[r - 1]
  <2>1. kind \in 0..255 /\ algorithm \in 0..4 /\ Algorithms(kind) = {algorithm}
    BY <1>1, KindsNameAlgorithms
  <2>2. row \in Seq(0..255) /\ Len(row) = n /\ up \in [1..n -> 0..255]
    BY <1>1, <1>2, <1>3, <1>4 DEF B
  <2>3. its \in Seq(0..255) /\ before \in Seq(0..255)
    BY <1>1, <1>4 DEF Bytes, B
  <2>4. out[r] = before \o row /\ rest[r - 1] = <<kind>> \o EncodedRow(algorithm, row, up) \o its
    BY <1>9, <1>11 DEF coded
  <2>5. r # 0 /\ up = AboveOf(raw, n, r - 1)
    BY <1>1 DEF above
  <2>6. After(r - 1) = LoopState(n, <<kind>> \o EncodedRow(algorithm, row, up) \o its, up, before)
    BY <2>4, <2>5 DEF AfterRow
  <2>7. After(r) = LoopState(n, its, row, before \o row)
    BY <2>4, <2>5 DEF AfterRow, AboveOf
  <2> HIDE DEF algorithm, kind, row, up, its, before, After
  <2>8. NextRow(LoopState(n, <<kind>> \o EncodedRow(algorithm, row, up) \o its, up, before))
          = Ok(LoopState(n, its, row, before \o row))
    <3>1. n \in Nat /\ n # 0
      OBVIOUS
    <3>2. PassFits(algorithm, kind, n, row, up, its, before)
      BY <2>1, <2>2, <2>3, <3>1 DEF PassFits
    <3>3. PassUndoes(algorithm, kind, n, row, up, its, before)
      BY <3>2, PassUndoesFitting
    <3> QED
      BY <3>3, Zenon DEF PassUndoes
  <2> QED
    BY <2>6, <2>7, <2>8, Zenon
<1>14. Len(rest[0]) \in Nat /\ Len(rest[0]) % (n + 1) = 0
  <2> DEFINE size == n + 1
             Rows(k) == k \in 0..N => Multiple(Len(rest[N - k]), size)
             P == {k \in Nat : Rows(k)}
  <2>1. 0 \in P
    <3>1. rest[N - 0] = <<>> /\ 0 = 0 * size
      BY <1>1, <1>8
    <3> QED
      BY <3>1 DEF Multiple
  <2>2. ASSUME NEW k \in Nat, k \in P PROVE k + 1 \in P
    <3> SUFFICES ASSUME k + 1 \in 0..N PROVE Multiple(Len(rest[N - (k + 1)]), size)
      <4> HIDE DEF Rows
      <4>1. Rows(k + 1) => k + 1 \in P
        OBVIOUS
      <4> QED
        BY <4>1 DEF Rows
    <3>1. PICK r \in 1..N : r = N - k /\ k \in 0..N /\ r - 1 = N - (k + 1)
      BY <1>1
    <3>2. Multiple(Len(rest[r]), size)
      BY <2>2, <3>1
    <3>3. Len(rest[r]) \in Nat /\ size \in Nat
      BY BytesAreNumbers
    <3>4. Len(rest[r - 1]) = size + Len(rest[r])
      BY <1>12
    <3> HIDE DEF size
    <3>5. Multiple(Len(rest[r - 1]), size)
      BY <3>2, <3>3, <3>4, OneRowMore
    <3> QED
      BY <3>1, <3>5
  <2> HIDE DEF P
  <2>3. N \in P
    BY <1>1, <2>1, <2>2, NatInduct
  <2>4. N \in 0..N /\ N - N = 0 /\ 0 \in 0..N
    BY <1>1
  <2>5. Multiple(Len(rest[0]), size)
    BY <2>3, <2>4 DEF P
  <2>6. Len(rest[0]) \in Nat
    BY <2>4, BytesAreNumbers
  <2>7. size \in Nat /\ size > 0
    OBVIOUS
  <2> HIDE DEF size
  <2>8. Len(rest[0]) % size = 0
    BY <2>5, <2>6, <2>7, NoRemainder
  <2> QED
    BY <2>6, <2>8 DEF size
<1>15. RowsOf(n, FlattenSeq(seqs)) = Ok(After(0))
  <2> DEFINE bytes == rest[0]
             first == LoopState(n, bytes, [i \in 1..n |-> 0], <<>>)
  <2>1. FlattenSeq(seqs) = bytes /\ Len(bytes) % (n + 1) = 0
    BY <1>8, <1>14
  <2>2. After(0) = first
    BY <1>11 DEF AfterRow, AboveOf, Zeros
  <2>3. n # MaxSize /\ ~(n > Room)
    BY SizesAssumption
  <2> HIDE DEF bytes, After, first
  <2>4. RowsOf(n, bytes) = Ok(first)
    BY <2>1, <2>3, Zenon DEF RowsOf, first, LoopState
  <2> QED
    BY <2>1, <2>2, <2>4
<1>16. \A r \in 0..N : states[r] = After(r)
  OBVIOUS
<1>17. 0 \in 0..N /\ N \in 0..N /\ \A r \in 1..N : r \in 0..N
  BY <1>1
<1>18. After(N).left = <<>> /\ After(N).out = FlattenSeq(raw)
  BY <1>8, <1>11 DEF AfterRow, LoopState
<1>19. \A r \in 1..N : After(r - 1).left # <<>>
  BY <1>12 DEF AfterRow, LoopState
<1> HIDE DEF After, states
<1>20. \A r \in 1..N : states[r - 1].left # <<>> /\ NextRow(states[r - 1]) = Ok(states[r])
  BY <1>4, <1>13, <1>16, <1>17, <1>19
<1>21. RowsOf(n, FlattenSeq(seqs)) = Ok(states[0])
  BY <1>15, <1>16, <1>17
<1>22. states[N].left = <<>> /\ states[N].out = FlattenSeq(raw)
  BY <1>16, <1>17, <1>18
<1> QED
  BY <1>20, <1>21, <1>22, Zenon DEF seqs, N

=============================================================================
