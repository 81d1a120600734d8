----------------------------- MODULE PdfSyntax -----------------------------
(***************************************************************************)
(* The bytes of a PDF and the forms that both readers of bytes know: the   *)
(* parser of values (parser.rs) and the lexer of content streams           *)
(* (token.rs).  A byte is a number; the first byte is at place 1.  A byte  *)
(* above 127 stands for bytes that are no UTF-8.                           *)
(***************************************************************************)
EXTENDS Integers, Sequences, FiniteSets, FiniteSetsExt, SequencesExt

White      == {9, 10, 12, 13, 32}
LineEnds   == {10, 13}
Percent    == 37
LeftParen  == 40
RightParen == 41
Plus       == 43
Minus      == 45
Dot        == 46
Slash      == 47
Less       == 60
Greater    == 62
LeftBracket  == 91
Backslash    == 92
RightBracket == 93
Delimiters == {LeftParen, RightParen, Less, Greater, LeftBracket, RightBracket, 123, 125,
               Slash, Percent}

Digits    == 48..57
HexDigits == Digits \cup 65..70 \cup 97..102

HexValue(b) == IF b \in Digits THEN b - 48 ELSE IF b < 97 THEN b - 55 ELSE b - 87

\* peek: no byte at the end.
NoByte == -1
At(data, p) == IF p \in 1..Len(data) THEN data[p] ELSE NoByte

\* The bytes from p up to and without q.
Text(data, p, q) == SubSeq(data, p, q - 1)

IsUtf8(bytes) == \A i \in DOMAIN bytes : bytes[i] < 128

\* Where a loop ends that advances while it sees a byte of class.
EndOfRun(data, p, class) ==
    Min({q \in p..Len(data) : data[q] \notin class} \cup {Len(data) + 1})

SkipWhitespace(data, p) == EndOfRun(data, p, White)

\* The name behind the "/" at p ends before white space or a delimiter.
EndOfName(data, p) ==
    Min({q \in (p + 1)..Len(data) : data[q] \in White \cup Delimiters} \cup {Len(data) + 1})

-----------------------------------------------------------------------------
(***************************************************************************)
(* Strings.  The "(" is at p.                                              *)
(***************************************************************************)

\* An odd number of backslashes stands before place i.
IsEscaped(data, p, i) ==
    (i - 1 - Max({j \in p..(i - 1) : data[j] # Backslash})) % 2 = 1

Unescaped(data, p, i, b) == data[i] = b /\ ~IsEscaped(data, p, i)

\* paren_depth behind place i.
ParenDepth(data, p, i) ==
    1 + Cardinality({j \in (p + 1)..i : Unescaped(data, p, j, LeftParen)})
      - Cardinality({j \in (p + 1)..i : Unescaped(data, p, j, RightParen)})

\* Where the string could close; it closes at the first.
StringEnds(data, p) == {i \in (p + 1)..Len(data) : ParenDepth(data, p, i) = 0}

EscapedByte(b) ==
    CASE b = 110 -> 10 [] b = 114 -> 13 [] b = 116 -> 9 [] b = 98 -> 8 [] b = 102 -> 12
      [] OTHER -> b

\* The places between p and end that give a byte: all but the signs of an escape.
StringPlaces(data, p, end) ==
    SelectSeq([k \in 1..(end - p - 1) |-> p + k],
              LAMBDA i : ~Unescaped(data, p, i, Backslash))

-----------------------------------------------------------------------------
(***************************************************************************)
(* Hexadecimal digits                                                      *)
(***************************************************************************)

EndOfHexString(data, p) == EndOfRun(data, p + 1, White \cup HexDigits)

\* Two digits a byte, an odd one is followed by 0.
PackedHex(digits) ==
    [k \in 1..((Len(digits) + 1) \div 2) |->
        16 * HexValue(digits[2 * k - 1])
           + IF 2 * k <= Len(digits) THEN HexValue(digits[2 * k]) ELSE 0]

HexStringBytes(data, p, end) ==
    PackedHex(SelectSeq(Text(data, p + 1, end), LAMBDA b : b \in HexDigits))

-----------------------------------------------------------------------------
(***************************************************************************)
(* Numbers: a sign, digits and one point; they are read as an f32, whose   *)
(* significand has Mantissa bits.  What a number is used for is its whole  *)
(* part, so that is what is kept.                                          *)
(***************************************************************************)

CONSTANT Mantissa

ASSUME MantissaAssumption == Mantissa \in Nat \ {0}

NumberStart == Digits \cup {Minus, Plus, Dot}

PastSign(data, p) == IF At(data, p) \in {Minus, Plus} THEN p + 1 ELSE p

EndOfNumber(data, p) ==
    LET point == EndOfRun(data, PastSign(data, p), Digits)
    IN  IF At(data, point) = Dot THEN EndOfRun(data, point + 1, Digits) ELSE point

\* What parse::<f32>() accepts of that form: there is a digit.
IsNumber(data, p, end) == \E i \in p..(end - 1) : data[i] \in Digits

\* a / b to the nearest whole number, from the middle to the even one.
NearestEven(a, b) ==
    LET q == a \div b
        r == a % b
    IN  IF 2 * r > b \/ (2 * r = b /\ q % 2 = 1) THEN q + 1 ELSE q

\* Mutant: the leading bit is stored.
ExponentWithLeadingBit(whole) == 1 + CHOOSE e \in 0..30 : whole \div 2^e = 1

\* The exponent of a number that is 1 at least.
Exponent(whole) == CHOOSE e \in 0..30 : whole \div 2^e = 1

\* n / d with an exponent e, in steps of its last bit.
AtExponent(n, d, e) ==
    IF e < Mantissa
    THEN NearestEven(n * 2^(Mantissa - 1 - e), d) \div 2^(Mantissa - 1 - e)
    ELSE 2^(e - Mantissa + 1) * NearestEven(n, d * 2^(e - Mantissa + 1))

\* The last f32 below 1 is 2^-Mantissa away from it: from the middle on, a ratio below 1
\* is rounded up.
RoundsUpToOne(n, d) == d - n <= d \div 2^(Mantissa + 1)

\* The whole part of the f32 nearest to a ratio, the first number of it by the second.
WholePart[ratio \in Nat \X Nat] ==
    IF ratio[1] < ratio[2] THEN IF RoundsUpToOne(ratio[1], ratio[2]) THEN 1 ELSE 0
    ELSE AtExponent(ratio[1], ratio[2], Exponent(ratio[1] \div ratio[2]))

Decimal(digits) ==
    LET value[k \in 0..Len(digits)] ==
            IF k = 0 THEN 0 ELSE 10 * value[k - 1] + digits[k] - 48
    IN  value[Len(digits)]

DigitsOf(bytes) ==
    FlattenSeq([i \in DOMAIN bytes |-> IF bytes[i] \in Digits THEN <<bytes[i]>> ELSE <<>>])

\* The digits behind the point.
FractionOf(bytes) ==
    LET point == EndOfRun(bytes, 1, (0..127) \ {Dot}) IN Text(bytes, point + 1, Len(bytes) + 1)

Number(negative, whole) == [kind |-> "Number", negative |-> negative, whole |-> whole]

NumberFrom(bytes) ==
    Number(Head(bytes) = Minus,
           WholePart[<<Decimal(DigitsOf(bytes)), 10^Len(FractionOf(bytes))>>])

\* The operator "as" from f32 to an unsigned integer saturates.
Saturated(number, max) == IF number.negative THEN 0 ELSE Min({number.whole, max})
=============================================================================
