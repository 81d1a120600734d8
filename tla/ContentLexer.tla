---------------------------- MODULE ContentLexer ----------------------------
(***************************************************************************)
(* TokenParser of token.rs: the lexer of content streams.  One step is one *)
(* pass of the loop of parse_all: white space is skipped, and the form     *)
(* that starts there gives a token or, where it is not well formed, none.  *)
(* What is no token is skipped and never reported, so that a step must     *)
(* consume bytes whatever it meets.                                        *)
(***************************************************************************)
EXTENDS PdfSyntax

VARIABLES
    content,    \* data: the bytes
    pos,        \* the next byte
    tokens      \* the tokens so far

lexVars == <<content, pos, tokens>>

NumberToken(number)   == [t |-> "num", number |-> number]
StringToken(bytes)    == [t |-> "str", bytes |-> bytes]
NameToken(bytes)      == [t |-> "name", name |-> bytes]
OperatorToken(bytes)  == [t |-> "op", op |-> bytes]
Mark(bytes)           == [t |-> "mark", bytes |-> bytes]

\* What a pass reads: its tokens, one at most, and the place behind it.
Lexeme(read, end) == [tokens |-> read, end |-> end]

\* A text that is no UTF-8 gives no token.
IfUtf8(text, token) == IF IsUtf8(text) THEN <<token>> ELSE <<>>

-----------------------------------------------------------------------------
(***************************************************************************)
(* The forms.  XAt is the lexeme that starts at p, alone in a set.         *)
(***************************************************************************)

NameAt(data, p) ==
    {Lexeme(IfUtf8(Text(data, p + 1, end), NameToken(Text(data, p + 1, end))), end) :
        end \in {EndOfName(data, p)}}

OctalDigits == 48..55

\* A backslash and an octal digit: up to two digits more belong to the escape.
StartsOctal(data, p, i) == data[i] \in OctalDigits /\ IsEscaped(data, p, i)

ContinuesOctal(data, p, i) ==
    \E s \in {i - 1, i - 2} :
        s > p /\ StartsOctal(data, p, s) /\ \A j \in s..i : data[j] \in OctalDigits

OctalValue(digits) == FoldLeft(LAMBDA n, b : 8 * n + b - 48, 0, digits)

OctalByte(data, i) ==
    Min({255, OctalValue(Text(data, i, Min({i + 3, EndOfRun(data, i, OctalDigits)})))})

ByteAt(data, p, i) ==
    IF ~IsEscaped(data, p, i) THEN data[i]
    ELSE IF data[i] \in OctalDigits THEN OctalByte(data, i) ELSE EscapedByte(data[i])

StringBytes(data, p, end) ==
    LET places == SelectSeq(StringPlaces(data, p, end), LAMBDA i : ~ContinuesOctal(data, p, i))
    IN  [k \in DOMAIN places |-> ByteAt(data, p, places[k])]

\* A string that is never closed takes all that is left and gives no token.
StringAt(data, p) ==
    IF StringEnds(data, p) = {} THEN {Lexeme(<<>>, Len(data) + 1)}
    ELSE {Lexeme(<<StringToken(StringBytes(data, p, end))>>, end + 1) :
             end \in {Min(StringEnds(data, p))}}

\* The end of the data closes it too; any other byte stops the lexer there.
HexStringAt(data, p) ==
    {IF At(data, end) \in {Greater, NoByte}
     THEN Lexeme(<<StringToken(HexStringBytes(data, p, end))>>, Min({end + 1, Len(data) + 1}))
     ELSE Lexeme(<<>>, end) : end \in {EndOfHexString(data, p)}}

NumberAt(data, p) ==
    {Lexeme(IF IsNumber(data, p, end) THEN <<NumberToken(NumberFrom(Text(data, p, end)))>>
            ELSE <<>>, end) : end \in {EndOfNumber(data, p)}}

EndOfOperator(data, p) ==
    Min({q \in p..Len(data) : data[q] \in White \cup Delimiters} \cup {Len(data) + 1})

\* Mutant: an unknown character is not skipped.
OperatorInPlace(data, p) ==
    {Lexeme(IF end = p THEN <<>> ELSE <<OperatorToken(Text(data, p, end))>>, end) :
        end \in {EndOfOperator(data, p)}}

\* A delimiter that starts no other form is skipped on its own.
OperatorAt(data, p) ==
    {IF end = p THEN Lexeme(<<>>, p + 1)
     ELSE Lexeme(IfUtf8(Text(data, p, end), OperatorToken(Text(data, p, end))), end) :
        end \in {EndOfOperator(data, p)}}

-----------------------------------------------------------------------------

\* The place behind the white space, unless the data end there.
Here == {p \in {SkipWhitespace(content, pos)} : p <= Len(content)}

Take(lexemes) ==
    \E lexeme \in lexemes :
        /\ tokens' = tokens \o lexeme.tokens
        /\ pos' = lexeme.end
        /\ UNCHANGED content

\* parse_all: nothing but white space is left.
EndOfContent ==
    /\ pos <= Len(content)
    /\ SkipWhitespace(content, pos) > Len(content)
    /\ pos' = Len(content) + 1
    /\ UNCHANGED <<content, tokens>>

ReadName == \E p \in Here : content[p] = Slash /\ Take(NameAt(content, p))

ReadString == \E p \in Here : content[p] = LeftParen /\ Take(StringAt(content, p))

ReadEmptyString ==
    \E p \in Here :
        /\ content[p] = Less /\ At(content, p + 1) = Greater
        /\ Take({Lexeme(<<StringToken(<<>>)>>, p + 2)})

ReadHexString ==
    \E p \in Here :
        /\ content[p] = Less /\ At(content, p + 1) \notin {Less, Greater}
        /\ Take(HexStringAt(content, p))

\* "<<" and ">>".
ReadDoubleMark ==
    \E p \in Here :
        /\ content[p] \in {Less, Greater} /\ At(content, p + 1) = content[p]
        /\ Take({Lexeme(<<Mark(<<content[p], content[p]>>)>>, p + 2)})

ReadBracket ==
    \E p \in Here :
        /\ content[p] \in {LeftBracket, RightBracket}
        /\ Take({Lexeme(<<Mark(<<content[p]>>)>>, p + 1)})

ReadNumber == \E p \in Here : content[p] \in NumberStart /\ Take(NumberAt(content, p))

\* What no other branch of parse_token takes.
StartsOperator(data, p) ==
    /\ data[p] \notin {Slash, LeftParen, Less, LeftBracket, RightBracket} \cup NumberStart
    /\ ~(data[p] = Greater /\ At(data, p + 1) = Greater)

ReadOperator == \E p \in Here : StartsOperator(content, p) /\ Take(OperatorAt(content, p))

ReadToken ==
    \/ EndOfContent \/ ReadName \/ ReadString \/ ReadEmptyString \/ ReadHexString
    \/ ReadDoubleMark \/ ReadBracket \/ ReadNumber \/ ReadOperator

\* TokenParser::new on any bytes.
LexInit == content \in Seq(0..255) /\ pos = 1 /\ tokens = <<>>

LexSpec == LexInit /\ [][ReadToken]_lexVars
=============================================================================
