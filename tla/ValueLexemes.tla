---------------------------- MODULE ValueLexemes ----------------------------
(***************************************************************************)
(* The parts of a value that Parser of parser.rs reads in one go.  XAt is  *)
(* what can be read at a place: a set of at most one reading, the value    *)
(* and the place behind it; it is empty where the code returns an error.   *)
(***************************************************************************)
EXTENDS PdfSyntax, PdfObjects

Boolean(b)    == [kind |-> "Boolean", value |-> b]
String(bytes) == [kind |-> "String", bytes |-> bytes]

Reading(value, end) == [value |-> value, end |-> end]

\* Place q belongs to a comment that starts at p or behind it.
InComment(data, p, q) ==
    \E c \in p..q : data[c] = Percent /\ \A i \in c..(q - 1) : data[i] \notin LineEnds

SkipWhitespaceAndComments(data, p) ==
    Min({q \in p..Len(data) : data[q] \notin White /\ ~InComment(data, p, q)}
            \cup {Len(data) + 1})

Keywords ==
    {[text |-> <<110, 117, 108, 108>>, value |-> Null],
     [text |-> <<116, 114, 117, 101>>, value |-> Boolean(TRUE)],
     [text |-> <<102, 97, 108, 115, 101>>, value |-> Boolean(FALSE)]}

KeywordAt(data, p) ==
    {Reading(k.value, p + Len(k.text)) :
        k \in {w \in Keywords : /\ p + Len(w.text) <= Len(data) + 1
                                /\ Text(data, p, p + Len(w.text)) = w.text}}

NameAt(data, p) ==
    {Reading(Name(Text(data, p + 1, end)), end) :
        end \in {e \in {EndOfName(data, p)} :
                    At(data, p) = Slash /\ IsUtf8(Text(data, p + 1, e))}}

\* This reader has no octal escapes.
StringBytes(data, p, end) ==
    LET places == StringPlaces(data, p, end)
    IN  [k \in DOMAIN places |-> IF IsEscaped(data, p, places[k])
                                 THEN EscapedByte(data[places[k]]) ELSE data[places[k]]]

StringAt(data, p) ==
    IF At(data, p) = LeftParen
    THEN {Reading(String(StringBytes(data, p, end)), end + 1) :
             end \in {e \in StringEnds(data, p) : \A f \in StringEnds(data, p) : e <= f}}
    ELSE {}

HexStringAt(data, p) ==
    {Reading(String(HexStringBytes(data, p, end)), end + 1) :
        end \in {e \in {EndOfHexString(data, p)} :
                    At(data, p) = Less /\ At(data, p + 1) # Less /\ At(data, e) = Greater}}

NumberAt(data, p) ==
    {Reading(NumberFrom(Text(data, p, end)), end) :
        end \in {e \in {EndOfNumber(data, p)} :
                    At(data, p) \in NumberStart /\ IsNumber(data, p, e)}}

StartsArray(data, p)      == At(data, p) = LeftBracket
StartsDictionary(data, p) == At(data, p) = Less /\ At(data, p + 1) = Less
EndsArray(data, p)        == At(data, p) = RightBracket
EndsDictionary(data, p)   == At(data, p) = Greater /\ At(data, p + 1) = Greater

\* parse_object knows what starts at p.
StartsObject(data, p) ==
    \/ StartsArray(data, p) \/ StartsDictionary(data, p)
    \/ UNION {KeywordAt(data, p), NameAt(data, p), StringAt(data, p), HexStringAt(data, p),
              NumberAt(data, p)} # {}
=============================================================================
