---------------------------- MODULE CharacterMap ----------------------------
(***************************************************************************)
(* The lines of a CMap, as parse_cmap of font.rs reads them: where its     *)
(* sections begin and end, and what a line of a section says.  A text is a *)
(* sequence of Unicode code points; a map has a text for each code.        *)
(***************************************************************************)
EXTENDS PdfSyntax, Characters

CONSTANTS
    CodeDigits,     \* The hexadecimal digits of a u32
    MaxRange        \* The codes of one range that the heap has room for

ASSUME CodesAssumption == CodeDigits \in Nat /\ MaxRange \in Nat \ {0}

Replacement == 65533
Question    == 63

LineFeed == 10

\* What trim takes away: white space and the vertical tab.
Blank == White \cup {11}

-----------------------------------------------------------------------------
(***************************************************************************)
(* Texts                                                                   *)
(***************************************************************************)

TrimmedStart[text \in Seq(Nat), class \in SUBSET Nat] ==
    Text(text, EndOfRun(text, 1, class), Len(text) + 1)

TrimmedEnd[text \in Seq(Nat), class \in SUBSET Nat] ==
    Text(text, 1, 1 + Max({i \in DOMAIN text : text[i] \notin class} \cup {0}))

Trimmed(text, class) == TrimmedEnd[TrimmedStart[text, class], class]

EndsWith(text, word) == IsSuffix(word, text)

WordStarts(text) ==
    SelectSeq([i \in DOMAIN text |-> i],
              LAMBDA i : text[i] \notin White /\ (i = 1 \/ text[i - 1] \in White))

\* split_ascii_whitespace.
Words[text \in Seq(Nat)] ==
    LET starts == WordStarts(text)
    IN  [k \in DOMAIN starts |-> Text(text, starts[k], EndOfRun(text, starts[k], (0..127) \ White))]

-----------------------------------------------------------------------------
(***************************************************************************)
(* Numbers and texts in hexadecimal digits: sets of at most one.           *)
(***************************************************************************)

\* A "+" may stand before the digits.
DigitsIn(word) == IF At(word, 1) = Plus THEN Tail(word) ELSE word

HexNumber(digits) == FoldLeft(LAMBDA n, b : 16 * n + HexValue(b), 0, digits)

\* from_str_radix, for digits that count up to width without the zeros in front.
FromHex[word \in Seq(Nat), width \in Nat] ==
    {HexNumber(digits) :
        digits \in {d \in {DigitsIn(word)} : /\ d # <<>>
                                             /\ \A i \in DOMAIN d : d[i] \in HexDigits
                                             /\ Len(TrimmedStart[d, {48}]) <= width}}

Unbracketed(word) == TrimmedEnd[TrimmedStart[word, {Less}], {Greater}]

High == 55296..56319
Low  == 56320..57343

\* The characters of UTF-16 units; half a pair is no character.
TextOfUnits(units) ==
    FlattenSeq([k \in DOMAIN units |->
        IF units[k] \in High /\ k < Len(units) /\ units[k + 1] \in Low
        THEN <<65536 + 1024 * (units[k] - 55296) + units[k + 1] - 56320>>
        ELSE IF units[k] \in Low /\ k > 1 /\ units[k - 1] \in High THEN <<>>
        ELSE IF units[k] \in High \cup Low THEN <<Replacement>> ELSE <<units[k]>>])

\* Units of four digits.
UnitsOf[word \in Seq(Nat)] ==
    [k \in 1..(Len(word) \div 4) |-> FromHex[SubSeq(word, 4 * k - 3, 4 * k), 4]]

\* parse_hex_string between the brackets.
HexText[word \in Seq(Nat)] ==
    {TextOfUnits([k \in DOMAIN units |-> CHOOSE u \in units[k] : TRUE]) :
        units \in {u \in {UnitsOf[word]} : Len(word) % 4 = 0 /\ \A k \in DOMAIN u : u[k] # {}}}

-----------------------------------------------------------------------------
(***************************************************************************)
(* Sections and their lines                                                *)
(***************************************************************************)

Sections == {"bfchar", "bfrange"}

BeginMark == [s \in Sections |-> Ascii("begin") \o Ascii(s)]
EndMark   == [s \in Sections |-> Ascii("end") \o Ascii(s)]

\* The section that a line outside of sections begins.
Begins(line) == {s \in Sections : EndsWith(Trimmed(line, Blank), BeginMark[s])}

Ends(section, line) == EndsWith(TrimmedEnd[line, Blank], EndMark[section])

\* What a line says: the texts of the codes from first to last.
CodeRange(first, last, text) == [first |-> first, last |-> last, text |-> text]

\* The code that a word writes: a set of at most one.
CodeIn(word) == FromHex[word, CodeDigits]

\* <code> <text>
CharEntries(words) ==
    {CodeRange(code, code, text) :
        code \in CodeIn(Unbracketed(words[1])), text \in HexText[Unbracketed(words[2])]}

Inner(word) == Trimmed(word, {Less, Greater})

\* <first> <last> <text>; an array in place of the text is not read.
RangeEntries(words) ==
    {CodeRange(first, last, text) :
        first \in CodeIn(Inner(words[1])), last \in CodeIn(Inner(words[2])),
        text \in IF Head(words[3]) = LeftBracket THEN {} ELSE HexText[Inner(words[3])]}

\* What a line of a section says: at most one thing.
EntriesOf(section, line) ==
    LET words == Words[Trimmed(line, Blank)] IN
    CASE At(Trimmed(line, Blank), 1) # Less      -> {}
      [] section = "bfchar" /\ Len(words) >= 2   -> CharEntries(words)
      [] section = "bfrange" /\ Len(words) >= 3  -> RangeEntries(words)
      [] OTHER                                   -> {}

\* The heap has no room for the codes; it has for a single one.
IsTooWide(range) == range.last # range.first /\ range.last - range.first >= MaxRange

\* char::from_u32 of a number that has been counted up.
CharacterOf(u) == IF u > 1114111 \/ u \in High \cup Low THEN Question ELSE u

\* The text of the code that lies n behind the first: its last character counts up.
TextAfter(text, n) ==
    [i \in DOMAIN text |-> CharacterOf(IF i = Len(text) THEN text[i] + n ELSE text[i])]

\* Mutant: the text is the same for all codes.
SameTexts(range) == [code \in range.first..range.last |-> range.text]

TextsOf(range) ==
    [code \in range.first..range.last |-> TextAfter(range.text, code - range.first)]
=============================================================================
