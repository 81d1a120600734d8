----------------------------- MODULE SignedFile -----------------------------
(***************************************************************************)
(* signed_bytes_extractor.rs: where a PDF holds its signature, and which   *)
(* of its bytes the signature covers.  A file is a sequence of cells, one  *)
(* for each position: a keyword, a bracket, a number, the hexadecimal      *)
(* digits of a DER value, one such digit, white space, or other text.      *)
(* Offsets count from 0, as the code does.                                 *)
(***************************************************************************)
EXTENDS Pkcs7


CONSTANTS
    WordSize,   \* the number of values of usize
    Window      \* how far before /ByteRange the search for /Contents begins

ASSUME WordAssumption == WordSize \in Nat \ {0} /\ Window \in Nat

ByteRangeWord == [c |-> "/ByteRange"]
ContentsWord  == [c |-> "/Contents"]
ArrayOpen     == [c |-> "["]
ArrayClose    == [c |-> "]"]
HexOpen       == [c |-> "<"]
HexClose      == [c |-> ">"]
Blank         == [c |-> "blank"]
Text(t)       == [c |-> "text", text |-> t]
NumberCell(n) == [c |-> "number", value |-> n]
HexOf(der)    == [c |-> "hex", der |-> der]
HexDigit      == [c |-> "digit"]

\* find_pattern_internal and find_byte_internal: the first such cell from offset start on.
Found(file, cell, start) ==
    LET places == {o \in start..(Len(file) - 1) : file[o + 1] = cell} IN
    Check(places # {}, Min(places))

\* Mutant: a slice whose end is before its start is empty.
EmptySlice(file, from, to) == Ok(SubSeq(file, from + 1, to))

\* The cells from one offset up to another: a slice whose end is before its start panics.
Slice(file, from, to) == IF from <= to THEN Ok(SubSeq(file, from + 1, to)) ELSE Panic

WithoutBlanks(cells) == SelectSeq(cells, LAMBDA cell : cell # Blank)

\* The values of usize.
Words == 0..(WordSize - 1)

\* struct ByteRange.
Ranges == [offset1 : Words, length1 : Words, offset2 : Words, length2 : Words]

\* The four numbers, each of which fits a word.
RangeOf(cells) ==
    Check(/\ Len(cells) = 4
          /\ \A k \in 1..4 : cells[k].c = "number" /\ cells[k].value \in Words,
          [offset1 |-> cells[1].value, length1 |-> cells[2].value,
           offset2 |-> cells[3].value, length2 |-> cells[4].value])

\* extract_byte_range: the first one in the file.
ByteRange(file) ==
    Then(Found(file, ByteRangeWord, 0), LAMBDA word :
    Then(Found(file, ArrayOpen, word + 1), LAMBDA open :
    Then(Found(file, ArrayClose, open), LAMBDA close :
    Then(Slice(file, open + 1, close), LAMBDA cells : RangeOf(WithoutBlanks(cells))))))

\* offset + length in the width of a word.
End(offset, length) == (offset + length) % WordSize

Segment(file, offset, length) ==
    IF End(offset, length) > Len(file) THEN Err ELSE Slice(file, offset, End(offset, length))

\* extract_signed_data.
SignedData(file, range) ==
    Then(Segment(file, range.offset1, range.length1), LAMBDA first :
    Then(Segment(file, range.offset2, range.length2), LAMBDA second : Ok(first \o second)))

\* The offset of the /Contents whose digits are read.
ContentsPlace(file) ==
    Then(Found(file, ByteRangeWord, 0), LAMBDA word :
        Found(file, ContentsWord, IF word > Window THEN word - Window ELSE 0))

\* The offset of the "<" in front of them.
DigitsPlace(file) ==
    Then(ContentsPlace(file), LAMBDA contents : Found(file, HexOpen, contents + 1))

\* hex_to_bytes_internal: there are digits only, but for white space around them.  The
\* digits of a DER value come with the zeros that fill up their place; a single digit more
\* makes their number odd, and the 0 put in front shifts them all by half a byte, so that
\* the bytes do not parse.  No digits are no bytes, which are no blocks.
Decoded(cells) ==
    LET digits == {k \in DOMAIN cells : cells[k] # Blank}
    IN  Check(/\ \A k \in digits : cells[k].c \in {"hex", "digit"}
              /\ \A i, j \in digits : i..j \subseteq digits,
              IF digits = {} THEN Der(<<>>)
              ELSE IF \E k \in digits : digits = {k} /\ cells[k].c = "hex"
              THEN cells[CHOOSE k \in digits : TRUE].der
              ELSE NoDer)

\* extract_signature_hex: the range leaves a gap, but it is not looked for there.
SignatureDer(file, range) ==
    LET start == End(range.offset1, range.length1) IN
    IF start >= range.offset2 \/ range.offset2 > Len(file) THEN Err
    ELSE Then(DigitsPlace(file), LAMBDA open :
         Then(Found(file, HexClose, open + 1), LAMBDA close :
         Then(Slice(file, open + 1, close), Decoded)))
=============================================================================
