--------------------------- MODULE StreamFilters ---------------------------
(***************************************************************************)
(* handle_stream_filters of stream.rs: the filters of a stream dictionary, *)
(* what each of them makes of the data, and the rows of the PNG            *)
(* predictors.  The inflate library is abstract: compressed data are the   *)
(* data behind a mark.                                                     *)
(***************************************************************************)
EXTENDS PdfSyntax, PdfObjects, Results

CONSTANTS
    MaxSize,    \* The largest usize
    Room        \* The bytes that one allocation can get

ASSUME SizesAssumption == MaxSize \in Nat /\ Room \in 0..(MaxSize - 1)

-----------------------------------------------------------------------------
(***************************************************************************)
(* The chain of a dictionary: a sequence of filters and parameters.        *)
(***************************************************************************)

Filter(name) == [step |-> "filter", name |-> name]
Parms(parms) == [step |-> "parms", parms |-> parms]

ParmsAt(parms, k) ==
    IF parms.kind = "Array" /\ k \in DOMAIN parms.items THEN <<Parms(parms.items[k])>> ELSE <<>>

\* A filter of an array that is no name is passed over, and its parameters with it;
\* parameters that are no array are those of a single filter only.
FilterSteps(dict) ==
    LET filter == Entry(Dictionary(dict), "Filter")
        parms == Entry(Dictionary(dict), "DecodeParms")
    IN  CASE "Filter" \notin DOMAIN dict -> Ok(<<>>)
          [] filter.kind = "Name" ->
                Ok(<<Filter(filter.name)>>
                     \o IF "DecodeParms" \in DOMAIN dict THEN <<Parms(parms)>> ELSE <<>>)
          [] filter.kind = "Array" ->
                Ok(FlattenSeq([k \in DOMAIN filter.items |->
                      IF filter.items[k].kind = "Name"
                      THEN <<Filter(filter.items[k].name)>> \o ParmsAt(parms, k) ELSE <<>>]))
          [] OTHER -> Err

-----------------------------------------------------------------------------
(***************************************************************************)
(* The filters                                                             *)
(***************************************************************************)

ZlibMark == 120

\* decompress_to_vec_zlib.
Inflated(bytes) == Check(Head(bytes) = ZlibMark, Tail(bytes))

\* filter(|&&b| !b.is_ascii_whitespace()).
Solid(bytes) == FlattenSeq([i \in DOMAIN bytes |-> IF bytes[i] \in White THEN <<>> ELSE <<bytes[i]>>])

\* The bytes before the first that is mark.
UpTo(bytes, mark) ==
    Text(bytes, 1, EndOfRun(bytes, 1, (0..255) \ {mark}))

\* Of the digits before the ">".
DecodeAsciiHex[digits \in Seq(Nat)] ==
    Check(\A i \in DOMAIN digits : digits[i] \in HexDigits, PackedHex(digits))

Tilde  == 126
Zero85 == 122
Digits85 == 33..117

\* A "z" stands for a whole group, and only between two groups: with a number of digits
\* before it that is a multiple of 5.
DigitsBefore(text, i) == Cardinality({j \in 1..(i - 1) : text[j] # Zero85})

IsAscii85(text) ==
    \A i \in DOMAIN text :
        text[i] \in Digits85 \/ (text[i] = Zero85 /\ DigitsBefore(text, i) % 5 = 0)

\* The values of the digits, those of a "z" among them.
Values85[text \in Seq(Nat)] ==
    FlattenSeq([i \in DOMAIN text |->
        IF text[i] = Zero85 THEN <<0, 0, 0, 0, 0>> ELSE <<text[i] - 33>>])

\* The digits that the last group lacks.
Lacking(values) == (5 - (Len(values) % 5)) % 5

\* Mutant: the last group is filled with zeros.
ZeroFilled(values) == values \o [k \in 1..Lacking(values) |-> 0]

\* The last group is filled with the highest digit.
Filled(values) == values \o [k \in 1..Lacking(values) |-> 84]

\* The four bytes of a group: its value modulo 2^32, as two words of 16 bits.
GroupBytes[d \in Seq(Nat)] ==
    LET low  == 33969 * d[1] + 24301 * d[2] + 7225 * d[3] + 85 * d[4] + d[5]
        high == 796 * d[1] + 9 * d[2] + low \div 65536
    IN  <<(high \div 256) % 256, high % 256, (low \div 256) % 256, low % 256>>

\* The group behind n groups.
GroupBehind(values, n) == SubSeq(Filled(values), 5 * n + 1, 5 * n + 5)

\* As many bytes of the last group are left out as digits were filled in.
Bytes85[values \in Seq(Nat)] ==
    [i \in 1..(4 * ((Len(values) + 4) \div 5) - Lacking(values)) |->
        GroupBytes[GroupBehind(values, (i - 1) \div 4)][1 + ((i - 1) % 4)]]

\* Of the text before the "~".
DecodeAscii85[text \in Seq(Nat)] == IF IsAscii85(text) THEN Ok(Bytes85[Values85[text]]) ELSE Err

ApplyFilter(name, bytes) ==
    CASE name = "FlateDecode"    -> IF bytes = <<>> THEN Err ELSE Inflated(bytes)
      [] name = "ASCIIHexDecode" -> DecodeAsciiHex[UpTo(Solid(bytes), Greater)]
      [] name = "ASCII85Decode"  -> DecodeAscii85[UpTo(Solid(bytes), Tilde)]
      [] OTHER                   -> Err

-----------------------------------------------------------------------------
(***************************************************************************)
(* The predictors                                                          *)
(***************************************************************************)

\* A value that is more than 1 as an i32.
PredictorOf(parms) ==
    LET predictor == Entry(parms, "Predictor") IN
    IF predictor.kind = "Number" /\ ~predictor.negative THEN predictor.whole ELSE 0

ColumnsOf(parms) == Saturated(Entry(parms, "Columns"), MaxSize)

\* The columns of the rows, if the parameters ask for a predictor: at most one.
PredictedColumns(parms) ==
    CASE parms.kind \notin {"Null", "Dictionary"} -> Err
      [] PredictorOf(parms) <= 1                  -> Ok({})
      [] PredictorOf(parms) > 15 \/ PredictorOf(parms) < 10 -> Err
      [] Entry(parms, "Columns").kind # "Number"  -> Err
      [] OTHER                                    -> Ok({ColumnsOf(parms)})

\* Mutant: the row is reserved before the size of the data is looked at.
RowsReservedFirst(columns, bytes) ==
    IF columns = MaxSize \/ columns > Room THEN Panic
    ELSE IF Len(bytes) % (columns + 1) # 0 THEN Err
    ELSE Ok([columns |-> columns, left |-> bytes, above |-> [i \in 1..columns |-> 0], out |-> <<>>])

\* apply_png_predictor before its first row: columns + 1 is 0 for the largest usize, and
\* a row of zeros is reserved whatever there is to decode.
RowsOf(columns, bytes) ==
    IF columns = MaxSize THEN Panic
    ELSE IF Len(bytes) % (columns + 1) # 0 THEN Err
    ELSE IF columns > Room THEN Panic
    ELSE Ok([columns |-> columns, left |-> bytes, above |-> [i \in 1..columns |-> 0], out |-> <<>>])

\* The predictor byte of a row names one of five algorithms; from 10 on one of three.
Algorithms(byte) ==
    {a \in {byte} : byte \in 0..4} \cup {a \in {byte - 10} : byte \in 10..12}

Distance(a, b) == IF a < b THEN b - a ELSE a - b

\* paeth_predictor: the neighbour nearest to a + b - c.
Paeth(a, b, c) ==
    LET p == a + b - c IN
    IF Distance(p, a) <= Distance(p, b) /\ Distance(p, a) <= Distance(p, c) THEN a
    ELSE IF Distance(p, b) <= Distance(p, c) THEN b ELSE c

\* What is added to a byte, from the bytes to its left, above it, and above to its left.
Prediction(algorithm, a, b, c) ==
    CASE algorithm = 0 -> 0
      [] algorithm = 1 -> a
      [] algorithm = 2 -> b
      [] algorithm = 3 -> (a + b) \div 2
      [] algorithm = 4 -> Paeth(a, b, c)

\* A row of bytes under the row above.
DecodedRow(algorithm, row, above) ==
    LET decoded[i \in 0..Len(row)] ==
            IF i = 0 THEN 0
            ELSE (row[i] + Prediction(algorithm, decoded[i - 1], above[i],
                                      IF i = 1 THEN 0 ELSE above[i - 1])) % 256
    IN  [i \in 1..Len(row) |-> decoded[i]]

\* One pass of the loop over rows: algorithm 1 takes the first byte of the row without
\* asking whether there is one.
NextRow(rows) ==
    LET byte    == Head(rows.left)
        row     == SubSeq(rows.left, 2, rows.columns + 1)
        decoded == DecodedRow(CHOOSE a \in Algorithms(byte) : TRUE, row, rows.above)
    IN  IF Algorithms(byte) = {} THEN Err
        ELSE IF Algorithms(byte) = {1} /\ rows.columns = 0 THEN Panic
        ELSE Ok([columns |-> rows.columns, left |-> SubSeq(rows.left, rows.columns + 2, Len(rows.left)),
                 above |-> decoded, out |-> rows.out \o decoded])
=============================================================================
