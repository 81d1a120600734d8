-------------------------- MODULE StreamEncodings --------------------------
(***************************************************************************)
(* What a writer of streams makes of bytes: hexadecimal digits, and rows   *)
(* as the PNG standard predicts them.  StreamFilters undoes both.          *)
(***************************************************************************)
EXTENDS StreamFilters

\* The predictor bytes of an encoder.
RowKinds == 0..4 \cup 10..12

HexDigit(n) == IF n < 10 THEN 48 + n ELSE 87 + n

\* Two digits for each byte.
HexOf(bytes) ==
    [i \in 1..(2 * Len(bytes)) |->
        HexDigit(IF i % 2 = 1 THEN bytes[(i + 1) \div 2] \div 16 ELSE bytes[i \div 2] % 16)]

\* The prediction of the PNG standard: of the neighbours left, above and above to the left
\* the first one that is nearest to a + b - c.
Nearest(a, b, c) ==
    LET near  == Min({Distance(a + b - c, x) : x \in {a, b, c}})
        place == Min({i \in 1..3 : Distance(a + b - c, <<a, b, c>>[i]) = near})
    IN  <<a, b, c>>[place]

Predicted(algorithm, a, b, c) == <<0, a, b, (a + b) \div 2, Nearest(a, b, c)>>[algorithm + 1]

\* There are zeros around the rows.
LeftOf(row, i) == IF i = 1 THEN 0 ELSE row[i - 1]

\* The bytes of a row less their prediction.
EncodedRow(algorithm, row, above) ==
    [i \in 1..Len(row) |->
        (row[i] + 256 - Predicted(algorithm, LeftOf(row, i), above[i], LeftOf(above, i))) % 256]

Zeros(n) == [i \in 1..n |-> 0]

\* Each row under the one before it, with its predictor byte in front.
EncodedRows(rows, n, kinds) ==
    [r \in DOMAIN rows |->
        <<kinds[r]>> \o EncodedRow(kinds[r] % 10, rows[r], IF r = 1 THEN Zeros(n) ELSE rows[r - 1])]

RowsIn(bytes, n) == [r \in 1..(Len(bytes) \div n) |-> SubSeq(bytes, n * (r - 1) + 1, n * r)]

PngRows(bytes, n, kinds) == FlattenSeq(EncodedRows(RowsIn(bytes, n), n, kinds))
=============================================================================
