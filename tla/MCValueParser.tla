--------------------------- MODULE MCValueParser ---------------------------
(***************************************************************************)
(* Texts for ValueParser: every sequence of up to three bytes, one byte    *)
(* for each that the code tells apart; every run of up to three numbers,   *)
(* signs of a reference and things in between, on its own and inside       *)
(* brackets; and texts written for the cases that need more bytes.         *)
(***************************************************************************)
EXTENDS ValueParser, Characters

\* The last but one is a byte that is no UTF-8, the last a form feed.
Alphabet == {Ascii("/()<>[]%+-.1R0Ant\\ \n")[i] : i \in 1..19} \cup {200, 12}

ShortTexts == UNION {[1..n -> Alphabet] : n \in 0..3}

Parts == {Ascii(s) : s \in {"1 ", "12 ", "0", "R", " ", "%\n", "-5 ", ".5 ", "/K "}}

Runs == {FlattenSeq(s) : s \in UNION {[1..n -> Parts] : n \in 0..3}}

Brackets == {<<Ascii("["), Ascii("]")>>, <<Ascii("<</K "), Ascii(">>")>>}

BracketedRuns == {b[1] \o r \o b[2] : b \in Brackets, r \in Runs}

WrittenTexts ==
    {"1 2 3 4 5 6", "[1 2 3 4 5 6]", "1 2 3 R", "[1 0 R 2 0 R 3 4 0 R]", "1 2 3 4 R", "12 0 Rx",
     "3.12 0 R", "1.2.3 0 R", "4 5 [6 0 R]", "[0 612 792 (x) 4 0 R]", "1 0 %c\nR", "1 %c\n0 R",
     "null", "true", "false", "nul", "[null true false nullx]", "%c\n% d\n [ %e\n] ", "%only",
     "<</A 1/B[2 0 R]/A 3>>", "<</A<</B 1 0 R>>/C<41 4>>>", "<</A 1 0>>", "<</A 1 2/B 3>>", "<<1 2>>",
     "<</A>>", "<</A 1", "[[1 0 R][2 3]", "[1 2 >>", "[1 2 (]", "<4 1\n4>", "<4G>", "<41",
     "(a(b)c)", "(a\\)b)", "(a\\\\)b)", "((\\()", "(\\n\\r\\t\\b\\f\\(\\\\\\x)", "(ab", "(a\\",
     "/A#B/C", "/", "/ 1", "[/A/B 1 0 R/C]", "+1 0 R", "-1 0 R", "1 -0 R", "1 +0 R", "1.9 0.9 R",
     "16777215 0 R", "16777216 65535 R", "16777217 0 R", "16777219 0 R", "8388607.9 0 R",
     "16777215.5 0 R", "8388608.5 0 R", "50000000 0 R", "1 70000 R", "[16777217 65537 R 5 0 R]",
     "0016 00 R", "0.99999999 0 R", "0.9999999 0 R", "[1 0 R", "1 0 R 2"}

MCTexts == ShortTexts \cup Runs \cup BracketedRuns \cup {Ascii(s) : s \in WrittenTexts}
=============================================================================
