--------------------------- MODULE MCStreamReader ---------------------------
(***************************************************************************)
(* Sources for StreamReader: streams that are written from what they mean, *)
(* in many spellings, and streams that are put together without a meaning. *)
(* A source keeps what it was written from, which the reader never sees:   *)
(* the bytes of its streams, its tokens, its map - each a set of at most   *)
(* one.                                                                    *)
(***************************************************************************)
EXTENDS StreamReader, StreamEncodings

Plain(bytes) == [dict |-> EmptyMap, data |-> bytes]

SourceOf(use, streams, bytes, itsTokens, itsMap) ==
    [use |-> use, streams |-> streams, bytes |-> bytes, tokens |-> itsTokens, map |-> itsMap]

Unmeant(use, streams) == SourceOf(use, streams, {}, {}, {})

\* A value of a dictionary.
Count(n) == Number(FALSE, n)

-----------------------------------------------------------------------------
(***************************************************************************)
(* Encoded streams                                                         *)
(***************************************************************************)

\* A number of four digits to the base 256, divided by 85.
Divided(b) ==
    LET rest[i \in 0..4] == IF i = 0 THEN 0 ELSE (256 * rest[i - 1] + b[i]) % 85
    IN  [quotient |-> [i \in 1..4 |-> (256 * rest[i - 1] + b[i]) \div 85], rest |-> rest[4]]

RECURSIVE Base85(_, _)
Base85(b, n) == IF n = 0 THEN <<>> ELSE Append(Base85(Divided(b).quotient, n - 1), 33 + Divided(b).rest)

\* Groups of four bytes; n bytes are written in n + 1 digits.
RECURSIVE Ascii85Of(_)
Ascii85Of(bytes) ==
    LET n == Min({4, Len(bytes)})
        group == [i \in 1..4 |-> IF i <= n THEN bytes[i] ELSE 0]
    IN  IF bytes = <<>> THEN <<>>
        ELSE (IF n = 4 /\ group = <<0, 0, 0, 0>> THEN <<Zero85>> ELSE SubSeq(Base85(group, 5), 1, n + 1))
               \o Ascii85Of(SubSeq(bytes, n + 1, Len(bytes)))

\* A stage of a chain: a filter, and parameters that ask for rows of n, or do not.
Stage(name, parms, n, kinds) == [name |-> name, parms |-> parms, n |-> n, kinds |-> kinds]

NoParms == Null
Predict(predictor, n) == Dictionary([Predictor |-> Count(predictor), Columns |-> Count(n)])

Bare(name) == Stage(name, NoParms, 0, <<>>)

EncodedBy(stage, bytes) ==
    LET rowsOrBytes == IF stage.n = 0 THEN bytes ELSE PngRows(bytes, stage.n, stage.kinds) IN
    CASE stage.name = "FlateDecode"    -> <<ZlibMark>> \o rowsOrBytes
      [] stage.name = "ASCIIHexDecode" -> HexOf(rowsOrBytes) \o <<Greater, 65>>
      [] stage.name = "ASCII85Decode"  -> <<10>> \o Ascii85Of(rowsOrBytes) \o <<126, Greater>>

RECURSIVE EncodedByAll(_, _)
EncodedByAll(stages, bytes) ==
    IF stages = <<>> THEN bytes ELSE EncodedBy(Head(stages), EncodedByAll(Tail(stages), bytes))

InArrays(stages) ==
    [Filter |-> Array([k \in DOMAIN stages |-> Name(stages[k].name)]),
     DecodeParms |-> Array([k \in DOMAIN stages |-> stages[k].parms])]

Encoded(stages, bytes) == [dict |-> InArrays(stages), data |-> EncodedByAll(stages, bytes)]

\* One stage in the form without arrays.
EncodedSingly(stage, bytes) ==
    [dict |-> [Filter |-> Name(stage.name), DecodeParms |-> stage.parms], data |-> EncodedBy(stage, bytes)]

FilterNames == {"FlateDecode", "ASCIIHexDecode", "ASCII85Decode"}

ShortBytes == UNION {[1..n -> {0, 65, 255}] : n \in 0..5}

\* Every chain of up to two filters.
FilteredStreams ==
    UNION {{<<Encoded(stages, bytes), bytes>> :
               stages \in UNION {[1..n -> {Bare(name) : name \in FilterNames}] : n \in 0..2}} :
           bytes \in {b \in ShortBytes : Len(b) \in {0, 1, 4, 5} => b \in Seq({0, 255})}}

\* Rows of one, two and four bytes under every algorithm.
PredictedStreams ==
    {<<EncodedSingly(Stage("FlateDecode", Predict(15, 2), 2, kinds), bytes), bytes>> :
        kinds \in [1..2 -> RowKinds],
        bytes \in {<<10, 250, 20, 5>>, <<255, 0, 128, 127>>, <<3, 9, 3, 12>>, <<200, 100, 50, 200>>}}
    \cup
    {<<Encoded(<<Bare(name), Stage("FlateDecode", Predict(10, n), n, [r \in 1..(4 \div n) |-> kind])>>, bytes), bytes>> :
        name \in FilterNames, n \in {1, 4}, kind \in RowKinds, bytes \in {<<10, 250, 20, 5>>, <<255, 0, 128, 127>>}}
    \cup
    {<<EncodedSingly(Stage(name, parms, 0, <<>>), bytes), bytes>> :
        name \in FilterNames, bytes \in {<<65, 66>>},
        parms \in {Null, Dictionary(EmptyMap), Predict(1, 2), Predict(0, 7),
                   Dictionary([Predictor |-> Number(TRUE, 12)])}}

EncodedSources ==
    {SourceOf("content", <<pair[1]>>, {<<pair[2]>>}, {}, {}) : pair \in FilteredStreams \cup PredictedStreams}

-----------------------------------------------------------------------------
(***************************************************************************)
(* Written tokens                                                          *)
(***************************************************************************)

Spelling(token, text) == [token |-> token, text |-> Ascii(text)]

Spellings ==
    {Spelling(NameToken(Ascii("F1")), "/F1"), Spelling(NameToken(<<>>), "/"), Spelling(NameToken(Ascii("A#B")), "/A#B")}
    \cup {Spelling(StringToken(<<65, 40, 66, 41>>), s) : s \in {"(A(B))", "(A\\(B\\))", "<41284229>", "<41 28\n42 29>"}}
    \cup {Spelling(StringToken(<<10, 49>>), s) : s \in {"(\\n1)", "(\\0121)", "(\\12\\61)", "<0A31>", "<0a31>"}}
    \cup {Spelling(StringToken(<<92, 41>>), s) : s \in {"(\\\\\\))", "(\\134\\51)"}}
    \cup {Spelling(StringToken(<<255, 7, 120>>), s) : s \in {"(\\377\\7x)", "(\\377\\007\\x)", "<FF0778>"}}
    \cup {Spelling(StringToken(<<80>>), s) : s \in {"(P)", "<5>", "<50>", "(\\120)"}}
    \cup {Spelling(StringToken(<<>>), s) : s \in {"()", "<>", "< >"}}
    \cup {Spelling(NumberToken(Number(FALSE, 12)), s) : s \in {"12", "+12.75", "012."}}
    \cup {Spelling(NumberToken(Number(TRUE, 250)), "-250"), Spelling(NumberToken(Number(FALSE, 0)), ".5")}
    \cup {Spelling(OperatorToken(Ascii(s)), s) : s \in {"Tj", "T*", "'", "\""}}
    \cup {Spelling(Mark(Ascii(s)), s) : s \in {"[", "]", "<<", ">>"}}

IsDelimited(byte) == byte \in Delimiters

\* Two tokens need nothing in between if one of them has a delimiter there.
Touch(first, second) ==
    \/ Last(first.text) \in Delimiters \ {Slash}
    \/ Head(second.text) \in Delimiters

Gaps == {<<>>, <<32>>, <<13, 10>>}

MayFollow(first, gap, second) == gap # <<>> \/ Touch(first, second)

OneStream(written, gaps) ==
    SourceOf("content",
             <<Plain(FlattenSeq([k \in DOMAIN written |-> gaps[k] \o written[k].text]))>>,
             {}, {[k \in DOMAIN written |-> written[k].token]}, {})

Pairs ==
    {OneStream(<<a, b>>, <<<<>>, gap>>) :
        <<a, gap, b>> \in {t \in Spellings \X Gaps \X Spellings : MayFollow(t[1], t[2], t[3])}}

FewSpellings ==
    {s \in Spellings : s.text \in {Ascii(t) : t \in {"/F1", "(\\12\\61)", "<5>", "12", "Tj", "[", "<<", ">>"}}}

Triples ==
    {OneStream(written, <<<<32>>, <<>>, <<>>>>) :
        written \in {w \in [1..3 -> FewSpellings] : Touch(w[1], w[2]) /\ Touch(w[2], w[3])}}

\* Two tokens on two streams of a page, an empty one before or between them, the last one
\* encoded.
OnStreams ==
    {SourceOf("content",
              IF empty = 0 THEN <<Plain(a.text), last>>
              ELSE IF empty = 1 THEN <<Plain(<<>>), Plain(a.text), last>>
              ELSE <<Plain(a.text), Plain(<<>>), last>>,
              {}, {<<a.token, b.token>>}, {}) :
        empty \in 0..2, a \in FewSpellings,
        <<b, last>> \in {<<s, Encoded(<<Bare(name)>>, s.text)>> : s \in FewSpellings, name \in FilterNames}}

TokenSources == Pairs \cup Triples \cup OnStreams

\* Any bytes.
Alphabet == {Ascii("/()<>[]%+.7A\\ ")[i] : i \in 1..14} \cup {200}

ByteSources == {Unmeant("content", <<Plain(bytes)>>) : bytes \in UNION {[1..n -> Alphabet] : n \in 0..3}}

-----------------------------------------------------------------------------
(***************************************************************************)
(* Written maps                                                            *)
(***************************************************************************)

\* A line of a section and what it means.
Says(s, first, last, meaning) == [section |-> s, line |-> Ascii(first), means |-> [c \in last |-> meaning[c]]]

CharLines ==
    {Says("bfchar", "<0041> <0048>", {65}, [c \in {65} |-> <<72>>]),
     Says("bfchar", "<42> <00480069>", {66}, [c \in {66} |-> <<72, 105>>]),
     Says("bfchar", " <0041>  <D83DDE00>", {65}, [c \in {65} |-> <<128512>>]),
     Says("bfchar", "<00000042> <D83D0041> x", {66}, [c \in {66} |-> <<Replacement, 65>>]),
     Says("bfchar", "<43> <>", {67}, [c \in {67} |-> <<>>])}

RangeLines ==
    {Says("bfrange", "<0041> <0043> <0061>", 65..67, [c \in 65..67 |-> <<c + 32>>]),
     Says("bfrange", "<42> <43> <00660069>", 66..67, [c \in 66..67 |-> <<102, c + 39>>]),
     Says("bfrange", "<43> <42> <0061>", {}, <<>>),
     Says("bfrange", "<0042> <0044> <D83DDE00>", 66..68, [c \in 66..68 |-> <<128512 + c - 66>>]),
     Says("bfrange", "<41> <42> <D7FF>", 65..66, [c \in 65..66 |-> IF c = 65 THEN <<55295>> ELSE <<Question>>])}

\* Lines without a meaning.
Noise(s) ==
    {[section |-> s, line |-> Ascii(text), means |-> <<>>] :
        text \in {"", "42 <0041>", "<0041>", "<4G> <0041> <0041>", "<0041> <004> <0041>", "<41> <42> [<0041> <0042>]"}}

Lines(s) == {line \in CharLines \cup RangeLines : line.section = s}

Break == <<13, 10>>

SectionText(s, lines) ==
    Ascii("2 ") \o BeginMark[s] \o Break
      \o FlattenSeq([k \in DOMAIN lines |-> lines[k].line \o Break]) \o EndMark[s] \o <<32, 10>>

RECURSIVE MeaningOf(_)
MeaningOf(lines) ==
    IF lines = <<>> THEN EmptyMap ELSE Overlay(MeaningOf(Front(lines)), Last(lines).means)

CMap(parts) ==
    LET lines == FlattenSeq([k \in DOMAIN parts |-> parts[k].lines])
        text == Ascii("/CIDInit begincmap\n")
                  \o FlattenSeq([k \in DOMAIN parts |-> SectionText(parts[k].section, parts[k].lines)])
                  \o Ascii("endcmap")
    IN  SourceOf("map", <<Encoded(<<Bare("FlateDecode")>>, text)>>, {<<text>>}, {}, {MeaningOf(lines)})

Part(s, lines) == [section |-> s, lines |-> lines]

Parts(s, n) == {Part(s, lines) : lines \in [1..n -> Lines(s)]}

MapSources ==
    {CMap(<<a, b>>) : a \in Parts("bfchar", 1), b \in Parts("bfrange", 1)}
    \cup {CMap(<<b, a>>) : a \in Parts("bfchar", 1), b \in Parts("bfrange", 1)}
    \cup {CMap(<<p>>) : p \in Parts("bfchar", 2) \cup Parts("bfrange", 2)}
    \cup UNION {{CMap(<<Part(s, <<noise, line>>)>>) : line \in Lines(s), noise \in {n \in Noise(s) :
                    s = "bfrange" \/ n.line \in {Ascii(""), Ascii("42 <0041>"), Ascii("<0041>")}}} : s \in Sections}

\* Maps cut short, with a range too wide, with bytes that are no UTF-8, or empty.
OddMaps ==
    {Unmeant("map", <<Plain(bytes)>>) :
        bytes \in {<<>>, <<200>>} \cup {Ascii(text) : text \in
            {"beginbfchar\n<41> <0041>", "beginbfchar\n<41> <0041>\nbeginbfrange\n<42> <43> <0041>\nendbfrange",
             "beginbfrange\n<41> <FFF> <0041>\n<41> <42> <0041>\nendbfrange", "beginbfrange\n<00041> <00042> <0041>\nendbfrange"}}}

-----------------------------------------------------------------------------
(***************************************************************************)
(* Streams without a meaning                                               *)
(***************************************************************************)

Dictionaries ==
    {EmptyMap, [Filter |-> Null], [Filter |-> Count(1)], [Filter |-> Name("LZWDecode")],
     [Filter |-> Array(<<>>)], [Filter |-> Array(<<Null, Name("ASCIIHexDecode"), Count(1)>>)]}
    \cup {[Filter |-> Name(name)] : name \in FilterNames}
    \cup {[Filter |-> Array(<<Name("FlateDecode")>>), DecodeParms |-> parms] :
             parms \in {Predict(12, 1), Array(<<>>), Array(<<Count(1)>>)}}
    \cup {[Filter |-> Name("FlateDecode"), DecodeParms |-> parms] :
             parms \in {Count(1), Array(<<Predict(12, 1)>>), Predict(2, 1), Predict(16, 1),
                        Dictionary([Predictor |-> Count(12)])}}

Words85 == UNION {[1..n -> {33, 117, 122, 126, 118, 32}] : n \in 0..3}

Predictions ==
    {[Filter |-> Name("FlateDecode"), DecodeParms |-> Predict(12, n)] : n \in {0, 1, 2, Room + 1, MaxSize}}

RowBytes == UNION {[1..n -> {0, 1, 4, 5, 11, 13}] : n \in 0..3}

OddStreams ==
    {Unmeant(use, <<[dict |-> d, data |-> bytes]>>) :
        use \in {"content", "map"}, d \in Dictionaries,
        bytes \in {<<>>, <<120>>, <<120, 65>>, <<65, 49, 62>>, <<71>>}}
    \cup {Unmeant("content", <<[dict |-> d, data |-> <<ZlibMark>> \o bytes]>>) : d \in Predictions, bytes \in RowBytes}
    \cup {Unmeant("content", <<[dict |-> [Filter |-> Name("ASCII85Decode")], data |-> bytes]>>) : bytes \in Words85}

MCSources == EncodedSources \cup TokenSources \cup ByteSources \cup MapSources \cup OddMaps \cup OddStreams

-----------------------------------------------------------------------------

Ahead == {"fetch", "decode", "rows"}

\* handle_stream_filters gives back the bytes that a stream was encoded from, for every
\* chain of filters and every predictor, and the streams of a page come one behind the
\* other, apart from each other.
FiltersInvert ==
    \A bytes \in source.bytes :
        /\ phase \notin {"failed", "aborted"}
        /\ phase \notin Ahead => content = FoldLeft(Joined, <<>>, bytes)

\* TokenParser reads the tokens that a content was written from, whichever way they are
\* spelled, however little stands between them, and wherever the content is divided into
\* streams.
ReadsWrittenTokens ==
    phase \in Ended => \A written \in source.tokens : phase = "done" /\ tokens = written

\* parse_cmap reads the map that a CMap was written from: each section in its own form,
\* pairs of surrogates, ranges that count up, later lines over earlier ones, and lines of no
\* meaning without effect on their neighbours.
ReadsWrittenMaps ==
    phase \in Ended => \A written \in source.map : phase = "done" /\ map = written
=============================================================================
