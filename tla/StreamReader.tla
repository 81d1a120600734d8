---------------------------- MODULE StreamReader ----------------------------
(***************************************************************************)
(* What becomes of the streams of a document.  The content streams of a    *)
(* page are decoded (collect_pages), joined with a space between them      *)
(* (extract_text_from_page_content) and read by the lexer; the stream of a *)
(* /ToUnicode entry is decoded (extract_to_unicode) and read by parse_cmap *)
(* line by line.  A source is one of the two: its use and its streams.     *)
(***************************************************************************)
EXTENDS StreamFilters, CharacterMap, ContentLexer

CONSTANT Sources

\* The parameters that a dictionary can ask for.
ParmsIn(dict) ==
    LET parms == Entry(Dictionary(dict), "DecodeParms")
    IN  {parms} \cup IF parms.kind = "Array" THEN Range(parms.items) ELSE {}

ColumnsAreWhole(parms) ==
    Entry(parms, "Columns").kind = "Number" => Entry(parms, "Columns").whole \in Nat

ListsItems(o) == o.kind = "Array" => o.items \in Seq(Range(o.items))

\* A stream consists of bytes, an array is a list, and numbers have a whole part.
ASSUME SourcesAssumption ==
    \A one \in Sources :
        /\ one.use \in {"content", "map"}
        /\ one.streams \in Seq(Range(one.streams))
        /\ \A stream \in Range(one.streams) :
              /\ stream.data \in Seq(0..255)
              /\ ListsItems(Entry(Dictionary(stream.dict), "Filter"))
              /\ \A parms \in ParmsIn(stream.dict) : ColumnsAreWhole(parms)

VARIABLES
    source,
    phase,      \* Which loop runs, or how it ended
    read,       \* The number of streams decoded or being decoded
    data,       \* What the filters have made of the stream so far
    todo,       \* The filters and parameters that are still to be applied
    rows,       \* The rows of a predictor, while they are decoded
    section,    \* Of the CMap: where the next line belongs
    map         \* What the lines have said

readerVars == <<source, phase, read, data, todo, rows, section, map, content, pos, tokens>>
decoderVars == <<data, todo, rows>>
mapVars == <<section, map>>

NoRows == [columns |-> 0, left |-> <<>>, above |-> <<>>, out |-> <<>>]

Ended == {"done", "failed", "aborted"}

Init ==
    /\ source \in Sources
    /\ phase = "fetch" /\ read = 0
    /\ data = <<>> /\ todo = <<>> /\ rows = NoRows
    /\ section = "none" /\ map = EmptyMap
    /\ content = <<>> /\ pos = 1 /\ tokens = <<>>

\* How a call ends that does not succeed: an error of a content stream is one of the whole
\* document, an error of a /ToUnicode stream leaves the font without a map.
PhaseAfter(result) ==
    IF result.r = "panic" THEN "aborted" ELSE IF source.use = "map" THEN "done" ELSE "failed"

Stop(result) ==
    /\ result.r # "ok"
    /\ phase' = PhaseAfter(result)
    /\ UNCHANGED <<source, read, decoderVars, mapVars, lexVars>>

-----------------------------------------------------------------------------
(***************************************************************************)
(* handle_stream_filters                                                   *)
(***************************************************************************)

OpenStream ==
    /\ phase = "fetch" /\ read < Len(source.streams)
    /\ \E steps \in {FilterSteps(source.streams[read + 1].dict)} :
          \/ /\ steps.r = "ok"
             /\ phase' = "decode" /\ read' = read + 1
             /\ todo' = steps.v /\ data' = source.streams[read + 1].data
             /\ UNCHANGED <<source, rows, mapVars, lexVars>>
          \/ Stop(steps)

IsNext(step) == phase = "decode" /\ todo # <<>> /\ Head(todo).step = step

FilterStream ==
    /\ IsNext("filter")
    /\ \E result \in {ApplyFilter(Head(todo).name, data)} :
          \/ /\ result.r = "ok"
             /\ data' = result.v /\ todo' = Tail(todo)
             /\ UNCHANGED <<source, phase, read, rows, mapVars, lexVars>>
          \/ Stop(result)

\* apply_decode_parms without a predictor.
PassParms ==
    /\ IsNext("parms")
    /\ \E columns \in {PredictedColumns(Head(todo).parms)} :
          \/ /\ columns = Ok({})
             /\ todo' = Tail(todo)
             /\ UNCHANGED <<source, phase, read, data, rows, mapVars, lexVars>>
          \/ Stop(columns)

OpenRows ==
    /\ IsNext("parms")
    /\ PredictedColumns(Head(todo).parms).r = "ok"
    /\ \E columns \in PredictedColumns(Head(todo).parms).v :
          \E result \in {RowsOf(columns, data)} :
             \/ /\ result.r = "ok"
                /\ phase' = "rows" /\ rows' = result.v
                /\ UNCHANGED <<source, read, data, todo, mapVars, lexVars>>
             \/ Stop(result)

DecodeRow ==
    /\ phase = "rows" /\ rows.left # <<>>
    /\ \E result \in {NextRow(rows)} :
          \/ /\ result.r = "ok"
             /\ rows' = result.v
             /\ UNCHANGED <<source, phase, read, data, todo, mapVars, lexVars>>
          \/ Stop(result)

CloseRows ==
    /\ phase = "rows" /\ rows.left = <<>>
    /\ phase' = "decode"
    /\ data' = rows.out /\ rows' = NoRows /\ todo' = Tail(todo)
    /\ UNCHANGED <<source, read, mapVars, lexVars>>

\* Mutant: nothing between two streams.
Concatenated(before, bytes) == before \o bytes

\* all_content with one stream more.
Joined(before, bytes) == IF before = <<>> THEN bytes ELSE before \o <<32>> \o bytes

CloseStream ==
    /\ phase = "decode" /\ todo = <<>>
    /\ phase' = "fetch"
    /\ content' = Joined(content, data)
    /\ UNCHANGED <<source, read, decoderVars, mapVars, pos, tokens>>

-----------------------------------------------------------------------------
(***************************************************************************)
(* The two readers                                                         *)
(***************************************************************************)

\* parse_cmap takes UTF-8 only.
StartReading ==
    /\ phase = "fetch" /\ read = Len(source.streams)
    /\ phase' = IF source.use = "map" /\ ~IsUtf8(content) THEN "done" ELSE source.use
    /\ UNCHANGED <<source, read, decoderVars, mapVars, lexVars>>

Lex ==
    /\ phase = "content"
    /\ ReadToken
    /\ UNCHANGED <<source, phase, read, decoderVars, mapVars>>

\* Both loops end with the content.
Finish ==
    /\ phase \in {"content", "map"} /\ pos > Len(content)
    /\ phase' = "done"
    /\ UNCHANGED <<source, read, decoderVars, mapVars, lexVars>>

EndOfLine == EndOfRun(content, pos, (0..127) \ {LineFeed})

\* The line at pos in a section, alone in a set: lines() ends it before a line feed.
LineIn(sections) ==
    {line \in {Text(content, pos, EndOfLine)} :
        phase = "map" /\ pos <= Len(content) /\ section \in sections}

NextLine ==
    /\ pos' = EndOfLine + 1
    /\ UNCHANGED <<source, read, decoderVars, content, tokens>>

OpenSection ==
    \E line \in LineIn({"none"}) :
        /\ section' \in Begins(line)
        /\ UNCHANGED <<phase, map>> /\ NextLine

SkipLine ==
    \E line \in LineIn({"none"}) :
        /\ Begins(line) = {}
        /\ UNCHANGED <<phase, mapVars>> /\ NextLine

CloseSection ==
    \E line \in LineIn(Sections) :
        /\ Ends(section, line)
        /\ section' = "none"
        /\ UNCHANGED <<phase, map>> /\ NextLine

\* A line that says nothing is passed over, a later one overrules an earlier one, and
\* codes that the heap has no room for end the program.
ReadLine ==
    \E line \in LineIn(Sections) :
        /\ ~Ends(section, line)
        /\ \E ranges \in {EntriesOf(section, line)} :
              \/ /\ \A range \in ranges : ~IsTooWide(range)
                 /\ map' = FoldSet(LAMBDA range, m : Overlay(m, TextsOf(range)), map, ranges)
                 /\ UNCHANGED <<phase, section>> /\ NextLine
              \/ /\ \E range \in ranges : IsTooWide(range)
                 /\ Stop(Panic)

Next ==
    \/ OpenStream \/ FilterStream \/ PassParms \/ OpenRows \/ DecodeRow \/ CloseRows
    \/ CloseStream \/ StartReading \/ Lex \/ Finish
    \/ OpenSection \/ SkipLine \/ CloseSection \/ ReadLine

Spec == Init /\ [][Next]_readerVars

FairSpec == Spec /\ WF_readerVars(Next)

-----------------------------------------------------------------------------

\* apply_png_predictor and parse_cmap end the program only at a limit: at a row without a
\* byte, at the largest number of columns, at a row that memory has no room for where there
\* are no data at all (data that do not fill it are rejected before it is reserved, and data
\* that do are longer than it), and at a range of codes that memory has no room for.
AbortsOnlyAtLimits ==
    phase = "aborted" =>
        \/ section = "bfrange"
        \/ \E columns \in PredictedColumns(Head(todo).parms).v :
              columns \in {0, MaxSize} \/ (columns > Room /\ (data = <<>> \/ columns < Len(data)))

\* Every stream is read to its end or rejected: each filter is applied once, a row takes
\* bytes away and each pass of the two loops consumes a byte, whatever the streams hold.
Terminates == <>(phase \in Ended)
=============================================================================
