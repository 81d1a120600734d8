------------------------------ MODULE PageText ------------------------------
(***************************************************************************)
(* The text of a page without a state that is carried from token to token: *)
(* which operators stand in a text object, which font each of them has,    *)
(* where lines break, and which pieces of text a stream consists of.  And, *)
(* for content whose text objects are well formed, what a reader expects:  *)
(* all that is shown, in the order in which it is shown.                   *)
(* A stream is reached along a path: the places of the Do operators that   *)
(* draw it, beginning in the content of the page.                          *)
(***************************************************************************)
EXTENDS TextContent, Integers

CONSTANT MaxDepth  \* streams that are read within each other

ASSUME DepthAssumption == MaxDepth \in Nat \ {0}

\* The last BT or ET before place p is a BT.
IsInText(c, p) ==
    \E b \in 1..(p - 1) : c[b] = Op("BT") /\ \A q \in (b + 1)..(p - 1) : c[q] # Op("ET")

\* The font that the last Tf with a name before place p has chosen.
FontAt(c, fonts, p) ==
    LET uses == {q \in 3..(p - 1) : c[q] = Op("Tf") /\ c[q - 2].t = "name"} IN
    IF uses = {} THEN NoFont ELSE FontNamed(fonts, c[Max(uses) - 2].name)

\* How deep place p lies in the array that ends at place e.
BracketsAt(c, e, p) ==
    LET Count(token) == Cardinality({q \in (p + 1)..(e - 1) : c[q] = token}) IN
    1 + Count(ArrayEnd) - Count(ArrayStart)

\* The items of the array that ends at place e: those that no inner array holds, back
\* to its start, or to the second token of the stream when it has none.
IsItemAt(c, e, p) ==
    /\ \A q \in p..(e - 1) : BracketsAt(c, e, q) > 0
    /\ BracketsAt(c, e, p) = 1
    /\ c[p] \notin {ArrayStart, ArrayEnd}

Items(c, e) ==
    FlattenSeq([k \in 1..(e - 2) |-> IF IsItemAt(c, e, k + 1) THEN <<c[k + 1]>> ELSE <<>>])

NeedsLine(c, p) == (c[p] = Op("'") /\ p > 1) \/ (c[p] = Op("\"") /\ p > 3)

\* What the operator at place p shows.
ShownAt(c, fonts, p) ==
    LET font == FontAt(c, fonts, p) IN
    IF p < 2 THEN <<>>
    ELSE IF (c[p] = Op("Tj") \/ NeedsLine(c, p)) /\ c[p - 1].t = "str"
    THEN DecodeText(c[p - 1].bytes, font)
    ELSE IF c[p] = Op("TJ") /\ c[p - 1] = ArrayEnd /\ IsInText(c, p)
    THEN ArrayText(Items(c, p - 1), font)
    ELSE <<>>

ShownInText(c, fonts, p) == IF IsInText(c, p) THEN ShownAt(c, fonts, p) ELSE <<>>

-----------------------------------------------------------------------------

\* The places where a line ends, the end of the stream among them.
Breaks(c) ==
    {p \in DOMAIN c : c[p] = Op("ET") \/ (NeedsLine(c, p) /\ IsInText(c, p))} \cup {Len(c) + 1}

\* The line that ends at place b: all that is shown since the line before, or since the
\* text object began.
LineAt(c, fonts, b) ==
    LET starts == (Breaks(c) \cup {p \in DOMAIN c : c[p] = Op("BT")}) \cap 1..(b - 1)
        first == IF starts = {} THEN 1 ELSE Max(starts)
    IN  FlattenSeq([k \in 1..(b - first) |-> ShownInText(c, fonts, first + k - 1)])

\* A content, with what its names stand for.
Context(content, fonts, resources) ==
    [content |-> content, fonts |-> fonts, resources |-> resources]

DrawnAt(objects, s, p) ==
    IF p \in 2..Len(s.content) /\ s.content[p] = Op("Do") /\ s.content[p - 1].t = "name"
    THEN XObjectNamed(objects, s.resources, s.content[p - 1].name)
    ELSE Null

DrawsAt(objects, s, p) == IsDrawable(DrawnAt(objects, s, p))

\* The form that a stream draws at place p.
Within(objects, s, p) ==
    LET form == DrawnAt(objects, s, p)
        resources == ResourcesOf(objects, form)
    IN  IF DrawsAt(objects, s, p)
        THEN Context(form.data, FontsWithin(objects, resources, s.fonts), resources)
        ELSE Context(<<>>, EmptyMap, EmptyMap)

StreamAlong(objects, page, path) ==
    LET at[n \in 0..Len(path)] ==
            IF n = 0 THEN Context(PageTokens(page), page.fonts, page.resources)
            ELSE Within(objects, at[n - 1], path[n])
    IN  at[Len(path)]

\* A value of every stream of a page, from its tokens and the values of what it draws.
ValuesAlong(objects, page, Value(_, _), none) ==
    LET value[path \in Seq(Nat)] ==
            IF Len(path) >= MaxDepth THEN none
            ELSE Value(StreamAlong(objects, page, path), [p \in Nat |-> value[Append(path, p)]])
    IN  value

\* The piece of a stream that place p adds: a line where it ends, a form where it is
\* drawn.  An empty line is no piece, the text of a form is one even if it is empty.
PiecesAt(objects, s, drawn, p) ==
    IF DrawsAt(objects, s, p) THEN <<drawn[p]>>
    ELSE IF p \in Breaks(s.content) /\ LineAt(s.content, s.fonts, p) # <<>>
    THEN <<LineAt(s.content, s.fonts, p)>> ELSE <<>>

\* The text of all before place b.
TextBefore(objects, s, drawn, b) ==
    FoldLeft(Appended, <<>>, FlattenSeq([p \in 1..(b - 1) |-> PiecesAt(objects, s, drawn, p)]))

TextsAlong(objects, page) ==
    LET Text(s, drawn) == TextBefore(objects, s, drawn, Len(s.content) + 2) IN
    ValuesAlong(objects, page, Text, <<>>)

TextOfPage(objects, page) == TextsAlong(objects, page)[<<>>]

-----------------------------------------------------------------------------

\* All that is shown before place b, in the order in which it is shown.
ReadingBefore(objects, s, drawn, b) ==
    FlattenSeq([p \in 1..(b - 1) |->
        IF DrawsAt(objects, s, p) THEN drawn[p] ELSE ShownAt(s.content, s.fonts, p)])

ReadingsAlong(objects, page) ==
    LET Reading(s, drawn) == ReadingBefore(objects, s, drawn, Len(s.content) + 1) IN
    ValuesAlong(objects, page, Reading, <<>>)

\* Text objects are closed, they do not nest, all that is shown is shown inside of
\* them, and forms are drawn outside of them.
IsWellFormed(c) ==
    /\ \A p \in DOMAIN c :
          /\ c[p] = Op("BT") => ~IsInText(c, p)
          /\ c[p] \in {Op("ET"), Op("Tj"), Op("TJ"), Op("'"), Op("\"")} => IsInText(c, p)
          /\ c[p] = Op("Do") => ~IsInText(c, p)
    /\ ~IsInText(c, Len(c) + 1)

\* The streams that are well formed and draw only such.
WellFormedAlong(objects, page) ==
    LET WellFormed(s, drawn) ==
            /\ IsWellFormed(s.content)
            /\ \A p \in DOMAIN s.content : DrawsAt(objects, s, p) => drawn[p]
    IN  ValuesAlong(objects, page, WellFormed, TRUE)

-----------------------------------------------------------------------------

\* What there is before the text is known, and what it is for a document.
Pending == [status |-> "pending", texts |-> <<>>]

Outcome(document) ==
    [status |-> "ok",
     texts  |-> [k \in DOMAIN document.pages |-> TextOfPage(document.objects, document.pages[k])]]
=============================================================================
