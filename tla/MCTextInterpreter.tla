------------------------- MODULE MCTextInterpreter --------------------------
(***************************************************************************)
(* Small documents for TextInterpreter.  Content: every sequence of three  *)
(* tokens in three surroundings, and every short array.  Forms: every way   *)
(* in which two forms and a page can draw each other, show text before and *)
(* after it, and name fonts and resources.                                 *)
(***************************************************************************)
EXTENDS TextInterpreter, TLC

Byte(n) == 96 + n

\* Fonts as their dictionaries: bytes by WinAnsi with a difference, and codes of two bytes.
SimpleFont ==
    Dictionary([Subtype |-> Name("TrueType"),
                Encoding |-> Dictionary([BaseEncoding |-> Name("WinAnsiEncoding"),
                                         Differences |-> Array(<<Name("A"), WholeNumber(98), Name("B"), Scalar, Name("zero"), WholeNumber(99), Name("minus"), WholeNumber(98), Name("C")>>)])])

MacFont ==
    Dictionary([Subtype |-> Name("Type1"), Encoding |-> Name("MacRomanEncoding")])

WideFont ==
    Dictionary([Subtype |-> Name("Type0"), Encoding |-> Name("Identity-H"),
                ToUnicode |-> Reference("map")])

Map == FormStream(EmptyMap, (24930 :> <<88, 89>>) @@ (97 :> <<90>>), TRUE)

S(n) == Str(<<Byte(n)>>)

Show(n) == <<S(n), Op("Tj")>>

Use(font) == <<NameToken(font), Num(FALSE), Op("Tf")>>

Base == ("map" :> Map) @@ ("wide" :> WideFont)

PageFonts == ExtractFonts(Base, [F |-> SimpleFont, G |-> Reference("wide"), H |-> Reference("none")])

Page(streams, resources) == [streams |-> streams, fonts |-> PageFonts, resources |-> resources]

Tokens ==
    {Op("BT"), Op("ET"), Op("Tf"), Op("Tj"), Op("TJ"), Op("'"), Op("\""), Op("Do"), Op("q"),
     Str(<<Byte(1), Byte(2), 133>>), NameToken("F"), Num(TRUE), ArrayEnd}

Drawing == [XObject |-> Dictionary("F" :> Reference("form"))]

Small == FormStream([Subtype |-> Name("Form")], <<Op("BT")>> \o Show(3), TRUE)

Pages(contents) ==
    [objects |-> ("form" :> Small) @@ Base,
     pages |-> [k \in DOMAIN contents |-> Page(contents[k], Drawing)]]

\* Three tokens alone, within a text object, and across two streams.
Surrounded(t) ==
    Pages(<<<<t>>,
            <<<<Op("BT")>> \o Show(1), t, <<Op("Tj"), Op("ET")>>>>,
            <<Use("G"), <<Op("BT")>> \o Show(4) \o <<Op("\"")>>, t \o <<Op("BT")>> \o Show(2)>>>>)

Inner == {S(1), Str(<<Byte(1), Byte(2)>>), Num(TRUE), Num(FALSE), ArrayStart, ArrayEnd, OtherToken}

\* The end of an array behind its start, without one, and with one too many.
AsArray(t) ==
    LET Behind(before) == <<before \o t \o <<ArrayEnd, Op("TJ")>>>> IN
    Pages(<<Behind(<<Op("BT")>>),
            Behind(<<ArrayStart, Op("BT")>>),
            Behind(<<Op("BT"), ArrayStart>> \o Use("G") \o <<ArrayStart>>)>>)

-----------------------------------------------------------------------------

\* What the page and the forms consist of: a text, a form, a text.
Body(before, name, after) ==
    before \o <<NameToken(name), Op("Do")>> \o after

TextObject(tokens) == <<Op("BT")>> \o tokens \o <<Op("ET")>>

Bodies(name) ==
    {Body(TextObject(Use("F") \o Show(2)), name, TextObject(Show(1))),
     Body(<<>>, name, <<Op("BT")>> \o Show(1)),
     Body(<<Op("BT")>> \o Show(1), name, Show(3) \o <<Op("ET")>>)}

Leaf == {TextObject(Use("G") \o Show(1)), <<>>}

XObjectDict(first, second) == Dictionary([X |-> first, Y |-> second])

FormResources(xobjects) ==
    {Null, Dictionary([XObject |-> xobjects]), Reference("shared"),
     Dictionary([XObject |-> Reference("xobjects"), Font |-> Dictionary([G |-> MacFont])]),
     Dictionary([XObject |-> xobjects, Font |-> Reference("fonts")])}

FormOf(subtype, resources, tokens, good) ==
    FormStream(IF resources = Null THEN [Subtype |-> subtype]
               ELSE [Subtype |-> subtype, Resources |-> resources], tokens, good)

Names == XObjectDict(Reference("a"), Reference("b"))

FirstForms ==
    {FormOf(Name("Form"), r, t, TRUE) : r \in FormResources(Names), t \in Bodies("X") \cup Bodies("Y") \cup Leaf}
    \cup {FormOf(Name("Image"), Null, <<>>, TRUE), FormOf(Null, Null, <<>>, TRUE),
          FormOf(Name("Form"), Null, <<>>, FALSE), Scalar}

SecondForms ==
    {FormOf(Name("Form"), r, t, TRUE) : r \in FormResources(Names), t \in Leaf \cup
        {Body(<<>>, "X", <<Op("BT")>> \o Show(1)), Body(TextObject(Show(2)), "Z", <<>>)}}

\* Three pages, the second of which draws two forms.
WithForms(a, b) ==
    [objects |-> ("a" :> a) @@ ("b" :> b) @@ ("xobjects" :> Names) @@
                 ("shared" :> Dictionary([XObject |-> Names])) @@
                 ("fonts" :> Dictionary([G |-> MacFont])) @@ Base,
     pages |-> <<Page(<<>>, EmptyMap),
                 Page(<<Body(TextObject(Use("G") \o Show(1)), "X",
                             TextObject(Show(2)) \o <<NameToken("Y"), Op("Do")>>)>>,
                      [XObject |-> Names]),
                 Page(<<Show(1)>>, EmptyMap)>>]

Shapes ==
    {<<"tokens", t>> : t \in [1..3 -> Tokens]}
    \cup {<<"array", t>> : t \in UNION {[1..n -> Inner] : n \in 0..3}}
    \cup {<<"forms", a, b>> : a \in FirstForms, b \in SecondForms}

AllDocuments ==
    {IF c[1] = "tokens" THEN Surrounded(c[2])
     ELSE IF c[1] = "array" THEN AsArray(c[2]) ELSE WithForms(c[2], c[3]) : c \in Shapes}

MCDocuments == AllDocuments
=============================================================================
