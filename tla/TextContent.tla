---------------------------- MODULE TextContent -----------------------------
(***************************************************************************)
(* What text.rs reads: the tokens of content streams (enum Token) and the  *)
(* form XObjects that a stream may draw.  A number token keeps whether it  *)
(* is below -200, which is all the code asks of it; the tokens of a        *)
(* dictionary are one token "other".                                       *)
(***************************************************************************)
EXTENDS Fonts

Op(op)        == [t |-> "op", op |-> op]
Str(bytes)    == [t |-> "str", bytes |-> bytes]
NameToken(n)  == [t |-> "name", name |-> n]
Num(wide)     == [t |-> "num", wide |-> wide]
ArrayStart    == [t |-> "["]
ArrayEnd      == [t |-> "]"]
OtherToken    == [t |-> "other"]

\* A stream that may be drawn: its dictionary, and the tokens of its data.
FormStream(dict, tokens, good) ==
    [kind |-> "Stream", dict |-> dict, data |-> tokens, decodes |-> good]

\* The content of a page: its streams one behind the other, so that an operator may
\* find its operands in the stream before.
PageTokens(page) == FlattenSeq(page.streams)

-----------------------------------------------------------------------------

\* What a name stands for among the XObjects of resources.
XObjectNamed(objects, resources, name) ==
    LET target == Entry(Deref(objects, Entry(Dictionary(resources), "XObject")), name) IN
    IF target.kind = "Reference" THEN Resolve(objects, target.ref) ELSE Null

\* process_xobject yields a text only for a form whose filters succeed.
IsDrawable(xobject) ==
    /\ xobject.kind = "Stream"
    /\ Entry(Dictionary(xobject.dict), "Subtype") = Name("Form")
    /\ xobject.decodes

\* A form has its own resources, none when it does not define any.
ResourcesOf(objects, form) == Entries(Deref(objects, Entry(Dictionary(form.dict), "Resources")))

\* The fonts of the drawing stream, and on top those of the form's resources: only a /Font
\* dictionary that is direct counts here.
FontsWithin(objects, resources, fonts) ==
    LET own == Entries(Entry(Dictionary(resources), "Font")) IN
    Overlay(fonts, ExtractFonts(objects, own))

\* fonts.get(name).
FontNamed(fonts, name) == IF name \in DOMAIN fonts THEN fonts[name] ELSE NoFont

\* One item of a TJ array: a string, or a number that is wide enough for a space.
ItemText(item, font) ==
    IF item.t = "str" THEN DecodeText(item.bytes, font)
    ELSE IF item.t = "num" /\ item.wide THEN <<Space>> ELSE <<>>

ArrayText(items, font) == FlattenSeq([k \in DOMAIN items |-> ItemText(items[k], font)])

\* text.push(' ') unless it is the first piece, then text.push_str(piece).
Appended(text, piece) == IF text = <<>> THEN piece ELSE text \o <<Space>> \o piece
=============================================================================
