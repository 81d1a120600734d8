-------------------------- MODULE TextInterpreter ---------------------------
(***************************************************************************)
(* extract_text_from_document of lib.rs and the operators of text.rs: the  *)
(* loop over the pages, the loop over the tokens of a content stream and   *)
(* the recursion into the forms that a stream draws.  A frame of stack is  *)
(* an activation of extract_text_from_stream with its local variables;     *)
(* next is the place of the token it looks at, counted from 1.             *)
(***************************************************************************)
EXTENDS PageText

\* MaxDepth, of PageText, is the number of activations that the machine's stack has room for.
CONSTANT Documents  \* [objects |-> table of objects, pages |-> sequence of pages]

\* The forms that a document's table holds.
FormsOf(objects) == {r \in DOMAIN objects : IsDrawable(objects[r])}

\* Tokens come in an order, and a string consists of bytes.
IsContent(tokens) ==
    /\ tokens \in Seq(Range(tokens))
    /\ \A token \in Range(tokens) : token.t = "str" => token.bytes \in Seq(0..255)

\* A font turns its codes into characters.
HasTexts(toUnicode) == \A code \in DOMAIN toUnicode : toUnicode[code] \in Seq(Nat)

IsFont(font) ==
    /\ HasTexts(font.toUnicode)
    /\ \A code \in DOMAIN font.differences : font.differences[code] \in Nat

\* The font dictionaries that a form brings.
OwnFonts(objects, form) == Entries(Entry(Dictionary(ResourcesOf(objects, form)), "Font"))

\* The forms are finitely many, contents are contents, and the data of a /ToUnicode stream
\* are a map to texts.
ASSUME DocumentsAssumption ==
    \A d \in Documents :
        /\ IsFiniteSet(FormsOf(d.objects))
        /\ \A r \in FormsOf(d.objects) :
              /\ IsContent(d.objects[r].data)
              /\ \A font \in Range(OwnFonts(d.objects, d.objects[r])) :
                    HasTexts(ToUnicodeOf(d.objects, Deref(d.objects, font)))
        /\ d.pages \in Seq(Range(d.pages))
        /\ \A page \in Range(d.pages) :
              /\ page.streams \in Seq(Range(page.streams))
              /\ \A stream \in Range(page.streams) : IsContent(stream)
              /\ \A font \in Range(page.fonts) : IsFont(font)

VARIABLES
    doc,      \* the parsed document: never changed
    stack,    \* the activations of extract_text_from_stream
    results,  \* the texts of the pages finished so far
    status    \* "running", then "ok", or "aborted" when the machine's stack is full

vars == <<doc, stack, results, status>>

Frame(content, fonts, resources) ==
    [content |-> content, fonts |-> fonts, resources |-> resources,
     next |-> 1, font |-> NoFont, inText |-> FALSE, line |-> <<>>, text |-> <<>>]

Top == stack[Len(stack)]

Token == Top.content[Top.next]

\* The token k places before the operator.
Operand(k) == Top.content[Top.next - k]

HasOperands(k) == Top.next > k

\* The pending line becomes a piece of the text.
Flushed(frame) ==
    IF frame.line = <<>> THEN frame
    ELSE [frame EXCEPT !.text = Appended(@, frame.line), !.line = <<>>]

\* The operand before the operator is shown when it is a string.
WithOperandShown(frame) ==
    IF Operand(1).t = "str"
    THEN [frame EXCEPT !.line = @ \o DecodeText(Operand(1).bytes, frame.font)]
    ELSE frame

\* The walk from the end of an array back to the bracket that closes its depth: the
\* items of depth one, in their order.  The first token of the stream is never looked at.
ItemsBackwards(content, closing) ==
    LET Turn(j) == IF content[j] = ArrayEnd THEN 1 ELSE IF content[j] = ArrayStart THEN -1 ELSE 0
        depth[j \in 2..closing] == IF j = closing THEN 1 ELSE depth[j + 1] + Turn(j)
        IsItem(j) == Turn(j) = 0 /\ depth[j] = 1 /\ \A k \in j..closing : depth[k] > 0
    IN  FlattenSeq([k \in 1..(closing - 2) |-> IF IsItem(k + 1) THEN <<content[k + 1]>> ELSE <<>>])

-----------------------------------------------------------------------------

Init ==
    /\ doc \in Documents
    /\ stack = <<>>
    /\ results = <<>>
    /\ status = "running"

NextPage == doc.pages[Len(results) + 1]

BetweenPages == status = "running" /\ stack = <<>>

\* A page without content has the empty text.
SkipEmptyPage ==
    /\ BetweenPages
    /\ Len(results) < Len(doc.pages)
    /\ PageTokens(NextPage) = <<>>
    /\ results' = Append(results, <<>>)
    /\ UNCHANGED <<doc, stack, status>>

OpenPage ==
    /\ BetweenPages
    /\ Len(results) < Len(doc.pages)
    /\ PageTokens(NextPage) # <<>>
    /\ stack' = <<Frame(PageTokens(NextPage), NextPage.fonts, NextPage.resources)>>
    /\ UNCHANGED <<doc, results, status>>

Finish ==
    /\ BetweenPages
    /\ Len(results) = Len(doc.pages)
    /\ status' = "ok"
    /\ UNCHANGED <<doc, stack, results>>

-----------------------------------------------------------------------------

AtToken == status = "running" /\ stack # <<>> /\ Top.next <= Len(Top.content)

AtOperator(op) == AtToken /\ Token = Op(op)

\* The running activation goes on with the next token.
Continue(frame) ==
    /\ stack' = [stack EXCEPT ![Len(stack)] = [frame EXCEPT !.next = @ + 1]]
    /\ UNCHANGED <<doc, results, status>>

BeginText ==
    /\ AtOperator("BT")
    /\ Continue([Top EXCEPT !.inText = TRUE, !.line = <<>>])

\* Mutant: the line of a closed text object stays pending.
EndTextKeepingLine ==
    /\ AtOperator("ET")
    /\ Continue([Top EXCEPT !.inText = FALSE])

EndText ==
    /\ AtOperator("ET")
    /\ Continue([Flushed(Top) EXCEPT !.inText = FALSE])

SetFont ==
    /\ AtOperator("Tf")
    /\ Continue(IF HasOperands(2) /\ Operand(2).t = "name"
                THEN [Top EXCEPT !.font = FontNamed(Top.fonts, Operand(2).name)]
                ELSE Top)

ShowText ==
    /\ AtOperator("Tj")
    /\ Continue(IF HasOperands(1) /\ Top.inText THEN WithOperandShown(Top) ELSE Top)

\* Mutant: an array is walked outside of text objects, too.
WalksAnyArray == HasOperands(1) /\ Operand(1) = ArrayEnd

\* The array that ends before the operator is walked.
WalksArray == HasOperands(1) /\ Top.inText /\ Operand(1) = ArrayEnd

ShowArray ==
    /\ AtOperator("TJ")
    /\ Continue(IF WalksArray
                THEN LET items == ItemsBackwards(Top.content, Top.next - 1) IN
                     [Top EXCEPT !.line = @ \o ArrayText(items, Top.font)]
                ELSE Top)

\* Mutant: the line before is cleared instead of flushed.
ShowOnClearedLine(op, operands) ==
    /\ AtOperator(op)
    /\ Continue(IF HasOperands(operands) /\ Top.inText
                THEN WithOperandShown([Top EXCEPT !.line = <<>>]) ELSE Top)

\* The operators that begin a line of their own: they differ in their operands.
ShowOnNextLine(op, operands) ==
    /\ AtOperator(op)
    /\ Continue(IF HasOperands(operands) /\ Top.inText
                THEN WithOperandShown(Flushed(Top)) ELSE Top)

NextLine == ShowOnNextLine("'", 1)

NextLineSpaced == ShowOnNextLine("\"", 3)

-----------------------------------------------------------------------------

\* What a "Do" draws, Null when it draws nothing.
Drawn ==
    IF HasOperands(1) /\ Operand(1).t = "name"
    THEN XObjectNamed(doc.objects, Top.resources, Operand(1).name)
    ELSE Null

\* Mutant: the loop goes on without the next token when nothing is drawn.
StayAtDraw ==
    /\ AtOperator("Do")
    /\ ~IsDrawable(Drawn)
    /\ UNCHANGED vars

DrawNothing ==
    /\ AtOperator("Do")
    /\ ~IsDrawable(Drawn)
    /\ Continue(Top)

\* Mutant: a form without resources uses those of the stream that draws it.
DrawWithCallersResources ==
    /\ AtOperator("Do")
    /\ IsDrawable(Drawn)
    /\ Len(stack) < MaxDepth
    /\ \E form \in {Drawn} :
       \E resources \in {IF "Resources" \in DOMAIN form.dict THEN ResourcesOf(doc.objects, form)
                         ELSE Top.resources} :
          stack' = Append(stack, Frame(form.data,
                                       FontsWithin(doc.objects, resources, Top.fonts),
                                       resources))
    /\ UNCHANGED <<doc, results, status>>

\* Mutant: the drawing activation goes on before the form is drawn, and again after it.
AdvanceAndDraw ==
    /\ AtOperator("Do")
    /\ IsDrawable(Drawn)
    /\ Len(stack) < MaxDepth
    /\ \E form \in {Drawn} : \E resources \in {ResourcesOf(doc.objects, form)} :
          stack' = Append([stack EXCEPT ![Len(stack)].next = @ + 1],
                          Frame(form.data, FontsWithin(doc.objects, resources, Top.fonts),
                                resources))
    /\ UNCHANGED <<doc, results, status>>

\* A recursive call: the drawing activation waits at its operator.
DrawForm ==
    /\ AtOperator("Do")
    /\ IsDrawable(Drawn)
    /\ Len(stack) < MaxDepth
    /\ \E form \in {Drawn} : \E resources \in {ResourcesOf(doc.objects, form)} :
          stack' = Append(stack, Frame(form.data,
                                       FontsWithin(doc.objects, resources, Top.fonts),
                                       resources))
    /\ UNCHANGED <<doc, results, status>>

\* No check ends the recursion but the machine's.
DrawTooDeep ==
    /\ AtOperator("Do")
    /\ IsDrawable(Drawn)
    /\ Len(stack) = MaxDepth
    /\ status' = "aborted"
    /\ UNCHANGED <<doc, stack, results>>

\* Operands and all other operators.
PassToken ==
    /\ AtToken
    /\ ~(Token.t = "op" /\ Token.op \in {"BT", "ET", "Tf", "Tj", "TJ", "'", "\"", "Do"})
    /\ Continue(Top)

-----------------------------------------------------------------------------

AtEnd == status = "running" /\ stack # <<>> /\ Top.next > Len(Top.content)

\* The remaining line is not forgotten at the end of a stream.
FullText == Flushed(Top).text

\* Mutant: the text of a form that shows nothing is not appended.
ReturnShownForm ==
    /\ AtEnd
    /\ Len(stack) > 1
    /\ LET caller == stack[Len(stack) - 1]
           text == IF FullText = <<>> THEN caller.text ELSE Appended(caller.text, FullText)
       IN  stack' = [SubSeq(stack, 1, Len(stack) - 1) EXCEPT ![Len(stack) - 1] =
                        [caller EXCEPT !.text = text, !.next = @ + 1]]
    /\ UNCHANGED <<doc, results, status>>

ReturnForm ==
    /\ AtEnd
    /\ Len(stack) > 1
    /\ LET caller == stack[Len(stack) - 1] IN
       stack' = [SubSeq(stack, 1, Len(stack) - 1) EXCEPT ![Len(stack) - 1] =
                    [caller EXCEPT !.text = Appended(@, FullText), !.next = @ + 1]]
    /\ UNCHANGED <<doc, results, status>>

FinishPage ==
    /\ AtEnd
    /\ Len(stack) = 1
    /\ results' = Append(results, FullText)
    /\ stack' = <<>>
    /\ UNCHANGED <<doc, status>>

ShowNext == ShowText \/ ShowArray \/ NextLine \/ NextLineSpaced

DrawNext == DrawNothing \/ DrawForm \/ DrawTooDeep \/ ReturnForm

Next ==
    \/ SkipEmptyPage \/ OpenPage \/ FinishPage \/ Finish
    \/ BeginText \/ EndText \/ SetFont \/ PassToken
    \/ ShowNext \/ DrawNext

Spec == Init /\ [][Next]_vars

\* The interpreter runs until it has an answer: one thread, nothing waits.
FairSpec == Spec /\ WF_vars(Next)

-----------------------------------------------------------------------------

\* Frames are within their stream, and texts are sequences of characters.
FrameOK(frame) ==
    /\ frame.next \in 1..(Len(frame.content) + 1)
    /\ frame.inText \in BOOLEAN
    /\ frame.line \in Seq(Nat)
    /\ frame.text \in Seq(Nat)

\* Types of the variables: the stack holds as many activations as the machine has room
\* for, and once the interpreter has answered there is one text for each page.
TypeOK ==
    /\ doc \in Documents
    /\ status \in {"running", "ok", "aborted"}
    /\ Len(stack) \in 0..MaxDepth
    /\ \A k \in DOMAIN stack : FrameOK(stack[k])
    /\ results \in Seq(Seq(Nat))
    /\ Len(results) <= Len(doc.pages)
    /\ status = "ok" => stack = <<>> /\ Len(results) = Len(doc.pages)

\* A line is pending only inside a text object, in every activation.  So what a form
\* shows between two text objects lands behind all that was shown before it, and a
\* closed text object leaves nothing to be lost by the next one (text.rs:64-77).
LineOnlyInText == \A k \in DOMAIN stack : stack[k].line # <<>> => stack[k].inText

\* The walk back through an array starts two places before its operator.  That place
\* exists, because a text object was begun before: the index i - 2 does not wrap
\* around (text.rs:100).
NoUnderflow == AtOperator("TJ") /\ WalksArray => Top.next > 2

\* The forms that the form at r draws by name out of its own resources.
DrawnBy(objects, r) ==
    LET form == objects[r]
        names == {form.data[p - 1].name :
                     p \in {q \in 2..Len(form.data) : form.data[q] = Op("Do")
                                                      /\ form.data[q - 1].t = "name"}}
        xobjects == Deref(objects, Entry(Dictionary(ResourcesOf(objects, form)), "XObject"))
    IN  {Entry(xobjects, name).ref : name \in {n \in names : Entry(xobjects, n).kind = "Reference"}}

IsCyclic(objects) ==
    \E S \in SUBSET FormsOf(objects) : S # {} /\ \A r \in S : DrawnBy(objects, r) \cap S # {}

\* The recursion exhausts the machine's stack only in a document whose forms draw each
\* other in a circle: no chain of distinct forms does (text.rs:168, 343).
AbortsOnlyInCycles == status = "aborted" => IsCyclic(doc.objects)

\* The interpreter answers, or the machine's stack is full.
Terminates == <>(status # "running")

-----------------------------------------------------------------------------

\* What the caller sees of the loops.
Declared == INSTANCE DocumentAnswer WITH
    source <- doc,
    answer <- [status |-> IF status = "ok" THEN "ok" ELSE "pending",
               texts  |-> IF status = "ok" THEN results ELSE <<>>]

\* The loop over tokens, with its pending line, current font and recursion, answers for
\* every content, well formed or not, what the declarative text says of it (text.rs:51-193).
AnswersThePageText == Declared!Spec

Letters(text) == FlattenSeq([k \in DOMAIN text |-> IF text[k] = Space THEN <<>> ELSE <<text[k]>>])

\* When the text objects of a page and of its forms are well formed, then all that is
\* shown is in the page's text, in the order in which it is shown, with nothing between
\* but spaces (text.rs:64-193).
WellFormedTextIsComplete ==
    status = "ok" =>
        \A k \in DOMAIN results :
            WellFormedAlong(doc.objects, doc.pages[k])[<<>>] =>
                Letters(results[k]) = Letters(ReadingsAlong(doc.objects, doc.pages[k])[<<>>])
=============================================================================
