----------------------- MODULE TextInterpreter_proofs -----------------------
(***************************************************************************)
(* Proofs about TextInterpreter, for every document and every depth of the *)
(* machine's stack: no line is pending outside of a text object, the walk  *)
(* back through an array begins at a place that exists, only forms that    *)
(* draw each other in a circle exhaust the machine's stack, what is        *)
(* gathered are texts, one for each page, every document comes to an end,  *)
(* however its forms draw each other, the text of each page is the one     *)
(* that is declared without a state, and of a well-formed page it has all  *)
(* that is shown, in order.                                                *)
(***************************************************************************)
EXTENDS TextInterpreter, PdfSyntax_proofs, FiniteSetTheorems

FrameFields == {"content", "fonts", "resources", "next", "font", "inText", "line", "text"}

\* An activation in a text object has passed the operator that began it, and its line is
\* pending only there.
FrameInv(f) ==
    /\ DOMAIN f = FrameFields
    /\ f.next \in Nat \ {0}
    /\ f.inText \in BOOLEAN
    /\ f.inText => \E b \in 1..(f.next - 1) : f.content[b] = Op("BT")
    /\ f.line # <<>> => f.inText

Activations == {stack[k] : k \in DOMAIN stack}

StackInv ==
    /\ stack \in Seq(Activations)
    /\ Len(stack) <= MaxDepth
    /\ \A k \in 1..Len(stack) : FrameInv(stack[k])

-----------------------------------------------------------------------------
(***************************************************************************)
(* Frames                                                                  *)
(***************************************************************************)

\* A frame at the same place of the same stream, in or out of a text object as before.
SamePlace(f, g) ==
    /\ DOMAIN g = DOMAIN f
    /\ g.content = f.content
    /\ g.next = f.next
    /\ g.inText = f.inText

LEMMA NewFrame ==
    ASSUME NEW content, NEW fonts, NEW resources
    PROVE  FrameInv(Frame(content, fonts, resources))
  BY DEF Frame, FrameInv, FrameFields

LEMMA FlushedFrame ==
    ASSUME NEW f, FrameInv(f)
    PROVE  SamePlace(f, Flushed(f)) /\ Flushed(f).line = <<>>
  BY DEF FrameInv, FrameFields, SamePlace, Flushed

LEMMA FrameWithOperandShown ==
    ASSUME NEW f, NEW g, FrameInv(f), SamePlace(f, g)
    PROVE  SamePlace(f, WithOperandShown(g))
  BY DEF FrameInv, FrameFields, SamePlace, WithOperandShown

\* The next place of a text object still has its beginning before it.
LEMMA TextObjectGoesOn ==
    ASSUME NEW f, FrameInv(f), f.inText
    PROVE  \E b \in 1..((f.next + 1) - 1) : f.content[b] = Op("BT")
<1>1. PICK b \in 1..(f.next - 1) : f.content[b] = Op("BT")
  BY DEF FrameInv
<1>2. f.next \in Nat
  BY DEF FrameInv
<1>3. b \in 1..((f.next + 1) - 1)
  BY <1>2
<1> QED
  BY <1>1, <1>3

\* A frame that shows text only in a text object may go on.
LEMMA FrameGoesOn ==
    ASSUME NEW f, NEW g, FrameInv(f), SamePlace(f, g), g.line # <<>> => f.inText
    PROVE  FrameInv([g EXCEPT !.next = @ + 1])
<1> DEFINE h == [g EXCEPT !.next = @ + 1]
<1>1. DOMAIN g = FrameFields /\ g.content = f.content /\ g.next = f.next /\ g.inText = f.inText
  BY DEF FrameInv, SamePlace
<1>2. /\ DOMAIN h = FrameFields /\ h.content = f.content /\ h.next = f.next + 1
      /\ h.inText = f.inText /\ h.line = g.line
  BY <1>1 DEF FrameFields
<1>3. f.next + 1 \in Nat \ {0} /\ f.inText \in BOOLEAN
  BY DEF FrameInv
<1> HIDE DEF h
<1>4. h.inText => \E b \in 1..(h.next - 1) : h.content[b] = Op("BT")
  BY <1>2, TextObjectGoesOn
<1>5. FrameInv(h)
  BY <1>2, <1>3, <1>4 DEF FrameInv
<1> QED
  BY <1>5 DEF h

-----------------------------------------------------------------------------
(***************************************************************************)
(* The stack of activations                                                *)
(***************************************************************************)

LEMMA OwnElements ==
    ASSUME NEW S, NEW s \in Seq(S)
    PROVE  s \in Seq({s[k] : k \in DOMAIN s})
<1>1. Len(s) \in Nat /\ DOMAIN s = 1..Len(s) /\ s \in [1..Len(s) -> S]
  BY LenProperties
<1>2. s \in [1..Len(s) -> {s[k] : k \in DOMAIN s}]
  BY <1>1
<1> QED
  BY <1>1, <1>2, SeqDef

LEMMA StackAssembled ==
    ASSUME NEW S, stack' \in Seq(S), Len(stack') <= MaxDepth,
           \A k \in 1..Len(stack') : FrameInv(stack'[k])
    PROVE  StackInv'
<1>1. stack' \in Seq({stack'[k] : k \in DOMAIN stack'})
  BY OwnElements
<1> QED
  BY <1>1 DEF StackInv, Activations, FrameInv, Op

LEMMA StackFacts ==
    ASSUME StackInv, stack # <<>>
    PROVE  /\ Len(stack) \in Nat \ {0}
           /\ FrameInv(Top)
  BY EmptySeq, LenProperties DEF StackInv, Top

LEMMA ContinueKeepsStack ==
    ASSUME StackInv, stack # <<>>, NEW f,
           FrameInv([f EXCEPT !.next = @ + 1]), Continue(f)
    PROVE  StackInv'
<1> DEFINE moved == [f EXCEPT !.next = @ + 1]
           S == Activations \cup {moved}
<1>1. Len(stack) \in Nat \ {0}
  BY StackFacts
<1>2. stack \in Seq(S)
  BY SeqMonotonic DEF StackInv
<1>3. stack' = [stack EXCEPT ![Len(stack)] = moved]
  BY DEF Continue
<1>4. moved \in S
  OBVIOUS
<1> HIDE DEF S, moved
<1>5. /\ stack' \in Seq(S)
      /\ Len(stack') = Len(stack)
      /\ \A k \in 1..Len(stack) : stack'[k] = IF k = Len(stack) THEN moved ELSE stack[k]
  BY <1>1, <1>2, <1>3, <1>4, ExceptSeq
<1>6. \A k \in 1..Len(stack') : FrameInv(stack'[k])
  BY <1>5 DEF StackInv, moved
<1>7. Len(stack') <= MaxDepth
  BY <1>5 DEF StackInv
<1> QED
  BY <1>5, <1>6, <1>7, StackAssembled

LEMMA PushKeepsStack ==
    ASSUME StackInv, Len(stack) < MaxDepth, NEW f, FrameInv(f), stack' = Append(stack, f)
    PROVE  StackInv'
<1> DEFINE S == Activations \cup {f}
<1>1. stack \in Seq(S) /\ f \in S
  BY SeqMonotonic DEF StackInv
<1>2. Len(stack) \in Nat
  BY <1>1, LenProperties
<1> HIDE DEF S
<1>3. /\ stack' \in Seq(S)
      /\ Len(stack') = Len(stack) + 1
      /\ \A k \in 1..Len(stack) : stack'[k] = stack[k]
      /\ stack'[Len(stack) + 1] = f
  BY <1>1, AppendProperties
<1>4. ASSUME NEW k \in 1..Len(stack') PROVE FrameInv(stack'[k])
  <2>1. k \in 1..Len(stack) \/ k = Len(stack) + 1
    BY <1>2, <1>3
  <2> QED
    BY <1>3, <2>1 DEF StackInv
<1>5. Len(stack') <= MaxDepth
  BY <1>2, <1>3, DepthAssumption
<1> QED
  BY <1>3, <1>4, <1>5, StackAssembled

\* The stack after a form has returned: its caller is at the end again.
LEMMA ReturnedStack ==
    ASSUME StackInv, ReturnForm, NEW n, n = Len(stack) - 1, NEW moved,
           moved = [stack[n] EXCEPT !.text = Appended(@, FullText), !.next = @ + 1]
    PROVE  /\ Len(stack) \in Nat /\ n \in 1..Len(stack) /\ n < Len(stack)
           /\ stack' \in Seq(Activations \cup {moved})
           /\ Len(stack') = n
           /\ \A k \in 1..n : stack'[k] = IF k = n THEN moved ELSE stack[k]
<1> DEFINE rest == SubSeq(stack, 1, n)
           S == Activations \cup {moved}
<1>1. stack \in Seq(S) /\ moved \in S
  BY SeqMonotonic DEF StackInv
<1>2. Len(stack) \in Nat /\ Len(stack) > 1
  BY <1>1, LenProperties DEF ReturnForm
<1>3. n \in 1..Len(stack) /\ n \in Nat /\ n < Len(stack)
  BY <1>2
<1>4. \A k \in 1..n : stack[k] \in S
  BY <1>1, <1>2, <1>3, ElementOfSeq
<1>5. /\ rest \in Seq(S)
      /\ Len(rest) = n
      /\ \A k \in 1..n : rest[k] = stack[k]
  <2>1. /\ SubSeq(stack, 1, n) \in Seq(S)
        /\ Len(SubSeq(stack, 1, n)) = (IF 1 <= n THEN n - 1 + 1 ELSE 0)
        /\ \A k \in 1..(n - 1 + 1) : SubSeq(stack, 1, n)[k] = stack[1 + k - 1]
    <3> HIDE DEF S
    <3> QED
      BY <1>3, <1>4, SubSeqProperties
  <2>2. n - 1 + 1 = n /\ 1 <= n /\ \A k \in 1..n : 1 + k - 1 = k
    BY <1>3
  <2> QED
    BY <2>1, <2>2
<1>6. stack' = [rest EXCEPT ![n] = moved]
  BY DEF ReturnForm
<1>7. n \in 1..Len(rest)
  BY <1>3, <1>5
<1> HIDE DEF S, rest
<1>8. /\ stack' \in Seq(S)
      /\ Len(stack') = n
      /\ \A k \in 1..n : stack'[k] = IF k = n THEN moved ELSE rest[k]
  BY <1>1, <1>5, <1>6, <1>7, ExceptSeq
<1> QED
  BY <1>2, <1>3, <1>5, <1>8 DEF S

\* The caller goes on with the text of the form that it has drawn.
LEMMA ReturnKeepsStack ==
    ASSUME StackInv, ReturnForm
    PROVE  StackInv'
<1> DEFINE n == Len(stack) - 1
           caller == stack[n]
           moved == [caller EXCEPT !.text = Appended(@, FullText), !.next = @ + 1]
           S == Activations \cup {moved}
<1>1. /\ Len(stack) \in Nat /\ n \in 1..Len(stack) /\ n < Len(stack)
      /\ stack' \in Seq(S)
      /\ Len(stack') = n
      /\ \A k \in 1..n : stack'[k] = IF k = n THEN moved ELSE stack[k]
  BY ReturnedStack
<1>2. FrameInv(moved)
  <2> DEFINE g == [caller EXCEPT !.text = Appended(@, FullText)]
  <2>1. FrameInv(caller)
    BY <1>1 DEF StackInv
  <2>2. SamePlace(caller, g) /\ g.line = caller.line
    BY <2>1 DEF FrameInv, FrameFields, SamePlace
  <2>3. moved = [g EXCEPT !.next = @ + 1]
    BY <2>1 DEF FrameInv, FrameFields
  <2>4. g.line # <<>> => caller.inText
    BY <2>1, <2>2 DEF FrameInv
  <2> HIDE DEF g
  <2> QED
    BY <2>1, <2>2, <2>3, <2>4, FrameGoesOn
<1> HIDE DEF moved, S
<1>3. \A k \in 1..Len(stack') : FrameInv(stack'[k])
  BY <1>1, <1>2 DEF StackInv
<1>4. Len(stack') <= MaxDepth
  BY <1>1, DepthAssumption DEF StackInv
<1> QED
  BY <1>1, <1>3, <1>4, StackAssembled

-----------------------------------------------------------------------------
(***************************************************************************)
(* The operators                                                           *)
(***************************************************************************)

\* The frame that is running, in or out of a text object.
LEMMA TopGoesOn ==
    ASSUME StackInv, stack # <<>>
    PROVE  /\ FrameInv(Top)
           /\ SamePlace(Top, Top)
           /\ Top.line # <<>> => Top.inText
  BY StackFacts DEF FrameInv, SamePlace

LEMMA BeginTextKeepsStack == StackInv /\ BeginText => StackInv'
<1> SUFFICES ASSUME StackInv, BeginText PROVE StackInv'
  OBVIOUS
<1> DEFINE g == [Top EXCEPT !.inText = TRUE, !.line = <<>>]
           h == [g EXCEPT !.next = @ + 1]
<1>1. stack # <<>> /\ Token = Op("BT") /\ Continue(g)
  BY DEF BeginText, AtOperator, AtToken
<1>2. FrameInv(Top)
  BY <1>1, StackFacts
<1>3. /\ DOMAIN h = FrameFields /\ h.content = Top.content /\ h.next = Top.next + 1
      /\ h.inText = TRUE /\ h.line = <<>>
  BY <1>2 DEF FrameInv, FrameFields
<1>4. Top.content[Top.next] = Op("BT")
  BY <1>1 DEF Token
<1>5. Top.next \in 1..((Top.next + 1) - 1) /\ Top.next + 1 \in Nat \ {0}
  BY <1>2 DEF FrameInv
<1>6. FrameInv(h)
  <2> HIDE DEF h
  <2> QED
    BY <1>3, <1>4, <1>5 DEF FrameInv
<1> HIDE DEF g
<1> QED
  BY <1>1, <1>6, ContinueKeepsStack

LEMMA EndTextKeepsStack == StackInv /\ EndText => StackInv'
<1> SUFFICES ASSUME StackInv, EndText PROVE StackInv'
  OBVIOUS
<1> DEFINE f == Flushed(Top)
           g == [f EXCEPT !.inText = FALSE]
           h == [g EXCEPT !.next = @ + 1]
<1>1. stack # <<>> /\ Continue(g)
  BY DEF EndText, AtOperator, AtToken
<1>2. FrameInv(Top)
  BY <1>1, StackFacts
<1>3. SamePlace(Top, f) /\ f.line = <<>>
  BY <1>2, FlushedFrame
<1> HIDE DEF f
<1>4. /\ DOMAIN h = FrameFields /\ h.next = Top.next + 1
      /\ h.inText = FALSE /\ h.line = <<>>
  BY <1>2, <1>3 DEF FrameInv, FrameFields, SamePlace
<1>5. Top.next + 1 \in Nat \ {0}
  BY <1>2 DEF FrameInv
<1>6. FrameInv(h)
  <2> HIDE DEF h
  <2> QED
    BY <1>4, <1>5 DEF FrameInv
<1> HIDE DEF g
<1> QED
  BY <1>1, <1>6, ContinueKeepsStack

\* The operators whose frame is at the same place, and shows only in a text object.
LEMMA SamePlaceKeepsStack ==
    ASSUME StackInv, stack # <<>>, NEW g,
           SamePlace(Top, g), g.line # <<>> => Top.inText, Continue(g)
    PROVE  StackInv'
<1>1. FrameInv(Top)
  BY StackFacts
<1>2. FrameInv([g EXCEPT !.next = @ + 1])
  BY <1>1, FrameGoesOn
<1> QED
  BY <1>2, ContinueKeepsStack

LEMMA SetFontKeepsStack == StackInv /\ SetFont => StackInv'
<1> SUFFICES ASSUME StackInv, SetFont PROVE StackInv'
  OBVIOUS
<1> DEFINE g == IF HasOperands(2) /\ Operand(2).t = "name"
                THEN [Top EXCEPT !.font = FontNamed(Top.fonts, Operand(2).name)]
                ELSE Top
<1>1. stack # <<>> /\ Continue(g)
  BY DEF SetFont, AtOperator, AtToken
<1>2. FrameInv(Top)
  BY <1>1, StackFacts
<1>3. SamePlace(Top, g) /\ g.line = Top.line
  BY <1>2 DEF FrameInv, FrameFields, SamePlace
<1>4. g.line # <<>> => Top.inText
  BY <1>2, <1>3 DEF FrameInv
<1> HIDE DEF g
<1> QED
  BY <1>1, <1>3, <1>4, SamePlaceKeepsStack

LEMMA ShowTextKeepsStack == StackInv /\ ShowText => StackInv'
<1> SUFFICES ASSUME StackInv, ShowText PROVE StackInv'
  OBVIOUS
<1> DEFINE g == IF HasOperands(1) /\ Top.inText THEN WithOperandShown(Top) ELSE Top
<1>1. stack # <<>> /\ Continue(g)
  BY DEF ShowText, AtOperator, AtToken
<1>2. FrameInv(Top) /\ SamePlace(Top, Top) /\ (Top.line # <<>> => Top.inText)
  BY <1>1, TopGoesOn
<1>3. SamePlace(Top, WithOperandShown(Top))
  BY <1>2, FrameWithOperandShown
<1>4. SamePlace(Top, g) /\ (g.line # <<>> => Top.inText)
  BY <1>2, <1>3
<1> HIDE DEF g
<1> QED
  BY <1>1, <1>4, SamePlaceKeepsStack

LEMMA ShowArrayKeepsStack == StackInv /\ ShowArray => StackInv'
<1> SUFFICES ASSUME StackInv, ShowArray PROVE StackInv'
  OBVIOUS
<1> DEFINE items == ItemsBackwards(Top.content, Top.next - 1)
           shown == [Top EXCEPT !.line = @ \o ArrayText(items, Top.font)]
           g == IF WalksArray THEN shown ELSE Top
<1>1. stack # <<>> /\ Continue(g)
  BY DEF ShowArray, AtOperator, AtToken
<1>2. FrameInv(Top) /\ SamePlace(Top, Top) /\ (Top.line # <<>> => Top.inText)
  BY <1>1, TopGoesOn
<1>3. SamePlace(Top, shown)
  BY <1>2 DEF FrameInv, FrameFields, SamePlace
<1>4. WalksArray => Top.inText
  BY DEF WalksArray
<1> HIDE DEF shown
<1>5. SamePlace(Top, g) /\ (g.line # <<>> => Top.inText)
  BY <1>2, <1>3, <1>4
<1> HIDE DEF g
<1> QED
  BY <1>1, <1>5, SamePlaceKeepsStack

LEMMA ShowOnNextLineKeepsStack ==
    ASSUME StackInv, NEW op, NEW operands, ShowOnNextLine(op, operands)
    PROVE  StackInv'
<1> DEFINE shown == WithOperandShown(Flushed(Top))
           g == IF HasOperands(operands) /\ Top.inText THEN shown ELSE Top
<1>1. stack # <<>> /\ Continue(g)
  BY DEF ShowOnNextLine, AtOperator, AtToken
<1>2. FrameInv(Top) /\ SamePlace(Top, Top) /\ (Top.line # <<>> => Top.inText)
  BY <1>1, TopGoesOn
<1>3. SamePlace(Top, shown)
  BY <1>2, FlushedFrame, FrameWithOperandShown
<1> HIDE DEF shown
<1>4. SamePlace(Top, g) /\ (g.line # <<>> => Top.inText)
  BY <1>2, <1>3
<1> HIDE DEF g
<1> QED
  BY <1>1, <1>4, SamePlaceKeepsStack

LEMMA SkipKeepsStack ==
    ASSUME StackInv, stack # <<>>, Continue(Top)
    PROVE  StackInv'
  BY TopGoesOn, SamePlaceKeepsStack

LEMMA DrawFormKeepsStack == StackInv /\ DrawForm => StackInv'
<1> SUFFICES ASSUME StackInv, DrawForm PROVE StackInv'
  OBVIOUS
<1>1. PICK form, resources :
          stack' = Append(stack, Frame(form.data, FontsWithin(doc.objects, resources, Top.fonts),
                                       resources))
  BY DEF DrawForm
<1>2. Len(stack) < MaxDepth
  BY DEF DrawForm
<1> QED
  BY <1>1, <1>2, NewFrame, PushKeepsStack

LEMMA OpenPageKeepsStack == StackInv /\ OpenPage => StackInv'
<1> SUFFICES ASSUME StackInv, OpenPage PROVE StackInv'
  OBVIOUS
<1> DEFINE f == Frame(PageTokens(NextPage), NextPage.fonts, NextPage.resources)
<1>1. stack' = <<f>>
  BY DEF OpenPage
<1>2. FrameInv(f)
  BY NewFrame
<1> HIDE DEF f
<1>3. <<f>> \in Seq({f}) /\ Len(<<f>>) = 1 /\ <<f>>[1] = f
  OBVIOUS
<1>4. \A k \in 1..Len(stack') : FrameInv(stack'[k])
  BY <1>1, <1>2, <1>3
<1>5. Len(stack') <= MaxDepth
  BY <1>1, <1>3, DepthAssumption
<1> QED
  BY <1>1, <1>3, <1>4, <1>5, StackAssembled

LEMMA EmptyStack ==
    ASSUME stack' = <<>>
    PROVE  StackInv'
<1>1. stack' \in Seq({}) /\ Len(stack') = 0
  BY EmptySeq
<1>2. \A k \in 1..Len(stack') : FrameInv(stack'[k])
  BY <1>1
<1>3. Len(stack') <= MaxDepth
  BY <1>1, DepthAssumption
<1> QED
  BY <1>1, <1>2, <1>3, StackAssembled

-----------------------------------------------------------------------------
(***************************************************************************)
(* The theorems                                                            *)
(***************************************************************************)

LEMMA StackInvInit == Init => StackInv
<1> SUFFICES ASSUME Init PROVE StackInv
  OBVIOUS
<1>1. stack = <<>>
  BY DEF Init
<1>2. stack \in Seq(Activations) /\ Len(stack) = 0
  BY <1>1, EmptySeq
<1> QED
  BY <1>2, DepthAssumption DEF StackInv

LEMMA StackInvStep == StackInv /\ [Next]_vars => StackInv'
<1> SUFFICES ASSUME StackInv, [Next]_vars PROVE StackInv'
  OBVIOUS
<1>1. CASE stack' = stack
  BY <1>1 DEF StackInv, Activations, FrameInv, Op
<1>2. CASE UNCHANGED vars
  BY <1>1, <1>2 DEF vars
<1>3. CASE SkipEmptyPage \/ Finish \/ DrawTooDeep
  BY <1>1, <1>3 DEF SkipEmptyPage, Finish, DrawTooDeep
<1>4. CASE OpenPage
  BY <1>4, OpenPageKeepsStack
<1>5. CASE FinishPage
  BY <1>5, EmptyStack DEF FinishPage
<1>6. CASE BeginText
  BY <1>6, BeginTextKeepsStack
<1>7. CASE EndText
  BY <1>7, EndTextKeepsStack
<1>8. CASE SetFont
  BY <1>8, SetFontKeepsStack
<1>9. CASE PassToken
  BY <1>9, SkipKeepsStack DEF PassToken, AtToken
<1>10. CASE ShowNext
  BY <1>10, ShowTextKeepsStack, ShowArrayKeepsStack, ShowOnNextLineKeepsStack
     DEF ShowNext, NextLine, NextLineSpaced
<1>11. CASE DrawNothing
  BY <1>11, SkipKeepsStack DEF DrawNothing, AtOperator, AtToken
<1>12. CASE DrawForm
  BY <1>12, DrawFormKeepsStack
<1>13. CASE ReturnForm
  BY <1>13, ReturnKeepsStack
<1> QED
  BY <1>2, <1>3, <1>4, <1>5, <1>6, <1>7, <1>8, <1>9, <1>10, <1>11, <1>12, <1>13
     DEF Next, DrawNext

\* The inductive invariant: what each activation carries from token to token belongs to
\* a text object that it has entered and not left.
THEOREM Invariance == Spec => []StackInv
<1>1. Init => StackInv
  BY StackInvInit
<1>2. StackInv /\ [Next]_vars => StackInv'
  BY StackInvStep
<1> QED
  BY <1>1, <1>2, PTL DEF Spec

\* No line is pending outside of a text object, at any depth of the recursion, so that
\* a BT or a Do that stands there neither clears nor overtakes one (text.rs:64-77).
THEOREM LinesArePendingOnlyInText == Spec => []LineOnlyInText
<1>1. StackInv => LineOnlyInText
  <2> SUFFICES ASSUME StackInv, NEW k \in DOMAIN stack, stack[k].line # <<>>
               PROVE  stack[k].inText
    BY DEF LineOnlyInText
  <2>1. k \in 1..Len(stack)
    BY LenProperties DEF StackInv
  <2> QED
    BY <2>1 DEF StackInv, FrameInv
<1> QED
  BY <1>1, Invariance, PTL

\* The index i - 2 of the walk back through an array does not wrap around, whatever
\* the content is (text.rs:100).
THEOREM ArrayWalkStartsInside == Spec => []NoUnderflow
<1>1. StackInv => NoUnderflow
  <2> SUFFICES ASSUME StackInv, AtOperator("TJ"), WalksArray PROVE Top.next > 2
    BY DEF NoUnderflow
  <2>1. stack # <<>> /\ Top.inText /\ Top.content[Top.next - 1] = ArrayEnd
    BY DEF AtOperator, AtToken, WalksArray, Operand
  <2>2. FrameInv(Top)
    BY <2>1, StackFacts
  <2>3. PICK b \in 1..(Top.next - 1) : Top.content[b] = Op("BT")
    BY <2>1, <2>2 DEF FrameInv
  <2>4. Top.next \in Nat
    BY <2>2 DEF FrameInv
  <2>5. Op("BT") # ArrayEnd
    <3>1. Op("BT").t = "op" /\ ArrayEnd.t = "]"
      BY DEF Op, ArrayEnd
    <3> QED
      BY <3>1
  <2>6. b # Top.next - 1
    BY <2>1, <2>3, <2>5
  <2> QED
    BY <2>3, <2>4, <2>6
<1> QED
  BY <1>1, Invariance, PTL

-----------------------------------------------------------------------------
(***************************************************************************)
(* Cycles                                                                  *)
(***************************************************************************)

\* A chain of forms, each drawn by the one before, that is too long for the forms there
\* are comes back to one of them.
LEMMA LongChainsAreCyclic ==
    ASSUME NEW objects, IsFiniteSet(FormsOf(objects)), NEW n \in Nat,
           Cardinality(FormsOf(objects)) < n,
           NEW refs \in [2..(n + 1) -> FormsOf(objects)],
           \A k \in 2..n : refs[k + 1] \in DrawnBy(objects, refs[k])
    PROVE  IsCyclic(objects)
<1> DEFINE forms == FormsOf(objects)
<1>1. IsFiniteSet(2..(n + 1)) /\ Cardinality(2..(n + 1)) = n
  <2>1. Cardinality(forms) \in Nat
    BY FS_CardinalityType
  <2>2. 2 \in Int /\ n + 1 \in Int /\ ~(2 > n + 1)
    BY <2>1
  <2>3. IsFiniteSet(2..(n + 1)) /\ Cardinality(2..(n + 1)) = (n + 1) - 2 + 1
    BY <2>2, FS_Interval
  <2> QED
    BY <2>3
<1>2. \E x, y \in 2..(n + 1) : x # y /\ refs[x] = refs[y]
  BY <1>1, FS_PigeonHole
<1>3. PICK x \in 2..(n + 1), y \in 2..(n + 1) : x < y /\ refs[x] = refs[y]
  <2>1. PICK a \in 2..(n + 1), b \in 2..(n + 1) : a # b /\ refs[a] = refs[b]
    BY <1>2
  <2>2. CASE a < b
    BY <2>1, <2>2
  <2>3. CASE b < a
    BY <2>1, <2>3
  <2> QED
    BY <2>1, <2>2, <2>3
<1> DEFINE S == {refs[k] : k \in x..(y - 1)}
<1>4. S \in SUBSET forms /\ S # {}
  <2>1. x \in x..(y - 1)
    BY <1>3
  <2>2. \A k \in x..(y - 1) : k \in 2..(n + 1)
    BY <1>3
  <2> QED
    BY <2>1, <2>2
<1>5. ASSUME NEW r \in S PROVE DrawnBy(objects, r) \cap S # {}
  <2>1. PICK k \in x..(y - 1) : r = refs[k]
    OBVIOUS
  <2>2. k \in 2..n
    BY <1>3
  <2>3. refs[k + 1] \in DrawnBy(objects, r)
    BY <2>1, <2>2
  <2>4. refs[k + 1] \in S
    <3>1. CASE k = y - 1
      <4>1. refs[k + 1] = refs[x] /\ x \in x..(y - 1)
        BY <1>3, <3>1
      <4> QED
        BY <4>1
    <3>2. CASE k # y - 1
      <4>1. k + 1 \in x..(y - 1)
        BY <1>3, <3>2
      <4> QED
        BY <4>1
    <3> QED
      BY <3>1, <3>2
  <2> QED
    BY <2>3, <2>4
<1> HIDE DEF S
<1> QED
  BY <1>4, <1>5 DEF IsCyclic

\* What a form draws is one of the forms that its resources name.
LEMMA DrawnByForm ==
    ASSUME NEW objects, NEW r \in FormsOf(objects), Len(objects[r].data) \in Nat,
           NEW q \in 2..Len(objects[r].data),
           objects[r].data[q] = Op("Do"), objects[r].data[q - 1].t = "name",
           NEW target,
           target = Entry(Deref(objects, Entry(Dictionary(ResourcesOf(objects, objects[r])), "XObject")),
                          objects[r].data[q - 1].name),
           target.kind = "Reference"
    PROVE  target.ref \in DrawnBy(objects, r)
<1> DEFINE form == objects[r]
           places == {p \in 2..Len(form.data) : form.data[p] = Op("Do") /\ form.data[p - 1].t = "name"}
           names == {form.data[p - 1].name : p \in places}
           xobjects == Deref(objects, Entry(Dictionary(ResourcesOf(objects, form)), "XObject"))
           name == form.data[q - 1].name
<1>1. q \in places
  OBVIOUS
<1> HIDE DEF places
<1>2. name \in names
  BY <1>1
<1>3. target = Entry(xobjects, name)
  OBVIOUS
<1>4. DrawnBy(objects, r) =
        {Entry(xobjects, m).ref : m \in {k \in names : Entry(xobjects, k).kind = "Reference"}}
  BY DEF DrawnBy, places
<1> HIDE DEF names, xobjects, name
<1>5. name \in {k \in names : Entry(xobjects, k).kind = "Reference"}
  BY <1>2, <1>3
<1>6. Entry(xobjects, name).ref \in
        {Entry(xobjects, m).ref : m \in {k \in names : Entry(xobjects, k).kind = "Reference"}}
  BY <1>5
<1> QED
  BY <1>3, <1>4, <1>6

\* A drawable XObject is the object of the table that a reference leads to.
LEMMA DrawableIsForm ==
    ASSUME NEW objects, NEW resources, NEW name, IsDrawable(XObjectNamed(objects, resources, name))
    PROVE  LET target == Entry(Deref(objects, Entry(Dictionary(resources), "XObject")), name) IN
           /\ target.kind = "Reference"
           /\ target.ref \in FormsOf(objects)
           /\ XObjectNamed(objects, resources, name) = objects[target.ref]
<1> DEFINE target == Entry(Deref(objects, Entry(Dictionary(resources), "XObject")), name)
           drawn == XObjectNamed(objects, resources, name)
<1>1. drawn = IF target.kind = "Reference" THEN Resolve(objects, target.ref) ELSE Null
  BY DEF XObjectNamed
<1>2. drawn # Null
  <2>1. Null.kind # "Stream"
    BY DEF Null
  <2>2. drawn.kind = "Stream"
    BY DEF IsDrawable
  <2> QED
    BY <2>1, <2>2
<1> HIDE DEF target, drawn
<1>3. target.kind = "Reference" /\ drawn = Resolve(objects, target.ref)
  BY <1>1, <1>2
<1>4. target.ref \in DOMAIN objects /\ drawn = objects[target.ref]
  BY <1>2, <1>3 DEF Resolve
<1>5. IsDrawable(drawn)
  BY DEF drawn
<1>6. target.ref \in FormsOf(objects)
  BY <1>4, <1>5 DEF FormsOf
<1> QED
  BY <1>3, <1>4, <1>6 DEF target, drawn

-----------------------------------------------------------------------------
(***************************************************************************)
(* The forms behind the activations                                        *)
(***************************************************************************)

\* Each activation but the first runs a form that the one before it draws.
Describes(refs, objects, s) ==
    /\ refs \in [2..Len(s) -> FormsOf(objects)]
    /\ \A k \in 2..Len(s) :
          /\ s[k].content = objects[refs[k]].data
          /\ s[k].resources = ResourcesOf(objects, objects[refs[k]])
    /\ \A k \in 2..(Len(s) - 1) : refs[k + 1] \in DrawnBy(objects, refs[k])

IsChain(objects, s) == \E refs : Describes(refs, objects, s)

\* Activations keep their streams.
SameStream(f, g) == g.content = f.content /\ g.resources = f.resources

LEMMA ShortStackIsChain ==
    ASSUME NEW objects, NEW s, Len(s) \in {0, 1}
    PROVE  IsChain(objects, s)
<1> DEFINE refs == [k \in {} |-> k]
<1>1. 2..Len(s) = {} /\ 2..(Len(s) - 1) = {}
  <2>1. CASE Len(s) = 0
    BY <2>1
  <2>2. CASE Len(s) = 1
    BY <2>2
  <2> QED
    BY <2>1, <2>2
<1>2. refs \in [2..Len(s) -> FormsOf(objects)]
  BY <1>1
<1>3. Describes(refs, objects, s)
  BY <1>1, <1>2 DEF Describes
<1> QED
  BY <1>3 DEF IsChain

LEMMA ChainGoesOn ==
    ASSUME NEW objects, NEW s, NEW t, Len(s) \in Nat, Len(t) = Len(s), IsChain(objects, s),
           \A k \in 1..Len(s) : SameStream(s[k], t[k])
    PROVE  IsChain(objects, t)
<1>1. PICK refs : Describes(refs, objects, s)
  BY DEF IsChain
<1>2. \A k \in 2..Len(s) : SameStream(s[k], t[k])
  OBVIOUS
<1>3. Describes(refs, objects, t)
  BY <1>1, <1>2 DEF Describes, SameStream
<1> QED
  BY <1>3 DEF IsChain

LEMMA ChainShrinks ==
    ASSUME NEW objects, NEW s, NEW t, Len(s) \in Nat, Len(s) > 1, Len(t) = Len(s) - 1,
           IsChain(objects, s), \A k \in 1..Len(t) : SameStream(s[k], t[k])
    PROVE  IsChain(objects, t)
<1>1. PICK refs : Describes(refs, objects, s)
  BY DEF IsChain
<1> DEFINE n == Len(s) - 1
           rest == [k \in 2..n |-> refs[k]]
<1>2. \A k \in 2..n : k \in 2..Len(s) /\ k \in 1..Len(t)
  OBVIOUS
<1>3. \A k \in 2..(n - 1) : k \in 2..n /\ k + 1 \in 2..n
  OBVIOUS
<1>4. rest \in [2..n -> FormsOf(objects)]
  BY <1>1, <1>2 DEF Describes
<1>5. \A k \in 2..n : t[k].content = objects[rest[k]].data
                      /\ t[k].resources = ResourcesOf(objects, objects[rest[k]])
  BY <1>1, <1>2 DEF Describes, SameStream
<1>6. \A k \in 2..(n - 1) : rest[k + 1] \in DrawnBy(objects, rest[k])
  BY <1>1, <1>3 DEF Describes
<1>7. Len(t) = n
  OBVIOUS
<1> HIDE DEF rest, n
<1>8. Describes(rest, objects, t)
  BY <1>4, <1>5, <1>6, <1>7 DEF Describes
<1> QED
  BY <1>8 DEF IsChain

\* The reference to a form that the last activation draws goes to the end of the chain.
LEMMA ChainOfForms ==
    ASSUME NEW objects, NEW s, Len(s) \in Nat \ {0}, NEW refs, Describes(refs, objects, s),
           NEW d \in FormsOf(objects), Len(s) >= 2 => d \in DrawnBy(objects, refs[Len(s)])
    PROVE  \E more \in [2..(Len(s) + 1) -> FormsOf(objects)] :
              /\ more[Len(s) + 1] = d
              /\ \A k \in 2..Len(s) : more[k] = refs[k]
              /\ \A k \in 2..Len(s) : more[k + 1] \in DrawnBy(objects, more[k])
<1> DEFINE n == Len(s)
           more == [k \in 2..(n + 1) |-> IF k = n + 1 THEN d ELSE refs[k]]
<1>1. more \in [2..(n + 1) -> FormsOf(objects)]
  BY DEF Describes
<1>2. more[n + 1] = d
  OBVIOUS
<1>3. \A k \in 2..n : more[k] = refs[k]
  OBVIOUS
<1>4. ASSUME NEW k \in 2..n PROVE more[k + 1] \in DrawnBy(objects, more[k])
  <2>1. CASE k = n
    BY <1>2, <1>3, <2>1
  <2>2. CASE k # n
    <3>1. k \in 2..(n - 1) /\ k + 1 \in 2..n
      BY <2>2
    <3>2. refs[k + 1] \in DrawnBy(objects, refs[k])
      BY <3>1 DEF Describes
    <3> QED
      BY <1>3, <3>1, <3>2
  <2> QED
    BY <2>1, <2>2
<1> QED
  BY <1>1, <1>2, <1>3, <1>4

LEMMA ChainGrows ==
    ASSUME NEW objects, NEW s, NEW t, Len(s) \in Nat \ {0}, NEW refs, Describes(refs, objects, s),
           NEW d \in FormsOf(objects), Len(s) >= 2 => d \in DrawnBy(objects, refs[Len(s)]),
           Len(t) = Len(s) + 1, \A k \in 1..Len(s) : SameStream(s[k], t[k]),
           t[Len(s) + 1].content = objects[d].data,
           t[Len(s) + 1].resources = ResourcesOf(objects, objects[d])
    PROVE  IsChain(objects, t)
<1> DEFINE n == Len(s)
<1>1. PICK more \in [2..(n + 1) -> FormsOf(objects)] :
         /\ more[n + 1] = d
         /\ \A k \in 2..n : more[k] = refs[k]
         /\ \A k \in 2..n : more[k + 1] \in DrawnBy(objects, more[k])
  BY ChainOfForms
<1>2. ASSUME NEW k \in 2..(n + 1)
      PROVE  t[k].content = objects[more[k]].data /\ t[k].resources = ResourcesOf(objects, objects[more[k]])
  <2>1. CASE k = n + 1
    BY <1>1, <2>1
  <2>2. CASE k # n + 1
    <3>1. k \in 2..n /\ k \in 1..n
      BY <2>2
    <3> QED
      BY <1>1, <3>1 DEF Describes, SameStream
  <2> QED
    BY <2>1, <2>2
<1>3. Len(t) = n + 1 /\ (n + 1) - 1 = n
  OBVIOUS
<1> HIDE DEF n
<1>4. Describes(more, objects, t)
  BY <1>1, <1>2, <1>3 DEF Describes
<1> QED
  BY <1>4 DEF IsChain

-----------------------------------------------------------------------------
(***************************************************************************)
(* The recursion ends, unless forms draw each other                        *)
(***************************************************************************)

ChainInv ==
    /\ doc \in Documents
    /\ IsChain(doc.objects, stack)
    /\ status = "aborted" => IsCyclic(doc.objects)

\* An activation that stands at a Do which draws a form.
LEMMA DrawExtendsChain ==
    ASSUME StackInv, ChainInv, AtOperator("Do"), IsDrawable(Drawn),
           NEW refs, Describes(refs, doc.objects, stack)
    PROVE  \E d \in FormsOf(doc.objects) :
              /\ Drawn = doc.objects[d]
              /\ Len(stack) >= 2 => d \in DrawnBy(doc.objects, refs[Len(stack)])
<1> DEFINE name == Operand(1).name
           target == Entry(Deref(doc.objects, Entry(Dictionary(Top.resources), "XObject")), name)
<1>1. HasOperands(1) /\ Operand(1).t = "name"
  <2>1. Null.kind # "Stream"
    BY DEF Null
  <2>2. Drawn # Null
    BY <2>1 DEF IsDrawable
  <2> QED
    BY <2>2 DEF Drawn
<1>2. Drawn = XObjectNamed(doc.objects, Top.resources, name)
  BY <1>1 DEF Drawn
<1>3. /\ target.kind = "Reference"
      /\ target.ref \in FormsOf(doc.objects)
      /\ Drawn = doc.objects[target.ref]
  BY <1>2, DrawableIsForm
<1>4. stack # <<>> /\ Top.next <= Len(Top.content) /\ Top.content[Top.next] = Op("Do")
  BY DEF AtOperator, AtToken, Token
<1>5. Top.next \in Nat /\ Top.next > 1 /\ Len(stack) \in Nat
  BY <1>1, <1>4, StackFacts DEF FrameInv, HasOperands
<1>6. ASSUME Len(stack) >= 2
      PROVE  target.ref \in DrawnBy(doc.objects, refs[Len(stack)])
  <2> DEFINE r == refs[Len(stack)]
  <2>1. Len(stack) \in 2..Len(stack)
    BY <1>5, <1>6
  <2>2. /\ r \in FormsOf(doc.objects)
        /\ Top.content = doc.objects[r].data
        /\ Top.resources = ResourcesOf(doc.objects, doc.objects[r])
    BY <2>1 DEF Describes, Top
  <2>3. Len(doc.objects[r].data) \in Nat
    BY <2>2, DocumentsAssumption DEF ChainInv, IsContent
  <2>4. Top.next \in 2..Len(doc.objects[r].data)
    BY <1>4, <1>5, <2>2, <2>3
  <2>5. doc.objects[r].data[Top.next] = Op("Do") /\ doc.objects[r].data[Top.next - 1].t = "name"
    BY <1>1, <1>4, <2>2 DEF Operand
  <2>6. target = Entry(Deref(doc.objects, Entry(Dictionary(ResourcesOf(doc.objects, doc.objects[r])), "XObject")),
                       doc.objects[r].data[Top.next - 1].name)
    BY <2>2 DEF Operand
  <2> HIDE DEF target, r
  <2> QED
    BY <1>3, <2>2, <2>3, <2>4, <2>5, <2>6, DrawnByForm DEF r
<1> HIDE DEF target
<1> QED
  BY <1>3, <1>6

\* The forms of each document are fewer than the activations that the machine has room for.
FormsFit == \A d \in Documents : Cardinality(FormsOf(d.objects)) < MaxDepth

LEMMA TooDeepIsCyclic ==
    ASSUME FormsFit, StackInv, ChainInv, DrawTooDeep
    PROVE  IsCyclic(doc.objects)
<1>1. AtOperator("Do") /\ IsDrawable(Drawn) /\ Len(stack) = MaxDepth
  BY DEF DrawTooDeep
<1>2. PICK refs : Describes(refs, doc.objects, stack)
  BY DEF ChainInv, IsChain
<1>3. PICK d \in FormsOf(doc.objects) :
         Len(stack) >= 2 => d \in DrawnBy(doc.objects, refs[Len(stack)])
  BY <1>1, <1>2, DrawExtendsChain
<1>4. Len(stack) \in Nat \ {0} /\ Len(stack) \in Nat
  BY <1>1, DepthAssumption
<1>5. PICK more \in [2..(Len(stack) + 1) -> FormsOf(doc.objects)] :
         \A k \in 2..Len(stack) : more[k + 1] \in DrawnBy(doc.objects, more[k])
  BY <1>2, <1>3, <1>4, ChainOfForms
<1>6. IsFiniteSet(FormsOf(doc.objects)) /\ Cardinality(FormsOf(doc.objects)) < Len(stack)
  BY <1>1, DocumentsAssumption DEF ChainInv, FormsFit
<1> QED
  BY <1>4, <1>5, <1>6, LongChainsAreCyclic

\* The operators that stay in their activation do not change its stream.
LEMMA ContinueKeepsChain ==
    ASSUME StackInv, stack # <<>>, ChainInv, status = "running", NEW f,
           DOMAIN f = FrameFields, SameStream(Top, f), Continue(f)
    PROVE  ChainInv'
<1> DEFINE moved == [f EXCEPT !.next = @ + 1]
           S == Activations \cup {moved}
<1>1. Len(stack) \in Nat \ {0} /\ Len(stack) \in 1..Len(stack)
  BY StackFacts
<1>2. stack \in Seq(S) /\ moved \in S
  BY SeqMonotonic DEF StackInv
<1>3. stack' = [stack EXCEPT ![Len(stack)] = moved] /\ doc' = doc /\ status' = status
  BY DEF Continue
<1>4. SameStream(stack[Len(stack)], moved)
  BY DEF SameStream, Top, FrameFields
<1> HIDE DEF S, moved
<1>5. /\ Len(stack') = Len(stack)
      /\ \A k \in 1..Len(stack) : stack'[k] = IF k = Len(stack) THEN moved ELSE stack[k]
  BY <1>1, <1>2, <1>3, ExceptSeq
<1>6. \A k \in 1..Len(stack) : SameStream(stack[k], stack'[k])
  BY <1>4, <1>5 DEF SameStream
<1>7. IsChain(doc.objects, stack')
  BY <1>1, <1>5, <1>6, ChainGoesOn DEF ChainInv
<1> QED
  BY <1>3, <1>7 DEF ChainInv

LEMMA FlushedStream ==
    ASSUME NEW f, DOMAIN f = FrameFields
    PROVE  DOMAIN Flushed(f) = FrameFields /\ SameStream(f, Flushed(f))
  BY DEF FrameFields, SameStream, Flushed

LEMMA ShownStream ==
    ASSUME NEW f, DOMAIN f = FrameFields
    PROVE  DOMAIN WithOperandShown(f) = FrameFields /\ SameStream(f, WithOperandShown(f))
  BY DEF FrameFields, SameStream, WithOperandShown

\* Operators that stay in their activation, as it is or with another font or other text.
LEMMA StayingKeepsChain ==
    ASSUME StackInv, ChainInv, AtToken, NEW g, Continue(g),
           DOMAIN Top = FrameFields => DOMAIN g = FrameFields /\ SameStream(Top, g)
    PROVE  ChainInv'
<1>1. stack # <<>> /\ status = "running"
  BY DEF AtToken
<1>2. DOMAIN Top = FrameFields
  BY <1>1, StackFacts DEF FrameInv
<1> QED
  BY <1>1, <1>2, ContinueKeepsChain

LEMMA TextObjectKeepsChain ==
    ASSUME StackInv, ChainInv, BeginText \/ EndText
    PROVE  ChainInv'
<1>1. CASE BeginText
  <2> DEFINE g == [Top EXCEPT !.inText = TRUE, !.line = <<>>]
  <2>1. AtToken /\ Continue(g)
    BY <1>1 DEF BeginText, AtOperator
  <2>2. DOMAIN Top = FrameFields => DOMAIN g = FrameFields /\ SameStream(Top, g)
    BY DEF FrameFields, SameStream
  <2> HIDE DEF g
  <2> QED
    BY <2>1, <2>2, StayingKeepsChain
<1>2. CASE EndText
  <2> DEFINE f == Flushed(Top)
             g == [f EXCEPT !.inText = FALSE]
  <2>1. AtToken /\ Continue(g)
    BY <1>2 DEF EndText, AtOperator
  <2>2. DOMAIN Top = FrameFields => DOMAIN f = FrameFields /\ SameStream(Top, f)
    BY FlushedStream
  <2> HIDE DEF f
  <2>3. DOMAIN Top = FrameFields => DOMAIN g = FrameFields /\ SameStream(Top, g)
    BY <2>2 DEF FrameFields, SameStream
  <2> HIDE DEF g
  <2> QED
    BY <2>1, <2>3, StayingKeepsChain
<1> QED
  BY <1>1, <1>2

LEMMA SetFontKeepsChain ==
    ASSUME StackInv, ChainInv, SetFont
    PROVE  ChainInv'
<1> DEFINE g == IF HasOperands(2) /\ Operand(2).t = "name"
                THEN [Top EXCEPT !.font = FontNamed(Top.fonts, Operand(2).name)]
                ELSE Top
<1>1. AtToken /\ Continue(g)
  BY DEF SetFont, AtOperator
<1>2. DOMAIN Top = FrameFields => DOMAIN g = FrameFields /\ SameStream(Top, g)
  BY DEF FrameFields, SameStream
<1> HIDE DEF g
<1> QED
  BY <1>1, <1>2, StayingKeepsChain

LEMMA ShowTextKeepsChain ==
    ASSUME StackInv, ChainInv, ShowText
    PROVE  ChainInv'
<1> DEFINE g == IF HasOperands(1) /\ Top.inText THEN WithOperandShown(Top) ELSE Top
<1>1. AtToken /\ Continue(g)
  BY DEF ShowText, AtOperator
<1>2. DOMAIN Top = FrameFields => DOMAIN g = FrameFields /\ SameStream(Top, g)
  BY ShownStream DEF SameStream
<1> HIDE DEF g
<1> QED
  BY <1>1, <1>2, StayingKeepsChain

LEMMA ShowArrayKeepsChain ==
    ASSUME StackInv, ChainInv, ShowArray
    PROVE  ChainInv'
<1> DEFINE items == ItemsBackwards(Top.content, Top.next - 1)
           shown == [Top EXCEPT !.line = @ \o ArrayText(items, Top.font)]
           g == IF WalksArray THEN shown ELSE Top
<1>1. AtToken /\ Continue(g)
  BY DEF ShowArray, AtOperator
<1>2. DOMAIN Top = FrameFields => DOMAIN shown = FrameFields /\ SameStream(Top, shown)
  BY DEF FrameFields, SameStream
<1> HIDE DEF shown
<1>3. DOMAIN Top = FrameFields => DOMAIN g = FrameFields /\ SameStream(Top, g)
  BY <1>2 DEF SameStream
<1> HIDE DEF g
<1> QED
  BY <1>1, <1>3, StayingKeepsChain

LEMMA ShowOnNextLineKeepsChain ==
    ASSUME StackInv, ChainInv, NEW op, NEW operands, ShowOnNextLine(op, operands)
    PROVE  ChainInv'
<1> DEFINE flushed == Flushed(Top)
           shown == WithOperandShown(flushed)
           g == IF HasOperands(operands) /\ Top.inText THEN shown ELSE Top
<1>1. AtToken /\ Continue(g)
  BY DEF ShowOnNextLine, AtOperator
<1>2. DOMAIN Top = FrameFields => DOMAIN flushed = FrameFields /\ SameStream(Top, flushed)
  BY FlushedStream
<1> HIDE DEF flushed
<1>3. DOMAIN Top = FrameFields => DOMAIN shown = FrameFields /\ SameStream(flushed, shown)
  BY <1>2, ShownStream
<1> HIDE DEF shown
<1>4. DOMAIN Top = FrameFields => DOMAIN g = FrameFields /\ SameStream(Top, g)
  BY <1>2, <1>3 DEF SameStream
<1> HIDE DEF g
<1> QED
  BY <1>1, <1>4, StayingKeepsChain

LEMMA SkipKeepsChain ==
    ASSUME StackInv, ChainInv, AtToken, Continue(Top)
    PROVE  ChainInv'
  BY StayingKeepsChain DEF SameStream

\* A form that is drawn is the one its caller names.
LEMMA DrawFormKeepsChain ==
    ASSUME StackInv, ChainInv, DrawForm
    PROVE  ChainInv'
<1>1. /\ AtOperator("Do") /\ IsDrawable(Drawn)
      /\ doc' = doc /\ status' = status
  BY DEF DrawForm
<1> DEFINE resources == ResourcesOf(doc.objects, Drawn)
           f == Frame(Drawn.data, FontsWithin(doc.objects, resources, Top.fonts), resources)
           S == Activations \cup {f}
<1>2. stack' = Append(stack, f)
  BY DEF DrawForm
<1>3. f.content = Drawn.data /\ f.resources = resources
  BY DEF Frame
<1>4. stack \in Seq(S) /\ f \in S
  BY SeqMonotonic DEF StackInv
<1>5. stack # <<>>
  BY <1>1 DEF AtOperator, AtToken
<1>6. Len(stack) \in Nat \ {0}
  BY <1>5, StackFacts
<1>7. PICK refs : Describes(refs, doc.objects, stack)
  BY DEF ChainInv, IsChain
<1>8. PICK d \in FormsOf(doc.objects) :
         /\ Drawn = doc.objects[d]
         /\ Len(stack) >= 2 => d \in DrawnBy(doc.objects, refs[Len(stack)])
  BY <1>1, <1>7, DrawExtendsChain
<1> HIDE DEF S, f
<1>9. /\ Len(stack') = Len(stack) + 1
      /\ \A k \in 1..Len(stack) : stack'[k] = stack[k]
      /\ stack'[Len(stack) + 1] = f
  BY <1>2, <1>4, AppendProperties
<1>10. \A k \in 1..Len(stack) : SameStream(stack[k], stack'[k])
  BY <1>9 DEF SameStream
<1>11. /\ stack'[Len(stack) + 1].content = doc.objects[d].data
       /\ stack'[Len(stack) + 1].resources = ResourcesOf(doc.objects, doc.objects[d])
  BY <1>3, <1>8, <1>9
<1>12. IsChain(doc.objects, stack')
  <2> HIDE DEF resources
  <2> QED
    BY <1>6, <1>7, <1>8, <1>9, <1>10, <1>11, ChainGrows
<1> QED
  BY <1>1, <1>12 DEF ChainInv

LEMMA ReturnFormKeepsChain ==
    ASSUME StackInv, ChainInv, ReturnForm
    PROVE  ChainInv'
<1> DEFINE n == Len(stack) - 1
           moved == [stack[n] EXCEPT !.text = Appended(@, FullText), !.next = @ + 1]
<1>1. /\ Len(stack) \in Nat /\ n \in 1..Len(stack) /\ n < Len(stack)
      /\ stack' \in Seq(Activations \cup {moved})
      /\ Len(stack') = n
      /\ \A k \in 1..n : stack'[k] = IF k = n THEN moved ELSE stack[k]
  BY ReturnedStack
<1>2. SameStream(stack[n], moved)
  BY <1>1 DEF StackInv, FrameInv, FrameFields, SameStream
<1>3. doc' = doc /\ status' = status
  BY DEF ReturnForm
<1> HIDE DEF moved
<1>4. \A k \in 1..Len(stack') : SameStream(stack[k], stack'[k])
  BY <1>1, <1>2 DEF SameStream
<1>5. Len(stack) > 1 /\ Len(stack') = Len(stack) - 1
  BY <1>1
<1>6. IsChain(doc.objects, stack')
  BY <1>1, <1>4, <1>5, ChainShrinks DEF ChainInv
<1> QED
  BY <1>3, <1>6 DEF ChainInv

\* Between the pages there is no activation, and a page begins with one.
LEMMA PageKeepsChain ==
    ASSUME ChainInv, OpenPage \/ FinishPage
    PROVE  ChainInv'
<1> DEFINE f == Frame(PageTokens(NextPage), NextPage.fonts, NextPage.resources)
<1>1. doc' = doc /\ status' = status /\ (stack' = <<f>> \/ stack' = <<>>)
  BY DEF OpenPage, FinishPage
<1> HIDE DEF f
<1>2. Len(stack') \in {0, 1}
  <2>1. Len(<<f>>) = 1 /\ Len(<<>>) = 0
    OBVIOUS
  <2> QED
    BY <1>1, <2>1
<1>3. IsChain(doc.objects, stack')
  BY <1>2, ShortStackIsChain
<1> QED
  BY <1>1, <1>3 DEF ChainInv

LEMMA ChainInvInit == Init => ChainInv
<1> SUFFICES ASSUME Init PROVE ChainInv
  OBVIOUS
<1>1. stack = <<>> /\ doc \in Documents /\ status = "running"
  BY DEF Init
<1>2. Len(stack) \in {0, 1}
  BY <1>1, EmptySeq
<1>3. IsChain(doc.objects, stack)
  BY <1>2, ShortStackIsChain
<1> QED
  BY <1>1, <1>3 DEF ChainInv

LEMMA ChainInvStep == FormsFit /\ StackInv /\ ChainInv /\ [Next]_vars => ChainInv'
<1> SUFFICES ASSUME FormsFit, StackInv, ChainInv, [Next]_vars PROVE ChainInv'
  OBVIOUS
<1>1. CASE UNCHANGED vars
  BY <1>1 DEF vars, ChainInv
<1>2. CASE SkipEmptyPage \/ Finish
  BY <1>2 DEF SkipEmptyPage, Finish, ChainInv
<1>3. CASE OpenPage \/ FinishPage
  BY <1>3, PageKeepsChain
<1>4. CASE BeginText \/ EndText
  BY <1>4, TextObjectKeepsChain
<1>5. CASE SetFont
  BY <1>5, SetFontKeepsChain
<1>6. CASE PassToken
  BY <1>6, SkipKeepsChain DEF PassToken
<1>7. CASE ShowNext
  BY <1>7, ShowTextKeepsChain, ShowArrayKeepsChain, ShowOnNextLineKeepsChain
     DEF ShowNext, NextLine, NextLineSpaced
<1>8. CASE DrawNothing
  BY <1>8, SkipKeepsChain DEF DrawNothing, AtOperator
<1>9. CASE DrawForm
  BY <1>9, DrawFormKeepsChain
<1>10. CASE ReturnForm
  BY <1>10, ReturnFormKeepsChain
<1>11. CASE DrawTooDeep
  <2>1. IsCyclic(doc.objects)
    BY <1>11, TooDeepIsCyclic
  <2>2. doc' = doc /\ stack' = stack
    BY <1>11 DEF DrawTooDeep
  <2> QED
    BY <2>1, <2>2 DEF ChainInv
<1> QED
  BY <1>1, <1>2, <1>3, <1>4, <1>5, <1>6, <1>7, <1>8, <1>9, <1>10, <1>11
     DEF Next, DrawNext

\* The recursion has no limit of its own (text.rs:168, 343), and needs none where the
\* machine has room for all the forms of a document at once: it is exhausted only when
\* forms draw each other in a circle.
THEOREM CyclesOnly ==
    ASSUME FormsFit
    PROVE  Spec => []AbortsOnlyInCycles
<1>1. Init => StackInv /\ ChainInv
  BY StackInvInit, ChainInvInit
<1>2. (StackInv /\ ChainInv) /\ [Next]_vars => (StackInv /\ ChainInv)'
  BY StackInvStep, ChainInvStep
<1>3. StackInv /\ ChainInv => AbortsOnlyInCycles
  BY DEF ChainInv, AbortsOnlyInCycles
<1> QED
  BY <1>1, <1>2, <1>3, PTL DEF Spec

-----------------------------------------------------------------------------
(***************************************************************************)
(* Characters                                                              *)
(***************************************************************************)

LEMMA GlyphIsCharacter ==
    ASSUME NEW name
    PROVE  GlyphToUnicode(name) \in Nat
<1> DEFINE known == {p \in DOMAIN GlyphNames : GlyphNames[p] = name}
<1>1. DOMAIN GlyphNames \subseteq Nat
  BY SMT DEF GlyphNames
<1>2. CASE known # {}
  <2>1. PICK p \in known : p = CHOOSE q \in known : TRUE
    BY <1>2
  <2>2. p \in Nat
    BY <1>1, <2>1
  <2>3. GlyphToUnicode(name) = 31 + p
    BY <1>2, <2>1 DEF GlyphToUnicode
  <2> QED
    BY <2>2, <2>3
<1>3. CASE known = {}
  BY <1>3 DEF GlyphToUnicode, Question
<1> QED
  BY <1>2, <1>3

LEMMA TablesHoldCharacters ==
    ASSUME NEW i \in 1..32
    PROVE  WinAnsiTable[i] \in Nat /\ MacRomanTable[i] \in Nat
<1>1. WinAnsiTable[i] \in Nat
  BY SMT DEF WinAnsiTable
<1>2. MacRomanTable[i] \in Nat
  BY SMT DEF MacRomanTable
<1> QED
  BY <1>1, <1>2

LEMMA EncodedIsCharacter ==
    ASSUME NEW encoding, NEW byte \in 0..255
    PROVE  Encoded(encoding, byte) \in Nat
<1>1. ByTable(WinAnsiTable, byte) \in Nat /\ ByTable(MacRomanTable, byte) \in Nat
  <2>1. CASE byte \in 128..159
    <3>1. byte - 127 \in 1..32
      BY <2>1
    <3> QED
      BY <2>1, <3>1, TablesHoldCharacters DEF ByTable
  <2>2. CASE byte \notin 128..159
    BY <2>2 DEF ByTable, Question
  <2> QED
    BY <2>1, <2>2
<1> QED
  BY <1>1 DEF Encoded, Question

\* The texts of the parts, put together, are a text.
LEMMA TogetherIsText ==
    ASSUME NEW n \in Nat, NEW texts, texts = [k \in 1..n |-> texts[k]],
           \A k \in 1..n : texts[k] \in Seq(Nat)
    PROVE  FlattenSeq(texts) \in Seq(Nat)
<1>1. texts \in [1..n -> Seq(Nat)]
  OBVIOUS
<1>2. texts \in Seq(Seq(Nat))
  BY <1>1
<1> QED
  BY <1>2, FlattenSeqType

LEMMA CharacterIsText ==
    ASSUME NEW c \in Nat
    PROVE  <<c>> \in Seq(Nat)
OBVIOUS

LEMMA NothingIsText == <<>> \in Seq(Nat)
OBVIOUS

\* decode_text yields characters, with a font or without one.
LEMMA DecodedIsText ==
    ASSUME NEW bytes \in Seq(0..255), NEW font, font = NoFont \/ IsFont(font)
    PROVE  DecodeText(bytes, font) \in Seq(Nat)
<1>1. Len(bytes) \in Nat /\ DOMAIN bytes = 1..Len(bytes) /\ \A k \in 1..Len(bytes) : bytes[k] \in 0..255
  BY ElementOfSeq
<1>2. CASE font = NoFont
  <2> DEFINE texts == [k \in DOMAIN bytes |-> IF bytes[k] \in Printable THEN <<bytes[k]>> ELSE <<>>]
  <2>1. ASSUME NEW k \in 1..Len(bytes) PROVE texts[k] \in Seq(Nat)
    <3>0. bytes[k] \in 0..255 /\ \A b \in 0..255 : b \in Nat
      BY <1>1
    <3>1. bytes[k] \in Nat
      BY <3>0, Zenon
    <3>2. <<bytes[k]>> \in Seq(Nat)
      BY <3>1, CharacterIsText
    <3>3. texts[k] = IF bytes[k] \in Printable THEN <<bytes[k]>> ELSE <<>>
      BY <1>1
    <3> HIDE DEF texts
    <3> QED
      BY <3>2, <3>3, NothingIsText
  <2>2. texts = [k \in 1..Len(bytes) |-> texts[k]]
    BY <1>1
  <2>3. DecodeText(bytes, font) = FlattenSeq(texts)
    BY <1>2 DEF DecodeText
  <2> HIDE DEF texts
  <2> QED
    BY <1>1, <2>1, <2>2, <2>3, TogetherIsText
<1>3. CASE font # NoFont /\ IsCid(font)
  <2> DEFINE n == (Len(bytes) + 1) \div 2
             codes == CidCodes(bytes)
             texts == [k \in DOMAIN codes |-> DecodeCid(font, codes[k])]
  <2>1. n \in Nat /\ DOMAIN codes = 1..n
    BY <1>1 DEF CidCodes
  <2>2. HasTexts(font.toUnicode)
    BY <1>3 DEF IsFont
  <2> HIDE DEF codes, n
  <2>3. \A code : DecodeCid(font, code) \in Seq(Nat)
    <3>1. <<Replacement>> \in Seq(Nat)
      BY CharacterIsText DEF Replacement
    <3> QED
      BY <2>2, <3>1 DEF DecodeCid, HasTexts
  <2>4. \A k \in 1..n : texts[k] \in Seq(Nat)
    BY <2>1, <2>3
  <2>5. texts = [k \in 1..n |-> texts[k]]
    BY <2>1
  <2>6. DecodeText(bytes, font) = FlattenSeq(texts)
    BY <1>3 DEF DecodeText, codes
  <2> HIDE DEF texts
  <2> QED
    BY <2>1, <2>4, <2>5, <2>6, TogetherIsText
<1>4. CASE font # NoFont /\ ~IsCid(font)
  <2> DEFINE texts == [k \in DOMAIN bytes |-> DecodeByte(font, bytes[k])]
  <2>1. IsFont(font)
    BY <1>4
  <2>2. ASSUME NEW byte \in 0..255 PROVE DecodeByte(font, byte) \in Seq(Nat)
    <3>1. Encoded(font.encoding, byte) \in Nat
      BY EncodedIsCharacter
    <3>2. <<Encoded(font.encoding, byte)>> \in Seq(Nat)
      BY <3>1, CharacterIsText
    <3>3. byte \in DOMAIN font.differences => <<font.differences[byte]>> \in Seq(Nat)
      BY <2>1, CharacterIsText DEF IsFont
    <3> QED
      BY <2>1, <3>2, <3>3 DEF DecodeByte, IsFont, HasTexts
  <2>3. \A k \in 1..Len(bytes) : texts[k] \in Seq(Nat)
    BY <1>1, <2>2
  <2>4. texts = [k \in 1..Len(bytes) |-> texts[k]]
    BY <1>1
  <2>5. DecodeText(bytes, font) = FlattenSeq(texts)
    BY <1>4 DEF DecodeText
  <2> HIDE DEF texts
  <2> QED
    BY <1>1, <2>3, <2>4, <2>5, TogetherIsText
<1> QED
  BY <1>2, <1>3, <1>4

LEMMA AppendedIsText ==
    ASSUME NEW text \in Seq(Nat), NEW piece \in Seq(Nat)
    PROVE  Appended(text, piece) \in Seq(Nat)
<1>1. <<Space>> \in Seq(Nat)
  BY CharacterIsText DEF Space
<1> QED
  BY <1>1, ConcatProperties DEF Appended

-----------------------------------------------------------------------------
(***************************************************************************)
(* Contents and their items                                                *)
(***************************************************************************)

LEMMA ContentFacts ==
    ASSUME NEW tokens, IsContent(tokens)
    PROVE  /\ Len(tokens) \in Nat /\ DOMAIN tokens = 1..Len(tokens)
           /\ \A k \in 1..Len(tokens) : tokens[k].t = "str" => tokens[k].bytes \in Seq(0..255)
<1>1. tokens \in Seq(Range(tokens))
  BY DEF IsContent
<1>2. Len(tokens) \in Nat /\ DOMAIN tokens = 1..Len(tokens)
  BY <1>1, LenProperties
<1>3. \A k \in 1..Len(tokens) : tokens[k] \in Range(tokens)
  BY <1>2 DEF Range
<1> QED
  BY <1>2, <1>3 DEF IsContent

\* A sequence of tokens whose strings consist of bytes.
LEMMA ContentAssembled ==
    ASSUME NEW T, NEW tokens \in Seq(T),
           \A token \in T : token.t = "str" => token.bytes \in Seq(0..255)
    PROVE  IsContent(tokens)
<1>1. Len(tokens) \in Nat /\ DOMAIN tokens = 1..Len(tokens) /\ \A k \in 1..Len(tokens) : tokens[k] \in T
  BY ElementOfSeq
<1>2. tokens \in Seq(Range(tokens))
  BY OwnElements DEF Range
<1>3. Range(tokens) \subseteq T
  BY <1>1 DEF Range
<1> QED
  BY <1>2, <1>3 DEF IsContent

\* The streams of a page, one behind the other, are a content.
LEMMA PageIsContent ==
    ASSUME NEW page, page.streams \in Seq(Range(page.streams)),
           \A stream \in Range(page.streams) : IsContent(stream)
    PROVE  IsContent(PageTokens(page))
<1> DEFINE streams == page.streams
           T == UNION {Range(stream) : stream \in Range(streams)}
<1>1. \A token \in T : token.t = "str" => token.bytes \in Seq(0..255)
  BY DEF IsContent
<1>2. ASSUME NEW stream \in Range(streams)
      PROVE  stream \in Seq(T)
  <2>1. stream \in Seq(Range(stream))
    BY DEF IsContent
  <2>2. Range(stream) \subseteq T
    OBVIOUS
  <2> HIDE DEF T
  <2> QED
    BY <2>1, <2>2, SeqMonotonic
<1> HIDE DEF T
<1>3. Range(streams) \subseteq Seq(T)
  BY <1>2
<1>4. streams \in Seq(Seq(T))
  BY <1>3, SeqMonotonic
<1>5. FlattenSeq(streams) \in Seq(T)
  BY <1>4, FlattenSeqType
<1> QED
  BY <1>1, <1>5, ContentAssembled DEF PageTokens

\* What the walk back through an array gathers are tokens of the content.
LEMMA ItemsAreContent ==
    ASSUME NEW content, IsContent(content), NEW closing \in 1..Len(content)
    PROVE  IsContent(ItemsBackwards(content, closing))
<1> DEFINE T == Range(content)
           n == IF closing < 2 THEN 0 ELSE closing - 2
<1>1. /\ Len(content) \in Nat /\ DOMAIN content = 1..Len(content)
      /\ \A token \in T : token.t = "str" => token.bytes \in Seq(0..255)
  BY ContentFacts DEF IsContent
<1>2. closing \in Nat /\ n \in Nat /\ 1..(closing - 2) = 1..n
      /\ \A k \in 1..n : k + 1 \in 1..Len(content)
  BY <1>1
<1>3. \A k \in 1..n : content[k + 1] \in T
  BY <1>1, <1>2 DEF Range
<1> HIDE DEF T, n
<1>4. \A k \in 1..n : <<content[k + 1]>> \in Seq(T)
  BY <1>3
<1>5. <<>> \in Seq(T)
  OBVIOUS
<1>6. PICK texts : /\ ItemsBackwards(content, closing) = FlattenSeq(texts)
                   /\ texts = [k \in 1..n |-> texts[k]]
                   /\ \A k \in 1..n : texts[k] = <<content[k + 1]>> \/ texts[k] = <<>>
  <2> DEFINE Turn(j) == IF content[j] = ArrayEnd THEN 1 ELSE IF content[j] = ArrayStart THEN -1 ELSE 0
             depth == CHOOSE f : f = [j \in 2..closing |-> IF j = closing THEN 1 ELSE f[j + 1] + Turn(j)]
             IsItem(j) == Turn(j) = 0 /\ depth[j] = 1 /\ \A k \in j..closing : depth[k] > 0
             texts == [k \in 1..(closing - 2) |-> IF IsItem(k + 1) THEN <<content[k + 1]>> ELSE <<>>]
  <2>1. ItemsBackwards(content, closing) = FlattenSeq(texts)
    BY Zenon DEF ItemsBackwards
  <2> HIDE DEF IsItem
  <2>2. \A k \in 1..n : texts[k] = <<content[k + 1]>> \/ texts[k] = <<>>
    BY <1>2
  <2>3. texts = [k \in 1..n |-> texts[k]]
    BY <1>2
  <2> QED
    BY <2>1, <2>2, <2>3
<1>7. texts \in [1..n -> Seq(T)]
  BY <1>4, <1>5, <1>6
<1>8. texts \in Seq(Seq(T))
  BY <1>2, <1>7
<1>9. FlattenSeq(texts) \in Seq(T)
  BY <1>8, FlattenSeqType
<1> QED
  BY <1>1, <1>6, <1>9, ContentAssembled

LEMMA ArrayIsText ==
    ASSUME NEW items, IsContent(items), NEW font, font = NoFont \/ IsFont(font)
    PROVE  ArrayText(items, font) \in Seq(Nat)
<1> DEFINE texts == [k \in DOMAIN items |-> ItemText(items[k], font)]
<1>1. /\ Len(items) \in Nat /\ DOMAIN items = 1..Len(items)
      /\ \A k \in 1..Len(items) : items[k].t = "str" => items[k].bytes \in Seq(0..255)
  BY ContentFacts
<1>2. <<Space>> \in Seq(Nat)
  BY CharacterIsText DEF Space
<1>3. \A k \in 1..Len(items) : ItemText(items[k], font) \in Seq(Nat)
  BY <1>1, <1>2, DecodedIsText, NothingIsText DEF ItemText
<1>4. \A k \in 1..Len(items) : texts[k] \in Seq(Nat)
  BY <1>1, <1>3
<1>5. texts = [k \in 1..Len(items) |-> texts[k]]
  BY <1>1
<1>6. ArrayText(items, font) = FlattenSeq(texts)
  BY DEF ArrayText
<1> HIDE DEF texts
<1> QED
  BY <1>1, <1>4, <1>5, <1>6, TogetherIsText

-----------------------------------------------------------------------------
(***************************************************************************)
(* Frames hold texts                                                       *)
(***************************************************************************)

HasFonts(fonts) == \A font \in Range(fonts) : IsFont(font)

\* What an activation has: a content and fonts, and the texts that it has made of them.
IsTyped(f) ==
    /\ IsContent(f.content)
    /\ HasFonts(f.fonts)
    /\ f.font = NoFont \/ IsFont(f.font)
    /\ f.next <= Len(f.content) + 1
    /\ f.line \in Seq(Nat)
    /\ f.text \in Seq(Nat)

\* The activations below wait at their Do, and a page that is open has no text yet.
TypeInv ==
    /\ doc \in Documents
    /\ status \in {"running", "ok", "aborted"}
    /\ \A k \in 1..Len(stack) : IsTyped(stack[k])
    /\ \A k \in 1..(Len(stack) - 1) : stack[k].next <= Len(stack[k].content)
    /\ results \in Seq(Seq(Nat))
    /\ Len(results) <= Len(doc.pages)
    /\ stack # <<>> => Len(results) < Len(doc.pages)
    /\ status = "ok" => stack = <<>> /\ Len(results) = Len(doc.pages)

LEMMA NewFrameIsTyped ==
    ASSUME NEW content, NEW fonts, NEW resources, IsContent(content), HasFonts(fonts)
    PROVE  IsTyped(Frame(content, fonts, resources))
<1> DEFINE f == Frame(content, fonts, resources)
<1>1. /\ f.content = content /\ f.fonts = fonts /\ f.font = NoFont /\ f.next = 1
      /\ f.line = <<>> /\ f.text = <<>>
  BY DEF Frame
<1>2. Len(content) \in Nat
  BY ContentFacts
<1>3. 1 <= Len(content) + 1
  BY <1>2
<1> HIDE DEF f
<1>4. IsTyped(f)
  BY <1>1, <1>3, NothingIsText DEF IsTyped
<1> QED
  BY <1>4 DEF f

\* A frame whose stream and font are those of f, or which has another line and text.
SameSource(f, g) ==
    /\ DOMAIN g = FrameFields
    /\ g.content = f.content /\ g.fonts = f.fonts /\ g.next = f.next

LEMMA StillTyped ==
    ASSUME NEW f, NEW g, IsTyped(f), SameSource(f, g), g.font = NoFont \/ IsFont(g.font),
           g.line \in Seq(Nat), g.text \in Seq(Nat)
    PROVE  IsTyped(g)
BY DEF IsTyped, SameSource

LEMMA FlushedIsTyped ==
    ASSUME NEW f, DOMAIN f = FrameFields, IsTyped(f)
    PROVE  SameSource(f, Flushed(f)) /\ IsTyped(Flushed(f)) /\ Flushed(f).font = f.font
<1> DEFINE g == [f EXCEPT !.text = Appended(@, f.line), !.line = <<>>]
<1>1. CASE f.line = <<>>
  BY <1>1 DEF Flushed, SameSource
<1>2. CASE f.line # <<>>
  <2>1. /\ DOMAIN g = FrameFields /\ g.content = f.content /\ g.fonts = f.fonts /\ g.next = f.next
        /\ g.font = f.font /\ g.line = <<>> /\ g.text = Appended(f.text, f.line)
    BY DEF FrameFields
  <2>2. g.text \in Seq(Nat)
    BY <2>1, AppendedIsText DEF IsTyped
  <2>3. Flushed(f) = g
    BY <1>2 DEF Flushed
  <2> HIDE DEF g
  <2>4. IsTyped(g)
    BY <2>1, <2>2, StillTyped, NothingIsText DEF SameSource, IsTyped
  <2> QED
    BY <2>1, <2>3, <2>4 DEF SameSource
<1> QED
  BY <1>1, <1>2

\* The operand in front of an operator is a token of the content.
LEMMA OperandIsToken ==
    ASSUME StackInv, TypeInv, AtToken, HasOperands(1)
    PROVE  /\ Top.next - 1 \in 1..Len(Top.content)
           /\ Operand(1).t = "str" => Operand(1).bytes \in Seq(0..255)
<1>1. stack # <<>>
  BY DEF AtToken
<1>2. Len(stack) \in 1..Len(stack) /\ FrameInv(Top)
  BY <1>1, StackFacts
<1>3. IsTyped(Top)
  BY <1>2 DEF TypeInv, Top
<1>4. Len(Top.content) \in Nat /\ Top.next \in Nat
  BY <1>2, <1>3, ContentFacts DEF IsTyped, FrameInv
<1>5. Top.next <= Len(Top.content) /\ Top.next > 1
  BY DEF AtToken, HasOperands
<1>6. Top.next - 1 \in 1..Len(Top.content)
  BY <1>4, <1>5
<1> QED
  BY <1>3, <1>6, ContentFacts DEF Operand, IsTyped

LEMMA ShownIsTyped ==
    ASSUME StackInv, TypeInv, AtToken, HasOperands(1),
           NEW f, DOMAIN f = FrameFields, IsTyped(f)
    PROVE  SameSource(f, WithOperandShown(f)) /\ IsTyped(WithOperandShown(f))
<1> DEFINE shown == DecodeText(Operand(1).bytes, f.font)
           g == [f EXCEPT !.line = @ \o shown]
<1>1. CASE Operand(1).t # "str"
  BY <1>1 DEF WithOperandShown, SameSource
<1>2. CASE Operand(1).t = "str"
  <2>1. shown \in Seq(Nat)
    BY <1>2, OperandIsToken, DecodedIsText DEF IsTyped
  <2> HIDE DEF shown
  <2>2. /\ DOMAIN g = FrameFields /\ g.content = f.content /\ g.fonts = f.fonts /\ g.next = f.next
        /\ g.font = f.font /\ g.text = f.text /\ g.line = f.line \o shown
    BY DEF FrameFields
  <2>3. g.line \in Seq(Nat)
    BY <2>1, <2>2, ConcatProperties DEF IsTyped
  <2>4. WithOperandShown(f) = g
    BY <1>2 DEF WithOperandShown, shown
  <2> HIDE DEF g
  <2>5. IsTyped(g)
    BY <2>2, <2>3, StillTyped DEF SameSource, IsTyped
  <2> QED
    BY <2>2, <2>4, <2>5 DEF SameSource
<1> QED
  BY <1>1, <1>2

\* The next place of the stream is in it, or just behind it.
LEMMA MovedIsTyped ==
    ASSUME NEW g, DOMAIN g = FrameFields, IsTyped(g), g.next \in Nat, g.next <= Len(g.content)
    PROVE  IsTyped([g EXCEPT !.next = @ + 1])
<1> DEFINE h == [g EXCEPT !.next = @ + 1]
<1>1. /\ h.content = g.content /\ h.fonts = g.fonts /\ h.next = g.next + 1
      /\ h.font = g.font /\ h.text = g.text /\ h.line = g.line
  BY DEF FrameFields
<1>2. Len(g.content) \in Nat
  BY ContentFacts DEF IsTyped
<1>3. g.next + 1 <= Len(g.content) + 1
  BY <1>2
<1> HIDE DEF h
<1>4. IsTyped(h)
  BY <1>1, <1>3 DEF IsTyped
<1> QED
  BY <1>4 DEF h

-----------------------------------------------------------------------------
(***************************************************************************)
(* The operators keep the types                                            *)
(***************************************************************************)

LEMMA RunningFrame ==
    ASSUME StackInv, TypeInv, AtToken
    PROVE  /\ stack # <<>> /\ status = "running" /\ FrameInv(Top) /\ IsTyped(Top)
           /\ DOMAIN Top = FrameFields /\ Top.next \in Nat /\ Top.next <= Len(Top.content)
<1>1. stack # <<>> /\ status = "running" /\ Top.next <= Len(Top.content)
  BY DEF AtToken
<1>2. Len(stack) \in 1..Len(stack) /\ FrameInv(Top)
  BY <1>1, StackFacts
<1>3. IsTyped(Top)
  BY <1>2 DEF TypeInv, Top
<1> QED
  BY <1>1, <1>2, <1>3 DEF FrameInv

LEMMA ContinueKeepsTypes ==
    ASSUME StackInv, TypeInv, AtToken, NEW g, SameSource(Top, g), IsTyped(g), Continue(g)
    PROVE  TypeInv'
<1> DEFINE moved == [g EXCEPT !.next = @ + 1]
           S == Activations \cup {moved}
<1>0. stack # <<>> /\ status = "running" /\ Top.next \in Nat /\ Top.next <= Len(Top.content)
  BY RunningFrame
<1>1. Len(stack) \in Nat \ {0} /\ Len(stack) \in 1..Len(stack)
  BY <1>0, StackFacts
<1>2. stack \in Seq(S) /\ moved \in S
  BY SeqMonotonic DEF StackInv
<1>3. /\ stack' = [stack EXCEPT ![Len(stack)] = moved]
      /\ doc' = doc /\ results' = results /\ status' = status
  BY DEF Continue
<1>4. IsTyped(moved)
  BY <1>0, MovedIsTyped DEF SameSource
<1> HIDE DEF S, moved
<1>5. /\ Len(stack') = Len(stack)
      /\ \A k \in 1..Len(stack) : stack'[k] = IF k = Len(stack) THEN moved ELSE stack[k]
  BY <1>1, <1>2, <1>3, ExceptSeq
<1>6. \A k \in 1..Len(stack') : IsTyped(stack'[k])
  BY <1>4, <1>5 DEF TypeInv
<1>7. ASSUME NEW k \in 1..(Len(stack') - 1) PROVE stack'[k].next <= Len(stack'[k].content)
  <2>1. k \in 1..(Len(stack) - 1) /\ k \in 1..Len(stack) /\ k # Len(stack)
    BY <1>1, <1>5
  <2> QED
    BY <1>5, <2>1 DEF TypeInv
<1> QED
  BY <1>0, <1>3, <1>6, <1>7 DEF TypeInv, IsTyped, IsContent, HasFonts, IsFont, HasTexts, NoFont

LEMMA SkipKeepsTypes ==
    ASSUME StackInv, TypeInv, AtToken, Continue(Top)
    PROVE  TypeInv'
<1>1. SameSource(Top, Top) /\ IsTyped(Top)
  BY RunningFrame DEF SameSource
<1> QED
  BY <1>1, ContinueKeepsTypes

LEMMA TextObjectKeepsTypes ==
    ASSUME StackInv, TypeInv, BeginText \/ EndText
    PROVE  TypeInv'
<1>0. AtToken
  BY DEF BeginText, EndText, AtOperator
<1>1. IsTyped(Top) /\ DOMAIN Top = FrameFields
  BY <1>0, RunningFrame
<1>2. CASE BeginText
  <2> DEFINE g == [Top EXCEPT !.inText = TRUE, !.line = <<>>]
  <2>1. Continue(g)
    BY <1>2 DEF BeginText
  <2>2. SameSource(Top, g) /\ g.font = Top.font /\ g.text = Top.text /\ g.line = <<>>
    BY <1>1 DEF SameSource, FrameFields
  <2> HIDE DEF g
  <2>3. IsTyped(g)
    BY <1>1, <2>2, StillTyped, NothingIsText DEF IsTyped
  <2> QED
    BY <1>0, <2>1, <2>2, <2>3, ContinueKeepsTypes
<1>3. CASE EndText
  <2> DEFINE f == Flushed(Top)
             g == [f EXCEPT !.inText = FALSE]
  <2>1. Continue(g)
    BY <1>3 DEF EndText
  <2>2. SameSource(Top, f) /\ IsTyped(f)
    BY <1>1, FlushedIsTyped
  <2> HIDE DEF f
  <2>3. SameSource(f, g) /\ g.font = f.font /\ g.text = f.text /\ g.line = f.line
    BY <2>2 DEF SameSource, FrameFields
  <2> HIDE DEF g
  <2>4. IsTyped(g)
    BY <2>2, <2>3, StillTyped DEF IsTyped
  <2>5. SameSource(Top, g)
    BY <2>2, <2>3 DEF SameSource
  <2> QED
    BY <1>0, <2>1, <2>4, <2>5, ContinueKeepsTypes
<1> QED
  BY <1>2, <1>3

LEMMA SetFontKeepsTypes ==
    ASSUME StackInv, TypeInv, SetFont
    PROVE  TypeInv'
<1> DEFINE named == FontNamed(Top.fonts, Operand(2).name)
           set == [Top EXCEPT !.font = named]
           g == IF HasOperands(2) /\ Operand(2).t = "name" THEN set ELSE Top
<1>0. AtToken /\ Continue(g)
  BY DEF SetFont, AtOperator
<1>1. IsTyped(Top) /\ DOMAIN Top = FrameFields
  BY <1>0, RunningFrame
<1>2. named = NoFont \/ IsFont(named)
  BY <1>1 DEF FontNamed, IsTyped, HasFonts, Range
<1> HIDE DEF named
<1>3. SameSource(Top, set) /\ set.font = named /\ set.text = Top.text /\ set.line = Top.line
  BY <1>1 DEF SameSource, FrameFields
<1> HIDE DEF set
<1>4. IsTyped(set)
  BY <1>1, <1>2, <1>3, StillTyped DEF IsTyped
<1>5. SameSource(Top, g) /\ IsTyped(g)
  BY <1>1, <1>3, <1>4 DEF SameSource
<1> HIDE DEF g
<1> QED
  BY <1>0, <1>5, ContinueKeepsTypes

LEMMA ShowTextKeepsTypes ==
    ASSUME StackInv, TypeInv, ShowText
    PROVE  TypeInv'
<1> DEFINE shown == WithOperandShown(Top)
           g == IF HasOperands(1) /\ Top.inText THEN shown ELSE Top
<1>0. AtToken /\ Continue(g)
  BY DEF ShowText, AtOperator
<1>1. IsTyped(Top) /\ DOMAIN Top = FrameFields
  BY <1>0, RunningFrame
<1>2. HasOperands(1) => SameSource(Top, shown) /\ IsTyped(shown)
  BY <1>0, <1>1, ShownIsTyped
<1> HIDE DEF shown
<1>3. SameSource(Top, g) /\ IsTyped(g)
  BY <1>1, <1>2 DEF SameSource
<1> HIDE DEF g
<1> QED
  BY <1>0, <1>3, ContinueKeepsTypes

LEMMA ShowArrayKeepsTypes ==
    ASSUME StackInv, TypeInv, ShowArray
    PROVE  TypeInv'
<1> DEFINE items == ItemsBackwards(Top.content, Top.next - 1)
           text == ArrayText(items, Top.font)
           shown == [Top EXCEPT !.line = @ \o text]
           g == IF WalksArray THEN shown ELSE Top
<1>0. AtToken /\ Continue(g)
  BY DEF ShowArray, AtOperator
<1>1. IsTyped(Top) /\ DOMAIN Top = FrameFields
  BY <1>0, RunningFrame
<1>2. ASSUME HasOperands(1) PROVE text \in Seq(Nat)
  <2>1. Top.next - 1 \in 1..Len(Top.content)
    BY <1>0, <1>2, OperandIsToken
  <2>2. IsContent(items)
    BY <1>1, <2>1, ItemsAreContent DEF IsTyped
  <2> HIDE DEF items
  <2> QED
    BY <1>1, <2>2, ArrayIsText DEF IsTyped
<1> HIDE DEF text
<1>3. SameSource(Top, shown) /\ shown.font = Top.font /\ shown.text = Top.text
      /\ shown.line = Top.line \o text
  BY <1>1 DEF SameSource, FrameFields
<1> HIDE DEF shown
<1>4. HasOperands(1) => IsTyped(shown)
  <2> SUFFICES ASSUME HasOperands(1) PROVE IsTyped(shown)
    OBVIOUS
  <2>1. shown.line \in Seq(Nat)
    BY <1>1, <1>2, <1>3, ConcatProperties DEF IsTyped
  <2> QED
    BY <1>1, <1>3, <2>1, StillTyped DEF IsTyped
<1>5. SameSource(Top, g) /\ IsTyped(g)
  BY <1>1, <1>3, <1>4 DEF SameSource, WalksArray
<1> HIDE DEF g
<1> QED
  BY <1>0, <1>5, ContinueKeepsTypes

LEMMA ShowOnNextLineKeepsTypes ==
    ASSUME StackInv, TypeInv, NEW op, NEW operands \in {1, 3}, ShowOnNextLine(op, operands)
    PROVE  TypeInv'
<1> DEFINE flushed == Flushed(Top)
           shown == WithOperandShown(flushed)
           g == IF HasOperands(operands) /\ Top.inText THEN shown ELSE Top
<1>0. AtToken /\ Continue(g)
  BY DEF ShowOnNextLine, AtOperator
<1>1. IsTyped(Top) /\ DOMAIN Top = FrameFields /\ Top.next \in Nat
  BY <1>0, RunningFrame
<1>2. SameSource(Top, flushed) /\ IsTyped(flushed)
  BY <1>1, FlushedIsTyped
<1> HIDE DEF flushed
<1>3. HasOperands(operands) => HasOperands(1)
  BY <1>1 DEF HasOperands
<1>4. HasOperands(1) => SameSource(flushed, shown) /\ IsTyped(shown)
  BY <1>0, <1>2, ShownIsTyped DEF SameSource
<1> HIDE DEF shown
<1>5. SameSource(Top, g) /\ IsTyped(g)
  BY <1>1, <1>2, <1>3, <1>4 DEF SameSource
<1> HIDE DEF g
<1> QED
  BY <1>0, <1>5, ContinueKeepsTypes

-----------------------------------------------------------------------------
(***************************************************************************)
(* Forms and pages keep the types                                          *)
(***************************************************************************)

\* parse_font makes fonts of all dictionaries whose /ToUnicode is a map to texts.
LEMMA ParsedIsFont ==
    ASSUME NEW objects, NEW dict, HasTexts(ToUnicodeOf(objects, dict))
    PROVE  IsFont(ParseFont(objects, dict))
<1> DEFINE font == ParseFont(objects, dict)
<1>1. font.toUnicode = ToUnicodeOf(objects, dict) /\ font.differences = DifferencesOf(objects, dict)
  BY DEF ParseFont
<1>2. \A code \in DOMAIN DifferencesOf(objects, dict) : DifferencesOf(objects, dict)[code] \in Nat
  BY GlyphIsCharacter DEF DifferencesOf
<1> HIDE DEF font
<1>3. IsFont(font)
  BY <1>1, <1>2 DEF IsFont
<1> QED
  BY <1>3 DEF font

\* The fonts within a form are those of its caller and its own.
LEMMA FormHasFonts ==
    ASSUME NEW objects, NEW form, NEW fonts, HasFonts(fonts),
           \A font \in Range(OwnFonts(objects, form)) :
              HasTexts(ToUnicodeOf(objects, Deref(objects, font)))
    PROVE  HasFonts(FontsWithin(objects, ResourcesOf(objects, form), fonts))
<1> DEFINE own == OwnFonts(objects, form)
           over == ExtractFonts(objects, own)
           all == FontsWithin(objects, ResourcesOf(objects, form), fonts)
<1>1. all = Overlay(fonts, over)
  BY DEF FontsWithin, OwnFonts
<1>2. ASSUME NEW name \in DOMAIN over PROVE IsFont(over[name])
  <2>1. name \in DOMAIN own /\ over[name] = ParseFont(objects, Deref(objects, own[name]))
    BY DEF ExtractFonts
  <2>2. own[name] \in Range(own)
    BY <2>1 DEF Range
  <2> HIDE DEF own, over
  <2>3. HasTexts(ToUnicodeOf(objects, Deref(objects, own[name])))
    BY <2>2 DEF own
  <2> QED
    BY <2>1, <2>3, ParsedIsFont
<1>3. \A name \in DOMAIN fonts : IsFont(fonts[name])
  BY DEF HasFonts, Range
<1> HIDE DEF own, over, all
<1>4. \A name \in DOMAIN all : IsFont(all[name])
  BY <1>1, <1>2, <1>3 DEF Overlay
<1>5. HasFonts(all)
  BY <1>4 DEF HasFonts, Range
<1> QED
  BY <1>5 DEF all

LEMMA DrawnIsForm ==
    ASSUME IsDrawable(Drawn)
    PROVE  \E r \in FormsOf(doc.objects) : Drawn = doc.objects[r]
<1> DEFINE name == Operand(1).name
           target == Entry(Deref(doc.objects, Entry(Dictionary(Top.resources), "XObject")), name)
<1>1. Null.kind # "Stream"
  BY DEF Null
<1>2. Drawn # Null
  BY <1>1 DEF IsDrawable
<1>3. Drawn = XObjectNamed(doc.objects, Top.resources, name)
  BY <1>2 DEF Drawn
<1>4. target.ref \in FormsOf(doc.objects) /\ Drawn = doc.objects[target.ref]
  BY <1>3, DrawableIsForm
<1> HIDE DEF target
<1> QED
  BY <1>4

LEMMA DrawFormKeepsTypes ==
    ASSUME StackInv, TypeInv, DrawForm
    PROVE  TypeInv'
<1> DEFINE resources == ResourcesOf(doc.objects, Drawn)
           fonts == FontsWithin(doc.objects, resources, Top.fonts)
           f == Frame(Drawn.data, fonts, resources)
           S == Activations \cup {f}
<1>1. AtToken /\ IsDrawable(Drawn) /\ stack' = Append(stack, f)
      /\ doc' = doc /\ results' = results /\ status' = status
  BY DEF DrawForm, AtOperator
<1>2. stack # <<>> /\ status = "running" /\ IsTyped(Top) /\ Top.next <= Len(Top.content)
  BY <1>1, RunningFrame
<1>3. PICK r \in FormsOf(doc.objects) : Drawn = doc.objects[r]
  BY <1>1, DrawnIsForm
<1>4. /\ IsContent(Drawn.data)
      /\ \A font \in Range(OwnFonts(doc.objects, Drawn)) :
            HasTexts(ToUnicodeOf(doc.objects, Deref(doc.objects, font)))
  BY <1>3, DocumentsAssumption DEF TypeInv
<1>5. HasFonts(fonts)
  BY <1>2, <1>4, FormHasFonts DEF IsTyped
<1> HIDE DEF fonts
<1>6. IsTyped(f)
  BY <1>4, <1>5, NewFrameIsTyped
<1>7. stack \in Seq(S) /\ f \in S
  BY SeqMonotonic DEF StackInv
<1>8. Len(stack) \in Nat \ {0}
  BY <1>2, StackFacts
<1> HIDE DEF S, f
<1>9. /\ Len(stack') = Len(stack) + 1
      /\ \A k \in 1..Len(stack) : stack'[k] = stack[k]
      /\ stack'[Len(stack) + 1] = f
  BY <1>1, <1>7, AppendProperties
<1>10. ASSUME NEW k \in 1..Len(stack') PROVE IsTyped(stack'[k])
  <2>1. k \in 1..Len(stack) \/ k = Len(stack) + 1
    BY <1>8, <1>9
  <2> QED
    BY <1>6, <1>9, <2>1 DEF TypeInv
<1>11. ASSUME NEW k \in 1..(Len(stack') - 1) PROVE stack'[k].next <= Len(stack'[k].content)
  <2>1. k \in 1..Len(stack) /\ (k = Len(stack) \/ k \in 1..(Len(stack) - 1))
    BY <1>8, <1>9
  <2> QED
    BY <1>2, <1>9, <2>1 DEF TypeInv, Top
<1> QED
  BY <1>1, <1>2, <1>10, <1>11
     DEF TypeInv, IsTyped, IsContent, HasFonts, IsFont, HasTexts, NoFont

LEMMA ReturnFormKeepsTypes ==
    ASSUME StackInv, TypeInv, ReturnForm
    PROVE  TypeInv'
<1> DEFINE n == Len(stack) - 1
           caller == stack[n]
           text == Appended(caller.text, FullText)
           moved == [caller EXCEPT !.text = Appended(@, FullText), !.next = @ + 1]
<1>1. /\ Len(stack) \in Nat /\ n \in 1..Len(stack) /\ n < Len(stack)
      /\ stack' \in Seq(Activations \cup {moved})
      /\ Len(stack') = n
      /\ \A k \in 1..n : stack'[k] = IF k = n THEN moved ELSE stack[k]
  BY ReturnedStack
<1>2. /\ doc' = doc /\ results' = results /\ status' = status
      /\ status = "running" /\ stack # <<>>
  BY DEF ReturnForm, AtEnd
<1>3. n \in 1..(Len(stack) - 1) /\ Len(stack) \in 1..Len(stack)
  BY <1>1
<1>4. FrameInv(caller) /\ IsTyped(caller) /\ caller.next <= Len(caller.content)
  BY <1>1, <1>3 DEF StackInv, TypeInv
<1>5. FrameInv(Top) /\ IsTyped(Top)
  BY <1>3 DEF StackInv, TypeInv, Top
<1>6. FullText \in Seq(Nat)
  BY <1>5, FlushedIsTyped DEF FullText, FrameInv, IsTyped
<1>7. text \in Seq(Nat)
  BY <1>4, <1>6, AppendedIsText DEF IsTyped
<1>8. IsTyped(moved)
  <2> DEFINE g == [caller EXCEPT !.text = text]
  <2>1. DOMAIN caller = FrameFields /\ caller.next \in Nat
    BY <1>4 DEF FrameInv
  <2> HIDE DEF text
  <2>2. SameSource(caller, g) /\ g.font = caller.font /\ g.line = caller.line /\ g.text = text
    BY <2>1 DEF SameSource, FrameFields
  <2>3. moved = [g EXCEPT !.next = @ + 1]
    BY <2>1 DEF FrameFields, text
  <2> HIDE DEF g, moved, caller
  <2>4. IsTyped(g)
    BY <1>4, <1>7, <2>2, StillTyped DEF IsTyped
  <2>5. DOMAIN g = FrameFields /\ g.next \in Nat /\ g.next <= Len(g.content)
    BY <1>4, <2>1, <2>2 DEF SameSource
  <2> QED
    BY <2>3, <2>4, <2>5, MovedIsTyped
<1> HIDE DEF moved
<1>9. \A k \in 1..Len(stack') : IsTyped(stack'[k])
  BY <1>1, <1>8 DEF TypeInv
<1>10. ASSUME NEW k \in 1..(Len(stack') - 1) PROVE stack'[k].next <= Len(stack'[k].content)
  <2>1. k \in 1..n /\ k # n /\ k \in 1..(Len(stack) - 1)
    BY <1>1
  <2> QED
    BY <1>1, <2>1 DEF TypeInv
<1> QED
  BY <1>2, <1>9, <1>10
     DEF TypeInv, IsTyped, IsContent, HasFonts, IsFont, HasTexts, NoFont

\* The pages of the document, of which those with a text come first.
LEMMA PageFacts ==
    ASSUME TypeInv
    PROVE  /\ Len(doc.pages) \in Nat /\ Len(results) \in Nat
           /\ \A k \in 1..Len(doc.pages) :
                 IsContent(PageTokens(doc.pages[k])) /\ HasFonts(doc.pages[k].fonts)
<1>1. doc \in Documents /\ results \in Seq(Seq(Nat))
  BY DEF TypeInv
<1>2. /\ doc.pages \in Seq(Range(doc.pages))
      /\ \A page \in Range(doc.pages) :
            /\ page.streams \in Seq(Range(page.streams))
            /\ \A stream \in Range(page.streams) : IsContent(stream)
            /\ \A font \in Range(page.fonts) : IsFont(font)
  BY <1>1, DocumentsAssumption
<1>3. Len(doc.pages) \in Nat /\ Len(results) \in Nat
  BY <1>1, <1>2, LenProperties
<1>4. \A k \in 1..Len(doc.pages) : doc.pages[k] \in Range(doc.pages)
  BY <1>2, ElementOfSeq
<1>5. \A page \in Range(doc.pages) : IsContent(PageTokens(page))
  BY <1>2, PageIsContent
<1> QED
  BY <1>2, <1>3, <1>4, <1>5 DEF HasFonts

\* One more text: there is a page that it belongs to.
LEMMA AppendedResult ==
    ASSUME TypeInv, NEW text \in Seq(Nat), Len(results) < Len(doc.pages)
    PROVE  /\ Append(results, text) \in Seq(Seq(Nat))
           /\ Len(Append(results, text)) <= Len(doc.pages)
<1>1. results \in Seq(Seq(Nat)) /\ Len(doc.pages) \in Nat /\ Len(results) \in Nat
  BY PageFacts DEF TypeInv
<1>2. Append(results, text) \in Seq(Seq(Nat)) /\ Len(Append(results, text)) = Len(results) + 1
  BY <1>1, AppendProperties
<1> QED
  BY <1>1, <1>2

\* Whatever the status, an empty stack has well-typed activations.
LEMMA NoActivations ==
    ASSUME stack = <<>>
    PROVE  /\ \A k \in 1..Len(stack) : IsTyped(stack[k])
           /\ \A k \in 1..(Len(stack) - 1) : stack[k].next <= Len(stack[k].content)
<1>1. Len(stack) = 0
  BY EmptySeq
<1>2. 1..Len(stack) = {} /\ 1..(Len(stack) - 1) = {}
  BY <1>1
<1> QED
  BY <1>2

LEMMA OpenPageKeepsTypes ==
    ASSUME TypeInv, OpenPage
    PROVE  TypeInv'
<1> DEFINE f == Frame(PageTokens(NextPage), NextPage.fonts, NextPage.resources)
<1>1. /\ stack' = <<f>> /\ doc' = doc /\ results' = results /\ status' = status
      /\ status = "running" /\ Len(results) < Len(doc.pages)
  BY DEF OpenPage, BetweenPages
<1>2. Len(results) + 1 \in 1..Len(doc.pages)
  BY <1>1, PageFacts
<1>3. IsContent(PageTokens(NextPage)) /\ HasFonts(NextPage.fonts)
  BY <1>2, PageFacts DEF NextPage
<1>4. IsTyped(f)
  BY <1>3, NewFrameIsTyped
<1> HIDE DEF f
<1>5. Len(<<f>>) = 1 /\ <<f>>[1] = f
  OBVIOUS
<1>6. \A k \in 1..Len(stack') : IsTyped(stack'[k])
  BY <1>1, <1>4, <1>5
<1>7. \A k \in 1..(Len(stack') - 1) : stack'[k].next <= Len(stack'[k].content)
  BY <1>1, <1>5
<1> QED
  BY <1>1, <1>6, <1>7 DEF TypeInv, IsTyped, IsContent, HasFonts, IsFont, HasTexts, NoFont

\* The two ways to finish a page.
LEMMA FinishedPageKeepsTypes ==
    ASSUME TypeInv, NEW text \in Seq(Nat), Len(results) < Len(doc.pages),
           stack' = <<>>, doc' = doc, results' = Append(results, text),
           status = "running", status' = status
    PROVE  TypeInv'
<1>1. results' \in Seq(Seq(Nat)) /\ Len(results') <= Len(doc.pages)
  BY AppendedResult
<1>2. Len(stack') = 0
  BY EmptySeq
<1>3. 1..Len(stack') = {} /\ 1..(Len(stack') - 1) = {}
  BY <1>2
<1> QED
  BY <1>1, <1>3 DEF TypeInv

LEMMA FinishPageKeepsTypes ==
    ASSUME StackInv, TypeInv, FinishPage
    PROVE  TypeInv'
<1>1. /\ stack' = <<>> /\ doc' = doc /\ results' = Append(results, FullText)
      /\ status' = status /\ status = "running" /\ stack # <<>> /\ Len(stack) = 1
  BY DEF FinishPage, AtEnd
<1>2. FrameInv(Top) /\ IsTyped(Top)
  BY <1>1 DEF StackInv, TypeInv, Top
<1>3. FullText \in Seq(Nat)
  BY <1>2, FlushedIsTyped DEF FullText, FrameInv, IsTyped
<1>4. Len(results) < Len(doc.pages)
  BY <1>1 DEF TypeInv
<1> QED
  BY <1>1, <1>3, <1>4, FinishedPageKeepsTypes

LEMMA SkipEmptyPageKeepsTypes ==
    ASSUME TypeInv, SkipEmptyPage
    PROVE  TypeInv'
<1>1. /\ stack' = <<>> /\ doc' = doc /\ results' = Append(results, <<>>)
      /\ status' = status /\ status = "running" /\ Len(results) < Len(doc.pages)
  BY DEF SkipEmptyPage, BetweenPages
<1> QED
  BY <1>1, NothingIsText, FinishedPageKeepsTypes

\* The document is finished, or the machine's stack is full.
LEMMA AnswerKeepsTypes ==
    ASSUME TypeInv, Finish \/ DrawTooDeep
    PROVE  TypeInv'
<1>1. /\ doc' = doc /\ stack' = stack /\ results' = results
      /\ \/ status' = "aborted"
         \/ status' = "ok" /\ stack = <<>> /\ Len(results) = Len(doc.pages)
  BY DEF Finish, DrawTooDeep, BetweenPages
<1> QED
  BY <1>1 DEF TypeInv, IsTyped, IsContent, HasFonts, IsFont, HasTexts, NoFont

LEMMA TypeInvInit == Init => TypeInv
<1> SUFFICES ASSUME Init PROVE TypeInv
  OBVIOUS
<1>1. doc \in Documents /\ stack = <<>> /\ results = <<>> /\ status = "running"
  BY DEF Init
<1>2. Len(doc.pages) \in Nat
  BY <1>1, DocumentsAssumption, LenProperties
<1>3. results \in Seq(Seq(Nat)) /\ Len(results) = 0
  BY <1>1, EmptySeq
<1>4. Len(results) <= Len(doc.pages)
  BY <1>2, <1>3
<1> QED
  BY <1>1, <1>3, <1>4, NoActivations DEF TypeInv

LEMMA TypeInvStep == StackInv /\ TypeInv /\ [Next]_vars => TypeInv'
<1> SUFFICES ASSUME StackInv, TypeInv, [Next]_vars PROVE TypeInv'
  OBVIOUS
<1>1. CASE UNCHANGED vars
  BY <1>1 DEF vars, TypeInv, IsTyped, IsContent, HasFonts, IsFont, HasTexts, NoFont
<1>2. CASE SkipEmptyPage
  BY <1>2, SkipEmptyPageKeepsTypes
<1>3. CASE OpenPage
  BY <1>3, OpenPageKeepsTypes
<1>4. CASE FinishPage
  BY <1>4, FinishPageKeepsTypes
<1>5. CASE Finish \/ DrawTooDeep
  BY <1>5, AnswerKeepsTypes
<1>6. CASE BeginText \/ EndText
  BY <1>6, TextObjectKeepsTypes
<1>7. CASE SetFont
  BY <1>7, SetFontKeepsTypes
<1>8. CASE PassToken
  BY <1>8, SkipKeepsTypes DEF PassToken
<1>9. CASE ShowText
  BY <1>9, ShowTextKeepsTypes
<1>10. CASE ShowArray
  BY <1>10, ShowArrayKeepsTypes
<1>11. CASE NextLine
  BY <1>11, ShowOnNextLineKeepsTypes DEF NextLine
<1>12. CASE NextLineSpaced
  BY <1>12, ShowOnNextLineKeepsTypes DEF NextLineSpaced
<1>13. CASE DrawNothing
  BY <1>13, SkipKeepsTypes DEF DrawNothing, AtOperator
<1>14. CASE DrawForm
  BY <1>14, DrawFormKeepsTypes
<1>15. CASE ReturnForm
  BY <1>15, ReturnFormKeepsTypes
<1> QED
  BY <1>1, <1>2, <1>3, <1>4, <1>5, <1>6, <1>7, <1>8, <1>9, <1>10, <1>11, <1>12, <1>13,
     <1>14, <1>15
     DEF Next, ShowNext, DrawNext

LEMMA TypesFollow == StackInv /\ TypeInv => TypeOK
<1> SUFFICES ASSUME StackInv, TypeInv PROVE TypeOK
  OBVIOUS
<1>1. Len(stack) \in Nat /\ DOMAIN stack = 1..Len(stack) /\ Len(stack) <= MaxDepth
  BY LenProperties DEF StackInv
<1>2. Len(stack) \in 0..MaxDepth
  BY <1>1, DepthAssumption
<1>3. ASSUME NEW k \in DOMAIN stack PROVE FrameOK(stack[k])
  <2>1. FrameInv(stack[k]) /\ IsTyped(stack[k])
    BY <1>1 DEF StackInv, TypeInv
  <2>2. Len(stack[k].content) \in Nat
    BY <2>1, ContentFacts DEF IsTyped
  <2>3. stack[k].next \in 1..(Len(stack[k].content) + 1)
    BY <2>1, <2>2 DEF FrameInv, IsTyped
  <2> QED
    BY <2>1, <2>3 DEF FrameOK, FrameInv, IsTyped
<1> QED
  BY <1>2, <1>3 DEF TypeInv, TypeOK

\* The interpreter never leaves a stream, nor the room that the machine has for its
\* recursion; whatever a document holds, what it gathers are texts, one for each page
\* once it has answered (lib.rs:41-53, text.rs:56-193).
THEOREM TypesAreKept == Spec => []TypeOK
<1>1. Init => StackInv /\ TypeInv
  BY StackInvInit, TypeInvInit
<1>2. (StackInv /\ TypeInv) /\ [Next]_vars => (StackInv /\ TypeInv)'
  BY StackInvStep, TypeInvStep
<1> QED
  BY <1>1, <1>2, TypesFollow, PTL DEF Spec

-----------------------------------------------------------------------------
(***************************************************************************)
(* An order for recursion                                                  *)
(***************************************************************************)

\* Rows of numbers, one for each depth.
Rows(n) == [0..n -> Nat]

AgreeBefore(f, g, k) == \A i \in 0..(k - 1) : f[i] = g[i]

\* One row is before another when it is less where they first differ.
IsLess(f, g, n) == \E k \in 0..n : f[k] < g[k] /\ AgreeBefore(f, g, k)

RowOrder(n) == {pair \in Rows(n) \X Rows(n) : IsLess(pair[1], pair[2], n)}

\* A row of the set that no other is less than in the first k places.
IsLeast(f, T, k) == f \in T /\ \A g \in T : \A i \in 0..(k - 1) : AgreeBefore(g, f, i) => f[i] <= g[i]

\* There is one: the least number at each place, among the rows with the least ones before.
LEMMA LeastRow ==
    ASSUME NEW n \in Nat, NEW T \in SUBSET Rows(n), T # {}
    PROVE  \E f \in T : IsLeast(f, T, n + 1)
<1> DEFINE P == {k \in Nat : k <= n + 1 => \E f \in T : IsLeast(f, T, k)}
<1>1. 0 \in P
  <2>1. PICK f \in T : TRUE
    OBVIOUS
  <2>2. 0..(0 - 1) = {}
    OBVIOUS
  <2>3. IsLeast(f, T, 0)
    BY <2>1, <2>2 DEF IsLeast
  <2> QED
    BY <2>3
<1>2. ASSUME NEW k \in P
      PROVE  k + 1 \in P
  <2>0. k \in Nat
    OBVIOUS
  <2>1. SUFFICES ASSUME k + 1 <= n + 1
                 PROVE  \E f \in T : IsLeast(f, T, k + 1)
    BY <2>0
  <2>2. k <= n + 1 /\ k \in 0..n
    BY <2>0, <2>1
  <2>3. PICK e \in T : IsLeast(e, T, k)
    BY <2>2
  <2> DEFINE A == {f \in T : AgreeBefore(f, e, k)}
             N == {f[k] : f \in A}
  <2>4. N \subseteq Nat /\ N # {}
    <3>1. e \in A
      BY <2>3 DEF AgreeBefore
    <3>2. \A f \in T : f[k] \in Nat
      BY <2>2 DEF Rows
    <3> QED
      BY <3>1, <3>2
  <2>5. PICK m \in N : \A x \in N : m <= x
    <3> HIDE DEF N
    <3> QED
      BY <2>4, MinOfNat
  <2>6. PICK f \in A : f[k] = m
    OBVIOUS
  <2>7. f \in T /\ AgreeBefore(f, e, k)
    OBVIOUS
  <2>8. ASSUME NEW g \in T, NEW i \in 0..k, AgreeBefore(g, f, i)
        PROVE  f[i] <= g[i]
    <3>1. CASE i \in 0..(k - 1)
      <4>1. AgreeBefore(g, e, i)
        BY <2>0, <2>7, <2>8, <3>1 DEF AgreeBefore
      <4>2. e[i] <= g[i]
        BY <2>3, <3>1, <4>1 DEF IsLeast
      <4> QED
        BY <2>7, <3>1, <4>2 DEF AgreeBefore
    <3>2. CASE i = k
      <4>1. AgreeBefore(g, e, k)
        BY <2>7, <2>8, <3>2 DEF AgreeBefore
      <4>2. g[k] \in N
        BY <4>1
      <4> QED
        BY <2>5, <2>6, <3>2, <4>2
    <3> QED
      BY <2>0, <3>1, <3>2
  <2>9. (k + 1) - 1 = k
    BY <2>0
  <2>10. IsLeast(f, T, k + 1)
    BY <2>7, <2>8, <2>9 DEF IsLeast
  <2> QED
    BY <2>7, <2>10
<1>3. \A k \in P : k + 1 \in P
  BY <1>2
<1>4. P \subseteq Nat
  OBVIOUS
<1> HIDE DEF P
<1>5. n + 1 \in P
  BY <1>1, <1>3, <1>4, NatInduct
<1> QED
  BY <1>5 DEF P

\* No sequence of rows goes down for ever.
LEMMA RowsAreWellFounded ==
    ASSUME NEW n \in Nat
    PROVE  IsWellFoundedOn(RowOrder(n), Rows(n))
<1>1. ASSUME NEW T \in SUBSET Rows(n), T # {}
      PROVE  \E f \in T : \A g \in T : ~(<<g, f>> \in RowOrder(n))
  <2>1. PICK f \in T : IsLeast(f, T, n + 1)
    BY <1>1, LeastRow
  <2>2. ASSUME NEW g \in T, <<g, f>> \in RowOrder(n)
        PROVE  FALSE
    <3>1. IsLess(g, f, n)
      BY <2>2 DEF RowOrder
    <3>2. PICK k \in 0..n : g[k] < f[k] /\ AgreeBefore(g, f, k)
      BY <3>1 DEF IsLess
    <3>3. k \in 0..((n + 1) - 1)
      OBVIOUS
    <3>4. f[k] <= g[k]
      BY <2>1, <3>2, <3>3 DEF IsLeast
    <3>5. f[k] \in Nat /\ g[k] \in Nat
      BY DEF Rows
    <3> QED
      BY <3>2, <3>4, <3>5
  <2> QED
    BY <2>2
<1> QED
  BY <1>1, MinWF

-----------------------------------------------------------------------------
(***************************************************************************)
(* Every document comes to an end                                          *)
(***************************************************************************)

\* What the program has ahead of it outside of all streams: its pages, to open the next
\* one, and to answer.
PagesAhead ==
    3 * (Len(doc.pages) - Len(results)) + (IF stack = <<>> THEN 1 ELSE 0)
        + (IF status = "running" THEN 1 ELSE 0)

\* What an activation has ahead of it: its tokens, and the one it is at while it runs.
TokensAhead(k) ==
    2 * (Len(stack[k].content) + 1 - stack[k].next) + (IF k = Len(stack) THEN 1 ELSE 0)

\* A row with a number for the program and one for each activation there is room for.
Ahead ==
    [k \in 0..MaxDepth |->
        IF k = 0 THEN PagesAhead ELSE IF k <= Len(stack) THEN TokensAhead(k) ELSE 0]

LeavesLess == <<Ahead', Ahead>> \in RowOrder(MaxDepth)

LEMMA AheadIsRow ==
    ASSUME StackInv, TypeInv
    PROVE  Ahead \in Rows(MaxDepth)
<1>1. Len(doc.pages) \in Nat /\ Len(results) \in Nat /\ Len(results) <= Len(doc.pages)
  BY PageFacts DEF TypeInv
<1>2. PagesAhead \in Nat
  <2>1. PICK d \in Nat : d = Len(doc.pages) - Len(results)
    BY <1>1
  <2>2. PICK b \in {0, 1} : b = IF stack = <<>> THEN 1 ELSE 0
    OBVIOUS
  <2>3. PICK c \in {0, 1} : c = IF status = "running" THEN 1 ELSE 0
    OBVIOUS
  <2>4. PagesAhead = 3 * d + b + c
    BY <2>1, <2>2, <2>3 DEF PagesAhead
  <2> QED
    BY <2>4
<1>3. Len(stack) \in Nat
  BY LenProperties DEF StackInv
<1>4. ASSUME NEW k \in 1..Len(stack)
      PROVE  TokensAhead(k) \in Nat
  <2>1. stack[k].next \in Nat
    BY DEF StackInv, FrameInv
  <2>2. stack[k].next <= Len(stack[k].content) + 1
    BY DEF TypeInv, IsTyped
  <2>3. Len(stack[k].content) \in Nat
    BY ContentFacts DEF TypeInv, IsTyped
  <2>4. Len(stack[k].content) + 1 - stack[k].next \in Nat
    BY <2>1, <2>2, <2>3
  <2> QED
    BY <2>4 DEF TokensAhead
<1>5. ASSUME NEW k \in 0..MaxDepth
      PROVE  (IF k = 0 THEN PagesAhead ELSE IF k <= Len(stack) THEN TokensAhead(k) ELSE 0) \in Nat
  <2>1. k # 0 /\ k <= Len(stack) => k \in 1..Len(stack)
    BY <1>3
  <2> QED
    BY <1>2, <1>4, <2>1
<1> QED
  BY <1>5 DEF Ahead, Rows

\* The number that decides is that of the program, or of the activation at depth k.
LEMMA LessAt ==
    ASSUME StackInv, TypeInv, StackInv', TypeInv', NEW k \in 0..MaxDepth,
           Ahead'[k] < Ahead[k], \A i \in 0..(k - 1) : Ahead'[i] = Ahead[i]
    PROVE  LeavesLess
<1>1. Ahead \in Rows(MaxDepth)
  BY AheadIsRow
<1>2. (StackInv /\ TypeInv => Ahead \in Rows(MaxDepth))'
  BY AheadIsRow, PTL
<1>3. Ahead' \in Rows(MaxDepth)
  BY <1>2
<1> DEFINE new == Ahead'
           old == Ahead
<1> HIDE DEF new, old
<1>4. new \in Rows(MaxDepth) /\ old \in Rows(MaxDepth)
  BY <1>1, <1>3 DEF new, old
<1>5. new[k] < old[k] /\ \A i \in 0..(k - 1) : new[i] = old[i]
  BY DEF new, old
<1>6. <<new, old>> \in RowOrder(MaxDepth)
  BY <1>4, <1>5 DEF RowOrder, IsLess, AgreeBefore
<1> QED
  BY <1>6 DEF LeavesLess, new, old

\* A page begins or is finished, or the program answers.
LEMMA LessOutside ==
    ASSUME StackInv, TypeInv, StackInv', TypeInv', PagesAhead' < PagesAhead
    PROVE  LeavesLess
<1>1. 0 \in 0..MaxDepth
  BY DepthAssumption
<1>2. Ahead[0] = PagesAhead /\ Ahead'[0] = PagesAhead'
  BY <1>1 DEF Ahead
<1>3. 0..(0 - 1) = {}
  OBVIOUS
<1> QED
  BY <1>1, <1>2, <1>3, LessAt

\* The activation at depth k has less ahead of it, and those below are as they were.
LEMMA LessInside ==
    ASSUME StackInv, TypeInv, StackInv', TypeInv', stack # <<>>, stack' # <<>>,
           doc' = doc, results' = results, status' = status,
           NEW k \in 1..Len(stack), k <= Len(stack'),
           \A i \in 1..(k - 1) : stack'[i] = stack[i],
           TokensAhead(k)' < TokensAhead(k)
    PROVE  LeavesLess
<1>1. Len(stack) \in Nat /\ Len(stack) <= MaxDepth /\ Len(stack') \in Nat
  BY LenProperties DEF StackInv
<1>2. k \in Nat /\ k # 0 /\ k <= Len(stack) /\ k \in 0..MaxDepth
  BY <1>1, DepthAssumption
<1>3. Ahead[k] = TokensAhead(k) /\ Ahead'[k] = TokensAhead(k)'
  BY <1>2 DEF Ahead
<1>4. PagesAhead' = PagesAhead
  BY DEF PagesAhead
<1>5. ASSUME NEW i \in 0..(k - 1)
      PROVE  Ahead'[i] = Ahead[i]
  <2>1. i \in 0..MaxDepth /\ i \in Nat /\ i < k
    BY <1>1, <1>2, DepthAssumption
  <2>2. CASE i = 0
    BY <1>4, <2>1, <2>2 DEF Ahead
  <2>3. CASE i # 0
    <3>1. i \in 1..(k - 1) /\ i <= Len(stack) /\ i <= Len(stack')
          /\ i # Len(stack) /\ i # Len(stack')
      BY <1>1, <1>2, <2>1, <2>3
    <3>2. stack'[i] = stack[i]
      BY <3>1
    <3>3. TokensAhead(i)' = TokensAhead(i)
      BY <3>1, <3>2 DEF TokensAhead
    <3> QED
      BY <2>1, <2>3, <3>1, <3>3 DEF Ahead
  <2> QED
    BY <2>2, <2>3
<1>6. Ahead'[k] < Ahead[k]
  BY <1>3
<1> QED
  BY <1>2, <1>5, <1>6, LessAt

\* The operators that stay in their activation go on in its stream.
LEMMA OperatorGoesOn ==
    ASSUME StackInv, \/ BeginText \/ EndText \/ SetFont \/ PassToken
                     \/ ShowNext \/ DrawNothing
    PROVE  AtToken /\ \E g : Continue(g) /\ DOMAIN g = FrameFields
                             /\ g.content = Top.content /\ g.next = Top.next
<1>1. AtToken
  BY DEF BeginText, EndText, SetFont, PassToken, ShowNext, ShowText, ShowArray, NextLine,
         NextLineSpaced, ShowOnNextLine, DrawNothing, AtOperator
<1>2. FrameInv(Top) /\ SamePlace(Top, Top)
  BY <1>1, TopGoesOn DEF AtToken
<1>3. \A g : SamePlace(Top, g) => /\ DOMAIN g = FrameFields
                                  /\ g.content = Top.content /\ g.next = Top.next
  BY <1>2 DEF SamePlace, FrameInv
<1>4. SamePlace(Top, Flushed(Top)) /\ SamePlace(Top, WithOperandShown(Top))
      /\ SamePlace(Top, WithOperandShown(Flushed(Top)))
  BY <1>2, FlushedFrame, FrameWithOperandShown
<1>5. CASE BeginText
  <2> DEFINE g == [Top EXCEPT !.inText = TRUE, !.line = <<>>]
  <2>1. DOMAIN g = FrameFields /\ g.content = Top.content /\ g.next = Top.next
    BY <1>2 DEF FrameInv, FrameFields
  <2>2. Continue(g)
    BY <1>5 DEF BeginText
  <2> HIDE DEF g
  <2> QED
    BY <1>1, <2>1, <2>2
<1>6. CASE EndText
  <2> DEFINE f == Flushed(Top)
             g == [f EXCEPT !.inText = FALSE]
  <2>1. Continue(g)
    BY <1>6 DEF EndText
  <2>2. DOMAIN f = FrameFields /\ f.content = Top.content /\ f.next = Top.next
    BY <1>3, <1>4
  <2> HIDE DEF f
  <2>3. DOMAIN g = FrameFields /\ g.content = Top.content /\ g.next = Top.next
    BY <2>2 DEF FrameFields
  <2> HIDE DEF g
  <2> QED
    BY <1>1, <2>1, <2>3
<1>7. CASE SetFont
  <2> DEFINE g == IF HasOperands(2) /\ Operand(2).t = "name"
                  THEN [Top EXCEPT !.font = FontNamed(Top.fonts, Operand(2).name)]
                  ELSE Top
  <2>1. SamePlace(Top, g)
    BY <1>2 DEF FrameInv, FrameFields, SamePlace
  <2>2. Continue(g)
    BY <1>7 DEF SetFont
  <2> HIDE DEF g
  <2> QED
    BY <1>1, <1>3, <2>1, <2>2
<1>8. CASE ShowText
  <2> DEFINE g == IF HasOperands(1) /\ Top.inText THEN WithOperandShown(Top) ELSE Top
  <2>1. SamePlace(Top, g)
    BY <1>2, <1>4
  <2>2. Continue(g)
    BY <1>8 DEF ShowText
  <2> HIDE DEF g
  <2> QED
    BY <1>1, <1>3, <2>1, <2>2
<1>9. CASE ShowArray
  <2> DEFINE items == ItemsBackwards(Top.content, Top.next - 1)
             shown == [Top EXCEPT !.line = @ \o ArrayText(items, Top.font)]
             g == IF WalksArray THEN shown ELSE Top
  <2>1. SamePlace(Top, shown)
    BY <1>2 DEF FrameInv, FrameFields, SamePlace
  <2> HIDE DEF shown
  <2>2. SamePlace(Top, g)
    BY <1>2, <2>1
  <2>3. Continue(g)
    BY <1>9 DEF ShowArray, shown
  <2> HIDE DEF g
  <2> QED
    BY <1>1, <1>3, <2>2, <2>3
<1>10. ASSUME NEW op, NEW operands, ShowOnNextLine(op, operands)
       PROVE  \E g : Continue(g) /\ SamePlace(Top, g)
  <2> DEFINE g == IF HasOperands(operands) /\ Top.inText
                  THEN WithOperandShown(Flushed(Top)) ELSE Top
  <2>1. SamePlace(Top, g)
    BY <1>2, <1>4
  <2>2. Continue(g)
    BY <1>10 DEF ShowOnNextLine
  <2> HIDE DEF g
  <2> QED
    BY <2>1, <2>2
<1>11. CASE NextLine \/ NextLineSpaced
  <2>1. \E g : Continue(g) /\ SamePlace(Top, g)
    BY <1>10, <1>11 DEF NextLine, NextLineSpaced
  <2> QED
    BY <1>1, <1>3, <2>1
<1>12. CASE PassToken \/ DrawNothing
  <2>1. Continue(Top)
    BY <1>12 DEF PassToken, DrawNothing
  <2> QED
    BY <1>1, <1>2, <1>3, <2>1
<1> QED
  BY <1>5, <1>6, <1>7, <1>8, <1>9, <1>11, <1>12 DEF ShowNext

\* One token less.
LEMMA OperatorLeavesLess ==
    ASSUME StackInv, TypeInv, StackInv', TypeInv',
           \/ BeginText \/ EndText \/ SetFont \/ PassToken \/ ShowNext \/ DrawNothing
    PROVE  LeavesLess
<1>1. AtToken
  BY OperatorGoesOn
<1>2. PICK g : Continue(g) /\ DOMAIN g = FrameFields
               /\ g.content = Top.content /\ g.next = Top.next
  BY OperatorGoesOn
<1> DEFINE moved == [g EXCEPT !.next = @ + 1]
           S == Activations \cup {moved}
<1>3. /\ stack # <<>> /\ status = "running" /\ IsTyped(Top)
      /\ Top.next \in Nat /\ Top.next <= Len(Top.content)
  BY <1>1, RunningFrame
<1>4. PICK n \in Nat \ {0} : n = Len(stack)
  BY <1>3, StackFacts
<1>5. stack \in Seq(S) /\ moved \in S /\ n \in 1..Len(stack)
  BY <1>4, SeqMonotonic DEF StackInv
<1>6. /\ stack' = [stack EXCEPT ![n] = moved]
      /\ doc' = doc /\ results' = results /\ status' = status
  BY <1>2, <1>4 DEF Continue
<1>7. moved.content = Top.content /\ moved.next = Top.next + 1
  BY <1>2 DEF FrameFields
<1> HIDE DEF S, moved
<1>8. /\ Len(stack') = Len(stack)
      /\ \A k \in 1..Len(stack) : stack'[k] = IF k = n THEN moved ELSE stack[k]
  BY <1>5, <1>6, ExceptSeq
<1>9. \A i \in 1..(n - 1) : stack'[i] = stack[i]
  BY <1>4, <1>8
<1>10. stack' # <<>>
  BY <1>4, <1>8, EmptySeq
<1>11. PICK c \in Nat, p \in Nat : c = Len(Top.content) /\ p = Top.next
  BY <1>3, ContentFacts DEF IsTyped
<1>12. TokensAhead(n) = 2 * (c + 1 - p) + 1
  BY <1>4, <1>11 DEF TokensAhead, Top
<1>13. stack'[n] = moved
  BY <1>5, <1>8
<1>14. TokensAhead(n)' = 2 * (c + 1 - (p + 1)) + 1
  BY <1>4, <1>7, <1>8, <1>11, <1>13 DEF TokensAhead
<1>15. 2 * (c + 1 - (p + 1)) + 1 < 2 * (c + 1 - p) + 1
  <2>1. PICK a \in Int : a = c + 1 - p
    OBVIOUS
  <2>2. c + 1 - (p + 1) = a - 1
    BY <2>1
  <2> QED
    BY <2>1, <2>2
<1>16. TokensAhead(n)' < TokensAhead(n)
  BY <1>12, <1>14, <1>15
<1> QED
  BY <1>3, <1>4, <1>5, <1>6, <1>8, <1>9, <1>10, <1>16, LessInside

\* The caller waits at its Do.
LEMMA DrawLeavesLess ==
    ASSUME StackInv, TypeInv, StackInv', TypeInv', DrawForm
    PROVE  LeavesLess
<1>1. PICK f : stack' = Append(stack, f)
  BY DEF DrawForm
<1>2. stack # <<>> /\ doc' = doc /\ results' = results /\ status' = status
      /\ Top.next \in Nat /\ IsTyped(Top)
  BY RunningFrame DEF DrawForm, AtOperator
<1>3. PICK n \in Nat \ {0} : n = Len(stack)
  BY <1>2, StackFacts
<1> DEFINE S == Activations \cup {f}
<1>4. stack \in Seq(S) /\ f \in S
  BY SeqMonotonic DEF StackInv
<1> HIDE DEF S
<1>5. /\ Len(stack') = n + 1
      /\ \A i \in 1..n : stack'[i] = stack[i]
  BY <1>1, <1>3, <1>4, AppendProperties
<1>6. stack' # <<>>
  BY <1>3, <1>5, EmptySeq
<1>7. n \in 1..n /\ n <= Len(stack') /\ n # n + 1
      /\ \A i \in 1..(n - 1) : i \in 1..n
  BY <1>3, <1>5
<1>8. PICK c \in Nat, p \in Nat : c = Len(Top.content) /\ p = Top.next
  BY <1>2, ContentFacts DEF IsTyped
<1>9. TokensAhead(n) = 2 * (c + 1 - p) + 1
  BY <1>3, <1>8 DEF TokensAhead, Top
<1>10. stack'[n] = Top
  BY <1>3, <1>5, <1>7 DEF Top
<1>11. TokensAhead(n)' = 2 * (c + 1 - p) + 0
  BY <1>5, <1>7, <1>8, <1>10 DEF TokensAhead
<1>12. TokensAhead(n)' < TokensAhead(n)
  BY <1>8, <1>9, <1>11
<1> QED
  BY <1>2, <1>3, <1>5, <1>6, <1>7, <1>12, LessInside

\* The caller has passed its Do.
LEMMA ReturnLeavesLess ==
    ASSUME StackInv, TypeInv, StackInv', TypeInv', ReturnForm
    PROVE  LeavesLess
<1>1. PICK n : n = Len(stack) - 1
  OBVIOUS
<1>2. PICK moved : moved = [stack[n] EXCEPT !.text = Appended(@, FullText), !.next = @ + 1]
  OBVIOUS
<1>3. /\ Len(stack) \in Nat /\ n \in 1..Len(stack) /\ n < Len(stack)
      /\ Len(stack') = n
      /\ \A k \in 1..n : stack'[k] = IF k = n THEN moved ELSE stack[k]
  BY <1>1, <1>2, ReturnedStack
<1>4. stack # <<>> /\ doc' = doc /\ results' = results /\ status' = status
  BY DEF ReturnForm, AtEnd
<1>5. n \in Nat \ {0} /\ n # Len(stack) /\ n \in 1..n
      /\ \A i \in 1..(n - 1) : i \in 1..n /\ i # n
  BY <1>1, <1>3
<1>6. stack' # <<>>
  BY <1>3, <1>5, EmptySeq
<1>7. FrameInv(stack[n]) /\ IsTyped(stack[n])
  BY <1>3 DEF StackInv, TypeInv
<1>8. PICK c \in Nat, p \in Nat : c = Len(stack[n].content) /\ p = stack[n].next
  BY <1>7, ContentFacts DEF IsTyped, FrameInv
<1>9. moved.content = stack[n].content /\ moved.next = stack[n].next + 1
  BY <1>2, <1>7 DEF FrameInv, FrameFields
<1>10. TokensAhead(n) = 2 * (c + 1 - p) + 0
  BY <1>5, <1>8 DEF TokensAhead
<1>11. stack'[n] = moved
  BY <1>3, <1>5
<1>12. TokensAhead(n)' = 2 * (c + 1 - (p + 1)) + 1
  BY <1>3, <1>8, <1>9, <1>11 DEF TokensAhead
<1>13. 2 * (c + 1 - (p + 1)) + 1 < 2 * (c + 1 - p) + 0
  BY <1>8
<1>14. TokensAhead(n)' < TokensAhead(n)
  BY <1>10, <1>12, <1>13
<1>15. \A i \in 1..(n - 1) : stack'[i] = stack[i]
  BY <1>3, <1>5
<1> QED
  BY <1>3, <1>4, <1>5, <1>6, <1>14, <1>15, LessInside

LEMMA PageLeavesLess ==
    ASSUME StackInv, TypeInv, StackInv', TypeInv',
           SkipEmptyPage \/ OpenPage \/ FinishPage \/ Finish \/ DrawTooDeep
    PROVE  LeavesLess
<1>1. Len(doc.pages) \in Nat /\ Len(results) \in Nat /\ results \in Seq(Seq(Nat))
  BY PageFacts DEF TypeInv
<1>2. PICK d \in Int : d = Len(doc.pages) - Len(results)
  BY <1>1
<1>3. CASE SkipEmptyPage \/ FinishPage
  <2>1. PICK text : results' = Append(results, text)
    BY <1>3 DEF SkipEmptyPage, FinishPage
  <2>2. Len(results') = Len(results) + 1
    <3>1. results \in Seq(Seq(Nat) \cup {text}) /\ text \in Seq(Nat) \cup {text}
      BY <1>1, SeqMonotonic
    <3> QED
      BY <2>1, <3>1, AppendProperties
  <2>3. doc' = doc /\ status' = status /\ status = "running" /\ stack' = <<>>
    BY <1>3 DEF SkipEmptyPage, FinishPage, BetweenPages, AtEnd
  <2>4. Len(doc'.pages) - Len(results') = d - 1
    BY <1>1, <1>2, <2>2, <2>3
  <2>5. PagesAhead' = 3 * (d - 1) + 1 + 1
    BY <2>3, <2>4 DEF PagesAhead
  <2>6. PICK b \in {0, 1} : b = IF stack = <<>> THEN 1 ELSE 0
    OBVIOUS
  <2>7. PagesAhead = 3 * d + b + 1
    BY <1>2, <2>3, <2>6 DEF PagesAhead
  <2>8. PagesAhead' < PagesAhead
    BY <2>5, <2>6, <2>7
  <2> QED
    BY <2>8, LessOutside
<1>4. CASE OpenPage
  <2>1. doc' = doc /\ results' = results /\ status' = status /\ status = "running"
        /\ stack = <<>>
    BY <1>4 DEF OpenPage, BetweenPages
  <2>2. stack' # <<>>
    BY <1>4 DEF OpenPage
  <2>3. PagesAhead = 3 * d + 1 + 1 /\ PagesAhead' = 3 * d + 0 + 1
    BY <1>2, <2>1, <2>2 DEF PagesAhead
  <2>4. PagesAhead' < PagesAhead
    BY <2>3
  <2> QED
    BY <2>4, LessOutside
<1>5. CASE Finish \/ DrawTooDeep
  <2>1. doc' = doc /\ results' = results /\ stack' = stack /\ status = "running"
        /\ status' # "running"
    BY <1>5 DEF Finish, DrawTooDeep, BetweenPages, AtOperator, AtToken
  <2>2. PICK b \in {0, 1} : b = IF stack = <<>> THEN 1 ELSE 0
    OBVIOUS
  <2>3. PagesAhead = 3 * d + b + 1 /\ PagesAhead' = 3 * d + b + 0
    BY <1>2, <2>1, <2>2 DEF PagesAhead
  <2>4. PagesAhead' < PagesAhead
    BY <2>2, <2>3
  <2> QED
    BY <2>4, LessOutside
<1> QED
  BY <1>3, <1>4, <1>5

\* However the forms of a document draw each other, the interpreter comes to its answer or
\* to the end of the machine's stack: each step leaves less ahead to the program or to one
\* of its activations, whatever it adds to those above it, and there is no end of going
\* down (lib.rs:41-53, text.rs:56-193, 343).
THEOREM EveryStepLeavesLessAhead ==
    /\ Spec => [][LeavesLess]_vars
    /\ IsWellFoundedOn(RowOrder(MaxDepth), Rows(MaxDepth))
<1>1. Init => StackInv /\ TypeInv
  BY StackInvInit, TypeInvInit
<1>2. (StackInv /\ TypeInv) /\ [Next]_vars => (StackInv /\ TypeInv)'
  BY StackInvStep, TypeInvStep
<1>3. (StackInv /\ TypeInv) /\ (StackInv /\ TypeInv)' /\ [Next]_vars => [LeavesLess]_vars
  <2> SUFFICES ASSUME StackInv, TypeInv, StackInv', TypeInv', Next PROVE LeavesLess
    OBVIOUS
  <2> QED
    BY OperatorLeavesLess, DrawLeavesLess, ReturnLeavesLess, PageLeavesLess DEF Next, DrawNext
<1>4. Spec => [][LeavesLess]_vars
  BY <1>1, <1>2, <1>3, PTL DEF Spec
<1>5. MaxDepth \in Nat
  BY DepthAssumption
<1> QED
  BY <1>4, <1>5, RowsAreWellFounded

-----------------------------------------------------------------------------
(***************************************************************************)
(* Texts joined out of pieces                                              *)
(***************************************************************************)

\* One more sequence is joined at the end.
LEMMA FlattenSeqGrows ==
    ASSUME NEW S, NEW n \in Nat, NEW texts \in [1..(n + 1) -> Seq(S)],
           NEW before, before = [k \in 1..n |-> texts[k]]
    PROVE  /\ FlattenSeq(before) \in Seq(S)
           /\ FlattenSeq(texts) = FlattenSeq(before) \o texts[n + 1]
<1>1. texts \in Seq(Seq(S)) /\ Len(texts) = n + 1
  OBVIOUS
<1>2. before \in [1..n -> Seq(S)]
  OBVIOUS
<1>3. before \in Seq(Seq(S)) /\ Len(before) = n
  BY <1>2
<1>4. PICK f \in [0..(n + 1) -> Seq(S)] :
         /\ f[0] = <<>>
         /\ \A i \in 1..(n + 1) : f[i] = f[i - 1] \o texts[i]
         /\ FlattenSeq(texts) = f[n + 1]
  BY <1>1, FlattenSeqSteps, Zenon
<1>5. PICK g \in [0..n -> Seq(S)] :
         /\ g[0] = <<>>
         /\ \A i \in 1..n : g[i] = g[i - 1] \o before[i]
         /\ FlattenSeq(before) = g[n]
  <2>1. PICK m \in Nat : m = Len(before)
    BY <1>3
  <2>2. \E g \in [0..m -> Seq(S)] :
           /\ g[0] = <<>>
           /\ \A i \in 1..m : g[i] = g[i - 1] \o before[i]
           /\ FlattenSeq(before) = g[m]
    BY <1>3, <2>1, FlattenSeqSteps, Zenon
  <2> QED
    BY <1>3, <2>1, <2>2, Zenon
<1> DEFINE P == {k \in Nat : k \in 0..n => f[k] = g[k]}
<1>6. 0 \in P
  BY <1>4, <1>5
<1>7. ASSUME NEW k \in Nat, k \in P PROVE k + 1 \in P
  <2> SUFFICES ASSUME k + 1 \in 0..n PROVE f[k + 1] = g[k + 1]
    OBVIOUS
  <2>1. PICK i \in 1..n : i = k + 1
    OBVIOUS
  <2>2. i \in 1..(n + 1) /\ i - 1 = k /\ k \in 0..n /\ before[i] = texts[i]
    BY <2>1
  <2>3. f[i] = f[i - 1] \o texts[i] /\ g[i] = g[i - 1] \o before[i]
    BY <1>4, <1>5, <2>2
  <2> QED
    BY <1>7, <2>1, <2>2, <2>3
<1> HIDE DEF P
<1>8. n \in P
  BY <1>6, <1>7, NatInduct
<1>9. f[n] = g[n]
  BY <1>8 DEF P
<1>10. PICK i \in 1..(n + 1) : i = n + 1
  OBVIOUS
<1>11. f[i] = f[i - 1] \o texts[i] /\ i - 1 = n
  <2>1. f[i] = f[i - 1] \o texts[i]
    BY <1>4
  <2> QED
    BY <1>10, <2>1
<1>12. g[n] \in Seq(S)
  BY <1>5
<1> QED
  BY <1>4, <1>5, <1>9, <1>10, <1>11, <1>12

LEMMA FlattenNothing == FlattenSeq(<<>>) = <<>>
  BY DEF FlattenSeq

LEMMA FlattenOne ==
    ASSUME NEW S, NEW s \in Seq(S)
    PROVE  FlattenSeq(<<s>>) = s
<1> DEFINE before == <<>>
           texts == <<s>>
<1>1. texts \in [1..(0 + 1) -> Seq(S)] /\ before = [k \in 1..0 |-> texts[k]] /\ texts[0 + 1] = s
  OBVIOUS
<1> HIDE DEF texts
<1>2. FlattenSeq(texts) = FlattenSeq(before) \o s
  BY <1>1, FlattenSeqGrows
<1>3. <<>> \o s = s
  BY ConcatEmptySeq
<1> QED
  BY <1>2, <1>3, FlattenNothing DEF texts

\* Sequences that are joined one behind the other.
LEMMA FlattenSeqConcat ==
    ASSUME NEW S, NEW first \in Seq(Seq(S)), NEW second \in Seq(Seq(S))
    PROVE  FlattenSeq(first \o second) = FlattenSeq(first) \o FlattenSeq(second)
<1> DEFINE m == Len(first)
           n == Len(second)
           all == first \o second
<1>1. m \in Nat /\ n \in Nat /\ all \in Seq(Seq(S)) /\ Len(all) = m + n
  BY ConcatProperties
<1>2. /\ \A i \in 1..m : all[i] = first[i]
      /\ \A i \in 1..n : all[m + i] = second[i] /\ second[i] \in Seq(S)
  BY ConcatProperties, ElementOfSeq
<1> HIDE DEF m, n, all
<1>4. PICK f \in [0..(m + n) -> Seq(S)] :
         /\ f[0] = <<>>
         /\ \A i \in 1..(m + n) : f[i] = f[i - 1] \o all[i]
         /\ FlattenSeq(all) = f[m + n]
  BY <1>1, FlattenSeqSteps, Zenon
<1>5. PICK g \in [0..m -> Seq(S)] :
         /\ g[0] = <<>>
         /\ \A i \in 1..m : g[i] = g[i - 1] \o first[i]
         /\ FlattenSeq(first) = g[m]
  BY FlattenSeqSteps DEF m
<1>6. PICK h \in [0..n -> Seq(S)] :
         /\ h[0] = <<>>
         /\ \A i \in 1..n : h[i] = h[i - 1] \o second[i]
         /\ FlattenSeq(second) = h[n]
  BY FlattenSeqSteps DEF n
<1> DEFINE P == {k \in Nat : k \in 0..m => f[k] = g[k]}
<1>7. 0 \in P
  BY <1>4, <1>5
<1>8. ASSUME NEW k \in Nat, k \in P PROVE k + 1 \in P
  <2> SUFFICES ASSUME k + 1 \in 0..m PROVE f[k + 1] = g[k + 1]
    OBVIOUS
  <2>1. PICK i \in 1..m : i = k + 1
    BY <1>1
  <2>2. i \in 1..(m + n) /\ i - 1 = k /\ k \in 0..m
    BY <1>1, <2>1
  <2>3. f[i] = f[i - 1] \o all[i] /\ g[i] = g[i - 1] \o first[i] /\ all[i] = first[i]
    BY <1>2, <1>4, <1>5, <2>2
  <2> QED
    BY <1>8, <2>1, <2>2, <2>3
<1> HIDE DEF P
<1>9. m \in P
  BY <1>1, <1>7, <1>8, NatInduct
<1>10. f[m] = g[m] /\ g[m] \in Seq(S)
  BY <1>1, <1>5, <1>9 DEF P
<1> DEFINE IsJoined(k) == k \in 0..n => f[m + k] = g[m] \o h[k]
           Q == {k \in Nat : IsJoined(k)}
<1>11. 0 \in Q
  <2>1. g[m] \o <<>> = g[m]
    BY <1>10, ConcatEmptySeq
  <2>2. m + 0 = m
    BY <1>1
  <2>3. IsJoined(0)
    BY <1>6, <1>10, <2>1, <2>2
  <2> QED
    BY <2>3
<1>12. ASSUME NEW k \in Nat, k \in Q PROVE k + 1 \in Q
  <2> SUFFICES ASSUME k + 1 \in 0..n PROVE f[m + (k + 1)] = g[m] \o h[k + 1]
    <3>1. IsJoined(k + 1) => k + 1 \in Q
      <4> HIDE DEF IsJoined
      <4> QED
        OBVIOUS
    <3> QED
      BY <3>1
  <2>1. PICK i \in 1..n : i = k + 1
    BY <1>1
  <2>2. PICK j \in 1..(m + n) : j = m + i
    BY <1>1
  <2>3. i - 1 = k /\ k \in 0..n /\ j - 1 = m + k
    BY <1>1, <2>1, <2>2
  <2>4. f[j] = f[j - 1] \o all[j] /\ h[i] = h[i - 1] \o second[i]
    BY <1>4, <1>6
  <2>5. all[j] = second[i] /\ second[i] \in Seq(S) /\ h[k] \in Seq(S)
    BY <1>2, <1>6, <2>2, <2>3
  <2>6. f[m + k] = g[m] \o h[k]
    BY <1>12, <2>3
  <2>7. (g[m] \o h[k]) \o second[i] = g[m] \o (h[k] \o second[i])
    <3>1. \A s, t, u \in Seq(S) : (s \o t) \o u = s \o (t \o u)
      BY ConcatAssociative
    <3> QED
      BY <1>10, <2>5, <3>1, Zenon
  <2> QED
    BY <2>1, <2>2, <2>3, <2>4, <2>5, <2>6, <2>7
<1> HIDE DEF Q
<1>13. n \in Q
  BY <1>1, <1>11, <1>12, NatInduct
<1>14. f[m + n] = g[m] \o h[n]
  BY <1>1, <1>13 DEF Q
<1> QED
  BY <1>4, <1>5, <1>6, <1>14 DEF all

\* The largest of numbers that have a bound.
LEMMA MaxOfBounded ==
    ASSUME NEW n \in Nat, NEW S \in SUBSET (1..n), S # {}
    PROVE  Max(S) \in S /\ \A y \in S : y <= Max(S)
<1> DEFINE D == {n - x : x \in S}
           d == Min(D)
<1>1. D \subseteq Nat /\ D # {}
  <2>1. ASSUME NEW x \in S PROVE n - x \in Nat
    <3>1. x \in 1..n
      OBVIOUS
    <3> QED
      BY <3>1
  <2> QED
    BY <2>1
<1>2. d \in D /\ \A y \in D : d <= y
  BY <1>1, MinOfNat
<1>3. PICK x \in S : d = n - x
  BY <1>2
<1>4. ASSUME NEW y \in S PROVE x >= y
  <2>1. n - y \in D
    OBVIOUS
  <2>2. n - x <= n - y
    BY <1>2, <1>3, <2>1
  <2>3. x \in Nat /\ y \in Nat
    OBVIOUS
  <2> QED
    BY <2>2, <2>3
<1>5. \E z \in S : \A y \in S : z >= y
  BY <1>4
<1> HIDE DEF D, d
<1>6. Max(S) \in S /\ \A y \in S : Max(S) >= y
  BY <1>5 DEF Max
<1>7. \A y \in S : y \in Nat
  OBVIOUS
<1> QED
  BY <1>6, <1>7

LEMMA MaxIs ==
    ASSUME NEW n \in Nat, NEW S \in SUBSET (1..n), NEW x \in S, \A y \in S : y <= x
    PROVE  Max(S) = x
<1>1. Max(S) \in S /\ x <= Max(S)
  BY MaxOfBounded
<1>2. PICK y \in S : y = Max(S)
  BY <1>1
<1>3. y <= x /\ y \in 1..n /\ x \in 1..n
  OBVIOUS
<1> QED
  BY <1>1, <1>2, <1>3

\* What FoldLeft puts together of the pieces whose places are in a set.
IsGathered(g, n, pieces) ==
    g = [x \in SUBSET (1..n) |->
            IF x = {} THEN <<>> ELSE Appended(g[x \ {Max(x)}], pieces[Max(x)])]

LEMMA GatheredExists ==
    ASSUME NEW pieces, NEW n \in Nat
    PROVE  \E g : IsGathered(g, n, pieces)
<1> DEFINE P == {k \in Nat : \E g : IsGathered(g, k, pieces)}
<1>1. 0 \in P
  <2> DEFINE g == [x \in SUBSET (1..0) |-> <<>>]
  <2>1. \A x \in SUBSET (1..0) : x = {}
    OBVIOUS
  <2>2. g = [x \in SUBSET (1..0) |->
                IF x = {} THEN <<>> ELSE Appended(g[x \ {Max(x)}], pieces[Max(x)])]
    BY <2>1
  <2> HIDE DEF g
  <2>3. IsGathered(g, 0, pieces)
    BY <2>2 DEF IsGathered
  <2> QED
    BY <2>3
<1>2. ASSUME NEW k \in Nat, k \in P PROVE k + 1 \in P
  <2>1. PICK g : IsGathered(g, k, pieces)
    BY <1>2
  <2> DEFINE N == SUBSET (1..(k + 1))
             h == [x \in N |->
                     IF k + 1 \in x THEN Appended(g[x \ {k + 1}], pieces[k + 1]) ELSE g[x]]
             Gathered(x) == IF x = {} THEN <<>> ELSE Appended(h[x \ {Max(x)}], pieces[Max(x)])
  <2>2. ASSUME NEW x \in N PROVE h[x] = Gathered(x)
    <3>1. CASE k + 1 \in x
      <4>1. \A y \in x : y <= k + 1
        OBVIOUS
      <4>2. Max(x) = k + 1
        BY <3>1, <4>1, MaxIs
      <4>3. x \ {k + 1} \in N /\ k + 1 \notin x \ {k + 1}
        OBVIOUS
      <4>4. h[x \ {k + 1}] = g[x \ {k + 1}]
        BY <4>3, Zenon
      <4>5. h[x] = Appended(g[x \ {k + 1}], pieces[k + 1])
        BY <3>1, Zenon
      <4> HIDE DEF h
      <4> QED
        BY <3>1, <4>2, <4>4, <4>5
    <3>2. CASE k + 1 \notin x
      <4>1. x \in SUBSET (1..k)
        BY <3>2
      <4>2. h[x] = g[x]
        BY <3>2, Zenon
      <4>3. g[x] = IF x = {} THEN <<>> ELSE Appended(g[x \ {Max(x)}], pieces[Max(x)])
        BY <2>1, <4>1, Zenon DEF IsGathered
      <4>4. x \ {Max(x)} \in N /\ k + 1 \notin x \ {Max(x)}
        BY <3>2
      <4>5. h[x \ {Max(x)}] = g[x \ {Max(x)}]
        BY <4>4, Zenon
      <4> HIDE DEF h
      <4> QED
        BY <4>2, <4>3, <4>5
    <3> QED
      BY <3>1, <3>2
  <2>3. h = [x \in N |-> h[x]]
    BY Zenon
  <2>4. h = [x \in N |-> Gathered(x)]
    <3> HIDE DEF h
    <3> QED
      BY <2>2, <2>3
  <2>5. IsGathered(h, k + 1, pieces)
    <3> HIDE DEF h
    <3> QED
      BY <2>4 DEF IsGathered
  <2> HIDE DEF h
  <2> QED
    BY <2>5
<1> HIDE DEF P
<1>3. n \in P
  BY <1>1, <1>2, NatInduct
<1> QED
  BY <1>3 DEF P

\* The function that the definition of FoldLeft chooses.
LEMMA FoldGathers ==
    ASSUME NEW S, NEW pieces \in Seq(S), NEW n, n = Len(pieces)
    PROVE  \E g : IsGathered(g, n, pieces) /\ FoldLeft(Appended, <<>>, pieces) = g[1..n]
<1>1. n \in Nat /\ DOMAIN pieces = 1..n
  BY LenProperties
<1> DEFINE g == CHOOSE f : f = [x \in SUBSET (1..n) |->
                    IF x = {} THEN <<>> ELSE Appended(f[x \ {Max(x)}], pieces[Max(x)])]
<1>2. FoldLeft(Appended, <<>>, pieces) = g[1..n]
  BY <1>1, Zenon DEF FoldLeft, MapThenFoldSet
<1>3. IsGathered(g, n, pieces)
  BY <1>1, GatheredExists DEF IsGathered
<1> QED
  BY <1>2, <1>3

LEMMA GatheredAgain ==
    ASSUME NEW m \in Nat, NEW n \in Nat, m <= n, NEW pieces, NEW more,
           \A i \in 1..m : more[i] = pieces[i],
           NEW g, IsGathered(g, m, pieces), NEW h, IsGathered(h, n, more)
    PROVE  g[1..m] = h[1..m]
<1> DEFINE P == {k \in Nat : k <= m => g[1..k] = h[1..k]}
<1>1. 0 \in P
  <2>1. 1..0 = {} /\ {} \in SUBSET (1..m) /\ {} \in SUBSET (1..n)
    OBVIOUS
  <2>2. g[{}] = <<>> /\ h[{}] = <<>>
    BY <2>1, Zenon DEF IsGathered
  <2> QED
    BY <2>1, <2>2
<1>2. ASSUME NEW k \in Nat, k \in P PROVE k + 1 \in P
  <2> SUFFICES ASSUME k + 1 <= m PROVE g[1..(k + 1)] = h[1..(k + 1)]
    OBVIOUS
  <2> DEFINE x == 1..(k + 1)
  <2>1. x \in SUBSET (1..m) /\ x \in SUBSET (1..n) /\ x # {} /\ k + 1 \in x /\ k + 1 \in 1..m
    OBVIOUS
  <2>2. \A y \in x : y <= k + 1
    OBVIOUS
  <2> HIDE DEF x
  <2>3. Max(x) = k + 1
    BY <2>1, <2>2, MaxIs
  <2>4. x \ {k + 1} = 1..k
    BY DEF x
  <2>5. g[x] = Appended(g[x \ {Max(x)}], pieces[Max(x)])
    BY <2>1, Zenon DEF IsGathered
  <2>6. h[x] = Appended(h[x \ {Max(x)}], more[Max(x)])
    BY <2>1, Zenon DEF IsGathered
  <2>7. g[1..k] = h[1..k]
    BY <1>2
  <2>8. g[x] = h[x]
    BY <2>1, <2>3, <2>4, <2>5, <2>6, <2>7
  <2> QED
    BY <2>8 DEF x
<1> HIDE DEF P
<1>3. m \in P
  BY <1>1, <1>2, NatInduct
<1> QED
  BY <1>3 DEF P

\* One more piece is appended to what the pieces before it are.
LEMMA FoldGrows ==
    ASSUME NEW S, NEW pieces \in Seq(S), NEW piece \in S
    PROVE  FoldLeft(Appended, <<>>, Append(pieces, piece)) =
           Appended(FoldLeft(Appended, <<>>, pieces), piece)
<1> DEFINE n == Len(pieces)
           more == Append(pieces, piece)
<1>1. n \in Nat /\ more \in Seq(S) /\ Len(more) = n + 1 /\ more[n + 1] = piece
      /\ \A i \in 1..n : more[i] = pieces[i]
  BY AppendProperties, LenProperties
<1>2. PICK g : IsGathered(g, n, pieces) /\ FoldLeft(Appended, <<>>, pieces) = g[1..n]
  BY FoldGathers
<1> HIDE DEF n, more
<1>3. PICK h : IsGathered(h, n + 1, more) /\ FoldLeft(Appended, <<>>, more) = h[1..(n + 1)]
  BY <1>1, FoldGathers
<1>4. g[1..n] = h[1..n]
  BY <1>1, <1>2, <1>3, GatheredAgain
<1> DEFINE x == 1..(n + 1)
<1>5. x \in SUBSET (1..(n + 1)) /\ x # {} /\ n + 1 \in x /\ \A y \in x : y <= n + 1
  <2>1. ASSUME NEW m \in Nat
        PROVE  /\ 1..(m + 1) \in SUBSET (1..(m + 1)) /\ 1..(m + 1) # {} /\ m + 1 \in 1..(m + 1)
               /\ \A y \in 1..(m + 1) : y <= m + 1
    <3>1. m + 1 \in 1..(m + 1)
      OBVIOUS
    <3>2. \A y \in 1..(m + 1) : y <= m + 1
      OBVIOUS
    <3> QED
      BY <3>1, <3>2, Zenon
  <2> QED
    BY <1>1, <2>1, Zenon
<1>6. x \ {n + 1} = 1..n
  BY <1>1
<1> HIDE DEF x
<1>7. Max(x) = n + 1
  <2>1. n + 1 \in Nat
    BY <1>1
  <2> QED
    BY <1>5, <2>1, MaxIs
<1>8. h[x] = Appended(h[x \ {Max(x)}], more[Max(x)])
  BY <1>3, <1>5, Zenon DEF IsGathered
<1>9. h[x] = Appended(g[1..n], piece)
  BY <1>1, <1>4, <1>6, <1>7, <1>8
<1> QED
  BY <1>2, <1>3, <1>9 DEF x, more

LEMMA FoldNothing == FoldLeft(Appended, <<>>, <<>>) = <<>>
<1> DEFINE pieces == <<>>
<1>1. pieces \in Seq({}) /\ Len(pieces) = 0
  OBVIOUS
<1>2. PICK g : IsGathered(g, 0, pieces) /\ FoldLeft(Appended, <<>>, pieces) = g[1..0]
  BY <1>1, FoldGathers
<1>3. 1..0 = {} /\ {} \in SUBSET (1..0)
  OBVIOUS
<1>4. g[{}] = <<>>
  BY <1>2, <1>3, Zenon DEF IsGathered
<1> QED
  BY <1>2, <1>3, <1>4

-----------------------------------------------------------------------------
(***************************************************************************)
(* What the declarative text says of a place, from what it says of the     *)
(* place before                                                            *)
(***************************************************************************)

\* A BT begins a text object, an ET ends it, and no other token does.
LEMMA InTextGoesOn ==
    ASSUME NEW c, NEW p \in Nat \ {0}
    PROVE  IsInText(c, p + 1) <=>
               (c[p] = Op("BT") \/ (IsInText(c, p) /\ c[p] # Op("ET")))
<1>1. Op("BT") # Op("ET")
  BY DEF Op
<1>2. p \in Nat /\ p >= 1 /\ (p + 1) - 1 = p
  OBVIOUS
<1>3. ASSUME IsInText(c, p + 1), c[p] # Op("BT")
      PROVE  IsInText(c, p) /\ c[p] # Op("ET")
  <2>1. PICK b \in 1..p : c[b] = Op("BT") /\ \A q \in (b + 1)..p : c[q] # Op("ET")
    BY <1>2, <1>3 DEF IsInText
  <2>2. b \in 1..(p - 1) /\ p \in (b + 1)..p /\ \A q \in (b + 1)..(p - 1) : q \in (b + 1)..p
    BY <1>2, <1>3, <2>1
  <2> QED
    BY <2>1, <2>2 DEF IsInText
<1>4. ASSUME c[p] = Op("BT") PROVE IsInText(c, p + 1)
  <2>1. p \in 1..p /\ (p + 1)..p = {}
    BY <1>2
  <2> QED
    BY <1>2, <1>4, <2>1 DEF IsInText
<1>5. ASSUME IsInText(c, p), c[p] # Op("ET") PROVE IsInText(c, p + 1)
  <2>1. PICK b \in 1..(p - 1) : c[b] = Op("BT") /\ \A q \in (b + 1)..(p - 1) : c[q] # Op("ET")
    BY <1>5 DEF IsInText
  <2>2. b \in 1..p /\ \A q \in (b + 1)..p : q = p \/ q \in (b + 1)..(p - 1)
    BY <1>2, <2>1
  <2>3. \A q \in (b + 1)..p : c[q] # Op("ET")
    BY <1>5, <2>1, <2>2
  <2> QED
    BY <1>2, <2>1, <2>2, <2>3 DEF IsInText
<1> QED
  BY <1>3, <1>4, <1>5

LEMMA InTextBegins == \A c : ~IsInText(c, 1)
  BY DEF IsInText

\* The last of a set of places, when one more place is looked at.
LEMMA LastPlaceGoesOn ==
    ASSUME NEW n \in Nat, NEW S \in SUBSET (1..n), NEW T, T = S \cup {n + 1}
    PROVE  Max(T) = n + 1
<1>1. \A y \in S : y <= n + 1
  <2>1. \A y \in 1..n : y <= n + 1
    OBVIOUS
  <2> QED
    BY <2>1
<1>2. T \in SUBSET (1..(n + 1))
  <2>1. n + 1 \in 1..(n + 1) /\ \A y \in 1..n : y \in 1..(n + 1)
    OBVIOUS
  <2> QED
    BY <2>1
<1>3. n + 1 \in T /\ \A y \in T : y <= n + 1
  BY <1>1
<1>4. n + 1 \in Nat
  OBVIOUS
<1> QED
  BY <1>2, <1>3, <1>4, MaxIs

\* A Tf that has a name chooses a font, and nothing else does.
ChoosesFont(c, p) == p >= 3 /\ c[p] = Op("Tf") /\ c[p - 2].t = "name"

LEMMA FontGoesOn ==
    ASSUME NEW c, NEW fonts, NEW p \in Nat \ {0}
    PROVE  FontAt(c, fonts, p + 1) =
               IF ChoosesFont(c, p) THEN FontNamed(fonts, c[p - 2].name)
               ELSE FontAt(c, fonts, p)
<1> DEFINE Uses(b) == {q \in 3..(b - 1) : c[q] = Op("Tf") /\ c[q - 2].t = "name"}
<1>1. p \in Nat /\ p >= 1 /\ (p + 1) - 1 = p
  OBVIOUS
<1>2. CASE ChoosesFont(c, p)
  <2>1. PICK n \in Nat : n = p - 1
    BY <1>1
  <2>2. p = n + 1 /\ p >= 3
    BY <1>2, <2>1 DEF ChoosesFont
  <2>3. Uses(p + 1) = Uses(p) \cup {p}
    <3>1. \A q : q \in 3..p <=> (q \in 3..(p - 1) \/ q = p)
      BY <2>2
    <3> QED
      BY <1>1, <1>2, <3>1 DEF ChoosesFont
  <2>4. Uses(p) \in SUBSET (1..n)
    BY <2>2
  <2> HIDE DEF Uses
  <2>5. Max(Uses(p + 1)) = p /\ Uses(p + 1) # {}
    BY <2>2, <2>3, <2>4, LastPlaceGoesOn
  <2>6. FontAt(c, fonts, p + 1) =
           IF Uses(p + 1) = {} THEN NoFont ELSE FontNamed(fonts, c[Max(Uses(p + 1)) - 2].name)
    BY Zenon DEF FontAt, Uses
  <2> QED
    BY <1>2, <2>5, <2>6
<1>3. CASE ~ChoosesFont(c, p)
  <2>1. Uses(p + 1) = Uses(p)
    <3>1. \A q : q \in 3..p => (q \in 3..(p - 1) \/ (q = p /\ p >= 3))
      BY <1>1
    <3>2. \A q \in 3..(p - 1) : q \in 3..p
      BY <1>1
    <3> QED
      BY <1>1, <1>3, <3>1, <3>2 DEF ChoosesFont
  <2> HIDE DEF Uses
  <2>2. /\ FontAt(c, fonts, p + 1) =
           IF Uses(p + 1) = {} THEN NoFont ELSE FontNamed(fonts, c[Max(Uses(p + 1)) - 2].name)
        /\ FontAt(c, fonts, p) =
           IF Uses(p) = {} THEN NoFont ELSE FontNamed(fonts, c[Max(Uses(p)) - 2].name)
    BY Zenon DEF FontAt, Uses
  <2> QED
    BY <1>3, <2>1, <2>2
<1> QED
  BY <1>2, <1>3

LEMMA FontBegins ==
    ASSUME NEW c, NEW fonts
    PROVE  FontAt(c, fonts, 1) = NoFont
<1>1. 3..(1 - 1) = {}
  OBVIOUS
<1> QED
  BY <1>1 DEF FontAt

\* Where a line begins: after a line has ended, and with a text object.
StartsLine(c, p) == p \in Breaks(c) \/ c[p] = Op("BT")

LineStarts(c, b) == (Breaks(c) \cup {p \in DOMAIN c : c[p] = Op("BT")}) \cap 1..(b - 1)

FirstOfLine(c, b) == IF LineStarts(c, b) = {} THEN 1 ELSE Max(LineStarts(c, b))

LEMMA LineFrom ==
    ASSUME NEW c, NEW fonts, NEW b
    PROVE  LineAt(c, fonts, b) =
           FlattenSeq([k \in 1..(b - FirstOfLine(c, b)) |->
                          ShownInText(c, fonts, FirstOfLine(c, b) + k - 1)])
  BY Zenon DEF LineAt, FirstOfLine, LineStarts

LEMMA FirstOfLinePlace ==
    ASSUME NEW c, NEW p \in Nat \ {0}
    PROVE  FirstOfLine(c, p) \in 1..p
<1>1. p - 1 \in Nat /\ 1 \in 1..p /\ \A q \in 1..(p - 1) : q \in 1..p
  OBVIOUS
<1> DEFINE S == LineStarts(c, p)
<1>2. S \in SUBSET (1..(p - 1))
  BY DEF LineStarts
<1>3. CASE S # {}
  <2>1. Max(S) \in S
    BY <1>1, <1>2, <1>3, MaxOfBounded
  <2> QED
    BY <1>1, <1>2, <1>3, <2>1 DEF FirstOfLine
<1>4. CASE S = {}
  BY <1>1, <1>4 DEF FirstOfLine
<1> QED
  BY <1>3, <1>4

LEMMA FirstOfLineGoesOn ==
    ASSUME NEW c, NEW p \in DOMAIN c, Len(c) \in Nat, DOMAIN c = 1..Len(c)
    PROVE  FirstOfLine(c, p + 1) = IF StartsLine(c, p) THEN p ELSE FirstOfLine(c, p)
<1>1. p \in Nat /\ p >= 1 /\ (p + 1) - 1 = p
  OBVIOUS
<1>2. LineStarts(c, p + 1) = LineStarts(c, p) \cup (IF StartsLine(c, p) THEN {p} ELSE {})
  <2>1. \A q : q \in 1..p <=> (q \in 1..(p - 1) \/ q = p)
    BY <1>1
  <2> QED
    BY <1>1, <2>1 DEF LineStarts, StartsLine
<1>3. CASE StartsLine(c, p)
  <2>1. PICK n \in Nat : n = p - 1
    BY <1>1
  <2>2. p = n + 1
    BY <1>1, <2>1
  <2>3. LineStarts(c, p) \in SUBSET (1..n)
    BY <2>1 DEF LineStarts
  <2>4. LineStarts(c, p + 1) = LineStarts(c, p) \cup {p}
    BY <1>2, <1>3
  <2>5. Max(LineStarts(c, p + 1)) = p
    BY <2>2, <2>3, <2>4, LastPlaceGoesOn
  <2> QED
    BY <1>3, <2>4, <2>5 DEF FirstOfLine
<1>4. CASE ~StartsLine(c, p)
  <2>1. LineStarts(c, p + 1) = LineStarts(c, p)
    BY <1>2, <1>4
  <2> QED
    BY <1>4, <2>1 DEF FirstOfLine
<1> QED
  BY <1>3, <1>4

\* What a place shows is added to the line before, or begins one.
LEMMA LineGoesOn ==
    ASSUME NEW c, NEW fonts, NEW p \in DOMAIN c, Len(c) \in Nat, DOMAIN c = 1..Len(c),
           \A q \in 1..p : ShownInText(c, fonts, q) \in Seq(Nat)
    PROVE  /\ LineAt(c, fonts, p) \in Seq(Nat)
           /\ LineAt(c, fonts, p + 1) =
                 IF StartsLine(c, p) THEN ShownInText(c, fonts, p)
                 ELSE LineAt(c, fonts, p) \o ShownInText(c, fonts, p)
<1>1. p \in Nat /\ p >= 1
  OBVIOUS
<1> DEFINE first == FirstOfLine(c, p)
           Shown(q) == ShownInText(c, fonts, q)
<1>2. PICK f \in 1..p : f = first
  BY <1>1, FirstOfLinePlace
<1>3. PICK n \in Nat : n = p - f
  BY <1>1
<1>4. f + n = p /\ (p + 1) - f = n + 1 /\ f \in Nat
  BY <1>1, <1>3
<1> DEFINE before == [k \in 1..n |-> Shown(f + k - 1)]
           texts == [k \in 1..(n + 1) |-> Shown(f + k - 1)]
<1>5. LineAt(c, fonts, p) = FlattenSeq(before)
  BY <1>2, <1>3, LineFrom, Zenon
<1>6. \A k \in 1..(n + 1) : f + k - 1 \in 1..p
  BY <1>1, <1>4
<1>7. texts \in [1..(n + 1) -> Seq(Nat)]
  BY <1>6
<1>8. before = [k \in 1..n |-> texts[k]]
  <2>1. \A k \in 1..n : k \in 1..(n + 1)
    OBVIOUS
  <2> QED
    BY <2>1
<1>9. f + (n + 1) - 1 = p
  BY <1>4
<1>10. texts[n + 1] = Shown(p)
  <2>1. n + 1 \in 1..(n + 1)
    OBVIOUS
  <2> QED
    BY <1>9, <2>1
<1> HIDE DEF before, texts
<1>11. FlattenSeq(before) \in Seq(Nat) /\ FlattenSeq(texts) = FlattenSeq(before) \o Shown(p)
  BY <1>7, <1>8, <1>10, FlattenSeqGrows
<1>12. CASE ~StartsLine(c, p)
  <2>1. FirstOfLine(c, p + 1) = f
    BY <1>2, <1>12, FirstOfLineGoesOn
  <2>2. LineAt(c, fonts, p + 1) = FlattenSeq(texts)
    BY <1>4, <2>1, LineFrom, Zenon DEF texts
  <2> QED
    BY <1>5, <1>11, <1>12, <2>2
<1>13. CASE StartsLine(c, p)
  <2>1. FirstOfLine(c, p + 1) = p
    BY <1>13, FirstOfLineGoesOn
  <2>2. (p + 1) - p = 1 /\ \A k \in 1..1 : p + k - 1 = p
    BY <1>1
  <2> DEFINE one == [k \in 1..1 |-> Shown(p + k - 1)]
  <2>3. LineAt(c, fonts, p + 1) = FlattenSeq(one)
    BY <2>1, <2>2, LineFrom
  <2>4. one = <<Shown(p)>>
    BY <2>2
  <2>5. FlattenSeq(<<Shown(p)>>) = Shown(p)
    <3>1. Shown(p) \in Seq(Nat) /\ p \in 1..p
      BY <1>1
    <3> HIDE DEF Shown
    <3> QED
      BY <3>1, FlattenOne
  <2> QED
    BY <1>5, <1>11, <1>13, <2>3, <2>4, <2>5
<1> QED
  BY <1>12, <1>13

-----------------------------------------------------------------------------
(***************************************************************************)
(* The walk back through an array                                          *)
(***************************************************************************)

\* How often a token stands in the places from j to m.
Count(c, token, j, m) == Cardinality({q \in j..m : c[q] = token})

LEMMA CountGoesBack ==
    ASSUME NEW c, NEW token, NEW j \in Nat, NEW m \in Nat, j <= m
    PROVE  /\ Count(c, token, j + 1, m) \in Nat
           /\ Count(c, token, j, m) =
                 Count(c, token, j + 1, m) + IF c[j] = token THEN 1 ELSE 0
<1> DEFINE S == {q \in (j + 1)..m : c[q] = token}
           T == {q \in j..m : c[q] = token}
<1>1. IsFiniteSet((j + 1)..m)
  <2>1. j + 1 \in Int /\ m \in Int
    OBVIOUS
  <2> QED
    BY <2>1, FS_Interval
<1>2. IsFiniteSet(S) /\ Cardinality(S) \in Nat
  BY <1>1, FS_Subset, FS_CardinalityType
<1>3. \A q : q \in j..m <=> (q \in (j + 1)..m \/ q = j)
  OBVIOUS
<1>4. j \notin S
  OBVIOUS
<1>5. T = IF c[j] = token THEN S \cup {j} ELSE S
  BY <1>3
<1> HIDE DEF S, T
<1>6. Cardinality(S \cup {j}) = Cardinality(S) + 1
  BY <1>2, <1>4, FS_AddElement
<1>7. Cardinality(T) = Cardinality(S) + IF c[j] = token THEN 1 ELSE 0
  BY <1>2, <1>5, <1>6
<1> QED
  BY <1>2, <1>7 DEF Count, S, T

LEMMA CountNothing ==
    ASSUME NEW c, NEW token, NEW m \in Nat
    PROVE  Count(c, token, m + 1, m) = 0
<1>1. (m + 1)..m = {}
  OBVIOUS
<1>2. {q \in (m + 1)..m : c[q] = token} = {}
  BY <1>1
<1> QED
  BY <1>2, FS_EmptySet DEF Count

\* What a bracket adds to the depth, on the way back.
TurnAt(c, j) == IF c[j] = ArrayEnd THEN 1 ELSE IF c[j] = ArrayStart THEN -1 ELSE 0

\* The depth on the way back, before place j.
DepthBefore(c, e, j) == 1 + Count(c, ArrayEnd, j, e - 1) - Count(c, ArrayStart, j, e - 1)

LEMMA DepthGoesBack ==
    ASSUME NEW c, NEW e \in Nat \ {0}
    PROVE  /\ DepthBefore(c, e, e) = 1
           /\ \A j \in 1..(e - 1) :
                 /\ DepthBefore(c, e, j + 1) \in Int
                 /\ DepthBefore(c, e, j) = DepthBefore(c, e, j + 1) + TurnAt(c, j)
<1>1. PICK m \in Nat : m = e - 1
  OBVIOUS
<1>2. e = m + 1
  BY <1>1
<1>3. DepthBefore(c, e, e) = 1
  BY <1>1, <1>2, CountNothing DEF DepthBefore
<1>4. ASSUME NEW j \in 1..m
      PROVE  /\ DepthBefore(c, e, j + 1) \in Int
             /\ DepthBefore(c, e, j) = DepthBefore(c, e, j + 1) + TurnAt(c, j)
  <2>1. j \in Nat /\ j <= m
    OBVIOUS
  <2> DEFINE a == Count(c, ArrayEnd, j + 1, m)
             b == Count(c, ArrayStart, j + 1, m)
  <2>2. a \in Nat /\ b \in Nat
    BY <2>1, CountGoesBack
  <2>3. /\ Count(c, ArrayEnd, j, m) = a + IF c[j] = ArrayEnd THEN 1 ELSE 0
        /\ Count(c, ArrayStart, j, m) = b + IF c[j] = ArrayStart THEN 1 ELSE 0
    BY <2>1, CountGoesBack
  <2>4. ArrayEnd # ArrayStart
    BY DEF ArrayEnd, ArrayStart
  <2>5. DepthBefore(c, e, j + 1) = 1 + a - b
    BY <1>1 DEF DepthBefore
  <2>6. DepthBefore(c, e, j) = 1 + Count(c, ArrayEnd, j, m) - Count(c, ArrayStart, j, m)
    BY <1>1 DEF DepthBefore
  <2> HIDE DEF a, b
  <2>7. CASE c[j] = ArrayEnd
    BY <2>2, <2>3, <2>4, <2>5, <2>6, <2>7 DEF TurnAt
  <2>8. CASE c[j] = ArrayStart
    BY <2>2, <2>3, <2>4, <2>5, <2>6, <2>8 DEF TurnAt
  <2>9. CASE c[j] # ArrayEnd /\ c[j] # ArrayStart
    BY <2>2, <2>3, <2>5, <2>6, <2>9 DEF TurnAt
  <2> QED
    BY <2>7, <2>8, <2>9
<1> QED
  BY <1>1, <1>3, <1>4

LEMMA BracketsAreDepth ==
    ASSUME NEW c, NEW e, NEW p
    PROVE  BracketsAt(c, e, p) = DepthBefore(c, e, p + 1)
  BY DEF BracketsAt, DepthBefore, Count

\* The function that the walk back defines by recursion.
IsWalk(f, c, e) == f = [j \in 2..e |-> IF j = e THEN 1 ELSE f[j + 1] + TurnAt(c, j)]

LEMMA WalkIsDepth ==
    ASSUME NEW c, NEW e \in Nat \ {0}, NEW f, IsWalk(f, c, e)
    PROVE  \A j \in 2..e : f[j] = DepthBefore(c, e, j)
<1> DEFINE P == {k \in Nat : \A j \in 2..e : j = e - k => f[j] = DepthBefore(c, e, j)}
<1>1. 0 \in P
  <2>1. ASSUME NEW j \in 2..e, j = e - 0 PROVE f[j] = DepthBefore(c, e, j)
    <3>1. j = e
      BY <2>1
    <3>2. f[j] = 1
      BY <3>1, Zenon DEF IsWalk
    <3> QED
      BY <3>1, <3>2, DepthGoesBack
  <2> QED
    BY <2>1
<1>2. ASSUME NEW k \in Nat, k \in P PROVE k + 1 \in P
  <2>1. ASSUME NEW j \in 2..e, j = e - (k + 1) PROVE f[j] = DepthBefore(c, e, j)
    <3>1. PICK i \in 2..e : i = j + 1
      BY <2>1
    <3>2. i = e - k /\ j # e /\ j \in 1..(e - 1)
      BY <2>1, <3>1
    <3>3. f[i] = DepthBefore(c, e, i)
      BY <1>2, <3>2
    <3>4. f[j] = f[j + 1] + TurnAt(c, j)
      BY <3>2, Zenon DEF IsWalk
    <3>5. DepthBefore(c, e, j) = DepthBefore(c, e, j + 1) + TurnAt(c, j)
      BY <3>2, DepthGoesBack
    <3> QED
      BY <3>1, <3>3, <3>4, <3>5
  <2> QED
    BY <2>1
<1> HIDE DEF P
<1>3. \A k \in Nat : k \in P
  BY <1>1, <1>2, NatInduct
<1>4. ASSUME NEW j \in 2..e PROVE f[j] = DepthBefore(c, e, j)
  <2>1. PICK k \in Nat : k = e - j
    OBVIOUS
  <2>2. j = e - k
    BY <2>1
  <2> QED
    BY <1>3, <2>2 DEF P
<1> QED
  BY <1>4

LEMMA WalkExists ==
    ASSUME NEW c, NEW e \in Nat \ {0}
    PROVE  \E f : IsWalk(f, c, e)
<1> DEFINE f == [j \in 2..e |-> DepthBefore(c, e, j)]
<1>1. ASSUME NEW j \in 2..e
      PROVE  DepthBefore(c, e, j) = IF j = e THEN 1 ELSE f[j + 1] + TurnAt(c, j)
  <2>1. CASE j = e
    BY <2>1, DepthGoesBack
  <2>2. CASE j # e
    <3>1. j + 1 \in 2..e /\ j \in 1..(e - 1)
      BY <2>2
    <3>2. f[j + 1] = DepthBefore(c, e, j + 1)
      BY <3>1
    <3> HIDE DEF f
    <3> QED
      BY <2>2, <3>1, <3>2, DepthGoesBack
  <2> QED
    BY <2>1, <2>2
<1>2. f = [j \in 2..e |-> IF j = e THEN 1 ELSE f[j + 1] + TurnAt(c, j)]
  BY <1>1
<1> HIDE DEF f
<1> QED
  BY <1>2 DEF IsWalk

\* The walk back stops at the brackets that the declarative items are counted by.
LEMMA WalkFindsItems ==
    ASSUME NEW c, NEW e \in Nat \ {0}
    PROVE  ItemsBackwards(c, e) = Items(c, e)
<1> DEFINE Turn(j) == IF c[j] = ArrayEnd THEN 1 ELSE IF c[j] = ArrayStart THEN -1 ELSE 0
           depth == CHOOSE f : f = [j \in 2..e |-> IF j = e THEN 1 ELSE f[j + 1] + Turn(j)]
           IsItem(j) == Turn(j) = 0 /\ depth[j] = 1 /\ \A k \in j..e : depth[k] > 0
           texts == [k \in 1..(e - 2) |-> IF IsItem(k + 1) THEN <<c[k + 1]>> ELSE <<>>]
           items == [k \in 1..(e - 2) |-> IF IsItemAt(c, e, k + 1) THEN <<c[k + 1]>> ELSE <<>>]
<1>1. ItemsBackwards(c, e) = FlattenSeq(texts)
  BY Zenon DEF ItemsBackwards
<1>2. Items(c, e) = FlattenSeq(items)
  BY Zenon DEF Items
<1>3. depth = CHOOSE f : IsWalk(f, c, e)
  BY Zenon DEF IsWalk, TurnAt
<1>4. \A j : Turn(j) = TurnAt(c, j)
  BY DEF TurnAt
<1> HIDE DEF Turn, depth
<1>5. IsWalk(depth, c, e)
  BY <1>3, WalkExists, Zenon
<1>6. \A j \in 2..e : depth[j] = DepthBefore(c, e, j)
  BY <1>5, WalkIsDepth
<1>7. ASSUME NEW j \in 2..(e - 1) PROVE IsItem(j) <=> IsItemAt(c, e, j)
  <2>1. j \in 1..(e - 1) /\ j \in 2..e
    OBVIOUS
  <2>2. /\ DepthBefore(c, e, j + 1) \in Int
        /\ DepthBefore(c, e, j) = DepthBefore(c, e, j + 1) + TurnAt(c, j)
    BY <2>1, DepthGoesBack
  <2>3. TurnAt(c, j) = 0 <=> c[j] \notin {ArrayStart, ArrayEnd}
    BY DEF TurnAt
  <2>4. TurnAt(c, j) = 0 => DepthBefore(c, e, j) = DepthBefore(c, e, j + 1)
    BY <2>2
  <2>5. ASSUME IsItem(j) PROVE IsItemAt(c, e, j)
    <3>1. TurnAt(c, j) = 0 /\ depth[j] = 1 /\ \A k \in j..e : depth[k] > 0
      BY <1>4, <2>5
    <3>2. BracketsAt(c, e, j) = 1
      BY <1>6, <2>1, <2>4, <3>1, BracketsAreDepth
    <3>3. ASSUME NEW q \in j..(e - 1) PROVE BracketsAt(c, e, q) > 0
      <4>1. q + 1 \in j..e /\ q + 1 \in 2..e
        OBVIOUS
      <4> QED
        BY <1>6, <3>1, <4>1, BracketsAreDepth
    <3> QED
      BY <2>3, <3>1, <3>2, <3>3 DEF IsItemAt
  <2>6. ASSUME IsItemAt(c, e, j) PROVE IsItem(j)
    <3>1. /\ TurnAt(c, j) = 0 /\ BracketsAt(c, e, j) = 1
          /\ \A q \in j..(e - 1) : BracketsAt(c, e, q) > 0
      BY <2>3, <2>6 DEF IsItemAt
    <3>2. depth[j] = 1
      BY <1>6, <2>1, <2>4, <3>1, BracketsAreDepth
    <3>3. ASSUME NEW k \in j..e PROVE depth[k] > 0
      <4>1. CASE k = j
        BY <3>2, <4>1
      <4>2. CASE k # j
        <5>1. PICK q \in j..(e - 1) : q = k - 1
          BY <4>2
        <5>2. q + 1 = k /\ k \in 2..e
          BY <5>1
        <5> QED
          BY <1>6, <3>1, <5>2, BracketsAreDepth
      <4> QED
        BY <4>1, <4>2
    <3> QED
      BY <1>4, <3>1, <3>2, <3>3
  <2> QED
    BY <2>5, <2>6
<1> HIDE DEF IsItem
<1>8. \A k \in 1..(e - 2) : k + 1 \in 2..(e - 1)
  OBVIOUS
<1>9. texts = items
  BY <1>7, <1>8
<1> QED
  BY <1>1, <1>2, <1>9

-----------------------------------------------------------------------------
(***************************************************************************)
(* What streams show are texts                                             *)
(***************************************************************************)

LEMMA FontAtIsFont ==
    ASSUME NEW c, NEW fonts, HasFonts(fonts), NEW p
    PROVE  FontAt(c, fonts, p) = NoFont \/ IsFont(FontAt(c, fonts, p))
<1>1. \A name : FontNamed(fonts, name) = NoFont \/ IsFont(FontNamed(fonts, name))
  BY DEF FontNamed, HasFonts, Range
<1> QED
  BY <1>1, Zenon DEF FontAt

LEMMA ShownIsText ==
    ASSUME NEW c, NEW fonts, IsContent(c), HasFonts(fonts), NEW p \in 1..Len(c)
    PROVE  ShownAt(c, fonts, p) \in Seq(Nat) /\ ShownInText(c, fonts, p) \in Seq(Nat)
<1> DEFINE font == FontAt(c, fonts, p)
<1>1. /\ Len(c) \in Nat /\ DOMAIN c = 1..Len(c)
      /\ \A k \in 1..Len(c) : c[k].t = "str" => c[k].bytes \in Seq(0..255)
  BY ContentFacts
<1>2. font = NoFont \/ IsFont(font)
  BY FontAtIsFont
<1> HIDE DEF font
<1>3. ASSUME p >= 2
      PROVE  /\ c[p - 1].t = "str" => DecodeText(c[p - 1].bytes, font) \in Seq(Nat)
             /\ ArrayText(Items(c, p - 1), font) \in Seq(Nat)
  <2>1. PICK e \in 1..Len(c) : e = p - 1
    BY <1>1, <1>3
  <2>2. e \in Nat \ {0}
    BY <2>1
  <2>3. IsContent(Items(c, e))
    BY <2>2, ItemsAreContent, WalkFindsItems
  <2>4. ArrayText(Items(c, e), font) \in Seq(Nat)
    BY <1>2, <2>3, ArrayIsText
  <2>5. c[e].t = "str" => DecodeText(c[e].bytes, font) \in Seq(Nat)
    BY <1>1, <1>2, DecodedIsText
  <2> QED
    BY <2>1, <2>4, <2>5
<1>4. p \in Nat /\ (p < 2 \/ p >= 2)
  BY <1>1
<1>5. ShownAt(c, fonts, p) =
        IF p < 2 THEN <<>>
        ELSE IF (c[p] = Op("Tj") \/ NeedsLine(c, p)) /\ c[p - 1].t = "str"
        THEN DecodeText(c[p - 1].bytes, font)
        ELSE IF c[p] = Op("TJ") /\ c[p - 1] = ArrayEnd /\ IsInText(c, p)
        THEN ArrayText(Items(c, p - 1), font)
        ELSE <<>>
  BY Zenon DEF ShownAt, font
<1>6. ShownAt(c, fonts, p) \in Seq(Nat)
  BY <1>3, <1>4, <1>5, NothingIsText
<1> QED
  BY <1>6, NothingIsText DEF ShownInText

LEMMA LineIsText ==
    ASSUME NEW c, NEW fonts, IsContent(c), HasFonts(fonts), NEW b \in 1..(Len(c) + 1)
    PROVE  LineAt(c, fonts, b) \in Seq(Nat)
<1> DEFINE Shown(q) == ShownInText(c, fonts, q)
<1>1. Len(c) \in Nat /\ b \in Nat \ {0}
  BY ContentFacts
<1>2. PICK f \in 1..b : f = FirstOfLine(c, b)
  BY <1>1, FirstOfLinePlace
<1>3. PICK n \in Nat : n = b - f
  BY <1>1
<1> DEFINE texts == [k \in 1..n |-> Shown(f + k - 1)]
<1>4. LineAt(c, fonts, b) = FlattenSeq(texts)
  BY <1>2, <1>3, LineFrom, Zenon
<1>5. \A k \in 1..n : f + k - 1 \in 1..Len(c)
  BY <1>1, <1>3
<1>6. \A k \in 1..n : texts[k] \in Seq(Nat)
  BY <1>5, ShownIsText
<1>7. texts = [k \in 1..n |-> texts[k]]
  OBVIOUS
<1> HIDE DEF texts
<1> QED
  BY <1>4, <1>6, <1>7, TogetherIsText

-----------------------------------------------------------------------------
(***************************************************************************)
(* Pieces and texts of a stream                                            *)
(***************************************************************************)

\* A stream that may be read: a content, with fonts.
IsReadable(s) == IsContent(s.content) /\ HasFonts(s.fonts)

Texts == Seq(Nat)

LEMMA PiecesAreTexts ==
    ASSUME NEW objects, NEW s, IsReadable(s), NEW drawn \in [Nat -> Texts],
           NEW p \in 1..(Len(s.content) + 1)
    PROVE  PiecesAt(objects, s, drawn, p) \in Seq(Texts)
<1>1. LineAt(s.content, s.fonts, p) \in Texts
  BY LineIsText DEF IsReadable, Texts
<1>2. Len(s.content) \in Nat
  BY ContentFacts DEF IsReadable
<1>3. drawn[p] \in Texts
  BY <1>2
<1> DEFINE T == Texts
<1>4. \A x \in T : <<x>> \in Seq(T)
  OBVIOUS
<1>5. <<>> \in Seq(T)
  OBVIOUS
<1> HIDE DEF T
<1>6. <<drawn[p]>> \in Seq(T) /\ <<LineAt(s.content, s.fonts, p)>> \in Seq(T)
  BY <1>1, <1>3, <1>4 DEF T
<1> QED
  BY <1>5, <1>6 DEF PiecesAt, T

\* What the pieces of a place make of a text.
WithPieces(text, objects, s, drawn, p) ==
    IF DrawsAt(objects, s, p) THEN Appended(text, drawn[p])
    ELSE IF p \in Breaks(s.content) /\ LineAt(s.content, s.fonts, p) # <<>>
    THEN Appended(text, LineAt(s.content, s.fonts, p)) ELSE text

LEMMA TextGoesOn ==
    ASSUME NEW objects, NEW s, IsReadable(s), NEW drawn \in [Nat -> Texts],
           NEW p \in 1..(Len(s.content) + 1)
    PROVE  TextBefore(objects, s, drawn, p + 1) =
           WithPieces(TextBefore(objects, s, drawn, p), objects, s, drawn, p)
<1>1. Len(s.content) \in Nat /\ p \in Nat /\ p >= 1
  <2>1. Len(s.content) \in Nat
    BY ContentFacts DEF IsReadable
  <2> QED
    BY <2>1
<1>2. PICK n \in Nat : p = n + 1
  <2>1. p - 1 \in Nat /\ p = (p - 1) + 1
    BY <1>1
  <2> QED
    BY <2>1
<1> DEFINE pieces == [q \in 1..(n + 1) |-> PiecesAt(objects, s, drawn, q)]
           before == [q \in 1..n |-> PiecesAt(objects, s, drawn, q)]
           T == Texts
<1>3. (p + 1) - 1 = n + 1 /\ p - 1 = n
  BY <1>2
<1>4. /\ TextBefore(objects, s, drawn, p + 1) = FoldLeft(Appended, <<>>, FlattenSeq(pieces))
      /\ TextBefore(objects, s, drawn, p) = FoldLeft(Appended, <<>>, FlattenSeq(before))
  BY <1>3, Zenon DEF TextBefore
<1>5. \A q \in 1..(n + 1) : q \in 1..(Len(s.content) + 1)
  BY <1>1, <1>2
<1>6. pieces \in [1..(n + 1) -> Seq(T)]
  BY <1>5, PiecesAreTexts
<1>7. before = [q \in 1..n |-> pieces[q]]
  <2>1. \A q \in 1..n : q \in 1..(n + 1)
    OBVIOUS
  <2> QED
    BY <2>1
<1>8. pieces[n + 1] = PiecesAt(objects, s, drawn, p)
  <2>1. n + 1 \in 1..(n + 1)
    OBVIOUS
  <2> QED
    BY <1>2, <2>1
<1> HIDE DEF pieces, before, T
<1>9. /\ FlattenSeq(before) \in Seq(T)
      /\ FlattenSeq(pieces) = FlattenSeq(before) \o PiecesAt(objects, s, drawn, p)
  BY <1>6, <1>7, <1>8, FlattenSeqGrows
<1> DEFINE joined == FlattenSeq(before)
<1>10. joined \in Seq(T)
  BY <1>9
<1> HIDE DEF joined
<1>11. ASSUME NEW x \in T, PiecesAt(objects, s, drawn, p) = <<x>>
       PROVE  FoldLeft(Appended, <<>>, FlattenSeq(pieces)) =
              Appended(FoldLeft(Appended, <<>>, joined), x)
  <2>1. FlattenSeq(pieces) = Append(joined, x)
    BY <1>9, <1>10, <1>11, AppendIsConcat DEF joined
  <2>2. FoldLeft(Appended, <<>>, Append(joined, x)) =
        Appended(FoldLeft(Appended, <<>>, joined), x)
    BY <1>10, FoldGrows
  <2> QED
    BY <2>1, <2>2
<1>12. ASSUME PiecesAt(objects, s, drawn, p) = <<>>
       PROVE  FlattenSeq(pieces) = joined
  BY <1>9, <1>10, <1>12, ConcatEmptySeq DEF joined
<1>13. drawn[p] \in T /\ LineAt(s.content, s.fonts, p) \in T
  BY <1>1, LineIsText DEF T, Texts, IsReadable
<1>14. CASE DrawsAt(objects, s, p)
  <2>1. PiecesAt(objects, s, drawn, p) = <<drawn[p]>>
    BY <1>14 DEF PiecesAt
  <2> QED
    BY <1>4, <1>11, <1>13, <1>14, <2>1 DEF WithPieces, joined
<1>15. CASE /\ ~DrawsAt(objects, s, p)
            /\ p \in Breaks(s.content) /\ LineAt(s.content, s.fonts, p) # <<>>
  <2>1. PiecesAt(objects, s, drawn, p) = <<LineAt(s.content, s.fonts, p)>>
    BY <1>15 DEF PiecesAt
  <2> QED
    BY <1>4, <1>11, <1>13, <1>15, <2>1 DEF WithPieces, joined
<1>16. CASE /\ ~DrawsAt(objects, s, p)
            /\ ~(p \in Breaks(s.content) /\ LineAt(s.content, s.fonts, p) # <<>>)
  <2>1. PiecesAt(objects, s, drawn, p) = <<>>
    BY <1>16 DEF PiecesAt
  <2> QED
    BY <1>4, <1>12, <1>16, <2>1 DEF WithPieces, joined
<1> QED
  BY <1>14, <1>15, <1>16

LEMMA TextBegins ==
    ASSUME NEW objects, NEW s, NEW drawn
    PROVE  TextBefore(objects, s, drawn, 1) = <<>>
<1> DEFINE pieces == [q \in 1..(1 - 1) |-> PiecesAt(objects, s, drawn, q)]
<1>1. pieces = <<>>
  <2>1. 1..(1 - 1) = {}
    OBVIOUS
  <2>2. DOMAIN pieces = {}
    BY <2>1
  <2> QED
    BY <2>1
<1>2. TextBefore(objects, s, drawn, 1) = FoldLeft(Appended, <<>>, FlattenSeq(pieces))
  BY Zenon DEF TextBefore
<1> QED
  BY <1>1, <1>2, FlattenNothing, FoldNothing

LEMMA TextIsText ==
    ASSUME NEW objects, NEW s, IsReadable(s), NEW drawn \in [Nat -> Texts],
           NEW b \in 1..(Len(s.content) + 2)
    PROVE  TextBefore(objects, s, drawn, b) \in Texts
<1>1. Len(s.content) \in Nat
  BY ContentFacts DEF IsReadable
<1> DEFINE IsText(k) == k + 1 <= Len(s.content) + 2 =>
                            TextBefore(objects, s, drawn, k + 1) \in Texts
           P == {k \in Nat : IsText(k)}
<1>2. 0 \in P
  <2>1. 0 + 1 = 1
    OBVIOUS
  <2>2. TextBefore(objects, s, drawn, 1) \in Texts
    BY TextBegins, NothingIsText DEF Texts
  <2>3. IsText(0)
    BY <2>1, <2>2, Zenon
  <2> HIDE DEF IsText
  <2> QED
    BY <2>3
<1>3. ASSUME NEW k \in Nat, k \in P PROVE k + 1 \in P
  <2> SUFFICES ASSUME (k + 1) + 1 <= Len(s.content) + 2
               PROVE  TextBefore(objects, s, drawn, (k + 1) + 1) \in Texts
    OBVIOUS
  <2>1. PICK p \in 1..(Len(s.content) + 1) : p = k + 1
    BY <1>1
  <2>2. TextBefore(objects, s, drawn, p) \in Texts
    BY <1>1, <1>3, <2>1
  <2>3. drawn[p] \in Texts /\ LineAt(s.content, s.fonts, p) \in Texts
    BY <1>1, LineIsText DEF Texts, IsReadable
  <2>4. TextBefore(objects, s, drawn, p + 1) =
        WithPieces(TextBefore(objects, s, drawn, p), objects, s, drawn, p)
    BY TextGoesOn
  <2>5. WithPieces(TextBefore(objects, s, drawn, p), objects, s, drawn, p) \in Texts
    BY <2>2, <2>3, AppendedIsText DEF WithPieces, Texts
  <2> QED
    BY <2>1, <2>4, <2>5
<1> HIDE DEF P
<1>4. PICK k \in Nat : b = k + 1
  <2>1. b - 1 \in Nat /\ b = (b - 1) + 1
    BY <1>1
  <2> QED
    BY <2>1
<1>5. k \in P
  BY <1>2, <1>3, NatInduct
<1>6. k + 1 <= Len(s.content) + 2
  BY <1>1, <1>4
<1> QED
  BY <1>4, <1>5, <1>6 DEF P

-----------------------------------------------------------------------------
(***************************************************************************)
(* Streams along a path                                                    *)
(***************************************************************************)

FormsAreReadable(objects) ==
    \A r \in FormsOf(objects) :
        /\ IsContent(objects[r].data)
        /\ \A font \in Range(OwnFonts(objects, objects[r])) :
              HasTexts(ToUnicodeOf(objects, Deref(objects, font)))

LEMMA WithinIsReadable ==
    ASSUME NEW objects, FormsAreReadable(objects), NEW s, IsReadable(s), NEW p
    PROVE  IsReadable(Within(objects, s, p))
<1> DEFINE form == DrawnAt(objects, s, p)
           resources == ResourcesOf(objects, form)
           fonts == FontsWithin(objects, resources, s.fonts)
<1>1. CASE DrawsAt(objects, s, p)
  <2>1. IsDrawable(form)
    BY <1>1 DEF DrawsAt
  <2>2. form # Null
    <3>1. Null.kind # "Stream"
      BY DEF Null
    <3> QED
      BY <2>1, <3>1 DEF IsDrawable
  <2>3. form = XObjectNamed(objects, s.resources, s.content[p - 1].name)
    BY <2>2 DEF DrawnAt
  <2>4. PICK r \in FormsOf(objects) : form = objects[r]
    BY <2>1, <2>3, DrawableIsForm
  <2>5. /\ IsContent(form.data)
        /\ \A font \in Range(OwnFonts(objects, form)) :
              HasTexts(ToUnicodeOf(objects, Deref(objects, font)))
    BY <2>4 DEF FormsAreReadable
  <2>6. HasFonts(fonts)
    BY <2>5, FormHasFonts DEF IsReadable
  <2>7. Within(objects, s, p) = Context(form.data, fonts, resources)
    BY <1>1 DEF Within
  <2> HIDE DEF form, fonts, resources
  <2> QED
    BY <2>5, <2>6, <2>7 DEF IsReadable, Context
<1>2. CASE ~DrawsAt(objects, s, p)
  <2>1. Within(objects, s, p) = Context(<<>>, EmptyMap, EmptyMap)
    BY <1>2 DEF Within
  <2>2. IsContent(<<>>)
    <3> DEFINE nothing == <<>>
    <3>1. nothing \in Seq({})
      OBVIOUS
    <3>2. \A token \in {} : token.t = "str" => token.bytes \in Seq(0..255)
      OBVIOUS
    <3> HIDE DEF nothing
    <3>3. IsContent(nothing)
      BY <3>1, <3>2, ContentAssembled
    <3> QED
      BY <3>3 DEF nothing
  <2>3. HasFonts(EmptyMap)
    BY DEF HasFonts, EmptyMap, Range
  <2> QED
    BY <2>1, <2>2, <2>3 DEF IsReadable, Context
<1> QED
  BY <1>1, <1>2

\* The function that StreamAlong defines by recursion, up to the n-th form of the path.
FromPage(page) == Context(PageTokens(page), page.fonts, page.resources)

IsOpened(f, objects, page, path, n) ==
    f = [k \in 0..n |-> IF k = 0 THEN FromPage(page) ELSE Within(objects, f[k - 1], path[k])]

LEMMA OpenedExists ==
    ASSUME NEW objects, NEW page, NEW path, NEW n \in Nat
    PROVE  \E f : IsOpened(f, objects, page, path, n)
<1> DEFINE P == {k \in Nat : \E f : IsOpened(f, objects, page, path, k)}
<1>1. 0 \in P
  <2> DEFINE f == [k \in 0..0 |-> FromPage(page)]
  <2>1. \A k \in 0..0 : k = 0
    OBVIOUS
  <2>2. f = [k \in 0..0 |-> IF k = 0 THEN FromPage(page) ELSE Within(objects, f[k - 1], path[k])]
    BY <2>1
  <2> HIDE DEF f
  <2>3. IsOpened(f, objects, page, path, 0)
    BY <2>2 DEF IsOpened
  <2> QED
    BY <2>3
<1>2. ASSUME NEW k \in Nat, k \in P PROVE k + 1 \in P
  <2>1. PICK f : IsOpened(f, objects, page, path, k)
    BY <1>2
  <2> DEFINE next == Within(objects, f[k], path[k + 1])
             g == [i \in 0..(k + 1) |-> IF i = k + 1 THEN next ELSE f[i]]
             Step(i) == IF i = 0 THEN FromPage(page) ELSE Within(objects, g[i - 1], path[i])
  <2>2. ASSUME NEW i \in 0..(k + 1) PROVE g[i] = Step(i)
    <3>1. CASE i = k + 1
      <4>1. i # 0 /\ i - 1 = k /\ k \in 0..(k + 1) /\ k # k + 1
        BY <3>1
      <4>2. g[i] = next /\ g[k] = f[k]
        BY <3>1, <4>1
      <4> HIDE DEF g
      <4> QED
        BY <3>1, <4>1, <4>2
    <3>2. CASE i # k + 1
      <4>1. i \in 0..k
        BY <3>2
      <4>2. g[i] = f[i]
        BY <3>2
      <4>3. f[i] = IF i = 0 THEN FromPage(page) ELSE Within(objects, f[i - 1], path[i])
        BY <2>1, <4>1, Zenon DEF IsOpened
      <4>4. i # 0 => g[i - 1] = f[i - 1]
        <5>1. i # 0 => i - 1 \in 0..(k + 1) /\ i - 1 # k + 1
          BY <4>1
        <5> QED
          BY <5>1
      <4> HIDE DEF g
      <4> QED
        BY <4>2, <4>3, <4>4
    <3> QED
      BY <3>1, <3>2
  <2>3. g = [i \in 0..(k + 1) |-> g[i]]
    BY Zenon
  <2>4. g = [i \in 0..(k + 1) |-> Step(i)]
    <3> HIDE DEF g
    <3> QED
      BY <2>2, <2>3
  <2>5. IsOpened(g, objects, page, path, k + 1)
    <3> HIDE DEF g
    <3> QED
      BY <2>4 DEF IsOpened
  <2> HIDE DEF g
  <2> QED
    BY <2>5
<1> HIDE DEF P
<1>3. n \in P
  BY <1>1, <1>2, NatInduct
<1> QED
  BY <1>3 DEF P

LEMMA OpenedAgain ==
    ASSUME NEW objects, NEW page, NEW path, NEW longer, NEW m \in Nat, NEW n \in Nat, m <= n,
           \A i \in 1..m : longer[i] = path[i],
           NEW f, IsOpened(f, objects, page, path, m),
           NEW g, IsOpened(g, objects, page, longer, n)
    PROVE  f[m] = g[m]
<1> DEFINE P == {k \in Nat : k <= m => f[k] = g[k]}
<1>1. 0 \in P
  <2>1. 0 \in 0..m /\ 0 \in 0..n
    OBVIOUS
  <2>2. f[0] = FromPage(page) /\ g[0] = FromPage(page)
    BY <2>1, Zenon DEF IsOpened
  <2> QED
    BY <2>2
<1>2. ASSUME NEW k \in Nat, k \in P PROVE k + 1 \in P
  <2> SUFFICES ASSUME k + 1 <= m PROVE f[k + 1] = g[k + 1]
    OBVIOUS
  <2>1. PICK i \in 1..m : i = k + 1
    OBVIOUS
  <2>2. i \in 0..m /\ i \in 0..n /\ i # 0 /\ i - 1 = k
    BY <2>1
  <2>3. /\ f[i] = Within(objects, f[i - 1], path[i])
        /\ g[i] = Within(objects, g[i - 1], longer[i])
    BY <2>2, Zenon DEF IsOpened
  <2>4. f[k] = g[k]
    BY <1>2
  <2> QED
    BY <2>1, <2>2, <2>3, <2>4
<1> HIDE DEF P
<1>3. m \in P
  BY <1>1, <1>2, NatInduct
<1> QED
  BY <1>3 DEF P

LEMMA StreamIsOpened ==
    ASSUME NEW objects, NEW page, NEW path, Len(path) \in Nat
    PROVE  \E f : /\ IsOpened(f, objects, page, path, Len(path))
                  /\ StreamAlong(objects, page, path) = f[Len(path)]
<1> DEFINE at == CHOOSE f : f = [n \in 0..Len(path) |->
                    IF n = 0 THEN Context(PageTokens(page), page.fonts, page.resources)
                    ELSE Within(objects, f[n - 1], path[n])]
<1>1. StreamAlong(objects, page, path) = at[Len(path)]
  BY Zenon DEF StreamAlong
<1>2. at = CHOOSE f : IsOpened(f, objects, page, path, Len(path))
  BY Zenon DEF IsOpened, FromPage
<1>3. IsOpened(at, objects, page, path, Len(path))
  BY <1>2, OpenedExists, Zenon
<1> QED
  BY <1>1, <1>3

LEMMA PathBegins ==
    ASSUME NEW objects, NEW page
    PROVE  StreamAlong(objects, page, <<>>) = FromPage(page)
<1> DEFINE path == <<>>
<1>1. Len(path) = 0
  OBVIOUS
<1>2. PICK f : /\ IsOpened(f, objects, page, path, Len(path))
               /\ StreamAlong(objects, page, path) = f[Len(path)]
  BY <1>1, StreamIsOpened
<1>3. IsOpened(f, objects, page, path, 0) /\ StreamAlong(objects, page, path) = f[0]
  BY <1>1, <1>2
<1>4. 0 \in 0..0
  OBVIOUS
<1>5. f[0] = FromPage(page)
  BY <1>3, <1>4, Zenon DEF IsOpened
<1> QED
  BY <1>3, <1>5

LEMMA PathGoesOn ==
    ASSUME NEW objects, NEW page, NEW path \in Seq(Nat), NEW p \in Nat
    PROVE  StreamAlong(objects, page, Append(path, p)) =
           Within(objects, StreamAlong(objects, page, path), p)
<1>1. PICK n \in Nat : n = Len(path)
  BY LenProperties
<1>2. PICK longer \in Seq(Nat) : longer = Append(path, p)
  BY AppendProperties
<1>3. Len(longer) = n + 1 /\ longer[n + 1] = p /\ \A i \in 1..n : longer[i] = path[i]
  BY <1>1, <1>2, AppendProperties
<1>4. PICK f : IsOpened(f, objects, page, path, n) /\ StreamAlong(objects, page, path) = f[n]
  BY <1>1, StreamIsOpened
<1>5. PICK m \in Nat : m = n + 1
  OBVIOUS
<1>6. PICK g : IsOpened(g, objects, page, longer, m) /\ StreamAlong(objects, page, longer) = g[m]
  BY <1>3, <1>5, StreamIsOpened
<1>7. f[n] = g[n]
  BY <1>3, <1>4, <1>5, <1>6, OpenedAgain
<1>8. m \in 0..m /\ m # 0 /\ m - 1 = n
  BY <1>5
<1>9. g[m] = Within(objects, g[m - 1], longer[m])
  BY <1>6, <1>8, Zenon DEF IsOpened
<1> QED
  BY <1>2, <1>3, <1>4, <1>5, <1>6, <1>7, <1>8, <1>9

-----------------------------------------------------------------------------
(***************************************************************************)
(* The streams along a path may be read                                    *)
(***************************************************************************)

LEMMA StreamIsReadable ==
    ASSUME NEW objects, FormsAreReadable(objects), NEW page, IsReadable(FromPage(page)),
           NEW path \in Seq(Nat)
    PROVE  IsReadable(StreamAlong(objects, page, path))
<1>1. PICK n \in Nat : n = Len(path)
  BY LenProperties
<1>2. PICK f : IsOpened(f, objects, page, path, n) /\ StreamAlong(objects, page, path) = f[n]
  BY <1>1, StreamIsOpened
<1> DEFINE P == {k \in Nat : k <= n => IsReadable(f[k])}
<1>3. 0 \in P
  <2>1. 0 \in 0..n
    OBVIOUS
  <2>2. f[0] = FromPage(page)
    BY <1>2, <2>1, Zenon DEF IsOpened
  <2> QED
    BY <2>2
<1>4. ASSUME NEW k \in Nat, k \in P PROVE k + 1 \in P
  <2> SUFFICES ASSUME k + 1 <= n PROVE IsReadable(f[k + 1])
    OBVIOUS
  <2>1. PICK i \in 1..n : i = k + 1
    OBVIOUS
  <2>2. i \in 0..n /\ i # 0 /\ i - 1 = k
    BY <2>1
  <2>3. f[i] = Within(objects, f[i - 1], path[i])
    BY <1>2, <2>2, Zenon DEF IsOpened
  <2>4. IsReadable(f[k])
    BY <1>4
  <2>5. IsReadable(Within(objects, f[k], path[i]))
    BY <2>4, WithinIsReadable
  <2> QED
    BY <2>1, <2>2, <2>3, <2>5
<1> HIDE DEF P
<1>5. n \in P
  BY <1>3, <1>4, NatInduct
<1> QED
  BY <1>2, <1>5 DEF P

-----------------------------------------------------------------------------
(***************************************************************************)
(* Values of the streams of a page                                         *)
(***************************************************************************)

Paths == Seq(Nat)

\* The values of what is drawn by the stream that a path leads to.
DrawnAlong(value, path) == [p \in Nat |-> value[Append(path, p)]]

\* A value of each path, from those of the longer paths, is defined for every path.
IsStep(step, T) == step \in [Paths -> [[Nat -> T] -> T]]

AreValues(f, T, none, step) ==
    /\ f \in [Paths -> T]
    /\ \A path \in Paths :
          f[path] = IF Len(path) >= MaxDepth THEN none ELSE step[path][DrawnAlong(f, path)]

LEMMA ValuesExist ==
    ASSUME NEW T, NEW none, none \in T, NEW step, IsStep(step, T)
    PROVE  \E f : AreValues(f, T, none, step)
<1> DEFINE Step(f, path) ==
               IF Len(path) >= MaxDepth THEN none ELSE step[path][DrawnAlong(f, path)]
           IsUpTo(k) == \E f \in [Paths -> T] : \A path \in Paths :
                            Len(path) + k >= MaxDepth => f[path] = Step(f, path)
           P == {k \in Nat : IsUpTo(k)}
<1>0. ASSUME NEW path \in Paths, NEW p \in Nat
      PROVE  Append(path, p) \in Paths /\ Len(Append(path, p)) = Len(path) + 1
                /\ Len(path) \in Nat
  BY AppendProperties, LenProperties DEF Paths
<1>1. 0 \in P
  <2> DEFINE f == [path \in Paths |-> none]
  <2>1. f \in [Paths -> T]
    OBVIOUS
  <2>2. ASSUME NEW path \in Paths, Len(path) + 0 >= MaxDepth PROVE f[path] = Step(f, path)
    <3>1. Len(path) \in Nat
      BY <1>0
    <3>2. Len(path) >= MaxDepth
      BY <2>2, <3>1, DepthAssumption
    <3>3. f[path] = none
      OBVIOUS
    <3> HIDE DEF f
    <3> QED
      BY <3>2, <3>3
  <2> HIDE DEF f, Step
  <2> QED
    BY <2>1, <2>2
<1>2. ASSUME NEW k \in Nat, k \in P PROVE k + 1 \in P
  <2>1. PICK f \in [Paths -> T] : \A path \in Paths :
                 Len(path) + k >= MaxDepth => f[path] = Step(f, path)
    BY <1>2
  <2> DEFINE g == [path \in Paths |-> Step(f, path)]
  <2>2. ASSUME NEW path \in Paths PROVE Step(f, path) \in T
    <3>1. DrawnAlong(f, path) \in [Nat -> T]
      BY <1>0 DEF DrawnAlong
    <3> QED
      BY <3>1 DEF IsStep
  <2>3. g \in [Paths -> T]
    <3> HIDE DEF Step
    <3> QED
      BY <2>2
  <2>4. ASSUME NEW path \in Paths, Len(path) + (k + 1) >= MaxDepth PROVE g[path] = Step(g, path)
    <3>1. ASSUME NEW p \in Nat PROVE g[Append(path, p)] = f[Append(path, p)]
      <4>1. PICK longer \in Paths : longer = Append(path, p)
        BY <1>0
      <4>2. Len(longer) = Len(path) + 1 /\ Len(path) \in Nat
        BY <1>0, <4>1
      <4>3. Len(longer) + k >= MaxDepth
        BY <2>4, <4>2, DepthAssumption
      <4>4. f[longer] = Step(f, longer)
        BY <2>1, <4>3
      <4>5. g[longer] = Step(f, longer)
        BY Zenon
      <4> HIDE DEF g, Step
      <4> QED
        BY <4>1, <4>4, <4>5
    <3>2. DrawnAlong(g, path) = DrawnAlong(f, path)
      <4> HIDE DEF g
      <4> QED
        BY <3>1, Zenon DEF DrawnAlong
    <3>3. g[path] = Step(f, path)
      BY Zenon
    <3> HIDE DEF g
    <3> QED
      BY <3>2, <3>3
  <2>5. \A path \in Paths : Len(path) + (k + 1) >= MaxDepth => g[path] = Step(g, path)
    BY <2>4
  <2> HIDE DEF g, Step
  <2>6. IsUpTo(k + 1)
    BY <2>3, <2>5
  <2> HIDE DEF IsUpTo
  <2> QED
    BY <2>6
<1> HIDE DEF P
<1>3. MaxDepth \in P
  BY <1>1, <1>2, NatInduct, DepthAssumption
<1>4. PICK f \in [Paths -> T] : \A path \in Paths :
                 Len(path) + MaxDepth >= MaxDepth => f[path] = Step(f, path)
  BY <1>3 DEF P
<1>5. ASSUME NEW path \in Paths PROVE f[path] = Step(f, path)
  <2>1. Len(path) \in Nat
    BY <1>0
  <2>2. Len(path) + MaxDepth >= MaxDepth
    BY <2>1, DepthAssumption
  <2> QED
    BY <1>4, <2>2, Zenon
<1> QED
  BY <1>4, <1>5 DEF AreValues

\* What holds for the longest paths, and for a path if for those that go on from it, holds
\* for every path.
LEMMA PathsEnd ==
    ASSUME NEW S,
           \A path \in Paths : Len(path) >= MaxDepth => path \in S,
           \A path \in Paths : (\A p \in Nat : Append(path, p) \in S) => path \in S
    PROVE  Paths \subseteq S
<1> DEFINE P == {k \in Nat : \A path \in Paths : Len(path) + k >= MaxDepth => path \in S}
<1>0. \A path \in Paths : Len(path) \in Nat
  BY LenProperties DEF Paths
<1>1. 0 \in P
  BY <1>0, DepthAssumption
<1>2. ASSUME NEW k \in Nat, k \in P PROVE k + 1 \in P
  <2> SUFFICES ASSUME NEW path \in Paths, Len(path) + (k + 1) >= MaxDepth PROVE path \in S
    OBVIOUS
  <2>1. ASSUME NEW p \in Nat PROVE Append(path, p) \in S
    <3>1. PICK longer \in Paths : longer = Append(path, p)
      BY AppendProperties DEF Paths
    <3>2. Len(longer) = Len(path) + 1 /\ Len(path) \in Nat
      BY <3>1, AppendProperties, <1>0 DEF Paths
    <3>3. Len(longer) + k >= MaxDepth
      BY <3>2, DepthAssumption
    <3> QED
      BY <1>2, <3>1, <3>3
  <2> QED
    BY <2>1
<1> HIDE DEF P
<1>3. MaxDepth \in P
  BY <1>1, <1>2, NatInduct, DepthAssumption
<1>4. ASSUME NEW path \in Paths PROVE path \in S
  <2>1. Len(path) + MaxDepth >= MaxDepth
    BY <1>0, DepthAssumption
  <2> QED
    BY <1>3, <2>1 DEF P
<1> QED
  BY <1>4

-----------------------------------------------------------------------------
(***************************************************************************)
(* The texts, the readings and the well-formedness along paths             *)
(***************************************************************************)

\* A page whose content may be read, with the forms that it may draw.
MayBeRead(objects, page) == FormsAreReadable(objects) /\ IsReadable(FromPage(page))

TextFrom(objects, page, value, path) ==
    IF Len(path) >= MaxDepth THEN <<>>
    ELSE TextBefore(objects, StreamAlong(objects, page, path), DrawnAlong(value, path),
                    Len(StreamAlong(objects, page, path).content) + 2)

LEMMA ContentHasLength ==
    ASSUME NEW s, IsReadable(s)
    PROVE  Len(s.content) \in Nat /\ DOMAIN s.content = 1..Len(s.content)
<1>1. PICK S : s.content \in Seq(S)
  BY DEF IsReadable, IsContent
<1> QED
  BY <1>1, LenProperties

LEMMA TextsAreTexts ==
    ASSUME NEW objects, NEW page, MayBeRead(objects, page)
    PROVE  /\ TextsAlong(objects, page) \in [Paths -> Texts]
           /\ \A path \in Paths :
                 TextsAlong(objects, page)[path] =
                 TextFrom(objects, page, TextsAlong(objects, page), path)
<1> DEFINE StreamTo(path) == StreamAlong(objects, page, path)
           TextTo(path, drawn) == TextBefore(objects, StreamTo(path), drawn, Len(StreamTo(path).content) + 2)
           step == [path \in Paths |-> [drawn \in [Nat -> Texts] |-> TextTo(path, drawn)]]
           Solves(v) == v = [path \in Paths |-> TextFrom(objects, page, v, path)]
           v == TextsAlong(objects, page)
<1>1. ASSUME NEW path \in Paths, NEW drawn \in [Nat -> Texts] PROVE TextTo(path, drawn) \in Texts
  <2>1. IsReadable(StreamTo(path))
    BY StreamIsReadable DEF MayBeRead, Paths
  <2>2. PICK n \in Nat : n = Len(StreamTo(path).content)
    BY <2>1, ContentHasLength
  <2>3. n + 2 \in 1..(n + 2)
    OBVIOUS
  <2>4. TextBefore(objects, StreamTo(path), drawn, n + 2) \in Texts
    BY <2>1, <2>2, <2>3, TextIsText
  <2> QED
    BY <2>2, <2>4
<1>2. step \in [Paths -> [[Nat -> Texts] -> Texts]]
  <2> HIDE DEF TextTo
  <2> QED
    BY <1>1
<1>3. <<>> \in Texts
  BY DEF Texts
<1>4. PICK f : AreValues(f, Texts, <<>>, step)
  <2>1. IsStep(step, Texts)
    <3> HIDE DEF step
    <3> QED
      BY <1>2 DEF IsStep
  <2>2. PICK none : none = <<>>
    OBVIOUS
  <2> HIDE DEF step
  <2> QED
    BY <1>3, <2>1, <2>2, ValuesExist
<1>5. ASSUME NEW path \in Paths PROVE f[path] = TextFrom(objects, page, f, path)
  <2>1. DrawnAlong(f, path) \in [Nat -> Texts]
    BY <1>4, AppendProperties DEF DrawnAlong, Paths, AreValues
  <2>2. step[path][DrawnAlong(f, path)] = TextTo(path, DrawnAlong(f, path))
    <3> HIDE DEF TextTo
    <3> QED
      BY <2>1
  <2> HIDE DEF step
  <2> QED
    BY <1>4, <2>2, Zenon DEF TextFrom, AreValues
<1>6. Solves(f)
  <2>1. f = [path \in Paths |-> f[path]]
    BY <1>4 DEF AreValues
  <2> QED
    BY <1>5, <2>1
<1>7. v = CHOOSE w : Solves(w)
  BY Zenon DEF TextsAlong, ValuesAlong, TextFrom, DrawnAlong, Paths
<1>8. Solves(v)
  <2> HIDE DEF v, Solves
  <2> QED
    BY <1>6, <1>7
<1> HIDE DEF v
<1>9. ASSUME NEW path \in Paths PROVE v[path] = TextFrom(objects, page, v, path)
  BY <1>8, Zenon
<1> DEFINE S == {path \in Paths : v[path] \in Texts}
<1>10. Paths \subseteq S
  <2>1. ASSUME NEW path \in Paths, Len(path) >= MaxDepth PROVE path \in S
    BY <1>3, <1>9, <2>1 DEF TextFrom
  <2>2. ASSUME NEW path \in Paths, \A p \in Nat : Append(path, p) \in S PROVE path \in S
    <3>1. DrawnAlong(v, path) \in [Nat -> Texts]
      BY <2>2 DEF DrawnAlong
    <3>2. TextTo(path, DrawnAlong(v, path)) \in Texts
      BY <1>1, <3>1
    <3>3. TextFrom(objects, page, v, path) \in Texts
      BY <1>3, <3>2 DEF TextFrom
    <3> QED
      BY <1>9, <3>3
  <2> HIDE DEF S
  <2> QED
    BY <2>1, <2>2, PathsEnd
<1>11. v = [path \in Paths |-> v[path]]
  <2> HIDE DEF S
  <2> QED
    BY <1>8, Zenon
<1>12. v \in [Paths -> Texts]
  BY <1>10, <1>11
<1> QED
  BY <1>9, <1>12 DEF v

ReadingFrom(objects, page, value, path) ==
    IF Len(path) >= MaxDepth THEN <<>>
    ELSE ReadingBefore(objects, StreamAlong(objects, page, path), DrawnAlong(value, path),
                       Len(StreamAlong(objects, page, path).content) + 1)

\* What a place adds to the reading.
ReadAt(objects, s, drawn, p) ==
    IF DrawsAt(objects, s, p) THEN drawn[p] ELSE ShownAt(s.content, s.fonts, p)

LEMMA ReadingGoesOn ==
    ASSUME NEW objects, NEW s, IsReadable(s), NEW drawn \in [Nat -> Texts],
           NEW p \in 1..Len(s.content)
    PROVE  /\ ReadAt(objects, s, drawn, p) \in Texts
           /\ ReadingBefore(objects, s, drawn, p) \in Texts
           /\ ReadingBefore(objects, s, drawn, p + 1) =
              ReadingBefore(objects, s, drawn, p) \o ReadAt(objects, s, drawn, p)
<1>0. PICK n \in Nat : n = p - 1
  BY ContentHasLength
<1>1. /\ n + 1 = p /\ (p + 1) - 1 = n + 1 /\ 1..(n + 1) \subseteq 1..Len(s.content)
  BY <1>0, ContentHasLength
<1> DEFINE Read(q) == ReadAt(objects, s, drawn, q)
           texts == [q \in 1..(n + 1) |-> Read(q)]
           before == [q \in 1..n |-> Read(q)]
<1>2. ASSUME NEW q \in 1..Len(s.content) PROVE Read(q) \in Texts
  <2>1. ShownAt(s.content, s.fonts, q) \in Texts
    BY ShownIsText DEF IsReadable, Texts
  <2>2. q \in Nat
    BY ContentHasLength
  <2> QED
    BY <2>1, <2>2 DEF ReadAt
<1>3. texts \in [1..(n + 1) -> Seq(Nat)]
  <2> HIDE DEF Read
  <2> QED
    BY <1>1, <1>2 DEF Texts
<1>4. before = [q \in 1..n |-> texts[q]] /\ texts[n + 1] = Read(p)
  <2> HIDE DEF Read
  <2> QED
    BY <1>1
<1>5. /\ ReadingBefore(objects, s, drawn, p) = FlattenSeq(before)
      /\ ReadingBefore(objects, s, drawn, p + 1) = FlattenSeq(texts)
  <2>1. ReadingBefore(objects, s, drawn, p) = FlattenSeq([q \in 1..(p - 1) |-> Read(q)])
    BY Zenon DEF ReadingBefore, ReadAt
  <2>2. ReadingBefore(objects, s, drawn, p + 1) = FlattenSeq([q \in 1..((p + 1) - 1) |-> Read(q)])
    BY Zenon DEF ReadingBefore, ReadAt
  <2> HIDE DEF Read
  <2> QED
    BY <1>0, <1>1, <2>1, <2>2, Zenon
<1> HIDE DEF texts, before, Read
<1>6. /\ FlattenSeq(before) \in Seq(Nat)
      /\ FlattenSeq(texts) = FlattenSeq(before) \o texts[n + 1]
  BY <1>3, <1>4, FlattenSeqGrows
<1>7. Read(p) \in Texts
  BY <1>2
<1> QED
  BY <1>4, <1>5, <1>6, <1>7 DEF Texts, Read

LEMMA ReadingBegins ==
    ASSUME NEW objects, NEW s, NEW drawn
    PROVE  ReadingBefore(objects, s, drawn, 1) = <<>>
<1> DEFINE Read(q) == IF DrawsAt(objects, s, q) THEN drawn[q] ELSE ShownAt(s.content, s.fonts, q)
<1>1. ReadingBefore(objects, s, drawn, 1) = FlattenSeq([q \in 1..(1 - 1) |-> Read(q)])
  BY Zenon DEF ReadingBefore
<1>2. [q \in 1..(1 - 1) |-> Read(q)] = <<>>
  <2> HIDE DEF Read
  <2> QED
    OBVIOUS
<1> QED
  BY <1>1, <1>2, FlattenNothing

LEMMA ReadingIsText ==
    ASSUME NEW objects, NEW s, IsReadable(s), NEW drawn \in [Nat -> Texts]
    PROVE  ReadingBefore(objects, s, drawn, Len(s.content) + 1) \in Texts
<1>1. PICK n \in Nat : n = Len(s.content)
  BY ContentHasLength
<1>2. CASE n = 0
  <2>1. n + 1 = 1
    BY <1>2
  <2>2. ReadingBefore(objects, s, drawn, n + 1) = <<>>
    BY <2>1, ReadingBegins, Zenon
  <2>3. <<>> \in Texts
    BY DEF Texts
  <2> QED
    BY <1>1, <2>2, <2>3, Zenon
<1>3. CASE n # 0
  <2>1. n \in 1..n
    BY <1>3
  <2>2. /\ ReadAt(objects, s, drawn, n) \in Texts
        /\ ReadingBefore(objects, s, drawn, n) \in Texts
        /\ ReadingBefore(objects, s, drawn, n + 1) =
           ReadingBefore(objects, s, drawn, n) \o ReadAt(objects, s, drawn, n)
    BY <1>1, <2>1, ReadingGoesOn
  <2>3. \A t, u \in Texts : t \o u \in Texts
    BY DEF Texts
  <2>4. ReadingBefore(objects, s, drawn, n + 1) \in Texts
    <3> DEFINE t == ReadingBefore(objects, s, drawn, n)
               u == ReadAt(objects, s, drawn, n)
    <3>1. t \in Texts /\ u \in Texts /\ ReadingBefore(objects, s, drawn, n + 1) = t \o u
      BY <2>2
    <3> HIDE DEF t, u
    <3> QED
      BY <2>3, <3>1
  <2> QED
    BY <1>1, <2>4
<1> QED
  BY <1>2, <1>3

LEMMA ReadingsAreTexts ==
    ASSUME NEW objects, NEW page, MayBeRead(objects, page)
    PROVE  /\ ReadingsAlong(objects, page) \in [Paths -> Texts]
           /\ \A path \in Paths :
                 ReadingsAlong(objects, page)[path] =
                 ReadingFrom(objects, page, ReadingsAlong(objects, page), path)
<1> DEFINE StreamTo(path) == StreamAlong(objects, page, path)
           ReadingTo(path, drawn) ==
               ReadingBefore(objects, StreamTo(path), drawn, Len(StreamTo(path).content) + 1)
           step == [path \in Paths |-> [drawn \in [Nat -> Texts] |-> ReadingTo(path, drawn)]]
           Solves(v) == v = [path \in Paths |-> ReadingFrom(objects, page, v, path)]
           v == ReadingsAlong(objects, page)
<1>1. ASSUME NEW path \in Paths, NEW drawn \in [Nat -> Texts]
      PROVE  ReadingTo(path, drawn) \in Texts
  BY StreamIsReadable, ReadingIsText DEF MayBeRead, Paths
<1>2. step \in [Paths -> [[Nat -> Texts] -> Texts]]
  <2> HIDE DEF ReadingTo
  <2> QED
    BY <1>1
<1>3. <<>> \in Texts
  BY DEF Texts
<1>4. PICK f : AreValues(f, Texts, <<>>, step)
  <2>1. IsStep(step, Texts)
    <3> HIDE DEF step
    <3> QED
      BY <1>2 DEF IsStep
  <2>2. PICK none : none = <<>>
    OBVIOUS
  <2> HIDE DEF step
  <2> QED
    BY <1>3, <2>1, <2>2, ValuesExist
<1>5. ASSUME NEW path \in Paths PROVE f[path] = ReadingFrom(objects, page, f, path)
  <2>1. DrawnAlong(f, path) \in [Nat -> Texts]
    BY <1>4, AppendProperties DEF DrawnAlong, Paths, AreValues
  <2>2. step[path][DrawnAlong(f, path)] = ReadingTo(path, DrawnAlong(f, path))
    <3> HIDE DEF ReadingTo
    <3> QED
      BY <2>1
  <2> HIDE DEF step
  <2> QED
    BY <1>4, <2>2, Zenon DEF ReadingFrom, AreValues
<1>6. Solves(f)
  <2>1. f = [path \in Paths |-> f[path]]
    BY <1>4 DEF AreValues
  <2> QED
    BY <1>5, <2>1
<1>7. v = CHOOSE w : Solves(w)
  BY Zenon DEF ReadingsAlong, ValuesAlong, ReadingFrom, DrawnAlong, Paths
<1>8. Solves(v)
  <2> HIDE DEF v, Solves
  <2> QED
    BY <1>6, <1>7
<1> HIDE DEF v
<1>9. ASSUME NEW path \in Paths PROVE v[path] = ReadingFrom(objects, page, v, path)
  BY <1>8, Zenon
<1> DEFINE S == {path \in Paths : v[path] \in Texts}
<1>10. Paths \subseteq S
  <2>1. ASSUME NEW path \in Paths, Len(path) >= MaxDepth PROVE path \in S
    BY <1>3, <1>9, <2>1 DEF ReadingFrom
  <2>2. ASSUME NEW path \in Paths, \A p \in Nat : Append(path, p) \in S PROVE path \in S
    <3>1. DrawnAlong(v, path) \in [Nat -> Texts]
      BY <2>2 DEF DrawnAlong
    <3>2. ReadingTo(path, DrawnAlong(v, path)) \in Texts
      BY <1>1, <3>1
    <3>3. ReadingFrom(objects, page, v, path) \in Texts
      BY <1>3, <3>2 DEF ReadingFrom
    <3> QED
      BY <1>9, <3>3
  <2> HIDE DEF S
  <2> QED
    BY <2>1, <2>2, PathsEnd
<1>11. v = [path \in Paths |-> v[path]]
  <2> HIDE DEF S
  <2> QED
    BY <1>8, Zenon
<1>12. v \in [Paths -> Texts]
  BY <1>10, <1>11
<1> QED
  BY <1>9, <1>12 DEF v

WellFormedFrom(objects, page, value, path) ==
    IF Len(path) >= MaxDepth THEN TRUE
    ELSE /\ IsWellFormed(StreamAlong(objects, page, path).content)
         /\ \A p \in DOMAIN StreamAlong(objects, page, path).content :
               DrawsAt(objects, StreamAlong(objects, page, path), p) => DrawnAlong(value, path)[p]

LEMMA WellFormedIsDefined ==
    ASSUME NEW objects, NEW page, NEW path \in Paths
    PROVE  WellFormedAlong(objects, page)[path] =
           WellFormedFrom(objects, page, WellFormedAlong(objects, page), path)
<1> DEFINE StreamTo(at) == StreamAlong(objects, page, at)
           WellFormedTo(at, drawn) ==
               /\ IsWellFormed(StreamTo(at).content)
               /\ \A p \in DOMAIN StreamTo(at).content :
                     DrawsAt(objects, StreamTo(at), p) => drawn[p]
           step == [at \in Paths |-> [drawn \in [Nat -> BOOLEAN] |-> WellFormedTo(at, drawn)]]
           Solves(v) == v = [at \in Paths |-> WellFormedFrom(objects, page, v, at)]
           v == WellFormedAlong(objects, page)
<1>1. ASSUME NEW at \in Paths, NEW drawn \in [Nat -> BOOLEAN] PROVE WellFormedTo(at, drawn) \in BOOLEAN
  BY Zenon
<1>2. step \in [Paths -> [[Nat -> BOOLEAN] -> BOOLEAN]]
  <2> HIDE DEF WellFormedTo
  <2> QED
    BY <1>1
<1>3. PICK f : AreValues(f, BOOLEAN, TRUE, step)
  <2>1. IsStep(step, BOOLEAN)
    <3> HIDE DEF step
    <3> QED
      BY <1>2 DEF IsStep
  <2>2. PICK none \in BOOLEAN : none = TRUE
    OBVIOUS
  <2>3. \E f : AreValues(f, BOOLEAN, none, step)
    <3> HIDE DEF step
    <3> QED
      BY <2>1, <2>2, ValuesExist
  <2> HIDE DEF step
  <2> QED
    BY <2>2, <2>3
<1>4. ASSUME NEW at \in Paths PROVE f[at] = WellFormedFrom(objects, page, f, at)
  <2>1. DrawnAlong(f, at) \in [Nat -> BOOLEAN]
    BY <1>3, AppendProperties DEF DrawnAlong, Paths, AreValues
  <2>2. step[at][DrawnAlong(f, at)] = WellFormedTo(at, DrawnAlong(f, at))
    <3> HIDE DEF WellFormedTo
    <3> QED
      BY <2>1, Zenon
  <2> HIDE DEF step
  <2> QED
    BY <1>3, <2>2, Zenon DEF WellFormedFrom, AreValues
<1>5. Solves(f)
  <2>1. f = [at \in Paths |-> f[at]]
    BY <1>3 DEF AreValues
  <2> QED
    BY <1>4, <2>1
<1>6. v = CHOOSE w : Solves(w)
  BY Zenon DEF WellFormedAlong, ValuesAlong, WellFormedFrom, DrawnAlong, Paths
<1>7. Solves(v)
  <2> HIDE DEF v, Solves
  <2> QED
    BY <1>5, <1>6
<1> HIDE DEF v
<1>8. v[path] = WellFormedFrom(objects, page, v, path)
  BY <1>7, Zenon
<1> QED
  BY <1>8 DEF v

-----------------------------------------------------------------------------
(***************************************************************************)
(* Where a stream begins                                                   *)
(***************************************************************************)

\* A stream begins without a line.
LEMMA LineBegins ==
    ASSUME NEW c, NEW fonts
    PROVE  LineAt(c, fonts, 1) = <<>>
<1> DEFINE Shown(k) == ShownInText(c, fonts, FirstOfLine(c, 1) + k - 1)
<1>1. FirstOfLine(c, 1) = 1
  <2>1. FirstOfLine(c, 1) \in 1..1
    BY FirstOfLinePlace
  <2> QED
    BY <2>1
<1>2. LineAt(c, fonts, 1) = FlattenSeq([k \in 1..(1 - FirstOfLine(c, 1)) |-> Shown(k)])
  BY LineFrom, Zenon
<1>3. [k \in 1..(1 - FirstOfLine(c, 1)) |-> Shown(k)] = <<>>
  <2> HIDE DEF Shown
  <2> QED
    BY <1>1
<1> QED
  BY <1>2, <1>3, FlattenNothing

LEMMA OperatorsDiffer == \A a, b : Op(a) = Op(b) => a = b
<1> TAKE a, b
<1>1. Op(a).op = a /\ Op(b).op = b
  BY DEF Op
<1> QED
  BY <1>1

-----------------------------------------------------------------------------
(***************************************************************************)
(* An activation agrees with the declarative text                          *)
(***************************************************************************)

\* The local variables of an activation are what the declarative text says of its place.
Agrees(f, objects, s, drawn) ==
    /\ f.content = s.content /\ f.fonts = s.fonts /\ f.resources = s.resources
    /\ f.inText <=> IsInText(s.content, f.next)
    /\ f.font = FontAt(s.content, s.fonts, f.next)
    /\ f.line = LineAt(s.content, s.fonts, f.next)
    /\ f.text = TextBefore(objects, s, drawn, f.next)

\* How the local variables change at a place, from what they were.
Proceeds(f, g, objects, s, drawn) ==
    /\ DOMAIN g = FrameFields
    /\ g.content = f.content /\ g.fonts = f.fonts /\ g.resources = f.resources
    /\ g.next = f.next
    /\ g.inText <=> (s.content[f.next] = Op("BT") \/ (f.inText /\ s.content[f.next] # Op("ET")))
    /\ g.font = IF ChoosesFont(s.content, f.next)
                THEN FontNamed(s.fonts, s.content[f.next - 2].name) ELSE f.font
    /\ g.line = IF StartsLine(s.content, f.next) THEN ShownInText(s.content, s.fonts, f.next)
                ELSE f.line \o ShownInText(s.content, s.fonts, f.next)
    /\ g.text = WithPieces(f.text, objects, s, drawn, f.next)

LEMMA NewFrameAgrees ==
    ASSUME NEW objects, NEW s, NEW drawn
    PROVE  Agrees(Frame(s.content, s.fonts, s.resources), objects, s, drawn)
<1> DEFINE f == Frame(s.content, s.fonts, s.resources)
<1>1. /\ f.content = s.content /\ f.fonts = s.fonts /\ f.resources = s.resources
      /\ f.next = 1 /\ f.inText = FALSE /\ f.font = NoFont /\ f.line = <<>> /\ f.text = <<>>
  BY DEF Frame
<1>2. /\ ~IsInText(s.content, 1)
      /\ FontAt(s.content, s.fonts, 1) = NoFont
      /\ LineAt(s.content, s.fonts, 1) = <<>>
      /\ TextBefore(objects, s, drawn, 1) = <<>>
  BY InTextBegins, FontBegins, LineBegins, TextBegins
<1> HIDE DEF f
<1>3. Agrees(f, objects, s, drawn)
  BY <1>1, <1>2 DEF Agrees
<1> QED
  BY <1>3 DEF f

\* A frame that proceeds at a place agrees at the next one.
LEMMA ProceedingAgrees ==
    ASSUME NEW objects, NEW s, IsReadable(s), NEW drawn \in [Nat -> Texts],
           NEW f, Agrees(f, objects, s, drawn), f.next \in 1..Len(s.content),
           NEW g, Proceeds(f, g, objects, s, drawn)
    PROVE  Agrees([g EXCEPT !.next = @ + 1], objects, s, drawn)
<1> DEFINE c == s.content
           fonts == s.fonts
           h == [g EXCEPT !.next = @ + 1]
<1>1. PICK p \in 1..Len(c) : p = f.next
  OBVIOUS
<1>2. Len(c) \in Nat /\ DOMAIN c = 1..Len(c) /\ p \in Nat \ {0} /\ p \in DOMAIN c
      /\ p \in 1..(Len(c) + 1)
  BY ContentHasLength
<1>3. /\ h.content = s.content /\ h.fonts = s.fonts /\ h.resources = s.resources
      /\ h.next = p + 1
      /\ h.inText = g.inText /\ h.font = g.font /\ h.line = g.line /\ h.text = g.text
  <2>1. DOMAIN g = FrameFields /\ g.next = p
        /\ g.content = s.content /\ g.fonts = s.fonts /\ g.resources = s.resources
    BY <1>1 DEF Proceeds, Agrees
  <2> QED
    BY <2>1 DEF FrameFields
<1> HIDE DEF h
<1>4. h.inText <=> IsInText(c, p + 1)
  <2>1. g.inText <=> (c[p] = Op("BT") \/ (f.inText /\ c[p] # Op("ET")))
    BY <1>1 DEF Proceeds
  <2>2. f.inText <=> IsInText(c, p)
    BY <1>1 DEF Agrees
  <2>3. IsInText(c, p + 1) <=> (c[p] = Op("BT") \/ (IsInText(c, p) /\ c[p] # Op("ET")))
    BY <1>2, InTextGoesOn
  <2> QED
    BY <1>3, <2>1, <2>2, <2>3
<1>5. h.font = FontAt(c, fonts, p + 1)
  <2>1. g.font = IF ChoosesFont(c, p) THEN FontNamed(fonts, c[p - 2].name) ELSE f.font
    BY <1>1 DEF Proceeds
  <2>2. f.font = FontAt(c, fonts, p)
    BY <1>1 DEF Agrees
  <2>3. FontAt(c, fonts, p + 1) =
           IF ChoosesFont(c, p) THEN FontNamed(fonts, c[p - 2].name) ELSE FontAt(c, fonts, p)
    BY <1>2, FontGoesOn
  <2> QED
    BY <1>3, <2>1, <2>2, <2>3
<1>6. h.line = LineAt(c, fonts, p + 1)
  <2>1. g.line = IF StartsLine(c, p) THEN ShownInText(c, fonts, p)
                 ELSE f.line \o ShownInText(c, fonts, p)
    BY <1>1 DEF Proceeds
  <2>2. f.line = LineAt(c, fonts, p)
    BY <1>1 DEF Agrees
  <2>3. \A q \in 1..p : ShownInText(c, fonts, q) \in Seq(Nat)
    <3>1. \A q \in 1..p : q \in 1..Len(c)
      BY <1>2
    <3> QED
      BY <3>1, ShownIsText DEF IsReadable
  <2>4. LineAt(c, fonts, p + 1) =
           IF StartsLine(c, p) THEN ShownInText(c, fonts, p)
           ELSE LineAt(c, fonts, p) \o ShownInText(c, fonts, p)
    BY <1>2, <2>3, LineGoesOn
  <2> QED
    BY <1>3, <2>1, <2>2, <2>4
<1>7. h.text = TextBefore(objects, s, drawn, p + 1)
  <2>1. g.text = WithPieces(f.text, objects, s, drawn, p)
    BY <1>1 DEF Proceeds
  <2>2. f.text = TextBefore(objects, s, drawn, p)
    BY <1>1 DEF Agrees
  <2>3. TextBefore(objects, s, drawn, p + 1) =
        WithPieces(TextBefore(objects, s, drawn, p), objects, s, drawn, p)
    BY <1>2, TextGoesOn
  <2> QED
    BY <1>3, <2>1, <2>2, <2>3
<1> QED
  BY <1>3, <1>4, <1>5, <1>6, <1>7 DEF Agrees, h

\* The text of an activation that has come to the end of its stream.
LEMMA FinishedAgrees ==
    ASSUME NEW objects, NEW s, IsReadable(s), NEW drawn \in [Nat -> Texts],
           NEW f, DOMAIN f = FrameFields, Agrees(f, objects, s, drawn),
           f.next = Len(s.content) + 1
    PROVE  Flushed(f).text = TextBefore(objects, s, drawn, Len(s.content) + 2)
<1>1. PICK p \in Nat : p = f.next
  BY ContentHasLength
<1>2. p \in 1..(Len(s.content) + 1) /\ p + 1 = Len(s.content) + 2 /\ p \notin 2..Len(s.content)
      /\ p = Len(s.content) + 1
  BY <1>1, ContentHasLength
<1>3. TextBefore(objects, s, drawn, p + 1) = WithPieces(f.text, objects, s, drawn, p)
  BY <1>1, <1>2, TextGoesOn DEF Agrees
<1>4. ~DrawsAt(objects, s, p)
  <2>1. DrawnAt(objects, s, p) = Null
    BY <1>2 DEF DrawnAt
  <2>2. Null.kind # "Stream"
    BY DEF Null
  <2> QED
    BY <2>1, <2>2 DEF DrawsAt, IsDrawable
<1>5. p \in Breaks(s.content)
  BY <1>2 DEF Breaks
<1>6. f.line = LineAt(s.content, s.fonts, p)
  BY <1>1 DEF Agrees
<1>7. TextBefore(objects, s, drawn, p + 1) =
         IF f.line # <<>> THEN Appended(f.text, f.line) ELSE f.text
  BY <1>3, <1>4, <1>5, <1>6 DEF WithPieces
<1>8. Flushed(f).text = IF f.line # <<>> THEN Appended(f.text, f.line) ELSE f.text
  BY DEF Flushed, FrameFields
<1> QED
  BY <1>2, <1>7, <1>8

-----------------------------------------------------------------------------
(***************************************************************************)
(* What tokens do not do                                                   *)
(***************************************************************************)

ShowOperators == {Op("Tj"), Op("TJ"), Op("'"), Op("\"")}

LEMMA ShowsNothing ==
    ASSUME NEW c, NEW fonts, NEW p, c[p] \notin ShowOperators
    PROVE  ShownAt(c, fonts, p) = <<>> /\ ShownInText(c, fonts, p) = <<>>
  BY DEF ShowOperators, ShownAt, ShownInText, NeedsLine

LEMMA DrawsNothing ==
    ASSUME NEW objects, NEW s, NEW p, s.content[p] # Op("Do")
    PROVE  ~DrawsAt(objects, s, p)
<1>1. DrawnAt(objects, s, p) = Null
  BY DEF DrawnAt
<1>2. Null.kind # "Stream"
  BY DEF Null
<1> QED
  BY <1>1, <1>2 DEF DrawsAt, IsDrawable

LEMMA BreaksInside ==
    ASSUME NEW s, IsReadable(s), NEW p \in 1..Len(s.content)
    PROVE  p \in Breaks(s.content) <=>
              \/ s.content[p] = Op("ET")
              \/ NeedsLine(s.content, p) /\ IsInText(s.content, p)
<1>1. p \in DOMAIN s.content /\ p # Len(s.content) + 1
  BY ContentHasLength
<1> QED
  BY <1>1 DEF Breaks

\* Tokens that neither show, draw nor break change neither the line nor the text.
IsQuiet(objects, s, p) ==
    s.content[p] \notin ShowOperators \cup {Op("ET"), Op("BT")} /\ ~DrawsAt(objects, s, p)

ChangesNothing(objects, s, drawn, p, line, text) ==
    /\ ~StartsLine(s.content, p)
    /\ line \o ShownInText(s.content, s.fonts, p) = line
    /\ WithPieces(text, objects, s, drawn, p) = text

LEMMA QuietToken ==
    ASSUME NEW objects, NEW s, IsReadable(s), NEW drawn, NEW p, p \in 1..Len(s.content),
           NEW line, line \in Seq(Nat), NEW text, IsQuiet(objects, s, p)
    PROVE  ChangesNothing(objects, s, drawn, p, line, text)
<1>1. ShownInText(s.content, s.fonts, p) = <<>>
  BY ShowsNothing DEF IsQuiet
<1>2. p \notin Breaks(s.content)
  BY BreaksInside DEF NeedsLine, ShowOperators, IsQuiet
<1>3. ~StartsLine(s.content, p)
  BY <1>2 DEF StartsLine, IsQuiet
<1>4. line \o <<>> = line
  BY ConcatEmptySeq
<1> QED
  BY <1>1, <1>2, <1>3, <1>4 DEF WithPieces, IsQuiet, ChangesNothing

-----------------------------------------------------------------------------
(***************************************************************************)
(* The operators agree with the declarative text                           *)
(***************************************************************************)

LEMMA PlaceFacts ==
    ASSUME StackInv, TypeInv, AtToken, NEW s, NEW drawn, Agrees(Top, doc.objects, s, drawn)
    PROVE  /\ IsReadable(s) /\ Top.next \in 1..Len(s.content) /\ Top.next \in Nat
           /\ DOMAIN Top = FrameFields /\ Top.line \in Seq(Nat) /\ Top.inText \in BOOLEAN
           /\ Token = s.content[Top.next]
           /\ \A k : Operand(k) = s.content[Top.next - k]
<1>1. /\ FrameInv(Top) /\ IsTyped(Top)
      /\ DOMAIN Top = FrameFields /\ Top.next \in Nat /\ Top.next <= Len(Top.content)
  BY RunningFrame
<1>2. s.content = Top.content /\ s.fonts = Top.fonts
  BY DEF Agrees
<1>3. IsReadable(s)
  BY <1>1, <1>2 DEF IsReadable, IsTyped
<1>4. Top.next \in 1..Len(s.content)
  BY <1>1, <1>2, <1>3, ContentHasLength DEF FrameInv
<1>5. Top.line \in Seq(Nat) /\ Top.inText \in BOOLEAN
  BY <1>1 DEF IsTyped, FrameInv
<1>6. Token = s.content[Top.next] /\ \A k : Operand(k) = s.content[Top.next - k]
  BY <1>2 DEF Token, Operand
<1> QED
  BY <1>1, <1>3, <1>4, <1>5, <1>6

\* A token that changes nothing.
LEMMA StayingProceeds ==
    ASSUME StackInv, TypeInv, AtToken, NEW s, NEW drawn, Agrees(Top, doc.objects, s, drawn),
           Token \notin ShowOperators \cup {Op("BT"), Op("ET"), Op("Tf")},
           ~DrawsAt(doc.objects, s, Top.next)
    PROVE  Proceeds(Top, Top, doc.objects, s, drawn)
<1>1. /\ IsReadable(s) /\ Top.next \in 1..Len(s.content)
      /\ DOMAIN Top = FrameFields /\ Top.line \in Seq(Nat)
      /\ Token = s.content[Top.next]
  BY PlaceFacts
<1>2. ChangesNothing(doc.objects, s, drawn, Top.next, Top.line, Top.text)
  <2>1. IsQuiet(doc.objects, s, Top.next)
    BY <1>1 DEF IsQuiet
  <2> QED
    BY <1>1, <2>1, QuietToken, Zenon
<1>3. ~ChoosesFont(s.content, Top.next)
  BY <1>1 DEF ChoosesFont
<1> QED
  BY <1>1, <1>2, <1>3 DEF Proceeds, ChangesNothing

LEMMA SetFontProceeds ==
    ASSUME StackInv, TypeInv, SetFont, NEW s, NEW drawn, Agrees(Top, doc.objects, s, drawn)
    PROVE  \E g : Continue(g) /\ Proceeds(Top, g, doc.objects, s, drawn)
<1> DEFINE set == [Top EXCEPT !.font = FontNamed(Top.fonts, Operand(2).name)]
           g == IF HasOperands(2) /\ Operand(2).t = "name" THEN set ELSE Top
<1>0. AtToken /\ Token = Op("Tf") /\ Continue(g)
  BY DEF SetFont, AtOperator
<1>1. /\ IsReadable(s) /\ Top.next \in 1..Len(s.content) /\ Top.next \in Nat
      /\ DOMAIN Top = FrameFields /\ Top.line \in Seq(Nat)
      /\ Token = s.content[Top.next] /\ Operand(2) = s.content[Top.next - 2]
  BY <1>0, PlaceFacts
<1>2. Token \notin ShowOperators \cup {Op("BT"), Op("ET"), Op("Do")}
  BY <1>0, OperatorsDiffer DEF ShowOperators
<1>3. ~DrawsAt(doc.objects, s, Top.next)
  BY <1>1, <1>2, DrawsNothing
<1>4. ChangesNothing(doc.objects, s, drawn, Top.next, Top.line, Top.text)
  <2>1. IsQuiet(doc.objects, s, Top.next)
    BY <1>1, <1>2, <1>3 DEF IsQuiet
  <2> QED
    BY <1>1, <2>1, QuietToken, Zenon
<1>5. ChoosesFont(s.content, Top.next) <=> HasOperands(2) /\ Operand(2).t = "name"
  BY <1>0, <1>1 DEF ChoosesFont, HasOperands
<1>6. /\ DOMAIN g = FrameFields
      /\ g.content = Top.content /\ g.fonts = Top.fonts /\ g.resources = Top.resources
      /\ g.next = Top.next /\ g.inText = Top.inText /\ g.line = Top.line /\ g.text = Top.text
      /\ g.font = IF HasOperands(2) /\ Operand(2).t = "name"
                  THEN FontNamed(Top.fonts, Operand(2).name) ELSE Top.font
  BY <1>1 DEF FrameFields
<1>7. Top.fonts = s.fonts
  BY DEF Agrees
<1> HIDE DEF g
<1>8. Proceeds(Top, g, doc.objects, s, drawn)
  BY <1>1, <1>2, <1>4, <1>5, <1>6, <1>7 DEF Proceeds, ChangesNothing
<1> QED
  BY <1>0, <1>8

LEMMA BeginTextProceeds ==
    ASSUME StackInv, TypeInv, BeginText, NEW s, NEW drawn, Agrees(Top, doc.objects, s, drawn)
    PROVE  \E g : Continue(g) /\ Proceeds(Top, g, doc.objects, s, drawn)
<1> DEFINE g == [Top EXCEPT !.inText = TRUE, !.line = <<>>]
<1>0. AtToken /\ Token = Op("BT") /\ Continue(g)
  BY DEF BeginText, AtOperator
<1>1. /\ IsReadable(s) /\ Top.next \in 1..Len(s.content)
      /\ DOMAIN Top = FrameFields /\ Token = s.content[Top.next]
  BY <1>0, PlaceFacts
<1>2. Token \notin ShowOperators \cup {Op("ET"), Op("Tf"), Op("Do")}
  BY <1>0, OperatorsDiffer DEF ShowOperators
<1>3. ShownInText(s.content, s.fonts, Top.next) = <<>> /\ ~DrawsAt(doc.objects, s, Top.next)
  BY <1>1, <1>2, ShowsNothing, DrawsNothing
<1>4. StartsLine(s.content, Top.next)
  BY <1>0, <1>1 DEF StartsLine
<1>5. Top.next \notin Breaks(s.content)
  BY <1>1, <1>2, BreaksInside DEF NeedsLine, ShowOperators
<1>6. WithPieces(Top.text, doc.objects, s, drawn, Top.next) = Top.text
  BY <1>3, <1>5 DEF WithPieces
<1>7. ~ChoosesFont(s.content, Top.next)
  BY <1>1, <1>2 DEF ChoosesFont
<1>8. /\ DOMAIN g = FrameFields
      /\ g.content = Top.content /\ g.fonts = Top.fonts /\ g.resources = Top.resources
      /\ g.next = Top.next /\ g.inText = TRUE /\ g.line = <<>> /\ g.text = Top.text
      /\ g.font = Top.font
  BY <1>1 DEF FrameFields
<1> HIDE DEF g
<1>9. Proceeds(Top, g, doc.objects, s, drawn)
  BY <1>0, <1>1, <1>3, <1>4, <1>6, <1>7, <1>8 DEF Proceeds
<1> QED
  BY <1>0, <1>9

\* A frame whose line has been flushed.
LEMMA FlushedFields ==
    ASSUME NEW f, DOMAIN f = FrameFields
    PROVE  /\ DOMAIN Flushed(f) = FrameFields
           /\ Flushed(f).content = f.content /\ Flushed(f).fonts = f.fonts
           /\ Flushed(f).resources = f.resources /\ Flushed(f).next = f.next
           /\ Flushed(f).inText = f.inText /\ Flushed(f).font = f.font
           /\ Flushed(f).line = <<>>
           /\ Flushed(f).text = IF f.line # <<>> THEN Appended(f.text, f.line) ELSE f.text
  BY DEF FrameFields, Flushed

\* What a break makes of the text.
LEMMA BreakFlushes ==
    ASSUME NEW objects, NEW s, IsReadable(s), NEW drawn, NEW f, Agrees(f, objects, s, drawn),
           f.next \in Breaks(s.content), ~DrawsAt(objects, s, f.next)
    PROVE  WithPieces(f.text, objects, s, drawn, f.next) =
           IF f.line # <<>> THEN Appended(f.text, f.line) ELSE f.text
  BY DEF WithPieces, Agrees

LEMMA EndTextProceeds ==
    ASSUME StackInv, TypeInv, EndText, NEW s, NEW drawn, Agrees(Top, doc.objects, s, drawn)
    PROVE  \E g : Continue(g) /\ Proceeds(Top, g, doc.objects, s, drawn)
<1> DEFINE f == Flushed(Top)
           g == [f EXCEPT !.inText = FALSE]
<1>0. AtToken /\ Token = Op("ET") /\ Continue(g)
  BY DEF EndText, AtOperator
<1>1. /\ IsReadable(s) /\ Top.next \in 1..Len(s.content)
      /\ DOMAIN Top = FrameFields /\ Token = s.content[Top.next]
  BY <1>0, PlaceFacts
<1>2. Token \notin ShowOperators \cup {Op("BT"), Op("Tf"), Op("Do")}
  BY <1>0, OperatorsDiffer DEF ShowOperators
<1>3. ShownInText(s.content, s.fonts, Top.next) = <<>> /\ ~DrawsAt(doc.objects, s, Top.next)
  BY <1>1, <1>2, ShowsNothing, DrawsNothing
<1>4. Top.next \in Breaks(s.content)
  BY <1>0, <1>1, BreaksInside
<1>5. StartsLine(s.content, Top.next)
  BY <1>4 DEF StartsLine
<1>6. WithPieces(Top.text, doc.objects, s, drawn, Top.next) = f.text
  BY <1>1, <1>3, <1>4, BreakFlushes, FlushedFields
<1>7. ~ChoosesFont(s.content, Top.next)
  BY <1>1, <1>2 DEF ChoosesFont
<1>8. /\ DOMAIN f = FrameFields
      /\ f.content = Top.content /\ f.fonts = Top.fonts /\ f.resources = Top.resources
      /\ f.next = Top.next /\ f.line = <<>> /\ f.font = Top.font
  BY <1>1, FlushedFields
<1> HIDE DEF f
<1>9. /\ DOMAIN g = FrameFields
      /\ g.content = Top.content /\ g.fonts = Top.fonts /\ g.resources = Top.resources
      /\ g.next = Top.next /\ g.inText = FALSE /\ g.line = <<>> /\ g.text = f.text
      /\ g.font = Top.font
  BY <1>8 DEF FrameFields
<1> HIDE DEF g
<1>10. Proceeds(Top, g, doc.objects, s, drawn)
  BY <1>0, <1>1, <1>2, <1>3, <1>5, <1>6, <1>7, <1>9 DEF Proceeds
<1> QED
  BY <1>0, <1>10

LEMMA ShownFields ==
    ASSUME NEW f, DOMAIN f = FrameFields
    PROVE  /\ DOMAIN WithOperandShown(f) = FrameFields
           /\ WithOperandShown(f).content = f.content /\ WithOperandShown(f).fonts = f.fonts
           /\ WithOperandShown(f).resources = f.resources /\ WithOperandShown(f).next = f.next
           /\ WithOperandShown(f).inText = f.inText /\ WithOperandShown(f).font = f.font
           /\ WithOperandShown(f).text = f.text
           /\ WithOperandShown(f).line =
              IF Operand(1).t = "str" THEN f.line \o DecodeText(Operand(1).bytes, f.font)
              ELSE f.line
  BY DEF FrameFields, WithOperandShown

\* The text that the operand before an operator shows.
ShownOperand == IF Operand(1).t = "str" THEN DecodeText(Operand(1).bytes, Top.font) ELSE <<>>

\* What the operators show that have a string as their operand.
LEMMA StringIsShown ==
    ASSUME StackInv, TypeInv, AtToken, NEW s, NEW drawn, Agrees(Top, doc.objects, s, drawn),
           Token = Op("Tj") \/ NeedsLine(s.content, Top.next)
    PROVE  ShownInText(s.content, s.fonts, Top.next) =
           IF HasOperands(1) /\ Top.inText THEN ShownOperand ELSE <<>>
<1>1. /\ Top.next \in Nat /\ Token = s.content[Top.next]
      /\ Operand(1) = s.content[Top.next - 1]
  BY PlaceFacts
<1>2. Token # Op("TJ")
  BY <1>1, OperatorsDiffer DEF NeedsLine
<1>3. /\ Top.font = FontAt(s.content, s.fonts, Top.next)
      /\ Top.inText <=> IsInText(s.content, Top.next)
  BY DEF Agrees
<1>4. HasOperands(1) <=> ~(Top.next < 2)
  BY <1>1 DEF HasOperands
<1> QED
  BY <1>1, <1>2, <1>3, <1>4 DEF ShownInText, ShownAt, ShownOperand

LEMMA ShownOperandIsText ==
    ASSUME StackInv, TypeInv, AtToken, HasOperands(1)
    PROVE  ShownOperand \in Seq(Nat)
<1>1. Top.font = NoFont \/ IsFont(Top.font)
  BY RunningFrame DEF IsTyped
<1>2. Operand(1).t = "str" => Operand(1).bytes \in Seq(0..255)
  BY OperandIsToken
<1>3. Operand(1).t = "str" => DecodeText(Operand(1).bytes, Top.font) \in Seq(Nat)
  BY <1>1, <1>2, DecodedIsText
<1> QED
  BY <1>3, NothingIsText DEF ShownOperand

LEMMA ShowTextProceeds ==
    ASSUME StackInv, TypeInv, ShowText, NEW s, NEW drawn, Agrees(Top, doc.objects, s, drawn)
    PROVE  \E g : Continue(g) /\ Proceeds(Top, g, doc.objects, s, drawn)
<1> DEFINE shown == WithOperandShown(Top)
           g == IF HasOperands(1) /\ Top.inText THEN shown ELSE Top
<1>0. AtToken /\ Token = Op("Tj") /\ Continue(g)
  BY DEF ShowText, AtOperator
<1>1. /\ IsReadable(s) /\ Top.next \in 1..Len(s.content)
      /\ DOMAIN Top = FrameFields /\ Top.line \in Seq(Nat)
      /\ Token = s.content[Top.next]
  BY <1>0, PlaceFacts
<1>2. Token \notin {Op("BT"), Op("ET"), Op("Tf"), Op("Do"), Op("'"), Op("\"")}
  BY <1>0, OperatorsDiffer
<1>3. ~DrawsAt(doc.objects, s, Top.next)
  BY <1>1, <1>2, DrawsNothing
<1>4. Top.next \notin Breaks(s.content)
  BY <1>1, <1>2, BreaksInside DEF NeedsLine
<1>5. /\ ~StartsLine(s.content, Top.next) /\ ~ChoosesFont(s.content, Top.next)
      /\ WithPieces(Top.text, doc.objects, s, drawn, Top.next) = Top.text
  BY <1>1, <1>2, <1>3, <1>4 DEF StartsLine, ChoosesFont, WithPieces
<1>6. ShownInText(s.content, s.fonts, Top.next) =
      IF HasOperands(1) /\ Top.inText THEN ShownOperand ELSE <<>>
  BY <1>0, StringIsShown
<1>7. Top.line \o <<>> = Top.line
  BY <1>1, ConcatEmptySeq
<1>8. /\ DOMAIN g = FrameFields
      /\ g.content = Top.content /\ g.fonts = Top.fonts /\ g.resources = Top.resources
      /\ g.next = Top.next /\ g.inText = Top.inText /\ g.font = Top.font /\ g.text = Top.text
  BY <1>1, ShownFields
<1>9. g.line = Top.line \o ShownInText(s.content, s.fonts, Top.next)
  <2>1. CASE HasOperands(1) /\ Top.inText
    <3>1. g = shown
      BY <2>1
    <3>2. shown.line = Top.line \o ShownOperand
      BY <1>1, <1>7, ShownFields DEF ShownOperand
    <3> QED
      BY <1>6, <2>1, <3>1, <3>2
  <2>2. CASE ~(HasOperands(1) /\ Top.inText)
    <3>1. g = Top
      BY <2>2
    <3> HIDE DEF g
    <3> QED
      BY <1>6, <1>7, <2>2, <3>1
  <2> QED
    BY <2>1, <2>2
<1> HIDE DEF g
<1>10. Proceeds(Top, g, doc.objects, s, drawn)
  BY <1>1, <1>2, <1>5, <1>8, <1>9 DEF Proceeds
<1> QED
  BY <1>0, <1>10

LEMMA ShowArrayProceeds ==
    ASSUME StackInv, TypeInv, ShowArray, NEW s, NEW drawn, Agrees(Top, doc.objects, s, drawn)
    PROVE  \E g : Continue(g) /\ Proceeds(Top, g, doc.objects, s, drawn)
<1> DEFINE items == ItemsBackwards(Top.content, Top.next - 1)
           text == ArrayText(items, Top.font)
           shown == [Top EXCEPT !.line = @ \o text]
           g == IF WalksArray THEN shown ELSE Top
<1>0. AtToken /\ Token = Op("TJ") /\ Continue(g)
  BY DEF ShowArray, AtOperator
<1>1. /\ IsReadable(s) /\ Top.next \in 1..Len(s.content) /\ Top.next \in Nat
      /\ DOMAIN Top = FrameFields /\ Top.line \in Seq(Nat)
      /\ Token = s.content[Top.next] /\ Operand(1) = s.content[Top.next - 1]
  BY <1>0, PlaceFacts
<1>2. Token \notin {Op("BT"), Op("ET"), Op("Tf"), Op("Do"), Op("'"), Op("\""), Op("Tj")}
  BY <1>0, OperatorsDiffer
<1>3. ~DrawsAt(doc.objects, s, Top.next)
  BY <1>1, <1>2, DrawsNothing
<1>4. Top.next \notin Breaks(s.content) /\ ~NeedsLine(s.content, Top.next)
  BY <1>1, <1>2, BreaksInside DEF NeedsLine
<1>5. /\ ~StartsLine(s.content, Top.next) /\ ~ChoosesFont(s.content, Top.next)
      /\ WithPieces(Top.text, doc.objects, s, drawn, Top.next) = Top.text
  BY <1>1, <1>2, <1>3, <1>4 DEF StartsLine, ChoosesFont, WithPieces
<1>6. /\ Top.font = FontAt(s.content, s.fonts, Top.next) /\ Top.content = s.content
      /\ Top.inText <=> IsInText(s.content, Top.next)
  BY DEF Agrees
<1>7. ShownInText(s.content, s.fonts, Top.next) = IF WalksArray THEN text ELSE <<>>
  <2>1. WalksArray <=> ~(Top.next < 2) /\ IsInText(s.content, Top.next)
                       /\ s.content[Top.next - 1] = ArrayEnd
    BY <1>1, <1>6 DEF WalksArray, HasOperands
  <2>2. ShownInText(s.content, s.fonts, Top.next) =
           IF WalksArray THEN ArrayText(Items(s.content, Top.next - 1), Top.font) ELSE <<>>
    BY <1>0, <1>1, <1>2, <1>4, <1>6, <2>1 DEF ShownInText, ShownAt
  <2>3. WalksArray => items = Items(s.content, Top.next - 1)
    <3>1. WalksArray => Top.next - 1 \in Nat \ {0}
      BY <1>1, <2>1
    <3> QED
      BY <1>6, <3>1, WalkFindsItems
  <2> HIDE DEF items
  <2> QED
    BY <2>2, <2>3
<1> HIDE DEF text
<1>8. Top.line \o <<>> = Top.line
  BY <1>1, ConcatEmptySeq
<1>9. /\ DOMAIN g = FrameFields
      /\ g.content = Top.content /\ g.fonts = Top.fonts /\ g.resources = Top.resources
      /\ g.next = Top.next /\ g.inText = Top.inText /\ g.font = Top.font /\ g.text = Top.text
      /\ g.line = IF WalksArray THEN Top.line \o text ELSE Top.line
  BY <1>1 DEF FrameFields
<1>10. g.line = Top.line \o ShownInText(s.content, s.fonts, Top.next)
  <2> HIDE DEF g
  <2> QED
    BY <1>7, <1>8, <1>9
<1> HIDE DEF g
<1>11. Proceeds(Top, g, doc.objects, s, drawn)
  BY <1>1, <1>2, <1>5, <1>9, <1>10 DEF Proceeds
<1> QED
  BY <1>0, <1>11 DEF text

LEMMA FirstOperand ==
    ASSUME NEW operands \in {1, 3}, Top.next \in Nat
    PROVE  HasOperands(operands) => HasOperands(1)
  BY DEF HasOperands

\* An operator that begins a line of its own breaks the line before when it has its
\* operands and stands in a text object, and does nothing otherwise.
LEMMA ShowOnNextLineProceeds ==
    ASSUME StackInv, TypeInv, NEW operands \in {1, 3}, NEW op,
           op = IF operands = 1 THEN "'" ELSE "\"", ShowOnNextLine(op, operands),
           NEW s, NEW drawn, Agrees(Top, doc.objects, s, drawn)
    PROVE  \E g : Continue(g) /\ Proceeds(Top, g, doc.objects, s, drawn)
<1> DEFINE flushed == Flushed(Top)
           shown == WithOperandShown(flushed)
           g == IF HasOperands(operands) /\ Top.inText THEN shown ELSE Top
<1>0. AtToken /\ Token = Op(op) /\ Continue(g)
  BY DEF ShowOnNextLine, AtOperator
<1>1. /\ IsReadable(s) /\ Top.next \in 1..Len(s.content) /\ Top.next \in Nat
      /\ DOMAIN Top = FrameFields /\ Top.line \in Seq(Nat)
      /\ Token = s.content[Top.next]
  BY <1>0, PlaceFacts
<1>2. Token \notin {Op("BT"), Op("ET"), Op("Tf"), Op("Do"), Op("Tj"), Op("TJ")}
  BY <1>0, OperatorsDiffer
<1>3. ~DrawsAt(doc.objects, s, Top.next)
  BY <1>1, <1>2, DrawsNothing
<1>4. NeedsLine(s.content, Top.next) <=> HasOperands(operands)
  <2>1. Op("'") # Op("\"")
    BY OperatorsDiffer
  <2> QED
    BY <1>0, <1>1, <2>1 DEF NeedsLine, HasOperands
<1>5. Top.inText <=> IsInText(s.content, Top.next)
  BY DEF Agrees
<1>6. Top.next \in Breaks(s.content) <=> HasOperands(operands) /\ Top.inText
  BY <1>1, <1>2, <1>4, <1>5, BreaksInside
<1>7. /\ StartsLine(s.content, Top.next) <=> HasOperands(operands) /\ Top.inText
      /\ ~ChoosesFont(s.content, Top.next)
  BY <1>1, <1>2, <1>6 DEF StartsLine, ChoosesFont
<1>8. HasOperands(operands) => HasOperands(1)
  BY <1>1, FirstOperand
<1>9. CASE HasOperands(operands) /\ Top.inText
  <2>1. HasOperands(1)
    BY <1>9, <1>8
  <2>2. /\ DOMAIN flushed = FrameFields
        /\ flushed.content = Top.content /\ flushed.fonts = Top.fonts
        /\ flushed.resources = Top.resources /\ flushed.next = Top.next
        /\ flushed.inText = Top.inText /\ flushed.font = Top.font /\ flushed.line = <<>>
        /\ flushed.text = IF Top.line # <<>> THEN Appended(Top.text, Top.line) ELSE Top.text
    BY <1>1, FlushedFields
  <2> HIDE DEF flushed
  <2>3. <<>> \o ShownOperand = ShownOperand /\ <<>> \in Seq(Nat)
    <3>1. ShownOperand \in Seq(Nat)
      BY <1>0, <2>1, ShownOperandIsText
    <3>2. \A t \in Seq(Nat) : <<>> \o t = t
      BY ConcatEmptySeq
    <3> QED
      BY <3>1, <3>2, NothingIsText, Zenon
  <2>4. /\ DOMAIN shown = FrameFields
        /\ shown.content = flushed.content /\ shown.fonts = flushed.fonts
        /\ shown.resources = flushed.resources /\ shown.next = flushed.next
        /\ shown.inText = flushed.inText /\ shown.font = flushed.font
        /\ shown.text = flushed.text
        /\ shown.line = ShownOperand
    <3>1. shown.line = IF Operand(1).t = "str"
                       THEN flushed.line \o DecodeText(Operand(1).bytes, flushed.font)
                       ELSE flushed.line
      BY <2>2, ShownFields
    <3>2. shown.line = ShownOperand
      BY <2>2, <2>3, <3>1 DEF ShownOperand
    <3> QED
      BY <2>2, <3>2, ShownFields
  <2>5. ShownInText(s.content, s.fonts, Top.next) = ShownOperand
    BY <1>0, <1>4, <1>9, <2>1, StringIsShown
  <2>6. WithPieces(Top.text, doc.objects, s, drawn, Top.next) = flushed.text
    <3>1. Top.next \in Breaks(s.content)
      BY <1>6, <1>9
    <3>2. WithPieces(Top.text, doc.objects, s, drawn, Top.next) =
             IF Top.line # <<>> THEN Appended(Top.text, Top.line) ELSE Top.text
      BY <1>3, <3>1 DEF WithPieces, Agrees
    <3> QED
      BY <2>2, <3>2
  <2>7. g = shown
    BY <1>9
  <2> HIDE DEF g, shown
  <2>8. Proceeds(Top, g, doc.objects, s, drawn)
    BY <1>1, <1>2, <1>7, <1>9, <2>2, <2>4, <2>5, <2>6, <2>7 DEF Proceeds
  <2> QED
    BY <1>0, <2>8
<1>10. CASE ~(HasOperands(operands) /\ Top.inText)
  <2>1. ShownInText(s.content, s.fonts, Top.next) = <<>>
    <3>1. CASE ~Top.inText
      BY <1>5, <3>1 DEF ShownInText
    <3>2. CASE ~HasOperands(operands)
      BY <1>1, <1>2, <1>4, <3>2 DEF ShownInText, ShownAt
    <3> QED
      BY <1>10, <3>1, <3>2
  <2>2. Top.line \o <<>> = Top.line
    BY <1>1, ConcatEmptySeq
  <2>3. WithPieces(Top.text, doc.objects, s, drawn, Top.next) = Top.text
    BY <1>3, <1>6, <1>10 DEF WithPieces
  <2>4. g = Top
    BY <1>10
  <2> HIDE DEF g
  <2>5. Proceeds(Top, g, doc.objects, s, drawn)
    BY <1>1, <1>2, <1>7, <1>10, <2>1, <2>2, <2>3, <2>4 DEF Proceeds
  <2> QED
    BY <1>0, <2>5
<1> QED
  BY <1>9, <1>10

\* What a Do draws.
LEMMA DrawnIsDrawn ==
    ASSUME StackInv, TypeInv, AtOperator("Do"), NEW s, NEW drawn,
           Agrees(Top, doc.objects, s, drawn)
    PROVE  DrawnAt(doc.objects, s, Top.next) = Drawn
<1>1. AtToken /\ Token = Op("Do")
  BY DEF AtOperator
<1>2. /\ IsReadable(s) /\ Top.next \in 1..Len(s.content) /\ Top.next \in Nat
      /\ Token = s.content[Top.next] /\ Operand(1) = s.content[Top.next - 1]
  BY <1>1, PlaceFacts
<1>3. HasOperands(1) <=> Top.next \in 2..Len(s.content)
  BY <1>2, ContentHasLength DEF HasOperands
<1>4. Top.resources = s.resources
  BY DEF Agrees
<1> QED
  BY <1>1, <1>2, <1>3, <1>4 DEF DrawnAt, Drawn

LEMMA OperatorProceeds ==
    ASSUME StackInv, TypeInv,
           \/ BeginText \/ EndText \/ SetFont \/ PassToken \/ ShowNext \/ DrawNothing,
           NEW s, NEW drawn, Agrees(Top, doc.objects, s, drawn)
    PROVE  AtToken /\ \E g : Continue(g) /\ Proceeds(Top, g, doc.objects, s, drawn)
<1>1. AtToken
  BY DEF BeginText, EndText, SetFont, PassToken, ShowNext, ShowText, ShowArray, NextLine,
         NextLineSpaced, ShowOnNextLine, DrawNothing, AtOperator
<1>2. CASE BeginText \/ EndText \/ SetFont
  BY <1>1, <1>2, BeginTextProceeds, EndTextProceeds, SetFontProceeds
<1>3. CASE ShowText \/ ShowArray
  BY <1>1, <1>3, ShowTextProceeds, ShowArrayProceeds
<1>4. CASE NextLine
  <2> DEFINE operands == 1
             op == "'"
  <2>1. ShowOnNextLine(op, operands)
    BY <1>4 DEF NextLine
  <2>2. operands \in {1, 3} /\ op = IF operands = 1 THEN "'" ELSE "\""
    OBVIOUS
  <2> HIDE DEF op, operands
  <2> QED
    BY <1>1, <2>1, <2>2, ShowOnNextLineProceeds
<1>5. CASE NextLineSpaced
  <2> DEFINE operands == 3
             op == "\""
  <2>1. ShowOnNextLine(op, operands)
    BY <1>5 DEF NextLineSpaced
  <2>2. operands \in {1, 3} /\ op = IF operands = 1 THEN "'" ELSE "\""
    OBVIOUS
  <2> HIDE DEF op, operands
  <2> QED
    BY <1>1, <2>1, <2>2, ShowOnNextLineProceeds
<1>6. CASE DrawNothing
  <2>1. AtOperator("Do") /\ ~IsDrawable(Drawn) /\ Continue(Top)
    BY <1>6 DEF DrawNothing
  <2>2. ~DrawsAt(doc.objects, s, Top.next)
    BY <2>1, DrawnIsDrawn DEF DrawsAt
  <2>3. Token \notin ShowOperators \cup {Op("BT"), Op("ET"), Op("Tf")}
    BY <2>1, OperatorsDiffer DEF AtOperator, ShowOperators
  <2> QED
    BY <1>1, <2>1, <2>2, <2>3, StayingProceeds
<1>7. CASE PassToken
  <2>1. /\ Continue(Top)
        /\ ~(Token.t = "op" /\ Token.op \in {"BT", "ET", "Tf", "Tj", "TJ", "'", "\"", "Do"})
    BY <1>7 DEF PassToken
  <2>2. \A op : Op(op).t = "op" /\ Op(op).op = op
    BY DEF Op
  <2>3. Token \notin ShowOperators \cup {Op("BT"), Op("ET"), Op("Tf"), Op("Do")}
    BY <2>1, <2>2 DEF ShowOperators
  <2>4. ~DrawsAt(doc.objects, s, Top.next)
    BY <1>1, <2>3, PlaceFacts, DrawsNothing
  <2> QED
    BY <1>1, <2>1, <2>3, <2>4, StayingProceeds
<1> QED
  BY <1>2, <1>3, <1>4, <1>5, <1>6, <1>7 DEF ShowNext

-----------------------------------------------------------------------------
(***************************************************************************)
(* The stack follows a path                                                *)
(***************************************************************************)

DrawnTexts(objects, page, path) == DrawnAlong(TextsAlong(objects, page), path)

AgreesAlong(f, objects, page, path) ==
    Agrees(f, objects, StreamAlong(objects, page, path), DrawnTexts(objects, page, path))

\* Each activation agrees with the stream that its path leads to, and all but the last
\* wait at the place that the path of the next one goes on with.
IsFollowed(paths, objects, page, s) ==
    /\ paths \in [1..Len(s) -> Paths]
    /\ \A k \in 1..Len(s) :
          Len(paths[k]) = k - 1 /\ AgreesAlong(s[k], objects, page, paths[k])
    /\ \A k \in 1..(Len(s) - 1) :
          /\ paths[k + 1] = Append(paths[k], s[k].next)
          /\ DrawsAt(objects, StreamAlong(objects, page, paths[k]), s[k].next)

LEMMA DrawnTextsAreTexts ==
    ASSUME NEW objects, NEW page, MayBeRead(objects, page), NEW path \in Paths
    PROVE  DrawnTexts(objects, page, path) \in [Nat -> Texts]
<1>1. TextsAlong(objects, page) \in [Paths -> Texts]
  BY TextsAreTexts
<1>2. \A p \in Nat : Append(path, p) \in Paths
  BY AppendProperties DEF Paths
<1> QED
  BY <1>1, <1>2 DEF DrawnTexts, DrawnAlong

LEMMA FollowedGoesOn ==
    ASSUME NEW objects, NEW page, NEW s, NEW t, NEW paths, IsFollowed(paths, objects, page, s),
           NEW n \in Nat \ {0}, Len(s) = n, Len(t) = n,
           \A k \in 1..(n - 1) : t[k] = s[k],
           AgreesAlong(t[n], objects, page, paths[n])
    PROVE  IsFollowed(paths, objects, page, t)
<1>1. ASSUME NEW k \in 1..n
      PROVE  Len(paths[k]) = k - 1 /\ AgreesAlong(t[k], objects, page, paths[k])
  <2>1. Len(paths[k]) = k - 1 /\ AgreesAlong(s[k], objects, page, paths[k])
    BY DEF IsFollowed
  <2>2. k = n \/ k \in 1..(n - 1)
    OBVIOUS
  <2> QED
    BY <2>1, <2>2
<1>2. ASSUME NEW k \in 1..(n - 1)
      PROVE  /\ paths[k + 1] = Append(paths[k], t[k].next)
             /\ DrawsAt(objects, StreamAlong(objects, page, paths[k]), t[k].next)
  BY DEF IsFollowed
<1>3. paths \in [1..n -> Paths]
  BY DEF IsFollowed
<1> QED
  BY <1>1, <1>2, <1>3 DEF IsFollowed

LEMMA FollowedGrows ==
    ASSUME NEW objects, NEW page, NEW s, NEW t, NEW paths, IsFollowed(paths, objects, page, s),
           NEW n \in Nat \ {0}, Len(s) = n, Len(t) = n + 1,
           \A k \in 1..n : t[k] = s[k], s[n].next \in Nat,
           DrawsAt(objects, StreamAlong(objects, page, paths[n]), s[n].next),
           AgreesAlong(t[n + 1], objects, page, Append(paths[n], s[n].next))
    PROVE  \E more : IsFollowed(more, objects, page, t)
<1> DEFINE new == Append(paths[n], s[n].next)
           more == [k \in 1..(n + 1) |-> IF k = n + 1 THEN new ELSE paths[k]]
<1>1. n \in 1..n /\ paths \in [1..n -> Paths] /\ paths[n] \in Paths /\ Len(paths[n]) = n - 1
  <2>1. n \in 1..n
    OBVIOUS
  <2> QED
    BY <2>1 DEF IsFollowed
<1>2. new \in Paths /\ Len(new) = n
  <2>1. Append(paths[n], s[n].next) \in Seq(Nat)
        /\ Len(Append(paths[n], s[n].next)) = Len(paths[n]) + 1
    BY <1>1, AppendProperties DEF Paths
  <2> QED
    BY <1>1, <2>1 DEF Paths
<1>3. \A k \in 1..n : more[k] = paths[k]
  OBVIOUS
<1>4. more[n + 1] = new
  OBVIOUS
<1>5. more \in [1..(n + 1) -> Paths]
  <2> HIDE DEF new
  <2> QED
    BY <1>1, <1>2
<1> HIDE DEF more
<1>6. ASSUME NEW k \in 1..(n + 1)
      PROVE  Len(more[k]) = k - 1 /\ AgreesAlong(t[k], objects, page, more[k])
  <2>1. CASE k = n + 1
    <3>1. k - 1 = n /\ more[k] = new /\ t[k] = t[n + 1]
      BY <1>4, <2>1
    <3>2. AgreesAlong(t[n + 1], objects, page, new)
      OBVIOUS
    <3> HIDE DEF new
    <3> QED
      BY <1>2, <3>1, <3>2
  <2>2. CASE k # n + 1
    <3>1. k \in 1..n
      BY <2>2
    <3>2. Len(paths[k]) = k - 1 /\ AgreesAlong(s[k], objects, page, paths[k])
      BY <3>1 DEF IsFollowed
    <3> QED
      BY <1>3, <3>1, <3>2
  <2> QED
    BY <2>1, <2>2
<1>7. ASSUME NEW k \in 1..n
      PROVE  /\ more[k + 1] = Append(more[k], t[k].next)
             /\ DrawsAt(objects, StreamAlong(objects, page, more[k]), t[k].next)
  <2>1. CASE k = n
    BY <1>1, <1>3, <1>4, <2>1
  <2>2. CASE k # n
    <3>1. k \in 1..(n - 1) /\ k + 1 \in 1..n
      BY <2>2
    <3>2. /\ paths[k + 1] = Append(paths[k], s[k].next)
          /\ DrawsAt(objects, StreamAlong(objects, page, paths[k]), s[k].next)
      BY <3>1 DEF IsFollowed
    <3> QED
      BY <1>3, <3>1, <3>2
  <2> QED
    BY <2>1, <2>2
<1>8. (n + 1) - 1 = n
  OBVIOUS
<1>9. IsFollowed(more, objects, page, t)
  BY <1>5, <1>6, <1>7, <1>8 DEF IsFollowed
<1> QED
  BY <1>9

LEMMA FollowedShrinks ==
    ASSUME NEW objects, NEW page, NEW s, NEW t, NEW paths, IsFollowed(paths, objects, page, s),
           NEW n \in Nat \ {0}, Len(s) = n + 1, Len(t) = n,
           \A k \in 1..(n - 1) : t[k] = s[k],
           AgreesAlong(t[n], objects, page, paths[n])
    PROVE  \E fewer : IsFollowed(fewer, objects, page, t)
<1> DEFINE fewer == [k \in 1..n |-> paths[k]]
<1>1. \A k \in 1..n : fewer[k] = paths[k] /\ k \in 1..(n + 1)
  OBVIOUS
<1>2. fewer \in [1..n -> Paths]
  BY <1>1 DEF IsFollowed
<1> HIDE DEF fewer
<1>3. ASSUME NEW k \in 1..n
      PROVE  Len(fewer[k]) = k - 1 /\ AgreesAlong(t[k], objects, page, fewer[k])
  <2>1. Len(paths[k]) = k - 1 /\ AgreesAlong(s[k], objects, page, paths[k])
    BY <1>1 DEF IsFollowed
  <2>2. k = n \/ k \in 1..(n - 1)
    OBVIOUS
  <2> QED
    BY <1>1, <2>1, <2>2
<1>4. ASSUME NEW k \in 1..(n - 1)
      PROVE  /\ fewer[k + 1] = Append(fewer[k], t[k].next)
             /\ DrawsAt(objects, StreamAlong(objects, page, fewer[k]), t[k].next)
  <2>1. k \in 1..n /\ k + 1 \in 1..n /\ k \in 1..((n + 1) - 1)
    OBVIOUS
  <2>2. /\ paths[k + 1] = Append(paths[k], s[k].next)
        /\ DrawsAt(objects, StreamAlong(objects, page, paths[k]), s[k].next)
    BY <2>1 DEF IsFollowed
  <2> QED
    BY <1>1, <2>1, <2>2
<1>5. IsFollowed(fewer, objects, page, t)
  BY <1>2, <1>3, <1>4 DEF IsFollowed
<1> QED
  BY <1>5

\* The text of a stream is one that is drawn where a path goes on with it.
LEMMA TextOfStream ==
    ASSUME NEW objects, NEW page, MayBeRead(objects, page),
           NEW path \in Paths, Len(path) < MaxDepth,
           NEW f, DOMAIN f = FrameFields, AgreesAlong(f, objects, page, path),
           f.next = Len(f.content) + 1
    PROVE  Flushed(f).text = TextsAlong(objects, page)[path]
<1> DEFINE s == StreamAlong(objects, page, path)
           drawn == DrawnTexts(objects, page, path)
<1>1. IsReadable(s) /\ drawn \in [Nat -> Texts]
  BY StreamIsReadable, DrawnTextsAreTexts DEF MayBeRead, Paths
<1>2. Agrees(f, objects, s, drawn)
  BY DEF AgreesAlong
<1>3. f.next = Len(s.content) + 1
  BY <1>2 DEF Agrees
<1>4. TextsAlong(objects, page)[path] = TextFrom(objects, page, TextsAlong(objects, page), path)
  BY TextsAreTexts
<1>5. ~(Len(path) >= MaxDepth)
  BY LenProperties, DepthAssumption DEF Paths
<1>6. TextsAlong(objects, page)[path] = TextBefore(objects, s, drawn, Len(s.content) + 2)
  BY <1>4, <1>5 DEF TextFrom, DrawnTexts
<1> HIDE DEF s, drawn
<1>7. Flushed(f).text = TextBefore(objects, s, drawn, Len(s.content) + 2)
  BY <1>1, <1>2, <1>3, FinishedAgrees
<1> QED
  BY <1>6, <1>7

-----------------------------------------------------------------------------
(***************************************************************************)
(* Every step agrees with the declarative text                             *)
(***************************************************************************)

\* The activations agree with the page that they read, and the pages before it have their
\* text.
TextInv ==
    /\ \A k \in 1..Len(results) : results[k] = TextOfPage(doc.objects, doc.pages[k])
    /\ stack # <<>> => \E paths : IsFollowed(paths, doc.objects, NextPage, stack)

LEMMA PagesMayBeRead ==
    ASSUME TypeInv
    PROVE  \A k \in 1..Len(doc.pages) : MayBeRead(doc.objects, doc.pages[k])
<1>1. FormsAreReadable(doc.objects)
  BY DocumentsAssumption DEF TypeInv, FormsAreReadable
<1>2. ASSUME NEW k \in 1..Len(doc.pages) PROVE IsReadable(FromPage(doc.pages[k]))
  <2>1. IsContent(PageTokens(doc.pages[k])) /\ HasFonts(doc.pages[k].fonts)
    BY PageFacts
  <2> QED
    BY <2>1 DEF IsReadable, FromPage, Context
<1> QED
  BY <1>1, <1>2 DEF MayBeRead

LEMMA NextPageMayBeRead ==
    ASSUME TypeInv, Len(results) < Len(doc.pages)
    PROVE  MayBeRead(doc.objects, NextPage)
<1>1. Len(results) + 1 \in 1..Len(doc.pages)
  BY PageFacts
<1> QED
  BY <1>1, PagesMayBeRead DEF NextPage

\* The text of the next page, found by its last activation or by none.
LEMMA NextTextIsRight ==
    ASSUME TypeInv, TextInv, Len(results) < Len(doc.pages), stack' = <<>>, doc' = doc,
           results' = Append(results, TextOfPage(doc.objects, NextPage))
    PROVE  TextInv'
<1> DEFINE text == TextOfPage(doc.objects, NextPage)
<1>1. PICK n \in Nat : n = Len(results)
  BY PageFacts
<1>2. results \in Seq(Seq(Nat) \cup {text})
  BY SeqMonotonic DEF TypeInv
<1>3. text \in Seq(Nat) \cup {text}
  OBVIOUS
<1>4. results' = Append(results, text) /\ text = TextOfPage(doc.objects, doc.pages[n + 1])
  BY <1>1 DEF NextPage
<1> HIDE DEF text
<1>5. /\ Len(results') = n + 1 /\ results'[n + 1] = text
      /\ \A k \in 1..n : results'[k] = results[k]
  BY <1>1, <1>2, <1>3, <1>4, AppendProperties
<1>6. ASSUME NEW k \in 1..(n + 1)
      PROVE  results'[k] = TextOfPage(doc.objects, doc.pages[k])
  <2>1. CASE k = n + 1
    BY <1>4, <1>5, <2>1
  <2>2. CASE k # n + 1
    <3>1. k \in 1..n
      BY <2>2
    <3> QED
      BY <1>1, <1>5, <3>1 DEF TextInv
  <2> QED
    BY <2>1, <2>2
<1> QED
  BY <1>5, <1>6 DEF TextInv

\* An activation that is alone, at the beginning of its page.
LEMMA PageAgrees ==
    ASSUME NEW objects, NEW page
    PROVE  AgreesAlong(Frame(PageTokens(page), page.fonts, page.resources), objects, page, <<>>)
<1> DEFINE s == FromPage(page)
<1>1. StreamAlong(objects, page, <<>>) = s
  BY PathBegins
<1>2. /\ s.content = PageTokens(page) /\ s.fonts = page.fonts /\ s.resources = page.resources
  BY DEF FromPage, Context
<1> HIDE DEF s
<1> DEFINE drawn == DrawnTexts(objects, page, <<>>)
<1> HIDE DEF drawn
<1>3. Agrees(Frame(s.content, s.fonts, s.resources), objects, s, drawn)
  BY NewFrameAgrees
<1> QED
  BY <1>1, <1>2, <1>3 DEF AgreesAlong, drawn

LEMMA NoPath == <<>> \in Paths /\ Len(<<>>) = 0 /\ Len(<<>>) < MaxDepth
<1>1. Len(<<>>) = 0
  OBVIOUS
<1> QED
  BY <1>1, DepthAssumption DEF Paths

LEMMA SkipEmptyPageAgrees ==
    ASSUME TypeInv, TextInv, SkipEmptyPage
    PROVE  TextInv'
<1>1. /\ Len(results) < Len(doc.pages) /\ PageTokens(NextPage) = <<>> /\ stack = <<>>
      /\ results' = Append(results, <<>>) /\ doc' = doc /\ stack' = stack
  BY DEF SkipEmptyPage, BetweenPages
<1>2. MayBeRead(doc.objects, NextPage)
  BY <1>1, NextPageMayBeRead
<1> DEFINE f == Frame(PageTokens(NextPage), NextPage.fonts, NextPage.resources)
<1>3. AgreesAlong(f, doc.objects, NextPage, <<>>)
  BY PageAgrees
<1>4. /\ DOMAIN f = FrameFields /\ f.content = <<>> /\ f.next = 1 /\ f.line = <<>>
      /\ f.text = <<>>
  BY <1>1 DEF Frame, FrameFields
<1> HIDE DEF f
<1>5. f.next = Len(f.content) + 1
  BY <1>4, NoPath
<1>6. Flushed(f).text = <<>>
  BY <1>4 DEF Flushed
<1>7. <<>> = TextOfPage(doc.objects, NextPage)
  BY <1>2, <1>3, <1>4, <1>5, <1>6, NoPath, TextOfStream DEF TextOfPage
<1> QED
  BY <1>1, <1>7, NextTextIsRight

LEMMA OpenPageAgrees ==
    ASSUME TypeInv, TextInv, OpenPage
    PROVE  TextInv'
<1> DEFINE f == Frame(PageTokens(NextPage), NextPage.fonts, NextPage.resources)
           paths == [k \in 1..1 |-> <<>>]
<1>1. stack' = <<f>> /\ doc' = doc /\ results' = results
  BY DEF OpenPage
<1>2. AgreesAlong(f, doc.objects, NextPage, <<>>)
  BY PageAgrees
<1> HIDE DEF f
<1>3. Len(<<f>>) = 1 /\ <<f>>[1] = f
  OBVIOUS
<1>4. paths \in [1..1 -> Paths] /\ paths[1] = <<>>
  BY NoPath
<1> HIDE DEF paths
<1>5. IsFollowed(paths, doc.objects, NextPage, <<f>>)
  <2>1. \A k \in 1..1 : Len(paths[k]) = k - 1 /\ AgreesAlong(<<f>>[k], doc.objects, NextPage, paths[k])
    BY <1>2, <1>3, <1>4, NoPath
  <2>2. 1..(1 - 1) = {}
    OBVIOUS
  <2> QED
    BY <1>3, <1>4, <2>1, <2>2 DEF IsFollowed
<1> QED
  BY <1>1, <1>5 DEF TextInv, NextPage

\* What is known of the last activation.
LEMMA TopIsFollowed ==
    ASSUME StackInv, TypeInv, stack # <<>>,
           NEW paths, IsFollowed(paths, doc.objects, NextPage, stack)
    PROVE  /\ Len(stack) \in Nat \ {0} /\ Len(stack) \in 1..Len(stack)
           /\ MayBeRead(doc.objects, NextPage)
           /\ paths[Len(stack)] \in Paths /\ Len(paths[Len(stack)]) = Len(stack) - 1
           /\ AgreesAlong(Top, doc.objects, NextPage, paths[Len(stack)])
           /\ IsReadable(StreamAlong(doc.objects, NextPage, paths[Len(stack)]))
           /\ DrawnTexts(doc.objects, NextPage, paths[Len(stack)]) \in [Nat -> Texts]
<1>1. Len(stack) \in Nat \ {0} /\ Len(stack) \in 1..Len(stack)
  BY StackFacts
<1>2. MayBeRead(doc.objects, NextPage)
  BY NextPageMayBeRead DEF TypeInv
<1>3. paths[Len(stack)] \in Paths /\ Len(paths[Len(stack)]) = Len(stack) - 1
      /\ AgreesAlong(Top, doc.objects, NextPage, paths[Len(stack)])
  BY <1>1 DEF IsFollowed, Top
<1>4. IsReadable(StreamAlong(doc.objects, NextPage, paths[Len(stack)]))
      /\ DrawnTexts(doc.objects, NextPage, paths[Len(stack)]) \in [Nat -> Texts]
  BY <1>2, <1>3, StreamIsReadable, DrawnTextsAreTexts DEF MayBeRead, Paths
<1> QED
  BY <1>1, <1>2, <1>3, <1>4

LEMMA OperatorAgrees ==
    ASSUME StackInv, TypeInv, TextInv,
           \/ BeginText \/ EndText \/ SetFont \/ PassToken \/ ShowNext \/ DrawNothing
    PROVE  TextInv'
<1>1. AtToken
  BY DEF BeginText, EndText, SetFont, PassToken, ShowNext, ShowText, ShowArray, NextLine,
         NextLineSpaced, ShowOnNextLine, DrawNothing, AtOperator
<1>2. stack # <<>>
  BY <1>1 DEF AtToken
<1>3. PICK paths : IsFollowed(paths, doc.objects, NextPage, stack)
  BY <1>2 DEF TextInv
<1>4. PICK n \in Nat \ {0} : n = Len(stack)
  BY <1>2, <1>3, TopIsFollowed
<1> DEFINE s == StreamAlong(doc.objects, NextPage, paths[n])
           drawn == DrawnTexts(doc.objects, NextPage, paths[n])
<1>5. /\ n \in 1..n /\ Agrees(Top, doc.objects, s, drawn)
      /\ IsReadable(s) /\ drawn \in [Nat -> Texts]
  BY <1>2, <1>3, <1>4, TopIsFollowed DEF AgreesAlong
<1>6. PICK g : Continue(g) /\ Proceeds(Top, g, doc.objects, s, drawn)
  <2> HIDE DEF s, drawn
  <2> QED
    BY <1>5, OperatorProceeds
<1> DEFINE moved == [g EXCEPT !.next = @ + 1]
           S == Activations \cup {moved}
<1>7. Agrees(moved, doc.objects, s, drawn)
  <2> HIDE DEF s, drawn
  <2>1. Top.next \in 1..Len(s.content)
    BY <1>1, <1>5, PlaceFacts
  <2> QED
    BY <1>5, <1>6, <2>1, ProceedingAgrees
<1>8. /\ stack' = [stack EXCEPT ![n] = moved]
      /\ doc' = doc /\ results' = results
  BY <1>4, <1>6 DEF Continue
<1>9. stack \in Seq(S) /\ moved \in S
  BY SeqMonotonic DEF StackInv
<1> HIDE DEF S, moved
<1>10. /\ Len(stack') = n
       /\ \A k \in 1..n : stack'[k] = IF k = n THEN moved ELSE stack[k]
  BY <1>4, <1>5, <1>8, <1>9, ExceptSeq
<1>11. AgreesAlong(stack'[n], doc.objects, NextPage, paths[n])
  BY <1>5, <1>7, <1>10 DEF AgreesAlong
<1>12. \A k \in 1..(n - 1) : stack'[k] = stack[k]
  BY <1>10
<1>13. IsFollowed(paths, doc.objects, NextPage, stack')
  <2> HIDE DEF s, drawn
  <2> QED
    BY <1>3, <1>4, <1>10, <1>11, <1>12, FollowedGoesOn
<1> QED
  BY <1>8, <1>13 DEF TextInv, NextPage

LEMMA DrawFormAgrees ==
    ASSUME StackInv, TypeInv, TextInv, DrawForm
    PROVE  TextInv'
<1> DEFINE resources == ResourcesOf(doc.objects, Drawn)
           fonts == FontsWithin(doc.objects, resources, Top.fonts)
           f == Frame(Drawn.data, fonts, resources)
           T == Activations \cup {f}
<1>1. /\ AtOperator("Do") /\ AtToken /\ stack # <<>> /\ IsDrawable(Drawn)
      /\ stack' = Append(stack, f) /\ doc' = doc /\ results' = results
  BY DEF DrawForm, AtOperator, AtToken
<1>2. PICK paths : IsFollowed(paths, doc.objects, NextPage, stack)
  BY <1>1 DEF TextInv
<1>3. PICK n \in Nat \ {0} : n = Len(stack)
  BY <1>1, <1>2, TopIsFollowed
<1> DEFINE s == StreamAlong(doc.objects, NextPage, paths[n])
           drawn == DrawnTexts(doc.objects, NextPage, paths[n])
<1>4. n \in 1..n /\ Agrees(Top, doc.objects, s, drawn) /\ paths[n] \in Paths
  BY <1>1, <1>2, <1>3, TopIsFollowed DEF AgreesAlong
<1>5. DrawnAt(doc.objects, s, Top.next) = Drawn /\ Top.next \in Nat
  <2> HIDE DEF s, drawn
  <2> QED
    BY <1>1, <1>4, DrawnIsDrawn, PlaceFacts
<1>6. DrawsAt(doc.objects, s, Top.next) /\ Top.fonts = s.fonts
  BY <1>1, <1>4, <1>5 DEF DrawsAt, Agrees
<1> DEFINE path == Append(paths[n], Top.next)
           within == Within(doc.objects, s, Top.next)
<1>7. StreamAlong(doc.objects, NextPage, path) = within
  BY <1>4, <1>5, PathGoesOn DEF Paths
<1>8. within.content = Drawn.data /\ within.fonts = fonts /\ within.resources = resources
  <2>1. within = Context(Drawn.data, fonts, resources)
    BY <1>5, <1>6 DEF Within
  <2> QED
    BY <2>1 DEF Context
<1>9. AgreesAlong(f, doc.objects, NextPage, path)
  <2> DEFINE texts == DrawnTexts(doc.objects, NextPage, path)
  <2> HIDE DEF within, texts, path, s, resources, fonts
  <2>1. Agrees(Frame(within.content, within.fonts, within.resources), doc.objects, within, texts)
    BY NewFrameAgrees
  <2> QED
    BY <1>7, <1>8, <2>1 DEF AgreesAlong, texts
<1>10. stack \in Seq(T) /\ f \in T
  BY SeqMonotonic DEF StackInv
<1> HIDE DEF T, f
<1>11. /\ Len(stack') = n + 1 /\ stack'[n + 1] = f
       /\ \A k \in 1..n : stack'[k] = stack[k]
  BY <1>1, <1>3, <1>10, AppendProperties
<1>12. \E more : IsFollowed(more, doc.objects, NextPage, stack')
  <2>1. Top = stack[n]
    BY <1>3 DEF Top
  <2> HIDE DEF within
  <2>2. /\ stack[n].next \in Nat
        /\ DrawsAt(doc.objects, StreamAlong(doc.objects, NextPage, paths[n]), stack[n].next)
        /\ AgreesAlong(stack'[n + 1], doc.objects, NextPage, Append(paths[n], stack[n].next))
    BY <1>5, <1>6, <1>9, <1>11, <2>1
  <2> QED
    BY <1>2, <1>3, <1>11, <2>2, FollowedGrows
<1> QED
  BY <1>1, <1>12 DEF TextInv, NextPage

\* A caller that goes on with the text of what it has drawn.
LEMMA DrawingProceeds ==
    ASSUME NEW objects, NEW s, IsReadable(s), NEW drawn, NEW f, DOMAIN f = FrameFields,
           f.line \in Seq(Nat), f.inText \in BOOLEAN,
           f.next \in 1..Len(s.content), DrawsAt(objects, s, f.next),
           NEW text, text = drawn[f.next]
    PROVE  Proceeds(f, [f EXCEPT !.text = Appended(@, text)], objects, s, drawn)
<1> DEFINE g == [f EXCEPT !.text = Appended(@, text)]
           c == s.content
<1>1. c[f.next] = Op("Do")
  BY DrawsNothing
<1>2. c[f.next] \notin ShowOperators \cup {Op("BT"), Op("ET"), Op("Tf")}
  BY <1>1, OperatorsDiffer DEF ShowOperators
<1>3. ShownInText(c, s.fonts, f.next) = <<>>
  BY <1>2, ShowsNothing
<1>4. f.next \notin Breaks(c)
  BY <1>2, BreaksInside DEF NeedsLine, ShowOperators
<1>5. ~StartsLine(c, f.next) /\ ~ChoosesFont(c, f.next)
  BY <1>2, <1>4 DEF StartsLine, ChoosesFont
<1>6. f.line \o <<>> = f.line
  BY ConcatEmptySeq
<1>7. WithPieces(f.text, objects, s, drawn, f.next) = Appended(f.text, text)
  BY DEF WithPieces
<1>8. /\ DOMAIN g = FrameFields
      /\ g.content = f.content /\ g.fonts = f.fonts /\ g.resources = f.resources
      /\ g.next = f.next /\ g.inText = f.inText /\ g.font = f.font /\ g.line = f.line
      /\ g.text = Appended(f.text, text)
  BY DEF FrameFields
<1> HIDE DEF g
<1>9. Proceeds(f, g, objects, s, drawn)
  BY <1>2, <1>3, <1>5, <1>6, <1>7, <1>8 DEF Proceeds
<1> QED
  BY <1>9 DEF g

LEMMA ReturnFormAgrees ==
    ASSUME StackInv, TypeInv, TextInv, ReturnForm
    PROVE  TextInv'
<1> DEFINE n == Len(stack) - 1
           moved == [stack[n] EXCEPT !.text = Appended(@, FullText), !.next = @ + 1]
<1>1. /\ Len(stack) \in Nat /\ n \in 1..Len(stack) /\ n < Len(stack)
      /\ stack' \in Seq(Activations \cup {moved})
      /\ Len(stack') = n
      /\ \A k \in 1..n : stack'[k] = IF k = n THEN moved ELSE stack[k]
  BY ReturnedStack
<1>2. doc' = doc /\ results' = results /\ stack # <<>> /\ Top.next > Len(Top.content)
  BY DEF ReturnForm, AtEnd
<1> HIDE DEF moved
<1>3. PICK paths : IsFollowed(paths, doc.objects, NextPage, stack)
  BY <1>2 DEF TextInv
<1>4. PICK m \in Nat \ {0} : m = n /\ Len(stack) = m + 1 /\ m \in 1..((m + 1) - 1)
                              /\ m \in 1..Len(stack)
  BY <1>1
<1> HIDE DEF n
<1> DEFINE caller == stack[m]
           s == StreamAlong(doc.objects, NextPage, paths[m])
           drawn == DrawnTexts(doc.objects, NextPage, paths[m])
           path == paths[m + 1]
<1>5. /\ MayBeRead(doc.objects, NextPage)
      /\ path \in Paths /\ Len(path) = m /\ AgreesAlong(Top, doc.objects, NextPage, path)
  <2>1. (m + 1) - 1 = m
    OBVIOUS
  <2> QED
    BY <1>2, <1>3, <1>4, <2>1, TopIsFollowed
<1>6. FrameInv(Top) /\ IsTyped(Top) /\ FrameInv(caller) /\ IsTyped(caller)
      /\ caller.next <= Len(caller.content)
  BY <1>2, <1>4, StackFacts DEF StackInv, TypeInv, Top
<1>7. DOMAIN Top = FrameFields /\ Top.next = Len(Top.content) + 1 /\ Len(path) < MaxDepth
  <2>1. Len(Top.content) \in Nat /\ Top.next \in Nat /\ Top.next <= Len(Top.content) + 1
    BY <1>6, ContentFacts DEF FrameInv, IsTyped
  <2>2. Top.next = Len(Top.content) + 1
    BY <1>2, <2>1
  <2>3. m + 1 <= MaxDepth
    BY <1>4 DEF StackInv
  <2> QED
    BY <1>5, <1>6, <2>2, <2>3, DepthAssumption DEF FrameInv
<1>8. FullText = TextsAlong(doc.objects, NextPage)[path]
  <2> HIDE DEF path
  <2> QED
    BY <1>5, <1>7, TextOfStream DEF FullText
<1>9. /\ path = Append(paths[m], caller.next) /\ DrawsAt(doc.objects, s, caller.next)
      /\ paths[m] \in Paths /\ AgreesAlong(caller, doc.objects, NextPage, paths[m])
  BY <1>3, <1>4 DEF IsFollowed
<1>10. /\ IsReadable(s) /\ drawn \in [Nat -> Texts]
       /\ Agrees(caller, doc.objects, s, drawn)
  BY <1>5, <1>9, StreamIsReadable, DrawnTextsAreTexts DEF MayBeRead, Paths, AgreesAlong
<1>11. /\ DOMAIN caller = FrameFields /\ caller.line \in Seq(Nat) /\ caller.inText \in BOOLEAN
       /\ caller.next \in 1..Len(s.content) /\ caller.next \in Nat
  <2>1. s.content = caller.content
    BY <1>10 DEF Agrees
  <2>2. Len(caller.content) \in Nat
    BY <1>6, ContentFacts DEF IsTyped
  <2> HIDE DEF s, caller
  <2> QED
    BY <1>6, <2>1, <2>2 DEF FrameInv, IsTyped
<1>12. FullText = drawn[caller.next]
  BY <1>8, <1>9, <1>11 DEF DrawnTexts, DrawnAlong
<1> DEFINE g == [caller EXCEPT !.text = Appended(@, FullText)]
<1> HIDE DEF s, drawn, path
<1>13. Proceeds(caller, g, doc.objects, s, drawn)
  <2> HIDE DEF caller
  <2> QED
    BY <1>9, <1>10, <1>11, <1>12, DrawingProceeds
<1>14. moved = [g EXCEPT !.next = @ + 1]
  BY <1>4, <1>11 DEF moved, FrameFields
<1> HIDE DEF g
<1>15. Agrees(moved, doc.objects, s, drawn)
  <2> HIDE DEF caller
  <2> QED
    BY <1>10, <1>11, <1>13, <1>14, ProceedingAgrees
<1>16. /\ Len(stack') = m /\ AgreesAlong(stack'[m], doc.objects, NextPage, paths[m])
       /\ \A k \in 1..(m - 1) : stack'[k] = stack[k]
  BY <1>1, <1>4, <1>15 DEF AgreesAlong, s, drawn
<1>17. \E fewer : IsFollowed(fewer, doc.objects, NextPage, stack')
  BY <1>3, <1>4, <1>16, FollowedShrinks
<1> QED
  BY <1>2, <1>17 DEF TextInv, NextPage

LEMMA FinishPageAgrees ==
    ASSUME StackInv, TypeInv, TextInv, FinishPage
    PROVE  TextInv'
<1>1. /\ stack # <<>> /\ Len(stack) = 1 /\ Top.next > Len(Top.content)
      /\ results' = Append(results, FullText) /\ stack' = <<>> /\ doc' = doc
  BY DEF FinishPage, AtEnd
<1>2. Len(results) < Len(doc.pages)
  BY <1>1 DEF TypeInv
<1>3. PICK paths : IsFollowed(paths, doc.objects, NextPage, stack)
  BY <1>1 DEF TextInv
<1>4. /\ MayBeRead(doc.objects, NextPage)
      /\ paths[1] \in Paths /\ Len(paths[1]) = 1 - 1
      /\ AgreesAlong(Top, doc.objects, NextPage, paths[1])
  BY <1>1, <1>3, TopIsFollowed
<1>5. paths[1] = <<>>
  BY <1>4, EmptySeq DEF Paths
<1>6. FrameInv(Top) /\ IsTyped(Top)
  BY <1>1, StackFacts DEF TypeInv, Top
<1>7. DOMAIN Top = FrameFields /\ Top.next = Len(Top.content) + 1
  <2>1. Len(Top.content) \in Nat /\ Top.next \in Nat /\ Top.next <= Len(Top.content) + 1
    BY <1>6, ContentFacts DEF FrameInv, IsTyped
  <2> QED
    BY <1>1, <1>6, <2>1 DEF FrameInv
<1>8. FullText = TextOfPage(doc.objects, NextPage)
  <2>1. AgreesAlong(Top, doc.objects, NextPage, <<>>)
    BY <1>4, <1>5
  <2>2. Flushed(Top).text = TextsAlong(doc.objects, NextPage)[<<>>]
    BY <1>4, <1>7, <2>1, NoPath, TextOfStream
  <2> QED
    BY <2>2 DEF FullText, TextOfPage
<1> QED
  BY <1>1, <1>2, <1>8, NextTextIsRight

LEMMA TextInvInit == Init => TextInv
<1> SUFFICES ASSUME Init PROVE TextInv
  OBVIOUS
<1>1. stack = <<>> /\ results = <<>>
  BY DEF Init
<1>2. 1..Len(results) = {}
  BY <1>1, NoPath
<1> QED
  BY <1>1, <1>2 DEF TextInv

LEMMA TextInvStep == StackInv /\ TypeInv /\ TextInv /\ [Next]_vars => TextInv'
<1> SUFFICES ASSUME StackInv, TypeInv, TextInv, [Next]_vars PROVE TextInv'
  OBVIOUS
<1>1. CASE UNCHANGED vars
  BY <1>1 DEF vars, TextInv, NextPage
<1>2. CASE SkipEmptyPage \/ OpenPage \/ FinishPage
  BY <1>2, SkipEmptyPageAgrees, OpenPageAgrees, FinishPageAgrees
<1>3. CASE Finish \/ DrawTooDeep
  <2>1. doc' = doc /\ stack' = stack /\ results' = results
    BY <1>3 DEF Finish, DrawTooDeep
  <2> QED
    BY <2>1 DEF TextInv, NextPage
<1>4. CASE BeginText \/ EndText \/ SetFont \/ PassToken \/ ShowNext \/ DrawNothing
  BY <1>4, OperatorAgrees
<1>5. CASE DrawForm \/ ReturnForm
  BY <1>5, DrawFormAgrees, ReturnFormAgrees
<1> QED
  BY <1>1, <1>2, <1>3, <1>4, <1>5 DEF Next, DrawNext

\* The answer that a document has when all its pages have their text.
LEMMA AnswerIsOutcome ==
    ASSUME StackInv, TypeInv, TextInv, Finish
    PROVE  results = [k \in DOMAIN doc.pages |-> TextOfPage(doc.objects, doc.pages[k])]
<1>1. Len(results) = Len(doc.pages)
  BY DEF Finish
<1>2. results \in Seq(Seq(Nat)) /\ doc.pages \in Seq(Range(doc.pages))
  BY DocumentsAssumption DEF TypeInv
<1>3. DOMAIN results = 1..Len(results) /\ DOMAIN doc.pages = 1..Len(doc.pages)
      /\ results = [k \in 1..Len(results) |-> results[k]]
  BY <1>2
<1> QED
  BY <1>1, <1>3 DEF TextInv

LEMMA StepAnswersThePageText ==
    StackInv /\ TypeInv /\ TextInv /\ [Next]_vars => [Declared!Answer]_(Declared!answerVars)
<1> SUFFICES ASSUME StackInv, TypeInv, TextInv, [Next]_vars
             PROVE  [Declared!Answer]_(Declared!answerVars)
  OBVIOUS
<1>1. CASE Finish
  <2>1. /\ status = "running" /\ status' = "ok" /\ doc' = doc /\ results' = results
    BY <1>1 DEF Finish, BetweenPages
  <2>2. results = [k \in DOMAIN doc.pages |-> TextOfPage(doc.objects, doc.pages[k])]
    BY <1>1, AnswerIsOutcome
  <2>3. Declared!Answer
    BY <2>1, <2>2 DEF Declared!Answer, Pending, Outcome
  <2> QED
    BY <2>3
<1>2. CASE UNCHANGED <<doc, status>> /\ (status = "ok" => UNCHANGED results)
  BY <1>2 DEF Declared!answerVars
<1>3. CASE DrawTooDeep
  BY <1>3 DEF DrawTooDeep, AtOperator, AtToken, Declared!answerVars
<1>4. CASE UNCHANGED vars
  BY <1>2, <1>4 DEF vars
<1>5. CASE SkipEmptyPage \/ OpenPage \/ FinishPage
  BY <1>2, <1>5 DEF SkipEmptyPage, OpenPage, FinishPage, BetweenPages, AtEnd
<1>6. CASE BeginText \/ EndText \/ SetFont \/ PassToken \/ ShowNext \/ DrawNothing
  BY <1>2, <1>6, OperatorGoesOn DEF Continue
<1>7. CASE DrawForm \/ ReturnForm
  BY <1>2, <1>7 DEF DrawForm, ReturnForm
<1> QED
  BY <1>1, <1>3, <1>4, <1>5, <1>6, <1>7 DEF Next, DrawNext

\* The loop over tokens, with the line and the font that it carries along and its
\* recursion into forms, gives every document the text that its pages declare: which
\* operators stand in a text object, which font they have and where lines break is told
\* there without any state (lib.rs:41-53, text.rs:51-193).
THEOREM DeclaredTextIsAnswered == Spec => AnswersThePageText
<1>1. Init => StackInv /\ TypeInv /\ TextInv
  BY StackInvInit, TypeInvInit, TextInvInit
<1>2. (StackInv /\ TypeInv /\ TextInv) /\ [Next]_vars => (StackInv /\ TypeInv /\ TextInv)'
  BY StackInvStep, TypeInvStep, TextInvStep
<1>3. Init => Declared!Init
  BY DEF Init, Declared!Init, Pending
<1> QED
  BY <1>1, <1>2, <1>3, StepAnswersThePageText, PTL DEF Spec, AnswersThePageText, Declared!Spec

-----------------------------------------------------------------------------
(***************************************************************************)
(* The letters of a text                                                   *)
(***************************************************************************)

LetterOf(character) == IF character = Space THEN <<>> ELSE <<character>>

LEMMA LettersOfNothing == Letters(<<>>) = <<>>
<1> DEFINE empty == <<>>
           letters == [k \in DOMAIN empty |-> LetterOf(empty[k])]
<1>1. Letters(empty) = FlattenSeq(letters)
  BY Zenon DEF Letters, LetterOf
<1>2. letters = <<>>
  <2>1. DOMAIN empty = {}
    OBVIOUS
  <2> HIDE DEF empty
  <2> QED
    BY <2>1
<1> QED
  BY <1>1, <1>2, FlattenNothing

LEMMA LettersAreThose ==
    ASSUME NEW t \in Texts
    PROVE  \E letters \in Seq(Seq(Nat)) :
              /\ Letters(t) = FlattenSeq(letters) /\ Len(letters) = Len(t)
              /\ \A k \in 1..Len(t) : letters[k] = LetterOf(t[k])
<1> DEFINE letters == [k \in DOMAIN t |-> LetterOf(t[k])]
<1>1. Letters(t) = FlattenSeq(letters)
  BY Zenon DEF Letters, LetterOf
<1>2. PICK n \in Nat : n = Len(t)
  BY LenProperties DEF Texts
<1>3. DOMAIN t = 1..n /\ \A k \in 1..n : t[k] \in Nat
  BY <1>2 DEF Texts
<1>4. letters \in [1..n -> Seq(Nat)]
  BY <1>3 DEF LetterOf
<1>5. letters \in Seq(Seq(Nat)) /\ Len(letters) = n
  <2> HIDE DEF letters
  <2> QED
    BY <1>4
<1>6. \A k \in 1..n : letters[k] = LetterOf(t[k])
  BY <1>3
<1> QED
  BY <1>1, <1>2, <1>5, <1>6

LEMMA LettersConcat ==
    ASSUME NEW t \in Texts, NEW u \in Texts
    PROVE  Letters(t \o u) = Letters(t) \o Letters(u)
<1>1. PICK first \in Seq(Seq(Nat)) :
              /\ Letters(t) = FlattenSeq(first) /\ Len(first) = Len(t)
              /\ \A k \in 1..Len(t) : first[k] = LetterOf(t[k])
  BY LettersAreThose
<1>2. PICK second \in Seq(Seq(Nat)) :
              /\ Letters(u) = FlattenSeq(second) /\ Len(second) = Len(u)
              /\ \A k \in 1..Len(u) : second[k] = LetterOf(u[k])
  BY LettersAreThose
<1>3. t \o u \in Texts
  BY DEF Texts
<1>4. PICK all \in Seq(Seq(Nat)) :
              /\ Letters(t \o u) = FlattenSeq(all) /\ Len(all) = Len(t \o u)
              /\ \A k \in 1..Len(t \o u) : all[k] = LetterOf((t \o u)[k])
  BY <1>3, LettersAreThose
<1>5. all = first \o second
  <2>1. PICK m \in Nat : m = Len(t)
    BY LenProperties DEF Texts
  <2>2. PICK n \in Nat : n = Len(u)
    BY LenProperties DEF Texts
  <2>3. /\ Len(t \o u) = m + n
        /\ \A k \in 1..m : (t \o u)[k] = t[k]
        /\ \A k \in 1..n : (t \o u)[m + k] = u[k]
    BY <2>1, <2>2 DEF Texts
  <2>4. ASSUME NEW k \in 1..(m + n) PROVE all[k] = (first \o second)[k]
    <3>1. all[k] = LetterOf((t \o u)[k])
      BY <1>4, <2>3
    <3>2. CASE k \in 1..m
      <4>1. (first \o second)[k] = first[k]
        BY <1>1, <2>1, <3>2
      <4> QED
        BY <1>1, <2>1, <2>3, <3>1, <3>2, <4>1
    <3>3. CASE k \notin 1..m
      <4>1. PICK j \in 1..n : k = m + j
        <5>1. k - m \in 1..n /\ k = m + (k - m)
          BY <3>3
        <5> QED
          BY <5>1
      <4>2. (first \o second)[m + j] = second[j]
        BY <1>1, <1>2, <2>1, <2>2
      <4>3. (t \o u)[m + j] = u[j] /\ second[j] = LetterOf(u[j])
        BY <1>2, <2>2, <2>3
      <4> QED
        BY <3>1, <4>1, <4>2, <4>3
    <3> QED
      BY <3>2, <3>3
  <2>5. Len(first \o second) = m + n /\ first \o second \in Seq(Seq(Nat))
    <3>1. Len(first) = m /\ Len(second) = n
      BY <1>1, <1>2, <2>1, <2>2
    <3> QED
      BY <3>1, ConcatProperties
  <2>6. Len(all) = m + n
    BY <1>4, <2>3
  <2> DEFINE joined == first \o second
  <2>7. joined \in Seq(Seq(Nat)) /\ Len(joined) = Len(all)
          /\ \A k \in 1..Len(all) : all[k] = joined[k]
    BY <2>4, <2>5, <2>6
  <2> HIDE DEF joined
  <2>8. all = joined
    BY <2>7, SeqEqual
  <2> QED
    BY <2>8 DEF joined
<1> QED
  BY <1>1, <1>2, <1>4, <1>5, FlattenSeqConcat

LEMMA LettersAreText ==
    ASSUME NEW t \in Texts
    PROVE  Letters(t) \in Texts
<1>1. PICK letters \in Seq(Seq(Nat)) : Letters(t) = FlattenSeq(letters)
  BY LettersAreThose
<1>2. CASE Len(letters) = 0
  <2>1. letters = <<>>
    BY <1>2
  <2>2. <<>> \in Texts
    BY DEF Texts
  <2> QED
    BY <1>1, <2>1, <2>2, FlattenNothing
<1>3. CASE Len(letters) # 0
  <2>1. PICK n \in Nat : Len(letters) = n + 1
    <3>1. Len(letters) \in Nat
      BY LenProperties
    <3>2. Len(letters) - 1 \in Nat /\ Len(letters) = (Len(letters) - 1) + 1
      BY <1>3, <3>1
    <3> QED
      BY <3>2
  <2>2. letters \in [1..(n + 1) -> Seq(Nat)]
    BY <2>1
  <2> DEFINE before == [k \in 1..n |-> letters[k]]
  <2>3. FlattenSeq(before) \in Seq(Nat) /\ FlattenSeq(letters) = FlattenSeq(before) \o letters[n + 1]
    BY <2>2, FlattenSeqGrows
  <2>4. letters[n + 1] \in Seq(Nat)
    BY <2>2
  <2> HIDE DEF before
  <2> QED
    BY <1>1, <2>3, <2>4 DEF Texts
<1> QED
  BY <1>2, <1>3

\* Pieces are joined by spaces, which are no letters.
LEMMA LettersOfAppended ==
    ASSUME NEW text \in Texts, NEW piece \in Texts
    PROVE  Letters(Appended(text, piece)) = Letters(text) \o Letters(piece)
<1>1. Letters(piece) \in Texts /\ Letters(text) \in Texts
  BY LettersAreText
<1>2. CASE text = <<>>
  <2>1. Appended(text, piece) = piece
    BY <1>2 DEF Appended
  <2>2. <<>> \o Letters(piece) = Letters(piece)
    BY <1>1 DEF Texts
  <2> QED
    BY <1>2, <2>1, <2>2, LettersOfNothing
<1>3. CASE text # <<>>
  <2>1. Appended(text, piece) = (text \o <<Space>>) \o piece
    BY <1>3 DEF Appended
  <2>2. <<Space>> \in Texts /\ text \o <<Space>> \in Texts
    BY DEF Texts, Space
  <2>3. Letters(<<Space>>) = <<>>
    <3>1. PICK letters \in Seq(Seq(Nat)) :
              /\ Letters(<<Space>>) = FlattenSeq(letters) /\ Len(letters) = Len(<<Space>>)
              /\ \A k \in 1..Len(<<Space>>) : letters[k] = LetterOf(<<Space>>[k])
      BY <2>2, LettersAreThose
    <3>2. Len(<<Space>>) = 1 /\ <<Space>>[1] = Space
      OBVIOUS
    <3>3. letters = << <<>> >>
      BY <3>1, <3>2 DEF LetterOf
    <3>4. <<>> \in Seq(Nat)
      OBVIOUS
    <3> QED
      BY <3>1, <3>3, <3>4, FlattenOne
  <2>4. Letters(text \o <<Space>>) = Letters(text) \o <<>>
    BY <2>2, <2>3, LettersConcat
  <2>5. Letters(text) \o <<>> = Letters(text)
    BY <1>1, ConcatEmptySeq DEF Texts
  <2> QED
    BY <2>1, <2>2, <2>4, <2>5, LettersConcat
<1> QED
  BY <1>2, <1>3

-----------------------------------------------------------------------------
(***************************************************************************)
(* The text of a well-formed stream has the letters of its reading         *)
(***************************************************************************)

LEMMA ShownInside ==
    ASSUME NEW s, IsReadable(s), IsWellFormed(s.content), NEW p \in 1..Len(s.content)
    PROVE  ShownAt(s.content, s.fonts, p) = ShownInText(s.content, s.fonts, p)
<1>1. p \in DOMAIN s.content
  BY ContentHasLength
<1>2. CASE s.content[p] \in ShowOperators
  <2>1. IsInText(s.content, p)
    BY <1>1, <1>2 DEF IsWellFormed, ShowOperators
  <2> QED
    BY <2>1 DEF ShownInText
<1>3. CASE s.content[p] \notin ShowOperators
  BY <1>3, ShowsNothing
<1> QED
  BY <1>2, <1>3

\* Before a place, the text and the line that goes on there have the letters of the
\* reading, and there is no line outside of a text object.
IsWhole(objects, s, texts, readings, p) ==
    /\ Letters(TextBefore(objects, s, texts, p)) \o Letters(LineAt(s.content, s.fonts, p)) =
       Letters(ReadingBefore(objects, s, readings, p))
    /\ ~IsInText(s.content, p) => LineAt(s.content, s.fonts, p) = <<>>

\* What is drawn has the letters of its reading.
DrawsWhole(objects, s, texts, readings) ==
    \A p \in 1..Len(s.content) :
        DrawsAt(objects, s, p) => Letters(texts[p]) = Letters(readings[p])

\* A text and the line that follows it have the letters of a reading.
AreLettersOf(text, line, reading) == Letters(text) \o Letters(line) = Letters(reading)

\* The text that the end of a line adds to.
EndedBy(text, line) == IF line # <<>> THEN Appended(text, line) ELSE text

\* How the letters go on when the line does, and when it ends.
LEMMA LettersGrow ==
    ASSUME NEW text \in Texts, NEW line \in Texts, NEW reading \in Texts,
           AreLettersOf(text, line, reading), NEW more \in Texts
    PROVE  AreLettersOf(text, line \o more, reading \o more)
<1>1. PICK t \in Seq(Nat), l \in Seq(Nat), m \in Seq(Nat) :
          t = Letters(text) /\ l = Letters(line) /\ m = Letters(more)
  BY LettersAreText DEF Texts
<1>2. Letters(line \o more) = l \o m /\ Letters(reading \o more) = (t \o l) \o m
  BY <1>1, LettersConcat DEF AreLettersOf
<1>3. (t \o l) \o m = t \o (l \o m)
  BY ConcatAssociative
<1> QED
  BY <1>1, <1>2, <1>3 DEF AreLettersOf

LEMMA LettersEnd ==
    ASSUME NEW text \in Texts, NEW line \in Texts, NEW reading \in Texts,
           AreLettersOf(text, line, reading), NEW more \in Texts
    PROVE  AreLettersOf(EndedBy(text, line), more, reading \o more)
<1>1. Letters(EndedBy(text, line)) = Letters(text) \o Letters(line)
  <2>1. CASE line # <<>>
    BY <2>1, LettersOfAppended DEF EndedBy
  <2>2. CASE line = <<>>
    <3>1. Letters(text) \in Seq(Nat)
      BY LettersAreText DEF Texts
    <3>2. Letters(text) \o <<>> = Letters(text)
      BY <3>1, ConcatEmptySeq
    <3> QED
      BY <2>2, <3>2, LettersOfNothing DEF EndedBy
  <2> QED
    BY <2>1, <2>2
<1> QED
  BY <1>1, LettersConcat DEF AreLettersOf

LEMMA WholeGoesOn ==
    ASSUME NEW objects, NEW s, IsReadable(s), IsWellFormed(s.content),
           NEW texts \in [Nat -> Texts], NEW readings \in [Nat -> Texts],
           DrawsWhole(objects, s, texts, readings),
           NEW p \in 1..Len(s.content), IsWhole(objects, s, texts, readings, p)
    PROVE  IsWhole(objects, s, texts, readings, p + 1)
<1> DEFINE c == s.content
           text(q) == TextBefore(objects, s, texts, q)
           line(q) == LineAt(c, s.fonts, q)
           reading(q) == ReadingBefore(objects, s, readings, q)
           shown == ShownInText(c, s.fonts, p)
<1>1. /\ Len(c) \in Nat /\ DOMAIN c = 1..Len(c) /\ p \in DOMAIN c /\ p \in Nat \ {0} /\ p \in Nat
      /\ p \in 1..(Len(c) + 1) /\ p \in 1..(Len(c) + 2)
  BY ContentHasLength
<1>2. /\ text(p) \in Texts
      /\ text(p + 1) \in Texts
      /\ text(p + 1) = WithPieces(text(p), objects, s, texts, p)
  <2>1. p + 1 \in 1..(Len(c) + 2)
    BY <1>1
  <2> QED
    BY <1>1, <2>1, TextIsText, TextGoesOn
<1>3. shown \in Texts /\ shown = ShownAt(c, s.fonts, p)
  BY ShownIsText, ShownInside DEF IsReadable, Texts
<1>4. /\ line(p) \in Texts
      /\ line(p + 1) = IF StartsLine(c, p) THEN shown ELSE line(p) \o shown
  <2>1. \A q \in 1..p : ShownInText(c, s.fonts, q) \in Seq(Nat)
    <3>1. \A q \in 1..p : q \in 1..Len(c)
      BY <1>1
    <3> QED
      BY <3>1, ShownIsText DEF IsReadable
  <2> QED
    BY <1>1, <2>1, LineGoesOn DEF Texts
<1>5. /\ reading(p) \in Texts
      /\ reading(p + 1) = reading(p) \o (IF DrawsAt(objects, s, p) THEN readings[p] ELSE shown)
  BY <1>3, ReadingGoesOn DEF ReadAt
<1>6. IsInText(c, p + 1) <=> (c[p] = Op("BT") \/ (IsInText(c, p) /\ c[p] # Op("ET")))
  BY <1>1, InTextGoesOn
<1>7. p \in Breaks(c) <=> c[p] = Op("ET") \/ (NeedsLine(c, p) /\ IsInText(c, p))
  BY BreaksInside
<1>8. /\ Letters(text(p)) \o Letters(line(p)) = Letters(reading(p))
      /\ ~IsInText(c, p) => line(p) = <<>>
  BY DEF IsWhole
<1>9. texts[p] \in Texts /\ readings[p] \in Texts
  BY <1>1
<1> DEFINE drawn == texts[p]
           read == readings[p]
<1> SUFFICES /\ Letters(text(p + 1)) \o Letters(line(p + 1)) = Letters(reading(p + 1))
             /\ ~IsInText(c, p + 1) => line(p + 1) = <<>>
  BY DEF IsWhole
<1>10. c[p] \notin ShowOperators => shown = <<>>
  BY ShowsNothing
<1>11. /\ c[p] = Op("BT") => ~IsInText(c, p)
       /\ c[p] = Op("Do") => ~IsInText(c, p)
  BY <1>1 DEF IsWellFormed
<1>12. ~IsInText(c, p) => shown = <<>>
  BY DEF ShownInText
<1>13. <<>> \o <<>> = <<>>
  OBVIOUS
<1>14. CASE DrawsAt(objects, s, p)
  <2>1. c[p] = Op("Do")
    BY <1>14, DrawsNothing
  <2>2. line(p) = <<>> /\ shown = <<>>
    BY <1>8, <1>11, <1>12, <2>1
  <2>3. ~StartsLine(c, p)
    <3>1. ~NeedsLine(c, p) /\ c[p] # Op("ET") /\ c[p] # Op("BT")
      BY <2>1, OperatorsDiffer DEF NeedsLine
    <3> QED
      BY <1>7, <3>1 DEF StartsLine
  <2>4. line(p + 1) = <<>>
    BY <1>4, <1>13, <2>2, <2>3
  <2>5. text(p + 1) = Appended(text(p), drawn) /\ reading(p + 1) = reading(p) \o read
    BY <1>2, <1>5, <1>14 DEF WithPieces
  <2>6. Letters(drawn) = Letters(read)
    BY <1>14 DEF DrawsWhole
  <2> HIDE DEF text, line, reading, shown, drawn, read
  <2>7. Letters(text(p + 1)) = Letters(text(p)) \o Letters(read)
    BY <1>2, <1>9, <2>5, <2>6, LettersOfAppended DEF drawn
  <2>8. Letters(text(p)) = Letters(reading(p))
    <3>1. Letters(text(p)) \in Seq(Nat)
      BY <1>2, LettersAreText DEF Texts
    <3>2. Letters(text(p)) \o <<>> = Letters(text(p))
      BY <3>1, ConcatEmptySeq
    <3> QED
      BY <1>8, <2>2, <3>2, LettersOfNothing
  <2>9. Letters(reading(p + 1)) = Letters(reading(p)) \o Letters(read)
    BY <1>5, <1>9, <2>5, LettersConcat DEF read
  <2>10. Letters(text(p + 1)) \o <<>> = Letters(text(p + 1))
    <3>1. text(p + 1) \in Texts
      BY <1>2
    <3>2. Letters(text(p + 1)) \in Seq(Nat)
      BY <3>1, LettersAreText DEF Texts
    <3> QED
      BY <3>2, ConcatEmptySeq
  <2> QED
    BY <2>4, <2>7, <2>8, <2>9, <2>10, LettersOfNothing
<1>15. CASE ~DrawsAt(objects, s, p) /\ p \in Breaks(c)
  <2>1. text(p + 1) = IF line(p) # <<>> THEN Appended(text(p), line(p)) ELSE text(p)
    BY <1>2, <1>15 DEF WithPieces
  <2>2. line(p + 1) = shown /\ reading(p + 1) = reading(p) \o shown
    BY <1>4, <1>5, <1>15 DEF StartsLine
  <2>3. ASSUME ~IsInText(c, p + 1) PROVE shown = <<>>
    <3>1. CASE c[p] = Op("ET")
      <4>1. c[p] \notin ShowOperators
        BY <3>1, OperatorsDiffer DEF ShowOperators
      <4> QED
        BY <1>10, <4>1
    <3>2. CASE c[p] # Op("ET")
      BY <1>6, <1>12, <2>3, <3>2
    <3> QED
      BY <3>1, <3>2
  <2> HIDE DEF text, line, reading, shown
  <2>4. Letters(text(p + 1)) \o Letters(shown) = Letters(reading(p + 1))
    <3>1. PICK t \in Texts, l \in Texts, r \in Texts, m \in Texts :
              t = text(p) /\ l = line(p) /\ r = reading(p) /\ m = shown
      BY <1>2, <1>3, <1>4, <1>5
    <3>2. AreLettersOf(t, l, r)
      BY <1>8, <3>1 DEF AreLettersOf
    <3>3. AreLettersOf(EndedBy(t, l), m, r \o m)
      BY <3>2, LettersEnd
    <3> QED
      BY <3>1, <3>3, <2>1, <2>2 DEF AreLettersOf, EndedBy
  <2> QED
    BY <2>2, <2>3, <2>4
<1>16. CASE ~DrawsAt(objects, s, p) /\ p \notin Breaks(c)
  <2>1. text(p + 1) = text(p) /\ reading(p + 1) = reading(p) \o shown
    BY <1>2, <1>5, <1>16 DEF WithPieces
  <2>2. line(p + 1) = line(p) \o shown
    <3>1. CASE c[p] = Op("BT")
      <4>1. line(p) = <<>> /\ shown = <<>>
        BY <1>8, <1>11, <1>12, <3>1
      <4> QED
        BY <1>4, <1>13, <4>1
    <3>2. CASE c[p] # Op("BT")
      BY <1>4, <1>16, <3>2 DEF StartsLine
    <3> QED
      BY <3>1, <3>2
  <2>3. ASSUME ~IsInText(c, p + 1) PROVE line(p) = <<>> /\ shown = <<>>
    <3>1. ~IsInText(c, p) \/ c[p] = Op("ET")
      BY <1>6, <2>3
    <3>2. ~IsInText(c, p)
      BY <1>7, <1>16, <3>1
    <3> QED
      BY <1>8, <1>12, <3>2
  <2> HIDE DEF text, line, reading, shown
  <2>4. Letters(text(p)) \o Letters(line(p) \o shown) = Letters(reading(p) \o shown)
    <3>1. PICK t \in Texts, l \in Texts, r \in Texts, m \in Texts :
              t = text(p) /\ l = line(p) /\ r = reading(p) /\ m = shown
      BY <1>2, <1>3, <1>4, <1>5
    <3>2. AreLettersOf(t, l, r)
      BY <1>8, <3>1 DEF AreLettersOf
    <3>3. AreLettersOf(t, l \o m, r \o m)
      BY <3>2, LettersGrow
    <3> QED
      BY <3>1, <3>3 DEF AreLettersOf
  <2>5. ~IsInText(c, p + 1) => line(p + 1) = <<>>
    BY <1>13, <2>2, <2>3
  <2> QED
    BY <2>1, <2>2, <2>4, <2>5
<1> QED
  BY <1>14, <1>15, <1>16

LEMMA StreamIsWhole ==
    ASSUME NEW objects, NEW s, IsReadable(s), IsWellFormed(s.content),
           NEW texts \in [Nat -> Texts], NEW readings \in [Nat -> Texts],
           DrawsWhole(objects, s, texts, readings)
    PROVE  Letters(TextBefore(objects, s, texts, Len(s.content) + 2)) =
           Letters(ReadingBefore(objects, s, readings, Len(s.content) + 1))
<1>1. PICK n \in Nat : n = Len(s.content)
  BY ContentHasLength
<1> DEFINE Whole(q) == IsWhole(objects, s, texts, readings, q)
           P == {k \in Nat : k <= n => Whole(k + 1)}
<1>2. 0 \in P
  <2>1. /\ TextBefore(objects, s, texts, 1) = <<>>
        /\ LineAt(s.content, s.fonts, 1) = <<>>
        /\ ReadingBefore(objects, s, readings, 1) = <<>>
    BY TextBegins, LineBegins, ReadingBegins
  <2>2. <<>> \o <<>> = <<>>
    OBVIOUS
  <2>3. Whole(1)
    BY <2>1, <2>2, LettersOfNothing DEF IsWhole
  <2>4. 0 + 1 = 1
    OBVIOUS
  <2> HIDE DEF Whole
  <2> QED
    BY <2>3, <2>4
<1>3. ASSUME NEW k \in Nat, k \in P PROVE k + 1 \in P
  <2> SUFFICES ASSUME k + 1 <= n PROVE Whole((k + 1) + 1)
    OBVIOUS
  <2>1. PICK p \in 1..Len(s.content) : p = k + 1
    BY <1>1
  <2>2. Whole(p)
    <3> HIDE DEF Whole
    <3> QED
      BY <1>3, <2>1
  <2>3. Whole(p + 1)
    BY <2>2, WholeGoesOn
  <2> HIDE DEF Whole
  <2> QED
    BY <2>1, <2>3
<1> HIDE DEF P
<1>4. n \in P
  BY <1>2, <1>3, NatInduct
<1>5. Whole(n + 1)
  <2> HIDE DEF Whole
  <2> QED
    BY <1>4 DEF P
<1> DEFINE text == TextBefore(objects, s, texts, n + 1)
<1>6. LineAt(s.content, s.fonts, n + 1) = <<>> /\ Letters(text) \o Letters(<<>>) =
      Letters(ReadingBefore(objects, s, readings, n + 1))
  BY <1>1, <1>5 DEF IsWhole, IsWellFormed
<1>7. n + 1 \in 1..(Len(s.content) + 1) /\ n + 1 \in 1..(Len(s.content) + 2)
      /\ (n + 1) + 1 = n + 2
  BY <1>1
<1>8. ~DrawsAt(objects, s, n + 1)
  <2>1. n + 1 \notin 2..Len(s.content)
    BY <1>1
  <2>2. DrawnAt(objects, s, n + 1) = Null
    BY <2>1 DEF DrawnAt
  <2>3. Null.kind # "Stream"
    BY DEF Null
  <2> QED
    BY <2>2, <2>3 DEF DrawsAt, IsDrawable
<1>9. TextBefore(objects, s, texts, n + 2) = text
  <2>1. TextBefore(objects, s, texts, (n + 1) + 1) = WithPieces(text, objects, s, texts, n + 1)
    BY <1>7, TextGoesOn
  <2> QED
    BY <1>6, <1>7, <1>8, <2>1 DEF WithPieces
<1>10. text \in Texts
  BY <1>7, TextIsText
<1>11. Letters(text) \o Letters(<<>>) = Letters(text)
  <2> HIDE DEF text
  <2>1. Letters(text) \in Seq(Nat)
    BY <1>10, LettersAreText DEF Texts
  <2> QED
    BY <2>1, LettersOfNothing, ConcatEmptySeq
<1> QED
  BY <1>1, <1>6, <1>9, <1>11

\* The text of a page whose streams are well formed, and what is to be read on it.
IsWholeAlong(objects, page, path) ==
    WellFormedAlong(objects, page)[path] =>
        Letters(TextsAlong(objects, page)[path]) = Letters(ReadingsAlong(objects, page)[path])

LEMMA PageIsWhole ==
    ASSUME NEW objects, NEW page, MayBeRead(objects, page)
    PROVE  IsWholeAlong(objects, page, <<>>)
<1> DEFINE texts == TextsAlong(objects, page)
           readings == ReadingsAlong(objects, page)
           wellFormed == WellFormedAlong(objects, page)
           StreamTo(path) == StreamAlong(objects, page, path)
           S == {path \in Paths : IsWholeAlong(objects, page, path)}
<1>1. /\ texts \in [Paths -> Texts]
      /\ \A path \in Paths : texts[path] = TextFrom(objects, page, texts, path)
  BY TextsAreTexts
<1>2. /\ readings \in [Paths -> Texts]
      /\ \A path \in Paths : readings[path] = ReadingFrom(objects, page, readings, path)
  BY ReadingsAreTexts
<1>3. \A path \in Paths : wellFormed[path] = WellFormedFrom(objects, page, wellFormed, path)
  BY WellFormedIsDefined
<1>4. \A path \in Paths, p \in Nat : Append(path, p) \in Paths
  BY AppendProperties DEF Paths
<1>5. ASSUME NEW path \in Paths PROVE IsWholeAlong(objects, page, path) <=>
             (wellFormed[path] => Letters(texts[path]) = Letters(readings[path]))
  BY Zenon DEF IsWholeAlong
<1> HIDE DEF texts, readings, wellFormed
<1>6. ASSUME NEW path \in Paths, Len(path) >= MaxDepth PROVE path \in S
  <2>1. texts[path] = <<>> /\ readings[path] = <<>>
    BY <1>1, <1>2, <1>6 DEF TextFrom, ReadingFrom
  <2> QED
    BY <1>5, <2>1
<1>7. ASSUME NEW path \in Paths, ~(Len(path) >= MaxDepth), \A p \in Nat : Append(path, p) \in S
      PROVE  path \in S
  <2> SUFFICES ASSUME wellFormed[path] PROVE Letters(texts[path]) = Letters(readings[path])
    BY <1>5
  <2> DEFINE s == StreamTo(path)
             drawn == DrawnAlong(texts, path)
             read == DrawnAlong(readings, path)
  <2>1. IsReadable(s)
    BY StreamIsReadable DEF MayBeRead, Paths
  <2>2. drawn \in [Nat -> Texts] /\ read \in [Nat -> Texts]
    BY <1>1, <1>2, <1>4 DEF DrawnAlong
  <2>3. WellFormedFrom(objects, page, wellFormed, path)
    BY <1>3
  <2>4. /\ IsWellFormed(s.content)
        /\ \A p \in DOMAIN s.content : DrawsAt(objects, s, p) => DrawnAlong(wellFormed, path)[p]
    BY <1>7, <2>3 DEF WellFormedFrom
  <2>5. ASSUME NEW p \in 1..Len(s.content), DrawsAt(objects, s, p)
        PROVE  Letters(drawn[p]) = Letters(read[p])
    <3>1. p \in DOMAIN s.content /\ p \in Nat
      BY <2>1, ContentHasLength
    <3>2. DrawnAlong(wellFormed, path)[p]
      BY <2>4, <2>5, <3>1
    <3>3. /\ wellFormed[Append(path, p)] = DrawnAlong(wellFormed, path)[p]
          /\ drawn[p] = texts[Append(path, p)] /\ read[p] = readings[Append(path, p)]
      BY <3>1 DEF DrawnAlong
    <3>4. Append(path, p) \in S /\ Append(path, p) \in Paths
      BY <1>4, <1>7, <3>1
    <3>5. wellFormed[Append(path, p)] =>
              Letters(texts[Append(path, p)]) = Letters(readings[Append(path, p)])
      BY <1>5, <3>4
    <3> HIDE DEF drawn, read
    <3> QED
      BY <3>2, <3>3, <3>5
  <2>6. texts[path] = TextBefore(objects, s, drawn, Len(s.content) + 2)
    BY <1>1, <1>7 DEF TextFrom
  <2>7. readings[path] = ReadingBefore(objects, s, read, Len(s.content) + 1)
    BY <1>2, <1>7 DEF ReadingFrom
  <2> HIDE DEF s, drawn, read
  <2>8. DrawsWhole(objects, s, drawn, read)
    BY <2>5 DEF DrawsWhole
  <2>9. Letters(TextBefore(objects, s, drawn, Len(s.content) + 2)) =
        Letters(ReadingBefore(objects, s, read, Len(s.content) + 1))
    BY <2>1, <2>2, <2>4, <2>8, StreamIsWhole
  <2> QED
    BY <2>6, <2>7, <2>9
<1> HIDE DEF S
<1>8. Paths \subseteq S
  BY <1>6, <1>7, PathsEnd
<1> QED
  BY <1>8, NoPath DEF S

LEMMA TextsAreWhole == TypeInv /\ TextInv => WellFormedTextIsComplete
<1> SUFFICES ASSUME TypeInv, TextInv, NEW k \in DOMAIN results,
                    WellFormedAlong(doc.objects, doc.pages[k])[<<>>]
             PROVE  Letters(results[k]) =
                    Letters(ReadingsAlong(doc.objects, doc.pages[k])[<<>>])
  BY DEF WellFormedTextIsComplete
<1>1. DOMAIN results = 1..Len(results) /\ Len(results) <= Len(doc.pages)
      /\ Len(results) \in Nat /\ Len(doc.pages) \in Nat
  BY PageFacts DEF TypeInv
<1>2. k \in 1..Len(results) /\ k \in 1..Len(doc.pages)
  BY <1>1
<1>3. results[k] = TextsAlong(doc.objects, doc.pages[k])[<<>>]
  BY <1>2 DEF TextInv, TextOfPage
<1>4. IsWholeAlong(doc.objects, doc.pages[k], <<>>)
  BY <1>2, PagesMayBeRead, PageIsWhole
<1> QED
  BY <1>3, <1>4 DEF IsWholeAlong

\* Of a page whose text objects are well formed, those of its forms too, no letter that is
\* shown is lost, repeated or moved: its text has them in the order of the operators that
\* show them, with only spaces between, whatever the fonts, the arrays and the depth of
\* the forms (text.rs:51-193).
THEOREM WellFormedTextIsWhole == Spec => []WellFormedTextIsComplete
<1>1. Init => StackInv /\ TypeInv /\ TextInv
  BY StackInvInit, TypeInvInit, TextInvInit
<1>2. (StackInv /\ TypeInv /\ TextInv) /\ [Next]_vars => (StackInv /\ TypeInv /\ TextInv)'
  BY StackInvStep, TypeInvStep, TextInvStep
<1> QED
  BY <1>1, <1>2, TextsAreWhole, PTL DEF Spec
=============================================================================
