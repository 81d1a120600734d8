---------------------------- MODULE ValueParser ----------------------------
(***************************************************************************)
(* parse_object of parser.rs with parse_array, parse_dictionary and        *)
(* parse_reference: the recursive descent that reads one value.  A number  *)
(* in front of a number may be a reference; the code finds out by calling  *)
(* itself for the second number, and goes back when there is none.         *)
(*                                                                         *)
(* The stack holds the calls under way, the innermost last: an array with  *)
(* the items it has; a dictionary with its entries and the key that waits  *)
(* for a value, if one does; a reference with its first number and the     *)
(* place to go back to.                                                    *)
(***************************************************************************)
EXTENDS ValueReading

CONSTANT Texts  \* the inputs

ASSUME TextsAssumption == Texts \subseteq Seq(0..255)

VARIABLES
    data,     \* the bytes: never changed
    pos,      \* the place of the next byte
    stack,    \* the calls under way
    ret,      \* the value a call has just returned
    status    \* "run", then "ok" or "err"

vars == <<data, pos, stack, ret, status>>

Nothing == [kind |-> "Nothing"]

Init ==
    /\ data \in Texts
    /\ pos = 1
    /\ stack = <<>>
    /\ ret = Nothing
    /\ status = "run"

InArray(items)           == [in |-> "array", items |-> items]
InDictionary(key, dict)  == [in |-> "dictionary", key |-> key, dict |-> dict]
InReference(number, end) == [in |-> "reference", number |-> number, saved |-> end]

Top   == IF stack = <<>> THEN [in |-> "nothing"] ELSE stack[Len(stack)]
Below == SubSeq(stack, 1, Len(stack) - 1)

Call(frame, place) ==
    /\ stack' = Append(stack, frame)
    /\ pos' = place
    /\ UNCHANGED <<data, ret, status>>

Return(value, place) ==
    /\ ret' = value
    /\ pos' = place
    /\ UNCHANGED <<data, stack, status>>

ReturnFromCall(value, place) ==
    /\ ret' = value
    /\ pos' = place
    /\ stack' = Below
    /\ UNCHANGED <<data, status>>

\* The caller goes on with the value that was returned.
Continue(frame) ==
    /\ stack' = Append(Below, frame)
    /\ ret' = Nothing
    /\ UNCHANGED <<data, pos, status>>

\* Mutant: the attempt that takes its number stays.
RaiseInPlace ==
    LET waiting == {i \in DOMAIN stack : stack[i].in = "reference"}
        w == Max(waiting)
    IN  IF waiting = {}
        THEN status' = "err" /\ UNCHANGED <<data, pos, stack, ret>>
        ELSE /\ pos' = stack[w].saved
             /\ ret' = stack[w].number
             /\ stack' = SubSeq(stack, 1, w)
             /\ UNCHANGED <<data, status>>

\* An error ends every call up to the innermost attempt at a reference, which takes its
\* first number for all there is; without one it ends the parse.
Raise ==
    LET waiting == {i \in DOMAIN stack : stack[i].in = "reference"}
        w == Max(waiting)
    IN  IF waiting = {}
        THEN status' = "err" /\ UNCHANGED <<data, pos, stack, ret>>
        ELSE /\ pos' = stack[w].saved
             /\ ret' = stack[w].number
             /\ stack' = SubSeq(stack, 1, w - 1)
             /\ UNCHANGED <<data, status>>

-----------------------------------------------------------------------------
(***************************************************************************)
(* A call of parse_object                                                  *)
(***************************************************************************)

Calls == status = "run" /\ ret = Nothing

Place == SkipWhitespaceAndComments(data, pos)

\* The loops of arrays and dictionaries look for their end before they call.
EndsTop ==
    \/ Top.in = "array" /\ EndsArray(data, Place)
    \/ Top.in = "dictionary" /\ Top.key = <<>> /\ EndsDictionary(data, Place)

ReadAnyOf(readings) == Calls /\ \E r \in readings : Return(r.value, r.end)

ReadKeyword   == ReadAnyOf(KeywordAt(data, Place))
ReadName      == ReadAnyOf(NameAt(data, Place))
ReadString    == ReadAnyOf(StringAt(data, Place))
ReadHexString == ReadAnyOf(HexStringAt(data, Place))

OpenArray      == Calls /\ StartsArray(data, Place) /\ Call(InArray(<<>>), Place + 1)
OpenDictionary ==
    Calls /\ StartsDictionary(data, Place) /\ Call(InDictionary(<<>>, EmptyMap), Place + 2)

\* At the end of the data the white space behind the number is gone.
ReadNumber ==
    /\ Calls
    /\ \E r \in NumberAt(data, Place) :
          LET next == SkipWhitespace(data, r.end) IN
          /\ At(data, next) \notin Digits
          /\ Return(r.value, IF next > Len(data) THEN next ELSE r.end)

\* Mutant: comments are skipped like white space.
TryReferencePastComments ==
    /\ Calls
    /\ \E r \in NumberAt(data, Place) :
          LET next == SkipWhitespaceAndComments(data, r.end) IN
          At(data, next) \in Digits /\ Call(InReference(r.value, r.end), next)

TryReference ==
    /\ Calls
    /\ \E r \in NumberAt(data, Place) :
          LET next == SkipWhitespace(data, r.end) IN
          At(data, next) \in Digits /\ Call(InReference(r.value, r.end), next)

RejectObject == Calls /\ ~EndsTop /\ ~StartsObject(data, Place) /\ Raise

CloseArray ==
    /\ Calls
    /\ Top.in = "array"
    /\ EndsArray(data, Place)
    /\ ReturnFromCall(Array(Top.items), Place + 1)

CloseDictionary ==
    /\ Calls
    /\ Top.in = "dictionary"
    /\ Top.key = <<>>
    /\ EndsDictionary(data, Place)
    /\ ReturnFromCall(Dictionary(Top.dict), Place + 2)

-----------------------------------------------------------------------------
(***************************************************************************)
(* What the caller does with the value                                     *)
(***************************************************************************)

Returned == status = "run" /\ ret # Nothing

TakeItem ==
    /\ Returned
    /\ Top.in = "array"
    /\ Continue(InArray(Append(Top.items, ret)))

TakeKey ==
    /\ Returned
    /\ Top.in = "dictionary"
    /\ Top.key = <<>>
    /\ ret.kind = "Name"
    /\ Continue(InDictionary(<<ret.name>>, Top.dict))

RejectKey ==
    /\ Returned
    /\ Top.in = "dictionary"
    /\ Top.key = <<>>
    /\ ret.kind # "Name"
    /\ Raise

\* A key given twice keeps the later value.
TakeValue ==
    /\ Returned
    /\ Top.in = "dictionary"
    /\ Top.key # <<>>
    /\ Continue(InDictionary(<<>>, Overlay(Top.dict, [k \in {Top.key[1]} |-> ret])))

\* Behind the second number.
AfterGeneration == SkipWhitespace(data, pos)

IsGeneration == ret.kind = "Number" /\ At(data, AfterGeneration) = 82

TakeGeneration ==
    /\ Returned
    /\ Top.in = "reference"
    /\ IsGeneration
    /\ ReturnFromCall(Reference(<<Saturated(Top.number, MaxObject), Saturated(ret, MaxGeneration)>>),
                      AfterGeneration + 1)

\* Mutant: the place behind the second number stays.
GiveUpTheReferenceInPlace ==
    /\ Returned
    /\ Top.in = "reference"
    /\ ~IsGeneration
    /\ ReturnFromCall(Top.number, pos)

GiveUpTheReference ==
    /\ Returned
    /\ Top.in = "reference"
    /\ ~IsGeneration
    /\ Raise

Finish ==
    /\ Returned
    /\ stack = <<>>
    /\ status' = "ok"
    /\ UNCHANGED <<data, pos, stack, ret>>

Next ==
    \/ ReadKeyword \/ ReadName \/ ReadString \/ ReadHexString \/ ReadNumber \/ TryReference
    \/ OpenArray \/ OpenDictionary \/ CloseArray \/ CloseDictionary \/ RejectObject
    \/ TakeItem \/ TakeKey \/ RejectKey \/ TakeValue
    \/ TakeGeneration \/ GiveUpTheReference \/ Finish

Spec == Init /\ [][Next]_vars

\* One thread of straight-line code: while it can step, it steps.
FairSpec == Spec /\ WF_vars(Next)

-----------------------------------------------------------------------------
(***************************************************************************)
(* Properties                                                              *)
(***************************************************************************)

Waits(i) == stack[i].in = "reference"

\* Where the text behind the first number of attempt i ends that this attempt has seen
\* or handed on to the attempt inside it.
EndOfWait(i) ==
    IF i < Len(stack) THEN stack[i + 1].saved
    ELSE IF ret = Nothing THEN pos ELSE stack[i].saved

\* The recursion of parse_reference through parse_object, which takes a frame for every
\* number of a run: only attempts at a reference start inside one, so that no error of
\* an array, a dictionary or a string is ever taken for "this is no reference"; the
\* text they wait over is numbers and white space; and each call has read at least one
\* byte of its own, so that the depth is below the number of bytes read.
OnlyNumbersWait ==
    /\ \A i \in DOMAIN stack : Waits(i) =>
          /\ \A j \in i..Len(stack) : Waits(j)
          /\ \A p \in stack[i].saved..(EndOfWait(i) - 1) : data[p] \in White \cup Digits \cup {Dot}
          /\ i < stack[i].saved
    /\ Len(stack) < pos

\* A reference written with plain digits ends in front of place end: its numbers.
WrittenReferences(end) ==
    {<<Decimal(Text(data, p, EndOfRun(data, p, Digits))),
       Decimal(DigitsOf(Text(data, EndOfRun(data, p, Digits), end)))>> :
        p \in {q \in 1..(end - 4) :
                 LET first  == EndOfRun(data, q, Digits)
                     second == SkipWhitespace(data, first)
                     behind == EndOfRun(data, second, Digits)
                 IN  /\ data[q] \in Digits
                     /\ q > 1 => data[q - 1] \notin NumberStart
                     /\ first < second
                     /\ second < behind
                     /\ SkipWhitespace(data, behind) = end - 1
                     /\ data[end - 1] = 82}}

\* References pass through f32 on their way to u32 and u16: up to the precision of an
\* f32 a reference names the object and the generation that are written.
ReferencesAreExact ==
    ret.kind = "Reference" =>
        \A w \in WrittenReferences(pos) :
            w[1] < 2^Mantissa /\ w[1] <= MaxObject /\ w[2] <= MaxGeneration => ret.ref = w

\* parse_value answers what the text says: going back over runs of numbers, one attempt
\* inside the other, never changes a value, loses one or ends elsewhere.
AnswersTheReading ==
    LET readings == ValueAt(data, 1) IN
    /\ status = "err" => readings = {}
    /\ status = "ok" => /\ {r.value : r \in readings} = {ret}
                        /\ \A r \in readings : SkipWhitespace(data, r.end) = SkipWhitespace(data, pos)

\* Every parse ends, whatever the bytes are.
Terminates == <>(status \in {"ok", "err"})
=============================================================================
