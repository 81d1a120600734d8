---------------------------- MODULE ValueReading ----------------------------
(***************************************************************************)
(* What a text says, without going back: a reference is known by looking   *)
(* ahead for two numbers and an R, and everything else by its first byte.  *)
(* A text that says nothing has no reading.                                *)
(***************************************************************************)
EXTENDS ValueLexemes

CONSTANTS
    MaxObject,      \* u32::MAX
    MaxGeneration   \* u16::MAX

ASSUME MaximaAssumption == MaxObject \in Nat /\ MaxGeneration \in Nat

\* A number, white space, a number without a sign, white space and an "R".
ReferenceAt(data, p) ==
    UNION {LET second == SkipWhitespace(data, n.end) IN
           {Reading(Reference(<<Saturated(n.value, MaxObject), Saturated(g.value, MaxGeneration)>>),
                    SkipWhitespace(data, g.end) + 1) :
              g \in {h \in NumberAt(data, second) :
                       /\ At(data, second) \in Digits
                       /\ At(data, SkipWhitespace(data, h.end)) = 82}} : n \in NumberAt(data, p)}

NumberOrReferenceAt(data, p) ==
    IF ReferenceAt(data, p) # {} THEN ReferenceAt(data, p) ELSE NumberAt(data, p)

-----------------------------------------------------------------------------
(***************************************************************************)
(* What can be read from a place on, given what can be read later: a       *)
(* value, the rest of the items of an array with its end, the rest of the  *)
(* entries of a dictionary with its end.                                   *)
(***************************************************************************)

ArrayFrom(data, later, p) ==
    {Reading(Array(r.value), r.end) :
        r \in IF StartsArray(data, p) THEN later[p + 1]["items"] ELSE {}}

DictionaryFrom(data, later, p) ==
    {Reading(Dictionary(r.value), r.end) :
        r \in IF StartsDictionary(data, p) THEN later[p + 2]["entries"] ELSE {}}

ValueFrom(data, later, start) ==
    LET p == SkipWhitespaceAndComments(data, start) IN
    UNION {NumberOrReferenceAt(data, p), ArrayFrom(data, later, p), DictionaryFrom(data, later, p),
           KeywordAt(data, p), NameAt(data, p), StringAt(data, p), HexStringAt(data, p)}

ItemsFrom(data, later, start) ==
    LET p == SkipWhitespaceAndComments(data, start) IN
    IF EndsArray(data, p) THEN {Reading(<<>>, p + 1)}
    ELSE UNION {{Reading(<<v.value>> \o r.value, r.end) : r \in later[v.end]["items"]} :
                  v \in ValueFrom(data, later, start)}

\* A key given twice keeps the later value.
EntriesFrom(data, later, start) ==
    LET p == SkipWhitespaceAndComments(data, start)
        keys == {k \in ValueFrom(data, later, start) : k.value.kind = "Name"}
    IN  IF EndsDictionary(data, p) THEN {Reading(EmptyMap, p + 2)}
        ELSE UNION {UNION {{Reading(Overlay([n \in {k.value.name} |-> v.value], r.value), r.end) :
                              r \in later[v.end]["entries"]} :
                             v \in later[k.end]["value"]} : k \in keys}

PartsFrom(data, later, start) ==
    [part \in {"value", "items", "entries"} |->
        CASE part = "value"   -> ValueFrom(data, later, start)
          [] part = "items"   -> ItemsFrom(data, later, start)
          [] part = "entries" -> EntriesFrom(data, later, start)]

\* What is read at a place depends on what is read behind it.
Readings(data) ==
    LET at[p \in 1..(Len(data) + 1)] == PartsFrom(data, at, p) IN at

ValueAt(data, p) == Readings(data)[p]["value"]
=============================================================================
