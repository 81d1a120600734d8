--------------------------- MODULE DocumentParser ---------------------------
(***************************************************************************)
(* parse_pdf of parser.rs: one pass over the file that fills the table of  *)
(* objects, the search for a trailer and, when the file has none, a second *)
(* pass over the entries of a cross-reference stream.  The page tree is    *)
(* left to PageTree.                                                       *)
(***************************************************************************)
EXTENDS DocumentTable

CONSTANT Files

IsSequence(s) == s \in Seq({s[k] : k \in DOMAIN s})

\* The items of a file and the entries of a cross-reference stream come in an order;
\* an object is named by two numbers.
ASSUME FilesAssumption ==
    \A f \in Files :
        /\ IsSequence(f)
        /\ \A p \in DOMAIN f : IsObject(f[p]) =>
              \A k \in DOMAIN Insertions(f[p]) :
                  LET value == Insertions(f[p])[k] IN
                  /\ k \in Nat \X Nat
                  /\ value.kind = "Stream" /\ value.type = "XRef" => IsSequence(value.holds.entries)

VARIABLES
    file,     \* the items of the file: never changed
    at,       \* the item the linear pass is at
    objects,  \* the table of objects
    todo,     \* the entries of the cross-reference stream still to be followed
    root,     \* the /Root of the trailer
    phase     \* "linear", "trailer", "xref", "root", then "ok", "err" or "panic"

vars == <<file, at, objects, todo, root, phase>>

Fail == phase' = "err" /\ UNCHANGED <<file, at, objects, todo, root>>

Init ==
    /\ file \in Files
    /\ at = 1
    /\ objects = EmptyMap
    /\ todo = <<>>
    /\ root = Null
    /\ phase = "linear"

-----------------------------------------------------------------------------
(***************************************************************************)
(* The linear pass                                                         *)
(***************************************************************************)

\* The pass stops at the end, or at the first table or trailer.
PassIsOver == at <= Len(file) => file[at].kind \in {"xref", "trailer"}

AtItem == phase = "linear" /\ ~PassIsOver

\* Mutant: the keyword is recognised and not stepped over.
StayAtStartXref ==
    /\ AtItem
    /\ file[at].kind = "startxref"
    /\ UNCHANGED vars

SkipStartXref ==
    /\ AtItem
    /\ file[at].kind = "startxref"
    /\ at' = at + 1
    /\ UNCHANGED <<file, objects, todo, root, phase>>

\* Mutant: the first definition of an object stays.
ParseObjectOnce ==
    /\ AtItem
    /\ IsObject(file[at])
    /\ ~IsRejected(file[at])
    /\ objects' = Overlay(Insertions(file[at]), objects)
    /\ at' = at + 1
    /\ UNCHANGED <<file, todo, root, phase>>

\* An object is inserted whatever the table held under its number before.
ParseObject ==
    /\ AtItem
    /\ IsObject(file[at])
    /\ ~IsRejected(file[at])
    /\ objects' = Overlay(objects, Insertions(file[at]))
    /\ at' = at + 1
    /\ UNCHANGED <<file, todo, root, phase>>

RejectItem == AtItem /\ IsRejected(file[at]) /\ ~Aborts(file[at]) /\ Fail

AbortAtItem ==
    /\ AtItem
    /\ Aborts(file[at])
    /\ phase' = "panic"
    /\ UNCHANGED <<file, at, objects, todo, root>>

EndPass ==
    /\ phase = "linear"
    /\ PassIsOver
    /\ phase' = "trailer"
    /\ UNCHANGED <<file, at, objects, todo, root>>

-----------------------------------------------------------------------------
(***************************************************************************)
(* The trailer                                                             *)
(***************************************************************************)

\* Mutant: the search runs forwards.
FirstTrailerPlace ==
    IF TrailerPlaces(file) = {} THEN 0
    ELSE CHOOSE p \in TrailerPlaces(file) : \A q \in TrailerPlaces(file) : p <= q

\* The trailer the pass has stopped at, or else the last one; 0 if there is none.
TrailerPlace ==
    IF at <= Len(file) /\ file[at].kind = "trailer" THEN at
    ELSE IF TrailerPlaces(file) = {} THEN 0
    ELSE CHOOSE p \in TrailerPlaces(file) : \A q \in TrailerPlaces(file) : q <= p

ReadTrailer ==
    /\ phase = "trailer"
    /\ TrailerPlace # 0
    /\ TrailerParses(file[TrailerPlace])
    /\ root' = file[TrailerPlace].root
    /\ phase' = "root"
    /\ UNCHANGED <<file, at, objects, todo>>

RejectTrailer ==
    /\ phase = "trailer"
    /\ TrailerPlace # 0
    /\ ~TrailerParses(file[TrailerPlace])
    /\ Fail

\* The cross-reference stream with the least number serves as a trailer.
XRefStreamIsUsable == XRefKeys(objects) # {} /\ XRefIsUsable(objects[FirstXRefKey(objects)])

OpenXRefStream ==
    /\ phase = "trailer"
    /\ TrailerPlace = 0
    /\ XRefStreamIsUsable
    /\ todo' = objects[FirstXRefKey(objects)].holds.entries
    /\ root' = objects[FirstXRefKey(objects)].holds.root
    /\ phase' = "xref"
    /\ UNCHANGED <<file, at, objects>>

RejectXRefStream ==
    /\ phase = "trailer"
    /\ TrailerPlace = 0
    /\ ~XRefStreamIsUsable
    /\ Fail

\* The object is parsed again where the entry says it is, under the generation the
\* entry gives it.
FollowEntry ==
    /\ phase = "xref"
    /\ todo # <<>>
    /\ EntryIsUsable(file, Head(todo))
    /\ objects' = Put(objects, <<Head(todo).num, Head(todo).gen>>,
                      ValueReparsed(file[Head(todo).at]))
    /\ todo' = Tail(todo)
    /\ UNCHANGED <<file, at, root, phase>>

\* Mutant: an entry that cannot be used ends the loop.
BreakAtEntry ==
    /\ phase = "xref"
    /\ todo # <<>>
    /\ ~EntryIsUsable(file, Head(todo))
    /\ phase' = "root"
    /\ UNCHANGED <<file, at, objects, todo, root>>

SkipEntry ==
    /\ phase = "xref"
    /\ todo # <<>>
    /\ ~EntryIsUsable(file, Head(todo))
    /\ todo' = Tail(todo)
    /\ UNCHANGED <<file, at, objects, root, phase>>

EndXRef ==
    /\ phase = "xref"
    /\ todo = <<>>
    /\ phase' = "root"
    /\ UNCHANGED <<file, at, objects, todo, root>>

ReadRoot ==
    /\ phase = "root"
    /\ root.kind = "Reference"
    /\ phase' = "ok"
    /\ UNCHANGED <<file, at, objects, todo, root>>

RejectRoot == phase = "root" /\ root.kind # "Reference" /\ Fail

Next ==
    \/ SkipStartXref \/ ParseObject \/ RejectItem \/ AbortAtItem \/ EndPass
    \/ ReadTrailer \/ RejectTrailer
    \/ OpenXRefStream \/ RejectXRefStream \/ FollowEntry \/ SkipEntry \/ EndXRef
    \/ ReadRoot \/ RejectRoot

Spec == Init /\ [][Next]_vars

\* One thread of straight-line code: while it can step, it steps.
FairSpec == Spec /\ WF_vars(Next)

-----------------------------------------------------------------------------
(***************************************************************************)
(* Properties                                                              *)
(***************************************************************************)

Ends == {"ok", "err", "panic"}

Phases == {"linear", "trailer", "xref", "root"} \cup Ends

\* The pass stays within the file, and entries wait only in their phase.
TypeOK ==
    /\ phase \in Phases
    /\ at \in 1..(Len(file) + 1)
    /\ phase # "xref" => todo = <<>>

\* The items that insert an object under a key.
Definitions(k) == {p \in DOMAIN file : IsObject(file[p]) /\ k \in DOMAIN Insertions(file[p])}

\* The linear pass keeps, of every object, the definition nearest to the place it is
\* at, object streams included: an update overrides what it updates.
NewestIsKept ==
    phase \in {"linear", "trailer"} =>
        /\ \A k \in DOMAIN objects : \E p \in Definitions(k) :
              /\ p < at
              /\ objects[k] = Insertions(file[p])[k]
              /\ \A q \in Definitions(k) : q < at => q <= p
        /\ \A p \in 1..(at - 1) :
              IsObject(file[p]) => DOMAIN Insertions(file[p]) \subseteq DOMAIN objects

\* Whatever the entries of a cross-reference stream say, an object of the table is
\* one that the file defines under that number.
NothingIsInvented ==
    \A k \in DOMAIN objects : \E p \in DOMAIN file :
        /\ IsObject(file[p])
        /\ \/ k \in DOMAIN Insertions(file[p]) /\ objects[k] = Insertions(file[p])[k]
           \/ k[1] = file[p].key[1] /\ objects[k] = ValueReparsed(file[p])

\* What the caller of parse_pdf sees of the passes.
Table == INSTANCE DocumentAnswer WITH
    source <- file,
    answer <- [status  |-> IF phase \in Ends THEN phase ELSE "pending",
               objects |-> IF phase = "ok" THEN objects ELSE EmptyMap,
               root    |-> IF phase = "ok" THEN root ELSE Null]

\* The passes of parse_pdf answer what the declarative table says of every file: the
\* same definition of every object, the same trailer, an error or a panic for the same files.
AnswersTheTable == Table!Spec

\* Every parse ends.
Terminates == <>(phase \in Ends)

-----------------------------------------------------------------------------
(***************************************************************************)
(* What comments of the code say and the code does not do                  *)
(***************************************************************************)

\* parser.rs, "No length, search for endstream": a stream whose dictionary has no
\* usable /Length is no reason to give up.
MissingLengthIsSearched ==
    phase = "err" /\ ~PassIsOver =>
        ~(file[at].kind = "stream" /\ file[at].type = "" /\ file[at].length = Missing)

\* parser.rs, "If we found an XRef stream, parse it to get more objects": the entries
\* add objects and do not bring back a definition that the file itself overrides.
XRefAddsObjects ==
    phase = "ok" /\ TrailerPlace = 0 =>
        \A k \in DOMAIN objects : \A p \in Definitions(k) :
            p < at /\ (\A q \in Definitions(k) : q < at => q <= p)
                => objects[k] = Insertions(file[p])[k]
=============================================================================
