--------------------------- MODULE DocumentTable ----------------------------
(***************************************************************************)
(* What parse_pdf makes of a file, without an order of steps: which items  *)
(* it looks at, which definition of every object it keeps, which trailer   *)
(* it believes, and for which files it answers an error or panics.         *)
(***************************************************************************)
EXTENDS DocumentFile

Pending == [status |-> "pending", objects |-> EmptyMap, root |-> Null]

Failed == [status |-> "err", objects |-> EmptyMap, root |-> Null]

Aborted == [status |-> "panic", objects |-> EmptyMap, root |-> Null]

\* The part of the file before the first table or trailer.
Body(f) ==
    LET ends == {p \in DOMAIN f : f[p].kind \in {"xref", "trailer"}} IN
    {p \in DOMAIN f : \A e \in ends : p < e}

\* The definitions of an object in a set of places, and the newest of them.
Places(f, S, k) == {p \in S : IsObject(f[p]) /\ k \in DOMAIN Insertions(f[p])}

Newest(f, S, k) == CHOOSE p \in Places(f, S, k) : \A q \in Places(f, S, k) : q <= p

BodyObjects(f) ==
    LET keys == UNION {DOMAIN Insertions(f[p]) : p \in {q \in Body(f) : IsObject(f[q])}} IN
    [k \in keys |-> Insertions(f[Newest(f, Body(f), k)])[k]]

\* The trailer right behind the body, or the last one of the file.
TrailerOf(f) ==
    {p \in TrailerPlaces(f) : \/ Body(f) = 1..(p - 1) /\ f[p].kind = "trailer"
                              \/ /\ \A q \in TrailerPlaces(f) : q <= p
                                 /\ ~\E q \in TrailerPlaces(f) :
                                        Body(f) = 1..(q - 1) /\ f[q].kind = "trailer"}

\* The table once the entries of a cross-reference stream have been followed: the
\* last usable entry of a key decides, and the body's definition where there is none.
Followed(f, objects, entries) ==
    LET usable == {j \in DOMAIN entries : EntryIsUsable(f, entries[j])}
        KeyOf(j) == <<entries[j].num, entries[j].gen>>
        Last(k) == CHOOSE j \in usable : KeyOf(j) = k /\ \A i \in usable : KeyOf(i) = k => i <= j
    IN  Overlay(objects, [k \in {KeyOf(j) : j \in usable} |-> ValueReparsed(f[entries[Last(k)].at])])

Answered(objects, root) ==
    IF root.kind = "Reference" THEN [status |-> "ok", objects |-> objects, root |-> root]
    ELSE Failed

\* The first item of the body that is rejected.
FirstRejected(f) ==
    CHOOSE p \in Body(f) : IsRejected(f[p]) /\ \A q \in Body(f) : IsRejected(f[q]) => p <= q

Outcome(f) ==
    LET objects == BodyObjects(f)
        stream == objects[FirstXRefKey(objects)]
    IN  IF \E p \in Body(f) : IsRejected(f[p])
        THEN IF Aborts(f[FirstRejected(f)]) THEN Aborted ELSE Failed
        ELSE IF TrailerOf(f) # {}
        THEN LET p == CHOOSE p \in TrailerOf(f) : TRUE IN
             IF TrailerParses(f[p]) THEN Answered(objects, f[p].root) ELSE Failed
        ELSE IF XRefKeys(objects) = {} \/ ~XRefIsUsable(stream) THEN Failed
        ELSE Answered(Followed(f, objects, stream.holds.entries), stream.holds.root)
=============================================================================
