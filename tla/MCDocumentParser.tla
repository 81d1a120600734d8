-------------------------- MODULE MCDocumentParser --------------------------
(***************************************************************************)
(* Small files for DocumentParser: every sequence of up to three items, so *)
(* that each kind meets each other one in each order, and every update of  *)
(* a document by a second revision that ends in a cross-reference stream   *)
(* or a trailer of its own.                                                *)
(***************************************************************************)
EXTENDS DocumentParser, TLC

Key(n) == <<n, 0>>

Plain(n, name) == Object(Key(n), Name(name))

Content(raw, length) == StreamItem(Key(2), "", raw, length, TRUE, Null)

\* A stream's end of line before "endstream" is part of the raw bytes.
Contents ==
    {Content(<<Byte, White>>, 1),
     Content(<<Byte, White, White>>, 2),
     Content(<<Byte, White>>, 0),
     Content(<<Byte, White>>, Missing),
     Content(<<>>, Missing),
     Content(<<Byte, White, Endstream, White, Trailer, White>>, 5),
     Content(<<Byte, White, Endstream, White, Byte, White>>, 1),
     Content(<<Byte, White>>, Outside),
     Content(<<Byte, White>>, Saturated),
     Content(<<White, White>>, Saturated),
     Content(<<White, Endstream, White, Byte, White>>, Saturated)}

Inner(num, offset, name, parses) ==
    [num |-> num, offset |-> offset, value |-> Name(name), parses |-> parses]

ObjStm(counted, headers, decodes, entries) ==
    StreamItem(Key(3), "ObjStm", <<Byte, White>>, 1, decodes,
               [counted |-> counted, first |-> 2, headers |-> headers, entries |-> entries, size |-> 6])

ObjectStreams ==
    {ObjStm(TRUE, TRUE, TRUE, <<Inner(1, 0, "c", TRUE), Inner(3, 2, "d", TRUE)>>),
     ObjStm(TRUE, TRUE, TRUE, <<Inner(1, 2, "c", TRUE), Inner(2, 2, "d", TRUE), Inner(1, 3, "e", TRUE)>>),
     ObjStm(TRUE, TRUE, TRUE, <<Inner(1, 0, "c", TRUE), Inner(1, 2, "d", FALSE)>>),
     ObjStm(TRUE, TRUE, TRUE, <<Inner(1, 0, "c", TRUE), Inner(2, WordSize - 1, "d", TRUE)>>),
     ObjStm(TRUE, FALSE, TRUE, <<>>),
     ObjStm(TRUE, FALSE, FALSE, <<>>),
     ObjStm(FALSE, TRUE, TRUE, <<Inner(1, 0, "c", TRUE)>>)}

Entry3(type, num, at0, gen) == [type |-> type, num |-> num, at |-> at0, gen |-> gen]

XRefStream(n, widths, decodes, entries) ==
    StreamItem(Key(n), "XRef", <<Byte, White>>, 1, decodes,
               [widths |-> widths, entries |-> entries, root |-> Reference(Key(1))])

\* The entries of the first revision, and those of an update that starts at place p.
OldEntries == <<Entry3(0, 9, 0, 0), Entry3(1, 1, 1, 0), Entry3(1, 2, 2, 0), Entry3(2, 7, 3, 0)>>

NewEntries == <<Entry3(1, 1, 4, 0), Entry3(1, 2, 5, 0), Entry3(1, 1, 1, 1), Entry3(1, 3, 9, 0)>>

XRefStreams ==
    {XRefStream(4, TRUE, TRUE, OldEntries),
     XRefStream(5, TRUE, TRUE, NewEntries),
     XRefStream(4, FALSE, TRUE, OldEntries),
     XRefStream(4, TRUE, FALSE, OldEntries)}

TrailerItem(parses, target) == [kind |-> "trailer", parses |-> parses, root |-> target]

Marks ==
    {TrailerItem(TRUE, Reference(Key(1))), TrailerItem(TRUE, Reference(Key(3))),
     TrailerItem(TRUE, Null), TrailerItem(FALSE, Null),
     [kind |-> "xref"], [kind |-> "startxref"], [kind |-> "junk"]}

Items == {Plain(1, "a"), Plain(1, "b"), Object(<<1, 1>>, Name("f"))}
         \cup Contents \cup ObjectStreams \cup XRefStreams \cup Marks

\* Two revisions.  The objects of the second may be those of the first.
Updated ==
    {<<Plain(1, "a"), c1, x1, o2, c2, x2>> :
        c1 \in {Content(<<Byte, White>>, 1), Content(<<Byte, White, White>>, 2)},
        x1 \in {XRefStream(4, TRUE, TRUE, OldEntries), [kind |-> "xref"], TrailerItem(TRUE, Reference(Key(1)))},
        o2 \in {Plain(1, "b"), Plain(6, "b"), TrailerItem(TRUE, Reference(Key(1)))},
        c2 \in {Content(<<Byte, Byte, White>>, 2), [kind |-> "startxref"]} \cup ObjectStreams,
        x2 \in {XRefStream(5, TRUE, TRUE, NewEntries), XRefStream(3, TRUE, TRUE, NewEntries),
                TrailerItem(TRUE, Reference(Key(3))), [kind |-> "startxref"]}}

\* A document with cross-reference streams, and its object 1 updated: every stream
\* and every entry is as its writer should have made it.
MCUpdates ==
    LET Written(n, entries) == <<XRefStream(n, TRUE, TRUE, entries), [kind |-> "startxref"]>> IN
    {<<Plain(1, "a"), c>>
        \o Written(4, <<Entry3(1, 1, 1, 0), Entry3(1, 2, 2, 0), Entry3(1, 4, 3, 0)>>)
        \o <<Plain(1, "b")>>
        \o Written(5, <<Entry3(1, 1, 5, 0), Entry3(1, 5, 6, 0)>>) :
            c \in {Content(<<Byte, White>>, 1), Content(<<>>, 0)}}

MCFiles == UNION {[1..n -> Items] : n \in 0..3} \cup Updated
=============================================================================
