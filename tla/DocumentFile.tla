---------------------------- MODULE DocumentFile ----------------------------
(***************************************************************************)
(* A PDF file as parse_pdf meets it: a sequence of top-level items.        *)
(*   object     "num gen obj value endobj"                                 *)
(*   stream     the same with a dictionary and raw bytes for a value       *)
(*   xref, trailer, startxref   the keywords and what follows them         *)
(*   junk       anything else: an object without header or endobj, a value *)
(*              that does not parse                                        *)
(* A position in the sequence stands for a byte offset.                    *)
(*                                                                         *)
(* The raw bytes of a stream are those between "stream", its end of line,  *)
(* and the "endstream" that its writer meant: white space, other bytes,    *)
(* and the words "endstream" and "trailer" where the data contain them.    *)
(* length is the number in /Length, or Missing (absent, or a reference),   *)
(* or Outside (it reaches past the end of the file), or Saturated (no word *)
(* can count it, so the conversion stops at the greatest one: the sum of   *)
(* position and length wraps to the place in front of the data).           *)
(* holds is what the filters yield of an object stream or a                *)
(* cross-reference stream.                                                 *)
(***************************************************************************)
EXTENDS PdfObjects, Integers

CONSTANT WordSize   \* the number of values of usize

ASSUME WordAssumption == WordSize \in Nat \ {0}

Missing  == -1
Outside  == -2
Saturated == -3

White     == "white"
Byte      == "byte"
Endstream == "endstream"
Trailer   == "trailer"

Object(key, value) == [kind |-> "object", key |-> key, value |-> value]

StreamItem(key, type, raw, length, decodes, holds) ==
    [kind |-> "stream", key |-> key, type |-> type, raw |-> raw, length |-> length,
     decodes |-> decodes, holds |-> holds]

IsObject(item) == item.kind \in {"object", "stream"}

\* A map with one more entry, or with another value for a key it has.
Put(map, key, value) == [k \in DOMAIN map \cup {key} |-> IF k = key THEN value ELSE map[k]]

-----------------------------------------------------------------------------
(***************************************************************************)
(* The bytes of a stream                                                   *)
(***************************************************************************)

\* The bytes up to the last one that is not white space.
Trimmed(bytes) ==
    SubSeq(bytes, 1, CHOOSE n \in 0..Len(bytes) :
                        /\ n > 0 => bytes[n] # White
                        /\ \A k \in (n + 1)..Len(bytes) : bytes[k] = White)

\* A length that is a number is believed when only white space is left between the
\* bytes it counts and "endstream".
LengthFits(item) ==
    /\ item.length \in 0..Len(item.raw)
    /\ \A k \in (item.length + 1)..Len(item.raw) : item.raw[k] = White

ByLength(item) == SubSeq(item.raw, 1, item.length)

\* search_for_endstream: up to the first "endstream" with white space on both sides.
\* Before the first byte there is the end of line of "stream".
BySearch(item) ==
    LET raw == item.raw
        IsEnd(k) == /\ raw[k] = Endstream
                    /\ k = 1 \/ raw[k - 1] = White
                    /\ k < Len(raw) /\ raw[k + 1] = White
    IN  IF \E k \in DOMAIN raw : IsEnd(k)
        THEN Trimmed(SubSeq(raw, 1, (CHOOSE k \in DOMAIN raw :
                                        /\ IsEnd(k)
                                        /\ \A j \in 1..(k - 1) : ~IsEnd(j)) - 1))
        ELSE Trimmed(raw)

\* The linear pass gets past a stream when its length fits; after a search it goes on
\* from the first byte of the data, which is right only if there is none.
StreamIsRead(item) == IF item.length \in {Missing, Outside} THEN item.raw = <<>> ELSE LengthFits(item)

\* With the greatest length only white space is skipped from in front of the data on; at
\* an "endstream" there, the data would be a slice that ends before it starts, a panic.
Aborts(item) ==
    /\ item.kind = "stream" /\ item.length = Saturated
    /\ \A k \in DOMAIN item.raw :
          item.raw[k] \in {White, Endstream} \/ \E j \in 1..(k - 1) : item.raw[j] = Endstream

StreamValue(item, bytes) ==
    [kind |-> "Stream", type |-> item.type, data |-> bytes,
     decodes |-> item.decodes, holds |-> item.holds]

\* What the linear pass stores of an object.
ValueRead(item) ==
    IF item.kind = "object" THEN item.value
    ELSE StreamValue(item, IF item.length \in {Missing, Outside} THEN BySearch(item) ELSE ByLength(item))

\* parse_object_value, which the entries of a cross-reference stream lead to: a
\* stream's length is not consulted.
ValueReparsed(item) ==
    IF item.kind = "object" THEN item.value ELSE StreamValue(item, BySearch(item))

-----------------------------------------------------------------------------
(***************************************************************************)
(* The objects in an object stream                                         *)
(***************************************************************************)

\* holds = [counted, first, headers, entries, size]: /First and /N are numbers, the number
\* in /First, the pairs of numbers parse, the objects they announce, the length of the data.
IsUnpacked(item) == item.type = "ObjStm" /\ item.holds.counted /\ item.decodes

\* Where an object begins in the data: offsets count from /First, in the width of a word.
EntryStart(holds, j) == (holds.first + holds.entries[j].offset) % WordSize

\* The data up to the next object's, if that is anything and parses.
EntryIsRead(holds, j) ==
    LET end == IF j < Len(holds.entries) THEN EntryStart(holds, j + 1) ELSE holds.size
    IN  /\ EntryStart(holds, j) < end
        /\ end <= holds.size
        /\ holds.entries[j].parses

\* The insertions, in order, under generation 0: the last one of a number stays.
Unpacked(item) ==
    LET entries == item.holds.entries
        read == {j \in DOMAIN entries : EntryIsRead(item.holds, j)}
        Latest(k) == CHOOSE j \in read :
                        /\ entries[j].num = k[1]
                        /\ \A i \in read : entries[i].num = k[1] => i <= j
    IN  [k \in {<<entries[j].num, 0>> : j \in read} |-> entries[Latest(k)].value]

\* All that one item inserts, the objects it contains before itself.
Insertions(item) ==
    LET inner == IF item.kind = "stream" /\ IsUnpacked(item) THEN Unpacked(item) ELSE EmptyMap
    IN  Put(inner, item.key, ValueRead(item))

\* The item ends parse_pdf, with an error unless it aborts.
IsRejected(item) ==
    \/ item.kind = "junk"
    \/ item.kind = "stream" /\ ~StreamIsRead(item)
    \/ item.kind = "stream" /\ IsUnpacked(item) /\ ~item.holds.headers

-----------------------------------------------------------------------------
(***************************************************************************)
(* Trailers and cross-reference streams                                    *)
(***************************************************************************)

\* The places where the bytes "trailer" occur.
TrailerPlaces(file) ==
    {p \in DOMAIN file :
        \/ file[p].kind = "trailer"
        \/ file[p].kind = "stream" /\ \E k \in DOMAIN file[p].raw : file[p].raw[k] = Trailer}

\* A trailer's dictionary parses; the word alone is not followed by one.
TrailerParses(item) == item.kind = "trailer" /\ item.parses

\* The order of the keys in a BTreeMap.
Before(k1, k2) == k1[1] < k2[1] \/ (k1[1] = k2[1] /\ k1[2] < k2[2])

XRefKeys(objects) ==
    {k \in DOMAIN objects : objects[k].kind = "Stream" /\ objects[k].type = "XRef"}

FirstXRefKey(objects) ==
    CHOOSE k \in XRefKeys(objects) : \A l \in XRefKeys(objects) \ {k} : Before(k, l)

\* holds = [widths, entries, root]: /W is an array of three, the entries the data
\* decode to, the /Root of the dictionary.
XRefIsUsable(stream) == stream.holds.widths /\ stream.decodes

\* Mutant: the number in front of the object is not compared.
EntryLeadsAnywhere(file, entry) ==
    /\ entry.type = 1
    /\ entry.at \in DOMAIN file
    /\ IsObject(file[entry.at])

\* An entry of type 1 counts when the object at its offset has its number.
EntryIsUsable(file, entry) ==
    /\ entry.type = 1
    /\ entry.at \in DOMAIN file
    /\ IsObject(file[entry.at])
    /\ file[entry.at].key[1] = entry.num
=============================================================================
