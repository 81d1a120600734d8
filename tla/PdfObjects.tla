----------------------------- MODULE PdfObjects -----------------------------
(***************************************************************************)
(* The values the extractor computes with: enum PdfObj of parser.rs and    *)
(* the object table, a map from references (object and generation number)  *)
(* to values.  A value is a record with a "kind"; numbers, strings and     *)
(* booleans are one scalar, because nothing modelled here tells them       *)
(* apart.  A stream keeps what its consumers see of it: the data its       *)
(* filters yield and whether they yield any.                               *)
(***************************************************************************)
EXTENDS Sequences

Null            == [kind |-> "Null"]
Scalar          == [kind |-> "Scalar"]
Name(n)         == [kind |-> "Name", name |-> n]
Reference(r)    == [kind |-> "Reference", ref |-> r]
Array(s)        == [kind |-> "Array", items |-> s]
Dictionary(f)   == [kind |-> "Dictionary", dict |-> f]
Stream(d, good) == [kind |-> "Stream", data |-> d, decodes |-> good]

\* The dictionary without entries, and the map without objects.
EmptyMap == <<>>

-----------------------------------------------------------------------------

\* resolve_reference: one lookup, never followed further.  Null stands for the
\* Option's None: every caller treats an absent object and a null one alike.
Resolve(objects, r) == IF r \in DOMAIN objects THEN objects[r] ELSE Null

\* The "dictionary, or reference to a dictionary" matches of the code.
Deref(objects, o) == IF o.kind = "Reference" THEN Resolve(objects, o.ref) ELSE o

\* The entries of a dictionary, none for any other value.
Entries(o) == IF o.kind = "Dictionary" THEN o.dict ELSE EmptyMap

\* dict.get(key), with Null for None.
Entry(o, key) == IF key \in DOMAIN Entries(o) THEN Entries(o)[key] ELSE Null

\* A loop that inserts every (key, value) of over into a copy of base.
Overlay(base, over) ==
    [k \in DOMAIN base \cup DOMAIN over |-> IF k \in DOMAIN over THEN over[k] ELSE base[k]]
=============================================================================
