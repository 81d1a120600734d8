----------------------------- MODULE PageNodes ------------------------------
(***************************************************************************)
(* What collect_pages reads of one node of the page tree: its type, its    *)
(* kids, the resources it defines, the streams and the fonts of a page.    *)
(* objects is the table of objects, node the value of the node.            *)
(***************************************************************************)
EXTENDS PdfObjects

\* The "/Type" name of a node, "" when it has none.
TypeOf(node) ==
    IF Entry(node, "Type").kind = "Name" THEN Entry(node, "Type").name ELSE ""

\* The items of "/Kids": only a direct array counts.
Kids(node) ==
    IF Entry(node, "Kids").kind = "Array" THEN Entry(node, "Kids").items ELSE <<>>

\* "/Resources" of a node, direct or through one reference.
LocalResources(objects, node) == Entries(Deref(objects, Entry(node, "Resources")))

-----------------------------------------------------------------------------

\* The items among which the content streams are looked for: "/Contents" is a
\* reference to a stream, a reference to an array, or an array.
ContentItems(objects, node) ==
    LET contents == Entry(node, "Contents")
        target   == Deref(objects, contents)
    IN  IF target.kind = "Array" THEN target.items
        ELSE IF contents.kind = "Reference" THEN <<contents>> ELSE <<>>

\* The content streams, in order: an item that is not a reference to a stream is
\* passed over without an error.
ContentStreams(objects, node) ==
    LET IsStream(item) == /\ item.kind = "Reference"
                          /\ Resolve(objects, item.ref).kind = "Stream"
        found == SelectSeq(ContentItems(objects, node), IsStream)
    IN  [j \in DOMAIN found |-> Resolve(objects, found[j].ref)]

\* A stream whose filters fail makes the whole page, and the document, fail.
ContentsDecode(objects, node) ==
    LET streams == ContentStreams(objects, node)
    IN  \A j \in DOMAIN streams : streams[j].decodes

\* extract_fonts on the "/Font" entry of the merged resources: the names whose
\* font object is a dictionary, direct or through one reference.
FontsOf(objects, resources) ==
    LET fontDict == Entries(Deref(objects, Entry(Dictionary(resources), "Font")))
    IN  {name \in DOMAIN fontDict : Deref(objects, fontDict[name]).kind = "Dictionary"}

\* struct PageContent, with the reference of the page it was made of, which the
\* code forgets: the properties speak of it.
PageContent(objects, r, resources) ==
    [ref       |-> r,
     resources |-> resources,
     fonts     |-> FontsOf(objects, resources),
     streams   |-> ContentStreams(objects, Resolve(objects, r))]
=============================================================================
