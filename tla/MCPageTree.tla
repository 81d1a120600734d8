----------------------------- MODULE MCPageTree -----------------------------
(***************************************************************************)
(* Small documents for PageTree.  Node 1 is the /Pages of the catalog and  *)
(* has every list of one or two kids; nodes 2 and 3 are inner nodes, pages *)
(* or dictionaries of another type; node 4 is a page or something that is  *)
(* no node at all.  Cycles, shared, repeated, direct, missing and unusable *)
(* kids all occur, at every depth.                                         *)
(***************************************************************************)
EXTENDS PageTree, TLC

MCRefs == 1..7

Good  == 5
Fonts == 6
Root  == 7

\* What nodes refer to.
Shared ==
    (Good  :> Stream("good", TRUE)) @@
    (Fonts :> Dictionary([Font |-> Dictionary([F1 |-> Reference(Root),
                                               F2 |-> Reference(Good)])]))

Leaf(contents, resources) ==
    Dictionary([Type |-> Name("Page"), Contents |-> contents, Resources |-> resources])

Inner(kids, resources) ==
    Dictionary([Type |-> Name("Pages"), Kids |-> Array(kids), Resources |-> resources])

OwnFont == Dictionary([Font |-> Reference(Root), XObject |-> Scalar])

FirstNodes ==
    LET kid == {Reference(1), Reference(2), Reference(3), Reference(4), Scalar} IN
    {Inner(<<a>>, Null) : a \in kid} \cup {Inner(<<a, b>>, OwnFont) : a \in kid, b \in kid}

InnerNodes ==
    {Inner(<<Reference(3), Reference(2)>>, Null),
     Inner(<<Reference(4), Reference(3)>>, Reference(Fonts)),
     Inner(<<Reference(2), Reference(4)>>, Dictionary([XObject |-> Null])),
     Inner(<<Scalar, Reference(1), Reference(3)>>, Reference(Good))}

LeafNodes ==
    {Leaf(Reference(Good), Null),
     Leaf(Reference(4), OwnFont),
     Leaf(Array(<<Reference(4), Reference(Good), Scalar>>), Reference(Fonts))}

OtherNodes == {Dictionary([Kids |-> Array(<<Reference(4)>>)])}

\* Node 4: a page, no object, a stream that does not decode, an array of streams.
LastNodes ==
    {Leaf(Array(<<Reference(Good)>>), OwnFont),
     Null,
     Stream("bad", FALSE),
     Array(<<Reference(Good), Scalar, Reference(Root), Reference(Good)>>)}

Document(root, a, b, c, d) ==
    [objects |-> Shared @@ (Root :> root) @@ (1 :> a) @@ (2 :> b) @@ (3 :> c) @@ (4 :> d),
     root    |-> Root]

Catalog == Dictionary([Type |-> Name("Catalog"), Pages |-> Reference(1)])

BadCatalogs == {Null, Scalar, Dictionary([Pages |-> Null]),
                Dictionary([Pages |-> Reference(Good)])}

MCDocuments ==
    {Document(Catalog, a, b, c, d) :
        a \in FirstNodes, b \in InnerNodes \cup LeafNodes \cup OtherNodes,
        c \in InnerNodes \cup LeafNodes, d \in LastNodes}
    \cup {Document(root, a, Null, Null, Null) : root \in BadCatalogs, a \in LeafNodes}
=============================================================================
