--------------------------- MODULE PageCatalogue ---------------------------
(***************************************************************************)
(* What the page tree of a document promises, without a walk: the pages    *)
(* are the leaves that can be reached from the catalog's /Pages, each once *)
(* and in document order, each with the resources of its nearest           *)
(* ancestors; and one unusable node that can be reached makes the whole    *)
(* document an error.  Document order is the lexicographic order of the    *)
(* positions among /Kids that lead to a page.                              *)
(***************************************************************************)
EXTENDS PageNodes, Integers, FiniteSets

Pending == [status |-> "pending", pages |-> <<>>]

Failed == [status |-> "err", pages |-> <<>>]

PagesEntry(d) == Entry(Resolve(d.objects, d.root), "Pages")

\* The kid at a place of what an inner node refers to; Null where there is none.
KidAt(d, item, place) ==
    LET node == Deref(d.objects, item) IN
    IF item.kind = "Reference" /\ TypeOf(node) = "Pages" /\ place \in DOMAIN Kids(node)
    THEN Kids(node)[place] ELSE Null

\* The items on the way that the places in path describe, from /Pages down.
Trail(d, path) ==
    LET item[j \in 0..Len(path)] == IF j = 0 THEN PagesEntry(d) ELSE KidAt(d, item[j - 1], path[j])
    IN  [j \in 1..(Len(path) + 1) |-> item[j - 1]]

\* On a simple path every step leads to a reference, and to a new one.
IsSimple(nodes) ==
    /\ \A j \in DOMAIN nodes : nodes[j].kind = "Reference"
    /\ \A j, k \in DOMAIN nodes : nodes[j].ref = nodes[k].ref => j = k

\* The simple paths, with the places they take and the nodes they enter.  None is longer
\* than there are inner nodes.
Paths(d) ==
    LET inner == {r \in DOMAIN d.objects : TypeOf(d.objects[r]) = "Pages"}
        places == UNION {DOMAIN Kids(d.objects[r]) : r \in inner}
        ways == UNION {[1..n -> places] : n \in 0..Cardinality(inner)}
        Entered(nodes) == [j \in DOMAIN nodes |-> nodes[j].ref]
    IN  {[at |-> way, refs |-> Entered(Trail(d, way))] : way \in {w \in ways : IsSimple(Trail(d, w))}}

Target(path) == path.refs[Len(path.refs)]

\* Document order.
Precedes(way1, way2) ==
    \/ Len(way1) < Len(way2) /\ \A i \in 1..Len(way1) : way1[i] = way2[i]
    \/ \E j \in 1..Len(way1) : /\ j <= Len(way2)
                               /\ way1[j] < way2[j]
                               /\ \A i \in 1..(j - 1) : way1[i] = way2[i]

\* A key of the resources is the one of the nearest node on the way that has it.
NearestResources(d, refs) ==
    LET local == [j \in DOMAIN refs |-> LocalResources(d.objects, Resolve(d.objects, refs[j]))]
        Nearest(k) == CHOOSE j \in DOMAIN local :
                        /\ k \in DOMAIN local[j]
                        /\ \A l \in DOMAIN local : k \in DOMAIN local[l] => l <= j
    IN  [k \in UNION {DOMAIN local[j] : j \in DOMAIN local} |-> local[Nearest(k)][k]]

-----------------------------------------------------------------------------

\* A node no document may contain: absent, not a dictionary, or a page with a
\* content stream that does not decode.
Unusable(d, r) ==
    LET node == Resolve(d.objects, r) IN
    \/ node.kind # "Dictionary"
    \/ TypeOf(node) = "Page" /\ ~ContentsDecode(d.objects, node)

\* The page at the end of a path.
PageAt(d, path) == PageContent(d.objects, Target(path), NearestResources(d, path.refs))

Outcome(d) ==
    LET paths == Paths(d)
        reached == {Target(p) : p \in paths}
        \* The path by which document order meets a node first.
        firsts == {p \in paths : \A q \in paths : Target(q) = Target(p) => ~Precedes(q.at, p.at)}
        leaves == {p \in firsts : TypeOf(Resolve(d.objects, Target(p))) = "Page"}
        order == CHOOSE s \in [1..Cardinality(leaves) -> leaves] :
                    \A i, j \in DOMAIN s : i < j => Precedes(s[i].at, s[j].at)
    IN  IF reached = {} \/ \E r \in reached : Unusable(d, r) THEN Failed
        ELSE [status |-> "ok", pages |-> [j \in DOMAIN order |-> PageAt(d, order[j])]]
=============================================================================
