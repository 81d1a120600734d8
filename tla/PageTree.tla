------------------------------ MODULE PageTree ------------------------------
(***************************************************************************)
(* parse_page_tree and collect_pages of parser.rs: the recursive walk from *)
(* the catalog over "/Kids" that gathers the pages of a document.  The     *)
(* recursion is an explicit stack: a frame is an activation of             *)
(* collect_pages in its loop over kids, and the bottom frame is            *)
(* parse_page_tree itself, whose only "kid" is the catalog's "/Pages".     *)
(* The document is arbitrary: kids may be shared, cyclic, missing, direct  *)
(* objects or of any type.                                                 *)
(***************************************************************************)
EXTENDS PageCatalogue

CONSTANTS
    Refs,      \* the references (object number, generation) of a document
    Documents  \* [objects |-> table of objects, root |-> the trailer's Root]

\* Whatever the file, its objects are finitely many, /Kids is a sequence and its references
\* are references.
ASSUME DocumentsAssumption ==
    \A d \in Documents :
        /\ IsFiniteSet(DOMAIN d.objects)
        /\ d.root \in Refs
        /\ \A r \in Refs :
              LET node == Resolve(d.objects, r) IN
              /\ Kids(node) \in Seq({Kids(node)[j] : j \in DOMAIN Kids(node)})
              /\ \A j \in 1..Len(Kids(node)) :
                    Kids(node)[j].kind = "Reference" => Kids(node)[j].ref \in Refs
              /\ Entry(node, "Pages").kind = "Reference" => Entry(node, "Pages").ref \in Refs
              /\ LocalResources(d.objects, node) =
                    [k \in DOMAIN LocalResources(d.objects, node) |->
                        LocalResources(d.objects, node)[k]]

VARIABLES
    doc,      \* the parsed objects: never changed by the walk
    stack,    \* the activations of collect_pages
    visited,  \* the references entered so far
    pages,    \* the pages gathered so far
    status    \* "start", "walking", then "ok" or "err"

vars == <<doc, stack, visited, pages, status>>

Node(r) == Resolve(doc.objects, r)

Frame(r, kids, inherited) ==
    [ref |-> r, kids |-> kids, next |-> 1, inherited |-> inherited]

Top == stack[Len(stack)]

Kid == Top.kids[Top.next]

\* Mutant: what is inherited hides what a node defines itself.
MergedUnderneath(r) == Overlay(LocalResources(doc.objects, Node(r)), Top.inherited)

\* The resources a kid of the running activation gets, its own on top.
MergedResources(r) == Overlay(Top.inherited, LocalResources(doc.objects, Node(r)))

AdvanceKid == [stack EXCEPT ![Len(stack)].next = @ + 1]

\* Mutant: an Err does not get past the loop over kids it happens in.
FailInLoop ==
    /\ status' = "err"
    /\ stack' = AdvanceKid
    /\ pages' = <<>>

\* An Err unwinds every activation; the pages gathered so far are dropped.
Fail ==
    /\ status' = "err"
    /\ stack' = <<>>
    /\ pages' = <<>>

-----------------------------------------------------------------------------

Init ==
    /\ doc \in Documents
    /\ stack = <<>>
    /\ visited = {}
    /\ pages = <<>>
    /\ status = "start"

CatalogIsUsable == Entry(Node(doc.root), "Pages").kind = "Reference"

\* parse_page_tree: the catalog is found, is a dictionary and has a /Pages.
OpenCatalog ==
    /\ status = "start"
    /\ CatalogIsUsable
    /\ status' = "walking"
    /\ stack' = <<Frame(doc.root, <<Entry(Node(doc.root), "Pages")>>, EmptyMap)>>
    /\ UNCHANGED <<doc, visited, pages>>

RejectCatalog ==
    /\ status = "start"
    /\ ~CatalogIsUsable
    /\ Fail
    /\ UNCHANGED <<doc, visited>>

-----------------------------------------------------------------------------

AtKid == status = "walking" /\ Top.next <= Len(Top.kids)

\* Mutant: the loop stays at a kid that is not a reference.
StayAtDirectKid ==
    /\ AtKid
    /\ Kid.kind # "Reference"
    /\ UNCHANGED vars

\* A kid that is not a reference is not looked at.
SkipDirectKid ==
    /\ AtKid
    /\ Kid.kind # "Reference"
    /\ stack' = AdvanceKid
    /\ UNCHANGED <<doc, visited, pages, status>>

\* Mutant: a visited kid ends the loop of its parent.
BreakAtVisitedKid ==
    /\ AtKid
    /\ Kid.kind = "Reference"
    /\ Kid.ref \in visited
    /\ stack' = [stack EXCEPT ![Len(stack)].next = Len(Top.kids) + 1]
    /\ UNCHANGED <<doc, visited, pages, status>>

\* A recursive call that returns at once.
SkipVisitedKid ==
    /\ AtKid
    /\ Kid.kind = "Reference"
    /\ Kid.ref \in visited
    /\ stack' = AdvanceKid
    /\ UNCHANGED <<doc, visited, pages, status>>

\* Mutant: the visited set is not consulted.
EnterAnyKid(r) ==
    /\ AtKid
    /\ Kid.kind = "Reference"
    /\ r = Kid.ref
    /\ visited' = visited \cup {r}
    /\ UNCHANGED doc

\* Mutant: only leaves are marked.
EnterMarkingLeaves(r) ==
    /\ AtKid
    /\ Kid.kind = "Reference"
    /\ r = Kid.ref
    /\ r \notin visited
    /\ visited' = visited \cup {k \in {r} : TypeOf(Node(k)) = "Page"}
    /\ UNCHANGED doc

\* A recursive call that goes on: the reference is marked before it is resolved.
EnterKid(r) ==
    /\ AtKid
    /\ Kid.kind = "Reference"
    /\ r = Kid.ref
    /\ r \notin visited
    /\ visited' = visited \cup {r}
    /\ UNCHANGED doc

\* The reference has no object, or one that is not a dictionary.
RejectNode(r) ==
    /\ EnterKid(r)
    /\ Node(r).kind # "Dictionary"
    /\ Fail

\* Mutant: pages are put in front.
CollectPageFirst(r) ==
    /\ EnterKid(r)
    /\ TypeOf(Node(r)) = "Page"
    /\ ContentsDecode(doc.objects, Node(r))
    /\ pages' = <<PageContent(doc.objects, r, MergedResources(r))>> \o pages
    /\ stack' = AdvanceKid
    /\ UNCHANGED status

\* A leaf whose content streams all decode becomes the next page.
CollectPage(r) ==
    /\ EnterKid(r)
    /\ TypeOf(Node(r)) = "Page"
    /\ ContentsDecode(doc.objects, Node(r))
    /\ pages' = Append(pages, PageContent(doc.objects, r, MergedResources(r)))
    /\ stack' = AdvanceKid
    /\ UNCHANGED status

RejectPage(r) ==
    /\ EnterKid(r)
    /\ TypeOf(Node(r)) = "Page"
    /\ ~ContentsDecode(doc.objects, Node(r))
    /\ Fail

\* An inner node: its kids are visited with the resources merged so far.
EnterPages(r) ==
    /\ EnterKid(r)
    /\ TypeOf(Node(r)) = "Pages"
    /\ stack' = Append(AdvanceKid, Frame(r, Kids(Node(r)), MergedResources(r)))
    /\ UNCHANGED <<pages, status>>

\* Mutant: the kids of a node are followed whatever its type.
DescendAnyway(r) ==
    /\ EnterKid(r)
    /\ Node(r).kind = "Dictionary"
    /\ TypeOf(Node(r)) \notin {"Page", "Pages"}
    /\ stack' = Append(AdvanceKid, Frame(r, Kids(Node(r)), MergedResources(r)))
    /\ UNCHANGED <<pages, status>>

\* A dictionary of another type, or without one, contributes nothing.
IgnoreNode(r) ==
    /\ EnterKid(r)
    /\ Node(r).kind = "Dictionary"
    /\ TypeOf(Node(r)) \notin {"Page", "Pages"}
    /\ stack' = AdvanceKid
    /\ UNCHANGED <<pages, status>>

\* The end of an activation's loop over its kids.
Return ==
    /\ status = "walking"
    /\ Top.next > Len(Top.kids)
    /\ Len(stack) > 1
    /\ stack' = SubSeq(stack, 1, Len(stack) - 1)
    /\ UNCHANGED <<doc, visited, pages, status>>

\* The outermost call has returned: parse_page_tree answers Ok(pages).
Finish ==
    /\ status = "walking"
    /\ Top.next > Len(Top.kids)
    /\ Len(stack) = 1
    /\ status' = "ok"
    /\ stack' = <<>>
    /\ UNCHANGED <<doc, visited, pages>>

CollectPages ==
    \/ SkipDirectKid
    \/ SkipVisitedKid
    \/ \E r \in Refs : \/ RejectNode(r)
                       \/ CollectPage(r)
                       \/ RejectPage(r)
                       \/ EnterPages(r)
                       \/ IgnoreNode(r)
    \/ Return
    \/ Finish

Next == OpenCatalog \/ RejectCatalog \/ CollectPages

Spec == Init /\ [][Next]_vars

\* The walk is one thread of straight-line code: while it can step, it steps.
FairSpec == Spec /\ WF_vars(Next)

-----------------------------------------------------------------------------
(***************************************************************************)
(* Properties                                                              *)
(***************************************************************************)

\* The maps of resources that overlaying the nodes of the document can yield.
ResourceKeys   == UNION {DOMAIN LocalResources(doc.objects, Node(r)) : r \in Refs}
ResourceValues == UNION {{LocalResources(doc.objects, Node(r))[k] :
                            k \in DOMAIN LocalResources(doc.objects, Node(r))} : r \in Refs}
ResourceMaps   == UNION {[K -> ResourceValues] : K \in SUBSET ResourceKeys}

\* The lists an activation loops over.
KidLists == {Kids(Node(r)) : r \in Refs} \cup {<<Entry(Node(doc.root), "Pages")>>}

Frames == [ref : Refs, kids : KidLists, next : Nat \ {0}, inherited : ResourceMaps]

PageContents == {PageContent(doc.objects, r, m) : r \in Refs, m \in ResourceMaps}

\* Every variable has its type, and there are activations exactly while the walk
\* is under way (collect_pages, parser.rs).
TypeOK ==
    /\ status \in {"start", "walking", "ok", "err"}
    /\ visited \subseteq Refs
    /\ stack \in Seq(Frames)
    /\ pages \in Seq(PageContents)
    /\ (status = "walking") <=> (stack # <<>>)

PageNodesIn(S) == {r \in S : TypeOf(Node(r)) = "Page"}

\* A page is delivered once however many /Kids name it, and no page the walk has
\* entered is lost: until an error, the pages are the visited leaves, each once
\* (the visited set of collect_pages).
PagesOnce ==
    status # "err" =>
        /\ \A i, j \in DOMAIN pages : pages[i].ref = pages[j].ref => i = j
        /\ {pages[j].ref : j \in DOMAIN pages} = PageNodesIn(visited)

KidsIn(r, S) ==
    \A j \in 1..Len(Kids(Node(r))) :
        Kids(Node(r))[j].kind = "Reference" => Kids(Node(r))[j].ref \in S

\* A set of nodes that /Pages and the kids of the inner nodes never leave.
Closed(S) ==
    /\ Entry(Node(doc.root), "Pages").ref \in S
    /\ \A r \in S : TypeOf(Node(r)) = "Pages" => KidsIn(r, S)

\* r can be reached from the catalog's /Pages.
Reachable(r) == \A S \in SUBSET Refs : Closed(S) => r \in S

\* A walk that answers Ok has entered the nodes that can be reached and no
\* others, on graphs with cycles and shared kids too.
VisitedIsReachable ==
    status = "ok" => \A r \in Refs : r \in visited <=> Reachable(r)

\* While the walk runs it has entered no node it could not reach: what an error
\* is about belongs to the document.
OnlyReachableVisited == status # "start" => \A r \in visited : Reachable(r)

\* The recursion is no deeper than there are inner nodes: no node is active
\* twice, so that a cycle cannot exhaust the stack of the guest.
BoundedRecursion ==
    /\ \A i, j \in 2..Len(stack) : stack[i].ref = stack[j].ref => i = j
    /\ \A i \in 2..Len(stack) : /\ stack[i].ref \in visited
                                /\ TypeOf(Node(stack[i].ref)) = "Pages"

\* Resources are inherited along the chain of activations, from the kid each of
\* them is at, and from nowhere else.
InheritedFromParent ==
    \A j \in 2..Len(stack) :
        LET below == stack[j - 1] IN
        /\ below.kids[below.next - 1].kind = "Reference"
        /\ below.kids[below.next - 1].ref = stack[j].ref
        /\ stack[j].inherited = Overlay(below.inherited,
                                        LocalResources(doc.objects, Node(stack[j].ref)))

\* What the caller of parse_page_tree sees of the walk.
Catalogue == INSTANCE DocumentAnswer WITH
    source <- doc,
    answer <- [status |-> IF status \in {"ok", "err"} THEN status ELSE "pending",
               pages  |-> IF status = "ok" THEN pages ELSE <<>>]

\* The recursive walk answers what the declarative catalogue says of every document: same
\* verdict, same pages, in document order, same resources.
AnswersTheCatalogue == Catalogue!Spec

\* Every walk ends, whatever the graph of /Kids.
Terminates == <>(status \in {"ok", "err"})
=============================================================================
