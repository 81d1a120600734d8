-------------------------- MODULE PageTree_proofs --------------------------
(***************************************************************************)
(* Proofs about PageTree, for every set of references and every document:  *)
(* the walk is well typed, delivers each page once, recurses into a node   *)
(* at most once, enters only nodes that can be reached, and has entered    *)
(* all of them when it answers Ok.  It meets each node by the first walk   *)
(* to it in document order, so that it answers what PageCatalogue says,    *)
(* and each of its steps leaves less ahead.                                *)
(***************************************************************************)
EXTENDS PageTree, PdfSyntax_proofs, FiniteSetTheorems

\* The activations: each loops over the kids of an inner node it has entered, has
\* gone through the kids before its next one, and all of those are visited.
StackInv ==
    /\ status = "walking" => CatalogIsUsable
    /\ stack # <<>> => stack[1].kids = <<Entry(Node(doc.root), "Pages")>>
    /\ \A j \in 2..Len(stack) : /\ stack[j].kids = Kids(Node(stack[j].ref))
                                /\ stack[j].ref \in visited
                                /\ TypeOf(Node(stack[j].ref)) = "Pages"
    /\ \A j \in 1..Len(stack) :
          /\ stack[j].next <= Len(stack[j].kids) + 1
          /\ \A k \in 1..(stack[j].next - 1) :
                stack[j].kids[k].kind = "Reference" => stack[j].kids[k].ref \in visited

\* What is visited lies in every closed set; an inner node that is visited is
\* active or has all its kids visited, so that in the end nothing is missing.
ReachInv ==
    /\ status = "start" => visited = {}
    /\ status # "start" => \A S \in SUBSET Refs : Closed(S) => visited \subseteq S
    /\ status = "walking" =>
          \A r \in visited : TypeOf(Node(r)) = "Pages" =>
              \/ \E j \in 2..Len(stack) : stack[j].ref = r
              \/ KidsIn(r, visited)
    /\ status = "ok" => Closed(visited)

DocInv == doc \in Documents

IInv == DocInv /\ TypeOK /\ StackInv

-----------------------------------------------------------------------------
(***************************************************************************)
(* The document and the stack                                              *)
(***************************************************************************)

\* The activations that a step leaves alone, and what it changes on the top one.
LEMMA StackFacts ==
    ASSUME TypeOK, status = "walking"
    PROVE  /\ Len(stack) \in Nat \ {0}
           /\ Top \in Frames
           /\ \A j \in 1..Len(stack) : stack[j] \in Frames
           /\ AdvanceKid \in Seq(Frames)
           /\ Len(AdvanceKid) = Len(stack)
           /\ \A j \in 1..Len(stack) :
                 /\ AdvanceKid[j].ref = stack[j].ref
                 /\ AdvanceKid[j].kids = stack[j].kids
                 /\ AdvanceKid[j].inherited = stack[j].inherited
                 /\ AdvanceKid[j].next = IF j = Len(stack) THEN stack[j].next + 1
                                                           ELSE stack[j].next
<1>1. stack \in Seq(Frames) /\ stack # <<>>
  BY DEF TypeOK
<1>2. Len(stack) \in Nat \ {0}
  BY <1>1, EmptySeq
<1>3. \A j \in 1..Len(stack) : stack[j] \in Frames
  BY <1>1, ElementOfSeq
<1>4. Top \in Frames
  BY <1>2, <1>3 DEF Top
<1> DEFINE moved == [Top EXCEPT !.next = @ + 1]
<1>5. moved \in Frames
  BY <1>4 DEF Frames
<1>6. AdvanceKid = [stack EXCEPT ![Len(stack)] = moved]
  BY DEF AdvanceKid, Top
<1>7. /\ AdvanceKid \in Seq(Frames)
      /\ Len(AdvanceKid) = Len(stack)
      /\ \A j \in 1..Len(stack) : AdvanceKid[j] = IF j = Len(stack) THEN moved ELSE stack[j]
  BY <1>1, <1>2, <1>5, <1>6, ExceptSeq
<1>8. moved.ref = Top.ref /\ moved.kids = Top.kids /\ moved.inherited = Top.inherited
      /\ moved.next = Top.next + 1
  BY <1>4 DEF Frames
<1> QED
  BY <1>2, <1>3, <1>4, <1>7, <1>8 DEF Top

\* What the document gives the walk: DocumentsAssumption, for the document at hand.
LEMMA DocumentFacts ==
    ASSUME DocInv, NEW r \in Refs
    PROVE  /\ doc.root \in Refs
           /\ Len(Kids(Node(r))) \in Nat /\ DOMAIN Kids(Node(r)) = 1..Len(Kids(Node(r)))
           /\ \A j \in 1..Len(Kids(Node(r))) :
                 Kids(Node(r))[j].kind = "Reference" => Kids(Node(r))[j].ref \in Refs
           /\ CatalogIsUsable => Entry(Node(doc.root), "Pages").ref \in Refs
           /\ LocalResources(doc.objects, Node(r)) =
                 [k \in DOMAIN LocalResources(doc.objects, Node(r)) |->
                     LocalResources(doc.objects, Node(r))[k]]
<1>1. Kids(Node(r)) \in Seq({Kids(Node(r))[j] : j \in DOMAIN Kids(Node(r))})
  BY DocumentsAssumption DEF DocInv, Node
<1>2. Len(Kids(Node(r))) \in Nat /\ DOMAIN Kids(Node(r)) = 1..Len(Kids(Node(r)))
  BY <1>1, LenProperties
<1> QED
  BY <1>2, DocumentsAssumption DEF DocInv, Node, CatalogIsUsable

LEMMA EmptyMapTyped == EmptyMap \in ResourceMaps
<1>1. EmptyMap \in [1..0 -> ResourceValues]
  BY EmptySeq, LenProperties, Zenon DEF EmptyMap
<1>2. 1..0 \in SUBSET ResourceKeys
  OBVIOUS
<1> QED
  BY <1>1, <1>2 DEF ResourceMaps

\* Overlaying the resources of a node keeps a map of resources one.
LEMMA OverlayTyped ==
    ASSUME DocInv, NEW r \in Refs, NEW m \in ResourceMaps
    PROVE  Overlay(m, LocalResources(doc.objects, Node(r))) \in ResourceMaps
<1> DEFINE local == LocalResources(doc.objects, Node(r))
           K == DOMAIN local \cup DOMAIN m
<1>1. PICK L \in SUBSET ResourceKeys : m \in [L -> ResourceValues]
  BY DEF ResourceMaps
<1>2. DOMAIN local \subseteq ResourceKeys
  BY DEF ResourceKeys
<1>3. \A k \in DOMAIN local : local[k] \in ResourceValues
  BY DEF ResourceValues
<1>4. Overlay(m, local) = [k \in K |-> IF k \in DOMAIN local THEN local[k] ELSE m[k]]
  BY DEF Overlay
<1>5. K \in SUBSET ResourceKeys
  BY <1>1, <1>2
<1>6. Overlay(m, local) \in [K -> ResourceValues]
  BY <1>1, <1>3, <1>4
<1> QED
  BY <1>5, <1>6 DEF ResourceMaps

\* The operators that speak of the document do not change with the walk.
LEMMA DocumentFrozen ==
    ASSUME doc' = doc
    PROVE  /\ Frames' = Frames
           /\ PageContents' = PageContents
           /\ DocInv => DocInv'
  BY DEF Frames, PageContents, KidLists, ResourceMaps, ResourceKeys, ResourceValues, Node, DocInv

-----------------------------------------------------------------------------
(***************************************************************************)
(* Type correctness                                                        *)
(***************************************************************************)

LEMMA InitTyped == Init => DocInv /\ TypeOK
<1> SUFFICES ASSUME Init PROVE DocInv /\ TypeOK
  OBVIOUS
<1>1. <<>> \in Seq(Frames) /\ <<>> \in Seq(PageContents)
  BY EmptySeq
<1> QED
  BY <1>1 DEF Init, DocInv, TypeOK

\* A new activation of collect_pages, with what it inherits, is a frame.
LEMMA FrameTyped ==
    ASSUME DocInv, NEW r \in Refs, NEW m \in ResourceMaps, NEW kids \in KidLists
    PROVE  Frame(r, kids, m) \in Frames
  BY DEF Frame, Frames

LEMMA StepTyped == DocInv /\ TypeOK /\ [Next]_vars => DocInv' /\ TypeOK'
<1> SUFFICES ASSUME DocInv, TypeOK, [Next]_vars
             PROVE  DocInv' /\ TypeOK'
  OBVIOUS
<1>0. doc' = doc
  BY DEF Next, vars, OpenCatalog, RejectCatalog, CollectPages, SkipDirectKid, SkipVisitedKid,
         EnterKid, RejectNode, CollectPage, RejectPage, EnterPages, IgnoreNode, Return, Finish
<1>f. Frames' = Frames /\ PageContents' = PageContents /\ DocInv'
  BY <1>0, DocumentFrozen
<1>e. <<>> \in Seq(Frames) /\ <<>> \in Seq(PageContents)
  BY EmptySeq
<1>u. CASE UNCHANGED vars
  BY <1>u, <1>f DEF vars, TypeOK
<1>a. CASE OpenCatalog
  <2>1. doc.root \in Refs
    BY DocumentsAssumption DEF DocInv
  <2>2. <<Entry(Node(doc.root), "Pages")>> \in KidLists
    BY DEF KidLists
  <2>3. Frame(doc.root, <<Entry(Node(doc.root), "Pages")>>, EmptyMap) \in Frames
    BY <2>1, <2>2, EmptyMapTyped, FrameTyped
  <2> QED
    BY <1>a, <1>f, <2>3 DEF OpenCatalog, TypeOK
<1>b. CASE RejectCatalog
  BY <1>b, <1>f, <1>e DEF RejectCatalog, Fail, TypeOK
<1>c. CASE SkipDirectKid \/ SkipVisitedKid
  <2>1. status = "walking" /\ stack' = AdvanceKid
    BY <1>c DEF SkipDirectKid, SkipVisitedKid, AtKid
  <2>2. AdvanceKid \in Seq(Frames) /\ AdvanceKid # <<>>
    BY <2>1, StackFacts, EmptySeq
  <2> QED
    BY <1>c, <1>f, <2>1, <2>2 DEF SkipDirectKid, SkipVisitedKid, TypeOK
<1>d. ASSUME NEW r \in Refs, EnterKid(r)
      PROVE  /\ visited' \subseteq Refs
             /\ status = "walking"
             /\ AdvanceKid \in Seq(Frames) /\ AdvanceKid # <<>>
             /\ MergedResources(r) \in ResourceMaps
  <2>1. status = "walking" /\ visited' = visited \cup {r}
    BY <1>d DEF EnterKid, AtKid
  <2>2. AdvanceKid \in Seq(Frames) /\ AdvanceKid # <<>> /\ Top \in Frames
    BY <2>1, StackFacts, EmptySeq
  <2>3. MergedResources(r) \in ResourceMaps
    BY <2>2, OverlayTyped DEF MergedResources, Frames
  <2> QED
    BY <2>1, <2>2, <2>3 DEF TypeOK
<1>g. ASSUME NEW r \in Refs, RejectNode(r) \/ RejectPage(r)
      PROVE  TypeOK'
  <2>1. EnterKid(r) /\ Fail
    BY <1>g DEF RejectNode, RejectPage
  <2> QED
    BY <2>1, <1>d, <1>e, <1>f DEF Fail, TypeOK
<1>h. ASSUME NEW r \in Refs, CollectPage(r)
      PROVE  TypeOK'
  <2>1. EnterKid(r) /\ pages' = Append(pages, PageContent(doc.objects, r, MergedResources(r)))
        /\ stack' = AdvanceKid /\ status' = status
    BY <1>h DEF CollectPage
  <2>2. PageContent(doc.objects, r, MergedResources(r)) \in PageContents
    BY <2>1, <1>d DEF PageContents
  <2>3. pages' \in Seq(PageContents)
    BY <2>1, <2>2, AppendProperties DEF TypeOK
  <2> QED
    BY <2>1, <2>3, <1>d, <1>f DEF TypeOK
<1>i. ASSUME NEW r \in Refs, EnterPages(r)
      PROVE  TypeOK'
  <2>1. EnterKid(r) /\ stack' = Append(AdvanceKid, Frame(r, Kids(Node(r)), MergedResources(r)))
        /\ pages' = pages /\ status' = status
    BY <1>i DEF EnterPages
  <2>2. Kids(Node(r)) \in KidLists
    BY DEF KidLists
  <2>3. Frame(r, Kids(Node(r)), MergedResources(r)) \in Frames
    BY <2>1, <2>2, <1>d, FrameTyped
  <2>4. stack' \in Seq(Frames) /\ stack' # <<>>
    BY <2>1, <2>3, <1>d, AppendProperties
  <2> QED
    BY <2>1, <2>4, <1>d, <1>f DEF TypeOK
<1>j. ASSUME NEW r \in Refs, IgnoreNode(r)
      PROVE  TypeOK'
  <2>1. EnterKid(r) /\ stack' = AdvanceKid /\ pages' = pages /\ status' = status
    BY <1>j DEF IgnoreNode
  <2> QED
    BY <2>1, <1>d, <1>f DEF TypeOK
<1>k. CASE Return
  <2>1. status = "walking" /\ Len(stack) > 1 /\ stack' = SubSeq(stack, 1, Len(stack) - 1)
    BY <1>k DEF Return
  <2>2. Len(stack) \in Nat /\ \A j \in 1..(Len(stack) - 1) : stack[j] \in Frames
    BY <2>1, StackFacts
  <2>3. stack' \in Seq(Frames) /\ Len(stack') = Len(stack) - 1
    BY <2>1, <2>2, SubSeqProperties
  <2>e. Len(<<>>) = 0
    BY EmptySeq
  <2>m. Len(stack) > 1 /\ Len(stack) \in Nat /\ Len(stack') = Len(stack) - 1
    BY <2>1, <2>2, <2>3, Zenon
  <2>n. Len(stack') # 0
    BY <2>m
  <2>4. stack' # <<>>
    BY <2>n, <2>e, Zenon
  <2> QED
    BY <1>k, <2>1, <2>3, <2>4, <1>f DEF Return, TypeOK
<1>l. CASE Finish
  BY <1>l, <1>e, <1>f DEF Finish, TypeOK
<1> QED
  BY <1>f, <1>u, <1>a, <1>b, <1>c, <1>g, <1>h, <1>i, <1>j, <1>k, <1>l DEF Next, CollectPages

\* The walk never leaves its types, whatever the document.
THEOREM TypeCorrect == Spec => []TypeOK
<1>1. Init => DocInv /\ TypeOK
  BY InitTyped
<1>2. DocInv /\ TypeOK /\ [Next]_vars => (DocInv /\ TypeOK)'
  BY StepTyped
<1> QED
  BY <1>1, <1>2, PTL DEF Spec

-----------------------------------------------------------------------------
(***************************************************************************)
(* The activations                                                         *)
(***************************************************************************)

\* The conjuncts of StackInv that speak of the list of activations f, of what is
\* visited and of the document.
Activations(f, seen) ==
    /\ \A j \in 2..Len(f) : /\ f[j].kids = Kids(Node(f[j].ref))
                            /\ f[j].ref \in seen
                            /\ TypeOf(Node(f[j].ref)) = "Pages"
    /\ \A j \in 1..Len(f) :
          /\ f[j].next <= Len(f[j].kids) + 1
          /\ \A k \in 1..(f[j].next - 1) :
                f[j].kids[k].kind = "Reference" => f[j].kids[k].ref \in seen

LEMMA AdvanceKeepsActivations ==
    ASSUME TypeOK, StackInv, AtKid, NEW seen, visited \subseteq seen,
           Kid.kind = "Reference" => Kid.ref \in seen
    PROVE  Activations(AdvanceKid, seen) /\ AdvanceKid[1].kids = stack[1].kids
<1>1. status = "walking" /\ Top.next <= Len(Top.kids)
  BY DEF AtKid
<1>2. /\ Len(stack) \in Nat \ {0}
      /\ \A j \in 1..Len(stack) : stack[j] \in Frames
      /\ Len(AdvanceKid) = Len(stack)
      /\ \A j \in 1..Len(stack) :
            /\ AdvanceKid[j].ref = stack[j].ref
            /\ AdvanceKid[j].kids = stack[j].kids
            /\ AdvanceKid[j].next = IF j = Len(stack) THEN stack[j].next + 1
                                                      ELSE stack[j].next
  BY <1>1, StackFacts
<1>3. ASSUME NEW j \in 2..Len(AdvanceKid)
      PROVE  /\ AdvanceKid[j].kids = Kids(Node(AdvanceKid[j].ref))
             /\ AdvanceKid[j].ref \in seen
             /\ TypeOf(Node(AdvanceKid[j].ref)) = "Pages"
  BY <1>2, <1>3 DEF StackInv
<1>4. ASSUME NEW j \in 1..Len(AdvanceKid), j # Len(stack)
      PROVE  /\ AdvanceKid[j].next <= Len(AdvanceKid[j].kids) + 1
             /\ \A k \in 1..(AdvanceKid[j].next - 1) :
                   AdvanceKid[j].kids[k].kind = "Reference" => AdvanceKid[j].kids[k].ref \in seen
  BY <1>2, <1>4 DEF StackInv
<1>5. ASSUME NEW j \in 1..Len(AdvanceKid), j = Len(stack)
      PROVE  /\ AdvanceKid[j].next <= Len(AdvanceKid[j].kids) + 1
             /\ \A k \in 1..(AdvanceKid[j].next - 1) :
                   AdvanceKid[j].kids[k].kind = "Reference" => AdvanceKid[j].kids[k].ref \in seen
  <2>1. stack[j] = Top /\ stack[j].next \in Nat \ {0} /\ AdvanceKid[j].kids = Top.kids
        /\ AdvanceKid[j].next = Top.next + 1
    BY <1>2, <1>5 DEF Top, Frames
  <2>2. AdvanceKid[j].next <= Len(AdvanceKid[j].kids) + 1
    BY <1>1, <2>1
  <2>3. ASSUME NEW k \in 1..(AdvanceKid[j].next - 1), AdvanceKid[j].kids[k].kind = "Reference"
        PROVE  AdvanceKid[j].kids[k].ref \in seen
    <3>1. CASE k = Top.next
      BY <2>1, <2>3, <3>1 DEF Kid
    <3>2. CASE k # Top.next
      <4>1. k \in 1..(stack[j].next - 1)
        BY <2>1, <2>3, <3>2
      <4> QED
        BY <1>2, <1>5, <2>1, <2>3, <4>1 DEF StackInv
    <3> QED
      BY <3>1, <3>2
  <2> QED
    BY <2>2, <2>3
<1> QED
  BY <1>2, <1>3, <1>4, <1>5 DEF Activations

\* An activation pushed on others that are in order, none of its kids looked at.
LEMMA PushKeepsActivations ==
    ASSUME NEW f \in Seq(Frames), Len(f) \in Nat \ {0}, NEW seen,
           NEW r \in seen, NEW m, Frame(r, Kids(Node(r)), m) \in Frames,
           TypeOf(Node(r)) = "Pages", Len(Kids(Node(r))) \in Nat,
           Activations(f, seen)
    PROVE  Activations(Append(f, Frame(r, Kids(Node(r)), m)), seen)
<1> DEFINE new == Frame(r, Kids(Node(r)), m)
           g == Append(f, new)
<1>1. /\ Len(g) = Len(f) + 1
      /\ \A j \in 1..Len(f) : g[j] = f[j]
      /\ g[Len(f) + 1] = new
  BY AppendProperties
<1>2. new.kids = Kids(Node(r)) /\ new.ref = r /\ new.next = 1
  BY DEF Frame
<1> HIDE DEF g, new
<1>3. ASSUME NEW j \in 2..Len(g)
      PROVE  g[j].kids = Kids(Node(g[j].ref)) /\ g[j].ref \in seen /\ TypeOf(Node(g[j].ref)) = "Pages"
  BY <1>1, <1>2, <1>3 DEF Activations
<1>4. ASSUME NEW j \in 1..Len(g)
      PROVE  /\ g[j].next <= Len(g[j].kids) + 1
             /\ \A k \in 1..(g[j].next - 1) : g[j].kids[k].kind = "Reference" => g[j].kids[k].ref \in seen
  <2>1. CASE j = Len(f) + 1
    BY <1>1, <1>2, <2>1
  <2>2. CASE j # Len(f) + 1
    <3>1. j \in 1..Len(f)
      BY <1>1, <2>2
    <3> QED
      BY <1>1, <3>1 DEF Activations
  <2> QED
    BY <2>1, <2>2
<1>5. Activations(g, seen)
  BY <1>3, <1>4 DEF Activations
<1> QED
  BY <1>5 DEF g, new

LEMMA PopKeepsActivations ==
    ASSUME TypeOK, StackInv, status = "walking", Len(stack) > 1
    PROVE  LET f == SubSeq(stack, 1, Len(stack) - 1) IN
           Activations(f, visited) /\ f[1] = stack[1]
<1> DEFINE f == SubSeq(stack, 1, Len(stack) - 1)
<1>1. Len(stack) \in Nat \ {0} /\ \A j \in 1..Len(stack) : stack[j] \in Frames
  BY StackFacts
<1>2. /\ Len(f) = Len(stack) - 1
      /\ \A j \in 1..(Len(stack) - 1) : f[j] = stack[j]
  BY <1>1, SubSeqProperties
<1> HIDE DEF f
<1>a. ASSUME NEW j \in 2..Len(f)
      PROVE  f[j].kids = Kids(Node(f[j].ref)) /\ f[j].ref \in visited
             /\ TypeOf(Node(f[j].ref)) = "Pages"
  <2>1. j \in 2..Len(stack) /\ f[j] = stack[j]
    BY <1>1, <1>2
  <2> QED
    BY <2>1 DEF StackInv
<1>b. ASSUME NEW j \in 1..Len(f)
      PROVE  /\ f[j].next <= Len(f[j].kids) + 1
             /\ \A k \in 1..(f[j].next - 1) :
                   f[j].kids[k].kind = "Reference" => f[j].kids[k].ref \in visited
  <2>1. j \in 1..Len(stack) /\ f[j] = stack[j]
    BY <1>1, <1>2
  <2> QED
    BY <2>1 DEF StackInv
<1>3. Activations(f, visited)
  BY <1>a, <1>b DEF Activations
<1>4. f[1] = stack[1]
  BY <1>1, <1>2
<1> QED
  BY <1>3, <1>4 DEF f

\* StackInv is Activations of the stack and two facts about /Pages.
LEMMA StackInvAssembled ==
    ASSUME doc' = doc,
           status' = "walking" => CatalogIsUsable,
           stack' # <<>> => stack'[1].kids = <<Entry(Node(doc.root), "Pages")>>,
           Activations(stack', visited')
    PROVE  StackInv'
  BY DEF StackInv, Activations, CatalogIsUsable, Node

LEMMA StackInvStep == DocInv /\ TypeOK /\ StackInv /\ [Next]_vars => StackInv'
<1> SUFFICES ASSUME DocInv, TypeOK, StackInv, [Next]_vars
             PROVE  StackInv'
  OBVIOUS
<1>0. doc' = doc
  BY DEF Next, vars, OpenCatalog, RejectCatalog, CollectPages, SkipDirectKid, SkipVisitedKid,
         EnterKid, RejectNode, CollectPage, RejectPage, EnterPages, IgnoreNode, Return, Finish
<1>e. Activations(<<>>, visited')
  BY EmptySeq DEF Activations
<1>u. CASE UNCHANGED vars
  BY <1>u DEF vars, StackInv, CatalogIsUsable, Node
<1>a. CASE OpenCatalog
  <2> DEFINE bottom == Frame(doc.root, <<Entry(Node(doc.root), "Pages")>>, EmptyMap)
  <2>1. stack' = <<bottom>> /\ CatalogIsUsable
    BY <1>a DEF OpenCatalog
  <2>2. bottom.kids = <<Entry(Node(doc.root), "Pages")>> /\ bottom.next = 1
    BY DEF Frame
  <2>3. Len(stack') = 1 /\ stack'[1] = bottom
    BY <2>1
  <2> HIDE DEF bottom
  <2>4. Activations(stack', visited')
    BY <2>2, <2>3 DEF Activations
  <2> QED
    BY <1>0, <2>1, <2>2, <2>3, <2>4, StackInvAssembled
<1>b. ASSUME Fail
      PROVE  StackInv'
  BY <1>b, <1>0, <1>e, StackInvAssembled DEF Fail
<1>c. ASSUME AtKid, stack' = AdvanceKid, visited \subseteq visited',
             Kid.kind = "Reference" => Kid.ref \in visited'
      PROVE  Activations(AdvanceKid, visited') /\ StackInv'
  <2>1. Activations(AdvanceKid, visited') /\ AdvanceKid[1].kids = stack[1].kids
    BY <1>c, AdvanceKeepsActivations
  <2>2. status = "walking" /\ CatalogIsUsable /\ stack # <<>>
    BY <1>c DEF AtKid, StackInv, TypeOK
  <2> QED
    BY <1>0, <1>c, <2>1, <2>2, StackInvAssembled DEF StackInv
<1>d. CASE SkipDirectKid \/ SkipVisitedKid
  BY <1>c, <1>d DEF SkipDirectKid, SkipVisitedKid
<1>f. ASSUME NEW r \in Refs, RejectNode(r) \/ RejectPage(r)
      PROVE  StackInv'
  BY <1>b, <1>f DEF RejectNode, RejectPage
<1>g. ASSUME NEW r \in Refs, CollectPage(r) \/ IgnoreNode(r)
      PROVE  StackInv'
  BY <1>c, <1>g DEF CollectPage, IgnoreNode, EnterKid
<1>h. ASSUME NEW r \in Refs, EnterPages(r)
      PROVE  StackInv'
  <2>1. AtKid /\ Kid.ref = r /\ visited' = visited \cup {r} /\ status' = status
        /\ TypeOf(Node(r)) = "Pages"
        /\ stack' = Append(AdvanceKid, Frame(r, Kids(Node(r)), MergedResources(r)))
    BY <1>h DEF EnterPages, EnterKid
  <2>2. Activations(AdvanceKid, visited') /\ AdvanceKid[1].kids = stack[1].kids
    BY <2>1, AdvanceKeepsActivations
  <2>3. status = "walking" /\ AdvanceKid \in Seq(Frames) /\ Len(AdvanceKid) \in Nat \ {0}
        /\ Top \in Frames
    BY <2>1, StackFacts DEF AtKid
  <2>4. Kids(Node(r)) \in KidLists
    BY DEF KidLists
  <2>5. Frame(r, Kids(Node(r)), MergedResources(r)) \in Frames
    BY <2>3, <2>4, OverlayTyped, FrameTyped DEF MergedResources, Frames
  <2>6. Len(Kids(Node(r))) \in Nat
    BY DocumentFacts
  <2>7. Activations(stack', visited')
    BY <2>1, <2>2, <2>3, <2>5, <2>6, PushKeepsActivations
  <2>8. stack'[1] = AdvanceKid[1]
    BY <2>1, <2>3, <2>5, AppendProperties
  <2> QED
    BY <1>0, <2>1, <2>2, <2>3, <2>7, <2>8, StackInvAssembled DEF StackInv, TypeOK
<1>i. CASE Return
  <2>1. status = "walking" /\ Len(stack) > 1 /\ stack' = SubSeq(stack, 1, Len(stack) - 1)
        /\ visited' = visited /\ status' = status
    BY <1>i DEF Return
  <2>2. Activations(stack', visited') /\ stack'[1] = stack[1]
    BY <2>1, PopKeepsActivations
  <2> QED
    BY <1>0, <2>1, <2>2, StackInvAssembled DEF StackInv, TypeOK
<1>j. CASE Finish
  BY <1>j, <1>0, <1>e, StackInvAssembled DEF Finish
<1>k. CASE RejectCatalog
  BY <1>b, <1>k DEF RejectCatalog
<1> QED
  BY <1>u, <1>a, <1>d, <1>f, <1>g, <1>h, <1>i, <1>j, <1>k DEF Next, CollectPages

LEMMA IInvInit == Init => IInv
<1>1. Init => stack = <<>> /\ status = "start" /\ Len(<<>>) = 0
  BY EmptySeq DEF Init
<1>2. Init => StackInv
  BY <1>1 DEF StackInv
<1> QED
  BY <1>2, InitTyped DEF IInv

LEMMA IInvStep == IInv /\ [Next]_vars => IInv'
  BY StepTyped, StackInvStep DEF IInv

-----------------------------------------------------------------------------
(***************************************************************************)
(* What is visited                                                         *)
(***************************************************************************)

\* A recursive call leads to a node of every closed set that holds what is visited.
LEMMA KidReachable ==
    ASSUME IInv, AtKid, Kid.kind = "Reference",
           NEW S \in SUBSET Refs, Closed(S), visited \subseteq S
    PROVE  Kid.ref \in S
<1>1. status = "walking" /\ Top.next <= Len(Top.kids) /\ TypeOK /\ StackInv /\ stack # <<>>
  BY DEF AtKid, IInv, TypeOK
<1>2. Len(stack) \in Nat \ {0} /\ Top \in Frames /\ Top.next \in Nat \ {0}
  BY <1>1, StackFacts DEF Frames
<1>3. CASE Len(stack) = 1
  <2>1. Top.kids = <<Entry(Node(doc.root), "Pages")>>
    BY <1>1, <1>3 DEF Top, StackInv
  <2>2. Top.next = 1
    BY <1>1, <1>2, <2>1
  <2> QED
    BY <2>1, <2>2 DEF Kid, Closed
<1>4. CASE Len(stack) # 1
  <2> DEFINE n == Len(stack)
  <2>n. n \in Nat \ {0} /\ n # 1
    BY <1>2, <1>4
  <2> HIDE DEF n
  <2>m. n \in 2..n
    BY <2>n
  <2>1. Len(stack) \in 2..Len(stack)
    BY <2>m DEF n
  <2>2. Top.kids = Kids(Node(Top.ref)) /\ Top.ref \in visited /\ TypeOf(Node(Top.ref)) = "Pages"
    BY <1>1, <2>1 DEF StackInv, Top
  <2>3. KidsIn(Top.ref, S)
    BY <2>2 DEF Closed
  <2>4. Top.next \in 1..Len(Kids(Node(Top.ref)))
    <3>1. Top.ref \in Refs
      BY <1>2 DEF Frames
    <3>2. Len(Kids(Node(Top.ref))) \in Nat
      BY <3>1, DocumentFacts DEF IInv
    <3> QED
      BY <1>1, <1>2, <2>2, <3>2
  <2> QED
    BY <2>2, <2>3, <2>4 DEF KidsIn, Kid
<1> QED
  BY <1>3, <1>4

\* An activation whose loop is over has had all kids of its node visited.
LEMMA LoopOver ==
    ASSUME IInv, status = "walking", Top.next > Len(Top.kids), Len(stack) > 1
    PROVE  KidsIn(Top.ref, visited)
<1>1. TypeOK /\ StackInv
  BY DEF IInv
<1>2. Len(stack) \in Nat \ {0} /\ Top \in Frames /\ Top.next \in Nat \ {0}
  BY <1>1, StackFacts DEF Frames
<1>3. Len(stack) \in 2..Len(stack) /\ Len(stack) \in 1..Len(stack)
  BY <1>2
<1>4. Top.kids = Kids(Node(Top.ref))
  BY <1>1, <1>3 DEF StackInv, Top
<1>5. Len(Kids(Node(Top.ref))) \in Nat
  BY <1>2, DocumentFacts DEF IInv, Frames
<1>6. \A k \in 1..(Top.next - 1) : Top.kids[k].kind = "Reference" => Top.kids[k].ref \in visited
  BY <1>1, <1>3 DEF StackInv, Top
<1>7. \A k \in 1..Len(Kids(Node(Top.ref))) : k \in 1..(Top.next - 1)
  BY <1>2, <1>4, <1>5
<1> QED
  BY <1>4, <1>6, <1>7 DEF KidsIn

\* The conjuncts of ReachInv after a step that leaves the document alone.
LEMMA ReachInvAssembled ==
    ASSUME doc' = doc, status' # "start",
           \A S \in SUBSET Refs : Closed(S) => visited' \subseteq S,
           status' = "walking" =>
              \A r \in visited' : TypeOf(Node(r)) = "Pages" =>
                  \/ \E j \in 2..Len(stack') : stack'[j].ref = r
                  \/ KidsIn(r, visited'),
           status' = "ok" => Closed(visited')
    PROVE  ReachInv'
<1>1. /\ \A S : Closed(S)' <=> Closed(S)
      /\ \A r : Node(r)' = Node(r)
      /\ Closed(visited)' <=> Closed(visited')
      /\ \A r : KidsIn(r, visited)' <=> KidsIn(r, visited')
  BY DEF Closed, KidsIn, Node
<1> QED
  BY <1>1 DEF ReachInv

LEMMA ReachInvStep == IInv /\ IInv' /\ ReachInv /\ [Next]_vars => ReachInv'
<1> SUFFICES ASSUME IInv, IInv', ReachInv, [Next]_vars
             PROVE  ReachInv'
  OBVIOUS
<1>0. doc' = doc /\ TypeOK /\ StackInv
  BY DEF Next, vars, OpenCatalog, RejectCatalog, CollectPages, SkipDirectKid, SkipVisitedKid,
         EnterKid, RejectNode, CollectPage, RejectPage, EnterPages, IgnoreNode, Return, Finish, IInv
<1>u. CASE UNCHANGED vars
  BY <1>u DEF vars, ReachInv, Closed, KidsIn, Node
<1>a. CASE OpenCatalog \/ RejectCatalog
  <2>1. visited' = {} /\ status' \in {"walking", "err"}
    BY <1>a DEF OpenCatalog, RejectCatalog, Fail, ReachInv
  <2> QED
    BY <1>0, <2>1, ReachInvAssembled
<1>b. ASSUME status = "walking"
      PROVE  \A S \in SUBSET Refs : Closed(S) => visited \subseteq S
  BY <1>b DEF ReachInv
<1>c. CASE SkipDirectKid \/ SkipVisitedKid
  <2>1. status = "walking" /\ status' = "walking" /\ stack' = AdvanceKid /\ visited' = visited
    BY <1>c DEF SkipDirectKid, SkipVisitedKid, AtKid
  <2>2. Len(stack') = Len(stack) /\ \A j \in 1..Len(stack) : stack'[j].ref = stack[j].ref
    BY <1>0, <2>1, StackFacts
  <2>3. Len(stack) \in Nat
    BY <1>0, <2>1, StackFacts
  <2>4. \A r \in visited : TypeOf(Node(r)) = "Pages" =>
            (\E j \in 2..Len(stack') : stack'[j].ref = r) \/ KidsIn(r, visited)
    BY <2>1, <2>2, <2>3 DEF ReachInv
  <2> QED
    BY <1>0, <1>b, <2>1, <2>4, ReachInvAssembled
<1>d. ASSUME NEW r \in Refs, EnterKid(r)
      PROVE  /\ status = "walking"
             /\ visited' = visited \cup {r}
             /\ \A S \in SUBSET Refs : Closed(S) => visited' \subseteq S
  <2>1. AtKid /\ Kid.kind = "Reference" /\ Kid.ref = r /\ status = "walking"
        /\ visited' = visited \cup {r}
    BY <1>d DEF EnterKid, AtKid
  <2> QED
    BY <1>b, <2>1, KidReachable
<1>e. ASSUME NEW r \in Refs, RejectNode(r) \/ RejectPage(r)
      PROVE  ReachInv'
  <2>1. EnterKid(r) /\ status' = "err"
    BY <1>e DEF RejectNode, RejectPage, Fail
  <2> QED
    BY <1>0, <1>d, <2>1, ReachInvAssembled
<1>f. ASSUME NEW r \in Refs, CollectPage(r) \/ IgnoreNode(r)
      PROVE  ReachInv'
  <2>1. EnterKid(r) /\ stack' = AdvanceKid /\ status' = status /\ TypeOf(Node(r)) # "Pages"
    BY <1>f DEF CollectPage, IgnoreNode
  <2>2. /\ Len(stack') = Len(stack) /\ Len(stack) \in Nat
        /\ \A j \in 1..Len(stack) : stack'[j].ref = stack[j].ref
    BY <1>0, <1>d, <2>1, StackFacts
  <2>3. \A s \in visited : KidsIn(s, visited) => KidsIn(s, visited')
    BY <1>d, <2>1 DEF KidsIn
  <2>4. \A s \in visited' : TypeOf(Node(s)) = "Pages" =>
            (\E j \in 2..Len(stack') : stack'[j].ref = s) \/ KidsIn(s, visited')
    BY <1>d, <2>1, <2>2, <2>3 DEF ReachInv
  <2> QED
    BY <1>0, <1>d, <2>1, <2>4, ReachInvAssembled
<1>g. ASSUME NEW r \in Refs, EnterPages(r)
      PROVE  ReachInv'
  <2> DEFINE new == Frame(r, Kids(Node(r)), MergedResources(r))
  <2>1. EnterKid(r) /\ stack' = Append(AdvanceKid, new) /\ status' = status
    BY <1>g DEF EnterPages
  <2>2. /\ Len(AdvanceKid) = Len(stack) /\ Len(stack) \in Nat \ {0} /\ AdvanceKid \in Seq(Frames)
        /\ \A j \in 1..Len(stack) : AdvanceKid[j].ref = stack[j].ref
        /\ Top \in Frames
    BY <1>0, <1>d, <2>1, StackFacts
  <2>3. new \in Frames /\ new.ref = r
    <3>1. Kids(Node(r)) \in KidLists
      BY DEF KidLists
    <3>2. MergedResources(r) \in ResourceMaps
      BY <2>2, OverlayTyped DEF MergedResources, Frames, IInv
    <3> QED
      BY <3>1, <3>2, FrameTyped DEF Frame, IInv
  <2> HIDE DEF new
  <2>4. /\ Len(stack') = Len(stack) + 1
        /\ \A j \in 1..Len(stack) : stack'[j].ref = stack[j].ref
        /\ stack'[Len(stack) + 1].ref = r
    BY <2>1, <2>2, <2>3, AppendProperties
  <2>5. \A s \in visited : KidsIn(s, visited) => KidsIn(s, visited')
    BY <1>d, <2>1 DEF KidsIn
  <2>6. ASSUME NEW s \in visited', TypeOf(Node(s)) = "Pages"
        PROVE  (\E j \in 2..Len(stack') : stack'[j].ref = s) \/ KidsIn(s, visited')
    <3>1. CASE s = r
      <4>1. Len(stack) + 1 \in 2..Len(stack')
        BY <2>2, <2>4
      <4> QED
        BY <2>4, <3>1, <4>1
    <3>2. CASE s # r
      <4>1. s \in visited
        BY <1>d, <2>1, <2>6, <3>2
      <4>2. CASE \E j \in 2..Len(stack) : stack[j].ref = s
        BY <2>2, <2>4, <4>2
      <4>3. CASE KidsIn(s, visited)
        BY <2>5, <4>1, <4>3
      <4> QED
        BY <1>d, <2>1, <2>6, <4>1, <4>2, <4>3 DEF ReachInv
    <3> QED
      BY <3>1, <3>2
  <2> QED
    BY <1>0, <1>d, <2>1, <2>6, ReachInvAssembled
<1>h. CASE Return
  <2>1. status = "walking" /\ Len(stack) > 1 /\ stack' = SubSeq(stack, 1, Len(stack) - 1)
        /\ visited' = visited /\ status' = status /\ Top.next > Len(Top.kids)
    BY <1>h DEF Return
  <2>2. Len(stack) \in Nat \ {0} /\ \A j \in 1..Len(stack) : stack[j] \in Frames
    BY <1>0, <2>1, StackFacts
  <2>3. Len(stack') = Len(stack) - 1 /\ \A j \in 1..(Len(stack) - 1) : stack'[j] = stack[j]
    BY <2>1, <2>2, SubSeqProperties
  <2>4. KidsIn(Top.ref, visited)
    BY <2>1, LoopOver
  <2>5. ASSUME NEW s \in visited, TypeOf(Node(s)) = "Pages"
        PROVE  (\E j \in 2..Len(stack') : stack'[j].ref = s) \/ KidsIn(s, visited)
    <3>1. CASE KidsIn(s, visited)
      BY <3>1
    <3>2. CASE \E j \in 2..Len(stack) : stack[j].ref = s
      <4>1. PICK j \in 2..Len(stack) : stack[j].ref = s
        BY <3>2
      <4>2. CASE j = Len(stack)
        BY <2>4, <4>1, <4>2 DEF Top
      <4>3. CASE j # Len(stack)
        BY <2>2, <2>3, <4>1, <4>3
      <4> QED
        BY <4>2, <4>3
    <3> QED
      BY <2>1, <2>5, <3>1, <3>2 DEF ReachInv
  <2> QED
    BY <1>0, <1>b, <2>1, <2>5, ReachInvAssembled
<1>i. CASE Finish
  <2>1. status = "walking" /\ Len(stack) = 1 /\ visited' = visited /\ status' = "ok"
        /\ Top.next > Len(Top.kids)
    BY <1>i DEF Finish
  <2>2. Top \in Frames /\ stack # <<>> /\ Top = stack[1]
    BY <1>0, <2>1, StackFacts DEF Top, TypeOK
  <2>3. Top.kids = <<Entry(Node(doc.root), "Pages")>>
    BY <1>0, <2>2 DEF StackInv
  <2>4. Top.next \in Nat /\ Top.next > 1
    BY <2>1, <2>2, <2>3 DEF Frames
  <2>5. Entry(Node(doc.root), "Pages").ref \in visited
    <3>1. Top.kids[1].kind = "Reference" /\ Top.kids[1] = Entry(Node(doc.root), "Pages")
      BY <1>0, <2>1, <2>3 DEF StackInv, CatalogIsUsable
    <3> QED
      BY <1>0, <2>1, <2>2, <2>4, <3>1 DEF StackInv
  <2>6. \A r \in visited : TypeOf(Node(r)) = "Pages" => KidsIn(r, visited)
    BY <2>1 DEF ReachInv
  <2> QED
    BY <1>0, <1>b, <2>1, <2>5, <2>6, ReachInvAssembled DEF Closed
<1> QED
  BY <1>u, <1>a, <1>c, <1>e, <1>f, <1>g, <1>h, <1>i DEF Next, CollectPages

THEOREM Invariance == Spec => [](IInv /\ ReachInv)
<1>1. Init => IInv /\ ReachInv
  BY IInvInit DEF Init, ReachInv
<1>2. IInv /\ ReachInv /\ [Next]_vars => (IInv /\ ReachInv)'
  BY IInvStep, ReachInvStep
<1> QED
  BY <1>1, <1>2, PTL DEF Spec

\* The walk never enters a node that cannot be reached from the catalog.
THEOREM OnlyReachable == Spec => []OnlyReachableVisited
<1>1. IInv /\ ReachInv => OnlyReachableVisited
  BY DEF ReachInv, OnlyReachableVisited, Reachable
<1> QED
  BY <1>1, Invariance, PTL

\* A walk that answers Ok has visited exactly the nodes that can be reached.
THEOREM WalkIsComplete == Spec => []VisitedIsReachable
<1>1. IInv /\ ReachInv => VisitedIsReachable
  <2> SUFFICES ASSUME IInv, ReachInv, status = "ok", NEW r \in Refs
               PROVE  r \in visited <=> Reachable(r)
    BY DEF VisitedIsReachable
  <2>1. Closed(visited) /\ visited \in SUBSET Refs
    BY DEF ReachInv, IInv, TypeOK
  <2>2. \A S \in SUBSET Refs : Closed(S) => visited \subseteq S
    BY DEF ReachInv
  <2> QED
    BY <2>1, <2>2 DEF Reachable
<1> QED
  BY <1>1, Invariance, PTL

-----------------------------------------------------------------------------
(***************************************************************************)
(* The pages, and the shape of the recursion                               *)
(***************************************************************************)

LEMMA PagesOnceStep == IInv /\ PagesOnce /\ [Next]_vars => PagesOnce'
<1> SUFFICES ASSUME IInv, PagesOnce, [Next]_vars
             PROVE  PagesOnce'
  OBVIOUS
<1>0. doc' = doc /\ TypeOK
  BY DEF Next, vars, OpenCatalog, RejectCatalog, CollectPages, SkipDirectKid, SkipVisitedKid,
         EnterKid, RejectNode, CollectPage, RejectPage, EnterPages, IgnoreNode, Return, Finish, IInv
<1>1. \A r : Node(r)' = Node(r)
  BY <1>0 DEF Node
<1>a. ASSUME visited' = visited, pages' = pages, status # "err"
      PROVE  PagesOnce'
  BY <1>1, <1>a DEF PagesOnce, PageNodesIn
<1>b. ASSUME status' = "err"
      PROVE  PagesOnce'
  BY <1>b DEF PagesOnce
<1>c. ASSUME NEW r \in Refs, CollectPage(r)
      PROVE  PagesOnce'
  <2> DEFINE new == PageContent(doc.objects, r, MergedResources(r))
  <2>1. /\ status = "walking" /\ r \notin visited /\ visited' = visited \cup {r}
        /\ TypeOf(Node(r)) = "Page" /\ pages' = Append(pages, new)
    BY <1>c DEF CollectPage, EnterKid, AtKid
  <2>2. new \in PageContents
    <3>1. Top \in Frames
      BY <1>0, <2>1, StackFacts
    <3>2. MergedResources(r) \in ResourceMaps
      BY <3>1, OverlayTyped DEF MergedResources, Frames, IInv
    <3> QED
      BY <3>2 DEF PageContents
  <2>3. new.ref = r
    BY DEF PageContent
  <2> HIDE DEF new
  <2>4. /\ Len(pages) \in Nat /\ Len(pages') = Len(pages) + 1
        /\ DOMAIN pages = 1..Len(pages) /\ DOMAIN pages' = 1..Len(pages')
        /\ \A j \in 1..Len(pages) : pages'[j] = pages[j]
        /\ pages'[Len(pages) + 1] = new
    BY <1>0, <2>1, <2>2, AppendProperties, LenProperties DEF TypeOK
  <2>5. /\ \A i, j \in DOMAIN pages : pages[i].ref = pages[j].ref => i = j
        /\ {pages[j].ref : j \in DOMAIN pages} = PageNodesIn(visited)
    BY <2>1 DEF PagesOnce
  <2>6. \A j \in 1..Len(pages) : pages[j].ref # r
    BY <2>1, <2>4, <2>5 DEF PageNodesIn
  <2>7. \A i, j \in DOMAIN pages' : pages'[i].ref = pages'[j].ref => i = j
    BY <2>3, <2>4, <2>5, <2>6
  <2>8. {pages'[j].ref : j \in DOMAIN pages'} = {pages[j].ref : j \in DOMAIN pages} \cup {r}
    BY <2>3, <2>4
  <2>9. PageNodesIn(visited)' = PageNodesIn(visited) \cup {r}
    BY <1>1, <2>1 DEF PageNodesIn
  <2> QED
    BY <2>5, <2>7, <2>8, <2>9 DEF PagesOnce
<1>d. ASSUME NEW r \in Refs, EnterPages(r) \/ IgnoreNode(r)
      PROVE  PagesOnce'
  <2>1. /\ status = "walking" /\ visited' = visited \cup {r} /\ pages' = pages
        /\ TypeOf(Node(r)) # "Page"
    BY <1>d DEF EnterPages, IgnoreNode, EnterKid, AtKid
  <2>2. PageNodesIn(visited)' = PageNodesIn(visited)
    BY <1>1, <2>1 DEF PageNodesIn
  <2> QED
    BY <2>1, <2>2 DEF PagesOnce
<1>e. CASE UNCHANGED vars
  BY <1>1, <1>e DEF vars, PagesOnce, PageNodesIn
<1>f. CASE OpenCatalog \/ RejectCatalog \/ SkipDirectKid \/ SkipVisitedKid \/ Return \/ Finish
  BY <1>a, <1>b, <1>f DEF OpenCatalog, RejectCatalog, SkipDirectKid, SkipVisitedKid, Return,
                          Finish, Fail, AtKid
<1>g. ASSUME NEW r \in Refs, RejectNode(r) \/ RejectPage(r)
      PROVE  PagesOnce'
  BY <1>b, <1>g DEF RejectNode, RejectPage, Fail
<1> QED
  BY <1>c, <1>d, <1>e, <1>f, <1>g DEF Next, CollectPages

\* Each page of the document is delivered once, for every graph of /Kids.
THEOREM EachPageOnce == Spec => []PagesOnce
<1>1. Init => PagesOnce
  <2> SUFFICES ASSUME Init PROVE PagesOnce
    OBVIOUS
  <2>1. pages = <<>> /\ visited = {} /\ DOMAIN <<>> = {}
    BY EmptySeq, LenProperties DEF Init
  <2> QED
    BY <2>1 DEF PagesOnce, PageNodesIn
<1>2. IInv /\ PagesOnce /\ [Next]_vars => PagesOnce'
  BY PagesOnceStep
<1> QED
  BY <1>1, <1>2, IInvInit, IInvStep, PTL DEF Spec

-----------------------------------------------------------------------------

\* How the activations can change in a step: advance, push, pop or vanish.
LEMMA StackStep ==
    ASSUME IInv, [Next]_vars
    PROVE  \/ stack' = stack
           \/ stack' = <<>>
           \/ Len(stack') = 1 /\ stack = <<>>
           \/ status = "walking" /\ stack' = AdvanceKid
           \/ /\ status = "walking" /\ Len(stack) > 1
              /\ stack' = SubSeq(stack, 1, Len(stack) - 1)
           \/ \E r \in Refs :
                 /\ AtKid /\ Kid.kind = "Reference" /\ Kid.ref = r /\ r \notin visited
                 /\ Frame(r, Kids(Node(r)), MergedResources(r)) \in Frames
                 /\ stack' = Append(AdvanceKid, Frame(r, Kids(Node(r)), MergedResources(r)))
<1>a. CASE OpenCatalog
  <2>1. Len(stack') = 1
    BY <1>a DEF OpenCatalog
  <2> QED
    BY <1>a, <2>1 DEF OpenCatalog, IInv, TypeOK
<1>b. ASSUME NEW r \in Refs, EnterPages(r)
      PROVE  /\ AtKid /\ Kid.kind = "Reference" /\ Kid.ref = r /\ r \notin visited
             /\ Frame(r, Kids(Node(r)), MergedResources(r)) \in Frames
             /\ stack' = Append(AdvanceKid, Frame(r, Kids(Node(r)), MergedResources(r)))
  <2>1. AtKid /\ Kid.kind = "Reference" /\ Kid.ref = r /\ r \notin visited
        /\ stack' = Append(AdvanceKid, Frame(r, Kids(Node(r)), MergedResources(r)))
    BY <1>b DEF EnterPages, EnterKid
  <2>2. Top \in Frames
    BY <2>1, StackFacts DEF AtKid, IInv
  <2>3. Kids(Node(r)) \in KidLists
    BY DEF KidLists
  <2>4. MergedResources(r) \in ResourceMaps
    BY <2>2, OverlayTyped DEF MergedResources, Frames, IInv
  <2> QED
    BY <2>1, <2>3, <2>4, FrameTyped DEF IInv
<1>c. ASSUME NEW r \in Refs, CollectPage(r) \/ IgnoreNode(r) \/ RejectNode(r) \/ RejectPage(r)
      PROVE  (status = "walking" /\ stack' = AdvanceKid) \/ stack' = <<>>
  BY <1>c DEF CollectPage, IgnoreNode, RejectNode, RejectPage, Fail, EnterKid, AtKid
<1>d. CASE RejectCatalog \/ SkipDirectKid \/ SkipVisitedKid \/ Return \/ Finish \/ UNCHANGED vars
  BY <1>d DEF RejectCatalog, SkipDirectKid, SkipVisitedKid, Return, Finish, Fail, AtKid, vars
<1> QED
  BY <1>a, <1>b, <1>c, <1>d DEF Next, CollectPages

\* No inner node is active twice.
DistinctActivations ==
    \A i, j \in 2..Len(stack) : stack[i].ref = stack[j].ref => i = j

LEMMA DistinctStep == IInv /\ DistinctActivations /\ [Next]_vars => DistinctActivations'
<1> SUFFICES ASSUME IInv, DistinctActivations, [Next]_vars
             PROVE  DistinctActivations'
  OBVIOUS
<1>0. TypeOK /\ StackInv /\ Len(<<>>) = 0
  BY EmptySeq DEF IInv
<1>1. CASE stack' = stack \/ stack' = <<>> \/ Len(stack') = 1
  BY <1>0, <1>1 DEF DistinctActivations
<1>2. CASE status = "walking" /\ stack' = AdvanceKid
  BY <1>0, <1>2, StackFacts DEF DistinctActivations
<1>3. CASE status = "walking" /\ Len(stack) > 1 /\ stack' = SubSeq(stack, 1, Len(stack) - 1)
  <2>1. Len(stack) \in Nat \ {0} /\ \A j \in 1..Len(stack) : stack[j] \in Frames
    BY <1>0, <1>3, StackFacts
  <2>2. Len(stack') = Len(stack) - 1 /\ \A j \in 1..(Len(stack) - 1) : stack'[j] = stack[j]
    BY <1>3, <2>1, SubSeqProperties
  <2> QED
    BY <2>1, <2>2 DEF DistinctActivations
<1>4. ASSUME NEW r \in Refs, AtKid, r \notin visited,
             Frame(r, Kids(Node(r)), MergedResources(r)) \in Frames,
             stack' = Append(AdvanceKid, Frame(r, Kids(Node(r)), MergedResources(r)))
      PROVE  DistinctActivations'
  <2> DEFINE new == Frame(r, Kids(Node(r)), MergedResources(r))
  <2>1. /\ Len(AdvanceKid) = Len(stack) /\ Len(stack) \in Nat \ {0} /\ AdvanceKid \in Seq(Frames)
        /\ \A j \in 1..Len(stack) : AdvanceKid[j].ref = stack[j].ref
    BY <1>0, <1>4, StackFacts DEF AtKid
  <2>2. new \in Frames /\ new.ref = r /\ stack' = Append(AdvanceKid, new)
    BY <1>4 DEF Frame
  <2> HIDE DEF new
  <2>3. /\ Len(stack') = Len(stack) + 1
        /\ \A j \in 1..Len(stack) : stack'[j].ref = stack[j].ref
        /\ stack'[Len(stack) + 1].ref = r
    BY <2>1, <2>2, AppendProperties
  <2>4. \A j \in 2..Len(stack) : stack[j].ref # r
    BY <1>0, <1>4 DEF StackInv
  <2>5. ASSUME NEW i \in 2..Len(stack'), NEW j \in 2..Len(stack'), i # j
        PROVE  stack'[i].ref # stack'[j].ref
    <3>1. \A k \in 2..Len(stack') : k \in 2..Len(stack) \/ k = Len(stack) + 1
      BY <2>1, <2>3
    <3>2. \A k \in 2..Len(stack) : stack'[k].ref = stack[k].ref
      BY <2>3
    <3> QED
      BY <2>3, <2>4, <2>5, <3>1, <3>2 DEF DistinctActivations
  <2> QED
    BY <2>5 DEF DistinctActivations
<1> QED
  BY <1>1, <1>2, <1>3, <1>4, StackStep

\* The recursion of collect_pages is bounded: every activation is of an inner
\* node of its own that has been visited.
THEOREM RecursionIsBounded == Spec => []BoundedRecursion
<1>1. Init => DistinctActivations
  BY EmptySeq DEF Init, DistinctActivations
<1>2. IInv /\ DistinctActivations => BoundedRecursion
  BY DEF IInv, StackInv, DistinctActivations, BoundedRecursion
<1> QED
  BY <1>1, <1>2, DistinctStep, IInvInit, IInvStep, PTL DEF Spec

-----------------------------------------------------------------------------

\* What InheritedFromParent says of the activation f[j] and the one below it.
Inherits(f, j) ==
    /\ f[j - 1].kids[f[j - 1].next - 1].kind = "Reference"
    /\ f[j - 1].kids[f[j - 1].next - 1].ref = f[j].ref
    /\ f[j].inherited = Overlay(f[j - 1].inherited,
                                LocalResources(doc.objects, Node(f[j].ref)))

LEMMA InheritStep == IInv /\ InheritedFromParent /\ [Next]_vars => InheritedFromParent'
<1> SUFFICES ASSUME IInv, InheritedFromParent, [Next]_vars
             PROVE  InheritedFromParent'
  OBVIOUS
<1>0. doc' = doc /\ TypeOK /\ Len(<<>>) = 0
  BY EmptySeq
  DEF Next, vars, OpenCatalog, RejectCatalog, CollectPages, SkipDirectKid, SkipVisitedKid,
         EnterKid, RejectNode, CollectPage, RejectPage, EnterPages, IgnoreNode, Return, Finish, IInv
<1>h. \A j \in 2..Len(stack) : Inherits(stack, j)
  BY DEF InheritedFromParent, Inherits
<1> SUFFICES \A j \in 2..Len(stack') : Inherits(stack', j)
  BY <1>0 DEF InheritedFromParent, Inherits, Node
<1>1. CASE stack' = stack \/ stack' = <<>> \/ Len(stack') = 1
  BY <1>0, <1>h, <1>1
<1>2. ASSUME status = "walking", NEW j \in 2..Len(stack)
      PROVE  Inherits(AdvanceKid, j)
  <2>1. /\ j \in 1..Len(stack) /\ j - 1 \in 1..Len(stack) /\ j - 1 # Len(stack)
    BY <1>0, <1>2, StackFacts
  <2>2. /\ AdvanceKid[j].ref = stack[j].ref
        /\ AdvanceKid[j].inherited = stack[j].inherited
        /\ AdvanceKid[j - 1].kids = stack[j - 1].kids
        /\ AdvanceKid[j - 1].next = stack[j - 1].next
        /\ AdvanceKid[j - 1].inherited = stack[j - 1].inherited
    BY <1>0, <1>2, <2>1, StackFacts
  <2>3. Inherits(stack, j)
    BY <1>h
  <2> QED
    BY <2>2, <2>3, Zenon DEF Inherits
<1>3. CASE status = "walking" /\ stack' = AdvanceKid
  BY <1>0, <1>2, <1>3, StackFacts
<1>4. CASE status = "walking" /\ Len(stack) > 1 /\ stack' = SubSeq(stack, 1, Len(stack) - 1)
  <2>1. Len(stack) \in Nat \ {0} /\ \A j \in 1..Len(stack) : stack[j] \in Frames
    BY <1>0, <1>4, StackFacts
  <2>2. Len(stack') = Len(stack) - 1 /\ \A j \in 1..(Len(stack) - 1) : stack'[j] = stack[j]
    BY <1>4, <2>1, SubSeqProperties
  <2>3. ASSUME NEW j \in 2..Len(stack')
        PROVE  Inherits(stack', j)
    <3>1. j \in 2..Len(stack) /\ stack'[j] = stack[j] /\ stack'[j - 1] = stack[j - 1]
      BY <2>1, <2>2
    <3>2. Inherits(stack, j)
      BY <1>h, <3>1
    <3> QED
      BY <3>1, <3>2, Zenon DEF Inherits
  <2> QED
    BY <2>3
<1>5. ASSUME NEW r \in Refs, AtKid, Kid.kind = "Reference", Kid.ref = r,
             Frame(r, Kids(Node(r)), MergedResources(r)) \in Frames,
             stack' = Append(AdvanceKid, Frame(r, Kids(Node(r)), MergedResources(r)))
      PROVE  \A j \in 2..Len(stack') : Inherits(stack', j)
  <2> DEFINE new == Frame(r, Kids(Node(r)), MergedResources(r))
             n == Len(stack)
  <2>1. /\ Len(AdvanceKid) = n /\ n \in Nat \ {0} /\ AdvanceKid \in Seq(Frames)
        /\ status = "walking"
    BY <1>0, <1>5, StackFacts DEF AtKid
  <2>2. /\ AdvanceKid[n].kids = Top.kids
        /\ AdvanceKid[n].inherited = Top.inherited
        /\ AdvanceKid[n].next = Top.next + 1
        /\ Top.next \in Nat
    BY <1>0, <2>1, StackFacts DEF Top, Frames
  <2>3. new \in Frames /\ new.ref = r /\ stack' = Append(AdvanceKid, new)
        /\ new.inherited = Overlay(Top.inherited, LocalResources(doc.objects, Node(r)))
    BY <1>5 DEF Frame, MergedResources
  <2> HIDE DEF new, n
  <2>4. /\ Len(stack') = n + 1
        /\ \A j \in 1..n : stack'[j] = AdvanceKid[j]
        /\ stack'[n + 1] = new
    BY <2>1, <2>3, AppendProperties
  <2>5. ASSUME NEW j \in 2..n
        PROVE  Inherits(stack', j)
    <3>1. stack'[j] = AdvanceKid[j] /\ stack'[j - 1] = AdvanceKid[j - 1]
      BY <2>1, <2>4
    <3>2. Inherits(AdvanceKid, j)
      BY <1>2, <2>1 DEF n
    <3> QED
      BY <3>1, <3>2, Zenon DEF Inherits
  <2>6. Inherits(stack', n + 1)
    <3>1. (n + 1) - 1 = n /\ stack'[n] = AdvanceKid[n]
      BY <2>1, <2>4
    <3>2. (Top.next + 1) - 1 = Top.next
      BY <2>2
    <3>3. AdvanceKid[n].kids[AdvanceKid[n].next - 1] = Kid
      BY <2>2, <3>2, Zenon DEF Kid
    <3> QED
      BY <1>5, <2>2, <2>3, <2>4, <3>1, <3>3, Zenon DEF Inherits
  <2>7. \A j \in 2..Len(stack') : j \in 2..n \/ j = n + 1
    BY <2>1, <2>4
  <2> QED
    BY <2>5, <2>6, <2>7
<1> QED
  BY <1>1, <1>3, <1>4, <1>5, StackStep

\* Resources come down the chain of activations, one overlay for each node of it.
THEOREM InheritanceFollowsTheTree == Spec => []InheritedFromParent
<1>1. Init => InheritedFromParent
  BY EmptySeq DEF Init, InheritedFromParent
<1> QED
  BY <1>1, InheritStep, IInvInit, IInvStep, PTL DEF Spec

-----------------------------------------------------------------------------
(***************************************************************************)
(* Document order                                                          *)
(***************************************************************************)

\* Two ways part at a place: they agree before it, and the first takes the earlier kid.
PartAt(way1, way2, j) ==
    /\ j \in 1..Len(way1) /\ j <= Len(way2)
    /\ way1[j] < way2[j]
    /\ \A i \in 1..(j - 1) : way1[i] = way2[i]

IsBeginning(way1, way2) == Len(way1) < Len(way2) /\ \A i \in 1..Len(way1) : way1[i] = way2[i]

LEMMA PrecedesCases ==
    ASSUME NEW way1, NEW way2
    PROVE  Precedes(way1, way2) <=> IsBeginning(way1, way2) \/ \E j : PartAt(way1, way2, j)
BY DEF Precedes, IsBeginning, PartAt

LEMMA PrecedesIrreflexive ==
    ASSUME NEW way \in Seq(Nat)
    PROVE  ~Precedes(way, way)
<1>1. Len(way) \in Nat /\ \A j \in 1..Len(way) : way[j] \in Nat
  BY ElementOfSeq
<1> QED
  BY <1>1 DEF Precedes

LEMMA PrecedesTransitive ==
    ASSUME NEW a \in Seq(Nat), NEW b \in Seq(Nat), NEW c \in Seq(Nat),
           Precedes(a, b), Precedes(b, c)
    PROVE  Precedes(a, c)
<1>1. /\ Len(a) \in Nat /\ Len(b) \in Nat /\ Len(c) \in Nat
      /\ \A j \in 1..Len(a) : a[j] \in Nat
      /\ \A j \in 1..Len(b) : b[j] \in Nat
      /\ \A j \in 1..Len(c) : c[j] \in Nat
  BY ElementOfSeq
<1>2. CASE IsBeginning(a, b) /\ IsBeginning(b, c)
  <2>1. IsBeginning(a, c)
    BY <1>1, <1>2 DEF IsBeginning
  <2> QED
    BY <2>1, PrecedesCases
<1>3. ASSUME IsBeginning(a, b), NEW j, PartAt(b, c, j)
      PROVE  Precedes(a, c)
  <2>1. CASE j <= Len(a)
    <3>1. PartAt(a, c, j)
      BY <1>1, <1>3, <2>1 DEF IsBeginning, PartAt
    <3> QED
      BY <3>1, PrecedesCases
  <2>2. CASE j > Len(a)
    <3>1. IsBeginning(a, c)
      BY <1>1, <1>3, <2>2 DEF IsBeginning, PartAt
    <3> QED
      BY <3>1, PrecedesCases
  <2>3. j \in Int
    BY <1>3 DEF PartAt
  <2> QED
    BY <1>1, <2>1, <2>2, <2>3
<1>4. ASSUME NEW j, PartAt(a, b, j), IsBeginning(b, c)
      PROVE  Precedes(a, c)
  <2>1. PartAt(a, c, j)
    BY <1>1, <1>4 DEF IsBeginning, PartAt
  <2> QED
    BY <2>1, PrecedesCases
<1>5. ASSUME NEW j, PartAt(a, b, j), NEW k, PartAt(b, c, k)
      PROVE  Precedes(a, c)
  <2>1. j \in Int /\ k \in Int
    BY <1>5 DEF PartAt
  <2>2. CASE j <= k
    <3>1. j \in 1..Len(a) /\ j <= Len(c) /\ j \in 1..Len(b) /\ j \in 1..Len(c)
      BY <1>1, <1>5, <2>1, <2>2 DEF PartAt
    <3>2. a[j] < b[j] /\ (b[j] = c[j] \/ b[j] < c[j])
      <4>1. CASE j = k
        BY <1>5, <4>1 DEF PartAt
      <4>2. CASE j # k
        <5>1. j \in 1..(k - 1)
          BY <2>1, <2>2, <3>1, <4>2
        <5> QED
          BY <1>5, <5>1 DEF PartAt
      <4> QED
        BY <4>1, <4>2
    <3>3. a[j] < c[j]
      BY <1>1, <3>1, <3>2
    <3>4. \A i \in 1..(j - 1) : a[i] = c[i]
      BY <1>5, <2>1, <2>2, <3>1 DEF PartAt
    <3>5. PartAt(a, c, j)
      BY <3>1, <3>3, <3>4 DEF PartAt
    <3> QED
      BY <3>5, PrecedesCases
  <2>3. CASE j > k
    <3>1. k \in 1..Len(a) /\ k <= Len(c) /\ k \in 1..(j - 1)
      BY <1>1, <1>5, <2>1, <2>3 DEF PartAt
    <3>2. a[k] = b[k] /\ b[k] < c[k]
      BY <1>5, <3>1 DEF PartAt
    <3>3. \A i \in 1..(k - 1) : i \in 1..(j - 1)
      BY <2>1, <2>3
    <3>4. \A i \in 1..(k - 1) : a[i] = c[i]
      BY <1>5, <3>3 DEF PartAt
    <3>5. PartAt(a, c, k)
      BY <3>1, <3>2, <3>4 DEF PartAt
    <3> QED
      BY <3>5, PrecedesCases
  <2> QED
    BY <2>1, <2>2, <2>3
<1> QED
  BY <1>2, <1>3, <1>4, <1>5, PrecedesCases

LEMMA PrecedesTotal ==
    ASSUME NEW a \in Seq(Nat), NEW b \in Seq(Nat), a # b
    PROVE  Precedes(a, b) \/ Precedes(b, a)
<1>1. /\ Len(a) \in Nat /\ Len(b) \in Nat
      /\ \A j \in 1..Len(a) : a[j] \in Nat
      /\ \A j \in 1..Len(b) : b[j] \in Nat
  BY ElementOfSeq
<1> DEFINE S == {j \in Nat : j >= 1 /\ j <= Len(a) /\ j <= Len(b) /\ a[j] # b[j]}
<1>2. CASE S = {}
  <2>1. \A j \in Nat : j >= 1 /\ j <= Len(a) /\ j <= Len(b) => a[j] = b[j]
    BY <1>2
  <2> HIDE DEF S
  <2>2. Len(a) # Len(b)
    <3>1. SUFFICES ASSUME Len(a) = Len(b) PROVE FALSE
      OBVIOUS
    <3>2. \A j \in 1..Len(a) : a[j] = b[j]
      BY <1>1, <2>1, <3>1
    <3> QED
      BY <3>1, <3>2, SeqEqual
  <2>3. IsBeginning(a, b) \/ IsBeginning(b, a)
    BY <1>1, <2>1, <2>2 DEF IsBeginning
  <2> QED
    BY <2>3, PrecedesCases
<1>3. CASE S # {}
  <2> DEFINE m == Min(S)
  <2>1. m \in S /\ \A j \in S : m <= j
    <3>1. S \in SUBSET Nat
      OBVIOUS
    <3> HIDE DEF S
    <3> QED
      BY <1>3, <3>1, MinOfNat
  <2> HIDE DEF m
  <2>2. ASSUME NEW i \in 1..(m - 1) PROVE a[i] = b[i]
    <3>1. i \in Nat /\ i >= 1 /\ i <= Len(a) /\ i <= Len(b) /\ ~(m <= i)
      BY <1>1, <2>1
    <3> QED
      BY <2>1, <3>1
  <2>3. PartAt(a, b, m) \/ PartAt(b, a, m)
    BY <1>1, <2>1, <2>2 DEF PartAt
  <2> QED
    BY <2>3, PrecedesCases
<1> QED
  BY <1>2, <1>3

\* Going on to a later kid, or into one, comes later in document order.
LEMMA LaterPlace ==
    ASSUME NEW way \in Seq(Nat), NEW n \in 1..Len(way), NEW later \in Seq(Nat),
           Len(later) = n, way[n] < later[n], \A i \in 1..(n - 1) : way[i] = later[i]
    PROVE  Precedes(way, later)
<1>1. n \in 1..Len(way) /\ n <= Len(later)
  BY ElementOfSeq
<1>2. PartAt(way, later, n)
  BY <1>1 DEF PartAt
<1> QED
  BY <1>2, PrecedesCases

LEMMA DeeperPlace ==
    ASSUME NEW way \in Seq(Nat), NEW later \in Seq(Nat), Len(later) = Len(way) + 1,
           \A i \in 1..Len(way) : way[i] = later[i]
    PROVE  Precedes(way, later)
<1>1. Len(way) < Len(later)
  BY LenProperties
<1> QED
  BY <1>1 DEF Precedes

-----------------------------------------------------------------------------
(***************************************************************************)
(* Walks from /Pages down: the places they take, and the nodes they enter  *)
(***************************************************************************)

Leads(d, r, place, s) ==
    LET node == Resolve(d.objects, r) IN
    /\ TypeOf(node) = "Pages"
    /\ place \in DOMAIN Kids(node)
    /\ Kids(node)[place].kind = "Reference" /\ Kids(node)[place].ref = s

\* A walk enters no node twice.
IsWalk(d, way, refs) ==
    /\ way \in Seq(Nat) /\ refs \in Seq(Refs) /\ Len(refs) = Len(way) + 1
    /\ PagesEntry(d).kind = "Reference" /\ PagesEntry(d).ref = refs[1]
    /\ \A j \in 1..Len(way) : Leads(d, refs[j], way[j], refs[j + 1])
    /\ \A j, k \in 1..Len(refs) : refs[j] = refs[k] => j = k

\* Where a walk ends.
EndOf(refs) == refs[Len(refs)]

\* No walk to the same node comes before it.
IsFirst(d, way, refs) ==
    /\ IsWalk(d, way, refs)
    /\ \A way2, refs2 : IsWalk(d, way2, refs2) /\ EndOf(refs2) = EndOf(refs) => ~Precedes(way2, way)

LEMMA WalkFacts ==
    ASSUME NEW d, NEW way, NEW refs, IsWalk(d, way, refs)
    PROVE  /\ Len(way) \in Nat /\ Len(refs) = Len(way) + 1
           /\ \A j \in 1..Len(way) : way[j] \in Nat
           /\ \A j \in 1..Len(refs) : refs[j] \in Refs
BY ElementOfSeq DEF IsWalk

\* The places decide the nodes.
LEMMA WalksAgree ==
    ASSUME NEW d, NEW way1, NEW refs1, IsWalk(d, way1, refs1),
           NEW way2, NEW refs2, IsWalk(d, way2, refs2),
           NEW m \in Nat, m <= Len(way1), m <= Len(way2), \A i \in 1..m : way1[i] = way2[i]
    PROVE  \A i \in 1..(m + 1) : refs1[i] = refs2[i]
<1> DEFINE S == {i \in Nat : i <= m => refs1[i + 1] = refs2[i + 1]}
<1>1. 0 \in S
  <2>1. refs1[1] = refs2[1] /\ 0 + 1 = 1
    BY DEF IsWalk
  <2> QED
    BY <2>1
<1>2. ASSUME NEW i \in Nat, i \in S PROVE i + 1 \in S
  <2>1. SUFFICES ASSUME i + 1 <= m PROVE refs1[(i + 1) + 1] = refs2[(i + 1) + 1]
    OBVIOUS
  <2>2. i + 1 \in 1..Len(way1) /\ i + 1 \in 1..Len(way2) /\ i + 1 \in 1..m
    BY <2>1, WalkFacts
  <2>3. refs1[i + 1] = refs2[i + 1] /\ way1[i + 1] = way2[i + 1]
    BY <1>2, <2>1, <2>2
  <2>4. Leads(d, refs1[i + 1], way1[i + 1], refs1[(i + 1) + 1])
        /\ Leads(d, refs2[i + 1], way2[i + 1], refs2[(i + 1) + 1])
    BY <2>2 DEF IsWalk
  <2> QED
    BY <2>3, <2>4 DEF Leads
<1> HIDE DEF S
<1>3. \A i \in Nat : i \in S
  BY <1>1, <1>2, NatInduct
<1>4. ASSUME NEW i \in 1..(m + 1) PROVE refs1[i] = refs2[i]
  <2>1. i - 1 \in S /\ i - 1 \in Nat /\ i - 1 <= m /\ (i - 1) + 1 = i
    BY <1>3
  <2> QED
    BY <2>1 DEF S
<1> QED
  BY <1>4

Upto(s, m) == [j \in 1..m |-> s[j]]

LEMMA UptoFacts ==
    ASSUME NEW T, NEW s \in Seq(T), NEW m \in Nat, m <= Len(s)
    PROVE  /\ Upto(s, m) \in Seq(T) /\ Len(Upto(s, m)) = m
           /\ \A j \in 1..m : Upto(s, m)[j] = s[j]
<1>1. \A j \in 1..m : s[j] \in T
  BY ElementOfSeq
<1>2. Upto(s, m) \in Seq(T) /\ Len(Upto(s, m)) = m
  BY <1>1, IsASeq DEF Upto
<1> QED
  BY <1>2 DEF Upto

LEMMA WalkBegins ==
    ASSUME NEW d, NEW way, NEW refs, IsWalk(d, way, refs), NEW m \in Nat, m <= Len(way)
    PROVE  IsWalk(d, Upto(way, m), Upto(refs, m + 1)) /\ EndOf(Upto(refs, m + 1)) = refs[m + 1]
<1> DEFINE w == Upto(way, m)
           r == Upto(refs, m + 1)
<1>1. way \in Seq(Nat) /\ refs \in Seq(Refs) /\ Len(way) \in Nat /\ Len(refs) = Len(way) + 1
  BY WalkFacts DEF IsWalk
<1>2. m + 1 \in Nat /\ m + 1 <= Len(refs)
  BY <1>1
<1>3. w \in Seq(Nat) /\ Len(w) = m /\ \A j \in 1..m : w[j] = way[j]
  BY <1>1, UptoFacts
<1>4. r \in Seq(Refs) /\ Len(r) = m + 1 /\ \A j \in 1..(m + 1) : r[j] = refs[j]
  BY <1>1, <1>2, UptoFacts
<1> HIDE DEF w, r
<1>5. PagesEntry(d).kind = "Reference" /\ PagesEntry(d).ref = r[1]
  BY <1>4 DEF IsWalk
<1>6. ASSUME NEW j \in 1..Len(w) PROVE Leads(d, r[j], w[j], r[j + 1])
  <2>1. j \in 1..Len(way) /\ w[j] = way[j] /\ r[j] = refs[j] /\ r[j + 1] = refs[j + 1]
    BY <1>1, <1>3, <1>4
  <2>2. Leads(d, refs[j], way[j], refs[j + 1])
    BY <2>1 DEF IsWalk
  <2> QED
    BY <2>1, <2>2
<1>7. ASSUME NEW j \in 1..Len(r), NEW k \in 1..Len(r), r[j] = r[k] PROVE j = k
  <2>1. j \in 1..Len(refs) /\ k \in 1..Len(refs) /\ refs[j] = refs[k]
    BY <1>1, <1>4, <1>7
  <2> QED
    BY <2>1 DEF IsWalk
<1>8. IsWalk(d, w, r) /\ EndOf(r) = refs[m + 1]
  BY <1>3, <1>4, <1>5, <1>6, <1>7 DEF IsWalk, EndOf
<1> QED
  BY <1>8 DEF w, r

\* There is one first walk to a node.
LEMMA FirstIsUnique ==
    ASSUME NEW d, NEW way1, NEW refs1, IsFirst(d, way1, refs1),
           NEW way2, NEW refs2, IsFirst(d, way2, refs2), EndOf(refs1) = EndOf(refs2)
    PROVE  way1 = way2 /\ refs1 = refs2
<1>1. IsWalk(d, way1, refs1) /\ IsWalk(d, way2, refs2)
  BY DEF IsFirst
<1>2. way1 \in Seq(Nat) /\ way2 \in Seq(Nat) /\ refs1 \in Seq(Refs) /\ refs2 \in Seq(Refs)
  BY <1>1 DEF IsWalk
<1>3. ~Precedes(way1, way2) /\ ~Precedes(way2, way1)
  BY <1>1 DEF IsFirst
<1>4. way1 = way2
  BY <1>2, <1>3, PrecedesTotal
<1>5. Len(way1) \in Nat /\ Len(refs1) = Len(way1) + 1 /\ Len(refs2) = Len(way1) + 1
  BY <1>1, <1>4, WalkFacts
<1>6. \A i \in 1..(Len(way1) + 1) : refs1[i] = refs2[i]
  BY <1>1, <1>4, <1>5, WalksAgree
<1>7. refs1 = refs2
  BY <1>2, <1>5, <1>6, SeqEqual
<1> QED
  BY <1>4, <1>7

-----------------------------------------------------------------------------
(***************************************************************************)
(* Walks and the paths of the catalogue                                    *)
(***************************************************************************)

\* The items by which Trail describes a way.
Items(d, way) ==
    CHOOSE item : item = [j \in 0..Len(way) |-> IF j = 0 THEN PagesEntry(d)
                                                ELSE KidAt(d, item[j - 1], way[j])]

LEMMA TrailItems ==
    ASSUME NEW d, NEW way
    PROVE  Trail(d, way) = [j \in 1..(Len(way) + 1) |-> Items(d, way)[j - 1]]
BY DEF Trail, Items

\* The items that occur in a document.
AllItems(d) ==
    {Null, PagesEntry(d)}
        \cup UNION {{Kids(d.objects[r])[j] : j \in DOMAIN Kids(d.objects[r])} : r \in DOMAIN d.objects}

\* An inner node is an object of the document.
LEMMA InnerIsObject ==
    ASSUME NEW d, NEW r, TypeOf(Resolve(d.objects, r)) = "Pages"
    PROVE  r \in DOMAIN d.objects /\ Resolve(d.objects, r) = d.objects[r]
<1>1. Null.kind = "Null" /\ "Null" # "Name"
  BY DEF Null
<1>2. Entries(Null) = EmptyMap
  BY <1>1 DEF Entries
<1>3. DOMAIN EmptyMap = {}
  BY EmptySeq, LenProperties DEF EmptyMap
<1>4. Entry(Null, "Type") = Null
  BY <1>2, <1>3 DEF Entry
<1>5. TypeOf(Null) # "Pages"
  BY <1>1, <1>4 DEF TypeOf
<1> QED
  BY <1>5 DEF Resolve

LEMMA KidIsItem ==
    ASSUME NEW d, NEW item, NEW place
    PROVE  KidAt(d, item, place) \in AllItems(d)
<1> DEFINE node == Deref(d.objects, item)
<1>1. CASE item.kind = "Reference" /\ TypeOf(node) = "Pages" /\ place \in DOMAIN Kids(node)
  <2>1. item.ref \in DOMAIN d.objects /\ node = d.objects[item.ref]
    <3>1. node = Resolve(d.objects, item.ref)
      BY <1>1 DEF Deref
    <3> QED
      BY <1>1, <3>1, InnerIsObject
  <2>2. KidAt(d, item, place) = Kids(node)[place]
    BY <1>1 DEF KidAt
  <2> HIDE DEF node
  <2> QED
    BY <1>1, <2>1, <2>2 DEF AllItems
<1>2. CASE ~(item.kind = "Reference" /\ TypeOf(node) = "Pages" /\ place \in DOMAIN Kids(node))
  BY <1>2 DEF KidAt, AllItems
<1> QED
  BY <1>1, <1>2

\* The recursion of Trail has a solution for every way.
LEMMA ItemsFollow ==
    ASSUME NEW d, NEW way, Len(way) \in Nat
    PROVE  /\ Items(d, way)[0] = PagesEntry(d)
           /\ \A j \in 1..Len(way) : Items(d, way)[j] = KidAt(d, Items(d, way)[j - 1], way[j])
<1> DEFINE T == AllItems(d)
           n == Len(way)
           step == [j \in 1..n |-> [item \in T |-> KidAt(d, item, way[j])]]
           F(item) == [j \in 0..n |-> IF j = 0 THEN PagesEntry(d) ELSE KidAt(d, item[j - 1], way[j])]
<1>1. PagesEntry(d) \in T /\ n \in Nat
  BY DEF AllItems
<1>2. step \in [1..n -> [T -> T]]
  BY KidIsItem
<1> HIDE DEF T
<1>3. PICK f \in [0..n -> T] : Follows(f, PagesEntry(d), n, step)
  <2> HIDE DEF step, n
  <2> QED
    BY <1>1, <1>2, StepsExist
<1>4. f[0] = PagesEntry(d) /\ \A j \in 1..n : f[j] = step[j][f[j - 1]]
  BY <1>3, Zenon DEF Follows
<1>5. ASSUME NEW j \in 1..n PROVE f[j] = KidAt(d, f[j - 1], way[j])
  <2>1. j - 1 \in 0..n
    BY <1>1
  <2>2. f[j - 1] \in T
    BY <1>3, <2>1
  <2> QED
    BY <1>4, <2>2
<1> HIDE DEF step
<1>6. f = F(f)
  <2>1. \A j \in 0..n : f[j] = IF j = 0 THEN PagesEntry(d) ELSE KidAt(d, f[j - 1], way[j])
    <3>1. TAKE j \in 0..n
    <3>2. j = 0 \/ (j # 0 /\ j \in 1..n)
      BY <1>1
    <3> QED
      BY <1>4, <1>5, <3>2
  <2>2. f = [j \in 0..n |-> f[j]]
    BY <1>3
  <2> QED
    BY <2>1, <2>2
<1>7. Items(d, way) = CHOOSE item : item = F(item)
  BY DEF Items
<1> HIDE DEF F
<1>8. Items(d, way) = F(Items(d, way))
  BY <1>6, <1>7
<1> USE DEF F
<1>9. Items(d, way)[0] = PagesEntry(d)
  <2>1. 0 \in 0..n
    BY <1>1
  <2> HIDE DEF n
  <2> QED
    BY <1>8, <2>1
<1>10. ASSUME NEW j \in 1..n PROVE Items(d, way)[j] = KidAt(d, Items(d, way)[j - 1], way[j])
  <2>1. j \in 0..n /\ j # 0
    BY <1>1
  <2> HIDE DEF n
  <2> QED
    BY <1>8, <2>1
<1> QED
  BY <1>9, <1>10

PathOf(way, refs) == [at |-> way, refs |-> refs]

RefsOf(nodes) == [j \in DOMAIN nodes |-> nodes[j].ref]

Inner(d) == {r \in DOMAIN d.objects : TypeOf(d.objects[r]) = "Pages"}

LEMMA TrailFacts ==
    ASSUME NEW d, NEW way, Len(way) \in Nat
    PROVE  /\ Len(Trail(d, way)) = Len(way) + 1
           /\ DOMAIN Trail(d, way) = 1..(Len(way) + 1)
           /\ \A j \in 1..(Len(way) + 1) : Trail(d, way)[j] = Items(d, way)[j - 1]
<1> DEFINE t == Trail(d, way)
           T == Range(t)
<1>1. t = [j \in 1..(Len(way) + 1) |-> Items(d, way)[j - 1]]
  BY TrailItems
<1>2. DOMAIN t = 1..(Len(way) + 1) /\ \A j \in 1..(Len(way) + 1) : t[j] = Items(d, way)[j - 1]
  BY <1>1
<1> HIDE DEF t
<1>3. \A j \in DOMAIN t : t[j] \in T
  BY DEF Range
<1> HIDE DEF T
<1>4. t \in [1..(Len(way) + 1) -> T]
  BY <1>1, <1>2, <1>3
<1>5. t \in Seq(T)
  BY <1>4, SeqDef
<1>6. Len(t) = Len(way) + 1
  BY <1>2, <1>5, LenProperties
<1> QED
  BY <1>2, <1>6 DEF t

\* On a walk the items are the references to its nodes.
LEMMA WalkItems ==
    ASSUME NEW d, NEW way, NEW refs, IsWalk(d, way, refs)
    PROVE  \A j \in 0..Len(way) : /\ Items(d, way)[j].kind = "Reference"
                                  /\ Items(d, way)[j].ref = refs[j + 1]
<1> DEFINE item == Items(d, way)
           P == {j \in Nat : j <= Len(way) => item[j].kind = "Reference" /\ item[j].ref = refs[j + 1]}
<1>1. Len(way) \in Nat
  BY WalkFacts
<1>2. /\ item[0] = PagesEntry(d)
      /\ \A j \in 1..Len(way) : item[j] = KidAt(d, item[j - 1], way[j])
  BY <1>1, ItemsFollow
<1> HIDE DEF item
<1>3. 0 \in P
  <2>1. item[0].kind = "Reference" /\ item[0].ref = refs[1] /\ 0 + 1 = 1
    BY <1>2 DEF IsWalk
  <2> QED
    BY <2>1
<1>4. ASSUME NEW j \in Nat, j \in P PROVE j + 1 \in P
  <2>1. SUFFICES ASSUME j + 1 <= Len(way)
                 PROVE  item[j + 1].kind = "Reference" /\ item[j + 1].ref = refs[(j + 1) + 1]
    OBVIOUS
  <2>2. j + 1 \in 1..Len(way) /\ (j + 1) - 1 = j /\ j <= Len(way)
    BY <1>1, <2>1
  <2>3. item[j].kind = "Reference" /\ item[j].ref = refs[j + 1]
    BY <1>4, <2>2
  <2>4. item[j + 1] = KidAt(d, item[j], way[j + 1])
    BY <1>2, <2>2
  <2>5. Leads(d, refs[j + 1], way[j + 1], refs[(j + 1) + 1])
    BY <2>2 DEF IsWalk
  <2>6. Deref(d.objects, item[j]) = Resolve(d.objects, refs[j + 1])
    BY <2>3 DEF Deref
  <2> QED
    BY <2>3, <2>4, <2>5, <2>6 DEF KidAt, Leads
<1> HIDE DEF P
<1>5. \A j \in Nat : j \in P
  BY <1>3, <1>4, NatInduct
<1>6. ASSUME NEW j \in 0..Len(way) PROVE item[j].kind = "Reference" /\ item[j].ref = refs[j + 1]
  <2>1. j \in P /\ j <= Len(way)
    BY <1>1, <1>5
  <2> QED
    BY <2>1 DEF P
<1> QED
  BY <1>6 DEF item

\* No walk is longer than there are inner nodes.
LEMMA WalkIsShort ==
    ASSUME NEW d \in Documents, NEW way, NEW refs, IsWalk(d, way, refs)
    PROVE  /\ Len(way) \in 0..Cardinality(Inner(d))
           /\ \A j \in 1..Len(way) : refs[j] \in Inner(d)
                                     /\ way[j] \in DOMAIN Kids(d.objects[refs[j]])
<1>1. IsFiniteSet(Inner(d))
  <2>1. IsFiniteSet(DOMAIN d.objects)
    BY DocumentsAssumption
  <2> QED
    BY <2>1, FS_Subset DEF Inner
<1>2. Len(way) \in Nat /\ Len(refs) = Len(way) + 1
  BY WalkFacts
<1>3. ASSUME NEW j \in 1..Len(way)
      PROVE  refs[j] \in Inner(d) /\ way[j] \in DOMAIN Kids(d.objects[refs[j]])
  <2>1. Leads(d, refs[j], way[j], refs[j + 1])
    BY DEF IsWalk
  <2> QED
    BY <2>1, InnerIsObject DEF Leads, Inner
<1> DEFINE f == [j \in 1..Len(way) |-> refs[j]]
<1>4. f \in Injection(1..Len(way), Inner(d))
  <2>1. f \in [1..Len(way) -> Inner(d)]
    BY <1>3
  <2>2. \A j, k \in 1..Len(way) : refs[j] = refs[k] => j = k
    BY <1>2 DEF IsWalk
  <2>3. IsInjective(f)
    BY <2>2 DEF IsInjective
  <2> QED
    BY <2>1, <2>3 DEF Injection
<1>5. Cardinality(1..Len(way)) <= Cardinality(Inner(d))
  BY <1>1, <1>4, FS_Injection
<1>6. Cardinality(1..Len(way)) = Len(way)
  <2>1. 1 \in Int /\ Len(way) \in Int
    BY <1>2
  <2>2. Cardinality(1..Len(way)) = IF 1 > Len(way) THEN 0 ELSE Len(way) - 1 + 1
    BY <2>1, FS_Interval
  <2> QED
    BY <1>2, <2>2
<1>7. Cardinality(Inner(d)) \in Nat
  BY <1>1, FS_CardinalityType
<1> QED
  BY <1>2, <1>3, <1>5, <1>6, <1>7

LEMMA WalkIsPath ==
    ASSUME NEW d \in Documents, NEW way, NEW refs, IsWalk(d, way, refs)
    PROVE  PathOf(way, refs) \in Paths(d)
<1> DEFINE nodes == Trail(d, way)
           places == UNION {DOMAIN Kids(d.objects[r]) : r \in Inner(d)}
           n == Len(way)
<1>1. Len(way) \in Nat /\ Len(refs) = Len(way) + 1 /\ way \in Seq(Nat) /\ refs \in Seq(Refs)
  BY WalkFacts DEF IsWalk
<1>2. /\ Len(nodes) = n + 1 /\ DOMAIN nodes = 1..(n + 1)
      /\ \A j \in 1..(n + 1) : nodes[j] = Items(d, way)[j - 1]
  BY <1>1, TrailFacts
<1>3. ASSUME NEW j \in 1..(n + 1) PROVE nodes[j].kind = "Reference" /\ nodes[j].ref = refs[j]
  <2>1. j - 1 \in 0..Len(way) /\ (j - 1) + 1 = j
    BY <1>1
  <2> QED
    BY <1>2, <2>1, WalkItems
<1>4. IsSimple(nodes)
  <2>1. \A j, k \in 1..(n + 1) : refs[j] = refs[k] => j = k
    BY <1>1 DEF IsWalk
  <2> HIDE DEF nodes
  <2> QED
    BY <1>2, <1>3, <2>1 DEF IsSimple
<1>5. n \in 0..Cardinality(Inner(d)) /\ \A j \in 1..n : way[j] \in places
  BY WalkIsShort
<1>6. way \in [1..n -> places]
  <2>1. way = [j \in 1..n |-> way[j]]
    BY <1>1, LenProperties, SeqDef
  <2> HIDE DEF places, n
  <2> QED
    BY <1>5, <2>1
<1>7. way \in UNION {[1..m -> places] : m \in 0..Cardinality(Inner(d))}
  BY <1>5, <1>6
<1>8. PathOf(way, RefsOf(nodes)) \in Paths(d)
  BY <1>4, <1>7 DEF Paths, PathOf, RefsOf, Inner
<1>9. RefsOf(nodes) = refs
  <2>1. refs = [j \in 1..(n + 1) |-> refs[j]]
    BY <1>1, LenProperties, SeqDef
  <2> HIDE DEF nodes
  <2> QED
    BY <1>2, <1>3, <2>1 DEF RefsOf
<1> QED
  BY <1>8, <1>9

\* What the kids of a node of the document are.
LEMMA NodeFacts ==
    ASSUME NEW d \in Documents, NEW r \in Refs
    PROVE  LET node == Resolve(d.objects, r) IN
           /\ Len(Kids(node)) \in Nat /\ DOMAIN Kids(node) = 1..Len(Kids(node))
           /\ \A j \in DOMAIN Kids(node) :
                 Kids(node)[j].kind = "Reference" => Kids(node)[j].ref \in Refs
<1> DEFINE kids == Kids(Resolve(d.objects, r))
<1>1. kids \in Seq({kids[j] : j \in DOMAIN kids})
  BY DocumentsAssumption
<1>2. \A j \in 1..Len(kids) : kids[j].kind = "Reference" => kids[j].ref \in Refs
  BY DocumentsAssumption
<1> HIDE DEF kids
<1>3. Len(kids) \in Nat /\ DOMAIN kids = 1..Len(kids)
  BY <1>1, LenProperties
<1>4. /\ Len(kids) \in Nat /\ DOMAIN kids = 1..Len(kids)
      /\ \A j \in DOMAIN kids : kids[j].kind = "Reference" => kids[j].ref \in Refs
  BY <1>2, <1>3
<1> QED
  BY <1>4 DEF kids

LEMMA PathIsWalk ==
    ASSUME NEW d \in Documents, NEW path \in Paths(d)
    PROVE  /\ IsWalk(d, path.at, path.refs)
           /\ path = PathOf(path.at, path.refs)
           /\ Target(path) = EndOf(path.refs)
<1> DEFINE places == UNION {DOMAIN Kids(d.objects[r]) : r \in Inner(d)}
           way == path.at
           item == Items(d, way)
           refs == path.refs
           nodes == Trail(d, way)
<1>1. PICK n \in 0..Cardinality(Inner(d)), w \in UNION {[1..m -> places] : m \in 0..Cardinality(Inner(d))} :
          path = PathOf(w, RefsOf(Trail(d, w))) /\ w \in [1..n -> places] /\ IsSimple(Trail(d, w))
  <2>1. PICK w \in UNION {[1..m -> places] : m \in 0..Cardinality(Inner(d))} :
            path = PathOf(w, RefsOf(Trail(d, w))) /\ IsSimple(Trail(d, w))
    BY DEF Paths, Inner, PathOf, RefsOf
  <2> HIDE DEF places
  <2>2. PICK n \in 0..Cardinality(Inner(d)) : w \in [1..n -> places]
    BY <2>1
  <2> QED
    BY <2>1, <2>2
<1>2. w = way /\ refs = RefsOf(nodes) /\ IsSimple(nodes) /\ path = PathOf(way, refs)
  BY <1>1 DEF PathOf
<1>3. n \in Nat
  <2>1. IsFiniteSet(DOMAIN d.objects)
    BY DocumentsAssumption
  <2>2. Cardinality(Inner(d)) \in Nat
    BY <2>1, FS_Subset, FS_CardinalityType DEF Inner
  <2> QED
    BY <1>1, <2>2
<1> HIDE DEF places, way
<1>4. way \in Seq(places) /\ Len(way) = n
  BY <1>1, <1>2, <1>3, SeqDef, LenProperties
<1>5. /\ Len(nodes) = n + 1 /\ DOMAIN nodes = 1..(n + 1)
      /\ \A j \in 1..(n + 1) : nodes[j] = item[j - 1]
  BY <1>3, <1>4, TrailFacts
<1>6. /\ item[0] = PagesEntry(d)
      /\ \A j \in 1..n : item[j] = KidAt(d, item[j - 1], way[j])
  BY <1>3, <1>4, ItemsFollow
<1> HIDE DEF item, nodes, refs
<1>7. /\ DOMAIN refs = 1..(n + 1)
      /\ \A j \in 1..(n + 1) : refs[j] = item[j - 1].ref /\ item[j - 1].kind = "Reference"
  <2>1. DOMAIN refs = DOMAIN nodes /\ \A j \in DOMAIN nodes : refs[j] = nodes[j].ref
    BY <1>2 DEF RefsOf
  <2>2. \A j \in DOMAIN nodes : nodes[j].kind = "Reference"
    BY <1>2 DEF IsSimple
  <2> QED
    BY <1>5, <2>1, <2>2
<1>8. refs = [j \in 1..(n + 1) |-> refs[j]]
  BY <1>2, <1>5 DEF RefsOf
<1>9. PagesEntry(d).kind = "Reference" /\ PagesEntry(d).ref = refs[1]
  <2>1. 1 \in 1..(n + 1) /\ 1 - 1 = 0
    BY <1>3
  <2> QED
    BY <1>6, <1>7, <2>1
<1>10. ASSUME NEW j \in 1..n PROVE Leads(d, refs[j], way[j], refs[j + 1])
  <2>1. j \in 1..(n + 1) /\ j + 1 \in 1..(n + 1) /\ (j + 1) - 1 = j
    BY <1>3
  <2>2. item[j] = KidAt(d, item[j - 1], way[j]) /\ item[j].kind = "Reference" /\ item[j].ref = refs[j + 1]
        /\ item[j - 1].kind = "Reference" /\ item[j - 1].ref = refs[j]
    BY <1>6, <1>7, <2>1
  <2>3. item[j] # Null
    BY <2>2 DEF Null
  <2>4. Deref(d.objects, item[j - 1]) = Resolve(d.objects, refs[j])
    BY <2>2 DEF Deref
  <2> QED
    BY <2>2, <2>3, <2>4 DEF KidAt, Leads
<1>11. \A j \in 1..(n + 1) : refs[j] \in Refs
  <2> DEFINE P == {j \in Nat : j <= n => refs[j + 1] \in Refs}
  <2>1. 0 \in P
    <3>1. d.root \in Refs
      BY DocumentsAssumption
    <3>2. PagesEntry(d).kind = "Reference" => PagesEntry(d).ref \in Refs
      BY <3>1, DocumentsAssumption DEF PagesEntry
    <3>3. refs[1] \in Refs /\ 0 + 1 = 1
      BY <1>9, <3>2
    <3> QED
      BY <3>3
  <2>2. ASSUME NEW j \in Nat, j \in P PROVE j + 1 \in P
    <3>1. SUFFICES ASSUME j + 1 <= n PROVE refs[(j + 1) + 1] \in Refs
      OBVIOUS
    <3>2. refs[j + 1] \in Refs /\ j + 1 \in 1..n
      BY <1>3, <2>2, <3>1
    <3>3. Leads(d, refs[j + 1], way[j + 1], refs[(j + 1) + 1])
      BY <1>10, <3>2
    <3> QED
      BY <3>2, <3>3, NodeFacts DEF Leads
  <2> HIDE DEF P
  <2>3. \A j \in Nat : j \in P
    BY <2>1, <2>2, NatInduct
  <2>4. ASSUME NEW j \in 1..(n + 1) PROVE refs[j] \in Refs
    <3>1. j - 1 \in P /\ j - 1 <= n /\ (j - 1) + 1 = j
      BY <1>3, <2>3
    <3> QED
      BY <3>1 DEF P
  <2> QED
    BY <2>4
<1>12. \A j \in 1..n : way[j] \in Nat
  <2>1. TAKE j \in 1..n
  <2>2. Leads(d, refs[j], way[j], refs[j + 1]) /\ refs[j] \in Refs
    BY <1>3, <1>10, <1>11
  <2> QED
    BY <2>2, NodeFacts DEF Leads
<1>13. way \in Seq(Nat)
  <2>1. way = [j \in 1..n |-> way[j]]
    BY <1>1, <1>2
  <2> QED
    BY <1>3, <1>12, <2>1, IsASeq
<1>14. refs \in Seq(Refs) /\ Len(refs) = n + 1
  <2>1. n + 1 \in Nat
    BY <1>3
  <2> QED
    BY <1>8, <1>11, <2>1, IsASeq
<1>15. \A j, k \in 1..Len(refs) : refs[j] = refs[k] => j = k
  <2>1. \A j, k \in 1..(n + 1) : nodes[j].ref = nodes[k].ref => j = k
    BY <1>2, <1>5 DEF IsSimple
  <2>2. \A j \in 1..(n + 1) : nodes[j].ref = refs[j]
    BY <1>5, <1>7
  <2>3. \A j, k \in 1..(n + 1) : refs[j] = refs[k] => j = k
    BY <2>1, <2>2, Zenon
  <2> QED
    BY <1>14, <2>3, Zenon
<1>16. IsWalk(d, way, refs)
  BY <1>4, <1>9, <1>10, <1>13, <1>14, <1>15 DEF IsWalk
<1>17. Target(path) = EndOf(refs)
  <2>1. n + 1 \in 1..(n + 1)
    BY <1>3
  <2> QED
    BY <1>14, <2>1 DEF Target, EndOf, refs
<1> QED
  BY <1>2, <1>16, <1>17 DEF way, refs

-----------------------------------------------------------------------------
(***************************************************************************)
(* Resources of the nearest node                                           *)
(***************************************************************************)

LEMMA GreatestBelow ==
    ASSUME NEW n \in Nat, NEW S \in SUBSET (1..n), S # {}
    PROVE  \E p \in S : \A q \in S : q <= p
<1> DEFINE T == {n - p : p \in S}
<1>1. T \in SUBSET Nat /\ T # {}
  <2>1. \A p \in S : n - p \in Nat
    OBVIOUS
  <2> QED
    BY <2>1
<1>2. \A p \in S : n - p \in T
  OBVIOUS
<1>3. PICK p \in S : Min(T) = n - p
  BY <1>1, MinOfNat
<1>4. \A y \in T : n - p <= y
  BY <1>1, <1>3, MinOfNat
<1> HIDE DEF T
<1>5. ASSUME NEW q \in S PROVE q <= p
  BY <1>2, <1>4
<1> QED
  BY <1>5

Loc(d, r) == LocalResources(d.objects, Resolve(d.objects, r))

IsNearest(d, refs, k, j) ==
    /\ j \in DOMAIN refs
    /\ k \in DOMAIN Loc(d, refs[j])
    /\ \A l \in DOMAIN refs : k \in DOMAIN Loc(d, refs[l]) => l <= j

LEMMA NearestValue ==
    ASSUME NEW d, NEW refs, NEW n \in Nat, DOMAIN refs = 1..n, NEW k, NEW j, IsNearest(d, refs, k, j)
    PROVE  /\ k \in DOMAIN NearestResources(d, refs)
           /\ NearestResources(d, refs)[k] = Loc(d, refs[j])[k]
<1> DEFINE local == [i \in DOMAIN refs |-> Loc(d, refs[i])]
           Q(x, i) == x \in DOMAIN local[i] /\ \A l \in DOMAIN local : x \in DOMAIN local[l] => l <= i
           Nearest(x) == CHOOSE i \in DOMAIN local : Q(x, i)
           K == UNION {DOMAIN local[i] : i \in DOMAIN local}
<1>1. NearestResources(d, refs) = [x \in K |-> local[Nearest(x)][x]]
  BY DEF NearestResources, Loc
<1>2. DOMAIN local = 1..n /\ \A i \in 1..n : local[i] = Loc(d, refs[i])
  OBVIOUS
<1> HIDE DEF local
<1>3. j \in 1..n /\ Q(k, j)
  BY <1>2 DEF IsNearest
<1>4. ASSUME NEW i \in DOMAIN local, Q(k, i) PROVE i = j
  <2>1. i <= j /\ j <= i
    BY <1>2, <1>3, <1>4
  <2> QED
    BY <1>2, <1>3, <2>1
<1> HIDE DEF Q
<1>5. Nearest(k) = j
  BY <1>2, <1>3, <1>4
<1>6. k \in K
  BY <1>2, <1>3 DEF Q
<1> HIDE DEF K, Nearest
<1> QED
  BY <1>1, <1>2, <1>3, <1>5, <1>6

LEMMA NearestDomain ==
    ASSUME NEW d, NEW refs
    PROVE  /\ DOMAIN NearestResources(d, refs) = UNION {DOMAIN Loc(d, refs[j]) : j \in DOMAIN refs}
           /\ NearestResources(d, refs) = [k \in DOMAIN NearestResources(d, refs) |->
                                              NearestResources(d, refs)[k]]
<1> DEFINE local == [i \in DOMAIN refs |-> Loc(d, refs[i])]
           Q(x, i) == x \in DOMAIN local[i] /\ \A l \in DOMAIN local : x \in DOMAIN local[l] => l <= i
           Nearest(x) == CHOOSE i \in DOMAIN local : Q(x, i)
           K == UNION {DOMAIN local[i] : i \in DOMAIN local}
<1>1. NearestResources(d, refs) = [x \in K |-> local[Nearest(x)][x]]
  BY DEF NearestResources, Loc
<1>2. K = UNION {DOMAIN Loc(d, refs[j]) : j \in DOMAIN refs}
  OBVIOUS
<1> HIDE DEF K, Nearest
<1> QED
  BY <1>1, <1>2

LEMMA NearestExists ==
    ASSUME NEW d, NEW refs, NEW n \in Nat, DOMAIN refs = 1..n, NEW k \in DOMAIN NearestResources(d, refs)
    PROVE  \E j : IsNearest(d, refs, k, j)
<1> DEFINE S == {j \in 1..n : k \in DOMAIN Loc(d, refs[j])}
<1>1. S \in SUBSET (1..n) /\ S # {}
  <2>1. k \in UNION {DOMAIN Loc(d, refs[j]) : j \in 1..n}
    BY NearestDomain
  <2>2. PICK j \in 1..n : k \in DOMAIN Loc(d, refs[j])
    BY <2>1
  <2> QED
    BY <2>2
<1>2. PICK j \in S : \A l \in S : l <= j
  BY <1>1, GreatestBelow
<1>3. IsNearest(d, refs, k, j)
  BY <1>2 DEF IsNearest
<1> QED
  BY <1>3

\* One more node on the way overlays what it defines itself.
LEMMA NearestExtends ==
    ASSUME NEW d, NEW n \in Nat, NEW refs, DOMAIN refs = 1..n,
           NEW longer, DOMAIN longer = 1..(n + 1), \A j \in 1..n : longer[j] = refs[j]
    PROVE  NearestResources(d, longer) = Overlay(NearestResources(d, refs), Loc(d, longer[n + 1]))
<1> DEFINE base == NearestResources(d, refs)
           over == Loc(d, longer[n + 1])
           all == NearestResources(d, longer)
           merged == Overlay(base, over)
<1>0. /\ n + 1 \in 1..(n + 1) /\ n + 1 \in Nat
      /\ \A j \in 1..n : j \in 1..(n + 1) /\ j # n + 1
      /\ \A j \in 1..(n + 1) : j # n + 1 => j \in 1..n
  OBVIOUS
<1>1. DOMAIN all = DOMAIN base \cup DOMAIN over
  <2>1. DOMAIN all = UNION {DOMAIN Loc(d, longer[j]) : j \in 1..(n + 1)}
    BY NearestDomain
  <2>2. DOMAIN base = UNION {DOMAIN Loc(d, refs[j]) : j \in 1..n}
    BY NearestDomain
  <2>3. UNION {DOMAIN Loc(d, refs[j]) : j \in 1..n} = UNION {DOMAIN Loc(d, longer[j]) : j \in 1..n}
    OBVIOUS
  <2>4. UNION {DOMAIN Loc(d, longer[j]) : j \in 1..(n + 1)}
          = (UNION {DOMAIN Loc(d, longer[j]) : j \in 1..n}) \cup DOMAIN Loc(d, longer[n + 1])
    BY <1>0
  <2> QED
    BY <2>1, <2>2, <2>3, <2>4
<1>2. ASSUME NEW k \in DOMAIN over PROVE all[k] = over[k]
  <2>1. IsNearest(d, longer, k, n + 1)
    BY <1>0 DEF IsNearest
  <2> QED
    BY <1>0, <2>1, NearestValue
<1>3. ASSUME NEW k \in DOMAIN base, k \notin DOMAIN over PROVE all[k] = base[k]
  <2>1. PICK j : IsNearest(d, refs, k, j)
    BY NearestExists
  <2>2. base[k] = Loc(d, refs[j])[k] /\ j \in 1..n
    BY <2>1, NearestValue DEF IsNearest
  <2>3. ASSUME NEW l \in 1..(n + 1), k \in DOMAIN Loc(d, longer[l]) PROVE l <= j
    <3>1. l \in 1..n /\ longer[l] = refs[l]
      BY <1>0, <1>3, <2>3
    <3> QED
      BY <2>1, <2>3, <3>1 DEF IsNearest
  <2>4. IsNearest(d, longer, k, j)
    BY <1>0, <2>1, <2>2, <2>3 DEF IsNearest
  <2>5. all[k] = Loc(d, longer[j])[k]
    <3>1. PICK m \in Nat : DOMAIN longer = 1..m
      BY <1>0
    <3> QED
      BY <2>4, <3>1, NearestValue, SMTT(30)
  <2> QED
    BY <2>2, <2>5
<1>4. all = [k \in DOMAIN all |-> all[k]]
  BY NearestDomain
<1> HIDE DEF all, base, over
<1>5. merged = [k \in DOMAIN base \cup DOMAIN over |-> IF k \in DOMAIN over THEN over[k] ELSE base[k]]
  BY DEF Overlay
<1>6. \A k \in DOMAIN base \cup DOMAIN over : all[k] = IF k \in DOMAIN over THEN over[k] ELSE base[k]
  BY <1>2, <1>3
<1>7. all = merged
  BY <1>1, <1>4, <1>5, <1>6
<1> QED
  BY <1>7 DEF all, base, over

\* The first node has no more than its own.
LEMMA OverlayOnNothing ==
    ASSUME NEW base, DOMAIN base = {}, NEW over
    PROVE  Overlay(base, over) = Overlay(EmptyMap, over)
<1>1. DOMAIN EmptyMap = {}
  BY EmptySeq, LenProperties DEF EmptyMap
<1>2. \A b : DOMAIN b = {} => Overlay(b, over) = [k \in DOMAIN over |-> over[k]]
  BY DEF Overlay
<1> QED
  BY <1>1, <1>2

-----------------------------------------------------------------------------
(***************************************************************************)
(* First walks                                                             *)
(***************************************************************************)

\* One step more makes a walk to a new node.
LEMMA WalkExtends ==
    ASSUME NEW d, NEW m \in Nat, NEW way \in Seq(Nat), Len(way) = m + 1,
           NEW refs \in Seq(Refs), Len(refs) = m + 2,
           IsWalk(d, Upto(way, m), Upto(refs, m + 1)),
           Leads(d, refs[m + 1], way[m + 1], refs[m + 2]),
           \A j \in 1..(m + 1) : refs[j] # refs[m + 2]
    PROVE  IsWalk(d, way, refs)
<1> DEFINE w == Upto(way, m)
           r == Upto(refs, m + 1)
<1>1. Len(w) = m /\ \A j \in 1..m : w[j] = way[j]
  <2>1. m <= Len(way)
    OBVIOUS
  <2> QED
    BY <2>1, UptoFacts
<1>2. m + 1 \in Nat /\ m + 1 <= Len(refs)
  OBVIOUS
<1>3. Len(r) = m + 1 /\ \A j \in 1..(m + 1) : r[j] = refs[j]
  BY <1>2, UptoFacts
<1>4. IsWalk(d, w, r)
  OBVIOUS
<1> HIDE DEF w, r
<1>5. PagesEntry(d).kind = "Reference" /\ PagesEntry(d).ref = refs[1]
  <2>1. 1 \in 1..(m + 1)
    OBVIOUS
  <2> QED
    BY <1>3, <1>4, <2>1 DEF IsWalk
<1>6. ASSUME NEW j \in 1..Len(way) PROVE Leads(d, refs[j], way[j], refs[j + 1])
  <2>1. CASE j = m + 1
    <3>1. (m + 1) + 1 = m + 2
      OBVIOUS
    <3> QED
      BY <2>1, <3>1
  <2>2. CASE j # m + 1
    <3>1. j \in 1..m /\ j \in 1..(m + 1) /\ j + 1 \in 1..(m + 1)
      BY <2>2
    <3>2. Leads(d, r[j], w[j], r[j + 1])
      BY <1>1, <1>4, <3>1 DEF IsWalk
    <3> QED
      BY <1>1, <1>3, <3>1, <3>2
  <2> QED
    BY <2>1, <2>2
<1>7. ASSUME NEW j \in 1..Len(refs), NEW k \in 1..Len(refs), refs[j] = refs[k] PROVE j = k
  <2>1. CASE j = m + 2 \/ k = m + 2
    <3>1. j \in 1..(m + 1) \/ j = m + 2
      OBVIOUS
    <3>2. k \in 1..(m + 1) \/ k = m + 2
      OBVIOUS
    <3> QED
      BY <1>7, <2>1, <3>1, <3>2
  <2>2. CASE j # m + 2 /\ k # m + 2
    <3>1. j \in 1..(m + 1) /\ k \in 1..(m + 1)
      BY <2>2
    <3>2. r[j] = r[k] /\ j \in 1..Len(r) /\ k \in 1..Len(r)
      BY <1>3, <1>7, <3>1
    <3> QED
      BY <1>4, <3>2 DEF IsWalk
  <2> QED
    BY <2>1, <2>2
<1>8. Len(refs) = Len(way) + 1
  OBVIOUS
<1> QED
  BY <1>5, <1>6, <1>7, <1>8 DEF IsWalk

\* A depth-first search meets a node by its first walk: whoever has entered seen, has gone
\* through the kids before the ones on the way, has left nothing out elsewhere, and is here
\* by first walks, has found the first walk to a node that is new.
LEMMA NewNodeIsFirst ==
    ASSUME NEW d, NEW seen, NEW way, NEW refs, IsWalk(d, way, refs), EndOf(refs) \notin seen,
           \A j \in 1..Len(way) : refs[j] \in seen,
           \A j \in 1..Len(way) : \A place, s :
               Leads(d, refs[j], place, s) /\ place < way[j] => s \in seen,
           \A r \in seen : \A place, s :
               Leads(d, r, place, s) => s \in seen \/ \E j \in 1..Len(way) : refs[j] = r,
           \A j \in 1..Len(way) : IsFirst(d, Upto(way, j - 1), Upto(refs, j))
    PROVE  IsFirst(d, way, refs)
<1> SUFFICES ASSUME NEW way2, NEW refs2, IsWalk(d, way2, refs2), EndOf(refs2) = EndOf(refs),
                    Precedes(way2, way)
             PROVE  FALSE
  BY DEF IsFirst
<1>1. /\ Len(way) \in Nat /\ Len(refs) = Len(way) + 1
      /\ Len(way2) \in Nat /\ Len(refs2) = Len(way2) + 1
      /\ way \in Seq(Nat) /\ way2 \in Seq(Nat) /\ refs2 \in Seq(Refs)
  BY WalkFacts DEF IsWalk
<1>2. CASE IsBeginning(way2, way)
  <2>1. Len(way2) < Len(way) /\ \A i \in 1..Len(way2) : way2[i] = way[i]
    BY <1>2 DEF IsBeginning
  <2>2. \A i \in 1..(Len(way2) + 1) : refs2[i] = refs[i]
    <3>1. Len(way2) \in Nat /\ Len(way2) <= Len(way2) /\ Len(way2) <= Len(way)
      BY <1>1, <2>1
    <3> QED
      BY <2>1, <3>1, WalksAgree, SMTT(30)
  <2>3. Len(way2) + 1 \in 1..(Len(way2) + 1) /\ Len(way2) + 1 \in 1..Len(way)
    BY <1>1, <2>1
  <2>4. EndOf(refs2) = refs[Len(way2) + 1]
    BY <1>1, <2>2, <2>3 DEF EndOf
  <2> QED
    BY <2>3, <2>4
<1>3. ASSUME NEW j, PartAt(way2, way, j) PROVE FALSE
  <2>1. /\ j \in 1..Len(way2) /\ j \in 1..Len(way) /\ way2[j] < way[j]
        /\ \A i \in 1..(j - 1) : way2[i] = way[i]
    BY <1>1, <1>3 DEF PartAt
  <2>2. \A i \in 1..j : refs2[i] = refs[i]
    <3>1. PICK b \in Nat : b = j - 1 /\ b <= Len(way2) /\ b <= Len(way)
      BY <1>1, <2>1
    <3>2. \A i \in 1..b : way2[i] = way[i]
      BY <2>1, <3>1
    <3>3. \A i \in 1..(b + 1) : refs2[i] = refs[i]
      BY <3>1, <3>2, WalksAgree, SMTT(30)
    <3> QED
      BY <1>1, <2>1, <3>1, <3>3
  <2>3. refs2[j + 1] \in seen
    <3>1. Leads(d, refs2[j], way2[j], refs2[j + 1])
      BY <2>1 DEF IsWalk
    <3>2. refs2[j] = refs[j]
      BY <2>1, <2>2
    <3> QED
      BY <2>1, <3>1, <3>2
  <2> DEFINE S == {m \in Nat : m > j + 1 /\ m <= Len(refs2) /\ refs2[m] \notin seen}
             m == Min(S)
  <2>4. m \in Nat /\ m > j + 1 /\ m <= Len(refs2) /\ refs2[m] \notin seen /\ \A i \in S : m <= i
    <3>1. S \in SUBSET Nat
      OBVIOUS
    <3>2. Len(refs2) \in S
      <4>1. refs2[Len(refs2)] \notin seen
        BY DEF EndOf
      <4>2. Len(refs2) # j + 1 /\ Len(refs2) \in Nat /\ j + 1 <= Len(refs2)
        BY <1>1, <2>1, <2>3, <4>1
      <4> QED
        BY <2>1, <4>1, <4>2
    <3>3. m \in S /\ \A i \in S : m <= i
      <4> HIDE DEF S
      <4> QED
        BY <3>1, <3>2, MinOfNat
    <3> HIDE DEF m
    <3> QED
      BY <3>3
  <2> HIDE DEF m
  <2>5. refs2[m - 1] \in seen
    <3>1. CASE m - 1 = j + 1
      BY <2>3, <3>1
    <3>2. CASE m - 1 # j + 1
      <4>1. m - 1 \in Nat /\ m - 1 > j + 1 /\ m - 1 <= Len(refs2) /\ ~(m <= m - 1)
        BY <1>1, <2>1, <2>4, <3>2
      <4> QED
        BY <2>4, <4>1
    <3> QED
      BY <3>1, <3>2
  <2> HIDE DEF S
  <2>6. m - 1 \in 1..Len(way2) /\ m - 2 \in Nat /\ j <= m - 2 /\ (m - 2) + 1 = m - 1 /\ (m - 1) + 1 = m
    BY <1>1, <2>1, <2>4
  <2>7. PICK k \in 1..Len(way) : refs[k] = refs2[m - 1]
    <3>1. Leads(d, refs2[m - 1], way2[m - 1], refs2[(m - 1) + 1])
      BY <2>6 DEF IsWalk
    <3> QED
      BY <2>4, <2>5, <2>6, <3>1
  <2>8. k > j
    <3> SUFFICES ASSUME k <= j PROVE FALSE
      BY <2>1
    <3>1. k \in 1..j /\ k \in 1..Len(refs2) /\ m - 1 \in 1..Len(refs2) /\ k # m - 1
      BY <1>1, <2>1, <2>4, <2>6
    <3>2. refs2[k] = refs2[m - 1]
      BY <2>2, <2>7, <3>1
    <3> QED
      BY <3>1, <3>2 DEF IsWalk
  <2> DEFINE u2 == Upto(way2, m - 2)
             u == Upto(way, k - 1)
  <2>9. IsWalk(d, u2, Upto(refs2, m - 1)) /\ EndOf(Upto(refs2, m - 1)) = refs2[m - 1]
    <3>1. PICK b \in Nat : b = m - 2 /\ b <= Len(way2) /\ b + 1 = m - 1
      BY <1>1, <2>6
    <3>2. IsWalk(d, Upto(way2, b), Upto(refs2, b + 1)) /\ EndOf(Upto(refs2, b + 1)) = refs2[b + 1]
      BY <3>1, WalkBegins
    <3> QED
      BY <3>1, <3>2
  <2>10. IsFirst(d, u, Upto(refs, k)) /\ EndOf(Upto(refs, k)) = refs[k]
    <3>1. PICK b \in Nat : b = k - 1 /\ b <= Len(way) /\ b + 1 = k
      BY <1>1, <2>7
    <3>2. EndOf(Upto(refs, b + 1)) = refs[b + 1]
      BY <3>1, WalkBegins
    <3> QED
      BY <3>1, <3>2
  <2>11. PartAt(u2, u, j)
    <3>1. Len(u2) = m - 2 /\ \A i \in 1..(m - 2) : u2[i] = way2[i]
      <4>1. m - 2 <= Len(way2)
        BY <1>1, <2>6
      <4> QED
        BY <1>1, <2>6, <4>1, UptoFacts
    <3>2. Len(u) = k - 1 /\ \A i \in 1..(k - 1) : u[i] = way[i]
      <4>1. k - 1 \in Nat /\ k - 1 <= Len(way)
        BY <1>1, <2>7
      <4> QED
        BY <1>1, <4>1, UptoFacts
    <3> HIDE DEF u2, u
    <3>3. j \in 1..(m - 2) /\ j \in 1..(k - 1) /\ j <= Len(u)
      BY <1>1, <2>1, <2>6, <2>7, <2>8, <3>2
    <3>4. \A i \in 1..(j - 1) : i \in 1..(m - 2) /\ i \in 1..(k - 1)
      BY <1>1, <2>4, <2>7, <3>3
    <3> QED
      BY <2>1, <3>1, <3>2, <3>3, <3>4 DEF PartAt
  <2>12. Precedes(u2, u)
    BY <2>11, PrecedesCases
  <2> HIDE DEF u, u2
  <2> QED
    BY <2>7, <2>9, <2>10, <2>12 DEF IsFirst
<1> QED
  BY <1>2, <1>3, PrecedesCases

\* The path by which document order meets a node first.
FirstPath(d, r) ==
    CHOOSE p : IsFirst(d, p.at, p.refs) /\ EndOf(p.refs) = r /\ p = PathOf(p.at, p.refs)

HasFirst(d, r) ==
    LET p == FirstPath(d, r)
    IN  IsFirst(d, p.at, p.refs) /\ EndOf(p.refs) = r /\ p = PathOf(p.at, p.refs)

LEMMA FirstPathFound ==
    ASSUME NEW d, NEW way, NEW refs, IsFirst(d, way, refs), NEW r, EndOf(refs) = r
    PROVE  HasFirst(d, r) /\ FirstPath(d, r) = PathOf(way, refs)
<1> DEFINE Q(p) == IsFirst(d, p.at, p.refs) /\ EndOf(p.refs) = r /\ p = PathOf(p.at, p.refs)
           q == FirstPath(d, r)
<1>1. Q(PathOf(way, refs))
  BY DEF PathOf
<1>2. q = CHOOSE p : Q(p)
  BY DEF FirstPath
<1>3. Q(q)
  <2> HIDE DEF Q, q
  <2> QED
    BY <1>1, <1>2
<1>4. HasFirst(d, r)
  BY <1>3 DEF HasFirst
<1> HIDE DEF q
<1>5. q.at = way /\ q.refs = refs
  BY <1>3, FirstIsUnique
<1>6. q = PathOf(way, refs)
  BY <1>3, <1>5
<1> QED
  BY <1>4, <1>6 DEF q

\* A node with a first walk is reached in the catalogue.
LEMMA FirstIsPath ==
    ASSUME NEW d \in Documents, NEW r, HasFirst(d, r)
    PROVE  FirstPath(d, r) \in Paths(d) /\ Target(FirstPath(d, r)) = r
<1> DEFINE p == FirstPath(d, r)
<1>1. IsWalk(d, p.at, p.refs) /\ p = PathOf(p.at, p.refs) /\ EndOf(p.refs) = r
  BY DEF HasFirst, IsFirst
<1> HIDE DEF p
<1>2. p \in Paths(d)
  BY <1>1, WalkIsPath
<1>3. Target(p) = r
  BY <1>1, <1>2, PathIsWalk
<1> QED
  BY <1>2, <1>3 DEF p

-----------------------------------------------------------------------------
(***************************************************************************)
(* The order of the pages                                                  *)
(***************************************************************************)

\* An increasing enumeration of 1..n by itself moves nothing.
LEMMA IncreasingIsIdentity ==
    ASSUME NEW n \in Nat, NEW g \in [1..n -> 1..n], \A i, j \in 1..n : i < j => g[i] < g[j]
    PROVE  \A i \in 1..n : g[i] = i
<1>0. \A i \in 1..n : g[i] \in 1..n
  OBVIOUS
<1> DEFINE P == {i \in Nat : i + 1 <= n => i + 1 <= g[i + 1]}
           Q == {i \in Nat : i < n => g[n - i] <= n - i}
<1>1. 0 \in P
  <2>1. SUFFICES ASSUME 0 + 1 <= n PROVE 0 + 1 <= g[0 + 1]
    OBVIOUS
  <2>2. 0 + 1 = 1 /\ 1 \in 1..n
    BY <2>1
  <2> QED
    BY <1>0, <2>2
<1>2. ASSUME NEW i \in Nat, i \in P PROVE i + 1 \in P
  <2>1. SUFFICES ASSUME (i + 1) + 1 <= n PROVE (i + 1) + 1 <= g[(i + 1) + 1]
    OBVIOUS
  <2>2. i + 1 \in 1..n /\ (i + 1) + 1 \in 1..n /\ i + 1 < (i + 1) + 1
    BY <2>1
  <2>3. i + 1 <= g[i + 1] /\ g[i + 1] < g[(i + 1) + 1]
    BY <1>2, <2>2
  <2>4. g[i + 1] \in Int /\ g[(i + 1) + 1] \in Int
    BY <1>0, <2>2
  <2> QED
    BY <2>3, <2>4
<1>3. 0 \in Q
  <2>1. SUFFICES ASSUME 0 < n PROVE g[n - 0] <= n - 0
    OBVIOUS
  <2>2. n - 0 = n /\ n \in 1..n
    BY <2>1
  <2> QED
    BY <1>0, <2>2
<1>4. ASSUME NEW i \in Nat, i \in Q PROVE i + 1 \in Q
  <2>1. SUFFICES ASSUME i + 1 < n PROVE g[n - (i + 1)] <= n - (i + 1)
    OBVIOUS
  <2>2. n - i \in 1..n /\ n - (i + 1) \in 1..n /\ n - (i + 1) < n - i
    BY <2>1
  <2>3. g[n - i] <= n - i /\ g[n - (i + 1)] < g[n - i]
    BY <1>4, <2>1, <2>2
  <2>4. g[n - i] \in Int /\ g[n - (i + 1)] \in Int
    BY <1>0, <2>2
  <2> QED
    BY <2>3, <2>4
<1> HIDE DEF P, Q
<1>5. \A i \in Nat : i \in P
  BY <1>1, <1>2, NatInduct
<1>6. \A i \in Nat : i \in Q
  BY <1>3, <1>4, NatInduct
<1>7. ASSUME NEW i \in 1..n PROVE g[i] = i
  <2>1. i - 1 \in P /\ i - 1 \in Nat /\ (i - 1) + 1 = i
    BY <1>5
  <2>2. i <= g[i]
    BY <2>1 DEF P
  <2>3. n - i \in Q /\ n - i \in Nat /\ n - i < n /\ n - (n - i) = i
    BY <1>6
  <2>4. g[i] <= i
    BY <2>3 DEF Q
  <2> QED
    BY <1>0, <2>2, <2>4
<1> QED
  BY <1>7

\* The paths of L, by document order.
FollowsOrder(s, n) == \A i, j \in 1..n : i < j => Precedes(s[i].at, s[j].at)

\* A list of all of L in document order.
Enumerates(s, n, L) ==
    s \in [1..n -> L] /\ FollowsOrder(s, n) /\ \A p \in L : \E i \in 1..n : s[i] = p

HaveWays(L) == \A p \in L : p.at \in Seq(Nat)

\* A set of paths is sorted in one way only.
LEMMA SortedUnique ==
    ASSUME NEW n \in Nat, NEW L, HaveWays(L), NEW s, Enumerates(s, n, L),
           NEW t \in [1..n -> L], FollowsOrder(t, n)
    PROVE  t = s
<1> USE DEF Enumerates, HaveWays
<1> DEFINE g == [i \in 1..n |-> CHOOSE j \in 1..n : s[j] = t[i]]
<1>1. \A i \in 1..n : g[i] \in 1..n /\ s[g[i]] = t[i]
  <2>1. \A i \in 1..n : \E j \in 1..n : s[j] = t[i]
    OBVIOUS
  <2> QED
    BY <2>1
<1>2. g \in [1..n -> 1..n]
  BY <1>1
<1> HIDE DEF g
<1>3. ASSUME NEW i \in 1..n, NEW j \in 1..n, i < j PROVE g[i] < g[j]
  <2> SUFFICES ASSUME ~(g[i] < g[j]) PROVE FALSE
    OBVIOUS
  <2>1. g[i] \in 1..n /\ g[j] \in 1..n /\ s[g[i]] = t[i] /\ s[g[j]] = t[j]
    BY <1>1
  <2>2. Precedes(t[i].at, t[j].at)
    BY <1>3 DEF FollowsOrder
  <2>3. t[i].at \in Seq(Nat) /\ t[j].at \in Seq(Nat)
    OBVIOUS
  <2>4. g[j] = g[i] \/ g[j] < g[i]
    <3>1. g[i] \in 1..n /\ g[j] \in 1..n
      BY <1>2
    <3>2. \A x \in 1..n : x \in Int
      OBVIOUS
    <3>3. g[i] \in Int /\ g[j] \in Int
      BY <3>1, <3>2
    <3> QED
      BY <3>3
  <2>5. CASE g[j] = g[i]
    <3>1. Precedes(t[i].at, t[i].at)
      BY <2>1, <2>2, <2>5
    <3> QED
      BY <2>3, <3>1, PrecedesIrreflexive
  <2>6. CASE g[j] < g[i]
    <3>1. Precedes(s[g[j]].at, s[g[i]].at)
      BY <2>1, <2>6 DEF FollowsOrder
    <3>2. Precedes(t[i].at, t[i].at)
      BY <2>1, <2>2, <2>3, <3>1, PrecedesTransitive
    <3> QED
      BY <2>3, <3>2, PrecedesIrreflexive
  <2> QED
    BY <2>4, <2>5, <2>6
<1>4. \A i \in 1..n : g[i] = i
  BY <1>2, <1>3, IncreasingIsIdentity
<1>5. \A i \in 1..n : t[i] = s[i]
  BY <1>1, <1>4
<1> QED
  BY <1>5

-----------------------------------------------------------------------------
(***************************************************************************)
(* What the catalogue says                                                 *)
(***************************************************************************)

Reached(d) == {Target(p) : p \in Paths(d)}

Firsts(d) == {p \in Paths(d) : \A q \in Paths(d) : Target(q) = Target(p) => ~Precedes(q.at, p.at)}

Leaves(d) == {p \in Firsts(d) : TypeOf(Resolve(d.objects, Target(p))) = "Page"}

LEMMA OutcomeUnfolds ==
    ASSUME NEW d
    PROVE  Outcome(d) =
             LET order == CHOOSE s \in [1..Cardinality(Leaves(d)) -> Leaves(d)] :
                             \A i, j \in DOMAIN s : i < j => Precedes(s[i].at, s[j].at)
             IN  IF Reached(d) = {} \/ \E r \in Reached(d) : Unusable(d, r) THEN Failed
                 ELSE [status |-> "ok", pages |-> [j \in DOMAIN order |-> PageAt(d, order[j])]]
BY DEF Outcome, Reached, Firsts, Leaves

\* A node that no document may contain makes an error of the document it can be reached in.
LEMMA OutcomeFails ==
    ASSUME NEW d \in Documents, NEW r, HasFirst(d, r), Unusable(d, r)
    PROVE  Outcome(d) = Failed
<1>1. r \in Reached(d)
  BY FirstIsPath DEF Reached
<1>2. \E x \in Reached(d) : Unusable(d, x)
  BY <1>1
<1> QED
  BY <1>2, OutcomeUnfolds

\* So does a catalog without a reference to its pages.
LEMMA OutcomeEmpty ==
    ASSUME NEW d \in Documents, PagesEntry(d).kind # "Reference"
    PROVE  Outcome(d) = Failed
<1>1. ASSUME NEW p \in Paths(d) PROVE FALSE
  <2>1. IsWalk(d, p.at, p.refs)
    BY PathIsWalk
  <2> QED
    BY <2>1 DEF IsWalk
<1>2. Reached(d) = {}
  BY <1>1 DEF Reached
<1> QED
  BY <1>2, OutcomeUnfolds

\* The first paths of the catalogue are the first walks.
LEMMA FirstsAreFirst ==
    ASSUME NEW d \in Documents, NEW p
    PROVE  p \in Firsts(d) <=> HasFirst(d, Target(p)) /\ p = FirstPath(d, Target(p))
<1>1. ASSUME p \in Firsts(d) PROVE HasFirst(d, Target(p)) /\ p = FirstPath(d, Target(p))
  <2>1. p \in Paths(d) /\ \A q \in Paths(d) : Target(q) = Target(p) => ~Precedes(q.at, p.at)
    BY <1>1 DEF Firsts
  <2>2. IsWalk(d, p.at, p.refs) /\ p = PathOf(p.at, p.refs) /\ Target(p) = EndOf(p.refs)
    BY <2>1, PathIsWalk
  <2>3. ASSUME NEW way2, NEW refs2, IsWalk(d, way2, refs2), EndOf(refs2) = EndOf(p.refs)
        PROVE  ~Precedes(way2, p.at)
    <3> DEFINE q == PathOf(way2, refs2)
    <3>1. q \in Paths(d) /\ q.at = way2 /\ q.refs = refs2
      BY <2>3, WalkIsPath DEF PathOf
    <3>2. Target(q) = EndOf(refs2)
      BY <3>1 DEF Target, EndOf
    <3> HIDE DEF q
    <3> QED
      BY <2>1, <2>2, <2>3, <3>1, <3>2
  <2>4. IsFirst(d, p.at, p.refs)
    BY <2>2, <2>3 DEF IsFirst
  <2> QED
    BY <2>2, <2>4, FirstPathFound
<1>2. ASSUME HasFirst(d, Target(p)), p = FirstPath(d, Target(p)) PROVE p \in Firsts(d)
  <2>1. IsFirst(d, p.at, p.refs) /\ EndOf(p.refs) = Target(p)
    BY <1>2 DEF HasFirst
  <2>2. p \in Paths(d)
    BY <1>2, FirstIsPath
  <2>3. ASSUME NEW q \in Paths(d), Target(q) = Target(p) PROVE ~Precedes(q.at, p.at)
    <3>1. IsWalk(d, q.at, q.refs) /\ EndOf(q.refs) = EndOf(p.refs)
      BY <2>1, <2>3, PathIsWalk
    <3> QED
      BY <2>1, <3>1 DEF IsFirst
  <2> QED
    BY <2>2, <2>3 DEF Firsts
<1> QED
  BY <1>1, <1>2

\* The answer when no node is unusable: nodes are those that can be reached, each by its
\* first walk, and ps are the pages of the leaves among them, by document order.
LEMMA OutcomeIs ==
    ASSUME NEW d \in Documents, NEW nodes, nodes # {},
           \A r \in nodes : HasFirst(d, r) /\ ~Unusable(d, r),
           \A p \in Paths(d) : Target(p) \in nodes,
           NEW T, NEW ps \in Seq(T),
           {ps[i].ref : i \in 1..Len(ps)} = {r \in nodes : TypeOf(Resolve(d.objects, r)) = "Page"},
           \A i, j \in 1..Len(ps) :
              i < j => Precedes(FirstPath(d, ps[i].ref).at, FirstPath(d, ps[j].ref).at),
           \A i \in 1..Len(ps) : ps[i] = PageAt(d, FirstPath(d, ps[i].ref))
    PROVE  Outcome(d) = [status |-> "ok", pages |-> ps]
<1> DEFINE n == Len(ps)
           L == Leaves(d)
           s == [i \in 1..n |-> FirstPath(d, ps[i].ref)]
<1>1. n \in Nat /\ ps = [i \in 1..n |-> ps[i]]
  BY LenProperties, SeqDef
<1>2. ASSUME NEW p \in Paths(d) PROVE Target(p) \in nodes /\ ~Unusable(d, Target(p))
  OBVIOUS
<1>3. \A r \in Reached(d) : r \in nodes
  BY <1>2 DEF Reached
<1>4. nodes \subseteq Reached(d)
  BY FirstIsPath DEF Reached
<1>5. ~(Reached(d) = {} \/ \E r \in Reached(d) : Unusable(d, r))
  BY <1>3, <1>4
<1>6. \A r \in nodes : FirstPath(d, r) \in Firsts(d) /\ Target(FirstPath(d, r)) = r
  BY FirstIsPath, FirstsAreFirst
<1>7. ASSUME NEW i \in 1..n PROVE s[i] \in L /\ Target(s[i]) = ps[i].ref
  <2>1. ps[i].ref \in {ps[k].ref : k \in 1..Len(ps)}
    OBVIOUS
  <2>2. ps[i].ref \in nodes /\ TypeOf(Resolve(d.objects, ps[i].ref)) = "Page"
    BY <2>1
  <2> QED
    BY <1>6, <2>2 DEF Leaves
<1>8. ASSUME NEW p \in L PROVE \E i \in 1..n : s[i] = p
  <2>1. p \in Firsts(d) /\ TypeOf(Resolve(d.objects, Target(p))) = "Page"
    BY DEF Leaves
  <2>2. p \in Paths(d) /\ p = FirstPath(d, Target(p))
    BY <2>1, FirstsAreFirst DEF Firsts
  <2>3. Target(p) \in {ps[i].ref : i \in 1..Len(ps)}
    BY <2>1, <2>2
  <2>4. PICK i \in 1..n : ps[i].ref = Target(p)
    BY <2>3
  <2> QED
    BY <2>2, <2>4
<1>9. s \in [1..n -> L]
  BY <1>7
<1>10. \A p \in L : p.at \in Seq(Nat)
  <2>1. TAKE p \in L
  <2>2. IsWalk(d, p.at, p.refs)
    BY PathIsWalk DEF Leaves, Firsts
  <2> QED
    BY <2>2 DEF IsWalk
<1>11. FollowsOrder(s, n)
  BY DEF FollowsOrder
<1>12. \A i, j \in 1..n : s[i] = s[j] => i = j
  <2>1. SUFFICES ASSUME NEW i \in 1..n, NEW j \in 1..n, s[i] = s[j], i # j PROVE FALSE
    OBVIOUS
  <2>2. i < j \/ j < i
    BY <1>1, <2>1
  <2>3. Precedes(s[i].at, s[i].at)
    BY <1>11, <2>1, <2>2 DEF FollowsOrder
  <2>4. s[i].at \in Seq(Nat)
    BY <1>7, <1>10
  <2> QED
    BY <2>3, <2>4, PrecedesIrreflexive
<1> HIDE DEF s, L
<1>13. Cardinality(L) = n
  <2>1. s \in Bijection(1..n, L)
    BY <1>8, <1>9, <1>12 DEF Bijection, Injection, IsInjective, Surjection
  <2>2. IsFiniteSet(1..n) /\ Cardinality(1..n) = n
    <3>1. 1 \in Int /\ n \in Int
      BY <1>1
    <3>2. IsFiniteSet(1..n) /\ Cardinality(1..n) = IF 1 > n THEN 0 ELSE n - 1 + 1
      BY <3>1, FS_Interval
    <3> QED
      BY <1>1, <3>2
  <2> QED
    BY <2>1, <2>2, FS_Bijection DEF ExistsBijection
<1> DEFINE Sorted(t) == \A i, j \in DOMAIN t : i < j => Precedes(t[i].at, t[j].at)
           order == CHOOSE t \in [1..n -> L] : Sorted(t)
<1>14. order = s
  <2>1. Sorted(s)
    BY <1>9, <1>11 DEF FollowsOrder
  <2>2. ASSUME NEW t \in [1..n -> L], Sorted(t) PROVE t = s
    <3>1. FollowsOrder(t, n)
      BY <2>2 DEF FollowsOrder
    <3>2. Enumerates(s, n, L) /\ HaveWays(L)
      BY <1>8, <1>9, <1>10, <1>11 DEF Enumerates, HaveWays
    <3> HIDE DEF n
    <3> QED
      BY <1>1, <2>2, <3>1, <3>2, SortedUnique, ZenonT(30)
  <2> HIDE DEF Sorted
  <2> QED
    BY <1>9, <2>1, <2>2
<1>15. Outcome(d) = [status |-> "ok", pages |-> [j \in DOMAIN order |-> PageAt(d, order[j])]]
  BY <1>5, <1>13, OutcomeUnfolds DEF L
<1>16. [j \in DOMAIN order |-> PageAt(d, order[j])] = ps
  <2>1. DOMAIN order = 1..n /\ \A j \in 1..n : PageAt(d, order[j]) = ps[j]
    BY <1>9, <1>14 DEF s
  <2> HIDE DEF order
  <2> QED
    BY <1>1, <2>1
<1> QED
  BY <1>15, <1>16

-----------------------------------------------------------------------------
(***************************************************************************)
(* The walk goes through the nodes in document order                       *)
(***************************************************************************)

\* The way to the kid the activation on top of f is at.
Position(f) ==
    [j \in 1..(Len(f) - 1) |-> IF j + 1 = Len(f) THEN f[j + 1].next ELSE f[j + 1].next - 1]

NodesOf(f) == [j \in 1..(Len(f) - 1) |-> f[j + 1].ref]

\* An activation was called by the first walk to its node, with what the nodes of that walk
\* define.
FrameInOrder(d, f, k) ==
    /\ IsFirst(d, Upto(Position(f), k - 2), Upto(NodesOf(f), k - 1))
    /\ f[k].inherited = NearestResources(d, Upto(NodesOf(f), k - 1))

\* What is visited comes before the kid the walk is at.
WalkInOrder(d, f, seen) ==
    /\ f[1].inherited = EmptyMap
    /\ f[1].next = 1 => Len(f) = 1 /\ seen = {}
    /\ \A k \in 2..Len(f) : FrameInOrder(d, f, k)
    /\ Len(f) > 1 => \A r \in seen : Precedes(FirstPath(d, r).at, Position(f))

\* What is visited is usable, and was found by first walks; the pages are in their order and
\* have what the nodes on them define.
Gathered(d, seen, ps) ==
    /\ \A r \in seen : HasFirst(d, r) /\ ~Unusable(d, r)
    /\ \A i, j \in 1..Len(ps) :
          i < j => Precedes(FirstPath(d, ps[i].ref).at, FirstPath(d, ps[j].ref).at)
    /\ \A i \in 1..Len(ps) : ps[i] = PageAt(d, FirstPath(d, ps[i].ref))

OrderInv ==
    /\ status = "start" => pages = <<>>
    /\ status = "walking" => WalkInOrder(doc, stack, visited)
    /\ status # "err" => Gathered(doc, visited, pages)

LEMMA PositionFacts ==
    ASSUME NEW f \in Seq(Frames), Len(f) \in Nat \ {0}
    PROVE  /\ Position(f) \in Seq(Nat) /\ Len(Position(f)) = Len(f) - 1
           /\ NodesOf(f) \in Seq(Refs) /\ Len(NodesOf(f)) = Len(f) - 1
           /\ \A j \in 1..(Len(f) - 1) : Position(f)[j] =
                 IF j + 1 = Len(f) THEN f[j + 1].next ELSE f[j + 1].next - 1
           /\ \A j \in 1..(Len(f) - 1) : NodesOf(f)[j] = f[j + 1].ref
<1>1. PICK m \in Nat : m = Len(f) - 1
  OBVIOUS
<1>2. ASSUME NEW j \in 1..m PROVE f[j + 1].next \in Nat \ {0} /\ f[j + 1].ref \in Refs
  <2>1. j + 1 \in 1..Len(f)
    BY <1>1
  <2>2. f[j + 1] \in Frames
    BY <2>1, ElementOfSeq
  <2> QED
    BY <2>2 DEF Frames
<1> DEFINE P(j) == IF j + 1 = Len(f) THEN f[j + 1].next ELSE f[j + 1].next - 1
           R(j) == f[j + 1].ref
<1>3. \A j \in 1..m : P(j) \in Nat /\ R(j) \in Refs
  BY <1>2
<1>4. Position(f) = [j \in 1..m |-> P(j)] /\ NodesOf(f) = [j \in 1..m |-> R(j)]
  BY <1>1 DEF Position, NodesOf
<1> HIDE DEF P, R
<1>5. [j \in 1..m |-> P(j)] \in Seq(Nat) /\ Len([j \in 1..m |-> P(j)]) = m
  BY <1>3, IsASeq
<1>6. [j \in 1..m |-> R(j)] \in Seq(Refs) /\ Len([j \in 1..m |-> R(j)]) = m
  BY <1>3, IsASeq
<1>7. \A j \in 1..m : Position(f)[j] = P(j) /\ NodesOf(f)[j] = R(j)
  BY <1>4
<1> QED
  BY <1>1, <1>4, <1>5, <1>6, <1>7 DEF P, R

\* An activation stays in order while the ones below it stay where they are.
LEMMA FrameKept ==
    ASSUME NEW f \in Seq(Frames), Len(f) \in Nat \ {0}, NEW g \in Seq(Frames), Len(g) \in Nat \ {0},
           NEW k \in 2..Len(f), k <= Len(g),
           \A j \in 2..k : g[j].ref = f[j].ref, \A j \in 2..(k - 1) : g[j].next = f[j].next,
           g[k].inherited = f[k].inherited, NEW d, FrameInOrder(d, f, k)
    PROVE  FrameInOrder(d, g, k)
<1>1. Upto(NodesOf(g), k - 1) = Upto(NodesOf(f), k - 1)
  <2>1. ASSUME NEW j \in 1..(k - 1) PROVE NodesOf(g)[j] = NodesOf(f)[j]
    <3>1. j \in 1..(Len(f) - 1) /\ j \in 1..(Len(g) - 1) /\ j + 1 \in 2..k
      OBVIOUS
    <3>2. NodesOf(f)[j] = f[j + 1].ref /\ NodesOf(g)[j] = g[j + 1].ref
      BY <3>1, PositionFacts
    <3> QED
      BY <3>1, <3>2
  <2> QED
    BY <2>1 DEF Upto
<1>2. Upto(Position(g), k - 2) = Upto(Position(f), k - 2)
  <2>1. ASSUME NEW j \in 1..(k - 2) PROVE Position(g)[j] = Position(f)[j]
    <3>1. j \in 1..(Len(f) - 1) /\ j \in 1..(Len(g) - 1) /\ j + 1 \in 2..(k - 1)
          /\ j + 1 # Len(f) /\ j + 1 # Len(g)
      OBVIOUS
    <3>2. Position(f)[j] = f[j + 1].next - 1
      BY <3>1, PositionFacts
    <3>3. Position(g)[j] = g[j + 1].next - 1
      BY <3>1, PositionFacts
    <3> QED
      BY <3>1, <3>2, <3>3
  <2> QED
    BY <2>1 DEF Upto
<1> QED
  BY <1>1, <1>2 DEF FrameInOrder

LEMMA AheadMoves ==
    ASSUME NEW d, NEW seen, \A x \in seen : HasFirst(d, x),
           NEW p \in Seq(Nat), NEW q \in Seq(Nat), Precedes(p, q),
           \A x \in seen : FirstPath(d, x).at = p \/ Precedes(FirstPath(d, x).at, p)
    PROVE  \A x \in seen : Precedes(FirstPath(d, x).at, q)
<1>1. TAKE x \in seen
<1>2. FirstPath(d, x).at \in Seq(Nat)
  BY DEF HasFirst, IsFirst, IsWalk
<1> QED
  BY <1>2, PrecedesTransitive

\* The activations, as positions and nodes.
LEMMA WhereTheWalkIs ==
    ASSUME IInv, AtKid, NEW r \in Refs
    PROVE  LET way == Position(stack)
               refs == Append(NodesOf(stack), r)
               n == Len(stack)
           IN  /\ n \in Nat \ {0}
               /\ way \in Seq(Nat) /\ Len(way) = n - 1
               /\ refs \in Seq(Refs) /\ Len(refs) = n /\ refs[n] = r
               /\ \A j \in 1..(n - 1) : /\ refs[j] = stack[j + 1].ref /\ refs[j] = NodesOf(stack)[j]
                                        /\ way[j] <= stack[j + 1].next
                                        /\ j + 1 < n => way[j] = stack[j + 1].next - 1
                                        /\ j + 1 = n => way[j] = Top.next
               /\ Top.next \in 1..Len(Top.kids)
<1> DEFINE n == Len(stack)
<1>1. TypeOK /\ status = "walking" /\ Top.next <= Len(Top.kids)
  BY DEF IInv, AtKid
<1>2. stack \in Seq(Frames) /\ n \in Nat \ {0} /\ Top \in Frames
      /\ \A j \in 1..n : stack[j] \in Frames
  BY <1>1, StackFacts DEF TypeOK
<1>3. /\ Position(stack) \in Seq(Nat) /\ Len(Position(stack)) = n - 1
      /\ NodesOf(stack) \in Seq(Refs) /\ Len(NodesOf(stack)) = n - 1
      /\ \A j \in 1..(n - 1) : Position(stack)[j] =
            IF j + 1 = n THEN stack[j + 1].next ELSE stack[j + 1].next - 1
      /\ \A j \in 1..(n - 1) : NodesOf(stack)[j] = stack[j + 1].ref
  BY <1>2, PositionFacts
<1> DEFINE refs == Append(NodesOf(stack), r)
<1>4. /\ refs \in Seq(Refs) /\ Len(refs) = n /\ refs[n] = r
      /\ \A j \in 1..(n - 1) : refs[j] = NodesOf(stack)[j]
  <2>1. PICK m \in Nat : m = Len(NodesOf(stack)) /\ n = m + 1 /\ n - 1 = m
    BY <1>2, <1>3
  <2>2. /\ refs \in Seq(Refs) /\ Len(refs) = m + 1 /\ refs[m + 1] = r
        /\ \A j \in 1..m : refs[j] = NodesOf(stack)[j]
    BY <1>3, <2>1, AppendProperties
  <2> HIDE DEF refs, n
  <2> QED
    BY <2>1, <2>2
<1>5. Top.next \in Nat \ {0} /\ Top = stack[n]
  BY <1>2 DEF Frames, Top
<1>6. Top.next \in 1..Len(Top.kids)
  <2>1. Len(Top.kids) \in Int
    <3>1. CASE n = 1
      <4>1. Top.kids = <<Entry(Node(doc.root), "Pages")>>
        BY <1>1, <1>5, <3>1 DEF IInv, StackInv, TypeOK
      <4> QED
        BY <4>1
    <3>2. CASE n # 1
      <4> HIDE DEF n
      <4>1. n \in 2..n
        BY <1>2, <3>2
      <4> USE DEF n
      <4>2. Top.kids = Kids(Node(Top.ref)) /\ Top.ref \in Refs
        BY <1>2, <1>5, <4>1 DEF IInv, StackInv, Frames
      <4> QED
        BY <4>2, DocumentFacts DEF IInv
    <3> QED
      BY <3>1, <3>2
  <2> QED
    BY <1>1, <1>5, <2>1
<1>7. ASSUME NEW j \in 1..(n - 1)
      PROVE  /\ Position(stack)[j] <= stack[j + 1].next
             /\ j + 1 < n => Position(stack)[j] = stack[j + 1].next - 1
             /\ j + 1 = n => Position(stack)[j] = Top.next
  <2>1. j + 1 \in 1..n
    BY <1>2
  <2>2. stack[j + 1].next \in Int
    BY <1>2, <2>1 DEF Frames
  <2> QED
    BY <1>2, <1>3, <1>5, <2>2
<1> QED
  BY <1>2, <1>3, <1>4, <1>6, <1>7

\* The reference the walk enters is reached by the first walk to it, and it gets the
\* resources of the nodes on that walk.
LEMMA NewPath ==
    ASSUME IInv, ReachInv, OrderInv, AtKid, Kid.kind = "Reference",
           NEW r \in Refs, Kid.ref = r, r \notin visited
    PROVE  /\ IsFirst(doc, Position(stack), Append(NodesOf(stack), r))
           /\ MergedResources(r) = NearestResources(doc, Append(NodesOf(stack), r))
<1> DEFINE n == Len(stack)
           way == Position(stack)
           nodes == NodesOf(stack)
           refs == Append(NodesOf(stack), r)
<1>1. /\ n \in Nat \ {0}
      /\ way \in Seq(Nat) /\ Len(way) = n - 1
      /\ refs \in Seq(Refs) /\ Len(refs) = n /\ refs[n] = r
      /\ \A j \in 1..(n - 1) : /\ refs[j] = stack[j + 1].ref /\ refs[j] = nodes[j]
                               /\ way[j] <= stack[j + 1].next
                               /\ j + 1 < n => way[j] = stack[j + 1].next - 1
                               /\ j + 1 = n => way[j] = Top.next
      /\ Top.next \in 1..Len(Top.kids)
  BY WhereTheWalkIs
<1>2. TypeOK /\ StackInv /\ DocInv /\ status = "walking" /\ WalkInOrder(doc, stack, visited)
  BY DEF IInv, AtKid, OrderInv
<1>3. stack # <<>> /\ Top = stack[n] /\ \A j \in 1..n : stack[j] \in Frames
  BY <1>2, StackFacts DEF TypeOK, Top
<1> HIDE DEF n, way, nodes, refs
<1>4. \A j \in 1..n : Upto(refs, j - 1) = Upto(nodes, j - 1)
  <2>1. ASSUME NEW j \in 1..n, NEW i \in 1..(j - 1) PROVE refs[i] = nodes[i]
    <3>1. i \in 1..(n - 1)
      BY <1>1
    <3> QED
      BY <1>1, <3>1
  <2> QED
    BY <2>1 DEF Upto
<1>5. ASSUME NEW k \in 2..n
      PROVE  /\ IsFirst(doc, Upto(way, k - 2), Upto(refs, k - 1))
             /\ stack[k].inherited = NearestResources(doc, Upto(refs, k - 1))
  <2>1. k \in 1..n
    OBVIOUS
  <2>2. FrameInOrder(doc, stack, k)
    BY <1>2 DEF WalkInOrder, n
  <2>3. Upto(nodes, k - 1) = Upto(refs, k - 1)
    BY <1>4, <2>1
  <2> QED
    BY <2>2, <2>3 DEF FrameInOrder, way, nodes
<1>6. IsWalk(doc, way, refs)
  <2>1. CASE n = 1
    <3>1. Top.kids = <<Entry(Node(doc.root), "Pages")>>
      BY <1>2, <1>3, <2>1 DEF StackInv
    <3>2. Top.next = 1 /\ Kid = Entry(Node(doc.root), "Pages")
      <4>1. Len(Top.kids) = 1 /\ Top.kids[1] = Entry(Node(doc.root), "Pages")
        BY <3>1
      <4>2. Top.next = 1
        BY <1>1, <4>1
      <4> QED
        BY <4>1, <4>2 DEF Kid
    <3>3. PagesEntry(doc).kind = "Reference" /\ PagesEntry(doc).ref = refs[1]
      BY <1>1, <2>1, <3>2 DEF PagesEntry, Node
    <3>4. Len(way) = 0 /\ Len(refs) = 1
      BY <1>1, <2>1
    <3> QED
      BY <1>1, <3>3, <3>4 DEF IsWalk
  <2>2. CASE n # 1
    <3>1. PICK m \in Nat : n = m + 2 /\ n - 1 = m + 1 /\ n - 2 = m
      BY <1>1, <2>2
    <3>2. IsWalk(doc, Upto(way, m), Upto(refs, m + 1))
      <4>1. n \in 2..n
        BY <3>1
      <4> QED
        BY <1>5, <3>1, <4>1 DEF IsFirst
    <3>3. Leads(doc, refs[m + 1], way[m + 1], refs[m + 2])
      <4>1. m + 1 \in 1..(n - 1) /\ (m + 1) + 1 = n /\ n \in 2..n
        BY <3>1
      <4>2. refs[m + 1] = Top.ref /\ way[m + 1] = Top.next /\ refs[m + 2] = r
        BY <1>1, <1>3, <3>1, <4>1
      <4>3. Top.kids = Kids(Node(Top.ref)) /\ TypeOf(Node(Top.ref)) = "Pages"
        BY <1>2, <1>3, <4>1 DEF StackInv, n
      <4>4. Top.next \in DOMAIN Kids(Node(Top.ref))
        <5>1. Top.ref \in Refs
          BY <1>3, <4>1 DEF Frames
        <5> QED
          BY <1>1, <1>2, <4>3, <5>1, DocumentFacts
      <4> QED
        BY <4>2, <4>3, <4>4 DEF Leads, Kid, Node
    <3>4. \A j \in 1..(m + 1) : refs[j] # refs[m + 2]
      <4>1. TAKE j \in 1..(m + 1)
      <4>2. j \in 1..(n - 1) /\ j + 1 \in 2..n
        BY <3>1
      <4>3. refs[j] \in visited
        BY <1>1, <1>2, <4>2 DEF StackInv, n
      <4> QED
        BY <1>1, <3>1, <4>3
    <3> QED
      BY <1>1, <3>1, <3>2, <3>3, <3>4, WalkExtends
  <2> QED
    BY <2>1, <2>2
<1>7. IsFirst(doc, way, refs)
  <2>1. EndOf(refs) \notin visited
    BY <1>1 DEF EndOf
  <2>2. ASSUME NEW j \in 1..Len(way) PROVE refs[j] \in visited
    <3>1. j \in 1..(n - 1) /\ j + 1 \in 2..n
      BY <1>1
    <3> QED
      BY <1>1, <1>2, <3>1 DEF StackInv, n
  <2>3. ASSUME NEW j \in 1..Len(way), NEW place, NEW s, Leads(doc, refs[j], place, s), place < way[j]
        PROVE  s \in visited
    <3>1. j \in 1..(n - 1) /\ j + 1 \in 2..n /\ j + 1 \in 1..n
      BY <1>1
    <3>2. refs[j] = stack[j + 1].ref /\ way[j] <= stack[j + 1].next
      BY <1>1, <3>1
    <3>3. stack[j + 1].kids = Kids(Node(refs[j])) /\ refs[j] \in Refs /\ stack[j + 1].next \in Nat
      BY <1>2, <1>3, <3>1, <3>2 DEF StackInv, Frames, n
    <3>4. place \in 1..Len(Kids(Node(refs[j]))) /\ Len(Kids(Node(refs[j]))) \in Nat
      BY <1>2, <2>3, <3>3, DocumentFacts DEF Leads, Node
    <3>5. way[j] \in Nat
      BY <1>1, ElementOfSeq
    <3>6. place \in 1..(stack[j + 1].next - 1)
      <4>1. place \in Nat /\ place >= 1 /\ place < stack[j + 1].next
        BY <2>3, <3>2, <3>3, <3>4, <3>5
      <4> QED
        BY <3>3, <4>1
    <3>7. stack[j + 1].kids[place].kind = "Reference" /\ stack[j + 1].kids[place].ref = s
      BY <2>3, <3>3 DEF Leads, Node
    <3> QED
      BY <1>2, <3>1, <3>6, <3>7 DEF StackInv, n
  <2>4. ASSUME NEW x \in visited, NEW place, NEW s, Leads(doc, x, place, s)
        PROVE  s \in visited \/ \E j \in 1..Len(way) : refs[j] = x
    <3>1. TypeOf(Node(x)) = "Pages" /\ x \in Refs /\ Kids(Node(x))[place].kind = "Reference"
          /\ Kids(Node(x))[place].ref = s /\ place \in DOMAIN Kids(Node(x))
      BY <1>2, <2>4 DEF Leads, Node, TypeOK
    <3>2. CASE KidsIn(x, visited)
      <4>1. place \in 1..Len(Kids(Node(x)))
        BY <1>2, <3>1, DocumentFacts
      <4> QED
        BY <3>1, <3>2, <4>1 DEF KidsIn
    <3>3. ASSUME NEW k \in 2..n, stack[k].ref = x PROVE \E j \in 1..Len(way) : refs[j] = x
      <4>1. k - 1 \in 1..(n - 1) /\ (k - 1) + 1 = k
        BY <1>1
      <4>2. refs[k - 1] = x
        BY <1>1, <3>3, <4>1
      <4> QED
        BY <1>1, <4>1, <4>2
    <3> QED
      BY <1>2, <3>1, <3>2, <3>3 DEF ReachInv, n
  <2>5. ASSUME NEW j \in 1..Len(way) PROVE IsFirst(doc, Upto(way, j - 1), Upto(refs, j))
    <3>1. PICK k \in 2..n : k - 2 = j - 1 /\ k - 1 = j
      <4>1. j + 1 \in 2..n /\ (j + 1) - 2 = j - 1 /\ (j + 1) - 1 = j
        BY <1>1
      <4> QED
        BY <4>1
    <3> QED
      BY <1>5, <3>1
  <2> QED
    BY <1>6, <2>1, <2>2, <2>3, <2>4, <2>5, NewNodeIsFirst
<1>8. MergedResources(r) = NearestResources(doc, refs)
  <2>1. MergedResources(r) = Overlay(Top.inherited, Loc(doc, r))
    BY DEF MergedResources, Loc, Node
  <2>2. PICK m \in Nat : n = m + 1 /\ m = n - 1
    BY <1>1
  <2>3. DOMAIN refs = 1..(m + 1) /\ refs[m + 1] = r
    BY <1>1, <2>2, LenProperties
  <2> DEFINE short == Upto(refs, m)
  <2>4. DOMAIN short = 1..m /\ \A j \in 1..m : refs[j] = short[j]
    BY DEF Upto
  <2> HIDE DEF short
  <2>5. NearestResources(doc, refs) = Overlay(NearestResources(doc, short), Loc(doc, r))
    BY <2>3, <2>4, NearestExtends
  <2>6. CASE n = 1
    <3>1. DOMAIN NearestResources(doc, short) = {}
      <4>1. DOMAIN short = {}
        BY <2>2, <2>4, <2>6
      <4>2. DOMAIN NearestResources(doc, short) = UNION {DOMAIN Loc(doc, short[j]) : j \in DOMAIN short}
        BY NearestDomain
      <4>3. {DOMAIN Loc(doc, short[j]) : j \in DOMAIN short} = {}
        BY <4>1
      <4> QED
        BY <4>2, <4>3
    <3>2. Top.inherited = EmptyMap
      BY <1>2, <1>3, <2>6 DEF WalkInOrder
    <3> QED
      BY <2>1, <2>5, <3>1, <3>2, OverlayOnNothing
  <2>7. CASE n # 1
    <3>1. n \in 2..n
      BY <1>1, <2>7
    <3>2. Top.inherited = NearestResources(doc, Upto(refs, n - 1))
      BY <1>3, <1>5, <3>1
    <3> QED
      BY <2>1, <2>2, <2>5, <3>2 DEF short
  <2> QED
    BY <2>6, <2>7
<1> QED
  BY <1>7, <1>8 DEF way, refs

LEMMA Behind ==
    ASSUME IInv, OrderInv, AtKid, NEW x \in visited
    PROVE  HasFirst(doc, x) /\ Precedes(FirstPath(doc, x).at, Position(stack))
<1>1. TypeOK /\ StackInv /\ status = "walking" /\ WalkInOrder(doc, stack, visited)
      /\ Gathered(doc, visited, pages)
  BY DEF IInv, AtKid, OrderInv
<1>2. Len(stack) \in Nat \ {0} /\ Top = stack[Len(stack)] /\ stack # <<>>
  BY <1>1, StackFacts DEF Top, TypeOK
<1>3. Len(stack) # 1
  <2> SUFFICES ASSUME Len(stack) = 1 PROVE FALSE
    OBVIOUS
  <2>1. Top.kids = <<Entry(Node(doc.root), "Pages")>>
    BY <1>1, <1>2 DEF StackInv
  <2>2. PICK r \in Refs : TRUE
    BY <1>1 DEF TypeOK
  <2>3. Top.next \in 1..Len(Top.kids)
    BY <2>2, WhereTheWalkIs
  <2>4. Top.next = 1
    BY <2>1, <2>3
  <2> QED
    BY <1>1, <1>2, <2>4 DEF WalkInOrder
<1>4. Len(stack) > 1
  BY <1>2, <1>3
<1> QED
  BY <1>1, <1>4 DEF WalkInOrder, Gathered

LEMMA AdvanceInOrder ==
    ASSUME IInv, OrderInv, AtKid, NEW seen, \A x \in seen : HasFirst(doc, x),
           \A x \in seen : \/ FirstPath(doc, x).at = Position(stack)
                           \/ Precedes(FirstPath(doc, x).at, Position(stack))
    PROVE  WalkInOrder(doc, AdvanceKid, seen)
<1> DEFINE n == Len(stack)
           f == AdvanceKid
<1>1. TypeOK /\ status = "walking" /\ WalkInOrder(doc, stack, visited)
  BY DEF IInv, AtKid, OrderInv
<1>2. /\ stack \in Seq(Frames) /\ n \in Nat \ {0} /\ f \in Seq(Frames) /\ Len(f) = n
      /\ \A j \in 1..n : stack[j] \in Frames
      /\ \A j \in 1..n : /\ f[j].ref = stack[j].ref /\ f[j].inherited = stack[j].inherited
                         /\ f[j].next = IF j = n THEN stack[j].next + 1 ELSE stack[j].next
  BY <1>1, StackFacts DEF TypeOK
<1>3. 1 \in 1..n /\ stack[1].next \in Nat \ {0}
  BY <1>2 DEF Frames
<1> HIDE DEF n, f
<1>4. f[1].inherited = EmptyMap
  BY <1>1, <1>2, <1>3 DEF WalkInOrder
<1>5. f[1].next # 1
  <2>1. CASE n = 1
    BY <1>2, <1>3, <2>1
  <2>2. CASE n # 1
    BY <1>1, <1>2, <1>3, <2>2 DEF WalkInOrder, n
  <2> QED
    BY <2>1, <2>2
<1>6. ASSUME NEW k \in 2..n PROVE FrameInOrder(doc, f, k)
  <2>1. FrameInOrder(doc, stack, k)
    BY <1>1 DEF WalkInOrder, n
  <2>2. \A j \in 2..k : j \in 1..n /\ f[j].ref = stack[j].ref
    BY <1>2
  <2>3. ASSUME NEW j \in 2..(k - 1) PROVE f[j].next = stack[j].next
    <3>1. j \in 1..n /\ j # n
      BY <1>2
    <3> QED
      BY <1>2, <3>1
  <2>4. f[k].inherited = stack[k].inherited
    <3>1. k \in 1..n
      BY <1>2
    <3> QED
      BY <1>2, <3>1
  <2>5. k \in 2..Len(stack) /\ k <= Len(f) /\ Len(stack) \in Nat \ {0} /\ Len(f) \in Nat \ {0}
    BY <1>2 DEF n
  <2> QED
    BY <1>2, <2>1, <2>2, <2>3, <2>4, <2>5, FrameKept
<1>7. ASSUME n > 1 PROVE \A x \in seen : Precedes(FirstPath(doc, x).at, Position(f))
  <2> DEFINE p == Position(stack)
             q == Position(f)
  <2>1. /\ p \in Seq(Nat) /\ Len(p) = n - 1
        /\ \A j \in 1..(n - 1) : p[j] = IF j + 1 = n THEN stack[j + 1].next ELSE stack[j + 1].next - 1
    BY <1>2, PositionFacts DEF n
  <2>2. Len(f) \in Nat \ {0} /\ Len(f) = n
    BY <1>2
  <2>3. /\ q \in Seq(Nat) /\ Len(q) = n - 1
        /\ \A j \in 1..(n - 1) : q[j] = IF j + 1 = n THEN f[j + 1].next ELSE f[j + 1].next - 1
    <3>1. /\ q \in Seq(Nat) /\ Len(q) = Len(f) - 1
          /\ \A j \in 1..(Len(f) - 1) : q[j] =
                IF j + 1 = Len(f) THEN f[j + 1].next ELSE f[j + 1].next - 1
      BY <1>2, <2>2, PositionFacts
    <3> HIDE DEF q
    <3> QED
      BY <2>2, <3>1
  <2> HIDE DEF p, q
  <2>4. n - 1 \in 1..Len(p) /\ (n - 1) + 1 = n /\ n \in 1..n
    BY <1>2, <1>7, <2>1
  <2>5. p[n - 1] < q[n - 1]
    <3>1. p[n - 1] = stack[n].next /\ q[n - 1] = f[n].next
      BY <2>1, <2>3, <2>4
    <3>2. f[n].next = stack[n].next + 1 /\ stack[n].next \in Nat
      BY <1>2, <2>4 DEF Frames
    <3> QED
      BY <3>1, <3>2
  <2>6. ASSUME NEW i \in 1..((n - 1) - 1) PROVE p[i] = q[i]
    <3>1. i \in 1..(n - 1) /\ i + 1 # n /\ i + 1 \in 1..n
      BY <1>2
    <3>2. p[i] = stack[i + 1].next - 1
      BY <2>1, <3>1
    <3>3. q[i] = f[i + 1].next - 1
      BY <2>3, <3>1
    <3>4. f[i + 1].next = stack[i + 1].next
      BY <1>2, <3>1
    <3> QED
      BY <3>2, <3>3, <3>4
  <2>7. Precedes(p, q)
    BY <2>1, <2>3, <2>4, <2>5, <2>6, LaterPlace
  <2> QED
    BY <2>1, <2>3, <2>7, AheadMoves DEF p, q
<1> QED
  BY <1>2, <1>4, <1>5, <1>6, <1>7 DEF WalkInOrder, f

LEMMA PushInOrder ==
    ASSUME IInv, OrderInv, AtKid, NEW r \in Refs, NEW kids,
           Frame(r, kids, MergedResources(r)) \in Frames,
           IsFirst(doc, Position(stack), Append(NodesOf(stack), r)),
           MergedResources(r) = NearestResources(doc, Append(NodesOf(stack), r)),
           NEW seen, \A x \in seen : HasFirst(doc, x),
           \A x \in seen : \/ FirstPath(doc, x).at = Position(stack)
                           \/ Precedes(FirstPath(doc, x).at, Position(stack))
    PROVE  WalkInOrder(doc, Append(AdvanceKid, Frame(r, kids, MergedResources(r))), seen)
<1> DEFINE n == Len(stack)
           new == Frame(r, kids, MergedResources(r))
           f == Append(AdvanceKid, new)
           way == Position(stack)
           refs == Append(NodesOf(stack), r)
<1>1. TypeOK /\ status = "walking" /\ WalkInOrder(doc, stack, visited)
  BY DEF IInv, AtKid, OrderInv
<1>2. /\ stack \in Seq(Frames) /\ n \in Nat \ {0} /\ AdvanceKid \in Seq(Frames) /\ Len(AdvanceKid) = n
      /\ \A j \in 1..n : stack[j] \in Frames
      /\ \A j \in 1..n :
            /\ AdvanceKid[j].ref = stack[j].ref /\ AdvanceKid[j].inherited = stack[j].inherited
            /\ AdvanceKid[j].next = IF j = n THEN stack[j].next + 1 ELSE stack[j].next
  BY <1>1, StackFacts DEF TypeOK
<1>3. /\ way \in Seq(Nat) /\ Len(way) = n - 1
      /\ refs \in Seq(Refs) /\ Len(refs) = n /\ refs[n] = r
      /\ \A j \in 1..(n - 1) : refs[j] = stack[j + 1].ref
  BY WhereTheWalkIs
<1>4. \A j \in 1..(n - 1) : way[j] = IF j + 1 = n THEN stack[j + 1].next ELSE stack[j + 1].next - 1
  BY <1>2, PositionFacts
<1>5. new.ref = r /\ new.next = 1 /\ new.inherited = MergedResources(r) /\ new \in Frames
  BY DEF Frame
<1> HIDE DEF new
<1>6. /\ f \in Seq(Frames) /\ Len(f) = n + 1 /\ f[n + 1] = new /\ \A j \in 1..n : f[j] = AdvanceKid[j]
  BY <1>2, <1>5, AppendProperties
<1>7. 1 \in 1..n /\ stack[1].next \in Nat \ {0}
  BY <1>2 DEF Frames
<1> HIDE DEF n, f, way, refs
<1>8. f[1].inherited = EmptyMap
  BY <1>1, <1>2, <1>6, <1>7 DEF WalkInOrder
<1>9. f[1].next # 1
  <2>1. CASE n = 1
    BY <1>2, <1>6, <1>7, <2>1
  <2>2. CASE n # 1
    BY <1>1, <1>2, <1>6, <1>7, <2>2 DEF WalkInOrder, n
  <2> QED
    BY <2>1, <2>2
<1>10. Len(f) \in Nat \ {0} /\ Len(f) - 1 = n
  BY <1>2, <1>6
<1>11. /\ Position(f) \in Seq(Nat) /\ Len(Position(f)) = n
       /\ NodesOf(f) \in Seq(Refs) /\ Len(NodesOf(f)) = n
       /\ \A j \in 1..n : Position(f)[j] = IF j + 1 = n + 1 THEN f[j + 1].next ELSE f[j + 1].next - 1
       /\ \A j \in 1..n : NodesOf(f)[j] = f[j + 1].ref
  BY <1>6, <1>10, PositionFacts
<1>12. \A j \in 1..(n - 1) : Position(f)[j] = way[j] /\ NodesOf(f)[j] = refs[j]
  <2>1. TAKE j \in 1..(n - 1)
  <2>2. j \in 1..n /\ j + 1 \in 1..n /\ j + 1 # n + 1
    BY <1>2
  <2>3. Position(f)[j] = AdvanceKid[j + 1].next - 1 /\ NodesOf(f)[j] = AdvanceKid[j + 1].ref
    BY <1>6, <1>11, <2>2
  <2>4. stack[j + 1].next \in Nat
    BY <1>2, <2>2 DEF Frames
  <2>5. AdvanceKid[j + 1].next - 1 = way[j]
    <3>1. CASE j + 1 = n
      <4>1. AdvanceKid[j + 1].next = stack[j + 1].next + 1
        BY <1>2, <2>2, <3>1
      <4>2. way[j] = stack[j + 1].next
        BY <1>4, <3>1
      <4> QED
        BY <2>4, <4>1, <4>2
    <3>2. CASE j + 1 # n
      BY <1>2, <1>4, <2>2, <2>4, <3>2
    <3> QED
      BY <3>1, <3>2
  <2> QED
    BY <1>2, <1>3, <2>2, <2>3, <2>5
<1>13. ASSUME NEW k \in 2..n PROVE FrameInOrder(doc, f, k)
  <2>1. FrameInOrder(doc, stack, k)
    BY <1>1 DEF WalkInOrder, n
  <2>2. \A j \in 2..k : j \in 1..n /\ f[j].ref = stack[j].ref
    BY <1>2, <1>6
  <2>3. ASSUME NEW j \in 2..(k - 1) PROVE f[j].next = stack[j].next
    <3>1. j \in 1..n /\ j # n
      BY <1>2
    <3> QED
      BY <1>2, <1>6, <3>1
  <2>4. f[k].inherited = stack[k].inherited
    <3>1. k \in 1..n
      BY <1>2
    <3> QED
      BY <1>2, <1>6, <3>1
  <2>5. k \in 2..Len(stack) /\ k <= Len(f) /\ Len(stack) \in Nat \ {0}
    BY <1>2, <1>6 DEF n
  <2> QED
    BY <1>2, <1>6, <1>10, <2>1, <2>2, <2>3, <2>4, <2>5, FrameKept
<1>14. FrameInOrder(doc, f, n + 1)
  <2>1. (n + 1) - 2 = n - 1 /\ (n + 1) - 1 = n /\ n - 1 \in Nat /\ n \in 1..n /\ n + 1 \in 1..(n + 1)
    BY <1>2
  <2>2. Upto(Position(f), n - 1) = way
    <3>1. way = [j \in 1..(n - 1) |-> way[j]]
      BY <1>3, LenProperties, SeqDef
    <3> QED
      BY <1>12, <3>1 DEF Upto
  <2>3. \A j \in 1..n : NodesOf(f)[j] = refs[j]
    <3>1. TAKE j \in 1..n
    <3>2. CASE j = n
      BY <1>3, <1>5, <1>6, <1>11, <2>1, <3>2
    <3>3. CASE j # n
      <4>1. j \in 1..(n - 1)
        BY <1>2, <3>3
      <4> QED
        BY <1>12, <4>1
    <3> QED
      BY <3>2, <3>3
  <2>4. Upto(NodesOf(f), n) = refs
    <3>1. refs = [j \in 1..n |-> refs[j]]
      BY <1>3, LenProperties, SeqDef
    <3> QED
      BY <2>3, <3>1 DEF Upto
  <2> QED
    BY <1>5, <1>6, <2>1, <2>2, <2>4 DEF FrameInOrder, way, refs
<1>15. \A k \in 2..Len(f) : FrameInOrder(doc, f, k)
  <2>1. \A k \in 2..Len(f) : k \in 2..n \/ k = n + 1
    BY <1>2, <1>6
  <2> QED
    BY <1>13, <1>14, <2>1
<1>16. Precedes(way, Position(f))
  <2>1. Len(Position(f)) = Len(way) + 1 /\ \A i \in 1..Len(way) : way[i] = Position(f)[i]
    BY <1>2, <1>3, <1>11, <1>12
  <2> QED
    BY <1>3, <1>11, <2>1, DeeperPlace
<1>17. \A x \in seen : Precedes(FirstPath(doc, x).at, Position(f))
  BY <1>3, <1>11, <1>16, AheadMoves DEF way
<1> QED
  BY <1>8, <1>9, <1>15, <1>17 DEF WalkInOrder, f, new

LEMMA PopInOrder ==
    ASSUME IInv, OrderInv, status = "walking", Len(stack) > 1
    PROVE  WalkInOrder(doc, SubSeq(stack, 1, Len(stack) - 1), visited)
<1> DEFINE n == Len(stack)
           f == SubSeq(stack, 1, Len(stack) - 1)
<1>1. TypeOK /\ WalkInOrder(doc, stack, visited) /\ Gathered(doc, visited, pages) /\ n > 1
  BY DEF IInv, OrderInv
<1>2. stack \in Seq(Frames) /\ n \in Nat \ {0} /\ \A j \in 1..n : stack[j] \in Frames
  BY <1>1, StackFacts DEF TypeOK
<1>3. f \in Seq(Frames) /\ Len(f) = n - 1 /\ \A j \in 1..(n - 1) : f[j] = stack[j]
  BY <1>1, <1>2, SubSeqProperties
<1> HIDE DEF n, f
<1>4. 1 \in 1..(n - 1) /\ n # 1 /\ Len(f) \in Nat \ {0}
  BY <1>1, <1>2, <1>3
<1>5. f[1].inherited = EmptyMap /\ f[1].next # 1
  BY <1>1, <1>3, <1>4 DEF WalkInOrder, n
<1>6. ASSUME NEW k \in 2..Len(f) PROVE FrameInOrder(doc, f, k)
  <2>1. k \in 2..n /\ k \in 2..Len(stack) /\ k <= Len(f) /\ Len(stack) \in Nat \ {0}
    BY <1>2, <1>3 DEF n
  <2>2. FrameInOrder(doc, stack, k)
    BY <1>1, <2>1 DEF WalkInOrder
  <2>3. \A j \in 1..k : f[j] = stack[j]
    BY <1>2, <1>3
  <2>4. /\ \A j \in 2..k : f[j].ref = stack[j].ref
        /\ \A j \in 2..(k - 1) : f[j].next = stack[j].next
        /\ f[k].inherited = stack[k].inherited
    <3>1. \A j \in 2..k : j \in 1..k
      OBVIOUS
    <3>2. \A j \in 2..(k - 1) : j \in 1..k
      OBVIOUS
    <3>3. k \in 1..k
      OBVIOUS
    <3> QED
      BY <2>3, <3>1, <3>2, <3>3
  <2> QED
    BY <1>2, <1>3, <1>4, <2>1, <2>2, <2>4, FrameKept
<1>7. ASSUME Len(f) > 1 PROVE \A x \in visited : Precedes(FirstPath(doc, x).at, Position(f))
  <2> DEFINE p == Position(stack)
             q == Position(f)
             m == n - 2
  <2>1. m \in Nat \ {0} /\ n = m + 2 /\ n - 1 = m + 1 /\ Len(f) = m + 1 /\ Len(f) - 1 = m
    BY <1>2, <1>3, <1>7
  <2>2. /\ p \in Seq(Nat) /\ Len(p) = n - 1
        /\ \A j \in 1..(n - 1) : p[j] = IF j + 1 = n THEN stack[j + 1].next ELSE stack[j + 1].next - 1
    BY <1>2, PositionFacts DEF n
  <2>3. /\ q \in Seq(Nat) /\ Len(q) = Len(f) - 1
        /\ \A j \in 1..(Len(f) - 1) : q[j] =
              IF j + 1 = Len(f) THEN f[j + 1].next ELSE f[j + 1].next - 1
    BY <1>3, <1>4, PositionFacts
  <2> HIDE DEF p, q, m
  <2>4. Len(q) = m /\ Len(p) = m + 1 /\ m \in 1..Len(p)
    BY <2>1, <2>2, <2>3
  <2>5. \A j \in 1..m : /\ p[j] = stack[j + 1].next - 1
                        /\ q[j] = IF j = m THEN stack[j + 1].next ELSE stack[j + 1].next - 1
    <3>1. TAKE j \in 1..m
    <3>2. j \in 1..(n - 1) /\ j + 1 # n /\ j \in 1..(Len(f) - 1) /\ j + 1 \in 1..(n - 1)
      BY <2>1
    <3>3. f[j + 1] = stack[j + 1]
      BY <1>3, <3>2
    <3>4. j + 1 = Len(f) <=> j = m
      BY <2>1
    <3> QED
      BY <2>2, <2>3, <3>2, <3>3, <3>4
  <2>6. p[m] < q[m]
    <3>1. m \in 1..m /\ m + 1 \in 1..n
      BY <2>1
    <3>2. stack[m + 1].next \in Nat
      BY <1>2, <3>1 DEF Frames
    <3> QED
      BY <2>5, <3>1, <3>2
  <2>7. \A i \in 1..(m - 1) : p[i] = q[i]
    <3>1. TAKE i \in 1..(m - 1)
    <3>2. i \in 1..m /\ i # m
      BY <2>1
    <3> QED
      BY <2>5, <3>2
  <2>8. Precedes(p, q)
    BY <2>2, <2>3, <2>4, <2>6, <2>7, LaterPlace
  <2>9. \A x \in visited : HasFirst(doc, x) /\ Precedes(FirstPath(doc, x).at, p)
    BY <1>1 DEF WalkInOrder, Gathered, p, n
  <2> QED
    BY <2>2, <2>3, <2>8, <2>9, AheadMoves DEF q
<1> QED
  BY <1>5, <1>6, <1>7 DEF WalkInOrder, f

-----------------------------------------------------------------------------

\* What has a type is a dictionary.
LEMMA TypedNode ==
    ASSUME NEW node, TypeOf(node) \in {"Page", "Pages"}
    PROVE  node.kind = "Dictionary"
<1> SUFFICES ASSUME node.kind # "Dictionary" PROVE FALSE
  OBVIOUS
<1>1. Entries(node) = EmptyMap
  BY DEF Entries
<1>2. DOMAIN EmptyMap = {}
  BY EmptySeq, LenProperties DEF EmptyMap
<1>3. Entry(node, "Type") = Null /\ Null.kind = "Null"
  BY <1>1, <1>2 DEF Entry, Null
<1>4. TypeOf(node) = ""
  BY <1>3 DEF TypeOf
<1> QED
  BY <1>4

\* A node that is entered is found by the first walk to it.
LEMMA EnteredInOrder ==
    ASSUME IInv, ReachInv, OrderInv, NEW r \in Refs, EnterKid(r)
    PROVE  /\ AtKid /\ status = "walking" /\ visited' = visited \cup {r} /\ doc' = doc
           /\ IsFirst(doc, Position(stack), Append(NodesOf(stack), r))
           /\ MergedResources(r) = NearestResources(doc, Append(NodesOf(stack), r))
           /\ HasFirst(doc, r)
           /\ FirstPath(doc, r) = PathOf(Position(stack), Append(NodesOf(stack), r))
           /\ \A x \in visited' : HasFirst(doc, x)
           /\ \A x \in visited' : \/ FirstPath(doc, x).at = Position(stack)
                                  \/ Precedes(FirstPath(doc, x).at, Position(stack))
<1>1. /\ AtKid /\ Kid.kind = "Reference" /\ Kid.ref = r /\ r \notin visited
      /\ status = "walking" /\ visited' = visited \cup {r} /\ doc' = doc
  BY DEF EnterKid, AtKid
<1>2. /\ IsFirst(doc, Position(stack), Append(NodesOf(stack), r))
      /\ MergedResources(r) = NearestResources(doc, Append(NodesOf(stack), r))
  BY <1>1, NewPath
<1>3. EndOf(Append(NodesOf(stack), r)) = r
  <2>1. /\ Len(Append(NodesOf(stack), r)) = Len(stack)
        /\ Append(NodesOf(stack), r)[Len(stack)] = r
    BY <1>1, WhereTheWalkIs
  <2> QED
    BY <2>1 DEF EndOf
<1>4. HasFirst(doc, r) /\ FirstPath(doc, r) = PathOf(Position(stack), Append(NodesOf(stack), r))
  BY <1>2, <1>3, FirstPathFound
<1>5. FirstPath(doc, r).at = Position(stack)
  BY <1>4 DEF PathOf
<1>6. \A x \in visited : HasFirst(doc, x) /\ Precedes(FirstPath(doc, x).at, Position(stack))
  BY <1>1, Behind
<1> QED
  BY <1>1, <1>2, <1>4, <1>5, <1>6

LEMMA NodeGathered ==
    ASSUME NEW d, NEW seen, NEW ps, Gathered(d, seen, ps), NEW r, HasFirst(d, r), ~Unusable(d, r)
    PROVE  Gathered(d, seen \cup {r}, ps)
  BY DEF Gathered

\* The page of a leaf is the one the catalogue has for it, and comes after the others.
LEMMA PageGathered ==
    ASSUME IInv, ReachInv, OrderInv, PagesOnce, NEW r \in Refs, CollectPage(r)
    PROVE  Gathered(doc, visited', pages')
<1> DEFINE new == PageContent(doc.objects, r, MergedResources(r))
           ps == Append(pages, new)
           way == Position(stack)
           refs == Append(NodesOf(stack), r)
<1>1. /\ EnterKid(r) /\ TypeOf(Node(r)) = "Page" /\ ContentsDecode(doc.objects, Node(r))
      /\ pages' = ps
  BY DEF CollectPage
<1>2. /\ AtKid /\ status = "walking" /\ visited' = visited \cup {r}
      /\ MergedResources(r) = NearestResources(doc, refs)
      /\ HasFirst(doc, r)
      /\ FirstPath(doc, r) = PathOf(way, refs)
  BY <1>1, EnteredInOrder
<1>3. ~Unusable(doc, r)
  BY <1>1, TypedNode DEF Unusable, Node
<1>4. Gathered(doc, visited, pages) /\ Gathered(doc, visited \cup {r}, pages)
  BY <1>2, <1>3, NodeGathered DEF OrderInv
<1>5. new = PageAt(doc, FirstPath(doc, r)) /\ new.ref = r
  <2>1. Target(FirstPath(doc, r)) = r
    BY <1>2, FirstIsPath DEF IInv, DocInv
  <2>2. FirstPath(doc, r).refs = refs
    BY <1>2 DEF PathOf
  <2>3. new.ref = r
    BY DEF PageContent
  <2> HIDE DEF refs
  <2> QED
    BY <1>2, <2>1, <2>2, <2>3 DEF PageAt
<1>6. \A i \in 1..Len(pages) : Precedes(FirstPath(doc, pages[i].ref).at, FirstPath(doc, r).at)
  <2>1. TAKE i \in 1..Len(pages)
  <2>2. pages[i].ref \in visited
    <3>1. DOMAIN pages = 1..Len(pages)
      BY LenProperties DEF IInv, TypeOK
    <3>2. {pages[j].ref : j \in DOMAIN pages} = PageNodesIn(visited)
      BY <1>2 DEF PagesOnce
    <3>3. pages[i].ref \in PageNodesIn(visited)
      BY <3>1, <3>2
    <3> QED
      BY <3>3 DEF PageNodesIn
  <2>3. Precedes(FirstPath(doc, pages[i].ref).at, way)
    BY <1>2, <2>2, Behind
  <2>4. FirstPath(doc, r).at = way
    BY <1>2 DEF PathOf
  <2> QED
    BY <2>3, <2>4
<1> DEFINE m == Len(pages)
<1>7. m \in Nat /\ Len(ps) = m + 1 /\ ps[m + 1] = new /\ \A i \in 1..m : ps[i] = pages[i]
  <2>1. new \in PageContents
    <3>1. Top \in Frames
      BY <1>2, StackFacts DEF IInv
    <3>2. MergedResources(r) \in ResourceMaps
      BY <3>1, OverlayTyped DEF MergedResources, Frames, IInv
    <3> QED
      BY <3>2 DEF PageContents
  <2> HIDE DEF new
  <2> QED
    BY <2>1, AppendProperties DEF IInv, TypeOK
<1> HIDE DEF new, ps, way, refs
<1>8. /\ \A i, j \in 1..m : i < j => Precedes(FirstPath(doc, pages[i].ref).at, FirstPath(doc, pages[j].ref).at)
      /\ \A i \in 1..m : pages[i] = PageAt(doc, FirstPath(doc, pages[i].ref))
      /\ \A x \in visited \cup {r} : HasFirst(doc, x) /\ ~Unusable(doc, x)
  BY <1>4 DEF Gathered
<1>9. \A i, j \in 1..Len(ps) : i < j => Precedes(FirstPath(doc, ps[i].ref).at, FirstPath(doc, ps[j].ref).at)
  <2>1. SUFFICES ASSUME NEW i \in 1..Len(ps), NEW j \in 1..Len(ps), i < j
                 PROVE  Precedes(FirstPath(doc, ps[i].ref).at, FirstPath(doc, ps[j].ref).at)
    OBVIOUS
  <2>2. i \in 1..m /\ (j \in 1..m \/ j = m + 1)
    BY <1>7, <2>1
  <2>3. CASE j \in 1..m
    BY <1>7, <1>8, <2>1, <2>2, <2>3
  <2>4. CASE j = m + 1
    BY <1>5, <1>6, <1>7, <2>2, <2>4
  <2> QED
    BY <2>2, <2>3, <2>4
<1>10. \A i \in 1..Len(ps) : ps[i] = PageAt(doc, FirstPath(doc, ps[i].ref))
  <2>1. TAKE i \in 1..Len(ps)
  <2>2. i \in 1..m \/ i = m + 1
    BY <1>7
  <2>3. CASE i \in 1..m
    BY <1>7, <1>8, <2>3
  <2>4. CASE i = m + 1
    BY <1>5, <1>7, <2>4
  <2> QED
    BY <2>2, <2>3, <2>4
<1> QED
  BY <1>1, <1>2, <1>8, <1>9, <1>10 DEF Gathered

LEMMA OrderStep == IInv /\ ReachInv /\ PagesOnce /\ OrderInv /\ [Next]_vars => OrderInv'
<1> SUFFICES ASSUME IInv, ReachInv, PagesOnce, OrderInv, [Next]_vars
             PROVE  OrderInv'
  OBVIOUS
<1>0. doc' = doc /\ TypeOK /\ StackInv /\ DocInv
  BY DEF Next, vars, OpenCatalog, RejectCatalog, CollectPages, SkipDirectKid, SkipVisitedKid,
         EnterKid, RejectNode, CollectPage, RejectPage, EnterPages, IgnoreNode, Return, Finish, IInv
<1>a. ASSUME status' = "walking", WalkInOrder(doc, stack', visited'), Gathered(doc, visited', pages')
      PROVE  OrderInv'
  BY <1>0, <1>a DEF OrderInv
<1>b. ASSUME status' = "err"
      PROVE  OrderInv'
  BY <1>b DEF OrderInv
<1>u. CASE UNCHANGED vars
  BY <1>u DEF vars, OrderInv
<1>c. CASE OpenCatalog
  <2> DEFINE bottom == Frame(doc.root, <<Entry(Node(doc.root), "Pages")>>, EmptyMap)
  <2>1. status' = "walking" /\ stack' = <<bottom>> /\ status = "start" /\ visited' = visited
        /\ pages' = pages
    BY <1>c DEF OpenCatalog
  <2>2. visited = {} /\ Gathered(doc, visited, pages)
    BY <2>1 DEF ReachInv, OrderInv
  <2>3. bottom.inherited = EmptyMap
    BY DEF Frame
  <2> HIDE DEF bottom
  <2>4. Len(stack') = 1 /\ stack'[1] = bottom
    BY <2>1
  <2>5. WalkInOrder(doc, stack', visited')
    BY <2>1, <2>2, <2>3, <2>4 DEF WalkInOrder
  <2> QED
    BY <1>a, <2>1, <2>2, <2>5
<1>d. CASE RejectCatalog
  BY <1>b, <1>d DEF RejectCatalog, Fail
<1>e. CASE SkipDirectKid \/ SkipVisitedKid
  <2>1. /\ AtKid /\ status = "walking" /\ status' = "walking" /\ stack' = AdvanceKid
        /\ visited' = visited /\ pages' = pages
    BY <1>e DEF SkipDirectKid, SkipVisitedKid, AtKid
  <2>2. Gathered(doc, visited, pages)
    BY <2>1 DEF OrderInv
  <2>3. \A x \in visited : HasFirst(doc, x) /\ Precedes(FirstPath(doc, x).at, Position(stack))
    BY <2>1, Behind
  <2>4. WalkInOrder(doc, AdvanceKid, visited)
    BY <2>1, <2>3, AdvanceInOrder
  <2> QED
    BY <1>a, <2>1, <2>2, <2>4
<1>f. ASSUME NEW r \in Refs, RejectNode(r) \/ RejectPage(r)
      PROVE  OrderInv'
  BY <1>b, <1>f DEF RejectNode, RejectPage, Fail
<1>g. ASSUME NEW r \in Refs, CollectPage(r)
      PROVE  OrderInv'
  <2>1. EnterKid(r) /\ stack' = AdvanceKid /\ status' = status
    BY <1>g DEF CollectPage
  <2>2. WalkInOrder(doc, AdvanceKid, visited')
    BY <2>1, EnteredInOrder, AdvanceInOrder
  <2>3. Gathered(doc, visited', pages')
    BY <1>g, PageGathered
  <2>4. status = "walking"
    BY <2>1, EnteredInOrder
  <2> QED
    BY <1>a, <2>1, <2>2, <2>3, <2>4
<1>h. ASSUME NEW r \in Refs, EnterKid(r), Node(r).kind = "Dictionary", TypeOf(Node(r)) # "Page"
      PROVE  Gathered(doc, visited', pages)
  <2>1. HasFirst(doc, r) /\ visited' = visited \cup {r} /\ status = "walking"
    BY <1>h, EnteredInOrder
  <2>2. ~Unusable(doc, r)
    BY <1>h DEF Unusable, Node
  <2> QED
    BY <2>1, <2>2, NodeGathered DEF OrderInv
<1>i. ASSUME NEW r \in Refs, IgnoreNode(r)
      PROVE  OrderInv'
  <2>1. /\ EnterKid(r) /\ stack' = AdvanceKid /\ status' = status /\ pages' = pages
        /\ Node(r).kind = "Dictionary" /\ TypeOf(Node(r)) # "Page"
    BY <1>i DEF IgnoreNode
  <2>2. WalkInOrder(doc, AdvanceKid, visited')
    BY <2>1, EnteredInOrder, AdvanceInOrder
  <2>3. Gathered(doc, visited', pages')
    BY <1>h, <2>1
  <2>4. status = "walking"
    BY <2>1, EnteredInOrder
  <2> QED
    BY <1>a, <2>1, <2>2, <2>3, <2>4
<1>j. ASSUME NEW r \in Refs, EnterPages(r)
      PROVE  OrderInv'
  <2>1. /\ EnterKid(r) /\ status' = status /\ pages' = pages
        /\ stack' = Append(AdvanceKid, Frame(r, Kids(Node(r)), MergedResources(r)))
        /\ TypeOf(Node(r)) = "Pages" /\ Node(r).kind = "Dictionary"
    BY <1>j, TypedNode DEF EnterPages
  <2>2. Frame(r, Kids(Node(r)), MergedResources(r)) \in Frames
    <3>1. Top \in Frames
      BY <1>0, <2>1, StackFacts DEF EnterKid, AtKid
    <3>2. Kids(Node(r)) \in KidLists
      BY DEF KidLists
    <3>3. MergedResources(r) \in ResourceMaps
      BY <1>0, <3>1, OverlayTyped DEF MergedResources, Frames
    <3> QED
      BY <1>0, <3>2, <3>3, FrameTyped
  <2>3. WalkInOrder(doc, stack', visited')
    <3>1. /\ AtKid
          /\ IsFirst(doc, Position(stack), Append(NodesOf(stack), r))
          /\ MergedResources(r) = NearestResources(doc, Append(NodesOf(stack), r))
          /\ \A x \in visited' : HasFirst(doc, x)
          /\ \A x \in visited' : \/ FirstPath(doc, x).at = Position(stack)
                                 \/ Precedes(FirstPath(doc, x).at, Position(stack))
      BY <2>1, EnteredInOrder
    <3> QED
      BY <2>1, <2>2, <3>1, PushInOrder
  <2>4. Gathered(doc, visited', pages')
    BY <1>h, <2>1
  <2>5. status = "walking"
    BY <2>1, EnteredInOrder
  <2> QED
    BY <1>a, <2>1, <2>3, <2>4, <2>5
<1>k. CASE Return
  <2>1. /\ status = "walking" /\ Len(stack) > 1 /\ stack' = SubSeq(stack, 1, Len(stack) - 1)
        /\ visited' = visited /\ pages' = pages /\ status' = status
    BY <1>k DEF Return
  <2>2. WalkInOrder(doc, stack', visited')
    BY <2>1, PopInOrder
  <2>3. Gathered(doc, visited', pages')
    BY <2>1 DEF OrderInv
  <2> QED
    BY <1>a, <2>1, <2>2, <2>3
<1>l. CASE Finish
  <2>1. status = "walking" /\ status' = "ok" /\ visited' = visited /\ pages' = pages
    BY <1>l DEF Finish
  <2> QED
    BY <1>0, <2>1 DEF OrderInv
<1> QED
  BY <1>u, <1>c, <1>d, <1>e, <1>f, <1>g, <1>i, <1>j, <1>k, <1>l DEF Next, CollectPages

-----------------------------------------------------------------------------
(***************************************************************************)
(* The answer                                                              *)
(***************************************************************************)

\* A set that /Pages and the kids of its inner nodes never leave holds all that can be
\* reached.
LEMMA ClosedHoldsPaths ==
    ASSUME DocInv, NEW S \in SUBSET Refs, Closed(S), NEW p \in Paths(doc)
    PROVE  Target(p) \in S
<1> DEFINE way == p.at
           refs == p.refs
           n == Len(way)
           P == {j \in Nat : j <= n => refs[j + 1] \in S}
<1>1. IsWalk(doc, way, refs) /\ Target(p) = EndOf(refs)
  BY PathIsWalk DEF DocInv
<1> HIDE DEF way, refs
<1>2. n \in Nat /\ Len(refs) = n + 1
  BY <1>1, WalkFacts
<1>3. 0 \in P
  <2>1. refs[1] \in S /\ 0 + 1 = 1
    BY <1>1 DEF IsWalk, PagesEntry, Closed, Node
  <2> QED
    BY <2>1
<1>4. ASSUME NEW j \in Nat, j \in P PROVE j + 1 \in P
  <2>1. SUFFICES ASSUME j + 1 <= n PROVE refs[(j + 1) + 1] \in S
    OBVIOUS
  <2>2. refs[j + 1] \in S /\ j + 1 \in 1..n
    BY <1>2, <1>4, <2>1
  <2>3. Leads(doc, refs[j + 1], way[j + 1], refs[(j + 1) + 1])
    BY <1>1, <2>2 DEF IsWalk
  <2>4. KidsIn(refs[j + 1], S)
    BY <2>2, <2>3 DEF Closed, Leads, Node
  <2>5. way[j + 1] \in 1..Len(Kids(Node(refs[j + 1])))
    BY <2>2, <2>3, DocumentFacts DEF Leads, Node
  <2> QED
    BY <2>3, <2>4, <2>5 DEF KidsIn, Leads, Node
<1> HIDE DEF P, n
<1>5. n \in P
  BY <1>2, <1>3, <1>4, NatInduct
<1> QED
  BY <1>1, <1>2, <1>5 DEF P, EndOf

\* A walk that is over answers what the catalogue says.
LEMMA FinishAnswers ==
    ASSUME IInv, PagesOnce, OrderInv, Finish, ReachInv'
    PROVE  Outcome(doc) = [status |-> "ok", pages |-> pages]
<1>1. /\ status = "walking" /\ status' = "ok" /\ visited' = visited /\ doc' = doc
  BY DEF Finish
<1>2. Closed(visited)
  BY <1>1 DEF ReachInv, Closed, KidsIn, Node
<1>3. doc \in Documents /\ visited \in SUBSET Refs /\ pages \in Seq(PageContents)
  BY DEF IInv, DocInv, TypeOK
<1>4. visited # {}
  BY <1>2 DEF Closed
<1>5. \A p \in Paths(doc) : Target(p) \in visited
  BY <1>2, <1>3, ClosedHoldsPaths DEF DocInv
<1>6. Gathered(doc, visited, pages)
  BY <1>1 DEF OrderInv
<1>7. {pages[i].ref : i \in 1..Len(pages)} = {r \in visited : TypeOf(Resolve(doc.objects, r)) = "Page"}
  <2>1. DOMAIN pages = 1..Len(pages)
    BY <1>3, LenProperties
  <2>2. {pages[j].ref : j \in DOMAIN pages} = PageNodesIn(visited)
    BY <1>1 DEF PagesOnce
  <2> QED
    BY <2>1, <2>2 DEF PageNodesIn, Node
<1> QED
  BY <1>3, <1>4, <1>5, <1>6, <1>7, OutcomeIs DEF Gathered

\* A node that makes the walk fail makes the document one that the catalogue refuses.
LEMMA RejectionAnswers ==
    ASSUME IInv, ReachInv, OrderInv, NEW r \in Refs, RejectNode(r) \/ RejectPage(r)
    PROVE  Outcome(doc) = Failed
<1>1. EnterKid(r)
  BY DEF RejectNode, RejectPage
<1>2. HasFirst(doc, r)
  BY <1>1, EnteredInOrder
<1>3. Unusable(doc, r)
  BY DEF RejectNode, RejectPage, Unusable, Node
<1> QED
  BY <1>2, <1>3, OutcomeFails DEF IInv, DocInv

\* Only the last step is seen by the caller, and it gives the answer of the catalogue.
LEMMA StepAnswersTheCatalogue ==
    ASSUME IInv, ReachInv, ReachInv', PagesOnce, OrderInv, [Next]_vars
    PROVE  [Catalogue!Answer]_Catalogue!answerVars
<1> SUFFICES Catalogue!Answer \/ UNCHANGED Catalogue!answerVars
  OBVIOUS
<1>1. CASE Finish
  <2>1. status = "walking" /\ status' = "ok" /\ pages' = pages /\ doc' = doc
    BY <1>1 DEF Finish
  <2>2. Outcome(doc) = [status |-> "ok", pages |-> pages]
    BY <1>1, FinishAnswers
  <2> QED
    BY <2>1, <2>2 DEF Catalogue!Answer, Pending
<1>2. ASSUME status \notin {"ok", "err"}, Fail, doc' = doc, Outcome(doc) = Failed
      PROVE  Catalogue!Answer
  BY <1>2 DEF Catalogue!Answer, Pending, Failed, Fail
<1>3. CASE RejectCatalog
  <2>1. status = "start" /\ Fail /\ doc' = doc /\ ~CatalogIsUsable
    BY <1>3 DEF RejectCatalog
  <2>2. PagesEntry(doc).kind # "Reference"
    BY <2>1 DEF CatalogIsUsable, PagesEntry, Node
  <2>3. Outcome(doc) = Failed
    BY <2>2, OutcomeEmpty DEF IInv, DocInv
  <2> QED
    BY <1>2, <2>1, <2>3
<1>4. ASSUME NEW r \in Refs, RejectNode(r) \/ RejectPage(r)
      PROVE  Catalogue!Answer
  <2>1. status = "walking" /\ Fail /\ doc' = doc
    BY <1>4 DEF RejectNode, RejectPage, EnterKid, AtKid
  <2>2. Outcome(doc) = Failed
    BY <1>4, RejectionAnswers
  <2> QED
    BY <1>2, <2>1, <2>2
<1>5. ASSUME status \notin {"ok", "err"}, status' \notin {"ok", "err"}, doc' = doc
      PROVE  UNCHANGED Catalogue!answerVars
  BY <1>5 DEF Catalogue!answerVars
<1>6. CASE OpenCatalog \/ SkipDirectKid \/ SkipVisitedKid \/ Return
  <2>1. status \notin {"ok", "err"} /\ status' \notin {"ok", "err"} /\ doc' = doc
    BY <1>6 DEF OpenCatalog, SkipDirectKid, SkipVisitedKid, Return, AtKid
  <2> QED
    BY <1>5, <2>1
<1>7. ASSUME NEW r \in Refs, CollectPage(r) \/ EnterPages(r) \/ IgnoreNode(r)
      PROVE  UNCHANGED Catalogue!answerVars
  <2>1. status \notin {"ok", "err"} /\ status' \notin {"ok", "err"} /\ doc' = doc
    BY <1>7 DEF CollectPage, EnterPages, IgnoreNode, EnterKid, AtKid
  <2> QED
    BY <1>5, <2>1
<1>8. CASE UNCHANGED vars
  BY <1>8 DEF vars, Catalogue!answerVars
<1> QED
  BY <1>1, <1>3, <1>4, <1>6, <1>7, <1>8 DEF Next, CollectPages

\* The walk meets the nodes in document order, each by the first path to it, and the pages
\* it has gathered are those of the catalogue so far.
THEOREM WalkFollowsDocumentOrder == Spec => []OrderInv
<1>1. Init => OrderInv
  <2> SUFFICES ASSUME Init PROVE OrderInv
    OBVIOUS
  <2>1. status = "start" /\ visited = {} /\ pages = <<>> /\ Len(<<>>) = 0
    BY EmptySeq DEF Init
  <2> QED
    BY <2>1 DEF OrderInv, Gathered
<1>2. IInv /\ ReachInv /\ PagesOnce /\ OrderInv /\ [Next]_vars => OrderInv'
  BY OrderStep
<1> QED
  BY <1>1, <1>2, Invariance, EachPageOnce, PTL DEF Spec

\* For every document, however its nodes share kids and however they are knotted, the
\* recursive walk of collect_pages answers what the catalogue says without a walk: an error
\* exactly when an unusable node can be reached, and otherwise the leaves that can be
\* reached, once each, in document order, with the resources of their nearest ancestors.
THEOREM Refinement == Spec => AnswersTheCatalogue
<1>1. Init => Catalogue!Init
  BY DEF Init, Catalogue!Init, Pending
<1>2. IInv /\ ReachInv /\ ReachInv' /\ PagesOnce /\ OrderInv /\ [Next]_vars
        => [Catalogue!Answer]_Catalogue!answerVars
  BY StepAnswersTheCatalogue
<1> QED
  BY <1>1, <1>2, Invariance, EachPageOnce, WalkFollowsDocumentOrder, PTL
  DEF Spec, AnswersTheCatalogue, Catalogue!Spec

-----------------------------------------------------------------------------
(***************************************************************************)
(* Every step leaves less to be done                                       *)
(***************************************************************************)

\* The objects that have not been entered.
ObjectsAhead ==
    IF status = "start" THEN Cardinality(DOMAIN doc.objects) + 2
    ELSE IF status = "walking" THEN Cardinality(DOMAIN doc.objects \ visited) + 1 ELSE 0

\* The kids that the running activation has not looked at.
KidsAhead == IF status = "walking" THEN Len(Top.kids) + 1 - Top.next ELSE 0

Ahead == <<ObjectsAhead, <<Len(stack), KidsAhead>>>>

LeavesLess == <<Ahead', Ahead>> \in LexicalLess

LEMMA KidCount ==
    ASSUME IInv, status = "walking"
    PROVE  Len(Top.kids) \in Nat
<1>1. Top.kids \in KidLists
  BY StackFacts DEF IInv, Frames
<1>2. \A r \in Refs : Len(Kids(Node(r))) \in Nat
  BY DocumentFacts DEF IInv
<1> QED
  BY <1>1, <1>2 DEF KidLists

LEMMA AheadType ==
    ASSUME IInv
    PROVE  ObjectsAhead \in Nat /\ Len(stack) \in Nat /\ KidsAhead \in Nat
<1>1. IsFiniteSet(DOMAIN doc.objects)
  BY DocumentsAssumption DEF IInv, DocInv
<1>2. /\ Cardinality(DOMAIN doc.objects) \in Nat
      /\ Cardinality(DOMAIN doc.objects \ visited) \in Nat
  BY <1>1, FS_CardinalityType, FS_Subset
<1>3. ObjectsAhead \in Nat
  BY <1>2 DEF ObjectsAhead
<1>4. Len(stack) \in Nat
  BY LenProperties DEF IInv, TypeOK
<1>5. ASSUME status = "walking" PROVE KidsAhead \in Nat
  <2>1. Len(stack) \in Nat \ {0} /\ Top \in Frames
    BY <1>5, StackFacts DEF IInv
  <2>2. Len(Top.kids) \in Nat
    BY <1>5, KidCount
  <2>3. Top.next \in Nat /\ Top.next <= Len(Top.kids) + 1
    <3>1. Top = stack[Len(stack)] /\ Len(stack) \in 1..Len(stack)
      BY <2>1 DEF Top
    <3> QED
      BY <2>1, <3>1 DEF IInv, StackInv, Frames
  <2> QED
    BY <1>5, <2>2, <2>3 DEF KidsAhead
<1>6. KidsAhead \in Nat
  BY <1>5 DEF KidsAhead
<1> QED
  BY <1>3, <1>4, <1>6

\* A node that is entered, and does not end the walk, is an object that is not entered again.
LEMMA EntryLeavesFewer ==
    ASSUME IInv, NEW r \in Refs, EnterKid(r), Node(r).kind = "Dictionary", status' = status
    PROVE  ObjectsAhead' < ObjectsAhead
<1>1. status = "walking" /\ r \notin visited /\ visited' = visited \cup {r} /\ doc' = doc
  BY DEF EnterKid, AtKid
<1> DEFINE left == DOMAIN doc.objects \ visited
<1>2. r \in left
  BY <1>1 DEF Node, Resolve, Null
<1>3. IsFiniteSet(left)
  BY DocumentsAssumption, FS_Subset DEF IInv, DocInv
<1>4. Cardinality(left \ {r}) = Cardinality(left) - 1 /\ Cardinality(left) \in Nat
  BY <1>2, <1>3, FS_RemoveElement, FS_CardinalityType
<1>5. DOMAIN doc'.objects \ visited' = left \ {r}
  BY <1>1
<1>6. ObjectsAhead = Cardinality(left) + 1
  BY <1>1 DEF ObjectsAhead
<1>7. ObjectsAhead' = Cardinality(left \ {r}) + 1
  BY <1>1, <1>5 DEF ObjectsAhead
<1> QED
  BY <1>4, <1>6, <1>7

LEMMA StepDescends ==
    ASSUME IInv, IInv', Next
    PROVE  \/ ObjectsAhead' < ObjectsAhead
           \/ /\ ObjectsAhead' = ObjectsAhead
              /\ \/ Len(stack') < Len(stack)
                 \/ Len(stack') = Len(stack) /\ KidsAhead' < KidsAhead
<1>1. ObjectsAhead \in Nat /\ Len(stack) \in Nat
  BY AheadType
<1>2. status \in {"start", "walking"} => ObjectsAhead > 0
  <2>1. IsFiniteSet(DOMAIN doc.objects)
    BY DocumentsAssumption DEF IInv, DocInv
  <2>2. /\ Cardinality(DOMAIN doc.objects) \in Nat
        /\ Cardinality(DOMAIN doc.objects \ visited) \in Nat
    BY <2>1, FS_CardinalityType, FS_Subset
  <2> QED
    BY <2>2 DEF ObjectsAhead
<1>3. ASSUME status \in {"start", "walking"}, status' \in {"ok", "err"} PROVE ObjectsAhead' < ObjectsAhead
  BY <1>1, <1>2, <1>3 DEF ObjectsAhead
<1>4. CASE RejectCatalog \/ Finish
  BY <1>3, <1>4 DEF RejectCatalog, Finish, Fail
<1>5. CASE OpenCatalog
  <2>1. status = "start" /\ status' = "walking" /\ doc' = doc /\ visited' = visited
    BY <1>5 DEF OpenCatalog
  <2>2. IsFiniteSet(DOMAIN doc.objects)
    BY DocumentsAssumption DEF IInv, DocInv
  <2>3. /\ Cardinality(DOMAIN doc.objects) \in Nat
        /\ Cardinality(DOMAIN doc.objects \ visited) \in Nat
        /\ Cardinality(DOMAIN doc.objects \ visited) <= Cardinality(DOMAIN doc.objects)
    BY <2>2, FS_CardinalityType, FS_Subset
  <2>4. /\ ObjectsAhead = Cardinality(DOMAIN doc.objects) + 2
        /\ ObjectsAhead' = Cardinality(DOMAIN doc.objects \ visited) + 1
    BY <2>1 DEF ObjectsAhead
  <2> QED
    BY <2>3, <2>4
<1>6. CASE SkipDirectKid \/ SkipVisitedKid
  <2>1. status = "walking" /\ stack' = AdvanceKid /\ UNCHANGED <<doc, visited, status>>
    BY <1>6 DEF SkipDirectKid, SkipVisitedKid, AtKid
  <2>2. /\ Len(stack) \in Nat \ {0} /\ Len(AdvanceKid) = Len(stack)
        /\ AdvanceKid[Len(stack)].kids = stack[Len(stack)].kids
        /\ AdvanceKid[Len(stack)].next = stack[Len(stack)].next + 1
    BY <2>1, StackFacts DEF IInv
  <2>3. Top.next \in Nat /\ KidsAhead \in Nat
    BY <2>1, StackFacts, AheadType DEF IInv, Frames
  <2>4. Top'.kids = Top.kids /\ Top'.next = Top.next + 1
    BY <2>1, <2>2 DEF Top
  <2>5. Len(Top.kids) \in Nat
    BY <2>1, KidCount
  <2>6. KidsAhead = Len(Top.kids) + 1 - Top.next /\ KidsAhead' = Len(Top.kids) + 1 - (Top.next + 1)
    BY <2>1, <2>4 DEF KidsAhead
  <2>7. ObjectsAhead' = ObjectsAhead
    BY <2>1 DEF ObjectsAhead
  <2> QED
    BY <2>1, <2>2, <2>3, <2>5, <2>6, <2>7
<1>7. ASSUME NEW r \in Refs, RejectNode(r) \/ RejectPage(r)
      PROVE  ObjectsAhead' < ObjectsAhead
  BY <1>3, <1>7 DEF RejectNode, RejectPage, Fail, EnterKid, AtKid
<1>8. ASSUME NEW r \in Refs, CollectPage(r) \/ EnterPages(r) \/ IgnoreNode(r)
      PROVE  ObjectsAhead' < ObjectsAhead
  <2>1. EnterKid(r) /\ status' = status
    BY <1>8 DEF CollectPage, EnterPages, IgnoreNode
  <2>2. Node(r).kind = "Dictionary"
    BY <1>8, TypedNode DEF CollectPage, EnterPages, IgnoreNode
  <2> QED
    BY <2>1, <2>2, EntryLeavesFewer
<1>9. CASE Return
  <2>1. /\ stack' = SubSeq(stack, 1, Len(stack) - 1) /\ Len(stack) > 1
        /\ UNCHANGED <<doc, visited, status>>
    BY <1>9 DEF Return
  <2>2. stack \in Seq(Frames)
    BY DEF IInv, TypeOK
  <2>3. Len(stack') = Len(stack) - 1
    BY <1>1, <2>1, <2>2, SubSeqProperties
  <2>4. ObjectsAhead' = ObjectsAhead
    BY <2>1 DEF ObjectsAhead
  <2> QED
    BY <1>1, <2>3, <2>4
<1> QED
  BY <1>4, <1>5, <1>6, <1>7, <1>8, <1>9 DEF Next, CollectPages

\* Whatever the graph of /Kids, each step of collect_pages enters one object less that can
\* still be entered, or leaves an activation, or looks at one kid more: there is no end of
\* going down, so the walk cannot go round in a circle.
THEOREM EveryStepLeavesLessAhead ==
    /\ Spec => [][LeavesLess]_vars
    /\ IsWellFoundedOn(LexicalLess, NatTriples)
<1>1. IInv /\ IInv' /\ [Next]_vars => [LeavesLess]_vars
  <2> SUFFICES ASSUME IInv, IInv', Next PROVE LeavesLess
    OBVIOUS
  <2>1. ObjectsAhead \in Nat /\ Len(stack) \in Nat /\ KidsAhead \in Nat
    BY AheadType
  <2>2. (IInv => ObjectsAhead \in Nat /\ Len(stack) \in Nat /\ KidsAhead \in Nat)'
    BY AheadType, PTL
  <2>3. ObjectsAhead' \in Nat /\ Len(stack') \in Nat /\ KidsAhead' \in Nat
    BY <2>2
  <2> QED
    BY <2>1, <2>3, StepDescends, LessBefore DEF Ahead, LeavesLess
<1>2. Spec => [][LeavesLess]_vars
  BY <1>1, Invariance, PTL DEF Spec
<1> QED
  BY <1>2, LexicalOrderIsWellFounded
=============================================================================
