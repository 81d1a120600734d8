----------------------- MODULE DocumentParser_proofs ------------------------
(***************************************************************************)
(* What parse_pdf does with any file: the passes stay within it, an update *)
(* overrides what it updates, the entries of a cross-reference stream add  *)
(* nothing that the file does not define, the answer is that of the        *)
(* declarative table, and each step leaves less ahead.                     *)
(***************************************************************************)
EXTENDS DocumentParser, SequenceTheorems, WellFoundedInduction, TLAPS

\* Overlay and Put, for maps of any values: their domains, and what they hold.
LEMMA OverlayDomain ==
    ASSUME NEW base, NEW over
    PROVE  DOMAIN Overlay(base, over) = DOMAIN base \cup DOMAIN over
BY DEF Overlay

LEMMA OverlayNew ==
    ASSUME NEW base, NEW over, NEW k \in DOMAIN over
    PROVE  Overlay(base, over)[k] = over[k]
BY DEF Overlay

LEMMA OverlayOld ==
    ASSUME NEW base, NEW over, NEW k \in DOMAIN base, k \notin DOMAIN over
    PROVE  Overlay(base, over)[k] = base[k]
BY DEF Overlay

LEMMA PutDomain ==
    ASSUME NEW map, NEW key, NEW value
    PROVE  DOMAIN Put(map, key, value) = DOMAIN map \cup {key}
BY DEF Put

LEMMA PutNew ==
    ASSUME NEW map, NEW key, NEW value
    PROVE  Put(map, key, value)[key] = value
BY DEF Put

LEMMA PutOld ==
    ASSUME NEW map, NEW key, NEW value, NEW k \in DOMAIN map, k # key
    PROVE  Put(map, key, value)[k] = map[k]
BY DEF Put

-----------------------------------------------------------------------------
(***************************************************************************)
(* Types                                                                   *)
(***************************************************************************)

Inv == TypeOK /\ file \in Files

LEMMA FileIsOrdered ==
    ASSUME file \in Files
    PROVE  Len(file) \in Nat /\ DOMAIN file = 1..Len(file)
<1>1. file \in Seq({file[k] : k \in DOMAIN file})
  BY FilesAssumption DEF IsSequence
<1> QED
  BY <1>1

\* The pass is at an item of the file.
LEMMA ItemIsInFile ==
    ASSUME Inv, AtItem
    PROVE  at \in 1..Len(file) /\ at + 1 \in 1..(Len(file) + 1) /\ phase = "linear"
<1>1. Len(file) \in Nat
  BY FileIsOrdered DEF Inv
<1>2. at <= Len(file)
  BY DEF AtItem, PassIsOver
<1>3. at \in 1..(Len(file) + 1)
  BY DEF Inv, TypeOK
<1>4. phase = "linear"
  BY DEF AtItem
<1> QED
  BY <1>1, <1>2, <1>3, <1>4

LEMMA InvInitially == Init => Inv
<1> SUFFICES ASSUME Init PROVE Inv
  OBVIOUS
<1>1. file \in Files
  BY DEF Init
<1>2. Len(file) \in Nat
  BY <1>1, FileIsOrdered
<1> QED
  BY <1>1, <1>2 DEF Init, Inv, TypeOK, Phases, Ends

LEMMA InvPreserved == Inv /\ [Next]_vars => Inv'
<1> SUFFICES ASSUME Inv, [Next]_vars PROVE Inv'
  OBVIOUS
<1> USE DEF Inv, TypeOK, Phases, Ends
<1>1. CASE SkipStartXref
  BY <1>1, ItemIsInFile DEF SkipStartXref
<1>2. CASE ParseObject
  BY <1>2, ItemIsInFile DEF ParseObject
<1>3. CASE RejectItem
  BY <1>3, ItemIsInFile DEF RejectItem, Fail
<1>15. CASE AbortAtItem
  BY <1>15, ItemIsInFile DEF AbortAtItem
<1>4. CASE EndPass
  BY <1>4 DEF EndPass
<1>5. CASE ReadTrailer
  BY <1>5 DEF ReadTrailer
<1>6. CASE RejectTrailer
  BY <1>6 DEF RejectTrailer, Fail
<1>7. CASE OpenXRefStream
  BY <1>7 DEF OpenXRefStream
<1>8. CASE RejectXRefStream
  BY <1>8 DEF RejectXRefStream, Fail
<1>9. CASE FollowEntry
  BY <1>9 DEF FollowEntry
<1>10. CASE SkipEntry
  BY <1>10 DEF SkipEntry
<1>11. CASE EndXRef
  BY <1>11 DEF EndXRef
<1>12. CASE ReadRoot
  BY <1>12 DEF ReadRoot
<1>13. CASE RejectRoot
  BY <1>13 DEF RejectRoot, Fail
<1>14. CASE UNCHANGED vars
  BY <1>14 DEF vars
<1> QED
  BY <1>1, <1>2, <1>3, <1>4, <1>5, <1>6, <1>7, <1>8, <1>9, <1>10, <1>11, <1>12, <1>13, <1>14, <1>15, Zenon
  DEF Next

THEOREM Invariance == Spec => []Inv
<1> QED
  BY InvInitially, InvPreserved, PTL DEF Spec

\* The linear pass never leaves the file, and entries of a cross-reference stream
\* wait only while they are followed.
THEOREM TypeCorrect == Spec => []TypeOK
<1>1. Inv => TypeOK
  BY DEF Inv
<1> QED
  BY <1>1, Invariance, PTL

-----------------------------------------------------------------------------
(***************************************************************************)
(* The newest definition                                                   *)
(***************************************************************************)

\* p is the newest definition of k before a place.
IsNewest(f, place, k, p) ==
    /\ p \in DOMAIN f
    /\ IsObject(f[p])
    /\ k \in DOMAIN Insertions(f[p])
    /\ p < place
    /\ \A q \in DOMAIN f :
          IsObject(f[q]) /\ k \in DOMAIN Insertions(f[q]) /\ q < place => q <= p

\* What NewestIsKept says of a table and a place.
KeepsNewest(f, table, place) ==
    /\ \A k \in DOMAIN table : \E p \in DOMAIN f :
          IsNewest(f, place, k, p) /\ table[k] = Insertions(f[p])[k]
    /\ \A p \in 1..(place - 1) : IsObject(f[p]) => DOMAIN Insertions(f[p]) \subseteq DOMAIN table

LEMMA NewestIsKeepsNewest == NewestIsKept <=> (phase \in {"linear", "trailer"} => KeepsNewest(file, objects, at))
BY DEF NewestIsKept, KeepsNewest, IsNewest, Definitions

\* One item more: it defines what it inserts, and leaves the rest as it was.
LEMMA KeepsNewestAfterObject ==
    ASSUME NEW f, NEW table, NEW place \in DOMAIN f, DOMAIN f \subseteq Nat,
           KeepsNewest(f, table, place), IsObject(f[place])
    PROVE  KeepsNewest(f, Overlay(table, Insertions(f[place])), place + 1)
<1> DEFINE more == Insertions(f[place])
           new == Overlay(table, more)
<1>0. DOMAIN new = DOMAIN table \cup DOMAIN more
  BY OverlayDomain
<1>1. ASSUME NEW k \in DOMAIN new
      PROVE  \E p \in DOMAIN f : IsNewest(f, place + 1, k, p) /\ new[k] = Insertions(f[p])[k]
  <2>1. CASE k \in DOMAIN more
    <3>1. new[k] = more[k]
      BY <2>1, OverlayNew, Zenon
    <3>2. IsNewest(f, place + 1, k, place)
      BY <2>1 DEF IsNewest
    <3> QED
      BY <3>1, <3>2
  <2>2. CASE k \notin DOMAIN more
    <3>1. k \in DOMAIN table
      BY <1>0, <2>2
    <3>2. new[k] = table[k]
      BY <2>2, <3>1, OverlayOld, Zenon
    <3>3. PICK p \in DOMAIN f : IsNewest(f, place, k, p) /\ table[k] = Insertions(f[p])[k]
      BY <3>1 DEF KeepsNewest
    <3>4. IsNewest(f, place + 1, k, p)
      <4>1. p \in Nat /\ place \in Nat
        OBVIOUS
      <4>2. ASSUME NEW q \in DOMAIN f, IsObject(f[q]), k \in DOMAIN Insertions(f[q]), q < place + 1
            PROVE  q <= p
        <5>1. q # place
          BY <2>2, <4>2
        <5>2. q < place
          BY <4>1, <4>2, <5>1
        <5> QED
          BY <3>3, <4>2, <5>2 DEF IsNewest
      <4> QED
        BY <3>3, <4>1, <4>2 DEF IsNewest
    <3> QED
      BY <3>2, <3>3, <3>4
  <2> QED
    BY <2>1, <2>2
<1>2. ASSUME NEW p \in 1..((place + 1) - 1), IsObject(f[p])
      PROVE  DOMAIN Insertions(f[p]) \subseteq DOMAIN new
  <2>1. CASE p = place
    BY <1>0, <2>1
  <2>2. CASE p # place
    <3>1. p \in 1..(place - 1)
      BY <2>2
    <3> QED
      BY <1>0, <1>2, <3>1 DEF KeepsNewest
  <2> QED
    BY <2>1, <2>2
<1> HIDE DEF new
<1>3. KeepsNewest(f, new, place + 1)
  BY <1>1, <1>2 DEF KeepsNewest
<1> QED
  BY <1>3 DEF new

\* A step over something that is no object.
LEMMA KeepsNewestAfterOther ==
    ASSUME NEW f, NEW table, NEW place \in DOMAIN f, DOMAIN f \subseteq Nat,
           KeepsNewest(f, table, place), ~IsObject(f[place])
    PROVE  KeepsNewest(f, table, place + 1)
<1>1. ASSUME NEW k \in DOMAIN table
      PROVE  \E p \in DOMAIN f : IsNewest(f, place + 1, k, p) /\ table[k] = Insertions(f[p])[k]
  <2>1. PICK p \in DOMAIN f : IsNewest(f, place, k, p) /\ table[k] = Insertions(f[p])[k]
    BY DEF KeepsNewest
  <2>2. p \in Nat /\ place \in Nat
    OBVIOUS
  <2>3. ASSUME NEW q \in DOMAIN f, IsObject(f[q]), k \in DOMAIN Insertions(f[q]), q < place + 1
        PROVE  q <= p
    <3>1. q # place
      BY <2>3
    <3>2. q < place
      BY <2>2, <2>3, <3>1
    <3> QED
      BY <2>1, <2>3, <3>2 DEF IsNewest
  <2>4. IsNewest(f, place + 1, k, p)
    BY <2>1, <2>2, <2>3 DEF IsNewest
  <2> QED
    BY <2>1, <2>4
<1>2. ASSUME NEW p \in 1..((place + 1) - 1), IsObject(f[p])
      PROVE  DOMAIN Insertions(f[p]) \subseteq DOMAIN table
  <2>1. p # place
    BY <1>2
  <2>2. p \in 1..(place - 1)
    BY <2>1
  <2> QED
    BY <1>2, <2>2 DEF KeepsNewest
<1> QED
  BY <1>1, <1>2 DEF KeepsNewest

LEMMA NewestInitially == Init => NewestIsKept
<1> SUFFICES ASSUME Init PROVE KeepsNewest(file, objects, at)
  BY NewestIsKeepsNewest
<1>1. DOMAIN objects = {}
  BY DEF Init, EmptyMap
<1>2. at = 1
  BY DEF Init
<1> QED
  BY <1>1, <1>2 DEF KeepsNewest

LEMMA NewestPreserved == Inv /\ NewestIsKept /\ [Next]_vars => NewestIsKept'
<1> SUFFICES ASSUME Inv, NewestIsKept, [Next]_vars PROVE NewestIsKept'
  OBVIOUS
<1>0. DOMAIN file = 1..Len(file) /\ DOMAIN file \subseteq Nat
  BY FileIsOrdered DEF Inv
<1>a. phase \in {"linear", "trailer"} => KeepsNewest(file, objects, at)
  BY NewestIsKeepsNewest
<1>b. SUFFICES ASSUME phase' \in {"linear", "trailer"} PROVE KeepsNewest(file', objects', at')
  <2>1. ASSUME (phase \in {"linear", "trailer"} => KeepsNewest(file, objects, at))'
        PROVE  NewestIsKept'
    BY <2>1 DEF NewestIsKept, KeepsNewest, IsNewest, Definitions
  <2> QED
    BY <2>1
<1>1. CASE SkipStartXref
  <2>1. at \in DOMAIN file /\ phase = "linear"
    BY <1>0, <1>1, ItemIsInFile DEF SkipStartXref
  <2>2. ~IsObject(file[at])
    BY <1>1 DEF SkipStartXref, IsObject
  <2>3. KeepsNewest(file, objects, at + 1)
    BY <1>0, <1>a, <2>1, <2>2, KeepsNewestAfterOther
  <2> QED
    BY <1>1, <2>3 DEF SkipStartXref
<1>2. CASE ParseObject
  <2>1. at \in DOMAIN file /\ phase = "linear"
    BY <1>0, <1>2, ItemIsInFile DEF ParseObject
  <2>2. IsObject(file[at])
    BY <1>2 DEF ParseObject
  <2>3. KeepsNewest(file, Overlay(objects, Insertions(file[at])), at + 1)
    BY <1>0, <1>a, <2>1, <2>2, KeepsNewestAfterObject
  <2> QED
    BY <1>2, <2>3 DEF ParseObject
<1>3. CASE EndPass
  BY <1>3, <1>a DEF EndPass
<1>4. CASE UNCHANGED vars
  BY <1>4, <1>a, <1>b DEF vars
<1>5. CASE RejectItem
  BY <1>5, <1>b DEF RejectItem, Fail
<1>15. CASE AbortAtItem
  BY <1>15, <1>b DEF AbortAtItem
<1>6. CASE ReadTrailer
  BY <1>6, <1>b DEF ReadTrailer
<1>7. CASE RejectTrailer
  BY <1>7, <1>b DEF RejectTrailer, Fail
<1>8. CASE OpenXRefStream
  BY <1>8, <1>b DEF OpenXRefStream
<1>9. CASE RejectXRefStream
  BY <1>9, <1>b DEF RejectXRefStream, Fail
<1>10. CASE FollowEntry
  BY <1>10, <1>b DEF FollowEntry
<1>11. CASE SkipEntry
  BY <1>11, <1>b DEF SkipEntry
<1>12. CASE EndXRef
  BY <1>12, <1>b DEF EndXRef
<1>13. CASE ReadRoot
  BY <1>13, <1>b DEF ReadRoot
<1>14. CASE RejectRoot
  BY <1>14, <1>b DEF RejectRoot, Fail
<1> QED
  BY <1>1, <1>2, <1>3, <1>4, <1>5, <1>6, <1>7, <1>8, <1>9, <1>10, <1>11, <1>12, <1>13, <1>14, <1>15, Zenon
  DEF Next

\* While the linear pass runs, and at its end, the table holds of every object the
\* definition nearest to the place reached, those within object streams included: in
\* a file of any length an update overrides what it updates.
THEOREM UpdatesOverride == Spec => []NewestIsKept
<1> QED
  BY Invariance, NewestInitially, NewestPreserved, PTL DEF Spec

-----------------------------------------------------------------------------
(***************************************************************************)
(* Nothing is invented                                                     *)
(***************************************************************************)

\* The file defines the value under the number of the key.
IsDefined(f, k, value) ==
    \E p \in DOMAIN f :
        /\ IsObject(f[p])
        /\ \/ k \in DOMAIN Insertions(f[p]) /\ value = Insertions(f[p])[k]
           \/ k[1] = f[p].key[1] /\ value = ValueReparsed(f[p])

LEMMA NothingInventedPreserved == Inv /\ NothingIsInvented /\ [Next]_vars => NothingIsInvented'
<1> SUFFICES ASSUME Inv, NothingIsInvented, [Next]_vars PROVE NothingIsInvented'
  OBVIOUS
<1>a. \A k \in DOMAIN objects : IsDefined(file, k, objects[k])
  BY DEF NothingIsInvented, IsDefined
<1>b. SUFFICES \A k \in DOMAIN objects' : IsDefined(file', k, objects'[k])
  BY DEF NothingIsInvented, IsDefined
<1>1. CASE ParseObject
  <2>1. at \in DOMAIN file
    BY <1>1, ItemIsInFile, FileIsOrdered DEF ParseObject, Inv
  <2>2. IsObject(file[at]) /\ file' = file
    BY <1>1 DEF ParseObject
  <2> DEFINE more == Insertions(file[at])
  <2>3. objects' = Overlay(objects, more)
    BY <1>1 DEF ParseObject
  <2>4. \A k \in DOMAIN more : IsDefined(file, k, more[k])
    BY <2>1, <2>2, Zenon DEF IsDefined
  <2> HIDE DEF more
  <2>5. DOMAIN objects' = DOMAIN objects \cup DOMAIN more
    BY <2>3, OverlayDomain
  <2>6. ASSUME NEW k \in DOMAIN objects' PROVE IsDefined(file, k, objects'[k])
    <3>1. CASE k \in DOMAIN more
      <4>1. objects'[k] = more[k]
        BY <2>3, <3>1, OverlayNew, Zenon
      <4> QED
        BY <2>4, <3>1, <4>1, Zenon
    <3>2. CASE k \notin DOMAIN more
      <4>1. k \in DOMAIN objects
        BY <2>5, <3>2
      <4>2. objects'[k] = objects[k]
        BY <2>3, <3>2, <4>1, OverlayOld, Zenon
      <4> QED
        BY <1>a, <4>1, <4>2, Zenon
    <3> QED
      BY <3>1, <3>2
  <2> QED
    BY <2>2, <2>6
<1>2. CASE FollowEntry
  <2> DEFINE entry == Head(todo)
             key == <<entry.num, entry.gen>>
             value == ValueReparsed(file[entry.at])
  <2>1. EntryIsUsable(file, entry) /\ file' = file /\ objects' = Put(objects, key, value)
    BY <1>2 DEF FollowEntry
  <2>2. key[1] = entry.num
    OBVIOUS
  <2>3. entry.at \in DOMAIN file /\ IsObject(file[entry.at]) /\ file[entry.at].key[1] = entry.num
    BY <2>1 DEF EntryIsUsable
  <2> HIDE DEF entry, key
  <2>4. IsDefined(file, key, value)
    BY <2>2, <2>3, Zenon DEF IsDefined
  <2> HIDE DEF value
  <2>5. DOMAIN objects' = DOMAIN objects \cup {key}
    BY <2>1, PutDomain
  <2>6. ASSUME NEW k \in DOMAIN objects' PROVE IsDefined(file, k, objects'[k])
    <3>1. CASE k = key
      <4>1. objects' = Put(objects, key, value)
        BY <2>1
      <4>2. objects'[key] = value
        BY <4>1, PutNew
      <4> QED
        BY <2>4, <3>1, <4>2, Zenon
    <3>2. CASE k # key
      <4>1. k \in DOMAIN objects
        BY <2>5, <3>2
      <4>2. objects'[k] = objects[k]
        BY <2>1, <3>2, <4>1, PutOld, Zenon
      <4> QED
        BY <1>a, <4>1, <4>2, Zenon
    <3> QED
      BY <3>1, <3>2
  <2> QED
    BY <2>1, <2>6
<1>3. CASE UNCHANGED <<file, objects>>
  BY <1>3, <1>a
<1>4. [Next]_vars => ParseObject \/ FollowEntry \/ UNCHANGED <<file, objects>>
  BY DEF Next, vars, Fail, SkipStartXref, RejectItem, AbortAtItem, EndPass, ReadTrailer, RejectTrailer,
         OpenXRefStream, RejectXRefStream, SkipEntry, EndXRef, ReadRoot, RejectRoot
<1> QED
  BY <1>1, <1>2, <1>3, <1>4

\* Wherever the entries of a cross-reference stream lead, every object of the table is
\* one that some item of the file defines under that number.
THEOREM EntriesInventNothing == Spec => []NothingIsInvented
<1>1. Init => NothingIsInvented
  BY DEF Init, NothingIsInvented, EmptyMap
<1> QED
  BY <1>1, Invariance, NothingInventedPreserved, PTL DEF Spec

-----------------------------------------------------------------------------
(***************************************************************************)
(* Least and greatest                                                      *)
(***************************************************************************)

LEMMA LeastNumber ==
    ASSUME NEW S \in SUBSET Nat, S # {}
    PROVE  \E x \in S : \A y \in S : x <= y
<1>1. PICK x \in S : \A y \in S : ~(<<y, x>> \in OpToRel(<, Nat))
  BY NatLessThanWellFounded, WFMin
<1>2. \A y \in S : x <= y
  <2>1. SUFFICES ASSUME NEW y \in S PROVE x <= y
    OBVIOUS
  <2>2. <<y, x>> \notin {ss \in Nat \X Nat : ss[1] < ss[2]}
    BY <1>1, Zenon DEF OpToRel
  <2>3. ~(y < x)
    BY <2>2
  <2> QED
    BY <2>3
<1> QED
  BY <1>2

LEMMA GreatestPlace ==
    ASSUME NEW n \in Nat, NEW S \in SUBSET (1..n), S # {}
    PROVE  \E p \in S : \A q \in S : q <= p
<1> DEFINE T == {m \in Nat : \E p \in S : m = n - p}
<1>1. T \in SUBSET Nat /\ T # {}
  <2>1. PICK p \in S : TRUE
    OBVIOUS
  <2>2. n - p \in Nat
    OBVIOUS
  <2> QED
    BY <2>2
<1> HIDE DEF T
<1>2. PICK x \in T : \A y \in T : x <= y
  BY <1>1, LeastNumber
<1>3. PICK p \in S : x = n - p
  BY <1>2 DEF T
<1>4. ASSUME NEW q \in S PROVE q <= p
  <2>1. n - q \in T
    <3>1. n - q \in Nat
      OBVIOUS
    <3> QED
      BY <3>1 DEF T
  <2>2. n - p <= n - q
    BY <1>2, <1>3, <2>1
  <2> QED
    BY <2>2
<1> QED
  BY <1>4

\* Some key of a set comes before the others, as in a BTreeMap.
LEMMA LeastKey ==
    ASSUME NEW K \in SUBSET (Nat \X Nat), K # {}
    PROVE  \E k \in K : \A l \in K \ {k} : Before(k, l)
<1> DEFINE Firsts == {k[1] : k \in K}
<1>1. Firsts \in SUBSET Nat /\ Firsts # {}
  OBVIOUS
<1> HIDE DEF Firsts
<1>2. PICK a \in Firsts : \A x \in Firsts : a <= x
  BY <1>1, LeastNumber
<1> DEFINE Seconds == {k[2] : k \in {j \in K : j[1] = a}}
<1>3. Seconds \in SUBSET Nat
  OBVIOUS
<1>4. Seconds # {}
  BY <1>2 DEF Firsts
<1> HIDE DEF Seconds
<1>5. PICK b \in Seconds : \A x \in Seconds : b <= x
  BY <1>3, <1>4, LeastNumber
<1>6. PICK k \in K : k[1] = a /\ k[2] = b
  BY <1>5 DEF Seconds
<1>7. ASSUME NEW l \in K \ {k} PROVE Before(k, l)
  <2>1. l[1] \in Nat /\ l[2] \in Nat /\ k[1] \in Nat /\ k[2] \in Nat
    OBVIOUS
  <2>2. k[1] <= l[1]
    BY <1>2, <1>6 DEF Firsts
  <2>3. l[1] = k[1] => k[2] <= l[2]
    BY <1>5, <1>6 DEF Seconds
  <2>4. l # k
    OBVIOUS
  <2>5. ~(l[1] = k[1] /\ l[2] = k[2])
    BY <2>4
  <2> QED
    BY <2>1, <2>2, <2>3, <2>5 DEF Before
<1> QED
  BY <1>7

-----------------------------------------------------------------------------
(***************************************************************************)
(* What has been read when the linear pass stops                           *)
(***************************************************************************)

IsMark(item) == item.kind \in {"xref", "trailer"}

\* The pass has stopped nowhere before the place, and failed nowhere.
WasRead(f, place) == \A p \in 1..(place - 1) : ~IsMark(f[p]) /\ ~IsRejected(f[p])

LEMMA BodyBefore ==
    ASSUME NEW f, NEW n \in Nat, DOMAIN f = 1..n, NEW place \in 1..(n + 1),
           WasRead(f, place), place <= n => IsMark(f[place])
    PROVE  Body(f) = 1..(place - 1)
<1> DEFINE marks == {p \in DOMAIN f : IsMark(f[p])}
<1>1. Body(f) = {p \in DOMAIN f : \A e \in marks : p < e}
  BY DEF Body, IsMark
<1>2. ASSUME NEW p \in 1..(place - 1) PROVE p \in Body(f)
  <2>1. ASSUME NEW e \in marks PROVE p < e
    <3>1. e \notin 1..(place - 1)
      BY <2>1 DEF WasRead
    <3> QED
      BY <3>1
  <2>2. p \in DOMAIN f
    OBVIOUS
  <2> HIDE DEF marks
  <2> QED
    BY <1>1, <2>1, <2>2
<1>3. ASSUME NEW p \in Body(f) PROVE p \in 1..(place - 1)
  <2>1. p \in 1..n /\ \A e \in marks : p < e
    BY <1>1
  <2>2. CASE place <= n
    <3>1. place \in marks
      BY <2>2
    <3>2. p < place
      BY <2>1, <3>1
    <3> QED
      BY <2>1, <3>2
  <2>3. CASE ~(place <= n)
    BY <2>1, <2>3
  <2> QED
    BY <2>2, <2>3
<1> QED
  BY <1>2, <1>3

\* A table that keeps the newest definitions of the body is the declarative one.
LEMMA TableOfBody ==
    ASSUME NEW f, NEW n \in Nat, DOMAIN f = 1..n, NEW place \in 1..(n + 1),
           Body(f) = 1..(place - 1), NEW table, table = [k \in DOMAIN table |-> table[k]],
           KeepsNewest(f, table, place)
    PROVE  table = BodyObjects(f)
<1> DEFINE keys == UNION {DOMAIN Insertions(f[p]) : p \in {q \in Body(f) : IsObject(f[q])}}
<1>1. DOMAIN table = keys
  <2>1. ASSUME NEW k \in DOMAIN table PROVE k \in keys
    <3>1. PICK p \in DOMAIN f : IsNewest(f, place, k, p)
      BY DEF KeepsNewest
    <3>2. p \in Body(f)
      BY <3>1 DEF IsNewest
    <3> QED
      BY <3>1, <3>2 DEF IsNewest
  <2>2. ASSUME NEW k \in keys PROVE k \in DOMAIN table
    <3>1. PICK p \in Body(f) : IsObject(f[p]) /\ k \in DOMAIN Insertions(f[p])
      OBVIOUS
    <3> QED
      BY <3>1 DEF KeepsNewest
  <2> QED
    BY <2>1, <2>2
<1>2. ASSUME NEW k \in DOMAIN table
      PROVE  table[k] = Insertions(f[Newest(f, Body(f), k)])[k]
  <2>1. PICK p \in DOMAIN f : IsNewest(f, place, k, p) /\ table[k] = Insertions(f[p])[k]
    BY DEF KeepsNewest
  <2>2. Places(f, Body(f), k) = {q \in 1..(place - 1) : IsObject(f[q]) /\ k \in DOMAIN Insertions(f[q])}
    BY DEF Places
  <2>3. p \in Places(f, Body(f), k)
    BY <2>1, <2>2 DEF IsNewest
  <2>4. ASSUME NEW q \in Places(f, Body(f), k) PROVE q <= p
    BY <2>1, <2>2 DEF IsNewest
  <2> DEFINE S == Places(f, Body(f), k)
  <2>5. S \subseteq Nat
    BY <2>2
  <2>6. Newest(f, Body(f), k) = CHOOSE x \in S : \A q \in S : q <= x
    BY DEF Newest
  <2> HIDE DEF S
  <2>7. Newest(f, Body(f), k) = p
    BY <2>3, <2>4, <2>5, <2>6 DEF S
  <2> QED
    BY <2>1, <2>7
<1>3. BodyObjects(f) = [k \in keys |-> Insertions(f[Newest(f, Body(f), k)])[k]]
  BY DEF BodyObjects
<1> HIDE DEF keys
<1> QED
  BY <1>1, <1>2, <1>3

-----------------------------------------------------------------------------
(***************************************************************************)
(* The trailer                                                             *)
(***************************************************************************)

\* The search from the end finds the trailer of the table, or there is none.
LEMMA TrailerFound ==
    ASSUME Inv, Body(file) = 1..(at - 1)
    PROVE  \/ TrailerPlace = 0 /\ TrailerOf(file) = {}
           \/ TrailerPlace \in DOMAIN file /\ TrailerOf(file) = {TrailerPlace}
<1> DEFINE S == TrailerPlaces(file)
<1>0. PICK n \in Nat : n = Len(file) /\ DOMAIN file = 1..n
  BY FileIsOrdered DEF Inv
<1>a. at \in Nat \ {0} /\ at \in 1..(n + 1)
  BY <1>0 DEF Inv, TypeOK
<1>b. \A p \in 1..n : Body(file) = 1..(p - 1) => p = at
  <2>1. SUFFICES ASSUME NEW p \in 1..n, 1..(p - 1) = 1..(at - 1) PROVE p = at
    OBVIOUS
  <2>2. ~(p < at)
    <3>1. ASSUME p < at PROVE FALSE
      <4>1. p \in 1..(at - 1) /\ p \notin 1..(p - 1)
        BY <1>a, <3>1
      <4> QED
        BY <2>1, <4>1
    <3> QED
      BY <3>1
  <2>3. ~(at < p)
    <3>1. ASSUME at < p PROVE FALSE
      <4>1. at \in 1..(p - 1) /\ at \notin 1..(at - 1)
        BY <1>a, <3>1
      <4> QED
        BY <2>1, <4>1
    <3> QED
      BY <3>1
  <2> QED
    BY <1>a, <2>2, <2>3
<1>c. S \in SUBSET (1..n) /\ \A p \in 1..n : file[p].kind = "trailer" => p \in S
  BY <1>0 DEF TrailerPlaces
<1>d. TrailerOf(file) = {p \in S : \/ Body(file) = 1..(p - 1) /\ file[p].kind = "trailer"
                                   \/ /\ \A q \in S : q <= p
                                      /\ ~\E q \in S : Body(file) = 1..(q - 1) /\ file[q].kind = "trailer"}
  BY DEF TrailerOf
<1> HIDE DEF S
<1>1. CASE at <= n /\ file[at].kind = "trailer"
  <2>1. TrailerPlace = at
    BY <1>0, <1>1 DEF TrailerPlace
  <2>2. at \in S
    BY <1>a, <1>c, <1>1
  <2>3. TrailerOf(file) = {at}
    BY <1>b, <1>c, <1>d, <1>1, <2>2
  <2> QED
    BY <1>0, <1>a, <1>1, <2>1, <2>3
<1>2. CASE ~(at <= n /\ file[at].kind = "trailer") /\ S = {}
  <2>1. TrailerPlace = 0
    BY <1>0, <1>2 DEF TrailerPlace, S
  <2> QED
    BY <1>d, <1>2, <2>1
<1>3. CASE ~(at <= n /\ file[at].kind = "trailer") /\ S # {}
  <2>1. PICK m \in S : \A q \in S : q <= m
    BY <1>c, <1>3, GreatestPlace
  <2>2. TrailerPlace = CHOOSE p \in S : \A q \in S : q <= p
    BY <1>0, <1>3 DEF TrailerPlace, S
  <2>3. TrailerPlace = m
    BY <1>c, <2>1, <2>2
  <2>4. \A q \in S : ~(Body(file) = 1..(q - 1) /\ file[q].kind = "trailer")
    <3>1. SUFFICES ASSUME NEW q \in S, Body(file) = 1..(q - 1), file[q].kind = "trailer" PROVE FALSE
      OBVIOUS
    <3>2. q \in 1..n
      BY <1>c
    <3>3. q = at
      BY <1>b, <3>1, <3>2
    <3> QED
      BY <1>3, <3>1, <3>2, <3>3
  <2>5. TrailerOf(file) = {p \in S : \A q \in S : q <= p}
    BY <1>d, <2>4
  <2>6. ASSUME NEW p \in S, \A q \in S : q <= p PROVE p = m
    <3>1. p <= m /\ m <= p
      BY <2>1, <2>6
    <3>2. p \in Nat /\ m \in Nat
      BY <1>c
    <3> QED
      BY <3>1, <3>2
  <2>7. TrailerOf(file) = {m}
    BY <2>1, <2>5, <2>6
  <2> QED
    BY <1>0, <1>c, <2>3, <2>7
<1> QED
  BY <1>1, <1>2, <1>3

-----------------------------------------------------------------------------
(***************************************************************************)
(* The entries of a cross-reference stream                                 *)
(***************************************************************************)

KeyOf(entry) == <<entry.num, entry.gen>>

\* The usable ones of the first i entries.
Usable(f, entries, i) == {j \in DOMAIN entries : j <= i /\ EntryIsUsable(f, entries[j])}

\* The entry of a key that decides.
Decides(f, entries, i, k, j) ==
    /\ j \in Usable(f, entries, i)
    /\ KeyOf(entries[j]) = k
    /\ \A l \in Usable(f, entries, i) : KeyOf(entries[l]) = k => l <= j

\* The table of the body after the first i entries.
HasFollowed(f, body, entries, i, table) ==
    /\ table = [k \in DOMAIN table |-> table[k]]
    /\ DOMAIN table = DOMAIN body \cup {KeyOf(entries[j]) : j \in Usable(f, entries, i)}
    /\ \A k \in DOMAIN table :
          \/ /\ \A j \in Usable(f, entries, i) : KeyOf(entries[j]) # k
             /\ table[k] = body[k]
          \/ \E j \in Usable(f, entries, i) :
                Decides(f, entries, i, k, j) /\ table[k] = ValueReparsed(f[entries[j].at])

LEMMA FollowedNone ==
    ASSUME NEW f, NEW body, NEW entries, NEW n \in Nat, DOMAIN entries = 1..n,
           body = [k \in DOMAIN body |-> body[k]]
    PROVE  HasFollowed(f, body, entries, 0, body)
<1>1. Usable(f, entries, 0) = {}
  BY DEF Usable
<1>2. {KeyOf(entries[j]) : j \in Usable(f, entries, 0)} = {}
  BY <1>1
<1> QED
  BY <1>1, <1>2 DEF HasFollowed

LEMMA FollowedUsable ==
    ASSUME NEW f, NEW body, NEW entries, NEW n \in Nat, DOMAIN entries = 1..n,
           NEW i \in 0..n, i + 1 <= n, NEW table, HasFollowed(f, body, entries, i, table),
           EntryIsUsable(f, entries[i + 1])
    PROVE  HasFollowed(f, body, entries, i + 1,
                       Put(table, KeyOf(entries[i + 1]), ValueReparsed(f[entries[i + 1].at])))
<1> DEFINE e == i + 1
           key == KeyOf(entries[e])
           value == ValueReparsed(f[entries[e].at])
           U == Usable(f, entries, i)
           V == Usable(f, entries, e)
           new == Put(table, key, value)
<1>1. V = U \cup {e}
  BY DEF Usable
<1>2. \A j \in U : j \in Nat /\ j < e
  BY DEF Usable
<1>3. new = [k \in DOMAIN new |-> new[k]]
  BY DEF Put
<1>4. DOMAIN table = DOMAIN body \cup {KeyOf(entries[j]) : j \in U}
  BY DEF HasFollowed
<1>5. DOMAIN new = DOMAIN table \cup {key}
  BY PutDomain
<1>6. new[key] = value
  BY PutNew
<1>7. \A k \in DOMAIN table : k # key => new[k] = table[k]
  BY PutOld
<1>8. \A k \in DOMAIN table :
         \/ (\A j \in U : KeyOf(entries[j]) # k) /\ table[k] = body[k]
         \/ \E j \in U : Decides(f, entries, i, k, j) /\ table[k] = ValueReparsed(f[entries[j].at])
  BY DEF HasFollowed
<1>9. \A k, j : Decides(f, entries, i, k, j) <=>
         j \in U /\ KeyOf(entries[j]) = k /\ \A l \in U : KeyOf(entries[l]) = k => l <= j
  BY DEF Decides
<1>10. \A k, j : Decides(f, entries, e, k, j) <=>
         j \in V /\ KeyOf(entries[j]) = k /\ \A l \in V : KeyOf(entries[l]) = k => l <= j
  BY DEF Decides
<1>11. e \in Nat
  OBVIOUS
<1>12. key = KeyOf(entries[e]) /\ value = ValueReparsed(f[entries[e].at])
  OBVIOUS
<1> HIDE DEF U, V, new, key, value, e
<1>13. DOMAIN new = DOMAIN body \cup {KeyOf(entries[j]) : j \in V}
  BY <1>1, <1>4, <1>5, <1>12
<1>14. ASSUME NEW k \in DOMAIN new
       PROVE  \/ (\A j \in V : KeyOf(entries[j]) # k) /\ new[k] = body[k]
              \/ \E j \in V : Decides(f, entries, e, k, j) /\ new[k] = ValueReparsed(f[entries[j].at])
  <2>1. CASE k = key
    <3>1. Decides(f, entries, e, k, e)
      BY <1>1, <1>2, <1>10, <1>11, <1>12, <2>1
    <3> QED
      BY <1>1, <1>6, <1>12, <2>1, <3>1
  <2>2. CASE k # key
    <3>1. k \in DOMAIN table /\ new[k] = table[k]
      BY <1>5, <1>7, <2>2
    <3>2. CASE (\A j \in U : KeyOf(entries[j]) # k) /\ table[k] = body[k]
      BY <1>1, <1>12, <2>2, <3>1, <3>2
    <3>3. CASE \E j \in U : Decides(f, entries, i, k, j) /\ table[k] = ValueReparsed(f[entries[j].at])
      <4>1. PICK j \in U : Decides(f, entries, i, k, j) /\ table[k] = ValueReparsed(f[entries[j].at])
        BY <3>3
      <4>2. Decides(f, entries, e, k, j)
        BY <1>1, <1>9, <1>10, <1>12, <2>2, <4>1
      <4> QED
        BY <1>1, <3>1, <4>1, <4>2
    <3> QED
      BY <1>8, <3>1, <3>2, <3>3
  <2> QED
    BY <2>1, <2>2
<1>15. HasFollowed(f, body, entries, e, new)
  BY <1>3, <1>13, <1>14 DEF HasFollowed, V
<1> QED
  BY <1>15 DEF new, e, key, value

LEMMA FollowedSkipped ==
    ASSUME NEW f, NEW body, NEW entries, NEW n \in Nat, DOMAIN entries = 1..n,
           NEW i \in 0..n, i + 1 <= n, NEW table, HasFollowed(f, body, entries, i, table),
           ~EntryIsUsable(f, entries[i + 1])
    PROVE  HasFollowed(f, body, entries, i + 1, table)
<1>1. Usable(f, entries, i + 1) = Usable(f, entries, i)
  BY DEF Usable
<1> QED
  BY <1>1 DEF HasFollowed, Decides

LEMMA FollowedAll ==
    ASSUME NEW f, NEW body, NEW entries, NEW n \in Nat, DOMAIN entries = 1..n,
           NEW table, HasFollowed(f, body, entries, n, table)
    PROVE  table = Followed(f, body, entries)
<1> DEFINE U == {j \in DOMAIN entries : EntryIsUsable(f, entries[j])}
           Key(j) == <<entries[j].num, entries[j].gen>>
           Last(k) == CHOOSE j \in U : Key(j) = k /\ \A l \in U : Key(l) = k => l <= j
           over == [k \in {Key(j) : j \in U} |-> ValueReparsed(f[entries[Last(k)].at])]
<1>1. Followed(f, body, entries) = Overlay(body, over)
  BY DEF Followed
<1>2. Usable(f, entries, n) = U
  BY DEF Usable
<1>3. \A j : KeyOf(entries[j]) = Key(j)
  BY DEF KeyOf
<1>4. DOMAIN over = {Key(j) : j \in U}
  OBVIOUS
<1>5. DOMAIN table = DOMAIN body \cup DOMAIN over
  BY <1>2, <1>3, <1>4 DEF HasFollowed
<1>6. ASSUME NEW k \in DOMAIN table
      PROVE  table[k] = IF k \in DOMAIN over THEN over[k] ELSE body[k]
  <2>1. CASE (\A j \in U : Key(j) # k) /\ table[k] = body[k]
    BY <1>4, <2>1
  <2>2. CASE \E j \in U : Decides(f, entries, n, k, j) /\ table[k] = ValueReparsed(f[entries[j].at])
    <3>1. PICK j \in U : Decides(f, entries, n, k, j) /\ table[k] = ValueReparsed(f[entries[j].at])
      BY <2>2
    <3>2. Key(j) = k /\ \A l \in U : Key(l) = k => l <= j
      BY <1>2, <1>3, <3>1 DEF Decides
    <3>3. U \subseteq Nat
      OBVIOUS
    <3>4. Last(k) = j
      <4> DEFINE Greatest(x) == Key(x) = k /\ \A l \in U : Key(l) = k => l <= x
      <4>1. Last(k) = CHOOSE x \in U : Greatest(x)
        OBVIOUS
      <4>2. Greatest(j)
        BY <3>2
      <4> HIDE DEF U
      <4>3. ASSUME NEW x \in U, Greatest(x) PROVE x = j
        <5>1. x <= j /\ j <= x
          BY <3>1, <3>2, <4>3
        <5>2. x \in Nat /\ j \in Nat
          BY <3>3
        <5> QED
          BY <5>1, <5>2
      <4> HIDE DEF Greatest, Last
      <4> QED
        BY <4>1, <4>2, <4>3
    <3>5. k \in {Key(l) : l \in U}
      BY <3>1, <3>2
    <3>6. over[k] = ValueReparsed(f[entries[Last(k)].at])
      BY <3>5
    <3> QED
      BY <1>4, <3>1, <3>4, <3>5, <3>6
  <2>3. \/ (\A j \in U : KeyOf(entries[j]) # k) /\ table[k] = body[k]
        \/ \E j \in U : Decides(f, entries, n, k, j) /\ table[k] = ValueReparsed(f[entries[j].at])
    BY <1>2 DEF HasFollowed
  <2> QED
    BY <1>3, <2>1, <2>2, <2>3
<1>7. table = [k \in DOMAIN table |-> table[k]]
  BY DEF HasFollowed
<1> HIDE DEF over
<1>8. Overlay(body, over) = [k \in DOMAIN table |-> IF k \in DOMAIN over THEN over[k] ELSE body[k]]
  BY <1>5 DEF Overlay
<1> QED
  BY <1>1, <1>6, <1>7, <1>8

-----------------------------------------------------------------------------
(***************************************************************************)
(* The entries are followed one after the other                            *)
(***************************************************************************)

\* What is left of a sequence of length n behind its first i elements.
IsRest(rest, s, n, i) ==
    /\ \E S : rest \in Seq(S)
    /\ Len(rest) = n - i
    /\ \A j \in 1..Len(rest) : rest[j] = s[i + j]

\* The table follows i of n entries, and the answer is the table that follows them all.
FollowsSome(f, table, rest, target, body, entries, n, i) ==
    /\ n \in Nat
    /\ i \in 0..n
    /\ DOMAIN entries = 1..n
    /\ Outcome(f) = Answered(Followed(f, body, entries), target)
    /\ HasFollowed(f, body, entries, i, table)
    /\ IsRest(rest, entries, n, i)

Following(f, table, rest, target) ==
    \E body, entries, n, i : FollowsSome(f, table, rest, target, body, entries, n, i)

LEMMA RestShrinks ==
    ASSUME NEW s, NEW n \in Nat, NEW i \in 0..n, NEW rest, IsRest(rest, s, n, i), rest # <<>>
    PROVE  i + 1 <= n /\ Head(rest) = s[i + 1] /\ IsRest(Tail(rest), s, n, i + 1)
<1>1. PICK S : rest \in Seq(S)
  BY DEF IsRest
<1>2. Len(rest) = n - i /\ \A j \in 1..Len(rest) : rest[j] = s[i + j]
  BY DEF IsRest
<1>3. Len(rest) \in Nat /\ Len(rest) # 0
  BY <1>1, EmptySeq, LenProperties
<1>4. i + 1 <= n
  BY <1>2, <1>3
<1>5. Head(rest) = rest[1]
  BY <1>1, <1>3
<1>6. rest[1] = s[i + 1]
  BY <1>2, <1>3
<1>7. /\ Tail(rest) \in Seq(S)
      /\ Len(Tail(rest)) = Len(rest) - 1
      /\ \A j \in 1..Len(Tail(rest)) : Tail(rest)[j] = rest[j + 1]
  BY <1>1, HeadTailProperties
<1> DEFINE tail == Tail(rest)
           m == Len(rest)
<1>8. tail \in Seq(S) /\ Len(tail) = m - 1 /\ (\A j \in 1..(m - 1) : tail[j] = rest[j + 1])
  BY <1>7
<1> HIDE DEF tail
<1>9. Len(tail) = n - (i + 1)
  BY <1>2, <1>8
<1>10. ASSUME NEW j \in 1..Len(tail) PROVE tail[j] = s[(i + 1) + j]
  <2>1. j \in 1..(m - 1)
    BY <1>8
  <2>2. tail[j] = rest[j + 1]
    BY <1>8, <2>1
  <2>3. j + 1 \in 1..Len(rest)
    BY <1>3, <2>1
  <2>4. rest[j + 1] = s[i + (j + 1)]
    BY <1>2, <2>3
  <2>5. i + (j + 1) = (i + 1) + j
    BY <2>1
  <2> QED
    BY <2>2, <2>4, <2>5
<1>11. IsRest(tail, s, n, i + 1)
  BY <1>8, <1>9, <1>10 DEF IsRest
<1> QED
  BY <1>4, <1>5, <1>6, <1>11 DEF tail

LEMMA FollowingUsable ==
    ASSUME NEW f, NEW table, NEW rest, NEW target, Following(f, table, rest, target),
           rest # <<>>, EntryIsUsable(f, Head(rest))
    PROVE  Following(f, Put(table, <<Head(rest).num, Head(rest).gen>>, ValueReparsed(f[Head(rest).at])),
                     Tail(rest), target)
<1>1. PICK body, entries, n, i : FollowsSome(f, table, rest, target, body, entries, n, i)
  BY Zenon DEF Following
<1>2. /\ n \in Nat
      /\ i \in 0..n
      /\ DOMAIN entries = 1..n
      /\ Outcome(f) = Answered(Followed(f, body, entries), target)
      /\ HasFollowed(f, body, entries, i, table)
      /\ IsRest(rest, entries, n, i)
  BY <1>1, Zenon DEF FollowsSome
<1>3. i + 1 <= n /\ Head(rest) = entries[i + 1] /\ IsRest(Tail(rest), entries, n, i + 1)
  BY <1>2, RestShrinks
<1>4. EntryIsUsable(f, entries[i + 1])
  BY <1>3
<1>5. HasFollowed(f, body, entries, i + 1,
                  Put(table, KeyOf(entries[i + 1]), ValueReparsed(f[entries[i + 1].at])))
  BY <1>2, <1>3, <1>4, FollowedUsable
<1>6. KeyOf(entries[i + 1]) = <<Head(rest).num, Head(rest).gen>>
  BY <1>3 DEF KeyOf
<1>7. HasFollowed(f, body, entries, i + 1,
                  Put(table, <<Head(rest).num, Head(rest).gen>>, ValueReparsed(f[Head(rest).at])))
  BY <1>3, <1>5, <1>6, Zenon
<1>8. i + 1 \in 0..n
  BY <1>2, <1>3
<1> QED
  BY <1>2, <1>3, <1>7, <1>8, Zenon DEF Following, FollowsSome

LEMMA FollowingSkipped ==
    ASSUME NEW f, NEW table, NEW rest, NEW target, Following(f, table, rest, target),
           rest # <<>>, ~EntryIsUsable(f, Head(rest))
    PROVE  Following(f, table, Tail(rest), target)
<1>1. PICK body, entries, n, i : FollowsSome(f, table, rest, target, body, entries, n, i)
  BY Zenon DEF Following
<1>2. /\ n \in Nat
      /\ i \in 0..n
      /\ DOMAIN entries = 1..n
      /\ Outcome(f) = Answered(Followed(f, body, entries), target)
      /\ HasFollowed(f, body, entries, i, table)
      /\ IsRest(rest, entries, n, i)
  BY <1>1, Zenon DEF FollowsSome
<1>3. i + 1 <= n /\ Head(rest) = entries[i + 1] /\ IsRest(Tail(rest), entries, n, i + 1)
  BY <1>2, RestShrinks
<1>4. ~EntryIsUsable(f, entries[i + 1])
  BY <1>3
<1>5. HasFollowed(f, body, entries, i + 1, table)
  BY <1>2, <1>3, <1>4, FollowedSkipped
<1>6. i + 1 \in 0..n
  BY <1>2, <1>3
<1> QED
  BY <1>2, <1>3, <1>5, <1>6, Zenon DEF Following, FollowsSome

LEMMA FollowingEnds ==
    ASSUME NEW f, NEW table, NEW target, Following(f, table, <<>>, target)
    PROVE  Outcome(f) = Answered(table, target)
<1>1. PICK body, entries, n, i : FollowsSome(f, table, <<>>, target, body, entries, n, i)
  BY Zenon DEF Following
<1>2. /\ n \in Nat
      /\ i \in 0..n
      /\ DOMAIN entries = 1..n
      /\ Outcome(f) = Answered(Followed(f, body, entries), target)
      /\ HasFollowed(f, body, entries, i, table)
      /\ IsRest(<<>>, entries, n, i)
  BY <1>1, Zenon DEF FollowsSome
<1>3. Len(<<>>) = n - i
  BY <1>2, Zenon DEF IsRest
<1>4. i = n
  BY <1>2, <1>3
<1>5. HasFollowed(f, body, entries, n, table)
  BY <1>2, <1>4
<1>6. table = Followed(f, body, entries)
  BY <1>2, <1>5, FollowedAll
<1> QED
  BY <1>2, <1>6

LEMMA FollowingStarts ==
    ASSUME NEW f, NEW table, table = [k \in DOMAIN table |-> table[k]],
           NEW entries, IsSequence(entries), NEW target,
           Outcome(f) = Answered(Followed(f, table, entries), target)
    PROVE  Following(f, table, entries, target)
<1>1. entries \in Seq({entries[k] : k \in DOMAIN entries})
  BY DEF IsSequence
<1>2. PICK n \in Nat : n = Len(entries) /\ DOMAIN entries = 1..n
  BY <1>1
<1>3. HasFollowed(f, table, entries, 0, table)
  BY <1>2, FollowedNone
<1>4. Len(entries) = n - 0 /\ 0 \in 0..n
  BY <1>2
<1>5. \A j \in 1..Len(entries) : entries[j] = entries[0 + j]
  BY <1>2
<1>6. IsRest(entries, entries, n, 0)
  BY <1>1, <1>4, <1>5, Zenon DEF IsRest
<1> QED
  BY <1>2, <1>3, <1>4, <1>6, Zenon DEF Following, FollowsSome

-----------------------------------------------------------------------------
(***************************************************************************)
(* The passes agree with the table                                         *)
(***************************************************************************)

\* Every phase is on the way to the answer of the table.
Agrees ==
    /\ phase \in {"linear", "trailer"} =>
          WasRead(file, at) /\ objects = [k \in DOMAIN objects |-> objects[k]]
    /\ phase = "trailer" => PassIsOver
    /\ phase = "xref" => Following(file, objects, todo, root)
    /\ phase = "root" => Outcome(file) = Answered(objects, root)
    /\ phase = "ok" => Outcome(file) = [status |-> "ok", objects |-> objects, root |-> root]
    /\ phase = "err" => Outcome(file) = Failed
    /\ phase = "panic" => Outcome(file) = Aborted

\* A length that no word can count does not fit the data.
LEMMA AbortedIsRejected ==
    ASSUME NEW item, Aborts(item)
    PROVE  IsRejected(item)
<1>1. item.kind = "stream" /\ item.length = -3
  BY DEF Aborts, Saturated
<1>2. ~LengthFits(item)
  BY <1>1 DEF LengthFits
<1>3. item.length \notin {Missing, Outside}
  BY <1>1 DEF Missing, Outside
<1> QED
  BY <1>1, <1>2, <1>3 DEF StreamIsRead, IsRejected

\* The first item that the pass cannot get by is the first in the body, and the table
\* ends in the same way.
LEMMA RejectedItem ==
    ASSUME Inv, Agrees, AtItem, IsRejected(file[at])
    PROVE  Outcome(file) = IF Aborts(file[at]) THEN Aborted ELSE Failed
<1>1. at \in DOMAIN file /\ phase = "linear" /\ DOMAIN file = 1..Len(file)
  BY ItemIsInFile, FileIsOrdered DEF Inv
<1>2. IsRejected(file[at])
  OBVIOUS
<1>3. ~IsMark(file[at])
  BY <1>2 DEF IsRejected, IsMark
<1>4. ASSUME NEW e \in DOMAIN file, IsMark(file[e]) PROVE at < e
  <2>1. e \notin 1..(at - 1) /\ e # at
    BY <1>1, <1>3, <1>4 DEF Agrees, WasRead
  <2>2. e \in Nat /\ at \in Nat /\ 1 <= e
    BY <1>1
  <2> QED
    BY <2>1, <2>2
<1>5. at \in Body(file)
  BY <1>1, <1>4 DEF Body, IsMark
<1>6. ASSUME NEW q \in Body(file), IsRejected(file[q]) PROVE at <= q
  <2>1. q \in 1..Len(file) /\ q \notin 1..(at - 1)
    BY <1>1, <1>6 DEF Agrees, WasRead, Body
  <2> QED
    BY <1>1, <2>1
<1>7. \A p \in Body(file) : p \in 1..Len(file)
  BY <1>1 DEF Body
<1>8. ASSUME NEW p \in Body(file), IsRejected(file[p]),
             \A q \in Body(file) : IsRejected(file[q]) => p <= q
      PROVE  p = at
  BY <1>1, <1>2, <1>5, <1>6, <1>7, <1>8
<1>9. FirstRejected(file) = at
  BY <1>2, <1>5, <1>6, <1>8 DEF FirstRejected
<1> QED
  BY <1>2, <1>5, <1>9, Zenon DEF Outcome

\* The declarative answer, in the terms of the place where the pass has stopped.
LEMMA OutcomeAtTrailer ==
    ASSUME Inv, NewestIsKept, Agrees, phase = "trailer"
    PROVE  LET stream == objects[FirstXRefKey(objects)] IN
           /\ TrailerPlace # 0 /\ TrailerParses(file[TrailerPlace])
                => Outcome(file) = Answered(objects, file[TrailerPlace].root)
           /\ TrailerPlace # 0 /\ ~TrailerParses(file[TrailerPlace]) => Outcome(file) = Failed
           /\ TrailerPlace = 0 /\ ~XRefStreamIsUsable => Outcome(file) = Failed
           /\ TrailerPlace = 0 /\ XRefStreamIsUsable
                => Outcome(file) = Answered(Followed(file, objects, stream.holds.entries), stream.holds.root)
<1>0. PICK n \in Nat : n = Len(file) /\ DOMAIN file = 1..n
  BY FileIsOrdered DEF Inv
<1>1. at \in 1..(n + 1)
  BY <1>0 DEF Inv, TypeOK
<1>2. at <= n => IsMark(file[at])
  BY <1>0 DEF Agrees, PassIsOver, IsMark
<1>3. WasRead(file, at) /\ objects = [k \in DOMAIN objects |-> objects[k]]
  BY DEF Agrees
<1>4. Body(file) = 1..(at - 1)
  BY <1>0, <1>1, <1>2, <1>3, BodyBefore
<1>5. KeepsNewest(file, objects, at)
  BY NewestIsKeepsNewest
<1>6. BodyObjects(file) = objects
  BY <1>0, <1>1, <1>3, <1>4, <1>5, TableOfBody
<1>7. ~\E p \in Body(file) : IsRejected(file[p])
  BY <1>3, <1>4 DEF WasRead
<1>8. \/ TrailerPlace = 0 /\ TrailerOf(file) = {}
      \/ TrailerPlace \in DOMAIN file /\ TrailerOf(file) = {TrailerPlace}
  BY <1>4, TrailerFound
<1> DEFINE stream == objects[FirstXRefKey(objects)]
           found == CHOOSE p \in TrailerOf(file) : TRUE
<1>9. Outcome(file) =
         IF TrailerOf(file) # {}
         THEN IF TrailerParses(file[found]) THEN Answered(objects, file[found].root) ELSE Failed
         ELSE IF XRefKeys(objects) = {} \/ ~XRefIsUsable(stream) THEN Failed
         ELSE Answered(Followed(file, objects, stream.holds.entries), stream.holds.root)
  BY <1>6, <1>7 DEF Outcome
<1>10. CASE TrailerPlace = 0 /\ TrailerOf(file) = {}
  BY <1>9, <1>10 DEF XRefStreamIsUsable
<1>11. CASE TrailerPlace \in DOMAIN file /\ TrailerOf(file) = {TrailerPlace}
  <2>1. TrailerPlace # 0
    BY <1>0, <1>11
  <2>2. found = TrailerPlace
    BY <1>11
  <2> HIDE DEF found, stream
  <2> QED
    BY <1>9, <1>11, <2>1, <2>2 DEF stream
<1> QED
  BY <1>8, <1>10, <1>11

\* The stream that serves as a trailer is in the table, and its entries are in order.
LEMMA XRefStreamIsOrdered ==
    ASSUME Inv, NewestIsKept, phase = "trailer", XRefStreamIsUsable
    PROVE  IsSequence(objects[FirstXRefKey(objects)].holds.entries)
<1> DEFINE K == XRefKeys(objects)
<1>1. KeepsNewest(file, objects, at)
  BY NewestIsKeepsNewest
<1>2. ASSUME NEW k \in DOMAIN objects
      PROVE  \E p \in DOMAIN file : IsObject(file[p]) /\ k \in DOMAIN Insertions(file[p])
                                    /\ objects[k] = Insertions(file[p])[k]
  BY <1>1 DEF KeepsNewest, IsNewest
<1>3. ASSUME NEW k \in DOMAIN objects
      PROVE  /\ k \in Nat \X Nat
             /\ objects[k].kind = "Stream" /\ objects[k].type = "XRef"
                   => IsSequence(objects[k].holds.entries)
  <2>1. PICK p \in DOMAIN file : IsObject(file[p]) /\ k \in DOMAIN Insertions(file[p])
                                 /\ objects[k] = Insertions(file[p])[k]
    BY <1>2
  <2>2. file \in Files
    BY DEF Inv
  <2> QED
    BY <2>1, <2>2, FilesAssumption, Zenon
<1>4. K # {} /\ \A k \in K : k \in DOMAIN objects
                             /\ objects[k].kind = "Stream" /\ objects[k].type = "XRef"
  BY DEF XRefStreamIsUsable, XRefKeys
<1>5. FirstXRefKey(objects) = CHOOSE k \in K : \A l \in K \ {k} : Before(k, l)
  BY DEF FirstXRefKey
<1> HIDE DEF K
<1>6. K \in SUBSET (Nat \X Nat)
  BY <1>3, <1>4
<1>7. PICK k \in K : \A l \in K \ {k} : Before(k, l)
  BY <1>4, <1>6, LeastKey
<1>8. FirstXRefKey(objects) \in K
  BY <1>5, <1>7, Zenon
<1> QED
  BY <1>3, <1>4, <1>8

LEMMA AgreesInitially == Init => Agrees
<1> SUFFICES ASSUME Init PROVE Agrees
  OBVIOUS
<1>1. objects = [k \in DOMAIN objects |-> objects[k]]
  BY DEF Init, EmptyMap
<1>2. WasRead(file, at)
  BY DEF Init, WasRead
<1> QED
  BY <1>1, <1>2 DEF Init, Agrees

\* The pass steps over an item.
LEMMA WasReadGrows ==
    ASSUME Inv, WasRead(file, at), AtItem, ~IsRejected(file[at])
    PROVE  WasRead(file, at + 1)
<1>1. Len(file) \in Nat /\ at \in 1..Len(file) /\ ~IsMark(file[at])
  BY ItemIsInFile, FileIsOrdered DEF AtItem, PassIsOver, IsMark, Inv
<1>2. \A p \in 1..((at + 1) - 1) : p \in 1..(at - 1) \/ p = at
  BY <1>1
<1> QED
  BY <1>1, <1>2 DEF WasRead

LEMMA AgreesPreserved == Inv /\ NewestIsKept /\ Agrees /\ [Next]_vars => Agrees'
<1> SUFFICES ASSUME Inv, NewestIsKept, Agrees, [Next]_vars PROVE Agrees'
  OBVIOUS
<1>1. CASE SkipStartXref
  <2>1. phase = "linear" /\ phase' = "linear" /\ file' = file /\ objects' = objects /\ at' = at + 1
    BY <1>1 DEF SkipStartXref, AtItem
  <2>2. ~IsRejected(file[at])
    BY <1>1 DEF SkipStartXref, IsRejected
  <2>3. WasRead(file, at) /\ objects = [k \in DOMAIN objects |-> objects[k]]
    BY <2>1 DEF Agrees
  <2>4. WasRead(file, at + 1)
    BY <1>1, <2>2, <2>3, WasReadGrows DEF SkipStartXref
  <2>5. WasRead(file', at') /\ objects' = [k \in DOMAIN objects' |-> objects'[k]]
    BY <2>1, <2>3, <2>4
  <2> QED
    BY <2>1, <2>5 DEF Agrees
<1>2. CASE ParseObject
  <2>1. /\ phase = "linear" /\ phase' = "linear" /\ file' = file /\ at' = at + 1
        /\ objects' = Overlay(objects, Insertions(file[at]))
    BY <1>2 DEF ParseObject, AtItem
  <2>2. WasRead(file, at)
    BY <2>1 DEF Agrees
  <2>3. WasRead(file, at + 1)
    BY <1>2, <2>2, WasReadGrows DEF ParseObject
  <2>4. objects' = [k \in DOMAIN objects' |-> objects'[k]]
    BY <2>1 DEF Overlay
  <2> QED
    BY <2>1, <2>3, <2>4 DEF Agrees
<1>3. CASE RejectItem
  <2>1. Outcome(file) = Failed
    BY <1>3, RejectedItem DEF RejectItem
  <2>2. phase' = "err" /\ file' = file
    BY <1>3 DEF RejectItem, Fail
  <2> QED
    BY <2>1, <2>2 DEF Agrees
<1>15. CASE AbortAtItem
  <2>1. IsRejected(file[at])
    BY <1>15, AbortedIsRejected DEF AbortAtItem
  <2>2. Outcome(file) = Aborted
    BY <1>15, <2>1, RejectedItem DEF AbortAtItem
  <2>3. phase' = "panic" /\ file' = file
    BY <1>15 DEF AbortAtItem
  <2> QED
    BY <2>2, <2>3 DEF Agrees
<1>4. CASE EndPass
  <2>1. /\ phase = "linear" /\ phase' = "trailer" /\ PassIsOver
        /\ file' = file /\ at' = at /\ objects' = objects
    BY <1>4 DEF EndPass
  <2>2. WasRead(file, at) /\ objects = [k \in DOMAIN objects |-> objects[k]]
    BY <2>1 DEF Agrees
  <2>3. PassIsOver'
    BY <2>1 DEF PassIsOver
  <2> QED
    BY <2>1, <2>2, <2>3 DEF Agrees
<1>5. CASE ReadTrailer
  <2>1. /\ phase = "trailer" /\ phase' = "root" /\ file' = file /\ objects' = objects
        /\ TrailerPlace # 0 /\ TrailerParses(file[TrailerPlace]) /\ root' = file[TrailerPlace].root
    BY <1>5 DEF ReadTrailer
  <2>2. Outcome(file) = Answered(objects, file[TrailerPlace].root)
    BY <2>1, OutcomeAtTrailer
  <2>3. Outcome(file') = Answered(objects', root')
    BY <2>1, <2>2
  <2> QED
    BY <2>1, <2>3 DEF Agrees
<1>6. CASE RejectTrailer
  <2>1. /\ phase = "trailer" /\ phase' = "err" /\ file' = file
        /\ TrailerPlace # 0 /\ ~TrailerParses(file[TrailerPlace])
    BY <1>6 DEF RejectTrailer, Fail
  <2>2. Outcome(file) = Failed
    BY <2>1, OutcomeAtTrailer
  <2> QED
    BY <2>1, <2>2 DEF Agrees
<1>7. CASE OpenXRefStream
  <2> DEFINE stream == objects[FirstXRefKey(objects)]
  <2>1. /\ phase = "trailer" /\ phase' = "xref" /\ file' = file /\ objects' = objects
        /\ TrailerPlace = 0 /\ XRefStreamIsUsable
        /\ todo' = stream.holds.entries /\ root' = stream.holds.root
    BY <1>7 DEF OpenXRefStream
  <2>2. Outcome(file) = Answered(Followed(file, objects, stream.holds.entries), stream.holds.root)
    BY <2>1, OutcomeAtTrailer
  <2>3. IsSequence(stream.holds.entries)
    BY <2>1, XRefStreamIsOrdered
  <2>4. objects = [k \in DOMAIN objects |-> objects[k]]
    BY <2>1 DEF Agrees
  <2> HIDE DEF stream
  <2>5. Following(file, objects, stream.holds.entries, stream.holds.root)
    BY <2>2, <2>3, <2>4, FollowingStarts
  <2>6. Following(file', objects', todo', root')
    BY <2>1, <2>5
  <2> QED
    BY <2>1, <2>6 DEF Agrees
<1>8. CASE RejectXRefStream
  <2>1. /\ phase = "trailer" /\ phase' = "err" /\ file' = file
        /\ TrailerPlace = 0 /\ ~XRefStreamIsUsable
    BY <1>8 DEF RejectXRefStream, Fail
  <2>2. Outcome(file) = Failed
    BY <2>1, OutcomeAtTrailer
  <2> QED
    BY <2>1, <2>2 DEF Agrees
<1>9. CASE FollowEntry
  <2>1. /\ phase = "xref" /\ phase' = "xref" /\ file' = file /\ root' = root
        /\ todo # <<>> /\ EntryIsUsable(file, Head(todo)) /\ todo' = Tail(todo)
        /\ objects' = Put(objects, <<Head(todo).num, Head(todo).gen>>,
                          ValueReparsed(file[Head(todo).at]))
    BY <1>9 DEF FollowEntry
  <2>2. Following(file, objects, todo, root)
    BY <2>1 DEF Agrees
  <2>3. Following(file', objects', todo', root')
    BY <2>1, <2>2, FollowingUsable
  <2> QED
    BY <2>1, <2>3 DEF Agrees
<1>10. CASE SkipEntry
  <2>1. /\ phase = "xref" /\ phase' = "xref" /\ file' = file /\ root' = root /\ objects' = objects
        /\ todo # <<>> /\ ~EntryIsUsable(file, Head(todo)) /\ todo' = Tail(todo)
    BY <1>10 DEF SkipEntry
  <2>2. Following(file, objects, todo, root)
    BY <2>1 DEF Agrees
  <2>3. Following(file', objects', todo', root')
    BY <2>1, <2>2, FollowingSkipped
  <2> QED
    BY <2>1, <2>3 DEF Agrees
<1>11. CASE EndXRef
  <2>1. /\ phase = "xref" /\ phase' = "root" /\ file' = file /\ root' = root /\ objects' = objects
        /\ todo = <<>>
    BY <1>11 DEF EndXRef
  <2>2. Following(file, objects, <<>>, root)
    BY <2>1 DEF Agrees
  <2>3. Outcome(file') = Answered(objects', root')
    BY <2>1, <2>2, FollowingEnds
  <2> QED
    BY <2>1, <2>3 DEF Agrees
<1>12. CASE ReadRoot
  <2>1. /\ phase = "root" /\ phase' = "ok" /\ root.kind = "Reference"
        /\ file' = file /\ root' = root /\ objects' = objects
    BY <1>12 DEF ReadRoot
  <2>2. Outcome(file) = Answered(objects, root)
    BY <2>1 DEF Agrees
  <2>3. Outcome(file') = [status |-> "ok", objects |-> objects', root |-> root']
    BY <2>1, <2>2 DEF Answered
  <2> QED
    BY <2>1, <2>3 DEF Agrees
<1>13. CASE RejectRoot
  <2>1. phase = "root" /\ phase' = "err" /\ root.kind # "Reference" /\ file' = file
    BY <1>13 DEF RejectRoot, Fail
  <2>2. Outcome(file) = Answered(objects, root)
    BY <2>1 DEF Agrees
  <2>3. Outcome(file') = Failed
    BY <2>1, <2>2 DEF Answered
  <2> QED
    BY <2>1, <2>3 DEF Agrees
<1>14. CASE UNCHANGED vars
  <2>1. /\ file' = file /\ at' = at /\ objects' = objects /\ todo' = todo /\ root' = root
        /\ phase' = phase
    BY <1>14 DEF vars
  <2> QED
    BY <2>1 DEF Agrees, PassIsOver
<1> QED
  BY <1>1, <1>2, <1>3, <1>4, <1>5, <1>6, <1>7, <1>8, <1>9, <1>10, <1>11, <1>12, <1>13, <1>14, <1>15, Zenon
  DEF Next

\* Only the last steps are seen by the caller, and they give the answer of the table.
LEMMA StepAnswersTheTable == Agrees /\ Agrees' /\ [Next]_vars => [Table!Answer]_Table!answerVars
<1> SUFFICES ASSUME Agrees, Agrees', [Next]_vars PROVE Table!Answer \/ UNCHANGED Table!answerVars
  OBVIOUS
<1>1. CASE ReadRoot
  <2>1. phase = "root" /\ phase' = "ok" /\ file' = file
    BY <1>1 DEF ReadRoot
  <2>2. Outcome(file') = [status |-> "ok", objects |-> objects', root |-> root']
    BY <2>1 DEF Agrees
  <2> QED
    BY <2>1, <2>2 DEF Table!Answer, Pending, Ends
<1>2. CASE RejectItem \/ RejectTrailer \/ RejectXRefStream \/ RejectRoot
  <2>1. phase \notin Ends /\ phase' = "err" /\ file' = file
    BY <1>2 DEF RejectItem, RejectTrailer, RejectXRefStream, RejectRoot, Fail, AtItem, Ends
  <2>2. Outcome(file') = Failed
    BY <2>1 DEF Agrees
  <2> QED
    BY <2>1, <2>2 DEF Table!Answer, Pending, Failed, Ends
<1>5. CASE AbortAtItem
  <2>1. phase \notin Ends /\ phase' = "panic" /\ file' = file
    BY <1>5 DEF AbortAtItem, AtItem, Ends
  <2>2. Outcome(file') = Aborted
    BY <2>1 DEF Agrees
  <2> QED
    BY <2>1, <2>2 DEF Table!Answer, Pending, Aborted, Ends
<1>3. CASE \/ SkipStartXref \/ ParseObject \/ EndPass \/ ReadTrailer
           \/ OpenXRefStream \/ FollowEntry \/ SkipEntry \/ EndXRef
  <2>1. phase \notin Ends /\ phase' \notin Ends /\ file' = file
    BY <1>3 DEF SkipStartXref, ParseObject, EndPass, ReadTrailer, OpenXRefStream, FollowEntry,
                SkipEntry, EndXRef, AtItem, Ends
  <2> QED
    BY <2>1 DEF Table!answerVars, Ends
<1>4. CASE UNCHANGED vars
  BY <1>4 DEF vars, Table!answerVars
<1> QED
  BY <1>1, <1>2, <1>3, <1>4, <1>5, Zenon DEF Next

\* For every file, of any length and any mixture of items, the passes of parse_pdf
\* answer once and for all what the declarative table says: the newest definitions of
\* the body, overridden by the last usable entries of the cross-reference stream that
\* serves as a trailer, the root of that trailer, and an error or a panic for the same files.
THEOREM Refinement == Spec => AnswersTheTable
<1>1. Init => Table!Init
  BY DEF Init, Table!Init, Pending, Ends
<1>2. Inv /\ NewestIsKept /\ Agrees /\ Agrees' /\ [Next]_vars => [Table!Answer]_Table!answerVars
  BY StepAnswersTheTable
<1> QED
  BY <1>1, <1>2, Invariance, UpdatesOverride, AgreesInitially, AgreesPreserved, PTL
  DEF Spec, AnswersTheTable, Table!Spec

-----------------------------------------------------------------------------
(***************************************************************************)
(* Every step leaves less to be done                                       *)
(***************************************************************************)

PhasesAhead ==
    CASE phase = "linear" -> 4 [] phase = "trailer" -> 3 [] phase = "xref" -> 2
      [] phase = "root" -> 1 [] OTHER -> 0

\* The items of the file, or the entries of the cross-reference stream, not yet looked at.
ItemsAhead ==
    IF phase = "linear" THEN Len(file) + 1 - at
    ELSE IF phase = "xref" THEN Len(todo) ELSE 0

LessThan == OpToRel(<, Nat)
LexicalLess == LexPairOrdering(LessThan, LessThan, Nat, Nat)

LeavesLess == <<<<PhasesAhead', ItemsAhead'>>, <<PhasesAhead, ItemsAhead>>>> \in LexicalLess

\* No sequence goes down in the lexicographic order for ever.
LEMMA LexicalOrderIsWellFounded == IsWellFoundedOn(LexicalLess, Nat \X Nat)
BY NatLessThanWellFounded, WFLexPairOrdering DEF LexicalLess, LessThan

\* The first number that differs decides.
LEMMA LessBefore ==
    ASSUME NEW a \in Nat, NEW b \in Nat, NEW x \in Nat, NEW y \in Nat, a < x \/ (a = x /\ b < y)
    PROVE  <<<<a, b>>, <<x, y>>>> \in LexicalLess
BY DEF LexicalLess, LexPairOrdering, LessThan, OpToRel

LEMMA EntriesAreListed ==
    ASSUME Agrees, phase = "xref"
    PROVE  \E S : todo \in Seq(S)
BY DEF Agrees, Following, FollowsSome, IsRest

LEMMA AheadType ==
    ASSUME Inv, Agrees
    PROVE  PhasesAhead \in Nat /\ ItemsAhead \in Nat
<1>1. PhasesAhead \in Nat
  BY DEF PhasesAhead
<1>2. Len(file) \in Nat /\ at \in 1..(Len(file) + 1)
  BY FileIsOrdered DEF Inv, TypeOK
<1>3. CASE phase = "xref"
  <2>1. PICK S : todo \in Seq(S)
    BY <1>3, EntriesAreListed
  <2> QED
    BY <1>1, <1>3, <2>1 DEF ItemsAhead
<1>4. CASE phase # "xref"
  BY <1>1, <1>2, <1>4 DEF ItemsAhead
<1> QED
  BY <1>3, <1>4

LEMMA StepDescends ==
    ASSUME Inv, Agrees, Next
    PROVE  \/ PhasesAhead' < PhasesAhead
           \/ PhasesAhead' = PhasesAhead /\ ItemsAhead' < ItemsAhead
<1>1. CASE SkipStartXref \/ ParseObject
  <2>1. phase = "linear" /\ at' = at + 1 /\ UNCHANGED <<file, phase>>
    BY <1>1 DEF SkipStartXref, ParseObject, AtItem
  <2>2. Len(file) \in Nat /\ at \in 1..(Len(file) + 1)
    BY FileIsOrdered DEF Inv, TypeOK
  <2>3. PhasesAhead' = PhasesAhead
    BY <2>1 DEF PhasesAhead
  <2>4. ItemsAhead = Len(file) + 1 - at /\ ItemsAhead' = Len(file) + 1 - (at + 1)
    BY <2>1 DEF ItemsAhead
  <2> QED
    BY <2>2, <2>3, <2>4
<1>2. CASE FollowEntry \/ SkipEntry
  <2>1. phase = "xref" /\ phase' = phase /\ todo # <<>> /\ todo' = Tail(todo)
    BY <1>2 DEF FollowEntry, SkipEntry
  <2>2. PICK S : todo \in Seq(S)
    BY <2>1, EntriesAreListed
  <2>3. Len(todo) \in Nat /\ Len(todo') = Len(todo) - 1
    BY <2>1, <2>2, HeadTailProperties
  <2>4. PhasesAhead' = PhasesAhead
    BY <2>1 DEF PhasesAhead
  <2>5. ItemsAhead = Len(todo) /\ ItemsAhead' = Len(todo')
    BY <2>1 DEF ItemsAhead
  <2> QED
    BY <2>3, <2>4, <2>5
<1>3. CASE EndPass
  BY <1>3 DEF EndPass, PhasesAhead
<1>4. CASE ReadTrailer \/ OpenXRefStream
  BY <1>4 DEF ReadTrailer, OpenXRefStream, PhasesAhead
<1>5. CASE EndXRef \/ ReadRoot
  BY <1>5 DEF EndXRef, ReadRoot, PhasesAhead
<1>6. CASE RejectItem \/ RejectTrailer \/ RejectXRefStream \/ RejectRoot
  BY <1>6 DEF RejectItem, RejectTrailer, RejectXRefStream, RejectRoot, AtItem, Fail, PhasesAhead
<1>7. CASE AbortAtItem
  BY <1>7 DEF AbortAtItem, AtItem, PhasesAhead
<1> QED
  BY <1>1, <1>2, <1>3, <1>4, <1>5, <1>6, <1>7 DEF Next

\* Whatever the file holds, each step of parse_pdf looks at one item or one entry more, or
\* goes on to a later phase: a keyword that is recognised is also stepped over.
THEOREM EveryStepLeavesLessAhead ==
    /\ Spec => [][LeavesLess]_vars
    /\ IsWellFoundedOn(LexicalLess, Nat \X Nat)
<1>1. Inv /\ Inv' /\ Agrees /\ Agrees' /\ [Next]_vars => [LeavesLess]_vars
  <2> SUFFICES ASSUME Inv, Inv', Agrees, Agrees', Next PROVE LeavesLess
    OBVIOUS
  <2>1. PhasesAhead \in Nat /\ ItemsAhead \in Nat
    BY AheadType
  <2>2. (Inv /\ Agrees => PhasesAhead \in Nat /\ ItemsAhead \in Nat)'
    BY AheadType, PTL
  <2>3. PhasesAhead' \in Nat /\ ItemsAhead' \in Nat
    BY <2>2
  <2> QED
    BY <2>1, <2>3, StepDescends, LessBefore DEF LeavesLess
<1>2. Spec => [][LeavesLess]_vars
  BY <1>1, Invariance, UpdatesOverride, AgreesInitially, AgreesPreserved, PTL DEF Spec
<1> QED
  BY <1>2, LexicalOrderIsWellFounded
=============================================================================
