---------------------- MODULE SignatureVerifier_proofs ----------------------
(***************************************************************************)
(* Proofs about SignatureVerifier, for every file and every width of a     *)
(* word: an answer of true or false is about the two segments that the     *)
(* numbers of /ByteRange name, no sum of them has wrapped, true rests on a *)
(* digest and a signature that have been compared, and the container that  *)
(* they were taken from is one in which a signer has signed these cells.   *)
(***************************************************************************)
EXTENDS SignatureVerifier, SequenceTheorems, WellFoundedInduction, TLAPS

\* extract_signature_hex has found a gap between the segments.
HasGap ==
    /\ End(range.offset1, range.length1) < range.offset2
    /\ range.offset2 <= Len(file)

IInv ==
    /\ file \in Files
    /\ stage # "done" => answer = "none"
    /\ stage \in AfterRange \/ answer \in {"true", "false"} => range \in Ranges
    /\ stage \in AfterData \/ answer \in {"true", "false"} => SignedData(file, range) = Ok(signed)
    /\ stage \in AfterContents \/ answer \in {"true", "false"} => HasGap

-----------------------------------------------------------------------------
(***************************************************************************)
(* Words                                                                   *)
(***************************************************************************)

LEMMA SmallSum ==
    ASSUME NEW w \in Nat, NEW s \in Nat, s < w
    PROVE  s % w = s
  OBVIOUS

LEMMA WrappedSum ==
    ASSUME NEW w \in Nat, NEW s \in Nat, w <= s, s < w + w
    PROVE  s % w = s - w
  OBVIOUS

LEMMA EndIsNatural == \A a, b \in Words : End(a, b) \in Nat
  BY WordAssumption DEF End, Words

\* A sum that has wrapped is less than each of its terms.
LEMMA NoWrap ==
    ASSUME NEW a \in Words, NEW b \in Words, a <= End(a, b)
    PROVE  End(a, b) = a + b /\ End(a, b) \in Nat
<1>1. WordSize \in Nat /\ a \in Nat /\ b \in Nat /\ a < WordSize /\ b < WordSize
  BY WordAssumption DEF Words
<1>2. a + b \in Nat /\ a + b < WordSize + WordSize
  BY <1>1
<1>3. CASE a + b < WordSize
  BY <1>1, <1>2, <1>3, SmallSum DEF End
<1>4. CASE WordSize <= a + b
  <2> DEFINE sum == a + b
  <2>1. sum \in Nat /\ WordSize <= sum /\ sum < WordSize + WordSize /\ sum - WordSize < a
    BY <1>1, <1>2, <1>4
  <2>2. End(a, b) = sum % WordSize
    BY DEF End
  <2> HIDE DEF sum
  <2>3. sum % WordSize = sum - WordSize
    BY <1>1, <2>1, WrappedSum
  <2>4. sum - WordSize \in Int
    BY <1>1, <2>1
  <2> QED
    BY <1>1, <2>1, <2>2, <2>3, <2>4
<1> QED
  BY <1>1, <1>2, <1>3, <1>4

-----------------------------------------------------------------------------
(***************************************************************************)
(* Segments                                                                *)
(***************************************************************************)

\* A segment that is taken lies in the file, where its two numbers say.
LEMMA SegmentIsNamed ==
    ASSUME NEW f, Len(f) \in Nat, NEW a \in Words, NEW b \in Words,
           Segment(f, a, b).r = "ok"
    PROVE  /\ End(a, b) = a + b
           /\ a + b <= Len(f)
           /\ Segment(f, a, b) = Ok(SubSeq(f, a + 1, a + b))
<1>1. ~(End(a, b) > Len(f))
  BY DEF Segment, Err
<1>2. Segment(f, a, b) = Slice(f, a, End(a, b))
  BY <1>1 DEF Segment
<1>3. a <= End(a, b)
  BY <1>2 DEF Slice, Panic
<1>4. End(a, b) = a + b /\ End(a, b) \in Nat
  BY <1>3, NoWrap
<1> QED
  BY <1>1, <1>2, <1>3, <1>4 DEF Slice

\* The data are the two segments, one behind the other.
LEMMA DataAreNamed ==
    ASSUME NEW f, Len(f) \in Nat, NEW n \in Ranges, NEW d, SignedData(f, n) = Ok(d)
    PROVE  /\ End(n.offset1, n.length1) = n.offset1 + n.length1
           /\ n.offset2 + n.length2 <= Len(f)
           /\ d = SubSeq(f, n.offset1 + 1, n.offset1 + n.length1) \o
                  SubSeq(f, n.offset2 + 1, n.offset2 + n.length2)
<1> DEFINE first  == Segment(f, n.offset1, n.length1)
           second == Segment(f, n.offset2, n.length2)
<1>1. SignedData(f, n) =
        IF first.r = "ok"
        THEN IF second.r = "ok" THEN Ok(first.v \o second.v) ELSE second
        ELSE first
  BY DEF SignedData, Then
<1>2. SignedData(f, n).r = "ok" /\ SignedData(f, n).v = d
  BY DEF Ok
<1>3. first.r = "ok" /\ second.r = "ok" /\ d = first.v \o second.v
  <2> HIDE DEF first, second
  <2>1. first.r = "ok"
    BY <1>1, <1>2
  <2>2. second.r = "ok"
    BY <1>1, <1>2, <2>1
  <2>3. SignedData(f, n) = Ok(first.v \o second.v)
    BY <1>1, <2>1, <2>2
  <2>4. Ok(first.v \o second.v).v = first.v \o second.v
    BY DEF Ok
  <2> QED
    BY <1>2, <2>1, <2>2, <2>3, <2>4
<1>4. /\ n.offset1 \in Words /\ n.length1 \in Words
      /\ n.offset2 \in Words /\ n.length2 \in Words
  BY DEF Ranges
<1>5. /\ End(n.offset1, n.length1) = n.offset1 + n.length1
      /\ first = Ok(SubSeq(f, n.offset1 + 1, n.offset1 + n.length1))
  BY <1>3, <1>4, SegmentIsNamed
<1>6. /\ n.offset2 + n.length2 <= Len(f)
      /\ second = Ok(SubSeq(f, n.offset2 + 1, n.offset2 + n.length2))
  BY <1>3, <1>4, SegmentIsNamed
<1>7. /\ first.v = SubSeq(f, n.offset1 + 1, n.offset1 + n.length1)
      /\ second.v = SubSeq(f, n.offset2 + 1, n.offset2 + n.length2)
  <2> HIDE DEF first, second
  <2> QED
    BY <1>5, <1>6 DEF Ok
<1> QED
  BY <1>3, <1>5, <1>6, <1>7

-----------------------------------------------------------------------------
(***************************************************************************)
(* What a step of the function yields when it succeeds                     *)
(***************************************************************************)

LEMMA NumbersAreWords ==
    ASSUME NEW cells, RangeOf(cells).r = "ok"
    PROVE  RangeOf(cells).v \in Ranges
<1>1. Len(cells) = 4 /\ \A k \in 1..4 : cells[k].value \in Words
  BY DEF RangeOf, Check, Err
<1>2. RangeOf(cells).v = [offset1 |-> cells[1].value, length1 |-> cells[2].value,
                          offset2 |-> cells[3].value, length2 |-> cells[4].value]
  BY DEF RangeOf, Check, Ok, Err
<1>3. 1 \in 1..4 /\ 2 \in 1..4 /\ 3 \in 1..4 /\ 4 \in 1..4
  OBVIOUS
<1> QED
  BY <1>1, <1>2, <1>3 DEF Ranges

\* The numbers that are read are the result of RangeOf.
LEMMA ByteRangeIsWords ==
    ASSUME NEW f, ByteRange(f).r = "ok"
    PROVE  ByteRange(f).v \in Ranges
<1> DEFINE word  == Found(f, ByteRangeWord, 0)
           open  == Found(f, ArrayOpen, word.v + 1)
           close == Found(f, ArrayClose, open.v)
           cells == Slice(f, open.v + 1, close.v)
           numbers == RangeOf(WithoutBlanks(cells.v))
<1>1. ByteRange(f) =
        IF word.r = "ok"
        THEN IF open.r = "ok"
             THEN IF close.r = "ok"
                  THEN IF cells.r = "ok" THEN numbers ELSE cells
                  ELSE close
             ELSE open
        ELSE word
  BY DEF ByteRange, Then
<1> HIDE DEF word, open, close, cells
<1>2. ByteRange(f) = numbers
  BY <1>1
<1> QED
  BY <1>2, NumbersAreWords

\* The digits are taken where there is a gap between the segments.
LEMMA DigitsHaveGap ==
    ASSUME NEW f, NEW n, SignatureDer(f, n).r = "ok"
    PROVE  ~(End(n.offset1, n.length1) >= n.offset2) /\ ~(n.offset2 > Len(f))
  BY DEF SignatureDer, Err

LEMMA LengthOfFile == \A f \in Files : Len(f) \in Nat
  BY FilesAssumption

\* The data are Ok of something.
LEMMA DataAreOk ==
    ASSUME NEW f, NEW n, SignedData(f, n).r = "ok"
    PROVE  SignedData(f, n) = Ok(SignedData(f, n).v)
<1> DEFINE first  == Segment(f, n.offset1, n.length1)
           second == Segment(f, n.offset2, n.length2)
<1>1. SignedData(f, n) =
        IF first.r = "ok"
        THEN IF second.r = "ok" THEN Ok(first.v \o second.v) ELSE second
        ELSE first
  BY DEF SignedData, Then
<1> HIDE DEF first, second
<1>2. first.r = "ok"
  BY <1>1
<1>3. SignedData(f, n) = Ok(first.v \o second.v)
  BY <1>1, <1>2
<1>4. Ok(first.v \o second.v).v = first.v \o second.v
  BY DEF Ok
<1> QED
  BY <1>3, <1>4

-----------------------------------------------------------------------------
(***************************************************************************)
(* The invariant                                                           *)
(***************************************************************************)

LEMMA InvariantInitially == Init => IInv
  BY DEF Init, IInv, AfterRange, AfterData, AfterContents

LEMMA InvariantStep == IInv /\ [Next]_vars => IInv'
<1> SUFFICES ASSUME IInv, [Next]_vars
             PROVE  IInv'
  OBVIOUS
<1> USE DEF AfterRange, AfterData, AfterContents, Succeeds, Answer
<1>1. CASE FindByteRange
  <2>1. range' \in Ranges
    BY <1>1, ByteRangeIsWords DEF FindByteRange, Outcome
  <2> QED
    BY <1>1, <2>1 DEF FindByteRange, IInv
<1>2. CASE TakeSignedData
  <2>1. SignedData(file, range).r = "ok" /\ signed' = SignedData(file, range).v
    BY <1>2 DEF TakeSignedData, Outcome
  <2>2. SignedData(file, range) = Ok(signed')
    BY <2>1, DataAreOk
  <2> QED
    BY <1>2, <2>2 DEF TakeSignedData, IInv
<1>3. CASE TakeContents
  <2>1. SignatureDer(file, range).r = "ok"
    BY <1>3 DEF TakeContents, Outcome
  <2>2. /\ ~(End(range.offset1, range.length1) >= range.offset2)
        /\ ~(range.offset2 > Len(file))
    BY <2>1, DigitsHaveGap
  <2>3. HasGap
    <3>1. range \in Ranges
      BY <1>3 DEF TakeContents, IInv
    <3>2. range.offset2 \in Nat
      BY <3>1, WordAssumption DEF Ranges, Words
    <3>3. End(range.offset1, range.length1) \in Nat
      BY <3>1, EndIsNatural DEF Ranges
    <3>4. Len(file) \in Nat
      BY LengthOfFile DEF IInv
    <3> QED
      BY <2>2, <3>2, <3>3, <3>4 DEF HasGap
  <2>4. HasGap'
    BY <1>3, <2>3 DEF TakeContents, HasGap
  <2> QED
    BY <1>3, <2>4 DEF TakeContents, IInv
<1>4. CASE ParseContainer
  BY <1>4 DEF ParseContainer, IInv, HasGap
<1>5. CASE AcceptDigest
  BY <1>5 DEF AcceptDigest, IInv, HasGap
<1>6. CASE RejectDigest
  BY <1>6 DEF RejectDigest, IInv, HasGap
<1>7. CASE CheckAlgorithm
  BY <1>7 DEF CheckAlgorithm, IInv, HasGap
<1>8. CASE VerifySignature
  BY <1>8 DEF VerifySignature, IInv, HasGap
<1>9. CASE Fail
  BY <1>9 DEF Fail, IInv, HasGap
<1>10. CASE UNCHANGED vars
  BY <1>10 DEF vars, IInv, HasGap
<1> QED
  BY <1>1, <1>2, <1>3, <1>4, <1>5, <1>6, <1>7, <1>8, <1>9, <1>10 DEF Next

LEMMA InvariantCovers == IInv => CoversWhatTheRangeSays
<1> SUFFICES ASSUME IInv, answer \in {"true", "false"}
             PROVE  /\ range.offset1 + range.length1 < range.offset2
                    /\ range.offset2 + range.length2 <= Len(file)
                    /\ signed = SubSeq(file, range.offset1 + 1, range.offset1 + range.length1) \o
                                SubSeq(file, range.offset2 + 1, range.offset2 + range.length2)
  BY DEF CoversWhatTheRangeSays
<1>1. range \in Ranges /\ SignedData(file, range) = Ok(signed) /\ HasGap
  BY DEF IInv
<1>2. Len(file) \in Nat
  BY LengthOfFile DEF IInv
<1>3. /\ End(range.offset1, range.length1) = range.offset1 + range.length1
      /\ range.offset2 + range.length2 <= Len(file)
      /\ signed = SubSeq(file, range.offset1 + 1, range.offset1 + range.length1) \o
                  SubSeq(file, range.offset2 + 1, range.offset2 + range.length2)
  BY <1>1, <1>2, DataAreNamed
<1> QED
  BY <1>1, <1>3 DEF HasGap

\* Each answer of true or false of verify_pdf_signature is about the cells that /ByteRange
\* names: two segments inside of the file with a gap between them, and no sum of an offset
\* and a length has wrapped on the way, for every file and every width of a word.
THEOREM CoversTheRange == Spec => []CoversWhatTheRangeSays
<1> QED
  BY InvariantInitially, InvariantStep, InvariantCovers, PTL DEF Spec

-----------------------------------------------------------------------------
(***************************************************************************)
(* What an answer of true rests on                                         *)
(***************************************************************************)

\* The stages behind the test of the digest.
AfterDigest == {"algorithm", "signature"}

IsTaken == SignatureDer(file, range).r = "ok" /\ der = SignatureDer(file, range).v

IsParsed == ParseSignedData(der).r = "ok" /\ params = ParseSignedData(der).v

IsDigested == params.data.messageDigest = Hash(params.data.algorithm, signed)

IsSigned ==
    /\ IsUsable(params.key)
    /\ \E short \in BOOLEAN :
          params.data.signature =
              SignatureBy(params.key, Hash(params.data.algorithm, params.data.attributes), short)

\* The digits behind /Contents are the container, its attributes carry the digest of the
\* covered bytes, and the key found in it has signed the attributes.
RestsOnTheContainer == IsTaken /\ IsParsed /\ IsDigested /\ IsSigned

TrueIsChecked == answer = "true" => RestsOnTheContainer

CheckedInv ==
    /\ stage # "done" => answer = "none"
    /\ stage \in AfterContents => IsTaken
    /\ stage \in AfterParse => IsParsed
    /\ stage \in AfterDigest => IsDigested
    /\ answer = "true" => stage = "done" /\ RestsOnTheContainer

LEMMA CheckedInitially == Init => CheckedInv
  BY DEF Init, CheckedInv, AfterContents, AfterParse, AfterDigest

LEMMA CheckedStep == CheckedInv /\ [Next]_vars => CheckedInv'
<1> SUFFICES ASSUME CheckedInv, [Next]_vars
             PROVE  CheckedInv'
  OBVIOUS
<1> USE DEF AfterContents, AfterParse, AfterDigest, Succeeds, Answer
<1>1. CASE FindByteRange
  BY <1>1 DEF FindByteRange, CheckedInv
<1>2. CASE TakeSignedData
  BY <1>2 DEF TakeSignedData, CheckedInv
<1>3. CASE TakeContents
  <2>1. /\ SignatureDer(file, range).r = "ok" /\ der' = SignatureDer(file, range).v
        /\ file' = file /\ range' = range
    BY <1>3 DEF TakeContents, Outcome
  <2>2. IsTaken'
    BY <2>1 DEF IsTaken
  <2> QED
    BY <1>3, <2>2 DEF TakeContents, CheckedInv
<1>4. CASE ParseContainer
  <2>1. ParseSignedData(der).r = "ok" /\ params' = ParseSignedData(der).v
    BY <1>4 DEF ParseContainer, Outcome
  <2>2. IsParsed' /\ (IsTaken => IsTaken')
    BY <1>4, <2>1 DEF ParseContainer, IsParsed, IsTaken
  <2> QED
    BY <1>4, <2>2 DEF ParseContainer, CheckedInv
<1>5. CASE AcceptDigest
  <2>1. Outcome = Ok(params.data.messageDigest) /\ DigestsMatch
    BY <1>5 DEF AcceptDigest, Outcome
  <2>2. IsDigested
    BY <2>1 DEF DigestsMatch, IsDigested, Ok
  <2>3. IsDigested' /\ (IsTaken => IsTaken') /\ (IsParsed => IsParsed')
    BY <1>5, <2>2 DEF AcceptDigest, IsTaken, IsParsed, IsDigested, Hash
  <2> QED
    BY <1>5, <2>3 DEF AcceptDigest, CheckedInv
<1>6. CASE RejectDigest
  BY <1>6 DEF RejectDigest, CheckedInv
<1>7. CASE CheckAlgorithm
  <2>1. (IsTaken => IsTaken') /\ (IsParsed => IsParsed') /\ (IsDigested => IsDigested')
    BY <1>7 DEF CheckAlgorithm, IsTaken, IsParsed, IsDigested, Hash
  <2> QED
    BY <1>7, <2>1 DEF CheckAlgorithm, CheckedInv
<1>8. CASE VerifySignature
  <2>1. SignatureIsValid.r = "ok" /\ Outcome = SignatureIsValid
    BY <1>8 DEF VerifySignature, Outcome
  <2>2. /\ IsUsable(params.key)
        /\ SignatureIsValid = Ok(\E short \in BOOLEAN :
               params.data.signature = SignatureBy(params.key, AttributesHash, short))
    BY <2>1 DEF SignatureIsValid, Panic, Err
  <2>3. Outcome.v = (\E short \in BOOLEAN :
                        params.data.signature = SignatureBy(params.key, AttributesHash, short))
    BY <2>1, <2>2 DEF Ok
  <2>4. answer' = "true" => IsSigned
    BY <1>8, <2>2, <2>3 DEF VerifySignature, IsSigned, AttributesHash
  <2>5. IsTaken /\ IsParsed /\ IsDigested
    BY <1>8 DEF VerifySignature, CheckedInv
  <2>6. answer' = "true" => RestsOnTheContainer'
    BY <1>8, <2>4, <2>5
    DEF VerifySignature, RestsOnTheContainer, IsTaken, IsParsed, IsDigested, IsSigned, IsUsable, Hash
  <2> QED
    BY <1>8, <2>6 DEF VerifySignature, CheckedInv
<1>9. CASE Fail
  BY <1>9 DEF Fail, CheckedInv
<1>10. CASE UNCHANGED vars
  BY <1>10 DEF vars, CheckedInv, RestsOnTheContainer, IsTaken, IsParsed, IsDigested, IsSigned, IsUsable, Hash
<1> QED
  BY <1>1, <1>2, <1>3, <1>4, <1>5, <1>6, <1>7, <1>8, <1>9, <1>10 DEF Next

\* verify_pdf_signature answers true only when the container behind /Contents parses, the
\* digest among its signed attributes is that of the bytes covered, and the signature over
\* the attributes is that of the key in the container: no order of steps skips a test,
\* whatever the file (lib.rs:39-83).
THEOREM TrueRestsOnTheContainer == Spec => []TrueIsChecked
<1>1. CheckedInv => TrueIsChecked
  BY DEF CheckedInv, TrueIsChecked
<1> QED
  BY <1>1, CheckedInitially, CheckedStep, PTL DEF Spec

-----------------------------------------------------------------------------
(***************************************************************************)
(* Lists of blocks                                                         *)
(***************************************************************************)

LEMMA ListPlaces ==
    ASSUME NEW l, IsList(l)
    PROVE  /\ Len(l) \in Nat /\ DOMAIN l = 1..Len(l)
           /\ l # <<>> => 1 \in DOMAIN l /\ Len(l) \in DOMAIN l
<1>1. l \in Seq(Members(l))
  BY DEF IsList
<1>2. Len(l) \in Nat /\ DOMAIN l = 1..Len(l)
  BY <1>1
<1>3. l # <<>> => Len(l) # 0
  BY <1>1
<1> QED
  BY <1>2, <1>3

LEMMA DeeperHas ==
    ASSUME NEW S, NEW b \in S
    PROVE  b \in Deeper(S) /\ In(b) \subseteq Deeper(S)
  BY DEF Deeper

LEMMA InList ==
    ASSUME NEW b, b.t \in {"Sequence", "Set"}, NEW k \in DOMAIN b.items
    PROVE  b.items[k] \in In(b)
  BY DEF In, Members

LEMMA InDer ==
    ASSUME NEW b, b.t \in {"Unknown", "Bits"}, b.der.parses, NEW k \in DOMAIN b.der.blocks
    PROVE  b.der.blocks[k] \in In(b)
  BY DEF In, Members

\* extract_content_info takes the first block, which is a sequence.
LEMMA ContentInfoTakes ==
    ASSUME NEW blocks, ContentInfo(blocks).r = "ok"
    PROVE  /\ blocks # <<>> /\ blocks[1].t = "Sequence"
           /\ ContentInfo(blocks).v = blocks[1].items
<1> DEFINE children == ItemsOf(blocks[1], "Sequence")
           type == Item(children.v, 1)
           checked == Check(type.v = Oid("signedData"), children.v)
<1>1. blocks # <<>>
  BY DEF ContentInfo, Err
<1>2. ContentInfo(blocks) =
        IF children.r = "ok" THEN IF type.r = "ok" THEN checked ELSE type ELSE children
  BY <1>1 DEF ContentInfo, Then
<1>3. checked.r = "ok" => checked.v = children.v
  BY DEF Check, Ok, Err
<1>4. children.r = "ok" => blocks[1].t = "Sequence" /\ children.v = blocks[1].items
  BY DEF ItemsOf, Ok, Err
<1> HIDE DEF children, type, checked
<1> QED
  BY <1>1, <1>2, <1>3, <1>4

\* extract_signed_children finds a sequence in the second item, or is at it.
LEMMA SignedChildrenIsInside ==
    ASSUME NEW children, IsList(children), SignedChildren(children).r = "ok"
    PROVE  \E m \in Deeper(Members(children)) :
              m.t = "Sequence" /\ m.items = SignedChildren(children).v
<1> DEFINE block == children[2]
           M == Members(children)
           list == SignedChildren(children).v
<1>1. ~(Len(children) < 2)
  BY DEF SignedChildren, Err
<1>2. 2 \in DOMAIN children
  BY <1>1, ListPlaces
<1>3. block \in M
  BY <1>2 DEF Members
<1>4. block \in Deeper(M) /\ In(block) \subseteq Deeper(M)
  BY <1>3, DeeperHas
<1>5. ASSUME NEW b, ItemsOf(b, "Sequence").r = "ok"
      PROVE  b.t = "Sequence" /\ ItemsOf(b, "Sequence").v = b.items
  BY <1>5 DEF ItemsOf, Ok, Err
<1>6. CASE block.t = "Explicit"
  <2>1. SignedChildren(children) = ItemsOf(block.inner, "Sequence")
    BY <1>1, <1>6 DEF SignedChildren
  <2>2. block.inner \in In(block)
    BY <1>6 DEF In
  <2> QED
    BY <1>4, <1>5, <2>1, <2>2
<1>7. CASE block.t = "Unknown"
  <2> DEFINE parsed == FromDer(block.der)
             first == Item(parsed.v, 1)
  <2>1. SignedChildren(children) =
          IF parsed.r = "ok"
          THEN IF first.r = "ok" THEN ItemsOf(first.v, "Sequence") ELSE first
          ELSE parsed
    BY <1>1, <1>7 DEF SignedChildren, Then
  <2>2. parsed.r = "ok" /\ first.r = "ok"
    <3> HIDE DEF parsed, first
    <3> QED
      BY <2>1
  <2>3. SignedChildren(children) = ItemsOf(first.v, "Sequence")
    <3> HIDE DEF parsed, first
    <3> QED
      BY <2>1, <2>2
  <2>4. block.der.parses /\ parsed.v = block.der.blocks
    BY <2>2 DEF FromDer, Ok, Err
  <2>5. 1 \in DOMAIN block.der.blocks /\ first.v = block.der.blocks[1]
    <3> HIDE DEF parsed
    <3> QED
      BY <2>2, <2>4 DEF Item, Ok, Panic
  <2>6. first.v \in In(block)
    BY <1>7, <2>4, <2>5, InDer
  <2>7. first.v.t = "Sequence" /\ SignedChildren(children).v = first.v.items
    <3> HIDE DEF first
    <3> QED
      BY <1>5, <2>3
  <2>8. first.v \in Deeper(M)
    BY <1>4, <2>6
  <2> QED
    <3> HIDE DEF first
    <3> QED
      BY <2>7, <2>8
<1>8. CASE block.t \notin {"Explicit", "Unknown"}
  <2>1. SignedChildren(children) = ItemsOf(block, "Sequence")
    BY <1>1, <1>8 DEF SignedChildren
  <2> QED
    BY <1>4, <1>5, <2>1
<1> QED
  BY <1>6, <1>7, <1>8

\* extract_signer_info: the first item of the set that comes last.
LEMMA SignerInfoIsInside ==
    ASSUME NEW signedList, IsList(signedList), \A b \in Members(signedList) : IsListed(b),
           SignerInfo(signedList).r = "ok"
    PROVE  \E info \in Deeper(Members(signedList)) :
              info.t = "Sequence" /\ info.items = SignerInfo(signedList).v
<1> DEFINE last == signedList[Len(signedList)]
           infos == ItemsOf(last, "Set")
           info == IF infos.v = <<>> THEN Err ELSE ItemsOf(infos.v[1], "Sequence")
<1>1. signedList # <<>>
  BY DEF SignerInfo, Err
<1>2. last \in Members(signedList)
  BY <1>1, ListPlaces DEF Members
<1>3. SignerInfo(signedList) = IF infos.r = "ok" THEN info ELSE infos
  BY <1>1 DEF SignerInfo, Then
<1>4. infos.r = "ok" /\ SignerInfo(signedList) = info
  <2> HIDE DEF infos, info
  <2> QED
    BY <1>3
<1>5. last.t = "Set" /\ infos.v = last.items
  BY <1>4 DEF ItemsOf, Ok, Err
<1>6. last.items # <<>> /\ info = ItemsOf(last.items[1], "Sequence")
  <2> HIDE DEF infos, last
  <2> QED
    BY <1>4, <1>5 DEF Err
<1>7. last.items[1].t = "Sequence" /\ SignerInfo(signedList).v = last.items[1].items
  <2> HIDE DEF infos, last
  <2> QED
    BY <1>4, <1>6 DEF ItemsOf, Ok, Err
<1>8. IsList(last.items)
  BY <1>2, <1>5 DEF IsListed
<1>9. 1 \in DOMAIN last.items
  BY <1>6, <1>8, ListPlaces
<1>10. last.items[1] \in Deeper(Members(signedList))
  <2> HIDE DEF last
  <2>1. last.items[1] \in In(last)
    BY <1>5, <1>9, InList
  <2> QED
    BY <1>2, <2>1, DeeperHas
<1> QED
  BY <1>7, <1>10

\* get_signature_data succeeds only when each of its steps does.
LEMMA SignatureDataTakes ==
    ASSUME NEW list, SignatureData(list).r = "ok"
    PROVE  LET info == SignerInfo(list).v
               data == SignatureData(list).v
           IN  /\ SignerInfo(list).r = "ok"
               /\ SignerSerial(info).r = "ok" /\ data.serial = SignerSerial(info).v
               /\ DigestOid(info).r = "ok"
               /\ SignedAttributes(info).r = "ok" /\ data.attributes = SignedAttributes(info).v
               /\ SignedAlgorithm(DigestOid(info).v).r = "ok"
               /\ data.algorithm = SignedAlgorithm(DigestOid(info).v).v
               /\ FromDer(data.attributes).r = "ok"
               /\ MessageDigest(FromDer(data.attributes).v).r = "ok"
               /\ data.messageDigest = MessageDigest(FromDer(data.attributes).v).v
               /\ Signature(info).r = "ok" /\ data.signature = Signature(info).v
<1> DEFINE info == SignerInfo(list)
           serial == SignerSerial(info.v)
           oid == DigestOid(info.v)
           attributes == SignedAttributes(info.v)
           algorithm == SignedAlgorithm(oid.v)
           parsed == FromDer(attributes.v)
           digest == MessageDigest(parsed.v)
           signature == Signature(info.v)
           data == [serial |-> serial.v, digestOid |-> oid.v.name, algorithm |-> algorithm.v,
                    attributes |-> attributes.v, messageDigest |-> digest.v,
                    signature |-> signature.v]
<1>1. SignatureData(list) =
        IF info.r = "ok" THEN
        IF serial.r = "ok" THEN
        IF oid.r = "ok" THEN
        IF attributes.r = "ok" THEN
        IF algorithm.r = "ok" THEN
        IF parsed.r = "ok" THEN
        IF digest.r = "ok" THEN
        IF signature.r = "ok" THEN Ok(data)
        ELSE signature ELSE digest ELSE parsed ELSE algorithm ELSE attributes
        ELSE oid ELSE serial ELSE info
  BY DEF SignatureData, Then
<1>2. /\ info.r = "ok" /\ serial.r = "ok" /\ oid.r = "ok" /\ attributes.r = "ok"
      /\ algorithm.r = "ok" /\ parsed.r = "ok" /\ digest.r = "ok" /\ signature.r = "ok"
      /\ SignatureData(list) = Ok(data)
  <2> HIDE DEF info, serial, oid, attributes, algorithm, parsed, digest, signature, data
  <2> QED
    BY <1>1
<1>3. SignatureData(list).v = data
  <2> HIDE DEF data
  <2> QED
    BY <1>2 DEF Ok
<1>4. /\ data.serial = serial.v /\ data.attributes = attributes.v
      /\ data.algorithm = algorithm.v /\ data.messageDigest = digest.v
      /\ data.signature = signature.v
  <2> HIDE DEF info, serial, oid, attributes, algorithm, parsed, digest, signature
  <2> QED
    OBVIOUS
<1> HIDE DEF data
<1> QED
  BY <1>2, <1>3, <1>4

\* The name of the signer's certificate has two parts, and the second is the number.
LEMMA SerialOfSigner ==
    ASSUME NEW info, SignerSerial(info).r = "ok"
    PROVE  \E name \in Members(info) :
              /\ name.t = "Sequence" /\ Len(name.items) = 2
              /\ name.items[2].t = "Integer" /\ name.items[2].value = SignerSerial(info).v
<1> DEFINE name == Item(info, 2)
           parts == ItemsOf(name.v, "Sequence")
           serial == IF Len(parts.v) = 2 THEN ValueOf(parts.v[2], "Integer") ELSE Err
<1>1. SignerSerial(info) =
        IF name.r = "ok" THEN IF parts.r = "ok" THEN serial ELSE parts ELSE name
  BY DEF SignerSerial, Then
<1>2. name.r = "ok" /\ parts.r = "ok" /\ serial.r = "ok" /\ SignerSerial(info) = serial
  <2> HIDE DEF name, parts, serial
  <2> QED
    BY <1>1
<1>3. 2 \in DOMAIN info /\ name.v = info[2]
  BY <1>2 DEF Item, Ok, Panic
<1>4. name.v.t = "Sequence" /\ parts.v = name.v.items
  <2> HIDE DEF name
  <2> QED
    BY <1>2 DEF ItemsOf, Ok, Err
<1>5. Len(parts.v) = 2 /\ serial = ValueOf(parts.v[2], "Integer")
  <2> HIDE DEF parts
  <2> QED
    BY <1>2 DEF Err
<1>6. parts.v[2].t = "Integer" /\ SignerSerial(info).v = parts.v[2].value
  <2> HIDE DEF parts
  <2> QED
    BY <1>2, <1>5 DEF ValueOf, Ok, Err
<1> HIDE DEF name, parts
<1>7. name.v \in Members(info)
  BY <1>3 DEF Members
<1> QED
  BY <1>4, <1>5, <1>6, <1>7

\* The algorithm is the first item of a sequence.
LEMMA AlgorithmOfSigner ==
    ASSUME NEW info, DigestOid(info).r = "ok", SignedAlgorithm(DigestOid(info).v).r = "ok"
    PROVE  /\ SignedAlgorithm(DigestOid(info).v).v \in Algorithms
           /\ \E id \in Members(info) :
                 /\ id.t = "Sequence"
                 /\ \E oid \in In(id) :
                       /\ oid.t = "Oid"
                       /\ oid.name = SignedAlgorithm(DigestOid(info).v).v
<1> DEFINE id == Item(info, 3)
           items == ItemsOf(id.v, "Sequence")
           oid == Item(items.v, 1)
           checked == Check(oid.v.t = "Oid", oid.v)
<1>1. DigestOid(info) =
        IF id.r = "ok" THEN IF items.r = "ok" THEN IF oid.r = "ok" THEN checked
        ELSE oid ELSE items ELSE id
  BY DEF DigestOid, Then
<1>2. /\ id.r = "ok" /\ items.r = "ok" /\ oid.r = "ok" /\ checked.r = "ok"
      /\ DigestOid(info) = checked
  <2> HIDE DEF id, items, oid, checked
  <2> QED
    BY <1>1
<1>3. oid.v.t = "Oid" /\ DigestOid(info).v = oid.v
  <2> HIDE DEF oid
  <2> QED
    BY <1>2 DEF Check, Ok, Err
<1>4. 3 \in DOMAIN info /\ id.v = info[3]
  BY <1>2 DEF Item, Ok, Panic
<1>5. id.v.t = "Sequence" /\ items.v = id.v.items
  <2> HIDE DEF id
  <2> QED
    BY <1>2 DEF ItemsOf, Ok, Err
<1>6. 1 \in DOMAIN items.v /\ oid.v = items.v[1]
  <2> HIDE DEF items
  <2> QED
    BY <1>2 DEF Item, Ok, Panic
<1> HIDE DEF id, items, oid
<1>7. id.v \in Members(info) /\ oid.v \in In(id.v)
  BY <1>4, <1>5, <1>6, InList DEF Members
<1>8. oid.v.name \in Algorithms /\ SignedAlgorithm(oid.v).v = oid.v.name
  BY <1>3 DEF SignedAlgorithm, Check, Ok, Err
<1> QED
  BY <1>3, <1>5, <1>7, <1>8

\* A set of natural numbers has a least element.
LEMMA MinOfNat ==
    ASSUME NEW S \in SUBSET Nat, S # {}
    PROVE  Min(S) \in S
<1>1. PICK x \in S : \A y \in S : ~(<<y, x>> \in OpToRel(<, Nat))
  BY NatLessThanWellFounded, WFMin
<1>2. \A y \in S : x <= y
  <2>1. SUFFICES ASSUME NEW y \in S
                 PROVE  x <= y
    OBVIOUS
  <2>2. <<y, x>> \notin {ss \in Nat \X Nat : ss[1] < ss[2]}
    BY <1>1, Zenon DEF OpToRel
  <2>3. ~(y < x)
    BY <2>2
  <2> QED
    BY <2>3
<1> QED
  BY <1>2 DEF Min

\* The first place of a list with some property has it.
LEMMA FirstStop ==
    ASSUME NEW l, IsList(l), NEW stops \in SUBSET (DOMAIN l), stops # {}
    PROVE  Min(stops) \in stops
  BY ListPlaces, MinOfNat

\* The attributes are a constructed [0] of the signer.
LEMMA AttributesOfSigner ==
    ASSUME NEW info, IsList(info), SignedAttributes(info).r = "ok"
    PROVE  \E attributes \in Members(info) :
              /\ attributes.t = "Unknown" /\ attributes.tag = 0
              /\ SignedAttributes(info).v = attributes.der
<1> DEFINE stops == {p \in DOMAIN info : info[p].t = "Unknown" /\ info[p].constructed /\ info[p].tag = 0}
           place == Min(stops)
<1>1. SignedAttributes(info) = IF stops = {} THEN Err ELSE Ok(info[place].der)
  BY DEF SignedAttributes, FirstOf
<1>2. stops # {} /\ SignedAttributes(info) = Ok(info[place].der)
  <2> HIDE DEF stops, place
  <2> QED
    BY <1>1 DEF Err
<1>3. place \in stops
  BY <1>2, FirstStop
<1>4. info[place] \in Members(info)
  <2> HIDE DEF place
  <2> QED
    BY <1>3 DEF Members
<1> HIDE DEF place
<1> QED
  BY <1>2, <1>3, <1>4 DEF Ok

\* The signature is an octet string of the signer.
LEMMA SignatureOfSigner ==
    ASSUME NEW info, IsList(info), Signature(info).r = "ok"
    PROVE  \E o \in Members(info) : o.t = "Octets" /\ o.value = Signature(info).v
<1> DEFINE stops == {p \in 5..Len(info) : info[p].t = "Octets"}
           place == Min(stops)
<1>1. Signature(info) = IF stops = {} THEN Err ELSE Ok(info[place].value)
  BY DEF Signature, FirstOf
<1>2. stops # {} /\ Signature(info) = Ok(info[place].value)
  <2> HIDE DEF stops, place
  <2> QED
    BY <1>1 DEF Err
<1>3. stops \in SUBSET (DOMAIN info)
  BY ListPlaces
<1>4. place \in stops
  BY <1>2, <1>3, FirstStop
<1>5. info[place] \in Members(info)
  <2> HIDE DEF place
  <2> QED
    BY <1>3, <1>4 DEF Members
<1> HIDE DEF place
<1> QED
  BY <1>2, <1>4, <1>5 DEF Ok

\* The digest is in the first octet string of the set behind the name of the attribute.
LEMMA DigestOfAttributes ==
    ASSUME NEW list, IsList(list), MessageDigest(list).r = "ok"
    PROVE  \E a \in Members(list) :
              /\ a.t = "Sequence" /\ Oid("messageDigest") \in In(a)
              /\ \E v \in In(a) :
                    v.t = "Set" /\ \E o \in In(v) : o.t = "Octets" /\ o.value = MessageDigest(list).v
<1> DEFINE items(p) == list[p].items
           stops == {p \in DOMAIN list :
                        /\ list[p].t = "Sequence"
                        /\ items(p) # <<>> => items(p)[1] = Oid("messageDigest")}
           place == Min(stops)
           a == list[place]
           type == Item(a.items, 1)
           values == Item(a.items, 2)
           inner == ItemsOf(values.v, "Set")
           value == Item(inner.v, 1)
           digest == ValueOf(value.v, "Octets")
           found == IF type.r = "ok" THEN IF values.r = "ok" THEN IF inner.r = "ok" THEN
                    IF value.r = "ok" THEN digest
                    ELSE value ELSE inner ELSE values ELSE type
<1>1. MessageDigest(list) = IF stops = {} THEN Err ELSE found
  BY DEF MessageDigest, FirstOf, Then
<1>2. stops # {} /\ MessageDigest(list) = found
  <2> HIDE DEF stops, found
  <2> QED
    BY <1>1 DEF Err
<1>3. place \in stops
  BY <1>2, FirstStop
<1>4. /\ type.r = "ok" /\ values.r = "ok" /\ inner.r = "ok" /\ value.r = "ok" /\ digest.r = "ok"
      /\ MessageDigest(list) = digest
  <2> HIDE DEF type, values, inner, value, digest
  <2> QED
    BY <1>2
<1> HIDE DEF place
<1>5. place \in DOMAIN list /\ a.t = "Sequence" /\ (a.items # <<>> => a.items[1] = Oid("messageDigest"))
  BY <1>3
<1>6. a \in Members(list)
  BY <1>5 DEF Members
<1> HIDE DEF a
<1>7. 1 \in DOMAIN a.items /\ 2 \in DOMAIN a.items /\ values.v = a.items[2]
  BY <1>4 DEF Item, Ok, Panic
<1>8. a.items # <<>>
  BY <1>7
<1>9. Oid("messageDigest") \in In(a) /\ values.v \in In(a)
  <2> HIDE DEF values
  <2> QED
    BY <1>5, <1>7, <1>8, InList
<1> HIDE DEF values
<1>10. values.v.t = "Set" /\ inner.v = values.v.items
  BY <1>4 DEF ItemsOf, Ok, Err
<1> HIDE DEF inner
<1>11. 1 \in DOMAIN inner.v /\ value.v = inner.v[1]
  BY <1>4 DEF Item, Ok, Panic
<1> HIDE DEF value
<1>12. value.v \in In(values.v)
  BY <1>10, <1>11, InList
<1>13. value.v.t = "Octets" /\ value.v.value = MessageDigest(list).v
  BY <1>4 DEF ValueOf, Ok, Err
<1> QED
  BY <1>5, <1>6, <1>9, <1>10, <1>12, <1>13

\* find_certificates gives a list of blocks that are inside of one of the signed data.
LEMMA CertificatesAreInside ==
    ASSUME NEW list, IsList(list), \A b \in Deeper(Members(list)) : IsListed(b),
           Certificates(list).r = "ok"
    PROVE  /\ IsList(Certificates(list).v)
           /\ Members(Certificates(list).v) \subseteq Deeper(Deeper(Members(list)))
<1> DEFINE stops == {p \in DOMAIN list : list[p].t \in {"Explicit", "Unknown"} /\ list[p].tag = 0}
           block == list[Min(stops)]
           D == Deeper(Members(list))
           certificates == Certificates(list).v
<1>1. CASE stops = {}
  <2>1. Certificates(list) = Ok(<<>>)
    BY <1>1 DEF Certificates, FirstOf
  <2>2. certificates = <<>>
    BY <2>1 DEF Ok
  <2>3. Members(<<>>) = {} /\ IsList(<<>>)
    BY DEF Members, IsList
  <2> QED
    BY <2>2, <2>3
<1>2. CASE stops # {}
  <2> DEFINE inner == IF block.inner.t = "Sequence" THEN Ok(<<block.inner>>)
                      ELSE ItemsOf(block.inner, "Set")
             parsed == FromDer(block.der)
             several == IF Len(parsed.v) = 1 /\ parsed.v[1].t \in {"Set", "Sequence"}
                        THEN Ok(parsed.v[1].items)
                        ELSE Check(\A q \in DOMAIN parsed.v : parsed.v[q].t = "Sequence", parsed.v)
  <2>1. Certificates(list) =
          IF block.t = "Explicit" THEN inner ELSE IF parsed.r = "ok" THEN several ELSE parsed
    BY <1>2 DEF Certificates, FirstOf, Then
  <2>2. Min(stops) \in stops
    BY <1>2, FirstStop
  <2>3. block \in Members(list) /\ block.t \in {"Explicit", "Unknown"}
    BY <2>2 DEF Members
  <2>4. block \in D /\ In(block) \subseteq D
    BY <2>3, DeeperHas
  <2>5. IsListed(block)
    BY <2>4
  <2> HIDE DEF block
  <2>6. CASE block.t = "Explicit" /\ block.inner.t = "Sequence"
    <3>1. certificates = <<block.inner>>
      BY <2>1, <2>6 DEF Ok
    <3>2. block.inner \in D
      BY <2>4, <2>6 DEF In
    <3>3. Members(certificates) = {block.inner} /\ IsList(certificates)
      BY <3>1 DEF Members, IsList
    <3> QED
      BY <3>2, <3>3, DeeperHas
  <2>7. CASE block.t = "Explicit" /\ block.inner.t # "Sequence"
    <3>1. Certificates(list) = ItemsOf(block.inner, "Set")
      BY <2>1, <2>7
    <3>2. block.inner.t = "Set" /\ certificates = block.inner.items
      BY <3>1 DEF ItemsOf, Ok, Err
    <3>3. block.inner \in D
      BY <2>4, <2>7 DEF In
    <3>4. In(block.inner) = Members(certificates)
      BY <3>2 DEF In
    <3>5. IsList(certificates)
      BY <3>2, <3>3 DEF IsListed
    <3> QED
      BY <3>3, <3>4, <3>5, DeeperHas
  <2>8. CASE block.t = "Unknown"
    <3>1. parsed.r = "ok" /\ Certificates(list) = several
      <4> HIDE DEF parsed, several, inner
      <4> QED
        BY <2>1, <2>8
    <3>2. block.der.parses /\ parsed.v = block.der.blocks
      BY <3>1 DEF FromDer, Ok, Err
    <3> HIDE DEF parsed
    <3>3. IsList(parsed.v) /\ Members(parsed.v) \subseteq D
      BY <2>4, <2>5, <2>8, <3>2 DEF IsListed, In
    <3>4. CASE Len(parsed.v) = 1 /\ parsed.v[1].t \in {"Set", "Sequence"}
      <4>1. certificates = parsed.v[1].items
        BY <3>1, <3>4 DEF Ok
      <4>2. 1 \in DOMAIN parsed.v
        BY <3>3, <3>4, ListPlaces
      <4>3. parsed.v[1] \in D
        BY <3>3, <4>2 DEF Members
      <4>4. In(parsed.v[1]) = Members(certificates) /\ IsList(certificates)
        BY <3>4, <4>1, <4>3 DEF In, IsListed
      <4> QED
        BY <4>3, <4>4, DeeperHas
    <3>5. CASE ~(Len(parsed.v) = 1 /\ parsed.v[1].t \in {"Set", "Sequence"})
      <4>1. certificates = parsed.v
        BY <3>1, <3>5 DEF Check, Ok, Err
      <4> QED
        BY <3>3, <4>1 DEF Deeper
    <3> QED
      BY <3>4, <3>5
  <2> QED
    BY <2>3, <2>6, <2>7, <2>8
<1> QED
  BY <1>1, <1>2

\* A certificate is a tbsCertificate, or begins with one.
LEMMA TbsIsInside ==
    ASSUME NEW S, NEW c \in S, TbsFields(c).r = "ok"
    PROVE  \E tbs \in Deeper(S) : tbs.t = "Sequence" /\ tbs.items = TbsFields(c).v
<1> DEFINE fields == ItemsOf(c, "Sequence")
           first == Item(fields.v, 1)
           tbs == IF first.v.t = "Explicit" THEN Ok(fields.v) ELSE ItemsOf(first.v, "Sequence")
<1>1. TbsFields(c) = IF fields.r = "ok" THEN IF first.r = "ok" THEN tbs ELSE first ELSE fields
  BY DEF TbsFields, Then
<1>2. fields.r = "ok" /\ first.r = "ok" /\ TbsFields(c) = tbs
  <2> HIDE DEF fields, first, tbs
  <2> QED
    BY <1>1
<1>3. c.t = "Sequence" /\ fields.v = c.items
  BY <1>2 DEF ItemsOf, Ok, Err
<1> HIDE DEF fields
<1>4. 1 \in DOMAIN c.items /\ first.v = c.items[1]
  BY <1>2, <1>3 DEF Item, Ok, Panic
<1> HIDE DEF first
<1>5. c \in Deeper(S) /\ first.v \in Deeper(S)
  BY <1>3, <1>4, InList, DeeperHas
<1>6. CASE first.v.t = "Explicit"
  BY <1>2, <1>3, <1>5, <1>6 DEF Ok
<1>7. CASE first.v.t # "Explicit"
  <2>1. first.v.t = "Sequence" /\ TbsFields(c).v = first.v.items
    BY <1>2, <1>7 DEF ItemsOf, Ok, Err
  <2> QED
    BY <1>5, <2>1
<1> QED
  BY <1>6, <1>7

\* The serial number is an integer among the fields.
LEMMA SerialIsInside ==
    ASSUME NEW tbs, SerialNumber(tbs).r = "ok"
    PROVE  \E serial \in Members(tbs) :
              serial.t = "Integer" /\ serial.value = SerialNumber(tbs).v
<1> DEFINE first == Item(tbs, 1)
           place == IF first.v.t = "Explicit" /\ first.v.tag = 0 THEN 2 ELSE 1
           serial == Item(tbs, place)
           value == ValueOf(serial.v, "Integer")
<1>1. SerialNumber(tbs) =
        IF first.r = "ok" THEN IF serial.r = "ok" THEN value ELSE serial ELSE first
  BY DEF SerialNumber, Then
<1>2. serial.r = "ok" /\ value.r = "ok" /\ SerialNumber(tbs) = value
  <2> HIDE DEF first, serial, value
  <2> QED
    BY <1>1
<1> HIDE DEF place
<1>3. place \in DOMAIN tbs /\ serial.v = tbs[place]
  BY <1>2 DEF Item, Ok, Panic
<1>4. serial.v \in Members(tbs)
  <2> HIDE DEF serial
  <2> QED
    BY <1>3 DEF Members
<1> HIDE DEF serial
<1>5. serial.v.t = "Integer" /\ SerialNumber(tbs).v = serial.v.value
  BY <1>2 DEF ValueOf, Ok, Err
<1> QED
  BY <1>4, <1>5

\* get_correct_tbs gives the fields of a certificate with the signer's serial number.
LEMMA CorrectTbsIsNamed ==
    ASSUME NEW certificates, IsList(certificates), NEW serial, CorrectTbs(certificates, serial).r = "ok"
    PROVE  \E c \in Members(certificates) :
              /\ TbsFields(c).r = "ok" /\ CorrectTbs(certificates, serial) = TbsFields(c)
              /\ SerialNumber(TbsFields(c).v).r = "ok" /\ SerialNumber(TbsFields(c).v).v = serial
<1> DEFINE SerialAt(p) == Then(TbsFields(certificates[p]), SerialNumber)
           stops == {p \in DOMAIN certificates : SerialAt(p).r = "ok" => SerialAt(p).v = serial}
           place == Min(stops)
           tbs == TbsFields(certificates[place])
<1>1. CorrectTbs(certificates, serial) =
        IF stops = {} THEN Err ELSE IF SerialAt(place).r = "ok" THEN tbs ELSE SerialAt(place)
  BY DEF CorrectTbs, FirstOf
<1>2. /\ stops # {} /\ SerialAt(place).r = "ok"
      /\ CorrectTbs(certificates, serial) = tbs
  <2> HIDE DEF stops, SerialAt, tbs
  <2> QED
    BY <1>1 DEF Err
<1>3. place \in stops
  <2> HIDE DEF SerialAt
  <2> QED
    BY <1>2, FirstStop
<1>4. SerialAt(place).v = serial /\ place \in DOMAIN certificates
  <2> HIDE DEF SerialAt, place
  <2> QED
    BY <1>2, <1>3
<1>5. SerialAt(place) = IF tbs.r = "ok" THEN SerialNumber(tbs.v) ELSE tbs
  BY DEF Then
<1>6. certificates[place] \in Members(certificates)
  BY <1>4 DEF Members
<1>7. tbs.r = "ok" /\ SerialNumber(tbs.v).r = "ok" /\ SerialNumber(tbs.v).v = serial
  <2> HIDE DEF tbs, SerialAt
  <2> QED
    BY <1>2, <1>4, <1>5
<1> HIDE DEF place, SerialAt
<1> QED
  BY <1>2, <1>6, <1>7

\* find_subject_public_key_info gives the items of a sequence among the fields.
LEMMA KeyInfoIsInside ==
    ASSUME NEW tbs, IsList(tbs), PublicKeyInfo(tbs).r = "ok"
    PROVE  \E info \in Members(tbs) : info.t = "Sequence" /\ info.items = PublicKeyInfo(tbs).v
<1> DEFINE items(p) == tbs[p].items
           IsRsa(p) == /\ items(p)[1].t = "Sequence"
                       /\ items(p)[1].items # <<>>
                       /\ items(p)[1].items[1] = Oid("rsa")
           stops == {p \in DOMAIN tbs : tbs[p].t = "Sequence" /\ (items(p) # <<>> => IsRsa(p))}
           place == Min(stops)
           first == Item(items(place), 1)
<1>1. PublicKeyInfo(tbs) =
        IF stops = {} THEN Err ELSE IF first.r = "ok" THEN Ok(items(place)) ELSE first
  BY DEF PublicKeyInfo, FirstOf, Then
<1>2. stops # {} /\ PublicKeyInfo(tbs) = Ok(items(place))
  <2> HIDE DEF stops, items, first
  <2> QED
    BY <1>1 DEF Err
<1>3. place \in stops
  <2> HIDE DEF items, IsRsa
  <2> QED
    BY <1>2, FirstStop
<1>4. place \in DOMAIN tbs /\ tbs[place].t = "Sequence"
  <2> HIDE DEF IsRsa
  <2> QED
    BY <1>3
<1> HIDE DEF place, IsRsa
<1>5. tbs[place] \in Members(tbs)
  BY <1>4 DEF Members
<1> QED
  BY <1>2, <1>4, <1>5 DEF Ok

\* The key that is read is one of those in the certificate.
LEMMA KeyIsInside ==
    ASSUME NEW tbs, NEW info \in In(tbs), info.t = "Sequence", PublicKey(info.items).r = "ok"
    PROVE  PublicKey(info.items).v \in KeysIn(tbs)
<1> DEFINE bits == Item(info.items, 2)
           blocks == IF bits.v.t = "Bits" THEN FromDer(bits.v.der) ELSE Err
           b == Item(blocks.v, 1)
           key == ItemsOf(b.v, "Sequence")
           n == Item(key.v, 1)
           modulus == ValueOf(n.v, "Integer")
           e == Item(key.v, 2)
           exponent == ValueOf(e.v, "Integer")
           value == [modulus |-> modulus.v, exponent |-> exponent.v]
<1>1. PublicKey(info.items) =
        IF bits.r = "ok" THEN
        IF blocks.r = "ok" THEN
        IF b.r = "ok" THEN
        IF key.r = "ok" THEN
        IF n.r = "ok" THEN
        IF modulus.r = "ok" THEN
        IF e.r = "ok" THEN
        IF exponent.r = "ok" THEN Ok(value)
        ELSE exponent ELSE e ELSE modulus ELSE n ELSE key ELSE b ELSE blocks ELSE bits
  BY DEF PublicKey, Then
<1>2. /\ bits.r = "ok" /\ blocks.r = "ok" /\ b.r = "ok" /\ key.r = "ok" /\ n.r = "ok"
      /\ modulus.r = "ok" /\ e.r = "ok" /\ exponent.r = "ok"
      /\ PublicKey(info.items) = Ok(value)
  <2> HIDE DEF bits, blocks, b, key, n, modulus, e, exponent, value
  <2> QED
    BY <1>1
<1>3. PublicKey(info.items).v = value
  <2>1. PublicKey(info.items) = Ok(value)
    BY <1>2
  <2> HIDE DEF value
  <2> QED
    BY <2>1 DEF Ok
<1>4. 2 \in DOMAIN info.items /\ bits.v = info.items[2]
  BY <1>2 DEF Item, Ok, Panic
<1> HIDE DEF bits
<1>5. bits.v.t = "Bits" /\ bits.v.der.parses /\ blocks.v = bits.v.der.blocks
  BY <1>2 DEF FromDer, Ok, Err
<1> HIDE DEF blocks
<1>6. 1 \in DOMAIN blocks.v /\ b.v = blocks.v[1]
  BY <1>2 DEF Item, Ok, Panic
<1> HIDE DEF b
<1>7. b.v.t = "Sequence" /\ key.v = b.v.items
  BY <1>2 DEF ItemsOf, Ok, Err
<1> HIDE DEF key
<1>8. /\ 1 \in DOMAIN key.v /\ n.v = key.v[1]
      /\ 2 \in DOMAIN key.v /\ e.v = key.v[2]
  BY <1>2 DEF Item, Ok, Panic
<1> HIDE DEF n, e
<1>9. /\ n.v.t = "Integer" /\ modulus.v = n.v.value
      /\ e.v.t = "Integer" /\ exponent.v = e.v.value
  BY <1>2 DEF ValueOf, Ok, Err
<1> HIDE DEF modulus, exponent
<1>10. b.v \in Deeper(Deeper(In(tbs)))
  <2>1. bits.v \in Deeper(In(tbs))
    <3>1. bits.v \in In(info)
      BY <1>4, InList
    <3> QED
      BY <3>1, DeeperHas
  <2>2. b.v \in In(bits.v)
    BY <1>5, <1>6, InDer
  <2> QED
    BY <2>1, <2>2, DeeperHas
<1> QED
  BY <1>3, <1>7, <1>8, <1>9, <1>10 DEF KeysIn

LEMMA DeeperIsMonotonic ==
    ASSUME NEW T, NEW S \in SUBSET T
    PROVE  Deeper(S) \subseteq Deeper(T) /\ S \subseteq Deeper(T)
  BY DEF Deeper

\* extract_pubkey_components gives a key of the certificate with the signer's number.
LEMMA SignersKeyIsNamed ==
    ASSUME NEW list, IsList(list), \A b \in Deeper3(Members(list)) : IsListed(b),
           NEW serial, SignersKey(list, serial).r = "ok"
    PROVE  \E tbs \in Deeper3(Members(list)) :
              /\ tbs.t = "Sequence"
              /\ \E number \in In(tbs) : number.t = "Integer" /\ number.value = serial
              /\ SignersKey(list, serial).v \in KeysIn(tbs)
<1> DEFINE certificates == Certificates(list)
           fields == CorrectTbs(certificates.v, serial)
           info == PublicKeyInfo(fields.v)
           key == PublicKey(info.v)
           D == Deeper(Members(list))
<1>1. SignersKey(list, serial) =
        IF certificates.r = "ok" THEN IF fields.r = "ok" THEN IF info.r = "ok" THEN key
        ELSE info ELSE fields ELSE certificates
  BY DEF SignersKey, Then
<1>2. /\ certificates.r = "ok" /\ fields.r = "ok" /\ info.r = "ok" /\ key.r = "ok"
      /\ SignersKey(list, serial) = key
  <2> HIDE DEF certificates, fields, info, key
  <2> QED
    BY <1>1
<1>3. D \subseteq Deeper3(Members(list))
  BY DEF Deeper3, Deeper
<1>4. /\ IsList(certificates.v)
      /\ Members(certificates.v) \subseteq Deeper(D)
  BY <1>2, <1>3, CertificatesAreInside
<1> HIDE DEF certificates
<1>5. PICK c \in Members(certificates.v) :
          /\ TbsFields(c).r = "ok" /\ fields = TbsFields(c)
          /\ SerialNumber(TbsFields(c).v).r = "ok" /\ SerialNumber(TbsFields(c).v).v = serial
  BY <1>2, <1>4, CorrectTbsIsNamed
<1>6. c \in Deeper(D)
  BY <1>4
<1>7. PICK tbs \in Deeper(Deeper(D)) : tbs.t = "Sequence" /\ tbs.items = fields.v
  BY <1>5, <1>6, TbsIsInside
<1>8. tbs \in Deeper3(Members(list))
  BY <1>7 DEF Deeper3
<1>9. In(tbs) = Members(fields.v)
  BY <1>7 DEF In
<1>10. \E number \in In(tbs) : number.t = "Integer" /\ number.value = serial
  <2>1. SerialNumber(fields.v).r = "ok" /\ SerialNumber(fields.v).v = serial
    BY <1>5
  <2> HIDE DEF fields
  <2> QED
    BY <1>9, <2>1, SerialIsInside
<1>11. IsList(fields.v)
  BY <1>7, <1>8 DEF IsListed
<1>12. PICK i \in Members(fields.v) : i.t = "Sequence" /\ i.items = info.v
  <2> HIDE DEF fields
  <2> QED
    BY <1>2, <1>11, KeyInfoIsInside
<1>13. key.v \in KeysIn(tbs)
  <2>1. PublicKey(i.items).r = "ok" /\ key.v = PublicKey(i.items).v
    BY <1>2, <1>12
  <2>2. i \in In(tbs)
    BY <1>9, <1>12
  <2> HIDE DEF key
  <2> QED
    BY <1>12, <2>1, <2>2, KeyIsInside
<1> HIDE DEF key
<1> QED
  BY <1>2, <1>7, <1>8, <1>10, <1>13

\* parse_signed_data succeeds only when each of its steps does.
LEMMA ContainerTakes ==
    ASSUME NEW value, ParseSignedData(value).r = "ok"
    PROVE  LET children == ContentInfo(value.blocks)
               list == SignedChildren(children.v)
               p == ParseSignedData(value).v
           IN  /\ value.parses /\ children.r = "ok" /\ list.r = "ok"
               /\ SignatureData(list.v).r = "ok" /\ p.data = SignatureData(list.v).v
               /\ SignersKey(list.v, p.data.serial).r = "ok"
               /\ p.key = SignersKey(list.v, p.data.serial).v
<1> DEFINE blocks == FromDer(value)
           children == ContentInfo(blocks.v)
           list == SignedChildren(children.v)
           data == SignatureData(list.v)
           key == SignersKey(list.v, data.v.serial)
           params_ == [data |-> data.v, key |-> key.v]
<1>1. ParseSignedData(value) =
        IF blocks.r = "ok" THEN
        IF children.r = "ok" THEN
        IF list.r = "ok" THEN
        IF data.r = "ok" THEN
        IF key.r = "ok" THEN Ok(params_)
        ELSE key ELSE data ELSE list ELSE children ELSE blocks
  BY DEF ParseSignedData, Then
<1>2. /\ blocks.r = "ok" /\ children.r = "ok" /\ list.r = "ok" /\ data.r = "ok" /\ key.r = "ok"
      /\ ParseSignedData(value) = Ok(params_)
  <2> HIDE DEF blocks, children, list, data, key, params_
  <2> QED
    BY <1>1
<1>3. ParseSignedData(value).v = params_
  <2>1. ParseSignedData(value) = Ok(params_)
    BY <1>2
  <2> HIDE DEF params_
  <2> QED
    BY <2>1 DEF Ok
<1>4. params_.data = data.v /\ params_.key = key.v
  OBVIOUS
<1>5. value.parses /\ blocks.v = value.blocks
  BY <1>2 DEF FromDer, Ok, Err
<1> HIDE DEF params_, blocks
<1> QED
  BY <1>2, <1>3, <1>4, <1>5

\* A container that parses holds a signer and the certificate that it names; with the right
\* digest and the right signature it is authentic.
LEMMA ContainerIsAuthentic ==
    ASSUME NEW value, HasLists(value), ParseSignedData(value).r = "ok",
           NEW p, p = ParseSignedData(value).v,
           NEW covered, p.data.messageDigest = Hash(p.data.algorithm, covered),
           NEW short \in BOOLEAN,
           p.data.signature = SignatureBy(p.key, Hash(p.data.algorithm, p.data.attributes), short)
    PROVE  p.data.algorithm \in Algorithms /\ Authentic(value, covered)
<1> DEFINE children == ContentInfo(value.blocks).v
           list == SignedChildren(children).v
           L0 == Members(value.blocks)
           L2 == Deeper(Deeper(L0))
           L3 == Deeper3(L0)
           L6 == Deeper3(L3)
           infoItems == SignerInfo(list).v
           oid == DigestOid(infoItems).v
           parsed == FromDer(p.data.attributes).v
<1>1. /\ value.parses
      /\ ContentInfo(value.blocks).r = "ok" /\ SignedChildren(children).r = "ok"
      /\ SignatureData(list).r = "ok" /\ p.data = SignatureData(list).v
      /\ SignersKey(list, p.data.serial).r = "ok" /\ p.key = SignersKey(list, p.data.serial).v
  BY ContainerTakes
<1>2. Inside(value) = Deeper3(L6)
  BY <1>1 DEF Inside
<1>3. L0 \subseteq Inside(value) /\ L2 \subseteq Inside(value) /\ L3 \subseteq L6 /\ L6 \subseteq Inside(value)
  BY <1>2 DEF Deeper3, Deeper
<1>4. \A b \in Inside(value) : IsListed(b)
  BY DEF HasLists
<1>5. PICK first \in L0 : first.t = "Sequence" /\ children = first.items
  <2>1. value.blocks # <<>> /\ value.blocks[1].t = "Sequence" /\ children = value.blocks[1].items
    BY <1>1, ContentInfoTakes
  <2>2. 1 \in DOMAIN value.blocks
    BY <1>1, <2>1, ListPlaces DEF HasLists
  <2> QED
    BY <2>1, <2>2 DEF Members
<1> HIDE DEF children
<1>6. IsList(children)
  BY <1>3, <1>4, <1>5 DEF IsListed
<1>7. PICK m \in Deeper(Members(children)) : m.t = "Sequence" /\ m.items = list
  BY <1>1, <1>6, SignedChildrenIsInside
<1> HIDE DEF list
<1>8. m \in L2
  <2>1. Members(children) \subseteq Deeper(L0)
    <3>1. In(first) = Members(children)
      BY <1>5 DEF In
    <3> QED
      BY <1>5, <3>1, DeeperHas
  <2> QED
    BY <1>7, <2>1, DeeperIsMonotonic
<1>9. IsList(list)
  BY <1>3, <1>4, <1>7, <1>8 DEF IsListed
<1>10. Members(list) \subseteq L3
  <2>1. In(m) = Members(list)
    BY <1>7 DEF In
  <2> QED
    BY <1>8, <2>1, DeeperHas DEF Deeper3
<1>11. Deeper3(Members(list)) \subseteq L6
  BY <1>10, DeeperIsMonotonic DEF Deeper3
<1>12. Deeper(Members(list)) \subseteq L6 /\ Members(list) \subseteq L6
  BY <1>11 DEF Deeper3, Deeper
<1> HIDE DEF L0, L2, L3, L6
<1>13. /\ SignerInfo(list).r = "ok"
       /\ SignerSerial(infoItems).r = "ok" /\ p.data.serial = SignerSerial(infoItems).v
       /\ DigestOid(infoItems).r = "ok"
       /\ SignedAttributes(infoItems).r = "ok" /\ p.data.attributes = SignedAttributes(infoItems).v
       /\ SignedAlgorithm(oid).r = "ok"
       /\ p.data.algorithm = SignedAlgorithm(oid).v
       /\ FromDer(p.data.attributes).r = "ok"
       /\ MessageDigest(parsed).r = "ok"
       /\ p.data.messageDigest = MessageDigest(parsed).v
       /\ Signature(infoItems).r = "ok" /\ p.data.signature = Signature(infoItems).v
  BY <1>1, SignatureDataTakes
<1>14. PICK info \in Deeper(Members(list)) : info.t = "Sequence" /\ info.items = infoItems
  <2>1. \A b \in Members(list) : IsListed(b)
    BY <1>3, <1>4, <1>12
  <2> QED
    BY <1>9, <1>13, <2>1, SignerInfoIsInside
<1>15. info \in Inside(value) /\ In(info) = Members(infoItems) /\ IsList(infoItems)
  <2>1. info \in Inside(value)
    BY <1>3, <1>12, <1>14
  <2>2. IsList(info.items)
    BY <1>4, <1>14, <2>1 DEF IsListed
  <2> QED
    BY <1>14, <2>1, <2>2 DEF In
<1> HIDE DEF infoItems
<1>16. PICK tbs \in Deeper3(Members(list)) :
          /\ tbs.t = "Sequence"
          /\ \E number \in In(tbs) : number.t = "Integer" /\ number.value = p.data.serial
          /\ p.key \in KeysIn(tbs)
  <2>1. \A b \in Deeper3(Members(list)) : IsListed(b)
    BY <1>3, <1>4, <1>11
  <2> QED
    BY <1>1, <1>9, <2>1, SignersKeyIsNamed
<1>17. tbs \in Inside(value)
  BY <1>3, <1>11
<1>18. Names(info, tbs)
  <2>1. PICK name \in Members(infoItems) :
            /\ name.t = "Sequence" /\ Len(name.items) = 2
            /\ name.items[2].t = "Integer" /\ name.items[2].value = p.data.serial
    BY <1>13, SerialOfSigner
  <2> QED
    BY <1>15, <1>16, <2>1 DEF Names
<1>19. p.data.algorithm \in Algorithms /\ DigestsWith(info, p.data.algorithm)
  BY <1>13, <1>15, AlgorithmOfSigner DEF DigestsWith
<1>20. PICK attributes \in In(info) :
          /\ attributes.t = "Unknown" /\ attributes.tag = 0
          /\ p.data.attributes = attributes.der
  BY <1>13, <1>15, AttributesOfSigner
<1>21. attributes.der.parses /\ parsed = attributes.der.blocks
  BY <1>13, <1>20 DEF FromDer, Ok, Err
<1>22. In(attributes) = Members(parsed) /\ IsList(parsed)
  <2>1. attributes \in Inside(value)
    <3>1. attributes \in Deeper3(L6)
      <4>1. attributes \in Deeper(L6)
        BY <1>12, <1>14, <1>20, DeeperHas
      <4> QED
        BY <4>1, DeeperIsMonotonic DEF Deeper3
    <3> QED
      BY <1>2, <3>1
  <2> QED
    BY <1>4, <1>20, <1>21, <2>1 DEF In, IsListed
<1> HIDE DEF parsed
<1>23. Carries(attributes, Hash(p.data.algorithm, covered))
  <2>1. \E a \in Members(parsed) :
           /\ a.t = "Sequence" /\ Oid("messageDigest") \in In(a)
           /\ \E v \in In(a) :
                 v.t = "Set" /\ \E o \in In(v) : o.t = "Octets" /\ o.value = p.data.messageDigest
    BY <1>13, <1>22, DigestOfAttributes
  <2> QED
    BY <1>22, <2>1 DEF Carries
<1>24. SignedBy(info, p.key, Hash(p.data.algorithm, attributes.der))
  BY <1>13, <1>15, <1>20, SignatureOfSigner DEF SignedBy
<1> QED
  BY <1>14, <1>15, <1>16, <1>17, <1>18, <1>19, <1>20, <1>23, <1>24 DEF Authentic

-----------------------------------------------------------------------------
(***************************************************************************)
(* The container is one of the file, and so are the data                   *)
(***************************************************************************)

LEMMA FoundIsPlace ==
    ASSUME NEW f, IsList(f), NEW cell, NEW start \in Nat, Found(f, cell, start).r = "ok"
    PROVE  Found(f, cell, start).v \in start..(Len(f) - 1)
<1> DEFINE places == {o \in start..(Len(f) - 1) : f[o + 1] = cell}
<1>1. Found(f, cell, start) = IF places # {} THEN Ok(Min(places)) ELSE Err
  BY DEF Found, Check
<1>2. places # {} /\ Found(f, cell, start).v = Min(places)
  <2> HIDE DEF places
  <2> QED
    BY <1>1 DEF Ok, Err
<1>3. Len(f) \in Nat
  BY ListPlaces
<1>4. places \in SUBSET Nat
  BY <1>3
<1>5. Min(places) \in places
  BY <1>2, <1>4, MinOfNat
<1> QED
  BY <1>2, <1>5

\* The cells of a slice that ends in the file are cells of the file.
LEMMA SliceIsInside ==
    ASSUME NEW f, IsList(f), NEW from \in Nat, NEW to \in Nat, to <= Len(f),
           Slice(f, from, to).r = "ok"
    PROVE  Slice(f, from, to).v \in Seq(Members(f))
<1>1. f \in Seq(Members(f)) /\ Len(f) \in Nat
  BY ListPlaces DEF IsList
<1>2. Slice(f, from, to) = Ok(SubSeq(f, from + 1, to))
  BY DEF Slice, Panic
<1>3. SubSeq(f, from + 1, to) \in Seq(Members(f))
  BY <1>1
<1> QED
  BY <1>2, <1>3 DEF Ok

\* Digits that are decoded are a cell of those, or stand for none of them.
LEMMA DecodedIsInside ==
    ASSUME NEW f, NEW cells \in Seq(Members(f)), Decoded(cells).r = "ok"
    PROVE  Decoded(cells).v \in Ders(f)
<1> DEFINE digits == {k \in DOMAIN cells : cells[k] # Blank}
           place == CHOOSE k \in digits : TRUE
           whole == \E k \in digits : digits = {k} /\ cells[k].c = "hex"
           only == /\ \A k \in digits : cells[k].c \in {"hex", "digit"}
                   /\ \A i, j \in digits : i..j \subseteq digits
           value == IF digits = {} THEN Der(<<>>) ELSE IF whole THEN cells[place].der ELSE NoDer
<1>1. Decoded(cells) = IF only THEN Ok(value) ELSE Err
  BY DEF Decoded, Check
<1>2. Decoded(cells) = Ok(value)
  <2> HIDE DEF only, value
  <2> QED
    BY <1>1 DEF Err
<1>3. ASSUME whole PROVE cells[place].der \in Ders(f)
  <2>1. PICK k \in digits : digits = {k} /\ cells[k].c = "hex"
    BY <1>3
  <2>2. place \in digits /\ place = k
    BY <2>1
  <2> HIDE DEF place
  <2>3. cells[place] \in Members(f)
    BY <2>2
  <2> QED
    BY <2>1, <2>2, <2>3 DEF Ders
<1>4. value \in Ders(f)
  <2> HIDE DEF digits, whole, place
  <2> QED
    BY <1>3 DEF Ders
<1> HIDE DEF value
<1> QED
  BY <1>2, <1>4 DEF Ok

LEMMA ContentsPlaceIsNatural ==
    ASSUME NEW f, IsList(f), ContentsPlace(f).r = "ok"
    PROVE  ContentsPlace(f).v \in Nat
<1> DEFINE word == Found(f, ByteRangeWord, 0)
           start == IF word.v > Window THEN word.v - Window ELSE 0
           place == Found(f, ContentsWord, start)
<1>1. ContentsPlace(f) = IF word.r = "ok" THEN place ELSE word
  BY DEF ContentsPlace, Then
<1>2. word.r = "ok" /\ ContentsPlace(f) = place
  <2> HIDE DEF word, place
  <2> QED
    BY <1>1
<1>3. word.v \in 0..(Len(f) - 1) /\ Len(f) \in Nat
  BY <1>2, FoundIsPlace, ListPlaces
<1>4. start \in Nat
  <2> HIDE DEF word
  <2> QED
    BY <1>3, WordAssumption
<1> HIDE DEF start
<1>5. place.v \in start..(Len(f) - 1)
  BY <1>2, <1>4, FoundIsPlace
<1> HIDE DEF place
<1> QED
  BY <1>2, <1>3, <1>4, <1>5

LEMMA DigitsPlaceIsNatural ==
    ASSUME NEW f, IsList(f), DigitsPlace(f).r = "ok"
    PROVE  DigitsPlace(f).v \in Nat
<1> DEFINE contents == ContentsPlace(f)
           place == Found(f, HexOpen, contents.v + 1)
<1>1. DigitsPlace(f) = IF contents.r = "ok" THEN place ELSE contents
  BY DEF DigitsPlace, Then
<1>2. contents.r = "ok" /\ DigitsPlace(f) = place
  <2> HIDE DEF contents, place
  <2> QED
    BY <1>1
<1>3. contents.v \in Nat /\ Len(f) \in Nat
  BY <1>2, ContentsPlaceIsNatural, ListPlaces
<1> HIDE DEF contents
<1>4. place.v \in (contents.v + 1)..(Len(f) - 1)
  BY <1>2, <1>3, FoundIsPlace
<1> HIDE DEF place
<1> QED
  BY <1>2, <1>3, <1>4

\* extract_signature_hex decodes digits of the file.
LEMMA DerIsInFile ==
    ASSUME NEW f, IsList(f), NEW n, SignatureDer(f, n).r = "ok"
    PROVE  SignatureDer(f, n).v \in Ders(f)
<1> DEFINE open == DigitsPlace(f)
           close == Found(f, HexClose, open.v + 1)
           cells == Slice(f, open.v + 1, close.v)
           value == Decoded(cells.v)
<1>1. SignatureDer(f, n) =
        IF open.r = "ok" THEN IF close.r = "ok" THEN
        IF cells.r = "ok" THEN value ELSE cells ELSE close ELSE open
  <2>1. ~(End(n.offset1, n.length1) >= n.offset2 \/ n.offset2 > Len(f))
    BY DEF SignatureDer, Err
  <2> QED
    BY <2>1 DEF SignatureDer, Then
<1>2. /\ open.r = "ok" /\ close.r = "ok" /\ cells.r = "ok" /\ value.r = "ok"
      /\ SignatureDer(f, n) = value
  <2> HIDE DEF open, close, cells, value
  <2> QED
    BY <1>1
<1>3. open.v \in Nat /\ Len(f) \in Nat
  BY <1>2, DigitsPlaceIsNatural, ListPlaces
<1> HIDE DEF open
<1>5. open.v + 1 \in Nat
  BY <1>3
<1>6. close.v \in (open.v + 1)..(Len(f) - 1)
  BY <1>2, <1>5, FoundIsPlace
<1> HIDE DEF close
<1>7. close.v \in Nat /\ close.v <= Len(f)
  BY <1>3, <1>5, <1>6
<1>8. cells.v \in Seq(Members(f))
  BY <1>2, <1>5, <1>7, SliceIsInside
<1> HIDE DEF cells
<1> QED
  BY <1>2, <1>8, DecodedIsInside

\* The data that the range names are cells of the file.
LEMMA DataAreCells ==
    ASSUME NEW f, IsList(f), NEW n \in Ranges, SignedData(f, n).r = "ok"
    PROVE  SignedData(f, n).v \in Seq(Members(f))
<1> DEFINE first  == Segment(f, n.offset1, n.length1)
           second == Segment(f, n.offset2, n.length2)
<1>1. SignedData(f, n) =
        IF first.r = "ok"
        THEN IF second.r = "ok" THEN Ok(first.v \o second.v) ELSE second
        ELSE first
  BY DEF SignedData, Then
<1>2. first.r = "ok" /\ second.r = "ok" /\ SignedData(f, n) = Ok(first.v \o second.v)
  <2> HIDE DEF first, second
  <2> QED
    BY <1>1
<1>3. ASSUME NEW a \in Words, NEW b \in Words, Segment(f, a, b).r = "ok"
      PROVE  Segment(f, a, b).v \in Seq(Members(f))
  <2>1. ~(End(a, b) > Len(f)) /\ Segment(f, a, b) = Slice(f, a, End(a, b))
    BY <1>3 DEF Segment, Err
  <2>2. a \in Nat /\ End(a, b) \in Nat /\ Len(f) \in Nat
    BY EndIsNatural, WordAssumption, ListPlaces DEF Words
  <2> QED
    BY <1>3, <2>1, <2>2, SliceIsInside
<1>4. first.v \in Seq(Members(f)) /\ second.v \in Seq(Members(f))
  BY <1>2, <1>3 DEF Ranges
<1> HIDE DEF first, second
<1> QED
  BY <1>2, <1>4 DEF Ok

-----------------------------------------------------------------------------
(***************************************************************************)
(* Types                                                                   *)
(***************************************************************************)

TypeInv == file \in Files /\ TypeOK

LEMMA FilesAreLists == \A f \in Files : IsList(f) /\ \A value \in Ders(f) : HasLists(value)
  BY FilesAssumption

LEMMA TypeInitially == Init => TypeInv
  BY DEF Init, TypeInv, TypeOK, AfterRange, AfterData, AfterContents, AfterParse

LEMMA TypeStep == TypeInv /\ [Next]_vars => TypeInv'
<1> SUFFICES ASSUME TypeInv, [Next]_vars
             PROVE  TypeInv'
  OBVIOUS
<1> USE DEF AfterRange, AfterData, AfterContents, AfterParse, Succeeds, Answer
<1>0. IsList(file)
  BY FilesAreLists DEF TypeInv
<1>1. CASE FindByteRange
  <2>1. range' \in Ranges
    BY <1>1, ByteRangeIsWords DEF FindByteRange, Outcome
  <2> QED
    BY <1>1, <2>1 DEF FindByteRange, TypeInv, TypeOK
<1>2. CASE TakeSignedData
  <2>1. range \in Ranges
    BY <1>2 DEF TakeSignedData, TypeInv, TypeOK
  <2>2. SignedData(file, range).r = "ok" /\ signed' = SignedData(file, range).v
    BY <1>2 DEF TakeSignedData, Outcome
  <2>3. signed' \in Seq(Members(file))
    BY <1>0, <2>1, <2>2, DataAreCells
  <2> QED
    BY <1>2, <2>3 DEF TakeSignedData, TypeInv, TypeOK
<1>3. CASE TakeContents
  <2>1. SignatureDer(file, range).r = "ok" /\ der' = SignatureDer(file, range).v
    BY <1>3 DEF TakeContents, Outcome
  <2>2. der' \in Ders(file)
    BY <1>0, <2>1, DerIsInFile
  <2> QED
    BY <1>3, <2>2 DEF TakeContents, TypeInv, TypeOK
<1>4. CASE ParseContainer
  <2>1. ParseSignedData(der).r = "ok" /\ params' = ParseSignedData(der).v
    BY <1>4 DEF ParseContainer, Outcome
  <2>2. params'.data.algorithm \in Algorithms
    BY <2>1, ContainerTakes, SignatureDataTakes, AlgorithmOfSigner
  <2> QED
    BY <1>4, <2>2 DEF ParseContainer, TypeInv, TypeOK
<1>5. CASE AcceptDigest
  BY <1>5 DEF AcceptDigest, TypeInv, TypeOK
<1>6. CASE RejectDigest
  BY <1>6 DEF RejectDigest, TypeInv, TypeOK
<1>7. CASE CheckAlgorithm
  BY <1>7 DEF CheckAlgorithm, TypeInv, TypeOK
<1>8. CASE VerifySignature
  BY <1>8 DEF VerifySignature, TypeInv, TypeOK
<1>9. CASE Fail
  BY <1>9 DEF Fail, TypeInv, TypeOK
<1>10. CASE UNCHANGED vars
  BY <1>10 DEF vars, TypeInv, TypeOK
<1> QED
  BY <1>1, <1>2, <1>3, <1>4, <1>5, <1>6, <1>7, <1>8, <1>9, <1>10 DEF Next

\* Each variable of verify_pdf_signature holds what its step computes once that step has
\* been taken: four words, cells of the file, a value in hexadecimal digits of the file, and
\* a known algorithm.
THEOREM TypesAreKept == Spec => []TypeOK
<1>1. TypeInv => TypeOK
  BY DEF TypeInv
<1> QED
  BY <1>1, TypeInitially, TypeStep, PTL DEF Spec

\* True is answered only for an authentic signature: somewhere in the value behind /Contents
\* a signer names a certificate by its serial number, the attributes of the signer hold the
\* digest of the covered bytes, and the key in that certificate has signed the attributes;
\* for every file whose values in DER are lists of blocks (lib.rs:39-83).
THEOREM OnlyAuthenticIsTrue == Spec => []TrueIsAuthentic
<1>1. TypeInv /\ CheckedInv => TrueIsAuthentic
  <2> SUFFICES ASSUME TypeInv, CheckedInv, answer = "true"
               PROVE  Authentic(der, signed)
    BY DEF TrueIsAuthentic
  <2>1. IsTaken /\ IsParsed /\ IsDigested /\ IsSigned
    BY DEF CheckedInv, RestsOnTheContainer
  <2>2. HasLists(der)
    <3>1. IsList(file)
      BY FilesAreLists DEF TypeInv
    <3>2. der \in Ders(file)
      BY <2>1, <3>1, DerIsInFile DEF IsTaken
    <3> QED
      BY <3>2, FilesAreLists DEF TypeInv
  <2>3. PICK short \in BOOLEAN :
            params.data.signature =
                SignatureBy(params.key, Hash(params.data.algorithm, params.data.attributes), short)
    BY <2>1 DEF IsSigned
  <2> QED
    BY <2>1, <2>2, <2>3, ContainerIsAuthentic DEF IsParsed, IsDigested
<1> QED
  BY <1>1, TypeInitially, TypeStep, CheckedInitially, CheckedStep, PTL DEF Spec
=============================================================================
