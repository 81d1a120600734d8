------------------------- MODULE SignatureVerifier --------------------------
(***************************************************************************)
(* verify_pdf_signature of the signature validator: one action for each    *)
(* step that the function takes before it knows more, and Fail for the     *)
(* steps that end it with an error or a panic.  Hashing and RSA are ideal: *)
(* a hash is the algorithm with what was hashed, a signature is the key    *)
(* with what was signed.                                                   *)
(***************************************************************************)
EXTENDS SignedFile

CONSTANTS
    Files,      \* the files that may be given
    DebugLog,   \* the feature "debug", which the zkVM program turns on by default
    Nothing     \* what is not known yet

Members(list) == {list[k] : k \in DOMAIN list}

IsList(x) == x \in Seq(Members(x))

\* The blocks directly inside of a block.
In(block) ==
    IF block.t \in {"Sequence", "Set"} THEN Members(block.items)
    ELSE IF block.t = "Explicit" THEN {block.inner}
    ELSE IF block.t \in {"Unknown", "Bits"} /\ block.der.parses THEN Members(block.der.blocks)
    ELSE {}

\* Some blocks, and the blocks directly inside of them.
Deeper(blocks) == blocks \cup UNION {In(b) : b \in blocks}

Deeper3(blocks) == Deeper(Deeper(Deeper(blocks)))

\* All blocks of a DER value, down to the depth of a public key.
Inside(value) ==
    IF value.parses THEN Deeper3(Deeper3(Deeper3(Members(value.blocks)))) ELSE {}

IsListed(block) ==
    /\ block.t \in {"Sequence", "Set"} => IsList(block.items)
    /\ block.t \in {"Unknown", "Bits"} /\ block.der.parses => IsList(block.der.blocks)

\* The DER library gives lists of blocks.
HasLists(value) ==
    /\ value.parses => IsList(value.blocks)
    /\ \A b \in Inside(value) : IsListed(b)

\* What digits of a file can stand for: the values in it, none, or no blocks.
Ders(f) == {cell.der : cell \in {c \in Members(f) : c.c = "hex"}} \cup {NoDer, Der(<<>>)}

ASSUME FilesAssumption ==
    /\ DebugLog \in BOOLEAN
    /\ \A f \in Files : IsList(f) /\ \A value \in Ders(f) : HasLists(value)

VARIABLES
    file,    \* pdf_bytes
    stage,   \* the step to be taken next
    range,   \* struct ByteRange
    signed,  \* signed_data
    der,     \* signature_der
    params,  \* struct VerifierParams
    answer   \* "true" or "false" in Ok, "err", "panic", or "none" so far

vars == <<file, stage, range, signed, der, params, answer>>

Hash(algorithm, data) == [hash |-> algorithm, of |-> data]

\* A PKCS#1 signature; a short one has less than 16 bytes.
SignatureBy(key, hash, short) == [key |-> key, hash |-> hash, short |-> short]

\* The digest of the attributes, as a DER value of its own.
AttributesHash == Hash(params.data.algorithm, params.data.attributes)

IsUsable(key) == key.exponent # "unusable"

\* The first 16 bytes of the signature are logged, the key is created, and verified with.
SignatureIsValid ==
    IF DebugLog /\ params.data.signature.short THEN Panic
    ELSE IF ~IsUsable(params.key) THEN Err
    ELSE Ok(\E short \in BOOLEAN :
                params.data.signature = SignatureBy(params.key, AttributesHash, short))

\* What the next step of the function yields.
Outcome ==
    CASE stage = "range"     -> ByteRange(file)
      [] stage = "data"      -> SignedData(file, range)
      [] stage = "contents"  -> SignatureDer(file, range)
      [] stage = "parse"     -> ParseSignedData(der)
      [] stage = "digest"    -> Ok(params.data.messageDigest)
      [] stage = "algorithm" -> SignedAlgorithm(Oid(params.data.digestOid))
      [] stage = "signature" -> SignatureIsValid
      [] OTHER               -> Ok(Nothing)

-----------------------------------------------------------------------------

Init ==
    /\ file \in Files
    /\ stage = "range"
    /\ range = Nothing
    /\ signed = Nothing
    /\ der = Nothing
    /\ params = Nothing
    /\ answer = "none"

\* The step at this stage succeeds.
Succeeds(at) == stage = at /\ Outcome.r = "ok"

Answer(a) ==
    /\ answer' = a
    /\ stage' = "done"

\* Mutant: the data are not taken before the digits are read.
FindByteRangeOnly ==
    /\ Succeeds("range")
    /\ range' = Outcome.v
    /\ stage' = "contents"
    /\ UNCHANGED <<file, signed, der, params, answer>>

FindByteRange ==
    /\ Succeeds("range")
    /\ range' = Outcome.v
    /\ stage' = "data"
    /\ UNCHANGED <<file, signed, der, params, answer>>

TakeSignedData ==
    /\ Succeeds("data")
    /\ signed' = Outcome.v
    /\ stage' = "contents"
    /\ UNCHANGED <<file, range, der, params, answer>>

TakeContents ==
    /\ Succeeds("contents")
    /\ der' = Outcome.v
    /\ stage' = "parse"
    /\ UNCHANGED <<file, range, signed, params, answer>>

ParseContainer ==
    /\ Succeeds("parse")
    /\ params' = Outcome.v
    /\ stage' = "digest"
    /\ UNCHANGED <<file, range, signed, der, answer>>

\* The digest in the attributes is that of the data.
DigestsMatch == Outcome.v = Hash(params.data.algorithm, signed)

\* Mutant: the digests are computed and not compared.
AcceptAnyDigest ==
    /\ Succeeds("digest")
    /\ stage' = "algorithm"
    /\ UNCHANGED <<file, range, signed, der, params, answer>>

AcceptDigest ==
    /\ Succeeds("digest")
    /\ DigestsMatch
    /\ stage' = "algorithm"
    /\ UNCHANGED <<file, range, signed, der, params, answer>>

RejectDigest ==
    /\ Succeeds("digest")
    /\ ~DigestsMatch
    /\ Answer("false")
    /\ UNCHANGED <<file, range, signed, der, params>>

\* check_alg_consistency_internal: both algorithms come from the same identifier.
CheckAlgorithm ==
    /\ Succeeds("algorithm")
    /\ IF Outcome.v = params.data.algorithm
       THEN stage' = "signature" /\ UNCHANGED answer
       ELSE Answer("false")
    /\ UNCHANGED <<file, range, signed, der, params>>

VerifySignature ==
    /\ Succeeds("signature")
    /\ Answer(IF Outcome.v THEN "true" ELSE "false")
    /\ UNCHANGED <<file, range, signed, der, params>>

\* The operator ? of the code, or an index that does not exist.
Fail ==
    /\ stage # "done"
    /\ Outcome.r # "ok"
    /\ Answer(IF Outcome.r = "err" THEN "err" ELSE "panic")
    /\ UNCHANGED <<file, range, signed, der, params>>

Next ==
    \/ FindByteRange \/ TakeSignedData \/ TakeContents \/ ParseContainer
    \/ AcceptDigest \/ RejectDigest \/ CheckAlgorithm \/ VerifySignature \/ Fail

Spec == Init /\ [][Next]_vars

-----------------------------------------------------------------------------

\* The stages at which a value has been computed.
AfterRange    == {"data", "contents", "parse", "digest", "algorithm", "signature"}
AfterData     == {"contents", "parse", "digest", "algorithm", "signature"}
AfterContents == {"parse", "digest", "algorithm", "signature"}
AfterParse    == {"digest", "algorithm", "signature"}

\* Types of the variables: each is set by its step, and the answer with the last one.
TypeOK ==
    /\ stage \in AfterRange \cup {"range", "done"}
    /\ answer \in {"none", "true", "false", "err", "panic"}
    /\ stage = "done" <=> answer # "none"
    /\ stage \in AfterRange => range \in Ranges
    /\ stage \in AfterData => signed \in Seq(Members(file))
    /\ stage \in AfterContents => der \in Ders(file)
    /\ stage \in AfterParse => params.data.algorithm \in Algorithms

\* A yes or no is about the cells that the four numbers name: two segments of the file,
\* one behind the other with a gap between them.  No sum of offset and length is reduced
\* to the width of a word on the way (signed_bytes_extractor.rs:82-92, 98-103).
CoversWhatTheRangeSays ==
    answer \in {"true", "false"} =>
        /\ range.offset1 + range.length1 < range.offset2
        /\ range.offset2 + range.length2 <= Len(file)
        /\ signed = SubSeq(file, range.offset1 + 1, range.offset1 + range.length1) \o
                    SubSeq(file, range.offset2 + 1, range.offset2 + range.length2)

-----------------------------------------------------------------------------

\* The keys in the bit strings of a certificate.
KeysIn(tbs) ==
    {[modulus |-> k.items[1].value, exponent |-> k.items[2].value] :
        k \in {b \in Deeper(Deeper(In(tbs))) :
                  /\ b.t = "Sequence" /\ {1, 2} \subseteq DOMAIN b.items
                  /\ b.items[1].t = "Integer" /\ b.items[2].t = "Integer"}}

\* The signer names the certificate by its serial number.
Names(info, tbs) ==
    \E name \in In(info), serial \in In(tbs) :
        /\ name.t = "Sequence" /\ Len(name.items) = 2
        /\ name.items[2].t = "Integer" /\ serial.t = "Integer"
        /\ name.items[2].value = serial.value

DigestsWith(info, algorithm) ==
    \E id \in In(info) : id.t = "Sequence" /\ \E oid \in In(id) : oid.t = "Oid" /\ oid.name = algorithm

Carries(attributes, digest) ==
    \E a \in In(attributes) :
        /\ a.t = "Sequence" /\ Oid("messageDigest") \in In(a)
        /\ \E v \in In(a) : v.t = "Set" /\ \E o \in In(v) : o.t = "Octets" /\ o.value = digest

SignedBy(info, key, hash) ==
    \E o \in In(info), short \in BOOLEAN : o.t = "Octets" /\ o.value = SignatureBy(key, hash, short)

\* What a valid signature is, without an order of steps or of blocks: somewhere in the
\* value a signer names a certificate by its serial number, the attributes of the signer
\* hold the digest of what is covered, and the key in that certificate has signed them.
Authentic(value, covered) ==
    LET sequences == {b \in Inside(value) : b.t = "Sequence"} IN
    \E info \in sequences, tbs \in sequences, algorithm \in Algorithms :
        /\ Names(info, tbs) /\ DigestsWith(info, algorithm)
        /\ \E attributes \in In(info), key \in KeysIn(tbs) :
              /\ attributes.t = "Unknown" /\ attributes.tag = 0
              /\ Carries(attributes, Hash(algorithm, covered))
              /\ SignedBy(info, key, Hash(algorithm, attributes.der))

\* Only an authentic signature is answered with true, whatever the file and the value
\* look like (lib.rs:39-83).
TrueIsAuthentic == answer = "true" => Authentic(der, signed)

\* A signature that cannot be verified is an answer: "Extract text regardless of signature
\* validation result" (main.rs:341), which no panic is.
NeverPanics == answer # "panic"

\* "First try to find /Contents after the ByteRange": the digits that are read do not stand
\* before a /ByteRange that has a /Contents with digits behind it
\* (signed_bytes_extractor.rs:109).
ContentsAfterByteRange ==
    LET word     == Found(file, ByteRangeWord, 0)
        contents == Found(file, ContentsWord, word.v)
    IN  /\ der # Nothing
        /\ contents.r = "ok" /\ Found(file, HexOpen, contents.v).r = "ok"
        => DigitsPlace(file).v > word.v
=============================================================================
