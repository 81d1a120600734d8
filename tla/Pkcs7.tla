-------------------------------- MODULE Pkcs7 --------------------------------
(***************************************************************************)
(* parse_signed_data of pkcs7_reference.rs: from the blocks of a DER value *)
(* to the parameters of the verification.  A function panics where the     *)
(* code takes an item of a list by its index.  The DER library is          *)
(* external: a value in DER is the list of its blocks, or it does not      *)
(* parse.                                                                  *)
(***************************************************************************)
EXTENDS Naturals, Sequences, FiniteSets, FiniteSetsExt, Results

\* enum ASN1Block.
Sequence(items) == [t |-> "Sequence", items |-> items]
SetOf(items)    == [t |-> "Set", items |-> items]
Oid(name)       == [t |-> "Oid", name |-> name]
Integer(value)  == [t |-> "Integer", value |-> value]
Octets(value)   == [t |-> "Octets", value |-> value]
Bits(der)       == [t |-> "Bits", der |-> der]
Explicit(tag, inner) == [t |-> "Explicit", tag |-> tag, inner |-> inner]
Unknown(tag, constructed, der) ==
    [t |-> "Unknown", tag |-> tag, constructed |-> constructed, der |-> der]

\* The bytes of a DER value.
Der(blocks) == [parses |-> TRUE, blocks |-> blocks]
NoDer       == [parses |-> FALSE]

FromDer(der) == IF der.parses THEN Ok(der.blocks) ELSE Err

\* items[i], the first item being 1.
Item(items, i) == IF i \in DOMAIN items THEN Ok(items[i]) ELSE Panic

\* The items of a block that has to be of type t.
ItemsOf(block, t) == IF block.t = t THEN Ok(block.items) ELSE Err

ValueOf(block, t) == IF block.t = t THEN Ok(block.value) ELSE Err

\* The result of a loop that returns at the first place of Stops, where the result is At.
FirstOf(stops, otherwise, At(_)) == IF stops = {} THEN otherwise ELSE At(Min(stops))

-----------------------------------------------------------------------------

ContentInfo(blocks) ==
    IF blocks = <<>> THEN Err
    ELSE Then(ItemsOf(blocks[1], "Sequence"),
              LAMBDA children : Then(Item(children, 1),
                  LAMBDA type : Check(type = Oid("signedData"), children)))

SignedChildren(children) ==
    IF Len(children) < 2 THEN Err
    ELSE LET block == children[2] IN
         IF block.t = "Explicit" THEN ItemsOf(block.inner, "Sequence")
         ELSE IF block.t = "Unknown"
         THEN Then(FromDer(block.der),
                   LAMBDA parsed : Then(Item(parsed, 1), LAMBDA b : ItemsOf(b, "Sequence")))
         ELSE ItemsOf(block, "Sequence")

SignerInfo(signed) ==
    IF signed = <<>> THEN Err
    ELSE Then(ItemsOf(signed[Len(signed)], "Set"),
              LAMBDA infos : IF infos = <<>> THEN Err ELSE ItemsOf(infos[1], "Sequence"))

\* The serial number of the signer's certificate; the issuer next to it is not read.
SignerSerial(info) ==
    Then(Item(info, 2), LAMBDA b :
        Then(ItemsOf(b, "Sequence"), LAMBDA parts :
            IF Len(parts) = 2 THEN ValueOf(parts[2], "Integer") ELSE Err))

DigestOid(info) ==
    Then(Item(info, 3), LAMBDA b :
        Then(ItemsOf(b, "Sequence"), LAMBDA items :
            Then(Item(items, 1), LAMBDA oid : Check(oid.t = "Oid", oid))))

\* The content of the first [0] becomes the content of a SET.
SignedAttributes(info) ==
    FirstOf({p \in DOMAIN info : info[p].t = "Unknown" /\ info[p].constructed /\ info[p].tag = 0},
            Err, LAMBDA p : Ok(info[p].der))

Algorithms == {"sha1", "sha256", "sha384", "sha512"}

SignedAlgorithm(oid) == Check(oid.name \in Algorithms, oid.name)

MessageDigest(attributes) ==
    LET items(p) == attributes[p].items
        stops == {p \in DOMAIN attributes :
                     /\ attributes[p].t = "Sequence"
                     /\ items(p) # <<>> => items(p)[1] = Oid("messageDigest")}
    IN  FirstOf(stops, Err, LAMBDA p :
            Then(Item(items(p), 1), LAMBDA type :
            Then(Item(items(p), 2), LAMBDA values :
            Then(ItemsOf(values, "Set"), LAMBDA inner :
            Then(Item(inner, 1), LAMBDA value : ValueOf(value, "Octets"))))))

\* The first octet string behind the four items that come before it.
Signature(info) ==
    FirstOf({p \in 5..Len(info) : info[p].t = "Octets"}, Err, LAMBDA p : Ok(info[p].value))

\* get_signature_data, its steps in their order.
SignatureData(signed) ==
    Then(SignerInfo(signed), LAMBDA info :
    Then(SignerSerial(info), LAMBDA serial :
    Then(DigestOid(info), LAMBDA oid :
    Then(SignedAttributes(info), LAMBDA attributes :
    Then(SignedAlgorithm(oid), LAMBDA algorithm :
    Then(FromDer(attributes), LAMBDA parsed :
    Then(MessageDigest(parsed), LAMBDA digest :
    Then(Signature(info), LAMBDA signature :
        Ok([serial |-> serial, digestOid |-> oid.name, algorithm |-> algorithm,
            attributes |-> attributes, messageDigest |-> digest, signature |-> signature])))))))))

-----------------------------------------------------------------------------

\* find_certificates: the first block with tag 0, explicit or not.
Certificates(signed) ==
    FirstOf({p \in DOMAIN signed : signed[p].t \in {"Explicit", "Unknown"} /\ signed[p].tag = 0},
            Ok(<<>>), LAMBDA p :
                LET block == signed[p] IN
                IF block.t = "Explicit"
                THEN IF block.inner.t = "Sequence" THEN Ok(<<block.inner>>)
                     ELSE ItemsOf(block.inner, "Set")
                ELSE Then(FromDer(block.der), LAMBDA parsed :
                         IF Len(parsed) = 1 /\ parsed[1].t \in {"Set", "Sequence"}
                         THEN Ok(parsed[1].items)
                         ELSE Check(\A q \in DOMAIN parsed : parsed[q].t = "Sequence", parsed)))

\* The fields of a tbsCertificate: a certificate that begins with a version is one already.
TbsFields(certificate) ==
    Then(ItemsOf(certificate, "Sequence"), LAMBDA fields :
        Then(Item(fields, 1), LAMBDA first :
            IF first.t = "Explicit" THEN Ok(fields) ELSE ItemsOf(first, "Sequence")))

SerialNumber(tbs) ==
    Then(Item(tbs, 1), LAMBDA first :
        Then(Item(tbs, IF first.t = "Explicit" /\ first.tag = 0 THEN 2 ELSE 1),
             LAMBDA serial : ValueOf(serial, "Integer")))

\* Mutant: the first certificate is taken for the signer's.
FirstTbs(certificates, serial) ==
    IF certificates = <<>> THEN Err ELSE TbsFields(certificates[1])

\* get_correct_tbs: the first certificate with the signer's serial number, unless one
\* before it is malformed.
CorrectTbs(certificates, serial) ==
    LET SerialAt(p) == Then(TbsFields(certificates[p]), SerialNumber)
    IN  FirstOf({p \in DOMAIN certificates : SerialAt(p).r = "ok" => SerialAt(p).v = serial},
                Err,
                LAMBDA p : IF SerialAt(p).r = "ok" THEN TbsFields(certificates[p]) ELSE SerialAt(p))

\* find_subject_public_key_info looks at every sequence among the fields, and into each.
PublicKeyInfo(tbs) ==
    LET items(p) == tbs[p].items
        IsRsa(p) == /\ items(p)[1].t = "Sequence"
                    /\ items(p)[1].items # <<>>
                    /\ items(p)[1].items[1] = Oid("rsa")
        stops == {p \in DOMAIN tbs : tbs[p].t = "Sequence" /\ (items(p) # <<>> => IsRsa(p))}
    IN  FirstOf(stops, Err, LAMBDA p : Then(Item(items(p), 1), LAMBDA b : Ok(items(p))))

\* The key in the bit string: modulus and exponent.
PublicKey(info) ==
    Then(Item(info, 2), LAMBDA bits :
    Then(IF bits.t = "Bits" THEN FromDer(bits.der) ELSE Err, LAMBDA blocks :
    Then(Item(blocks, 1), LAMBDA b :
    Then(ItemsOf(b, "Sequence"), LAMBDA key :
    Then(Item(key, 1), LAMBDA n :
    Then(ValueOf(n, "Integer"), LAMBDA modulus :
    Then(Item(key, 2), LAMBDA e :
    Then(ValueOf(e, "Integer"), LAMBDA exponent :
        Ok([modulus |-> modulus, exponent |-> exponent])))))))))

\* extract_pubkey_components.
SignersKey(signed, serial) ==
    Then(Certificates(signed), LAMBDA certificates :
    Then(CorrectTbs(certificates, serial), LAMBDA tbs :
    Then(PublicKeyInfo(tbs), PublicKey)))

\* parse_signed_data: struct VerifierParams.
ParseSignedData(der) ==
    Then(FromDer(der), LAMBDA blocks :
    Then(ContentInfo(blocks), LAMBDA children :
    Then(SignedChildren(children), LAMBDA signed :
    Then(SignatureData(signed), LAMBDA data :
    Then(SignersKey(signed, data.serial), LAMBDA key :
        Ok([data |-> data, key |-> key]))))))
=============================================================================
