------------------------ MODULE MCSignatureVerifier -------------------------
(***************************************************************************)
(* Small files for SignatureVerifier: what a signer writes, in the layouts *)
(* that occur; the same files edited after signing; every combination of   *)
(* some numbers in /ByteRange; and containers in which one list of blocks  *)
(* is cut short or has an item of another type.                            *)
(***************************************************************************)
EXTENDS SignatureVerifier, TLC

Key(k) == [modulus |-> k, exponent |-> "e"]

\* Octets that are no digest, and no signature of the signer.
OtherOctets == Octets(SignatureBy(Key("k0"), Hash("sha256", NoDer), FALSE))

KeyItems(k) == <<Integer(k), Integer("e")>>

InfoItems(key) == <<Sequence(<<Oid("rsa"), Oid("null")>>), Bits(Der(<<Sequence(key)>>))>>

Issuer == Sequence(<<SetOf(<<Sequence(<<Oid("name"), OtherOctets>>)>>)>>)

\* The fields of a certificate: without a version it is of version 1.
TbsItems(version, serial, subject, info) ==
    version \o <<Integer(serial), Sequence(<<Oid("sha256WithRsa")>>), Issuer, subject, Sequence(info)>>

Version3 == <<Explicit(0, Integer("3"))>>

Tbs(version, serial, k) == TbsItems(version, serial, Issuer, InfoItems(KeyItems(k)))

Certificate(tbs) == <<Sequence(tbs), Sequence(<<Oid("sha256WithRsa")>>), Bits(NoDer)>>

Cert(serial, k) == Sequence(Certificate(Tbs(Version3, serial, k)))

OldCert(serial, k) == Sequence(Certificate(Tbs(<<>>, serial, k)))

\* The ways in which the DER library gives a list of certificates.
Shapes(certs) ==
    {Explicit(0, SetOf(certs)), Unknown(0, TRUE, Der(<<SetOf(certs)>>))} \cup
    (IF Len(certs) = 1 THEN {Explicit(0, certs[1])} ELSE {Unknown(0, TRUE, Der(certs))})

DigestAttribute(digest) == <<Oid("messageDigest"), SetOf(<<Octets(digest)>>)>>

Attributes(digestAttribute) ==
    <<Sequence(<<Oid("contentType"), SetOf(<<Oid("data")>>)>>), Sequence(digestAttribute)>>

Info(oid, attributes, signature) ==
    <<Integer("1"), Sequence(<<Issuer, Integer("s1")>>), Sequence(<<Oid(oid)>>),
      Unknown(0, TRUE, attributes), Sequence(<<Oid("rsa")>>), Octets(signature)>>

Signed(certs, info) ==
    <<Integer("1"), SetOf(<<Sequence(<<Oid("sha256")>>)>>), Sequence(<<Oid("data")>>),
      certs, SetOf(<<Sequence(info)>>)>>

Content(message) == <<Oid("signedData"), Explicit(0, Sequence(message))>>

Container(content) == Der(<<Sequence(content)>>)
-----------------------------------------------------------------------------

\* How a signer may sign: algorithm, key and digest, right or wrong.
SignerInfoOf(alg, key, covered, short) ==
    LET attributes == Der(Attributes(DigestAttribute(Hash(alg, covered))))
    IN  Info(alg, attributes, SignatureBy(key, Hash(alg, attributes), short))

CertLists ==
    {<<Cert("s1", "k1")>>, <<Cert("s2", "k2"), Cert("s1", "k1")>>,
     <<OldCert("s2", "k2"), OldCert("s1", "k1"), Cert("s3", "k3")>>}

AllShapes == UNION {Shapes(list) : list \in CertLists}

\* Containers as a signer makes them, with the answer that they deserve.
Written(covered) ==
    {[der |-> Container(Content(Signed(shape, SignerInfoOf(alg, Key(k), covered, FALSE)))),
      answer |-> IF k = "k1" THEN "true" ELSE "false"] :
        shape \in AllShapes, alg \in Algorithms, k \in {"k1", "k2"}}
    \cup
    {[der |-> Container(Content(Signed(shape, SignerInfoOf("sha1", Key("k1"), covered \o covered, FALSE)))),
      answer |-> "false"] : shape \in AllShapes}

\* The one that is edited, and put into ranges of all kinds.
Plain(covered) ==
    Container(Content(Signed(Explicit(0, Cert("s1", "k1")),
                             SignerInfoOf("sha256", Key("k1"), covered, FALSE))))

\* A list cut short, or with an item of another type.
Broken(items) ==
    {SubSeq(items, 1, n) : n \in 0..(Len(items) - 1)} \cup
    {[items EXCEPT ![k] = x] : k \in DOMAIN items, x \in {OtherOctets, Sequence(<<>>)}}

BrokenContainers(covered) ==
    LET attributes == Attributes(DigestAttribute(Hash("sha256", covered)))
        InfoWith(a) == Info("sha256", Der(a), SignatureBy(Key("k1"), Hash("sha256", Der(a)), FALSE))
        info == InfoWith(attributes)
        SignedWith(tbs) == Signed(Explicit(0, Sequence(Certificate(tbs))), info)
        TbsWith(i) == TbsItems(Version3, "s1", Issuer, i)
        message == SignedWith(Tbs(Version3, "s1", "k1"))
        InfoIs(i) == Container(Content([message EXCEPT ![5] = SetOf(<<Sequence(i)>>)]))
        CertIs(c) == Container(Content([message EXCEPT ![4] = Unknown(0, TRUE, Der(<<Sequence(c)>>))]))
    IN  {NoDer, Der(<<>>), Container(<<Oid("signedData"), Unknown(0, TRUE, NoDer)>>),
         Container(<<Oid("signedData"), Unknown(0, TRUE, Der(<<Sequence(message)>>))>>),
         Container(<<Oid("signedData"), Sequence(message)>>)}
        \cup {Container(c) : c \in Broken(Content(message))}
        \cup {Container(Content(s)) : s \in Broken(message)}
        \cup {InfoIs(i) : i \in Broken(info)}
        \cup {InfoIs(InfoWith(a)) : a \in Broken(attributes)}
        \cup {InfoIs(InfoWith(Attributes(a))) : a \in Broken(attributes[2].items)}
        \cup {InfoIs(SignerInfoOf("md5", Key("k1"), covered, FALSE)),
              InfoIs(SignerInfoOf("sha256", Key("k1"), covered, TRUE))}
        \cup {CertIs(c) : c \in Broken(Certificate(Tbs(Version3, "s1", "k1")))}
        \cup {CertIs(Certificate(Tbs(Version3, "s1", "k1"))), CertIs(Tbs(Version3, "s1", "k1"))}
        \cup {Container(Content(SignedWith(t))) : t \in Broken(Tbs(Version3, "s1", "k1"))}
        \cup {Container(Content(SignedWith(TbsWith(i)))) : i \in Broken(InfoItems(KeyItems("k1")))}
        \cup {Container(Content(SignedWith(TbsWith(InfoItems(k))))) :
                  k \in Broken(KeyItems("k1")) \cup {<<Integer("k1"), Integer("unusable")>>}}

-----------------------------------------------------------------------------

Numbers(n) ==
    <<ByteRangeWord, ArrayOpen, NumberCell(n[1]), NumberCell(n[2]), Blank,
      NumberCell(n[3]), NumberCell(n[4]), ArrayClose>>

A == <<Text("a")>>
B == <<Text("b")>>

\* A text in hexadecimal digits that belongs to an annotation of a page.
Annotation == <<ContentsWord, HexOpen, HexOf(NoDer), HexClose>>

\* A layout: the cells before and behind the digits, and what an update has appended.  The
\* last two are not what the code reads as the signer has meant it.
Layouts ==
    LET Layout(Before(_), After(_), appended, readable) ==
            LET zero == <<0, 0, 0, 0>>
                n == <<0, Len(Before(zero)), Len(Before(zero)) + 3, Len(After(zero))>>
            IN  [before |-> Before(n), after |-> After(n), appended |-> appended,
                 readable |-> readable]
        ContentsFirst(n) == A \o <<ContentsWord>>
        RangeBehind(n)   == Numbers(n) \o B
        RangeFirst(n)    == A \o Numbers(n) \o <<ContentsWord, Blank>>
        PageFirst(n)     == <<ContentsWord>> \o RangeFirst(n)
        StringFirst(n)   == Annotation \o Numbers(n) \o <<ContentsWord>>
        StringFar(n)     == Annotation \o RangeFirst(n)
        FarBehind(n)     == A \o Numbers(n)
        TextBehind(n)    == B
    IN  {Layout(ContentsFirst, RangeBehind, <<>>, TRUE), Layout(RangeFirst, TextBehind, <<>>, TRUE),
         Layout(PageFirst, TextBehind, B, TRUE), Layout(StringFar, TextBehind, <<>>, TRUE),
         Layout(ContentsFirst, RangeBehind, A \o <<ContentsWord>> \o Numbers(<<0, 1, 5, 1>>), TRUE),
         Layout(StringFirst, TextBehind, <<>>, FALSE), Layout(ContentsFirst, FarBehind, <<>>, FALSE)}

Assembled(l, digits) ==
    l.before \o <<HexOpen>> \o digits \o <<HexClose>> \o l.after \o l.appended

Digits(value) == <<HexOf(value)>>

\* Files with the answers that they deserve.
Expected ==
    UNION {{[file |-> Assembled(l, Digits(w.der)), answer |-> w.answer] :
               w \in Written(l.before \o l.after)} : l \in {k \in Layouts : k.readable}}

\* One cell of text is edited after the file was signed.
Edits(l) ==
    LET original == Assembled(l, Digits(Plain(l.before \o l.after)))
        covered == Len(l.before) + 3 + Len(l.after)
    IN  {[file |-> [original EXCEPT ![p] = Text("c")],
          answer |-> IF p <= covered THEN "false" ELSE "true"] :
            p \in {q \in DOMAIN original : original[q].c = "text"}}

Edited == UNION {Edits(l) : l \in {k \in Layouts : k.readable}}

Values == {0, 2, 3, 5, 9, 14, 23, 24}

\* Ranges of all kinds, over a signature of the cells that they name.
Ranged(n) ==
    LET cells(value) == Assembled([before |-> A \o <<ContentsWord>>, after |-> Numbers(n) \o B,
                                   appended |-> <<>>], Digits(value))
        Named(offset, length) ==
            IF offset + length <= Len(cells(NoDer))
            THEN SubSeq(cells(NoDer), offset + 1, offset + length) ELSE <<>>
    IN  cells(Plain(Named(n[1], n[2]) \o Named(n[3], n[4])))

\* Files with something missing.
Cut(cells) ==
    {SubSeq(cells, 1, n) : n \in 0..(Len(cells) - 1)} \cup
    {[cells EXCEPT ![p] = x] : p \in DOMAIN cells, x \in {Text("c"), HexDigit, Blank}}

OtherFiles ==
    LET l == [before |-> A \o <<ContentsWord>>, after |-> Numbers(<<0, 2, 5, 9>>) \o B, appended |-> <<>>]
        covered == l.before \o l.after
    IN  {Assembled(l, Digits(value)) : value \in BrokenContainers(covered)}
        \cup Cut(Assembled(l, <<Blank>> \o Digits(Plain(covered)) \o <<HexDigit>>))
        \cup Cut(Assembled(l, Digits(Plain(covered))))
        \cup {Assembled(k, Digits(Plain(k.before \o k.after))) : k \in Layouts}
        \cup {Ranged(<<a, b, c, d>>) : a \in Values, b \in Values, c \in Values, d \in Values}

MCExpected == Expected \cup Edited

AllFiles == {e.file : e \in MCExpected} \cup OtherFiles

MCFiles == AllFiles

\* Files that are signed with a certificate whose subject is the empty name.
MCUnnamed ==
    {Assembled(l, Digits(Container(Content(Signed(
        Explicit(0, Sequence(Certificate(TbsItems(Version3, "s1", Sequence(<<>>), InfoItems(KeyItems("k1")))))),
        SignerInfoOf("sha256", Key("k1"), l.before \o l.after, FALSE)))))) :
     l \in {k \in Layouts : k.readable}}

-----------------------------------------------------------------------------

\* A file as a signer writes it is judged: true with the signer's key over what the range
\* covers, in every layout that the search for /Contents reaches, whatever is appended
\* later; false with another key, another digest, or text that was edited.
JudgesWrittenFiles ==
    stage = "done" => \A e \in MCExpected : e.file = file => answer = e.answer
=============================================================================
