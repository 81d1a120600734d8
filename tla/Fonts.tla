------------------------------- MODULE Fonts --------------------------------
(***************************************************************************)
(* parse_font of font.rs and decode_text of text.rs: what a font           *)
(* dictionary says of its codes, and the characters that the bytes of a    *)
(* shown string become.  A character is its Unicode code point, a text a   *)
(* sequence of characters.  The data of a /ToUnicode stream are the map    *)
(* that parse_cmap makes of them.                                          *)
(***************************************************************************)
EXTENDS PdfObjects, Naturals, FiniteSets, FiniteSetsExt, SequencesExt

WholeNumber(n) == [kind |-> "Number", value |-> n]

Space       == 32
Question    == 63
Replacement == 65533

Printable == 32..126

\* glyph_to_unicode: the glyph names of the printable characters, in their order.
GlyphNames ==
    <<"space", "exclam", "quotedbl", "numbersign", "dollar", "percent", "ampersand",
      "quotesingle", "parenleft", "parenright", "asterisk", "plus", "comma", "hyphen",
      "period", "slash", "zero", "one", "two", "three", "four", "five", "six", "seven",
      "eight", "nine", "colon", "semicolon", "less", "equal", "greater", "question", "at",
      "A", "B", "C", "D", "E", "F", "G", "H", "I", "J", "K", "L", "M",
      "N", "O", "P", "Q", "R", "S", "T", "U", "V", "W", "X", "Y", "Z",
      "bracketleft", "backslash", "bracketright", "asciicircum", "underscore", "grave",
      "a", "b", "c", "d", "e", "f", "g", "h", "i", "j", "k", "l", "m",
      "n", "o", "p", "q", "r", "s", "t", "u", "v", "w", "x", "y", "z",
      "braceleft", "bar", "braceright", "asciitilde">>

GlyphToUnicode(name) ==
    LET known == {p \in DOMAIN GlyphNames : GlyphNames[p] = name} IN
    IF known # {} THEN 31 + CHOOSE p \in known : TRUE
    ELSE IF name = "minus" THEN 45 ELSE Question

-----------------------------------------------------------------------------

\* extract_encoding: a name, or the base of an encoding dictionary.
EncodingOf(objects, fontDict) ==
    LET encoding == Deref(objects, Entry(fontDict, "Encoding"))
        base == Entry(encoding, "BaseEncoding")
    IN  IF encoding.kind = "Name" THEN encoding.name
        ELSE IF base.kind = "Name" THEN base.name ELSE "Identity-H"

\* extract_to_unicode: a stream whose filters fail is as good as none.
ToUnicodeOf(objects, fontDict) ==
    LET stream == Deref(objects, Entry(fontDict, "ToUnicode")) IN
    IF stream.kind = "Stream" /\ stream.decodes THEN stream.data ELSE EmptyMap

\* The code of the name at place p of a /Differences array: the last number before
\* it, and one more for every name in between.
CodeAt(items, p) ==
    LET numbers == {q \in 1..(p - 1) : items[q].kind = "Number"}
        start == IF numbers = {} THEN 0 ELSE Max(numbers)
        names == {q \in (start + 1)..(p - 1) : items[q].kind = "Name"}
    IN  (IF numbers = {} THEN 0 ELSE items[start].value) + Cardinality(names)

\* extract_differences: a code that occurs twice has its last name.
DifferencesOf(objects, fontDict) ==
    LET array == Deref(objects, Entry(Deref(objects, Entry(fontDict, "Encoding")), "Differences"))
        items == IF array.kind = "Array" THEN array.items ELSE <<>>
        named == {p \in DOMAIN items : items[p].kind = "Name"}
        LastPlace(code) == Max({p \in named : CodeAt(items, p) = code})
    IN  [code \in {CodeAt(items, p) : p \in named} |-> GlyphToUnicode(items[LastPlace(code)].name)]

\* struct PdfFont without the base font's name, which nothing reads.
ParseFont(objects, fontDict) ==
    [subtype     |-> IF Entry(fontDict, "Subtype").kind = "Name"
                     THEN Entry(fontDict, "Subtype").name ELSE "Type1",
     encoding    |-> EncodingOf(objects, fontDict),
     toUnicode   |-> ToUnicodeOf(objects, fontDict),
     differences |-> DifferencesOf(objects, fontDict)]

\* extract_fonts: the fonts of a /Font dictionary, under their names.
ExtractFonts(objects, fontDict) ==
    [name \in {n \in DOMAIN fontDict : Deref(objects, fontDict[n]).kind = "Dictionary"} |->
        ParseFont(objects, Deref(objects, fontDict[name]))]

-----------------------------------------------------------------------------

\* The characters of the bytes 0x80 to 0x9F.
WinAnsiTable ==
    <<8364, 129, 8218, 402, 8222, 8230, 8224, 8225, 710, 8240, 352, 8249, 338, 141, 381, 143,
      144, 39, 39, 34, 34, 8226, 8211, 8212, 732, 8482, 353, 8250, 339, 157, 382, 376>>

MacRomanTable ==
    <<196, 197, 199, 201, 209, 214, 220, 225, 224, 226, 228, 227, 229, 231, 233, 232,
      234, 235, 237, 236, 238, 239, 241, 243, 242, 244, 246, 245, 250, 249, 251, 252>>

ByTable(table, byte) ==
    IF byte \in 128..159 THEN table[byte - 127] ELSE IF byte < 32 THEN Question ELSE byte

Encoded(encoding, byte) ==
    IF encoding = "WinAnsiEncoding" THEN ByTable(WinAnsiTable, byte)
    ELSE IF encoding = "MacRomanEncoding" THEN ByTable(MacRomanTable, byte)
    ELSE IF byte \in Printable THEN byte ELSE Question

IsCid(font) == font.subtype = "Type0" \/ font.encoding \in {"Identity-H", "Identity-V"}

\* Codes of two bytes; a single last byte is a code of its own.
CidCodes(bytes) ==
    [k \in 1..((Len(bytes) + 1) \div 2) |->
        IF 2 * k <= Len(bytes) THEN 256 * bytes[2 * k - 1] + bytes[2 * k] ELSE bytes[2 * k - 1]]

\* What one code becomes: a sequence of characters.
DecodeCid(font, code) ==
    IF code \in DOMAIN font.toUnicode THEN font.toUnicode[code] ELSE <<Replacement>>

DecodeByte(font, byte) ==
    IF byte \in DOMAIN font.differences THEN <<font.differences[byte]>>
    ELSE IF byte \in DOMAIN font.toUnicode THEN font.toUnicode[byte]
    ELSE <<Encoded(font.encoding, byte)>>

NoFont == [subtype |-> "none"]

\* decode_text: without a font the printable bytes are kept and the others dropped.
DecodeText(bytes, font) ==
    IF font = NoFont
    THEN FlattenSeq([k \in DOMAIN bytes |-> IF bytes[k] \in Printable THEN <<bytes[k]>> ELSE <<>>])
    ELSE IF IsCid(font)
    THEN FlattenSeq([k \in DOMAIN CidCodes(bytes) |-> DecodeCid(font, CidCodes(bytes)[k])])
    ELSE FlattenSeq([k \in DOMAIN bytes |-> DecodeByte(font, bytes[k])])
=============================================================================
