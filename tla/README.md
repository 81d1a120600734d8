# Verification project for airbender-zkpdf

The repository holds a zkVM program that is given a PDF and an expected text, checks
the PDF's signature, extracts its text without the standard library, and publishes
eight words that a proof can be made about. A wrong word is a false statement with a
proof, so the project's questions are: are the bytes that the libraries see the bytes
the host was given, does the extractor see the document that the file describes, and
are the published words true of them?

TLA+ modules model the program, TLC checks them on small instances, and the TLA+ proof
system (TLAPS) proves the main properties for every value of the constants.

    tlc -config MCPageTree.cfg MCPageTree.tla       # model checking
    tlapm PageTree_proofs.tla                       # proofs

## Inventory of the system

| part | source | state it keeps | operations | what makes it correct |
|---|---|---|---|---|
| host framing | `pdf-zkvm-program/prepare_input.py` | the byte array it builds | append size, PDF, padding, text size, text, page word, padding | the guest can rebuild PDF and text from it |
| zkVM program | `pdf-zkvm-program/src/main.rs` | position on the input, two buffers, results | read words, check, verify, extract, search, publish | the published words are the verdict on the input; it always gets to them |
| core library | `pdf-utils-zkvm/core` | none | `validate_and_extract_pdf` (unused by main.rs), re-exports | an error of either half is an error |
| signature validator | `pdf-utils-zkvm/signature-validator` | none | find `/ByteRange` and `/Contents`, parse PKCS#7, hash, RSA | `Ok(true)` only if digest and signature match under the signer's certificate |
| document structure | `extractor/src/parser.rs` `parse_pdf`, object streams, xref streams | table of objects, position, trailer | linear pass, search for the trailer, second pass over xref entries | every object has the definition the file gives it; errors for the same files |
| page tree | `parser.rs` `parse_page_tree`, `collect_pages`; `page.rs` | visited set, pages, recursion stack | walk over `/Kids` | each reachable page once, in order, with its resources; it ends |
| value grammar | `parser.rs` 41-380 | position | numbers, names, strings, arrays, dictionaries, references | a value is what its bytes say; every loop advances |
| lexer | `token.rs` | position | `parse_all`, `parse_token` | every branch consumes a byte |
| text interpreter | `text.rs`, `lib.rs` | font, pending line, output | one branch per operator, recursion into XObjects | text in the order of the operators; it ends |
| filters | `stream.rs` | none | inflate, ASCII85, ASCIIHex, predictors, chains | decoding inverts encoding; no row or group is lost |
| fonts | `font.rs` | none | CMaps, encodings, differences | a code maps to the character its font says |
| loggers, linker scripts, build, CI | `logger`, `uart_logger.rs`, `lds/`, `build.sh` | none | output, layout | no result depends on them |

The parts call each other in one direction: the host writes a tape; `workload()` reads
it, calls the validator and the extractor, and publishes. There is one thread,
interrupts are off, nothing is persisted and nothing is retried. What is hard is
therefore not concurrency but data of arbitrary shape: graphs of objects with cycles
and sharing, several revisions of an object in one file, sizes and padding around
their limits, and errors that one function swallows and the next one propagates. The
`hazards` of `PROJECT.json` list these places line by line.

## Modules

| module | models | state and actions |
|---|---|---|
| `PdfObjects` | `enum PdfObj`, the object table, `resolve_reference` | operators only |
| `PageNodes` | what `collect_pages` reads of a node: type, kids, resources, content streams, fonts | operators only |
| `PageTree` | `parse_page_tree`, `collect_pages` | `stack` is the recursion, one frame for each activation in its loop over kids; one action for each way a call can go: `SkipDirectKid`, `SkipVisitedKid`, `RejectNode`, `CollectPage`, `RejectPage`, `EnterPages`, `IgnoreNode`, `Return`, `Finish`; `AnswersTheCatalogue` is the refinement of `DocumentAnswer` by the answers of `PageCatalogue` |
| `PageCatalogue` | the same answer without a walk: simple paths over `/Kids`, lexicographic order, nearest resources | operators only |
| `DocumentFile` | a file as a sequence of top-level items; lengths, `search_for_endstream`, object streams, entries | operators only |
| `DocumentTable` | what the parse makes of a file without an order of steps: newest definition, trailer, last usable entry, the files that are errors or panics | operators only |
| `DocumentAnswer` | the promise to give such an answer, of `PageCatalogue`, `DocumentTable` or `PageText`, once | one action, `Answer` |
| `DocumentParser` | `parse_pdf`, `parse_xref_stream` | `at` is the position of the linear pass, `objects` the table, `todo` the entries still to follow; actions for items, trailer, entries, root; `AnswersTheTable` is the refinement of `DocumentAnswer` |
| `PdfSyntax`, `Characters` | what `parser.rs` and `token.rs` both read: white space, names, strings and their escapes, hexadecimal digits, numbers as `f32` | operators only |
| `ValueLexemes` | the values of one piece that `parse_object` reads | operators only |
| `ValueParser` | `parse_value`, `parse_object`, `parse_array`, `parse_dictionary`, `parse_reference` | `pos` is the position, `stack` the calls under way: an array with its items, a dictionary with its entries and the key that waits, a reference with the place to go back to; `ret` is the value that a call returns; one action for each branch and each way a call ends |
| `ValueReading` | the same values by looking ahead, without going back | operators, and a function over places that is defined by itself; extended by `ValueParser` |
| `StreamFilters` | `handle_stream_filters`, the filters, `apply_decode_parms`, one row of `apply_png_predictor` | operators only |
| `StreamEncodings` | how a writer encodes: hexadecimal digits, rows as the PNG standard predicts them | operators only |
| `CharacterMap` | the lines of a CMap as `parse_cmap` reads them | operators only |
| `ContentLexer` | `TokenParser` | `pos` and `tokens`; one action for each branch of `parse_token` |
| `StreamReader` | a stream from its bytes to tokens or to a map: filters, the joined streams of a page, the lexer, `parse_cmap` | `phase` is the loop that runs; `todo` the filters to be applied, `rows` the predictor's loop, `section` and `map` those of `parse_cmap`; one action for each pass of each loop and each way it ends |
| `Results` | `Result`, the operator `?`, panics | operators only |
| `Fonts` | `parse_font`, encodings, differences, `decode_text` | operators only |
| `TextContent` | the tokens of a content stream, the forms that a name stands for, arrays of strings | operators only |
| `TextInterpreter` | `extract_text_from_document`, the operators of `text.rs`, `process_xobject` | `stack` is the recursion, one frame with the local variables for each activation of `extract_text_from_stream`; `results` are the finished pages; one action for each operator, and for each way a `Do`, an activation and a page can end; `AnswersThePageText` is the refinement of `DocumentAnswer` by the texts of `PageText` |
| `PageText` | the same answer without a state that is carried from token to token, and the text that a reader expects of well-formed content; a stream is named by its path, the places of the `Do` operators that lead to it | operators only |
| `Pkcs7` | `parse_signed_data`: the blocks of a DER value, the signer, the certificates, the key | operators only; each yields a value, an error or a panic |
| `SignedFile` | `signed_bytes_extractor.rs`: a file as a sequence of cells; `/ByteRange`, its segments, the digits of `/Contents` | operators only |
| `SignatureVerifier` | `verify_pdf_signature`, `get_signature_der` | `stage` is the step to be taken next, the other variables are the locals of the two functions; one action for each step that succeeds, `Fail` for `?` and panics |
| `Verdict`, `Report` | the result words as a function of the job; the promise to publish them once | one action, `Publish` |
| `Guest` | `prepare_input.py` and `workload()` | `cursor` is the position on the tape, `left` the rounds left of the loop over words; one action for each stage and each round of the three loops |
| `*_proofs` | theorems | |
| `MC*` | the instances TLC checks | |

Abstractions. Bytes are named by their place on the tape (`Guest`), so that any byte that
is lost, doubled, shifted or taken from padding shows up. A file is a sequence of items,
and a position in it stands for a byte offset (`DocumentFile`); an object whose header,
value or `endobj` does not parse is an item `junk`, because `parse_pdf` answers an error at
that place whatever is wrong. A stream's bytes are white space, other bytes and the two
words that the code searches for. A `/Length` that reaches beyond its own `endstream` but
not beyond the file is taken to miss every other `endstream` too. One that no word can count is
`Saturated`, the greatest `usize`: position and length wrap to the byte in front of the data, and at an `endstream`
there the slice of the data ends before it starts, which is a panic (`Aborts`). Other sums that wrap are taken to miss
every `endstream`; the offsets in object streams are added modulo `WordSize`. The word `trailer` is
looked for in streams, not in strings. In the page tree the filters of a content stream
either yield its data or fail.

The parser of values, the lexer, the filters and `parse_cmap` work on bytes. A byte above 127 stands for
bytes that are no UTF-8. Of a number is kept its sign and the whole part of the `f32` that the text
rounds to, with `Mantissa` bits, because all uses convert it with `as`; a fraction just below one may round up to it (`RoundsUpToOne`). Numbers go up to 2^30 (the largest
that TLC can shift); `MaxObject` is the largest object number, below 2^32 in the run. Going back from an attempt
at a reference is an action (`GiveUpTheReference`), so that attempts nest as the calls do. Compressed data are the
data behind a mark byte, and empty data are an error: the inflate library is external. `Room` is the
largest row and `MaxRange` the widest range of codes that the heap has room for, `CodeDigits` the
hexadecimal digits of a `u32`; beyond them the program ends (`Panic`), as it does on a failed
allocation. The lexer does not skip comments and neither does the model, so the written contents
of the run have none. What the code does in the margins is kept: parameters that are a dictionary next to
an array of filters are not applied, a range with an array of texts is not read, and a section of a CMap
whose end line is missing takes the next section for lines of its own.

For the interpreter a content stream consists of whole tokens (`TextContent`), as `ContentLexer` reads them
from the bytes. Of a number only remains whether it is below -200, which is all the code asks of it. The data of a
`/ToUnicode` stream are the map that `parse_cmap` makes of them (`StreamReader`), or its filters fail. Glyph names
and the two tables of encodings are those of the code; a character is its code point. `MaxDepth` is the
number of activations for which the machine's stack has room; one more ends the execution
(`DrawTooDeep`).

A signed file is a sequence of cells (`SignedFile`): a keyword, a bracket, a number, blank or other
text, or all the hexadecimal digits of one DER value, the zeros that fill up its place included. The
500 bytes before `/ByteRange` at which the search for `/Contents` begins are `Window` cells, and
`WordSize` is the number of values of `usize` (2^32 in the zkVM), in which offset and length
are added. A DER value is the list of its blocks or does not parse. Digits with white space inside or text among them are an
error; an odd number of them shifts every byte, so that the value does not parse (`Decoded`). Hashing and RSA are ideal: a hash is its
algorithm with what was hashed, a signature is its key with what was signed, so that no two of them
collide. The zero byte in front of a modulus, the two bytes of the length of the signed
attributes, and `check_alg_consistency_internal`, whose two sides come from one identifier,
are left out or can have one result only.

The libraries that `workload()` calls answer freely, with one restriction: given the bytes
of the host they give the answer that the job fixes. So a buffer that is not exact makes
the answers arbitrary instead of being assumed away. `Guest` takes it that the libraries answer at
all; the run `signature_unnamed` shows a file for which the validator does not, and `DocumentParser` has the files for
which `parse_pdf` does not (`AbortAtItem`).

`Mutant` operators stand next to the definitions they change. Each is a plausible slip in the
code, and for each property of a passing run one of them makes TLC refute the property.

## Runs

| run | question | instance | result |
|---|---|---|---|
| `page_tree` | does the walk gather the pages of the catalogue, and end? | 6,732 documents of up to three inner nodes and two pages: every list of one or two kids for the first node, four lists for the others, five ways of being no page, four bad catalogs | holds, 45,825 states |
| `guest` | are the words true, for every size and padding? | sizes of the PDF 0..15 with limits 10 and 14, so that each remainder by four occurs below, between and above them; texts of 0..8 bytes; documents of 0, 1 and 3 pages | holds, 146,008 states |
| `document` | does the parse keep the right definition of every object and reject the right files? | every file of up to three of 32 items; two-revision files of six items; `WordSize` 24 | holds, 138,885 states |
| `text` | does the interpreter give the text of the page, lose nothing of well-formed content, and end? | 3,477 documents: every sequence of three of 13 tokens in three surroundings, every array of up to three items in three surroundings, 880 tables of two forms that draw each other; `MaxDepth` 4 | holds, 113,922 states |
| `signature` | is every answer of true deserved, and every intact signature answered with true? | 4,723 files: containers in nine shapes and four algorithms in five layouts, signed with the signer's key or another; each text cell edited; containers and files with one item missing or replaced; all ranges of eight numbers; `WordSize` 24, `Window` 4 | holds, 15,787 states |
| `grammar` | is a value what its text says, however attempts at references nest, and does every text end? | 12,194 texts: every sequence of up to three of 21 bytes, every run of up to three of nine numbers, signs and separators, alone and in brackets, 68 written texts; `Mantissa` 24 | holds, 37,983 states |
| `streams` | do filters, lexer and `parse_cmap` give back what was written, and end at limits only? | 11,989 sources: chains of up to two filters, predictors over rows of one, two and four bytes; 37 spellings of tokens in pairs, some in threes and on up to three streams; CMaps of up to two lines; every content of up to three of 15 bytes; dictionaries, rows and digits without a meaning | holds, 90,476 states |
| `guest_sizes` | README.md:64, "`result[1] = 1`: Invalid input size" | as `guest` | violated: sizes 1 to 9 end without result words |
| `document_length` | parser.rs:517, "No length, search for endstream" | as `document` | violated: the parse fails although the data are found |
| `document_update` | parser.rs:626, "parse it to get more objects" | one object updated, both revisions with a cross-reference stream | violated: the older definition comes back |
| `signature_unnamed` | main.rs:341, "Extract text regardless of signature validation result" | a certificate whose subject is the empty name | violated: an index panics |
| `signature_contents` | signed_bytes_extractor.rs:109, "First try to find /Contents after the ByteRange" | as `signature` | violated: the digits of a `/Contents` in front are read |

The bounds are enough in this sense: the code of `collect_pages` compares a node only with
the visited set, so that one inner node below another and one beside it give all the relations that
occur on a longer way; the reader works on four bytes at a time and its loops do not depend on
the size otherwise, and the proofs remove the bound anyway; an item of a file interacts with
an earlier one through its key, with the trailer, and with the entries, which needs three
items, and with an update, which needs six. An operator looks back at most three tokens, and what
it finds further back (the text object, the font, the start of an array) is in the surroundings;
two forms and a page give a form that draws itself, two that draw each other, and a form that is
drawn twice, and a chain without a cycle has three activations, one less than `MaxDepth`.
A value is told by its first two bytes and a reference by the run of numbers it is in: three bytes reach
every branch of `parse_object` with both its neighbours, and three numbers make one attempt at
a reference fail inside another. A token is affected by the one before it only through the byte at which that one
ends, which pairs show; the written streams have up to five bytes because a group of ASCII85 has four, and two rows because
a row depends on the one above it only. A `bfchar` line interacts with another through its code and its section.
The verifier reads a list of blocks item by item and stops at the first that does not fit, so that one
fault at a time reaches every branch; the certificates differ in serial number, position and shape, which is
all that the choice among them depends on. The numbers of a range go from zero to `WordSize`,
the sum of two of them may wrap, and files are shorter and longer than these sums.

Fairness. The program is one thread on a machine without interrupts, so the only assumption
is weak fairness of the whole next-state relation: while there is a step it is taken. It is
used for `Terminates` and `AlwaysReports`; for the interpreter `Terminates` includes the end
on a full stack, and `AbortsOnlyInCycles` says which documents can come there. A run whose system stops after its answer does not check
for deadlock; `AlwaysReports` covers the deadlock that matters, a read from an exhausted tape.

## Proofs

`PageTree_proofs` proves `Spec => []P` for all invariants of the run `page_tree` and the refinement
`Spec => AnswersTheCatalogue`, for every set of references and every set of documents that satisfy `DocumentsAssumption` (what a
table of objects is: there are finitely many objects, `/Kids` is a sequence, a reference is a reference). The inductive invariant
adds to the type invariant that each frame's kids are those of its node, that a frame's next kid is
within or just behind its list, that every kid before it is a visited node, and that every visited
inner node is either finished, with all its kids visited, or on the stack exactly once. Completeness
follows at the end, when the stack is empty: the visited set is closed under kids, so it
contains what can be reached; the other inclusion holds because every node entered is a
kid of a node that is reachable.

For the refinement, paths of the catalogue are taken as walks (`IsWalk`: places among `/Kids` and the nodes they lead to, none of
them twice; `WalkIsPath` and `PathIsWalk` say that these are the same). Document order is a total order of
walks (`PrecedesTransitive`, `PrecedesTotal`), and each node that can be reached has one first walk. The inductive invariant
`OrderInv` says that every activation stands at the end of the first walk to its node, that the first walks to all
visited nodes come before the kid the walk is at, and that the resources of an activation are the nearest ones on its
walk (`NearestExtends`: one more node overlays what it defines). Its heart is `NewNodeIsFirst`: the way of the stack to a
kid that is not visited is the first walk to it. A walk that came earlier would part from the stack to an earlier kid, which
is visited, and so somewhere leave the visited nodes; it can do that only at a node whose kids are not
finished, an active one, and there it would be an earlier walk to that node, whose first walk is the stack's own. At the end
the pages are the leaves that can be reached, in the order of their first walks, and a set is sorted in one way only (`SortedUnique`).
`EveryStepLeavesLessAhead` says that the walk cannot go round in a circle: each step enters one of the finitely many objects not
yet entered, or leaves an activation, or takes one of the kids left.

`Guest_proofs` proves `Spec => []P` for all invariants of the run `guest` and the refinement
`Spec => Promise!Spec`, for all sizes and all limits that satisfy `SizesAssumption` and `MarksAssumption`.
The argument has two halves. `FrameInv` says where the reader is on the tape and that a
buffer holds the bytes of exactly the words read (`Filled`); one more word keeps it (`PushWordFills`) and
`CeilDiv4(size)` words complete it (`FilledEnds`). With the buffers exact the libraries' answers are those
of the job, and `VerdictInv` lists which branches of the verdict are settled at each stage. `EveryStepLeavesLessAhead` bounds the
execution: a job takes at most as many steps as its tape has words and its document pages, and ten more.

`TextInterpreter_proofs` proves `LineOnlyInText` and `NoUnderflow` of the run `text` for every set of
documents and every depth of the stack, and `AbortsOnlyInCycles` for every set of documents whose forms are
fewer than `MaxDepth` (`FormsFit`), as they are in all documents of the run. The inductive invariant `StackInv` says of each activation that it is in a text object
only after a `BT` of its own stream, and that a line is pending only then. A `BT` is no `]`,
so that an operator `TJ` behind a `]` has at least two tokens before it, and its walk begins at a place
that exists. The second invariant, `ChainInv`, says that behind the activations there is a chain of
references, from the second activation on, each to a form that the one before it draws out of its own
resources (`Describes`). A `Do` makes the chain longer (`ChainGrows`), a return makes it shorter (`ChainShrinks`), and
every other operator leaves the stream of its activation alone (`ContinueKeepsChain`). A full stack with one more
form to draw is a chain of `MaxDepth` forms: by the pigeonhole principle one of them comes twice, and the forms between
are the circle (`LongChainsAreCyclic`). The third, `TypeInv`,
says of the data of each activation what `DocumentsAssumption` says of the document's: strings of bytes, fonts that turn codes into
characters, and the texts made of them (`DecodedIsText`, `ArrayIsText`, `AppendedIsText`; `FontsWithin` adds only such fonts,
`FormHasFonts`). The activations below wait at their `Do`, inside their streams, so that a return finds the next token or the end.
With `StackInv` it gives `TypeOK` (`TypesAreKept`): the places stay in their streams, and there is one text for each page in the end.
It is also what the descent rests on (`EveryStepLeavesLessAhead`). A form that is drawn again and again makes the work grow
exponentially with the depth, so that no sum over the stack goes down; but a row with one number for each depth, the tokens
that the activation there has ahead of it, goes down where it first changes: a `Do` takes something from its caller and adds
only above it. Such rows cannot go down for ever (`RowsAreWellFounded`) because `MaxDepth` bounds their length.

The same module proves the refinement `Spec => AnswersThePageText` and `WellFormedTextIsComplete`, for every set of documents. `PageText` tells
of a place in a stream, by what stands before it, whether it is in a text object, its font, its line and the text so far. The invariant `Agrees` says that the
local variables of an activation are these, and one lemma for each of them says what a single token changes in it
(`InTextGoesOn`, `FontGoesOn`, `LineGoesOn`, `TextGoesOn`); the lemmas about operators (`OperatorProceeds`) say the same of the
code. The items of a `TJ` array are the only ones that the code finds by going back (`WalkFindsItems`: the count of brackets
is the depth in the array). The recursion into forms is followed by paths: `IsFollowed` gives each activation on the stack a path, each one longer by the place
at which the one below it waits. The text along a path is a function defined by itself, on the longer paths; that there is one
(`ValuesExist`), and that what holds of the longest paths and is handed down holds of all (`PathsEnd`), is induction over how much a path is shorter
than `MaxDepth`. So when an activation returns, what it has gathered is what the place it is drawn at stands for (`TextOfStream`), and `TextInv` follows
with each page. A page whose recursion the machine's stack cannot hold has no text, in the code and in the refinement: there is no answer.
`WellFormedTextIsWhole` is then about `PageText` alone. Up to each place the letters of the text and of the pending line together are
those of all that was shown (`IsWhole`), and outside of text objects no line is pending; an operator that draws is outside of them, so that the
form's text comes after all that was shown before it, and nothing is left over at the end. Joining pieces adds spaces only
(`LettersOfAppended`).
The assumption of `TextInterpreter` is about the shape of the model's data: a stream is bytes in the code, and whatever they are
`TokenParser` makes tokens of them and `parse_cmap` a map or none; in the model a stream holds the one of the two that the document uses.

`DocumentParser_proofs` proves all invariants of the run `document` and the refinement
`Spec => AnswersTheTable`, for all sets of files that satisfy `FilesAssumption` (the items of a file and the entries
of a stream are sequences, a key is a pair of numbers). `KeepsNewest` describes the table while the linear pass is at a place:
for each object the definition at the greatest place before it. `WasRead` says that none of the items passed is
rejected or ends the pass; so the first rejected item decides between an error and a panic, as the table has it
(`AbortedIsRejected`). `HasFollowed` describes the table after some of the entries: for each object that a usable
entry decides, the last such entry, for all others the table of the body. The invariant `Agrees` puts them
together phase by phase, and the lemmas about trailers (`TrailerFound`, `LeastKey`) say that the search backwards and
the least key are the ones that the declarative table means. Each step looks at one item or entry more or goes on to a later phase
(`EveryStepLeavesLessAhead`): none is recognised without being passed.

`ValueParser_proofs` proves `OnlyNumbersWait` of the run `grammar`, and that what is malformed is reported
(`ErrorsAreReported`). The invariant `IInv` adds that the attempts under way are the innermost calls, each behind the number
of the one outside of it, and that while one is under way the next byte is a digit: so nothing but a number is read
inside, no error can occur there, and going back never hides one. Going back could also keep the parse busy for ever; that it
does not is `EveryStepLeavesLessAhead`: a place is given up for one before it only inside a run of numbers, and each attempt
at that run is made once before the first of its numbers is kept for good. All this rests on `PdfSyntax_proofs`:
what a name, a string, a number and the skipping of white space consume, for all bytes.
`References` proves `ReferencesAreExact`, under `WidthsFit`: the significand has at most 31 bits and holds every
generation (in the code 24 bits, and a generation is a `u16`). The invariant `ExactInv` remembers where the numbers came from: each
attempt holds the number that was read right before the place it goes back to, the number of the attempt inside it
starts behind the white space there, and no place ever stands inside a row of digits (`Apart`), be it reached by reading on or by
going back. So when the `R` comes the parser has read the text in the only way it can be read (`OneReading`). That the `f32` in between does no harm
is `PlainNumber`: digits alone have no sign and no fraction, their exponent lies below `Mantissa` (`ExponentExists`, by counting
subsets, `PowerDoubles`), and rounding to a step that divides a whole number leaves it as it is.
`Answers` proves `AnswersTheReading` for all texts: what the parse returns is what `ValueReading` makes of them, an error
if that is nothing. The reading of a place depends on the places behind it only (`PartsAgree`), so there is one function that gives it
(`SolutionExists`). The invariant `ReadingInv` says that the calls under way begin one inside the other, from the start of the text
(`Chain`), and that each will answer the reading of the place it began at: this is what it holds already, together with what the grammar reads
where it goes on (`Says`). An attempt at a reference holds a number whose meaning is open, and `AttemptSays` shows that
either way out, the `R` or going back, is the one that looking ahead foretells. An error ends all calls, and what is around a place
without a reading has none (`AllFail`). At the end of the text the code may have skipped the white space behind a number and
then gone back; the values are then the same, the places are not (`SamePlace`).

`StreamReader_proofs` is about streams, for every set of sources that satisfies `SourcesAssumption` (bytes are bytes,
`/Columns` is a whole number, an array lists its items). The lexer comes first: each pass of its loop consumes a byte and stays
within the data (`EveryStepConsumes`), and there are never more tokens than bytes read (`TokensAreBounded`).
The invariant `ReaderInv` carries this through the whole reader: filters and predictor make bytes of bytes
(`ReaderTypesAreKept`; ASCII85 and hexadecimal digits yield values below 256, whatever they are given), and the phase "aborted" is
entered only where `AbortsOnlyAtLimits` says. `EveryStepLeavesLessAhead` is the safety half of `Terminates`: what is
ahead of the reader, the streams still to open, then the work on the one that is open, then
its bytes, decreases with each step in a lexicographic order that the same theorem shows to be well-founded.
What decoding yields is proved in three places. `HexInverts` says that hexadecimal digits are read back, for all bytes,
and `GroupInverts` that a group of five digits to the base 85 is read as the four bytes of its number. `LoopUndoesRows` says that
the loop of `apply_png_predictor` undoes what `StreamEncodings` writes, the prediction of all rows, each by its own algorithm: it
rests on `PaethIsNearest` (the three comparisons of `paeth_predictor` choose the neighbour that the standard defines as
the nearest), on `RowInverts` (a row is rebuilt from left to right) and on `PassUndoesRow`.

`SignatureVerifier_proofs` proves `CoversWhatTheRangeSays` of the run `signature` for every set of files and
every width of a word. The invariant `IInv` says what is known after each step: the range consists of words,
the data are what `SignedData` yields for it, and there is a gap between the segments. A sum
that has wrapped is less than each of its terms (`NoWrap`), so the slice that would begin at
the offset and end at such a sum panics, and no answer is given. This is why the code gets by without
a check for overflow, and it depends on the order of the two bounds of a slice, not on any test in the code.
`TrueRestsOnTheContainer` adds what an answer of true rests on: the digits taken are the container, it has parsed, its
digest is that of the covered bytes, and its key has signed its attributes. `OnlyAuthenticIsTrue` opens the container: when its values are lists of blocks (`HasLists`, part of
`FilesAssumption`), each step of the parser's way (`SignerInfo`, `SignedAttributes`, `CorrectTbs`, `PublicKey`) leads to a block inside
the one before it, so that what it finds is among what the search at all depths, `Authentic`, ranges over. The depth
of a block is bounded by well-founded recursion, and `TypesAreKept` gives the shape of what the steps pass on.

`BytesSurviveFraming`, `TapeIsLongEnough` and `TapeIsReadToTheEnd` together are the protocol between
`prepare_input.py` and `main.rs`; nothing else checks the two against each other.

Only model-checked: liveness (`Terminates`, `AlwaysReports`). Its safety half is proved for all six modules that have
it, `EveryStepLeavesLessAhead`: no behaviour takes steps for ever. That a step can be taken until there is an answer
needs `ENABLED` and is left to the runs, as is the fairness that then takes it. Also `ReadsWrittenTokens`, `ReadsWrittenMaps` (what folds over digits and words compute);
`FiltersInvert`, of which the parts named above are proved and the joints are not: the groups of ASCII85 one after the other,
and chains of filters; `JudgesWrittenFiles` (it is about what the instance writes).
Induction is over sets of numbers (`NatInduct`), for statements written out: the theorems of the
library that take a property as a parameter cannot be instantiated.

## Findings

1. `main.rs:183` against `README.md:64`: sizes 1 to 9 abort the execution instead of
   reporting error code 1 (run `guest_sizes`).
2. `parser.rs:518` against `parser.rs:517`: after a search for `endstream` the position is still at
   the data, so a stream without a direct `/Length` fails the document (run `document_length`).
3. `parser.rs:1016` against `parser.rs:626`: following the oldest cross-reference stream
   undoes updates (run `document_update`).
4. `pkcs7_reference.rs:366` against `main.rs:341`: an empty sequence among the fields of a
   certificate, such as an empty subject, ends the execution instead of making the signature
   invalid (run `signature_unnamed`).
5. `signed_bytes_extractor.rs:116` against `signed_bytes_extractor.rs:109`: the only search for
   `/Contents` begins before `/ByteRange`, so the hexadecimal text of an annotation in front is taken for the signature
   although the signature's digits stand behind (run `signature_contents`).

## Not modelled

- Loggers and UART output, the scan of `/ByteRange` in `main.rs:249-325` included: no result depends on them.
- `validate_and_extract_pdf` of the core library: `main.rs` does not call it. It calls the two libraries one after the other and
  passes their errors on.
- Allocator, linker scripts, start-up code, build and CI: no logic of the program. The limits that memory sets are
  constants (`MaxDepth`, `Room`, `MaxRange`).
- The inflate, ASN.1, hash and RSA libraries: they are not in the repository, and external where used.
- The length that `extract_signed_attributes_der` writes in two bytes: the attributes are one value.
- One model of the whole extraction. `DocumentParser`, `PageTree`, `StreamReader` and `TextInterpreter` are joined by the data that
  they exchange, which the abstract answers describe (`DocumentTable`, `PageCatalogue`, the written tokens and maps of
  `MCStreamReader`, `PageText`): each later module takes as input what the answer of the one before it can be. Together in one
  state space they would repeat these inputs for every file, without a step in which two of them interact: each function
  returns before the next is called.
