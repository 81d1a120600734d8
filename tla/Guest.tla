------------------------------- MODULE Guest -------------------------------
(***************************************************************************)
(* The zkVM program: workload() of main.rs, fed by prepare_input.py.  The  *)
(* host lays the PDF and the expected text out as a tape of 32-bit words;  *)
(* the guest reads it word by word through csr_read_word, which only moves *)
(* forward, and must rebuild both byte strings from nothing but the sizes. *)
(* A byte is named by its offset on the tape, so that a buffer that holds  *)
(* a wrong, missing or padding byte differs from what the host was given.  *)
(***************************************************************************)
EXTENDS Verdict

CONSTANT Jobs

ASSUME JobsAssumption ==
    \A j \in Jobs :
        /\ j.heap \in BOOLEAN /\ j.header \in BOOLEAN
        /\ j.extracted \in BOOLEAN /\ j.utf8 \in BOOLEAN
        /\ j.pdfSize \in Nat /\ j.textSize \in Nat
        /\ j.signature \in {"valid", "invalid", "error"}
        /\ Len(j.pages) \in Nat
        /\ \A n \in 1..Len(j.pages) : j.pages[n].contains \in BOOLEAN

VARIABLES
    job,        \* what the host framed: never changed
    pc,         \* where workload() is
    cursor,     \* the words the guest has read
    left,       \* the rounds left of the loop over words
    inputSize,  \* input_size
    pdf,        \* pdf_data
    textSize,   \* expected_text_size
    text,       \* expected_text
    sigValid,   \* signature_valid
    page,       \* the page the search is at, from 1
    found,      \* text_found
    output      \* what zksync_os_finish_* was called with

vars == <<job, pc, cursor, left, inputSize, pdf, textSize, text, sigValid, page, found, output>>

-----------------------------------------------------------------------------
(***************************************************************************)
(* The host: prepare_input.py                                              *)
(***************************************************************************)

\* while len(input_data) % 4 != 0: append(0)
Padded(n) == n + ((4 - (n % 4)) % 4)

\* The offsets of the PDF: after the four bytes of its size.
PdfBytes(j) == [i \in 1..j.pdfSize |-> 4 + i]

\* The place in the PDF of the byte at an offset of the tape.
PlaceOf(offset) == offset - 4

\* The word of the text's size follows the padded PDF.
TextSizeWord(j) == (Padded(4 + j.pdfSize) \div 4) + 1

\* The offsets of the text.
TextBytes(j) == [i \in 1..j.textSize |-> 4 * TextSizeWord(j) + i]

\* Mutant: the page word is left out.
TapeWordsWithoutPage(j) == Padded(4 * TextSizeWord(j) + j.textSize) \div 4

\* The text is not padded: the page word starts right after it.
TapeWords(j) == Padded(4 * TextSizeWord(j) + j.textSize + 4) \div 4

-----------------------------------------------------------------------------
(***************************************************************************)
(* The guest                                                               *)
(***************************************************************************)

\* Mutant: one word more than there is when the size is a multiple of four.
OneWordMore(n) == (n \div 4) + 1

CeilDiv4(n) == (n + 3) \div 4

\* What a word says when it is read as a size.  Only the two size words hold one.
SizeIn(w) ==
    IF w = 1 THEN job.pdfSize
    ELSE IF w = TextSizeWord(job) THEN job.textSize ELSE 0

\* csr_read_word: the next word, as long as there is one.
ReadWord == cursor < TapeWords(job) /\ cursor' = cursor + 1

\* Mutant: the pushes are not guarded.
PushWholeWord(buffer, size, w) == buffer \o [k \in 1..4 |-> 4 * (w - 1) + k]

\* The four pushes of a word, each made only while the buffer is too short.
PushWord(buffer, size, w) ==
    LET room == size - Len(buffer)
        n == IF room < 4 THEN room ELSE 4
    IN  buffer \o [k \in 1..n |-> 4 * (w - 1) + k]

\* Mutant: the call that ends the execution returns.
FinishAndGoOn(what) == output' = what /\ pc' = pc

Finish(what) == output' = what /\ pc' = "done"

Init ==
    /\ job \in Jobs
    /\ pc = "heap"
    /\ cursor = 0 /\ left = 0
    /\ inputSize = 0 /\ pdf = <<>>
    /\ textSize = 0 /\ text = <<>>
    /\ sigValid = FALSE
    /\ page = 1 /\ found = FALSE
    /\ output = Nothing

InitHeap ==
    /\ pc = "heap"
    /\ IF job.heap THEN pc' = "size" /\ UNCHANGED output
                   ELSE Finish(Success(<<HeapMark>>))
    /\ UNCHANGED <<job, cursor, left, inputSize, pdf, textSize, text, sigValid, page, found>>

\* The size word is checked before anything is allocated for it.
ReadInputSize ==
    /\ pc = "size"
    /\ ReadWord
    /\ inputSize' = SizeIn(cursor')
    /\ IF inputSize' > MaxInputSize \/ inputSize' = 0
       THEN Finish(Failure(1, inputSize', inputSize', 0, 0)) /\ UNCHANGED left
       ELSE pc' = "pdf" /\ left' = CeilDiv4(inputSize') /\ UNCHANGED output
    /\ UNCHANGED <<job, pdf, textSize, text, sigValid, page, found>>

ReadPdfWord ==
    /\ pc = "pdf"
    /\ left > 0
    /\ ReadWord
    /\ pdf' = PushWord(pdf, inputSize, cursor')
    /\ left' = left - 1
    /\ UNCHANGED <<job, pc, inputSize, textSize, text, sigValid, page, found, output>>

\* The loop is over: the checks on the size and the header that follow it.
CheckPdf ==
    /\ pc = "pdf"
    /\ left = 0
    /\ IF inputSize < MinInputSize THEN Finish(Aborted)
       ELSE \E isPdf \in BOOLEAN :
               \* What the bytes say is what the host's bytes say, if they are those.
               /\ pdf = PdfBytes(job) => isPdf = job.header
               /\ IF Len(pdf) >= HeaderSize /\ ~isPdf
                  THEN Finish(Failure(5, PlaceOf(pdf[1]), PlaceOf(pdf[2]), PlaceOf(pdf[3]), PlaceOf(pdf[4])))
                  ELSE pc' = "textSize" /\ UNCHANGED output
    /\ UNCHANGED <<job, cursor, left, inputSize, pdf, textSize, text, sigValid, page, found>>

\* The size of the text is not bounded by the guest.
ReadTextSize ==
    /\ pc = "textSize"
    /\ ReadWord
    /\ textSize' = SizeIn(cursor')
    /\ left' = CeilDiv4(textSize')
    /\ pc' = "text"
    /\ UNCHANGED <<job, inputSize, pdf, text, sigValid, page, found, output>>

ReadTextWord ==
    /\ pc = "text"
    /\ left > 0
    /\ ReadWord
    /\ text' = PushWord(text, textSize, cursor')
    /\ left' = left - 1
    /\ UNCHANGED <<job, pc, inputSize, pdf, textSize, sigValid, page, found, output>>

\* Mutant: the page number, no longer used, is no longer read.
SkipPageNumber ==
    /\ pc = "text"
    /\ left = 0
    /\ pc' = "verify"
    /\ UNCHANGED <<job, cursor, left, inputSize, pdf, textSize, text, sigValid, page, found, output>>

\* The page number is read and forgotten.
ReadPageNumber ==
    /\ pc = "text"
    /\ left = 0
    /\ ReadWord
    /\ pc' = "verify"
    /\ UNCHANGED <<job, left, inputSize, pdf, textSize, text, sigValid, page, found, output>>

\* Mutant: only the answer Ok(false) counts as an invalid signature.
VerifyUnlessInvalid ==
    /\ pc = "verify"
    /\ \E answer \in {"valid", "invalid", "error"} :
          /\ pdf = PdfBytes(job) => answer = job.signature
          /\ sigValid' = (answer # "invalid")
    /\ pc' = "extract"
    /\ UNCHANGED <<job, cursor, left, inputSize, pdf, textSize, text, page, found, output>>

\* An error of the validator counts as an invalid signature.
VerifySignature ==
    /\ pc = "verify"
    /\ \E answer \in {"valid", "invalid", "error"} :
          /\ pdf = PdfBytes(job) => answer = job.signature
          /\ sigValid' = (answer = "valid")
    /\ pc' = "extract"
    /\ UNCHANGED <<job, cursor, left, inputSize, pdf, textSize, text, page, found, output>>

\* The text is extracted whatever the signature; an error ends the program.
ExtractText ==
    /\ pc = "extract"
    /\ \E ok \in BOOLEAN :
          /\ pdf = PdfBytes(job) => ok = job.extracted
          /\ IF ok THEN pc' = "expected" /\ UNCHANGED output
                   ELSE Finish(Failure(2, ErrorHash, Len(pdf), 0, 0))
    /\ UNCHANGED <<job, cursor, left, inputSize, pdf, textSize, text, sigValid, page, found>>

\* The expected text is decoded only now, and only if there is one.
DecodeExpected ==
    /\ pc = "expected"
    /\ IF textSize = 0 THEN found' = TRUE /\ pc' = "report" /\ UNCHANGED output
       ELSE \E utf8 \in BOOLEAN :
               /\ text = TextBytes(job) => utf8 = job.utf8
               /\ UNCHANGED found
               /\ IF utf8 THEN pc' = "search" /\ UNCHANGED output
                          ELSE Finish(Failure(3, 0, 0, 0, 0))
    /\ UNCHANGED <<job, cursor, left, inputSize, pdf, textSize, text, sigValid, page>>

\* Mutant: the search goes on after a match.
SearchEveryPage ==
    /\ pc = "search"
    /\ page <= Len(job.pages)
    /\ \E contains \in BOOLEAN :
          /\ text = TextBytes(job) => contains = job.pages[page].contains
          /\ found' = (found \/ contains)
          /\ page' = page + 1
    /\ UNCHANGED <<job, pc, cursor, left, inputSize, pdf, textSize, text, sigValid, output>>

\* One round of the search: it stops at the first page that contains the text.
SearchPage ==
    /\ pc = "search"
    /\ page <= Len(job.pages)
    /\ \E contains \in BOOLEAN :
          /\ text = TextBytes(job) => contains = job.pages[page].contains
          /\ found' = contains
          /\ page' = IF contains THEN page ELSE page + 1
          /\ pc' = IF contains THEN "report" ELSE "search"
    /\ UNCHANGED <<job, cursor, left, inputSize, pdf, textSize, text, sigValid, output>>

SearchOver ==
    /\ pc = "search"
    /\ page > Len(job.pages)
    /\ pc' = "report"
    /\ UNCHANGED <<job, cursor, left, inputSize, pdf, textSize, text, sigValid, page, found, output>>

PublishResults ==
    /\ pc = "report"
    /\ Finish(Success(<<IF sigValid THEN 1 ELSE 0,
                        IF found THEN 1 ELSE 0,
                        IF found /\ textSize > 0 THEN page - 1 ELSE 0,
                        Len(job.pages),
                        inputSize,
                        IF job.pages = <<>> THEN NoHash ELSE job.pages[1].hash,
                        textSize,
                        0>>))
    /\ UNCHANGED <<job, cursor, left, inputSize, pdf, textSize, text, sigValid, page, found>>

Next ==
    \/ InitHeap
    \/ ReadInputSize \/ ReadPdfWord \/ CheckPdf
    \/ ReadTextSize \/ ReadTextWord \/ ReadPageNumber
    \/ VerifySignature \/ ExtractText
    \/ DecodeExpected \/ SearchPage \/ SearchOver
    \/ PublishResults

Spec == Init /\ [][Next]_vars

\* A bare-metal program with interrupts off: while it can step, it steps.
FairSpec == Spec /\ WF_vars(Next)

-----------------------------------------------------------------------------
(***************************************************************************)
(* Properties                                                              *)
(***************************************************************************)

Stages == {"heap", "size", "pdf", "textSize", "text", "verify", "extract", "expected",
           "search", "report", "done"}

\* The variables of workload() have their types; there is a report exactly when
\* the program has ended.
TypeOK ==
    /\ pc \in Stages
    /\ cursor \in Nat /\ left \in Nat /\ inputSize \in Nat /\ textSize \in Nat
    /\ pdf \in Seq(Nat) /\ text \in Seq(Nat)
    /\ sigValid \in BOOLEAN /\ found \in BOOLEAN
    /\ page \in 1..(Len(job.pages) + 1)
    /\ (pc = "done") <=> (output # Nothing)

\* The stages at which both buffers are complete.
Computing == {"verify", "extract", "expected", "search", "report"}

\* What the libraries are given is what the host was given, for every size and
\* every padding: no byte is lost, doubled, shifted or taken from the padding
\* (the two read loops of workload() against prepare_input.py).
BuffersAreExact ==
    /\ pc \in Computing \cup {"textSize", "text"} =>
          inputSize = job.pdfSize /\ pdf = PdfBytes(job)
    /\ pc \in Computing => textSize = job.textSize /\ text = TextBytes(job)

\* csr_read_word is never called on an exhausted tape, and the two size words are
\* read where the host has put them.
NeverStarved ==
    /\ pc \in {"size", "textSize", "text"} \/ (pc = "pdf" /\ left > 0) =>
          cursor < TapeWords(job)
    /\ pc = "size" => cursor = 0
    /\ pc = "textSize" => cursor + 1 = TextSizeWord(job)

\* A computation starts when the whole tape has been read, the page word that lies
\* across two words included: no input is left to be taken for another job.
TapeIsConsumed == pc \in Computing => cursor = TapeWords(job)

\* A report that claims a valid signature and a text found is about a document
\* whose signature is valid and whose page of that number is the first to hold
\* the text.
ClaimsAreTrue ==
    output.kind = "success" /\ output.words[1] = 1 =>
        /\ job.signature = "valid" /\ job.header /\ job.extracted
        /\ output.words[2] = 1 /\ job.textSize > 0 =>
              /\ job.utf8
              /\ job.pages[output.words[3] + 1].contains
              /\ \A j \in 1..output.words[3] : ~job.pages[j].contains

\* README.md, error codes: result[1] = 1 is "Invalid input size".  A PDF of a size
\* the program rejects gets that report.
InvalidSizeIsReported ==
    pc = "done" /\ job.heap /\ (~SizeIsAccepted(job) \/ job.pdfSize < MinInputSize) =>
        /\ output.kind = "success"
        /\ output.words[1] = ErrorMark /\ output.words[2] = 1

Promise == INSTANCE Report WITH request <- job, published <- output

\* The program implements its report: one verdict, the right one, never changed.
PublishesTheVerdict == Promise!Spec

\* It always gets to its report: no reachable state waits for a word that is not
\* on the tape.
AlwaysReports == <>(output # Nothing)
=============================================================================
