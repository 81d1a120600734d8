------------------------------ MODULE Verdict ------------------------------
(***************************************************************************)
(* The result words of the zkVM program as a function of a job, following  *)
(* the layout that README.md documents.  A job is what the host was given  *)
(* and what the libraries say of it:                                       *)
(*   heap        the linker script leaves room for a heap                  *)
(*   pdfSize     length of the PDF in bytes                                *)
(*   header      the PDF starts with %PDF                                  *)
(*   signature   verify_pdf_signature: "valid", "invalid" or "error"       *)
(*   extracted   extract_text answers Ok                                   *)
(*   pages       the pages it yields: whether the page contains the        *)
(*               expected text, and the hash of its first 32 bytes         *)
(*   textSize    length of the expected text in bytes                      *)
(*   utf8        the expected text is UTF-8                                *)
(***************************************************************************)
EXTENDS Integers, Sequences

CONSTANTS
    MaxInputSize,  \* 10_000_000 in main.rs
    MinInputSize,  \* 10 in main.rs
    HeaderSize,    \* 8 in main.rs
    ErrorMark,     \* 0xFFFFFFFF, the first word of an error report
    HeapMark,      \* 0xDEAD0001, the first word when there is no heap
    NoHash,        \* the hash 0 of a document without pages
    ErrorHash      \* the hash of the extractor's error message

ASSUME SizesAssumption ==
    /\ MaxInputSize \in Nat /\ MinInputSize \in Nat /\ HeaderSize \in Nat
    /\ 4 <= HeaderSize /\ HeaderSize <= MinInputSize /\ MinInputSize <= MaxInputSize

ASSUME MarksAssumption == ErrorMark \notin {0, 1} /\ HeapMark \notin {0, 1, ErrorMark}

Nothing == [kind |-> "none"]

\* zksync_os_finish_error: the execution has no result words.
Aborted == [kind |-> "aborted"]

\* zksync_os_finish_success.
Success(words) == [kind |-> "success", words |-> words]

Failure(code, a, b, c, d) == Success(<<ErrorMark, code, a, b, c, d, 0, 0>>)

-----------------------------------------------------------------------------

SizeIsAccepted(job) == 0 < job.pdfSize /\ job.pdfSize <= MaxInputSize

Matches(job) == {j \in 1..Len(job.pages) : job.pages[j].contains}

\* The first page that contains the text, counted from 0; 0 when none does or no
\* text is asked for.
FoundPage(job) ==
    IF job.textSize = 0 \/ Matches(job) = {} THEN 0
    ELSE (CHOOSE j \in Matches(job) : \A i \in Matches(job) : j <= i) - 1

\* A byte of the PDF that is reported is named by its place, 1 for the first.
Verdict(job) ==
    IF ~job.heap THEN Success(<<HeapMark>>)
    ELSE IF ~SizeIsAccepted(job) THEN Failure(1, job.pdfSize, job.pdfSize, 0, 0)
    ELSE IF job.pdfSize < MinInputSize THEN Aborted
    ELSE IF ~job.header THEN Failure(5, 1, 2, 3, 4)
    ELSE IF ~job.extracted THEN Failure(2, ErrorHash, job.pdfSize, 0, 0)
    ELSE IF job.textSize > 0 /\ ~job.utf8 THEN Failure(3, 0, 0, 0, 0)
    ELSE Success(<<IF job.signature = "valid" THEN 1 ELSE 0,
                   IF job.textSize = 0 \/ Matches(job) # {} THEN 1 ELSE 0,
                   FoundPage(job),
                   Len(job.pages),
                   job.pdfSize,
                   IF job.pages = <<>> THEN NoHash ELSE job.pages[1].hash,
                   job.textSize,
                   0>>)
=============================================================================
