---------------------------- MODULE Guest_proofs ----------------------------
(***************************************************************************)
(* Proofs about Guest, for every size of the PDF and of the text and every *)
(* bound: the guest rebuilds exactly the bytes the host framed, never      *)
(* reads past the tape, publishes the verdict on the job, and takes no     *)
(* more steps than there are words, pages and stages.                      *)
(***************************************************************************)
EXTENDS Guest, SequenceTheorems, TLAPS

-----------------------------------------------------------------------------
(***************************************************************************)
(* Words and padding                                                       *)
(***************************************************************************)

\* n.div_ceil(4) words are enough for n bytes, and one less is not.
LEMMA CeilIsEnough ==
    ASSUME NEW n \in Nat
    PROVE  /\ CeilDiv4(n) \in Nat
           /\ n <= 4 * CeilDiv4(n)
           /\ 4 * CeilDiv4(n) < n + 4
  BY DEF CeilDiv4

\* Padding to a multiple of four gives as many words as div_ceil counts.
LEMMA PaddedIsCeil ==
    ASSUME NEW n \in Nat
    PROVE  Padded(n) = 4 * CeilDiv4(n)
  BY DEF Padded, CeilDiv4

LEMMA WordsOfFour ==
    ASSUME NEW k \in Nat
    PROVE  (4 * k) \div 4 = k
  OBVIOUS

\* The word of the text's size comes after the size of the PDF and its words.
LEMMA TextSizeWordIs ==
    ASSUME NEW j, j.pdfSize \in Nat
    PROVE  TextSizeWord(j) = 2 + CeilDiv4(j.pdfSize)
<1>1. CeilDiv4(4 + j.pdfSize) = 1 + CeilDiv4(j.pdfSize)
  BY DEF CeilDiv4
<1>2. Padded(4 + j.pdfSize) = 4 * (1 + CeilDiv4(j.pdfSize))
  BY <1>1, PaddedIsCeil
<1>3. 1 + CeilDiv4(j.pdfSize) \in Nat
  BY CeilIsEnough
<1>4. Padded(4 + j.pdfSize) \div 4 = 1 + CeilDiv4(j.pdfSize)
  BY <1>2, <1>3, WordsOfFour
<1>5. TextSizeWord(j) = (1 + CeilDiv4(j.pdfSize)) + 1
  BY <1>4 DEF TextSizeWord
<1>6. CeilDiv4(j.pdfSize) \in Nat
  BY CeilIsEnough
<1> QED
  BY <1>5, <1>6

\* The words of the text and one more: the unaligned page word never needs two.
LEMMA TapeWordsIs ==
    ASSUME NEW j, j.pdfSize \in Nat, j.textSize \in Nat
    PROVE  TapeWords(j) = TextSizeWord(j) + CeilDiv4(j.textSize) + 1
<1> DEFINE w == TextSizeWord(j)
           t == j.textSize
<1>1. w \in Nat
  BY TextSizeWordIs, CeilIsEnough
<1>2. t \in Nat
  OBVIOUS
<1> HIDE DEF w, t
<1>3. CeilDiv4(4 * w + t + 4) = w + CeilDiv4(t) + 1
  BY <1>1, <1>2 DEF CeilDiv4
<1>4. Padded(4 * w + t + 4) = 4 * (w + CeilDiv4(t) + 1)
  BY <1>1, <1>2, <1>3, PaddedIsCeil
<1>5. w + CeilDiv4(t) + 1 \in Nat
  BY <1>1, <1>2, CeilIsEnough
<1>6. Padded(4 * w + t + 4) \div 4 = w + CeilDiv4(t) + 1
  BY <1>4, <1>5, WordsOfFour
<1> QED
  BY <1>6 DEF TapeWords, w, t

-----------------------------------------------------------------------------
(***************************************************************************)
(* The buffers                                                             *)
(***************************************************************************)

\* The bytes that k words give to a buffer of size bytes.
FilledLen(size, k) == IF 4 * k < size THEN 4 * k ELSE size

\* The buffer of size bytes whose first byte is at offset base + 1, after k words.
Filled(base, size, k) == [i \in 1..FilledLen(size, k) |-> base + i]

LEMMA FilledLenIs ==
    ASSUME NEW size \in Nat, NEW k \in Nat
    PROVE  FilledLen(size, k) \in Nat /\ FilledLen(size, k) <= size
  BY DEF FilledLen

LEMMA FilledIsSeq ==
    ASSUME NEW base \in Nat, NEW size \in Nat, NEW k \in Nat
    PROVE  /\ Filled(base, size, k) \in Seq(Nat)
           /\ Len(Filled(base, size, k)) = FilledLen(size, k)
           /\ \A i \in 1..FilledLen(size, k) : Filled(base, size, k)[i] = base + i
<1> DEFINE n == FilledLen(size, k)
<1>1. n \in Nat
  BY FilledLenIs
<1>2. Filled(base, size, k) = [i \in 1..n |-> base + i]
  BY DEF Filled
<1> HIDE DEF n
<1>3. [i \in 1..n |-> base + i] \in Seq(Nat) /\ Len([i \in 1..n |-> base + i]) = n
  BY <1>1
<1> QED
  BY <1>1, <1>2, <1>3 DEF n

\* One word more: the guarded pushes extend a filled buffer to a filled buffer.
LEMMA PushWordFills ==
    ASSUME NEW w0 \in Nat, NEW size \in Nat, NEW k \in Nat
    PROVE  PushWord(Filled(4 * w0, size, k), size, w0 + k + 1) = Filled(4 * w0, size, k + 1)
<1> DEFINE base == 4 * w0
           b == Filled(base, size, k)
           c == Filled(base, size, k + 1)
           m == FilledLen(size, k)
           m2 == FilledLen(size, k + 1)
           n == IF size - m < 4 THEN size - m ELSE 4
           tail == [i \in 1..n |-> 4 * (w0 + k) + i]
<1>0. base \in Nat /\ k + 1 \in Nat
  OBVIOUS
<1>3. n \in Nat /\ m + n = m2 /\ (n > 0 => m = 4 * k) /\ m \in Nat /\ m2 \in Nat
  BY DEF FilledLen
<1>m. m \in Nat
  BY <1>3
<1>n. n \in Nat /\ m + n = m2
  BY <1>3
<1>i. \A i \in 1..m2 : i \in 1..(m + n) /\ i \in Nat
  BY <1>3
<1>k. 4 * (w0 + k) = base + 4 * k /\ 4 * (w0 + k) \in Nat
  OBVIOUS
<1> HIDE DEF base
<1>1. b \in Seq(Nat) /\ Len(b) = m /\ \A i \in 1..m : b[i] = base + i
  BY <1>0, FilledIsSeq
<1>2. c \in Seq(Nat) /\ Len(c) = m2 /\ \A i \in 1..m2 : c[i] = base + i
  BY <1>0, FilledIsSeq
<1>4. (w0 + k + 1) - 1 = w0 + k
  OBVIOUS
<1> HIDE DEF b, c, m, m2
<1>5. PushWord(b, size, w0 + k + 1) = b \o tail
  BY <1>1, <1>4 DEF PushWord
<1> HIDE DEF n
<1>6. tail \in Seq(Nat) /\ Len(tail) = n /\ \A i \in 1..n : tail[i] = 4 * (w0 + k) + i
  BY <1>3, <1>k
<1> HIDE DEF tail
<1>7. /\ b \o tail \in Seq(Nat) /\ Len(b \o tail) = m + n
      /\ \A i \in 1..(m + n) : (b \o tail)[i] = IF i <= m THEN b[i] ELSE tail[i - m]
  BY <1>1, <1>6, ConcatProperties
<1>8. ASSUME NEW i \in 1..m2
      PROVE  (b \o tail)[i] = c[i]
  <2>1. CASE i <= m
    BY <1>1, <1>2, <1>3, <1>7, <2>1
  <2>2. CASE i > m
    <3>1. i - m \in 1..n /\ n > 0
      BY <1>3, <2>2
    <3>2. m = 4 * k
      BY <1>3, <3>1
    <3>3. tail[i - m] = 4 * (w0 + k) + (i - m)
      BY <1>6, <3>1
    <3>4. tail[i - m] = base + i
      BY <1>0, <1>3, <1>k, <3>2, <3>3
    <3>i. i \in Nat /\ i \in 1..(m + n) /\ ~(i <= m)
      BY <1>i, <1>m, <1>n, <2>2
    <3>5. (b \o tail)[i] = tail[i - m]
      BY <1>7, <3>i, Zenon
    <3> QED
      BY <1>2, <3>4, <3>5
  <2>3. i <= m \/ i > m
    BY <1>m, <1>n
  <2> QED
    BY <2>1, <2>2, <2>3
<1>9. b \o tail = c
  BY <1>2, <1>3, <1>7, <1>8, SeqEqual
<1> QED
  BY <1>5, <1>9 DEF b, c, base

\* All the words of a buffer fill it; no word leaves it empty.
LEMMA FilledEnds ==
    ASSUME NEW base \in Nat, NEW size \in Nat
    PROVE  /\ Filled(base, size, CeilDiv4(size)) = [i \in 1..size |-> base + i]
           /\ Filled(base, size, 0) = <<>>
<1>1. FilledLen(size, CeilDiv4(size)) = size
  BY CeilIsEnough DEF FilledLen
<1>2. FilledLen(size, 0) = 0
  BY DEF FilledLen
<1>3. Filled(base, size, 0) \in Seq(Nat) /\ Len(Filled(base, size, 0)) = 0
  BY <1>2, FilledIsSeq
<1> QED
  BY <1>1, <1>3, EmptySeq DEF Filled

-----------------------------------------------------------------------------
(***************************************************************************)
(* The reader                                                              *)
(***************************************************************************)

\* How far the guest is on the tape and what its buffers hold there.
FrameInv ==
    /\ pc \in {"heap", "size"} => cursor = 0 /\ pdf = <<>> /\ text = <<>>
    /\ pc = "pdf" =>
          /\ inputSize = job.pdfSize
          /\ cursor > 0 /\ cursor + left = 1 + CeilDiv4(inputSize)
          /\ pdf = Filled(4, inputSize, cursor - 1) /\ text = <<>>
    /\ pc \in Computing \cup {"textSize", "text"} =>
          inputSize = job.pdfSize /\ pdf = PdfBytes(job)
    /\ pc = "textSize" => cursor + 1 = TextSizeWord(job) /\ text = <<>>
    /\ pc = "text" =>
          /\ textSize = job.textSize
          /\ cursor >= TextSizeWord(job)
          /\ cursor + left = TextSizeWord(job) + CeilDiv4(textSize)
          /\ text = Filled(4 * TextSizeWord(job), textSize, cursor - TextSizeWord(job))
    /\ pc \in Computing =>
          /\ textSize = job.textSize /\ text = TextBytes(job)
          /\ cursor = TapeWords(job)

JobInv == job \in Jobs

\* The job, and where its words are.
LEMMA JobFacts ==
    ASSUME JobInv
    PROVE  /\ job.pdfSize \in Nat /\ job.textSize \in Nat
           /\ TextSizeWord(job) = 2 + CeilDiv4(job.pdfSize)
           /\ TextSizeWord(job) \in Nat
           /\ TapeWords(job) = TextSizeWord(job) + CeilDiv4(job.textSize) + 1
           /\ CeilDiv4(job.pdfSize) \in Nat /\ CeilDiv4(job.textSize) \in Nat
<1>1. job.pdfSize \in Nat /\ job.textSize \in Nat
  BY JobsAssumption DEF JobInv
<1>2. CeilDiv4(job.pdfSize) \in Nat /\ CeilDiv4(job.textSize) \in Nat
  BY <1>1, CeilIsEnough
<1>3. TextSizeWord(job) = 2 + CeilDiv4(job.pdfSize)
  BY <1>1, TextSizeWordIs
<1>4. TapeWords(job) = TextSizeWord(job) + CeilDiv4(job.textSize) + 1
  BY <1>1, TapeWordsIs
<1> QED
  BY <1>1, <1>2, <1>3, <1>4

\* The numbers the reader computes with; the rest of TypeOK is proved with them.
NumbersInv ==
    /\ pc \in Stages
    /\ cursor \in Nat /\ left \in Nat /\ inputSize \in Nat /\ textSize \in Nat

LEMMA NumbersStep == JobInv /\ NumbersInv /\ [Next]_vars => JobInv' /\ NumbersInv'
<1> SUFFICES ASSUME JobInv, NumbersInv, [Next]_vars
             PROVE  JobInv' /\ NumbersInv'
  OBVIOUS
<1>1. job' = job
  BY DEF Next, vars, InitHeap, ReadInputSize, ReadPdfWord, CheckPdf, ReadTextSize, ReadTextWord,
         ReadPageNumber, VerifySignature, ExtractText, DecodeExpected, SearchPage, SearchOver,
         PublishResults
<1>j. JobInv'
  BY <1>1 DEF JobInv
<1> SUFFICES NumbersInv'
  BY <1>j
<1>2. \A w : SizeIn(w) \in Nat
  BY JobFacts DEF SizeIn
<1>3. \A n \in Nat : CeilDiv4(n) \in Nat
  BY CeilIsEnough
<1>a. CASE UNCHANGED vars
  BY <1>a DEF vars, NumbersInv
<1>b. CASE InitHeap \/ CheckPdf \/ VerifySignature \/ ExtractText \/ DecodeExpected
           \/ SearchPage \/ SearchOver \/ PublishResults
  BY <1>b DEF InitHeap, CheckPdf, VerifySignature, ExtractText, DecodeExpected, SearchPage,
              SearchOver, PublishResults, Finish, NumbersInv, Stages
<1>c. CASE ReadInputSize
  BY <1>c, <1>2, <1>3 DEF ReadInputSize, ReadWord, Finish, NumbersInv, Stages
<1>d. CASE ReadTextSize
  BY <1>d, <1>2, <1>3 DEF ReadTextSize, ReadWord, NumbersInv, Stages
<1>e. CASE ReadPdfWord \/ ReadTextWord \/ ReadPageNumber
  BY <1>e DEF ReadPdfWord, ReadTextWord, ReadPageNumber, ReadWord, NumbersInv, Stages
<1> QED
  BY <1>a, <1>b, <1>c, <1>d, <1>e DEF Next

\* When the loop over the words of the PDF is over, the PDF is there.
LEMMA PdfComplete ==
    ASSUME JobInv, NumbersInv, FrameInv, pc = "pdf", left = 0
    PROVE  pdf = PdfBytes(job) /\ cursor + 1 = TextSizeWord(job)
<1>1. /\ inputSize = job.pdfSize /\ cursor + left = 1 + CeilDiv4(inputSize)
      /\ pdf = Filled(4, inputSize, cursor - 1)
  BY DEF FrameInv
<1>2. /\ cursor \in Nat /\ CeilDiv4(job.pdfSize) \in Nat /\ job.pdfSize \in Nat /\ 4 \in Nat
      /\ TextSizeWord(job) = 2 + CeilDiv4(job.pdfSize)
  BY JobFacts DEF NumbersInv
<1>3. cursor - 1 = CeilDiv4(job.pdfSize) /\ cursor + 1 = TextSizeWord(job)
  BY <1>1, <1>2
<1>4. Filled(4, job.pdfSize, CeilDiv4(job.pdfSize)) = [i \in 1..job.pdfSize |-> 4 + i]
  BY <1>2, FilledEnds
<1> QED
  BY <1>1, <1>3, <1>4, Zenon DEF PdfBytes

LEMMA FrameStep == JobInv /\ NumbersInv /\ FrameInv /\ [Next]_vars => FrameInv'
<1> SUFFICES ASSUME JobInv, NumbersInv, FrameInv, [Next]_vars
             PROVE  FrameInv'
  OBVIOUS
<1> DEFINE T == TextSizeWord(job)
<1>1. job' = job
  BY DEF Next, vars, InitHeap, ReadInputSize, ReadPdfWord, CheckPdf, ReadTextSize, ReadTextWord,
         ReadPageNumber, VerifySignature, ExtractText, DecodeExpected, SearchPage, SearchOver,
         PublishResults
<1>n. /\ cursor \in Nat /\ left \in Nat /\ inputSize \in Nat /\ textSize \in Nat
      /\ cursor' \in Nat /\ left' \in Nat /\ inputSize' \in Nat /\ textSize' \in Nat
  BY NumbersStep DEF NumbersInv
<1>j. /\ job.pdfSize \in Nat /\ job.textSize \in Nat
      /\ T \in Nat /\ T = 2 + CeilDiv4(job.pdfSize)
      /\ TapeWords(job) = T + CeilDiv4(job.textSize) + 1
      /\ CeilDiv4(job.pdfSize) \in Nat /\ CeilDiv4(job.textSize) \in Nat
  BY JobFacts
<1>m. TapeWords(job)' = TapeWords(job) /\ TextSizeWord(job)' = T
      /\ PdfBytes(job)' = PdfBytes(job) /\ TextBytes(job)' = TextBytes(job)
  BY <1>1
<1> HIDE DEF T
<1>a. CASE UNCHANGED vars
  BY <1>a DEF vars, FrameInv
<1>b. CASE InitHeap
  BY <1>b DEF InitHeap, Finish, FrameInv, Computing
<1>c. CASE ReadInputSize
  <2>1. pc = "size" /\ cursor = 0 /\ pdf = <<>> /\ text = <<>> /\ cursor' = 1
        /\ pdf' = pdf /\ text' = text /\ inputSize' = SizeIn(cursor')
    BY <1>c DEF ReadInputSize, ReadWord, FrameInv
  <2>2. inputSize' = job.pdfSize
    BY <2>1 DEF SizeIn
  <2>3. CASE pc' = "done"
    BY <2>3 DEF FrameInv, Computing
  <2>4. CASE pc' = "pdf" /\ left' = CeilDiv4(inputSize')
    <3>1. Filled(4, inputSize', 0) = <<>>
      BY <1>n, FilledEnds
    <3>2. cursor' - 1 = 0
      BY <2>1
    <3>3. pdf' = Filled(4, inputSize', cursor' - 1)
      BY <2>1, <3>1, <3>2
    <3>4. cursor' > 0 /\ cursor' + left' = 1 + CeilDiv4(inputSize')
      BY <1>j, <2>1, <2>2, <2>4
    <3> QED
      BY <1>1, <2>1, <2>2, <2>4, <3>3, <3>4 DEF FrameInv, Computing
  <2> QED
    BY <1>c, <2>3, <2>4 DEF ReadInputSize, Finish
<1>d. CASE ReadPdfWord
  <2>1. /\ pc = "pdf" /\ pc' = "pdf" /\ left > 0 /\ left' = left - 1 /\ cursor' = cursor + 1
        /\ inputSize' = inputSize /\ text' = text
        /\ pdf' = PushWord(pdf, inputSize, cursor')
    BY <1>d DEF ReadPdfWord, ReadWord
  <2>2. /\ inputSize = job.pdfSize /\ cursor > 0 /\ cursor + left = 1 + CeilDiv4(inputSize)
        /\ pdf = Filled(4, inputSize, cursor - 1) /\ text = <<>>
    BY <2>1 DEF FrameInv
  <2>3. cursor - 1 \in Nat /\ 1 + (cursor - 1) + 1 = cursor' /\ (cursor - 1) + 1 = cursor' - 1
        /\ 4 * 1 = 4
    BY <1>n, <2>1, <2>2
  <2>4. PushWord(Filled(4 * 1, inputSize, cursor - 1), inputSize, 1 + (cursor - 1) + 1)
            = Filled(4 * 1, inputSize, (cursor - 1) + 1)
    BY <1>n, <2>3, PushWordFills
  <2>5. pdf' = Filled(4, inputSize', cursor' - 1)
    BY <2>1, <2>2, <2>3, <2>4, Zenon
  <2>c. CeilDiv4(inputSize) \in Nat
    BY <1>j, <2>2
  <2>6. cursor' > 0 /\ cursor' + left' = 1 + CeilDiv4(inputSize')
    BY <1>n, <2>1, <2>2, <2>c
  <2> QED
    BY <1>1, <2>1, <2>2, <2>5, <2>6 DEF FrameInv, Computing
<1>e. CASE CheckPdf
  <2>1. /\ pc = "pdf" /\ left = 0 /\ cursor' = cursor /\ inputSize' = inputSize
        /\ pdf' = pdf /\ text' = text /\ pc' \in {"done", "textSize"}
    BY <1>e DEF CheckPdf, Finish
  <2>2. inputSize = job.pdfSize /\ text = <<>>
    BY <2>1 DEF FrameInv
  <2>3. pdf = PdfBytes(job) /\ cursor + 1 = T
    BY <2>1, PdfComplete DEF T
  <2> QED
    BY <1>1, <2>1, <2>2, <2>3 DEF FrameInv, Computing, T
<1>f. CASE ReadTextSize
  <2>1. /\ pc = "textSize" /\ pc' = "text" /\ cursor' = cursor + 1 /\ inputSize' = inputSize
        /\ pdf' = pdf /\ text' = text /\ textSize' = SizeIn(cursor')
        /\ left' = CeilDiv4(textSize')
    BY <1>f DEF ReadTextSize, ReadWord
  <2>2. inputSize = job.pdfSize /\ pdf = PdfBytes(job) /\ cursor + 1 = T /\ text = <<>>
    BY <2>1 DEF FrameInv, T
  <2>3. cursor' = T /\ T # 1
    BY <1>j, <2>1, <2>2
  <2>4. textSize' = job.textSize
    BY <2>1, <2>3 DEF SizeIn, T
  <2>5. 4 * T \in Nat /\ cursor' - T = 0
    BY <1>j, <2>3
  <2>6. Filled(4 * T, textSize', 0) = <<>>
    BY <1>n, <2>5, FilledEnds
  <2>7. text' = Filled(4 * T, textSize', cursor' - T)
    BY <2>1, <2>2, <2>5, <2>6
  <2>8. cursor' >= T /\ cursor' + left' = T + CeilDiv4(textSize')
    BY <1>j, <2>1, <2>3, <2>4
  <2> QED
    BY <1>1, <1>m, <2>1, <2>2, <2>4, <2>7, <2>8 DEF FrameInv, Computing
<1>g. CASE ReadTextWord
  <2>1. /\ pc = "text" /\ pc' = "text" /\ left > 0 /\ left' = left - 1 /\ cursor' = cursor + 1
        /\ inputSize' = inputSize /\ pdf' = pdf /\ textSize' = textSize
        /\ text' = PushWord(text, textSize, cursor')
    BY <1>g DEF ReadTextWord, ReadWord
  <2>2. /\ inputSize = job.pdfSize /\ pdf = PdfBytes(job) /\ textSize = job.textSize
        /\ cursor >= T /\ cursor + left = T + CeilDiv4(textSize)
        /\ text = Filled(4 * T, textSize, cursor - T)
    BY <2>1 DEF FrameInv, T
  <2>3. cursor - T \in Nat /\ T + (cursor - T) + 1 = cursor' /\ (cursor - T) + 1 = cursor' - T
    BY <1>n, <1>j, <2>1, <2>2
  <2>4. PushWord(Filled(4 * T, textSize, cursor - T), textSize, T + (cursor - T) + 1)
            = Filled(4 * T, textSize, (cursor - T) + 1)
    BY <1>n, <1>j, <2>3, PushWordFills
  <2>5. text' = Filled(4 * T, textSize', cursor' - T)
    BY <2>1, <2>2, <2>3, <2>4, Zenon
  <2>c. CeilDiv4(textSize) \in Nat
    BY <1>j, <2>2
  <2>6. cursor' >= T /\ cursor' + left' = T + CeilDiv4(textSize')
    BY <1>n, <1>j, <2>1, <2>2, <2>c
  <2> QED
    BY <1>1, <1>m, <2>1, <2>2, <2>5, <2>6 DEF FrameInv, Computing
<1>h. CASE ReadPageNumber
  <2>1. /\ pc = "text" /\ pc' = "verify" /\ left = 0 /\ cursor' = cursor + 1
        /\ inputSize' = inputSize /\ pdf' = pdf /\ textSize' = textSize /\ text' = text
    BY <1>h DEF ReadPageNumber, ReadWord
  <2>2. /\ inputSize = job.pdfSize /\ pdf = PdfBytes(job) /\ textSize = job.textSize
        /\ cursor + left = T + CeilDiv4(textSize)
        /\ text = Filled(4 * T, textSize, cursor - T)
    BY <2>1 DEF FrameInv, T
  <2>3. cursor - T = CeilDiv4(job.textSize) /\ cursor' = TapeWords(job) /\ 4 * T \in Nat
    BY <1>n, <1>j, <2>1, <2>2
  <2>4. text = TextBytes(job)
    BY <1>j, <2>2, <2>3, FilledEnds DEF TextBytes, T
  <2> QED
    BY <1>1, <1>m, <2>1, <2>2, <2>3, <2>4 DEF FrameInv, Computing
<1>i. CASE VerifySignature \/ ExtractText \/ DecodeExpected \/ SearchPage \/ SearchOver
           \/ PublishResults
  <2>1. /\ pc \in Computing /\ pc' \in (Computing \cup {"done"})
        /\ cursor' = cursor /\ inputSize' = inputSize /\ pdf' = pdf
        /\ textSize' = textSize /\ text' = text
    BY <1>i DEF VerifySignature, ExtractText, DecodeExpected, SearchPage, SearchOver,
                PublishResults, Finish, Computing
  <2> QED
    BY <1>1, <1>m, <2>1 DEF FrameInv, Computing
<1> QED
  BY <1>a, <1>b, <1>c, <1>d, <1>e, <1>f, <1>g, <1>h, <1>i DEF Next

-----------------------------------------------------------------------------
(***************************************************************************)
(* The verdict                                                             *)
(***************************************************************************)

NoMatchBefore(n) == \A j \in 1..(n - 1) : ~job.pages[j].contains

\* The branches of the verdict that are settled at each stage.
VerdictInv ==
    /\ pc \notin {"heap", "done"} => job.heap
    /\ pc \in Computing \cup {"pdf", "textSize", "text"} => SizeIsAccepted(job)
    /\ pc \in Computing \cup {"textSize", "text"} => ~(job.pdfSize < MinInputSize) /\ job.header
    /\ pc \in {"extract", "expected", "search", "report"} =>
          sigValid = (job.signature = "valid")
    /\ pc \in {"expected", "search", "report"} => job.extracted
    /\ pc \notin {"search", "report", "done"} => page = 1
    /\ pc \notin {"report", "done"} => ~found
    /\ pc = "search" => job.textSize > 0 /\ job.utf8 /\ NoMatchBefore(page)
    /\ pc = "report" =>
          \/ job.textSize = 0 /\ found
          \/ /\ job.textSize > 0 /\ job.utf8 /\ found
             /\ page \in Matches(job) /\ NoMatchBefore(page)
          \/ job.textSize > 0 /\ job.utf8 /\ ~found /\ Matches(job) = {}
    /\ pc = "done" => output = Verdict(job)

\* The least match is the only value of the CHOOSE in FoundPage.
LEMMA LeastMatch ==
    ASSUME NEW j, Len(j.pages) \in Nat, NEW p \in Matches(j), j.textSize # 0,
           \A i \in 1..(p - 1) : ~j.pages[i].contains
    PROVE  FoundPage(j) = p - 1
<1> DEFINE P(k) == \A i \in Matches(j) : k <= i
<1>1. Matches(j) # {} /\ \A i \in Matches(j) : i \in 1..Len(j.pages) /\ j.pages[i].contains
  BY DEF Matches
<1>2. P(p)
  BY <1>1
<1>3. \A k \in Matches(j) : P(k) => k = p
  BY <1>1, <1>2
<1>4. (CHOOSE k \in Matches(j) : P(k)) = p
  BY <1>2, <1>3
<1> QED
  BY <1>1, <1>4 DEF FoundPage

LEMMA VerdictStep ==
    JobInv /\ NumbersInv /\ TypeOK /\ FrameInv /\ VerdictInv /\ [Next]_vars => VerdictInv'
<1> SUFFICES ASSUME JobInv, NumbersInv, TypeOK, FrameInv, VerdictInv, [Next]_vars
             PROVE  VerdictInv'
  OBVIOUS
<1>1. job' = job
  BY DEF Next, vars, InitHeap, ReadInputSize, ReadPdfWord, CheckPdf, ReadTextSize, ReadTextWord,
         ReadPageNumber, VerifySignature, ExtractText, DecodeExpected, SearchPage, SearchOver,
         PublishResults
<1>j. /\ job.pdfSize \in Nat /\ job.textSize \in Nat /\ Len(job.pages) \in Nat
      /\ job.heap \in BOOLEAN /\ job.header \in BOOLEAN /\ job.extracted \in BOOLEAN
      /\ job.utf8 \in BOOLEAN
      /\ \A n \in 1..Len(job.pages) : job.pages[n].contains \in BOOLEAN
  BY JobsAssumption DEF JobInv
<1>s. MaxInputSize \in Nat /\ MinInputSize \in Nat /\ HeaderSize \in Nat
      /\ 4 <= HeaderSize /\ HeaderSize <= MinInputSize
  BY SizesAssumption
<1>v. Verdict(job)' = Verdict(job) /\ Matches(job)' = Matches(job)
      /\ SizeIsAccepted(job)' = SizeIsAccepted(job)
  BY <1>1
<1>a. CASE UNCHANGED vars
  BY <1>a, <1>v DEF vars, VerdictInv, NoMatchBefore
<1>b. CASE InitHeap
  <2>1. CASE job.heap
    BY <1>1, <1>b, <2>1 DEF InitHeap, VerdictInv, Computing
  <2>2. CASE ~job.heap
    <3>1. Verdict(job) = Success(<<HeapMark>>)
      BY <2>2 DEF Verdict
    <3>2. pc' = "done" /\ output' = Success(<<HeapMark>>)
      BY <1>b, <2>2 DEF InitHeap, Finish
    <3> QED
      BY <1>v, <3>1, <3>2 DEF VerdictInv, Computing
  <2> QED
    BY <2>1, <2>2
<1>c. CASE ReadInputSize
  <2>1. pc = "size" /\ cursor' = 1 /\ inputSize' = SizeIn(cursor') /\ job.heap /\ page = 1
        /\ page' = page /\ found' = found
    BY <1>c DEF ReadInputSize, ReadWord, FrameInv, VerdictInv
  <2>2. inputSize' = job.pdfSize
    BY <2>1 DEF SizeIn
  <2>3. CASE inputSize' > MaxInputSize \/ inputSize' = 0
    <3>1. ~SizeIsAccepted(job)
      BY <1>j, <1>s, <2>2, <2>3 DEF SizeIsAccepted
    <3>2. Verdict(job) = Failure(1, job.pdfSize, job.pdfSize, 0, 0)
      BY <2>1, <3>1 DEF Verdict
    <3>3. pc' = "done" /\ output' = Failure(1, job.pdfSize, job.pdfSize, 0, 0)
      BY <1>c, <2>2, <2>3 DEF ReadInputSize, Finish
    <3> QED
      BY <1>v, <3>2, <3>3 DEF VerdictInv, Computing
  <2>4. CASE ~(inputSize' > MaxInputSize \/ inputSize' = 0)
    <3>1. SizeIsAccepted(job)
      BY <1>j, <1>s, <2>2, <2>4 DEF SizeIsAccepted
    <3>2. pc' = "pdf"
      BY <1>c, <2>4 DEF ReadInputSize
    <3> QED
      BY <1>1, <1>v, <2>1, <3>1, <3>2 DEF VerdictInv, Computing
  <2> QED
    BY <2>3, <2>4
<1>d. CASE ReadPdfWord \/ ReadTextSize \/ ReadTextWord \/ ReadPageNumber
  BY <1>1, <1>v, <1>d DEF ReadPdfWord, ReadTextSize, ReadTextWord, ReadPageNumber, VerdictInv,
                          Computing
<1>e. CASE CheckPdf
  <2>1. pc = "pdf" /\ left = 0 /\ job.heap /\ SizeIsAccepted(job) /\ page = 1 /\ page' = page
        /\ found' = found
    BY <1>e DEF CheckPdf, VerdictInv
  <2>2. pdf = PdfBytes(job) /\ inputSize = job.pdfSize
    BY <2>1, PdfComplete DEF FrameInv
  <2>3. Len(pdf) = job.pdfSize /\ \A i \in 1..job.pdfSize : pdf[i] = 4 + i
    BY <1>j, <2>2 DEF PdfBytes
  <2>4. CASE inputSize < MinInputSize
    <3>1. Verdict(job) = Aborted
      BY <2>1, <2>2, <2>4 DEF Verdict
    <3>2. pc' = "done" /\ output' = Aborted
      BY <1>e, <2>4 DEF CheckPdf, Finish
    <3> QED
      BY <1>v, <3>1, <3>2 DEF VerdictInv, Computing
  <2>5. CASE ~(inputSize < MinInputSize)
    <3>0. ~(job.pdfSize < MinInputSize) /\ Len(pdf) >= HeaderSize /\ job.pdfSize >= 4
      BY <1>j, <1>s, <2>2, <2>3, <2>5
    <3>1. CASE job.header
      <4>1. pc' = "textSize"
        BY <1>e, <2>2, <2>5, <3>1 DEF CheckPdf
      <4> QED
        BY <1>1, <1>v, <2>1, <3>0, <3>1, <4>1 DEF VerdictInv, Computing
    <3>2. CASE ~job.header
      <4>1. pc' = "done" /\ output' = Failure(5, PlaceOf(pdf[1]), PlaceOf(pdf[2]),
                                              PlaceOf(pdf[3]), PlaceOf(pdf[4]))
        BY <1>e, <1>j, <2>2, <2>5, <3>0, <3>2 DEF CheckPdf, Finish
      <4>2. PlaceOf(pdf[1]) = 1 /\ PlaceOf(pdf[2]) = 2 /\ PlaceOf(pdf[3]) = 3
            /\ PlaceOf(pdf[4]) = 4
        BY <1>j, <2>3, <3>0 DEF PlaceOf
      <4>3. Verdict(job) = Failure(5, 1, 2, 3, 4)
        BY <2>1, <3>0, <3>2 DEF Verdict
      <4>4. output' = Verdict(job)
        BY <4>1, <4>2, <4>3
      <4> QED
        BY <1>v, <4>1, <4>4 DEF VerdictInv, Computing
    <3> QED
      BY <3>1, <3>2
  <2> QED
    BY <2>4, <2>5
<1>p. pc \in Computing => pdf = PdfBytes(job) /\ text = TextBytes(job)
                          /\ inputSize = job.pdfSize /\ textSize = job.textSize
  BY DEF FrameInv
<1>f. CASE VerifySignature
  <2>1. pc = "verify" /\ pc' = "extract" /\ sigValid' = (job.signature = "valid")
        /\ page' = page /\ found' = found
    BY <1>f, <1>p DEF VerifySignature, Computing
  <2> QED
    BY <1>1, <1>v, <2>1 DEF VerdictInv, Computing
<1>g. CASE ExtractText
  <2>1. pc = "extract" /\ page' = page /\ sigValid' = sigValid /\ found' = found
    BY <1>g DEF ExtractText
  <2>2. CASE job.extracted
    <3>1. pc' = "expected"
      BY <1>g, <1>p, <2>1, <2>2 DEF ExtractText, Computing
    <3> QED
      BY <1>1, <1>v, <2>1, <2>2, <3>1 DEF VerdictInv, Computing
  <2>3. CASE ~job.extracted
    <3>1. pc' = "done" /\ output' = Failure(2, ErrorHash, Len(pdf), 0, 0)
      BY <1>g, <1>j, <1>p, <2>1, <2>3 DEF ExtractText, Finish, Computing
    <3>2. Len(pdf) = job.pdfSize
      BY <1>j, <1>p, <2>1 DEF PdfBytes, Computing
    <3>3. Verdict(job) = Failure(2, ErrorHash, job.pdfSize, 0, 0)
      BY <2>1, <2>3 DEF Verdict, VerdictInv, Computing
    <3>4. output' = Verdict(job)
      BY <3>1, <3>2, <3>3
    <3> QED
      BY <1>v, <3>1, <3>4 DEF VerdictInv, Computing
  <2> QED
    BY <2>2, <2>3
<1>h. CASE DecodeExpected
  <2>1. pc = "expected" /\ page' = page /\ sigValid' = sigValid /\ page = 1
        /\ text = TextBytes(job) /\ textSize = job.textSize
    BY <1>h, <1>p DEF DecodeExpected, VerdictInv, Computing
  <2>2. CASE job.textSize = 0
    BY <1>1, <1>v, <1>h, <2>1, <2>2 DEF DecodeExpected, VerdictInv, Computing
  <2>3. CASE job.textSize # 0 /\ job.utf8
    <3>0. job.textSize > 0
      BY <1>j, <2>3
    <3>1. pc' = "search" /\ found' = found
      BY <1>h, <2>1, <2>3 DEF DecodeExpected
    <3>2. \A j \in 1..(1 - 1) : ~job.pages[j].contains
      OBVIOUS
    <3>3. NoMatchBefore(page)'
      BY <1>1, <2>1, <3>2 DEF NoMatchBefore
    <3> QED
      BY <1>1, <1>v, <2>1, <2>3, <3>0, <3>1, <3>3 DEF VerdictInv, Computing
  <2>4. CASE job.textSize # 0 /\ ~job.utf8
    <3>1. pc' = "done" /\ output' = Failure(3, 0, 0, 0, 0) /\ job.textSize > 0
      BY <1>h, <1>j, <2>1, <2>4 DEF DecodeExpected, Finish
    <3>2. Verdict(job) = Failure(3, 0, 0, 0, 0)
      BY <2>1, <2>4, <3>1 DEF Verdict, VerdictInv, Computing
    <3> QED
      BY <1>v, <3>1, <3>2 DEF VerdictInv, Computing
  <2> QED
    BY <1>j, <2>2, <2>3, <2>4
<1>i. CASE SearchPage
  <2>1. pc = "search" /\ page <= Len(job.pages) /\ page \in Nat /\ page >= 1
        /\ sigValid' = sigValid /\ text = TextBytes(job)
    BY <1>i, <1>p, <1>j DEF SearchPage, TypeOK, Computing
  <2>2. page \in 1..Len(job.pages)
    BY <1>j, <2>1
  <2>3. NoMatchBefore(page) /\ job.textSize > 0 /\ job.utf8
    BY <2>1 DEF VerdictInv
  <2>4. CASE job.pages[page].contains
    <3>1. found' = TRUE /\ page' = page /\ pc' = "report"
      BY <1>i, <1>j, <2>1, <2>2, <2>4 DEF SearchPage
    <3>2. page \in Matches(job)
      BY <2>2, <2>4 DEF Matches
    <3>3. NoMatchBefore(page)'
      BY <1>1, <2>3, <3>1 DEF NoMatchBefore
    <3> QED
      BY <1>1, <1>v, <2>1, <2>3, <3>1, <3>2, <3>3 DEF VerdictInv, Computing
  <2>5. CASE ~job.pages[page].contains
    <3>1. page' = page + 1 /\ pc' = "search" /\ ~found'
      BY <1>i, <1>j, <2>1, <2>2, <2>5 DEF SearchPage
    <3>2. \A j \in 1..((page + 1) - 1) : ~job.pages[j].contains
      <4>1. \A j \in 1..((page + 1) - 1) : j \in 1..(page - 1) \/ j = page
        BY <2>1
      <4> QED
        BY <2>3, <2>5, <4>1 DEF NoMatchBefore
    <3>3. NoMatchBefore(page)'
      BY <1>1, <3>1, <3>2 DEF NoMatchBefore
    <3> QED
      BY <1>1, <1>v, <2>1, <2>3, <3>1, <3>3 DEF VerdictInv, Computing
  <2> QED
    BY <1>j, <2>2, <2>4, <2>5
<1>k. CASE SearchOver
  <2>1. pc = "search" /\ pc' = "report" /\ page > Len(job.pages) /\ page \in Nat
        /\ page' = page /\ found' = found /\ sigValid' = sigValid
    BY <1>k, <1>j DEF SearchOver, TypeOK
  <2>2. NoMatchBefore(page) /\ job.textSize > 0 /\ job.utf8
    BY <2>1 DEF VerdictInv
  <2>3. Matches(job) = {}
    BY <1>j, <2>1, <2>2 DEF NoMatchBefore, Matches
  <2>4. ~found
    BY <2>1 DEF VerdictInv
  <2> QED
    BY <1>1, <1>v, <2>1, <2>2, <2>3, <2>4 DEF VerdictInv, Computing
<1>l. CASE PublishResults
  <2> DEFINE w3 == IF found /\ textSize > 0 THEN page - 1 ELSE 0
             h == IF job.pages = <<>> THEN NoHash ELSE job.pages[1].hash
  <2>1. pc = "report" /\ inputSize = job.pdfSize /\ textSize = job.textSize
        /\ sigValid = (job.signature = "valid")
    BY <1>l, <1>p DEF PublishResults, VerdictInv, Computing
  <2>2. /\ pc' = "done"
        /\ output' = Success(<<IF sigValid THEN 1 ELSE 0, IF found THEN 1 ELSE 0, w3,
                               Len(job.pages), inputSize, h, textSize, 0>>)
    BY <1>l DEF PublishResults, Finish
  <2>3. found <=> (job.textSize = 0 \/ Matches(job) # {})
    BY <1>j, <2>1 DEF VerdictInv
  <2>4. w3 = FoundPage(job)
    <3>1. CASE found /\ textSize > 0
      <4>1. page \in Matches(job) /\ NoMatchBefore(page) /\ job.textSize # 0
        BY <1>j, <2>1, <3>1 DEF VerdictInv
      <4>2. FoundPage(job) = page - 1
        BY <1>j, <4>1, LeastMatch DEF NoMatchBefore
      <4> QED
        BY <3>1, <4>2
    <3>2. CASE ~(found /\ textSize > 0)
      BY <1>j, <2>1, <2>3, <3>2 DEF FoundPage
    <3> QED
      BY <3>1, <3>2
  <2> HIDE DEF w3, h
  <2>5. job.heap /\ SizeIsAccepted(job) /\ ~(job.pdfSize < MinInputSize) /\ job.header
        /\ job.extracted /\ ~(job.textSize > 0 /\ ~job.utf8)
    BY <1>j, <2>1 DEF VerdictInv, Computing
  <2>6. Verdict(job) =
          Success(<<IF job.signature = "valid" THEN 1 ELSE 0,
                    IF job.textSize = 0 \/ Matches(job) # {} THEN 1 ELSE 0,
                    FoundPage(job), Len(job.pages), job.pdfSize, h, job.textSize, 0>>)
    BY <2>5 DEF Verdict, h
  <2>7. output' = Verdict(job)
    BY <2>1, <2>2, <2>3, <2>4, <2>6
  <2> QED
    BY <1>v, <2>2, <2>7 DEF VerdictInv, Computing
<1> QED
  BY <1>a, <1>b, <1>c, <1>d, <1>e, <1>f, <1>g, <1>h, <1>i, <1>k, <1>l DEF Next

-----------------------------------------------------------------------------
(***************************************************************************)
(* The invariant                                                           *)
(***************************************************************************)

LEMMA Start ==
    Init => JobInv /\ NumbersInv /\ TypeOK /\ FrameInv /\ VerdictInv
<1> SUFFICES ASSUME Init
             PROVE  JobInv /\ NumbersInv /\ TypeOK /\ FrameInv /\ VerdictInv
  OBVIOUS
<1>1. JobInv /\ NumbersInv
  BY DEF Init, JobInv, NumbersInv, Stages
<1>2. TypeOK
  <2>1. <<>> \in Seq(Nat)
    OBVIOUS
  <2>2. Len(job.pages) \in Nat
    BY <1>1, JobsAssumption DEF JobInv
  <2>3. page \in 1..(Len(job.pages) + 1)
    BY <2>2 DEF Init
  <2> QED
    BY <2>1, <2>3 DEF Init, TypeOK, Stages
<1>3. FrameInv
  BY DEF Init, FrameInv, Computing
<1>4. VerdictInv
  BY DEF Init, VerdictInv, Computing
<1> QED
  BY <1>1, <1>2, <1>3, <1>4

\* A buffer that is still being filled is a sequence of offsets because of what
\* FrameInv says it holds; the others are left alone.
LEMMA TypesStep ==
    JobInv /\ NumbersInv /\ TypeOK /\ FrameInv /\ [Next]_vars => TypeOK'
<1> SUFFICES ASSUME JobInv, NumbersInv, TypeOK, FrameInv, [Next]_vars
             PROVE  TypeOK'
  OBVIOUS
<1>1. JobInv' /\ NumbersInv' /\ FrameInv'
  BY NumbersStep, FrameStep
<1>2. job' = job /\ Len(job.pages) \in Nat
  <2>1. job' = job
    BY DEF Next, vars, InitHeap, ReadInputSize, ReadPdfWord, CheckPdf, ReadTextSize,
           ReadTextWord, ReadPageNumber, VerifySignature, ExtractText, DecodeExpected,
           SearchPage, SearchOver, PublishResults
  <2> QED
    BY <2>1, JobsAssumption DEF JobInv
<1>3. pdf' \in Seq(Nat)
  <2>1. CASE ReadPdfWord
    <3>1. pc' = "pdf"
      BY <2>1 DEF ReadPdfWord
    <3>2. pdf' = Filled(4, inputSize', cursor' - 1) /\ cursor' > 0
      BY <1>1, <3>1 DEF FrameInv
    <3>3. cursor' \in Nat /\ inputSize' \in Nat
      BY <1>1 DEF NumbersInv
    <3>p. cursor' > 0
      BY <3>2
    <3>c. cursor' \in Nat
      BY <3>3
    <3>d. \A n \in Nat : n > 0 => n - 1 \in Nat
      OBVIOUS
    <3>4. cursor' - 1 \in Nat
      BY <3>c, <3>d, <3>p
    <3> QED
      BY <3>2, <3>3, <3>4, FilledIsSeq
  <2>2. CASE pdf' = pdf
    BY <2>2 DEF TypeOK
  <2> QED
    BY <2>1, <2>2 DEF Next, vars, InitHeap, ReadInputSize, CheckPdf, ReadTextSize, ReadTextWord,
                      ReadPageNumber, VerifySignature, ExtractText, DecodeExpected, SearchPage,
                      SearchOver, PublishResults
<1>4. text' \in Seq(Nat)
  <2>1. CASE ReadTextWord
    <3>1. pc' = "text" /\ pc = "text"
      BY <2>1 DEF ReadTextWord
    <3>2. /\ text' = Filled(4 * TextSizeWord(job'), textSize', cursor' - TextSizeWord(job'))
          /\ cursor' >= TextSizeWord(job')
      BY <1>1, <3>1 DEF FrameInv
    <3>3. cursor' \in Nat /\ textSize' \in Nat
      BY <1>1 DEF NumbersInv
    <3>4. TextSizeWord(job') \in Nat
      BY <1>2, JobFacts
    <3>5. cursor' - TextSizeWord(job') \in Nat /\ 4 * TextSizeWord(job') \in Nat
      BY <3>2, <3>3, <3>4
    <3> QED
      BY <3>2, <3>3, <3>5, FilledIsSeq
  <2>2. CASE text' = text
    BY <2>2 DEF TypeOK
  <2> QED
    BY <2>1, <2>2 DEF Next, vars, InitHeap, ReadInputSize, ReadPdfWord, CheckPdf, ReadTextSize,
                      ReadPageNumber, VerifySignature, ExtractText, DecodeExpected, SearchPage,
                      SearchOver, PublishResults
<1>5. page' \in 1..(Len(job.pages) + 1)
  <2>1. page \in Nat /\ page >= 1 /\ page <= Len(job.pages) + 1
    BY <1>2 DEF TypeOK
  <2>2. CASE SearchPage
    BY <1>2, <2>1, <2>2 DEF SearchPage
  <2>3. CASE page' = page
    BY <1>2, <2>1, <2>3
  <2> QED
    BY <2>2, <2>3 DEF Next, vars, InitHeap, ReadInputSize, ReadPdfWord, CheckPdf, ReadTextSize,
                      ReadTextWord, ReadPageNumber, VerifySignature, ExtractText, DecodeExpected,
                      SearchOver, PublishResults
<1>6. sigValid' \in BOOLEAN /\ found' \in BOOLEAN
  BY DEF TypeOK, Next, vars, InitHeap, ReadInputSize, ReadPdfWord, CheckPdf, ReadTextSize,
         ReadTextWord, ReadPageNumber, VerifySignature, ExtractText, DecodeExpected, SearchPage,
         SearchOver, PublishResults
<1>7. (pc' = "done") <=> (output' # Nothing)
  <2>1. \A w : Success(w) # Nothing
    BY DEF Success, Nothing
  <2>2. \A k, a, b, c, d : Failure(k, a, b, c, d) # Nothing
    BY <2>1 DEF Failure
  <2>3. Aborted # Nothing
    BY DEF Aborted, Nothing
  <2> HIDE DEF Nothing
  <2>4. (pc = "done") <=> (output # Nothing)
    BY DEF TypeOK
  <2>5. CASE UNCHANGED vars
    BY <2>4, <2>5 DEF vars
  <2>6. CASE InitHeap \/ ReadInputSize \/ CheckPdf
    BY <2>1, <2>2, <2>3, <2>4, <2>6 DEF InitHeap, ReadInputSize, CheckPdf, Finish
  <2>7. CASE ExtractText \/ DecodeExpected \/ PublishResults
    BY <2>1, <2>2, <2>4, <2>7 DEF ExtractText, DecodeExpected, PublishResults, Finish
  <2>8. CASE ReadPdfWord \/ ReadTextSize \/ ReadTextWord \/ ReadPageNumber \/ VerifySignature
             \/ SearchPage \/ SearchOver
    BY <2>4, <2>8 DEF ReadPdfWord, ReadTextSize, ReadTextWord, ReadPageNumber, VerifySignature,
                      SearchPage, SearchOver
  <2> QED
    BY <2>5, <2>6, <2>7, <2>8 DEF Next
<1>8. pc' \in Stages /\ cursor' \in Nat /\ left' \in Nat /\ inputSize' \in Nat
      /\ textSize' \in Nat
  BY <1>1 DEF NumbersInv
<1>9. page' \in 1..(Len(job'.pages) + 1)
  BY <1>2, <1>5
<1> QED
  BY <1>3, <1>4, <1>6, <1>7, <1>8, <1>9 DEF TypeOK

IInv == JobInv /\ NumbersInv /\ TypeOK /\ FrameInv /\ VerdictInv

\* The inductive invariant: where the reader is, what the buffers hold there and
\* which branches of the verdict are settled, in every reachable state.
THEOREM Invariance == Spec => []IInv
<1>1. Init => IInv
  BY Start DEF IInv
<1>2. IInv /\ [Next]_vars => IInv'
  BY NumbersStep, TypesStep, FrameStep, VerdictStep DEF IInv
<1> QED
  BY <1>1, <1>2, PTL DEF Spec

-----------------------------------------------------------------------------
(***************************************************************************)
(* The properties                                                          *)
(***************************************************************************)

\* The variables of workload() have their types whatever the sizes, and there is a
\* report exactly when the program has ended.
THEOREM TypeCorrect == Spec => []TypeOK
<1>1. IInv => TypeOK
  BY DEF IInv
<1> QED
  BY <1>1, Invariance, PTL

\* For every size of the PDF and of the text and every padding, the buffers that
\* main.rs hands to the libraries are the bytes that prepare_input.py was given.
THEOREM BytesSurviveFraming == Spec => []BuffersAreExact
<1>1. IInv => BuffersAreExact
  BY DEF IInv, FrameInv, BuffersAreExact, Computing
<1> QED
  BY <1>1, Invariance, PTL

\* csr_read_word always finds a word, and the size words are read where
\* prepare_input.py puts them.
THEOREM TapeIsLongEnough == Spec => []NeverStarved
<1>1. ASSUME IInv
      PROVE  NeverStarved
  <2>1. /\ job.pdfSize \in Nat /\ job.textSize \in Nat
        /\ TextSizeWord(job) = 2 + CeilDiv4(job.pdfSize)
        /\ TextSizeWord(job) \in Nat
        /\ TapeWords(job) = TextSizeWord(job) + CeilDiv4(job.textSize) + 1
        /\ CeilDiv4(job.pdfSize) \in Nat /\ CeilDiv4(job.textSize) \in Nat
    BY <1>1, JobFacts DEF IInv
  <2>2. cursor \in Nat /\ left \in Nat
    BY <1>1 DEF IInv, NumbersInv
  <2>3. FrameInv
    BY <1>1 DEF IInv
  <2>4. pc = "size" => cursor = 0 /\ cursor < TapeWords(job)
    BY <2>1, <2>2, <2>3 DEF FrameInv
  <2>5. pc = "textSize" => cursor + 1 = TextSizeWord(job) /\ cursor < TapeWords(job)
    BY <2>1, <2>2, <2>3 DEF FrameInv
  <2>6. pc = "pdf" => cursor < TapeWords(job)
    <3>1. pc = "pdf" => cursor + left = 1 + CeilDiv4(job.pdfSize)
      BY <2>3 DEF FrameInv
    <3> QED
      BY <2>1, <2>2, <3>1
  <2>7. pc = "text" => cursor < TapeWords(job)
    <3>1. pc = "text" => cursor + left = TextSizeWord(job) + CeilDiv4(job.textSize)
      BY <2>3 DEF FrameInv
    <3> QED
      BY <2>1, <2>2, <3>1
  <2> QED
    BY <2>4, <2>5, <2>6, <2>7 DEF NeverStarved
<1> QED
  BY <1>1, Invariance, PTL

\* When the validator is called, no word of the tape is left, the unaligned page
\* word included.
THEOREM TapeIsReadToTheEnd == Spec => []TapeIsConsumed
<1>1. IInv => TapeIsConsumed
  BY DEF IInv, FrameInv, TapeIsConsumed
<1> QED
  BY <1>1, Invariance, PTL

\* Only PublishResults claims anything, and it claims what VerdictInv knows.
LEMMA ClaimsStep == IInv /\ ClaimsAreTrue /\ [Next]_vars => ClaimsAreTrue'
<1> SUFFICES ASSUME IInv, ClaimsAreTrue, [Next]_vars
             PROVE  ClaimsAreTrue'
  OBVIOUS
<1>1. job' = job
  BY DEF Next, vars, InitHeap, ReadInputSize, ReadPdfWord, CheckPdf, ReadTextSize, ReadTextWord,
         ReadPageNumber, VerifySignature, ExtractText, DecodeExpected, SearchPage, SearchOver,
         PublishResults
<1>2. /\ \A k, a, b, c, d : Failure(k, a, b, c, d).words[1] # 1
      /\ Success(<<HeapMark>>).words[1] # 1
      /\ Aborted.kind # "success"
  BY MarksAssumption DEF Failure, Success, Aborted
<1>3. CASE output' = output
  BY <1>1, <1>3 DEF ClaimsAreTrue
<1>4. CASE output'.kind # "success" \/ output'.words[1] # 1
  BY <1>4 DEF ClaimsAreTrue
<1>5. CASE PublishResults
  <2> DEFINE w3 == IF found /\ textSize > 0 THEN page - 1 ELSE 0
             h == IF job.pages = <<>> THEN NoHash ELSE job.pages[1].hash
             s == IF sigValid THEN 1 ELSE 0
             f == IF found THEN 1 ELSE 0
  <2>1. pc = "report" /\ textSize = job.textSize /\ sigValid = (job.signature = "valid")
        /\ job.header /\ job.extracted
    BY <1>5 DEF PublishResults, IInv, FrameInv, VerdictInv, Computing
  <2>2. output' = Success(<<s, f, w3, Len(job.pages), inputSize, h, textSize, 0>>)
    BY <1>5 DEF PublishResults, Finish
  <2>3. output'.words[1] = s /\ output'.words[2] = f /\ output'.words[3] = w3
    <3> HIDE DEF s, f, w3, h
    <3> QED
      BY <2>2 DEF Success
  <2>4. ASSUME output'.words[1] = 1
        PROVE  job.signature = "valid"
    <3>1. sigValid
      BY <2>3, <2>4
    <3> QED
      BY <2>1, <3>1, Zenon
  <2>5. ASSUME output'.words[2] = 1, job.textSize > 0
        PROVE  /\ job.utf8
               /\ job.pages[output'.words[3] + 1].contains
               /\ \A j \in 1..output'.words[3] : ~job.pages[j].contains
    <3>1. found /\ w3 = page - 1 /\ job.textSize # 0
      BY <2>1, <2>3, <2>5, JobsAssumption DEF IInv, JobInv
    <3>2. job.utf8 /\ page \in Matches(job) /\ NoMatchBefore(page)
      BY <2>1, <3>1 DEF IInv, VerdictInv
    <3>3. Len(job.pages) \in Nat
      BY JobsAssumption DEF IInv, JobInv
    <3>4. page \in 1..Len(job.pages) /\ job.pages[page].contains
      BY <3>2 DEF Matches
    <3>5. (page - 1) + 1 = page
      BY <3>3, <3>4
    <3> HIDE DEF w3
    <3> QED
      BY <2>3, <3>1, <3>2, <3>4, <3>5 DEF NoMatchBefore
  <2> QED
    BY <1>1, <2>1, <2>4, <2>5 DEF ClaimsAreTrue
<1>6. CASE UNCHANGED vars
  BY <1>3, <1>6 DEF vars
<1>7. CASE InitHeap \/ ReadInputSize \/ CheckPdf
  BY <1>2, <1>3, <1>4, <1>7 DEF InitHeap, ReadInputSize, CheckPdf, Finish
<1>8. CASE ExtractText \/ DecodeExpected
  BY <1>2, <1>3, <1>4, <1>8 DEF ExtractText, DecodeExpected, Finish
<1>9. CASE ReadPdfWord \/ ReadTextSize \/ ReadTextWord \/ ReadPageNumber \/ VerifySignature
           \/ SearchPage \/ SearchOver
  BY <1>3, <1>9 DEF ReadPdfWord, ReadTextSize, ReadTextWord, ReadPageNumber, VerifySignature,
                    SearchPage, SearchOver
<1> QED
  BY <1>5, <1>6, <1>7, <1>8, <1>9 DEF Next

\* A report that claims a valid signature and a found text is about a document
\* whose signature is valid and whose page of that number is the first to hold it.
THEOREM ClaimsHold == Spec => []ClaimsAreTrue
<1>1. Init => ClaimsAreTrue
  BY DEF Init, ClaimsAreTrue, Nothing
<1> QED
  BY <1>1, ClaimsStep, Invariance, PTL DEF Spec

\* Report's verdict is Guest's: both extend the module Verdict.
LEMMA SameVerdict == \A j : Promise!Verdict(j) = Verdict(j)
  BY DEF Verdict, Promise!Verdict, Success, Promise!Success, Failure, Promise!Failure,
         Aborted, Promise!Aborted, SizeIsAccepted, Promise!SizeIsAccepted,
         FoundPage, Promise!FoundPage, Matches, Promise!Matches

\* A report published is the verdict on the job, and stays: the program implements
\* Report.
THEOREM Refinement == Spec => PublishesTheVerdict
<1>1. Init => Promise!Init
  BY DEF Init, Promise!Init, Nothing, Promise!Nothing
<1>2. IInv /\ IInv' /\ [Next]_vars => [Promise!Publish]_(Promise!reportVars)
  <2> SUFFICES ASSUME IInv, IInv', [Next]_vars
               PROVE  Promise!Publish \/ UNCHANGED <<job, output>>
    BY DEF Promise!reportVars
  <2>1. job' = job
    BY DEF Next, vars, InitHeap, ReadInputSize, ReadPdfWord, CheckPdf, ReadTextSize,
           ReadTextWord, ReadPageNumber, VerifySignature, ExtractText, DecodeExpected,
           SearchPage, SearchOver, PublishResults
  <2>2. CASE output = Nothing /\ pc' = "done"
    <3>1. output' = Verdict(job')
      BY <2>2 DEF IInv, VerdictInv
    <3>2. output' = Verdict(job)
      BY <2>1, <3>1
    <3>3. output = Promise!Nothing
      BY <2>2 DEF Nothing, Promise!Nothing
    <3>4. output' = Promise!Verdict(job)
      BY <3>2, SameVerdict
    <3> QED
      BY <2>1, <3>3, <3>4 DEF Promise!Publish
  <2>3. CASE output = Nothing /\ pc' # "done"
    BY <2>1, <2>3 DEF IInv, TypeOK
  <2>4. CASE output # Nothing
    <3>1. pc = "done"
      BY <2>4 DEF IInv, TypeOK
    <3> QED
      BY <3>1 DEF Next, vars, InitHeap, ReadInputSize, ReadPdfWord, CheckPdf, ReadTextSize,
                  ReadTextWord, ReadPageNumber, VerifySignature, ExtractText, DecodeExpected,
                  SearchPage, SearchOver, PublishResults
  <2> QED
    BY <2>2, <2>3, <2>4
<1> QED
  BY <1>1, <1>2, Invariance, PTL DEF Spec, PublishesTheVerdict, Promise!Spec

-----------------------------------------------------------------------------
(***************************************************************************)
(* The steps ahead                                                         *)
(***************************************************************************)

\* The stages still to come, at most.
StagesAhead == CASE pc = "heap" -> 10     [] pc = "size" -> 9     [] pc = "pdf" -> 8
                 [] pc = "textSize" -> 7  [] pc = "text" -> 6     [] pc = "verify" -> 5
                 [] pc = "extract" -> 4   [] pc = "expected" -> 3 [] pc = "search" -> 2
                 [] pc = "report" -> 1    [] OTHER -> 0

WordsAhead == TapeWords(job) - cursor

PagesAhead == Len(job.pages) + 1 - page

\* The words to read, the pages to search and the stages to come.
StepsAhead == WordsAhead + PagesAhead + StagesAhead

\* The reader stays on the tape.
OnTape == cursor <= TapeWords(job)

LEMMA OnTapeStep == IInv /\ OnTape /\ [Next]_vars => OnTape'
<1> SUFFICES ASSUME IInv, OnTape, [Next]_vars
             PROVE  OnTape'
  OBVIOUS
<1> DEFINE T == TapeWords(job)
<1>1. T \in Nat /\ cursor \in Nat
  BY JobFacts DEF IInv, NumbersInv
<1>2. job' = job /\ (cursor' = cursor \/ (cursor < T /\ cursor' = cursor + 1))
  BY DEF Next, vars, InitHeap, ReadInputSize, ReadPdfWord, CheckPdf, ReadTextSize, ReadTextWord,
         ReadPageNumber, VerifySignature, ExtractText, DecodeExpected, SearchPage, SearchOver,
         PublishResults, ReadWord
<1>3. T' = T /\ cursor <= T
  BY <1>2 DEF OnTape
<1> HIDE DEF T
<1>4. cursor' <= T
  BY <1>1, <1>2, <1>3
<1>5. cursor' <= T'
  BY <1>3, <1>4
<1> QED
  BY <1>5 DEF OnTape, T

LEMMA TapeNotLeft == Spec => [](IInv /\ OnTape)
<1>1. Init => OnTape
  <2>1. ASSUME Init
        PROVE  OnTape
    <3>1. TapeWords(job) \in Nat
      BY <2>1, Start, JobFacts
    <3> QED
      BY <2>1, <3>1 DEF Init, OnTape
  <2> QED
    BY <2>1
<1> QED
  BY <1>1, OnTapeStep, Invariance, PTL DEF Spec

LEMMA AheadTypes ==
    ASSUME IInv, OnTape
    PROVE  WordsAhead \in Nat /\ PagesAhead \in Nat /\ StagesAhead \in Nat
<1>1. TapeWords(job) \in Nat /\ cursor \in Nat
  BY JobFacts DEF IInv, NumbersInv
<1>2. Len(job.pages) \in Nat
  BY JobsAssumption DEF IInv, JobInv
<1>3. page \in 1..(Len(job.pages) + 1)
  BY DEF IInv, TypeOK
<1>4. WordsAhead \in Nat
  BY <1>1 DEF WordsAhead, OnTape
<1>5. PagesAhead \in Nat
  BY <1>2, <1>3 DEF PagesAhead
<1>6. StagesAhead \in Nat
  BY DEF StagesAhead
<1> QED
  BY <1>4, <1>5, <1>6

\* A step reads a word without going back a stage, goes to a later stage, or goes
\* to the next page of the search.
LEMMA StepGoesOn ==
    ASSUME IInv, OnTape, Next
    PROVE  StepsAhead' < StepsAhead
<1>1. job' = job
  BY DEF Next, InitHeap, ReadInputSize, ReadPdfWord, CheckPdf, ReadTextSize, ReadTextWord,
         ReadPageNumber, VerifySignature, ExtractText, DecodeExpected, SearchPage, SearchOver,
         PublishResults
<1>2. PICK w \in Nat, p \in Nat, s \in Nat :
          w = WordsAhead /\ p = PagesAhead /\ s = StagesAhead
  BY AheadTypes
<1>3. TapeWords(job) \in Nat /\ cursor \in Nat /\ Len(job.pages) \in Nat
      /\ page \in Nat
  <2>1. Len(job.pages) \in Nat
    BY JobsAssumption DEF IInv, JobInv
  <2>2. page \in 1..(Len(job.pages) + 1)
    BY DEF IInv, TypeOK
  <2> QED
    BY <2>1, <2>2, JobFacts DEF IInv, NumbersInv
<1>4. TapeWords(job)' = TapeWords(job) /\ Len(job.pages)' = Len(job.pages)
  BY <1>1
<1>d. \A a \in Nat, b \in Nat : a - (b + 1) = (a - b) - 1 /\ a + 1 - (b + 1) = (a + 1 - b) - 1
  OBVIOUS
<1>w. ASSUME cursor' = cursor
      PROVE  WordsAhead' = w
  BY <1>2, <1>4, <1>w DEF WordsAhead
<1>r. ASSUME cursor' = cursor + 1
      PROVE  WordsAhead' = w - 1
  <2>1. WordsAhead' = TapeWords(job) - (cursor + 1)
    BY <1>4, <1>r DEF WordsAhead
  <2>2. w = TapeWords(job) - cursor
    BY <1>2 DEF WordsAhead
  <2> QED
    BY <1>3, <1>d, <2>1, <2>2
<1>p. ASSUME page' = page
      PROVE  PagesAhead' = p
  BY <1>2, <1>4, <1>p DEF PagesAhead
<1>n. ASSUME page' = page + 1
      PROVE  PagesAhead' = p - 1
  <2>1. PagesAhead' = Len(job.pages) + 1 - (page + 1)
    BY <1>4, <1>n DEF PagesAhead
  <2>2. p = Len(job.pages) + 1 - page
    BY <1>2 DEF PagesAhead
  <2> QED
    BY <1>3, <1>d, <2>1, <2>2
<1>s. PICK s2 \in Nat : s2 = StagesAhead'
  BY DEF StagesAhead
<1>q. StepsAhead = w + p + s /\ StepsAhead' = WordsAhead' + PagesAhead' + s2
  BY <1>2, <1>s DEF StepsAhead
<1>5. CASE ReadInputSize \/ ReadPdfWord \/ ReadTextSize \/ ReadTextWord \/ ReadPageNumber
  <2>1. cursor' = cursor + 1 /\ page' = page
    BY <1>5 DEF ReadInputSize, ReadPdfWord, ReadTextSize, ReadTextWord, ReadPageNumber, ReadWord
  <2>2. s2 <= s
    BY <1>2, <1>5, <1>s DEF ReadInputSize, ReadPdfWord, ReadTextSize, ReadTextWord, ReadPageNumber,
                Finish, StagesAhead
  <2>3. WordsAhead' = w - 1 /\ PagesAhead' = p
    BY <1>r, <1>p, <2>1
  <2>4. (w - 1) + p + s2 < w + p + s
    BY <2>2
  <2> QED
    BY <1>q, <2>3, <2>4
<1>6. CASE \/ InitHeap \/ CheckPdf \/ VerifySignature \/ ExtractText \/ DecodeExpected
           \/ SearchOver \/ PublishResults \/ (SearchPage /\ pc' = "report")
  <2>1. cursor' = cursor
    BY <1>6 DEF InitHeap, CheckPdf, VerifySignature, ExtractText, DecodeExpected, SearchOver,
                PublishResults, SearchPage
  <2>2. page' = page
    <3>1. CASE SearchPage /\ pc' = "report"
      BY <3>1 DEF SearchPage
    <3> QED
      BY <1>6, <3>1 DEF InitHeap, CheckPdf, VerifySignature, ExtractText, DecodeExpected,
                        SearchOver, PublishResults
  <2>3. s2 < s
    BY <1>2, <1>6, <1>s DEF InitHeap, CheckPdf, VerifySignature, ExtractText, DecodeExpected, SearchOver,
                PublishResults, SearchPage, Finish, StagesAhead
  <2>4. WordsAhead' = w /\ PagesAhead' = p
    BY <1>w, <1>p, <2>1, <2>2
  <2>5. w + p + s2 < w + p + s
    BY <2>3
  <2> QED
    BY <1>q, <2>4, <2>5
<1>7. CASE SearchPage /\ pc' # "report"
  <2>1. cursor' = cursor /\ page' = page + 1 /\ pc' = pc
    BY <1>7 DEF SearchPage
  <2>2. s2 = s
    BY <1>2, <1>s, <2>1 DEF StagesAhead
  <2>3. WordsAhead' = w /\ PagesAhead' = p - 1
    BY <1>w, <1>n, <2>1
  <2>4. w + (p - 1) + s < w + p + s
    OBVIOUS
  <2> QED
    BY <1>q, <2>2, <2>3, <2>4
<1> QED
  BY <1>5, <1>6, <1>7 DEF Next

\* workload() always gets to its report, as far as safety goes: every step lowers a
\* natural number that starts at the words of the tape, the pages and ten stages, so
\* that no tape and no document keep it busy for more steps than that.
THEOREM EveryStepLeavesLessAhead ==
    Spec => /\ StepsAhead = TapeWords(job) + Len(job.pages) + 10
            /\ [](StepsAhead \in Nat)
            /\ [][StepsAhead' < StepsAhead]_vars
<1>1. Init => StepsAhead = TapeWords(job) + Len(job.pages) + 10
  <2>1. ASSUME Init
        PROVE  StepsAhead = TapeWords(job) + Len(job.pages) + 10
    <3>1. TapeWords(job) \in Nat
      BY <2>1, Start, JobFacts
    <3>2. Len(job.pages) \in Nat
      BY <2>1, Start, JobsAssumption DEF JobInv
    <3>3. WordsAhead = TapeWords(job) /\ PagesAhead = Len(job.pages) /\ StagesAhead = 10
      BY <2>1, <3>1, <3>2 DEF Init, WordsAhead, PagesAhead, StagesAhead
    <3> QED
      BY <3>3 DEF StepsAhead
  <2> QED
    BY <2>1
<1>2. IInv /\ OnTape => StepsAhead \in Nat
  <2>1. ASSUME IInv, OnTape
        PROVE  StepsAhead \in Nat
    BY <2>1, AheadTypes DEF StepsAhead
  <2> QED
    BY <2>1
<1>3. IInv /\ OnTape /\ [Next]_vars => [StepsAhead' < StepsAhead]_vars
  BY StepGoesOn
<1> QED
  BY <1>1, <1>2, <1>3, TapeNotLeft, PTL DEF Spec
=============================================================================
