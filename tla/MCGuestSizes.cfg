\* The sizes that main.rs rejects after it has read the PDF.
SPECIFICATION FairSpec
CONSTANTS
    MaxInputSize = 14
    MinInputSize = 10
    HeaderSize = 8
    ErrorMark = ErrorMark
    HeapMark = HeapMark
    NoHash = NoHash
    ErrorHash = ErrorHash
    Hash1 = Hash1
    Hash2 = Hash2
    Jobs <- MCJobs
INVARIANT InvalidSizeIsReported
CHECK_DEADLOCK FALSE
