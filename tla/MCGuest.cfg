SPECIFICATION FairSpec
CONSTANTS
    MaxInputSize = 14
    MinInputSize = 10
    HeaderSize = 8
    ErrorMark = ErrorMark
    HeapMark = HeapMark
    NoHash = NoHash
    ErrorHash = ErrorHash
    Hash1 = Hash1
    Hash2 = Hash2
    Jobs <- MCJobs
INVARIANTS
    TypeOK
    BuffersAreExact
    NeverStarved
    TapeIsConsumed
    ClaimsAreTrue
PROPERTIES
    PublishesTheVerdict
    AlwaysReports
\* The program ends with its report.
CHECK_DEADLOCK FALSE
