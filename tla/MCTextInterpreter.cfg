SPECIFICATION FairSpec
CONSTANTS
    Documents <- MCDocuments
    MaxDepth = 4
INVARIANTS
    TypeOK
    LineOnlyInText
    NoUnderflow
    AbortsOnlyInCycles
    WellFormedTextIsComplete
PROPERTIES
    AnswersThePageText
    Terminates
CHECK_DEADLOCK FALSE
