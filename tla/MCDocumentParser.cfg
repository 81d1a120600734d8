SPECIFICATION FairSpec
CONSTANTS
    Files <- MCFiles
    WordSize = 24
INVARIANTS
    TypeOK
    NewestIsKept
    
PROPERTIES
    AnswersTheTable
    Terminates
\* The parse stops when it has answered.
CHECK_DEADLOCK FALSE
