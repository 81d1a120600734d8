SPECIFICATION FairSpec
CONSTANTS
    Mantissa = 24
    Texts <- MCTexts
    MaxObject = 40000000
    MaxGeneration = 65535
INVARIANTS
    OnlyNumbersWait
    ReferencesAreExact
    AnswersTheReading
PROPERTIES
    Terminates
\* The parse stops when it has answered.
CHECK_DEADLOCK FALSE
