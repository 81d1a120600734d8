SPECIFICATION FairSpec
CONSTANTS
    Mantissa = 24
    MaxSize = 300
    Room = 60
    CodeDigits = 4
    MaxRange = 100
    Sources <- MCSources
INVARIANTS
    FiltersInvert
    ReadsWrittenTokens
    ReadsWrittenMaps
    AbortsOnlyAtLimits
PROPERTIES
    Terminates
\* The reader stops when the streams are read or rejected.
CHECK_DEADLOCK FALSE
