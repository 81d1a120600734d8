SPECIFICATION Spec
CONSTANTS
    Files <- MCFiles
    DebugLog = TRUE
    WordSize = 24
    Window = 4
    Nothing = Nothing
INVARIANTS
    ContentsAfterByteRange
CHECK_DEADLOCK FALSE
