SPECIFICATION Spec
CONSTANTS
    Files <- MCUnnamed
    DebugLog = TRUE
    WordSize = 24
    Window = 4
    Nothing = Nothing
INVARIANTS
    NeverPanics
CHECK_DEADLOCK FALSE
