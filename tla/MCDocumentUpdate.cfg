\* Documents updated with cross-reference streams.
SPECIFICATION FairSpec
CONSTANTS
    Files <- MCUpdates
    WordSize = 24
INVARIANT XRefAddsObjects
CHECK_DEADLOCK FALSE
