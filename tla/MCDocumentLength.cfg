\* Streams without a usable /Length.
SPECIFICATION FairSpec
CONSTANTS
    Files <- MCFiles
    WordSize = 24
INVARIANT MissingLengthIsSearched
CHECK_DEADLOCK FALSE
