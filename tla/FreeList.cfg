CONSTANTS
    Lo = 3
    Hi = 6
    FSFREEBLOCKS = 2
    DIRECTBLOCKS = 1
    PTRS = 2
    Files = {root, file}
    Root = root
    Data <- Spelled
    Marks <- BothMade
    MayFail = TRUE
SPECIFICATION Spec
INVARIANTS
    TypeOK
    NoSharedBlock
    CountRight
    MarkedListHolds
    NothingLost
CONSTRAINT Tracked
CHECK_DEADLOCK FALSE
