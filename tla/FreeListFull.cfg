CONSTANTS
    Lo = 3
    Hi = 6
    FSFREEBLOCKS = 2
    DIRECTBLOCKS = 2
    PTRS = 1
    Files = {root, file}
    Root = root
    Data <- Spelled
    Marks <- ByMkfs
    MayFail = FALSE
SPECIFICATION Spec
INVARIANTS
    UnusedBlocksOnly
CHECK_DEADLOCK FALSE
