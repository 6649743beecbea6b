CONSTANTS
    LastInode = 3
    ITABSIZE = 2
    FSFREEINODES = 1
    MAXREFS = 4
    LastSlot = 3
    Plain = {"a"}
    Slashes = {FALSE, TRUE}
    MayFail = TRUE
    MaxLinks = 4
    MaxWasted = 1
    MaxUnsaved = 1
    MaxHeld = 3
    Paths <- TwoPaths
SPECIFICATION Spec
INVARIANTS
    TypeOK
    NamesHold
    CleanSaved
    InodeCount
PROPERTIES
    KeptWhileHeld
CONSTRAINT Bounded
CHECK_DEADLOCK FALSE
