CONSTANTS
    LastInode = 4
    ITABSIZE = 3
    FSFREEINODES = 2
    MAXREFS = 5
    LastSlot = 3
    Plain = {"a"}
    Slashes = {FALSE}
    MayFail = FALSE
    MaxLinks = 4
    MaxWasted = 0
    MaxUnsaved = 4
    MaxHeld = 2
    Paths <- TwoPaths
SPECIFICATION Spec
INVARIANTS
    LinksCounted
CHECK_DEADLOCK FALSE
