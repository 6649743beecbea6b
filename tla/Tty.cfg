CONSTANTS
    Procs = {p1, p2}
    Catchers = {p1}
    TTYSIZ = 2
    Counts = {2}
    Modes = {0, 3}
VIEW Seen
SPECIFICATION Spec
INVARIANTS
    TypeOK
    ReaderAsleepForCause
    WriterAsleepForCause
    SleeperFlagged
PROPERTIES
    LineSpec
CHECK_DEADLOCK FALSE
