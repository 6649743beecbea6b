CONSTANTS
    Procs = {p1, p2}
    Creator = p1
    BUFSIZE = 2
    DIRECTBLOCKS = 2
    Counts = {1, 2, 5}
    MayFail = TRUE
SPECIFICATION Spec
INVARIANTS
    TypeOK
    SleepersHaveCause
    InOrder
VIEW Seen
SYMMETRY Alike
CHECK_DEADLOCK FALSE
