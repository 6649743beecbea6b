CONSTANTS
    Procs = {p1, p2}
    InitProc = p1
    UFTSIZE = 2
    OFTSIZE = 3
    Inodes = {root, i2}
    ROOTINODE = root
    NULL = NULL
    MAXREFS = 9
    MaxLost = 1
SPECIFICATION Spec
INVARIANTS
    TypeOK
    OpenCounted
    
PROPERTIES
    KeptOpen
CONSTRAINT Few
VIEW Observed
CHECK_DEADLOCK FALSE
