CONSTANTS
    Bufs = {p1, p2}
    Blocks = {b1, b2, b3}
    NoBlock = NoBlock
    Data = {zero, d1}
    ZERO = zero
    MAXHELD = 2
    MayFail = {"read", "write"}
SPECIFICATION Spec
INVARIANTS
    TypeOK
    OneBufferPerBlock
    CleanIsOnDisk
PROPERTIES
    StoreSpec
SYMMETRY Alike
CHECK_DEADLOCK FALSE
