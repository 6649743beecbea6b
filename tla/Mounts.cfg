CONSTANTS
    d1 = d1
    d2 = d2
    NULL = NULL
    Devs = {rd, d1, d2}
    ROOTDEV = rd
    NFS = 3
    Entries = {e1, e2, e3, e4, e5}
    MAXREFS = 48
    Nums <- Numbers
    ROOTINODE = 1
    Names = {"..", "a", "f1", "f2"}
    Upward = {".."}
    Child <- Same
    Special <- Files
    Directories <- Dirs
    Holders = {"root", "p"}
    Keeper = "root"
    MayFail = TRUE
SPECIFICATION Spec
INVARIANTS
    TypeOK
    RefsExact
    TreeStands
PROPERTIES
    NamespaceSpec
CONSTRAINTS
    Unbroken
    OneLost
SYMMETRY Alike
VIEW Seen
CHECK_DEADLOCK FALSE
