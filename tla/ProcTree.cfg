CONSTANTS
    PTABSIZE = 3
    MAXPID = 3
    NSIGS = 2
    SIGINT = 1
    SIGKILL = 2
    SIGALRM = 1
    Events = {}
    NULL = NULL
    Handlers = {"dfl"}
    WaitArgs = {0, 3}
    StimeMinutes = {0}
    MAXALARM = 0
SPECIFICATION FairSpec
INVARIANTS
    TypeOK
    FoundAsItself
    TotalExact
    ParentAlive
    WaitersNotified
PROPERTIES
    ReapedByParent
    TreeSpec
    ReadyRuns
CHECK_DEADLOCK FALSE
