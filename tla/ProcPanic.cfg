CONSTANTS
    PTABSIZE = 2
    MAXPID = 2
    NSIGS = 2
    SIGINT = 2
    SIGKILL = 0
    SIGALRM = 1
    Events = {ev}
    NULL = NULL
    Handlers = {"dfl", "catch"}
    WaitArgs = {0}
    StimeMinutes = {0}
    MAXALARM = 1
SPECIFICATION Spec
INVARIANTS
    NeverExtraRunning
VIEW Observed
CHECK_DEADLOCK FALSE
