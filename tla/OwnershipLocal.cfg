\* One process on SQLite that executes what it accepts and recovers after a restart.
SPECIFICATION Spec
CONSTANTS
    Proc = {api}
    NoProc = NoProc
    MaxAttempts = 2
    LeaseTicks = 1
    ClaimTicks = 1
    GraceTicks = 1
    SharedQueue = FALSE
    AtomicFinalize = TRUE
    PsAvailable = TRUE
    MaxCrashes = 2
PROPERTIES
    RowsPartOnlyUnfenced
    LocalVerdictKept
    ClosedOverNoLiveChild
