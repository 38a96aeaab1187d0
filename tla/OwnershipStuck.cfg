\* A worker that crashes between two attempts leaves its Run running.
SPECIFICATION FairSpec
CONSTANTS
    Proc = {w1}
    NoProc = NoProc
    MaxAttempts = 2
    LeaseTicks = 1
    ClaimTicks = 1
    GraceTicks = 1
    SharedQueue = TRUE
    AtomicFinalize = FALSE
    PsAvailable = TRUE
    MaxCrashes = 1
PROPERTIES
    RunEndsAfterItsChild
