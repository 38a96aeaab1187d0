\* Two workers, fair scheduling: leased attempts end.
SPECIFICATION FairSpec
CONSTANTS
    Proc = {w1, w2}
    NoProc = NoProc
    MaxAttempts = 1
    LeaseTicks = 1
    ClaimTicks = 1
    GraceTicks = 1
    SharedQueue = TRUE
    AtomicFinalize = FALSE
    PsAvailable = TRUE
    MaxCrashes = 1
PROPERTIES
    ExpiredLeaseNeverSucceeds
    LeasedAttemptEnds
