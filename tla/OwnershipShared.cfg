\* Two workers polling one PostgreSQL store.
SPECIFICATION Spec
CONSTANTS
    Proc = {w1, w2}
    NoProc = NoProc
    MaxAttempts = 2
    LeaseTicks = 1
    ClaimTicks = 1
    GraceTicks = 1
    SharedQueue = TRUE
    AtomicFinalize = FALSE
    PsAvailable = TRUE
    MaxCrashes = 1
SYMMETRY ProcSymmetry
INVARIANTS
    OwnershipInv
    NoAttemptBesideLiveChild
    SuccessIsWitnessed
PROPERTIES
    ImplementsLedger
    SignalsOnlyOrphans
    ReopenedOnlyUnfenced
