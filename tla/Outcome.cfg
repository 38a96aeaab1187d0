\* Two attempts, two faults, reports with up to two edits.
SPECIFICATION FairSpec
CHECK_DEADLOCK FALSE
CONSTANTS
    Attempts = 2
    MaxFaults = 2
    MaxDamage = 2
    ToolOutput <- MCToolOutput
    SyntheticOutput <- MCSyntheticOutput
INVARIANTS
    OutcomeInv
    TrustFollowsSuccess
    TrustedSlackIsTheTools
    MetricsBelongToVerdict
    CancelledNeverSucceeds
    EndedRunHasNoChild
    TerminalEventIsTrue
PROPERTIES
    RunEnds
    MetricsFollow
