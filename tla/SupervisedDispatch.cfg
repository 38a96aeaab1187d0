\* One Agent that dispatches one job after another.
SPECIFICATION Spec
CHECK_DEADLOCK FALSE
CONSTANTS
    Host = {h1}
    AgentsPerHost = 1
    SupervisorsPerHost = 1
    Job = {j1, j2}
    NoAgent = NoAgent
    MaxInFlight = 1
    Concurrency = 1
    LeaseTicks = 1
    ClaimTicks = 1
    MaxCrashes = 1
INVARIANTS
    CapacityRespected
