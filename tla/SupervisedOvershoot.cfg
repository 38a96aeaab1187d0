\* One Agent with two threads: the count runs ahead of the enqueues.
SPECIFICATION Spec
CHECK_DEADLOCK FALSE
CONSTANTS
    Host = {h1}
    AgentsPerHost = 1
    SupervisorsPerHost = 1
    Job = {j1, j2}
    NoAgent = NoAgent
    MaxInFlight = 1
    Concurrency = 2
    LeaseTicks = 1
    ClaimTicks = 1
    MaxCrashes = 0
INVARIANTS
    CapacityRespected
