\* Two hosts: an Attempt is recovered on a read that preceded its registration.
SPECIFICATION Spec
CHECK_DEADLOCK FALSE
CONSTANTS
    Host = {h1, h2}
    AgentsPerHost = 1
    SupervisorsPerHost = 1
    Job = {j1}
    NoAgent = NoAgent
    MaxInFlight = 1
    Concurrency = 1
    LeaseTicks = 1
    ClaimTicks = 1
    MaxCrashes = 0
PROPERTIES
    ForeignNeedsWitness
