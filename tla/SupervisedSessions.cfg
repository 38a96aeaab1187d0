\* One host, two Agents that replace one another, one Supervisor, one job.
SPECIFICATION Spec
CHECK_DEADLOCK FALSE
CONSTANTS
    Host = {h1}
    AgentsPerHost = 2
    SupervisorsPerHost = 1
    Job = {j1}
    NoAgent = NoAgent
    MaxInFlight = 1
    Concurrency = 1
    LeaseTicks = 1
    ClaimTicks = 1
    MaxCrashes = 1
INVARIANTS
    SupervisedInv
    AcceptedIsWitnessed
    DeliveriesAgree
PROPERTIES
    ImplementsLedgers
    SupersededNeverAccepted
