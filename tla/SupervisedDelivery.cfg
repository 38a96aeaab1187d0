\* Two Agents of a host and their Supervisor, one crash, fair scheduling.
SPECIFICATION DeliverySpec
CHECK_DEADLOCK FALSE
CONSTANTS
    Host = {h1}
    AgentsPerHost = 2
    SupervisorsPerHost = 1
    Job = {j1}
    NoAgent = NoAgent
    MaxInFlight = 1
    Concurrency = 1
    LeaseTicks = 1
    ClaimTicks = 1
    MaxCrashes = 1
PROPERTIES
    DeliveryEnds
