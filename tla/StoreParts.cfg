\* Pages of one Run over three; three revisions; two adapters of one device; three processes.
SPECIFICATION Spec
CHECK_DEADLOCK FALSE
CONSTANTS
    Job = {1, 2, 3}
    Status = {live, ended}
    AnyStatus = any
    Limit = 1
    MaxClock = 3
    MaxWrites = 2
    r1 = r1
    r2 = r2
    r3 = r3
    Revision = {r1, r2, r3}
    Meta <- MCMeta
    Findings <- MCFindings
    NoRevision = none
    a1 = a1
    a2 = a2
    fx = fx
    dev1 = dev1
    dev2 = dev2
    Caller = {x, y, z}
    Adapter = {a1, a2, fx}
    Real = {a1, a2}
    Resource = {dev1, dev2}
    ResourceOf <- MCResourceOf
    Nobody = nobody
    Process = {p, q, s}
    Api = {p}
    Columns = 3
INVARIANTS
    PartsInv
    UnchangedRunIsListed
    AnswerErrsToOneSide
    SlotReturned
    UserIsUndisturbed
    OpenedIsComplete
    MigrationIsAlone
