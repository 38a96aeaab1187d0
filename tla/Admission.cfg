\* Two API processes, two keys, a budget of one.
SPECIFICATION FairSpec
CHECK_DEADLOCK FALSE
CONSTANTS
    c1 = c1
    c2 = c2
    c3 = c3
    j1 = j1
    j2 = j2
    b1 = b1
    b2 = b2
    Proc = {p1, p2}
    Thread = {t1, t2}
    Client = {c1, c2, c3}
    Job = {j1, j2}
    Body = {b1, b2}
    Wants <- MCWants
    NoBody = NoBody
    Nobody = Nobody
    MaxInFlight = 1
    MaxRetries = 1
    MaxFaults = 1
INVARIANTS
    AdmissionInv
    BudgetRespected
    RepeatIsNotRefused
PROPERTIES
    ScheduledOnce
    ImplementsBudget
    AcceptedRunIsTaken
