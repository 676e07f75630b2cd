SPECIFICATION Spec
INVARIANT ClosedWhenComplete
CHECK_DEADLOCK FALSE
CONSTANTS
    r1 = r1
    r2 = r2
    u1 = u1
    u2 = u2
    s1 = s1
    s2 = s2
    none = none
    N = 2
    BatchSize = 1
    CleanupBatch = 1
    Stamps = {s1}
    NoStamp = none
    Runners = {r1}
    Users = {u1}
    RetryLimit = 1
    UndoWindow = FALSE
    PartialPercent = 50
    Operations = {"send"}
    Crons = {"watchdog"}
    Outcomes = {"sent", "failed"}
    MaxRequests = 1
    MaxFaults = 0
    MaxReturns = 0
