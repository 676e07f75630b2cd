SPECIFICATION FairSpec
INVARIANT ClosesRight
PROPERTY KeepsPromise
PROPERTY RunningIsClosed
CHECK_DEADLOCK FALSE
CONSTANTS
    r1 = r1
    r2 = r2
    u1 = u1
    u2 = u2
    s1 = s1
    s2 = s2
    none = none
    N = 2
    BatchSize = 1
    CleanupBatch = 1
    Stamps = {s1}
    NoStamp = none
    Runners = {r1}
    Users = {u1}
    RetryLimit = 1
    UndoWindow = TRUE
    PartialPercent = 50
    Operations = {"send", "pause", "send-now", "undo"}
    Crons = {"resume-on-quota", "watchdog"}
    Outcomes = {"sent", "failed", "skipped"}
    MaxRequests = 2
    MaxFaults = 0
    MaxReturns = 1
