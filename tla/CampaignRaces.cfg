SPECIFICATION Spec
INVARIANT TypeOK
INVARIANT OneMessagePerContact
INVARIANT SendingIsComplete
INVARIANT NoOrphans
PROPERTY KeepsPromise
SYMMETRY Symmetry
CHECK_DEADLOCK FALSE
CONSTANTS
    r1 = r1
    r2 = r2
    u1 = u1
    u2 = u2
    s1 = s1
    s2 = s2
    none = none
    N = 2
    BatchSize = 1
    CleanupBatch = 1
    Stamps = {s1, s2}
    NoStamp = none
    Runners = {r1, r2}
    Users = {u1, u2}
    RetryLimit = 1
    UndoWindow = FALSE
    PartialPercent = 50
    Operations = {"send", "resume", "undo", "cancel", "pause", "schedule", "unschedule", "send-now"}
    Crons = {"scheduler"}
    Outcomes = {"sent"}
    MaxRequests = 2
    MaxFaults = 1
    MaxReturns = 0
