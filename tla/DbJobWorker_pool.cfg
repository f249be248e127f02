\* A queue and its workers, any lease may run out under a slow one; a pool over the
\* queue, stopped, crashed and started again.
SPECIFICATION MCSpec
CONSTANTS
    w1 = w1
    w2 = w2
    p1 = p1
    k1 = k1
    Workers = {w1, w2}
    Producers = {p1}
    NoClient = NoClient
    Keys = {k1}
    NoKey = NoKey
    MaxJobs = 2
    MaxTime = 3
    MaxFaults = 2
    Lease = 2
    BackoffBase = 1
    BackoffCap = 2
    JitterPercent = 0
    DefaultMaxAttempts = 1
    Options <- MCOptions
    HonestLease = FALSE
    ResolveRetries = 1
    MaxStarts = 2
CHECK_DEADLOCK FALSE
INVARIANTS StopIsClean
PROPERTIES QueueNeverWedged  StopReturns
