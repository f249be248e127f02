\* A slow worker fails a job another worker already settled.
SPECIFICATION Spec
CONSTANTS
    w1 = w1
    w2 = w2
    p1 = p1
    k1 = k1
    Workers = {w1, w2}
    Producers = {p1}
    NoClient = NoClient
    Keys = {k1}
    NoKey = NoKey
    MaxJobs = 1
    MaxTime = 5
    MaxFaults = 0
    Lease = 2
    BackoffBase = 1
    BackoffCap = 2
    JitterPercent = 0
    DefaultMaxAttempts = 1
    Options <- MCPlain
    HonestLease = FALSE
PROPERTY DeadNeverRuns
