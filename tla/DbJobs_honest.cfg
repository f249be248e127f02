\* Every kind of job under the honest lease; crashes and lock timeouts happen.
SPECIFICATION Spec
CONSTANTS
    w1 = w1
    w2 = w2
    p1 = p1
    k1 = k1
    Workers = {w1, w2}
    Producers = {p1}
    NoClient = NoClient
    Keys = {k1}
    NoKey = NoKey
    MaxJobs = 2
    MaxTime = 4
    MaxFaults = 1
    Lease = 2
    BackoffBase = 1
    BackoffCap = 2
    JitterPercent = 100
    DefaultMaxAttempts = 1
    Options <- MCMixed
    HonestLease = TRUE
SYMMETRY Symmetry
INVARIANTS OneRunner UniqueActive
PROPERTIES SettledStays 
