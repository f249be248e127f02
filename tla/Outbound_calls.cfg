\* Two keys for one place in each table; a server whose waits outlast the caller's.
SPECIFICATION MCSpec
CONSTANTS
    Deps = {h, k}
    MaxDeps = 1
    FailureThreshold = 2
    SuccessThreshold = 2
    HalfOpenMax = 1
    OpenFor = 2
    MaxFlight = 3
    Routes = {h, k}
    MaxBuckets = 1
    Period = 2
    Burst = 2
    MaxHold = 3
    Host = h
    Requests <- MCRequests
    MaxRetries = 2
    MaxWait = 2
    Guess = 1
    MaxBackoff = 1
INVARIANTS
    BoundedQuestions ActedOnce
PROPERTIES
    QuietAfterFailure BreakerHeals NeverTooSoon AttemptsAreGated CallEnds
