\* A table smaller than the requests in flight, restarts, refused statements.
SPECIFICATION Spec
CONSTANTS
    Requests = {r1, r2, r3}
    Keys = {k1, k2}
    Payloads = {p1, p2}
    MaxEntries = 1
    TTL = 2
    MaxTime = 4
    MaxCrashes = 1
    Prompt = TRUE
    None = None
SYMMETRY Symmetry
CHECK_DEADLOCK FALSE
INVARIANTS OneOrder AnswersAreTrue NothingLeaks
