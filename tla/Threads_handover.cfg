\* Two places in the table and two requests to a pass; four jobs, three records, two at once.
SPECIFICATION MCSpec
CONSTANTS
    w1 = w1
    w2 = w2
    p1 = p1
    p2 = p2
    p3 = p3
    Peers = {p1, p2, p3}
    Scripts <- MCScripts
    MaxConnections = 2
    Pools <- MCPools
    RequestBudget = 2
    ReceiveCap = 3
    SendCap = 1
    Window = 1
    MaxActive = 3
    MaxConcurrent = 2
    MaxHandle = 4
    Priorities <- MCPriorities
INVARIANTS
    AnswersInOrder ExchangeOwned DoneMeansReturned
PROPERTIES
    RequestsAnswered ShutdownEnds SlotPinned JobsEnd
