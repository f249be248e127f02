\* The same scenes; one of them pipelines three requests and shuts its half.
SPECIFICATION MCSpec
CONSTANTS
    w1 = w1
    w2 = w2
    p1 = p1
    p2 = p2
    p3 = p3
    Peers = {p1, p2, p3}
    Scripts <- MCScripts
    MaxConnections = 2
    Pools <- MCPools
    RequestBudget = 2
    ReceiveCap = 3
    SendCap = 1
    Window = 1
    MaxActive = 3
    MaxConcurrent = 2
    MaxHandle = 4
    Priorities <- MCPriorities
INVARIANTS
    PipelineServed
