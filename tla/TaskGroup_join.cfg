\* Two groups of up to two tasks, side by side or one in a task of the other.
SPECIFICATION MCSpec
CONSTANTS
    MaxActive = 2
    MaxConcurrent = 2
    MaxHandle = 3
    Priorities <- MCPriorities
    Groups = {g1, g2}
    Capacities = {0, 1, 2}
    MaxLoose = 1
    Cancels = {g1}
    NestLimit = 1
    Shutdown = TRUE
CHECK_DEADLOCK FALSE
INVARIANTS
    EndIsHonest
PROPERTIES
    FirstFailureStays GroupsEnd
