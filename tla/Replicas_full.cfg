\* A map of three entries, two of which the despawned gave back.
SPECIFICATION SnapshotsSpec
CONSTANTS
    Indices = {1, 2}
    Own = 1
    Busy = {2}
    Values = {0}
    MaxGeneration = 2
    SnapshotHistory = 2
    MaxReplicated = 3
    MaxTick = 4
    MaxKills = 0
    MaxConnections = 1
CHECK_DEADLOCK FALSE
PROPERTY SlotsReused
