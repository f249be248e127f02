SPECIFICATION NetSpec
CONSTANTS
    IdSpace = 20
    SeqSpace = 10
    InFlight = 2
    SeenWindow = 2
    AckWindow = 2
    BodyMax = 2
    MaxReassembly = 1
    MaxMessage = 2
    MaxBytes = 2
    Ends <- MCEnds
    Starts <- OrderStarts
    MaxPackets <- MCPackets
    ClientPackets = 4
    ServerPackets = 2
    Drops = {"client"}
CHECK_DEADLOCK FALSE
INVARIANTS
    HonestIsServed
    WireHonest
PROPERTIES
    InOrderOnce
