\* Every shape of cron field; two writers and two crashes; one session at a time; rings
\* of two snapshots and three commands that go round, and a second
\* connection; three events, two of them nested, over lists that change.
SPECIFICATION MCSpec
CONSTANTS
    TicksPerMinute = 2
    MinutesPerHour = 4
    HoursPerDay = 3
    MonthLengths <- MCMonthLengths
    WeekLength = 3
    HorizonDays = 22
    Specs <- MCSpecs
    Instants <- MCInstants
    Threads = {t1, t2}
    Attempts = 2
    MaxNames = 3
    MaxCrashes = 2
    IdleFor = 3
    Absolute = 4
    Slack = 1
    MaxSessions = 1
    KeepRevoked = 1
    MaxIds = 2
    MaxTurns = 1
    MaxNow = 8
    Indices = {1, 2}
    Own = 1
    Busy = {2}
    Values = {0, 1}
    MaxGeneration = 2
    SnapshotHistory = 2
    MaxReplicated = 6
    MaxTick = 4
    MaxKills = 1
    MaxConnections = 2
    Steps = {0, 1}
    Redundancy = 2
    CommandHistory = 3
    CommandQueue = 4
    CommandBurst = 2
    CommandSlack = 2
    ViolationLimit = 1
    Drift = 1
    Delay = 2
    MaxClientTick = 5
    Types = {input, job}
    Elsewhere = {job}
    Plain = {first, second}
    Once = {single}
    MaxEvents = 3
    MaxChanges = 4
    MaxDepth = 2
CHECK_DEADLOCK FALSE
INVARIANTS
    AnswerIsRight ReplacedCleanly LivesAsPromised
    ReplicaHonest PredictionHolds CommandsFair BusHonest
PROPERTIES
    HousekeepingSparesLive HooksHeard
