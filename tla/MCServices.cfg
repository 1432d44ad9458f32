CONSTANTS
    c1 = c1
    c2 = c2
    d1 = d1
    d2 = d2
    d3 = d3
    d4 = d4
    Ids = {d1, d2, d3, d4}
    Topics = {t1}
    Skills = {s1}
    AnswerChoices = {c1, c2}
    NoAnswer = NoAnswer
    None = None
    MaxAttempts = 3
    Window = 2
    DayLength = 3
    DailyTasks = 2
    DailyFailed = 2
    MaxClock = 5
    Clients = {d1, d2, d3}
    Hands = {c1, c2}
    MaxKeys = 2
    OwnInterval = 2
    OwnBurst = 1
    WholeInterval = 1
    WholeBurst = 1
    MaxMoment = 3
    MaxTaken = 2
    ClientIds = {d1, d2, d3}
    Fetches = {c1, c2}
    CacheEntries = 2
    ShortestKept = 1
    LongestKept = 2
    AttemptTime = 1
    MaxAges = {0, 4}
    MaxVersions = 1
    MaxHour = 3
    Timeout = 2
    Pauses <- PausesOfCalls
    Spread = 1
    MaxEnds = 16
    Judged = {c1, c2}
    Concurrency = 1
    Processors = 1
    SlotWait = 2
    RunTime = 3
    StepBudget = 4
    Works = {1, 2, 5}
    Visits = {c1, c2}
    ShutdownTimeout = 4
    LateDeadline = 2
    FlushTimeout = 1
    MetricInterval = 2
    LastStop = 1
    MaxUptime = 5
SPECIFICATION ServicesSpec
SYMMETRY Alike
INVARIANTS
    BooksBalance
    RoomIsKept
    CeilingsHold
    CacheHolds
    RepeatsDoNoHarm
    VerdictsHold
    StopsHold
PROPERTIES
    CardIsToldTrue
    HandedOutFits
    FreshAreLetGoLast
