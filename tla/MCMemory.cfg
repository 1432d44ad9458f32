CONSTANTS
    Subjects = {t1, t2}
    TrialSeries = 2
    MaxRecent = 3
    MinRecent = 2
    RatingDaysKept = 2
    MaxEntries = 5
    MaxDate = 3
    DayLength = 4
    Offsets <- TravelEastAndWest
    DailyTasks = 2
    Skews = {0, 1}
    MaxMoment = 10
    MaxAtOnce = 3
    MaxClocks = 2
    Catalog <- CatalogOfThree
    WindowHolds = 3
    WindowKeeps = 1
    MaxSkips = 1
    MaxEvents = 2
    Lengths = {2, 3, 4}
    MaxRound = 3
    MaxUnnamed = 1
    TrialAnswers = 3
    ProbeEvery = 4
    MaxTasks = 13
    MetTopics = {t1, t2}
    Levels = {1, 2, 3}
    MasteryAnswers = 2
    MasteryLostAfter = 2
    MaxRun = 3
    Recoverers = {c1, c2}
    Recent = 1
    MaxKept = 3
    MaxRevisions = 5
    Damages = {"torn"}
    MaxRecoveries = 2
    MaxFaults = 1
SPECIFICATION MemorySpec
CHECK_DEADLOCK FALSE
SYMMETRY Alike
INVARIANTS
    WindowKeepsItsOwn
    WeekIsToldRight
    NoMoreThanTheDays
    EveryTopicComesRound
    MasteryIsEarned
    RecoveryHolds
PROPERTIES
    LostByARunAlone
    DaysAreWhole
    IdeasAreGivenInTurn
    ProbesAreApart
    TriedAreNotDeleted
