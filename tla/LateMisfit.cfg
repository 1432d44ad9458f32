CONSTANTS
    c1 = c1
    c2 = c2
    c3 = c3
    i1 = i1
    i2 = i2
    n1 = n1
    n2 = n2
    n3 = n3
    g = g
    a = a
    t1 = t1
    t2 = t2
    Calls = {c1, c2}
    Instances = {i1, i2}
    NameOf <- NameEach
    Ids = {g, a, n1, n2, n3}
    GivenFirst = g
    AskedNext = a
    Topics = {t1, t2}
    Skills = {}
    AnswerChoices = {x}
    NoAnswer = NoAnswer
    None = None
    MaxAttempts = 2
    Window = 2
    DayLength = 3
    DailyTasks = 9
    DailyFailed = 9
    Settings <- EditedAlone
SPECIFICATION Spec
PROPERTIES
    HandedOutFits
