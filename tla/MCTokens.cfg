CONSTANTS
    i1 = i1
    i2 = i2
    c1 = c1
    c2 = c2
    NoInstance = NoInstance
    Instances = {i1, i2}
    Calls = {c1, c2}
    ClockSkew = 1
    CodeLifetime = 2
    AccessLifetime = 3
    RefreshLifetime = 4
    SessionLifetime = 5
    RequestSpan = 1
    CallTimeout = 1
    Spare = 1
    GoogleLasts = {6}
    MaxCodes = 1
    MaxDropped = 1
    MaxTokens = 2
    MaxTime = 8
SPECIFICATION MCSpec
CHECK_DEADLOCK FALSE
SYMMETRY Alike
INVARIANTS
    GivenIsGood
    GivenEnds
