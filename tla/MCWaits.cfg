CONSTANTS
    Accounts = {a1, a2}
    Calls = {c1, c2, c3}
    TurnIds = {t1, t2}
    NoTurn = NoTurn
    NoCall = NoCall
    a1 = a1
    s1 = s1
    Servers = {s1, s2}
    Questions = {q1, q2}
    Over = 2
    MaxWrites = 2
SPECIFICATION WaitsSpec
INVARIANTS
    TurnsHold
    NewsReachesAll
PROPERTIES
    EveryWaitEnds
    EveryQuestionEnds
