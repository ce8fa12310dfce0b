SPECIFICATION LiveSpec
CONSTANTS
    Tasks = {t1}
    Workers = {w1, w2}
    Tokens = {k1, k2, k3}
    Suites = {s1, s2}
    Answers = {x1, x2}
    NoTask = NoTask
    NoSuite = NoSuite
    NoAnswer = NoAnswer
    NoToken = NoToken
    LeaseTicks = 1
    MaxAuthorAttempts = 3
    MaxRevision = 2
INVARIANTS
    ClarificationMatchesJob
    AnswerReachesAuthor
    ReadyIsFrozen
PROPERTIES
    OutcomeIsFinal
    EveryJobSettles
