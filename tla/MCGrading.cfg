SPECIFICATION LiveSpec
CONSTANTS
    Attempts = {a1, a2}
    Workers = {w1, w2}
    Tokens = {1, 2, 3, 4}
    NoAttempt = NoAttempt
    NoToken = 0
    LeaseTicks = 2
    MaxGradingAttempts = 3
    RetryBase = 2
    RetryCap = 3
    Healthy = {a2}
    First = w1
INVARIANTS
    AtMostOneWriter
PROPERTIES
    ImplementsHiddenGrades
    HealthyGraded
