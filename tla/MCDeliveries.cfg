SPECIFICATION LiveSpec
CONSTANTS
    Ids = {d1, d2}
    Handlers = {h1}
    Retrier = Retrier
    Tokens = {t1, t2, t3, t4}
    NoId = NoId
    NoToken = NoToken
    LeaseTicks = 1
    RetryTicks = 1
    Retention = 1
    Healthy = {d2}
INVARIANTS
    DoneIsApplied
PROPERTIES
    HealthyCompleted
