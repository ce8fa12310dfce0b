SPECIFICATION Spec
CONSTANTS
    Pushes = {push}
    Task = task
    Suites = {suite}
    NoSuite = NoSuite
    DeliveryTokens = {d1, d2, d3}
    Tokens = {k1, k2}
    NoToken = NoToken
    None = None
    MaxAuthorAttempts = 2
    MaxGradingAttempts = 2
    MaxLate = 0
SYMMETRY Symmetry
INVARIANTS
    TypeOK
    PushIsNotLost
    GradedAgainstFrozen
PROPERTIES
    ImplementsPushGrades
