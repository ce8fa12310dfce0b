SPECIFICATION DraftingSpec
CONSTANTS
    Tasks = {task}
    Workers = {author}
    Tokens = {k1, k2, k3}
    NoToken = NoToken
    LeaseTicks = 1
    Suites <- MCSuites
    Answers = {yes, no}
    NoTask = NoTask
    NoSuite = NoSuite
    NoAnswer = NoAnswer
    MaxAuthorAttempts = 3
    MaxRevision = 2
    Cases = {1, 2}
    MaxRepairs = 2
    NoObjection = NoObjection
    MaxFaults = 1
INVARIANTS
    FrozenIsAccepted
    AuthorIsTold
    RequestsAreBounded
