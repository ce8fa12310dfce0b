SPECIFICATION DraftingSpec
CONSTANTS
    Tasks = {task}
    Workers = {author}
    Tokens = {k1, k2, k3}
    NoToken = NoToken
    LeaseTicks = 1
    Suites <- MCSuites
    Answers = {yes}
    NoTask = NoTask
    NoSuite = NoSuite
    NoAnswer = NoAnswer
    MaxAuthorAttempts = 3
    MaxRevision = 1
    Cases = {1, 2}
    MaxRepairs = 2
    NoObjection = NoObjection
    MaxFaults = 0
INVARIANT
    ProtocolFailuresAreRejected
