SPECIFICATION LiveSpec
CONSTANTS
    a1 = a1
    a2 = a2
    c1 = c1
    c2 = c2
    Attempts = {a1, a2}
    Commits = {c1, c2}
    CommitOf <- OwnCommits
    Publishers = {p1, p2}
    Tokens = {1, 2, 3, 4}
    NoAttempt = NoAttempt
    NoToken = 0
    LeaseTicks = 2
    RetryTicks = 1
    MaxLate = 1
    Healthy = {a2}
    First = p1
INVARIANTS
    PublishedIsShown
PROPERTIES
    OneRunPerAttempt
    HealthyPublished
