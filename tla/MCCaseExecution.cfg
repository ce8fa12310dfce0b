SPECIFICATION LiveSpec
CONSTANTS
    Programs <- AllKinds
    Delays = {0, 1, 2, 12, 25, 31}
    RunTimes = {1, 9, 10}
INVARIANTS
    PassIsEarned
    HostIsNotBlamed
    StudentIsJudged
PROPERTIES
    JudgeableIsJudged
