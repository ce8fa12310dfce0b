SPECIFICATION LiveSpec
CONSTANTS
    Runner = r
    Child = c
    Descendants = {d1, d2}
    MaxRounds = 2
INVARIANTS
    OutputIsFinal
    CallOutputIsFinal
PROPERTIES
    RunnerEnds
