SPECIFICATION LiveSpec
CONSTANTS
    Programs <- Exceptions
    Delays = {0, 1, 2, 12, 25, 31}
    RunTimes = {1, 9, 10}
PROPERTIES
    ExceptionIsJudged
