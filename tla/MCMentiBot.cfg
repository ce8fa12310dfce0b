SPECIFICATION LiveSpec
CONSTANTS
    Questions <- TwoQuestions
    MaxTrouble = 2
INVARIANTS
    AnswerIsToItsQuestion
    NothingLost
    NoNeedlessMessage
PROPERTIES
    MentorIsServed
