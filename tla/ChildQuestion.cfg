SPECIFICATION QuestionFairSpec
CONSTANTS
    MaxQuestion = 2
    MaxParent = 2
    Nothing = Nothing
INVARIANTS AnswersMatch RequestKept NothingLeftBehind
PROPERTY ChildGoesOn
CHECK_DEADLOCK FALSE
