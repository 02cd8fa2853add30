SPECIFICATION FairSpec
CONSTANTS
    MaxAsk = 2
    MaxMessage = 2
    Kinds = {"approval", "followup", "other"}
    Overlap = TRUE
    None = None
INVARIANTS AnswersMatch MessagesKept OrderKept WaitingIsKnown
PROPERTY QueueIsDrained
CHECK_DEADLOCK FALSE
