SPECIFICATION Spec
CONSTANTS
    MaxVersion = 3
    MaxLock = 2
    Reported = {"running", "idle", "completed:well", "error"}
    Clients = {"metadata", "delete", "early"}
    Faults = {"write"}
INVARIANT SettledAgrees
PROPERTY DurableMovesForward
CHECK_DEADLOCK FALSE
