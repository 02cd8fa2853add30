SPECIFICATION Spec
CONSTANTS
    Parents = {p1}
    Managers = {p1}
    Attended = {p1}
    MaxChild = 2
    Limit = 2
    Callers = {p1}
    MaxCall = 1
    Outcomes = {"result", "empty", "failure"}
INVARIANTS TypeOK LimitHeld HandlesTellTheTruth ToldOnce KeptUntilTold NothingLeftRunning
CONSTRAINT Apart
CHECK_DEADLOCK FALSE
