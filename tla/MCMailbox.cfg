SPECIFICATION FairSpec
CONSTANTS
    Id <- MCId
    Kind <- MCKind
    Deadline <- MCDeadline
    Box = {b1}
    Capacity = 2
    MaxTime = 1
    MaxInFlight = 2
    Faults = {"read", "write"}
INVARIANTS WithinCapacity NoLostMail FileCatchesUp
PROPERTIES RequestOutlivesReading EveryCallRuns
CHECK_DEADLOCK FALSE
