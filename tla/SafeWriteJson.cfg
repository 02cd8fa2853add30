SPECIFICATION FairSpec
CONSTANTS
    Procs = {p1, p2}
    Contents = {v1, v2}
    Absent = Absent
    Free = Free
    Faults = {"lock", "stream", "access", "backup", "commit", "unlink", "release", "crash"}
    MaxQueue = 2
    p1 = p1
    p2 = p2
    v1 = v1
    v2 = v2
PROPERTY WritesAreAtomic
PROPERTY FileReturns
PROPERTY EveryWriteSettles
