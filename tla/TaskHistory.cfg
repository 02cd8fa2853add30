SPECIFICATION FairSpec
CONSTANTS
    Procs = {p1}
    Tasks = {t1, t2}
    Fields = {f, g}
    Values = {v1}
    Unset = Unset
    NoLoad = NoLoad
    RacingLoads = FALSE
    Faults = {"write"}
    MaxQueue = 2
    p1 = p1
    t1 = t1
    t2 = t2
    f = f
    g = g
    v1 = v1
INVARIANT CacheAgrees
PROPERTY WritesMerge
PROPERTY IndexCatchesUp
