SPECIFICATION FairSpec
CONSTANTS
    MaxVersion = 2
    MaxLock = 2
    Reported = {"running", "completed:well"}
    Clients = {"metadata", "snapshot", "delete", "early"}
    Faults = {"write"}
PROPERTY PersistsSettle
CHECK_DEADLOCK FALSE
