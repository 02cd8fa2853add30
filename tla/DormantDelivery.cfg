SPECIFICATION FairSpec
CONSTANTS
    MaxMail = 2
    Silent = {1}
    Instance = {i1, i2}
    MaxEvent = 2
    User = User
    Stop = Stop
    Api = Api
    None = None
    i1 = i1
    i2 = i2
INVARIANTS TypeOK AckMeansKept LiveSeesMail
PROPERTY WakeIsHeard
CHECK_DEADLOCK FALSE
