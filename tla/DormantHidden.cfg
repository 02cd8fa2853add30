SPECIFICATION Spec
CONSTANTS
    MaxMail = 1
    Silent = {}
    Instance = {i1, i2}
    MaxEvent = 3
    User = User
    Stop = Stop
    Api = Api
    None = None
    i1 = i1
    i2 = i2
CONSTRAINT OneAtATime
INVARIANT OneLive
CHECK_DEADLOCK FALSE
