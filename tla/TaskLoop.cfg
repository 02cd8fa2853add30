SPECIFICATION FairSpec
CONSTANTS
    Messages = {m1, m2}
    Wakes = {w1}
    Calls = {c1}
    Loops = {l1, l2}
    AutoApproval = {TRUE, FALSE}
    Child = {TRUE, FALSE}
    Faults = {"cancel", "kill", "failure", "empty"}
    WakeTurn = WakeTurn
    NoMessage = NoMessage
    NoLoop = NoLoop
    m1 = m1
    m2 = m2
    w1 = w1
    c1 = c1
    l1 = l1
    l2 = l2
INVARIANT OneLoop
 
PROPERTY SendNowReturns
PROPERTY SendNowHeard
CONSTRAINT Timely
