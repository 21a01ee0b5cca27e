SPECIFICATION Spec
CONSTANTS
    j1 = j1
    j2 = j2
    j3 = j3
    p1 = p1
    p2 = p2
    k1 = k1
    Job      = {j1, j2}
    Process  = {p1, p2}
    Key      = {k1}
    KeyOf   <- PairOfOneApp
    PidOf   <- OwnPids
    Ttl      = 2
    SetDelay = 1
    RunBound = 3
    MaxClock = 5
PROPERTY
    OwnedLockKept
