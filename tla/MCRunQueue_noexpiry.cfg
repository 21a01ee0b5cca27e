SPECIFICATION NoExpirySpec
CONSTANTS
    r1 = r1
    r2 = r2
    r3 = r3
    w1 = w1
    w2 = w2
    s1 = s1
    s2 = s2
    Run        = {r1, r2, r3}
    Request   <- Requests
    Worker     = {w1}
    Slot       = {s1}
    WorkerOf  <- OneSlot
    MaxJobs    = 5
    FaultKinds = {"crash"}
    MaxFaults  = 1
PROPERTIES
    OtherAppsServed
CHECK_DEADLOCK FALSE
