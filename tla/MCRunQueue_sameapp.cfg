SPECIFICATION Spec
CONSTANTS
    r1 = r1
    r2 = r2
    r3 = r3
    w1 = w1
    w2 = w2
    s1 = s1
    s2 = s2
    Run        = {r1, r2, r3}
    Request   <- Requests
    Worker     = {w1, w2}
    Slot       = {s1, s2}
    WorkerOf  <- TwoWorkers
    MaxJobs    = 6
    FaultKinds = {}
    MaxFaults  = 0
INVARIANTS
    SameAppSerialized
CHECK_DEADLOCK FALSE
