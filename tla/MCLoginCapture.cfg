SPECIFICATION FairSpec
CONSTANTS
    c1 = c1
    c2 = c2
    Capture     = {c1, c2}
    MaxEdits    = 1
    ForeignKeys = TRUE
    MaxFaults   = 1
INVARIANTS
    CaptureInv
    SessionFromPass
PROPERTIES
    StaleOnlyByOverlap
    CapturesEnd
CHECK_DEADLOCK FALSE
