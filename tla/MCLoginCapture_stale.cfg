SPECIFICATION Spec
CONSTANTS
    c1 = c1
    c2 = c2
    Capture     = {c1}
    MaxEdits    = 1
    ForeignKeys = TRUE
    MaxFaults   = 0
INVARIANTS
    SessionIsCurrent
CHECK_DEADLOCK FALSE
