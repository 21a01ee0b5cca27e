SPECIFICATION Spec
CONSTANTS
    Steps         = 2
    StepRetries   = 0
    RetryOnFail   = 0
    LoginFlow     = FALSE
    FailOnJsError = FALSE
    Removable     = FALSE
    ForeignKeys   = TRUE
    MaxFaults     = 1
INVARIANTS
    NeverWedges
CHECK_DEADLOCK FALSE
