SPECIFICATION Spec
CONSTANTS
    Steps         = 2
    StepRetries   = 0
    RetryOnFail   = 0
    LoginFlow     = FALSE
    FailOnJsError = FALSE
    Removable     = TRUE
    ForeignKeys   = TRUE
    MaxFaults     = 0
INVARIANTS
    NothingLeftBehind
CHECK_DEADLOCK FALSE
