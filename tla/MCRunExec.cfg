SPECIFICATION FairSpec
CONSTANTS
    Steps         = 3
    StepRetries   = 1
    RetryOnFail   = 2
    LoginFlow     = TRUE
    FailOnJsError = TRUE
    Removable     = TRUE
    ForeignKeys   = TRUE
    MaxFaults     = 1
INVARIANTS
    ExecInv
    VerdictExplained
    NoStaleScreenshot
PROPERTIES
    VerdictKept
    Terminates
CHECK_DEADLOCK FALSE
