SPECIFICATION Spec
CONSTANTS
    Workloads <- MCWorkloads
    Disabled = {"webkit"}
INVARIANTS
    EveryRunTold
CHECK_DEADLOCK FALSE
