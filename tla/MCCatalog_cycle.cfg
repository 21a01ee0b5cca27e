SPECIFICATION Spec
CONSTANTS
    Workloads <- MCWorkloads
    Disabled = {"webkit"}
INVARIANTS
    NeverOwnAncestor
CHECK_DEADLOCK FALSE
