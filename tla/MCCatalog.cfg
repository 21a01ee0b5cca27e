SPECIFICATION Spec
CONSTANTS
    Workloads <- MCWorkloads
    Disabled = {"webkit"}
INVARIANTS
    CatalogInv
    EverythingListed
    UpdatesKept
    FanOutComplete
    PastedTableStored
CHECK_DEADLOCK FALSE
