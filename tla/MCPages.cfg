SPECIFICATION Spec
CONSTANTS
    Setups   <- MCSetups
    Disabled  = {"webkit"}
INVARIANTS
    PagesInv
PROPERTIES
    NoSecondRun
    TicksRun
    ShowsTheTruth
    QuietAfterLeaving
CHECK_DEADLOCK FALSE
