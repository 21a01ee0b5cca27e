SPECIFICATION Spec
CONSTANTS
    Setups <- MCSetupsFlip
    Images = {1, 3}
    Tolerance = 1
    MaxFaults = 1
INVARIANTS
    ChangeIsAFlip
CHECK_DEADLOCK FALSE
