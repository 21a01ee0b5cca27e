SPECIFICATION Spec
CONSTANTS
    Setups <- MCSetupsThrow
    Images = {1, 3}
    Tolerance = 1
    MaxFaults = 1
INVARIANTS
    AlertsEvaluated
CHECK_DEADLOCK FALSE
