SPECIFICATION Spec
CONSTANTS
    Setups <- MCSetupsLate
    Images = {1, 3}
    Tolerance = 1
    MaxFaults = 1
INVARIANTS
    IncidentMaintained
CHECK_DEADLOCK FALSE
