SPECIFICATION Spec
CONSTANTS
    Setups <- MCSetups
    Images = {1, 3}
    Tolerance = 1
    MaxFaults = 1
INVARIANTS
    BaselineInv
    ChangeToldTruly
    IncidentFollows
    AnswerExplained
PROPERTIES
    ApprovalLasts
CHECK_DEADLOCK FALSE
