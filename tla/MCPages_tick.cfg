SPECIFICATION Spec
CONSTANTS
    Setups   <- MCSetups
    Disabled  = {"webkit"}
PROPERTIES
    EveryTickStarted
CHECK_DEADLOCK FALSE
