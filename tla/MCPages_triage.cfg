SPECIFICATION Spec
CONSTANTS
    Setups   <- MCSetups
    Disabled  = {"webkit"}
PROPERTIES
    TriageMounted
CHECK_DEADLOCK FALSE
