SPECIFICATION Spec
CONSTANTS
    Setups   <- MCSetups
    Disabled  = {"webkit"}
PROPERTIES
    NeverADuplicate
CHECK_DEADLOCK FALSE
