SPECIFICATION LifeSpec
CONSTANTS
    MaxDepth   = 2
    TokenOf   <- Tokens
    Menu      <- MCMenu
    Texts     <- MCTexts
    Library   <- MCLibrary
    Opened    <- MCOpened
    MaxSteps   = 4
    Row       <- MCRow
    Secrets   <- MCSecrets
    Short      = {"pin"}
    Builtins   = {"b"}
    Generated <- MCGenerated
    Revisions <- MCRevisions
INVARIANTS
    ExampleUntouched
CHECK_DEADLOCK FALSE
