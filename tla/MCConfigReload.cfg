CONSTANTS
    Typed <- MCTyped
    HandWritten <- MCHandWritten
    MaxEdits = 2
    MaxWizards = 1
SPECIFICATION CfSpec
CHECK_DEADLOCK FALSE
INVARIANTS
    RejectedReloadKeepsConfig
