SPECIFICATION Spec
CONSTANTS
    Settings <- MCCopy
    Pieces = 1
    MaxOps = 1
    MaxTrouble = 0
PROPERTY OpsEnd
CHECK_DEADLOCK FALSE
