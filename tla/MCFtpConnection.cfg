SPECIFICATION Spec
CONSTANTS
    Settings <- MCSettings
    Pieces = 1
    MaxOps = 3
    MaxTrouble = 2
INVARIANTS
    TypeOK
    InStep
    ReportsTrue
PROPERTY OpsEnd
\* The session may end.
CHECK_DEADLOCK FALSE
