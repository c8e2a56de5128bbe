SPECIFICATION Spec
CONSTANTS
    MAX_TXN_COUNTER = 3
    AbtSettings = {TRUE, FALSE}
    MaxRows = 4
    MaxSaves = 6
    MaxCrashes = 2
INVARIANTS
    TypeOK
    NumbersFresh
CHECK_DEADLOCK FALSE
