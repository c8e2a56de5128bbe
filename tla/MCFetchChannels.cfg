SPECIFICATION Spec
CONSTANTS
    Channels = {"data", "serial"}
    MaxRows = 2
    MAX_FETCH_COUNT = 2
    MaxRecords = {3}
    Modes = {"Success", "Pending"}
    Orderliness = {TRUE, FALSE}
    Caution = {TRUE, FALSE}
    MaxRequests = 4
    MaxOverlapping = 2
    MaxCrashes = 1
    MaxDbFailures = 1
INVARIANTS
    TypeOK
    ListFits
    ClearedIsGone
    FinishedIsFinal
PROPERTIES
    ImplementsHandover
CHECK_DEADLOCK FALSE
