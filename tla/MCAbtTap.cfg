SPECIFICATION Safety
CONSTANTS
    Statuses = {FALSE}
    Rejections = {"NOK", "KO"}
    MaxTaps = 2
    BatchCount = 1
    Retention = 0
    MaxDays = 1
    MaxCrashes = 1
    MaxDbFailures = 1
INVARIANTS
    TypeOK
PROPERTIES
    PendingAreListed
    CleanupListFits
    OkIsFinal
    KeptForRetention
    ImplementsLedger
