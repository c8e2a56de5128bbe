SPECIFICATION Safety
CONSTANTS
    MaxSales = 3
    MaxOffline = 1
    MinRequired = 2
    MaxFetch = 2
    FetchModes = {"Success", "Failure"}
    MaxCrashes = 1
    MaxDbFailures = 2
INVARIANTS
    TypeOK
    CountInSync
    DeviceStatusFollowsCount
    BacklogBounded
    LossBounded
PROPERTIES
    AcceptedNotResent
    ImplementsLedger
