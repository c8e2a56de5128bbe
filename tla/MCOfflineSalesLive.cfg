SPECIFICATION Spec
CONSTANTS
    MaxSales = 3
    MaxOffline = 1
    MinRequired = 2
    MaxFetch = 2
    FetchModes = {"Pending"}
    MaxCrashes = 0
    MaxDbFailures = 1
INVARIANTS
    OnlyApprovedPosted
PROPERTIES
    PendingIsPosted
    DeviceRecovers
