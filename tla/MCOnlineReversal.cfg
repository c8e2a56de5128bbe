SPECIFICATION Spec
CONSTANTS
    MaxOnline = 2
    Channels = {"socket"}
    Profiles <- Instances
INVARIANTS
    TypeOK
    OwedIsFlagged
    CreditedNotReversed
PROPERTIES
    ImplementsTopUp
    TxnStatusFinal
    StartsReconciled
    OwedIsReversed
