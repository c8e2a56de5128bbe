SPECIFICATION Spec
CONSTANTS
    Services = {1, 2}
    Cards = {"c1", "c2"}
    Priorities = {0, 2}
    Kinds = {"purchase", "money_add", "service_create"}
    MaxServices = 2
    MaxTaps = 3
INVARIANTS
    TypeOK
    ServiceOnCard
    SecondTapKeepsTransaction
    OneTransactionPerRound
CHECK_DEADLOCK FALSE
