SPECIFICATION Spec
CONSTANTS
    Channels = {"socket", "serial"}
    Commands = {"search", "stop", "write", "config", "recalc", "disconnect"}
    Modes = {"single", "loop"}
    Patience = {TRUE, FALSE}
    KernelMayFail = TRUE
    MaxCards = 2
    MaxPatient = 10
    MaxCommands = 4
INVARIANTS
    TypeOK
    OneRoundAfterStop
    AmountIsForThisCard
    ReadyMeansIdle
    RoundKeepsItsData
PROPERTIES
    SearchServed
CHECK_DEADLOCK FALSE
