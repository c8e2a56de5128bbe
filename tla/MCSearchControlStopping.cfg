SPECIFICATION Spec
CONSTANTS
    Channels = {"socket"}
    Commands = {"search", "stop"}
    Modes = {"loop"}
    Patience = {FALSE}
    KernelMayFail = FALSE
    MaxCards = 1
    MaxPatient = 2
    MaxCommands = 2
PROPERTIES
    StoppingEnds
