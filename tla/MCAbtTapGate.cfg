SPECIFICATION Safety
CONSTANTS
    Statuses = {TRUE, FALSE}
    Rejections = {"NOK"}
    MaxTaps = 2
    BatchCount = 1
    Retention = 0
    MaxDays = 0
    MaxCrashes = 0
    MaxDbFailures = 0
INVARIANTS
    GateIsOfThisTap
