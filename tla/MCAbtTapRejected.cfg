SPECIFICATION Spec
CONSTANTS
    Statuses = {}
    Rejections = {"NOK"}
    MaxTaps = 2
    BatchCount = 2
    Retention = 0
    MaxDays = 0
    MaxCrashes = 0
    MaxDbFailures = 0
PROPERTIES
    PendingIsSent
