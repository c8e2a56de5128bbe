SPECIFICATION Safety
CONSTANTS
    MaxOnline = 1
    Channels = {"socket"}
    Profiles <- ServiceInstances
PROPERTIES
    ServiceCreateLeftAlone
