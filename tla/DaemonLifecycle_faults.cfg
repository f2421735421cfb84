SPECIFICATION Spec
CONSTANTS
    Servers <- TwoServers
    Configs <- AllConfigs
    Boots <- BootEither
    Faults <- AllFaults
    Absent = Absent
    Broken = Broken
    MaxEdits = 1
    MaxHups = 2
INVARIANTS ServingMatchesConfig FlagMeansPending ProcessesAccounted
PROPERTIES UnchangedKeepsClient
