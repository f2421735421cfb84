SPECIFICATION Spec
CONSTANTS
    Servers <- TwoServers
    Configs <- ValidConfigs
    Boots <- BootOnlyA
    Faults <- NoFaults
    Absent = Absent
    Broken = Broken
    MaxEdits = 1
    MaxHups = 1
INVARIANTS OutputIsPiped
