SPECIFICATION Spec
CONSTANTS
    Servers <- TwoServers
    Configs <- VolConfigs
    Boots <- BootOnlyA
    Faults <- NoFaults
    Absent = Absent
    Broken = Broken
    MaxEdits = 1
    MaxHups = 1
INVARIANTS VolumesApplied
