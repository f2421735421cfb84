SPECIFICATION FairSpec
CONSTANTS
    Servers <- TwoServers
    Configs <- ValidConfigs
    Boots <- BootOnlyA
    Faults <- SlowServers
    Absent = Absent
    Broken = Broken
    MaxEdits = 1
    MaxHups = 2
PROPERTIES ShutdownCompletes QueuedReloadLoads StaleHealthHeals
