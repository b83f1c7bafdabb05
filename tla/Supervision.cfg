SPECIFICATION FairSpec
CONSTANTS
    Interfaces = {eth0, eth1}
    AutoIf = AutoIf
    Blank = Blank
    Configurable = {{AutoIf}, {eth0}, {eth0, AutoIf}, {eth0, eth1}}
    OtherServices = {}
    ResetOnReboot = TRUE
    MaxStarts = 2
CHECK_DEADLOCK FALSE
INVARIANTS
    SupervisionTypeOK
    ConfOfThisStart
    EpochOfThisStart
PROPERTIES
    EpochStands
    AddonServes
