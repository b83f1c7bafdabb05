SPECIFICATION Spec
CONSTANTS
    Macs = {m1}
    Grace = 1
    ForgetAfter = 2
    None = None
    TzOffset = 1
    MaxTime = 4
    MaxPending = 1
CHECK_DEADLOCK FALSE
PROPERTIES
    PurgeOnlyOld
