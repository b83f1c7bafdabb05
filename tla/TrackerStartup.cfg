SPECIFICATION Spec
CONSTANTS
    Macs = {m1}
    Grace = 3
    ForgetAfter = 0
    None = None
    TzOffset = 0
    MaxTime = 5
    MaxPending = 1
CHECK_DEADLOCK FALSE
INVARIANTS
    EpochNamesTraffic
