SPECIFICATION FairSpec
CONSTANTS
    Macs = {m1}
    Grace = 1
    ForgetAfter = 2
    None = None
    TzOffset = 0
    MaxTime = 5
    MaxPending = 2
CHECK_DEADLOCK FALSE
INVARIANTS
    TrackerTypeOK
    TrafficIsRecorded
    NotesAreTrue
PROPERTIES
    PurgeOnlyOld
    OldClientsAreForgotten
