SPECIFICATION FairSpec
CONSTANTS
    Macs = {m1}
    MaxWrites = 2
    Viewers = {v1}
    Nothing = Nothing
    RefreshEnabled = FALSE
    UpgradeMayFail = FALSE
CHECK_DEADLOCK FALSE
PROPERTIES
    FollowsLeaseFile
