SPECIFICATION FairSpec
CONSTANTS
    Macs = {m1}
    MaxWrites = 1
    Viewers = {v1, v2}
    Nothing = Nothing
    RefreshEnabled = TRUE
    UpgradeMayFail = TRUE
CHECK_DEADLOCK FALSE
PROPERTIES
    FollowsLeaseFile
