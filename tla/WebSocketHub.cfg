SPECIFICATION FairHubSpec
CONSTANTS
    Viewers = {v1, v2}
    Snapshots = {s1, s2}
    Nothing = Nothing
    RefreshEnabled = TRUE
    UpgradeMayFail = TRUE
CHECK_DEADLOCK FALSE
INVARIANTS
    HubTypeOK
    ClientsExclusion
    NoGhosts
    NoUpdateForgotten
PROPERTIES
    EveryoneIsGreeted
    ProducerGoesOn
