SPECIFICATION FairPageSpec
CONSTANTS
    Macs = {m1}
    MaxWrites = 2
    Viewers = {v1}
    Nothing = Nothing
    RefreshEnabled = TRUE
    UpgradeMayFail = FALSE
    MaxChanges = 1
INVARIANTS
    PageTypeOK
    NoWriteForgotten
    RestsCurrent
    NoClientTwice
PROPERTIES
    ImplementsHub
    PageFollows
