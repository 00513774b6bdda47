SPECIFICATION FairSpec
CONSTANTS
    Clients = {1, 2, 3}
    Survivors = {2, 3}
    NumAtrs = 4
    Window = 2
    Margin = 2
    MaxRemoved = 1
    Overrides = TRUE
INVARIANTS
    TypeOK
    SharesAreDisjoint
PROPERTIES
    OnlyTheLateAreRemoved
    EveryAtrIsVisited
