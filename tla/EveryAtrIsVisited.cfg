SPECIFICATION FairSpec
CONSTANTS
    Clients = {1, 2, 3}
    Survivors = {1, 2, 3}
    NumAtrs = 6
    Window = 6
    Margin = 2
    MaxRemoved = 1
    Overrides = FALSE
PROPERTIES
    EveryAtrIsVisited
