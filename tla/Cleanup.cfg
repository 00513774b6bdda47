CONSTANTS
    Inserted = {i1}
    Replaced = {r1}
    Removed = {m1}
    NoDoc = NoDoc
    Compats <- OldAndNew
    Own = own
    Lost = {l1}
    Survivor = l1
    MaxFaults = 1
    MaxForeign = 2
SPECIFICATION FairSpec
INVARIANTS TypeOK EntryOutlivesStaging
PROPERTIES CleanersFollowDecision CleanersSpareOthers LostIsCleaned
CHECK_DEADLOCK FALSE
