CONSTANTS
    Docs = {d1}
    Ops = {o1, o2}
    NoDoc = NoDoc
    Sync = TRUE
    MaxFaults = 1
    MaxForeign = 2
    MaxRetries = 1
SPECIFICATION FairSpec
INVARIANTS QueueMatchesStore
PROPERTIES RollbackSparesOthers AttemptEnds
CHECK_DEADLOCK FALSE
