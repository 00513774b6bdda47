CONSTANTS
    Docs = {d1, d2}
    Ops = {o1, o2}
    NoDoc = NoDoc
    Sync = TRUE
    MaxFaults = 0
    MaxForeign = 0
    MaxRetries = 0
SPECIFICATION Spec
INVARIANT CommittedIsMarked

CHECK_DEADLOCK FALSE
