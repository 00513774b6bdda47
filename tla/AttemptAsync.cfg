CONSTANTS
    Docs = {d1, d2}
    Ops = {o1, o2, o3}
    NoDoc = NoDoc
    Sync = FALSE
    MaxFaults = 1
    MaxForeign = 0
    MaxRetries = 1
SPECIFICATION Spec
INVARIANTS TypeOK RolledBackIsClean NoWriteAfterError CleanWithoutFaults
PROPERTIES PromiseKept
SYMMETRY Symm
CHECK_DEADLOCK FALSE
