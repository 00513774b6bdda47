CONSTANTS
    Docs = {d1}
    Rivals = {r1, r2, r3}
    r2 = r2
    Newer = {r2, r3}
    InLinks <- NeedsExtension
    InEntry <- NeedsProtocol
    Me = Me
    Base = Base
    None = None
    Empty = Empty
    Reads = {g1}
    Optionals = {g1}
    OwnKinds = {"insert", "remove"}
    MaxFaults = 1
SPECIFICATION FairSpec
INVARIANTS TypeOK ReadsAreCurrent
PROPERTIES ReadsEnd
CHECK_DEADLOCK FALSE
