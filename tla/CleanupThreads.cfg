SPECIFICATION FairSpec
CONSTANTS
    b1 = b1
    b2 = b2
    a1 = a1
    a2 = a2
    Buckets = {b1, b2}
    Attempts = {a1, a2}
    Listings <- NoneOrBoth
    NumAtrs = 1
    Races = TRUE
    Spurious = TRUE
    Faults = TRUE
\* Everything has stopped once the object is closed.
CHECK_DEADLOCK FALSE
INVARIANTS
    TypeOK
    LostEndsClean
PROPERTIES
    ClosedIsQuiet
    QueuedIsCleaned
    CloseReturnsIfWoken
