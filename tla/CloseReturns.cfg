SPECIFICATION FairSpec
CONSTANTS
    b1 = b1
    b2 = b2
    a1 = a1
    Buckets = {b1, b2}
    Attempts = {a1}
    Listings <- NoneOrBoth
    NumAtrs = 1
    Races = TRUE
    Spurious = FALSE
    Faults = FALSE
\* Everything has stopped once the object is closed.
CHECK_DEADLOCK FALSE
PROPERTIES
    CloseReturns
