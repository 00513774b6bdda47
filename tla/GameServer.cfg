SPECIFICATION Spec
CONSTANTS
    Threads = {t1, t2}
    HitPoints = 2
    Damages = {1, 2}
    MaxAttempts = 3
    Nobody = Nobody
SYMMETRY Symmetry
INVARIANT TypeOK
PROPERTY EveryHitCounts
\* After the last attempt nothing is left to do.
CHECK_DEADLOCK FALSE
