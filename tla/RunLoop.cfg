CONSTANTS
    MaxAttempts = 3
    MaxErrors = 2
    Async = TRUE
SPECIFICATION FairSpec
INVARIANTS TypeOK MergeIsConservative FailureIsHonest SuccessIsHonest
PROPERTIES CommitsOnce LeftoversAreHanded RunEnds
\* run has ended.
CHECK_DEADLOCK FALSE
