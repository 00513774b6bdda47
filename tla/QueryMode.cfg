SPECIFICATION FairSpec
CONSTANTS
    App = App
    i1 = i1
    q1 = q1
    q2 = q2
    Gets = {}
    Inserts = {i1}
    Replaces = {}
    Removes = {}
    Queries = {q1, q2}
    IoThreads = 2
    Faults = {"expiry", "no_node", "failure"}
    MaxFaults = 1
    Explicit = TRUE
\* The attempt stops when it is over, or when a node that is never named is waited for.
CHECK_DEADLOCK FALSE
INVARIANTS
    TypeOK
    CountsAreExact
    BlockedIsQuiet
    BeginsOnce
    StatementsHaveNode
PROPERTIES
    AttemptEnds
