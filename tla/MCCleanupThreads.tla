--------------------------- MODULE MCCleanupThreads ---------------------------
EXTENDS CleanupThreads, TLC
CONSTANTS b1, b2
Both == {{b1, b2}}
Some == {{b1}, {b1, b2}}
NoneOrBoth == {{}, {b1, b2}}
Symm == Permutations(Attempts)
=============================================================================
