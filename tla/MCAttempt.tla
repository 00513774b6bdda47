------------------------------ MODULE MCAttempt ------------------------------
EXTENDS Attempt, TLC
Symm == Permutations(Docs) \cup Permutations(Ops)
=============================================================================
