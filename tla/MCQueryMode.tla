----------------------------- MODULE MCQueryMode -----------------------------
EXTENDS QueryMode, TLC
Symm == Permutations(Queries)
=============================================================================
