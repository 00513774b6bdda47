------------------------------ MODULE MCCleanup ------------------------------
EXTENDS Cleanup, TLC
\* An entry that asks for what this version has, and one that asks for more.
OldAndNew ==
    {[NoRecord EXCEPT !["CL_E"] = <<[kind |-> "protocol", major |-> 2, minor |-> m,
                                     behavior |-> "RETRY_TXN"]>>] : m \in {0, 1}}
Symm == Permutations(Inserted) \cup Permutations(Replaced) \cup Permutations(Lost \ {Survivor})
=============================================================================
