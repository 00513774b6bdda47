------------------------------ MODULE MCRunLoop ------------------------------
EXTENDS RunLoop, TLC
=============================================================================
