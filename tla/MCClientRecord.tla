---------------------------- MODULE MCClientRecord ----------------------------
EXTENDS ClientRecord, TLC
=============================================================================
