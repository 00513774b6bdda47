------------------------------ MODULE MCReads ------------------------------
EXTENDS Reads
CONSTANT r2
\* Whoever reads a document of a newer client is to know an extension, and whoever
\* resolves the entry of r2 is to be of version 2.1.
NeedsExtension == [r \in Newer |-> [NoRecord EXCEPT !["G"] =
    <<[kind |-> "extension", known |-> TRUE, behavior |-> "FAIL_FAST_TXN"],
      [kind |-> "extension", known |-> FALSE, behavior |-> "RETRY_TXN"]>>]]
NeedsProtocol == [r \in Newer |-> IF r # r2 THEN NoRecord ELSE [NoRecord EXCEPT !["G_A"] =
    <<[kind |-> "protocol", major |-> 2, minor |-> 1, behavior |-> "RETRY_TXN"]>>]]
=============================================================================
