--------------------------- MODULE OperationErrors ---------------------------
(***************************************************************************)
(* The errors of operations, commit and rollback: what each says of a      *)
(* rollback, of a retry and of what the transaction is to end with, and    *)
(* what several of them are merged to (exceptions_internal).               *)
(***************************************************************************)
EXTENDS Naturals, Sequences

\* transaction_operation_failed: rollback_, retry_ and to_raise_.
Raises == {"FAILED", "EXPIRED", "AMBIGUOUS", "FAILED_POST_COMMIT"}
Errors == [rollback : BOOLEAN, retry : BOOLEAN, raise : Raises]

Failed(raise)  == [rollback |-> TRUE, retry |-> FALSE, raise |-> raise]
Fatal(raise)   == [rollback |-> FALSE, retry |-> FALSE, raise |-> raise]
Plain          == Failed("FAILED")
Expired        == Failed("EXPIRED")
Retry          == [rollback |-> TRUE, retry |-> TRUE, raise |-> "FAILED"]
NoError        == [rollback |-> FALSE, retry |-> FALSE, raise |-> "none"]

\* Mutant: whatever comes first is raised.
FirstError(list) == Head(list)

\* transaction_operation_failed::merge_errors: the first error that forbids a
\* rollback, else the last one that forbids a retry, else the first.
MergeErrors(list) ==
    LET fatal == {i \in DOMAIN list : ~list[i].rollback}
        final == {i \in DOMAIN list : ~list[i].retry}
        first == {i \in fatal : \A j \in fatal : i <= j}
        last  == {i \in final : \A j \in final : j <= i}
    IN  list[CHOOSE i \in DOMAIN list :
                IF first # {} THEN i \in first ELSE IF last # {} THEN i \in last ELSE i = 1]
=============================================================================
