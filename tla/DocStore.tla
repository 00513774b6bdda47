------------------------------ MODULE DocStore ------------------------------
(***************************************************************************)
(* What the key-value service answers to the requests the transactions     *)
(* library sends about one document.  The service is not part of this      *)
(* repository: every definition here is read off the requests the library  *)
(* builds and the error classes it maps the answers to                     *)
(* (error_class_from_result, src/src/transactions/exceptions.cxx).         *)
(*                                                                         *)
(* A document is a record:                                                 *)
(*   body  the visible content: "none" (absent, or a tombstone), "old"     *)
(*         (as before the transaction), "new" (what the attempt staged) or *)
(*         "foreign" (written by somebody else);                           *)
(*   stg   the "txn" xattr: "none", the kind of mutation this attempt      *)
(*         staged, or "rival" for another transaction's staged mutation;   *)
(*   cas   0 for a key that never existed, else bumped by every mutation.  *)
(***************************************************************************)
EXTENDS Naturals

Mutations == {"insert", "replace", "remove"}
Bodies    == {"none", "old", "new", "foreign"}
Stagings  == Mutations \cup {"none", "rival"}

Document == [body : Bodies, stg : Stagings, cas : Nat]

Absent   == [body |-> "none", stg |-> "none", cas |-> 0]
Existing == [body |-> "old", stg |-> "none", cas |-> 1]

(***************************************************************************)
(* A request is answered with "OK" or with an error class.  Besides the    *)
(* class the state of the document calls for, the caller may be told of a  *)
(* fault.  An ambiguous answer hides whether the mutation was done.        *)
(***************************************************************************)
Refusals   == {"DOC_NOT_FOUND", "DOC_ALREADY_EXISTS", "CAS_MISMATCH", "PATH_NOT_FOUND"}
DocFaults  == {"TRANSIENT", "AMBIGUOUS", "OTHER"}
AtrFaults  == DocFaults \cup {"ATR_FULL"}

\* What the caller may be told of a request whose natural answer is `natural`
\* when the faults in `possible` can hit it; `lands` says that it was carried out.
Answers(natural, possible) ==
    {[class |-> natural, lands |-> natural = "OK"]}
        \cup [class : possible, lands : {FALSE}]
        \cup [class : possible \cap {"AMBIGUOUS"}, lands : {TRUE} \cap {natural = "OK"}]

\* insert_request: adds a document, whatever xattrs a tombstone still has.
AnswerToInsert(doc) ==
    IF doc.body # "none" THEN "DOC_ALREADY_EXISTS" ELSE "OK"

\* remove_request without a CAS.
AnswerToRemove(doc) ==
    IF doc.body = "none" THEN "DOC_NOT_FOUND" ELSE "OK"

\* mutate_in that stages: writes the "txn" xattr of a document the caller
\* believes to be at `cas`; `tombstones` is access_deleted.
AnswerToStaging(doc, cas, tombstones) ==
    IF doc.cas = 0 \/ (doc.body = "none" /\ ~tombstones) THEN "DOC_NOT_FOUND"
    ELSE IF doc.cas # cas                                THEN "CAS_MISMATCH"
    ELSE                                                      "OK"

\* mutate_in that stages an insert: with CAS 0 the key must be free, otherwise
\* it replaces what is at `cas`.
AnswerToStagedInsert(doc, cas) ==
    CASE cas = 0 -> IF doc.cas = 0 THEN "OK" ELSE "DOC_ALREADY_EXISTS"
      [] OTHER   -> AnswerToStaging(doc, cas, TRUE)

\* mutate_in that removes the "txn" xattr (and may write the body as well);
\* CAS 0 means "whatever the document is at".
AnswerToUnstaging(doc, cas, tombstones) ==
    IF doc.cas = 0 \/ (doc.body = "none" /\ ~tombstones) THEN "DOC_NOT_FOUND"
    ELSE IF cas # 0 /\ doc.cas # cas                     THEN "CAS_MISMATCH"
    ELSE IF doc.stg = "none"                             THEN "PATH_NOT_FOUND"
    ELSE                                                      "OK"

\* The document after a mutation that leaves this body and this staging.
Mutated(doc, body, stg) == [body |-> body, stg |-> stg, cas |-> doc.cas + 1]
Staged(doc, stg)        == Mutated(doc, doc.body, stg)
=============================================================================
