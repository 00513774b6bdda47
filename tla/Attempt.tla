------------------------------- MODULE Attempt -------------------------------
(***************************************************************************)
(* One attempt of one transaction, in key-value mode: the operations the   *)
(* application starts, the entry in the active transaction record (ATR),   *)
(* the documents, and the thread that commits or rolls back and reports    *)
(* (attempt_context_impl, staged_mutation_queue, transaction_context).     *)
(*                                                                         *)
(* Around it: the clock, a crash of the client, cleanup, writers outside   *)
(* any transaction, and rival transactions that follow the same rules.     *)
(*                                                                         *)
(* A request to the service and the handling of its answer are one step,   *)
(* unless something of the library can happen between the two.             *)
(***************************************************************************)
EXTENDS DocStore, OperationErrors

CONSTANTS
    Docs,        \* documents the application may touch
    NoDoc,       \* not a document
    Ops,         \* operations the application may start
    Sync,        \* the blocking API (one operation at a time), or the asynchronous one
    MaxFaults,   \* bound: answers that are faults
    MaxForeign,  \* bound: what writers outside this attempt begin
    MaxRetries   \* DEFAULT_RETRY_OP_MAX_RETRIES of retry_op_exp, 100 in the code

ASSUME ConstantsAssumption ==
    /\ NoDoc \notin Docs
    /\ Sync \in BOOLEAN
    /\ MaxFaults \in Nat /\ MaxForeign \in Nat /\ MaxRetries \in Nat

VARIABLES
    \* ---- the service
    doc,       \* the documents
    atr,       \* this attempt's entry in the ATR
    \* ---- attempt_context_impl
    state,     \* overall_.current_attempt().state
    atrChosen, \* atr_id_ has a value
    staged,    \* staged_mutations_: per document its mutation, or "none", and its CAS
    errs,      \* errors_
    overtime,  \* expiry_overtime_mode_
    op,        \* the operations, each at its next callback
    \* ---- the thread that runs the logic, finalize, handle_error
    phase,     \* where it is
    blocked,   \* op_list_.allow_ops_ is false
    todo,      \* documents the loop over staged_mutations_ has not passed yet
    cur,       \* document that loop is retrying, with the two modes of commit_doc
    tries,     \* retries of the current retry_op_exp
    ambig,     \* ambiguity_resolution_mode of atr_commit
    thrown,    \* the error handle_error was called with
    rolled,    \* what the rollback it started came to
    outcome,   \* what run() reports of the attempt
    \* ---- cleanup and surroundings
    queued,    \* the attempt is in the client's cleanup queue
    expired,   \* has_expired_client_side
    faults, foreign,
    \* ---- history
    written    \* documents whose staged mutation has reached the body

serverVars == <<doc, atr>>
opVars     == <<atrChosen, staged, errs, op>>
mainVars   == <<blocked, todo, cur, tries, ambig, thrown, rolled, outcome>>
envVars    == <<queued, expired, foreign>>
vars == <<doc, atr, state, atrChosen, staged, errs, overtime, op, phase, blocked, todo, cur,
          tries, ambig, thrown, rolled, outcome, queued, expired, faults, foreign, written>>

-----------------------------------------------------------------------------
(* Types *)

\* attempt_state, without UNKNOWN.
States == {"NOT_STARTED", "PENDING", "ABORTED", "COMMITTED", "COMPLETED", "ROLLED_BACK"}

\* What a reader of the ATR finds: no entry, its "st" field, or an entry that has
\* no "st" and makes the whole record unreadable (map_to_atr throws).
Entries == {"absent", "PENDING", "COMMITTED", "ABORTED", "no_status"}

\* Where an operation is: not begun; looking up the ATR entry of a rival; its own
\* ATR write in flight or about to be sent again; its staging request in flight;
\* reading a document an insert collided with; its callback called; or waiting for
\* a callback that never comes.
Stages == {"idle", "checking", "atr", "atr_again", "stage", "collided", "done", "stuck"}
Verbs  == {"none", "insert", "replace", "remove", "unstage"}
Op     == [at : Stages, verb : Verbs, doc : Docs \cup {NoDoc}, cas : Nat]

Phases == {"logic", "commit_wait", "atr_commit", "atr_commit_sent", "unstage", "atr_complete",
           "rollback_wait", "atr_abort", "rollback_docs", "rollback_complete",
           "report", "done", "crashed"}

ServerTypes ==
    /\ doc \in [Docs -> Document]
    /\ atr \in Entries

OpTypes ==
    /\ atrChosen \in BOOLEAN
    /\ staged \in [Docs -> [type : Mutations \cup {"none"}, cas : Nat]]
    /\ errs \in Seq(Errors)
    /\ op \in [Ops -> Op]
    /\ \A o \in Ops : op[o].at \notin {"idle", "done"} => op[o].doc \in Docs

MainTypes ==
    /\ blocked \in BOOLEAN
    /\ todo \in SUBSET Docs
    /\ cur \in [doc : Docs \cup {NoDoc}, ambig : BOOLEAN, zero : BOOLEAN]
    /\ tries \in Nat
    /\ ambig \in BOOLEAN
    /\ thrown \in Errors \cup {NoError}
    /\ rolled \in {"no", "ok", "failed"}
    /\ outcome \in {"none", "success", "retry"} \cup Raises

EnvTypes ==
    /\ queued \in BOOLEAN
    /\ expired \in BOOLEAN
    /\ foreign \in Nat

TypeOK ==
    /\ ServerTypes /\ OpTypes /\ MainTypes /\ EnvTypes
    /\ state \in States
    /\ phase \in Phases
    /\ overtime \in BOOLEAN
    /\ faults \in Nat
    /\ written \in SUBSET Docs

NotStaged == [type |-> "none", cas |-> 0]
IdleOp    == [at |-> "idle", verb |-> "none", doc |-> NoDoc, cas |-> 0]
NoCur     == [doc |-> NoDoc, ambig |-> FALSE, zero |-> FALSE]

Init ==
    /\ doc \in [Docs -> {Absent, Existing}]
    /\ atr = "absent"
    /\ state = "NOT_STARTED"
    /\ atrChosen = FALSE
    /\ staged = [d \in Docs |-> NotStaged]
    /\ errs = <<>>
    /\ overtime = FALSE
    /\ op = [o \in Ops |-> IdleOp]
    /\ phase = "logic"
    /\ blocked = FALSE
    /\ todo = {} /\ cur = NoCur /\ tries = 0 /\ ambig = FALSE
    /\ thrown = NoError /\ rolled = "no" /\ outcome = "none"
    /\ queued = FALSE /\ expired = FALSE /\ faults = 0 /\ foreign = 0
    /\ written = {}

-----------------------------------------------------------------------------
(* Common to all operations *)

\* Mutants, as in the rest of this module: InQueue forgets removals; an operation
\* counts as over while its staging request is in flight, or never does.
InQueueWithoutRemovals == {d \in Docs : staged[d].type \in {"insert", "replace"}}
ActiveUntilStaging     == {o \in Ops : op[o].at \in {"atr", "atr_again"}}
ActiveForever          == {o \in Ops : op[o].at # "idle"}

InQueue == {d \in Docs : staged[d].type # "none"}
Active  == {o \in Ops : op[o].at \notin {"idle", "done"}}

\* Mutant: errors that ask for a retry are overlooked.
ExistingFinalError == \E i \in DOMAIN errs : ~errs[i].retry

\* existing_error
ExistingError == errs # <<>>

\* error_if_expired_and_not_in_overtime
ExpiredNotInOvertime == expired /\ ~overtime

\* One answer to a request about document d whose effect is to make it `next`.
DocRequest(d, ans, next) ==
    /\ doc' = IF ans.lands THEN [doc EXCEPT ![d] = next] ELSE doc
    /\ faults' = IF ans.class \in DocFaults THEN faults + 1 ELSE faults

\* One answer to a request about this attempt's ATR entry.
AtrRequest(ans, next) ==
    /\ atr' = IF ans.lands THEN next ELSE atr
    /\ faults' = IF ans.class \in AtrFaults THEN faults + 1 ELSE faults

DocAnswers(natural) == Answers(natural, IF faults < MaxFaults THEN DocFaults ELSE {})
AtrAnswers(natural) == Answers(natural, IF faults < MaxFaults THEN AtrFaults ELSE {})

\* The operation goes on, or is done (op_completed_with_callback).
MoveTo(o, stage) == /\ op' = [op EXCEPT ![o].at = stage]
                    /\ UNCHANGED errs

\* op_completed_with_error
Fail(o, e) == /\ op' = [op EXCEPT ![o].at = "done"]
              /\ errs' = Append(errs, e)

-----------------------------------------------------------------------------
(* Operations: insert_raw, replace_raw, remove *)

\* A call of the blocking API returns, or throws, when the operation is over.
LogicRuns == phase = "logic" /\ (Sync => Active = {})

\* The application may call an operation while its logic runs and, with the
\* asynchronous API, from a callback until op_list_ is blocked: here an operation
\* is over when its result is recorded, and its callback may still be running.
CanStart(o) ==
    /\ op[o].at = "idle"
    /\ ~blocked
    /\ LogicRuns \/ (phase \in {"commit_wait", "rollback_wait"} /\ ~Sync)

\* To replace or remove a document the application has fetched it in this attempt.
CanCall(kind, d) ==
    kind = "insert" \/ staged[d].type # "none" \/ doc[d].body # "none"

\* The calls that what the attempt has staged for the document rules out.
RuledOut(kind, d) ==
    IF kind = "insert" THEN staged[d].type \in {"insert", "replace"}
                       ELSE staged[d].type = "remove"

\* The request a legal call comes down to, and the CAS it carries: that of the
\* attempt's own write if there is one, else that of the document as fetched.
Request(kind, d) ==
    CASE kind = "replace" /\ staged[d].type = "insert" -> [verb |-> "insert", cas |-> staged[d].cas]
      [] kind = "insert" /\ staged[d].type = "remove"  -> [verb |-> "replace", cas |-> staged[d].cas]
      [] kind = "insert" /\ staged[d].type # "remove"  -> [verb |-> "insert", cas |-> 0]
      [] kind = "remove" /\ staged[d].type = "insert"  -> [verb |-> "unstage", cas |-> 0]
      [] OTHER -> [verb |-> kind,
                   cas |-> IF staged[d].type = "none" THEN doc[d].cas ELSE staged[d].cas]

\* cache_error_async: an earlier error fails every later operation.
StartAfterError(o) ==
    /\ CanStart(o)
    /\ ExistingError
    /\ Fail(o, MergeErrors(errs))
    /\ UNCHANGED <<serverVars, state, atrChosen, staged, overtime, phase, mainVars, envVars,
                   faults, written>>

StartRuledOut(o, kind, d) ==
    /\ CanStart(o) /\ CanCall(kind, d)
    /\ ~ExistingError
    /\ RuledOut(kind, d)
    /\ kind = "remove" => ~expired
    /\ Fail(o, Plain)
    /\ UNCHANGED <<serverVars, state, atrChosen, staged, overtime, phase, mainVars, envVars,
                   faults, written>>

\* check_expiry_pre_commit; remove looks at the clock first.
StartExpired(o, kind, d) ==
    /\ CanStart(o) /\ CanCall(kind, d)
    /\ ~ExistingError
    /\ expired
    /\ kind # "remove" => ~RuledOut(kind, d)
    /\ overtime' = TRUE
    /\ Fail(o, Expired)
    /\ UNCHANGED <<serverVars, state, atrChosen, staged, phase, mainVars, envVars, faults, written>>

\* The document was fetched with a rival's staged mutation on it.
MeetsRival(kind, d) == kind # "insert" /\ staged[d].type = "none" /\ doc[d].stg = "rival"

\* The first operation to get to select_atr_if_needed_unlocked chooses the ATR and
\* writes the entry; any other goes on to stage, whether or not that write has
\* been answered.
SelectAtr == IF atrChosen THEN "stage" ELSE "atr"

Start(o, kind, d) ==
    /\ CanStart(o) /\ CanCall(kind, d)
    /\ ~ExistingError /\ ~expired /\ ~RuledOut(kind, d)
    /\ op' = [op EXCEPT ![o] = [at   |-> IF MeetsRival(kind, d) THEN "checking" ELSE SelectAtr,
                                verb |-> Request(kind, d).verb,
                                doc  |-> d,
                                cas  |-> Request(kind, d).cas]]
    /\ atrChosen' = (atrChosen \/ ~MeetsRival(kind, d))
    /\ UNCHANGED <<serverVars, state, staged, errs, overtime, phase, mainVars, envVars,
                   faults, written>>

\* A live rival is a conflict; one of a later version may ask for either (forward_compat).
RivalErrors == {Retry, Plain}

\* check_atr_entry_for_blocking_document: a rival that keeps its ATR entry for a
\* second is a conflict; one that has none, or is over, is overwritten.
RivalChecked(o) ==
    /\ op[o].at = "checking" /\ phase # "crashed"
    /\ \/ (\E e \in RivalErrors : Fail(o, e)) /\ UNCHANGED atrChosen
       \/ ~atrChosen /\ ExpiredNotInOvertime /\ Fail(o, Expired) /\ atrChosen' = TRUE
       \/ (atrChosen \/ ~ExpiredNotInOvertime) /\ MoveTo(o, SelectAtr) /\ atrChosen' = TRUE
    /\ UNCHANGED <<serverVars, state, staged, overtime, phase, mainVars, envVars, faults, written>>

-----------------------------------------------------------------------------
(* set_atr_pending_locked *)

\* What the insertion of the entry's fields is answered, and what the error
\* handler makes of it.
AtrPending(o) ==
    /\ op[o].at = "atr" /\ phase # "crashed"
    /\ \E ans \in AtrAnswers(IF atr = "absent" THEN "OK" ELSE "PATH_ALREADY_EXISTS") :
        /\ AtrRequest(ans, "PENDING")
        /\ state' = IF ans.class = "OK" THEN "PENDING" ELSE state
        /\ \/ ans.class = "OK" /\ MoveTo(o, "stage")
           \/ ans.class # "OK" /\ overtime /\ Fail(o, Fatal("EXPIRED"))
           \/ ans.class = "PATH_ALREADY_EXISTS" /\ ~overtime /\ MoveTo(o, "stage")
           \/ ans.class = "AMBIGUOUS" /\ ~overtime /\ MoveTo(o, "atr_again")
           \/ ans.class = "TRANSIENT" /\ ~overtime /\ Fail(o, Retry)
           \/ ans.class \in {"OTHER", "ATR_FULL"} /\ ~overtime /\ Fail(o, Plain)
    /\ UNCHANGED <<doc, atrChosen, staged, overtime, phase, mainVars, envVars, written>>

\* The retry of an ambiguous write.  When another operation has staged something
\* in the meantime the function returns without calling anything.
AtrPendingAgain(o) ==
    /\ op[o].at = "atr_again" /\ phase # "crashed"
    /\ \/ InQueue # {} /\ MoveTo(o, "stuck")
       \/ InQueue = {} /\ ExpiredNotInOvertime /\ Fail(o, Expired)
       \/ InQueue = {} /\ ~ExpiredNotInOvertime /\ MoveTo(o, "atr")
    /\ UNCHANGED <<serverVars, state, atrChosen, staged, overtime, phase, mainVars, envVars,
                   faults, written>>

-----------------------------------------------------------------------------
(* Staging *)

Staging(o, verb) == op[o].at = "stage" /\ op[o].verb = verb /\ phase # "crashed"

\* Mutant: a document keeps the kind of its first mutation.
AddStagedKeepingKind(d, type) ==
    staged' = [staged EXCEPT ![d] = [type |-> IF @.type = "none" THEN type ELSE @.type,
                                     cas  |-> doc[d].cas + 1]]

\* staged_mutation_queue::add; the CAS is the one the service answered with.
AddStaged(d, type) == staged' = [staged EXCEPT ![d] = [type |-> type, cas |-> doc[d].cas + 1]]

\* create_staged_replace, and remove, which differs in not seeing tombstones.
StageMutation(o, verb) ==
    LET d == op[o].doc IN
    /\ Staging(o, verb)
    /\ \E ans \in DocAnswers(AnswerToStaging(doc[d], op[o].cas, verb = "replace")) :
        /\ DocRequest(d, ans, Staged(doc[d], verb))
        /\ \/ ans.class = "OK" /\ MoveTo(o, "done") /\ AddStaged(d, verb)
           \/ /\ ans.class \in Refusals \cup {"TRANSIENT", "AMBIGUOUS"}
              /\ Fail(o, Retry) /\ UNCHANGED staged
           \/ ans.class = "OTHER" /\ Fail(o, Plain) /\ UNCHANGED staged
    /\ UNCHANGED <<atr, state, atrChosen, overtime, phase, mainVars, envVars, written>>

StageReplace(o) == StageMutation(o, "replace")
StageRemove(o)  == StageMutation(o, "remove")

\* create_staged_insert and its error handler.
StageInsertExpired(o) ==
    /\ Staging(o, "insert")
    /\ ExpiredNotInOvertime
    /\ overtime' = TRUE
    /\ Fail(o, Expired)
    /\ UNCHANGED <<serverVars, state, atrChosen, staged, phase, mainVars, envVars, faults, written>>

StageInsert(o) ==
    LET d == op[o].doc IN
    /\ Staging(o, "insert")
    /\ ~ExpiredNotInOvertime
    /\ \E ans \in DocAnswers(AnswerToStagedInsert(doc[d], op[o].cas)) :
        /\ DocRequest(d, ans, Staged(doc[d], "insert"))
        /\ \/ ans.class = "OK" /\ MoveTo(o, "done")
           \/ ans.class # "OK" /\ overtime /\ Fail(o, Expired)
           \/ ans.class \in {"TRANSIENT", "DOC_NOT_FOUND"} /\ ~overtime /\ Fail(o, Retry)
           \/ ans.class = "AMBIGUOUS" /\ ~overtime /\ MoveTo(o, "stage")
           \/ ans.class = "OTHER" /\ ~overtime /\ Fail(o, Plain)
           \/ /\ ans.class \in {"DOC_ALREADY_EXISTS", "CAS_MISMATCH"} /\ ~overtime
              /\ MoveTo(o, "collided")
        /\ IF ans.class = "OK" THEN AddStaged(d, "insert") ELSE UNCHANGED staged
    /\ UNCHANGED <<atr, state, atrChosen, overtime, phase, mainVars, envVars, written>>

\* The document an insert collided with is read: a tombstone, or an insert staged
\* by this transaction, is replaced at the CAS just read; so is one staged by a
\* rival that has lost its ATR entry, while a live rival is a conflict, and one of a
\* later version may refuse.
InsertCollided(o) ==
    LET d     == op[o].doc
        again == /\ op' = [op EXCEPT ![o] = [@ EXCEPT !.at = "stage", !.cas = doc[d].cas]]
                 /\ UNCHANGED errs
    IN
    /\ op[o].at = "collided" /\ phase # "crashed"
    /\ \/ doc[d].stg = "none" /\ doc[d].body = "none" /\ again
       \/ doc[d].stg = "none" /\ doc[d].body # "none" /\ Fail(o, Plain)
       \/ doc[d].stg = "insert" /\ again
       \/ doc[d].stg = "rival" /\ doc[d].body = "none" /\ again
       \/ doc[d].stg = "rival" /\ (\E e \in RivalErrors : Fail(o, e))
       \/ doc[d].stg \in {"replace", "remove"} /\ Fail(o, Plain)
    /\ UNCHANGED <<serverVars, state, atrChosen, staged, overtime, phase, mainVars, envVars,
                   faults, written>>

\* remove_staged_insert looks at the clock again, and this time forbids a rollback.
RemoveStagedInsertExpired(o) ==
    /\ Staging(o, "unstage")
    /\ ExpiredNotInOvertime
    /\ Fail(o, Fatal("EXPIRED"))
    /\ UNCHANGED <<serverVars, state, atrChosen, staged, overtime, phase, mainVars, envVars,
                   faults, written>>

\* Its request carries no CAS.
RemoveStagedInsert(o) ==
    LET d == op[o].doc IN
    /\ Staging(o, "unstage")
    /\ \E ans \in DocAnswers(AnswerToUnstaging(doc[d], 0, TRUE)) :
        /\ DocRequest(d, ans, Staged(doc[d], "none"))
        /\ IF ans.class = "OK"
             THEN MoveTo(o, "done") /\ staged' = [staged EXCEPT ![d] = NotStaged]
             ELSE Fail(o, Retry) /\ UNCHANGED staged
    /\ UNCHANGED <<atr, state, atrChosen, overtime, phase, mainVars, envVars, written>>

\* That read may fail as well.
InsertCollidedFault(o) ==
    /\ op[o].at = "collided" /\ phase # "crashed"
    /\ faults < MaxFaults /\ faults' = faults + 1
    /\ \/ overtime /\ Fail(o, Expired)
       \/ ~overtime /\ Fail(o, Retry)
       \/ ~overtime /\ Fail(o, Plain)
    /\ UNCHANGED <<serverVars, state, atrChosen, staged, overtime, phase, mainVars, envVars, written>>

OpStep(o) ==
    \/ StartAfterError(o)
    \/ \E kind \in Mutations, d \in Docs :
        \/ StartRuledOut(o, kind, d)
        \/ StartExpired(o, kind, d)
        \/ Start(o, kind, d)
    \/ RivalChecked(o)
    \/ AtrPending(o)
    \/ AtrPendingAgain(o)
    \/ StageReplace(o)
    \/ StageRemove(o)
    \/ StageInsertExpired(o)
    \/ StageInsert(o)
    \/ InsertCollided(o)
    \/ InsertCollidedFault(o)
    \/ RemoveStagedInsertExpired(o)
    \/ RemoveStagedInsert(o)

-----------------------------------------------------------------------------
(* The end of the logic: transaction_context::finalize and handle_error *)

\* handle_error: roll back if the error allows it, then report.
HandleError(e) ==
    /\ thrown' = e
    /\ phase' = IF e.rollback THEN "rollback_wait" ELSE "report"

\* The logic lets the error of one of its operations through, or throws its own.
LogicThrows ==
    /\ LogicRuns
    /\ \/ \E i \in DOMAIN errs : HandleError(errs[i])
       \/ HandleError(Plain)
    /\ UNCHANGED <<serverVars, state, opVars, overtime, blocked, todo, cur, tries, ambig, rolled,
                   outcome, envVars, faults, written>>

\* The logic returns; finalize looks for errors before it calls commit.
Finalize ==
    /\ LogicRuns
    /\ \/ ExistingError /\ HandleError(MergeErrors(errs))
       \/ ~ExistingError /\ phase' = "commit_wait" /\ UNCHANGED thrown
    /\ UNCHANGED <<serverVars, state, opVars, overtime, blocked, todo, cur, tries, ambig, rolled,
                   outcome, envVars, faults, written>>

\* transactions_cleanup::add_attempt
AddAttempt == queued' = (state \notin {"NOT_STARTED", "COMPLETED", "ROLLED_BACK"})

\* The end of handle_error.  An error that would be retried is reported as an
\* expiry when the rollback went well but there is no time left.
Report ==
    /\ phase = "report"
    /\ phase' = "done"
    /\ \/ /\ rolled = "ok" /\ thrown.retry /\ expired
          /\ outcome' = "EXPIRED"
          /\ UNCHANGED queued
       \/ /\ rolled # "failed" /\ thrown.retry /\ ~(rolled = "ok" /\ expired)
          /\ outcome' = "retry"
          /\ AddAttempt
       \/ /\ rolled = "failed" \/ ~thrown.retry
          /\ outcome' = thrown.raise
          /\ AddAttempt
    /\ UNCHANGED <<serverVars, state, opVars, overtime, blocked, todo, cur, tries, ambig, thrown,
                   rolled, expired, faults, foreign, written>>

-----------------------------------------------------------------------------
(* attempt_context_impl::commit *)

\* wait_and_block_ops, then the checks before the ATR is touched.  An attempt
\* that never chose an ATR has nothing to commit.
CommitBegin ==
    /\ phase = "commit_wait"
    /\ Active = {}
    /\ blocked' = TRUE
    /\ \/ /\ ExistingError
          /\ HandleError(MergeErrors(errs))
          /\ UNCHANGED <<overtime, outcome>>
       \/ /\ ~ExistingError /\ expired
          /\ overtime' = TRUE
          /\ HandleError(Expired)
          /\ UNCHANGED outcome
       \/ /\ ~ExistingError /\ ~expired /\ atrChosen
          /\ phase' = "atr_commit"
          /\ UNCHANGED <<overtime, thrown, outcome>>
       \/ /\ ~ExistingError /\ ~expired /\ ~atrChosen
          /\ phase' = "done" /\ outcome' = "success"
          /\ UNCHANGED <<overtime, thrown>>
    /\ UNCHANGED <<serverVars, state, opVars, todo, cur, tries, ambig, rolled, envVars, faults, written>>

\* atr_commit looks at the clock, then sends.
AtrCommit ==
    /\ phase = "atr_commit"
    /\ \/ /\ ExpiredNotInOvertime
          /\ overtime' = TRUE
          /\ HandleError(Fatal(IF ambig THEN "AMBIGUOUS" ELSE "EXPIRED"))
       \/ /\ ~ExpiredNotInOvertime
          /\ phase' = "atr_commit_sent"
          /\ UNCHANGED <<overtime, thrown>>
    /\ UNCHANGED <<serverVars, state, opVars, blocked, todo, cur, tries, ambig, rolled, outcome,
                   envVars, faults, written>>

\* Mutant: an entry of a form no reader knows.
AtrStatusWritten(entry) == IF entry = "absent" THEN "COMPLETING" ELSE entry

\* The write atr_commit and atr_abort end up sending: extract_to has replaced the
\* specs of the request, so that only the three lists of documents are upserted,
\* creating the entry if it is gone.
AtrListsWritten(entry) == IF entry = "absent" THEN "no_status" ELSE entry

AtrCommitAnswer ==
    /\ phase = "atr_commit_sent"
    /\ \E ans \in AtrAnswers("OK") :
        /\ AtrRequest(ans, AtrListsWritten(atr))
        /\ \/ /\ ans.class = "OK"
              /\ state' = "COMMITTED"
              /\ phase' = "unstage" /\ todo' = InQueue
              /\ UNCHANGED <<ambig, thrown>>
           \/ /\ ans.class = "AMBIGUOUS" \/ (ans.class = "TRANSIENT" /\ ambig)
              /\ ambig' = TRUE
              /\ phase' = "atr_commit"
              /\ UNCHANGED <<state, todo, thrown>>
           \/ /\ ans.class = "TRANSIENT" /\ ~ambig
              /\ HandleError(Retry)
              /\ UNCHANGED <<state, todo, ambig>>
           \/ /\ ans.class = "ATR_FULL"
              /\ HandleError(Fatal(IF ambig THEN "AMBIGUOUS" ELSE "FAILED"))
              /\ UNCHANGED <<state, todo, ambig>>
           \/ /\ ans.class = "OTHER"
              /\ HandleError(IF ambig THEN Fatal("AMBIGUOUS") ELSE Plain)
              /\ UNCHANGED <<state, todo, ambig>>
    /\ UNCHANGED <<doc, opVars, overtime, blocked, cur, tries, rolled, outcome, envVars, written>>

\* Mutant: the loop ends with its first document.
NextDocumentIsLast(d) == todo' = {} /\ cur' = NoCur

\* staged_mutation_queue::commit goes through the queue; which document is next
\* is of no consequence, but it stays at it until it is through with it.
AtDocument(d) == d \in todo /\ cur.doc \in {d, NoDoc}
NextDocument(d) == todo' = todo \ {d} /\ cur' = NoCur

\* In overtime, the first error of a commit or a rollback is the last.
GivesUp(ans, inOvertime) == ans.class # "OK" /\ inOvertime

\* check_expiry_during_commit_or_rollback
EnterOvertime == overtime' = (overtime \/ expired)

\* Mutant: an error after the commit point may be rolled back.
PostCommitRollback == HandleError(Plain) /\ UNCHANGED <<todo, cur>>

PostCommitFailure == HandleError(Fatal("FAILED_POST_COMMIT")) /\ UNCHANGED <<todo, cur>>

\* commit_doc.  After the first collision it overwrites whatever is there.
UnstageDoc(d) ==
    LET item    == staged[d]
        adds    == item.type = "insert" /\ ~cur.zero
        cas     == IF cur.zero THEN 0 ELSE item.cas
        natural == IF adds THEN AnswerToInsert(doc[d]) ELSE AnswerToUnstaging(doc[d], cas, FALSE)
    IN
    /\ phase = "unstage" /\ AtDocument(d)
    /\ item.type \in {"insert", "replace"}
    /\ EnterOvertime
    /\ \E ans \in DocAnswers(natural) :
        /\ DocRequest(d, ans, Mutated(doc[d], "new", "none"))
        /\ written' = IF ans.lands THEN written \cup {d} ELSE written
        /\ \/ /\ ans.class = "OK"
              /\ NextDocument(d) /\ UNCHANGED <<phase, thrown>>
           \/ /\ ans.class = "AMBIGUOUS" /\ ~GivesUp(ans, overtime')
              /\ cur' = [cur EXCEPT !.doc = d, !.ambig = TRUE] /\ UNCHANGED <<phase, thrown, todo>>
           \/ /\ ans.class \in {"CAS_MISMATCH", "DOC_ALREADY_EXISTS"}
              /\ ~GivesUp(ans, overtime') /\ ~cur.ambig
              /\ cur' = [doc |-> d, ambig |-> TRUE, zero |-> TRUE] /\ UNCHANGED <<phase, thrown, todo>>
           \/ /\ \/ GivesUp(ans, overtime')
                 \/ ans.class \in {"CAS_MISMATCH", "DOC_ALREADY_EXISTS"} /\ cur.ambig
                 \/ ans.class \in {"DOC_NOT_FOUND", "PATH_NOT_FOUND", "TRANSIENT", "OTHER"}
              /\ PostCommitFailure
    /\ UNCHANGED <<atr, state, opVars, blocked, tries, ambig, rolled, outcome, envVars>>

\* remove_doc
UnstageRemove(d) ==
    /\ phase = "unstage" /\ AtDocument(d)
    /\ staged[d].type = "remove"
    /\ EnterOvertime
    /\ \E ans \in DocAnswers(AnswerToRemove(doc[d])) :
        /\ DocRequest(d, ans, Mutated(doc[d], "none", "none"))
        /\ written' = IF ans.lands THEN written \cup {d} ELSE written
        /\ \/ /\ ans.class = "OK"
              /\ NextDocument(d) /\ UNCHANGED <<phase, thrown>>
           \/ /\ ans.class = "AMBIGUOUS" /\ ~GivesUp(ans, overtime')
              /\ cur' = [cur EXCEPT !.doc = d] /\ UNCHANGED <<phase, thrown, todo>>
           \/ /\ GivesUp(ans, overtime') \/ ans.class \notin {"OK", "AMBIGUOUS"}
              /\ PostCommitFailure
    /\ UNCHANGED <<atr, state, opVars, blocked, tries, ambig, rolled, outcome, envVars>>

UnstageEnd ==
    /\ phase = "unstage" /\ todo = {}
    /\ phase' = "atr_complete"
    /\ UNCHANGED <<serverVars, state, opVars, overtime, mainVars, envVars, faults, written>>

\* atr_complete removes the entry; no error of it is reported, and no further step
\* depends on it.
AtrComplete ==
    /\ phase = "atr_complete"
    /\ phase' = "done" /\ outcome' = "success"
    /\ \/ /\ ExpiredNotInOvertime
          /\ UNCHANGED <<atr, faults, state>>
       \/ /\ ~ExpiredNotInOvertime
          /\ \E ans \in AtrAnswers(IF atr = "absent" THEN "PATH_NOT_FOUND" ELSE "OK") :
              /\ AtrRequest(ans, "absent")
              /\ state' = IF ans.class = "OK" THEN "COMPLETED" ELSE state
    /\ UNCHANGED <<doc, opVars, overtime, blocked, todo, cur, tries, ambig, thrown, rolled, envVars,
                   written>>

-----------------------------------------------------------------------------
(* attempt_context_impl::rollback, as handle_error calls it *)

RollbackIs(result) == rolled' = result /\ phase' = "report"

\* retry_op_exp gives up after MaxRetries retries.
Again == \/ tries < MaxRetries /\ tries' = tries + 1 /\ UNCHANGED <<rolled, phase>>
         \/ tries = MaxRetries /\ RollbackIs("failed") /\ UNCHANGED tries

\* An attempt whose state is still NOT_STARTED is taken to have no mutations.
RollbackBegin ==
    /\ phase = "rollback_wait"
    /\ Active = {}
    /\ blocked' = TRUE
    /\ EnterOvertime
    /\ \/ (~atrChosen \/ state = "NOT_STARTED") /\ RollbackIs("ok")
       \/ atrChosen /\ state # "NOT_STARTED" /\ phase' = "atr_abort" /\ UNCHANGED rolled
    /\ tries' = 0
    /\ UNCHANGED <<serverVars, state, opVars, todo, cur, ambig, thrown, outcome, envVars, faults, written>>

\* Steps of the rollback first look at the clock; out of time, they say so and are
\* tried again in overtime.
ExpireInRollback ==
    /\ phase \in {"atr_abort", "rollback_docs"}
    /\ phase = "rollback_docs" => todo # {}
    /\ ExpiredNotInOvertime
    /\ overtime' = TRUE
    /\ Again
    /\ UNCHANGED <<serverVars, state, opVars, blocked, todo, cur, ambig, thrown, outcome, envVars,
                   faults, written>>

AtrAbort ==
    /\ phase = "atr_abort"
    /\ ~ExpiredNotInOvertime
    /\ \E ans \in AtrAnswers("OK") :
        /\ AtrRequest(ans, AtrListsWritten(atr))
        /\ \/ /\ ans.class = "OK"
              /\ state' = "ABORTED"
              /\ phase' = "rollback_docs" /\ todo' = InQueue /\ tries' = 0
              /\ UNCHANGED rolled
           \/ /\ GivesUp(ans, overtime) \/ ans.class = "ATR_FULL"
              /\ RollbackIs("failed")
              /\ UNCHANGED <<state, todo, tries>>
           \/ /\ ans.class \in DocFaults /\ ~GivesUp(ans, overtime)
              /\ Again
              /\ UNCHANGED <<state, todo>>
    /\ UNCHANGED <<doc, opVars, overtime, blocked, cur, ambig, thrown, outcome, envVars, written>>

\* Mutant: the request carries no CAS.
RollbackAnyCas(item) == 0

\* Both rollback requests carry the CAS of the staging.
RollbackCas(item) == item.cas

\* rollback_insert and rollback_remove_or_replace
RollbackDoc(d) ==
    LET item     == staged[d]
        isInsert == item.type = "insert"
        gone     == IF isInsert THEN {"DOC_NOT_FOUND", "PATH_NOT_FOUND"} ELSE {"PATH_NOT_FOUND"}
    IN
    /\ phase = "rollback_docs" /\ AtDocument(d)
    /\ ~ExpiredNotInOvertime
    /\ \E ans \in DocAnswers(AnswerToUnstaging(doc[d], RollbackCas(item), isInsert)) :
        /\ DocRequest(d, ans, Staged(doc[d], "none"))
        /\ \/ /\ ans.class = "OK" \/ (ans.class \in gone /\ ~GivesUp(ans, overtime))
              /\ NextDocument(d) /\ tries' = 0
              /\ UNCHANGED <<rolled, phase>>
           \/ /\ GivesUp(ans, overtime) \/ ans.class \in Refusals \ gone
              /\ RollbackIs("failed")
              /\ UNCHANGED <<todo, cur, tries>>
           \/ /\ ans.class \in DocFaults /\ ~GivesUp(ans, overtime)
              /\ Again
              /\ cur' = [cur EXCEPT !.doc = d]
              /\ UNCHANGED todo
    /\ UNCHANGED <<atr, state, opVars, overtime, blocked, ambig, thrown, outcome, envVars, written>>

RollbackDocsEnd ==
    /\ phase = "rollback_docs" /\ todo = {}
    /\ phase' = "rollback_complete" /\ tries' = 0
    /\ UNCHANGED <<serverVars, state, opVars, overtime, blocked, todo, cur, ambig, thrown, rolled,
                   outcome, envVars, faults, written>>

\* atr_rollback_complete; running out of time here ends the rollback.
AtrRollbackComplete ==
    /\ phase = "rollback_complete"
    /\ \/ /\ ExpiredNotInOvertime
          /\ RollbackIs("failed")
          /\ UNCHANGED <<atr, faults, state, tries>>
       \/ /\ ~ExpiredNotInOvertime
          /\ \E ans \in AtrAnswers(IF atr = "absent" THEN "PATH_NOT_FOUND" ELSE "OK") :
              /\ AtrRequest(ans, "absent")
              /\ state' = IF ans.class = "OK" THEN "ROLLED_BACK" ELSE state
              /\ \/ /\ ans.class = "OK" \/ (ans.class = "PATH_NOT_FOUND" /\ ~GivesUp(ans, overtime))
                    /\ RollbackIs("ok") /\ UNCHANGED tries
                 \/ /\ GivesUp(ans, overtime)
                    /\ RollbackIs("failed") /\ UNCHANGED tries
                 \/ /\ ans.class \in AtrFaults /\ ~GivesUp(ans, overtime)
                    /\ Again
    /\ UNCHANGED <<doc, opVars, overtime, blocked, todo, cur, ambig, thrown, outcome, envVars, written>>

MainStep ==
    \/ LogicThrows \/ Finalize \/ Report
    \/ CommitBegin \/ AtrCommit \/ AtrCommitAnswer \/ UnstageEnd \/ AtrComplete
    \/ RollbackBegin \/ ExpireInRollback \/ AtrAbort \/ RollbackDocsEnd \/ AtrRollbackComplete
    \/ \E d \in Docs : UnstageDoc(d) \/ UnstageRemove(d) \/ RollbackDoc(d)

-----------------------------------------------------------------------------
(* Surroundings *)

Expire ==
    /\ ~expired /\ expired' = TRUE
    /\ UNCHANGED <<serverVars, state, opVars, overtime, phase, mainVars, queued, faults, foreign, written>>

\* The process of the client dies.
Crash ==
    /\ phase \notin {"done", "crashed"}
    /\ phase' = "crashed"
    /\ UNCHANGED <<serverVars, state, opVars, overtime, mainVars, envVars, faults, written>>

\* Cleanup of an entry found PENDING (atr_cleanup_entry): the documents are left
\* alone, the entry is removed.  Of a record it cannot read it removes nothing.
CleanedEntry == IF atr = "PENDING" THEN "absent" ELSE atr

\* The client's own queue; a process that died has none.
CleanQueue ==
    /\ queued /\ phase = "done"
    /\ queued' = FALSE
    /\ atr' = CleanedEntry
    /\ UNCHANGED <<doc, state, opVars, overtime, phase, mainVars, expired, faults, foreign, written>>

\* Any client's search for lost attempts; it waits for the entry to expire.
CleanLost ==
    /\ expired /\ atr = "PENDING"
    /\ atr' = CleanedEntry
    /\ UNCHANGED <<doc, state, opVars, overtime, phase, mainVars, envVars, faults, written>>

\* What others begin is bounded; what they have begun they may always end.
Foreign(d, next) ==
    /\ foreign' = foreign + 1
    /\ doc' = [doc EXCEPT ![d] = next]
    /\ UNCHANGED <<atr, state, opVars, overtime, phase, mainVars, queued, expired, faults, written>>

\* Writers outside any transaction: a full write keeps the xattrs of a document
\* that is there; a new document and a removal have none.
ForeignWrite(d) ==
    /\ foreign < MaxForeign
    /\ \/ doc[d].body # "none" /\ Foreign(d, Mutated(doc[d], "foreign", doc[d].stg))
       \/ doc[d].body = "none" /\ Foreign(d, Mutated(doc[d], "foreign", "none"))
       \/ doc[d].body # "none" /\ Foreign(d, Mutated(doc[d], "none", "none"))

\* Another transaction stages a write: over this attempt's staged mutation only
\* if check_atr_entry_for_blocking_document finds no entry for it.
RivalStage(d) ==
    /\ foreign < MaxForeign
    /\ doc[d].stg = "none" \/ (doc[d].stg \in Mutations /\ atr = "absent")
    /\ Foreign(d, Staged(doc[d], "rival"))

\* It commits, or rolls back.
RivalEnd(d) ==
    /\ doc[d].stg = "rival"
    /\ \/ Foreign(d, Mutated(doc[d], "foreign", "none"))
       \/ Foreign(d, Staged(doc[d], "none"))

Surroundings ==
    \/ Expire \/ Crash \/ CleanQueue \/ CleanLost
    \/ \E d \in Docs : ForeignWrite(d) \/ RivalStage(d) \/ RivalEnd(d)

Next == (\E o \in Ops : OpStep(o)) \/ MainStep \/ Surroundings

Spec == Init /\ [][Next]_vars

\* The thread that runs the transaction keeps running, and the service answers.
FairSpec == Spec /\ WF_vars(MainStep) /\ \A o \in Ops : WF_vars(op[o].at # "idle" /\ OpStep(o))

-----------------------------------------------------------------------------
(* Safety *)

\* No document is written once an operation of the attempt has failed: commit
\* waits for every operation and looks at errors_ afterwards, and no operation
\* starts or ends after that.
NoWriteAfterError == errs # <<>> => written = {}

\* What the queue says of a document is what is staged on it, for as long as the
\* document has the CAS of the staging; and the kind of mutation fits the document:
\* only what has no body was inserted.  commit_doc chooses its request by the kind
\* (an insert_request needs a document without a body), rollback as well.
QueueMatchesStore ==
    \A d \in InQueue :
        doc[d].cas = staged[d].cas =>
            /\ doc[d].stg = staged[d].type
            /\ staged[d].type = "insert" <=> doc[d].body = "none"

\* An attempt in ROLLED_BACK, which cleanup never looks at again, has left no
\* mutation of its queue on a document.
RolledBackIsClean ==
    state = "ROLLED_BACK" => \A d \in InQueue : doc[d].stg \notin Mutations

\* A rollback never disturbs what another transaction has staged, though that one
\* may have overwritten a mutation of this attempt.
RollbackSparesOthers ==
    [][phase = "rollback_docs" /\ op' = op /\ foreign' = foreign
            => \A d \in Docs : doc[d].stg = "rival" => doc'[d] = doc[d]]_vars

\* When nothing goes wrong and there is no conflict, an attempt that has ended,
\* either way, has left neither its ATR entry nor a staged mutation behind.
CleanWithoutFaults ==
    phase = "done" /\ faults = 0 /\ foreign = 0 /\ ~expired =>
        atr = "absent" /\ \A d \in Docs : doc[d].stg = "none"

-----------------------------------------------------------------------------
(* The attempt keeps its promise *)

Decision == CASE state \in {"COMMITTED", "COMPLETED"} -> "commit"
              [] state \in {"ABORTED", "ROLLED_BACK"} -> "abort"
              [] OTHER                                -> "open"

Verdict == CASE outcome = "none"               -> "none"
             [] outcome = "success"            -> "committed"
             [] outcome = "FAILED_POST_COMMIT" -> "incomplete"
             [] OTHER                          -> "not_committed"

P == INSTANCE Promise WITH decision <- Decision, pledged <- InQueue, verdict <- Verdict

\* Every behaviour of the attempt, crash and cleanup included, is one that Promise
\* allows: it decides at most once, writes only after deciding to commit, and
\* reports success only when all that was staged is written.
PromiseKept == P!PromiseSpec

-----------------------------------------------------------------------------
(* Liveness *)

\* With the blocking API an attempt comes to an end, unless the client dies:
\* waiting for operations, ambiguous writes that are sent again, collisions and
\* the overtime that follows expiry all finish.
AttemptEnds == <>(phase \in {"done", "crashed"})

-----------------------------------------------------------------------------
(* What the documentation of the code promises, and the code does not do *)

\* attempt_state.hxx, of COMMITTED: "Set once the Active Transaction Record entry
\* for this transaction has been updated to mark the transaction as "Committed"."
CommittedIsMarked == state = "COMMITTED" /\ phase # "done" => atr = "COMMITTED"

\* attempt_context.hxx, of commit: "All staged replaces, inserts and removals will
\* be written."  An attempt the application is told has committed is written when
\* cleanup is through with it.
CommittedIsWritten ==
    outcome \in {"success", "FAILED_POST_COMMIT"} /\ atr = "absent" => written = InQueue

\* attempt_context.hxx, of rollback: "All staged mutations will be unstaged."  A
\* rollback that went well leaves no mutation of the queue on a document.
RollbackUnstages ==
    phase = "done" /\ rolled = "ok" => \A d \in InQueue : doc[d].stg \notin Mutations

\* attempt_context_impl.cxx, where the write of the ATR entry is tried again:
\* "keep it locked!"  No operation stages before the entry that is to guard the
\* mutation has been written.
StagedUnderEntry == InQueue # {} /\ phase = "logic" /\ ~expired => atr # "absent"

\* transactions.hxx, of the callback of the asynchronous run: "Called when the
\* transaction is complete."  No operation is in flight when it is.
CompleteMeansOver == outcome # "none" => Active = {}

\* async_attempt_context.hxx, of the callback of an operation: "callback function
\* called with the updated" document "or transaction_operation_failed".  Every
\* operation that was started calls its callback.
EveryOpEnds == \A o \in Ops : op[o].at # "idle" ~> op[o].at = "done" \/ phase = "crashed"
=============================================================================
