------------------------------- MODULE RunLoop -------------------------------
(***************************************************************************)
(* transactions::run: attempts of one transaction, one after the other,    *)
(* until one of them commits, fails for good, or time or attempts run out  *)
(* (wrap_run, transaction_context, error_list, merge_errors).              *)
(*                                                                         *)
(* What an attempt does to documents is the matter of modules Attempt and  *)
(* QueryMode.  Here commit and rollback are one step each, with the ends   *)
(* those modules allow; the application may also call them itself.         *)
(***************************************************************************)
EXTENDS OperationErrors

CONSTANTS
    MaxAttempts, \* max_attempts_, 1000 in the code
    MaxErrors,   \* bound: errors recorded in one attempt
    Async        \* run with an async_logic, whose operations outlive it

ASSUME ConstantsAssumption ==
    MaxAttempts \in Nat \ {0} /\ MaxErrors \in Nat /\ Async \in BOOLEAN

VARIABLES
    attempts,  \* attempts begun
    clock,     \* "early", "expired", or "over" the time exp_delay allows
    at,        \* where the thread of run is
    cur,       \* the current attempt
    errs,      \* its errors_
    called,    \* what the application has called itself: "no", "commit", "rollback"
    caught,    \* the error of that call, which the application may swallow
    err,       \* the error handle_error works on
    outcome,   \* what run comes to
    \* ---- history
    handed,    \* attempts given to cleanup
    left,      \* attempts that have ended with their entry in the ATR
    committed  \* attempts the service has committed

vars == <<attempts, clock, at, cur, errs, called, caught, err, outcome, handed, left, committed>>
historyVars == <<handed, left, committed>>

-----------------------------------------------------------------------------
(* Errors *)

\* An exception that is none of the library's.
Foreign == [NoError EXCEPT !.raise = "foreign"]

\* The query service describes errors in the same three terms.  It is assumed to
\* keep to "no_rollback means no_retry as well", and to speak of a commit that is
\* done or in doubt in its answer to COMMIT only.
Described == {e \in Errors : (e.retry => e.rollback) /\ e.raise \in {"FAILED", "EXPIRED"}}

\* What operations record in key-value mode.
KvErrors == {Plain, Retry, Expired, Fatal("FAILED"), Fatal("EXPIRED")}

-----------------------------------------------------------------------------
(* An attempt, as the loop sees it *)

States == {"NOT_STARTED", "PENDING", "ABORTED", "COMMITTED", "COMPLETED", "ROLLED_BACK"}

\* chosen: atr_id_ has a value.  entry: this client's entry is in the ATR.  query: in
\* query mode.  done: is_done_.  lost: COMMIT was answered by no more than a failed
\* request.
Attempt == [state : States, chosen : BOOLEAN, entry : BOOLEAN, query : BOOLEAN,
            done : BOOLEAN, lost : BOOLEAN]

Fresh == [state |-> "NOT_STARTED", chosen |-> FALSE, entry |-> FALSE, query |-> FALSE,
          done |-> FALSE, lost |-> FALSE]

\* What a call of commit or rollback comes to.
End(e, att, commits) == [err |-> e, cur |-> att, commits |-> commits]

TimeIsUp == clock # "early"

\* commit_with_query: every answer leaves the attempt done.
QueryCommitEnds(c) ==
    LET done == [c EXCEPT !.done = TRUE] IN
    IF TimeIsUp THEN {End(Fatal("EXPIRED"), done, FALSE)}
    ELSE {End(NoError, [done EXCEPT !.state = "COMPLETED"], TRUE)}
         \cup {End(Fatal("AMBIGUOUS"), done, commits) : commits \in BOOLEAN}
         \cup {End(Plain, [done EXCEPT !.lost = TRUE], commits) : commits \in BOOLEAN}
         \cup {End(Fatal("FAILED_POST_COMMIT"), done, TRUE)}
         \cup {End(e, done, FALSE) : e \in Described}

\* Mutant: a commit in doubt is tried again by another attempt.
KvCommitAmbiguityRetried(c) ==
    {End(Retry, c, commits) : commits \in BOOLEAN}

\* commit of an attempt that has chosen its ATR: atr_commit, the queue, atr_complete,
\* whose errors are ignored.  An entry cleanup has meanwhile removed may be missing.
KvCommitEnds(c) ==
    {End(NoError, [c EXCEPT !.state = "COMPLETED", !.entry = FALSE, !.done = TRUE], TRUE),
     End(NoError, [c EXCEPT !.state = "COMMITTED", !.done = TRUE], TRUE),
     End(Fatal("FAILED_POST_COMMIT"), [c EXCEPT !.state = "COMMITTED"], TRUE)}
    \cup {End(Fatal("AMBIGUOUS"), c, commits) : commits \in BOOLEAN}
    \cup {End(e, c, FALSE) : e \in {Retry, Plain, Fatal("FAILED"), Fatal("EXPIRED")}}

CommitEnds(c) ==
    IF errs # <<>> THEN {End(MergeErrors(errs), c, FALSE)}
    ELSE IF c.query THEN QueryCommitEnds(c)
    ELSE IF TimeIsUp THEN {End(Expired, c, FALSE)}
    ELSE IF c.done THEN {End(Fatal("FAILED"), c, FALSE)}
    ELSE IF c.chosen THEN KvCommitEnds(c)
    ELSE {End(NoError, [c EXCEPT !.done = TRUE], FALSE)}

\* rollback_with_query: an attempt the service does not know counts as rolled back.
QueryRollbackEnds(c) ==
    LET done == [c EXCEPT !.done = TRUE]
        failures == {End(e, done, FALSE) : e \in {Plain, Fatal("FAILED"), Fatal("EXPIRED")}}
    IN  failures \cup IF TimeIsUp THEN {}
                      ELSE {End(NoError, [done EXCEPT !.state = "ROLLED_BACK"], FALSE)}

\* atr_abort, the queue, atr_rollback_complete; an entry that is gone when it is to
\* be removed leaves the state as it was.
KvRollbackEnds(c) ==
    LET aborted == [c EXCEPT !.state = "ABORTED"]
        failures == {Plain, Fatal("FAILED"), Fatal("EXPIRED")}
    IN  {End(NoError, [aborted EXCEPT !.state = s, !.entry = FALSE, !.done = TRUE], FALSE) :
            s \in {"ABORTED", "ROLLED_BACK"}}
        \cup {End(e, c, FALSE) : e \in failures} \cup {End(e, aborted, FALSE) : e \in failures}

RollbackEnds(c) ==
    IF c.query THEN QueryRollbackEnds(c)
    ELSE IF ~c.chosen \/ c.state = "NOT_STARTED" THEN {End(NoError, [c EXCEPT !.done = TRUE], FALSE)}
    ELSE IF c.done THEN {End(Fatal("FAILED"), c, FALSE)}
    ELSE KvRollbackEnds(c)

Becomes(end) ==
    /\ cur' = end.cur
    /\ committed' = IF end.commits THEN committed \cup {attempts} ELSE committed

-----------------------------------------------------------------------------
(* Types *)

Results  == {"complete", "incomplete"}
Outcomes == {"running", "terminated", "timeout"} \cup Results \cup {"FAIL", "EXPIRY", "COMMIT_AMBIGUOUS"}

TypeOK ==
    /\ attempts \in 0..MaxAttempts
    /\ clock \in {"early", "expired", "over"}
    /\ at \in {"next", "logic", "finalize", "commit", "handle", "over"}
    /\ cur \in Attempt
    /\ errs \in Seq(Errors)
    /\ called \in {"no", "commit", "rollback"}
    /\ {caught, err} \subseteq Errors \cup {NoError, Foreign}
    /\ outcome \in Outcomes
    /\ at = "over" <=> outcome # "running"
    /\ handed \cup left \cup committed \subseteq 1..attempts

Init ==
    /\ attempts = 0
    /\ clock = "early"
    /\ at = "next"
    /\ cur = Fresh
    /\ errs = <<>>
    /\ called = "no" /\ caught = NoError
    /\ err = NoError
    /\ outcome = "running"
    /\ handed = {} /\ left = {} /\ committed = {}

-----------------------------------------------------------------------------
(* The loop of wrap_run *)

\* get_transaction_result
Result(c) == IF c.state = "COMPLETED" THEN "complete" ELSE "incomplete"

RunIs(result) == at' = "over" /\ outcome' = result

\* new_attempt_context: exp_delay, which has no limit before its first call.
NewAttempt ==
    /\ at = "next" /\ attempts < MaxAttempts
    /\ attempts > 0 => clock # "over"
    /\ attempts' = attempts + 1
    /\ cur' = Fresh /\ errs' = <<>>
    /\ called' = "no" /\ caught' = NoError /\ err' = NoError
    /\ at' = "logic"
    /\ UNCHANGED <<clock, outcome, historyVars>>

\* exp_delay throws retry_operation_timeout, which is not a transaction_exception: it
\* goes through run to the application, or out of the thread of an asynchronous run.
DelayTimesOut ==
    /\ at = "next" /\ attempts \in 1..(MaxAttempts - 1) /\ clock = "over"
    /\ RunIs(IF Async THEN "terminated" ELSE "timeout")
    /\ UNCHANGED <<attempts, clock, cur, errs, called, caught, err, historyVars>>

\* "only thing to do here is return"
AttemptsExhausted ==
    /\ at = "next" /\ attempts = MaxAttempts
    /\ RunIs(Result(cur))
    /\ UNCHANGED <<attempts, clock, cur, errs, called, caught, err, historyVars>>

-----------------------------------------------------------------------------
(* The logic *)

\* Operations run with the logic; asynchronous ones also beside what follows it, until
\* commit or rollback has blocked them.
OperationsRun ==
    /\ called = "no"
    /\ at = "logic" \/ (Async /\ at \in {"finalize", "commit", "handle"})

\* A mutation is staged, by an operation that began before any error.
OperationStages ==
    /\ OperationsRun /\ (errs = <<>> \/ Async) /\ ~cur.query
    /\ cur' = [cur EXCEPT !.state = "PENDING", !.chosen = TRUE, !.entry = TRUE]
    /\ UNCHANGED <<attempts, clock, at, errs, called, caught, err, outcome, historyVars>>

\* BEGIN WORK: from here on the entry is the query service's to write and to remove.
QueryModeBegins ==
    /\ OperationsRun /\ errs = <<>> /\ ~cur.query
    /\ cur' = [cur EXCEPT !.query = TRUE, !.entry = FALSE]
    /\ UNCHANGED <<attempts, clock, at, errs, called, caught, err, outcome, historyVars>>

\* An operation fails, before or after it has chosen the ATR, written the entry, and
\* been told so.
OperationFails ==
    /\ OperationsRun /\ Len(errs) < MaxErrors
    /\ \E e \in KvErrors \cup IF cur.query THEN Described ELSE {} : errs' = Append(errs, e)
    /\ \/ UNCHANGED cur
       \/ /\ ~cur.query /\ cur.state = "NOT_STARTED"
          /\ cur' \in {[cur EXCEPT !.chosen = TRUE, !.entry = written] : written \in BOOLEAN}
                      \cup {[cur EXCEPT !.chosen = TRUE, !.entry = TRUE, !.state = "PENDING"]}
    /\ UNCHANGED <<attempts, clock, at, called, caught, err, outcome, historyVars>>

\* The application commits or rolls back itself.  The errors are its to handle.
AppCommits ==
    /\ at = "logic" /\ called = "no"
    /\ called' = "commit"
    /\ \E end \in CommitEnds(cur) : Becomes(end) /\ caught' = end.err
    /\ UNCHANGED <<attempts, clock, at, errs, err, outcome, handed, left>>

AppRollsBack ==
    /\ at = "logic" /\ called = "no"
    /\ called' = "rollback"
    /\ \E end \in RollbackEnds(cur) : Becomes(end) /\ caught' = end.err
    /\ UNCHANGED <<attempts, clock, at, errs, err, outcome, handed, left>>

LogicReturns ==
    /\ at = "logic"
    /\ at' = "finalize"
    /\ UNCHANGED <<attempts, clock, cur, errs, called, caught, err, outcome, historyVars>>

HandleError(e) == err' = e /\ at' = "handle"

\* What errors_ holds, whatever the order.
Recorded == {errs[i] : i \in DOMAIN errs}

\* Errors the logic may let through: those of its operations, alone or merged, and that
\* of its own commit or rollback; a query_exception, which becomes a plain error; an
\* exception of its own.
Throwable ==
    Recorded \cup (IF errs = <<>> THEN {} ELSE {MergeErrors(errs)})
    \cup ({caught} \ {NoError}) \cup {Plain, Foreign}

LogicThrows ==
    /\ at = "logic"
    /\ \E e \in Throwable : HandleError(e)
    /\ UNCHANGED <<attempts, clock, cur, errs, called, caught, outcome, historyVars>>

-----------------------------------------------------------------------------
(* transaction_context::finalize *)

\* The attempt ends here; what it leaves in the ATR is left.
Leaves(c) == left' = IF c.entry THEN left \cup {attempts} ELSE left

\* Mutant: an attempt whose state has not changed has nothing to commit.
FinalizeIfStarted ==
    /\ at = "finalize"
    /\ \/ /\ errs # <<>>
          /\ HandleError(MergeErrors(errs))
          /\ UNCHANGED <<outcome, left>>
       \/ /\ errs = <<>> /\ (cur.done \/ cur.state = "NOT_STARTED")
          /\ RunIs(Result(cur)) /\ Leaves(cur)
          /\ UNCHANGED err
       \/ /\ errs = <<>> /\ ~cur.done /\ cur.state # "NOT_STARTED"
          /\ at' = "commit"
          /\ UNCHANGED <<err, outcome, left>>
    /\ UNCHANGED <<attempts, clock, cur, errs, called, caught, handed, committed>>

Finalize ==
    /\ at = "finalize"
    /\ \/ /\ errs # <<>>
          /\ HandleError(MergeErrors(errs))
          /\ UNCHANGED <<outcome, left>>
       \/ /\ errs = <<>> /\ cur.done
          /\ RunIs(Result(cur)) /\ Leaves(cur)
          /\ UNCHANGED err
       \/ /\ errs = <<>> /\ ~cur.done
          /\ at' = "commit"
          /\ UNCHANGED <<err, outcome, left>>
    /\ UNCHANGED <<attempts, clock, cur, errs, called, caught, handed, committed>>

FinalizeCommits ==
    /\ at = "commit"
    /\ \E end \in CommitEnds(cur) :
        /\ Becomes(end)
        /\ \/ /\ end.err = NoError
              /\ RunIs(Result(end.cur)) /\ Leaves(end.cur)
              /\ UNCHANGED err
           \/ /\ end.err # NoError
              /\ HandleError(end.err)
              /\ UNCHANGED <<outcome, left>>
    /\ UNCHANGED <<attempts, clock, errs, called, caught, handed>>

-----------------------------------------------------------------------------
(* transaction_context::handle_error *)

\* Mutant: an attempt that was being rolled back is not looked at again.
GoesToCleanupIfPending(c) == c.state \in {"PENDING", "COMMITTED"}

GoesToCleanup(c) == c.state \notin {"NOT_STARTED", "COMPLETED", "ROLLED_BACK"}

\* transactions_cleanup::add_attempt
AddAttempt(c) == handed' = IF GoesToCleanup(c) THEN handed \cup {attempts} ELSE handed

\* Mutant: a commit in doubt is a failure.
FinalWithoutDoubt(e, c) ==
    CASE e.raise = "EXPIRED" -> "EXPIRY"
      [] e.raise = "FAILED_POST_COMMIT" -> Result(c)
      [] OTHER -> "FAIL"

\* get_final_exception; an error past the commit point is none, and run returns.
Final(e, c) ==
    CASE e.raise = "EXPIRED" -> "EXPIRY"
      [] e.raise = "AMBIGUOUS" -> "COMMIT_AMBIGUOUS"
      [] e.raise = "FAILED_POST_COMMIT" -> Result(c)
      [] OTHER -> "FAIL"

\* Mutants: the loop goes on after an error; or nobody calls back.
RaisedAndRetried(c) == AddAttempt(c) /\ at' = "next" /\ outcome' = Final(err, c)
RetriedUntold(c) == AddAttempt(c) /\ at' = "waiting" /\ UNCHANGED outcome

\* handle_error ends with cleanup told and the error raised, or another attempt.
Raised(c) == AddAttempt(c) /\ RunIs(Final(err, c))
Retried(c) == AddAttempt(c) /\ at' = "next" /\ UNCHANGED outcome

\* The error forbids a rollback.
HandledWithoutRollback ==
    /\ at = "handle" /\ err # Foreign /\ ~err.rollback
    /\ Leaves(cur)
    /\ IF err.retry THEN Retried(cur) ELSE Raised(cur)
    /\ UNCHANGED <<attempts, clock, cur, errs, called, caught, err, committed>>

\* The attempt is rolled back first.  When that fails the error is raised, even one that
\* asks for a retry; when it succeeds too late for a retry the transaction has expired,
\* and cleanup is not told.
HandledWithRollback ==
    /\ at = "handle" /\ err # Foreign /\ err.rollback
    /\ \E end \in RollbackEnds(cur) :
        /\ Becomes(end) /\ Leaves(end.cur)
        /\ \/ end.err # NoError /\ Raised(end.cur)
           \/ end.err = NoError /\ err.retry /\ TimeIsUp /\ RunIs("EXPIRY") /\ UNCHANGED handed
           \/ end.err = NoError /\ err.retry /\ ~TimeIsUp /\ Retried(end.cur)
           \/ end.err = NoError /\ ~err.retry /\ Raised(end.cur)
    /\ UNCHANGED <<attempts, clock, errs, called, caught, err>>

\* An exception that is none of the library's: rolled back, whatever that comes to.
HandledForeign ==
    /\ at = "handle" /\ err = Foreign
    /\ \E end \in RollbackEnds(cur) :
        /\ Becomes(end) /\ Leaves(end.cur) /\ Raised(end.cur)
    /\ UNCHANGED <<attempts, clock, errs, called, caught, err>>

-----------------------------------------------------------------------------

\* has_expired_client_side; later, past the end_time of exp_delay.
TimePasses ==
    /\ at # "over"
    /\ \/ clock = "early" /\ clock' = "expired"
       \/ clock = "expired" /\ attempts > 0 /\ clock' = "over"
    /\ UNCHANGED <<attempts, at, cur, errs, called, caught, err, outcome, historyVars>>

LogicEnds == LogicReturns \/ LogicThrows

RunStep ==
    \/ NewAttempt \/ DelayTimesOut \/ AttemptsExhausted
    \/ Finalize \/ FinalizeCommits
    \/ HandledWithoutRollback \/ HandledWithRollback \/ HandledForeign

Next ==
    \/ RunStep \/ LogicEnds
    \/ OperationStages \/ QueryModeBegins \/ OperationFails
    \/ AppCommits \/ AppRollsBack
    \/ TimePasses

Spec == Init /\ [][Next]_vars

\* The thread of run runs, and the logic the application gives it comes to an end.
FairSpec == Spec /\ WF_vars(RunStep) /\ WF_vars(LogicEnds)

-----------------------------------------------------------------------------
(* Properties *)

\* The error a list of errors is merged to is no more lenient than any of them: it asks
\* for a retry only if all do, and allows a rollback only if all do (merge_errors).
MergeIsConservative ==
    errs # <<>> =>
        LET merged == MergeErrors(errs) IN
        /\ merged \in Recorded
        /\ merged.rollback <=> \A e \in Recorded : e.rollback
        /\ merged.retry <=> \A e \in Recorded : e.retry

\* An attempt that the service has committed is never followed by another, which would
\* apply the logic twice (wrap_run, handle_error) - unless the application has swallowed
\* the error of its own commit, in doubt: finalize then commits again, and may be told
\* to retry.
CommitsOnce ==
    [][(at' = "next" /\ at # "next") =>
        attempts \notin committed' \/ (called = "commit" /\ caught # NoError)]_vars

\* A transaction that is reported as failed or expired has not committed with its last
\* attempt; of those before it CommitsOnce speaks.  The code
\* knows two exceptions: the application has committed itself and gone on to fail, and
\* an answer to COMMIT that got lost is taken for a refusal (commit_with_query).
FailureIsHonest ==
    outcome \in {"FAIL", "EXPIRY"} /\ attempts \in committed => called = "commit" \/ cur.lost

\* A transaction that is not reported as unsuccessful has committed or had nothing to
\* commit, unless its application has rolled it back or swallowed an error of its own
\* commit or rollback; or it wanted to be retried and has had all its attempts.
SuccessIsHonest ==
    outcome \in Results =>
        \/ attempts \in committed
        \/ ~cur.chosen /\ ~cur.query
        \/ called = "rollback" \/ caught # NoError
        \/ err.retry

\* Every attempt that ends with its entry still in the ATR is known to cleanup.  The code
\* makes two exceptions: an attempt still NOT_STARTED, which is taken to have no entry,
\* and one that is returned as a result (finalize calls no add_attempt).
LeftoversAreHanded ==
    [][\A a \in left' \ left :
        a \in handed' \/ cur'.state = "NOT_STARTED" \/ (outcome' \in Results /\ err = NoError)]_vars

\* run returns, raises, or ends the program: no error sends it round for ever.
RunEnds == <>(at = "over")

\* "If unsuccessful, an exception will be raised" (transactions.hxx): when run returns
\* a result the last attempt has not ended with an error that asks for another one.
UnsuccessfulIsRaised == outcome \in Results => ~err.retry
=============================================================================
