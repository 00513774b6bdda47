------------------------------ MODULE QueryMode ------------------------------
(***************************************************************************)
(* How the operations of one attempt are counted, how the attempt changes  *)
(* from key-value to query mode, and how both meet the end of the attempt  *)
(* (waitable_op_list; cache_error_async, op_completed_with_callback,       *)
(* op_completed_with_error, query, query_begin_work, wrap_query and the    *)
(* *_with_query functions of attempt_context_impl).                        *)
(*                                                                         *)
(* Threads: the one that runs the logic and then finalize; the IO threads  *)
(* of the cluster, which run the answers and the callbacks of operations;  *)
(* and the one that rollback(cb) starts.  A function called from a         *)
(* callback runs, and waits, on the thread of that callback.  What an      *)
(* operation does to documents is reduced to "it staged a mutation".       *)
(***************************************************************************)
EXTENDS Naturals, Integers, FiniteSets

CONSTANTS
    Gets, Inserts, Replaces, Removes, Queries,  \* operations the application may call
    App,        \* the thread of the logic: not an operation
    IoThreads,  \* threads that run the cluster's io_context
    Faults,     \* what may go wrong: "expiry", "no_node", "failure"
    MaxFaults,  \* bound: answers that are failures
    Explicit    \* the application may call rollback(cb) itself

Ops == Gets \cup Inserts \cup Replaces \cup Removes \cup Queries

ASSUME QueryModeAssumption ==
    /\ App \notin Ops
    /\ \A s, t \in {Gets, Inserts, Replaces, Removes, Queries} : s = t \/ s \cap t = {}
    /\ IoThreads \in Nat \ {0} /\ MaxFaults \in Nat
    /\ Faults \subseteq {"expiry", "no_node", "failure"}
    /\ Explicit \in BOOLEAN

VARIABLES
    \* ---- waitable_op_list
    count, inFlight, allowed,
    mode,      \* mode_.mode
    node,      \* mode_.query_node is not empty
    asleep,    \* operations that wait on cv_in_flight_ and have not been notified
    \* ---- the operations
    at,        \* where each is
    path,      \* what it has become: "kv", "statement", "query"
    caller,    \* the callback, or the logic, that called it
    onIo,      \* those whose code runs on an IO thread of its own
    \* ---- attempt_context_impl
    errs,      \* kinds of the errors in errors_
    isDone, staged,
    told,      \* staged mutations that BEGIN WORK named to the query service
    \* ---- the ends of the attempt
    fin,       \* finalize, commit, handle_error, rollback
    user,      \* the thread of an explicit rollback
    result,    \* "none", or the mode in which the attempt was committed
    \* ---- surroundings
    expired, faults,
    \* ---- history
    begun,     \* times BEGIN WORK was sent
    causes     \* kinds of the errors operations or callbacks ended with

listVars == <<count, inFlight, allowed, mode, node, asleep>>
opVars   == <<at, path, caller, onIo>>
endVars  == <<fin, user, result>>
envVars  == <<expired, faults>>
vars == <<listVars, opVars, errs, isDone, staged, told, endVars, envVars, begun, causes>>

-----------------------------------------------------------------------------
(* Types *)

\* An operation: not called; in get_mode; about to be counted; telling its callback
\* that the attempt is over (check_if_done); entering query mode; waiting there for
\* in_flight_ or for the node; with BEGIN WORK in hand and in flight; with its own
\* request in hand and in flight; running its callback, with a result or with a
\* transaction_operation_failed; over.
Stages  == {"idle", "mode", "enter", "told", "want", "flight", "node", "begin", "begin_sent",
            "send", "sent", "callback", "errback", "done"}
Sending == {"sent", "begin_sent"}
Callbacks == {"callback", "errback"}
Running == Stages \ ({"idle", "done"} \cup Sending)

\* transaction_operation_failed: with retry; with rollback only; with no_rollback.
Kinds == {"retry", "plain", "fatal"}

TypeOK ==
    /\ count \in Int /\ inFlight \in Int
    /\ allowed \in BOOLEAN /\ node \in BOOLEAN /\ isDone \in BOOLEAN /\ expired \in BOOLEAN
    /\ mode \in {"KV", "QUERY"} /\ (node => mode = "QUERY")
    /\ asleep \subseteq {o \in Ops : at[o] = "flight"}
    /\ at \in [Ops -> Stages]
    /\ path \in [Ops -> {"none", "kv", "statement", "query"}]
    /\ caller \in [Ops -> Ops \cup {App}]
    /\ onIo \in SUBSET Ops
    /\ errs \in SUBSET Kinds /\ causes \in SUBSET Kinds
    /\ staged \in SUBSET Ops /\ told \in SUBSET Ops
    /\ fin \in {"logic", "commit_wait", "commit_mode", "commit_sent", "rb_wait", "rb_mode",
                "rb_sent", "over"}
    /\ user \in {"no", "mode", "rb_wait", "rb_mode", "rb_sent", "over"}
    /\ result \in {"none", "KV", "QUERY"}
    /\ faults \in Nat /\ begun \in Nat

Init ==
    /\ count = 0 /\ inFlight = 0 /\ allowed = TRUE
    /\ mode = "KV" /\ node = FALSE /\ asleep = {}
    /\ at = [o \in Ops |-> "idle"]
    /\ path = [o \in Ops |-> "none"]
    /\ caller = [o \in Ops |-> App]
    /\ onIo = {}
    /\ errs = {} /\ isDone = FALSE /\ staged = {} /\ told = {}
    /\ fin = "logic" /\ user = "no" /\ result = "none"
    /\ expired = FALSE /\ faults = 0 /\ begun = 0 /\ causes = {}

-----------------------------------------------------------------------------
(* Common to all operations *)

\* A caller is busy while the code of an operation it called runs on its thread.
Busy(c) == \E o \in Ops : caller[o] = c /\ o \notin onIo /\ at[o] \in Running

\* The logic and the callbacks of operations call operations.
Calls(c) == (IF c = App THEN fin = "logic" ELSE at[c] \in Callbacks) /\ ~Busy(c)

\* An answer is handled when an IO thread is free.
IoThreadFree == Cardinality(onIo) < IoThreads

CanFail == "failure" \in Faults /\ faults < MaxFaults

\* Mutant: nobody is notified.
NotNotified(flight) == asleep

\* The sleepers on cv_in_flight_ after a notification that depends on the count.
Notified(flight) == IF flight = 0 THEN {} ELSE asleep

\* op_completed_with_callback, op_completed_with_error: the error is cached, the
\* operation is no longer in flight, and its callback is called.
Complete(o, e) ==
    /\ at' = [at EXCEPT ![o] = IF e = {} THEN "callback" ELSE "errback"]
    /\ inFlight' = inFlight - 1
    /\ count' = count
    /\ asleep' = Notified(inFlight')
    /\ errs' = errs \cup e /\ causes' = causes \cup e

\* The operation goes on, and nothing is counted.
MoveTo(o, stage) ==
    /\ at' = [at EXCEPT ![o] = stage]
    /\ UNCHANGED <<count, inFlight, asleep, errs, causes>>

-----------------------------------------------------------------------------
(* A call: get, insert_raw, replace_raw, remove; query *)

\* get_mode decides between the key-value and the query form of the operation,
\* outside any count.
Call(o, c) ==
    /\ at[o] = "idle" /\ Calls(c)
    /\ path' = [path EXCEPT ![o] = IF o \in Queries    THEN "query"
                                   ELSE IF mode = "KV" THEN "kv"
                                   ELSE                     "statement"]
    /\ at' = [at EXCEPT ![o] = IF path'[o] = "statement" THEN "mode" ELSE "enter"]
    /\ caller' = [caller EXCEPT ![o] = c]
    /\ UNCHANGED <<listVars, onIo, errs, isDone, staged, told, endVars, envVars, begun, causes>>

\* Mutant: get_mode does not wait for the node.
ModeKnownAtOnce(o) ==
    /\ at[o] = "mode"
    /\ MoveTo(o, "enter")
    /\ UNCHANGED <<allowed, mode, node, path, caller, onIo, isDone, staged, told, endVars, envVars,
                   begun>>

\* get_mode waits on cv_query_ for the node.
ModeKnown(o) ==
    /\ at[o] = "mode" /\ node
    /\ MoveTo(o, "enter")
    /\ UNCHANGED <<allowed, mode, node, path, caller, onIo, isDone, staged, told, endVars, envVars,
                   begun>>

\* cache_error_async.  A call that comes too late is not counted; one after an
\* error is told so; one after the end is told so by check_if_done, which does not
\* keep it from going on.
Enter(o) ==
    /\ at[o] = "enter"
    /\ \/ /\ ~allowed
          /\ MoveTo(o, "done")
       \/ /\ allowed
          /\ count' = count + 1
          /\ CASE errs # {} ->
                    /\ at' = [at EXCEPT ![o] = "errback"]
                    /\ asleep' = Notified(inFlight)
                    /\ UNCHANGED <<inFlight, errs, causes>>
               [] errs = {} /\ isDone /\ path[o] # "statement" ->
                    /\ at' = [at EXCEPT ![o] = "told"]
                    /\ asleep' = Notified(inFlight)
                    /\ errs' = {"fatal"} /\ causes' = causes \cup {"fatal"}
                    /\ UNCHANGED inFlight
               [] OTHER ->
                    /\ at' = [at EXCEPT ![o] = IF path[o] = "query" THEN "want" ELSE "send"]
                    /\ inFlight' = inFlight + 1
                    /\ UNCHANGED <<asleep, errs, causes>>
    /\ UNCHANGED <<allowed, mode, node, path, caller, onIo, isDone, staged, told, endVars, envVars,
                   begun>>

\* The callback check_if_done has called returns, and the operation goes on.
GoesOn(o) ==
    /\ at[o] = "told"
    /\ at' = [at EXCEPT ![o] = IF path[o] = "query" THEN "want" ELSE "send"]
    /\ count' = count - 1
    /\ asleep' = Notified(inFlight)
    /\ UNCHANGED <<inFlight, allowed, mode, node, path, caller, onIo, errs, isDone, staged, told,
                   endVars, envVars, begun, causes>>

-----------------------------------------------------------------------------
(* set_query_mode and BEGIN WORK *)

\* Mutants: the operation does not count as in flight again; the mode is not set.
TakeModeUncounted(o, flight) ==
    /\ mode' = "QUERY"
    /\ inFlight' = flight
    /\ at' = [at EXCEPT ![o] = "begin"]
    /\ UNCHANGED asleep
TakeNoMode(o, flight) ==
    /\ inFlight' = flight + 1
    /\ at' = [at EXCEPT ![o] = "begin"]
    /\ UNCHANGED <<asleep, mode>>

\* The mode changes while nothing but this query is in flight.
TakeMode(o, flight) ==
    /\ mode' = "QUERY"
    /\ inFlight' = flight + 1
    /\ at' = [at EXCEPT ![o] = "begin"]
    /\ UNCHANGED asleep

SetQueryMode(o) ==
    /\ at[o] = "want"
    /\ \/ mode = "KV" /\ inFlight = 1 /\ TakeMode(o, 0)
       \/ /\ mode = "KV" /\ inFlight # 1
          /\ inFlight' = inFlight - 1
          /\ asleep' = asleep \cup {o}
          /\ at' = [at EXCEPT ![o] = "flight"]
          /\ UNCHANGED mode
       \/ /\ mode = "QUERY"
          /\ inFlight' = inFlight - 1
          /\ at' = [at EXCEPT ![o] = "node"]
          /\ UNCHANGED <<asleep, mode>>
    /\ UNCHANGED <<count, allowed, node, path, caller, onIo, errs, isDone, staged, told, endVars,
                   envVars, begun, causes>>

\* Mutant: the mode is not looked at again after the wait.
WakeWithoutLooking(o) ==
    /\ at[o] = "flight" /\ o \notin asleep
    /\ \/ inFlight # 0 /\ asleep' = asleep \cup {o} /\ UNCHANGED <<inFlight, mode, at>>
       \/ inFlight = 0 /\ TakeMode(o, 0)
    /\ UNCHANGED <<count, allowed, node, path, caller, onIo, errs, isDone, staged, told, endVars,
                   envVars, begun, causes>>

\* A notified sleeper looks at in_flight_, then at the mode again.
Wake(o) ==
    /\ at[o] = "flight" /\ o \notin asleep
    /\ \/ inFlight # 0 /\ asleep' = asleep \cup {o} /\ UNCHANGED <<inFlight, mode, at>>
       \/ inFlight = 0 /\ mode = "KV" /\ TakeMode(o, 0)
       \/ /\ inFlight = 0 /\ mode = "QUERY"
          /\ at' = [at EXCEPT ![o] = "node"]
          /\ UNCHANGED <<asleep, inFlight, mode>>
    /\ UNCHANGED <<count, allowed, node, path, caller, onIo, errs, isDone, staged, told, endVars,
                   envVars, begun, causes>>

\* Another query has begun the work and has set the node.
NodeKnown(o) ==
    /\ at[o] = "node" /\ node
    /\ at' = [at EXCEPT ![o] = "send"]
    /\ inFlight' = inFlight + 1
    /\ UNCHANGED <<count, allowed, mode, node, asleep, path, caller, onIo, errs, isDone, staged,
                   told, endVars, envVars, begun, causes>>

\* query_begin_work names the staged mutations.  When the time is up wrap_query
\* answers at once with an empty response, and the node is set to an empty string.
BeginWork(o) ==
    /\ at[o] = "begin"
    /\ told' = staged
    /\ \/ expired /\ Complete(o, {"fatal"}) /\ UNCHANGED begun
       \/ ~expired /\ begun' = begun + 1 /\ MoveTo(o, "begin_sent")
    /\ UNCHANGED <<allowed, mode, node, path, caller, onIo, isDone, staged, endVars, envVars>>

\* What an operation may be told when a statement fails: a cached error, or a
\* query_exception, which is not cached (handle_query_error).
Cached   == {{k} : k \in Kinds}
Failures == Cached \cup {{}}

\* A failure comes with the name of the node that served it, or without.
BeginAnswer(o) ==
    /\ at[o] = "begin_sent" /\ IoThreadFree
    /\ onIo' = onIo \cup {o}
    /\ \/ node' = TRUE /\ MoveTo(o, "send") /\ UNCHANGED faults
       \/ /\ CanFail /\ faults' = faults + 1
          /\ node' \in {TRUE} \cup IF "no_node" \in Faults THEN {FALSE} ELSE {}
          /\ \E e \in Failures : Complete(o, e)
    /\ UNCHANGED <<allowed, mode, path, caller, isDone, staged, told, endVars, expired, begun>>

-----------------------------------------------------------------------------
(* The request of the operation itself *)

\* wrap_query looks at the clock first; so does a key-value operation.
Send(o) ==
    /\ at[o] = "send"
    /\ \/ /\ ~expired
          /\ MoveTo(o, "sent")
          /\ onIo' = onIo \ {o}
       \/ /\ expired
          /\ Complete(o, IF path[o] = "kv" THEN {"plain"} ELSE {"fatal"})
          /\ UNCHANGED onIo
    /\ UNCHANGED <<allowed, mode, node, path, caller, isDone, staged, told, endVars, envVars, begun>>

\* get passes on that there is no such document, insert that there is one already;
\* replace and remove make everything a transaction_operation_failed, and a CAS
\* mismatch or a missing document one that asks for a retry.
GetFailures     == Failures
InsertFailures  == Failures
ReplaceFailures == Cached
RemoveFailures  == Cached

FailuresOf(o) ==
    IF path[o] = "kv" THEN Cached
    ELSE CASE o \in Gets     -> GetFailures
           [] o \in Inserts  -> InsertFailures
           [] o \in Replaces -> ReplaceFailures
           [] o \in Removes  -> RemoveFailures
           [] o \in Queries  -> Failures

Answer(o) ==
    /\ at[o] = "sent" /\ IoThreadFree
    /\ onIo' = onIo \cup {o}
    /\ \/ /\ Complete(o, {})
          /\ staged' = IF path[o] = "kv" /\ o \notin Gets THEN staged \cup {o} ELSE staged
          /\ UNCHANGED faults
       \/ /\ CanFail /\ faults' = faults + 1
          /\ \E e \in FailuresOf(o) : Complete(o, e)
          /\ UNCHANGED staged
    /\ UNCHANGED <<allowed, mode, node, path, caller, isDone, told, endVars, expired, begun>>

\* decrement_ops, once the callback is over.
CallbackOver(o) ==
    /\ at[o] \in Callbacks /\ ~Busy(o)
    /\ allowed
    /\ at' = [at EXCEPT ![o] = "done"]
    /\ onIo' = onIo \ {o}
    /\ count' = count - 1
    /\ asleep' = Notified(inFlight)
    /\ UNCHANGED <<inFlight, allowed, mode, node, path, caller, isDone, staged, told, endVars,
                   envVars, begun>>

CallbackReturns(o) == CallbackOver(o) /\ UNCHANGED <<errs, causes>>

\* handle_err_from_callback throws the exception_ptr, so that whatever left the
\* callback is recorded as FAIL_OTHER: an exception of the callback's own, or the
\* error the callback was given and has thrown on.
CallbackThrows(o) ==
    /\ CallbackOver(o)
    /\ errs' = errs \cup {"plain"}
    /\ causes' \in {causes \cup {"plain"}} \cup IF at[o] = "errback" THEN {causes} ELSE {}

-----------------------------------------------------------------------------
(* The ends of the attempt *)

\* handle_error: no rollback after an error that forbids it.
AfterErrors(list) == IF "fatal" \in list THEN "over" ELSE "rb_wait"

\* finalize; an exception of the logic leads to a rollback at once.
LogicReturns ==
    /\ fin = "logic" /\ ~Busy(App)
    /\ fin' \in {"rb_wait", IF errs # {}   THEN AfterErrors(errs)
                            ELSE IF isDone THEN "over"
                            ELSE                "commit_wait"}
    /\ UNCHANGED <<listVars, opVars, errs, isDone, staged, told, user, result, envVars, begun, causes>>

\* Mutant: the count is not waited for.
CommitBlockAtOnce ==
    /\ fin = "commit_wait"
    /\ allowed' = FALSE
    /\ fin' = IF errs # {} THEN AfterErrors(errs) ELSE "commit_mode"
    /\ UNCHANGED <<count, inFlight, mode, node, asleep, opVars, errs, isDone, staged, told, user,
                   result, envVars, begun, causes>>

\* commit: wait_and_block_ops, existing_error.
CommitBlock ==
    /\ fin = "commit_wait" /\ count = 0
    /\ allowed' = FALSE
    /\ fin' = IF errs # {} THEN AfterErrors(errs) ELSE "commit_mode"
    /\ UNCHANGED <<count, inFlight, mode, node, asleep, opVars, errs, isDone, staged, told, user,
                   result, envVars, begun, causes>>

\* commit in key-value mode (module Attempt), or commit_with_query.
Commit ==
    /\ fin = "commit_mode"
    /\ \/ /\ mode = "KV"
          /\ fin' = "over" /\ isDone' = TRUE
          /\ result' = IF isDone THEN "none" ELSE "KV"
       \/ /\ mode = "QUERY" /\ node
          /\ fin' = IF expired THEN "over" ELSE "commit_sent"
          /\ isDone' = (isDone \/ expired)
          /\ UNCHANGED result
    /\ UNCHANGED <<listVars, opVars, errs, staged, told, user, envVars, begun, causes>>

\* Every failure but one that the service itself describes forbids a rollback.
CommitAnswer ==
    /\ fin = "commit_sent" /\ IoThreadFree
    /\ isDone' = TRUE
    /\ \/ fin' = "over" /\ result' = "QUERY" /\ UNCHANGED faults
       \/ CanFail /\ faults' = faults + 1 /\ fin' \in {"over", "rb_wait"} /\ UNCHANGED result
    /\ UNCHANGED <<listVars, opVars, errs, staged, told, user, expired, begun, causes>>

\* rollback, on either thread: wait_and_block_ops; then in key-value mode module
\* Attempt, or rollback_with_query.
RollbackBlock(e) == e = "rb_wait" /\ count = 0 /\ allowed' = FALSE

RollbackMode(e, next) ==
    /\ e = "rb_mode"
    /\ \/ mode = "KV" /\ next = "over" /\ isDone' = TRUE
       \/ /\ mode = "QUERY" /\ node
          /\ next = IF expired THEN "over" ELSE "rb_sent"
          /\ isDone' = (isDone \/ expired)

RollbackAnswer(e) == e = "rb_sent" /\ IoThreadFree /\ isDone' = TRUE

Rollback ==
    /\ \/ RollbackBlock(fin) /\ fin' = "rb_mode" /\ UNCHANGED isDone
       \/ RollbackMode(fin, fin') /\ UNCHANGED allowed
       \/ RollbackAnswer(fin) /\ fin' = "over" /\ UNCHANGED allowed
    /\ UNCHANGED <<count, inFlight, mode, node, asleep, opVars, errs, staged, told, user, result,
                   envVars, begun, causes>>

\* rollback(cb): in query mode it neither waits for the operations nor blocks them.
ExplicitRollback(c) ==
    /\ Explicit /\ Calls(c) /\ user = "no"
    /\ user' = "mode"
    /\ UNCHANGED <<listVars, opVars, errs, isDone, staged, told, fin, result, envVars, begun, causes>>

UserRollback ==
    /\ \/ user = "mode" /\ mode = "KV" /\ user' = "rb_wait" /\ UNCHANGED <<allowed, isDone>>
       \/ /\ user = "mode" /\ mode = "QUERY"
          /\ RollbackMode("rb_mode", user') /\ UNCHANGED allowed
       \/ RollbackBlock(user) /\ user' = "rb_mode" /\ UNCHANGED isDone
       \/ RollbackMode(user, user') /\ UNCHANGED allowed
       \/ RollbackAnswer(user) /\ user' = "over" /\ UNCHANGED allowed
    /\ UNCHANGED <<count, inFlight, mode, node, asleep, opVars, errs, staged, told, fin, result,
                   envVars, begun, causes>>

Expire ==
    /\ "expiry" \in Faults /\ ~expired
    /\ expired' = TRUE
    /\ UNCHANGED <<listVars, opVars, errs, isDone, staged, told, endVars, faults, begun, causes>>

-----------------------------------------------------------------------------

OpStep(o) ==
    \/ ModeKnown(o) \/ Enter(o) \/ GoesOn(o) \/ SetQueryMode(o) \/ Wake(o) \/ NodeKnown(o)
    \/ BeginWork(o) \/ BeginAnswer(o) \/ Send(o) \/ Answer(o)
    \/ CallbackReturns(o) \/ CallbackThrows(o)

EndStep == LogicReturns \/ CommitBlock \/ Commit \/ CommitAnswer \/ Rollback

Next ==
    \/ \E o \in Ops : OpStep(o) \/ (\E c \in Ops \cup {App} : Call(o, c))
    \/ EndStep \/ UserRollback
    \/ \E c \in Ops \cup {App} : ExplicitRollback(c)
    \/ Expire

Spec == Init /\ [][Next]_vars

\* Threads go on, requests are answered, the logic and the callbacks return.
Fairness == WF_vars(EndStep) /\ WF_vars(UserRollback) /\ \A o \in Ops : WF_vars(OpStep(o))

FairSpec == Spec /\ Fairness

-----------------------------------------------------------------------------
(* Properties *)

\* The stages in which an operation is counted, and in which it is in flight.
Counted  == {o \in Ops : at[o] \in Stages \ {"idle", "mode", "enter", "done"}}
InFlight == {o \in Counted : at[o] \notin Callbacks \cup {"flight", "node", "told"}}

\* Both counts of waitable_op_list are those of the operations, whichever way each
\* ends and however many of them race to change the mode, as long as the application
\* does not call rollback(cb): after that check_if_done makes the counts go wrong.
CountsAreExact ==
    user = "no" => /\ count = Cardinality(Counted)
                   /\ inFlight = Cardinality(InFlight)

\* Once commit or rollback has blocked the operations none runs, calls back or
\* has a request in flight, so that commit reads errors_ and the staged mutations
\* undisturbed (wait_and_block_ops), again unless rollback(cb) was called.
BlockedIsQuiet == ~allowed /\ user = "no" => \A o \in Ops : at[o] \in {"idle", "mode", "enter", "done"}

\* Racing queries send BEGIN WORK once between them.
BeginsOnce == begun <= 1

\* No statement of the transaction goes out before BEGIN WORK has named the node
\* that every other has to go to.
StatementsHaveNode == \A o \in Ops : at[o] \in {"send", "sent"} /\ path[o] # "kv" => node

\* In query mode, without a node and without a BEGIN WORK that may yet name one.
NodeNeverNamed ==
    mode = "QUERY" /\ ~node /\ \A o \in Ops : at[o] \notin {"begin", "begin_sent"}

\* Every attempt comes to an end, except when BEGIN WORK has failed without naming a
\* node, as reset_query_mode is never called and whoever needs the mode waits for
\* ever, or when rollback(cb) was called and the counts are wrong.
AttemptEnds == <>(fin = "over") \/ <>[]NodeNeverNamed \/ <>(user # "no")

\* async_attempt_context::commit: "Commits the transaction.  All staged replaces,
\* inserts and removals will be written."  The query service knows of the
\* mutations that BEGIN WORK has named to it.
CommitCoversStaged == result = "QUERY" => staged \subseteq told

\* "assert(count_ >= 0)" (change_count).
CountsNotNegative == count >= 0

\* handle_err_from_callback means to swallow the error of an operation that a
\* callback throws on: "presumably that op called op_completed_with_error already".
ErrorsHaveCauses == errs \subseteq causes

\* "when begin work errors out, it is fatal, so reset to kv mode here, allowing
\* rollback to function properly" (reset_query_mode).
RollbackEnds == (fin \in {"rb_wait", "rb_mode"}) ~> (fin = "over")
=============================================================================
