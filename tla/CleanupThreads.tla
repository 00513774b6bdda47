---------------------------- MODULE CleanupThreads ----------------------------
(***************************************************************************)
(* The threads of one transactions object and how they stop: the           *)
(* constructor and close of transactions and of transactions_cleanup,      *)
(* attempts_loop with its queue, lost_attempts_loop with one worker per    *)
(* bucket, get_and_open_buckets, remove_client_record_from_all_buckets.    *)
(*                                                                         *)
(* What is done to an attempt is in Cleanup, how clients share the records *)
(* of a bucket in ClientRecord.  Here it matters who runs when, and where  *)
(* the record of this client is left.                                      *)
(***************************************************************************)
EXTENDS Naturals, FiniteSets, Sequences

CONSTANTS
    Buckets,
    Attempts,   \* attempts that fail and are handed to the cleanup
    Listings,   \* what bucket_get_all may answer: {} also stands for a failed request
    NumAtrs,    \* bound: records a worker goes through
    Races,      \* the answers of one call may all come before the caller waits
    Spurious,   \* a condition variable may wake without a notification
    Faults      \* requests about a bucket, and the creation of a thread, may fail

ASSUME CleanupThreadsAssumption ==
    /\ IsFiniteSet(Buckets) /\ Listings \subseteq SUBSET Buckets
    /\ NumAtrs \in Nat
    /\ {Races, Spurious, Faults} \subseteq BOOLEAN

VARIABLES
    \* ---- transactions, transactions_cleanup
    app,       \* the thread that constructs and closes
    config,    \* cleanup_client_attempts, cleanup_lost_attempts
    running,   \* running_
    queue,     \* atr_queue_, oldest first
    \* ---- cleanup_thr_
    loop,      \* where attempts_loop is
    taken,     \* the entry it has popped: a sequence of at most one
    \* ---- lost_attempts_thr_ and its workers
    lost,      \* where lost_attempts_loop is
    final,     \* it has left its loop, to remove the client record
    worker,    \* where the worker of each bucket is
    left,      \* records each has yet to look at
    \* ---- one call of get_and_open_buckets
    count,
    names,     \* bucket_names
    listing,   \* the request for the list of buckets is open
    opening,   \* buckets asked for and not answered
    \* ---- the service
    record,    \* buckets whose client record names this client
    \* ---- history
    added,     \* attempts ever queued
    cleaned,   \* attempts cleaned, well or not
    spared     \* buckets the final removal has not come to, or given up

appVars    == <<app, config, running>>
loopVars   == <<loop, taken, cleaned>>
workerVars == <<worker, left>>
callVars   == <<count, names, listing, opening>>
vars == <<appVars, queue, added, loopVars, lost, final, workerVars, callVars, record, spared>>

TypeOK ==
    /\ app \in {"constructing", "open", "stopping", "joining", "closed"}
    /\ config \in [client : BOOLEAN, lost : BOOLEAN] /\ running \in BOOLEAN
    /\ queue \in Seq(Attempts) /\ taken \in Seq(Attempts) /\ Len(taken) <= 1
    /\ loop \in {"none", "wait", "pop", "check", "clean", "over"}
    /\ lost \in {"none", "test", "ask", "sent", "wait", "spawn", "join", "pause", "remove", "over"}
    /\ final \in BOOLEAN
    /\ worker \in [Buckets -> {"none", "start", "record", "atrs", "over"}]
    /\ left \in [Buckets -> 0..NumAtrs]
    /\ count \in 0..Cardinality(Buckets) + 1
    /\ names \subseteq Buckets /\ opening \subseteq Buckets /\ listing \in BOOLEAN
    /\ Cardinality(opening) <= count
    /\ record \subseteq Buckets /\ spared \subseteq Buckets
    /\ added \subseteq Attempts /\ cleaned \subseteq added

\* The threads are started before the metadata bucket is opened.
Init ==
    /\ config \in [client : BOOLEAN, lost : BOOLEAN]
    /\ app = "constructing"
    /\ running = (config.client \/ config.lost)
    /\ loop = IF config.client THEN "wait" ELSE "none"
    /\ lost = IF config.lost THEN "test" ELSE "none"
    /\ final = FALSE
    /\ queue = <<>> /\ taken = <<>> /\ added = {} /\ cleaned = {}
    /\ worker = [b \in Buckets |-> "none"] /\ left = [b \in Buckets |-> 0]
    /\ count = 1 /\ names = {} /\ listing = FALSE /\ opening = {}
    /\ record = {} /\ spared = Buckets

-----------------------------------------------------------------------------
(* The application *)

\* The bucket of custom_metadata_collection is open, or none is configured; if it
\* cannot be opened the constructor throws, and what it has made is destroyed.
Constructed ==
    /\ app = "constructing"
    /\ app' \in {"open"} \cup (IF Faults THEN {"stopping"} ELSE {})
    /\ UNCHANGED <<config, running, queue, added, loopVars, lost, final, workerVars, callVars, record, spared>>

\* add_attempt.  Transactions may still be running when close is called.
AddAttempt(a) ==
    /\ app # "constructing" /\ a \notin added /\ config.client
    /\ queue' = Append(queue, a) /\ added' = added \cup {a}
    /\ UNCHANGED <<appVars, loopVars, lost, final, workerVars, callVars, record, spared>>

CallsClose ==
    /\ app = "open" /\ app' = "stopping"
    /\ UNCHANGED <<config, running, queue, added, loopVars, lost, final, workerVars, callVars, record, spared>>

\* close: running_ is cleared and cv_ notified under mutex_.
Stop ==
    /\ app = "stopping" /\ app' = "joining" /\ running' = FALSE
    /\ UNCHANGED <<config, queue, added, loopVars, lost, final, workerVars, callVars, record, spared>>

\* Mutant: only one of the two threads is joined.
JoinedLost == lost \in {"none", "over"}

Joined == loop \in {"none", "over"} /\ lost \in {"none", "over"}

Joins ==
    /\ app = "joining" /\ Joined /\ app' = "closed"
    /\ UNCHANGED <<config, running, queue, added, loopVars, lost, final, workerVars, callVars, record, spared>>

-----------------------------------------------------------------------------
(* attempts_loop *)

LoopUnchanged == UNCHANGED <<appVars, added, lost, final, workerVars, callVars, record, spared>>

\* interruptable_wait: by timeout, or because running_ has changed.
LoopWakes ==
    /\ loop = "wait" /\ loop' = IF running THEN "pop" ELSE "over"
    /\ UNCHANGED <<queue, taken, cleaned>> /\ LoopUnchanged

\* Mutant: an empty queue ends the loop.
PopOrEnd ==
    /\ loop = "pop"
    /\ IF queue = <<>> THEN loop' = "over" /\ UNCHANGED <<queue, taken>>
       ELSE loop' = "check" /\ taken' = <<Head(queue)>> /\ queue' = Tail(queue)
    /\ UNCHANGED cleaned /\ LoopUnchanged

\* min_start_time_ of a queued entry is the time it was queued at: it is ready at once.
Pop ==
    /\ loop = "pop"
    /\ IF queue = <<>> THEN loop' = "wait" /\ UNCHANGED <<queue, taken>>
       ELSE loop' = "check" /\ taken' = <<Head(queue)>> /\ queue' = Tail(queue)
    /\ UNCHANGED cleaned /\ LoopUnchanged

\* An entry popped while the loop is stopped is left to the search for lost attempts.
Check ==
    /\ loop = "check" /\ loop' = IF running THEN "clean" ELSE "over"
    /\ taken' = IF running THEN taken ELSE <<>>
    /\ UNCHANGED <<queue, cleaned>> /\ LoopUnchanged

\* Whatever clean() throws is caught.
Clean ==
    /\ loop = "clean" /\ loop' = "pop"
    /\ cleaned' = cleaned \cup {Head(taken)} /\ taken' = <<>>
    /\ UNCHANGED queue /\ LoopUnchanged

LoopStep == LoopWakes \/ Pop \/ Check \/ Clean

-----------------------------------------------------------------------------
(* get_and_open_buckets *)

LostOnly == UNCHANGED <<appVars, queue, added, loopVars, record, spared>>

\* The request.
Asks ==
    /\ lost = "ask" /\ lost' = "sent"
    /\ count' = 1 /\ names' = {} /\ listing' = TRUE /\ opening' = {}
    /\ UNCHANGED <<final, workerVars>> /\ LostOnly

\* The wait, which has no predicate.
Waits ==
    /\ lost = "sent" /\ lost' = "wait"
    /\ UNCHANGED <<final, workerVars, callVars>> /\ LostOnly

InCall == lost \in {"sent", "wait"}

\* Mutant: count stays what it was.
ListedUncounted ==
    /\ listing /\ InCall /\ (lost = "sent" => Races)
    /\ listing' = FALSE /\ \E buckets \in Listings : opening' = buckets
    /\ UNCHANGED <<count, names, lost, final, workerVars>> /\ LostOnly

Listed ==
    /\ listing /\ InCall /\ (lost = "sent" => Races)
    /\ listing' = FALSE
    /\ \E buckets \in Listings : count' = Cardinality(buckets) /\ opening' = buckets
    /\ UNCHANGED <<names, lost, final, workerVars>> /\ LostOnly

\* Where the caller goes on.
Returned == IF final THEN "remove" ELSE "spawn"

\* Mutant: only a bucket that could be opened is counted.
OpenedIfWell(b) ==
    /\ b \in opening /\ InCall
    /\ \/ names' = names \cup {b} /\ count' = count - 1
       \/ Faults /\ UNCHANGED <<names, count>>
    /\ opening' = opening \ {b}
    /\ lost' = IF count' = 0 /\ lost = "wait" THEN Returned ELSE lost
    /\ UNCHANGED <<final, listing, workerVars>> /\ LostOnly

\* The last answer notifies; a caller that does not wait yet is not woken by it.
Opened(b) ==
    /\ b \in opening /\ InCall
    /\ names' \in {names \cup {b}} \cup (IF Faults THEN {names} ELSE {})
    /\ opening' = opening \ {b} /\ count' = count - 1
    /\ lost' = IF count' = 0 /\ lost = "wait" THEN Returned ELSE lost
    /\ UNCHANGED <<final, listing, workerVars>> /\ LostOnly

WakesSpuriously ==
    /\ Spurious /\ lost = "wait" /\ lost' = Returned
    /\ UNCHANGED <<final, workerVars, callVars>> /\ LostOnly

\* An answer that comes when its call has returned writes to what was the stack of
\* that call.  What this does is undefined; here, nothing.
TooLate ==
    /\ listing \/ opening # {}
    /\ ~InCall
    /\ listing' = FALSE /\ opening' = {}
    /\ UNCHANGED <<count, names, lost, final, workerVars>> /\ LostOnly

-----------------------------------------------------------------------------
(* lost_attempts_loop *)

\* A turn of the loop, or its end.
Test ==
    /\ lost = "test" /\ lost' = "ask" /\ final' = ~running
    /\ UNCHANGED <<workerVars, callVars>> /\ LostOnly

\* If a thread cannot be created the loop waits a while.  (When it is not the first
\* of them, std::terminate ends the program: not modelled.)
Spawn ==
    /\ lost = "spawn"
    /\ \/ /\ lost' = "join"
          /\ worker' = [b \in Buckets |-> IF b \in names THEN "start" ELSE "none"]
       \/ Faults /\ names # {} /\ lost' = "pause" /\ UNCHANGED worker
    /\ UNCHANGED <<final, left, callVars>> /\ LostOnly

Pause ==
    /\ lost = "pause" /\ lost' = "test"
    /\ UNCHANGED <<final, workerVars, callVars>> /\ LostOnly

\* Mutant: the loop does not wait for its workers.
WorkersStarted == \A b \in names : worker[b] # "none"

WorkersDone == \A b \in Buckets : worker[b] \in {"none", "over"}

JoinWorkers ==
    /\ lost = "join" /\ WorkersDone /\ lost' = "test"
    /\ UNCHANGED <<final, workerVars, callVars>> /\ LostOnly

\* remove_client_record_from_all_buckets: the buckets one by one, each until it is
\* done or 500 ms are over.
Remove ==
    /\ lost = "remove"
    /\ \/ /\ names = {} /\ lost' = "over"
          /\ UNCHANGED <<names, record, spared>>
       \/ \E b \in names :
            /\ names' = names \ {b}
            /\ \/ record' = record \ {b} /\ spared' = spared \ {b}
               \/ Faults /\ record' \in {record, record \ {b}} /\ UNCHANGED spared
            /\ UNCHANGED lost
    /\ UNCHANGED <<final, count, listing, opening, appVars, queue, added, loopVars, workerVars>>

LostStep == Test \/ Asks \/ Waits \/ Spawn \/ Pause \/ JoinWorkers \/ Remove

-----------------------------------------------------------------------------
(* clean_lost_attempts_in_bucket *)

WorkerOnly == UNCHANGED <<appVars, queue, added, loopVars, lost, final, callVars, spared>>

WorkerStarts(b) ==
    /\ worker[b] = "start"
    /\ worker' = [worker EXCEPT ![b] = IF running THEN "record" ELSE "over"]
    /\ UNCHANGED <<left, record>> /\ WorkerOnly

\* get_active_clients adds this client to the record, unless an operator's override
\* is active; an error of it ends the worker.
WorkerJoins(b) ==
    /\ worker[b] = "record"
    /\ record' \in {record, record \cup {b}}
    /\ \/ /\ worker' = [worker EXCEPT ![b] = "atrs"]
          /\ left' = [left EXCEPT ![b] = NumAtrs]
       \/ Faults /\ worker' = [worker EXCEPT ![b] = "over"] /\ UNCHANGED left
    /\ WorkerOnly

\* handle_atr_cleanup of the next record; its errors are logged.
WorkerCleans(b) ==
    /\ worker[b] = "atrs"
    /\ IF left[b] = 0 \/ ~running
       THEN worker' = [worker EXCEPT ![b] = "over"] /\ UNCHANGED left
       ELSE left' = [left EXCEPT ![b] = @ - 1] /\ UNCHANGED worker
    /\ UNCHANGED record /\ WorkerOnly

WorkerStep(b) == WorkerStarts(b) \/ WorkerJoins(b) \/ WorkerCleans(b)

-----------------------------------------------------------------------------

Next ==
    \/ Constructed \/ CallsClose \/ Stop \/ Joins
    \/ \E a \in Attempts : AddAttempt(a)
    \/ LoopStep \/ LostStep
    \/ Listed \/ WakesSpuriously \/ TooLate
    \/ \E b \in Buckets : Opened(b) \/ WorkerStep(b)

Spec == Init /\ [][Next]_vars

\* Threads run and requests are answered.  Nobody need ever call close.
FairSpec ==
    /\ Spec
    /\ WF_vars(Constructed) /\ WF_vars(Stop) /\ WF_vars(Joins)
    /\ WF_vars(LoopStep) /\ WF_vars(LostStep) /\ WF_vars(Listed)
    /\ \A b \in Buckets : WF_vars(Opened(b)) /\ WF_vars(WorkerStep(b))

-----------------------------------------------------------------------------
(* Safety *)

\* When the thread that searches for lost attempts is over no worker of it is left,
\* and the client is in no client record but where the final removal could not be
\* done: nobody puts it back (lost_attempts_loop).
LostEndsClean ==
    lost = "over" =>
        /\ record \subseteq spared
        /\ \A b \in Buckets : worker[b] \in {"none", "over"}

\* No attempt is cleaned, and no client record changed, after close has returned.
ClosedIsQuiet == [][app = "closed" => UNCHANGED <<cleaned, taken, record>>]_vars

\* "non-zero so we know not to stop waiting immediately": get_and_open_buckets returns
\* when all buckets are answered for, and no answer comes to a call that is over.
AnswersFindTheirCall == listing \/ opening # {} => InCall

-----------------------------------------------------------------------------
(* Liveness *)

\* An attempt in the queue is cleaned, unless the object is closed first.
QueuedIsCleaned == \A a \in Attempts : (a \in added) ~> (a \in cleaned \/ ~running)

\* "Shut down the transactions object": close returns.
CloseReturns == (app = "stopping") ~> (app = "closed")

\* All answers were there before the wait began, or there is no bucket to open.
Unwoken == lost = "wait" /\ ~listing /\ opening = {} /\ count = 0

\* Only that keeps close from returning: neither failed requests, nor threads that
\* cannot be created, nor waking up too early do (close, lost_attempts_loop).
CloseReturnsIfWoken == (app = "stopping") ~> (app = "closed" \/ Unwoken)
=============================================================================
