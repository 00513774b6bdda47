# couchbase-transactions-cxx, specified and checked

TLA+ modules that model the multi-document ACID transactions library in `src/`,
TLC configurations that check them on small instances, and theorems about them
that TLAPS checks for every instance.

## 1. The system

The library lets an application change several documents of a cluster atomically.
There is no server-side coordinator: clients cooperate through two kinds of documents
every one of them can read and write.

* An **active transaction record (ATR)** has one *entry* per attempt: its status and
  the lists of the documents it touches.
* A **staged mutation** is kept in the extended attributes (`txn`) of the document
  itself, next to its body, with the ids of the attempt and of its ATR. An insert
  is staged in a *tombstone*: a document without a body.

An attempt stages its mutations, marks its entry as committed, then *unstages*: it
writes each staged mutation to the body. To roll back it marks the entry as aborted
and removes the staged mutations. When a client dies on the way, *cleanup* of some
client is to finish what the entry says.

### 1.1 Inventory

Paths are below `src/src/transactions/` unless they start with `include/`, which is
`src/include/couchbase/transactions/`.

| Component | State | Operations | What makes it correct |
|---|---|---|---|
| Attempt (`attempt_context_impl.*`) | state, ATR id, staged mutations, errors, overtime flag, operation list | get, insert, replace, remove, query, commit, rollback | writes after the commit point only, what was staged only; a rollback undoes its own staging and nobody else's; every operation calls back |
| Staged mutation queue (`staged_mutation.*`) | one mutation per document | add, remove_any, find_*, extract_to, commit, rollback | agrees with what is staged in the store |
| Operation list (`waitable_op_list.hxx`) | count, in-flight count, admission flag, mode, query node | increment, decrement, wait_and_block_ops, set_query_mode, get_mode | nothing starts after the block; nobody waits for ever |
| Errors (`error_list.hxx`, `include/internal/exceptions_internal.hxx`, `exceptions.cxx`) | list of `transaction_operation_failed` | push_back, do_throw, merge_errors, get_final_exception | the merged error never allows a rollback or a retry one of its parts forbids |
| Run loop (`transactions.cxx`, `transaction_context.cxx`) | current attempt, elapsed time, back-off | run, handle_error, finalize, new_attempt_context | the outcome reported agrees with what was decided; a retry starts only after the attempt before it is over |
| Attempt cleanup (`atr_cleanup_entry.cxx`) | - | clean, commit_docs, remove_docs, remove_txn_links, cleanup_entry | finishes what the entry says, touches no other attempt's documents, can be run by several clients |
| Threads of the cleanup (`transactions_cleanup.cxx`, `transactions.cxx`) | queue ordered by start time, `running_`, two threads and a worker for each bucket | add_attempt, attempts_loop, lost_attempts_loop, close | what is queued is cleaned, close returns, and after it nothing goes on |
| Lost attempts, client records (`transactions_cleanup.cxx`) | the client record in each bucket | create, heartbeat and expire others, remove; the division of the ATRs | each ATR is looked at by somebody |
| ATR reading (`active_transaction_record.*`, `include/internal/atr_entry.hxx`) | - | map_to_atr, parse_mutation_cas, has_expired | an entry is expired only when its time is over |
| Reads (`transaction_get_result.*`, `do_get`) | - | get, get_optional | own writes are seen; a rival's staged content only if the rival has committed |
| Forward compatibility (`forward_compat.hxx`) | - | check | goes on only with what this version of the protocol can deal with |
| Retry helpers (`include/internal/utils.hxx`) | - | retry_op*, exp_delay, get_and_open_buckets | bounds on tries and on delay |
| Query mode (`attempt_context_impl.cxx:677-1204`) | the node that runs the queries | begin_work, query, KV over query | enters once, after KV operations in flight |
| Example game server (`src/examples/game_server.cxx`) | a monster and a player, two documents; threads that hit | player_hits_monster | hits that run at once count as if they came one after the other |

### 1.2 Interaction and the hard parts

An operation is a chain of callbacks on the threads of the SDK: rival check → choice of
the ATR and write of the entry → staging → callback of the application, which may start
further operations. With the asynchronous API several chains run at once and share the
attempt's state. `commit` and `rollback` run on one further thread that waits until the
operation list is empty, blocks it, and then works alone. The thread of `run` calls
them through `finalize` and `handle_error`, and begins the next attempt. Two threads of
each client, and one more for each bucket, clean up behind it. What is shared with the
world outside is the store: other attempts, writers outside any transaction, cleanup of
any client, and the client records by which these divide their work.

What is hard to test, listed line by line in `PROJECT.json` under `hazards`, is: chains
interleaving with each other and with the end of the logic; the change to query mode in
the midst of them; ambiguous answers and their retries; expiry at any step, and the
*overtime* after it in which the first error is the last; collisions with one's own lost
answer; others writing in between; several cleaners at work on one entry; lost wake-ups;
clients that take each other for dead; a crash anywhere.

## 2. Modules

| Module | What it is |
|---|---|
| `DocStore` | What the key-value service answers to each kind of request about a document. The service is not in this repository: the definitions are read off the requests the library builds and the error classes it knows (`exceptions.cxx:38`). |
| `OperationErrors` | `transaction_operation_failed` and what several of them are merged to. |
| `ForwardCompat` | The check of `forward_compat.hxx`. |
| `Promise` | The abstract specification of an attempt: decide once, write only after deciding to commit and only what was staged, and report what is true. |
| `Attempt` | One attempt in key-value mode, with its operations, its ATR entry, the documents, commit, rollback, the report of `handle_error`, and its surroundings. Extends `DocStore`, `OperationErrors`. |
| `QueryMode` | The operation list of one attempt, its threads, and the change from key-value to query mode. |
| `Reads` | `get` and `get_optional` against attempts of other clients. Extends `ForwardCompat`. |
| `RunLoop` | The attempts of one transaction, one after the other. Extends `OperationErrors`. |
| `Cleanup` | Several cleaners, the attempt itself and others at work on one entry and its documents. Extends `DocStore`, `ForwardCompat`. |
| `CleanupThreads` | The threads of one `transactions` object, and how they start and stop. |
| `ClientRecord` | Several clients that divide the ATRs of a bucket. |
| `Game`, `GameServer` | The example: `GameServer` composes attempts of several threads on one store; `Game` is what they promise together, hits one after the other. |
| `MC...` | Each module above that has runs, for TLC. |
| `..._proofs` | Theorems, section 4. |

The modules cut the system where its parts meet. `Attempt` has the documents and one
transaction in full; `QueryMode` has the threads of the same attempt in full and no
documents; `RunLoop` sees commit and rollback as one step with the ends those two modules
allow; `Cleanup` takes the attempt of `Attempt` (or of another library) as one of its actors
and a cleaner as a loop over documents, `CleanupThreads` says when that loop runs, and
`ClientRecord` who runs it. `GameServer` puts whole attempts side by side.

### 2.1 How `Attempt` corresponds to the code

*State.* `doc` and `atr` are the store: the documents, and what a reader of the ATR
finds of this attempt's entry. `state`, `atrChosen` (`atr_id_`), `staged`
(`staged_mutations_`), `errs` (`errors_`), `overtime` (`expiry_overtime_mode_`) and
`blocked` (`allow_ops_`) are fields of the code. `op[o]` is operation `o`: `at` names the
callback it waits for, `verb`, `doc` and `cas` the request it is to send. `phase` is
the place of the thread that runs the logic, commit or rollback, and reports. `todo`,
`cur`, `tries`, `ambig` are the locals of the loops of that thread, `thrown` and
`rolled` those of `handle_error`, `outcome` is what it calls back with. `written` is a
history variable: documents whose staged mutation has been written to the body.

*Actions.* One per callback or per step of a loop:

| Action | Code |
|---|---|
| `StartAfterError`, `StartRuledOut`, `StartExpired`, `Start` | `cache_error_async`, then the first part of `insert_raw`, `replace_raw`, `remove` |
| `RivalChecked` | `check_atr_entry_for_blocking_document`, which may poll for a second |
| `AtrPending`, `AtrPendingAgain` | `set_atr_pending_locked` and its error handler |
| `StageReplace`, `StageRemove`, `StageInsert`, `StageInsertExpired` | `create_staged_replace`, `remove`, `create_staged_insert` |
| `InsertCollided`, `InsertCollidedFault` | the handler of `FAIL_DOC_ALREADY_EXISTS` of `create_staged_insert_error_handler` |
| `RemoveStagedInsert`, `RemoveStagedInsertExpired` | `remove_staged_insert` |
| `Finalize`, `LogicThrows`, `HandleError`, `Report`, `AddAttempt` | `finalize`, `wrap_run`, `handle_error`, `add_attempt` |
| `CommitBegin`, `AtrCommit`, `AtrCommitAnswer`, `UnstageDoc`, `UnstageRemove`, `UnstageEnd`, `AtrComplete` | `commit`, `atr_commit`, `commit_doc`, `remove_doc`, `atr_complete` |
| `RollbackBegin`, `AtrAbort`, `RollbackDoc`, `RollbackDocsEnd`, `AtrRollbackComplete`, `ExpireInRollback` | `rollback`, `atr_abort`, `rollback_insert`, `rollback_remove_or_replace`, `atr_rollback_complete` |
| `Expire`, `Crash` | the clock passing the expiry; the client dying |
| `CleanQueue`, `CleanLost` | cleanup of the entry this attempt leaves, by its own client or another |
| `ForeignWrite`, `RivalStage`, `RivalEnd` | others |

*Granularity.* A request and the handling of its answer are one step unless something
of the library may run between the two. `AtrCommit` is split from `AtrCommitAnswer`
because the time is looked at before the request is sent, and the entry may be cleaned
in between. Each answer is the one the store's state calls for or a fault; an ambiguous
answer comes with the request carried out or not.

*What the code does to the ATR.* `atr_commit` and `atr_abort` build a request that sets
the status and then pass it to `extract_to`, which *replaces* its specs by the three lists
of documents (`staged_mutation.cxx:69`). The model does what the code does
(`AtrListsWritten`): the status in the entry stays `PENDING`, and if the entry is gone
a new one without a status is created, which no reader can parse. Several of the
findings below follow from this.

*Abstractions.* Bodies are `old`, `new`, `foreign` or `none`. A replace or a remove
passes the document as it was last fetched or returned by an operation; a stale CAS
comes about through steps of others after `Start`. The order of the queue is left open: the
loop takes any document next, but stays at it until it is through with it. The
outcome `FAILED_POST_COMMIT` stands for a result (not an exception) with the unstaging
incomplete. Whether a rival that holds a document is over when its ATR entry is looked
up is left open; so is whether it belongs to a client of a later version that asks this one
to retry or to fail (`RivalErrors`: stages `WW_*` of forward compatibility). The new CAS
`commit_doc` stores in its item is not kept: nothing reads it.

### 2.2 `QueryMode`

`count`, `inFlight`, `allowed`, `mode`, `node` are the fields of `waitable_op_list`, `asleep`
those who wait on `cv_in_flight_` and have not been notified. `at[o]` is where the code of
operation `o` is; `caller` and `onIo` say on which thread it runs: an operation called from
the callback of another runs, and *waits*, on the IO thread of that callback, so that
`IoThreads` waiting callbacks leave none to run an answer. `path` is what the operation has
become, and `told` the mutations that `BEGIN WORK` named to the query service.

| Action | Code |
|---|---|
| `Call`, `ModeKnown`, `Enter` | `cache_error_async`, `get_mode`, `increment_ops` |
| `GoesOn`, `SetQueryMode`, `Wake`, `NodeKnown`, `BeginWork`, `BeginAnswer` | `check_if_done`, `set_query_mode`, `query_begin_work`, `set_query_node` |
| `Send`, `Answer`, `CallbackReturns`, `CallbackThrows` | `wrap_query` or a key-value request, `op_completed_with_callback`, `op_completed_with_error`, `handle_err_from_callback` |
| `LogicReturns`, `CommitBlock`, `Commit`, `CommitAnswer`, `Rollback` | `finalize`, `wait_and_block_ops`, `commit_with_query`, `rollback_with_query` |
| `ExplicitRollback`, `UserRollback` | `rollback(cb)` of the application and the thread it starts |

### 2.3 `Reads`

A value is named after the attempt that wrote it. `DoGet`, `LookedUp`, `ReadsAtr` are the three
callbacks of `do_get`; between them rivals stage, decide, unstage and remove their entries,
and operations of the reader's own attempt stage. `valid` is the set of values the document
has been, for the reader, since the read began. The rivals are of libraries that mark their
entries; the rivals of this library never do, and are in `GameServer`. That an entry does
not go while its mutations are staged and may be committed is what `Cleanup` shows and
`Reads` takes for granted. So it does that the reader's own attempt is not given up
for lost while it reads.

### 2.4 `RunLoop`

`cur` is the current attempt, `errs` its recorded errors, `called` and `caught` what the
application has called itself and what error of that it may have swallowed. `clock` has
the three times that matter: before the expiry, after it, and past the limit of `exp_delay`.
`QueryCommitEnds`, `KvCommitEnds` and the like list what a call of commit or rollback comes to.
`AttemptsExhausted` is the end of the loop over `max_attempts_`, `DelayTimesOut` the exception of
`exp_delay`: it is not a `transaction_exception`, so it leaves an asynchronous run through the
top of its thread (outcome `terminated`). The query service is assumed to keep to
"no rollback means no retry" and to speak of a commit that is done or in doubt in its answer
to `COMMIT` only.

### 2.5 `Cleanup`, `CleanupThreads`, `ClientRecord`

`Cleanup`: a cleaner is in `docs` (of `cleanup_docs`, in the order of the lists) or about to
`write` the document it has looked up. `Read`, `LooksUp`, `Writes`, `RemovesEntry` are
`check_atr_and_cleanup`, `do_per_doc` with the function it is given, and `cleanup_entry`. Beside
the cleaners are the attempt, which decides, unstages and completes, or stops; writers and
another transaction; and an entry of another attempt that makes the record unreadable.
`compat` is what the entry asks for: a cleaner that cannot do it (`MayClean`) leaves the entry alone.

`CleanupThreads`: `app` is the thread that constructs and closes, `loop` is `attempts_loop`, `lost` is
`lost_attempts_loop`, `worker` its workers, `listing` and `opening` the requests of
`get_and_open_buckets` that are open. An answer that comes after the call has returned has
references to locals that are gone; it is modelled as doing nothing. `std::terminate`,
when a second thread cannot be created while a first runs (line 465), is left out, as is
`force_cleanup_*`, which only tests call.

`ClientRecord`: time is in ticks and a client's requests take none. `age` is how old each
heartbeat is, `active` whom a client found alive, `next`, `elapsed` and `due` how far it is
in its pass and when it goes on. `Tick` waits for everybody who is due.

### 2.6 `GameServer`

An attempt at the grain other attempts see of it. `GetMonster` and `GetPlayer` fetch; `Check` looks up
the ATR entry of whoever has staged on the document (`Blocked`); `SetAtrPending`, then `Stage`
at the CAS of the fetch, whatever has become of that entry by then. `Commit` decides, `Unstage` writes
(at the CAS of the staging, or without one after a mismatch: `MayUnstage`), `AtrAbort` and
`RollbackDoc` undo, `End` removes the entry. `Fails` is whatever goes wrong inside, `GivesUp` an
attempt that stops and leaves everything as it is, at any step between its decision and its end.

`time` is what the attempt knows of the clock: out of time (`Expire`) it sends nothing more before its
decision, except for a request that was on its way (`last`); after the decision it goes on in
overtime, and then a mismatch is the end of it. `Cleaned` is cleanup, which goes by the age of the entry
alone (`atr_cleanup_entry.cxx:126`): it removes the entry of an attempt that has stopped, and that of
one that is out of time and still at work, before its decision or after it. An entry says
`PENDING` until it is gone, as with this library, so that cleanup leaves the documents as they are.
Writing the lists of documents into an entry that is gone creates one without a status
(`AtrListsWritten`), which makes the record unreadable (`broken`).

Two history variables say what has happened: `committed` are the attempts that have decided to commit,
`orphaned` those of them that were without their entry before they were through. Only the hit points
and the number of kills are kept of the documents; levels follow from the latter.
`rand` shared between threads is a data race of the example, and is
left out: `Damages` is any choice.

## 3. Runs

| Run | Instance | Properties beside `TypeOK` |
|---|---|---|
| `async` | 2 documents, 3 operations of the asynchronous API, 1 fault, 1 retry | `RolledBackIsClean`, `NoWriteAfterError`, `CleanWithoutFaults`, `PromiseKept` |
| `blocking` | 1 document, 2 operations of the blocking API, 1 fault, 2 foreign steps, 1 retry, fairness; 0.8 million states | `QueueMatchesStore`, `RollbackSparesOthers`, `AttemptEnds` |
| `query` | an insert and two queries, 2 IO threads, 1 failure of any kind, rollback by the application, fairness; 0.4 million states | `CountsAreExact`, `BlockedIsQuiet`, `BeginsOnce`, `StatementsHaveNode`, `AttemptEnds` |
| `reads` | one `get_optional` of one document, 3 rivals (two of a newer protocol), 2 kinds of own mutation, 1 fault, fairness; 1.2 million states | `ReadsAreCurrent`, `ReadsEnd` |
| `run_loop` | 3 attempts, 2 errors each, asynchronous, fairness; 1.5 million states | `MergeIsConservative`, `FailureIsHonest`, `SuccessIsHonest`, `CommitsOnce`, `LeftoversAreHanded`, `RunEnds` |
| `cleanup` | one document of each list, in an entry of this version or of a later one, 2 cleaners, 1 fault, 2 foreign steps, fairness; 1.3 million states | `EntryOutlivesStaging`, `CleanersFollowDecision`, `CleanersSpareOthers`, `LostIsCleaned` |
| `cleanup_threads` | 2 buckets, 2 attempts, 1 record, all of `Races`, `Spurious`, `Faults`, fairness | `LostEndsClean`, `ClosedIsQuiet`, `QueuedIsCleaned`, `CloseReturnsIfWoken` |
| `client_record` | 3 clients of which one dies, 4 records, window 2, margin 2, an override, fairness; 0.6 million states | `SharesAreDisjoint`, `OnlyTheLateAreRemoved`, `EveryAtrIsVisited` |
| `game` | 2 threads, 2 hit points, damages 1 and 2, 3 attempts; 3.7 million states | `EveryHitCounts` |
| `committed_is_marked`, `close_returns`, `every_atr_is_visited` | section 3.1 | one each, violated |

What each property says stands above its definition. Those that carry most:

* `PromiseKept`: refinement of `Promise`, with the state as decision, the queue as what is
  pledged, and the report as verdict.
* `NoWriteAfterError`: no body is written once an operation has failed, in whatever order
  operations end and the logic returns.
* `RolledBackIsClean`: an attempt in `ROLLED_BACK`, a state cleanup ignores, has left none
  of its mutations.
* `CountsAreExact`, `BlockedIsQuiet`: whichever of its many ways an operation ends, it is
  counted down once, so that commit works alone.
* `ReadsAreCurrent`: a read gives what was committed at some moment of it.
* `CleanersFollowDecision`, `CleanersSpareOthers`, `LostIsCleaned`: however many cleaners overlap, a
  mutation becomes visible only if the attempt decided to commit and is dropped only if it decided to
  abort, never over another transaction or writer, and a client that stays alive finishes the work.
* `CommitsOnce`, `FailureIsHonest`, `SuccessIsHonest`: what `run` does next, and what it says, agree
  with what the service has committed.
* `EveryAtrIsVisited`: each record is looked at again and again by somebody.
* `OnlyTheLateAreRemoved`: a client that lives and stays leaves the record only where heartbeats may
  expire within a pass, and then only if its pass has outlasted its heartbeat, or has just begun.
* `EveryHitCounts`: refinement of `Game`: transactions that overlap, conflict, fail, run out of time
  and stop have the effect of hits one after the other, until for the first time an attempt that has decided
  is without its entry while something of it is staged. From there on nothing protects what it
  has staged, and hits are lost (`AllHitsCount`, section 3.1).

*Bounds.* Two documents and three operations are what it takes for one operation to
choose the ATR, a second to run beside it and a third to touch a document again (insert
after remove, replace after insert, remove after insert). One fault separates every
error path from the normal one. Operations of the blocking API come one after the other, so one
document that a second operation touches again is enough for them, and the room this leaves goes to
the surroundings: with two foreign steps a rival stages and ends, or two writers follow one another,
at any point. `MaxRetries` is 100 in the code; 1 tells the first try from the last. Larger instances of
`Attempt` were run as well and pass (two faults; two documents of the blocking API with one foreign
step, 3.1 million states; three operations of it) and are left out for their length. One insert and
two queries are what `QueryMode` needs: a mutation `BEGIN WORK` may miss, a query that begins and
one that waits. In `Reads` the document passes from one rival to the next between two looks,
and the third is what makes the reader wrong about both. Three attempts have one before and one after
the one in doubt. In `Cleanup` each list behaves differently, so one document of each; two
cleaners overlap in every way two can. Three clients are the least that can be
wrong about each other in different ways, with more records than clients, so
that their shares differ in size. In `GameServer` three attempts of two threads are a rival that has staged, one
that takes its document over, and a retry or a hit after both; each may run out of time or stop, and
lose its entry, at any step. `client_record` has heartbeats that come before they expire (2 < 3), as `EveryAtrIsVisited`
needs them; there nobody can be late, so that `OnlyTheLateAreRemoved` says that only the dead are removed.
With the ratio of the defaults (windows of 6, margins of 2 and 1) the run is `every_atr_is_visited`;
`OnlyTheLateAreRemoved` passes there too (2.0 and 1.8 million states).

*Deadlock* is checked in `client_record` only. Everything else may stop: an attempt
when it is over or its client has died, `run` when it has returned, the threads when they
are joined, the game after the last attempt.

*Symmetry* of documents, operations, threads is used in the runs without liveness only.

*Fairness* is weak throughout, and of steps the code takes by itself: a thread of the library
that can go on does so, and the SDK answers every request, with a timeout if need be
(`FairSpec` of each module). For `LostIsCleaned` one client lives, its search comes back to the
record (which `EveryAtrIsVisited` shows) and an entry expires. Nothing makes the application call
something, a fault or a foreign step happen, or, in `Attempt` and `RunLoop`, the
clock run out. Waiting for an IO thread is part of the model of `QueryMode`: `AttemptEnds` holds
there with two IO threads and the callbacks that can wait at once; `game_server.cxx:206` starts eight.

### 3.1 Where code and documentation part

Three runs check a sentence of the documentation and find it violated by what the code
does; each is a finding in `PROJECT.json`.

| Run | The sentence | What happens |
|---|---|---|
| `committed_is_marked` | `attempt_state.hxx:46`: COMMITTED is "Set once the Active Transaction Record entry for this transaction has been updated to mark the transaction as Committed" | `extract_to` discards the status; the entry stays `PENDING` |
| `close_returns` | `transactions.hxx:197`: close is to "Shut down the transactions object" | `get_and_open_buckets` waits without a predicate: the wake-up comes before the wait, or never, and `close` joins a thread that waits for ever |
| `every_atr_is_visited` | `transaction_config.hxx:75`: "over one cleanup window period, the thread will look for all 1024 of these" | heartbeats expire before they are renewed; three living clients divide the records so that one is in nobody's share, window after window |

The modules state further sentences that the code does not keep. They have no run
of their own, since most follow from the same causes; to see one violated,
check the definition with the constants named here (the others as in the module's run).

| Definition | The sentence | What happens |
|---|---|---|
| `Attempt!CommittedIsWritten` (2 operations, `Sync`, no foreign step or retry) | `attempt_context.hxx:148`: "All staged replaces, inserts and removals will be written" | the attempt fails after the commit point, cleanup finds the entry `PENDING` and removes it |
| `Attempt!RollbackUnstages` (same) | `attempt_context.hxx:160`: "All staged mutations will be unstaged" | after an ambiguous write of the entry the state is still `NOT_STARTED`; rollback takes that for "no mutations" |
| `Attempt!StagedUnderEntry` (asynchronous, no fault) | `attempt_context_impl.cxx:1752`: "keep it locked!" | a second operation stages while the entry is being written |
| `Attempt!EveryOpEnds` (asynchronous, 1 fault, `FairSpec`) | `async_attempt_context.hxx:77`: the callback is called | an ambiguous write of the entry is retried after another operation has staged: the function returns without calling anything, and commit and rollback wait for ever |
| `Attempt!CompleteMeansOver` (asynchronous, 1 fault) | `transactions.hxx:169`: "Called when the transaction is complete" | an error that forbids a rollback is reported with operations in flight |
| `RunLoop!UnsuccessfulIsRaised` (2 attempts) | `transactions.hxx:97`: "unsuccessful, an exception will be raised" | after `max_attempts_` retries `run` returns a result |
| `QueryMode!CommitCoversStaged` (a get, a replace and a query, no fault) | `async_attempt_context.hxx:141`: "All staged replaces, inserts and removals will be written" | a replace that asked for the mode before the query changed it stages behind the back of the query service |
| `QueryMode!CountsNotNegative` (2 queries, 1 IO thread) | `assert(count_ >= 0)` | `check_if_done` completes an operation and its caller completes it again |
| `QueryMode!ErrorsHaveCauses` (a get, 1 failure) | `handle_err_from_callback`: "presumably that op called op_completed_with_error already" | it throws the `exception_ptr` itself, so that every exception of a callback is taken for a new error |
| `QueryMode!RollbackEnds` (a query, failure without a node) | `reset_query_mode`: "reset to kv mode here, allowing rollback to function properly" | nobody calls it; rollback waits for the node for ever |
| `Cleanup!EveryEntryExamined` (no fault) | `transaction_config.hxx:76`: "examine any it finds" | one entry without a status makes the record unreadable |
| `Reads!OwnWriteFromCache` (1 rival, own removes) | `do_get`: "it should be returned from the in-memory cache instead" | a removal in flight is in the store but not yet in the queue, and is read as an empty document |
| `CleanupThreads!AnswersFindTheirCall` (`Listings <- Both`, only `Spurious`) | `get_and_open_buckets`: "non-zero so we know not to stop waiting immediately" | a spurious wake-up ends the wait all the same, and the answers refer to locals that are gone |
| `GameServer!AllHitsCount` (2 attempts) | `attempt_context.hxx:148`: "All staged replaces, inserts and removals will be written" | an attempt that has run out of time decides to commit with its last request; cleanup removes its entry, which says `PENDING`, by its age; a rival stages over the hit or is overwritten by it at CAS 0. One that stops between its decision and the end of its unstaging loses its hit, or the half of it, the same way |

Where a property of a passing run names an exception, the code makes it: an
application that commits itself and swallows the error is committed a second time by `finalize`
and may then be retried (`CommitsOnce`); an answer to `COMMIT` that is lost, but not by a
timeout, is reported as a failure (`FailureIsHonest`, `cur.lost`); a failed request for the record
counts as a missing entry (`ReadsAreCurrent`, `misread`, line 1955); a transaction
whose entry was written ambiguously is `NOT_STARTED` for `add_attempt` (`LeftoversAreHanded`).

Observations that are not about behaviour modelled as a property:

* `merge_errors` keeps the *last* of the errors that forbid a retry, its comment says the
  first (`exceptions_internal.hxx:200-206`).
* A transaction that only reads is reported with `unstaging_complete` false.
* Expiry reported by the query service (17010, 1080) ends as a failure, not as an expiry.
* The check of protocol versions compares major and minor one by one, so that 1.1
  counts as later than 2.0; that is on the safe side (`CheckIsStrict`). A `RETRY` asked for at
  stage `G_A` ends as a failure that is not retried (`attempt_context_impl.cxx:1923`).
* The bound on a delay is 128 times the first in a comment and 256 times in the code (`utils.hxx`);
  the generator in `jitter()` is static and shared by threads without a lock.
* A worker of `lost_attempts_loop` catches `std::runtime_error` only.

## 4. Proofs

All theorems are about `Spec` (no fairness), for every value of the constants under the
assumptions of the module that declares them: any set of documents and operations, any
number of threads, attempts and errors, every bound.

| Module | Theorem | Statement |
|---|---|---|
| `Attempt_proofs` | `TypeCorrect`, `Invariance` | `Spec => []TypeOK`, `Spec => []IInv` |
| | `NeverWritesAfterError` | `Spec => []NoWriteAfterError` |
| | `QueueIsFaithful` | `Spec => []QueueMatchesStore` |
| | `RollbackIsSelective` | `Spec => RollbackSparesOthers` |
| | `RollbackIsComplete` | `Spec => []RolledBackIsClean` |
| | `KeepsPromise` | `Spec => PromiseKept` |
| | `UndisturbedIsClean` | `Spec => []CleanWithoutFaults` |
| `RunLoop_proofs` | `MergeErrorsIsConservative` | what `MergeErrors` picks from a list of any length |
| | `TypeCorrect` | `Spec => []TypeOK` |
| | `MergedErrorsAreStrictest` | `Spec => []MergeIsConservative` |
| | `FailuresAreHonest`, `SuccessesAreHonest` | `Spec => []FailureIsHonest`, `Spec => []SuccessIsHonest` |
| | `CommittedOnce`, `LeftoversAreKnown` | `Spec => CommitsOnce`, `Spec => LeftoversAreHanded` |
| `QueryMode_proofs` | `Invariance`, `TypeCorrect` | `Spec => []IInv`, `Spec => []TypeOK` |
| | `CountsAreRight`, `MutualExclusion` | `Spec => []CountsAreExact`, `Spec => []BlockedIsQuiet` |
| | `WorkBeginsOnce`, `StatementsGoToTheNode` | `Spec => []BeginsOnce`, `Spec => []StatementsHaveNode` |
| `Reads_proofs` | `CheckIsStrict` | `Check` never says `CONTINUE` to what this version cannot deal with |
| | `Invariance`, `TypeCorrect` | `Spec => []IInv`, `Spec => []TypeOK` |
| | `ReadsGiveWhatWas` | `Spec => []ReadsAreCurrent` |
| `Cleanup_proofs` | `Invariance`, `TypeCorrect` | `Spec => []IInv`, `Spec => []TypeOK` |
| | `EntriesOutliveStaging` | `Spec => []EntryOutlivesStaging` |
| | `DecisionIsFollowed`, `OthersAreSpared` | `Spec => CleanersFollowDecision`, `Spec => CleanersSpareOthers` |
| `CleanupThreads_proofs` | `Invariance`, `TypeCorrect` | `Spec => []IInv`, `Spec => []TypeOK` |
| | `LostLeavesNothing`, `NothingAfterClose` | `Spec => []LostEndsClean`, `Spec => ClosedIsQuiet` |
| `ClientRecord_proofs` | `Invariance`, `TypeCorrect` | `Spec => []SharesInv`, `Spec => []TypeOK` |
| | `NobodyLooksTwice` | `Spec => []SharesAreDisjoint` |
| | `SharesArePartition` | the shares of any set of clients leave out no ATR and give none to two |
| | `OnlyTheLateGo` | `Spec => OnlyTheLateAreRemoved` |
| `GameServer_proofs` | `TypeCorrect` | `Spec => []TypeOK` |
| | `HitsCount` | `Spec => EveryHitCounts` |

**`Attempt`: `IInv == TypeOK /\ Control /\ Data`.**

* `Control` ties the place of the control to the operations: past
  `wait_and_block_ops` no operation is active, and on the way of a commit there is no
  error. `NoWriteAfterError` alone is not inductive, since nothing in it says that no
  operation is left that could fail.
* `Data` says of every CAS that is held, by the queue or by an operation, that the
  document has had it; and that at that CAS the document looked the way the mutation
  expects. CAS values only grow (`Grows`), so a document that still has a held CAS has
  not changed. `QueueMatchesStore` alone is not inductive: the request an
  operation is about to send, at the CAS it read, decides what the queue will say.
  `DataStep` is the lemma that reduces its preservation to the documents, queue
  entries and operations a step makes anew.
* `RollbackSparesOthers` follows: a rollback request carries the CAS of the staging, at
  which the document held this attempt's mutation, so it cannot hit a rival's.
* `RolledBackIsClean` needs `RolledBack` beside `IInv`: what the loop of the rollback has passed holds no
  mutation, and only the end of that loop leads to `ROLLED_BACK`. Once operations are
  blocked nobody puts a mutation back (`NothingIsStaged`); a document is passed when the request
  was carried out or the mutation is gone (`PassedIsUnstaged`), and an insert that cannot be
  found is ruled out by the CAS of its staging.

**`Promise`.** `PInv == Decisions /\ Reports /\ Writes` adds what each phase has decided,
reported and written: a failure past the commit point is only raised there
(`PostCommit`), the queue is contained in what is written or still to do, and no
operation sends before the ATR is chosen. Each action then maps to a step of `Promise` or
to a stutter. The lemmas follow the actions: `OpStepPromise` maps operations to `Stage`,
`AtrCommitPromise` and `AtrAbortPromise` to `Decide`, `UnstagePromise` to `Write`,
`CompletePromise` and `ReportPromise` to `End`.

**`Attempt`, undisturbed.** `CInv` says what `CleanWithoutFaults` rests on, as long as there is no fault, no
conflict and no expiry (`Calm`): every document holds what the queue says, at the CAS the queue
says; one operation at most writes the entry, and the entry is there from then until the
end; every error allows a rollback. Then each answer is the one the state calls for
(`CalmAnswer`), and the loop over the queue passes each document at the first attempt
(`CalmLoop`).

**`RunLoop`.** `IInv` says for each place of the thread what its error and its attempt may be. Its heart is
`CommitFits`: where an attempt can be that the service has committed. It is still in
its logic, with nothing to be done after it; or its error is one of those that neither allow
a retry nor end as a failure; or the run is over; or the application has swallowed the error
of its own commit. `EntryFits` and `PostCommitFits` do the same for the entry in the ATR and for
errors past the commit point. The lemmas list the ends of commit and rollback.

**`QueryMode`.** `IInv` adds to the properties what they rest on. `WorkBegins`: one query at most is about
to begin the work or waits for the answer, in query mode and before the node is known.
`NodesAreNamed`: whoever is past `get_mode` or `set_query_mode` knows the node if it needs one.
`Exclusive`: unless the application has called rollback itself, no operation is counted
while operations are blocked. The counts are cardinalities of sets of operations; an operation enters
or leaves them by one step, and `CountsFollow` turns that into arithmetic with
the library's theorems about finite sets. `StepsCount` does it for each step of an operation, and
`OthersAreQuiet` shows that no other step touches what is counted.

**`Reads`.** Between its requests a reader goes by what it has seen, and `IInv` says what that is still
worth. `ViewsAreKept`: what the document is now is among the answers the read may give. `SeenAgrees`: as
long as the attempt that had staged on the document is pending, the document is as it was seen, so that
the commit of that attempt, if it comes, falls into the read; and when it comes, what it makes of the
document is one of the answers. `MissingIsGone`: an entry that was not found does not come back, unless
the request for it failed. `ReadsAreCurrent` is about the answer alone and says none of this. That rivals
keep their entry while they are staged is an assumption of the model (section 2.3), which
`EntriesOutliveStaging` proves of `Cleanup` for an attempt that has decided.

**`Cleanup`.** What a cleaner does about the last document, or about the entry, it does by what it read
before the first. `SeenAgrees`: the status it has read is the decision, or was `PENDING`, and then it has
no document to look at. `PassedAgree`: a document it has passed is settled for good: whoever changes it
puts no mutation of this attempt back, except that a writer outside transactions keeps the one that is
there and changes the checksum. `LookupAgrees`: a document it is about to write is the one it looked up,
or has a later CAS, and a cleaner of a committed attempt that has looked it up has seen the body it was staged over. `DocsAgree` is about insertions, whose write has no CAS: a document that holds one has
no body yet. `EntryOutlivesStaging` is what is left of this when the list is at its end; the
action properties follow from `SeenAgrees` and `LookupAgrees`.

**`CleanupThreads`.** `LostEndsClean` rests on the order in which the loop stops. `FinalIsLast`: the loop that
has found `running_` off asks for the buckets once more and starts no worker; before, the removal has
come to no bucket. `WorkersAreJoined`: a worker is on its way only while the loop waits for it. So no
worker can put back the record of a bucket that is done (`RecordIsSpared`, stronger than the property: it
holds all the time). `QueueAgrees` makes the type invariant inductive. That `count` stays a number
needs the type invariant itself (`Cardinality(opening) <= count`) and the theorems about finite
sets; buckets are assumed to be finitely many.

**`ClientRecord`.** `ShareFits`: all through its pass a client stands a whole number of strides from its index.
Two different indices never meet that way (`StridesDiffer`), and clients of one set have different indices
(`IndexFits`). The indices of a set are all numbers below its size, by the pigeonhole theorem of the
library; so the shares are a partition (`SharesArePartition`). That says nothing of clients that
disagree on who is alive: for them there is `EveryAtrIsVisited`, and the finding.
For `OnlyTheLateAreRemoved` the invariant adds `BeatsInPass` (a heartbeat is no older than the pass it was
written at) and `ExpiredAreLate` (whoever is on somebody's list of the expired is dead or `Late`). Lists are
used at the tick they are made at, so that a client on one can stop being late only by beginning a
new pass, which `Late` allows for (`LateStays`). Nothing is assumed of the window: with the defaults of the
code (120 s against 62 s) clients are late for almost half of every window, and that they are removed then
is what lies behind `every_atr_is_visited`.

**`GameServer`: `IInv == Types /\ (orphaned = {} => Fits)`.** `Fits` is `Numbered`, `StoreFits`, and for each
thread `FetchFits`, `StagingFits`, `CheckedFits` and `DecisionFits`. The
attempt of a thread is named by the thread and a number, and an earlier one never comes back
(`Numbered`). What a thread has fetched of a document is what is there, unless the document is
`stale` for it (`FetchFits`). While its entry is there, what it has staged has not been touched, and is the
effect of its hit on what it fetched (`StagingFits`). Between the look at a rival's entry and the staging
that rival may not decide: it is without its entry, and without one it would be `orphaned` if it did
(`CheckedFits`). An attempt that has decided is unstaging or
has unstaged everything (`DecisionFits`), and what is left of it keeps its entry (`StoreFits`), so that
nobody stages over half of a hit. Then a commit is
a `Hit` of `Game`, and every other step leaves what counts alone. `Spares` and `PutFits` are what a step
of one thread owes the others; `StepFits` lifts them. Nothing is assumed of when attempts
expire, stop or are cleaned: the entry of a live attempt may go at any step. Before its decision that
does no harm: the attempt fails, or it decides all the same and is the first of `orphaned`.

`TypeOK` is inductive by itself.

*Only model-checked* is liveness: `AttemptEnds`, `RunEnds`, `ReadsEnd`, `LostIsCleaned`, `QueuedIsCleaned`,
`CloseReturnsIfWoken`, `EveryAtrIsVisited`. It needs fairness, hence `ENABLED`, which is beyond the provers. Every
invariant and every action property a passing run checks is a theorem as well.

## 5. Not modelled, and why

* What the query service does to documents: it is a program of its own. `QueryMode` reduces it to
  which mutations it was told of.
* `FAIL_HARD` and the hooks of `*_testing_hooks.hxx`: raised by tests only; outside of them the
  hooks do nothing.
* A request that is carried out after its ambiguous answer has been handled: the
  model carries it out before the answer or never.
* Undefined behaviour: the pointer of `replace_raw` and `remove` into the vector of staged
  mutations across a callback (`attempt_context_impl.cxx:282`), a formatted empty optional
  (`:148`, `:648`), the second callback of `get_doc` (`:2014`), and the use of an attempt's
  context after `run` has returned with operations in flight. What leads there is in the
  model (`CompleteMeansOver`), what follows is not.
* The exception `create_forward_compat_stage` throws for a stage of an unknown name, which
  no caller expects: records name the stages of `ForwardCompat` only.
* Arithmetic of time: `parse_mutation_cas`, `has_expired` and delays are conversions
  of numbers. An entry may expire at any time in `Cleanup`, before its attempt is over too, which is
  more than a wrong conversion can do.
* `transactions_config`, `per_transaction_config`, results, JSON, logging, the C++ wrappers of
  the SDK (`result.hxx`, `client_error`): values that are set once and read, and conversions; no state
  changes that anything depends on.
* The tests: callers of what is modelled.

## 6. Plan

Done: every module of section 2, and every invariant and action property of the runs as a
theorem. Next, in this order:

1. An abstract specification of the cleaning of one entry (decide, settle each document once,
   forget the entry) that `Cleanup` implements, as `Attempt` does `Promise`.
2. `GameServer` past the first orphan: what is still true of the hits, with the lost ones named.
3. `ClientRecord` for clients that disagree on who is alive: how long an ATR can be in nobody's share.
