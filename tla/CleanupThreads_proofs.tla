------------------------- MODULE CleanupThreads_proofs -------------------------
(***************************************************************************)
(* How the threads of a transactions object stop, for any number of        *)
(* buckets, of attempts and of records, whatever is listed and whatever    *)
(* fails.                                                                  *)
(*                                                                         *)
(* The record of this client is left clean because whoever could put it    *)
(* back is gone by then: workers run only while lost_attempts_loop waits   *)
(* for them (WorkersAreJoined), and it takes its last list of buckets when *)
(* running_ is off for good (FinalIsLast).  Nothing of this is in          *)
(* LostEndsClean, which is not inductive by itself.                        *)
(***************************************************************************)
EXTENDS CleanupThreads, FiniteSetTheorems, TLAPS

-----------------------------------------------------------------------------
(* The inductive invariant *)

\* What is queued or popped has been added, and attempts_loop holds one entry
\* exactly from pop to the end of clean.
QueueAgrees ==
    /\ queue \in Seq(added) /\ taken \in Seq(added)
    /\ loop \in {"check", "clean"} <=> taken # <<>>

\* Once it has found running_ off the loop only goes on to remove the client record;
\* before, no bucket has lost its record to the removal.
FinalIsLast ==
    /\ final => ~running /\ lost \in {"ask", "sent", "wait", "remove", "over"}
    /\ lost \in {"remove", "over"} => final
    /\ lost \notin {"remove", "over"} => spared = Buckets

WorkersAreJoined == lost # "join" => WorkersDone

RecordIsSpared == record \subseteq spared

ClosedIsJoined == app = "closed" => Joined

IInv ==
    /\ TypeOK /\ QueueAgrees /\ FinalIsLast /\ WorkersAreJoined /\ RecordIsSpared
    /\ ClosedIsJoined

-----------------------------------------------------------------------------
(* Who changes what *)

\* The thread that constructs and closes, and whoever adds an attempt.
AppStep ==
    \/ Constructed \/ CallsClose \/ Stop \/ Joins
    \/ \E a \in Attempts : AddAttempt(a)

\* The answers to get_and_open_buckets, and its return.
CallStep == Listed \/ WakesSpuriously \/ TooLate \/ \E b \in Buckets : Opened(b)

LEMMA Steps ==
    ASSUME [Next]_vars
    PROVE  \/ UNCHANGED vars \/ AppStep \/ LoopStep \/ LostStep \/ CallStep
           \/ \E b \in Buckets : WorkerStep(b)
BY DEF Next, AppStep, CallStep

LEMMA AppMoves ==
    ASSUME AppStep
    PROVE  /\ UNCHANGED <<config, loopVars, lost, final, workerVars, callVars, record, spared>>
           /\ running' \in {running, FALSE}
           /\ app' = "closed" => app = "closed" \/ Joined
BY DEF AppStep, Constructed, CallsClose, Stop, Joins, AddAttempt, appVars

LEMMA LoopMoves ==
    ASSUME LoopStep
    PROVE  /\ UNCHANGED <<appVars, added, lost, final, workerVars, callVars, record, spared>>
           /\ loop \in {"wait", "pop", "check", "clean"}
BY DEF LoopStep, LoopWakes, Pop, Check, Clean, LoopUnchanged

LEMMA LostMoves ==
    ASSUME LostStep
    PROVE  /\ UNCHANGED <<appVars, queue, added, loopVars>>
           /\ lost \notin {"none", "over"}
BY DEF LostStep, Test, Asks, Waits, Spawn, Pause, JoinWorkers, Remove, LostOnly

LEMMA CallMoves ==
    ASSUME CallStep
    PROVE  /\ UNCHANGED <<appVars, queue, added, loopVars, record, spared, final, workerVars>>
           /\ lost' = lost \/ (lost = "wait" /\ lost' = Returned)
BY DEF CallStep, Listed, WakesSpuriously, TooLate, Opened, LostOnly

LEMMA WorkerMoves ==
    ASSUME NEW b \in Buckets, WorkerStep(b)
    PROVE  /\ UNCHANGED <<appVars, queue, added, loopVars, lost, final, callVars, spared>>
           /\ worker[b] \in {"start", "record", "atrs"}
           /\ record' = record \/ record' = record \cup {b}
BY DEF WorkerStep, WorkerStarts, WorkerJoins, WorkerCleans, WorkerOnly

-----------------------------------------------------------------------------
(* Types *)

\* What is asked for is never more than what count promises.
CallTypes ==
    /\ count \in 0..Cardinality(Buckets) + 1
    /\ names \subseteq Buckets /\ opening \subseteq Buckets /\ listing \in BOOLEAN
    /\ Cardinality(opening) <= count

LEMMA Counted ==
    ASSUME NEW S \in SUBSET Buckets
    PROVE  /\ IsFiniteSet(S) /\ Cardinality(S) \in Nat /\ Cardinality(S) <= Cardinality(Buckets)
           /\ Cardinality(Buckets) \in Nat /\ Cardinality({}) = 0
           /\ \A b \in S : Cardinality(S \ {b}) = Cardinality(S) - 1 /\ Cardinality(S) > 0
<1>1. /\ IsFiniteSet(S) /\ Cardinality(S) <= Cardinality(Buckets)
      /\ Cardinality(S) \in Nat /\ Cardinality(Buckets) \in Nat /\ Cardinality({}) = 0
  BY CleanupThreadsAssumption, FS_Subset, FS_CardinalityType, FS_EmptySet
<1>2. ASSUME NEW b \in S
      PROVE  Cardinality(S \ {b}) = Cardinality(S) - 1 /\ Cardinality(S) > 0
  <2>1. Cardinality(S \ {b}) = Cardinality(S) - 1
    BY <1>1, FS_RemoveElement
  <2>2. IsFiniteSet(S \ {b}) /\ Cardinality(S \ {b}) \in Nat
    BY <1>1, FS_Subset, FS_CardinalityType
  <2> QED
    BY <1>1, <2>1, <2>2
<1> QED
  BY <1>1, <1>2

LEMMA CallTypesStep == ASSUME TypeOK, [Next]_vars PROVE CallTypes'
<1>1. CallTypes
  BY DEF TypeOK, CallTypes
<1>2. CASE UNCHANGED callVars
  BY <1>1, <1>2 DEF CallTypes, callVars
<1>3. CASE Asks
  BY <1>3, Counted DEF Asks, CallTypes
<1>4. CASE Listed
  <2>1. PICK buckets \in Listings : count' = Cardinality(buckets) /\ opening' = buckets
    BY <1>4 DEF Listed
  <2>2. buckets \in SUBSET Buckets /\ listing' = FALSE /\ names' = names
    BY <1>4, CleanupThreadsAssumption DEF Listed
  <2>3. /\ Cardinality(buckets) \in Nat /\ Cardinality(buckets) <= Cardinality(Buckets)
        /\ Cardinality(Buckets) \in Nat
    BY <2>2, Counted
  <2>4. count' \in 0..Cardinality(Buckets) + 1
    BY <2>1, <2>3
  <2>5. Cardinality(opening') <= count'
    BY <2>1, <2>3
  <2> QED
    BY <1>1, <2>1, <2>2, <2>4, <2>5 DEF CallTypes
<1>5. ASSUME NEW b \in Buckets, Opened(b) PROVE CallTypes'
  <2>1. /\ b \in opening /\ opening' = opening \ {b} /\ count' = count - 1
        /\ names' \subseteq names \cup {b} /\ listing' = listing
    BY <1>5 DEF Opened
  <2>2. opening \in SUBSET Buckets
    BY <1>1 DEF CallTypes
  <2>3. /\ Cardinality(opening \ {b}) = Cardinality(opening) - 1
        /\ Cardinality(opening) > 0 /\ Cardinality(opening) \in Nat
        /\ Cardinality(Buckets) \in Nat
    BY <2>1, <2>2, Counted
  <2> QED
    BY <1>1, <2>1, <2>3 DEF CallTypes
<1>6. CASE TooLate
  <2>1. Cardinality({}) = 0 /\ Cardinality(Buckets) \in Nat
    BY Counted
  <2>2. opening' = {} /\ listing' = FALSE /\ UNCHANGED <<count, names>>
    BY <1>6 DEF TooLate
  <2>3. Cardinality(opening') <= count'
    BY <1>1, <2>1, <2>2 DEF CallTypes
  <2> QED
    BY <1>1, <2>2, <2>3 DEF CallTypes
<1>7. CASE Remove
  BY <1>1, <1>7 DEF Remove, CallTypes
<1>8. CASE Test \/ Waits \/ Spawn \/ Pause \/ JoinWorkers \/ WakesSpuriously
  <2>1. UNCHANGED callVars
    BY <1>8 DEF Test, Waits, Spawn, Pause, JoinWorkers, WakesSpuriously
  <2> QED
    BY <1>2, <2>1
<1>9. CASE UNCHANGED vars \/ AppStep \/ LoopStep \/ \E b \in Buckets : WorkerStep(b)
  <2>1. UNCHANGED callVars
    BY <1>9, AppMoves, LoopMoves, WorkerMoves DEF vars
  <2> QED
    BY <1>2, <2>1
<1> QED
  BY <1>3, <1>4, <1>5, <1>6, <1>7, <1>8, <1>9, Steps DEF LostStep, CallStep

LEMMA QueueStep ==
    ASSUME TypeOK, QueueAgrees, [Next]_vars
    PROVE  /\ QueueAgrees' /\ queue' \in Seq(Attempts) /\ taken' \in Seq(Attempts) /\ Len(taken') <= 1
           /\ loop' \in {"none", "wait", "pop", "check", "clean", "over"}
           /\ added' \subseteq Attempts /\ cleaned' \subseteq added'
<1> DEFINE Fits == /\ QueueAgrees' /\ queue' \in Seq(Attempts) /\ taken' \in Seq(Attempts)
                   /\ Len(taken') <= 1
                   /\ loop' \in {"none", "wait", "pop", "check", "clean", "over"}
                   /\ added' \subseteq Attempts /\ cleaned' \subseteq added'
<1>1. /\ queue \in Seq(Attempts) /\ taken \in Seq(Attempts) /\ Len(taken) <= 1
      /\ queue \in Seq(added) /\ taken \in Seq(added)
      /\ loop \in {"none", "wait", "pop", "check", "clean", "over"}
      /\ added \subseteq Attempts /\ cleaned \subseteq added
      /\ loop \in {"check", "clean"} <=> taken # <<>>
  BY DEF TypeOK, QueueAgrees
<1>2. CASE UNCHANGED <<queue, taken, loop, added, cleaned>>
  BY <1>1, <1>2 DEF QueueAgrees
<1>3. ASSUME NEW a \in Attempts, AddAttempt(a) PROVE Fits
  <2>1. /\ queue' = Append(queue, a) /\ added' = added \cup {a}
        /\ UNCHANGED <<loop, taken, cleaned>>
    BY <1>3 DEF AddAttempt, loopVars
  <2>2. queue \in Seq(added \cup {a}) /\ taken \in Seq(added \cup {a})
    BY <1>1
  <2> QED
    BY <1>1, <2>1, <2>2 DEF QueueAgrees
<1>4. CASE LoopWakes
  <2>1. UNCHANGED <<queue, taken, cleaned, added>> /\ loop = "wait" /\ loop' \in {"pop", "over"}
    BY <1>4 DEF LoopWakes, LoopUnchanged
  <2> QED
    BY <1>1, <2>1 DEF QueueAgrees
<1>5. CASE Pop
  <2>1. CASE queue = <<>>
    BY <1>1, <1>5, <2>1 DEF Pop, LoopUnchanged, QueueAgrees
  <2>2. CASE queue # <<>>
    <3>1. Head(queue) \in added /\ Tail(queue) \in Seq(added) /\ Tail(queue) \in Seq(Attempts)
      BY <1>1, <2>2
    <3>2. /\ loop' = "check" /\ taken' = <<Head(queue)>> /\ queue' = Tail(queue)
          /\ UNCHANGED <<cleaned, added>>
      BY <1>5, <2>2 DEF Pop, LoopUnchanged
    <3>3. <<Head(queue)>> \in Seq(added) /\ <<Head(queue)>> \in Seq(Attempts)
          /\ Len(<<Head(queue)>>) = 1 /\ <<Head(queue)>> # <<>>
      BY <1>1, <3>1
    <3> QED
      BY <1>1, <3>1, <3>2, <3>3 DEF QueueAgrees
  <2> QED
    BY <2>1, <2>2
<1>6. CASE Check
  BY <1>1, <1>6 DEF Check, LoopUnchanged, QueueAgrees
<1>7. CASE Clean
  <2>1. /\ loop = "clean" /\ loop' = "pop" /\ cleaned' = cleaned \cup {Head(taken)}
        /\ taken' = <<>> /\ UNCHANGED <<queue, added>>
    BY <1>7 DEF Clean, LoopUnchanged
  <2>2. Head(taken) \in added
    BY <1>1, <2>1
  <2> QED
    BY <1>1, <2>1, <2>2 DEF QueueAgrees
<1>8. CASE \/ UNCHANGED vars \/ Constructed \/ CallsClose \/ Stop \/ Joins
           \/ LostStep \/ CallStep \/ \E b \in Buckets : WorkerStep(b)
  <2>1. UNCHANGED <<queue, taken, loop, added, cleaned>>
    BY <1>8, LostMoves, CallMoves, WorkerMoves
       DEF vars, loopVars, Constructed, CallsClose, Stop, Joins
  <2> QED
    BY <1>2, <2>1
<1> QED
  BY <1>3, <1>4, <1>5, <1>6, <1>7, <1>8, Steps DEF AppStep, LoopStep
LEMMA WorkerTypes ==
    ASSUME TypeOK, NEW b \in Buckets, WorkerStep(b)
    PROVE  /\ worker' \in [Buckets -> {"none", "start", "record", "atrs", "over"}]
           /\ left' \in [Buckets -> 0..NumAtrs]
<1>1. /\ worker \in [Buckets -> {"none", "start", "record", "atrs", "over"}]
      /\ left \in [Buckets -> 0..NumAtrs]
  BY DEF TypeOK
<1>2. CASE WorkerStarts(b)
  BY <1>1, <1>2 DEF WorkerStarts
<1>3. CASE WorkerJoins(b)
  BY <1>1, <1>3, CleanupThreadsAssumption DEF WorkerJoins
<1>4. CASE WorkerCleans(b)
  <2>1. CASE left[b] = 0 \/ ~running
    BY <1>1, <1>4, <2>1 DEF WorkerCleans
  <2>2. CASE ~(left[b] = 0 \/ ~running)
    <3>1. left[b] - 1 \in 0..NumAtrs
      BY <1>1, <2>2, CleanupThreadsAssumption
    <3> QED
      BY <1>1, <1>4, <2>2, <3>1 DEF WorkerCleans
  <2> QED
    BY <2>1, <2>2
<1> QED
  BY <1>2, <1>3, <1>4 DEF WorkerStep

LEMMA TypeStep == ASSUME TypeOK, QueueAgrees, [Next]_vars PROVE TypeOK'
<1>1. /\ app' \in {"constructing", "open", "stopping", "joining", "closed"}
      /\ config' \in [client : BOOLEAN, lost : BOOLEAN] /\ running' \in BOOLEAN
  <2>1. CASE AppStep
    BY <2>1, AppMoves DEF TypeOK, AppStep, Constructed, CallsClose, Stop, Joins, AddAttempt, appVars
  <2>2. CASE ~AppStep
    <3>1. UNCHANGED appVars
      BY <2>2, Steps, LoopMoves, LostMoves, CallMoves, WorkerMoves DEF vars
    <3> QED
      BY <3>1 DEF TypeOK, appVars
  <2> QED
    BY <2>1, <2>2
<1>2. /\ lost' \in {"none", "test", "ask", "sent", "wait", "spawn", "join", "pause", "remove", "over"}
      /\ final' \in BOOLEAN
  <2>1. CASE LostStep
    BY <2>1 DEF TypeOK, LostStep, Test, Asks, Waits, Spawn, Pause, JoinWorkers, Remove
  <2>2. CASE CallStep
    BY <2>2, CallMoves DEF TypeOK, Returned
  <2>3. CASE ~LostStep /\ ~CallStep
    <3>1. UNCHANGED <<lost, final>>
      BY <2>3, Steps, AppMoves, LoopMoves, WorkerMoves DEF vars
    <3> QED
      BY <3>1 DEF TypeOK
  <2> QED
    BY <2>1, <2>2, <2>3
<1>3. /\ worker' \in [Buckets -> {"none", "start", "record", "atrs", "over"}]
      /\ left' \in [Buckets -> 0..NumAtrs]
  <2>1. CASE Spawn
    BY <2>1 DEF TypeOK, Spawn
  <2>2. CASE UNCHANGED workerVars
    BY <2>2 DEF TypeOK, workerVars
  <2>3. UNCHANGED workerVars \/ Spawn \/ \E b \in Buckets : WorkerStep(b)
    BY Steps, AppMoves, LoopMoves, CallMoves
       DEF vars, LostStep, Test, Asks, Waits, Pause, JoinWorkers, Remove
  <2> QED
    BY <2>1, <2>2, <2>3, WorkerTypes
<1>4. record' \subseteq Buckets /\ spared' \subseteq Buckets
  <2>1. record \subseteq Buckets /\ spared \subseteq Buckets
    BY DEF TypeOK
  <2>2. CASE Remove
    BY <2>1, <2>2 DEF Remove
  <2>3. ASSUME NEW b \in Buckets, WorkerStep(b) PROVE record' \subseteq Buckets /\ spared' \subseteq Buckets
    BY <2>1, <2>3, WorkerMoves
  <2>4. UNCHANGED <<record, spared>> \/ Remove \/ \E b \in Buckets : WorkerStep(b)
    BY Steps, AppMoves, LoopMoves, CallMoves
       DEF vars, LostStep, Test, Asks, Waits, Spawn, Pause, JoinWorkers, LostOnly
  <2> QED
    BY <2>1, <2>2, <2>3, <2>4
<1> QED
  BY <1>1, <1>2, <1>3, <1>4, CallTypesStep, QueueStep DEF TypeOK, CallTypes

-----------------------------------------------------------------------------
(* The end of lost_attempts_loop *)

LEMMA FinalStep == ASSUME TypeOK, FinalIsLast, [Next]_vars PROVE FinalIsLast'
<1>1. running \in BOOLEAN /\ final \in BOOLEAN
  BY DEF TypeOK
<1>2. CASE UNCHANGED <<lost, final, spared>> /\ (running' => running)
  BY <1>2 DEF FinalIsLast
<1>3. CASE LostStep
  <2>1. running' = running
    BY <1>3, LostMoves DEF appVars
  <2> QED
    BY <1>1, <1>3, <2>1
       DEF FinalIsLast, LostStep, Test, Asks, Waits, Spawn, Pause, JoinWorkers, Remove, LostOnly
<1>4. CASE CallStep
  <2>1. running' = running /\ UNCHANGED <<final, spared>>
    BY <1>4, CallMoves DEF appVars
  <2> QED
    BY <1>4, <2>1, CallMoves DEF FinalIsLast, Returned
<1>5. CASE ~LostStep /\ ~CallStep
  <2>1. UNCHANGED <<lost, final, spared>> /\ running' \in {running, FALSE}
    BY <1>5, Steps, AppMoves, LoopMoves, WorkerMoves DEF vars, appVars
  <2> QED
    BY <1>2, <2>1
<1> QED
  BY <1>3, <1>4, <1>5

LEMMA WorkersStep == ASSUME TypeOK, WorkersAreJoined, [Next]_vars PROVE WorkersAreJoined'
<1>1. CASE UNCHANGED <<lost, worker>>
  BY <1>1 DEF WorkersAreJoined, WorkersDone
<1>2. CASE LostStep
  <2>1. CASE Spawn
    BY <2>1 DEF WorkersAreJoined, WorkersDone, Spawn
  <2>2. CASE ~Spawn
    <3>1. worker' = worker /\ (lost = "join" => WorkersDone)
      BY <1>2, <2>2
         DEF LostStep, Test, Asks, Waits, Pause, JoinWorkers, Remove, workerVars
    <3> QED
      BY <3>1 DEF WorkersAreJoined, WorkersDone
  <2> QED
    BY <2>1, <2>2
<1>3. CASE CallStep
  <2>1. worker' = worker /\ (lost = "join" => lost' = "join")
    BY <1>3, CallMoves DEF workerVars
  <2> QED
    BY <2>1 DEF WorkersAreJoined, WorkersDone
<1>4. ASSUME NEW b \in Buckets, WorkerStep(b) PROVE WorkersAreJoined'
  BY <1>4, WorkerMoves DEF WorkersAreJoined, WorkersDone
<1>5. CASE UNCHANGED vars \/ AppStep \/ LoopStep
  <2>1. UNCHANGED <<lost, worker>>
    BY <1>5, AppMoves, LoopMoves DEF vars, workerVars
  <2> QED
    BY <1>1, <2>1
<1> QED
  BY <1>2, <1>3, <1>4, <1>5, Steps

LEMMA RecordStep ==
    ASSUME TypeOK, FinalIsLast, WorkersAreJoined, RecordIsSpared, [Next]_vars
    PROVE  RecordIsSpared'
<1>1. CASE UNCHANGED <<record, spared>>
  BY <1>1 DEF RecordIsSpared
<1>2. CASE Remove
  BY <1>2 DEF RecordIsSpared, Remove
<1>3. ASSUME NEW b \in Buckets, WorkerStep(b) PROVE RecordIsSpared'
  <2>1. lost = "join"
    BY <1>3, WorkerMoves DEF WorkersAreJoined, WorkersDone
  <2>2. spared = Buckets
    BY <2>1 DEF FinalIsLast
  <2> QED
    BY <1>3, <2>2, WorkerMoves DEF RecordIsSpared
<1>4. UNCHANGED <<record, spared>> \/ Remove \/ \E b \in Buckets : WorkerStep(b)
  BY Steps, AppMoves, LoopMoves, CallMoves
     DEF vars, LostStep, Test, Asks, Waits, Spawn, Pause, JoinWorkers, LostOnly
<1> QED
  BY <1>1, <1>2, <1>3, <1>4

LEMMA ClosedStep == ASSUME ClosedIsJoined, [Next]_vars PROVE ClosedIsJoined'
<1>1. CASE UNCHANGED <<app, loop, lost>>
  BY <1>1 DEF ClosedIsJoined, Joined
<1>2. CASE AppStep
  BY <1>2, AppMoves DEF ClosedIsJoined, Joined, loopVars
<1>3. CASE LoopStep
  BY <1>3, LoopMoves DEF ClosedIsJoined, Joined, appVars
<1>4. CASE LostStep
  BY <1>4, LostMoves DEF ClosedIsJoined, Joined, appVars
<1>5. CASE CallStep
  BY <1>5, CallMoves DEF ClosedIsJoined, Joined, appVars, loopVars
<1>6. CASE UNCHANGED vars \/ \E b \in Buckets : WorkerStep(b)
  <2>1. UNCHANGED <<app, loop, lost>>
    BY <1>6, WorkerMoves DEF vars, appVars, loopVars
  <2> QED
    BY <1>1, <2>1
<1> QED
  BY <1>2, <1>3, <1>4, <1>5, <1>6, Steps

-----------------------------------------------------------------------------
(* The theorems *)

LEMMA InitInv == Init => IInv
<1> SUFFICES ASSUME Init PROVE IInv
  OBVIOUS
<1>1. TypeOK
  <2>1. Cardinality({}) = 0 /\ Cardinality(Buckets) \in Nat
    BY Counted
  <2>2. queue \in Seq(Attempts) /\ taken \in Seq(Attempts) /\ Len(taken) <= 1
    BY DEF Init
  <2>3. count \in 0..Cardinality(Buckets) + 1 /\ Cardinality(opening) <= count
    BY <2>1 DEF Init
  <2>4. config.client \in BOOLEAN /\ config.lost \in BOOLEAN
    BY DEF Init
  <2>5. /\ running \in BOOLEAN
        /\ loop \in {"none", "wait"} /\ lost \in {"none", "test"}
    BY <2>4 DEF Init
  <2>6. /\ worker \in [Buckets -> {"none", "start", "record", "atrs", "over"}]
        /\ left \in [Buckets -> 0..NumAtrs]
    BY CleanupThreadsAssumption DEF Init
  <2> QED
    BY <2>2, <2>3, <2>5, <2>6 DEF Init, TypeOK
<1>2. QueueAgrees
  BY DEF Init, QueueAgrees
<1>3. FinalIsLast /\ WorkersAreJoined /\ RecordIsSpared /\ ClosedIsJoined
  BY DEF Init, FinalIsLast, WorkersAreJoined, WorkersDone, RecordIsSpared, ClosedIsJoined
<1> QED
  BY <1>1, <1>2, <1>3 DEF IInv

LEMMA NextInv == ASSUME IInv, [Next]_vars PROVE IInv'
BY TypeStep, QueueStep, FinalStep, WorkersStep, RecordStep, ClosedStep DEF IInv

\* The threads and their calls agree with each other as IInv says, always.
THEOREM Invariance == Spec => []IInv
BY InitInv, NextInv, PTL DEF Spec

\* Every variable is what it is declared to be; above all count, which is never less
\* than the number of answers still to come (get_and_open_buckets).
THEOREM TypeCorrect == Spec => []TypeOK
<1>1. IInv => TypeOK
  BY DEF IInv
<1> QED
  BY <1>1, Invariance, PTL

\* However often requests and threads fail, or a wait ends too early: when the thread
\* that searches for lost attempts is over it has left no worker, and no client record
\* but those it could not remove (lost_attempts_loop).
THEOREM LostLeavesNothing == Spec => []LostEndsClean
<1>1. IInv => LostEndsClean
  BY DEF IInv, LostEndsClean, RecordIsSpared, WorkersAreJoined, WorkersDone
<1> QED
  BY <1>1, Invariance, PTL

\* Nothing is cleaned and no client record is touched after close has returned, though
\* attempts may still be added (transactions::close).
THEOREM NothingAfterClose == Spec => ClosedIsQuiet
<1> DEFINE A == app = "closed" => UNCHANGED <<cleaned, taken, record>>
<1>1. IInv /\ [Next]_vars => [A]_vars
  <2> SUFFICES ASSUME IInv, [Next]_vars, app = "closed" PROVE UNCHANGED <<cleaned, taken, record>>
    OBVIOUS
  <2>1. Joined /\ WorkersDone
    BY DEF IInv, ClosedIsJoined, Joined, WorkersAreJoined
  <2>2. ~LoopStep /\ ~LostStep
    BY <2>1, LoopMoves, LostMoves DEF Joined
  <2>3. \A b \in Buckets : ~WorkerStep(b)
    BY <2>1, WorkerMoves DEF WorkersDone
  <2> QED
    BY <2>2, <2>3, Steps, AppMoves, CallMoves DEF vars, loopVars
<1> QED
  BY <1>1, Invariance, PTL DEF Spec, ClosedIsQuiet
=============================================================================
