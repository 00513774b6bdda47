--------------------------- MODULE QueryMode_proofs ---------------------------
(***************************************************************************)
(* Theorems about QueryMode, for any set of operations, any number of      *)
(* threads and any faults: the counts of waitable_op_list, the mutual      *)
(* exclusion of operations and commit, and the entry into query mode.      *)
(***************************************************************************)
EXTENDS QueryMode, FiniteSetTheorems, TLAPS

-----------------------------------------------------------------------------
(* The inductive invariant *)

CountedStages == Stages \ {"idle", "mode", "enter", "done"}
FlyingStages  == {"want", "begin", "begin_sent", "send", "sent"}
Beginning     == {"begin", "begin_sent"}

\* One query at most is about to begin the work or waits for the answer, in query mode
\* and before the node is known.
WorkBegins ==
    /\ mode = "KV" => begun = 0 /\ \A o \in Ops : at[o] \notin Beginning
    /\ \A o, p \in Ops : at[o] \in Beginning /\ at[p] \in Beginning => o = p
    /\ \A o \in Ops : at[o] \in Beginning => ~node
    /\ \A o \in Ops : at[o] = "begin" => begun = 0
    /\ begun <= 1

\* A statement has passed get_mode, and a query has passed set_query_mode, with the
\* node known.
NodesAreNamed ==
    \A o \in Ops :
        /\ at[o] # "idle" => path[o] # "none"
        /\ path[o] = "statement" /\ at[o] \notin {"idle", "mode"} => node
        /\ path[o] = "query" /\ at[o] \in {"send", "sent"} => node

\* Unless rollback(cb) is called nobody works while the operations are blocked, and
\* they are blocked before the attempt is done.
Exclusive ==
    /\ \A o \in Ops : at[o] # "told"
    /\ ~allowed => \A o \in Ops : at[o] \notin CountedStages
    /\ isDone => ~allowed
    /\ fin \in {"commit_mode", "commit_sent", "rb_mode", "rb_sent"} => ~allowed

IInv ==
    /\ TypeOK /\ WorkBegins /\ NodesAreNamed
    /\ IsFiniteSet(Counted)
    /\ user = "no" => Exclusive
    /\ CountsAreExact

-----------------------------------------------------------------------------
(* Steps that are not an operation's *)

\* What the ends of the attempt, rollback(cb) and the clock leave alone.
Quiet == UNCHANGED <<count, inFlight, mode, node, asleep, opVars, errs, causes, staged, told, begun>>

OtherStep ==
    \/ EndStep \/ UserRollback \/ Expire
    \/ \E c \in Ops \cup {App} : ExplicitRollback(c)

LEMMA OthersAreQuiet ==
    ASSUME OtherStep
    PROVE  Quiet
BY DEF OtherStep, Quiet, EndStep, LogicReturns, CommitBlock, Commit, CommitAnswer, Rollback,
       UserRollback, Expire, ExplicitRollback, listVars, opVars, endVars, envVars

LEMMA OthersKeepTypes ==
    ASSUME TypeOK, OtherStep
    PROVE  TypeOK'
<1>1. Quiet
  BY OthersAreQuiet
<1>2. /\ allowed' \in BOOLEAN /\ isDone' \in BOOLEAN /\ expired' \in BOOLEAN
      /\ faults' \in Nat
      /\ fin' \in {"logic", "commit_wait", "commit_mode", "commit_sent", "rb_wait", "rb_mode",
                   "rb_sent", "over"}
      /\ user' \in {"no", "mode", "rb_wait", "rb_mode", "rb_sent", "over"}
      /\ result' \in {"none", "KV", "QUERY"}
  <2>1. CASE LogicReturns
    BY <2>1 DEF TypeOK, LogicReturns, AfterErrors, listVars, envVars
  <2>2. CASE CommitBlock
    BY <2>2 DEF TypeOK, CommitBlock, AfterErrors, envVars
  <2>3. CASE Commit
    BY <2>3 DEF TypeOK, Commit, listVars, envVars
  <2>4. CASE CommitAnswer
    BY <2>4 DEF TypeOK, CommitAnswer, listVars
  <2>5. CASE Rollback
    BY <2>5 DEF TypeOK, Rollback, RollbackBlock, RollbackMode, RollbackAnswer, envVars
  <2>6. CASE UserRollback
    BY <2>6 DEF TypeOK, UserRollback, RollbackBlock, RollbackMode, RollbackAnswer, envVars
  <2>7. CASE Expire
    BY <2>7 DEF TypeOK, Expire, listVars, endVars
  <2>8. CASE \E c \in Ops \cup {App} : ExplicitRollback(c)
    BY <2>8 DEF TypeOK, ExplicitRollback, listVars, envVars
  <2>9. QED
    BY <2>1, <2>2, <2>3, <2>4, <2>5, <2>6, <2>7, <2>8 DEF OtherStep, EndStep
<1>3. QED
  BY <1>1, <1>2 DEF TypeOK, Quiet, opVars

-----------------------------------------------------------------------------
(* Steps of an operation *)

Step(o) == OpStep(o) \/ \E c \in Ops \cup {App} : Call(o, c)

LEMMA StepsAreTyped ==
    ASSUME NEW o \in Ops, TypeOK, Step(o)
    PROVE  \E s \in Stages : at' = [at EXCEPT ![o] = s]
<1>1. CASE \E c \in Ops \cup {App} : Call(o, c)
  BY <1>1 DEF Call, Stages
<1>2. CASE ModeKnown(o)
  BY <1>2 DEF ModeKnown, MoveTo, Stages
<1>3. CASE Enter(o)
  BY <1>3 DEF Enter, MoveTo, Stages
<1>4. CASE GoesOn(o)
  BY <1>4 DEF GoesOn, Stages
<1>5. CASE SetQueryMode(o)
  BY <1>5 DEF SetQueryMode, TakeMode, Stages
<1>6. CASE Wake(o)
  <2>1. CASE at' = at
    BY <2>1, <1>6 DEF Wake, Stages, TypeOK
  <2>2. CASE at' # at
    BY <2>2, <1>6 DEF Wake, TakeMode, Stages
  <2>3. QED
    BY <2>1, <2>2
<1>7. CASE NodeKnown(o)
  BY <1>7 DEF NodeKnown, Stages
<1>8. CASE BeginWork(o)
  BY <1>8 DEF BeginWork, Complete, MoveTo, Stages
<1>9. CASE BeginAnswer(o)
  BY <1>9 DEF BeginAnswer, Complete, MoveTo, Stages
<1>10. CASE Send(o)
  BY <1>10 DEF Send, Complete, MoveTo, Stages
<1>11. CASE Answer(o)
  BY <1>11 DEF Answer, Complete, Stages
<1>12. CASE CallbackReturns(o) \/ CallbackThrows(o)
  BY <1>12 DEF CallbackReturns, CallbackThrows, CallbackOver, Stages
<1>13. QED
  BY <1>1, <1>2, <1>3, <1>4, <1>5, <1>6, <1>7, <1>8, <1>9, <1>10, <1>11, <1>12 DEF Step, OpStep

LEMMA NotifiedAreAsleep ==
    ASSUME NEW flight
    PROVE  Notified(flight) \subseteq asleep
BY DEF Notified

LEMMA CompletesOrMoves ==
    ASSUME NEW o \in Ops, TypeOK,
           \/ \E s \in Stages : MoveTo(o, s)
           \/ \E e \in SUBSET Kinds : Complete(o, e)
    PROVE  /\ count' \in Int /\ inFlight' \in Int
           /\ errs' \in SUBSET Kinds /\ causes' \in SUBSET Kinds
           /\ asleep' \subseteq asleep
BY NotifiedAreAsleep DEF TypeOK, MoveTo, Complete

LEMMA KindsAreKinds ==
    /\ {} \in SUBSET Kinds /\ {"plain"} \in SUBSET Kinds /\ {"fatal"} \in SUBSET Kinds
    /\ Failures \subseteq SUBSET Kinds /\ Cached \subseteq SUBSET Kinds
    /\ \A o \in Ops : FailuresOf(o) \subseteq Failures
BY DEF Kinds, Failures, Cached, FailuresOf, GetFailures, InsertFailures, ReplaceFailures,
       RemoveFailures, Ops

LEMMA StepsKeepTypes ==
    ASSUME NEW o \in Ops, TypeOK, WorkBegins, Step(o)
    PROVE  TypeOK'
<1>1. at' \in [Ops -> Stages]
  BY StepsAreTyped DEF TypeOK
<1>2. /\ count' \in Int /\ inFlight' \in Int
      /\ allowed' = allowed /\ isDone' = isDone /\ expired' = expired
      /\ faults' \in Nat /\ begun' \in Nat
      /\ mode' \in {"KV", "QUERY"} /\ (mode = "QUERY" => mode' = "QUERY")
      /\ node' \in BOOLEAN /\ (node' => node \/ at[o] = "begin_sent")
      /\ onIo' \in SUBSET Ops
      /\ caller' \in [Ops -> Ops \cup {App}]
      /\ path' \in [Ops -> {"none", "kv", "statement", "query"}]
      /\ staged' \in SUBSET Ops /\ told' \in SUBSET Ops
      /\ errs' \in SUBSET Kinds /\ causes' \in SUBSET Kinds
      /\ UNCHANGED endVars
      /\ \/ at'[o] = "flight" /\ asleep' \subseteq asleep \cup {o}
         \/ at[o] # "flight" /\ asleep' \subseteq asleep
         \/ o \notin asleep /\ asleep' \subseteq asleep
  <2>1. CASE \E c \in Ops \cup {App} : Call(o, c)
    BY <2>1 DEF TypeOK, Call, listVars, envVars
  <2>2. CASE ModeKnown(o)
    BY <2>2 DEF TypeOK, ModeKnown, MoveTo, envVars
  <2>3. CASE Enter(o)
    BY <2>3, NotifiedAreAsleep DEF TypeOK, Enter, MoveTo, Kinds, envVars
  <2>4. CASE GoesOn(o)
    BY <2>4, NotifiedAreAsleep DEF TypeOK, GoesOn, envVars
  <2>5. CASE SetQueryMode(o)
    BY <2>5 DEF TypeOK, SetQueryMode, TakeMode, envVars
  <2>6. CASE Wake(o)
    BY <2>6 DEF TypeOK, Wake, TakeMode, envVars
  <2>7. CASE NodeKnown(o)
    BY <2>7 DEF TypeOK, NodeKnown, envVars
  <2>8. CASE BeginWork(o)
    <3>1. \/ \E s \in Stages : MoveTo(o, s)
          \/ \E e \in SUBSET Kinds : Complete(o, e)
      BY <2>8, KindsAreKinds DEF BeginWork, Stages
    <3>2. QED
      BY <2>8, <3>1, CompletesOrMoves DEF TypeOK, BeginWork, envVars
  <2>9. CASE BeginAnswer(o)
    <3>1. \/ \E s \in Stages : MoveTo(o, s)
          \/ \E e \in SUBSET Kinds : Complete(o, e)
      BY <2>9, KindsAreKinds DEF BeginAnswer, Stages
    <3>2. node' \in BOOLEAN /\ faults' \in Nat
      <4>1. faults' = faults \/ faults' = faults + 1
        BY <2>9 DEF BeginAnswer
      <4>2. node' \in BOOLEAN
        BY <2>9 DEF BeginAnswer
      <4>3. QED
        BY <4>1, <4>2 DEF TypeOK
    <3>3. at[o] # "flight" /\ at[o] = "begin_sent"
      BY <2>9 DEF BeginAnswer
    <3>4. /\ onIo' \in SUBSET Ops
          /\ UNCHANGED <<allowed, mode, path, caller, isDone, staged, told, endVars, expired, begun>>
      BY <2>9 DEF BeginAnswer, TypeOK
    <3>5. QED
      BY <3>1, <3>2, <3>3, <3>4, CompletesOrMoves DEF TypeOK
  <2>10. CASE Send(o)
    <3>1. \/ \E s \in Stages : MoveTo(o, s)
          \/ \E e \in SUBSET Kinds : Complete(o, e)
      BY <2>10, KindsAreKinds DEF Send, Stages
    <3>2. QED
      BY <2>10, <3>1, CompletesOrMoves DEF TypeOK, Send, envVars
  <2>11. CASE Answer(o)
    <3>1. \E e \in SUBSET Kinds : Complete(o, e)
      BY <2>11, KindsAreKinds DEF Answer
    <3>2. QED
      BY <2>11, <3>1, CompletesOrMoves DEF TypeOK, Answer
  <2>12. CASE CallbackReturns(o) \/ CallbackThrows(o)
    <3>1. errs' \in SUBSET Kinds /\ causes' \in SUBSET Kinds
      <4>1. CASE CallbackReturns(o)
        BY <4>1 DEF TypeOK, CallbackReturns
      <4>2. CASE CallbackThrows(o)
        <5>1. causes' = causes \/ causes' = causes \cup {"plain"}
          BY <4>2 DEF CallbackThrows
        <5>2. errs' = errs \cup {"plain"}
          BY <4>2 DEF CallbackThrows
        <5>3. QED
          BY <5>1, <5>2 DEF TypeOK, Kinds
      <4>3. QED
        BY <2>12, <4>1, <4>2
    <3>2. QED
      BY <2>12, <3>1, NotifiedAreAsleep
      DEF TypeOK, CallbackReturns, CallbackThrows, CallbackOver, Callbacks, envVars
  <2>13. QED
    BY <2>1, <2>2, <2>3, <2>4, <2>5, <2>6, <2>7, <2>8, <2>9, <2>10, <2>11, <2>12 DEF Step, OpStep
<1>3. node' => mode' = "QUERY"
  BY <1>2 DEF TypeOK, WorkBegins, Beginning
<1>4. asleep' \subseteq {p \in Ops : at'[p] = "flight"}
  <2>1. \A p \in Ops : p # o => at'[p] = at[p]
    BY StepsAreTyped DEF TypeOK
  <2>2. asleep \subseteq {p \in Ops : at[p] = "flight"}
    BY DEF TypeOK
  <2>3. QED
    BY <1>2, <2>1, <2>2
<1>5. QED
  BY <1>1, <1>2, <1>3, <1>4 DEF TypeOK, endVars

-----------------------------------------------------------------------------
(* The entry into query mode *)

\* What a step of an operation is to the entry into query mode: it takes the mode,
\* sends BEGIN WORK, ends the wait for it, or has nothing to do with it.
LEMMA StepsBegin ==
    ASSUME NEW o \in Ops, TypeOK, Step(o)
    PROVE  \/ /\ mode = "KV" /\ mode' = "QUERY" /\ at'[o] = "begin" /\ UNCHANGED <<node, begun>>
           \/ /\ at[o] = "begin" /\ at'[o] \notin {"begin"} /\ UNCHANGED <<mode, node>>
              /\ begun' = begun \/ (at'[o] = "begin_sent" /\ begun' = begun + 1)
              /\ at'[o] \notin {"send", "sent"}
           \/ /\ at[o] = "begin_sent" /\ at'[o] \notin Beginning /\ UNCHANGED <<mode, begun>>
              /\ node' \in BOOLEAN /\ (at'[o] \in {"send", "sent"} => node')
           \/ /\ at[o] \notin Beginning /\ at'[o] \notin Beginning
              /\ UNCHANGED <<mode, node, begun>>
<1> at' \in [Ops -> Stages] /\ \E s \in Stages : at' = [at EXCEPT ![o] = s]
  BY StepsAreTyped DEF TypeOK
<1>1. CASE \E c \in Ops \cup {App} : Call(o, c)
  BY <1>1 DEF TypeOK, Call, listVars, Beginning
<1>2. CASE ModeKnown(o)
  BY <1>2 DEF TypeOK, ModeKnown, MoveTo, Beginning
<1>3. CASE Enter(o)
  BY <1>3 DEF TypeOK, Enter, MoveTo, Beginning
<1>4. CASE GoesOn(o)
  BY <1>4 DEF TypeOK, GoesOn, Beginning
<1>5. CASE SetQueryMode(o)
  BY <1>5 DEF TypeOK, SetQueryMode, TakeMode, Beginning
<1>6. CASE Wake(o)
  BY <1>6 DEF TypeOK, Wake, TakeMode, Beginning
<1>7. CASE NodeKnown(o)
  BY <1>7 DEF TypeOK, NodeKnown, Beginning
<1>8. CASE BeginWork(o)
  BY <1>8 DEF TypeOK, BeginWork, Complete, MoveTo, Beginning
<1>9. CASE BeginAnswer(o)
  BY <1>9 DEF TypeOK, BeginAnswer, Complete, MoveTo, Beginning
<1>10. CASE Send(o)
  BY <1>10 DEF TypeOK, Send, Complete, MoveTo, Beginning
<1>11. CASE Answer(o)
  BY <1>11 DEF TypeOK, Answer, Complete, Beginning
<1>12. CASE CallbackReturns(o) \/ CallbackThrows(o)
  BY <1>12 DEF TypeOK, CallbackReturns, CallbackThrows, CallbackOver, Callbacks, Beginning
<1>13. QED
  BY <1>1, <1>2, <1>3, <1>4, <1>5, <1>6, <1>7, <1>8, <1>9, <1>10, <1>11, <1>12 DEF Step, OpStep

LEMMA StepsBeginOnce ==
    ASSUME NEW o \in Ops, TypeOK, WorkBegins, Step(o)
    PROVE  WorkBegins'
<1>1. \A p \in Ops : p # o => at'[p] = at[p]
  BY StepsAreTyped DEF TypeOK
<1>2. begun \in Nat
  BY DEF TypeOK
<1>3. CASE mode = "KV" /\ mode' = "QUERY" /\ at'[o] = "begin" /\ UNCHANGED <<node, begun>>
  <2>1. begun' = 0 /\ ~node' /\ \A p \in Ops : p # o => at'[p] \notin Beginning
    BY <1>1, <1>3 DEF WorkBegins, TypeOK
  <2>2. QED
    BY <2>1, <1>3 DEF WorkBegins, Beginning
<1>4. CASE at[o] \in Beginning
  <2>1. \A p \in Ops : p # o => at'[p] \notin Beginning
    BY <1>1, <1>4 DEF WorkBegins
  <2>2. mode' = "QUERY" /\ mode = "QUERY"
    BY <1>4, StepsBegin DEF WorkBegins, TypeOK, Beginning
  <2>3. begun' <= 1 /\ (at'[o] \in Beginning => ~node') /\ (at'[o] = "begin" => begun' = 0)
    BY <1>2, <1>4, StepsBegin DEF WorkBegins, Beginning
  <2>4. QED
    BY <2>1, <2>2, <2>3 DEF WorkBegins, Beginning
<1>5. CASE /\ at[o] \notin Beginning /\ at'[o] \notin Beginning
           /\ UNCHANGED <<mode, node, begun>>
  BY <1>1, <1>5 DEF WorkBegins, Beginning
<1>6. QED
  BY <1>3, <1>4, <1>5, StepsBegin DEF Beginning

\* What an operation is, and where it goes from there.
LEMMA StepsName ==
    ASSUME NEW o \in Ops, TypeOK, NodesAreNamed, Step(o)
    PROVE  /\ \A p \in Ops : p # o => path'[p] = path[p]
           /\ \/ /\ at[o] = "idle" /\ path'[o] # "none"
                 /\ (path'[o] = "statement" => at'[o] = "mode") /\ at'[o] \notin {"send", "sent"}
              \/ /\ at[o] # "idle" /\ path'[o] = path[o]
                 /\ at[o] = "mode" => node
                 /\ path[o] = "query" /\ at'[o] \in {"send", "sent"} =>
                        node \/ at[o] = "begin_sent"
                 /\ at'[o] # "mode"
<1> at' \in [Ops -> Stages] /\ \E s \in Stages : at' = [at EXCEPT ![o] = s]
  BY StepsAreTyped DEF TypeOK
<1>1. CASE \E c \in Ops \cup {App} : Call(o, c)
  <2>1. path' \in [Ops -> {"none", "kv", "statement", "query"}]
        /\ \A p \in Ops : p # o => path'[p] = path[p]
    BY <1>1 DEF TypeOK, Call
  <2>2. path'[o] \in {"query", "kv", "statement"}
    BY <1>1 DEF TypeOK, Call
  <2>3. at[o] = "idle" /\ at'[o] = IF path'[o] = "statement" THEN "mode" ELSE "enter"
    BY <1>1 DEF TypeOK, Call
  <2>4. QED
    BY <2>1, <2>2, <2>3
<1>2. CASE ModeKnown(o)
  BY <1>2 DEF TypeOK, ModeKnown, MoveTo
<1>3. CASE Enter(o)
  BY <1>3 DEF TypeOK, Enter, MoveTo
<1>4. CASE GoesOn(o)
  BY <1>4 DEF TypeOK, GoesOn
<1>5. CASE SetQueryMode(o)
  BY <1>5 DEF TypeOK, SetQueryMode, TakeMode
<1>6. CASE Wake(o)
  BY <1>6 DEF TypeOK, Wake, TakeMode
<1>7. CASE NodeKnown(o)
  BY <1>7 DEF TypeOK, NodeKnown
<1>8. CASE BeginWork(o)
  BY <1>8 DEF TypeOK, BeginWork, Complete, MoveTo
<1>9. CASE BeginAnswer(o)
  BY <1>9 DEF TypeOK, BeginAnswer, Complete, MoveTo
<1>10. CASE Send(o)
  BY <1>10 DEF TypeOK, NodesAreNamed, Send, Complete, MoveTo
<1>11. CASE Answer(o)
  BY <1>11 DEF TypeOK, Answer, Complete
<1>12. CASE CallbackReturns(o) \/ CallbackThrows(o)
  BY <1>12 DEF TypeOK, CallbackReturns, CallbackThrows, CallbackOver, Callbacks
<1>13. QED
  BY <1>1, <1>2, <1>3, <1>4, <1>5, <1>6, <1>7, <1>8, <1>9, <1>10, <1>11, <1>12 DEF Step, OpStep

LEMMA StepsNameNodes ==
    ASSUME NEW o \in Ops, TypeOK, WorkBegins, NodesAreNamed, Step(o)
    PROVE  NodesAreNamed'
<1>1. \A p \in Ops : p # o => at'[p] = at[p] /\ path'[p] = path[p]
  BY StepsAreTyped, StepsName DEF TypeOK
<1>2. node => node'
  BY StepsBegin DEF WorkBegins, Beginning
<1>3. /\ at'[o] # "idle" => path'[o] # "none"
      /\ path'[o] = "statement" /\ at'[o] \notin {"idle", "mode"} => node'
      /\ path'[o] = "query" /\ at'[o] \in {"send", "sent"} => node'
  BY <1>2, StepsName, StepsBegin DEF NodesAreNamed, Beginning
<1>4. QED
  BY <1>1, <1>2, <1>3 DEF NodesAreNamed

-----------------------------------------------------------------------------
(* Counting *)

At(S)  == {p \in Ops : at[p] \in S}
One(P) == IF P THEN 1 ELSE 0

LEMMA CountsFollow ==
    ASSUME NEW o \in Ops, TypeOK, Step(o), NEW CONSTANT S, IsFiniteSet(At(S))
    PROVE  /\ IsFiniteSet(At(S)')
           /\ Cardinality(At(S)') = Cardinality(At(S)) + One(at'[o] \in S) - One(at[o] \in S)
<1>1. \A p \in Ops : p # o => at'[p] = at[p]
  BY StepsAreTyped DEF TypeOK
<1>2. Cardinality(At(S)) \in Nat
  BY FS_CardinalityType
<1>3. CASE at'[o] \in S
  <2>1. At(S)' = At(S) \cup {o}
    BY <1>1, <1>3 DEF At
  <2>2. o \in At(S) <=> at[o] \in S
    BY DEF At
  <2>3. QED
    BY <1>2, <1>3, <2>1, <2>2, FS_AddElement DEF One
<1>4. CASE at'[o] \notin S
  <2>1. At(S)' = At(S) \ {o}
    BY <1>1, <1>4 DEF At
  <2>2. o \in At(S) <=> at[o] \in S
    BY DEF At
  <2>3. QED
    BY <1>2, <1>4, <2>1, <2>2, FS_RemoveElement DEF One
<1>5. QED
  BY <1>3, <1>4

LEMMA CountedAndInFlight ==
    ASSUME TypeOK
    PROVE  Counted = At(CountedStages) /\ InFlight = At(FlyingStages)
BY DEF TypeOK, Counted, InFlight, At, CountedStages, FlyingStages, Stages, Callbacks

\* Each step counts what it does, as long as nobody is told by check_if_done.
LEMMA StepsCount ==
    ASSUME NEW o \in Ops, TypeOK, Exclusive, Step(o)
    PROVE  /\ count' = count + One(at'[o] \in CountedStages) - One(at[o] \in CountedStages)
           /\ inFlight' = inFlight + One(at'[o] \in FlyingStages) - One(at[o] \in FlyingStages)
           /\ at'[o] # "told"
           /\ at'[o] \in CountedStages => allowed \/ at[o] \in CountedStages
           /\ UNCHANGED <<allowed, isDone, endVars>>
<1> at' \in [Ops -> Stages] /\ \E s \in Stages : at' = [at EXCEPT ![o] = s]
  BY StepsAreTyped DEF TypeOK
<1> USE DEF CountedStages, FlyingStages, One
<1> count \in Int /\ inFlight \in Int
  BY DEF TypeOK
<1>1. CASE \E c \in Ops \cup {App} : Call(o, c)
  BY <1>1 DEF TypeOK, Call, listVars
<1>2. CASE ModeKnown(o)
  BY <1>2 DEF TypeOK, ModeKnown, MoveTo
<1>3. CASE Enter(o)
  BY <1>3 DEF TypeOK, Exclusive, Enter, MoveTo, Stages
<1>4. CASE GoesOn(o)
  BY <1>4 DEF Exclusive, GoesOn
<1>5. CASE SetQueryMode(o)
  BY <1>5 DEF TypeOK, SetQueryMode, TakeMode, Stages
<1>6. CASE Wake(o)
  BY <1>6 DEF TypeOK, Wake, TakeMode, Stages
<1>7. CASE NodeKnown(o)
  BY <1>7 DEF TypeOK, NodeKnown, Stages
<1>8. CASE BeginWork(o)
  BY <1>8 DEF TypeOK, BeginWork, Complete, MoveTo, Stages
<1>9. CASE BeginAnswer(o)
  <2>1. at[o] = "begin_sent" /\ UNCHANGED <<allowed, isDone, endVars>>
    BY <1>9 DEF BeginAnswer
  <2>2. \/ MoveTo(o, "send")
        \/ \E e \in Failures : Complete(o, e)
    BY <1>9 DEF BeginAnswer
  <2>3. CASE MoveTo(o, "send")
    BY <2>1, <2>3 DEF TypeOK, MoveTo, Stages
  <2>4. CASE \E e \in Failures : Complete(o, e)
    BY <2>1, <2>4 DEF TypeOK, Complete, Stages
  <2>5. QED
    BY <2>2, <2>3, <2>4
<1>10. CASE Send(o)
  BY <1>10 DEF TypeOK, Send, Complete, MoveTo, Stages
<1>11. CASE Answer(o)
  <2>1. at[o] = "sent" /\ UNCHANGED <<allowed, isDone, endVars>>
    BY <1>11 DEF Answer
  <2>2. \E e : Complete(o, e)
    BY <1>11 DEF Answer
  <2>3. QED
    BY <2>1, <2>2 DEF TypeOK, Complete, Stages
<1>12. CASE CallbackReturns(o) \/ CallbackThrows(o)
  BY <1>12 DEF TypeOK, CallbackReturns, CallbackThrows, CallbackOver, Callbacks, Stages
<1>13. QED
  BY <1>1, <1>2, <1>3, <1>4, <1>5, <1>6, <1>7, <1>8, <1>9, <1>10, <1>11, <1>12 DEF Step, OpStep

-----------------------------------------------------------------------------
(* The invariant *)

LEMMA StepsKeepInvariant ==
    ASSUME NEW o \in Ops, IInv, Step(o)
    PROVE  IInv'
<1>1. TypeOK' /\ WorkBegins' /\ NodesAreNamed'
  BY StepsKeepTypes, StepsBeginOnce, StepsNameNodes DEF IInv
<1>2. IsFiniteSet(Counted) /\ IsFiniteSet(InFlight) /\ InFlight \subseteq Counted
  <2>1. InFlight \in SUBSET Counted
    BY DEF InFlight
  <2>2. QED
    BY <2>1, FS_Subset DEF IInv
<1>3. /\ Counted = At(CountedStages) /\ InFlight = At(FlyingStages)
      /\ Counted' = At(CountedStages)' /\ InFlight' = At(FlyingStages)'
  <2>1. /\ at' \in [Ops -> Stages]
    BY <1>1 DEF TypeOK
  <2>2. Counted' = At(CountedStages)' /\ InFlight' = At(FlyingStages)'
    BY <2>1 DEF Counted, InFlight, At, CountedStages, FlyingStages, Stages, Callbacks
  <2>3. QED
    BY <2>2, CountedAndInFlight DEF IInv
<1>4. IsFiniteSet(Counted')
  BY <1>2, <1>3, CountsFollow DEF IInv
<1>5. UNCHANGED endVars
  <2>1. CASE \E c \in Ops \cup {App} : Call(o, c)
    BY <2>1 DEF Call
  <2>2. CASE OpStep(o)
    BY <2>2 DEF OpStep, ModeKnown, Enter, GoesOn, SetQueryMode, Wake, NodeKnown, BeginWork,
                BeginAnswer, Send, Answer, CallbackReturns, CallbackThrows, CallbackOver
  <2>3. QED
    BY <2>1, <2>2 DEF Step
<1>6. CASE user # "no"
  BY <1>1, <1>4, <1>5, <1>6 DEF IInv, CountsAreExact, endVars
<1>7. CASE user = "no"
  <2>1. Exclusive /\ count = Cardinality(Counted) /\ inFlight = Cardinality(InFlight)
    BY <1>7 DEF IInv, CountsAreExact
  <2>2. count' = Cardinality(Counted') /\ inFlight' = Cardinality(InFlight')
    BY <1>2, <1>3, <2>1, CountsFollow, StepsCount DEF IInv
  <2>3. Exclusive'
    <3>1. \A q \in Ops : q # o => at'[q] = at[q]
      BY StepsAreTyped DEF IInv, TypeOK
    <3>2. \A q \in Ops : at'[q] # "told"
      BY <2>1, <3>1, StepsCount DEF IInv, Exclusive
    <3>3. ~allowed' => \A q \in Ops : at'[q] \notin CountedStages
      BY <2>1, <3>1, StepsCount DEF IInv, Exclusive
    <3>4. /\ isDone' => ~allowed'
          /\ fin' \in {"commit_mode", "commit_sent", "rb_mode", "rb_sent"} => ~allowed'
      BY <2>1, StepsCount DEF IInv, Exclusive, endVars
    <3>5. QED
      BY <3>2, <3>3, <3>4 DEF Exclusive
  <2>4. QED
    BY <1>1, <1>4, <2>2, <2>3 DEF IInv, CountsAreExact
<1>8. QED
  BY <1>6, <1>7

\* The attempt is blocked only when nobody is counted.
LEMMA OthersExclude ==
    ASSUME TypeOK, Exclusive, OtherStep, user' = "no", user = "no",
           IsFiniteSet(Counted), count = Cardinality(Counted)
    PROVE  Exclusive'
<1>1. Quiet
  BY OthersAreQuiet
<1>2. ~allowed' => ~allowed \/ count = 0
  BY DEF OtherStep, EndStep, LogicReturns, CommitBlock, Commit, CommitAnswer, Rollback,
         RollbackBlock, UserRollback, Expire, ExplicitRollback, listVars
<1>3. count = 0 => \A o \in Ops : at[o] \notin CountedStages
  BY FS_EmptySet DEF Counted, CountedStages
<1>4. /\ isDone' => ~allowed'
      /\ fin' \in {"commit_mode", "commit_sent", "rb_mode", "rb_sent"} => ~allowed'
  <2>1. CASE LogicReturns
    BY <2>1 DEF LogicReturns, AfterErrors, Exclusive, listVars
  <2>2. CASE CommitBlock
    BY <2>2 DEF CommitBlock
  <2>3. CASE Commit
    BY <2>3 DEF Commit, Exclusive, listVars
  <2>4. CASE CommitAnswer
    BY <2>4 DEF CommitAnswer, Exclusive, listVars
  <2>5. CASE Rollback
    BY <2>5 DEF Rollback, RollbackBlock, RollbackMode, RollbackAnswer, Exclusive
  <2>6. CASE UserRollback
    BY <2>6 DEF UserRollback, RollbackBlock, RollbackMode, RollbackAnswer
  <2>7. CASE Expire
    BY <2>7 DEF Expire, Exclusive, listVars, endVars
  <2>8. CASE \E c \in Ops \cup {App} : ExplicitRollback(c)
    BY <2>8 DEF ExplicitRollback
  <2>9. QED
    BY <2>1, <2>2, <2>3, <2>4, <2>5, <2>6, <2>7, <2>8 DEF OtherStep, EndStep
<1>5. QED
  BY <1>1, <1>2, <1>3, <1>4 DEF Exclusive, Quiet, opVars

LEMMA OthersKeepInvariant ==
    ASSUME IInv, OtherStep
    PROVE  IInv'
<1>1. Quiet
  BY OthersAreQuiet
<1>2. TypeOK'
  BY OthersKeepTypes DEF IInv
<1>3. WorkBegins' /\ NodesAreNamed' /\ Counted' = Counted /\ InFlight' = InFlight
  BY <1>1 DEF IInv, Quiet, opVars, WorkBegins, NodesAreNamed, Counted, InFlight
<1>4. user' = "no" => user = "no"
  BY DEF OtherStep, EndStep, LogicReturns, CommitBlock, Commit, CommitAnswer, Rollback,
         UserRollback, RollbackMode, Expire, ExplicitRollback, endVars
<1>5. user' = "no" => Exclusive'
  BY <1>4, OthersExclude DEF IInv, CountsAreExact
<1>6. CountsAreExact'
  BY <1>1, <1>3, <1>4 DEF IInv, CountsAreExact, Quiet
<1>7. QED
  BY <1>2, <1>3, <1>5, <1>6 DEF IInv

LEMMA InitInvariant == Init => IInv
<1> SUFFICES ASSUME Init PROVE IInv
  OBVIOUS
<1>1. TypeOK
  <2>1. /\ at \in [Ops -> Stages] /\ caller \in [Ops -> Ops \cup {App}]
        /\ path \in [Ops -> {"none", "kv", "statement", "query"}]
    BY DEF Init, Stages
  <2>2. asleep = {}
    BY DEF Init
  <2>3. /\ allowed \in BOOLEAN /\ node \in BOOLEAN /\ isDone \in BOOLEAN /\ expired \in BOOLEAN
        /\ ~node
    BY DEF Init
  <2>4. QED
    BY <2>1, <2>2, <2>3 DEF Init, TypeOK
<1>2. Counted = {} /\ InFlight = {}
  BY DEF Init, Counted, InFlight
<1>3. WorkBegins /\ NodesAreNamed /\ Exclusive
  BY DEF Init, WorkBegins, NodesAreNamed, Exclusive, Beginning, CountedStages
<1>4. CountsAreExact /\ IsFiniteSet(Counted)
  BY <1>2, FS_EmptySet DEF Init, CountsAreExact
<1>5. QED
  BY <1>1, <1>3, <1>4 DEF IInv

LEMMA StutterInvariant ==
    ASSUME IInv, UNCHANGED vars
    PROVE  IInv'
<1>1. UNCHANGED <<count, inFlight, allowed, mode, node, asleep, at, path, caller, onIo, errs,
                  isDone, staged, told, fin, user, result, expired, faults, begun, causes>>
  BY DEF vars, listVars, opVars, endVars, envVars
<1>2. TypeOK' /\ WorkBegins' /\ NodesAreNamed'
  <2>1. TypeOK'
    BY <1>1 DEF IInv, TypeOK
  <2>2. WorkBegins' /\ NodesAreNamed'
    BY <1>1 DEF IInv, WorkBegins, NodesAreNamed
  <2>3. QED
    BY <2>1, <2>2
<1>3. Counted' = Counted /\ InFlight' = InFlight /\ Exclusive' = Exclusive
  BY <1>1 DEF Counted, InFlight, Exclusive
<1>4. QED
  BY <1>1, <1>2, <1>3 DEF IInv, CountsAreExact

THEOREM Invariance == Spec => []IInv
<1>1. Init => IInv
  BY InitInvariant
<1>2. IInv /\ [Next]_vars => IInv'
  <2> SUFFICES ASSUME IInv, [Next]_vars PROVE IInv'
    OBVIOUS
  <2>1. CASE \E o \in Ops : Step(o)
    BY <2>1, StepsKeepInvariant
  <2>2. CASE OtherStep
    BY <2>2, OthersKeepInvariant
  <2>3. CASE UNCHANGED vars
    BY <2>3, StutterInvariant
  <2>4. QED
    BY <2>1, <2>2, <2>3 DEF Next, Step, OtherStep
<1>3. QED
  BY <1>1, <1>2, PTL DEF Spec

-----------------------------------------------------------------------------
(* The theorems *)

\* Every reachable state has its type: in particular the node is known in query mode
\* only, and whoever sleeps on cv_in_flight_ waits there.
THEOREM TypeCorrect == Spec => []TypeOK
<1>1. IInv => TypeOK
  BY DEF IInv
<1>2. QED
  BY <1>1, Invariance, PTL

\* The counts of waitable_op_list are those of the operations, for any number of
\* operations, called from the logic or from callbacks.
THEOREM CountsAreRight == Spec => []CountsAreExact
<1>1. IInv => CountsAreExact
  BY DEF IInv
<1>2. QED
  BY <1>1, Invariance, PTL

\* Operations and commit, or rollback, exclude each other.
THEOREM MutualExclusion == Spec => []BlockedIsQuiet
<1>1. IInv => BlockedIsQuiet
  BY DEF IInv, TypeOK, Exclusive, BlockedIsQuiet, CountedStages
<1>2. QED
  BY <1>1, Invariance, PTL

\* However many queries race for it, BEGIN WORK is sent once.
THEOREM WorkBeginsOnce == Spec => []BeginsOnce
<1>1. IInv => BeginsOnce
  BY DEF IInv, WorkBegins, BeginsOnce
<1>2. QED
  BY <1>1, Invariance, PTL

\* No statement and no query goes out before the node is known.
THEOREM StatementsGoToTheNode == Spec => []StatementsHaveNode
<1>1. IInv => StatementsHaveNode
  BY DEF IInv, TypeOK, NodesAreNamed, StatementsHaveNode
<1>2. QED
  BY <1>1, Invariance, PTL
=============================================================================
