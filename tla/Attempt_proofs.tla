--------------------------- MODULE Attempt_proofs ---------------------------
(***************************************************************************)
(* Theorems about Attempt, for every set of documents and of operations    *)
(* and for every bound: that the types are kept, the safety properties,    *)
(* and that Attempt implements Promise.                                    *)
(***************************************************************************)
EXTENDS Attempt, TLAPS

-----------------------------------------------------------------------------
(* Errors *)

\* merge_errors picks one of the errors of a list.
LEMMA MergedIsOne ==
    ASSUME NEW list \in Seq(Errors), list # <<>>
    PROVE  \E i \in DOMAIN list : MergeErrors(list) = list[i]
<1> DEFINE fatal == {i \in DOMAIN list : ~list[i].rollback}
           final == {i \in DOMAIN list : ~list[i].retry}
           first == {i \in fatal : \A j \in fatal : i <= j}
           last  == {i \in final : \A j \in final : j <= i}
           Picked(i) == IF first # {} THEN i \in first ELSE IF last # {} THEN i \in last ELSE i = 1
<1>1. 1 \in DOMAIN list
  OBVIOUS
<1>2. \E i \in DOMAIN list : Picked(i)
  BY <1>1
<1>3. (CHOOSE i \in DOMAIN list : Picked(i)) \in DOMAIN list
  BY <1>2
<1> QED
  BY <1>3 DEF MergeErrors

\* Every error an operation ends with is an error of the attempt, and so is the
\* one finalize and commit make of them.
LEMMA ErrorTypes ==
    /\ Plain \in Errors /\ Expired \in Errors /\ Retry \in Errors
    /\ \A r \in Raises : Failed(r) \in Errors /\ Fatal(r) \in Errors
    /\ \A list \in Seq(Errors) : list # <<>> => MergeErrors(list) \in Errors
<1>1. /\ Plain \in Errors /\ Expired \in Errors /\ Retry \in Errors
      /\ \A r \in Raises : Failed(r) \in Errors /\ Fatal(r) \in Errors
  BY DEF Plain, Expired, Retry, Failed, Fatal, Errors, Raises
<1>2. ASSUME NEW list \in Seq(Errors), list # <<>> PROVE MergeErrors(list) \in Errors
  <2>1. PICK i \in DOMAIN list : MergeErrors(list) = list[i]
    BY <1>2, MergedIsOne
  <2> QED
    BY <2>1
<1> QED
  BY <1>1, <1>2

-----------------------------------------------------------------------------
(* Type correctness *)

\* An answer carries a known class, and lands only if the state of the document,
\* or of the ATR, allowed the request.
LEMMA AnswerType ==
    ASSUME NEW natural, NEW possible \in {{}, DocFaults, AtrFaults},
           NEW ans \in Answers(natural, possible)
    PROVE  /\ ans.class \in {natural} \cup possible
           /\ ans.lands \in BOOLEAN
           /\ ans.lands => natural = "OK"
           /\ ans.class = "OK" => ans.lands
<1>1. CASE ans = [class |-> natural, lands |-> natural = "OK"]
  BY <1>1
<1>2. CASE ans \in [class : possible, lands : {FALSE}]
  <2>1. ans.class \in possible /\ ans.lands = FALSE
    BY <1>2
  <2> QED
    BY <2>1 DEF DocFaults, AtrFaults
<1>3. CASE ans \in [class : possible \cap {"AMBIGUOUS"}, lands : {TRUE} \cap {natural = "OK"}]
  <2>1. ans.class \in possible /\ ans.class = "AMBIGUOUS" /\ ans.lands = TRUE
    BY <1>3
  <2>2. ans.lands \in {natural = "OK"}
    BY <1>3
  <2> QED
    BY <2>1, <2>2
<1> QED
  BY <1>1, <1>2, <1>3 DEF Answers

LEMMA TypeInit == Init => TypeOK
<1> SUFFICES ASSUME Init PROVE TypeOK
  OBVIOUS
<1>1. ServerTypes
  <2>1. Absent \in Document /\ Existing \in Document
    BY DEF Absent, Existing, Document, Bodies, Stagings, Mutations
  <2> QED
    BY <2>1 DEF Init, ServerTypes, Entries
<1>2. OpTypes
  <2>1. NotStaged \in [type : Mutations \cup {"none"}, cas : Nat]
    BY DEF NotStaged
  <2>2. IdleOp \in Op
    BY DEF IdleOp, Op, Stages, Verbs
  <2>3. errs \in Seq(Errors)
    BY DEF Init
  <2>4. staged \in [Docs -> [type : Mutations \cup {"none"}, cas : Nat]]
    BY <2>1 DEF Init
  <2>5. op \in [Ops -> Op] /\ atrChosen \in BOOLEAN
    BY <2>2 DEF Init
  <2>6. \A o \in Ops : op[o].at = "idle"
    BY DEF Init, IdleOp
  <2> QED
    BY <2>3, <2>4, <2>5, <2>6 DEF OpTypes
<1>3. MainTypes
  BY DEF Init, MainTypes, NoCur
<1> QED
  BY <1>1, <1>2, <1>3 DEF Init, TypeOK, EnvTypes, States, Phases

\* What a step leaves alone keeps its type.
LEMMA UnchangedTypes ==
    /\ ServerTypes /\ UNCHANGED serverVars => ServerTypes'
    /\ OpTypes /\ UNCHANGED opVars => OpTypes'
    /\ MainTypes /\ UNCHANGED mainVars => MainTypes'
    /\ EnvTypes /\ UNCHANGED envVars => EnvTypes'
<1>1. ServerTypes /\ UNCHANGED serverVars => ServerTypes'
  BY DEF ServerTypes, serverVars
<1>2. OpTypes /\ UNCHANGED opVars => OpTypes'
  BY DEF OpTypes, opVars
<1>3. MainTypes /\ UNCHANGED mainVars => MainTypes'
  BY DEF MainTypes, mainVars
<1>4. EnvTypes /\ UNCHANGED envVars => EnvTypes'
  BY DEF EnvTypes, envVars
<1> QED
  BY <1>1, <1>2, <1>3, <1>4

\* A mutation leaves a document.
LEMMA MutatedType ==
    ASSUME NEW document \in Document
    PROVE  /\ \A body \in Bodies, stg \in Stagings : Mutated(document, body, stg) \in Document
           /\ \A stg \in Stagings : Staged(document, stg) \in Document
BY DEF Mutated, Staged, Document

\* Requests about a document leave documents, requests about the ATR an entry.
LEMMA RequestTypes ==
    ASSUME ServerTypes, faults \in Nat, NEW ans
    PROVE  /\ \A d \in Docs, next \in Document :
                DocRequest(d, ans, next) => doc' \in [Docs -> Document] /\ faults' \in Nat
           /\ \A next \in Entries :
                AtrRequest(ans, next) => atr' \in Entries /\ faults' \in Nat
<1>1. ASSUME NEW d \in Docs, NEW next \in Document, DocRequest(d, ans, next)
      PROVE  doc' \in [Docs -> Document] /\ faults' \in Nat
  BY <1>1 DEF ServerTypes, DocRequest
<1>2. ASSUME NEW next \in Entries, AtrRequest(ans, next)
      PROVE  atr' \in Entries /\ faults' \in Nat
  BY <1>2 DEF ServerTypes, AtrRequest
<1> QED
  BY <1>1, <1>2

\* An operation goes on to a stage, or ends with an error.
LEMMA OpMoves ==
    ASSUME OpTypes, atrChosen' \in BOOLEAN, NEW o \in Ops,
           staged' \in [Docs -> [type : Mutations \cup {"none"}, cas : Nat]],
           \/ \E stage \in Stages : MoveTo(o, stage) /\ (stage = "done" \/ op[o].doc \in Docs)
           \/ \E e \in Errors : Fail(o, e)
    PROVE  OpTypes'
<1>1. ASSUME NEW stage \in Stages, MoveTo(o, stage), stage = "done" \/ op[o].doc \in Docs
      PROVE  OpTypes'
  <2>1. op' \in [Ops -> Op]
    BY <1>1 DEF OpTypes, Op, MoveTo
  <2>2. \A q \in Ops : op'[q].at \notin {"idle", "done"} => op'[q].doc \in Docs
    BY <1>1 DEF OpTypes, Op, MoveTo
  <2> QED
    BY <1>1, <2>1, <2>2 DEF OpTypes, MoveTo
<1>2. ASSUME NEW e \in Errors, Fail(o, e) PROVE OpTypes'
  <2>1. op' \in [Ops -> Op]
    <3>1. op' = [op EXCEPT ![o].at = "done"]
      BY <1>2 DEF Fail
    <3> QED
      BY <3>1 DEF OpTypes, Op, Stages
  <2>2. \A q \in Ops : op'[q].at \notin {"idle", "done"} => op'[q].doc \in Docs
    BY <1>2 DEF OpTypes, Op, Fail
  <2>3. errs' \in Seq(Errors)
    BY <1>2 DEF OpTypes, Fail
  <2> QED
    BY <2>1, <2>2, <2>3 DEF OpTypes
<1> QED
  BY <1>1, <1>2

LEMMA StartAfterErrorTypes == ASSUME TypeOK, NEW o \in Ops, StartAfterError(o) PROVE TypeOK'
<1> USE DEF TypeOK
<1>1. MergeErrors(errs) \in Errors
  BY ErrorTypes DEF StartAfterError, ExistingError, OpTypes
<1>2. OpTypes'
  BY <1>1, OpMoves DEF StartAfterError, OpTypes
<1> QED
  BY <1>2, UnchangedTypes DEF StartAfterError

LEMMA StartTypes ==
    ASSUME TypeOK, NEW o \in Ops, NEW kind \in Mutations, NEW d \in Docs,
           StartRuledOut(o, kind, d) \/ StartExpired(o, kind, d) \/ Start(o, kind, d)
    PROVE  TypeOK'
<1> USE DEF TypeOK
<1>2. CASE StartRuledOut(o, kind, d)
  <2>1. OpTypes'
    BY <1>2, ErrorTypes, OpMoves DEF StartRuledOut, OpTypes
  <2> QED
    BY <1>2, <2>1, UnchangedTypes DEF StartRuledOut
<1>3. CASE StartExpired(o, kind, d)
  <2>1. OpTypes'
    BY <1>3, ErrorTypes, OpMoves DEF StartExpired, OpTypes
  <2> QED
    BY <1>3, <2>1, UnchangedTypes DEF StartExpired
<1>4. CASE Start(o, kind, d)
  <2>1. Request(kind, d).verb \in Verbs /\ Request(kind, d).cas \in Nat
    BY DEF Request, Verbs, Mutations, OpTypes, ServerTypes, Document
  <2>2. op' \in [Ops -> Op]
    BY <1>4, <2>1 DEF Start, SelectAtr, OpTypes, Op, Stages
  <2>3. atrChosen' \in BOOLEAN
    BY <1>4 DEF Start
  <2>4. OpTypes'
    BY <1>4, <2>2, <2>3 DEF Start, OpTypes, Op
  <2> QED
    BY <1>4, <2>4, UnchangedTypes DEF Start
<1> QED
  BY <1>2, <1>3, <1>4

LEMMA AtrPendingTypes ==
    ASSUME TypeOK, NEW o \in Ops, AtrPending(o) \/ AtrPendingAgain(o) \/ RivalChecked(o)
    PROVE  TypeOK'
<1> USE DEF TypeOK
<1>1. CASE AtrPending(o)
  <2> DEFINE natural == IF atr = "absent" THEN "OK" ELSE "PATH_ALREADY_EXISTS"
  <2>1. PICK ans \in AtrAnswers(natural) :
          /\ AtrRequest(ans, "PENDING")
          /\ state' = IF ans.class = "OK" THEN "PENDING" ELSE state
          /\ \/ MoveTo(o, "stage") \/ MoveTo(o, "atr_again")
             \/ Fail(o, Fatal("EXPIRED")) \/ Fail(o, Retry) \/ Fail(o, Plain)
    BY <1>1 DEF AtrPending
  <2>2. ServerTypes' /\ faults' \in Nat
    BY <1>1, <2>1, RequestTypes DEF AtrPending, ServerTypes, Entries
  <2>3. OpTypes'
    BY <1>1, <2>1, ErrorTypes, OpMoves DEF AtrPending, OpTypes, Stages, Raises
  <2> QED
    BY <1>1, <2>1, <2>2, <2>3, UnchangedTypes DEF AtrPending, States
<1>2. CASE AtrPendingAgain(o)
  <2>1. OpTypes'
    BY <1>2, ErrorTypes, OpMoves DEF AtrPendingAgain, OpTypes, Stages
  <2> QED
    BY <1>2, <2>1, UnchangedTypes DEF AtrPendingAgain
<1>3. CASE RivalChecked(o)
  <2>1. OpTypes'
    BY <1>3, ErrorTypes, OpMoves DEF RivalChecked, RivalErrors, SelectAtr, OpTypes, Stages
  <2> QED
    BY <1>3, <2>1, UnchangedTypes DEF RivalChecked, RivalErrors
<1> QED
  BY <1>1, <1>2, <1>3


\* The stagings: a mutation of the queue, with the CAS the service answered.
LEMMA StagedTypes ==
    ASSUME TypeOK, NEW d \in Docs, NEW type \in Mutations \cup {"none"}, NEW cas \in Nat
    PROVE  [staged EXCEPT ![d] = [type |-> type, cas |-> cas]]
                \in [Docs -> [type : Mutations \cup {"none"}, cas : Nat]]
BY DEF TypeOK, OpTypes

LEMMA StagingTypes ==
    ASSUME TypeOK, NEW o \in Ops, NEW verb \in {"replace", "remove"}, StageMutation(o, verb)
    PROVE  TypeOK'
<1> USE DEF TypeOK
<1> DEFINE d    == op[o].doc
           next == Staged(doc[d], verb)
<1>1. d \in Docs /\ doc[d] \in Document
  BY DEF StageMutation, Staging, OpTypes, ServerTypes
<1>2. next \in Document
  BY <1>1, MutatedType DEF Stagings, Mutations
<1>3. PICK ans : /\ DocRequest(d, ans, next)
                 /\ \/ MoveTo(o, "done") /\ AddStaged(d, verb)
                    \/ Fail(o, Retry) /\ UNCHANGED staged
                    \/ Fail(o, Plain) /\ UNCHANGED staged
  BY DEF StageMutation
<1>4. ServerTypes' /\ faults' \in Nat
  BY <1>1, <1>2, <1>3, RequestTypes DEF StageMutation, ServerTypes
<1>5. staged' \in [Docs -> [type : Mutations \cup {"none"}, cas : Nat]]
  BY <1>1, <1>3, StagedTypes DEF AddStaged, Document, Mutations, OpTypes
<1>6. OpTypes'
  BY <1>3, <1>5, OpMoves, ErrorTypes DEF StageMutation, OpTypes, Stages
<1> QED
  BY <1>4, <1>6, UnchangedTypes DEF StageMutation

LEMMA InsertTypes ==
    ASSUME TypeOK, NEW o \in Ops,
           \/ StageInsertExpired(o) \/ StageInsert(o) \/ InsertCollided(o)
           \/ InsertCollidedFault(o) \/ RemoveStagedInsertExpired(o) \/ RemoveStagedInsert(o)
    PROVE  TypeOK'
<1> USE DEF TypeOK
<1> DEFINE d == op[o].doc
<1>1. d \in Docs /\ doc[d] \in Document
  BY DEF StageInsertExpired, StageInsert, InsertCollided, RivalErrors, InsertCollidedFault,
         RemoveStagedInsertExpired, RemoveStagedInsert, Staging, OpTypes, ServerTypes
<1>2. CASE StageInsertExpired(o)
  <2>1. OpTypes'
    BY <1>2, ErrorTypes, OpMoves DEF StageInsertExpired, OpTypes
  <2> QED
    BY <1>2, <2>1, UnchangedTypes DEF StageInsertExpired
<1>3. CASE StageInsert(o)
  <2> DEFINE next == Staged(doc[d], "insert")
  <2>1. next \in Document
    BY <1>1, MutatedType DEF Stagings, Mutations
  <2>2. PICK ans : /\ DocRequest(d, ans, next)
                   /\ \/ \E stage \in {"done", "stage", "collided"} : MoveTo(o, stage)
                      \/ \E e \in {Expired, Retry, Plain} : Fail(o, e)
                   /\ AddStaged(d, "insert") \/ UNCHANGED staged
    BY <1>3 DEF StageInsert
  <2>3. ServerTypes' /\ faults' \in Nat
    BY <1>1, <1>3, <2>1, <2>2, RequestTypes DEF StageInsert, ServerTypes
  <2>4. staged' \in [Docs -> [type : Mutations \cup {"none"}, cas : Nat]]
    <3>1. doc[d].cas + 1 \in Nat /\ "insert" \in Mutations
      BY <1>1 DEF Document, Mutations
    <3>2. staged' = staged \/ staged' = [staged EXCEPT ![d] = [type |-> "insert", cas |-> doc[d].cas + 1]]
      BY <2>2 DEF AddStaged
    <3>3. staged \in [Docs -> [type : Mutations \cup {"none"}, cas : Nat]]
      BY DEF OpTypes
    <3> HIDE DEF TypeOK
    <3> QED
      BY <1>1, <3>1, <3>2, <3>3
  <2>5. atrChosen' \in BOOLEAN
    BY <1>3 DEF StageInsert, OpTypes
  <2>6. ASSUME \E stage \in {"done", "stage", "collided"} : MoveTo(o, stage)
        PROVE  OpTypes'
    <3>1. PICK stage \in Stages : MoveTo(o, stage)
      BY <2>6 DEF Stages
    <3>2. op[o].doc \in Docs
      BY <1>1
    <3> QED
      BY <2>4, <2>5, <3>1, <3>2, OpMoves
  <2>7. ASSUME \E e \in {Expired, Retry, Plain} : Fail(o, e)
        PROVE  OpTypes'
    <3>1. PICK e \in Errors : Fail(o, e)
      BY <2>7, ErrorTypes
    <3> QED
      BY <2>4, <2>5, <3>1, OpMoves
  <2> QED
    BY <1>3, <2>2, <2>3, <2>6, <2>7, UnchangedTypes DEF StageInsert
<1>4. CASE InsertCollided(o)
  <2> DEFINE again == [op[o] EXCEPT !.at = "stage", !.cas = doc[d].cas]
  <2>1. ASSUME op' = [op EXCEPT ![o] = again], UNCHANGED errs PROVE OpTypes'
    <3> op[o] \in Op /\ doc[d].cas \in Nat /\ op \in [Ops -> Op]
      BY <1>1 DEF OpTypes, Document
    <3> again \in Op /\ again.doc \in Docs
      BY <1>1 DEF Op, Stages
    <3> HIDE DEF again
    <3>1. op' \in [Ops -> Op]
      BY <2>1
    <3>2. \A q \in Ops : op'[q].at \notin {"idle", "done"} => op'[q].doc \in Docs
      BY <2>1 DEF OpTypes
    <3> QED
      BY <1>4, <2>1, <3>1, <3>2 DEF InsertCollided, RivalErrors, OpTypes
  <2>2. ASSUME NEW e \in {Plain, Retry}, Fail(o, e) PROVE OpTypes'
    BY <1>4, <2>2, ErrorTypes, OpMoves DEF InsertCollided, RivalErrors, OpTypes
  <2>3. \/ op' = [op EXCEPT ![o] = again] /\ UNCHANGED errs
        \/ \E e \in {Plain, Retry} : Fail(o, e)
    BY <1>4 DEF InsertCollided, RivalErrors
  <2>4. OpTypes'
    BY <2>1, <2>2, <2>3
  <2> QED
    BY <1>4, <2>4, UnchangedTypes DEF InsertCollided, RivalErrors
<1>5. CASE InsertCollidedFault(o)
  <2>1. OpTypes'
    BY <1>5, ErrorTypes, OpMoves DEF InsertCollidedFault, OpTypes
  <2> QED
    BY <1>5, <2>1, UnchangedTypes DEF InsertCollidedFault
<1>6. CASE RemoveStagedInsert(o)
  <2> DEFINE next == Staged(doc[d], "none")
  <2>1. next \in Document
    BY <1>1, MutatedType DEF Stagings
  <2>2. PICK ans : /\ DocRequest(d, ans, next)
                   /\ \/ MoveTo(o, "done") /\ staged' = [staged EXCEPT ![d] = NotStaged]
                      \/ Fail(o, Retry) /\ UNCHANGED staged
    BY <1>6 DEF RemoveStagedInsert
  <2>3. ServerTypes' /\ faults' \in Nat
    BY <1>1, <1>6, <2>1, <2>2, RequestTypes DEF RemoveStagedInsert, ServerTypes
  <2>4. staged' \in [Docs -> [type : Mutations \cup {"none"}, cas : Nat]]
    BY <1>1, <2>2, StagedTypes DEF NotStaged, OpTypes
  <2>5. OpTypes'
    BY <1>6, <2>2, <2>4, OpMoves, ErrorTypes DEF RemoveStagedInsert, OpTypes, Stages
  <2> QED
    BY <1>6, <2>3, <2>5, UnchangedTypes DEF RemoveStagedInsert
<1>7. CASE RemoveStagedInsertExpired(o)
  <2>1. OpTypes'
    BY <1>7, ErrorTypes, OpMoves DEF RemoveStagedInsertExpired, OpTypes, Raises
  <2> QED
    BY <1>7, <2>1, UnchangedTypes DEF RemoveStagedInsertExpired
<1> QED
  BY <1>2, <1>3, <1>4, <1>5, <1>6, <1>7

LEMMA OpStepTypes == ASSUME TypeOK, NEW o \in Ops, OpStep(o) PROVE TypeOK'
<1>1. CASE StageReplace(o) \/ StageRemove(o)
  <2>1. \E verb \in {"replace", "remove"} : StageMutation(o, verb)
    BY <1>1 DEF StageReplace, StageRemove
  <2> QED
    BY <2>1, StagingTypes
<1>2. CASE AtrPending(o) \/ AtrPendingAgain(o) \/ RivalChecked(o)
  BY <1>2, AtrPendingTypes
<1>3. CASE \/ StageInsertExpired(o) \/ StageInsert(o) \/ InsertCollided(o)
           \/ InsertCollidedFault(o) \/ RemoveStagedInsertExpired(o) \/ RemoveStagedInsert(o)
  BY <1>3, InsertTypes
<1>4. CASE StartAfterError(o)
  BY <1>4, StartAfterErrorTypes
<1>5. CASE \E kind \in Mutations, d \in Docs :
             StartRuledOut(o, kind, d) \/ StartExpired(o, kind, d) \/ Start(o, kind, d)
  BY <1>5, StartTypes
<1> QED
  BY <1>1, <1>2, <1>3, <1>4, <1>5 DEF OpStep

\* handle_error moves to one of two phases and keeps the error.
LEMMA HandleErrorTypes ==
    ASSUME NEW e \in Errors, HandleError(e)
    PROVE  thrown' \in Errors \cup {NoError} /\ phase' \in Phases
BY DEF HandleError, Phases

LEMMA LogicEndTypes ==
    ASSUME TypeOK, LogicThrows \/ Finalize \/ Report \/ CommitBegin
    PROVE  TypeOK'
<1> USE DEF TypeOK
<1>1. errs # <<>> => MergeErrors(errs) \in Errors
  BY ErrorTypes DEF OpTypes
<1>2. CASE LogicThrows
  <2>1. PICK e \in Errors : HandleError(e)
    BY <1>2, ErrorTypes DEF LogicThrows, OpTypes
  <2>2. MainTypes' /\ phase' \in Phases
    BY <1>2, <2>1, HandleErrorTypes DEF LogicThrows, MainTypes
  <2> QED
    BY <1>2, <2>2, UnchangedTypes DEF LogicThrows
<1>3. CASE Finalize
  <2>1. MainTypes' /\ phase' \in Phases
    BY <1>1, <1>3, HandleErrorTypes DEF Finalize, ExistingError, MainTypes, Phases
  <2> QED
    BY <1>3, <2>1, UnchangedTypes DEF Finalize
<1>4. CASE Report
  <2>1. thrown.raise \in Raises \cup {"none"}
    BY DEF MainTypes, Errors, NoError
  <2>2. outcome' \in {"none", "success", "retry"} \cup Raises
    BY <1>4, <2>1 DEF Report, Raises
  <2>3. queued' \in BOOLEAN
    BY <1>4 DEF Report, EnvTypes, AddAttempt
  <2> QED
    BY <1>4, <2>2, <2>3, UnchangedTypes DEF Report, MainTypes, EnvTypes, Phases
<1>5. CASE CommitBegin
  <2>1. MainTypes' /\ phase' \in Phases /\ overtime' \in BOOLEAN
    BY <1>1, <1>5, ErrorTypes, HandleErrorTypes DEF CommitBegin, ExistingError, MainTypes, Phases
  <2> QED
    BY <1>5, <2>1, UnchangedTypes DEF CommitBegin
<1> QED
  BY <1>2, <1>3, <1>4, <1>5

LEMMA CommitTypes ==
    ASSUME TypeOK,
           \/ AtrCommit \/ AtrCommitAnswer \/ UnstageEnd \/ AtrComplete
    PROVE  TypeOK'
<1> USE DEF TypeOK
<1>1. CASE AtrCommit
  <2>1. MainTypes' /\ phase' \in Phases /\ overtime' \in BOOLEAN
    BY <1>1, ErrorTypes, HandleErrorTypes DEF AtrCommit, MainTypes, Phases, Raises
  <2> QED
    BY <1>1, <2>1, UnchangedTypes DEF AtrCommit
<1>2. CASE AtrCommitAnswer
  <2>1. PICK ans :
          /\ AtrRequest(ans, AtrListsWritten(atr))
          /\ \/ state' = "COMMITTED" /\ phase' = "unstage" /\ todo' = InQueue /\ UNCHANGED <<ambig, thrown>>
             \/ ambig' = TRUE /\ phase' = "atr_commit" /\ UNCHANGED <<state, todo, thrown>>
             \/ /\ \/ HandleError(Retry) \/ HandleError(Plain)
                   \/ HandleError(Fatal("AMBIGUOUS")) \/ HandleError(Fatal("FAILED"))
                /\ UNCHANGED <<state, todo, ambig>>
    <3>1. CASE ambig
      BY <1>2, <3>1 DEF AtrCommitAnswer
    <3>2. CASE ~ambig
      BY <1>2, <3>2 DEF AtrCommitAnswer
    <3> QED
      BY <3>1, <3>2
  <2>2. ServerTypes' /\ faults' \in Nat
    BY <1>2, <2>1, RequestTypes DEF AtrCommitAnswer, AtrListsWritten, ServerTypes, Entries
  <2>3. MainTypes' /\ phase' \in Phases /\ state' \in States
    <3>1. todo' \in SUBSET Docs /\ ambig' \in BOOLEAN /\ state' \in States
      BY <2>1 DEF MainTypes, States, InQueue
    <3>2. thrown' \in Errors \cup {NoError} /\ phase' \in Phases
      BY <2>1, ErrorTypes, HandleErrorTypes DEF MainTypes, Phases, Raises
    <3> QED
      BY <1>2, <3>1, <3>2 DEF AtrCommitAnswer, MainTypes
  <2> QED
    BY <1>2, <2>2, <2>3, UnchangedTypes DEF AtrCommitAnswer
<1>3. CASE UnstageEnd
  BY <1>3, UnchangedTypes DEF UnstageEnd, Phases
<1>4. CASE AtrComplete
  <2>1. ServerTypes' /\ faults' \in Nat /\ state' \in States
    BY <1>4, RequestTypes DEF AtrComplete, ServerTypes, Entries, States
  <2> QED
    BY <1>4, <2>1, UnchangedTypes DEF AtrComplete, MainTypes, Phases
<1> QED
  BY <1>1, <1>2, <1>3, <1>4

\* The modes of the loops over the queue.
CurType == [doc : Docs \cup {NoDoc}, ambig : BOOLEAN, zero : BOOLEAN]

LEMMA UnstageTypes ==
    ASSUME TypeOK, NEW d \in Docs, UnstageDoc(d) \/ UnstageRemove(d)
    PROVE  TypeOK'
<1> USE DEF TypeOK
<1>1. doc[d] \in Document
  BY DEF ServerTypes
<1>2. NoCur \in CurType /\ \A b \in BOOLEAN, z \in BOOLEAN : [doc |-> d, ambig |-> b, zero |-> z] \in CurType
  BY DEF NoCur, CurType
<1>3. cur \in CurType /\ [cur EXCEPT !.doc = d] \in CurType /\ [cur EXCEPT !.doc = d, !.ambig = TRUE] \in CurType
  BY DEF MainTypes, CurType
<1>4. CASE UnstageDoc(d)
  <2> DEFINE next == Mutated(doc[d], "new", "none")
  <2>1. next \in Document
    BY <1>1, MutatedType DEF Stagings, Bodies
  <2>2. PICK ans :
          /\ DocRequest(d, ans, next)
          /\ written' = IF ans.lands THEN written \cup {d} ELSE written
          /\ \/ NextDocument(d) /\ UNCHANGED <<phase, thrown>>
             \/ cur' = [cur EXCEPT !.doc = d, !.ambig = TRUE] /\ UNCHANGED <<phase, thrown, todo>>
             \/ cur' = [doc |-> d, ambig |-> TRUE, zero |-> TRUE] /\ UNCHANGED <<phase, thrown, todo>>
             \/ PostCommitFailure
    BY <1>4 DEF UnstageDoc
  <2>3. ServerTypes' /\ faults' \in Nat
    BY <1>4, <2>1, <2>2, RequestTypes DEF UnstageDoc, ServerTypes
  <2>4. cur' \in CurType /\ todo' \in SUBSET Docs
    BY <1>2, <1>3, <2>2 DEF NextDocument, PostCommitFailure, MainTypes
  <2>5. thrown' \in Errors \cup {NoError} /\ phase' \in Phases
    BY <2>2, ErrorTypes, HandleErrorTypes DEF PostCommitFailure, NextDocument, Raises, MainTypes
  <2>6. MainTypes'
    BY <1>4, <2>4, <2>5 DEF UnstageDoc, MainTypes, CurType
  <2> QED
    BY <1>4, <2>2, <2>3, <2>5, <2>6, UnchangedTypes DEF UnstageDoc, EnterOvertime, EnvTypes
<1>5. CASE UnstageRemove(d)
  <2> DEFINE next == Mutated(doc[d], "none", "none")
  <2>1. next \in Document
    BY <1>1, MutatedType DEF Stagings, Bodies
  <2>2. PICK ans :
          /\ DocRequest(d, ans, next)
          /\ written' = IF ans.lands THEN written \cup {d} ELSE written
          /\ \/ NextDocument(d) /\ UNCHANGED <<phase, thrown>>
             \/ cur' = [cur EXCEPT !.doc = d] /\ UNCHANGED <<phase, thrown, todo>>
             \/ PostCommitFailure
    BY <1>5 DEF UnstageRemove
  <2>3. ServerTypes' /\ faults' \in Nat
    BY <1>5, <2>1, <2>2, RequestTypes DEF UnstageRemove, ServerTypes
  <2>4. cur' \in CurType /\ todo' \in SUBSET Docs
    BY <1>2, <1>3, <2>2 DEF NextDocument, PostCommitFailure, MainTypes
  <2>5. thrown' \in Errors \cup {NoError} /\ phase' \in Phases
    BY <2>2, ErrorTypes, HandleErrorTypes DEF PostCommitFailure, NextDocument, Raises, MainTypes
  <2>6. MainTypes'
    BY <1>5, <2>4, <2>5 DEF UnstageRemove, MainTypes, CurType
  <2> QED
    BY <1>5, <2>2, <2>3, <2>5, <2>6, UnchangedTypes DEF UnstageRemove, EnterOvertime, EnvTypes
<1> QED
  BY <1>4, <1>5

\* retry_op_exp counts, and ends the rollback when it gives up.
LEMMA AgainTypes ==
    ASSUME TypeOK, Again
    PROVE  /\ tries' \in Nat /\ rolled' \in {"no", "ok", "failed"} /\ phase' \in Phases
BY DEF Again, RollbackIs, TypeOK, MainTypes, Phases

LEMMA RollbackTypes ==
    ASSUME TypeOK,
           \/ RollbackBegin \/ ExpireInRollback \/ AtrAbort \/ RollbackDocsEnd \/ AtrRollbackComplete
    PROVE  TypeOK'
<1> USE DEF TypeOK
<1>1. CASE RollbackBegin
  <2>1. MainTypes' /\ phase' \in Phases /\ overtime' \in BOOLEAN
    BY <1>1 DEF RollbackBegin, RollbackIs, EnterOvertime, MainTypes, EnvTypes, Phases
  <2> QED
    BY <1>1, <2>1, UnchangedTypes DEF RollbackBegin
<1>2. CASE ExpireInRollback
  <2>1. MainTypes' /\ phase' \in Phases
    BY <1>2, AgainTypes DEF ExpireInRollback, MainTypes
  <2> QED
    BY <1>2, <2>1, UnchangedTypes DEF ExpireInRollback
<1>3. CASE AtrAbort
  <2>1. PICK ans :
          /\ AtrRequest(ans, AtrListsWritten(atr))
          /\ \/ state' = "ABORTED" /\ phase' = "rollback_docs" /\ todo' = InQueue /\ tries' = 0
                /\ UNCHANGED rolled
             \/ RollbackIs("failed") /\ UNCHANGED <<state, todo, tries>>
             \/ Again /\ UNCHANGED <<state, todo>>
    BY <1>3 DEF AtrAbort
  <2>2. ServerTypes' /\ faults' \in Nat
    BY <1>3, <2>1, RequestTypes DEF AtrAbort, AtrListsWritten, ServerTypes, Entries
  <2>3. MainTypes' /\ phase' \in Phases /\ state' \in States
    BY <1>3, <2>1, AgainTypes DEF AtrAbort, RollbackIs, MainTypes, Phases, States, InQueue
  <2> QED
    BY <1>3, <2>2, <2>3, UnchangedTypes DEF AtrAbort
<1>4. CASE RollbackDocsEnd
  BY <1>4, UnchangedTypes DEF RollbackDocsEnd, MainTypes, Phases
<1>5. CASE AtrRollbackComplete
  <2>1. ServerTypes' /\ faults' \in Nat /\ state' \in States
    BY <1>5, RequestTypes DEF AtrRollbackComplete, ServerTypes, Entries, States
  <2>2. \/ RollbackIs("failed") /\ UNCHANGED tries
        \/ RollbackIs("ok") /\ UNCHANGED tries
        \/ Again
    BY <1>5 DEF AtrRollbackComplete
  <2>3. MainTypes' /\ phase' \in Phases
    BY <1>5, <2>2, AgainTypes DEF AtrRollbackComplete, RollbackIs, MainTypes, Phases
  <2> QED
    BY <1>5, <2>1, <2>3, UnchangedTypes DEF AtrRollbackComplete
<1> QED
  BY <1>1, <1>2, <1>3, <1>4, <1>5

LEMMA RollbackDocTypes == ASSUME TypeOK, NEW d \in Docs, RollbackDoc(d) PROVE TypeOK'
<1> USE DEF TypeOK
<1> DEFINE next == Staged(doc[d], "none")
<1>1. next \in Document
  BY MutatedType DEF ServerTypes, Stagings
<1>2. PICK ans :
        /\ DocRequest(d, ans, next)
        /\ \/ NextDocument(d) /\ tries' = 0 /\ UNCHANGED <<rolled, phase>>
           \/ RollbackIs("failed") /\ UNCHANGED <<todo, cur, tries>>
           \/ Again /\ cur' = [cur EXCEPT !.doc = d] /\ UNCHANGED todo
  BY DEF RollbackDoc
<1>3. ServerTypes' /\ faults' \in Nat
  BY <1>1, <1>2, RequestTypes DEF RollbackDoc, ServerTypes
<1>4. cur' \in CurType /\ todo' \in SUBSET Docs
  <2>1. NoCur \in CurType
    BY DEF NoCur, CurType
  <2>2. cur \in CurType /\ [cur EXCEPT !.doc = d] \in CurType
    BY DEF MainTypes, CurType
  <2> QED
    BY <1>2, <2>1, <2>2 DEF NextDocument, MainTypes
<1>5. tries' \in Nat /\ rolled' \in {"no", "ok", "failed"} /\ phase' \in Phases
  BY <1>2, AgainTypes DEF RollbackIs, MainTypes, Phases
<1>6. MainTypes'
  BY <1>4, <1>5 DEF RollbackDoc, MainTypes, CurType
<1> QED
  BY <1>3, <1>5, <1>6, UnchangedTypes DEF RollbackDoc

LEMMA SurroundingsTypes == ASSUME TypeOK, Surroundings PROVE TypeOK'
<1> USE DEF TypeOK
<1>1. CASE Expire \/ Crash
  BY <1>1, UnchangedTypes DEF Expire, Crash, EnvTypes, Phases
<1>2. CASE CleanQueue \/ CleanLost
  BY <1>2, UnchangedTypes DEF CleanQueue, CleanLost, CleanedEntry, ServerTypes, EnvTypes, Entries
<1>3. ASSUME NEW d \in Docs, NEW next \in Document, Foreign(d, next) PROVE TypeOK'
  <2>1. doc' \in [Docs -> Document] /\ foreign' \in Nat
    BY <1>3 DEF Foreign, ServerTypes, EnvTypes
  <2> QED
    BY <1>3, <2>1, UnchangedTypes DEF Foreign, ServerTypes, EnvTypes
<1>4. ASSUME NEW d \in Docs, ForeignWrite(d) \/ RivalStage(d) \/ RivalEnd(d) PROVE TypeOK'
  <2>1. doc[d] \in Document /\ doc[d].stg \in Stagings
    BY DEF ServerTypes, Document
  <2>2. \E next \in Document : Foreign(d, next)
    BY <1>4, <2>1, MutatedType DEF ForeignWrite, RivalStage, RivalEnd, Bodies, Stagings
  <2> QED
    BY <1>3, <2>2
<1> QED
  BY <1>1, <1>2, <1>4 DEF Surroundings

LEMMA TypeNext == ASSUME TypeOK, [Next]_vars PROVE TypeOK'
<1>1. CASE UNCHANGED vars
  BY <1>1 DEF vars, TypeOK, ServerTypes, OpTypes, MainTypes, EnvTypes
<1>2. CASE \E o \in Ops : OpStep(o)
  BY <1>2, OpStepTypes
<1>3. CASE MainStep
  <2>1. CASE LogicThrows \/ Finalize \/ Report \/ CommitBegin
    BY <2>1, LogicEndTypes
  <2>2. CASE AtrCommit \/ AtrCommitAnswer \/ UnstageEnd \/ AtrComplete
    BY <2>2, CommitTypes
  <2>3. CASE \/ RollbackBegin \/ ExpireInRollback \/ AtrAbort \/ RollbackDocsEnd
             \/ AtrRollbackComplete
    BY <2>3, RollbackTypes
  <2>4. CASE \E d \in Docs : UnstageDoc(d) \/ UnstageRemove(d) \/ RollbackDoc(d)
    BY <2>4, UnstageTypes, RollbackDocTypes
  <2> QED
    BY <1>3, <2>1, <2>2, <2>3, <2>4 DEF MainStep
<1>4. CASE Surroundings
  BY <1>4, SurroundingsTypes
<1> QED
  BY <1>1, <1>2, <1>3, <1>4 DEF Next

\* The state of the attempt is always one its code can represent: an answer the
\* error handlers do not expect never leads it anywhere else.
THEOREM TypeCorrect == Spec => []TypeOK
<1>1. Init => TypeOK
  BY TypeInit
<1>2. TypeOK /\ [Next]_vars => TypeOK'
  BY TypeNext
<1> QED
  BY <1>1, <1>2, PTL DEF Spec

-----------------------------------------------------------------------------
(* The safety properties.                                                  *)
(*                                                                         *)
(* They are not inductive.  The invariant below adds where the control is  *)
(* when operations are over (Control), and that the CAS an operation or    *)
(* the queue holds for a document is a CAS that document has had, at which *)
(* it looked the way the held mutation expects (Data): a document that has *)
(* not changed since still looks that way.                                 *)

(* The inductive invariant *)

\* wait_and_block_ops has been through.
Waited == {"atr_commit", "atr_commit_sent", "unstage", "atr_complete",
           "atr_abort", "rollback_docs", "rollback_complete"}

Committing == {"atr_commit", "atr_commit_sent", "unstage", "atr_complete"}

Control ==
    /\ blocked => Active = {}
    /\ phase \in Waited => blocked
    /\ phase \in Committing => errs = <<>>
    /\ written # {} => blocked /\ errs = <<>>
    /\ phase \in {"unstage", "rollback_docs"} => todo \subseteq InQueue

\* A document that never existed, or carries a staged insert, has no body.
DocFits(d) == doc[d].cas = 0 \/ doc[d].stg = "insert" => doc[d].body = "none"

QueueFits(d) ==
    staged[d].type # "none" =>
        /\ 0 < staged[d].cas /\ staged[d].cas <= doc[d].cas
        /\ doc[d].cas = staged[d].cas =>
              /\ doc[d].stg = staged[d].type
              /\ staged[d].type = "insert" <=> doc[d].body = "none"

\* Operations that still have a request to send.
Underway(o) == op[o].at \in {"checking", "atr", "atr_again", "stage", "collided"}

OpFits(o) ==
    Underway(o) =>
        /\ op[o].cas <= doc[op[o].doc].cas
        /\ op[o].cas = doc[op[o].doc].cas /\ op[o].verb # "unstage" =>
              (op[o].verb = "insert" <=> doc[op[o].doc].body = "none")
        /\ op[o].at = "collided" => op[o].verb = "insert"

Data ==
    /\ \A d \in Docs : DocFits(d) /\ QueueFits(d)
    /\ \A o \in Ops : OpFits(o)

IInv == TypeOK /\ Control /\ Data

-----------------------------------------------------------------------------
(* Control *)

\* Operations move only before wait_and_block_ops is through, and then leave alone
\* what the thread of the attempt owns.
LEMMA OpStepControl ==
    ASSUME TypeOK, Control, NEW o \in Ops, OpStep(o)
    PROVE  /\ ~blocked
           /\ UNCHANGED <<phase, mainVars, blocked, todo, written>>
<1>1. op[o].at \notin {"idle", "done"} => ~blocked
  BY DEF Control, Active
<1>2. UNCHANGED <<phase, mainVars, written>> /\ (op[o].at \notin {"idle", "done"} \/ ~blocked)
  <2>1. CASE StartAfterError(o)
    BY <2>1 DEF StartAfterError, CanStart
  <2>2. ASSUME NEW kind \in Mutations, NEW d \in Docs,
               StartRuledOut(o, kind, d) \/ StartExpired(o, kind, d) \/ Start(o, kind, d)
        PROVE  UNCHANGED <<phase, mainVars, written>> /\ ~blocked
    BY <2>2 DEF StartRuledOut, StartExpired, Start, CanStart
  <2>3. CASE RivalChecked(o) \/ AtrPending(o) \/ AtrPendingAgain(o)
    BY <2>3 DEF RivalChecked, RivalErrors, AtrPending, AtrPendingAgain
  <2>4. CASE StageReplace(o) \/ StageRemove(o)
    BY <2>4 DEF StageReplace, StageRemove, StageMutation, Staging
  <2>5. CASE StageInsertExpired(o) \/ StageInsert(o) \/ RemoveStagedInsertExpired(o) \/ RemoveStagedInsert(o)
    BY <2>5 DEF StageInsertExpired, StageInsert, RemoveStagedInsertExpired, RemoveStagedInsert, Staging
  <2>6. CASE InsertCollided(o) \/ InsertCollidedFault(o)
    BY <2>6 DEF InsertCollided, RivalErrors, InsertCollidedFault
  <2> QED
    BY <2>1, <2>2, <2>3, <2>4, <2>5, <2>6 DEF OpStep
<1> QED
  BY <1>1, <1>2 DEF mainVars

LEMMA OpStepKeepsControl == ASSUME TypeOK, Control, NEW o \in Ops, OpStep(o) PROVE Control'
BY OpStepControl DEF Control, Waited, Committing

\* The thread of the attempt touches neither operations nor the queue.
LEMMA MainStepControl == ASSUME TypeOK, Control, MainStep PROVE Control' /\ UNCHANGED opVars
<1> USE DEF Control, Waited, Committing
<1>1. CASE LogicThrows \/ Finalize \/ Report
  BY <1>1 DEF LogicThrows, Finalize, Report, LogicRuns, HandleError, opVars, InQueue, Active
<1>2. CASE CommitBegin
  BY <1>2 DEF CommitBegin, ExistingError, HandleError, opVars, InQueue, Active
<1>3. CASE AtrCommit \/ UnstageEnd \/ AtrComplete
  BY <1>3 DEF AtrCommit, UnstageEnd, AtrComplete, HandleError, opVars, mainVars, InQueue, Active
<1>4. CASE AtrCommitAnswer
  <2>1. \/ phase' = "unstage" /\ todo' = InQueue
        \/ phase' \in {"atr_commit", "rollback_wait", "report"}
    BY <1>4 DEF AtrCommitAnswer, HandleError
  <2> QED
    BY <1>4, <2>1 DEF AtrCommitAnswer, opVars, InQueue, Active
<1>5. ASSUME NEW d \in Docs, UnstageDoc(d) \/ UnstageRemove(d) PROVE Control' /\ UNCHANGED opVars
  <2>1. /\ phase = "unstage" /\ UNCHANGED <<opVars, blocked>>
        /\ \/ phase' = phase /\ todo' \subseteq todo
           \/ phase' = "report"
    BY <1>5 DEF UnstageDoc, UnstageRemove, NextDocument, PostCommitFailure, HandleError, Fatal
  <2> QED
    BY <2>1 DEF opVars, InQueue, Active
<1>6. CASE RollbackBegin \/ ExpireInRollback \/ RollbackDocsEnd
  BY <1>6 DEF RollbackBegin, ExpireInRollback, RollbackDocsEnd, RollbackIs, Again, opVars, InQueue, Active
<1>7. CASE AtrAbort
  <2>1. \/ phase' = "rollback_docs" /\ todo' = InQueue
        \/ phase' \in {"atr_abort", "report"}
    BY <1>7 DEF AtrAbort, RollbackIs, Again
  <2> QED
    BY <1>7, <2>1 DEF AtrAbort, opVars, InQueue, Active
<1>8. ASSUME NEW d \in Docs, RollbackDoc(d) PROVE Control' /\ UNCHANGED opVars
  <2>1. /\ phase = "rollback_docs" /\ UNCHANGED <<opVars, blocked, written>>
        /\ \/ phase' = phase /\ todo' \subseteq todo
           \/ phase' = "report"
    BY <1>8 DEF RollbackDoc, NextDocument, RollbackIs, Again
  <2> QED
    BY <2>1 DEF opVars, InQueue, Active
<1>9. CASE AtrRollbackComplete
  <2>1. phase' \in {"rollback_complete", "report"}
    BY <1>9 DEF AtrRollbackComplete, RollbackIs, Again
  <2> QED
    BY <1>9, <2>1 DEF AtrRollbackComplete, opVars, InQueue, Active
<1> QED
  BY <1>1, <1>2, <1>3, <1>4, <1>5, <1>6, <1>7, <1>8, <1>9 DEF MainStep

LEMMA SurroundingsControl ==
    ASSUME Control, Surroundings
    PROVE  Control' /\ UNCHANGED <<opVars, written, todo>>
<1>1. /\ UNCHANGED <<opVars, blocked, todo, written>>
      /\ phase' \in {phase, "crashed"}
  BY DEF Surroundings, Expire, Crash, CleanQueue, CleanLost, ForeignWrite, RivalStage, RivalEnd,
         Foreign, mainVars
<1> QED
  BY <1>1 DEF Control, Waited, Committing, opVars, InQueue, Active

-----------------------------------------------------------------------------
(* Data *)

\* Every mutation of a document bumps its CAS.
Grows == \A d \in Docs : doc'[d] = doc[d] \/ doc'[d].cas = doc[d].cas + 1

\* The request an operation still has to send is the one it had before.
SameRequest(o) ==
    Underway(o)' =>
        /\ Underway(o)
        /\ op'[o].doc = op[o].doc /\ op'[o].cas = op[o].cas /\ op'[o].verb = op[o].verb
        /\ op'[o].at = "collided" => op[o].at = "collided" \/ op[o].verb = "insert"

\* A held CAS that was good stays good, or is no longer the document's: a step has
\* to answer only for what it makes anew.
LEMMA DataStep ==
    ASSUME TypeOK, TypeOK', Data, Grows,
           \A d \in Docs : DocFits(d)',
           \A d \in Docs : staged'[d] = staged[d] \/ QueueFits(d)',
           \A o \in Ops : SameRequest(o) \/ OpFits(o)'
    PROVE  Data'
<1> USE DEF TypeOK, ServerTypes, OpTypes
<1>1. \A d \in Docs : doc[d] \in Document /\ doc'[d] \in Document /\ doc[d].cas \in Nat /\ doc'[d].cas \in Nat
  BY DEF Document
<1>2. ASSUME NEW d \in Docs, staged'[d] = staged[d] PROVE QueueFits(d)'
  <2>1. staged[d].cas \in Nat /\ QueueFits(d)
    BY DEF Data
  <2>2. CASE doc'[d] = doc[d]
    BY <1>2, <2>1, <2>2 DEF QueueFits
  <2>3. CASE doc'[d].cas = doc[d].cas + 1
    BY <1>1, <1>2, <2>1, <2>3 DEF QueueFits
  <2> QED
    BY <2>2, <2>3 DEF Grows
<1>3. ASSUME NEW o \in Ops, SameRequest(o) PROVE OpFits(o)'
  <2> SUFFICES ASSUME Underway(o)' PROVE OpFits(o)'
    BY DEF OpFits
  <2> DEFINE d == op[o].doc
  <2>1. /\ Underway(o) /\ OpFits(o)
        /\ op'[o].doc = d /\ op'[o].cas = op[o].cas /\ op'[o].verb = op[o].verb
        /\ op'[o].at = "collided" => op[o].at = "collided" \/ op[o].verb = "insert"
    BY <1>3 DEF SameRequest, Data
  <2>2. d \in Docs /\ op[o].cas \in Nat
    BY <2>1 DEF Underway, Op
  <2>3. CASE doc'[d] = doc[d]
    BY <2>1, <2>3 DEF OpFits
  <2>4. CASE doc'[d].cas = doc[d].cas + 1
    BY <1>1, <2>1, <2>2, <2>4 DEF OpFits
  <2> QED
    BY <2>2, <2>3, <2>4 DEF Grows
<1> QED
  BY <1>2, <1>3 DEF Data

\* A request about a document changes that one only, and bumps its CAS.
LEMMA RequestGrows ==
    ASSUME TypeOK, NEW d \in Docs, NEW ans, NEW body, NEW stg,
           DocRequest(d, ans, Mutated(doc[d], body, stg))
    PROVE  /\ Grows
           /\ \A q \in Docs \ {d} : doc'[q] = doc[q]
           /\ doc'[d] = doc[d] \/ (ans.lands /\ doc'[d] = Mutated(doc[d], body, stg))
           /\ ans.lands => doc'[d] = Mutated(doc[d], body, stg)
BY DEF Grows, DocRequest, Mutated, TypeOK, ServerTypes, Document

LEMMA MutatedFits ==
    ASSUME TypeOK, Data, NEW d \in Docs, NEW body, NEW stg,
           stg = "insert" => body = "none",
           \A q \in Docs \ {d} : doc'[q] = doc[q],
           doc'[d] = doc[d] \/ doc'[d] = Mutated(doc[d], body, stg)
    PROVE  \A q \in Docs : DocFits(q)'
<1>1. \A q \in Docs : DocFits(q) /\ doc[q].cas \in Nat
  BY DEF Data, TypeOK, ServerTypes, Document
<1>2. doc'[d] = Mutated(doc[d], body, stg)
        => doc'[d].cas = doc[d].cas + 1 /\ doc'[d].stg = stg /\ doc'[d].body = body
  BY DEF Mutated
<1>3. DocFits(d)'
  BY <1>1, <1>2 DEF DocFits
<1>4. \A q \in Docs \ {d} : DocFits(q)'
  BY <1>1 DEF DocFits
<1> QED
  BY <1>3, <1>4

\* What MoveTo and Fail do to the requests of all operations.
LEMMA MovesKeepRequests ==
    ASSUME TypeOK, NEW o \in Ops,
           \/ \E stage \in Stages : MoveTo(o, stage) /\ (stage = "collided" => op[o].verb = "insert")
                                                     /\ (Underway(o) \/ stage = "done" \/ stage = "stuck")
           \/ \E e : Fail(o, e)
    PROVE  \A q \in Ops : SameRequest(q)
<1> USE DEF TypeOK, OpTypes, Op, SameRequest, Underway
<1>1. ASSUME NEW stage \in Stages, MoveTo(o, stage), stage = "collided" => op[o].verb = "insert",
             Underway(o) \/ stage = "done" \/ stage = "stuck"
      PROVE  \A q \in Ops : SameRequest(q)
  BY <1>1 DEF MoveTo
<1>2. ASSUME NEW e, Fail(o, e) PROVE \A q \in Ops : SameRequest(q)
  BY <1>2 DEF Fail
<1> QED
  BY <1>1, <1>2

\* Steps of operations that send no request about a document.
LEMMA QuietOpData ==
    ASSUME TypeOK, TypeOK', Data, UNCHANGED <<doc, staged>>,
           \A o \in Ops : SameRequest(o) \/ OpFits(o)'
    PROVE  Data'
BY DataStep DEF Grows, Data, DocFits

LEMMA StartData ==
    ASSUME TypeOK, TypeOK', Data, NEW o \in Ops, NEW kind \in Mutations, NEW d \in Docs,
           Start(o, kind, d)
    PROVE  Data'
<1> USE DEF TypeOK, ServerTypes, OpTypes
<1>1. doc[d] \in Document /\ doc[d].cas \in Nat /\ staged[d].cas \in Nat /\ DocFits(d) /\ QueueFits(d)
  BY DEF Document, Data
<1> DEFINE r == Request(kind, d)
<1>2. r.verb # "unstage" => r.cas <= doc[d].cas /\ (r.cas = doc[d].cas => (r.verb = "insert" <=> doc[d].body = "none"))
  BY <1>1 DEF Start, CanCall, RuledOut, Request, QueueFits, DocFits, Mutations
<1>3. r.verb = "unstage" => r.cas = 0
  BY DEF Request, Mutations
<1>4. /\ op'[o].verb = r.verb /\ op'[o].cas = r.cas /\ op'[o].doc = d /\ op'[o].at # "collided"
      /\ \A q \in Ops \ {o} : op'[q] = op[q]
  <2> DEFINE new == [at |-> IF MeetsRival(kind, d) THEN "checking" ELSE SelectAtr, verb |-> r.verb, doc |-> d, cas |-> r.cas]
  <2>1. op' = [op EXCEPT ![o] = new]
    BY DEF Start
  <2>2. new.at # "collided"
    BY DEF SelectAtr
  <2> QED
    BY <2>1, <2>2
<1>5. UNCHANGED <<doc, staged>>
  BY DEF Start, serverVars
<1>6. OpFits(o)'
  BY <1>1, <1>2, <1>3, <1>4, <1>5 DEF OpFits
<1>7. \A q \in Ops \ {o} : SameRequest(q)
  BY <1>4 DEF SameRequest, Underway
<1> QED
  BY <1>5, <1>6, <1>7, QuietOpData

LEMMA StagingData ==
    ASSUME TypeOK, TypeOK', Data, NEW o \in Ops, NEW verb \in {"replace", "remove"},
           StageMutation(o, verb)
    PROVE  Data'
<1> USE DEF TypeOK, ServerTypes, OpTypes
<1> DEFINE d       == op[o].doc
           natural == AnswerToStaging(doc[d], op[o].cas, verb = "replace")
<1>1. /\ d \in Docs /\ doc[d] \in Document /\ doc[d].cas \in Nat
      /\ Underway(o) /\ op[o].verb = verb /\ OpFits(o) /\ DocFits(d)
  BY DEF StageMutation, Staging, Underway, Data, Document
<1>2. PICK ans \in DocAnswers(natural) :
        /\ DocRequest(d, ans, Mutated(doc[d], doc[d].body, verb))
        /\ \/ ans.class = "OK" /\ MoveTo(o, "done") /\ AddStaged(d, verb)
           \/ Fail(o, Retry) /\ UNCHANGED staged
           \/ Fail(o, Plain) /\ UNCHANGED staged
  BY DEF StageMutation, Staged
<1>3. (ans.lands => natural = "OK") /\ (ans.class = "OK" => ans.lands)
  BY <1>2, AnswerType DEF DocAnswers
<1>4. ans.lands => doc[d].body # "none" /\ op[o].cas = doc[d].cas
  BY <1>1, <1>3 DEF AnswerToStaging, OpFits
<1>5. /\ Grows
      /\ \A q \in Docs \ {d} : doc'[q] = doc[q]
      /\ doc'[d] = doc[d] \/ doc'[d] = Mutated(doc[d], doc[d].body, verb)
      /\ ans.lands => doc'[d] = Mutated(doc[d], doc[d].body, verb)
  BY <1>1, <1>2, RequestGrows
<1>6. \A q \in Docs : DocFits(q)'
  <2>1. verb # "insert"
    OBVIOUS
  <2> QED
    BY <1>1, <1>5, <2>1, MutatedFits
<1>7. \A q \in Ops : SameRequest(q)
  BY <1>2, MovesKeepRequests DEF Stages
<1>8. \A q \in Docs : staged'[q] = staged[q] \/ QueueFits(q)'
  <2>1. CASE UNCHANGED staged
    BY <2>1
  <2>2. CASE ans.class = "OK" /\ AddStaged(d, verb)
    <3>1. \A q \in Docs \ {d} : staged'[q] = staged[q]
      BY <2>2 DEF AddStaged
    <3>2. staged'[d].type = verb /\ staged'[d].cas = doc[d].cas + 1
      BY <1>1, <2>2 DEF AddStaged
    <3>3. doc'[d].cas = doc[d].cas + 1 /\ doc'[d].stg = verb /\ doc'[d].body = doc[d].body
      BY <1>3, <1>5, <2>2 DEF Mutated
    <3> QED
      BY <1>1, <1>3, <1>4, <2>2, <3>1, <3>2, <3>3 DEF QueueFits
  <2> QED
    BY <1>2, <2>1, <2>2
<1> QED
  BY <1>5, <1>6, <1>7, <1>8, DataStep

LEMMA StageInsertData ==
    ASSUME TypeOK, TypeOK', Data, NEW o \in Ops, StageInsert(o)
    PROVE  Data'
<1> USE DEF TypeOK, ServerTypes, OpTypes
<1> DEFINE d       == op[o].doc
           natural == AnswerToStagedInsert(doc[d], op[o].cas)
<1>1. /\ d \in Docs /\ doc[d] \in Document /\ doc[d].cas \in Nat
      /\ Underway(o) /\ op[o].verb = "insert" /\ OpFits(o) /\ DocFits(d)
  BY DEF StageInsert, Staging, Underway, Data, Document
<1>2. PICK ans \in DocAnswers(natural) :
        /\ DocRequest(d, ans, Mutated(doc[d], doc[d].body, "insert"))
        /\ \/ MoveTo(o, "done") \/ MoveTo(o, "stage") \/ MoveTo(o, "collided")
           \/ Fail(o, Expired) \/ Fail(o, Retry) \/ Fail(o, Plain)
        /\ (ans.class = "OK" /\ AddStaged(d, "insert")) \/ UNCHANGED staged
  BY DEF StageInsert, Staged
<1>3. (ans.lands => natural = "OK") /\ (ans.class = "OK" => ans.lands)
  BY <1>2, AnswerType DEF DocAnswers
<1>4. natural = "OK" => doc[d].body = "none"
  BY <1>1 DEF AnswerToStagedInsert, AnswerToStaging, OpFits, DocFits
<1>5. /\ Grows
      /\ \A q \in Docs \ {d} : doc'[q] = doc[q]
      /\ doc'[d] = doc[d] \/ (ans.lands /\ doc'[d] = Mutated(doc[d], doc[d].body, "insert"))
      /\ ans.lands => doc'[d] = Mutated(doc[d], doc[d].body, "insert")
  BY <1>1, <1>2, RequestGrows
<1>6. \A q \in Docs : DocFits(q)'
  <2>1. CASE ans.lands
    BY <1>1, <1>3, <1>4, <1>5, <2>1, MutatedFits
  <2>2. CASE ~ans.lands
    BY <1>5, <2>2 DEF DocFits, Data
  <2> QED
    BY <2>1, <2>2
<1>7. \A q \in Ops : SameRequest(q)
  BY <1>1, <1>2, MovesKeepRequests DEF Stages
<1>8. \A q \in Docs : staged'[q] = staged[q] \/ QueueFits(q)'
  <2>1. CASE UNCHANGED staged
    BY <2>1
  <2>2. CASE ans.class = "OK" /\ AddStaged(d, "insert")
    <3>1. \A q \in Docs \ {d} : staged'[q] = staged[q]
      BY <2>2 DEF AddStaged
    <3>2. staged'[d].type = "insert" /\ staged'[d].cas = doc[d].cas + 1
      BY <1>1, <2>2 DEF AddStaged
    <3>3. doc'[d].cas = doc[d].cas + 1 /\ doc'[d].stg = "insert" /\ doc'[d].body = "none"
      BY <1>3, <1>4, <1>5, <2>2 DEF Mutated
    <3> QED
      BY <1>1, <3>1, <3>2, <3>3 DEF QueueFits
  <2> QED
    BY <1>2, <2>1, <2>2
<1> QED
  BY <1>5, <1>6, <1>7, <1>8, DataStep

LEMMA CollidedData ==
    ASSUME TypeOK, TypeOK', Data, NEW o \in Ops, InsertCollided(o)
    PROVE  Data'
<1> USE DEF TypeOK, ServerTypes, OpTypes
<1> DEFINE d     == op[o].doc
           again == [op[o] EXCEPT !.at = "stage", !.cas = doc[d].cas]
<1>1. /\ d \in Docs /\ doc[d].cas \in Nat /\ DocFits(d) /\ op[o] \in Op
      /\ Underway(o) /\ OpFits(o) /\ op[o].verb = "insert"
  BY DEF InsertCollided, RivalErrors, Underway, OpFits, Data, Document
<1>2. UNCHANGED <<doc, staged>>
  BY DEF InsertCollided, RivalErrors, serverVars
<1>3. \/ op' = [op EXCEPT ![o] = again] /\ (doc[d].body = "none" \/ doc[d].stg = "insert")
      \/ Fail(o, Plain) \/ Fail(o, Retry)
  BY DEF InsertCollided, RivalErrors
<1>4. ASSUME op' = [op EXCEPT ![o] = again], doc[d].body = "none" \/ doc[d].stg = "insert"
      PROVE  \A q \in Ops : SameRequest(q) \/ OpFits(q)'
  <2>1. doc[d].body = "none"
    BY <1>1, <1>4 DEF DocFits
  <2>2. op'[o] = again /\ \A q \in Ops \ {o} : op'[q] = op[q]
    BY <1>4
  <2>3. again.doc = d /\ again.cas = doc[d].cas /\ again.verb = "insert" /\ again.at = "stage"
    BY <1>1 DEF Op
  <2>4. OpFits(o)'
    BY <1>1, <1>2, <2>1, <2>2, <2>3 DEF OpFits
  <2>5. \A q \in Ops \ {o} : SameRequest(q)
    BY <2>2 DEF SameRequest, Underway
  <2> QED
    BY <2>4, <2>5
<1>5. ASSUME Fail(o, Plain) \/ Fail(o, Retry) PROVE \A q \in Ops : SameRequest(q)
  BY <1>5, MovesKeepRequests
<1> QED
  BY <1>2, <1>3, <1>4, <1>5, QuietOpData

LEMMA RemoveStagedInsertData ==
    ASSUME TypeOK, TypeOK', Data, NEW o \in Ops, RemoveStagedInsert(o)
    PROVE  Data'
<1> DEFINE d == op[o].doc
<1>1. d \in Docs
  BY DEF RemoveStagedInsert, Staging, TypeOK, OpTypes
<1>2. PICK ans :
        /\ DocRequest(d, ans, Mutated(doc[d], doc[d].body, "none"))
        /\ \/ MoveTo(o, "done") /\ staged' = [staged EXCEPT ![d] = NotStaged]
           \/ Fail(o, Retry) /\ UNCHANGED staged
  BY DEF RemoveStagedInsert, Staged
<1>3. /\ Grows
      /\ \A q \in Docs \ {d} : doc'[q] = doc[q]
      /\ doc'[d] = doc[d] \/ doc'[d] = Mutated(doc[d], doc[d].body, "none")
  <2> DEFINE body == doc[d].body
  <2>1. DocRequest(d, ans, Mutated(doc[d], body, "none"))
    BY <1>2
  <2> HIDE DEF body, d
  <2>2. Grows /\ (\A q \in Docs \ {d} : doc'[q] = doc[q])
        /\ (doc'[d] = doc[d] \/ doc'[d] = Mutated(doc[d], body, "none"))
    BY <1>1, <2>1, RequestGrows
  <2> QED
    BY <2>2 DEF body
<1>4. \A q \in Docs : DocFits(q)'
  <2>1. "none" # "insert"
    OBVIOUS
  <2> QED
    BY <1>1, <1>3, <2>1, MutatedFits
<1>5. \A q \in Ops : SameRequest(q)
  BY <1>2, MovesKeepRequests DEF Stages
<1>6. \A q \in Docs : staged'[q] = staged[q] \/ QueueFits(q)'
  BY <1>1, <1>2 DEF NotStaged, QueueFits, TypeOK, OpTypes
<1> QED
  BY <1>3, <1>4, <1>5, <1>6, DataStep

LEMMA OpStepData == ASSUME TypeOK, TypeOK', Data, NEW o \in Ops, OpStep(o) PROVE Data'
<1>1. CASE StartAfterError(o)
  <2>1. \A q \in Ops : SameRequest(q)
    BY <1>1, MovesKeepRequests DEF StartAfterError
  <2> QED
    BY <1>1, <2>1, QuietOpData DEF StartAfterError, serverVars
<1>2. ASSUME NEW kind \in Mutations, NEW d \in Docs,
             StartRuledOut(o, kind, d) \/ StartExpired(o, kind, d)
      PROVE  Data'
  <2>1. UNCHANGED <<doc, staged>> /\ \E e : Fail(o, e)
    BY <1>2 DEF StartRuledOut, StartExpired, serverVars
  <2> QED
    BY <2>1, QuietOpData, MovesKeepRequests
<1>3. CASE \E kind \in Mutations, d \in Docs : Start(o, kind, d)
  BY <1>3, StartData
<1>4. CASE AtrPending(o)
  <2>1. /\ UNCHANGED <<doc, staged>> /\ Underway(o)
        /\ \/ MoveTo(o, "stage") \/ MoveTo(o, "atr_again")
           \/ \E e : Fail(o, e)
    BY <1>4 DEF AtrPending, Underway
  <2> QED
    BY <2>1, QuietOpData, MovesKeepRequests DEF Stages
<1>5. CASE AtrPendingAgain(o)
  <2>1. /\ UNCHANGED <<doc, staged>> /\ Underway(o)
        /\ \/ MoveTo(o, "stuck") \/ MoveTo(o, "atr")
           \/ \E e : Fail(o, e)
    BY <1>5 DEF AtrPendingAgain, Underway, serverVars
  <2> QED
    BY <2>1, QuietOpData, MovesKeepRequests DEF Stages
<1>6. CASE StageReplace(o) \/ StageRemove(o)
  <2>1. \E verb \in {"replace", "remove"} : StageMutation(o, verb)
    BY <1>6 DEF StageReplace, StageRemove
  <2> QED
    BY <2>1, StagingData
<1>7. CASE StageInsertExpired(o) \/ InsertCollidedFault(o) \/ RemoveStagedInsertExpired(o)
  <2>1. UNCHANGED <<doc, staged>> /\ \E e : Fail(o, e)
    BY <1>7 DEF StageInsertExpired, InsertCollidedFault, RemoveStagedInsertExpired, serverVars
  <2> QED
    BY <2>1, QuietOpData, MovesKeepRequests
<1>8. CASE StageInsert(o)
  BY <1>8, StageInsertData
<1>9. CASE InsertCollided(o)
  BY <1>9, CollidedData
<1>10. CASE RemoveStagedInsert(o)
  BY <1>10, RemoveStagedInsertData
<1>11. CASE RivalChecked(o)
  <2>1. /\ UNCHANGED <<doc, staged>> /\ Underway(o)
        /\ \/ MoveTo(o, "stage") \/ MoveTo(o, "atr")
           \/ \E e : Fail(o, e)
    BY <1>11 DEF RivalChecked, RivalErrors, SelectAtr, Underway, serverVars
  <2> QED
    BY <2>1, QuietOpData, MovesKeepRequests DEF Stages
<1> QED
  BY <1>1, <1>2, <1>3, <1>4, <1>5, <1>6, <1>7, <1>8, <1>9, <1>10, <1>11 DEF OpStep

\* Steps of the thread of the attempt, and others that leave operations alone.
LEMMA QuietMainData == ASSUME TypeOK, TypeOK', Data, UNCHANGED opVars, UNCHANGED doc PROVE Data'
<1>1. UNCHANGED staged /\ \A o \in Ops : SameRequest(o)
  BY DEF opVars, SameRequest, Underway
<1> QED
  BY <1>1, QuietOpData

LEMMA WriteData ==
    ASSUME TypeOK, TypeOK', Data, UNCHANGED opVars,
           NEW d \in Docs, NEW ans, NEW body \in Bodies,
           DocRequest(d, ans, Mutated(doc[d], body, "none"))
    PROVE  Data'
<1>1. UNCHANGED staged /\ \A o \in Ops : SameRequest(o)
  BY DEF opVars, SameRequest, Underway
<1>2. /\ Grows
      /\ \A q \in Docs \ {d} : doc'[q] = doc[q]
      /\ doc'[d] = doc[d] \/ doc'[d] = Mutated(doc[d], body, "none")
  BY RequestGrows
<1>3. "none" # "insert"
  OBVIOUS
<1>4. \A q \in Docs : DocFits(q)'
  BY <1>2, <1>3, MutatedFits
<1> QED
  BY <1>1, <1>2, <1>4, DataStep

LEMMA MainStepData == ASSUME TypeOK, TypeOK', Control, Data, MainStep PROVE Data'
<1>1. UNCHANGED opVars
  BY MainStepControl
<1>2. CASE \/ LogicThrows \/ Finalize \/ Report \/ CommitBegin \/ AtrCommit \/ UnstageEnd
           \/ RollbackBegin \/ ExpireInRollback \/ RollbackDocsEnd
  <2>1. UNCHANGED doc
    BY <1>2 DEF LogicThrows, Finalize, Report, CommitBegin, AtrCommit, UnstageEnd, RollbackBegin,
                ExpireInRollback, RollbackDocsEnd, serverVars
  <2> QED
    BY <1>1, <2>1, QuietMainData
<1>3. CASE AtrCommitAnswer \/ AtrComplete \/ AtrAbort \/ AtrRollbackComplete
  <2>1. UNCHANGED doc
    BY <1>3 DEF AtrCommitAnswer, AtrComplete, AtrAbort, AtrRollbackComplete
  <2> QED
    BY <1>1, <2>1, QuietMainData
<1>4. ASSUME NEW d \in Docs, UnstageDoc(d) \/ UnstageRemove(d) \/ RollbackDoc(d) PROVE Data'
  <2>1. doc[d].body \in Bodies
    BY DEF TypeOK, ServerTypes, Document
  <2>2. PICK ans : \/ DocRequest(d, ans, Mutated(doc[d], "new", "none"))
                   \/ DocRequest(d, ans, Mutated(doc[d], "none", "none"))
                   \/ DocRequest(d, ans, Mutated(doc[d], doc[d].body, "none"))
    BY <1>4 DEF UnstageDoc, UnstageRemove, RollbackDoc, Staged
  <2>3. "new" \in Bodies /\ "none" \in Bodies
    BY DEF Bodies
  <2> QED
    BY <1>1, <2>1, <2>2, <2>3, WriteData
<1> QED
  BY <1>2, <1>3, <1>4 DEF MainStep

\* A write of somebody else, seen as the answer to a request.
LEMMA ForeignData ==
    ASSUME TypeOK, TypeOK', Data, NEW d \in Docs, NEW body \in Bodies, NEW stg \in Stagings,
           stg = "insert" => body = "none", Foreign(d, Mutated(doc[d], body, stg))
    PROVE  Data'
<1>1. /\ Grows
      /\ \A q \in Docs \ {d} : doc'[q] = doc[q]
      /\ doc'[d] = Mutated(doc[d], body, stg)
  BY DEF Foreign, Grows, Mutated, TypeOK, ServerTypes, Document
<1>2. \A q \in Docs : DocFits(q)'
  BY <1>1, MutatedFits
<1>3. UNCHANGED staged /\ \A o \in Ops : SameRequest(o)
  BY DEF Foreign, opVars, SameRequest, Underway
<1> QED
  BY <1>1, <1>2, <1>3, DataStep

LEMMA SurroundingsData == ASSUME TypeOK, TypeOK', Control, Data, Surroundings PROVE Data'
<1>1. CASE Expire \/ Crash \/ CleanQueue \/ CleanLost
  <2>1. UNCHANGED doc
    BY <1>1 DEF Expire, Crash, CleanQueue, CleanLost, serverVars
  <2> QED
    BY <2>1, SurroundingsControl, QuietMainData
<1>2. ASSUME NEW d \in Docs, ForeignWrite(d) \/ RivalStage(d) \/ RivalEnd(d) PROVE Data'
  <2>1. doc[d].body \in Bodies /\ doc[d].stg \in Stagings /\ DocFits(d)
    BY DEF TypeOK, ServerTypes, Document, Data
  <2>2. \E body \in Bodies, stg \in Stagings :
            (stg = "insert" => body = "none") /\ Foreign(d, Mutated(doc[d], body, stg))
    BY <1>2, <2>1 DEF ForeignWrite, RivalStage, RivalEnd, Staged, DocFits, Bodies, Stagings
  <2> QED
    BY <2>2, ForeignData
<1> QED
  BY <1>1, <1>2 DEF Surroundings

-----------------------------------------------------------------------------
(* The invariant, and the properties it implies *)

LEMMA IInvInit == Init => IInv
<1> SUFFICES ASSUME Init PROVE IInv
  OBVIOUS
<1>1. TypeOK
  BY TypeInit
<1>2. Control
  BY DEF Init, Control, Waited, Committing
<1>3. \A d \in Docs : DocFits(d) /\ QueueFits(d)
  BY DEF Init, DocFits, QueueFits, Absent, Existing, NotStaged
<1>4. \A o \in Ops : OpFits(o)
  BY DEF Init, OpFits, Underway, IdleOp
<1> QED
  BY <1>1, <1>2, <1>3, <1>4 DEF IInv, Data

LEMMA IInvNext == ASSUME IInv, [Next]_vars PROVE IInv'
<1>1. TypeOK /\ TypeOK' /\ Control /\ Data
  BY TypeNext DEF IInv
<1>2. CASE UNCHANGED vars
  <2>1. Control'
    BY <1>1, <1>2 DEF vars, Control, Active, InQueue
  <2>2. Data'
    BY <1>1, <1>2, QuietMainData DEF vars, opVars
  <2> QED
    BY <1>1, <2>1, <2>2 DEF IInv
<1>3. CASE \E o \in Ops : OpStep(o)
  BY <1>1, <1>3, OpStepKeepsControl, OpStepData DEF IInv
<1>4. CASE MainStep
  BY <1>1, <1>4, MainStepControl, MainStepData DEF IInv
<1>5. CASE Surroundings
  BY <1>1, <1>5, SurroundingsControl, SurroundingsData DEF IInv
<1> QED
  BY <1>2, <1>3, <1>4, <1>5 DEF Next

\* The invariant holds of every behaviour: of all documents and operations an
\* application may use, and of any faults, foreign writes and retries.
THEOREM Invariance == Spec => []IInv
BY IInvInit, IInvNext, PTL DEF Spec

\* No document is written once an operation of the attempt has failed, whatever the
\* operations of the application do while commit waits for them.
THEOREM NeverWritesAfterError == Spec => []NoWriteAfterError
<1>1. IInv => NoWriteAfterError
  BY DEF IInv, Control, NoWriteAfterError
<1> QED
  BY <1>1, Invariance, PTL

\* The queue describes what is staged, and fits the document, for as long as the
\* document has not changed: commit_doc and the rollback choose the right request.
THEOREM QueueIsFaithful == Spec => []QueueMatchesStore
<1>1. IInv => QueueMatchesStore
  BY DEF IInv, Data, QueueFits, QueueMatchesStore, InQueue
<1> QED
  BY <1>1, Invariance, PTL

\* A rollback leaves alone what another transaction has staged over a mutation of
\* this one: its requests carry a CAS at which the document held the own mutation.
THEOREM RollbackIsSelective == Spec => RollbackSparesOthers
<1> DEFINE Spares == phase = "rollback_docs" /\ op' = op /\ foreign' = foreign
                        => \A d \in Docs : doc[d].stg = "rival" => doc'[d] = doc[d]
<1>1. ASSUME IInv, [Next]_vars PROVE [Spares]_vars
  <2> SUFFICES ASSUME phase = "rollback_docs", op' = op, foreign' = foreign,
                      NEW d \in Docs, doc[d].stg = "rival"
               PROVE  doc'[d] = doc[d]
    OBVIOUS
  <2>1. TypeOK /\ Control /\ Data /\ blocked
    BY <1>1 DEF IInv, Control, Waited
  <2>2. ASSUME NEW q \in Docs, RollbackDoc(q) PROVE doc'[d] = doc[d]
    <3> DEFINE natural == AnswerToUnstaging(doc[q], RollbackCas(staged[q]), staged[q].type = "insert")
    <3>1. PICK ans \in DocAnswers(natural) : DocRequest(q, ans, Mutated(doc[q], doc[q].body, "none"))
      BY <2>2 DEF RollbackDoc, Staged
    <3>2. staged[q].type # "none" /\ QueueFits(q)
      BY <2>1, <2>2 DEF RollbackDoc, AtDocument, Control, InQueue, Data
    <3>3. staged[q].type \in Mutations /\ staged[q].cas \in Nat
      BY <2>1, <3>2 DEF TypeOK, OpTypes
    <3>4. ans.lands => doc[q].stg = staged[q].type
      <4>1. ans.lands => natural = "OK"
        BY <3>1, AnswerType DEF DocAnswers
      <4> QED
        BY <3>2, <3>3, <4>1 DEF AnswerToUnstaging, RollbackCas, QueueFits
    <3>5. CASE q = d
      BY <2>1, <3>1, <3>3, <3>4, <3>5 DEF DocRequest, Mutations
    <3>6. CASE q # d
      BY <2>1, <3>1, <3>6 DEF DocRequest, TypeOK, ServerTypes
    <3> QED
      BY <3>5, <3>6
  <2>3. CASE UNCHANGED doc
    BY <2>3
  <2>4. CASE \E o \in Ops : OpStep(o)
    BY <2>1, <2>4, OpStepControl
  <2>5. CASE MainStep
    <3>1. CASE \/ LogicThrows \/ Finalize \/ Report \/ CommitBegin \/ AtrCommit \/ UnstageEnd
               \/ RollbackBegin \/ ExpireInRollback \/ RollbackDocsEnd
      BY <3>1 DEF LogicThrows, Finalize, Report, CommitBegin, AtrCommit, UnstageEnd, RollbackBegin,
                  ExpireInRollback, RollbackDocsEnd, serverVars
    <3>2. CASE AtrCommitAnswer \/ AtrComplete \/ AtrAbort \/ AtrRollbackComplete
      BY <3>2 DEF AtrCommitAnswer, AtrComplete, AtrAbort, AtrRollbackComplete
    <3>3. CASE \E q \in Docs : UnstageDoc(q) \/ UnstageRemove(q)
      BY <3>3 DEF UnstageDoc, UnstageRemove
    <3> QED
      BY <2>2, <2>5, <3>1, <3>2, <3>3 DEF MainStep
  <2>6. CASE Surroundings
    <3>1. CASE Expire \/ Crash \/ CleanQueue \/ CleanLost
      BY <3>1 DEF Expire, Crash, CleanQueue, CleanLost, serverVars
    <3>2. CASE \E q \in Docs : ForeignWrite(q) \/ RivalStage(q) \/ RivalEnd(q)
      <4>1. foreign' = foreign + 1
        BY <3>2 DEF ForeignWrite, RivalStage, RivalEnd, Foreign
      <4> QED
        BY <2>1, <4>1 DEF TypeOK, EnvTypes
    <3> QED
      BY <2>6, <3>1, <3>2 DEF Surroundings
  <2> QED
    BY <1>1, <2>3, <2>4, <2>5, <2>6 DEF Next, vars
<1> QED
  BY <1>1, Invariance, PTL DEF Spec, RollbackSparesOthers

-----------------------------------------------------------------------------
(* A rollback that is complete has unstaged the queue *)

Unstaged(d) == doc[d].stg \notin Mutations

\* The loop over the queue leaves no mutation on what it has passed, and only the end
\* of that loop leads to ROLLED_BACK, a state the attempt keeps.
RolledBack ==
    /\ phase = "rollback_docs" => \A d \in InQueue \ todo : Unstaged(d)
    /\ phase = "rollback_complete" => \A d \in InQueue : Unstaged(d)
    /\ state = "ROLLED_BACK" =>
          /\ blocked /\ phase \in {"report", "done", "crashed"}
          /\ \A d \in InQueue : Unstaged(d)

\* Once the operations are over, nobody puts a mutation of the attempt on a document.
LEMMA NothingIsStaged ==
    ASSUME TypeOK, Control, blocked, Next
    PROVE  UNCHANGED opVars /\ \A d \in Docs : Unstaged(d) => Unstaged(d)'
<1> USE DEF Unstaged
<1>1. ~ \E o \in Ops : OpStep(o)
  BY OpStepControl
<1>2. "none" \notin Mutations /\ "rival" \notin Mutations
  BY DEF Mutations
<1>3. CASE MainStep
  <2>1. CASE \/ LogicThrows \/ Finalize \/ Report \/ CommitBegin \/ AtrCommit \/ UnstageEnd
             \/ RollbackBegin \/ ExpireInRollback \/ RollbackDocsEnd
    BY <1>3, <2>1, MainStepControl
       DEF LogicThrows, Finalize, Report, CommitBegin, AtrCommit, UnstageEnd, RollbackBegin,
           ExpireInRollback, RollbackDocsEnd, serverVars
  <2>2. CASE AtrCommitAnswer \/ AtrComplete \/ AtrAbort \/ AtrRollbackComplete
    BY <1>3, <2>2, MainStepControl DEF AtrCommitAnswer, AtrComplete, AtrAbort, AtrRollbackComplete
  <2>3. ASSUME NEW q \in Docs, UnstageDoc(q) \/ UnstageRemove(q) \/ RollbackDoc(q)
        PROVE  \A d \in Docs : Unstaged(d) => Unstaged(d)'
    <3>1. \E ans, body : DocRequest(q, ans, Mutated(doc[q], body, "none"))
      BY <2>3 DEF UnstageDoc, UnstageRemove, RollbackDoc, Staged
    <3> QED
      BY <1>2, <3>1, RequestGrows DEF Mutated
  <2> QED
    BY <1>3, <2>1, <2>2, <2>3, MainStepControl DEF MainStep
<1>4. CASE Surroundings
  <2>1. CASE Expire \/ Crash \/ CleanQueue \/ CleanLost
    BY <1>4, <2>1, SurroundingsControl DEF Expire, Crash, CleanQueue, CleanLost, serverVars
  <2>2. ASSUME NEW q \in Docs, ForeignWrite(q) \/ RivalStage(q) \/ RivalEnd(q)
        PROVE  \A d \in Docs : Unstaged(d) => Unstaged(d)'
    <3>1. PICK body, stg : /\ stg \in {"none", "rival", doc[q].stg}
                           /\ doc' = [doc EXCEPT ![q] = Mutated(doc[q], body, stg)]
      BY <2>2 DEF ForeignWrite, RivalStage, RivalEnd, Foreign, Staged
    <3> QED
      BY <1>2, <3>1 DEF Mutated, TypeOK, ServerTypes
  <2> QED
    BY <1>4, <2>1, <2>2, SurroundingsControl DEF Surroundings
<1> QED
  BY <1>1, <1>3, <1>4 DEF Next

\* The loop passes a document when the request was carried out or the mutation is gone.
LEMMA PassedIsUnstaged ==
    ASSUME IInv, RolledBack, NEW d \in Docs, RollbackDoc(d), phase' = "rollback_docs"
    PROVE  \A q \in InQueue \ todo' : Unstaged(q)'
<1>1. TypeOK /\ Control /\ Data /\ blocked /\ phase = "rollback_docs" /\ todo \subseteq InQueue
  BY DEF IInv, Control, Waited, RollbackDoc
<1>2. \A q \in Docs : Unstaged(q) => Unstaged(q)'
  BY <1>1, NothingIsStaged DEF Next, MainStep
<1>3. todo' = todo \/ (todo' = todo \ {d})
  BY DEF RollbackDoc, NextDocument
<1>4. ASSUME todo' # todo PROVE Unstaged(d)'
  <2> DEFINE natural == AnswerToUnstaging(doc[d], staged[d].cas, staged[d].type = "insert")
  <2>1. PICK ans \in DocAnswers(natural) :
          /\ DocRequest(d, ans, Mutated(doc[d], doc[d].body, "none"))
          /\ \/ ans.class \in {"OK", "PATH_NOT_FOUND"}
             \/ ans.class = "DOC_NOT_FOUND" /\ staged[d].type = "insert"
    BY <1>4 DEF RollbackDoc, RollbackCas, Staged, RollbackIs
  <2>2. ans.lands => Unstaged(d)'
    BY <1>1, <2>1, RequestGrows DEF Unstaged, Mutated, Mutations
  <2>3. ans.class = natural /\ (natural = "OK" => ans.lands)
    BY <2>1, AnswerType DEF DocAnswers, DocFaults
  <2>4. natural = "PATH_NOT_FOUND" => Unstaged(d)
    BY DEF AnswerToUnstaging, Unstaged, Mutations
  <2>5. ~(natural = "DOC_NOT_FOUND" /\ staged[d].type = "insert")
    <3>1. staged[d].type # "none" => 0 < doc[d].cas
      BY <1>1 DEF Data, QueueFits, TypeOK, ServerTypes, OpTypes, Document
    <3> QED
      BY <3>1 DEF AnswerToUnstaging
  <2> QED
    BY <1>2, <2>1, <2>2, <2>3, <2>4, <2>5
<1> QED
  BY <1>1, <1>2, <1>3, <1>4 DEF RolledBack, InQueue

LEMMA RolledBackMainStep == ASSUME IInv, RolledBack, MainStep PROVE RolledBack'
<1>1. /\ TypeOK /\ Control /\ UNCHANGED opVars /\ InQueue' = InQueue
      /\ phase \in Waited => blocked
  BY MainStepControl DEF IInv, Control, opVars, InQueue
<1>2. ASSUME phase \notin {"report", "done", "crashed"}, state' \in States \ {"ROLLED_BACK"} \/ state' = state,
             phase' \notin {"rollback_docs", "rollback_complete"}
      PROVE  RolledBack'
  BY <1>2 DEF RolledBack
<1>3. CASE \/ LogicThrows \/ Finalize \/ CommitBegin \/ AtrCommit \/ AtrCommitAnswer \/ UnstageEnd
           \/ AtrComplete \/ RollbackBegin
  <2>1. phase \notin {"report", "done", "crashed"} /\ state' \in {state, "COMMITTED", "COMPLETED"}
    BY <1>3 DEF LogicThrows, Finalize, LogicRuns, CommitBegin, AtrCommit, AtrCommitAnswer, UnstageEnd,
                AtrComplete, RollbackBegin
  <2>2. phase' \notin {"rollback_docs", "rollback_complete"}
    BY <1>3 DEF LogicThrows, Finalize, CommitBegin, AtrCommit, AtrCommitAnswer, UnstageEnd,
                AtrComplete, RollbackBegin, RollbackIs, HandleError
  <2> QED
    BY <1>2, <2>1, <2>2 DEF States
<1>4. CASE Report
  BY <1>1, <1>4 DEF Report, RolledBack, Unstaged, serverVars
<1>5. CASE \E d \in Docs : UnstageDoc(d) \/ UnstageRemove(d)
  <2>1. phase = "unstage" /\ phase' \in {"unstage", "rollback_wait", "report"} /\ state' = state
    BY <1>5 DEF UnstageDoc, UnstageRemove, PostCommitFailure, HandleError
  <2> QED
    BY <1>2, <2>1
<1>6. CASE ExpireInRollback
  BY <1>1, <1>6 DEF ExpireInRollback, Again, RollbackIs, RolledBack, Unstaged, serverVars
<1>7. CASE AtrAbort
  <2>1. /\ phase = "atr_abort"
        /\ \/ state' = "ABORTED" /\ phase' = "rollback_docs" /\ todo' = InQueue
           \/ state' = state /\ phase' \in {"atr_abort", "report"}
    BY <1>7 DEF AtrAbort, RollbackIs, Again
  <2> QED
    BY <1>1, <2>1 DEF RolledBack
<1>8. ASSUME NEW d \in Docs, RollbackDoc(d) PROVE RolledBack'
  <2>1. phase = "rollback_docs" /\ phase' \in {"rollback_docs", "report"} /\ state' = state
    BY <1>8 DEF RollbackDoc, RollbackIs, Again
  <2>2. phase' = "rollback_docs" => \A q \in InQueue \ todo' : Unstaged(q)'
    BY <1>8, PassedIsUnstaged
  <2> QED
    BY <1>1, <2>1, <2>2 DEF RolledBack
<1>9. CASE RollbackDocsEnd
  BY <1>1, <1>9 DEF RollbackDocsEnd, RolledBack, Unstaged, serverVars
<1>10. CASE AtrRollbackComplete
  <2>1. /\ phase = "rollback_complete" /\ blocked /\ blocked' = blocked /\ doc' = doc
        /\ \/ state' = "ROLLED_BACK" /\ phase' = "report"
           \/ state' = state /\ phase' \in {"rollback_complete", "report"}
    BY <1>1, <1>10 DEF AtrRollbackComplete, RollbackIs, Again, GivesUp, AtrFaults, DocFaults, Waited
  <2> QED
    BY <1>1, <2>1 DEF RolledBack, Unstaged
<1> QED
  BY <1>3, <1>4, <1>5, <1>6, <1>7, <1>8, <1>9, <1>10 DEF MainStep

LEMMA RolledBackStep == ASSUME IInv, RolledBack, [Next]_vars PROVE RolledBack'
<1>1. TypeOK /\ Control
  BY DEF IInv
<1>2. CASE UNCHANGED vars
  BY <1>2 DEF vars, RolledBack, InQueue, Unstaged
<1>3. ASSUME NEW o \in Ops, OpStep(o) PROVE RolledBack'
  <2>1. ~blocked /\ UNCHANGED <<phase, mainVars>> /\ phase \notin Waited
    BY <1>1, <1>3, OpStepControl DEF Control
  <2>2. state' \in {state, "PENDING"}
    BY <1>3 DEF OpStep, StartAfterError, StartRuledOut, StartExpired, Start, RivalChecked, AtrPending,
                AtrPendingAgain, StageReplace, StageRemove, StageMutation, StageInsertExpired, StageInsert,
                InsertCollided, InsertCollidedFault, RemoveStagedInsertExpired, RemoveStagedInsert
  <2> QED
    BY <2>1, <2>2 DEF RolledBack, Waited
<1>4. CASE Surroundings
  <2>1. /\ UNCHANGED <<opVars, blocked, todo, state>> /\ phase' \in {phase, "crashed"}
        /\ InQueue' = InQueue
    BY <1>4 DEF Surroundings, Expire, Crash, CleanQueue, CleanLost, ForeignWrite, RivalStage, RivalEnd,
                Foreign, mainVars, opVars, InQueue
  <2>2. blocked => \A d \in Docs : Unstaged(d) => Unstaged(d)'
    BY <1>1, <1>4, NothingIsStaged DEF Next
  <2>3. phase \in Waited => blocked
    BY <1>1 DEF Control
  <2> QED
    BY <2>1, <2>2, <2>3 DEF RolledBack, InQueue, Waited
<1> QED
  BY <1>2, <1>3, <1>4, RolledBackMainStep DEF Next

\* An attempt that says it is rolled back, which cleanup takes as its leave to do nothing,
\* has left no mutation of its queue on a document, whatever failed on the way.
THEOREM RollbackIsComplete == Spec => []RolledBackIsClean
<1>1. Init => RolledBack
  BY DEF Init, RolledBack
<1>2. IInv /\ RolledBack => RolledBackIsClean
  BY DEF RolledBack, RolledBackIsClean, Unstaged
<1>3. Spec => []RolledBack
  BY <1>1, RolledBackStep, Invariance, PTL DEF Spec
<1> QED
  BY <1>2, <1>3, Invariance, PTL

-----------------------------------------------------------------------------
(* Attempt implements Promise: what the attempt decides, writes and        *)
(* reports is what Promise allows.  And one that nothing disturbs leaves   *)
(* nothing behind.                                                         *)

(* What the mapping needs beyond IInv: where the control is tells what has *)
(* been decided, written and reported.                                     *)

Undecided == {"logic", "commit_wait", "atr_commit", "atr_commit_sent", "rollback_wait", "atr_abort"}
Committed == {"unstage", "atr_complete"}
Aborted   == {"rollback_docs", "rollback_complete"}

\* An operation that has sent a request of its own.
Sending(o) == op[o].at \in {"atr", "atr_again", "stage", "collided"}

\* Only a failure past the commit point is reported as one.
PostCommit == thrown.raise = "FAILED_POST_COMMIT"

Decisions ==
    /\ phase \in Undecided => Decision = "open"
    /\ phase \in Committed => Decision = "commit"
    /\ phase \in Aborted => Decision = "abort"
    /\ ~blocked => Decision = "open" /\ outcome \notin {"success", "FAILED_POST_COMMIT"}
    /\ phase # "done" => outcome = "none"

Reports ==
    /\ \A i \in DOMAIN errs : errs[i].raise # "FAILED_POST_COMMIT"
    /\ phase \in {"rollback_wait", "atr_abort"} \cup Aborted => ~PostCommit
    /\ phase = "report" => (Decision = "commit" <=> PostCommit)
    /\ thrown.retry => ~PostCommit

Writes ==
    /\ written \subseteq InQueue
    /\ written # {} => Decision = "commit"
    /\ phase = "unstage" => InQueue \subseteq todo \cup written
    /\ phase = "atr_complete" => InQueue \subseteq written
    /\ atrChosen = TRUE \/ InQueue = {}
    /\ \A o \in Ops : Sending(o) => atrChosen = TRUE

PInv == Decisions /\ Reports /\ Writes

\* The mapping, by cases.
LEMMA Mapping ==
    /\ state \in {"COMMITTED", "COMPLETED"} => Decision = "commit"
    /\ state \in {"ABORTED", "ROLLED_BACK"} => Decision = "abort"
    /\ state \in {"NOT_STARTED", "PENDING"} => Decision = "open"
    /\ outcome = "none" => Verdict = "none"
    /\ outcome = "success" => Verdict = "committed"
    /\ outcome = "FAILED_POST_COMMIT" => Verdict = "incomplete"
    /\ outcome \notin {"none", "success", "FAILED_POST_COMMIT"} => Verdict = "not_committed"
<1>1. /\ state \in {"COMMITTED", "COMPLETED"} => Decision = "commit"
      /\ state \in {"ABORTED", "ROLLED_BACK"} => Decision = "abort"
      /\ state \in {"NOT_STARTED", "PENDING"} => Decision = "open"
  BY DEF Decision
<1>2. outcome = "none" => Verdict = "none"
  BY DEF Verdict
<1>3. outcome = "success" => Verdict = "committed"
  BY DEF Verdict
<1>4. outcome = "FAILED_POST_COMMIT" => Verdict = "incomplete"
  BY DEF Verdict
<1>5. outcome \notin {"none", "success", "FAILED_POST_COMMIT"} => Verdict = "not_committed"
  BY DEF Verdict
<1> QED
  BY <1>1, <1>2, <1>3, <1>4, <1>5

-----------------------------------------------------------------------------
(* Operations *)

\* The errors of operations never report a failure past the commit point.
NotPostCommit == {e \in Errors : e.raise # "FAILED_POST_COMMIT"}

LEMMA OpErrors ==
    /\ Plain \in NotPostCommit /\ Expired \in NotPostCommit /\ Retry \in NotPostCommit
    /\ Fatal("EXPIRED") \in NotPostCommit /\ Fatal("FAILED") \in NotPostCommit
    /\ Fatal("AMBIGUOUS") \in NotPostCommit
    /\ Fatal("FAILED_POST_COMMIT").raise = "FAILED_POST_COMMIT"
    /\ Retry.retry /\ ~Fatal("FAILED_POST_COMMIT").retry
BY ErrorTypes DEF NotPostCommit, Plain, Expired, Retry, Failed, Fatal, Raises

\* merge_errors returns one of the errors it is given.
LEMMA MergedError ==
    ASSUME TypeOK, Reports, errs # <<>>
    PROVE  MergeErrors(errs) \in NotPostCommit
BY MergedIsOne, ErrorTypes DEF TypeOK, OpTypes, Reports, NotPostCommit

\* What a step of an operation may do to the state, to the errors, and before the
\* ATR has been chosen.
LEMMA OpStepFacts ==
    ASSUME TypeOK, Reports, Writes, NEW o \in Ops, OpStep(o)
    PROVE  /\ state' = state \/ state' = "PENDING"
           /\ errs' = errs \/ \E e \in NotPostCommit : errs' = Append(errs, e)
           /\ atrChosen' = TRUE \/ (UNCHANGED staged /\ atrChosen' = atrChosen /\ \A q \in Ops : ~Sending(q)')
<1>1. \A q \in Ops : Sending(q) => atrChosen = TRUE
  BY DEF Writes
<1>2. ASSUME NEW e \in NotPostCommit, Fail(o, e), UNCHANGED <<state, atrChosen, staged>>
      PROVE  /\ state' = state
             /\ \E f \in NotPostCommit : errs' = Append(errs, f)
             /\ atrChosen' = TRUE \/ (UNCHANGED staged /\ atrChosen' = atrChosen /\ \A q \in Ops : ~Sending(q)')
  <2>1. \A q \in Ops : Sending(q)' => Sending(q)
    BY <1>2 DEF Fail, Sending, TypeOK, OpTypes
  <2>2. CASE \E q \in Ops : Sending(q)
    <3>1. atrChosen' = TRUE
      BY <1>1, <1>2, <2>2
    <3> QED
      BY <1>2, <3>1 DEF Fail
  <2>3. CASE ~\E q \in Ops : Sending(q)
    BY <1>2, <2>1, <2>3 DEF Fail
  <2> QED
    BY <2>2, <2>3
<1>3. CASE StartAfterError(o)
  <2>1. MergeErrors(errs) \in NotPostCommit
    BY <1>3, MergedError DEF StartAfterError, ExistingError
  <2> QED
    BY <1>2, <1>3, <2>1 DEF StartAfterError
<1>4. ASSUME NEW kind \in Mutations, NEW d \in Docs,
             StartRuledOut(o, kind, d) \/ StartExpired(o, kind, d)
      PROVE  /\ state' = state
             /\ \E f \in NotPostCommit : errs' = Append(errs, f)
             /\ atrChosen' = TRUE \/ (UNCHANGED staged /\ atrChosen' = atrChosen /\ \A q \in Ops : ~Sending(q)')
  <2>1. UNCHANGED <<state, atrChosen, staged>> /\ \E e \in NotPostCommit : Fail(o, e)
    BY <1>4, OpErrors DEF StartRuledOut, StartExpired
  <2> QED
    BY <1>2, <2>1
<1>5. ASSUME NEW kind \in Mutations, NEW d \in Docs, Start(o, kind, d)
      PROVE  /\ UNCHANGED <<state, errs>>
             /\ atrChosen' = TRUE \/ (UNCHANGED staged /\ atrChosen' = atrChosen /\ \A q \in Ops : ~Sending(q)')
  <2>1. UNCHANGED <<state, errs, staged>> /\ op \in [Ops -> Op]
    BY <1>5 DEF Start, TypeOK, OpTypes
  <2>2. CASE ~MeetsRival(kind, d)
    BY <1>5, <2>1, <2>2 DEF Start
  <2>3. CASE atrChosen = TRUE
    BY <1>5, <2>1, <2>3 DEF Start
  <2>4. CASE MeetsRival(kind, d) /\ atrChosen = FALSE
    <3>1. atrChosen' = atrChosen
      BY <1>5, <2>4 DEF Start
    <3>2. op'[o].at = "checking" /\ \A q \in Ops \ {o} : op'[q] = op[q]
      BY <1>5, <2>1, <2>4 DEF Start
    <3>3. \A q \in Ops : ~Sending(q)'
      BY <1>1, <2>4, <3>2 DEF Sending
    <3> QED
      BY <2>1, <3>1, <3>3
  <2> QED
    BY <2>2, <2>3, <2>4 DEF TypeOK, OpTypes
<1>11. CASE RivalChecked(o)
  <2>1. CASE (Fail(o, Retry) \/ Fail(o, Plain)) /\ UNCHANGED atrChosen
    BY <1>2, <1>11, <2>1, OpErrors DEF RivalChecked
  <2>2. CASE atrChosen' = TRUE /\ (Fail(o, Expired) \/ MoveTo(o, SelectAtr))
    BY <1>11, <2>2, OpErrors DEF RivalChecked, Fail, MoveTo
  <2> QED
    BY <1>11, <2>1, <2>2 DEF RivalChecked, RivalErrors
<1>6. CASE AtrPending(o)
  <2>1. Sending(o) /\ UNCHANGED atrChosen
    BY <1>6 DEF AtrPending, Sending
  <2>2. state' = state \/ state' = "PENDING"
    BY <1>6 DEF AtrPending
  <2>3. errs' = errs \/ \E e \in NotPostCommit : errs' = Append(errs, e)
    BY <1>6, OpErrors DEF AtrPending, MoveTo, Fail
  <2>4. atrChosen' = TRUE
    BY <1>1, <2>1
  <2> QED
    BY <2>2, <2>3, <2>4
<1>7. CASE AtrPendingAgain(o)
  <2>1. Sending(o) /\ UNCHANGED <<state, atrChosen>>
    BY <1>7 DEF AtrPendingAgain, Sending
  <2>2. errs' = errs \/ \E e \in NotPostCommit : errs' = Append(errs, e)
    BY <1>7, OpErrors DEF AtrPendingAgain, MoveTo, Fail
  <2>3. atrChosen' = TRUE
    BY <1>1, <2>1
  <2> QED
    BY <2>1, <2>2, <2>3
<1>8. CASE StageReplace(o) \/ StageRemove(o)
  <2>1. Sending(o) /\ UNCHANGED <<state, atrChosen>>
    BY <1>8 DEF StageReplace, StageRemove, StageMutation, Staging, Sending
  <2>2. errs' = errs \/ \E e \in NotPostCommit : errs' = Append(errs, e)
    BY <1>8, OpErrors DEF StageReplace, StageRemove, StageMutation, MoveTo, Fail
  <2>3. atrChosen' = TRUE
    BY <1>1, <2>1
  <2> QED
    BY <2>1, <2>2, <2>3
<1>9. CASE StageInsertExpired(o) \/ StageInsert(o)
  <2>1. Sending(o) /\ UNCHANGED <<state, atrChosen>>
    BY <1>9 DEF StageInsertExpired, StageInsert, Staging, Sending
  <2>2. errs' = errs \/ \E e \in NotPostCommit : errs' = Append(errs, e)
    BY <1>9, OpErrors DEF StageInsertExpired, StageInsert, MoveTo, Fail
  <2>3. atrChosen' = TRUE
    BY <1>1, <2>1
  <2> QED
    BY <2>1, <2>2, <2>3
<1>10. CASE \/ InsertCollided(o) \/ InsertCollidedFault(o)
           \/ RemoveStagedInsertExpired(o) \/ RemoveStagedInsert(o)
  <2>1. Sending(o) /\ UNCHANGED <<state, atrChosen>>
    BY <1>10 DEF InsertCollided, RivalErrors, InsertCollidedFault, RemoveStagedInsertExpired, RemoveStagedInsert,
                 Staging, Sending
  <2>2. errs' = errs \/ \E e \in NotPostCommit : errs' = Append(errs, e)
    BY <1>10, OpErrors DEF InsertCollided, RivalErrors, InsertCollidedFault, RemoveStagedInsertExpired,
                           RemoveStagedInsert, MoveTo, Fail
  <2>3. atrChosen' = TRUE
    BY <1>1, <2>1
  <2> QED
    BY <2>1, <2>2, <2>3
<1> QED
  BY <1>3, <1>4, <1>5, <1>6, <1>7, <1>8, <1>9, <1>10, <1>11 DEF OpStep

LEMMA OpStepPInv == ASSUME IInv, PInv, NEW o \in Ops, OpStep(o) PROVE PInv'
<1>1. /\ TypeOK /\ Control /\ ~blocked /\ written = {}
      /\ UNCHANGED <<phase, mainVars, written>>
  BY OpStepControl DEF IInv, Control
<1>2. /\ state' = state \/ state' = "PENDING"
      /\ errs' = errs \/ \E e \in NotPostCommit : errs' = Append(errs, e)
      /\ atrChosen' = TRUE \/ (UNCHANGED staged /\ atrChosen' = atrChosen /\ \A q \in Ops : ~Sending(q)')
  BY <1>1, OpStepFacts DEF PInv
<1>3. Decision = "open" /\ Decision' = "open"
  BY <1>1, <1>2 DEF PInv, Decisions, Decision
<1>4. Decisions'
  BY <1>1, <1>3 DEF PInv, Decisions, Control, Undecided, Committed, Aborted, Waited, mainVars
<1>5. Reports'
  <2>1. errs \in Seq(Errors)
    BY <1>1 DEF TypeOK, OpTypes
  <2>2. \A i \in DOMAIN errs' : errs'[i].raise # "FAILED_POST_COMMIT"
    BY <1>2, <2>1 DEF PInv, Reports, NotPostCommit
  <2> QED
    BY <1>1, <1>3, <2>2 DEF PInv, Reports, PostCommit, mainVars
<1>6. Writes'
  BY <1>1, <1>2 DEF PInv, Writes, InQueue, Control, Waited
<1> QED
  BY <1>4, <1>5, <1>6 DEF PInv

\* Operations stage; they neither decide nor write.
LEMMA OpStepPromise ==
    ASSUME IInv, PInv, NEW o \in Ops, OpStep(o)
    PROVE  P!Stage
<1>1. ~blocked /\ ~blocked' /\ UNCHANGED <<outcome, written>>
  BY OpStepControl DEF IInv, mainVars
<1>2. Decision = "open" /\ Decision' = "open"
  BY <1>1, OpStepPInv DEF PInv, Decisions
<1>3. Verdict \in {"none", "not_committed"}
  BY <1>1, Mapping DEF PInv, Decisions
<1>4. Verdict' = Verdict
  BY <1>1 DEF Verdict
<1>5. InQueue' \in SUBSET Docs
  BY DEF InQueue
<1> QED
  BY <1>1, <1>2, <1>3, <1>4, <1>5 DEF P!Stage

-----------------------------------------------------------------------------
(* The thread of the attempt *)

\* Steps that decide, write and report nothing.
LEMMA Unpromised ==
    ASSUME UNCHANGED <<state, opVars, outcome, written>>
    PROVE  UNCHANGED <<Decision, InQueue, Verdict, P!promiseVars>>
BY DEF Decision, InQueue, Verdict, opVars, P!promiseVars

\* handle_error is called before anything is decided, with an error that is not one
\* of a failure past the commit point.
LEMMA HandledPInv ==
    ASSUME PInv, NEW e \in NotPostCommit, HandleError(e), phase \in Undecided,
           UNCHANGED <<state, opVars, outcome, written>>
    PROVE  PInv'
<1>1. thrown' = e /\ phase' \in {"rollback_wait", "report"} /\ e.raise # "FAILED_POST_COMMIT"
  BY DEF HandleError, NotPostCommit
<1>2. Decision = "open" /\ Decision' = "open" /\ outcome = "none" /\ InQueue' = InQueue
  BY Unpromised DEF PInv, Decisions, Undecided
<1>3. Decisions'
  BY <1>1, <1>2 DEF Decisions, Undecided, Committed, Aborted
<1>4. Reports'
  BY <1>1, <1>2 DEF PInv, Reports, PostCommit, opVars, Aborted
<1>5. Writes'
  BY <1>1, <1>2 DEF PInv, Writes, opVars, Sending
<1> QED
  BY <1>3, <1>4, <1>5 DEF PInv

\* The control moves on before anything is decided, or in a rollback.
LEMMA MovedPInv ==
    ASSUME PInv, UNCHANGED <<state, opVars, outcome, written, thrown>>,
           blocked' = blocked \/ blocked' = TRUE,
           \/ phase \in Undecided \ {"rollback_wait", "atr_abort"} /\ phase' \in Undecided \ {"rollback_wait", "atr_abort"}
           \/ phase \in {"rollback_wait", "atr_abort"} /\ phase' \in {"rollback_wait", "atr_abort", "report"}
           \/ phase \in Aborted /\ phase' \in Aborted \cup {"report"}
    PROVE  PInv'
<1>1. UNCHANGED <<Decision, InQueue>>
  BY Unpromised
<1>2. phase # "done" /\ phase \in Undecided \cup Aborted
  BY DEF Undecided, Aborted
<1>3. outcome' = "none" /\ Decision # "commit"
  BY <1>2 DEF PInv, Decisions
<1>4. Decisions'
  BY <1>1, <1>2, <1>3 DEF PInv, Decisions, Undecided, Committed, Aborted
<1>5. Reports'
  BY <1>1, <1>2, <1>3 DEF PInv, Reports, PostCommit, opVars, Undecided, Aborted
<1>6. Writes'
  BY <1>1, <1>2, <1>3 DEF PInv, Writes, opVars, Sending, Undecided, Aborted
<1> QED
  BY <1>4, <1>5, <1>6 DEF PInv

\* What Promise allows in one step, or none of its business.
Allowed == P!PromiseNext \/ UNCHANGED P!promiseVars

LEMMA LogicEndPromise ==
    ASSUME IInv, PInv, LogicThrows \/ Finalize
    PROVE  PInv' /\ Allowed
<1>1. phase = "logic" /\ UNCHANGED <<state, opVars, outcome, written, blocked>>
  BY DEF LogicThrows, Finalize, LogicRuns
<1>2. errs \in Seq(Errors) /\ TypeOK /\ Reports
  BY DEF IInv, PInv, TypeOK, OpTypes
<1>3. CASE LogicThrows
  <2>1. \E e \in NotPostCommit : HandleError(e)
    <3>1. CASE HandleError(Plain)
      BY <3>1, OpErrors
    <3>2. ASSUME NEW i \in DOMAIN errs, HandleError(errs[i])
          PROVE  \E e \in NotPostCommit : HandleError(e)
      <4>1. errs[i] \in NotPostCommit
        BY <1>2 DEF Reports, NotPostCommit
      <4> QED
        BY <3>2, <4>1
    <3> QED
      BY <1>3, <3>1, <3>2 DEF LogicThrows
  <2> QED
    BY <1>1, <2>1, HandledPInv, Unpromised DEF Undecided, Allowed
<1>4. CASE Finalize /\ ExistingError /\ HandleError(MergeErrors(errs))
  <2>1. MergeErrors(errs) \in NotPostCommit
    BY <1>2, <1>4, MergedError DEF ExistingError
  <2> QED
    BY <1>1, <1>4, <2>1, HandledPInv, Unpromised DEF Undecided, Allowed
<1>5. CASE phase' = "commit_wait" /\ UNCHANGED thrown
  BY <1>1, <1>5, MovedPInv, Unpromised DEF Undecided, Allowed
<1> QED
  BY <1>3, <1>4, <1>5 DEF Finalize

LEMMA CommitBeginPromise ==
    ASSUME IInv, PInv, CommitBegin
    PROVE  PInv' /\ Allowed
<1>1. phase = "commit_wait" /\ UNCHANGED <<state, opVars, written>> /\ blocked' = TRUE
  BY DEF CommitBegin
<1>2. TypeOK /\ Reports /\ Writes /\ Decision = "open" /\ outcome = "none"
  BY <1>1 DEF IInv, PInv, Decisions, Undecided
<1>3. CASE ExistingError /\ HandleError(MergeErrors(errs)) /\ UNCHANGED outcome
  <2>1. MergeErrors(errs) \in NotPostCommit
    BY <1>2, <1>3, MergedError DEF ExistingError
  <2> QED
    BY <1>1, <1>3, <2>1, HandledPInv, Unpromised DEF Undecided, Allowed
<1>4. CASE HandleError(Expired) /\ UNCHANGED outcome
  BY <1>1, <1>4, OpErrors, HandledPInv, Unpromised DEF Undecided, Allowed
<1>5. CASE phase' = "atr_commit" /\ UNCHANGED <<thrown, outcome>>
  BY <1>1, <1>5, MovedPInv, Unpromised DEF Undecided, Allowed
<1>6. CASE ~atrChosen /\ phase' = "done" /\ outcome' = "success" /\ UNCHANGED thrown
  <2>1. InQueue = {} /\ written = {} /\ Decision' = Decision /\ InQueue' = InQueue
    BY <1>1, <1>2, <1>6 DEF Writes, Decision, InQueue, opVars
  <2>2. Verdict = "none" /\ Verdict' = "committed"
    <3>1. Verdict = "none"
      BY <1>2, Mapping
    <3>2. Verdict' = "committed"
      BY <1>6 DEF Verdict
    <3> QED
      BY <3>1, <3>2
  <2>3. P!End
    BY <1>1, <2>1, <2>2 DEF P!End
  <2>4. PInv'
    BY <1>1, <1>2, <1>6, <2>1 DEF PInv, Decisions, Reports, PostCommit, Writes, opVars, Sending,
                                  Undecided, Committed, Aborted
  <2> QED
    BY <2>3, <2>4 DEF Allowed, P!PromiseNext
<1> QED
  BY <1>3, <1>4, <1>5, <1>6 DEF CommitBegin

\* The write of the commit: once it is answered the attempt has decided.
LEMMA AtrCommitPromise ==
    ASSUME IInv, PInv, AtrCommit \/ AtrCommitAnswer
    PROVE  PInv' /\ Allowed
<1>1. phase \in {"atr_commit", "atr_commit_sent"} /\ UNCHANGED <<opVars, outcome, written, blocked>>
  BY DEF AtrCommit, AtrCommitAnswer
<1>2. blocked /\ Decision = "open" /\ outcome = "none" /\ InQueue' = InQueue /\ written = {}
  BY <1>1 DEF IInv, Control, Waited, PInv, Decisions, Writes, Undecided, InQueue, opVars
<1>3. CASE (\E e \in NotPostCommit : HandleError(e)) /\ UNCHANGED state
  BY <1>1, <1>3, HandledPInv, Unpromised DEF Undecided, Allowed
<1>4. CASE phase' \in {"atr_commit", "atr_commit_sent"} /\ UNCHANGED <<state, thrown>>
  BY <1>1, <1>4, MovedPInv, Unpromised DEF Undecided, Allowed
<1>5. CASE state' = "COMMITTED" /\ phase' = "unstage" /\ todo' = InQueue /\ UNCHANGED thrown
  <2>1. Decision' = "commit"
    BY <1>5 DEF Decision
  <2>2. Verdict = "none" /\ Verdict' = Verdict
    <3>1. Verdict = "none"
      BY <1>2, Mapping
    <3> QED
      BY <1>1, <3>1 DEF Verdict
  <2>3. P!Decide
    BY <1>1, <1>2, <2>1, <2>2 DEF P!Decide
  <2>4. Decisions'
    BY <1>1, <1>2, <1>5, <2>1 DEF Decisions, Undecided, Committed, Aborted
  <2>5. Reports'
    BY <1>1, <1>5 DEF PInv, Reports, PostCommit, opVars, Aborted
  <2>6. Writes'
    BY <1>1, <1>2, <1>5, <2>1 DEF PInv, Writes, opVars, Sending
  <2> QED
    BY <2>3, <2>4, <2>5, <2>6 DEF PInv, Allowed, P!PromiseNext
<1>6. CASE AtrCommit
  BY <1>3, <1>4, <1>6, OpErrors DEF AtrCommit
<1>7. CASE AtrCommitAnswer
  BY <1>3, <1>4, <1>5, <1>7, OpErrors DEF AtrCommitAnswer
<1> QED
  BY <1>6, <1>7

LEMMA SuccessLands ==
    ASSUME NEW natural, NEW ans \in DocAnswers(natural)
    PROVE  ans.class = "OK" => ans.lands
BY AnswerType DEF DocAnswers

\* A document is written, or an answer says no more than that something failed.
LEMMA UnstagePromise ==
    ASSUME IInv, PInv, NEW d \in Docs, UnstageDoc(d) \/ UnstageRemove(d)
    PROVE  PInv' /\ Allowed
<1>1. /\ phase = "unstage" /\ d \in todo
      /\ UNCHANGED <<state, opVars, outcome, blocked>>
  BY DEF UnstageDoc, UnstageRemove, AtDocument
<1>2. /\ blocked /\ todo \subseteq InQueue /\ TypeOK
      /\ Decision = "commit" /\ Decision' = Decision /\ outcome = "none" /\ InQueue' = InQueue
  BY <1>1 DEF IInv, Control, Waited, PInv, Decisions, Committed, Decision, InQueue, opVars
<1>3. written' = written \/ written' = written \cup {d}
  BY DEF UnstageDoc, UnstageRemove
<1>4. \/ /\ todo' = todo \ {d} /\ written' = written \cup {d}
         /\ UNCHANGED <<phase, thrown>>
      \/ UNCHANGED <<phase, thrown, todo>>
      \/ HandleError(Fatal("FAILED_POST_COMMIT"))
  <2>1. CASE UnstageDoc(d)
    <3> DEFINE item    == staged[d]
               adds    == item.type = "insert" /\ ~cur.zero
               cas     == IF cur.zero THEN 0 ELSE item.cas
               natural == IF adds THEN AnswerToInsert(doc[d]) ELSE AnswerToUnstaging(doc[d], cas, FALSE)
    <3>1. PICK ans \in DocAnswers(natural) :
            /\ written' = IF ans.lands THEN written \cup {d} ELSE written
            /\ \/ ans.class = "OK" /\ NextDocument(d) /\ UNCHANGED <<phase, thrown>>
               \/ UNCHANGED <<phase, thrown, todo>>
               \/ PostCommitFailure
      BY <2>1 DEF UnstageDoc
    <3>2. ans.class = "OK" => ans.lands
      BY ONLY <3>1, SuccessLands
    <3> QED
      BY <3>1, <3>2 DEF NextDocument, PostCommitFailure
  <2>2. CASE UnstageRemove(d)
    <3>1. PICK ans \in DocAnswers(AnswerToRemove(doc[d])) :
            /\ written' = IF ans.lands THEN written \cup {d} ELSE written
            /\ \/ ans.class = "OK" /\ NextDocument(d) /\ UNCHANGED <<phase, thrown>>
               \/ UNCHANGED <<phase, thrown, todo>>
               \/ PostCommitFailure
      BY <2>2 DEF UnstageRemove
    <3>2. ans.class = "OK" => ans.lands
      BY ONLY <3>1, SuccessLands
    <3> QED
      BY <3>1, <3>2 DEF NextDocument, PostCommitFailure
  <2> QED
    BY <2>1, <2>2
<1>5. \/ phase' = "unstage" /\ thrown' = thrown
      \/ phase' = "report" /\ thrown' = Fatal("FAILED_POST_COMMIT")
  <2>1. ASSUME HandleError(Fatal("FAILED_POST_COMMIT"))
        PROVE  phase' = "report" /\ thrown' = Fatal("FAILED_POST_COMMIT")
    BY <2>1 DEF HandleError, Fatal
  <2> QED
    BY <1>1, <1>4, <2>1
<1>6. Decisions'
  BY <1>1, <1>2, <1>5 DEF Decisions, Undecided, Committed, Aborted
<1>7. Reports'
  BY <1>1, <1>2, <1>5, OpErrors DEF PInv, Reports, PostCommit, opVars, Aborted
<1>8. Writes'
  <2>1. phase' = "unstage" => InQueue \subseteq todo' \cup written'
    BY <1>1, <1>3, <1>4, <1>5 DEF PInv, Writes, HandleError, Fatal
  <2> QED
    BY <1>1, <1>2, <1>3, <1>5, <2>1 DEF PInv, Writes, opVars, Sending
<1>9. Allowed
  <2>1. Verdict = "none" /\ Verdict' = Verdict
    <3>1. Verdict = "none"
      BY <1>2, Mapping
    <3> QED
      BY <1>1, <3>1 DEF Verdict
  <2>2. CASE written' = written
    BY <1>1, <2>2, Unpromised DEF Allowed
  <2>3. CASE written' = written \cup {d}
    BY <1>1, <1>2, <2>1, <2>3 DEF Allowed, P!PromiseNext, P!Write
  <2> QED
    BY <1>3, <2>2, <2>3
<1> QED
  BY <1>6, <1>7, <1>8, <1>9 DEF PInv

\* The loop is through: everything is written, and success may be reported.
LEMMA CompletePromise ==
    ASSUME IInv, PInv, UnstageEnd \/ AtrComplete
    PROVE  PInv' /\ Allowed
<1>1. /\ phase \in Committed /\ blocked /\ Decision = "commit" /\ outcome = "none"
      /\ UNCHANGED <<opVars, written, thrown, blocked>> /\ InQueue' = InQueue
  BY DEF UnstageEnd, AtrComplete, mainVars, Committed, IInv, Control, Waited, PInv, Decisions, InQueue, opVars
<1>2. CASE UnstageEnd
  <2>1. phase = "unstage" /\ todo = {} /\ phase' = "atr_complete" /\ UNCHANGED <<state, outcome>>
    BY <1>2 DEF UnstageEnd, mainVars
  <2>2. Decision' = Decision
    BY <2>1 DEF Decision
  <2>3. PInv'
    BY <1>1, <2>1, <2>2 DEF PInv, Decisions, Reports, PostCommit, Writes, opVars, Sending,
                            Undecided, Committed, Aborted
  <2> QED
    BY <1>1, <2>1, <2>3, Unpromised DEF Allowed
<1>3. CASE AtrComplete
  <2>1. phase = "atr_complete" /\ phase' = "done" /\ outcome' = "success"
    BY <1>3 DEF AtrComplete
  <2>2. Decision' = "commit"
    <3>1. state' = state \/ state' = "COMPLETED"
      BY <1>3 DEF AtrComplete
    <3> QED
      BY <1>1, <3>1 DEF Decision
  <2>3. Verdict = "none" /\ Verdict' = "committed"
    <3>1. Verdict = "none"
      BY <1>1, Mapping
    <3>2. Verdict' = "committed"
      BY <2>1 DEF Verdict
    <3> QED
      BY <3>1, <3>2
  <2>4. InQueue = written
    BY <2>1 DEF PInv, Writes
  <2>5. P!End
    BY <1>1, <2>2, <2>3, <2>4 DEF P!End
  <2>6. PInv'
    BY <1>1, <2>1, <2>2 DEF PInv, Decisions, Reports, PostCommit, Writes, opVars, Sending,
                            Undecided, Committed, Aborted
  <2> QED
    BY <2>5, <2>6 DEF Allowed, P!PromiseNext
<1> QED
  BY <1>2, <1>3

LEMMA RollbackPromise ==
    ASSUME IInv, PInv,
           \/ RollbackBegin \/ ExpireInRollback \/ RollbackDocsEnd \/ AtrRollbackComplete
           \/ \E d \in Docs : RollbackDoc(d)
    PROVE  PInv' /\ Allowed
<1>1. /\ UNCHANGED <<opVars, outcome, written, thrown>>
      /\ blocked' = blocked \/ blocked' = TRUE
  BY DEF RollbackBegin, ExpireInRollback, RollbackDocsEnd, AtrRollbackComplete, RollbackDoc
<1>2. \/ phase \in {"rollback_wait", "atr_abort"} /\ phase' \in {"rollback_wait", "atr_abort", "report"}
      \/ phase \in Aborted /\ phase' \in Aborted \cup {"report"}
  <2>1. CASE RollbackBegin \/ ExpireInRollback \/ RollbackDocsEnd
    BY <2>1 DEF RollbackBegin, ExpireInRollback, RollbackDocsEnd, RollbackIs, Again, Aborted
  <2>2. CASE AtrRollbackComplete
    BY <2>2 DEF AtrRollbackComplete, RollbackIs, Again, Aborted
  <2>3. ASSUME NEW d \in Docs, RollbackDoc(d)
        PROVE  phase \in Aborted /\ phase' \in Aborted \cup {"report"}
    BY <2>3 DEF RollbackDoc, RollbackIs, Again, Aborted
  <2> QED
    BY <2>1, <2>2, <2>3
<1>3. CASE UNCHANGED state
  BY <1>1, <1>2, <1>3, MovedPInv, Unpromised DEF Allowed
<1>4. CASE AtrRollbackComplete /\ state' = "ROLLED_BACK"
  <2>1. phase \in Aborted /\ phase' \in Aborted \cup {"report"} /\ blocked /\ blocked' = blocked
    BY <1>2, <1>4 DEF AtrRollbackComplete, Aborted, IInv, Control, Waited
  <2>2. Decision = "abort" /\ outcome = "none" /\ written = {} /\ InQueue' = InQueue
    BY <1>1, <2>1 DEF PInv, Decisions, Writes, Aborted, InQueue, opVars
  <2>3. Decision' = "abort"
    BY <1>4 DEF Decision
  <2>4. Decisions'
    BY <1>1, <2>1, <2>2, <2>3 DEF Decisions, Undecided, Committed, Aborted
  <2>5. Reports'
    BY <1>1, <2>1, <2>2, <2>3 DEF PInv, Reports, PostCommit, opVars, Aborted
  <2>6. Writes'
    BY <1>1, <2>1, <2>2 DEF PInv, Writes, opVars, Sending, Aborted
  <2>7. Verdict' = Verdict
    BY <1>1 DEF Verdict
  <2> QED
    BY <1>1, <2>2, <2>3, <2>4, <2>5, <2>6, <2>7 DEF PInv, Allowed, P!promiseVars
<1> QED
  BY <1>3, <1>4 DEF RollbackBegin, ExpireInRollback, RollbackDocsEnd, AtrRollbackComplete, RollbackDoc

LEMMA AtrAbortPromise ==
    ASSUME IInv, PInv, AtrAbort
    PROVE  PInv' /\ Allowed
<1>1. /\ phase = "atr_abort" /\ blocked
      /\ UNCHANGED <<opVars, outcome, written, thrown, blocked>>
  BY DEF AtrAbort, IInv, Control, Waited
<1>2. Decision = "open" /\ outcome = "none" /\ InQueue' = InQueue /\ written = {}
  BY <1>1 DEF PInv, Decisions, Writes, Undecided, InQueue, opVars
<1>3. CASE phase' \in {"atr_abort", "report"} /\ UNCHANGED state
  BY <1>1, <1>3, MovedPInv, Unpromised DEF Allowed
<1>4. CASE state' = "ABORTED" /\ phase' = "rollback_docs"
  <2>1. Decision' = "abort"
    BY <1>4 DEF Decision
  <2>2. Verdict = "none"
    BY <1>2, Mapping
  <2>3. Verdict' = Verdict
    BY <1>1 DEF Verdict
  <2>4. P!Decide
    BY <1>1, <1>2, <2>1, <2>2, <2>3 DEF P!Decide
  <2>5. Decisions'
    BY <1>1, <1>2, <1>4, <2>1 DEF Decisions, Undecided, Committed, Aborted
  <2>6. Reports'
    BY <1>1, <1>4 DEF PInv, Reports, PostCommit, opVars, Aborted
  <2>7. Writes'
    BY <1>1, <1>2, <1>4 DEF PInv, Writes, opVars, Sending
  <2> QED
    BY <2>4, <2>5, <2>6, <2>7 DEF PInv, Allowed, P!PromiseNext
<1> QED
  BY <1>1, <1>3, <1>4 DEF AtrAbort, RollbackIs, Again

\* What run() reports agrees with what has been decided.
LEMMA ReportPromise ==
    ASSUME IInv, PInv, Report
    PROVE  PInv' /\ Allowed
<1>1. /\ phase = "report" /\ phase' = "done"
      /\ UNCHANGED <<state, opVars, written, thrown, blocked>>
  BY DEF Report
<1>2. \/ outcome' \in {"EXPIRED", "retry"} /\ ~PostCommit
      \/ outcome' = thrown.raise
  BY <1>1 DEF Report, PInv, Reports
<1>3. thrown.raise # "success"
  BY DEF IInv, TypeOK, MainTypes, Errors, Raises, NoError
<1>4. Decision' = Decision /\ InQueue' = InQueue /\ outcome = "none" /\ Verdict = "none"
  <2>1. outcome = "none"
    BY <1>1 DEF PInv, Decisions
  <2> QED
    BY <1>1, <2>1, Mapping DEF Decision, InQueue, opVars
<1>5. Decision = "commit" <=> PostCommit
  BY <1>1 DEF PInv, Reports
<1>6. PInv'
  <2>1. Decisions'
    BY <1>1, <1>2, <1>3, <1>4, <1>5 DEF PInv, Decisions, PostCommit, Undecided, Committed, Aborted
  <2>2. Reports' /\ Writes'
    BY <1>1, <1>4 DEF PInv, Reports, PostCommit, Writes, opVars, Sending, Aborted
  <2> QED
    BY <2>1, <2>2 DEF PInv
<1>7. Allowed
  <2>1. CASE outcome' = "none"
    BY <1>1, <1>4, <2>1, Unpromised DEF Allowed
  <2>2. CASE outcome' = "FAILED_POST_COMMIT"
    <3>1. Verdict' = "incomplete"
      BY <2>2 DEF Verdict
    <3>2. Decision = "commit"
      BY <1>2, <1>5, <2>2 DEF PostCommit
    <3>3. P!End
      BY <1>1, <1>4, <3>1, <3>2 DEF P!End
    <3> QED
      BY <3>3 DEF Allowed, P!PromiseNext
  <2>3. CASE outcome' \notin {"none", "FAILED_POST_COMMIT"}
    <3>1. outcome' \notin {"none", "success", "FAILED_POST_COMMIT"}
      BY <1>2, <1>3, <2>3
    <3>2. Verdict' = "not_committed"
      BY <3>1 DEF Verdict
    <3>3. Decision # "commit"
      BY <1>2, <1>5, <2>3 DEF PostCommit
    <3>4. P!End
      BY <1>1, <1>4, <3>2, <3>3 DEF P!End
    <3> QED
      BY <3>4 DEF Allowed, P!PromiseNext
  <2> QED
    BY <2>1, <2>2, <2>3
<1> QED
  BY <1>6, <1>7

LEMMA MainStepPromise == ASSUME IInv, PInv, MainStep PROVE PInv' /\ Allowed
BY LogicEndPromise, CommitBeginPromise, AtrCommitPromise, UnstagePromise, CompletePromise,
   RollbackPromise, AtrAbortPromise, ReportPromise DEF MainStep

-----------------------------------------------------------------------------
(* Surroundings, and the theorem *)

\* The clock, a crash, cleanup and other writers promise nothing.
LEMMA SurroundingsPromise == ASSUME IInv, PInv, Surroundings PROVE PInv' /\ UNCHANGED P!promiseVars
<1>1. /\ UNCHANGED <<state, opVars, mainVars, written>>
      /\ phase' = phase \/ (phase' = "crashed" /\ phase # "done")
  BY DEF Surroundings, Expire, Crash, CleanQueue, CleanLost, ForeignWrite, RivalStage, RivalEnd, Foreign
<1>2. UNCHANGED <<Decision, InQueue, P!promiseVars>>
  BY <1>1, Unpromised DEF mainVars
<1>3. Decisions'
  BY <1>1, <1>2 DEF PInv, Decisions, Undecided, Committed, Aborted, mainVars
<1>4. Reports'
  BY <1>1, <1>2 DEF PInv, Reports, PostCommit, Aborted, opVars, mainVars
<1>5. Writes'
  BY <1>1, <1>2 DEF PInv, Writes, Sending, opVars, mainVars
<1> QED
  BY <1>2, <1>3, <1>4, <1>5 DEF PInv

LEMMA PromiseBegins == Init => PInv /\ P!PromiseInit
<1> SUFFICES ASSUME Init PROVE PInv /\ P!PromiseInit
  OBVIOUS
<1>1. /\ InQueue = {} /\ written = {} /\ phase = "logic" /\ errs = <<>> /\ thrown = NoError
      /\ outcome = "none" /\ state = "NOT_STARTED"
      /\ \A o \in Ops : ~Sending(o)
  BY DEF Init, InQueue, NotStaged, Sending, IdleOp
<1>2. Decision = "open" /\ Verdict = "none"
  BY <1>1, Mapping
<1>3. P!PromiseInit
  BY <1>1, <1>2 DEF P!PromiseInit
<1>4. Decisions
  BY <1>1, <1>2 DEF Decisions, Committed, Aborted
<1>5. Reports
  BY <1>1 DEF Reports, PostCommit, NoError, Aborted
<1>6. Writes
  BY <1>1 DEF Writes
<1> QED
  BY <1>3, <1>4, <1>5, <1>6 DEF PInv

LEMMA PromiseStep ==
    ASSUME IInv, PInv, [Next]_vars
    PROVE  PInv' /\ [P!PromiseNext]_(P!promiseVars)
<1>1. CASE UNCHANGED vars
  <2>1. UNCHANGED <<state, opVars, outcome, written>>
    BY <1>1 DEF vars, opVars
  <2>2. UNCHANGED <<Decision, InQueue, P!promiseVars>>
    BY <2>1, Unpromised
  <2>3. PInv'
    BY <1>1, <2>2 DEF vars, PInv, Decisions, Reports, PostCommit, Writes, Sending
  <2> QED
    BY <2>2, <2>3
<1>2. CASE \E o \in Ops : OpStep(o)
  BY <1>2, OpStepPInv, OpStepPromise DEF P!PromiseNext
<1>3. CASE MainStep
  BY <1>3, MainStepPromise DEF Allowed
<1>4. CASE Surroundings
  BY <1>4, SurroundingsPromise
<1> QED
  BY <1>1, <1>2, <1>3, <1>4 DEF Next

\* The attempt implements Promise: it decides at most once; it writes only after
\* deciding to commit, and only what it staged; and it reports success only when
\* all of that is written, a failure past the commit point only after deciding to
\* commit, and any other error only if it has not.
THEOREM KeepsPromise == Spec => PromiseKept
<1>1. Init => PInv /\ P!PromiseInit
  BY PromiseBegins
<1>2. IInv /\ PInv /\ [Next]_vars => PInv' /\ [P!PromiseNext]_(P!promiseVars)
  BY PromiseStep
<1> QED
  BY <1>1, <1>2, Invariance, PTL DEF Spec, PromiseKept, P!PromiseSpec

-----------------------------------------------------------------------------
(* An attempt that nothing disturbs leaves nothing behind *)

\* Nothing has gone wrong, and nobody has interfered.
Calm == faults = 0 /\ foreign = 0 /\ ~expired /\ phase # "crashed"

Early   == {"logic", "commit_wait", "rollback_wait"}
Marking == {"atr_commit", "atr_commit_sent", "atr_abort"}
Looping == {"unstage", "rollback_docs"}
Late    == {"atr_complete", "rollback_complete"}
Over    == {"report", "done"}

\* The entry is being written for the first time.
Pending == \E o \in Ops : op[o].at = "atr"

\* A document holds what the queue says, at the CAS the queue says.
Holds(d) ==
    /\ doc[d].stg = staged[d].type
    /\ staged[d].type # "none" => staged[d].cas = doc[d].cas

CalmOps ==
    /\ \A o \in Ops : op[o].at \notin {"checking", "atr_again", "stuck"}
    /\ \A o, p \in Ops : op[o].at = "atr" /\ op[p].at = "atr" => o = p
    /\ \A i \in DOMAIN errs : errs[i].rollback
    /\ ~overtime /\ cur = NoCur
    /\ phase \notin Early => blocked

CalmEntry ==
    /\ phase \in Early /\ atrChosen /\ ~Pending => atr = "PENDING" /\ state = "PENDING"
    /\ phase \in Early /\ (~atrChosen \/ Pending) => atr = "absent" /\ state = "NOT_STARTED"
    /\ phase \in Marking \cup Looping \cup Late => atr = "PENDING"
    /\ phase \in Over => atr = "absent"

CalmDocs ==
    /\ phase \in Early \cup Marking => \A d \in Docs : Holds(d)
    /\ phase \in Looping => \A d \in Docs : IF d \in todo THEN Holds(d) ELSE doc[d].stg = "none"
    /\ phase \in Late \cup Over => \A d \in Docs : doc[d].stg = "none"

CInv == Calm => CalmOps /\ CalmEntry /\ CalmDocs

LEMMA CalmBefore == ASSUME TypeOK, Next, Calm' PROVE Calm
<1> USE DEF Calm, TypeOK, EnvTypes
<1>1. ASSUME NEW o \in Ops, OpStep(o) PROVE Calm
  <2>1. UNCHANGED <<foreign, expired, phase>>
    BY <1>1 DEF OpStep, StartAfterError, StartRuledOut, StartExpired, Start, RivalChecked, AtrPending,
                AtrPendingAgain, StageReplace, StageRemove, StageMutation, StageInsertExpired, StageInsert,
                InsertCollided, InsertCollidedFault, RemoveStagedInsertExpired, RemoveStagedInsert, envVars
  <2>2. faults' \in {faults, faults + 1}
    BY <1>1 DEF OpStep, StartAfterError, StartRuledOut, StartExpired, Start, RivalChecked, AtrPending,
                AtrPendingAgain, StageReplace, StageRemove, StageMutation, StageInsertExpired, StageInsert,
                InsertCollided, InsertCollidedFault, RemoveStagedInsertExpired, RemoveStagedInsert,
                DocRequest, AtrRequest
  <2> QED
    BY <2>1, <2>2
<1>2. CASE MainStep
  <2>1. UNCHANGED <<foreign, expired>> /\ phase # "crashed"
    BY <1>2 DEF MainStep, LogicThrows, Finalize, LogicRuns, Report, CommitBegin, AtrCommit, AtrCommitAnswer,
                UnstageEnd, AtrComplete, RollbackBegin, ExpireInRollback, AtrAbort, RollbackDocsEnd,
                AtrRollbackComplete, UnstageDoc, UnstageRemove, RollbackDoc, envVars
  <2>2. faults' \in {faults, faults + 1}
    BY <1>2 DEF MainStep, LogicThrows, Finalize, Report, CommitBegin, AtrCommit, AtrCommitAnswer,
                UnstageEnd, AtrComplete, RollbackBegin, ExpireInRollback, AtrAbort, RollbackDocsEnd,
                AtrRollbackComplete, UnstageDoc, UnstageRemove, RollbackDoc, DocRequest, AtrRequest
  <2> QED
    BY <2>1, <2>2
<1>3. CASE Surroundings
  <2>1. ASSUME NEW d \in Docs, ForeignWrite(d) \/ RivalStage(d) \/ RivalEnd(d) PROVE FALSE
    BY <2>1 DEF ForeignWrite, RivalStage, RivalEnd, Foreign
  <2> QED
    BY <1>3, <2>1 DEF Surroundings, Expire, Crash, CleanQueue, CleanLost, envVars
<1> QED
  BY <1>1, <1>2, <1>3 DEF Next

\* What the state of a document, or of the entry, calls for is what is answered.
LEMMA CalmAnswer ==
    ASSUME TypeOK, Calm', NEW d, NEW natural, NEW ans \in DocAnswers(natural), NEW next,
           DocRequest(d, ans, next)
    PROVE  /\ ans.class = natural
           /\ doc' = IF natural = "OK" THEN [doc EXCEPT ![d] = next] ELSE doc
<1>1. ans.class \in {natural} \cup DocFaults /\ (ans.lands => natural = "OK") /\ (ans.class = "OK" => ans.lands)
  BY AnswerType DEF DocAnswers
<1>2. ans.class \notin DocFaults
  BY DEF DocRequest, Calm, TypeOK
<1> QED
  BY <1>1, <1>2 DEF DocRequest

LEMMA CalmAtrAnswer ==
    ASSUME TypeOK, Calm', NEW natural, NEW ans \in AtrAnswers(natural), NEW next,
           AtrRequest(ans, next)
    PROVE  /\ ans.class = natural
           /\ natural = "OK" => atr' = next
<1>1. ans.class \in {natural} \cup AtrFaults /\ (ans.lands => natural = "OK") /\ (ans.class = "OK" => ans.lands)
  BY AnswerType DEF AtrAnswers
<1>2. ans.class \notin AtrFaults
  BY DEF AtrRequest, Calm, TypeOK
<1> QED
  BY <1>1, <1>2 DEF AtrRequest
CalmParts == CalmOps /\ CalmEntry /\ CalmDocs

\* An operation that is not at the entry moves, or ends with an error that allows a
\* rollback.
LEMMA CalmMove ==
    ASSUME IInv, CalmParts, NEW o \in Ops, op[o].at # "atr", phase \in Early,
           UNCHANGED <<phase, blocked, overtime, cur, atr, state, atrChosen>>,
           \A q \in Ops \ {o} : op'[q] = op[q],
           op'[o].at \in {"stage", "collided", "done"},
           errs' = errs \/ \E e \in Errors : e.rollback /\ errs' = Append(errs, e)
    PROVE  CalmOps' /\ CalmEntry'
<1>1. Pending' <=> Pending
  BY DEF Pending
<1>2. \A i \in DOMAIN errs' : errs'[i].rollback
  BY DEF IInv, TypeOK, OpTypes, CalmParts, CalmOps
<1>3. CalmOps'
  BY <1>2 DEF CalmParts, CalmOps
<1>4. CalmEntry'
  BY <1>1 DEF CalmParts, CalmEntry, Early, Marking, Looping, Late, Over
<1> QED
  BY <1>3, <1>4

LEMMA CalmFail ==
    ASSUME IInv, CalmParts, NEW o \in Ops, op[o].at # "atr", phase \in Early,
           UNCHANGED <<phase, blocked, overtime, cur, atr, state, atrChosen>>,
           \/ \E e \in Errors : e.rollback /\ Fail(o, e)
           \/ \E stage \in {"stage", "collided", "done"} : MoveTo(o, stage)
    PROVE  CalmOps' /\ CalmEntry'
<1>1. /\ \A q \in Ops \ {o} : op'[q] = op[q]
      /\ op'[o].at \in {"stage", "collided", "done"}
      /\ errs' = errs \/ \E e \in Errors : e.rollback /\ errs' = Append(errs, e)
  BY DEF Fail, MoveTo, IInv, TypeOK, OpTypes, Op
<1> QED
  BY <1>1, CalmMove

\* Before operations are blocked the queue says what is staged.
LEMMA CalmDocsEarly ==
    ASSUME phase \in Early, phase' = phase, \A d \in Docs : Holds(d)'
    PROVE  CalmDocs'
BY DEF CalmDocs, Early, Marking, Looping, Late, Over

LEMMA CalmErrors ==
    /\ Plain \in Errors /\ Plain.rollback
    /\ Retry \in Errors /\ Retry.rollback
BY ErrorTypes DEF Plain, Retry, Failed

LEMMA CalmStart ==
    ASSUME IInv, PInv, CalmParts, NEW o \in Ops, NEW kind \in Mutations, NEW d \in Docs,
           Start(o, kind, d), phase \in Early
    PROVE  CalmParts'
<1>1. UNCHANGED <<phase, blocked, overtime, cur, atr, state, doc, staged, errs>> /\ op[o].at = "idle"
  BY DEF Start, CanStart, serverVars, mainVars
<1>2. \A q \in Docs : Holds(q) /\ Holds(q)'
  BY <1>1 DEF CalmParts, CalmDocs, Holds
<1>3. doc[d].stg # "rival"
  BY <1>2 DEF Holds, IInv, TypeOK, OpTypes, Mutations
<1>4. /\ op'[o].at = SelectAtr /\ atrChosen' = TRUE
      /\ \A q \in Ops \ {o} : op'[q] = op[q]
  BY <1>3 DEF Start, MeetsRival, IInv, TypeOK, OpTypes
<1>5. CASE atrChosen
  <2>1. op'[o].at = "stage" /\ atrChosen' = atrChosen
    BY <1>4, <1>5 DEF SelectAtr, IInv, TypeOK, OpTypes
  <2> QED
    BY <1>1, <1>2, <1>4, <2>1, CalmMove, CalmDocsEarly DEF CalmParts
<1>6. CASE ~atrChosen
  <2>1. op'[o].at = "atr" /\ \A q \in Ops : op[q].at # "atr"
    BY <1>4, <1>6 DEF SelectAtr, PInv, Writes, Sending
  <2>2. CalmOps'
    BY <1>1, <1>4, <2>1 DEF CalmParts, CalmOps
  <2>3. CalmEntry'
    BY <1>1, <1>4, <1>6, <2>1 DEF CalmParts, CalmEntry, Pending, Early, Marking, Looping, Late, Over
  <2> QED
    BY <1>1, <1>2, <2>2, <2>3, CalmDocsEarly DEF CalmParts
<1> QED
  BY <1>5, <1>6

LEMMA CalmAtrPending ==
    ASSUME IInv, PInv, CalmParts, Calm', NEW o \in Ops, AtrPending(o), phase \in Early
    PROVE  CalmParts'
<1>1. UNCHANGED <<phase, blocked, overtime, cur, doc, staged, atrChosen>> /\ op[o].at = "atr" /\ ~overtime
  BY DEF AtrPending, mainVars, CalmParts, CalmOps
<1>2. atr = "absent" /\ Pending /\ atrChosen
  BY <1>1 DEF CalmParts, CalmEntry, Pending, PInv, Writes, Sending
<1>3. PICK ans \in AtrAnswers("OK") :
        /\ AtrRequest(ans, "PENDING")
        /\ state' = IF ans.class = "OK" THEN "PENDING" ELSE state
        /\ ans.class = "OK" => MoveTo(o, "stage")
  BY <1>2 DEF AtrPending, AtrFaults, DocFaults
<1>4. atr' = "PENDING" /\ state' = "PENDING" /\ MoveTo(o, "stage")
  BY <1>3, CalmAtrAnswer DEF IInv
<1>5. /\ op'[o].at = "stage" /\ \A q \in Ops \ {o} : op'[q] = op[q]
      /\ errs' = errs
  BY <1>4 DEF MoveTo, IInv, TypeOK, OpTypes, Op
<1>6. \A q \in Ops : op'[q].at # "atr"
  BY <1>1, <1>5 DEF CalmParts, CalmOps
<1>7. CalmOps'
  BY <1>1, <1>5, <1>6 DEF CalmParts, CalmOps
<1>8. CalmEntry'
  BY <1>1, <1>2, <1>4, <1>6 DEF CalmEntry, Pending, Early, Marking, Looping, Late, Over
<1>9. \A q \in Docs : Holds(q)'
  BY <1>1 DEF CalmParts, CalmDocs, Holds
<1> QED
  BY <1>1, <1>7, <1>8, <1>9, CalmDocsEarly DEF CalmParts

\* A request that stages, or removes what was staged, and what the queue makes of it.
LEMMA CalmStaged ==
    ASSUME IInv, CalmParts, NEW d \in Docs, phase \in Early,
           \/ UNCHANGED <<doc, staged>>
           \/ \E verb \in Mutations : doc' = [doc EXCEPT ![d] = Staged(doc[d], verb)] /\ AddStaged(d, verb)
           \/ doc' = [doc EXCEPT ![d] = Staged(doc[d], "none")] /\ staged' = [staged EXCEPT ![d] = NotStaged]
    PROVE  \A q \in Docs : Holds(q)'
<1> USE DEF IInv, TypeOK, ServerTypes, OpTypes
<1>1. \A q \in Docs : Holds(q)
  BY DEF CalmParts, CalmDocs
<1>2. ASSUME UNCHANGED <<doc, staged>> PROVE \A q \in Docs : Holds(q)'
  BY <1>1, <1>2 DEF Holds
<1>3. ASSUME NEW verb \in Mutations, doc' = [doc EXCEPT ![d] = Staged(doc[d], verb)], AddStaged(d, verb)
      PROVE  \A q \in Docs : Holds(q)'
  <2>1. doc'[d].stg = verb /\ doc'[d].cas = doc[d].cas + 1 /\ \A q \in Docs \ {d} : doc'[q] = doc[q]
    BY <1>3 DEF Staged, Mutated
  <2>2. /\ staged'[d].type = verb /\ staged'[d].cas = doc[d].cas + 1
        /\ \A q \in Docs \ {d} : staged'[q] = staged[q]
    BY <1>3 DEF AddStaged
  <2> QED
    BY <1>1, <2>1, <2>2 DEF Holds
<1>4. ASSUME doc' = [doc EXCEPT ![d] = Staged(doc[d], "none")], staged' = [staged EXCEPT ![d] = NotStaged]
      PROVE  \A q \in Docs : Holds(q)'
  <2>1. doc'[d].stg = "none" /\ \A q \in Docs \ {d} : doc'[q] = doc[q]
    BY <1>4 DEF Staged, Mutated
  <2> QED
    BY <1>1, <1>4, <2>1 DEF Holds, NotStaged
<1> QED
  BY <1>2, <1>3, <1>4

LEMMA CalmStaging ==
    ASSUME IInv, CalmParts, Calm', phase \in Early, NEW o \in Ops,
           StageReplace(o) \/ StageRemove(o) \/ StageInsert(o) \/ RemoveStagedInsert(o)
    PROVE  CalmParts'
<1> DEFINE d == op[o].doc
<1>1. /\ d \in Docs /\ op[o].at = "stage" /\ ~overtime
      /\ UNCHANGED <<phase, blocked, overtime, cur, atr, state, atrChosen>>
  BY DEF StageReplace, StageRemove, StageMutation, StageInsert, RemoveStagedInsert, Staging, mainVars,
         IInv, TypeOK, OpTypes, CalmParts, CalmOps
<1>2. CASE StageReplace(o) \/ StageRemove(o)
  <2>1. PICK verb \in {"replace", "remove"} : StageMutation(o, verb)
    BY <1>2 DEF StageReplace, StageRemove
  <2> DEFINE natural == AnswerToStaging(doc[d], op[o].cas, verb = "replace")
  <2>2. PICK ans \in DocAnswers(natural) :
          /\ DocRequest(d, ans, Staged(doc[d], verb))
          /\ \/ ans.class = "OK" /\ MoveTo(o, "done") /\ AddStaged(d, verb)
             \/ ans.class # "OK" /\ Fail(o, Retry) /\ UNCHANGED staged
             \/ ans.class # "OK" /\ Fail(o, Plain) /\ UNCHANGED staged
    BY <2>1 DEF StageMutation, Refusals
  <2>3. ans.class = natural /\ doc' = IF natural = "OK" THEN [doc EXCEPT ![d] = Staged(doc[d], verb)] ELSE doc
    <3>1. \A q, n, next : ans \in DocAnswers(n) /\ DocRequest(q, ans, next)
            => ans.class = n /\ doc' = IF n = "OK" THEN [doc EXCEPT ![q] = next] ELSE doc
      BY CalmAnswer DEF IInv
    <3> HIDE DEF natural, d
    <3> QED
      BY <2>2, <3>1
  <2>4. \A q \in Docs : Holds(q)'
    BY <1>1, <2>2, <2>3, CalmStaged DEF Mutations
  <2> QED
    BY <1>1, <2>2, <2>4, CalmFail, CalmErrors, CalmDocsEarly DEF CalmParts
<1>3. CASE StageInsert(o)
  <2> DEFINE natural == AnswerToStagedInsert(doc[d], op[o].cas)
  <2>1. PICK ans \in DocAnswers(natural) :
          /\ DocRequest(d, ans, Staged(doc[d], "insert"))
          /\ \/ MoveTo(o, "done") \/ MoveTo(o, "stage") \/ MoveTo(o, "collided")
             \/ Fail(o, Retry) \/ Fail(o, Plain)
          /\ IF ans.class = "OK" THEN AddStaged(d, "insert") ELSE UNCHANGED staged
    BY <1>1, <1>3 DEF StageInsert
  <2>2. ans.class = natural /\ doc' = IF natural = "OK" THEN [doc EXCEPT ![d] = Staged(doc[d], "insert")] ELSE doc
    BY <2>1, CalmAnswer DEF IInv
  <2>3. \A q \in Docs : Holds(q)'
    BY <1>1, <2>1, <2>2, CalmStaged DEF Mutations
  <2> QED
    BY <1>1, <2>1, <2>3, CalmFail, CalmErrors, CalmDocsEarly DEF CalmParts
<1>4. CASE RemoveStagedInsert(o)
  <2> DEFINE natural == AnswerToUnstaging(doc[d], 0, TRUE)
  <2>1. PICK ans \in DocAnswers(natural) :
          /\ DocRequest(d, ans, Staged(doc[d], "none"))
          /\ IF ans.class = "OK"
               THEN MoveTo(o, "done") /\ staged' = [staged EXCEPT ![d] = NotStaged]
               ELSE Fail(o, Retry) /\ UNCHANGED staged
    BY <1>4 DEF RemoveStagedInsert
  <2>2. ans.class = natural /\ doc' = IF natural = "OK" THEN [doc EXCEPT ![d] = Staged(doc[d], "none")] ELSE doc
    <3> DEFINE next == Staged(doc[d], "none")
    <3>1. ans \in DocAnswers(natural) /\ DocRequest(d, ans, next) /\ TypeOK
      BY <2>1 DEF IInv
    <3> HIDE DEF natural, next, d
    <3>2. ans.class = natural /\ doc' = IF natural = "OK" THEN [doc EXCEPT ![d] = next] ELSE doc
      BY <3>1, CalmAnswer
    <3> QED
      BY <3>2 DEF next
  <2>3. \A q \in Docs : Holds(q)'
    BY <1>1, <2>1, <2>2, CalmStaged
  <2> QED
    BY <1>1, <2>1, <2>3, CalmFail, CalmErrors, CalmDocsEarly DEF CalmParts
<1> QED
  BY <1>2, <1>3, <1>4
LEMMA CalmCollided ==
    ASSUME IInv, CalmParts, phase \in Early, NEW o \in Ops, InsertCollided(o)
    PROVE  CalmParts'
<1>1. /\ UNCHANGED <<phase, blocked, overtime, cur, atr, state, atrChosen, doc, staged>>
      /\ op[o].at = "collided"
  BY DEF InsertCollided, serverVars, mainVars
<1>2. CASE op' = [op EXCEPT ![o] = [@ EXCEPT !.at = "stage", !.cas = doc[op[o].doc].cas]] /\ UNCHANGED errs
  <2>1. op'[o].at = "stage" /\ \A q \in Ops \ {o} : op'[q] = op[q]
    BY <1>2 DEF IInv, TypeOK, OpTypes, Op
  <2> QED
    BY <1>1, <1>2, <2>1, CalmMove, CalmDocsEarly DEF CalmParts, CalmDocs, Holds
<1>3. CASE Fail(o, Plain) \/ Fail(o, Retry)
  BY <1>1, <1>3, CalmFail, CalmErrors, CalmDocsEarly DEF CalmParts, CalmDocs, Holds
<1> QED
  BY <1>2, <1>3 DEF InsertCollided, RivalErrors

LEMMA CalmMerged == ASSUME TypeOK, CalmOps, errs # <<>> PROVE MergeErrors(errs) \in Errors /\ MergeErrors(errs).rollback
BY MergedIsOne DEF TypeOK, OpTypes, CalmOps

LEMMA CalmOpStep ==
    ASSUME IInv, PInv, CalmParts, Calm, Calm', NEW o \in Ops, OpStep(o)
    PROVE  CalmParts'
<1>1. phase \in Early /\ TypeOK /\ CalmOps /\ ~overtime /\ ~expired
  BY OpStepControl DEF IInv, CalmParts, CalmOps, Calm
<1>2. CASE StartAfterError(o) \/ \E kind \in Mutations, d \in Docs : StartRuledOut(o, kind, d)
  <2>1. /\ UNCHANGED <<phase, blocked, overtime, cur, atr, state, atrChosen, doc, staged>>
        /\ op[o].at = "idle"
    BY <1>2 DEF StartAfterError, StartRuledOut, CanStart, serverVars, mainVars
  <2>2. \E e \in Errors : e.rollback /\ Fail(o, e)
    BY <1>1, <1>2, CalmErrors, CalmMerged DEF StartAfterError, StartRuledOut, ExistingError
  <2> QED
    BY <1>1, <2>1, <2>2, CalmFail, CalmDocsEarly DEF CalmParts, CalmDocs, Holds
<1>3. CASE \E kind \in Mutations, d \in Docs : StartExpired(o, kind, d) \/ Start(o, kind, d)
  BY <1>1, <1>3, CalmStart DEF StartExpired
<1>4. CASE RivalChecked(o) \/ AtrPendingAgain(o)
  BY <1>1, <1>4 DEF RivalChecked, AtrPendingAgain, CalmOps
<1>5. CASE AtrPending(o)
  BY <1>1, <1>5, CalmAtrPending
<1>6. CASE StageInsertExpired(o) \/ RemoveStagedInsertExpired(o)
  BY <1>1, <1>6 DEF StageInsertExpired, RemoveStagedInsertExpired, ExpiredNotInOvertime
<1>7. CASE StageReplace(o) \/ StageRemove(o) \/ StageInsert(o) \/ RemoveStagedInsert(o)
  BY <1>1, <1>7, CalmStaging
<1>8. CASE InsertCollided(o)
  BY <1>1, <1>8, CalmCollided
<1>9. CASE InsertCollidedFault(o)
  BY <1>1, <1>9 DEF InsertCollidedFault, Calm, TypeOK
<1> QED
  BY <1>2, <1>3, <1>4, <1>5, <1>6, <1>7, <1>8, <1>9 DEF OpStep

\* The thread of the attempt: up to the moment the entry is marked.
LEMMA CalmLogicEnd ==
    ASSUME IInv, PInv, CalmParts, Calm, LogicThrows \/ Finalize \/ CommitBegin \/ RollbackBegin
    PROVE  CalmParts'
<1>1. /\ TypeOK /\ CalmOps /\ ~expired /\ ~overtime /\ phase \in Early
      /\ UNCHANGED <<doc, atr, state, opVars, cur, todo>>
  BY DEF LogicThrows, Finalize, LogicRuns, CommitBegin, RollbackBegin, serverVars, IInv, CalmParts,
         CalmOps, Calm, Early
<1>2. InQueue = {} \/ atrChosen
  BY DEF PInv, Writes
<1>3. UNCHANGED <<Pending, InQueue>> /\ \A d \in Docs : Holds(d) /\ Holds(d)'
  BY <1>1 DEF Pending, InQueue, CalmParts, CalmDocs, Holds, opVars
<1>4. CASE UNCHANGED <<overtime, blocked>> /\ phase' \in Early
  <2>1. CalmOps'
    BY <1>1, <1>4 DEF CalmOps, opVars
  <2>2. CalmEntry'
    BY <1>1, <1>3, <1>4 DEF CalmParts, CalmEntry, Early, Marking, Looping, Late, Over, opVars
  <2>3. CalmDocs'
    BY <1>3, <1>4 DEF CalmDocs, Early, Marking, Looping, Late, Over
  <2> QED
    BY <2>1, <2>2, <2>3 DEF CalmParts
<1>5. CASE LogicThrows \/ Finalize
  <2>1. \A e : e.rollback /\ HandleError(e) => phase' = "rollback_wait"
    BY DEF HandleError
  <2>2. \A i \in DOMAIN errs : errs[i].rollback
    BY <1>1 DEF CalmOps
  <2>3. phase' \in {"rollback_wait", "commit_wait"}
    BY <1>1, <1>5, <2>1, <2>2, CalmErrors, CalmMerged DEF LogicThrows, Finalize, ExistingError
  <2> QED
    BY <1>4, <1>5, <2>3 DEF LogicThrows, Finalize, Early
<1>6. CASE CommitBegin \/ RollbackBegin
  <2>1. Active = {} /\ blocked' = TRUE /\ ~Pending
    BY <1>6 DEF CommitBegin, RollbackBegin, Active, Pending
  <2>2. overtime' = FALSE
    BY <1>1, <1>6 DEF CommitBegin, RollbackBegin, EnterOvertime, TypeOK
  <2>3. CalmOps'
    BY <1>1, <2>1, <2>2 DEF CalmOps, opVars
  <2>4. \/ ExistingError /\ phase' = "rollback_wait"
        \/ atrChosen /\ phase' \in {"atr_commit", "atr_abort"}
        \/ (~atrChosen \/ state = "NOT_STARTED") /\ phase' \in {"done", "report"}
    <3>1. CASE CommitBegin
      BY <1>1, <3>1, CalmMerged DEF CommitBegin, HandleError, ExistingError
    <3>2. CASE RollbackBegin
      BY <3>2 DEF RollbackBegin, RollbackIs
    <3> QED
      BY <1>6, <3>1, <3>2
  <2>5. CASE phase' = "rollback_wait"
    <3>1. CalmEntry'
      BY <1>1, <1>3, <2>5 DEF CalmParts, CalmEntry, Early, Marking, Looping, Late, Over, opVars
    <3>2. CalmDocs'
      BY <1>3, <2>5 DEF CalmDocs, Early, Marking, Looping, Late, Over
    <3> QED
      BY <2>3, <3>1, <3>2 DEF CalmParts
  <2>6. CASE atrChosen /\ phase' \in {"atr_commit", "atr_abort"}
    <3>1. atr' = "PENDING"
      BY <1>1, <2>1, <2>6 DEF CalmParts, CalmEntry
    <3>2. CalmEntry'
      BY <2>6, <3>1 DEF CalmEntry, Early, Over
    <3>3. CalmDocs'
      BY <1>3, <2>6 DEF CalmDocs, Early, Marking, Looping, Late, Over
    <3> QED
      BY <2>3, <3>2, <3>3 DEF CalmParts
  <2>7. CASE (~atrChosen \/ state = "NOT_STARTED") /\ phase' \in {"done", "report"}
    <3>1. ~atrChosen /\ atr' = "absent"
      BY <1>1, <2>1, <2>7 DEF CalmParts, CalmEntry
    <3>2. \A d \in Docs : doc'[d].stg = "none"
      BY <1>1, <1>2, <1>3, <3>1 DEF InQueue, Holds
    <3>3. CalmEntry'
      BY <2>7, <3>1 DEF CalmEntry, Early, Marking, Looping, Late
    <3>4. CalmDocs'
      BY <2>7, <3>2 DEF CalmDocs, Early, Marking, Looping, Late
    <3> QED
      BY <2>3, <3>3, <3>4 DEF CalmParts
  <2> QED
    BY <2>4, <2>5, <2>6, <2>7
<1> QED
  BY <1>5, <1>6
\* What the thread does once operations are blocked leaves them alone.
LEMMA CalmLater ==
    ASSUME IInv, CalmParts, UNCHANGED <<overtime, blocked, cur>>, phase \notin Early, phase' \notin Early, MainStep
    PROVE  CalmOps' /\ UNCHANGED <<staged, InQueue>>
<1>1. UNCHANGED opVars
  BY MainStepControl DEF IInv
<1> QED
  BY <1>1 DEF CalmParts, CalmOps, opVars, InQueue

LEMMA CalmMarking ==
    ASSUME IInv, PInv, CalmParts, Calm, Calm', AtrCommit \/ AtrCommitAnswer \/ AtrAbort
    PROVE  CalmParts'
<1>1. /\ TypeOK /\ CalmOps /\ ~expired /\ ~overtime /\ phase \in Marking /\ atr = "PENDING"
      /\ UNCHANGED <<doc, overtime, blocked, cur, staged>>
  BY DEF AtrCommit, AtrCommitAnswer, AtrAbort, HandleError, serverVars, opVars, IInv, CalmParts, CalmOps,
         CalmEntry, Calm, Marking, ExpiredNotInOvertime
<1>2. phase \notin Early /\ \A d \in Docs : Holds(d) /\ Holds(d)'
  BY <1>1 DEF Early, Marking, CalmParts, CalmDocs, Holds
<1>3. atr' = "PENDING" /\ (phase' = "atr_commit_sent" \/ (phase' \in Looping /\ todo' = InQueue))
  <2>1. CASE AtrCommit
    BY <1>1, <2>1 DEF AtrCommit, ExpiredNotInOvertime, serverVars
  <2>2. CASE AtrCommitAnswer
    <3>1. PICK ans \in AtrAnswers("OK") :
            /\ AtrRequest(ans, AtrListsWritten(atr))
            /\ ans.class = "OK" => phase' = "unstage" /\ todo' = InQueue
      BY <2>2 DEF AtrCommitAnswer
    <3> QED
      BY <1>1, <3>1, CalmAtrAnswer DEF AtrListsWritten, Looping
  <2>3. CASE AtrAbort
    <3>1. PICK ans \in AtrAnswers("OK") :
            /\ AtrRequest(ans, AtrListsWritten(atr))
            /\ ans.class = "OK" => phase' = "rollback_docs" /\ todo' = InQueue
      BY <2>3 DEF AtrAbort, GivesUp, AtrFaults, DocFaults
    <3> QED
      BY <1>1, <3>1, CalmAtrAnswer DEF AtrListsWritten, Looping
  <2> QED
    BY <2>1, <2>2, <2>3
<1>4. CalmOps'
  BY <1>1, <1>2, <1>3, CalmLater DEF MainStep, Early, Looping
<1>5. CalmEntry'
  BY <1>3 DEF CalmEntry, Early, Looping, Over
<1>6. CalmDocs'
  BY <1>1, <1>2, <1>3 DEF CalmDocs, Early, Marking, Looping, Late, Over, InQueue, Holds
<1> QED
  BY <1>4, <1>5, <1>6 DEF CalmParts

\* Each document the loop over the queue comes to is as it was staged, and so it is
\* written or rolled back at the first attempt.
LEMMA CalmLoop ==
    ASSUME IInv, PInv, CalmParts, Calm, Calm', NEW d \in Docs,
           UnstageDoc(d) \/ UnstageRemove(d) \/ RollbackDoc(d)
    PROVE  CalmParts'
<1>1. /\ TypeOK /\ CalmOps /\ ~expired /\ ~overtime /\ phase \in Looping /\ d \in todo /\ ~cur.zero /\ ~cur.ambig
      /\ UNCHANGED <<atr, overtime, blocked, staged>>
  BY DEF UnstageDoc, UnstageRemove, RollbackDoc, AtDocument, EnterOvertime, opVars, IInv, TypeOK, CalmParts,
         CalmOps, Calm, Looping, NoCur
<1>2. Holds(d) /\ QueueFits(d) /\ staged[d].type # "none"
  BY <1>1 DEF CalmParts, CalmDocs, IInv, Control, Looping, InQueue, Data
<1>3. /\ doc[d].cas = staged[d].cas /\ 0 < doc[d].cas /\ doc[d].stg = staged[d].type
      /\ staged[d].type = "insert" <=> doc[d].body = "none"
  BY <1>2 DEF Holds, QueueFits
<1>4. /\ \E body : doc' = [doc EXCEPT ![d] = Mutated(doc[d], body, "none")]
      /\ phase' = phase /\ NextDocument(d)
  <2>1. CASE UnstageDoc(d)
    <3> DEFINE natural == IF staged[d].type = "insert" THEN AnswerToInsert(doc[d])
                                                        ELSE AnswerToUnstaging(doc[d], staged[d].cas, FALSE)
    <3>1. natural = "OK"
      BY <1>1, <1>2, <1>3 DEF AnswerToInsert, AnswerToUnstaging, TypeOK, ServerTypes, OpTypes, Document
    <3>2. PICK ans \in DocAnswers("OK") :
            /\ DocRequest(d, ans, Mutated(doc[d], "new", "none"))
            /\ ans.class = "OK" => phase' = phase /\ NextDocument(d)
      BY <1>1, <2>1, <3>1 DEF UnstageDoc, GivesUp
    <3> QED
      BY <1>1, <3>2, CalmAnswer
  <2>2. CASE UnstageRemove(d)
    <3>1. AnswerToRemove(doc[d]) = "OK"
      BY <1>3, <2>2 DEF UnstageRemove, AnswerToRemove
    <3>2. PICK ans \in DocAnswers("OK") :
            /\ DocRequest(d, ans, Mutated(doc[d], "none", "none"))
            /\ ans.class = "OK" => phase' = phase /\ NextDocument(d)
      BY <2>2, <3>1 DEF UnstageRemove, GivesUp
    <3> QED
      BY <1>1, <3>2, CalmAnswer
  <2>3. CASE RollbackDoc(d)
    <3>1. AnswerToUnstaging(doc[d], RollbackCas(staged[d]), staged[d].type = "insert") = "OK"
      BY <1>1, <1>2, <1>3 DEF AnswerToUnstaging, RollbackCas, TypeOK, ServerTypes, OpTypes, Document
    <3>2. PICK ans \in DocAnswers("OK") :
            /\ DocRequest(d, ans, Mutated(doc[d], doc[d].body, "none"))
            /\ ans.class = "OK" => phase' = phase /\ NextDocument(d)
      BY <2>3, <3>1 DEF RollbackDoc, GivesUp, Refusals, DocFaults, Staged
    <3> QED
      BY <1>1, <3>2, CalmAnswer
  <2> QED
    BY <2>1, <2>2, <2>3
<1>5. doc'[d].stg = "none" /\ \A q \in Docs \ {d} : doc'[q] = doc[q]
  BY <1>1, <1>4 DEF Mutated, TypeOK, ServerTypes
<1>6. cur = NoCur /\ cur' = NoCur /\ todo' = todo \ {d}
  BY <1>1, <1>4 DEF NextDocument, CalmOps
<1>7. CalmOps'
  BY <1>1, <1>4, <1>6, CalmLater DEF MainStep, Early, Looping
<1>8. CalmEntry'
  BY <1>1, <1>4 DEF CalmParts, CalmEntry, Early, Looping, Over
<1>9. CalmDocs'
  BY <1>1, <1>4, <1>5, <1>6 DEF CalmParts, CalmDocs, Early, Marking, Looping, Late, Over, Holds
<1> QED
  BY <1>7, <1>8, <1>9 DEF CalmParts

LEMMA CalmEnd ==
    ASSUME IInv, PInv, CalmParts, Calm, Calm',
           UnstageEnd \/ RollbackDocsEnd \/ AtrComplete \/ AtrRollbackComplete \/ Report
    PROVE  CalmParts'
<1>1. /\ TypeOK /\ CalmOps /\ ~expired /\ ~overtime /\ phase \in Looping \cup Late \cup Over
      /\ UNCHANGED <<doc, overtime, blocked, staged, cur>>
  BY DEF UnstageEnd, RollbackDocsEnd, AtrComplete, AtrRollbackComplete, Report, serverVars, mainVars, opVars,
         IInv, CalmParts, CalmOps, Calm, Looping, Late, Over
<1>2. \A d \in Docs : doc'[d].stg = "none"
  <2>1. phase \in Looping => todo = {}
    BY DEF UnstageEnd, RollbackDocsEnd, AtrComplete, AtrRollbackComplete, Report, Looping
  <2> QED
    BY <1>1, <2>1 DEF CalmParts, CalmDocs
<1>3. \/ phase' \in Late /\ atr' = "PENDING"
      \/ phase' \in Over /\ atr' = "absent"
  <2>1. CASE UnstageEnd \/ RollbackDocsEnd
    BY <2>1 DEF UnstageEnd, RollbackDocsEnd, serverVars, CalmParts, CalmEntry, Looping, Late
  <2>2. CASE AtrComplete
    <3>1. atr = "PENDING"
      BY <2>2 DEF AtrComplete, CalmParts, CalmEntry, Late
    <3>2. PICK ans \in AtrAnswers("OK") : AtrRequest(ans, "absent")
      BY <1>1, <2>2, <3>1 DEF AtrComplete, ExpiredNotInOvertime
    <3> QED
      BY <1>1, <2>2, <3>2, CalmAtrAnswer DEF AtrComplete, Over
  <2>3. CASE AtrRollbackComplete
    <3>1. atr = "PENDING"
      BY <2>3 DEF AtrRollbackComplete, CalmParts, CalmEntry, Late
    <3>2. PICK ans \in AtrAnswers("OK") : AtrRequest(ans, "absent") /\ (ans.class = "OK" => phase' = "report")
      BY <1>1, <2>3, <3>1 DEF AtrRollbackComplete, ExpiredNotInOvertime, RollbackIs, GivesUp, AtrFaults, DocFaults
    <3> QED
      BY <1>1, <3>2, CalmAtrAnswer DEF Over
  <2>4. CASE Report
    BY <2>4 DEF Report, serverVars, CalmParts, CalmEntry, Over
  <2> QED
    BY <2>1, <2>2, <2>3, <2>4
<1>4. CalmOps'
  <2>1. MainStep /\ phase \notin Early /\ phase' \notin Early
    BY <1>1, <1>3 DEF MainStep, Early, Looping, Late, Over
  <2> QED
    BY <1>1, <2>1, CalmLater
<1>5. CalmEntry'
  BY <1>3 DEF CalmEntry, Early, Marking, Looping, Late, Over
<1>6. CalmDocs'
  BY <1>2, <1>3 DEF CalmDocs, Early, Marking, Looping, Late, Over
<1> QED
  BY <1>4, <1>5, <1>6 DEF CalmParts

LEMMA CalmMainStep == ASSUME IInv, PInv, CalmParts, Calm, Calm', MainStep PROVE CalmParts'
<1>1. ~ExpireInRollback /\ (AtrCommit => phase = "atr_commit")
  BY DEF ExpireInRollback, ExpiredNotInOvertime, Calm, AtrCommit
<1> QED
  BY <1>1, CalmLogicEnd, CalmMarking, CalmLoop, CalmEnd DEF MainStep

LEMMA CalmSurroundings == ASSUME IInv, CalmParts, Calm, Calm', Surroundings PROVE CalmParts'
<1>1. CASE CleanQueue
  <2>1. UNCHANGED <<doc, state, opVars, overtime, phase, mainVars>> /\ phase = "done" /\ atr' = "absent"
    BY <1>1 DEF CleanQueue, CleanedEntry, CalmParts, CalmEntry, Over
  <2> QED
    BY <2>1 DEF CalmParts, CalmOps, CalmEntry, CalmDocs, Holds, Early, Marking, Looping, Late, Over, opVars,
                mainVars
<1>2. CASE Expire \/ Crash \/ CleanLost
  BY <1>2 DEF Expire, Crash, CleanLost, Calm
<1>3. ASSUME NEW d \in Docs, ForeignWrite(d) \/ RivalStage(d) \/ RivalEnd(d) PROVE FALSE
  BY <1>3 DEF ForeignWrite, RivalStage, RivalEnd, Foreign, Calm
<1> QED
  BY <1>1, <1>2, <1>3 DEF Surroundings

LEMMA CalmStep == ASSUME IInv, PInv, CInv, [Next]_vars PROVE CInv'
<1>1. CASE UNCHANGED vars
  BY <1>1 DEF vars, CInv, Calm, CalmOps, CalmEntry, CalmDocs, Pending, Holds
<1>2. CASE Next
  <2> SUFFICES ASSUME Calm' PROVE CalmParts'
    BY DEF CInv, CalmParts
  <2>1. Calm /\ CalmParts
    BY <1>2, CalmBefore DEF IInv, CInv, CalmParts
  <2> QED
    BY <1>2, <2>1, CalmOpStep, CalmMainStep, CalmSurroundings DEF Next
<1> QED
  BY <1>1, <1>2

\* An attempt that meets no fault and no conflict, and does not run out of time,
\* leaves neither its entry nor a staged mutation behind, committed or rolled back,
\* whatever order its operations end in.
THEOREM UndisturbedIsClean == Spec => []CleanWithoutFaults
<1>1. Init => CInv
  BY DEF Init, CInv, Calm, CalmOps, CalmEntry, CalmDocs, Pending, Holds, IdleOp, NotStaged, Absent, Existing,
         Early, Marking, Looping, Late, Over
<1>2. CInv => CleanWithoutFaults
  BY DEF CInv, Calm, CalmEntry, CalmDocs, Over, CleanWithoutFaults
<1>3. Init => PInv
  BY PromiseBegins
<1>4. IInv /\ PInv /\ [Next]_vars => PInv'
  BY PromiseStep
<1>5. IInv /\ PInv /\ CInv /\ [Next]_vars => CInv'
  BY CalmStep
<1> QED
  BY <1>1, <1>2, <1>3, <1>4, <1>5, Invariance, PTL DEF Spec
=============================================================================
