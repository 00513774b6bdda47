----------------------------- MODULE RunLoop_proofs -----------------------------
(***************************************************************************)
(* Theorems about RunLoop, for every number of attempts and of errors, for *)
(* run with a logic and with an async_logic.                               *)
(***************************************************************************)
EXTENDS RunLoop, WellFoundedInduction, TLAPS

-----------------------------------------------------------------------------
(* The inductive invariant *)

\* The types, and that operations record described errors only: none is past the
\* commit point, and none asks for a retry without a rollback.
Types == TypeOK /\ errs \in Seq(Described) /\ (at # "next" => attempts > 0)

\* An entry exists only where an ATR was chosen, never in query mode, and not after
\* COMPLETED or ROLLED_BACK.
EntryFits(c) ==
    /\ c.state \in {"COMPLETED", "ROLLED_BACK"} => ~c.entry
    /\ c.query => ~c.entry
    /\ c.entry => c.chosen

NothingToCommit(c) == ~c.chosen /\ ~c.query

\* handle_error has nothing to work on before it is reached.
ErrorFits ==
    /\ at \in {"logic", "finalize", "commit"} => err = NoError
    /\ at = "next" /\ attempts > 0 => err.retry

\* The application's own call is over before the logic is.
OwnCallFits ==
    at \in {"logic", "finalize"} =>
        /\ cur.done => called # "no"
        /\ called = "commit" /\ caught = NoError => attempts \in committed \/ NothingToCommit(cur)

\* Where an attempt can be that the service has committed.
InLogic  == at \in {"logic", "finalize"} /\ called = "commit" /\ errs = <<>> /\ cur.done
Handled  == at = "handle" /\ \/ called = "commit" /\ err \in {Plain, Foreign}
                             \/ cur.lost /\ err = Plain
                             \/ err \in {Fatal("AMBIGUOUS"), Fatal("FAILED_POST_COMMIT")}
Over     == at = "over" /\ (outcome \notin {"FAIL", "EXPIRY"} \/ called = "commit" \/ cur.lost)
Swallowed == called = "commit" /\ caught # NoError

CommitFits == attempts \in committed => Swallowed \/ InLogic \/ Handled \/ Over

\* An error past the commit point comes from a commit.
PostCommitFits ==
    at = "handle" /\ err.raise = "FAILED_POST_COMMIT" => attempts \in committed \/ caught # NoError

IInv ==
    /\ Types /\ EntryFits(cur) /\ ErrorFits /\ OwnCallFits /\ CommitFits /\ PostCommitFits
    /\ SuccessIsHonest

-----------------------------------------------------------------------------
(* What merge_errors makes of a list of errors, however long it is. *)

\* The indices of a list have a least and a greatest among them.
LEMMA Least ==
    ASSUME NEW T \in SUBSET Nat, T # {}
    PROVE  \E i \in T : \A j \in T : i <= j
<1> DEFINE below == OpToRel(<, Nat)
<1>1. PICK i \in T : \A j \in T : ~(<<j, i>> \in below)
  <2> HIDE DEF below
  <2>1. IsWellFoundedOn(below, Nat)
    BY NatLessThanWellFounded DEF below
  <2> QED
    BY <2>1, WFMin
<1>2. ASSUME NEW j \in T PROVE i <= j
  <2>1. ~(<<j, i>> \in below)
    BY <1>1
  <2>2. i \in Nat /\ j \in Nat
    OBVIOUS
  <2> QED
    BY <2>1, <2>2 DEF OpToRel
<1> QED
  BY <1>2

LEMMA Greatest ==
    ASSUME NEW n \in Nat, NEW T \in SUBSET (1..n), T # {}
    PROVE  \E i \in T : \A j \in T : j <= i
<1> DEFINE mirror == {n - i : i \in T}
<1>1. mirror \in SUBSET Nat /\ mirror # {}
  <2>1. \A i \in T : n - i \in Nat
    OBVIOUS
  <2>2. PICK i \in T : TRUE
    OBVIOUS
  <2>3. n - i \in mirror
    OBVIOUS
  <2> QED
    BY <2>1, <2>3
<1>2. PICK m \in mirror : \A k \in mirror : m <= k
  <2> HIDE DEF mirror
  <2> QED
    BY <1>1, Least
<1>3. PICK i \in T : m = n - i
  OBVIOUS
<1>4. ASSUME NEW j \in T PROVE j <= i
  <2>1. m <= n - j
    BY <1>2
  <2> QED
    BY <1>3, <2>1
<1> QED
  BY <1>4

\* The error a list is merged to is one of the list; it allows a rollback only if every
\* error of the list does, and asks for a retry only if every one does - provided none
\* asks for a retry and forbids the rollback before it (merge_errors).
THEOREM MergeErrorsIsConservative ==
    ASSUME NEW list \in Seq(Errors), list # <<>>
    PROVE  /\ \E i \in DOMAIN list : MergeErrors(list) = list[i]
           /\ MergeErrors(list).rollback <=> \A i \in DOMAIN list : list[i].rollback
           /\ (\A i \in DOMAIN list : list[i].retry => list[i].rollback) =>
                 (MergeErrors(list).retry <=> \A i \in DOMAIN list : list[i].retry)
<1> DEFINE fatal == {i \in DOMAIN list : ~list[i].rollback}
           final == {i \in DOMAIN list : ~list[i].retry}
           first == {i \in fatal : \A j \in fatal : i <= j}
           last  == {i \in final : \A j \in final : j <= i}
           Picked(i) == IF first # {} THEN i \in first ELSE IF last # {} THEN i \in last ELSE i = 1
           picked == CHOOSE i \in DOMAIN list : Picked(i)
<1>1. DOMAIN list = 1..Len(list) /\ Len(list) \in Nat /\ 1 \in DOMAIN list
  OBVIOUS
<1>2. fatal # {} => first # {}
  <2>1. fatal \in SUBSET Nat
    BY <1>1
  <2> HIDE DEF fatal
  <2> QED
    BY <2>1, Least
<1>3. final # {} => last # {}
  <2>1. final \in SUBSET (1..Len(list))
    BY <1>1
  <2> HIDE DEF final
  <2> QED
    BY <1>1, <2>1, Greatest
<1>4. picked \in DOMAIN list /\ Picked(picked)
  <2>1. \E i \in DOMAIN list : Picked(i)
    BY <1>1
  <2> QED
    BY <2>1
<1>5. MergeErrors(list) = list[picked]
  BY DEF MergeErrors
<1> HIDE DEF picked
<1>6. list[picked].rollback <=> \A i \in DOMAIN list : list[i].rollback
  BY <1>2, <1>4
<1>7. ASSUME \A i \in DOMAIN list : list[i].retry => list[i].rollback
      PROVE  list[picked].retry <=> \A i \in DOMAIN list : list[i].retry
  BY <1>2, <1>3, <1>4, <1>7
<1> QED
  BY <1>4, <1>5, <1>6, <1>7

-----------------------------------------------------------------------------
(* Errors *)

LEMMA DescribedErrors ==
    /\ Described \subseteq Errors /\ KvErrors \subseteq Described
    /\ {Fatal("AMBIGUOUS"), Fatal("FAILED_POST_COMMIT")} \subseteq Errors
    /\ NoError \notin Errors /\ Foreign \notin Errors /\ NoError # Foreign
BY DEF Described, KvErrors, Errors, Raises, Plain, Retry, Expired, Failed, Fatal, NoError, Foreign

LEMMA KindsOfErrors ==
    /\ Plain.raise = "FAILED" /\ Plain.rollback /\ ~Plain.retry
    /\ Retry.raise = "FAILED" /\ Expired.raise = "EXPIRED"
    /\ NoError.raise = "none" /\ ~NoError.retry
    /\ Foreign.raise = "foreign" /\ ~Foreign.retry
    /\ \A r \in Raises : Fatal(r).raise = r /\ ~Fatal(r).rollback /\ ~Fatal(r).retry
BY DEF Plain, Retry, Expired, Failed, Fatal, NoError, Foreign

LEMMA MergedIsDescribed ==
    ASSUME NEW list \in Seq(Described), list # <<>>
    PROVE  MergeErrors(list) \in Described
<1>1. list \in Seq(Errors)
  BY DescribedErrors
<1>2. PICK i \in DOMAIN list : MergeErrors(list) = list[i]
  BY <1>1, MergeErrorsIsConservative
<1> QED
  BY <1>2

-----------------------------------------------------------------------------
(* Commit and rollback *)

\* What commit leaves of the attempt, and what it may have committed.
LEMMA CommitEndsFit ==
    ASSUME Types, NEW c \in Attempt, NEW end \in CommitEnds(c)
    PROVE  /\ end.cur \in Attempt /\ end.err \in Errors \cup {NoError} /\ end.commits \in BOOLEAN
           /\ EntryFits(c) => EntryFits(end.cur)
           /\ end.commits => errs = <<>>
           /\ end.err = NoError => end.cur.done /\ (end.commits \/ NothingToCommit(end.cur))
           /\ end.commits /\ end.err # NoError =>
                 \/ end.err \in {Fatal("AMBIGUOUS"), Fatal("FAILED_POST_COMMIT")}
                 \/ end.err = Plain /\ end.cur.lost
           /\ end.err.raise = "FAILED_POST_COMMIT" => end.commits
<1> DEFINE Fits ==
           /\ end.cur \in Attempt /\ end.err \in Errors \cup {NoError} /\ end.commits \in BOOLEAN
           /\ EntryFits(c) => EntryFits(end.cur)
           /\ end.commits => errs = <<>>
           /\ end.err = NoError => end.cur.done /\ (end.commits \/ NothingToCommit(end.cur))
           /\ end.commits /\ end.err # NoError =>
                 \/ end.err \in {Fatal("AMBIGUOUS"), Fatal("FAILED_POST_COMMIT")}
                 \/ end.err = Plain /\ end.cur.lost
           /\ end.err.raise = "FAILED_POST_COMMIT" => end.commits
           Described2 == Described \cup {Plain, Retry, Expired, Fatal("FAILED"), Fatal("EXPIRED")}
<1>1. \A e \in Described2 : e \in Errors /\ e # NoError /\ e.raise # "FAILED_POST_COMMIT"
  BY DescribedErrors, KindsOfErrors DEF Described, KvErrors, Raises
<1>2. ASSUME NEW e \in Described2, NEW d \in Attempt, end = End(e, d, FALSE), EntryFits(c) => EntryFits(d)
      PROVE  Fits
  BY <1>1, <1>2 DEF End
<1>3. ASSUME errs # <<>> PROVE Fits
  <2>1. end = End(MergeErrors(errs), c, FALSE)
    BY <1>3 DEF CommitEnds
  <2>2. MergeErrors(errs) \in Described
    BY <1>3, MergedIsDescribed DEF Types
  <2> QED
    BY <1>2, <2>1, <2>2
<1>4. ASSUME errs = <<>>, c.query PROVE Fits
  <2> DEFINE done == [c EXCEPT !.done = TRUE]
             over == [done EXCEPT !.state = "COMPLETED"]
             lost == [done EXCEPT !.lost = TRUE]
  <2>1. /\ {done, over, lost} \subseteq Attempt /\ over.done /\ lost.lost
        /\ EntryFits(c) => EntryFits(done) /\ EntryFits(over) /\ EntryFits(lost)
    BY <1>4 DEF Attempt, States, EntryFits
  <2>2. end \in QueryCommitEnds(c)
    BY <1>4 DEF CommitEnds
  <2> HIDE DEF done, over, lost
  <2>3. \/ \E e \in Described2 \cup {Fatal("EXPIRED")} : end = End(e, done, FALSE)
        \/ end = End(NoError, over, TRUE)
        \/ \E commits \in BOOLEAN : end = End(Fatal("AMBIGUOUS"), done, commits)
        \/ \E commits \in BOOLEAN : end = End(Plain, lost, commits)
        \/ end = End(Fatal("FAILED_POST_COMMIT"), done, TRUE)
    BY <2>2 DEF QueryCommitEnds, done, over, lost
  <2>4. ASSUME end = End(NoError, over, TRUE) PROVE Fits
    BY <1>4, <2>1, <2>4, KindsOfErrors DEF End
  <2>5. ASSUME NEW commits \in BOOLEAN, end = End(Fatal("AMBIGUOUS"), done, commits) PROVE Fits
    BY <1>4, <2>1, <2>5, KindsOfErrors, DescribedErrors DEF End, Raises
  <2>6. ASSUME NEW commits \in BOOLEAN, end = End(Plain, lost, commits) PROVE Fits
    BY <1>1, <1>4, <2>1, <2>6, KindsOfErrors DEF End
  <2>7. ASSUME end = End(Fatal("FAILED_POST_COMMIT"), done, TRUE) PROVE Fits
    BY <1>4, <2>1, <2>7, KindsOfErrors, DescribedErrors DEF End
  <2> HIDE DEF Fits
  <2> QED
    BY <1>2, <2>1, <2>3, <2>4, <2>5, <2>6, <2>7
<1>5. ASSUME errs = <<>>, ~c.query, end \in KvCommitEnds(c), c.chosen PROVE Fits
  <2> DEFINE done == [c EXCEPT !.state = "COMPLETED", !.entry = FALSE, !.done = TRUE]
             kept == [c EXCEPT !.state = "COMMITTED", !.done = TRUE]
             half == [c EXCEPT !.state = "COMMITTED"]
  <2>1. /\ {done, kept, half} \subseteq Attempt /\ done.done /\ kept.done
        /\ EntryFits(c) => EntryFits(done) /\ EntryFits(kept) /\ EntryFits(half)
    BY <1>5 DEF Attempt, States, EntryFits
  <2> HIDE DEF done, kept, half
  <2>2. \/ \E e \in Described2 : end = End(e, c, FALSE)
        \/ \E d \in {done, kept} : end = End(NoError, d, TRUE)
        \/ \E commits \in BOOLEAN : end = End(Fatal("AMBIGUOUS"), c, commits)
        \/ end = End(Fatal("FAILED_POST_COMMIT"), half, TRUE)
    BY <1>5 DEF KvCommitEnds, done, kept, half
  <2>3. ASSUME NEW d \in {done, kept}, end = End(NoError, d, TRUE) PROVE Fits
    BY <1>5, <2>1, <2>3, KindsOfErrors DEF End
  <2>4. ASSUME NEW commits \in BOOLEAN, end = End(Fatal("AMBIGUOUS"), c, commits) PROVE Fits
    BY <1>5, <2>1, <2>4, KindsOfErrors, DescribedErrors DEF End, Raises
  <2>5. ASSUME end = End(Fatal("FAILED_POST_COMMIT"), half, TRUE) PROVE Fits
    BY <1>5, <2>1, <2>5, KindsOfErrors, DescribedErrors DEF End
  <2> HIDE DEF Fits
  <2> QED
    BY <1>2, <2>2, <2>3, <2>4, <2>5
<1>6. ASSUME errs = <<>>, ~c.query, end \notin KvCommitEnds(c) \/ ~c.chosen PROVE Fits
  <2> DEFINE done == [c EXCEPT !.done = TRUE]
  <2>1. done \in Attempt /\ done.done /\ (EntryFits(c) => EntryFits(done))
        /\ done.chosen = c.chosen /\ done.query = c.query
    BY DEF Attempt, EntryFits
  <2> HIDE DEF done
  <2>2. \/ end = End(Expired, c, FALSE) \/ end = End(Fatal("FAILED"), c, FALSE)
        \/ end = End(NoError, done, FALSE) /\ ~c.chosen
    BY <1>6 DEF CommitEnds, done
  <2>3. ASSUME end = End(NoError, done, FALSE), ~c.chosen PROVE Fits
    BY <1>6, <2>1, <2>3, KindsOfErrors DEF End, NothingToCommit
  <2> HIDE DEF Fits
  <2> QED
    BY <1>2, <2>2, <2>3
<1> QED
  BY <1>3, <1>4, <1>5, <1>6 DEF Attempt

\* Rollback commits nothing, and when it succeeds leaves no entry, or one nobody knows of.
LEMMA RollbackEndsFit ==
    ASSUME NEW c \in Attempt, NEW end \in RollbackEnds(c)
    PROVE  /\ end.cur \in Attempt /\ end.err \in Errors \cup {NoError} /\ end.commits = FALSE
           /\ end.cur.lost = c.lost
           /\ EntryFits(c) => EntryFits(end.cur)
           /\ EntryFits(c) /\ end.err = NoError => ~end.cur.entry \/ end.cur.state = "NOT_STARTED"
           /\ end.err.raise # "FAILED_POST_COMMIT"
<1> DEFINE Fits ==
           /\ end.cur \in Attempt /\ end.err \in Errors \cup {NoError} /\ end.commits = FALSE
           /\ end.cur.lost = c.lost
           /\ EntryFits(c) => EntryFits(end.cur)
           /\ EntryFits(c) /\ end.err = NoError => ~end.cur.entry \/ end.cur.state = "NOT_STARTED"
           /\ end.err.raise # "FAILED_POST_COMMIT"
           Failures == {Plain, Fatal("FAILED"), Fatal("EXPIRED")}
           done == [c EXCEPT !.done = TRUE]
           away == [done EXCEPT !.state = "ROLLED_BACK"]
           aborted == [c EXCEPT !.state = "ABORTED"]
           gone(s) == [aborted EXCEPT !.state = s, !.entry = FALSE, !.done = TRUE]
<1>1. \A e \in Failures : e \in Errors /\ e # NoError /\ e.raise # "FAILED_POST_COMMIT"
  BY DescribedErrors, KindsOfErrors DEF Raises, Described, KvErrors
<1>2. /\ {done, aborted} \subseteq Attempt /\ done.lost = c.lost /\ aborted.lost = c.lost
      /\ EntryFits(c) => EntryFits(done) /\ EntryFits(aborted)
      /\ done.entry = c.entry /\ done.state = c.state /\ done.query = c.query
  BY DEF Attempt, States, EntryFits
<1>3. away \in Attempt /\ away.lost = c.lost /\ (c.query /\ EntryFits(c) => EntryFits(away) /\ ~away.entry)
  BY DEF Attempt, States, EntryFits
<1>4. \A s \in {"ABORTED", "ROLLED_BACK"} :
        gone(s) \in Attempt /\ gone(s).lost = c.lost /\ EntryFits(gone(s)) /\ ~gone(s).entry
  BY DEF Attempt, States, EntryFits
<1>5. \/ \E e \in Failures, d \in {done, aborted, c} : end = End(e, d, FALSE)
      \/ end = End(NoError, away, FALSE) /\ c.query
      \/ end = End(NoError, done, FALSE) /\ (~c.chosen \/ c.state = "NOT_STARTED")
      \/ \E s \in {"ABORTED", "ROLLED_BACK"} : end = End(NoError, gone(s), FALSE)
  <2>1. CASE c.query
    BY <2>1 DEF RollbackEnds, QueryRollbackEnds
  <2>2. CASE ~c.query /\ (~c.chosen \/ c.state = "NOT_STARTED" \/ c.done)
    <3>1. ASSUME ~c.chosen \/ c.state = "NOT_STARTED" PROVE end = End(NoError, done, FALSE)
      BY <2>2, <3>1 DEF RollbackEnds
    <3>2. ASSUME ~(~c.chosen \/ c.state = "NOT_STARTED") PROVE end = End(Fatal("FAILED"), c, FALSE)
      BY <2>2, <3>2 DEF RollbackEnds
    <3> QED
      BY <3>1, <3>2
  <2>3. CASE ~c.query /\ ~(~c.chosen \/ c.state = "NOT_STARTED" \/ c.done)
    <3>1. end \in KvRollbackEnds(c)
      BY <2>3 DEF RollbackEnds
    <3> QED
      BY <3>1 DEF KvRollbackEnds
  <2> QED
    BY <2>1, <2>2, <2>3
<1> HIDE DEF done, away, aborted, gone, Failures
<1>6. ASSUME NEW e \in Failures, NEW d \in {done, aborted, c}, end = End(e, d, FALSE) PROVE Fits
  BY <1>1, <1>2, <1>6 DEF End
<1>7. ASSUME end = End(NoError, away, FALSE), c.query PROVE Fits
  BY <1>3, <1>7, KindsOfErrors DEF End
<1>8. ASSUME end = End(NoError, done, FALSE), ~c.chosen \/ c.state = "NOT_STARTED" PROVE Fits
  BY <1>2, <1>8, KindsOfErrors DEF End, EntryFits
<1>9. ASSUME NEW s \in {"ABORTED", "ROLLED_BACK"}, end = End(NoError, gone(s), FALSE) PROVE Fits
  BY <1>4, <1>9, KindsOfErrors DEF End
<1> HIDE DEF Fits
<1>10. Fits
  BY <1>5, <1>6, <1>7, <1>8, <1>9
<1> QED
  BY <1>10 DEF Fits
-----------------------------------------------------------------------------
(* The invariant is inductive *)

LEMMA InitFits == Init => IInv
<1> SUFFICES ASSUME Init PROVE IInv
  OBVIOUS
<1>1. Fresh \in Attempt
  BY DEF Fresh, Attempt, States
<1>2. Types
  BY <1>1, ConstantsAssumption DEF Init, Types, TypeOK, Outcomes, Results
<1> QED
  BY <1>2 DEF Init, IInv, EntryFits, Fresh, ErrorFits, OwnCallFits, CommitFits, PostCommitFits,
     SuccessIsHonest, Results

\* What the errors of operations may be.
LEMMA RecordedErrors ==
    ASSUME Types, NEW e \in Throwable
    PROVE  /\ e \in Errors \cup {NoError, Foreign} /\ e # NoError
           /\ e = caught \/ e \in Described \cup {Plain, Foreign}
           /\ errs = <<>> => e \in {caught, Plain, Foreign}
<1>1. \A i \in DOMAIN errs : errs[i] \in Described
  BY DEF Types
<1>2. errs # <<>> => MergeErrors(errs) \in Described
  BY MergedIsDescribed DEF Types
<1>3. caught \in Errors \cup {NoError, Foreign}
  BY DEF Types, TypeOK
<1>4. Plain \in Described
  BY DescribedErrors DEF KvErrors
<1>5. \/ e \in Recorded
      \/ errs # <<>> /\ e = MergeErrors(errs)
      \/ e = caught /\ caught # NoError
      \/ e \in {Plain, Foreign}
  BY DEF Throwable
<1>6. e \in Recorded => e \in Described /\ errs # <<>>
  BY <1>1 DEF Recorded
<1> QED
  BY <1>2, <1>3, <1>4, <1>5, <1>6, DescribedErrors

\* An attempt begins with nothing to remember of those before it.
LEMMA NewAttemptFits == ASSUME IInv, NewAttempt PROVE IInv'
<1>1. Fresh \in Attempt
  BY DEF Fresh, Attempt, States
<1>2. attempts + 1 \notin committed /\ attempts + 1 \in 1..MaxAttempts /\ 1..attempts \subseteq 1..(attempts + 1)
  BY ConstantsAssumption DEF IInv, Types, TypeOK, NewAttempt
<1>3. Types'
  BY <1>1, <1>2 DEF IInv, Types, TypeOK, NewAttempt, historyVars
<1>4. committed' = committed /\ attempts' \notin committed
  BY <1>2 DEF NewAttempt, historyVars
<1>5. EntryFits(cur)' /\ ErrorFits' /\ OwnCallFits' /\ CommitFits' /\ PostCommitFits'
  BY <1>4 DEF NewAttempt, EntryFits, Fresh, ErrorFits, OwnCallFits, CommitFits, PostCommitFits
<1>6. SuccessIsHonest'
  BY DEF IInv, Types, TypeOK, NewAttempt, SuccessIsHonest, Results
<1> QED
  BY <1>3, <1>5, <1>6 DEF IInv

LEMMA LoopEndsFit == ASSUME IInv, DelayTimesOut \/ AttemptsExhausted PROVE IInv'
<1>1. /\ at = "next" /\ at' = "over" /\ attempts > 0 /\ err.retry
      /\ outcome' \in {"terminated", "timeout", "complete", "incomplete"}
      /\ UNCHANGED <<attempts, clock, cur, errs, called, caught, err, historyVars>>
  BY ConstantsAssumption DEF DelayTimesOut, AttemptsExhausted, RunIs, Result, IInv, ErrorFits
<1>2. Types'
  BY <1>1 DEF IInv, Types, TypeOK, Outcomes, Results, historyVars
<1> QED
  BY <1>1, <1>2 DEF IInv, EntryFits, ErrorFits, OwnCallFits, CommitFits, PostCommitFits,
     SuccessIsHonest, Swallowed, InLogic, Handled, Over, historyVars

\* Operations run while no commit has been called, and touch no commit that is done.
LEMMA OperationFits ==
    ASSUME IInv, OperationStages \/ QueryModeBegins \/ OperationFails
    PROVE  IInv'
<1>1. /\ called = "no" /\ at # "over" /\ at # "next"
      /\ UNCHANGED <<attempts, clock, at, called, caught, err, outcome, historyVars>>
  BY DEF OperationStages, QueryModeBegins, OperationFails, OperationsRun
<1>2. /\ cur' \in Attempt /\ EntryFits(cur') /\ cur'.done = cur.done /\ cur'.lost = cur.lost
      /\ errs' \in Seq(Described)
  <2>1. cur \in Attempt /\ EntryFits(cur) /\ errs \in Seq(Described)
    BY DEF IInv, Types, TypeOK
  <2>2. CASE OperationStages
    BY <2>1, <2>2 DEF OperationStages, Attempt, States, EntryFits
  <2>3. CASE QueryModeBegins
    BY <2>1, <2>3 DEF QueryModeBegins, Attempt, States, EntryFits
  <2>4. CASE OperationFails
    <3>1. PICK e \in Described : errs' = Append(errs, e)
      BY <2>4, DescribedErrors DEF OperationFails
    <3>2. \/ cur' = cur
          \/ ~cur.query /\ \E b \in BOOLEAN : cur' = [cur EXCEPT !.chosen = TRUE, !.entry = b] /\ cur.state = "NOT_STARTED"
          \/ ~cur.query /\ cur' = [cur EXCEPT !.chosen = TRUE, !.entry = TRUE, !.state = "PENDING"]
      BY <2>4 DEF OperationFails
    <3>3. /\ cur' \in Attempt /\ EntryFits(cur') /\ cur'.done = cur.done /\ cur'.lost = cur.lost
      BY <2>1, <3>2 DEF Attempt, States, EntryFits
    <3>4. errs' \in Seq(Described)
      BY <2>1, <3>1
    <3> QED
      BY <3>3, <3>4
  <2> QED
    BY <2>2, <2>3, <2>4
<1>3. errs' \in Seq(Errors)
  BY <1>2, DescribedErrors
<1>4. Types'
  BY <1>1, <1>2, <1>3 DEF IInv, Types, TypeOK, historyVars
<1> QED
  BY <1>1, <1>2, <1>4, KindsOfErrors DEF IInv, EntryFits, ErrorFits, OwnCallFits, CommitFits, PostCommitFits,
     SuccessIsHonest, Swallowed, InLogic, Handled, Over, historyVars, Types, TypeOK, Results

\* What Becomes does to the attempt and to the history.
LEMMA BecomesFits ==
    ASSUME Types, NEW end, end.cur \in Attempt, end.commits \in BOOLEAN, Becomes(end), attempts > 0
    PROVE  /\ cur' = end.cur
           /\ committed' \subseteq 1..attempts
           /\ attempts \in committed' <=> end.commits \/ attempts \in committed
           /\ end.commits = FALSE => committed' = committed
BY DEF Becomes, Types, TypeOK

\* Nothing has been committed while the logic runs and has not called commit.
LEMMA AppCommitsFit == ASSUME IInv, AppCommits PROVE IInv'
<1>1. PICK end \in CommitEnds(cur) : Becomes(end) /\ caught' = end.err
  BY DEF AppCommits
<1>2. /\ at = "logic" /\ called = "no" /\ called' = "commit" /\ err = NoError /\ outcome = "running"
      /\ UNCHANGED <<attempts, clock, at, errs, err, outcome, handed, left>>
      /\ Types /\ attempts > 0 /\ cur \in Attempt /\ EntryFits(cur)
  BY DEF AppCommits, IInv, ErrorFits, Types, TypeOK
<1>3. /\ end.cur \in Attempt /\ end.err \in Errors \cup {NoError} /\ end.commits \in BOOLEAN
      /\ EntryFits(end.cur)
      /\ end.commits => errs = <<>>
      /\ end.err = NoError => end.cur.done /\ (end.commits \/ NothingToCommit(end.cur))
  BY <1>2, CommitEndsFit
<1>4. /\ cur' = end.cur /\ committed' \subseteq 1..attempts
      /\ attempts \in committed' <=> end.commits \/ attempts \in committed
  BY <1>1, <1>2, <1>3, BecomesFits
<1>5. attempts \notin committed
  BY <1>2 DEF IInv, CommitFits, Swallowed, InLogic, Handled, Over
<1>6. Types'
  BY <1>1, <1>2, <1>3, <1>4 DEF Types, TypeOK
<1>7. CommitFits'
  BY <1>1, <1>2, <1>3, <1>4, <1>5 DEF CommitFits, Swallowed, InLogic
<1> QED
  BY <1>1, <1>2, <1>3, <1>4, <1>6, <1>7 DEF IInv, EntryFits, ErrorFits, OwnCallFits, PostCommitFits,
     NothingToCommit, SuccessIsHonest, Results

LEMMA AppRollsBackFit == ASSUME IInv, AppRollsBack PROVE IInv'
<1>1. PICK end \in RollbackEnds(cur) : Becomes(end) /\ caught' = end.err
  BY DEF AppRollsBack
<1>2. /\ at = "logic" /\ called = "no" /\ called' = "rollback" /\ err = NoError /\ outcome = "running"
      /\ UNCHANGED <<attempts, clock, at, errs, err, outcome, handed, left>>
      /\ Types /\ attempts > 0 /\ cur \in Attempt /\ EntryFits(cur)
  BY DEF AppRollsBack, IInv, ErrorFits, Types, TypeOK
<1>3. /\ end.cur \in Attempt /\ end.err \in Errors \cup {NoError} /\ end.commits = FALSE
      /\ EntryFits(end.cur)
  BY <1>2, RollbackEndsFit
<1>4. cur' = end.cur /\ committed' = committed
  BY <1>1, <1>2, <1>3, BecomesFits
<1>5. attempts \notin committed
  BY <1>2 DEF IInv, CommitFits, Swallowed, InLogic, Handled, Over
<1>6. Types'
  BY <1>1, <1>2, <1>3, <1>4 DEF Types, TypeOK
<1> QED
  BY <1>2, <1>3, <1>4, <1>5, <1>6 DEF IInv, EntryFits, ErrorFits, OwnCallFits, PostCommitFits,
     CommitFits, SuccessIsHonest, Results

\* The logic ends with what its operations and its own commit have left.
LEMMA LogicEndsFit == ASSUME IInv, LogicEnds PROVE IInv'
<1>1. /\ at = "logic" /\ err = NoError /\ outcome = "running" /\ cur \in Attempt
      /\ UNCHANGED <<attempts, clock, cur, errs, called, caught, outcome, historyVars>>
  BY DEF LogicEnds, LogicReturns, LogicThrows, IInv, ErrorFits, Types, TypeOK
<1>2. CASE LogicReturns
  <2>1. at' = "finalize" /\ err' = err
    BY <1>2 DEF LogicReturns
  <2>2. Types'
    BY <1>1, <2>1 DEF IInv, Types, TypeOK, historyVars
  <2> QED
    BY <1>1, <2>1, <2>2 DEF IInv, EntryFits, ErrorFits, OwnCallFits, CommitFits, PostCommitFits,
       NothingToCommit, SuccessIsHonest, Swallowed, InLogic, Handled, Over, historyVars, Results
<1>3. CASE LogicThrows
  <2>1. PICK e \in Throwable : err' = e /\ at' = "handle"
    BY <1>3 DEF LogicThrows, HandleError
  <2>2. /\ e \in Errors \cup {NoError, Foreign} /\ e # NoError
        /\ e = caught \/ e \in Described \cup {Plain, Foreign}
        /\ errs = <<>> => e \in {caught, Plain, Foreign}
    BY RecordedErrors DEF IInv
  <2>3. Types'
    BY <1>1, <2>1, <2>2 DEF IInv, Types, TypeOK, historyVars
  <2>4. CommitFits'
    BY <1>1, <2>1, <2>2 DEF IInv, CommitFits, Swallowed, InLogic, Handled, Over, historyVars
  <2>5. PostCommitFits'
    BY <1>1, <2>1, <2>2, KindsOfErrors DEF PostCommitFits, Described
  <2> QED
    BY <1>1, <2>1, <2>3, <2>4, <2>5 DEF IInv, EntryFits, ErrorFits, OwnCallFits, SuccessIsHonest, Results
<1> QED
  BY <1>2, <1>3 DEF LogicEnds

\* finalize returns what the application's own commit or rollback has come to.
LEMMA FinalizeFits == ASSUME IInv, Finalize PROVE IInv'
<1>1. /\ at = "finalize" /\ err = NoError /\ outcome = "running" /\ cur \in Attempt /\ attempts > 0
      /\ UNCHANGED <<attempts, clock, cur, errs, called, caught, handed, committed>>
  BY DEF Finalize, IInv, ErrorFits, Types, TypeOK
<1>2. CASE errs # <<>>
  <2>1. at' = "handle" /\ err' = MergeErrors(errs) /\ UNCHANGED <<outcome, left>>
    BY <1>2 DEF Finalize, HandleError
  <2>2. err' \in Described
    BY <1>2, <2>1, MergedIsDescribed DEF IInv, Types
  <2>3. Types'
    BY <1>1, <2>1, <2>2, DescribedErrors DEF IInv, Types, TypeOK
  <2>4. PostCommitFits' /\ CommitFits'
    BY <1>1, <1>2, <2>1, <2>2 DEF IInv, PostCommitFits, CommitFits, Described, Swallowed, InLogic, Handled, Over
  <2> QED
    BY <1>1, <2>1, <2>3, <2>4 DEF IInv, EntryFits, ErrorFits, OwnCallFits, SuccessIsHonest, Results
<1>3. CASE errs = <<>> /\ cur.done
  <2>1. at' = "over" /\ outcome' \in Results /\ Leaves(cur) /\ err' = err
    BY <1>3 DEF Finalize, RunIs, Result, Results
  <2>2. Types'
    BY <1>1, <2>1 DEF IInv, Types, TypeOK, Leaves, Results, Outcomes
  <2>3. SuccessIsHonest'
    BY <1>1, <1>3 DEF IInv, Types, TypeOK, OwnCallFits, NothingToCommit, SuccessIsHonest
  <2> QED
    BY <1>1, <2>1, <2>2, <2>3 DEF IInv, EntryFits, ErrorFits, OwnCallFits, CommitFits, PostCommitFits,
       Swallowed, InLogic, Handled, Over, Results
<1>4. CASE errs = <<>> /\ ~cur.done
  <2>1. at' = "commit" /\ UNCHANGED <<err, outcome, left>>
    BY <1>4 DEF Finalize
  <2>2. Types'
    BY <1>1, <2>1 DEF IInv, Types, TypeOK
  <2> QED
    BY <1>1, <1>4, <2>1, <2>2 DEF IInv, EntryFits, ErrorFits, OwnCallFits, CommitFits, PostCommitFits,
       Swallowed, InLogic, Handled, Over, SuccessIsHonest, Results
<1> QED
  BY <1>1, <1>2, <1>3, <1>4 DEF Attempt

\* The commit that run makes itself.
LEMMA FinalizeCommitsFit == ASSUME IInv, FinalizeCommits PROVE IInv'
<1>1. PICK end \in CommitEnds(cur) :
        /\ Becomes(end)
        /\ \/ end.err = NoError /\ RunIs(Result(end.cur)) /\ Leaves(end.cur) /\ UNCHANGED err
           \/ end.err # NoError /\ HandleError(end.err) /\ UNCHANGED <<outcome, left>>
  BY DEF FinalizeCommits
<1>2. /\ at = "commit" /\ err = NoError /\ outcome = "running"
      /\ UNCHANGED <<attempts, clock, errs, called, caught, handed>>
      /\ Types /\ attempts > 0 /\ cur \in Attempt /\ EntryFits(cur)
  BY DEF FinalizeCommits, IInv, ErrorFits, Types, TypeOK
<1>3. /\ end.cur \in Attempt /\ end.err \in Errors \cup {NoError} /\ end.commits \in BOOLEAN
      /\ EntryFits(end.cur)
      /\ end.err = NoError => end.cur.done /\ (end.commits \/ NothingToCommit(end.cur))
      /\ end.commits /\ end.err # NoError =>
            \/ end.err \in {Fatal("AMBIGUOUS"), Fatal("FAILED_POST_COMMIT")}
            \/ end.err = Plain /\ end.cur.lost
      /\ end.err.raise = "FAILED_POST_COMMIT" => end.commits
  BY <1>2, CommitEndsFit
<1>4. /\ cur' = end.cur /\ committed' \subseteq 1..attempts
      /\ attempts \in committed' <=> end.commits \/ attempts \in committed
  BY <1>1, <1>2, <1>3, BecomesFits
<1>5. attempts \in committed => Swallowed
  BY <1>2 DEF IInv, CommitFits, InLogic, Handled, Over
<1>6. CASE end.err = NoError
  <2>1. at' = "over" /\ outcome' \in Results /\ Leaves(end.cur) /\ err' = err
    BY <1>1, <1>6 DEF RunIs, Result, Results
  <2>2. Types'
    <3>1. left' \subseteq 1..attempts'
      BY <1>2, <2>1 DEF Types, TypeOK, Leaves
    <3> QED
      BY <1>2, <1>3, <1>4, <2>1, <3>1 DEF Types, TypeOK, Results, Outcomes
  <2>3. SuccessIsHonest'
    BY <1>2, <1>3, <1>4, <1>6 DEF NothingToCommit, SuccessIsHonest
  <2> QED
    BY <1>2, <1>3, <1>4, <1>5, <2>1, <2>2, <2>3 DEF IInv, EntryFits, ErrorFits, OwnCallFits, CommitFits,
       PostCommitFits, Over, Results
<1>7. CASE end.err # NoError
  <2>1. at' = "handle" /\ err' = end.err /\ UNCHANGED <<outcome, left>>
    BY <1>1, <1>7 DEF HandleError
  <2>2. Types'
    BY <1>2, <1>3, <1>4, <2>1 DEF Types, TypeOK
  <2>3. CommitFits'
    BY <1>2, <1>3, <1>4, <1>5, <1>7, <2>1 DEF CommitFits, Swallowed, Handled
  <2> QED
    BY <1>2, <1>3, <1>4, <2>1, <2>2, <2>3 DEF IInv, EntryFits, ErrorFits, OwnCallFits, PostCommitFits,
       SuccessIsHonest, Results
<1> QED
  BY <1>6, <1>7

\* What handle_error ends with.
LEMMA FinalOutcomes ==
    ASSUME NEW c
    PROVE  /\ Final(err, c) \in Outcomes /\ Final(err, c) # "running"
           /\ Final(err, c) \in Results => err.raise = "FAILED_POST_COMMIT"
           /\ err.raise \in {"AMBIGUOUS", "FAILED_POST_COMMIT"} => Final(err, c) \notin {"FAIL", "EXPIRY"}
BY DEF Final, Result, Results, Outcomes

\* handle_error raises the error or begins another attempt, and keeps what it knows of
\* the commit.
LEMMA HandledFits ==
    ASSUME IInv, HandledWithoutRollback \/ HandledWithRollback \/ HandledForeign
    PROVE  IInv'
<1>1. /\ at = "handle" /\ outcome = "running" /\ attempts > 0
      /\ UNCHANGED <<attempts, clock, errs, called, caught, err>>
  BY DEF HandledWithoutRollback, HandledWithRollback, HandledForeign, IInv, Types, TypeOK
<1>2. PICK c \in Attempt :
        /\ cur' = c /\ EntryFits(c) /\ Leaves(c) /\ c.lost = cur.lost /\ committed' = committed
        /\ handed' \in {handed, handed \cup {attempts}}
        /\ \/ at' = "next" /\ err.retry /\ UNCHANGED outcome
           \/ at' = "over" /\ outcome' = Final(err, c)
           \/ at' = "over" /\ outcome' = "EXPIRY" /\ err.retry
  <2>1. CASE HandledWithoutRollback
    BY <2>1 DEF HandledWithoutRollback, Raised, Retried, AddAttempt, RunIs, IInv, Types, TypeOK
  <2>2. ASSUME HandledWithRollback \/ HandledForeign
        PROVE  \E end \in RollbackEnds(cur) :
                  /\ Becomes(end) /\ Leaves(end.cur)
                  /\ \/ Raised(end.cur)
                     \/ err.retry /\ RunIs("EXPIRY") /\ UNCHANGED handed
                     \/ err.retry /\ Retried(end.cur)
    <3>1. CASE HandledWithRollback
      BY <3>1 DEF HandledWithRollback
    <3>2. CASE HandledForeign
      BY <3>2 DEF HandledForeign
    <3> QED
      BY <2>2, <3>1, <3>2
  <2>3. CASE HandledWithRollback \/ HandledForeign
    <3>1. PICK end \in RollbackEnds(cur) :
                  /\ Becomes(end) /\ Leaves(end.cur)
                  /\ \/ Raised(end.cur)
                     \/ err.retry /\ RunIs("EXPIRY") /\ UNCHANGED handed
                     \/ err.retry /\ Retried(end.cur)
      BY <2>2, <2>3
    <3>2. /\ end.cur \in Attempt /\ end.commits = FALSE /\ end.cur.lost = cur.lost /\ EntryFits(end.cur)
      BY RollbackEndsFit DEF IInv, Types, TypeOK
    <3>3. cur' = end.cur /\ committed' = committed
      BY <1>1, <3>1, <3>2, BecomesFits DEF IInv
    <3> QED
      BY <3>1, <3>2, <3>3 DEF Raised, Retried, AddAttempt, RunIs
  <2> QED
    BY <2>1, <2>3
<1>3. Types'
  <2>1. left' \subseteq left \cup {attempts} /\ attempts \in 1..attempts
    BY <1>1, <1>2 DEF Leaves, IInv, Types, TypeOK
  <2> QED
    BY <1>1, <1>2, <2>1, FinalOutcomes DEF IInv, Types, TypeOK, Outcomes
<1>4. CommitFits'
  <2>1. attempts \in committed => Swallowed \/ Handled
    BY <1>1 DEF IInv, CommitFits, InLogic, Over
  <2>2. CASE Swallowed
    BY <1>1, <1>2, <2>2 DEF CommitFits, Swallowed
  <2>3. ASSUME Handled PROVE CommitFits'
    <3>1. ~err.retry
      BY <2>3, KindsOfErrors DEF Handled, Raises
    <3>2. at' = "over" /\ outcome' = Final(err, c)
      BY <1>2, <3>1
    <3>3. called = "commit" \/ cur.lost \/ err.raise \in {"AMBIGUOUS", "FAILED_POST_COMMIT"}
      BY <2>3, KindsOfErrors DEF Handled, Raises
    <3> QED
      BY <1>1, <1>2, <3>2, <3>3, FinalOutcomes DEF CommitFits, Over
  <2> QED
    BY <1>1, <1>2, <2>1, <2>2, <2>3 DEF CommitFits
<1>5. SuccessIsHonest'
  BY <1>1, <1>2, FinalOutcomes DEF IInv, PostCommitFits, SuccessIsHonest, Results
<1>6. EntryFits(cur)' /\ ErrorFits' /\ OwnCallFits' /\ PostCommitFits'
  BY <1>1, <1>2 DEF EntryFits, ErrorFits, OwnCallFits, PostCommitFits
<1> QED
  BY <1>3, <1>4, <1>5, <1>6 DEF IInv

LEMMA StepFits == IInv /\ [Next]_vars => IInv'
<1> SUFFICES ASSUME IInv, [Next]_vars PROVE IInv'
  OBVIOUS
<1>1. CASE TimePasses
  BY <1>1 DEF TimePasses, IInv, Types, TypeOK, EntryFits, ErrorFits, OwnCallFits, CommitFits,
     PostCommitFits, SuccessIsHonest, Swallowed, InLogic, Handled, Over, historyVars, NothingToCommit
<1>2. CASE UNCHANGED vars
  BY <1>2 DEF vars, IInv, Types, TypeOK, EntryFits, ErrorFits, OwnCallFits, CommitFits,
     PostCommitFits, SuccessIsHonest, Swallowed, InLogic, Handled, Over, NothingToCommit
<1> QED
  BY <1>1, <1>2, NewAttemptFits, LoopEndsFit, OperationFits, AppCommitsFit, AppRollsBackFit,
     LogicEndsFit, FinalizeFits, FinalizeCommitsFit, HandledFits DEF Next, RunStep

\* An attempt the service has committed is followed by another only where the
\* application has swallowed the error of its own commit.
LEMMA NoSecondCommit ==
    ASSUME IInv, Next, at' = "next", at # "next"
    PROVE  attempts \notin committed' \/ Swallowed
<1>1. HandledWithoutRollback \/ HandledWithRollback
  BY DEF Next, RunStep, NewAttempt, DelayTimesOut, AttemptsExhausted, RunIs, Finalize, FinalizeCommits,
     HandleError, HandledForeign, Raised, LogicEnds, LogicReturns, LogicThrows, OperationStages,
     QueryModeBegins, OperationFails, AppCommits, AppRollsBack, TimePasses
<1>2. at = "handle" /\ err.retry /\ committed' = committed
  <2>1. CASE HandledWithoutRollback
    BY <2>1 DEF HandledWithoutRollback, Raised, RunIs
  <2>2. CASE HandledWithRollback
    <3>1. PICK end \in RollbackEnds(cur) :
            /\ Becomes(end)
            /\ \/ Raised(end.cur)
               \/ RunIs("EXPIRY")
               \/ err.retry /\ Retried(end.cur)
      BY <2>2 DEF HandledWithRollback
    <3>2. end.commits = FALSE
      BY RollbackEndsFit DEF IInv, Types, TypeOK
    <3> QED
      BY <2>2, <3>1, <3>2 DEF HandledWithRollback, Raised, RunIs, Becomes
  <2> QED
    BY <1>1, <2>1, <2>2
<1> QED
  BY <1>2, KindsOfErrors DEF IInv, CommitFits, InLogic, Handled, Over, Raises

\* What an attempt leaves in the ATR is handed to cleanup where it is left.
LEMMA LeavesAndHands ==
    ASSUME IInv, Next, NEW a \in left' \ left
    PROVE  a \in handed' \/ cur'.state = "NOT_STARTED" \/ (outcome' \in Results /\ err = NoError)
<1> DEFINE Goal == a \in handed' \/ cur'.state = "NOT_STARTED" \/ (outcome' \in Results /\ err = NoError)
<1>1. \/ Finalize \/ FinalizeCommits
      \/ HandledWithoutRollback \/ HandledWithRollback \/ HandledForeign
  BY DEF Next, RunStep, NewAttempt, DelayTimesOut, AttemptsExhausted, LogicEnds, LogicReturns, LogicThrows,
     OperationStages, QueryModeBegins, OperationFails, AppCommits, AppRollsBack, TimePasses, historyVars
<1>2. ASSUME NEW c \in Attempt, EntryFits(c), Leaves(c), cur' = c, AddAttempt(c) PROVE Goal
  BY <1>2 DEF Leaves, AddAttempt, GoesToCleanup, EntryFits
<1>3. CASE Finalize
  BY <1>3 DEF Finalize, IInv, ErrorFits, RunIs, Result, Results
<1>4. CASE FinalizeCommits
  BY <1>4 DEF FinalizeCommits, IInv, ErrorFits, RunIs, Result, Results
<1>5. CASE HandledWithoutRollback
  BY <1>2, <1>5 DEF HandledWithoutRollback, Raised, Retried, IInv, Types, TypeOK
<1>6. CASE HandledWithRollback \/ HandledForeign
  <2>1. PICK end \in RollbackEnds(cur) :
          /\ Becomes(end) /\ Leaves(end.cur)
          /\ \/ AddAttempt(end.cur)
             \/ end.err = NoError
    <3>1. CASE HandledWithRollback
      BY <3>1 DEF HandledWithRollback, Raised
    <3>2. CASE HandledForeign
      BY <3>2 DEF HandledForeign, Raised
    <3> QED
      BY <1>6, <3>1, <3>2
  <2>2. /\ end.cur \in Attempt /\ EntryFits(end.cur)
        /\ end.err = NoError => ~end.cur.entry \/ end.cur.state = "NOT_STARTED"
    BY RollbackEndsFit DEF IInv, Types, TypeOK
  <2>3. cur' = end.cur
    BY <2>1 DEF Becomes
  <2> QED
    BY <1>2, <2>1, <2>2, <2>3 DEF Leaves
<1> QED
  BY <1>1, <1>3, <1>4, <1>5, <1>6

-----------------------------------------------------------------------------
(* Theorems *)

LEMMA Invariance == Spec => []IInv
BY InitFits, StepFits, PTL DEF Spec

\* The variables of the loop keep their types, for every number of attempts.
THEOREM TypeCorrect == Spec => []TypeOK
BY Invariance, PTL DEF IInv, Types

\* merge_errors keeps the strictest of what it is given: a rollback and a retry are left
\* only if every error of the attempt leaves them.
THEOREM MergedErrorsAreStrictest == Spec => []MergeIsConservative
<1>1. IInv => MergeIsConservative
  <2> SUFFICES ASSUME IInv, errs # <<>>
               PROVE  /\ MergeErrors(errs) \in Recorded
                      /\ MergeErrors(errs).rollback <=> \A e \in Recorded : e.rollback
                      /\ MergeErrors(errs).retry <=> \A e \in Recorded : e.retry
    BY DEF MergeIsConservative
  <2>1. errs \in Seq(Errors) /\ \A i \in DOMAIN errs : errs[i].retry => errs[i].rollback
    BY DescribedErrors DEF IInv, Types, TypeOK, Described
  <2>2. /\ \E i \in DOMAIN errs : MergeErrors(errs) = errs[i]
        /\ MergeErrors(errs).rollback <=> \A i \in DOMAIN errs : errs[i].rollback
        /\ MergeErrors(errs).retry <=> \A i \in DOMAIN errs : errs[i].retry
    BY <2>1, MergeErrorsIsConservative
  <2> QED
    BY <2>2 DEF Recorded
<1> QED
  BY <1>1, Invariance, PTL

\* What handle_error reports as failed or expired has not been committed, but for the two
\* exceptions FailureIsHonest names.
THEOREM FailuresAreHonest == Spec => []FailureIsHonest
<1>1. IInv => FailureIsHonest
  BY DEF IInv, Types, TypeOK, CommitFits, FailureIsHonest, Swallowed, InLogic, Handled, Over
<1> QED
  BY <1>1, Invariance, PTL

\* What run returns as a result has been committed, had nothing to commit, or is one of
\* the exceptions SuccessIsHonest names.
THEOREM SuccessesAreHonest == Spec => []SuccessIsHonest
BY Invariance, PTL DEF IInv

\* However many attempts there are, none follows one the service has committed.
THEOREM CommittedOnce == Spec => CommitsOnce
<1>1. IInv /\ [Next]_vars =>
        [(at' = "next" /\ at # "next") =>
            attempts \notin committed' \/ (called = "commit" /\ caught # NoError)]_vars
  BY NoSecondCommit DEF Swallowed
<1> QED
  BY <1>1, Invariance, PTL DEF Spec, CommitsOnce

\* However an attempt ends, what it leaves in the ATR is cleanup's to find.
THEOREM LeftoversAreKnown == Spec => LeftoversAreHanded
<1>1. IInv /\ [Next]_vars =>
        [\A a \in left' \ left :
            a \in handed' \/ cur'.state = "NOT_STARTED" \/ (outcome' \in Results /\ err = NoError)]_vars
  BY LeavesAndHands
<1> QED
  BY <1>1, Invariance, PTL DEF Spec, LeftoversAreHanded
===============================================================================
