---------------------------- MODULE Reads_proofs ----------------------------
(***************************************************************************)
(* A read gives what was there, for any number of documents, of reads, of  *)
(* rivals of any version, whatever their records ask for.                  *)
(*                                                                         *)
(* Between its requests the reader goes by what it has seen.  IInv says    *)
(* what that is still worth: as long as the attempt it has seen is pending *)
(* the document is as it was, so that the commit of that attempt, if there *)
(* is one, falls into the read; and an entry that was missing does not     *)
(* come back.                                                              *)
(***************************************************************************)
EXTENDS Reads, WellFoundedInduction, TLAPS

Reading(g) == at[g] \in {"start", "lookup", "atr"}

MayHaveCommitted == {"COMMITTED", "COMPLETED"}

\* A document is staged by an attempt with an entry, and inserted where there is none.
Sound(s) == s.by # None => entry[s.by] # "none" /\ (s.kind = "insert" => s.body = None)

StoreAgrees ==
    /\ entry[Me] \in {"none", "PENDING"}
    /\ \A d \in Docs : Sound(doc[d])

\* The history of a read that goes on has what the document is now.
ViewsAreKept == \A g \in Reads : Reading(g) => Views(on[g]) \subseteq valid[g]

\* What the reader may find out about the document it has seen is in that history.
Witnessed(g, s) ==
    /\ Sound(s)
    /\ s.by = Me /\ s.kind # "remove" => Me \in valid[g]
    /\ s.by \in Rivals =>
        /\ entry[s.by] = "PENDING" => doc[on[g]] = s
        /\ entry[s.by] \in MayHaveCommitted => Becomes(s) \in valid[g]
        /\ entry[s.by] \in {"PENDING", "ABORTED"} => s.body \in valid[g]

SeenAgrees == \A g \in Reads : at[g] = "atr" => Witnessed(g, saw[g])

\* An entry found missing is gone for good.
MissingIsGone ==
    \A g \in Reads : resolving[g] # None => entry[resolving[g]] = "gone" \/ g \in misread

IInv ==
    /\ TypeOK /\ StoreAgrees /\ ViewsAreKept /\ SeenAgrees /\ MissingIsGone
    /\ ReadsAreCurrent

-----------------------------------------------------------------------------
(* What forward_compat lets through *)

\* That this version of the protocol is the required one, or a later one.
Reached(r) == r.major < Supported.major \/ (r.major = Supported.major /\ r.minor <= Supported.minor)

\* A set of numbers has a least.
LEMMA Least ==
    ASSUME NEW T \in SUBSET Nat, T # {}
    PROVE  \E i \in T : \A j \in T : i <= j
<1> DEFINE below == OpToRel(<, Nat)
<1>1. PICK i \in T : \A j \in T : ~(<<j, i>> \in below)
  <2> HIDE DEF below
  <2>1. IsWellFoundedOn(below, Nat)
    BY NatLessThanWellFounded DEF below
  <2> QED
    BY <2>1, WFMin
<1>2. ASSUME NEW j \in T PROVE i <= j
  <2>1. ~(<<j, i>> \in below)
    BY <1>1
  <2>2. i \in Nat /\ j \in Nat
    OBVIOUS
  <2> QED
    BY <2>1, <2>2 DEF OpToRel
<1> QED
  BY <1>2

\* A client goes on only where it has all that is asked of it at that stage: check is
\* never more lenient than the order of versions.  (It is stricter: 1.1 counts as later
\* than 2.0.)
THEOREM CheckIsStrict ==
    ASSUME NEW record \in Records, NEW stage \in Stages, Check(stage, record) = "CONTINUE"
    PROVE  \A i \in DOMAIN record[stage] :
              LET r == record[stage][i] IN
              IF r.kind = "protocol" THEN Reached(r) ELSE r.known
<1> DEFINE list  == record[stage]
           unmet == {i \in DOMAIN list : ~IsMet(list[i])}
           first == {i \in unmet : \A j \in unmet : i <= j}
<1>1. list \in Seq(Requirements)
  BY DEF Records
<1>2. first = {}
  <2> SUFFICES ASSUME first # {} PROVE FALSE
    OBVIOUS
  <2> DEFINE least == CHOOSE i \in first : TRUE
  <2>1. least \in DOMAIN list
    OBVIOUS
  <2>2. Check(stage, record) = list[least].behavior
    BY DEF Check
  <2> HIDE DEF least
  <2>3. list[least] \in Requirements
    BY <1>1, <2>1
  <2>4. list[least].behavior \in Behaviors
    BY <2>3 DEF Requirements, Protocols, Extensions
  <2> QED
    BY <2>2, <2>4 DEF Behaviors
<1>3. unmet = {}
  <2>1. unmet \in SUBSET Nat
    BY <1>1
  <2> HIDE DEF unmet
  <2> QED
    BY <1>2, <2>1, Least
<1>4. ASSUME NEW i \in DOMAIN list PROVE IF list[i].kind = "protocol" THEN Reached(list[i]) ELSE list[i].known
  <2>1. list[i] \in Requirements /\ IsMet(list[i])
    BY <1>1, <1>3, <1>4
  <2> QED
    BY <2>1 DEF IsMet, ProtocolMet, Reached, Requirements, Protocols, Extensions, Supported
<1> QED
  BY <1>4

\* check gives one of three answers, and CONTINUE for who asks for nothing.
LEMMA VerdictAnswers ==
    ASSUME NEW stage \in Stages, NEW a, NEW there \in [Newer -> Records]
    PROVE  /\ Verdict(stage, a, there) \in Behaviors \cup {"CONTINUE"}
           /\ a \notin Newer => Verdict(stage, a, there) = "CONTINUE"
<1> DEFINE record == IF a \in Newer THEN there[a] ELSE NoRecord
           list   == record[stage]
           unmet  == {i \in DOMAIN list : ~IsMet(list[i])}
           first  == {i \in unmet : \A j \in unmet : i <= j}
<1>1. NoRecord \in Records /\ NoRecord[stage] = <<>>
  BY DEF NoRecord, Records
<1>2. list \in Seq(Requirements)
  BY <1>1 DEF Records
<1>3. Verdict(stage, a, there)
        = IF first = {} THEN "CONTINUE" ELSE list[CHOOSE i \in first : TRUE].behavior
  BY DEF Verdict, Check
<1>4. first # {} => list[CHOOSE i \in first : TRUE] \in Requirements
  <2> SUFFICES ASSUME first # {} PROVE list[CHOOSE i \in first : TRUE] \in Requirements
    OBVIOUS
  <2> DEFINE least == CHOOSE i \in first : TRUE
  <2>1. least \in DOMAIN list
    OBVIOUS
  <2> HIDE DEF least
  <2>2. list[least] \in Requirements
    BY <1>2, <2>1
  <2> QED
    BY <2>2 DEF least
<1>5. a \notin Newer => first = {}
  BY <1>1
<1> HIDE DEF list, first
<1> QED
  BY <1>3, <1>4, <1>5 DEF Requirements, Protocols, Extensions

-----------------------------------------------------------------------------
(* The store in one step *)

EntryMoves(a) ==
    \/ entry'[a] = entry[a]
    \/ entry[a] = "none" /\ entry'[a] = "PENDING"
    \/ a \in Rivals /\ entry[a] = "PENDING" /\ entry'[a] \in {"COMMITTED", "ABORTED", "gone"}
    \/ a \in Rivals /\ entry[a] = "COMMITTED" /\ entry'[a] = "COMPLETED"
    \/ a \in Rivals /\ entry[a] \in {"COMMITTED", "ABORTED", "COMPLETED"} /\ entry'[a] = "gone"

\* A document is staged when it is free or its attempt is gone, and unstaged when its
\* attempt has decided.
DocMoves(d) ==
    \/ doc'[d] = doc[d]
    \/ /\ doc[d].by = None \/ entry[doc[d].by] = "gone"
       /\ doc'[d].by \in Attempts /\ entry'[doc'[d].by] = "PENDING"
       /\ doc'[d].kind = "insert" => doc'[d].body = None
    \/ /\ doc[d].by \in Rivals /\ entry[doc[d].by] \in {"COMMITTED", "ABORTED"}
       /\ doc'[d].by = None

LEMMA StagingMoves ==
    ASSUME doc \in [Docs -> Document], NEW a \in Attempts, NEW d \in Docs, NEW k \in Kinds,
           StagesOn(a, d, k), entry'[a] = "PENDING"
    PROVE  /\ doc' \in [Docs -> Document]
           /\ \A e \in Docs : DocMoves(e)
           /\ \A e \in Docs : doc'[e] = doc[e] \/ (doc'[e].by # None /\ doc'[e].kind # "none")
<1>1. doc[d] \in Document /\ doc'[d] = [body |-> doc[d].body, by |-> a, kind |-> k]
  BY DEF StagesOn
<1>2. \A e \in Docs : e # d => doc'[e] = doc[e]
  BY DEF StagesOn
<1>3. doc' \in [Docs -> Document]
  BY <1>1 DEF StagesOn, Document
<1>4. k = "insert" => doc[d].body = None
  BY DEF StagesOn
<1>5. doc[d].by = None \/ entry[doc[d].by] = "gone"
  BY DEF StagesOn
<1>6. a # None /\ k # "none"
  BY ReadsAssumption DEF Attempts, Kinds
<1>7. QED
  BY <1>1, <1>2, <1>3, <1>4, <1>5, <1>6 DEF DocMoves

LEMMA StoreMoves ==
    ASSUME TypeOK, StoreAgrees, [Next]_vars
    PROVE  /\ doc' \in [Docs -> Document]
           /\ \A d \in Docs : (doc'[d].by = None) <=> (doc'[d].kind = "none")
           /\ \A d \in Docs : DocMoves(d)
           /\ entry' \in [Attempts -> {"none", "PENDING", "COMMITTED", "ABORTED", "COMPLETED", "gone"}]
           /\ \A a \in Attempts : EntryMoves(a)
<1> DEFINE Conclusion ==
           /\ doc' \in [Docs -> Document]
           /\ \A d \in Docs : (doc'[d].by = None) <=> (doc'[d].kind = "none")
           /\ \A d \in Docs : DocMoves(d)
           /\ entry' \in [Attempts -> {"none", "PENDING", "COMMITTED", "ABORTED", "COMPLETED", "gone"}]
           /\ \A a \in Attempts : EntryMoves(a)
<1> USE DEF TypeOK
<1>1. ASSUME NEW d \in Docs, NEW k \in Kinds, OwnStages(d, k) PROVE Conclusion
  <2>1. entry' = [entry EXCEPT ![Me] = "PENDING"] /\ Me \in Attempts
    BY <1>1 DEF OwnStages, Attempts
  <2>2. \A a \in Attempts : EntryMoves(a)
    BY <2>1 DEF EntryMoves, StoreAgrees
  <2>3. QED
    BY <1>1, <2>1, <2>2, StagingMoves DEF OwnStages
<1>2. ASSUME NEW r \in Rivals, NEW d \in Docs, NEW k \in Kinds, RivalStages(r, d, k) PROVE Conclusion
  <2>1. entry' = entry /\ r \in Attempts /\ entry[r] = "PENDING"
    BY <1>2 DEF RivalStages, Attempts
  <2>2. QED
    BY <1>2, <2>1, StagingMoves DEF RivalStages, EntryMoves
<1>3. ASSUME NEW r \in Rivals, NEW d \in Docs, Unstages(r, d) PROVE Conclusion
  <2>1. doc[d] \in Document /\ Committed(doc[d]) \in Values /\ entry' = entry
    BY <1>3 DEF Unstages, Document, Committed, Becomes, Values
  <2>2. Free(Committed(doc[d])) \in Document
    BY <2>1 DEF Free, Document
  <2>3. doc' = [doc EXCEPT ![d] = Free(Committed(doc[d]))]
    BY <1>3 DEF Unstages
  <2>4. \A e \in Docs : DocMoves(e)
    BY <1>3, <2>3 DEF Unstages, DocMoves, Free
  <2>5. \A e \in Docs : (doc'[e].by = None) <=> (doc'[e].kind = "none")
    BY <2>3 DEF Free
  <2>6. QED
    BY <2>1, <2>2, <2>3, <2>4, <2>5 DEF EntryMoves
<1>4. ASSUME NEW r \in Rivals, Begins(r) \/ Completes(r) \/ RemovesEntry(r)
                               \/ (\E s \in {"COMMITTED", "ABORTED"} : Decides(r, s))
      PROVE  Conclusion
  BY <1>4 DEF Begins, Completes, RemovesEntry, Decides, DocMoves, EntryMoves, Attempts
<1>5. CASE UNCHANGED <<doc, entry>>
  BY <1>5 DEF DocMoves, EntryMoves
<1>6. QED
  BY <1>1, <1>2, <1>3, <1>4, <1>5 DEF Next, Step, ReadStep, Call, DoGet, LookedUp, ReadsAtr, OwnStaged,
     Expires, vars

\* A mutation of the reader's own attempt stays where it is.
LEMMA OwnStays ==
    ASSUME TypeOK, StoreAgrees, [Next]_vars, NEW d \in Docs, doc[d].by = Me
    PROVE  doc'[d] = doc[d]
BY StoreMoves, ReadsAssumption DEF StoreAgrees, DocMoves

LEMMA StoreStaysAgreed ==
    ASSUME TypeOK, StoreAgrees, [Next]_vars
    PROVE  StoreAgrees'
<1>1. entry'[Me] \in {"none", "PENDING"}
  BY StoreMoves, ReadsAssumption DEF StoreAgrees, EntryMoves, Attempts
<1>2. ASSUME NEW d \in Docs PROVE Sound(doc[d])'
  <2>1. DocMoves(d) /\ doc[d].by \in Attempts \cup {None} /\ doc'[d].by \in Attempts \cup {None}
    BY StoreMoves DEF TypeOK, Document
  <2>2. \A a \in Attempts : entry[a] # "none" => entry'[a] # "none"
    BY StoreMoves DEF EntryMoves
  <2>3. Sound(doc[d])
    BY DEF StoreAgrees
  <2>4. QED
    BY <2>1, <2>2, <2>3 DEF DocMoves, Sound
<1>3. QED
  BY <1>1, <1>2 DEF StoreAgrees

-----------------------------------------------------------------------------
(* The reader in one step *)

Results == Values \cup {Empty, "failed", "retry"}

\* A read ends with the value it has come to, with none, or with an error.
EndsWith(g, v) ==
    /\ at' = [at EXCEPT ![g] = "done"]
    /\ result' = [result EXCEPT ![g] = v]

LEMMA EndsOnce ==
    ASSUME NEW g \in Reads, NEW value \in Results, Ends(g, value)
    PROVE  \E v \in Results : EndsWith(g, v) /\ v \in {value, "failed"}
BY DEF Ends, EndsWith, Results

LEMMA ReturnsOnce ==
    ASSUME NEW g \in Reads, NEW value \in Values \cup {Empty}, NEW links, Returns(g, value, links)
    PROVE  /\ \E v \in Results : EndsWith(g, v) /\ v \in {value, "failed", "retry"}
<1> DEFINE verdict == IF value = None THEN "CONTINUE" ELSE Verdict("G", links.by, InLinks)
           given   == CASE verdict = "CONTINUE"      -> value
                        [] verdict = "RETRY_TXN"     -> "retry"
                        [] verdict = "FAIL_FAST_TXN" -> "failed"
<1>1. verdict \in {"CONTINUE", "RETRY_TXN", "FAIL_FAST_TXN"}
  BY VerdictAnswers, ReadsAssumption DEF Behaviors, Stages
<1>2. Ends(g, given)
  BY DEF Returns
<1> HIDE DEF verdict
<1>3. given \in {value, "failed", "retry"} /\ given \in Results
  BY <1>1 DEF Results
<1> HIDE DEF given
<1>4. QED
  BY <1>2, <1>3, EndsOnce

\* What the answer to get_doc, and that to get_atr, make of a read.
LooksFurther(g) ==
    /\ doc[on[g]].by # None
    /\ at' = [at EXCEPT ![g] = "atr"] /\ saw' = [saw EXCEPT ![g] = doc[on[g]]]
    /\ resolving' = [resolving EXCEPT ![g] = None]
    /\ UNCHANGED <<result, faults>>

LEMMA LookedUpMoves ==
    ASSUME TypeOK, StoreAgrees, NEW g \in Reads, LookedUp(g)
    PROVE  \/ LooksFurther(g)
           \/ /\ UNCHANGED saw /\ resolving' = [resolving EXCEPT ![g] = None]
              /\ faults' \in {faults, faults + 1}
              /\ \E v \in Results : EndsWith(g, v) /\ v \in {doc[on[g]].body, "failed", "retry"}
                   /\ (v = doc[on[g]].body =>
                         v = "failed" \/ doc[on[g]].by = None \/ doc[on[g]].by = resolving[g])
<1> DEFINE s == doc[on[g]]
<1>1. s \in Document /\ s.body \in Values /\ Sound(s)
  BY DEF TypeOK, Document, StoreAgrees
<1>2. IsLost(g, s) => Lost(s) = s.body
  BY <1>1 DEF Sound, Lost, IsLost
<1>3. CASE IsLost(g, s) /\ Returns(g, Lost(s), s) /\ UNCHANGED <<saw, faults>>
  <2>1. s.by = resolving[g] /\ Returns(g, s.body, s)
    BY <1>2, <1>3 DEF IsLost
  <2>2. \E v \in Results : EndsWith(g, v) /\ v \in {s.body, "failed", "retry"}
    BY <1>1, <2>1, ReturnsOnce
  <2>3. QED
    BY <1>3, <2>1, <2>2 DEF LookedUp
<1>4. CASE s.by = None /\ Ends(g, s.body) /\ UNCHANGED <<saw, faults>>
  <2>1. \E v \in Results : EndsWith(g, v) /\ v \in {s.body, "failed"}
    BY <1>1, <1>4, EndsOnce DEF Results
  <2>2. QED
    BY <1>4, <2>1 DEF LookedUp
<1>5. CASE s.by # None /\ saw' = [saw EXCEPT ![g] = s] /\ at' = [at EXCEPT ![g] = "atr"]
           /\ UNCHANGED <<result, faults>>
  BY <1>5 DEF LookedUp, LooksFurther
<1>6. CASE faults' = faults + 1 /\ Ends(g, "failed") /\ UNCHANGED saw
  <2>1. \E v \in Results : EndsWith(g, v) /\ v = "failed"
    BY <1>6, EndsOnce DEF Results
  <2>2. QED
    BY <1>6, <2>1 DEF LookedUp
<1>7. QED
  BY <1>3, <1>4, <1>5, <1>6 DEF LookedUp

Finds(g) ==
    /\ entry[saw[g].by] \notin {"none", "gone"}
    /\ \E v \in Results : EndsWith(g, v) /\ v \in {Resolved(saw[g]), "failed", "retry"}
    /\ indirect' = IF saw[g].by = Me THEN indirect \cup {g} ELSE indirect
    /\ UNCHANGED <<resolving, misread, faults>>

Misses(g) ==
    /\ at' = [at EXCEPT ![g] = "start"]
    /\ resolving' = [resolving EXCEPT ![g] = saw[g].by]
    /\ \/ entry[saw[g].by] \in {"none", "gone"} /\ UNCHANGED <<misread, faults>>
       \/ misread' = misread \cup {g} /\ faults' = faults + 1
    /\ UNCHANGED <<result, indirect>>

LEMMA ReadsAtrMoves ==
    ASSUME TypeOK, NEW g \in Reads, ReadsAtr(g)
    PROVE  Finds(g) \/ Misses(g)
<1> DEFINE s == saw[g]
<1>1. s \in Document /\ s.by # None
  BY DEF ReadsAtr, TypeOK
<1>2. Resolved(s) \in Values \cup {Empty}
  BY <1>1 DEF Resolved, Becomes, Lost, Document, Values, Attempts
<1>3. CASE /\ entry[s.by] \notin {"none", "gone"}
           /\ IF Verdict("G_A", s.by, InEntry) = "CONTINUE"
              THEN Returns(g, Resolved(s), s)
              ELSE Ends(g, "failed")
           /\ indirect' = IF s.by = Me THEN indirect \cup {g} ELSE indirect
           /\ UNCHANGED <<resolving, misread, faults>>
  <2>1. CASE Returns(g, Resolved(s), s)
    <3>1. \E v \in Results : EndsWith(g, v) /\ v \in {Resolved(s), "failed", "retry"}
      BY <1>2, <2>1, ReturnsOnce
    <3>2. QED
      BY <1>3, <3>1 DEF Finds
  <2>2. CASE Ends(g, "failed")
    <3>1. \E v \in Results : EndsWith(g, v) /\ v = "failed"
      BY <2>2, EndsOnce DEF Results
    <3>2. QED
      BY <1>3, <3>1 DEF Finds
  <2>3. QED
    BY <1>3, <2>1, <2>2
<1>4. CASE /\ resolving' = [resolving EXCEPT ![g] = s.by]
           /\ at' = [at EXCEPT ![g] = "start"]
           /\ \/ entry[s.by] \in {"none", "gone"} /\ UNCHANGED <<misread, faults>>
              \/ /\ faults < MaxFaults /\ faults' = faults + 1
                 /\ misread' = misread \cup {g}
           /\ UNCHANGED <<result, indirect>>
  BY <1>4 DEF Misses
<1>5. QED
  BY <1>3, <1>4 DEF ReadsAtr

LEMMA DoGetMoves ==
    ASSUME TypeOK, NEW g \in Reads, DoGet(g)
    PROVE  \/ at' = [at EXCEPT ![g] = "lookup"] /\ UNCHANGED result
           \/ \E v \in Results : EndsWith(g, v) /\ v \in {OwnWrite(on[g]), "failed"}
                                 /\ (v = OwnWrite(on[g]) => mine[on[g]] # "none" \/ v = "failed")
<1>1. mine[on[g]] \in Kinds \cup {"none"}
  BY DEF TypeOK
<1>2. CASE expired /\ Ends(g, "failed")
  <2>1. \E v \in Results : EndsWith(g, v) /\ v = "failed"
    BY <1>2, EndsOnce DEF Results
  <2>2. QED
    BY <2>1
<1>3. CASE OwnWrite(on[g]) # "unknown" /\ Ends(g, OwnWrite(on[g]))
  <2>1. mine[on[g]] # "none" /\ OwnWrite(on[g]) \in {Me, None}
    BY <1>1, <1>3 DEF OwnWrite, Kinds
  <2>2. \E v \in Results : EndsWith(g, v) /\ v \in {OwnWrite(on[g]), "failed"}
    BY <1>3, <2>1, EndsOnce DEF Results, Values, Attempts
  <2>3. QED
    BY <2>1, <2>2
<1>4. QED
  BY <1>2, <1>3 DEF DoGet

\* What a step does to one read.
Untouched(g) ==
    /\ at'[g] = at[g] /\ on'[g] = on[g] /\ saw'[g] = saw[g]
    /\ resolving'[g] = resolving[g] /\ result'[g] = result[g]

IsCalled(g) ==
    /\ at[g] = "idle" /\ at'[g] = "start" /\ saw'[g] = saw[g]
    /\ resolving'[g] = resolving[g] /\ result'[g] = result[g]

LEMMA ReaderMoves ==
    ASSUME TypeOK, StoreAgrees, [Next]_vars, NEW g \in Reads
    PROVE  /\ misread \subseteq misread' /\ indirect \subseteq indirect'
           /\ Untouched(g) \/ IsCalled(g) \/ ReadStep(g)
<1> DEFINE Conclusion == /\ misread \subseteq misread' /\ indirect \subseteq indirect'
                         /\ Untouched(g) \/ IsCalled(g) \/ ReadStep(g)
<1> USE DEF TypeOK
<1>1. ASSUME NEW h \in Reads, NEW d \in Docs, Call(h, d) PROVE Conclusion
  BY <1>1 DEF Call, Untouched, IsCalled
<1>2. ASSUME NEW h \in Reads, DoGet(h) PROVE Conclusion
  <2>1. CASE h = g
    BY <1>2, <2>1 DEF DoGet, ReadStep
  <2>2. CASE h # g
    BY <1>2, <2>2, DoGetMoves DEF DoGet, Untouched, EndsWith
  <2>3. QED
    BY <2>1, <2>2
<1>3. ASSUME NEW h \in Reads, LookedUp(h) PROVE Conclusion
  <2>1. UNCHANGED <<on, misread, indirect>>
    BY <1>3 DEF LookedUp
  <2>2. CASE h = g
    BY <1>3, <2>1, <2>2 DEF ReadStep
  <2>3. CASE h # g
    BY <1>3, <2>1, <2>3, LookedUpMoves DEF Untouched, EndsWith, LooksFurther
  <2>4. QED
    BY <2>2, <2>3
<1>4. ASSUME NEW h \in Reads, ReadsAtr(h) PROVE Conclusion
  <2>1. UNCHANGED on /\ saw' = [saw EXCEPT ![h] = Free(None)]
    BY <1>4 DEF ReadsAtr
  <2>2. misread \subseteq misread' /\ indirect \subseteq indirect'
    BY <1>4, ReadsAtrMoves DEF Finds, Misses
  <2>3. CASE h = g
    BY <1>4, <2>2, <2>3 DEF ReadStep
  <2>4. CASE h # g
    BY <1>4, <2>1, <2>2, <2>4, ReadsAtrMoves DEF Untouched, EndsWith, Finds, Misses
  <2>5. QED
    BY <2>3, <2>4
<1>5. CASE UNCHANGED readVars
  BY <1>5 DEF readVars, Untouched
<1>6. QED
  BY <1>1, <1>2, <1>3, <1>4, <1>5 DEF Next, Step, ReadStep, OwnStages, OwnStaged, Begins, RivalStages,
     Decides, Unstages, Completes, RemovesEntry, Expires, Elsewhere, vars

-----------------------------------------------------------------------------
(* The invariant *)

ReaderTypes ==
    /\ mine \in [Docs -> Kinds \cup {"none"}]
    /\ at \in [Reads -> {"idle", "start", "lookup", "atr", "done"}]
    /\ on \in [Reads -> Docs]
    /\ saw \in [Reads -> Document]
    /\ \A g \in Reads : at[g] = "atr" => saw[g].by # None
    /\ resolving \in [Reads -> Attempts \cup {None}]
    /\ result \in [Reads -> Values \cup {Empty, "failed", "retry", "open"}]
    /\ \A g \in Reads : (result[g] # "open") <=> (at[g] = "done")
    /\ expired \in BOOLEAN /\ faults \in Nat
    /\ indirect \in SUBSET Reads /\ misread \in SUBSET Reads

LEMMA EndTypes ==
    ASSUME TypeOK, NEW g \in Reads, at[g] # "done", NEW v \in Results, EndsWith(g, v)
    PROVE  /\ at' \in [Reads -> {"idle", "start", "lookup", "atr", "done"}]
           /\ result' \in [Reads -> Values \cup {Empty, "failed", "retry", "open"}]
           /\ \A h \in Reads : (result'[h] # "open") <=> (at'[h] = "done")
           /\ \A h \in Reads : at'[h] = "atr" => at[h] = "atr" /\ h # g
<1>1. v # "open"
  BY ReadsAssumption DEF Results, Values, Attempts
<1>2. QED
  BY <1>1 DEF TypeOK, EndsWith, Results

LEMMA ReaderTypesHold ==
    ASSUME TypeOK, StoreAgrees, [Next]_vars
    PROVE  ReaderTypes'
<1> USE DEF TypeOK, ReaderTypes
<1>0. Free(None) \in Document
  BY DEF Free, Document, Values
<1>1. ASSUME NEW h \in Reads, NEW d \in Docs, Call(h, d) PROVE ReaderTypes'
  BY <1>1 DEF Call
<1>2. ASSUME NEW h \in Reads, DoGet(h) PROVE ReaderTypes'
  <2>1. at[h] = "start" /\ UNCHANGED <<mine, on, saw, resolving, indirect, misread, expired, faults>>
    BY <1>2 DEF DoGet
  <2>2. CASE at' = [at EXCEPT ![h] = "lookup"] /\ UNCHANGED result
    BY <2>1, <2>2
  <2>3. CASE \E v \in Results : EndsWith(h, v)
    BY <2>1, <2>3, EndTypes
  <2>4. QED
    BY <1>2, <2>2, <2>3, DoGetMoves
<1>3. ASSUME NEW h \in Reads, LookedUp(h) PROVE ReaderTypes'
  <2>1. at[h] = "lookup" /\ UNCHANGED <<mine, on, indirect, misread, expired>>
    BY <1>3 DEF LookedUp
  <2>2. CASE LooksFurther(h)
    BY <2>1, <2>2 DEF LooksFurther
  <2>3. CASE /\ UNCHANGED saw /\ resolving' = [resolving EXCEPT ![h] = None]
             /\ faults' \in {faults, faults + 1}
             /\ \E v \in Results : EndsWith(h, v)
    BY <2>1, <2>3, EndTypes
  <2>4. QED
    BY <1>3, <2>2, <2>3, LookedUpMoves
<1>4. ASSUME NEW h \in Reads, ReadsAtr(h) PROVE ReaderTypes'
  <2>1. at[h] = "atr" /\ saw' = [saw EXCEPT ![h] = Free(None)] /\ UNCHANGED <<mine, on, expired>>
    BY <1>4 DEF ReadsAtr
  <2>2. saw[h].by \in Attempts
    BY <2>1 DEF Document
  <2>3. CASE Finds(h)
    <3>1. PICK v \in Results : EndsWith(h, v)
      BY <2>3 DEF Finds
    <3>2. QED
      BY <1>0, <2>1, <2>3, <3>1, EndTypes DEF Finds
  <2>4. CASE Misses(h)
    BY <1>0, <2>1, <2>2, <2>4 DEF Misses
  <2>5. QED
    BY <1>4, <2>3, <2>4, ReadsAtrMoves
<1>5. ASSUME NEW d \in Docs, OwnStaged(d) PROVE ReaderTypes'
  <2>1. doc[d].kind \in Kinds \cup {"none"}
    BY DEF Document
  <2>2. QED
    BY <1>5, <2>1 DEF OwnStaged, readVars
<1>6. CASE Expires
  BY <1>6 DEF Expires, readVars
<1>7. CASE UNCHANGED <<mine, readVars, expired, faults>>
  BY <1>7 DEF readVars
<1>8. QED
  BY <1>1, <1>2, <1>3, <1>4, <1>5, <1>6, <1>7 DEF Next, Step, ReadStep, OwnStages, Begins, RivalStages,
     Decides, Unstages, Completes, RemovesEntry, Elsewhere, vars

LEMMA MineStays ==
    ASSUME TypeOK, StoreAgrees, [Next]_vars, NEW d \in Docs, mine'[d] # "none"
    PROVE  doc'[d].by = Me /\ doc'[d].kind = mine'[d]
<1>1. ASSUME NEW e \in Docs, OwnStaged(e) PROVE doc'[d].by = Me /\ doc'[d].kind = mine'[d]
  BY <1>1 DEF OwnStaged, TypeOK
<1>2. CASE UNCHANGED mine
  <2>1. doc[d].by = Me /\ doc[d].kind = mine[d]
    BY <1>2 DEF TypeOK
  <2>2. QED
    BY <1>2, <2>1, OwnStays
<1>3. QED
  BY <1>1, <1>2 DEF Next, Step, ReadStep, Call, DoGet, LookedUp, ReadsAtr, OwnStages, Begins, RivalStages,
     Decides, Unstages, Completes, RemovesEntry, Elsewhere, Expires, vars

\* What Observes adds to the history of a read that goes on.
LEMMA HistoryGrows ==
    ASSUME TypeOK, StoreAgrees, [Next]_vars, NEW g \in Reads
    PROVE  /\ valid[g] \subseteq valid'[g]
           /\ at'[g] = "done" => valid'[g] = valid[g]
           /\ Next => \A d \in Docs : Reading(g)' /\ d = on'[g] => Views(d)' \subseteq valid'[g]
<1>1. CASE Next
  <2>1. valid'[g] = IF at'[g] \notin {"start", "lookup", "atr"} THEN valid[g]
                    ELSE valid[g] \cup UNION {Views(d) \cup Views(d)' : d \in {on'[g]}}
    BY <1>1 DEF Next, Observes
  <2>2. QED
    BY <2>1 DEF Reading
<1>2. CASE UNCHANGED vars /\ ~Next
  BY <1>2 DEF vars
<1>3. QED
  BY <1>1, <1>2

LEMMA ViewsAreValues ==
    ASSUME TypeOK, NEW d \in Docs
    PROVE  Views(d) \subseteq Values
<1>1. doc[d] \in Document /\ {Me, None} \subseteq Values
  BY DEF TypeOK, Values, Attempts
<1>2. Committed(doc[d]) \in Values /\ Becomes(doc[d]) \in Values
  BY <1>1 DEF Committed, Becomes, Document, Values
<1>3. QED
  BY <1>1, <1>2 DEF Views, Document

LEMMA TypesHold ==
    ASSUME TypeOK, StoreAgrees, [Next]_vars
    PROVE  TypeOK'
<1>1. ReaderTypes' /\ doc' \in [Docs -> Document]
  BY ReaderTypesHold, StoreMoves
<1>2. valid' \in [Reads -> SUBSET Values]
  <2>1. CASE Next
    <3>1. ASSUME NEW d \in Docs PROVE Views(d) \cup Views(d)' \subseteq Values
      <4>1. {Me, None} \subseteq Values /\ doc'[d] \in Document
        BY <1>1 DEF Values, Attempts
      <4>2. Committed(doc[d])' \in Values /\ Becomes(doc[d])' \in Values
        BY <4>1 DEF Committed, Becomes, Document, Values
      <4>3. Views(d)' \subseteq Values
        BY <4>1, <4>2 DEF Views, Document
      <4>4. QED
        BY <4>3, ViewsAreValues
    <3>2. \A g \in Reads : on'[g] \in Docs
      BY <1>1 DEF ReaderTypes
    <3>3. \A g \in Reads : UNION {Views(d) \cup Views(d)' : d \in {on'[g]}} \subseteq Values
      BY <3>1, <3>2
    <3>4. QED
      BY <2>1, <3>3 DEF Next, Observes, TypeOK
  <2>2. CASE UNCHANGED vars
    BY <2>2 DEF vars, TypeOK
  <2>3. QED
    BY <2>1, <2>2
<1>3. QED
  BY <1>1, <1>2, StoreMoves, MineStays DEF TypeOK, ReaderTypes

LEMMA ViewsStayKept ==
    ASSUME TypeOK, StoreAgrees, ViewsAreKept, [Next]_vars
    PROVE  ViewsAreKept'
<1>1. CASE Next
  <2> SUFFICES ASSUME NEW g \in Reads, Reading(g)' PROVE (Views(on[g]) \subseteq valid[g])'
    BY DEF ViewsAreKept
  <2>1. PICK d \in Docs : d = on'[g]
    BY TypesHold DEF TypeOK
  <2>2. Views(d)' \subseteq valid'[g]
    BY <1>1, <2>1, HistoryGrows
  <2>3. QED
    BY <2>1, <2>2 DEF Views, Committed, Becomes
<1>2. CASE UNCHANGED vars
  BY <1>2 DEF ViewsAreKept, Reading, Views, Committed, Becomes, vars, readVars
<1>3. QED
  BY <1>1, <1>2

\* What a reader has witnessed of a document, it has witnessed for the rest of the read:
\* the attempt it has seen commits, if it does, while the read goes on.
LEMMA WitnessedForGood ==
    ASSUME TypeOK, StoreAgrees, ViewsAreKept, [Next]_vars, NEW g \in Reads,
           at'[g] = "atr", on'[g] = on[g], NEW s \in Document, Witnessed(g, s)
    PROVE  Witnessed(g, s)'
<1>1. valid[g] \subseteq valid'[g]
  BY HistoryGrows
<1>2. Views(on[g])' \subseteq valid'[g]
  <2>1. ViewsAreKept' /\ Reading(g)'
    BY ViewsStayKept DEF Reading
  <2>2. QED
    BY <2>1 DEF ViewsAreKept
<1>3. s.by \in Attempts \cup {None}
  BY DEF Document
<1>4. Sound(s)'
  BY <1>3, StoreMoves DEF Witnessed, Sound, EntryMoves
<1>5. ASSUME s.by \in Rivals
      PROVE  /\ entry'[s.by] = "PENDING" => doc'[on[g]] = s
             /\ entry'[s.by] \in MayHaveCommitted => Becomes(s) \in valid'[g]
             /\ entry'[s.by] \in {"PENDING", "ABORTED"} => s.body \in valid'[g]
  <2>1. s.by \in Attempts /\ s.by # None /\ s.by # Me /\ on[g] \in Docs
    BY <1>5, ReadsAssumption DEF Attempts, TypeOK
  <2>2. entry[s.by] # "none"
    BY <2>1 DEF Witnessed, Sound
  <2>3. EntryMoves(s.by) /\ DocMoves(on[g])
    BY <2>1, StoreMoves
  <2>4. CASE entry[s.by] = "PENDING"
    <3>1. doc[on[g]] = s /\ s.body \in valid'[g]
      BY <1>1, <1>5, <2>4 DEF Witnessed
    <3>2. doc'[on[g]] = s
      BY <2>1, <2>3, <2>4, <3>1 DEF DocMoves
    <3>3. entry'[s.by] \in MayHaveCommitted => Becomes(s) \in Views(on[g])'
      BY <2>1, <3>2, TypesHold DEF Views, Committed, Becomes, MayHaveCommitted, TypeOK
    <3>4. QED
      BY <1>2, <3>1, <3>2, <3>3
  <2>5. CASE entry[s.by] # "PENDING"
    <3>1. /\ entry'[s.by] # "PENDING"
          /\ entry'[s.by] \in MayHaveCommitted => entry[s.by] \in MayHaveCommitted
          /\ entry'[s.by] = "ABORTED" => entry[s.by] = "ABORTED"
      BY <2>2, <2>3, <2>5 DEF EntryMoves, MayHaveCommitted
    <3>2. QED
      BY <1>1, <1>5, <3>1 DEF Witnessed
  <2>6. QED
    BY <2>4, <2>5
<1>6. QED
  BY <1>1, <1>4, <1>5 DEF Witnessed, Becomes

LEMMA SeenStaysAgreed ==
    ASSUME TypeOK, StoreAgrees, ViewsAreKept, SeenAgrees, [Next]_vars
    PROVE  SeenAgrees'
<1> SUFFICES ASSUME NEW g \in Reads, at'[g] = "atr" PROVE Witnessed(g, saw[g])'
  BY DEF SeenAgrees
<1>1. CASE Untouched(g)
  <2>1. Witnessed(g, saw[g]) /\ saw[g] \in Document
    BY <1>1 DEF SeenAgrees, Untouched, TypeOK
  <2>2. PICK s \in Document : s = saw[g]
    BY <2>1
  <2>3. Witnessed(g, s)'
    BY <1>1, <2>1, <2>2, WitnessedForGood DEF Untouched
  <2>4. QED
    BY <1>1, <2>2, <2>3 DEF Untouched, Witnessed, Sound, Becomes
<1>2. CASE IsCalled(g)
  BY <1>2 DEF IsCalled
<1>3. CASE DoGet(g) \/ ReadsAtr(g)
  BY <1>3, DoGetMoves, ReadsAtrMoves DEF EndsWith, Finds, Misses, TypeOK
<1>4. CASE LookedUp(g)
  <2>1. LooksFurther(g) /\ UNCHANGED <<doc, entry, mine, on>> /\ at[g] = "lookup"
    BY <1>4, LookedUpMoves DEF EndsWith, TypeOK, LookedUp
  <2>2. PICK s \in Document : s = doc[on[g]] /\ s = saw'[g] /\ s.by # None
    BY <2>1 DEF LooksFurther, TypeOK
  <2>3. Views(on[g]) \subseteq valid[g] /\ Sound(s) /\ on[g] \in Docs
    <3>1. on[g] \in Docs
      BY DEF TypeOK
    <3>2. Sound(doc[on[g]])
      BY <3>1 DEF StoreAgrees
    <3>3. Reading(g)
      BY <2>1 DEF Reading
    <3>4. QED
      BY <2>2, <3>1, <3>2, <3>3 DEF ViewsAreKept
  <2>4. Witnessed(g, s)
    <3>1. s.by = Me /\ s.kind # "remove" => Me \in Views(on[g])
      BY <2>2, <2>3 DEF Views, Becomes, TypeOK
    <3>2. s.by \in Rivals => Views(on[g]) = {Committed(s)}
      BY <2>2, <2>3, ReadsAssumption DEF Views, TypeOK
    <3>3. QED
      BY <2>2, <2>3, <3>1, <3>2 DEF Witnessed, Committed, MayHaveCommitted
  <2>5. Witnessed(g, s)'
    BY <2>1, <2>4, WitnessedForGood
  <2>6. QED
    BY <2>2, <2>5 DEF Witnessed, Sound, Becomes
<1>5. QED
  BY <1>1, <1>2, <1>3, <1>4, ReaderMoves DEF ReadStep

LEMMA MissingStaysGone ==
    ASSUME TypeOK, StoreAgrees, SeenAgrees, MissingIsGone, [Next]_vars
    PROVE  MissingIsGone'
<1> SUFFICES ASSUME NEW g \in Reads, resolving'[g] # None
             PROVE  entry'[resolving'[g]] = "gone" \/ g \in misread'
  BY DEF MissingIsGone
<1>1. \A a \in Attempts : entry[a] = "gone" => entry'[a] = "gone"
  BY StoreMoves DEF EntryMoves
<1>2. CASE resolving'[g] = resolving[g]
  <2>1. resolving[g] \in Attempts /\ (entry[resolving[g]] = "gone" \/ g \in misread)
    BY <1>2 DEF TypeOK, MissingIsGone
  <2>2. QED
    BY <1>1, <1>2, <2>1, ReaderMoves
<1>3. CASE ReadsAtr(g)
  <2>1. CASE Finds(g)
    BY <1>2, <2>1 DEF Finds
  <2>2. CASE Misses(g)
    <3>1. saw[g].by \in Attempts /\ entry[saw[g].by] # "none" /\ resolving'[g] = saw[g].by
      BY <1>3, <2>2 DEF ReadsAtr, SeenAgrees, Witnessed, Sound, Misses, TypeOK, Document
    <3>2. QED
      BY <1>1, <2>2, <3>1 DEF Misses, TypeOK
  <2>3. QED
    BY <1>3, <2>1, <2>2, ReadsAtrMoves
<1>4. CASE LookedUp(g)
  BY <1>4 DEF LookedUp, TypeOK
<1>5. CASE DoGet(g)
  BY <1>2, <1>5 DEF DoGet
<1>6. QED
  BY <1>2, <1>3, <1>4, <1>5, ReaderMoves DEF Untouched, IsCalled, ReadStep

\* A result of a read in progress comes from the document as it is, or as it was seen.
LEMMA ResultIsCurrent ==
    ASSUME IInv, NEW g \in Reads, ReadStep(g), at'[g] = "done"
    PROVE  \/ result'[g] \in {"failed", "retry"} \cup valid[g]
           \/ g \in misread'
           \/ g \in indirect' /\ result'[g] = Empty
<1> DEFINE d == on[g]
           s == doc[d]
<1> USE DEF IInv
<1>1. d \in Docs /\ s \in Document
  BY DEF TypeOK
<1>2. Reading(g)
  BY DEF ReadStep, DoGet, LookedUp, ReadsAtr, Reading
<1>3. Views(d) \subseteq valid[g]
  BY <1>2 DEF ViewsAreKept
<1>4. CASE DoGet(g)
  <2>1. PICK v \in Results : EndsWith(g, v) /\ v \in {OwnWrite(d), "failed"}
                             /\ (v = OwnWrite(d) => mine[d] # "none" \/ v = "failed")
    BY <1>4, DoGetMoves DEF TypeOK
  <2>2. mine[d] # "none" => OwnWrite(d) \in Views(d)
    BY <1>1 DEF OwnWrite, Views, TypeOK, Kinds
  <2>3. result'[g] = v
    BY <2>1 DEF EndsWith, TypeOK
  <2>4. QED
    BY <1>3, <2>1, <2>2, <2>3
<1>5. CASE LookedUp(g)
  <2>1. PICK v \in Results :
            /\ EndsWith(g, v) /\ v \in {s.body, "failed", "retry"}
            /\ v = s.body => v = "failed" \/ s.by = None \/ s.by = resolving[g]
    BY <1>5, LookedUpMoves DEF LooksFurther, TypeOK
  <2>2. result'[g] = v /\ UNCHANGED misread
    BY <1>5, <2>1 DEF EndsWith, LookedUp, TypeOK
  <2>3. s.by = None => s.body \in Views(d)
    BY <1>1, ReadsAssumption DEF Views, Committed, TypeOK
  <2>4. s.by # None /\ s.by = resolving[g] => s.body \in Views(d) \/ g \in misread
    BY <1>1, ReadsAssumption DEF Views, Committed, MissingIsGone, StoreAgrees, TypeOK
  <2>5. QED
    BY <1>3, <2>1, <2>2, <2>3, <2>4
<1>6. CASE ReadsAtr(g)
  <2> DEFINE t == saw[g]
  <2>1. Finds(g)
    BY <1>6, ReadsAtrMoves DEF Misses, TypeOK
  <2>2. PICK v \in Results : EndsWith(g, v) /\ v \in {Resolved(t), "failed", "retry"}
    BY <2>1 DEF Finds
  <2>3. result'[g] = v
    BY <2>2 DEF EndsWith, TypeOK
  <2>4. t \in Document /\ t.by # None /\ Witnessed(g, t)
    BY <1>6 DEF ReadsAtr, TypeOK, SeenAgrees
  <2>5. CASE t.by = Me
    BY <2>1, <2>2, <2>3, <2>4, <2>5 DEF Resolved, Witnessed, Finds
  <2>6. CASE t.by # Me
    <3>1. t.by \in Rivals /\ Lost(t) = t.body
      BY <2>4, <2>6 DEF Document, Attempts, Witnessed, Sound, Lost
    <3>2. entry[t.by] \in {"PENDING", "ABORTED"} \cup MayHaveCommitted
      BY <2>1, <3>1 DEF Finds, TypeOK, Attempts, MayHaveCommitted
    <3>3. Resolved(t) \in valid[g]
      BY <2>4, <2>6, <3>1, <3>2 DEF Resolved, HasCommitted, Witnessed, MayHaveCommitted
    <3>4. QED
      BY <2>2, <2>3, <3>3
  <2>7. QED
    BY <2>5, <2>6
<1>7. QED
  BY <1>4, <1>5, <1>6 DEF ReadStep

LEMMA ReadsStayCurrent ==
    ASSUME IInv, [Next]_vars
    PROVE  ReadsAreCurrent'
<1> SUFFICES ASSUME NEW g \in Reads
             PROVE  \/ result'[g] \in {"open", "failed", "retry"} \cup valid'[g]
                    \/ g \in misread'
                    \/ g \in indirect' /\ result'[g] = Empty
  BY DEF ReadsAreCurrent
<1> USE DEF IInv
<1>1. valid[g] \subseteq valid'[g]
  BY HistoryGrows
<1>2. CASE at'[g] # "done"
  BY <1>2, TypesHold DEF TypeOK
<1>3. CASE at'[g] = "done" /\ ReadStep(g)
  BY <1>1, <1>3, ResultIsCurrent
<1>4. CASE at'[g] = "done" /\ Untouched(g)
  BY <1>1, <1>4, ReaderMoves DEF Untouched, ReadsAreCurrent
<1>5. QED
  BY <1>2, <1>3, <1>4, ReaderMoves DEF IsCalled

-----------------------------------------------------------------------------
(* Theorems *)

LEMMA InitiallyIInv == Init => IInv
<1> SUFFICES ASSUME Init PROVE IInv
  OBVIOUS
<1> USE DEF Init
<1>1. Free(Base) \in Document /\ Free(None) \in Document
  BY DEF Free, Document, Values
<1>2. \A d \in Docs : doc[d].by = None /\ doc[d].kind = "none"
  BY DEF Free
<1>3. TypeOK
  BY <1>1, <1>2 DEF TypeOK
<1>4. StoreAgrees
  BY <1>2 DEF StoreAgrees, Sound, Attempts
<1>5. ViewsAreKept /\ SeenAgrees /\ MissingIsGone /\ ReadsAreCurrent
  BY DEF ViewsAreKept, SeenAgrees, MissingIsGone, ReadsAreCurrent, Reading
<1>6. QED
  BY <1>3, <1>4, <1>5 DEF IInv

\* IInv holds in every state: what a reader goes by is still true, or has become true
\* while it was reading.
THEOREM Invariance == Spec => []IInv
<1>1. IInv /\ [Next]_vars => IInv'
  BY TypesHold, StoreStaysAgreed, ViewsStayKept, SeenStaysAgreed, MissingStaysGone,
     ReadsStayCurrent DEF IInv
<1>2. QED
  BY <1>1, InitiallyIInv, PTL DEF Spec

\* The variables keep their types; a document the queue knows carries the mutation of
\* the queue, and a read that has a result is over (do_get).
THEOREM TypeCorrect == Spec => []TypeOK
<1>1. IInv => TypeOK
  BY DEF IInv
<1>2. QED
  BY <1>1, Invariance, PTL

\* do_get returns what was committed at some moment of the read, or staged by its own
\* attempt, whatever any number of rivals do between its requests; the two exceptions
\* are those the property names.
THEOREM ReadsGiveWhatWas == Spec => []ReadsAreCurrent
<1>1. IInv => ReadsAreCurrent
  BY DEF IInv
<1>2. QED
  BY <1>1, Invariance, PTL
=============================================================================
