--------------------------- MODULE Cleanup_proofs ---------------------------
(***************************************************************************)
(* The cleaning of an entry, for any lists of documents, any number of     *)
(* cleaners, whatever the entry asks for, and any number of faults and of  *)
(* foreign steps.                                                          *)
(*                                                                         *)
(* EntryOutlivesStaging is not inductive: it is what a cleaner may do      *)
(* about the entry after the last document, and by then it goes by what it *)
(* has read before the first.  IInv says what its reads are still good     *)
(* for: the status is the decision, a document it has passed is settled    *)
(* for good, and one it is about to write is the one it has looked up, or  *)
(* has another CAS.                                                        *)
(***************************************************************************)
EXTENDS Cleanup, TLAPS

Works(c) == at[c] \in {"docs", "write"}

\* Nothing is left to do about the document: what is staged there, if anything, is
\* under a body that commit_docs must not overwrite.
Settled(d) == doc[d].stg \in Mutations => decided = "COMMITTED" /\ ~SameCrc(d)

\* The entry says what has been decided.
EntryAgrees ==
    /\ entry = "PENDING" => decided = "none"
    /\ entry \in Decisions => entry = decided

\* A document is written as a tombstone for an insertion and has been written at all.
DocsAgree ==
    \A d \in Docs :
        /\ doc[d].cas # 0
        /\ d \in Inserted /\ doc[d].stg \in Mutations => doc[d].body = "none"

\* A cleaner that has read PENDING has no document to look at.
SeenAgrees ==
    \A c \in Cleaners : Works(c) =>
        /\ MayClean
        /\ seen[c] = "PENDING" => at[c] = "docs" /\ todo[c] = {}
        /\ seen[c] # "PENDING" => seen[c] = decided

PassedAgree ==
    \A c \in Cleaners : Works(c) /\ seen[c] # "PENDING" =>
        \A d \in Docs \ todo[c] : Settled(d)

StagedOver(d) == IF d \in Inserted THEN "none" ELSE "old"

\* What a cleaner is about to write held the attempt's mutation when it looked, over the
\* body it was staged over, and its CAS tells whether it has changed since.
LookupAgrees ==
    \A c \in Cleaners : at[c] = "write" =>
        LET now == doc[got[c].doc]
            was == got[c].was
        IN  /\ was.stg \in Mutations /\ was.cas # 0
            /\ seen[c] = "COMMITTED" => was.body = StagedOver(got[c].doc)
            /\ was.cas <= now.cas
            /\ was.cas = now.cas => now = was

IInv ==
    /\ TypeOK /\ EntryAgrees /\ DocsAgree /\ SeenAgrees /\ PassedAgree /\ LookupAgrees
    /\ EntryOutlivesStaging

-----------------------------------------------------------------------------
(* Documents *)

\* What a step may make of a document: nothing, or something with a later CAS that
\* holds the attempt's mutation only if a writer outside transactions has written
\* over the body of a document that held it.
Moves(d) ==
    \/ doc'[d] = doc[d]
    \/ /\ doc'[d].cas = doc[d].cas + 1
       /\ doc'[d].stg \in Mutations =>
            doc[d].stg \in Mutations /\ doc[d].body # "none" /\ doc'[d].body = "foreign"

\* What is sent is a document, and has lost the links of the attempt.
LEMMA CleanedIsDocument ==
    ASSUME NEW status \in Decisions, NEW d \in Docs, doc \in [Docs -> Document]
    PROVE  /\ Cleaned(status, d) \in Document
           /\ Cleaned(status, d).cas = doc[d].cas + 1
           /\ Cleaned(status, d).stg = "none"
<1>1. doc[d] \in Document
  OBVIOUS
<1>2. QED
  BY <1>1 DEF Cleaned, Staged, Mutated, Document, Bodies, Stagings, Mutations

\* An answer that is no fault is the natural one, and a request that is carried out
\* could have been answered with OK.
LEMMA AnswersAreNatural ==
    ASSUME NEW natural, NEW possible \in SUBSET DocFaults, NEW ans \in Answers(natural, possible)
    PROVE  /\ ans.class \notin DocFaults => ans.class = natural
           /\ ans.lands => natural = "OK"
           /\ ans.class = "OK" => ans.lands
<1>1. CASE ans = [class |-> natural, lands |-> natural = "OK"]
  <2>1. ans.class = natural /\ ans.lands = (natural = "OK")
    BY <1>1
  <2>2. QED
    BY <2>1, Zenon
<1>2. CASE ans \in [class : possible, lands : {FALSE}]
  <2>1. ans.class \in DocFaults /\ ans.lands = FALSE
    BY <1>2
  <2>2. QED
    BY <2>1 DEF DocFaults
<1>3. CASE ans \in [class : possible \cap {"AMBIGUOUS"}, lands : {TRUE} \cap {natural = "OK"}]
  <2>1. ans.class \in DocFaults /\ ans.lands \in {TRUE} \cap {natural = "OK"}
    BY <1>3
  <2>2. ans.lands = TRUE /\ ans.lands = (natural = "OK")
    BY <2>1, Zenon
  <2>3. QED
    BY <2>1, <2>2, Zenon DEF DocFaults
<1>4. QED
  BY <1>1, <1>2, <1>3, Zenon DEF Answers

LEMMA RequestMoves ==
    ASSUME NEW status \in Decisions, NEW d \in Docs, NEW ans, doc \in [Docs -> Document],
           doc' = IF ans.lands THEN [doc EXCEPT ![d] = Cleaned(status, d)] ELSE doc
    PROVE  doc' \in [Docs -> Document] /\ \A e \in Docs : Moves(e)
BY CleanedIsDocument DEF Moves, Mutations

LEMMA ForeignMoves ==
    ASSUME doc \in [Docs -> Document], NEW d \in Docs, ForeignWrite(d) \/ RivalStages(d)
    PROVE  doc' \in [Docs -> Document] /\ \A e \in Docs : Moves(e)
<1>1. doc[d] \in Document
  OBVIOUS
<1>2. PICK next : /\ doc' = [doc EXCEPT ![d] = next]
                  /\ \/ doc[d].body # "none" /\ next = Mutated(doc[d], "foreign", doc[d].stg)
                     \/ next = Mutated(doc[d], "foreign", "none")
                     \/ next = Mutated(doc[d], "none", "none")
                     \/ next = Staged(doc[d], "rival")
  BY DEF ForeignWrite, RivalStages, Foreign
<1>3. next \in Document /\ next.cas = doc[d].cas + 1
  BY <1>1, <1>2 DEF Mutated, Staged, Document, Bodies, Stagings
<1>4. next.stg \in Mutations =>
        doc[d].stg \in Mutations /\ doc[d].body # "none" /\ next.body = "foreign"
  BY <1>1, <1>2 DEF Mutated, Staged, Document, Mutations
<1>5. QED
  BY <1>2, <1>3, <1>4 DEF Moves

LEMMA DocumentsMove ==
    ASSUME TypeOK, SeenAgrees, [Next]_vars
    PROVE  doc' \in [Docs -> Document] /\ \A d \in Docs : Moves(d)
<1> USE DEF TypeOK
<1>1. ASSUME NEW c \in Cleaners, NEW d \in Docs, Writes(c, d)
      PROVE  doc' \in [Docs -> Document] /\ \A e \in Docs : Moves(e)
  <2>1. seen[c] \in Decisions
    BY <1>1 DEF Writes, SeenAgrees, Works
  <2>2. QED
    BY <1>1, <2>1, RequestMoves DEF Writes, Request
<1>2. ASSUME NEW d \in Docs, Unstages(d)
      PROVE  doc' \in [Docs -> Document] /\ \A e \in Docs : Moves(e)
  <2>1. decided \in Decisions
    BY <1>2 DEF Unstages
  <2>2. Cleaned(decided, d) \in Document /\ Cleaned(decided, d).cas = doc[d].cas + 1
        /\ Cleaned(decided, d).stg = "none"
    BY <2>1, CleanedIsDocument
  <2>3. QED
    BY <1>2, <2>2 DEF Unstages, Moves, Mutations
<1>3. CASE \E d \in Docs : ForeignWrite(d) \/ RivalStages(d)
  BY <1>3, ForeignMoves
<1>4. CASE UNCHANGED doc
  BY <1>4 DEF Moves
<1>5. QED
  BY <1>1, <1>2, <1>3, <1>4 DEF Next, CleanerStep, Surroundings, Read, RemovesEntry, LooksUp,
     ReadsNothing, Decides, Completes, Stops, Expires, SiblingBreaksRecord, Dies, vars, storeVars

-----------------------------------------------------------------------------
(* Types *)

LEMMA TypesHold ==
    ASSUME TypeOK, SeenAgrees, [Next]_vars
    PROVE  TypeOK'
<1>1. doc' \in [Docs -> Document]
  BY DocumentsMove
<1> USE CleanupAssumption DEF TypeOK, storeVars, ownerVars, cleanVars
<1>2. ASSUME NEW c \in Cleaners, Read(c) PROVE TypeOK'
  BY <1>1, <1>2 DEF Read, MayRead, Goto, DocsToClean
<1>3. ASSUME NEW c \in Cleaners, RemovesEntry(c) PROVE TypeOK'
  BY <1>1, <1>3 DEF RemovesEntry, Goto, EntryMayGo
<1>4. ASSUME NEW c \in Cleaners, NEW d \in Docs, LooksUp(c, d) PROVE TypeOK'
  <2>1. CASE IsToBeCleaned(c, d) /\ got' = [got EXCEPT ![c] = [doc |-> d, was |-> doc[d]]]
             /\ Goto(c, "write") /\ UNCHANGED <<seen, todo, faults>>
    BY <1>1, <1>4, <2>1 DEF LooksUp, Goto
  <2>2. CASE Passes(c, d) /\ UNCHANGED faults
    BY <1>1, <1>4, <2>2 DEF LooksUp, Goto, Passes
  <2>3. CASE faults' = faults + 1 /\ GivesUp(c)
    BY <1>1, <1>4, <2>3 DEF LooksUp, Goto, GivesUp
  <2>4. QED
    BY <1>4, <2>1, <2>2, <2>3 DEF LooksUp
<1>5. ASSUME NEW c \in Cleaners, NEW d \in Docs, Writes(c, d) PROVE TypeOK'
  BY <1>1, <1>5 DEF Writes, Request, Goto, Passes, GivesUp
<1>6. CASE ReadsNothing
  BY <1>1, <1>6 DEF ReadsNothing
<1>7. CASE Surroundings
  <2>1. ASSUME NEW c \in Cleaners, Dies(c) PROVE TypeOK'
    BY <1>1, <2>1 DEF Dies, Goto
  <2>2. ASSUME NEW d \in Docs, Unstages(d) \/ ForeignWrite(d) \/ RivalStages(d) PROVE TypeOK'
    BY <1>1, <2>2 DEF Unstages, ForeignWrite, RivalStages, Foreign
  <2>3. CASE (\E s \in Decisions : Decides(s)) \/ Completes \/ Stops \/ Expires
             \/ SiblingBreaksRecord
    BY <1>1, <2>3 DEF Decides, Completes, Stops, Expires, SiblingBreaksRecord
  <2>4. QED
    BY <1>7, <2>1, <2>2, <2>3 DEF Surroundings
<1>8. CASE UNCHANGED vars
  BY <1>1, <1>8 DEF vars
<1>9. QED
  BY <1>2, <1>3, <1>4, <1>5, <1>6, <1>7, <1>8 DEF Next, CleanerStep

-----------------------------------------------------------------------------
(* The invariant *)

LEMMA EntryStaysAgreed ==
    ASSUME TypeOK, EntryAgrees, SeenAgrees, [Next]_vars
    PROVE  EntryAgrees'
<1> USE DEF EntryAgrees
<1>1. ASSUME NEW c \in Cleaners, RemovesEntry(c) PROVE EntryAgrees'
  BY <1>1 DEF RemovesEntry, ownerVars, Decisions, TypeOK
<1>2. ASSUME NEW s \in Decisions, Decides(s) PROVE EntryAgrees'
  BY <1>2 DEF Decides, Decisions
<1>3. CASE Completes
  BY <1>3 DEF Completes, Decisions
<1>4. CASE UNCHANGED <<entry, decided>>
  BY <1>4
<1>5. QED
  BY <1>1, <1>2, <1>3, <1>4 DEF Next, CleanerStep, Surroundings, Read, LooksUp, Writes, ReadsNothing,
     Unstages, ForeignWrite, RivalStages, Foreign, Stops, Expires, SiblingBreaksRecord, Dies,
     vars, storeVars, ownerVars

LEMMA DocsStayAgreed ==
    ASSUME TypeOK, SeenAgrees, DocsAgree, [Next]_vars
    PROVE  DocsAgree'
<1> SUFFICES ASSUME NEW d \in Docs
             PROVE  /\ doc'[d].cas # 0
                    /\ d \in Inserted /\ doc'[d].stg \in Mutations => doc'[d].body = "none"
  BY DEF DocsAgree
<1>1. Moves(d)
  BY DocumentsMove
<1>2. doc[d].cas \in Nat /\ doc[d].cas # 0
  BY DEF TypeOK, Document, DocsAgree
<1>3. d \in Inserted /\ doc[d].stg \in Mutations => doc[d].body = "none"
  BY DEF DocsAgree
<1>4. QED
  BY <1>1, <1>2, <1>3 DEF Moves

\* A decision is taken once, and not while a cleaner goes by one.
LEMMA DecisionsLast ==
    ASSUME TypeOK, EntryAgrees, [Next]_vars, decided # "none"
    PROVE  decided' = decided
BY DEF EntryAgrees, Next, CleanerStep, Surroundings, Read, LooksUp, Writes, RemovesEntry, ReadsNothing,
   Decides, Completes, Unstages, ForeignWrite, RivalStages, Foreign, Stops, Expires,
   SiblingBreaksRecord, Dies, vars, storeVars, ownerVars

\* A document that is settled stays so.
LEMMA SettledForGood ==
    ASSUME TypeOK, EntryAgrees, SeenAgrees, [Next]_vars, decided # "none",
           NEW d \in Docs, Settled(d)
    PROVE  Settled(d)'
<1>1. Moves(d) /\ decided' = decided
  BY DocumentsMove, DecisionsLast
<1>2. doc'[d].stg \in Mutations => doc[d].stg \in Mutations
  BY <1>1 DEF Moves
<1>3. doc'[d].stg \in Mutations /\ ~SameCrc(d) => ~(SameCrc(d)')
  BY <1>1 DEF Moves, SameCrc
<1>4. QED
  BY <1>1, <1>2, <1>3 DEF Settled

\* What makes a cleaner pass a document has settled it.
LEMMA PassedOverIsSettled ==
    ASSUME TypeOK, SeenAgrees, DocsAgree, NEW c \in Cleaners, NEW d \in Docs,
           Works(c), seen[c] # "PENDING", ~IsToBeCleaned(c, d)
    PROVE  Settled(d)
<1>1. seen[c] = decided /\ decided \in Decisions
  BY DEF SeenAgrees, TypeOK
<1>2. d \in Inserted /\ doc[d].stg \in Mutations => SameCrc(d)
  BY DEF DocsAgree, SameCrc
<1>3. QED
  BY <1>1, <1>2 DEF IsToBeCleaned, RequiresCrc, Settled, Decisions

\* So has a request, carried out or found to be of no use.
LEMMA WrittenIsSettled ==
    ASSUME TypeOK, DocsAgree, SeenAgrees, LookupAgrees, NEW c \in Cleaners, NEW d \in Docs,
           Writes(c, d), at'[c] # "idle"
    PROVE  Settled(d)'
<1> DEFINE natural == NaturalAnswer(c, d)
<1>1. seen[c] = decided /\ decided \in Decisions
  BY DEF Writes, SeenAgrees, Works, TypeOK
<1>2. doc[d].cas # 0 /\ got[c].was.cas # 0
  BY DEF Writes, DocsAgree, LookupAgrees
<1>3. PICK ans \in Possible(natural) :
        /\ doc' = IF ans.lands THEN [doc EXCEPT ![d] = Cleaned(seen[c], d)] ELSE doc
        /\ ans.class \in {"OK", "DOC_NOT_FOUND", "PATH_NOT_FOUND"}
  BY DEF Writes, Request, GivesUp, Goto, TypeOK
<1>4. decided' = decided
  BY DEF Writes, ownerVars
<1>5. /\ ans.class = natural
      /\ natural = "OK" => ans.lands
      /\ natural # "OK" => ~ans.lands
  BY <1>3, AnswersAreNatural DEF Possible, DocFaults
<1>6. CASE natural = "OK"
  BY <1>1, <1>3, <1>5, <1>6, CleanedIsDocument DEF Settled, Mutations, TypeOK
<1>7. CASE natural = "DOC_NOT_FOUND"
  <2>1. doc' = doc
    BY <1>3, <1>5, <1>7
  <2>2. doc[d].body = "none" /\ seen[c] = "COMMITTED" /\ d \notin Inserted
    BY <1>1, <1>2, <1>7, CleanupAssumption DEF NaturalAnswer, AnswerToInsert, AnswerToRemoveAt,
       AnswerToRemove, AnswerToUnstaging, Decisions
  <2>3. QED
    BY <1>1, <1>4, <2>1, <2>2 DEF Settled, SameCrc
<1>8. CASE natural = "PATH_NOT_FOUND"
  <2>1. doc' = doc
    BY <1>3, <1>5, <1>8
  <2>2. doc[d].stg = "none"
    BY <1>8 DEF NaturalAnswer, AnswerToInsert, AnswerToRemoveAt, AnswerToRemove, AnswerToUnstaging
  <2>3. QED
    BY <2>1, <2>2 DEF Settled, Mutations
<1>9. QED
  BY <1>3, <1>5, <1>6, <1>7, <1>8

-----------------------------------------------------------------------------
(* One cleaner in one step *)

Untouched(c) == at'[c] = at[c] /\ seen'[c] = seen[c] /\ todo'[c] = todo[c] /\ got'[c] = got[c]

Starts(c) ==
    /\ MayRead(c) /\ doc' = doc /\ decided' = decided
    /\ at'[c] = "docs" /\ seen'[c] = entry /\ todo'[c] = DocsToClean(entry)

Finds(c, d) ==
    /\ at[c] = "docs" /\ d \in NextDocs(c) /\ IsToBeCleaned(c, d) /\ doc' = doc
    /\ at'[c] = "write" /\ got'[c] = [doc |-> d, was |-> doc[d]]
    /\ seen'[c] = seen[c] /\ todo'[c] = todo[c]

GoesOn(c, d) ==
    /\ Works(c) /\ ((LooksUp(c, d) /\ ~IsToBeCleaned(c, d) /\ doc' = doc) \/ Writes(c, d))
    /\ at'[c] = "docs" /\ seen'[c] = seen[c] /\ todo'[c] = todo[c] \ {d}

LEMMA CleanerMoves ==
    ASSUME TypeOK, [Next]_vars, NEW c \in Cleaners
    PROVE  \/ Untouched(c)
           \/ at'[c] \in {"idle", "dead"}
           \/ Starts(c)
           \/ \E d \in Docs : Finds(c, d) \/ GoesOn(c, d)
<1> DEFINE Conclusion == \/ Untouched(c)
                         \/ at'[c] \in {"idle", "dead"}
                         \/ Starts(c)
                         \/ \E d \in Docs : Finds(c, d) \/ GoesOn(c, d)
<1> USE DEF TypeOK
<1>1. ASSUME NEW b \in Cleaners, Read(b) PROVE Conclusion
  BY <1>1 DEF Read, Starts, Untouched, Goto, storeVars
<1>2. ASSUME NEW b \in Cleaners, RemovesEntry(b) PROVE Conclusion
  BY <1>2 DEF RemovesEntry, Untouched, Goto
<1>3. ASSUME NEW b \in Cleaners, NEW d \in Docs, LooksUp(b, d) PROVE Conclusion
  <2>1. CASE b # c
    BY <1>3, <2>1 DEF LooksUp, Passes, GivesUp, Untouched, Goto
  <2>2. CASE b = c
    <3>1. CASE IsToBeCleaned(c, d) /\ got' = [got EXCEPT ![c] = [doc |-> d, was |-> doc[d]]]
               /\ Goto(c, "write") /\ UNCHANGED <<seen, todo, faults>>
      BY <1>3, <2>2, <3>1 DEF LooksUp, Finds, Goto, storeVars
    <3>2. CASE ~IsToBeCleaned(c, d) /\ Passes(c, d)
      <4>1. at[c] = "docs" /\ doc' = doc
        BY <1>3, <2>2 DEF LooksUp, storeVars
      <4>2. at'[c] = "docs" /\ seen'[c] = seen[c] /\ todo'[c] = todo[c] \ {d}
        BY <3>2 DEF Passes, Goto
      <4>3. QED
        BY <1>3, <2>2, <3>2, <4>1, <4>2 DEF GoesOn, Works
    <3>3. CASE GivesUp(c)
      BY <3>3 DEF GivesUp, Goto
    <3>4. QED
      BY <1>3, <2>2, <3>1, <3>2, <3>3 DEF LooksUp
  <2>3. QED
    BY <2>1, <2>2
<1>4. ASSUME NEW b \in Cleaners, NEW d \in Docs, Writes(b, d) PROVE Conclusion
  <2>1. CASE b # c
    BY <1>4, <2>1 DEF Writes, Passes, GivesUp, Untouched, Goto
  <2>2. CASE b = c /\ Passes(c, d)
    BY <1>4, <2>2 DEF GoesOn, Works, Passes, Goto, Writes
  <2>3. CASE b = c /\ GivesUp(c)
    BY <2>3 DEF GivesUp, Goto
  <2>4. QED
    BY <1>4, <2>1, <2>2, <2>3 DEF Writes
<1>5. ASSUME NEW b \in Cleaners, Dies(b) PROVE Conclusion
  BY <1>5 DEF Dies, Untouched, Goto
<1>6. CASE UNCHANGED cleanVars
  BY <1>6 DEF cleanVars, Untouched
<1>7. QED
  BY <1>1, <1>2, <1>3, <1>4, <1>5, <1>6 DEF Next, CleanerStep, Surroundings, ReadsNothing, Decides,
     Unstages, ForeignWrite, RivalStages, Foreign, Completes, Stops, Expires, SiblingBreaksRecord, vars

LEMMA SeenStaysAgreed ==
    ASSUME TypeOK, EntryAgrees, SeenAgrees, [Next]_vars
    PROVE  SeenAgrees'
<1> SUFFICES ASSUME NEW c \in Cleaners, Works(c)'
             PROVE  /\ MayClean'
                    /\ seen'[c] = "PENDING" => at'[c] = "docs" /\ todo'[c] = {}
                    /\ seen'[c] # "PENDING" => seen'[c] = decided'
  BY DEF SeenAgrees
<1>1. compat' = compat
  BY DEF Next, CleanerStep, Surroundings, Read, LooksUp, Writes, RemovesEntry, ReadsNothing, Decides,
     Completes, Unstages, ForeignWrite, RivalStages, Foreign, Stops, Expires, SiblingBreaksRecord,
     Dies, vars, storeVars
<1>2. MayClean => MayClean'
  BY <1>1 DEF MayClean
<1>3. Works(c) /\ seen[c] # "PENDING" => decided' = decided
  BY DecisionsLast DEF SeenAgrees, TypeOK, Decisions
<1>4. CASE Untouched(c)
  BY <1>2, <1>3, <1>4 DEF SeenAgrees, Untouched, Works
<1>5. CASE Starts(c)
  BY <1>2, <1>5 DEF Starts, MayRead, EntryAgrees, DocsToClean, TypeOK, Decisions
<1>6. ASSUME NEW d \in Docs, Finds(c, d) PROVE /\ MayClean' /\ seen'[c] = decided'
                                             /\ seen'[c] # "PENDING"
  <2>1. Works(c) /\ seen'[c] = seen[c] /\ todo[c] # {}
    BY <1>6 DEF Finds, Works, NextDocs
  <2>2. QED
    BY <1>2, <1>3, <2>1 DEF SeenAgrees
<1>7. ASSUME NEW d \in Docs, GoesOn(c, d)
      PROVE  /\ MayClean' /\ seen'[c] = decided' /\ seen'[c] # "PENDING"
  BY <1>2, <1>3, <1>7 DEF GoesOn, SeenAgrees, Works, LooksUp, NextDocs, Writes
<1>8. QED
  BY <1>4, <1>5, <1>6, <1>7, CleanerMoves DEF Works

LEMMA PassedStayAgreed ==
    ASSUME TypeOK, EntryAgrees, DocsAgree, SeenAgrees, PassedAgree, LookupAgrees, [Next]_vars
    PROVE  PassedAgree'
<1> SUFFICES ASSUME NEW c \in Cleaners, Works(c)', seen'[c] # "PENDING", NEW e \in Docs \ todo'[c]
             PROVE  Settled(e)'
  BY DEF PassedAgree
<1>1. ASSUME Works(c), seen[c] # "PENDING", e \notin todo[c] PROVE Settled(e)'
  <2>1. Settled(e) /\ decided # "none"
    BY <1>1 DEF PassedAgree, SeenAgrees, TypeOK, Decisions
  <2>2. QED
    BY <2>1, SettledForGood
<1>2. CASE Untouched(c)
  BY <1>1, <1>2 DEF Untouched, Works
<1>3. CASE Starts(c)
  BY <1>3 DEF Starts, MayRead, DocsToClean, TypeOK
<1>4. ASSUME NEW d \in Docs, Finds(c, d) PROVE Settled(e)'
  BY <1>1, <1>4 DEF Finds, Works
<1>5. ASSUME NEW d \in Docs, GoesOn(c, d) PROVE Settled(e)'
  <2>1. Works(c) /\ seen[c] # "PENDING" /\ (e \notin todo[c] \/ e = d)
    BY <1>5 DEF GoesOn
  <2>2. CASE e = d /\ Writes(c, d)
    BY <1>5, <2>2, WrittenIsSettled DEF GoesOn
  <2>3. CASE e = d /\ LooksUp(c, d) /\ ~IsToBeCleaned(c, d)
    BY <2>1, <2>3, PassedOverIsSettled, SettledForGood DEF SeenAgrees, TypeOK, Decisions
  <2>4. QED
    BY <1>1, <1>5, <2>1, <2>2, <2>3 DEF GoesOn
<1>6. QED
  BY <1>2, <1>3, <1>4, <1>5, CleanerMoves DEF Works

LEMMA LookupStaysAgreed ==
    ASSUME TypeOK, DocsAgree, SeenAgrees, LookupAgrees, [Next]_vars
    PROVE  LookupAgrees'
<1> SUFFICES ASSUME NEW c \in Cleaners, at'[c] = "write"
             PROVE  LET now == doc'[got'[c].doc]
                        was == got'[c].was
                    IN  /\ was.stg \in Mutations /\ was.cas # 0
                        /\ seen'[c] = "COMMITTED" => was.body = StagedOver(got'[c].doc)
                        /\ was.cas <= now.cas
                        /\ was.cas = now.cas => now = was
  BY DEF LookupAgrees
<1>1. CASE Untouched(c)
  <2> DEFINE d == got[c].doc
  <2>1. at[c] = "write" /\ got'[c] = got[c] /\ d \in Docs
    BY <1>1 DEF Untouched, TypeOK
  <2>2. Moves(d) /\ doc[d].cas \in Nat /\ got[c].was.cas \in Nat
    BY <2>1, DocumentsMove DEF TypeOK, Document
  <2>3. /\ got[c].was.stg \in Mutations /\ got[c].was.cas # 0
        /\ seen[c] = "COMMITTED" => got[c].was.body = StagedOver(d)
        /\ got[c].was.cas <= doc[d].cas
        /\ got[c].was.cas = doc[d].cas => doc[d] = got[c].was
    BY <2>1 DEF LookupAgrees
  <2>4. seen'[c] = seen[c]
    BY <1>1 DEF Untouched
  <2>5. QED
    BY <2>1, <2>2, <2>3, <2>4 DEF Moves
<1>2. ASSUME NEW d \in Docs, Finds(c, d)
      PROVE  /\ got'[c].doc = d /\ got'[c].was = doc[d] /\ doc' = doc
             /\ doc[d].stg \in Mutations /\ doc[d].cas # 0 /\ doc[d].cas \in Nat
             /\ seen'[c] = "COMMITTED" => doc[d].body = StagedOver(d)
  BY <1>2 DEF Finds, IsToBeCleaned, RequiresCrc, SameCrc, StagedOver, DocsAgree, TypeOK, Document
<1>3. QED
  BY <1>1, <1>2, CleanerMoves DEF Starts, GoesOn

LEMMA EntryStillOutlives ==
    ASSUME IInv, [Next]_vars
    PROVE  EntryOutlivesStaging'
<1> USE DEF IInv
<1> SUFFICES ASSUME entry' = "absent", decided' # "none"
             PROVE  \A d \in Docs : Settled(d)'
  BY DEF EntryOutlivesStaging, Settled
<1>1. ASSUME entry = "absent", decided # "none" PROVE \A d \in Docs : Settled(d)'
  BY <1>1, SettledForGood DEF EntryOutlivesStaging, Settled
<1>2. CASE UNCHANGED <<entry, decided>>
  BY <1>1, <1>2
<1>3. ASSUME NEW c \in Cleaners, RemovesEntry(c) PROVE \A d \in Docs : Settled(d)'
  <2>1. doc' = doc /\ decided' = decided /\ Works(c) /\ todo[c] = {}
    BY <1>3 DEF RemovesEntry, ownerVars, Works
  <2>2. CASE entry = "absent"
    BY <1>1, <2>1, <2>2
  <2>3. CASE EntryMayGo(c)
    <3>1. seen[c] # "PENDING"
      BY <2>1, <2>3 DEF EntryMayGo, EntryAgrees
    <3>2. \A d \in Docs : Settled(d)
      BY <2>1, <3>1 DEF PassedAgree
    <3>3. QED
      BY <2>1, <3>2 DEF Settled, SameCrc
  <2>4. QED
    BY <1>3, <2>2, <2>3 DEF RemovesEntry
<1>4. CASE Completes
  BY <1>4 DEF Completes, Settled
<1>5. CASE \E s \in Decisions : Decides(s)
  BY <1>5 DEF Decides, Decisions
<1>6. QED
  BY <1>2, <1>3, <1>4, <1>5 DEF Next, CleanerStep, Surroundings, Read, LooksUp, Writes, ReadsNothing,
     Unstages, ForeignWrite, RivalStages, Foreign, Stops, Expires, SiblingBreaksRecord, Dies,
     vars, storeVars, ownerVars

-----------------------------------------------------------------------------
(* Theorems *)

LEMMA InitiallyIInv == Init => IInv
<1> SUFFICES ASSUME Init PROVE IInv
  OBVIOUS
<1> USE DEF Init
<1>1. \A d \in Docs : doc[d] \in Document /\ doc[d].cas # 0
                      /\ (d \in Inserted => doc[d].body = "none")
  BY DEF Document, Bodies, Stagings, Mutations, Kind
<1>2. TypeOK
  BY <1>1 DEF TypeOK, Document, Nothing, Absent, Bodies, Stagings, Decisions
<1>3. EntryAgrees /\ EntryOutlivesStaging
  BY DEF EntryAgrees, EntryOutlivesStaging, Decisions
<1>4. DocsAgree
  BY <1>1 DEF DocsAgree
<1>5. SeenAgrees /\ PassedAgree /\ LookupAgrees
  BY DEF SeenAgrees, PassedAgree, LookupAgrees, Works
<1>6. QED
  BY <1>2, <1>3, <1>4, <1>5 DEF IInv

\* IInv holds in every state: the decision, the entry, what each cleaner has read and
\* what it has passed agree with each other and with the documents.
THEOREM Invariance == Spec => []IInv
<1>1. IInv /\ [Next]_vars => IInv'
  BY TypesHold, EntryStaysAgreed, DocsStayAgreed, SeenStaysAgreed, PassedStayAgreed,
     LookupStaysAgreed, EntryStillOutlives DEF IInv
<1>2. QED
  BY <1>1, InitiallyIInv, PTL DEF Spec

\* The variables keep their types: no cleaner writes a document it has not looked up
\* (cleanup_docs), and the store holds documents.
THEOREM TypeCorrect == Spec => []TypeOK
<1>1. IInv => TypeOK
  BY DEF IInv
<1>2. QED
  BY <1>1, Invariance, PTL

\* Whoever removes the entry of an attempt that has decided (cleanup_entry,
\* atr_complete), nothing it names is left staged that anybody could still clean.
THEOREM EntriesOutliveStaging == Spec => []EntryOutlivesStaging
<1>1. IInv => EntryOutlivesStaging
  BY DEF IInv
<1>2. QED
  BY <1>1, Invariance, PTL

\* A cleaner's step away from a write that changes a document is that write, and the
\* request was one the service carries out.
LEMMA CleanerWrites ==
    ASSUME TypeOK, SeenAgrees, [Next]_vars, NEW c \in Cleaners, NEW d \in Docs,
           at[c] = "write", at'[c] # "write", doc'[d] # doc[d]
    PROVE  /\ Writes(c, d) /\ doc'[d] = Cleaned(seen[c], d)
           /\ NaturalAnswer(c, d) = "OK"
           /\ seen[c] = decided /\ decided \in Decisions /\ MayClean
<1>1. PICK b \in Cleaners, e \in Docs : Writes(b, e)
  <2> USE DEF TypeOK, Goto
  <2>1. at' # at /\ doc' # doc
    OBVIOUS
  <2>2. QED
    BY <2>1 DEF Next, CleanerStep, Surroundings, Read, LooksUp, RemovesEntry, ReadsNothing, Decides,
       Completes, Unstages, ForeignWrite, RivalStages, Foreign, Stops, Expires, SiblingBreaksRecord,
       Dies, vars, storeVars, cleanVars
<1>2. b = c
  BY <1>1 DEF Writes, Passes, GivesUp, Goto, TypeOK
<1>3. PICK ans \in Possible(NaturalAnswer(c, e)) :
        doc' = IF ans.lands THEN [doc EXCEPT ![e] = Cleaned(seen[c], e)] ELSE doc
  BY <1>1, <1>2 DEF Writes, Request
<1>4. e = d /\ ans.lands /\ doc'[d] = Cleaned(seen[c], d)
  BY <1>3 DEF TypeOK
<1>5. NaturalAnswer(c, d) = "OK"
  BY <1>3, <1>4, AnswersAreNatural DEF Possible, DocFaults
<1>6. QED
  BY <1>1, <1>2, <1>4, <1>5 DEF SeenAgrees, Works, TypeOK

\* Cleaners that overlap, that are late, that meet faults: what they write is what
\* the entry said (commit_docs, remove_txn_links), of an entry they may clean.
THEOREM DecisionIsFollowed == Spec => CleanersFollowDecision
<1> DEFINE Follows == \A d \in Docs, c \in Cleaners :
               (at[c] = "write" /\ at'[c] # "write" /\ doc'[d] # doc[d]) =>
                   /\ MayClean
                   /\ decided = IF doc'[d].body = doc[d].body THEN "ABORTED" ELSE "COMMITTED"
<1>1. ASSUME IInv, [Next]_vars, NEW d \in Docs, NEW c \in Cleaners,
             at[c] = "write", at'[c] # "write", doc'[d] # doc[d]
      PROVE  /\ MayClean
             /\ decided = IF doc'[d].body = doc[d].body THEN "ABORTED" ELSE "COMMITTED"
  <2>1. /\ doc'[d] = Cleaned(decided, d) /\ decided \in Decisions /\ MayClean
        /\ seen[c] = decided
    BY <1>1, CleanerWrites DEF IInv
  <2>2. decided = "ABORTED" => doc'[d].body = doc[d].body
    BY <2>1 DEF Cleaned, Staged, Mutated
  <2>3. ASSUME decided = "COMMITTED" PROVE doc[d].body = StagedOver(d)
    <3>1. /\ got[c].doc = d /\ NaturalAnswer(c, d) = "OK"
          /\ got[c].was.cas # 0 /\ got[c].was.body = StagedOver(d)
          /\ got[c].was.cas = doc[d].cas => doc[d] = got[c].was
      <4>1. got[c].doc = d /\ NaturalAnswer(c, d) = "OK"
        BY <1>1, CleanerWrites DEF IInv, Writes
      <4>2. QED
        BY <1>1, <2>1, <2>3, <4>1 DEF IInv, LookupAgrees
    <3>2. CASE d \in Inserted
      BY <2>1, <2>3, <3>1, <3>2, CleanupAssumption DEF NaturalAnswer, AnswerToInsert, StagedOver
    <3>3. CASE d \notin Inserted
      <4>1. got[c].was.cas = doc[d].cas
        BY <3>1, <3>3 DEF NaturalAnswer, AnswerToRemoveAt, AnswerToUnstaging
      <4>2. QED
        BY <3>1, <4>1
    <3>4. QED
      BY <3>2, <3>3
  <2>4. decided = "COMMITTED" => doc'[d].body # doc[d].body
    BY <2>1, <2>3, CleanupAssumption DEF Cleaned, Mutated, StagedOver
  <2>5. QED
    BY <2>1, <2>2, <2>4 DEF Decisions
<1>2. IInv /\ [Next]_vars => [Follows]_vars
  BY <1>1
<1>3. QED
  BY <1>2, Invariance, PTL DEF Spec, CleanersFollowDecision

\* A document that changed after a cleaner looked it up is not written by that cleaner,
\* but for the insertion of commit_docs, which carries no CAS.
THEOREM OthersAreSpared == Spec => CleanersSpareOthers
<1> DEFINE Spares == \A d \in Docs, c \in Cleaners :
               (at[c] = "write" /\ at'[c] # "write" /\ doc'[d] # doc[d]) =>
                   doc[d].stg \in Mutations \/ (d \in Inserted /\ doc[d].body = "none")
<1>1. ASSUME IInv, [Next]_vars, NEW d \in Docs, NEW c \in Cleaners,
             at[c] = "write", at'[c] # "write", doc'[d] # doc[d]
      PROVE  doc[d].stg \in Mutations \/ (d \in Inserted /\ doc[d].body = "none")
  <2>1. /\ got[c].doc = d /\ NaturalAnswer(c, d) = "OK"
        /\ got[c].was.stg \in Mutations /\ got[c].was.cas # 0
        /\ got[c].was.cas = doc[d].cas => doc[d] = got[c].was
    BY <1>1, CleanerWrites DEF IInv, LookupAgrees, Writes
  <2>2. CASE seen[c] = "COMMITTED" /\ d \in Inserted
    BY <2>1, <2>2, CleanupAssumption DEF NaturalAnswer, AnswerToInsert
  <2>3. CASE ~(seen[c] = "COMMITTED" /\ d \in Inserted)
    <3>1. got[c].was.cas = doc[d].cas
      BY <2>1, <2>3 DEF NaturalAnswer, AnswerToRemoveAt, AnswerToUnstaging
    <3>2. QED
      BY <2>1, <3>1
  <2>4. QED
    BY <2>2, <2>3
<1>2. IInv /\ [Next]_vars => [Spares]_vars
  BY <1>1
<1>3. QED
  BY <1>2, Invariance, PTL DEF Spec, CleanersSpareOthers
=============================================================================
