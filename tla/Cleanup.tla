------------------------------- MODULE Cleanup -------------------------------
(***************************************************************************)
(* The cleaning of one entry of an active transaction record (ATR):        *)
(* atr_cleanup_entry, handle_atr_cleanup and the body of attempts_loop.    *)
(*                                                                         *)
(* Several cleaners work on the entry at once: the queue of the client the *)
(* attempt belongs to, and the searches for lost attempts of any client.   *)
(* The attempt itself may still be at work, and others write the same      *)
(* documents.  Nothing but CAS values, checksums and the field "p" of the  *)
(* entry keeps them apart.                                                 *)
(*                                                                         *)
(* The attempt is that of a client of any library.  One of this library is *)
(* modelled in full in Attempt; its entry is never more than PENDING.      *)
(***************************************************************************)
EXTENDS DocStore, ForwardCompat

CONSTANTS
    Inserted, Replaced, Removed,  \* the lists of documents in the entry
    NoDoc,       \* not a document
    Compats,     \* what the entry may ask of clients of another version
    Own,         \* the queue of the client of the attempt
    Lost,        \* the searches for lost attempts
    Survivor,    \* one of them, whose client does not die
    MaxFaults,   \* bound: answers to cleaners that are faults
    MaxForeign   \* bound: steps of writers outside the attempt

Docs     == Inserted \cup Replaced \cup Removed
Cleaners == Lost \cup {Own}

ASSUME CleanupAssumption ==
    /\ NoDoc \notin Docs /\ Compats \subseteq Records /\ Own \notin Lost /\ Survivor \in Lost
    /\ Inserted \cap (Replaced \cup Removed) = {} /\ Replaced \cap Removed = {}
    /\ MaxFaults \in Nat /\ MaxForeign \in Nat

VARIABLES
    \* ---- the service
    doc,       \* the documents
    entry,     \* the entry: its status, or "absent"
    readable,  \* map_to_atr can parse the record
    compat,    \* forward_compat of the entry
    \* ---- the attempt
    owner,     \* it is at work
    queued,    \* it is in its client's cleanup queue
    expired,   \* has_expired(safety_margin_ms_)
    \* ---- the cleaners
    at,        \* where each is
    seen,      \* the status each has read
    todo,      \* documents its do_per_doc has not passed yet
    got,       \* the document it has looked up, to be written at that CAS
    \* ---- surroundings and history
    faults, foreign,
    decided    \* what the entry was marked with

storeVars == <<doc, entry, readable, compat>>
ownerVars == <<owner, queued, expired, decided>>
cleanVars == <<at, seen, todo, got>>
vars == <<storeVars, ownerVars, cleanVars, faults, foreign>>

Kind(d) == CASE d \in Inserted -> "insert" [] d \in Replaced -> "replace" [] OTHER -> "remove"

Decisions == {"COMMITTED", "ABORTED"}
Nothing   == [doc |-> NoDoc, was |-> Absent]

TypeOK ==
    /\ doc \in [Docs -> Document]
    /\ entry \in Decisions \cup {"PENDING", "absent"} /\ readable \in BOOLEAN /\ compat \in Compats
    /\ owner \in BOOLEAN /\ queued \in BOOLEAN /\ expired \in BOOLEAN
    /\ at \in [Cleaners -> {"idle", "docs", "write", "dead"}]
    /\ seen \in [Cleaners -> Decisions \cup {"PENDING"}]
    /\ todo \in [Cleaners -> SUBSET Docs]
    /\ got \in [Cleaners -> [doc : Docs \cup {NoDoc}, was : Document]]
    /\ \A c \in Cleaners : at[c] = "write" => got[c].doc \in Docs
    /\ faults \in Nat /\ foreign \in Nat
    /\ decided \in Decisions \cup {"none"}

\* All is staged and the attempt has not decided yet.
Init ==
    /\ doc = [d \in Docs |-> [body |-> IF d \in Inserted THEN "none" ELSE "old",
                              stg |-> Kind(d), cas |-> 1]]
    /\ entry = "PENDING" /\ readable = TRUE /\ compat \in Compats
    /\ owner = TRUE /\ queued = FALSE /\ expired = FALSE /\ decided = "none"
    /\ at = [c \in Cleaners |-> "idle"]
    /\ seen = [c \in Cleaners |-> "PENDING"]
    /\ todo = [c \in Cleaners |-> {}]
    /\ got = [c \in Cleaners |-> Nothing]
    /\ faults = 0 /\ foreign = 0

-----------------------------------------------------------------------------
(* Common to all cleaners *)

\* What became of a request about document d, and whether it was a fault.
Request(d, ans, next) ==
    /\ doc' = IF ans.lands THEN [doc EXCEPT ![d] = next] ELSE doc
    /\ faults' = IF ans.class \in DocFaults THEN faults + 1 ELSE faults

Possible(natural) == Answers(natural, IF faults < MaxFaults THEN DocFaults ELSE {})

Goto(c, place) == at' = [at EXCEPT ![c] = place]

\* An exception out of clean(): it is logged, and nothing more is done.
GivesUp(c) == Goto(c, "idle") /\ UNCHANGED <<seen, todo, got>>

\* The loop goes on with the next document.
Passes(c, d) ==
    /\ Goto(c, "docs")
    /\ todo' = [todo EXCEPT ![c] = @ \ {d}]
    /\ UNCHANGED <<seen, got>>

-----------------------------------------------------------------------------
(* clean, check_atr_and_cleanup *)

DocsToClean(status) == IF status \in Decisions THEN Docs ELSE {}

\* Mutant: the entry is not looked for.
MayReadMissing(c) ==
    /\ at[c] = "idle" /\ readable
    /\ IF c = Own THEN queued ELSE expired

\* The entry asks for nothing this version does not have.
MayClean == Check("CL_E", compat) = "CONTINUE"

\* The record is read, and the entry is found in it.  A search for lost attempts
\* has the entry's age checked; the queue has taken the attempt off.
MayRead(c) ==
    /\ at[c] = "idle" /\ entry # "absent" /\ readable /\ MayClean
    /\ IF c = Own THEN queued ELSE expired

Read(c) ==
    /\ MayRead(c)
    /\ queued' = (queued /\ c # Own)
    /\ seen' = [seen EXCEPT ![c] = entry]
    /\ todo' = [todo EXCEPT ![c] = DocsToClean(entry)]
    /\ Goto(c, "docs")
    /\ UNCHANGED <<storeVars, owner, expired, decided, got, faults, foreign>>

\* The queue has taken the attempt off and finds no entry, one it may not clean, or an
\* unreadable record.
ReadsNothing ==
    /\ at[Own] = "idle" /\ queued
    /\ entry = "absent" \/ ~readable \/ ~MayClean
    /\ queued' = FALSE
    /\ UNCHANGED <<storeVars, owner, expired, decided, cleanVars, faults, foreign>>

-----------------------------------------------------------------------------
(* cleanup_docs, do_per_doc *)

\* The lists are worked off one after the other: insertions, replacements, removals.
NextDocs(c) ==
    IF todo[c] \cap Inserted # {}      THEN todo[c] \cap Inserted
    ELSE IF todo[c] \cap Replaced # {} THEN todo[c] \cap Replaced
    ELSE                                    todo[c]

\* The body is the one the mutation was staged over (crc32_of_staging).
SameCrc(d) == doc[d].body = IF d \in Inserted THEN "none" ELSE "old"

\* Only remove_txn_links is called whatever the checksum.
RequiresCrc(c, d) == seen[c] = "COMMITTED" \/ d \in Inserted

IsToBeCleaned(c, d) ==
    /\ doc[d].stg \in Mutations
    /\ RequiresCrc(c, d) => SameCrc(d)

\* A lookup that is not answered ends the cleaning.
LooksUp(c, d) ==
    /\ at[c] = "docs" /\ d \in NextDocs(c)
    /\ \/ /\ IsToBeCleaned(c, d)
          /\ got' = [got EXCEPT ![c] = [doc |-> d, was |-> doc[d]]]
          /\ Goto(c, "write")
          /\ UNCHANGED <<seen, todo, faults>>
       \/ ~IsToBeCleaned(c, d) /\ Passes(c, d) /\ UNCHANGED faults
       \/ faults < MaxFaults /\ faults' = faults + 1 /\ GivesUp(c)
    /\ UNCHANGED <<storeVars, ownerVars, foreign>>

\* remove_request with a CAS.
AnswerToRemoveAt(d, cas) ==
    IF AnswerToRemove(doc[d]) # "OK" THEN AnswerToRemove(doc[d])
    ELSE IF doc[d].cas # cas THEN "CAS_MISMATCH" ELSE "OK"

\* Mutant: links are removed, and content is written, at any CAS.
NaturalAnswerAnyCas(c, d) ==
    CASE seen[c] = "COMMITTED" /\ d \in Inserted -> AnswerToInsert(doc[d])
      [] seen[c] = "COMMITTED" /\ d \in Removed  -> AnswerToRemoveAt(d, got[c].was.cas)
      [] OTHER -> AnswerToUnstaging(doc[d], 0, seen[c] = "ABORTED")

\* commit_docs of a tombstone sends an insert, which carries no CAS; everything else
\* is sent at the CAS of the lookup.  Only what rolls back reaches a tombstone.
NaturalAnswer(c, d) ==
    CASE seen[c] = "COMMITTED" /\ d \in Inserted -> AnswerToInsert(doc[d])
      [] seen[c] = "COMMITTED" /\ d \in Removed  -> AnswerToRemoveAt(d, got[c].was.cas)
      [] OTHER -> AnswerToUnstaging(doc[d], got[c].was.cas, seen[c] = "ABORTED")

\* Mutant: the links are removed whatever the status, and nothing is written.
CleanedOfLinks(status, d) == Staged(doc[d], "none")

\* What the request leaves: the staged content or no document; or the body as it is.
Cleaned(status, d) ==
    IF status = "ABORTED" THEN Staged(doc[d], "none")
    ELSE Mutated(doc[d], IF d \in Removed THEN "none" ELSE "new", "none")

\* commit_docs, remove_docs, remove_docs_staged_for_removal, remove_txn_links: a
\* document that is not there is passed over, and so is a path that is not there
\* (wrap_operation_future ignores it); any other error ends the cleaning.
Writes(c, d) ==
    /\ at[c] = "write" /\ got[c].doc = d
    /\ \E ans \in Possible(NaturalAnswer(c, d)) :
        /\ Request(d, ans, Cleaned(seen[c], d))
        /\ IF ans.class \in {"OK", "DOC_NOT_FOUND", "PATH_NOT_FOUND"}
           THEN Passes(c, d) ELSE GivesUp(c)
    /\ UNCHANGED <<entry, readable, compat, ownerVars, foreign>>

-----------------------------------------------------------------------------
(* cleanup_entry *)

\* An entry read as PENDING is removed only together with the insertion of "p",
\* which is refused once the attempt has marked the entry.
\* Mutants: "p" is never inserted; it is inserted for every status.
EntryMayGoUnprotected(c) == entry # "absent"
EntryMayGoIfPending(c)   == entry = "PENDING"

EntryMayGo(c) == entry # "absent" /\ (seen[c] = "PENDING" => entry = "PENDING")

RemovesEntry(c) ==
    /\ at[c] = "docs" /\ todo[c] = {}
    /\ \/ /\ EntryMayGo(c) /\ entry' = "absent"
          /\ UNCHANGED faults
       \/ ~EntryMayGo(c) /\ UNCHANGED <<entry, faults>>
       \/ faults < MaxFaults /\ faults' = faults + 1
          /\ entry' \in {entry} \cup (IF EntryMayGo(c) THEN {"absent"} ELSE {})
    /\ Goto(c, "idle")
    /\ UNCHANGED <<doc, readable, compat, ownerVars, seen, todo, got, foreign>>

\* The client of a cleaner dies; its queue dies with it.
Dies(c) ==
    /\ c # Survivor /\ at[c] # "dead"
    /\ Goto(c, "dead")
    /\ queued' = (queued /\ c # Own)
    /\ UNCHANGED <<storeVars, owner, expired, decided, seen, todo, got, faults, foreign>>

CleanerStep(c) == Read(c) \/ RemovesEntry(c) \/ \E d \in Docs : LooksUp(c, d) \/ Writes(c, d)

-----------------------------------------------------------------------------
(* The attempt, and others *)

\* It marks its entry as committed or aborted, together with the insertion of "p".
Decides(status) ==
    /\ owner /\ entry = "PENDING"
    /\ entry' = status /\ decided' = status
    /\ UNCHANGED <<doc, readable, compat, owner, queued, expired, cleanVars, faults, foreign>>

\* It writes or unstages a document, at the CAS it has of it.
Unstages(d) ==
    /\ owner /\ decided # "none" /\ doc[d].stg \in Mutations
    /\ decided = "COMMITTED" => SameCrc(d)
    /\ doc' = [doc EXCEPT ![d] = Cleaned(decided, d)]
    /\ UNCHANGED <<entry, readable, compat, ownerVars, cleanVars, faults, foreign>>

\* It is done and removes its entry; or it ends on the way, and its client puts it
\* in the queue or dies.
Completes ==
    /\ owner /\ decided # "none"
    /\ \A d \in Docs : doc[d].stg \notin Mutations
    /\ owner' = FALSE /\ entry' = "absent"
    /\ UNCHANGED <<doc, readable, compat, queued, expired, decided, cleanVars, faults, foreign>>

Stops ==
    /\ owner /\ owner' = FALSE
    /\ queued' = (at[Own] # "dead")
    /\ UNCHANGED <<storeVars, expired, decided, cleanVars, faults, foreign>>

Expires ==
    /\ ~expired /\ expired' = TRUE
    /\ UNCHANGED <<storeVars, owner, queued, decided, cleanVars, faults, foreign>>

\* An attempt of this library commits after its own entry was removed, which
\* creates an entry without a status in the same record (Attempt, AtrListsWritten),
\* and its client dies before it removes that entry.
SiblingBreaksRecord ==
    /\ readable /\ readable' = FALSE
    /\ UNCHANGED <<doc, entry, compat, ownerVars, cleanVars, faults, foreign>>

Foreign(d, next) ==
    /\ foreign < MaxForeign /\ foreign' = foreign + 1
    /\ doc' = [doc EXCEPT ![d] = next]
    /\ UNCHANGED <<entry, readable, compat, ownerVars, cleanVars, faults>>

\* Outside any transaction: a full write keeps the xattrs of a document that is
\* there; a new document and a removal have none.
ForeignWrite(d) ==
    \/ doc[d].body # "none" /\ Foreign(d, Mutated(doc[d], "foreign", doc[d].stg))
    \/ doc[d].body = "none" /\ Foreign(d, Mutated(doc[d], "foreign", "none"))
    \/ doc[d].body # "none" /\ Foreign(d, Mutated(doc[d], "none", "none"))

\* Another transaction stages on a document that is free, or whose attempt has no entry.
RivalStages(d) ==
    /\ doc[d].stg = "none" \/ (doc[d].stg \in Mutations /\ entry = "absent")
    /\ Foreign(d, Staged(doc[d], "rival"))

Surroundings ==
    \/ (\E s \in Decisions : Decides(s)) \/ Completes \/ Stops \/ Expires \/ SiblingBreaksRecord
    \/ \E d \in Docs : Unstages(d) \/ ForeignWrite(d) \/ RivalStages(d)
    \/ \E c \in Cleaners : Dies(c)

Next == (\E c \in Cleaners : CleanerStep(c)) \/ ReadsNothing \/ Surroundings

Spec == Init /\ [][Next]_vars

\* A client that lives goes through the records again and again (lost_attempts_loop),
\* its requests are answered, and time passes.
FairSpec == Spec /\ WF_vars(CleanerStep(Survivor)) /\ WF_vars(Expires)

-----------------------------------------------------------------------------
(* Safety *)

\* The entry of an attempt that has decided goes only when nothing it names is left
\* staged, whoever removes it and whatever the cleaners knew: a document still staged
\* has been overwritten, so that its checksum forbids commit_docs to touch it.
EntryOutlivesStaging ==
    (entry = "absent" /\ decided # "none") =>
        \A d \in Docs : doc[d].stg \in Mutations => decided = "COMMITTED" /\ ~SameCrc(d)

\* No cleaner writes what the attempt has not decided: a staged mutation becomes
\* visible only if the entry was marked as committed, and is dropped only if it was
\* marked as aborted; and neither unless it asks for nothing the cleaner does not have.
CleanersFollowDecision ==
    [][\A d \in Docs, c \in Cleaners :
        (at[c] = "write" /\ at'[c] # "write" /\ doc'[d] # doc[d]) =>
            /\ MayClean
            /\ decided = IF doc'[d].body = doc[d].body THEN "ABORTED" ELSE "COMMITTED"]_vars

\* A cleaner changes no document but one that holds the attempt's mutation, with one
\* exception: the insert of commit_docs has no CAS and adds a document that was
\* inserted and removed again since the lookup.
CleanersSpareOthers ==
    [][\A d \in Docs, c \in Cleaners :
        (at[c] = "write" /\ at'[c] # "write" /\ doc'[d] # doc[d]) =>
            doc[d].stg \in Mutations \/ (d \in Inserted /\ doc[d].body = "none")]_vars

-----------------------------------------------------------------------------
(* Liveness *)

\* A lost attempt is cleaned by a client that lives, unless another attempt has left
\* its record in a state that map_to_atr cannot parse, or the entry is for later versions.
LostIsCleaned == <>(entry = "absent" \/ ~readable \/ ~MayClean)

\* "examine any it finds": an entry in a record that is there is examined.
EveryEntryExamined == <>(entry = "absent" \/ ~MayClean \/ at[Survivor] # "idle")
=============================================================================
