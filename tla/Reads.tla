------------------------------- MODULE Reads -------------------------------
(***************************************************************************)
(* get and get_optional in key-value mode: do_get, get_doc and the reading *)
(* of the active transaction record of whoever has staged the document.    *)
(*                                                                         *)
(* A read looks at its attempt's own queue, at the document, at the entry  *)
(* of the attempt that staged it, and at the document again when there is  *)
(* no such entry.  Between two of these the attempts of other clients      *)
(* stage, decide, unstage and remove their entries, and operations of the  *)
(* reader's own attempt stage.                                             *)
(*                                                                         *)
(* A value is named after its author.  The other attempts are of libraries *)
(* that mark their entry when they decide (one of this library does not,   *)
(* see Attempt); that no entry goes while its mutations are staged, unless *)
(* the attempt cannot commit any more, is what Cleanup shows.              *)
(***************************************************************************)
EXTENDS ForwardCompat

CONSTANTS
    Docs,
    Rivals,        \* attempts of other clients
    Newer,         \* those of later versions of the protocol
    InLinks,       \* the record of forward compatibility each puts in its links
    InEntry,       \* and in its entry
    Me,            \* the attempt that reads
    Base,          \* the author of what is there at first
    None,          \* no document, or nobody
    Empty,         \* a document with an empty content
    Reads,         \* operations that read
    Optionals,     \* those that are get_optional
    OwnKinds,      \* kinds of mutation the attempt itself stages beside its reads
    MaxFaults      \* bound: failed requests

Attempts == Rivals \cup {Me}
Values   == Attempts \cup {Base, None}
Kinds    == {"insert", "replace", "remove"}

ASSUME ReadsAssumption ==
    /\ Newer \subseteq Rivals /\ {InLinks, InEntry} \subseteq [Newer -> Records]
    /\ Optionals \subseteq Reads /\ OwnKinds \subseteq Kinds
    /\ {Me, Base, None, Empty} \cap Rivals = {} /\ {Me, Base} \cap {None, Empty} = {}
    /\ Me # Base /\ None # Empty
    /\ {"open", "failed", "retry", "unknown"} \cap (Rivals \cup {Me, Base, None, Empty}) = {}
    /\ MaxFaults \in Nat

VARIABLES
    doc,       \* the documents: visible body, who has staged a mutation, of which kind
    entry,     \* the entry of each attempt
    mine,      \* staged_mutations_: kind of the mutation of each document
    at,        \* where each read is
    on,        \* the document it reads
    saw,       \* what it has found there, while it waits for the entry
    resolving, \* resolving_missing_atr_entry, until it has looked again
    result,    \* what its callback is given
    expired, faults,
    valid,     \* history: what the document has been since the read began
    indirect,  \* history: reads that took an own mutation from the store
    misread    \* history: reads that took a failed request for a missing entry

readVars == <<at, on, saw, resolving, result, indirect, misread>>
vars == <<doc, entry, mine, readVars, expired, faults, valid>>

Document == [body : Values, by : Attempts \cup {None}, kind : Kinds \cup {"none"}]
Free(body) == [body |-> body, by |-> None, kind |-> "none"]

TypeOK ==
    /\ doc \in [Docs -> Document]
    /\ \A d \in Docs : (doc[d].by = None) <=> (doc[d].kind = "none")
    /\ entry \in [Attempts -> {"none", "PENDING", "COMMITTED", "ABORTED", "COMPLETED", "gone"}]
    /\ mine \in [Docs -> Kinds \cup {"none"}]
    /\ \A d \in Docs : mine[d] # "none" => doc[d].by = Me /\ doc[d].kind = mine[d]
    /\ at \in [Reads -> {"idle", "start", "lookup", "atr", "done"}]
    /\ on \in [Reads -> Docs]
    /\ saw \in [Reads -> Document]
    /\ \A g \in Reads : at[g] = "atr" => saw[g].by # None
    /\ resolving \in [Reads -> Attempts \cup {None}]
    /\ result \in [Reads -> Values \cup {Empty, "failed", "retry", "open"}]
    /\ \A g \in Reads : (result[g] # "open") <=> (at[g] = "done")
    /\ expired \in BOOLEAN /\ faults \in Nat
    /\ valid \in [Reads -> SUBSET Values]
    /\ indirect \in SUBSET Reads /\ misread \in SUBSET Reads

Init ==
    /\ doc \in [Docs -> {Free(Base), Free(None)}]
    /\ entry = [a \in Attempts |-> "none"]
    /\ mine = [d \in Docs |-> "none"]
    /\ at = [g \in Reads |-> "idle"]
    /\ \E d \in Docs : on = [g \in Reads |-> d]
    /\ saw = [g \in Reads |-> Free(None)]
    /\ resolving = [g \in Reads |-> None]
    /\ result = [g \in Reads |-> "open"]
    /\ expired = FALSE /\ faults = 0
    /\ valid = [g \in Reads |-> {}]
    /\ indirect = {} /\ misread = {}

\* What a staged mutation makes of its document.
Becomes(s) == IF s.kind = "remove" THEN None ELSE s.by

\* A document when the mutations of attempts that have committed count.
Committed(s) ==
    IF s.by # None /\ entry[s.by] \in {"COMMITTED", "COMPLETED"} THEN Becomes(s) ELSE s.body

\* What the reader's attempt may see of it: its own mutation too, from when it has
\* reached the store, and nothing else once the operation that staged it is over.
Views(d) ==
    CASE mine[d] # "none" -> {IF mine[d] = "remove" THEN None ELSE Me}
      [] mine[d] = "none" /\ doc[d].by = Me -> {doc[d].body, Becomes(doc[d])}
      [] OTHER -> {Committed(doc[d])}

-----------------------------------------------------------------------------
(* The read *)

\* Mutant: a read of nothing does not call back.
EndsIfFound(g, value) ==
    /\ at' = [at EXCEPT ![g] = "done"]
    /\ result' = IF value = None THEN result ELSE [result EXCEPT ![g] = value]

\* The end of a read: get fails where get_optional finds nothing.  (For a tombstone
\* get names the class *ec of an empty optional: any class, but a failure.)
Ends(g, value) ==
    /\ at' = [at EXCEPT ![g] = "done"]
    /\ result' = [result EXCEPT ![g] = IF value = None /\ g \notin Optionals THEN "failed" ELSE value]

\* What the library says of the record the attempt a has put there.
Verdict(stage, a, there) == Check(stage, IF a \in Newer THEN there[a] ELSE NoRecord)

\* The links of a document that is returned are checked for the stage GETS.
Returns(g, value, links) ==
    LET verdict == IF value = None THEN "CONTINUE" ELSE Verdict("G", links.by, InLinks) IN
    Ends(g, CASE verdict = "CONTINUE"      -> value
              [] verdict = "RETRY_TXN"     -> "retry"
              [] verdict = "FAIL_FAST_TXN" -> "failed")

Call(g, d) ==
    /\ at[g] = "idle"
    /\ at' = [at EXCEPT ![g] = "start"]
    /\ on' = [on EXCEPT ![g] = d]
    /\ UNCHANGED <<doc, entry, mine, saw, resolving, result, indirect, misread, expired, faults>>

\* check_for_own_write, find_remove.
OwnWrite(d) ==
    CASE mine[d] \in {"insert", "replace"} -> Me
      [] mine[d] = "remove"                -> None
      [] OTHER                             -> "unknown"

\* do_get, up to the request of get_doc.
DoGet(g) ==
    /\ at[g] = "start"
    /\ \/ expired /\ Ends(g, "failed")
       \/ ~expired /\ OwnWrite(on[g]) # "unknown" /\ Ends(g, OwnWrite(on[g]))
       \/ /\ ~expired /\ OwnWrite(on[g]) = "unknown"
          /\ at' = [at EXCEPT ![g] = "lookup"]
          /\ UNCHANGED result
    /\ UNCHANGED <<doc, entry, mine, on, saw, resolving, indirect, misread, expired, faults>>

\* A document whose attempt has no entry is as if that attempt had never been.
Lost(s) == IF s.kind = "insert" THEN None ELSE s.body

\* Mutant: nothing is ever lost.
IsNeverLost(g, s) == FALSE

IsLost(g, s) == s.by # None /\ s.by = resolving[g]

\* The answer to get_doc.
LookedUp(g) ==
    /\ at[g] = "lookup"
    /\ LET s == doc[on[g]] IN
        \/ /\ IsLost(g, s) /\ Returns(g, Lost(s), s)
           /\ UNCHANGED <<saw, faults>>
        \/ /\ s.by = None /\ Ends(g, s.body)
           /\ UNCHANGED <<saw, faults>>
        \/ /\ s.by # None /\ ~IsLost(g, s)
           /\ saw' = [saw EXCEPT ![g] = s]
           /\ at' = [at EXCEPT ![g] = "atr"]
           /\ UNCHANGED <<result, faults>>
        \/ /\ faults < MaxFaults /\ faults' = faults + 1
           /\ Ends(g, "failed")
           /\ UNCHANGED saw
    /\ resolving' = [resolving EXCEPT ![g] = None]
    /\ UNCHANGED <<doc, entry, mine, on, indirect, misread, expired>>

\* Mutant: COMPLETED is not known.
HasCommittedIfMarked(status) == status = "COMMITTED"

HasCommitted(status) == status \in {"COMMITTED", "COMPLETED"}

\* The attempt's own mutation is read from the store; one of a rival as its entry says.
Resolved(s) ==
    CASE s.by = Me -> IF s.kind = "remove" THEN Empty ELSE Me
      [] s.by # Me /\ HasCommitted(entry[s.by]) -> Becomes(s)
      [] OTHER -> Lost(s)

\* The answer to get_atr; the entry is checked for the stage GETS_READING_ATR, where a
\* retry asked for is a failure like any other.  A record that cannot be read counts as
\* one without the entry: the document is looked at again.
ReadsAtr(g) ==
    /\ at[g] = "atr"
    /\ LET s == saw[g] IN
        \/ /\ entry[s.by] \notin {"none", "gone"}
           /\ IF Verdict("G_A", s.by, InEntry) = "CONTINUE"
              THEN Returns(g, Resolved(s), s)
              ELSE Ends(g, "failed")
           /\ indirect' = IF s.by = Me THEN indirect \cup {g} ELSE indirect
           /\ UNCHANGED <<resolving, misread, faults>>
        \/ /\ resolving' = [resolving EXCEPT ![g] = s.by]
           /\ at' = [at EXCEPT ![g] = "start"]
           /\ \/ entry[s.by] \in {"none", "gone"} /\ UNCHANGED <<misread, faults>>
              \/ /\ faults < MaxFaults /\ faults' = faults + 1
                 /\ misread' = misread \cup {g}
           /\ UNCHANGED <<result, indirect>>
    /\ saw' = [saw EXCEPT ![g] = Free(None)]
    /\ UNCHANGED <<doc, entry, mine, on, expired>>

ReadStep(g) == DoGet(g) \/ LookedUp(g) \/ ReadsAtr(g)

-----------------------------------------------------------------------------
(* Operations of the same attempt that stage (module Attempt) *)

StagesOn(a, d, k) ==
    /\ doc[d].by # a /\ (doc[d].by # None => entry[doc[d].by] = "gone")
    /\ IF k = "insert" THEN doc[d].body = None ELSE doc[d].body # None
    /\ doc' = [doc EXCEPT ![d] = [body |-> @.body, by |-> a, kind |-> k]]

\* The mutation reaches the store; its answer adds it to the queue.
OwnStages(d, k) ==
    /\ k \in OwnKinds /\ mine[d] = "none"
    /\ entry' = [entry EXCEPT ![Me] = "PENDING"]
    /\ StagesOn(Me, d, k)
    /\ UNCHANGED <<mine, readVars, expired, faults>>

OwnStaged(d) ==
    /\ doc[d].by = Me /\ mine[d] = "none"
    /\ mine' = [mine EXCEPT ![d] = doc[d].kind]
    /\ UNCHANGED <<doc, entry, readVars, expired, faults>>

-----------------------------------------------------------------------------
(* Other clients *)

Elsewhere == UNCHANGED <<mine, readVars, expired, faults>>

Begins(r) ==
    /\ entry[r] = "none" /\ entry' = [entry EXCEPT ![r] = "PENDING"]
    /\ UNCHANGED doc /\ Elsewhere

RivalStages(r, d, k) == entry[r] = "PENDING" /\ StagesOn(r, d, k) /\ UNCHANGED entry /\ Elsewhere

Decides(r, status) ==
    /\ entry[r] = "PENDING" /\ entry' = [entry EXCEPT ![r] = status]
    /\ UNCHANGED doc /\ Elsewhere

\* The attempt itself, or a cleaner, writes or drops a staged mutation.
Unstages(r, d) ==
    /\ doc[d].by = r /\ entry[r] \in {"COMMITTED", "ABORTED"}
    /\ doc' = [doc EXCEPT ![d] = Free(Committed(@))]
    /\ UNCHANGED entry /\ Elsewhere

\* Some libraries say COMPLETED before the entry goes.
Completes(r) ==
    /\ entry[r] = "COMMITTED" /\ \A d \in Docs : doc[d].by # r
    /\ entry' = [entry EXCEPT ![r] = "COMPLETED"]
    /\ UNCHANGED doc /\ Elsewhere

\* A pending attempt may be given up for lost, while the reader itself is not.
RemovesEntry(r) ==
    /\ \/ entry[r] = "PENDING"
       \/ entry[r] \in {"COMMITTED", "ABORTED", "COMPLETED"} /\ \A d \in Docs : doc[d].by # r
    /\ entry' = [entry EXCEPT ![r] = "gone"]
    /\ UNCHANGED doc /\ Elsewhere

Expires ==
    /\ ~expired /\ expired' = TRUE
    /\ UNCHANGED <<doc, entry, mine, readVars, faults>>

-----------------------------------------------------------------------------

Step ==
    \/ \E g \in Reads : ReadStep(g) \/ (\E d \in Docs : Call(g, d))
    \/ \E d \in Docs : OwnStaged(d) \/ (\E k \in Kinds : OwnStages(d, k))
    \/ \E r \in Rivals : Begins(r) \/ Completes(r) \/ RemovesEntry(r)
    \/ \E r \in Rivals : (\E s \in {"COMMITTED", "ABORTED"} : Decides(r, s))
    \/ \E r \in Rivals, d \in Docs : Unstages(r, d) \/ (\E k \in Kinds : RivalStages(r, d, k))
    \/ Expires

Observes ==
    valid' = [g \in Reads |->
                 IF at'[g] \notin {"start", "lookup", "atr"} THEN valid[g]
                 ELSE valid[g] \cup UNION {Views(d) \cup Views(d)' : d \in {on'[g]}}]

Next == Step /\ Observes

Spec == Init /\ [][Next]_vars

\* Requests are answered.  Nothing is asked of the clock.
FairSpec == Spec /\ \A g \in Reads : WF_vars(ReadStep(g) /\ Observes)

-----------------------------------------------------------------------------
(* Properties *)

\* A read gives what was committed, or staged by its own attempt, at some moment of
\* the read: never a rival's mutation before it is committed, never the document as
\* it was before a commit that the read came after (do_get).  The code makes two
\* exceptions: a request for the record that failed counts as one that found no entry,
\* and a removal of the reader's own that is still in flight reads as an empty document.
ReadsAreCurrent ==
    \A g \in Reads :
        \/ result[g] \in {"open", "failed", "retry"} \cup valid[g]
        \/ g \in misread
        \/ g \in indirect /\ result[g] = Empty

\* A read that has been called ends, however often it finds an entry missing.
ReadsEnd == \A g \in Reads : (at[g] # "idle") ~> (at[g] = "done")

\* "it should be returned from the in-memory cache instead": a read never has to take
\* its attempt's own mutation from the store (do_get).
OwnWriteFromCache == indirect = {}
=============================================================================
