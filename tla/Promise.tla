------------------------------- MODULE Promise -------------------------------
(***************************************************************************)
(* What an attempt promises, whatever happens to its requests: it decides  *)
(* at most once, to commit or to abort; only after deciding to commit does *)
(* it write documents, and only those it has staged; and what it tells the *)
(* application agrees with what it has written.                            *)
(***************************************************************************)
EXTENDS Naturals

CONSTANT Docs

VARIABLES
    decision, \* "open", "commit" or "abort"
    pledged,  \* the documents with a staged mutation
    written,  \* those whose staged mutation has been written
    verdict   \* "none" until the attempt has ended

promiseVars == <<decision, pledged, written, verdict>>

\* "committed": all is written.  "incomplete": it is committed, but cleanup has to
\* finish the writing.  "not_committed": nothing was and nothing will be written.
Verdicts == {"none", "committed", "incomplete", "not_committed"}

PromiseInit ==
    /\ decision = "open"
    /\ pledged = {} /\ written = {}
    /\ verdict = "none"

\* An operation stages a mutation, or takes a staged insert back.  An attempt that
\* fails may end before its last operation does.
Stage ==
    /\ decision = "open" /\ verdict \in {"none", "not_committed"}
    /\ pledged' \in SUBSET Docs
    /\ UNCHANGED <<decision, written, verdict>>

Decide ==
    /\ decision = "open" /\ verdict = "none"
    /\ decision' \in {"commit", "abort"}
    /\ UNCHANGED <<pledged, written, verdict>>

Write(d) ==
    /\ decision = "commit" /\ verdict = "none"
    /\ d \in pledged
    /\ written' = written \cup {d}
    /\ UNCHANGED <<decision, pledged, verdict>>

End ==
    /\ verdict = "none"
    /\ \/ pledged = written /\ verdict' = "committed"
       \/ decision = "commit" /\ verdict' = "incomplete"
       \/ decision # "commit" /\ verdict' = "not_committed"
    /\ UNCHANGED <<decision, pledged, written>>

PromiseNext == Stage \/ Decide \/ (\E d \in Docs : Write(d)) \/ End

PromiseSpec == PromiseInit /\ [][PromiseNext]_promiseVars
=============================================================================
