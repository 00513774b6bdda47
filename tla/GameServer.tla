----------------------------- MODULE GameServer -----------------------------
(***************************************************************************)
(* Transactions of this library against each other: the threads of         *)
(* src/examples/game_server.cxx let a player hit a monster, each hit a     *)
(* transaction that reads both documents and changes one or both of them.  *)
(*                                                                         *)
(* An attempt is taken at the grain that other attempts see of it: what    *)
(* it reads, its entry in the ATR, its staged mutations with the CAS they  *)
(* need, its decision, its unstaging.  Whatever goes wrong inside it       *)
(* (module Attempt) comes down to leaving this path for the rollback, or   *)
(* to stopping and leaving behind what is there.  A client that dies is    *)
(* one that does so with all its threads.                                  *)
(*                                                                         *)
(* An entry says PENDING as long as it is there (Attempt, AtrListsWritten).  *)
(* Cleanup removes it once it is too old, whatever its attempt is doing    *)
(* and whether or not it has decided.                                      *)
(***************************************************************************)
EXTENDS Naturals, FiniteSets

CONSTANTS
    Threads,
    HitPoints,   \* of the monster at first
    Damages,     \* what rand() % 80 may yield
    MaxAttempts, \* bound: attempts that begin
    Nobody       \* no attempt

ASSUME GameServerAssumption ==
    /\ HitPoints \in Nat \ {0} /\ Damages \subseteq Nat \ {0} /\ MaxAttempts \in Nat
    /\ Nobody \notin Threads \X Nat

VARIABLES
    doc,      \* body, staged mutation and the attempt it belongs to
    entries,  \* attempts with an entry in the ATR that says PENDING
    broken,   \* attempts with one that says nothing, which makes the record unreadable
    exists,   \* monster_exists
    at,       \* where each thread is
    try,      \* attempts it has begun
    first,    \* the first of these that belongs to its present transaction
    damage,   \* of its present hit
    time,     \* of its transaction: left; or over, but for a last request on its way; or over
    saw,      \* the documents as its present attempt has fetched them
    stale,    \* those that have another CAS by now
    staged,   \* staged_mutations_ of that attempt
    committed, \* history: attempts that have decided to commit
    orphaned   \* history: those of them that were without their entry before they were through

threadVars == <<at, try, first, damage, time, saw, staged>>
vars == <<doc, entries, broken, exists, stale, threadVars, committed, orphaned>>

Docs     == {"monster", "player"}
Attempts == Threads \X Nat
Places   == {"idle", "begin", "monster", "player", "check", "pending", "stage", "commit",
             "unstage", "complete", "abort", "rollback"}

\* A body is the hit points of the monster, or the monsters the player has killed.
Document == [body : Nat, mutation : Nat, by : Attempts \cup {Nobody}]

\* What a fetched document tells.
Seen      == [body : Nat, by : Attempts \cup {Nobody}]
NotSeen   == [d \in Docs |-> [body |-> 0, by |-> Nobody]]

TypeOK ==
    /\ doc \in [Docs -> Document]
    /\ entries \in SUBSET Attempts /\ broken \in SUBSET Attempts
    /\ exists \in BOOLEAN
    /\ at \in [Threads -> Places]
    /\ try \in [Threads -> Nat] /\ first \in [Threads -> Nat]
    /\ damage \in [Threads -> Damages \cup {0}]
    /\ time \in [Threads -> {"left", "last", "over"}]
    /\ saw \in [Threads -> [Docs -> Seen]]
    /\ stale \in [Threads -> SUBSET Docs]
    /\ staged \in [Threads -> SUBSET Docs]
    /\ committed \in SUBSET Attempts /\ orphaned \in SUBSET committed

Free(body) == [body |-> body, mutation |-> 0, by |-> Nobody]

Init ==
    /\ doc = [d \in Docs |-> Free(IF d = "monster" THEN HitPoints ELSE 0)]
    /\ entries = {} /\ broken = {}
    /\ exists = TRUE
    /\ at = [t \in Threads |-> "idle"]
    /\ try = [t \in Threads |-> 0] /\ first = [t \in Threads |-> 0]
    /\ damage = [t \in Threads |-> 0] /\ time = [t \in Threads |-> "left"]
    /\ saw = [t \in Threads |-> NotSeen] /\ stale = [t \in Threads |-> Docs]
    /\ staged = [t \in Threads |-> {}]
    /\ committed = {} /\ orphaned = {}

Attempt(t) == <<t, try[t]>>
\* The attempts that have begun.
Begun == {a \in Threads \X (1..MaxAttempts) : a[2] <= try[a[1]]}

Goto(t, place) == at' = [at EXCEPT ![t] = place]

\* The attempt's context is destroyed, and that of its transaction unless there is
\* another attempt to follow.
Leave(t, place) ==
    /\ Goto(t, place)
    /\ saw' = [saw EXCEPT ![t] = NotSeen]
    /\ stale' = [stale EXCEPT ![t] = Docs]
    /\ staged' = [staged EXCEPT ![t] = {}]
    /\ first' = [first EXCEPT ![t] = IF place = "begin" THEN @ ELSE 0]
    /\ damage' = [damage EXCEPT ![t] = IF place = "begin" THEN @ ELSE 0]
    /\ time' = [time EXCEPT ![t] = IF place = "begin" THEN @ ELSE "left"]

\* A mutation gives the document a new CAS, which its author alone knows.
Put(t, d, new) ==
    /\ doc' = [doc EXCEPT ![d] = new]
    /\ stale' = [u \in Threads |-> IF u = t THEN stale[u] ELSE stale[u] \cup {d}]

Expire(t) ==
    /\ at[t] # "idle" /\ time[t] = "left"
    /\ time' = [time EXCEPT ![t] = "last"]
    /\ UNCHANGED <<doc, entries, broken, exists, at, try, first, damage, saw, stale, staged,
                   committed, orphaned>>

\* check_expiry_during_commit_or_rollback: the clock is looked at, and nothing more.
LooksAtClock(t) == time' = [time EXCEPT ![t] = IF @ = "left" THEN @ ELSE "over"]

\* check_expiry_pre_commit: out of time nothing is sent any more, but what was sent
\* before may still arrive.
InTime(t) == time[t] # "over" /\ LooksAtClock(t)

-----------------------------------------------------------------------------
(* The thread, and what it does in a transaction (player_hits_monster) *)

\* The loop over monster_exists: a new transaction; or transactions::run tries again.
Begin(t) ==
    /\ \/ at[t] = "idle" /\ exists /\ first' = [first EXCEPT ![t] = try[t] + 1]
          /\ \E dmg \in Damages : damage' = [damage EXCEPT ![t] = dmg]
       \/ at[t] = "begin" /\ UNCHANGED <<first, damage>>
    /\ Cardinality(Begun) < MaxAttempts
    /\ try' = [try EXCEPT ![t] = @ + 1]
    /\ Goto(t, "monster")
    /\ UNCHANGED <<doc, entries, broken, exists, time, saw, stale, staged, committed, orphaned>>

\* do_get: a mutation others have staged is seen only with an entry that says COMMITTED.
Fetch(t, d) ==
    /\ saw' = [saw EXCEPT ![t][d] = [body |-> doc[d].body, by |-> doc[d].by]]
    /\ stale' = [stale EXCEPT ![t] = @ \ {d}]

GetMonster(t) ==
    /\ at[t] = "monster"
    /\ \/ /\ doc["monster"].body = 0 /\ time[t] # "over"
          /\ exists' = FALSE
          /\ Leave(t, "idle")
       \/ /\ doc["monster"].body # 0 /\ InTime(t)
          /\ Fetch(t, "monster")
          /\ Goto(t, "player")
          /\ UNCHANGED <<exists, first, damage, staged>>
    /\ UNCHANGED <<doc, entries, broken, try, committed, orphaned>>

GetPlayer(t) ==
    /\ at[t] = "player" /\ InTime(t)
    /\ Fetch(t, "player")
    /\ Goto(t, "check")
    /\ UNCHANGED <<doc, entries, broken, exists, try, first, damage, staged, committed, orphaned>>

\* The monster is replaced, or removed and the player replaced.
Kills(t)   == saw[t]["monster"].body <= damage[t]
Targets(t) == IF Kills(t) THEN Docs ELSE {"monster"}

\* Mutant: a dead monster is replaced like a living one.
NewBodyOfLiving(t, d) ==
    IF d = "player" THEN saw[t][d].body + 1 ELSE saw[t][d].body - damage[t]

NewBody(t, d) ==
    CASE d = "player" -> saw[t][d].body + 1
      [] d = "monster" -> IF Kills(t) THEN 0 ELSE saw[t][d].body - damage[t]

NextTarget(t) == IF "monster" \in staged[t] THEN "player" ELSE "monster"

-----------------------------------------------------------------------------
(* The library, up to the decision *)

\* An attempt of the same transaction does not count.
SameTransaction(t, a) == a[1] = t /\ a[2] >= first[t]

\* Mutant: the entry of whoever has staged the document is not looked up.
NeverBlocked(t, d) == FALSE

\* Whoever has staged the document keeps its entry, or one cannot tell.
Blocked(t, d) ==
    LET by == saw[t][d].by IN
    by # Nobody /\ ~SameTransaction(t, by) /\ (by \in entries \/ broken # {})

\* check_and_handle_blocking_transactions, then select_atr_if_needed_unlocked; the
\* document is staged later, whatever has become of the entry by then.
Check(t) ==
    /\ at[t] = "check" /\ InTime(t)
    /\ ~Blocked(t, NextTarget(t))
    /\ Goto(t, IF staged[t] = {} THEN "pending" ELSE "stage")
    /\ UNCHANGED <<doc, entries, broken, exists, try, first, damage, saw, stale, staged,
                   committed, orphaned>>

SetAtrPending(t) ==
    /\ at[t] = "pending" /\ InTime(t)
    /\ entries' = entries \cup {Attempt(t)}
    /\ Goto(t, "stage")
    /\ UNCHANGED <<doc, broken, exists, try, first, damage, saw, stale, staged, committed, orphaned>>

\* The CAS the document was fetched or staged with is still its CAS.
CasMatches(t, d) == d \notin stale[t]

\* The request that stages; an answer that says it failed may be wrong.
Stage(t, d) ==
    /\ at[t] = "stage" /\ InTime(t)
    /\ d = NextTarget(t) /\ CasMatches(t, d)
    /\ Put(t, d, [doc[d] EXCEPT !.mutation = NewBody(t, d), !.by = Attempt(t)])
    /\ \/ /\ staged' = [staged EXCEPT ![t] = @ \cup {d}]
          /\ Goto(t, IF staged'[t] = Targets(t) THEN "commit" ELSE "check")
       \/ Goto(t, "abort") /\ UNCHANGED staged
    /\ UNCHANGED <<entries, broken, exists, try, first, damage, saw, committed, orphaned>>

\* A conflict, a CAS that does not match, an expiry or an error of any request.  An
\* attempt without an entry has nothing to abort.
Fails(t) ==
    /\ at[t] \in {"monster", "player", "check", "pending", "stage", "commit"}
    /\ Goto(t, IF at[t] \in {"stage", "commit"} \/ staged[t] # {} THEN "abort" ELSE "rollback")
    /\ UNCHANGED <<doc, entries, broken, exists, try, first, damage, time, saw, stale, staged,
                   committed, orphaned>>

-----------------------------------------------------------------------------
(* The decision and what follows *)

\* The lists of documents are all that is written: an entry that is gone is created
\* without a status.
AtrListsWritten(t) ==
    broken' = IF Attempt(t) \in entries THEN broken ELSE broken \cup {Attempt(t)}

\* atr_commit
Commit(t) ==
    /\ at[t] = "commit" /\ InTime(t)
    /\ AtrListsWritten(t)
    /\ committed' = committed \cup {Attempt(t)}
    /\ orphaned' = orphaned \cup ({Attempt(t)} \ entries)
    /\ Goto(t, "unstage")
    /\ UNCHANGED <<doc, entries, exists, try, first, damage, saw, stale, staged>>

\* commit_doc, remove_doc.  A removal carries no CAS; a replacement that meets another
\* CAS is sent again without one, unless the attempt knows that it is in overtime.
MayUnstage(t, d) ==
    /\ d = "monster" => doc[d].body # 0
    /\ CasMatches(t, d) \/ (d = "monster" /\ Kills(t)) \/ time[t] # "over"

Unstage(t, d) ==
    /\ at[t] = "unstage" /\ d \in staged[t] /\ LooksAtClock(t)
    /\ MayUnstage(t, d)
    /\ Put(t, d, Free(NewBody(t, d)))
    /\ staged' = [staged EXCEPT ![t] = @ \ {d}]
    /\ IF staged[t] = {d} THEN Goto(t, "complete") ELSE UNCHANGED at
    /\ UNCHANGED <<entries, broken, exists, try, first, damage, saw, committed, orphaned>>

AtrAbort(t) ==
    /\ at[t] = "abort"
    /\ AtrListsWritten(t)
    /\ Goto(t, "rollback")
    /\ UNCHANGED <<doc, entries, exists, try, first, damage, time, saw, stale, staged,
                   committed, orphaned>>

\* rollback_remove_or_replace
RollbackDoc(t, d) ==
    /\ at[t] = "rollback" /\ d \in staged[t] /\ CasMatches(t, d)
    /\ Put(t, d, Free(doc[d].body))
    /\ staged' = [staged EXCEPT ![t] = @ \ {d}]
    /\ UNCHANGED <<entries, broken, exists, at, try, first, damage, time, saw, committed, orphaned>>

\* atr_complete and atr_rollback_complete remove the entry; the transaction is over,
\* or it is tried again.
End(t) ==
    /\ \/ at[t] = "complete" /\ Leave(t, "idle")
       \/ at[t] = "rollback" /\ staged[t] = {} /\ Leave(t, "idle")
       \/ at[t] = "rollback" /\ staged[t] = {} /\ time[t] = "left" /\ Leave(t, "begin")
    /\ entries' = entries \ {Attempt(t)}
    /\ broken' = broken \ {Attempt(t)}
    /\ UNCHANGED <<doc, exists, try, committed, orphaned>>

\* The attempt stops where it is, and the transaction with it; its last write of the
\* entry may have arrived.
GivesUp(t) ==
    /\ at[t] \in {"commit", "unstage", "complete", "abort", "rollback"}
    /\ UNCHANGED broken \/ (at[t] \in {"commit", "abort"} /\ AtrListsWritten(t))
    /\ Leave(t, "idle")
    /\ UNCHANGED <<doc, entries, exists, try, committed, orphaned>>

\* Cleanup removes the entry of an attempt that has stopped, or that is older than its
\* time; the latter may be at any step.  As the entry says PENDING the documents are left
\* as they are (do_per_doc is not called).  An unreadable record is left alone.
Cleaned(a) ==
    /\ a \in entries /\ broken = {}
    /\ a = Attempt(a[1]) /\ at[a[1]] \notin {"idle", "begin"} => time[a[1]] # "left"
    /\ entries' = entries \ {a}
    /\ orphaned' = orphaned \cup {b \in {a} \cap committed : \E d \in Docs : doc[d].by = b}
    /\ UNCHANGED <<doc, broken, exists, stale, threadVars, committed>>

Next ==
    \/ \E t \in Threads :
        \/ Begin(t) \/ GetMonster(t) \/ GetPlayer(t) \/ Expire(t)
        \/ Check(t) \/ SetAtrPending(t) \/ Commit(t) \/ Fails(t) \/ AtrAbort(t)
        \/ End(t) \/ GivesUp(t)
        \/ \E d \in Docs : Stage(t, d) \/ Unstage(t, d) \/ RollbackDoc(t, d)
    \/ \E a \in entries : Cleaned(a)

Spec == Init /\ [][Next]_vars

-----------------------------------------------------------------------------
(* Properties *)

\* What the documents are when the mutations of attempts that have committed count.
Effective(d) == IF doc[d].by \in committed THEN doc[d].mutation ELSE doc[d].body

HitsAreAtomic == INSTANCE Game WITH
    hp <- Effective("monster"), xp <- Effective("player"),
    hits <- Cardinality(committed), over <- ~exists

\* However hits of several threads overlap, fail, are tried again, expire or are
\* abandoned at any step: every hit that commits has the effect it would have alone, on
\* what the hits before it have left; none is lost, none counts twice, the player is
\* rewarded exactly when the monster dies, and a thread stops only because it is dead.
\* This ends when for the first time the entry of an attempt is gone while something it
\* has decided to write is still staged: the entry is all that protects it.
EveryHitCounts ==
    /\ HitsAreAtomic!GameInit
    /\ [][orphaned' = {} => [HitsAreAtomic!GameNext]_(HitsAreAtomic!gameVars)]_vars

\* "All staged replaces, inserts and removals will be written": the same, whatever
\* cleanup does.
AllHitsCount == HitsAreAtomic!GameSpec
=============================================================================
