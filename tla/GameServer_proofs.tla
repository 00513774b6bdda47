--------------------------- MODULE GameServer_proofs ---------------------------
(***************************************************************************)
(* Theorems about GameServer, for every number of threads, attempts and    *)
(* hit points, and for every damage: hits are atomic until for the first   *)
(* time the entry of an attempt is gone while something it has decided to  *)
(* write is still staged.                                                  *)
(***************************************************************************)
EXTENDS GameServer, FiniteSetTheorems, TLAPS

-----------------------------------------------------------------------------
(* The inductive invariant *)

Types == TypeOK /\ IsFiniteSet(committed)

\* No attempt is known before it has begun.
Numbered ==
    /\ \A a \in entries \cup committed : a[2] <= try[a[1]]
    /\ \A d \in Docs : doc[d].by # Nobody => doc[d].by[2] <= try[doc[d].by[1]]

\* What is staged by an attempt that has decided has its entry; who finds the monster
\* dead finds nothing staged on it.
StoreFits ==
    /\ \A d \in Docs : doc[d].by \in committed => doc[d].by \in entries
    /\ doc["monster"].by # Nobody => doc["monster"].body > 0

Fetching == {"player", "check", "pending", "stage", "commit"}
Staging  == {"check", "stage", "commit", "unstage"}

\* What a thread holds of a document is true while the CAS is that of the document.
FetchFits(t) ==
    /\ at[t] \in {"idle", "begin", "monster"} => stale[t] = Docs
    /\ at[t] \in Fetching =>
        \A d \in Docs \ (stale[t] \cup staged[t]) :
            saw[t][d].body = doc[d].body /\ saw[t][d].by = doc[d].by
    /\ at[t] \in Fetching \cup {"unstage"} => saw[t]["monster"].body > 0
    /\ at[t] # "idle" => damage[t] \in Damages

\* The entry locks what its attempt has staged: nobody else changes it.
StagingFits(t) ==
    /\ at[t] \notin Staging \cup {"abort", "rollback"} => staged[t] = {}
    /\ at[t] \in Staging => staged[t] \subseteq Targets(t)
    /\ at[t] = "commit" => staged[t] = Targets(t)
    /\ at[t] \in {"check", "pending", "stage"} => NextTarget(t) \in Targets(t) \ staged[t]
    /\ at[t] = "unstage" => staged[t] # {} /\ Attempt(t) \in entries
    /\ Attempt(t) \in entries => staged[t] \cap stale[t] = {}
    /\ \A d \in staged[t] \ stale[t] : doc[d].by = Attempt(t)
    /\ at[t] \in Staging =>
        \A d \in staged[t] \ stale[t] :
            doc[d].mutation = NewBody(t, d) /\ doc[d].body = saw[t][d].body
    /\ at[t] \in Fetching \cup {"monster", "unstage", "complete"} =>
        \A d \in Docs : doc[d].by = Attempt(t) => d \in staged[t]

\* Whoever had staged the document when it was looked up cannot decide any more.
CheckedFits(t) ==
    at[t] \in {"pending", "stage"} /\ NextTarget(t) \notin stale[t] =>
        LET by == doc[NextTarget(t)].by IN
        by \notin committed /\ (by \in entries => SameTransaction(t, by))

\* An attempt that has decided is unstaging, or has unstaged everything, and is the
\* last of its transaction.
DecisionFits(t) ==
    /\ Attempt(t) \in committed => at[t] \in {"idle", "unstage", "complete"}
    /\ at[t] = "unstage" => Attempt(t) \in committed
    /\ at[t] \notin {"idle", "unstage", "complete"} =>
        \A a \in committed : a[1] = t => a[2] < first[t]

ThreadFits(t) == FetchFits(t) /\ StagingFits(t) /\ CheckedFits(t) /\ DecisionFits(t)

Fits == Numbered /\ StoreFits /\ \A t \in Threads : ThreadFits(t)

IInv == Types /\ (orphaned = {} => Fits)

-----------------------------------------------------------------------------
(* What a step of one thread is to the others *)

LEMMA Ids ==
    ASSUME TypeOK, NEW t \in Threads
    PROVE  /\ Attempt(t) \in Attempts /\ Attempt(t) # Nobody
           /\ Attempt(t)[1] = t /\ Attempt(t)[2] = try[t]
           /\ \A u \in Threads : Attempt(u) = Attempt(t) => u = t
BY GameServerAssumption DEF TypeOK, Attempt, Attempts

LEMMA DamageIsNumber == ASSUME TypeOK, NEW t \in Threads PROVE damage[t] \in Nat
<1>1. damage[t] \in Damages \cup {0}
  BY DEF TypeOK
<1>2. \A dmg \in Damages : dmg \in Nat
  BY GameServerAssumption
<1> QED
  BY <1>1, <1>2

LEMMA NextTargetIsDoc ==
    ASSUME NEW t \in Threads
    PROVE  NextTarget(t) \in Docs /\ Targets(t) \subseteq Docs
BY DEF NextTarget, Targets, Docs

\* The other threads and their contexts stay as they are, and their entries; an attempt
\* comes into the ATR before anything of it is staged, and decides while it is there.
Spares(t) ==
    /\ \A u \in Threads \ {t} :
        /\ at'[u] = at[u] /\ try'[u] = try[u] /\ first'[u] = first[u]
        /\ damage'[u] = damage[u] /\ saw'[u] = saw[u] /\ staged'[u] = staged[u]
        /\ stale[u] \subseteq stale'[u]
        /\ Attempt(u) \in entries => Attempt(u) \in entries'
    /\ \A a \in entries' \ entries : a = Attempt(t) /\ \A d \in Docs : doc[d].by # a
    /\ committed \subseteq committed'
    /\ \A a \in committed' \ committed : a = Attempt(t) /\ a \in entries

\* A document that is changed is one nobody else has staged on who still has an entry,
\* and gets a new CAS.
PutFits(t) ==
    \A u \in Threads \ {t}, d \in Docs :
        /\ doc'[d] # doc[d] => d \in stale'[u] /\ doc'[d].by \in {Attempt(t), Nobody}
        /\ d \in stale'[u] \ stale[u] => (Attempt(u) \in entries => d \notin staged[u])

LEMMA OthersFit ==
    ASSUME TypeOK, TypeOK', Fits, NEW t \in Threads, Spares(t), PutFits(t),
           NEW u \in Threads \ {t}
    PROVE  ThreadFits(u)'
<1>1. /\ at'[u] = at[u] /\ try'[u] = try[u] /\ first'[u] = first[u]
      /\ damage'[u] = damage[u] /\ saw'[u] = saw[u] /\ staged'[u] = staged[u]
      /\ stale[u] \subseteq stale'[u]
      /\ Attempt(u) \in entries => Attempt(u) \in entries'
  BY DEF Spares
<1>2. Attempt(u)' = Attempt(u) /\ Attempt(u) # Attempt(t) /\ Attempt(u) # Nobody
  BY <1>1, Ids DEF Attempt
<1>3. /\ Targets(u)' = Targets(u) /\ NextTarget(u)' = NextTarget(u)
      /\ \A d \in Docs : NewBody(u, d)' = NewBody(u, d)
      /\ \A a : SameTransaction(u, a)' = SameTransaction(u, a)
  BY <1>1 DEF Targets, Kills, NewBody, NextTarget, SameTransaction
<1>4. ThreadFits(u)
  BY DEF Fits
<1>5. \A d \in Docs \ stale'[u] : doc'[d] = doc[d] /\ d \notin stale[u]
  BY <1>1 DEF PutFits
<1>6. \A d \in Docs : doc'[d] # doc[d] => doc'[d].by # Attempt(u)
  BY <1>2 DEF PutFits
<1>7. staged[u] \subseteq Docs /\ stale'[u] \subseteq Docs /\ stale[u] \subseteq Docs
  BY DEF TypeOK
<1>8. FetchFits(u)'
  BY <1>1, <1>4, <1>5, <1>7 DEF FetchFits, ThreadFits
<1>9. StagingFits(u)'
  <2>1. Attempt(u) \in entries' => Attempt(u) \in entries
    BY <1>2 DEF Spares
  <2>2. Attempt(u) \in entries => staged[u] \cap stale'[u] = {}
    BY <1>4, <1>7 DEF PutFits, StagingFits, ThreadFits
  <2> QED
    BY <1>1, <1>2, <1>3, <1>4, <1>5, <1>6, <1>7, <2>1, <2>2 DEF StagingFits, ThreadFits
<1>10. CheckedFits(u)'
  <2> SUFFICES ASSUME at[u] \in {"pending", "stage"}, NextTarget(u) \notin stale'[u]
               PROVE  LET by == doc'[NextTarget(u)].by IN
                      by \notin committed' /\ (by \in entries' => SameTransaction(u, by))
    BY <1>1, <1>3 DEF CheckedFits
  <2> DEFINE by == doc[NextTarget(u)].by
  <2>1. NextTarget(u) \in Docs
    BY NextTargetIsDoc
  <2>2. doc'[NextTarget(u)].by = by /\ NextTarget(u) \notin stale[u]
    BY <1>5, <2>1
  <2>3. by \notin committed /\ (by \in entries => SameTransaction(u, by))
    BY <1>4, <2>2 DEF CheckedFits, ThreadFits
  <2>4. by \in entries' => by \in entries
    BY <2>1 DEF Spares
  <2>5. by \notin committed'
    <3>1. ~SameTransaction(u, Attempt(t))
      BY Ids DEF SameTransaction
    <3> QED
      BY <2>3, <3>1 DEF Spares
  <2> QED
    BY <2>2, <2>3, <2>4, <2>5
<1>11. DecisionFits(u)'
  <2>1. Attempt(u) \in committed' <=> Attempt(u) \in committed
    BY <1>2 DEF Spares
  <2>2. \A a \in committed' : a[1] = u => a \in committed
    BY Ids DEF Spares
  <2> QED
    BY <1>1, <1>2, <1>4, <2>1, <2>2 DEF DecisionFits, ThreadFits
<1> QED
  BY <1>8, <1>9, <1>10, <1>11 DEF ThreadFits

\* The attempt of one thread is as it was, or begins, to all of the others.
LEMMA NumberedStays ==
    ASSUME TypeOK, TypeOK', Numbered, \A u \in Threads : try[u] <= try'[u],
           \A a \in (entries' \cup committed') \ (entries \cup committed) :
               \E t \in Threads : a = Attempt(t),
           \A d \in Docs : \/ doc'[d].by = doc[d].by
                          \/ doc'[d].by = Nobody
                          \/ \E t \in Threads : doc'[d].by = Attempt(t)
    PROVE  Numbered'
<1>1. \A a \in Attempts : /\ a[1] \in Threads /\ a[2] \in Nat
                         /\ try[a[1]] \in Nat /\ try'[a[1]] \in Nat /\ try[a[1]] <= try'[a[1]]
  BY DEF TypeOK, Attempts
<1>2. \A t \in Threads : Attempt(t) \in Attempts /\ Attempt(t)[2] <= try[Attempt(t)[1]]
  BY Ids DEF TypeOK
<1>3. \A a \in Attempts : a[2] <= try[a[1]] => a[2] <= try'[a[1]]
  BY <1>1
<1>4. \A a \in (entries \cup committed)' : a[2] <= try'[a[1]]
  BY <1>2, <1>3 DEF Numbered, TypeOK
<1>5. ASSUME NEW d \in Docs, doc'[d].by # Nobody
      PROVE  doc'[d].by[2] <= try'[doc'[d].by[1]]
  <2>1. doc[d].by \in Attempts \cup {Nobody}
    BY DEF TypeOK, Document
  <2>2. CASE doc'[d].by = doc[d].by
    BY <1>3, <1>5, <2>1, <2>2 DEF Numbered
  <2>3. CASE \E t \in Threads : doc'[d].by = Attempt(t)
    BY <1>2, <1>3, <2>3
  <2> QED
    BY <1>5, <2>2, <2>3
<1> QED
  BY <1>4, <1>5 DEF Numbered

-----------------------------------------------------------------------------
(* Types *)

\* What is staged for the monster is never below zero.
LEMMA NewBodyIsNumber ==
    ASSUME TypeOK, NEW t \in Threads, NEW d \in Docs
    PROVE  NewBody(t, d) \in Nat
<1>1. saw[t]["monster"].body \in Nat /\ saw[t]["player"].body \in Nat /\ damage[t] \in Nat
  BY DamageIsNumber DEF TypeOK, Docs, Seen
<1>2. Kills(t) \/ saw[t]["monster"].body - damage[t] \in Nat
  BY <1>1 DEF Kills
<1> QED
  BY <1>1, <1>2 DEF NewBody, Docs

LEMMA LeaveTypes ==
    ASSUME TypeOK, NEW t \in Threads, NEW place \in {"idle", "begin"}, Leave(t, place)
    PROVE  /\ at' \in [Threads -> Places]
           /\ saw' \in [Threads -> [Docs -> Seen]] /\ stale' \in [Threads -> SUBSET Docs]
           /\ staged' \in [Threads -> SUBSET Docs]
           /\ first' \in [Threads -> Nat] /\ damage' \in [Threads -> Damages \cup {0}]
           /\ time' \in [Threads -> {"left", "last", "over"}]
<1>1. NotSeen \in [Docs -> Seen]
  BY DEF NotSeen, Seen
<1>2. at' \in [Threads -> Places] /\ saw' \in [Threads -> [Docs -> Seen]]
  BY <1>1 DEF TypeOK, Leave, Goto, Places
<1>3. stale' \in [Threads -> SUBSET Docs] /\ staged' \in [Threads -> SUBSET Docs]
  BY DEF TypeOK, Leave
<1>4. /\ first' \in [Threads -> Nat] /\ damage' \in [Threads -> Damages \cup {0}]
      /\ time' \in [Threads -> {"left", "last", "over"}]
  BY DEF TypeOK, Leave
<1> QED
  BY <1>2, <1>3, <1>4

LEMMA ClockTypes ==
    ASSUME TypeOK, NEW t \in Threads, LooksAtClock(t)
    PROVE  time' \in [Threads -> {"left", "last", "over"}]
BY DEF TypeOK, LooksAtClock

LEMMA TypeStep == ASSUME TypeOK, [Next]_vars PROVE TypeOK'
<1>1. CASE UNCHANGED vars
  BY <1>1 DEF TypeOK, vars, threadVars
<1>2. ASSUME NEW t \in Threads, Begin(t) PROVE TypeOK'
  <2>1. damage' \in [Threads -> Damages \cup {0}] /\ first' \in [Threads -> Nat]
    <3>1. /\ damage \in [Threads -> Damages \cup {0}] /\ first \in [Threads -> Nat]
          /\ try[t] + 1 \in Nat
      BY DEF TypeOK
    <3>2. CASE UNCHANGED <<first, damage>>
      BY <3>1, <3>2
    <3>3. CASE /\ first' = [first EXCEPT ![t] = try[t] + 1]
               /\ \E dmg \in Damages : damage' = [damage EXCEPT ![t] = dmg]
      BY <3>1, <3>3
    <3> QED
      BY <1>2, <3>2, <3>3 DEF Begin
  <2>2. at' \in [Threads -> Places] /\ try' \in [Threads -> Nat]
    BY <1>2 DEF TypeOK, Begin, Goto, Places
  <2> QED
    BY <1>2, <2>1, <2>2 DEF TypeOK, Begin
<1>3. ASSUME NEW t \in Threads, NEW d \in Docs, Fetch(t, d)
      PROVE  saw' \in [Threads -> [Docs -> Seen]] /\ stale' \in [Threads -> SUBSET Docs]
  <2>1. [body |-> doc[d].body, by |-> doc[d].by] \in Seen
    BY DEF TypeOK, Document, Seen
  <2> QED
    BY <1>3, <2>1 DEF TypeOK, Fetch
<1>4. ASSUME NEW t \in Threads, GetMonster(t) PROVE TypeOK'
  <2>1. CASE Leave(t, "idle") /\ exists' = FALSE
    BY <1>4, <2>1, LeaveTypes DEF TypeOK, GetMonster
  <2>2. CASE /\ InTime(t) /\ Fetch(t, "monster") /\ Goto(t, "player")
             /\ UNCHANGED <<exists, first, damage, staged>>
    BY <1>3, <1>4, <2>2, ClockTypes DEF TypeOK, GetMonster, Goto, Docs, InTime, Places
  <2> QED
    BY <1>4, <2>1, <2>2 DEF GetMonster
<1>5. ASSUME NEW t \in Threads, GetPlayer(t) PROVE TypeOK'
  BY <1>3, <1>5, ClockTypes DEF TypeOK, GetPlayer, Goto, Docs, InTime, Places
<1>6. ASSUME NEW t \in Threads, Expire(t) \/ Fails(t) PROVE TypeOK'
  BY <1>6 DEF TypeOK, Expire, Fails, Goto, Places
<1>7. ASSUME NEW t \in Threads, Check(t) PROVE TypeOK'
  BY <1>7, ClockTypes DEF TypeOK, Check, Goto, Places, InTime
<1>8. ASSUME NEW t \in Threads, SetAtrPending(t) PROVE TypeOK'
  BY <1>8, ClockTypes, Ids DEF TypeOK, SetAtrPending, Goto, Places, InTime
<1>9. ASSUME NEW t \in Threads, AtrListsWritten(t) PROVE broken' \in SUBSET Attempts
  BY <1>9, Ids DEF TypeOK, AtrListsWritten
<1>10. ASSUME NEW t \in Threads, Commit(t) PROVE TypeOK'
  <2>1. committed' \in SUBSET Attempts /\ orphaned' \in SUBSET committed'
    BY <1>10, Ids DEF TypeOK, Commit
  <2> QED
    BY <1>9, <1>10, <2>1, ClockTypes DEF TypeOK, Commit, Goto, Places, InTime
<1>11. ASSUME NEW t \in Threads, AtrAbort(t) PROVE TypeOK'
  BY <1>9, <1>11 DEF TypeOK, AtrAbort, Goto, Places
<1>12. ASSUME NEW t \in Threads, End(t) \/ GivesUp(t) PROVE TypeOK'
  BY <1>9, <1>12, LeaveTypes DEF TypeOK, End, GivesUp
<1>13. ASSUME NEW t \in Threads, NEW d \in Docs, NEW new \in Document, Put(t, d, new)
       PROVE  doc' \in [Docs -> Document] /\ stale' \in [Threads -> SUBSET Docs]
  BY <1>13 DEF TypeOK, Put
<1>14. ASSUME NEW t \in Threads, NEW d \in Docs, Stage(t, d) PROVE TypeOK'
  <2> DEFINE new == [doc[d] EXCEPT !.mutation = NewBody(t, d), !.by = Attempt(t)]
  <2>1. new \in Document
    <3>1. doc[d] \in Document /\ NewBody(t, d) \in Nat /\ Attempt(t) \in Attempts
      BY NewBodyIsNumber, Ids DEF TypeOK
    <3> QED
      BY <3>1 DEF Document
  <2>2. /\ doc' \in [Docs -> Document] /\ stale' \in [Threads -> SUBSET Docs]
        /\ UNCHANGED <<entries, broken, exists, try, first, damage, saw, committed, orphaned>>
    BY <1>13, <1>14, <2>1 DEF Stage
  <2>3. staged' \in [Threads -> SUBSET Docs]
    BY <1>14 DEF TypeOK, Stage
  <2>4. at' \in [Threads -> Places]
    BY <1>14 DEF TypeOK, Stage, Goto, Places
  <2> QED
    BY <1>14, <2>2, <2>3, <2>4, ClockTypes DEF TypeOK, Stage, InTime
<1>15. ASSUME NEW t \in Threads, NEW d \in Docs, Unstage(t, d) PROVE TypeOK'
  <2>1. Free(NewBody(t, d)) \in Document
    BY NewBodyIsNumber DEF Free, Document
  <2>2. at' \in [Threads -> Places] /\ staged' \in [Threads -> SUBSET Docs]
    BY <1>15 DEF TypeOK, Unstage, Goto, Places
  <2> QED
    BY <1>13, <1>15, <2>1, <2>2, ClockTypes DEF TypeOK, Unstage
<1>16. ASSUME NEW t \in Threads, NEW d \in Docs, RollbackDoc(t, d) PROVE TypeOK'
  <2>1. Free(doc[d].body) \in Document
    BY DEF TypeOK, Free, Document
  <2> QED
    BY <1>13, <1>16, <2>1 DEF TypeOK, RollbackDoc
<1>17. ASSUME NEW a \in entries, Cleaned(a) PROVE TypeOK'
  BY <1>17 DEF TypeOK, Cleaned, threadVars
<1> QED
  BY <1>1, <1>2, <1>4, <1>5, <1>6, <1>7, <1>8, <1>10, <1>11, <1>12, <1>14, <1>15, <1>16, <1>17
  DEF Next

\* The history of orphans only grows, and Cardinality(committed) stays a number.
LEMMA HistoryGrows ==
    ASSUME Types, [Next]_vars
    PROVE  orphaned \subseteq orphaned' /\ IsFiniteSet(committed')
<1>1. /\ orphaned' = orphaned \/ orphaned \subseteq orphaned'
      /\ committed' = committed \/ \E t \in Threads : committed' = committed \cup {Attempt(t)}
  BY DEF Next, vars, threadVars, Begin, GetMonster, GetPlayer, Expire, Check, SetAtrPending,
         Commit, Fails, AtrAbort, End, GivesUp, Stage, Unstage, RollbackDoc, Cleaned
<1> QED
  BY <1>1, FS_AddElement DEF Types

-----------------------------------------------------------------------------
(* The actions *)

\* What a step has to show of its own thread.
LEMMA StepFits ==
    ASSUME TypeOK, TypeOK', Fits, NEW t \in Threads, Spares(t), PutFits(t),
           Numbered', StoreFits', ThreadFits(t)'
    PROVE  Fits'
BY OthersFit DEF Fits

LEMMA BeginFits == ASSUME TypeOK, TypeOK', Fits, NEW t \in Threads, Begin(t) PROVE Fits'
<1>1. Numbered /\ StoreFits /\ ThreadFits(t)
  BY DEF Fits
<1>2. Numbered'
  BY <1>1, NumberedStays DEF TypeOK, Begin
<1>3. Spares(t) /\ PutFits(t)
  BY DEF TypeOK, Begin, Goto, Spares, PutFits, Attempt
<1>4. /\ at'[t] = "monster" /\ at[t] \in {"idle", "begin"} /\ Attempt(t)' = <<t, try[t] + 1>>
      /\ at[t] = "idle" => first'[t] = try[t] + 1 /\ damage'[t] \in Damages
      /\ at[t] = "begin" => first'[t] = first[t] /\ damage'[t] = damage[t]
      /\ stale' = stale /\ staged' = staged /\ UNCHANGED <<doc, entries, committed>>
  BY DEF TypeOK, Begin, Goto, Attempt
<1>5. /\ Attempt(t)' \notin entries \cup committed
      /\ \A d \in Docs : doc[d].by # Attempt(t)'
      /\ \A a \in committed : a[1] = t => a[2] < try[t] + 1
  <2> DEFINE new == <<t, try[t] + 1>>
  <2>1. /\ new \in Attempts /\ new # Nobody /\ new[1] = t /\ new[2] = try[t] + 1
        /\ ~(try[t] + 1 <= try[t])
    BY GameServerAssumption DEF TypeOK, Attempts
  <2>2. new \notin entries \cup committed /\ \A d \in Docs : doc[d].by # new
    BY <1>1, <2>1 DEF Numbered
  <2>3. \A a \in committed : a[1] = t => a[2] \in Nat /\ a[2] <= try[t] /\ try[t] \in Nat
    BY <1>1 DEF Numbered, TypeOK, Attempts
  <2> QED
    BY <1>4, <2>2, <2>3
<1>6. FetchFits(t)'
  BY <1>1, <1>4 DEF ThreadFits, FetchFits, Fetching
<1>7. StagingFits(t)'
  BY <1>1, <1>4, <1>5 DEF ThreadFits, StagingFits, Staging, Fetching
<1>8. CheckedFits(t)' /\ DecisionFits(t)'
  BY <1>1, <1>4, <1>5 DEF ThreadFits, CheckedFits, DecisionFits
<1>9. StoreFits'
  BY <1>1, <1>4 DEF StoreFits
<1> QED
  BY <1>2, <1>3, <1>6, <1>7, <1>8, <1>9, StepFits DEF ThreadFits

LEMMA LeaveFits ==
    ASSUME TypeOK, TypeOK', Fits, NEW t \in Threads, NEW place \in {"idle", "begin"},
           Leave(t, place), at[t] # "idle",
           place = "begin" => at[t] = "rollback",
           \/ entries' = entries
           \/ at[t] \in {"complete", "rollback"} /\ entries' = entries \ {Attempt(t)},
           UNCHANGED <<doc, try, committed>>
    PROVE  Fits'
<1>1. Numbered /\ StoreFits /\ ThreadFits(t)
  BY DEF Fits
<1>2. Numbered'
  BY <1>1, NumberedStays DEF TypeOK
<1>3. Spares(t) /\ PutFits(t)
  BY Ids DEF TypeOK, Leave, Goto, Spares, PutFits
<1>4. /\ at'[t] = place /\ staged'[t] = {} /\ stale'[t] = Docs
      /\ place = "begin" => damage'[t] = damage[t] /\ first'[t] = first[t]
      /\ Attempt(t)' = Attempt(t)
  BY DEF TypeOK, Leave, Goto, Attempt
<1>5. FetchFits(t)'
  BY <1>1, <1>4 DEF ThreadFits, FetchFits, Fetching
<1>6. StagingFits(t)'
  BY <1>4 DEF StagingFits, Staging, Fetching
<1>7. CheckedFits(t)' /\ DecisionFits(t)'
  BY <1>1, <1>4 DEF ThreadFits, CheckedFits, DecisionFits
<1>8. StoreFits'
  <2>1. CASE entries' = entries
    BY <1>1, <2>1 DEF StoreFits
  <2>2. CASE at[t] = "complete"
    <3>1. \A d \in Docs : doc[d].by # Attempt(t)
      BY <1>1, <2>2 DEF ThreadFits, StagingFits, Staging
    <3> QED
      BY <1>1, <3>1 DEF StoreFits
  <2>3. CASE at[t] = "rollback"
    <3>1. Attempt(t) \notin committed
      BY <1>1, <2>3 DEF ThreadFits, DecisionFits
    <3> QED
      BY <1>1, <3>1 DEF StoreFits
  <2> QED
    BY <2>1, <2>2, <2>3
<1> QED
  BY <1>2, <1>3, <1>5, <1>6, <1>7, <1>8, StepFits DEF ThreadFits

LEMMA LeavingFits ==
    ASSUME TypeOK, TypeOK', Fits, NEW t \in Threads, End(t) \/ GivesUp(t)
    PROVE  Fits'
<1>1. CASE End(t)
  BY <1>1, LeaveFits DEF End
<1>2. CASE GivesUp(t)
  BY <1>2, LeaveFits DEF GivesUp
<1> QED
  BY <1>1, <1>2

\* A thread goes on without a step of its attempt in the store, or with its entry, and
\* keeps what it has fetched and staged.
LEMMA GoesOnFits ==
    ASSUME TypeOK, TypeOK', Fits, NEW t \in Threads, NEW place \in {"stage", "abort", "rollback"},
           Goto(t, place),
           place = "stage" => at[t] = "pending" /\ entries' = entries \cup {Attempt(t)},
           place # "stage" => /\ at[t] \in Fetching \cup {"monster", "abort"}
                              /\ entries' = entries,
           UNCHANGED <<doc, try, first, damage, saw, stale, staged, committed>>
    PROVE  Fits'
<1>1. Numbered /\ StoreFits /\ ThreadFits(t) /\ Attempt(t) \in Attempts
  BY Ids DEF Fits
<1>2. Numbered'
  BY <1>1, NumberedStays DEF TypeOK
<1>3. at[t] = "pending" => staged[t] = {} /\ \A d \in Docs : doc[d].by # Attempt(t)
  BY <1>1 DEF ThreadFits, StagingFits, Staging, Fetching
<1>4. Spares(t) /\ PutFits(t)
  BY <1>3 DEF TypeOK, Goto, Spares, PutFits
<1>5. at'[t] = place /\ Attempt(t)' = Attempt(t) /\ place \in {"stage", "abort", "rollback"}
  BY DEF TypeOK, Goto, Attempt
<1>6. FetchFits(t)'
  BY <1>1, <1>5 DEF ThreadFits, FetchFits, Fetching
<1>7. StagingFits(t)'
  <2>1. /\ Targets(t)' = Targets(t) /\ NextTarget(t)' = NextTarget(t)
        /\ \A d \in Docs : NewBody(t, d)' = NewBody(t, d)
    BY DEF Targets, Kills, NewBody, NextTarget
  <2>2. staged[t] \subseteq Docs
    BY DEF TypeOK
  <2> QED
    BY <1>1, <1>3, <1>5, <2>1, <2>2 DEF ThreadFits, StagingFits, Staging, Fetching
<1>8. CheckedFits(t)'
  <2>1. CASE place # "stage"
    BY <1>5, <2>1 DEF CheckedFits
  <2>2. CASE place = "stage"
    <3>1. NextTarget(t) \in Docs /\ NextTarget(t)' = NextTarget(t)
      BY NextTargetIsDoc DEF NextTarget
    <3>2. \A a : SameTransaction(t, a)' = SameTransaction(t, a)
      BY DEF SameTransaction
    <3> QED
      BY <1>1, <1>3, <1>5, <2>2, <3>1, <3>2 DEF ThreadFits, CheckedFits
  <2> QED
    BY <2>1, <2>2
<1>9. DecisionFits(t)' /\ StoreFits'
  BY <1>1, <1>5 DEF ThreadFits, DecisionFits, StoreFits, Fetching
<1> QED
  BY <1>2, <1>4, <1>6, <1>7, <1>8, <1>9, StepFits DEF ThreadFits

\* Nothing the invariant speaks of has changed.
LEMMA UnchangedFits ==
    ASSUME TypeOK, TypeOK', Fits,
           UNCHANGED <<doc, entries, at, try, first, damage, saw, stale, staged, committed>>
    PROVE  Fits'
<1>1. Numbered /\ StoreFits /\ \A u \in Threads : ThreadFits(u)
  BY DEF Fits
<1>2. Numbered' /\ StoreFits'
  BY <1>1 DEF Numbered, StoreFits
<1>3. ASSUME NEW u \in Threads PROVE ThreadFits(u)'
  <2>1. ThreadFits(u)
    BY <1>1
  <2>2. /\ Attempt(u)' = Attempt(u) /\ Targets(u)' = Targets(u) /\ NextTarget(u)' = NextTarget(u)
        /\ \A d : NewBody(u, d)' = NewBody(u, d)
        /\ \A a : SameTransaction(u, a)' = SameTransaction(u, a)
    BY DEF Attempt, Targets, Kills, NewBody, NextTarget, SameTransaction
  <2>3. FetchFits(u)'
    BY <2>1 DEF ThreadFits, FetchFits
  <2>4. StagingFits(u)'
    BY <2>1, <2>2 DEF ThreadFits, StagingFits
  <2>5. CheckedFits(u)'
    BY <2>1, <2>2 DEF ThreadFits, CheckedFits
  <2>6. DecisionFits(u)'
    BY <2>1, <2>2 DEF ThreadFits, DecisionFits
  <2> QED
    BY <2>3, <2>4, <2>5, <2>6 DEF ThreadFits
<1> QED
  BY <1>2, <1>3 DEF Fits

LEMMA FetchingFits ==
    ASSUME TypeOK, TypeOK', Fits, NEW t \in Threads,
           (GetMonster(t) /\ doc["monster"].body # 0) \/ GetPlayer(t)
    PROVE  Fits'
<1>1. Numbered /\ StoreFits /\ ThreadFits(t)
  BY DEF Fits
<1>2. ASSUME NEW d \in Docs, NEW place \in {"player", "check"}, Fetch(t, d), Goto(t, place),
             \/ at[t] = "monster" /\ d = "monster" /\ place = "player" /\ doc[d].body # 0
             \/ at[t] = "player" /\ d = "player" /\ place = "check",
             UNCHANGED <<doc, entries, try, first, damage, staged, committed>>
      PROVE  Fits'
  <2>1. Numbered'
    BY <1>1, <1>2, NumberedStays DEF TypeOK
  <2>2. Spares(t) /\ PutFits(t)
    BY <1>2 DEF TypeOK, Fetch, Goto, Spares, PutFits, Attempt
  <2>3. /\ at'[t] = place /\ stale'[t] = stale[t] \ {d}
        /\ saw'[t][d].body = doc[d].body /\ saw'[t][d].by = doc[d].by
        /\ \A e \in Docs \ {d} : saw'[t][e] = saw[t][e]
        /\ Attempt(t)' = Attempt(t) /\ staged'[t] = {} /\ staged[t] = {}
    BY <1>1, <1>2 DEF TypeOK, Fetch, Goto, Attempt, ThreadFits, StagingFits, Staging
  <2>4. FetchFits(t)'
    BY <1>1, <1>2, <2>3 DEF ThreadFits, FetchFits, Fetching, Docs, TypeOK, Document
  <2>5. StagingFits(t)'
    <3>1. NextTarget(t)' = "monster" /\ "monster" \in Targets(t)'
      BY <2>3 DEF NextTarget, Targets, Docs
    <3> QED
      BY <1>1, <1>2, <2>3, <3>1 DEF ThreadFits, StagingFits, Staging, Fetching
  <2>6. CheckedFits(t)' /\ DecisionFits(t)' /\ StoreFits'
    BY <1>1, <1>2, <2>3 DEF ThreadFits, CheckedFits, DecisionFits, StoreFits
  <2> QED
    BY <2>1, <2>2, <2>4, <2>5, <2>6, StepFits DEF ThreadFits
<1>3. CASE GetMonster(t) /\ doc["monster"].body # 0
  BY <1>2, <1>3 DEF GetMonster, Docs
<1>4. CASE GetPlayer(t)
  BY <1>2, <1>4 DEF GetPlayer, Docs
<1> QED
  BY <1>3, <1>4

\* The look at the entry: whoever has staged there has none, or is of this transaction.
LEMMA CheckFits == ASSUME TypeOK, TypeOK', Fits, NEW t \in Threads, Check(t) PROVE Fits'
<1>1. Numbered /\ StoreFits /\ ThreadFits(t)
  BY DEF Fits
<1>2. Numbered'
  BY <1>1, NumberedStays DEF TypeOK, Check
<1>3. Spares(t) /\ PutFits(t)
  BY DEF TypeOK, Check, Goto, Spares, PutFits
<1>4. /\ at[t] = "check" /\ at'[t] = IF staged[t] = {} THEN "pending" ELSE "stage"
      /\ UNCHANGED <<doc, entries, try, first, damage, saw, stale, staged, committed>>
  BY DEF TypeOK, Check, Goto
<1>5. /\ Attempt(t)' = Attempt(t) /\ Targets(t)' = Targets(t) /\ NextTarget(t)' = NextTarget(t)
      /\ \A d : NewBody(t, d)' = NewBody(t, d)
      /\ \A a : SameTransaction(t, a)' = SameTransaction(t, a)
  BY <1>4 DEF Attempt, Targets, Kills, NewBody, NextTarget, SameTransaction
<1>6. FetchFits(t)'
  BY <1>1, <1>4 DEF ThreadFits, FetchFits, Fetching
<1>7. StagingFits(t)'
  BY <1>1, <1>4, <1>5 DEF ThreadFits, StagingFits, Staging, Fetching
<1>8. DecisionFits(t)' /\ StoreFits'
  BY <1>1, <1>4, <1>5 DEF ThreadFits, DecisionFits, StoreFits
<1>9. CheckedFits(t)'
  <2> SUFFICES ASSUME NextTarget(t) \notin stale[t]
               PROVE  LET by == doc[NextTarget(t)].by IN
                      by \notin committed /\ (by \in entries => SameTransaction(t, by))
    BY <1>4, <1>5 DEF CheckedFits
  <2> DEFINE by == doc[NextTarget(t)].by
  <2>1. NextTarget(t) \in Docs /\ NextTarget(t) \notin staged[t]
    BY <1>1, <1>4, NextTargetIsDoc DEF ThreadFits, StagingFits
  <2>2. saw[t][NextTarget(t)].by = by
    BY <1>1, <1>4, <2>1 DEF ThreadFits, FetchFits, Fetching
  <2>3. Nobody \notin entries /\ Nobody \notin committed
    BY GameServerAssumption DEF TypeOK, Attempts
  <2>4. by \in entries => SameTransaction(t, by)
    BY <2>2, <2>3 DEF Check, Blocked
  <2>5. by \notin committed
    <3>1. by \in committed => by[1] = t /\ by[2] >= first[t] /\ by[2] < first[t]
      BY <1>1, <1>4, <2>1, <2>4 DEF StoreFits, SameTransaction, ThreadFits, DecisionFits
    <3>2. by \in committed => by[2] \in Nat
      BY DEF TypeOK, Attempts
    <3>3. first[t] \in Nat
      BY DEF TypeOK
    <3> QED
      BY <3>1, <3>2, <3>3
  <2> QED
    BY <2>4, <2>5
<1> QED
  BY <1>2, <1>3, <1>6, <1>7, <1>8, <1>9, StepFits DEF ThreadFits

LEMMA CommitFits ==
    ASSUME TypeOK, TypeOK', Fits, NEW t \in Threads, Commit(t), Attempt(t) \in entries
    PROVE  Fits'
<1>1. Numbered /\ StoreFits /\ ThreadFits(t)
  BY DEF Fits
<1>2. Numbered'
  BY <1>1, NumberedStays DEF TypeOK, Commit
<1>3. Spares(t) /\ PutFits(t)
  BY DEF TypeOK, Commit, Goto, Spares, PutFits
<1>4. /\ at[t] = "commit" /\ at'[t] = "unstage" /\ committed' = committed \cup {Attempt(t)}
      /\ UNCHANGED <<doc, entries, try, first, damage, saw, stale, staged>>
      /\ Attempt(t)' = Attempt(t)
  BY DEF TypeOK, Commit, Goto, Attempt
<1>5. /\ Targets(t)' = Targets(t) /\ NextTarget(t)' = NextTarget(t)
      /\ \A d \in Docs : NewBody(t, d)' = NewBody(t, d)
  BY <1>4 DEF Targets, Kills, NewBody, NextTarget
<1>6. FetchFits(t)'
  BY <1>1, <1>4 DEF ThreadFits, FetchFits, Fetching
<1>7. StagingFits(t)'
  <2>1. Targets(t) # {} /\ staged[t] \subseteq Docs
    BY DEF Targets, Docs, TypeOK
  <2> QED
    BY <1>1, <1>4, <1>5, <2>1 DEF ThreadFits, StagingFits, Staging, Fetching
<1>8. CheckedFits(t)' /\ DecisionFits(t)' /\ StoreFits'
  BY <1>1, <1>4 DEF ThreadFits, CheckedFits, DecisionFits, StoreFits
<1> QED
  BY <1>2, <1>3, <1>6, <1>7, <1>8, StepFits DEF ThreadFits

\* What a thread stages on: the document is as the thread has fetched it, and no attempt
\* that still has its entry has staged there.
LEMMA FreeToStage ==
    ASSUME TypeOK, Fits, NEW t \in Threads, NEW d \in Docs, Stage(t, d)
    PROVE  /\ d \in Targets(t) /\ d \notin staged[t] /\ d \notin stale[t]
           /\ doc[d].body = saw[t][d].body
           /\ doc[d].by \notin committed
           /\ \A u \in Threads \ {t} : Attempt(u) \in entries => d \notin staged[u]
<1>1. FetchFits(t) /\ StagingFits(t) /\ CheckedFits(t)
  BY DEF Fits, ThreadFits
<1>2. at[t] = "stage" /\ d = NextTarget(t) /\ d \notin stale[t]
  BY DEF Stage, CasMatches
<1>3. d \in Targets(t) /\ d \notin staged[t]
  BY <1>1, <1>2 DEF StagingFits
<1>4. doc[d].body = saw[t][d].body
  BY <1>1, <1>2, <1>3 DEF FetchFits, Fetching
<1>5. doc[d].by \notin committed /\ (doc[d].by \in entries => SameTransaction(t, doc[d].by))
  BY <1>1, <1>2 DEF CheckedFits
<1>6. ASSUME NEW u \in Threads \ {t}, Attempt(u) \in entries, d \in staged[u]
      PROVE  FALSE
  <2>1. doc[d].by = Attempt(u)
    BY <1>6 DEF Fits, ThreadFits, StagingFits
  <2>2. Attempt(u)[1] # t
    BY Ids
  <2> QED
    BY <1>5, <1>6, <2>1, <2>2 DEF SameTransaction
<1> QED
  BY <1>2, <1>3, <1>4, <1>5, <1>6

LEMMA StageFits ==
    ASSUME TypeOK, TypeOK', Fits, NEW t \in Threads, NEW d \in Docs, Stage(t, d)
    PROVE  Fits'
<1>1. Numbered /\ StoreFits /\ FetchFits(t) /\ StagingFits(t) /\ DecisionFits(t)
  BY DEF Fits, ThreadFits
<1>2. /\ doc'[d].mutation = NewBody(t, d) /\ doc'[d].by = Attempt(t)
      /\ doc'[d].body = doc[d].body
      /\ \A e \in Docs \ {d} : doc'[e] = doc[e]
      /\ stale'[t] = stale[t] /\ \A u \in Threads \ {t} : stale'[u] = stale[u] \cup {d}
  BY DEF TypeOK, Document, Stage, Put
<1>3. /\ at[t] = "stage" /\ d = NextTarget(t)
      /\ UNCHANGED <<entries, try, first, damage, saw, committed>>
  BY DEF Stage
<1>4. Numbered'
  <2>1. \A e \in Docs : doc'[e].by = doc[e].by \/ doc'[e].by = Attempt(t)
    BY <1>2
  <2>2. \A u \in Threads : try[u] <= try'[u]
    BY <1>3 DEF TypeOK
  <2> QED
    BY <1>1, <1>3, <2>1, <2>2, NumberedStays
<1>5. Spares(t)
  BY <1>2, <1>3 DEF TypeOK, Stage, Goto, Spares
<1>6. PutFits(t)
  BY <1>2, FreeToStage DEF PutFits
<1>7. /\ Attempt(t)' = Attempt(t)
      /\ Targets(t)' = Targets(t) /\ \A e \in Docs : NewBody(t, e)' = NewBody(t, e)
      /\ \/ /\ staged'[t] = staged[t] \cup {d}
            /\ \/ at'[t] = "commit" /\ staged'[t] = Targets(t)
               \/ at'[t] = "check" /\ staged'[t] # Targets(t)
         \/ at'[t] = "abort" /\ staged'[t] = staged[t]
  BY <1>3 DEF TypeOK, Stage, Goto, Attempt, Targets, Kills, NewBody
<1>8. FetchFits(t)'
  BY <1>1, <1>2, <1>3, <1>7 DEF FetchFits, Fetching
<1>9. StagingFits(t)'
  <2>1. staged[t] \subseteq Docs /\ Targets(t) \in {Docs, {"monster"}}
    BY DEF TypeOK, Targets
  <2>2. d \in Targets(t) /\ d \notin staged[t] /\ d \notin stale[t] /\ doc[d].body = saw[t][d].body
    BY FreeToStage
  <2>3. staged[t] \subseteq Targets(t)
    BY <1>1, <1>3 DEF StagingFits, Staging
  <2>4. at'[t] = "check" => NextTarget(t)' \in Targets(t) \ staged'[t]
    <3>1. SUFFICES ASSUME at'[t] = "check"
                   PROVE  NextTarget(t)' \in Targets(t) \ staged'[t]
      OBVIOUS
    <3>2. staged'[t] = staged[t] \cup {d} /\ staged'[t] # Targets(t) /\ "monster" \in staged'[t]
      BY <1>3, <1>7, <3>1 DEF NextTarget
    <3>3. Targets(t) = Docs /\ staged'[t] = {"monster"}
      BY <2>1, <2>2, <2>3, <3>2 DEF Docs
    <3> QED
      BY <3>3 DEF NextTarget, Docs
  <2>5. /\ at'[t] # "unstage" /\ at'[t] # "pending" /\ at'[t] # "stage"
        /\ at'[t] = "commit" => staged'[t] = Targets(t)
        /\ at'[t] \in Staging \cup {"abort", "rollback"}
        /\ at'[t] \in Staging \cup Fetching => staged'[t] = staged[t] \cup {d}
        /\ at'[t] \in Fetching \cup {"monster", "unstage", "complete"} => staged'[t] = staged[t] \cup {d}
    BY <1>7 DEF Staging, Fetching
  <2>6. staged'[t] \subseteq staged[t] \cup {d} /\ stale'[t] = stale[t]
    BY <1>2, <1>7
  <2>7. /\ Attempt(t) \in entries' => staged'[t] \cap stale'[t] = {}
        /\ \A e \in staged'[t] \ stale'[t] : doc'[e].by = Attempt(t)
    BY <1>1, <1>2, <1>3, <2>1, <2>2, <2>6 DEF StagingFits
  <2>8. at'[t] \in Staging =>
          \A e \in staged'[t] \ stale'[t] :
             doc'[e].mutation = NewBody(t, e) /\ doc'[e].body = saw[t][e].body
    BY <1>1, <1>2, <1>3, <2>1, <2>2, <2>6 DEF StagingFits, Staging
  <2>9. at'[t] \in Fetching \cup {"monster", "unstage", "complete"} =>
          \A e \in Docs : doc'[e].by = Attempt(t) => e \in staged'[t]
    BY <1>1, <1>2, <1>3, <2>5 DEF StagingFits, Fetching
  <2> QED
    BY <1>3, <1>7, <2>1, <2>2, <2>3, <2>4, <2>5, <2>6, <2>7, <2>8, <2>9 DEF StagingFits
<1>10. CheckedFits(t)'
  BY <1>7 DEF CheckedFits
<1>11. DecisionFits(t)'
  BY <1>1, <1>3, <1>7 DEF DecisionFits
<1>12. StoreFits'
  <2>1. Attempt(t) \notin committed
    BY <1>1, <1>3 DEF DecisionFits
  <2>2. d = "monster" => doc[d].body > 0
    BY <1>1, <1>3, FreeToStage DEF FetchFits, Fetching
  <2> QED
    BY <1>1, <1>2, <1>3, <2>1, <2>2 DEF StoreFits, Docs
<1> QED
  BY <1>4, <1>5, <1>6, <1>8, <1>9, <1>10, <1>11, <1>12, StepFits DEF ThreadFits

\* A staged mutation that is still there goes, with its effect on the body or without.
LEMMA TakenBackFits ==
    ASSUME TypeOK, TypeOK', Fits, NEW t \in Threads, NEW d \in Docs, NEW body \in Nat,
           d \in staged[t], doc[d].by = Attempt(t), Put(t, d, Free(body)),
           staged' = [staged EXCEPT ![t] = @ \ {d}],
           \/ at[t] = "rollback" /\ UNCHANGED at
           \/ at[t] = "unstage" /\ IF staged[t] = {d} THEN Goto(t, "complete") ELSE UNCHANGED at,
           UNCHANGED <<entries, try, first, damage, saw, committed>>
    PROVE  Fits'
<1>1. Numbered /\ StoreFits /\ FetchFits(t) /\ StagingFits(t) /\ DecisionFits(t)
  BY DEF Fits, ThreadFits
<1>2. /\ doc'[d].by = Nobody
      /\ \A e \in Docs \ {d} : doc'[e] = doc[e]
      /\ stale'[t] = stale[t] /\ \A u \in Threads \ {t} : stale'[u] = stale[u] \cup {d}
  BY DEF TypeOK, Free, Put
<1>3. Numbered'
  <2>1. \A e \in Docs : doc'[e].by = doc[e].by \/ doc'[e].by = Nobody
    BY <1>2
  <2> QED
    BY <1>1, <2>1, NumberedStays DEF TypeOK
<1>4. Spares(t)
  BY <1>2 DEF TypeOK, Goto, Spares
<1>5. PutFits(t)
  <2>1. \A u \in Threads \ {t} : Attempt(u) \in entries => d \notin staged[u]
    BY Ids DEF Fits, ThreadFits, StagingFits
  <2> QED
    BY <1>2, <2>1 DEF PutFits
<1>6. /\ Attempt(t)' = Attempt(t)
      /\ Targets(t)' = Targets(t) /\ \A e \in Docs : NewBody(t, e)' = NewBody(t, e)
      /\ staged'[t] = staged[t] \ {d}
      /\ \/ at[t] = "rollback" /\ at'[t] = "rollback"
         \/ at[t] = "unstage" /\ at'[t] = "unstage" /\ staged'[t] # {}
         \/ at[t] = "unstage" /\ at'[t] = "complete" /\ staged'[t] = {}
  BY DEF TypeOK, Goto, Attempt, Targets, Kills, NewBody
<1>7. FetchFits(t)'
  BY <1>1, <1>6 DEF FetchFits, Fetching
<1>8. StagingFits(t)'
  <2>1. staged[t] \subseteq Docs /\ Attempt(t) # Nobody
    BY Ids DEF TypeOK
  <2> QED
    BY <1>1, <1>2, <1>6, <2>1 DEF StagingFits, Staging, Fetching
<1>9. CheckedFits(t)' /\ DecisionFits(t)'
  BY <1>1, <1>6 DEF CheckedFits, DecisionFits
<1>10. StoreFits'
  <2>1. Nobody \notin committed
    BY GameServerAssumption DEF TypeOK, Attempts
  <2> QED
    BY <1>1, <1>2, <2>1 DEF StoreFits, Docs
<1> QED
  BY <1>3, <1>4, <1>5, <1>7, <1>8, <1>9, <1>10, StepFits DEF ThreadFits

\* The entry may go while its attempt is at work, but not while it has to write.
LEMMA CleanedFits ==
    ASSUME TypeOK, TypeOK', Fits, NEW a \in entries, Cleaned(a), orphaned' = {}
    PROVE  Fits'
<1>1. /\ entries' = entries \ {a}
      /\ UNCHANGED <<doc, stale, at, try, first, damage, saw, staged, committed>>
      /\ a \in committed => \A d \in Docs : doc[d].by # a
  BY DEF Cleaned, threadVars
<1>2. Numbered /\ StoreFits
  BY DEF Fits
<1>3. Numbered' /\ StoreFits'
  BY <1>1, <1>2 DEF Numbered, StoreFits
<1>4. ASSUME NEW t \in Threads
      PROVE  ThreadFits(t)'
  <2>1. ThreadFits(t)
    BY DEF Fits
  <2>2. /\ Attempt(t)' = Attempt(t) /\ Targets(t)' = Targets(t) /\ NextTarget(t)' = NextTarget(t)
        /\ \A d : NewBody(t, d)' = NewBody(t, d)
        /\ \A b : SameTransaction(t, b)' = SameTransaction(t, b)
    BY <1>1 DEF Attempt, Targets, Kills, NewBody, NextTarget, SameTransaction
  <2>3. at[t] = "unstage" => Attempt(t) # a
    <3>1. SUFFICES ASSUME at[t] = "unstage", Attempt(t) = a PROVE FALSE
      OBVIOUS
    <3>2. PICK d \in staged[t] : d \in Docs /\ d \notin stale[t]
      BY <2>1, <3>1 DEF ThreadFits, StagingFits, TypeOK
    <3> QED
      BY <1>1, <2>1, <3>1, <3>2 DEF ThreadFits, StagingFits, DecisionFits
  <2>4. FetchFits(t)'
    BY <1>1, <2>1 DEF ThreadFits, FetchFits
  <2>5. StagingFits(t)'
    BY <1>1, <2>1, <2>2, <2>3 DEF ThreadFits, StagingFits
  <2>6. CheckedFits(t)'
    BY <1>1, <2>1, <2>2 DEF ThreadFits, CheckedFits
  <2>7. DecisionFits(t)'
    BY <1>1, <2>1, <2>2 DEF ThreadFits, DecisionFits
  <2> QED
    BY <2>4, <2>5, <2>6, <2>7 DEF ThreadFits
<1> QED
  BY <1>3, <1>4 DEF Fits

LEMMA InitInv == Init => IInv
<1> SUFFICES ASSUME Init PROVE IInv
  OBVIOUS
<1>1. /\ \A t \in Threads : at[t] = "idle" /\ stale[t] = Docs /\ staged[t] = {}
      /\ \A d \in Docs : doc[d].by = Nobody
      /\ entries = {} /\ committed = {}
  BY DEF Init, Free
<1>2. TypeOK
  <2>1. doc \in [Docs -> Document]
    BY GameServerAssumption DEF Init, Document, Free
  <2>2. NotSeen \in [Docs -> Seen]
    BY DEF NotSeen, Seen
  <2> QED
    BY <2>1, <2>2 DEF Init, TypeOK, Places
<1>3. Types /\ Numbered /\ StoreFits
  BY <1>1, <1>2, FS_EmptySet DEF Types, Numbered, StoreFits, Docs
<1>4. ASSUME NEW t \in Threads PROVE ThreadFits(t)
  <2>1. FetchFits(t) /\ StagingFits(t)
    BY <1>1 DEF FetchFits, StagingFits, Fetching, Staging
  <2>2. CheckedFits(t) /\ DecisionFits(t)
    BY <1>1 DEF CheckedFits, DecisionFits
  <2> QED
    BY <2>1, <2>2 DEF ThreadFits
<1> QED
  BY <1>3, <1>4 DEF IInv, Fits

LEMMA NextFits == ASSUME Types, TypeOK', Fits, [Next]_vars, orphaned' = {} PROVE Fits'
<1>1. TypeOK
  BY DEF Types
<1>2. CASE UNCHANGED vars
  <2>1. UNCHANGED <<doc, entries, at, try, first, damage, saw, stale, staged, committed>>
    BY <1>2 DEF vars, threadVars
  <2> QED
    BY <1>1, <2>1, UnchangedFits
<1>3. ASSUME NEW t \in Threads, Begin(t) PROVE Fits'
  BY <1>1, <1>3, BeginFits
<1>4. ASSUME NEW t \in Threads, GetMonster(t) PROVE Fits'
  <2>1. CASE doc["monster"].body # 0
    BY <1>1, <1>4, <2>1, FetchingFits
  <2>2. CASE doc["monster"].body = 0
    <3>1. /\ Leave(t, "idle") /\ at[t] = "monster"
          /\ UNCHANGED <<doc, entries, try, committed>>
      BY <1>4, <2>2 DEF GetMonster
    <3> QED
      BY <1>1, <3>1, LeaveFits
  <2> QED
    BY <2>1, <2>2
<1>5. ASSUME NEW t \in Threads, GetPlayer(t) PROVE Fits'
  BY <1>1, <1>5, FetchingFits
<1>6. ASSUME NEW t \in Threads, Expire(t) PROVE Fits'
  BY <1>1, <1>6, UnchangedFits DEF Expire
<1>7. ASSUME NEW t \in Threads, Check(t) PROVE Fits'
  BY <1>1, <1>7, CheckFits
<1>8. ASSUME NEW t \in Threads, SetAtrPending(t) PROVE Fits'
  BY <1>1, <1>8, GoesOnFits DEF SetAtrPending
<1>9. ASSUME NEW t \in Threads, Fails(t) \/ AtrAbort(t) PROVE Fits'
  <2>1. /\ at[t] \in Fetching \cup {"monster", "abort"}
        /\ Goto(t, "abort") \/ Goto(t, "rollback")
        /\ UNCHANGED <<doc, entries, try, first, damage, saw, stale, staged, committed>>
    BY <1>9 DEF Fails, AtrAbort, Fetching
  <2> QED
    BY <1>1, <2>1, GoesOnFits
<1>10. ASSUME NEW t \in Threads, Commit(t) PROVE Fits'
  <2>1. Attempt(t) \in entries
    BY <1>10 DEF Commit
  <2> QED
    BY <1>1, <1>10, <2>1, CommitFits
<1>11. ASSUME NEW t \in Threads, End(t) \/ GivesUp(t) PROVE Fits'
  BY <1>1, <1>11, LeavingFits
<1>12. ASSUME NEW t \in Threads, NEW d \in Docs, Stage(t, d) PROVE Fits'
  BY <1>1, <1>12, StageFits
<1>13. ASSUME NEW t \in Threads, NEW d \in Docs, Unstage(t, d) PROVE Fits'
  <2>1. NewBody(t, d) \in Nat
    BY <1>1, NewBodyIsNumber
  <2>2. doc[d].by = Attempt(t)
    BY <1>13 DEF Fits, ThreadFits, StagingFits, Unstage
  <2> QED
    BY <1>1, <1>13, <2>1, <2>2, TakenBackFits DEF Unstage
<1>14. ASSUME NEW t \in Threads, NEW d \in Docs, RollbackDoc(t, d) PROVE Fits'
  <2>1. doc[d].body \in Nat
    BY <1>1 DEF TypeOK, Document
  <2>2. doc[d].by = Attempt(t)
    BY <1>14 DEF Fits, ThreadFits, StagingFits, RollbackDoc, CasMatches
  <2> QED
    BY <1>1, <1>14, <2>1, <2>2, TakenBackFits DEF RollbackDoc
<1>15. ASSUME NEW a \in entries, Cleaned(a) PROVE Fits'
  BY <1>1, <1>15, CleanedFits
<1> QED
  BY <1>2, <1>3, <1>4, <1>5, <1>6, <1>7, <1>8, <1>9, <1>10, <1>11, <1>12, <1>13, <1>14, <1>15
  DEF Next

LEMMA NextInv == ASSUME IInv, [Next]_vars PROVE IInv'
<1>1. TypeOK' /\ orphaned \subseteq orphaned' /\ IsFiniteSet(committed')
  BY TypeStep, HistoryGrows DEF IInv, Types
<1>2. ASSUME orphaned' = {} PROVE Fits'
  BY <1>1, <1>2, NextFits DEF IInv
<1> QED
  BY <1>1, <1>2 DEF IInv, Types

-----------------------------------------------------------------------------
(* The refinement *)

\* A staging that is not committed, and its end, are nothing to the game.
LEMMA StageEffect ==
    ASSUME TypeOK, Fits, NEW t \in Threads, NEW d \in Docs, Stage(t, d)
    PROVE  \A e \in Docs : Effective(e)' = Effective(e)
<1>1. doc[d].by \notin committed /\ committed' = committed
  BY FreeToStage DEF Stage
<1>2. Attempt(t) \notin committed
  BY DEF Fits, ThreadFits, DecisionFits, Stage
<1>3. doc'[d].by = Attempt(t) /\ doc'[d].body = doc[d].body
  BY DEF TypeOK, Document, Stage, Put
<1>4. \A e \in Docs \ {d} : doc'[e] = doc[e]
  BY DEF TypeOK, Stage, Put
<1> QED
  BY <1>1, <1>2, <1>3, <1>4 DEF Effective

\* Unstaging makes the body what it already was to the game; so does the rollback.
LEMMA TakenBackEffect ==
    ASSUME TypeOK, Fits, NEW t \in Threads, NEW d \in Docs, Unstage(t, d) \/ RollbackDoc(t, d)
    PROVE  \A e \in Docs : Effective(e)' = Effective(e)
<1>1. StagingFits(t) /\ DecisionFits(t) /\ committed' = committed /\ d \in staged[t]
  BY DEF Fits, ThreadFits, Unstage, RollbackDoc
<1>2. Nobody \notin committed
  BY GameServerAssumption DEF TypeOK, Attempts
<1>3. doc'[d].by = Nobody /\ \A e \in Docs \ {d} : doc'[e] = doc[e]
  BY DEF TypeOK, Unstage, RollbackDoc, Put, Free
<1>4. CASE Unstage(t, d)
  <2>1. d \notin stale[t] /\ Attempt(t) \in committed
    BY <1>1, <1>4 DEF StagingFits, DecisionFits, Unstage
  <2>2. doc[d].by = Attempt(t) /\ doc[d].mutation = NewBody(t, d)
    BY <1>1, <1>4, <2>1 DEF StagingFits, Unstage, Staging
  <2>3. doc'[d].body = NewBody(t, d)
    BY <1>4 DEF TypeOK, Unstage, Put, Free
  <2> QED
    BY <1>1, <1>2, <1>3, <2>1, <2>2, <2>3 DEF Effective
<1>5. CASE RollbackDoc(t, d)
  <2>1. Attempt(t) \notin committed /\ doc[d].by = Attempt(t)
    BY <1>1, <1>5 DEF DecisionFits, StagingFits, RollbackDoc, CasMatches
  <2>2. doc'[d].body = doc[d].body
    BY <1>5 DEF TypeOK, RollbackDoc, Put, Free
  <2> QED
    BY <1>1, <1>2, <1>3, <2>1, <2>2 DEF Effective
<1> QED
  BY <1>4, <1>5

\* The decision is the hit.
LEMMA CommitIsHit ==
    ASSUME Types, Fits, NEW t \in Threads, Commit(t), Attempt(t) \in entries
    PROVE  HitsAreAtomic!Hit(damage[t])
<1>1. TypeOK /\ FetchFits(t) /\ StagingFits(t) /\ DecisionFits(t) /\ IsFiniteSet(committed)
  BY DEF Types, Fits, ThreadFits
<1>2. /\ at[t] = "commit" /\ staged[t] = Targets(t) /\ Attempt(t) \notin committed
      /\ committed' = committed \cup {Attempt(t)} /\ UNCHANGED <<doc, exists>>
  BY <1>1 DEF Commit, DecisionFits, StagingFits
<1>3. Cardinality(committed') = Cardinality(committed) + 1
  BY <1>1, <1>2, FS_AddElement
<1>4. \A d \in Targets(t) : Effective(d) = saw[t][d].body /\ Effective(d)' = NewBody(t, d)
  <2>1. \A d \in Targets(t) : d \in staged[t] \ stale[t]
    BY <1>1, <1>2 DEF StagingFits
  <2> QED
    BY <1>1, <1>2, <2>1 DEF StagingFits, Staging, Effective
<1>5. ~Kills(t) => Effective("player")' = Effective("player")
  <2>1. ~Kills(t) => doc["player"].by # Attempt(t)
    BY <1>1, <1>2 DEF StagingFits, Targets, Docs, Fetching
  <2> QED
    BY <1>2, <2>1 DEF Effective
<1>6. /\ saw[t]["monster"].body \in Nat \ {0} /\ damage[t] \in Nat
      /\ "monster" \in Targets(t)
      /\ Kills(t) => "player" \in Targets(t)
  <2>1. saw[t]["monster"] \in Seen
    BY <1>1 DEF TypeOK, Docs
  <2>2. damage[t] \in Nat
    BY <1>1, DamageIsNumber
  <2> QED
    BY <1>1, <1>2, <2>1, <2>2 DEF FetchFits, Fetching, Seen, Targets, Docs
<1>7. CASE Kills(t)
  <2>1. /\ Effective("monster") = saw[t]["monster"].body /\ Effective("monster")' = 0
        /\ Effective("player")' = Effective("player") + 1
    BY <1>4, <1>6, <1>7 DEF NewBody
  <2> QED
    BY <1>2, <1>3, <1>6, <1>7, <2>1 DEF HitsAreAtomic!Hit, Kills
<1>8. CASE ~Kills(t)
  <2>1. /\ Effective("monster") = saw[t]["monster"].body
        /\ Effective("monster")' = saw[t]["monster"].body - damage[t]
    BY <1>4, <1>6, <1>8 DEF NewBody
  <2>2. damage[t] < saw[t]["monster"].body /\ Effective("monster")' # 0
    BY <1>6, <1>8, <2>1 DEF Kills
  <2>3. /\ Effective("monster") > 0 /\ Effective("player")' = Effective("player")
        /\ Effective("monster")' = Effective("monster") - damage[t]
        /\ damage[t] < Effective("monster")
    BY <1>5, <1>6, <1>8, <2>1, <2>2
  <2> QED
    BY <1>2, <1>3, <2>2, <2>3 DEF HitsAreAtomic!Hit
<1> QED
  BY <1>7, <1>8

\* A thread is told that the monster is gone when it is.
LEMMA GetMonsterIsOver ==
    ASSUME TypeOK, Fits, NEW t \in Threads, GetMonster(t), doc["monster"].body = 0
    PROVE  HitsAreAtomic!Over
<1>1. exists' = FALSE /\ UNCHANGED <<doc, committed>>
  BY DEF GetMonster
<1>2. doc["monster"].by \notin committed
  BY GameServerAssumption DEF Fits, StoreFits, TypeOK, Attempts
<1>3. Effective("monster") = 0
  BY <1>2 DEF Effective
<1> QED
  BY <1>1, <1>3 DEF HitsAreAtomic!Over, Effective

LEMMA GameStep ==
    ASSUME Types, Fits, [Next]_vars, orphaned' = {}
    PROVE  [HitsAreAtomic!GameNext]_(HitsAreAtomic!gameVars)
<1>1. ASSUME UNCHANGED <<doc, exists, committed>> PROVE UNCHANGED HitsAreAtomic!gameVars
  BY <1>1 DEF HitsAreAtomic!gameVars, Effective
<1>2. ASSUME \A e \in Docs : Effective(e)' = Effective(e), UNCHANGED <<exists, committed>>
      PROVE  UNCHANGED HitsAreAtomic!gameVars
  BY <1>2 DEF HitsAreAtomic!gameVars, Docs
<1>3. TypeOK
  BY DEF Types
<1>4. CASE UNCHANGED vars
  BY <1>1, <1>4 DEF vars
<1>5. ASSUME NEW t \in Threads, \/ Begin(t) \/ GetPlayer(t) \/ Expire(t) \/ Check(t)
                             \/ SetAtrPending(t) \/ Fails(t) \/ AtrAbort(t)
                             \/ End(t) \/ GivesUp(t)
      PROVE  UNCHANGED HitsAreAtomic!gameVars
  BY <1>1, <1>5 DEF Begin, GetPlayer, Expire, Check, SetAtrPending, Fails, AtrAbort, End, GivesUp
<1>6. ASSUME NEW a \in entries, Cleaned(a) PROVE UNCHANGED HitsAreAtomic!gameVars
  BY <1>1, <1>6 DEF Cleaned
<1>7. ASSUME NEW t \in Threads, GetMonster(t)
      PROVE  [HitsAreAtomic!GameNext]_(HitsAreAtomic!gameVars)
  <2>1. CASE doc["monster"].body = 0
    BY <1>3, <1>7, <2>1, GetMonsterIsOver DEF HitsAreAtomic!GameNext
  <2>2. CASE doc["monster"].body # 0
    BY <1>1, <1>7, <2>2 DEF GetMonster
  <2> QED
    BY <2>1, <2>2
<1>8. ASSUME NEW t \in Threads, Commit(t) PROVE HitsAreAtomic!GameNext
  <2>1. damage[t] \in Damages
    BY <1>8 DEF Fits, ThreadFits, FetchFits, Commit
  <2>2. Attempt(t) \in entries
    BY <1>8 DEF Commit
  <2> QED
    BY <1>8, <2>1, <2>2, CommitIsHit DEF HitsAreAtomic!GameNext
<1>9. ASSUME NEW t \in Threads, NEW d \in Docs, Stage(t, d) \/ Unstage(t, d) \/ RollbackDoc(t, d)
      PROVE  UNCHANGED HitsAreAtomic!gameVars
  BY <1>2, <1>3, <1>9, StageEffect, TakenBackEffect DEF Stage, Unstage, RollbackDoc
<1> QED
  BY <1>4, <1>5, <1>6, <1>7, <1>8, <1>9 DEF Next

-----------------------------------------------------------------------------

\* The attempts, the documents and what the threads hold are what they are declared to
\* be, whatever becomes of the entries: what is staged for the monster is never below
\* zero (player_hits_monster).
THEOREM TypeCorrect == Spec => []TypeOK
<1>1. Init => TypeOK
  BY InitInv DEF IInv, Types
<1> QED
  BY <1>1, TypeStep, PTL DEF Spec

\* Whatever the threads do, wherever they stop and whenever cleanup takes an entry away:
\* every hit that commits takes effect at once and counts exactly once, and a thread
\* stops hitting only because the monster is dead, until for the first time an attempt
\* that has decided is without its entry while something of it is staged.
THEOREM HitsCount == Spec => EveryHitCounts
<1>1. Init => IInv /\ HitsAreAtomic!GameInit
  <2>1. ASSUME Init PROVE HitsAreAtomic!GameInit
    <3>1. /\ doc["monster"] = Free(HitPoints) /\ doc["player"] = Free(0)
          /\ committed = {} /\ exists = TRUE
      BY <2>1 DEF Init, Docs
    <3>2. Cardinality(committed) = 0
      BY <3>1, FS_EmptySet
    <3> QED
      BY <3>1, <3>2 DEF HitsAreAtomic!GameInit, Effective, Free
  <2> QED
    BY <2>1, InitInv
<1>2. IInv /\ [Next]_vars => IInv'
  BY NextInv
<1>3. IInv /\ [Next]_vars => (orphaned' = {} => [HitsAreAtomic!GameNext]_(HitsAreAtomic!gameVars))
  BY GameStep, HistoryGrows DEF IInv
<1> QED
  BY <1>1, <1>2, <1>3, PTL DEF Spec, EveryHitCounts
=============================================================================
