----------------------------- MODULE ClientRecord -----------------------------
(***************************************************************************)
(* How the clients of a bucket divide the search for lost attempts:        *)
(* get_active_clients, create_client_record and the pacing of              *)
(* clean_lost_attempts_in_bucket.                                          *)
(*                                                                         *)
(* Every client keeps a heartbeat in the client record, and takes every    *)
(* n-th active transaction record (ATR), where n is the number of clients  *)
(* it finds alive.  A pass is spread over the cleanup window, and only     *)
(* between two passes does it look at the others again.                    *)
(*                                                                         *)
(* Time is in ticks; a client takes none for its requests, so that what    *)
(* several of them do at one tick is interleaved in any order.             *)
(***************************************************************************)
EXTENDS Naturals, FiniteSets

CONSTANTS
    Clients,    \* their uuids, which are ordered
    Survivors,  \* those that neither leave nor die
    NumAtrs,    \* 1024 in the code
    Window,     \* cleanup_window
    Margin,     \* SAFETY_MARGIN_EXPIRY_MS: 2000
    MaxRemoved, \* expired clients one update removes: 12
    Overrides   \* bound: an operator may set an override, once

ASSUME ClientRecordAssumption ==
    /\ Clients \subseteq Nat /\ IsFiniteSet(Clients) /\ Survivors \subseteq Clients
    /\ NumAtrs \in Nat \ {0} /\ Window \in Nat \ {0}
    /\ Margin \in Nat /\ MaxRemoved \in Nat \ {0}
    /\ Overrides \in BOOLEAN

Atrs == 0 .. NumAtrs - 1

VARIABLES
    \* ---- the client record
    exists,
    present,   \* the clients it names
    age,       \* ticks since the heartbeat of each, no more than Expires
    override,  \* "override": not set, enabled, or over
    \* ---- the clients
    at,        \* where each is
    active,    \* the clients it has found alive
    expired,   \* those it is about to remove
    next,      \* the ATR it is at
    elapsed,   \* ticks of its pass
    due        \* ticks until it goes on to its next ATR

recordVars == <<exists, present, age, override>>
passVars   == <<next, elapsed, due>>
vars == <<recordVars, at, active, expired, passVars>>

Expires == Window \div 2 + Margin

TypeOK ==
    /\ exists \in BOOLEAN /\ override \in {"none", "enabled", "over"}
    /\ present \subseteq Clients /\ (present # {} => exists)
    /\ age \in [Clients -> 0..Expires]
    /\ at \in [Clients -> {"out", "read", "create", "update", "pass", "left", "dead"}]
    /\ active \in [Clients -> SUBSET Clients]
    /\ expired \in [Clients -> SUBSET Clients]
    /\ \A c \in Clients : expired[c] \cap active[c] = {}
    /\ next \in [Clients -> Atrs]
    /\ elapsed \in [Clients -> 0..Window] /\ due \in [Clients -> 0..Window]
    /\ \A c \in Clients : at[c] = "pass" => c \in active[c] /\ elapsed[c] + due[c] <= Window

Init ==
    /\ exists = FALSE /\ present = {} /\ age = [c \in Clients |-> 0] /\ override = "none"
    /\ at = [c \in Clients |-> "out"]
    /\ active = [c \in Clients |-> {c}]
    /\ expired = [c \in Clients |-> {}]
    /\ next = [c \in Clients |-> 0]
    /\ elapsed = [c \in Clients |-> 0] /\ due = [c \in Clients |-> 0]

Goes(c, place) == at' = [at EXCEPT ![c] = place]

-----------------------------------------------------------------------------
(* The division *)

\* num_active_clients, index_of_this_client.
Num(c)   == Cardinality(active[c])
Index(c) == Cardinality({d \in active[c] : d < c})

AtLeastOne(n) == IF n = 0 THEN 1 ELSE n

\* Mutant: the time gone is not taken off.
BudgetOfAll(atr, n, gone) == Window \div AtLeastOne((NumAtrs - atr) \div n)

\* budget_for_this_atr, where atr is the next of n clients' share.
Budget(atr, n, gone) == (Window - gone) \div AtLeastOne((NumAtrs - atr) \div n)

-----------------------------------------------------------------------------
(* get_active_clients *)

Starts(c) ==
    /\ at[c] = "out" /\ Goes(c, "read")
    /\ UNCHANGED <<recordVars, active, expired, passVars>>

\* Mutant: no margin.
HasExpiredHalfWay(c) == age[c] >= Window \div 2

HasExpired(c) == age[c] >= Expires

\* The pass over the share of c among those it has seen; one that is left without an
\* ATR is over at once.
BeginsPass(c, seen) ==
    LET n == Cardinality(seen)
        i == Cardinality({d \in seen : d < c})
    IN  IF i < NumAtrs
        THEN /\ Goes(c, "pass")
             /\ next' = [next EXCEPT ![c] = i]
             /\ elapsed' = [elapsed EXCEPT ![c] = 0]
             /\ due' = [due EXCEPT ![c] = Budget(i, n, 0)]
        ELSE Goes(c, "read") /\ UNCHANGED passVars

Reads(c) ==
    /\ at[c] = "read"
    /\ LET gone == {d \in present \ {c} : HasExpired(d)}
           seen == (present \ gone) \cup {c}
       IN \/ ~exists /\ Goes(c, "create") /\ UNCHANGED <<active, expired, passVars>>
          \/ /\ exists /\ override # "enabled" /\ Goes(c, "update")
             /\ active' = [active EXCEPT ![c] = seen]
             /\ \E out \in SUBSET gone :
                   /\ Cardinality(out) = MaxRemoved \/ (out = gone /\ Cardinality(out) < MaxRemoved)
                   /\ expired' = [expired EXCEPT ![c] = out]
             /\ UNCHANGED passVars
          \/ /\ exists /\ override = "enabled" /\ BeginsPass(c, seen)
             /\ active' = [active EXCEPT ![c] = seen]
             /\ expired' = [expired EXCEPT ![c] = {}]
    /\ UNCHANGED recordVars

\* create_client_record: that another client was faster is no error.
Creates(c) ==
    /\ at[c] = "create" /\ Goes(c, "read")
    /\ exists' = TRUE
    /\ UNCHANGED <<present, age, override, active, expired, passVars>>

\* The update has no CAS.  If another client has removed one of those it removes too,
\* the whole of it is refused, and the worker starts anew.
Updates(c) ==
    /\ at[c] = "update"
    /\ IF expired[c] \subseteq present
       THEN /\ present' = (present \ expired[c]) \cup {c}
            /\ age' = [age EXCEPT ![c] = 0]
            /\ BeginsPass(c, active[c])
       ELSE Goes(c, "read") /\ UNCHANGED <<present, age, passVars>>
    /\ UNCHANGED <<exists, override, active, expired>>

-----------------------------------------------------------------------------
(* clean_lost_attempts_in_bucket *)

GoesOnTo(c, atr) ==
    /\ at[c] = "pass" /\ due[c] = 0
    /\ IF atr < NumAtrs
       THEN /\ next' = [next EXCEPT ![c] = atr]
            /\ due' = [due EXCEPT ![c] = Budget(atr, Num(c), elapsed[c])]
            /\ UNCHANGED at
       ELSE Goes(c, "read") /\ UNCHANGED <<next, due>>
    /\ UNCHANGED <<recordVars, active, expired, elapsed>>

\* Mutants: a stride that is one too long; every ATR from the index on.
ExaminesTooFew(c) == GoesOnTo(c, next[c] + Num(c) + 1)
ExaminesEach(c)   == GoesOnTo(c, next[c] + 1)

\* The budget of an ATR is used up, and the next one of the share is looked at.
Examines(c) == GoesOnTo(c, next[c] + Num(c))

\* close: its threads have stopped, and it removes itself.
Leaves(c) ==
    /\ c \notin Survivors /\ at[c] = "pass" /\ Goes(c, "left")
    /\ present' = present \ {c}
    /\ UNCHANGED <<exists, age, override, active, expired, passVars>>

Dies(c) ==
    /\ c \notin Survivors /\ at[c] \notin {"out", "left", "dead"} /\ Goes(c, "dead")
    /\ UNCHANGED <<recordVars, active, expired, passVars>>

Override ==
    /\ Overrides /\ exists
    /\ \/ override = "none" /\ override' = "enabled"
       \/ override = "enabled" /\ override' = "over"
    /\ UNCHANGED <<exists, present, age, at, active, expired, passVars>>

\* Time passes when all wait.
Tick ==
    /\ \A c \in Clients : at[c] \in {"out", "left", "dead"} \/ (at[c] = "pass" /\ due[c] > 0)
    /\ age' = [c \in Clients |-> IF age[c] < Expires THEN age[c] + 1 ELSE age[c]]
    /\ elapsed' = [c \in Clients |-> IF at[c] = "pass" THEN elapsed[c] + 1 ELSE elapsed[c]]
    /\ due' = [c \in Clients |-> IF at[c] = "pass" THEN due[c] - 1 ELSE due[c]]
    /\ UNCHANGED <<exists, present, override, at, active, expired, next>>

ClientStep(c) == Reads(c) \/ Creates(c) \/ Updates(c) \/ Examines(c)

Next ==
    \/ \E c \in Clients : Starts(c) \/ ClientStep(c) \/ Leaves(c) \/ Dies(c)
    \/ Override \/ Tick

Spec == Init /\ [][Next]_vars

\* Clients that live go on, and so does time; the clients that take part come some time.
FairSpec ==
    /\ Spec /\ WF_vars(Tick)
    /\ \A c \in Clients : WF_vars(ClientStep(c)) /\ WF_vars(Starts(c))

-----------------------------------------------------------------------------
(* Properties *)

\* An ATR a client looks at is one of its share of those it has found alive: clients
\* that have found the same ones alive never look at the same ATR.
SharesAreDisjoint ==
    \A c, d \in Clients :
        (c # d /\ at[c] = "pass" /\ at[d] = "pass" /\ active[c] = active[d]) => next[c] # next[d]

\* The pass of a client has outlasted its heartbeat, or has just begun.
Late(c) == Expires <= Window /\ (elapsed[c] >= Expires \/ elapsed[c] = 0)

\* A client that lives and stays disappears from the record only where a heartbeat may
\* expire within a pass, as with the defaults, and only if its pass has outlasted its
\* heartbeat, or if it has renewed it at this very tick, behind the back of the one that
\* removes it: its update has no CAS, and was read for before.  (Under an override there
\* is no heartbeat, so that whoever is first after it removes the others.)
OnlyTheLateAreRemoved ==
    [][\A c \in present \ present' :
          at[c] = "dead" \/ at'[c] = "left" \/ override # "none" \/ Late(c)]_vars

\* "over one cleanup window period, the thread will look for all 1024 of these": each
\* ATR is looked at again and again by somebody, whoever comes, leaves and dies.
EveryAtrIsVisited ==
    \A a \in Atrs : []<>(\E c \in Clients : at[c] = "pass" /\ next[c] = a)
=============================================================================
