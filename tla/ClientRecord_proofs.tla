-------------------------- MODULE ClientRecord_proofs --------------------------
(***************************************************************************)
(* How the clients of a bucket share the search, for every set of clients, *)
(* number of ATRs, window and margin.                                      *)
(*                                                                         *)
(* The shares are disjoint because a client keeps, all through its pass,   *)
(* to the numbers that leave its index when divided by the number of       *)
(* clients (ShareFits).  And a client that lives is not removed before its *)
(* pass has outlasted its heartbeat, because the age of the heartbeat      *)
(* never exceeds the time it has spent in its pass (BeatsInPass), while    *)
(* nobody's list of the expired outlives the tick it was made at           *)
(* (ExpiredAreLate).                                                       *)
(***************************************************************************)
EXTENDS ClientRecord, FiniteSetTheorems, TLAPS

-----------------------------------------------------------------------------
(* The inductive invariant *)

RecordAgrees ==
    /\ \A c \in Clients : at[c] \in {"update", "pass"} => exists
    /\ \A c \in Clients : at[c] \in {"out", "left"} => c \notin present

\* next_atr is a whole number of strides from the index of the client.
ShareFits ==
    \A c \in Clients :
        /\ c \in active[c]
        /\ at[c] = "pass" => \E k \in Nat : next[c] = Index(c) + k * Num(c)

\* Until an operator overrides them clients keep up their heartbeat.
BeatsInPass ==
    override = "none" =>
        \A c \in present : at[c] = "dead" \/ age[c] <= elapsed[c]

ExpiredAreLate ==
    override = "none" =>
        \A c \in Clients : at[c] = "update" =>
            \A d \in expired[c] : at[d] = "dead" \/ Late(d)

SharesInv == TypeOK /\ RecordAgrees /\ ShareFits

IInv == SharesInv /\ BeatsInPass /\ ExpiredAreLate
-----------------------------------------------------------------------------
(* Arithmetic *)

LEMMA Quotient ==
    ASSUME NEW x \in Nat, NEW m \in Nat \ {0}
    PROVE  x \div m \in Nat /\ x \div m <= x
OBVIOUS

LEMMA ExpiresIsNumber == Expires \in Nat
<1>1. Window \div 2 \in Nat
  BY ClientRecordAssumption
<1> QED
  BY <1>1, ClientRecordAssumption DEF Expires

\* No ATR is given more time than the window has left.
LEMMA BudgetFits ==
    ASSUME NEW atr \in Atrs, NEW n \in Nat \ {0}, NEW gone \in 0..Window
    PROVE  Budget(atr, n, gone) \in 0..Window /\ gone + Budget(atr, n, gone) <= Window
<1>1. NumAtrs - atr \in Nat /\ Window - gone \in Nat /\ gone \in Nat /\ Window \in Nat
  BY ClientRecordAssumption DEF Atrs
<1>2. (NumAtrs - atr) \div n \in Nat
  BY <1>1, Quotient
<1>3. AtLeastOne((NumAtrs - atr) \div n) \in Nat \ {0}
  BY <1>2 DEF AtLeastOne
<1>4. Budget(atr, n, gone) \in Nat /\ Budget(atr, n, gone) <= Window - gone
  BY <1>1, <1>3, Quotient DEF Budget
<1> QED
  BY <1>1, <1>4

\* Two steps of n from two different places below n never meet.
LEMMA StridesDiffer ==
    ASSUME NEW n \in Nat \ {0}, NEW i \in 0..n-1, NEW j \in 0..n-1,
           NEW k \in Nat, NEW l \in Nat, i + k * n = j + l * n
    PROVE  i = j
<1>1. ASSUME NEW a \in 0..n-1, NEW b \in 0..n-1, NEW p \in Nat, NEW q \in Nat,
             p < q, a + p * n = b + q * n
      PROVE  FALSE
  <2>1. PICK m \in Nat : q = p + m + 1
    <3>1. q - p - 1 \in Nat /\ q = p + (q - p - 1) + 1
      BY <1>1
    <3> QED
      BY <3>1
  <2>2. q * n = p * n + m * n + n /\ m * n \in Nat /\ p * n \in Nat
    BY <2>1
  <2> QED
    BY <1>1, <2>2
<1>2. ~(k < l) /\ ~(l < k)
  BY <1>1
<1> QED
  BY <1>2

LEMMA MoreByOne ==
    ASSUME NEW B, IsFiniteSet(B), NEW A \in SUBSET B, NEW x \in B, x \notin A
    PROVE  Cardinality(A) \in Nat /\ Cardinality(B) \in Nat /\ Cardinality(A) < Cardinality(B)
<1>1. A \in SUBSET (B \ {x}) /\ IsFiniteSet(B \ {x}) /\ Cardinality(B \ {x}) = Cardinality(B) - 1
  BY FS_Subset, FS_RemoveElement
<1>2. IsFiniteSet(A) /\ Cardinality(A) <= Cardinality(B \ {x})
  BY <1>1, FS_Subset
<1>3. Cardinality(A) \in Nat /\ Cardinality(B) \in Nat
  BY <1>2, FS_CardinalityType
<1> QED
  BY <1>1, <1>2, <1>3

\* The clients of a set that come before one of it are fewer than all, and more
\* the later it comes.
LEMMA IndexFits ==
    ASSUME NEW S \in SUBSET Clients, NEW c \in S
    PROVE  /\ IsFiniteSet(S) /\ Cardinality(S) \in Nat \ {0}
           /\ Cardinality({d \in S : d < c}) \in 0..Cardinality(S) - 1
           /\ \A d \in S : c < d =>
                 Cardinality({e \in S : e < c}) < Cardinality({e \in S : e < d})
<1> DEFINE Before(d) == {e \in S : e < d}
<1>1. S \subseteq Nat /\ IsFiniteSet(S)
  BY ClientRecordAssumption, FS_Subset
<1>2. ASSUME NEW d \in S
      PROVE  /\ Before(d) \in SUBSET S /\ IsFiniteSet(Before(d)) /\ d \notin Before(d)
             /\ c < d => c \in Before(d) /\ Before(c) \in SUBSET Before(d)
  <2>1. Before(d) \in SUBSET S
    OBVIOUS
  <2>2. IsFiniteSet(Before(d))
    <3> HIDE DEF Before
    <3> QED
      BY <1>1, <2>1, FS_Subset
  <2>3. d \notin Before(d)
    BY <1>1
  <2>4. c < d => c \in Before(d) /\ Before(c) \in SUBSET Before(d)
    <3>1. \A e \in S : e < c /\ c < d => e < d
      BY <1>1
    <3> QED
      BY <3>1
  <2> QED
    BY <2>1, <2>2, <2>3, <2>4
<1> HIDE DEF Before
<1>3. Cardinality(Before(c)) \in Nat /\ Cardinality(S) \in Nat /\ Cardinality(Before(c)) < Cardinality(S)
  BY <1>1, <1>2, MoreByOne
<1>4. ASSUME NEW d \in S, c < d PROVE Cardinality(Before(c)) < Cardinality(Before(d))
  BY <1>2, <1>4, MoreByOne
<1> QED
  BY <1>1, <1>3, <1>4 DEF Before
-----------------------------------------------------------------------------
(* Steps *)

Places == {"out", "read", "create", "update", "pass", "left", "dead"}

\* A step of one client is to the others no more than a change of the record.
Spares(c) ==
    \A d \in Clients \ {c} :
        /\ at'[d] = at[d] /\ active'[d] = active[d] /\ expired'[d] = expired[d]
        /\ next'[d] = next[d] /\ elapsed'[d] = elapsed[d] /\ due'[d] = due[d]

ClientTypes ==
    /\ at \in [Clients -> Places]
    /\ active \in [Clients -> SUBSET Clients] /\ expired \in [Clients -> SUBSET Clients]
    /\ next \in [Clients -> Atrs]
    /\ elapsed \in [Clients -> 0..Window] /\ due \in [Clients -> 0..Window]

\* What TypeOK and ShareFits say of one client.
Fits(c) ==
    /\ expired[c] \cap active[c] = {} /\ c \in active[c]
    /\ at[c] = "pass" =>
          elapsed[c] + due[c] <= Window /\ \E k \in Nat : next[c] = Index(c) + k * Num(c)

LEMMA Whole ==
    SharesInv <=>
        /\ exists \in BOOLEAN /\ override \in {"none", "enabled", "over"}
        /\ present \subseteq Clients /\ (present # {} => exists)
        /\ age \in [Clients -> 0..Expires]
        /\ ClientTypes /\ RecordAgrees /\ \A c \in Clients : Fits(c)
BY DEF SharesInv, TypeOK, ClientTypes, ShareFits, Fits, Places

LEMMA WholeAgain ==
    ASSUME exists' \in BOOLEAN, override' \in {"none", "enabled", "over"},
           present' \subseteq Clients, present' # {} => exists',
           age' \in [Clients -> 0..Expires],
           ClientTypes', RecordAgrees', \A c \in Clients : Fits(c)'
    PROVE  SharesInv'
BY ExpiresIsNumber DEF SharesInv, TypeOK, ClientTypes, ShareFits, Fits, Places, Expires

LEMMA OthersFit ==
    ASSUME NEW c \in Clients, Spares(c), NEW d \in Clients \ {c}, Fits(d)
    PROVE  Fits(d)'
BY DEF Spares, Fits, Index, Num

\* A client begins a pass with the first ATR of its share, or has none.
LEMMA PassBegins ==
    ASSUME SharesInv, NEW c \in Clients, NEW seen \in SUBSET Clients, c \in seen,
           BeginsPass(c, seen)
    PROVE  /\ at' \in [Clients -> Places] /\ next' \in [Clients -> Atrs]
           /\ elapsed' \in [Clients -> 0..Window] /\ due' \in [Clients -> 0..Window]
           /\ \A d \in Clients \ {c} :
                 at'[d] = at[d] /\ next'[d] = next[d] /\ elapsed'[d] = elapsed[d] /\ due'[d] = due[d]
           /\ at'[c] \in {"pass", "read"}
           /\ at'[c] = "pass" =>
                 /\ elapsed'[c] = 0 /\ elapsed'[c] + due'[c] <= Window
                 /\ next'[c] = Cardinality({d \in seen : d < c})
<1> DEFINE n == Cardinality(seen)
           i == Cardinality({d \in seen : d < c})
<1>1. /\ at \in [Clients -> Places] /\ next \in [Clients -> Atrs]
      /\ elapsed \in [Clients -> 0..Window] /\ due \in [Clients -> 0..Window]
  BY Whole DEF ClientTypes
<1>2. n \in Nat \ {0} /\ i \in Nat
  <2>1. n \in Nat \ {0} /\ i \in 0..n - 1
    BY IndexFits
  <2> HIDE DEF n, i
  <2> QED
    BY <2>1
<1>3. CASE i < NumAtrs
  <2>1. i \in Atrs /\ 0 \in 0..Window
    BY <1>2, <1>3, ClientRecordAssumption DEF Atrs
  <2>2. Budget(i, n, 0) \in 0..Window /\ 0 + Budget(i, n, 0) <= Window
    <3> HIDE DEF n, i
    <3> QED
      BY <1>2, <2>1, BudgetFits
  <2>3. /\ at' = [at EXCEPT ![c] = "pass"] /\ next' = [next EXCEPT ![c] = i]
        /\ elapsed' = [elapsed EXCEPT ![c] = 0]
        /\ due' = [due EXCEPT ![c] = Budget(i, n, 0)]
    BY <1>3 DEF BeginsPass, Goes
  <2> HIDE DEF n
  <2>4. at'[c] = "pass" /\ next'[c] = i /\ elapsed'[c] = 0 /\ due'[c] = Budget(i, n, 0)
    BY <1>1, <2>3
  <2>5. elapsed'[c] + due'[c] <= Window
    BY <2>2, <2>4
  <2>6. /\ at' \in [Clients -> Places] /\ next' \in [Clients -> Atrs]
        /\ elapsed' \in [Clients -> 0..Window] /\ due' \in [Clients -> 0..Window]
    BY <1>1, <2>1, <2>2, <2>3 DEF Places
  <2>7. \A d \in Clients \ {c} :
            at'[d] = at[d] /\ next'[d] = next[d] /\ elapsed'[d] = elapsed[d] /\ due'[d] = due[d]
    BY <1>1, <2>3
  <2> QED
    BY <2>4, <2>5, <2>6, <2>7
<1>4. CASE ~(i < NumAtrs)
  <2>1. at' = [at EXCEPT ![c] = "read"] /\ UNCHANGED <<next, elapsed, due>>
    BY <1>4 DEF BeginsPass, Goes, passVars
  <2> QED
    BY <1>1, <2>1 DEF Places
<1> QED
  BY <1>3, <1>4

\* Of a client that begins a pass, or has no ATR, among those it has seen.
LEMMA BegunInv ==
    ASSUME SharesInv, NEW c \in Clients, NEW seen \in SUBSET Clients, c \in seen,
           BeginsPass(c, seen), exists, exists' = exists, override' = override,
           at[c] \in {"read", "update"},
           active' \in [Clients -> SUBSET Clients], expired' \in [Clients -> SUBSET Clients],
           active'[c] = seen, expired'[c] \cap seen = {},
           \A d \in Clients \ {c} : active'[d] = active[d] /\ expired'[d] = expired[d],
           present' \subseteq present \cup {c}, age' \in [Clients -> 0..Expires]
    PROVE  SharesInv'
<1>1. ClientTypes /\ RecordAgrees /\ present \subseteq Clients /\ \A d \in Clients : Fits(d)
  BY Whole
<1>2. ClientTypes' /\ Spares(c)
  BY PassBegins DEF ClientTypes, Spares
<1>3. at'[c] \in {"pass", "read"}
  BY PassBegins
<1>4. Fits(c)'
  <2>1. Index(c)' = Cardinality({d \in seen : d < c})
    BY DEF Index
  <2>2. Num(c)' \in Nat /\ Index(c)' \in Nat
    <3>1. Num(c)' = Cardinality(seen) /\ Cardinality(seen) \in Nat \ {0}
      BY IndexFits DEF Num
    <3>2. Cardinality({d \in seen : d < c}) \in 0..Cardinality(seen) - 1
      BY IndexFits
    <3> QED
      BY <2>1, <3>1, <3>2
  <2>3. at'[c] = "pass" => elapsed'[c] + due'[c] <= Window /\ next'[c] = Index(c)'
    BY <2>1, PassBegins
  <2>4. at'[c] = "pass" => next'[c] = Index(c)' + 0 * Num(c)'
    BY <2>2, <2>3
  <2> QED
    BY <2>3, <2>4 DEF Fits
<1>5. RecordAgrees'
  BY <1>1, <1>2, <1>3 DEF RecordAgrees, Spares
<1> QED
  BY <1>1, <1>2, <1>4, <1>5, OthersFit, Whole, WholeAgain

LEMMA StartsInv == ASSUME SharesInv, NEW c \in Clients, Starts(c) PROVE SharesInv'
<1>1. ClientTypes /\ \A d \in Clients : Fits(d)
  BY Whole
<1>2. /\ at' = [at EXCEPT ![c] = "read"]
      /\ UNCHANGED <<exists, present, age, override, active, expired, next, elapsed, due>>
  BY DEF Starts, Goes, recordVars, passVars
<1>3. ClientTypes' /\ Spares(c) /\ at'[c] = "read"
  BY <1>1, <1>2 DEF ClientTypes, Spares, Places
<1>4. Fits(c)'
  BY <1>1, <1>2, <1>3 DEF Fits
<1>5. RecordAgrees'
  BY <1>1, <1>2, <1>3 DEF SharesInv, RecordAgrees, ClientTypes
<1> QED
  BY <1>1, <1>2, <1>3, <1>4, <1>5, OthersFit, Whole, WholeAgain
LEMMA ReadsInv == ASSUME SharesInv, NEW c \in Clients, Reads(c) PROVE SharesInv'
<1> DEFINE gone == {d \in present \ {c} : HasExpired(d)}
           seen == (present \ gone) \cup {c}
<1>1. ClientTypes /\ RecordAgrees /\ present \subseteq Clients /\ \A d \in Clients : Fits(d)
  BY Whole
<1>2. UNCHANGED <<exists, present, age, override>> /\ at[c] = "read"
  BY DEF Reads, recordVars
<1>3. seen \in SUBSET Clients /\ c \in seen /\ gone \in SUBSET Clients /\ gone \cap seen = {}
  BY <1>1
<1>4. \/ ~exists /\ Goes(c, "create") /\ UNCHANGED <<active, expired, passVars>>
      \/ /\ exists /\ override # "enabled" /\ Goes(c, "update")
         /\ active' = [active EXCEPT ![c] = seen]
         /\ \E out \in SUBSET gone : expired' = [expired EXCEPT ![c] = out]
         /\ UNCHANGED passVars
      \/ /\ exists /\ override = "enabled" /\ BeginsPass(c, seen)
         /\ active' = [active EXCEPT ![c] = seen]
         /\ expired' = [expired EXCEPT ![c] = {}]
  BY DEF Reads
<1> HIDE DEF gone, seen
<1>5. CASE ~exists /\ Goes(c, "create") /\ UNCHANGED <<active, expired, passVars>>
  <2>1. ClientTypes' /\ Spares(c) /\ at'[c] = "create"
    BY <1>1, <1>5 DEF ClientTypes, Spares, Places, Goes, passVars
  <2>2. Fits(c)'
    BY <1>1, <1>5, <2>1 DEF Fits
  <2>3. RecordAgrees'
    BY <1>1, <1>2, <2>1 DEF RecordAgrees, Spares
  <2> QED
    BY <1>1, <1>2, <2>1, <2>2, <2>3, OthersFit, Whole, WholeAgain
<1>6. CASE /\ exists /\ Goes(c, "update") /\ active' = [active EXCEPT ![c] = seen]
           /\ \E out \in SUBSET gone : expired' = [expired EXCEPT ![c] = out]
           /\ UNCHANGED passVars
  <2>1. PICK out \in SUBSET gone : expired' = [expired EXCEPT ![c] = out]
    BY <1>6
  <2>2. ClientTypes' /\ Spares(c)
    <3>1. /\ at' = [at EXCEPT ![c] = "update"] /\ active' = [active EXCEPT ![c] = seen]
          /\ expired' = [expired EXCEPT ![c] = out] /\ UNCHANGED <<next, elapsed, due>>
          /\ out \in SUBSET Clients /\ "update" \in Places
      BY <1>3, <1>6, <2>1 DEF Goes, passVars, Places
    <3>2. ClientTypes'
      BY <1>1, <1>3, <3>1 DEF ClientTypes
    <3>3. Spares(c)
      BY <1>1, <3>1 DEF ClientTypes, Spares
    <3> QED
      BY <3>2, <3>3
  <2>3. at'[c] = "update" /\ expired'[c] = out /\ active'[c] = seen
    BY <1>1, <1>6, <2>1 DEF ClientTypes, Goes
  <2>4. Fits(c)'
    BY <1>3, <2>1, <2>3 DEF Fits
  <2>5. RecordAgrees'
    BY <1>1, <1>2, <1>6, <2>2, <2>3 DEF RecordAgrees, Spares
  <2> QED
    BY <1>1, <1>2, <2>2, <2>4, <2>5, OthersFit, Whole, WholeAgain
<1>7. CASE /\ exists /\ BeginsPass(c, seen)
           /\ active' = [active EXCEPT ![c] = seen] /\ expired' = [expired EXCEPT ![c] = {}]
  <2>1. /\ active' \in [Clients -> SUBSET Clients] /\ expired' \in [Clients -> SUBSET Clients]
        /\ active'[c] = seen /\ expired'[c] = {}
        /\ \A d \in Clients \ {c} : active'[d] = active[d] /\ expired'[d] = expired[d]
    BY <1>1, <1>3, <1>7 DEF ClientTypes
  <2>2. age' \in [Clients -> 0..Expires]
    BY <1>2, Whole
  <2>3. expired'[c] \cap seen = {} /\ present' \subseteq present \cup {c}
    BY <1>2, <2>1
  <2> QED
    BY <1>2, <1>3, <1>7, <2>1, <2>2, <2>3, BegunInv
<1> QED
  BY <1>4, <1>5, <1>6, <1>7

LEMMA CreatesInv == ASSUME SharesInv, NEW c \in Clients, Creates(c) PROVE SharesInv'
<1>1. ClientTypes /\ RecordAgrees /\ \A d \in Clients : Fits(d)
  BY Whole
<1>2. /\ at' = [at EXCEPT ![c] = "read"] /\ exists' = TRUE
      /\ UNCHANGED <<present, age, override, active, expired, next, elapsed, due>>
  BY DEF Creates, Goes, passVars
<1>3. ClientTypes' /\ Spares(c) /\ at'[c] = "read" /\ at[c] = "create"
  BY <1>1, <1>2 DEF ClientTypes, Spares, Places, Creates
<1>4. Fits(c)'
  BY <1>1, <1>2, <1>3 DEF Fits
<1>5. RecordAgrees'
  BY <1>1, <1>2, <1>3 DEF RecordAgrees, Spares
<1> QED
  BY <1>1, <1>2, <1>3, <1>4, <1>5, OthersFit, Whole, WholeAgain

LEMMA UpdatesInv == ASSUME SharesInv, NEW c \in Clients, Updates(c) PROVE SharesInv'
<1>1. ClientTypes /\ RecordAgrees /\ present \subseteq Clients /\ \A d \in Clients : Fits(d)
  BY Whole
<1>2. UNCHANGED <<exists, override, active, expired>> /\ at[c] = "update" /\ exists
  BY <1>1 DEF Updates, RecordAgrees
<1>3. CASE expired[c] \subseteq present
  <2>1. /\ present' = (present \ expired[c]) \cup {c} /\ age' = [age EXCEPT ![c] = 0]
        /\ BeginsPass(c, active[c])
    BY <1>3 DEF Updates
  <2>2. active[c] \in SUBSET Clients /\ c \in active[c]
    BY <1>1 DEF ClientTypes, Fits
  <2>3. age' \in [Clients -> 0..Expires]
    BY <2>1, Whole, ExpiresIsNumber
  <2>4. expired[c] \cap active[c] = {}
    BY <1>1 DEF Fits
  <2> QED
    BY <1>1, <1>2, <2>1, <2>2, <2>3, <2>4, BegunInv DEF ClientTypes
<1>4. CASE ~(expired[c] \subseteq present)
  <2>1. at' = [at EXCEPT ![c] = "read"] /\ UNCHANGED <<present, age, next, elapsed, due>>
    BY <1>4 DEF Updates, Goes, passVars
  <2>2. ClientTypes' /\ Spares(c) /\ at'[c] = "read"
    BY <1>1, <1>2, <2>1 DEF ClientTypes, Spares, Places
  <2>3. Fits(c)'
    BY <1>1, <1>2, <2>1, <2>2 DEF Fits
  <2>4. RecordAgrees'
    BY <1>1, <1>2, <2>1, <2>2 DEF RecordAgrees, Spares
  <2> QED
    BY <1>1, <1>2, <2>1, <2>2, <2>3, <2>4, OthersFit, Whole, WholeAgain
<1> QED
  BY <1>3, <1>4

LEMMA ExaminesInv == ASSUME SharesInv, NEW c \in Clients, Examines(c) PROVE SharesInv'
<1> DEFINE atr == next[c] + Num(c)
<1>1. ClientTypes /\ RecordAgrees /\ \A d \in Clients : Fits(d)
  BY Whole
<1>2. /\ at[c] = "pass" /\ due[c] = 0
      /\ UNCHANGED <<exists, present, age, override, active, expired, elapsed>>
  BY DEF Examines, GoesOnTo, recordVars
<1>3. /\ Num(c) \in Nat \ {0} /\ next[c] \in Nat /\ atr \in Nat /\ elapsed[c] \in 0..Window
      /\ c \in active[c]
  <2>1. active[c] \in SUBSET Clients /\ c \in active[c] /\ next[c] \in Atrs /\ elapsed[c] \in 0..Window
    BY <1>1 DEF ClientTypes, Fits
  <2>2. Num(c) \in Nat \ {0}
    BY <2>1, IndexFits DEF Num
  <2> QED
    BY <2>1, <2>2, ClientRecordAssumption DEF Atrs
<1>4. CASE atr < NumAtrs
  <2>1. /\ next' = [next EXCEPT ![c] = atr] /\ at' = at
        /\ due' = [due EXCEPT ![c] = Budget(atr, Num(c), elapsed[c])]
    BY <1>4 DEF Examines, GoesOnTo
  <2>2. atr \in Atrs
    BY <1>3, <1>4, ClientRecordAssumption DEF Atrs
  <2>3. /\ Budget(atr, Num(c), elapsed[c]) \in 0..Window
        /\ elapsed[c] + Budget(atr, Num(c), elapsed[c]) <= Window
    <3> HIDE DEF atr
    <3> QED
      BY <1>3, <2>2, BudgetFits
  <2>4. PICK k \in Nat : next[c] = Index(c) + k * Num(c)
    BY <1>1, <1>2 DEF Fits
  <2>5. Index(c) \in Nat
    <3>1. active[c] \in SUBSET Clients
      BY <1>1 DEF ClientTypes
    <3>2. Index(c) \in 0..Num(c) - 1
      BY <1>3, <3>1, IndexFits DEF Index, Num
    <3> QED
      BY <1>3, <3>2
  <2>6. atr = Index(c) + (k + 1) * Num(c)
    BY <1>3, <2>4, <2>5
  <2> HIDE DEF atr
  <2>7. ClientTypes' /\ Spares(c)
    BY <1>1, <1>2, <2>1, <2>2, <2>3 DEF ClientTypes, Spares
  <2>8. next'[c] = atr /\ due'[c] = Budget(atr, Num(c), elapsed[c])
    BY <1>1, <2>1 DEF ClientTypes
  <2>9. Index(c)' = Index(c) /\ Num(c)' = Num(c)
    BY <1>2 DEF Index, Num
  <2>10. \E l \in Nat : next'[c] = Index(c)' + l * Num(c)'
    BY <2>6, <2>8, <2>9
  <2>11. elapsed'[c] + due'[c] <= Window
    BY <1>2, <2>3, <2>8
  <2>12. Fits(c)'
    BY <1>1, <1>2, <2>10, <2>11 DEF Fits
  <2>13. RecordAgrees'
    BY <1>1, <1>2, <2>1 DEF RecordAgrees
  <2> QED
    BY <1>1, <1>2, <2>7, <2>12, <2>13, OthersFit, Whole, WholeAgain
<1>5. CASE ~(atr < NumAtrs)
  <2>1. at' = [at EXCEPT ![c] = "read"] /\ UNCHANGED <<next, due>>
    BY <1>5 DEF Examines, GoesOnTo, Goes
  <2>2. ClientTypes' /\ Spares(c) /\ at'[c] = "read"
    BY <1>1, <1>2, <2>1 DEF ClientTypes, Spares, Places
  <2>3. Fits(c)'
    BY <1>1, <1>2, <2>1, <2>2 DEF Fits
  <2>4. RecordAgrees'
    BY <1>1, <1>2, <2>1, <2>2 DEF RecordAgrees, Spares
  <2> QED
    BY <1>1, <1>2, <2>2, <2>3, <2>4, OthersFit, Whole, WholeAgain
<1> QED
  BY <1>4, <1>5
\* A client that is gone.
LEMMA GoneInv ==
    ASSUME SharesInv, NEW c \in Clients, NEW place \in {"left", "dead"}, Goes(c, place),
           place = "left" => c \notin present', present' \subseteq present,
           UNCHANGED <<exists, age, override, active, expired, passVars>>
    PROVE  SharesInv'
<1>1. ClientTypes /\ RecordAgrees /\ present \subseteq Clients /\ \A d \in Clients : Fits(d)
  BY Whole
<1>2. ClientTypes' /\ Spares(c) /\ at'[c] = place
  BY <1>1 DEF ClientTypes, Spares, Places, Goes, passVars
<1>3. Fits(c)'
  BY <1>1, <1>2 DEF Fits
<1>4. RecordAgrees'
  BY <1>1, <1>2 DEF RecordAgrees, Spares
<1> QED
  BY <1>1, <1>2, <1>3, <1>4, OthersFit, Whole, WholeAgain

LEMMA TickInv == ASSUME SharesInv, Tick PROVE SharesInv'
<1>1. ClientTypes /\ RecordAgrees /\ \A d \in Clients : Fits(d)
  BY Whole
<1>2. UNCHANGED <<exists, present, override, at, active, expired, next>>
  BY DEF Tick
<1>3. age' \in [Clients -> 0..Expires]
  <2>1. age \in [Clients -> 0..Expires] /\ Expires \in Nat
    BY Whole, ExpiresIsNumber
  <2>2. \A c \in Clients : (IF age[c] < Expires THEN age[c] + 1 ELSE age[c]) \in 0..Expires
    BY <2>1
  <2> QED
    BY <2>2 DEF Tick
<1>4. ASSUME NEW c \in Clients
      PROVE  /\ elapsed'[c] = IF at[c] = "pass" THEN elapsed[c] + 1 ELSE elapsed[c]
             /\ due'[c] = IF at[c] = "pass" THEN due[c] - 1 ELSE due[c]
             /\ elapsed'[c] \in 0..Window /\ due'[c] \in 0..Window
             /\ at[c] = "pass" => elapsed'[c] + due'[c] <= Window
  <2>1. /\ elapsed[c] \in 0..Window /\ due[c] \in 0..Window
        /\ at[c] = "pass" => elapsed[c] + due[c] <= Window /\ due[c] > 0
    BY <1>1 DEF ClientTypes, Fits, Tick
  <2>2. /\ elapsed'[c] = IF at[c] = "pass" THEN elapsed[c] + 1 ELSE elapsed[c]
        /\ due'[c] = IF at[c] = "pass" THEN due[c] - 1 ELSE due[c]
    BY DEF Tick
  <2> QED
    BY <2>1, <2>2, ClientRecordAssumption
<1>5. ClientTypes'
  <2>1. /\ elapsed' = [c \in Clients |-> elapsed'[c]] /\ due' = [c \in Clients |-> due'[c]]
    BY DEF Tick
  <2>2. elapsed' \in [Clients -> 0..Window] /\ due' \in [Clients -> 0..Window]
    BY <1>4, <2>1
  <2> QED
    BY <1>1, <1>2, <2>2 DEF ClientTypes
<1>6. \A c \in Clients : Fits(c)'
  BY <1>1, <1>2, <1>4 DEF Fits, Index, Num
<1>7. RecordAgrees'
  BY <1>1, <1>2 DEF RecordAgrees
<1> QED
  BY <1>2, <1>3, <1>5, <1>6, <1>7, Whole, WholeAgain

LEMMA SharesStep == ASSUME SharesInv, [Next]_vars PROVE SharesInv'
<1>1. CASE UNCHANGED vars
  BY <1>1 DEF vars, recordVars, passVars, SharesInv, TypeOK, RecordAgrees, ShareFits, Index, Num, Expires
<1>2. ASSUME NEW c \in Clients, Starts(c) PROVE SharesInv'
  BY <1>2, StartsInv
<1>3. ASSUME NEW c \in Clients, ClientStep(c) PROVE SharesInv'
  BY <1>3, ReadsInv, CreatesInv, UpdatesInv, ExaminesInv DEF ClientStep
<1>4. ASSUME NEW c \in Clients, Leaves(c) PROVE SharesInv'
  <2>1. /\ Goes(c, "left") /\ present' = present \ {c}
        /\ UNCHANGED <<exists, age, override, active, expired, passVars>>
    BY <1>4 DEF Leaves
  <2> QED
    BY <2>1, GoneInv
<1>5. ASSUME NEW c \in Clients, Dies(c) PROVE SharesInv'
  <2>1. /\ Goes(c, "dead") /\ present' = present
        /\ UNCHANGED <<exists, age, override, active, expired, passVars>>
    BY <1>5 DEF Dies, recordVars
  <2> QED
    BY <2>1, GoneInv
<1>6. CASE Override
  <2>1. /\ override' \in {"enabled", "over"}
        /\ UNCHANGED <<exists, present, age, at, active, expired, next, elapsed, due>>
    BY <1>6 DEF Override, passVars
  <2> QED
    BY <2>1 DEF SharesInv, TypeOK, RecordAgrees, ShareFits, Index, Num, Expires
<1>7. CASE Tick
  BY <1>7, TickInv
<1> QED
  BY <1>1, <1>2, <1>3, <1>4, <1>5, <1>6, <1>7 DEF Next

LEMMA SharesInit == Init => SharesInv
<1> SUFFICES ASSUME Init PROVE SharesInv
  OBVIOUS
<1>1. 0 \in Atrs /\ 0 \in 0..Window /\ 0 \in 0..Expires
  BY ClientRecordAssumption, ExpiresIsNumber DEF Atrs
<1>2. ClientTypes /\ age \in [Clients -> 0..Expires] /\ \A c \in Clients : at[c] = "out" /\ active[c] = {c}
  BY <1>1 DEF Init, ClientTypes, Places
<1>3. RecordAgrees
  BY <1>2 DEF Init, RecordAgrees
<1>4. \A c \in Clients : Fits(c)
  BY <1>2 DEF Init, Fits
<1> QED
  BY <1>2, <1>3, <1>4, Whole DEF Init
-----------------------------------------------------------------------------
(* Heartbeats *)

\* Nobody comes back from the dead, and an override is not taken back.
LEMMA GoneForGood ==
    ASSUME SharesInv, [Next]_vars
    PROVE  /\ \A d \in Clients : at[d] = "dead" => at'[d] = "dead"
           /\ override' = "none" => override = "none"
<1>1. at \in [Clients -> Places] /\ \A c \in Clients : active[c] \in SUBSET Clients /\ c \in active[c]
  BY Whole DEF ClientTypes, Fits
<1>2. CASE UNCHANGED vars
  BY <1>2 DEF vars, recordVars
<1>3. ASSUME NEW c \in Clients, at[c] # "dead", UNCHANGED override, Spares(c)
      PROVE  /\ \A d \in Clients : at[d] = "dead" => at'[d] = "dead"
             /\ override' = "none" => override = "none"
  BY <1>3 DEF Spares
<1>4. ASSUME NEW c \in Clients, Starts(c) \/ ClientStep(c) \/ Leaves(c) \/ Dies(c)
      PROVE  /\ at[c] # "dead" /\ UNCHANGED override
             /\ \A d \in Clients \ {c} : at'[d] = at[d]
  <2>1. at[c] # "dead" /\ UNCHANGED override
    BY <1>4 DEF Starts, ClientStep, Reads, Creates, Updates, Examines, GoesOnTo, Leaves, Dies, recordVars
  <2>2. UNCHANGED at \/ \E place \in Places : at' = [at EXCEPT ![c] = place]
    BY <1>4 DEF Starts, ClientStep, Reads, Creates, Updates, Examines, GoesOnTo, Leaves, Dies,
                BeginsPass, Goes, Places
  <2> QED
    BY <1>1, <2>1, <2>2
<1>5. CASE Override \/ Tick
  BY <1>5 DEF Override, Tick
<1> QED
  BY <1>2, <1>4, <1>5 DEF Next

LEMMA BeatsStep ==
    ASSUME SharesInv, BeatsInPass, [Next]_vars
    PROVE  BeatsInPass'
<1> SUFFICES ASSUME override' = "none", NEW d \in present', at'[d] # "dead"
             PROVE  age'[d] <= elapsed'[d]
  BY DEF BeatsInPass
<1>1. /\ ClientTypes /\ RecordAgrees /\ present \subseteq Clients
      /\ age \in [Clients -> 0..Expires] /\ Expires \in Nat
      /\ \A c \in Clients : active[c] \in SUBSET Clients /\ c \in active[c]
  BY Whole, ExpiresIsNumber DEF ClientTypes, Fits
<1>2. /\ override = "none"
      /\ \A c \in present : at[c] # "dead" => age[c] <= elapsed[c]
      /\ d \in present => at[d] # "dead"
  BY <1>1, GoneForGood DEF BeatsInPass
<1>3. CASE present' \subseteq present /\ UNCHANGED <<age, elapsed>>
  BY <1>2, <1>3
<1>4. ASSUME NEW c \in Clients, Starts(c) \/ Creates(c) \/ Examines(c) \/ Leaves(c) \/ Dies(c)
      PROVE  present' \subseteq present /\ UNCHANGED <<age, elapsed>>
  BY <1>4 DEF Starts, Creates, Examines, GoesOnTo, Leaves, Dies, recordVars, passVars
<1>5. ASSUME NEW c \in Clients, Reads(c)
      PROVE  present' \subseteq present /\ UNCHANGED <<age, elapsed>>
  BY <1>2, <1>5 DEF Reads, recordVars, passVars
<1>6. ASSUME NEW c \in Clients, Updates(c) PROVE age'[d] <= elapsed'[d]
  <2>1. CASE expired[c] \subseteq present
    <3>1. /\ present' = (present \ expired[c]) \cup {c} /\ age' = [age EXCEPT ![c] = 0]
          /\ BeginsPass(c, active[c])
      BY <1>6, <2>1 DEF Updates
    <3>2. /\ elapsed' \in [Clients -> 0..Window]
          /\ \A e \in Clients \ {c} : elapsed'[e] = elapsed[e]
      BY <1>1, <3>1, PassBegins
    <3>3. CASE d = c
      <4>1. age'[d] = 0 /\ elapsed'[d] \in 0..Window
        BY <1>1, <3>1, <3>2, <3>3
      <4> QED
        BY <4>1, ClientRecordAssumption
    <3>4. CASE d # c
      BY <1>1, <1>2, <3>1, <3>2, <3>4
    <3> QED
      BY <3>3, <3>4
  <2>2. CASE ~(expired[c] \subseteq present)
    BY <1>3, <1>6, <2>2 DEF Updates, passVars
  <2> QED
    BY <2>1, <2>2
<1>7. CASE Tick
  <2>1. d \in present /\ d \in Clients /\ at[d] # "dead" /\ age[d] <= elapsed[d]
    BY <1>1, <1>2, <1>7 DEF Tick
  <2>2. at[d] = "pass"
    BY <1>1, <1>7, <2>1 DEF Tick, RecordAgrees
  <2>3. /\ age'[d] = (IF age[d] < Expires THEN age[d] + 1 ELSE age[d])
        /\ elapsed'[d] = elapsed[d] + 1
        /\ age[d] \in Nat /\ elapsed[d] \in Nat
    BY <1>1, <1>7, <2>1, <2>2, ClientRecordAssumption DEF Tick, ClientTypes
  <2> QED
    BY <2>1, <2>3
<1>8. CASE Override \/ UNCHANGED vars
  <2>1. UNCHANGED <<present, age, elapsed>>
    BY <1>8 DEF Override, vars, recordVars, passVars
  <2> QED
    BY <1>3, <2>1
<1> QED
  BY <1>3, <1>4, <1>5, <1>6, <1>7, <1>8 DEF Next, ClientStep

\* No time passes while a client is about to write its heartbeat: whoever is late then
\* stays so, or begins its next pass.
LEMMA LateStays ==
    ASSUME SharesInv, [Next]_vars, override' = "none", NEW c \in Clients, at[c] = "update",
           NEW d \in Clients, Late(d)
    PROVE  Late(d)'
<1> SUFFICES elapsed'[d] = elapsed[d] \/ elapsed'[d] = 0
  BY DEF Late, Expires
<1>1. elapsed \in [Clients -> 0..Window] /\ \A e \in Clients : active[e] \in SUBSET Clients
  BY DEF SharesInv, TypeOK
<1>2. CASE UNCHANGED elapsed
  BY <1>2
<1>3. ASSUME NEW e \in Clients, NEW seen, BeginsPass(e, seen)
      PROVE  elapsed'[d] = elapsed[d] \/ elapsed'[d] = 0
  <2>1. UNCHANGED elapsed \/ elapsed' = [elapsed EXCEPT ![e] = 0]
    BY <1>3 DEF BeginsPass, passVars
  <2> QED
    BY <1>1, <2>1
<1>4. ASSUME NEW e \in Clients, Updates(e) \/ Reads(e)
      PROVE  elapsed'[d] = elapsed[d] \/ elapsed'[d] = 0
  <2>1. UNCHANGED elapsed \/ \E seen : BeginsPass(e, seen)
    BY <1>4 DEF Updates, Reads, passVars
  <2> QED
    BY <1>2, <1>3, <2>1
<1>5. ~Tick
  BY DEF Tick
<1> QED
  BY <1>2, <1>4, <1>5 DEF Next, Starts, ClientStep, Creates, Examines, GoesOnTo, Leaves, Dies, Override,
                          vars, passVars

\* The list of the expired a client makes names only the dead and the late, and stays so.
LEMMA ExpiredStep ==
    ASSUME SharesInv, BeatsInPass, ExpiredAreLate, [Next]_vars
    PROVE  ExpiredAreLate'
<1> SUFFICES ASSUME override' = "none", NEW c \in Clients, at'[c] = "update", NEW d \in expired'[c]
             PROVE  at'[d] = "dead" \/ Late(d)'
  BY DEF ExpiredAreLate
<1>1. /\ ClientTypes /\ present \subseteq Clients
      /\ age \in [Clients -> 0..Expires] /\ Expires \in Nat
      /\ \A e \in Clients : active[e] \in SUBSET Clients /\ e \in active[e]
  BY Whole, ExpiresIsNumber DEF ClientTypes, Fits
<1>2. /\ override = "none"
      /\ \A e \in Clients : at[e] = "dead" => at'[e] = "dead"
  BY GoneForGood
<1>3. ASSUME at[c] = "update", expired'[c] = expired[c] PROVE at'[d] = "dead" \/ Late(d)'
  <2>1. d \in Clients /\ (at[d] = "dead" \/ Late(d))
    BY <1>1, <1>2, <1>3 DEF ExpiredAreLate, ClientTypes
  <2> QED
    BY <1>2, <1>3, <2>1, LateStays
<1>4. ASSUME NEW e \in Clients, Reads(e), e = c PROVE at'[d] = "dead" \/ Late(d)'
  <2>1. PICK out \in SUBSET {f \in present \ {c} : HasExpired(f)} :
            expired' = [expired EXCEPT ![c] = out] /\ UNCHANGED passVars
    BY <1>1, <1>2, <1>4 DEF Reads, Goes, ClientTypes
  <2>2. d \in present /\ age[d] >= Expires /\ elapsed' = elapsed
    BY <1>1, <2>1 DEF ClientTypes, HasExpired, passVars
  <2>3. d \in Clients /\ elapsed[d] \in 0..Window /\ age[d] \in 0..Expires
    BY <1>1, <2>2 DEF ClientTypes
  <2>4. at[d] = "dead" \/ age[d] <= elapsed[d]
    BY <1>2, <2>2 DEF BeatsInPass
  <2>5. age[d] <= elapsed[d] => Expires <= Window /\ elapsed[d] >= Expires
    BY <2>2, <2>3, <1>1, ClientRecordAssumption
  <2> QED
    BY <1>2, <2>2, <2>3, <2>4, <2>5 DEF Late, Expires
<1>5. ASSUME NEW e \in Clients, Reads(e), e # c PROVE at'[d] = "dead" \/ Late(d)'
  <2>1. at'[c] = at[c] /\ expired'[c] = expired[c]
    BY <1>1, <1>2, <1>5 DEF Reads, Goes, ClientTypes
  <2> QED
    BY <1>3, <2>1
<1>6. ASSUME NEW e \in Clients, Starts(e) \/ Creates(e) \/ Examines(e) \/ Leaves(e) \/ Dies(e)
      PROVE  at'[d] = "dead" \/ Late(d)'
  <2>1. /\ expired' = expired
        /\ UNCHANGED at \/ \E place \in {"read", "left", "dead"} : at' = [at EXCEPT ![e] = place]
    BY <1>6 DEF Starts, Creates, Examines, GoesOnTo, Leaves, Dies, Goes
  <2>2. at[c] = "update"
    BY <1>1, <2>1 DEF ClientTypes
  <2> QED
    BY <1>3, <2>1, <2>2
<1>7. ASSUME NEW e \in Clients, Updates(e) PROVE at'[d] = "dead" \/ Late(d)'
  <2>1. /\ expired' = expired
        /\ UNCHANGED at \/ \E place \in {"read", "pass"} : at' = [at EXCEPT ![e] = place]
    BY <1>7 DEF Updates, BeginsPass, Goes
  <2>2. at[c] = "update"
    BY <1>1, <2>1 DEF ClientTypes
  <2> QED
    BY <1>3, <2>1, <2>2
<1>8. CASE Override \/ Tick \/ UNCHANGED vars
  <2>1. UNCHANGED <<at, expired>>
    BY <1>8 DEF Override, Tick, vars
  <2> QED
    BY <1>3, <2>1
<1> QED
  BY <1>4, <1>5, <1>6, <1>7, <1>8 DEF Next, ClientStep

\* What disappears from the record has left, or was on a list of the expired.
LEMMA RemovedAreLate ==
    ASSUME SharesInv, ExpiredAreLate, [Next]_vars, NEW c \in present \ present'
    PROVE  at[c] = "dead" \/ at'[c] = "left" \/ override # "none" \/ Late(c)
<1>1. at \in [Clients -> Places] /\ present \subseteq Clients
  BY Whole DEF ClientTypes
<1>2. present' # present
  OBVIOUS
<1>3. CASE \E d \in Clients : Leaves(d)
  BY <1>1, <1>3 DEF Leaves, Goes
<1>4. CASE \E d \in Clients : Updates(d)
  <2>1. PICK d \in Clients : Updates(d)
    BY <1>4
  <2>2. present' = (present \ expired[d]) \cup {d} /\ at[d] = "update"
    BY <1>2, <2>1 DEF Updates
  <2> QED
    BY <2>2 DEF ExpiredAreLate
<1>5. (\E d \in Clients : Leaves(d)) \/ (\E d \in Clients : Updates(d))
  BY <1>2 DEF Next, Starts, ClientStep, Reads, Creates, Examines, GoesOnTo, Dies, Override, Tick,
              vars, recordVars
<1> QED
  BY <1>3, <1>4, <1>5

-----------------------------------------------------------------------------
(* The theorems *)

\* The record and the passes agree with each other as SharesInv says, always.
THEOREM Invariance == Spec => []SharesInv
BY SharesInit, SharesStep, PTL DEF Spec

\* Every variable is what it is declared to be; above all no client has more time left
\* for its ATR than for its pass (clean_lost_attempts_in_bucket).
THEOREM TypeCorrect == Spec => []TypeOK
<1>1. SharesInv => TypeOK
  BY DEF SharesInv
<1> QED
  BY <1>1, Invariance, PTL

\* That ATR a is in the share of client c when the clients S are alive.
InShare(a, c, S) == \E k \in Nat : a = Cardinality({d \in S : d < c}) + k * Cardinality(S)

\* Clients that agree on who is alive leave no ATR to nobody and none to two of them:
\* the shares of num_active_clients and index_of_this_client are a partition, whatever
\* the number of ATRs and even if there are more clients (get_active_clients).
THEOREM SharesArePartition ==
    ASSUME NEW S \in SUBSET Clients, S # {}, NEW a \in Atrs
    PROVE  \E c \in S : InShare(a, c, S) /\ \A d \in S : InShare(a, d, S) => d = c
<1> DEFINE n == Cardinality(S)
           Place(c) == Cardinality({d \in S : d < c})
           place == [c \in S |-> Place(c)]
<1>1. IsFiniteSet(S) /\ n \in Nat \ {0} /\ \A c \in S : Place(c) \in 0..n - 1
  BY IndexFits
<1>2. \A c, d \in S : Place(c) = Place(d) => c = d
  <2>1. ASSUME NEW c \in S, NEW d \in S, Place(c) = Place(d) PROVE c = d
    <3>1. c < d => Place(c) < Place(d)
      BY IndexFits
    <3>2. d < c => Place(d) < Place(c)
      BY IndexFits
    <3>3. Place(c) \in Nat /\ Place(d) \in Nat /\ c \in Nat /\ d \in Nat
      BY <1>1, ClientRecordAssumption
    <3> HIDE DEF Place
    <3> QED
      BY <2>1, <3>1, <3>2, <3>3
  <2> QED
    BY <2>1
<1> HIDE DEF n, Place
<1>3. place \in Injection(S, 0..n - 1)
  <2>1. place \in [S -> 0..n - 1] /\ \A c, d \in S : place[c] = place[d] => c = d
    BY <1>1, <1>2
  <2> QED
    BY <2>1 DEF Injection, IsInjective
<1>4. IsFiniteSet(0..n - 1) /\ Cardinality(0..n - 1) = n
  <2>1. 0 \in Int /\ n - 1 \in Int /\ ~(0 > n - 1) /\ n - 1 - 0 + 1 = n
    BY <1>1
  <2> QED
    BY <2>1, FS_Interval
<1>5. \A i \in 0..n - 1 : \E c \in S : Place(c) = i
  <2>1. place \in Surjection(S, 0..n - 1)
    <3> HIDE DEF place
    <3>1. Cardinality(S) = Cardinality(0..n - 1)
      BY <1>4 DEF n
    <3> QED
      BY <1>3, <1>4, <3>1, FS_Injection
  <2> QED
    BY <2>1 DEF Surjection
<1>6. PICK k \in Nat, i \in 0..n - 1 : a = i + k * n
  <2>1. a \in Nat
    BY ClientRecordAssumption DEF Atrs
  <2>2. a \div n \in Nat /\ a % n \in 0..n - 1 /\ a = (a % n) + (a \div n) * n
    BY <1>1, <2>1
  <2> QED
    BY <2>2
<1>7. PICK c \in S : Place(c) = i
  BY <1>5
<1>8. InShare(a, c, S)
  BY <1>6, <1>7 DEF InShare, Place, n
<1>9. ASSUME NEW d \in S, InShare(a, d, S) PROVE d = c
  <2>1. PICK l \in Nat : a = Place(d) + l * n
    BY <1>9 DEF InShare, Place, n
  <2>2. Place(d) \in 0..n - 1 /\ n \in Nat \ {0}
    BY <1>1
  <2>3. i + k * n = Place(d) + l * n
    BY <1>6, <2>1
  <2>4. i = Place(d)
    BY <2>2, <2>3, StridesDiffer
  <2> QED
    BY <1>2, <1>7, <2>4
<1> QED
  BY <1>8, <1>9

\* Two clients that have found the same clients alive never look at the same ATR,
\* however far each has come (get_active_clients).
THEOREM NobodyLooksTwice == Spec => []SharesAreDisjoint
<1>1. SharesInv => SharesAreDisjoint
  <2> SUFFICES ASSUME SharesInv, NEW c \in Clients, NEW d \in Clients,
                      c # d, at[c] = "pass", at[d] = "pass", active[c] = active[d],
                      next[c] = next[d]
               PROVE  FALSE
    BY DEF SharesAreDisjoint
  <2> DEFINE n == Cardinality(active[c])
  <2>1. active[c] \in SUBSET Clients /\ c \in active[c] /\ d \in active[c]
    BY DEF SharesInv, TypeOK, ShareFits
  <2>2. n \in Nat \ {0} /\ Index(c) \in 0..n - 1 /\ Index(d) \in 0..n - 1
    <3>1. /\ Cardinality(active[c]) \in Nat \ {0}
          /\ Cardinality({e \in active[c] : e < c}) \in 0..Cardinality(active[c]) - 1
          /\ Cardinality({e \in active[c] : e < d}) \in 0..Cardinality(active[c]) - 1
      BY <2>1, IndexFits
    <3> QED
      BY <3>1 DEF Index
  <2>3. PICK k \in Nat, l \in Nat :
            next[c] = Index(c) + k * n /\ next[d] = Index(d) + l * n
    BY DEF SharesInv, ShareFits, Num
  <2> HIDE DEF n
  <2>4. Index(c) = Index(d)
    <3> DEFINE i == Index(c)
               j == Index(d)
    <3>1. i \in 0..n - 1 /\ j \in 0..n - 1 /\ n \in Nat \ {0}
      BY <2>2
    <3>2. i + k * n = j + l * n
      BY <2>3
    <3> HIDE DEF i, j
    <3>3. i = j
      BY <3>1, <3>2, StridesDiffer
    <3> QED
      BY <3>3 DEF i, j
  <2>5. c < d \/ d < c
    BY ClientRecordAssumption
  <2>6. Index(c) < Index(d) \/ Index(d) < Index(c)
    BY <2>1, <2>5, IndexFits DEF Index
  <2> QED
    BY <2>2, <2>4, <2>6
<1> QED
  BY <1>1, Invariance, PTL

\* Whatever the window, a client that lives and stays is not taken from the record
\* before its pass has outlasted its heartbeat, unless an operator overrides the
\* heartbeats (get_active_clients).
THEOREM OnlyTheLateGo == Spec => OnlyTheLateAreRemoved
<1> DEFINE A == \A c \in present \ present' :
                    at[c] = "dead" \/ at'[c] = "left" \/ override # "none" \/ Late(c)
<1>1. Init => IInv
  BY SharesInit DEF Init, IInv, BeatsInPass, ExpiredAreLate
<1>2. IInv /\ [Next]_vars => IInv'
  BY SharesStep, BeatsStep, ExpiredStep DEF IInv
<1>3. IInv /\ [Next]_vars => [A]_vars
  BY RemovedAreLate DEF IInv
<1> QED
  BY <1>1, <1>2, <1>3, PTL DEF Spec, OnlyTheLateAreRemoved
=============================================================================
