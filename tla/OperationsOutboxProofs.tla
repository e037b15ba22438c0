----------------------- MODULE OperationsOutboxProofs -----------------------
(* Proofs about what MCOperations composes, for any collectors, couriers,     *)
(* codes, workers, sessions, revisions and bounds.                            *)
(*  - OperationsOutbox: collectors that overlap neither wait for each other   *)
(*    in a circle nor emit within a cooldown, a code has one pending alert,   *)
(*    every emission has its alert, though couriers acknowledge between a     *)
(*    look and its write, and only what the webhook accepted is dropped;      *)
(*  - ProxyQuota: a notice is sent by one worker at a time, and not twice;    *)
(*  - PublicSessions, Release and Restore: what the table holds, and that     *)
(*    every failure leaves a way back;                                        *)
(*  - CapacitySweep: the sweep over the sorted points is the maximum it       *)
(*    stands for, for any number of jobs.                                     *)
EXTENDS MCOperations, FiniteSetTheorems, WellFoundedInduction, TLAPS

\* The parts of TypeOK that the proofs need, for any bounds.
AnyAlert == [id : Nat, code : Codes, acked : BOOLEAN, at : Nat]
Types ==
    /\ now \in Nat /\ created \in Nat
    /\ nextEmit \in [Codes -> Nat]
    /\ outbox \subseteq AnyAlert
    /\ triggered \in [Collectors -> SUBSET Codes]
    /\ claimed \in [Collectors -> SUBSET Codes]
    /\ locked \in [Collectors -> SUBSET Codes]
    /\ seeking \in [Collectors -> SUBSET Codes] /\ absent \in [Collectors -> SUBSET Codes]
    /\ found \in [Collectors -> SUBSET Nat] /\ refreshed \in [Collectors -> SUBSET Nat]
    /\ inserted \in [Collectors -> SUBSET AnyAlert]
    /\ asOf \in [Collectors -> Nat]
    /\ working \subseteq Collectors

\* What PostgreSQL's row locks guarantee: a row has one holder, who is in a
\* transaction, and only its holder has updated it.
RowsHeldOnce ==
    /\ \A c \in Collectors : claimed[c] \subseteq locked[c]
    /\ \A c, d \in Collectors : c # d => locked[c] \cap locked[d] = {}
    /\ \A c \in Collectors \ working : locked[c] = {} /\ triggered[c] = {}

\* A collector holds rows below the ones it still has to take.
LocksAscend == \A c \in Collectors : \A k \in locked[c], l \in triggered[c] : k < l

\* What a collector claimed was due at its snapshot, and stays so.
ClaimsWereDue == \A c \in Collectors : \A k \in claimed[c] : nextEmit[k] <= asOf[c]

\* A collector looks for and writes one code at a time, one whose row it claimed.
OneAtATime ==
    \A c \in Collectors :
        /\ seeking[c] \cup absent[c] \subseteq claimed[c]
        /\ \A k, l \in seeking[c] \cup absent[c] : k = l
        /\ seeking[c] = {} \/ absent[c] = {}

\* What a collector did not see and what it inserted is no one's pending alert: only
\* the holder of the code's row inserts one.
InsertsAreFirst ==
    \A c \in Collectors :
        /\ \A k \in absent[c] : PendingOf(k) = {}
        /\ \A a \in inserted[c] :
              /\ ~a.acked /\ a.code \in claimed[c] \ (seeking[c] \cup absent[c]) /\ PendingOf(a.code) = {}
              /\ \A b \in inserted[c] : a.code = b.code => a = b

PendingOnce == \A a, b \in Pending : a.code = b.code => a = b

\* A transaction is younger than the retention, so no alert acknowledged in it is purged.
TransactionsAreShort == \A c \in working : asOf[c] <= now /\ now < asOf[c] + Retention

\* A claimed code is still looked for, or has its alert: a new one, or one that was
\* pending when the collector looked.
Carries(c, k) ==
    \/ k \in seeking[c] \cup absent[c]
    \/ \E a \in inserted[c] : a.code = k
    \/ \E a \in outbox : a.code = k /\ (a.acked => a.at >= asOf[c])
ClaimsAreCarried == \A c \in Collectors : \A k \in claimed[c] : Carries(c, k)

\* What was acknowledged was accepted.
AckedWasReceived == \A a \in outbox : a.acked => a.id \in received

Locking == RowsHeldOnce /\ LocksAscend /\ ClaimsWereDue /\ OneAtATime
Writing == InsertsAreFirst /\ PendingOnce /\ TransactionsAreShort /\ ClaimsAreCarried /\ AckedWasReceived
IInv == Types /\ Locking /\ Writing

-----------------------------------------------------------------------------
(* Least and greatest elements of sets of codes. *)

LEMMA LeastExists ==
    ASSUME NEW S \in SUBSET Nat, S # {}
    PROVE  \E x \in S : \A y \in S : x <= y
<1> DEFINE R == {p \in Nat \X Nat : p[1] < p[2]}
<1>1. IsWellFoundedOn(R, Nat)
  BY NatLessThanWellFounded, Zenon DEF OpToRel
<1>2. \E x \in S : \A y \in S : ~(<<y, x>> \in R)
  <2> HIDE DEF R
  <2> QED BY <1>1, WFMin
<1>3. ASSUME NEW x \in Nat, NEW y \in Nat, ~(<<y, x>> \in R) PROVE x <= y
  BY <1>3
<1>4. PICK x \in S : \A y \in S : ~(<<y, x>> \in R)
  <2> HIDE DEF R
  <2> QED BY <1>2
<1>5. \A y \in S : x <= y
  <2> HIDE DEF R
  <2> QED BY <1>3, <1>4
<1>6. QED
  BY <1>5

LEMMA MinIsLeast ==
    ASSUME NEW S \in SUBSET Nat, S # {}
    PROVE  Min(S) \in S /\ \A y \in S : Min(S) <= y
BY LeastExists DEF Min

LEMMA GreatestExists ==
    ASSUME NEW n \in Nat, NEW S \in SUBSET (0..n), S # {}
    PROVE  \E x \in S : \A y \in S : y <= x
<1> DEFINE T == {n - x : x \in S}
<1>1. T \in SUBSET Nat /\ T # {}
  <2>1. \A x \in S : n - x \in Nat
    OBVIOUS
  <2>2. QED
    BY <2>1, Zenon
<1>2. PICK t \in T : \A u \in T : t <= u
  BY <1>1, LeastExists
<1>3. PICK x \in S : t = n - x
  BY <1>2
<1>4. \A y \in S : n - x <= n - y
  BY <1>2, <1>3
<1>5. QED
  BY <1>4

-----------------------------------------------------------------------------
(* The invariant.  Codes are numbered in the code's sorted order.             *)

CodesNumbered == IsFiniteSet(Codes) /\ Codes \subseteq 1..Cardinality(Codes) /\ Cooldown \in Nat /\ Retention \in Nat \ {0}

LEMMA InitInv == Init => IInv
BY DEF Init, IInv, Types, Locking, Writing, RowsHeldOnce, LocksAscend, ClaimsWereDue, OneAtATime, InsertsAreFirst,
   PendingOnce, TransactionsAreShort, ClaimsAreCarried, AckedWasReceived, Pending

\* Acknowledging an alert changes no id and no code, and leaves no new pending one.
LEMMA AckedFacts ==
    ASSUME Types, NEW n
    PROVE  /\ Acked(n) \subseteq AnyAlert
           /\ \A b \in Acked(n) : \E a \in outbox :
                 /\ b.id = a.id /\ b.code = a.code
                 /\ ~b.acked => b = a
                 /\ b.acked => a.acked \/ a.id = n
           /\ \A a \in outbox : \E b \in Acked(n) :
                 b.id = a.id /\ b.code = a.code /\ (b.acked => (a.acked /\ b.at = a.at) \/ b.at = now)
<1> DEFINE acked(a) == IF a.id = n /\ ~a.acked THEN [a EXCEPT !.acked = TRUE, !.at = now] ELSE a
<1>1. ASSUME NEW a \in AnyAlert
      PROVE  /\ acked(a) \in AnyAlert
             /\ acked(a).id = a.id /\ acked(a).code = a.code
             /\ ~acked(a).acked => acked(a) = a
             /\ acked(a).acked => a.acked \/ a.id = n
             /\ acked(a).acked => (a.acked /\ acked(a).at = a.at) \/ acked(a).at = now
  BY <1>1 DEF Types, AnyAlert
<1>2. Acked(n) = {acked(a) : a \in outbox} /\ outbox \subseteq AnyAlert
  BY DEF Acked, Types
<1>3. QED
  <2> HIDE DEF acked
  <2> QED BY <1>1, <1>2

\* The steps that neither show nor lose an alert.
LEMMA LockingSteps ==
    ASSUME CodesNumbered, IInv, NEW c \in Collectors,
           \/ \E codes \in SUBSET Codes : Begin(c, codes)
           \/ \E k \in Codes : LockCode(c, k)
           \/ Rollback(c)
    PROVE  IInv'
<1> USE DEF IInv, Locking, Writing
<1>1. UNCHANGED <<now, nextEmit, outbox, created, received>>
  BY DEF Begin, LockCode, Rollback, Done
<1>2. PendingOnce' /\ AckedWasReceived' /\ UNCHANGED Pending /\ \A k : PendingOf(k)' = PendingOf(k)
  BY <1>1 DEF PendingOnce, AckedWasReceived, Pending, PendingOf
<1>3. ASSUME NEW codes \in SUBSET Codes, Begin(c, codes) PROVE IInv'
  <2>1. Types'
    BY <1>1, <1>3 DEF Begin, writes, Types
  <2>2. claimed[c] = {} /\ UNCHANGED <<claimed, locked, seeking, found, absent, refreshed, inserted>>
    BY <1>3 DEF Begin, writes, RowsHeldOnce
  <2>3. Locking'
    BY <1>3, <2>2 DEF Begin, Types, RowsHeldOnce, LocksAscend, ClaimsWereDue, OneAtATime
  <2>4. TransactionsAreShort'
    BY <1>1, <1>3 DEF Begin, Types, TransactionsAreShort, CodesNumbered
  <2>5. InsertsAreFirst'
    BY <1>2, <2>2 DEF InsertsAreFirst
  <2>6. ClaimsAreCarried'
    <3>1. ASSUME NEW d \in Collectors, NEW k \in claimed'[d] PROVE Carries(d, k)'
      <4>1. d # c /\ k \in claimed[d] /\ asOf'[d] = asOf[d]
        BY <1>3, <2>2, <3>1 DEF Begin, Types
      <4>2. Carries(d, k)
        BY <4>1 DEF ClaimsAreCarried
      <4> QED BY <1>1, <2>2, <4>1, <4>2 DEF Carries
    <3> QED BY <3>1 DEF ClaimsAreCarried
  <2> QED BY <1>2, <2>1, <2>3, <2>4, <2>5, <2>6
<1>4. ASSUME NEW k \in Codes, LockCode(c, k) PROVE IInv'
  <2>1. Types'
    BY <1>1, <1>4 DEF LockCode, Types
  <2>2. \A l \in triggered[c] \ {k} : k < l
    <3>1. triggered[c] \in SUBSET Nat /\ triggered[c] # {} /\ k = Min(triggered[c])
      BY <1>4 DEF LockCode, NextOf, Types, CodesNumbered
    <3> QED BY <3>1, MinIsLeast
  <2>3. k \notin locked[c] /\ c \in working /\ seeking[c] = {} /\ absent[c] = {} /\ k \in triggered[c]
    BY <1>4 DEF LockCode, NextOf, Free, Midway, RowsHeldOnce
  <2>4. RowsHeldOnce' /\ LocksAscend'
    <3>1. RowsHeldOnce'
      BY <1>4, <2>3 DEF LockCode, Free, Types, RowsHeldOnce
    <3>2. LocksAscend'
      BY <1>4, <2>2, <2>3 DEF LockCode, Types, LocksAscend, CodesNumbered
    <3> QED BY <3>1, <3>2
  <2>5. ClaimsWereDue' /\ TransactionsAreShort'
    <3>1. ClaimsWereDue'
      BY <1>1, <1>4 DEF LockCode, Due, Types, ClaimsWereDue
    <3>2. TransactionsAreShort'
      BY <1>4 DEF LockCode, TransactionsAreShort
    <3> QED BY <3>1, <3>2
  <2>6. /\ \A d \in Collectors : d # c => claimed'[d] = claimed[d] /\ seeking'[d] = seeking[d]
        /\ UNCHANGED <<absent, inserted, asOf>>
        /\ \/ claimed'[c] = claimed[c] \cup {k} /\ seeking'[c] = {k}
           \/ claimed'[c] = claimed[c] /\ seeking'[c] = seeking[c]
    BY <1>4 DEF LockCode, Types
  <2>7. OneAtATime'
    BY <2>3, <2>6 DEF OneAtATime
  <2>8. k \notin claimed[c]
    BY <2>3 DEF RowsHeldOnce
  <2>9. InsertsAreFirst'
    BY <1>2, <2>3, <2>6, <2>8 DEF InsertsAreFirst
  <2>10. ClaimsAreCarried'
    <3>1. ASSUME NEW d \in Collectors, NEW l \in claimed'[d] PROVE Carries(d, l)'
      <4>1. CASE l \in claimed[d]
        BY <1>1, <2>3, <2>6, <4>1 DEF ClaimsAreCarried, Carries
      <4>2. CASE l \notin claimed[d]
        BY <2>6, <3>1, <4>2 DEF Carries
      <4> QED BY <4>1, <4>2
    <3> QED BY <3>1 DEF ClaimsAreCarried
  <2> QED BY <1>2, <2>1, <2>4, <2>5, <2>7, <2>9, <2>10
<1>5. CASE Rollback(c)
  <2>1. Types'
    BY <1>1, <1>5 DEF Rollback, Done, Types
  <2>2. /\ claimed'[c] = {} /\ seeking'[c] = {} /\ absent'[c] = {} /\ inserted'[c] = {}
        /\ \A d \in Collectors : d # c =>
              /\ claimed'[d] = claimed[d] /\ seeking'[d] = seeking[d] /\ absent'[d] = absent[d]
              /\ inserted'[d] = inserted[d] /\ asOf'[d] = asOf[d]
    BY <1>5 DEF Rollback, Done, Types
  <2>3. RowsHeldOnce' /\ LocksAscend' /\ ClaimsWereDue' /\ TransactionsAreShort'
    <3>1. RowsHeldOnce' /\ LocksAscend'
      BY <1>5 DEF Rollback, Done, Types, RowsHeldOnce, LocksAscend
    <3>2. ClaimsWereDue'
      BY <1>1, <2>2 DEF ClaimsWereDue
    <3>3. TransactionsAreShort'
      BY <1>1, <1>5 DEF Rollback, Done, Types, TransactionsAreShort
    <3> QED BY <3>1, <3>2, <3>3
  <2>4. OneAtATime' /\ InsertsAreFirst'
    BY <1>2, <2>2 DEF OneAtATime, InsertsAreFirst
  <2>5. ClaimsAreCarried'
    BY <1>1, <2>2 DEF ClaimsAreCarried, Carries
  <2> QED BY <1>2, <2>1, <2>3, <2>4, <2>5
<1> QED BY <1>3, <1>4, <1>5

\* The look, and the write it decided.
LEMMA WritingSteps ==
    ASSUME CodesNumbered, IInv, NEW c \in Collectors,
           \/ \E k \in Codes : Look(c, k) \/ Insert(c, k)
           \/ Refresh(c)
    PROVE  IInv'
<1> USE DEF IInv, Locking, Writing
<1>1. UNCHANGED <<now, nextEmit, outbox, triggered, claimed, locked, asOf, working, received>>
  BY DEF Look, Insert, Refresh
<1>2. PendingOnce' /\ AckedWasReceived' /\ UNCHANGED Pending /\ \A k : PendingOf(k)' = PendingOf(k)
  BY <1>1 DEF PendingOnce, AckedWasReceived, Pending, PendingOf
<1>3. RowsHeldOnce' /\ LocksAscend' /\ ClaimsWereDue' /\ TransactionsAreShort'
  BY <1>1 DEF RowsHeldOnce, LocksAscend, ClaimsWereDue, TransactionsAreShort
<1>4. ASSUME NEW k \in Codes, Look(c, k) PROVE IInv'
  <2>1. PendingOf(k) \subseteq outbox /\ \A a \in PendingOf(k) : a.code = k /\ ~a.acked
    BY DEF PendingOf, Pending
  <2>2. {a.id : a \in PendingOf(k)} \subseteq Nat
    BY <2>1 DEF Types, AnyAlert
  <2>3. Types'
    BY <1>1, <1>4, <2>2 DEF Look, Types
  <2>4. /\ seeking[c] = {k} /\ absent[c] = {} /\ seeking'[c] = {} /\ UNCHANGED inserted
        /\ \A d \in Collectors : d # c => seeking'[d] = seeking[d] /\ absent'[d] = absent[d]
        /\ \/ PendingOf(k) # {} /\ absent'[c] = {}
           \/ PendingOf(k) = {} /\ absent'[c] = {k}
    BY <1>4 DEF Look, Types, OneAtATime
  <2>5. OneAtATime'
    BY <1>1, <2>4 DEF OneAtATime
  <2>6. InsertsAreFirst'
    BY <1>1, <1>2, <2>4 DEF InsertsAreFirst
  <2>7. ClaimsAreCarried'
    <3>1. ASSUME NEW d \in Collectors, NEW l \in claimed[d] PROVE Carries(d, l)'
      <4>1. Carries(d, l)
        BY <3>1 DEF ClaimsAreCarried
      <4>2. CASE d # c \/ l # k
        BY <1>1, <2>4, <4>1, <4>2 DEF Carries
      <4>3. CASE d = c /\ l = k
        BY <1>1, <2>1, <2>4, <4>3 DEF Carries
      <4> QED BY <4>2, <4>3
    <3> QED BY <1>1, <3>1 DEF ClaimsAreCarried
  <2> QED BY <1>2, <1>3, <2>3, <2>5, <2>6, <2>7
<1>5. ASSUME NEW k \in Codes, Insert(c, k) PROVE IInv'
  <2> DEFINE new == [id |-> created + 1, code |-> k, acked |-> FALSE, at |-> 0]
  <2>1. new \in AnyAlert /\ new.code = k /\ ~new.acked
    BY DEF Types, AnyAlert
  <2>2. /\ absent[c] = {k} /\ seeking[c] = {} /\ absent'[c] = {} /\ inserted'[c] = inserted[c] \cup {new}
        /\ k \in claimed[c] /\ UNCHANGED <<seeking, found, refreshed>> /\ created' = created + 1
        /\ \A d \in Collectors : d # c => absent'[d] = absent[d] /\ inserted'[d] = inserted[d]
    BY <1>5 DEF Insert, Types, OneAtATime
  <2>3. absent' = [absent EXCEPT ![c] = {}] /\ inserted' = [inserted EXCEPT ![c] = @ \cup {new}]
    BY <1>5 DEF Insert
  <2> HIDE DEF new
  <2>4. Types'
    BY <1>1, <2>1, <2>2, <2>3 DEF Types
  <2>5. OneAtATime'
    BY <1>1, <2>2 DEF OneAtATime
  <2>6. InsertsAreFirst'
    BY <1>1, <1>2, <2>1, <2>2 DEF InsertsAreFirst
  <2>7. ClaimsAreCarried'
    <3>1. ASSUME NEW d \in Collectors, NEW l \in claimed[d] PROVE Carries(d, l)'
      <4>1. Carries(d, l)
        BY <3>1 DEF ClaimsAreCarried
      <4> QED BY <1>1, <2>1, <2>2, <4>1 DEF Carries
    <3> QED BY <1>1, <3>1 DEF ClaimsAreCarried
  <2> QED BY <1>2, <1>3, <2>4, <2>5, <2>6, <2>7
<1>6. CASE Refresh(c)
  <2>1. UNCHANGED <<seeking, absent, inserted, created>>
    BY <1>6 DEF Refresh
  <2>2. Types'
    BY <1>1, <1>6, <2>1 DEF Refresh, Types
  <2> QED BY <1>1, <1>2, <1>3, <2>1, <2>2 DEF OneAtATime, InsertsAreFirst, ClaimsAreCarried, Carries
<1> QED BY <1>4, <1>5, <1>6

\* What a commit shows is of codes nobody else claimed; what it purges is older
\* than every open transaction.
LEMMA CommitStep ==
    ASSUME CodesNumbered, IInv, NEW c \in Collectors, Commit(c)
    PROVE  IInv'
<1> USE DEF IInv, Locking, Writing
<1> DEFINE kept == {a \in outbox : ~Old(a, asOf[c])}
<1>1. /\ outbox' = kept \cup inserted[c] /\ UNCHANGED <<now, created, received>>
      /\ nextEmit' = [k \in Codes |-> IF k \in claimed[c] THEN asOf[c] + Cooldown ELSE nextEmit[k]]
      /\ Done(c) /\ c \in working
  BY DEF Commit, Done
<1>2. /\ claimed'[c] = {} /\ seeking'[c] = {} /\ absent'[c] = {} /\ inserted'[c] = {}
      /\ \A d \in Collectors : d # c =>
            /\ claimed'[d] = claimed[d] /\ seeking'[d] = seeking[d] /\ absent'[d] = absent[d]
            /\ inserted'[d] = inserted[d] /\ asOf'[d] = asOf[d]
  BY <1>1 DEF Done, Types
<1>3. \A d \in Collectors : d # c => claimed[d] \cap claimed[c] = {}
  BY DEF RowsHeldOnce
<1>4. Types'
  <2>1. outbox' \subseteq AnyAlert /\ nextEmit' \in [Codes -> Nat]
    BY <1>1 DEF Types, CodesNumbered
  <2> QED BY <1>1, <2>1 DEF Done, Types
<1>5. RowsHeldOnce' /\ LocksAscend'
  BY <1>1 DEF Done, Types, RowsHeldOnce, LocksAscend
<1>6. ClaimsWereDue'
  <2>1. ASSUME NEW d \in Collectors, NEW k \in claimed'[d] PROVE nextEmit'[k] <= asOf'[d]
    <3>1. d # c /\ k \in claimed[d] /\ k \notin claimed[c] /\ k \in Codes
      BY <1>2, <1>3, <2>1 DEF Types
    <3> QED BY <1>1, <1>2, <3>1 DEF ClaimsWereDue
  <2> QED BY <2>1 DEF ClaimsWereDue
<1>7. OneAtATime'
  BY <1>2 DEF OneAtATime
<1>8. TransactionsAreShort'
  BY <1>1, <1>2 DEF Done, Types, TransactionsAreShort
<1>9. \A k : k \notin claimed[c] => PendingOf(k)' \subseteq PendingOf(k)
  BY <1>1 DEF PendingOf, Pending, InsertsAreFirst
<1>10. InsertsAreFirst'
  BY <1>2, <1>3, <1>9 DEF InsertsAreFirst, OneAtATime
<1>11. PendingOnce'
  <2>1. SUFFICES ASSUME NEW a \in outbox', NEW b \in outbox', ~a.acked, ~b.acked, a.code = b.code PROVE a = b
    BY DEF PendingOnce, Pending
  <2>2. \A x \in kept, y \in inserted[c] : ~x.acked => x.code # y.code
    BY DEF InsertsAreFirst, PendingOf, Pending
  <2>3. CASE a \in kept /\ b \in kept
    BY <2>1, <2>3 DEF PendingOnce, Pending
  <2>4. CASE a \in inserted[c] /\ b \in inserted[c]
    BY <2>1, <2>4 DEF InsertsAreFirst
  <2> QED BY <1>1, <2>1, <2>2, <2>3, <2>4
<1>12. AckedWasReceived'
  BY <1>1 DEF AckedWasReceived, InsertsAreFirst
<1>13. ClaimsAreCarried'
  <2>1. ASSUME NEW d \in Collectors, NEW k \in claimed'[d] PROVE Carries(d, k)'
    <3>1. d # c /\ k \in claimed[d] /\ d \in working /\ Carries(d, k)
      BY <1>2, <2>1 DEF RowsHeldOnce, ClaimsAreCarried
    <3>2. CASE k \in seeking[d] \cup absent[d] \/ \E a \in inserted[d] : a.code = k
      BY <1>2, <3>1, <3>2 DEF Carries
    <3>3. ASSUME NEW a \in outbox, a.code = k, a.acked => a.at >= asOf[d] PROVE Carries(d, k)'
      <4>1. ~Old(a, asOf[c])
        <5>1. asOf[c] <= now /\ now < asOf[d] + Retention
          BY <1>1, <3>1 DEF TransactionsAreShort
        <5>2. asOf[c] \in Nat /\ asOf[d] \in Nat /\ now \in Nat /\ Retention \in Nat /\ a.at \in Nat
          BY DEF Types, AnyAlert, CodesNumbered
        <5> QED BY <3>3, <5>1, <5>2 DEF Old
      <4>2. a \in outbox' /\ asOf'[d] = asOf[d]
        BY <1>1, <1>2, <3>1, <4>1
      <4> QED BY <3>3, <4>2 DEF Carries
    <3> QED BY <3>1, <3>2, <3>3 DEF Carries
  <2> QED BY <2>1 DEF ClaimsAreCarried
<1> QED BY <1>4, <1>5, <1>6, <1>7, <1>8, <1>10, <1>11, <1>12, <1>13

\* An acknowledgement leaves fewer alerts pending, and dates what it takes.
LEMMA DeliverStep ==
    ASSUME CodesNumbered, IInv, NEW d \in Couriers, NEW n \in Ids, Deliver(d, n)
    PROVE  IInv'
<1> USE DEF IInv, Locking, Writing
<1>1. /\ outbox' = outbox \/ (outbox' = Acked(n) /\ n \in received')
      /\ received \subseteq received'
      /\ UNCHANGED <<now, nextEmit, created, triggered, claimed, locked, seeking, found, absent, refreshed, inserted,
                     asOf, working>>
  BY DEF Deliver, collecting, writes
<1>2. /\ outbox' \subseteq AnyAlert
      /\ \A b \in outbox' : \E a \in outbox :
            b.id = a.id /\ (~b.acked => b = a) /\ (b.acked => a.acked \/ a.id \in received')
      /\ \A a \in outbox : \E b \in outbox' :
            b.code = a.code /\ (b.acked => (a.acked /\ b.at = a.at) \/ b.at = now)
  <2>1. CASE outbox' = outbox
    BY <2>1 DEF Types
  <2>2. CASE outbox' = Acked(n) /\ n \in received'
    BY <2>2, AckedFacts
  <2> QED BY <1>1, <2>1, <2>2
<1>3. Types'
  BY <1>1, <1>2 DEF Types
<1>4. Locking' /\ TransactionsAreShort'
  BY <1>1 DEF RowsHeldOnce, LocksAscend, ClaimsWereDue, OneAtATime, TransactionsAreShort
<1>5. Pending' \subseteq Pending /\ \A k : PendingOf(k)' \subseteq PendingOf(k)
  BY <1>2 DEF Pending, PendingOf
<1>6. InsertsAreFirst' /\ PendingOnce'
  BY <1>1, <1>5 DEF InsertsAreFirst, PendingOnce
<1>7. AckedWasReceived'
  BY <1>1, <1>2 DEF AckedWasReceived
<1>8. ClaimsAreCarried'
  <2>1. ASSUME NEW c \in Collectors, NEW k \in claimed[c] PROVE Carries(c, k)'
    <3>1. Carries(c, k) /\ asOf[c] <= now
      BY <2>1 DEF ClaimsAreCarried, RowsHeldOnce, TransactionsAreShort
    <3>2. ASSUME NEW a \in outbox, a.code = k, a.acked => a.at >= asOf[c] PROVE Carries(c, k)'
      <4>1. PICK b \in outbox' : b.code = a.code /\ (b.acked => (a.acked /\ b.at = a.at) \/ b.at = now)
        BY <1>2
      <4>2. now \in Nat /\ asOf[c] \in Nat
        BY DEF Types
      <4>3. b.acked => b.at >= asOf'[c]
        BY <1>1, <3>1, <3>2, <4>1, <4>2
      <4> QED BY <3>2, <4>1, <4>3 DEF Carries
    <3> QED BY <1>1, <3>1, <3>2 DEF Carries
  <2> QED BY <1>1, <2>1 DEF ClaimsAreCarried
<1> QED BY <1>3, <1>4, <1>6, <1>7, <1>8

LEMMA NextStep ==
    ASSUME CodesNumbered, IInv, [Next]_vars
    PROVE  IInv'
<1>1. CASE Pass
  <2>1. UNCHANGED <<nextEmit, outbox, created, triggered, claimed, locked, seeking, found, absent, refreshed, inserted,
                   asOf, working, received>> /\ now' = now + 1 /\ now \in Nat
        /\ \A c \in working : now + 1 < asOf[c] + Retention
    BY <1>1 DEF Pass, collecting, writes, IInv, Types
  <2>2. TransactionsAreShort'
    BY <2>1 DEF IInv, Writing, Types, TransactionsAreShort
  <2>3. Types' /\ Locking'
    BY <2>1 DEF IInv, Types, Locking, RowsHeldOnce, LocksAscend, ClaimsWereDue, OneAtATime
  <2> QED BY <2>1, <2>2, <2>3 DEF IInv, Writing, InsertsAreFirst, PendingOnce, ClaimsAreCarried,
             Carries, AckedWasReceived, PendingOf, Pending
<1>2. ASSUME UNCHANGED <<now, nextEmit, outbox, created, collecting, received>> PROVE IInv'
  <2>1. UNCHANGED <<now, nextEmit, outbox, created, triggered, claimed, locked, seeking, found, absent, refreshed,
                   inserted, asOf, working, received>>
    BY <1>2 DEF collecting, writes
  <2> QED BY <2>1 DEF IInv, Types, Locking, Writing, RowsHeldOnce, LocksAscend, ClaimsWereDue, OneAtATime,
      InsertsAreFirst,
             PendingOnce, TransactionsAreShort, ClaimsAreCarried, Carries, AckedWasReceived, PendingOf, Pending
<1>3. ASSUME NEW d \in Couriers, List(d) PROVE IInv'
  BY <1>2, <1>3 DEF List
<1>4. CASE UNCHANGED vars
  BY <1>2, <1>4 DEF vars
<1>5. ASSUME NEW d \in Couriers, NEW n \in Ids, Deliver(d, n) PROVE IInv'
  BY <1>5, DeliverStep
<1>6. ASSUME NEW c \in Collectors, Collect(c) PROVE IInv'
  BY <1>6, LockingSteps, WritingSteps, CommitStep DEF Collect
<1> QED BY <1>1, <1>3, <1>4, <1>5, <1>6 DEF Next

\* Rows are locked once and in order, and what is inserted is of a code whose row is
\* held and of which nothing is pending.
THEOREM Invariance == CodesNumbered => (Spec => []IInv)
<1> SUFFICES ASSUME CodesNumbered PROVE Spec => []IInv
  OBVIOUS
<1>1. IInv /\ [Next]_vars => IInv'
  BY NextStep
<1>2. QED
  BY <1>1, InitInv, PTL DEF Spec

\* However collectors and acknowledgements interleave, also between a look and its
\* write, a code has one pending alert, inserts not yet committed included: the
\* unique index never fails a collection.
THEOREM AlertsAreNotRepeated ==
    ASSUME CodesNumbered
    PROVE  Spec => []OnePendingPerCode
<1>1. ASSUME IInv PROVE OnePendingPerCode
  <2> DEFINE all == Pending \cup UNION {inserted[c] : c \in Collectors}
  <2>1. SUFFICES ASSUME NEW a \in all, NEW b \in all, a.code = b.code PROVE a = b
    BY DEF OnePendingPerCode
  <2>2. \A c \in Collectors : \A x \in inserted[c] : x.code \in claimed[c] /\ \A y \in Pending : y.code # x.code
    BY <1>1 DEF IInv, Writing, InsertsAreFirst, PendingOf
  <2>3. CASE a \in Pending /\ b \in Pending
    BY <1>1, <2>1, <2>3 DEF IInv, Writing, PendingOnce
  <2>4. ASSUME NEW c \in Collectors, NEW d \in Collectors, a \in inserted[c], b \in inserted[d] PROVE a = b
    <3>1. c = d
      BY <1>1, <2>1, <2>2, <2>4 DEF IInv, Locking, RowsHeldOnce
    <3> QED BY <1>1, <2>1, <2>4, <3>1 DEF IInv, Writing, InsertsAreFirst
  <2> QED BY <2>1, <2>2, <2>3, <2>4
<1>2. QED
  BY <1>1, Invariance, PTL

\* "Fixed sorted lock order avoids deadlock between collectors": of those that
\* wait, the one that holds the greatest row waits for a row nobody holds.
THEOREM CollectorsNeverDeadlock ==
    ASSUME CodesNumbered
    PROVE  Spec => []NoDeadlock
<1>1. ASSUME IInv, NEW c \in working, triggered[c] # {}, \A d \in working : triggered[d] # {}
      PROVE  \E d \in working : \E k \in Codes : NextOf(triggered[d], k) /\ Free(k)
  <2> DEFINE taken == UNION {locked[d] : d \in Collectors}
  <2>1. working \subseteq Collectors /\ \A d \in Collectors : triggered[d] \in SUBSET Codes
    BY <1>1 DEF IInv, Types
  <2>2. ASSUME NEW d \in working, \A k \in triggered[d] : Min(triggered[d]) = k => k \notin taken
        PROVE  \E k \in Codes : NextOf(triggered[d], k) /\ Free(k)
    <3>1. Min(triggered[d]) \in triggered[d] /\ triggered[d] \subseteq Codes
      BY <1>1, <2>1, MinIsLeast DEF CodesNumbered
    <3>2. QED
      BY <2>2, <3>1 DEF NextOf, Free
  <2>3. CASE taken = {}
    BY <2>2, <2>3
  <2>4. CASE taken # {}
    <3>1. PICK m \in taken : \A k \in taken : k <= m
      <4>1. taken \subseteq Codes
        BY <1>1 DEF IInv, Types
      <4>2. QED
        <5>1. Cardinality(Codes) \in Nat /\ taken \in SUBSET (0..Cardinality(Codes))
          BY <4>1, FS_CardinalityType DEF CodesNumbered
        <5>2. QED
          <6> HIDE DEF taken
          <6> QED BY <2>4, <5>1, GreatestExists
    <3>2. PICK d \in Collectors : m \in locked[d]
      BY <3>1
    <3>3. d \in working
      BY <1>1, <3>2 DEF IInv, Locking, RowsHeldOnce
    <3>4. \A k \in triggered[d] : k \notin taken
      <4>1. \A k \in triggered[d] : m < k /\ k \in Nat
        BY <1>1, <2>1, <3>2 DEF IInv, Locking, LocksAscend, CodesNumbered
      <4>2. m \in Nat
        BY <1>1, <3>2 DEF IInv, Types, CodesNumbered
      <4>3. QED
        <5> HIDE DEF taken
        <5> QED BY <3>1, <4>1, <4>2
    <3>5. QED
      BY <2>2, <3>3, <3>4
  <2>5. QED
    BY <2>3, <2>4
<1>2. IInv => NoDeadlock
  BY <1>1 DEF NoDeadlock
<1>3. QED
  BY <1>2, Invariance, PTL

\* Two emissions of a code are a cooldown apart, though the second collector's
\* snapshot may be older than the first one's emission.
THEOREM EmissionsAreSpaced ==
    ASSUME CodesNumbered
    PROVE  Spec => CooldownHolds
<1> DEFINE Spaced == \A k \in Codes : nextEmit'[k] # nextEmit[k] /\ nextEmit[k] # 0
                        => nextEmit'[k] >= nextEmit[k] + Cooldown
<1>1. ASSUME IInv, [Next]_vars PROVE Spaced \/ UNCHANGED vars
  <2>1. ASSUME NEW c \in Collectors, Commit(c) PROVE Spaced
    <3>1. nextEmit' = [k \in Codes |-> IF k \in claimed[c] THEN asOf[c] + Cooldown ELSE nextEmit[k]]
      BY <2>1 DEF Commit
    <3>2. \A k \in claimed[c] : nextEmit[k] <= asOf[c]
      BY <1>1 DEF IInv, Locking, ClaimsWereDue
    <3>3. nextEmit \in [Codes -> Nat] /\ asOf[c] \in Nat /\ Cooldown \in Nat
      BY <1>1 DEF IInv, Types, CodesNumbered
    <3>4. QED
      BY <3>1, <3>2, <3>3
  <2>2. CASE UNCHANGED nextEmit
    BY <2>2
  <2>3. QED
    BY <1>1, <2>1, <2>2 DEF Next, Collect, Pass, Begin, LockCode, Look, Refresh, Insert, Rollback, List, Deliver
<1>2. QED
  <2>1. IInv /\ [Next]_vars => [Spaced]_vars
    BY <1>1
  <2> HIDE DEF Spaced
  <2>2. Spec => [][Spaced]_vars
    BY <2>1, Invariance, PTL DEF Spec
  <2>3. QED
    BY <2>2 DEF CooldownHolds, Spaced

\* An emission has its alert, one that waits for its delivery or one acknowledged since
\* the emission's snapshot.
THEOREM EmissionsHaveAlerts ==
    ASSUME CodesNumbered
    PROVE  Spec => EmissionsAreCarried
<1> DEFINE Carried == \A k \in Codes : nextEmit'[k] # nextEmit[k] =>
                        \E a \in outbox' : a.code = k /\ (~a.acked \/ a.at + Cooldown >= nextEmit'[k])
<1>1. ASSUME IInv, [Next]_vars PROVE Carried \/ UNCHANGED vars
  <2>1. ASSUME NEW c \in Collectors, Commit(c) PROVE Carried
    <3>1. /\ nextEmit' = [k \in Codes |-> IF k \in claimed[c] THEN asOf[c] + Cooldown ELSE nextEmit[k]]
          /\ outbox' = {a \in outbox : ~Old(a, asOf[c])} \cup inserted[c] /\ seeking[c] \cup absent[c] = {}
      BY <2>1 DEF Commit, Midway
    <3>2. asOf[c] \in Nat /\ Cooldown \in Nat /\ Retention \in Nat \ {0} /\ \A a \in outbox : a.at \in Nat
      BY <1>1 DEF IInv, Types, AnyAlert, CodesNumbered
    <3>3. ASSUME NEW k \in claimed[c]
          PROVE  \E a \in outbox' : a.code = k /\ (~a.acked \/ a.at + Cooldown >= asOf[c] + Cooldown)
      <4>1. Carries(c, k)
        BY <1>1, <3>3 DEF IInv, Writing, ClaimsAreCarried
      <4>2. CASE \E a \in inserted[c] : a.code = k
        BY <1>1, <3>1, <4>2 DEF IInv, Writing, InsertsAreFirst
      <4>3. ASSUME NEW a \in outbox, a.code = k, a.acked => a.at >= asOf[c]
            PROVE  a \in outbox' /\ (~a.acked \/ a.at + Cooldown >= asOf[c] + Cooldown)
        BY <3>1, <3>2, <4>3 DEF Old
      <4> QED BY <3>1, <4>1, <4>2, <4>3 DEF Carries
    <3> QED BY <3>1, <3>3
  <2>2. CASE UNCHANGED nextEmit
    BY <2>2
  <2>3. QED
    BY <1>1, <2>1, <2>2 DEF Next, Collect, Pass, Begin, LockCode, Look, Refresh, Insert, Rollback, List, Deliver
<1>2. QED
  <2>1. IInv /\ [Next]_vars => [Carried]_vars
    BY <1>1
  <2> HIDE DEF Carried
  <2>2. Spec => [][Carried]_vars
    BY <2>1, Invariance, PTL DEF Spec
  <2>3. QED
    BY <2>2 DEF EmissionsAreCarried, Carried

\* An alert leaves the outbox only after the webhook accepted it.
THEOREM AlertsAreDelivered ==
    ASSUME CodesNumbered
    PROVE  Spec => NothingUndeliveredIsDropped
<1> DEFINE Kept == \A a \in outbox : (\A b \in outbox' : b.id # a.id) => a.id \in received
<1>1. ASSUME IInv, [Next]_vars PROVE Kept
  <2>1. ASSUME NEW c \in Collectors, Commit(c) PROVE Kept
    <3>1. \A a \in outbox : a \in outbox' \/ a.acked
      BY <2>1 DEF Commit, Old
    <3>2. QED
      BY <1>1, <3>1 DEF IInv, Writing, AckedWasReceived
  <2>2. ASSUME NEW d \in Couriers, NEW n \in Ids, Deliver(d, n) PROVE Kept
    <3>1. outbox' \in {outbox, Acked(n)}
      BY <2>2 DEF Deliver
    <3>2. QED
      BY <1>1, <3>1, AckedFacts DEF IInv
  <2>3. CASE UNCHANGED outbox
    BY <2>3
  <2>4. QED
    BY <1>1, <2>1, <2>2, <2>3 DEF Next, vars, Collect, Pass, Begin, LockCode, Look, Refresh, Insert, Rollback, List
<1>2. QED
  <2>1. IInv /\ [Next]_vars => [Kept]_vars
    BY <1>1
  <2> HIDE DEF Kept
  <2>2. Spec => [][Kept]_vars
    BY <2>1, Invariance, PTL DEF Spec
  <2>3. QED
    BY <2>2 DEF NothingUndeliveredIsDropped, Kept

-----------------------------------------------------------------------------
(* The bounds, and all of it together.                                        *)

Bounds == MaxTime \in Nat /\ MaxAlerts \in Nat

LEMMA TypeStep ==
    ASSUME CodesNumbered, Bounds, IInv, TypeOK, [Next]_vars
    PROVE  TypeOK'
<1> USE DEF IInv, Bounds
<1>1. IInv'
  BY NextStep
<1>2. /\ \A c \in Collectors : claimed'[c] \subseteq locked'[c] /\ locked'[c] \subseteq Codes
      /\ \A c \in Collectors \ working' : locked'[c] = {} /\ triggered'[c] = {}
      /\ \A c \in Collectors : seeking'[c] \cup absent'[c] \subseteq claimed'[c]
      /\ working' \subseteq Collectors
  BY <1>1 DEF Types, Locking, RowsHeldOnce, OneAtATime
<1>3. SUFFICES /\ now' \in 0..MaxTime /\ created' \in 0..MaxAlerts
               /\ nextEmit' \in [Codes -> 0..(MaxTime + Cooldown)]
               /\ outbox' \subseteq Alert
               /\ \A c \in Collectors : found'[c] \cup refreshed'[c] \subseteq Ids /\ inserted'[c] \subseteq Alert
               /\ asOf' \in [Collectors -> 0..MaxTime]
               /\ holding' \in [Couriers -> SUBSET Ids] /\ received' \subseteq Ids
  BY <1>2 DEF TypeOK
<1>4. CASE Pass
  BY <1>4 DEF Pass, collecting, writes, TypeOK, Alert
<1>5. ASSUME NEW c \in Collectors, NEW codes \in SUBSET Codes, Begin(c, codes)
      PROVE  asOf' \in [Collectors -> 0..MaxTime]
                /\ UNCHANGED <<now, nextEmit, outbox, created, found, refreshed, inserted, holding, received>>
  BY <1>5 DEF Begin, writes, TypeOK
<1>6. ASSUME NEW c \in Collectors, Commit(c) \/ Rollback(c)
      PROVE  /\ nextEmit' \in [Codes -> 0..(MaxTime + Cooldown)]
             /\ outbox' \subseteq Alert
             /\ asOf' \in [Collectors -> 0..MaxTime]
             /\ \A d \in Collectors : found'[d] \cup refreshed'[d] \subseteq Ids /\ inserted'[d] \subseteq Alert
             /\ UNCHANGED <<now, created, holding, received>>
  <2>1. nextEmit' \in [Codes -> 0..(MaxTime + Cooldown)] /\ outbox' \subseteq Alert
    BY <1>6 DEF Commit, Rollback, TypeOK, CodesNumbered
  <2>2. Done(c)
    BY <1>6 DEF Commit, Rollback
  <2>3. asOf' \in [Collectors -> 0..MaxTime] /\ UNCHANGED <<now, created, holding, received>>
    BY <2>2 DEF Done, TypeOK
  <2>4. ASSUME NEW d \in Collectors
        PROVE  found'[d] \cup refreshed'[d] \subseteq Ids /\ inserted'[d] \subseteq Alert
    <3>1. /\ found'[d] \subseteq found[d] /\ refreshed'[d] \subseteq refreshed[d]
          /\ inserted'[d] \subseteq inserted[d]
      BY <2>2 DEF Done, Types
    <3> QED BY <3>1 DEF TypeOK
  <2> QED BY <2>1, <2>3, <2>4
<1>7. ASSUME NEW c \in Collectors, Refresh(c) \/ \E k \in Codes : Look(c, k) \/ Insert(c, k)
      PROVE  /\ created' \in 0..MaxAlerts
             /\ \A d \in Collectors : found'[d] \cup refreshed'[d] \subseteq Ids /\ inserted'[d] \subseteq Alert
             /\ UNCHANGED <<now, nextEmit, outbox, asOf, holding, received>>
  <2> DEFINE Goal == /\ created' \in 0..MaxAlerts
                     /\ \A d \in Collectors : found'[d] \cup refreshed'[d] \subseteq Ids /\ inserted'[d] \subseteq Alert
                     /\ UNCHANGED <<now, nextEmit, outbox, asOf, holding, received>>
  <2>1. ASSUME NEW k \in Codes, Look(c, k) PROVE Goal
    <3>1. {a.id : a \in PendingOf(k)} \subseteq Ids
      BY DEF PendingOf, Pending, TypeOK, Alert
    <3> QED BY <2>1, <3>1 DEF Look, Types, TypeOK
  <2>2. ASSUME NEW k \in Codes, Insert(c, k) PROVE Goal
    <3> DEFINE new == [id |-> created + 1, code |-> k, acked |-> FALSE, at |-> 0]
    <3>1. new \in Alert
      BY <2>2 DEF Insert, Alert, TypeOK, Ids
    <3>2. inserted' = [inserted EXCEPT ![c] = @ \cup {new}]
      BY <2>2 DEF Insert
    <3>3. \A d \in Collectors : inserted'[d] \subseteq Alert
      <4> HIDE DEF new
      <4> QED BY <3>1, <3>2 DEF Types, TypeOK
    <3> QED BY <2>2, <3>3 DEF Insert, TypeOK
  <2>3. CASE Refresh(c)
    BY <2>3 DEF Refresh, Types, TypeOK
  <2> QED BY <1>7, <2>1, <2>2, <2>3
<1>8. ASSUME NEW d \in Couriers, List(d)
      PROVE  holding' \in [Couriers -> SUBSET Ids]
                /\ UNCHANGED <<now, nextEmit, outbox, created, found, refreshed, inserted, asOf, received>>
  BY <1>8 DEF List, collecting, writes, Pending, TypeOK, Alert
<1>9. ASSUME NEW d \in Couriers, NEW n \in Ids, Deliver(d, n)
      PROVE  /\ holding' \in [Couriers -> SUBSET Ids] /\ received' \subseteq Ids
             /\ outbox' \subseteq Alert
             /\ UNCHANGED <<now, nextEmit, created, found, refreshed, inserted, asOf>>
  <2>1. Acked(n) \subseteq Alert
    BY DEF Acked, Alert, TypeOK
  <2>2. QED
    BY <1>9, <2>1 DEF Deliver, collecting, writes, TypeOK
<1>10. ASSUME NEW c \in Collectors, NEW k \in Codes, LockCode(c, k)
       PROVE  UNCHANGED <<now, nextEmit, outbox, created, found, refreshed, inserted, asOf, holding, received>>
  BY <1>10 DEF LockCode
<1>11. CASE UNCHANGED vars
  BY <1>11 DEF vars, collecting, writes, TypeOK
<1>12. QED
  BY <1>4, <1>5, <1>6, <1>7, <1>8, <1>9, <1>10, <1>11 DEF Next, Collect, TypeOK

\* However collections and deliveries overlap, an alert is raised once per
\* cooldown and pending once, carries every emission, is dropped only when the
\* webhook had it, and no collector waits for ever.
THEOREM AlertsStaySingle ==
    ASSUME CodesNumbered, Bounds
    PROVE  Spec => AlertsSentOnce
<1>1. Init => TypeOK
  BY DEF Init, TypeOK, Bounds, CodesNumbered
<1>2. IInv /\ TypeOK /\ [Next]_vars => TypeOK'
  BY TypeStep
<1>3. Spec => []TypeOK
  BY <1>1, <1>2, Invariance, PTL DEF Spec
<1>4. QED
  BY <1>3, AlertsAreNotRepeated, CollectorsNeverDeadlock, EmissionsAreSpaced, EmissionsHaveAlerts,
     AlertsAreDelivered, PTL
     DEF AlertsSentOnce

-----------------------------------------------------------------------------
(* The notices about the proxy's quota. *)

\* A latch was set with the notice, and what waits is about the present.
Latched ==
    /\ emitted \subseteq fired /\ (Quota!Critical \in fired => Quota!Low \in fired)
    /\ \A n \in pending : n.threshold \in fired /\ n.id <= qCreated /\ observed.band <= n.threshold + 1
    /\ \A m, n \in pending : m = n

\* A tick that is to send or acknowledge a notice, and that its lease outlives.
Outgoing(t) == pc[t] \in {"send", "ack"}
LeasedToOne ==
    /\ \A t \in Processes : pc[t] # "idle" => reading[t].at <= qNow /\ qNow <= reading[t].at + Budget
    /\ \A t \in Processes : Outgoing(t) =>
          /\ notice[t] \in 1..qCreated
          /\ \A n \in pending : n.id = notice[t] => n.holder = t /\ n.until >= reading[t].at + NoticeLease
    /\ \A t, u \in Processes : Outgoing(t) /\ Outgoing(u) /\ notice[t] = notice[u] => t = u

\* What was delivered without an excuse was delivered once, and a tick has yet
\* to acknowledge it if it is still pending.
SentAndKnown ==
    /\ \A k \in Quota!Ids : k > qCreated => delivered[k] = 0
    /\ \A k \in Quota!Ids : delivered[k] > 0 /\ k \notin excused =>
          /\ delivered[k] = 1
          /\ \A t \in Processes : pc[t] = "send" => notice[t] # k
          /\ \A n \in pending : n.id = k => \E t \in Processes : pc[t] = "ack" /\ notice[t] = k

NoticesInv == Quota!TypeOK /\ Latched /\ LeasedToOne /\ SentAndKnown

LEMMA QuotaNumbers ==
    /\ NoticeLease \in Nat /\ Budget \in Nat /\ QuotaTime \in Nat /\ MaxNotices \in Nat
    /\ Budget < NoticeLease
BY PartsAssumption DEF Quota!Parameters

LEMMA NoticesInit == Quota!Init => NoticesInv
BY QuotaNumbers DEF Quota!Init, NoticesInv, Quota!TypeOK, Latched, LeasedToOne, SentAndKnown, Outgoing,
   Quota!Unread, Quota!Bands, Quota!Thresholds, Quota!Low, Quota!Critical, Quota!Ids

\* One observation: at most one notice is raised, and then it is the only one.
LEMMA ObservedFacts ==
    ASSUME NoticesInv, NEW t \in Processes, Quota!ObserveRow(reading[t]), qCreated < MaxNotices
    PROVE  /\ observed' \in [band : Quota!Bands, at : 0..QuotaTime]
           /\ fired' \subseteq Quota!Thresholds /\ emitted' \subseteq Quota!Thresholds
           /\ qCreated' \in {qCreated, qCreated + 1}
           /\ \A n \in pending' : n \in pending \/ (n.id = qCreated + 1 /\ qCreated' = qCreated + 1)
           /\ \A n \in pending' \ pending : n.threshold \notin emitted
           /\ pending' \subseteq [id : Quota!Ids, threshold : Quota!Thresholds,
                                  holder : Processes \cup {Quota!Nobody}, until : 0..(QuotaTime + NoticeLease)]
           /\ Latched'
<1> DEFINE r == reading[t]
           urgent == Quota!MostUrgent(Quota!Triggered(r.band))
<1>1. /\ r.band \in 0..4 /\ r.at \in 0..QuotaTime /\ r = [band |-> r.band, at |-> r.at]
      /\ fired \subseteq {2, 0} /\ qCreated \in Nat /\ emitted \subseteq {2, 0}
      /\ \A n \in pending : n.threshold \in {2, 0}
  BY DEF NoticesInv, Quota!TypeOK, Quota!Bands, Quota!Thresholds, Quota!Low, Quota!Critical
<1>2. Quota!Triggered(r.band) \subseteq {0, 2}
  BY DEF Quota!Triggered, Quota!Thresholds, Quota!Low, Quota!Critical
<1>3. urgent = {} \/ \E th \in {0, 2} : urgent = {th} /\ th \in Quota!Triggered(r.band)
                                        /\ \A o \in Quota!Triggered(r.band) : th <= o
  <2>1. CASE Quota!Triggered(r.band) = {}
    BY <2>1 DEF Quota!MostUrgent
  <2>2. CASE Quota!Triggered(r.band) # {}
    <3>1. \E x \in Quota!Triggered(r.band) : \A y \in Quota!Triggered(r.band) : x <= y
      BY <1>2, <2>2
    <3>2. /\ Quota!Min(Quota!Triggered(r.band)) \in Quota!Triggered(r.band)
          /\ \A o \in Quota!Triggered(r.band) : Quota!Min(Quota!Triggered(r.band)) <= o
      BY <3>1 DEF Quota!Min
    <3>3. urgent = {Quota!Min(Quota!Triggered(r.band))}
      BY <2>2 DEF Quota!MostUrgent
    <3> QED BY <3>2, <3>3, <1>2
  <2> QED BY <2>1, <2>2
<1>4. Quota!Cardinality(urgent) = IF urgent = {} THEN 0 ELSE 1
  <2>1. \A S : Quota!Cardinality(S) = Cardinality(S)
    BY DEF Quota!Cardinality, Cardinality
  <2> HIDE DEF urgent
  <2> QED BY <1>3, <2>1, FS_EmptySet, FS_Singleton
<1>5. Latched
  BY DEF NoticesInv
<1>6. Quota!Rearmed(r.band) = {th \in {2, 0} : r.band > th + 1}
  BY DEF Quota!Rearmed, Quota!Thresholds, Quota!Low, Quota!Critical
<1>7. Quota!Triggered(r.band) = {th \in {2, 0} : r.band <= th /\ th \notin fired}
  BY DEF Quota!Triggered, Quota!Thresholds, Quota!Low, Quota!Critical
<1>8. /\ observed' = r
      /\ fired' = (fired \ Quota!Rearmed(r.band)) \cup Quota!Triggered(r.band)
      /\ pending' = {n \in pending : /\ n.threshold \notin Quota!Rearmed(r.band)
                                     /\ \A th \in urgent : n.threshold <= th}
                    \cup {[id |-> qCreated + 1, threshold |-> th, holder |-> Quota!Nobody, until |-> 0] : th \in urgent}
      /\ qCreated' = qCreated + Quota!Cardinality(urgent)
      /\ emitted' = (emitted \ Quota!Rearmed(r.band)) \cup urgent
  BY DEF Quota!ObserveRow
<1>9. CASE urgent = {}
  <2>1. Quota!Triggered(r.band) = {}
    <3>1. ASSUME Quota!Triggered(r.band) # {} PROVE FALSE
      BY <3>1, <1>9 DEF Quota!MostUrgent
    <3> QED BY <3>1
  <2>2. /\ pending' = {n \in pending : n.threshold \notin Quota!Rearmed(r.band)} /\ qCreated' = qCreated
        /\ fired' = fired \ Quota!Rearmed(r.band) /\ emitted' = emitted \ Quota!Rearmed(r.band)
    <3> HIDE DEF urgent
    <3> QED BY <1>8, <1>9, <1>4, <2>1, <1>1
  <2> HIDE DEF r, urgent
  <2>3. fired' = {th \in fired : ~(r.band > th + 1)} /\ emitted' = {th \in emitted : ~(r.band > th + 1)}
        /\ pending' = {n \in pending : ~(r.band > n.threshold + 1)}
    BY <1>1, <1>6, <2>2
  <2>4. emitted' \subseteq fired' /\ (0 \in fired' => 2 \in fired')
    BY <1>1, <1>5, <2>3 DEF Latched, Quota!Low, Quota!Critical
  <2>5. \A n \in pending' : n.threshold \in fired' /\ n.id <= qCreated' /\ observed'.band <= n.threshold + 1
    BY <1>1, <1>5, <1>8, <2>2, <2>3 DEF Latched
  <2>6. Latched'
    BY <1>5, <2>3, <2>4, <2>5 DEF Latched, Quota!Low, Quota!Critical
  <2>7. pending' \subseteq pending /\ fired' \subseteq fired /\ emitted' \subseteq emitted
    BY <2>3
  <2>8. observed' \in [band : Quota!Bands, at : 0..QuotaTime]
    BY <1>1, <1>8 DEF Quota!Bands
  <2>9. /\ fired \subseteq Quota!Thresholds /\ emitted \subseteq Quota!Thresholds
        /\ pending \subseteq [id : Quota!Ids, threshold : Quota!Thresholds,
                              holder : Processes \cup {Quota!Nobody}, until : 0..(QuotaTime + NoticeLease)]
    BY DEF NoticesInv, Quota!TypeOK
  <2>10. pending' \subseteq [id : Quota!Ids, threshold : Quota!Thresholds,
                             holder : Processes \cup {Quota!Nobody}, until : 0..(QuotaTime + NoticeLease)]
    BY <2>7, <2>9, Zenon
  <2>11. fired' \subseteq Quota!Thresholds /\ emitted' \subseteq Quota!Thresholds
    BY <2>7, <2>9, Zenon
  <2>12. qCreated' \in {qCreated, qCreated + 1}
    BY <2>2
  <2>13. /\ \A n \in pending' : n \in pending \/ (n.id = qCreated + 1 /\ qCreated' = qCreated + 1)
         /\ \A n \in pending' \ pending : n.threshold \notin emitted
    BY <2>7, Zenon
  <2> QED BY <2>6, <2>8, <2>10, <2>11, <2>12, <2>13
<1>10. ASSUME NEW th \in {0, 2}, urgent = {th}, th \in Quota!Triggered(r.band),
              \A o \in Quota!Triggered(r.band) : th <= o
       PROVE  /\ pending' = {[id |-> qCreated + 1, threshold |-> th, holder |-> Quota!Nobody, until |-> 0]}
              /\ qCreated' = qCreated + 1 /\ th \notin emitted
              /\ Latched'
  <2>1. \A n \in pending : ~(n.threshold <= th)
    BY <1>1, <1>5, <1>7, <1>10 DEF Latched, Quota!Low, Quota!Critical
  <2>2. /\ pending' = {[id |-> qCreated + 1, threshold |-> th, holder |-> Quota!Nobody, until |-> 0]}
        /\ qCreated' = qCreated + 1 /\ emitted' = (emitted \ Quota!Rearmed(r.band)) \cup {th}
    <3> HIDE DEF urgent
    <3>1. qCreated' = qCreated + 1 /\ emitted' = (emitted \ Quota!Rearmed(r.band)) \cup {th}
      BY <1>4, <1>8, <1>10
    <3> QED BY <2>1, <1>8, <1>10, <3>1
  <2>3. th \notin emitted
    BY <1>5, <1>7, <1>10 DEF Latched
  <2> HIDE DEF r, urgent
  <2>4. fired' = {o \in fired : ~(r.band > o + 1)} \cup {o \in {2, 0} : r.band <= o /\ o \notin fired}
        /\ emitted' = {o \in emitted : ~(r.band > o + 1)} \cup {th} /\ r.band <= th
    BY <1>1, <1>6, <1>7, <1>8, <1>10, <2>2
  <2>5. emitted' \subseteq fired' /\ (0 \in fired' => 2 \in fired') /\ th \in fired'
    BY <1>1, <1>5, <1>7, <1>10, <2>4 DEF Latched, Quota!Low, Quota!Critical
  <2>6. Latched'
    BY <1>1, <1>8, <2>2, <2>4, <2>5 DEF Latched, Quota!Low, Quota!Critical
  <2> QED BY <2>2, <2>3, <2>6
<1>11. ASSUME NEW th \in {0, 2}, urgent = {th}, th \in Quota!Triggered(r.band),
              \A o \in Quota!Triggered(r.band) : th <= o
       PROVE  /\ \A n \in pending' : n.id = qCreated + 1 /\ n.threshold = th
              /\ pending' \subseteq [id : Quota!Ids, threshold : Quota!Thresholds,
                                  holder : Processes \cup {Quota!Nobody}, until : 0..(QuotaTime + NoticeLease)]
              /\ emitted' \subseteq {0, 2}
  <2> HIDE DEF r, urgent
  <2>1. pending' = {[id |-> qCreated + 1, threshold |-> th, holder |-> Quota!Nobody, until |-> 0]}
    BY <1>10, <1>11
  <2>2. emitted' \subseteq {0, 2}
    BY <1>1, <1>8, <1>11
  <2> QED BY <1>1, <2>1, <2>2, QuotaNumbers DEF Quota!Ids, Quota!Thresholds, Quota!Low, Quota!Critical
<1>12. CASE urgent # {}
  <2>1. PICK th \in {0, 2} : urgent = {th} /\ th \in Quota!Triggered(r.band)
                             /\ \A o \in Quota!Triggered(r.band) : th <= o
    BY <1>3, <1>12
  <2>2. /\ pending' = {[id |-> qCreated + 1, threshold |-> th, holder |-> Quota!Nobody, until |-> 0]}
        /\ qCreated' = qCreated + 1 /\ th \notin emitted
        /\ Latched'
    BY <1>10, <2>1
  <2>3. /\ \A n \in pending' : n.id = qCreated + 1 /\ n.threshold = th
        /\ pending' \subseteq [id : Quota!Ids, threshold : Quota!Thresholds,
                               holder : Processes \cup {Quota!Nobody}, until : 0..(QuotaTime + NoticeLease)]
        /\ emitted' \subseteq {0, 2}
    BY <1>11, <2>1
  <2> HIDE DEF urgent
  <2>4. fired' \subseteq {0, 2} /\ observed' \in [band : Quota!Bands, at : 0..QuotaTime]
    BY <1>1, <1>2, <1>8 DEF Quota!Bands
  <2> QED BY <2>2, <2>3, <2>4 DEF Quota!Thresholds, Quota!Low, Quota!Critical
<1> QED BY <1>9, <1>12

LEMMA ObserveStep == ASSUME NoticesInv, NEW t \in Processes, Quota!Observe(t) PROVE NoticesInv'
<1>1. CASE Quota!Newer(reading[t])
  <2>1. Quota!ObserveRow(reading[t]) /\ qCreated < MaxNotices
    BY <1>1 DEF Quota!Observe
  <2>2. /\ observed' \in [band : Quota!Bands, at : 0..QuotaTime]
        /\ fired' \subseteq Quota!Thresholds /\ emitted' \subseteq Quota!Thresholds
        /\ qCreated' \in {qCreated, qCreated + 1}
        /\ \A n \in pending' : n \in pending \/ (n.id = qCreated + 1 /\ qCreated' = qCreated + 1)
        /\ pending' \subseteq [id : Quota!Ids, threshold : Quota!Thresholds,
                               holder : Processes \cup {Quota!Nobody}, until : 0..(QuotaTime + NoticeLease)]
        /\ Latched'
    BY <2>1, ObservedFacts
  <2>3. /\ pc' = [pc EXCEPT ![t] = "claim"] /\ pc[t] = "post"
        /\ UNCHANGED <<qNow, reading, notice, delivered, excused>>
    BY DEF Quota!Observe, Quota!Go, Quota!outside
  <2>4. Quota!TypeOK /\ qCreated \in 0..MaxNotices /\ LeasedToOne /\ SentAndKnown /\ Latched
        /\ pc \in [Processes -> {"idle", "post", "claim", "send", "ack"}]
    BY DEF NoticesInv, Quota!TypeOK
  <2>5. \A u \in Processes : /\ pc'[u] = (IF u = t THEN "claim" ELSE pc[u])
    BY <2>3, <2>4
  <2>6. \A u \in Processes : /\ Outgoing(u)' <=> Outgoing(u) 
                             /\ pc'[u] = "send" <=> pc[u] = "send"
                             /\ pc'[u] = "ack" <=> pc[u] = "ack"
                             /\ pc'[u] = "idle" <=> pc[u] = "idle"
    BY <2>3, <2>5 DEF Outgoing
  <2>7. Quota!TypeOK'
    BY <2>1, <2>2, <2>3, <2>4, QuotaNumbers DEF Quota!TypeOK
  <2>8. LeasedToOne'
    BY <2>2, <2>3, <2>4, <2>6, QuotaNumbers DEF LeasedToOne
  <2>9. SentAndKnown'
    <3>1. \A k \in Quota!Ids : k > qCreated' => delivered'[k] = 0
      BY <2>2, <2>3, <2>4, QuotaNumbers DEF SentAndKnown, Quota!Ids
    <3>2. ASSUME NEW k \in Quota!Ids, delivered[k] > 0, k \notin excused
          PROVE  /\ delivered[k] = 1
                 /\ \A u \in Processes : pc'[u] = "send" => notice[u] # k
                 /\ \A n \in pending' : n.id = k => \E u \in Processes : pc'[u] = "ack" /\ notice[u] = k
      <4>1. k # qCreated + 1
        BY <2>4, <3>2 DEF SentAndKnown, Quota!Ids
      <4> QED BY <2>2, <2>4, <2>6, <3>2, <4>1 DEF SentAndKnown
    <3> QED BY <2>3, <3>1, <3>2 DEF SentAndKnown
  <2> QED BY <2>2, <2>7, <2>8, <2>9 DEF NoticesInv
<1>2. CASE ~Quota!Newer(reading[t])
  <2>1. UNCHANGED <<observed, fired, pending, qCreated, emitted>>
    BY <1>2 DEF Quota!Observe, Quota!row
  <2>3. /\ pc' = [pc EXCEPT ![t] = "claim"] /\ pc[t] = "post"
        /\ UNCHANGED <<qNow, reading, notice, delivered, excused>>
    BY DEF Quota!Observe, Quota!Go, Quota!outside
  <2> QED BY <2>1, <2>3 DEF NoticesInv, Quota!TypeOK, Latched, LeasedToOne, SentAndKnown, Outgoing
<1> QED BY <1>1, <1>2

LEMMA QuotaPassStep == ASSUME NoticesInv, Quota!Pass PROVE NoticesInv'
BY QuotaNumbers DEF NoticesInv, Quota!TypeOK, Latched, LeasedToOne, SentAndKnown, Outgoing, Quota!Pass,
   Quota!row, Quota!outside

LEMMA ReadBalanceStep ==
    ASSUME NoticesInv, NEW t \in Processes, NEW band \in Quota!Bands, Quota!ReadBalance(t, band) PROVE NoticesInv'
BY QuotaNumbers DEF NoticesInv, Quota!TypeOK, Latched, LeasedToOne, SentAndKnown, Outgoing, Quota!ReadBalance,
   Quota!row, Quota!outside, Quota!Go

\* A lease that is free: its tick, if it had one, has stopped.
LEMMA ClaimNoticeStep == ASSUME NoticesInv, NEW t \in Processes, Quota!ClaimNotice(t) PROVE NoticesInv'
<1> DEFINE least == CHOOSE n \in Quota!Leasable : \A o \in Quota!Leasable : n.id <= o.id
<1>1. Quota!TypeOK /\ Latched /\ LeasedToOne /\ SentAndKnown
  BY DEF NoticesInv
<1>2. PICK n : n \in Quota!Leasable
  BY DEF Quota!ClaimNotice
<1>3. Quota!Leasable = {n} /\ pending = {n} /\ n.until <= qNow
  BY <1>1, <1>2 DEF Quota!Leasable, Latched
<1>4. n.id <= n.id /\ n.id \in Quota!Ids /\ n.id \in 1..qCreated /\ n.threshold \in Quota!Thresholds
      /\ n \in [id : Quota!Ids, threshold : Quota!Thresholds,
                holder : Processes \cup {Quota!Nobody}, until : 0..(QuotaTime + NoticeLease)]
  BY <1>1, <1>3, QuotaNumbers DEF Quota!TypeOK, Quota!Ids, Latched
<1>5. least = n
  BY <1>3, <1>4
<1>6. /\ pending' = {[n EXCEPT !.holder = t, !.until = qNow + NoticeLease]}
      /\ notice' = [notice EXCEPT ![t] = n.id] /\ pc' = [pc EXCEPT ![t] = "send"] /\ pc[t] = "claim"
      /\ UNCHANGED <<qNow, observed, fired, qCreated, emitted, reading, delivered, excused>>
  <2> HIDE DEF least
  <2>1. /\ pending' = (pending \ {least}) \cup {[least EXCEPT !.holder = t, !.until = qNow + NoticeLease]}
        /\ notice' = [notice EXCEPT ![t] = least.id]
    BY DEF Quota!ClaimNotice, least
  <2>2. pc' = [pc EXCEPT ![t] = "send"] /\ pc[t] = "claim"
        /\ UNCHANGED <<qNow, observed, fired, qCreated, emitted, reading, delivered, excused>>
    BY DEF Quota!ClaimNotice, Quota!Go, Quota!outside
  <2> QED BY <2>1, <2>2, <1>3, <1>5
<1>7. PICK m : m = [n EXCEPT !.holder = t, !.until = qNow + NoticeLease]
  OBVIOUS
<1>8. /\ m \in [id : Quota!Ids, threshold : Quota!Thresholds,
                holder : Processes \cup {Quota!Nobody}, until : 0..(QuotaTime + NoticeLease)]
      /\ m.id = n.id /\ m.threshold = n.threshold /\ m.holder = t /\ m.until = qNow + NoticeLease
  <2>1. /\ m.id = n.id /\ m.threshold = n.threshold /\ m.holder = t /\ m.until = qNow + NoticeLease
        /\ m = [id |-> n.id, threshold |-> n.threshold, holder |-> t, until |-> qNow + NoticeLease]
    BY <1>4, <1>7
  <2>2. qNow + NoticeLease \in 0..(QuotaTime + NoticeLease)
    BY <1>1, QuotaNumbers DEF Quota!TypeOK
  <2> QED BY <1>4, <2>1, <2>2
<1>9. pending' = {m}
  BY <1>6, <1>7
<1>10. \A u \in Processes : ~(Outgoing(u) /\ notice[u] = n.id)
  <2> SUFFICES ASSUME NEW u \in Processes, Outgoing(u), notice[u] = n.id PROVE FALSE
    OBVIOUS
  <2>1. n.until >= reading[u].at + NoticeLease /\ qNow <= reading[u].at + Budget
    BY <1>1, <1>3 DEF LeasedToOne, Outgoing
  <2> QED BY <1>1, <1>3, <1>4, <2>1, QuotaNumbers DEF Quota!TypeOK
<1>11. Quota!TypeOK'
  BY <1>1, <1>4, <1>6, <1>8, <1>9 DEF Quota!TypeOK
<1>12. Latched'
  BY <1>1, <1>3, <1>6, <1>8, <1>9 DEF Latched
<1>13. LeasedToOne'
  BY <1>1, <1>4, <1>6, <1>8, <1>9, <1>10, QuotaNumbers DEF LeasedToOne, Outgoing, Quota!TypeOK
<1>14. SentAndKnown'
  <2>1. \A k \in Quota!Ids : delivered[k] > 0 /\ k \notin excused => k # n.id
    BY <1>1, <1>3, <1>10 DEF SentAndKnown, Outgoing
  <2> QED BY <1>1, <1>6, <1>8, <1>9, <2>1 DEF SentAndKnown, Quota!TypeOK
<1> QED BY <1>11, <1>12, <1>13, <1>14 DEF NoticesInv

LEMMA SendStep ==
    ASSUME NoticesInv, NEW t \in Processes, Quota!Send(t) \/ Quota!SendFails(t) \/ Quota!NothingToClaim(t)
    PROVE  NoticesInv'
<1>1. Quota!TypeOK /\ Latched /\ LeasedToOne /\ SentAndKnown
  BY DEF NoticesInv
<1>2. CASE Quota!Send(t)
  <2> DEFINE k == notice[t]
  <2>1. /\ pc[t] = "send" /\ delivered' = [delivered EXCEPT ![k] = @ + 1]
        /\ UNCHANGED <<qNow, observed, fired, pending, qCreated, emitted>>
    BY <1>2 DEF Quota!Send, Quota!row
  <2>2. k \in 1..qCreated /\ k \in Quota!Ids /\ delivered[k] \in Nat
    BY <1>1, <2>1, QuotaNumbers DEF LeasedToOne, Outgoing, Quota!TypeOK, Quota!Ids
  <2>3. delivered'[k] = delivered[k] + 1 /\ \A o \in Quota!Ids : o # k => delivered'[o] = delivered[o]
    BY <2>1, <2>2, <1>1 DEF Quota!TypeOK
  <2>4. k \in excused \/ delivered[k] = 0
    BY <1>1, <2>1, <2>2 DEF SentAndKnown
  <2>5. Latched'
    BY <1>1, <2>1 DEF Latched
  <2>6. CASE pc' = [pc EXCEPT ![t] = "ack"] /\ UNCHANGED <<excused, reading, notice>>
    <3>1. Quota!TypeOK'
      BY <1>1, <2>1, <2>2, <2>6 DEF Quota!TypeOK
    <3>2. LeasedToOne'
      BY <1>1, <2>1, <2>6 DEF LeasedToOne, Outgoing, Quota!TypeOK
    <3>3. \A u \in Processes : pc'[u] = (IF u = t THEN "ack" ELSE pc[u])
      BY <1>1, <2>6 DEF Quota!TypeOK
    <3>4. \A u \in Processes : pc'[u] = "send" => notice[u] # k
      BY <1>1, <2>1, <3>3 DEF LeasedToOne, Outgoing
    <3>5. SentAndKnown'
      BY <1>1, <2>1, <2>2, <2>3, <2>4, <2>6, <3>3, <3>4 DEF SentAndKnown, Quota!TypeOK
    <3> QED BY <2>5, <3>1, <3>2, <3>5 DEF NoticesInv
  <2>7. CASE Quota!Stop(t) /\ excused' = excused \cup {k}
    <3>1. pc' = [pc EXCEPT ![t] = "idle"] /\ reading' = [reading EXCEPT ![t] = Quota!Unread]
          /\ notice' = [notice EXCEPT ![t] = 0]
      BY <2>7 DEF Quota!Stop, Quota!Go
    <3>2. Quota!TypeOK'
      BY <1>1, <2>1, <2>2, <2>7, <3>1, QuotaNumbers DEF Quota!TypeOK, Quota!Unread, Quota!Bands
    <3>3. LeasedToOne'
      BY <1>1, <2>1, <3>1 DEF LeasedToOne, Outgoing, Quota!TypeOK
    <3>4. SentAndKnown'
      BY <1>1, <2>1, <2>2, <2>3, <2>7, <3>1 DEF SentAndKnown, Quota!TypeOK
    <3> QED BY <2>5, <3>2, <3>3, <3>4 DEF NoticesInv
  <2> QED BY <1>2, <2>6, <2>7 DEF Quota!Send, Quota!Go
<1>3. CASE Quota!SendFails(t) \/ Quota!NothingToClaim(t)
  <2>1. /\ pc' = [pc EXCEPT ![t] = "idle"] /\ reading' = [reading EXCEPT ![t] = Quota!Unread]
        /\ notice' = [notice EXCEPT ![t] = 0] /\ pc[t] \in {"send", "claim"}
        /\ UNCHANGED <<qNow, observed, fired, pending, qCreated, emitted, delivered, excused>>
    BY <1>3 DEF Quota!SendFails, Quota!NothingToClaim, Quota!Stop, Quota!Go, Quota!row, Quota!outside
  <2>2. Quota!TypeOK'
    BY <1>1, <2>1, QuotaNumbers DEF Quota!TypeOK, Quota!Unread, Quota!Bands
  <2>3. LeasedToOne' /\ Latched'
    BY <1>1, <2>1 DEF LeasedToOne, Latched, Outgoing, Quota!TypeOK
  <2>4. SentAndKnown'
    BY <1>1, <2>1 DEF SentAndKnown, Quota!TypeOK
  <2> QED BY <2>2, <2>3, <2>4 DEF NoticesInv
<1> QED BY <1>2, <1>3

LEMMA AcknowledgeStep ==
    ASSUME NoticesInv, NEW t \in Processes, Quota!Acknowledge(t) \/ Quota!Killed(t)
    PROVE  NoticesInv'
<1>1. Quota!TypeOK /\ Latched /\ LeasedToOne /\ SentAndKnown
  BY DEF NoticesInv
<1>2. /\ pc' = [pc EXCEPT ![t] = "idle"] /\ reading' = [reading EXCEPT ![t] = Quota!Unread]
      /\ notice' = [notice EXCEPT ![t] = 0]
      /\ UNCHANGED <<qNow, observed, fired, qCreated, emitted, delivered>>
  BY DEF Quota!Acknowledge, Quota!Killed, Quota!Stop, Quota!Go, Quota!row
<1>3. /\ pending' \subseteq pending /\ excused \subseteq excused'
      /\ pc[t] = "ack" => notice[t] \in excused' \/ \A n \in pending' : n.id # notice[t]
      /\ excused' \subseteq excused \cup {notice[t]} /\ (pc[t] # "ack" => excused' = excused)
  <2>1. CASE Quota!Acknowledge(t)
    BY <1>1, <2>1 DEF Quota!Acknowledge, Quota!Held, Latched
  <2>2. CASE Quota!Killed(t)
    BY <2>2 DEF Quota!Killed, Quota!row
  <2> QED BY <2>1, <2>2
<1>4. excused' \subseteq Quota!Ids
  BY <1>1, <1>3, QuotaNumbers DEF LeasedToOne, Outgoing, Quota!TypeOK, Quota!Ids
<1>5. Quota!TypeOK'
  BY <1>1, <1>2, <1>3, <1>4, QuotaNumbers DEF Quota!TypeOK, Quota!Unread, Quota!Bands
<1>6. Latched'
  BY <1>1, <1>2, <1>3 DEF Latched
<1>7. LeasedToOne'
  BY <1>1, <1>2, <1>3 DEF LeasedToOne, Outgoing, Quota!TypeOK
<1>8. SentAndKnown'
  BY <1>1, <1>2, <1>3 DEF SentAndKnown, Quota!TypeOK
<1> QED BY <1>5, <1>6, <1>7, <1>8 DEF NoticesInv

LEMMA NoticesStep == NoticesInv /\ (Quota!Next \/ UNCHANGED quota) => NoticesInv'
<1>1. ASSUME NoticesInv, UNCHANGED quota PROVE NoticesInv'
  BY <1>1 DEF quota, NoticesInv, Quota!TypeOK, Latched, LeasedToOne, SentAndKnown, Outgoing
<1> QED BY <1>1, QuotaPassStep, ReadBalanceStep, ObserveStep, ClaimNoticeStep, SendStep, AcknowledgeStep
        DEF Quota!Next, Quota!Tick

LEMMA NoticesInvariance == EachSpec => []NoticesInv
<1>1. EachInit => NoticesInv
  BY NoticesInit DEF EachInit
<1>2. NoticesInv /\ [EachNext]_every => NoticesInv'
  <2>1. EachNext => Quota!Next \/ UNCHANGED quota
    BY DEF EachNext, quota
  <2>2. UNCHANGED every => UNCHANGED quota
    BY DEF every
  <2> QED BY <2>1, <2>2, NoticesStep
<1> QED BY <1>1, <1>2, PTL DEF EachSpec

LEMMA NoticesPromised ==
    NoticesInv => Quota!TypeOK /\ Quota!OneCurrentNotice /\ Quota!SentOnceUnlessExcused
<1> SUFFICES ASSUME NoticesInv PROVE Quota!TypeOK /\ Quota!OneCurrentNotice /\ Quota!SentOnceUnlessExcused
  OBVIOUS
<1>1. \A S : Quota!Cardinality(S) = Cardinality(S)
  BY DEF Quota!Cardinality, Cardinality
<1>2. Quota!Cardinality(pending) <= 1
  <2>1. CASE pending = {}
    BY <1>1, <2>1, FS_EmptySet
  <2>2. ASSUME NEW n, pending = {n} PROVE Quota!Cardinality(pending) <= 1
    <3>1. Quota!Cardinality(pending) = 1
      BY <1>1, <2>2, FS_Singleton
    <3> QED BY <3>1
  <2>3. pending = {} \/ \E n \in pending : pending = {n}
    BY DEF NoticesInv, Latched
  <2> QED BY <2>1, <2>2, <2>3
<1>3. Quota!SentOnceUnlessExcused
  BY DEF NoticesInv, SentAndKnown, Quota!SentOnceUnlessExcused, Quota!TypeOK
<1> QED BY <1>2, <1>3 DEF NoticesInv, Latched, Quota!OneCurrentNotice

\* A new notice is for a threshold whose latch was open.
LEMMA NoticesAnnounce ==
    NoticesInv /\ [EachNext]_every =>
        [\A n \in pending' : n.id > qCreated => n.threshold \notin emitted]_(Quota!vars)
<1> SUFFICES ASSUME NoticesInv, Quota!Next PROVE \A n \in pending' : n.id > qCreated => n.threshold \notin emitted
  BY DEF EachNext, every, quota, Quota!vars
<1>1. \A n \in pending : ~(n.id > qCreated)
  BY DEF NoticesInv, Latched, Quota!TypeOK, Quota!Ids
<1>2. ASSUME NEW t \in Processes, Quota!Observe(t)
      PROVE  \A n \in pending' : n.id > qCreated => n.threshold \notin emitted
  BY <1>1, <1>2, ObservedFacts DEF Quota!Observe, Quota!row
<1>3. ASSUME NEW t \in Processes, Quota!ClaimNotice(t)
      PROVE  \A n \in pending' : n.id <= qCreated
  <2>1. NoticesInv' /\ qCreated' = qCreated
    BY <1>3, ClaimNoticeStep DEF Quota!ClaimNotice
  <2> QED BY <2>1 DEF NoticesInv, Latched
<1>4. ASSUME NEW t \in Processes, Quota!Acknowledge(t) PROVE pending' \subseteq pending
  BY <1>4 DEF Quota!Acknowledge
<1>5. \A n \in pending' : n.id \in Nat
  BY NoticesStep DEF NoticesInv, Quota!TypeOK, Quota!Ids
<1>6. qCreated \in Nat
  BY DEF NoticesInv, Quota!TypeOK
<1> QED BY <1>1, <1>2, <1>3, <1>4, <1>5, <1>6
        DEF Quota!Next, Quota!Tick, Quota!Pass, Quota!ReadBalance, Quota!NothingToClaim, Quota!Send,
            Quota!SendFails, Quota!Killed, Quota!row

\* However many ticks overlap, wherever they die and however late an answer is: a
\* notice about the proxy's quota is raised once per episode, the unsent one is
\* about the present, and a notice is sent twice only when an acknowledgement was
\* lost (NoticesSentOnce; server/proxy_quota.py).
THEOREM NoticesAreSentOnce == EachSpec => NoticesSentOnce
BY NoticesInvariance, NoticesPromised, NoticesAnnounce, PTL
DEF EachSpec, NoticesSentOnce, Quota!AnnouncedOncePerEpisode

-----------------------------------------------------------------------------
(* The public test server. *)

\* What was told is in the file, and in memory while the process runs.
ToldIsSaved ==
    /\ \A d \in Sessions : told[d] > 0 => disk[d] = told[d] /\ (up # "down" => sessions[d] = told[d])
    /\ \A r \in Requests : holds[r] # None => told[holds[r]] > 0
    /\ \A d \in Sessions : uPending[d] > 0 => told[d] > 0
PendingWereMade == \A d \in Sessions : uPending[d] <= made[d]

\* A login is of the past, in a process that runs; what is valid is limited, in
\* memory and in the file.
Valid(expiries, t) == {d \in Sessions : expiries[d] > t}
LoginsCounted ==
    /\ login # None => login.at <= uNow /\ up # "down"
    /\ Cardinality(Valid(sessions, uNow)) <= MaxActive
    /\ Cardinality(Valid(disk, uNow)) <= MaxActive

PublicInv == Public!TypeOK /\ ToldIsSaved /\ LoginsCounted /\ PendingWereMade

LEMMA PublicNumbers ==
    /\ IsFiniteSet(Sessions) /\ Lifetime \in Nat /\ MaxActive \in Nat /\ MaxJobs \in Nat /\ Limit \in Nat
    /\ Window \in Nat /\ MaxClients \in Nat /\ PublicKills \in Nat /\ PublicTime \in Nat
    /\ Lifetime > 0 /\ Limit > 0
  <1>1. \A S : Public!IsFiniteSet(S) = IsFiniteSet(S)
    BY DEF Public!IsFiniteSet, IsFiniteSet
  <1> QED BY <1>1, PartsAssumption DEF Public!Parameters

LEMMA PublicCardinality == \A S : Public!Cardinality(S) = Cardinality(S)
BY DEF Public!Cardinality, Cardinality

LEMMA FewerValid ==
    ASSUME NEW S \in SUBSET Sessions, NEW T \in SUBSET S PROVE Cardinality(T) <= Cardinality(S) /\ Cardinality(S) \in Nat
<1>1. IsFiniteSet(S)
  BY PublicNumbers, FS_Subset
<1> QED BY <1>1, FS_Subset, FS_CardinalityType

\* The failures a client is remembered by: at most Limit.
Failures == UNION {[1..n -> Public!Times] : n \in 0..Limit}

LEMMA FailuresAreSequences ==
    ASSUME NEW s PROVE s \in Failures <=> s \in Seq(Public!Times) /\ Len(s) <= Limit
<1>1. ASSUME s \in Failures PROVE s \in Seq(Public!Times) /\ Len(s) <= Limit
  <2>1. PICK n \in 0..Limit : s \in [1..n -> Public!Times]
    BY <1>1 DEF Failures
  <2> QED BY <2>1, PublicNumbers
<1>2. ASSUME s \in Seq(Public!Times), Len(s) <= Limit PROVE s \in Failures
  <2>1. s \in [1..Len(s) -> Public!Times] /\ Len(s) \in 0..Limit
    BY <1>2, PublicNumbers
  <2> QED BY <2>1 DEF Failures
<1> QED BY <1>1, <1>2

LEMMA NoFailures == <<>> \in Failures
<1>1. <<>> \in Seq(Public!Times) /\ Len(<<>>) = 0
  OBVIOUS
<1>2. Len(<<>>) <= Limit
  BY <1>1, PublicNumbers
<1>3. QED
  BY ONLY <1>1, <1>2, FailuresAreSequences, Zenon

LEMMA RecentIsShort ==
    ASSUME Public!TypeOK, NEW c \in Clients
    PROVE  Public!Recent(c) \in Seq(Public!Times) /\ Len(Public!Recent(c)) <= Limit
<1>1. failed[c] \in Seq(Public!Times) /\ Len(failed[c]) <= Limit
  BY FailuresAreSequences DEF Public!TypeOK, Failures
<1>2. Public!Left(c) \in Nat
  <2>1. IsFiniteSet(1..Len(failed[c]))
    BY <1>1, FS_Interval
  <2>2. DOMAIN failed[c] = 1..Len(failed[c])
    BY <1>1
  <2>3. IsFiniteSet({n \in DOMAIN failed[c] : failed[c][n] <= uNow - Window})
    BY <2>1, <2>2, FS_Subset
  <2> QED BY <2>3, FS_CardinalityType, PublicCardinality DEF Public!Left
<1>3. ASSUME NEW a \in Nat, NEW s \in Seq(Public!Times), Len(s) <= Limit
      PROVE  SubSeq(s, a + 1, Len(s)) \in Seq(Public!Times) /\ Len(SubSeq(s, a + 1, Len(s))) <= Limit
  <2>1. Len(SubSeq(s, a + 1, Len(s))) <= Len(s) /\ Len(s) \in Nat
    <3>1. CASE a + 1 <= Len(s)
      BY <3>1
    <3>2. CASE ~(a + 1 <= Len(s))
      BY <3>2
    <3> QED BY <3>1, <3>2
  <2>2. SubSeq(s, a + 1, Len(s)) \in Seq(Public!Times)
    OBVIOUS
  <2> QED BY <1>3, <2>1, <2>2, PublicNumbers
<1> QED BY <1>1, <1>2, <1>3 DEF Public!Recent

LEMMA FailureCounted ==
    ASSUME Public!TypeOK, NEW c \in Clients
    PROVE  Public!LastOf(Append(Public!Recent(c), uNow)) \in Failures
<1>1. /\ Public!Recent(c) \in Seq(Public!Times) /\ Len(Public!Recent(c)) <= Limit
      /\ uNow \in Public!Times
  <2>1. uNow \in Public!Times
    BY PublicNumbers DEF Public!TypeOK, Public!Times
  <2> QED BY <2>1, RecentIsShort
<1>2. ASSUME NEW s \in Seq(Public!Times), Len(s) <= Limit
      PROVE  Public!LastOf(Append(s, uNow)) \in Seq(Public!Times) /\ Len(Public!LastOf(Append(s, uNow))) <= Limit
  <2>1. Append(s, uNow) \in Seq(Public!Times) /\ Len(Append(s, uNow)) = Len(s) + 1 /\ Append(s, uNow) # <<>>
    BY <1>1, <1>2
  <2>2. PICK q : q = Append(s, uNow)
    OBVIOUS
  <2>3. Tail(q) \in Seq(Public!Times) /\ Len(Tail(q)) = Len(q) - 1
    BY <2>1, <2>2
  <2> QED BY <1>2, <2>1, <2>2, <2>3, PublicNumbers DEF Public!LastOf
<1> QED BY <1>1, <1>2, FailuresAreSequences

LEMMA PublicInit == Public!Init => PublicInv
<1> SUFFICES ASSUME Public!Init PROVE PublicInv
  OBVIOUS
<1>1. <<>> \in Failures
  BY NoFailures
<1>2. Valid(sessions, uNow) = {} /\ Valid(disk, uNow) = {}
  BY DEF Public!Init, Valid
<1>3. Public!TypeOK
  <2>1. failed \in [Clients -> Failures]
    BY <1>1 DEF Public!Init
  <2>2. 0 \in Public!Times /\ 0 \in 0..MaxJobs /\ 0 \in 0..PublicTime /\ 0 \in 0..PublicKills
    BY PublicNumbers DEF Public!Times
  <2> QED BY <2>1, <2>2 DEF Public!Init, Public!TypeOK, Failures
<1>4. ToldIsSaved
  BY DEF Public!Init, ToldIsSaved
<1>5. LoginsCounted
  <2>1. Cardinality({}) <= MaxActive
    BY FS_EmptySet, PublicNumbers
  <2> QED BY <1>2, <2>1 DEF Public!Init, LoginsCounted
<1>6. PendingWereMade
  BY DEF Public!Init, PendingWereMade
<1> QED BY <1>3, <1>4, <1>5, <1>6 DEF PublicInv

LEMMA LoginBeginsStep == ASSUME PublicInv, NEW c \in Clients, Public!LoginBegins(c) PROVE PublicInv'
<1>1. UNCHANGED <<uNow, up, sessions, disk, told, service, made, uPending, holds, kills>> /\ up = "up"
  BY DEF Public!LoginBegins
<1>2. Public!TypeOK /\ ToldIsSaved /\ LoginsCounted /\ PendingWereMade /\ <<>> \in Failures /\ failed \in [Clients -> Failures]
  <2>1. failed \in [Clients -> Failures]
    BY DEF PublicInv, Public!TypeOK, Failures
  <2> QED BY <2>1, NoFailures DEF PublicInv
<1>3. failed' \in [Clients -> Failures] /\ login' \in Public!Logins \cup {None} /\ sweep' \in (SUBSET Sessions) \cup {None}
      /\ (login' # None => login'.at <= uNow)
  <2>1. CASE \E f \in Public!Forgotten([failed EXCEPT ![c] = Public!LastOf(Append(Public!Recent(c), uNow))]) : failed' = f
             /\ UNCHANGED <<login, sweep>>
    <3>1. PICK g : g = [failed EXCEPT ![c] = Public!LastOf(Append(Public!Recent(c), uNow))]
      OBVIOUS
    <3>2. g \in [Clients -> Failures]
      BY <1>2, <3>1, FailureCounted
    <3>3. failed' \in Public!Forgotten(g)
      BY <2>1, <3>1
    <3>4. failed' \in [Clients -> Failures]
      BY <1>2, <3>2, <3>3 DEF Public!Forgotten
    <3> QED BY <1>2, <2>1, <3>4 DEF Public!TypeOK, LoginsCounted
  <2>2. ASSUME NEW d \in {e \in Sessions : told[e] > 0} \cup {None},
               login' = [client |-> c, resume |-> d, at |-> uNow],
               failed' = [failed EXCEPT ![c] = <<>>], sweep' = Public!Running
        PROVE  /\ failed' \in [Clients -> Failures] /\ login' \in Public!Logins \cup {None}
               /\ sweep' \in (SUBSET Sessions) \cup {None} /\ login'.at <= uNow
    <3>1. uNow \in Public!Times /\ uNow <= uNow
      BY <1>2, PublicNumbers DEF Public!TypeOK, Public!Times
    <3> QED BY <1>2, <2>2, <3>1 DEF Public!Logins, Public!Running
  <2> QED BY <2>1, <2>2 DEF Public!LoginBegins
<1>4. Public!TypeOK'
  BY <1>1, <1>2, <1>3 DEF Public!TypeOK, Failures
<1> QED BY <1>1, <1>2, <1>3, <1>4 DEF PublicInv, ToldIsSaved, LoginsCounted, Valid, PendingWereMade

LEMMA CleanupStep ==
    ASSUME PublicInv, Public!ReaperBegins \/ Public!SweepEnds \/ Public!Resume \/ \E d \in Sessions : Public!Cleanup(d)
    PROVE  PublicInv'
<1>1. Public!TypeOK /\ ToldIsSaved /\ LoginsCounted /\ PendingWereMade
  BY DEF PublicInv
<1>2. UNCHANGED <<uNow, up, sessions, disk, told, made, uPending, holds, failed, kills>>
      /\ login' \in {login, None}
  BY DEF Public!ReaperBegins, Public!SweepEnds, Public!Resume, Public!Cleanup, Public!Visit, Public!Closed
<1>3. sweep' \in (SUBSET Sessions) \cup {None}
  BY <1>1 DEF Public!ReaperBegins, Public!SweepEnds, Public!Resume, Public!Cleanup, Public!Visit, Public!Closed,
     Public!TypeOK, Public!Running
<1>4. service' \in [Sessions -> {"absent", "running", "closing"}]
  BY <1>1 DEF Public!ReaperBegins, Public!SweepEnds, Public!Resume, Public!Cleanup, Public!Visit, Public!Closed,
     Public!TypeOK, Public!WithService
<1>5. Public!TypeOK'
  BY <1>1, <1>2, <1>3, <1>4 DEF Public!TypeOK
<1> QED BY <1>1, <1>2, <1>5 DEF PublicInv, ToldIsSaved, LoginsCounted, Valid, PendingWereMade

\* One more session: there was room for it when its login began.
LEMMA CreateStep == ASSUME PublicInv, Public!Create PROVE PublicInv'
<1>1. Public!TypeOK /\ ToldIsSaved /\ LoginsCounted /\ PendingWereMade
  BY DEF PublicInv
<1>2. /\ UNCHANGED <<uNow, up, made, uPending, holds, failed, kills>> /\ login' = None /\ sweep' = None /\ login # None
  BY DEF Public!Create
<1>3. CASE UNCHANGED <<sessions, disk, told, service>>
  <2>1. Public!TypeOK'
    BY <1>1, <1>2, <1>3 DEF Public!TypeOK
  <2> QED BY <1>1, <1>2, <1>3, <2>1 DEF PublicInv, ToldIsSaved, LoginsCounted, Valid, PendingWereMade
<1>4. ASSUME NEW d \in Public!Undrawn, Public!HasRoom,
             sessions' = [sessions EXCEPT ![d] = login.at + Lifetime],
             disk' \in {disk, sessions'}, service' \in {service, Public!WithService(d)},
             told' = told \/ (disk' = sessions' /\ told' = [told EXCEPT ![d] = login.at + Lifetime])
      PROVE  PublicInv'
  <2>1. /\ d \in Sessions /\ sessions[d] = 0 /\ disk[d] = 0 /\ up # "down"
        /\ login.at \in Nat /\ login.at <= uNow /\ login.at + Lifetime \in Public!Times /\ login.at + Lifetime > 0
    <3>1. d \in Sessions /\ sessions[d] = 0 /\ disk[d] = 0 /\ up # "down" /\ login.at <= uNow
      BY <1>1, <1>2, <1>4 DEF Public!Undrawn, LoginsCounted
    <3>2. login.at \in Public!Times /\ uNow \in 0..PublicTime
      BY <1>1, <1>2 DEF Public!TypeOK, Public!Logins
    <3> QED BY <3>1, <3>2, PublicNumbers DEF Public!Times
  <2>2. told[d] = 0
    BY <1>1, <2>1 DEF ToldIsSaved, Public!TypeOK, Public!Times
  <2>3. /\ sessions' \in [Sessions -> Public!Times] /\ disk' \in [Sessions -> Public!Times]
        /\ told' \in [Sessions -> Public!Times]
        /\ \A e \in Sessions : sessions'[e] = IF e = d THEN login.at + Lifetime ELSE sessions[e]
        /\ \A e \in Sessions : told'[e] = told[e] \/ (e = d /\ told'[e] = sessions'[e] /\ disk' = sessions')
    <3> DEFINE x == login.at + Lifetime
    <3>1. /\ sessions \in [Sessions -> Public!Times] /\ disk \in [Sessions -> Public!Times]
          /\ told \in [Sessions -> Public!Times]
      BY <1>1 DEF Public!TypeOK
    <3>2. x \in Public!Times /\ d \in Sessions
      BY <2>1
    <3>3. /\ sessions' = [sessions EXCEPT ![d] = x] /\ disk' \in {disk, sessions'}
          /\ told' = told \/ (disk' = sessions' /\ told' = [told EXCEPT ![d] = x])
      BY <1>4
    <3> HIDE DEF x
    <3>4. /\ sessions' \in [Sessions -> Public!Times] /\ disk' \in [Sessions -> Public!Times]
          /\ told' \in [Sessions -> Public!Times]
      BY <3>1, <3>2, <3>3
    <3>5. \A e \in Sessions : sessions'[e] = IF e = d THEN x ELSE sessions[e]
      BY <3>1, <3>2, <3>3
    <3>6. \A e \in Sessions : told'[e] = told[e] \/ (e = d /\ told'[e] = sessions'[e] /\ disk' = sessions')
      BY <3>1, <3>2, <3>3, <3>5
    <3> QED BY <3>4, <3>5, <3>6 DEF x
  <2>4. service' \in [Sessions -> {"absent", "running", "closing"}]
    BY <1>1, <1>4, <2>1 DEF Public!TypeOK, Public!WithService
  <2>5. Public!TypeOK'
    BY <1>1, <1>2, <2>3, <2>4 DEF Public!TypeOK
  <2>6. ToldIsSaved'
    <3>1. \A e \in Sessions : told'[e] > 0 => disk'[e] = told'[e] /\ sessions'[e] = told'[e]
      BY <1>1, <1>4, <2>1, <2>2, <2>3 DEF ToldIsSaved
    <3>2. \A e \in Sessions : told[e] > 0 => told'[e] > 0
      BY <2>2, <2>3
    <3>3. \A r \in Requests : holds[r] # None => holds[r] \in Sessions
      BY <1>1 DEF Public!TypeOK
    <3> QED BY <1>1, <1>2, <3>1, <3>2, <3>3 DEF ToldIsSaved
  <2>7. Cardinality(Valid(sessions, login.at) \cup {d}) <= MaxActive
    <3>1. Valid(sessions, login.at) = {e \in Sessions : sessions[e] > login.at}
      BY DEF Valid
    <3>2. Cardinality(Valid(sessions, login.at)) < MaxActive
      BY <1>4, <3>1, PublicCardinality DEF Public!HasRoom, Public!ActiveAt
    <3>3. IsFiniteSet(Valid(sessions, login.at)) /\ Cardinality(Valid(sessions, login.at)) \in Nat
      BY <3>1, PublicNumbers, FS_Subset, FS_CardinalityType
    <3>4. d \notin Valid(sessions, login.at)
      BY <2>1 DEF Valid
    <3>5. Cardinality(Valid(sessions, login.at) \cup {d}) = Cardinality(Valid(sessions, login.at)) + 1
      BY <3>3, <3>4, FS_AddElement
    <3> QED BY <3>2, <3>3, <3>5, PublicNumbers
  <2>8. Valid(sessions', uNow') \subseteq Valid(sessions, login.at) \cup {d}
    BY <1>1, <1>2, <2>1, <2>3 DEF Valid, Public!TypeOK, Public!Times
  <2>9. Valid(sessions, login.at) \cup {d} \in SUBSET Sessions
    BY <2>1 DEF Valid
  <2>10. Cardinality(Valid(sessions', uNow')) <= MaxActive
    <3>1. PICK S : S = Valid(sessions, login.at) \cup {d}
      OBVIOUS
    <3>2. PICK T : T = Valid(sessions', uNow')
      OBVIOUS
    <3>3. Cardinality(T) <= Cardinality(S) /\ Cardinality(S) \in Nat /\ Cardinality(S) <= MaxActive
          /\ Cardinality(T) \in Nat
      BY <2>7, <2>8, <2>9, <3>1, <3>2, FewerValid
    <3> QED BY <3>2, <3>3, PublicNumbers
  <2>11. Cardinality(Valid(disk', uNow')) <= MaxActive
    <3>1. CASE disk' = disk
      BY <1>1, <1>2, <3>1 DEF LoginsCounted, Valid
    <3>2. CASE disk' = sessions'
      BY <2>10, <3>2
    <3> QED BY <1>4, <3>1, <3>2
  <2>12. LoginsCounted'
    BY <1>2, <2>10, <2>11 DEF LoginsCounted, Valid
  <2>13. PendingWereMade'
    BY <1>1, <1>2 DEF PendingWereMade
  <2> QED BY <2>5, <2>6, <2>12, <2>13 DEF PublicInv
<1> QED BY <1>3, <1>4 DEF Public!Create, Public!Saved

LEMMA RequestStep ==
    ASSUME PublicInv, NEW r \in Requests, Public!CreateJob(r) \/ \E d \in Sessions : Public!Authenticate(r, d)
    PROVE  PublicInv'
<1>1. Public!TypeOK /\ ToldIsSaved /\ LoginsCounted /\ PendingWereMade
  BY DEF PublicInv
<1>2. CASE Public!CreateJob(r)
  <2>1. /\ UNCHANGED <<uNow, up, sessions, disk, told, service, login, sweep, failed, kills>>
        /\ holds[r] # None /\ holds[r] \in Sessions /\ holds' = [holds EXCEPT ![r] = None]
    BY <1>1, <1>2 DEF Public!CreateJob, Public!TypeOK
  <2>2. made[holds[r]] \in 0..MaxJobs /\ uPending[holds[r]] \in 0..MaxJobs
    BY <1>1, <2>1 DEF Public!TypeOK
  <2>3. ToldIsSaved'
    <3>1. \A d \in Sessions : uPending'[d] > 0 => uPending[d] > 0 \/ d = holds[r]
      BY <1>1, <1>2, <2>1 DEF Public!CreateJob, Public!TypeOK
    <3>2. \A q \in Requests : holds'[q] # None => holds[q] # None /\ holds'[q] = holds[q]
      BY <1>1, <2>1 DEF Public!TypeOK
    <3> QED BY <1>1, <2>1, <3>1, <3>2 DEF ToldIsSaved
  <2>4. LoginsCounted'
    BY <1>1, <2>1 DEF LoginsCounted, Valid
  <2>5. CASE made[holds[r]] >= MaxJobs
    <3>1. UNCHANGED <<made, uPending>>
      BY <1>2, <2>5 DEF Public!CreateJob
    <3>2. Public!TypeOK'
      BY <1>1, <2>1, <3>1 DEF Public!TypeOK
    <3> QED BY <1>1, <2>3, <2>4, <3>1, <3>2 DEF PublicInv, PendingWereMade
  <2>6. CASE ~(made[holds[r]] >= MaxJobs)
    <3>1. made' = [made EXCEPT ![holds[r]] = @ + 1] /\ uPending' = [uPending EXCEPT ![holds[r]] = @ + 1]
      BY <1>2, <2>6 DEF Public!CreateJob
    <3>2. uPending[holds[r]] <= made[holds[r]]
      BY <1>1, <2>1 DEF PendingWereMade
    <3>3. Public!TypeOK'
      BY <1>1, <2>1, <2>2, <2>6, <3>1, <3>2, PublicNumbers DEF Public!TypeOK
    <3>4. PendingWereMade'
      BY <1>1, <2>1, <3>1 DEF PendingWereMade, Public!TypeOK
    <3> QED BY <2>3, <2>4, <3>3, <3>4 DEF PublicInv
  <2> QED BY <2>5, <2>6
<1>3. ASSUME NEW d \in Sessions, Public!Authenticate(r, d) PROVE PublicInv'
  <2>1. /\ UNCHANGED <<uNow, up, sessions, disk, told, made, uPending, login, sweep, failed, kills>>
        /\ told[d] > 0 /\ holds' \in {holds, [holds EXCEPT ![r] = d]}
        /\ service' \in {service, Public!WithService(d)}
    BY <1>3 DEF Public!Authenticate
  <2>2. Public!TypeOK'
    <3>1. service' \in [Sessions -> {"absent", "running", "closing"}]
      BY <1>1, <2>1 DEF Public!TypeOK, Public!WithService
    <3>2. holds' \in [Requests -> Sessions \cup {None}]
      BY <1>1, <2>1 DEF Public!TypeOK
    <3> QED BY <1>1, <2>1, <3>1, <3>2 DEF Public!TypeOK
  <2>3. ToldIsSaved'
    BY <1>1, <2>1 DEF ToldIsSaved, Public!TypeOK
  <2> QED BY <1>1, <2>1, <2>2, <2>3 DEF PublicInv, LoginsCounted, Valid, PendingWereMade
<1> QED BY <1>2, <1>3

LEMMA JobEndsStep == ASSUME PublicInv, NEW d \in Sessions, Public!JobEnds(d) PROVE PublicInv'
<1>1. Public!TypeOK /\ ToldIsSaved /\ LoginsCounted /\ PendingWereMade
  BY DEF PublicInv
<1>2. /\ UNCHANGED <<uNow, up, sessions, disk, told, service, made, login, sweep, holds, failed, kills>>
      /\ uPending' = [uPending EXCEPT ![d] = @ - 1] /\ uPending[d] > 0
  BY DEF Public!JobEnds
<1>3. uPending[d] - 1 \in 0..MaxJobs
  BY <1>1, <1>2, PublicNumbers DEF Public!TypeOK
<1>4. Public!TypeOK'
  BY <1>1, <1>2, <1>3 DEF Public!TypeOK
<1>5. ToldIsSaved' /\ PendingWereMade'
  BY <1>1, <1>2 DEF ToldIsSaved, PendingWereMade, Public!TypeOK
<1>6. LoginsCounted'
  BY <1>1, <1>2 DEF LoginsCounted, Valid
<1> QED BY <1>4, <1>5, <1>6 DEF PublicInv

\* The process stops or is killed: memory goes, the file stays.
LEMMA GoneStep ==
    ASSUME PublicInv, Public!ClosingEnds \/ Public!Kill \/ Public!ClosingBegins PROVE PublicInv'
<1>1. Public!TypeOK /\ ToldIsSaved /\ LoginsCounted /\ PendingWereMade
  BY DEF PublicInv
<1>2. CASE Public!ClosingBegins
  BY <1>1, <1>2 DEF Public!ClosingBegins, Public!TypeOK, PublicInv, ToldIsSaved, LoginsCounted, Valid, PendingWereMade
<1>3. CASE Public!ClosingEnds \/ Public!Kill
  <2>1. /\ up' = "down" /\ service' = [d \in Sessions |-> "absent"] /\ login' = None /\ sweep' = None
        /\ holds' = [r \in Requests |-> None] /\ failed' = [c \in Clients |-> <<>>]
        /\ sessions' = [d \in Sessions |-> 0] /\ kills' \in 0..PublicKills
        /\ UNCHANGED <<uNow, disk, told, made, uPending>>
    BY <1>1, <1>3, PublicNumbers DEF Public!ClosingEnds, Public!Kill, Public!Gone, Public!TypeOK
  <2>2. failed' \in [Clients -> Failures] /\ 0 \in Public!Times
    BY <2>1, NoFailures, PublicNumbers DEF Public!Times
  <2>3. Public!TypeOK'
    BY <1>1, <2>1, <2>2 DEF Public!TypeOK, Failures
  <2>4. ToldIsSaved' /\ PendingWereMade'
    BY <1>1, <2>1 DEF ToldIsSaved, PendingWereMade
  <2>5. Valid(sessions', uNow') = {} /\ Valid(disk', uNow') = Valid(disk, uNow)
    BY <1>1, <2>1 DEF Valid, Public!TypeOK
  <2>6. Cardinality({}) <= MaxActive
    BY FS_EmptySet, PublicNumbers
  <2>7. LoginsCounted'
    BY <1>1, <2>1, <2>5, <2>6 DEF LoginsCounted, Valid
  <2> QED BY <2>3, <2>4, <2>7 DEF PublicInv
<1> QED BY <1>2, <1>3

LEMMA StartStep == ASSUME PublicInv, Public!Start PROVE PublicInv'
<1>1. Public!TypeOK /\ ToldIsSaved /\ LoginsCounted /\ PendingWereMade
  BY DEF PublicInv
<1>2. /\ up' = "up" /\ sessions' = disk
      /\ service' = [d \in Sessions |-> IF Public!Restored(d) THEN "running" ELSE "absent"] /\ up = "down"
      /\ UNCHANGED <<uNow, disk, told, made, uPending, login, sweep, holds, failed, kills>>
  BY DEF Public!Start
<1>3. Public!TypeOK'
  BY <1>1, <1>2 DEF Public!TypeOK
<1> QED BY <1>1, <1>2, <1>3 DEF PublicInv, ToldIsSaved, LoginsCounted, Valid, PendingWereMade

LEMMA TickStep == ASSUME PublicInv, Public!Tick PROVE PublicInv'
<1>1. Public!TypeOK /\ ToldIsSaved /\ LoginsCounted /\ PendingWereMade
  BY DEF PublicInv
<1>2. /\ uNow < PublicTime /\ uNow' = uNow + 1
      /\ UNCHANGED <<up, sessions, disk, told, service, made, uPending, login, sweep, holds, failed, kills>>
  BY DEF Public!Tick
<1>3. Public!TypeOK'
  BY <1>1, <1>2, PublicNumbers DEF Public!TypeOK
<1>4. ASSUME NEW f \in [Sessions -> Nat], Cardinality(Valid(f, uNow)) <= MaxActive
      PROVE  Cardinality(Valid(f, uNow + 1)) <= MaxActive
  <2>1. Valid(f, uNow + 1) \subseteq Valid(f, uNow) /\ Valid(f, uNow) \in SUBSET Sessions
    BY <1>1 DEF Valid, Public!TypeOK
  <2>2. Cardinality(Valid(f, uNow + 1)) <= Cardinality(Valid(f, uNow)) /\ Cardinality(Valid(f, uNow)) \in Nat
        /\ Cardinality(Valid(f, uNow + 1)) \in Nat
    BY <2>1, FewerValid
  <2> QED BY <1>4, <2>2, PublicNumbers
<1>5. sessions \in [Sessions -> Nat] /\ disk \in [Sessions -> Nat]
  BY <1>1, PublicNumbers DEF Public!TypeOK, Public!Times
<1>6. LoginsCounted'
  <2>1. Cardinality(Valid(sessions, uNow + 1)) <= MaxActive /\ Cardinality(Valid(disk, uNow + 1)) <= MaxActive
    BY <1>1, <1>4, <1>5 DEF LoginsCounted
  <2>2. login # None => login.at <= uNow + 1
    BY <1>1, PublicNumbers DEF LoginsCounted, Public!TypeOK, Public!Logins, Public!Times
  <2> QED BY <1>1, <1>2, <2>1, <2>2 DEF LoginsCounted, Valid
<1> QED BY <1>1, <1>2, <1>3, <1>6 DEF PublicInv, ToldIsSaved, PendingWereMade

LEMMA PublicStep == PublicInv /\ (Public!Next \/ UNCHANGED public) => PublicInv'
<1>1. ASSUME PublicInv, UNCHANGED public PROVE PublicInv'
  BY <1>1 DEF public, PublicInv, Public!TypeOK, ToldIsSaved, LoginsCounted, Valid, PendingWereMade
<1> QED BY <1>1, LoginBeginsStep, CleanupStep, CreateStep, RequestStep, JobEndsStep, GoneStep, StartStep, TickStep
        DEF Public!Next, Public!Serving

LEMMA PublicInvariance == EachSpec => []PublicInv
<1>1. EachInit => PublicInv
  BY PublicInit DEF EachInit
<1>2. PublicInv /\ [EachNext]_every => PublicInv'
  <2>1. EachNext => Public!Next \/ UNCHANGED public
    BY DEF EachNext, public
  <2>2. UNCHANGED every => UNCHANGED public
    BY DEF every
  <2> QED BY <2>1, <2>2, PublicStep
<1> QED BY <1>1, <1>2, PTL DEF EachSpec

LEMMA PublicPromises == PublicInv => Public!TypeOK /\ Public!ToldIsKept /\ Public!SessionsBounded
<1>1. PublicInv => Public!TypeOK /\ Public!ToldIsKept
  BY DEF PublicInv, ToldIsSaved, Public!ToldIsKept
<1>2. PublicInv => Public!SessionsBounded
  BY PublicCardinality DEF PublicInv, LoginsCounted, Public!SessionsBounded, Valid
<1> QED BY <1>1, <1>2

\* Only the reaper's and a login's visit closes a service, and a start brings
\* back every session with work: its session is in the file.
LEMMA PublicServices ==
    PublicInv /\ [EachNext]_every =>
        /\ [\A d \in Sessions : service[d] = "running" /\ service'[d] = "closing" => uPending[d] = 0]_(Public!vars)
        /\ [up = "down" /\ up' = "up" => \A d \in Sessions : uPending[d] > 0 => service'[d] = "running"]_(Public!vars)
<1> SUFFICES ASSUME PublicInv, Public!Next
             PROVE  /\ \A d \in Sessions : service[d] = "running" /\ service'[d] = "closing" => uPending[d] = 0
                    /\ up = "down" /\ up' = "up" => \A d \in Sessions : uPending[d] > 0 => service'[d] = "running"
  BY DEF EachNext, every, public, Public!vars
<1>1. Public!TypeOK /\ ToldIsSaved
  BY DEF PublicInv
<1>2. ASSUME NEW e \in Sessions, Public!Visit(e)
      PROVE  \A d \in Sessions : service[d] = "running" /\ service'[d] = "closing" => uPending[d] = 0
  BY <1>1, <1>2 DEF Public!Visit, Public!TypeOK, Public!Idle
<1>3. ASSUME NEW e \in Sessions, service' = Public!WithService(e) \/ service' = [service EXCEPT ![e] = "absent"]
      PROVE  \A d \in Sessions : service[d] = "running" => service'[d] # "closing"
  BY <1>1, <1>3 DEF Public!WithService, Public!TypeOK
<1>4. CASE Public!Resume
  <2>1. service' = service \/ (service' = Public!WithService(login.resume) /\ login.resume \in Sessions)
    BY <1>1, <1>4 DEF Public!Resume, Public!TypeOK, Public!Logins
  <2>2. UNCHANGED up
    BY <1>4 DEF Public!Resume
  <2> QED BY <1>3, <2>1, <2>2
<1>5. CASE Public!Create
  <2>1. service' = service \/ \E d \in Sessions : service' = Public!WithService(d)
    BY <1>5 DEF Public!Create, Public!Undrawn
  <2>2. UNCHANGED up
    BY <1>5 DEF Public!Create
  <2> QED BY <1>3, <2>1, <2>2
<1>6. ASSUME NEW r \in Requests, NEW d \in Sessions, Public!Authenticate(r, d)
      PROVE  (service' = service \/ service' = Public!WithService(d)) /\ UNCHANGED up
  BY <1>6 DEF Public!Authenticate
<1>7. CASE Public!Start
  BY <1>1, <1>7 DEF Public!Start, Public!Restored, ToldIsSaved, Public!TypeOK
<1>8. CASE Public!ClosingEnds \/ Public!Kill
  BY <1>8 DEF Public!ClosingEnds, Public!Kill, Public!Gone
<1>9. ASSUME NEW e \in Sessions, Public!Visit(e) PROVE UNCHANGED up
  BY <1>9 DEF Public!Visit
<1>10. ASSUME NEW e \in Sessions, Public!Closed(e) PROVE UNCHANGED up /\ service' = [service EXCEPT ![e] = "absent"]
  BY <1>10 DEF Public!Closed
<1>11. ASSUME NEW e \in Sessions, Public!JobEnds(e) PROVE UNCHANGED <<up, service>>
  BY <1>11 DEF Public!JobEnds
<1>12. ASSUME NEW r \in Requests, Public!CreateJob(r) PROVE UNCHANGED <<up, service>>
  BY <1>12 DEF Public!CreateJob
<1>13. CASE \/ \E c \in Clients : Public!LoginBegins(c)
            \/ Public!ReaperBegins \/ Public!SweepEnds \/ Public!ClosingBegins \/ Public!Tick
  BY <1>13 DEF Public!LoginBegins, Public!ReaperBegins, Public!SweepEnds, Public!ClosingBegins, Public!Tick
<1> QED BY <1>2, <1>3, <1>4, <1>5, <1>6, <1>7, <1>8, <1>9, <1>10, <1>11, <1>12, <1>13
        DEF Public!Next, Public!Serving, Public!Cleanup

-----------------------------------------------------------------------------
(* Releases. *)

\* The step works on a role of the order.
AtARole ==
    /\ lAt \in {"read", "stage", "check", "record", "promote", "confirm", "smoke", "undo", "verify"} => i \in 1..Len(Order)
    /\ lAt = "look" => i \in 0..Len(Order)

\* Only a touched role serves its candidate, and it is on record; one put back does
\* so only when the promotion landed late.
TouchedOnRecord ==
    /\ report.status # "torn" => report.attempted = touched
    /\ \A r \in Rollout!Roles : alias[r] = "candidate" => r \in touched /\ (r \in restored => r \in late)
    /\ lAt \in {"promote", "undo", "verify"} => Order[i] \in touched
    /\ lAt \in {"build", "read", "stage", "check"} => touched = {}
    /\ lAt \notin {"look", "undo", "verify", "end", "cancelled"} => restored = {}
    /\ restored \subseteq touched

\* What the service was sent is of touched roles, and up to the first failure a promotion.
SentRequests ==
    /\ \A r \in Rollout!Roles, b \in Rollout!Builds : <<r, b>> \in underway =>
          r \in touched /\ b \in {"candidate", before[r]}
    /\ lAt \in {"record", "promote", "confirm", "smoke"} \/ report.status = "deployed" =>
          \A r \in Rollout!Roles, b \in Rollout!Builds : <<r, b>> \in underway => b = "candidate"

\* What is put back is what was read, and never a candidate.
ReadBefore ==
    /\ \A r \in Rollout!Roles : before[r] # "candidate"
    /\ lAt = "read" => \A k \in 1..(i - 1) : before[Order[k]] # "unknown"
    /\ lAt \notin {"build", "read", "end", "cancelled"} => \A r \in Rollout!Roles : before[r] # "unknown"
    /\ outside = 0 => \A r \in Rollout!Roles :
          /\ before[r] \in {"previous", "unknown"}
          /\ r \notin touched => alias[r] = "previous"
          /\ r \in restored \ late => alias[r] = before[r]

\* The report is of the end.
ReportAtEnd ==
    /\ lAt \notin {"end", "cancelled"} => report.status = "preflight"
    /\ report.status = "rolled_back" => restored = touched /\ \A r \in Rollout!Roles : before[r] # "unknown"
    /\ outside = 0 =>
          /\ lAt = "confirm" => \A k \in 1..(i - 1) : alias[Order[k]] = "candidate"
          /\ lAt = "smoke" \/ report.status = "deployed" => \A r \in Rollout!Roles : alias[r] = "candidate"

ReleaseInv == Rollout!TypeOK /\ AtARole /\ TouchedOnRecord /\ SentRequests /\ ReadBefore /\ ReportAtEnd

LEMMA ReleaseRoles ==
    /\ Len(Order) \in Nat /\ Len(Order) >= 1 /\ MaxOutside \in Nat
    /\ \A k \in 1..Len(Order) : Order[k] \in Rollout!Roles
    /\ \A r \in Rollout!Roles : \E k \in 1..Len(Order) : r = Order[k]
<1>1. Order \in Seq(Rollout!Roles) /\ Order # <<>> /\ MaxOutside \in Nat
  BY PartsAssumption DEF Rollout!Parameters
<1>2. DOMAIN Order = 1..Len(Order) /\ Len(Order) \in Nat /\ Len(Order) >= 1
  BY <1>1
<1> QED BY <1>1, <1>2 DEF Rollout!Roles

LEMMA ReleaseInit == Rollout!Init => ReleaseInv
BY ReleaseRoles DEF Rollout!Init, ReleaseInv, Rollout!TypeOK, AtARole, TouchedOnRecord, SentRequests, ReadBefore,
    ReportAtEnd,
   Rollout!Steps, Rollout!Builds

\* The steps before the first promotion change no role.
LEMMA PreparingStep ==
    ASSUME ReleaseInv, Rollout!GiveUp \/ Rollout!Build \/ Rollout!ReadPrevious \/ Rollout!Stage \/ Rollout!Check
    PROVE  ReleaseInv'
<1>1. Rollout!TypeOK /\ AtARole /\ TouchedOnRecord /\ SentRequests /\ ReadBefore /\ ReportAtEnd
  BY DEF ReleaseInv
<1>2. CASE Rollout!GiveUp
  <2>1. /\ lAt \in {"build", "read", "stage", "check"} /\ lAt' = "end" /\ i' = 1
        /\ report' = [report EXCEPT !.status = "failed_before_promotion"]
        /\ UNCHANGED <<alias, underway, late, before, staged, touched, restored, head, outside>>
    BY <1>2 DEF Rollout!GiveUp, Rollout!hosting, Rollout!To
  <2>2. report'.attempted = report.attempted /\ report'.status = "failed_before_promotion"
    BY <1>1, <2>1 DEF Rollout!TypeOK
  <2>3. Rollout!TypeOK' /\ AtARole'
    BY <1>1, <2>1, ReleaseRoles DEF Rollout!TypeOK, AtARole, Rollout!Steps
  <2>4. TouchedOnRecord' /\ SentRequests' /\ ReadBefore' /\ ReportAtEnd'
    BY <1>1, <2>1, <2>2 DEF TouchedOnRecord, SentRequests, ReadBefore, ReportAtEnd
  <2> QED BY <2>3, <2>4 DEF ReleaseInv
<1>3. CASE Rollout!Build
  BY <1>1, <1>3, ReleaseRoles DEF Rollout!Build, Rollout!hosting, Rollout!To, ReleaseInv, Rollout!TypeOK,
      AtARole, TouchedOnRecord, SentRequests,
     ReadBefore, ReportAtEnd, Rollout!Steps
<1>4. CASE Rollout!ReadPrevious
  <2>1. /\ lAt = "read" /\ i \in 1..Len(Order) /\ before' = [before EXCEPT ![Order[i]] = alias[Order[i]]]
        /\ (lAt' = "read" /\ i' = i + 1 /\ i < Len(Order)) \/ (lAt' = "stage" /\ i' = 1 /\ i = Len(Order))
        /\ UNCHANGED <<alias, underway, late, staged, touched, restored, report, head, outside>>
    BY <1>1, <1>4, ReleaseRoles DEF Rollout!ReadPrevious, Rollout!hosting, Rollout!Role, Rollout!To, AtARole
  <2>2. Order[i] \in Rollout!Roles /\ alias[Order[i]] \in {"previous", "other"} /\ touched = {}
        /\ (outside = 0 => alias[Order[i]] = "previous")
    BY <1>1, <2>1, ReleaseRoles DEF TouchedOnRecord, ReadBefore, Rollout!TypeOK, Rollout!Builds
  <2>3. \A r \in Rollout!Roles : before'[r] = IF r = Order[i] THEN alias[Order[i]] ELSE before[r]
    BY <1>1, <2>1 DEF Rollout!TypeOK
  <2>4. Rollout!TypeOK' /\ AtARole' /\ TouchedOnRecord' /\ SentRequests' /\ ReportAtEnd'
    BY <1>1, <2>1, <2>2, <2>3, ReleaseRoles
    DEF Rollout!TypeOK, AtARole, TouchedOnRecord, SentRequests, ReportAtEnd, Rollout!Steps, Rollout!Builds
  <2>5. \A k \in 1..i : before'[Order[k]] # "unknown"
    BY <1>1, <2>1, <2>2, <2>3, ReleaseRoles DEF ReadBefore
  <2>6. ReadBefore'
    BY <1>1, <2>1, <2>2, <2>3, <2>5, ReleaseRoles DEF ReadBefore, TouchedOnRecord
  <2> QED BY <2>4, <2>6 DEF ReleaseInv
<1>5. CASE Rollout!Stage
  <2>1. Order[i] \in Rollout!Roles
    BY <1>1, <1>5, ReleaseRoles DEF Rollout!Stage, Rollout!hosting, AtARole
  <2> QED BY <1>1, <1>5, <2>1, ReleaseRoles DEF Rollout!Stage, Rollout!hosting, Rollout!Role, Rollout!To,
      ReleaseInv, Rollout!TypeOK,
     AtARole, TouchedOnRecord, SentRequests, ReadBefore, ReportAtEnd, Rollout!Steps
<1>6. CASE Rollout!Check
  BY <1>1, <1>6, ReleaseRoles DEF Rollout!Check, Rollout!hosting, Rollout!To, ReleaseInv, Rollout!TypeOK,
      AtARole, TouchedOnRecord, SentRequests,
     ReadBefore, ReportAtEnd, Rollout!Steps
<1> QED BY <1>2, <1>3, <1>4, <1>5, <1>6

LEMMA PromotingStep ==
    ASSUME ReleaseInv, Rollout!Record \/ Rollout!Promote \/ Rollout!Confirm \/ Rollout!Smoke
    PROVE  ReleaseInv'
<1>1. Rollout!TypeOK /\ AtARole /\ TouchedOnRecord /\ SentRequests /\ ReadBefore /\ ReportAtEnd
  BY DEF ReleaseInv
<1>2. CASE Rollout!Record
  <2>1. /\ lAt = "record" /\ lAt' = "promote" /\ i' = i /\ touched' = touched \cup {Order[i]}
        /\ report' = [report EXCEPT !.attempted = touched'] /\ Order[i] \in Rollout!Roles
        /\ UNCHANGED <<alias, underway, late, before, staged, restored, head, outside>>
    BY <1>1, <1>2, ReleaseRoles
    DEF Rollout!Record, Rollout!hosting, Rollout!Role, Rollout!To, Rollout!Attempts, AtARole
  <2>2. report'.attempted = touched' /\ report'.status = report.status
    BY <1>1, <2>1 DEF Rollout!TypeOK
  <2>3. Rollout!TypeOK'
    BY <1>1, <2>1, ReleaseRoles DEF Rollout!TypeOK, Rollout!Steps
  <2>4. AtARole' /\ TouchedOnRecord' /\ SentRequests' /\ ReadBefore' /\ ReportAtEnd'
    BY <1>1, <2>1, <2>2 DEF AtARole, TouchedOnRecord, SentRequests, ReadBefore, ReportAtEnd
  <2> QED BY <2>3, <2>4 DEF ReleaseInv
<1>3. CASE Rollout!Promote
  <2>1. /\ lAt = "promote" /\ i \in 1..Len(Order) /\ underway' = underway \cup {<<Order[i], "candidate">>}
        /\ \/ lAt' = "look" /\ i' = Len(Order)
           \/ lAt' = "record" /\ i' = i + 1 /\ i < Len(Order)
           \/ lAt' = "confirm" /\ i' = 1
        /\ UNCHANGED <<alias, late, before, staged, touched, restored, report, head, outside>>
        /\ Order[i] \in Rollout!Roles /\ Order[i] \in touched /\ restored = {}
    BY <1>1, <1>3, ReleaseRoles
    DEF Rollout!Promote, Rollout!Send, Rollout!Role, Rollout!To, Rollout!StartRollback, AtARole, TouchedOnRecord
  <2>2. Rollout!TypeOK' /\ AtARole'
    BY <1>1, <2>1, ReleaseRoles DEF Rollout!TypeOK, AtARole, Rollout!Steps, Rollout!Builds
  <2>3. SentRequests'
    BY <1>1, <2>1 DEF SentRequests
  <2>4. TouchedOnRecord' /\ ReadBefore' /\ ReportAtEnd'
    BY <1>1, <2>1 DEF TouchedOnRecord, SentRequests, ReadBefore, ReportAtEnd
  <2> QED BY <2>2, <2>3, <2>4 DEF ReleaseInv
<1>4. CASE Rollout!Confirm
  <2>1. /\ lAt = "confirm" /\ i \in 1..Len(Order)
        /\ \/ lAt' = "look" /\ i' = Len(Order)
           \/ lAt' = "confirm" /\ i' = i + 1 /\ i < Len(Order) /\ alias[Order[i]] = "candidate"
           \/ lAt' = "smoke" /\ i' = 1 /\ i = Len(Order) /\ alias[Order[i]] = "candidate"
        /\ UNCHANGED <<alias, underway, late, before, staged, touched, restored, report, head, outside>>
    BY <1>1, <1>4, ReleaseRoles
    DEF Rollout!Confirm, Rollout!hosting, Rollout!Role, Rollout!To, Rollout!StartRollback, AtARole
  <2>2. Rollout!TypeOK' /\ AtARole'
    BY <1>1, <2>1, ReleaseRoles DEF Rollout!TypeOK, AtARole, Rollout!Steps
  <2>3. TouchedOnRecord' /\ SentRequests' /\ ReadBefore'
    BY <1>1, <2>1 DEF TouchedOnRecord, SentRequests, ReadBefore
  <2>4. ReportAtEnd'
    BY <1>1, <2>1, ReleaseRoles DEF ReportAtEnd
  <2> QED BY <2>2, <2>3, <2>4 DEF ReleaseInv
<1>5. CASE Rollout!Smoke
  <2>1. /\ lAt = "smoke" /\ i \in 1..Len(Order)
        /\ \/ lAt' = "look" /\ i' = Len(Order) /\ UNCHANGED report
           \/ lAt' = "smoke" /\ i' = i + 1 /\ i < Len(Order) /\ UNCHANGED report
           \/ lAt' = "end" /\ i' = 1 /\ report' = [report EXCEPT !.status = "deployed"]
        /\ UNCHANGED <<alias, underway, late, before, staged, touched, restored, head, outside>>
    BY <1>1, <1>5, ReleaseRoles
    DEF Rollout!Smoke, Rollout!hosting, Rollout!To, Rollout!StartRollback, AtARole
  <2>2. /\ report'.attempted = report.attempted /\ report'.status \in {"preflight", "deployed"}
        /\ lAt' = "end" \/ report'.status = "preflight"
    BY <1>1, <2>1 DEF Rollout!TypeOK, ReportAtEnd
  <2>3. Rollout!TypeOK' /\ AtARole'
    BY <1>1, <2>1, ReleaseRoles DEF Rollout!TypeOK, AtARole, Rollout!Steps
  <2>4. TouchedOnRecord' /\ SentRequests' /\ ReadBefore' /\ ReportAtEnd'
    BY <1>1, <2>1, <2>2 DEF TouchedOnRecord, SentRequests, ReadBefore, ReportAtEnd
  <2> QED BY <2>3, <2>4 DEF ReleaseInv
<1> QED BY <1>2, <1>3, <1>4, <1>5

LEMMA UndoingStep ==
    ASSUME ReleaseInv, Rollout!Look \/ Rollout!Undo \/ Rollout!Verify \/ Rollout!RolledBack
    PROVE  ReleaseInv'
<1>1. Rollout!TypeOK /\ AtARole /\ TouchedOnRecord /\ SentRequests /\ ReadBefore /\ ReportAtEnd
  BY DEF ReleaseInv
<1>2. CASE Rollout!Look
  BY <1>1, <1>2, ReleaseRoles DEF Rollout!Look, Rollout!hosting, Rollout!NextDown, Rollout!To, Rollout!Role,
      ReleaseInv, Rollout!TypeOK,
     AtARole, TouchedOnRecord, SentRequests, ReadBefore, ReportAtEnd, Rollout!Steps
<1>3. CASE Rollout!Undo
  <2>1. /\ lAt = "undo" /\ i \in 1..Len(Order) /\ underway' = underway \cup {<<Order[i], before[Order[i]]>>}
        /\ (lAt' = "verify" /\ i' = i) \/ (lAt' = "look" /\ i' = i - 1)
        /\ UNCHANGED <<alias, late, before, staged, touched, restored, report, head, outside>>
        /\ Order[i] \in Rollout!Roles /\ Order[i] \in touched
    BY <1>1, <1>3, ReleaseRoles
    DEF Rollout!Undo, Rollout!Send, Rollout!Role, Rollout!To, Rollout!NextDown, AtARole, TouchedOnRecord
  <2>2. before[Order[i]] \in Rollout!Builds
    BY <1>1, <2>1 DEF ReadBefore, Rollout!TypeOK
  <2>3. AtARole' /\ Rollout!TypeOK'
    BY <1>1, <2>1, <2>2, ReleaseRoles DEF Rollout!TypeOK, AtARole, Rollout!Steps
  <2>4. report.status = "preflight"
    BY <1>1, <2>1 DEF ReportAtEnd
  <2>5. TouchedOnRecord' /\ SentRequests' /\ ReadBefore' /\ ReportAtEnd'
    BY <1>1, <2>1, <2>4 DEF TouchedOnRecord, SentRequests, ReadBefore, ReportAtEnd
  <2> QED BY <2>3, <2>5 DEF ReleaseInv
<1>4. CASE Rollout!Verify
  <2>1. /\ lAt = "verify" /\ lAt' = "look" /\ i' = i - 1 /\ i \in 1..Len(Order)
        /\ restored' = restored \/ (restored' = restored \cup {Order[i]} /\ alias[Order[i]] = before[Order[i]])
        /\ UNCHANGED <<alias, underway, late, before, staged, touched, report, head, outside>>
        /\ Order[i] \in Rollout!Roles /\ Order[i] \in touched
    BY <1>1, <1>4, ReleaseRoles
    DEF Rollout!Verify, Rollout!hosting, Rollout!Role, Rollout!NextDown, Rollout!PutBack, AtARole, TouchedOnRecord
  <2>2. Rollout!TypeOK' /\ AtARole'
    <3>1. restored' \subseteq Rollout!Roles
      BY <1>1, <2>1 DEF Rollout!TypeOK
    <3>2. AtARole' /\ i' \in 0..Len(Order) + 1 /\ lAt' \in Rollout!Steps
      BY <2>1, ReleaseRoles DEF AtARole, Rollout!Steps
    <3> QED BY <1>1, <2>1, <3>1, <3>2 DEF Rollout!TypeOK
  <2>3. TouchedOnRecord' /\ SentRequests' /\ ReadBefore' /\ ReportAtEnd'
    BY <1>1, <2>1 DEF TouchedOnRecord, SentRequests, ReadBefore, ReportAtEnd
  <2> QED BY <2>2, <2>3 DEF ReleaseInv
<1>5. CASE Rollout!RolledBack
  <2>1. /\ lAt = "look" /\ lAt' = "end" /\ i' = 1
        /\ report' = [report EXCEPT !.status = IF restored = touched THEN "rolled_back" ELSE "manual_recovery_required"]
        /\ UNCHANGED <<alias, underway, late, before, staged, touched, restored, head, outside>>
    BY <1>5 DEF Rollout!RolledBack, Rollout!hosting, Rollout!To, Rollout!AllRestored
  <2>2. report'.attempted = report.attempted
        /\ report'.status = IF restored = touched THEN "rolled_back" ELSE "manual_recovery_required"
    BY <1>1, <2>1 DEF Rollout!TypeOK
  <2>3. Rollout!TypeOK' /\ AtARole'
    <3>1. PICK s \in {"rolled_back", "manual_recovery_required"} : report' = [report EXCEPT !.status = s]
      BY <2>1
    <3>2. report' \in [status : {"preflight", "failed_before_promotion", "deployed", "rolled_back",
                                 "manual_recovery_required"}, attempted : SUBSET Rollout!Roles]
      BY <1>1, <3>1 DEF Rollout!TypeOK
    <3>3. AtARole' /\ i' \in 0..Len(Order) + 1 /\ lAt' \in Rollout!Steps
      BY <2>1, ReleaseRoles DEF AtARole, Rollout!Steps
    <3> QED BY <1>1, <2>1, <3>2, <3>3 DEF Rollout!TypeOK
  <2>4. TouchedOnRecord' /\ SentRequests' /\ ReadBefore' /\ ReportAtEnd'
    BY <1>1, <2>1, <2>2 DEF TouchedOnRecord, SentRequests, ReadBefore, ReportAtEnd
  <2> QED BY <2>3, <2>4 DEF ReleaseInv
<1> QED BY <1>2, <1>3, <1>4, <1>5

LEMMA OutsideStep ==
    ASSUME ReleaseInv,
           \/ Rollout!Cancelled \/ Rollout!Superseded
           \/ \E r \in Rollout!Roles : Rollout!OutsidePromotes(r) \/ \E b \in Rollout!Builds : Rollout!Land(r, b)
    PROVE  ReleaseInv'
<1>1. Rollout!TypeOK /\ AtARole /\ TouchedOnRecord /\ SentRequests /\ ReadBefore /\ ReportAtEnd
  BY DEF ReleaseInv
<1>2. CASE Rollout!Cancelled
  BY <1>1, <1>2, ReleaseRoles DEF Rollout!Cancelled, Rollout!hosting, Rollout!To, ReleaseInv, Rollout!TypeOK,
     AtARole, TouchedOnRecord, SentRequests, ReadBefore, ReportAtEnd, Rollout!Steps
<1>3. CASE Rollout!Superseded
  BY <1>1, <1>3 DEF Rollout!Superseded, Rollout!hosting, ReleaseInv, Rollout!TypeOK,
     AtARole, TouchedOnRecord, SentRequests, ReadBefore, ReportAtEnd
<1>4. ASSUME NEW r \in Rollout!Roles, Rollout!OutsidePromotes(r) PROVE ReleaseInv'
  <2>1. /\ outside < MaxOutside /\ outside' = outside + 1 /\ alias' = [alias EXCEPT ![r] = "other"]
        /\ UNCHANGED <<lAt, i, underway, late, before, staged, touched, restored, report, head>>
    BY <1>4 DEF Rollout!OutsidePromotes
  <2>2. outside' \in 0..MaxOutside /\ outside' # 0
    BY <1>1, <2>1, ReleaseRoles DEF Rollout!TypeOK
  <2>3. Rollout!TypeOK' /\ AtARole' /\ ReportAtEnd'
    BY <1>1, <2>1, <2>2 DEF Rollout!TypeOK, AtARole, ReportAtEnd, Rollout!Builds
  <2>4. TouchedOnRecord' /\ SentRequests' /\ ReadBefore'
    BY <1>1, <2>1, <2>2 DEF TouchedOnRecord, SentRequests, ReadBefore, Rollout!TypeOK
  <2> QED BY <2>3, <2>4 DEF ReleaseInv
<1>5. ASSUME NEW r \in Rollout!Roles, NEW b \in Rollout!Builds, Rollout!Land(r, b) PROVE ReleaseInv'
  <2>1. /\ <<r, b>> \in underway /\ underway' = underway \ {<<r, b>>} /\ alias' = [alias EXCEPT ![r] = b]
        /\ \/ b = "candidate" /\ r \in restored /\ late' = late \cup {r}
           \/ ~(b = "candidate" /\ r \in restored) /\ late' = late
        /\ UNCHANGED <<lAt, i, before, staged, touched, restored, report, head, outside>>
    BY <1>5 DEF Rollout!Land
  <2>2. r \in touched /\ b \in {"candidate", before[r]} /\ before[r] # "candidate"
    BY <1>1, <2>1 DEF SentRequests, ReadBefore
  <2>3. \A x \in Rollout!Roles : alias'[x] = IF x = r THEN b ELSE alias[x]
    BY <1>1, <2>1 DEF Rollout!TypeOK
  <2>4. Rollout!TypeOK' /\ AtARole'
    BY <1>1, <2>1 DEF Rollout!TypeOK, AtARole
  <2>5. SentRequests'
    BY <1>1, <2>1 DEF SentRequests
  <2>6. TouchedOnRecord'
    BY <1>1, <2>1, <2>2, <2>3 DEF TouchedOnRecord
  <2>7. ReadBefore'
    BY <1>1, <2>1, <2>2, <2>3 DEF ReadBefore
  <2>8. ReportAtEnd'
    <3>1. lAt \in {"confirm", "smoke"} \/ report.status = "deployed" => b = "candidate"
      BY <1>1, <2>1 DEF SentRequests
    <3>2. \A k \in 1..(i - 1) : lAt = "confirm" => Order[k] \in Rollout!Roles
      BY <1>1, ReleaseRoles DEF AtARole
    <3> QED BY <1>1, <2>1, <2>3, <3>1, <3>2 DEF ReportAtEnd
  <2> QED BY <2>4, <2>5, <2>6, <2>7, <2>8 DEF ReleaseInv
<1> QED BY <1>2, <1>3, <1>4, <1>5

LEMMA ReleaseStep == ReleaseInv /\ (Rollout!Next \/ UNCHANGED release) => ReleaseInv'
<1>1. ASSUME ReleaseInv, UNCHANGED release PROVE ReleaseInv'
  BY <1>1 DEF release, ReleaseInv, Rollout!TypeOK, AtARole, TouchedOnRecord, SentRequests, ReadBefore, ReportAtEnd
<1> QED BY <1>1, PreparingStep, PromotingStep, UndoingStep, OutsideStep DEF Rollout!Next, Rollout!Step

LEMMA ReleaseInvariance == EachSpec => []ReleaseInv
<1>1. EachInit => ReleaseInv
  BY ReleaseInit DEF EachInit
<1>2. ReleaseInv /\ [EachNext]_every => ReleaseInv'
  <2>1. EachNext => Rollout!Next \/ UNCHANGED release
    BY DEF EachNext, release
  <2>2. UNCHANGED every => UNCHANGED release
    BY DEF every
  <2> QED BY <2>1, <2>2, ReleaseStep
<1> QED BY <1>1, <1>2, PTL DEF EachSpec

LEMMA ReleasePromises == ReleaseInv => Rollout!TypeOK /\ Rollout!CandidateIsOnRecord /\ Rollout!ReportIsTrue
<1> SUFFICES ASSUME ReleaseInv PROVE Rollout!CandidateIsOnRecord /\ Rollout!ReportIsTrue
  BY DEF ReleaseInv
<1>1. Rollout!CandidateIsOnRecord
  BY DEF ReleaseInv, TouchedOnRecord, Rollout!CandidateIsOnRecord
<1>2. report.status = "rolled_back" => \A r \in Rollout!Roles : alias[r] = "candidate" => r \in late
  BY DEF ReleaseInv, TouchedOnRecord, ReportAtEnd
<1>3. report.status = "rolled_back" /\ outside = 0 => \A r \in Rollout!Roles \ late : alias[r] = before[r]
  BY DEF ReleaseInv, TouchedOnRecord, ReportAtEnd, ReadBefore
<1>4. report.status = "deployed" /\ outside = 0 => \A r \in Rollout!Roles : alias[r] = "candidate"
  BY DEF ReleaseInv, ReportAtEnd
<1> QED BY <1>1, <1>2, <1>3, <1>4 DEF Rollout!ReportIsTrue

-----------------------------------------------------------------------------
(* Backups and restores. *)

\* What a backup's steps have read is its moment, and an undamaged dump still is.
BackupIsOneMoment ==
    \A f \in Files : LET b == backup[f] IN
        /\ b.at # "absent" => b.moment \in Recovery!Contents
        /\ b.at \in {"counted", "dumped", "complete"} => b.counts = b.moment
        /\ b.at = "dumped" => b.dump = b.moment
        /\ b.at = "complete" /\ ~b.damaged => b.dump = b.moment

\* A restore examined its file, holds the lock from the look at the destination
\* to its end, and what the destination holds is due to it: it was empty when
\* somebody's loader, of a dead restore perhaps, filled it.
RestoreIsAlone ==
    /\ \A r \in Processes : at[r] \in {"checked", "locked", "loading", "orphaned", "loaded", "restored"} =>
          from[r] \in Files /\ backup[from[r]].at = "complete" /\ (at[r] # "restored" => ~backup[from[r]].damaged)
    /\ \A r \in Processes : at[r] \in {"locked", "loading", "loaded"} => lock = r
    /\ \A r \in Processes : at[r] = "loaded" => dest = backup[from[r]].moment
    /\ \A r \in Processes : at[r] = "restored" => dest = Recovery!Settled(backup[from[r]].moment)
    /\ \A r, s \in Processes : at[r] \in {"loaded", "restored"} /\ at[s] \in {"loaded", "restored"} => r = s

RestoreInv == Recovery!TypeOK /\ BackupIsOneMoment /\ RestoreIsAlone

LEMMA RestoreNames == None \notin Recovery!Contents /\ None \notin Processes /\ RestoreKills \in Nat
BY PartsAssumption DEF Recovery!Parameters

LEMMA SettledContents == ASSUME NEW c \in Recovery!Contents PROVE Recovery!Settled(c) \in Recovery!Contents
BY DEF Recovery!Settled, Recovery!Contents, Recovery!JobStates, Recovery!Interrupted, Recovery!Held

LEMMA RestoreInit == Recovery!Init => RestoreInv
BY RestoreNames DEF Recovery!Init, RestoreInv, Recovery!TypeOK, BackupIsOneMoment, RestoreIsAlone, Recovery!NoBackup,
   Recovery!Contents, Recovery!JobStates, Recovery!Held, Recovery!BackupSteps

AnyBackup == [at : Recovery!BackupSteps, moment : Recovery!Contents \cup {None},
              counts : Recovery!Contents \cup {None}, dump : Recovery!Contents \cup {None}, damaged : BOOLEAN]

LEMMA AfterIsAState == \A s \in Recovery!JobStates : Recovery!After(s) \subseteq Recovery!JobStates
BY DEF Recovery!After, Recovery!JobStates, Recovery!Held

LEMMA ServiceWritesStep == ASSUME RestoreInv, Recovery!ServiceWrites PROVE RestoreInv'
<1>1. Recovery!TypeOK /\ BackupIsOneMoment /\ RestoreIsAlone
  BY DEF RestoreInv
<1>2. UNCHANGED <<backup, dest, lock, at, from, rKills>>
  BY DEF Recovery!ServiceWrites
<1>3. source' \in Recovery!Contents
  <2>1. source \in Recovery!Contents
    BY <1>1 DEF Recovery!TypeOK
  <2>2. ASSUME NEW j \in Jobs, NEW s \in Recovery!After(source.jobs[j]),
               source' = [source EXCEPT !.jobs[j] = s, !.workers = TRUE]
        PROVE  source' \in Recovery!Contents
    <3>1. s \in Recovery!JobStates
      BY <2>1, <2>2, AfterIsAState DEF Recovery!Contents
    <3> QED BY <2>1, <2>2, <3>1 DEF Recovery!Contents
  <2>3. ASSUME NEW l \in SignIns, source' = [source EXCEPT !.sessions = @ \cup {l}] PROVE source' \in Recovery!Contents
    BY <2>1, <2>3 DEF Recovery!Contents
  <2>4. ASSUME NEW m \in Imports, source' = [source EXCEPT !.imports[m] = "completed"]
        PROVE  source' \in Recovery!Contents
    BY <2>1, <2>4 DEF Recovery!Contents
  <2> QED BY <2>2, <2>3, <2>4 DEF Recovery!ServiceWrites
<1>4. Recovery!TypeOK'
  BY <1>1, <1>2, <1>3 DEF Recovery!TypeOK
<1> QED BY <1>1, <1>2, <1>4 DEF RestoreInv, BackupIsOneMoment, RestoreIsAlone

\* One backup that no restore reads goes on, or a stored one is damaged.
LEMMA OneBackupStep ==
    ASSUME RestoreInv, NEW f \in Files, NEW b \in AnyBackup, backup' = [backup EXCEPT ![f] = b],
           UNCHANGED <<source, dest, lock, at, from>>, rKills' \in 0..RestoreKills,
           /\ b.at # "absent" => b.moment \in Recovery!Contents
           /\ b.at \in {"counted", "dumped", "complete"} => b.counts = b.moment
           /\ b.at = "dumped" => b.dump = b.moment
           /\ b.at = "complete" /\ ~b.damaged => b.dump = b.moment,
           \/ backup[f].at # "complete"
           \/ /\ b.at = "complete" /\ b.moment = backup[f].moment
              /\ \A r \in Processes : from[r] = f => at[r] \in {"restored", "refused", "killed"}
    PROVE  RestoreInv'
<1>1. Recovery!TypeOK /\ BackupIsOneMoment /\ RestoreIsAlone /\ backup \in [Files -> AnyBackup]
  BY DEF RestoreInv, Recovery!TypeOK, AnyBackup
<1>2. backup' \in [Files -> AnyBackup] /\ backup'[f] = b /\ \A g \in Files : g # f => backup'[g] = backup[g]
  BY <1>1
<1>3. Recovery!TypeOK'
  BY <1>1, <1>2 DEF Recovery!TypeOK, AnyBackup
<1>4. BackupIsOneMoment'
  BY <1>1, <1>2 DEF BackupIsOneMoment
<1>5. \A r \in Processes : at[r] \in {"checked", "locked", "loading", "orphaned", "loaded"} =>
          from[r] \in Files /\ backup'[from[r]] = backup[from[r]]
  BY <1>1, <1>2 DEF RestoreIsAlone
<1>6. \A r \in Processes : at[r] = "restored" =>
          from[r] \in Files /\ backup'[from[r]].at = "complete" /\ backup'[from[r]].moment = backup[from[r]].moment
  BY <1>1, <1>2 DEF RestoreIsAlone
<1>7. RestoreIsAlone'
  BY <1>1, <1>5, <1>6 DEF RestoreIsAlone
<1> QED BY <1>3, <1>4, <1>7 DEF RestoreInv

LEMMA BackupStep ==
    ASSUME RestoreInv, NEW f \in Files,
           \/ Recovery!Export(f) \/ Recovery!Count(f) \/ Recovery!Dump(f)
           \/ Recovery!Manifest(f) \/ Recovery!BackupKilled(f) \/ Recovery!Damage(f)
    PROVE  RestoreInv'
<1> DEFINE old == backup[f]
<1>1. /\ old \in AnyBackup /\ source \in Recovery!Contents /\ rKills \in 0..RestoreKills /\ backup \in [Files -> AnyBackup]
      /\ old = [at |-> old.at, moment |-> old.moment, counts |-> old.counts, dump |-> old.dump, damaged |-> old.damaged]
  BY DEF RestoreInv, Recovery!TypeOK, AnyBackup
<1>2. /\ old.at # "absent" => old.moment \in Recovery!Contents
      /\ old.at \in {"counted", "dumped", "complete"} => old.counts = old.moment
      /\ old.at = "dumped" => old.dump = old.moment
      /\ old.at = "complete" /\ ~old.damaged => old.dump = old.moment
  BY DEF RestoreInv, BackupIsOneMoment
<1>3. UNCHANGED <<source, dest, lock, at, from>> /\ rKills' \in 0..RestoreKills
  BY <1>1, RestoreNames DEF Recovery!Export, Recovery!Count, Recovery!Dump, Recovery!Manifest,
      Recovery!BackupKilled, Recovery!Damage
<1>4. Recovery!NoBackup \in AnyBackup /\ Recovery!NoBackup.at = "absent"
  BY DEF Recovery!NoBackup, AnyBackup, Recovery!BackupSteps
<1>5. CASE Recovery!Export(f)
  <2>1. PICK b : b = [old EXCEPT !.at = "snapshot", !.moment = source]
    OBVIOUS
  <2>2. b \in AnyBackup /\ b.at = "snapshot" /\ b.moment = source
    BY <1>1, <2>1 DEF AnyBackup, Recovery!BackupSteps
  <2>3. backup' = [backup EXCEPT ![f] = b] /\ old.at = "absent"
    BY <1>1, <1>5, <2>1 DEF Recovery!Export
  <2> QED BY <1>1, <1>3, <2>2, <2>3, OneBackupStep
<1>6. CASE Recovery!Count(f)
  <2>1. PICK b : b = [old EXCEPT !.at = "counted", !.counts = old.moment]
    OBVIOUS
  <2>2. b \in AnyBackup /\ b.at = "counted" /\ b.moment = old.moment /\ b.counts = old.moment
    BY <1>1, <2>1 DEF AnyBackup, Recovery!BackupSteps
  <2>3. backup' = [backup EXCEPT ![f] = b] /\ old.at = "snapshot"
    BY <1>1, <1>6, <2>1 DEF Recovery!Count, Recovery!InSnapshot
  <2> QED BY <1>1, <1>2, <1>3, <2>2, <2>3, OneBackupStep
<1>7. CASE Recovery!Dump(f)
  <2>1. PICK b : b = [old EXCEPT !.at = "dumped", !.dump = old.moment]
    OBVIOUS
  <2>2. b \in AnyBackup /\ b.at = "dumped" /\ b.moment = old.moment /\ b.counts = old.counts /\ b.dump = old.moment
    BY <1>1, <2>1 DEF AnyBackup, Recovery!BackupSteps
  <2>3. old.at = "counted" /\ (backup' = [backup EXCEPT ![f] = b] \/ backup' = [backup EXCEPT ![f] = Recovery!NoBackup])
    BY <1>1, <1>7, <2>1 DEF Recovery!Dump, Recovery!InSnapshot
  <2> QED BY <1>1, <1>2, <1>3, <1>4, <2>2, <2>3, OneBackupStep
<1>8. CASE Recovery!Manifest(f)
  <2>1. PICK b : b = [old EXCEPT !.at = "complete"]
    OBVIOUS
  <2>2. b \in AnyBackup /\ b.at = "complete" /\ b.moment = old.moment /\ b.counts = old.counts /\ b.dump = old.dump
    BY <1>1, <2>1 DEF AnyBackup, Recovery!BackupSteps
  <2>3. backup' = [backup EXCEPT ![f] = b] /\ old.at = "dumped"
    BY <1>1, <1>8, <2>1 DEF Recovery!Manifest
  <2> QED BY <1>1, <1>2, <1>3, <2>2, <2>3, OneBackupStep
<1>9. CASE Recovery!BackupKilled(f)
  <2>1. PICK b : b = [old EXCEPT !.at = "dumping"]
    OBVIOUS
  <2>2. b \in AnyBackup /\ b.at = "dumping" /\ b.moment = old.moment
    BY <1>1, <2>1 DEF AnyBackup, Recovery!BackupSteps
  <2>3. /\ old.at \in {"snapshot", "counted", "dumped"}
        /\ (backup' = [backup EXCEPT ![f] = b] \/ backup' = [backup EXCEPT ![f] = Recovery!NoBackup])
    BY <1>1, <1>9, <2>1 DEF Recovery!BackupKilled
  <2> QED BY <1>1, <1>2, <1>3, <1>4, <2>2, <2>3, OneBackupStep
<1>10. CASE Recovery!Damage(f)
  <2>1. PICK b : b = [old EXCEPT !.damaged = TRUE, !.dump = source]
    OBVIOUS
  <2>2. b \in AnyBackup /\ b.at = old.at /\ b.moment = old.moment /\ b.counts = old.counts /\ b.damaged = TRUE
    BY <1>1, <2>1 DEF AnyBackup, Recovery!BackupSteps
  <2>3. /\ backup' = [backup EXCEPT ![f] = b] /\ old.at = "complete"
        /\ \A r \in Processes : from[r] = f => at[r] \in {"restored", "refused", "killed"}
    BY <1>1, <1>10, <2>1 DEF Recovery!Damage
  <2> QED BY <1>1, <1>2, <1>3, <2>2, <2>3, OneBackupStep
<1> QED BY <1>5, <1>6, <1>7, <1>8, <1>9, <1>10

LEMMA RestoreRunStep ==
    ASSUME RestoreInv, NEW r \in Processes,
           \/ Recovery!Lock(r) \/ Recovery!LookAt(r) \/ Recovery!RestoreKilled(r) \/ \E f \in Files : Recovery!Examine(r, f)
    PROVE  RestoreInv'
<1>1. Recovery!TypeOK /\ BackupIsOneMoment /\ RestoreIsAlone
  BY DEF RestoreInv
<1>2. UNCHANGED <<source, backup, dest>>
  BY DEF Recovery!Lock, Recovery!LookAt, Recovery!RestoreKilled, Recovery!Examine
<1>3. BackupIsOneMoment'
  BY <1>1, <1>2 DEF BackupIsOneMoment
<1>4. CASE Recovery!Lock(r)
  BY <1>1, <1>2, <1>3, <1>4, RestoreNames
  DEF Recovery!Lock, Recovery!Step, RestoreInv, Recovery!TypeOK, RestoreIsAlone
<1>5. CASE Recovery!LookAt(r)
  BY <1>1, <1>2, <1>3, <1>5, RestoreNames
  DEF Recovery!LookAt, Recovery!Step, RestoreInv, Recovery!TypeOK, RestoreIsAlone
<1>6. CASE Recovery!RestoreKilled(r)
  BY <1>1, <1>2, <1>3, <1>6, RestoreNames
  DEF Recovery!RestoreKilled, Recovery!Step, RestoreInv, Recovery!TypeOK, RestoreIsAlone
<1>7. ASSUME NEW f \in Files, Recovery!Examine(r, f) PROVE RestoreInv'
  BY <1>1, <1>2, <1>3, <1>7
  DEF Recovery!Examine, Recovery!Step, Recovery!Genuine, RestoreInv, Recovery!TypeOK, RestoreIsAlone
<1> QED BY <1>4, <1>5, <1>6, <1>7

\* Where nothing is, nobody has loaded yet.
LEMMA EmptyForAll == ASSUME RestoreInv, dest = None PROVE \A s \in Processes : at[s] \notin {"loaded", "restored"}
<1>1. \A s \in Processes : at[s] \in {"loaded", "restored"} =>
          from[s] \in Files /\ backup[from[s]].moment \in Recovery!Contents /\ dest \in Recovery!Contents
  BY SettledContents DEF RestoreInv, RestoreIsAlone, BackupIsOneMoment
<1> QED BY <1>1, RestoreNames

\* A loader fills an empty destination with its dump, or ends without effect.
LEMMA FillStep ==
    ASSUME RestoreInv, NEW r \in Processes, at[r] \in {"loading", "orphaned"},
           UNCHANGED <<source, backup, from, rKills>>,
           NEW step, at' = [at EXCEPT ![r] = step], Recovery!Fill(r) \/ UNCHANGED dest,
           \/ step = "loaded" /\ at[r] = "loading" /\ Recovery!Fill(r) /\ UNCHANGED lock
           \/ step = "refused" /\ at[r] = "loading" /\ lock' = None
           \/ step = "killed" /\ at[r] = "orphaned" /\ UNCHANGED lock
    PROVE  RestoreInv'
<1>1. Recovery!TypeOK /\ BackupIsOneMoment /\ RestoreIsAlone
  BY DEF RestoreInv
<1>2. backup[from[r]].moment \in Recovery!Contents /\ backup[from[r]].dump = backup[from[r]].moment /\ from[r] \in Files
  BY <1>1 DEF RestoreIsAlone, BackupIsOneMoment
<1>3. /\ dest' \in {dest, backup[from[r]].moment}
      /\ dest' # dest \/ step = "loaded" => /\ dest' = backup[from[r]].moment
                                           /\ \A s \in Processes : at[s] \notin {"loaded", "restored"}
  BY <1>1, <1>2, EmptyForAll DEF Recovery!Fill
<1>4. \A s \in Processes : s # r => at'[s] = at[s]
  BY <1>1 DEF Recovery!TypeOK
<1>5. at'[r] = step
  BY <1>1 DEF Recovery!TypeOK
<1>6. Recovery!TypeOK'
  BY <1>1, <1>2, <1>3 DEF Recovery!TypeOK
<1>7. \A s \in Processes : at'[s] \in {"locked", "loading", "loaded"} => lock' = s
  BY <1>1, <1>4, <1>5 DEF RestoreIsAlone
<1>8. RestoreIsAlone'
  BY <1>1, <1>3, <1>4, <1>5, <1>7 DEF RestoreIsAlone
<1> QED BY <1>1, <1>6, <1>8 DEF RestoreInv, BackupIsOneMoment

LEMMA LoadStep ==
    ASSUME RestoreInv, NEW r \in Processes, Recovery!Load(r) \/ Recovery!OrphanLoads(r) PROVE RestoreInv'
<1>1. CASE Recovery!Load(r)
  BY <1>1, FillStep DEF Recovery!Load, Recovery!Step
<1>2. CASE Recovery!OrphanLoads(r)
  BY <1>2, FillStep DEF Recovery!OrphanLoads, Recovery!Step
<1> QED BY <1>1, <1>2

LEMMA SettleStep == ASSUME RestoreInv, NEW r \in Processes, Recovery!Settle(r) PROVE RestoreInv'
<1>1. Recovery!TypeOK /\ BackupIsOneMoment /\ RestoreIsAlone
  BY DEF RestoreInv
<1>2. UNCHANGED <<source, backup, from, rKills>> /\ at[r] = "loaded" /\ lock' = None /\ dest = backup[from[r]].moment
      /\ from[r] \in Files
  BY <1>1 DEF Recovery!Settle, RestoreIsAlone
<1>3. dest \in Recovery!Contents /\ Recovery!Settled(dest) \in Recovery!Contents
  BY <1>1, <1>2, SettledContents DEF RestoreIsAlone, BackupIsOneMoment
<1>4. \A s \in Processes : at[s] \in {"locked", "loading", "loaded", "restored"} => s = r
  BY <1>1, <1>2 DEF RestoreIsAlone
<1>5. BackupIsOneMoment'
  BY <1>1, <1>2 DEF BackupIsOneMoment
<1>6. CASE dest' = Recovery!Settled(dest) /\ Recovery!Step(r, "restored")
  <2>1. at' = [at EXCEPT ![r] = "restored"]
    BY <1>6 DEF Recovery!Step
  <2>2. Recovery!TypeOK'
    BY <1>1, <1>2, <1>3, <1>6, <2>1 DEF Recovery!TypeOK
  <2>3. RestoreIsAlone'
    BY <1>1, <1>2, <1>4, <1>6, <2>1 DEF RestoreIsAlone, Recovery!TypeOK
  <2> QED BY <1>5, <2>2, <2>3 DEF RestoreInv
<1>7. CASE Recovery!Step(r, "refused") /\ UNCHANGED dest
  <2>1. at' = [at EXCEPT ![r] = "refused"]
    BY <1>7 DEF Recovery!Step
  <2>2. Recovery!TypeOK'
    BY <1>1, <1>2, <1>7, <2>1 DEF Recovery!TypeOK
  <2>3. RestoreIsAlone'
    BY <1>1, <1>2, <1>4, <1>7, <2>1 DEF RestoreIsAlone, Recovery!TypeOK
  <2> QED BY <1>5, <2>2, <2>3 DEF RestoreInv
<1> QED BY <1>6, <1>7 DEF Recovery!Settle

LEMMA RestoreStep == RestoreInv /\ (Recovery!Next \/ UNCHANGED restore) => RestoreInv'
<1>1. ASSUME RestoreInv, UNCHANGED restore PROVE RestoreInv'
  BY <1>1 DEF restore, RestoreInv, Recovery!TypeOK, BackupIsOneMoment, RestoreIsAlone
<1> QED BY <1>1, ServiceWritesStep, BackupStep, RestoreRunStep, LoadStep, SettleStep DEF Recovery!Next

LEMMA RestoreInvariance == EachSpec => []RestoreInv
<1>1. EachInit => RestoreInv
  BY RestoreInit DEF EachInit
<1>2. RestoreInv /\ [EachNext]_every => RestoreInv'
  <2>1. EachNext => Recovery!Next \/ UNCHANGED restore
    BY DEF EachNext, restore
  <2>2. UNCHANGED every => UNCHANGED restore
    BY DEF every
  <2> QED BY <2>1, <2>2, RestoreStep
<1> QED BY <1>1, <1>2, PTL DEF EachSpec

LEMMA RestorePromises == RestoreInv => Recovery!TypeOK /\ Recovery!RestoredIsOneMoment /\ Recovery!LoadedOnce
<1> SUFFICES ASSUME RestoreInv PROVE Recovery!RestoredIsOneMoment /\ Recovery!LoadedOnce
  BY DEF RestoreInv
<1>1. ASSUME NEW r \in Processes, at[r] = "restored"
      PROVE  LET then == backup[from[r]].moment IN
             /\ \A j \in Jobs : then.jobs[j] \in {"absent", "queued", "ended"} => dest.jobs[j] = then.jobs[j]
             /\ \A j \in Jobs : dest.jobs[j] \notin Recovery!Held
             /\ dest.sessions = {} /\ ~dest.workers
             /\ \A m \in Imports : dest.imports[m] # "open"
                                   /\ (dest.imports[m] = "completed" <=> then.imports[m] = "completed")
  <2>1. dest = Recovery!Settled(backup[from[r]].moment)
    BY <1>1 DEF RestoreInv, RestoreIsAlone
  <2>2. PICK c : c = backup[from[r]].moment
    OBVIOUS
  <2>3. /\ dest.jobs = [j \in Jobs |-> IF c.jobs[j] \in Recovery!Held THEN "interrupted" ELSE c.jobs[j]]
        /\ dest.sessions = {} /\ dest.workers = FALSE
        /\ dest.imports = [m \in Imports |-> IF c.imports[m] = "completed" THEN "completed" ELSE "cancelled"]
    BY <2>1, <2>2 DEF Recovery!Settled, Recovery!Interrupted
  <2> QED BY <2>2, <2>3 DEF Recovery!Held
<1>2. Recovery!RestoredIsOneMoment
  BY <1>1 DEF Recovery!RestoredIsOneMoment
<1>3. Recovery!LoadedOnce
  <2>1. PICK S : S = {r \in Processes : at[r] \in {"loaded", "restored"}}
    OBVIOUS
  <2>2. S = {} \/ \E r \in S : S = {r}
    BY <2>1 DEF RestoreInv, RestoreIsAlone
  <2>3. \A T : Recovery!Cardinality(T) = Cardinality(T)
    BY DEF Recovery!Cardinality, Cardinality
  <2>4. CASE S = {}
    BY <2>1, <2>3, <2>4, FS_EmptySet DEF Recovery!LoadedOnce
  <2>5. ASSUME NEW r, S = {r} PROVE Recovery!LoadedOnce
    <3>1. Recovery!Cardinality(S) = 1
      BY <2>3, <2>5, FS_Singleton
    <3> QED BY <2>1, <3>1 DEF Recovery!LoadedOnce
  <2> QED BY <2>2, <2>4, <2>5
<1> QED BY <1>2, <1>3

-----------------------------------------------------------------------------

\* A killed public server keeps what it promised; a release leaves no candidate in
\* production that its report does not name, unless it was killed while it wrote the
\* report, and one it reports as rolled back only where a promotion landed after that
\* role was back; and a restore that reports success left one past moment of the
\* service, loaded once (AWayBack): for any number of sessions, requests, roles, late
\* promotions, kills and restores at once.
THEOREM AWayBackIsKept == EachSpec => AWayBack
<1>1. EachSpec => []PublicInv
  BY PublicInvariance
<1>2. EachSpec => []ReleaseInv
  BY ReleaseInvariance
<1>3. EachSpec => []RestoreInv
  BY RestoreInvariance
<1>4. PublicInv => Public!TypeOK /\ Public!ToldIsKept /\ Public!SessionsBounded
  BY PublicPromises
<1>5. ReleaseInv => Rollout!TypeOK /\ Rollout!CandidateIsOnRecord /\ Rollout!ReportIsTrue
  BY ReleasePromises
<1>6. RestoreInv => Recovery!TypeOK /\ Recovery!RestoredIsOneMoment /\ Recovery!LoadedOnce
  BY RestorePromises DEF RestoreInv
<1>7. EachSpec =>
        /\ [][\A d \in Sessions : service[d] = "running" /\ service'[d] = "closing" => uPending[d] = 0]_(Public!vars)
        /\ [][up = "down" /\ up' = "up" => \A d \in Sessions : uPending[d] > 0 => service'[d] = "running"]_(Public!vars)
  BY <1>1, PublicServices, PTL DEF EachSpec
<1>8. EachSpec => Public!CleanupSparesWork /\ Public!WorkIsRestored
  BY <1>7 DEF Public!CleanupSparesWork, Public!WorkIsRestored
<1> QED BY <1>1, <1>2, <1>3, <1>4, <1>5, <1>6, <1>8, PTL DEF AWayBack

-----------------------------------------------------------------------------
(* The sweep over a window's reservations. *)

\* The reservations a pass counts: the request and its siblings, numbered from
\* zero down, and the rows that meet the window.
RowsOf(pass) == {r \in Capacity!Meeting : pass = "all" \/ stored[r].tenant = "caller"}
Reserved(pass, n) == ((0 - n)..0) \cup RowsOf(pass)

\* Where they begin and end inside the window.
From(x) == IF x \in Rows THEN Capacity!MaxOf(window.from, stored[x].from) ELSE window.from
To(x) == IF x \in Rows THEN Capacity!MinOf(window.to, stored[x].to) ELSE window.to
StartOf(x) == [at |-> From(x), delta |-> 1, id |-> x]
EndOf(x) == [at |-> To(x), delta |-> -1, id |-> x]
Covering(pass, n, t) == {x \in Reserved(pass, n) : From(x) <= t /\ t < To(x)}

\* Those whose start the pass has visited and whose end it has not.
OpenIn(pts) == {x \in Reserved(scope, admitted) : StartOf(x) \notin pts /\ EndOf(x) \in pts}

Instants == window.from..(window.to - 1)

SweepTypes ==
    /\ stored \in [Rows -> Capacity!Reservations] /\ window \in Capacity!Intervals
    /\ batch \in Nat /\ admitted \in Nat /\ scope \in {"all", "caller"}
    /\ verdict \in {"open", "refused", "admitted"}

\* The visited points are the first ones, what is open is counted, and every
\* instant the pass has left behind has room.
PassedSoFar ==
    /\ points \subseteq Capacity!PointsOf(scope, admitted)
    /\ \A p \in points, q \in Capacity!PointsOf(scope, admitted) \ points : Capacity!PointBefore(q, p)
    /\ count = Cardinality(OpenIn(points)) /\ count <= Capacity!Cap(scope)
    /\ \A t \in Instants : (\A p \in points : p.at > t) =>
           Cardinality(Covering(scope, admitted, t)) <= Capacity!Cap(scope)
    /\ scope = "caller" => \A t \in Instants : Cardinality(Covering("all", admitted, t)) <= GlobalConcurrency
    /\ admitted < batch

SweepInv == SweepTypes /\ Capacity!SweepIsExact /\ (verdict = "open" => PassedSoFar)

LEMMA SweepNumbers ==
    /\ IsFiniteSet(Rows) /\ Rows \subseteq Nat /\ 0 \notin Rows
    /\ SweepTime \in Nat /\ MaxBatch \in Nat /\ GlobalConcurrency \in Nat /\ TenantConcurrency \in Nat
<1>1. \A S : Capacity!IsFiniteSet(S) = IsFiniteSet(S)
  BY DEF Capacity!IsFiniteSet, IsFiniteSet
<1> QED BY <1>1, PartsAssumption DEF Capacity!Parameters

LEMMA SweepCardinality == \A S : Capacity!Cardinality(S) = Cardinality(S)
BY DEF Capacity!Cardinality, Cardinality

LEMMA ReservedFacts ==
    ASSUME SweepTypes, NEW n \in Nat, NEW pass \in {"all", "caller"}
    PROVE  /\ IsFiniteSet(Reserved(pass, n)) /\ Reserved(pass, n) \subseteq Int /\ 0 \in Reserved(pass, n)
           /\ window.from \in Nat /\ window.to \in Nat /\ window.from < window.to
           /\ \A x \in Reserved(pass, n) :
                 /\ From(x) \in Nat /\ To(x) \in Nat /\ x >= 0 - n
                 /\ window.from <= From(x) /\ From(x) < To(x) /\ To(x) <= window.to
<1>1. window.from \in Nat /\ window.to \in Nat /\ window.from < window.to
  BY SweepNumbers DEF SweepTypes, Capacity!Intervals
<1>2. \A r \in Rows : stored[r].from \in Nat /\ stored[r].to \in Nat /\ stored[r].from < stored[r].to
  <2> TAKE r \in Rows
  <2>1. stored[r] \in Capacity!Reservations
    BY DEF SweepTypes
  <2> QED BY <2>1, SweepNumbers DEF Capacity!Reservations, Capacity!Intervals
<1>3. IsFiniteSet((0 - n)..0) /\ 0 \in (0 - n)..0 /\ (0 - n)..0 \subseteq Int
  BY FS_Interval
<1>4. RowsOf(pass) \subseteq Rows /\ IsFiniteSet(RowsOf(pass)) /\ RowsOf(pass) \subseteq Nat
  <2>1. RowsOf(pass) \subseteq Rows
    BY DEF RowsOf, Capacity!Meeting
  <2> QED BY <2>1, SweepNumbers, FS_Subset
<1>5. IsFiniteSet(Reserved(pass, n)) /\ Reserved(pass, n) \subseteq Int /\ 0 \in Reserved(pass, n)
  <2>1. IsFiniteSet(((0 - n)..0) \cup RowsOf(pass))
    BY <1>3, <1>4, FS_Union, Zenon
  <2>2. ((0 - n)..0) \cup RowsOf(pass) \subseteq Int /\ 0 \in ((0 - n)..0) \cup RowsOf(pass)
    BY <1>3, <1>4
  <2> QED BY <2>1, <2>2 DEF Reserved
<1>6. ASSUME NEW x \in Reserved(pass, n)
      PROVE  /\ From(x) \in Nat /\ To(x) \in Nat /\ x >= 0 - n
             /\ window.from <= From(x) /\ From(x) < To(x) /\ To(x) <= window.to
  <2>1. CASE x \in Rows
    <3>1. x \in RowsOf(pass)
      BY <1>6, <2>1, SweepNumbers DEF Reserved
    <3>2. stored[x].from < window.to /\ stored[x].to > window.from
      BY <3>1 DEF RowsOf, Capacity!Meeting
    <3> QED BY <1>1, <1>2, <2>1, <3>2, SweepNumbers DEF From, To, Capacity!MaxOf, Capacity!MinOf
  <2>2. CASE x \notin Rows
    BY <1>1, <1>4, <1>6, <2>2 DEF From, To, Reserved
  <2> QED BY <2>1, <2>2
<1> QED BY <1>1, <1>5, <1>6

LEMMA PointsAreEnds ==
    ASSUME SweepTypes, NEW n \in Nat, NEW pass \in {"all", "caller"}
    PROVE  Capacity!PointsOf(pass, n) = {StartOf(x) : x \in Reserved(pass, n)} \cup {EndOf(x) : x \in Reserved(pass, n)}
<1>1. window.from \in Nat /\ window.to \in Nat
  BY ReservedFacts
<1>2. RowsOf(pass) \subseteq Rows
  BY DEF RowsOf, Capacity!Meeting
<1>3. UNION {Capacity!Ends(stored[r].from, stored[r].to, r) : r \in RowsOf(pass)}
      = {StartOf(x) : x \in RowsOf(pass)} \cup {EndOf(x) : x \in RowsOf(pass)}
  <2>1. \A r \in RowsOf(pass) : Capacity!Ends(stored[r].from, stored[r].to, r) = {StartOf(r), EndOf(r)}
    BY <1>2 DEF Capacity!Ends, StartOf, EndOf, From, To
  <2> QED BY <2>1
<1>4. UNION {Capacity!Ends(window.from, window.to, -k) : k \in 0..n}
      = {StartOf(x) : x \in (0 - n)..0} \cup {EndOf(x) : x \in (0 - n)..0}
  <2>1. \A k \in 0..n : Capacity!Ends(window.from, window.to, -k) = {StartOf(-k), EndOf(-k)}
    BY <1>1, SweepNumbers DEF Capacity!Ends, StartOf, EndOf, From, To, Capacity!MaxOf, Capacity!MinOf
  <2>2. UNION {Capacity!Ends(window.from, window.to, -k) : k \in 0..n} = UNION {{StartOf(-k), EndOf(-k)} : k \in 0..n}
    BY <2>1
  <2>3. \A x \in (0 - n)..0 : \E k \in 0..n : x = -k
    <3> TAKE x \in (0 - n)..0
    <3> WITNESS -x \in 0..n
    <3> QED OBVIOUS
  <2>4. \A k \in 0..n : -k \in (0 - n)..0
    OBVIOUS
  <2>5. ASSUME NEW p, p \in UNION {{StartOf(-k), EndOf(-k)} : k \in 0..n}
        PROVE  p \in {StartOf(x) : x \in (0 - n)..0} \cup {EndOf(x) : x \in (0 - n)..0}
    <3>1. PICK k \in 0..n : p = StartOf(-k) \/ p = EndOf(-k)
      BY <2>5
    <3> QED BY <2>4, <3>1, Zenon
  <2>6. ASSUME NEW x \in (0 - n)..0
        PROVE  {StartOf(x), EndOf(x)} \subseteq UNION {{StartOf(-k), EndOf(-k)} : k \in 0..n}
    <3>1. PICK k \in 0..n : x = -k
      BY <2>3
    <3> QED BY <3>1, Zenon
  <2> QED BY <2>2, <2>5, <2>6, Zenon
<1> QED BY <1>3, <1>4 DEF Capacity!PointsOf, RowsOf, Reserved

LEMMA PointFacts ==
    ASSUME SweepTypes, NEW n \in Nat, NEW pass \in {"all", "caller"}
    PROVE  /\ \A p \in Capacity!PointsOf(pass, n) : \E x \in Reserved(pass, n) : p = StartOf(x) \/ p = EndOf(x)
           /\ \A x \in Reserved(pass, n) : StartOf(x) \in Capacity!PointsOf(pass, n) /\ EndOf(x) \in Capacity!PointsOf(pass, n)
           /\ \A x : /\ StartOf(x).at = From(x) /\ StartOf(x).delta = 1 /\ StartOf(x).id = x
                     /\ EndOf(x).at = To(x) /\ EndOf(x).delta = -1 /\ EndOf(x).id = x
BY PointsAreEnds DEF StartOf, EndOf

\* The points are in a line, so one is before all others.
LEMMA FirstIsLeast ==
    ASSUME SweepTypes, points \subseteq Capacity!PointsOf(scope, admitted), points # {}
    PROVE  Capacity!First \in points /\ \A q \in points \ {Capacity!First} : Capacity!PointBefore(Capacity!First, q)
<1>1. admitted \in Nat /\ scope \in {"all", "caller"}
  BY DEF SweepTypes
<1>2. \A p \in points : /\ p.at \in Nat /\ p.delta \in {1, -1} /\ p.id \in Int /\ p.id + admitted \in Nat
                        /\ p = [at |-> p.at, delta |-> p.delta, id |-> p.id]
                        /\ p.at = IF p.delta = 1 THEN From(p.id) ELSE To(p.id)
  <2> TAKE p \in points
  <2>1. PICK x \in Reserved(scope, admitted) : p = StartOf(x) \/ p = EndOf(x)
    BY <1>1, PointFacts
  <2>2. From(x) \in Nat /\ To(x) \in Nat /\ x >= 0 - admitted /\ x \in Int
    BY <1>1, ReservedFacts
  <2> QED BY <1>1, <2>1, <2>2 DEF StartOf, EndOf
<1>3. ASSUME NEW P, P \subseteq points, P # {} PROVE \E p \in P : \A q \in P : p.at <= q.at
  <2>1. PICK S : S = {p.at : p \in P}
    OBVIOUS
  <2>2. S \in SUBSET Nat /\ S # {}
    BY <1>2, <1>3, <2>1
  <2>3. PICK m \in S : \A y \in S : m <= y
    BY <2>2, LeastExists
  <2> QED BY <2>1, <2>3
<1>4. ASSUME NEW P, P \subseteq points, P # {} PROVE \E p \in P : \A q \in P : p.id <= q.id
  <2>1. PICK S : S = {p.id + admitted : p \in P}
    OBVIOUS
  <2>2. S \in SUBSET Nat /\ S # {}
    BY <1>2, <1>4, <2>1
  <2>3. PICK m \in S : \A y \in S : m <= y
    BY <2>2, LeastExists
  <2>4. PICK p \in P : p.id + admitted = m
    BY <2>1, <2>3
  <2>5. \A q \in P : p.id + admitted <= q.id + admitted
    BY <2>1, <2>3, <2>4
  <2>6. \A q \in P : p.id <= q.id
    BY <1>1, <1>2, <1>4, <2>5
  <2> QED BY <2>6
<1>5. PICK e \in points : \A q \in points : e.at <= q.at
  BY <1>3
<1>6. ASSUME NEW P, P \subseteq points, P # {}, NEW d \in {1, -1}, \A q \in P : q.at = e.at /\ q.delta = d,
             \A q \in points \ P : e.at < q.at \/ (e.at = q.at /\ d < q.delta)
      PROVE  \E p \in points : \A q \in points \ {p} : Capacity!PointBefore(p, q)
  <2>1. PICK p \in P : \A q \in P : p.id <= q.id
    BY <1>4, <1>6
  <2>2. ASSUME NEW q \in P \ {p} PROVE p.id < q.id
    <3>1. p.id # q.id
      BY <1>2, <1>6, <2>1, <2>2
    <3> QED BY <1>2, <1>6, <2>1, <2>2, <3>1
  <2>3. \A q \in points \ {p} : Capacity!PointBefore(p, q)
    BY <1>6, <2>1, <2>2 DEF Capacity!PointBefore
  <2> QED BY <1>6, <2>1, <2>3
<1>7. \E p \in points : \A q \in points \ {p} : Capacity!PointBefore(p, q)
  <2>1. CASE \E q \in points : q.at = e.at /\ q.delta = -1
    <3>1. PICK P : P = {q \in points : q.at = e.at /\ q.delta = -1}
      OBVIOUS
    <3>2. \A q \in points \ P : e.at < q.at \/ (e.at = q.at /\ -1 < q.delta)
      BY <1>2, <1>5, <3>1
    <3>3. P \subseteq points /\ P # {} /\ \A q \in P : q.at = e.at /\ q.delta = -1
      BY <2>1, <3>1
    <3> QED BY <1>6, <3>2, <3>3
  <2>2. CASE ~\E q \in points : q.at = e.at /\ q.delta = -1
    <3>1. PICK P : P = {q \in points : q.at = e.at}
      OBVIOUS
    <3>2. \A q \in points \ P : e.at < q.at
      BY <1>2, <1>5, <3>1
    <3>3. P \subseteq points /\ e \in P /\ \A q \in P : q.at = e.at /\ q.delta = 1
      BY <1>2, <1>5, <2>2, <3>1
    <3> QED BY <1>6, <3>2, <3>3
  <2> QED BY <2>1, <2>2
<1> QED BY <1>7 DEF Capacity!First

\* Visiting the first point opens a reservation or closes one.
LEMMA VisitCounts ==
    ASSUME SweepTypes, PassedSoFar, points # {}, NEW p, p = Capacity!First, NEW rest, rest = points \ {p}
    PROVE  /\ count + p.delta = Cardinality(OpenIn(rest))
           /\ \A q \in Capacity!PointsOf(scope, admitted) \ rest, o \in rest : Capacity!PointBefore(q, o)
           /\ p \in points
<1>1. /\ p \in points /\ \A q \in points \ {p} : Capacity!PointBefore(p, q)
      /\ points \subseteq Capacity!PointsOf(scope, admitted) /\ admitted \in Nat /\ scope \in {"all", "caller"}
  BY FirstIsLeast DEF PassedSoFar, SweepTypes
<1>2. \A q \in Capacity!PointsOf(scope, admitted) \ rest, o \in rest : Capacity!PointBefore(q, o)
  BY <1>1 DEF PassedSoFar
<1>3. IsFiniteSet(OpenIn(points)) /\ count = Cardinality(OpenIn(points)) /\ count \in Nat
  <2>1. OpenIn(points) \subseteq Reserved(scope, admitted)
    BY DEF OpenIn
  <2>2. IsFiniteSet(OpenIn(points))
    BY <1>1, <2>1, ReservedFacts, FS_Subset
  <2> QED BY <2>2, FS_CardinalityType DEF PassedSoFar
<1>4. PICK x \in Reserved(scope, admitted) : p = StartOf(x) \/ p = EndOf(x)
  BY <1>1, PointFacts
<1>5. From(x) \in Nat /\ To(x) \in Nat /\ From(x) < To(x) /\ x \in Int
  BY <1>1, ReservedFacts
<1>6. StartOf(x) \in Capacity!PointsOf(scope, admitted) /\ EndOf(x) \in Capacity!PointsOf(scope, admitted)
      /\ \A y : StartOf(y).id = y /\ EndOf(y).id = y /\ StartOf(y).delta = 1 /\ EndOf(y).delta = -1
                /\ StartOf(y).at = From(y) /\ EndOf(y).at = To(y)
  BY <1>1, PointFacts
<1>7. \A y, z : StartOf(y) # EndOf(z) /\ (StartOf(y) = StartOf(z) => y = z) /\ (EndOf(y) = EndOf(z) => y = z)
  <2> TAKE y, z
  <2>1. StartOf(y).delta # EndOf(z).delta
    BY <1>6
  <2> QED BY <1>6, <2>1
<1>8. ~Capacity!PointBefore(EndOf(x), StartOf(x))
  BY <1>5, <1>6 DEF Capacity!PointBefore
<1>9. CASE p = StartOf(x)
  <2>1. EndOf(x) \in points
    BY <1>1, <1>6, <1>8, <1>9 DEF PassedSoFar
  <2>2. OpenIn(rest) = OpenIn(points) \cup {x} /\ x \notin OpenIn(points)
    BY <1>1, <1>4, <1>7, <1>9, <2>1 DEF OpenIn
  <2>3. Cardinality(OpenIn(rest)) = count + 1
    BY <1>3, <2>2, FS_AddElement
  <2> QED BY <1>1, <1>2, <1>6, <1>9, <2>3
<1>10. CASE p = EndOf(x)
  <2>1. StartOf(x) \notin points
    BY <1>1, <1>6, <1>7, <1>8, <1>10
  <2>2. OpenIn(rest) = OpenIn(points) \ {x} /\ x \in OpenIn(points)
    BY <1>1, <1>4, <1>7, <1>10, <2>1 DEF OpenIn
  <2>3. Cardinality(OpenIn(rest)) = count - 1
    BY <1>3, <2>2, FS_RemoveElement
  <2> QED BY <1>1, <1>2, <1>3, <1>6, <1>10, <2>3
<1> QED BY <1>4, <1>9, <1>10

\* Between the last point visited and the next, what is open covers the instant.
LEMMA OpenCovers ==
    ASSUME SweepTypes, PassedSoFar, points # {}, NEW p, p = Capacity!First, NEW rest, rest = points \ {p}
    PROVE  /\ \A t \in Instants : p.at <= t /\ (\A q \in rest : q.at > t) => OpenIn(rest) = Covering(scope, admitted, t)
           /\ p.delta = 1 => p.at \in Instants /\ OpenIn(rest) \subseteq Covering(scope, admitted, p.at)
<1>1. /\ p \in points /\ \A q \in points \ {p} : Capacity!PointBefore(p, q)
      /\ points \subseteq Capacity!PointsOf(scope, admitted) /\ admitted \in Nat /\ scope \in {"all", "caller"}
  BY FirstIsLeast DEF PassedSoFar, SweepTypes
<1>2. \A q \in Capacity!PointsOf(scope, admitted) \ rest, o \in rest : Capacity!PointBefore(q, o)
  BY VisitCounts
<1>3. \A x \in Reserved(scope, admitted) :
         /\ From(x) \in Nat /\ To(x) \in Nat /\ From(x) < To(x) /\ window.from <= From(x) /\ To(x) <= window.to
         /\ StartOf(x) \in Capacity!PointsOf(scope, admitted) /\ EndOf(x) \in Capacity!PointsOf(scope, admitted)
         /\ StartOf(x).at = From(x) /\ EndOf(x).at = To(x) /\ StartOf(x).delta = 1 /\ EndOf(x).delta = -1
  BY <1>1, ReservedFacts, PointFacts
<1>4. window.from \in Nat /\ window.to \in Nat
  BY <1>1, ReservedFacts
<1>5. PICK x \in Reserved(scope, admitted) : p = StartOf(x) \/ p = EndOf(x)
  BY <1>1, PointFacts
<1>6. p.at \in Nat /\ p.delta \in {1, -1}
  BY <1>3, <1>5
<1>7. \A q \in Capacity!PointsOf(scope, admitted) \ rest : q = p \/ Capacity!PointBefore(q, p)
  BY <1>1 DEF PassedSoFar
<1>8. \A q \in Capacity!PointsOf(scope, admitted) : q.at \in Nat /\ q.delta \in {1, -1}
  <2> TAKE q \in Capacity!PointsOf(scope, admitted)
  <2>1. PICK y \in Reserved(scope, admitted) : q = StartOf(y) \/ q = EndOf(y)
    BY <1>1, PointFacts
  <2> QED BY <1>3, <2>1
<1>9. \A q \in Capacity!PointsOf(scope, admitted) \ rest : q.at <= p.at
  BY <1>6, <1>7, <1>8 DEF Capacity!PointBefore
<1>10. ASSUME NEW t \in Instants, p.at <= t, \A q \in rest : q.at > t
       PROVE  OpenIn(rest) = Covering(scope, admitted, t)
  <2>1. t \in Nat
    BY <1>4 DEF Instants
  <2>2. \A q \in Capacity!PointsOf(scope, admitted) : q \notin rest <=> q.at <= t
    BY <1>6, <1>8, <1>9, <1>10, <2>1
  <2>3. \A y \in Reserved(scope, admitted) : (StartOf(y) \notin rest <=> From(y) <= t) /\ (EndOf(y) \in rest <=> t < To(y))
    BY <1>3, <2>1, <2>2
  <2> QED BY <2>3 DEF OpenIn, Covering
<1>11. ASSUME p.delta = 1 PROVE p.at \in Instants /\ OpenIn(rest) \subseteq Covering(scope, admitted, p.at)
  <2>1. p = StartOf(x) /\ p.at = From(x)
    BY <1>3, <1>5, <1>11
  <2>2. p.at \in Instants
    BY <1>3, <1>4, <2>1 DEF Instants
  <2>3. ASSUME NEW y \in OpenIn(rest) PROVE y \in Covering(scope, admitted, p.at)
    <3>1. y \in Reserved(scope, admitted) /\ StartOf(y) \notin rest /\ EndOf(y) \in rest
      BY <2>3 DEF OpenIn
    <3>2. From(y) <= p.at
      BY <1>3, <1>9, <3>1
    <3>3. Capacity!PointBefore(p, EndOf(y))
      BY <1>1, <3>1
    <3>4. p.at < To(y)
      BY <1>3, <1>6, <1>11, <3>1, <3>3 DEF Capacity!PointBefore
    <3> QED BY <3>1, <3>2, <3>4 DEF Covering
  <2> QED BY <2>2, <2>3
<1> QED BY <1>10, <1>11

\* What covers an instant: the request, its siblings, and the rows that do.
LEMMA CoveringCount ==
    ASSUME SweepTypes, NEW n \in Nat, NEW t \in Instants
    PROVE  /\ Cardinality(Covering("all", n, t)) = Cardinality(Capacity!CoveringAt(t)) + n + 1
           /\ Cardinality(Covering("caller", n, t)) = Cardinality(Capacity!OwnAt(t)) + n + 1
<1>1. window.from \in Nat /\ window.to \in Nat /\ t \in Nat /\ window.from <= t /\ t < window.to
  <2>1. window.from \in Nat /\ window.to \in Nat
    BY ReservedFacts
  <2> QED BY <2>1 DEF Instants
<1>2. \A r \in Rows : stored[r].from \in Nat /\ stored[r].to \in Nat
  <2> TAKE r \in Rows
  <2>1. stored[r] \in Capacity!Reservations
    BY DEF SweepTypes
  <2> QED BY <2>1, SweepNumbers DEF Capacity!Reservations, Capacity!Intervals
<1>3. Cardinality((0 - n)..0) = n + 1 /\ IsFiniteSet((0 - n)..0)
  BY FS_Interval
<1>4. \A x \in (0 - n)..0 : x \notin Rows /\ From(x) <= t /\ t < To(x)
  BY <1>1, SweepNumbers DEF From, To
<1>5. \A r \in Rows : /\ (From(r) <= t <=> stored[r].from <= t) /\ (t < To(r) <=> t < stored[r].to)
                      /\ (stored[r].from <= t /\ t < stored[r].to => r \in Capacity!Meeting)
  BY <1>1, <1>2 DEF From, To, Capacity!MaxOf, Capacity!MinOf, Capacity!Meeting
<1>6. Covering("all", n, t) = ((0 - n)..0) \cup Capacity!CoveringAt(t)
  BY <1>4, <1>5 DEF Covering, Reserved, RowsOf, Capacity!CoveringAt, Capacity!Meeting
<1>7. Covering("caller", n, t) = ((0 - n)..0) \cup Capacity!OwnAt(t)
  BY <1>4, <1>5 DEF Covering, Reserved, RowsOf, Capacity!OwnAt, Capacity!CoveringAt, Capacity!Meeting
<1>8. ASSUME NEW S \in SUBSET Rows PROVE Cardinality(((0 - n)..0) \cup S) = Cardinality(S) + n + 1
  <2>1. IsFiniteSet(S) /\ Cardinality(S) \in Nat
    BY SweepNumbers, FS_Subset, FS_CardinalityType
  <2>2. ((0 - n)..0) \cap S = {}
    BY <1>4
  <2>3. Cardinality(((0 - n)..0) \cup S) = Cardinality((0 - n)..0) + Cardinality(S) - Cardinality(((0 - n)..0) \cap S)
    BY <1>3, <2>1, FS_Union
  <2>4. Cardinality(((0 - n)..0) \cap S) = 0
    BY <2>2, FS_EmptySet
  <2>5. Cardinality(((0 - n)..0) \cup S) = (n + 1) + Cardinality(S)
    BY <1>3, <2>1, <2>3, <2>4
  <2> QED BY <2>1, <2>5
<1>9. Capacity!CoveringAt(t) \in SUBSET Rows /\ Capacity!OwnAt(t) \in SUBSET Rows
  BY DEF Capacity!CoveringAt, Capacity!OwnAt
<1> QED BY <1>6, <1>7, <1>8, <1>9

LEMMA FitsIsCovering ==
    ASSUME SweepTypes, NEW n \in Nat
    PROVE  /\ Capacity!Fits(n + 1) <=> \A t \in Instants : /\ Cardinality(Covering("all", n, t)) <= GlobalConcurrency
                                                           /\ Cardinality(Covering("caller", n, t)) <= TenantConcurrency
<1>1. \A t : IsFiniteSet(Capacity!CoveringAt(t)) /\ IsFiniteSet(Capacity!OwnAt(t))
  <2>1. \A t : Capacity!CoveringAt(t) \subseteq Rows /\ Capacity!OwnAt(t) \subseteq Rows
    BY DEF Capacity!CoveringAt, Capacity!OwnAt
  <2> QED BY <2>1, SweepNumbers, FS_Subset
<1>2. \A t : Cardinality(Capacity!CoveringAt(t)) \in Nat /\ Cardinality(Capacity!OwnAt(t)) \in Nat
  BY <1>1, FS_CardinalityType
<1>3. \A t \in Instants :
          /\ Cardinality(Covering("all", n, t)) = Cardinality(Capacity!CoveringAt(t)) + (n + 1)
          /\ Cardinality(Covering("caller", n, t)) = Cardinality(Capacity!OwnAt(t)) + (n + 1)
  BY <1>2, CoveringCount
<1> QED BY <1>3, SweepCardinality DEF Capacity!Fits, Instants

\* More jobs need more room.
LEMMA FitsLess ==
    ASSUME SweepTypes, NEW m \in Nat, NEW n \in Nat, m <= n, Capacity!Fits(n)
    PROVE  Capacity!Fits(m)
<1>1. \A t : IsFiniteSet(Capacity!CoveringAt(t)) /\ IsFiniteSet(Capacity!OwnAt(t))
  <2>1. \A t : Capacity!CoveringAt(t) \subseteq Rows /\ Capacity!OwnAt(t) \subseteq Rows
    BY DEF Capacity!CoveringAt, Capacity!OwnAt
  <2> QED BY <2>1, SweepNumbers, FS_Subset
<1>2. \A t : Cardinality(Capacity!CoveringAt(t)) \in Nat /\ Cardinality(Capacity!OwnAt(t)) \in Nat
  BY <1>1, FS_CardinalityType
<1> QED BY <1>2, SweepCardinality, SweepNumbers DEF Capacity!Fits

LEMMA NothingOpen == ASSUME SweepTypes PROVE Cardinality(OpenIn(Capacity!PointsOf(scope, admitted))) = 0
<1>1. OpenIn(Capacity!PointsOf(scope, admitted)) = {}
  BY PointFacts DEF OpenIn, SweepTypes
<1> QED BY <1>1, FS_EmptySet

\* A pass begins with all of its points ahead.
LEMMA PassBegins ==
    ASSUME SweepTypes, points = Capacity!PointsOf(scope, admitted), count = 0, admitted < batch,
           scope = "caller" => \A t \in Instants : Cardinality(Covering("all", admitted, t)) <= GlobalConcurrency
    PROVE  PassedSoFar
<1>1. count = Cardinality(OpenIn(points)) /\ count <= Capacity!Cap(scope)
  BY NothingOpen, SweepNumbers DEF Capacity!Cap
<1>2. ASSUME NEW t \in Instants PROVE \E p \in points : ~(p.at > t)
  <2>1. admitted \in Nat /\ scope \in {"all", "caller"}
    BY DEF SweepTypes
  <2>2. 0 \in Reserved(scope, admitted) /\ window.from \in Nat /\ window.to \in Nat
    BY <2>1, ReservedFacts
  <2>3. StartOf(0) \in points /\ StartOf(0).at = From(0)
    BY <2>1, <2>2, PointFacts
  <2>4. From(0) = window.from
    BY SweepNumbers DEF From
  <2> QED BY <2>2, <2>3, <2>4 DEF Instants
<1> QED BY <1>1, <1>2 DEF PassedSoFar

LEMMA SweepInit == Capacity!Init => SweepInv
<1> SUFFICES ASSUME Capacity!Init PROVE SweepInv
  OBVIOUS
<1>1. SweepTypes /\ verdict = "open" /\ scope = "all" /\ admitted = 0
  BY SweepNumbers DEF Capacity!Init, SweepTypes
<1>2. points = Capacity!PointsOf(scope, admitted) /\ count = 0 /\ admitted < batch
  BY SweepNumbers DEF Capacity!Init
<1>3. PassedSoFar
  BY <1>1, <1>2, PassBegins
<1> QED BY <1>1, <1>3 DEF SweepInv, Capacity!SweepIsExact

\* The names that the steps leave alone.
LEMMA SameWindow ==
    ASSUME UNCHANGED <<stored, window>>
    PROVE  /\ Instants' = Instants
           /\ \A pass, n : /\ Capacity!PointsOf(pass, n)' = Capacity!PointsOf(pass, n)
                           /\ Reserved(pass, n)' = Reserved(pass, n)
           /\ \A pass, n, t : Covering(pass, n, t)' = Covering(pass, n, t)
           /\ \A n : Capacity!Fits(n)' = Capacity!Fits(n)
BY DEF Instants, Capacity!PointsOf, Capacity!Ends, Capacity!Meeting, Reserved, RowsOf, Covering, From, To,
   Capacity!Fits, Capacity!CoveringAt, Capacity!OwnAt

LEMMA SweepVisitStep == ASSUME SweepInv, Capacity!Visit PROVE SweepInv'
<1>1. /\ verdict = "open" /\ points # {} /\ UNCHANGED <<stored, window, batch, admitted, scope>>
      /\ SweepTypes /\ PassedSoFar
  BY DEF Capacity!Visit, SweepInv
<1>2. PICK p : p = Capacity!First
  OBVIOUS
<1>3. PICK rest : rest = points \ {p}
  OBVIOUS
<1>4. points' = rest /\ count' = count + p.delta
      /\ verdict' = IF count + p.delta > Capacity!Cap(scope) THEN "refused" ELSE "open"
  BY <1>1, <1>2, <1>3 DEF Capacity!Visit, Capacity!Cap
<1>5. /\ count + p.delta = Cardinality(OpenIn(rest))
      /\ \A q \in Capacity!PointsOf(scope, admitted) \ rest, o \in rest : Capacity!PointBefore(q, o)
      /\ p \in points
  BY <1>1, <1>2, <1>3, VisitCounts
<1>6. /\ \A t \in Instants : p.at <= t /\ (\A q \in rest : q.at > t) => OpenIn(rest) = Covering(scope, admitted, t)
      /\ p.delta = 1 => p.at \in Instants /\ OpenIn(rest) \subseteq Covering(scope, admitted, p.at)
  BY <1>1, <1>2, <1>3, OpenCovers
<1>7. admitted \in Nat /\ scope \in {"all", "caller"} /\ batch \in Nat /\ admitted < batch
  BY <1>1 DEF SweepTypes, PassedSoFar
<1>8. SweepTypes'
  BY <1>1, <1>4 DEF SweepTypes
<1>9. p.delta \in {1, -1} /\ p.at \in Nat
  <2>1. PICK x \in Reserved(scope, admitted) : p = StartOf(x) \/ p = EndOf(x)
    BY <1>1, <1>5, <1>7, PointFacts DEF PassedSoFar
  <2>2. From(x) \in Nat /\ To(x) \in Nat
    BY <1>1, <1>7, ReservedFacts
  <2> QED BY <2>1, <2>2 DEF StartOf, EndOf
<1>10. IsFiniteSet(Reserved(scope, admitted))
  BY <1>1, <1>7, ReservedFacts
<1>11. IsFiniteSet(OpenIn(points)) /\ count \in Nat /\ IsFiniteSet(OpenIn(rest))
  <2>1. OpenIn(points) \subseteq Reserved(scope, admitted) /\ OpenIn(rest) \subseteq Reserved(scope, admitted)
    BY DEF OpenIn
  <2>2. IsFiniteSet(OpenIn(points)) /\ IsFiniteSet(OpenIn(rest))
    BY <1>10, <2>1, FS_Subset
  <2> QED BY <1>1, <2>2, FS_CardinalityType DEF PassedSoFar
<1>12. Capacity!Cap(scope) \in Nat
  BY SweepNumbers DEF Capacity!Cap
<1>13. CASE count + p.delta > Capacity!Cap(scope)
  <2>1. p.delta = 1
    BY <1>1, <1>9, <1>11, <1>12, <1>13 DEF PassedSoFar
  <2>2. p.at \in Instants /\ OpenIn(rest) \subseteq Covering(scope, admitted, p.at)
    BY <1>6, <2>1
  <2>3. PICK C : C = Covering(scope, admitted, p.at)
    OBVIOUS
  <2>4. C \subseteq Reserved(scope, admitted)
    BY <2>3 DEF Covering
  <2>5. IsFiniteSet(C)
    BY <1>10, <2>4, FS_Subset
  <2>6. Cardinality(OpenIn(rest)) <= Cardinality(C) /\ Cardinality(C) \in Nat /\ Cardinality(OpenIn(rest)) \in Nat
    BY <1>11, <2>2, <2>3, <2>5, FS_Subset, FS_CardinalityType
  <2>7. Cardinality(C) > Capacity!Cap(scope)
    BY <1>5, <1>12, <1>13, <2>6
  <2>8. ~Capacity!Fits(admitted + 1)
    BY <1>1, <1>7, <1>12, <2>2, <2>3, <2>6, <2>7, FitsIsCovering DEF Capacity!Cap
  <2>9. ~Capacity!Fits(batch)
    BY <1>1, <1>7, <2>8, FitsLess
  <2> QED BY <1>1, <1>4, <1>8, <1>13, <2>9, SameWindow DEF SweepInv, Capacity!SweepIsExact
<1>14. CASE ~(count + p.delta > Capacity!Cap(scope))
  <2>1. verdict' = "open"
    BY <1>4, <1>14
  <2>2. OpenIn(points)' = OpenIn(rest) /\ Capacity!Cap(scope)' = Capacity!Cap(scope)
    BY <1>1, <1>4, SameWindow DEF OpenIn, StartOf, EndOf, From, To, Capacity!Cap
  <2>3. ASSUME NEW t \in Instants, \A q \in rest : q.at > t
        PROVE  Cardinality(Covering(scope, admitted, t)) <= Capacity!Cap(scope)
    <3>1. t \in Int
      BY <1>1, <1>7, ReservedFacts DEF Instants
    <3>2. CASE p.at > t
      BY <1>1, <1>3, <2>3, <3>2 DEF PassedSoFar
    <3>3. CASE p.at <= t
      <4>1. Cardinality(Covering(scope, admitted, t)) = count + p.delta
        BY <1>5, <1>6, <2>3, <3>3
      <4> QED BY <1>9, <1>11, <1>12, <1>14, <4>1
    <3> QED BY <1>9, <3>1, <3>2, <3>3
  <2>4. rest \subseteq Capacity!PointsOf(scope, admitted)
    BY <1>1, <1>3 DEF PassedSoFar
  <2>5. count' = Cardinality(OpenIn(rest)) /\ count' <= Capacity!Cap(scope)
    BY <1>4, <1>5, <1>9, <1>11, <1>12, <1>14
  <2>6. \A q, o : Capacity!PointBefore(q, o)' = Capacity!PointBefore(q, o)
    BY DEF Capacity!PointBefore
  <2>7. PassedSoFar'
    BY <1>1, <1>4, <1>5, <2>2, <2>3, <2>4, <2>5, <2>6, SameWindow DEF PassedSoFar
  <2> QED BY <1>8, <2>1, <2>7 DEF SweepInv, Capacity!SweepIsExact
<1> QED BY <1>13, <1>14

LEMMA PassBeginsFact ==
    /\ SweepTypes /\ points = Capacity!PointsOf(scope, admitted) /\ count = 0 /\ admitted < batch
    /\ scope = "caller" => \A t \in Instants : Cardinality(Covering("all", admitted, t)) <= GlobalConcurrency
    => PassedSoFar
BY PassBegins

LEMMA SweepOwnPassStep == ASSUME SweepInv, Capacity!OwnPass PROVE SweepInv'
<1>1. /\ verdict = "open" /\ points = {} /\ scope = "all" /\ SweepTypes /\ PassedSoFar
      /\ UNCHANGED <<stored, window, batch, admitted, verdict>>
      /\ scope' = "caller" /\ points' = Capacity!PointsOf("caller", admitted) /\ count' = 0
  BY DEF Capacity!OwnPass, SweepInv
<1>2. SweepTypes'
  BY <1>1 DEF SweepTypes
<1>3. \A t \in Instants : Cardinality(Covering("all", admitted, t)) <= GlobalConcurrency
  BY <1>1 DEF PassedSoFar, Capacity!Cap
<1>4. Instants' = Instants /\ \A t : Covering("all", admitted, t)' = Covering("all", admitted, t)
  BY <1>1 DEF Instants, Covering, Reserved, RowsOf, Capacity!Meeting, From, To
<1>5. points' = Capacity!PointsOf(scope, admitted)'
  BY <1>1 DEF Capacity!PointsOf, Capacity!Ends, Capacity!Meeting
<1>6. (admitted < batch)'
  BY <1>1 DEF PassedSoFar
<1>7. (\A t \in Instants : Cardinality(Covering("all", admitted, t)) <= GlobalConcurrency)'
  BY <1>3, <1>4
<1>8. (/\ SweepTypes /\ points = Capacity!PointsOf(scope, admitted) /\ count = 0 /\ admitted < batch
       /\ scope = "caller" => \A t \in Instants : Cardinality(Covering("all", admitted, t)) <= GlobalConcurrency
       => PassedSoFar)'
  BY PassBeginsFact, PTL
<1>9. PassedSoFar'
  BY <1>1, <1>2, <1>5, <1>6, <1>7, <1>8
<1> QED BY <1>1, <1>2, <1>9 DEF SweepInv, Capacity!SweepIsExact

LEMMA SweepInsertStep == ASSUME SweepInv, Capacity!Insert PROVE SweepInv'
<1>1. /\ verdict = "open" /\ points = {} /\ scope = "caller" /\ SweepTypes /\ PassedSoFar
      /\ UNCHANGED <<stored, window, batch>> /\ admitted' = admitted + 1
      /\ admitted \in Nat /\ batch \in Nat /\ admitted < batch
  BY DEF Capacity!Insert, SweepInv, SweepTypes, PassedSoFar
<1>2. CASE admitted' = batch
  <2>1. verdict' = "admitted" /\ UNCHANGED <<scope, points, count>>
    BY <1>2 DEF Capacity!Insert
  <2>2. SweepTypes'
    BY <1>1, <2>1 DEF SweepTypes
  <2>3. \A t \in Instants : Cardinality(Covering("all", admitted, t)) <= GlobalConcurrency
    BY <1>1 DEF PassedSoFar
  <2>4. \A t \in Instants : Cardinality(Covering("caller", admitted, t)) <= TenantConcurrency
    BY <1>1 DEF PassedSoFar, Capacity!Cap
  <2>5. Capacity!Fits(batch)
    BY <1>1, <1>2, <2>3, <2>4, FitsIsCovering
  <2>6. Capacity!Fits(batch)'
    BY <1>1, <2>5 DEF Capacity!Fits, Capacity!CoveringAt, Capacity!OwnAt
  <2> QED BY <2>1, <2>2, <2>6 DEF SweepInv, Capacity!SweepIsExact
<1>3. CASE admitted' # batch
  <2>1. scope' = "all" /\ points' = Capacity!PointsOf("all", admitted') /\ count' = 0 /\ verdict' = verdict
    BY <1>3 DEF Capacity!Insert
  <2>2. SweepTypes'
    BY <1>1, <2>1 DEF SweepTypes
  <2>3. points' = Capacity!PointsOf(scope, admitted)'
    BY <1>1, <2>1 DEF Capacity!PointsOf, Capacity!Ends, Capacity!Meeting
  <2>4. (admitted < batch)'
    BY <1>1, <1>3
  <2>5. (/\ SweepTypes /\ points = Capacity!PointsOf(scope, admitted) /\ count = 0 /\ admitted < batch
         /\ scope = "caller" => \A t \in Instants : Cardinality(Covering("all", admitted, t)) <= GlobalConcurrency
         => PassedSoFar)'
    BY PassBeginsFact, PTL
  <2>6. PassedSoFar'
    BY <2>1, <2>2, <2>3, <2>4, <2>5
  <2> QED BY <1>1, <2>1, <2>2, <2>6 DEF SweepInv, Capacity!SweepIsExact
<1> QED BY <1>2, <1>3

LEMMA SweepStill == ASSUME SweepInv, UNCHANGED capacity PROVE SweepInv'
<1>1. UNCHANGED <<stored, window, batch, admitted, scope, points, count, verdict>>
  BY DEF capacity
<1>2. SweepTypes' /\ (verdict = "open")' = (verdict = "open")
  BY <1>1 DEF SweepInv, SweepTypes
<1>3. Capacity!Fits(batch)' = Capacity!Fits(batch)
  BY <1>1 DEF Capacity!Fits, Capacity!CoveringAt, Capacity!OwnAt
<1>4. PassedSoFar' = PassedSoFar
  BY <1>1 DEF PassedSoFar, Capacity!PointsOf, Capacity!Ends, Capacity!Meeting, Capacity!PointBefore, OpenIn, Covering,
     Reserved, RowsOf, StartOf, EndOf, From, To, Capacity!Cap, Instants
<1> QED BY <1>1, <1>2, <1>3, <1>4 DEF SweepInv, Capacity!SweepIsExact

\* The loop over the ends of reservations admits a request exactly when every
\* instant of its window has room for all its jobs (SweepIsExact), however many
\* rows there are and whatever ends coincide (Repository._capacity).
THEOREM SweepIsExactEverywhere == EachSpec => []SweepIsExact
<1> DEFINE Swept == part = "capacity" => SweepInv
<1>1. EachInit => Swept
  BY SweepInit DEF EachInit
<1>2. Swept /\ [EachNext]_every => Swept'
  <2> SUFFICES ASSUME Swept, [EachNext]_every PROVE Swept'
    OBVIOUS
  <2>1. CASE part # "capacity"
    BY <2>1 DEF EachNext, every
  <2>2. CASE part = "capacity"
    <3>1. SweepInv
      BY <2>2
    <3>2. Capacity!Visit \/ Capacity!OwnPass \/ Capacity!Insert \/ UNCHANGED capacity
      BY <2>2 DEF EachNext, every, Capacity!Next
    <3> QED BY <3>1, <3>2, SweepVisitStep, SweepOwnPassStep, SweepInsertStep, SweepStill
  <2> QED BY <2>1, <2>2
<1>3. Swept => SweepIsExact
  BY DEF SweepIsExact, SweepInv
<1> QED BY <1>1, <1>2, <1>3, PTL DEF EachSpec
=============================================================================
