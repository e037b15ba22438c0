-------------------------- MODULE OperationsOutbox --------------------------
(***************************************************************************)
(* Operational alerts (server/operations.py) and their delivery by the     *)
(* dispatcher's tick (web/api/dispatch.ts).  collect() is one transaction: *)
(* it takes the cooldown row of every triggered code, in sorted order, and *)
(* holds it to its commit; a code whose cooldown has not passed is         *)
(* skipped, and of the others it looks for the pending alert, which it     *)
(* then refreshes or, finding none, inserts.  Ticks overlap, so two        *)
(* collectors run at once, and one tick acknowledges what another delivers,*)
(* also between a collector's look and its write.                          *)
(* The webhook is called with the alert's id as its idempotency key.       *)
(***************************************************************************)
EXTENDS Naturals, FiniteSets, FiniteSetsExt

CONSTANTS Collectors, Couriers,
          Codes,      \* numbered in the code's sorted order
          Cooldown, Retention,
          MaxTime, MaxAlerts   \* bounds

VARIABLES now,
          nextEmit,   \* code -> next_emit_at (the cooldown row)
          outbox,     \* alerts: [id, code, acked, at]
          created,    \* alerts created so far
          triggered,  \* collector -> codes it still has to go through
          claimed,    \* collector -> cooldown rows it holds and has updated
          locked,     \* collector -> cooldown rows it holds
          seeking,    \* collector -> the code it claimed and has yet to look for
          found,      \* collector -> the pending alert it saw and has yet to refresh
          absent,     \* collector -> the code it saw no pending alert of and has yet to insert
          refreshed,  \* collector -> alerts it refreshed: their rows are its own to its commit
          inserted,   \* collector -> alerts it inserted, which nobody sees before its commit
          asOf,       \* collector -> the clock of its snapshot
          working,    \* collectors in a transaction
          holding,    \* courier -> ids it listed and still has to deliver
          received    \* ids the webhook has accepted

writes == <<seeking, found, absent, refreshed, inserted>>
collecting == <<triggered, claimed, locked, writes, asOf, working>>
vars == <<now, nextEmit, outbox, created, collecting, holding, received>>

Ids == 1..MaxAlerts
Alert == [id : Ids, code : Codes, acked : BOOLEAN, at : 0..MaxTime]
Pending == {a \in outbox : ~a.acked}

TypeOK ==
    /\ now \in 0..MaxTime /\ created \in 0..MaxAlerts
    /\ nextEmit \in [Codes -> 0..(MaxTime + Cooldown)]
    /\ outbox \subseteq Alert
    /\ \A c \in Collectors : claimed[c] \subseteq locked[c] /\ locked[c] \subseteq Codes
    /\ \A c \in Collectors \ working : locked[c] = {} /\ triggered[c] = {}
    /\ \A c \in Collectors :
          /\ seeking[c] \cup absent[c] \subseteq claimed[c] /\ found[c] \cup refreshed[c] \subseteq Ids
          /\ inserted[c] \subseteq Alert
    /\ asOf \in [Collectors -> 0..MaxTime] /\ working \subseteq Collectors
    /\ holding \in [Couriers -> SUBSET Ids] /\ received \subseteq Ids

Init ==
    /\ now = 0 /\ created = 0 /\ outbox = {} /\ received = {} /\ working = {}
    /\ nextEmit = [k \in Codes |-> 0]
    /\ triggered = [c \in Collectors |-> {}] /\ claimed = [c \in Collectors |-> {}]
    /\ locked = [c \in Collectors |-> {}] /\ asOf = [c \in Collectors |-> 0]
    /\ seeking = [c \in Collectors |-> {}] /\ found = [c \in Collectors |-> {}]
    /\ absent = [c \in Collectors |-> {}] /\ refreshed = [c \in Collectors |-> {}]
    /\ inserted = [c \in Collectors |-> {}]
    /\ holding = [c \in Couriers |-> {}]

\* A transaction of seconds does not outlive a retention of days.
Pass == /\ now < MaxTime /\ now' = now + 1
        /\ \A c \in working : now + 1 < asOf[c] + Retention
        /\ UNCHANGED <<nextEmit, outbox, created, collecting, holding, received>>

-----------------------------------------------------------------------------
(* collect() *)

\* The snapshot of the metrics may trigger any set of codes.
Begin(c, codes) ==
    /\ c \notin working /\ working' = working \cup {c}
    /\ triggered' = [triggered EXCEPT ![c] = codes]
    /\ asOf' = [asOf EXCEPT ![c] = now]
    /\ UNCHANGED <<now, nextEmit, outbox, created, claimed, locked, writes, holding, received>>

AnyOf(codes, k) == k \in codes

\* "Fixed sorted lock order avoids deadlock between collectors."
NextOf(codes, k) == k \in codes /\ k = Min(codes)

\* Between the claim of a code and the write that its look decided.
Midway(c) == seeking[c] # {} \/ found[c] # {} \/ absent[c] # {}

Unlocked(k) == TRUE
Free(k) == \A c \in Collectors : k \notin locked[c]

DueUnchecked(c, k) == c \in working

Due(c, k) == nextEmit[k] <= asOf[c]

\* INSERT ... ON CONFLICT and UPDATE ... RETURNING wait for the row; the update
\* reads the committed time.
LockCode(c, k) ==
    /\ ~Midway(c) /\ NextOf(triggered[c], k) /\ Free(k)
    /\ triggered' = [triggered EXCEPT ![c] = @ \ {k}]
    /\ locked' = [locked EXCEPT ![c] = @ \cup {k}]
    /\ IF Due(c, k) THEN /\ claimed' = [claimed EXCEPT ![c] = @ \cup {k}]
                         /\ seeking' = [seeking EXCEPT ![c] = {k}]
       ELSE UNCHANGED <<claimed, seeking>>
    /\ UNCHANGED <<now, nextEmit, outbox, created, found, absent, refreshed, inserted, asOf, working,
                   holding, received>>

AnyOfCode(k) == {a \in outbox : a.code = k}
NoneOfCode(k) == {}

PendingOf(k) == {a \in Pending : a.code = k}

\* What is pending as this statement sees it; an acknowledgement may follow.
Look(c, k) ==
    /\ k \in seeking[c] /\ seeking' = [seeking EXCEPT ![c] = {}]
    /\ IF PendingOf(k) # {}
       THEN found' = [found EXCEPT ![c] = {a.id : a \in PendingOf(k)}] /\ UNCHANGED absent
       ELSE absent' = [absent EXCEPT ![c] = {k}] /\ UNCHANGED found
    /\ UNCHANGED <<now, nextEmit, outbox, created, triggered, claimed, locked, refreshed, inserted, asOf, working,
                   holding, received>>

\* By its id, acknowledged meanwhile or not.
Refresh(c) ==
    /\ found[c] # {} /\ found' = [found EXCEPT ![c] = {}]
    /\ refreshed' = [refreshed EXCEPT ![c] = @ \cup found[c]]
    /\ UNCHANGED <<now, nextEmit, outbox, created, triggered, claimed, locked, seeking, absent, inserted, asOf,
                   working, holding, received>>

Insert(c, k) ==
    /\ k \in absent[c] /\ absent' = [absent EXCEPT ![c] = {}]
    /\ created < MaxAlerts /\ created' = created + 1
    /\ inserted' = [inserted EXCEPT ![c] = @ \cup {[id |-> created + 1, code |-> k, acked |-> FALSE, at |-> 0]}]
    /\ UNCHANGED <<now, nextEmit, outbox, triggered, claimed, locked, seeking, found, refreshed, asOf, working,
                   holding, received>>

Done(c) ==
    /\ working' = working \ {c}
    /\ locked' = [locked EXCEPT ![c] = {}] /\ claimed' = [claimed EXCEPT ![c] = {}]
    /\ triggered' = [triggered EXCEPT ![c] = {}]
    /\ seeking' = [seeking EXCEPT ![c] = {}] /\ found' = [found EXCEPT ![c] = {}]
    /\ absent' = [absent EXCEPT ![c] = {}] /\ refreshed' = [refreshed EXCEPT ![c] = {}]
    /\ inserted' = [inserted EXCEPT ![c] = {}] /\ asOf' = [asOf EXCEPT ![c] = 0]
    /\ UNCHANGED <<now, created, holding, received>>

OldOrPending(a, t) == a.at + Retention <= t

Old(a, t) == a.acked /\ a.at + Retention <= t

\* The retention purge and the commit, which shows the writes and frees the rows.
Commit(c) ==
    /\ c \in working /\ triggered[c] = {} /\ ~Midway(c)
    /\ outbox' = {a \in outbox : ~Old(a, asOf[c])} \cup inserted[c]
    /\ nextEmit' = [k \in Codes |-> IF k \in claimed[c] THEN asOf[c] + Cooldown ELSE nextEmit[k]]
    /\ Done(c)

\* A database error or a killed request rolls everything back.
Rollback(c) ==
    /\ c \in working /\ Done(c)
    /\ UNCHANGED <<nextEmit, outbox>>

-----------------------------------------------------------------------------
(* pending_alerts(), the webhook and acknowledge() *)

List(d) ==
    /\ holding[d] = {} /\ Pending # {}
    /\ holding' = [holding EXCEPT ![d] = {a.id : a \in Pending}]
    /\ UNCHANGED <<now, nextEmit, outbox, created, collecting, received>>

Acked(i) == {IF a.id = i /\ ~a.acked THEN [a EXCEPT !.acked = TRUE, !.at = now] ELSE a : a \in outbox}

\* Accepted and acknowledged, unless a collector holds the row; accepted with the
\* acknowledgement lost; or refused.  A failure leaves the alert in the outbox for
\* the next tick.
Deliver(d, i) ==
    /\ i \in holding[d]
    /\ holding' = [holding EXCEPT ![d] = @ \ {i}]
    /\ \/ received' = received \cup {i} /\ outbox' = Acked(i) /\ \A c \in Collectors : i \notin refreshed[c]
       \/ received' = received \cup {i} /\ UNCHANGED outbox
       \/ UNCHANGED <<received, outbox>>
    /\ UNCHANGED <<now, nextEmit, created, collecting>>

-----------------------------------------------------------------------------
Collect(c) == \/ \E codes \in SUBSET Codes : Begin(c, codes)
              \/ \E k \in Codes : LockCode(c, k) \/ Look(c, k) \/ Insert(c, k)
              \/ Refresh(c) \/ Commit(c) \/ Rollback(c)

Next == \/ Pass
        \/ \E c \in Collectors : Collect(c)
        \/ \E d \in Couriers : List(d) \/ \E i \in Ids : Deliver(d, i)

Spec == Init /\ [][Next]_vars

-----------------------------------------------------------------------------
(* Properties *)

\* A code has one pending alert, the inserts nobody sees yet included: the unique
\* index never fails a collection, however collectors and acknowledgements interleave.
OnePendingPerCode ==
    \A a, b \in Pending \cup UNION {inserted[c] : c \in Collectors} : a.code = b.code => a = b

\* Collectors that overlap never wait for each other in a circle.
NoDeadlock ==
    \A c \in working : triggered[c] # {} =>
        \E d \in working : triggered[d] = {} \/ Midway(d) \/ \E k \in Codes : NextOf(triggered[d], k) /\ Free(k)

\* Two emissions of a code are a cooldown apart, whichever collectors make them:
\* one whose snapshot is older than the other's emission does not emit again.
CooldownHolds ==
    [][\A k \in Codes : nextEmit'[k] # nextEmit[k] /\ nextEmit[k] # 0
           => nextEmit'[k] >= nextEmit[k] + Cooldown]_vars

\* An emission has its alert: one that waits for its delivery, or one acknowledged
\* since the emission's snapshot, between the collector's look and its write.
EmissionsAreCarried ==
    [][\A k \in Codes : nextEmit'[k] # nextEmit[k] =>
           \E a \in outbox' : a.code = k /\ (~a.acked \/ a.at + Cooldown >= nextEmit'[k])]_vars

\* An alert leaves the outbox only after the webhook had it, and only after its
\* retention.
NothingUndeliveredIsDropped ==
    [][\A a \in outbox : (\A b \in outbox' : b.id # a.id) => a.id \in received]_vars

\* However collectors and couriers overlap, an alert is raised once per cooldown
\* and pending once, carries every emission, is dropped only when it was delivered,
\* and nobody waits for ever.
AlertsSentOnce ==
    /\ CooldownHolds /\ EmissionsAreCarried /\ NothingUndeliveredIsDropped
    /\ [](TypeOK /\ OnePendingPerCode /\ NoDeadlock)
=============================================================================
