---------------------------- MODULE WakeupChain ----------------------------
(***************************************************************************)
(* The queue deployment's chain of wakeups (web/lib/dispatch-wakeup.ts,   *)
(* web/api/wake.ts): the API and a daily cron publish immediate messages;  *)
(* the one consumer checks that its deployment is the live one, dispatches *)
(* what is due, asks for the next due time and publishes a follow-up for   *)
(* it.  A follow-up's target is rounded up to a bucket, at least MinDelay  *)
(* ahead, and its idempotency key is (release, target): the queue swallows *)
(* a second message with a key it has accepted.  Delivery is at least      *)
(* once; a failed delivery is retried, at most MaxDeliveries times.        *)
(*                                                                         *)
(* Time is in units of half a bucket (15 s).  An item is a job with the    *)
(* time repository.next_wakeup reports for it.                             *)
(***************************************************************************)
EXTENDS Integers, FiniteSets, FiniteSetsExt

CONSTANTS Items,
          Bucket, MinDelay, MaxDelay, RetryAfter, MaxDeliveries,
          CronAt,       \* when the daily cron comes
          Dues,         \* how far ahead of now an item may fall due
          MaxTime,      \* bound on the clock
          MaxQueue,     \* bound on the messages the publishers leave waiting
          MaxFailures   \* bound on failed or lost calls

\* Half a minute at least and five days at most ahead, in buckets of half a minute.
Parameters ==
    /\ IsFiniteSet(Items) /\ Dues \subseteq Nat
    /\ {Bucket, MaxDelay, MinDelay, MaxDeliveries} \subseteq Nat \ {0}
    /\ {RetryAfter, MaxTime, MaxFailures} \subseteq Nat
    /\ Bucket <= MaxDelay /\ RetryAfter <= MaxDelay

VARIABLES now,
          live,      \* the release /api/live answers with
          queue,     \* messages: [at, release, tries]
          keys,      \* accepted idempotency keys: <<release, target>>
          phase,     \* the consumer: idle, live, dispatch, next, publish
          msg,       \* the message it holds (a set of at most one)
          nextAt,    \* the answer of next-wakeup, or None
          due,       \* item -> Absent, Done, or the time it falls due
          told,      \* items whose wakeup was accepted by the queue
          failures

vars == <<now, live, queue, keys, phase, msg, nextAt, due, told, failures>>
consumer == <<phase, msg, nextAt>>

None == -1
Absent == -2
Done == -3
Releases == {1, 2}
Times == 0..(MaxTime + MaxDelay + Bucket)
Message == [at : Times, release : Releases, tries : 0..(MaxDeliveries - 1)]

TypeOK ==
    /\ now \in 0..MaxTime /\ live \in Releases /\ failures \in 0..MaxFailures
    /\ queue \subseteq Message /\ msg \subseteq Message /\ Cardinality(msg) <= 1
    /\ keys \subseteq Releases \X Times
    /\ phase \in {"idle", "live", "dispatch", "next", "publish"}
    /\ (phase = "idle") = (msg = {})
    /\ nextAt \in Int /\ due \in [Items -> Int] /\ told \subseteq Items

Init ==
    /\ now = 0 /\ live = 1 /\ queue = {} /\ keys = {}
    /\ phase = "idle" /\ msg = {} /\ nextAt = None
    /\ due = [i \in Items |-> Absent] /\ told = {} /\ failures = 0

Pending == {i \in Items : due[i] >= 0}
Fail == failures < MaxFailures /\ failures' = failures + 1

-----------------------------------------------------------------------------
(* Publishers *)

Ceil(t) == ((t + Bucket - 1) \div Bucket) * Bucket
Floor(t) == (t \div Bucket) * Bucket
LeastOf(a, b) == IF a < b THEN a ELSE b
GreatestOf(a, b) == IF a > b THEN a ELSE b

\* An immediate message has no key; the live deployment publishes it.
Room == Cardinality(queue) < MaxQueue
Immediate == [at |-> now, release |-> live, tries |-> 0]

\* The API commits, then posts to /api/wake; the post may be lost.
Enqueue(i, d) ==
    /\ due[i] = Absent /\ Room
    /\ due' = [due EXCEPT ![i] = now + d]
    /\ \/ queue' = queue \cup {Immediate} /\ told' = told \cup {i} /\ UNCHANGED failures
       \/ Fail /\ UNCHANGED <<queue, told>>
    /\ UNCHANGED <<now, live, keys, consumer>>

Cron ==
    /\ now = CronAt /\ Room
    /\ queue' = queue \cup {Immediate}
    /\ told' = Pending
    /\ UNCHANGED <<now, live, keys, consumer, due, failures>>

\* Production moves to the next release; its own wakeups start from the next
\* notification, health check or cron.
Deploy ==
    /\ live = 1 /\ live' = 2
    /\ told' = {}
    /\ UNCHANGED <<now, queue, keys, consumer, due, failures>>

Pass == /\ now < MaxTime /\ now' = now + 1
        /\ UNCHANGED <<live, queue, keys, consumer, due, told, failures>>

-----------------------------------------------------------------------------
(* consumeDispatchWakeup, in one delivery *)

Deliver(m) ==
    /\ phase = "idle" /\ m \in queue /\ m.at <= now
    /\ queue' = queue \ {m} /\ msg' = {m} /\ phase' = "live"
    /\ UNCHANGED <<now, live, keys, nextAt, due, told, failures>>

Acknowledge == msg' = {} /\ phase' = "idle" /\ nextAt' = None

MoreDeliveries(m) == m.tries + 1 < MaxDeliveries

\* Any failure throws: the queue delivers the message again later, and drops
\* it after its last delivery (the chain's items then wait for the cron).
Redeliver(m) ==
    IF MoreDeliveries(m)
    THEN /\ queue' = queue \cup {[m EXCEPT !.at = now + RetryAfter, !.tries = @ + 1]}
         /\ UNCHANGED told
    ELSE told' = {} /\ UNCHANGED queue

Throw(m) ==
    /\ m \in msg /\ Fail /\ Redeliver(m) /\ Acknowledge
    /\ UNCHANGED <<now, live, keys, due>>

\* The version fence: an old deployment acknowledges without any work.
CheckLive(m) ==
    /\ phase = "live" /\ m \in msg
    /\ \/ m.release = live /\ phase' = "dispatch" /\ UNCHANGED <<msg, nextAt>>
       \/ m.release # live /\ Acknowledge
    /\ UNCHANGED <<now, live, queue, keys, due, told, failures>>

\* The automation tick and the dispatch: some of what is due is served, or
\* gets a lease or a retry that falls due later.
Dispatch(served, later) ==
    /\ phase = "dispatch"
    /\ served \cup later \subseteq {i \in Pending : due[i] <= now}
    /\ served \cap later = {}
    /\ due' = [i \in Items |-> IF i \in served THEN Done
                               ELSE IF i \in later THEN now + 1 ELSE due[i]]
    /\ phase' = "next"
    /\ UNCHANGED <<now, live, queue, keys, msg, nextAt, told, failures>>

NextWakeup ==
    /\ phase = "next"
    /\ nextAt' = IF Pending = {} THEN None ELSE Min({due[i] : i \in Pending})
    /\ phase' = "publish"
    /\ UNCHANGED <<now, live, queue, keys, msg, due, told, failures>>

TargetNow == LeastOf(Ceil(GreatestOf(nextAt, now)), Floor(now + MaxDelay))

Target == LeastOf(Ceil(GreatestOf(nextAt, now + MinDelay)), Floor(now + MaxDelay))

\* send(): a key the queue has accepted before is swallowed.
Send(m, t) ==
    /\ keys' = keys \cup {<<m.release, t>>}
    /\ queue' = IF <<m.release, t>> \in keys THEN queue
                ELSE queue \cup {[at |-> t, release |-> m.release, tries |-> 0]}

Publish(m) ==
    /\ phase = "publish" /\ m \in msg
    /\ IF nextAt = None THEN UNCHANGED <<queue, keys>> ELSE Send(m, Target)
    /\ Acknowledge
    /\ UNCHANGED <<now, live, due, told, failures>>

\* Accepted, but after the caller's eight seconds: the delivery fails.
PublishedLate(m) ==
    /\ phase = "publish" /\ m \in msg /\ nextAt # None
    /\ Fail
    /\ LET t == Target
           again == [m EXCEPT !.at = now + RetryAfter, !.tries = @ + 1]
       IN /\ keys' = keys \cup {<<m.release, t>>}
          /\ queue' = queue
                \cup (IF <<m.release, t>> \in keys THEN {}
                      ELSE {[at |-> t, release |-> m.release, tries |-> 0]})
                \cup (IF MoreDeliveries(m) THEN {again} ELSE {})
    /\ Acknowledge
    /\ UNCHANGED <<now, live, due, told>>

-----------------------------------------------------------------------------
Next == \/ \E i \in Items, d \in Dues : Enqueue(i, d)
        \/ Cron \/ Deploy \/ Pass
        \/ \E m \in queue : Deliver(m)
        \/ \E m \in msg : Throw(m) \/ CheckLive(m) \/ Publish(m) \/ PublishedLate(m)
        \/ \E served, later \in SUBSET Items : Dispatch(served, later)
        \/ NextWakeup

Spec == Init /\ [][Next]_vars

-----------------------------------------------------------------------------
(* Properties *)

\* No item the queue was told of is forgotten or left to sleep: a delivery of
\* the live release is in hand, or one waits in the queue that comes no later
\* than the item is due, a retry, or the rounding of a follow-up allows.  In
\* particular the key of a consumed follow-up never swallows the next one of
\* its chain ("a consumed signal's key cannot suppress the next one",
\* dispatch-wakeup.ts), and a wakeup for an earlier time is never coalesced
\* with a later one.
DueIsCovered ==
    \A i \in told \cap Pending :
        LET latest == GreatestOf(due[i], now) + GreatestOf(MinDelay, RetryAfter) + Bucket
        IN \E m \in queue \cup msg : m.release = live /\ m.at <= latest
=============================================================================
