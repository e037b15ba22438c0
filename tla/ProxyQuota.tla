----------------------------- MODULE ProxyQuota -----------------------------
(***************************************************************************)
(* The shared proxy balance and its notices (server/proxy_quota.py), and   *)
(* the ticks that poll the provider, post the balance, lease one notice,   *)
(* send it and acknowledge it (web/lib/proxy-alerts.ts).  Ticks overlap:   *)
(* their balances arrive late and out of order, a send or the answer to it *)
(* may be lost.                                                            *)
(*                                                                         *)
(* Bytes are abstracted to the bands observe() tells apart:                *)
(*   0  at most CRITICAL            1  up to CRITICAL * 1.1                 *)
(*   2  up to LOW                   3  up to LOW * 1.1         4  above     *)
(***************************************************************************)
EXTENDS Integers, FiniteSets, FiniteSetsExt

CONSTANTS Ticks,
          Lease,      \* a notice's lease (300 s in the code)
          Budget,     \* how long a tick spends on the quota (25 s)
          MaxTime,    \* bound on the clock
          MaxNotices  \* bound on the notices created

VARIABLES now,
          observed,   \* the balance row: [band, at]
          fired,      \* the latches: thresholds with *_fired set
          pending,    \* unacknowledged notices: [id, threshold, holder, until]
          created,    \* notices created so far
          pc,         \* tick -> idle, post, claim, send, ack
          reading,    \* tick -> the balance it read: [band, at]
          notice,     \* tick -> the id it leased
          delivered,  \* id -> times the recipient got it
          excused,    \* ids whose acknowledgement was lost or refused
          emitted     \* thresholds a notice was emitted for since they rearmed

vars == <<now, observed, fired, pending, created, pc, reading, notice,
          delivered, excused, emitted>>

\* A tick is over long before its lease is (25 s of 300 s).
Parameters == {Lease, Budget, MaxTime, MaxNotices} \subseteq Nat /\ Budget < Lease

Low == 2
Critical == 0
Thresholds == {Low, Critical}
Bands == 0..4
Ids == 1..MaxNotices
Nobody == "nobody"
Unread == [band |-> 4, at |-> 0]

TypeOK ==
    /\ now \in 0..MaxTime
    /\ observed \in [band : Bands, at : -1..MaxTime]
    /\ fired \subseteq Thresholds /\ emitted \subseteq Thresholds
    /\ pending \subseteq [id : Ids, threshold : Thresholds,
                          holder : Ticks \cup {Nobody}, until : 0..(MaxTime + Lease)]
    /\ created \in 0..MaxNotices
    /\ pc \in [Ticks -> {"idle", "post", "claim", "send", "ack"}]
    /\ reading \in [Ticks -> [band : Bands, at : 0..MaxTime]]
    /\ notice \in [Ticks -> {0} \cup Ids]
    /\ delivered \in [Ids -> Nat]
    /\ excused \subseteq Ids

Init ==
    /\ now = 0 /\ observed = [band |-> 4, at |-> -1]
    /\ fired = {} /\ pending = {} /\ created = 0 /\ emitted = {}
    /\ pc = [t \in Ticks |-> "idle"] /\ notice = [t \in Ticks |-> 0]
    /\ reading = [t \in Ticks |-> Unread]
    /\ delivered = [i \in Ids |-> 0] /\ excused = {}

row == <<observed, fired, pending, created, emitted>>
outside == <<delivered, excused>>
Go(t, p) == pc' = [pc EXCEPT ![t] = p]
Stop(t) == /\ Go(t, "idle")
           /\ reading' = [reading EXCEPT ![t] = Unread] /\ notice' = [notice EXCEPT ![t] = 0]

\* A tick gives each call only what is left of its budget.
Pass == /\ now < MaxTime /\ now' = now + 1
        /\ \A t \in Ticks : pc[t] # "idle" => now < reading[t].at + Budget
        /\ UNCHANGED <<row, pc, reading, notice, outside>>

\* readProxyBalance: imports use the plan up and a purchase refills it, so any
\* band may be read; a reading that fails is never posted as zero.
ReadBalance(t, band) ==
    /\ pc[t] = "idle" /\ Go(t, "post")
    /\ reading' = [reading EXCEPT ![t] = [band |-> band, at |-> now]]
    /\ UNCHANGED <<now, row, notice, outside>>

-----------------------------------------------------------------------------
(* observe(), one transaction on the locked balance row *)

\* Ten per cent above, so a balance around a threshold does not flap.
Rearmed(band) == {th \in Thresholds : band > th + 1}

\* The UPDATE's condition: a late poll response changes nothing.
Newer(r) == r.at > observed.at

TriggeredAgain(band) == {th \in Thresholds : band <= th}

Triggered(band) == {th \in Thresholds : band <= th /\ th \notin fired}

EachThreshold(triggered) == triggered

MostUrgent(triggered) == IF triggered = {} THEN {} ELSE {Min(triggered)}

\* One notice, for the most urgent threshold; it and a rearming retire others.
ObserveRow(r) ==
    LET urgent == MostUrgent(Triggered(r.band))
        kept == {n \in pending : /\ n.threshold \notin Rearmed(r.band)
                                 /\ \A th \in urgent : n.threshold <= th}
    IN /\ observed' = r
       /\ fired' = (fired \ Rearmed(r.band)) \cup Triggered(r.band)
       /\ pending' = kept \cup {[id |-> created + 1, threshold |-> th,
                                 holder |-> Nobody, until |-> 0] : th \in urgent}
       /\ created' = created + Cardinality(urgent)
       /\ emitted' = (emitted \ Rearmed(r.band)) \cup urgent

Observe(t) ==
    /\ pc[t] = "post" /\ Go(t, "claim")
    /\ IF Newer(reading[t])
       THEN created < MaxNotices /\ ObserveRow(reading[t])
       ELSE UNCHANGED row
    /\ UNCHANGED <<now, reading, notice, outside>>

-----------------------------------------------------------------------------
(* claim(), deliverProxyAlert(), acknowledge() *)

AllPending == pending

Leasable == {n \in pending : n.until <= now}

\* The oldest pending notice whose lease is free.
ClaimNotice(t) ==
    /\ pc[t] = "claim" /\ Leasable # {}
    /\ LET n == CHOOSE n \in Leasable : \A o \in Leasable : n.id <= o.id
       IN /\ pending' = (pending \ {n}) \cup {[n EXCEPT !.holder = t, !.until = now + Lease]}
          /\ notice' = [notice EXCEPT ![t] = n.id]
    /\ Go(t, "send")
    /\ UNCHANGED <<now, observed, fired, created, emitted, reading, outside>>

NothingToClaim(t) ==
    /\ pc[t] = "claim" /\ Leasable = {} /\ Stop(t)
    /\ UNCHANGED <<now, row, outside>>

\* The message arrives, and the bot's answer may still be lost.
Send(t) ==
    /\ pc[t] = "send"
    /\ delivered' = [delivered EXCEPT ![notice[t]] = @ + 1]
    /\ \/ Go(t, "ack") /\ UNCHANGED <<excused, reading, notice>>
       \/ Stop(t) /\ excused' = excused \cup {notice[t]}
    /\ UNCHANGED <<now, row>>

SendFails(t) ==
    /\ pc[t] = "send" /\ Stop(t)
    /\ UNCHANGED <<now, row, outside>>

Held(t) == {n \in pending : n.id = notice[t] /\ n.holder = t /\ n.until > now}

\* Only the holder of an unexpired lease acknowledges: the notice may have been
\* retired since.
Acknowledge(t) ==
    /\ pc[t] = "ack" /\ Stop(t)
    /\ pending' = pending \ Held(t)
    /\ excused' = IF Held(t) = {} THEN excused \cup {notice[t]} ELSE excused
    /\ UNCHANGED <<now, observed, fired, created, emitted, delivered>>

\* The tick is killed, or the acknowledgement does not arrive.
Killed(t) ==
    /\ pc[t] # "idle" /\ Stop(t)
    /\ excused' = IF pc[t] = "ack" THEN excused \cup {notice[t]} ELSE excused
    /\ UNCHANGED <<now, row, delivered>>

-----------------------------------------------------------------------------
Tick(t) == \/ \E band \in Bands : ReadBalance(t, band)
           \/ Observe(t) \/ ClaimNotice(t) \/ NothingToClaim(t)
           \/ Send(t) \/ SendFails(t) \/ Acknowledge(t) \/ Killed(t)

Next == Pass \/ \E t \in Ticks : Tick(t)

Spec == Init /\ [][Next]_vars

-----------------------------------------------------------------------------
(* Properties *)

\* At most one notice waits, and it is about the present: a refill retires what
\* it made obsolete and an urgent notice replaces the milder one, in whatever
\* order the overlapping ticks' readings arrive.
OneCurrentNotice ==
    /\ Cardinality(pending) <= 1
    /\ \A n \in pending : observed.band <= n.threshold + 1

\* The recipient gets a notice once, unless its acknowledgement was lost ("if
\* delivery succeeds but its acknowledgement is lost, a later retry can duplicate",
\* docs/server-proxy-import.md).
SentOnceUnlessExcused == \A i \in Ids : delivered[i] > 1 => i \in excused

\* No threshold is announced twice without a refill above it +10% observed in
\* between ("Repeated observations do not emit repeated alerts").
AnnouncedOncePerEpisode ==
    [][\A n \in pending' : n.id > created => n.threshold \notin emitted]_vars
=============================================================================
