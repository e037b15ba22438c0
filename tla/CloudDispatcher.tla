--------------------------- MODULE CloudDispatcher ---------------------------
(***************************************************************************)
(* The Durable Object that drives the Cloudflare deployment               *)
(* (deploy/cloudflare/index.ts): kick() from the API's wakeup and from the *)
(* daily cron, and alarm(), one pass of which retires finished media       *)
(* containers, asks the API for maintenance, claims at most MaxClaims      *)
(* attempts, starts a container for each, and arms the next alarm.         *)
(*                                                                         *)
(* A pass awaits the API between its steps, and kick() may run at each of  *)
(* those awaits; storage operations alone cannot be interleaved (the       *)
(* object's input gate).  Any await may throw, and the object may be       *)
(* evicted at any of them: both end the pass with the stored alarm.        *)
(*                                                                         *)
(* An attempt stands for one (job id, lease version).  wakeVersion is only *)
(* ever compared with the value read when the pass began, so `dirty' says  *)
(* whether it has moved since.  An alarm is one of the delays the code     *)
(* gives it: "soon" (1 s), "recovery" (30 s), "next" (15 s to 24 h),       *)
(* "daily" (24 h).                                                         *)
(***************************************************************************)
EXTENDS Naturals, FiniteSets

CONSTANTS Attempts, MaxClaims,
          MaxFailures  \* bound: awaits that throw and evictions

VARIABLES phase,      \* where alarm() is: "idle" or the await it is in
          alarm,      \* the stored alarm
          dirty,      \* wakeVersion moved since this (or the last) pass began
          todo,       \* the runtimes this pass still has to retire
          job,        \* the attempt `claim' returned, or {}
          claims,     \* claims made by this pass
          at,         \* the answer of next-wakeup: TRUE when there is a time
          state,      \* attempt -> absent, queued, active, over (the database)
          cleaned,    \* runtimes marked cleaned (the database)
          container,  \* attempt -> none, running, gone
          notices,    \* committed attempts whose wakeup is not sent yet
          noticed,    \* attempts whose wakeup reached kick()
          failures    \* awaits that threw so far

dbVars == <<state, cleaned>>
passVars == <<phase, todo, job, claims, at>>
vars == <<phase, alarm, dirty, todo, job, claims, at, state, cleaned,
          container, notices, noticed, failures>>

Delays == {"none", "soon", "recovery", "next", "daily"}
Phases == {"idle", "runtimes", "retire", "cleaned", "maintenance", "claim",
           "run", "monitor", "next", "arm"}

TypeOK ==
    /\ phase \in Phases /\ alarm \in Delays
    /\ dirty \in BOOLEAN /\ at \in BOOLEAN
    /\ todo \subseteq Attempts /\ job \subseteq Attempts /\ claims \in 0..MaxClaims
    /\ state \in [Attempts -> {"absent", "queued", "active", "over"}]
    /\ container \in [Attempts -> {"none", "running", "gone"}]
    /\ cleaned \subseteq Attempts
    /\ notices \subseteq Attempts /\ noticed \subseteq Attempts /\ failures \in 0..MaxFailures

Init ==
    /\ phase = "idle" /\ alarm = "none" /\ dirty = FALSE /\ at = FALSE
    /\ todo = {} /\ job = {} /\ claims = 0
    /\ state = [a \in Attempts |-> "absent"] /\ cleaned = {}
    /\ container = [a \in Attempts |-> "none"]
    /\ notices = {} /\ noticed = {} /\ failures = 0

-----------------------------------------------------------------------------
(* kick(): count the wakeup, and bring a later alarm forward *)

SoonerIfNone(a) == IF a = "none" THEN "soon" ELSE a
Sooner(a) == IF a = "soon" THEN a ELSE "soon"

KickEffect == dirty' = TRUE /\ alarm' = Sooner(alarm)

Cron == KickEffect /\ UNCHANGED <<passVars, dbVars, container, notices, noticed, failures>>

\* The API commits a job, then posts the wakeup; the post may be lost.
Enqueue(a) ==
    /\ state[a] = "absent"
    /\ state' = [state EXCEPT ![a] = "queued"]
    /\ notices' = notices \cup {a}
    /\ UNCHANGED <<passVars, alarm, dirty, cleaned, container, noticed, failures>>

Notify(a) ==
    /\ a \in notices
    /\ notices' = notices \ {a}
    /\ \/ KickEffect /\ noticed' = noticed \cup {a}
       \/ UNCHANGED <<alarm, dirty, noticed>>
    /\ UNCHANGED <<passVars, dbVars, container, failures>>

\* The worker reports its end; the API posts a wakeup afterwards.
Finish(a) ==
    /\ state[a] = "active" /\ container[a] = "running"
    /\ state' = [state EXCEPT ![a] = "over"]
    /\ notices' = notices \cup {a}
    /\ UNCHANGED <<passVars, alarm, dirty, cleaned, container, noticed, failures>>

-----------------------------------------------------------------------------
(* alarm() *)

\* The version is read and the recovery alarm set before the first await.
Fire ==
    /\ phase = "idle" /\ alarm # "none"
    /\ phase' = "runtimes" /\ dirty' = FALSE /\ alarm' = "recovery"
    /\ todo' = {} /\ job' = {} /\ claims' = 0 /\ at' = FALSE
    /\ UNCHANGED <<dbVars, container, notices, noticed, failures>>

\* An exception, a timed out request or an eviction: the pass is over.
Throw == failures < MaxFailures /\ failures' = failures + 1 /\ phase' = "idle"

Abort ==
    /\ phase # "idle" /\ Throw
    /\ UNCHANGED <<alarm, dirty, todo, job, claims, at, dbVars, container, notices, noticed>>

RuntimesPastDeadline(expired, late) ==
    /\ phase = "runtimes"
    /\ \A a \in expired \cup late : state[a] = "active"
    /\ state' = [a \in Attempts |-> IF a \in expired THEN "over" ELSE state[a]]
    /\ todo' = late
    /\ phase' = IF todo' = {} THEN "maintenance" ELSE "retire"
    /\ UNCHANGED <<alarm, dirty, job, claims, at, cleaned, container, notices, noticed, failures>>

\* /internal/runtimes recovers expired leases, then lists uncleaned runtimes.
\* `late' are the active ones whose deadline the dispatcher's clock has passed.
Runtimes(expired, late) ==
    /\ phase = "runtimes"
    /\ \A a \in expired \cup late : state[a] = "active"
    /\ state' = [a \in Attempts |-> IF a \in expired THEN "over" ELSE state[a]]
    /\ todo' = {a \in Attempts : state'[a] = "over" /\ a \notin cleaned} \cup late
    /\ phase' = IF todo' = {} THEN "maintenance" ELSE "retire"
    /\ UNCHANGED <<alarm, dirty, job, claims, at, cleaned, container, notices, noticed, failures>>

RetireWithoutStop(a) ==
    /\ phase = "retire" /\ a \in todo
    /\ job' = {a} /\ phase' = "cleaned"
    /\ UNCHANGED <<alarm, dirty, todo, claims, at, dbVars, container, notices, noticed, failures>>

Retire(a) ==
    /\ phase = "retire" /\ a \in todo
    /\ container' = [container EXCEPT ![a] = IF @ = "running" THEN "gone" ELSE @]
    /\ job' = {a} /\ phase' = "cleaned"
    /\ UNCHANGED <<alarm, dirty, todo, claims, at, dbVars, notices, noticed, failures>>

\* The API refuses to mark a runtime that is active in the database, and the
\* refusal throws; its answer may be lost after the mark.
RuntimeCleaned(a) ==
    /\ phase = "cleaned" /\ a \in job /\ state[a] # "active"
    /\ cleaned' = cleaned \cup {a}
    /\ todo' = todo \ {a} /\ job' = {}
    /\ \/ phase' = (IF todo' = {} THEN "maintenance" ELSE "retire") /\ UNCHANGED failures
       \/ Throw
    /\ UNCHANGED <<alarm, dirty, claims, at, state, container, notices, noticed>>

CleanRefused(a) ==
    /\ phase = "cleaned" /\ a \in job /\ state[a] = "active"
    /\ phase' = "idle"
    /\ UNCHANGED <<alarm, dirty, todo, job, claims, at, dbVars, container, notices, noticed, failures>>

Maintenance ==
    /\ phase = "maintenance" /\ phase' = "claim"
    /\ UNCHANGED <<alarm, dirty, todo, job, claims, at, dbVars, container, notices, noticed, failures>>

Room == claims < MaxClaims

Claimable == {a \in Attempts : state[a] = "queued"}

\* The claim commits whether or not its answer arrives.
Claim(a) ==
    /\ phase = "claim" /\ Room /\ a \in Claimable
    /\ state' = [state EXCEPT ![a] = "active"]
    /\ claims' = claims + 1
    /\ \/ job' = {a} /\ phase' = "run" /\ UNCHANGED failures
       \/ job' = {} /\ Throw
    /\ UNCHANGED <<alarm, dirty, todo, at, cleaned, container, notices, noticed>>

ClaimNone ==
    /\ phase = "claim" /\ (Claimable = {} \/ ~Room)
    /\ phase' = "monitor"
    /\ UNCHANGED <<alarm, dirty, todo, job, claims, at, dbVars, container, notices, noticed, failures>>

\* MediaContainer.run: the start, or only its answer, may fail and then the
\* alarm throws.  (Its `started' tombstone refuses a second run of one name; a
\* lease version is claimed once, so no step here meets it.)
Run(a) ==
    /\ phase = "run" /\ a \in job
    /\ job' = {}
    /\ \/ /\ container' = [container EXCEPT ![a] = "running"]
          /\ Throw \/ (phase' = "claim" /\ UNCHANGED failures)
       \/ Throw /\ UNCHANGED container
    /\ UNCHANGED <<alarm, dirty, todo, claims, at, dbVars, notices, noticed>>

Monitor ==
    /\ phase = "monitor" /\ phase' = "next"
    /\ UNCHANGED <<alarm, dirty, todo, job, claims, at, dbVars, container, notices, noticed, failures>>

\* Work the database still owes a dispatcher: repository.next_wakeup
Outstanding ==
    {a \in Attempts : \/ state[a] \in {"queued", "active"}
                      \/ state[a] = "over" /\ a \notin cleaned}

NextWakeup ==
    /\ phase = "next" /\ phase' = "arm"
    /\ at' = (Outstanding # {})
    /\ UNCHANGED <<alarm, dirty, todo, job, claims, dbVars, container, notices, noticed, failures>>

NextAlarmKickForgotten == IF at THEN "next" ELSE "daily"
NextAlarm == IF dirty THEN "soon" ELSE IF at THEN "next" ELSE "daily"

Arm ==
    /\ phase = "arm" /\ phase' = "idle"
    /\ alarm' = NextAlarm
    /\ UNCHANGED <<dirty, todo, job, claims, at, dbVars, container, notices, noticed, failures>>

-----------------------------------------------------------------------------
Pass == \/ \E expired, late \in SUBSET Attempts : Runtimes(expired, late)
        \/ \E a \in Attempts : Retire(a) \/ RuntimeCleaned(a) \/ CleanRefused(a) \/ Claim(a) \/ Run(a)
        \/ Maintenance \/ ClaimNone \/ Monitor \/ NextWakeup \/ Arm

Next == \/ Cron \/ Fire \/ Abort \/ Pass
        \/ \E a \in Attempts : Enqueue(a) \/ Notify(a) \/ Finish(a)

Spec == Init /\ [][Next]_vars

\* Alarms fire, the cron comes, no request outlives its timeout and outages
\* end (MaxFailures); a container runs to its end, and whatever else is active
\* reaches its lease's deadline.
Fairness ==
    /\ WF_vars(Fire) /\ WF_vars(Cron) /\ WF_vars(Pass)
    /\ \A a \in Attempts : WF_vars(Finish(a))
    /\ SF_vars(Runtimes({a \in Attempts : state[a] = "active"}, {}))

FairSpec == Spec /\ Fairness

-----------------------------------------------------------------------------
(* Properties *)

\* A kick that arrives during a pass is never put to sleep by the alarm that
\* pass sets when it ends: an unanswered kick has an alarm within 30 s
\* (the version compared in alarm(), the minimum taken in kick()).
KickNotForgotten == phase = "idle" /\ dirty => alarm \in {"soon", "recovery"}

\* The dispatcher sleeps a day only when the database owes nothing it was told
\* of: every committed attempt whose wakeup arrived has been claimed, has ended
\* and is cleaned (next_wakeup as read by the pass, plus the version check).
NoticedWorkIsCovered ==
    phase = "idle" /\ alarm \in {"none", "daily"} => noticed \cap Outstanding = {}

\* A runtime the database calls cleaned has no container left running: stop
\* comes before the mark, in every pass and through every failure of one.
StoppedBeforeCleaned == \A a \in cleaned : container[a] # "running"

\* A queued attempt is claimed in the end and an ended one cleaned, even when
\* its wakeup was lost, the pass threw or the object was evicted: the daily
\* cron, the recovery alarm and next_wakeup bring the dispatcher back.
WorkIsServed ==
    \A a \in Attempts :
        /\ state[a] = "queued" ~> state[a] # "queued"
        /\ state[a] = "over" ~> a \in cleaned
=============================================================================
