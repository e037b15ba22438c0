--------------------------- MODULE DispatcherProofs ---------------------------
(* Proofs about the dispatchers that MCHosts composes, for any attempts,       *)
(* ticks, items, times and bounds: no kick is put to sleep, no work that was   *)
(* announced is slept over, and what is called cleaned does not run, whatever  *)
(* throws, is lost or is evicted.  One part each for the Cloudflare dispatcher,*)
(* the sandbox dispatcher, the chain of wakeups and the worker on its lease.   *)
EXTENDS MCHosts, FiniteSetTheorems, WellFoundedInduction, TLAPS

\* The Cloudflare dispatcher (CloudDispatcher).

\* A pass that ends early leaves an alarm that comes soon: the one it set
\* before its first await, or the one of a kick that came after.
PassIsCovered == phase # "idle" => alarm \in {"soon", "recovery"}

\* What was announced exists.
AnnouncedExists == \A a \in notices \cup noticed : state[a] # "absent"

\* Only what is over is cleaned, and only what was claimed is retired.
CleanedIsOver == \A a \in cleaned : state[a] = "over"
RetiredWasClaimed ==
    /\ \A a \in todo : state[a] \in {"active", "over"}
    /\ phase = "cleaned" => attempt \subseteq todo

\* What the pass read of next-wakeup still holds of the work that was announced,
\* unless a kick came since.
ReadStillHolds ==
    phase = "arm" /\ ~at /\ ~dirty => noticed \cap Cloud!Outstanding = {}

\* The container in hand was stopped before its mark, and never marked before
\* its start.
InHand ==
    /\ phase = "cleaned" => \A a \in attempt : container[a] # "running"
    /\ phase = "run" => \A a \in attempt : a \notin cleaned

CloudInv ==
    /\ Cloud!TypeOK
    /\ PassIsCovered
    /\ Cloud!KickNotForgotten
    /\ AnnouncedExists
    /\ CleanedIsOver
    /\ RetiredWasClaimed
    /\ ReadStillHolds
    /\ Cloud!NoticedWorkIsCovered
    /\ InHand
    /\ Cloud!StoppedBeforeCleaned

LEMMA CloudBounds == CloudClaims \in Nat /\ CloudFailures \in Nat
BY PartsAssumption

LEMMA CloudStart == Cloud!Init => CloudInv
<1> SUFFICES ASSUME Cloud!Init PROVE CloudInv
  OBVIOUS
<1>1. claims \in 0..CloudClaims /\ failures \in 0..CloudFailures
  BY CloudBounds DEF Cloud!Init
<1>2. Cloud!TypeOK
  BY <1>1 DEF Cloud!Init, Cloud!TypeOK, Cloud!Phases, Cloud!Delays
<1>3. QED
  BY <1>2 DEF Cloud!Init, CloudInv, PassIsCovered, Cloud!KickNotForgotten, AnnouncedExists,
              CleanedIsOver, RetiredWasClaimed, ReadStillHolds, Cloud!NoticedWorkIsCovered,
              InHand, Cloud!StoppedBeforeCleaned

LEMMA CloudStep == CloudInv /\ [Cloud!Next]_cloud => CloudInv'
<1> SUFFICES ASSUME CloudInv, [Cloud!Next]_cloud PROVE CloudInv'
  OBVIOUS
<1> USE CloudBounds DEF CloudInv, Cloud!TypeOK, Cloud!Phases, Cloud!Delays, PassIsCovered, Cloud!KickNotForgotten, AnnouncedExists, CleanedIsOver,
         RetiredWasClaimed, ReadStillHolds, Cloud!NoticedWorkIsCovered, InHand, Cloud!StoppedBeforeCleaned, Cloud!Outstanding
<1>1. CASE Cloud!Cron
  BY <1>1 DEF Cloud!Cron, Cloud!KickEffect, Cloud!Sooner, Cloud!passVars, Cloud!dbVars
<1>2. CASE Cloud!Fire
  <2>1. claims' \in 0..CloudClaims
    BY ONLY <1>2, CloudBounds DEF Cloud!Fire
  <2>2. QED
    BY <1>2, <2>1 DEF Cloud!Fire, Cloud!dbVars
<1>3. CASE Cloud!Abort
  BY <1>3 DEF Cloud!Abort, Cloud!Throw, Cloud!dbVars
<1>4. CASE Cloud!Maintenance
  BY <1>4 DEF Cloud!Maintenance, Cloud!dbVars
<1>5. CASE Cloud!ClaimNone
  BY <1>5 DEF Cloud!ClaimNone, Cloud!dbVars
<1>6. CASE Cloud!Monitor
  BY <1>6 DEF Cloud!Monitor, Cloud!dbVars
<1>7. CASE Cloud!NextWakeup
  BY <1>7 DEF Cloud!NextWakeup, Cloud!dbVars
<1>8. CASE Cloud!Arm
  BY <1>8 DEF Cloud!Arm, Cloud!NextAlarm, Cloud!dbVars
<1>9. ASSUME NEW a \in Attempts, Cloud!Enqueue(a) PROVE CloudInv'
  BY <1>9 DEF Cloud!Enqueue, Cloud!passVars
<1>10. ASSUME NEW a \in Attempts, Cloud!Notify(a) PROVE CloudInv'
  <2>1. a \in notices /\ notices' = notices \ {a} /\ UNCHANGED <<Cloud!passVars, Cloud!dbVars, container, failures>>
    BY <1>10 DEF Cloud!Notify
  <2>2. CASE Cloud!KickEffect /\ noticed' = noticed \cup {a}
    BY <2>1, <2>2 DEF Cloud!KickEffect, Cloud!Sooner, Cloud!passVars, Cloud!dbVars
  <2>3. CASE UNCHANGED <<alarm, dirty, noticed>>
    BY <2>1, <2>3 DEF Cloud!passVars, Cloud!dbVars
  <2>4. QED
    BY <1>10, <2>2, <2>3 DEF Cloud!Notify
<1>11. ASSUME NEW a \in Attempts, Cloud!Finish(a) PROVE CloudInv'
  BY <1>11 DEF Cloud!Finish, Cloud!passVars
<1>12. ASSUME NEW a \in Attempts, Cloud!Retire(a) PROVE CloudInv'
  BY <1>12 DEF Cloud!Retire, Cloud!dbVars
<1>13. ASSUME NEW a \in Attempts, Cloud!RuntimeCleaned(a) PROVE CloudInv'
  BY <1>13 DEF Cloud!RuntimeCleaned, Cloud!Throw
<1>14. ASSUME NEW a \in Attempts, Cloud!CleanRefused(a) PROVE CloudInv'
  BY <1>14 DEF Cloud!CleanRefused, Cloud!dbVars
<1>15. ASSUME NEW a \in Attempts, Cloud!Claim(a) PROVE CloudInv'
  BY <1>15 DEF Cloud!Claim, Cloud!Claimable, Cloud!Throw, Cloud!Room
<1>16. ASSUME NEW a \in Attempts, Cloud!Run(a) PROVE CloudInv'
  BY <1>16 DEF Cloud!Run, Cloud!Throw, Cloud!dbVars
<1>17. ASSUME NEW expired \in SUBSET Attempts, NEW idled \in SUBSET Attempts, Cloud!Runtimes(expired, idled)
      PROVE  CloudInv'
  BY <1>17 DEF Cloud!Runtimes
<1>18. CASE UNCHANGED cloud
  BY <1>18 DEF cloud, Cloud!dbVars, Cloud!passVars
<1>19. QED
  BY <1>1, <1>2, <1>3, <1>4, <1>5, <1>6, <1>7, <1>8, <1>9,
     <1>10, <1>11, <1>12, <1>13, <1>14, <1>15, <1>16, <1>17, <1>18 DEF Cloud!Next, Cloud!Pass

\* What follows holds for any number of attempts and claims, and any failures.
LEMMA CloudInvariance == Cloud!Spec => []CloudInv
<1>1. CloudInv /\ [Cloud!Next]_(Cloud!vars) => CloudInv'
  BY CloudStep DEF Cloud!vars, cloud
<1>2. QED
  BY <1>1, CloudStart, PTL DEF Cloud!Spec

\* An unanswered kick has an alarm within 30 s, though the pass it met sets an
\* alarm of its own when it ends, throws or is evicted (kick and alarm).
THEOREM KicksAreKept == Cloud!Spec => []Cloud!KickNotForgotten
<1>1. CloudInv => Cloud!KickNotForgotten
  BY DEF CloudInv
<1>2. QED
  BY <1>1, CloudInvariance, PTL

\* The dispatcher never sleeps a day over work it was told of (next_wakeup as
\* the pass read it, and the version it compares before it sleeps).
THEOREM NoticedWorkIsServed == Cloud!Spec => []Cloud!NoticedWorkIsCovered
<1>1. CloudInv => Cloud!NoticedWorkIsCovered
  BY DEF CloudInv
<1>2. QED
  BY <1>1, CloudInvariance, PTL

\* A runtime the database calls cleaned has no container running (retire stops
\* it before the mark, and a lease version is started once).
THEOREM CleanedIsStopped == Cloud!Spec => []Cloud!StoppedBeforeCleaned
<1>1. CloudInv => Cloud!StoppedBeforeCleaned
  BY DEF CloudInv
<1>2. QED
  BY <1>1, CloudInvariance, PTL

-----------------------------------------------------------------------------
\* The sandbox dispatcher (SandboxDispatcher).

LEMMA SandboxCardinality == \A S : Sandbox!Cardinality(S) = Cardinality(S)
BY DEF Sandbox!Cardinality, Cardinality

\* What a tick lists has ended or is overdue, what it sets up keeps its lease, a tick that lost
\* an answer is over, and only what has ended is cleaned.
SandboxInv ==
    /\ Sandbox!TypeOK
    /\ \A t \in Ticks : \A a \in sTodo[t] : sState[a] \in {"overdue", "over"}
    /\ \A t \in Ticks : \A a \in held[t] : sState[a] = "active"
    /\ \A t \in Ticks : lost[t] = {} \/ (sPhase[t] = "idle" /\ \E a \in Attempts : lost[t] = {a})
    /\ \A a \in sCleaned : sState[a] = "over" /\ vm[a] # "running"

LEMMA SandboxStart == Sandbox!Init => SandboxInv
<1> SUFFICES ASSUME Sandbox!Init PROVE SandboxInv
  OBVIOUS
<1> USE PartsAssumption DEF Sandbox!Init
<1>1. Sandbox!TypeOK
  BY DEF Sandbox!TypeOK
<1>2. QED
  BY <1>1 DEF SandboxInv

LEMMA SandboxStep == SandboxInv /\ [Sandbox!Next]_sandbox => SandboxInv'
<1> SUFFICES ASSUME SandboxInv, [Sandbox!Next]_sandbox PROVE SandboxInv'
  OBVIOUS
<1> USE PartsAssumption
    DEF SandboxInv, Sandbox!TypeOK, Sandbox!Go, Sandbox!Fail, Sandbox!Scrub, Sandbox!Room,
        Sandbox!Claimable, Sandbox!world
<1>1. ASSUME NEW t \in Ticks, Sandbox!Start(t) PROVE SandboxInv'
  BY <1>1 DEF Sandbox!Start, Sandbox!Listed
<1>2. ASSUME NEW t \in Ticks, NEW a \in Attempts, Sandbox!Reconcile(t, a) PROVE SandboxInv'
  BY <1>2 DEF Sandbox!Reconcile, Sandbox!Marked
<1>3. ASSUME NEW t \in Ticks, NEW a \in Attempts, Sandbox!Claim(t, a) PROVE SandboxInv'
  BY <1>3 DEF Sandbox!Claim
<1>4. ASSUME NEW t \in Ticks, NEW a \in Attempts, Sandbox!ClaimLost(t, a) PROVE SandboxInv'
  BY <1>4 DEF Sandbox!ClaimLost, Sandbox!AfterLostClaim
<1>5. ASSUME NEW t \in Ticks, NEW a \in Attempts, Sandbox!Create(t, a) PROVE SandboxInv'
  BY <1>5 DEF Sandbox!Create
<1>6. ASSUME NEW t \in Ticks, NEW a \in Attempts, Sandbox!CreateFails(t, a) PROVE SandboxInv'
  BY <1>6 DEF Sandbox!CreateFails
<1>7. ASSUME NEW t \in Ticks, NEW a \in Attempts, Sandbox!Launch(t, a) PROVE SandboxInv'
  BY <1>7 DEF Sandbox!Launch
<1>8. ASSUME NEW t \in Ticks, NEW a \in Attempts, Sandbox!LaunchFails(t, a) PROVE SandboxInv'
  BY <1>8 DEF Sandbox!LaunchFails
<1>9. ASSUME NEW t \in Ticks, Sandbox!Maintenance(t) \/ Sandbox!Finish(t) \/ Sandbox!FinishEarly(t)
      PROVE  SandboxInv'
  BY <1>9 DEF Sandbox!Maintenance, Sandbox!Finish, Sandbox!FinishEarly
<1>10. ASSUME NEW t \in Ticks, Sandbox!Killed(t) PROVE SandboxInv'
  BY <1>10 DEF Sandbox!Killed
<1>11. ASSUME NEW a \in Attempts,
              Sandbox!Enqueue(a) \/ Sandbox!Overdue(a) \/ Sandbox!End(a) \/ Sandbox!Timeout(a)
       PROVE  SandboxInv'
  BY <1>11 DEF Sandbox!Enqueue, Sandbox!Overdue, Sandbox!End, Sandbox!Timeout, Sandbox!InSetup
<1>12. CASE UNCHANGED sandbox
  BY <1>12 DEF sandbox
<1>13. QED
  BY <1>1, <1>2, <1>3, <1>4, <1>5, <1>6, <1>7, <1>8, <1>9, <1>10, <1>11, <1>12
  DEF Sandbox!Next, Sandbox!Work

\* A worker starts only from a setup, whose lease cannot have lapsed.
LEMMA WorkersStartOnLeases ==
    SandboxInv /\ [Sandbox!Next]_sandbox =>
        [\A a \in Attempts : a \in sWorker' \ sWorker => sState[a] = "active"]_(Sandbox!vars)
<1> SUFFICES ASSUME SandboxInv, Sandbox!Next, NEW a \in Attempts, a \in sWorker', a \notin sWorker
             PROVE  sState[a] = "active"
  BY DEF sandbox, Sandbox!vars
<1>1. PICK t \in Ticks, b \in Attempts : Sandbox!Launch(t, b) \/ Sandbox!LaunchFails(t, b)
  BY DEF Sandbox!Next, Sandbox!Work, Sandbox!Start, Sandbox!Reconcile, Sandbox!Claim, Sandbox!Overdue,
         Sandbox!ClaimLost, Sandbox!Create, Sandbox!CreateFails, Sandbox!Maintenance,
         Sandbox!Finish, Sandbox!FinishEarly, Sandbox!Killed, Sandbox!Enqueue, Sandbox!End,
         Sandbox!Timeout, Sandbox!world
<1>2. a = b /\ b \in held[t]
  BY <1>1 DEF Sandbox!Launch, Sandbox!LaunchFails
<1>3. QED
  BY <1>2 DEF SandboxInv

-----------------------------------------------------------------------------
\* The chain of wakeups (WakeupChain).

LEMMA ChainCardinality == \A S : Chain!Cardinality(S) = Cardinality(S)
BY DEF Chain!Cardinality, Cardinality

LEMMA ChainConstants ==
    /\ IsFiniteSet(Items) /\ Dues \subseteq Nat
    /\ Bucket \in Nat \ {0} /\ MaxDelay \in Nat \ {0} /\ MinDelay \in Nat \ {0}
    /\ MaxDeliveries \in Nat \ {0} /\ RetryAfter \in Nat /\ MaxTime \in Nat /\ ChainFailures \in Nat
    /\ Bucket <= MaxDelay /\ RetryAfter <= MaxDelay
BY PartsAssumption DEF Chain!Parameters, Chain!IsFiniteSet, IsFiniteSet

\* A target is a multiple of the bucket: at most a bucket above or below.
LEMMA Rounding ==
    ASSUME NEW t \in Int
    PROVE  /\ Chain!Ceil(t) \in Int /\ t <= Chain!Ceil(t) /\ Chain!Ceil(t) < t + Bucket
           /\ Chain!Floor(t) \in Int /\ Chain!Floor(t) <= t /\ t - Bucket < Chain!Floor(t)
<1>1. ASSUME NEW n \in Int, NEW b \in Nat \ {0}
      PROVE  /\ n \div b \in Int /\ (n \div b) * b \in Int
             /\ (n \div b) * b <= n /\ n < (n \div b) * b + b
  OBVIOUS
<1>2. QED
  BY <1>1, ChainConstants DEF Chain!Ceil, Chain!Floor

LEMMA EarliestDue ==
    ASSUME NEW S, S \subseteq Nat, S # {}
    PROVE  Chain!Min(S) \in S /\ \A k \in S : Chain!Min(S) <= k
<1> DEFINE R == {p \in Nat \X Nat : p[1] < p[2]}
<1>1. IsWellFoundedOn(R, Nat)
  BY NatLessThanWellFounded, Zenon DEF OpToRel
<1>2. PICK n \in S : \A k \in S : ~(<<k, n>> \in R)
  <2> HIDE DEF R
  <2> QED BY <1>1, WFMin
<1>3. ASSUME NEW k \in Nat, NEW l \in Nat, ~(<<k, l>> \in R) PROVE l <= k
  BY <1>3
<1>4. n \in S /\ \A k \in S : n <= k
  <2> HIDE DEF R
  <2> QED BY <1>2, <1>3
<1>5. QED
  BY <1>4 DEF Chain!Min

Latest(i) == Chain!GreatestOf(due[i], wNow) + Chain!GreatestOf(MinDelay, RetryAfter) + Bucket
Waits(m, i) == m.release = live /\ m.at <= Latest(i)

\* A key whose target is to come belongs to a message that waits for it.
KeysWait ==
    \A k \in keys : k[2] <= wNow \/ [at |-> k[2], release |-> k[1], tries |-> 0] \in queue

\* What the consumer read of next-wakeup is not later than anything due, except
\* what came since with a message of its own.
ReadInTime ==
    wPhase = "publish" =>
        \A i \in told \cap Chain!Pending :
            (\E m \in queue : Waits(m, i)) \/ (nextAt # Chain!None /\ nextAt <= due[i])

ChainTypes ==
    /\ wNow \in 0..MaxTime /\ live \in {1, 2} /\ wFailures \in 0..ChainFailures
    /\ queue \subseteq Chain!Message
    /\ wPhase \in {"idle", "live", "dispatch", "next", "publish"}
    /\ IF wPhase = "idle" THEN msg = {}
       ELSE \E m \in Chain!Message : msg = {m} /\ m.at <= wNow
    /\ keys \subseteq {1, 2} \X Chain!Times /\ told \subseteq Items
    /\ due \in [Items -> Nat \cup {Chain!Absent, Chain!Done}]
    /\ \A i \in told : due[i] # Chain!Absent
    /\ nextAt = Chain!None \/ nextAt \in Nat

ChainInv == ChainTypes /\ KeysWait /\ ReadInTime /\ Chain!DueIsCovered

LEMMA ChainTyped == ChainTypes => Chain!TypeOK
<1> SUFFICES ASSUME ChainTypes PROVE Chain!TypeOK
  OBVIOUS
<1>1. Chain!Cardinality(msg) <= 1
  <2>1. CASE msg = {}
    BY <2>1, ChainCardinality, FS_EmptySet
  <2>2. ASSUME NEW m, msg = {m} PROVE Chain!Cardinality(msg) <= 1
    BY <2>2, ChainCardinality, FS_Singleton
  <2>3. QED
    BY <2>1, <2>2 DEF ChainTypes
<1>2. (wPhase = "idle") = (msg = {})
  BY DEF ChainTypes
<1>3. QED
  BY <1>1, <1>2, ChainConstants
  DEF ChainTypes, Chain!TypeOK, Chain!Releases, Chain!None, Chain!Absent, Chain!Done

LEMMA TargetInTime ==
    ASSUME wNow \in 0..MaxTime, nextAt \in Nat
    PROVE  /\ Chain!Target \in Chain!Times /\ Chain!Target > wNow
           /\ \A i \in Items : due[i] \in Int /\ nextAt <= due[i] => Chain!Target <= Latest(i)
<1> DEFINE early == Chain!GreatestOf(nextAt, wNow + MinDelay)
<1>1. early \in Int /\ early > wNow
  BY ChainConstants DEF Chain!GreatestOf
<1>2. /\ Chain!Ceil(early) \in Int /\ early <= Chain!Ceil(early) /\ Chain!Ceil(early) < early + Bucket
      /\ Chain!Floor(wNow + MaxDelay) \in Int /\ Chain!Floor(wNow + MaxDelay) <= wNow + MaxDelay
      /\ wNow + MaxDelay - Bucket < Chain!Floor(wNow + MaxDelay)
  BY <1>1, Rounding, ChainConstants
<1>3. Chain!Target = Chain!LeastOf(Chain!Ceil(early), Chain!Floor(wNow + MaxDelay))
  BY DEF Chain!Target
<1>4. Chain!Target \in Int /\ Chain!Target > wNow /\ Chain!Target < early + Bucket
      /\ Chain!Target <= wNow + MaxDelay
  <2> HIDE DEF early
  <2> QED BY <1>1, <1>2, <1>3, ChainConstants DEF Chain!LeastOf
<1>5. ASSUME NEW i \in Items, due[i] \in Int, nextAt <= due[i] PROVE Chain!Target <= Latest(i)
  BY <1>4, <1>5, ChainConstants DEF Latest, Chain!GreatestOf
<1>6. QED
  BY <1>4, <1>5, ChainConstants DEF Chain!Times

\* Time and later due times only give a message more room.
LEMMA LaterIsFine ==
    ASSUME NEW i \in Items, due[i] \in Int, due'[i] \in Int, due[i] <= due'[i], wNow \in Int,
           wNow' \in Int, wNow <= wNow'
    PROVE  Latest(i) <= Latest(i)'
BY ChainConstants DEF Latest, Chain!GreatestOf

LEMMA ChainStart == Chain!Init => ChainInv
<1> SUFFICES ASSUME Chain!Init PROVE ChainInv
  OBVIOUS
<1>1. ChainTypes
  BY ChainConstants DEF Chain!Init, ChainTypes
<1>2. KeysWait /\ ReadInTime /\ Chain!DueIsCovered
  BY DEF Chain!Init, KeysWait, ReadInTime, Chain!DueIsCovered
<1>3. QED
  BY <1>1, <1>2 DEF ChainInv

LEMMA Messages ==
    \A m : m \in Chain!Message <=>
        /\ m = [at |-> m.at, release |-> m.release, tries |-> m.tries]
        /\ m.at \in 0..(MaxTime + MaxDelay + Bucket)
        /\ m.release \in {1, 2} /\ m.tries \in 0..(MaxDeliveries - 1)
BY ChainConstants DEF Chain!Message, Chain!Times, Chain!Releases

\* A message that comes at once, or that is tried again, is in time.
LEMMA SoonEnough ==
    ASSUME wNow \in Int, NEW i \in Items, due[i] \in Int
    PROVE  wNow + RetryAfter <= Latest(i) /\ wNow <= Latest(i)
BY ChainConstants DEF Latest, Chain!GreatestOf

LEMMA Numbers ==
    /\ ChainTypes => wNow \in 0..MaxTime /\ \A i \in Items : due[i] \in Int /\ Latest(i) \in Int
    /\ ChainTypes' => wNow' \in 0..MaxTime /\ \A i \in Items : due'[i] \in Int /\ Latest(i)' \in Int
    /\ ChainTypes => \A m \in queue \cup msg : m.at \in Nat
<1>1. ASSUME ChainTypes PROVE \A i \in Items : due[i] \in Int /\ Latest(i) \in Int
  BY <1>1, ChainConstants DEF ChainTypes, Latest, Chain!GreatestOf, Chain!Absent, Chain!Done
<1>2. ASSUME ChainTypes' PROVE \A i \in Items : due'[i] \in Int /\ Latest(i)' \in Int
  BY <1>2, ChainConstants DEF ChainTypes, Latest, Chain!GreatestOf, Chain!Absent, Chain!Done
<1>3. ASSUME ChainTypes PROVE \A m \in queue \cup msg : m.at \in Nat
  <2>1. \A m \in queue \cup msg : m \in Chain!Message
    BY <1>3 DEF ChainTypes
  <2>2. QED
    BY <2>1, Messages, ChainConstants
<1>4. QED
  BY <1>1, <1>2, <1>3 DEF ChainTypes

LEMMA KeyTimes == ChainTypes => \A k \in keys : k[1] \in {1, 2} /\ k[2] \in Nat
<1> SUFFICES ASSUME ChainTypes, NEW k \in keys PROVE k[1] \in {1, 2} /\ k[2] \in Nat
  OBVIOUS
<1>1. k \in {1, 2} \X Chain!Times
  BY DEF ChainTypes
<1>2. QED
  BY <1>1, ChainConstants DEF Chain!Times

\* What waited still does, when nothing but the clock and later due times moved.
LEMMA StillWaits ==
    ASSUME ChainTypes, ChainTypes', NEW i \in Items, due[i] <= due'[i], wNow <= wNow', live' = live,
           NEW m \in queue \cup msg, Waits(m, i)
    PROVE  Waits(m, i)'
<1>1. /\ due[i] \in Int /\ due'[i] \in Int /\ wNow \in Int /\ wNow' \in Int /\ m.at \in Int
      /\ Latest(i) \in Int /\ Latest(i)' \in Int
  BY Numbers, ChainConstants
<1>2. Latest(i) <= Latest(i)'
  BY <1>1, LaterIsFine
<1>3. QED
  BY <1>1, <1>2 DEF Waits

LEMMA CoveredMeans ==
    Chain!DueIsCovered <=> \A i \in told \cap Chain!Pending : \E m \in queue \cup msg : Waits(m, i)
BY DEF Chain!DueIsCovered, Waits, Latest

LEMMA CoveredMeansNext ==
    Chain!DueIsCovered' <=>
        \A i \in (told \cap Chain!Pending)' : \E m \in (queue \cup msg)' : Waits(m, i)'
BY DEF Chain!DueIsCovered, Waits, Latest

LEMMA AgainFits ==
    ASSUME ChainTypes, NEW m \in Chain!Message,
           NEW again, again = [m EXCEPT !.at = wNow + RetryAfter, !.tries = @ + 1]
    PROVE  /\ again.at = wNow + RetryAfter /\ again.release = m.release
           /\ Chain!MoreDeliveries(m) => again \in Chain!Message
<1>1. /\ m = [at |-> m.at, release |-> m.release, tries |-> m.tries]
      /\ m.release \in {1, 2} /\ m.tries \in 0..(MaxDeliveries - 1)
  BY Messages
<1>2. again = [at |-> wNow + RetryAfter, release |-> m.release, tries |-> m.tries + 1]
  BY <1>1
<1>3. wNow + RetryAfter \in 0..(MaxTime + MaxDelay + Bucket)
  BY Numbers, ChainConstants
<1>4. again.at = wNow + RetryAfter /\ again.release = m.release /\ again.tries = m.tries + 1
  BY <1>2
<1>5. Chain!MoreDeliveries(m) => m.tries + 1 \in 0..(MaxDeliveries - 1)
  BY <1>1, ChainConstants DEF Chain!MoreDeliveries
<1>6. QED
  BY <1>1, <1>2, <1>3, <1>4, <1>5 DEF Chain!Message, Chain!Times, Chain!Releases

LEMMA SoonEnoughNext ==
    ASSUME wNow' \in Int, NEW i \in Items, due'[i] \in Int
    PROVE  wNow' + RetryAfter <= Latest(i)' /\ wNow' <= Latest(i)'
BY ChainConstants DEF Latest, Chain!GreatestOf

\* What was covered by a message that is still there is covered, and what was
\* read of next-wakeup is read in time.
LEMMA Kept ==
    ASSUME ChainInv, ChainTypes', live' = live, wNow <= wNow',
           NEW i \in told \cap Chain!Pending, i \in told', due[i] <= due'[i]
    PROVE  /\ \A m \in queue \cup msg : Waits(m, i) => Waits(m, i)'
           /\ \E m \in queue \cup msg : Waits(m, i)
           /\ wPhase = "publish" =>
                 (\E m \in queue : Waits(m, i)) \/ (nextAt # Chain!None /\ nextAt <= due[i])
BY StillWaits, CoveredMeans DEF ChainInv, ReadInTime, ChainTypes

\* What a step that loses no message and brings nothing forward keeps, but for
\* items with a message of their own.
LEMMA KeepsCover ==
    ASSUME ChainInv, ChainTypes', live' = live, wNow <= wNow',
           queue \cup msg \subseteq queue' \cup msg',
           \A i \in (told \cap Chain!Pending)' :
               \/ i \in told \cap Chain!Pending /\ due[i] <= due'[i]
               \/ \E m \in queue' : Waits(m, i)'
    PROVE  Chain!DueIsCovered'
<1>1. ASSUME NEW i \in (told \cap Chain!Pending)', i \in told \cap Chain!Pending, due[i] <= due'[i]
      PROVE  \E m \in queue' \cup msg' : Waits(m, i)'
  BY <1>1, Kept
<1>2. QED
  BY <1>1, CoveredMeansNext

LEMMA KeepsRead ==
    ASSUME ChainInv, ChainTypes', live' = live, wNow <= wNow',
           queue \subseteq queue', wPhase' = "publish" => wPhase = "publish" /\ nextAt' = nextAt,
           \A i \in (told \cap Chain!Pending)' :
               \/ i \in told \cap Chain!Pending /\ due[i] <= due'[i]
               \/ \E m \in queue' : Waits(m, i)'
    PROVE  ReadInTime'
<1> SUFFICES ASSUME wPhase' = "publish", NEW i \in (told \cap Chain!Pending)'
             PROVE  (\E m \in queue' : Waits(m, i)') \/ (nextAt' # Chain!None /\ nextAt' <= due'[i])
  BY DEF ReadInTime
<1>1. CASE i \in told \cap Chain!Pending /\ due[i] <= due'[i]
  <2>1. (\E m \in queue : Waits(m, i) /\ Waits(m, i)') \/ (nextAt # Chain!None /\ nextAt <= due[i])
    BY <1>1, Kept
  <2>2. nextAt # Chain!None => nextAt \in Nat
    BY DEF ChainInv, ChainTypes
  <2>3. due[i] \in Int /\ due'[i] \in Int
    BY Numbers DEF ChainInv, Chain!Pending
  <2>4. QED
    BY <1>1, <2>1, <2>2, <2>3
<1>2. QED
  BY <1>1

\* A delivery that ends without a follow-up leaves what waits in the queue.
LEMMA Acknowledged ==
    ASSUME ChainInv, nextAt = Chain!None, wPhase = "publish",
           UNCHANGED <<wNow, live, due, told, wFailures, queue, keys>>,
           msg' = {}, wPhase' = "idle", nextAt' = Chain!None
    PROVE  ChainInv'
<1>1. ChainTypes' /\ KeysWait' /\ ReadInTime'
  BY DEF ChainInv, ChainTypes, KeysWait, ReadInTime
<1>2. ASSUME NEW i \in (told \cap Chain!Pending)' PROVE \E n \in queue' : Waits(n, i)'
  BY DEF ChainInv, ReadInTime, Waits, Latest, Chain!Pending
<1>3. QED
  BY <1>1, <1>2, CoveredMeansNext DEF ChainInv

\* A follow-up that the queue holds comes in time for everything that is due.
LEMMA FollowUp ==
    ASSUME ChainInv, nextAt # Chain!None, wPhase = "publish", NEW m \in msg, NEW t, t = Chain!Target,
           UNCHANGED <<wNow, live, due, told>>, wFailures' \in 0..ChainFailures,
           keys' = keys \cup {<<m.release, t>>},
           queue \subseteq queue',
           queue' \subseteq Chain!Message \cup {[at |-> t, release |-> m.release, tries |-> 0]},
           [at |-> t, release |-> m.release, tries |-> 0] \in queue',
           msg' = {}, wPhase' = "idle", nextAt' = Chain!None
    PROVE  ChainInv'
<1>1. m \in Chain!Message /\ msg = {m} /\ nextAt \in Nat
  BY DEF ChainInv, ChainTypes
<1>2. t \in Chain!Times /\ \A i \in Items : nextAt <= due[i] => t <= Latest(i)
  BY <1>1, TargetInTime, Numbers DEF ChainInv, ChainTypes
<1>3. ChainTypes'
  <2>1. [at |-> t, release |-> m.release, tries |-> 0] \in Chain!Message /\ m.release \in {1, 2}
    BY <1>1, <1>2, Messages, ChainConstants DEF Chain!Message, Chain!Releases
  <2>2. QED
    BY <1>1, <1>2, <2>1 DEF ChainInv, ChainTypes
<1>4. KeysWait' /\ ReadInTime'
  BY DEF ChainInv, KeysWait, ReadInTime
<1>5. ASSUME NEW i \in (told \cap Chain!Pending)' PROVE \E n \in queue' : Waits(n, i)'
  <2>1. i \in told \cap Chain!Pending /\ i \in Items /\ due[i] <= due'[i] /\ Latest(i)' = Latest(i)
    BY Numbers DEF Chain!Pending, ChainInv, Latest
  <2>2. CASE \E n \in queue : Waits(n, i)
    BY <1>3, <2>1, <2>2, Kept, Numbers DEF ChainInv
  <2>3. CASE nextAt <= due[i] /\ m.release = live
    BY <1>2, <2>1, <2>3 DEF Waits
  <2>4. CASE m.release # live
    <3>1. \E n \in queue \cup msg : Waits(n, i) /\ Waits(n, i)'
      BY <1>3, <2>1, Kept, Numbers DEF ChainInv
    <3>2. QED
      BY <1>1, <2>4, <3>1 DEF Waits
  <2>5. QED
    BY <2>1, <2>2, <2>3, <2>4 DEF ChainInv, ReadInTime
<1>6. QED
  BY <1>3, <1>4, <1>5, CoveredMeansNext DEF ChainInv

LEMMA ChainStep == ChainInv /\ [Chain!Next]_chain => ChainInv'
<1> SUFFICES ASSUME ChainInv, [Chain!Next]_chain PROVE ChainInv'
  OBVIOUS
<1> USE ChainConstants DEF ChainInv
<1>1. ASSUME NEW i \in Items, NEW d \in Dues, Chain!Enqueue(i, d) PROVE ChainInv'
  <2>0. due'[i] \in Nat /\ Chain!Immediate \in Chain!Message
    BY <1>1, Messages DEF Chain!Enqueue, ChainTypes, Chain!Immediate
  <2>1. ChainTypes'
    BY <1>1, <2>0 DEF Chain!Enqueue, Chain!consumer, ChainTypes, Chain!None, Chain!Absent, Chain!Done,
                Chain!Fail
  <2>2. KeysWait'
    BY <1>1 DEF Chain!Enqueue, KeysWait
  <2>3. /\ queue \subseteq queue' /\ UNCHANGED <<wNow, live, msg, wPhase, nextAt>>
        /\ \A j \in Items \ {i} : due'[j] = due[j]
        /\ told' \subseteq told \cup {i} /\ i \notin told
        /\ i \in told' => Chain!Immediate \in queue'
    BY <1>1 DEF Chain!Enqueue, Chain!consumer, ChainTypes
  <2>4. i \in (told \cap Chain!Pending)' => \E m \in queue' : Waits(m, i)'
    BY <2>1, <2>3, SoonEnoughNext, Numbers, ChainConstants DEF Chain!Immediate, Waits
  <2>5. \A j \in (told \cap Chain!Pending)' :
           (j \in told \cap Chain!Pending /\ due[j] <= due'[j]) \/ \E m \in queue' : Waits(m, j)'
    BY <2>3, <2>4, Numbers DEF Chain!Pending, ChainTypes
  <2>6. wNow <= wNow'
    BY <2>3, Numbers
  <2>7. QED
    BY <2>1, <2>2, <2>3, <2>5, <2>6, KeepsCover, KeepsRead
<1>2. CASE Chain!Cron
  <2>1. PICK m : m = Chain!Immediate
    OBVIOUS
  <2>2. ChainTypes' /\ m \in queue' /\ wNow' = wNow
    BY <1>2, <2>1, Messages
    DEF Chain!Cron, Chain!consumer, ChainTypes, Chain!Immediate, Chain!Pending, Chain!Absent
  <2>3. ASSUME NEW i \in (told \cap Chain!Pending)' PROVE Waits(m, i)'
    BY <1>2, <2>1, <2>2, SoonEnoughNext, Numbers, ChainConstants
    DEF Chain!Cron, Chain!Immediate, Waits, ChainTypes
  <2>4. KeysWait'
    BY <1>2 DEF Chain!Cron, KeysWait
  <2>5. Chain!DueIsCovered'
    BY <2>2, <2>3, CoveredMeansNext
  <2>6. ReadInTime'
    BY <2>2, <2>3 DEF ReadInTime
  <2>7. QED
    BY <2>2, <2>4, <2>5, <2>6
<1>3. CASE Chain!Deploy
  BY <1>3 DEF Chain!Deploy, Chain!consumer, ChainTypes, KeysWait, ReadInTime, Chain!DueIsCovered
<1>4. CASE Chain!Pass
  <2>0. wNow' = wNow + 1 /\ wNow' \in 0..MaxTime
        /\ UNCHANGED <<live, queue, keys, Chain!consumer, due, told, wFailures>>
    BY <1>4, Numbers DEF Chain!Pass
  <2>1. ChainTypes'
    <3>1. ASSUME NEW m \in Chain!Message, m.at <= wNow PROVE m.at <= wNow'
      BY <2>0, <3>1, Messages, Numbers
    <3>2. QED
      BY <2>0, <3>1 DEF Chain!consumer, ChainTypes
  <2>2. KeysWait'
    <3> SUFFICES ASSUME NEW k \in keys
                 PROVE  k[2] <= wNow' \/ [at |-> k[2], release |-> k[1], tries |-> 0] \in queue
      BY <2>0 DEF KeysWait
    <3>1. k[2] \in Nat /\ (k[2] <= wNow \/ [at |-> k[2], release |-> k[1], tries |-> 0] \in queue)
      BY KeyTimes DEF KeysWait
    <3>2. QED
      BY <2>0, <3>1, Numbers
  <2>3. \A i \in (told \cap Chain!Pending)' : i \in told \cap Chain!Pending /\ due[i] <= due'[i]
    BY <2>0, Numbers DEF Chain!Pending
  <2>4. QED
    BY <2>0, <2>1, <2>2, <2>3, KeepsCover, KeepsRead, Numbers DEF Chain!consumer
<1>5. ASSUME NEW m \in queue, Chain!Deliver(m) PROVE ChainInv'
  <2>1. ChainTypes'
    BY <1>5 DEF Chain!Deliver, ChainTypes
  <2>2. KeysWait'
    <3> SUFFICES ASSUME NEW k \in keys, [at |-> k[2], release |-> k[1], tries |-> 0] = m
                 PROVE  k[2] <= wNow
      BY <1>5 DEF Chain!Deliver, KeysWait
    <3> QED
      BY <1>5 DEF Chain!Deliver
  <2>3. \A i \in (told \cap Chain!Pending)' : i \in told \cap Chain!Pending /\ due[i] <= due'[i]
    BY <1>5, Numbers DEF Chain!Deliver, Chain!Pending
  <2>4. queue \cup msg \subseteq queue' \cup msg'
    BY <1>5 DEF Chain!Deliver, ChainTypes
  <2>5. QED
    BY <1>5, <2>1, <2>2, <2>3, <2>4, KeepsCover, Numbers DEF Chain!Deliver, ReadInTime
<1>6. ASSUME NEW m \in msg, Chain!CheckLive(m) PROVE ChainInv'
  <2>0. msg = {m} /\ ChainTypes'
    BY <1>6 DEF Chain!CheckLive, Chain!Acknowledge, ChainTypes
  <2>1. KeysWait' /\ ReadInTime'
    BY <1>6 DEF Chain!CheckLive, Chain!Acknowledge, KeysWait, ReadInTime
  <2>2. \A i \in (told \cap Chain!Pending)' : i \in told \cap Chain!Pending /\ due[i] <= due'[i]
    BY <1>6, Numbers DEF Chain!CheckLive, Chain!Pending
  <2>3. CASE m.release = live /\ wPhase' = "dispatch" /\ UNCHANGED <<msg, nextAt>>
    BY <1>6, <2>0, <2>1, <2>2, <2>3, KeepsCover, Numbers DEF Chain!CheckLive
  <2>4. CASE m.release # live /\ Chain!Acknowledge
    <3>1. ASSUME NEW i \in (told \cap Chain!Pending)' PROVE \E n \in queue' : Waits(n, i)'
      <4>1. \E n \in queue \cup msg : Waits(n, i) /\ Waits(n, i)'
        BY <1>6, <2>0, <2>2, Kept, Numbers DEF Chain!CheckLive
      <4>2. QED
        BY <1>6, <2>0, <2>4, <4>1 DEF Waits, Chain!CheckLive
    <3>2. QED
      BY <2>0, <2>1, <3>1, CoveredMeansNext
  <2>5. QED
    BY <1>6, <2>3, <2>4 DEF Chain!CheckLive
<1>7. ASSUME NEW served \in SUBSET Items, NEW later \in SUBSET Items, Chain!Dispatch(served, later)
      PROVE  ChainInv'
  <2>1. ChainTypes'
    BY <1>7 DEF Chain!Dispatch, ChainTypes, Chain!Done, Chain!Absent, Chain!Pending
  <2>2. \A i \in (told \cap Chain!Pending)' : i \in told \cap Chain!Pending /\ due[i] <= due'[i]
    BY <1>7, <2>1, Numbers DEF Chain!Dispatch, Chain!Pending, Chain!Done, ChainTypes
  <2>3. KeysWait'
    BY <1>7 DEF Chain!Dispatch, KeysWait
  <2>4. QED
    BY <1>7, <2>1, <2>2, <2>3, KeepsCover, Numbers DEF Chain!Dispatch, ReadInTime
<1>8. CASE Chain!NextWakeup
  <2>1. Chain!Pending # {} => /\ Chain!Min({due[i] : i \in Chain!Pending}) \in Nat
                             /\ \A i \in Chain!Pending : Chain!Min({due[j] : j \in Chain!Pending}) <= due[i]
    <3> DEFINE S == {due[i] : i \in Chain!Pending}
    <3>1. S \subseteq Nat
      BY DEF Chain!Pending, ChainTypes, Chain!Absent, Chain!Done
    <3>2. ASSUME Chain!Pending # {} PROVE Chain!Min(S) \in S /\ \A k \in S : Chain!Min(S) <= k
      <4> HIDE DEF S
      <4>1. S # {}
        BY <3>2 DEF S
      <4>2. QED
        BY <3>1, <4>1, EarliestDue
    <3>3. QED
      BY <3>1, <3>2
  <2>2. ChainTypes' /\ KeysWait'
    BY <1>8, <2>1 DEF Chain!NextWakeup, ChainTypes, KeysWait
  <2>3. ReadInTime'
    BY <1>8, <2>1 DEF Chain!NextWakeup, ReadInTime, Chain!Pending, Chain!None
  <2>4. \A i \in (told \cap Chain!Pending)' : i \in told \cap Chain!Pending /\ due[i] <= due'[i]
    BY <1>8, Numbers DEF Chain!NextWakeup, Chain!Pending
  <2>5. QED
    BY <1>8, <2>2, <2>3, <2>4, KeepsCover, Numbers DEF Chain!NextWakeup
<1>9. ASSUME NEW m \in msg, Chain!Throw(m) PROVE ChainInv'
  <2>0. msg = {m} /\ m \in Chain!Message /\ wFailures' \in 0..ChainFailures /\ wPhase' = "idle"
    BY <1>9 DEF Chain!Throw, Chain!Fail, ChainTypes, Chain!Acknowledge
  <2>1. PICK again : again = [m EXCEPT !.at = wNow + RetryAfter, !.tries = @ + 1]
    OBVIOUS
  <2>2. /\ again.at = wNow + RetryAfter /\ again.release = m.release
        /\ Chain!MoreDeliveries(m) => again \in Chain!Message
    BY <2>0, <2>1, AgainFits
  <2>20. ChainTypes' /\ KeysWait' /\ ReadInTime'
    BY <1>9, <2>0, <2>1, <2>2
    DEF Chain!Throw, Chain!Redeliver, Chain!Acknowledge, ChainTypes, KeysWait, ReadInTime
  <2>3. CASE Chain!MoreDeliveries(m)
    <3>1. queue' = queue \cup {again} /\ UNCHANGED <<told, wNow, live, due>>
      BY <1>9, <2>1, <2>3 DEF Chain!Throw, Chain!Redeliver
    <3>3. ASSUME NEW i \in (told \cap Chain!Pending)' PROVE \E n \in queue' : Waits(n, i)'
      <4>1. i \in told \cap Chain!Pending /\ i \in Items /\ due[i] <= due'[i]
        BY <3>1, Numbers DEF Chain!Pending
      <4>2. \E n \in queue \cup msg : Waits(n, i) /\ Waits(n, i)'
        BY <2>20, <3>1, <4>1, Kept, Numbers
      <4>3. m.release = live => Waits(again, i)'
        BY <2>2, <2>20, <3>1, <4>1, SoonEnoughNext, Numbers DEF Waits
      <4>4. QED
        BY <2>0, <3>1, <4>2, <4>3 DEF Waits
    <3>4. QED
      BY <2>20, <3>3, CoveredMeansNext
  <2>4. CASE ~Chain!MoreDeliveries(m)
    BY <1>9, <2>20, <2>4, CoveredMeansNext DEF Chain!Throw, Chain!Redeliver
  <2>5. QED
    BY <2>3, <2>4
<1>10. ASSUME NEW m \in msg, Chain!Publish(m) PROVE ChainInv'
  <2>0. msg = {m} /\ m \in Chain!Message /\ wPhase = "publish" /\ msg' = {} /\ wPhase' = "idle"
        /\ nextAt' = Chain!None /\ UNCHANGED <<wNow, live, due, told, wFailures>>
    BY <1>10 DEF Chain!Publish, ChainTypes, Chain!Acknowledge
  <2>1. CASE nextAt = Chain!None
    <3>1. UNCHANGED <<queue, keys>>
      BY <1>10, <2>1 DEF Chain!Publish
    <3>2. QED
      BY <2>0, <2>1, <3>1, Acknowledged
  <2>2. CASE nextAt # Chain!None
    <3>1. PICK t : t = Chain!Target
      OBVIOUS
    <3>2. keys' = keys \cup {<<m.release, t>>}
          /\ queue' = IF <<m.release, t>> \in keys THEN queue
                      ELSE queue \cup {[at |-> t, release |-> m.release, tries |-> 0]}
      BY <1>10, <2>2, <3>1 DEF Chain!Publish, Chain!Send
    <3>3. /\ queue \subseteq queue'
          /\ \E f \in {[at |-> t, release |-> m.release, tries |-> 0]} :
                 f \in queue'
      <4>1. t > wNow /\ t \in Int
        BY <2>2, <3>1, TargetInTime, Numbers DEF ChainTypes, Chain!Times
      <4>2. <<m.release, t>> \in keys => [at |-> t, release |-> m.release, tries |-> 0] \in queue
        BY <4>1, Numbers DEF KeysWait
      <4>3. QED
        BY <3>2, <4>2
    <3>4. queue' \subseteq Chain!Message \cup {[at |-> t, release |-> m.release, tries |-> 0]}
      BY <3>2 DEF ChainTypes
    <3>5. [at |-> t, release |-> m.release, tries |-> 0] \in queue' /\ queue \subseteq queue'
      BY <3>3
    <3>6. wFailures' \in 0..ChainFailures
      BY <2>0, Numbers DEF ChainTypes
    <3>7. QED
      BY <2>0, <2>2, <3>1, <3>2, <3>4, <3>5, <3>6, FollowUp
  <2>3. QED
    BY <2>1, <2>2
<1>11. ASSUME NEW m \in msg, Chain!PublishedLate(m) PROVE ChainInv'
  <2>0. msg = {m} /\ m \in Chain!Message /\ wPhase = "publish" /\ msg' = {} /\ wPhase' = "idle"
        /\ nextAt # Chain!None /\ nextAt' = Chain!None /\ UNCHANGED <<wNow, live, due, told>>
        /\ wFailures' \in 0..ChainFailures
    BY <1>11 DEF Chain!PublishedLate, ChainTypes, Chain!Acknowledge, Chain!Fail
  <2>1. PICK t : t = Chain!Target
    OBVIOUS
  <2>2. PICK again : again = [m EXCEPT !.at = wNow + RetryAfter, !.tries = @ + 1]
    OBVIOUS
  <2>3. PICK f : f = [at |-> t, release |-> m.release, tries |-> 0]
    OBVIOUS
  <2>4. keys' = keys \cup {<<m.release, t>>}
        /\ queue' = queue \cup (IF <<m.release, t>> \in keys THEN {} ELSE {f})
                          \cup (IF Chain!MoreDeliveries(m) THEN {again} ELSE {})
    BY <1>11, <2>1, <2>2, <2>3 DEF Chain!PublishedLate
  <2>5. t > wNow /\ t \in Int
    BY <2>0, <2>1, TargetInTime, Numbers DEF ChainTypes, Chain!Times
  <2>6. <<m.release, t>> \in keys => f \in queue
    BY <2>3, <2>5, Numbers DEF KeysWait
  <2>7. Chain!MoreDeliveries(m) => again \in Chain!Message
    BY <2>0, <2>2, AgainFits
  <2>8. f \in queue' /\ queue \subseteq queue' /\ queue' \subseteq Chain!Message \cup {f}
    BY <2>4, <2>6, <2>7 DEF ChainTypes
  <2>9. QED
    BY <2>0, <2>1, <2>3, <2>4, <2>8, FollowUp
<1>12. CASE UNCHANGED chain
  BY <1>12 DEF chain, ChainTypes, KeysWait, ReadInTime, Chain!DueIsCovered, Waits, Latest, Chain!Pending
<1>20. QED
  BY <1>1, <1>2, <1>3, <1>4, <1>5, <1>6, <1>7, <1>8, <1>9, <1>10, <1>11, <1>12 DEF Chain!Next

-----------------------------------------------------------------------------
\* All of them, whichever part takes its steps.
LEMMA PartsInvariance == EachSpec => [](CloudInv /\ SandboxInv /\ ChainInv)
<1>1. EachInit => CloudInv /\ SandboxInv /\ ChainInv
  BY CloudStart, SandboxStart, ChainStart DEF EachInit
<1>2. [EachNext]_every => [Cloud!Next]_cloud /\ [Sandbox!Next]_sandbox /\ [Chain!Next]_chain
  BY DEF EachNext, every
<1>3. CloudInv /\ SandboxInv /\ ChainInv /\ [EachNext]_every => (CloudInv /\ SandboxInv /\ ChainInv)'
  BY <1>2, CloudStep, SandboxStep, ChainStep
<1>4. QED
  BY <1>1, <1>3, PTL DEF EachSpec

\* No wakeup is lost between a kick or a post, the pass it meets and the queue
\* (deploy/cloudflare/index.ts, lib/dispatch-wakeup.ts).
THEOREM NoWakeupIsLost == EachSpec => []WakeupsAreKept
<1>1. CloudInv /\ ChainInv => WakeupsAreKept
  BY ChainTyped DEF CloudInv, ChainInv, WakeupsAreKept
<1>2. QED
  BY <1>1, PartsInvariance, PTL

\* What is called cleaned is down for good, a tick leaves one claim unanswered at
\* most, and a worker starts on a lease of its own (web/api/dispatch.ts and
\* deploy/cloudflare/index.ts).
THEOREM CleanedRuntimesStayDown == EachSpec => CleanedStaysDown
<1>1. CloudInv => Cloud!StoppedBeforeCleaned
  BY DEF CloudInv
<1>2. SandboxInv => Sandbox!TypeOK /\ Sandbox!CleanedStaysDown /\ Sandbox!OneLostClaimPerTick
  <2> SUFFICES ASSUME SandboxInv PROVE Sandbox!OneLostClaimPerTick
    BY DEF SandboxInv, Sandbox!CleanedStaysDown
  <2>1. ASSUME NEW t \in Ticks PROVE Cardinality(lost[t]) <= 1
    <3>1. lost[t] = {} \/ \E a \in Attempts : lost[t] = {a}
      BY DEF SandboxInv
    <3>2. ASSUME NEW a, lost[t] = {a} PROVE Cardinality(lost[t]) = 1
      BY <3>2, FS_Singleton
    <3>3. lost[t] = {} => Cardinality(lost[t]) = 0
      BY FS_EmptySet
    <3>4. QED
      BY ONLY <3>1, <3>2, <3>3
  <2>2. QED
    BY <2>1, SandboxCardinality DEF Sandbox!OneLostClaimPerTick
<1>3. SandboxInv /\ [EachNext]_every =>
        [\A a \in Attempts : a \in sWorker' \ sWorker => sState[a] = "active"]_(Sandbox!vars)
  <2>1. [EachNext]_every => [Sandbox!Next]_sandbox
    BY DEF EachNext, every
  <2>2. QED
    BY <2>1, WorkersStartOnLeases
<1>4. QED
  BY <1>1, <1>2, <1>3, PartsInvariance, PTL
  DEF EachSpec, CleanedStaysDown, Sandbox!WorkerStartsOnItsLease

-----------------------------------------------------------------------------
\* The worker whose answers and encoder take their time: what WorkerProofs
\* proves for every timing, taken for this one.

SlowWorker == INSTANCE WorkerProofs WITH
    Jobs <- SlowJobs, MaxAttempts <- SlowAttempts, Lease <- SlowLease, Margin <- SlowMargin,
    Reply <- SlowReply, Kill <- SlowKill, Until <- SlowUntil, Horizon <- SlowHorizon,
    now <- lNow, job <- lJob, worker <- lWorker, beat <- lBeat, report <- lReport,
    late <- lLate, aired <- lAired

\* What WorkerAssumption and LeaseAssumption ask for.
LEMMA SlowTimes ==
    /\ {SlowAttempts, SlowLease, SlowMargin, SlowReply, SlowKill, SlowHorizon} \subseteq Nat
    /\ SlowUntil \in [SlowJobs -> Nat]
    /\ SlowReply + SlowKill < SlowMargin /\ 1 + SlowReply + SlowKill < SlowLease
BY PartsAssumption

LEMMA SlowStart == SlowWorker!Init => SlowWorker!IInv
BY SlowTimes, SlowWorker!InitInv

LEMMA SlowStep == SlowWorker!IInv /\ [SlowWorker!Next]_lease => SlowWorker!IInv'
BY SlowTimes, SlowWorker!NextStep DEF SlowWorker!vars, lease

LEMMA SlowHonoured == SlowWorker!IInv => SlowWorker!LeasesAreHonoured
<1>1. SlowWorker!IInv => SlowWorker!EncoderGoneBeforeLapse
  BY SlowTimes, SlowWorker!LeaseOutlastsEncoder DEF SlowWorker!EncoderGoneBeforeLapse
<1>2. SlowWorker!IInv => SlowWorker!SuccessIsConfirmed
  BY DEF SlowWorker!IInv, SlowWorker!RunInv, SlowWorker!Recorded, SlowWorker!Done,
         SlowWorker!SuccessIsConfirmed
<1>3. QED
  BY <1>1, <1>2 DEF SlowWorker!IInv, SlowWorker!LeasesAreHonoured

\* Both instances of Worker are the same formulas, once they are expanded.
LEMMA SameInit == Slow!Init => SlowWorker!Init
BY Zenon DEF Slow!Init, SlowWorker!Init, Slow!Runs, SlowWorker!Runs, Slow!Idle,
   SlowWorker!Idle

LEMMA SameNext == Slow!Next => SlowWorker!Next
BY Zenon DEF Slow!Next, SlowWorker!Next, Slow!Runs, SlowWorker!Runs, Slow!vars,
   SlowWorker!vars, Slow!Smaller, SlowWorker!Smaller, Slow!Idle, SlowWorker!Idle, Slow!Sent,
   SlowWorker!Sent, Slow!LeaseUntil, SlowWorker!LeaseUntil, Slow!HoldsLease,
   SlowWorker!HoldsLease, Slow!Claim, SlowWorker!Claim, Slow!Recover, SlowWorker!Recover,
   Slow!Cancel, SlowWorker!Cancel, Slow!Renewed, SlowWorker!Renewed, Slow!ServeBeat,
   SlowWorker!ServeBeat, Slow!ServeLateBeat, SlowWorker!ServeLateBeat, Slow!LateAfter,
   SlowWorker!LateAfter, Slow!Settled, SlowWorker!Settled, Slow!ServeReport,
   SlowWorker!ServeReport, Slow!Patience, SlowWorker!Patience, Slow!MustStop,
   SlowWorker!MustStop, Slow!Boot, SlowWorker!Boot, Slow!Beating, SlowWorker!Beating,
   Slow!Beat, SlowWorker!Beat, Slow!AfterBeat, SlowWorker!AfterBeat, Slow!Confirming,
   SlowWorker!Confirming, Slow!BeatAnswered, SlowWorker!BeatAnswered, Slow!BeatGivenUp,
   SlowWorker!BeatGivenUp, Slow!Becomes, SlowWorker!Becomes, Slow!Rest, SlowWorker!Rest,
   Slow!StartEncoder, SlowWorker!StartEncoder, Slow!PreparationFails,
   SlowWorker!PreparationFails, Slow!EncoderEnds, SlowWorker!EncoderEnds, Slow!StopEncoder,
   SlowWorker!StopEncoder, Slow!EncoderKilled, SlowWorker!EncoderKilled, Slow!Gone,
   SlowWorker!Gone, Slow!Crash, SlowWorker!Crash, Slow!Report, SlowWorker!Report,
   Slow!Confirmed, SlowWorker!Confirmed, Slow!ReportEnds, SlowWorker!ReportEnds,
   Slow!Urgent, SlowWorker!Urgent, Slow!Tick, SlowWorker!Tick, Slow!Results,
   SlowWorker!Results, Slow!RunStep, SlowWorker!RunStep

LEMMA SamePromise == SlowWorker!LeasesAreHonoured => Slow!LeasesAreHonoured
BY Zenon DEF Slow!LeasesAreHonoured, SlowWorker!LeasesAreHonoured, Slow!TypeOK,
   SlowWorker!TypeOK, Slow!EncoderGoneBeforeLapse, SlowWorker!EncoderGoneBeforeLapse,
   Slow!SuccessIsConfirmed, SlowWorker!SuccessIsConfirmed, Slow!HoldsLease,
   SlowWorker!HoldsLease, Slow!Runs, SlowWorker!Runs, Slow!Phases, SlowWorker!Phases,
   Slow!States, SlowWorker!States, Slow!Rows, SlowWorker!Rows, Slow!Outcomes,
   SlowWorker!Outcomes, Slow!Workers, SlowWorker!Workers, Slow!Beats, SlowWorker!Beats,
   Slow!Reports, SlowWorker!Reports, Slow!Results, SlowWorker!Results

\* That worker is off the air before its lease lapses, and logs as completed
\* only what the repository recorded (server/worker.py, server/repository.py).
THEOREM SlowLeasesStayHonoured == EachSpec => []SlowLeasesAreHonoured
<1>1. EachInit => SlowWorker!IInv
  BY SameInit, SlowStart DEF EachInit
<1>2. [EachNext]_every => [SlowWorker!Next]_lease
  BY SameNext DEF EachNext, every
<1>3. SlowWorker!IInv /\ [EachNext]_every => SlowWorker!IInv'
  BY <1>2, SlowStep
<1>4. SlowWorker!IInv => SlowLeasesAreHonoured
  BY SlowHonoured, SamePromise DEF SlowLeasesAreHonoured
<1>5. QED
  BY <1>1, <1>3, <1>4, PTL DEF EachSpec
===============================================================================
