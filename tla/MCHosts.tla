------------------------------- MODULE MCHosts -------------------------------
(* What runs the jobs, small enough for TLC: the workers on their leases, the *)
(* two dispatchers with the runtimes they start, and the chain of wakeups.    *)
(* They do not share state: `part` picks, once, the one whose steps are taken *)
(* and the variables of the others stay as they are.  Prefixes tell apart     *)
(* variables of the same name: l for the lease of one worker, s for the       *)
(* sandbox dispatcher, w for the wakeups.                                     *)
EXTENDS Worker, TLC

CONSTANTS SlowJobs, SlowAttempts, SlowLease, SlowMargin, SlowReply, SlowKill, SlowUntil, SlowHorizon,
          Attempts, CloudClaims, CloudFailures,
          Ticks, SandboxClaims, Stuck, SandboxFailures,
          Items, Bucket, MinDelay, MaxDelay, RetryAfter, MaxDeliveries, CronAt, Dues,
          MaxTime, MaxQueue, ChainFailures

VARIABLES part,
          lNow, lJob, lWorker, lBeat, lReport, lLate, lAired,
          phase, alarm, dirty, todo, attempt, claims, at, state, cleaned, container,
          notices, noticed, failures,
          sPhase, sTodo, held, sClaims, lost, sState, sCleaned, vm, sWorker, sFailures,
          wNow, live, queue, keys, wPhase, msg, nextAt, due, told, wFailures

lease == <<lNow, lJob, lWorker, lBeat, lReport, lLate, lAired>>
cloud == <<phase, alarm, dirty, todo, attempt, claims, at, state, cleaned, container,
           notices, noticed, failures>>
sandbox == <<sPhase, sTodo, held, sClaims, lost, sState, sCleaned, vm, sWorker, sFailures>>
chain == <<wNow, live, queue, keys, wPhase, msg, nextAt, due, told, wFailures>>
every == <<part, vars, lease, cloud, sandbox, chain>>

\* What this module extends are two workers of a tenant with one slot.
UntilThree == [j \in Jobs |-> 3]

\* One worker, whose answers and encoder take their time.
UntilFive == [j \in SlowJobs |-> 5]
Slow == INSTANCE Worker WITH
    Jobs <- SlowJobs, MaxAttempts <- SlowAttempts, Lease <- SlowLease, Margin <- SlowMargin,
    Reply <- SlowReply, Kill <- SlowKill, Until <- SlowUntil, Horizon <- SlowHorizon,
    now <- lNow, job <- lJob, worker <- lWorker, beat <- lBeat, report <- lReport,
    late <- lLate, aired <- lAired

Cloud == INSTANCE CloudDispatcher WITH
    MaxClaims <- CloudClaims, MaxFailures <- CloudFailures, job <- attempt

Sandbox == INSTANCE SandboxDispatcher WITH
    MaxClaims <- SandboxClaims, MaxFailures <- SandboxFailures, phase <- sPhase, todo <- sTodo,
    claims <- sClaims, state <- sState, cleaned <- sCleaned, worker <- sWorker,
    failures <- sFailures

Chain == INSTANCE WakeupChain WITH
    MaxFailures <- ChainFailures, now <- wNow, phase <- wPhase, failures <- wFailures

ASSUME PartsAssumption ==
    /\ {SlowAttempts, SlowLease, SlowMargin, SlowReply, SlowKill, SlowHorizon} \subseteq Nat
    /\ SlowUntil \in [SlowJobs -> Nat]
    /\ SlowReply + SlowKill < SlowMargin /\ 1 + SlowReply + SlowKill < SlowLease
    /\ CloudClaims \in Nat /\ CloudFailures \in Nat
    /\ SandboxClaims \in Nat /\ SandboxFailures \in Nat
    /\ Chain!Parameters

EachInit ==
    /\ part \in {"slot", "lease", "cloud", "sandbox", "chain"}
    /\ Init /\ Slow!Init /\ Cloud!Init /\ Sandbox!Init /\ Chain!Init

EachNext ==
    /\ part' = part
    /\ \/ part = "slot" /\ Next /\ UNCHANGED <<lease, cloud, sandbox, chain>>
       \/ part = "lease" /\ Slow!Next /\ UNCHANGED <<vars, cloud, sandbox, chain>>
       \/ part = "cloud" /\ Cloud!Next /\ UNCHANGED <<vars, lease, sandbox, chain>>
       \/ part = "sandbox" /\ Sandbox!Next /\ UNCHANGED <<vars, lease, cloud, chain>>
       \/ part = "chain" /\ Chain!Next /\ UNCHANGED <<vars, lease, cloud, sandbox>>

\* Of CloudDispatcher, whose progress is checked here.
Fairness ==
    /\ WF_cloud(part = "cloud" /\ Cloud!Fire) /\ WF_cloud(part = "cloud" /\ Cloud!Cron)
    /\ WF_cloud(part = "cloud" /\ Cloud!Pass)
    /\ \A a \in Attempts : WF_cloud(part = "cloud" /\ Cloud!Finish(a))
    /\ SF_cloud(part = "cloud" /\ Cloud!Runtimes({a \in Attempts : state[a] = "active"}, {}))
EachSpec == EachInit /\ [][EachNext]_every /\ Fairness

-----------------------------------------------------------------------------
\* Queued attempts are claimed and ended ones cleaned in the end, though wakeups
\* are lost and passes fail (CloudDispatcher.WorkIsServed, under its fairness).
WorkIsServed == part = "cloud" => Cloud!WorkIsServed

\* A worker whose answers and encoder take their time is off the air before its
\* lease lapses too, and reports as completed only what the repository recorded
\* (Worker, with another timing than the workers of one slot).
SlowLeasesAreHonoured == Slow!LeasesAreHonoured

\* No wakeup is lost between a kick, the pass it meets and the queue: what the
\* dispatcher was told of has an alarm or a message that comes in time
\* (CloudDispatcher.KickNotForgotten, NoticedWorkIsCovered;
\* WakeupChain.DueIsCovered).
WakeupsAreKept ==
    /\ Cloud!TypeOK /\ Cloud!KickNotForgotten /\ Cloud!NoticedWorkIsCovered
    /\ Chain!TypeOK /\ Chain!DueIsCovered

\* A runtime that is called cleaned is down for good, through overlapping ticks
\* and lost answers, a tick leaves at most one claim without a setup, and a
\* worker starts on a lease of its own (CloudDispatcher.StoppedBeforeCleaned;
\* SandboxDispatcher.CleanedStaysDown, OneLostClaimPerTick, WorkerStartsOnItsLease).
CleanedStaysDown ==
    /\ [](/\ Cloud!StoppedBeforeCleaned
          /\ Sandbox!TypeOK /\ Sandbox!CleanedStaysDown /\ Sandbox!OneLostClaimPerTick)
    /\ Sandbox!WorkerStartsOnItsLease
=============================================================================
