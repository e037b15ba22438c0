---------------------------- MODULE JobRepository ----------------------------
(***************************************************************************)
(* The job table of server/repository.py: admission of broadcast, import   *)
(* and validation jobs, the dispatcher's claim, the worker's lease (token, *)
(* heartbeat, completion), cancellation, suspension of a tenant, recovery  *)
(* of expired leases, and the runtime records of every attempt.            *)
(*                                                                         *)
(* Every mutating method runs in one transaction that first locks the one  *)
(* coordination row (_gate), so each is one action.  Time is the database  *)
(* clock, read once per transaction and advanced by Tick.                  *)
(*                                                                         *)
(* Abstractions: every platform target is the kind "stream"; a job's id is *)
(* its insertion number, which stands for the "created" column the queue   *)
(* is ordered by; a lease token is the version it was issued with; refused *)
(* calls (they roll back) are steps that do not happen; quotas that only   *)
(* refuse (daily seconds, stored bytes) are left to OutputStorage, which   *)
(* restricts Create and the claim's "blocked" candidates.                  *)
(***************************************************************************)
EXTENDS Integers, FiniteSets, Sequences

CONSTANTS
    Tenants,            \* tenant (member) identifiers
    MaxJobs,            \* bound: jobs ever admitted
    Requests,           \* the kinds of a request's jobs, as sequences
    MediaDurations,     \* durations of the recordings
    AttemptLimits,      \* the values of max_attempts that requests carry
    GlobalConcurrency, TenantConcurrency, MaxPendingJobs,
    ValidationDuration, RuntimeAllowance, RetryDelay, ReservationGrace,
    LeaseSeconds,
    LongestOutput,      \* the longest recording whose output may be stored
    Tolerance,          \* max(.5, 1% of the duration), in whole seconds
    PastSlack,          \* how far in the past "scheduled" may lie
    Horizon             \* bound: the last instant of the clock

Jobs == 1..MaxJobs
MaxAttempts == 5
Versions == 1..MaxAttempts

Processing == {"validate", "import"}
\* "legacy" is a local job admitted before migration 004: its output has no
\* budget until a claim acquires it.
Kinds == {"stream", "local", "legacy"} \cup Processing
Queued == {"scheduled", "retry_wait"}
Active == {"starting", "streaming", "stopping"}
Terminal == {"completed", "failed", "stopped"}
Nonterminal == Queued \cup Active
States == {"absent", "deleted"} \cup Nonterminal \cup Terminal

ASSUME CapsAssumption ==
    /\ GlobalConcurrency \in Nat \ {0}
    /\ TenantConcurrency \in Nat \ {0}
    /\ MaxPendingJobs \in Nat \ {0}
ASSUME BoundsAssumption == MaxJobs \in Nat /\ Horizon \in Nat
ASSUME TimingAssumption ==
    /\ MediaDurations \subseteq Nat
    /\ ValidationDuration \in Nat
    /\ RuntimeAllowance \in Nat
    /\ RetryDelay \in Nat \ {0}
    /\ ReservationGrace \in Nat
    /\ LeaseSeconds \in Nat \ {0}
    /\ LongestOutput \in Nat
    /\ Tolerance \in Nat
    /\ PastSlack \in Nat
ASSUME RequestsAssumption ==
    /\ Requests \subseteq Seq(Kinds) \ {<<>>}
    /\ AttemptLimits \subseteq Versions
\* Arithmetic that the provers do not know; TLC evaluates it.
ASSUME PowersAssumption == \A n \in 0..MaxAttempts : 2^n \in Nat \ {0} /\ 2^(n + 1) = 2 * 2^n

VARIABLES
    now,        \* the database clock
    enabled,    \* tenants whose account is not suspended
    plan,       \* the columns of a job row that no operation changes
    state, attempt, progress, cancel, secret, nextRun, lease, token,
    runtime,    \* runtime[j][v]: the state column of the attempt's record
    cleaned     \* cleaned[j]: versions whose runtime was confirmed gone

row == <<plan, state, attempt, progress, cancel, secret, nextRun, lease, token>>
records == <<runtime, cleaned>>
vars == <<now, enabled, row, records>>

NoPlan == [tenant |-> "none", kind |-> "none", dur |-> 0, start |-> 0,
           until |-> 0, tries |-> 0]

Init ==
    /\ now = 0
    /\ enabled = Tenants
    /\ plan = [j \in Jobs |-> NoPlan]
    /\ state = [j \in Jobs |-> "absent"]
    /\ attempt = [j \in Jobs |-> 0]
    /\ progress = [j \in Jobs |-> 0]
    /\ cancel = [j \in Jobs |-> FALSE]
    /\ secret = [j \in Jobs |-> FALSE]
    /\ nextRun = [j \in Jobs |-> 0]
    /\ lease = [j \in Jobs |-> 0]
    /\ token = [j \in Jobs |-> 0]
    /\ runtime = [j \in Jobs |-> [v \in Versions |-> "none"]]
    /\ cleaned = [j \in Jobs |-> {}]

----------------------------------------------------------------------------
(* Admission. *)

\* How long one attempt runs: processing jobs have a fixed allowance.
Duration(kind, dur) == IF kind \in Processing THEN ValidationDuration ELSE dur

EnvelopeMutant(dur, tries) ==
    (dur + RuntimeAllowance) * tries + RetryDelay * (tries - 1) + ReservationGrace
\* All attempts at full length, the waits between them, and the grace.
Envelope(dur, tries) ==
    (dur + RuntimeAllowance) * tries + RetryDelay * (2^(tries - 1) - 1)
        + ReservationGrace

Covers(j, t) == state[j] \in Nonterminal /\ plan[j].start <= t /\ t < plan[j].until
Holding(t) == {j \in Jobs : Covers(j, t)}
HoldingOf(tn, t) == {j \in Holding(t) : plan[j].tenant = tn}
Pending(tn) == {j \in Jobs : state[j] \in Nonterminal /\ plan[j].tenant = tn}

CapacityForMutant(tn, n, from, to) ==
    \A t \in from..(to - 1) :
        /\ Cardinality(Holding(t)) + 1 <= GlobalConcurrency
        /\ Cardinality(HoldingOf(tn, t)) + 1 <= TenantConcurrency
\* The sweep's verdict on n more reservations of [from, to) by tenant tn.
CapacityFor(tn, n, from, to) ==
    \A t \in from..(to - 1) :
        /\ Cardinality(Holding(t)) + n <= GlobalConcurrency
        /\ Cardinality(HoldingOf(tn, t)) + n <= TenantConcurrency

MinOf(a, b) == IF a <= b THEN a ELSE b
MaxOf(a, b) == IF a >= b THEN a ELSE b

\* create_job, create_import and create_jobs_batch: the jobs of one request
\* share their instant and are inserted in one transaction, or not at all.
Create(tn, request, dur, tries, start, first) ==
    LET new == first..(first + Len(request) - 1)
        kindOf(j) == request[j - first + 1]
        length == Duration(request[1], dur)
        until == start + Envelope(length, tries)
    IN  /\ tn \in enabled
        /\ new \subseteq Jobs
        /\ \A j \in Jobs : state[j] = "absent" <=> j >= first    \* the next free rows
        /\ Len(request) > 1 => Len(request) <= MinOf(TenantConcurrency, GlobalConcurrency)
        /\ start >= now - PastSlack
        /\ until <= Horizon
        /\ Cardinality(Pending(tn)) + Len(request) <= MaxPendingJobs
        /\ CapacityFor(tn, Len(request), start, until)
        /\ plan' = [j \in Jobs |-> IF j \in new
                       THEN [tenant |-> tn, kind |-> kindOf(j), dur |-> length,
                             start |-> start, until |-> until, tries |-> tries]
                       ELSE plan[j]]
        /\ state' = [j \in Jobs |-> IF j \in new THEN "scheduled" ELSE state[j]]
        /\ secret' = [j \in Jobs |-> IF j \in new
                         THEN kindOf(j) \in {"stream", "import"} ELSE secret[j]]
        /\ nextRun' = [j \in Jobs |-> IF j \in new THEN start ELSE nextRun[j]]
        /\ UNCHANGED <<now, enabled, attempt, progress, cancel, lease, token, records>>

----------------------------------------------------------------------------
(* Endings.  "outcome" maps the jobs that end, or wait for a retry, in the  *)
(* current transaction to their new state.                                  *)

Override(f, g) == [x \in DOMAIN f |-> IF x \in DOMAIN g THEN g[x] ELSE f[x]]
Cleared(f, S, default) == [x \in DOMAIN f |-> IF x \in S THEN default ELSE f[x]]
EndsIn(outcome, states) == {j \in DOMAIN outcome : outcome[j] \in states}

SecretsAfterMutant(outcome) == Cleared(secret, DOMAIN outcome, FALSE)
\* A secret is dropped on every terminal state; a retry needs it again.
SecretsAfter(outcome) == Cleared(secret, EndsIn(outcome, Terminal), FALSE)

RuntimesAfterMutant(outcome) ==
    [j \in Jobs |-> [v \in Versions |->
        IF j \in EndsIn(outcome, Terminal) /\ v = attempt[j] THEN outcome[j] ELSE runtime[j][v]]]
\* _finish_side_effects: the current attempt's record follows the job.
RuntimesAfter(outcome) ==
    [j \in Jobs |-> [v \in Versions |->
        IF j \in DOMAIN outcome /\ v = attempt[j] THEN outcome[j] ELSE runtime[j][v]]]

ExpiredMutant == {j \in Jobs : state[j] \in Active /\ lease[j] <= now}
AnyExpiredMutant == {j \in Jobs : state[j] \notin {"absent", "deleted"} /\ plan[j].until <= now}
Expired == {j \in Jobs : \/ state[j] \in Active /\ lease[j] <= now
                         \/ state[j] \in Queued /\ plan[j].until <= now}
VerdictsMutant ==
    [j \in Expired |-> IF cancel[j] THEN "stopped"
                       ELSE IF attempt[j] < plan[j].tries THEN "retry_wait" ELSE "failed"]
\* A lost worker may still be publishing, so an expired lease never retries.
Verdicts == [j \in Expired |-> IF cancel[j] THEN "stopped" ELSE "failed"]

\* recover_expired (also the first step of claim).
Recover ==
    /\ Expired # {}
    /\ state' = Override(state, Verdicts)
    /\ secret' = SecretsAfter(Verdicts)
    /\ lease' = Cleared(lease, Expired, 0)
    /\ token' = Cleared(token, Expired, 0)
    /\ runtime' = RuntimesAfter(Verdicts)
    /\ UNCHANGED <<now, enabled, plan, attempt, progress, cancel, nextRun, cleaned>>

----------------------------------------------------------------------------
(* Claim. *)

\* What the next attempt still has to play at position p: a stream resumes,
\* files and processing jobs start over.
Remaining(j, p) ==
    IF plan[j].kind = "stream" /\ p < plan[j].dur THEN plan[j].dur - p
    ELSE IF plan[j].kind = "stream" THEN 0 ELSE plan[j].dur

LeaseUntilMutant(j) == now + LeaseSeconds
LeaseUntil(j) == MinOf(now + LeaseSeconds, plan[j].until)

Running == {j \in Jobs : state[j] \in Active} \ Expired
RunningOf(tn) == {j \in Running : plan[j].tenant = tn}
Candidates == {j \in Jobs : state[j] \in Queued /\ nextRun[j] <= now /\ ~cancel[j]} \ Expired
Precedes(i, j) == nextRun[i] < nextRun[j] \/ (nextRun[i] = nextRun[j] /\ i < j)

TenantFree(j) == Cardinality(RunningOf(plan[j].tenant)) < TenantConcurrency
Late(j) == \/ now + Remaining(j, progress[j]) + RuntimeAllowance > plan[j].until
           \/ attempt[j] >= plan[j].tries
Overlarge(j) == plan[j].kind = "legacy" /\ plan[j].dur > LongestOutput
Claimable(j) == TenantFree(j) /\ ~Late(j) /\ ~Overlarge(j)

\* The scan fails the late and the overlarge candidates it meets before the
\* one it returns.
RefusedBefore(chosen) ==
    {j \in Candidates : /\ TenantFree(j) /\ (Late(j) \/ Overlarge(j))
                        /\ \A c \in chosen : Precedes(j, c)}
ScanVerdicts(chosen) ==
    [j \in Expired \cup RefusedBefore(chosen) |-> IF j \in Expired THEN Verdicts[j] ELSE "failed"]
\* A job whose budget exceeds the limit fails with whatever secret it has.
ScanSecrets(outcome) ==
    Cleared(secret, {j \in DOMAIN outcome : j \in Expired \/ Late(j)}, FALSE)

\* The first claimable candidate, or none; "blocked" candidates lack the
\* storage for their output and are passed over.
Chosen(blocked) ==
    {j \in Candidates \ blocked :
        Claimable(j) /\ \A i \in Candidates \ blocked : Claimable(i) => ~Precedes(i, j)}

\* claim, when the global cap leaves room: one candidate starts, or none is fit.
Claim(blocked) ==
    LET chosen == Chosen(blocked)
        outcome == ScanVerdicts(chosen)
    IN  /\ Cardinality(Running) < GlobalConcurrency
        /\ chosen # {} \/ DOMAIN outcome # {}
        /\ state' = [j \in Jobs |-> IF j \in chosen THEN "starting"
                                    ELSE Override(state, outcome)[j]]
        /\ attempt' = [j \in Jobs |-> IF j \in chosen THEN attempt[j] + 1 ELSE attempt[j]]
        /\ token' = [j \in Jobs |-> IF j \in chosen THEN attempt[j] + 1
                                    ELSE Cleared(token, Expired, 0)[j]]
        /\ lease' = [j \in Jobs |-> IF j \in chosen THEN LeaseUntil(j)
                                    ELSE Cleared(lease, Expired, 0)[j]]
        /\ secret' = ScanSecrets(outcome)
        /\ runtime' = [j \in Jobs |-> IF j \in chosen
                          THEN [runtime[j] EXCEPT ![attempt[j] + 1] = "starting"]
                          ELSE RuntimesAfter(outcome)[j]]
        /\ UNCHANGED <<now, enabled, plan, progress, cancel, nextRun, cleaned>>

----------------------------------------------------------------------------
(* The worker's calls carry the job and the token of the claim. *)

HoldsLease(j, v) == state[j] \in Active /\ token[j] = v /\ lease[j] > now

NoProgress == -1    \* the call carries no position
Position(j, p) == IF p = NoProgress THEN progress[j] ELSE p
HeartbeatLimit(j) == plan[j].dur
FinishLimit(j) == MaxOf(ValidationDuration, plan[j].dur)

Heartbeat(j, v, p) ==
    /\ HoldsLease(j, v)
    /\ p \in {NoProgress} \cup progress[j]..HeartbeatLimit(j)
    /\ LET phase == IF p > 0 /\ ~cancel[j] THEN "streaming" ELSE state[j]
       IN  /\ state' = [state EXCEPT ![j] = phase]
           /\ runtime' = [runtime EXCEPT ![j][v] = phase]
    /\ progress' = [progress EXCEPT ![j] = Position(j, p)]
    /\ lease' = [lease EXCEPT ![j] = LeaseUntil(j)]
    /\ UNCHANGED <<now, enabled, plan, attempt, cancel, secret, nextRun, token, cleaned>>

BackoffUntil(j) == now + RetryDelay * 2^(attempt[j] - 1)
RetryFits(j, p) ==
    /\ attempt[j] < plan[j].tries
    /\ BackoffUntil(j) + Remaining(j, p) + RuntimeAllowance <= plan[j].until
Incomplete(j, p) == plan[j].kind \notin Processing /\ p + Tolerance < plan[j].dur

SettledMutant(j, asked, p) ==
    IF asked = "completed" /\ Incomplete(j, p) THEN "failed"
    ELSE IF asked = "retry_wait" /\ (cancel[j] \/ ~RetryFits(j, p)) THEN "failed"
    ELSE asked
\* What finish makes of the state the worker reports at position p.
Settled(j, asked, p) ==
    IF cancel[j] THEN "stopped"
    ELSE IF asked = "completed" /\ Incomplete(j, p) THEN "failed"
    ELSE IF asked = "retry_wait" /\ ~RetryFits(j, p) THEN "failed"
    ELSE asked

Finish(j, v, asked, p) ==
    /\ HoldsLease(j, v)
    /\ p \in progress[j]..FinishLimit(j)
    /\ LET outcome == [i \in {j} |-> Settled(j, asked, p)]
       IN  /\ state' = Override(state, outcome)
           /\ secret' = SecretsAfter(outcome)
           /\ runtime' = RuntimesAfter(outcome)
    /\ progress' = [progress EXCEPT ![j] = p]
    /\ nextRun' = [nextRun EXCEPT ![j] = BackoffUntil(j)]
    /\ lease' = [lease EXCEPT ![j] = 0]
    /\ token' = [token EXCEPT ![j] = 0]
    /\ UNCHANGED <<now, enabled, plan, attempt, cancel, cleaned>>

----------------------------------------------------------------------------
(* Cancellation and suspension. *)

\* _cancel_job for every job of S that has not ended: an active one keeps
\* its lease until its worker sees "stopping", a queued one stops at once.
CancelJobs(S) ==
    LET outcome == [j \in {i \in S : state[i] \in Queued} |-> "stopped"]
        running == {i \in S : state[i] \in Active}
    IN  /\ state' = [j \in Jobs |-> IF j \in running THEN "stopping"
                                    ELSE Override(state, outcome)[j]]
        /\ cancel' = [j \in Jobs |-> cancel[j] \/ j \in running \/ j \in DOMAIN outcome]
        /\ secret' = SecretsAfter(outcome)
        /\ runtime' = [j \in Jobs |-> IF j \in running
                          THEN [runtime[j] EXCEPT ![attempt[j]] = "stopping"]
                          ELSE RuntimesAfter(outcome)[j]]
        /\ UNCHANGED <<now, plan, attempt, progress, nextRun, lease, token, cleaned>>

Cancel(j) ==
    /\ state[j] \in Nonterminal
    /\ CancelJobs({j})
    /\ UNCHANGED enabled

SuspendMutant(tn) ==
    /\ tn \in enabled
    /\ enabled' = enabled \ {tn}
    /\ CancelJobs({j \in Pending(tn) : state[j] \in Active})
\* MemberManagement.set_enabled(False): under the same coordination lock.
Suspend(tn) ==
    /\ tn \in enabled
    /\ enabled' = enabled \ {tn}
    /\ CancelJobs(Pending(tn))

Reinstate(tn) ==
    /\ tn \notin enabled
    /\ enabled' = enabled \cup {tn}
    /\ UNCHANGED <<now, row, records>>

----------------------------------------------------------------------------
(* Runtime records and time. *)

\* mark_runtime_cleaned: the dispatcher saw the attempt's runtime gone.
MarkCleaned(j, v) ==
    /\ runtime[j][v] \notin Active \cup {"none"}
    /\ v \notin cleaned[j]
    /\ cleaned' = [cleaned EXCEPT ![j] = @ \cup {v}]
    /\ UNCHANGED <<now, enabled, row, runtime>>

\* The part of cleanup that drops the rows of jobs that ended long ago.
Forget(old) ==
    /\ old # {} /\ \A j \in old : state[j] \in Terminal
    /\ state' = Cleared(state, old, "deleted")
    /\ UNCHANGED <<now, enabled, plan, attempt, progress, cancel, secret, nextRun,
                   lease, token, records>>

Tick ==
    /\ now < Horizon
    /\ now' = now + 1
    /\ UNCHANGED <<enabled, row, records>>

Next ==
    \/ \E tn \in Tenants, r \in Requests, d \in MediaDurations, n \in AttemptLimits,
          s \in 0..Horizon, j \in Jobs : Create(tn, r, d, n, s, j)
    \/ Recover
    \/ \E blocked \in SUBSET {j \in Jobs : plan[j].kind \in {"local", "legacy", "import"}} : Claim(blocked)
    \/ \E j \in Jobs, v \in Versions :
          \/ \E p \in NoProgress..HeartbeatLimit(j) : Heartbeat(j, v, p)
          \/ \E asked \in Terminal \cup {"retry_wait"}, p \in 0..FinishLimit(j) :
                Finish(j, v, asked, p)
          \/ MarkCleaned(j, v)
    \/ \E j \in Jobs : Cancel(j)
    \/ \E old \in SUBSET Jobs : Forget(old)
    \/ \E tn \in Tenants : Suspend(tn) \/ Reinstate(tn)
    \/ Tick

Spec == Init /\ [][Next]_vars

----------------------------------------------------------------------------
(* Properties. *)

TypeOK ==
    /\ now \in 0..Horizon
    /\ enabled \subseteq Tenants
    /\ plan \in [Jobs -> [tenant : Tenants \cup {"none"}, kind : Kinds \cup {"none"}, dur : Nat,
                          start : Nat, until : Nat, tries : {0} \cup Versions]]
    /\ state \in [Jobs -> States]
    /\ attempt \in [Jobs -> 0..MaxAttempts]
    /\ progress \in [Jobs -> Nat]
    /\ cancel \in [Jobs -> BOOLEAN]
    /\ secret \in [Jobs -> BOOLEAN]
    /\ nextRun \in [Jobs -> Nat]
    /\ lease \in [Jobs -> Nat]
    /\ token \in [Jobs -> 0..MaxAttempts]
    /\ runtime \in [Jobs -> [Versions -> {"none"} \cup Nonterminal \cup Terminal]]
    /\ cleaned \in [Jobs -> SUBSET Versions]

\* At no instant, now or in the future, do more unfinished jobs hold a
\* reservation than the global cap or their tenant's cap allows (_capacity).
CapacityReserved ==
    \A t \in 0..Horizon :
        /\ Cardinality(Holding(t)) <= GlobalConcurrency
        /\ \A tn \in Tenants : Cardinality(HoldingOf(tn, t)) <= TenantConcurrency

\* Admission is a promise: a due job whose window is still open is never
\* passed over for want of a slot, whatever the other jobs, their retries,
\* their cancellations and lost workers did meanwhile.
AdmittedNeverRefused ==
    \A j \in Candidates :
        /\ Cardinality(Running) < GlobalConcurrency
        /\ TenantFree(j)

\* Every live lease ends inside its job's reservation, so a worker that
\* honours its lease never publishes in another job's slot.
LeaseInsideReservation ==
    \A j \in Jobs : state[j] \in Active =>
        lease[j] <= plan[j].until /\ plan[j].start <= now /\ token[j] = attempt[j]

\* A suspended tenant's work only drains: what is left is told to stop, and
\* no job is admitted, claimed, resumed or retried (set_enabled's promise).
SuspendedTenantDrains ==
    \A j \in Jobs : state[j] \in Nonterminal /\ plan[j].tenant \notin enabled =>
        state[j] = "stopping" /\ cancel[j]

\* A cancelled job never counts as completed or failed, and never runs again,
\* whichever of the worker's completion, its lost lease or a retry comes first.
CancelIsFinal == \A j \in Jobs : cancel[j] => state[j] \in {"stopping", "stopped", "deleted"}

\* A runtime record is active exactly while its attempt holds the job: the
\* dispatcher never retires a live attempt, and can retire every ended one.
RuntimeMirrorsJob ==
    \A j \in Jobs, v \in Versions :
        /\ runtime[j][v] \in Active <=> (state[j] \in Active /\ attempt[j] = v)
        /\ v \in cleaned[j] => ~(state[j] \in Active /\ attempt[j] = v)

\* The stream key is stored exactly as long as some attempt may need it.
SecretOnlyWhileNeeded ==
    \A j \in Jobs : secret[j] <=>
        (state[j] \in Nonterminal /\ plan[j].kind \in {"stream", "import"})

\* A job whose worker let its lease lapse is never queued again: a retry
\* needs that worker's own report, made while it still held the lease.
LostLeaseNeverRetried ==
    [][\A j \in Jobs : state[j] \in Active /\ state'[j] \in Queued =>
          lease[j] > now /\ ~cancel[j]]_vars
\* The end is the end: no late call of any worker reopens a finished job.
TerminalIsFinal ==
    [][\A j \in Jobs : state[j] \in Terminal => state'[j] \in {state[j], "deleted"}]_vars

\* The admission envelope pays for every attempt: while the attempts so far
\* took no longer than planned, plus the grace in all, the next one still fits.
Planned(j, n) == plan[j].start + n * (plan[j].dur + RuntimeAllowance)
EnvelopeCoversRetries ==
    \A j \in Jobs :
        /\ /\ state[j] \in Active /\ ~cancel[j] /\ attempt[j] < plan[j].tries
           /\ now <= Planned(j, attempt[j]) + RetryDelay * (2^(attempt[j] - 1) - 1) + ReservationGrace
           => RetryFits(j, progress[j])
        /\ /\ state[j] \in Queued
           /\ now <= Planned(j, attempt[j]) + RetryDelay * (2^attempt[j] - 1) + ReservationGrace
           => ~Late(j)

----------------------------------------------------------------------------
(* Progress.  The dispatcher calls recover_expired on every pass, and       *)
(* next_wakeup schedules a pass for every lease and queued job.             *)

Fairness == WF_vars(Tick) /\ WF_vars(Recover)
FairSpec == Spec /\ Fairness

\* Whatever workers, users and claims do or fail to do, an admitted job ends,
\* and with it its reservation and its secret.
EveryJobEnds == \A j \in Jobs : state[j] \in Nonterminal ~> state[j] \in Terminal
=============================================================================
