-------------------------------- MODULE Worker --------------------------------
(***************************************************************************)
(* The cloud workers of one tenant with one slot (server/worker.py and the *)
(* encoder of server/media_runtime.py) and the lease they hold on their    *)
(* jobs (claim, heartbeat and finish of server/repository.py), connected   *)
(* by requests that are lost, answered late or processed after the worker  *)
(* gave them up.  A run <<j, v>> is attempt v of job j.                    *)
(*                                                                         *)
(* The loops that poll several times a second are urgent: time does not    *)
(* pass while a publishing encoder has to be stopped.                      *)
(***************************************************************************)
EXTENDS Integers

CONSTANTS
    Jobs,
    MaxAttempts,
    Lease,          \* lease_seconds
    Margin,         \* what the worker leaves of it (20 seconds)
    Reply,          \* a request is answered or given up within this (10 s)
    Kill,           \* terminate_process_group takes at most this (2 s)
    Until,          \* Until[j]: reserved_until, the deadline of j's workers
    Horizon         \* bound: the last instant of the clock

ASSUME WorkerAssumption ==
    /\ {MaxAttempts, Lease, Margin, Reply, Kill, Horizon} \subseteq Nat
    /\ Until \in [Jobs -> Nat]

\* What the margin is for: an answer under way and the kill.  So it is with the
\* 20 seconds of the code and the default lease of 90, and with every lease from
\* 14 on; claim and heartbeat accept 5.
ASSUME LeaseAssumption == Reply + Kill < Margin /\ 1 + Reply + Kill < Lease

Runs == Jobs \X (1..MaxAttempts)

VARIABLES
    now,
    job,        \* state, version, expires and cancel of each job's row
    worker,     \* phase, since, last (last_success), stop and result of each run
    beat,       \* the heartbeat request of a run: its state and when it was sent
    report,     \* the finish request of a run, likewise
    late,       \* runs with a heartbeat that was given up but still travels
    aired       \* history: runs whose encoder was started

vars == <<now, job, worker, beat, report, late, aired>>

Smaller(a, b) == IF a <= b THEN a ELSE b
Idle == [state |-> "none", at |-> 0]
Sent == [state |-> "sent", at |-> now]

Init ==
    /\ now = 0
    /\ job = [j \in Jobs |-> [state |-> "queued", version |-> 0, expires |-> 0, cancel |-> FALSE]]
    /\ worker = [r \in Runs |-> [phase |-> "none", since |-> 0, last |-> 0, stop |-> FALSE,
                                 result |-> "none"]]
    /\ beat = [r \in Runs |-> Idle] /\ report = [r \in Runs |-> Idle]
    /\ late = {} /\ aired = {}

----------------------------------------------------------------------------
(* The repository. *)

LeaseUntil(j) == Smaller(now + Lease, Until[j])
HoldsLease(r) ==
    /\ job[r[1]].state = "active" /\ job[r[1]].version = r[2]
    /\ now < job[r[1]].expires

Claim(j) ==
    /\ job[j].state = "queued" /\ job[j].version < MaxAttempts /\ now < Until[j]
    /\ \A other \in Jobs : job[other].state # "active"
    /\ job' = [job EXCEPT ![j] = [state |-> "active", version |-> @.version + 1,
                                  expires |-> LeaseUntil(j), cancel |-> FALSE]]
    /\ UNCHANGED <<now, worker, beat, report, late, aired>>

Recover(j) ==
    /\ job[j].state = "active" /\ job[j].expires <= now
    /\ job' = [job EXCEPT ![j].state = IF job[j].cancel THEN "stopped" ELSE "failed"]
    /\ UNCHANGED <<now, worker, beat, report, late, aired>>

Cancel(j) ==
    /\ job[j].state \in {"queued", "active"} /\ ~job[j].cancel
    /\ job' = [job EXCEPT ![j].cancel = TRUE,
                          ![j].state = IF @ = "queued" THEN "stopped" ELSE @]
    /\ UNCHANGED <<now, worker, beat, report, late, aired>>

Renewed(r) == [job EXCEPT ![r[1]].expires = LeaseUntil(r[1])]
ServeBeat(r) ==
    /\ beat[r].state = "sent"
    /\ IF HoldsLease(r)
       THEN /\ job' = Renewed(r)
            /\ beat' = [beat EXCEPT ![r].state = IF job[r[1]].cancel THEN "cancel" ELSE "ok"]
       ELSE UNCHANGED job /\ beat' = [beat EXCEPT ![r].state = "refused"]
    /\ UNCHANGED <<now, worker, report, late, aired>>

ServeLateBeat(r) ==
    /\ r \in late
    /\ late' = late \ {r}
    /\ job' = IF HoldsLease(r) THEN Renewed(r) ELSE job
    /\ UNCHANGED <<now, worker, beat, report, aired>>

\* A request that is given up may still renew the lease its run holds.
LateAfter(r) == IF beat[r].state = "sent" /\ HoldsLease(r) THEN late \cup {r} ELSE late

\* What finish makes of a result: a cancellation wins, a last retry fails.
Settled(r) ==
    IF job[r[1]].cancel THEN "stopped"
    ELSE IF worker[r].result # "retry_wait" THEN worker[r].result
    ELSE IF r[2] < MaxAttempts /\ now < Until[r[1]] THEN "queued" ELSE "failed"
ServeReport(r) ==
    /\ report[r].state = "sent"
    /\ IF HoldsLease(r)
       THEN /\ job' = [job EXCEPT ![r[1]].state = Settled(r)]
            /\ report' = [report EXCEPT ![r].state = Settled(r)]
       ELSE UNCHANGED job /\ report' = [report EXCEPT ![r].state = "refused"]
    /\ UNCHANGED <<now, worker, beat, late, aired>>

----------------------------------------------------------------------------
(* The lease client. *)

PatienceMutant == Lease
Patience == IF Lease - Margin >= 1 THEN Lease - Margin ELSE 1
MustStopMutant(r) == worker[r].stop
MustStop(r) == worker[r].stop \/ now >= Until[r[1]] \/ now - worker[r].last >= Patience

\* run_job starts: the first heartbeat comes before anything else.
Boot(r) ==
    /\ worker[r].phase = "none" /\ job[r[1]].version >= r[2]
    /\ worker' = [worker EXCEPT ![r].phase = "booting", ![r].last = now]
    /\ beat' = [beat EXCEPT ![r] = Sent]
    /\ UNCHANGED <<now, job, report, late, aired>>

Beating == {"preparing", "publishing", "killing", "reporting"}
Beat(r) ==
    /\ worker[r].phase \in Beating /\ beat[r].state = "none" /\ beat[r].at < now
    /\ beat' = [beat EXCEPT ![r] = Sent]
    /\ UNCHANGED <<now, job, worker, report, late, aired>>

AfterBeat(r, phase, stop) ==
    [worker EXCEPT ![r].phase = phase, ![r].stop = stop, ![r].last = now,
                   ![r].since = IF worker[r].phase = "booting" THEN now ELSE @]
Confirming == {"ok", "cancel"}
\* Only a confirmed heartbeat counts; the other answers end the run.
BeatAnswered(r) ==
    /\ beat[r].state \in {"ok", "cancel", "refused"}
    /\ beat' = [beat EXCEPT ![r].state = "none"]
    /\ worker' = IF beat[r].state \in Confirming
                 THEN AfterBeat(r, IF worker[r].phase = "booting" THEN "preparing" ELSE worker[r].phase,
                                worker[r].stop \/ beat[r].state = "cancel")
                 ELSE IF worker[r].phase = "booting"
                 THEN [worker EXCEPT ![r].phase = "reporting", ![r].result = "failed"]
                 ELSE [worker EXCEPT ![r].stop = TRUE]
    /\ UNCHANGED <<now, job, report, late, aired>>

BeatGivenUp(r) ==
    /\ beat[r].state # "none"
    /\ beat' = [beat EXCEPT ![r].state = "none"]
    /\ late' = LateAfter(r)
    /\ worker' = IF worker[r].phase = "booting"
                 THEN [worker EXCEPT ![r].phase = "reporting", ![r].result = "failed"] ELSE worker
    /\ UNCHANGED <<now, job, report, aired>>

----------------------------------------------------------------------------
(* The run itself. *)

Becomes(r, phase, result) ==
    worker' = [worker EXCEPT ![r].phase = phase, ![r].result = result,
                             ![r].since = IF phase = "killing" THEN now ELSE 0]
Rest == UNCHANGED <<now, job, beat, report, late>>

\* Fetching the media takes longer than a poll of the clock does.
StartEncoder(r) ==
    /\ worker[r].phase = "preparing" /\ worker[r].since < now /\ ~MustStop(r)
    /\ Becomes(r, "publishing", "none")
    /\ aired' = aired \cup {r}
    /\ Rest

PreparationFails(r) ==
    /\ worker[r].phase = "preparing"
    /\ Becomes(r, "reporting", "failed")
    /\ UNCHANGED aired /\ Rest

EncoderEnds(r, result) ==
    /\ worker[r].phase = "publishing"
    /\ Becomes(r, "reporting", result)
    /\ UNCHANGED aired /\ Rest

StopEncoder(r) ==
    /\ worker[r].phase = "publishing" /\ MustStop(r)
    /\ Becomes(r, "killing", "stopped")
    /\ UNCHANGED aired /\ Rest

EncoderKilled(r) ==
    /\ worker[r].phase = "killing"
    /\ Becomes(r, "reporting", "stopped")
    /\ UNCHANGED aired /\ Rest

Gone(r, result) ==
    /\ worker' = [worker EXCEPT ![r] = [phase |-> "gone", since |-> 0, last |-> 0, stop |-> FALSE,
                                        result |-> result]]
    /\ beat' = [beat EXCEPT ![r] = Idle] /\ report' = [report EXCEPT ![r] = Idle]
    /\ late' = LateAfter(r)
    /\ UNCHANGED <<now, job, aired>>

\* The VM is lost at any time; its encoder dies with its parent.
Crash(r) == worker[r].phase \notin {"none", "gone"} /\ Gone(r, "none")

Report(r) ==
    /\ worker[r].phase = "reporting" /\ report[r].state = "none"
    /\ worker' = [worker EXCEPT ![r].result = IF MustStop(r) THEN "stopped" ELSE @]
    /\ report' = [report EXCEPT ![r] = Sent]
    /\ UNCHANGED <<now, job, beat, late, aired>>

ConfirmedMutant(r) == worker[r].result
\* The result the worker logs: what the server confirmed, in time.
Confirmed(r) ==
    IF report[r].state \in {"sent", "refused"} THEN "failed"
    ELSE IF report[r].state = "completed" /\ MustStop(r) THEN "failed"
    ELSE report[r].state
\* An answer, or none ("sent"), ends the run.
ReportEnds(r) ==
    /\ worker[r].phase = "reporting" /\ report[r].state # "none"
    /\ Gone(r, Confirmed(r))

Urgent(r) ==
    \/ worker[r].phase = "publishing" /\ MustStop(r)
    \/ worker[r].phase = "killing" /\ now >= worker[r].since + Kill
    \/ beat[r].state # "none" /\ now >= beat[r].at + Reply
    \/ report[r].state # "none" /\ now >= report[r].at + Reply
Tick ==
    /\ now < Horizon /\ \A r \in Runs : ~Urgent(r)
    /\ now' = now + 1
    /\ UNCHANGED <<job, worker, beat, report, late, aired>>

Results == {"completed", "retry_wait", "failed"}
RunStep(r) ==
    \/ BeatAnswered(r) \/ BeatGivenUp(r) \/ StopEncoder(r) \/ EncoderKilled(r)
    \/ Report(r) \/ ReportEnds(r)
Next ==
    \/ \E j \in Jobs : Claim(j) \/ Recover(j) \/ Cancel(j)
    \/ \E r \in Runs : \/ Boot(r) \/ Beat(r) \/ RunStep(r) \/ Crash(r)
                       \/ StartEncoder(r) \/ PreparationFails(r)
                       \/ \E result \in Results : EncoderEnds(r, result)
                       \/ ServeBeat(r) \/ ServeLateBeat(r) \/ ServeReport(r)
    \/ Tick

Spec == Init /\ [][Next]_vars

----------------------------------------------------------------------------
(* Properties. *)

Phases == {"none", "booting", "preparing", "publishing", "killing", "reporting", "gone"}
States == {"queued", "active", "completed", "failed", "stopped"}
Rows == [state : States, version : 0..MaxAttempts, expires : Nat, cancel : BOOLEAN]
Outcomes == Results \cup States \cup {"none"}
Workers == [phase : Phases, since : Nat, last : Nat, stop : BOOLEAN, result : Outcomes]
Beats == [state : {"none", "sent", "ok", "cancel", "refused"}, at : Nat]
Reports == [state : States \cup {"none", "sent", "refused"}, at : Nat]
TypeOK ==
    /\ now \in 0..Horizon
    /\ job \in [Jobs -> Rows] /\ worker \in [Runs -> Workers]
    /\ beat \in [Runs -> Beats] /\ report \in [Runs -> Reports]
    /\ late \subseteq Runs /\ aired \subseteq Runs

\* Before its lease lapses a worker has stopped its encoder and killed it,
\* although it judges by its own clock and by answers that came late.  Only a
\* lease that ends with the reservation itself is cut without this margin.
EncoderGoneBeforeLapse ==
    \A r \in Runs : worker[r].phase \in {"publishing", "killing"} =>
        \/ HoldsLease(r)
        \/ Until[r[1]] <= now /\ now <= Until[r[1]] + Kill

\* A worker logs a completion only if the repository recorded it.
SuccessIsConfirmed ==
    \A r \in Runs : worker[r].phase = "gone" /\ worker[r].result = "completed"
        => job[r[1]].state = "completed" /\ job[r[1]].version = r[2]

\* All of it, of what the repository, the requests and the workers hold.
LeasesAreHonoured == TypeOK /\ EncoderGoneBeforeLapse /\ SuccessIsConfirmed

\* The workers of a tenant share the slot as StreamSlot promises.
OnAir == {r \in Runs : worker[r].phase = "publishing"}
Air == IF OnAir = {} THEN <<>> ELSE CHOOSE r \in OnAir : TRUE
Slot == INSTANCE StreamSlot WITH Nobody <- <<>>, onAir <- Air
SharesSlot == Slot!Spec
=============================================================================
