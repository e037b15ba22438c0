------------------------------ MODULE Automations ------------------------------
(***************************************************************************)
(* One recurring broadcast (server/automations.py) driven by several       *)
(* coordinators, each of which claims the schedule under a lease of 120    *)
(* seconds and takes its active run one step further; the YouTube          *)
(* broadcast of each run (server/youtube_live.py); and the jobs the run    *)
(* admits.  A step is cut where the code leaves a transaction or calls the *)
(* platform: the lease may expire, and a coordinator may die, at each cut. *)
(*                                                                         *)
(* A run is a number, in the order of creation.  The import and the batch  *)
(* of a run carry idempotency keys made of the run's id, so there is one   *)
(* of each at most: import[r] and batch[r].                                *)
(***************************************************************************)
EXTENDS Integers, FiniteSets

CONSTANTS
    Coordinators,
    Videos,         \* the channel's recordings; {} when the source is a stored media
    OnYouTube,      \* BOOLEAN: YouTube is one of the targets
    MaxRuns,        \* bound: occurrences that fall due
    MaxLosses       \* bound: leases that expire and coordinators that die

Runs == 1..MaxRuns
Nobody == "nobody"
NoVideo == "no video"

VARIABLES
    sched,      \* replay_automations: enabled, deleted, due, active, owner, leased
    run,        \* replay_automation_runs: state, video, jobs (jobs_json is recorded), code
    import,     \* the import job of a run
    batch,      \* the broadcast jobs of a run, which end together
    row,        \* replay_youtube_broadcasts: phase, live_seen
    remote,     \* the broadcast on YouTube: its life cycle, whether it started, how many were made
    latest,     \* the newest public recording of the channel
    coord,      \* pc, run and code of each coordinator
    losses

vars == <<sched, run, import, batch, row, remote, latest, coord, losses>>

Init ==
    /\ sched = [enabled |-> TRUE, deleted |-> FALSE, due |-> FALSE, active |-> 0,
                owner |-> Nobody, leased |-> FALSE]
    /\ run = [r \in Runs |-> [state |-> "none", video |-> NoVideo, jobs |-> FALSE, code |-> "none"]]
    /\ import = [r \in Runs |-> "none"] /\ batch = [r \in Runs |-> "none"]
    /\ row = [r \in Runs |-> [phase |-> "none", seen |-> FALSE]]
    /\ remote = [r \in Runs |-> [state |-> "none", started |-> FALSE, made |-> 0]]
    /\ latest \in Videos \cup {NoVideo}
    /\ coord = [c \in Coordinators |-> [pc |-> "idle", run |-> 0, code |-> "none"]]
    /\ losses = 0

Terminal == {"completed", "skipped", "failed"}
At(c, pc) == coord[c].pc = pc
Holds(c) == sched.owner = c /\ sched.leased
To(c, pc) == coord' = [coord EXCEPT ![c].pc = pc]
\* record checks the lease and writes the run in one transaction; a terminal
\* state also moves the schedule to its next occurrence.
MovesOnMutant(values) == values.state = "completed"
MovesOn(values) == values.state \in Terminal
Record(c, values) ==
    /\ Holds(c)
    /\ run' = [run EXCEPT ![coord[c].run] = values]
    /\ sched' = IF MovesOn(values)
                THEN [sched EXCEPT !.active = 0, !.due = FALSE] ELSE sched
RunOf(c) == run[coord[c].run]
Records(c, values, pc) ==
    \/ Record(c, values) /\ To(c, pc)
    \/ ~Holds(c) /\ To(c, "release") /\ UNCHANGED <<run, sched>>
Fails(c, code) == coord' = [coord EXCEPT ![c].pc = "failing", ![c].code = code]

----------------------------------------------------------------------------
(* claim, and the end of a step. *)

Fresh == {r \in Runs : run[r].state = "none"}
Claim(c) ==
    LET r == IF sched.active # 0 THEN sched.active
             ELSE CHOOSE n \in Fresh : \A k \in Fresh : n <= k
    IN  /\ At(c, "idle") /\ ~sched.deleted /\ ~sched.leased
        /\ sched.active # 0 \/ (sched.enabled /\ sched.due /\ Fresh # {})
        /\ sched' = [sched EXCEPT !.active = r, !.owner = c, !.leased = TRUE]
        /\ run' = IF sched.active = 0 THEN [run EXCEPT ![r].state = "checking"] ELSE run
        /\ coord' = [coord EXCEPT ![c] = [pc |-> "step", run |-> r, code |-> "none"]]
        /\ UNCHANGED <<import, batch, row, remote, latest, losses>>

\* step reads the run; what it goes on to do depends on the state it read.
Step(c) ==
    /\ At(c, "step")
    /\ To(c, IF RunOf(c).state \in Terminal THEN "release" ELSE RunOf(c).state)
    /\ UNCHANGED <<sched, run, import, batch, row, remote, latest, losses>>

Release(c) ==
    /\ At(c, "release")
    /\ coord' = [coord EXCEPT ![c] = [pc |-> "idle", run |-> 0, code |-> "none"]]
    /\ sched' = IF sched.owner = c THEN [sched EXCEPT !.owner = Nobody, !.leased = FALSE] ELSE sched
    /\ UNCHANGED <<run, import, batch, row, remote, latest, losses>>

----------------------------------------------------------------------------
(* checking, selected, importing. *)

QueuedMutant(video) == {r \in Runs : run[r].state = "completed" /\ run[r].video = video}
\* Runs whose recorded jobs have consumed a video.
Queued(video) == {r \in Runs : run[r].jobs /\ run[r].video = video}
Check(c) ==
    /\ At(c, "checking")
    /\ IF Videos = {} THEN Records(c, [RunOf(c) EXCEPT !.state = "ready"], "release")
       ELSE IF latest = NoVideo \/ Queued(latest) # {}
       THEN Records(c, [RunOf(c) EXCEPT !.state = "skipped"], "release")
       ELSE Records(c, [RunOf(c) EXCEPT !.state = "selected", !.video = latest], "release")
    /\ UNCHANGED <<import, batch, row, remote, latest, losses>>

CreateImport(c) ==
    /\ At(c, "selected")
    /\ import' = [import EXCEPT ![coord[c].run] = IF @ = "none" THEN "running" ELSE @]
    /\ To(c, "admitted")
    /\ UNCHANGED <<sched, run, batch, row, remote, latest, losses>>
RecordImport(c) ==
    /\ At(c, "admitted")
    /\ Records(c, [RunOf(c) EXCEPT !.state = "importing"], "release")
    /\ UNCHANGED <<import, batch, row, remote, latest, losses>>

AwaitImport(c) ==
    /\ At(c, "importing")
    /\ CASE import[coord[c].run] = "ready" -> Records(c, [RunOf(c) EXCEPT !.state = "ready"], "release")
         [] import[coord[c].run] = "failed" -> Records(c, [RunOf(c) EXCEPT !.state = "failed"], "release")
         [] OTHER -> To(c, "release") /\ UNCHANGED <<run, sched>>
    /\ UNCHANGED <<import, batch, row, remote, latest, losses>>

----------------------------------------------------------------------------
(* ready: the YouTube broadcast is prepared, then the batch is admitted. *)

\* The account's connections and channel are read; the row decides.
Prepare(c) ==
    LET phase == row[coord[c].run].phase
    IN  /\ At(c, "ready")
        /\ CASE ~OnYouTube -> To(c, "batch")
             [] OnYouTube /\ phase = "none" -> To(c, "intend")
             [] OnYouTube /\ phase = "creating" -> Fails(c, "youtube")
             [] OnYouTube /\ phase \in {"created", "ready"} -> To(c, "bind")
        /\ UNCHANGED <<sched, run, import, batch, row, remote, latest, losses>>

\* guard: a lease that is lost ends the step without a trace.
Guard(c) ==
    /\ At(c, "intend")
    /\ To(c, IF Holds(c) THEN "insert" ELSE "release")
    /\ UNCHANGED <<sched, run, import, batch, row, remote, latest, losses>>
IntentTakenMutant(r) == FALSE
IntentTaken(r) == row[r].phase # "none"
\* The intent is durable, and unique, before the call that is not idempotent.
InsertIntent(c) ==
    /\ At(c, "insert")
    /\ IF IntentTaken(coord[c].run) THEN To(c, "release") /\ UNCHANGED row
       ELSE To(c, "create") /\ row' = [row EXCEPT ![coord[c].run].phase = "creating"]
    /\ UNCHANGED <<sched, run, import, batch, remote, latest, losses>>
CreateBroadcast(c, made, answered) ==
    /\ At(c, "create")
    /\ remote' = IF made THEN [remote EXCEPT ![coord[c].run].state = "ready", ![coord[c].run].made = @ + 1]
                 ELSE remote
    /\ IF made /\ answered THEN To(c, "bind") /\ row' = [row EXCEPT ![coord[c].run].phase = "created"]
       ELSE Fails(c, "youtube") /\ UNCHANGED row
    /\ UNCHANGED <<sched, run, import, batch, latest, losses>>
Bind(c) ==
    /\ At(c, "bind")
    /\ IF row[coord[c].run].phase = "ready" \/ Holds(c)
       THEN To(c, "batch") /\ row' = [row EXCEPT ![coord[c].run].phase = "ready"]
       ELSE To(c, "release") /\ UNCHANGED row
    /\ UNCHANGED <<sched, run, import, batch, remote, latest, losses>>

CreateBatch(c) ==
    /\ At(c, "batch")
    /\ batch' = [batch EXCEPT ![coord[c].run] = IF @ = "none" THEN "running" ELSE @]
    /\ To(c, "broadcast")
    /\ UNCHANGED <<sched, run, import, row, remote, latest, losses>>
RecordBatch(c) ==
    /\ At(c, "broadcast")
    /\ Records(c, [RunOf(c) EXCEPT !.state = "broadcasting", !.jobs = TRUE], "release")
    /\ UNCHANGED <<import, batch, row, remote, latest, losses>>

----------------------------------------------------------------------------
(* broadcasting: the jobs and the platform are observed. *)

EndedMutant(r) == batch[r] = "completed"
Ended(r) == batch[r] \in {"completed", "failed"}
Concluded(r) == IF batch[r] = "completed" THEN "completed" ELSE "failed"
ConfirmedMutant(r) == remote[r].state = "complete" \/ Ended(r)
Confirmed(r) == remote[r].state = "complete"
\* observe: what YouTube says is recorded under the lease, then acted upon.
Observe(c) ==
    LET r == coord[c].run
        seen == row[r].seen \/ remote[r].started
    IN  /\ At(c, "broadcasting") /\ OnYouTube /\ Holds(c)
        /\ row' = [row EXCEPT ![r].seen = seen]
        /\ CASE Confirmed(r) ->
                  IF ~seen THEN Fails(c, "youtube") /\ UNCHANGED remote
                  ELSE To(c, IF Ended(r) THEN "conclude" ELSE "release") /\ UNCHANGED remote
             [] ~Confirmed(r) /\ remote[r].state = "revoked" -> Fails(c, "youtube") /\ UNCHANGED remote
             [] ~Confirmed(r) /\ remote[r].state = "live" /\ Ended(r) ->
                  To(c, "release") /\ remote' = [remote EXCEPT ![r].state = "complete"]
             [] ~Confirmed(r) /\ remote[r].state = "ready" /\ batch[r] = "running" ->
                  To(c, "release") /\ remote' = [remote EXCEPT ![r].state = "live", ![r].started = TRUE]
             [] OTHER -> To(c, "release") /\ UNCHANGED remote
        /\ UNCHANGED <<sched, run, import, batch, latest, losses>>

\* Three minutes without the start, or the end, that was to be confirmed.
Overdue(c) ==
    LET r == coord[c].run
    IN  /\ At(c, "broadcasting") /\ OnYouTube /\ Holds(c) /\ ~Confirmed(r)
        /\ Ended(r) \/ ~row[r].seen
        /\ Fails(c, "youtube")
        /\ UNCHANGED <<sched, run, import, batch, row, remote, latest, losses>>

\* Without YouTube, or once it confirmed the end, the jobs decide.
ObserveJobs(c) ==
    /\ At(c, "broadcasting") /\ (~OnYouTube \/ ~Holds(c))
    /\ To(c, IF Holds(c) /\ Ended(coord[c].run) THEN "conclude" ELSE "release")
    /\ UNCHANGED <<sched, run, import, batch, row, remote, latest, losses>>
Conclude(c) ==
    /\ At(c, "conclude")
    /\ Records(c, [RunOf(c) EXCEPT !.state = Concluded(coord[c].run)], "release")
    /\ UNCHANGED <<import, batch, row, remote, latest, losses>>

----------------------------------------------------------------------------
(* A step that raised an error: check the lease, cancel, record, pause. *)

Calling == {"checking", "selected", "importing", "ready", "bind", "batch", "broadcasting"}
\* A missing connection, a full quota, a refusal by the platform.
StepFails(c, code) ==
    /\ coord[c].pc \in Calling
    /\ Fails(c, code)
    /\ UNCHANGED <<sched, run, import, batch, row, remote, latest, losses>>

AfterLeaseCheckMutant == "record"
AfterLeaseCheck == "cancel"
CheckLease(c) ==
    /\ At(c, "failing")
    /\ To(c, IF Holds(c) THEN AfterLeaseCheck ELSE "release")
    /\ UNCHANGED <<sched, run, import, batch, row, remote, latest, losses>>
CancelJobs(c) ==
    /\ At(c, "cancel")
    /\ batch' = [batch EXCEPT ![coord[c].run] = IF RunOf(c).jobs /\ @ = "running" THEN "stopping" ELSE @]
    /\ To(c, "record")
    /\ UNCHANGED <<sched, run, import, row, remote, latest, losses>>
RecordFailure(c) ==
    /\ At(c, "record")
    /\ Records(c, [RunOf(c) EXCEPT !.state = "failed", !.code = coord[c].code],
               IF coord[c].code = "youtube" THEN "pause" ELSE "release")
    /\ UNCHANGED <<import, batch, row, remote, latest, losses>>
Pause(c) ==
    /\ At(c, "pause")
    /\ sched' = IF sched.owner = c THEN [sched EXCEPT !.enabled = FALSE] ELSE sched
    /\ To(c, "release")
    /\ UNCHANGED <<run, import, batch, row, remote, latest, losses>>

----------------------------------------------------------------------------
(* Faults, users and the world outside. *)

Lost == losses < MaxLosses /\ losses' = losses + 1
\* After 120 seconds, with its owner slow or dead.
LeaseExpires ==
    /\ sched.leased /\ Lost
    /\ sched' = [sched EXCEPT !.leased = FALSE]
    /\ UNCHANGED <<run, import, batch, row, remote, latest, coord>>
\* The lease of a coordinator that died expires later, at no further cost.
Dies(c) ==
    /\ ~At(c, "idle") /\ Lost
    /\ coord' = [coord EXCEPT ![c] = [pc |-> "idle", run |-> 0, code |-> "none"]]
    /\ sched' = IF sched.owner = c THEN [sched EXCEPT !.owner = Nobody, !.leased = FALSE] ELSE sched
    /\ UNCHANGED <<run, import, batch, row, remote, latest>>

FallsDue ==
    /\ sched.active = 0 /\ ~sched.due
    /\ sched' = [sched EXCEPT !.due = TRUE]
    /\ UNCHANGED <<run, import, batch, row, remote, latest, coord, losses>>
Change(enabled) ==
    /\ ~sched.deleted
    /\ sched' = [sched EXCEPT !.enabled = enabled, !.due = IF enabled /\ ~sched.enabled THEN FALSE ELSE @]
    /\ UNCHANGED <<run, import, batch, row, remote, latest, coord, losses>>
Remove ==
    /\ ~sched.deleted /\ sched.active = 0
    /\ sched' = [sched EXCEPT !.enabled = FALSE, !.deleted = TRUE]
    /\ UNCHANGED <<run, import, batch, row, remote, latest, coord, losses>>

Publish(v) ==
    /\ latest' = v
    /\ UNCHANGED <<sched, run, import, batch, row, remote, coord, losses>>
ImportEnds(r, state) ==
    /\ import[r] = "running"
    /\ import' = [import EXCEPT ![r] = state]
    /\ UNCHANGED <<sched, run, batch, row, remote, latest, coord, losses>>
BatchEnds(r, state) ==
    /\ batch[r] = "running" \/ (batch[r] = "stopping" /\ state = "failed")
    /\ batch' = [batch EXCEPT ![r] = state]
    /\ UNCHANGED <<sched, run, import, row, remote, latest, coord, losses>>
\* Auto-start and auto-stop of the platform, its right to revoke, and a user
\* of its studio who ends a broadcast.
RemoteMoves(r, state) ==
    /\ \/ remote[r].state = "ready" /\ batch[r] = "running" /\ state = "live"
       \/ remote[r].state \in {"ready", "live"} /\ state \in {"complete", "revoked"}
    /\ remote' = [remote EXCEPT ![r].state = state, ![r].started = @ \/ state = "live"]
    /\ UNCHANGED <<sched, run, import, batch, row, latest, coord, losses>>

Work(c) ==
    \/ Claim(c) \/ Step(c) \/ Release(c) \/ Check(c) \/ CreateImport(c) \/ RecordImport(c)
    \/ AwaitImport(c) \/ Prepare(c) \/ Guard(c) \/ InsertIntent(c)
    \/ \E made, answered \in BOOLEAN : CreateBroadcast(c, made, answered)
    \/ Bind(c) \/ CreateBatch(c) \/ RecordBatch(c) \/ Observe(c) \/ ObserveJobs(c) \/ Conclude(c)
    \/ CheckLease(c) \/ CancelJobs(c) \/ RecordFailure(c) \/ Pause(c)
Next ==
    \/ \E c \in Coordinators : \/ Work(c) \/ Overdue(c) \/ Dies(c)
                               \/ \E code \in {"youtube", "other"} : StepFails(c, code)
    \/ LeaseExpires \/ FallsDue \/ Remove \/ \E enabled \in BOOLEAN : Change(enabled)
    \/ \E v \in Videos : Publish(v)
    \/ \E r \in Runs : \/ \E s \in {"ready", "failed"} : ImportEnds(r, s)
                       \/ \E s \in {"completed", "failed"} : BatchEnds(r, s)
                       \/ \E s \in {"live", "complete", "revoked"} : RemoteMoves(r, s)

Spec == Init /\ [][Next]_vars
\* The queue calls tick again and again; jobs end (JobRepository!EveryJobEnds)
\* and three minutes pass.  Nothing is assumed of users or of YouTube.
FairSpec ==
    /\ Spec
    /\ \A c \in Coordinators : WF_vars(Work(c)) /\ SF_vars(Overdue(c))
    /\ \A r \in Runs : /\ WF_vars(\E s \in {"ready", "failed"} : ImportEnds(r, s))
                       /\ WF_vars(\E s \in {"completed", "failed"} : BatchEnds(r, s))

----------------------------------------------------------------------------
(* Properties. *)

TypeOK ==
    /\ sched.active \in Runs \cup {0}
    /\ sched.deleted => sched.active = 0 /\ ~sched.enabled
    /\ \A r \in Runs : /\ run[r].state \notin Terminal \cup {"none"} <=> sched.active = r
                       /\ remote[r].made \in Nat
    /\ \A c \in Coordinators : coord[c].run \in Runs \cup {0}

\* YouTube is asked for one broadcast per run at most, whichever coordinators
\* overlap, die or lose their answer (youtube_live.py: "it must never silently
\* create another broadcast").
OneBroadcastPerRun == \A r \in Runs : remote[r].made <= 1

\* A run is reported completed only if its jobs completed and YouTube was seen
\* live and has ended the broadcast.
CompletedWasLive ==
    \A r \in Runs : run[r].state = "completed" =>
        batch[r] = "completed" /\ (OnYouTube => row[r].seen /\ remote[r].state = "complete")

\* A run that has ended leaves none of its recorded jobs on air.
EndedRunIsOffAir == \A r \in Runs : run[r].state \in Terminal /\ run[r].jobs => batch[r] # "running"

\* The same when no coordinator is lost between a batch and its record.
RecordedVideoOnce ==
    \A r, s \in Runs : run[r].jobs /\ run[s].jobs /\ run[r].video = run[s].video
        => r = s \/ run[r].video = NoVideo

\* However coordinators overlap and die, a run has one broadcast, is called
\* completed only if it was live, leaves nothing on air when it ends, and takes
\* a recording that no other run has on record.
BroadcastOnce ==
    /\ TypeOK
    /\ OneBroadcastPerRun /\ CompletedWasLive /\ EndedRunIsOffAir /\ RecordedVideoOnce

\* No run stays active for ever.
RunsEnd == \A r \in Runs : sched.active = r ~> sched.active # r
================================================================================
