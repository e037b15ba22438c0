--------------------------- MODULE LocalScheduler ---------------------------
(***************************************************************************)
(* The single-host scheduler of server/service.py: the scheduler thread's   *)
(* tick, one worker thread per claimed job that runs FFmpeg (_execute of    *)
(* server/media_runtime.py), and the API's stop.  In the public test mode   *)
(* every session has a Service of its own and all share one capacity slot.  *)
(*                                                                         *)
(* A Service's threads share memory under its guard, an RLock: a guarded    *)
(* block is one action, and what a worker does outside the guard is split   *)
(* where another thread can come between.  Every database transaction may   *)
(* fail (a locked SQLite file), which rolls it back; memory stays changed.  *)
(* A tick flushes and then claims in two transactions of which the second   *)
(* may fail, so the two are separate actions.                               *)
(*                                                                         *)
(* Abstractions: next_run is the flag "due"; the pick among due jobs, a     *)
(* job's deadline and FFmpeg's outcome are choices; positions are left out. *)
(***************************************************************************)
EXTENDS Integers, FiniteSets

CONSTANTS
    Jobs,
    Services,
    Owner,          \* Owner[j]: the service whose database holds j
    MaxAttempts,    \* the max_attempts column
    SharedCapacity  \* public mode: the services share a BoundedSemaphore(1)

ASSUME OwnerAssumption == Owner \in [Jobs -> Services]
ASSUME AttemptsAssumption == MaxAttempts \in Nat \ {0}
ASSUME ModeAssumption == SharedCapacity \in BOOLEAN

VARIABLES
    db,             \* the state column of each job
    due,            \* next_run has passed
    attempt,        \* the attempt column
    pc,             \* where the job's worker thread is
    result,         \* what run_stream returned to it
    alive,          \* jobs whose FFmpeg process runs
    processes,      \* jobs whose process on_start registered
    pending,        \* transitions that still have to reach the database
    progressed,     \* progress_pending
    stopRequests,
    free,           \* the semaphore's value
    closing,
    asked           \* history: jobs that a user of this process asked to stop

memory == <<pc, result, alive, processes, pending, progressed, stopRequests, free, closing, asked>>
vars == <<db, due, attempt, memory>>

Queued == {"scheduled", "retry_wait"}
Active == {"starting", "streaming", "stopping"}
Terminal == {"completed", "stopped", "failed"}
DbStates == {"absent"} \cup Queued \cup Active \cup Terminal
Points == {"none", "ready", "launching", "cleared", "spawned", "running", "ended", "reported"}
Results == {"none", "complete", "retryable", "final", "stopped"}

JobsOf(s) == {j \in Jobs : Owner[j] = s}

Init ==
    /\ db = [j \in Jobs |-> "absent"]
    /\ due = [j \in Jobs |-> FALSE]
    /\ attempt = [j \in Jobs |-> 0]
    /\ pc = [j \in Jobs |-> "none"]
    /\ result = [j \in Jobs |-> "none"]
    /\ alive = {}
    /\ processes = {}
    /\ pending = [j \in Jobs |-> "none"]
    /\ progressed = {}
    /\ stopRequests = {}
    /\ free = 1
    /\ closing = FALSE
    /\ asked = {}

----------------------------------------------------------------------------
(* _flush_pending: one transaction for everything a service has pending.     *)

\* A stop that came before the flush wins over the worker's own outcome.
FinalStateMutant(j) == IF j \in stopRequests THEN "stopped" ELSE pending[j]
FinalState(j) ==
    IF db[j] \in {"stopping", "stopped"} \/ j \in stopRequests THEN "stopped" ELSE pending[j]

Unflushed(s) == {j \in JobsOf(s) : pending[j] # "none"}
FlushNeeded(s) == Unflushed(s) # {} \/ progressed \cap JobsOf(s) # {}

\* The transaction commits, with the progress of jobs "news" noted just before;
\* the cancellations that reached the database, and of "done", are forgotten.
FlushCommits(s, news, done) ==
    /\ db' = [j \in Jobs |->
                 IF j \in Unflushed(s) THEN FinalState(j)
                 ELSE IF j \in (progressed \cap JobsOf(s)) \cup news
                         /\ db[j] \in {"starting", "streaming"}
                 THEN "streaming" ELSE db[j]]
    /\ due' = [j \in Jobs |-> due[j] /\ j \notin Unflushed(s)]
    /\ pending' = [j \in Jobs |-> IF j \in JobsOf(s) THEN "none" ELSE pending[j]]
    /\ progressed' = progressed \ JobsOf(s)
    /\ stopRequests' = stopRequests \ (Unflushed(s) \cup done)

\* The first part of tick, and the last of close.
Flush(s) ==
    /\ FlushNeeded(s)
    /\ FlushCommits(s, {}, {})
    /\ UNCHANGED <<attempt, pc, result, alive, processes, free, closing, asked>>

----------------------------------------------------------------------------
(* tick: one due job, when nothing runs.                                     *)

IdleMutant(s) == ~closing /\ ~FlushNeeded(s) /\ processes \cap JobsOf(s) = {}
Idle(s) ==
    /\ ~closing
    /\ ~FlushNeeded(s)
    /\ processes \cap JobsOf(s) = {}
    /\ \A j \in JobsOf(s) : db[j] \notin Active
Picked(s, j) == Idle(s) /\ j \in JobsOf(s) /\ db[j] \in Queued /\ due[j]

\* A job whose cancellation did not reach the database; if this commit fails
\* too, the transition stays pending.
DropCancelled(s, j, commits) ==
    /\ Picked(s, j) /\ j \in stopRequests
    /\ db' = IF commits THEN [db EXCEPT ![j] = "stopped"] ELSE db
    /\ pending' = [pending EXCEPT ![j] = "stopped"]
    /\ UNCHANGED <<due, attempt, pc, result, alive, processes, progressed, stopRequests,
                   free, closing, asked>>

\* A job whose deadline leaves no time to play it.
DropLate(s, j) ==
    /\ Picked(s, j) /\ j \notin stopRequests
    /\ db' = [db EXCEPT ![j] = "failed"]
    /\ UNCHANGED <<due, attempt, memory>>

ClaimableMutant(s, j) == Picked(s, j) /\ j \notin stopRequests
Claimable(s, j) ==
    Picked(s, j) /\ j \notin stopRequests /\ (SharedCapacity => free > 0)

\* The claim commits and the worker thread starts: it now owns the capacity.
Claim(s, j) ==
    /\ Claimable(s, j)
    /\ db' = [db EXCEPT ![j] = "starting"]
    /\ attempt' = [attempt EXCEPT ![j] = @ + 1]
    /\ pc' = [pc EXCEPT ![j] = "ready"]
    /\ free' = IF SharedCapacity THEN free - 1 ELSE free
    /\ UNCHANGED <<due, result, alive, processes, pending, progressed, stopRequests,
                   closing, asked>>

\* The claim fails at its commit, or commits and the thread does not start:
\* the capacity is released and the job's failure is left pending.
ClaimFailsMutant(s, j, commits) ==
    /\ Claimable(s, j)
    /\ IF commits
       THEN db' = [db EXCEPT ![j] = "starting"] /\ attempt' = [attempt EXCEPT ![j] = @ + 1]
       ELSE UNCHANGED <<db, attempt>>
    /\ UNCHANGED <<due, pc, result, alive, processes, pending, progressed, stopRequests, free,
                   closing, asked>>
ClaimFails(s, j, commits) ==
    /\ Claimable(s, j)
    /\ IF commits
       THEN db' = [db EXCEPT ![j] = "starting"] /\ attempt' = [attempt EXCEPT ![j] = @ + 1]
       ELSE UNCHANGED <<db, attempt>>
    /\ pending' = [pending EXCEPT ![j] = "failed"]
    /\ UNCHANGED <<due, pc, result, alive, processes, progressed, stopRequests, free,
                   closing, asked>>

----------------------------------------------------------------------------
(* run and _execute: the worker thread.                                      *)

ShouldStop(j) == closing \/ j \in stopRequests

\* The row is read under the guard; the thread gives up when the job was
\* stopped before, and reports a failure when the read fails.
ReadRow(j) ==
    /\ pc[j] = "ready"
    /\ \/ /\ db[j] \in Terminal \cup {"stopping"} \/ closing
          /\ pc' = [pc EXCEPT ![j] = "reported"]
          /\ UNCHANGED pending
       \/ /\ ~(db[j] \in Terminal \cup {"stopping"} \/ closing)
          /\ pc' = [pc EXCEPT ![j] = "launching"]
          /\ UNCHANGED pending
       \/ /\ pc' = [pc EXCEPT ![j] = "reported"]
          /\ pending' = [pending EXCEPT ![j] = "failed"]
    /\ UNCHANGED <<db, due, attempt, result, alive, processes, progressed, stopRequests,
                   free, closing, asked>>

\* run_stream: a passed deadline, or a position already at the end, ends the
\* attempt; then should_stop is asked once.
Check(j) ==
    /\ pc[j] = "launching"
    /\ \/ /\ pc' = [pc EXCEPT ![j] = "ended"]
          /\ \E r \in {"final", "retryable"} : result' = [result EXCEPT ![j] = r]
       \/ /\ ShouldStop(j)
          /\ pc' = [pc EXCEPT ![j] = "ended"]
          /\ result' = [result EXCEPT ![j] = "stopped"]
       \/ /\ ~ShouldStop(j)
          /\ pc' = [pc EXCEPT ![j] = "cleared"]
          /\ UNCHANGED result
    /\ UNCHANGED <<db, due, attempt, alive, processes, pending, progressed, stopRequests,
                   free, closing, asked>>

\* Popen, which may fail.
Spawn(j) ==
    /\ pc[j] = "cleared"
    /\ \/ /\ alive' = alive \cup {j}
          /\ pc' = [pc EXCEPT ![j] = "spawned"]
          /\ UNCHANGED result
       \/ /\ pc' = [pc EXCEPT ![j] = "ended"]
          /\ result' = [result EXCEPT ![j] = "retryable"]
          /\ UNCHANGED alive
    /\ UNCHANGED <<db, due, attempt, processes, pending, progressed, stopRequests, free,
                   closing, asked>>

\* on_start, under the guard.
Register(j) ==
    /\ pc[j] = "spawned"
    /\ processes' = processes \cup {j}
    /\ pc' = [pc EXCEPT ![j] = "running"]
    /\ UNCHANGED <<db, due, attempt, result, alive, pending, progressed, stopRequests, free,
                   closing, asked>>

\* on_progress, under the guard: notes the position and flushes.
Progress(j) ==
    /\ pc[j] = "running"
    /\ \/ FlushCommits(Owner[j], {j}, {})
       \/ /\ progressed' = progressed \cup {j}
          /\ UNCHANGED <<db, due, pending, stopRequests>>
    /\ UNCHANGED <<attempt, pc, result, alive, processes, free, closing, asked>>

\* FFmpeg ends by itself, by the watchdog, or because should_stop was seen.
Exit(j) ==
    /\ pc[j] = "running"
    /\ \E r \in {"complete", "retryable", "final"} \cup (IF ShouldStop(j) THEN {"stopped"} ELSE {}) :
          result' = [result EXCEPT ![j] = r]
    /\ alive' = alive \ {j}
    /\ pc' = [pc EXCEPT ![j] = "ended"]
    /\ UNCHANGED <<db, due, attempt, processes, pending, progressed, stopRequests, free,
                   closing, asked>>

MayRetry(j) == result[j] = "retryable" /\ attempt[j] < MaxAttempts
\* The worker settles its job's next state; a deadline may forbid the retry.
Report(j) ==
    /\ pc[j] = "ended"
    /\ \E next \in
          IF result[j] = "stopped" \/ ShouldStop(j) THEN {"stopped"}
          ELSE IF result[j] = "complete" THEN {"completed"}
          ELSE IF MayRetry(j) THEN {"retry_wait", "failed"} ELSE {"failed"} :
             pending' = [pending EXCEPT ![j] = next]
    /\ result' = [result EXCEPT ![j] = "none"]
    /\ pc' = [pc EXCEPT ![j] = "reported"]
    /\ UNCHANGED <<db, due, attempt, alive, processes, progressed, stopRequests, free,
                   closing, asked>>

\* The finally block of run: unregister, flush, forget a cancellation that has
\* nothing pending, release the capacity.
SlotsAfterMutant(committed) == IF SharedCapacity /\ committed THEN free + 1 ELSE free
SlotsAfter(committed) == IF SharedCapacity THEN free + 1 ELSE free
Leave(j) ==
    /\ pc[j] = "reported"
    /\ processes' = processes \ {j}
    /\ pc' = [pc EXCEPT ![j] = "none"]
    /\ \/ FlushCommits(Owner[j], {}, {j}) /\ free' = SlotsAfter(TRUE)
       \/ /\ FlushNeeded(Owner[j])
          /\ stopRequests' = IF pending[j] = "none" THEN stopRequests \ {j} ELSE stopRequests
          /\ free' = SlotsAfter(FALSE)
          /\ UNCHANGED <<db, due, pending, progressed>>
    /\ UNCHANGED <<attempt, result, alive, closing, asked>>

----------------------------------------------------------------------------
(* The API, time and the life of the process.                                *)

CreateJob(j) ==
    /\ db[j] = "absent"
    /\ db' = [db EXCEPT ![j] = "scheduled"]
    /\ UNCHANGED <<due, attempt, memory>>

StopStateMutant(j) == IF db[j] \in Active THEN "stopping" ELSE "stopped"
StopState(j) == IF j \in processes \cap alive THEN "stopping" ELSE "stopped"
Forgets(j) ==
    db[j] \in Terminal \/ (StopState(j) = "stopped" /\ db[j] \in Queued)

\* stop: the request is noted in memory first.  The transaction commits, fails
\* before the request may be forgotten again, or fails at its commit.
Stop(j) ==
    /\ db[j] # "absent"
    /\ asked' = asked \cup {j}
    /\ \/ /\ db' = IF db[j] \in Terminal THEN db ELSE [db EXCEPT ![j] = StopState(j)]
          /\ stopRequests' = IF Forgets(j) THEN stopRequests \ {j} ELSE stopRequests \cup {j}
       \/ /\ stopRequests' = stopRequests \cup {j}
          /\ UNCHANGED db
       \/ /\ db[j] \notin Terminal
          /\ stopRequests' = IF Forgets(j) THEN stopRequests \ {j} ELSE stopRequests \cup {j}
          /\ UNCHANGED db
    /\ UNCHANGED <<due, attempt, pc, result, alive, processes, pending, progressed, free, closing>>

\* next_run passes.  The retry delay outlasts the last lines of the thread
\* that asked for the retry.
BecomeDue(j) ==
    /\ db[j] \in Queued /\ ~due[j] /\ pc[j] = "none"
    /\ due' = [due EXCEPT ![j] = TRUE]
    /\ UNCHANGED <<db, attempt, memory>>

Close ==
    /\ ~closing
    /\ closing' = TRUE
    /\ UNCHANGED <<db, due, attempt, pc, result, alive, processes, pending, progressed,
                   stopRequests, free, asked>>

\* The process is gone and another one opens the databases; the kernel kills
\* FFmpeg with its parent (PR_SET_PDEATHSIG), and __init__ fails active jobs.
Restart ==
    /\ db' = [j \in Jobs |-> IF db[j] \in Active THEN "failed" ELSE db[j]]
    /\ pc' = [j \in Jobs |-> "none"]
    /\ result' = [j \in Jobs |-> "none"]
    /\ pending' = [j \in Jobs |-> "none"]
    /\ alive' = {} /\ processes' = {} /\ progressed' = {} /\ stopRequests' = {} /\ asked' = {}
    /\ free' = 1
    /\ closing' = FALSE
    /\ UNCHANGED <<due, attempt>>

Worker(j) ==
    ReadRow(j) \/ Check(j) \/ Spawn(j) \/ Register(j) \/ Exit(j) \/ Report(j) \/ Leave(j)

Next ==
    \/ \E s \in Services : Flush(s)
    \/ \E s \in Services, j \in Jobs :
          \/ \E commits \in BOOLEAN : DropCancelled(s, j, commits) \/ ClaimFails(s, j, commits)
          \/ DropLate(s, j)
          \/ Claim(s, j)
    \/ \E j \in Jobs : Worker(j) \/ Progress(j) \/ CreateJob(j) \/ Stop(j) \/ BecomeDue(j)
    \/ Close
    \/ Restart

Spec == Init /\ [][Next]_vars

\* Threads are scheduled, FFmpeg ends or is killed by its watchdog, and the
\* scheduler's poll flushes again after a failure.
Fairness ==
    /\ \A j \in Jobs : WF_vars(Worker(j))
    /\ \A s \in Services : WF_vars(Flush(s))
FairSpec == Spec /\ Fairness

----------------------------------------------------------------------------
(* Properties. *)

TypeOK ==
    /\ db \in [Jobs -> DbStates]
    /\ due \in [Jobs -> BOOLEAN]
    /\ attempt \in [Jobs -> 0..MaxAttempts]
    /\ pc \in [Jobs -> Points]
    /\ result \in [Jobs -> Results]
    /\ alive \subseteq Jobs /\ processes \subseteq Jobs /\ progressed \subseteq Jobs
    /\ pending \in [Jobs -> {"none", "retry_wait"} \cup Terminal]
    /\ stopRequests \subseteq Jobs /\ asked \subseteq Jobs
    /\ free \in 0..1
    /\ closing \in BOOLEAN

\* A job that is active in the database blocks the queue; one always has a
\* worker, or an outcome that the next flush writes: no claim is orphaned by a
\* failed commit, a failed thread start or an early stop.
ClaimsHaveWorkers ==
    \A j \in Jobs : db[j] \in Active /\ ~closing => pc[j] # "none" \/ pending[j] # "none"

\* A stop that reached the database is the last word: the worker's completion
\* or retry, pending or still to come, never overrules it.
StopIsFinal ==
    [][\A j \in Jobs : /\ db[j] = "stopped" => db'[j] = "stopped"
                       /\ db[j] = "stopping" => db'[j] \in {"stopping", "stopped", "failed"}]_vars

\* At most one FFmpeg belongs to a job that nobody stopped.
OneWantedStream ==
    \A i, j \in alive : db[i] # "stopped" /\ db[j] # "stopped" => i = j

\* Across all services of the public mode at most one FFmpeg runs.
OneStream == Cardinality(alive) <= 1

\* The shared slot is taken exactly while a worker thread that claimed with it
\* lives: no failure leaks it or releases it twice.
SlotConserved ==
    free = IF \E j \in Jobs : pc[j] # "none" THEN 0 ELSE 1

\* Every claimed job leaves the active states, unless the server shuts down.
ClaimsEnd == \A j \in Jobs : db[j] \in Active ~> (db[j] \notin Active \/ closing)

\* "Retain cancellation in memory even if a transient DB lock occurs": a job
\* that a user asked to stop is not left waiting to run with the request lost.
CancellationRetained ==
    \A j \in asked : db[j] \in Queued => j \in stopRequests \/ pending[j] # "none"

\* "cancel between claim and process start never launches encoder".
StoppedNeverLaunches ==
    [][\A j \in Jobs : db[j] = "stopped" => j \in alive \/ j \notin alive']_vars
=============================================================================
