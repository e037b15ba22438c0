-------------------------- MODULE SandboxDispatcher --------------------------
(***************************************************************************)
(* One tick of the Vercel dispatcher (web/api/dispatch.ts): stop the       *)
(* sandboxes of ended attempts, run maintenance, claim up to MaxClaims     *)
(* attempts and set a sandbox up for each.  With the minutely cron ticks   *)
(* overlap; each runs within its own deadline.                             *)
(*                                                                         *)
(* Every call may fail with or without its effect.  A failed cleanup skips *)
(* that runtime only; a lost claim ends the tick's claims; a failed setup  *)
(* stops the sandbox if there is one and is never tried again.  An attempt *)
(* stands for one (job id, lease version).                                 *)
(***************************************************************************)
EXTENDS Naturals, FiniteSets

CONSTANTS Ticks, Attempts, MaxClaims,
          Stuck,        \* sandboxes whose stop never succeeds
          MaxFailures   \* bound on the other failed or lost calls

VARIABLES phase,     \* tick -> idle, cleanup, claim, create, launch
          todo,      \* tick -> runtimes it listed and has not tried yet
          held,      \* tick -> the attempt being set up, {} for none
          claims,    \* tick -> claims made
          lost,      \* tick -> attempts claimed by it whose answer was lost
          state,     \* attempt -> absent, queued, active, overdue (active past
                     \* its deadline), over (the database)
          cleaned,   \* runtimes marked cleaned (the database)
          vm,        \* attempt -> none, running, gone
          worker,    \* attempts whose worker command was started
          failures

vars == <<phase, todo, held, claims, lost, state, cleaned, vm, worker, failures>>
world == <<state, cleaned, vm, worker, failures>>

TypeOK ==
    /\ phase \in [Ticks -> {"idle", "cleanup", "claim", "create", "launch"}]
    /\ todo \in [Ticks -> SUBSET Attempts] /\ lost \in [Ticks -> SUBSET Attempts]
    /\ held \in [Ticks -> SUBSET Attempts] /\ claims \in [Ticks -> 0..MaxClaims]
    /\ \A t \in Ticks : held[t] # {} <=> phase[t] \in {"create", "launch"}
    /\ state \in [Attempts -> {"absent", "queued", "active", "overdue", "over"}]
    /\ vm \in [Attempts -> {"none", "running", "gone"}]
    /\ cleaned \subseteq Attempts /\ worker \subseteq Attempts
    /\ failures \in 0..MaxFailures

Init ==
    /\ phase = [t \in Ticks |-> "idle"] /\ todo = [t \in Ticks |-> {}]
    /\ held = [t \in Ticks |-> {}] /\ claims = [t \in Ticks |-> 0]
    /\ lost = [t \in Ticks |-> {}]
    /\ state = [a \in Attempts |-> "absent"] /\ cleaned = {}
    /\ vm = [a \in Attempts |-> "none"] /\ worker = {} /\ failures = 0

\* The job, with its secrets, is let go of whatever became of the setup.
Scrub(t) == held' = [held EXCEPT ![t] = {}]

Fail == failures < MaxFailures /\ failures' = failures + 1
Go(t, p) == phase' = [phase EXCEPT ![t] = p]

-----------------------------------------------------------------------------
(* The database and the workers *)

Enqueue(a) ==
    /\ state[a] = "absent" /\ state' = [state EXCEPT ![a] = "queued"]
    /\ UNCHANGED <<phase, todo, held, claims, lost, cleaned, vm, worker, failures>>

NeverInSetup(a) == FALSE

\* A setup is given up 15 s before the lease it claimed, or the attempt's
\* deadline, can pass.
InSetup(a) == \E t \in Ticks : a \in held[t]

\* The deadline passes before the worker has ended the attempt and before
\* recovery has seen it.
Overdue(a) ==
    /\ state[a] = "active" /\ ~InSetup(a)
    /\ state' = [state EXCEPT ![a] = "overdue"]
    /\ UNCHANGED <<phase, todo, held, claims, lost, cleaned, vm, worker, failures>>

\* The worker ends its job, or its lease lapses and recovery ends it.
End(a) ==
    /\ state[a] \in {"active", "overdue"} /\ ~InSetup(a)
    /\ state' = [state EXCEPT ![a] = "over"]
    /\ UNCHANGED <<phase, todo, held, claims, lost, cleaned, vm, worker, failures>>

\* The worker's process exits; the sandbox stays up until it is stopped or
\* reaches its timeout.
Timeout(a) ==
    /\ vm[a] = "running" /\ state[a] \in {"overdue", "over"}
    /\ vm' = [vm EXCEPT ![a] = "gone"]
    /\ UNCHANGED <<phase, todo, held, claims, lost, state, cleaned, worker, failures>>

-----------------------------------------------------------------------------
(* The tick *)

\* Uncleaned runtimes that have ended, or are active past their deadline.
Listed == {a \in Attempts : state[a] \in {"overdue", "over"} /\ a \notin cleaned}

\* A list that cannot be read skips the whole cleanup.
Start(t) ==
    /\ phase[t] = "idle" /\ Go(t, "cleanup")
    /\ \/ /\ todo' = [todo EXCEPT ![t] = Listed]
          /\ UNCHANGED failures
       \/ Fail /\ todo' = [todo EXCEPT ![t] = {}]
    /\ claims' = [claims EXCEPT ![t] = 0] /\ lost' = [lost EXCEPT ![t] = {}]
    /\ UNCHANGED <<held, state, cleaned, vm, worker>>

\* "An active runtime cannot be marked cleaned": one that is overdue is stopped
\* and left to the tick that finds it recovered.
Marked(a) == IF state[a] = "over" THEN cleaned \cup {a} ELSE cleaned

\* get, stop, mark; a sandbox that is not found is only marked.  Each failure
\* leaves the runtime to a later tick and goes on with the next one.
Reconcile(t, a) ==
    /\ phase[t] = "cleanup" /\ a \in todo[t]
    /\ todo' = [todo EXCEPT ![t] = @ \ {a}]
    /\ IF vm[a] = "running" /\ a \in Stuck
       THEN UNCHANGED <<vm, cleaned, failures>>
       ELSE \/ vm' = [vm EXCEPT ![a] = IF @ = "running" THEN "gone" ELSE @]
               /\ cleaned' = Marked(a) /\ UNCHANGED failures
            \/ /\ Fail /\ UNCHANGED cleaned
               /\ \/ vm' = [vm EXCEPT ![a] = IF @ = "running" THEN "gone" ELSE @]
                  \/ UNCHANGED vm
    /\ UNCHANGED <<phase, held, claims, lost, state, worker>>

\* Maintenance may fail too: the tick goes on to its claims.
Maintenance(t) ==
    /\ phase[t] = "cleanup" /\ todo[t] = {} /\ Go(t, "claim")
    /\ UNCHANGED <<todo, held, claims, lost, world>>

Room(t) == claims[t] < MaxClaims

Claimable == {a \in Attempts : state[a] = "queued"}

Claim(t, a) ==
    /\ phase[t] = "claim" /\ Room(t) /\ a \in Claimable
    /\ state' = [state EXCEPT ![a] = "active"]
    /\ claims' = [claims EXCEPT ![t] = @ + 1]
    /\ held' = [held EXCEPT ![t] = {a}] /\ Go(t, "create")
    /\ UNCHANGED <<todo, lost, cleaned, vm, worker, failures>>

AfterLostClaimRetried == "claim"

\* "A lost claim acknowledgement must never be replayed by this tick."
AfterLostClaim == "idle"

ClaimLost(t, a) ==
    /\ phase[t] = "claim" /\ Room(t) /\ a \in Claimable /\ Fail
    /\ state' = [state EXCEPT ![a] = "active"]
    /\ claims' = [claims EXCEPT ![t] = @ + 1]
    /\ lost' = [lost EXCEPT ![t] = @ \cup {a}] /\ Go(t, AfterLostClaim)
    /\ UNCHANGED <<todo, held, cleaned, vm, worker>>

\* Nothing to claim or no room: the tick ends (its 200 or 503 is the queue's).
Finish(t) ==
    /\ phase[t] = "claim" /\ (Claimable = {} \/ ~Room(t))
    /\ Go(t, "idle")
    /\ UNCHANGED <<todo, held, claims, lost, world>>

\* The claim request never reached the API, or too little time is left for one.
FinishEarly(t) ==
    /\ phase[t] = "claim" /\ Fail /\ Go(t, "idle")
    /\ UNCHANGED <<todo, held, claims, lost, state, cleaned, vm, worker>>

Create(t, a) ==
    /\ phase[t] = "create" /\ a \in held[t]
    /\ vm' = [vm EXCEPT ![a] = "running"] /\ Go(t, "launch")
    /\ UNCHANGED <<todo, held, claims, lost, state, cleaned, worker, failures>>

\* The creation fails, or only its answer is lost and no sandbox is in hand.
CreateFails(t, a) ==
    /\ phase[t] = "create" /\ a \in held[t] /\ Fail
    /\ vm' \in {vm, [vm EXCEPT ![a] = "running"]}
    /\ Scrub(t) /\ Go(t, "claim")
    /\ UNCHANGED <<todo, claims, lost, state, cleaned, worker>>

\* Verify, pin, write the job and start the worker.
Launch(t, a) ==
    /\ phase[t] = "launch" /\ a \in held[t]
    /\ worker' = worker \cup {a}
    /\ Scrub(t) /\ Go(t, "claim")
    /\ UNCHANGED <<todo, claims, lost, state, cleaned, vm, failures>>

\* Any of them fails (the worker may have started): stop the sandbox, if it
\* can be stopped, and go on to the next claim.
LaunchFails(t, a) ==
    /\ phase[t] = "launch" /\ a \in held[t] /\ Fail
    /\ worker' \in {worker, worker \cup {a}}
    /\ vm' \in {vm} \cup (IF a \in Stuck THEN {} ELSE {[vm EXCEPT ![a] = "gone"]})
    /\ Scrub(t) /\ Go(t, "claim")
    /\ UNCHANGED <<todo, claims, lost, state, cleaned>>

\* The function is killed or hits its limit.
Killed(t) ==
    /\ phase[t] # "idle" /\ Fail /\ Go(t, "idle")
    /\ Scrub(t)
    /\ UNCHANGED <<todo, claims, lost, state, cleaned, vm, worker>>

-----------------------------------------------------------------------------
Work(t) == \/ \E a \in Attempts : \/ Reconcile(t, a) \/ Claim(t, a)
                                  \/ ClaimLost(t, a) \/ Create(t, a)
                                  \/ CreateFails(t, a) \/ Launch(t, a)
                                  \/ LaunchFails(t, a)
           \/ Maintenance(t) \/ Finish(t) \/ FinishEarly(t)

Next == \/ \E t \in Ticks : Start(t) \/ Work(t) \/ Killed(t)
        \/ \E a \in Attempts : Enqueue(a) \/ Overdue(a) \/ End(a) \/ Timeout(a)

Spec == Init /\ [][Next]_vars

-----------------------------------------------------------------------------
(* Properties *)

\* A runtime is marked cleaned only when its sandbox is down for good: no
\* overlapping tick brings it up afterwards, because a setup ends before its
\* lease can lapse ("Uncertain stop/ack remains durable; never resume or
\* replace it", dispatch.ts).
CleanedStaysDown == \A a \in cleaned : vm[a] # "running"

\* A tick leaves at most one attempt claimed without a setup: it does not go
\* on claiming when the answer of a claim was lost.
OneLostClaimPerTick == \A t \in Ticks : Cardinality(lost[t]) <= 1

\* An attempt has one worker, started while its lease was its own: no worker
\* starts on an attempt that recovery has ended.
WorkerStartsOnItsLease ==
    [][\A a \in Attempts : a \in worker' \ worker => state[a] = "active"]_vars
=============================================================================
