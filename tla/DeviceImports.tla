----------------------------- MODULE DeviceImports -----------------------------
(***************************************************************************)
(* Imports made on the user's computer (server/device_imports.py) by its   *)
(* helper (server/device_import_worker.py): one owner, his tasks, the      *)
(* media row and the object of each, and the requests in flight.  A        *)
(* handler runs one transaction, or one call of the object store, at a     *)
(* time; the helper gives up on a request that the server still runs.      *)
(***************************************************************************)
EXTENDS Integers

CONSTANTS
    Handlers,       \* bound: requests the server runs at the same time
    MaxTasks        \* bound: tasks the user creates

Tasks == 1..MaxTasks
Tries == 3          \* completions the helper sends
None == "none"

Parameters == None \notin Handlers /\ MaxTasks \in Nat \ {0}

VARIABLES
    task,       \* replay_device_imports.state, "none" before it is created
    late,       \* expires_at has passed
    media,      \* the status of the media row of a task
    stored,     \* the object of a task is in the store
    req,        \* the requests in flight: task and pc of each handler
    helper,     \* pc, awaited request and completions sent, for each task
    allowed     \* the session and the role the ticket was made from still stand

vars == <<task, late, media, stored, req, helper, allowed>>

Active == {"queued", "downloading", "uploading", "completing"}
Ended == {"completed", "cancelled", "failed", "expired"}
Free == [task |-> 1, pc |-> "free"]

Init ==
    /\ task = [t \in Tasks |-> "none"] /\ late = [t \in Tasks |-> FALSE]
    /\ media = [t \in Tasks |-> "none"] /\ stored = [t \in Tasks |-> FALSE]
    /\ req = [h \in Handlers |-> Free]
    /\ helper = [t \in Tasks |-> [pc |-> "none", on |-> None, sent |-> 0]]
    /\ allowed = TRUE

At(h, pc) == req[h].pc = pc
To(h, pc) == req' = [req EXCEPT ![h].pc = pc]
StillWaitingMutant(t, pc) == helper' = [helper EXCEPT ![t].pc = pc]
Pc(t, pc) == helper' = [helper EXCEPT ![t] = [@ EXCEPT !.pc = pc, !.on = None]]
\* The end of a request; the helper learns of it if it still waits.
Answer(h, pc) ==
    /\ req' = [req EXCEPT ![h] = Free]
    /\ LET t == req[h].task
       IN  IF helper[t].on = h THEN Pc(t, pc) ELSE UNCHANGED helper
\* The capability lets a request in: the ticket's session stands, it has not
\* expired, and the task has not ended.
Capable(t) == allowed /\ ~late[t] /\ task[t] \notin {"cancelled", "failed", "expired"}

----------------------------------------------------------------------------
(* The owner, in the browser. *)

\* clean_media: a media row an admitted validation uses is left alone.
Unfinished(t) == media[t] \in {"uploading", "ready", "failed"}
Clean(h) ==
    LET t == req[h].task
    IN  /\ At(h, "clean")
        /\ media' = IF Unfinished(t) THEN [media EXCEPT ![t] = "deleting"] ELSE media
        /\ Answer(h, "stop")
        /\ UNCHANGED <<task, late, stored, allowed>>

OverdueMutant == {t \in Tasks : task[t] \in Active \ {"completing"} /\ late[t]}
Overdue == {t \in Tasks : task[t] \in Active /\ late[t]}
Swept(status) == [t \in Tasks |-> IF t \in Overdue /\ task[t] # "completing" /\ Unfinished(t)
                                  THEN "deleting" ELSE status[t]]
Expired == [t \in Tasks |-> IF t \in Overdue THEN "expired" ELSE task[t]]
\* create expires the owner's late tasks and admits one task at a time.
Create(t) ==
    /\ allowed /\ task[t] = "none" /\ \A s \in Tasks : s < t => task[s] # "none"
    /\ \A s \in Tasks : task[s] \in Active => late[s]
    /\ task' = [Expired EXCEPT ![t] = "queued"]
    /\ media' = Swept(media)
    /\ Pc(t, "task")
    /\ UNCHANGED <<late, stored, req, allowed>>

Cancel(h, t) ==
    /\ At(h, "free") /\ allowed
    /\ task[t] \notin {"none", "completed", "completing"}
    /\ task' = [task EXCEPT ![t] = "cancelled"]
    /\ req' = [req EXCEPT ![h] = [task |-> t, pc |-> "clean"]]
    /\ UNCHANGED <<late, media, stored, helper, allowed>>

\* expire, in the maintenance pass.
Expire ==
    /\ Overdue # {}
    /\ task' = Expired /\ media' = Swept(media)
    /\ UNCHANGED <<late, stored, req, helper, allowed>>

----------------------------------------------------------------------------
(* The handlers of a ticket. *)

Refuse(h) ==
    LET t == req[h].task
    IN  /\ req[h].pc \in {"task", "upload", "complete", "failure"}
        /\ \/ ~Capable(t)
           \/ At(h, "upload") /\ task[t] \notin {"queued", "downloading", "uploading"}
           \/ At(h, "complete") /\ task[t] \notin {"uploading", "completing", "completed"}
        /\ Answer(h, "give up")
        /\ UNCHANGED <<task, late, media, stored, allowed>>

ServeTask(h) ==
    LET t == req[h].task
    IN  /\ At(h, "task") /\ Capable(t)
        /\ task' = [task EXCEPT ![t] = IF @ = "queued" THEN "downloading" ELSE @]
        /\ Answer(h, IF task[t] = "completed" THEN "stop" ELSE "upload")
        /\ UNCHANGED <<late, media, stored, allowed>>

ServeUpload(h) ==
    LET t == req[h].task
    IN  /\ At(h, "upload") /\ Capable(t) /\ task[t] \in {"queued", "downloading", "uploading"}
        /\ task' = [task EXCEPT ![t] = "uploading"]
        /\ To(h, "admit")
        /\ UNCHANGED <<late, media, stored, helper, allowed>>
\* The media row is found or added; a full quota refuses it.
AdmitMedia(h, room) ==
    LET t == req[h].task
    IN  /\ At(h, "admit")
        /\ IF media[t] = "none" /\ room
           THEN media' = [media EXCEPT ![t] = "uploading"] /\ To(h, "recheck") /\ UNCHANGED helper
           ELSE /\ UNCHANGED media
                /\ IF media[t] = "uploading" THEN To(h, "recheck") /\ UNCHANGED helper
                   ELSE Answer(h, "give up")
        /\ UNCHANGED <<task, late, stored, allowed>>
RevokedMutant(t) == FALSE
Revoked(t) == task[t] # "uploading"
Recheck(h) ==
    LET t == req[h].task
    IN  /\ At(h, "recheck")
        /\ IF Revoked(t) THEN To(h, "clean") /\ UNCHANGED helper ELSE Answer(h, "put")
        /\ UNCHANGED <<task, late, media, stored, allowed>>

ServeComplete(h) ==
    LET t == req[h].task
    IN  /\ At(h, "complete") /\ Capable(t) /\ task[t] \in {"uploading", "completing", "completed"}
        /\ task' = [task EXCEPT ![t] = IF @ = "completed" THEN @ ELSE "completing"]
        /\ To(h, "verify")
        /\ UNCHANGED <<late, media, stored, helper, allowed>>
\* upload_complete: the object is verified, the validation admitted (once), and
\* the dispatcher woken; the store and the wakeup may fail.
TrustedMutant(t, reached) == IF media[t] \in {"ready", "uploading"} THEN "finish" ELSE "inspect"
AfterVerify(t, reached) == IF media[t] = "ready" THEN "finish"
                           ELSE IF reached /\ stored[t] THEN "validate" ELSE "inspect"
Verify(h, reached) ==
    /\ At(h, "verify")
    /\ To(h, AfterVerify(req[h].task, reached))
    /\ UNCHANGED <<task, late, media, stored, helper, allowed>>
Validate(h, woken) ==
    LET t == req[h].task
    IN  /\ At(h, "validate")
        /\ media' = [media EXCEPT ![t] = IF @ = "uploading" THEN "validating" ELSE @]
        /\ To(h, IF media[t] # "deleting" /\ woken THEN "finish" ELSE "inspect")
        /\ UNCHANGED <<task, late, stored, helper, allowed>>
\* A failed completion is given back to the uploader, unless it was admitted.
Inspect(h) ==
    LET t == req[h].task
    IN  /\ At(h, "inspect")
        /\ IF media[t] = "uploading" THEN To(h, "revert") /\ UNCHANGED helper
           ELSE Answer(h, IF media[t] = "deleting" THEN "give up" ELSE "retry")
        /\ UNCHANGED <<task, late, media, stored, allowed>>
RevertedMutant(t) == "uploading"
Reverted(t) == IF task[t] = "completing" THEN "uploading" ELSE task[t]
Revert(h) ==
    /\ At(h, "revert")
    /\ task' = [task EXCEPT ![req[h].task] = Reverted(req[h].task)]
    /\ Answer(h, "retry")
    /\ UNCHANGED <<late, media, stored, allowed>>
Finish(h) ==
    /\ At(h, "finish")
    /\ task' = [task EXCEPT ![req[h].task] = "completed"]
    /\ Answer(h, "stop")
    /\ UNCHANGED <<late, media, stored, allowed>>

Reportable(t) == task[t] \in {"queued", "downloading", "uploading", "failed"}
ServeFailure(h) ==
    LET t == req[h].task
    IN  /\ At(h, "failure") /\ Capable(t)
        /\ IF Reportable(t)
           THEN task' = [task EXCEPT ![t] = "failed"] /\ To(h, "clean") /\ UNCHANGED helper
           ELSE UNCHANGED task /\ Answer(h, "stop")
        /\ UNCHANGED <<late, media, stored, allowed>>

----------------------------------------------------------------------------
(* The helper: task, download, upload, PUT, complete up to three times; on   *)
(* an error it reports the failure and stops.                                *)

Request(pc) == IF pc = "retry" THEN "complete" ELSE pc
Wants(t) == helper[t].on = None /\ helper[t].pc \in {"task", "upload", "complete", "retry", "failure"}
            /\ (helper[t].pc = "retry" => helper[t].sent < Tries)
Send(t, h) ==
    /\ Wants(t) /\ At(h, "free")
    /\ req' = [req EXCEPT ![h] = [task |-> t, pc |-> Request(helper[t].pc)]]
    /\ helper' = [helper EXCEPT ![t].on = h,
                                ![t].sent = IF helper[t].pc \in {"complete", "retry"} THEN @ + 1 ELSE @]
    /\ UNCHANGED <<task, late, media, stored, allowed>>
\* The body is sent; the store takes it or not.
Put(t, taken) ==
    /\ helper[t].pc = "put"
    /\ stored' = [stored EXCEPT ![t] = @ \/ taken]
    /\ Pc(t, IF taken THEN "complete" ELSE "failure")
    /\ UNCHANGED <<task, late, media, req, allowed>>
AfterLoss(t) == IF helper[t].pc \in {"complete", "retry"} THEN "retry"
                ELSE IF helper[t].pc = "failure" THEN "stop" ELSE "failure"
\* No answer in 60 seconds: the request is abandoned, where it is.
GiveUp(t) ==
    /\ helper[t].on # None
    /\ Pc(t, AfterLoss(t))
    /\ UNCHANGED <<task, late, media, stored, req, allowed>>
Fail(t) ==
    /\ helper[t].on = None
    /\ \/ helper[t].pc \in {"give up", "upload"}
       \/ helper[t].pc = "retry" /\ helper[t].sent = Tries
    /\ Pc(t, "failure")
    /\ UNCHANGED <<task, late, media, stored, req, allowed>>

----------------------------------------------------------------------------

Lost(h) == Answer(h, AfterLoss(req[h].task)) /\ UNCHANGED <<task, late, media, stored, allowed>>
\* A request that never reached the server.
Dropped(h) == req[h].pc \in {"task", "upload", "complete", "failure"} /\ Lost(h)
\* The server goes down in the middle of a request.
Crash(h) == ~At(h, "free") /\ Lost(h)
Validated(t, verdict) ==
    /\ media[t] = "validating"
    /\ media' = [media EXCEPT ![t] = verdict]
    /\ UNCHANGED <<task, late, stored, req, helper, allowed>>
DeleteMedia(t) ==
    /\ allowed /\ Unfinished(t)
    /\ media' = [media EXCEPT ![t] = "deleting"]
    /\ UNCHANGED <<task, late, stored, req, helper, allowed>>
TimePasses(t) ==
    /\ task[t] # "none" /\ ~late[t]
    /\ late' = [late EXCEPT ![t] = TRUE]
    /\ UNCHANGED <<task, media, stored, req, helper, allowed>>
Revoke ==
    /\ allowed /\ allowed' = FALSE
    /\ UNCHANGED <<task, late, media, stored, req, helper>>

Serve(h) ==
    \/ Clean(h) \/ Refuse(h) \/ ServeTask(h) \/ ServeUpload(h) \/ Recheck(h) \/ ServeComplete(h)
    \/ Inspect(h) \/ Revert(h) \/ Finish(h) \/ ServeFailure(h)
    \/ \E fine \in BOOLEAN : AdmitMedia(h, fine) \/ Verify(h, fine) \/ Validate(h, fine)
Next ==
    \/ \E h \in Handlers : Serve(h) \/ Dropped(h) \/ \E t \in Tasks : Cancel(h, t) \/ Send(t, h)
    \/ \E t \in Tasks : \/ Create(t) \/ GiveUp(t) \/ Fail(t) \/ TimePasses(t) \/ DeleteMedia(t)
                        \/ \E taken \in BOOLEAN : Put(t, taken)
                        \/ \E verdict \in {"ready", "failed"} : Validated(t, verdict)
    \/ Expire \/ Revoke

CrashNext == Next \/ \E h \in Handlers : Crash(h)

Spec == Init /\ [][Next]_vars
FairSpec == Spec /\ WF_vars(Expire) /\ \A t \in Tasks : WF_vars(TimePasses(t))

----------------------------------------------------------------------------
(* Properties. *)

TypeOK ==
    /\ \A t \in Tasks : /\ task[t] \in Active \cup Ended \cup {"none"}
                        /\ task[t] = "none" => media[t] = "none" /\ ~stored[t]
                        /\ helper[t].on # None => req[helper[t].on].task = t /\ ~At(helper[t].on, "free")

\* A completed task has a media row whose validation was admitted: it never
\* reports an upload that nobody will check.
CompletedIsAdmitted == \A t \in Tasks : task[t] = "completed" => media[t] \notin {"none", "uploading"}

\* A task that ended stays ended, whatever the request of it that is still in
\* flight does.
EndedStaysEnded == [][\A t \in Tasks : task[t] \in Ended => task'[t] \in Ended]_vars

\* "A cancellation racing with signing/admission must not orphan quota": once
\* the requests of a cancelled or failed task are over, no upload is reserved
\* for it.
InFlight(t) == \E h \in Handlers : ~At(h, "free") /\ req[h].task = t
CancelledHoldsNothing ==
    \A t \in Tasks : task[t] \in {"cancelled", "failed"} /\ ~InFlight(t) => media[t] # "uploading"

\* Every task ends, although its helper is gone and its owner never returns.
TasksEnd == \A t \in Tasks : task[t] \in Active ~> task[t] \in Ended
================================================================================
