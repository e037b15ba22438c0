---------------------------- MODULE OutputStorage ----------------------------
(***************************************************************************)
(* The stored bytes of one tenant: media rows, the output budgets that     *)
(* jobs hold, upload reservations (each a signed PUT that may still be     *)
(* used) and the deletion outbox of server/repository.py, the handlers of  *)
(* server/production_app.py that call them, and the object store.          *)
(*                                                                         *)
(* An import job and the media row it fills have one identifier.  A direct *)
(* upload's key is <<its media id, 0>>; the output of attempt v of job j   *)
(* has the key <<j, v>>.  Leases and schedules are JobRepository's: here a running *)
(* job may report, lapse or be cancelled at any time.  A validation job is *)
(* the state "validating" of the media row it blocks.                      *)
(***************************************************************************)
EXTENDS Integers, FiniteSets, FiniteSetsExt

CONSTANTS
    Uploads,        \* media rows of direct uploads
    Locals,         \* jobs that record a media row to a file
    Imports,        \* jobs that fetch a media row from a source
    Attempts,       \* max_attempts of a local job (an import has one)
    Sizes,          \* sizes of uploads and outputs
    Budget,         \* _output_budget of a recording
    MaxImport,      \* the largest import the API asks for
    MaxStorage, MaxMedia,
    Ttl,            \* how long a signed PUT is valid (900 seconds)
    TransferTime,   \* how long after its start a PUT may still land
    Backoff, MaxFailures,   \* first delay of deletion_failed; bound on failures
    Horizon         \* bound: the last instant of the clock

Jobs == Locals \cup Imports
Media == Uploads \cup Imports
OutputKeys == Jobs \X (1..Attempts)
MediaKey(m) == <<m, 0>>
Keys == {MediaKey(m) : m \in Media} \cup OutputKeys
NoMedia == "none"
NoKey == MediaKey(NoMedia)
Never == -1

\* Media and jobs have identifiers of their own; sizes, delays and bounds are numbers.
ASSUME StorageAssumption ==
    /\ IsFiniteSet(Uploads) /\ IsFiniteSet(Locals) /\ IsFiniteSet(Imports)
    /\ Imports \cap (Uploads \cup Locals) = {} /\ NoMedia \notin Media
    /\ Sizes \subseteq Nat /\ Attempts \in Nat \ {0}
    /\ {Budget, MaxImport, MaxStorage, MaxMedia, Ttl, TransferTime, Horizon} \subseteq Nat
    /\ MaxFailures \in Nat /\ \A n \in 0..MaxFailures : Backoff * 2^n \in Nat

VARIABLES
    now,
    media,      \* replay_media: status, bytes, key, created
    job,        \* replay_jobs: state, media, version, budget, held, output, bytes
    put,        \* replay_output_reservations: status, bytes, expires
    deletion,   \* replay_object_deletions: not_before (or Never) and attempt
    object,     \* keys that exist in the object store
    url,        \* url[k]: when the last signed PUT of k expires
    belated,    \* objects that landed after every URL of their key had expired
    verified,   \* keys whose upload a handler has verified
    removed     \* keys a maintenance pass deleted and has not confirmed

vars == <<now, media, job, put, deletion, object, belated, url, verified, removed>>

Init ==
    /\ now = 0
    /\ media = [m \in Media |-> [status |-> "absent", bytes |-> 0, key |-> NoKey, created |-> 0]]
    /\ job = [j \in Jobs |-> [state |-> "absent", media |-> NoMedia, version |-> 0, budget |-> 0,
                              held |-> 0, output |-> NoKey, bytes |-> 0]]
    /\ put = [k \in OutputKeys |-> [status |-> "none", bytes |-> 0, expires |-> 0]]
    /\ deletion = [k \in Keys |-> [at |-> Never, tries |-> 0]]
    /\ object = {} /\ belated = {} /\ verified = {} /\ removed = {}
    /\ url = [k \in Keys |-> Never]

----------------------------------------------------------------------------
(* Accounting. *)

Larger(a, b) == IF a >= b THEN a ELSE b
Smaller(a, b) == IF a <= b THEN a ELSE b
Running == {"active", "stopping"}
Unfinished == {"queued"} \cup Running
Key(j) == <<j, job[j].version>>
PendingPuts == {k \in OutputKeys : put[k].status = "pending"}
LiveMedia == {m \in Media : media[m].status \notin {"absent", "deleted"}}

UsedMutant ==
    SumFunctionOnSet([m \in Media |-> media[m].bytes], LiveMedia)
        + SumFunctionOnSet([j \in Jobs |-> job[j].bytes + job[j].held], Jobs)
\* _storage_used: originals, outputs, held budgets and possible uploads.
Used ==
    SumFunctionOnSet([m \in Media |-> media[m].bytes], LiveMedia)
        + SumFunctionOnSet([j \in Jobs |-> job[j].bytes + job[j].held], Jobs)
        + SumFunctionOnSet([k \in OutputKeys |-> put[k].bytes], PendingPuts)

NotBeforeMutant(k) == now
\* _enqueue_delete: not before every authorisation for the key has expired.
NotBefore(k) ==
    LET upload == IF k \in OutputKeys /\ put[k].status # "none" THEN put[k].expires ELSE 0
        rows == {media[m].created + Ttl : m \in {m \in Media : media[m].key = k}}
    IN  Max({now, upload} \cup rows)
Enqueued(ks) ==
    [k \in Keys |-> IF k \in ks /\ deletion[k].at = Never
                    THEN [at |-> NotBefore(k), tries |-> 0] ELSE deletion[k]]

----------------------------------------------------------------------------
(* Direct uploads: the URL is signed before the row is admitted. *)

Signed(k, signedAt) == url' = [url EXCEPT ![k] = Larger(@, signedAt + Ttl)]
MediaAdmitted(m, status, b) ==
    /\ media[m].status = "absent"
    /\ Cardinality(LiveMedia) < MaxMedia
    /\ media' = [media EXCEPT ![m] = [status |-> status, bytes |-> b, key |-> MediaKey(m), created |-> now]]
AddMedia(m, b) == Used + b <= MaxStorage /\ MediaAdmitted(m, "uploading", b)

UploadIntent(m, b, signedAt) ==
    /\ AddMedia(m, b)
    /\ Signed(MediaKey(m), signedAt)
    /\ UNCHANGED <<now, job, put, deletion, object, belated, verified, removed>>

\* A PUT is authorised when it starts; the store never overwrites a key.
Authorised(k, startedAt) == startedAt < url[k]
StorePut(k) ==
    /\ \E startedAt \in Larger(0, now - TransferTime)..now : Authorised(k, startedAt)
    /\ k \notin object
    /\ object' = object \cup {k}
    /\ belated' = IF now < url[k] THEN belated ELSE belated \cup {k}
    /\ UNCHANGED <<now, media, job, put, deletion, url, verified, removed>>

\* verify_upload, a call of its own before the transaction that relies on it.
Verify(k) ==
    /\ k \in object \ verified
    /\ k \in PendingPuts \/ \E m \in Uploads : k = MediaKey(m) /\ media[m].status = "uploading"
    /\ verified' = verified \cup {k}
    /\ UNCHANGED <<now, media, job, put, deletion, object, belated, url, removed>>

UploadComplete(m) ==
    /\ media[m].status = "uploading" /\ MediaKey(m) \in verified
    /\ media' = [media EXCEPT ![m].status = "validating"]
    /\ verified' = verified \ {MediaKey(m)}
    /\ UNCHANGED <<now, job, put, deletion, object, belated, url, removed>>

Validated(m, verdict) ==
    /\ media[m].status = "validating"
    /\ media' = [media EXCEPT ![m].status = verdict]
    /\ UNCHANGED <<now, job, put, deletion, object, belated, url, verified, removed>>

----------------------------------------------------------------------------
(* Jobs that make files. *)

Admitted(j, m, budget) ==
    job' = [job EXCEPT ![j] = [state |-> "queued", media |-> m, version |-> 0, budget |-> budget,
                               held |-> budget, output |-> NoKey, bytes |-> 0]]

CreateLocal(j, m) ==
    /\ job[j].state = "absent"
    /\ media[m].status = "ready"
    /\ Used + Budget <= MaxStorage
    /\ Admitted(j, m, Budget)
    /\ UNCHANGED <<now, media, put, deletion, object, belated, url, verified, removed>>

CreateImport(i) ==
    LET budget == Smaller(MaxImport, MaxStorage - Used)
    IN  /\ job[i].state = "absent"
        /\ budget > 0
        /\ MediaAdmitted(i, "importing", 0)
        /\ Admitted(i, i, budget)
        /\ UNCHANGED <<now, put, deletion, object, belated, url, verified, removed>>

Tries(j) == IF j \in Imports THEN 1 ELSE Attempts
HeldOnClaimMutant(j) == job[j].held
HeldOnClaim(j) == job[j].budget
\* An attempt starts with its full budget: what earlier uploads took is added.
Claim(j) ==
    LET missing == job[j].budget - job[j].held
    IN  /\ job[j].state = "queued" /\ job[j].version < Tries(j)
        /\ missing = 0 \/ Used + missing <= MaxStorage
        /\ job' = [job EXCEPT ![j].state = "active", ![j].version = @ + 1, ![j].held = HeldOnClaim(j)]
        /\ UNCHANGED <<now, media, put, deletion, object, belated, url, verified, removed>>

HeldAfter(j, b) == job[j].held - b
\* A repeated request for the same bytes only prolongs the reservation.
ReserveOutput(j, b) ==
    LET k == Key(j)
        first == put[k].status = "none"
    IN  /\ job[j].state = "active"
        /\ b <= job[j].budget
        /\ \/ first /\ b <= job[j].held
           \/ put[k].status = "pending" /\ put[k].bytes = b
        /\ put' = [put EXCEPT ![k] = [status |-> "pending", bytes |-> b,
                                      expires |-> Larger(put[k].expires, now + Ttl)]]
        /\ job' = [job EXCEPT ![j].held = IF first THEN HeldAfter(j, b) ELSE @]

\* The handler signs first, then reserves.
OutputIntent(j, b, signedAt) ==
    /\ ReserveOutput(j, b)
    /\ Signed(Key(j), signedAt)
    /\ UNCHANGED <<now, media, deletion, object, belated, verified, removed>>

\* What finish and _finish_side_effects do with outcome for job j.
SettledMedia(j, outcome) ==
    IF j \notin Imports \/ outcome \in {"retry_wait", "queued"} THEN media
    ELSE IF outcome = "completed"
    THEN [media EXCEPT ![j] = [@ EXCEPT !.status = "ready", !.bytes = put[Key(j)].bytes, !.key = Key(j)]]
    ELSE [media EXCEPT ![j].status = "failed"]
Settle(j, outcome) ==
    LET k == Key(j)
        charged == job[j].version > 0 /\ put[k].status = "pending"
        kept == outcome = "completed"
    IN  /\ job' = [job EXCEPT ![j] = [@ EXCEPT
              !.state = IF outcome = "retry_wait" THEN "queued" ELSE "ended",
              !.held = IF outcome = "retry_wait" THEN job[j].held ELSE 0,
              !.output = IF kept /\ j \in Locals THEN k ELSE job[j].output,
              !.bytes = IF kept /\ j \in Locals THEN put[k].bytes ELSE job[j].bytes]]
        /\ media' = SettledMedia(j, outcome)
        /\ put' = IF kept THEN [put EXCEPT ![k].status = "committed"] ELSE put
        /\ deletion' = IF charged /\ ~kept THEN Enqueued({k}) ELSE deletion
        /\ verified' = verified \ {k}
        /\ UNCHANGED <<now, object, belated, url, removed>>

FinishCompleted(j) ==
    /\ job[j].state = "active"
    /\ Key(j) \in verified /\ put[Key(j)].status = "pending"
    /\ Settle(j, "completed")
FinishOtherwise(j, outcome) ==
    /\ job[j].state \in Running
    /\ outcome = "retry_wait" => job[j].state = "active" /\ job[j].version < Tries(j)
    /\ Settle(j, outcome)
\* A lapsed lease, a missed deadline, or the cancellation of a queued job.
Lapse(j) == job[j].state \in Unfinished /\ Settle(j, "failed")
Cancel(j) ==
    /\ job[j].state = "active"
    /\ job' = [job EXCEPT ![j].state = "stopping"]
    /\ UNCHANGED <<now, media, put, deletion, object, belated, url, verified, removed>>

----------------------------------------------------------------------------
(* Deletion: durable intent, removal, acknowledgement. *)

InUseMutant(m) == media[m].status = "validating"
InUse(m) == \/ media[m].status = "validating"
            \/ \E j \in Jobs : job[j].media = m /\ job[j].state \in Unfinished

DeleteMedia(m) ==
    /\ m \in LiveMedia /\ media[m].status # "deleting"
    /\ ~InUse(m)
    /\ media' = [media EXCEPT ![m].status = "deleting"]
    /\ deletion' = Enqueued({media[m].key})
    /\ UNCHANGED <<now, job, put, object, belated, url, verified, removed>>

\* Pending uploads that no running attempt of their job will finish.
Orphans == {k \in PendingPuts : ~(job[k[1]].state \in Running /\ Key(k[1]) = k)}

\* cleanup(before): "old" jobs and media were last touched before the cutoff.
Cleanup(oldJobs, oldMedia) ==
    LET outputs == {job[j].output : j \in oldJobs} \ {NoKey}
        orphans == {k \in Orphans : put[k].expires <= now}
    IN  /\ \A j \in oldJobs : job[j].state = "ended"
        /\ \A m \in oldMedia : /\ m \in LiveMedia /\ media[m].status # "deleting" /\ ~InUse(m)
                               /\ \A j \in Jobs : job[j].media = m => j \in oldJobs
        /\ oldJobs \cup oldMedia \cup orphans # {}
        /\ job' = [j \in Jobs |-> IF j \in oldJobs /\ job[j].output = NoKey
                                  THEN [job[j] EXCEPT !.state = "gone", !.media = NoMedia] ELSE job[j]]
        /\ media' = [m \in Media |-> IF m \in oldMedia
                                     THEN [media[m] EXCEPT !.status = "deleting"] ELSE media[m]]
        /\ deletion' = Enqueued(outputs \cup orphans \cup {media[m].key : m \in oldMedia})
        /\ UNCHANGED <<now, put, object, belated, url, verified, removed>>

Due(k) == deletion[k].at # Never /\ deletion[k].at <= now
\* The maintenance pass: remove the object, then acknowledge; either may fail.
Remove(k) ==
    /\ Due(k) /\ k \notin removed
    /\ object' = object \ {k}
    /\ belated' = belated \ {k}
    /\ removed' = removed \cup {k}
    /\ UNCHANGED <<now, media, job, put, deletion, url, verified>>

ConfirmDeletion(k) ==
    /\ Due(k) /\ k \in removed
    /\ media' = [m \in Media |-> IF media[m].key = k /\ media[m].status = "deleting"
                                 THEN [media[m] EXCEPT !.status = "deleted"] ELSE media[m]]
    /\ job' = [j \in Jobs |-> IF job[j].output = k /\ job[j].state = "ended"
                              THEN [job[j] EXCEPT !.output = NoKey, !.bytes = 0] ELSE job[j]]
    /\ put' = [x \in OutputKeys |-> IF x = k THEN [status |-> "none", bytes |-> 0, expires |-> 0]
                                    ELSE put[x]]
    /\ deletion' = [deletion EXCEPT ![k] = [at |-> Never, tries |-> 0]]
    /\ removed' = removed \ {k}
    /\ UNCHANGED <<now, object, belated, url, verified>>

DeletionFailed(k) ==
    /\ deletion[k].at # Never /\ (Due(k) \/ k \in removed)
    /\ deletion[k].tries < MaxFailures
    /\ deletion' = [deletion EXCEPT ![k] = [at |-> now + Backoff * 2^deletion[k].tries,
                                            tries |-> deletion[k].tries + 1]]
    /\ removed' = removed \ {k}
    /\ UNCHANGED <<now, media, job, put, object, belated, url, verified>>

Tick == /\ now < Horizon
        /\ now' = now + 1
        /\ UNCHANGED <<media, job, put, deletion, object, belated, url, verified, removed>>

\* Bound: new authorisations expire, and failed deletions return, in time.
InTime == now + Ttl <= Horizon
Recent == Larger(0, now - 1)..now

Next ==
    \/ InTime /\ \E m \in Uploads, b \in Sizes, s \in Recent : UploadIntent(m, b, s)
    \/ \E k \in Keys : StorePut(k) \/ Verify(k) \/ Remove(k) \/ ConfirmDeletion(k)
    \/ \E m \in Uploads : \/ UploadComplete(m)
                          \/ \E verdict \in {"ready", "failed"} : Validated(m, verdict)
    \/ \E j \in Locals, m \in Media : CreateLocal(j, m)
    \/ \E i \in Imports : CreateImport(i)
    \/ InTime /\ \E j \in Jobs, b \in Sizes, s \in Recent : OutputIntent(j, b, s)
    \/ \E j \in Jobs : \/ Claim(j) \/ FinishCompleted(j) \/ Lapse(j) \/ Cancel(j)
                       \/ \E o \in {"failed", "stopped", "retry_wait"} : FinishOtherwise(j, o)
    \/ \E m \in Media : DeleteMedia(m)
    \/ \E old \in SUBSET Jobs, oldMedia \in SUBSET Media : Cleanup(old, oldMedia)
    \/ \E k \in Keys : now + Backoff * 2^deletion[k].tries <= Horizon /\ DeletionFailed(k)
    \/ Tick

Spec == Init /\ [][Next]_vars

----------------------------------------------------------------------------
(* Progress: the dispatcher sleeps until next_wakeup and then runs the       *)
(* maintenance pass; nothing is assumed of users, workers or retention.      *)

WakeupMutant == {put[k].expires : k \in {x \in Orphans : deletion[x].at = Never}}
\* The part of next_wakeup that concerns storage, as the set of its candidates.
Wakeup == {deletion[k].at : k \in {x \in Keys : deletion[x].at # Never}}
             \cup {put[k].expires : k \in {x \in Orphans : deletion[x].at = Never}}
Awake == \E at \in Wakeup : at <= now
Fairness ==
    /\ WF_vars(Tick) /\ WF_vars(Awake /\ Cleanup({}, {}))
    /\ \A k \in Keys : WF_vars(Awake /\ Remove(k)) /\ WF_vars(Awake /\ ConfirmDeletion(k))
FairSpec == Spec /\ Fairness

----------------------------------------------------------------------------
(* Properties. *)

TypeOK ==
    /\ now \in 0..Horizon
    /\ \A m \in Media : media[m].bytes \in 0..MaxStorage /\ media[m].key \in Keys \cup {NoKey}
    /\ \A j \in Jobs : job[j].held \in 0..job[j].budget /\ job[j].output \in OutputKeys \cup {NoKey}
    /\ \A k \in OutputKeys : put[k].status \in {"none", "pending", "committed"}
    /\ object \subseteq Keys /\ belated \subseteq object /\ verified \subseteq Keys /\ removed \subseteq Keys

Possible == {k \in Keys : k \in object \/ now < url[k]}
Charges(k) == Cardinality({m \in LiveMedia : media[m].key = k})
                  + Cardinality({j \in Jobs : job[j].output = k})
                  + (IF k \in PendingPuts THEN 1 ELSE 0)
\* Every object that exists, and every one a valid URL may still create, is
\* charged to the tenant, and to one row only: nothing is counted twice in the
\* moves between held budget, reservation, output and imported media.  Only
\* what lands when its URL has expired may be charged to nobody.
Stray == {k \in belated : Charges(k) = 0}
ChargedOnce == \A k \in Possible \ Stray : Charges(k) = 1

\* The objects in the store, those a URL given out may still create and the
\* bytes running jobs were promised fit in the tenant's quota together,
\* whatever is retried, imported or deleted; strays excepted.
SizeOf(k) == IF k \in OutputKeys THEN put[k].bytes ELSE media[k[1]].bytes
WithinQuota ==
    SumFunctionOnSet([k \in Keys |-> SizeOf(k)], Possible \ Stray)
        + SumFunctionOnSet([j \in Jobs |-> job[j].held], Jobs) <= MaxStorage

\* A file the tenant can still use, or that is being checked or recorded, is
\* in the store: no retry, clean-up or late acknowledgement takes it away.
LiveDataKept ==
    /\ \A m \in Media : media[m].status \in {"validating", "ready"} => media[m].key \in object
    /\ \A j \in Jobs : job[j].output # NoKey /\ deletion[job[j].output].at = Never
           => job[j].output \in object
    /\ \A j \in Locals : job[j].state \in Unfinished => media[job[j].media].key \in object

\* A running attempt that has not reserved its upload holds its whole budget,
\* so the reservation at its end cannot fail for lack of space.
AttemptCanFinish ==
    \A j \in Jobs : job[j].state \in Running /\ put[Key(j)].status = "none"
        => job[j].held = job[j].budget

\* Every object, and every one a URL given out may still create, is charged to
\* the tenant exactly once, strays excepted, and no file that is still of use
\* is taken away.
ObjectsAccounted == TypeOK /\ ChargedOnce /\ LiveDataKept

\* What exists, may still arrive or was promised to a running job fits in the
\* quota, so an attempt can reserve its upload when it ends.
QuotaHolds == WithinQuota /\ AttemptCanFinish

\* The bytes of an upload that no job wants any more are released in the end,
\* although the store may refuse some deletions.
AbandonedUploadReleased ==
    \A k \in OutputKeys :
        put[k].status = "pending" /\ job[k[1]].state \in {"ended", "gone"} ~> put[k].status = "none"
=============================================================================
