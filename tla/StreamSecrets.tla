----------------------------- MODULE StreamSecrets -----------------------------
(* The destination of a broadcast on its way from the account that owns it to  *)
(* the worker that streams to it: server/stream_connections.py (the saved      *)
(* connections), server/secrets.py (the versioned keys they and the jobs are   *)
(* encrypted with), the routes of server/production_app.py that register and   *)
(* claim broadcasts, the replay of a request in server/repository.py and the   *)
(* bounded name lookups of server/stream_targets.py.                           *)
(*                                                                             *)
(* A key is the number it was declared with.  A ciphertext is the key and the  *)
(* destination it hides; a process opens it exactly when it holds that key.    *)
(* Nothing in the code keeps the operator to the order of secrets.py:83-85:    *)
(* what a key was declared, activated and retired for is remembered, and what  *)
(* can be read is said for any order.                                          *)
EXTENDS Naturals, FiniteSets

CONSTANTS Instances,   \* the API processes; one of them may be an older deployment
          Owners,      \* an account's saved connection to one platform
          Destinations,
          Requests,    \* the idempotency keys of the clients
          Jobs,        \* the identifiers a new job may get, each used once
          MaxKey,      \* bounds the keys the operator ever declares
          Slots,       \* stream_targets.py:47, name lookups at a time (8)
          None

VARIABLES env,      \* the deployment's environment: the declared keys and the active one
          ring,     \* what each process read of it when it started
          saved,    \* the saved connection of each owner
          backup,   \* the connections in the backup that is retained
          record,   \* what the database remembers of each request, never removed
          job,      \* the jobs
          told,     \* what the client was last told is scheduled, per request
          slots,    \* each process's free slots for name lookups
          lookups,  \* the lookup threads that still run: <<process, job>>
          early,    \* keys made active while a process that serves did not hold them
          lost      \* keys retired while something was, or would be, encrypted with them

vars == <<env, ring, saved, backup, record, job, told, slots, lookups, early, lost>>

operator == <<early, lost>>

Keys == 1..MaxKey
Newest(i, d) == [of |-> d,
                 key |-> CHOOSE k \in ring[i].keys : \A l \in ring[i].keys : l <= k]
Cipher(i, d) == [key |-> ring[i].active, of |-> d]
Opens(i, c) == c.key \in ring[i].keys

Parameters ==
    /\ MaxKey \in Nat \ {0} /\ Slots \in Nat
    /\ None \notin [key : Keys, of : Destinations] \cup Destinations \cup Requests
    /\ None \notin [kind : {"single", "batch"}, asked : SUBSET Destinations, jobs : SUBSET Jobs]
    /\ None \notin [asked : SUBSET Destinations, jobs : SUBSET Jobs]

NoJob == [state |-> "unused", secret |-> None, asked |-> None, given |-> None]

Init == /\ env = [keys |-> {1}, active |-> 1]
        /\ ring = [i \in Instances |-> env]
        /\ saved = [o \in Owners |-> None]
        /\ backup = saved
        /\ record = [r \in Requests |-> None]
        /\ job = [j \in Jobs |-> NoJob]
        /\ told = [r \in Requests |-> None]
        /\ slots = [i \in Instances |-> Slots]
        /\ lookups = {}
        /\ early = {} /\ lost = {}

(* ----------------------------- The keys --------------------------------- *)

Stored == {c \in {saved[o] : o \in Owners} \cup {backup[o] : o \in Owners}
                 \cup {job[j].secret : j \in Jobs} : c # None}

Declare == /\ \E k \in Keys : /\ k = Cardinality(env.keys) + 1
                              /\ k \notin env.keys
                              /\ env' = [env EXCEPT !.keys = @ \cup {k}]
           /\ UNCHANGED <<operator, ring, saved, backup, record, job, told, slots, lookups>>

Activate(k) == /\ k \in env.keys \ {env.active}
               /\ env' = [env EXCEPT !.active = k]
               /\ early' = early \cup {l \in {k} : \E i \in Instances : l \notin ring[i].keys}
               /\ UNCHANGED <<lost, ring, saved, backup, record, job, told, slots, lookups>>

Retire(k) == /\ k \in env.keys \ {env.active}
             /\ env' = [env EXCEPT !.keys = @ \ {k}]
             /\ lost' = lost \cup {l \in {k} : \/ \E c \in Stored : c.key = l
                                            \/ \E i \in Instances : ring[i].active = l}
             /\ UNCHANGED <<early, ring, saved, backup, record, job, told, slots, lookups>>

(* from_env: a process reads its keys once, when it starts.  The lookups of    *)
(* the process it replaces are gone, and the claims that waited for them lose  *)
(* their lease.                                                                *)
FromEnv(i) == /\ ring' = [ring EXCEPT ![i] = env]
              /\ slots' = [slots EXCEPT ![i] = Slots]
              /\ lookups' = {l \in lookups : l[1] # i}
              /\ job' = [j \in Jobs |->
                           IF <<i, j>> \in lookups /\ job[j].state = "resolving"
                           THEN [job[j] EXCEPT !.state = "failed", !.secret = None] ELSE job[j]]
              /\ UNCHANGED <<operator, env, saved, backup, record, told>>

(* --------------------------- Saved connections --------------------------- *)

Save(i, o, d) == /\ saved' = [saved EXCEPT ![o] = Cipher(i, d)]
                 /\ UNCHANGED <<operator, env, ring, backup, record, job, told, slots, lookups>>

Delete(o) == /\ saved' = [saved EXCEPT ![o] = None]
             /\ UNCHANGED <<operator, env, ring, backup, record, job, told, slots, lookups>>

(* A backup holds the rows of the moment it was taken.  A restore brings them  *)
(* back; it settles the jobs of that moment and their secrets are gone.        *)
BackUp == /\ backup' = saved
          /\ UNCHANGED <<operator, env, ring, saved, record, job, told, slots, lookups>>

Restore == /\ saved' = backup
           /\ UNCHANGED <<operator, env, ring, backup, record, job, told, slots, lookups>>

(* ------------------------------ Registration ----------------------------- *)

(* One platform goes to create_job, several to create_jobs_batch: each looks   *)
(* for the key among the other's requests first.                               *)
Kind(ds) == IF Cardinality(ds) = 1 THEN "single" ELSE "batch"

(* The answer to a request that was answered before, whether or not the client *)
(* heard it; nothing when the key was used for something else or its jobs are  *)
(* gone, which is told to the client as a conflict.                            *)
SameKind(r, ds) == record[r].kind = Kind(ds)
Matches(r, ds) == record[r].kind = Kind(ds) /\ record[r].asked = ds
Kept(r) == \A j \in record[r].jobs : job[j].state # "deleted"
Replay(r, ds) == Matches(r, ds) /\ Kept(r)

Tell(r, ds, js) == \/ told' = [told EXCEPT ![r] = [asked |-> ds, jobs |-> js]]
                   \/ told' = told    \* the answer is lost; the client asks again

(* Every destination is admitted in one transaction, or none is. *)
Register(i, r, ds) ==
    /\ record[r] = None
    /\ \E take \in [ds -> {j \in Jobs : job[j].state = "unused"}] :
          /\ Cardinality({take[d] : d \in ds}) = Cardinality(ds)
          /\ job' = [j \in Jobs |->
                       IF \E d \in ds : take[d] = j
                       THEN LET d == CHOOSE d \in ds : take[d] = j
                            IN  [state |-> "scheduled", secret |-> Cipher(i, d),
                                 asked |-> r, given |-> None]
                       ELSE job[j]]
          /\ record' = [record EXCEPT ![r] = [kind |-> Kind(ds), asked |-> ds,
                                              jobs |-> {take[d] : d \in ds}]]
          /\ Tell(r, ds, {take[d] : d \in ds})
    /\ UNCHANGED <<operator, env, ring, saved, backup, slots, lookups>>

Repeated(r, ds) ==
    /\ record[r] # None
    /\ Replay(r, ds)
    /\ Tell(r, ds, record[r].jobs)
    /\ UNCHANGED <<operator, env, ring, saved, backup, record, job, slots, lookups>>

(* create_broadcast, create_broadcast_batch: the client sends the destinations *)
(* themselves, typed in or answered to it by use() just before.                *)
Create(i, r) == \E ds \in (SUBSET Destinations) \ {{}} : Register(i, r, ds) \/ Repeated(r, ds)

(* -------------------------------- The claim ------------------------------ *)

End(j, how) == [job EXCEPT ![j].state = how, ![j].secret = None]

Claim(j) == /\ job[j].state = "scheduled"
            /\ job' = [job EXCEPT ![j].state = "starting"]
            /\ UNCHANGED <<operator, env, ring, saved, backup, record, told, slots, lookups>>

(* Any failure of the setup finishes the job: WORKER_SETUP_FAILED. *)
Unreadable(i, j) == ~Opens(i, job[j].secret)

Setup(i, j) ==
    /\ job[j].state = "starting"
    /\ IF Unreadable(i, j) \/ slots[i] = 0
       THEN job' = End(j, "failed") /\ UNCHANGED <<slots, lookups>>
       ELSE /\ job' = [job EXCEPT ![j].state = "resolving"]
            /\ slots' = [slots EXCEPT ![i] = @ - 1]
            /\ lookups' = lookups \cup {<<i, j>>}
    /\ UNCHANGED <<operator, env, ring, saved, backup, record, told>>

(* The lookup thread gives its slot back itself, whether it is waited for or not. *)
LookupReturns(i, j, found) ==
    /\ <<i, j>> \in lookups
    /\ lookups' = lookups \ {<<i, j>>}
    /\ slots' = [slots EXCEPT ![i] = @ + 1]
    /\ job' = IF job[j].state # "resolving" THEN job
              ELSE IF found THEN [job EXCEPT ![j].state = "running", ![j].given = job[j].secret.of]
              ELSE End(j, "failed")
    /\ UNCHANGED <<operator, env, ring, saved, backup, record, told>>

(* _resolve waits five seconds and no longer; the thread goes on. *)
GiveUpWithSlot(j) == /\ job[j].state = "resolving"
                     /\ job' = End(j, "failed")
                     /\ slots' = [i \in Instances |-> IF <<i, j>> \in lookups THEN slots[i] + 1 ELSE slots[i]]
                     /\ UNCHANGED <<operator, env, ring, saved, backup, record, told, lookups>>
GiveUp(j) == /\ job[j].state = "resolving"
             /\ job' = End(j, "failed")
             /\ UNCHANGED <<operator, env, ring, saved, backup, record, told, slots, lookups>>

Finish(j) == /\ job[j].state \in {"scheduled", "running"}
             /\ job' = End(j, "ended")
             /\ UNCHANGED <<operator, env, ring, saved, backup, record, told, slots, lookups>>

(* cleanup_retention removes ended jobs, never what is remembered of requests. *)
Expire(j) == /\ job[j].state \in {"failed", "ended"}
             /\ job' = [job EXCEPT ![j].state = "deleted"]
             /\ UNCHANGED <<operator, env, ring, saved, backup, record, told, slots, lookups>>

Next == \/ Declare \/ BackUp \/ Restore
        \/ \E k \in Keys : Activate(k) \/ Retire(k)
        \/ \E i \in Instances : FromEnv(i)
        \/ \E i \in Instances, o \in Owners, d \in Destinations : Save(i, o, d)
        \/ \E o \in Owners : Delete(o)
        \/ \E i \in Instances, r \in Requests : Create(i, r)
        \/ \E j \in Jobs : \/ Claim(j) \/ GiveUp(j) \/ Finish(j) \/ Expire(j)
                           \/ \E i \in Instances : \/ Setup(i, j)
                                                 \/ \E found \in BOOLEAN : LookupReturns(i, j, found)

Spec == Init /\ [][Next]_vars

-----------------------------------------------------------------------------
(* Every key in use is declared, a process knows the key it encrypts with, and *)
(* a job has a secret exactly while it may still have to be set up.            *)
TypeOK ==
    /\ env.keys \subseteq Keys /\ env.active \in env.keys
    /\ \A i \in Instances : ring[i].keys \subseteq Keys /\ ring[i].active \in ring[i].keys
    /\ \A j \in Jobs : /\ job[j].state \in {"unused", "scheduled", "starting", "resolving", "running",
                                            "failed", "ended", "deleted"}
                       /\ job[j].secret # None
                            <=> job[j].state \in {"scheduled", "starting", "resolving", "running"}
    /\ slots \in [Instances -> 0..Slots] /\ lookups \subseteq Instances \X Jobs
    /\ early \subseteq Keys /\ lost \subseteq Keys

(* Whatever keys were declared, activated and retired, and whichever process   *)
(* serves it, a saved connection, one of the retained backup and the secret of *)
(* a job can be opened without being saved again (stream_connections.py:86),   *)
(* unless its key was retired while it was needed (secrets.py:83, "Retain old  *)
(* versions until stored ciphertext, retained backups, and rollback            *)
(* deployments no longer need them").  A key that was made active before every *)
(* process held it is still declared: a restart of the process cures that.     *)
StoredSecretsOpen ==
    \A c \in Stored : c.key \notin lost =>
        /\ c.key \in env.keys
        /\ c.key \notin early => \A i \in Instances : Opens(i, c)

(* A request, however often it is sent, makes one set of jobs; every job the   *)
(* client was told of streams to what that request asked, though the saved     *)
(* connection was replaced or deleted meanwhile or the jobs have expired       *)
(* (repository.py:545-551, 631-640).                                           *)
OneJobPerAnswer ==
    \A r \in Requests :
       /\ told[r] # None =>
            /\ told[r].jobs = {j \in Jobs : job[j].asked = r}
            /\ \A j \in told[r].jobs : job[j].secret # None => job[j].secret.of \in told[r].asked
       /\ \A j \in Jobs : job[j].given # None /\ job[j].asked = r /\ told[r] # None
                             => job[j].given \in told[r].asked

(* However many claims give up waiting for a name, at most Slots lookups are   *)
(* outstanding in the process (stream_targets.py:131, "stuck DNS cannot queue  *)
(* forever"), and every slot that is not held by one is free.                  *)
LookupsBounded ==
    \A i \in Instances : Cardinality({l \in lookups : l[1] = i}) + slots[i] = Slots
=============================================================================
