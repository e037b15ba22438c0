---------------------------- MODULE LocalImports ----------------------------
(***************************************************************************)
(* The loopback import helper (server/local_import_daemon.py): browser     *)
(* sessions, their jobs, one pool thread that downloads, and the cleanup   *)
(* of jobs whose session ended.  A cloud import keeps the id the cloud     *)
(* gave it, so the same id can be started again once its job is gone; a    *)
(* local import gets an id of its own.  Everything under the manager's     *)
(* lock is one step; what run_cloud does after its last locked section is  *)
(* not.                                                                    *)
(*                                                                         *)
(* An object k stands for one LocalJob; the jobs table maps ids to them.   *)
(***************************************************************************)
EXTENDS Naturals, Sequences, FiniteSets

CONSTANTS Sessions,   \* session keys, each paired at most once
          Clouds,     \* ids of cloud imports are 1..Clouds
          MaxObjects, \* bound on the jobs ever started
          MaxKept,    \* 8: jobs in the table
          Room        \* 200 MiB, in finished local files

Parameters == {Clouds, MaxObjects, MaxKept, Room} \subseteq Nat

VARIABLES session,   \* session -> new, live, stale (expired), over
          asking,    \* sessions with an authenticated request not yet served
          obj,       \* object -> id, owner, state, cancel, expired
          table,     \* id -> object, 0 for none (LocalImports.jobs)
          dir,       \* id -> object that made its directory, 0 for none
          queue,     \* objects submitted to the pool
          worker,    \* object the pool thread runs, 0 for none, and its step
          closing

vars == <<session, asking, obj, table, dir, queue, worker, closing>>

Objects == 1..MaxObjects
CloudIds == 1..Clouds
Ids == 1..(Clouds + MaxObjects)
NoObject == [id |-> 0, owner |-> 0, state |-> "none", cancel |-> FALSE, expired |-> FALSE]
Idle == [k |-> 0, step |-> "idle"]
Busy == {"downloading", "cancelling"}
IsCloud(k) == obj[k].id \in CloudIds

TypeOK ==
    /\ session \in [Sessions -> {"new", "live", "stale", "over"}] /\ asking \subseteq Sessions
    /\ \A k \in Objects : obj[k] = NoObject
         \/ obj[k] \in [id : Ids, owner : Sessions, cancel : BOOLEAN, expired : BOOLEAN,
                        state : Busy \cup {"ready", "failed", "cancelled"}]
    /\ table \in [Ids -> 0..MaxObjects] /\ dir \in [Ids -> 0..MaxObjects]
    /\ \A i \in Ids : table[i] # 0 => obj[table[i]].id = i
    /\ queue \in Seq(Objects)
    /\ worker \in [k : 0..MaxObjects, step : {"idle", "download", "rmtree", "pop"}]
    /\ closing \in {"no", "waiting", "closed"}

Init ==
    /\ session = [s \in Sessions |-> "new"] /\ asking = {}
    /\ obj = [k \in Objects |-> NoObject]
    /\ table = [i \in Ids |-> 0] /\ dir = [i \in Ids |-> 0]
    /\ queue = <<>> /\ worker = Idle /\ closing = "no"

Kept == {table[i] : i \in Ids} \ {0}

-----------------------------------------------------------------------------
(* Removal, revocation and the sweep, on the tables they change *)

Tables == [session |-> session, obj |-> obj, table |-> table, dir |-> dir]

NotStarted(t, k) == t.obj[k].state # "downloading"
Ended(t, k) == t.obj[k].state \notin Busy

\* remove: a job being downloaded is told to stop, any other one goes at once.
Removed(t, K) ==
    LET gone == {t.obj[k].id : k \in {j \in K : Ended(t, j)}} IN
    [t EXCEPT !.obj = [k \in Objects |-> IF k \notin K THEN t.obj[k]
                           ELSE [t.obj[k] EXCEPT !.cancel = TRUE,
                                                 !.state = IF @ \in Busy THEN "cancelling" ELSE @]],
              !.table = [i \in Ids |-> IF i \in gone THEN 0 ELSE t.table[i]],
              !.dir = [i \in Ids |-> IF i \in gone THEN 0 ELSE t.dir[i]]]

OwnedBy(t, S) == {k \in {t.table[i] : i \in Ids} \ {0} : t.obj[k].owner \in S}

\* revoke: the sessions end, and their jobs with them.
Revoked(t, S) == Removed([t EXCEPT !.session = [s \in Sessions |-> IF s \in S THEN "over" ELSE @[s]]],
                         OwnedBy(t, S))

\* sweep: expired sessions, jobs past their time, jobs of a session that is gone.
Swept(t) ==
    LET u == Revoked(t, {s \in Sessions : t.session[s] = "stale"}) IN
    Removed(u, OwnedBy(u, {s \in Sessions : u.session[s] = "over"})
               \cup {k \in OwnedBy(u, Sessions) : u.obj[k].expired})

Store(t) == session' = t.session /\ obj' = t.obj /\ table' = t.table /\ dir' = t.dir

-----------------------------------------------------------------------------
(* Requests *)

\* A tab that connects again replaces its previous session.
Pair(s) ==
    /\ closing = "no" /\ session[s] = "new"
    /\ \E old \in SUBSET {o \in Sessions : session[o] \in {"live", "stale"}} :
          /\ Cardinality(old) <= 1
          /\ LET t == Revoked(Swept(Tables), old) IN Store([t EXCEPT !.session[s] = "live"])
    /\ UNCHANGED <<asking, queue, worker, closing>>

\* Authentication comes first, under a lock of its own.
Authenticate(s) ==
    /\ session[s] = "live" /\ asking' = asking \cup {s}
    /\ UNCHANGED <<session, obj, table, dir, queue, worker, closing>>

Refuse(s, t) == /\ Store(t) /\ asking' = asking \ {s}
                /\ UNCHANGED <<queue, worker, closing>>

Accept(s, t, id, k) ==
    /\ LET o == [id |-> id, owner |-> s, state |-> "downloading", cancel |-> FALSE, expired |-> FALSE]
       IN Store([t EXCEPT !.obj[k] = o, !.table[id] = k, !.dir[id] = k])
    /\ queue' = Append(queue, k) /\ asking' = asking \ {s}
    /\ UNCHANGED <<worker, closing>>

Held(t) == {t.table[i] : i \in Ids} \ {0}
StartedOnly(t) == \E k \in Held(t) : t.obj[k].state = "downloading"
Downloading(t) == \E k \in Held(t) : t.obj[k].state \in Busy
Bytes(t) == Cardinality({k \in Held(t) : t.obj[k].state = "ready" /\ t.obj[k].id \notin CloudIds})
Unused == {k \in Objects : obj[k] = NoObject}
NextObject == CHOOSE k \in Unused : \A j \in Unused : k <= j

\* The same request of the same session returns its job: Refuse stands for every answer without a new job.
Start(s) ==
    LET t == Swept(Tables) IN
    /\ s \in asking
    /\ IF closing # "no" \/ Downloading(t) \/ Cardinality(Held(t)) >= MaxKept \/ Bytes(t) >= Room
       THEN Refuse(s, t)
       ELSE Unused # {} /\ Accept(s, t, Clouds + NextObject, NextObject)

\* A directory that is there already is refused too (mkdir fails).
StartCloud(s, id) ==
    LET t == Swept(Tables) IN
    /\ s \in asking
    /\ IF t.table[id] # 0 \/ t.dir[id] # 0 \/ closing # "no" \/ Downloading(t) \/ Cardinality(Held(t)) >= MaxKept
       THEN Refuse(s, t)
       ELSE Unused # {} /\ Accept(s, t, id, NextObject)

Delete(s, k) ==
    /\ s \in asking /\ k \in Kept /\ obj[k].owner = s
    /\ Refuse(s, Removed(Tables, {k}))

Disconnect(s) == s \in asking /\ Refuse(s, Revoked(Tables, {s}))

\* Also what a status or file request does first, and the cleanup task every ten seconds.
Sweep ==
    /\ closing = "no" /\ Store(Swept(Tables))
    /\ UNCHANGED <<asking, queue, worker, closing>>

-----------------------------------------------------------------------------
(* The pool thread *)

Begin ==
    /\ worker = Idle /\ queue # <<>>
    /\ worker' = [k |-> Head(queue), step |-> "download"] /\ queue' = Tail(queue)
    /\ UNCHANGED <<session, asking, obj, table, dir, closing>>

Settled(k, state) == obj' = [obj EXCEPT ![k].state = state]
CancelUnseen(k) == FALSE
Stopping(k) == obj[k].cancel \/ (IsCloud(k) /\ obj[k].expired)
Drop(f, id) == [f EXCEPT ![id] = 0]
LeftTree(id) == dir
RmTree(id) == Drop(dir, id)

\* run: the outcome and, in the same locked section, the cleanup of what is not ready.
\* (The two sections of the code have nothing but a log line between them that a removal could tell.)
FinishLocal ==
    LET k == worker.k IN
    /\ worker.step = "download" /\ ~IsCloud(k)
    /\ \/ /\ ~Stopping(k) /\ dir[obj[k].id] = k /\ Settled(k, "ready") /\ UNCHANGED <<dir, table>>
       \/ /\ Settled(k, IF obj[k].cancel THEN "cancelled" ELSE "failed")
          /\ dir' = RmTree(obj[k].id)
          /\ table' = IF obj[k].cancel THEN Drop(table, obj[k].id) ELSE table
    /\ worker' = Idle
    /\ UNCHANGED <<session, asking, queue, closing>>

\* run_cloud: the outcome under the lock, the directory after it, the table under it again.
FinishCloud ==
    LET k == worker.k IN
    /\ worker.step = "download" /\ IsCloud(k)
    /\ \/ ~Stopping(k) /\ dir[obj[k].id] = k /\ Settled(k, "ready")
       \/ Settled(k, IF obj[k].cancel THEN "cancelled" ELSE "failed")
    /\ worker' = [worker EXCEPT !.step = "rmtree"]
    /\ UNCHANGED <<session, asking, table, dir, queue, closing>>

RemoveDirectory ==
    /\ worker.step = "rmtree" /\ worker' = [worker EXCEPT !.step = "pop"]
    /\ dir' = RmTree(obj[worker.k].id)
    /\ UNCHANGED <<session, asking, obj, table, queue, closing>>

PopCancelled ==
    /\ worker.step = "pop" /\ worker' = Idle
    /\ table' = IF obj[worker.k].cancel THEN Drop(table, obj[worker.k].id) ELSE table
    /\ UNCHANGED <<session, asking, obj, dir, queue, closing>>

-----------------------------------------------------------------------------
(* Time, and the end of the helper *)

SessionExpires(s) ==
    /\ session[s] = "live" /\ session' = [session EXCEPT ![s] = "stale"]
    /\ UNCHANGED <<asking, obj, table, dir, queue, worker, closing>>

JobExpires(k) ==
    /\ obj[k] # NoObject /\ ~obj[k].expired /\ obj' = [obj EXCEPT ![k].expired = TRUE]
    /\ UNCHANGED <<session, asking, table, dir, queue, worker, closing>>

\* close: every job is told to stop and the queued ones never start.
CloseBegins ==
    /\ closing = "no" /\ closing' = "waiting" /\ queue' = <<>>
    /\ obj' = [k \in Objects |-> IF k \in Kept THEN [obj[k] EXCEPT !.cancel = TRUE] ELSE obj[k]]
    /\ UNCHANGED <<session, asking, table, dir, worker>>

NotAwaited == TRUE
ThreadDone == worker = Idle

CloseEnds ==
    /\ closing = "waiting" /\ ThreadDone /\ closing' = "closed"
    /\ dir' = [i \in Ids |-> 0]
    /\ UNCHANGED <<session, asking, obj, table, queue, worker>>

Work == Begin \/ FinishLocal \/ FinishCloud \/ RemoveDirectory \/ PopCancelled
Requests == \E s \in Sessions : \/ Pair(s) \/ Authenticate(s) \/ Start(s) \/ Disconnect(s)
                                \/ \E k \in Objects : Delete(s, k)
CloudRequests == \E s \in Sessions, id \in CloudIds : StartCloud(s, id)
\* A helper whose tabs import for themselves, and one that the cloud's pages use as well.
LocalNext == \/ Requests \/ Sweep \/ Work \/ CloseBegins \/ CloseEnds
             \/ (\E s \in Sessions : SessionExpires(s)) \/ \E k \in Objects : JobExpires(k)
Next == LocalNext \/ CloudRequests

Spec == Init /\ [][Next]_vars

-----------------------------------------------------------------------------
(* Properties *)

\* A job that was told to stop while it downloads does not become ready after all:
\* the last check and the outcome are one locked section (run, run_cloud).
CancelledNeverReady ==
    [][\A k \in Objects : obj[k].cancel /\ obj[k].state \in Busy => obj'[k].state # "ready"]_vars

\* No directory is left behind: it belongs to a job in the table, to the thread's
\* or to one that waits for it; a helper that closes removes what is left.
Waiting == {queue[j] : j \in 1..Len(queue)}
NoDirectoryLeftBehind ==
    closing = "no" => \A i \in Ids : dir[i] # 0 => dir[i] \in Kept \cup {worker.k} \cup Waiting

\* A closed helper runs nothing and keeps no file (close waits for the thread).
ClosedIsClean ==
    closing = "closed" => worker = Idle /\ queue = <<>> /\ \A i \in Ids : dir[i] = 0

\* One download at a time: a job is accepted only when the table has no other running one.
OneDownload == Cardinality({k \in Kept : obj[k].state \in Busy}) <= 1

\* "another tab's or account's connection cannot read or cancel it"
\* (docs/local-import-daemon.md:109): a job being downloaded stays in the table,
\* with its directory, until it ends itself or the helper closes.
Whole(k) == table[obj[k].id] = k /\ dir[obj[k].id] = k
Downloads(k) == obj[k].state \in Busy
JobsAreIsolated ==
    \A k \in Objects : Downloads(k) /\ closing # "closed" /\ ~IsCloud(k) => Whole(k)

\* A cloud import can lose its directory or its place in the table, but only to the
\* thread of an earlier job of the same id that settled, was removed, and is still
\* behind run_cloud's last locked section (local_import_daemon.py:198-201).
OvertakenOnlyByItsId ==
    [][\A k \in Objects : Downloads(k) /\ Whole(k) /\ ~Whole(k)' /\ Downloads(k)' /\ closing' # "closed"
        => worker.step \in {"rmtree", "pop"} /\ worker.k # k /\ obj[worker.k].id = obj[k].id]_vars
=============================================================================
