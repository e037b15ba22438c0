--------------------------- MODULE PublicSessions ---------------------------
(***************************************************************************)
(* Invited test sessions of one process (server/public_access.py): a login *)
(* makes a session and its own Service, a reaper closes the services of    *)
(* expired sessions that have nothing left to do, a restart brings back    *)
(* those that have.  Service itself is LocalScheduler; here a job of a     *)
(* session is pending until a running service ends it.                     *)
(***************************************************************************)
EXTENDS Integers, FiniteSets, Sequences

CONSTANTS Sessions,    \* digests of the tokens that will be drawn
          Requests,    \* authenticated requests
          Clients, None,
          Lifetime,    \* 24 hours
          MaxActive,   \* MAX_ACTIVE_SESSIONS
          MaxJobs,     \* jobs a session may register
          Limit, Window, MaxClients,   \* of ScopedRateLimiter
          MaxKills, MaxTime            \* bounds

VARIABLES now,
          up,        \* the process: up, closing, down
          sessions,  \* digest -> expiry in memory, 0 when unknown
          disk,      \* sessions.json
          told,      \* digest -> expiry its client was told
          service,   \* digest -> absent, running, closing
          made, pending,   \* digest -> jobs in its database, those not terminal
          login,     \* the login that holds the guard, or None
          sweep,     \* services cleanup_expired has yet to visit; None when it is not running
          holds,     \* request -> session whose service it holds, or None
          failed,    \* client -> times of its recent wrong codes
          kills

vars == <<now, up, sessions, disk, told, service, made, pending, login, sweep, holds, failed, kills>>

Parameters ==
    /\ IsFiniteSet(Sessions)
    /\ {Lifetime, MaxActive, MaxJobs, Limit, Window, MaxClients, MaxKills, MaxTime} \subseteq Nat
    /\ Lifetime > 0 /\ Limit > 0

Times == 0..(MaxTime + Lifetime)
Logins == [client : Clients, resume : Sessions \cup {None}, at : Times]

TypeOK ==
    /\ now \in 0..MaxTime /\ up \in {"up", "closing", "down"}
    /\ sessions \in [Sessions -> Times] /\ disk \in [Sessions -> Times] /\ told \in [Sessions -> Times]
    /\ service \in [Sessions -> {"absent", "running", "closing"}]
    /\ made \in [Sessions -> 0..MaxJobs] /\ pending \in [Sessions -> 0..MaxJobs]
    /\ login \in Logins \cup {None} /\ sweep \in (SUBSET Sessions) \cup {None}
    /\ holds \in [Requests -> Sessions \cup {None}]
    /\ failed \in [Clients -> UNION {[1..n -> Times] : n \in 0..Limit}] /\ kills \in 0..MaxKills

Init ==
    /\ now = 0 /\ up = "up" /\ sessions = [d \in Sessions |-> 0] /\ disk = sessions /\ told = sessions
    /\ service = [d \in Sessions |-> "absent"] /\ made = sessions /\ pending = sessions
    /\ login = None /\ sweep = None /\ holds = [r \in Requests |-> None]
    /\ failed = [c \in Clients |-> <<>>] /\ kills = 0

GuardFree == login = None /\ sweep = None
Running == {d \in Sessions : service[d] = "running"}

\* ScopedRateLimiter: the failures of a client inside the window, those before it
\* at the head of its queue, and the client whose last failure is oldest forgotten
\* when too many are known.
Left(c) == Cardinality({n \in DOMAIN failed[c] : failed[c][n] <= now - Window})
Recent(c) == SubSeq(failed[c], Left(c) + 1, Len(failed[c]))
Known(f) == {c \in Clients : f[c] # <<>>}
Forgotten(f) ==
    IF Cardinality(Known(f)) <= MaxClients THEN {f}
    ELSE {[f EXCEPT ![c] = <<>>] :
              c \in {k \in Known(f) : \A o \in Known(f) : f[k][Len(f[k])] <= f[o][Len(f[o])]}}
LastOf(s) == IF Len(s) > Limit THEN Tail(s) ELSE s

\* A login takes the guard; a client over its limit, or a wrong code, ends it.
LoginBegins(c) ==
    /\ up = "up" /\ GuardFree /\ Len(Recent(c)) < Limit
    /\ \/ /\ \E f \in Forgotten([failed EXCEPT ![c] = LastOf(Append(Recent(c), now))]) : failed' = f
          /\ UNCHANGED <<login, sweep>>
       \/ \E d \in {d \in Sessions : told[d] > 0} \cup {None} :
              /\ login' = [client |-> c, resume |-> d, at |-> now]
              /\ failed' = [failed EXCEPT ![c] = <<>>] /\ sweep' = Running
    /\ UNCHANGED <<now, up, sessions, disk, told, service, made, pending, holds, kills>>

ReaperBegins ==
    /\ up = "up" /\ GuardFree /\ sweep' = Running
    /\ UNCHANGED <<now, up, sessions, disk, told, service, made, pending, login, holds, failed, kills>>

\* Only the expired session with nothing left to do is closed: looked at under
\* the service's own guard, closed after it.
AlwaysIdle(d) == TRUE
Idle(d) == pending[d] = 0
Expired(d) == sessions[d] <= now
Visit(d) ==
    /\ sweep # None /\ d \in sweep /\ service[d] = "running"
    /\ IF Expired(d) /\ Idle(d) THEN service' = [service EXCEPT ![d] = "closing"] /\ UNCHANGED sweep
       ELSE sweep' = sweep \ {d} /\ UNCHANGED service
    /\ UNCHANGED <<now, up, sessions, disk, told, made, pending, login, holds, failed, kills>>

Closed(d) ==
    /\ sweep # None /\ d \in sweep /\ service[d] = "closing"
    /\ service' = [service EXCEPT ![d] = "absent"] /\ sweep' = sweep \ {d}
    /\ UNCHANGED <<now, up, sessions, disk, told, made, pending, login, holds, failed, kills>>

\* The pass is over, or a locked database ends it: the reaper tries again
\* later, a login fails.
SweepEnds ==
    /\ sweep # None /\ \A d \in Sessions : service[d] # "closing"
    /\ login = None \/ sweep # {}
    /\ sweep' = None /\ login' = None
    /\ UNCHANGED <<now, up, sessions, disk, told, service, made, pending, holds, failed, kills>>

WithService(d) == [service EXCEPT ![d] = IF @ = "absent" THEN "running" ELSE @]

Resume ==
    /\ login # None /\ sweep = {} /\ login.resume # None
    /\ service' = IF sessions[login.resume] > login.at THEN WithService(login.resume) ELSE service
    /\ login' = None /\ sweep' = None
    /\ UNCHANGED <<now, up, sessions, disk, told, made, pending, holds, failed, kills>>

ActiveAt(t) == Cardinality({d \in Sessions : sessions[d] > t})
HasRoomAlways == TRUE
HasRoom == ActiveAt(login.at) < MaxActive
Unsaved(memory) == disk
Saved(memory) == memory

Undrawn == {d \in Sessions : sessions[d] = 0 /\ disk[d] = 0}   \* Sessions bounds the logins

\* A new session: in memory, in the file, its service, and then the answer; a
\* failed write or a failed start leaves the session without an answer.
Create ==
    /\ login # None /\ sweep = {} /\ login.resume = None
    /\ IF ~HasRoom \/ Undrawn = {} THEN UNCHANGED <<sessions, disk, told, service>>
       ELSE \E d \in Undrawn :
                LET memory == [sessions EXCEPT ![d] = login.at + Lifetime] IN
                /\ sessions' = memory
                /\ \/ /\ disk' = Saved(memory) /\ service' = WithService(d)
                      /\ told' = [told EXCEPT ![d] = login.at + Lifetime]
                   \/ disk' = Saved(memory) /\ UNCHANGED <<service, told>>
                   \/ UNCHANGED <<disk, service, told>>
    /\ login' = None /\ sweep' = None
    /\ UNCHANGED <<now, up, made, pending, holds, failed, kills>>

\* A request gets its session's service, and uses it when the guard is free again.
Authenticate(r, d) ==
    /\ up # "down" /\ GuardFree /\ told[d] > 0 /\ holds[r] = None
    /\ IF Expired(d) THEN UNCHANGED <<service, holds>>
       ELSE service' = WithService(d) /\ holds' = [holds EXCEPT ![r] = d]
    /\ UNCHANGED <<now, up, sessions, disk, told, made, pending, login, sweep, failed, kills>>

CreateJob(r) ==
    /\ holds[r] # None /\ holds' = [holds EXCEPT ![r] = None]
    /\ LET d == holds[r] IN
       IF made[d] >= MaxJobs THEN UNCHANGED <<made, pending>>
       ELSE made' = [made EXCEPT ![d] = @ + 1] /\ pending' = [pending EXCEPT ![d] = @ + 1]
    /\ UNCHANGED <<now, up, sessions, disk, told, service, login, sweep, failed, kills>>

JobEnds(d) ==
    /\ service[d] = "running" /\ pending[d] > 0
    /\ pending' = [pending EXCEPT ![d] = @ - 1]
    /\ UNCHANGED <<now, up, sessions, disk, told, service, made, login, sweep, holds, failed, kills>>

-----------------------------------------------------------------------------
ClosingBegins ==
    /\ up = "up" /\ up' = "closing"
    /\ UNCHANGED <<now, sessions, disk, told, service, made, pending, login, sweep, holds, failed, kills>>

Gone(reason) ==
    /\ up' = "down" /\ service' = [d \in Sessions |-> "absent"] /\ login' = None /\ sweep' = None
    /\ holds' = [r \in Requests |-> None] /\ failed' = [c \in Clients |-> <<>>]
    /\ sessions' = [d \in Sessions |-> 0] /\ kills' = kills + reason
    /\ UNCHANGED <<now, disk, told, made, pending>>

ClosingEnds == up = "closing" /\ GuardFree /\ Gone(0)
Kill == up # "down" /\ kills < MaxKills /\ Gone(1)

OnlyUnexpired(d) == disk[d] > now
Restored(d) == disk[d] > 0 /\ (disk[d] > now \/ pending[d] > 0)
Start ==
    /\ up = "down" /\ up' = "up" /\ sessions' = disk
    /\ service' = [d \in Sessions |-> IF Restored(d) THEN "running" ELSE "absent"]
    /\ UNCHANGED <<now, disk, told, made, pending, login, sweep, holds, failed, kills>>

Tick ==
    /\ now < MaxTime /\ now' = now + 1
    /\ UNCHANGED <<up, sessions, disk, told, service, made, pending, login, sweep, holds, failed, kills>>

Cleanup(d) == Visit(d) \/ Closed(d)
Serving == SweepEnds \/ Resume \/ Create

Next ==
    \/ \E c \in Clients : LoginBegins(c)
    \/ ReaperBegins \/ Serving
    \/ \E d \in Sessions : Cleanup(d) \/ JobEnds(d)
    \/ \E r \in Requests : CreateJob(r) \/ \E d \in Sessions : Authenticate(r, d)
    \/ ClosingBegins \/ ClosingEnds \/ Kill \/ Start \/ Tick

Spec == Init /\ [][Next]_vars

-----------------------------------------------------------------------------
(* What a client was told is what the server knows, also after a kill at   *)
(* any point: a session is saved before its token is handed out.           *)
ToldIsKept == up # "down" => \A d \in Sessions : told[d] > 0 => sessions[d] = told[d] /\ disk[d] = told[d]

(* Closing idle services never closes one that a registered job waits for, *)
(* however logins, the reaper and the requests interleave.                 *)
CleanupSparesWork ==
    [][\A d \in Sessions : service[d] = "running" /\ service'[d] = "closing" => pending[d] = 0]_vars

(* Pending work is preserved over a restart: every session with work that  *)
(* is left has its service when the process is up again.                   *)
WorkIsRestored ==
    [][up = "down" /\ up' = "up" => \A d \in Sessions : pending[d] > 0 => service'[d] = "running"]_vars

(* The sessions that are valid at once stay within their limit, those that *)
(* failed half way included.                                               *)
SessionsBounded == Cardinality({d \in Sessions : sessions[d] > now}) <= MaxActive
=============================================================================
