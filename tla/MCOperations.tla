----------------------------- MODULE MCOperations -----------------------------
(* What keeps the service running, small enough for TLC: the alerts about the *)
(* proxy's quota and about the service, the public test server, releases,     *)
(* backups with their restores, and the sweep that admits a reservation.      *)
(* They do not share state: `part` picks, once, the one whose steps are taken *)
(* and the variables of the others stay as they are.  Prefixes tell apart     *)
(* variables of the same name: q for the quota, u for the public sessions, l  *)
(* for releases and r for restores.                                           *)
EXTENDS OperationsOutbox, Sequences, TLC

CONSTANTS Processes,    \* ticks or restores that overlap; collectors are as many
          None,
          NoticeLease, Budget, QuotaTime, MaxNotices,
          Sessions, Requests, Clients, Lifetime, MaxActive, MaxJobs, Limit, Window, MaxClients,
          PublicKills, PublicTime,
          Order, MaxOutside,
          Jobs, SignIns, Imports, Files, RestoreKills,
          Rows, Others, SweepTime, MaxBatch, GlobalConcurrency, TenantConcurrency

VARIABLES part,
          qNow, observed, fired, pending, qCreated, pc, reading, notice, delivered, excused, emitted,
          uNow, up, sessions, disk, told, service, made, uPending, login, sweep, holds, failed, kills,
          lAt, i, alias, before, staged, touched, restored, underway, late, report, head, outside,
          source, backup, dest, lock, at, from, rKills,
          stored, window, batch, admitted, scope, points, count, verdict

quota == <<qNow, observed, fired, pending, qCreated, pc, reading, notice, delivered, excused, emitted>>
public == <<uNow, up, sessions, disk, told, service, made, uPending, login, sweep, holds, failed, kills>>
release == <<lAt, i, alias, before, staged, touched, restored, underway, late, report, head, outside>>
restore == <<source, backup, dest, lock, at, from, rKills>>
capacity == <<stored, window, batch, admitted, scope, points, count, verdict>>
every == <<part, vars, quota, public, release, restore, capacity>>

Quota == INSTANCE ProxyQuota WITH
    Ticks <- Processes, Lease <- NoticeLease, MaxTime <- QuotaTime, now <- qNow, created <- qCreated

Public == INSTANCE PublicSessions WITH
    MaxKills <- PublicKills, MaxTime <- PublicTime, now <- uNow, pending <- uPending

Rollout == INSTANCE Release WITH at <- lAt

Recovery == INSTANCE Restore WITH
    Logins <- SignIns, Restores <- Processes, MaxKills <- RestoreKills, kills <- rKills

Capacity == INSTANCE CapacitySweep WITH MaxTime <- SweepTime

\* The roles in the order of PROJECTS.
ApiThenWeb == <<"api", "web">>

ASSUME PartsAssumption ==
    /\ Quota!Parameters /\ Public!Parameters /\ Rollout!Parameters
    /\ Recovery!Parameters /\ Capacity!Parameters

Off == "off"
EachInit ==
        /\ part \in {"quota", "alerts", "public", "release", "restore", "capacity"}
        /\ Quota!Init /\ Init /\ Public!Init /\ Rollout!Init /\ Recovery!Init
        /\ IF part = "capacity" THEN Capacity!Init
           ELSE /\ stored = Off /\ window = Off /\ batch = Off /\ admitted = Off
                /\ scope = Off /\ points = Off /\ count = Off /\ verdict = Off

EachNext ==
    /\ part' = part
    /\ \/ part = "quota" /\ Quota!Next /\ UNCHANGED <<vars, public, release, restore, capacity>>
       \/ part = "alerts" /\ Next /\ UNCHANGED <<quota, public, release, restore, capacity>>
       \/ part = "public" /\ Public!Next /\ UNCHANGED <<quota, vars, release, restore, capacity>>
       \/ part = "release" /\ Rollout!Next /\ UNCHANGED <<quota, vars, public, restore, capacity>>
       \/ part = "restore" /\ Recovery!Next /\ UNCHANGED <<quota, vars, public, release, capacity>>
       \/ part = "capacity" /\ Capacity!Next /\ UNCHANGED <<quota, vars, public, release, restore>>

EachSpec == EachInit /\ [][EachNext]_every

Symmetry == Permutations(Processes) \cup Permutations(Collectors)

-----------------------------------------------------------------------------
\* However ticks overlap, a notice about the proxy's quota is raised once per
\* episode, is about the present, and is sent twice only when an acknowledgement
\* was lost (ProxyQuota).
NoticesSentOnce ==
    /\ Quota!AnnouncedOncePerEpisode
    /\ [](Quota!TypeOK /\ Quota!OneCurrentNotice /\ Quota!SentOnceUnlessExcused)

\* There is a way back.  A public server that is killed at any point keeps what it
\* promised: a session its client was told of, the service of every session with
\* work, and its limit.  A release leaves no candidate in production that its report
\* does not name, unless it was killed while it wrote it, and a report of a rollback
\* or of success is true but for promotions that land later.  A restore that reports
\* success left one past moment of the service, loaded once (PublicSessions, Release,
\* Restore).
AWayBack ==
    /\ Public!WorkIsRestored /\ Public!CleanupSparesWork
    /\ [](/\ Public!TypeOK /\ Public!ToldIsKept /\ Public!SessionsBounded
          /\ Rollout!TypeOK /\ Rollout!CandidateIsOnRecord /\ Rollout!ReportIsTrue
          /\ Recovery!TypeOK /\ Recovery!RestoredIsOneMoment /\ Recovery!LoadedOnce)

\* The sweep admits a request exactly when every instant of its window has room
\* for it (CapacitySweep.SweepIsExact).
SweepIsExact == part = "capacity" => Capacity!SweepIsExact
=============================================================================
