------------------------------- MODULE Restore -------------------------------
(***************************************************************************)
(* Backup and restore of the database (deploy/commercial/ops.py).  A backup*)
(* takes its counts and its dump from one snapshot while the service goes  *)
(* on writing; a restore loads the dump into an empty database and then,   *)
(* in a transaction of its own, settles what was running and discards what *)
(* must not live again.  Either may be killed between two steps.           *)
(***************************************************************************)
EXTENDS FiniteSets, Integers

CONSTANTS Jobs, Logins, Imports,
          Files,      \* names of backups
          Restores,   \* runs of the restore command, at the same destination
          None, MaxKills

VARIABLES source,    \* what the service's database holds
          backup,    \* file -> step, snapshot, counts, dump
          dest,      \* what the destination holds, or None while it is empty
          lock,      \* holder of the advisory lock of the destination
          at,        \* restore run -> step
          from,      \* restore run -> file
          kills

vars == <<source, backup, dest, lock, at, from, kills>>

Held == {"starting", "streaming", "stopping"}
JobStates == {"absent", "queued", "ended", "interrupted"} \cup Held
Contents == [jobs : [Jobs -> JobStates], sessions : SUBSET Logins,
             imports : [Imports -> {"open", "completed", "cancelled"}],
             workers : BOOLEAN]      \* runtimes not cleaned up, and heartbeats

Parameters == None \notin Contents \cup Restores /\ MaxKills \in Nat

BackupSteps == {"absent", "snapshot", "counted", "dumping", "dumped", "complete"}

TypeOK ==
    /\ source \in Contents /\ dest \in Contents \cup {None} /\ kills \in 0..MaxKills
    /\ backup \in [Files -> [at : BackupSteps, moment : Contents \cup {None}, counts : Contents \cup {None},
                             dump : Contents \cup {None}, damaged : BOOLEAN]]
    /\ lock \in Restores \cup {None} /\ from \in [Restores -> Files \cup {None}]
    /\ at \in [Restores -> {"idle", "checked", "locked", "loading", "orphaned", "loaded", "restored", "refused",
                          "killed"}]

NoBackup == [at |-> "absent", moment |-> None, counts |-> None, dump |-> None, damaged |-> FALSE]

Init ==
    /\ source = [jobs |-> [j \in Jobs |-> "absent"], sessions |-> {}, imports |-> [m \in Imports |-> "open"],
                 workers |-> FALSE]
    /\ backup = [f \in Files |-> NoBackup] /\ dest = None /\ lock = None
    /\ at = [r \in Restores |-> "idle"] /\ from = [r \in Restores |-> None] /\ kills = 0

-----------------------------------------------------------------------------
\* The service goes on (JobRepository, Accounts and DeviceImports in detail).
After(state) ==
    CASE state = "absent" -> {"queued"} [] state = "queued" -> {"starting", "ended"}
      [] state = "starting" -> {"streaming", "stopping", "ended"} [] state = "streaming" -> {"stopping", "ended"}
      [] state = "stopping" -> {"ended"} [] OTHER -> {}

ServiceWrites ==
    /\ \/ \E j \in Jobs : \E s \in After(source.jobs[j]) :
              source' = [source EXCEPT !.jobs[j] = s, !.workers = TRUE]
       \/ \E l \in Logins : source' = [source EXCEPT !.sessions = @ \cup {l}]
       \/ \E m \in Imports : source.imports[m] = "open" /\ source' = [source EXCEPT !.imports[m] = "completed"]
    /\ UNCHANGED <<backup, dest, lock, at, from, kills>>

-----------------------------------------------------------------------------
\* Neither the dump nor its manifest may exist; the reading transaction exports
\* its snapshot, and everything after is read in it.
Now(b) == source
InSnapshot(b) == b.moment

Export(f) ==
    /\ backup[f].at = "absent"
    /\ backup' = [backup EXCEPT ![f].at = "snapshot", ![f].moment = source]
    /\ UNCHANGED <<source, dest, lock, at, from, kills>>

Count(f) ==
    /\ backup[f].at = "snapshot"
    /\ backup' = [backup EXCEPT ![f].at = "counted", ![f].counts = InSnapshot(backup[f])]
    /\ UNCHANGED <<source, dest, lock, at, from, kills>>

\* pg_dump reads in the exported snapshot; a dump that fails is removed.
Dump(f) ==
    /\ backup[f].at = "counted"
    /\ \/ backup' = [backup EXCEPT ![f].at = "dumped", ![f].dump = InSnapshot(backup[f])]
       \/ backup' = [backup EXCEPT ![f] = NoBackup]
    /\ UNCHANGED <<source, dest, lock, at, from, kills>>

Manifest(f) ==
    /\ backup[f].at = "dumped" /\ backup' = [backup EXCEPT ![f].at = "complete"]
    /\ UNCHANGED <<source, dest, lock, at, from, kills>>

\* A killed backup leaves no dump, part of one, or one without a manifest.
BackupKilled(f) ==
    /\ kills < MaxKills /\ kills' = kills + 1 /\ backup[f].at \in {"snapshot", "counted", "dumped"}
    /\ \/ backup' = [backup EXCEPT ![f] = NoBackup]
       \/ backup[f].at # "snapshot" /\ backup' = [backup EXCEPT ![f].at = "dumping"]
    /\ UNCHANGED <<source, dest, lock, at, from>>

\* What was stored may rot, or be mistaken for another, before it is needed
\* (but not in the minutes of a restore that reads it).
Damage(f) ==
    /\ backup[f].at = "complete" /\ kills < MaxKills /\ kills' = kills + 1
    /\ \A r \in Restores : from[r] = f => at[r] \in {"restored", "refused", "killed"}
    /\ backup' = [backup EXCEPT ![f].damaged = TRUE, ![f].dump = source]
    /\ UNCHANGED <<source, dest, lock, at, from>>

-----------------------------------------------------------------------------
Step(r, step) == at' = [at EXCEPT ![r] = step]

AnyDump(b) == TRUE
Genuine(b) == ~b.damaged     \* its hash is the manifest's

\* Manifest and hash; without a manifest, or with another hash, it ends here.
Examine(r, f) ==
    /\ at[r] = "idle"
    /\ Step(r, IF backup[f].at = "complete" /\ Genuine(backup[f]) THEN "checked" ELSE "refused")
    /\ from' = [from EXCEPT ![r] = f]
    /\ UNCHANGED <<source, backup, dest, lock, kills>>

Lock(r) ==
    /\ at[r] = "checked" /\ lock = None /\ lock' = r /\ Step(r, "locked")
    /\ UNCHANGED <<source, backup, dest, from, kills>>

\* Only a fresh, empty database.
LookAt(r) ==
    /\ at[r] = "locked"
    /\ IF dest = None THEN Step(r, "loading") /\ UNCHANGED lock
       ELSE Step(r, "refused") /\ lock' = None
    /\ UNCHANGED <<source, backup, dest, from, kills>>

\* One transaction: all of the dump or nothing, and nothing where its objects are
\* already there.  Given up for late, it may still have committed.
Fill(r) == dest = None /\ dest' = backup[from[r]].dump

Load(r) ==
    /\ at[r] = "loading"
    /\ \/ Fill(r) /\ Step(r, "loaded") /\ UNCHANGED lock
       \/ (Fill(r) \/ UNCHANGED dest) /\ Step(r, "refused") /\ lock' = None
    /\ UNCHANGED <<source, backup, from, kills>>

\* summary: the rows of each table and the jobs in each state, not the rows.
Summary(c) ==
    [jobs |-> [s \in JobStates |-> Cardinality({j \in Jobs : c.jobs[j] = s})],
     sessions |-> Cardinality(c.sessions), imports |-> Cardinality(Imports)]

OnlyStreaming == {"starting", "streaming"}
Interrupted == Held

\* The loaded database, verified against the manifest, made safe to start.
Settled(c) ==
    [jobs |-> [j \in Jobs |-> IF c.jobs[j] \in Interrupted THEN "interrupted" ELSE c.jobs[j]],
     sessions |-> {},
     imports |-> [m \in Imports |-> IF c.imports[m] = "completed" THEN "completed" ELSE "cancelled"],
     workers |-> FALSE]

Settle(r) ==
    /\ at[r] = "loaded" /\ lock' = None
    /\ \/ Summary(dest) = Summary(backup[from[r]].counts) /\ dest' = Settled(dest) /\ Step(r, "restored")
       \/ Step(r, "refused") /\ UNCHANGED dest
    /\ UNCHANGED <<source, backup, from, kills>>

\* The lock belongs to the connection and goes with it; the loader is a process of
\* its own and may outlive the command.
RestoreKilled(r) ==
    /\ kills < MaxKills /\ kills' = kills + 1 /\ at[r] \in {"checked", "locked", "loading", "loaded"}
    /\ Step(r, "killed") \/ (at[r] = "loading" /\ Step(r, "orphaned"))
    /\ lock' = IF lock = r THEN None ELSE lock
    /\ UNCHANGED <<source, backup, dest, from>>

OrphanLoads(r) ==
    /\ at[r] = "orphaned" /\ (Fill(r) \/ UNCHANGED dest) /\ Step(r, "killed")
    /\ UNCHANGED <<source, backup, lock, from, kills>>

Next ==
    \/ ServiceWrites
    \/ \E f \in Files : Export(f) \/ Count(f) \/ Dump(f) \/ Manifest(f) \/ BackupKilled(f) \/ Damage(f)
    \/ \E r \in Restores :
           \/ Lock(r) \/ LookAt(r) \/ Load(r) \/ Settle(r) \/ RestoreKilled(r) \/ OrphanLoads(r)
           \/ \E f \in Files : Examine(r, f)

Spec == Init /\ [][Next]_vars

-----------------------------------------------------------------------------
(* A restore that reports success left exactly one past moment of the      *)
(* service behind: queued work and everything that had ended as they were  *)
(* then, nothing that runs, no session and no open transfer.               *)
RestoredIsOneMoment ==
    \A r \in Restores : at[r] = "restored" =>
        LET then == backup[from[r]].moment IN
        /\ \A j \in Jobs : then.jobs[j] \in {"absent", "queued", "ended"} => dest.jobs[j] = then.jobs[j]
        /\ \A j \in Jobs : dest.jobs[j] \notin Held
        /\ dest.sessions = {} /\ ~dest.workers
        /\ \A m \in Imports : /\ dest.imports[m] # "open"
                              /\ (dest.imports[m] = "completed" <=> then.imports[m] = "completed")

(* Two restores into the same database, one of them perhaps dead half way  *)
(* with its loader still at work, never write over each other: what one of *)
(* them loaded, only it settles.                                           *)
LoadedOnce == Cardinality({r \in Restores : at[r] \in {"loaded", "restored"}}) <= 1
=============================================================================
