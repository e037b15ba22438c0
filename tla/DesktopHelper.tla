---------------------------- MODULE DesktopHelper ----------------------------
(***************************************************************************)
(* The installed helper on a user's computer (desktop/helper.py): starts   *)
(* of --serve (login, the web's start button, the installer) that compete  *)
(* for one port and one control file, and installers and uninstallers that *)
(* stop the running helper through that file and replace its directory.    *)
(* Any process may be killed between two steps.                            *)
(***************************************************************************)
EXTENDS Naturals, FiniteSets

CONSTANTS Starts,      \* processes started with --serve
          Installs, Uninstalls,
          Nobody,
          MaxKills     \* bound on killed processes

Parameters ==
    /\ MaxKills \in Nat /\ Nobody \notin Starts
    /\ Starts \cap (Installs \cup Uninstalls) = {} /\ Installs \cap Uninstalls = {}

VARIABLES at,        \* process -> its step
          port,      \* process that listens, or Nobody
          control,   \* process whose key the control file holds, or Nobody
          asked,     \* installer -> helper that accepted its stop request
          target, staging, backup,   \* directories: none, partial, whole
          removed,   \* the user has uninstalled it
          kills

vars == <<at, port, control, asked, target, staging, backup, removed, kills>>
files == <<target, staging, backup, removed>>

Tools == Installs \cup Uninstalls
Over == {"done", "refused", "killed"}

TypeOK ==
    /\ at \in [Starts \cup Tools -> {"idle", "preparing", "bind", "serving", "draining", "closing", "unlink",
                                      "wait", "copy", "copying", "check", "swap1", "swap2", "tidy", "remove"} \cup Over]
    /\ port \in Starts \cup {Nobody} /\ control \in Starts \cup {Nobody}
    /\ port # Nobody => at[port] = "serving"
    /\ asked \in [Tools -> Starts \cup {Nobody}]
    /\ target \in {"none", "whole"} /\ staging \in {"none", "partial", "whole"} /\ backup \in {"none", "whole"}
    /\ removed \in BOOLEAN /\ kills \in 0..MaxKills

Init ==
    /\ at = [p \in Starts \cup Tools |-> "idle"] /\ port = Nobody /\ control = Nobody
    /\ asked = [o \in Tools |-> Nobody]
    /\ target = "whole" /\ staging = "none" /\ backup = "none" /\ removed = FALSE /\ kills = 0

Go(p, step) == at' = [at EXCEPT ![p] = step]
Occupied == port # Nobody

-----------------------------------------------------------------------------
(* serve *)

\* The port is only looked at; the media tools are tried out before it is bound.
Start(p) ==
    /\ at[p] = "idle" /\ target = "whole"
    /\ Go(p, IF Occupied THEN "done" ELSE "preparing")
    /\ UNCHANGED <<port, control, asked, files, kills>>

WriteKey(p) ==
    /\ at[p] = "preparing" /\ control' = p /\ Go(p, "bind")
    /\ UNCHANGED <<port, asked, files, kills>>

\* A start that finds the port taken now goes straight to its cleanup.
Bind(p) ==
    /\ at[p] = "bind"
    /\ IF Occupied THEN Go(p, "closing") /\ UNCHANGED port ELSE Go(p, "serving") /\ port' = p
    /\ UNCHANGED <<control, asked, files, kills>>

Released == Nobody

\* The server stops listening first and ends its application after that.
StopListening(p) ==
    /\ at[p] = "serving" /\ \E o \in Tools : asked[o] = p
    /\ port' = Released /\ Go(p, "draining")
    /\ UNCHANGED <<control, asked, files, kills>>

\* The download is told to stop and waited for.
Drained(p) ==
    /\ at[p] = "draining" /\ Go(p, "closing")
    /\ UNCHANGED <<port, control, asked, files, kills>>

KeyKept(p) == FALSE
OwnKey(p) == control = p

CompareKey(p) ==
    /\ at[p] = "closing" /\ Go(p, IF OwnKey(p) THEN "unlink" ELSE "done")
    /\ UNCHANGED <<port, control, asked, files, kills>>

UnlinkKey(p) ==
    /\ at[p] = "unlink" /\ control' = Nobody /\ Go(p, "done")
    /\ UNCHANGED <<port, asked, files, kills>>

-----------------------------------------------------------------------------
(* stop_installed, install, uninstall *)

Begin(o) == IF o \in Installs THEN "copy" ELSE "remove"

\* No control file: a development helper, not ours to stop.  Another's key: refused.
Ask(o) ==
    /\ at[o] = "idle"
    /\ IF ~Occupied THEN Go(o, Begin(o)) /\ UNCHANGED asked
       ELSE IF control = port THEN Go(o, "wait") /\ asked' = [asked EXCEPT ![o] = port]
       ELSE Go(o, "refused") /\ UNCHANGED asked
    /\ UNCHANGED <<port, control, files, kills>>

\* Polled a hundred times.
Wait(o) ==
    /\ at[o] = "wait"
    /\ \/ ~Occupied /\ Go(o, Begin(o))
       \/ Occupied /\ Go(o, "refused")
    /\ UNCHANGED <<port, control, asked, files, kills>>

\* Into a directory of its own, which no other install may have left there.
Copy(o) ==
    /\ at[o] = "copy"
    /\ \/ staging = "none" /\ staging' = "partial" /\ Go(o, "copying")
       \/ staging # "none" /\ Go(o, "refused") /\ UNCHANGED staging
    /\ UNCHANGED <<port, control, asked, target, backup, removed, kills>>

Copied(o) ==
    /\ at[o] = "copying" /\ staging' = "whole" /\ Go(o, "check")
    /\ UNCHANGED <<port, control, asked, target, backup, removed, kills>>

Present(d) == TRUE
Absent(d) == d = "none"

CheckBackup(o) ==
    /\ at[o] = "check" /\ Go(o, IF Absent(backup) THEN "swap1" ELSE "refused")
    /\ UNCHANGED <<port, control, asked, files, kills>>

SetAside(o) ==
    /\ at[o] = "swap1" /\ Go(o, "swap2")
    /\ IF target = "none" THEN UNCHANGED <<target, backup>> ELSE backup' = target /\ target' = "none"
    /\ UNCHANGED <<port, control, asked, staging, removed, kills>>

NotRestored == UNCHANGED <<target, backup>>
Restored == IF backup # "none" /\ target = "none" THEN target' = backup /\ backup' = "none"
            ELSE UNCHANGED <<target, backup>>

\* The second rename may fail: the previous installation is put back.
PutInPlace(o) ==
    /\ at[o] = "swap2"
    /\ \/ /\ staging = "whole" /\ target = "none" /\ Go(o, "tidy")
          /\ target' = staging /\ staging' = "none" /\ removed' = FALSE /\ UNCHANGED backup
       \/ Restored /\ Go(o, "refused") /\ UNCHANGED <<staging, removed>>
    /\ UNCHANGED <<port, control, asked, kills>>

DropBackup(o) ==
    /\ at[o] = "tidy" /\ backup' = "none" /\ Go(o, "done")
    /\ UNCHANGED <<port, control, asked, target, staging, removed, kills>>

Remove(o) ==
    /\ at[o] = "remove" /\ Go(o, "done")
    /\ target' = "none" /\ removed' = TRUE /\ control' = Nobody
    /\ UNCHANGED <<port, asked, staging, backup, kills>>

Kill(p) ==
    /\ at[p] \notin Over \cup {"idle"} /\ kills < MaxKills /\ kills' = kills + 1
    /\ Go(p, "killed") /\ port' = IF port = p THEN Nobody ELSE port
    /\ UNCHANGED <<control, asked, files>>

Serve(p) == Start(p) \/ WriteKey(p) \/ Bind(p) \/ StopListening(p) \/ Drained(p) \/ CompareKey(p) \/ UnlinkKey(p)
Tool(o) == Ask(o) \/ Wait(o) \/ Copy(o) \/ Copied(o) \/ CheckBackup(o) \/ SetAside(o) \/ PutInPlace(o)
           \/ DropBackup(o) \/ Remove(o)
Next == (\E p \in Starts : Serve(p) \/ Kill(p)) \/ (\E o \in Tools : Tool(o) \/ Kill(o))

Spec == Init /\ [][Next]_vars

-----------------------------------------------------------------------------
(* Properties *)

\* "Copy completely before replacing the prior installation": unless the user removed it,
\* a whole installation is in place or set aside, at whatever step a process is killed,
\* a rename fails or a second install runs.  (Not when an uninstall comes between two
\* overlapping installs: the first then deletes what the second set aside.)
AnInstallationSurvives == removed \/ target = "whole" \/ backup = "whole"

\* An installer that is told no leaves the installation where it was; only a killed one,
\* or one in the middle of its two renames, leaves the target empty.
RefusedKeepsTarget ==
    target = "none" /\ ~removed => \E o \in Installs : at[o] \in {"swap2", "killed"}

\* Helpers that end by themselves leave no key behind, whichever of them got the port.
NoKeyLeftBehind ==
    (\A p \in Starts : at[p] \in {"idle", "done"}) => control = Nobody
=============================================================================
