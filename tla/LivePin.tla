------------------------------- MODULE LivePin -------------------------------
(***************************************************************************)
(* The platform test inside a VM (scripts/platform-live-preview.py): one   *)
(* coordinator per machine claims jobs, pins the destination of a live     *)
(* stream in /etc/hosts through a privileged helper with a journal, and    *)
(* takes the pin out again.  The machine's owner edits the file too; a     *)
(* process may be killed between any two writes.                           *)
(***************************************************************************)
EXTENDS Naturals, FiniteSets

CONSTANTS Launches, Nobody,
          Edits,                       \* the owner's edits, each made at most once
          HostEdits,                   \* those that are a line of the pinned host
          MaxJobs, MaxKills            \* bounds

Parameters == {MaxJobs, MaxKills} \subseteq Nat /\ Nobody \notin Launches /\ HostEdits \subseteq Edits

VARIABLES at,       \* launch -> its step
          lock,     \* launch that holds the machine's lock, or Nobody
          hosts,    \* the file: the owner's edits in it, our pin, half written
          journal,  \* what it saved: the owner's edits then, or the file's state
          call,     \* launch -> its helper process: none, without the lock yet, running, its answer
          orphans,  \* helper processes without the lock that nobody waits for
          helper,   \* the helper that holds the helpers' lock: whom it serves, its step
          stopping, \* launch -> its stop flag
          jobs, kills,
          edited, exposed   \* edits made, and those made where the code does not look for them

vars == <<at, lock, hosts, journal, call, orphans, helper, stopping, jobs, kills, edited, exposed>>
counts == <<jobs, kills, edited, exposed>>

Installing == {"read", "journal", "fill", "again", "tear", "pin"}
Restoring == {"check", "back", "whole", "unlink"}
\* late: an install that nobody waited for any more when it got the lock.
Idle == [for |-> Nobody, step |-> "idle", read |-> {}, late |-> FALSE]
Absent == [state |-> "absent", before |-> {}, late |-> FALSE]

TypeOK ==
    /\ at \in [Launches -> {"idle", "locked", "claim", "pin", "pinning", "stream", "file", "unpin", "unpinning",
                             "wait", "cleanup", "cleaning", "exit", "over", "killed"}]
    /\ lock \in Launches \cup {Nobody}
    /\ hosts \in [edits : SUBSET Edits, pin : BOOLEAN, torn : BOOLEAN]
    /\ journal \in [state : {"absent", "partial", "saved"}, before : SUBSET Edits, late : BOOLEAN]
    /\ call \in [Launches -> {"none", "install", "restore", "running", "done", "refused"}]
    /\ orphans \in [{"install", "restore"} -> Nat]
    /\ helper \in [for : Launches \cup {Nobody}, step : {"idle"} \cup Installing \cup Restoring,
                    read : SUBSET Edits, late : BOOLEAN]
    /\ stopping \in [Launches -> BOOLEAN]
    /\ jobs \in 0..MaxJobs /\ kills \in 0..MaxKills /\ edited \subseteq Edits /\ exposed \subseteq edited

Init ==
    /\ at = [l \in Launches |-> "idle"] /\ lock = Nobody
    /\ hosts = [edits |-> {}, pin |-> FALSE, torn |-> FALSE] /\ journal = Absent
    /\ call = [l \in Launches |-> "none"] /\ orphans = [a \in {"install", "restore"} |-> 0] /\ helper = Idle
    /\ stopping = [l \in Launches |-> FALSE] /\ jobs = 0 /\ kills = 0 /\ edited = {} /\ exposed = {}

Go(l, step) == at' = [at EXCEPT ![l] = step]

-----------------------------------------------------------------------------
(* edit_host_pin: a process that takes the helpers' lock some time after it *)
(* was spawned, by then perhaps for nobody                                  *)

files == <<hosts, journal>>
FirstStep(action) == IF action = "install" THEN "read" ELSE "check"
Step(s) == helper' = [helper EXCEPT !.step = s]
Ends(answer) ==
    /\ helper' = Idle
    /\ call' = IF helper.for = Nobody THEN call ELSE [call EXCEPT ![helper.for] = answer]

TakeLock(l) ==
    /\ helper = Idle /\ call[l] \in {"install", "restore"}
    /\ helper' = [for |-> l, step |-> FirstStep(call[l]), read |-> {}, late |-> FALSE]
    /\ call' = [call EXCEPT ![l] = "running"]
    /\ UNCHANGED <<at, lock, files, orphans, stopping, counts>>

OrphanTakesLock(action) ==
    /\ helper = Idle /\ orphans[action] > 0
    /\ helper' = [for |-> Nobody, step |-> FirstStep(action), read |-> {}, late |-> action = "install"]
    /\ orphans' = [orphans EXCEPT ![action] = @ - 1]
    /\ UNCHANGED <<at, lock, files, call, stopping, counts>>

\* install: refused while a journal is there, else the file is saved first.
AnyJournal == TRUE
JournalFirst == journal.state = "absent"

ReadBefore ==
    /\ helper.step = "read"
    /\ IF JournalFirst THEN helper' = [helper EXCEPT !.step = "journal", !.read = hosts.edits] /\ UNCHANGED call
       ELSE Ends("refused")
    /\ UNCHANGED <<at, lock, files, orphans, stopping, counts>>

CreateJournal ==
    /\ helper.step = "journal" /\ Step("fill")
    /\ journal' = [state |-> "partial", before |-> helper.read, late |-> helper.late]
    /\ UNCHANGED <<at, lock, hosts, call, orphans, stopping, counts>>

Unsaved == journal
Saved == [journal EXCEPT !.state = "saved"]

FillJournal ==
    /\ helper.step = "fill" /\ journal' = Saved /\ Step("again")
    /\ UNCHANGED <<at, lock, hosts, call, orphans, stopping, counts>>

\* install_host_pin reads the file once more, leaves out the lines of the host ...
ReadAgain ==
    /\ helper.step = "again" /\ helper' = [helper EXCEPT !.step = "tear", !.read = hosts.edits \ HostEdits]
    /\ UNCHANGED <<at, lock, files, call, orphans, stopping, counts>>

\* ... truncates the file and writes it again.
TearForPin ==
    /\ helper.step = "tear" /\ hosts' = [hosts EXCEPT !.torn = TRUE] /\ Step("pin")
    /\ UNCHANGED <<at, lock, journal, call, orphans, stopping, counts>>

WritePin ==
    /\ helper.step = "pin" /\ hosts' = [edits |-> helper.read, pin |-> TRUE, torn |-> FALSE] /\ Ends("done")
    /\ UNCHANGED <<at, lock, journal, orphans, stopping, counts>>

Unchanged(h) == TRUE
OnlyOurLine(h) == h.edits \ HostEdits = journal.before \ HostEdits /\ ~h.torn

\* restore: nothing to do, or the file must differ from the journal in lines of the host alone.
CheckRestore ==
    /\ helper.step = "check"
    /\ CASE journal.state = "absent" -> Ends("done")
         [] journal.state = "saved" /\ OnlyOurLine(hosts) -> Step("back") /\ UNCHANGED call
         [] OTHER -> Ends("refused")
    /\ UNCHANGED <<at, lock, files, orphans, stopping, counts>>

TearForRestore ==
    /\ helper.step = "back" /\ hosts' = [hosts EXCEPT !.torn = TRUE] /\ Step("whole")
    /\ UNCHANGED <<at, lock, journal, call, orphans, stopping, counts>>

WriteBack ==
    /\ helper.step = "whole" /\ hosts' = [edits |-> journal.before, pin |-> FALSE, torn |-> FALSE] /\ Step("unlink")
    /\ UNCHANGED <<at, lock, journal, call, orphans, stopping, counts>>

UnlinkJournal ==
    /\ helper.step = "unlink" /\ journal' = Absent /\ Ends("done")
    /\ UNCHANGED <<at, lock, hosts, orphans, stopping, counts>>

\* Where an edit is not looked for: after the last read before a write, and a
\* line of the host whenever the journal has been read and is there.
Unseen(e) ==
    \/ helper.step \in {"tear", "pin", "back", "whole"} \/ hosts.torn
    \/ e \in HostEdits /\ (helper.step = "journal" \/ journal.state # "absent")

\* The owner edits the file at any time.
Edit(e) ==
    /\ e \notin edited /\ edited' = edited \cup {e}
    /\ hosts' = [hosts EXCEPT !.edits = @ \cup {e}]
    /\ exposed' = IF Unseen(e) THEN exposed \cup {e} ELSE exposed
    /\ UNCHANGED <<at, lock, journal, call, orphans, helper, stopping, jobs, kills>>

-----------------------------------------------------------------------------
(* main, worker_loop, process_job *)

LockFree == lock = Nobody
Call(l, action) == call' = [call EXCEPT ![l] = action]

\* One coordinator per machine, and a crash's pin is taken out before any claim.
Start(l) ==
    /\ at[l] = "idle"
    /\ IF LockFree THEN lock' = l /\ Call(l, "restore") /\ Go(l, "locked")
       ELSE Go(l, "over") /\ UNCHANGED <<lock, call>>
    /\ UNCHANGED <<files, orphans, helper, stopping, counts>>

Answered(l) == call[l] \in {"done", "refused"}
Refused(l) == call[l] = "refused"

\* The process nobody waits for any more works on, or dies with its parent.
Abandoned(l) ==
    /\ call' = [call EXCEPT ![l] = "none"]
    /\ \/ helper' = IF helper.for = l THEN [helper EXCEPT !.for = Nobody] ELSE helper
       \/ helper' = IF helper.for = l THEN Idle ELSE helper
    /\ \/ call[l] \in DOMAIN orphans /\ orphans' = [orphans EXCEPT ![call[l]] = @ + 1]
       \/ UNCHANGED orphans

\* A helper that takes more than ten seconds, its wait for the lock among them, is given up.
GiveUp(l) ==
    /\ call[l] \in {"install", "restore", "running"} /\ Abandoned(l)
    /\ stopping' = [stopping EXCEPT ![l] = TRUE]
    /\ Go(l, CASE at[l] = "pinning" -> "unpin" [] at[l] = "cleaning" -> "exit" [] OTHER -> "cleanup")
    /\ UNCHANGED <<lock, files, counts>>

Recovered(l) ==
    /\ at[l] = "locked" /\ Answered(l) /\ Call(l, "none")
    /\ Go(l, IF Refused(l) THEN "cleanup" ELSE "claim")
    /\ stopping' = [stopping EXCEPT ![l] = @ \/ Refused(l)]
    /\ UNCHANGED <<lock, files, orphans, helper, counts>>

\* A literal address is streamed to without a pin, a file test touches none, and
\* a job that cannot be validated ends at once.
Claim(l) ==
    /\ at[l] = "claim" /\ ~stopping[l] /\ jobs < MaxJobs
    /\ jobs' = jobs + 1 /\ \E step \in {"pin", "stream", "file", "wait"} : Go(l, step)
    /\ UNCHANGED <<lock, files, call, orphans, helper, stopping, kills, edited, exposed>>

Pin(l) ==
    /\ at[l] = "pin" /\ Call(l, "install") /\ Go(l, "pinning")
    /\ UNCHANGED <<lock, files, orphans, helper, stopping, counts>>

\* A refused or timed-out install is undone like one that worked.
Pinned(l) ==
    /\ at[l] = "pinning" /\ Answered(l) /\ Call(l, "none")
    /\ Go(l, IF Refused(l) THEN "unpin" ELSE "stream")
    /\ stopping' = [stopping EXCEPT ![l] = @ \/ Refused(l)]
    /\ UNCHANGED <<lock, files, orphans, helper, counts>>

JobEnds(l) ==
    /\ \/ at[l] = "stream" /\ Go(l, "unpin")
       \/ at[l] = "file" /\ Go(l, "wait")
    /\ UNCHANGED <<lock, files, call, orphans, helper, stopping, counts>>

\* The worker does not end within its 30 seconds: the pin stays for the next launch.
LeaveStuck(l) ==
    /\ at[l] \in {"stream", "file"} /\ stopping[l] /\ Go(l, "over") /\ lock' = Nobody
    /\ UNCHANGED <<files, call, orphans, helper, stopping, counts>>

Unpin(l) ==
    /\ at[l] = "unpin" /\ Call(l, "restore") /\ Go(l, "unpinning")
    /\ UNCHANGED <<lock, files, orphans, helper, stopping, counts>>

GoOn(l) == stopping[l]
StopsOnRefusal(l) == stopping[l] \/ Refused(l)

Unpinned(l) ==
    /\ at[l] = "unpinning" /\ Answered(l) /\ Call(l, "none")
    /\ stopping' = [stopping EXCEPT ![l] = StopsOnRefusal(l)] /\ Go(l, "wait")
    /\ UNCHANGED <<lock, files, orphans, helper, counts>>

Again(l) ==
    /\ at[l] = "wait" /\ Go(l, IF stopping[l] THEN "cleanup" ELSE "claim")
    /\ UNCHANGED <<lock, files, call, orphans, helper, stopping, counts>>

Signal(l) ==
    /\ at[l] \notin {"idle", "over", "killed"} /\ ~stopping[l] /\ stopping' = [stopping EXCEPT ![l] = TRUE]
    /\ UNCHANGED <<at, lock, files, call, orphans, helper, counts>>

LeaveLoop(l) ==
    /\ at[l] = "claim" /\ stopping[l] /\ Go(l, "cleanup")
    /\ UNCHANGED <<lock, files, call, orphans, helper, stopping, counts>>

Cleanup(l) ==
    /\ at[l] = "cleanup" /\ Call(l, "restore") /\ Go(l, "cleaning")
    /\ UNCHANGED <<lock, files, orphans, helper, stopping, counts>>

Exit(l) ==
    /\ \/ at[l] = "cleaning" /\ Answered(l)
       \/ at[l] = "exit"
    /\ Call(l, "none") /\ Go(l, "over") /\ lock' = Nobody
    /\ UNCHANGED <<files, orphans, helper, stopping, counts>>

\* The kernel frees the coordinator's lock; its helper dies with the machine or works on.
Kill(l) ==
    /\ kills < MaxKills /\ at[l] \notin {"idle", "over", "killed"} /\ kills' = kills + 1
    /\ Go(l, "killed") /\ lock' = Nobody /\ Abandoned(l)
    /\ UNCHANGED <<files, stopping, jobs, edited, exposed>>

Next ==
    \/ ReadBefore \/ CreateJournal \/ FillJournal \/ ReadAgain \/ TearForPin \/ WritePin
    \/ CheckRestore \/ TearForRestore \/ WriteBack \/ UnlinkJournal
    \/ (\E e \in Edits : Edit(e)) \/ (\E action \in DOMAIN orphans : OrphanTakesLock(action))
    \/ \E l \in Launches : TakeLock(l) \/ Start(l) \/ Recovered(l) \/ GiveUp(l)
          \/ Claim(l) \/ Pin(l) \/ Pinned(l) \/ JobEnds(l) \/ LeaveStuck(l)
          \/ Unpin(l) \/ Unpinned(l) \/ Again(l) \/ Signal(l) \/ LeaveLoop(l) \/ Cleanup(l) \/ Exit(l) \/ Kill(l)

Spec == Init /\ [][Next]_vars

-----------------------------------------------------------------------------
(* Properties *)

\* "Recover a crash's hosts mutation before any API claim can resolve DNS"
\* (platform-live-preview.py:414): whoever was killed where, a claim is made with
\* the owner's file, without a pin, unless the pin is of an install that got the
\* helpers' lock when nobody waited for it any more.
ClaimsSeeTheOwnersFile ==
    [][jobs' # jobs /\ (hosts.pin \/ hosts.torn) => journal.late]_vars

\* "Recover only this tool's change, never overwrite others"
\* (platform-live-preview.py:161): an edit of the owner stays in the file (under a
\* pin, a line of the pinned host stays in the journal), unless it was made after
\* the last read before a write, or is a line of the host made after the journal's.
OwnersEditsStay ==
    ~hosts.torn => \A e \in edited \ exposed :
        e \in hosts.edits \/ (hosts.pin /\ e \in HostEdits /\ e \in journal.before)

\* A pinned or half-written file has its journal, so that it can be taken back.
PinIsJournalled == hosts.pin \/ hosts.torn => journal.state = "saved"
=============================================================================
