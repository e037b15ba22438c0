------------------------------- MODULE Release -------------------------------
(***************************************************************************)
(* A production release (scripts/deploy-production.py): both roles' builds *)
(* are staged, the release is still the branch's head and production has   *)
(* not moved, then the roles are promoted one after the other.  A failure  *)
(* puts every touched role back.  The hosting service is external: a       *)
(* request it was sent takes effect at any later time or never, whatever   *)
(* the command line answered or however it timed out; other people may     *)
(* promote builds too, and the runner may be cancelled.                    *)
(***************************************************************************)
EXTENDS Integers, Sequences, FiniteSets

CONSTANTS Order,      \* the roles in the order of PROJECTS
          MaxOutside  \* bound on other people's promotions

Roles == {Order[i] : i \in DOMAIN Order}
Parameters == Order \in Seq(Roles) /\ Order # <<>> /\ MaxOutside \in Nat

Builds == {"previous", "candidate", "other"}

VARIABLES at,        \* the next step
          i,         \* index of the role it is for
          alias,     \* role -> build production serves
          before,    \* previous: what it served when the release began
          staged,    \* roles with a candidate
          touched, restored,
          underway,  \* requests the service was sent: roles with the build they are to serve
          late,      \* roles whose promotion landed after they were confirmed put back
          report,    \* the report file: status, roles with a promotion attempted
          head,      \* is the release commit still the branch's head
          outside    \* promotions of other people

hosting == <<alias, underway, late, outside>>    \* of the hosting service
vars == <<at, i, hosting, before, staged, touched, restored, report, head>>

Steps == {"build", "read", "stage", "check", "record", "promote", "confirm", "smoke", "look", "undo",
          "verify", "end", "cancelled"}

TypeOK ==
    /\ at \in Steps /\ i \in 0..Len(Order) + 1 /\ head \in BOOLEAN /\ outside \in 0..MaxOutside
    /\ alias \in [Roles -> Builds] /\ before \in [Roles -> Builds \cup {"unknown"}]
    /\ staged \subseteq Roles /\ touched \subseteq Roles /\ restored \subseteq Roles
    /\ underway \subseteq Roles \X Builds /\ late \subseteq Roles
    /\ report \in [status : {"preflight", "failed_before_promotion", "deployed", "rolled_back",
                             "manual_recovery_required", "torn"}, attempted : SUBSET Roles]

Init ==
    /\ at = "build" /\ i = 1 /\ alias = [r \in Roles |-> "previous"] /\ before = [r \in Roles |-> "unknown"]
    /\ staged = {} /\ touched = {} /\ restored = {} /\ head = TRUE /\ outside = 0
    /\ underway = {} /\ late = {}
    /\ report = [status |-> "preflight", attempted |-> {}]

Role == Order[i]
To(step, index) == at' = step /\ i' = index

\* An error before promotion: nothing to put back.
GiveUp ==
    /\ at \in {"build", "read", "stage", "check"}
    /\ To("end", 1) /\ report' = [report EXCEPT !.status = "failed_before_promotion"]
    /\ UNCHANGED <<hosting, before, staged, touched, restored, head>>

\* The release commit is the head, then the worker's snapshot is built.
Build ==
    /\ at = "build" /\ head /\ To("read", 1)
    /\ UNCHANGED <<hosting, before, staged, touched, restored, report, head>>

ReadPrevious ==
    /\ at = "read"
    /\ before' = [before EXCEPT ![Role] = alias[Role]]
    /\ IF i < Len(Order) THEN To("read", i + 1) ELSE To("stage", 1)
    /\ UNCHANGED <<hosting, staged, touched, restored, report, head>>

Stage ==
    /\ at = "stage" /\ staged' = staged \cup {Role}
    /\ IF i < Len(Order) THEN To("stage", i + 1) ELSE To("check", 1)
    /\ UNCHANGED <<hosting, before, touched, restored, report, head>>

\* assert_current_release, then each role still serves what it did.
Check ==
    /\ at = "check" /\ (i = 1 => head) /\ alias[Role] = before[Role]
    /\ IF i < Len(Order) THEN To("check", i + 1) ELSE To("record", 1)
    /\ UNCHANGED <<hosting, before, staged, touched, restored, report, head>>

\* Before the request: its answer can be lost after the promotion.
NotYet(attempted) == report.attempted
Attempts(attempted) == attempted
Record ==
    /\ at = "record" /\ To("promote", i) /\ touched' = touched \cup {Role}
    /\ report' = [report EXCEPT !.attempted = Attempts(touched')]
    /\ UNCHANGED <<hosting, before, staged, restored, head>>

StartRollback == To("look", Len(Order))

\* The command is sent; it answers, or fails or takes too long.
Send(build) == underway' = underway \cup {<<Role, build>>}

Promote ==
    /\ at = "promote" /\ Send("candidate")
    /\ \/ StartRollback
       \/ IF i < Len(Order) THEN To("record", i + 1) ELSE To("confirm", 1)
    /\ UNCHANGED <<alias, late, outside, before, staged, touched, restored, report, head>>

\* Every role serves its candidate; or not, or that cannot be read.
Confirm ==
    /\ at = "confirm"
    /\ \/ StartRollback
       \/ /\ alias[Role] = "candidate"
          /\ IF i < Len(Order) THEN To("confirm", i + 1) ELSE To("smoke", 1)
    /\ UNCHANGED <<hosting, before, staged, touched, restored, report, head>>

\* The public answers are this release's, one role after the other, within twelve
\* tries, or it is undone.
Smoke ==
    /\ at = "smoke"
    /\ \/ StartRollback /\ UNCHANGED report
       \/ /\ alias[Role] = "candidate" /\ i < Len(Order) /\ To("smoke", i + 1) /\ UNCHANGED report
       \/ /\ alias[Role] = "candidate" /\ i = Len(Order)
          /\ To("end", 1) /\ report' = [report EXCEPT !.status = "deployed"]
    /\ UNCHANGED <<hosting, before, staged, touched, restored, head>>

-----------------------------------------------------------------------------
\* The touched roles in reverse; what another person promoted is left alone.
NextDown == i' = i - 1 /\ at' = "look"

Look ==
    /\ at = "look" /\ i > 0
    /\ IF Role \notin touched THEN NextDown
       ELSE \/ NextDown
            \/ alias[Role] = "candidate" /\ To("undo", i)
            \/ alias[Role] = before[Role] /\ To("verify", i)
    /\ UNCHANGED <<hosting, before, staged, touched, restored, report, head>>

Undo ==
    /\ at = "undo" /\ Send(before[Role]) /\ (To("verify", i) \/ NextDown)
    /\ UNCHANGED <<alias, late, outside, before, staged, touched, restored, report, head>>

AnyAnswer(r) == TRUE
PutBack(r) == alias[r] = before[r]
Verify ==
    /\ at = "verify" /\ NextDown
    /\ \/ UNCHANGED restored
       \/ PutBack(Role) /\ restored' = restored \cup {Role}
    /\ UNCHANGED <<hosting, before, staged, touched, report, head>>

AllRestored == restored = touched
RolledBack ==
    /\ at = "look" /\ i = 0 /\ To("end", 1)
    /\ report' = [report EXCEPT !.status = IF AllRestored THEN "rolled_back" ELSE "manual_recovery_required"]
    /\ UNCHANGED <<hosting, before, staged, touched, restored, head>>

-----------------------------------------------------------------------------
\* The service carries out a request it was sent, also when the release is over.
Land(r, build) ==
    /\ <<r, build>> \in underway /\ underway' = underway \ {<<r, build>>}
    /\ alias' = [alias EXCEPT ![r] = build]
    /\ late' = IF build = "candidate" /\ r \in restored THEN late \cup {r} ELSE late
    /\ UNCHANGED <<outside, at, i, before, staged, touched, restored, report, head>>

\* The runner is cancelled: no handler runs and the report stays as it was saved,
\* or empty when this hits a step that was writing it anew.
Saving == at \in {"build", "read", "stage", "check", "record", "smoke"} \/ (at = "look" /\ i = 0)

Cancelled ==
    /\ at \notin {"end", "cancelled"} /\ To("cancelled", 1)
    /\ \/ UNCHANGED report
       \/ Saving /\ report' = [status |-> "torn", attempted |-> {}]
    /\ UNCHANGED <<hosting, before, staged, touched, restored, head>>

OutsidePromotes(r) ==
    /\ outside < MaxOutside /\ outside' = outside + 1 /\ alias' = [alias EXCEPT ![r] = "other"]
    /\ UNCHANGED <<underway, late, at, i, before, staged, touched, restored, report, head>>

Superseded ==
    /\ head /\ head' = FALSE
    /\ UNCHANGED <<hosting, at, i, before, staged, touched, restored, report>>

Step == Build \/ ReadPrevious \/ Stage \/ Check \/ Record \/ Promote \/ Confirm \/ Smoke
        \/ Look \/ Undo \/ Verify \/ RolledBack

Next ==
    \/ Step \/ GiveUp \/ Cancelled \/ Superseded
    \/ \E r \in Roles : OutsidePromotes(r) \/ \E build \in Builds : Land(r, build)

Spec == Init /\ [][Next]_vars

-----------------------------------------------------------------------------
(* Wherever the release stops, killed runner and lost answers included, a  *)
(* role that serves its candidate is named in the saved report: a mix of   *)
(* two versions in production never goes unrecorded, unless the runner was *)
(* killed while it wrote that very file.                                   *)
CandidateIsOnRecord ==
    \A r \in Roles : alias[r] = "candidate" => r \in report.attempted \/ report.status = "torn"

(* A release reported as rolled back left a candidate only where a         *)
(* promotion, given up for failed, landed after the role had been read     *)
(* back; and one reported as deployed serves all of them.  Only other      *)
(* people's promotions can make it untrue beside that.                     *)
ReportIsTrue ==
    /\ report.status = "rolled_back" => \A r \in Roles : alias[r] = "candidate" => r \in late
    /\ report.status = "rolled_back" /\ outside = 0 => \A r \in Roles \ late : alias[r] = before[r]
    /\ report.status = "deployed" /\ outside = 0 => \A r \in Roles : alias[r] = "candidate"
=============================================================================
