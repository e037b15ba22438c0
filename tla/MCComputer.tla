------------------------------ MODULE MCComputer ------------------------------
(* What runs on a user's computer or in a test machine, small enough for TLC: *)
(* one download through the proxy, the jobs of the import helper (its local   *)
(* imports and the cloud's), the installation of that helper, and the pin of  *)
(* the platform test.  They do not share state: `part` picks, once, the one   *)
(* whose steps are taken and the variables of the others stay as they are.    *)
EXTENDS Integers, Sequences, TLC

CONSTANTS Segments, Window, Chunks, RequestRetries, ImportRetries, Rotations,
          Tabs, CloudTabs, Clouds, MaxObjects, MaxKept, Room,
          Starts, Installs, StopStarts, StopInstalls, Uninstalls, Nobody, MaxKills,
          Launches, Edits, HostEdits, MaxJobs, PinKills

VARIABLES part,
          active, late, budget, thread, raised, seg, joined, idle, rotation, recovering, output, outcome,
          session, asking, obj, table, dir, queue, worker, ending,
          at, port, control, stopper, target, staging, backup, removed, kills,
          launch, lock, hosts, journal, call, orphans, helper, stopping, jobs, killed, edited, exposed

source == <<active, late, budget, thread, raised, seg, joined, idle, rotation, recovering, output, outcome>>
imports == <<session, asking, obj, table, dir, queue, worker, ending>>
install == <<at, port, control, stopper, target, staging, backup, removed, kills>>
pin == <<launch, lock, hosts, journal, call, orphans, helper, stopping, jobs, killed, edited, exposed>>
every == <<part, source, imports, install, pin>>

Source == INSTANCE SourceDownload WITH pc <- thread, session <- rotation

\* Browser tabs that import for themselves or, in the part "cloud", for the cloud too.
Imports == INSTANCE LocalImports WITH Sessions <- Tabs, closing <- ending

\* Installers and a helper; starts of several helpers, with an uninstaller.
Install == INSTANCE DesktopHelper WITH Uninstalls <- {}, asked <- stopper
Serving == INSTANCE DesktopHelper WITH
    Starts <- StopStarts, Installs <- StopInstalls, asked <- stopper

Pin == INSTANCE LivePin WITH MaxKills <- PinKills, at <- launch, kills <- killed

ASSUME PartsAssumption ==
    /\ Source!Parameters /\ Imports!Parameters
    /\ Install!Parameters /\ Serving!Parameters /\ Pin!Parameters

EachInit ==
    /\ part \in {"source", "local", "cloud", "install", "serving", "pin"}
    /\ Source!Init /\ Imports!Init /\ Pin!Init
    /\ IF part = "serving" THEN Serving!Init ELSE Install!Init

\* Bound: the tabs that are opened on a helper which the cloud's pages use.
OthersStayShut == \A s \in Tabs \ CloudTabs : session'[s] = session[s]

EachNext ==
    /\ part' = part
    /\ \/ part = "source" /\ Source!Next /\ UNCHANGED <<imports, install, pin>>
       \/ part = "local" /\ Imports!LocalNext /\ UNCHANGED <<source, install, pin>>
       \/ part = "cloud" /\ Imports!Next /\ OthersStayShut /\ UNCHANGED <<source, install, pin>>
       \/ part = "install" /\ Install!Next /\ UNCHANGED <<source, imports, pin>>
       \/ part = "serving" /\ Serving!Next /\ UNCHANGED <<source, imports, pin>>
       \/ part = "pin" /\ Pin!Next /\ UNCHANGED <<source, imports, install>>

EachFairness ==
    /\ WF_source(part = "source" /\ Source!Import)
    /\ \A i \in Source!Ids : WF_source(part = "source" /\ Source!Thread(i))
EachSpec == EachInit /\ [][EachNext]_every /\ EachFairness

-----------------------------------------------------------------------------
\* A download reads the whole manifest in order, outlives none of its threads or
\* connections, gives up on the proxy only when its sessions are spent, leaves a
\* file only when it succeeds, and ends (the properties of SourceDownload).
DownloadsAreWhole ==
    /\ [](/\ Source!TypeOK /\ Source!InputIsTheManifest /\ Source!NothingOutlivesTheTransfer
          /\ Source!OpenConnectionsBounded /\ Source!GivesUpOnlyWhenSpent
          /\ Source!OutputIffComplete)
    /\ part = "source" => Source!ImportEnds

\* The helper's imports leave no directory and no thread behind, a job told to stop
\* never gets ready, the table never has two that download, and no job gets in the
\* way of another one but the predecessor of a cloud import, between its outcome
\* and its end (the properties of LocalImports).
NothingIsLeftBehind ==
    /\ [](Imports!TypeOK /\ Imports!OneDownload /\ Imports!NoDirectoryLeftBehind
          /\ Imports!ClosedIsClean /\ Imports!JobsAreIsolated)
    /\ Imports!CancelledNeverReady /\ Imports!OvertakenOnlyByItsId

\* No kill, failed rename or second installer loses the helper's installation,
\* and helpers that end leave no key (the invariants of DesktopHelper).
InstallationSurvives ==
    /\ part = "install" =>
        Install!TypeOK /\ Install!AnInstallationSurvives /\ Install!RefusedKeepsTarget
    /\ part = "serving" => Serving!TypeOK /\ Serving!NoKeyLeftBehind

\* A test claims its jobs with the owner's own hosts file, unless an install
\* outlived its launch, and no kill makes the pin overwrite an edit that it could see
\* (the properties of LivePin).
OwnersFileIsKept ==
    Pin!ClaimsSeeTheOwnersFile /\ [](Pin!TypeOK /\ Pin!OwnersEditsStay /\ Pin!PinIsJournalled)
=============================================================================
