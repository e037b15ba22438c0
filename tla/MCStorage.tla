------------------------------ MODULE MCStorage ------------------------------
(* What is stored, small enough for TLC: the accounting of objects in the     *)
(* database, once for a direct upload and its recording to a file in two      *)
(* attempts (OutputStorage itself, with the constants of the configuration)   *)
(* and once for an import of a source; the imports from a user's computer;    *)
(* and one key of either store.  They do not share state: `part` picks, once, *)
(* the one whose steps are taken, and the variables of the others stay as     *)
(* they are.                                                                  *)
EXTENDS OutputStorage

CONSTANTS Handlers, CrashHandlers, MaxTasks,
          Streams, Files, FileRemoves, Copies, Downloads, CopyRemoves, Checked,
          none, Size, MaxKills

VARIABLES part,
          task, late, upload, stored, req, helper, allowed,
          writer, path, len, intact, stops,
          at, version, expected, temp, dest, kills,
          iClock, iMedia, iJob, iPut, iDeletion, iObject, iBelated, iUrl, iVerified, iRemoved

device == <<task, late, upload, stored, req, helper, allowed>>
file == <<writer, path, len, intact, stops>>
copy == <<at, version, expected, temp, dest, kills>>
imports == <<iClock, iMedia, iJob, iPut, iDeletion, iObject, iBelated, iUrl, iVerified, iRemoved>>
allVars == <<part, vars, device, file, copy, imports>>

\* An import of a source: its held budget, its reservation, its object.
Imported == INSTANCE OutputStorage WITH
    Uploads <- {}, Locals <- {}, Imports <- {"i1"}, Attempts <- 2, Sizes <- {1}, Budget <- 2,
    MaxImport <- 3, MaxStorage <- 5, MaxMedia <- 2, Ttl <- 1, TransferTime <- 1, Backoff <- 1,
    MaxFailures <- 1, Horizon <- 4,
    now <- iClock, media <- iMedia, job <- iJob, put <- iPut, deletion <- iDeletion,
    object <- iObject, belated <- iBelated, url <- iUrl, verified <- iVerified, removed <- iRemoved

Device == INSTANCE DeviceImports WITH media <- upload

Local == INSTANCE LocalObjects WITH
    Removes <- FileRemoves, None <- none, at <- writer, kills <- stops

Remote == INSTANCE RemoteObjects WITH
    Uploads <- Copies, Removes <- CopyRemoves, None <- none, object <- version

ASSUME PartsAssumption == Device!Parameters /\ Local!Parameters /\ Remote!Parameters

EachInit ==
    /\ part \in {"uploaded", "imported", "device", "crashing", "file", "copy"}
    /\ Init /\ Imported!Init /\ Device!Init /\ Local!Init /\ Remote!Init

\* Bound: the requests a server that may go down runs at the same time.
OthersStayFree == \A h \in Handlers \ CrashHandlers : req'[h] = req[h]

EachNext ==
    /\ part' = part
    /\ \/ part = "uploaded" /\ Next /\ UNCHANGED <<device, file, copy, imports>>
       \/ part = "imported" /\ Imported!Next /\ UNCHANGED <<vars, device, file, copy>>
       \/ part = "device" /\ Device!Next /\ UNCHANGED <<vars, file, copy, imports>>
       \/ /\ part = "crashing" /\ Device!CrashNext /\ OthersStayFree
          /\ UNCHANGED <<vars, file, copy, imports>>
       \/ part = "file" /\ Local!Next /\ UNCHANGED <<vars, device, copy, imports>>
       \/ part = "copy" /\ Remote!Next /\ UNCHANGED <<vars, device, file, imports>>

EachFairness ==
    /\ WF_imports(part = "imported" /\ Imported!Tick)
    /\ WF_imports(part = "imported" /\ Imported!Awake /\ Imported!Cleanup({}, {}))
    /\ \A k \in Imported!Keys : /\ WF_imports(part = "imported" /\ Imported!Awake /\ Imported!Remove(k))
                                /\ WF_imports(part = "imported" /\ Imported!Awake /\ Imported!ConfirmDeletion(k))
    /\ WF_device(part = "device" /\ Device!Expire)
    /\ \A t \in Device!Tasks : WF_device(part = "device" /\ Device!TimePasses(t))
EachSpec == EachInit /\ [][EachNext]_allVars /\ EachFairness

-----------------------------------------------------------------------------
\* OutputStorage.ObjectsAccounted and OutputStorage.QuotaHolds are checked of
\* the upload and its recording.  Of an import: every object is charged once and
\* fits in the quota, and the bytes of an upload that no job wants any more are
\* released in the end (OutputStorage.AbandonedUploadReleased).
ImportsAreCharged ==
    /\ [](Imported!ObjectsAccounted /\ Imported!QuotaHolds)
    /\ part = "imported" => Imported!AbandonedUploadReleased

\* However the requests for a device import overlap, a completed one is
\* checked, though the server goes down, a cancelled or failed one holds no
\* upload in the end; every import ends, its helper or owner being gone, and one
\* that ended stays so (DeviceImports.CompletedIsAdmitted, CancelledHoldsNothing,
\* TasksEnd, EndedStaysEnded).
DeviceImportsSettle ==
    /\ [](Device!TypeOK /\ Device!CompletedIsAdmitted)
    /\ [](part # "crashing" => Device!CancelledHoldsNothing)
    /\ Device!EndedStaysEnded
    /\ part = "device" => Device!TasksEnd

\* Whatever fails or is killed, no half of an object is found under a key, at
\* a destination or in a temporary file later, and no object turns into another
\* (LocalObjects.NoPartialAtRest, NeverReplaced; RemoteObjects.DestinationIsWhole,
\* NoTempLeft, NeverReplaced).
ObjectsAreWhole ==
    /\ [](Local!TypeOK /\ Local!NoPartialAtRest)
    /\ [](Remote!TypeOK /\ Remote!DestinationIsWhole /\ Remote!NoTempLeft)
    /\ Local!NeverReplaced /\ Remote!NeverReplaced
=============================================================================
