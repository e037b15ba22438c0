-------------------------- MODULE MCLocalScheduler --------------------------
(* Instances of LocalScheduler small enough for TLC: the POC, one service     *)
(* with both jobs, which is what this module extends, and the public mode,    *)
(* two sessions with a job each.  `part` picks, once, the one that runs.      *)
EXTENDS LocalScheduler

CONSTANTS j1, j2, s1, s2

VARIABLE part

TwoJobs == {j1, j2}
OneService == {s1}
OneOwner == [j \in TwoJobs |-> s1]
TwoOwners == [j \in TwoJobs |-> IF j = j1 THEN s1 ELSE s2]

Public == INSTANCE LocalScheduler WITH
    Services <- {s1, s2}, Owner <- TwoOwners, SharedCapacity <- TRUE
\* The POC again, without retries: the one whose progress is checked.
Single == INSTANCE LocalScheduler WITH MaxAttempts <- 1

EachInit == part \in {"poc", "single", "public"} /\ Init
EachNext ==
    /\ part' = part
    /\ \/ part = "poc" /\ Next
       \/ part = "single" /\ Single!Next
       \/ part = "public" /\ Public!Next
EachSpec ==
    /\ EachInit /\ [][EachNext]_<<vars, part>>
    /\ \A j \in Jobs : WF_vars(part = "single" /\ Single!Worker(j))
    /\ WF_vars(part = "single" /\ Single!Flush(s1))

\* The POC alone, for what its documentation says and it does not do.
PocSpec == part = "poc" /\ Init /\ [][Next /\ part' = part]_<<vars, part>>

\* The POC runs one FFmpeg of a job nobody stopped; the public mode one FFmpeg in
\* all, and its slot is never lost (LocalScheduler.OneWantedStream, OneStream,
\* SlotConserved).
StreamsOneAtATime ==
    /\ TypeOK
    /\ part # "public" => OneWantedStream
    /\ part = "public" => OneStream /\ SlotConserved

\* Without retries left, every claim comes to an end (LocalScheduler.ClaimsEnd).
ClaimsComeToAnEnd == part = "single" => ClaimsEnd

\* The history of requests serves CancellationRetained alone.
Present == <<part, db, due, attempt, pc, result, alive, processes, pending, progressed,
             stopRequests, free, closing>>
=============================================================================
