--------------------------- MODULE SourceDownload ---------------------------
(***************************************************************************)
(* Importing a recording through the proxy (server/media_sources.py):      *)
(* metadata, segments fetched by Window threads into files of their own    *)
(* and appended in manifest order, the MP4, its checksum.  One budget is   *)
(* shared by all threads and by the whole import: a lease check, the       *)
(* deadline, a latched extractor failure, a latched transfer error and two *)
(* retry counters.  A retryable proxy failure is tried again in place,     *)
(* then by starting over with a new proxy session.                         *)
(*                                                                         *)
(* An error is [kind, by]: the code compares errors by identity, and two   *)
(* threads that are refused by the same lease raise different objects.     *)
(***************************************************************************)
EXTENDS Naturals, Sequences, FiniteSets

CONSTANTS Segments,        \* segments of the manifest
          Window,          \* _SEGMENT_CONCURRENCY
          Chunks,          \* reads a segment takes
          RequestRetries,  \* _REQUEST_RETRIES, of one request
          ImportRetries,   \* _IMPORT_REQUEST_RETRIES, of the whole import
          Rotations        \* len(_PROXY_RECOVERY_DELAYS)

Parameters ==
    /\ {Segments, Window, Chunks, RequestRetries, ImportRetries, Rotations} \subseteq Nat
    /\ Segments > 0 /\ Window > 0 /\ Rotations > 0

VARIABLES active,   \* check_active does not raise
          late,     \* the deadline has passed
          budget,   \* failure, transfer, cancel (errors), retries, requests
          pc,       \* the importing thread
          raised,   \* the error it is unwinding with
          seg,      \* segment -> state, size of its file, got, attempt, error, connection
          joined,   \* what the input file holds: <<segment, size>> in order
          idle,     \* pooled connections per host
          session, recovering,
          output,   \* the MP4 exists
          outcome   \* what download_source returns or raises

vars == <<active, late, budget, pc, raised, seg, joined, idle, session, recovering, output, outcome>>

Ids == 1..Segments
Hosts == {0, 1}
Host(i) == IF 2 * i > Segments THEN 1 ELSE 0    \* the later segments are on a second one
Main == 0
NoError == [kind |-> "none", by |-> Main]
Error(k, a) == [kind |-> k, by |-> a]
Errors == [kind : {"none", "proxy", "denied", "cancelled", "timeout", "notice"}, by : {Main} \cup Ids]
Fresh == [state |-> "none", size |-> 0, got |-> 0, attempt |-> 0, error |-> NoError, conn |-> FALSE]

TypeOK ==
    /\ active \in BOOLEAN /\ late \in BOOLEAN
    /\ budget \in [failure : Errors, transfer : Errors, cancel : Errors,
                   retries : 0..Rotations, requests : 0..ImportRetries]
    /\ pc \in {"extract", "fetch", "settle", "raised", "pause", "prepare", "checksum", "ended"}
    /\ raised \in Errors
    /\ seg \in [Ids -> [state : {"none", "queued", "running", "done", "failed"}, size : 0..Chunks, got : 0..Chunks,
                        attempt : 0..RequestRetries, error : Errors, conn : BOOLEAN]]
    /\ joined \in Seq(Ids \X {Chunks}) /\ Len(joined) <= Segments
    /\ idle \in [Hosts -> 0..Window]
    /\ session \in 0..Rotations /\ recovering \in BOOLEAN /\ output \in BOOLEAN
    /\ outcome \in {"none", "complete", "failed", "cancelled", "masked"}

Init ==
    /\ active = TRUE /\ late = FALSE
    /\ budget = [failure |-> NoError, transfer |-> NoError, cancel |-> NoError, retries |-> 0, requests |-> 0]
    /\ pc = "extract" /\ raised = NoError
    /\ seg = [i \in Ids |-> Fresh] /\ joined = <<>> /\ idle = [h \in Hosts |-> 0]
    /\ session = 0 /\ recovering = FALSE /\ output = FALSE /\ outcome = "none"

-----------------------------------------------------------------------------
(* The budget *)

\* What _Budget.check raises to actor a, NoError if it passes.
RefusalBy(b, a) == CASE ~active -> Error("cancelled", a)
                     [] active /\ late -> Error("timeout", a)
                     [] active /\ ~late /\ b.failure # NoError -> b.failure
                     [] OTHER -> b.transfer
Refusal(a) == RefusalBy(budget, a)

Passes == Refusal(Main) = NoError

\* The budget once actor a was refused: the last cancellation is remembered.
Refused(a) == [budget EXCEPT !.cancel = IF active THEN @ ELSE Error("cancelled", a)]

\* The first error stops the other segment threads.
Aborted(b, e) == [b EXCEPT !.transfer = IF @ = NoError THEN e ELSE @]

\* Only when every segment thread has exited.
LeftLatched(b) == b
Finished(b) == [b EXCEPT !.transfer = NoError]

Retryable(e) == e.kind = "proxy"
Spent(b) == b.retries >= Rotations

-----------------------------------------------------------------------------
(* A segment thread *)

Pooled == idle[0] + idle[1]

ConnectKeeping(i) == IF idle[Host(i)] > 0 THEN idle' = [idle EXCEPT ![Host(i)] = @ - 1] ELSE UNCHANGED idle

\* A pooled connection of the host, else a new one in the place of a pooled one.
Connect(i) ==
    IF idle[Host(i)] > 0 THEN idle' = [idle EXCEPT ![Host(i)] = @ - 1]
    ELSE IF Pooled > 0 THEN idle' = [idle EXCEPT ![1 - Host(i)] = @ - 1]
    ELSE UNCHANGED idle

Fail(i, e, b) ==
    /\ budget' = Aborted(b, e)
    /\ seg' = [seg EXCEPT ![i] = [@ EXCEPT !.state = "failed", !.error = e, !.conn = FALSE]]

\* The request, with its first bytes still to come; a new file, or the retried one.
Request(i) ==
    /\ seg[i].state \in {"queued", "running"} /\ ~seg[i].conn /\ Passes
    /\ seg' = [seg EXCEPT ![i] = [@ EXCEPT !.state = "running", !.got = 0, !.conn = TRUE]]
    /\ Connect(i)
    /\ UNCHANGED <<active, late, budget, pc, raised, joined, session, recovering, output, outcome>>

Read(i) ==
    /\ seg[i].conn /\ seg[i].got < Chunks /\ Passes
    /\ seg' = [seg EXCEPT ![i].got = @ + 1, ![i].size = @ + 1]
    /\ UNCHANGED <<active, late, budget, pc, raised, joined, idle, session, recovering, output, outcome>>

\* Only a fully read response gives its connection back, and only if it stays open.
Whole(i, kept) ==
    /\ seg[i].conn /\ seg[i].got = Chunks
    /\ seg' = [seg EXCEPT ![i] = [@ EXCEPT !.state = "done", !.conn = FALSE]]
    /\ idle' = IF kept /\ Pooled < Window THEN [idle EXCEPT ![Host(i)] = @ + 1] ELSE idle
    /\ UNCHANGED <<active, late, budget, pc, raised, joined, session, recovering, output, outcome>>

Stopped(i) ==
    /\ seg[i].state \in {"queued", "running"} /\ Refusal(i) # NoError
    /\ Fail(i, Refusal(i), Refused(i))
    /\ UNCHANGED <<active, late, pc, raised, joined, idle, session, recovering, output, outcome>>

KeptPart(s) == [s EXCEPT !.conn = FALSE]

\* The part written so far is dropped before the request is made again.
Truncated(s) == [s EXCEPT !.size = 0, !.conn = FALSE]

RetryRequest(i) ==
    /\ seg[i].conn /\ Passes
    /\ seg[i].attempt < RequestRetries /\ budget.requests < ImportRetries
    /\ budget' = [budget EXCEPT !.requests = @ + 1]
    /\ seg' = [seg EXCEPT ![i] = [Truncated(seg[i]) EXCEPT !.attempt = seg[i].attempt + 1]]
    /\ UNCHANGED <<active, late, pc, raised, joined, idle, session, recovering, output, outcome>>

\* A failure of another kind is tried again too, once per import.
RetryInPlace(i) ==
    /\ seg[i].conn /\ Passes /\ budget.retries < 1
    /\ budget' = [budget EXCEPT !.retries = @ + 1]
    /\ seg' = [seg EXCEPT ![i] = Truncated(@)]
    /\ UNCHANGED <<active, late, pc, raised, joined, idle, session, recovering, output, outcome>>

GiveUp(i) ==
    /\ seg[i].conn
    /\ \/ /\ Passes /\ (seg[i].attempt = RequestRetries \/ budget.requests = ImportRetries)
          /\ Fail(i, Error("proxy", i), budget)
       \/ Fail(i, Error("denied", i), budget)
    /\ UNCHANGED <<active, late, pc, raised, joined, idle, session, recovering, output, outcome>>

-----------------------------------------------------------------------------
(* The importing thread *)

Unwind(e) == pc' = "raised" /\ raised' = e

\* Every request of the extractor goes through the budget; its failure is latched.
ExtractFails ==
    /\ pc = "extract"
    /\ \/ /\ Refusal(Main) # NoError /\ Unwind(Refusal(Main))
          /\ budget' = [Refused(Main) EXCEPT !.failure = Refusal(Main)]
       \/ /\ Passes
          /\ \E k \in {"proxy", "denied"} : /\ Unwind(Error(k, Main))
                                            /\ budget' = [budget EXCEPT !.failure = Error(k, Main)]
    /\ UNCHANGED <<active, late, seg, joined, idle, session, recovering, output, outcome>>

Submit(s, i) == IF i \in Ids THEN [s EXCEPT ![i].state = "queued"] ELSE s

\* on_recovery(False), a heartbeat that may fail, before the first segments.
Extracted ==
    /\ pc = "extract" /\ Passes
    /\ \/ /\ pc' = "fetch" /\ joined' = <<>>
          /\ seg' = [i \in Ids |-> [Fresh EXCEPT !.state = IF i <= Window THEN "queued" ELSE @]]
          /\ recovering' = FALSE /\ UNCHANGED raised
       \/ /\ budget.retries > 0 /\ Unwind(Error("notice", Main)) /\ recovering' = FALSE
          /\ UNCHANGED <<seg, joined>>
    /\ UNCHANGED <<active, late, budget, idle, session, output, outcome>>

Head1 == Len(joined) + 1

Append1 ==
    /\ pc = "fetch" /\ Head1 \in Ids /\ seg[Head1].state = "done" /\ Passes
    /\ joined' = Append(joined, <<Head1, seg[Head1].size>>)
    /\ seg' = Submit([seg EXCEPT ![Head1].state = "none"], Head1 + Window)
    /\ UNCHANGED <<active, late, budget, pc, raised, idle, session, recovering, output, outcome>>

\* The first failure in manifest order, or a refusal of the importing thread, ends the transfer.
TransferFails ==
    /\ pc = "fetch" /\ Head1 \in Ids
    /\ \/ /\ seg[Head1].state = "failed" /\ raised' = seg[Head1].error
          /\ budget' = Aborted(budget, raised')
       \/ /\ seg[Head1].state = "done" /\ Refusal(Main) # NoError /\ raised' = Refusal(Main)
          /\ budget' = Aborted(Refused(Main), raised')
    /\ pc' = "settle"
    /\ UNCHANGED <<active, late, seg, joined, idle, session, recovering, output, outcome>>

AllAppended ==
    /\ pc = "fetch" /\ Head1 = Segments + 1 /\ pc' = "settle"
    /\ UNCHANGED <<active, late, budget, raised, seg, joined, idle, session, recovering, output, outcome>>

Running(i) == seg[i].state = "running"

NotWaiting == TRUE

\* pool.shutdown: queued segments are cancelled, running ones waited for.
Joinable == \A i \in Ids : ~Running(i)

\* close_idle, finish_transfer, and the segments' directory is deleted.
Settle ==
    /\ pc = "settle" /\ Joinable
    /\ pc' = IF raised = NoError THEN "prepare" ELSE "raised"
    /\ seg' = [i \in Ids |-> IF Running(i) THEN seg[i] ELSE Fresh]
    /\ idle' = [h \in Hosts |-> 0]
    /\ budget' = Finished(budget)
    /\ UNCHANGED <<active, late, raised, joined, session, recovering, output, outcome>>

\* FFmpeg may leave a file behind whether or not it succeeds.
MakeMp4 ==
    /\ pc = "prepare" /\ output' = TRUE
    /\ \/ Passes /\ pc' = "checksum" /\ UNCHANGED <<raised, budget>>
       \/ Passes /\ pc' = "ended" /\ raised' = Error("denied", Main) /\ UNCHANGED budget
       \/ ~Passes /\ pc' = "ended" /\ raised' = Refusal(Main) /\ budget' = Refused(Main)
    /\ UNCHANGED <<active, late, seg, joined, idle, session, recovering, outcome>>

Checksum ==
    /\ pc = "checksum" /\ pc' = "ended"
    /\ raised' = Refusal(Main) /\ budget' = Refused(Main)
    /\ UNCHANGED <<active, late, seg, joined, idle, session, recovering, output, outcome>>

Recoverable(e) == Retryable(e) /\ e # budget.cancel

Cleared(b, e) == [b EXCEPT !.failure = IF @ = e THEN NoError ELSE @]

\* The budget's refusal comes before its count; on_recovery(True) may fail.
Recover ==
    LET b == Cleared(budget, raised)
        refusal == RefusalBy(b, Main) IN
    /\ pc = "raised" /\ Recoverable(raised)
    /\ \/ /\ refusal # NoError /\ pc' = "ended" /\ raised' = refusal
          /\ budget' = [b EXCEPT !.cancel = Refused(Main).cancel]
          /\ UNCHANGED <<idle, recovering>>
       \/ /\ refusal = NoError /\ Spent(b) /\ pc' = "ended"
          /\ budget' = b /\ UNCHANGED <<raised, idle, recovering>>
       \/ /\ refusal = NoError /\ ~Spent(b)
          /\ budget' = [b EXCEPT !.retries = @ + 1]
          /\ idle' = [h \in Hosts |-> 0] /\ recovering' = TRUE
          /\ \/ pc' = "pause" /\ UNCHANGED raised
             \/ pc' = "ended" /\ raised' = Error("notice", Main)
    /\ UNCHANGED <<active, late, seg, joined, session, output, outcome>>

GiveUpImport ==
    /\ pc = "raised" /\ ~Recoverable(raised) /\ pc' = "ended"
    /\ UNCHANGED <<active, late, budget, raised, seg, joined, idle, session, recovering, output, outcome>>

\* Everything is fetched anew through a new session.
Rotate ==
    /\ pc = "pause"
    /\ \/ /\ Passes /\ pc' = "extract" /\ session' = session + 1 /\ raised' = NoError /\ UNCHANGED budget
       \/ /\ ~Passes /\ pc' = "ended" /\ raised' = Refusal(Main) /\ budget' = Refused(Main)
          /\ UNCHANGED session
    /\ UNCHANGED <<active, late, seg, joined, idle, recovering, output, outcome>>

OutputLeft == output
OutputKept == raised = NoError /\ output

\* Whatever was raised, an incomplete output is removed.
End ==
    /\ pc = "ended" /\ outcome = "none"
    /\ outcome' = CASE raised = NoError -> "complete"
                    [] raised.kind \in {"proxy", "denied", "timeout"} -> "failed"
                    [] raised.kind = "cancelled" /\ raised = budget.cancel -> "cancelled"
                    [] OTHER -> "masked"
    /\ output' = OutputKept
    /\ UNCHANGED <<active, late, budget, pc, raised, seg, joined, idle, session, recovering>>

LeaseEnds == /\ active /\ active' = FALSE
             /\ UNCHANGED <<late, budget, pc, raised, seg, joined, idle, session, recovering, output, outcome>>
DeadlinePasses == /\ ~late /\ late' = TRUE
                  /\ UNCHANGED <<active, budget, pc, raised, seg, joined, idle, session, recovering, output, outcome>>

Thread(i) == Request(i) \/ Read(i) \/ (\E kept \in BOOLEAN : Whole(i, kept)) \/ Stopped(i)
             \/ RetryRequest(i) \/ RetryInPlace(i) \/ GiveUp(i)
Import == \/ ExtractFails \/ Extracted \/ Append1 \/ TransferFails \/ AllAppended \/ Settle
          \/ MakeMp4 \/ Checksum \/ Recover \/ GiveUpImport \/ Rotate \/ End
Ended == outcome # "none"
Next == (\E i \in Ids : Thread(i)) \/ Import \/ (~Ended /\ (LeaseEnds \/ DeadlinePasses)) \/ (Ended /\ UNCHANGED vars)

Spec == Init /\ [][Next]_vars
\* Threads run; sockets time out within five seconds and retries are bounded.
FairSpec == Spec /\ WF_vars(Import) /\ \A i \in Ids : WF_vars(Thread(i))

-----------------------------------------------------------------------------
(* Properties *)

\* However often segments were retried and overtook each other, what reaches the MP4 is
\* each segment whole, once, in manifest order (download truncates, _download_segments).
InputIsTheManifest ==
    /\ \A k \in DOMAIN joined : joined[k] = <<k, Chunks>>
    /\ pc \in {"prepare", "checksum"} => Len(joined) = Segments

\* "Never delete their files or rotate sessions while they still run": outside the
\* transfer no segment thread is alive, and no connection of an old session is pooled.
NothingOutlivesTheTransfer ==
    pc \notin {"fetch", "settle"} => (\A i \in Ids : ~Running(i)) /\ Pooled = 0

\* "At most the four segment workers own open connections", pooled ones included.
OpenConnectionsBounded == Pooled + Cardinality({i \in Ids : seg[i].conn}) <= Window

\* A proxy failure ends the import only when its sessions are used up or it had to stop
\* anyway: no error latched for the threads or for the extractor survives to refuse the
\* recovery (abort_transfer and finish_transfer, budget.failure).
GivesUpOnlyWhenSpent ==
    outcome = "failed" /\ raised.kind = "proxy" => budget.retries = Rotations \/ ~active \/ late

\* An import that reports anything but success leaves no file, and it succeeds only
\* while its lease held to the last check.
OutputIffComplete == Ended => (output <=> outcome = "complete")

\* Every import comes to an end, whichever threads fail and in whatever order.
ImportEnds == <>Ended
=============================================================================
