---------------------------- MODULE LocalObjects ----------------------------
(***************************************************************************)
(* The file system store (LocalStorage in server/storage.py), one object   *)
(* key: writers that create its file exclusively and fill it piece by      *)
(* piece, and removals.                                                   *)
(* A file outlives its name: a writer whose file was unlinked goes on      *)
(* writing to it.  The server may be killed between two steps.             *)
(***************************************************************************)
EXTENDS Naturals, FiniteSets

CONSTANTS Streams,     \* signed PUT requests (put_stream), all for one declared content
          Files,       \* uploads of a local file (upload), each with its own content
          Removes,
          None,
          Size,        \* pieces of a whole object
          MaxKills     \* bound on killed calls

Parameters == {Size, MaxKills} \subseteq Nat

Writers == Streams \cup Files
Callers == Writers \cup Removes

VARIABLES at,      \* caller -> its step
          path,    \* the writer that created the file under the key, or None
          len,     \* writer -> pieces written to its file
          intact,  \* writer -> they are the declared ones
          kills

vars == <<at, path, len, intact, kills>>
file == <<path, len, intact>>

Live == {"writing", "verify", "unlink"}
Over == {"stored", "done", "failed", "killed"}

Whole(w) == len[w] = Size /\ intact[w]

TypeOK ==
    /\ at \in [Callers -> {"idle"} \cup Live \cup Over]
    /\ path \in Writers \cup {None}
    /\ len \in [Writers -> 0..Size] /\ intact \in [Writers -> BOOLEAN]
    /\ kills \in 0..MaxKills

Init ==
    /\ at = [c \in Callers |-> "idle"] /\ path = None
    /\ len = [w \in Writers |-> 0] /\ intact = [w \in Writers |-> TRUE]
    /\ kills = 0

Go(c, step) == at' = [at EXCEPT ![c] = step]

-----------------------------------------------------------------------------
(* put_stream, upload *)

Shared == TRUE
Exclusive == path = None

Create(w) ==
    /\ at[w] = "idle"
    /\ IF Exclusive THEN Go(w, "writing") /\ path' = w ELSE Go(w, "failed") /\ UNCHANGED path
    /\ UNCHANGED <<len, intact, kills>>

\* A local file may change between its hash and its copy.
Piece(w) ==
    /\ at[w] = "writing" /\ len[w] < Size
    /\ len' = [len EXCEPT ![w] = @ + 1]
    /\ \E ok \in BOOLEAN : intact' = [intact EXCEPT ![w] = @ /\ ok]
    /\ UNCHANGED <<at, path, kills>>

\* A piece too many, a lost client, a full disk, a cancelled request.
Interrupted(w) ==
    /\ at[w] = "writing" /\ Go(w, "unlink")
    /\ UNCHANGED <<file, kills>>

TakenAsIs(w) == TRUE
Matches(w) == Whole(w)

\* A stream is checked as it was received and its file is not read again.
StreamEnds(w) ==
    /\ w \in Streams /\ at[w] = "writing"
    /\ Go(w, IF Matches(w) THEN "stored" ELSE "unlink")
    /\ UNCHANGED <<file, kills>>

FileEnds(w) ==
    /\ w \in Files /\ at[w] = "writing" /\ Go(w, "verify")
    /\ UNCHANGED <<file, kills>>

\* The file under the key is hashed, whoever wrote it.
VerifyUpload(w) ==
    /\ at[w] = "verify"
    /\ Go(w, IF path = w /\ Whole(w) THEN "stored" ELSE "unlink")
    /\ UNCHANGED <<file, kills>>

LeftPartial == path
Unlinked == None

\* By name: what is there now goes.
Unlink(w) ==
    /\ at[w] = "unlink" /\ path' = Unlinked /\ Go(w, "failed")
    /\ UNCHANGED <<len, intact, kills>>

-----------------------------------------------------------------------------
(* delete *)

Delete(r) ==
    /\ r \in Removes /\ at[r] = "idle" /\ path' = None /\ Go(r, "done")
    /\ UNCHANGED <<len, intact, kills>>

Kill(w) ==
    /\ kills < MaxKills /\ at[w] \in Live
    /\ kills' = kills + 1 /\ Go(w, "killed")
    /\ UNCHANGED file

Next ==
    \/ \E w \in Writers : Create(w) \/ Piece(w) \/ Interrupted(w) \/ StreamEnds(w) \/ FileEnds(w)
                             \/ VerifyUpload(w) \/ Unlink(w) \/ Kill(w)
    \/ \E r \in Removes : Delete(r)

Spec == Init /\ [][Next]_vars

-----------------------------------------------------------------------------
(* Properties *)

\* A half-written file stays under the key only while its request runs, or
\* after the server was killed: no later request finds it in its way
\* (put_stream and upload unlink in their except block, storage.py:383, :407).
NoPartialAtRest ==
    path # None => Whole(path) \/ at[path] \in Live \cup {"killed"}

\* "Create-only semantics" (storage.py:3): what a reader finds under the key
\* never turns into another object; it can only go.
NeverReplaced ==
    [][path # None => path' \in {path, None}]_vars
=============================================================================
