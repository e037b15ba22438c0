---------------------------- MODULE RemoteObjects ----------------------------
(***************************************************************************)
(* One object key of the remote stores (S3Storage in server/storage.py,    *)
(* VercelBlobStorage in server/blob_storage.py): conditional uploads whose *)
(* answers may be lost, removals, and downloads that write a temporary     *)
(* file next to one destination, of an object that may go in between.      *)
(***************************************************************************)
EXTENDS Naturals, FiniteSets

CONSTANTS Uploads, Downloads, Removes, None,
          Size,        \* pieces of a whole object
          Checked,     \* BOOLEAN: the store refuses a body of another checksum (S3 does)
          MaxKills     \* bound on processes killed

Parameters == {Size, MaxKills} \subseteq Nat

Callers == Uploads \cup Downloads \cup Removes
Versions == [by : Uploads, exact : BOOLEAN]

VARIABLES at,        \* caller -> its step
          object,    \* the stored version, or None
          expected,  \* download -> version that head described, or None
          temp,      \* download -> its temporary file, or None
          dest,      \* file at the destination, or None
          kills

vars == <<at, object, expected, temp, dest, kills>>

Bodies == [of : Versions, len : 0..Size, sound : BOOLEAN]
Live == {"put", "verify", "get", "read"}

TypeOK ==
    /\ at \in [Callers -> {"idle", "done", "failed", "killed"} \cup Live]
    /\ object \in Versions \cup {None}
    /\ expected \in [Downloads -> Versions \cup {None}]
    /\ temp \in [Downloads -> Bodies \cup {None}] /\ dest \in Bodies \cup {None}
    /\ kills \in 0..MaxKills

Init ==
    /\ at = [c \in Callers |-> "idle"] /\ object = None
    /\ expected = [d \in Downloads |-> None] /\ temp = expected /\ dest = None /\ kills = 0

Go(c, step) == at' = [at EXCEPT ![c] = step]
local == <<expected, temp, dest, kills>>

-----------------------------------------------------------------------------
(* upload *)

\* The file is measured and hashed, and the PUT for exactly that authorised.
Authorise(u) ==
    /\ u \in Uploads /\ at[u] = "idle"
    /\ \E step \in {"put", "failed"} : Go(u, step)
    /\ UNCHANGED <<object, local>>

Overwriting == TRUE
CreateOnly == object = None

\* The file may have changed since; the store may refuse, or its answer be lost.
Put(u) ==
    /\ u \in Uploads /\ at[u] = "put"
    /\ \/ \E exact \in BOOLEAN : /\ CreateOnly /\ (Checked => exact)
                                   /\ object' = [by |-> u, exact |-> exact]
       \/ UNCHANGED object
    /\ \/ object' # object /\ Go(u, "verify")
       \/ Go(u, "failed")
    /\ UNCHANGED local

\* The stored object is asked for: another checksum, or none, is a failure.
VerifyUpload(u) ==
    /\ u \in Uploads /\ at[u] = "verify"
    /\ \/ object = [by |-> u, exact |-> TRUE] /\ Go(u, "done")
       \/ Go(u, "failed")
    /\ UNCHANGED <<object, local>>

Delete(r) ==
    /\ r \in Removes /\ at[r] = "idle"
    /\ \E gone \in BOOLEAN : object' = IF gone THEN None ELSE object
    /\ \E step \in {"done", "failed"} : (step = "done" => object' = None) /\ Go(r, step)
    /\ UNCHANGED local

-----------------------------------------------------------------------------
(* download *)

Head(d) ==
    /\ d \in Downloads /\ at[d] = "idle"
    /\ \/ object # None /\ expected' = [expected EXCEPT ![d] = object] /\ Go(d, "get")
       \/ UNCHANGED expected /\ Go(d, "failed")
    /\ UNCHANGED <<object, temp, dest, kills>>

Unconditional(d) == object # None
SameVersion(d) == object # None /\ object = expected[d]

\* If-Match: the body is of the version head described; the temporary file is made.
Get(d) ==
    /\ d \in Downloads /\ at[d] = "get"
    /\ \/ /\ SameVersion(d) /\ Go(d, "read")
          /\ temp' = [temp EXCEPT ![d] = [of |-> object, len |-> 0, sound |-> TRUE]]
       \/ Go(d, "failed") /\ UNCHANGED temp
    /\ UNCHANGED <<object, expected, dest, kills>>

\* The body no longer depends on the object: it may be removed while it is read.
Chunk(d) ==
    /\ d \in Downloads /\ at[d] = "read" /\ temp[d].len < Size
    /\ \E sound \in BOOLEAN :
           temp' = [temp EXCEPT ![d].len = @ + 1, ![d].sound = @ /\ sound]
    /\ UNCHANGED <<at, object, expected, dest, kills>>

AnyLength(d) == temp[d].sound
Complete(d) == temp[d].len = Size /\ temp[d].sound

KeptTemp(d) == temp[d]
NoTemp(d) == None

\* Only a whole body of the right checksum replaces the destination.
Deliver(d) ==
    /\ d \in Downloads /\ at[d] = "read" /\ Complete(d)
    /\ dest' = temp[d] /\ temp' = [temp EXCEPT ![d] = None] /\ Go(d, "done")
    /\ UNCHANGED <<object, expected, kills>>

\* The body ends early, is another, comes too slowly, or its connection breaks.
Give(d) ==
    /\ d \in Downloads /\ at[d] = "read"
    /\ temp' = [temp EXCEPT ![d] = NoTemp(d)] /\ Go(d, "failed")
    /\ UNCHANGED <<object, expected, dest, kills>>

Kill(c) ==
    /\ kills < MaxKills /\ at[c] \in Live
    /\ kills' = kills + 1 /\ Go(c, "killed")
    /\ UNCHANGED <<object, expected, temp, dest>>

Next ==
    \/ \E u \in Uploads : Authorise(u) \/ Put(u) \/ VerifyUpload(u)
    \/ \E r \in Removes : Delete(r)
    \/ \E d \in Downloads : Head(d) \/ Get(d) \/ Chunk(d) \/ Deliver(d) \/ Give(d)
    \/ \E c \in Callers : Kill(c)

Spec == Init /\ [][Next]_vars

-----------------------------------------------------------------------------
(* Properties *)

\* Whatever is interrupted, replaced or killed, the destination holds one
\* version as a whole, the one head described to the download that put it
\* there (S3Storage.download and VercelBlobStorage.download).
DestinationIsWhole ==
    dest # None =>
        /\ dest.len = Size /\ dest.sound
        /\ \E d \in Downloads : at[d] = "done" /\ expected[d] = dest.of

\* The temporary files of downloads that ended are gone; a killed process
\* alone leaves one (the finally blocks, storage.py:186 and blob_storage.py:265).
NoTempLeft ==
    \A d \in Downloads : temp[d] # None => at[d] \in {"read", "killed"}

\* A presigned or direct PUT creates the object or nothing ("create-only
\* semantics", storage.py:3): what is stored is never turned into another.
NeverReplaced ==
    [][object # None => object' \in {object, None}]_vars
=============================================================================
