----------------------------- MODULE AccessPolicy -----------------------------
(***************************************************************************)
(* Request budgets and revoked tokens (server/access_policy.py) of one     *)
(* tenant.  A bucket counts in a window that opens at its first request.   *)
(* check reads the clock and the revocations, then waits for the row of    *)
(* the tenant's bucket, which makes the transactions of a tenant serial.   *)
(***************************************************************************)
EXTENDS Integers, FiniteSets

CONSTANTS
    Users, TenantBudget, UserBudget,
    Window,         \* seconds a bucket counts
    Wait,           \* the longest a request waits for its rows: statement_timeout
    Lifetime,       \* a token's validity
    Horizon         \* bound: the time

\* 30 s (options=-c statement_timeout of the database's URL) in a window of 60 s.
\* The hashes of a tenant's and a user's bucket differ by their prefix.
Parameters ==
    /\ Window \in Nat /\ Wait \in Nat /\ Wait < Window /\ Lifetime \in Nat /\ Horizon \in Nat
    /\ TenantBudget \in Nat /\ UserBudget \in Nat /\ "tenant" \notin Users

Tenant == "tenant"
Buckets == Users \cup {Tenant}
Budget(b) == IF b = Tenant THEN TenantBudget ELSE UserBudget

VARIABLES
    now,
    bucket,     \* replay_access_counters: count and reset_at; count 0 is no row
    token,      \* until when each user's token is valid
    revoked,    \* replay_revoked_tokens: until when, 0 is no row
    began,      \* the clock each user's request in flight read, 0 if there is none
    out,        \* history: the users whose current token was revoked
    hist        \* history: the requests let through: their user, when, and until
                \* when the tenant's and the user's bucket counted them

vars == <<now, bucket, token, revoked, began, out, hist>>

Init ==
    /\ now = 1
    /\ bucket = [b \in Buckets |-> [count |-> 0, reset |-> 0]]
    /\ token = [u \in Users |-> 1 + Lifetime]
    /\ revoked = [u \in Users |-> 0]
    /\ began = [u \in Users |-> 0]
    /\ out = {} /\ hist = {}

OldWindowMutant(b, at) ==
    IF bucket[b].reset <= at THEN [count |-> 1, reset |-> bucket[b].reset + Window]
    ELSE [count |-> bucket[b].count + 1, reset |-> bucket[b].reset]
\* _consume: an upsert that opens a window or counts in the one that is open.
Consumed(b, at) ==
    IF bucket[b].count = 0 \/ bucket[b].reset <= at THEN [count |-> 1, reset |-> at + Window]
    ELSE [count |-> bucket[b].count + 1, reset |-> bucket[b].reset]
Fits(b, at) == Consumed(b, at).count <= Budget(b)

Valid(u) == token[u] > now /\ ~(revoked[u] > now)
Begin(u) ==
    /\ began[u] = 0 /\ Valid(u)
    /\ began' = [began EXCEPT ![u] = now]
    /\ UNCHANGED <<now, bucket, token, revoked, out, hist>>
TenantSpentMutant(at) == [bucket EXCEPT ![Tenant] = Consumed(Tenant, at)]
\* A refusal rolls back both buckets.
Refused(at) == bucket
Admitted(u, at) ==
    [user |-> u, at |-> now, n |-> Cardinality(hist),
     tenantReset |-> Consumed(Tenant, at).reset, userReset |-> Consumed(u, at).reset]
InTime(at) == now <= at + Wait
Check(u) ==
    LET at == began[u]
    IN  /\ at # 0 /\ InTime(at)
        /\ IF Fits(Tenant, at) /\ Fits(u, at)
           THEN /\ bucket' = [bucket EXCEPT ![Tenant] = Consumed(Tenant, at), ![u] = Consumed(u, at)]
                /\ hist' = hist \cup {Admitted(u, at)}
           ELSE bucket' = Refused(at) /\ UNCHANGED hist
        /\ began' = [began EXCEPT ![u] = 0]
        /\ UNCHANGED <<now, token, revoked, out>>

\* The database fails or the statement waits too long: 503, and nothing counted.
Unavailable(u) ==
    /\ began[u] # 0 /\ began' = [began EXCEPT ![u] = 0]
    /\ UNCHANGED <<now, bucket, token, revoked, out, hist>>

Revoke(u) ==
    /\ Valid(u)
    /\ revoked' = [revoked EXCEPT ![u] = IF @ > token[u] THEN @ ELSE token[u]]
    /\ out' = out \cup {u}
    /\ UNCHANGED <<now, bucket, token, began, hist>>

SoonMutant(until) == until <= now + 1
Expired(until) == until <= now
PurgeExpired ==
    /\ revoked' = [u \in Users |-> IF Expired(revoked[u]) THEN 0 ELSE revoked[u]]
    /\ bucket' = [b \in Buckets |-> IF Expired(bucket[b].reset) THEN [count |-> 0, reset |-> 0] ELSE bucket[b]]
    /\ UNCHANGED <<now, token, began, out, hist>>

Tick == now < Horizon /\ now' = now + 1 /\ UNCHANGED <<bucket, token, revoked, began, out, hist>>
Next == (\E u \in Users : Begin(u) \/ Check(u) \/ Unavailable(u) \/ Revoke(u)) \/ PurgeExpired \/ Tick
Spec == Init /\ [][Next]_vars

----------------------------------------------------------------------------

TypeOK ==
    /\ \A b \in Buckets : bucket[b].count \in 0..Budget(b)
    /\ \A u \in Users : revoked[u] \in {0, token[u]}

Spent(b, from, to) == {r \in hist : (b = Tenant \/ r.user = b) /\ r.at >= from /\ r.at < to}
\* However the windows fall, no stretch of a window less the wait lets through
\* more than two budgets: one at the end of a window, one at the start of the
\* next.  (A stretch of a whole window may see a third: a request opens a window
\* at the instant it read before it waited.)
TwoBudgetsAtMost ==
    \A b \in Buckets, from \in 1..now :
        Cardinality(Spent(b, from, from + (Window - Wait))) <= 2 * Budget(b)

\* A bucket counts only requests that were let through: a user who is refused
\* spends nothing of the tenant's budget.
OnlyAdmittedCount == \A b \in Buckets : bucket[b].count <= Cardinality(Spent(b, 1, now + 1))

\* A revoked token begins no other request, also after a purge.
RevokedStaysOut == [][\A u \in out : began'[u] # 0 => began[u] # 0]_vars
================================================================================
