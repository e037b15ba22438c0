----------------------------- MODULE SigningKeys -----------------------------
(***************************************************************************)
(* The cached signing keys of the identity provider (JWTAuthenticator in   *)
(* server/auth.py): requests look a key up under one lock, and fetch the   *)
(* provider's key set when it is old or does not know the key; the         *)
(* provider rotates and withdraws keys, and may not answer.                *)
(***************************************************************************)
EXTENDS Integers, FiniteSets

CONSTANTS Keys,      \* key identifiers the provider publishes at some time
          Forged,    \* identifiers it never publishes
          Requests,
          Ttl,       \* jwks_ttl
          Spacing,   \* 5 seconds: between refreshes for unknown keys, and after a failure
          Slow,      \* a fetch takes at most this
          MaxTime    \* bound on the clock

Parameters ==
    /\ Keys # {} /\ "none" \notin Requests /\ Keys \cap Forged = {}
    /\ Ttl \in Nat /\ Spacing \in Nat /\ Slow \in Nat /\ MaxTime \in Nat

VARIABLES now,
          published,   \* keys the provider publishes
          withdrawn,   \* key -> instant at which it was withdrawn, or MaxTime + 1
          cache,       \* keys the process holds
          expires, refreshed, unavailable,   \* its three instants
          holder,      \* request that holds the lock, with the instant it read, or none
          req          \* request -> its step and its key

vars == <<now, published, withdrawn, cache, expires, refreshed, unavailable, holder, req>>
provider == <<published, withdrawn>>
instants == <<expires, refreshed, unavailable>>

Never == MaxTime + 1
Free == [by |-> "none", at |-> 0]

TypeOK ==
    /\ now \in 0..MaxTime /\ published \subseteq Keys /\ withdrawn \in [Keys -> 0..Never]
    /\ cache \subseteq Keys /\ expires \in 0..(MaxTime + Ttl)
    /\ refreshed \in -Spacing..MaxTime /\ unavailable \in 0..(MaxTime + Spacing)
    /\ holder \in {Free} \cup [by : Requests, at : 0..MaxTime]
    /\ req \in [Requests -> [at : {"idle", "waiting", "fetching", "accepted", "refused", "unavailable"},
                             kid : Keys \cup Forged]]

Init ==
    /\ now = 0 /\ published \in {{k} : k \in Keys} /\ withdrawn = [k \in Keys |-> Never]
    /\ cache = {} /\ expires = 0 /\ refreshed = -Spacing /\ unavailable = 0
    /\ holder = Free
    /\ req = [r \in Requests |-> [at |-> "idle", kid |-> CHOOSE k \in Keys : TRUE]]

To(r, step) == req' = [req EXCEPT ![r].at = step]

\* Tokens carry the key they name; the provider signs with what it publishes.
Arrive(r) ==
    /\ req[r].at \notin {"waiting", "fetching"}
    /\ \E kid \in Keys \cup Forged : req' = [req EXCEPT ![r] = [at |-> "waiting", kid |-> kid]]
    /\ UNCHANGED <<now, provider, cache, instants, holder>>

-----------------------------------------------------------------------------
(* _key, under the lock *)

OnlyWhenOld(r) == now >= expires
UnknownAlways(r) == now >= expires \/ req[r].kid \notin cache
Refresh(r) == now >= expires \/ (req[r].kid \notin cache /\ now - refreshed >= Spacing)

Verdict(keys, r) == IF req[r].kid \in keys THEN "accepted" ELSE "refused"

Enter(r) ==
    /\ req[r].at = "waiting" /\ holder = Free
    /\ IF now < unavailable
       THEN To(r, "unavailable") /\ UNCHANGED <<holder, refreshed>>
       ELSE IF Refresh(r)
       THEN /\ To(r, "fetching") /\ holder' = [by |-> r, at |-> now]
            /\ refreshed' = now
       ELSE To(r, Verdict(cache, r)) /\ UNCHANGED <<holder, refreshed>>
    /\ UNCHANGED <<now, provider, cache, expires, unavailable>>

Merged == cache \cup published
Replaced == published

\* The set as the provider publishes it replaces the old one, from the instant
\* before the fetch.
Fetched(r) ==
    /\ req[r].at = "fetching" /\ published # {}
    /\ cache' = Replaced /\ expires' = holder.at + Ttl
    /\ To(r, Verdict(Replaced, r)) /\ holder' = Free
    /\ UNCHANGED <<now, provider, refreshed, unavailable>>

\* No answer, or no usable key in it: nobody is served for a while.
FetchFails(r) ==
    /\ req[r].at = "fetching"
    /\ unavailable' = now + Spacing /\ To(r, "unavailable") /\ holder' = Free
    /\ UNCHANGED <<now, provider, cache, expires, refreshed>>

-----------------------------------------------------------------------------
(* The provider and the clock *)

Publish(k) ==
    /\ k \notin published /\ withdrawn[k] = Never /\ published' = published \cup {k}
    /\ UNCHANGED <<now, withdrawn, cache, instants, holder, req>>

Withdraw(k) ==
    /\ k \in published /\ published' = published \ {k} /\ withdrawn' = [withdrawn EXCEPT ![k] = now]
    /\ UNCHANGED <<now, cache, instants, holder, req>>

\* The client gives a fetch up after Slow.
Tick ==
    /\ now < MaxTime /\ (holder # Free => now < holder.at + Slow) /\ now' = now + 1
    /\ UNCHANGED <<provider, cache, instants, holder, req>>

Next ==
    \/ \E r \in Requests : Arrive(r) \/ Enter(r) \/ Fetched(r) \/ FetchFails(r)
    \/ \E k \in Keys : Publish(k) \/ Withdraw(k)
    \/ Tick

Spec == Init /\ [][Next]_vars

-----------------------------------------------------------------------------
(* Properties *)

\* A withdrawn key is not accepted for longer than the cache lives, however the
\* fetches and the requests interleave (_expires counts from before the fetch).
WithdrawnKeyLapses ==
    [][\A r \in Requests : req[r].at # "accepted" /\ req'[r].at = "accepted"
          => now < withdrawn[req[r].kid] + Ttl]_vars

\* "Unknown kids can trigger rotation refresh, but cannot flood the issuer"
\* (auth.py:112): two fetches are never closer than Spacing, or than the life of
\* the cache where that is shorter.
FetchesAreSpaced ==
    [][holder = Free /\ holder' # Free
          => now - refreshed >= (IF Spacing < Ttl THEN Spacing ELSE Ttl)]_vars

\* A key published a while ago is accepted, unless the provider does not answer:
\* no forged identifier before it can use up its refresh.
RotationIsPickedUp ==
    [][\A r \in Requests : req[r].at # "refused" /\ req'[r].at = "refused" /\ req[r].kid \in published
          => now - refreshed < Spacing]_vars
=============================================================================
