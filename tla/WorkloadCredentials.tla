------------------------- MODULE WorkloadCredentials -------------------------
(***************************************************************************)
(* Cloud credentials of the workload (server/aws_identity.py): each request*)
(* carries the token of its own invocation, the process exchanges it for   *)
(* short-lived credentials and keeps them in a small cache that requests   *)
(* share under a lock.  A request then uses its client outside the lock,   *)
(* perhaps to sign a URL that must work for some time.                     *)
(***************************************************************************)
EXTENDS Integers, FiniteSets

CONSTANTS Requests,
          Tokens,     \* complete runtime tokens
          Forged,     \* those whose signature the provider refuses
          Margin,     \* refresh_margin
          Reserve,    \* what a URL's credentials last beyond it: 30 seconds
          UrlTimes,   \* how long a signed URL is to be valid
          Lifetimes,  \* what the provider grants, up to session_duration
          MaxCache,   \* max_cache_entries
          MaxTime     \* bound on the clock

Parameters ==
    /\ Tokens # {} /\ Margin \in Nat /\ Reserve \in Nat /\ UrlTimes \subseteq Nat \ {0}
    /\ Lifetimes \subseteq Nat /\ MaxCache \in Nat \ {0} /\ MaxTime \in Nat \ {0, 1}

VARIABLES now,
          tokenEnd,  \* token -> its exp
          cache,     \* entries, with the instant of their last use
          req,       \* request -> step, token, URL it is to sign, client it got and when
          urls       \* the URL signed last: until when meant to work, until when they do

vars == <<now, tokenEnd, cache, req, urls>>

NoEntry == [token |-> "none", until |-> 0, used |-> 0]
Entries == [token : Tokens, until : 0..MaxTime, used : 0..MaxTime]

Idle == [at |-> "idle", token |-> CHOOSE t \in Tokens : TRUE, url |-> 0, got |-> NoEntry, since |-> 0]

TypeOK ==
    /\ now \in 0..MaxTime /\ tokenEnd \in [Tokens -> 0..MaxTime]
    /\ cache \subseteq Entries
    /\ req \in [Requests -> [at : {"idle", "checked", "client"},
                             token : Tokens, url : {0} \cup UrlTimes, got : Entries \cup {NoEntry},
                             since : 0..MaxTime]]
    /\ urls \subseteq [meant : Int, works : 0..MaxTime]

Init ==
    /\ now = 0 /\ tokenEnd \in [Tokens -> {MaxTime - 2, MaxTime}] /\ cache = {} /\ urls = {}
    /\ req = [r \in Requests |-> Idle]

End(r) == req' = [req EXCEPT ![r] = Idle]

\* The token of this invocation, parsed and not expired; the call's needs.
Check(r) ==
    /\ req[r].at = "idle"
    /\ \E t \in {s \in Tokens : now < tokenEnd[s]}, url \in {0} \cup UrlTimes :
           req' = [req EXCEPT ![r] = [at |-> "checked", token |-> t, url |-> url, got |-> NoEntry, since |-> 0]]
    /\ UNCHANGED <<now, tokenEnd, cache, urls>>

MarginOnly(r) == Margin
Needed(r) == IF req[r].url = 0 \/ req[r].url + Reserve < Margin THEN Margin ELSE req[r].url + Reserve

Live(entry) == now < entry.until /\ now < tokenEnd[entry.token]
Purged == {e \in cache : Live(e)}

AnyEntry(c, t) == c
OfToken(c, t) == {e \in c : e.token = t}
Others(c, t) == {e \in c : e.token # t}

Kept(c, e) == {c \cup {e}}
\* The least recently used entry makes room for one more.
WithRoom(c, e) ==
    IF Cardinality(c) < MaxCache THEN {c \cup {e}}
    ELSE {(c \ {old}) \cup {e} : old \in {o \in c : \A x \in c : o.used <= x.used}}

\* The exchange: the provider checks the signature, the process the lifetime.
Established(t, needed) ==
    {[token |-> t, until |-> now + life, used |-> now] :
         life \in {l \in Lifetimes : t \notin Forged /\ l > needed /\ now + l <= MaxTime}}

\* The expired entries go, a fresh enough one is used or one is established,
\* it becomes the most recent, and the oldest falls out.
Resolve(r) ==
    /\ req[r].at = "checked"
    /\ LET t == req[r].token
           fresh == {e \in OfToken(Purged, t) : e.until > now + Needed(r)} IN
       IF now >= tokenEnd[t] THEN End(r) /\ UNCHANGED cache
       ELSE \/ \E e \in {[f EXCEPT !.used = now] :
                            f \in IF fresh # {} THEN fresh ELSE Established(t, Needed(r))} :
                   /\ cache' \in WithRoom(Others(Purged, t), e)
                   /\ req' = [req EXCEPT ![r].at = "client", ![r].got = e, ![r].since = now]
            \/ fresh = {} /\ End(r) /\ cache' = Purged
    /\ UNCHANGED <<now, tokenEnd, urls>>

\* The client is used after the lock: a URL is signed for url seconds from now.
Use(r) ==
    /\ req[r].at = "client" /\ End(r)
    /\ urls' = IF req[r].url = 0 THEN urls
               ELSE {[meant |-> now + req[r].url, works |-> req[r].got.until]}
    /\ UNCHANGED <<now, tokenEnd, cache>>

\* Shutdown: later calls establish their credentials again.
Close ==
    /\ cache # {} /\ cache' = {}
    /\ UNCHANGED <<now, tokenEnd, req, urls>>

\* A client is used within Reserve of its resolution.
Tick ==
    /\ now < MaxTime /\ now' = now + 1
    /\ \A r \in Requests : req[r].at = "client" => now < req[r].since + Reserve
    /\ UNCHANGED <<tokenEnd, cache, req, urls>>

Next == (\E r \in Requests : Check(r) \/ Resolve(r) \/ Use(r)) \/ Close \/ Tick

Spec == Init /\ [][Next]_vars

-----------------------------------------------------------------------------
(* A signed URL works for as long as it was meant to: the credentials that *)
(* sign it, shared and cached as they are, outlive it.                     *)
UrlsWorkAsLong == \A u \in urls : u.works >= u.meant

(* A modified token never borrows the credentials that another request's   *)
(* verified token put into the cache.                                      *)
ForgedGetsNothing == \A r \in Requests : req[r].at = "client" => req[r].token \notin Forged

(* However many tokens come and go, the cache stays within its limit.      *)
CacheIsBounded == Cardinality(cache) <= MaxCache
=============================================================================
