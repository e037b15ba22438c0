------------------------------- MODULE Accounts -------------------------------
(***************************************************************************)
(* Google accounts, their sessions and their administration                *)
(* (server/google_auth.py, server/member_management.py) as transactions on *)
(* PostgreSQL at READ COMMITTED: a transaction takes its row locks one     *)
(* after the other, reads, and commits what it decided, all locks at once. *)
(* Without the locks another transaction commits between the read and the  *)
(* write.                                                                  *)
(*                                                                         *)
(* A family is the sessions of one login.  A refresh retires the token and *)
(* mints its successor in the same family.                                 *)
(***************************************************************************)
EXTENDS Integers, FiniteSets, Sequences

CONSTANTS
    Members,        \* accounts (tenants)
    Admins,         \* the members the configuration names as site administrators
    Families,       \* bound: logins, by the order of their identifiers
    Tokens,         \* bound: sessions
    Challenges,     \* bound: login challenges
    Handlers,       \* bound: concurrent transactions
    MaxLogins       \* 20 in the code: live sessions of an account

None == "none"

NoLogin == 0

ASSUME FamiliesAssumption == Families \subseteq Nat \ {NoLogin}

VARIABLES
    enabled,    \* replay_google_identities.enabled
    family,     \* owner and state of each login
    session,    \* family and state of each token
    open,       \* the challenges that were not consumed
    minted,     \* history: the challenge each family was minted for
    tx          \* kind, arguments, locks held and verdict of each transaction;
                \* `expired` are the rows that the maintenance pass found

vars == <<enabled, family, session, open, minted, tx>>

Idle == [kind |-> "idle", member |-> None, actor |-> None, token |-> None, challenge |-> None,
         expired |-> {}, held |-> {}, verdict |-> None]

Init ==
    /\ enabled = [m \in Members |-> TRUE]
    /\ family = [f \in Families |-> [owner |-> None, state |-> "none"]]
    /\ session = [t \in Tokens |-> [family |-> NoLogin, state |-> "none"]]
    /\ open = Challenges
    /\ minted = [f \in Families |-> None]
    /\ tx = [h \in Handlers |-> Idle]

Live(t) == session[t].state = "live" /\ family[session[t].family].state = "open"
LiveOf(m) == {t \in Tokens : Live(t) /\ family[session[t].family].owner = m}
FamiliesOf(m) == {f \in Families : family[f].owner = m}

----------------------------------------------------------------------------
(* The rows a transaction locks, in order.                                   *)

Gate == <<"gate", "gate">>
Identity(m) == <<"identity", m>>
FamilyRow(f) == <<"family", f>>
ChallengeRow(c) == <<"challenge", c>>

\* A token's family never changes, so it is read without a lock.
TokenLocksReversedMutant(f) == <<FamilyRow(f), Identity(family[f].owner)>>
TokenLocks(f) == <<Identity(family[f].owner), FamilyRow(f)>>
NoExchangeLocksMutant(m, c) == <<>>
ExchangeLocks(m, c) == <<ChallengeRow(c), Identity(m)>>
NoAdminLocksMutant(a, m) == <<>>
AdminLocks(a, m) == IF a = m THEN <<Gate, Identity(a)>> ELSE <<Gate, Identity(a), Identity(m)>>
LocksOf(x) ==
    CASE x.kind = "exchange" -> ExchangeLocks(x.member, x.challenge)
      [] x.kind = "refresh" -> TokenLocks(session[x.token].family)
      [] x.kind = "logout" -> <<FamilyRow(session[x.token].family)>>
      [] x.kind \in {"suspend", "enable", "revoke"} -> AdminLocks(x.actor, x.member)
      [] x.kind = "purge" -> <<>>
Rows(x) == LET q == LocksOf(x) IN {q[i] : i \in DOMAIN q}

\* _actor: authority is the configuration's and the row's, not the token's.
Actor(a) == a \in Admins /\ enabled[a]
EnabledAdmins == {a \in Admins : enabled[a]}
\* Who suspends an administrator locks all of them to count them.
Peers(x) ==
    IF x.kind = "suspend" /\ x.verdict = None /\ x.member \in Admins /\ x.actor # x.member /\ Actor(x.actor)
    THEN {Identity(a) : a \in EnabledAdmins} ELSE {}
\* An update of a member's logins locks their rows, in the order of its scan.
Revokes(x) == IF x.kind \in {"suspend", "revoke"} /\ x.verdict = "yes"
              THEN {FamilyRow(f) : f \in {g \in FamiliesOf(x.member) : family[g].state # "purged"}} ELSE {}
\* The pass locks those of the rows it found that are still there.
Due(x) == {f \in x.expired : family[f].state = "over"}
Missing(h) == (Rows(tx[h]) \cup Peers(tx[h]) \cup Revokes(tx[h]) \cup {FamilyRow(f) : f \in Due(tx[h])})
                \ tx[h].held
Ordered(h) == LET q == LocksOf(tx[h])
              IN  {q[i] : i \in {n \in DOMAIN q : \A k \in 1..(n - 1) : q[k] \in tx[h].held}}
ScanOrderMutant(fs) == fs
\* ORDER BY families.id
LowestOf(fs) == {f \in fs : \A g \in fs : f <= g}
\* The locks h may ask for next.
NextLocks(h) ==
    IF tx[h].kind = "purge"
    THEN {FamilyRow(f) : f \in LowestOf({g \in Due(tx[h]) : FamilyRow(g) \notin tx[h].held})}
    ELSE IF Rows(tx[h]) \subseteq tx[h].held THEN Missing(h) ELSE Missing(h) \cap Ordered(h)
HeldByOther(h, lock) == \E o \in Handlers \ {h} : lock \in tx[o].held

Begin(h, kind, m, a, t, c) ==
    /\ tx[h].kind = "idle"
    /\ tx' = [tx EXCEPT ![h] = [Idle EXCEPT !.kind = kind, !.member = m, !.actor = a,
                                            !.token = t, !.challenge = c]]
    /\ UNCHANGED <<enabled, family, session, open, minted>>
\* The maintenance pass selects the logins that are over.
BeginPurge(h) ==
    /\ tx[h].kind = "idle"
    /\ tx' = [tx EXCEPT ![h] = [Idle EXCEPT !.kind = "purge",
                                            !.expired = {f \in Families : family[f].state = "over"}]]
    /\ UNCHANGED <<enabled, family, session, open, minted>>
Lock(h) ==
    /\ tx[h].kind # "idle"
    /\ \E lock \in NextLocks(h) :
         /\ ~HeldByOther(h, lock)
         /\ tx' = [tx EXCEPT ![h].held = @ \cup {lock}]
    /\ UNCHANGED <<enabled, family, session, open, minted>>

----------------------------------------------------------------------------
(* What a transaction reads once it holds its rows.                          *)

MaySuspend(a, m) == Actor(a) /\ a # m /\ (m \in Admins => Cardinality(EnabledAdmins) > 1)
MayLogIn(m) == enabled[m] /\ Cardinality(LiveOf(m)) < MaxLogins
MayRefresh(t) == Live(t) /\ enabled[family[session[t].family].owner]
MayLogoutMutant(t) == session[t].state = "live"
MayLogout(t) == family[session[t].family].state # "purged"
Permitted(x) ==
    CASE x.kind = "exchange" -> x.challenge \in open /\ MayLogIn(x.member)
      [] x.kind = "refresh" -> MayRefresh(x.token)
      [] x.kind = "logout" -> MayLogout(x.token)
      [] x.kind = "suspend" -> MaySuspend(x.actor, x.member)
      [] x.kind \in {"enable", "revoke"} -> Actor(x.actor)
      [] x.kind = "purge" -> TRUE
Read(h) ==
    /\ tx[h].kind # "idle" /\ tx[h].verdict = None /\ Missing(h) = {}
    /\ tx' = [tx EXCEPT ![h].verdict = IF Permitted(tx[h]) THEN "yes" ELSE "no"]
    /\ UNCHANGED <<enabled, family, session, open, minted>>

----------------------------------------------------------------------------
(* What it writes, and the end of all its locks.                             *)

Ready(h, kind, verdict) == tx[h].kind = kind /\ tx[h].verdict = verdict /\ Missing(h) = {}
Done(h) == tx' = [tx EXCEPT ![h] = Idle]
FreshToken == {t \in Tokens : session[t].state = "none"}

\* The login is a new family with one session.
Exchange(h, f, t) ==
    /\ Ready(h, "exchange", "yes")
    /\ family[f].state = "none" /\ t \in FreshToken
    /\ family' = [family EXCEPT ![f] = [owner |-> tx[h].member, state |-> "open"]]
    /\ session' = [session EXCEPT ![t] = [family |-> f, state |-> "live"]]
    /\ open' = open \ {tx[h].challenge}
    /\ minted' = [minted EXCEPT ![f] = tx[h].challenge]
    /\ Done(h) /\ UNCHANGED enabled
\* A refusal consumes the challenge too.
ExchangeRefused(h) ==
    /\ Ready(h, "exchange", "no")
    /\ open' = open \ {tx[h].challenge}
    /\ Done(h) /\ UNCHANGED <<enabled, family, session, minted>>

KeptMutant == "live"
\* The old token is kept, retired, until its login is over.
AfterRefresh == "retired"
Refresh(h, t) ==
    LET old == tx[h].token
    IN  /\ Ready(h, "refresh", "yes") /\ t \in FreshToken
        /\ session' = [session EXCEPT ![old].state = AfterRefresh,
                                      ![t] = [family |-> session[old].family, state |-> "live"]]
        /\ Done(h) /\ UNCHANGED <<enabled, family, open, minted>>

Shut(f) == IF family[f].state = "open" THEN [family[f] EXCEPT !.state = "revoked"] ELSE family[f]
Logout(h) ==
    /\ Ready(h, "logout", "yes")
    /\ family' = [family EXCEPT ![session[tx[h].token].family] = Shut(session[tx[h].token].family)]
    /\ Done(h) /\ UNCHANGED <<enabled, session, open, minted>>

RevokedAll(m) == [f \in Families |-> IF family[f].owner = m THEN Shut(f) ELSE family[f]]
Suspend(h) ==
    /\ Ready(h, "suspend", "yes")
    /\ enabled' = [enabled EXCEPT ![tx[h].member] = FALSE]
    /\ family' = RevokedAll(tx[h].member)
    /\ Done(h) /\ UNCHANGED <<session, open, minted>>
Enable(h) ==
    /\ Ready(h, "enable", "yes")
    /\ enabled' = [enabled EXCEPT ![tx[h].member] = TRUE]
    /\ Done(h) /\ UNCHANGED <<family, session, open, minted>>
RevokeSessions(h) ==
    /\ Ready(h, "revoke", "yes")
    /\ family' = RevokedAll(tx[h].member)
    /\ Done(h) /\ UNCHANGED <<enabled, session, open, minted>>
Purge(h) ==
    /\ Ready(h, "purge", "yes")
    /\ family' = [f \in Families |-> IF f \in Due(tx[h]) THEN [family[f] EXCEPT !.state = "purged"] ELSE family[f]]
    /\ Done(h) /\ UNCHANGED <<enabled, session, open, minted>>

\* Any other refusal, a transaction that the server aborts to break a deadlock,
\* and a connection that breaks before the commit.
Rollback(h) ==
    /\ tx[h].kind # "idle"
    /\ Done(h) /\ UNCHANGED <<enabled, family, session, open, minted>>

----------------------------------------------------------------------------

\* After an hour, and after a day.
Expire(t) ==
    /\ session[t].state = "live"
    /\ session' = [session EXCEPT ![t].state = "expired"]
    /\ UNCHANGED <<enabled, family, open, minted, tx>>
Over(f) ==
    /\ family[f].state \in {"open", "revoked"}
    /\ family' = [family EXCEPT ![f].state = "over"]
    /\ UNCHANGED <<enabled, session, open, minted, tx>>

Request(h) ==
    \/ \E m \in Members, c \in Challenges : Begin(h, "exchange", m, None, None, c)
    \/ \E t \in Tokens, kind \in {"refresh", "logout"} :
         session[t].state # "none" /\ Begin(h, kind, None, None, t, None)
    \/ \E a \in Admins, m \in Members, kind \in {"suspend", "enable", "revoke"} :
         Begin(h, kind, m, a, None, None)
    \/ BeginPurge(h)
Commit(h) ==
    \/ \E f \in Families, t \in Tokens : Exchange(h, f, t)
    \/ \E t \in Tokens : Refresh(h, t)
    \/ ExchangeRefused(h) \/ Logout(h) \/ Suspend(h) \/ Enable(h) \/ RevokeSessions(h) \/ Purge(h)
Next ==
    \/ \E h \in Handlers : Request(h) \/ Lock(h) \/ Read(h) \/ Commit(h) \/ Rollback(h)
    \/ \E t \in Tokens : Expire(t)
    \/ \E f \in Families : Over(f)

Spec == Init /\ [][Next]_vars

----------------------------------------------------------------------------
(* Properties. *)

TypeOK ==
    /\ \A t \in Tokens : session[t].state # "none" => family[session[t].family].state # "none"
    /\ \A f \in Families : family[f].state = "none" <=> family[f].owner = None
    /\ \A h, o \in Handlers : h # o => tx[h].held \cap tx[o].held = {}

\* A login has one live token, however many refreshes of it overlap.
OneLiveTokenPerLogin ==
    \A t, u \in Tokens : Live(t) /\ Live(u) /\ session[t].family = session[u].family => t = u

\* A challenge makes one login at most.
OneLoginPerChallenge ==
    \A f, g \in Families : minted[f] # None /\ minted[f] = minted[g] => f = g

\* An account never exceeds its live sessions, by logins or by refreshes.
LoginsBounded == \A m \in Members : Cardinality(LiveOf(m)) <= MaxLogins

\* A suspended account has no live session: a login or a refresh that began
\* before the suspension does not survive it.
SuspendedHasNoSession == \A m \in Members : ~enabled[m] => LiveOf(m) = {}

\* Administrators who suspend each other at once leave one of them.
AnAdminRemains == EnabledAdmins # {}

\* A logout is refused only when its login is over: one sent with a token that
\* a racing refresh has just retired still ends the successor.
LogoutEndsLogin ==
    \A h \in Handlers, t \in Tokens :
        tx[h].kind = "logout" /\ tx[h].verdict = "no" => ~(Live(t) /\ session[t].family = session[tx[h].token].family)

\* Two transactions never wait for each other ("identity-before-family lock
\* order"), but for the maintenance pass, which takes the rows of logins that are
\* over by their identifiers, and an update of a member's logins, which takes
\* them as it finds them: the server aborts one of the two (Rollback).
Waits(h) == {o \in Handlers \ {h} : tx[h].kind # "idle" /\ \E lock \in NextLocks(h) : lock \in tx[o].held}
ByIdAndByScan(x, y) == x.kind = "purge" /\ y.kind \in {"suspend", "revoke"}
NoDeadlock ==
    \A h \in Handlers : \A o \in Waits(h) :
        h \in Waits(o) => ByIdAndByScan(tx[h], tx[o]) \/ ByIdAndByScan(tx[o], tx[h])

\* However logins, refreshes, logouts and administrators' changes interleave, a
\* login has one live token and comes of one challenge, an account keeps to its
\* limit and to its suspension, a logout ends its login, an administrator
\* remains and, but for the case that NoDeadlock names, no two transactions wait
\* for each other.
LoginsAreSingle ==
    /\ TypeOK
    /\ OneLiveTokenPerLogin /\ OneLoginPerChallenge /\ LoginsBounded
    /\ SuspendedHasNoSession /\ LogoutEndsLogin
    /\ AnAdminRemains
    /\ NoDeadlock
================================================================================
