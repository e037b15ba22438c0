------------------------------- MODULE MCAccess -------------------------------
(* Who may do what, small enough for TLC: the accounts (two administrators,   *)
(* who may suspend each other) with their logins, the budgets of requests,    *)
(* the provider's signing keys and the credentials of the workload.  They do  *)
(* not share state: `part` picks, once, the one whose steps are taken and the *)
(* variables of the others stay as they are.  Prefixes tell apart variables   *)
(* of the same name: k for the signing keys, w for the workload.              *)
EXTENDS Accounts, TLC

CONSTANTS Users, TenantBudget, UserBudget, Window, Wait, Lifetime, Horizon,
          Keys, ForgedKeys, Ttl, Spacing, Slow, KeyTime,
          Credentials, ForgedCredentials, Margin, Reserve, UrlTimes, Lifetimes, MaxCache, WorkTime

VARIABLES part,
          now, bucket, token, revoked, began, out, hist,
          kNow, published, withdrawn, cache, expires, refreshed, unavailable, holder, req,
          wNow, tokenEnd, wCache, wReq, urls

policy == <<now, bucket, token, revoked, began, out, hist>>
keys == <<kNow, published, withdrawn, cache, expires, refreshed, unavailable, holder, req>>
workload == <<wNow, tokenEnd, wCache, wReq, urls>>
every == <<part, vars, policy, keys, workload>>

Policy == INSTANCE AccessPolicy

SignedBy == INSTANCE SigningKeys WITH
    Forged <- ForgedKeys, Requests <- Handlers, MaxTime <- KeyTime, now <- kNow

Workload == INSTANCE WorkloadCredentials WITH
    Requests <- Handlers, Tokens <- Credentials, Forged <- ForgedCredentials, MaxTime <- WorkTime,
    now <- wNow, cache <- wCache, req <- wReq

ASSUME PartsAssumption == Policy!Parameters /\ SignedBy!Parameters /\ Workload!Parameters

EachInit ==
    /\ part \in {"accounts", "policy", "keys", "workload"}
    /\ Init /\ Policy!Init
    /\ SignedBy!Init /\ (part # "keys" => published = {CHOOSE k \in Keys : TRUE})
    /\ Workload!Init /\ (part # "workload" => tokenEnd = [t \in Credentials |-> WorkTime])

\* Bound: one session in all runs out, or logins do.
FewAreOver ==
    LET aged == {f \in Families : family[f].state \in {"over", "purged"}}
        expired == {t \in Tokens : session[t].state = "expired"}
    IN  expired = {} \/ (aged = {} /\ Cardinality(expired) = 1)

\* Bound: one account in all logs in; the others administer it.
OneLogsIn ==
    Cardinality({family[f].owner : f \in {g \in Families : family[g].owner # None}}
                  \cup {tx[h].member : h \in {g \in Handlers : tx[g].kind = "exchange"}}) <= 1

\* Bound: administrators meet before the first login; from then on there is one
\* at a time and it is about the account that logged in.
AdministratorsMeetFirst ==
    LET administering == {h \in Handlers : tx[h].kind \in {"suspend", "enable", "revoke"}}
        owners == {family[f].owner : f \in Families} \ {None}
    IN  owners = {} \/ (Cardinality(administering) <= 1 /\ \A h \in administering : tx[h].member \in owners)

EachNext ==
    /\ part' = part
    /\ \/ /\ part = "accounts" /\ Next /\ UNCHANGED <<policy, keys, workload>>
          /\ FewAreOver' /\ OneLogsIn' /\ AdministratorsMeetFirst'
       \/ part = "policy" /\ Policy!Next /\ UNCHANGED <<vars, keys, workload>>
       \/ part = "keys" /\ SignedBy!Next /\ UNCHANGED <<vars, policy, workload>>
       \/ part = "workload" /\ Workload!Next /\ UNCHANGED <<vars, policy, keys>>

EachSpec == EachInit /\ [][EachNext]_every

Symmetry == Permutations(Members) \cup Permutations(Tokens)
              \cup Permutations(Challenges) \cup Permutations(Handlers)

-----------------------------------------------------------------------------
\* In a window less the longest wait at most two budgets get through, and a
\* request that was refused counts for nobody (AccessPolicy).
BudgetsHold ==
    Policy!TypeOK /\ Policy!TwoBudgetsAtMost /\ Policy!OnlyAdmittedCount

\* What was withdrawn lapses: a signing key after the life of the cache, a
\* revoked token at once; and what was handed out works as long as it was meant
\* to (AccessPolicy, SigningKeys, WorkloadCredentials).
CredentialsLapse ==
    /\ Policy!RevokedStaysOut
    /\ SignedBy!WithdrawnKeyLapses /\ SignedBy!FetchesAreSpaced /\ SignedBy!RotationIsPickedUp
    /\ [](/\ SignedBy!TypeOK /\ Workload!TypeOK /\ Workload!UrlsWorkAsLong
          /\ Workload!ForgedGetsNothing /\ Workload!CacheIsBounded)
=============================================================================
