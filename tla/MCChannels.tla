------------------------------ MODULE MCChannels ------------------------------
(* Where the broadcasts go, small enough for TLC: recurring broadcasts (to a  *)
(* platform that is YouTube, or of the channel's newest recording), the       *)
(* connection to the YouTube channel, and the saved stream keys.  They do not *)
(* share state: `part` picks, once, the one whose steps are taken and the     *)
(* variables of the others stay as they are.                                  *)
EXTENDS Automations, Sequences, TLC

CONSTANTS None,
          Flows, Callbacks, Readers,
          Instances, Owners, Destinations, Requests, Jobs, MaxKey, Slots,
          Saveable      \* bound: the destinations an account saves

VARIABLES part,
          begun, wanted, flow, stored, grant, cb, reader, allowed, exchanges, given,
          env, ring, saved, backup, record, job, told, slots, lookups, early, lost

channel == <<begun, wanted, flow, stored, grant, cb, reader, allowed, exchanges, given>>
secrets == <<env, ring, saved, backup, record, job, told, slots, lookups, early, lost>>
every == <<part, vars, channel, secrets>>

\* The configuration's own broadcasts go to other platforms; here to YouTube.
Broadcast == INSTANCE Automations WITH OnYouTube <- TRUE

Channel == INSTANCE YouTubeChannel WITH asked <- wanted

Secrets == INSTANCE StreamSecrets

ASSUME PartsAssumption == Channel!Parameters /\ Secrets!Parameters

EachInit ==
    /\ part \in {"broadcast", "newest", "channel", "secrets"}
    /\ Init /\ (part \in {"channel", "secrets"} => latest = NoVideo)
    /\ IF part = "channel" THEN Channel!Init
       ELSE Channel!Init /\ reader = [r \in Readers |->
                    [at |-> "idle", live |-> TRUE, named |-> TRUE, seen |-> None, row |-> None]]
    /\ Secrets!Init

\* Bound: one broadcast to YouTube.
OneRun == run[2].state = "none"
\* Bound: nobody stops the schedule during its second run.
Undisturbed == OneRun \/ sched.enabled
\* Bound: an account saves one of the destinations.
OneSaved == \A o \in Owners : saved[o] = None \/ saved[o].of \in Saveable
\* Bound: the operator is careless with one key at most.
OneMistake == Cardinality(early) + Cardinality(lost) <= 1

EachNext ==
    /\ part' = part
    /\ \/ part = "broadcast" /\ Broadcast!Next /\ OneRun' /\ UNCHANGED <<channel, secrets>>
       \/ part = "newest" /\ Next /\ Undisturbed' /\ UNCHANGED <<channel, secrets>>
       \/ part = "channel" /\ Channel!Next /\ UNCHANGED <<vars, secrets>>
       \/ part = "secrets" /\ Secrets!Next /\ OneSaved' /\ OneMistake' /\ UNCHANGED <<vars, channel>>

\* Of Automations, whose progress is checked for the broadcast to YouTube.
Fairness ==
    /\ \A c \in Coordinators : /\ WF_vars(part = "broadcast" /\ Broadcast!Work(c))
                               /\ SF_vars(part = "broadcast" /\ Broadcast!Overdue(c))
    /\ WF_vars(part = "broadcast" /\ \E s \in {"ready", "failed"} : Broadcast!ImportEnds(1, s))
    /\ WF_vars(part = "broadcast" /\ \E s \in {"completed", "failed"} : Broadcast!BatchEnds(1, s))
EachSpec == EachInit /\ [][EachNext]_every /\ Fairness

-----------------------------------------------------------------------------
\* No run of a recurring broadcast stays active for ever, whatever YouTube does
\* and whichever coordinator dies, and it is called completed only if YouTube
\* was live (RunsEnd under its fairness, CompletedWasLive of Automations).
RunsEndWell ==
    /\ part = "broadcast" => (sched.active = 1 ~> sched.active # 1)
    /\ [](part = "broadcast" => Broadcast!CompletedWasLive)

\* Credentials stay usable.  Whatever consents, redirects and disconnects overlap,
\* a consent is exchanged once, the grant belongs to the stored token, what was
\* given up stays gone and credentials for a broadcast can broadcast; a stored
\* stream key can be opened after any rotation or restore that keeps the keys in
\* use, an answer names one job, and lookups do not pile up (the invariants of
\* YouTubeChannel and StreamSecrets).
CredentialsAreLive ==
    /\ Channel!TypeOK /\ Channel!OneExchangePerConsent
    /\ Channel!GrantMatchesToken /\ Channel!GivenUpStaysGone /\ Channel!LiveCredentialsAreLive
    /\ Secrets!TypeOK /\ Secrets!StoredSecretsOpen
    /\ Secrets!OneJobPerAnswer /\ Secrets!LookupsBounded
=============================================================================
