--------------------------- MODULE YouTubeChannel ---------------------------
(***************************************************************************)
(* A user's connection to a YouTube channel (server/youtube_channel.py):   *)
(* consent flows that Google's redirect finishes, the stored channel with  *)
(* its grant, disconnects, and readers of credentials, each a sequence of  *)
(* transactions with calls to Google in between.  One owner.               *)
(***************************************************************************)
EXTENDS Naturals, FiniteSets

CONSTANTS Flows,        \* consent flows the user may begin, in the order of these numbers
          Callbacks,    \* requests to finish one; a redirect may come twice
          Readers,      \* requests for credentials
          None

\* Google grants each flow the channel and the scopes the user picked there.
Channel == [of : Flows, live : BOOLEAN]

VARIABLES begun,     \* flows begun
          asked,     \* flow -> it asked for the live scope
          flow,      \* stored flow, or None
          stored,    \* stored channel and refresh token, or None
          grant,     \* stored scopes: live or not, or None
          cb,        \* callback -> its step, its flow and the channel it got
          reader,    \* reader -> its step, whether it needs the live scope, the connection its
                     \* first query saw, the row it read, whether Google named the token's scopes
          allowed,   \* the tenant is admitted
          exchanges, \* flow -> code exchanges with its verifier
          given      \* consents given up: replaced or expired unused, disconnected, reconnected

vars == <<begun, asked, flow, stored, grant, cb, reader, allowed, exchanges, given>>

Parameters == Flows \subseteq Nat /\ None \notin Flows \cup Channel \cup BOOLEAN

TypeOK ==
    /\ begun \subseteq Flows /\ asked \in [Flows -> BOOLEAN] /\ flow \in Flows \cup {None}
    /\ stored \in Channel \cup {None} /\ grant \in BOOLEAN \cup {None}
    /\ cb \in [Callbacks -> [at : {"idle", "exchange", "store", "done", "failed"},
                              flow : Flows \cup {None}, got : Channel \cup {None}]]
    /\ reader \in [Readers -> [at : {"idle", "row", "refresh", "done", "failed"},
                                live : BOOLEAN, named : BOOLEAN,
                                seen : Channel \cup {None}, row : Channel \cup {None}]]
    /\ allowed \in BOOLEAN /\ exchanges \in [Flows -> Nat] /\ given \subseteq Flows

Init ==
    /\ begun = {} /\ asked = [f \in Flows |-> FALSE] /\ flow = None /\ stored = None /\ grant = None
    /\ cb = [c \in Callbacks |-> [at |-> "idle", flow |-> None, got |-> None]]
    /\ reader \in [Readers -> [at : {"idle"}, live : BOOLEAN, named : {TRUE}, seen : {None}, row : {None}]]
    /\ allowed = TRUE /\ exchanges = [f \in Flows |-> 0] /\ given = {}

-----------------------------------------------------------------------------
(* begin, finish, disconnect *)

Pending == {flow} \ {None}
Connected == IF stored = None THEN {} ELSE {stored.of}

\* The owner's other flows go.
Begin(f) ==
    /\ f \notin begun /\ \A g \in Flows : g < f => g \in begun
    /\ begun' = begun \cup {f} /\ flow' = f /\ given' = given \cup Pending
    /\ \E live \in BOOLEAN : asked' = [asked EXCEPT ![f] = live]
    /\ UNCHANGED <<stored, grant, cb, reader, allowed, exchanges>>

Expire ==
    /\ flow # None /\ flow' = None /\ given' = given \cup Pending
    /\ UNCHANGED <<begun, asked, stored, grant, cb, reader, allowed, exchanges>>

Kept(f) == flow
Taken(f) == None

\* First transaction: the flow is read for update and deleted.
TakeFlow(c, f) ==
    /\ cb[c].at = "idle"
    /\ IF flow = f
       THEN flow' = Taken(f) /\ cb' = [cb EXCEPT ![c] = [at |-> "exchange", flow |-> f, got |-> None]]
       ELSE f \in begun /\ UNCHANGED flow /\ cb' = [cb EXCEPT ![c].at = "failed"]
    /\ UNCHANGED <<begun, asked, stored, grant, reader, allowed, exchanges, given>>

ScopesSuffice(f, live) == asked[f] => live

\* The code is exchanged and the channel read; the user may have granted less.
Exchange(c) ==
    /\ cb[c].at = "exchange"
    /\ LET f == cb[c].flow IN
       /\ exchanges' = [exchanges EXCEPT ![f] = @ + 1]
       /\ \/ cb' = [cb EXCEPT ![c].at = "failed"]
          \/ \E live \in BOOLEAN : /\ ScopesSuffice(f, live)
                                     /\ cb' = [cb EXCEPT ![c].at = "store", ![c].got = [of |-> f, live |-> live]]
    /\ UNCHANGED <<begun, asked, flow, stored, grant, reader, allowed, given>>

GrantLeft(c) == IF grant = None THEN cb[c].got.live ELSE grant
GrantOf(c) == cb[c].got.live

\* Last transaction: channel and grant are replaced together.
Store(c) ==
    /\ cb[c].at = "store"
    /\ IF allowed
       THEN stored' = cb[c].got /\ grant' = GrantOf(c) /\ given' = given \cup Connected
       ELSE UNCHANGED <<stored, grant, given>>
    /\ cb' = [cb EXCEPT ![c].at = IF allowed THEN "done" ELSE "failed"]
    /\ UNCHANGED <<begun, asked, flow, reader, allowed, exchanges>>

StillPending == flow
NonePending == None

\* The channel, its grant and the flow that waits for its redirect.  A flow that was
\* taken is not there any more: its callback connects the channel all the same.
Disconnect ==
    /\ stored' = None /\ grant' = None /\ flow' = NonePending
    /\ given' = given \cup Pending \cup Connected
    /\ UNCHANGED <<begun, asked, cb, reader, allowed, exchanges>>

Suspend ==
    /\ allowed' = ~allowed
    /\ UNCHANGED <<begun, asked, flow, stored, grant, cb, reader, exchanges, given>>

-----------------------------------------------------------------------------
(* credentials *)

To(r, step) == reader' = [reader EXCEPT ![r].at = step]
reading == <<begun, asked, flow, stored, grant, cb, allowed, exchanges, given>>

\* status, when the live scope is needed.
ReadStatus(r) ==
    /\ reader[r].at = "idle"
    /\ IF reader[r].live /\ ~(stored # None /\ grant = TRUE) THEN To(r, "failed")
       ELSE reader' = [reader EXCEPT ![r].at = "row", ![r].seen = stored]
    /\ UNCHANGED reading

\* The row is read by another query, perhaps after a reconnection.
ReadRow(r) ==
    /\ reader[r].at = "row"
    /\ IF stored = None THEN To(r, "failed")
       ELSE reader' = [reader EXCEPT ![r].at = "refresh", ![r].row = stored]
    /\ UNCHANGED reading

StatusSufficed(r) == TRUE
TokenIsLive(r) == reader[r].live => reader[r].row.live

HandOut(r, named) == reader' = [reader EXCEPT ![r].at = "done", ![r].named = named]

\* Google refreshes the token; the scopes are looked at when the answer names them.
Refresh(r) ==
    /\ reader[r].at = "refresh"
    /\ \/ TokenIsLive(r) /\ HandOut(r, TRUE)
       \/ HandOut(r, FALSE)
       \/ To(r, "failed")
    /\ UNCHANGED reading

Next ==
    \/ \E f \in Flows : Begin(f)
    \/ Expire \/ Suspend \/ Disconnect
    \/ \E c \in Callbacks : Exchange(c) \/ Store(c) \/ \E f \in Flows : TakeFlow(c, f)
    \/ \E r \in Readers : ReadStatus(r) \/ ReadRow(r) \/ Refresh(r)

Spec == Init /\ [][Next]_vars

-----------------------------------------------------------------------------
(* Properties *)

\* Credentials handed out for a broadcast can broadcast, whichever connection
\* replaced which (credentials, youtube_channel.py:155): they are of the connection
\* that status found live, or Google named the live scope when it refreshed them.
\* Only if its answer names no scope (168), and another connection replaced the one
\* that status saw, can they be without it.
LiveCredentialsAreLive ==
    \A r \in Readers : reader[r].at = "done" /\ reader[r].live =>
        reader[r].row.live \/ (~reader[r].named /\ reader[r].row # reader[r].seen)

\* What was given up does not come back, whichever redirects, consents and readers
\* are on their way: a consent that another one replaced, that expired, or whose
\* channel was disconnected or replaced is neither waited for nor connected again.
GivenUpStaysGone == flow \notin given /\ (stored # None => stored.of \notin given)

\* A consent is exchanged at most once, also when its redirect comes twice at
\* the same time (finish deletes the flow it read for update).
OneExchangePerConsent == \A f \in Flows : exchanges[f] <= 1

\* The grant shown to the user is the one of the stored token.
GrantMatchesToken == IF stored = None THEN grant = None ELSE grant = stored.live
=============================================================================
