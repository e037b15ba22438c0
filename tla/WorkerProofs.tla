----------------------------- MODULE WorkerProofs -----------------------------
(* Theorems about Worker for every value of its constants: an encoder is off  *)
(* before its lease lapses, a logged completion is a recorded one, and the    *)
(* workers of a tenant implement StreamSlot.                                  *)
EXTENDS Worker, TLAPS

----------------------------------------------------------------------------
(* The inductive invariant: what holds of each run, and of the slot. *)

\* The last instant of a lease that was granted at t.
Due(j, t) == Smaller(t + Lease, Until[j])
Kept(r) == job[r[1]].state = "active" /\ job[r[1]].version = r[2]
\* The lease of r was granted at t or later, or the one of t would be over.
Covered(r, t) ==
    \/ Kept(r) /\ job[r[1]].expires >= Due(r[1], t)
    \/ now >= Due(r[1], t)

Holding == {"preparing", "publishing", "killing"}

\* A worker was started for a run that was claimed.
Started(r) == worker[r].phase # "none" => r[2] <= job[r[1]].version

\* What a worker takes for its lease was granted no earlier than an answer's
\* way before it.
Leased(r) == worker[r].phase \in Holding => Covered(r, worker[r].last - Reply)

\* A confirmation under way speaks of a lease granted after its request.
Answered(r) ==
    beat[r].state \in Confirming /\ worker[r].phase \in Holding \cup {"booting"}
        => Covered(r, beat[r].at)

\* No answer, no encoder and no kill outlasts its time.
Timely(r) ==
    /\ beat[r].state # "none" => beat[r].at <= now /\ now <= beat[r].at + Reply
    /\ worker[r].last <= now
    /\ worker[r].phase = "publishing" => now <= worker[r].last + Patience /\ now <= Until[r[1]]
    /\ worker[r].phase = "killing" =>
           /\ worker[r].since <= worker[r].last + Patience
           /\ worker[r].since <= Until[r[1]] /\ now <= worker[r].since + Kill

\* A run that may still start its encoder has not been on air.
NotAired(r) == r \in aired => worker[r].phase \notin {"none", "booting", "preparing"}

\* A report that was answered with a completion is what the repository keeps.
Done(r) == job[r[1]].state = "completed" /\ job[r[1]].version = r[2]
Recorded(r) ==
    /\ report[r].state = "completed" => Done(r)
    /\ worker[r].phase = "gone" /\ worker[r].result = "completed" => Done(r)
    /\ report[r].state # "none" => worker[r].phase = "reporting"
    /\ worker[r].phase = "reporting" => worker[r].result \in Results \cup {"stopped"}

RunInv(r) ==
    Started(r) /\ Leased(r) /\ Answered(r) /\ Timely(r) /\ NotAired(r) /\ Recorded(r)

\* The tenant's slot: one job is active, and no lease is longer than granted now.
OneActive ==
    /\ \A i, j \in Jobs : job[i].state = "active" /\ job[j].state = "active" => i = j
    /\ \A j \in Jobs : job[j].state = "active" => job[j].expires <= Due(j, now)

\* One run is on air.  Another gets the lease meanwhile only at the instant at
\* which the window of the first ends, and cannot be prepared at that instant.
InTurn ==
    \A r, s \in Runs : r # s /\ worker[r].phase = "publishing" =>
        /\ worker[s].phase # "publishing"
        /\ HoldsLease(s) => /\ Until[r[1]] <= now
                            /\ worker[s].phase = "preparing" => worker[s].since = now

IInv == TypeOK /\ OneActive /\ InTurn /\ \A r \in Runs : RunInv(r)

----------------------------------------------------------------------------
(* What the invariant says of a run at one instant. *)

LEMMA RunParts ==
    ASSUME NEW r \in Runs
    PROVE  r[1] \in Jobs /\ r[2] \in 1..MaxAttempts /\ r = <<r[1], r[2]>>
BY DEF Runs

LEMMA Constants ==
    /\ MaxAttempts \in Nat /\ Lease \in Nat /\ Reply \in Nat /\ Kill \in Nat
    /\ Patience \in Nat \ {0} /\ Horizon \in Nat /\ \A j \in Jobs : Until[j] \in Nat
BY WorkerAssumption DEF Patience

\* A lease outlasts the worker's patience, an answer under way and the kill.
LEMMA LeaseMargin == Patience + Reply + Kill < Lease
BY WorkerAssumption, LeaseAssumption DEF Patience

\* The lease outlasts the encoder, up to the window itself.
LEMMA LeaseOutlastsEncoder ==
    ASSUME IInv, NEW r \in Runs, worker[r].phase \in {"publishing", "killing"}
    PROVE  HoldsLease(r) \/ (Until[r[1]] <= now /\ now <= Until[r[1]] + Kill)
<1>1. /\ now \in Int /\ worker[r].last \in Int /\ worker[r].since \in Int
      /\ job[r[1]].expires \in Int
  BY RunParts DEF IInv, TypeOK, Rows, Workers
<1>2. Leased(r) /\ Timely(r)
  BY DEF IInv, RunInv
<1>3. worker[r].phase \in Holding
  BY DEF Holding
<1>4. Covered(r, worker[r].last - Reply)
  BY <1>2, <1>3 DEF Leased
<1>5. now <= worker[r].last + Patience + Kill /\ now <= Until[r[1]] + Kill
  BY <1>1, <1>2, Constants, RunParts DEF Timely
<1>6. now < worker[r].last - Reply + Lease
  BY <1>1, <1>5, Constants, LeaseMargin
<1>7. QED
  BY <1>1, <1>4, <1>5, <1>6, Constants, RunParts DEF Covered, Kept, HoldsLease, Due, Smaller

----------------------------------------------------------------------------
LEMMA InitInv == Init => IInv
<1> SUFFICES ASSUME Init PROVE IInv
  OBVIOUS
<1>1. TypeOK
  BY Constants DEF Init, TypeOK, Rows, Workers, Beats, Reports, States, Phases, Outcomes, Idle
<1>2. OneActive /\ InTurn
  BY RunParts DEF Init, OneActive, InTurn, HoldsLease
<1>3. ASSUME NEW r \in Runs PROVE RunInv(r)
  BY Constants, RunParts DEF Init, Idle, RunInv, Started, Leased, Answered, Timely, NotAired,
     Recorded, Holding, Confirming
<1>4. QED
  BY <1>1, <1>2, <1>3 DEF IInv

----------------------------------------------------------------------------
(* Steps of a worker: the repository and the clock stand still. *)

\* A run that a step leaves alone keeps what holds of it.
LEMMA OthersKeep ==
    ASSUME NEW s \in Runs, RunInv(s), UNCHANGED <<now, job>>,
           worker'[s] = worker[s], beat'[s] = beat[s], report'[s] = report[s],
           s \in aired' => s \in aired
    PROVE  RunInv(s)'
BY DEF RunInv, Started, Leased, Answered, Timely, NotAired, Recorded, Covered, Kept, Done, Due, Smaller

\* What the step of one run has to keep, besides what holds of that run itself.
LEMMA OneRunStep ==
    ASSUME IInv, NEW r \in Runs, UNCHANGED <<now, job>>, TypeOK', RunInv(r)',
           \A s \in Runs \ {r} :
               worker'[s] = worker[s] /\ beat'[s] = beat[s] /\ report'[s] = report[s],
           aired' \subseteq aired \cup {r},
           worker'[r].phase = "publishing" =>
               \/ worker[r].phase = "publishing"
               \/ \A s \in Runs \ {r} : worker[s].phase # "publishing" /\ ~HoldsLease(s),
           worker'[r].phase = "preparing" =>
               \/ worker'[r].since = now
               \/ worker[r].phase = "preparing" /\ worker'[r].since = worker[r].since
    PROVE  IInv'
<1>1. OneActive'
  BY DEF IInv, OneActive, Due, Smaller
<1>2. InTurn'
  BY DEF IInv, InTurn, HoldsLease
<1>3. ASSUME NEW s \in Runs PROVE RunInv(s)'
  BY <1>3, OthersKeep DEF IInv
<1>4. QED
  BY <1>1, <1>2, <1>3 DEF IInv

LEMMA Typed ==
    ASSUME IInv
    PROVE  /\ worker \in [Runs -> Workers] /\ beat \in [Runs -> Beats]
           /\ report \in [Runs -> Reports] /\ now \in Nat
           /\ \A r \in Runs : /\ worker[r] \in Workers /\ beat[r] \in Beats /\ report[r] \in Reports
                             /\ job[r[1]] \in Rows /\ worker[r].last \in Nat
BY Constants, RunParts DEF IInv, TypeOK, Workers

\* The steps that only name what the run is at now.
LEMMA BecomesTyped ==
    ASSUME IInv, NEW r \in Runs, NEW phase \in Phases, NEW result \in Outcomes,
           Becomes(r, phase, result)
    PROVE  /\ worker' \in [Runs -> Workers]
           /\ worker'[r].phase = phase /\ worker'[r].result = result
           /\ worker'[r].since = (IF phase = "killing" THEN now ELSE 0)
           /\ worker'[r].last = worker[r].last
           /\ \A s \in Runs \ {r} : worker'[s] = worker[s]
<1> DEFINE since == IF phase = "killing" THEN now ELSE 0
<1>1. worker' = [worker EXCEPT ![r].phase = phase, ![r].result = result, ![r].since = since]
  BY DEF Becomes
<1>2. since \in Nat
  BY Typed
<1> HIDE DEF since
<1>3. worker' = [worker EXCEPT ![r] = [worker[r] EXCEPT !.phase = phase, !.result = result,
                                                       !.since = since]]
  BY <1>1, Typed
<1>4. [worker[r] EXCEPT !.phase = phase, !.result = result, !.since = since] \in Workers
  BY <1>2, Typed DEF Workers
<1>5. worker' \in [Runs -> Workers]
  BY <1>3, <1>4, Typed
<1>6. QED
  BY <1>1, <1>5, Typed DEF Workers, since

LEMMA BootStep ==
    ASSUME IInv, NEW r \in Runs, Boot(r)
    PROVE  IInv'
<1>1. worker' \in [Runs -> Workers]
  <2>1. [worker[r] EXCEPT !.phase = "booting", !.last = now] \in Workers
    BY Typed DEF Workers, Phases
  <2>2. worker' = [worker EXCEPT ![r] = [worker[r] EXCEPT !.phase = "booting", !.last = now]]
    BY Typed DEF Boot
  <2>3. QED
    BY <2>1, <2>2, Typed
<1>2. beat' \in [Runs -> Beats]
  BY Typed DEF Boot, Sent, Beats
<1>3. TypeOK'
  BY <1>1, <1>2 DEF Boot, Sent, IInv, TypeOK
<1>4. /\ worker[r].phase = "none" /\ r[2] <= job[r[1]].version
      /\ worker'[r].phase = "booting" /\ worker'[r].last = now
      /\ beat'[r].state = "sent" /\ beat'[r].at = now /\ report' = report
      /\ UNCHANGED <<now, job>> /\ aired' = aired
  BY Typed DEF Boot, Sent, Workers, Beats, Reports
<1>5. RunInv(r)'
  BY <1>4, Typed, RunParts, Constants DEF IInv, RunInv, Started, Leased, Answered, Timely,
     NotAired, Recorded, Holding, Confirming, Workers
<1>6. \A s \in Runs \ {r} :
         worker'[s] = worker[s] /\ beat'[s] = beat[s] /\ report'[s] = report[s]
  BY Typed DEF Boot, Sent, Workers
<1>7. QED
  BY <1>3, <1>4, <1>5, <1>6, OneRunStep

LEMMA BeatStep ==
    ASSUME IInv, NEW r \in Runs, Beat(r)
    PROVE  IInv'
<1>1. beat' \in [Runs -> Beats]
  BY Typed DEF Beat, Sent, Beats
<1>2. TypeOK'
  BY <1>1 DEF Beat, Sent, IInv, TypeOK
<1>3. /\ worker' = worker /\ report' = report
      /\ beat'[r].state = "sent" /\ beat'[r].at = now
      /\ UNCHANGED <<now, job>> /\ aired' = aired
  BY Typed DEF Beat, Sent, Workers, Beats, Reports
<1>4. RunInv(r)'
  BY <1>3, Typed, RunParts, Constants DEF IInv, RunInv, Started, Leased, Answered, Timely,
     NotAired, Recorded, Holding, Confirming, Workers, Covered, Kept, Due, Smaller, Done
<1>5. \A s \in Runs \ {r} :
         worker'[s] = worker[s] /\ beat'[s] = beat[s] /\ report'[s] = report[s]
  BY Typed DEF Beat, Sent, Workers
<1>6. QED
  BY <1>2, <1>3, <1>4, <1>5, OneRunStep

\* A preparation that failed, an encoder that ended or was killed: a report is due.
LEMMA ReportingStep ==
    ASSUME IInv, NEW r \in Runs, NEW result \in Results \cup {"stopped"},
           worker[r].phase \in Holding, Becomes(r, "reporting", result), aired' = aired, Rest
    PROVE  IInv'
<1>1. "reporting" \in Phases /\ result \in Outcomes
  BY DEF Phases, Outcomes, States
<1>2. /\ worker' \in [Runs -> Workers] /\ \A s \in Runs \ {r} : worker'[s] = worker[s]
      /\ worker'[r].phase = "reporting" /\ worker'[r].result = result
      /\ worker'[r].last = worker[r].last
  BY <1>1, BecomesTyped
<1>3. TypeOK'
  BY <1>2 DEF Rest, IInv, TypeOK
<1>4. RunInv(r)'
  BY <1>2, Typed, RunParts, Constants DEF Rest, IInv, RunInv, Started, Leased, Answered, Timely,
     NotAired, Recorded, Holding, Workers
<1>5. QED
  BY <1>2, <1>3, <1>4, OneRunStep DEF Rest

LEMMA StopStep ==
    ASSUME IInv, NEW r \in Runs, StopEncoder(r)
    PROVE  IInv'
<1>1. Becomes(r, "killing", "stopped") /\ "killing" \in Phases /\ "stopped" \in Outcomes
  BY DEF StopEncoder, Phases, Outcomes, States, Results
<1>2. TypeOK'
  BY <1>1, BecomesTyped DEF StopEncoder, Rest, IInv, TypeOK
<1>3. /\ worker'[r].phase = "killing" /\ worker'[r].result = "stopped"
      /\ worker[r].phase = "publishing" /\ worker'[r].since = now
      /\ worker'[r].last = worker[r].last /\ beat' = beat /\ report' = report
      /\ UNCHANGED <<now, job>> /\ aired' = aired
  BY <1>1, BecomesTyped DEF StopEncoder, Rest, Workers, Beats, Reports
<1>4. RunInv(r)'
  BY <1>3, Typed, RunParts, Constants DEF IInv, RunInv, Started, Leased, Answered, Timely,
     NotAired, Recorded, Holding, Confirming, Workers, Covered, Kept, Due, Smaller
<1>5. \A s \in Runs \ {r} :
         worker'[s] = worker[s] /\ beat'[s] = beat[s] /\ report'[s] = report[s]
  BY <1>1, BecomesTyped DEF StopEncoder, Rest, Workers
<1>6. QED
  BY <1>2, <1>3, <1>4, <1>5, OneRunStep

LEMMA ReportStep ==
    ASSUME IInv, NEW r \in Runs, Report(r)
    PROVE  IInv'
<1>1. worker' \in [Runs -> Workers]
  BY Typed DEF Report, Sent, Workers, States, Outcomes
<1>2. report' \in [Runs -> Reports]
  BY Typed DEF Report, Sent, Reports
<1>3. TypeOK'
  BY <1>1, <1>2 DEF Report, Sent, IInv, TypeOK
<1>4. /\ worker[r].phase = "reporting" /\ worker'[r].phase = "reporting" /\ worker'[r].last = worker[r].last
      /\ worker'[r].result \in {worker[r].result, "stopped"}
      /\ beat' = beat /\ report'[r].state = "sent"
      /\ UNCHANGED <<now, job>> /\ aired' = aired
  BY Typed DEF Report, Sent, Workers, Beats, Reports
<1>5. RunInv(r)'
  BY <1>4, Typed, RunParts, Constants DEF IInv, RunInv, Started, Leased, Answered, Timely,
     NotAired, Recorded, Holding, Confirming, Workers
<1>6. \A s \in Runs \ {r} :
         worker'[s] = worker[s] /\ beat'[s] = beat[s] /\ report'[s] = report[s]
  BY Typed DEF Report, Sent, Workers
<1>7. QED
  BY <1>3, <1>4, <1>5, <1>6, OneRunStep

LEMMA GoneStep ==
    ASSUME IInv, NEW r \in Runs, NEW result \in Outcomes,
           result = "completed" => Done(r), worker[r].phase # "none", Gone(r, result)
    PROVE  IInv'
<1>1. worker' \in [Runs -> Workers]
  BY Typed DEF Gone, LateAfter, Idle, Workers, Phases
<1>2. beat' \in [Runs -> Beats]
  BY Typed DEF Gone, LateAfter, Idle, Beats
<1>3. report' \in [Runs -> Reports]
  BY Typed DEF Gone, LateAfter, Idle, Reports
<1>4. TypeOK'
  BY <1>1, <1>2, <1>3 DEF Gone, LateAfter, Idle, IInv, TypeOK
<1>5. /\ worker'[r].phase = "gone" /\ worker'[r].last = 0 /\ worker'[r].result = result
      /\ beat'[r].state = "none" /\ report'[r].state = "none"
      /\ UNCHANGED <<now, job>> /\ aired' = aired
  BY Typed DEF Gone, LateAfter, Idle, Workers, Beats, Reports
<1>6. RunInv(r)'
  BY <1>5, Typed, RunParts, Constants DEF IInv, RunInv, Started, Leased, Answered, Timely,
     NotAired, Recorded, Holding, Confirming, Workers, Done
<1>7. \A s \in Runs \ {r} :
         worker'[s] = worker[s] /\ beat'[s] = beat[s] /\ report'[s] = report[s]
  BY Typed DEF Gone, LateAfter, Idle, Workers
<1>8. QED
  BY <1>4, <1>5, <1>6, <1>7, OneRunStep

\* A heartbeat that came to nothing ends a run that has not begun, and no other.
LEMMA DroppedAnswer ==
    ASSUME IInv, NEW r \in Runs, UNCHANGED <<now, job, report, aired>>,
           beat'[r].state = "none",
           worker'[r].last = worker[r].last /\ worker'[r].since = worker[r].since,
           \/ worker'[r].phase = worker[r].phase /\ worker'[r].result = worker[r].result
           \/ /\ worker[r].phase = "booting"
              /\ worker'[r].phase = "reporting" /\ worker'[r].result = "failed"
    PROVE  RunInv(r)'
<1>1. (Started(r) /\ NotAired(r))'
  BY DEF IInv, RunInv, Started, NotAired
<1>2. (Leased(r) /\ Answered(r))'
  BY DEF IInv, RunInv, Leased, Answered, Holding, Confirming, Covered, Kept, Due, Smaller
<1>3. Timely(r)'
  BY DEF IInv, RunInv, Timely
<1>4. Recorded(r)'
  BY DEF IInv, RunInv, Recorded, Results, Done
<1>5. QED
  BY <1>1, <1>2, <1>3, <1>4 DEF RunInv

\* An answer to a heartbeat: a confirmation speaks for the time it was asked at.
LEMMA BeatAnsweredStep == ASSUME IInv, NEW r \in Runs, BeatAnswered(r) PROVE IInv'
<1>1. /\ beat' \in [Runs -> Beats] /\ beat'[r].state = "none"
      /\ \A s \in Runs \ {r} : beat'[s] = beat[s]
      /\ UNCHANGED <<now, job, report, late, aired>>
  BY Typed DEF BeatAnswered, Beats
<1>2. beat[r].at <= now /\ now <= beat[r].at + Reply /\ beat[r].at \in Nat
  BY Typed DEF BeatAnswered, IInv, RunInv, Timely, Beats
<1>3. CASE beat[r].state \in Confirming
  <2> DEFINE phase == IF worker[r].phase = "booting" THEN "preparing" ELSE worker[r].phase
             stop == worker[r].stop \/ beat[r].state = "cancel"
             since == IF worker[r].phase = "booting" THEN now ELSE worker[r].since
  <2>1. worker' = [worker EXCEPT ![r].phase = phase, ![r].stop = stop, ![r].last = now,
                                 ![r].since = since]
    BY <1>3, Typed DEF BeatAnswered, AfterBeat, Workers
  <2>2. phase \in Phases /\ stop \in BOOLEAN /\ since \in Nat
    BY Typed DEF Phases, Workers
  <2>3. /\ worker' \in [Runs -> Workers] /\ \A s \in Runs \ {r} : worker'[s] = worker[s]
        /\ worker'[r].phase = phase /\ worker'[r].last = now
        /\ worker'[r].since = since /\ worker'[r].result = worker[r].result
    <3> HIDE DEF phase, stop, since
    <3>1. [worker[r] EXCEPT !.phase = phase, !.stop = stop, !.last = now, !.since = since]
          \in Workers
      BY <2>2, Typed DEF Workers
    <3>2. worker' = [worker EXCEPT ![r] = [worker[r] EXCEPT !.phase = phase, !.stop = stop,
                                                           !.last = now, !.since = since]]
      BY <2>1, Typed
    <3>3. worker' \in [Runs -> Workers]
      BY <3>1, <3>2, Typed
    <3>4. QED
      BY <2>1, <3>3, Typed DEF Workers
  <2>4. TypeOK'
    BY <1>1, <2>3 DEF IInv, TypeOK
  <2>5. Leased(r)'
    BY <1>1, <1>2, <1>3, <2>3, Typed, RunParts, Constants DEF IInv, RunInv, Answered,
       Leased, Holding, Covered, Kept, Due, Smaller, Rows
  <2>6. Timely(r)'
    BY <1>1, <2>3, Typed, RunParts, Constants DEF IInv, RunInv, Timely, Workers
  <2>7. RunInv(r)'
    BY <1>1, <2>3, <2>5, <2>6, Typed DEF IInv, RunInv, Started, Answered, NotAired, Recorded,
       Confirming, Workers, Done
  <2>8. QED
    BY <1>1, <2>3, <2>4, <2>7, OneRunStep
<1>4. CASE beat[r].state \notin Confirming
  <2>1. worker' = IF worker[r].phase = "booting"
                  THEN [worker EXCEPT ![r].phase = "reporting", ![r].result = "failed"]
                  ELSE [worker EXCEPT ![r].stop = TRUE]
    BY <1>4 DEF BeatAnswered
  <2>2. worker' \in [Runs -> Workers]
    <3>1. CASE worker[r].phase = "booting"
      <4>1. [worker[r] EXCEPT !.phase = "reporting", !.result = "failed"] \in Workers
        BY Typed DEF Workers, Phases, Outcomes, Results
      <4>2. worker' = [worker EXCEPT ![r] = [worker[r] EXCEPT !.phase = "reporting",
                                                             !.result = "failed"]]
        BY <2>1, <3>1, Typed
      <4>3. QED
        BY <4>1, <4>2, Typed
    <3>2. CASE worker[r].phase # "booting"
      <4>1. [worker[r] EXCEPT !.stop = TRUE] \in Workers
        BY Typed DEF Workers
      <4>2. worker' = [worker EXCEPT ![r] = [worker[r] EXCEPT !.stop = TRUE]]
        BY <2>1, <3>2, Typed
      <4>3. QED
        BY <4>1, <4>2, Typed
    <3>3. QED
      BY <3>1, <3>2
  <2>3. /\ worker'[r].last = worker[r].last /\ worker'[r].since = worker[r].since
        /\ \/ worker'[r].phase = worker[r].phase /\ worker'[r].result = worker[r].result
           \/ /\ worker[r].phase = "booting"
              /\ worker'[r].phase = "reporting" /\ worker'[r].result = "failed"
        /\ \A s \in Runs \ {r} : worker'[s] = worker[s]
    BY <2>1, Typed DEF Workers
  <2>4. TypeOK'
    BY <1>1, <2>2 DEF IInv, TypeOK
  <2>5. RunInv(r)'
    BY <1>1, <2>3, DroppedAnswer
  <2>6. QED
    BY <1>1, <2>3, <2>4, <2>5, OneRunStep
<1>5. QED
  BY <1>3, <1>4

LEMMA BeatGivenUpStep == ASSUME IInv, NEW r \in Runs, BeatGivenUp(r) PROVE IInv'
<1>1. /\ beat' \in [Runs -> Beats] /\ beat'[r].state = "none"
      /\ \A s \in Runs \ {r} : beat'[s] = beat[s]
  BY Typed DEF BeatGivenUp, Beats
<1>2. worker' \in [Runs -> Workers]
  <2>1. [worker[r] EXCEPT !.phase = "reporting", !.result = "failed"] \in Workers
    BY Typed DEF Workers, Phases, Outcomes, Results
  <2>2. CASE worker[r].phase = "booting"
    <3>1. worker' = [worker EXCEPT ![r] = [worker[r] EXCEPT !.phase = "reporting",
                                                           !.result = "failed"]]
      BY <2>2, Typed DEF BeatGivenUp
    <3>2. QED
      BY <2>1, <3>1, Typed
  <2>3. CASE worker[r].phase # "booting"
    BY <2>3, Typed DEF BeatGivenUp
  <2>4. QED
    BY <2>2, <2>3
<1>3. /\ worker'[r].last = worker[r].last /\ worker'[r].since = worker[r].since
      /\ \/ worker'[r].phase = worker[r].phase /\ worker'[r].result = worker[r].result
         \/ /\ worker[r].phase = "booting"
            /\ worker'[r].phase = "reporting" /\ worker'[r].result = "failed"
      /\ \A s \in Runs \ {r} : worker'[s] = worker[s]
  BY Typed DEF BeatGivenUp, Workers
<1>4. TypeOK'
  BY <1>1, <1>2 DEF BeatGivenUp, LateAfter, IInv, TypeOK
<1>5. RunInv(r)'
  BY <1>1, <1>3, DroppedAnswer DEF BeatGivenUp
<1>6. QED
  BY <1>1, <1>3, <1>4, <1>5, OneRunStep DEF BeatGivenUp

\* The encoder starts: its run has the lease, and nobody else is on air.
LEMMA OneHolder ==
    ASSUME IInv, NEW r \in Runs, NEW s \in Runs, HoldsLease(r), HoldsLease(s)
    PROVE  r = s
BY RunParts DEF IInv, OneActive, HoldsLease

LEMMA StarterHolds ==
    ASSUME IInv, NEW r \in Runs, StartEncoder(r)
    PROVE  /\ HoldsLease(r)
           /\ \A s \in Runs \ {r} : worker[s].phase # "publishing" /\ ~HoldsLease(s)
<1>1. /\ now - worker[r].last < Patience /\ now < Until[r[1]]
      /\ worker[r].phase = "preparing" /\ worker[r].since < now
      /\ now \in Int /\ worker[r].last \in Int /\ worker[r].since \in Int
      /\ Until[r[1]] \in Int /\ job[r[1]].expires \in Int
  BY Typed, RunParts, Constants DEF StartEncoder, MustStop, Workers, Rows
<1>2. Covered(r, worker[r].last - Reply)
  BY <1>1 DEF IInv, RunInv, Leased, Holding
<1>3. now < worker[r].last - Reply + Lease
  BY <1>1, Constants, LeaseMargin
<1>4. HoldsLease(r)
  BY <1>1, <1>2, <1>3, Constants DEF Covered, Kept, HoldsLease, Due, Smaller
<1>5. ASSUME NEW s \in Runs \ {r} PROVE worker[s].phase # "publishing" /\ ~HoldsLease(s)
  BY <1>1, <1>4, OneHolder DEF IInv, InTurn
<1>6. QED
  BY <1>4, <1>5

LEMMA StartStep == ASSUME IInv, NEW r \in Runs, StartEncoder(r) PROVE IInv'
<1>1. Becomes(r, "publishing", "none") /\ "publishing" \in Phases /\ "none" \in Outcomes
  BY DEF StartEncoder, Phases, Outcomes
<1>2. TypeOK'
  BY <1>1, BecomesTyped DEF StartEncoder, Rest, IInv, TypeOK
<1>3. /\ worker[r].phase = "preparing" /\ worker'[r].phase = "publishing"
      /\ worker'[r].last = worker[r].last
      /\ beat' = beat /\ report' = report /\ UNCHANGED <<now, job>>
      /\ now < worker[r].last + Patience /\ now < Until[r[1]]
  BY <1>1, BecomesTyped, Typed, RunParts, Constants DEF StartEncoder, MustStop, Rest, Workers
<1>4. RunInv(r)'
  BY <1>3, Typed, RunParts, Constants, SMTT(30) DEF IInv, RunInv, Started, Leased, Answered, Timely,
     NotAired, Recorded, Holding, Workers, Covered, Kept, Due, Smaller
<1>5. aired' \subseteq aired \cup {r} /\ \A s \in Runs \ {r} : worker'[s] = worker[s]
  BY <1>1, BecomesTyped DEF StartEncoder
<1>6. QED
  BY <1>2, <1>3, <1>4, <1>5, StarterHolds, OneRunStep

----------------------------------------------------------------------------
(* Steps of the repository, and of the clock. *)

\* A step of the repository on job j: the workers stand still.
LEMMA OneJobStep ==
    ASSUME IInv, NEW j \in Jobs, UNCHANGED <<now, worker, aired>>, TypeOK',
           \A i \in Jobs \ {j} : job'[i] = job[i],
           job'[j].version >= job[j].version,
           job'[j].state = "active" =>
               /\ job'[j].expires <= Due(j, now)
               /\ \A i \in Jobs \ {j} : job[i].state # "active",
           \A r \in Runs : RunInv(r)',
           \A s \in Runs : s[1] = j /\ HoldsLease(s)' /\ ~HoldsLease(s) =>
               /\ worker[s].phase = "none"
               /\ \A r \in Runs : worker[r].phase = "publishing" => Until[r[1]] <= now
    PROVE  IInv'
<1>1. OneActive'
  BY DEF IInv, OneActive, Due, Smaller
<1>2. InTurn'
  BY RunParts DEF IInv, InTurn, HoldsLease
<1>3. QED
  BY <1>1, <1>2 DEF IInv

\* What holds of a run stays when its job's row does not change; when it does, the
\* lease may only be renewed or be over, and a recorded result stays.
LEMMA OtherJobKeeps ==
    ASSUME IInv, NEW r \in Runs, UNCHANGED <<now, worker, aired>>, job'[r[1]] = job[r[1]],
           beat'[r] = beat[r], report'[r] = report[r]
    PROVE  RunInv(r)'
BY DEF IInv, RunInv, Started, Leased, Answered, Timely, NotAired, Recorded, Covered, Kept, Done,
   Due, Smaller

LEMMA JobKeeps ==
    ASSUME IInv, NEW r \in Runs, UNCHANGED <<now, worker, beat, report, aired>>,
           job'[r[1]].version >= job[r[1]].version,
           job'[r[1]].version \in Nat, job'[r[1]].expires \in Nat,
           \A t \in Int : t <= now /\ Covered(r, t) => Covered(r, t)',
           ~Done(r)
    PROVE  RunInv(r)'
<1> USE Typed, RunParts, Constants DEF IInv, RunInv
<1>1. (Started(r) /\ NotAired(r) /\ Timely(r))'
  BY DEF Started, NotAired, Timely, Rows
<1>2. Leased(r)'
  <2>1. worker[r].last - Reply \in Int /\ worker[r].last - Reply <= now
    BY DEF Timely
  <2>2. QED
    BY <2>1 DEF Leased
<1>3. Answered(r)'
  BY DEF Answered, Timely, Confirming, Beats
<1>4. Recorded(r)'
  BY DEF Recorded
<1>5. QED
  BY <1>1, <1>2, <1>3, <1>4

LEMMA ClaimStep == ASSUME IInv, NEW j \in Jobs, Claim(j) PROVE IInv'
<1>1. /\ job[j] \in Rows /\ job \in [Jobs -> Rows] /\ now \in Nat
      /\ job[j].version < MaxAttempts /\ job[j].version \in Nat /\ job[j].state = "queued"
  BY Typed DEF Claim, IInv, TypeOK, Rows
<1>2. /\ job'[j] = [state |-> "active", version |-> job[j].version + 1,
                    expires |-> LeaseUntil(j), cancel |-> FALSE]
      /\ \A i \in Jobs \ {j} : job'[i] = job[i] /\ job[i].state # "active"
  BY <1>1 DEF Claim
<1>3. LeaseUntil(j) \in Nat /\ LeaseUntil(j) = Due(j, now)
  BY <1>1, Constants DEF LeaseUntil, Due, Smaller
<1>4. job'[j] \in Rows
  BY <1>1, <1>2, <1>3, Constants DEF Rows, States
<1>5. TypeOK'
  BY <1>1, <1>2, <1>4 DEF Claim, IInv, TypeOK
<1>6. ASSUME NEW r \in Runs PROVE RunInv(r)'
  <2>1. CASE r[1] # j
    BY <1>2, <2>1, RunParts, OtherJobKeeps DEF Claim
  <2>2. CASE r[1] = j
    BY <1>1, <1>2, <1>4, <2>2, JobKeeps DEF Claim, Covered, Kept, Done, Due, Smaller, Rows
  <2>3. QED
    BY <2>1, <2>2
<1>7. ASSUME NEW s \in Runs, s[1] = j, HoldsLease(s)'
      PROVE  worker[s].phase = "none"
  BY <1>1, <1>2, <1>7, RunParts, Constants DEF IInv, RunInv, Started, HoldsLease
<1>8. ASSUME NEW r \in Runs, worker[r].phase = "publishing"
      PROVE  Until[r[1]] <= now
  <2>1. ~HoldsLease(r)
    BY <1>1, <1>2, RunParts DEF HoldsLease
  <2>2. QED
    BY <1>8, <2>1, LeaseOutlastsEncoder
<1>9. QED
  BY <1>1, <1>2, <1>3, <1>5, <1>6, <1>7, <1>8, OneJobStep DEF Claim

LEMMA RecoverStep == ASSUME IInv, NEW j \in Jobs, Recover(j) PROVE IInv'
<1>1. job[j] \in Rows /\ job \in [Jobs -> Rows] /\ now \in Nat
  BY Typed DEF IInv, TypeOK
<1>2. /\ job'[j].state \in {"stopped", "failed"} /\ job[j].state = "active"
      /\ job'[j].version = job[j].version /\ job'[j].expires = job[j].expires
      /\ job[j].expires <= now /\ \A i \in Jobs \ {j} : job'[i] = job[i]
  BY <1>1 DEF Recover, Rows
<1>3. job' \in [Jobs -> Rows]
  BY <1>1 DEF Recover, Rows, States
<1>4. TypeOK'
  BY <1>3 DEF Recover, IInv, TypeOK
<1>5. ASSUME NEW r \in Runs PROVE RunInv(r)'
  <2>1. CASE r[1] # j
    BY <1>2, <2>1, RunParts, OtherJobKeeps DEF Recover
  <2>2. CASE r[1] = j
    <3>1. \A t \in Int : t <= now /\ Covered(r, t) => Covered(r, t)'
      BY <1>1, <1>2, <2>2, Constants DEF Recover, Covered, Kept, Due, Smaller, Rows
    <3>2. QED
      BY <1>1, <1>2, <2>2, <3>1, JobKeeps DEF Recover, Done, Rows
  <2>3. QED
    BY <2>1, <2>2
<1>6. QED
  BY <1>1, <1>2, <1>4, <1>5, OneJobStep DEF Recover, HoldsLease, Rows

LEMMA CancelStep == ASSUME IInv, NEW j \in Jobs, Cancel(j) PROVE IInv'
<1>1. job[j] \in Rows /\ job \in [Jobs -> Rows] /\ now \in Nat
  BY Typed DEF IInv, TypeOK
<1>2. /\ \/ job[j].state = "queued" /\ job'[j].state = "stopped"
         \/ job[j].state = "active" /\ job'[j].state = "active"
      /\ job'[j].version = job[j].version /\ job'[j].expires = job[j].expires
      /\ \A i \in Jobs \ {j} : job'[i] = job[i]
  BY <1>1 DEF Cancel, Rows
<1>3. job' \in [Jobs -> Rows]
  BY <1>1 DEF Cancel, Rows, States
<1>4. TypeOK'
  BY <1>3 DEF Cancel, IInv, TypeOK
<1>5. ASSUME NEW r \in Runs PROVE RunInv(r)'
  <2>1. CASE r[1] # j
    BY <1>2, <2>1, RunParts, OtherJobKeeps DEF Cancel
  <2>2. CASE r[1] = j
    <3>1. \A t \in Int : t <= now /\ Covered(r, t) => Covered(r, t)'
      BY <1>1, <1>2, <2>2 DEF Cancel, Covered, Kept, Due, Smaller
    <3>2. QED
      BY <1>1, <1>2, <2>2, <3>1, JobKeeps DEF Cancel, Done, Rows
  <2>3. QED
    BY <2>1, <2>2
<1>6. QED
  BY <1>1, <1>2, <1>4, <1>5, OneJobStep DEF Cancel, IInv, OneActive, HoldsLease, Rows

\* A renewal serves every request made until now.
LEMMA RenewedFacts ==
    ASSUME IInv, NEW r \in Runs, HoldsLease(r), job' = Renewed(r), now' = now
    PROVE  /\ job' \in [Jobs -> Rows] /\ \A i \in Jobs \ {r[1]} : job'[i] = job[i]
           /\ job'[r[1]].state = "active" /\ job[r[1]].state = "active"
           /\ job'[r[1]].version = job[r[1]].version
           /\ job'[r[1]].expires = Due(r[1], now)
           /\ \A s \in Runs : s[1] = r[1] => \A t \in Int :
                  t <= now /\ Covered(s, t) => Covered(s, t)'
           /\ \A t \in Int : t <= now => Covered(r, t)'
<1>1. /\ job[r[1]] \in Rows /\ job \in [Jobs -> Rows] /\ now \in Nat /\ r[1] \in Jobs
      /\ Lease \in Nat /\ Until[r[1]] \in Nat
  BY Typed, RunParts, Constants DEF IInv, TypeOK
<1>2. LeaseUntil(r[1]) \in Nat /\ LeaseUntil(r[1]) = Due(r[1], now)
  BY <1>1, Constants DEF LeaseUntil, Due, Smaller
<1>3. job' \in [Jobs -> Rows]
  BY <1>1, <1>2 DEF Renewed, Rows
<1>4. /\ job'[r[1]].state = "active" /\ job[r[1]].state = "active"
      /\ job'[r[1]].version = job[r[1]].version /\ job[r[1]].version = r[2]
      /\ job'[r[1]].expires = Due(r[1], now) /\ \A i \in Jobs \ {r[1]} : job'[i] = job[i]
  BY <1>1, <1>2 DEF Renewed, Rows, HoldsLease
<1>5. \A t \in Int : t <= now => Covered(r, t)'
  BY <1>1, <1>4, Constants DEF Covered, Kept, Due, Smaller
<1>6. \A s \in Runs : s[1] = r[1] => \A t \in Int :
          t <= now /\ Covered(s, t) => Covered(s, t)'
  BY <1>1, <1>4, Constants DEF Covered, Kept, Due, Smaller
<1>7. QED
  BY <1>3, <1>4, <1>5, <1>6

LEMMA ServeLateBeatStep == ASSUME IInv, NEW r \in Runs, ServeLateBeat(r) PROVE IInv'
<1>1. CASE HoldsLease(r)
  <2>1. job' = Renewed(r) /\ UNCHANGED <<now, worker, beat, report, aired>>
    BY <1>1 DEF ServeLateBeat
  <2>2. TypeOK'
    BY <1>1, <2>1, RenewedFacts DEF ServeLateBeat, IInv, TypeOK
  <2>3. ASSUME NEW s \in Runs PROVE RunInv(s)'
    <3>1. CASE s[1] # r[1]
      BY <1>1, <2>1, <3>1, RenewedFacts, RunParts, OtherJobKeeps
    <3>2. CASE s[1] = r[1]
      BY <1>1, <2>1, <3>2, RenewedFacts, RunParts, Typed, JobKeeps DEF Done, Rows
    <3>3. QED
      BY <3>1, <3>2
  <2>4. r[1] \in Jobs /\ \A i \in Jobs \ {r[1]} : job[i].state # "active"
    BY <1>1, RunParts DEF IInv, OneActive, HoldsLease
  <2>5. \A s \in Runs : s[1] = r[1] /\ HoldsLease(s)' => HoldsLease(s)
    BY <1>1, <2>1, RenewedFacts, RunParts, Typed DEF HoldsLease
  <2>6. QED
    BY <1>1, <2>1, <2>2, <2>3, <2>4, <2>5, RenewedFacts, Typed, OneJobStep DEF Rows
<1>2. CASE ~HoldsLease(r)
  <2>1. UNCHANGED <<now, job, worker, beat, report, aired>>
    BY <1>2 DEF ServeLateBeat
  <2>2. TypeOK'
    BY <2>1 DEF ServeLateBeat, IInv, TypeOK
  <2>3. RunInv(r)'
    BY <2>1, OthersKeep DEF IInv
  <2>4. QED
    BY <2>1, <2>2, <2>3, OneRunStep
<1>3. QED
  BY <1>1, <1>2

LEMMA ServeBeatStep == ASSUME IInv, NEW r \in Runs, ServeBeat(r) PROVE IInv'
<1>1. /\ beat' \in [Runs -> Beats] /\ beat'[r].at = beat[r].at /\ beat'[r].state # "sent"
      /\ \A s \in Runs \ {r} : beat'[s] = beat[s]
      /\ beat[r].at \in Nat /\ beat[r].at <= now /\ now <= beat[r].at + Reply
      /\ UNCHANGED <<now, worker, report, late, aired>>
  <2>1. beat[r].at \in Nat /\ beat[r].at <= now /\ now <= beat[r].at + Reply
    BY Typed DEF ServeBeat, IInv, RunInv, Timely, Beats
  <2>2. PICK state \in {"ok", "cancel", "refused"} : beat' = [beat EXCEPT ![r].state = state]
    BY DEF ServeBeat
  <2>3. QED
    BY <2>1, <2>2, Typed DEF ServeBeat, Beats
<1>2. CASE HoldsLease(r)
  <2>1. job' = Renewed(r)
    BY <1>2 DEF ServeBeat
  <2>2. TypeOK'
    BY <1>1, <1>2, <2>1, RenewedFacts DEF IInv, TypeOK
  <2>3. Answered(r)'
    BY <1>1, <1>2, <2>1, RenewedFacts DEF Answered
  <2>4. Leased(r)'
    <3>1. worker[r].last - Reply \in Int /\ worker[r].last - Reply <= now
      BY Typed, Constants DEF IInv, RunInv, Timely
    <3>2. QED
      BY <1>1, <1>2, <2>1, <3>1, RenewedFacts DEF Leased
  <2>5. RunInv(r)'
    BY <1>1, <1>2, <2>1, <2>3, <2>4, RenewedFacts DEF IInv, RunInv, Started, Timely, NotAired,
       Recorded, Done
  <2>6. ASSUME NEW s \in Runs PROVE RunInv(s)'
    <3>1. CASE s[1] # r[1]
      BY <1>1, <1>2, <2>1, <3>1, RenewedFacts, RunParts, OtherJobKeeps
    <3>2. CASE s # r /\ s[1] = r[1]
      <4>1. worker[s].last - Reply \in Int /\ worker[s].last - Reply <= now
        BY Typed, Constants DEF IInv, RunInv, Timely
      <4>2. Leased(s)'
        BY <1>1, <1>2, <2>1, <3>2, <4>1, RenewedFacts DEF IInv, RunInv, Leased
      <4>3. Answered(s)'
        BY <1>1, <1>2, <2>1, <3>2, Typed, RenewedFacts DEF IInv, RunInv, Answered, Timely,
           Confirming, Beats
      <4>4. QED
        BY <1>1, <1>2, <2>1, <3>2, <4>2, <4>3, RenewedFacts DEF IInv, RunInv, Started, Timely,
           NotAired, Recorded, Done
    <3>3. QED
      BY <2>5, <3>1, <3>2
  <2>7. r[1] \in Jobs /\ \A i \in Jobs \ {r[1]} : job[i].state # "active"
    BY <1>2, RunParts DEF IInv, OneActive, HoldsLease
  <2>8. \A s \in Runs : s[1] = r[1] /\ HoldsLease(s)' => HoldsLease(s)
    BY <1>1, <1>2, <2>1, RenewedFacts, RunParts, Typed DEF HoldsLease
  <2>9. QED
    BY <1>1, <1>2, <2>1, <2>2, <2>6, <2>7, <2>8, RenewedFacts, Typed, OneJobStep DEF Rows
<1>3. CASE ~HoldsLease(r)
  <2>1. job' = job /\ beat'[r].state = "refused"
    BY <1>3, Typed DEF ServeBeat, Beats
  <2>2. TypeOK'
    BY <1>1, <2>1 DEF IInv, TypeOK
  <2>3. RunInv(r)'
    BY <1>1, <2>1 DEF ServeBeat, IInv, RunInv, Started, Leased, Answered, Timely, NotAired,
       Recorded, Confirming, Covered, Kept, Done, Due, Smaller
  <2>4. QED
    BY <1>1, <2>1, <2>2, <2>3, OneRunStep
<1>4. QED
  BY <1>2, <1>3

\* A result is recorded for the run that holds the lease; the slot is free again.
LEMMA ServeReportStep == ASSUME IInv, NEW r \in Runs, ServeReport(r) PROVE IInv'
<1>1. /\ worker[r].phase = "reporting" /\ worker[r].result \in Results \cup {"stopped"}
      /\ job[r[1]] \in Rows /\ job \in [Jobs -> Rows] /\ now \in Nat /\ r[1] \in Jobs
      /\ report \in [Runs -> Reports] /\ UNCHANGED <<now, worker, beat, late, aired>>
  BY Typed, RunParts DEF ServeReport, IInv, RunInv, Recorded, TypeOK
<1>2. CASE HoldsLease(r)
  <2>1. /\ job' = [job EXCEPT ![r[1]].state = Settled(r)]
        /\ report' = [report EXCEPT ![r].state = Settled(r)]
    BY <1>2 DEF ServeReport
  <2>2. Settled(r) \in {"stopped", "completed", "failed", "queued"}
    BY <1>1 DEF Settled, Results
  <2>3. /\ job' \in [Jobs -> Rows] /\ job'[r[1]].state = Settled(r)
        /\ job'[r[1]].version = job[r[1]].version /\ job[r[1]].version = r[2]
        /\ job'[r[1]].expires = job[r[1]].expires /\ job[r[1]].state = "active"
        /\ \A i \in Jobs \ {r[1]} : job'[i] = job[i]
    <3> HIDE DEF Settled
    <3>1. job' \in [Jobs -> Rows]
      BY <1>1, <2>1, <2>2 DEF Rows, States
    <3>2. QED
      BY <1>1, <1>2, <2>1, <3>1 DEF Rows, HoldsLease
  <2>4. /\ report' \in [Runs -> Reports] /\ report'[r].state = Settled(r)
        /\ \A s \in Runs \ {r} : report'[s] = report[s]
    BY <1>1, <2>1, <2>2 DEF Reports, States
  <2>5. TypeOK'
    BY <1>1, <2>3, <2>4 DEF IInv, TypeOK
  <2>6. ASSUME NEW s \in Runs PROVE RunInv(s)'
    <3>1. CASE s[1] # r[1]
      BY <1>1, <2>3, <2>4, <3>1, RunParts, OtherJobKeeps
    <3>2. CASE s # r /\ s[1] = r[1]
      <4>1. ~Kept(s) /\ ~Done(s)
        BY <2>3, <3>2, RunParts DEF Kept, Done
      <4>2. \A t \in Int : Covered(s, t) => Covered(s, t)'
        BY <1>1, <4>1 DEF Covered, Due, Smaller
      <4>3. Leased(s)' /\ Answered(s)'
        BY <1>1, <4>2, Typed, Constants DEF IInv, RunInv, Leased, Answered, Confirming, Beats
      <4>4. QED
        BY <1>1, <2>3, <2>4, <3>2, <4>1, <4>3 DEF IInv, RunInv, Started, Timely, NotAired,
           Recorded, Done
    <3>3. CASE s = r
      BY <1>1, <2>3, <2>4, <3>3 DEF IInv, RunInv, Started, Leased, Answered, Timely, NotAired,
         Recorded, Done, Holding
    <3>4. QED
      BY <3>1, <3>2, <3>3
  <2>7. \A s \in Runs : s[1] = r[1] => ~HoldsLease(s)'
    BY <2>2, <2>3 DEF HoldsLease
  <2>8. QED
    BY <1>1, <2>2, <2>3, <2>5, <2>6, <2>7, OneJobStep DEF Rows
<1>3. CASE ~HoldsLease(r)
  <2>1. job' = job /\ report' = [report EXCEPT ![r].state = "refused"]
    BY <1>3 DEF ServeReport
  <2>2. /\ report' \in [Runs -> Reports] /\ report'[r].state = "refused"
        /\ \A s \in Runs \ {r} : report'[s] = report[s]
    BY <1>1, <2>1 DEF Reports
  <2>3. TypeOK'
    BY <1>1, <2>1, <2>2 DEF IInv, TypeOK
  <2>4. RunInv(r)'
    BY <1>1, <2>1, <2>2 DEF IInv, RunInv, Started, Leased, Answered, Timely, NotAired, Recorded,
       Holding, Done
  <2>5. QED
    BY <1>1, <2>1, <2>2, <2>3, <2>4, OneRunStep
<1>4. QED
  BY <1>2, <1>3

\* Time passes: whatever is due by now has been done before.
LEMMA TickStep == ASSUME IInv, Tick PROVE IInv'
<1>1. /\ now' = now + 1 /\ now \in Nat /\ UNCHANGED <<job, worker, beat, report, late, aired>>
      /\ \A r \in Runs : ~Urgent(r)
  BY Typed DEF Tick
<1>2. TypeOK'
  BY <1>1, Constants DEF Tick, IInv, TypeOK
<1>3. ASSUME NEW r \in Runs, NEW t \in Int, Covered(r, t) PROVE Covered(r, t)'
  BY <1>1, <1>3, Constants, RunParts DEF Covered, Kept, Due, Smaller
<1>4. ASSUME NEW r \in Runs PROVE RunInv(r)'
  <2>1. Timely(r)'
    BY <1>1, Typed, Constants, RunParts DEF IInv, RunInv, Timely, Urgent, MustStop, Beats, Workers
  <2>2. Leased(r)' /\ Answered(r)'
    BY <1>1, <1>3, Typed, Constants DEF IInv, RunInv, Leased, Answered, Confirming, Beats
  <2>3. QED
    BY <1>1, <2>1, <2>2 DEF IInv, RunInv, Started, NotAired, Recorded, Done
<1>5. OneActive'
  BY <1>1, Constants DEF IInv, TypeOK, Rows, OneActive, Due, Smaller
<1>6. InTurn'
  <2>1. ASSUME NEW s \in Runs, HoldsLease(s)' PROVE HoldsLease(s)
    BY <1>1, <2>1, Typed DEF HoldsLease, Rows
  <2>2. ASSUME NEW r \in Runs, worker[r].phase = "publishing" PROVE now < Until[r[1]]
    BY <1>1, <2>2, Constants, RunParts DEF Urgent, MustStop
  <2>3. ASSUME NEW r \in Runs, NEW s \in Runs, r # s, worker[r].phase = "publishing"
        PROVE  worker[s].phase # "publishing" /\ ~HoldsLease(s)'
    BY <1>1, <2>1, <2>2, <2>3, Constants, RunParts DEF IInv, InTurn
  <2>4. QED
    BY <1>1, <2>3 DEF InTurn
<1>7. QED
  BY <1>2, <1>4, <1>5, <1>6 DEF IInv

----------------------------------------------------------------------------
LEMMA ConfirmedFacts ==
    ASSUME IInv, NEW r \in Runs, ReportEnds(r)
    PROVE  /\ Confirmed(r) \in Outcomes /\ worker[r].phase # "none"
           /\ Confirmed(r) = "completed" => Done(r)
<1>1. report[r].state \in States \cup {"sent", "refused"}
  BY Typed DEF ReportEnds, Reports
<1>2. QED
  BY <1>1 DEF ReportEnds, Confirmed, Outcomes, States, Results, IInv, RunInv, Recorded

LEMMA NextStep == IInv /\ [Next]_vars => IInv'
<1> SUFFICES ASSUME IInv, [Next]_vars PROVE IInv'
  OBVIOUS
<1>1. CASE UNCHANGED vars
  <2>1. TypeOK'
    BY <1>1 DEF vars, IInv, TypeOK
  <2>2. OneActive' /\ InTurn'
    BY <1>1 DEF vars, IInv, OneActive, InTurn, HoldsLease, Due, Smaller
  <2>3. \A s \in Runs : RunInv(s)'
    BY <1>1, OthersKeep DEF vars, IInv
  <2>4. QED
    BY <2>1, <2>2, <2>3 DEF IInv
<1>2. ASSUME NEW j \in Jobs, Claim(j) \/ Recover(j) \/ Cancel(j)
      PROVE  IInv'
  BY <1>2, ClaimStep, RecoverStep, CancelStep
<1>3. ASSUME NEW r \in Runs, ServeBeat(r) \/ ServeLateBeat(r) \/ ServeReport(r)
      PROVE  IInv'
  BY <1>3, ServeBeatStep, ServeLateBeatStep, ServeReportStep
<1>4. ASSUME NEW r \in Runs, Boot(r) \/ Beat(r) \/ StartEncoder(r)
      PROVE  IInv'
  BY <1>4, BootStep, BeatStep, StartStep
<1>5. ASSUME NEW r \in Runs, PreparationFails(r) PROVE IInv'
  BY <1>5, ReportingStep DEF PreparationFails, Holding, Results
<1>6. ASSUME NEW r \in Runs, NEW result \in Results, EncoderEnds(r, result) PROVE IInv'
  BY <1>6, ReportingStep DEF EncoderEnds, Holding
<1>7. ASSUME NEW r \in Runs, EncoderKilled(r) PROVE IInv'
  BY <1>7, ReportingStep DEF EncoderKilled, Holding
<1>8. ASSUME NEW r \in Runs, BeatAnswered(r) \/ BeatGivenUp(r) \/ StopEncoder(r) \/ Report(r)
      PROVE  IInv'
  BY <1>8, BeatAnsweredStep, BeatGivenUpStep, StopStep, ReportStep
<1>9. ASSUME NEW r \in Runs, Crash(r) \/ ReportEnds(r) PROVE IInv'
  <2>1. CASE Crash(r)
    BY <2>1, GoneStep DEF Crash, Outcomes
  <2>2. CASE ReportEnds(r)
    BY <2>2, ConfirmedFacts, GoneStep DEF ReportEnds
  <2>3. QED
    BY <1>9, <2>1, <2>2
<1>10. QED
  BY <1>1, <1>2, <1>3, <1>4, <1>5, <1>6, <1>7, <1>8, <1>9, TickStep DEF Next, RunStep

\* The workers and their leases keep IInv, whatever is lost or late.
THEOREM Invariance == Spec => []IInv
BY InitInv, NextStep, PTL DEF Spec

\* Before a lease lapses its encoder is gone (Worker.EncoderGoneBeforeLapse): what
\* run_job's watchdog and lease_stop_seconds promise, for every lease that leaves
\* the margin.
THEOREM GoneBeforeLapse == Spec => []EncoderGoneBeforeLapse
<1>1. IInv => EncoderGoneBeforeLapse
  BY LeaseOutlastsEncoder DEF EncoderGoneBeforeLapse
<1>2. QED
  BY <1>1, Invariance, PTL

\* A completion that a worker logs is one the repository recorded.
THEOREM CompletionIsRecorded == Spec => []SuccessIsConfirmed
<1>1. IInv => SuccessIsConfirmed
  BY DEF IInv, RunInv, Recorded, Done, SuccessIsConfirmed
<1>2. QED
  BY <1>1, Invariance, PTL

\* Both of them, and what the rows, the requests and the workers hold: with any
\* timing that satisfies LeaseAssumption a worker is off the air before its lease
\* lapses and logs as completed only what the repository recorded.
THEOREM LeasesStayHonoured == Spec => []LeasesAreHonoured
<1>1. IInv => EncoderGoneBeforeLapse
  BY LeaseOutlastsEncoder DEF EncoderGoneBeforeLapse
<1>2. IInv => SuccessIsConfirmed
  BY DEF IInv, RunInv, Recorded, Done, SuccessIsConfirmed
<1>3. IInv => LeasesAreHonoured
  BY <1>1, <1>2 DEF IInv, LeasesAreHonoured
<1>4. QED
  BY <1>3, Invariance, PTL

----------------------------------------------------------------------------
(* The refinement: publishing is being on air. *)

LEMMA AirFacts ==
    ASSUME IInv
    PROVE  /\ OnAir = {} => Air = <<>>
           /\ \A r \in Runs : r \in OnAir => OnAir = {r} /\ Air = r /\ Air # <<>>
<1>1. ASSUME NEW r \in Runs PROVE r # <<>>
  BY RunParts
<1>2. ASSUME NEW r \in Runs, r \in OnAir PROVE OnAir = {r} /\ Air = r
  <2>1. OnAir = {r}
    BY <1>2 DEF OnAir, IInv, InTurn
  <2>2. QED
    BY <2>1 DEF Air
<1>3. QED
  BY <1>1, <1>2 DEF Air

\* Only a started encoder comes on air.
LEMMA OthersLeave ==
    ASSUME IInv, [Next]_vars, \A r \in Runs : ~StartEncoder(r)
    PROVE  OnAir' \subseteq OnAir /\ aired' = aired
<1>1. CASE UNCHANGED vars
  BY <1>1 DEF vars, OnAir
<1>2. ASSUME NEW j \in Jobs, Claim(j) \/ Recover(j) \/ Cancel(j)
      PROVE  UNCHANGED <<worker, aired>>
  BY <1>2 DEF Claim, Recover, Cancel
<1>3. ASSUME NEW r \in Runs, ServeBeat(r) \/ ServeLateBeat(r) \/ ServeReport(r) \/ Beat(r)
      PROVE  UNCHANGED <<worker, aired>>
  BY <1>3 DEF ServeBeat, ServeLateBeat, ServeReport, Beat
<1>4. ASSUME NEW r \in Runs, Boot(r) \/ Report(r) \/ BeatAnswered(r) \/ BeatGivenUp(r)
      PROVE  OnAir' \subseteq OnAir /\ aired' = aired
  <2>1. CASE Boot(r)
    BY <2>1, Typed DEF Boot, OnAir, Workers
  <2>2. CASE Report(r)
    BY <2>2, Typed DEF Report, OnAir, Workers
  <2>3. CASE BeatAnswered(r)
    BY <2>3, Typed DEF BeatAnswered, AfterBeat, OnAir, Workers
  <2>4. CASE BeatGivenUp(r)
    BY <2>4, Typed DEF BeatGivenUp, OnAir, Workers
  <2>5. QED
    BY <1>4, <2>1, <2>2, <2>3, <2>4
<1>5. ASSUME NEW r \in Runs, NEW phase \in {"reporting", "killing"},
             NEW result, Becomes(r, phase, result), aired' = aired
      PROVE  OnAir' \subseteq OnAir /\ aired' = aired
  BY <1>5, Typed DEF Becomes, OnAir, Workers
<1>6. ASSUME NEW r \in Runs, Crash(r) \/ ReportEnds(r)
      PROVE  OnAir' \subseteq OnAir /\ aired' = aired
  BY <1>6, Typed DEF Crash, ReportEnds, Gone, OnAir, Workers
<1>7. CASE Tick
  BY <1>7 DEF Tick, OnAir
<1>8. QED
  BY <1>1, <1>2, <1>3, <1>4, <1>5, <1>6, <1>7
     DEF Next, RunStep, PreparationFails, EncoderEnds, StopEncoder, EncoderKilled, OnAir

LEMMA SlotStep == IInv /\ IInv' /\ [Next]_vars => [Slot!Next]_<<Air, aired>>
<1> SUFFICES ASSUME IInv, IInv', [Next]_vars PROVE [Slot!Next]_<<Air, aired>>
  OBVIOUS
<1>1. ASSUME NEW r \in Runs, StartEncoder(r) PROVE Slot!GoOnAir(r)
  <2>1. OnAir = {}
    BY <1>1, StarterHolds DEF StartEncoder, OnAir
  <2>2. r \in OnAir'
    BY <1>1, Typed DEF StartEncoder, Becomes, OnAir, Workers
  <2>3. OnAir' = {r} /\ Air' = r
    <3>1. OnAir' = {r}
      BY <2>2 DEF IInv, InTurn, OnAir
    <3>2. QED
      BY <3>1 DEF Air
  <2>4. r \notin aired /\ aired' = aired \cup {r}
    BY <1>1 DEF StartEncoder, IInv, RunInv, NotAired
  <2>5. QED
    BY <2>1, <2>3, <2>4, AirFacts DEF Slot!GoOnAir
<1>2. CASE \A r \in Runs : ~StartEncoder(r)
  <2>1. OnAir' \subseteq OnAir /\ aired' = aired
    BY <1>2, OthersLeave
  <2>2. CASE OnAir = {}
    BY <2>1, <2>2 DEF Air
  <2>3. ASSUME NEW r \in Runs, r \in OnAir PROVE [Slot!Next]_<<Air, aired>>
    <3>1. OnAir = {r} /\ Air = r /\ Air # <<>>
      BY <2>3, AirFacts
    <3>2. CASE OnAir' = {r}
      BY <2>1, <3>1, <3>2 DEF Air
    <3>3. CASE OnAir' = {}
      <4>1. Air' = <<>>
        BY <3>3 DEF Air
      <4>2. QED
        BY <2>1, <3>1, <4>1 DEF Slot!LeaveAir, Slot!Next
    <3>4. QED
      BY <2>1, <3>1, <3>2, <3>3
  <2>4. QED
    BY <2>2, <2>3 DEF OnAir
<1>3. QED
  BY <1>1, <1>2 DEF Slot!Next

\* The workers of a tenant implement StreamSlot: one run on air at a time, each once.
THEOREM WorkersShareSlot == Spec => SharesSlot
<1>1. Init => Slot!Init
  BY DEF Init, Slot!Init, Air, OnAir
<1>2. QED
  BY <1>1, SlotStep, Invariance, PTL DEF Spec, SharesSlot, Slot!Spec
=============================================================================
