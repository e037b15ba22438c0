-------------------------- MODULE AutomationsProofs --------------------------
(* Proofs about what MCChannels composes, for any coordinators, flows, keys   *)
(* and requests.                                                              *)
(*  - Automations: whatever coordinators overlap, lose their lease or die, a  *)
(*    run asks YouTube for one broadcast, is called completed only if it was, *)
(*    leaves nothing on air, and broadcasts a recording of its own;           *)
(*  - YouTubeChannel: an authorization is taken by one callback;              *)
(*  - StreamSecrets: a stream key is told and recorded together, and every    *)
(*    ciphertext has a key that is declared.                                  *)
EXTENDS MCChannels, FiniteSetTheorems, NaturalsInduction, WellFoundedInduction, TLAPS

Pcs == {"idle", "step", "checking", "selected", "admitted", "importing", "ready", "intend",
        "insert", "create", "bind", "batch", "broadcast", "broadcasting", "conclude",
        "failing", "cancel", "record", "pause", "release"}
\* The states in which a run has selected its recording and has not ended.
Working == {"selected", "importing", "ready", "broadcasting"}
RunStates == {"none", "checking"} \cup Working \cup Terminal
ARun == [state : RunStates, video : Videos \cup {NoVideo}, jobs : BOOLEAN,
         code : {"none", "youtube", "other"}]
ASchedule == [enabled : BOOLEAN, deleted : BOOLEAN, due : BOOLEAN, active : Runs \cup {0},
              owner : Coordinators \cup {Nobody}, leased : BOOLEAN]
ARow == [phase : {"none", "creating", "created", "ready"}, seen : BOOLEAN]
ARemote == [state : {"none", "ready", "live", "complete", "revoked"}, started : BOOLEAN, made : Nat]
ACoord == [pc : Pcs, run : Runs \cup {0}, code : {"none", "youtube", "other"}]
Types ==
    /\ sched \in ASchedule
    /\ run \in [Runs -> ARun]
    /\ batch \in [Runs -> {"none", "running", "stopping", "completed", "failed"}]
    /\ row \in [Runs -> ARow]
    /\ remote \in [Runs -> ARemote]
    /\ latest \in Videos \cup {NoVideo}
    /\ coord \in [Coordinators -> ACoord]

\* The state of the run that a coordinator's place in its step relies on.
Expected(pc) ==
    CASE pc = "checking" -> {"checking"}
      [] pc \in {"selected", "admitted"} -> {"selected"}
      [] pc = "importing" -> {"importing"}
      [] pc \in {"ready", "intend", "insert", "create", "bind", "batch", "broadcast"} -> {"ready"}
      [] pc \in {"broadcasting", "conclude"} -> {"broadcasting"}
      [] OTHER -> {"checking"} \cup Working

WasLive(r) == Ended(r) /\ (OnYouTube => row[r].seen /\ Confirmed(r))

\* What a coordinator found holds at its place, with or without the lease.
Place(c) ==
    coord[c].pc # "idle" =>
        LET r == coord[c].run
        IN  /\ r \in Runs /\ run[r].state # "none"
            /\ At(c, "create") => row[r].phase = "creating" /\ remote[r].made = 0
            /\ At(c, "bind") => row[r].phase \in {"created", "ready"}
            /\ At(c, "broadcast") => batch[r] # "none"
            /\ At(c, "conclude") => WasLive(r)
Places == \A c \in Coordinators : Place(c)

\* Two coordinators never create the broadcast of one run.
OneCreator ==
    \A c, d \in Coordinators : At(c, "create") /\ At(d, "create") /\ coord[c].run = coord[d].run => c = d

\* What it read of its run still holds for the coordinator that holds the lease.
Held(c) ==
    Holds(c) =>
        /\ coord[c].pc # "idle"
        /\ coord[c].pc \in {"release", "pause"}
              \/ (coord[c].run = sched.active /\ RunOf(c).state \in Expected(coord[c].pc))
        /\ At(c, "record") /\ RunOf(c).jobs => batch[coord[c].run] # "running"
LeaseIsExclusive == \A c \in Coordinators : Held(c)

\* One run is unfinished, the schedule's; jobs are recorded after their admission.
ARunIsConsistent(r) ==
    /\ run[r].state \notin Terminal \cup {"none"} <=> sched.active = r
    /\ run[r].jobs => batch[r] # "none" /\ run[r].state \in {"broadcasting"} \cup Terminal
    /\ run[r].state \in {"none", "checking"} => run[r].video = NoVideo
    /\ row[r].phase = "none" => remote[r].made = 0
    /\ remote[r].made = 0 => remote[r].state = "none"
RunsAreConsistent ==
    /\ \A r \in Runs : ARunIsConsistent(r)
    /\ sched.deleted => sched.active = 0 /\ ~sched.enabled

\* No run takes a recording whose jobs another run has on record.
RecordingIsFree ==
    \A r, s \in Runs : r # s /\ (run[r].state \in Working \/ run[r].jobs) /\ run[s].jobs
                          => run[r].video = NoVideo \/ run[r].video # run[s].video

IInv ==
    /\ Types
    /\ Places
    /\ OneCreator
    /\ LeaseIsExclusive
    /\ RunsAreConsistent
    /\ RecordingIsFree
    /\ OneBroadcastPerRun
    /\ CompletedWasLive
    /\ EndedRunIsOffAir

-----------------------------------------------------------------------------
(* Lemmas: the earliest fresh run, and what a step makes of a coordinator.    *)

LEMMA EarliestExists ==
    ASSUME NEW S \in SUBSET Nat, S # {}
    PROVE  \E n \in S : \A k \in S : n <= k
<1> DEFINE R == {p \in Nat \X Nat : p[1] < p[2]}
<1>1. IsWellFoundedOn(R, Nat)
  BY NatLessThanWellFounded, Zenon DEF OpToRel
<1>2. PICK n \in S : \A k \in S : ~(<<k, n>> \in R)
  <2> HIDE DEF R
  <2> QED BY <1>1, WFMin
<1>3. ASSUME NEW k \in Nat, NEW n1 \in Nat, ~(<<k, n1>> \in R) PROVE n1 <= k
  BY <1>3
<1>4. \A k \in S : n <= k
  <2> HIDE DEF R
  <2> QED BY <1>2, <1>3
<1>5. QED
  BY <1>4

\* Coordinator c moves to another place in its step, on the same run.
Moved(c, pc) ==
    /\ coord' \in [Coordinators -> ACoord]
    /\ \A d \in Coordinators \ {c} : coord'[d] = coord[d]
    /\ coord'[c].pc = pc /\ coord'[c].run = coord[c].run

LEMMA ToMoves ==
    ASSUME Types, NEW c \in Coordinators, NEW pc \in Pcs, To(c, pc)
    PROVE  Moved(c, pc)
<1>1. coord[c] \in ACoord
  BY DEF Types
<1>2. [coord[c] EXCEPT !.pc = pc] \in ACoord
  BY <1>1 DEF ACoord
<1>3. coord' = [coord EXCEPT ![c] = [coord[c] EXCEPT !.pc = pc]]
  BY DEF To
<1>4. coord' \in [Coordinators -> ACoord] /\ coord'[c] = [coord[c] EXCEPT !.pc = pc]
  BY <1>2, <1>3 DEF Types
<1>5. coord'[c].pc = pc /\ coord'[c].run = coord[c].run
  BY <1>1, <1>4 DEF ACoord
<1>6. QED
  BY <1>3, <1>4, <1>5 DEF Moved, Types

LEMMA FailsMoves ==
    ASSUME Types, NEW c \in Coordinators, NEW code \in {"youtube", "other"}, Fails(c, code)
    PROVE  Moved(c, "failing")
<1> DEFINE next == [coord[c] EXCEPT !.pc = "failing", !.code = code]
<1>1. coord[c] \in ACoord
  BY DEF Types
<1>2. next \in ACoord /\ next.pc = "failing" /\ next.run = coord[c].run
  BY <1>1 DEF ACoord, Pcs
<1>3. coord' = [coord EXCEPT ![c] = next]
  BY DEF Fails
<1>4. QED
  <2> HIDE DEF next
  <2> QED BY <1>2, <1>3 DEF Moved, Types

\* A step that moves a coordinator and changes nothing that it relies on.
LEMMA MoveStep ==
    ASSUME IInv, NEW c \in Coordinators, NEW pc \in Pcs \ {"idle", "create"}, Moved(c, pc),
           coord[c].pc # "idle",
           UNCHANGED <<sched, run, batch, row, remote, latest>>,
           pc = "bind" => row[coord[c].run].phase \in {"created", "ready"},
           pc = "broadcast" => batch[coord[c].run] # "none",
           pc = "conclude" => WasLive(coord[c].run),
           Holds(c) => pc \in {"release", "pause"}
                          \/ (coord[c].run = sched.active /\ RunOf(c).state \in Expected(pc)),
           Holds(c) /\ pc = "record" /\ RunOf(c).jobs => batch[coord[c].run] # "running"
    PROVE  IInv'
<1> USE DEF IInv
<1>1. Types'
  BY DEF Types, Moved
<1>2. Places'
  <2>1. ASSUME NEW d \in Coordinators \ {c} PROVE Place(d)'
    BY <2>1 DEF Places, Place, At, Moved, WasLive, Ended, Confirmed
  <2>2. Place(c)'
    BY DEF Places, Place, At, Moved, WasLive, Ended, Confirmed
  <2>3. QED
    BY <2>1, <2>2 DEF Places
<1>3. OneCreator'
  BY DEF OneCreator, At, Moved
<1>4. LeaseIsExclusive'
  <2>1. ASSUME NEW d \in Coordinators \ {c} PROVE Held(d)'
    BY <2>1 DEF LeaseIsExclusive, Held, Holds, At, Moved, RunOf
  <2>2. Held(c)'
    BY DEF LeaseIsExclusive, Held, Holds, At, Moved, RunOf
  <2>3. QED
    BY <2>1, <2>2 DEF LeaseIsExclusive
<1>5. RunsAreConsistent' /\ RecordingIsFree'
  BY DEF RunsAreConsistent, ARunIsConsistent, RecordingIsFree
<1>6. OneBroadcastPerRun' /\ CompletedWasLive' /\ EndedRunIsOffAir'
  BY DEF OneBroadcastPerRun, CompletedWasLive, EndedRunIsOffAir
<1>7. QED
  BY <1>1, <1>2, <1>3, <1>4, <1>5, <1>6

\* A coordinator that holds the lease writes the schedule's run.
LEMMA RecordStep ==
    ASSUME IInv, NEW c \in Coordinators, NEW values \in ARun, NEW pc \in {"release", "pause"},
           Record(c, values), Moved(c, pc), coord[c].pc \notin {"idle", "release", "pause"},
           UNCHANGED <<batch, row, remote, latest>>,
           values.state \in Working \cup Terminal,
           values.jobs => /\ batch[coord[c].run] # "none"
                          /\ values.state \in {"broadcasting"} \cup Terminal,
           values.jobs /\ values.state \in Terminal => batch[coord[c].run] # "running",
           values.state = "completed" =>
              batch[coord[c].run] = "completed"
                /\ (OnYouTube => row[coord[c].run].seen /\ Confirmed(coord[c].run)),
           \A s \in Runs \ {coord[c].run} :
              (values.state \in Working \/ values.jobs) /\ run[s].jobs
                => values.video = NoVideo \/ values.video # run[s].video
    PROVE  IInv'
<1> USE DEF IInv
<1>0. PICK r \in Runs : r = coord[c].run
  BY DEF Places, Place
<1>1. /\ Holds(c) /\ r = sched.active
      /\ run' = [run EXCEPT ![r] = values]
      /\ run[r].state \notin Terminal \cup {"none"}
  <2>1. Holds(c) /\ r = sched.active /\ run' = [run EXCEPT ![r] = values]
    BY <1>0 DEF Record, LeaseIsExclusive, Held
  <2>2. QED
    BY <2>1 DEF RunsAreConsistent, ARunIsConsistent
<1>2. /\ sched' \in ASchedule
      /\ sched'.active = IF values.state \in Terminal THEN 0 ELSE r
      /\ sched'.owner = sched.owner /\ sched'.leased = sched.leased
      /\ sched'.deleted = sched.deleted /\ sched'.enabled = sched.enabled
  <2>1. sched \in ASchedule
    BY DEF Types
  <2>2. sched' = IF values.state \in Terminal
                 THEN [sched EXCEPT !.active = 0, !.due = FALSE] ELSE sched
    BY DEF Record, MovesOn
  <2>3. QED
    BY <1>1, <2>1, <2>2 DEF ASchedule
<1>3. /\ run' \in [Runs -> ARun] /\ run'[r] = values
      /\ \A s \in Runs \ {r} : run'[s] = run[s]
  BY <1>1 DEF Types
<1>4. Types'
  BY <1>2, <1>3 DEF Types, Moved
<1>5. Places'
  <2>1. ASSUME NEW s \in Runs, run[s].state # "none" PROVE run'[s].state # "none"
    BY <1>3, <2>1 DEF Working, Terminal
  <2>2. ASSUME NEW d \in Coordinators \ {c} PROVE Place(d)'
    BY <2>1, <2>2 DEF Places, Place, At, Moved, WasLive, Ended, Confirmed
  <2>3. Place(c)'
    BY <2>1 DEF Places, Place, At, Moved
  <2>4. QED
    BY <2>2, <2>3 DEF Places
<1>6. OneCreator'
  BY DEF OneCreator, At, Moved
<1>7. LeaseIsExclusive'
  <2>1. ASSUME NEW d \in Coordinators \ {c} PROVE ~Holds(d)'
    BY <1>1, <1>2, <2>1 DEF Holds
  <2>2. Held(c)'
    BY DEF Held, At, Moved
  <2>3. QED
    BY <2>1, <2>2 DEF LeaseIsExclusive, Held
<1>8. RunsAreConsistent'
  <2>1. r # 0 /\ ~sched.deleted
    BY <1>1 DEF Runs, RunsAreConsistent
  <2>2. ASSUME NEW s \in Runs \ {r} PROVE ARunIsConsistent(s)'
    BY <1>1, <1>2, <1>3, <2>1, <2>2 DEF RunsAreConsistent, ARunIsConsistent, Runs
  <2>3. ARunIsConsistent(r)'
    BY <1>0, <1>1, <1>2, <1>3, <2>1 DEF RunsAreConsistent, ARunIsConsistent, Working, Terminal
  <2>4. QED
    BY <1>2, <2>1, <2>2, <2>3 DEF RunsAreConsistent
<1>9. RecordingIsFree'
  <2>1. SUFFICES ASSUME NEW p \in Runs, NEW s \in Runs, p # s,
                        run'[p].state \in Working \/ run'[p].jobs, run'[s].jobs
                 PROVE  run'[p].video = NoVideo \/ run'[p].video # run'[s].video
    BY DEF RecordingIsFree
  <2>2. CASE p = r
    BY <1>0, <1>3, <2>1, <2>2
  <2>3. CASE s = r
    <3>1. run[p].state \notin Working
      BY <1>1, <2>1, <2>3 DEF RunsAreConsistent, ARunIsConsistent, Working, Terminal
    <3>2. run[p].jobs
      BY <1>3, <2>1, <2>3, <3>1
    <3>3. values.jobs
      BY <1>3, <2>1, <2>3
    <3>4. QED
      BY <1>0, <1>3, <2>1, <2>3, <3>2, <3>3
  <2>4. CASE p # r /\ s # r
    BY <1>3, <2>1, <2>4 DEF RecordingIsFree
  <2>5. QED
    BY <2>2, <2>3, <2>4
<1>10. OneBroadcastPerRun' /\ CompletedWasLive' /\ EndedRunIsOffAir'
  BY <1>0, <1>3 DEF OneBroadcastPerRun, CompletedWasLive, EndedRunIsOffAir, Confirmed
<1>11. QED
  BY <1>4, <1>5, <1>6, <1>7, <1>8, <1>9, <1>10

\* What a step records, or the lost lease that keeps it from recording.
LEMMA RecordsCases ==
    ASSUME IInv, NEW c \in Coordinators, NEW values, NEW pc \in {"release", "pause"},
           Records(c, values, pc), UNCHANGED <<batch, row, remote, latest>>,
           coord[c].pc # "idle"
    PROVE  (Record(c, values) /\ Moved(c, pc)) \/ IInv'
<1>1. CASE Record(c, values) /\ To(c, pc)
  BY <1>1, ToMoves DEF IInv, Pcs
<1>2. CASE ~Holds(c) /\ To(c, "release") /\ UNCHANGED <<run, sched>>
  <2>1. Moved(c, "release") /\ "release" \in Pcs \ {"idle", "create"}
    BY <1>2, ToMoves DEF IInv, Pcs
  <2>2. QED
    BY <1>2, <2>1, MoveStep
<1>3. QED
  BY <1>1, <1>2 DEF Records

-----------------------------------------------------------------------------
(* The steps, one lemma per group of actions.                                 *)

LEMMA ExpectedStates ==
    /\ Expected("checking") = {"checking"}
    /\ Expected("selected") = {"selected"} /\ Expected("admitted") = {"selected"}
    /\ Expected("importing") = {"importing"}
    /\ \A pc \in {"ready", "intend", "insert", "create", "bind", "batch", "broadcast"} :
          Expected(pc) = {"ready"}
    /\ Expected("broadcasting") = {"broadcasting"} /\ Expected("conclude") = {"broadcasting"}
    /\ \A pc \in {"step", "failing", "cancel", "record"} : Expected(pc) = {"checking"} \cup Working
BY DEF Expected

\* A coordinator at work has a run, and its own run while it holds the lease.
LEMMA AtWork ==
    ASSUME IInv, NEW c \in Coordinators, coord[c].pc # "idle"
    PROVE  /\ coord[c].run \in Runs /\ RunOf(c) \in ARun /\ RunOf(c).state # "none"
           /\ coord[c].pc \in Pcs
           /\ Holds(c) /\ coord[c].pc \notin {"release", "pause"} =>
                 coord[c].run = sched.active /\ RunOf(c).state \in Expected(coord[c].pc)
BY DEF IInv, Types, Places, Place, LeaseIsExclusive, Held, RunOf, ACoord

\* Steps that only decide where the coordinator goes on.
LEMMA DecideStep ==
    ASSUME IInv, NEW c \in Coordinators,
           \/ Step(c) \/ CreateImport(c) \/ Prepare(c) \/ Guard(c) \/ Overdue(c)
           \/ ObserveJobs(c) \/ CheckLease(c)
           \/ \E code \in {"youtube", "other"} : StepFails(c, code)
    PROVE  IInv'
<1>0. Types
  BY DEF IInv
<1>1. CASE Step(c)
  <2> DEFINE pc == IF RunOf(c).state \in Terminal THEN "release" ELSE RunOf(c).state
  <2>1. coord[c].pc = "step" /\ To(c, pc) /\ UNCHANGED <<sched, run, batch, row, remote, latest>>
    BY <1>1 DEF Step, At
  <2>2. RunOf(c).state \in RunStates \ {"none"}
    BY <2>1, AtWork DEF ARun
  <2>3. pc \in {"release", "checking"} \cup Working
    BY <2>2 DEF RunStates
  <2>4. pc \in Pcs \ {"idle", "create"} /\ pc \notin {"bind", "broadcast", "conclude", "record"}
    BY <2>3 DEF Pcs, Working
  <2>5. Holds(c) => pc = "release" \/ (coord[c].run = sched.active /\ RunOf(c).state \in Expected(pc))
    <3>1. Holds(c) => coord[c].run = sched.active /\ RunOf(c).state \in {"checking"} \cup Working
      BY <2>1, AtWork, ExpectedStates
    <3>2. RunOf(c).state \in {"checking"} \cup Working => RunOf(c).state \in Expected(RunOf(c).state)
      BY ExpectedStates DEF Working
    <3>3. QED
      BY <3>1, <3>2
  <2>6. Moved(c, pc)
    <3> HIDE DEF pc
    <3> QED BY <1>0, <2>1, <2>4, ToMoves
  <2>7. QED
    <3> HIDE DEF pc
    <3> QED BY <2>1, <2>4, <2>5, <2>6, MoveStep
<1>2. ASSUME NEW pc \in Pcs \ {"idle", "create"}, Moved(c, pc), coord[c].pc \notin {"idle", "release", "pause"},
             UNCHANGED <<sched, run, batch, row, remote, latest>>,
             pc \in {"release", "failing"}
               \/ (Expected(pc) = Expected(coord[c].pc) /\ pc # "record")
               \/ (coord[c].pc = "failing" /\ pc = "cancel"),
             pc = "bind" => row[coord[c].run].phase \in {"created", "ready"},
             pc = "conclude" => WasLive(coord[c].run),
             pc # "broadcast"
      PROVE  IInv'
  <2>1. coord[c].run \in Runs
        /\ (Holds(c) => coord[c].run = sched.active /\ RunOf(c).state \in Expected(coord[c].pc))
    BY <1>2, AtWork
  <2>2. coord[c].pc \in Pcs
    BY <1>2, AtWork
  <2>3. Expected(coord[c].pc) \subseteq {"checking"} \cup Working
    BY <1>2, <2>2, ExpectedStates DEF Pcs, Working
  <2>4. Holds(c) => pc = "release" \/ RunOf(c).state \in Expected(pc)
    BY <1>2, <2>1, <2>3, ExpectedStates
  <2>5. QED
    BY <1>2, <2>1, <2>4, MoveStep
<1>3. CASE CreateImport(c)
  <2>1. Moved(c, "admitted") /\ At(c, "selected")
    BY <1>0, <1>3, ToMoves DEF CreateImport, Pcs
  <2>2. QED
    BY <1>2, <1>3, <2>1, ExpectedStates DEF CreateImport, At, Pcs
<1>4. CASE Prepare(c)
  <2>1. /\ At(c, "ready") /\ UNCHANGED <<sched, run, batch, row, remote, latest>>
        /\ \/ To(c, "batch") \/ To(c, "intend") \/ Fails(c, "youtube")
           \/ To(c, "bind") /\ row[coord[c].run].phase \in {"created", "ready"}
    <3>1. coord[c].run \in Runs
      BY <1>4, AtWork DEF Prepare, At
    <3>2. row[coord[c].run].phase \in {"none", "creating", "created", "ready"}
      BY <1>0, <3>1 DEF Types, ARow
    <3>3. QED
      BY <1>4, <3>2 DEF Prepare
  <2>2. \/ Moved(c, "batch") \/ Moved(c, "intend") \/ Moved(c, "failing")
        \/ Moved(c, "bind") /\ row[coord[c].run].phase \in {"created", "ready"}
    BY <1>0, <2>1, ToMoves, FailsMoves DEF Pcs
  <2>3. QED
    BY <1>2, <2>1, <2>2, ExpectedStates DEF At, Pcs
<1>5. CASE Guard(c)
  <2>1. Moved(c, "insert") \/ Moved(c, "release")
    BY <1>0, <1>5, ToMoves DEF Guard, Pcs
  <2>2. QED
    BY <1>2, <1>5, <2>1, ExpectedStates DEF Guard, At, Pcs
<1>6. CASE Overdue(c) \/ \E code \in {"youtube", "other"} : StepFails(c, code)
  <2>1. /\ Moved(c, "failing") /\ coord[c].pc \in Calling
        /\ UNCHANGED <<sched, run, batch, row, remote, latest>>
    BY <1>0, <1>6, FailsMoves DEF Overdue, StepFails, At, Calling
  <2>2. QED
    BY <1>2, <2>1 DEF Calling, Pcs
<1>7. CASE ObserveJobs(c)
  <2>1. \/ Moved(c, "release")
        \/ Moved(c, "conclude") /\ WasLive(coord[c].run)
    BY <1>0, <1>7, ToMoves DEF ObserveJobs, Pcs, WasLive
  <2>2. QED
    BY <1>2, <1>7, <2>1, ExpectedStates DEF ObserveJobs, At, Pcs
<1>8. CASE CheckLease(c)
  <2>1. Moved(c, "cancel") \/ Moved(c, "release")
    BY <1>0, <1>8, ToMoves DEF CheckLease, AfterLeaseCheck, Pcs
  <2>2. QED
    BY <1>2, <1>8, <2>1 DEF CheckLease, At, Pcs
<1>9. QED
  BY <1>1, <1>3, <1>4, <1>5, <1>6, <1>7, <1>8

\* A run with another state, and with the jobs it is given.
LEMMA StateEdit ==
    ASSUME NEW q \in ARun, NEW s \in RunStates
    PROVE  LET e == [q EXCEPT !.state = s]
           IN  e \in ARun /\ e.state = s /\ e.video = q.video /\ e.jobs = q.jobs
BY DEF ARun

LEMMA JobsEdit ==
    ASSUME NEW q \in ARun, NEW s \in RunStates
    PROVE  LET e == [q EXCEPT !.state = s, !.jobs = TRUE]
           IN  e \in ARun /\ e.state = s /\ e.video = q.video /\ e.jobs = TRUE
BY DEF ARun

\* Steps that record what they did.
LEMMA RecordingStep ==
    ASSUME IInv, NEW c \in Coordinators,
           \/ Check(c) \/ RecordImport(c) \/ AwaitImport(c) \/ RecordBatch(c)
           \/ Conclude(c) \/ RecordFailure(c)
    PROVE  IInv'
<1>0. coord[c].pc \notin {"idle", "release", "pause"}
  BY DEF Check, RecordImport, AwaitImport, RecordBatch, Conclude, RecordFailure, At
<1>1. PICK r \in Runs : r = coord[c].run
  BY <1>0, AtWork
<1>2. /\ RunOf(c) = run[r] /\ run[r] \in ARun
      /\ Holds(c) => run[r].state \in Expected(coord[c].pc) /\ r = sched.active
      /\ run[r].jobs => batch[r] # "none" /\ run[r].state \in {"broadcasting"} \cup Terminal
      /\ run[r].state \in {"none", "checking"} => run[r].video = NoVideo
  BY <1>0, <1>1, AtWork DEF RunOf, IInv, RunsAreConsistent, ARunIsConsistent
\* The run keeps its jobs and its recording and gets another state.
<1>3. ASSUME NEW values \in ARun, NEW pc \in {"release", "pause"},
             Records(c, values, pc), UNCHANGED <<batch, row, remote, latest>>,
             Holds(c) =>
                /\ values.state \in Working \cup Terminal
                /\ values.jobs => /\ batch[r] # "none"
                                  /\ values.state \in {"broadcasting"} \cup Terminal
                                  /\ values.state \in Terminal => batch[r] # "running"
                /\ values.state = "completed" =>
                      batch[r] = "completed" /\ (OnYouTube => row[r].seen /\ Confirmed(r))
                /\ \A s \in Runs \ {r} :
                      (values.state \in Working \/ values.jobs) /\ run[s].jobs
                         => values.video = NoVideo \/ values.video # run[s].video
      PROVE  IInv'
  <2>1. CASE Record(c, values) /\ Moved(c, pc)
    <3>1. Holds(c)
      BY <2>1 DEF Record
    <3>2. QED
      BY <1>0, <1>1, <1>3, <2>1, <3>1, RecordStep
  <2>2. QED
    BY <1>0, <1>3, <2>1, RecordsCases
<1>4. \A s \in Runs \ {r} : run[r].state \in Working /\ run[s].jobs
         => run[r].video = NoVideo \/ run[r].video # run[s].video
  BY DEF IInv, RecordingIsFree
<1>5. CASE Check(c)
  <2>1. Holds(c) => run[r].state = "checking" /\ ~run[r].jobs /\ run[r].video = NoVideo
    BY <1>2, <1>5, ExpectedStates DEF Check, At, Terminal
  <2>2. UNCHANGED <<batch, row, remote, latest>>
    BY <1>5 DEF Check
  <2>3. CASE Records(c, [run[r] EXCEPT !.state = "ready"], "release")
    <3> DEFINE e == [run[r] EXCEPT !.state = "ready"]
    <3>1. e \in ARun /\ e.state = "ready" /\ e.video = run[r].video /\ e.jobs = run[r].jobs
      BY <1>2, StateEdit DEF RunStates, Working
    <3>2. QED
      <4> HIDE DEF e
      <4> QED BY <1>3, <2>1, <2>2, <2>3, <3>1 DEF e, Working, Terminal
  <2>4. CASE Records(c, [run[r] EXCEPT !.state = "skipped"], "release")
    <3> DEFINE e == [run[r] EXCEPT !.state = "skipped"]
    <3>1. e \in ARun /\ e.state = "skipped" /\ e.video = run[r].video /\ e.jobs = run[r].jobs
      BY <1>2, StateEdit DEF RunStates, Terminal
    <3>2. QED
      <4> HIDE DEF e
      <4> QED BY <1>3, <2>1, <2>2, <2>4, <3>1 DEF e, Working, Terminal
  <2>5. CASE Queued(latest) = {} /\ Records(c, [run[r] EXCEPT !.state = "selected", !.video = latest], "release")
    <3> DEFINE e == [run[r] EXCEPT !.state = "selected", !.video = latest]
    <3>1. latest \in Videos \cup {NoVideo}
      BY DEF IInv, Types
    <3>2. e \in ARun /\ e.state = "selected" /\ e.video = latest /\ e.jobs = run[r].jobs
      <4>1. "selected" \in RunStates
        BY DEF RunStates, Working
      <4>2. QED
        BY <1>2, <3>1, <4>1 DEF ARun
    <3>3. \A s \in Runs : run[s].jobs => run[s].video # latest
      BY <2>5 DEF Queued
    <3>4. QED
      <4> HIDE DEF e
      <4> QED BY <1>3, <2>1, <2>2, <2>5, <3>2, <3>3 DEF e, Working, Terminal
  <2>6. QED
    BY <1>2, <1>5, <2>3, <2>4, <2>5 DEF Check
<1>6. CASE RecordImport(c)
  <2> DEFINE e == [run[r] EXCEPT !.state = "importing"]
  <2>1. Holds(c) => run[r].state = "selected" /\ ~run[r].jobs
    BY <1>2, <1>6, ExpectedStates DEF RecordImport, At, Terminal
  <2>2. e \in ARun /\ e.state = "importing" /\ e.video = run[r].video /\ e.jobs = run[r].jobs
    BY <1>2, StateEdit DEF RunStates, Working
  <2>3. Records(c, e, "release") /\ UNCHANGED <<batch, row, remote, latest>>
    BY <1>2, <1>6 DEF RecordImport
  <2>4. QED
    <3> HIDE DEF e
    <3> QED BY <1>3, <1>4, <2>1, <2>2, <2>3 DEF Working, Terminal
<1>7. CASE AwaitImport(c)
  <2>1. Holds(c) => run[r].state = "importing" /\ ~run[r].jobs
    BY <1>2, <1>7, ExpectedStates DEF AwaitImport, At, Terminal
  <2>2. UNCHANGED <<batch, row, remote, latest>>
    BY <1>7 DEF AwaitImport
  <2>3. CASE \E s \in {"ready", "failed"} : Records(c, [run[r] EXCEPT !.state = s], "release")
    <3>1. PICK s \in {"ready", "failed"} : Records(c, [run[r] EXCEPT !.state = s], "release")
      BY <2>3
    <3> DEFINE e == [run[r] EXCEPT !.state = s]
    <3>2. e \in ARun /\ e.state = s /\ e.video = run[r].video /\ e.jobs = run[r].jobs
      <4>1. s \in RunStates
        BY DEF RunStates, Working, Terminal
      <4>2. QED
        BY <1>2, <4>1, StateEdit
    <3>3. Records(c, e, "release")
      BY <3>1
    <3>4. QED
      <4> HIDE DEF e
      <4> QED BY <1>3, <1>4, <2>1, <2>2, <3>2, <3>3 DEF Working, Terminal
  <2>4. CASE To(c, "release") /\ UNCHANGED <<run, sched>>
    <3>1. Moved(c, "release") /\ "release" \in Pcs \ {"idle", "create"}
      BY <2>4, ToMoves DEF IInv, Pcs
    <3>2. QED
      BY <1>0, <2>2, <2>4, <3>1, MoveStep
  <2>5. QED
    BY <1>1, <1>2, <1>7, <2>3, <2>4 DEF AwaitImport
<1>8. CASE RecordBatch(c)
  <2> DEFINE e == [run[r] EXCEPT !.state = "broadcasting", !.jobs = TRUE]
  <2>1. Holds(c) => run[r].state = "ready"
    BY <1>2, <1>8, ExpectedStates DEF RecordBatch, At
  <2>2. batch[r] # "none"
    BY <1>1, <1>8 DEF RecordBatch, At, IInv, Places, Place
  <2>3. e \in ARun /\ e.state = "broadcasting" /\ e.video = run[r].video /\ e.jobs = TRUE
    BY <1>2, JobsEdit DEF RunStates, Working
  <2>4. Records(c, e, "release") /\ UNCHANGED <<batch, row, remote, latest>>
    BY <1>2, <1>8 DEF RecordBatch
  <2>5. QED
    <3> HIDE DEF e
    <3> QED BY <1>3, <1>4, <2>1, <2>2, <2>3, <2>4 DEF Working, Terminal
<1>9. CASE Conclude(c)
  <2> DEFINE e == [run[r] EXCEPT !.state = Concluded(r)]
  <2>1. Holds(c) => run[r].state = "broadcasting"
    BY <1>2, <1>9, ExpectedStates DEF Conclude, At
  <2>2. WasLive(r)
    BY <1>1, <1>9 DEF Conclude, At, IInv, Places, Place
  <2>3. Concluded(r) \in {"completed", "failed"} /\ (Concluded(r) = "completed" => batch[r] = "completed")
    BY DEF Concluded
  <2>4. e \in ARun /\ e.state = Concluded(r) /\ e.video = run[r].video /\ e.jobs = run[r].jobs
    <3>1. Concluded(r) \in RunStates
      BY <2>3 DEF RunStates, Terminal
    <3>2. QED
      BY <1>2, <3>1, StateEdit
  <2>5. Records(c, e, "release") /\ UNCHANGED <<batch, row, remote, latest>>
    BY <1>1, <1>2, <1>9 DEF Conclude
  <2>6. batch[r] # "running" /\ batch[r] # "none"
    BY <2>2 DEF WasLive, Ended
  <2>7. \A s \in Runs \ {r} : (run[r].state \in Working \/ run[r].jobs) /\ run[s].jobs
           => run[r].video = NoVideo \/ run[r].video # run[s].video
    BY DEF IInv, RecordingIsFree
  <2>8. QED
    <3> HIDE DEF e
    <3> QED BY <1>3, <2>1, <2>2, <2>3, <2>4, <2>5, <2>6, <2>7 DEF WasLive, Working, Terminal
<1>10. CASE RecordFailure(c)
  <2> DEFINE e == [run[r] EXCEPT !.state = "failed", !.code = coord[c].code]
  <2>1. Holds(c) => (run[r].jobs => batch[r] # "running")
    BY <1>1, <1>2, <1>10 DEF RecordFailure, At, IInv, LeaseIsExclusive, Held
  <2>2. coord[c].code \in {"none", "youtube", "other"}
    BY DEF IInv, Types, ACoord
  <2>3. e \in ARun /\ e.state = "failed" /\ e.video = run[r].video /\ e.jobs = run[r].jobs
    <3>1. "failed" \in RunStates
      BY DEF RunStates, Terminal
    <3>2. QED
      BY <1>2, <2>2, <3>1 DEF ARun
  <2>4. PICK pc \in {"release", "pause"} : Records(c, e, pc)
    BY <1>1, <1>2, <1>10 DEF RecordFailure
  <2>5. UNCHANGED <<batch, row, remote, latest>>
    BY <1>10 DEF RecordFailure
  <2>6. \A s \in Runs \ {r} : (run[r].state \in Working \/ run[r].jobs) /\ run[s].jobs
           => run[r].video = NoVideo \/ run[r].video # run[s].video
    BY DEF IInv, RecordingIsFree
  <2>7. QED
    <3> HIDE DEF e
    <3> QED BY <1>2, <1>3, <2>1, <2>3, <2>4, <2>5, <2>6 DEF Working, Terminal
<1>11. QED
  BY <1>5, <1>6, <1>7, <1>8, <1>9, <1>10

\* Steps that act on the platform or on the jobs.
LEMMA ActingStep ==
    ASSUME IInv, NEW c \in Coordinators,
           \/ InsertIntent(c) \/ (\E made, answered \in BOOLEAN : CreateBroadcast(c, made, answered))
           \/ Bind(c) \/ CreateBatch(c) \/ Observe(c) \/ CancelJobs(c) \/ Pause(c)
    PROVE  IInv'
<1>0. coord[c].pc \in {"insert", "create", "bind", "batch", "broadcasting", "cancel", "pause"} /\ Types
  BY DEF InsertIntent, CreateBroadcast, Bind, CreateBatch, Observe, CancelJobs, Pause, At, IInv
<1>1. PICK r \in Runs : r = coord[c].run
  BY <1>0, AtWork
<1>2. /\ RunOf(c) = run[r] /\ run[r] \in ARun
      /\ Holds(c) /\ coord[c].pc # "pause" => run[r].state \in Expected(coord[c].pc) /\ r = sched.active
      /\ row[r] \in ARow /\ remote[r] \in ARemote /\ ARunIsConsistent(r)
  BY <1>0, <1>1, AtWork DEF RunOf, IInv, RunsAreConsistent, Types
\* Only the coordinator moves, and the row, the broadcast or the jobs of its run change.
<1>3. ASSUME NEW pc \in Pcs \ {"idle"}, Moved(c, pc), UNCHANGED <<sched, run, latest>>,
             batch' \in [Runs -> {"none", "running", "stopping", "completed", "failed"}],
             row' \in [Runs -> ARow], remote' \in [Runs -> ARemote],
             \A s \in Runs \ {r} : batch'[s] = batch[s] /\ row'[s] = row[s] /\ remote'[s] = remote[s],
             batch[r] # "none" => batch'[r] # "none" /\ (batch'[r] = "running" => batch[r] = "running"),
             batch[r] \in {"completed", "failed"} => batch'[r] = batch[r],
             row[r].seen => row'[r].seen,
             row[r].phase \in {"created", "ready"} => row'[r].phase \in {"created", "ready"},
             Confirmed(r) => remote'[r].state = "complete",
             row'[r].phase = "none" => remote'[r].made = 0,
             remote'[r].made = 0 => remote'[r].state = "none",
             remote'[r].made <= 1,
             \A d \in Coordinators \ {c} : At(d, "create") /\ coord[d].run = r =>
                pc # "create" /\ row'[r].phase = row[r].phase /\ remote'[r].made = remote[r].made,
             pc = "create" => row'[r].phase = "creating" /\ remote'[r].made = 0,
             pc = "bind" => row'[r].phase \in {"created", "ready"},
             pc = "broadcast" => batch'[r] # "none",
             pc = "conclude" => WasLive(r)',
             Holds(c) => pc \in {"release", "pause"} \/ (r = sched.active /\ run[r].state \in Expected(pc)),
             Holds(c) /\ pc = "record" /\ run[r].jobs => batch'[r] # "running"
      PROVE  IInv'
  <2>1. Types'
    BY <1>3 DEF IInv, Types, Moved
  <2>2. Places'
    <3>1. ASSUME NEW d \in Coordinators \ {c} PROVE Place(d)'
      <4>1. Place(d) /\ coord'[d] = coord[d] /\ run' = run
        BY <1>3, <3>1 DEF IInv, Places, Moved
      <4>2. CASE coord[d].run = r
        BY <1>1, <1>3, <4>1, <4>2 DEF Place, At, WasLive, Ended, Confirmed
      <4>3. CASE coord[d].run # r
        BY <1>3, <4>1, <4>3 DEF Place, At, WasLive, Ended, Confirmed
      <4>4. QED
        BY <4>2, <4>3
    <3>2. Place(c)'
      <4>1. coord'[c].pc = pc /\ coord'[c].run = r /\ run' = run /\ run[r].state # "none"
        BY <1>0, <1>1, <1>3, AtWork DEF Moved, RunOf
      <4>2. QED
        BY <1>3, <4>1 DEF Place, At, WasLive
    <3>3. QED
      BY <3>1, <3>2 DEF Places
  <2>3. OneCreator'
    BY <1>1, <1>3 DEF IInv, OneCreator, At, Moved
  <2>4. LeaseIsExclusive'
    <3>1. ASSUME NEW d \in Coordinators \ {c} PROVE Held(d)'
      <4>1. Held(d) /\ coord'[d] = coord[d] /\ run' = run /\ sched' = sched
        BY <1>3, <3>1 DEF IInv, LeaseIsExclusive, Moved
      <4>2. Holds(d) /\ d # c => coord[d].pc # "idle" /\ coord[d].run \in Runs
        BY <1>0, AtWork, <4>1 DEF Held
      <4>3. Holds(d) /\ run[coord[d].run].jobs => batch[coord[d].run] # "none"
        BY <4>2, <3>1 DEF IInv, RunsAreConsistent, ARunIsConsistent
      <4>4. QED
        BY <1>3, <3>1, <4>1, <4>2, <4>3 DEF Held, Holds, At, RunOf
    <3>2. Held(c)'
      <4>1. coord'[c].pc = pc /\ coord'[c].run = r /\ run' = run /\ sched' = sched
        BY <1>1, <1>3 DEF Moved
      <4>2. QED
        BY <1>3, <4>1 DEF Held, Holds, At, RunOf
    <3>3. QED
      BY <3>1, <3>2 DEF LeaseIsExclusive
  <2>5. RunsAreConsistent'
    <3>1. ARunIsConsistent(r)'
      BY <1>2, <1>3 DEF ARunIsConsistent
    <3>2. ASSUME NEW s \in Runs \ {r} PROVE ARunIsConsistent(s)'
      BY <1>3, <3>2 DEF IInv, RunsAreConsistent, ARunIsConsistent
    <3>3. QED
      BY <1>3, <3>1, <3>2 DEF IInv, RunsAreConsistent
  <2>6. RecordingIsFree' /\ OneBroadcastPerRun'
    BY <1>3 DEF IInv, RecordingIsFree, OneBroadcastPerRun
  <2>7. CompletedWasLive'
    BY <1>3 DEF IInv, CompletedWasLive, Confirmed
  <2>8. EndedRunIsOffAir'
    BY <1>2, <1>3 DEF IInv, EndedRunIsOffAir, ARunIsConsistent
  <2>9. QED
    BY <2>1, <2>2, <2>3, <2>4, <2>5, <2>6, <2>7, <2>8 DEF IInv
\* A row in another phase is a row.
<1>4. ASSUME NEW ph \in {"none", "creating", "created", "ready"}, row' = [row EXCEPT ![r].phase = ph]
      PROVE  /\ row' \in [Runs -> ARow] /\ row'[r].phase = ph /\ row'[r].seen = row[r].seen
             /\ \A s \in Runs \ {r} : row'[s] = row[s]
  <2> DEFINE e == [row[r] EXCEPT !.phase = ph]
  <2>1. e \in ARow /\ e.phase = ph /\ e.seen = row[r].seen
    BY <1>2, <1>4 DEF ARow
  <2>2. row' = [row EXCEPT ![r] = e]
    BY <1>4
  <2>3. QED
    <3> HIDE DEF e
    <3> QED BY <1>0, <2>1, <2>2 DEF Types
<1>5. \A d \in Coordinators \ {c} : At(d, "create") /\ coord[d].run = r =>
         row[r].phase = "creating" /\ remote[r].made = 0 /\ coord[c].pc # "create"
  BY <1>1 DEF IInv, Places, Place, OneCreator, At
<1>6. /\ row[r].phase = "none" => remote[r].made = 0
      /\ remote[r].made = 0 => remote[r].state = "none"
      /\ remote[r].made \in Nat /\ remote[r].made <= 1
      /\ run[r].jobs => batch[r] # "none"
  BY <1>2 DEF ARunIsConsistent, ARemote, IInv, OneBroadcastPerRun
<1>7. CASE InsertIntent(c)
  <2>1. coord[c].pc = "insert" /\ UNCHANGED <<sched, run, latest, batch, remote>>
    BY <1>7 DEF InsertIntent, At
  <2>2. CASE row[r].phase = "none" /\ To(c, "create") /\ row' = [row EXCEPT ![r].phase = "creating"]
    <3>1. Moved(c, "create") /\ "create" \in Pcs \ {"idle"}
      BY <1>0, <2>2, ToMoves DEF Pcs
    <3>2. QED
      <4>1. /\ row' \in [Runs -> ARow] /\ row'[r].phase = "creating" /\ row'[r].seen = row[r].seen
            /\ \A s \in Runs \ {r} : row'[s] = row[s]
        BY <1>4, <2>2
      <4>2. remote[r].made = 0
        BY <1>6, <2>2
      <4>3. \A d \in Coordinators \ {c} : ~(At(d, "create") /\ coord[d].run = r)
        BY <1>5, <2>2
      <4>4. Holds(c) => r = sched.active /\ run[r].state \in Expected("create")
        BY <1>2, <2>1, ExpectedStates
      <4>5. /\ batch \in [Runs -> {"none", "running", "stopping", "completed", "failed"}]
            /\ remote \in [Runs -> ARemote] /\ ~Confirmed(r)
        BY <1>0, <1>6, <4>2 DEF Types, Confirmed
      <4>6. QED
        BY <1>3, <1>6, <2>1, <2>2, <3>1, <4>1, <4>2, <4>3, <4>4, <4>5
  <2>3. CASE To(c, "release") /\ UNCHANGED row
    <3>1. Moved(c, "release") /\ "release" \in Pcs \ {"idle"}
      BY <1>0, <2>3, ToMoves DEF Pcs
    <3>2. QED
      BY <1>0, <1>2, <1>3, <1>5, <1>6, <2>1, <2>3, <3>1 DEF Types, Confirmed
  <2>4. QED
    BY <1>1, <1>7, <2>2, <2>3 DEF InsertIntent, IntentTaken
<1>8. ASSUME NEW made \in BOOLEAN, NEW answered \in BOOLEAN, CreateBroadcast(c, made, answered)
      PROVE  IInv'
  <2>1. /\ coord[c].pc = "create" /\ UNCHANGED <<sched, run, latest, batch>>
        /\ row[r].phase = "creating" /\ remote[r].made = 0 /\ remote[r].state = "none"
    <3>1. coord[c].pc = "create" /\ UNCHANGED <<sched, run, latest, batch>>
      BY <1>8 DEF CreateBroadcast, At
    <3>2. QED
      BY <1>1, <1>6, <3>1 DEF IInv, Places, Place, At
  <2>2. /\ remote' \in [Runs -> ARemote] /\ remote'[r].made \in {0, 1}
        /\ remote'[r].made = 0 => remote'[r].state = "none"
        /\ \A s \in Runs \ {r} : remote'[s] = remote[s]
    <3> DEFINE e == [remote[r] EXCEPT !.state = "ready", !.made = 1]
    <3>1. e \in ARemote /\ e.made = 1
      BY <1>2 DEF ARemote
    <3>2. \/ remote' = [remote EXCEPT ![r].state = "ready", ![r].made = @ + 1]
          \/ remote' = remote
      BY <1>1, <1>8 DEF CreateBroadcast
    <3>3. remote' = [remote EXCEPT ![r] = e] \/ remote' = remote
      <4>2. CASE remote' = [remote EXCEPT ![r].state = "ready", ![r].made = @ + 1]
        BY <1>0, <1>2, <2>1, <4>2 DEF Types, ARemote
      <4>3. QED
        BY <3>2, <4>2
    <3>4. QED
      <4> HIDE DEF e
      <4> QED BY <1>0, <2>1, <3>1, <3>3 DEF Types
  <2>3. ~Confirmed(r)
    BY <2>1 DEF Confirmed
  <2>4. CASE To(c, "bind") /\ row' = [row EXCEPT ![r].phase = "created"]
    <3>1. Moved(c, "bind") /\ "bind" \in Pcs \ {"idle"}
      BY <1>0, <2>4, ToMoves DEF Pcs
    <3>2. QED
      BY <1>0, <1>2, <1>3, <1>4, <1>5, <2>1, <2>2, <2>3, <2>4, <3>1, ExpectedStates DEF Types
  <2>5. CASE Fails(c, "youtube") /\ UNCHANGED row
    <3>1. Moved(c, "failing") /\ "failing" \in Pcs \ {"idle"}
      BY <1>0, <2>5, FailsMoves DEF Pcs
    <3>2. QED
      BY <1>0, <1>2, <1>3, <1>5, <2>1, <2>2, <2>3, <2>5, <3>1, ExpectedStates DEF Types, Working
  <2>6. QED
    BY <1>1, <1>8, <2>4, <2>5 DEF CreateBroadcast
<1>9. CASE Bind(c)
  <2>1. /\ coord[c].pc = "bind" /\ UNCHANGED <<sched, run, latest, batch, remote>>
        /\ row[r].phase \in {"created", "ready"}
    BY <1>1, <1>9 DEF Bind, At, IInv, Places, Place
  <2>2. CASE To(c, "batch") /\ row' = [row EXCEPT ![r].phase = "ready"]
    <3>1. Moved(c, "batch") /\ "batch" \in Pcs \ {"idle"}
      BY <1>0, <2>2, ToMoves DEF Pcs
    <3>2. QED
      BY <1>0, <1>2, <1>3, <1>4, <1>5, <1>6, <2>1, <2>2, <3>1, ExpectedStates DEF Types, Confirmed
  <2>3. CASE To(c, "release") /\ UNCHANGED row
    <3>1. Moved(c, "release") /\ "release" \in Pcs \ {"idle"}
      BY <1>0, <2>3, ToMoves DEF Pcs
    <3>2. QED
      BY <1>0, <1>2, <1>3, <1>5, <1>6, <2>1, <2>3, <3>1 DEF Types, Confirmed
  <2>4. QED
    BY <1>1, <1>9, <2>2, <2>3 DEF Bind
<1>10. CASE CreateBatch(c)
  <2>1. /\ coord[c].pc = "batch" /\ UNCHANGED <<sched, run, latest, row, remote>>
        /\ batch' = [batch EXCEPT ![r] = IF @ = "none" THEN "running" ELSE @]
        /\ Moved(c, "broadcast") /\ "broadcast" \in Pcs \ {"idle"}
    BY <1>0, <1>1, <1>10, ToMoves DEF CreateBatch, At, Pcs
  <2>2. /\ batch' \in [Runs -> {"none", "running", "stopping", "completed", "failed"}]
        /\ batch'[r] # "none" /\ (batch[r] # "none" => batch'[r] = batch[r])
        /\ \A s \in Runs \ {r} : batch'[s] = batch[s]
    BY <1>0, <2>1 DEF Types
  <2>3. QED
    BY <1>0, <1>2, <1>3, <1>5, <1>6, <2>1, <2>2, ExpectedStates DEF Types, Confirmed
<1>11. CASE CancelJobs(c)
  <2>1. /\ coord[c].pc = "cancel" /\ UNCHANGED <<sched, run, latest, row, remote>>
        /\ batch' = [batch EXCEPT ![r] = IF run[r].jobs /\ @ = "running" THEN "stopping" ELSE @]
        /\ Moved(c, "record") /\ "record" \in Pcs \ {"idle"}
    BY <1>0, <1>1, <1>2, <1>11, ToMoves DEF CancelJobs, At, Pcs
  <2>2. /\ batch' \in [Runs -> {"none", "running", "stopping", "completed", "failed"}]
        /\ run[r].jobs => batch'[r] # "running"
        /\ batch'[r] = batch[r] \/ (batch[r] = "running" /\ batch'[r] = "stopping")
        /\ \A s \in Runs \ {r} : batch'[s] = batch[s]
    BY <1>0, <2>1 DEF Types
  <2>3. QED
    BY <1>0, <1>2, <1>3, <1>5, <1>6, <2>1, <2>2, ExpectedStates DEF Types, Confirmed
<1>12. CASE Observe(c)
  <2> DEFINE seen == row[r].seen \/ remote[r].started
  <2>1. /\ coord[c].pc = "broadcasting" /\ UNCHANGED <<sched, run, latest, batch>> /\ OnYouTube
        /\ row' = [row EXCEPT ![r].seen = seen]
    BY <1>1, <1>12 DEF Observe, At
  <2>2. /\ row' \in [Runs -> ARow] /\ row'[r].phase = row[r].phase /\ row'[r].seen = seen
        /\ \A s \in Runs \ {r} : row'[s] = row[s]
    <3> DEFINE e == [row[r] EXCEPT !.seen = seen]
    <3>1. seen \in BOOLEAN
      BY <1>2 DEF ARow, ARemote
    <3>2. e \in ARow /\ e.phase = row[r].phase /\ e.seen = seen
      <4> HIDE DEF seen
      <4> QED BY <1>2, <3>1 DEF ARow
    <3>3. row' = [row EXCEPT ![r] = e]
      BY <2>1
    <3>4. QED
      <4> HIDE DEF e, seen
      <4> QED BY <1>0, <3>2, <3>3 DEF Types
  <2>3. /\ remote' \in [Runs -> ARemote] /\ remote'[r].made = remote[r].made
        /\ remote'[r].state # remote[r].state => remote[r].state \in {"ready", "live"}
        /\ Confirmed(r) => remote' = remote
        /\ \A s \in Runs \ {r} : remote'[s] = remote[s]
    <3>1. CASE remote' = remote
      BY <1>0, <1>2, <3>1 DEF Types, ARemote
    <3>2. CASE remote' = [remote EXCEPT ![r].state = "complete"] /\ remote[r].state = "live"
      <4> DEFINE e == [remote[r] EXCEPT !.state = "complete"]
      <4>1. e \in ARemote /\ e.made = remote[r].made
        BY <1>2 DEF ARemote
      <4>2. remote' = [remote EXCEPT ![r] = e]
        BY <3>2
      <4>3. QED
        <5> HIDE DEF e
        <5> QED BY <1>0, <3>2, <4>1, <4>2 DEF Types, Confirmed
    <3>3. CASE /\ remote' = [remote EXCEPT ![r].state = "live", ![r].started = TRUE]
               /\ remote[r].state = "ready"
      <4> DEFINE e == [remote[r] EXCEPT !.state = "live", !.started = TRUE]
      <4>1. e \in ARemote /\ e.made = remote[r].made
        BY <1>2 DEF ARemote
      <4>2. remote' = [remote EXCEPT ![r] = e]
        BY <3>3
      <4>3. QED
        <5> HIDE DEF e
        <5> QED BY <1>0, <3>3, <4>1, <4>2 DEF Types, Confirmed
    <3>4. QED
      BY <1>1, <1>12, <3>1, <3>2, <3>3 DEF Observe
  <2>4. /\ row[r].phase = "none" => remote'[r].made = 0
        /\ remote'[r].made = 0 => remote'[r].state = "none"
        /\ remote'[r].made <= 1
        /\ Confirmed(r) => remote'[r].state = "complete"
    BY <1>6, <2>3 DEF Confirmed
  <2>5. \/ Moved(c, "failing") \/ Moved(c, "release")
        \/ Moved(c, "conclude") /\ Confirmed(r) /\ seen /\ Ended(r)
    <3>1. \/ Fails(c, "youtube") \/ To(c, "release")
          \/ To(c, "conclude") /\ Confirmed(r) /\ seen /\ Ended(r)
      BY <1>1, <1>12 DEF Observe
    <3>2. QED
      <4> HIDE DEF seen
      <4> QED BY <1>0, <3>1, ToMoves, FailsMoves DEF Pcs
  <2>6. PICK pc \in {"failing", "release", "conclude"} :
           Moved(c, pc) /\ (pc = "conclude" => Confirmed(r) /\ seen /\ Ended(r))
    <3> HIDE DEF seen
    <3> QED BY <2>5
  <2>7. pc \in Pcs \ {"idle"} /\ (pc = "conclude" => WasLive(r)')
    BY <2>2, <2>1, <2>3, <2>6 DEF Pcs, WasLive, Ended, Confirmed
  <2>8. Holds(c) => pc = "release" \/ (r = sched.active /\ run[r].state \in Expected(pc))
    BY <1>2, <2>1, <2>6, ExpectedStates DEF Working
  <2>9. row[r].seen => row'[r].seen
    BY <2>2
  <2>10. batch' \in [Runs -> {"none", "running", "stopping", "completed", "failed"}] /\ UNCHANGED batch
    BY <1>0, <2>1 DEF Types
  <2>11. QED
    <3> HIDE DEF seen
    <3> QED BY <1>3, <1>5, <2>1, <2>2, <2>3, <2>4, <2>6, <2>7, <2>8, <2>9, <2>10
<1>13. CASE Pause(c)
  <2>1. /\ Moved(c, "release") /\ coord[c].pc = "pause"
        /\ UNCHANGED <<run, batch, row, remote, latest>>
        /\ sched' = IF sched.owner = c THEN [sched EXCEPT !.enabled = FALSE] ELSE sched
    BY <1>0, <1>13, ToMoves DEF Pause, At, Pcs
  <2>2. /\ sched' \in ASchedule /\ sched'.active = sched.active /\ sched'.owner = sched.owner
        /\ sched'.leased = sched.leased /\ sched'.deleted = sched.deleted
        /\ sched'.enabled => sched.enabled
    BY <1>0, <2>1 DEF Types, ASchedule
  <2>3. Types'
    BY <1>0, <2>1, <2>2 DEF Types, Moved
  <2>4. Places' /\ OneCreator'
    BY <2>1 DEF IInv, Places, Place, OneCreator, At, Moved, WasLive, Ended, Confirmed
  <2>5. LeaseIsExclusive'
    <3>1. ASSUME NEW d \in Coordinators \ {c} PROVE Held(d)'
      BY <2>1, <2>2, <3>1 DEF IInv, LeaseIsExclusive, Held, Holds, At, RunOf, Moved
    <3>2. Held(c)'
      BY <2>1 DEF Held, At, Moved
    <3>3. QED
      BY <3>1, <3>2 DEF LeaseIsExclusive
  <2>6. RunsAreConsistent' /\ RecordingIsFree'
    BY <2>1, <2>2 DEF IInv, RunsAreConsistent, ARunIsConsistent, RecordingIsFree
  <2>7. OneBroadcastPerRun' /\ CompletedWasLive' /\ EndedRunIsOffAir'
    BY <2>1 DEF IInv, OneBroadcastPerRun, CompletedWasLive, EndedRunIsOffAir, Confirmed
  <2>8. QED
    BY <2>3, <2>4, <2>5, <2>6, <2>7 DEF IInv
<1>14. QED
  BY <1>7, <1>8, <1>9, <1>10, <1>11, <1>12, <1>13

\* A coordinator takes the lease: of the unfinished run, or of the earliest fresh one.
LEMMA ClaimStep ==
    ASSUME MaxRuns \in Nat, IInv, NEW c \in Coordinators, Claim(c)
    PROVE  IInv'
<1>0. Types /\ At(c, "idle") /\ ~sched.deleted /\ ~sched.leased /\ coord[c] \in ACoord
  BY DEF IInv, Claim, Types
<1>1. PICK r \in Runs :
         /\ sched' = [sched EXCEPT !.active = r, !.owner = c, !.leased = TRUE]
         /\ coord' = [coord EXCEPT ![c] = [pc |-> "step", run |-> r, code |-> "none"]]
         /\ \/ r = sched.active /\ UNCHANGED run
            \/ /\ sched.active = 0 /\ run[r].state = "none"
               /\ run' = [run EXCEPT ![r].state = "checking"]
  <2>1. CASE sched.active # 0
    <3>1. sched.active \in Runs
      BY <1>0, <2>1 DEF Types, ASchedule
    <3>2. QED
      BY <2>1, <3>1 DEF Claim
  <2>2. CASE sched.active = 0
    <3> DEFINE n == CHOOSE n \in Fresh : \A k \in Fresh : n <= k
    <3>1. Fresh \in SUBSET Nat /\ Fresh # {} /\ Fresh \subseteq Runs
      BY <2>2 DEF Claim, Fresh, Runs
    <3>2. n \in Fresh
      BY <3>1, EarliestExists
    <3>3. n \in Runs /\ run[n].state = "none"
      BY <3>1, <3>2 DEF Fresh
    <3>4. /\ sched' = [sched EXCEPT !.active = n, !.owner = c, !.leased = TRUE]
          /\ coord' = [coord EXCEPT ![c] = [pc |-> "step", run |-> n, code |-> "none"]]
          /\ run' = [run EXCEPT ![n].state = "checking"]
      BY <2>2 DEF Claim
    <3>5. QED
      <4> HIDE DEF n
      <4> QED BY <2>2, <3>3, <3>4
  <2>3. QED
    BY <2>1, <2>2
<1>2. UNCHANGED <<batch, row, remote, latest>>
  BY DEF Claim
<1>3. /\ sched' \in ASchedule /\ sched'.active = r /\ sched'.owner = c
      /\ sched'.deleted = sched.deleted
  BY <1>0, <1>1 DEF Types, ASchedule
<1>4. /\ coord' \in [Coordinators -> ACoord]
      /\ coord'[c].pc = "step" /\ coord'[c].run = r
      /\ \A d \in Coordinators \ {c} : coord'[d] = coord[d]
  <2>1. [pc |-> "step", run |-> r, code |-> "none"] \in ACoord
    BY DEF ACoord, Pcs
  <2>2. QED
    BY <1>0, <1>1, <2>1 DEF Types
<1>5. /\ run' \in [Runs -> ARun]
      /\ \A s \in Runs : /\ run'[s].jobs = run[s].jobs /\ run'[s].video = run[s].video
                         /\ s # r => run'[s] = run[s]
      /\ run'[r].state \in {"checking"} \cup Working
      /\ sched.active = 0 => run'[r].state = "checking" /\ run[r].state = "none"
      /\ sched.active # 0 => r = sched.active /\ run' = run
  <2>1. CASE r = sched.active /\ UNCHANGED run
    <3>1. run[r].state \in {"checking"} \cup Working /\ r # 0
      BY <1>0, <2>1 DEF IInv, RunsAreConsistent, ARunIsConsistent, Types, ARun, RunStates, Terminal, Runs
    <3>2. QED
      BY <1>0, <2>1, <3>1 DEF Types
  <2>2. CASE /\ sched.active = 0 /\ run[r].state = "none"
             /\ run' = [run EXCEPT ![r].state = "checking"]
    <3> DEFINE e == [run[r] EXCEPT !.state = "checking"]
    <3>1. e \in ARun /\ e.state = "checking" /\ e.video = run[r].video /\ e.jobs = run[r].jobs
      <4>1. "checking" \in RunStates /\ run[r] \in ARun
        BY <1>0 DEF Types, RunStates
      <4>2. QED
        BY <4>1, StateEdit
    <3>2. run' = [run EXCEPT ![r] = e]
      BY <2>2
    <3>3. QED
      <4> HIDE DEF e
      <4> QED BY <1>0, <2>2, <3>1, <3>2 DEF Types
  <2>3. QED
    BY <1>1, <2>1, <2>2
<1>6. Types'
  BY <1>0, <1>2, <1>3, <1>4, <1>5 DEF Types
<1>7. Places'
  <2>1. \A s \in Runs : run[s].state # "none" => run'[s].state # "none"
    BY <1>5 DEF Working
  <2>2. ASSUME NEW d \in Coordinators \ {c} PROVE Place(d)'
    BY <1>2, <1>4, <2>1, <2>2 DEF IInv, Places, Place, At, WasLive, Ended, Confirmed
  <2>3. Place(c)'
    BY <1>4, <1>5 DEF Place, At, Working
  <2>4. QED
    BY <2>2, <2>3 DEF Places
<1>8. OneCreator'
  BY <1>0, <1>4 DEF IInv, OneCreator, At
<1>9. LeaseIsExclusive'
  <2>1. ASSUME NEW d \in Coordinators \ {c} PROVE Held(d)'
    BY <1>3, <2>1 DEF Held, Holds
  <2>2. Held(c)'
    BY <1>3, <1>4, <1>5, ExpectedStates DEF Held, Holds, At, RunOf
  <2>3. QED
    BY <2>1, <2>2 DEF LeaseIsExclusive
<1>10. RunsAreConsistent'
  <2>1. ARunIsConsistent(r)'
    <3>1. run[r].jobs => run'[r].state = run[r].state
      BY <1>5 DEF IInv, RunsAreConsistent, ARunIsConsistent, Terminal
    <3>2. run'[r].state = run[r].state \/ (run'[r].state = "checking" /\ run[r].state = "none")
      BY <1>5
    <3>3. ARunIsConsistent(r)
      BY DEF IInv, RunsAreConsistent
    <3>4. QED
      BY <1>2, <1>3, <1>5, <3>1, <3>2, <3>3 DEF ARunIsConsistent, Working, Terminal
  <2>2. ASSUME NEW s \in Runs \ {r} PROVE ARunIsConsistent(s)'
    BY <1>2, <1>3, <1>5, <2>2 DEF IInv, RunsAreConsistent, ARunIsConsistent, Runs
  <2>3. QED
    BY <1>0, <1>3, <2>1, <2>2 DEF RunsAreConsistent
<1>11. RecordingIsFree'
  BY <1>5 DEF IInv, RecordingIsFree, Working
<1>12. OneBroadcastPerRun' /\ CompletedWasLive' /\ EndedRunIsOffAir'
  BY <1>2, <1>5 DEF IInv, OneBroadcastPerRun, CompletedWasLive, EndedRunIsOffAir, Confirmed, Working, Terminal
<1>13. QED
  BY <1>6, <1>7, <1>8, <1>9, <1>10, <1>11, <1>12 DEF IInv

\* A coordinator gives up the lease, dies, or loses it; users change the schedule.
LEMMA ScheduleStep ==
    ASSUME IInv,
           \/ \E c \in Coordinators : Release(c) \/ Dies(c)
           \/ LeaseExpires \/ FallsDue \/ Remove
           \/ \E enabled \in BOOLEAN : Change(enabled)
    PROVE  IInv'
<1>0. Types
  BY DEF IInv
<1>1. ASSUME UNCHANGED <<run, batch, row, remote, latest>>,
             sched' \in ASchedule, sched'.active = sched.active,
             sched'.leased => sched.leased /\ sched'.owner = sched.owner,
             sched'.deleted => sched'.active = 0 /\ ~sched'.enabled,
             coord' \in [Coordinators -> ACoord],
             \A c \in Coordinators : coord'[c] = coord[c]
                \/ (coord'[c].pc = "idle" /\ ~(sched'.leased /\ sched'.owner = c))
      PROVE  IInv'
  <2>1. Types'
    BY <1>0, <1>1 DEF Types
  <2>2. Places' /\ OneCreator'
    BY <1>1 DEF IInv, Places, Place, OneCreator, At, WasLive, Ended, Confirmed
  <2>3. LeaseIsExclusive'
    BY <1>1 DEF IInv, LeaseIsExclusive, Held, Holds, At, RunOf
  <2>4. RunsAreConsistent' /\ RecordingIsFree'
    BY <1>1 DEF IInv, RunsAreConsistent, ARunIsConsistent, RecordingIsFree
  <2>5. OneBroadcastPerRun' /\ CompletedWasLive' /\ EndedRunIsOffAir'
    BY <1>1 DEF IInv, OneBroadcastPerRun, CompletedWasLive, EndedRunIsOffAir, Confirmed
  <2>6. QED
    BY <2>1, <2>2, <2>3, <2>4, <2>5 DEF IInv
<1>2. sched \in ASchedule /\ (sched.deleted => sched.active = 0 /\ ~sched.enabled)
  BY <1>0 DEF Types, IInv, RunsAreConsistent
<1>3. ASSUME NEW c \in Coordinators, Release(c) \/ Dies(c) PROVE IInv'
  <2>1. /\ UNCHANGED <<run, batch, row, remote, latest>>
        /\ coord' = [coord EXCEPT ![c] = [pc |-> "idle", run |-> 0, code |-> "none"]]
        /\ sched' = IF sched.owner = c THEN [sched EXCEPT !.owner = Nobody, !.leased = FALSE] ELSE sched
    BY <1>3 DEF Release, Dies
  <2>2. [pc |-> "idle", run |-> 0, code |-> "none"] \in ACoord
    BY DEF ACoord, Pcs
  <2>3. /\ coord' \in [Coordinators -> ACoord] /\ coord'[c].pc = "idle"
        /\ \A d \in Coordinators \ {c} : coord'[d] = coord[d]
    BY <1>0, <2>1, <2>2 DEF Types
  <2>4. /\ sched' \in ASchedule /\ sched'.active = sched.active
        /\ sched'.deleted = sched.deleted /\ sched'.enabled = sched.enabled
        /\ sched'.leased => sched.leased /\ sched'.owner = sched.owner
        /\ ~(sched'.leased /\ sched'.owner = c)
    BY <1>2, <2>1 DEF ASchedule
  <2>5. QED
    BY <1>1, <1>2, <2>1, <2>3, <2>4
<1>4. CASE LeaseExpires \/ FallsDue \/ Remove \/ \E enabled \in BOOLEAN : Change(enabled)
  <2>1. UNCHANGED <<run, batch, row, remote, latest, coord>>
    BY <1>4 DEF LeaseExpires, FallsDue, Remove, Change
  <2>2. /\ sched' \in ASchedule /\ sched'.active = sched.active /\ sched'.owner = sched.owner
        /\ sched'.leased => sched.leased
        /\ sched'.deleted => sched'.active = 0 /\ ~sched'.enabled
    BY <1>2, <1>4 DEF LeaseExpires, FallsDue, Remove, Change, ASchedule
  <2>3. coord' \in [Coordinators -> ACoord]
    BY <1>0, <2>1 DEF Types
  <2>4. QED
    BY <1>1, <2>1, <2>2, <2>3
<1>5. QED
  BY <1>3, <1>4

\* Jobs and imports end, recordings appear, and YouTube moves a broadcast on.
LEMMA WorldStep ==
    ASSUME IInv,
           \/ \E v \in Videos : Publish(v)
           \/ \E r \in Runs : \/ \E s \in {"ready", "failed"} : ImportEnds(r, s)
                              \/ \E s \in {"completed", "failed"} : BatchEnds(r, s)
                              \/ \E s \in {"live", "complete", "revoked"} : RemoteMoves(r, s)
    PROVE  IInv'
<1>0. Types
  BY DEF IInv
<1>1. ASSUME UNCHANGED <<sched, run, row, coord>>, latest' \in Videos \cup {NoVideo},
             batch' \in [Runs -> {"none", "running", "stopping", "completed", "failed"}],
             remote' \in [Runs -> ARemote],
             \A r \in Runs :
                /\ batch'[r] = batch[r] \/ (batch[r] \in {"running", "stopping"} /\ Ended(r)')
                /\ remote'[r].made = remote[r].made
                /\ remote'[r].state = remote[r].state \/ remote[r].state \in {"ready", "live"}
      PROVE  IInv'
  <2>1. Types'
    BY <1>0, <1>1 DEF Types
  <2>2. Places' /\ OneCreator'
    BY <1>1 DEF IInv, Places, Place, OneCreator, At, WasLive, Ended, Confirmed
  <2>3. LeaseIsExclusive'
    <3>1. ASSUME NEW c \in Coordinators PROVE Held(c)'
      <4>1. Held(c)
        BY DEF IInv, LeaseIsExclusive
      <4>2. At(c, "record") => coord[c].run \in Runs
        BY AtWork DEF At
      <4>3. QED
        BY <1>1, <4>1, <4>2 DEF Held, Holds, At, RunOf, Ended
    <3>2. QED
      BY <3>1 DEF LeaseIsExclusive
  <2>4. RunsAreConsistent' /\ RecordingIsFree'
    BY <1>1 DEF IInv, RunsAreConsistent, ARunIsConsistent, RecordingIsFree, Ended
  <2>5. OneBroadcastPerRun' /\ CompletedWasLive' /\ EndedRunIsOffAir'
    BY <1>1 DEF IInv, OneBroadcastPerRun, CompletedWasLive, EndedRunIsOffAir, Confirmed, Ended
  <2>6. QED
    BY <2>1, <2>2, <2>3, <2>4, <2>5 DEF IInv
<1>2. ASSUME NEW v \in Videos, Publish(v) PROVE IInv'
  BY <1>0, <1>1, <1>2 DEF Publish, Types
<1>3. ASSUME NEW r \in Runs, NEW s, ImportEnds(r, s) PROVE IInv'
  BY <1>0, <1>1, <1>3 DEF ImportEnds, Types
<1>4. ASSUME NEW r \in Runs, NEW s \in {"completed", "failed"}, BatchEnds(r, s) PROVE IInv'
  <2>1. batch[r] \in {"running", "stopping"} /\ batch' = [batch EXCEPT ![r] = s]
        /\ UNCHANGED <<sched, run, row, remote, latest, coord>>
    BY <1>4 DEF BatchEnds
  <2>2. QED
    BY <1>0, <1>1, <2>1 DEF Types, Ended
<1>5. ASSUME NEW r \in Runs, NEW s \in {"live", "complete", "revoked"}, RemoteMoves(r, s) PROVE IInv'
  <2> DEFINE e == [remote[r] EXCEPT !.state = s, !.started = remote[r].started \/ s = "live"]
  <2>1. /\ remote[r].state \in {"ready", "live"} /\ UNCHANGED <<sched, run, batch, row, latest, coord>>
        /\ remote' = [remote EXCEPT ![r] = e]
    BY <1>0, <1>5 DEF RemoteMoves, Types
  <2>2. e \in ARemote /\ e.made = remote[r].made
    <3>1. remote[r] \in ARemote
      BY <1>0 DEF Types
    <3>2. QED
      BY <3>1 DEF ARemote
  <2>3. QED
    <3> HIDE DEF e
    <3> QED BY <1>0, <1>1, <2>1, <2>2 DEF Types
<1>6. QED
  BY <1>2, <1>3, <1>4, <1>5

LEMMA InitInv == Init => IInv
<1> SUFFICES ASSUME Init PROVE IInv
  OBVIOUS
<1>1. Types
  BY DEF Init, Types, ASchedule, ARun, RunStates, ARow, ARemote, ACoord, Pcs
<1>2. Places /\ OneCreator /\ LeaseIsExclusive
  BY DEF Init, Places, Place, OneCreator, At, LeaseIsExclusive, Held, Holds
<1>3. RunsAreConsistent
  BY DEF Init, RunsAreConsistent, ARunIsConsistent, Terminal, Runs
<1>4. RecordingIsFree /\ OneBroadcastPerRun /\ CompletedWasLive /\ EndedRunIsOffAir
  BY DEF Init, RecordingIsFree, OneBroadcastPerRun, CompletedWasLive, EndedRunIsOffAir, Terminal
<1>5. QED
  BY <1>1, <1>2, <1>3, <1>4 DEF IInv

LEMMA NextStep ==
    ASSUME MaxRuns \in Nat, IInv, [Next]_vars
    PROVE  IInv'
<1>1. CASE UNCHANGED vars
  BY <1>1 DEF vars, IInv, Types, Places, Place, OneCreator, At, LeaseIsExclusive, Held, Holds, RunOf,
              WasLive, Ended, Confirmed, RunsAreConsistent, ARunIsConsistent, RecordingIsFree,
              OneBroadcastPerRun, CompletedWasLive, EndedRunIsOffAir
<1>2. ASSUME NEW c \in Coordinators,
             Work(c) \/ Overdue(c) \/ Dies(c) \/ \E code \in {"youtube", "other"} : StepFails(c, code)
      PROVE  IInv'
  BY <1>2, ClaimStep, DecideStep, RecordingStep, ActingStep, ScheduleStep DEF Work
<1>3. QED
  BY <1>1, <1>2, ScheduleStep, WorldStep DEF Next

\* The coordinators and the recordings are any; runs are counted.
THEOREM Invariance == MaxRuns \in Nat => (Spec => []IInv)
<1> SUFFICES ASSUME MaxRuns \in Nat PROVE Spec => []IInv
  OBVIOUS
<1>1. IInv /\ [Next]_vars => IInv'
  BY NextStep
<1>2. QED
  BY <1>1, InitInv, PTL DEF Spec

\* YouTube is asked for one broadcast per run at most, whichever coordinators
\* overlap, die or lose their answer (the intent row of youtube_live.py).
THEOREM OneBroadcast ==
    ASSUME MaxRuns \in Nat
    PROVE  Spec => []OneBroadcastPerRun
<1>1. IInv => OneBroadcastPerRun
  BY DEF IInv
<1>2. QED
  BY <1>1, Invariance, PTL

\* A run is called completed only if its jobs completed and YouTube was seen
\* live and has ended the broadcast (observe, and record under the lease).
THEOREM CompletedRunsWereLive ==
    ASSUME MaxRuns \in Nat
    PROVE  Spec => []CompletedWasLive
<1>1. IInv => CompletedWasLive
  BY DEF IInv
<1>2. QED
  BY <1>1, Invariance, PTL

\* A run that has ended leaves none of its recorded jobs on air: a failure
\* cancels them before it is recorded, and nobody else records meanwhile.
THEOREM NothingIsLeftOnAir ==
    ASSUME MaxRuns \in Nat
    PROVE  Spec => []EndedRunIsOffAir
<1>1. IInv => EndedRunIsOffAir
  BY DEF IInv
<1>2. QED
  BY <1>1, Invariance, PTL

\* No two runs have jobs on record for the same recording (check, against the
\* runs whose jobs are recorded).
THEOREM RecordingsAreSentOnce ==
    ASSUME MaxRuns \in Nat
    PROVE  Spec => []RecordedVideoOnce
<1>1. IInv => RecordedVideoOnce
  BY DEF IInv, RecordingIsFree, RecordedVideoOnce
<1>2. QED
  BY <1>1, Invariance, PTL

\* All of it together, as the runs check it.
THEOREM BroadcastsStaySingle ==
    ASSUME MaxRuns \in Nat
    PROVE  Spec => []BroadcastOnce
<1>1. IInv => TypeOK
  BY DEF IInv, Types, ASchedule, ACoord, ARemote, RunsAreConsistent, ARunIsConsistent, TypeOK
<1>2. Spec => []TypeOK
  BY <1>1, Invariance, PTL
<1>3. TypeOK /\ OneBroadcastPerRun /\ CompletedWasLive /\ EndedRunIsOffAir /\ RecordedVideoOnce
        => BroadcastOnce
  BY DEF BroadcastOnce
<1>4. QED
  BY <1>2, <1>3, OneBroadcast, CompletedRunsWereLive, NothingIsLeftOnAir, RecordingsAreSentOnce, PTL

-----------------------------------------------------------------------------
(* The connection to the channel. *)

AnyChannel == [of : Flows, live : BOOLEAN]
AnyReader == [at : {"idle", "row", "refresh", "done", "failed"}, live : BOOLEAN, named : BOOLEAN,
              seen : AnyChannel \cup {None}, row : AnyChannel \cup {None}]
ChannelTypes ==
    /\ cb \in [Callbacks -> [at : {"idle", "exchange", "store", "done", "failed"},
                              flow : Flows \cup {None}, got : AnyChannel \cup {None}]]
    /\ flow \in begun \cup {None} /\ exchanges \in [Flows -> Nat]
    /\ reader \in [Readers -> AnyReader]

\* A flow that was taken, by one callback, has yet to be exchanged; the stored
\* one and those to come were neither taken nor exchanged.
Unused(f) == exchanges[f] = 0 /\ \A c \in Callbacks : cb[c].at = "exchange" => cb[c].flow # f
FlowsTakenOnce ==
    /\ \A f \in Flows : f \notin begun \/ f = flow => Unused(f)
    /\ \A c \in Callbacks : cb[c].at = "exchange" =>
          /\ cb[c].flow \in begun /\ cb[c].flow # flow /\ exchanges[cb[c].flow] = 0
          /\ \A d \in Callbacks \ {c} : cb[d].at = "exchange" => cb[d].flow # cb[c].flow
    /\ \A c \in Callbacks : cb[c].at = "store" => cb[c].got \in AnyChannel
    /\ \A f \in Flows : exchanges[f] <= 1

\* A consent is waited for, served by one callback, connected, or given up: never
\* two of them.
Served(c) == cb[c].at \in {"exchange", "store"}
ConsentsServedOnce ==
    \A c \in Callbacks : Served(c) =>
        /\ cb[c].flow \in begun /\ cb[c].flow \notin given /\ cb[c].flow # flow
        /\ stored # None => stored.of # cb[c].flow
        /\ cb[c].at = "store" => cb[c].got.of = cb[c].flow
        /\ \A d \in Callbacks \ {c} : Served(d) => cb[d].flow # cb[c].flow
ConsentsKeptApart ==
    /\ given \subseteq begun /\ flow \notin given
    /\ stored # None => stored.of \in begun /\ stored.of \notin given /\ stored.of # flow
Consents == ConsentsServedOnce /\ ConsentsKeptApart

\* A reader that needs a live connection saw one.
ReadersSaw ==
    \A r \in Readers : reader[r].live =>
        /\ reader[r].at \in {"row", "refresh", "done"} => reader[r].seen \in AnyChannel /\ reader[r].seen.live
        /\ reader[r].at = "done" /\ reader[r].named => reader[r].row.live

ChannelInv ==
    /\ Channel!TypeOK /\ ChannelTypes /\ FlowsTakenOnce /\ Consents /\ ReadersSaw
    /\ Channel!GrantMatchesToken

LEMMA ChannelNames ==
    /\ AnyChannel = Channel!Channel /\ None \notin Flows /\ None \notin AnyChannel /\ None \notin BOOLEAN
BY PartsAssumption DEF Channel!Parameters, Channel!Channel, AnyChannel

LEMMA ChannelInit == EachInit => ChannelInv
<1> SUFFICES ASSUME EachInit PROVE ChannelInv
  OBVIOUS
<1>1. /\ begun = {} /\ wanted = [f \in Flows |-> FALSE] /\ flow = None /\ stored = None /\ grant = None
      /\ cb = [c \in Callbacks |-> [at |-> "idle", flow |-> None, got |-> None]]
      /\ allowed = TRUE /\ exchanges = [f \in Flows |-> 0] /\ given = {}
      /\ reader \in [Readers -> [at : {"idle"}, live : BOOLEAN, named : {TRUE}, seen : {None}, row : {None}]]
  BY DEF EachInit, Channel!Init
<1>2. reader \in [Readers -> AnyReader] /\ \A r \in Readers : reader[r].at = "idle"
  BY <1>1 DEF AnyReader
<1>3. Channel!TypeOK /\ ChannelTypes
  BY <1>1, <1>2, ChannelNames DEF Channel!TypeOK, ChannelTypes, AnyReader
<1>4. FlowsTakenOnce /\ Channel!GrantMatchesToken
  BY <1>1 DEF FlowsTakenOnce, Unused, Channel!GrantMatchesToken
<1>5. Consents /\ ReadersSaw
  BY <1>1, <1>2 DEF Consents, ConsentsServedOnce, ConsentsKeptApart, Served, ReadersSaw
<1> QED BY <1>3, <1>4, <1>5 DEF ChannelInv

LEMMA TakeFlowStep ==
    ASSUME ChannelInv, NEW c \in Callbacks, NEW f \in Flows, Channel!TakeFlow(c, f)
    PROVE  ChannelInv'
<1> USE DEF ChannelInv
<1>1. cb[c] \in [at : {"idle", "exchange", "store", "done", "failed"},
                 flow : Flows \cup {None}, got : AnyChannel \cup {None}]
  BY DEF ChannelTypes
<1>2. CASE flow = f
  <2>1. cb' = [cb EXCEPT ![c] = [at |-> "exchange", flow |-> f, got |-> None]] /\ flow' = None
        /\ UNCHANGED <<begun, wanted, stored, grant, reader, allowed, exchanges, given>> /\ f \in begun
    BY <1>2, ChannelNames DEF Channel!TakeFlow, Channel!Taken, ChannelTypes
  <2>2. Channel!TypeOK' /\ ChannelTypes'
    BY <2>1, ChannelNames DEF Channel!TypeOK, ChannelTypes
  <2>3. /\ cb'[c].at = "exchange" /\ cb'[c].flow = f /\ \A d \in Callbacks \ {c} : cb'[d] = cb[d]
        /\ begun \subseteq Flows /\ Unused(f)
    BY <1>2, <2>1 DEF ChannelTypes, Channel!TypeOK, FlowsTakenOnce
  <2>4. \A g \in Flows : g \notin begun => Unused(g)'
    BY <2>1, <2>3 DEF FlowsTakenOnce, Unused
  <2>5. \A d \in Callbacks : cb'[d].at = "exchange" =>
           /\ cb'[d].flow \in begun /\ cb'[d].flow # None /\ exchanges[cb'[d].flow] = 0
           /\ \A e \in Callbacks \ {d} : cb'[e].at = "exchange" => cb'[e].flow # cb'[d].flow
    BY <2>1, <2>3, ChannelNames DEF FlowsTakenOnce, Unused
  <2>6. FlowsTakenOnce'
    BY <2>1, <2>3, <2>4, <2>5, ChannelNames DEF FlowsTakenOnce
  <2>7. ConsentsKeptApart'
    <3>1. None \notin given
      BY <2>3, ChannelNames DEF Consents, ConsentsKeptApart
    <3>2. stored # None => stored.of # None
      BY <2>3, ChannelNames DEF Consents, ConsentsKeptApart
    <3> QED BY <2>1, <3>1, <3>2 DEF Consents, ConsentsKeptApart
  <2>8. ConsentsServedOnce'
    <3>1. f \in begun /\ f \notin given /\ f # None /\ (stored # None => stored.of # f)
      BY <1>2, <2>1, ChannelNames DEF Consents, ConsentsKeptApart
    <3>2. \A d \in Callbacks \ {c} : Served(d) => cb[d].flow # f /\ cb[d].flow # None
      BY <1>2, <2>3, ChannelNames DEF Consents, ConsentsServedOnce
    <3> QED BY <2>1, <2>3, <3>1, <3>2 DEF Consents, ConsentsServedOnce, Served
  <2> QED BY <2>1, <2>2, <2>6, <2>7, <2>8 DEF Consents, ReadersSaw, Channel!GrantMatchesToken
<1>3. CASE flow # f
  <2>1. cb' = [cb EXCEPT ![c].at = "failed"]
        /\ UNCHANGED <<begun, wanted, flow, stored, grant, reader, allowed, exchanges, given>>
    BY <1>3 DEF Channel!TakeFlow
  <2>2. Channel!TypeOK' /\ ChannelTypes'
    <3> DEFINE S == [at : {"idle", "exchange", "store", "done", "failed"},
                     flow : Flows \cup {None}, got : AnyChannel \cup {None}]
    <3>1. cb \in [Callbacks -> S] /\ cb[c] \in S
      BY <1>1 DEF ChannelTypes
    <3>2. [cb[c] EXCEPT !.at = "failed"] \in S
      BY <3>1
    <3>3. cb' \in [Callbacks -> S]
      <4> HIDE DEF S
      <4> QED BY <2>1, <3>1, <3>2
    <3>4. ChannelTypes'
      BY <2>1, <3>3 DEF ChannelTypes
    <3>5. Channel!TypeOK'
      BY <2>1, <3>3, ChannelNames DEF Channel!TypeOK
    <3> QED BY <3>4, <3>5
  <2>3. \A d \in Callbacks : cb'[d] = cb[d] \/ (d = c /\ cb'[d].at = "failed")
    BY <2>1, <1>1 DEF ChannelTypes
  <2>4. \A g \in Flows : Unused(g) => Unused(g)'
    BY <2>1, <2>3 DEF Unused
  <2>5. FlowsTakenOnce'
    BY <2>1, <2>3, <2>4 DEF FlowsTakenOnce
  <2>6. Consents'
    BY <2>1, <2>3 DEF Consents, ConsentsServedOnce, ConsentsKeptApart, Served
  <2> QED BY <2>1, <2>2, <2>5, <2>6 DEF ReadersSaw, Channel!GrantMatchesToken
<1> QED BY <1>2, <1>3

LEMMA ExchangeStep == ASSUME ChannelInv, NEW c \in Callbacks, Channel!Exchange(c) PROVE ChannelInv'
<1> USE DEF ChannelInv
<1>1. cb[c] \in [at : {"idle", "exchange", "store", "done", "failed"},
                 flow : Flows \cup {None}, got : AnyChannel \cup {None}]
  BY DEF ChannelTypes
<1>2. PICK f : f = cb[c].flow
  OBVIOUS
<1>3. /\ cb[c].at = "exchange" /\ exchanges' = [exchanges EXCEPT ![f] = exchanges[f] + 1]
      /\ UNCHANGED <<begun, wanted, flow, stored, grant, reader, allowed, given>>
      /\ \/ cb' = [cb EXCEPT ![c].at = "failed"]
         \/ \E live \in BOOLEAN : cb' = [cb EXCEPT ![c].at = "store", ![c].got = [of |-> f, live |-> live]]
  BY <1>2 DEF Channel!Exchange
<1>4. /\ f \in begun /\ f # flow /\ exchanges[f] = 0 /\ f \in Flows
      /\ \A d \in Callbacks \ {c} : cb[d].at = "exchange" => cb[d].flow # f
  BY <1>2, <1>3 DEF FlowsTakenOnce, Channel!TypeOK
<1>5. /\ \A d \in Callbacks \ {c} : cb'[d] = cb[d]
      /\ cb'[c].at \in {"failed", "store"} /\ cb'[c].flow = f
      /\ cb'[c].at = "store" => cb'[c].got \in AnyChannel /\ cb'[c].got.of = f
      /\ cb' \in [Callbacks -> [at : {"idle", "exchange", "store", "done", "failed"},
                                flow : Flows \cup {None}, got : AnyChannel \cup {None}]]
  BY <1>1, <1>2, <1>3, <1>4 DEF ChannelTypes, AnyChannel
<1>6. Channel!TypeOK' /\ ChannelTypes'
  BY <1>3, <1>4, <1>5, ChannelNames DEF Channel!TypeOK, ChannelTypes
<1>7. exchanges'[f] = 1 /\ \A g \in Flows \ {f} : exchanges'[g] = exchanges[g]
  BY <1>3, <1>4 DEF ChannelTypes
<1>8. FlowsTakenOnce'
  <2>1. \A g \in Flows : (g \notin begun \/ g = flow) => Unused(g)'
    BY <1>3, <1>4, <1>5, <1>7 DEF FlowsTakenOnce, Unused
  <2>2. \A d \in Callbacks : cb'[d].at = "exchange" => d # c /\ cb'[d] = cb[d] /\ cb[d].flow # f /\ cb[d].flow \in Flows
    BY <1>4, <1>5 DEF FlowsTakenOnce, Channel!TypeOK
  <2>3. \A d \in Callbacks : cb'[d].at = "exchange" =>
           /\ cb'[d].flow \in begun /\ cb'[d].flow # flow /\ exchanges'[cb'[d].flow] = 0
           /\ \A e \in Callbacks \ {d} : cb'[e].at = "exchange" => cb'[e].flow # cb'[d].flow
    BY <1>7, <2>2 DEF FlowsTakenOnce
  <2>4. \A d \in Callbacks : cb'[d].at = "store" => cb'[d].got \in AnyChannel
    BY <1>5 DEF FlowsTakenOnce
  <2>5. \A g \in Flows : exchanges'[g] <= 1
    BY <1>7 DEF FlowsTakenOnce
  <2> QED BY <1>3, <2>1, <2>3, <2>4, <2>5 DEF FlowsTakenOnce
<1>9. Consents'
  <2>1. ConsentsKeptApart'
    BY <1>3 DEF Consents, ConsentsKeptApart
  <2>2. \A d \in Callbacks : Served(d)' => Served(d) /\ cb'[d].flow = cb[d].flow
    BY <1>2, <1>3, <1>5 DEF Served
  <2>3. \A d \in Callbacks : cb'[d].at = "store" => cb'[d].got.of = cb'[d].flow
    BY <1>5 DEF Consents, ConsentsServedOnce, Served
  <2> QED BY <1>3, <2>1, <2>2, <2>3 DEF Consents, ConsentsServedOnce
<1> QED BY <1>3, <1>6, <1>8, <1>9 DEF ReadersSaw, Channel!GrantMatchesToken

LEMMA StoreStep == ASSUME ChannelInv, NEW c \in Callbacks, Channel!Store(c) PROVE ChannelInv'
<1> USE DEF ChannelInv
<1>1. /\ cb[c].at = "store" /\ UNCHANGED <<begun, wanted, flow, reader, allowed, exchanges>>
      /\ cb' = [cb EXCEPT ![c].at = IF allowed THEN "done" ELSE "failed"]
      /\ \/ stored' = cb[c].got /\ grant' = cb[c].got.live
            /\ given' = given \cup (IF stored = None THEN {} ELSE {stored.of})
         \/ UNCHANGED <<stored, grant, given>>
  BY DEF Channel!Store, Channel!GrantOf, Channel!Connected
<1>2. cb[c].got \in AnyChannel /\ cb[c].got.live \in BOOLEAN
  BY <1>1 DEF FlowsTakenOnce, AnyChannel
<1>3. stored # None => stored.of \in Flows
  BY DEF Consents, ConsentsKeptApart, Channel!TypeOK
<1>4. Channel!TypeOK' /\ ChannelTypes'
  <2>1. cb' \in [Callbacks -> [at : {"idle", "exchange", "store", "done", "failed"},
                              flow : Flows \cup {None}, got : AnyChannel \cup {None}]]
    BY <1>1 DEF ChannelTypes
  <2>2. stored' \in AnyChannel \cup {None} /\ grant' \in BOOLEAN \cup {None} /\ given' \subseteq Flows
    BY <1>1, <1>2, <1>3, ChannelNames DEF Channel!TypeOK
  <2>3. ChannelTypes'
    BY <1>1, <2>1 DEF ChannelTypes
  <2> QED BY <1>1, <2>1, <2>2, <2>3, ChannelNames DEF Channel!TypeOK
<1>5. FlowsTakenOnce'
  BY <1>1 DEF FlowsTakenOnce, Unused, ChannelTypes
<1>6. Channel!GrantMatchesToken'
  BY <1>1, <1>2, ChannelNames DEF Channel!GrantMatchesToken
<1>7. /\ Served(c) /\ cb'[c].at \in {"done", "failed"}
      /\ \A d \in Callbacks \ {c} : cb'[d] = cb[d]
  BY <1>1 DEF ChannelTypes, Served
<1>8. PICK f : f = cb[c].flow
  OBVIOUS
<1>9. /\ f \in begun /\ f \notin given /\ f # flow /\ (stored # None => stored.of # f)
      /\ cb[c].got.of = f /\ \A d \in Callbacks \ {c} : Served(d) => cb[d].flow # f
  BY <1>1, <1>7, <1>8 DEF Consents, ConsentsServedOnce
<1>10. ConsentsKeptApart'
  BY <1>1, <1>2, <1>9, ChannelNames DEF Consents, ConsentsKeptApart
<1>11. ConsentsServedOnce'
  <2>1. \A d \in Callbacks : Served(d)' => d # c /\ Served(d) /\ cb'[d] = cb[d]
    BY <1>7 DEF Served
  <2> QED BY <1>1, <1>9, <2>1 DEF Consents, ConsentsServedOnce
<1> QED BY <1>1, <1>4, <1>5, <1>6, <1>10, <1>11 DEF Consents, ReadersSaw

LEMMA ReaderStep ==
    ASSUME ChannelInv, NEW r \in Readers, Channel!ReadStatus(r) \/ Channel!ReadRow(r) \/ Channel!Refresh(r)
    PROVE  ChannelInv'
<1> USE DEF ChannelInv
<1>1. UNCHANGED <<begun, wanted, flow, stored, grant, cb, allowed, exchanges, given>>
  BY DEF Channel!ReadStatus, Channel!ReadRow, Channel!Refresh, Channel!reading
<1>2. reader \in [Readers -> AnyReader] /\ reader[r] \in AnyReader /\ stored \in AnyChannel \cup {None}
  BY ChannelNames DEF ChannelTypes, Channel!TypeOK
<1> DEFINE Saw(q) == q.live =>
              /\ q.at \in {"row", "refresh", "done"} => q.seen \in AnyChannel /\ q.seen.live
              /\ q.at = "done" /\ q.named => q.row.live
<1>3. Saw(reader[r])
  BY DEF ReadersSaw
<1>4. \E q \in AnyReader : reader' = [reader EXCEPT ![r] = q] /\ Saw(q)
  <2>1. ASSUME Channel!To(r, "failed") PROVE \E q \in AnyReader : reader' = [reader EXCEPT ![r] = q] /\ Saw(q)
    <3>1. reader' = [reader EXCEPT ![r] = [reader[r] EXCEPT !.at = "failed"]]
      BY <1>2, <2>1 DEF Channel!To
    <3>2. [reader[r] EXCEPT !.at = "failed"] \in AnyReader
      BY <1>2 DEF AnyReader
    <3>3. Saw([reader[r] EXCEPT !.at = "failed"])
      BY <1>2 DEF AnyReader
    <3> QED BY <3>1, <3>2, <3>3
  <2>2. CASE Channel!ReadStatus(r)
    <3>1. CASE Channel!To(r, "failed")
      BY <2>1, <3>1
    <3>2. CASE /\ reader' = [reader EXCEPT ![r].at = "row", ![r].seen = stored]
               /\ reader[r].live => stored # None /\ grant = TRUE
      <4>1. reader' = [reader EXCEPT ![r] = [reader[r] EXCEPT !.at = "row", !.seen = stored]]
        BY <1>2, <3>2
      <4>2. [reader[r] EXCEPT !.at = "row", !.seen = stored] \in AnyReader
        BY <1>2 DEF AnyReader
      <4>3. reader[r].live => stored \in AnyChannel /\ stored.live
        BY <1>2, <3>2 DEF Channel!GrantMatchesToken
      <4>4. Saw([reader[r] EXCEPT !.at = "row", !.seen = stored])
        BY <1>2, <4>3 DEF AnyReader
      <4> QED BY <4>1, <4>2, <4>4
    <3> QED BY <2>2, <3>1, <3>2 DEF Channel!ReadStatus
  <2>3. CASE Channel!ReadRow(r)
    <3>1. CASE Channel!To(r, "failed")
      BY <2>1, <3>1
    <3>2. CASE reader' = [reader EXCEPT ![r].at = "refresh", ![r].row = stored] /\ reader[r].at = "row"
      <4>1. reader' = [reader EXCEPT ![r] = [reader[r] EXCEPT !.at = "refresh", !.row = stored]]
        BY <1>2, <3>2
      <4>2. [reader[r] EXCEPT !.at = "refresh", !.row = stored] \in AnyReader
        BY <1>2 DEF AnyReader
      <4>3. Saw([reader[r] EXCEPT !.at = "refresh", !.row = stored])
        BY <1>2, <1>3, <3>2 DEF AnyReader
      <4> QED BY <4>1, <4>2, <4>3
    <3> QED BY <2>3, <3>1, <3>2 DEF Channel!ReadRow
  <2>4. CASE Channel!Refresh(r)
    <3>1. CASE Channel!To(r, "failed")
      BY <2>1, <3>1
    <3>2. ASSUME NEW named \in BOOLEAN, Channel!HandOut(r, named), reader[r].at = "refresh", named => Channel!TokenIsLive(r)
          PROVE  \E q \in AnyReader : reader' = [reader EXCEPT ![r] = q] /\ Saw(q)
      <4>1. reader' = [reader EXCEPT ![r] = [reader[r] EXCEPT !.at = "done", !.named = named]]
        BY <1>2, <3>2 DEF Channel!HandOut
      <4>2. [reader[r] EXCEPT !.at = "done", !.named = named] \in AnyReader
        BY <1>2 DEF AnyReader
      <4>3. Saw([reader[r] EXCEPT !.at = "done", !.named = named])
        BY <1>2, <1>3, <3>2 DEF AnyReader, Channel!TokenIsLive
      <4> QED BY <4>1, <4>2, <4>3
    <3> QED BY <2>4, <3>1, <3>2 DEF Channel!Refresh
  <2> QED BY <2>2, <2>3, <2>4
<1>5. reader' \in [Readers -> AnyReader]
  BY <1>2, <1>4
<1>6. ReadersSaw'
  <2>1. \A q \in Readers : Saw(reader'[q])
    <3>1. \A q \in Readers : Saw(reader[q])
      BY DEF ReadersSaw
    <3> HIDE DEF Saw
    <3> QED BY <1>2, <1>4, <3>1
  <2> QED BY <2>1 DEF ReadersSaw
<1>7. Channel!TypeOK'
  BY <1>1, <1>5, ChannelNames DEF Channel!TypeOK, AnyReader
<1>8. ChannelTypes' /\ FlowsTakenOnce' /\ Channel!GrantMatchesToken'
  BY <1>1, <1>5 DEF ChannelTypes, FlowsTakenOnce, Unused, Channel!GrantMatchesToken
<1>9. Consents'
  BY <1>1 DEF Consents, ConsentsServedOnce, ConsentsKeptApart, Served
<1> QED BY <1>6, <1>7, <1>8, <1>9

LEMMA ConsentStep ==
    ASSUME ChannelInv,
           (\E f \in Flows : Channel!Begin(f)) \/ Channel!Expire \/ Channel!Suspend \/ Channel!Disconnect
    PROVE  ChannelInv'
<1> USE DEF ChannelInv
<1>1. UNCHANGED <<cb, reader, exchanges>>
  BY DEF Channel!Begin, Channel!Expire, Channel!Suspend, Channel!Disconnect
<1>2. begun \subseteq Flows /\ None \notin begun /\ flow \in begun \cup {None}
  BY ChannelNames DEF Channel!TypeOK, ChannelTypes
<1>3. ReadersSaw'
  BY <1>1 DEF ReadersSaw
<1>4. ASSUME NEW f \in Flows, Channel!Begin(f) PROVE ChannelInv'
  <2>1. f \notin begun /\ begun' = begun \cup {f} /\ flow' = f /\ UNCHANGED <<stored, grant, allowed>>
        /\ wanted' \in [Flows -> BOOLEAN] /\ given' = given \cup ({flow} \ {None})
    BY <1>4 DEF Channel!Begin, Channel!Pending, Channel!TypeOK
  <2>2. Channel!TypeOK' /\ ChannelTypes'
    BY <1>1, <1>2, <2>1 DEF Channel!TypeOK, ChannelTypes
  <2>3. FlowsTakenOnce'
    BY <1>1, <2>1 DEF FlowsTakenOnce, Unused
  <2>4. ConsentsKeptApart'
    BY <1>2, <2>1 DEF Consents, ConsentsKeptApart
  <2>5. ConsentsServedOnce'
    BY <1>1, <1>2, <2>1 DEF Consents, ConsentsServedOnce, Served
  <2> QED BY <1>3, <2>1, <2>2, <2>3, <2>4, <2>5 DEF Consents, Channel!GrantMatchesToken
<1>5. CASE Channel!Expire \/ Channel!Suspend \/ Channel!Disconnect
  <2>1. /\ UNCHANGED <<begun, wanted>> /\ flow' \in {flow, None} /\ allowed' \in BOOLEAN
        /\ \/ UNCHANGED <<stored, grant>> /\ UNCHANGED flow /\ given' = given
           \/ UNCHANGED <<stored, grant>> /\ flow' = None /\ given' = given \cup ({flow} \ {None})
           \/ /\ stored' = None /\ grant' = None /\ flow' = None
              /\ given' = given \cup ({flow} \ {None}) \cup (IF stored = None THEN {} ELSE {stored.of})
    BY <1>5 DEF Channel!Expire, Channel!Suspend, Channel!Disconnect, Channel!NonePending,
                Channel!Pending, Channel!Connected, Channel!TypeOK
  <2>2. given' \subseteq begun
    BY <1>2, <2>1 DEF Consents, ConsentsKeptApart
  <2>3. Channel!TypeOK' /\ ChannelTypes'
    BY <1>1, <1>2, <2>1, <2>2 DEF Channel!TypeOK, ChannelTypes
  <2>4. FlowsTakenOnce'
    BY <1>1, <2>1, ChannelNames DEF FlowsTakenOnce, Unused, Channel!TypeOK
  <2>5. ConsentsKeptApart'
    BY <1>2, <2>1, <2>2 DEF Consents, ConsentsKeptApart
  <2>6. ConsentsServedOnce'
    BY <1>1, <1>2, <2>1 DEF Consents, ConsentsServedOnce, Served
  <2> QED BY <1>3, <2>1, <2>3, <2>4, <2>5, <2>6 DEF Consents, Channel!GrantMatchesToken
<1> QED BY <1>4, <1>5

LEMMA ChannelStep == ChannelInv /\ (Channel!Next \/ UNCHANGED channel) => ChannelInv'
<1>1. ASSUME ChannelInv, UNCHANGED channel PROVE ChannelInv'
  <2>1. Channel!TypeOK' /\ ChannelTypes' /\ Channel!GrantMatchesToken'
    BY <1>1 DEF channel, ChannelInv, Channel!TypeOK, ChannelTypes, Channel!GrantMatchesToken
  <2>2. FlowsTakenOnce' /\ ReadersSaw'
    BY <1>1 DEF channel, ChannelInv, FlowsTakenOnce, Unused, ReadersSaw
  <2>3. Consents'
    BY <1>1 DEF channel, ChannelInv, Consents, ConsentsServedOnce, ConsentsKeptApart, Served
  <2> QED BY <2>1, <2>2, <2>3 DEF ChannelInv
<1> QED BY <1>1, TakeFlowStep, ExchangeStep, StoreStep, ReaderStep, ConsentStep DEF Channel!Next

-----------------------------------------------------------------------------
(* The saved stream keys. *)

Ciphers == [key : Secrets!Keys, of : Destinations]
Rings == [keys : SUBSET Secrets!Keys, active : Secrets!Keys]
JobStates == {"unused", "scheduled", "starting", "resolving", "running", "failed", "ended", "deleted"}
Stages == {"scheduled", "starting", "resolving", "running"}
AnyJob == [state : JobStates, secret : Ciphers \cup {None}, asked : Requests \cup {None},
           given : Destinations \cup {None}]
Recorded == [kind : {"single", "batch"}, asked : SUBSET Destinations, jobs : SUBSET Jobs]
Answers == [asked : SUBSET Destinations, jobs : SUBSET Jobs]
SecretTypes ==
    /\ env \in Rings /\ ring \in [Instances -> Rings]
    /\ saved \in [Owners -> Ciphers \cup {None}] /\ backup \in [Owners -> Ciphers \cup {None}]
    /\ record \in [Requests -> Recorded \cup {None}] /\ told \in [Requests -> Answers \cup {None}]
    /\ job \in [Jobs -> AnyJob]
    /\ \A j \in Jobs : (job[j].secret # None <=> job[j].state \in Stages) /\ (job[j].state = "unused" => job[j].asked = None)
    /\ slots \in [Instances -> 0..Slots] /\ lookups \subseteq Instances \X Jobs /\ IsFiniteSet(lookups)
    /\ early \subseteq Secrets!Keys /\ lost \subseteq Secrets!Keys

\* A key that was not retired while it was needed is declared, and in every ring
\* unless it was made active too early: the key of every ciphertext, and every key
\* that a process, or the next one to start, encrypts with.
KeyHeld(k) == k \in env.keys /\ (k \in early \/ \A i \in Instances : k \in ring[i].keys)
KeysAreHeld ==
    /\ KeyHeld(env.active)
    /\ \A i \in Instances : ring[i].active \in ring[i].keys /\ (ring[i].active \in lost \/ KeyHeld(ring[i].active))
    /\ \A c \in Secrets!Stored : c.key \in lost \/ KeyHeld(c.key)

\* What the database remembers of a request is its jobs, what they stream to is
\* what it asked, and a client was told what is remembered.
JobsAreTheRequests ==
    /\ \A r \in Requests : told[r] # None =>
          record[r] # None /\ told[r].asked = record[r].asked /\ told[r].jobs = record[r].jobs
    /\ \A r \in Requests : record[r] # None => record[r].jobs = {j \in Jobs : job[j].asked = r}
    /\ \A j \in Jobs, r \in Requests : job[j].asked = r =>
          /\ record[r] # None
          /\ job[j].secret # None => job[j].secret.of \in record[r].asked
          /\ job[j].given # None => job[j].given \in record[r].asked

\* A lookup was begun for a job that is past its setup; each has its slot.
SlotsAreCounted ==
    /\ \A l \in lookups : job[l[2]].state \notin {"unused", "scheduled", "starting"}
    /\ \A i \in Instances : Cardinality({l \in lookups : l[1] = i}) + slots[i] = Slots

SecretsInv == SecretTypes /\ KeysAreHeld /\ JobsAreTheRequests /\ SlotsAreCounted

LEMMA SecretNames ==
    /\ MaxKey \in Nat \ {0} /\ Slots \in Nat /\ None \notin Ciphers /\ None \notin Destinations /\ None \notin Requests
    /\ None \notin Recorded /\ None \notin Answers
    /\ Secrets!Keys = 1..MaxKey
BY PartsAssumption DEF Secrets!Parameters, Ciphers, Recorded, Answers, Secrets!Keys

LEMMA SecretsInit == Secrets!Init => SecretsInv
<1> SUFFICES ASSUME Secrets!Init PROVE SecretsInv
  OBVIOUS
<1>1. /\ env = [keys |-> {1}, active |-> 1] /\ ring = [i \in Instances |-> env]
      /\ saved = [o \in Owners |-> None] /\ backup = saved /\ record = [r \in Requests |-> None]
      /\ job = [j \in Jobs |-> [state |-> "unused", secret |-> None, asked |-> None, given |-> None]]
      /\ told = [r \in Requests |-> None] /\ slots = [i \in Instances |-> Slots] /\ lookups = {}
      /\ early = {} /\ lost = {}
  BY DEF Secrets!Init, Secrets!NoJob
<1>2. SecretTypes
  <2>1. env \in Rings /\ ring \in [Instances -> Rings]
    BY <1>1, SecretNames DEF Rings
  <2>2. IsFiniteSet(lookups) /\ lookups \subseteq Instances \X Jobs
    BY <1>1, FS_EmptySet
  <2>3. slots \in [Instances -> 0..Slots]
    BY <1>1, SecretNames
  <2>4. job \in [Jobs -> AnyJob] /\ \A j \in Jobs : job[j].secret = None /\ job[j].state = "unused" /\ job[j].asked = None
    BY <1>1 DEF AnyJob, JobStates
  <2> QED BY <1>1, <2>1, <2>2, <2>3, <2>4 DEF SecretTypes, Stages
<1>3. KeysAreHeld
  <2>1. Secrets!Stored = {}
    BY <1>1 DEF Secrets!Stored
  <2> QED BY <1>1, <2>1 DEF KeysAreHeld, KeyHeld
<1>4. JobsAreTheRequests
  BY <1>1, SecretNames DEF JobsAreTheRequests
<1>5. SlotsAreCounted
  <2>1. \A i \in Instances : {l \in lookups : l[1] = i} = {}
    BY <1>1
  <2> QED BY <1>1, <2>1, SecretNames, FS_EmptySet DEF SlotsAreCounted
<1> QED BY <1>2, <1>3, <1>4, <1>5 DEF SecretsInv

\* Ciphertexts come from the connections, the backup and the jobs.
LEMMA StoredFacts ==
    /\ \A o \in Owners : saved[o] # None => saved[o] \in Secrets!Stored
    /\ \A o \in Owners : backup[o] # None => backup[o] \in Secrets!Stored
    /\ \A j \in Jobs : job[j].secret # None => job[j].secret \in Secrets!Stored
    /\ \A c \in Secrets!Stored :
          /\ c # None
          /\ (\E o \in Owners : c = saved[o]) \/ (\E o \in Owners : c = backup[o]) \/ (\E j \in Jobs : c = job[j].secret)
BY DEF Secrets!Stored

\* The keys.
LEMMA KeysStep ==
    ASSUME SecretsInv, Secrets!Declare \/ \E k \in Secrets!Keys : Secrets!Activate(k) \/ Secrets!Retire(k)
    PROVE  SecretsInv'
<1>1. UNCHANGED <<ring, saved, backup, record, job, told, slots, lookups>>
  BY DEF Secrets!Declare, Secrets!Activate, Secrets!Retire
<1>2. Secrets!Stored' = Secrets!Stored
  BY <1>1 DEF Secrets!Stored
<1>3. env \in Rings /\ env.keys \subseteq Secrets!Keys /\ env.active \in Secrets!Keys
  BY DEF SecretsInv, SecretTypes, Rings
<1>4. env' \in Rings /\ early' \subseteq Secrets!Keys /\ lost' \subseteq Secrets!Keys /\ KeysAreHeld'
  <2>0. early \subseteq Secrets!Keys /\ lost \subseteq Secrets!Keys
    BY DEF SecretsInv, SecretTypes
  <2>1. CASE Secrets!Declare
    <3>1. PICK k \in Secrets!Keys : env' = [env EXCEPT !.keys = env.keys \cup {k}]
      BY <2>1 DEF Secrets!Declare
    <3>2. env' \in Rings /\ env'.keys = env.keys \cup {k} /\ env'.active = env.active /\ UNCHANGED <<early, lost>>
      BY <1>3, <2>1, <3>1 DEF Rings, Secrets!Declare, Secrets!operator
    <3>3. \A l : KeyHeld(l) => KeyHeld(l)'
      BY <1>1, <3>2 DEF KeyHeld
    <3> QED BY <1>1, <1>2, <2>0, <3>2, <3>3 DEF SecretsInv, KeysAreHeld
  <2>2. ASSUME NEW k \in Secrets!Keys, Secrets!Activate(k)
        PROVE  env' \in Rings /\ early' \subseteq Secrets!Keys /\ lost' \subseteq Secrets!Keys /\ KeysAreHeld'
    <3>1. /\ env' = [env EXCEPT !.active = k] /\ k \in env.keys /\ UNCHANGED lost
          /\ early' = early \cup {l \in {k} : \E i \in Instances : l \notin ring[i].keys}
      BY <2>2 DEF Secrets!Activate
    <3>2. env' \in Rings /\ env'.keys = env.keys /\ env'.active = k
      BY <1>3, <3>1 DEF Rings
    <3>3. KeyHeld(k)' /\ \A l : KeyHeld(l) => KeyHeld(l)'
      BY <1>1, <3>1, <3>2 DEF KeyHeld
    <3> QED BY <1>1, <1>2, <2>0, <3>1, <3>2, <3>3 DEF SecretsInv, KeysAreHeld
  <2>3. ASSUME NEW k \in Secrets!Keys, Secrets!Retire(k)
        PROVE  env' \in Rings /\ early' \subseteq Secrets!Keys /\ lost' \subseteq Secrets!Keys /\ KeysAreHeld'
    <3>1. /\ env' = [env EXCEPT !.keys = env.keys \ {k}] /\ k # env.active /\ UNCHANGED early
          /\ lost' = lost \cup {l \in {k} : \/ \E c \in Secrets!Stored : c.key = l
                                            \/ \E i \in Instances : ring[i].active = l}
      BY <2>3 DEF Secrets!Retire
    <3>2. env' \in Rings /\ env'.keys = env.keys \ {k} /\ env'.active = env.active
      BY <1>3, <3>1 DEF Rings
    <3>3. \A l : KeyHeld(l) /\ l # k => KeyHeld(l)'
      BY <1>1, <3>1, <3>2 DEF KeyHeld
    <3>4. (\A c \in Secrets!Stored : c.key = k => k \in lost') /\ (\A i \in Instances : ring[i].active = k => k \in lost')
      BY <3>1
    <3> QED BY <1>1, <1>2, <2>0, <3>1, <3>2, <3>3, <3>4 DEF SecretsInv, KeysAreHeld
  <2> QED BY <2>1, <2>2, <2>3
<1>5. SecretTypes' /\ JobsAreTheRequests' /\ SlotsAreCounted'
  BY <1>1, <1>4 DEF SecretsInv, SecretTypes, JobsAreTheRequests, SlotsAreCounted
<1> QED BY <1>4, <1>5 DEF SecretsInv

LEMMA SavedStep ==
    ASSUME SecretsInv,
           \/ Secrets!BackUp \/ Secrets!Restore \/ \E o \in Owners : Secrets!Delete(o)
           \/ \E i \in Instances, o \in Owners, d \in Destinations : Secrets!Save(i, o, d)
    PROVE  SecretsInv'
<1>1. UNCHANGED <<env, ring, record, job, told, slots, lookups, early, lost>>
  BY DEF Secrets!BackUp, Secrets!Restore, Secrets!Delete, Secrets!Save, Secrets!operator
<1>2. saved \in [Owners -> Ciphers \cup {None}] /\ backup \in [Owners -> Ciphers \cup {None}]
      /\ \A i \in Instances : ring[i].active \in Secrets!Keys
  BY DEF SecretsInv, SecretTypes, Rings
<1>3. /\ saved' \in [Owners -> Ciphers \cup {None}] /\ backup' \in [Owners -> Ciphers \cup {None}]
      /\ \A o \in Owners : \/ saved'[o] \in Secrets!Stored \cup {None}
                           \/ \E i \in Instances : saved'[o].key = ring[i].active
      /\ \A o \in Owners : backup'[o] \in Secrets!Stored \cup {None}
  <2>1. \A o \in Owners : saved[o] \in Secrets!Stored \cup {None} /\ backup[o] \in Secrets!Stored \cup {None}
    BY StoredFacts
  <2>2. CASE Secrets!BackUp \/ Secrets!Restore
    BY <1>2, <2>1, <2>2 DEF Secrets!BackUp, Secrets!Restore
  <2>3. ASSUME NEW o \in Owners, Secrets!Delete(o)
        PROVE  /\ saved' = [saved EXCEPT ![o] = None] /\ backup' = backup
    BY <2>3 DEF Secrets!Delete
  <2>4. ASSUME NEW i \in Instances, NEW o \in Owners, NEW d \in Destinations, Secrets!Save(i, o, d)
        PROVE  /\ saved' = [saved EXCEPT ![o] = Secrets!Cipher(i, d)] /\ backup' = backup
               /\ Secrets!Cipher(i, d) \in Ciphers /\ Secrets!Cipher(i, d).key = ring[i].active
    BY <1>2, <2>4 DEF Secrets!Save, Secrets!Cipher, Ciphers
  <2> QED BY <1>2, <2>1, <2>2, <2>3, <2>4
<1>4. KeysAreHeld'
  <2>1. ASSUME NEW c, c \in Secrets!Stored', c \notin Secrets!Stored PROVE \E i \in Instances : c.key = ring[i].active
    <3>1. c # None /\ ((\E o \in Owners : c = saved'[o]) \/ (\E o \in Owners : c = backup'[o]) \/ (\E j \in Jobs : c = job[j].secret))
      BY <1>1, <2>1 DEF Secrets!Stored
    <3> QED BY <1>3, <2>1, <3>1, StoredFacts
  <2> QED BY <1>1, <2>1 DEF SecretsInv, KeysAreHeld, KeyHeld
<1>5. SecretTypes' /\ JobsAreTheRequests' /\ SlotsAreCounted'
  BY <1>1, <1>3 DEF SecretsInv, SecretTypes, JobsAreTheRequests, SlotsAreCounted
<1> QED BY <1>4, <1>5 DEF SecretsInv

\* A job that goes on keeps what it asked, keeps or drops its secret, and is
\* given at most what the secret hides.
Goes(j) ==
    /\ job'[j] \in AnyJob /\ job'[j].asked = job[j].asked
    /\ job'[j].secret \in {job[j].secret, None} /\ (job'[j].secret # None <=> job'[j].state \in Stages)
    /\ job[j].state # "unused" /\ job'[j].state # "unused"
    /\ \/ job'[j].given = job[j].given
       \/ job[j].secret # None /\ job'[j].given = job[j].secret.of

LEMMA JobsGoOn ==
    ASSUME SecretsInv, job' \in [Jobs -> AnyJob], \A j \in Jobs : job'[j] = job[j] \/ Goes(j),
           UNCHANGED <<saved, backup, record, told>>
    PROVE  /\ Secrets!Stored' \subseteq Secrets!Stored /\ JobsAreTheRequests'
           /\ \A j \in Jobs : /\ job'[j].secret # None <=> job'[j].state \in Stages
                              /\ job'[j].state = "unused" => job'[j].asked = None
<1>1. \A j \in Jobs : /\ job'[j].asked = job[j].asked /\ job'[j].secret \in {job[j].secret, None}
                      /\ job'[j].given = job[j].given \/ (job[j].secret # None /\ job'[j].given = job[j].secret.of)
                      /\ job'[j].secret # None <=> job'[j].state \in Stages
                      /\ job'[j].state = "unused" => job'[j].asked = None
  BY DEF Goes, SecretsInv, SecretTypes
<1>2. Secrets!Stored' \subseteq Secrets!Stored
  BY <1>1 DEF Secrets!Stored
<1>3. JobsAreTheRequests'
  <2>1. \A r \in Requests : {j \in Jobs : job'[j].asked = r} = {j \in Jobs : job[j].asked = r}
    BY <1>1
  <2> QED BY <1>1, <2>1 DEF SecretsInv, JobsAreTheRequests
<1> QED BY <1>1, <1>2, <1>3

LEMMA FromEnvStep == ASSUME SecretsInv, NEW i \in Instances, Secrets!FromEnv(i) PROVE SecretsInv'
<1>1. /\ ring' = [ring EXCEPT ![i] = env] /\ slots' = [slots EXCEPT ![i] = Slots]
      /\ lookups' = {l \in lookups : l[1] # i} /\ UNCHANGED <<env, saved, backup, record, told, early, lost>>
      /\ job' = [j \in Jobs |-> IF <<i, j>> \in lookups /\ job[j].state = "resolving"
                                THEN [job[j] EXCEPT !.state = "failed", !.secret = None] ELSE job[j]]
  BY DEF Secrets!FromEnv, Secrets!operator
<1>2. SecretTypes /\ KeysAreHeld /\ SlotsAreCounted
  BY DEF SecretsInv
<1>3. job' \in [Jobs -> AnyJob] /\ \A j \in Jobs : job'[j] = job[j] \/ (Goes(j) /\ job'[j].state = "failed")
  <2>1. ASSUME NEW j \in Jobs PROVE job'[j] \in AnyJob /\ (job'[j] = job[j] \/ (Goes(j) /\ job'[j].state = "failed"))
    <3>1. job[j] \in AnyJob
      BY <1>2 DEF SecretTypes
    <3>2. CASE job'[j] = job[j]
      BY <3>1, <3>2
    <3>3. CASE job'[j] = [job[j] EXCEPT !.state = "failed", !.secret = None] /\ job[j].state = "resolving"
      BY <3>1, <3>3 DEF AnyJob, JobStates, Goes, Stages
    <3> QED BY <1>1, <3>2, <3>3
  <2>2. job' = [j \in Jobs |-> job'[j]]
    BY <1>1
  <2> QED BY <2>1, <2>2
<1>4. /\ Secrets!Stored' \subseteq Secrets!Stored /\ JobsAreTheRequests'
      /\ \A j \in Jobs : /\ job'[j].secret # None <=> job'[j].state \in Stages
                         /\ job'[j].state = "unused" => job'[j].asked = None
  BY <1>1, <1>3, JobsGoOn
<1>5. IsFiniteSet(lookups') /\ lookups' \subseteq lookups
  BY <1>1, <1>2, FS_Subset DEF SecretTypes
<1>6. ring' \in [Instances -> Rings] /\ slots' \in [Instances -> 0..Slots]
  <2>1. ring' \in [Instances -> Rings]
    BY <1>1, <1>2 DEF SecretTypes
  <2>2. Slots \in 0..Slots
    BY SecretNames
  <2> QED BY <1>1, <1>2, <2>1, <2>2 DEF SecretTypes
<1>7. SecretTypes'
  BY <1>1, <1>2, <1>3, <1>4, <1>5, <1>6 DEF SecretTypes
<1>8. KeysAreHeld'
  <2>1. ring'[i] = env /\ \A h \in Instances \ {i} : ring'[h] = ring[h]
    BY <1>1, <1>2 DEF SecretTypes
  <2>2. \A k : KeyHeld(k) => k \in env.keys /\ (k \in early \/ \A h \in Instances : k \in ring'[h].keys)
    BY <2>1 DEF KeyHeld
  <2>3. KeyHeld(env.active) /\ env.active \in env.keys
    BY <1>2 DEF KeysAreHeld, KeyHeld
  <2>4. \A h \in Instances : /\ ring'[h].active \in ring'[h].keys
                             /\ ring'[h].active \in lost \/ KeyHeld(ring'[h].active)
    <3> TAKE h \in Instances
    <3>1. CASE h = i
      BY <2>1, <2>3, <3>1
    <3>2. CASE h # i
      BY <1>2, <2>1, <3>2 DEF KeysAreHeld
    <3> QED BY <3>1, <3>2
  <2>5. \A c \in Secrets!Stored' : c.key \in lost \/ KeyHeld(c.key)
    BY <1>2, <1>4 DEF KeysAreHeld
  <2>6. env' = env /\ early' = early /\ lost' = lost
    BY <1>1
  <2> QED BY <2>2, <2>3, <2>4, <2>5, <2>6 DEF KeysAreHeld, KeyHeld
<1>9. SlotsAreCounted'
  <2>1. \A l \in lookups' : job'[l[2]].state \notin {"unused", "scheduled", "starting"}
    BY <1>2, <1>3, <1>5 DEF SlotsAreCounted, SecretTypes
  <2>2. \A h \in Instances \ {i} : {l \in lookups' : l[1] = h} = {l \in lookups : l[1] = h} /\ slots'[h] = slots[h]
    BY <1>1, <1>2 DEF SecretTypes
  <2>3. {l \in lookups' : l[1] = i} = {} /\ slots'[i] = Slots
    BY <1>1, <1>2 DEF SecretTypes
  <2>4. Cardinality({l \in lookups' : l[1] = i}) = 0
    BY <2>3, FS_EmptySet
  <2>5. Cardinality({l \in lookups' : l[1] = i}) + slots'[i] = Slots
    BY <2>3, <2>4, SecretNames
  <2>6. \A h \in Instances : Cardinality({l \in lookups' : l[1] = h}) + slots'[h] = Slots
    <3> TAKE h \in Instances
    <3>1. CASE h # i
      <4>1. {l \in lookups' : l[1] = h} = {l \in lookups : l[1] = h} /\ slots'[h] = slots[h]
        BY <2>2, <3>1
      <4> QED BY <1>2, <4>1 DEF SlotsAreCounted
    <3> QED BY <2>5, <3>1
  <2> QED BY <2>1, <2>6 DEF SlotsAreCounted
<1> QED BY <1>4, <1>7, <1>8, <1>9 DEF SecretsInv

\* A step of a job that begins and ends no lookup.
LEMMA JobStep ==
    ASSUME SecretsInv, NEW j \in Jobs, Secrets!Claim(j) \/ Secrets!GiveUp(j) \/ Secrets!Finish(j) \/ Secrets!Expire(j)
    PROVE  SecretsInv'
<1>1. SecretTypes /\ KeysAreHeld /\ SlotsAreCounted
  BY DEF SecretsInv
<1>2. UNCHANGED <<env, ring, saved, backup, record, told, slots, lookups, early, lost>>
  BY DEF Secrets!Claim, Secrets!GiveUp, Secrets!Finish, Secrets!Expire, Secrets!operator
<1>3. job[j] \in AnyJob /\ (job[j].secret # None <=> job[j].state \in Stages) /\ job \in [Jobs -> AnyJob]
  BY <1>1 DEF SecretTypes
<1>4. /\ job' \in [Jobs -> AnyJob] /\ Goes(j) /\ \A k \in Jobs \ {j} : job'[k] = job[k]
      /\ job'[j].state \in {"unused", "scheduled", "starting"} => job[j].state = "scheduled"
  <2>1. CASE Secrets!Claim(j)
    BY <1>3, <2>1 DEF Secrets!Claim, AnyJob, JobStates, Goes, Stages
  <2>2. CASE Secrets!GiveUp(j)
    BY <1>3, <2>2 DEF Secrets!GiveUp, Secrets!End, AnyJob, JobStates, Goes, Stages
  <2>3. CASE Secrets!Finish(j)
    BY <1>3, <2>3 DEF Secrets!Finish, Secrets!End, AnyJob, JobStates, Goes, Stages
  <2>4. CASE Secrets!Expire(j)
    BY <1>3, <2>4 DEF Secrets!Expire, AnyJob, JobStates, Goes, Stages
  <2> QED BY <2>1, <2>2, <2>3, <2>4
<1>5. /\ Secrets!Stored' \subseteq Secrets!Stored /\ JobsAreTheRequests'
      /\ \A k \in Jobs : /\ job'[k].secret # None <=> job'[k].state \in Stages
                         /\ job'[k].state = "unused" => job'[k].asked = None
  BY <1>2, <1>4, JobsGoOn
<1>6. SecretTypes'
  BY <1>1, <1>2, <1>4, <1>5 DEF SecretTypes
<1>7. KeysAreHeld'
  BY <1>1, <1>2, <1>5 DEF KeysAreHeld, KeyHeld
<1>8. SlotsAreCounted'
  BY <1>1, <1>2, <1>4 DEF SlotsAreCounted, SecretTypes
<1> QED BY <1>5, <1>6, <1>7, <1>8 DEF SecretsInv

LEMMA SetupStep == ASSUME SecretsInv, NEW i \in Instances, NEW j \in Jobs, Secrets!Setup(i, j) PROVE SecretsInv'
<1>1. SecretTypes /\ KeysAreHeld /\ SlotsAreCounted
  BY DEF SecretsInv
<1>2. job[j].state = "starting" /\ UNCHANGED <<env, ring, saved, backup, record, told, early, lost>>
  BY DEF Secrets!Setup, Secrets!operator
<1>3. job[j] \in AnyJob /\ (job[j].secret # None <=> job[j].state \in Stages) /\ job \in [Jobs -> AnyJob]
  BY <1>1 DEF SecretTypes
<1>4. \/ job' = [job EXCEPT ![j].state = "failed", ![j].secret = None] /\ UNCHANGED <<slots, lookups>>
      \/ /\ job' = [job EXCEPT ![j].state = "resolving"] /\ slots[i] # 0
         /\ slots' = [slots EXCEPT ![i] = slots[i] - 1] /\ lookups' = lookups \cup {<<i, j>>}
  BY DEF Secrets!Setup, Secrets!End
<1>5. /\ job' \in [Jobs -> AnyJob] /\ Goes(j) /\ \A k \in Jobs \ {j} : job'[k] = job[k]
      /\ job'[j].state \in {"resolving", "failed"}
  BY <1>2, <1>3, <1>4 DEF AnyJob, JobStates, Goes, Stages
<1>6. /\ Secrets!Stored' \subseteq Secrets!Stored /\ JobsAreTheRequests'
      /\ \A k \in Jobs : /\ job'[k].secret # None <=> job'[k].state \in Stages
                         /\ job'[k].state = "unused" => job'[k].asked = None
  BY <1>2, <1>5, JobsGoOn
<1>7. KeysAreHeld'
  BY <1>1, <1>2, <1>6 DEF KeysAreHeld, KeyHeld
<1>8. CASE UNCHANGED <<slots, lookups>>
  <2>1. SecretTypes'
    BY <1>1, <1>2, <1>5, <1>6, <1>8 DEF SecretTypes
  <2>2. SlotsAreCounted'
    BY <1>1, <1>5, <1>8 DEF SlotsAreCounted, SecretTypes
  <2> QED BY <1>6, <1>7, <2>1, <2>2 DEF SecretsInv
<1>9. CASE slots[i] # 0 /\ slots' = [slots EXCEPT ![i] = slots[i] - 1] /\ lookups' = lookups \cup {<<i, j>>}
  <2>1. IsFiniteSet(lookups') /\ lookups' \subseteq Instances \X Jobs
    <3>1. IsFiniteSet(lookups) /\ lookups \subseteq Instances \X Jobs
      BY <1>1 DEF SecretTypes
    <3>2. IsFiniteSet(lookups \cup {<<i, j>>})
      BY <3>1, FS_AddElement, Zenon
    <3> QED BY <1>9, <3>1, <3>2
  <2>2. slots' \in [Instances -> 0..Slots] /\ slots[i] \in Nat /\ slots'[i] = slots[i] - 1
        /\ \A h \in Instances \ {i} : slots'[h] = slots[h]
    BY <1>1, <1>9, SecretNames DEF SecretTypes
  <2>3. SecretTypes'
    BY <1>1, <1>2, <1>5, <1>6, <2>1, <2>2 DEF SecretTypes
  <2>4. <<i, j>> \notin lookups
    BY <1>1, <1>2 DEF SlotsAreCounted
  <2>5. \A l \in lookups' : job'[l[2]].state \notin {"unused", "scheduled", "starting"}
    BY <1>1, <1>5, <1>9 DEF SlotsAreCounted, SecretTypes
  <2>6. \A h \in Instances \ {i} : {l \in lookups' : l[1] = h} = {l \in lookups : l[1] = h}
    BY <1>9
  <2>7. PICK S : S = {l \in lookups : l[1] = i}
    OBVIOUS
  <2>8. {l \in lookups' : l[1] = i} = S \cup {<<i, j>>} /\ <<i, j>> \notin S
    BY <1>9, <2>4, <2>7
  <2>9. IsFiniteSet(S) /\ Cardinality(S) \in Nat
    BY <1>1, <2>7, FS_Subset, FS_CardinalityType DEF SecretTypes
  <2>10. Cardinality({l \in lookups' : l[1] = i}) = Cardinality(S) + 1
    BY <2>8, <2>9, FS_AddElement
  <2>11. Cardinality(S) + slots[i] = Slots
    BY <1>1, <2>7 DEF SlotsAreCounted
  <2>12. Cardinality({l \in lookups' : l[1] = i}) + slots'[i] = Slots
    BY <2>2, <2>9, <2>10, <2>11, SecretNames
  <2>13. SlotsAreCounted'
    BY <1>1, <2>2, <2>5, <2>6, <2>12 DEF SlotsAreCounted
  <2> QED BY <1>6, <1>7, <2>3, <2>13 DEF SecretsInv
<1> QED BY <1>4, <1>8, <1>9

LEMMA LookupStep ==
    ASSUME SecretsInv, NEW i \in Instances, NEW j \in Jobs, NEW found \in BOOLEAN, Secrets!LookupReturns(i, j, found)
    PROVE  SecretsInv'
<1>1. SecretTypes /\ KeysAreHeld /\ SlotsAreCounted
  BY DEF SecretsInv
<1>2. /\ <<i, j>> \in lookups /\ lookups' = lookups \ {<<i, j>>}
      /\ slots' = [slots EXCEPT ![i] = slots[i] + 1] /\ UNCHANGED <<env, ring, saved, backup, record, told, early, lost>>
      /\ \/ job' = job
         \/ job[j].state = "resolving" /\ job' = [job EXCEPT ![j].state = "running", ![j].given = job[j].secret.of]
         \/ job[j].state = "resolving" /\ job' = [job EXCEPT ![j].state = "failed", ![j].secret = None]
  BY DEF Secrets!LookupReturns, Secrets!End, Secrets!operator
<1>3. job[j] \in AnyJob /\ (job[j].secret # None <=> job[j].state \in Stages) /\ job \in [Jobs -> AnyJob]
  BY <1>1 DEF SecretTypes
<1>4. /\ job' \in [Jobs -> AnyJob] /\ (job' = job \/ (Goes(j) /\ job'[j].state \in {"running", "failed"}))
      /\ \A k \in Jobs \ {j} : job'[k] = job[k]
  <2>1. CASE job[j].state = "resolving" /\ job' = [job EXCEPT ![j].state = "running", ![j].given = job[j].secret.of]
    <3>1. job[j].secret \in Ciphers /\ job[j].secret.of \in Destinations /\ job[j].secret # None
      BY <1>3, <2>1 DEF AnyJob, Stages, Ciphers
    <3> QED BY <1>3, <2>1, <3>1 DEF AnyJob, JobStates, Goes, Stages
  <2>2. CASE job[j].state = "resolving" /\ job' = [job EXCEPT ![j].state = "failed", ![j].secret = None]
    BY <1>3, <2>2 DEF AnyJob, JobStates, Goes, Stages
  <2> QED BY <1>2, <1>3, <2>1, <2>2
<1>5. /\ Secrets!Stored' \subseteq Secrets!Stored /\ JobsAreTheRequests'
      /\ \A k \in Jobs : /\ job'[k].secret # None <=> job'[k].state \in Stages
                         /\ job'[k].state = "unused" => job'[k].asked = None
  BY <1>2, <1>4, JobsGoOn
<1>6. KeysAreHeld'
  BY <1>1, <1>2, <1>5 DEF KeysAreHeld, KeyHeld
<1>7. PICK S : S = {l \in lookups : l[1] = i}
  OBVIOUS
<1>8. <<i, j>> \in S /\ {l \in lookups' : l[1] = i} = S \ {<<i, j>>}
  BY <1>2, <1>7
<1>9. IsFiniteSet(S) /\ Cardinality(S) \in Nat /\ IsFiniteSet(lookups') /\ lookups' \subseteq lookups
  BY <1>1, <1>2, <1>7, FS_Subset, FS_CardinalityType DEF SecretTypes
<1>10. Cardinality({l \in lookups' : l[1] = i}) = Cardinality(S) - 1 /\ Cardinality(S) # 0
  <2>1. Cardinality(S \ {<<i, j>>}) = Cardinality(S) - 1
    <3>1. IsFiniteSet(S) /\ <<i, j>> \in S
      BY <1>8, <1>9
    <3> QED BY <3>1, FS_RemoveElement
  <2>2. Cardinality(S) # 0
    BY <1>8, <1>9, FS_EmptySet
  <2> QED BY <1>8, <2>1, <2>2
<1>11. slots[i] \in Nat /\ Cardinality(S) + slots[i] = Slots /\ slots'[i] = slots[i] + 1
       /\ \A h \in Instances \ {i} : slots'[h] = slots[h]
  BY <1>1, <1>2, <1>7, SecretNames DEF SlotsAreCounted, SecretTypes
<1>12. slots' \in [Instances -> 0..Slots]
  <2>1. slots[i] + 1 \in 0..Slots
    BY <1>9, <1>10, <1>11, SecretNames
  <2> QED BY <1>1, <1>2, <2>1 DEF SecretTypes
<1>13. SecretTypes'
  BY <1>1, <1>2, <1>4, <1>5, <1>9, <1>12 DEF SecretTypes
<1>14. SlotsAreCounted'
  <2>1. \A l \in lookups' : job'[l[2]].state \notin {"unused", "scheduled", "starting"}
    BY <1>1, <1>4, <1>9 DEF SlotsAreCounted, SecretTypes
  <2>2. \A h \in Instances \ {i} : {l \in lookups' : l[1] = h} = {l \in lookups : l[1] = h}
    BY <1>2
  <2>3. Cardinality({l \in lookups' : l[1] = i}) + slots'[i] = Slots
    BY <1>9, <1>10, <1>11, SecretNames
  <2> QED BY <1>1, <1>11, <2>1, <2>2, <2>3 DEF SlotsAreCounted
<1> QED BY <1>5, <1>6, <1>13, <1>14 DEF SecretsInv

\* An answer is what is remembered; the client may not hear it.
LEMMA CreateStep == ASSUME SecretsInv, NEW i \in Instances, NEW r \in Requests, Secrets!Create(i, r) PROVE SecretsInv'
<1>1. SecretTypes /\ KeysAreHeld /\ SlotsAreCounted /\ JobsAreTheRequests
  BY DEF SecretsInv
<1>2. PICK ds \in SUBSET Destinations : Secrets!Register(i, r, ds) \/ Secrets!Repeated(r, ds)
  BY DEF Secrets!Create
<1>3. CASE Secrets!Repeated(r, ds)
  <2>1. /\ record[r] # None /\ record[r].asked = ds /\ UNCHANGED <<env, ring, saved, backup, record, job, slots, lookups, early, lost>>
        /\ told' = [told EXCEPT ![r] = [asked |-> ds, jobs |-> record[r].jobs]] \/ told' = told
    BY <1>3 DEF Secrets!Repeated, Secrets!Replay, Secrets!Matches, Secrets!Tell, Secrets!operator
  <2>2. record[r].jobs \in SUBSET Jobs
    BY <1>1, <2>1 DEF SecretTypes, Recorded
  <2>3. told' \in [Requests -> Answers \cup {None}]
    BY <1>1, <2>1, <2>2 DEF SecretTypes, Answers
  <2>4. JobsAreTheRequests'
    BY <1>1, <2>1 DEF JobsAreTheRequests, SecretTypes
  <2>5. KeysAreHeld' /\ SlotsAreCounted'
    BY <1>1, <2>1 DEF KeysAreHeld, KeyHeld, SlotsAreCounted, Secrets!Stored
  <2> QED BY <1>1, <2>1, <2>3, <2>4, <2>5 DEF SecretsInv, SecretTypes
<1>4. CASE Secrets!Register(i, r, ds)
  <2>1. PICK take \in [ds -> {j \in Jobs : job[j].state = "unused"}] :
          /\ job' = [j \in Jobs |->
                       IF \E d \in ds : take[d] = j
                       THEN LET d == CHOOSE d \in ds : take[d] = j
                            IN  [state |-> "scheduled", secret |-> Secrets!Cipher(i, d), asked |-> r, given |-> None]
                       ELSE job[j]]
          /\ record' = [record EXCEPT ![r] = [kind |-> Secrets!Kind(ds), asked |-> ds, jobs |-> {take[d] : d \in ds}]]
          /\ told' = [told EXCEPT ![r] = [asked |-> ds, jobs |-> {take[d] : d \in ds}]] \/ told' = told
    BY <1>4 DEF Secrets!Register, Secrets!Tell
  <2>2. record[r] = None /\ UNCHANGED <<env, ring, saved, backup, slots, lookups, early, lost>>
    BY <1>4 DEF Secrets!Register, Secrets!operator
  <2>3. PICK J : J = {take[d] : d \in ds}
    OBVIOUS
  <2>4. J \subseteq Jobs /\ \A j \in J : job[j].state = "unused" /\ job[j].asked = None
    BY <1>1, <2>1, <2>3 DEF SecretTypes
  <2>5. \A j \in Jobs \ J : job'[j] = job[j]
    BY <2>1, <2>3
  <2>6. \A j \in J : \E d \in ds : job'[j] = [state |-> "scheduled", secret |-> Secrets!Cipher(i, d), asked |-> r, given |-> None]
    BY <2>1, <2>3, <2>4
  <2>7. \A d \in ds : Secrets!Cipher(i, d) \in Ciphers /\ Secrets!Cipher(i, d).key = ring[i].active /\ Secrets!Cipher(i, d).of = d
    BY <1>1 DEF SecretTypes, Rings, Ciphers, Secrets!Cipher
  <2>8. \A j \in J : /\ job'[j] \in AnyJob /\ job'[j].state = "scheduled" /\ job'[j].asked = r /\ job'[j].given = None
                     /\ job'[j].secret \in Ciphers /\ job'[j].secret.key = ring[i].active /\ job'[j].secret.of \in ds
    <3> TAKE j \in J
    <3>1. PICK d \in ds : job'[j] = [state |-> "scheduled", secret |-> Secrets!Cipher(i, d), asked |-> r, given |-> None]
      BY <2>6
    <3> QED BY <2>7, <3>1 DEF AnyJob, JobStates
  <2>9. job' \in [Jobs -> AnyJob]
    <3>1. \A j \in Jobs : job'[j] \in AnyJob
      BY <1>1, <2>5, <2>8 DEF SecretTypes
    <3>2. job' = [j \in Jobs |-> job'[j]]
      BY <2>1
    <3> QED BY <3>1, <3>2
  <2>10. /\ record' = [record EXCEPT ![r] = [kind |-> Secrets!Kind(ds), asked |-> ds, jobs |-> J]]
         /\ told' = [told EXCEPT ![r] = [asked |-> ds, jobs |-> J]] \/ told' = told
    BY <2>1, <2>3
  <2>11. record' \in [Requests -> Recorded \cup {None}] /\ told' \in [Requests -> Answers \cup {None}]
         /\ record'[r] = [kind |-> Secrets!Kind(ds), asked |-> ds, jobs |-> J]
    <3>1. [kind |-> Secrets!Kind(ds), asked |-> ds, jobs |-> J] \in Recorded /\ [asked |-> ds, jobs |-> J] \in Answers
      BY <2>4 DEF Recorded, Answers, Secrets!Kind
    <3> QED BY <1>1, <2>10, <3>1 DEF SecretTypes
  <2>12. record'[r] # None /\ record'[r].asked = ds /\ record'[r].jobs = J
         /\ \A q \in Requests \ {r} : record'[q] = record[q] /\ told'[q] = told[q]
    <3>1. [kind |-> Secrets!Kind(ds), asked |-> ds, jobs |-> J] \in Recorded
      BY <2>4 DEF Recorded, Secrets!Kind
    <3>2. record'[r] # None
      BY <2>11, <3>1, SecretNames
    <3> QED BY <1>1, <2>10, <2>11, <3>2 DEF SecretTypes
  <2>13. told[r] = None
    BY <1>1, <2>2 DEF JobsAreTheRequests
  <2>14. told'[r] # None => told'[r].asked = ds /\ told'[r].jobs = J
    BY <1>1, <2>10, <2>13 DEF SecretTypes
  <2>15. \A j \in Jobs : job[j].asked # r
    BY <1>1, <2>2 DEF JobsAreTheRequests
  <2>16. \A q \in Requests \ {r} : {j \in Jobs : job'[j].asked = q} = {j \in Jobs : job[j].asked = q}
    BY <2>4, <2>5, <2>8, SecretNames
  <2>17. {j \in Jobs : job'[j].asked = r} = J
    BY <2>4, <2>5, <2>8, <2>15
  <2>18. JobsAreTheRequests'
    <3>1. \A q \in Requests : record'[q] # None => record'[q].jobs = {j \in Jobs : job'[j].asked = q}
      BY <1>1, <2>12, <2>16, <2>17 DEF JobsAreTheRequests
    <3>2. \A q \in Requests : told'[q] # None =>
             record'[q] # None /\ told'[q].asked = record'[q].asked /\ told'[q].jobs = record'[q].jobs
      BY <1>1, <2>12, <2>14 DEF JobsAreTheRequests
    <3>3. ASSUME NEW j \in Jobs, NEW q \in Requests, job'[j].asked = q
          PROVE  /\ record'[q] # None
                 /\ job'[j].secret # None => job'[j].secret.of \in record'[q].asked
                 /\ job'[j].given # None => job'[j].given \in record'[q].asked
      <4>1. CASE j \in J
        BY <2>8, <2>12, <3>3, <4>1
      <4>2. CASE j \notin J
        BY <1>1, <2>5, <2>12, <2>15, <3>3, <4>2 DEF JobsAreTheRequests
      <4> QED BY <4>1, <4>2
    <3> QED BY <3>1, <3>2, <3>3 DEF JobsAreTheRequests
  <2>19. SecretTypes'
    <3>1. \A j \in Jobs : (job'[j].secret # None <=> job'[j].state \in Stages) /\ (job'[j].state = "unused" => job'[j].asked = None)
      BY <1>1, <2>5, <2>8, SecretNames DEF SecretTypes, Stages
    <3> QED BY <1>1, <2>2, <2>9, <2>11, <3>1 DEF SecretTypes
  <2>20. KeysAreHeld'
    <3>1. ASSUME NEW c, c \in Secrets!Stored', c \notin Secrets!Stored PROVE c.key = ring[i].active
      <4>1. c # None /\ ((\E o \in Owners : c = saved[o]) \/ (\E o \in Owners : c = backup[o]) \/ (\E j \in Jobs : c = job'[j].secret))
        BY <2>2, <3>1 DEF Secrets!Stored
      <4> QED BY <2>5, <2>8, <3>1, <4>1, StoredFacts
    <3> QED BY <1>1, <2>2, <3>1 DEF KeysAreHeld, KeyHeld
  <2>21. SlotsAreCounted'
    BY <1>1, <2>2, <2>4, <2>5 DEF SlotsAreCounted, SecretTypes
  <2> QED BY <2>18, <2>19, <2>20, <2>21 DEF SecretsInv
<1> QED BY <1>2, <1>3, <1>4

LEMMA SecretsStep == SecretsInv /\ (Secrets!Next \/ UNCHANGED secrets) => SecretsInv'
<1>1. ASSUME SecretsInv, UNCHANGED secrets PROVE SecretsInv'
  BY <1>1 DEF secrets, SecretsInv, SecretTypes, KeysAreHeld, KeyHeld, JobsAreTheRequests, SlotsAreCounted,
      Secrets!Stored
<1>2. ASSUME SecretsInv, Secrets!Next PROVE SecretsInv'
  BY <1>2, KeysStep, SavedStep, FromEnvStep, JobStep, SetupStep, LookupStep, CreateStep DEF Secrets!Next
<1> QED BY <1>1, <1>2

\* The promises, as StreamSecrets states them.
LEMMA SecretsPromises ==
    SecretsInv => Secrets!TypeOK /\ Secrets!StoredSecretsOpen /\ Secrets!OneJobPerAnswer /\ Secrets!LookupsBounded
<1> SUFFICES ASSUME SecretsInv
             PROVE  Secrets!TypeOK /\ Secrets!StoredSecretsOpen /\ Secrets!OneJobPerAnswer /\ Secrets!LookupsBounded
  OBVIOUS
<1>1. SecretTypes /\ KeysAreHeld /\ SlotsAreCounted /\ JobsAreTheRequests
  BY DEF SecretsInv
<1>2. Secrets!TypeOK
  BY <1>1 DEF Secrets!TypeOK, SecretTypes, KeysAreHeld, KeyHeld, Rings, AnyJob, JobStates, Stages
<1>3. Secrets!StoredSecretsOpen
  BY <1>1 DEF Secrets!StoredSecretsOpen, Secrets!Opens, KeysAreHeld, KeyHeld
<1>4. Secrets!OneJobPerAnswer
  BY <1>1 DEF Secrets!OneJobPerAnswer, JobsAreTheRequests
<1>5. Secrets!LookupsBounded
  <2>1. \A S : Secrets!Cardinality(S) = Cardinality(S)
    BY DEF Secrets!Cardinality, Cardinality
  <2> QED BY <1>1, <2>1 DEF Secrets!LookupsBounded, SlotsAreCounted
<1> QED BY <1>2, <1>3, <1>4, <1>5

\* Whatever consents, redirects and disconnects overlap, a consent is exchanged
\* once, what was given up stays gone and credentials for a broadcast can
\* broadcast; whatever keys were declared, activated and retired, what is stored
\* can be opened unless its key was retired while it was needed, an answer names
\* the jobs of one request, and lookups keep to their slots (CredentialsAreLive).
THEOREM CredentialsStayLive == EachSpec => []CredentialsAreLive
<1>1. EachInit => ChannelInv /\ SecretsInv
  BY ChannelInit, SecretsInit DEF EachInit
<1>2. ChannelInv /\ SecretsInv /\ [EachNext]_every => ChannelInv' /\ SecretsInv'
  <2>1. EachNext => (Channel!Next \/ UNCHANGED channel) /\ (Secrets!Next \/ UNCHANGED secrets)
    BY DEF EachNext
  <2>2. UNCHANGED every => UNCHANGED channel /\ UNCHANGED secrets
    BY DEF every
  <2> QED BY <2>1, <2>2, ChannelStep, SecretsStep
<1>3. ChannelInv /\ SecretsInv => CredentialsAreLive
  <2>1. ChannelInv => Channel!OneExchangePerConsent
    BY DEF ChannelInv, FlowsTakenOnce, Channel!OneExchangePerConsent
  <2>2. ChannelInv => Channel!GivenUpStaysGone
    BY DEF ChannelInv, Consents, ConsentsKeptApart, Channel!GivenUpStaysGone
  <2>3. ChannelInv => Channel!LiveCredentialsAreLive
    BY DEF ChannelInv, ReadersSaw, Channel!LiveCredentialsAreLive
  <2> QED BY <2>1, <2>2, <2>3, SecretsPromises DEF ChannelInv, CredentialsAreLive
<1> QED BY <1>1, <1>2, <1>3, PTL DEF EachSpec
=============================================================================
