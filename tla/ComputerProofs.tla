--------------------------- MODULE ComputerProofs ---------------------------
(* Theorems about what runs on one computer: the single-host scheduler        *)
(* (LocalScheduler), for every set of jobs and services, and the programs of  *)
(* MCComputer (the download through the proxy, the import helper, its         *)
(* installation and the pin of the platform test), for every value of their   *)
(* constants.                                                                 *)
EXTENDS LocalScheduler, MCComputer, FiniteSetTheorems, SequenceTheorems,
        NaturalsInduction, WellFoundedInduction, TLAPS

-----------------------------------------------------------------------------
(* The scheduler (LocalScheduler) *)

\* Only a worker between Popen and the end of its process has an FFmpeg, and
\* a process is registered from on_start to the thread's last block.
AliveAtWork ==
    /\ \A j \in alive : pc[j] \in {"spawned", "running"}
    /\ \A j \in processes : pc[j] \in {"running", "ended", "reported"}

\* A job can be claimed again only after its last worker left, and a retry is
\* only ever pending while attempts remain.
Claimability ==
    \A j \in Jobs :
        /\ db[j] = "absent" => ~due[j] /\ pc[j] = "none" /\ pending[j] = "none"
        /\ db[j] \in Queued /\ due[j] => pc[j] = "none"
        /\ db[j] \in Queued \cup {"absent"} \/ pending[j] = "retry_wait"
              => attempt[j] < MaxAttempts

\* "stopping" means that the worker was seen with a live process, and a worker
\* about to leave with nothing to report leaves no active job behind.
NoOrphan ==
    ~closing =>
        \A j \in Jobs :
            /\ db[j] \in Active => pc[j] # "none" \/ pending[j] # "none"
            /\ db[j] = "stopping" =>
                  pc[j] \in {"running", "ended", "reported"} \/ pending[j] # "none"
            /\ pc[j] = "reported" /\ pending[j] = "none" => db[j] \notin Active

\* With the shared semaphore there is one worker at most, and it has the slot.
OneWorker ==
    IF SharedCapacity
    THEN /\ \A i, j \in Jobs : pc[i] # "none" /\ pc[j] # "none" => i = j
         /\ free = 1 <=> \A j \in Jobs : pc[j] = "none"
    ELSE free = 1

IInv == TypeOK /\ AliveAtWork /\ Claimability /\ NoOrphan /\ OneWorker

----------------------------------------------------------------------------
LEMMA InitInv == Init => IInv
<1> SUFFICES ASSUME Init PROVE IInv
  OBVIOUS
<1>1. TypeOK
  <2>1. /\ db \in [Jobs -> DbStates] /\ pc \in [Jobs -> Points] /\ result \in [Jobs -> Results]
        /\ due \in [Jobs -> BOOLEAN] /\ attempt \in [Jobs -> 0..MaxAttempts]
    BY AttemptsAssumption DEF Init, DbStates, Points, Results
  <2>2. pending \in [Jobs -> {"none", "retry_wait"} \cup Terminal] /\ free \in 0..1
    BY DEF Init
  <2>3. QED
    BY <2>1, <2>2 DEF Init, TypeOK
<1>2. AliveAtWork /\ OneWorker
  BY DEF Init, AliveAtWork, OneWorker
<1>3. Claimability
  BY AttemptsAssumption DEF Init, Claimability, Queued
<1>4. NoOrphan
  BY DEF Init, NoOrphan, Active
<1>5. QED
  BY <1>1, <1>2, <1>3, <1>4 DEF IInv

\* What a committed flush does to each job, whoever flushes.
LEMMA FlushFacts ==
    ASSUME IInv, NEW s \in Services, NEW news, NEW done, FlushCommits(s, news, done)
    PROVE  /\ db' \in [Jobs -> DbStates] /\ due' \in [Jobs -> BOOLEAN]
           /\ pending' \in [Jobs -> {"none", "retry_wait"} \cup Terminal]
           /\ progressed' \subseteq Jobs /\ stopRequests' \subseteq Jobs
           /\ \A j \in Jobs :
                 \/ db'[j] = db[j] /\ due'[j] = due[j] /\ pending'[j] = pending[j]
                 \/ /\ db[j] \in {"starting", "streaming"} /\ db'[j] = "streaming"
                    /\ due'[j] = due[j] /\ pending'[j] = pending[j]
                 \/ /\ pending[j] # "none" /\ pending'[j] = "none" /\ ~due'[j]
                    /\ db'[j] \in {"stopped", pending[j]}
BY DEF FlushCommits, Unflushed, JobsOf, FinalState, IInv, TypeOK, DbStates, Queued, Active, Terminal

\* A flush keeps what its caller's other changes have to keep.
LEMMA FlushStep ==
    ASSUME IInv, NEW s \in Services, NEW news, NEW done, FlushCommits(s, news, done),
           UNCHANGED <<attempt, pc, result, alive, processes, free, closing, asked>>
    PROVE  IInv'
<1>1. TypeOK'
  BY FlushFacts DEF IInv, TypeOK
<1>2. AliveAtWork' /\ OneWorker'
  BY DEF IInv, AliveAtWork, OneWorker
<1>3. Claimability'
  BY FlushFacts DEF IInv, TypeOK, Claimability, Queued, Terminal
<1>4. NoOrphan'
  BY FlushFacts DEF IInv, TypeOK, NoOrphan, Active, Terminal
<1>5. QED
  BY <1>1, <1>2, <1>3, <1>4 DEF IInv

\* Only the last step of a thread touches the slot, and Claim takes it.
LEMMA NextStep == IInv /\ [Next]_vars => IInv'
<1> SUFFICES ASSUME IInv, [Next]_vars PROVE IInv'
  OBVIOUS
<1> USE DEF IInv
<1>1. ASSUME NEW s \in Services, Flush(s)
      PROVE  IInv'
  BY <1>1, FlushStep DEF Flush
<1>2. ASSUME NEW s \in Services, NEW j \in Jobs, NEW commits \in BOOLEAN,
             DropCancelled(s, j, commits)
      PROVE  IInv'
  <2> USE <1>2 DEF DropCancelled, Picked, Idle, JobsOf
  <2>1. TypeOK'
    BY DEF TypeOK, DbStates, Terminal
  <2>2. AliveAtWork' /\ OneWorker'
    BY DEF AliveAtWork, OneWorker
  <2>3. Claimability'
    BY DEF TypeOK, Claimability, Queued
  <2>4. NoOrphan'
    BY DEF TypeOK, NoOrphan, Active, Queued
  <2>5. QED
    BY <2>1, <2>2, <2>3, <2>4
<1>3. ASSUME NEW s \in Services, NEW j \in Jobs, DropLate(s, j)
      PROVE  IInv'
  <2> USE <1>3 DEF DropLate, Picked, Idle, JobsOf, memory
  <2>1. TypeOK'
    BY DEF TypeOK, DbStates, Terminal
  <2>2. AliveAtWork' /\ OneWorker'
    BY DEF AliveAtWork, OneWorker
  <2>3. Claimability'
    BY DEF TypeOK, Claimability, Queued
  <2>4. NoOrphan'
    BY DEF TypeOK, NoOrphan, Active, Queued
  <2>5. QED
    BY <2>1, <2>2, <2>3, <2>4
<1>4. ASSUME NEW s \in Services, NEW j \in Jobs, NEW commits \in BOOLEAN,
             ClaimFails(s, j, commits)
      PROVE  IInv'
  <2> USE <1>4 DEF ClaimFails, Claimable, Picked, Idle, JobsOf
  <2>1. attempt[j] < MaxAttempts /\ attempt[j] \in 0..MaxAttempts
    BY DEF TypeOK, Claimability
  <2>2. TypeOK'
    BY <2>1, AttemptsAssumption DEF TypeOK, DbStates, Active, Terminal
  <2>3. AliveAtWork' /\ OneWorker'
    BY DEF AliveAtWork, OneWorker
  <2>4. /\ pending' = [pending EXCEPT ![j] = "failed"] /\ UNCHANGED <<due, pc>>
        /\ \/ UNCHANGED <<db, attempt>>
           \/ /\ db' = [db EXCEPT ![j] = "starting"]
              /\ attempt' = [attempt EXCEPT ![j] = @ + 1]
    OBVIOUS
  <2>5. Claimability'
    <3>1. CASE UNCHANGED <<db, attempt>>
      <4> HIDE <1>4 DEF ClaimFails, Claimable, Picked, Idle, JobsOf
      <4>1. db[j] # "absent"
        BY <1>4 DEF ClaimFails, Claimable, Picked, Queued
      <4>2. QED
        BY <2>4, <3>1, <4>1 DEF TypeOK, Claimability
    <3>2. CASE db' = [db EXCEPT ![j] = "starting"] /\ attempt' = [attempt EXCEPT ![j] = @ + 1]
      <4> HIDE <1>4 DEF ClaimFails, Claimable, Picked, Idle, JobsOf
      <4>1. QED
        BY <2>4, <3>2 DEF TypeOK, Claimability, Queued
    <3>3. QED
      BY <2>4, <3>1, <3>2
  <2>6. NoOrphan'
    BY DEF TypeOK, NoOrphan, Active, Queued
  <2>7. QED
    BY <2>2, <2>3, <2>5, <2>6
<1>5. ASSUME NEW s \in Services, NEW j \in Jobs, Claim(s, j)
      PROVE  IInv'
  <2> USE <1>5 DEF Claim, Claimable, Picked, Idle, JobsOf
  <2>1. attempt[j] < MaxAttempts /\ attempt[j] \in 0..MaxAttempts /\ pc[j] = "none"
    BY DEF TypeOK, Claimability
  <2>2. TypeOK'
    BY <2>1, AttemptsAssumption, ModeAssumption DEF TypeOK, DbStates, Active, Points
  <2>3. AliveAtWork'
    BY <2>1 DEF TypeOK, AliveAtWork
  <2>4. OneWorker'
    <3>1. CASE SharedCapacity
      <4>1. free = 1 /\ \A i \in Jobs : pc[i] = "none"
        BY <3>1 DEF TypeOK, OneWorker
      <4>2. free' = 0 /\ pc' = [pc EXCEPT ![j] = "ready"]
        BY <3>1, <4>1
      <4>3. QED
        BY <3>1, <4>1, <4>2 DEF TypeOK, OneWorker
    <3>2. CASE ~SharedCapacity
      BY <3>2 DEF OneWorker
    <3>3. QED
      BY <3>1, <3>2
  <2>5. /\ pending[j] = "none" /\ UNCHANGED <<due, pending>>
        /\ db' = [db EXCEPT ![j] = "starting"] /\ pc' = [pc EXCEPT ![j] = "ready"]
        /\ attempt' = [attempt EXCEPT ![j] = @ + 1]
    BY DEF FlushNeeded, Unflushed
  <2>6. Claimability'
    <3> HIDE <1>5 DEF Claim, Claimable, Picked, Idle, JobsOf
    <3>1. QED
      BY <2>5 DEF TypeOK, Claimability, Queued
  <2>7. NoOrphan'
    BY DEF TypeOK, NoOrphan, Active, Queued
  <2>8. QED
    BY <2>2, <2>3, <2>4, <2>6, <2>7
<1>6. ASSUME NEW j \in Jobs, ReadRow(j) \/ Check(j) \/ Spawn(j) \/ Register(j) \/ Exit(j) \/ Report(j)
      PROVE  IInv'
  <2> USE <1>6 DEF ReadRow, Check, Spawn, Register, Exit, Report
  <2>1. TypeOK'
    BY DEF TypeOK, Points, Results, Terminal, MayRetry
  <2>2. AliveAtWork'
    BY DEF TypeOK, AliveAtWork
  <2>3. /\ pc[j] # "none" /\ pc'[j] # "none" /\ free' = free
        /\ \A i \in Jobs : i # j => pc'[i] = pc[i]
    BY DEF TypeOK
  <2>4. OneWorker'
    BY <2>3 DEF OneWorker
  <2>5. Claimability'
    BY DEF TypeOK, Claimability, Queued, MayRetry
  <2>6. NoOrphan'
    BY DEF TypeOK, NoOrphan, Active, Terminal
  <2>7. QED
    BY <2>1, <2>2, <2>4, <2>5, <2>6
<1>7. ASSUME NEW j \in Jobs, Leave(j)
      PROVE  IInv'
  <2> DEFINE s == Owner[j]
  <2>1. s \in Services
    BY OwnerAssumption
  <2>2. /\ pc[j] = "reported" /\ pc' = [pc EXCEPT ![j] = "none"]
        /\ free' = IF SharedCapacity THEN free + 1 ELSE free
        /\ processes' = processes \ {j}
        /\ UNCHANGED <<attempt, result, alive, closing, asked>>
    BY <1>7 DEF Leave, SlotsAfter
  <2>3. AliveAtWork'
    BY <2>2 DEF TypeOK, AliveAtWork
  <2>4. OneWorker' /\ free' \in 0..1
    <3>1. CASE SharedCapacity
      <4>1. free = 0 /\ \A i \in Jobs : i # j => pc[i] = "none"
        BY <2>2, <3>1 DEF TypeOK, OneWorker
      <4>2. QED
        BY <2>2, <3>1, <4>1 DEF TypeOK, OneWorker
    <3>2. CASE ~SharedCapacity
      BY <2>2, <3>2 DEF OneWorker
    <3>3. QED
      BY <3>1, <3>2
  <2>5. CASE FlushCommits(s, {}, {j})
    <3>1. TypeOK'
      BY <2>1, <2>2, <2>4, <2>5, FlushFacts DEF TypeOK, Points
    <3>2. Claimability'
      BY <2>1, <2>2, <2>5, FlushFacts DEF TypeOK, Claimability, Queued, Terminal
    <3>3. NoOrphan'
      BY <2>1, <2>2, <2>5, FlushFacts DEF TypeOK, NoOrphan, Active, Terminal
    <3>4. QED
      BY <2>3, <2>4, <3>1, <3>2, <3>3
  <2>6. CASE UNCHANGED <<db, due, pending, progressed>> /\ stopRequests' \subseteq stopRequests
    <3>1. TypeOK'
      BY <2>2, <2>4, <2>6 DEF TypeOK, Points
    <3>2. Claimability'
      BY <2>2, <2>6 DEF TypeOK, Claimability
    <3>3. NoOrphan'
      BY <2>2, <2>6 DEF TypeOK, NoOrphan, Active
    <3>4. QED
      BY <2>3, <2>4, <3>1, <3>2, <3>3
  <2>7. QED
    BY <1>7, <2>5, <2>6 DEF Leave
<1>8. ASSUME NEW j \in Jobs, Progress(j)
      PROVE  IInv'
  <2>1. Owner[j] \in Services
        /\ UNCHANGED <<attempt, pc, result, alive, processes, free, closing, asked>>
    BY <1>8, OwnerAssumption DEF Progress
  <2>2. CASE FlushCommits(Owner[j], {j}, {})
    BY <2>1, <2>2, FlushStep
  <2>3. CASE progressed' = progressed \cup {j} /\ UNCHANGED <<db, due, pending, stopRequests>>
    BY <2>1, <2>3 DEF TypeOK, AliveAtWork, Claimability, NoOrphan, OneWorker
  <2>4. QED
    BY <1>8, <2>2, <2>3 DEF Progress
<1>9. ASSUME NEW j \in Jobs, CreateJob(j)
      PROVE  IInv'
  <2> USE <1>9 DEF CreateJob, memory
  <2>1. TypeOK'
    BY DEF TypeOK, DbStates, Queued
  <2>2. AliveAtWork' /\ OneWorker'
    BY DEF AliveAtWork, OneWorker
  <2>3. Claimability'
    BY DEF TypeOK, Claimability, Queued
  <2>4. NoOrphan'
    BY DEF TypeOK, NoOrphan, Active
  <2>5. QED
    BY <2>1, <2>2, <2>3, <2>4
<1>10. ASSUME NEW j \in Jobs, Stop(j)
       PROVE  IInv'
  <2> USE <1>10 DEF Stop
  <2>1. UNCHANGED <<due, attempt, pc, result, alive, processes, pending, progressed, free, closing>>
        /\ stopRequests' \subseteq Jobs /\ asked' \subseteq Jobs
    BY DEF TypeOK
  <2>2. db' = db \/ (db[j] \notin Terminal \cup {"absent"} /\ db' = [db EXCEPT ![j] = StopState(j)])
    OBVIOUS
  <2>3. StopState(j) = "stopped" \/ (StopState(j) = "stopping" /\ pc[j] = "running")
    BY DEF StopState, AliveAtWork
  <2>4. TypeOK'
    BY <2>1, <2>2, <2>3 DEF TypeOK, DbStates, Active, Terminal
  <2>5. AliveAtWork' /\ OneWorker'
    BY <2>1 DEF AliveAtWork, OneWorker
  <2>6. Claimability'
    BY <2>1, <2>2, <2>3 DEF TypeOK, Claimability, Queued
  <2>7. NoOrphan'
    BY <2>1, <2>2, <2>3 DEF TypeOK, NoOrphan, Active, Queued, Terminal
  <2>8. QED
    BY <2>4, <2>5, <2>6, <2>7
<1>11. ASSUME NEW j \in Jobs, BecomeDue(j)
       PROVE  IInv'
  <2> USE <1>11 DEF BecomeDue, memory
  <2>1. TypeOK'
    BY DEF TypeOK
  <2>2. AliveAtWork' /\ OneWorker' /\ NoOrphan'
    BY DEF AliveAtWork, OneWorker, NoOrphan
  <2>3. Claimability'
    BY DEF TypeOK, Claimability, Queued
  <2>4. QED
    BY <2>1, <2>2, <2>3
<1>12. CASE Close
  BY <1>12 DEF Close, TypeOK, AliveAtWork, Claimability, NoOrphan, OneWorker
<1>13. CASE Restart
  <2> USE <1>13 DEF Restart
  <2>1. TypeOK'
    <3>1. /\ db' \in [Jobs -> DbStates] /\ pc' \in [Jobs -> Points]
          /\ result' \in [Jobs -> Results]
      BY DEF TypeOK, DbStates, Terminal, Points, Results
    <3>2. pending' \in [Jobs -> {"none", "retry_wait"} \cup Terminal] /\ free' \in 0..1
      OBVIOUS
    <3>3. QED
      BY <3>1, <3>2 DEF TypeOK
  <2>2. AliveAtWork' /\ OneWorker'
    BY DEF AliveAtWork, OneWorker
  <2>3. Claimability'
    BY DEF TypeOK, Claimability, Queued, Active
  <2>4. NoOrphan'
    BY DEF TypeOK, NoOrphan, Active
  <2>5. QED
    BY <2>1, <2>2, <2>3, <2>4
<1>14. CASE UNCHANGED vars
  BY <1>14 DEF vars, memory, TypeOK, AliveAtWork, Claimability, NoOrphan, OneWorker
<1>15. QED
  BY <1>1, <1>2, <1>3, <1>4, <1>5, <1>6, <1>7, <1>8, <1>9, <1>10, <1>11, <1>12, <1>13, <1>14
  DEF Next, Worker

\* Every claim has a worker or an outcome that waits, at every instant.
THEOREM Invariance == Spec => []IInv
<1>1. QED
  BY InitInv, NextStep, PTL DEF Spec

\* No failed commit, failed thread start or early stop ever leaves a job active
\* in the database, where it would block the queue, with nobody to end it.
THEOREM QueueNeverOrphaned == Spec => []ClaimsHaveWorkers
<1>1. IInv => ClaimsHaveWorkers
  BY DEF IInv, NoOrphan, ClaimsHaveWorkers
<1>2. QED
  BY <1>1, Invariance, PTL

\* The public mode streams one job at a time, for any number of sessions.
THEOREM OneStreamInPublic ==
    ASSUME SharedCapacity
    PROVE  Spec => []OneStream
<1>1. ASSUME IInv
      PROVE  OneStream
  <2>1. \A i, j \in alive : i = j
    BY <1>1 DEF IInv, TypeOK, AliveAtWork, OneWorker
  <2>2. CASE alive = {}
    BY <2>2, FS_EmptySet DEF OneStream
  <2>3. ASSUME NEW j \in alive
        PROVE  OneStream
    <3>1. alive = {j}
      BY <2>1
    <3>2. Cardinality(alive) = 1
      BY <3>1, FS_Singleton
    <3>3. QED
      BY <3>2 DEF OneStream
  <2>4. QED
    BY <2>2, <2>3
<1>2. IInv => OneStream
  BY <1>1
<1>3. QED
  BY <1>2, Invariance, PTL

\* The shared slot is neither leaked nor released twice.
THEOREM SlotIsConserved ==
    ASSUME SharedCapacity
    PROVE  Spec => []SlotConserved
<1>1. IInv => SlotConserved
  BY DEF IInv, TypeOK, OneWorker, SlotConserved
<1>2. QED
  BY <1>1, Invariance, PTL

----------------------------------------------------------------------------
(* What the poll's test for active jobs and processes achieves.              *)

\* Until it reports, a worker's job is active or was stopped, and no outcome of
\* it is pending: nothing else ends a claim.
WorkersHoldClaims ==
    \A j \in Jobs :
        pc[j] \notin {"none", "reported"} =>
            db[j] \in Active \cup {"stopped"} /\ pending[j] = "none"

\* A service claims while none of its jobs is active.
OneClaim ==
    \A i, j \in Jobs : Owner[i] = Owner[j] /\ db[i] \in Active /\ db[j] \in Active => i = j

Claims == WorkersHoldClaims /\ OneClaim

\* No flush makes a job active that was not.
LEMMA FlushKeepsClaims ==
    ASSUME IInv, Claims, NEW s \in Services, NEW news, NEW done, FlushCommits(s, news, done),
           \A j \in Jobs : pc'[j] # pc[j] => pc'[j] = "none"
    PROVE  Claims'
<1>1. \A j \in Jobs : db'[j] \in Active => db[j] \in Active
  BY FlushFacts DEF IInv, TypeOK, Active, Terminal
<1>2. OneClaim'
  BY <1>1 DEF Claims, OneClaim
<1>3. WorkersHoldClaims'
  BY FlushFacts DEF Claims, WorkersHoldClaims, Active, Terminal
<1>4. QED
  BY <1>2, <1>3 DEF Claims

LEMMA ClaimsStep == IInv /\ Claims /\ [Next]_vars => Claims'
<1> SUFFICES ASSUME IInv, Claims, [Next]_vars PROVE Claims'
  OBVIOUS
<1> USE DEF IInv, Claims
<1>1. ASSUME NEW s \in Services, Flush(s)
      PROVE  Claims'
  BY <1>1, FlushKeepsClaims DEF Flush
<1>2. ASSUME NEW s \in Services, NEW j \in Jobs, NEW commits \in BOOLEAN,
             DropCancelled(s, j, commits) \/ DropLate(s, j)
      PROVE  Claims'
  <2>1. db[j] \in Queued /\ due[j] /\ pc[j] = "none" /\ pc' = pc
    BY <1>2 DEF DropCancelled, DropLate, Picked, memory, Claimability
  <2>2. /\ \A i \in Jobs : i # j => db'[i] = db[i] /\ pending'[i] = pending[i]
        /\ db'[j] \notin Active
    BY <1>2, <2>1 DEF DropCancelled, DropLate, memory, TypeOK, Queued, Active
  <2>3. QED
    BY <2>1, <2>2 DEF WorkersHoldClaims, OneClaim
<1>3. ASSUME NEW s \in Services, NEW j \in Jobs, NEW commits \in BOOLEAN,
             ClaimFails(s, j, commits) \/ Claim(s, j)
      PROVE  Claims'
  <2>1. /\ Owner[j] = s /\ pc[j] = "none" /\ pending[j] = "none"
        /\ \A i \in Jobs : Owner[i] = s => db[i] \notin Active
    BY <1>3 DEF ClaimFails, Claim, Claimable, Picked, Idle, JobsOf, Claimability,
                FlushNeeded, Unflushed
  <2>2. db' \in {db, [db EXCEPT ![j] = "starting"]}
    BY <1>3 DEF ClaimFails, Claim
  <2>3. OneClaim'
    BY <2>1, <2>2 DEF TypeOK, OneClaim
  <2>4. WorkersHoldClaims'
    <3>1. CASE ClaimFails(s, j, commits)
      BY <2>1, <2>2, <3>1 DEF ClaimFails, TypeOK, WorkersHoldClaims
    <3>2. CASE Claim(s, j)
      BY <2>1, <3>2 DEF Claim, TypeOK, WorkersHoldClaims, Active
    <3>3. QED
      BY <1>3, <3>1, <3>2
  <2>5. QED
    BY <2>3, <2>4
<1>4. ASSUME NEW j \in Jobs,
             ReadRow(j) \/ Check(j) \/ Spawn(j) \/ Register(j) \/ Exit(j) \/ Report(j)
      PROVE  Claims'
  BY <1>4 DEF ReadRow, Check, Spawn, Register, Exit, Report, TypeOK, WorkersHoldClaims, OneClaim
<1>5. ASSUME NEW j \in Jobs, Leave(j)
      PROVE  Claims'
  <2>1. Owner[j] \in Services /\ pc' = [pc EXCEPT ![j] = "none"]
    BY <1>5, OwnerAssumption DEF Leave
  <2>2. CASE FlushCommits(Owner[j], {}, {j})
    BY <2>1, <2>2, FlushKeepsClaims DEF TypeOK
  <2>3. CASE UNCHANGED <<db, due, pending, progressed>>
    BY <2>1, <2>3 DEF TypeOK, WorkersHoldClaims, OneClaim
  <2>4. QED
    BY <1>5, <2>2, <2>3 DEF Leave
<1>6. ASSUME NEW j \in Jobs, Progress(j)
      PROVE  Claims'
  <2>1. Owner[j] \in Services /\ pc' = pc
    BY <1>6, OwnerAssumption DEF Progress
  <2>2. CASE FlushCommits(Owner[j], {j}, {})
    BY <2>1, <2>2, FlushKeepsClaims
  <2>3. CASE UNCHANGED <<db, due, pending, stopRequests>>
    BY <2>1, <2>3 DEF WorkersHoldClaims, OneClaim
  <2>4. QED
    BY <1>6, <2>2, <2>3 DEF Progress
<1>7. ASSUME NEW j \in Jobs, CreateJob(j)
      PROVE  Claims'
  BY <1>7 DEF CreateJob, memory, TypeOK, Claimability, Active, WorkersHoldClaims, OneClaim
<1>8. ASSUME NEW j \in Jobs, Stop(j)
      PROVE  Claims'
  <2>1. /\ UNCHANGED <<pc, pending>>
        /\ \/ db' = db
           \/ db[j] \notin Terminal \cup {"absent"} /\ db' = [db EXCEPT ![j] = StopState(j)]
    BY <1>8 DEF Stop
  <2>2. StopState(j) = "stopped" \/ (StopState(j) = "stopping" /\ pc[j] = "running")
    BY DEF StopState, AliveAtWork
  <2>3. db[j] \notin Terminal /\ pc[j] = "running" => db[j] \in Active
    BY DEF WorkersHoldClaims, Terminal
  <2>4. QED
    BY <2>1, <2>2, <2>3 DEF TypeOK, WorkersHoldClaims, OneClaim, Active
<1>9. ASSUME NEW j \in Jobs, BecomeDue(j)
      PROVE  Claims'
  BY <1>9 DEF BecomeDue, memory, WorkersHoldClaims, OneClaim
<1>10. CASE Close
  BY <1>10 DEF Close, WorkersHoldClaims, OneClaim
<1>11. CASE Restart
  BY <1>11 DEF Restart, TypeOK, WorkersHoldClaims, OneClaim, Active
<1>12. CASE UNCHANGED vars
  BY <1>12 DEF vars, memory, WorkersHoldClaims, OneClaim
<1>13. QED
  BY <1>1, <1>2, <1>3, <1>4, <1>5, <1>6, <1>7, <1>8, <1>9, <1>10, <1>11, <1>12
  DEF Next, Worker

\* On one host, whatever fails and whoever stops what, the encoders of jobs that
\* nobody stopped never overlap.
THEOREM OneWantedStreamPerHost ==
    ASSUME \A i, j \in Jobs : Owner[i] = Owner[j]
    PROVE  Spec => []OneWantedStream
<1>1. Init => Claims
  BY DEF Init, Claims, WorkersHoldClaims, OneClaim, Active
<1>2. IInv /\ Claims => OneWantedStream
  BY DEF IInv, TypeOK, AliveAtWork, Claims, WorkersHoldClaims, OneClaim, OneWantedStream
<1>3. QED
  BY <1>1, <1>2, Invariance, ClaimsStep, PTL DEF Spec

\* A stop that reached the database is the last word, for any jobs, whatever the
\* worker of the stopped job still reports.
THEOREM StopsAreFinal == Spec => StopIsFinal
<1> DEFINE Final ==
        \A j \in Jobs : /\ db[j] = "stopped" => db'[j] = "stopped"
                        /\ db[j] = "stopping" => db'[j] \in {"stopping", "stopped", "failed"}
<1>1. IInv /\ [Next]_vars => [Final]_vars
  <2> SUFFICES ASSUME IInv, Next PROVE Final
    OBVIOUS
  <2> USE DEF IInv, TypeOK
  <2>1. ASSUME NEW s \in Services, NEW news, NEW done, FlushCommits(s, news, done)
        PROVE  Final
    BY <2>1 DEF FlushCommits, FinalState
  <2>2. ASSUME NEW s \in Services, Flush(s)
        PROVE  Final
    BY <2>1, <2>2 DEF Flush
  <2>3. ASSUME NEW s \in Services, NEW j \in Jobs, NEW commits \in BOOLEAN,
               \/ DropCancelled(s, j, commits) \/ ClaimFails(s, j, commits)
               \/ DropLate(s, j) \/ Claim(s, j)
        PROVE  Final
    BY <2>3 DEF DropCancelled, ClaimFails, DropLate, Claim, Claimable, Picked, Queued
  <2>4. ASSUME NEW j \in Jobs, Leave(j) \/ Progress(j)
        PROVE  Final
    <3>1. Owner[j] \in Services
      BY OwnerAssumption
    <3>2. CASE db' = db
      BY <3>2
    <3>3. QED
      BY <2>1, <2>4, <3>1, <3>2 DEF Leave, Progress
  <2>5. ASSUME NEW j \in Jobs,
               \/ ReadRow(j) \/ Check(j) \/ Spawn(j) \/ Register(j) \/ Exit(j) \/ Report(j)
               \/ BecomeDue(j)
        PROVE  Final
    BY <2>5 DEF ReadRow, Check, Spawn, Register, Exit, Report, BecomeDue
  <2>6. ASSUME NEW j \in Jobs, CreateJob(j) \/ Stop(j)
        PROVE  Final
    BY <2>6 DEF CreateJob, Stop, StopState, Terminal
  <2>7. CASE Close \/ Restart
    BY <2>7 DEF Close, Restart, Active
  <2>8. QED
    BY <2>2, <2>3, <2>4, <2>5, <2>6, <2>7 DEF Next, Worker
<1>2. QED
  BY <1>1, Invariance, PTL DEF Spec, StopIsFinal

-----------------------------------------------------------------------------
(* The installation of the import helper (DesktopHelper) *)

LEMMA InstallBounds ==
    /\ MaxKills \in Nat /\ Nobody \notin Starts /\ Starts \cap Installs = {}
    /\ Nobody \notin StopStarts /\ StopStarts \cap (StopInstalls \cup Uninstalls) = {}
BY PartsAssumption DEF Install!Parameters, Serving!Parameters

\* One installer at a time is between its copy and its second rename: a staging
\* directory is in the way of any other.
Swapping == {"copying", "check", "swap1", "swap2"}
OneSwap ==
    /\ \A o \in Installs : at[o] \in Swapping => staging # "none"
    /\ \A o, p \in Installs : at[o] \in Swapping /\ at[p] \in Swapping => o = p

\* What is set aside at each step of the renames; a second backup is refused.
SetAsideOnce ==
    /\ \A o \in Installs :
        /\ at[o] = "swap1" => target = "whole" /\ backup = "none"
        /\ at[o] = "swap2" => target = "none" /\ backup = "whole"
        /\ at[o] = "tidy" => target = "whole" /\ backup = "whole"
    /\ \A o, p \in Installs : at[o] = "tidy" /\ at[p] = "tidy" => o = p

\* The listening helper is the one that serves.
Listening(S) == \A p \in S : at[p] = "serving" => port = p

NotRemoved == ~removed /\ \A o \in Installs : at[o] # "remove"

InstallInv ==
    /\ Install!TypeOK /\ Listening(Starts) /\ NotRemoved
    /\ OneSwap /\ SetAsideOnce /\ Install!AnInstallationSurvives /\ Install!RefusedKeepsTarget

LEMMA InstallStart == Install!Init => InstallInv
<1> SUFFICES ASSUME Install!Init PROVE InstallInv
  OBVIOUS
<1>1. Install!TypeOK
  <2>1. at \in [Starts \cup Install!Tools -> {"idle"}] /\ stopper \in [Install!Tools -> {Nobody}]
    BY DEF Install!Init
  <2>2. kills \in 0..MaxKills
    BY InstallBounds DEF Install!Init
  <2> QED BY <2>1, <2>2 DEF Install!Init, Install!TypeOK
<1>2. \A p \in Starts \cup Installs : at[p] = "idle"
  BY DEF Install!Init, Install!Tools
<1> QED BY <1>1, <1>2 DEF Install!Init, InstallInv, Listening, NotRemoved, OneSwap, Swapping, SetAsideOnce,
           Install!AnInstallationSurvives, Install!RefusedKeepsTarget

LEMMA InstallStep == InstallInv /\ [Install!Next]_install => InstallInv'
<1> SUFFICES ASSUME InstallInv, [Install!Next]_install PROVE InstallInv'
  OBVIOUS
<1> USE InstallBounds DEF InstallInv, Install!Tools
<1>1. ASSUME NEW p \in Starts, Install!Serve(p) PROVE InstallInv'
  <2>1. /\ UNCHANGED <<target, staging, backup, removed, kills>>
        /\ \A o \in Installs : at'[o] = at[o]
    BY <1>1 DEF Install!Serve, Install!Start, Install!WriteKey, Install!Bind, Install!StopListening,
       Install!Drained, Install!CompareKey, Install!UnlinkKey, Install!Go, Install!files, Install!TypeOK
  <2>2. Install!TypeOK' /\ Listening(Starts)'
    BY <1>1 DEF Install!Serve, Install!Start, Install!WriteKey, Install!Bind, Install!StopListening,
       Install!Drained, Install!CompareKey, Install!UnlinkKey, Install!Go, Install!files, Install!TypeOK,
       Install!Over, Listening, Install!Occupied, Install!Released, Install!OwnKey
  <2>3. (NotRemoved /\ OneSwap /\ SetAsideOnce /\ Install!AnInstallationSurvives /\ Install!RefusedKeepsTarget)'
    BY <2>1 DEF NotRemoved, OneSwap, SetAsideOnce, Install!AnInstallationSurvives, Install!RefusedKeepsTarget
  <2> QED BY <2>2, <2>3
<1>2. ASSUME NEW o \in Installs, Install!Tool(o) PROVE InstallInv'
  <2>1. Install!TypeOK' /\ Listening(Starts)'
    <3>1. CASE Install!Ask(o)
      BY <3>1 DEF Install!Ask, Install!Restored, Install!Absent, Install!Begin,
       Install!Go, Install!files, Install!TypeOK, Install!Over, Listening, Install!Occupied
    <3>2. CASE Install!Wait(o)
      BY <3>2 DEF Install!Wait, Install!Restored, Install!Absent, Install!Begin,
       Install!Go, Install!files, Install!TypeOK, Install!Over, Listening, Install!Occupied
    <3>3. CASE Install!Copy(o)
      BY <3>3 DEF Install!Copy, Install!Restored, Install!Absent, Install!Begin,
       Install!Go, Install!files, Install!TypeOK, Install!Over, Listening, Install!Occupied
    <3>4. CASE Install!Copied(o)
      BY <3>4 DEF Install!Copied, Install!Restored, Install!Absent, Install!Begin,
       Install!Go, Install!files, Install!TypeOK, Install!Over, Listening, Install!Occupied
    <3>5. CASE Install!CheckBackup(o)
      BY <3>5 DEF Install!CheckBackup, Install!Restored, Install!Absent, Install!Begin,
       Install!Go, Install!files, Install!TypeOK, Install!Over, Listening, Install!Occupied
    <3>6. CASE Install!SetAside(o)
      BY <3>6 DEF Install!SetAside, Install!Restored, Install!Absent, Install!Begin,
       Install!Go, Install!files, Install!TypeOK, Install!Over, Listening, Install!Occupied
    <3>7. CASE Install!PutInPlace(o)
      BY <3>7 DEF Install!PutInPlace, Install!Restored, Install!Absent, Install!Begin,
       Install!Go, Install!files, Install!TypeOK, Install!Over, Listening, Install!Occupied
    <3>8. CASE Install!DropBackup(o)
      BY <3>8 DEF Install!DropBackup, Install!Restored, Install!Absent, Install!Begin,
       Install!Go, Install!files, Install!TypeOK, Install!Over, Listening, Install!Occupied
    <3>9. CASE Install!Remove(o)
      BY <3>9 DEF Install!Remove, Install!Restored, Install!Absent, Install!Begin,
       Install!Go, Install!files, Install!TypeOK, Install!Over, Listening, Install!Occupied
    <3> QED BY <1>2, <3>1, <3>2, <3>3, <3>4, <3>5, <3>6, <3>7, <3>8, <3>9 DEF Install!Tool
  <2>2. (NotRemoved /\ OneSwap /\ SetAsideOnce)'
    BY <1>2 DEF Install!Tool, Install!Ask, Install!Wait, Install!Copy, Install!Copied, Install!CheckBackup,
       Install!SetAside, Install!PutInPlace, Install!DropBackup, Install!Remove, Install!Restored, Install!Absent,
       Install!Begin, Install!Go, Install!files, Install!TypeOK, Install!Over, Install!Occupied,
       NotRemoved, OneSwap, Swapping, SetAsideOnce, Install!AnInstallationSurvives, Install!RefusedKeepsTarget
  <2>3. (Install!AnInstallationSurvives /\ Install!RefusedKeepsTarget)'
    BY <1>2 DEF Install!Tool, Install!Ask, Install!Wait, Install!Copy, Install!Copied, Install!CheckBackup,
       Install!SetAside, Install!PutInPlace, Install!DropBackup, Install!Remove, Install!Restored, Install!Absent,
       Install!Begin, Install!Go, Install!files, Install!TypeOK, Install!Over, Install!Occupied,
       NotRemoved, OneSwap, Swapping, SetAsideOnce, Install!AnInstallationSurvives, Install!RefusedKeepsTarget
  <2> QED BY <2>1, <2>2, <2>3
<1>3. ASSUME NEW p \in Starts \cup Installs, Install!Kill(p) PROVE InstallInv'
  BY <1>3 DEF Install!Kill, Install!Go, Install!files, Install!TypeOK, Install!Over, Listening,
     NotRemoved, OneSwap, Swapping, SetAsideOnce, Install!AnInstallationSurvives, Install!RefusedKeepsTarget
<1>4. CASE UNCHANGED install
  BY <1>4 DEF install, Install!TypeOK, Install!Over, Listening,
     NotRemoved, OneSwap, Swapping, SetAsideOnce, Install!AnInstallationSurvives, Install!RefusedKeepsTarget
<1> QED BY <1>1, <1>2, <1>3, <1>4 DEF Install!Next

-----------------------------------------------------------------------------
\* The key of a helper that ended by itself is not in the control file.
KeyOfTheLiving == \A p \in StopStarts : at[p] \in {"idle", "done"} => control # p
ServingInv == Serving!TypeOK /\ Listening(StopStarts) /\ KeyOfTheLiving

LEMMA ServingStart == Serving!Init => ServingInv
<1> SUFFICES ASSUME Serving!Init PROVE ServingInv
  OBVIOUS
<1>1. Serving!TypeOK
  <2>1. at \in [StopStarts \cup Serving!Tools -> {"idle"}] /\ stopper \in [Serving!Tools -> {Nobody}]
    BY DEF Serving!Init
  <2>2. kills \in 0..MaxKills
    BY InstallBounds DEF Serving!Init
  <2> QED BY <2>1, <2>2 DEF Serving!Init, Serving!TypeOK
<1>2. Listening(StopStarts) /\ KeyOfTheLiving
  BY InstallBounds DEF Serving!Init, Serving!Tools, Listening, KeyOfTheLiving
<1> QED BY <1>1, <1>2 DEF ServingInv

LEMMA ServingStep == ServingInv /\ [Serving!Next]_install => ServingInv'
<1> SUFFICES ASSUME ServingInv, [Serving!Next]_install PROVE ServingInv'
  OBVIOUS
<1> USE InstallBounds DEF ServingInv, Serving!Tools
<1>1. ASSUME NEW p \in StopStarts, Serving!Serve(p) PROVE ServingInv'
    BY <1>1 DEF Serving!Serve, Serving!Start, Serving!WriteKey, Serving!Bind, Serving!StopListening,
       Serving!Drained, Serving!CompareKey, Serving!UnlinkKey, Serving!Go, Serving!files, Serving!TypeOK,
       Serving!Over, Listening, Serving!Occupied, Serving!Released, Serving!OwnKey, KeyOfTheLiving
<1>2. ASSUME NEW o \in StopInstalls \cup Uninstalls, Serving!Tool(o) PROVE ServingInv'
  <2>1. CASE Serving!Ask(o)
    BY <2>1 DEF Serving!Ask, Serving!Restored, Serving!Absent, Serving!Begin,
       Serving!Go, Serving!files, Serving!TypeOK, Serving!Over, Listening, Serving!Occupied, KeyOfTheLiving
  <2>2. CASE Serving!Wait(o)
    BY <2>2 DEF Serving!Wait, Serving!Restored, Serving!Absent, Serving!Begin,
       Serving!Go, Serving!files, Serving!TypeOK, Serving!Over, Listening, Serving!Occupied, KeyOfTheLiving
  <2>3. CASE Serving!Copy(o)
    BY <2>3 DEF Serving!Copy, Serving!Restored, Serving!Absent, Serving!Begin,
       Serving!Go, Serving!files, Serving!TypeOK, Serving!Over, Listening, Serving!Occupied, KeyOfTheLiving
  <2>4. CASE Serving!Copied(o)
    BY <2>4 DEF Serving!Copied, Serving!Restored, Serving!Absent, Serving!Begin,
       Serving!Go, Serving!files, Serving!TypeOK, Serving!Over, Listening, Serving!Occupied, KeyOfTheLiving
  <2>5. CASE Serving!CheckBackup(o)
    BY <2>5 DEF Serving!CheckBackup, Serving!Restored, Serving!Absent, Serving!Begin,
       Serving!Go, Serving!files, Serving!TypeOK, Serving!Over, Listening, Serving!Occupied, KeyOfTheLiving
  <2>6. CASE Serving!SetAside(o)
    BY <2>6 DEF Serving!SetAside, Serving!Restored, Serving!Absent, Serving!Begin,
       Serving!Go, Serving!files, Serving!TypeOK, Serving!Over, Listening, Serving!Occupied, KeyOfTheLiving
  <2>7. CASE Serving!PutInPlace(o)
    BY <2>7 DEF Serving!PutInPlace, Serving!Restored, Serving!Absent, Serving!Begin,
       Serving!Go, Serving!files, Serving!TypeOK, Serving!Over, Listening, Serving!Occupied, KeyOfTheLiving
  <2>8. CASE Serving!DropBackup(o)
    BY <2>8 DEF Serving!DropBackup, Serving!Restored, Serving!Absent, Serving!Begin,
       Serving!Go, Serving!files, Serving!TypeOK, Serving!Over, Listening, Serving!Occupied, KeyOfTheLiving
  <2>9. CASE Serving!Remove(o)
    BY <2>9 DEF Serving!Remove, Serving!Restored, Serving!Absent, Serving!Begin,
       Serving!Go, Serving!files, Serving!TypeOK, Serving!Over, Listening, Serving!Occupied, KeyOfTheLiving
  <2> QED BY <1>2, <2>1, <2>2, <2>3, <2>4, <2>5, <2>6, <2>7, <2>8, <2>9 DEF Serving!Tool
<1>3. ASSUME NEW p \in StopStarts \cup StopInstalls \cup Uninstalls, Serving!Kill(p) PROVE ServingInv'
  BY <1>3 DEF Serving!Kill, Serving!Go, Serving!files, Serving!TypeOK, Serving!Over, Listening, KeyOfTheLiving
<1>4. CASE UNCHANGED install
  BY <1>4 DEF install, Serving!TypeOK, Serving!Over, Listening, KeyOfTheLiving
<1> QED BY <1>1, <1>2, <1>3, <1>4 DEF Serving!Next

LEMMA KeysGo == ServingInv => Serving!NoKeyLeftBehind
BY DEF ServingInv, Serving!TypeOK, KeyOfTheLiving, Serving!NoKeyLeftBehind

-----------------------------------------------------------------------------
(* The pin of the platform test (LivePin) *)

LEMMA PinBounds ==
    /\ MaxJobs \in Nat /\ PinKills \in Nat
    /\ Nobody \notin Launches /\ HostEdits \subseteq Edits
BY PartsAssumption DEF Pin!Parameters

\* One coordinator at a time, with the machine's lock.
Coordinators == {l \in Launches : launch[l] \notin {"idle", "over", "killed"}}
LockHeld == \A l \in Coordinators : lock = l

\* Who has a helper process waits for it, and asked it for what it does.
Served ==
    \A l \in Launches :
        /\ call[l] = "running" <=> helper.for = l
        /\ call[l] # "none" => launch[l] \in {"locked", "pinning", "unpinning", "cleaning"}
        /\ call[l] = "install" => launch[l] = "pinning"
        /\ call[l] = "restore" => launch[l] # "pinning"
        /\ helper.for = l => /\ launch[l] = "pinning" => helper.step \in Pin!Installing
                             /\ launch[l] # "pinning" => helper.step \in Pin!Restoring

\* What the helper's step relies on; other helpers wait for its lock.
Written ==
    /\ helper.step = "journal" => journal.state = "absent"
    /\ helper.step = "fill" => journal.state = "partial"
    /\ helper.step \in {"again", "tear", "pin", "back", "whole", "unlink"} => journal.state = "saved"
    /\ helper.step \in {"fill", "again", "tear", "unlink"} => ~hosts.torn /\ ~hosts.pin
    /\ helper.step = "back" => ~hosts.torn
    /\ helper.step \in {"pin", "whole"} => hosts.torn

\* A coordinator that will claim again has seen the journal go; what was installed
\* since then is of a helper that nobody waited for.
Settled == (journal.state = "absent" \/ journal.late) /\ (helper.step \in Pin!Installing => helper.late)
CleanBeforeClaims ==
    \A l \in Launches :
        /\ launch[l] \in {"claim", "wait", "file"} => stopping[l] \/ Settled
        /\ call[l] = "done" /\ launch[l] # "pinning" => Settled

\* Where the edits are that the helper could see: those of the pinned host in what it
\* saved, or else with the other ones in the file and in what is to be written.
EditsFound ==
    \A e \in edited \ exposed :
        /\ e \notin HostEdits => /\ e \in hosts.edits
                                 /\ helper.step \in {"tear", "pin"} => e \in helper.read
                                 /\ helper.step \in {"back", "whole"} => e \in journal.before
        /\ e \in HostEdits => /\ journal.state # "absent" => e \in journal.before
                              /\ helper.step = "journal" => e \in helper.read
                              /\ ~hosts.pin /\ ~hosts.torn => e \in hosts.edits

PinInv ==
    /\ Pin!TypeOK /\ LockHeld /\ Served /\ Written /\ CleanBeforeClaims
    /\ EditsFound /\ Pin!PinIsJournalled

LEMMA PinStart == Pin!Init => PinInv
<1> SUFFICES ASSUME Pin!Init PROVE PinInv
  OBVIOUS
<1>1. Pin!TypeOK
  <2>1. /\ launch \in [Launches -> {"idle"}] /\ stopping \in [Launches -> {FALSE}]
        /\ call \in [Launches -> {"none"}] /\ orphans \in [{"install", "restore"} -> Nat]
    BY DEF Pin!Init
  <2>2. hosts \in [edits : {{}}, pin : {FALSE}, torn : {FALSE}]
        /\ journal \in [state : {"absent"}, before : {{}}, late : {FALSE}]
        /\ helper \in [for : {Nobody}, step : {"idle"}, read : {{}}, late : {FALSE}]
    BY DEF Pin!Init, Pin!Absent, Pin!Idle
  <2>3. jobs \in 0..MaxJobs /\ killed \in 0..PinKills /\ edited = {} /\ exposed = {}
    BY PinBounds DEF Pin!Init
  <2> QED BY <2>1, <2>2, <2>3 DEF Pin!Init, Pin!TypeOK
<1> QED BY <1>1, PinBounds DEF Pin!Init, PinInv, LockHeld, Coordinators, Served, Written, CleanBeforeClaims, EditsFound,
           Pin!PinIsJournalled, Pin!Idle, Pin!Absent, Pin!Installing

\* A given-up helper process keeps the types of what it touches.
LEMMA AbandonedTyped ==
    ASSUME PinInv, NEW l \in Launches, Pin!Abandoned(l)
    PROVE  /\ call' \in [Launches -> {"none", "install", "restore", "running", "done", "refused"}]
           /\ orphans' \in [{"install", "restore"} -> Nat]
           /\ helper' \in [for : Launches \cup {Nobody}, step : {"idle"} \cup Pin!Installing \cup Pin!Restoring,
                            read : SUBSET Edits, late : BOOLEAN]
<1>1. /\ call' \in [Launches -> {"none", "install", "restore", "running", "done", "refused"}]
      /\ orphans' \in [{"install", "restore"} -> Nat]
  <2>1. call' \in [Launches -> {"none", "install", "restore", "running", "done", "refused"}]
    BY DEF PinInv, Pin!TypeOK, Pin!Abandoned
  <2>2. orphans \in [{"install", "restore"} -> Nat] /\ DOMAIN orphans = {"install", "restore"}
    BY DEF PinInv, Pin!TypeOK
  <2>3. CASE call[l] \in DOMAIN orphans /\ orphans' = [orphans EXCEPT ![call[l]] = @ + 1]
    <3>1. orphans[call[l]] + 1 \in Nat
      BY <2>2, <2>3
    <3> QED BY <2>1, <2>2, <2>3, <3>1
  <2>4. CASE orphans' = orphans
    BY <2>1, <2>2, <2>4
  <2> QED BY <2>3, <2>4 DEF Pin!Abandoned
<1>2. CASE helper' = [helper EXCEPT !.for = Nobody]
  BY <1>1, <1>2 DEF PinInv, Pin!TypeOK
<1>3. CASE helper' = Pin!Idle
  BY <1>1, <1>3 DEF Pin!Idle
<1>4. CASE helper' = helper
  BY <1>1, <1>4 DEF PinInv, Pin!TypeOK
<1> QED BY <1>2, <1>3, <1>4 DEF Pin!Abandoned

LEMMA PinStep == PinInv /\ [Pin!Next]_pin => PinInv'
<1> SUFFICES ASSUME PinInv, [Pin!Next]_pin PROVE PinInv'
  OBVIOUS
<1> USE PinBounds DEF PinInv
<1>1. CASE Pin!ReadBefore
  <2>1. CASE journal.state = "absent"
    <3>1. /\ helper' = [helper EXCEPT !.step = "journal", !.read = hosts.edits] /\ helper.step = "read"
          /\ UNCHANGED <<launch, lock, hosts, journal, call, orphans, stopping, jobs, killed, edited, exposed>>
      BY <1>1, <2>1 DEF Pin!ReadBefore, Pin!JournalFirst, Pin!files, Pin!counts
      <3>2. Pin!TypeOK' /\ Pin!PinIsJournalled'
        BY <3>1, <2>1 DEF Pin!TypeOK, Pin!PinIsJournalled, Written,
        Pin!Installing, Pin!Restoring
      <3>3. LockHeld' /\ Served'
        BY <3>1, <2>1 DEF Pin!TypeOK, LockHeld, Coordinators, Served,
        Pin!Installing, Pin!Restoring
      <3>4. Written' /\ EditsFound'
        BY <3>1, <2>1 DEF Pin!TypeOK, Served, Written, EditsFound,
        Pin!PinIsJournalled,
        Pin!Installing, Pin!Restoring
      <3>5. CleanBeforeClaims'
        BY <3>1, <2>1 DEF Pin!TypeOK, LockHeld, Coordinators, Served,
        Written, CleanBeforeClaims, Settled,
        Pin!Installing, Pin!Restoring
      <3> QED BY <3>2, <3>3, <3>4, <3>5
  <2>2. CASE journal.state # "absent"
    <3>1. /\ helper' = Pin!Idle /\ helper.step = "read"
          /\ call' = IF helper.for = Nobody THEN call ELSE [call EXCEPT ![helper.for] = "refused"]
          /\ UNCHANGED <<launch, lock, hosts, journal, orphans, stopping, jobs, killed, edited, exposed>>
      BY <1>1, <2>2 DEF Pin!ReadBefore, Pin!Ends, Pin!JournalFirst, Pin!files, Pin!counts
      <3>2. Pin!TypeOK' /\ Pin!PinIsJournalled'
        BY <3>1, <2>2 DEF Pin!Idle, Pin!TypeOK, Pin!PinIsJournalled, Written,
        Pin!Installing, Pin!Restoring
      <3>3. LockHeld' /\ Served'
        BY <3>1, <2>2 DEF Pin!Idle, Pin!TypeOK, LockHeld, Coordinators, Served,
        Pin!Installing, Pin!Restoring
      <3>4. Written' /\ EditsFound'
        BY <3>1, <2>2 DEF Pin!Idle, Pin!TypeOK, Served, Written, EditsFound,
        Pin!PinIsJournalled,
        Pin!Installing, Pin!Restoring
      <3>5. CleanBeforeClaims'
        BY <3>1, <2>2 DEF Pin!Idle, Pin!TypeOK, LockHeld, Coordinators, Served,
        Written, CleanBeforeClaims, Settled,
        Pin!Installing, Pin!Restoring
      <3> QED BY <3>2, <3>3, <3>4, <3>5
  <2> QED BY <2>1, <2>2
<1>2. CASE Pin!CreateJournal
  <2>1. Pin!TypeOK' /\ Pin!PinIsJournalled'
    BY <1>2 DEF Pin!CreateJournal, Pin!Step, Pin!files, Pin!counts, Pin!TypeOK, Pin!PinIsJournalled, Written,
       Pin!Installing, Pin!Restoring
  <2>2. LockHeld' /\ Served'
    BY <1>2 DEF Pin!CreateJournal, Pin!Step, Pin!files, Pin!counts, Pin!TypeOK, LockHeld, Coordinators, Served,
       Pin!Installing, Pin!Restoring
  <2>3. Written' /\ EditsFound'
    BY <1>2 DEF Pin!CreateJournal, Pin!Step, Pin!files, Pin!counts, Pin!TypeOK, Served, Written, EditsFound,
       Pin!PinIsJournalled, Pin!Installing, Pin!Restoring
  <2>4. CleanBeforeClaims'
    BY <1>2 DEF Pin!CreateJournal, Pin!Step, Pin!files, Pin!counts, Pin!TypeOK, LockHeld, Coordinators, Served,
       Written, CleanBeforeClaims, Settled, Pin!Installing, Pin!Restoring
  <2> QED BY <2>1, <2>2, <2>3, <2>4
<1>3. CASE Pin!FillJournal
  <2>1. Pin!TypeOK' /\ Pin!PinIsJournalled'
    BY <1>3 DEF Pin!FillJournal, Pin!Step, Pin!Saved, Pin!files, Pin!counts, Pin!TypeOK, Pin!PinIsJournalled, Written,
       Pin!Installing, Pin!Restoring
  <2>2. LockHeld' /\ Served'
    BY <1>3 DEF Pin!FillJournal, Pin!Step, Pin!Saved, Pin!files, Pin!counts, Pin!TypeOK, LockHeld, Coordinators, Served,
       Pin!Installing, Pin!Restoring
  <2>3. Written' /\ EditsFound'
    BY <1>3 DEF Pin!FillJournal, Pin!Step, Pin!Saved, Pin!files, Pin!counts, Pin!TypeOK, Served, Written, EditsFound,
       Pin!PinIsJournalled, Pin!Installing, Pin!Restoring
  <2>4. CleanBeforeClaims'
    BY <1>3 DEF Pin!FillJournal, Pin!Step, Pin!Saved, Pin!files, Pin!counts, Pin!TypeOK, LockHeld, Coordinators, Served,
       Written, CleanBeforeClaims, Settled, Pin!Installing, Pin!Restoring
  <2> QED BY <2>1, <2>2, <2>3, <2>4
<1>4. CASE Pin!ReadAgain
  <2>1. Pin!TypeOK' /\ Pin!PinIsJournalled'
    BY <1>4 DEF Pin!ReadAgain, Pin!files, Pin!counts, Pin!TypeOK, Pin!PinIsJournalled, Written,
       Pin!Installing, Pin!Restoring
  <2>2. LockHeld' /\ Served'
    BY <1>4 DEF Pin!ReadAgain, Pin!files, Pin!counts, Pin!TypeOK, LockHeld, Coordinators, Served,
       Pin!Installing, Pin!Restoring
  <2>3. Written' /\ EditsFound'
    BY <1>4 DEF Pin!ReadAgain, Pin!files, Pin!counts, Pin!TypeOK, Served, Written, EditsFound,
       Pin!PinIsJournalled, Pin!Installing, Pin!Restoring
  <2>4. CleanBeforeClaims'
    BY <1>4 DEF Pin!ReadAgain, Pin!files, Pin!counts, Pin!TypeOK, LockHeld, Coordinators, Served,
       Written, CleanBeforeClaims, Settled, Pin!Installing, Pin!Restoring
  <2> QED BY <2>1, <2>2, <2>3, <2>4
<1>5. CASE Pin!TearForPin
  <2>1. Pin!TypeOK' /\ Pin!PinIsJournalled'
    BY <1>5 DEF Pin!TearForPin, Pin!Step, Pin!files, Pin!counts, Pin!TypeOK, Pin!PinIsJournalled, Written,
       Pin!Installing, Pin!Restoring
  <2>2. LockHeld' /\ Served'
    BY <1>5 DEF Pin!TearForPin, Pin!Step, Pin!files, Pin!counts, Pin!TypeOK, LockHeld, Coordinators, Served,
       Pin!Installing, Pin!Restoring
  <2>3. Written' /\ EditsFound'
    BY <1>5 DEF Pin!TearForPin, Pin!Step, Pin!files, Pin!counts, Pin!TypeOK, Served, Written, EditsFound,
       Pin!PinIsJournalled, Pin!Installing, Pin!Restoring
  <2>4. CleanBeforeClaims'
    BY <1>5 DEF Pin!TearForPin, Pin!Step, Pin!files, Pin!counts, Pin!TypeOK, LockHeld, Coordinators, Served,
       Written, CleanBeforeClaims, Settled, Pin!Installing, Pin!Restoring
  <2> QED BY <2>1, <2>2, <2>3, <2>4
<1>6. CASE Pin!WritePin
  <2>1. Pin!TypeOK' /\ Pin!PinIsJournalled'
    BY <1>6 DEF Pin!WritePin, Pin!Ends, Pin!Idle, Pin!files, Pin!counts, Pin!TypeOK, Pin!PinIsJournalled, Written,
       Pin!Installing, Pin!Restoring
  <2>2. LockHeld' /\ Served'
    BY <1>6 DEF Pin!WritePin, Pin!Ends, Pin!Idle, Pin!files, Pin!counts, Pin!TypeOK, LockHeld, Coordinators, Served,
       Pin!Installing, Pin!Restoring
  <2>3. Written' /\ EditsFound'
    BY <1>6 DEF Pin!WritePin, Pin!Ends, Pin!Idle, Pin!files, Pin!counts, Pin!TypeOK, Served, Written, EditsFound,
       Pin!PinIsJournalled, Pin!Installing, Pin!Restoring
  <2>4. CleanBeforeClaims'
    BY <1>6 DEF Pin!WritePin, Pin!Ends, Pin!Idle, Pin!files, Pin!counts, Pin!TypeOK, LockHeld, Coordinators, Served,
       Written, CleanBeforeClaims, Settled, Pin!Installing, Pin!Restoring
  <2> QED BY <2>1, <2>2, <2>3, <2>4
<1>7. CASE Pin!CheckRestore
  <2>1. Pin!TypeOK' /\ Pin!PinIsJournalled'
    <3>1. \/ /\ helper' = Pin!Idle
             /\ \/ call' = IF helper.for = Nobody THEN call ELSE [call EXCEPT ![helper.for] = "done"]
                \/ call' = IF helper.for = Nobody THEN call ELSE [call EXCEPT ![helper.for] = "refused"]
          \/ helper' = [helper EXCEPT !.step = "back"] /\ call' = call
      <4>1. CASE journal.state = "absent"
        BY <1>7, <4>1 DEF Pin!CheckRestore, Pin!Ends
      <4>2. CASE journal.state # "absent" /\ journal.state = "saved" /\ Pin!OnlyOurLine(hosts)
        BY <1>7, <4>2 DEF Pin!CheckRestore, Pin!Step
      <4>3. CASE journal.state # "absent" /\ ~(journal.state = "saved" /\ Pin!OnlyOurLine(hosts))
        BY <1>7, <4>3 DEF Pin!CheckRestore, Pin!Ends
      <4> QED BY <4>1, <4>2, <4>3
    <3>2. helper' \in [for : Launches \cup {Nobody}, step : {"idle"} \cup Pin!Installing \cup Pin!Restoring,
                      read : SUBSET Edits, late : BOOLEAN]
      <4>1. CASE helper' = Pin!Idle
        BY <4>1 DEF Pin!Idle
      <4>2. CASE helper' = [helper EXCEPT !.step = "back"]
        BY <4>2 DEF Pin!TypeOK, Pin!Installing, Pin!Restoring
      <4> QED BY <3>1, <4>1, <4>2
    <3>3. call' \in [Launches -> {"none", "install", "restore", "running", "done", "refused"}]
      BY <3>1 DEF Pin!TypeOK
    <3> QED BY <1>7, <3>2, <3>3 DEF Pin!CheckRestore, Pin!files, Pin!counts, Pin!TypeOK, Pin!PinIsJournalled
  <2>2. LockHeld' /\ Served'
    BY <1>7 DEF Pin!CheckRestore, Pin!Ends, Pin!Step, Pin!OnlyOurLine, Pin!Idle, Pin!files, Pin!counts,
        Pin!TypeOK, LockHeld, Coordinators, Served,
       Pin!Installing, Pin!Restoring
  <2>3. Written' /\ EditsFound'
    BY <1>7 DEF Pin!CheckRestore, Pin!Ends, Pin!Step, Pin!OnlyOurLine, Pin!Idle, Pin!files, Pin!counts,
        Pin!TypeOK, Served, Written, EditsFound,
       Pin!PinIsJournalled, Pin!Installing, Pin!Restoring
  <2>4. CleanBeforeClaims'
    BY <1>7 DEF Pin!CheckRestore, Pin!Ends, Pin!Step, Pin!OnlyOurLine, Pin!Idle, Pin!files, Pin!counts,
        Pin!TypeOK, LockHeld, Coordinators, Served,
       Written, CleanBeforeClaims, Settled, Pin!Installing, Pin!Restoring
  <2> QED BY <2>1, <2>2, <2>3, <2>4
<1>8. CASE Pin!TearForRestore
  <2>1. Pin!TypeOK' /\ Pin!PinIsJournalled'
    BY <1>8 DEF Pin!TearForRestore, Pin!Step, Pin!files, Pin!counts, Pin!TypeOK, Pin!PinIsJournalled, Written,
       Pin!Installing, Pin!Restoring
  <2>2. LockHeld' /\ Served'
    BY <1>8 DEF Pin!TearForRestore, Pin!Step, Pin!files, Pin!counts, Pin!TypeOK, LockHeld, Coordinators, Served,
       Pin!Installing, Pin!Restoring
  <2>3. Written' /\ EditsFound'
    BY <1>8 DEF Pin!TearForRestore, Pin!Step, Pin!files, Pin!counts, Pin!TypeOK, Served, Written, EditsFound,
       Pin!PinIsJournalled, Pin!Installing, Pin!Restoring
  <2>4. CleanBeforeClaims'
    BY <1>8 DEF Pin!TearForRestore, Pin!Step, Pin!files, Pin!counts, Pin!TypeOK, LockHeld, Coordinators, Served,
       Written, CleanBeforeClaims, Settled, Pin!Installing, Pin!Restoring
  <2> QED BY <2>1, <2>2, <2>3, <2>4
<1>9. CASE Pin!WriteBack
  <2>1. Pin!TypeOK' /\ Pin!PinIsJournalled'
    BY <1>9 DEF Pin!WriteBack, Pin!Step, Pin!files, Pin!counts, Pin!TypeOK, Pin!PinIsJournalled, Written,
       Pin!Installing, Pin!Restoring
  <2>2. LockHeld' /\ Served'
    BY <1>9 DEF Pin!WriteBack, Pin!Step, Pin!files, Pin!counts, Pin!TypeOK, LockHeld, Coordinators, Served,
       Pin!Installing, Pin!Restoring
  <2>3. Written' /\ EditsFound'
    BY <1>9 DEF Pin!WriteBack, Pin!Step, Pin!files, Pin!counts, Pin!TypeOK, Served, Written, EditsFound,
       Pin!PinIsJournalled, Pin!Installing, Pin!Restoring
  <2>4. CleanBeforeClaims'
    BY <1>9 DEF Pin!WriteBack, Pin!Step, Pin!files, Pin!counts, Pin!TypeOK, LockHeld, Coordinators, Served,
       Written, CleanBeforeClaims, Settled, Pin!Installing, Pin!Restoring
  <2> QED BY <2>1, <2>2, <2>3, <2>4
<1>10. CASE Pin!UnlinkJournal
  <2>1. Pin!TypeOK' /\ Pin!PinIsJournalled'
    BY <1>10 DEF Pin!UnlinkJournal, Pin!Ends, Pin!Idle, Pin!Absent, Pin!files, Pin!counts, Pin!TypeOK,
        Pin!PinIsJournalled, Written,
       Pin!Installing, Pin!Restoring
  <2>2. LockHeld' /\ Served'
    BY <1>10 DEF Pin!UnlinkJournal, Pin!Ends, Pin!Idle, Pin!Absent, Pin!files, Pin!counts, Pin!TypeOK, LockHeld,
        Coordinators, Served,
       Pin!Installing, Pin!Restoring
  <2>3. Written' /\ EditsFound'
    BY <1>10 DEF Pin!UnlinkJournal, Pin!Ends, Pin!Idle, Pin!Absent, Pin!files, Pin!counts, Pin!TypeOK, Served,
        Written, EditsFound,
       Pin!PinIsJournalled, Pin!Installing, Pin!Restoring
  <2>4. CleanBeforeClaims'
    BY <1>10 DEF Pin!UnlinkJournal, Pin!Ends, Pin!Idle, Pin!Absent, Pin!files, Pin!counts, Pin!TypeOK, LockHeld,
        Coordinators, Served,
       Written, CleanBeforeClaims, Settled, Pin!Installing, Pin!Restoring
  <2> QED BY <2>1, <2>2, <2>3, <2>4
<1>11. ASSUME NEW e \in Edits, Pin!Edit(e) PROVE PinInv'
  <2>1. Pin!TypeOK' /\ Pin!PinIsJournalled'
    BY <1>11 DEF Pin!Edit, Pin!Unseen, Pin!files, Pin!counts, Pin!TypeOK, Pin!PinIsJournalled, Written,
       Pin!Installing, Pin!Restoring
  <2>2. LockHeld' /\ Served'
    BY <1>11 DEF Pin!Edit, Pin!Unseen, Pin!files, Pin!counts, Pin!TypeOK, LockHeld, Coordinators, Served,
       Pin!Installing, Pin!Restoring
  <2>3. Written' /\ EditsFound'
    BY <1>11 DEF Pin!Edit, Pin!Unseen, Pin!files, Pin!counts, Pin!TypeOK, Served, Written, EditsFound,
       Pin!PinIsJournalled, Pin!Installing, Pin!Restoring
  <2>4. CleanBeforeClaims'
    BY <1>11 DEF Pin!Edit, Pin!Unseen, Pin!files, Pin!counts, Pin!TypeOK, LockHeld, Coordinators, Served,
       Written, CleanBeforeClaims, Settled, Pin!Installing, Pin!Restoring
  <2> QED BY <2>1, <2>2, <2>3, <2>4
<1>12. ASSUME NEW a \in DOMAIN orphans, Pin!OrphanTakesLock(a) PROVE PinInv'
  <2>1. Pin!TypeOK' /\ Pin!PinIsJournalled'
    BY <1>12 DEF Pin!OrphanTakesLock, Pin!FirstStep, Pin!Idle, Pin!files, Pin!counts, Pin!TypeOK,
        Pin!PinIsJournalled, Written,
       Pin!Installing, Pin!Restoring
  <2>2. LockHeld' /\ Served'
    BY <1>12 DEF Pin!OrphanTakesLock, Pin!FirstStep, Pin!Idle, Pin!files, Pin!counts, Pin!TypeOK, LockHeld,
        Coordinators, Served,
       Pin!Installing, Pin!Restoring
  <2>3. Written' /\ EditsFound'
    BY <1>12 DEF Pin!OrphanTakesLock, Pin!FirstStep, Pin!Idle, Pin!files, Pin!counts, Pin!TypeOK, Served,
        Written, EditsFound,
       Pin!PinIsJournalled, Pin!Installing, Pin!Restoring
  <2>4. CleanBeforeClaims'
    BY <1>12 DEF Pin!OrphanTakesLock, Pin!FirstStep, Pin!Idle, Pin!files, Pin!counts, Pin!TypeOK, LockHeld,
        Coordinators, Served,
       Written, CleanBeforeClaims, Settled, Pin!Installing, Pin!Restoring
  <2> QED BY <2>1, <2>2, <2>3, <2>4
<1>13. ASSUME NEW l \in Launches, Pin!TakeLock(l) PROVE PinInv'
  <2>1. Pin!TypeOK' /\ Pin!PinIsJournalled'
    BY <1>13 DEF Pin!TakeLock, Pin!FirstStep, Pin!Idle, Pin!files, Pin!counts, Pin!TypeOK, Pin!PinIsJournalled, Written,
       Pin!Installing, Pin!Restoring
  <2>2. LockHeld' /\ Served'
    BY <1>13 DEF Pin!TakeLock, Pin!FirstStep, Pin!Idle, Pin!files, Pin!counts, Pin!TypeOK, LockHeld,
        Coordinators, Served,
       Pin!Installing, Pin!Restoring
  <2>3. Written' /\ EditsFound'
    BY <1>13 DEF Pin!TakeLock, Pin!FirstStep, Pin!Idle, Pin!files, Pin!counts, Pin!TypeOK, Served, Written, EditsFound,
       Pin!PinIsJournalled, Pin!Installing, Pin!Restoring
  <2>4. CleanBeforeClaims'
    BY <1>13 DEF Pin!TakeLock, Pin!FirstStep, Pin!Idle, Pin!files, Pin!counts, Pin!TypeOK, LockHeld,
        Coordinators, Served,
       Written, CleanBeforeClaims, Settled, Pin!Installing, Pin!Restoring
  <2> QED BY <2>1, <2>2, <2>3, <2>4
<1>14. ASSUME NEW l \in Launches, Pin!Start(l) PROVE PinInv'
  <2>1. Pin!TypeOK' /\ Pin!PinIsJournalled'
    BY <1>14 DEF Pin!Start, Pin!Call, Pin!Go, Pin!LockFree, Pin!files, Pin!counts, Pin!TypeOK,
        Pin!PinIsJournalled, Written,
       Pin!Installing, Pin!Restoring
  <2>2. LockHeld' /\ Served'
    BY <1>14 DEF Pin!Start, Pin!Call, Pin!Go, Pin!LockFree, Pin!files, Pin!counts, Pin!TypeOK, LockHeld,
        Coordinators, Served,
       Pin!Installing, Pin!Restoring
  <2>3. Written' /\ EditsFound'
    BY <1>14 DEF Pin!Start, Pin!Call, Pin!Go, Pin!LockFree, Pin!files, Pin!counts, Pin!TypeOK, Served, Written,
        EditsFound,
       Pin!PinIsJournalled, Pin!Installing, Pin!Restoring
  <2>4. CleanBeforeClaims'
    BY <1>14 DEF Pin!Start, Pin!Call, Pin!Go, Pin!LockFree, Pin!files, Pin!counts, Pin!TypeOK, LockHeld,
        Coordinators, Served,
       Written, CleanBeforeClaims, Settled, Pin!Installing, Pin!Restoring
  <2> QED BY <2>1, <2>2, <2>3, <2>4
<1>15. ASSUME NEW l \in Launches, Pin!Recovered(l) PROVE PinInv'
  <2>1. Pin!TypeOK' /\ Pin!PinIsJournalled'
    BY <1>15 DEF Pin!Recovered, Pin!Call, Pin!Go, Pin!Answered, Pin!Refused, Pin!files, Pin!counts, Pin!TypeOK,
        Pin!PinIsJournalled, Written,
       Pin!Installing, Pin!Restoring
  <2>2. LockHeld' /\ Served'
    BY <1>15 DEF Pin!Recovered, Pin!Call, Pin!Go, Pin!Answered, Pin!Refused, Pin!files, Pin!counts, Pin!TypeOK,
        LockHeld, Coordinators, Served,
       Pin!Installing, Pin!Restoring
  <2>3. Written' /\ EditsFound'
    BY <1>15 DEF Pin!Recovered, Pin!Call, Pin!Go, Pin!Answered, Pin!Refused, Pin!files, Pin!counts, Pin!TypeOK,
        Served, Written, EditsFound,
       Pin!PinIsJournalled, Pin!Installing, Pin!Restoring
  <2>4. CleanBeforeClaims'
    BY <1>15 DEF Pin!Recovered, Pin!Call, Pin!Go, Pin!Answered, Pin!Refused, Pin!files, Pin!counts, Pin!TypeOK,
        LockHeld, Coordinators, Served,
       Written, CleanBeforeClaims, Settled, Pin!Installing, Pin!Restoring
  <2> QED BY <2>1, <2>2, <2>3, <2>4
<1>16. ASSUME NEW l \in Launches, Pin!GiveUp(l) PROVE PinInv'
  <2>0. Pin!Abandoned(l) /\ hosts' = hosts /\ journal' = journal
    BY <1>16 DEF Pin!GiveUp, Pin!files
  <2>1. Pin!TypeOK' /\ Pin!PinIsJournalled'
    <3>1. /\ launch' \in [Launches -> {"idle", "locked", "claim", "pin", "pinning", "stream", "file", "unpin", "unpinning",
                                       "wait", "cleanup", "cleaning", "exit", "over", "killed"}]
          /\ lock' \in Launches \cup {Nobody} /\ stopping' \in [Launches -> BOOLEAN]
          /\ jobs' \in 0..MaxJobs /\ killed' \in 0..PinKills /\ edited' \subseteq Edits /\ exposed' \subseteq edited'
      BY <1>16 DEF Pin!GiveUp, Pin!Go, Pin!files, Pin!counts, Pin!TypeOK
    <3> QED BY <2>0, <3>1, AbandonedTyped DEF Pin!TypeOK, Pin!PinIsJournalled
  <2>2. LockHeld' /\ Served'
    BY <1>16 DEF Pin!GiveUp, Pin!Abandoned, Pin!Go, Pin!Idle, Pin!files, Pin!counts, Pin!TypeOK, LockHeld,
        Coordinators, Served,
       Pin!Installing, Pin!Restoring
  <2>3. Written' /\ EditsFound'
    BY <1>16 DEF Pin!GiveUp, Pin!Abandoned, Pin!Go, Pin!Idle, Pin!files, Pin!counts, Pin!TypeOK, Served, Written,
        EditsFound,
       Pin!PinIsJournalled, Pin!Installing, Pin!Restoring
  <2>4. CleanBeforeClaims'
    BY <1>16 DEF Pin!GiveUp, Pin!Abandoned, Pin!Go, Pin!Idle, Pin!files, Pin!counts, Pin!TypeOK, LockHeld,
        Coordinators, Served,
       Written, CleanBeforeClaims, Settled, Pin!Installing, Pin!Restoring
  <2> QED BY <2>1, <2>2, <2>3, <2>4
<1>17. ASSUME NEW l \in Launches, Pin!Claim(l) PROVE PinInv'
  <2>1. Pin!TypeOK' /\ Pin!PinIsJournalled'
    BY <1>17 DEF Pin!Claim, Pin!Go, Pin!files, Pin!counts, Pin!TypeOK, Pin!PinIsJournalled, Written,
       Pin!Installing, Pin!Restoring
  <2>2. LockHeld' /\ Served'
    BY <1>17 DEF Pin!Claim, Pin!Go, Pin!files, Pin!counts, Pin!TypeOK, LockHeld, Coordinators, Served,
       Pin!Installing, Pin!Restoring
  <2>3. Written' /\ EditsFound'
    BY <1>17 DEF Pin!Claim, Pin!Go, Pin!files, Pin!counts, Pin!TypeOK, Served, Written, EditsFound,
       Pin!PinIsJournalled, Pin!Installing, Pin!Restoring
  <2>4. CleanBeforeClaims'
    BY <1>17 DEF Pin!Claim, Pin!Go, Pin!files, Pin!counts, Pin!TypeOK, LockHeld, Coordinators, Served,
       Written, CleanBeforeClaims, Settled, Pin!Installing, Pin!Restoring
  <2> QED BY <2>1, <2>2, <2>3, <2>4
<1>18. ASSUME NEW l \in Launches, Pin!Pin(l) PROVE PinInv'
  <2>1. Pin!TypeOK' /\ Pin!PinIsJournalled'
    BY <1>18 DEF Pin!Pin, Pin!Call, Pin!Go, Pin!files, Pin!counts, Pin!TypeOK, Pin!PinIsJournalled, Written,
       Pin!Installing, Pin!Restoring
  <2>2. LockHeld' /\ Served'
    BY <1>18 DEF Pin!Pin, Pin!Call, Pin!Go, Pin!files, Pin!counts, Pin!TypeOK, LockHeld, Coordinators, Served,
       Pin!Installing, Pin!Restoring
  <2>3. Written' /\ EditsFound'
    BY <1>18 DEF Pin!Pin, Pin!Call, Pin!Go, Pin!files, Pin!counts, Pin!TypeOK, Served, Written, EditsFound,
       Pin!PinIsJournalled, Pin!Installing, Pin!Restoring
  <2>4. CleanBeforeClaims'
    BY <1>18 DEF Pin!Pin, Pin!Call, Pin!Go, Pin!files, Pin!counts, Pin!TypeOK, LockHeld, Coordinators, Served,
       Written, CleanBeforeClaims, Settled, Pin!Installing, Pin!Restoring
  <2> QED BY <2>1, <2>2, <2>3, <2>4
<1>19. ASSUME NEW l \in Launches, Pin!Pinned(l) PROVE PinInv'
  <2>1. Pin!TypeOK' /\ Pin!PinIsJournalled'
    BY <1>19 DEF Pin!Pinned, Pin!Call, Pin!Go, Pin!Answered, Pin!Refused, Pin!files, Pin!counts, Pin!TypeOK,
        Pin!PinIsJournalled, Written,
       Pin!Installing, Pin!Restoring
  <2>2. LockHeld' /\ Served'
    BY <1>19 DEF Pin!Pinned, Pin!Call, Pin!Go, Pin!Answered, Pin!Refused, Pin!files, Pin!counts, Pin!TypeOK,
        LockHeld, Coordinators, Served,
       Pin!Installing, Pin!Restoring
  <2>3. Written' /\ EditsFound'
    BY <1>19 DEF Pin!Pinned, Pin!Call, Pin!Go, Pin!Answered, Pin!Refused, Pin!files, Pin!counts, Pin!TypeOK,
        Served, Written, EditsFound,
       Pin!PinIsJournalled, Pin!Installing, Pin!Restoring
  <2>4. CleanBeforeClaims'
    BY <1>19 DEF Pin!Pinned, Pin!Call, Pin!Go, Pin!Answered, Pin!Refused, Pin!files, Pin!counts, Pin!TypeOK,
        LockHeld, Coordinators, Served,
       Written, CleanBeforeClaims, Settled, Pin!Installing, Pin!Restoring
  <2> QED BY <2>1, <2>2, <2>3, <2>4
<1>20. ASSUME NEW l \in Launches, Pin!JobEnds(l) PROVE PinInv'
  <2>1. Pin!TypeOK' /\ Pin!PinIsJournalled'
    BY <1>20 DEF Pin!JobEnds, Pin!Go, Pin!files, Pin!counts, Pin!TypeOK, Pin!PinIsJournalled, Written,
       Pin!Installing, Pin!Restoring
  <2>2. LockHeld' /\ Served'
    BY <1>20 DEF Pin!JobEnds, Pin!Go, Pin!files, Pin!counts, Pin!TypeOK, LockHeld, Coordinators, Served,
       Pin!Installing, Pin!Restoring
  <2>3. Written' /\ EditsFound'
    BY <1>20 DEF Pin!JobEnds, Pin!Go, Pin!files, Pin!counts, Pin!TypeOK, Served, Written, EditsFound,
       Pin!PinIsJournalled, Pin!Installing, Pin!Restoring
  <2>4. CleanBeforeClaims'
    BY <1>20 DEF Pin!JobEnds, Pin!Go, Pin!files, Pin!counts, Pin!TypeOK, LockHeld, Coordinators, Served,
       Written, CleanBeforeClaims, Settled, Pin!Installing, Pin!Restoring
  <2> QED BY <2>1, <2>2, <2>3, <2>4
<1>21. ASSUME NEW l \in Launches, Pin!LeaveStuck(l) PROVE PinInv'
  <2>1. Pin!TypeOK' /\ Pin!PinIsJournalled'
    BY <1>21 DEF Pin!LeaveStuck, Pin!Go, Pin!files, Pin!counts, Pin!TypeOK, Pin!PinIsJournalled, Written,
       Pin!Installing, Pin!Restoring
  <2>2. LockHeld' /\ Served'
    BY <1>21 DEF Pin!LeaveStuck, Pin!Go, Pin!files, Pin!counts, Pin!TypeOK, LockHeld, Coordinators, Served,
       Pin!Installing, Pin!Restoring
  <2>3. Written' /\ EditsFound'
    BY <1>21 DEF Pin!LeaveStuck, Pin!Go, Pin!files, Pin!counts, Pin!TypeOK, Served, Written, EditsFound,
       Pin!PinIsJournalled, Pin!Installing, Pin!Restoring
  <2>4. CleanBeforeClaims'
    BY <1>21 DEF Pin!LeaveStuck, Pin!Go, Pin!files, Pin!counts, Pin!TypeOK, LockHeld, Coordinators, Served,
       Written, CleanBeforeClaims, Settled, Pin!Installing, Pin!Restoring
  <2> QED BY <2>1, <2>2, <2>3, <2>4
<1>22. ASSUME NEW l \in Launches, Pin!Unpin(l) PROVE PinInv'
  <2>1. Pin!TypeOK' /\ Pin!PinIsJournalled'
    BY <1>22 DEF Pin!Unpin, Pin!Call, Pin!Go, Pin!files, Pin!counts, Pin!TypeOK, Pin!PinIsJournalled, Written,
       Pin!Installing, Pin!Restoring
  <2>2. LockHeld' /\ Served'
    BY <1>22 DEF Pin!Unpin, Pin!Call, Pin!Go, Pin!files, Pin!counts, Pin!TypeOK, LockHeld, Coordinators, Served,
       Pin!Installing, Pin!Restoring
  <2>3. Written' /\ EditsFound'
    BY <1>22 DEF Pin!Unpin, Pin!Call, Pin!Go, Pin!files, Pin!counts, Pin!TypeOK, Served, Written, EditsFound,
       Pin!PinIsJournalled, Pin!Installing, Pin!Restoring
  <2>4. CleanBeforeClaims'
    BY <1>22 DEF Pin!Unpin, Pin!Call, Pin!Go, Pin!files, Pin!counts, Pin!TypeOK, LockHeld, Coordinators, Served,
       Written, CleanBeforeClaims, Settled, Pin!Installing, Pin!Restoring
  <2> QED BY <2>1, <2>2, <2>3, <2>4
<1>23. ASSUME NEW l \in Launches, Pin!Unpinned(l) PROVE PinInv'
  <2>1. Pin!TypeOK' /\ Pin!PinIsJournalled'
    BY <1>23 DEF Pin!Unpinned, Pin!Call, Pin!Go, Pin!Answered, Pin!Refused, Pin!StopsOnRefusal, Pin!files,
        Pin!counts, Pin!TypeOK, Pin!PinIsJournalled, Written,
       Pin!Installing, Pin!Restoring
  <2>2. LockHeld' /\ Served'
    BY <1>23 DEF Pin!Unpinned, Pin!Call, Pin!Go, Pin!Answered, Pin!Refused, Pin!StopsOnRefusal, Pin!files,
        Pin!counts, Pin!TypeOK, LockHeld, Coordinators, Served,
       Pin!Installing, Pin!Restoring
  <2>3. Written' /\ EditsFound'
    BY <1>23 DEF Pin!Unpinned, Pin!Call, Pin!Go, Pin!Answered, Pin!Refused, Pin!StopsOnRefusal, Pin!files,
        Pin!counts, Pin!TypeOK, Served, Written, EditsFound,
       Pin!PinIsJournalled, Pin!Installing, Pin!Restoring
  <2>4. CleanBeforeClaims'
    <3>1. call[l] = "done" => Settled
      BY <1>23 DEF Pin!Unpinned, CleanBeforeClaims
    <3>2. stopping[l] \/ call[l] = "done" \/ call[l] = "refused"
      BY <1>23 DEF Pin!Unpinned, Pin!Answered
    <3>3. stopping'[l] \/ Settled
      BY <1>23, <3>1, <3>2 DEF Pin!Unpinned, Pin!StopsOnRefusal, Pin!Refused, Pin!TypeOK
    <3>4. Settled' = Settled
      BY <1>23 DEF Pin!Unpinned, Pin!files, Settled
    <3>5. launch'[l] = "wait" /\ call'[l] = "none"
      BY <1>23 DEF Pin!Unpinned, Pin!Call, Pin!Go, Pin!TypeOK
    <3>6. \A m \in Launches \ {l} : launch'[m] = launch[m] /\ call'[m] = call[m] /\ stopping'[m] = stopping[m]
      BY <1>23 DEF Pin!Unpinned, Pin!Call, Pin!Go, Pin!TypeOK
    <3> QED BY <3>3, <3>4, <3>5, <3>6 DEF CleanBeforeClaims
  <2> QED BY <2>1, <2>2, <2>3, <2>4
<1>24. ASSUME NEW l \in Launches, Pin!Again(l) PROVE PinInv'
  <2>1. Pin!TypeOK' /\ Pin!PinIsJournalled'
    BY <1>24 DEF Pin!Again, Pin!Go, Pin!files, Pin!counts, Pin!TypeOK, Pin!PinIsJournalled, Written,
       Pin!Installing, Pin!Restoring
  <2>2. LockHeld' /\ Served'
    BY <1>24 DEF Pin!Again, Pin!Go, Pin!files, Pin!counts, Pin!TypeOK, LockHeld, Coordinators, Served,
       Pin!Installing, Pin!Restoring
  <2>3. Written' /\ EditsFound'
    BY <1>24 DEF Pin!Again, Pin!Go, Pin!files, Pin!counts, Pin!TypeOK, Served, Written, EditsFound,
       Pin!PinIsJournalled, Pin!Installing, Pin!Restoring
  <2>4. CleanBeforeClaims'
    BY <1>24 DEF Pin!Again, Pin!Go, Pin!files, Pin!counts, Pin!TypeOK, LockHeld, Coordinators, Served,
       Written, CleanBeforeClaims, Settled, Pin!Installing, Pin!Restoring
  <2> QED BY <2>1, <2>2, <2>3, <2>4
<1>25. ASSUME NEW l \in Launches, Pin!Signal(l) PROVE PinInv'
  <2>1. Pin!TypeOK' /\ Pin!PinIsJournalled'
    BY <1>25 DEF Pin!Signal, Pin!files, Pin!counts, Pin!TypeOK, Pin!PinIsJournalled, Written,
       Pin!Installing, Pin!Restoring
  <2>2. LockHeld' /\ Served'
    BY <1>25 DEF Pin!Signal, Pin!files, Pin!counts, Pin!TypeOK, LockHeld, Coordinators, Served,
       Pin!Installing, Pin!Restoring
  <2>3. Written' /\ EditsFound'
    BY <1>25 DEF Pin!Signal, Pin!files, Pin!counts, Pin!TypeOK, Served, Written, EditsFound,
       Pin!PinIsJournalled, Pin!Installing, Pin!Restoring
  <2>4. CleanBeforeClaims'
    BY <1>25 DEF Pin!Signal, Pin!files, Pin!counts, Pin!TypeOK, LockHeld, Coordinators, Served,
       Written, CleanBeforeClaims, Settled, Pin!Installing, Pin!Restoring
  <2> QED BY <2>1, <2>2, <2>3, <2>4
<1>26. ASSUME NEW l \in Launches, Pin!LeaveLoop(l) PROVE PinInv'
  <2>1. Pin!TypeOK' /\ Pin!PinIsJournalled'
    BY <1>26 DEF Pin!LeaveLoop, Pin!Go, Pin!files, Pin!counts, Pin!TypeOK, Pin!PinIsJournalled, Written,
       Pin!Installing, Pin!Restoring
  <2>2. LockHeld' /\ Served'
    BY <1>26 DEF Pin!LeaveLoop, Pin!Go, Pin!files, Pin!counts, Pin!TypeOK, LockHeld, Coordinators, Served,
       Pin!Installing, Pin!Restoring
  <2>3. Written' /\ EditsFound'
    BY <1>26 DEF Pin!LeaveLoop, Pin!Go, Pin!files, Pin!counts, Pin!TypeOK, Served, Written, EditsFound,
       Pin!PinIsJournalled, Pin!Installing, Pin!Restoring
  <2>4. CleanBeforeClaims'
    BY <1>26 DEF Pin!LeaveLoop, Pin!Go, Pin!files, Pin!counts, Pin!TypeOK, LockHeld, Coordinators, Served,
       Written, CleanBeforeClaims, Settled, Pin!Installing, Pin!Restoring
  <2> QED BY <2>1, <2>2, <2>3, <2>4
<1>27. ASSUME NEW l \in Launches, Pin!Cleanup(l) PROVE PinInv'
  <2>1. Pin!TypeOK' /\ Pin!PinIsJournalled'
    BY <1>27 DEF Pin!Cleanup, Pin!Call, Pin!Go, Pin!files, Pin!counts, Pin!TypeOK, Pin!PinIsJournalled, Written,
       Pin!Installing, Pin!Restoring
  <2>2. LockHeld' /\ Served'
    BY <1>27 DEF Pin!Cleanup, Pin!Call, Pin!Go, Pin!files, Pin!counts, Pin!TypeOK, LockHeld, Coordinators, Served,
       Pin!Installing, Pin!Restoring
  <2>3. Written' /\ EditsFound'
    BY <1>27 DEF Pin!Cleanup, Pin!Call, Pin!Go, Pin!files, Pin!counts, Pin!TypeOK, Served, Written, EditsFound,
       Pin!PinIsJournalled, Pin!Installing, Pin!Restoring
  <2>4. CleanBeforeClaims'
    BY <1>27 DEF Pin!Cleanup, Pin!Call, Pin!Go, Pin!files, Pin!counts, Pin!TypeOK, LockHeld, Coordinators, Served,
       Written, CleanBeforeClaims, Settled, Pin!Installing, Pin!Restoring
  <2> QED BY <2>1, <2>2, <2>3, <2>4
<1>28. ASSUME NEW l \in Launches, Pin!Exit(l) PROVE PinInv'
  <2>1. Pin!TypeOK' /\ Pin!PinIsJournalled'
    BY <1>28 DEF Pin!Exit, Pin!Call, Pin!Go, Pin!Answered, Pin!files, Pin!counts, Pin!TypeOK,
        Pin!PinIsJournalled, Written,
       Pin!Installing, Pin!Restoring
  <2>2. LockHeld' /\ Served'
    BY <1>28 DEF Pin!Exit, Pin!Call, Pin!Go, Pin!Answered, Pin!files, Pin!counts, Pin!TypeOK, LockHeld,
        Coordinators, Served,
       Pin!Installing, Pin!Restoring
  <2>3. Written' /\ EditsFound'
    BY <1>28 DEF Pin!Exit, Pin!Call, Pin!Go, Pin!Answered, Pin!files, Pin!counts, Pin!TypeOK, Served, Written,
        EditsFound,
       Pin!PinIsJournalled, Pin!Installing, Pin!Restoring
  <2>4. CleanBeforeClaims'
    BY <1>28 DEF Pin!Exit, Pin!Call, Pin!Go, Pin!Answered, Pin!files, Pin!counts, Pin!TypeOK, LockHeld,
        Coordinators, Served,
       Written, CleanBeforeClaims, Settled, Pin!Installing, Pin!Restoring
  <2> QED BY <2>1, <2>2, <2>3, <2>4
<1>29. ASSUME NEW l \in Launches, Pin!Kill(l) PROVE PinInv'
  <2>0. Pin!Abandoned(l) /\ hosts' = hosts /\ journal' = journal
    BY <1>29 DEF Pin!Kill, Pin!files
  <2>1. Pin!TypeOK' /\ Pin!PinIsJournalled'
    <3>1. /\ launch' \in [Launches -> {"idle", "locked", "claim", "pin", "pinning", "stream", "file", "unpin", "unpinning",
                                       "wait", "cleanup", "cleaning", "exit", "over", "killed"}]
          /\ lock' \in Launches \cup {Nobody} /\ stopping' \in [Launches -> BOOLEAN]
          /\ jobs' \in 0..MaxJobs /\ killed' \in 0..PinKills /\ edited' \subseteq Edits /\ exposed' \subseteq edited'
      BY <1>29 DEF Pin!Kill, Pin!Go, Pin!files, Pin!counts, Pin!TypeOK
    <3> QED BY <2>0, <3>1, AbandonedTyped DEF Pin!TypeOK, Pin!PinIsJournalled
  <2>2. LockHeld' /\ Served'
    BY <1>29 DEF Pin!Kill, Pin!Go, Pin!Abandoned, Pin!Idle, Pin!files, Pin!counts, Pin!TypeOK, LockHeld,
        Coordinators, Served,
       Pin!Installing, Pin!Restoring
  <2>3. Written' /\ EditsFound'
    BY <1>29 DEF Pin!Kill, Pin!Go, Pin!Abandoned, Pin!Idle, Pin!files, Pin!counts, Pin!TypeOK, Served, Written,
        EditsFound,
       Pin!PinIsJournalled, Pin!Installing, Pin!Restoring
  <2>4. CleanBeforeClaims'
    BY <1>29 DEF Pin!Kill, Pin!Go, Pin!Abandoned, Pin!Idle, Pin!files, Pin!counts, Pin!TypeOK, LockHeld,
        Coordinators, Served,
       Written, CleanBeforeClaims, Settled, Pin!Installing, Pin!Restoring
  <2> QED BY <2>1, <2>2, <2>3, <2>4
<1>40. CASE UNCHANGED pin
  BY <1>40 DEF pin, Pin!TypeOK, LockHeld, Coordinators, Served, Written, CleanBeforeClaims, Settled, EditsFound,
      Pin!PinIsJournalled
<1> QED BY <1>1, <1>2, <1>3, <1>4, <1>5, <1>6, <1>7, <1>8, <1>9, <1>10, <1>11, <1>12, <1>13, <1>14, <1>15, <1>16,
    <1>17, <1>18, <1>19, <1>20, <1>21, <1>22, <1>23, <1>24, <1>25, <1>26, <1>27, <1>28, <1>29, <1>40 DEF Pin!Next

LEMMA PinStepActs ==
    PinInv /\ [Pin!Next]_pin => [jobs' # jobs /\ (hosts.pin \/ hosts.torn) => journal.late]_pin
<1> SUFFICES ASSUME PinInv, Pin!Next, jobs' # jobs, hosts.pin \/ hosts.torn PROVE journal.late
  BY DEF pin
<1>1. PICK l \in Launches : Pin!Claim(l)
  BY DEF Pin!Next, Pin!ReadBefore, Pin!CreateJournal, Pin!FillJournal, Pin!ReadAgain, Pin!TearForPin, Pin!WritePin,
     Pin!CheckRestore, Pin!TearForRestore, Pin!WriteBack, Pin!UnlinkJournal, Pin!Edit, Pin!OrphanTakesLock,
     Pin!TakeLock, Pin!Start, Pin!Recovered, Pin!GiveUp, Pin!Pin, Pin!Pinned, Pin!JobEnds, Pin!LeaveStuck, Pin!Unpin,
     Pin!Unpinned, Pin!Again, Pin!Signal, Pin!LeaveLoop, Pin!Cleanup, Pin!Exit, Pin!Kill, Pin!counts
<1>2. launch[l] = "claim" /\ ~stopping[l]
  BY <1>1 DEF Pin!Claim
<1>3. journal.state = "absent" \/ journal.late
  BY <1>2 DEF PinInv, CleanBeforeClaims, Settled
<1> QED BY <1>3 DEF PinInv, Pin!PinIsJournalled, Pin!TypeOK

-----------------------------------------------------------------------------
(* The helper's imports (LocalImports) *)

LEMMA ImportBounds ==
    Clouds \in Nat /\ MaxObjects \in Nat /\ MaxKept \in Nat /\ Room \in Nat
BY PartsAssumption DEF Imports!Parameters

ImportObject == [id : Imports!Ids, owner : Tabs, cancel : BOOLEAN, expired : BOOLEAN,
                 state : Imports!Busy \cup {"ready", "failed", "cancelled"}]
Some(t, k) == t.obj[k] # Imports!NoObject
Running(t, k) == t.obj[k].state \in Imports!Busy

\* What table and directory hold belongs to the id it is filed under.
Filed(t) ==
    /\ t \in [session : [Tabs -> {"new", "live", "stale", "over"}],
              obj : [Imports!Objects -> {Imports!NoObject} \cup ImportObject],
              table : [Imports!Ids -> 0..MaxObjects], dir : [Imports!Ids -> 0..MaxObjects]]
    /\ \A i \in Imports!Ids : /\ t.table[i] # 0 => t.obj[t.table[i]].id = i
                              /\ t.dir[i] # 0 => t.obj[t.dir[i]].id = i

\* At most one job of the table is being downloaded.
OneRuns(t) ==
    \A j, k \in Imports!Held(t) : Running(t, j) /\ Running(t, k) => j = k

\* What removals, revocations and sweeps do to the tables: an entry that goes is
\* not being downloaded, and a job never starts over.
Pruned(t, u) ==
    /\ \A k \in Imports!Objects :
        /\ u.obj[k].id = t.obj[k].id /\ (Some(u, k) <=> Some(t, k))
        /\ Running(u, k) <=> Running(t, k)
        /\ ~Running(t, k) => u.obj[k].state = t.obj[k].state
    /\ \A i \in Imports!Ids :
        \/ u.table[i] = t.table[i] /\ u.dir[i] = t.dir[i]
        \/ /\ u.table[i] = 0 /\ u.dir[i] = 0
           /\ \E k \in Imports!Objects : t.table[i] = k /\ t.obj[k].id = i /\ ~Running(t, k)

LEMMA PrunedTwice ==
    ASSUME NEW t, NEW u, NEW v, Pruned(t, u), Pruned(u, v) PROVE Pruned(t, v)
BY DEF Pruned

LEMMA TablesReplaced ==
    ASSUME NEW A, NEW B, NEW C, NEW D, NEW t \in [session : A, obj : B, table : C, dir : D],
           NEW o \in B, NEW f \in C, NEW g \in D
    PROVE  [t EXCEPT !.obj = o, !.table = f, !.dir = g] \in [session : A, obj : B, table : C, dir : D]
OBVIOUS

LEMMA RemovedPrunes ==
    ASSUME NEW t, Filed(t), NEW K \in SUBSET Imports!Held(t)
    PROVE  Filed(Imports!Removed(t, K)) /\ Pruned(t, Imports!Removed(t, K))
<1> DEFINE u == Imports!Removed(t, K)
           gone == {t.obj[k].id : k \in {j \in K : Imports!Ended(t, j)}}
<1> USE ImportBounds
<1>1. \A k \in K : k \in Imports!Objects /\ t.obj[k] \in ImportObject
  BY DEF Filed, Imports!Held, Imports!Objects, Imports!NoObject, Imports!Ids
<1>2. /\ u.session = t.session
      /\ u.obj = [k \in Imports!Objects |-> IF k \notin K THEN t.obj[k]
                    ELSE [t.obj[k] EXCEPT !.cancel = TRUE,
                            !.state = IF @ \in Imports!Busy THEN "cancelling" ELSE @]]
      /\ u.table = [i \in Imports!Ids |-> IF i \in gone THEN 0 ELSE t.table[i]]
      /\ u.dir = [i \in Imports!Ids |-> IF i \in gone THEN 0 ELSE t.dir[i]]
  BY DEF Filed, Imports!Removed
<1>4. \A k \in K : /\ u.obj[k] \in ImportObject /\ u.obj[k].id = t.obj[k].id
                   /\ Running(u, k) <=> Running(t, k)
                   /\ ~Running(t, k) => u.obj[k].state = t.obj[k].state
  <2> TAKE k \in K
  <2>1. u.obj[k] = [t.obj[k] EXCEPT !.cancel = TRUE,
                       !.state = IF @ \in Imports!Busy THEN "cancelling" ELSE @]
    BY <1>1, <1>2
  <2>2. t.obj[k] \in ImportObject
    BY <1>1
  <2> QED BY <2>1, <2>2 DEF ImportObject, Imports!Busy, Running
<1>5. \A k \in K : Some(u, k) /\ Some(t, k)
  BY <1>1, <1>4 DEF ImportObject, Imports!Ids, Some, Imports!NoObject
<1>6. \A k \in Imports!Objects \ K : u.obj[k] = t.obj[k]
  BY <1>2
<1>7. \A i \in Imports!Ids :
        \/ u.table[i] = t.table[i] /\ u.dir[i] = t.dir[i]
        \/ u.table[i] = 0 /\ u.dir[i] = 0 /\ i \in gone
  BY <1>2
<1>8. ASSUME NEW i \in gone PROVE \E k \in Imports!Objects : t.table[i] = k /\ t.obj[k].id = i /\ ~Running(t, k)
  BY <1>1 DEF Imports!Ended, Imports!Held, Filed, Running
<1>9. Pruned(t, u)
  <2> HIDE DEF u, gone
  <2> QED BY <1>4, <1>5, <1>6, <1>7, <1>8 DEF Pruned, Some, Running
<1>10. Filed(u)
  <2>1. u.obj \in [Imports!Objects -> {Imports!NoObject} \cup ImportObject]
    <3>1. \A k \in Imports!Objects : u.obj[k] \in {Imports!NoObject} \cup ImportObject
      BY <1>4, <1>6 DEF Filed
    <3> QED BY <3>1, <1>2
  <2>2. u.table \in [Imports!Ids -> 0..MaxObjects] /\ u.dir \in [Imports!Ids -> 0..MaxObjects]
    <3>1. \A i \in Imports!Ids : t.table[i] \in 0..MaxObjects /\ t.dir[i] \in 0..MaxObjects /\ 0 \in 0..MaxObjects
      BY DEF Filed
    <3> HIDE DEF gone
    <3> QED BY <3>1, <1>2
  <2>3. \A k \in Imports!Objects : u.obj[k].id = t.obj[k].id
    BY <1>9 DEF Pruned
  <2>4. \A i \in Imports!Ids : /\ u.table[i] # 0 => u.obj[u.table[i]].id = i
                               /\ u.dir[i] # 0 => u.obj[u.dir[i]].id = i
    <3>1. \A i \in Imports!Ids : t.table[i] \in 0..MaxObjects /\ t.dir[i] \in 0..MaxObjects
      BY DEF Filed
    <3>2. \A i \in Imports!Ids : /\ t.table[i] # 0 => t.obj[t.table[i]].id = i
                                 /\ t.dir[i] # 0 => t.obj[t.dir[i]].id = i
      BY DEF Filed
    <3> HIDE DEF u, gone
    <3>3. \A n \in 0..MaxObjects : n # 0 => u.obj[n].id = t.obj[n].id
      BY <2>3 DEF Imports!Objects
    <3>4. \A i \in Imports!Ids : t.table[i] # 0 => u.obj[t.table[i]].id = i
      BY <3>1, <3>2, <3>3
    <3>5. \A i \in Imports!Ids : t.dir[i] # 0 => u.obj[t.dir[i]].id = i
      BY <3>1, <3>2, <3>3
    <3> QED BY <1>7, <3>4, <3>5
  <2>5. u = [t EXCEPT !.obj = u.obj, !.table = u.table, !.dir = u.dir]
    BY <1>2 DEF Imports!Removed
  <2>6. u \in [session : [Tabs -> {"new", "live", "stale", "over"}],
                obj : [Imports!Objects -> {Imports!NoObject} \cup ImportObject],
                table : [Imports!Ids -> 0..MaxObjects], dir : [Imports!Ids -> 0..MaxObjects]]
    <3> HIDE DEF u
    <3>1. t \in [session : [Tabs -> {"new", "live", "stale", "over"}],
                 obj : [Imports!Objects -> {Imports!NoObject} \cup ImportObject],
                 table : [Imports!Ids -> 0..MaxObjects], dir : [Imports!Ids -> 0..MaxObjects]]
      BY DEF Filed
    <3>2. [t EXCEPT !.obj = u.obj, !.table = u.table, !.dir = u.dir]
            \in [session : [Tabs -> {"new", "live", "stale", "over"}],
                 obj : [Imports!Objects -> {Imports!NoObject} \cup ImportObject],
                 table : [Imports!Ids -> 0..MaxObjects], dir : [Imports!Ids -> 0..MaxObjects]]
      <4> DEFINE A == [Tabs -> {"new", "live", "stale", "over"}]
                 B == [Imports!Objects -> {Imports!NoObject} \cup ImportObject]
                 C == [Imports!Ids -> 0..MaxObjects]
      <4>1. t \in [session : A, obj : B, table : C, dir : C] /\ u.obj \in B /\ u.table \in C /\ u.dir \in C
        BY <2>1, <2>2, <3>1
      <4> HIDE DEF A, B, C
      <4>2. [t EXCEPT !.obj = u.obj, !.table = u.table, !.dir = u.dir] \in [session : A, obj : B, table : C, dir : C]
        BY <4>1, TablesReplaced
      <4> QED BY <4>2 DEF A, B, C
    <3>3. QED
      BY <2>5, <3>2
  <2> HIDE DEF u
  <2> QED BY <2>4, <2>6 DEF Filed
<1> QED BY <1>9, <1>10

LEMMA PrunedReads ==
    ASSUME NEW t, Filed(t), NEW u, Pruned(t, u)
    PROVE  Imports!Held(u) \subseteq Imports!Held(t) /\ (OneRuns(t) => OneRuns(u))
<1>1. Imports!Held(u) \subseteq Imports!Held(t) /\ Imports!Held(t) \subseteq Imports!Objects
  BY ImportBounds DEF Pruned, Imports!Held, Filed, Imports!Objects
<1> QED BY <1>1 DEF Pruned, OneRuns

LEMMA RevokedPrunes ==
    ASSUME NEW t, Filed(t), NEW S
    PROVE  Filed(Imports!Revoked(t, S)) /\ Pruned(t, Imports!Revoked(t, S))
<1> DEFINE v == [t EXCEPT !.session = [s \in Tabs |-> IF s \in S THEN "over" ELSE @[s]]]
<1>1. v.obj = t.obj /\ v.table = t.table /\ v.dir = t.dir /\ Filed(v)
  BY DEF Filed
<1>2. Imports!OwnedBy(t, S) \in SUBSET Imports!Held(v)
  BY <1>1 DEF Imports!OwnedBy, Imports!Held
<1>3. Filed(Imports!Removed(v, Imports!OwnedBy(t, S))) /\ Pruned(v, Imports!Removed(v, Imports!OwnedBy(t, S)))
  <2> HIDE DEF v
  <2> QED BY <1>1, <1>2, RemovedPrunes
<1>4. Imports!Revoked(t, S) = Imports!Removed(v, Imports!OwnedBy(t, S))
  BY DEF Imports!Revoked
<1> HIDE DEF v
<1> QED BY <1>1, <1>3, <1>4 DEF Pruned, Some, Running

LEMMA SweptPrunes ==
    ASSUME NEW t, Filed(t) PROVE Filed(Imports!Swept(t)) /\ Pruned(t, Imports!Swept(t))
<1> DEFINE u == Imports!Revoked(t, {s \in Tabs : t.session[s] = "stale"})
           K == Imports!OwnedBy(u, {s \in Tabs : u.session[s] = "over"})
                   \cup {k \in Imports!OwnedBy(u, Tabs) : u.obj[k].expired}
<1>1. Filed(u) /\ Pruned(t, u)
  BY RevokedPrunes
<1>2. K \in SUBSET Imports!Held(u)
  BY DEF Imports!OwnedBy, Imports!Held
<1>3. Imports!Swept(t) = Imports!Removed(u, K)
  BY DEF Imports!Swept
<1> HIDE DEF u, K
<1> QED BY <1>1, <1>2, <1>3, RemovedPrunes, PrunedTwice

-----------------------------------------------------------------------------
ImportsInv ==
    /\ Filed(Imports!Tables) /\ OneRuns(Imports!Tables)
    /\ asking \subseteq Tabs /\ ending \in {"no", "waiting", "closed"}
    /\ queue \in Seq(Imports!Objects) /\ \A n \in 1..Len(queue) : obj[queue[n]] # Imports!NoObject
    /\ worker \in [k : 0..MaxObjects, step : {"idle", "download", "rmtree", "pop"}]
    /\ worker.step = "idle" => worker = Imports!Idle
    /\ worker.step # "idle" => worker.k \in Imports!Objects /\ obj[worker.k] # Imports!NoObject

\* A job of a tab has an id of its own; a job that was not downloaded yet is the
\* one the thread has or waits for it; and behind run_cloud's last locked section the
\* directory of the thread's id is nobody's, or that of a job still to be downloaded.
TidyInv ==
    /\ \A k \in Imports!Objects : obj[k] # Imports!NoObject => Imports!IsCloud(k) \/ obj[k].id = Clouds + k
    /\ ending = "no" => \A i \in Imports!Ids :
          dir[i] # 0 => dir[i] = table[i] \/ dir[i] = worker.k \/ dir[i] \in Imports!Waiting
    /\ Imports!JobsAreIsolated
    /\ \A n \in 1..Len(queue) : /\ Imports!Downloads(queue[n]) /\ (worker.step # "idle" => queue[n] # worker.k)
                                /\ \A m \in 1..Len(queue) : queue[m] = queue[n] => m = n
    /\ worker.step = "download" => Imports!Downloads(worker.k)
    /\ worker.step \in {"rmtree", "pop"} => Imports!IsCloud(worker.k) /\ ~Imports!Downloads(worker.k)
    /\ worker.step = "pop" /\ dir[obj[worker.k].id] # 0 => Imports!Downloads(dir[obj[worker.k].id])
    /\ ending = "no" => \A k \in Imports!Objects :
          Imports!Downloads(k) => worker.k = k \/ k \in Imports!Waiting
    /\ ending # "no" => queue = <<>>
    /\ ending = "closed" => worker = Imports!Idle /\ \A i \in Imports!Ids : dir[i] = 0

LEMMA ImportsStart == Imports!Init => ImportsInv /\ TidyInv
<1> SUFFICES ASSUME Imports!Init PROVE ImportsInv /\ TidyInv
  OBVIOUS
<1> USE ImportBounds DEF Imports!Init
<1>1. Filed(Imports!Tables)
  BY DEF Filed, Imports!Tables, Imports!Ids
<1>2. OneRuns(Imports!Tables)
  BY DEF OneRuns, Imports!Tables, Imports!Held
<1>3. queue \in Seq(Imports!Objects) /\ Len(queue) = 0
  OBVIOUS
<1>4. ImportsInv
  BY <1>1, <1>2, <1>3 DEF ImportsInv, Imports!Idle
<1>5. \A k \in Imports!Objects : obj[k].state \notin Imports!Busy
  BY DEF Imports!NoObject, Imports!Busy
<1>6. TidyInv
  <2>1. \A k \in Imports!Objects : ~Imports!Downloads(k) /\ obj[k] = Imports!NoObject
    BY <1>5 DEF Imports!Downloads
  <2> QED BY <1>3, <2>1 DEF TidyInv, Imports!Idle, Imports!JobsAreIsolated, Imports!Downloads, Imports!IsCloud
<1> QED BY <1>4, <1>6

LEMMA StoredTables ==
    ASSUME NEW t, Filed(t), Imports!Store(t) PROVE Imports!Tables' = t
BY DEF Filed, Imports!Store, Imports!Tables

\* What is being downloaded has an id, and nothing that is pruned takes its place.
LEMMA Identified ==
    ASSUME ImportsInv, NEW k \in Imports!Objects, Imports!Downloads(k)
    PROVE  obj[k] # Imports!NoObject /\ obj[k] \in ImportObject /\ obj[k].id \in Imports!Ids
<1>1. obj[k] \in {Imports!NoObject} \cup ImportObject
  BY DEF ImportsInv, Filed, Imports!Tables
<1> QED BY <1>1 DEF Imports!Downloads, Imports!NoObject, Imports!Busy, ImportObject

LEMMA PrunedSpares ==
    ASSUME ImportsInv, NEW t, Pruned(Imports!Tables, t), NEW k \in Imports!Objects,
           Imports!Downloads(k), Imports!Whole(k)
    PROVE  t.table[obj[k].id] = k /\ t.dir[obj[k].id] = k /\ t.obj[k].id = obj[k].id
<1>1. obj[k].id \in Imports!Ids /\ table[obj[k].id] = k /\ dir[obj[k].id] = k
  BY Identified DEF Imports!Whole
<1> QED BY <1>1 DEF Pruned, Running, Imports!Tables, Imports!Downloads

LEMMA PrunedKeeps ==
    ASSUME ImportsInv, NEW t, Filed(t), Pruned(Imports!Tables, t), Imports!Store(t),
           asking' \subseteq Tabs, UNCHANGED <<queue, worker, ending>>
    PROVE  ImportsInv' /\ (TidyInv => TidyInv')
<1>1. Imports!Tables' = t
  BY StoredTables
<1>2. OneRuns(t)
  BY PrunedReads DEF ImportsInv
<1>3. \A k \in Imports!Objects :
        /\ obj'[k].id = obj[k].id /\ (obj'[k] # Imports!NoObject <=> obj[k] # Imports!NoObject)
        /\ obj'[k].state \in Imports!Busy <=> obj[k].state \in Imports!Busy
  BY DEF Imports!Store, Pruned, Some, Running, Imports!Tables
<1>4. \A n \in 1..Len(queue) : queue[n] \in Imports!Objects
  BY ElementOfSeq DEF ImportsInv
<1>5. ImportsInv'
  <2>1. Filed(Imports!Tables)' /\ OneRuns(Imports!Tables)'
    BY <1>1, <1>2 DEF Filed, OneRuns, Imports!Held, Running
  <2>2. \A n \in 1..Len(queue) : obj'[queue[n]] # Imports!NoObject
    BY <1>3, <1>4 DEF ImportsInv
  <2> QED BY <1>3, <2>1, <2>2 DEF ImportsInv
<1>6. ASSUME TidyInv PROVE TidyInv'
  <2> USE <1>6
  <2>1. \A i \in Imports!Ids :
          \/ table'[i] = table[i] /\ dir'[i] = dir[i]
          \/ table'[i] = 0 /\ dir'[i] = 0
    BY DEF Imports!Store, Pruned, Imports!Tables
  <2>2. \A k \in Imports!Objects : /\ obj'[k].state \in Imports!Busy <=> Imports!Downloads(k)
                                   /\ obj'[k].id \in Imports!CloudIds <=> Imports!IsCloud(k)
    BY <1>3 DEF Imports!Downloads, Imports!IsCloud
  <2>3. Imports!JobsAreIsolated'
    <3> SUFFICES ASSUME NEW k \in Imports!Objects, Imports!Downloads(k), ~Imports!IsCloud(k), ending # "closed"
                 PROVE  table'[obj'[k].id] = k /\ dir'[obj'[k].id] = k
      BY <2>2 DEF Imports!JobsAreIsolated, Imports!Whole, Imports!Downloads, Imports!IsCloud
    <3>1. Imports!Whole(k)
      BY DEF TidyInv, Imports!JobsAreIsolated, Imports!Downloads, Imports!IsCloud
    <3> QED BY <3>1, PrunedSpares DEF Imports!Store
  <2>4. ending = "no" => \A i \in Imports!Ids :
          dir'[i] # 0 => dir'[i] = table'[i] \/ dir'[i] = worker.k \/ dir'[i] \in Imports!Waiting
    BY <2>1 DEF TidyInv, Imports!Downloads, Imports!IsCloud
  <2>5. \A k \in Imports!Objects : obj'[k] # Imports!NoObject => obj'[k].id \in Imports!CloudIds \/ obj'[k].id = Clouds + k
    BY <1>3, <2>2 DEF TidyInv, Imports!Downloads, Imports!IsCloud
  <2>6. \A n \in 1..Len(queue) : /\ obj'[queue[n]].state \in Imports!Busy /\ (worker.step # "idle" => queue[n] # worker.k)
                                 /\ \A m \in 1..Len(queue) : queue[m] = queue[n] => m = n
    BY <1>4, <2>2 DEF TidyInv, Imports!Downloads, Imports!IsCloud
  <2>7. /\ worker.step = "download" => obj'[worker.k].state \in Imports!Busy
        /\ worker.step \in {"rmtree", "pop"} => obj'[worker.k].id \in Imports!CloudIds /\ obj'[worker.k].state \notin Imports!Busy
    BY <1>3, <2>2 DEF TidyInv, ImportsInv, Imports!Downloads, Imports!IsCloud
  <2>8. worker.step = "pop" /\ dir'[obj'[worker.k].id] # 0 => obj'[dir'[obj'[worker.k].id]].state \in Imports!Busy
    <3> SUFFICES ASSUME worker.step = "pop", dir'[obj'[worker.k].id] # 0
                 PROVE  obj'[dir'[obj'[worker.k].id]].state \in Imports!Busy
      OBVIOUS
    <3> DEFINE i == obj[worker.k].id
    <3>1. obj'[worker.k].id = i /\ i \in Imports!Ids
      BY <1>3 DEF TidyInv, ImportsInv, Imports!IsCloud, Imports!CloudIds, Imports!Ids, Filed, Imports!Tables,
          ImportObject, Imports!Downloads
    <3>2. dir'[i] = dir[i] /\ Imports!Downloads(dir[i]) /\ dir[i] \in 0..MaxObjects
      BY <2>1, <3>1 DEF TidyInv, ImportsInv, Filed, Imports!Tables, Imports!Downloads, Imports!IsCloud
    <3>3. dir[i] \in Imports!Objects
      BY <3>1, <3>2 DEF Imports!Objects
    <3> HIDE DEF i
    <3> QED BY <2>2, <3>1, <3>2, <3>3 DEF Imports!Downloads
  <2>9. ending = "no" => \A k \in Imports!Objects :
          obj'[k].state \in Imports!Busy => worker.k = k \/ k \in Imports!Waiting
    BY <2>2 DEF TidyInv, Imports!Downloads, Imports!IsCloud
  <2>10. ending = "closed" => worker = Imports!Idle /\ \A i \in Imports!Ids : dir'[i] = 0
    BY <2>1 DEF TidyInv, Imports!Downloads, Imports!IsCloud
  <2> QED BY <2>3, <2>4, <2>5, <2>6, <2>7, <2>8, <2>9, <2>10 DEF TidyInv, Imports!Waiting, Imports!Downloads,
      Imports!IsCloud
<1> QED BY <1>5, <1>6

LEMMA Accepted ==
    ASSUME ImportsInv, NEW s \in Tabs, NEW t, Filed(t), Pruned(Imports!Tables, t), ~Imports!Downloading(t),
           NEW id \in Imports!Ids, NEW k \in Imports!Unused, ending = "no", Imports!Accept(s, t, id, k)
    PROVE  ImportsInv' /\ (TidyInv /\ (id \in Imports!CloudIds \/ id = Clouds + k) => TidyInv')
<1> DEFINE o == [id |-> id, owner |-> s, state |-> "downloading", cancel |-> FALSE, expired |-> FALSE]
           u == [t EXCEPT !.obj[k] = o, !.table[id] = k, !.dir[id] = k]
<1> USE ImportBounds
<1>1. k \in Imports!Objects /\ obj[k] = Imports!NoObject /\ t.obj[k] = Imports!NoObject
  BY DEF Imports!Unused, Pruned, Some, Imports!Tables
<1>2. o \in ImportObject /\ o.id = id /\ o.state \in Imports!Busy /\ o # Imports!NoObject
  BY DEF ImportObject, Imports!Busy, Imports!NoObject, Imports!Ids
<1>3. /\ u.obj = [t.obj EXCEPT ![k] = o] /\ u.table = [t.table EXCEPT ![id] = k]
      /\ u.dir = [t.dir EXCEPT ![id] = k] /\ u.session = t.session
  BY DEF Filed
<1>4. /\ u.obj[k] = o /\ \A j \in Imports!Objects \ {k} : u.obj[j] = t.obj[j]
      /\ u.table[id] = k /\ u.dir[id] = k
      /\ \A i \in Imports!Ids \ {id} : u.table[i] = t.table[i] /\ u.dir[i] = t.dir[i]
  BY <1>1, <1>3 DEF Filed
<1>5. Filed(u)
  <2>1. u \in [session : [Tabs -> {"new", "live", "stale", "over"}],
               obj : [Imports!Objects -> {Imports!NoObject} \cup ImportObject],
               table : [Imports!Ids -> 0..MaxObjects], dir : [Imports!Ids -> 0..MaxObjects]]
    <3> DEFINE A == [Tabs -> {"new", "live", "stale", "over"}]
               B == [Imports!Objects -> {Imports!NoObject} \cup ImportObject]
               C == [Imports!Ids -> 0..MaxObjects]
    <3>1. t \in [session : A, obj : B, table : C, dir : C]
      BY DEF Filed
    <3>2. u.obj \in B
      BY <1>1, <1>2, <1>3, <3>1
    <3>3. u.table \in C /\ u.dir \in C
      BY <1>1, <1>3, <3>1 DEF Imports!Objects
    <3>4. u = [t EXCEPT !.obj = u.obj, !.table = u.table, !.dir = u.dir]
      BY <1>3, <3>1
    <3> HIDE DEF A, B, C, u
    <3>5. [t EXCEPT !.obj = u.obj, !.table = u.table, !.dir = u.dir] \in [session : A, obj : B, table : C, dir : C]
      BY <3>1, <3>2, <3>3, TablesReplaced
    <3> QED BY <3>4, <3>5 DEF A, B, C
  <2>2. \A i \in Imports!Ids : /\ t.table[i] # k /\ t.dir[i] # k
                               /\ t.table[i] # 0 => t.table[i] \in Imports!Objects /\ t.obj[t.table[i]].id = i
                               /\ t.dir[i] # 0 => t.dir[i] \in Imports!Objects /\ t.obj[t.dir[i]].id = i
    <3> TAKE i \in Imports!Ids
    <3>1. i # 0 /\ t.table[i] \in 0..MaxObjects /\ t.dir[i] \in 0..MaxObjects
      BY DEF Filed, Imports!Ids
    <3>2. t.table[i] # 0 => t.table[i] \in Imports!Objects /\ t.obj[t.table[i]].id = i
      BY <3>1 DEF Filed, Imports!Objects
    <3>3. t.dir[i] # 0 => t.dir[i] \in Imports!Objects /\ t.obj[t.dir[i]].id = i
      BY <3>1 DEF Filed, Imports!Objects
    <3>4. t.obj[k].id = 0 /\ k # 0
      BY <1>1 DEF Imports!NoObject, Imports!Objects
    <3> QED BY <3>1, <3>2, <3>3, <3>4
  <2>3. \A i \in Imports!Ids : /\ u.table[i] # 0 => u.obj[u.table[i]].id = i
                               /\ u.dir[i] # 0 => u.obj[u.dir[i]].id = i
    <3> HIDE DEF u, o
    <3> QED BY <1>2, <1>4, <2>2
  <2> HIDE DEF u
  <2> QED BY <2>1, <2>3 DEF Filed
<1>6. OneRuns(u)
  <2>1. \A j \in Imports!Held(u) : j = k \/ (j \in Imports!Held(t) /\ j \in Imports!Objects)
    <3> HIDE DEF u
    <3> QED BY <1>4 DEF Imports!Held, Filed, Imports!Objects
  <2>2. \A j \in Imports!Held(t) : ~Running(t, j)
    BY DEF Imports!Downloading, Running
  <2> HIDE DEF u
  <2> QED BY <1>4, <2>1, <2>2 DEF OneRuns, Running
<1>7. Imports!Tables' = u
  BY <1>5, StoredTables DEF Imports!Accept
<1>8. /\ obj'[k] = o /\ table'[id] = k /\ dir'[id] = k
      /\ \A j \in Imports!Objects \ {k} : obj'[j] = t.obj[j]
      /\ \A i \in Imports!Ids \ {id} : table'[i] = t.table[i] /\ dir'[i] = t.dir[i]
  BY <1>4 DEF Imports!Accept, Imports!Store
<1>9. \A j \in Imports!Objects :
        /\ t.obj[j].id = obj[j].id /\ (t.obj[j] # Imports!NoObject <=> obj[j] # Imports!NoObject)
        /\ t.obj[j].state \in Imports!Busy <=> obj[j].state \in Imports!Busy
  BY DEF Pruned, Some, Running, Imports!Tables
<1>10. \A n \in 1..Len(queue) : queue[n] \in Imports!Objects
  BY ElementOfSeq DEF ImportsInv
<1>11. /\ queue' = Append(queue, k) /\ queue' \in Seq(Imports!Objects) /\ Len(queue') = Len(queue) + 1
       /\ queue'[Len(queue) + 1] = k /\ \A n \in 1..Len(queue) : queue'[n] = queue[n]
       /\ Len(queue) \in Nat
  BY <1>1, AppendProperties, LenProperties DEF Imports!Accept, ImportsInv
<1>12. asking' \subseteq Tabs /\ UNCHANGED <<worker, ending>>
  BY DEF Imports!Accept, ImportsInv
<1> HIDE DEF u, o
<1>13. \A j \in Imports!Objects : obj[j] # Imports!NoObject => obj'[j] # Imports!NoObject
  BY <1>2, <1>8, <1>9
<1>14. ImportsInv'
  <2>1. Filed(Imports!Tables)' /\ OneRuns(Imports!Tables)'
    BY <1>5, <1>6, <1>7 DEF Filed, OneRuns, Imports!Held, Running
  <2>2. \A n \in 1..Len(queue') : obj'[queue'[n]] # Imports!NoObject
    <3> TAKE n \in 1..Len(queue')
    <3>1. CASE n = Len(queue) + 1
      BY <1>2, <1>8, <1>11, <3>1
    <3>2. CASE n \in 1..Len(queue)
      BY <1>10, <1>11, <1>13, <3>2 DEF ImportsInv
    <3> QED BY <1>11, <3>1, <3>2
  <2>3. worker.step # "idle" => worker.k \in Imports!Objects /\ obj'[worker.k] # Imports!NoObject
    BY <1>13 DEF ImportsInv
  <2> QED BY <1>11, <1>12, <2>1, <2>2, <2>3 DEF ImportsInv
<1>15. ASSUME TidyInv, id \in Imports!CloudIds \/ id = Clouds + k PROVE TidyInv'
  <2> USE <1>15
  <2>1. \A j \in Imports!Objects \ {k} : /\ obj'[j].state \in Imports!Busy <=> Imports!Downloads(j)
                                         /\ obj'[j].id \in Imports!CloudIds <=> Imports!IsCloud(j)
                                         /\ obj'[j].id = obj[j].id
    BY <1>8, <1>9 DEF Imports!Downloads, Imports!IsCloud
  <2>2. obj'[k].state \in Imports!Busy /\ (obj'[k].id \in Imports!CloudIds \/ obj'[k].id = Clouds + k) /\ obj'[k].id = id /\ ~Imports!Downloads(k)
    BY <1>1, <1>2, <1>8 DEF Imports!Downloads, Imports!IsCloud, Imports!NoObject, Imports!Busy
  <2>3. \A j \in Imports!Objects : obj'[j] # Imports!NoObject => obj'[j].id \in Imports!CloudIds \/ obj'[j].id = Clouds + j
    BY <1>8, <1>9, <2>1, <2>2 DEF TidyInv, Imports!Downloads, Imports!IsCloud
  <2>4. \A x \in Imports!Waiting : x \in Imports!Waiting'
    BY <1>11 DEF Imports!Waiting
  <2>5. k \in Imports!Waiting'
    <3>1. Len(queue) + 1 \in 1..Len(queue')
      BY <1>11
    <3> QED BY <1>11, <3>1 DEF Imports!Waiting
  <2>6. \A i \in Imports!Ids :
          dir'[i] # 0 => dir'[i] = table'[i] \/ dir'[i] = worker'.k \/ dir'[i] \in Imports!Waiting'
    <3>1. \A i \in Imports!Ids : t.dir[i] # 0 => t.dir[i] = t.table[i] \/ t.dir[i] = worker.k \/ t.dir[i] \in Imports!Waiting
      BY DEF TidyInv, Pruned, Imports!Tables, Imports!Downloads, Imports!IsCloud
    <3> QED BY <1>8, <1>12, <2>4, <3>1
  <2>7. Imports!JobsAreIsolated'
    <3> SUFFICES ASSUME NEW j \in Imports!Objects, obj'[j].state \in Imports!Busy, obj'[j].id \notin Imports!CloudIds
                 PROVE  Imports!Whole(j)'
      BY DEF Imports!JobsAreIsolated, Imports!Downloads, Imports!IsCloud
    <3>1. CASE j = k
      BY <1>8, <2>2, <3>1 DEF Imports!Whole
    <3>2. CASE j # k
      <4>1. Imports!Downloads(j) /\ ~Imports!IsCloud(j) /\ obj'[j].id = obj[j].id
        BY <2>1, <3>2
      <4>2. Imports!Whole(j)
        BY <4>1 DEF TidyInv, Imports!JobsAreIsolated, Imports!Downloads, Imports!IsCloud
      <4>3. t.table[obj[j].id] = j /\ t.dir[obj[j].id] = j /\ obj[j].id \in Imports!Ids
        BY <4>1, <4>2, PrunedSpares, Identified
      <4>4. obj[j].id = Clouds + j
        BY <4>1, Identified DEF TidyInv, Imports!Downloads, Imports!IsCloud
      <4>5. obj[j].id # id
        BY <3>2, <4>1, <4>4 DEF Imports!IsCloud, Imports!Unused, Imports!Objects
      <4> QED BY <1>8, <4>1, <4>3, <4>5 DEF Imports!Whole
    <3> QED BY <3>1, <3>2
  <2>8. \A n \in 1..Len(queue) : queue[n] # k /\ Imports!Downloads(queue[n])
    BY <2>2 DEF TidyInv, Imports!Downloads, Imports!IsCloud
  <2>9. \A n \in 1..Len(queue') : /\ obj'[queue'[n]].state \in Imports!Busy /\ (worker'.step # "idle" => queue'[n] # worker'.k)
                                  /\ \A m \in 1..Len(queue') : queue'[m] = queue'[n] => m = n
    <3>1. worker.step # "idle" => worker.k # k
      BY <1>1 DEF ImportsInv
    <3>2. \A n \in 1..Len(queue') : n \in 1..Len(queue) \/ n = Len(queue) + 1
      BY <1>11
    <3>3. \A n \in 1..Len(queue) : queue[n] \in Imports!Objects \ {k}
      BY <1>10, <2>8
    <3>4. ASSUME NEW n \in 1..Len(queue') PROVE obj'[queue'[n]].state \in Imports!Busy
      <4>1. CASE n \in 1..Len(queue)
        <5>1. queue'[n] = queue[n] /\ obj'[queue[n]].state \in Imports!Busy 
          BY <1>11, <2>1, <2>8, <3>3, <4>1
        <5> QED BY <5>1 DEF Imports!Downloads
      <4>2. CASE n = Len(queue) + 1
        BY <1>11, <2>2, <4>2 DEF Imports!Downloads
      <4> QED BY <3>2, <4>1, <4>2
    <3>5. \A n \in 1..Len(queue') : worker'.step # "idle" => queue'[n] # worker'.k
      BY <1>11, <1>12, <3>1, <3>2 DEF TidyInv, Imports!Downloads, Imports!IsCloud
    <3>6. \A n, m \in 1..Len(queue') : queue'[m] = queue'[n] => m = n
      BY <1>11, <2>8, <3>2 DEF TidyInv, Imports!Downloads, Imports!IsCloud
    <3> QED BY <3>4, <3>5, <3>6
  <2>10. worker.step # "idle" => worker.k \in Imports!Objects \ {k}
    BY <1>1 DEF ImportsInv
  <2>11. /\ worker'.step = "download" => obj'[worker'.k].state \in Imports!Busy
         /\ worker'.step \in {"rmtree", "pop"} => obj'[worker'.k].id \in Imports!CloudIds /\ obj'[worker'.k].state \notin Imports!Busy
    <3>1. /\ worker.step = "download" => obj'[worker.k].state \in Imports!Busy
          /\ worker.step \in {"rmtree", "pop"} => obj'[worker.k].id \in Imports!CloudIds /\ obj'[worker.k].state \notin Imports!Busy
      BY <2>1, <2>10 DEF TidyInv, Imports!Downloads, Imports!IsCloud
    <3> QED BY <1>12, <3>1 DEF Imports!Downloads, Imports!IsCloud
  <2>12. worker'.step = "pop" /\ dir'[obj'[worker'.k].id] # 0 => obj'[dir'[obj'[worker'.k].id]].state \in Imports!Busy
    <3> SUFFICES ASSUME worker.step = "pop", dir'[obj'[worker.k].id] # 0
                 PROVE  obj'[dir'[obj'[worker.k].id]].state \in Imports!Busy
      BY <1>12
    <3> DEFINE i == obj[worker.k].id
    <3>1. obj'[worker.k].id = i /\ i \in Imports!Ids
      BY <2>1, <2>10 DEF TidyInv, ImportsInv, Imports!IsCloud, Imports!CloudIds, Imports!Ids, Filed,
          Imports!Tables, ImportObject, Imports!Downloads
    <3> HIDE DEF i
    <3>2. CASE i = id
      BY <1>8, <2>2, <3>1, <3>2 DEF Imports!Downloads
    <3>3. CASE i # id
      <4>1. dir'[i] = t.dir[i] /\ t.dir[i] # 0
        BY <1>8, <3>1, <3>3
      <4>2. dir[i] = t.dir[i] /\ dir[i] \in 0..MaxObjects
        BY <3>1, <4>1 DEF Pruned, Imports!Tables, ImportsInv, Filed
      <4>3. Imports!Downloads(dir[i]) /\ dir[i] \in Imports!Objects
        BY <4>1, <4>2 DEF TidyInv, Imports!Objects, i, Imports!Downloads, Imports!IsCloud
      <4>4. dir[i] # k
        BY <2>2, <4>3
      <4> QED BY <2>1, <3>1, <4>1, <4>2, <4>3, <4>4 DEF Imports!Downloads
    <3> QED BY <3>2, <3>3
  <2>13. \A j \in Imports!Objects : obj'[j].state \in Imports!Busy => worker'.k = j \/ j \in Imports!Waiting'
    BY <1>12, <2>1, <2>4, <2>5 DEF TidyInv, Imports!Downloads, Imports!IsCloud
  <2> QED BY <1>12, <2>3, <2>6, <2>7, <2>9, <2>11, <2>12, <2>13 DEF TidyInv, Imports!Downloads, Imports!IsCloud
<1> QED BY <1>14, <1>15

LEMMA LeastOf ==
    ASSUME NEW S, S \subseteq Nat, S # {}
    PROVE  \E n \in S : \A k \in S : n <= k
<1> DEFINE R == {p \in Nat \X Nat : p[1] < p[2]}
<1>1. IsWellFoundedOn(R, Nat)
  BY NatLessThanWellFounded, Zenon DEF OpToRel
<1>2. PICK n \in S : \A k \in S : ~(<<k, n>> \in R)
  <2> HIDE DEF R
  <2> QED BY <1>1, WFMin
<1>3. ASSUME NEW k \in Nat, NEW l \in Nat, ~(<<k, l>> \in R) PROVE l <= k
  BY <1>3
<1> HIDE DEF R
<1> QED BY <1>2, <1>3

LEMMA NextIsUnused == Imports!Unused # {} => Imports!NextObject \in Imports!Unused
<1> SUFFICES ASSUME Imports!Unused # {} PROVE Imports!NextObject \in Imports!Unused
  OBVIOUS
<1>1. Imports!Unused \subseteq Nat
  BY DEF Imports!Unused, Imports!Objects
<1>2. \E n \in Imports!Unused : \A k \in Imports!Unused : n <= k
  BY <1>1, LeastOf
<1> QED BY <1>2 DEF Imports!NextObject

LEMMA SweepPrunes ==
    ImportsInv => Filed(Imports!Swept(Imports!Tables)) /\ Pruned(Imports!Tables, Imports!Swept(Imports!Tables))
BY SweptPrunes DEF ImportsInv

\* A request prunes the tables or files one job more.
LEMMA RequestsKeep ==
    ASSUME ImportsInv, NEW s \in Tabs,
           \/ Imports!Pair(s) \/ Imports!Authenticate(s) \/ Imports!Start(s) \/ Imports!Disconnect(s)
           \/ \E k \in Imports!Objects : Imports!Delete(s, k)
    PROVE  ImportsInv' /\ (TidyInv => TidyInv')
<1> DEFINE t == Imports!Swept(Imports!Tables)
<1>1. Filed(t) /\ Pruned(Imports!Tables, t)
  BY SweepPrunes
<1>2. Filed(Imports!Tables)
  BY DEF ImportsInv
<1> HIDE DEF t
<1>3. CASE Imports!Pair(s)
  <2>1. PICK old \in SUBSET {o \in Tabs : session[o] \in {"live", "stale"}} :
          Imports!Store([Imports!Revoked(t, old) EXCEPT !.session[s] = "live"])
    BY <1>3 DEF Imports!Pair, t
  <2> DEFINE r == Imports!Revoked(t, old)
             u == [r EXCEPT !.session[s] = "live"]
  <2>2. Filed(r) /\ Pruned(Imports!Tables, r)
    BY <1>1, RevokedPrunes, PrunedTwice
  <2> HIDE DEF r
  <2>3. u.obj = r.obj /\ u.table = r.table /\ u.dir = r.dir /\ Filed(u)
    BY <2>2 DEF Filed
  <2>4. Pruned(Imports!Tables, u)
    BY <2>2, <2>3 DEF Pruned, Some, Running
  <2>5. Imports!Store(u) /\ asking' \subseteq Tabs /\ UNCHANGED <<queue, worker, ending>>
    BY <1>3, <2>1 DEF Imports!Pair, ImportsInv, r
  <2> HIDE DEF u
  <2> QED BY <2>3, <2>4, <2>5, PrunedKeeps
<1>4. CASE Imports!Authenticate(s)
  <2>1. Imports!Store(Imports!Tables) /\ asking' \subseteq Tabs /\ UNCHANGED <<queue, worker, ending>>
    BY <1>4 DEF Imports!Authenticate, Imports!Store, Imports!Tables, ImportsInv
  <2>2. Pruned(Imports!Tables, Imports!Tables)
    BY DEF Pruned
  <2> QED BY <1>2, <2>1, <2>2, PrunedKeeps
<1>5. CASE Imports!Start(s)
  <2>1. CASE Imports!Refuse(s, t)
    <3>1. Imports!Store(t) /\ asking' \subseteq Tabs /\ UNCHANGED <<queue, worker, ending>>
      BY <2>1 DEF Imports!Refuse, ImportsInv
    <3> QED BY <1>1, <3>1, PrunedKeeps
  <2>2. CASE /\ ending = "no" /\ ~Imports!Downloading(t) /\ Imports!Unused # {}
             /\ Imports!Accept(s, t, Clouds + Imports!NextObject, Imports!NextObject)
    <3>1. Imports!NextObject \in Imports!Unused
      BY <2>2, NextIsUnused
    <3>2. Clouds + Imports!NextObject \in Imports!Ids
      BY <3>1, ImportBounds DEF Imports!Unused, Imports!Objects, Imports!Ids
    <3> QED BY <1>1, <2>2, <3>1, <3>2, Accepted
  <2> QED BY <1>5, <2>1, <2>2 DEF Imports!Start, t
<1>6. CASE Imports!Disconnect(s)
  <2>1. Filed(Imports!Revoked(Imports!Tables, {s})) /\ Pruned(Imports!Tables, Imports!Revoked(Imports!Tables, {s}))
    BY <1>2, RevokedPrunes
  <2>2. Imports!Store(Imports!Revoked(Imports!Tables, {s})) /\ asking' \subseteq Tabs /\ UNCHANGED <<queue, worker, ending>>
    BY <1>6 DEF Imports!Disconnect, Imports!Refuse, ImportsInv
  <2> QED BY <2>1, <2>2, PrunedKeeps
<1>7. ASSUME NEW k \in Imports!Objects, Imports!Delete(s, k) PROVE ImportsInv' /\ (TidyInv => TidyInv')
  <2>1. {k} \in SUBSET Imports!Held(Imports!Tables)
    BY <1>7 DEF Imports!Delete, Imports!Kept, Imports!Held, Imports!Tables
  <2>2. Filed(Imports!Removed(Imports!Tables, {k})) /\ Pruned(Imports!Tables, Imports!Removed(Imports!Tables, {k}))
    BY <1>2, <2>1, RemovedPrunes
  <2>3. Imports!Store(Imports!Removed(Imports!Tables, {k})) /\ asking' \subseteq Tabs /\ UNCHANGED <<queue, worker, ending>>
    BY <1>7 DEF Imports!Delete, Imports!Refuse, ImportsInv
  <2> QED BY <2>2, <2>3, PrunedKeeps
<1> QED BY <1>3, <1>4, <1>5, <1>6, <1>7

LEMMA SweepKeeps ==
    ASSUME ImportsInv, Imports!Sweep PROVE ImportsInv' /\ (TidyInv => TidyInv')
<1>1. Filed(Imports!Swept(Imports!Tables)) /\ Pruned(Imports!Tables, Imports!Swept(Imports!Tables))
  BY SweepPrunes
<1>2. Imports!Store(Imports!Swept(Imports!Tables)) /\ asking' \subseteq Tabs /\ UNCHANGED <<queue, worker, ending>>
  BY DEF Imports!Sweep, ImportsInv
<1> QED BY <1>1, <1>2, PrunedKeeps

LEMMA CloudRequestsKeep ==
    ASSUME ImportsInv, NEW s \in Tabs, NEW id \in Imports!CloudIds, Imports!StartCloud(s, id)
    PROVE  ImportsInv' /\ (TidyInv => TidyInv')
<1> DEFINE t == Imports!Swept(Imports!Tables)
<1>1. Filed(t) /\ Pruned(Imports!Tables, t)
  BY SweepPrunes
<1> HIDE DEF t
<1>2. CASE Imports!Refuse(s, t)
  <2>1. Imports!Store(t) /\ asking' \subseteq Tabs /\ UNCHANGED <<queue, worker, ending>>
    BY <1>2 DEF Imports!Refuse, ImportsInv
  <2> QED BY <1>1, <2>1, PrunedKeeps
<1>3. CASE /\ ending = "no" /\ ~Imports!Downloading(t) /\ Imports!Unused # {}
           /\ Imports!Accept(s, t, id, Imports!NextObject)
  <2>1. Imports!NextObject \in Imports!Unused /\ id \in Imports!Ids
    BY <1>3, NextIsUnused, ImportBounds DEF Imports!CloudIds, Imports!Ids
  <2> QED BY <1>1, <1>3, <2>1, Accepted
<1> QED BY <1>2, <1>3 DEF Imports!StartCloud, t

LEMMA TimeKeeps ==
    ASSUME ImportsInv, \/ \E s \in Tabs : Imports!SessionExpires(s)
                       \/ \E k \in Imports!Objects : Imports!JobExpires(k)
    PROVE  ImportsInv' /\ (TidyInv => TidyInv')
<1> DEFINE u == Imports!Tables'
<1>1. Filed(Imports!Tables)
  BY DEF ImportsInv
<1>2. u.session = session' /\ u.obj = obj' /\ u.table = table' /\ u.dir = dir'
      /\ u = [session |-> session', obj |-> obj', table |-> table', dir |-> dir']
  BY DEF Imports!Tables
<1>3. Imports!Store(u) /\ asking' \subseteq Tabs /\ UNCHANGED <<queue, worker, ending>>
  <2>1. Imports!Store(u)
    BY <1>2 DEF Imports!Store
  <2> QED BY <2>1 DEF Imports!SessionExpires, Imports!JobExpires, ImportsInv
<1>4. CASE \E s \in Tabs : Imports!SessionExpires(s)
  <2>1. session' \in [Tabs -> {"new", "live", "stale", "over"}] /\ UNCHANGED <<obj, table, dir>>
    BY <1>1, <1>4 DEF Imports!SessionExpires, Filed, Imports!Tables
  <2>2. Filed(u) /\ Pruned(Imports!Tables, u)
    <3> HIDE DEF u
    <3> QED BY <1>1, <1>2, <2>1 DEF Filed, Pruned, Some, Running, Imports!Tables
  <2> HIDE DEF u
  <2> QED BY <1>3, <2>2, PrunedKeeps
<1>5. ASSUME NEW k \in Imports!Objects, Imports!JobExpires(k) PROVE ImportsInv' /\ (TidyInv => TidyInv')
  <2>1. /\ obj' = [obj EXCEPT ![k].expired = TRUE] /\ obj[k] # Imports!NoObject
        /\ UNCHANGED <<session, table, dir>>
        /\ obj \in [Imports!Objects -> {Imports!NoObject} \cup ImportObject]
    BY <1>1, <1>5 DEF Imports!JobExpires, Filed, Imports!Tables
  <2>2. /\ obj'[k] \in ImportObject /\ obj'[k].id = obj[k].id /\ obj'[k].state = obj[k].state
        /\ obj'[k] # Imports!NoObject
    BY <2>1 DEF ImportObject, Imports!NoObject, Imports!Ids
  <2>3. /\ \A j \in Imports!Objects \ {k} : obj'[j] = obj[j]
        /\ obj' \in [Imports!Objects -> {Imports!NoObject} \cup ImportObject]
    BY <2>1, <2>2
  <2>4. Pruned(Imports!Tables, u)
    <3> HIDE DEF u
    <3> QED BY <1>2, <2>1, <2>2, <2>3 DEF Pruned, Some, Running, Imports!Tables
  <2>5. \A j \in Imports!Objects : obj'[j].id = obj[j].id
    BY <2>2, <2>3
  <2>6. Filed(u)
    <3> HIDE DEF u
    <3> QED BY <1>1, <1>2, <2>1, <2>3, <2>5 DEF Filed, Imports!Tables, Imports!Objects
  <2> HIDE DEF u
  <2> QED BY <1>3, <2>4, <2>6, PrunedKeeps
<1> QED BY <1>4, <1>5

LEMMA BeginKeeps ==
    ASSUME ImportsInv, Imports!Begin PROVE ImportsInv' /\ (TidyInv => TidyInv')
<1>1. /\ queue \in Seq(Imports!Objects) /\ queue # <<>> /\ queue' = Tail(queue) /\ worker = Imports!Idle
      /\ worker' = [k |-> Head(queue), step |-> "download"]
      /\ UNCHANGED <<session, asking, obj, table, dir, ending>>
  BY DEF ImportsInv, Imports!Begin
<1>2. /\ 1 \in 1..Len(queue) /\ Head(queue) = queue[1] /\ queue[1] \in Imports!Objects
      /\ queue' \in Seq(Imports!Objects) /\ Len(queue') = Len(queue) - 1 /\ Len(queue) \in Nat
      /\ \A n \in 1..Len(queue') : queue'[n] = queue[n + 1]
  BY <1>1
<1>3. ImportsInv'
  <2>1. Filed(Imports!Tables)' /\ OneRuns(Imports!Tables)'
    BY <1>1 DEF ImportsInv, Filed, OneRuns, Imports!Held, Running, Imports!Tables
  <2>2. \A n \in 1..Len(queue') : obj'[queue'[n]] # Imports!NoObject
    BY <1>1, <1>2 DEF ImportsInv
  <2>3. worker'.k \in Imports!Objects /\ obj'[worker'.k] # Imports!NoObject /\ worker'.step = "download"
        /\ worker' \in [k : 0..MaxObjects, step : {"idle", "download", "rmtree", "pop"}]
    BY <1>1, <1>2 DEF ImportsInv, Imports!Objects
  <2> QED BY <1>1, <1>2, <2>1, <2>2, <2>3 DEF ImportsInv
<1>4. ASSUME TidyInv PROVE TidyInv'
  <2> USE <1>4
  <2>1. ending = "no" /\ worker.k = 0 /\ worker.step = "idle"
    BY <1>1, <1>2 DEF TidyInv, Imports!Idle, ImportsInv, Imports!Downloads, Imports!IsCloud
  <2>2. worker'.k = queue[1] /\ worker'.step = "download"
    BY <1>1, <1>2
  <2>3. \A x \in Imports!Waiting : x = worker'.k \/ x \in Imports!Waiting'
    <3> SUFFICES ASSUME NEW n \in 1..Len(queue), n # 1 PROVE queue[n] \in Imports!Waiting'
      BY <2>2 DEF Imports!Waiting
    <3>1. n - 1 \in 1..Len(queue') /\ queue'[n - 1] = queue[n]
      BY <1>2
    <3> QED BY <3>1 DEF Imports!Waiting
  <2>4. \A i \in Imports!Ids :
          dir'[i] # 0 => dir'[i] = table'[i] \/ dir'[i] = worker'.k \/ dir'[i] \in Imports!Waiting'
    BY <1>1, <2>1, <2>3 DEF TidyInv, Imports!Downloads, Imports!IsCloud
  <2>5. Imports!JobsAreIsolated'
    BY <1>1 DEF TidyInv, Imports!JobsAreIsolated, Imports!Downloads, Imports!IsCloud, Imports!Whole
  <2>6. \A n \in 1..Len(queue) : obj'[queue[n]].state \in Imports!Busy /\ \A m \in 1..Len(queue) : queue[m] = queue[n] => m = n
    BY <1>1 DEF TidyInv, Imports!Downloads, Imports!IsCloud
  <2>7. ASSUME NEW n \in 1..Len(queue')
        PROVE  /\ obj'[queue'[n]].state \in Imports!Busy /\ (worker'.step # "idle" => queue'[n] # worker'.k)
               /\ \A m \in 1..Len(queue') : queue'[m] = queue'[n] => m = n
    <3>1. \A m \in 1..Len(queue') : m + 1 \in 1..Len(queue) /\ m + 1 # 1 /\ queue'[m] = queue[m + 1] /\ m \in Nat
      BY <1>2
    <3>2. obj'[queue'[n]].state \in Imports!Busy
      BY <2>6, <3>1 DEF Imports!Downloads
    <3>3. queue'[n] # worker'.k
      BY <1>2, <2>2, <2>6, <3>1
    <3>4. ASSUME NEW m \in 1..Len(queue'), queue'[m] = queue'[n] PROVE m = n
      <4>1. m + 1 = n + 1 /\ m \in Nat /\ n \in Nat
        BY <2>6, <3>1, <3>4
      <4> QED BY <4>1
    <3> QED BY <3>2, <3>3, <3>4
  <2>8. obj'[worker'.k].state \in Imports!Busy
    BY <1>2, <2>2, <2>6 DEF Imports!Downloads
  <2>9. \A k \in Imports!Objects : obj'[k].state \in Imports!Busy => worker'.k = k \/ k \in Imports!Waiting'
    BY <1>1, <2>1, <2>3 DEF TidyInv, Imports!Downloads, Imports!Objects, Imports!IsCloud
  <2>10. \A k \in Imports!Objects : obj'[k] # Imports!NoObject => obj'[k].id \in Imports!CloudIds \/ obj'[k].id = Clouds + k
    BY <1>1 DEF TidyInv, Imports!IsCloud, Imports!Downloads
  <2> QED BY <1>1, <2>1, <2>2, <2>4, <2>5, <2>7, <2>8, <2>9, <2>10 DEF TidyInv, Imports!Downloads, Imports!IsCloud
<1> QED BY <1>3, <1>4

\* Jobs end or are told to stop, and entries go: the tables stay in order.
LEMMA ThinnedTables ==
    ASSUME ImportsInv, session' = session,
           obj' \in [Imports!Objects -> {Imports!NoObject} \cup ImportObject],
           \A k \in Imports!Objects : /\ obj'[k].id = obj[k].id
                                      /\ obj'[k].state \in Imports!Busy => obj[k].state \in Imports!Busy,
           table' \in [Imports!Ids -> 0..MaxObjects], dir' \in [Imports!Ids -> 0..MaxObjects],
           \A i \in Imports!Ids : table'[i] \in {0, table[i]} /\ dir'[i] \in {0, dir[i]}
    PROVE  Filed(Imports!Tables)' /\ OneRuns(Imports!Tables)'
<1> DEFINE t == Imports!Tables
           u == [session |-> session', obj |-> obj', table |-> table', dir |-> dir']
<1>1. Filed(t) /\ OneRuns(t)
  BY DEF ImportsInv
<1>2. t.session = session /\ t.obj = obj /\ t.table = table /\ t.dir = dir
  BY DEF Imports!Tables
<1>3. u.session = session' /\ u.obj = obj' /\ u.table = table' /\ u.dir = dir' /\ t' = u
  BY DEF Imports!Tables
<1>4. u \in [session : [Tabs -> {"new", "live", "stale", "over"}],
             obj : [Imports!Objects -> {Imports!NoObject} \cup ImportObject],
             table : [Imports!Ids -> 0..MaxObjects], dir : [Imports!Ids -> 0..MaxObjects]]
  <2>1. session' \in [Tabs -> {"new", "live", "stale", "over"}]
    BY <1>1, <1>2 DEF Filed
  <2> QED BY <2>1
<1> HIDE DEF t, u
<1>5. \A i \in Imports!Ids : /\ u.table[i] # 0 => u.table[i] = t.table[i] /\ u.table[i] \in Imports!Objects
                             /\ u.dir[i] # 0 => u.dir[i] = t.dir[i] /\ u.dir[i] \in Imports!Objects
  BY <1>2, <1>3 DEF Imports!Objects
<1>6. Filed(u)
  BY <1>1, <1>2, <1>3, <1>4, <1>5 DEF Filed
<1>7. OneRuns(u)
  <2>1. \A j \in Imports!Held(u) : j \in Imports!Held(t) /\ j \in Imports!Objects
    BY <1>5 DEF Imports!Held
  <2> QED BY <1>1, <1>2, <1>3, <2>1 DEF OneRuns, Running
<1> QED BY <1>3, <1>6, <1>7 DEF t, Filed, OneRuns, Imports!Held, Running

LEMMA Settling ==
    ASSUME ImportsInv, NEW k \in Imports!Objects, obj[k] # Imports!NoObject,
           NEW state \in {"ready", "failed", "cancelled"}, Imports!Settled(k, state)
    PROVE  /\ obj' \in [Imports!Objects -> {Imports!NoObject} \cup ImportObject]
           /\ \A j \in Imports!Objects : /\ obj'[j].id = obj[j].id
                                         /\ obj'[j].state \in Imports!Busy => obj[j].state \in Imports!Busy /\ j # k
                                         /\ obj'[j] # Imports!NoObject <=> obj[j] # Imports!NoObject
           /\ \A j \in Imports!Objects \ {k} : obj'[j] = obj[j]
           /\ obj'[k].state = state
<1>1. obj \in [Imports!Objects -> {Imports!NoObject} \cup ImportObject]
  BY DEF ImportsInv, Filed, Imports!Tables
<1>2. obj' = [obj EXCEPT ![k].state = state] /\ obj[k] \in ImportObject
  BY <1>1 DEF Imports!Settled
<1>3. /\ obj'[k] \in ImportObject /\ obj'[k].id = obj[k].id /\ obj'[k].state = state
      /\ obj'[k] # Imports!NoObject /\ state \notin Imports!Busy
  BY <1>1, <1>2 DEF ImportObject, Imports!NoObject, Imports!Ids, Imports!Busy
<1>4. \A j \in Imports!Objects \ {k} : obj'[j] = obj[j]
  BY <1>1, <1>2
<1>5. obj' \in [Imports!Objects -> {Imports!NoObject} \cup ImportObject]
  BY <1>1, <1>2, <1>3
<1> QED BY <1>3, <1>4, <1>5

LEMMA FinishLocalKeeps ==
    ASSUME ImportsInv, Imports!FinishLocal PROVE ImportsInv' /\ (TidyInv => TidyInv')
<1> DEFINE k == worker.k
           i == obj[k].id
<1>1. k \in Imports!Objects /\ obj[k] # Imports!NoObject /\ worker.step = "download"
  BY DEF ImportsInv, Imports!FinishLocal
<1>2. i \in Imports!Ids
  BY <1>1 DEF ImportsInv, Filed, Imports!Tables, ImportObject
<1>3. PICK state \in {"ready", "failed", "cancelled"} :
        /\ Imports!Settled(k, state)
        /\ \/ state = "ready" /\ dir[i] = k /\ UNCHANGED <<dir, table>>
           \/ /\ dir' = [dir EXCEPT ![i] = 0]
              /\ table' = [table EXCEPT ![i] = 0] \/ table' = table
  BY DEF Imports!FinishLocal, Imports!RmTree, Imports!Drop
<1>4. worker' = Imports!Idle /\ UNCHANGED <<session, asking, queue, ending>>
  BY DEF Imports!FinishLocal
<1>5. /\ obj' \in [Imports!Objects -> {Imports!NoObject} \cup ImportObject]
      /\ \A j \in Imports!Objects : /\ obj'[j].id = obj[j].id
                                    /\ obj'[j].state \in Imports!Busy => obj[j].state \in Imports!Busy /\ j # k
                                    /\ obj'[j] # Imports!NoObject <=> obj[j] # Imports!NoObject
      /\ \A j \in Imports!Objects \ {k} : obj'[j] = obj[j]
  BY <1>1, <1>3, Settling
<1>6. table \in [Imports!Ids -> 0..MaxObjects] /\ dir \in [Imports!Ids -> 0..MaxObjects] /\ 0 \in 0..MaxObjects
  BY ImportBounds DEF ImportsInv, Filed, Imports!Tables
<1>7. /\ table' \in [Imports!Ids -> 0..MaxObjects] /\ dir' \in [Imports!Ids -> 0..MaxObjects]
      /\ \A n \in Imports!Ids : table'[n] \in {0, table[n]} /\ dir'[n] \in {0, dir[n]}
      /\ \A n \in Imports!Ids \ {i} : table'[n] = table[n] /\ dir'[n] = dir[n]
      /\ dir'[i] = 0 \/ (dir[i] = k /\ table'[i] = table[i])
  BY <1>2, <1>3, <1>6
<1>8. \A n \in 1..Len(queue) : queue[n] \in Imports!Objects
  BY ElementOfSeq DEF ImportsInv
<1>9. ImportsInv'
  <2>1. Filed(Imports!Tables)' /\ OneRuns(Imports!Tables)'
    BY <1>4, <1>5, <1>7, ThinnedTables
  <2>2. \A n \in 1..Len(queue) : obj'[queue[n]] # Imports!NoObject
    BY <1>5, <1>8 DEF ImportsInv
  <2>3. worker' \in [k : 0..MaxObjects, step : {"idle", "download", "rmtree", "pop"}]
    BY <1>4, <1>6 DEF Imports!Idle
  <2> QED BY <1>4, <2>1, <2>2, <2>3 DEF ImportsInv, Imports!Idle
<1>10. ASSUME TidyInv PROVE TidyInv'
  <2> USE <1>10
  <2>1. Imports!Downloads(k) /\ ~Imports!IsCloud(k) /\ ending # "closed" /\ i = Clouds + k /\ obj'[k].state \notin Imports!Busy
    BY <1>1, <1>5 DEF TidyInv, Imports!Idle, Imports!FinishLocal, Imports!Downloads, Imports!IsCloud
  <2>2. \A j \in Imports!Objects : /\ obj'[j].state \in Imports!Busy <=> Imports!Downloads(j) /\ j # k
                                   /\ obj'[j].id \in Imports!CloudIds <=> Imports!IsCloud(j)
    BY <1>5, <2>1 DEF Imports!Downloads, Imports!IsCloud
  <2>3. table[i] = k /\ dir[i] = k
    BY <1>1, <2>1 DEF TidyInv, Imports!JobsAreIsolated, Imports!Whole, Imports!Downloads, Imports!IsCloud
  <2>4. ending = "no" => \A n \in Imports!Ids : dir'[n] # 0 => dir'[n] = table'[n] \/ dir'[n] \in Imports!Waiting
    <3> SUFFICES ASSUME ending = "no", NEW n \in Imports!Ids, dir'[n] # 0
                 PROVE  dir'[n] = table'[n] \/ dir'[n] \in Imports!Waiting
      OBVIOUS
    <3>1. CASE n = i
      BY <1>7, <2>3, <3>1
    <3>2. CASE n # i
      <4>1. dir'[n] = dir[n] /\ table'[n] = table[n]
        BY <1>7, <3>2
      <4>2. dir[n] # 0 => dir[n] = table[n] \/ dir[n] = k \/ dir[n] \in Imports!Waiting
        BY DEF TidyInv, Imports!Downloads, Imports!IsCloud
      <4>3. dir[n] # k
        BY <1>1, <1>2, <3>2 DEF ImportsInv, Filed, Imports!Tables, Imports!Objects
      <4> QED BY <4>1, <4>2, <4>3
    <3> QED BY <3>1, <3>2
  <2>5. Imports!JobsAreIsolated'
    <3> SUFFICES ASSUME NEW j \in Imports!Objects, obj'[j].state \in Imports!Busy, obj'[j].id \notin Imports!CloudIds
                 PROVE  Imports!Whole(j)'
      BY DEF Imports!JobsAreIsolated, Imports!Downloads, Imports!IsCloud
    <3>1. Imports!Downloads(j) /\ ~Imports!IsCloud(j) /\ j # k /\ obj'[j].id = obj[j].id
      BY <1>5, <2>2
    <3>2. table[obj[j].id] = j /\ dir[obj[j].id] = j
      BY <2>1, <3>1 DEF TidyInv, Imports!JobsAreIsolated, Imports!Whole, Imports!Downloads, Imports!IsCloud
    <3>3. obj[j].id = Clouds + j /\ obj[j].id \in Imports!Ids
      BY <3>1, Identified DEF TidyInv, Imports!Downloads, Imports!IsCloud
    <3>4. obj[j].id # i
      BY <1>1, <2>1, <3>1, <3>3, ImportBounds DEF Imports!Objects
    <3> QED BY <1>7, <3>1, <3>2, <3>3, <3>4 DEF Imports!Whole
  <2>6. \A j \in Imports!Objects : obj'[j] # Imports!NoObject => obj'[j].id \in Imports!CloudIds \/ obj'[j].id = Clouds + j
    BY <1>5, <2>2 DEF TidyInv, Imports!Downloads, Imports!IsCloud
  <2>7. \A n \in 1..Len(queue) : /\ obj'[queue[n]].state \in Imports!Busy
                                 /\ \A m \in 1..Len(queue) : queue[m] = queue[n] => m = n
    BY <1>1, <1>8, <2>2 DEF TidyInv, Imports!Downloads, Imports!IsCloud
  <2>8. ending = "no" => \A j \in Imports!Objects : obj'[j].state \in Imports!Busy => j \in Imports!Waiting
    BY <2>2 DEF TidyInv, Imports!Downloads, Imports!IsCloud
  <2>9. worker'.step = "idle" /\ queue' = queue /\ ending' = ending /\ Imports!Waiting' = Imports!Waiting
    BY <1>4 DEF Imports!Idle, Imports!Waiting
  <2> HIDE DEF k, i
  <2> QED BY <2>1, <2>4, <2>5, <2>6, <2>7, <2>8, <2>9 DEF TidyInv, Imports!Downloads, Imports!IsCloud
<1> QED BY <1>9, <1>10

LEMMA CloudWorkKeeps ==
    ASSUME ImportsInv, Imports!FinishCloud \/ Imports!RemoveDirectory \/ Imports!PopCancelled
    PROVE  ImportsInv' /\ (TidyInv => TidyInv')
<1> DEFINE k == worker.k
           i == obj[k].id
<1>1. k \in Imports!Objects /\ obj[k] # Imports!NoObject /\ worker.step # "idle"
  BY DEF ImportsInv, Imports!FinishCloud, Imports!RemoveDirectory, Imports!PopCancelled
<1>2. i \in Imports!Ids
  BY <1>1 DEF ImportsInv, Filed, Imports!Tables, ImportObject
<1>3. /\ table \in [Imports!Ids -> 0..MaxObjects] /\ dir \in [Imports!Ids -> 0..MaxObjects] /\ 0 \in 0..MaxObjects
      /\ obj \in [Imports!Objects -> {Imports!NoObject} \cup ImportObject]
  BY ImportBounds DEF ImportsInv, Filed, Imports!Tables
<1>4. /\ obj' \in [Imports!Objects -> {Imports!NoObject} \cup ImportObject]
      /\ \A j \in Imports!Objects : /\ obj'[j].id = obj[j].id
                                    /\ obj'[j].state \in Imports!Busy => obj[j].state \in Imports!Busy
                                    /\ obj'[j] # Imports!NoObject <=> obj[j] # Imports!NoObject
  <2>1. CASE Imports!FinishCloud
    <3>1. PICK state \in {"ready", "failed", "cancelled"} : Imports!Settled(k, state)
      BY <2>1 DEF Imports!FinishCloud
    <3> HIDE DEF k
    <3> QED BY <1>1, <3>1, Settling
  <2>2. CASE obj' = obj
    BY <1>3, <2>2
  <2> QED BY <2>1, <2>2 DEF Imports!RemoveDirectory, Imports!PopCancelled
<1>5. /\ table' \in [Imports!Ids -> 0..MaxObjects] /\ dir' \in [Imports!Ids -> 0..MaxObjects]
      /\ \A n \in Imports!Ids : table'[n] \in {0, table[n]} /\ dir'[n] \in {0, dir[n]}
  BY <1>2, <1>3 DEF Imports!FinishCloud, Imports!RemoveDirectory, Imports!PopCancelled, Imports!RmTree, Imports!Drop
<1>6. UNCHANGED <<session, asking, queue, ending>>
  BY DEF Imports!FinishCloud, Imports!RemoveDirectory, Imports!PopCancelled
<1>7. /\ worker' \in [k : 0..MaxObjects, step : {"idle", "download", "rmtree", "pop"}]
      /\ worker'.step = "idle" => worker' = Imports!Idle
      /\ worker'.step # "idle" => worker'.k = k
  BY <1>3 DEF ImportsInv, Imports!FinishCloud, Imports!RemoveDirectory, Imports!PopCancelled, Imports!Idle
<1> HIDE DEF k, i
<1>8. \A n \in 1..Len(queue) : queue[n] \in Imports!Objects
  BY ElementOfSeq DEF ImportsInv
<1>9. ImportsInv'
  <2>1. Filed(Imports!Tables)' /\ OneRuns(Imports!Tables)'
    BY <1>4, <1>5, <1>6, ThinnedTables
  <2>2. \A n \in 1..Len(queue) : obj'[queue[n]] # Imports!NoObject
    BY <1>4, <1>8 DEF ImportsInv
  <2> QED BY <1>1, <1>4, <1>6, <1>7, <2>1, <2>2 DEF ImportsInv
<1>10. ASSUME TidyInv PROVE TidyInv'
  <2> USE <1>10
  <2>1. Imports!IsCloud(k) /\ ending # "closed" /\ (worker.step # "download" => ~Imports!Downloads(k))
    <3>1. ending # "closed"
      BY <1>1 DEF TidyInv, Imports!Idle
    <3>2. CASE Imports!FinishCloud
      BY <3>1, <3>2 DEF Imports!FinishCloud, k
    <3>3. CASE worker.step \in {"rmtree", "pop"}
      BY <3>1, <3>3 DEF TidyInv, k
    <3> QED BY <3>2, <3>3 DEF Imports!RemoveDirectory, Imports!PopCancelled
  <2>2. \A j \in Imports!Objects : obj'[j].id \in Imports!CloudIds <=> Imports!IsCloud(j)
    BY <1>4 DEF Imports!IsCloud
  <2>3. \A j \in Imports!Objects : obj'[j].state \in Imports!Busy <=> Imports!Downloads(j) /\ j # k
    <3>1. CASE Imports!FinishCloud
      <4>1. PICK state \in {"ready", "failed", "cancelled"} : Imports!Settled(k, state)
        BY <3>1 DEF Imports!FinishCloud, k
      <4> QED BY <1>1, <4>1, Settling DEF Imports!Downloads
    <3>2. CASE obj' = obj /\ worker.step # "download"
      BY <2>1, <3>2 DEF Imports!Downloads
    <3> QED BY <3>1, <3>2 DEF Imports!RemoveDirectory, Imports!PopCancelled
  <2>4. /\ \A n \in Imports!Ids : dir'[n] = dir[n] \/ dir'[n] = 0
        /\ \A n \in Imports!Ids \ {i} : table'[n] = table[n] /\ dir'[n] = dir[n]
        /\ worker'.step = "rmtree" => table' = table /\ dir' = dir
        /\ worker'.step = "pop" => table' = table /\ dir'[i] = 0
        /\ worker'.step = "idle" => dir' = dir /\ worker.step = "pop"
        /\ worker'.step \in {"rmtree", "pop", "idle"}
    BY <1>2, <1>3 DEF ImportsInv, Imports!FinishCloud, Imports!RemoveDirectory, Imports!PopCancelled,
        Imports!RmTree, Imports!Drop, Imports!Idle, k, i
  <2>5. Imports!Waiting' = Imports!Waiting /\ queue' = queue /\ ending' = ending
    BY <1>6 DEF Imports!Waiting
  <2>6. ending = "no" => \A j \in Imports!Objects : obj'[j].state \in Imports!Busy => j \in Imports!Waiting
    BY <2>3 DEF TidyInv, k, Imports!Downloads, Imports!IsCloud
  <2>7. ASSUME ending = "no", NEW n \in Imports!Ids, dir'[n] # 0
        PROVE  dir'[n] = table'[n] \/ dir'[n] = worker'.k \/ dir'[n] \in Imports!Waiting
    <3>1. dir'[n] = dir[n] /\ (dir[n] = table[n] \/ dir[n] = k \/ dir[n] \in Imports!Waiting)
      BY <2>4, <2>7 DEF TidyInv, k, Imports!Downloads, Imports!IsCloud
    <3>2. CASE worker'.step # "idle"
      BY <1>7, <2>4, <3>1, <3>2
    <3>3. CASE worker'.step = "idle" /\ n = i
      <4>1. worker.step = "pop" /\ dir[i] # 0 /\ dir[i] \in Imports!Objects
        BY <1>3, <2>4, <2>7, <3>1, <3>3 DEF Imports!Objects
      <4>2. Imports!Downloads(dir[i])
        BY <4>1 DEF TidyInv, i, k, Imports!Downloads, Imports!IsCloud
      <4>3. dir[i] # k
        BY <2>1, <4>1, <4>2
      <4> QED BY <2>3, <2>6, <2>7, <3>1, <3>3, <4>1, <4>2, <4>3
    <3>4. CASE worker'.step = "idle" /\ n # i
      <4>1. dir[n] # k
        BY <1>1, <1>2, <3>4 DEF ImportsInv, Filed, Imports!Tables, Imports!Objects, i
      <4> QED BY <2>4, <3>1, <3>4, <4>1
    <3> QED BY <3>2, <3>3, <3>4
  <2>8. Imports!JobsAreIsolated'
    <3> SUFFICES ASSUME NEW j \in Imports!Objects, obj'[j].state \in Imports!Busy, obj'[j].id \notin Imports!CloudIds
                 PROVE  Imports!Whole(j)'
      BY DEF Imports!JobsAreIsolated, Imports!Downloads, Imports!IsCloud
    <3>1. Imports!Downloads(j) /\ ~Imports!IsCloud(j) /\ obj'[j].id = obj[j].id
      BY <1>4, <2>2, <2>3
    <3>2. table[obj[j].id] = j /\ dir[obj[j].id] = j
      BY <2>1, <3>1 DEF TidyInv, Imports!JobsAreIsolated, Imports!Whole, Imports!Downloads, Imports!IsCloud
    <3>3. obj[j].id \in Imports!Ids /\ obj[j].id # i
      BY <2>1, <3>1, Identified DEF Imports!IsCloud, i
    <3> QED BY <2>4, <3>1, <3>2, <3>3 DEF Imports!Whole
  <2>9. \A j \in Imports!Objects : obj'[j] # Imports!NoObject => obj'[j].id \in Imports!CloudIds \/ obj'[j].id = Clouds + j
    BY <1>4, <2>2 DEF TidyInv, Imports!Downloads, Imports!IsCloud
  <2>10. \A n \in 1..Len(queue) : /\ obj'[queue[n]].state \in Imports!Busy /\ queue[n] # k
                                  /\ \A m \in 1..Len(queue) : queue[m] = queue[n] => m = n
    BY <1>1, <1>8, <2>3 DEF TidyInv, Imports!Downloads, k, Imports!IsCloud
  <2>11. worker'.step # "idle" => /\ worker'.k = k /\ obj'[worker'.k].id \in Imports!CloudIds /\ obj'[worker'.k].state \notin Imports!Busy
                                  /\ obj'[worker'.k].id = i
    BY <1>1, <1>4, <1>7, <2>1, <2>2, <2>3 DEF Imports!IsCloud, Imports!Downloads, i
  <2>12. worker'.step = "pop" /\ dir'[obj'[worker'.k].id] # 0 => obj'[dir'[obj'[worker'.k].id]].state \in Imports!Busy
    BY <2>4, <2>11
  <2>13. ending' # "no" => queue' = <<>>
    BY <2>5 DEF TidyInv, Imports!Downloads, Imports!IsCloud
  <2> QED BY <2>1, <2>4, <2>5, <2>6, <2>7, <2>8, <2>9, <2>10, <2>11, <2>12, <2>13
      DEF TidyInv, Imports!Downloads, Imports!IsCloud
<1> QED BY <1>9, <1>10

LEMMA CloseKeeps ==
    ASSUME ImportsInv, Imports!CloseBegins \/ Imports!CloseEnds PROVE ImportsInv' /\ (TidyInv => TidyInv')
<1>1. /\ table \in [Imports!Ids -> 0..MaxObjects] /\ dir \in [Imports!Ids -> 0..MaxObjects] /\ 0 \in 0..MaxObjects
      /\ obj \in [Imports!Objects -> {Imports!NoObject} \cup ImportObject]
      /\ \A i \in Imports!Ids : table[i] # 0 => obj[table[i]].id = i
  BY ImportBounds DEF ImportsInv, Filed, Imports!Tables
<1>2. ASSUME Imports!CloseBegins PROVE ImportsInv' /\ (TidyInv => TidyInv')
  <2>1. /\ obj' = [k \in Imports!Objects |-> IF k \in Imports!Kept THEN [obj[k] EXCEPT !.cancel = TRUE] ELSE obj[k]]
        /\ queue' = <<>> /\ ending' = "waiting" /\ ending = "no"
        /\ UNCHANGED <<session, asking, table, dir, worker>>
    BY <1>2 DEF Imports!CloseBegins
  <2>2. ASSUME NEW k \in Imports!Objects
        PROVE  /\ obj'[k] \in {Imports!NoObject} \cup ImportObject
               /\ obj'[k].id = obj[k].id /\ obj'[k].state = obj[k].state
               /\ obj'[k] # Imports!NoObject <=> obj[k] # Imports!NoObject
    <3>1. CASE k \in Imports!Kept
      <4>1. obj[k] \in ImportObject
        BY <1>1, <3>1 DEF Imports!Kept, Imports!NoObject, Imports!Ids, Imports!Objects
      <4>2. obj'[k] = [obj[k] EXCEPT !.cancel = TRUE]
        BY <2>1, <3>1
      <4>3. obj'[k] \in ImportObject /\ obj'[k].id = obj[k].id /\ obj'[k].state = obj[k].state
        BY <4>1, <4>2 DEF ImportObject
      <4>4. \A o \in ImportObject : o # Imports!NoObject
        BY DEF ImportObject, Imports!NoObject, Imports!Ids
      <4> QED BY <4>1, <4>3, <4>4
    <3>2. CASE k \notin Imports!Kept
      BY <1>1, <2>1, <3>2
    <3> QED BY <3>1, <3>2
  <2>3. obj' \in [Imports!Objects -> {Imports!NoObject} \cup ImportObject]
    BY <2>1, <2>2
  <2>4. Filed(Imports!Tables)' /\ OneRuns(Imports!Tables)'
    BY <1>1, <2>1, <2>2, <2>3, ThinnedTables
  <2>5. queue' \in Seq(Imports!Objects) /\ Len(queue') = 0
    BY <2>1
  <2>6. ImportsInv'
    BY <2>1, <2>2, <2>4, <2>5 DEF ImportsInv
  <2>7. ASSUME TidyInv PROVE TidyInv'
    <3> USE <2>7
    <3>1. \A k \in Imports!Objects : /\ obj'[k].state \in Imports!Busy <=> Imports!Downloads(k)
                                     /\ obj'[k].id \in Imports!CloudIds <=> Imports!IsCloud(k)
      BY <2>2 DEF Imports!Downloads, Imports!IsCloud
    <3>2. Imports!JobsAreIsolated'
      BY <2>1, <2>2, <3>1 DEF TidyInv, Imports!JobsAreIsolated, Imports!Whole, Imports!Downloads, Imports!IsCloud
    <3>3. /\ worker.step = "download" => obj'[worker.k].state \in Imports!Busy
          /\ worker.step \in {"rmtree", "pop"} => obj'[worker.k].id \in Imports!CloudIds /\ obj'[worker.k].state \notin Imports!Busy
      BY <3>1 DEF TidyInv, ImportsInv, Imports!Downloads, Imports!IsCloud
    <3>4. worker.step = "pop" /\ dir[obj'[worker.k].id] # 0 => obj'[dir[obj'[worker.k].id]].state \in Imports!Busy
      <4> SUFFICES ASSUME worker.step = "pop", dir[obj'[worker.k].id] # 0
                   PROVE  obj'[dir[obj'[worker.k].id]].state \in Imports!Busy
        OBVIOUS
      <4>1. obj'[worker.k].id = obj[worker.k].id /\ obj[worker.k].id \in Imports!Ids
        BY <2>2 DEF TidyInv, ImportsInv, Imports!IsCloud, Imports!CloudIds, Imports!Ids, Filed, Imports!Tables,
            ImportObject, Imports!Downloads
      <4>2. dir[obj[worker.k].id] \in Imports!Objects /\ Imports!Downloads(dir[obj[worker.k].id])
        BY <1>1, <4>1 DEF TidyInv, Imports!Objects, Imports!Downloads, Imports!IsCloud
      <4> QED BY <3>1, <4>1, <4>2 DEF Imports!Downloads
    <3>5. \A k \in Imports!Objects : obj'[k] # Imports!NoObject => obj'[k].id \in Imports!CloudIds \/ obj'[k].id = Clouds + k
      BY <2>2, <3>1 DEF TidyInv, Imports!Downloads, Imports!IsCloud
    <3> QED BY <2>1, <2>5, <3>2, <3>3, <3>4, <3>5 DEF TidyInv, Imports!Downloads, Imports!IsCloud
  <2> QED BY <2>6, <2>7
<1>3. ASSUME Imports!CloseEnds PROVE ImportsInv' /\ (TidyInv => TidyInv')
  <2>1. /\ dir' = [i \in Imports!Ids |-> 0] /\ ending' = "closed" /\ ending = "waiting" /\ worker = Imports!Idle
        /\ UNCHANGED <<session, asking, obj, table, queue, worker>>
    BY <1>3 DEF Imports!CloseEnds, Imports!ThreadDone
  <2>2. Filed(Imports!Tables)' /\ OneRuns(Imports!Tables)'
    BY <1>1, <2>1, ThinnedTables
  <2>3. ImportsInv'
    BY <2>1, <2>2 DEF ImportsInv
  <2>4. ASSUME TidyInv PROVE TidyInv'
    <3>1. queue = <<>> /\ Len(queue') = 0
      BY <2>1, <2>4 DEF TidyInv, Imports!Downloads, Imports!IsCloud
    <3> QED BY <2>1, <2>4, <3>1 DEF TidyInv, Imports!JobsAreIsolated, Imports!Idle, Imports!IsCloud, Imports!Downloads
  <2> QED BY <2>3, <2>4
<1> QED BY <1>2, <1>3

LEMMA ImportsStep ==
    ImportsInv /\ [Imports!Next]_imports => ImportsInv' /\ (TidyInv => TidyInv')
<1> SUFFICES ASSUME ImportsInv, [Imports!Next]_imports PROVE ImportsInv' /\ (TidyInv => TidyInv')
  OBVIOUS
<1>1. CASE Imports!Requests
  BY <1>1, RequestsKeep DEF Imports!Requests
<1>2. CASE Imports!Work
  BY <1>2, BeginKeeps, FinishLocalKeeps, CloudWorkKeeps DEF Imports!Work
<1>3. CASE Imports!Sweep \/ Imports!CloseBegins \/ Imports!CloseEnds
  BY <1>3, SweepKeeps, CloseKeeps
<1>4. CASE (\E s \in Tabs : Imports!SessionExpires(s)) \/ \E k \in Imports!Objects : Imports!JobExpires(k)
  BY <1>4, TimeKeeps
<1>5. CASE UNCHANGED imports
  <2>1. UNCHANGED <<session, asking, obj, table, dir, queue, worker, ending>>
    BY <1>5 DEF imports
  <2>2. ImportsInv'
    BY <2>1 DEF ImportsInv, Filed, OneRuns, Imports!Held, Running, Imports!Tables
  <2>3. TidyInv => TidyInv'
    BY <2>1 DEF TidyInv, Imports!JobsAreIsolated, Imports!Whole, Imports!Downloads, Imports!IsCloud, Imports!Waiting
  <2> QED BY <2>2, <2>3
<1>6. CASE Imports!CloudRequests
  BY <1>6, CloudRequestsKeep DEF Imports!CloudRequests
<1> QED BY <1>1, <1>2, <1>3, <1>4, <1>5, <1>6 DEF Imports!Next, Imports!LocalNext

\* What prunes the tables leaves no job ready that was being downloaded.
LEMMA NoneGetsReady ==
    ImportsInv /\ [Imports!Next]_imports
        => [\A k \in Imports!Objects : obj[k].cancel /\ obj[k].state \in Imports!Busy => obj'[k].state # "ready"]_imports
<1> SUFFICES ASSUME ImportsInv, Imports!Next, NEW k \in Imports!Objects, obj[k].cancel, obj[k].state \in Imports!Busy
             PROVE  obj'[k].state # "ready"
  BY DEF imports
<1>1. ASSUME NEW t, Imports!Store(t), Pruned(Imports!Tables, t) PROVE obj'[k].state # "ready"
  <2>1. t.obj[k].state \in Imports!Busy
    BY <1>1 DEF Pruned, Running, Imports!Tables
  <2> QED BY <1>1, <2>1 DEF Imports!Store, Imports!Busy
<1>2. CASE UNCHANGED obj \/ \E j \in Imports!Objects : Imports!JobExpires(j)
  <2>1. obj'[k].state = obj[k].state
    <3>1. ASSUME NEW j \in Imports!Objects, Imports!JobExpires(j) PROVE obj'[k].state = obj[k].state
      <4>1. obj \in [Imports!Objects -> {Imports!NoObject} \cup ImportObject] /\ obj[j] # Imports!NoObject
        BY <3>1 DEF ImportsInv, Filed, Imports!Tables, Imports!JobExpires
      <4>2. obj' = [obj EXCEPT ![j].expired = TRUE]
        BY <3>1 DEF Imports!JobExpires
      <4>3. CASE j # k
        BY <4>1, <4>2, <4>3
      <4>4. CASE j = k
        <5>1. obj'[k] = [obj[k] EXCEPT !.expired = TRUE] /\ obj[k] \in ImportObject
          BY <4>1, <4>2, <4>4
        <5> QED BY <5>1 DEF ImportObject
      <4> QED BY <4>3, <4>4
    <3> QED BY <1>2, <3>1
  <2> QED BY <2>1 DEF Imports!Busy
<1>3. CASE Imports!CloseBegins
  <2>1. obj'[k].state = obj[k].state
    BY <1>3 DEF ImportsInv, Filed, Imports!Tables, Imports!CloseBegins, ImportObject, Imports!NoObject
  <2> QED BY <2>1 DEF Imports!Busy
<1>4. CASE Imports!FinishLocal \/ Imports!FinishCloud
  <2>1. worker.k \in Imports!Objects /\ obj[worker.k] # Imports!NoObject
    BY <1>4 DEF ImportsInv, Imports!FinishLocal, Imports!FinishCloud
  <2>2. PICK state \in {"ready", "failed", "cancelled"} :
           Imports!Settled(worker.k, state) /\ (state = "ready" => ~Imports!Stopping(worker.k))
    BY <1>4 DEF Imports!FinishLocal, Imports!FinishCloud
  <2>3. CASE worker.k = k
    <3>1. obj'[k].state = state
      BY <2>1, <2>2, <2>3, Settling
    <3> QED BY <2>2, <2>3, <3>1 DEF Imports!Stopping
  <2>4. CASE worker.k # k
    <3>1. obj'[k] = obj[k]
      BY <2>1, <2>2, <2>4, Settling
    <3> QED BY <3>1 DEF Imports!Busy
  <2> QED BY <2>3, <2>4
<1>5. ASSUME NEW s \in Tabs, Imports!Pair(s) PROVE obj'[k].state # "ready"
  <2> DEFINE t == Imports!Swept(Imports!Tables)
  <2>1. PICK old \in SUBSET {o \in Tabs : session[o] \in {"live", "stale"}} :
          Imports!Store([Imports!Revoked(t, old) EXCEPT !.session[s] = "live"])
    BY <1>5 DEF Imports!Pair
  <2>2. Filed(t) /\ Pruned(Imports!Tables, t)
    BY SweepPrunes
  <2> HIDE DEF t
  <2> DEFINE r == Imports!Revoked(t, old)
             u == [r EXCEPT !.session[s] = "live"]
  <2>3. Filed(r) /\ Pruned(Imports!Tables, r)
    BY <2>2, RevokedPrunes, PrunedTwice
  <2> HIDE DEF r
  <2>4. u.obj = r.obj /\ u.table = r.table /\ u.dir = r.dir
    BY <2>3 DEF Filed
  <2>5. Pruned(Imports!Tables, u)
    BY <2>3, <2>4 DEF Pruned, Some, Running
  <2>6. Imports!Store(u)
    BY <2>1 DEF r
  <2> HIDE DEF u
  <2> QED BY <1>1, <2>5, <2>6
<1>6. ASSUME NEW t, Pruned(Imports!Tables, t), NEW s \in Tabs, NEW id \in Imports!Ids, NEW j \in Imports!Unused,
             Filed(t), Imports!Accept(s, t, id, j)
      PROVE  obj'[k].state # "ready"
  <2>1. j # k /\ t.obj[k].state \in Imports!Busy
    BY <1>6 DEF Imports!Unused, Imports!NoObject, Imports!Busy, Pruned, Running, Imports!Tables
  <2>2. obj'[k] = t.obj[k]
    BY <1>6, <2>1 DEF Imports!Accept, Imports!Store, Filed
  <2> QED BY <2>1, <2>2 DEF Imports!Busy
<1>7. Filed(Imports!Swept(Imports!Tables)) /\ Pruned(Imports!Tables, Imports!Swept(Imports!Tables))
  BY SweepPrunes
<1>8. ASSUME NEW s \in Tabs, Imports!Start(s) PROVE obj'[k].state # "ready"
  <2>1. CASE Imports!Refuse(s, Imports!Swept(Imports!Tables))
    BY <1>1, <1>7, <2>1 DEF Imports!Refuse
  <2>2. CASE /\ Imports!Unused # {}
             /\ Imports!Accept(s, Imports!Swept(Imports!Tables), Clouds + Imports!NextObject, Imports!NextObject)
    <3>1. Imports!NextObject \in Imports!Unused
      BY <2>2, NextIsUnused
    <3>2. Clouds + Imports!NextObject \in Imports!Ids
      BY <3>1, ImportBounds DEF Imports!Unused, Imports!Objects, Imports!Ids
    <3> QED BY <1>6, <1>7, <2>2, <3>1, <3>2
  <2> QED BY <1>8, <2>1, <2>2 DEF Imports!Start
<1>9. ASSUME NEW s \in Tabs, NEW id \in Imports!CloudIds, Imports!StartCloud(s, id) PROVE obj'[k].state # "ready"
  <2>1. CASE Imports!Refuse(s, Imports!Swept(Imports!Tables))
    BY <1>1, <1>7, <2>1 DEF Imports!Refuse
  <2>2. CASE /\ Imports!Unused # {}
             /\ Imports!Accept(s, Imports!Swept(Imports!Tables), id, Imports!NextObject)
    <3>1. Imports!NextObject \in Imports!Unused /\ id \in Imports!Ids
      BY <2>2, NextIsUnused, ImportBounds DEF Imports!CloudIds, Imports!Ids
    <3> QED BY <1>6, <1>7, <2>2, <3>1
  <2> QED BY <1>9, <2>1, <2>2 DEF Imports!StartCloud
<1>10. ASSUME NEW s \in Tabs, Imports!Disconnect(s) PROVE obj'[k].state # "ready"
  BY <1>1, <1>10, RevokedPrunes DEF Imports!Disconnect, Imports!Refuse, ImportsInv
<1>11. ASSUME NEW s \in Tabs, NEW j \in Imports!Objects, Imports!Delete(s, j) PROVE obj'[k].state # "ready"
  <2>1. {j} \in SUBSET Imports!Held(Imports!Tables)
    BY <1>11 DEF Imports!Delete, Imports!Kept, Imports!Held, Imports!Tables
  <2> QED BY <1>1, <1>11, <2>1, RemovedPrunes DEF Imports!Delete, Imports!Refuse, ImportsInv
<1>12. CASE Imports!Sweep
  BY <1>1, <1>7, <1>12 DEF Imports!Sweep
<1>13. CASE Imports!Requests
  <2>1. ASSUME NEW s \in Tabs, Imports!Authenticate(s) PROVE UNCHANGED obj
    BY <2>1 DEF Imports!Authenticate
  <2> QED BY <1>2, <1>5, <1>8, <1>10, <1>11, <1>13, <2>1 DEF Imports!Requests
<1>14. CASE Imports!Work
  BY <1>2, <1>4, <1>14 DEF Imports!Work, Imports!Begin, Imports!RemoveDirectory, Imports!PopCancelled
<1>15. CASE Imports!CloseEnds \/ \E s \in Tabs : Imports!SessionExpires(s)
  BY <1>2, <1>15 DEF Imports!CloseEnds, Imports!SessionExpires
<1> QED BY <1>2, <1>3, <1>9, <1>12, <1>13, <1>14, <1>15 DEF Imports!Next, Imports!LocalNext, Imports!CloudRequests

\* A cloud import is overtaken by no other thread than that of its predecessor.
OvertakenBySameId(k) == worker.step \in {"rmtree", "pop"} /\ worker.k # k /\ obj[worker.k].id = obj[k].id
NotOvertaken(k) ==
    Imports!Downloads(k) /\ Imports!Whole(k) /\ ~Imports!Whole(k)' /\ obj'[k].state \in Imports!Busy /\ ending' # "closed"
        => OvertakenBySameId(k)

LEMMA NoneOvertakes ==
    ASSUME ImportsInv, TidyInv, Imports!Next, NEW k \in Imports!Objects PROVE NotOvertaken(k)
<1> SUFFICES ASSUME Imports!Downloads(k), Imports!Whole(k), ~Imports!Whole(k)', obj'[k].state \in Imports!Busy, ending' # "closed"
             PROVE  OvertakenBySameId(k)
  BY DEF NotOvertaken
<1>1. /\ obj[k] # Imports!NoObject /\ obj[k].id \in Imports!Ids
      /\ table[obj[k].id] = k /\ dir[obj[k].id] = k
  BY Identified DEF Imports!Whole
<1>2. \/ obj'[k].id # obj[k].id \/ table'[obj[k].id] # table[obj[k].id] \/ dir'[obj[k].id] # dir[obj[k].id]
  BY <1>1 DEF Imports!Whole
<1>3. ASSUME NEW t, Imports!Store(t), Pruned(Imports!Tables, t) PROVE FALSE
  BY <1>1, <1>2, <1>3, PrunedSpares DEF Imports!Store
<1>4. ASSUME NEW t, Filed(t), Pruned(Imports!Tables, t), ~Imports!Downloading(t), NEW s \in Tabs,
             NEW id \in Imports!Ids, NEW j \in Imports!Unused, Imports!Accept(s, t, id, j)
      PROVE  FALSE
  <2>1. j # k
    BY <1>1, <1>4 DEF Imports!Unused
  <2>2. /\ t.table[obj[k].id] = k /\ t.dir[obj[k].id] = k /\ t.obj[k].id = obj[k].id
        /\ t.obj[k].state \in Imports!Busy
    BY <1>4, PrunedSpares DEF Pruned, Running, Imports!Tables, Imports!Downloads
  <2>3. id # obj[k].id
    BY <1>1, <1>4, <2>2 DEF Imports!Downloading, Imports!Held, Imports!Objects
  <2>4. table'[obj[k].id] = k /\ dir'[obj[k].id] = k /\ obj'[k] = t.obj[k]
    BY <1>1, <1>4, <2>1, <2>2, <2>3 DEF Imports!Accept, Imports!Store, Filed
  <2> QED BY <1>1, <1>2, <2>2, <2>4
<1>5. Filed(Imports!Swept(Imports!Tables)) /\ Pruned(Imports!Tables, Imports!Swept(Imports!Tables))
  BY SweepPrunes
<1>6. Filed(Imports!Tables)
  BY DEF ImportsInv
<1>7. ~Imports!Requests
  <2> SUFFICES ASSUME NEW s \in Tabs,
                      \/ Imports!Pair(s) \/ Imports!Authenticate(s) \/ Imports!Start(s) \/ Imports!Disconnect(s)
                      \/ \E j \in Imports!Objects : Imports!Delete(s, j)
               PROVE  FALSE
    BY DEF Imports!Requests
  <2>1. CASE Imports!Pair(s)
    <3> DEFINE t == Imports!Swept(Imports!Tables)
    <3>1. PICK old \in SUBSET {o \in Tabs : session[o] \in {"live", "stale"}} :
            Imports!Store([Imports!Revoked(t, old) EXCEPT !.session[s] = "live"])
      BY <2>1 DEF Imports!Pair
    <3>2. Filed(t) /\ Pruned(Imports!Tables, t)
      BY <1>5
    <3> HIDE DEF t
    <3> DEFINE r == Imports!Revoked(t, old)
               u == [r EXCEPT !.session[s] = "live"]
    <3>3. Filed(r) /\ Pruned(Imports!Tables, r)
      BY <3>2, RevokedPrunes, PrunedTwice
    <3> HIDE DEF r
    <3>4. u.obj = r.obj /\ u.table = r.table /\ u.dir = r.dir
      BY <3>3 DEF Filed
    <3>5. Pruned(Imports!Tables, u)
      BY <3>3, <3>4 DEF Pruned, Some, Running
    <3>6. Imports!Store(u)
      BY <3>1 DEF r
    <3> HIDE DEF u
    <3> QED BY <1>3, <3>5, <3>6
  <2>2. CASE Imports!Authenticate(s)
    BY <1>2, <2>2 DEF Imports!Authenticate
  <2>3. CASE Imports!Start(s)
    <3>1. CASE Imports!Refuse(s, Imports!Swept(Imports!Tables))
      BY <1>3, <1>5, <3>1 DEF Imports!Refuse
    <3>2. CASE /\ ~Imports!Downloading(Imports!Swept(Imports!Tables)) /\ Imports!Unused # {}
               /\ Imports!Accept(s, Imports!Swept(Imports!Tables), Clouds + Imports!NextObject, Imports!NextObject)
      <4>1. Imports!NextObject \in Imports!Unused
        BY <3>2, NextIsUnused
      <4>2. Clouds + Imports!NextObject \in Imports!Ids
        BY <4>1, ImportBounds DEF Imports!Unused, Imports!Objects, Imports!Ids
      <4> QED BY <1>4, <1>5, <3>2, <4>1, <4>2
    <3> QED BY <2>3, <3>1, <3>2 DEF Imports!Start
  <2>4. CASE Imports!Disconnect(s)
    BY <1>3, <1>6, <2>4, RevokedPrunes DEF Imports!Disconnect, Imports!Refuse
  <2>5. ASSUME NEW j \in Imports!Objects, Imports!Delete(s, j) PROVE FALSE
    <3>1. {j} \in SUBSET Imports!Held(Imports!Tables)
      BY <2>5 DEF Imports!Delete, Imports!Kept, Imports!Held, Imports!Tables
    <3> QED BY <1>3, <1>6, <2>5, <3>1, RemovedPrunes DEF Imports!Delete, Imports!Refuse
  <2> QED BY <2>1, <2>2, <2>3, <2>4, <2>5
<1>8. ASSUME NEW s \in Tabs, NEW id \in Imports!CloudIds, Imports!StartCloud(s, id) PROVE FALSE
  <2>1. CASE Imports!Refuse(s, Imports!Swept(Imports!Tables))
    BY <1>3, <1>5, <2>1 DEF Imports!Refuse
  <2>2. CASE /\ ~Imports!Downloading(Imports!Swept(Imports!Tables)) /\ Imports!Unused # {}
             /\ Imports!Accept(s, Imports!Swept(Imports!Tables), id, Imports!NextObject)
    <3>1. Imports!NextObject \in Imports!Unused /\ id \in Imports!Ids
      BY <2>2, NextIsUnused, ImportBounds DEF Imports!CloudIds, Imports!Ids
    <3> QED BY <1>4, <1>5, <2>2, <3>1
  <2> QED BY <1>8, <2>1, <2>2 DEF Imports!StartCloud
<1>9. ~Imports!Sweep
  BY <1>3, <1>5 DEF Imports!Sweep
<1>10. ASSUME UNCHANGED <<table, dir>> PROVE obj'[k].id # obj[k].id
  BY <1>2, <1>10
<1>11. ~Imports!CloseBegins /\ ~Imports!CloseEnds
  <2>1. ASSUME Imports!CloseBegins PROVE obj'[k].id = obj[k].id /\ UNCHANGED <<table, dir>>
    BY <2>1 DEF Imports!CloseBegins, ImportsInv, Filed, Imports!Tables, ImportObject, Imports!NoObject
  <2> QED BY <1>10, <2>1 DEF Imports!CloseEnds
<1>12. ~\E s \in Tabs : Imports!SessionExpires(s)
  BY <1>10 DEF Imports!SessionExpires
<1>13. ~\E j \in Imports!Objects : Imports!JobExpires(j)
  <2> SUFFICES ASSUME NEW j \in Imports!Objects, Imports!JobExpires(j) PROVE FALSE
    OBVIOUS
  <2>1. obj' = [obj EXCEPT ![j].expired = TRUE] /\ obj \in [Imports!Objects -> {Imports!NoObject} \cup ImportObject]
    BY DEF Imports!JobExpires, ImportsInv, Filed, Imports!Tables
  <2>2. obj[k] \in ImportObject
    BY <1>1, <2>1
  <2>3. obj'[k].id = obj[k].id
    BY <2>1, <2>2 DEF ImportObject
  <2> QED BY <1>10, <2>3 DEF Imports!JobExpires
<1>14. ~Imports!Begin
  BY <1>10 DEF Imports!Begin
<1>15. ASSUME Imports!FinishLocal \/ Imports!FinishCloud PROVE FALSE
  <2>1. worker.k \in Imports!Objects /\ obj[worker.k] # Imports!NoObject /\ worker.step = "download"
    BY <1>15 DEF ImportsInv, Imports!FinishLocal, Imports!FinishCloud
  <2>2. PICK state \in {"ready", "failed", "cancelled"} : Imports!Settled(worker.k, state)
    BY <1>15 DEF Imports!FinishLocal, Imports!FinishCloud
  <2>3. worker.k # k /\ obj'[k] = obj[k]
    BY <2>1, <2>2, Settling DEF Imports!Downloads, Imports!Busy
  <2>4. CASE Imports!FinishCloud
    BY <1>10, <2>3, <2>4 DEF Imports!FinishCloud
  <2>5. CASE Imports!FinishLocal
    <3>1. ~Imports!IsCloud(worker.k) /\ obj[worker.k].id = Clouds + worker.k
      BY <2>1, <2>5 DEF Imports!FinishLocal, TidyInv, Imports!Downloads, Imports!IsCloud
    <3>2. obj[k].id # obj[worker.k].id
      BY <1>1, <2>1, <2>3, <3>1, ImportBounds DEF TidyInv, Imports!IsCloud, Imports!Objects, Imports!Downloads
    <3>3. table'[obj[k].id] = table[obj[k].id] /\ dir'[obj[k].id] = dir[obj[k].id]
      BY <1>1, <2>5, <3>2 DEF Imports!FinishLocal, Imports!RmTree, Imports!Drop, ImportsInv, Filed, Imports!Tables
    <3> QED BY <1>2, <2>3, <3>3
  <2> QED BY <1>15, <2>4, <2>5
<1>16. ASSUME Imports!RemoveDirectory \/ Imports!PopCancelled PROVE OvertakenBySameId(k)
  <2>1. worker.step \in {"rmtree", "pop"} /\ obj' = obj
    BY <1>16 DEF Imports!RemoveDirectory, Imports!PopCancelled
  <2>2. worker.k # k
    BY <2>1 DEF TidyInv, Imports!Downloads, Imports!IsCloud
  <2>3. \A n \in Imports!Ids \ {obj[worker.k].id} : table'[n] = table[n] /\ dir'[n] = dir[n]
    BY <1>16 DEF Imports!RemoveDirectory, Imports!PopCancelled, Imports!RmTree, Imports!Drop, ImportsInv, Filed,
        Imports!Tables
  <2> QED BY <1>1, <1>2, <2>1, <2>2, <2>3 DEF OvertakenBySameId
<1> QED BY <1>7, <1>8, <1>9, <1>11, <1>12, <1>13, <1>14, <1>15, <1>16
       DEF Imports!Next, Imports!LocalNext, Imports!CloudRequests, Imports!Work

LEMMA ImportsRead ==
    ImportsInv => /\ Imports!TypeOK /\ Imports!OneDownload
                  /\ TidyInv => /\ Imports!NoDirectoryLeftBehind /\ Imports!ClosedIsClean /\ Imports!JobsAreIsolated
<1> SUFFICES ASSUME ImportsInv
             PROVE  /\ Imports!TypeOK /\ Imports!OneDownload
                    /\ TidyInv => Imports!NoDirectoryLeftBehind /\ Imports!ClosedIsClean /\ Imports!JobsAreIsolated
  OBVIOUS
<1>1. Imports!TypeOK
  BY DEF ImportsInv, Filed, Imports!Tables, Imports!TypeOK, ImportObject
<1>2. Imports!OneDownload
  <2> DEFINE K == {k \in Imports!Kept : obj[k].state \in Imports!Busy}
  <2>1. \A j, k \in K : j = k
    BY DEF ImportsInv, OneRuns, Imports!Held, Imports!Kept, Imports!Tables, Running
  <2>2. CASE K = {}
    <3>1. Cardinality(K) = 0
      BY <2>2, FS_EmptySet
    <3>2. \A S : Imports!Cardinality(S) = Cardinality(S)
      BY DEF Imports!Cardinality, Cardinality
    <3> QED BY <3>1, <3>2 DEF Imports!OneDownload
  <2>3. CASE K # {}
    <3>1. PICK k : K = {k}
      BY <2>1, <2>3
    <3>2. Cardinality({k}) = 1
      BY FS_Singleton
    <3>3. \A S : Imports!Cardinality(S) = Cardinality(S)
      BY DEF Imports!Cardinality, Cardinality
    <3> QED BY <3>1, <3>2, <3>3 DEF Imports!OneDownload
  <2> QED BY <2>2, <2>3
<1>3. ASSUME TidyInv PROVE Imports!NoDirectoryLeftBehind /\ Imports!ClosedIsClean /\ Imports!JobsAreIsolated
  <2>1. ASSUME ending = "no", NEW i \in Imports!Ids, dir[i] # 0
        PROVE  dir[i] \in Imports!Kept \cup {worker.k} \cup Imports!Waiting
    <3>1. dir[i] = table[i] \/ dir[i] = worker.k \/ dir[i] \in Imports!Waiting
      BY <1>3, <2>1 DEF TidyInv
    <3> QED BY <2>1, <3>1 DEF Imports!Kept
  <2>2. Imports!ClosedIsClean
    BY <1>3 DEF TidyInv, Imports!ClosedIsClean
  <2> QED BY <1>3, <2>1, <2>2 DEF TidyInv, Imports!NoDirectoryLeftBehind
<1> QED BY <1>1, <1>2, <1>3

-----------------------------------------------------------------------------
(* The download through the proxy (SourceDownload) *)

LEMMA SourceBounds ==
    /\ Segments \in Nat /\ Window \in Nat /\ Chunks \in Nat /\ RequestRetries \in Nat
    /\ ImportRetries \in Nat /\ Rotations \in Nat /\ Segments > 0 /\ Window > 0 /\ Rotations > 0
BY PartsAssumption DEF Source!Parameters

Fetched == [state : {"none", "queued", "running", "done", "failed"}, size : 0..Chunks, got : 0..Chunks,
            attempt : 0..RequestRetries, error : Source!Errors, conn : BOOLEAN]
Account == [failure : Source!Errors, transfer : Source!Errors, cancel : Source!Errors,
            retries : 0..Rotations, requests : 0..ImportRetries]

\* What thread i's file holds, and which segments are with the threads at all.
Sound(s, i) ==
    /\ s.conn => s.state = "running" /\ s.size = s.got
    /\ s.state \in {"queued", "running"} /\ ~s.conn => s.size = 0
    /\ s.state = "done" => s.size = Chunks
    /\ s.state = "failed" => s.error # Source!NoError
    /\ s.state # "none" => Len(joined) < i /\ i <= Len(joined) + Window
    /\ s.state = "none" /\ Len(joined) < i => s.size = 0

SegmentsSound ==
    /\ seg \in [Source!Ids -> Fetched] /\ joined \in Seq(Source!Ids \X {Chunks}) /\ Len(joined) <= Segments
    /\ \A i \in Source!Ids : Sound(seg[i], i)

\* Outside the transfer nothing of it is left.
Quiet ==
    thread \notin {"fetch", "settle"} =>
        /\ \A i \in Source!Ids : seg[i].state = "none"
        /\ idle[0] = 0 /\ idle[1] = 0 /\ budget.transfer = Source!NoError

Manifest ==
    /\ \A k \in 1..Len(joined) : joined[k] = <<k, Chunks>>
    /\ thread \in {"prepare", "checksum"} \/ (thread = "settle" /\ raised = Source!NoError)
         => Len(joined) = Segments

\* Which error the importing thread has, and which ones are still latched.
Latched ==
    /\ thread \in {"extract", "fetch", "prepare", "checksum"} => raised = Source!NoError
    /\ thread \in {"raised", "pause"} => raised # Source!NoError
    /\ thread \notin {"raised", "ended"} => budget.failure = Source!NoError
    /\ thread = "raised" => budget.failure \in {Source!NoError, raised}
    /\ budget.cancel.kind \in {"none", "cancelled"}
    /\ rotation <= budget.retries /\ (thread = "pause" => rotation < budget.retries)

Outcomes ==
    /\ thread = "checksum" => output
    /\ thread = "ended" /\ outcome = "none" /\ raised = Source!NoError => output
    /\ thread = "ended" /\ raised.kind = "proxy" => budget.retries = Rotations \/ ~active \/ late
    /\ outcome # "none" => thread = "ended" /\ (output <=> outcome = "complete")

Connected == {i \in Source!Ids : seg[i].conn}
Plain ==
    /\ active \in BOOLEAN /\ late \in BOOLEAN /\ budget \in Account
    /\ thread \in {"extract", "fetch", "settle", "raised", "pause", "prepare", "checksum", "ended"}
    /\ raised \in Source!Errors /\ idle \in [Source!Hosts -> 0..Window]
    /\ rotation \in 0..Rotations /\ recovering \in BOOLEAN /\ output \in BOOLEAN
    /\ outcome \in {"none", "complete", "failed", "cancelled", "masked"}

SourceInv ==
    /\ Plain /\ SegmentsSound /\ Quiet /\ Manifest /\ Latched /\ Outcomes
    /\ idle[0] + idle[1] + Cardinality(Connected) <= Window

LEMMA ErrorsAre ==
    /\ Source!NoError \in Source!Errors
    /\ \A k \in {"proxy", "denied", "cancelled", "timeout", "notice"}, a \in {0} \cup Source!Ids :
          Source!Error(k, a) \in Source!Errors /\ Source!Error(k, a) # Source!NoError /\ Source!Error(k, a).kind = k
    /\ Source!NoError.kind = "none"
    /\ \A e \in Source!Errors : e.kind = "none" \/ e # Source!NoError
BY DEF Source!NoError, Source!Errors, Source!Error, Source!Main

LEMMA RefusalIs ==
    ASSUME Plain, NEW a \in {0} \cup Source!Ids, NEW b \in Account
    PROVE  /\ Source!RefusalBy(b, a) \in Source!Errors
           /\ active /\ ~late => Source!RefusalBy(b, a) \in {b.failure, b.transfer}
           /\ ~active => Source!RefusalBy(b, a) = Source!Error("cancelled", a)
           /\ active /\ late => Source!RefusalBy(b, a) = Source!Error("timeout", a)
<1>1. CASE ~active
  BY <1>1, ErrorsAre DEF Source!RefusalBy
<1>2. CASE active /\ late
  BY <1>2, ErrorsAre DEF Source!RefusalBy
<1>3. CASE active /\ ~late
  BY <1>3 DEF Source!RefusalBy, Account
<1> QED BY <1>1, <1>2, <1>3 DEF Plain

LEMMA SourceStart == Source!Init => SourceInv
<1> SUFFICES ASSUME Source!Init PROVE SourceInv
  OBVIOUS
<1> USE SourceBounds
<1>1. Plain
  <2>1. budget \in Account
    BY ErrorsAre DEF Source!Init, Account
  <2>2. idle \in [Source!Hosts -> 0..Window] /\ rotation \in 0..Rotations
    BY DEF Source!Init, Source!Hosts
  <2> QED BY <2>1, <2>2, ErrorsAre DEF Source!Init, Plain
<1>2. Source!Fresh \in Fetched
  BY ErrorsAre DEF Source!Fresh, Fetched
<1>3. \A i \in Source!Ids : seg[i] = Source!Fresh
  BY DEF Source!Init
<1>4. joined = <<>> /\ Len(joined) = 0 /\ joined \in Seq(Source!Ids \X {Chunks})
  BY DEF Source!Init
<1>5. SegmentsSound
  <2>1. seg \in [Source!Ids -> Fetched]
    BY <1>2 DEF Source!Init
  <2>2. \A i \in Source!Ids : Sound(seg[i], i)
    BY <1>3 DEF Source!Fresh, Sound
  <2> QED BY <1>4, <2>1, <2>2 DEF SegmentsSound
<1>6. Connected = {}
  BY <1>3 DEF Connected, Source!Fresh
<1>7. Cardinality(Connected) = 0
  BY <1>6, FS_EmptySet
<1>8. Quiet /\ Manifest /\ Latched /\ Outcomes /\ idle[0] = 0 /\ idle[1] = 0
  BY <1>3, <1>4, ErrorsAre DEF Source!Init, Quiet, Manifest, Latched, Outcomes, Source!Fresh, Source!Hosts
<1> QED BY <1>1, <1>5, <1>7, <1>8 DEF SourceInv

\* The connections of the threads: one more, one fewer, or no new one.
LEMMA WindowHolds ==
    ASSUME NEW n \in Nat, NEW C, C \subseteq (n + 1)..(n + Window)
    PROVE  IsFiniteSet(C) /\ Cardinality(C) \in Nat /\ Cardinality(C) <= Window
<1> USE SourceBounds
<1>1. n + 1 \in Int /\ n + Window \in Int
  OBVIOUS
<1>2. IsFiniteSet((n + 1)..(n + Window)) /\ Cardinality((n + 1)..(n + Window)) = Window
  <2>1. /\ IsFiniteSet((n + 1)..(n + Window))
        /\ Cardinality((n + 1)..(n + Window)) = IF n + 1 > n + Window THEN 0 ELSE n + Window - (n + 1) + 1
    BY <1>1, FS_Interval
  <2> QED BY <2>1
<1>3. IsFiniteSet(C) /\ Cardinality(C) <= Cardinality((n + 1)..(n + Window))
  BY <1>2, FS_Subset
<1> QED BY <1>2, <1>3, FS_CardinalityType

LEMMA ConnectionsCounted ==
    ASSUME SegmentsSound
    PROVE  /\ IsFiniteSet(Connected) /\ Cardinality(Connected) \in Nat /\ Cardinality(Connected) <= Window
           /\ \A S \in SUBSET Connected : IsFiniteSet(S) /\ Cardinality(S) <= Cardinality(Connected)
<1>1. Len(joined) \in Nat
  BY DEF SegmentsSound
<1>2. Connected \subseteq (Len(joined) + 1)..(Len(joined) + Window)
  BY <1>1, SourceBounds DEF Connected, SegmentsSound, Sound, Source!Ids
<1>3. IsFiniteSet(Connected) /\ Cardinality(Connected) \in Nat /\ Cardinality(Connected) <= Window
  BY <1>1, <1>2, WindowHolds
<1> QED BY <1>3, FS_Subset

-----------------------------------------------------------------------------
(* A thread's step changes its own segment, the budget and the pool. *)

Charged ==
    /\ budget' \in Account /\ budget'.failure = budget.failure
    /\ budget'.cancel.kind \in {"none", "cancelled"} /\ budget'.retries >= budget.retries
Elsewhere == <<active, late, thread, raised, joined, rotation, recovering, output, outcome>>

LEMMA SegmentMoves ==
    ASSUME SegmentsSound, NEW i \in Source!Ids, NEW s \in Fetched, Sound(s, i), UNCHANGED joined,
           seg' = [seg EXCEPT ![i] = s]
    PROVE  SegmentsSound' /\ seg'[i] = s /\ \A j \in Source!Ids \ {i} : seg'[j] = seg[j]
<1>1. seg' \in [Source!Ids -> Fetched] /\ seg'[i] = s /\ \A j \in Source!Ids \ {i} : seg'[j] = seg[j]
  BY DEF SegmentsSound
<1>2. ASSUME NEW j \in Source!Ids PROVE Sound(seg[j], j)' 
  BY <1>1 DEF SegmentsSound, Sound
<1> QED BY <1>1, <1>2 DEF SegmentsSound

LEMMA ThreadKeeps ==
    ASSUME SourceInv, NEW i \in Source!Ids, NEW s \in Fetched, Sound(s, i),
           seg[i].state # "none", seg' = [seg EXCEPT ![i] = s], Charged, UNCHANGED Elsewhere,
           idle' \in [Source!Hosts -> 0..Window],
           idle'[0] + idle'[1] + Cardinality(Connected') <= Window
    PROVE  SourceInv'
<1>1. SegmentsSound'
  BY SegmentMoves DEF SourceInv, Elsewhere
<1>2. thread \in {"fetch", "settle"}
  BY DEF SourceInv, Quiet
<1>3. Plain'
  BY DEF SourceInv, Plain, Charged, Elsewhere
<1>4. Quiet' /\ Manifest' /\ Latched' /\ Outcomes'
  <2>1. Quiet' /\ Manifest' /\ Outcomes'
    BY <1>2 DEF SourceInv, Quiet, Manifest, Outcomes, Elsewhere
  <2>2. Latched'
    BY <1>2, SourceBounds DEF SourceInv, Latched, Charged, Elsewhere, Plain, Account
  <2> QED BY <2>1, <2>2
<1> QED BY <1>1, <1>3, <1>4 DEF SourceInv

\* No connection more, and the pool as it was.
LEMMA ThreadDisconnects ==
    ASSUME SourceInv, NEW i \in Source!Ids, NEW s \in Fetched, Sound(s, i), s.conn => seg[i].conn,
           seg[i].state # "none", seg' = [seg EXCEPT ![i] = s], Charged, UNCHANGED Elsewhere, UNCHANGED idle
    PROVE  SourceInv'
<1>1. Connected' \subseteq Connected
  BY SegmentMoves DEF Connected, SourceInv, Elsewhere
<1>2. Cardinality(Connected') <= Cardinality(Connected) /\ Cardinality(Connected') \in Nat
      /\ Cardinality(Connected) \in Nat
  BY <1>1, ConnectionsCounted, FS_CardinalityType DEF SourceInv
<1>3. idle[0] \in Nat /\ idle[1] \in Nat /\ idle \in [Source!Hosts -> 0..Window]
  BY SourceBounds DEF SourceInv, Plain, Source!Hosts
<1>4. idle'[0] + idle'[1] + Cardinality(Connected') <= Window
  BY <1>2, <1>3, SourceBounds DEF SourceInv
<1> QED BY <1>3, <1>4, ThreadKeeps

LEMMA RefusedBudget ==
    ASSUME SourceInv, NEW a \in {0} \cup Source!Ids
    PROVE  /\ Source!Refused(a) \in Account /\ Source!Refused(a).failure = budget.failure
           /\ Source!Refused(a).transfer = budget.transfer /\ Source!Refused(a).retries = budget.retries
           /\ Source!Refused(a).cancel.kind \in {"none", "cancelled"}
           /\ Source!Refused(a).cancel \in Source!Errors
           /\ Source!Refusal(a) \in Source!Errors
<1>1. budget \in Account /\ budget.cancel.kind \in {"none", "cancelled"} /\ budget.cancel \in Source!Errors
  BY DEF SourceInv, Plain, Latched, Account
<1>2. Source!Refused(a) = [budget EXCEPT !.cancel = IF active THEN @ ELSE Source!Error("cancelled", a)]
  BY DEF Source!Refused
<1>3. Source!Error("cancelled", a) \in Source!Errors /\ Source!Error("cancelled", a).kind = "cancelled"
  BY ErrorsAre
<1>4. Source!Refusal(a) \in Source!Errors
  BY <1>1, RefusalIs DEF SourceInv, Source!Refusal
<1> QED BY <1>1, <1>2, <1>3, <1>4 DEF Account

LEMMA AbortedBudget ==
    ASSUME NEW b \in Account, NEW e \in Source!Errors
    PROVE  /\ Source!Aborted(b, e) \in Account /\ Source!Aborted(b, e).failure = b.failure
           /\ Source!Aborted(b, e).cancel = b.cancel /\ Source!Aborted(b, e).retries = b.retries
BY DEF Account, Source!Aborted

LEMMA ThreadFails ==
    ASSUME SourceInv, NEW i \in Source!Ids, seg[i].state \in {"queued", "running"},
           NEW e \in Source!Errors, e # Source!NoError, NEW b \in Account,
           b.failure = budget.failure, b.retries = budget.retries, b.cancel.kind \in {"none", "cancelled"},
           Source!Fail(i, e, b), UNCHANGED Elsewhere, UNCHANGED idle
    PROVE  SourceInv'
<1> DEFINE s == [seg[i] EXCEPT !.state = "failed", !.error = e, !.conn = FALSE]
<1>1. seg[i] \in Fetched /\ Sound(seg[i], i)
  BY DEF SourceInv, SegmentsSound
<1>2. s \in Fetched /\ Sound(s, i) /\ ~s.conn
  BY <1>1 DEF Fetched, Sound
<1>3. seg' = [seg EXCEPT ![i] = s]
  BY DEF Source!Fail
<1>4. Charged
  <2>1. budget' = Source!Aborted(b, e)
    BY DEF Source!Fail
  <2> QED BY <2>1, AbortedBudget, SourceBounds DEF Charged, Account
<1> HIDE DEF s
<1> QED BY <1>2, <1>3, <1>4, ThreadDisconnects

LEMMA ThreadStep ==
    ASSUME SourceInv, NEW i \in Source!Ids, Source!Thread(i) PROVE SourceInv'
<1> USE SourceBounds
<1>1. seg[i] \in Fetched /\ Sound(seg[i], i) /\ seg \in [Source!Ids -> Fetched]
  BY DEF SourceInv, SegmentsSound
<1>2. /\ idle \in [Source!Hosts -> 0..Window] /\ 0 \in Source!Hosts /\ 1 \in Source!Hosts
      /\ Source!Host(i) \in {0, 1} /\ Source!Hosts = {0, 1} /\ idle[0] \in 0..Window /\ idle[1] \in 0..Window
  BY DEF SourceInv, Plain, Source!Hosts, Source!Host
<1>3. Cardinality(Connected) \in Nat /\ IsFiniteSet(Connected)
  BY ConnectionsCounted DEF SourceInv
<1>4. budget \in Account /\ budget.cancel.kind \in {"none", "cancelled"}
  BY DEF SourceInv, Plain, Latched
<1>5. budget' = budget => Charged
  BY <1>4 DEF Charged, Account
<1>6. CASE Source!Request(i)
  <2> DEFINE s == [seg[i] EXCEPT !.state = "running", !.got = 0, !.conn = TRUE]
  <2>1. /\ seg[i].state \in {"queued", "running"} /\ ~seg[i].conn /\ seg' = [seg EXCEPT ![i] = s]
        /\ UNCHANGED Elsewhere /\ budget' = budget /\ Source!Connect(i)
    BY <1>6 DEF Source!Request, Elsewhere
  <2>2. s \in Fetched /\ Sound(s, i) /\ s.conn
    BY <1>1, <2>1 DEF Fetched, Sound
  <2> HIDE DEF s
  <2>3. SegmentsSound' /\ seg'[i] = s /\ \A j \in Source!Ids \ {i} : seg'[j] = seg[j]
    BY <2>1, <2>2, SegmentMoves DEF SourceInv, Elsewhere
  <2>4. Connected' = Connected \cup {i}
    BY <2>2, <2>3 DEF Connected
  <2>5. Cardinality(Connected') \in Nat /\ Cardinality(Connected') <= Cardinality(Connected) + 1
    <3>1. i \notin Connected
      BY <2>1 DEF Connected
    <3>2. Cardinality(Connected \cup {i}) = Cardinality(Connected) + 1
      BY <1>3, <3>1, FS_AddElement
    <3> QED BY <1>3, <2>4, <3>2
  <2>6. Cardinality(Connected') <= Window
    <3>1. Len(joined') \in Nat
      BY <2>3 DEF SegmentsSound
    <3>2. Connected' \subseteq (Len(joined') + 1)..(Len(joined') + Window)
      BY <2>3, <3>1 DEF Connected, SegmentsSound, Sound, Source!Ids
    <3> QED BY <3>1, <3>2, WindowHolds
  <2>7. idle' \in [Source!Hosts -> 0..Window] /\ idle'[0] + idle'[1] + Cardinality(Connected') <= Window
    <3>1. CASE idle[Source!Host(i)] > 0
      BY <1>2, <1>3, <2>1, <2>5, <3>1 DEF Source!Connect, SourceInv
    <3>2. CASE ~(idle[Source!Host(i)] > 0) /\ idle[0] + idle[1] > 0
      BY <1>2, <1>3, <2>1, <2>5, <3>2 DEF Source!Connect, Source!Pooled, SourceInv
    <3>3. CASE ~(idle[Source!Host(i)] > 0) /\ ~(idle[0] + idle[1] > 0)
      BY <1>2, <2>1, <2>5, <2>6, <3>3 DEF Source!Connect, Source!Pooled
    <3> QED BY <3>1, <3>2, <3>3
  <2> QED BY <1>5, <2>1, <2>2, <2>7, ThreadKeeps
<1>7. CASE Source!Read(i)
  <2> DEFINE s == [seg[i] EXCEPT !.got = @ + 1, !.size = @ + 1]
  <2>0. seg' = [seg EXCEPT ![i] = s]
    BY <1>1, <1>7 DEF Source!Read
  <2>1. /\ seg[i].conn /\ seg[i].got < Chunks
        /\ UNCHANGED Elsewhere /\ UNCHANGED idle /\ budget' = budget
    BY <1>7 DEF Source!Read, Elsewhere
  <2>2. s \in Fetched /\ Sound(s, i) /\ seg[i].state # "none"
    <3>1. seg[i].got \in 0..Chunks /\ seg[i].size = seg[i].got /\ seg[i].state = "running"
      BY <1>1, <2>1 DEF Fetched, Sound
    <3>2. /\ s.got = seg[i].got + 1 /\ s.size = seg[i].size + 1 /\ s.state = seg[i].state
          /\ s.conn = seg[i].conn /\ s.error = seg[i].error
      BY <1>1 DEF Fetched
    <3>3. s \in Fetched
      <4>1. seg[i].got + 1 \in 0..Chunks /\ seg[i].size + 1 \in 0..Chunks
        BY <2>1, <3>1
      <4> QED BY <1>1, <4>1 DEF Fetched
    <3> HIDE DEF s
    <3> QED BY <1>1, <2>1, <3>1, <3>2, <3>3 DEF Sound
  <2> HIDE DEF s
  <2> QED BY <1>5, <2>0, <2>1, <2>2, ThreadDisconnects
<1>8. ASSUME NEW kept \in BOOLEAN, Source!Whole(i, kept) PROVE SourceInv'
  <2> DEFINE s == [seg[i] EXCEPT !.state = "done", !.conn = FALSE]
  <2>1. /\ seg[i].conn /\ seg[i].got = Chunks /\ seg' = [seg EXCEPT ![i] = s]
        /\ UNCHANGED Elsewhere /\ budget' = budget
        /\ idle' = IF kept /\ idle[0] + idle[1] < Window THEN [idle EXCEPT ![Source!Host(i)] = @ + 1] ELSE idle
    BY <1>8 DEF Source!Whole, Elsewhere, Source!Pooled
  <2>2. s \in Fetched /\ Sound(s, i) /\ seg[i].state # "none" /\ ~s.conn
    BY <1>1, <2>1 DEF Fetched, Sound
  <2> HIDE DEF s
  <2>3. seg'[i] = s /\ \A j \in Source!Ids \ {i} : seg'[j] = seg[j]
    BY <2>1, <2>2, SegmentMoves DEF SourceInv, Elsewhere
  <2>4. Connected' = Connected \ {i} /\ i \in Connected
    BY <2>1, <2>2, <2>3 DEF Connected
  <2>5. Cardinality(Connected') = Cardinality(Connected) - 1
    BY <1>3, <2>4, FS_RemoveElement
  <2>6. idle' \in [Source!Hosts -> 0..Window] /\ idle'[0] + idle'[1] <= idle[0] + idle[1] + 1
        /\ idle'[0] \in Nat /\ idle'[1] \in Nat
    BY <1>2, <2>1
  <2>7. idle'[0] + idle'[1] + Cardinality(Connected') <= Window
    BY <1>2, <1>3, <2>5, <2>6 DEF SourceInv
  <2> QED BY <1>5, <2>1, <2>2, <2>6, <2>7, ThreadKeeps
<1>9. CASE Source!Stopped(i)
  <2>1. /\ Source!Fail(i, Source!Refusal(i), Source!Refused(i)) /\ seg[i].state \in {"queued", "running"}
        /\ Source!Refusal(i) # Source!NoError /\ UNCHANGED Elsewhere /\ UNCHANGED idle
    BY <1>9 DEF Source!Stopped, Elsewhere
  <2> QED BY <2>1, RefusedBudget, ThreadFails
<1>10. CASE Source!RetryRequest(i)
  <2> DEFINE s == [Source!Truncated(seg[i]) EXCEPT !.attempt = seg[i].attempt + 1]
  <2>0. seg' = [seg EXCEPT ![i] = s]
    BY <1>10 DEF Source!RetryRequest
  <2>1. /\ seg[i].conn /\ seg[i].attempt < RequestRetries /\ budget.requests < ImportRetries
        /\ budget' = [budget EXCEPT !.requests = @ + 1]
        /\ UNCHANGED Elsewhere /\ UNCHANGED idle
    BY <1>10 DEF Source!RetryRequest, Elsewhere
  <2>2. s \in Fetched /\ Sound(s, i) /\ ~s.conn /\ seg[i].state # "none"
    <3>1. seg[i].attempt + 1 \in 0..RequestRetries /\ seg[i].state = "running" /\ 0 \in 0..Chunks
      BY <1>1, <2>1 DEF Fetched, Sound
    <3>2. /\ s.size = 0 /\ s.state = seg[i].state /\ s.conn = FALSE /\ s.error = seg[i].error
          /\ s.attempt = seg[i].attempt + 1
      BY <1>1 DEF Fetched, Source!Truncated
    <3>3. s \in Fetched
      BY <1>1, <3>1 DEF Fetched, Source!Truncated
    <3> HIDE DEF s
    <3> QED BY <1>1, <2>1, <3>1, <3>2, <3>3 DEF Sound
  <2>3. Charged
    BY <1>4, <2>1 DEF Charged, Account
  <2> HIDE DEF s
  <2> QED BY <2>0, <2>1, <2>2, <2>3, ThreadDisconnects
<1>11. CASE Source!RetryInPlace(i)
  <2> DEFINE s == Source!Truncated(seg[i])
  <2>1. /\ seg[i].conn /\ budget.retries < 1
        /\ budget' = [budget EXCEPT !.retries = @ + 1] /\ seg' = [seg EXCEPT ![i] = s]
        /\ UNCHANGED Elsewhere /\ UNCHANGED idle
    BY <1>11 DEF Source!RetryInPlace, Elsewhere
  <2>2. s \in Fetched /\ Sound(s, i) /\ ~s.conn /\ seg[i].state # "none"
    <3>1. seg[i].state = "running" /\ 0 \in 0..Chunks
      BY <1>1, <2>1 DEF Fetched, Sound
    <3>2. s.size = 0 /\ s.state = seg[i].state /\ s.conn = FALSE /\ s.error = seg[i].error
      BY <1>1 DEF Fetched, Source!Truncated
    <3>3. s \in Fetched
      BY <1>1, <3>1 DEF Fetched, Source!Truncated
    <3> HIDE DEF s
    <3> QED BY <1>1, <2>1, <3>1, <3>2, <3>3 DEF Sound
  <2>3. Charged
    BY <1>4, <2>1 DEF Charged, Account
  <2> HIDE DEF s
  <2> QED BY <2>1, <2>2, <2>3, ThreadDisconnects
<1>12. CASE Source!GiveUp(i)
  <2>1. PICK k \in {"proxy", "denied"} : Source!Fail(i, Source!Error(k, i), budget)
    BY <1>12 DEF Source!GiveUp
  <2>2. seg[i].state \in {"queued", "running"} /\ UNCHANGED Elsewhere /\ UNCHANGED idle
    BY <1>1, <1>12 DEF Source!GiveUp, Sound, Elsewhere
  <2>3. Source!Error(k, i) \in Source!Errors /\ Source!Error(k, i) # Source!NoError
    BY ErrorsAre
  <2> QED BY <1>4, <2>1, <2>2, <2>3, ThreadFails
<1> QED BY <1>6, <1>7, <1>8, <1>9, <1>10, <1>11, <1>12 DEF Source!Thread

-----------------------------------------------------------------------------
(* The importing thread *)

\* The transfer is over or has not begun: a step of the importing thread that
\* leaves the segments alone.
LEMMA QuietKeeps ==
    ASSUME SourceInv, Plain', Latched', Outcomes', UNCHANGED <<seg, joined>>, Quiet',
           thread' \in {"prepare", "checksum"} \/ (thread' = "settle" /\ raised' = Source!NoError) => Len(joined) = Segments,
           idle'[0] + idle'[1] <= idle[0] + idle[1]
    PROVE  SourceInv'
<1>1. SegmentsSound' /\ Connected' = Connected
  BY DEF SourceInv, SegmentsSound, Sound, Connected
<1>2. Manifest'
  BY DEF SourceInv, Manifest
<1>3. Cardinality(Connected) \in Nat
  BY ConnectionsCounted DEF SourceInv
<1>4. idle[0] \in Nat /\ idle[1] \in Nat /\ idle'[0] \in Nat /\ idle'[1] \in Nat
  BY SourceBounds DEF SourceInv, Plain, Source!Hosts
<1>5. idle'[0] + idle'[1] + Cardinality(Connected') <= Window
  BY <1>1, <1>3, <1>4, SourceBounds DEF SourceInv
<1> QED BY <1>1, <1>2, <1>5 DEF SourceInv

LEMMA ExtractFailsKeeps == SourceInv /\ Source!ExtractFails => SourceInv'
<1> SUFFICES ASSUME SourceInv, Source!ExtractFails PROVE SourceInv'
  OBVIOUS
<1> USE SourceBounds
<1>1. /\ thread = "extract" /\ thread' = "raised"
      /\ UNCHANGED <<active, late, seg, joined, idle, rotation, recovering, output, outcome>>
  BY DEF Source!ExtractFails, Source!Unwind
<1>2. /\ budget' \in Account /\ raised' \in Source!Errors /\ raised' # Source!NoError
      /\ budget'.failure = raised' /\ budget'.transfer = budget.transfer /\ budget'.retries = budget.retries
      /\ budget'.cancel.kind \in {"none", "cancelled"}
  <2>1. CASE /\ Source!Refusal(0) # Source!NoError /\ raised' = Source!Refusal(0)
             /\ budget' = [Source!Refused(0) EXCEPT !.failure = Source!Refusal(0)]
    BY <2>1, RefusedBudget DEF Account
  <2>2. ASSUME NEW k \in {"proxy", "denied"}, raised' = Source!Error(k, 0), budget' = [budget EXCEPT !.failure = Source!Error(k, 0)]
        PROVE  /\ budget' \in Account /\ raised' \in Source!Errors /\ raised' # Source!NoError
               /\ budget'.failure = raised' /\ budget'.transfer = budget.transfer /\ budget'.retries = budget.retries
               /\ budget'.cancel.kind \in {"none", "cancelled"}
    <3>1. Source!Error(k, 0) \in Source!Errors /\ Source!Error(k, 0) # Source!NoError
      BY ErrorsAre
    <3> QED BY <2>2, <3>1 DEF SourceInv, Plain, Latched, Account
  <2> QED BY <2>1, <2>2 DEF Source!ExtractFails, Source!Unwind, Source!Main
<1>3. Plain' /\ Quiet'
  BY <1>1, <1>2 DEF SourceInv, Plain, Quiet
<1>4. Latched' /\ Outcomes'
  BY <1>1, <1>2 DEF SourceInv, Plain, Latched, Outcomes
<1> QED BY <1>1, <1>3, <1>4, QuietKeeps DEF SourceInv, Plain, Source!Hosts

LEMMA ExtractedKeeps == SourceInv /\ Source!Extracted => SourceInv'
<1> SUFFICES ASSUME SourceInv, Source!Extracted PROVE SourceInv'
  OBVIOUS
<1> USE SourceBounds
<1>1. thread = "extract" /\ UNCHANGED <<active, late, budget, idle, rotation, output, outcome>> /\ recovering' = FALSE
  BY DEF Source!Extracted
<1>2. CASE thread' = "raised" /\ raised' = Source!Error("notice", 0) /\ UNCHANGED <<seg, joined>>
  <2>1. raised' \in Source!Errors /\ raised' # Source!NoError
    BY <1>2, ErrorsAre
  <2>2. Plain' /\ Quiet'
    BY <1>1, <1>2, <2>1 DEF SourceInv, Plain, Quiet
  <2>3. Latched' /\ Outcomes'
    BY <1>1, <1>2, <2>1 DEF SourceInv, Plain, Latched, Outcomes
  <2> QED BY <1>1, <1>2, <2>2, <2>3, QuietKeeps DEF SourceInv, Plain, Source!Hosts
<1>3. CASE /\ thread' = "fetch" /\ joined' = <<>> /\ UNCHANGED raised
           /\ seg' = [i \in Source!Ids |-> [Source!Fresh EXCEPT !.state = IF i <= Window THEN "queued" ELSE @]]
  <2>1. /\ \A i \in Source!Ids : /\ seg'[i] \in Fetched /\ ~seg'[i].conn /\ seg'[i].size = 0
                                 /\ seg'[i].state \in {"none", "queued"} /\ (seg'[i].state = "queued" => i <= Window)
        /\ seg' \in [Source!Ids -> Fetched]
    <3>1. /\ Source!Fresh \in Fetched /\ ~Source!Fresh.conn /\ Source!Fresh.size = 0 /\ Source!Fresh.state = "none"
          /\ [Source!Fresh EXCEPT !.state = "queued"] \in Fetched /\ ~[Source!Fresh EXCEPT !.state = "queued"].conn
          /\ [Source!Fresh EXCEPT !.state = "queued"].size = 0 /\ [Source!Fresh EXCEPT !.state = "queued"].state = "queued"
          /\ [Source!Fresh EXCEPT !.state = "none"] = Source!Fresh
      <4> DEFINE q == [Source!Fresh EXCEPT !.state = "queued"]
      <4>1. /\ Source!Fresh \in Fetched /\ Source!Fresh.conn = FALSE /\ Source!Fresh.size = 0
            /\ Source!Fresh.state = "none"
        BY ErrorsAre DEF Source!Fresh, Fetched
      <4>2. q \in Fetched /\ q.conn = Source!Fresh.conn /\ q.size = Source!Fresh.size /\ q.state = "queued"
        BY <4>1 DEF Fetched
      <4>3. [Source!Fresh EXCEPT !.state = "none"] = Source!Fresh
        BY <4>1 DEF Fetched
      <4> HIDE DEF q
      <4> QED BY <4>1, <4>2, <4>3 DEF q
    <3>2. ASSUME NEW i \in Source!Ids
          PROVE  seg'[i] = IF i <= Window THEN [Source!Fresh EXCEPT !.state = "queued"] ELSE Source!Fresh
      <4>1. seg'[i] = [Source!Fresh EXCEPT !.state = IF i <= Window THEN "queued" ELSE Source!Fresh.state]
        BY <1>3
      <4> QED BY <3>1, <4>1
    <3>3. \A i \in Source!Ids : seg'[i] \in Fetched
      BY <3>1, <3>2
    <3>4. seg' \in [Source!Ids -> Fetched]
      BY <1>3, <3>3
    <3> QED BY <3>1, <3>2, <3>3, <3>4
  <2>2. joined' \in Seq(Source!Ids \X {Chunks}) /\ Len(joined') = 0
    BY <1>3
  <2>3. SegmentsSound'
    BY <2>1, <2>2 DEF SegmentsSound, Sound, Source!Ids
  <2>4. Connected' = {}
    BY <2>1 DEF Connected
  <2>5. Cardinality(Connected') = 0
    BY <2>4, FS_EmptySet
  <2>6. Plain' /\ Quiet' /\ idle'[0] = 0 /\ idle'[1] = 0
    BY <1>1, <1>3 DEF SourceInv, Plain, Quiet
  <2>7. Latched' /\ Outcomes' /\ Manifest'
    BY <1>1, <1>3, <2>2 DEF SourceInv, Plain, Latched, Outcomes, Manifest
  <2> QED BY <2>3, <2>5, <2>6, <2>7 DEF SourceInv
<1> QED BY <1>2, <1>3 DEF Source!Extracted, Source!Unwind, Source!Main

LEMMA AppendKeeps == SourceInv /\ Source!Append1 => SourceInv'
<1> SUFFICES ASSUME SourceInv, Source!Append1 PROVE SourceInv'
  OBVIOUS
<1> USE SourceBounds
<1> DEFINE h == Len(joined) + 1
<1>1. /\ thread = "fetch" /\ h \in Source!Ids /\ seg[h].state = "done" /\ joined' = Append(joined, <<h, seg[h].size>>)
      /\ seg' = Source!Submit([seg EXCEPT ![h].state = "none"], h + Window)
      /\ UNCHANGED <<active, late, budget, thread, raised, idle, rotation, recovering, output, outcome>>
  BY DEF Source!Append1, Source!Head1
<1>2. seg \in [Source!Ids -> Fetched] /\ Len(joined) \in Nat /\ \A i \in Source!Ids : Sound(seg[i], i) /\ seg[i] \in Fetched
  BY DEF SourceInv, SegmentsSound
<1>3. seg[h].size = Chunks /\ ~seg[h].conn
  BY <1>1, <1>2 DEF Sound
<1>4. /\ joined' \in Seq(Source!Ids \X {Chunks}) /\ Len(joined') = h
      /\ joined'[h] = <<h, Chunks>> /\ \A k \in 1..Len(joined) : joined'[k] = joined[k]
  BY <1>1, <1>3, AppendProperties DEF SourceInv, SegmentsSound
<1>5. \A i \in Source!Ids : i # h /\ i # h + Window => seg'[i] = seg[i]
  BY <1>1, <1>2 DEF Source!Submit
<1>6. seg'[h] = [seg[h] EXCEPT !.state = "none"]
  <2> DEFINE s == [seg EXCEPT ![h].state = "none"]
  <2>1. s[h] = [seg[h] EXCEPT !.state = "none"] /\ seg' = Source!Submit(s, h + Window)
    BY <1>1, <1>2
  <2>2. \A i \in Source!Ids : [s EXCEPT ![i].state = "queued"][h] = IF i = h THEN [s[h] EXCEPT !.state = "queued"] ELSE s[h]
    BY <1>1, <1>2
  <2>3. h + Window # h
    OBVIOUS
  <2> HIDE DEF s
  <2> QED BY <2>1, <2>2, <2>3 DEF Source!Submit
<1>7. h + Window \in Source!Ids => seg'[h + Window] = [seg[h + Window] EXCEPT !.state = "queued"]
  BY <1>1, <1>2 DEF Source!Submit
<1>8. seg'[h] \in Fetched /\ seg'[h].state = "none" /\ ~seg'[h].conn
  BY <1>1, <1>2, <1>3, <1>6 DEF Fetched
<1>9. h + Window \in Source!Ids =>
         seg'[h + Window] \in Fetched /\ seg'[h + Window].state = "queued" /\ ~seg'[h + Window].conn
         /\ seg'[h + Window].size = 0
  <2>1. h + Window \in Source!Ids => seg[h + Window].state = "none" /\ seg[h + Window].size = 0 /\ ~seg[h + Window].conn
    BY <1>2 DEF Sound
  <2> QED BY <1>2, <1>7, <2>1 DEF Fetched
<1>10. seg' \in [Source!Ids -> Fetched]
  <2>1. \A i \in Source!Ids : seg'[i] \in Fetched
    BY <1>2, <1>5, <1>8, <1>9
  <2>2. seg' = [i \in Source!Ids |-> seg'[i]]
    BY <1>1, <1>2 DEF Source!Submit
  <2> QED BY <2>1, <2>2
<1>11. SegmentsSound'
  <2>1. ASSUME NEW i \in Source!Ids PROVE Sound(seg[i], i)'
    <3>1. CASE i = h
      BY <1>2, <1>4, <1>8, <3>1 DEF Sound
    <3>2. CASE i = h + Window
      BY <1>2, <1>4, <1>9, <3>2 DEF Sound
    <3>3. CASE i # h /\ i # h + Window
      <4>1. Sound(seg[i], i) /\ seg'[i] = seg[i] /\ Len(joined') = Len(joined) + 1 /\ Len(joined) + 1 # i
        BY <1>2, <1>4, <1>5, <3>3
      <4>2. Len(joined) \in Nat /\ i \in Nat
        BY <1>2 DEF Source!Ids
      <4> QED BY <4>1, <4>2 DEF Sound
    <3> QED BY <3>1, <3>2, <3>3
  <2>2. Len(joined') <= Segments
    BY <1>1, <1>4 DEF Source!Ids
  <2> QED BY <1>4, <1>10, <2>1, <2>2 DEF SegmentsSound
<1>12. Connected' \subseteq Connected
  BY <1>5, <1>8, <1>9 DEF Connected
<1>13. Cardinality(Connected') <= Cardinality(Connected) /\ Cardinality(Connected') \in Nat /\ Cardinality(Connected) \in Nat
  BY <1>12, ConnectionsCounted, FS_CardinalityType DEF SourceInv
<1> HIDE DEF h
<1>14. Plain' /\ Quiet' /\ Latched' /\ Outcomes'
  BY <1>1 DEF SourceInv, Plain, Quiet, Latched, Outcomes
<1>15. Manifest'
  BY <1>1, <1>2, <1>4 DEF SourceInv, Manifest, h
<1>16. idle'[0] + idle'[1] + Cardinality(Connected') <= Window
  <2>1. idle' = idle /\ idle[0] \in Nat /\ idle[1] \in Nat /\ idle[0] + idle[1] + Cardinality(Connected) <= Window
    BY <1>1 DEF SourceInv, Plain, Source!Hosts
  <2> QED BY <1>13, <2>1
<1> QED BY <1>11, <1>14, <1>15, <1>16 DEF SourceInv

LEMMA TransferEndsKeeps == SourceInv /\ (Source!TransferFails \/ Source!AllAppended) => SourceInv'
<1> SUFFICES ASSUME SourceInv, Source!TransferFails \/ Source!AllAppended PROVE SourceInv'
  OBVIOUS
<1> USE SourceBounds
<1>1. CASE Source!TransferFails
  <2>1. /\ thread = "fetch" /\ Len(joined) + 1 \in Source!Ids /\ thread' = "settle"
        /\ UNCHANGED <<active, late, seg, joined, idle, rotation, recovering, output, outcome>>
    BY <1>1 DEF Source!TransferFails, Source!Head1
  <2>2. /\ budget' \in Account /\ raised' \in Source!Errors /\ raised' # Source!NoError
        /\ budget'.failure = budget.failure /\ budget'.retries = budget.retries
        /\ budget'.cancel.kind \in {"none", "cancelled"}
    <3>1. CASE /\ seg[Len(joined) + 1].state = "failed" /\ raised' = seg[Len(joined) + 1].error
               /\ budget' = Source!Aborted(budget, raised')
      <4>1. raised' \in Source!Errors /\ raised' # Source!NoError
        BY <2>1, <3>1 DEF SourceInv, SegmentsSound, Sound, Fetched
      <4>2. budget \in Account /\ budget.cancel.kind \in {"none", "cancelled"}
        BY DEF SourceInv, Plain, Latched
      <4> QED BY <3>1, <4>1, <4>2, AbortedBudget
    <3>2. CASE /\ Source!Refusal(0) # Source!NoError /\ raised' = Source!Refusal(0)
               /\ budget' = Source!Aborted(Source!Refused(0), raised')
      <4>1. /\ Source!Refused(0) \in Account /\ Source!Refused(0).failure = budget.failure
            /\ Source!Refused(0).retries = budget.retries /\ Source!Refused(0).cancel.kind \in {"none", "cancelled"}
            /\ raised' \in Source!Errors
        BY <3>2, RefusedBudget
      <4> QED BY <3>2, <4>1, AbortedBudget
    <3> QED BY <1>1, <3>1, <3>2 DEF Source!TransferFails, Source!Head1, Source!Main
  <2>3. Plain' /\ Quiet'
    BY <2>1, <2>2 DEF SourceInv, Plain, Quiet
  <2>4. Latched' /\ Outcomes'
    BY <2>1, <2>2 DEF SourceInv, Plain, Latched, Outcomes
  <2> QED BY <2>1, <2>2, <2>3, <2>4, QuietKeeps DEF SourceInv, Plain, Source!Hosts
<1>2. CASE Source!AllAppended
  <2>1. /\ thread = "fetch" /\ Len(joined) + 1 = Segments + 1 /\ thread' = "settle"
        /\ UNCHANGED <<active, late, budget, raised, seg, joined, idle, rotation, recovering, output, outcome>>
    BY <1>2 DEF Source!AllAppended, Source!Head1
  <2>2. Len(joined) = Segments
    BY <2>1 DEF SourceInv, SegmentsSound
  <2>3. Plain' /\ Quiet' /\ Latched' /\ Outcomes'
    BY <2>1 DEF SourceInv, Plain, Quiet, Latched, Outcomes
  <2> QED BY <2>1, <2>2, <2>3, QuietKeeps DEF SourceInv, Plain, Source!Hosts
<1> QED BY <1>1, <1>2

LEMMA SettleKeeps == SourceInv /\ Source!Settle => SourceInv'
<1> SUFFICES ASSUME SourceInv, Source!Settle PROVE SourceInv'
  OBVIOUS
<1> USE SourceBounds
<1>1. /\ thread = "settle" /\ thread' = IF raised = Source!NoError THEN "prepare" ELSE "raised"
      /\ seg' = [i \in Source!Ids |-> Source!Fresh] /\ idle' = [h \in Source!Hosts |-> 0]
      /\ budget' = [budget EXCEPT !.transfer = Source!NoError]
      /\ UNCHANGED <<active, late, raised, joined, rotation, recovering, output, outcome>>
  BY DEF Source!Settle, Source!Joinable, Source!Finished
<1>2. Source!Fresh \in Fetched /\ Source!Fresh.size = 0 /\ Source!Fresh.conn = FALSE /\ Source!Fresh.state = "none"
  BY ErrorsAre DEF Source!Fresh, Fetched
<1>3. SegmentsSound'
  <2>1. \A i \in Source!Ids : seg'[i] = Source!Fresh
    BY <1>1
  <2>2. seg' \in [Source!Ids -> Fetched]
    BY <1>1, <1>2
  <2>3. \A i \in Source!Ids : Sound(seg[i], i)'
    BY <1>2, <2>1 DEF Sound
  <2> QED BY <1>1, <2>2, <2>3 DEF SourceInv, SegmentsSound
<1>4. Connected' = {}
  BY <1>1, <1>2 DEF Connected
<1>5. Cardinality(Connected') = 0
  BY <1>4, FS_EmptySet
<1>6. budget' \in Account /\ budget'.failure = budget.failure /\ budget'.cancel = budget.cancel
      /\ budget'.retries = budget.retries /\ budget'.transfer = Source!NoError
  BY <1>1, ErrorsAre DEF SourceInv, Plain, Account
<1>7. idle' \in [Source!Hosts -> 0..Window] /\ idle'[0] = 0 /\ idle'[1] = 0
  BY <1>1 DEF Source!Hosts
<1>8. Plain' /\ Quiet'
  <2>1. Plain'
    BY <1>1, <1>6, <1>7 DEF SourceInv, Plain
  <2>2. Quiet'
    BY <1>1, <1>2, <1>6, <1>7 DEF Quiet
  <2> QED BY <2>1, <2>2
<1>9. Latched' /\ Outcomes' /\ Manifest'
  BY <1>1, <1>6 DEF SourceInv, Latched, Outcomes, Manifest
<1> QED BY <1>3, <1>5, <1>7, <1>8, <1>9 DEF SourceInv

\* Once no error is latched, only the end of the lease or of the time refuses anything.
LEMMA RefusedByTheClock ==
    ASSUME SourceInv, NEW b \in Account, b.failure = Source!NoError, b.transfer = Source!NoError,
           Source!RefusalBy(b, 0) # Source!NoError
    PROVE  (~active \/ late) /\ Source!RefusalBy(b, 0).kind # "proxy"
<1>1. Plain
  BY DEF SourceInv
<1>2. Source!Error("cancelled", 0).kind = "cancelled" /\ Source!Error("timeout", 0).kind = "timeout"
  BY ErrorsAre
<1> QED BY <1>1, <1>2, RefusalIs DEF Plain

LEMMA MakeMp4Keeps == SourceInv /\ (Source!MakeMp4 \/ Source!Checksum) => SourceInv'
<1> SUFFICES ASSUME SourceInv, Source!MakeMp4 \/ Source!Checksum PROVE SourceInv'
  OBVIOUS
<1> USE SourceBounds
<1>1. thread \in {"prepare", "checksum"} /\ Len(joined) = Segments /\ raised = Source!NoError
      /\ UNCHANGED <<active, late, seg, joined, idle, rotation, recovering, outcome>> /\ output' = TRUE
  BY DEF Source!MakeMp4, Source!Checksum, SourceInv, Manifest, Latched, Outcomes, Plain
<1>2. budget \in Account /\ budget.failure = Source!NoError /\ budget.transfer = Source!NoError
  BY <1>1 DEF SourceInv, Plain, Quiet, Latched
<1>3. Source!Refusal(0) \in Source!Errors
      /\ (Source!Refusal(0) # Source!NoError => Source!Refusal(0).kind # "proxy")
  BY <1>2, RefusedByTheClock, RefusedBudget DEF Source!Refusal
<1>4. /\ thread' \in {"checksum", "ended"} /\ (thread' = "checksum" => raised' = Source!NoError)
      /\ raised' \in Source!Errors /\ raised'.kind # "proxy"
      /\ budget' \in Account /\ budget'.failure = Source!NoError /\ budget'.transfer = Source!NoError
      /\ budget'.retries = budget.retries /\ budget'.cancel.kind \in {"none", "cancelled"}
  <2>1. /\ Source!NoError.kind = "none" /\ Source!Error("denied", 0).kind = "denied"
        /\ Source!Error("denied", 0) \in Source!Errors /\ Source!NoError \in Source!Errors
    BY ErrorsAre
  <2>2. budget' = budget \/ budget' = Source!Refused(0)
    BY DEF Source!MakeMp4, Source!Checksum, Source!Main
  <2>3. /\ budget' \in Account /\ budget'.failure = Source!NoError /\ budget'.transfer = Source!NoError
        /\ budget'.retries = budget.retries /\ budget'.cancel.kind \in {"none", "cancelled"}
    BY <1>2, <2>2, RefusedBudget DEF SourceInv, Latched
  <2> QED BY <1>1, <1>3, <2>1, <2>3 DEF Source!MakeMp4, Source!Checksum, Source!Main, Source!Unwind
<1>5. Plain' /\ Quiet'
  BY <1>1, <1>4 DEF SourceInv, Plain, Quiet
<1>6. Latched' /\ Outcomes'
  BY <1>1, <1>4 DEF SourceInv, Plain, Latched, Outcomes
<1> QED BY <1>1, <1>5, <1>6, QuietKeeps DEF SourceInv, Plain, Source!Hosts

LEMMA RecoverKeeps == SourceInv /\ Source!Recover => SourceInv'
<1> SUFFICES ASSUME SourceInv, Source!Recover PROVE SourceInv'
  OBVIOUS
<1> USE SourceBounds
<1> DEFINE b == Source!Cleared(budget, raised)
<1>1. /\ thread = "raised" /\ raised # Source!NoError /\ raised \in Source!Errors /\ budget \in Account
      /\ budget.failure \in {Source!NoError, raised} /\ budget.transfer = Source!NoError
      /\ idle[0] = 0 /\ idle[1] = 0 /\ outcome = "none"
      /\ UNCHANGED <<active, late, seg, joined, rotation, output, outcome>>
  BY DEF Source!Recover, SourceInv, Plain, Quiet, Latched, Outcomes
<1>2. b \in Account /\ b.failure = Source!NoError /\ b.transfer = Source!NoError /\ b.retries = budget.retries
      /\ b.cancel = budget.cancel
  BY <1>1, ErrorsAre DEF Source!Cleared, Account
<1> HIDE DEF b
<1>3. Source!RefusalBy(b, 0) \in Source!Errors
  BY <1>2, RefusalIs DEF SourceInv
<1>4. budget.cancel.kind \in {"none", "cancelled"} /\ rotation <= budget.retries /\ rotation \in 0..Rotations
      /\ budget.retries \in 0..Rotations
  BY <1>1 DEF SourceInv, Latched, Plain, Account
<1>5. CASE /\ Source!RefusalBy(b, 0) # Source!NoError /\ thread' = "ended" /\ raised' = Source!RefusalBy(b, 0)
           /\ budget' = [b EXCEPT !.cancel = Source!Refused(0).cancel] /\ UNCHANGED <<idle, recovering>>
  <2>1. /\ budget' \in Account /\ budget'.failure = b.failure /\ budget'.transfer = b.transfer
        /\ budget'.retries = b.retries /\ budget'.cancel.kind \in {"none", "cancelled"}
    BY <1>2, <1>5, RefusedBudget DEF Account
  <2>2. raised' \in Source!Errors /\ raised'.kind # "proxy" /\ raised' # Source!NoError
    BY <1>2, <1>3, <1>5, RefusedByTheClock
  <2>3. Plain' /\ Quiet'
    BY <1>1, <1>2, <1>5, <2>1, <2>2 DEF SourceInv, Plain, Quiet
  <2>4. Latched' /\ Outcomes'
    BY <1>1, <1>2, <1>4, <1>5, <2>1, <2>2 DEF SourceInv, Latched, Outcomes
  <2> QED BY <1>1, <1>5, <2>3, <2>4, QuietKeeps
<1>6. CASE Source!Spent(b) /\ thread' = "ended" /\ budget' = b /\ UNCHANGED <<raised, idle, recovering>>
  <2>1. budget'.retries = Rotations
    BY <1>2, <1>4, <1>6 DEF Source!Spent
  <2>2. Plain' /\ Quiet'
    BY <1>1, <1>2, <1>6 DEF SourceInv, Plain, Quiet
  <2>3. Latched' /\ Outcomes'
    BY <1>1, <1>2, <1>4, <1>6, <2>1 DEF SourceInv, Latched, Outcomes
  <2> QED BY <1>1, <1>6, <2>2, <2>3, QuietKeeps
<1>7. CASE /\ ~Source!Spent(b) /\ budget' = [b EXCEPT !.retries = @ + 1]
           /\ idle' = [h \in Source!Hosts |-> 0] /\ recovering' = TRUE
           /\ \/ thread' = "pause" /\ UNCHANGED raised
              \/ thread' = "ended" /\ raised' = Source!Error("notice", 0)
  <2>1. /\ budget' \in Account /\ budget'.failure = b.failure /\ budget'.transfer = b.transfer
        /\ budget'.retries = b.retries + 1 /\ budget'.cancel = b.cancel
    BY <1>2, <1>7 DEF Source!Spent, Account
  <2>2. /\ Source!Error("notice", 0) \in Source!Errors /\ Source!Error("notice", 0).kind = "notice"
        /\ Source!Error("notice", 0) # Source!NoError
    BY ErrorsAre
  <2>3. idle' \in [Source!Hosts -> 0..Window] /\ idle'[0] = 0 /\ idle'[1] = 0
    BY <1>7 DEF Source!Hosts
  <2>4. Plain' /\ Quiet'
    BY <1>1, <1>2, <1>7, <2>1, <2>2, <2>3 DEF SourceInv, Plain, Quiet
  <2>5. Latched' /\ Outcomes'
    BY <1>1, <1>2, <1>4, <1>7, <2>1, <2>2 DEF SourceInv, Latched, Outcomes
  <2> QED BY <1>1, <1>7, <2>3, <2>4, <2>5, QuietKeeps
<1> QED BY <1>5, <1>6, <1>7 DEF Source!Recover, Source!Main, b

LEMMA RestKeeps ==
    SourceInv /\ (\/ Source!GiveUpImport \/ Source!Rotate \/ Source!End \/ Source!LeaseEnds
                  \/ Source!DeadlinePasses \/ UNCHANGED source) => SourceInv'
<1> SUFFICES ASSUME SourceInv, \/ Source!GiveUpImport \/ Source!Rotate \/ Source!End \/ Source!LeaseEnds
                               \/ Source!DeadlinePasses \/ UNCHANGED source
             PROVE  SourceInv'
  OBVIOUS
<1> USE SourceBounds
<1>0. idle[0] \in Nat /\ idle[1] \in Nat
  BY DEF SourceInv, Plain, Source!Hosts
<1>1. CASE Source!GiveUpImport
  <2>1. /\ thread = "raised" /\ thread' = "ended" /\ raised # Source!NoError /\ outcome = "none"
        /\ (raised.kind # "proxy" \/ raised = budget.cancel)
        /\ UNCHANGED <<active, late, budget, raised, seg, joined, idle, rotation, recovering, output, outcome>>
    BY <1>1 DEF Source!GiveUpImport, Source!Recoverable, Source!Retryable, SourceInv, Latched, Outcomes
  <2>2. raised.kind # "proxy"
    BY <2>1 DEF SourceInv, Latched
  <2>3. Plain' /\ Quiet' /\ Latched' /\ Outcomes'
    BY <2>1, <2>2 DEF SourceInv, Plain, Quiet, Latched, Outcomes
  <2> QED BY <1>0, <2>1, <2>3, QuietKeeps
<1>2. CASE Source!Rotate
  <2>1. /\ thread = "pause" /\ budget.failure = Source!NoError /\ budget.transfer = Source!NoError
        /\ UNCHANGED <<active, late, seg, joined, idle, recovering, output, outcome>> /\ outcome = "none"
        /\ rotation < budget.retries /\ rotation \in 0..Rotations /\ budget \in Account
        /\ budget.retries \in 0..Rotations /\ budget.cancel.kind \in {"none", "cancelled"}
    BY <1>2 DEF Source!Rotate, SourceInv, Latched, Outcomes, Quiet, Plain, Account
  <2>2. CASE thread' = "extract" /\ rotation' = rotation + 1 /\ raised' = Source!NoError /\ UNCHANGED budget
    <3>1. Plain' /\ Quiet' /\ Latched' /\ Outcomes'
      BY <2>1, <2>2, ErrorsAre DEF SourceInv, Plain, Quiet, Latched, Outcomes
    <3> QED BY <1>0, <2>1, <2>2, <3>1, QuietKeeps
  <2>3. CASE /\ Source!Refusal(0) # Source!NoError /\ thread' = "ended" /\ raised' = Source!Refusal(0)
             /\ budget' = Source!Refused(0) /\ UNCHANGED rotation
    <3>1. raised' \in Source!Errors /\ raised'.kind # "proxy" /\ raised' # Source!NoError
      BY <2>1, <2>3, RefusedByTheClock, RefusedBudget DEF Source!Refusal
    <3>2. /\ budget' \in Account /\ budget'.failure = budget.failure /\ budget'.transfer = budget.transfer
          /\ budget'.retries = budget.retries /\ budget'.cancel.kind \in {"none", "cancelled"}
      BY <2>3, RefusedBudget
    <3>3. Plain' /\ Quiet'
      BY <2>1, <2>3, <3>1, <3>2 DEF SourceInv, Plain, Quiet
    <3>4. Latched' /\ Outcomes'
      BY <2>1, <2>3, <3>1, <3>2 DEF SourceInv, Latched, Outcomes
    <3> QED BY <1>0, <2>1, <2>3, <3>3, <3>4, QuietKeeps
  <2> QED BY <1>2, <2>2, <2>3 DEF Source!Rotate, Source!Passes, Source!Main
<1>3. CASE Source!End
  <2>1. /\ thread = "ended" /\ outcome = "none" /\ output' = Source!OutputKept
        /\ outcome' = (CASE raised = Source!NoError -> "complete"
                    [] raised.kind \in {"proxy", "denied", "timeout"} -> "failed"
                    [] raised.kind = "cancelled" /\ raised = budget.cancel -> "cancelled"
                    [] OTHER -> "masked")
        /\ UNCHANGED <<active, late, budget, thread, raised, seg, joined, idle, rotation, recovering>>
    BY <1>3 DEF Source!End
  <2>2. outcome' \in {"complete", "failed", "cancelled", "masked"} /\ (outcome' = "complete" <=> raised = Source!NoError)
    <3>1. CASE raised = Source!NoError
      <4>1. raised.kind = "none"
        BY <3>1, ErrorsAre
      <4> QED BY <2>1, <3>1, <4>1
    <3>2. CASE raised # Source!NoError
      BY <2>1, <3>2
    <3> QED BY <3>1, <3>2
  <2>3. output' \in BOOLEAN /\ (output' <=> outcome' = "complete")
    BY <2>1, <2>2 DEF Source!OutputKept, SourceInv, Outcomes, Plain
  <2>4. Plain' /\ Quiet' /\ Latched' /\ Outcomes'
    BY <2>1, <2>2, <2>3 DEF SourceInv, Plain, Quiet, Latched, Outcomes
  <2> QED BY <1>0, <2>1, <2>4, QuietKeeps
<1>4. CASE Source!LeaseEnds \/ Source!DeadlinePasses \/ UNCHANGED source
  <2>1. /\ active' \in BOOLEAN /\ late' \in BOOLEAN /\ (~active => ~active') /\ (late => late')
        /\ UNCHANGED <<budget, thread, raised, seg, joined, idle, rotation, recovering, output, outcome>>
    <3>1. active \in BOOLEAN /\ late \in BOOLEAN
      BY DEF SourceInv, Plain
    <3>2. CASE Source!LeaseEnds
      BY <3>1, <3>2 DEF Source!LeaseEnds
    <3>3. CASE Source!DeadlinePasses
      BY <3>1, <3>3 DEF Source!DeadlinePasses
    <3>4. CASE UNCHANGED source
      BY <3>1, <3>4 DEF source
    <3> QED BY <1>4, <3>2, <3>3, <3>4
  <2>2. Plain' /\ Quiet' /\ Latched' /\ Outcomes'
    BY <2>1 DEF SourceInv, Plain, Quiet, Latched, Outcomes
  <2> QED BY <1>0, <2>1, <2>2, QuietKeeps DEF SourceInv, Manifest
<1> QED BY <1>1, <1>2, <1>3, <1>4

LEMMA SourceStep == SourceInv /\ [Source!Next]_source => SourceInv'
BY ThreadStep, ExtractFailsKeeps, ExtractedKeeps, AppendKeeps, TransferEndsKeeps, SettleKeeps, MakeMp4Keeps,
   RecoverKeeps, RestKeeps DEF Source!Next, Source!Import, source, Source!vars

LEMMA SourceReads ==
    SourceInv => /\ Source!TypeOK /\ Source!InputIsTheManifest /\ Source!NothingOutlivesTheTransfer
                 /\ Source!OpenConnectionsBounded /\ Source!GivesUpOnlyWhenSpent /\ Source!OutputIffComplete
<1> SUFFICES ASSUME SourceInv
             PROVE  /\ Source!TypeOK /\ Source!InputIsTheManifest /\ Source!NothingOutlivesTheTransfer
                    /\ Source!OpenConnectionsBounded /\ Source!GivesUpOnlyWhenSpent /\ Source!OutputIffComplete
  OBVIOUS
<1>1. Source!TypeOK
  <2>1. seg \in [Source!Ids -> Fetched] /\ joined \in Seq(Source!Ids \X {Chunks}) /\ Len(joined) <= Segments
    BY DEF SourceInv, SegmentsSound
  <2>2. Plain
    BY DEF SourceInv
  <2> QED BY <2>1, <2>2 DEF Plain, Account, Fetched, Source!TypeOK
<1>2. Source!InputIsTheManifest
  <2>1. DOMAIN joined = 1..Len(joined)
    BY DEF SourceInv, SegmentsSound
  <2> QED BY <2>1 DEF SourceInv, Manifest, Source!InputIsTheManifest
<1>3. Source!NothingOutlivesTheTransfer
  BY DEF SourceInv, Quiet, Source!NothingOutlivesTheTransfer, Source!Running, Source!Pooled
<1>4. Source!OpenConnectionsBounded
  <2>1. \A S : Source!Cardinality(S) = Cardinality(S)
    BY DEF Source!Cardinality, Cardinality
  <2> QED BY <2>1 DEF SourceInv, Connected, Source!OpenConnectionsBounded, Source!Pooled
<1>5. Source!GivesUpOnlyWhenSpent /\ Source!OutputIffComplete
  BY DEF SourceInv, Outcomes, Plain, Source!GivesUpOnlyWhenSpent, Source!OutputIffComplete, Source!Ended
<1> QED BY <1>1, <1>2, <1>3, <1>4, <1>5


-----------------------------------------------------------------------------
(* The programs of MCComputer *)

ComputerInv ==
    /\ SourceInv /\ ImportsInv /\ TidyInv /\ PinInv
    /\ part = "serving" => ServingInv
    /\ part = "install" => InstallInv

LEMMA ComputerStart == EachInit => ComputerInv
BY SourceStart, ImportsStart, PinStart, InstallStart, ServingStart DEF EachInit, ComputerInv

LEMMA SourceRests == SourceInv /\ UNCHANGED source => SourceInv'
BY SourceStep

LEMMA ComputerStep == ComputerInv /\ [EachNext]_every => ComputerInv'
<1> SUFFICES ASSUME ComputerInv, [EachNext]_every PROVE ComputerInv'
  OBVIOUS
<1>1. part' = part
  BY DEF EachNext, every
<1>2. SourceInv'
  <2>1. [Source!Next]_source
    BY DEF EachNext, every
  <2> QED BY <2>1, SourceStep DEF ComputerInv
<1>3. ImportsInv' /\ TidyInv'
  <2>1. [Imports!Next]_imports
    BY DEF EachNext, every, Imports!Next
  <2> QED BY <2>1, ImportsStep DEF ComputerInv
<1>4. PinInv'
  <2>1. [Pin!Next]_pin
    BY DEF EachNext, every
  <2> QED BY <2>1, PinStep DEF ComputerInv
<1>5. part = "serving" => ServingInv'
  <2>1. part = "serving" => [Serving!Next]_install
    BY DEF EachNext, every
  <2> QED BY <2>1, ServingStep DEF ComputerInv
<1>6. part = "install" => InstallInv'
  <2>1. part = "install" => [Install!Next]_install
    BY DEF EachNext, every
  <2> QED BY <2>1, InstallStep DEF ComputerInv
<1> QED BY <1>1, <1>2, <1>3, <1>4, <1>5, <1>6 DEF ComputerInv

LEMMA ComputerHolds == EachSpec => []ComputerInv
BY ComputerStart, ComputerStep, PTL DEF EachSpec

\* A download through the proxy puts into the file each segment whole, once and in
\* manifest order, leaves no thread and no connection behind, opens no more than its
\* window, gives up on the proxy only when its sessions are spent, and leaves a file
\* only when it succeeds, whatever the numbers of segments, threads, reads, retries
\* and sessions (_download_segments, download_source).
THEOREM DownloadsStayWhole ==
    EachSpec => [](/\ Source!TypeOK /\ Source!InputIsTheManifest /\ Source!NothingOutlivesTheTransfer
                   /\ Source!OpenConnectionsBounded /\ Source!GivesUpOnlyWhenSpent /\ Source!OutputIffComplete)
<1>1. ComputerInv => /\ Source!TypeOK /\ Source!InputIsTheManifest /\ Source!NothingOutlivesTheTransfer
                     /\ Source!OpenConnectionsBounded /\ Source!GivesUpOnlyWhenSpent /\ Source!OutputIffComplete
  BY SourceReads DEF ComputerInv
<1> QED BY <1>1, ComputerHolds, PTL

\* The helper's imports leave no directory and no thread behind, one is downloaded at
\* a time, a job told to stop never gets ready, and no job gets in the way of another
\* one, a cloud import's predecessor of the same id apart, for every number of tabs, of
\* cloud ids and of jobs (LocalImports).
THEOREM NothingStaysBehind == EachSpec => NothingIsLeftBehind
<1> DEFINE Safe == Imports!TypeOK /\ Imports!OneDownload /\ Imports!NoDirectoryLeftBehind
                     /\ Imports!ClosedIsClean /\ Imports!JobsAreIsolated
           Heeds == \A k \in Imports!Objects :
                       obj[k].cancel /\ obj[k].state \in Imports!Busy => obj'[k].state # "ready"
           Spares == \A k \in Imports!Objects :
                       Imports!Downloads(k) /\ Imports!Whole(k) /\ ~Imports!Whole(k)' /\ Imports!Downloads(k)' /\ ending' # "closed"
                         => worker.step \in {"rmtree", "pop"} /\ worker.k # k /\ obj[worker.k].id = obj[k].id
<1>1. ComputerInv => Safe
  BY ImportsRead DEF ComputerInv
<1>2. ComputerInv /\ [EachNext]_every => [Heeds]_(Imports!vars) /\ [Spares]_(Imports!vars)
  <2> SUFFICES ASSUME ComputerInv, [EachNext]_every PROVE [Heeds]_(Imports!vars) /\ [Spares]_(Imports!vars)
    OBVIOUS
  <2>1. [Imports!Next]_imports
    BY DEF EachNext, every, Imports!Next
  <2>2. [Heeds]_imports
    BY <2>1, NoneGetsReady DEF ComputerInv
  <2>3. [Spares]_imports
    <3>1. ASSUME Imports!Next PROVE Spares
      BY <3>1, NoneOvertakes DEF ComputerInv, NotOvertaken, OvertakenBySameId, Imports!Downloads
    <3> HIDE DEF Spares
    <3> QED BY <2>1, <3>1
  <2> HIDE DEF Heeds, Spares
  <2> QED BY <2>2, <2>3 DEF imports, Imports!vars
<1>3. EachSpec => []Safe /\ [][Heeds]_(Imports!vars) /\ [][Spares]_(Imports!vars)
  <2> HIDE DEF Safe, Heeds, Spares
  <2> QED BY <1>1, <1>2, ComputerHolds, PTL DEF EachSpec
<1> QED BY <1>3 DEF NothingIsLeftBehind, Imports!CancelledNeverReady, Imports!OvertakenOnlyByItsId

\* No kill, failed rename or second installer loses the helper's installation, and a
\* helper that ends by itself leaves no key, for every set of helpers, installers and
\* uninstallers (local_import_desktop).
THEOREM TheInstallationSurvives == EachSpec => []InstallationSurvives
<1>1. ComputerInv => InstallationSurvives
  BY KeysGo DEF ComputerInv, InstallationSurvives, InstallInv, ServingInv
<1> QED BY <1>1, ComputerHolds, PTL

\* A platform test claims its jobs with the owner's own hosts file, unless an install
\* outlived its launch; whatever is killed, and whenever the owner edits the file, the
\* pin overwrites no edit that it could see and has its journal, for every number of
\* launches, jobs, kills and edits (platform-live-preview.py).
THEOREM TheOwnersFileIsKept == EachSpec => OwnersFileIsKept
<1> DEFINE Safe == Pin!TypeOK /\ Pin!OwnersEditsStay /\ Pin!PinIsJournalled
           Sees == jobs' # jobs /\ (hosts.pin \/ hosts.torn) => journal.late
<1>1. ComputerInv => Safe
  BY DEF ComputerInv, PinInv, EditsFound, Pin!OwnersEditsStay, Pin!PinIsJournalled
<1>2. ComputerInv /\ [EachNext]_every => [Sees]_(Pin!vars)
  <2> SUFFICES ASSUME ComputerInv, [EachNext]_every PROVE [Sees]_(Pin!vars)
    OBVIOUS
  <2>1. [Pin!Next]_pin
    BY DEF EachNext, every
  <2>2. [Sees]_pin
    BY <2>1, PinStepActs DEF ComputerInv
  <2> HIDE DEF Sees
  <2> QED BY <2>2 DEF pin, Pin!vars
<1>3. EachSpec => []Safe /\ [][Sees]_(Pin!vars)
  <2> HIDE DEF Safe, Sees
  <2> QED BY <1>1, <1>2, ComputerHolds, PTL DEF EachSpec
<1> QED BY <1>3 DEF OwnersFileIsKept, Pin!ClaimsSeeTheOwnersFile
=============================================================================
