------------------------- MODULE JobRepositoryProofs -------------------------
(* Theorems about JobRepository for every value of its constants. *)
EXTENDS JobRepository, FiniteSetTheorems, TLAPS

----------------------------------------------------------------------------
(* The inductive invariant. *)

\* A row that was never inserted has the columns of Init.
AbsentRows ==
    \A j \in Jobs : state[j] = "absent" =>
        /\ attempt[j] = 0 /\ progress[j] = 0
        /\ ~cancel[j] /\ ~secret[j]
        /\ \A v \in Versions : runtime[j][v] = "none"
        /\ cleaned[j] = {}

\* An unfinished job's next run lies after the start of its reservation, the
\* reservation lies within the modelled time, and a tenant owns it.
Windows ==
    \A j \in Jobs : state[j] \in Nonterminal =>
        /\ plan[j].start <= nextRun[j]
        /\ plan[j].until <= Horizon
        /\ plan[j].tenant \in Tenants

\* A job that is running was claimed at least once.
Claimed == \A j \in Jobs : state[j] \in Active => attempt[j] >= 1

IInv ==
    /\ TypeOK
    /\ AbsentRows
    /\ Windows
    /\ Claimed
    /\ LeaseInsideReservation
    /\ CapacityReserved
    /\ CancelIsFinal
    /\ SuspendedTenantDrains
    /\ SecretOnlyWhileNeeded

----------------------------------------------------------------------------
(* Lemmas about the operators of the model. *)

\* The envelope of a request is a natural number of seconds.
LEMMA EnvelopeType ==
    ASSUME NEW d \in Nat, NEW n \in Versions
    PROVE  Envelope(d, n) \in Nat
<1>1. 2^(n - 1) \in Nat \ {0}
  <2>1. n - 1 \in 0..MaxAttempts
    BY DEF Versions, MaxAttempts
  <2>2. QED
    BY <2>1, PowersAssumption
<1>2. DEFINE p == 2^(n - 1) - 1
<1>3. p \in Nat
  BY <1>1
<1>4. (d + RuntimeAllowance) * n \in Nat
  BY TimingAssumption DEF Versions, MaxAttempts
<1>5. RetryDelay * p \in Nat
  <2> HIDE DEF p
  <2> QED BY <1>3, TimingAssumption
<1>6. QED
  BY <1>4, <1>5, TimingAssumption DEF Envelope

\* The instant a failed attempt is retried at is a natural number, after now.
LEMMA BackoffType ==
    ASSUME TypeOK, NEW j \in Jobs, attempt[j] >= 1
    PROVE  BackoffUntil(j) \in Nat /\ BackoffUntil(j) >= now
<1>1. attempt[j] - 1 \in 0..MaxAttempts
  BY DEF TypeOK, MaxAttempts
<1>2. DEFINE p == 2^(attempt[j] - 1)
<1>3. p \in Nat
  BY <1>1, PowersAssumption
<1>4. RetryDelay * p \in Nat
  <2> HIDE DEF p
  <2> QED BY <1>3, TimingAssumption
<1>5. QED
  BY <1>4 DEF BackoffUntil, TypeOK

\* Overriding and clearing keep a function's domain and range.
LEMMA OverrideType ==
    ASSUME NEW S, NEW T, NEW f \in [S -> T], NEW g, \A x \in DOMAIN g : g[x] \in T
    PROVE  Override(f, g) \in [S -> T]
BY DEF Override

LEMMA ClearedType ==
    ASSUME NEW S, NEW T, NEW f \in [S -> T], NEW D, NEW d \in T
    PROVE  Cleared(f, D, d) \in [S -> T]
BY DEF Cleared

\* The start and the end of a lease.
LEMMA LeaseUntilType ==
    ASSUME TypeOK, NEW j \in Jobs
    PROVE  /\ LeaseUntil(j) \in Nat
           /\ LeaseUntil(j) <= plan[j].until
BY TimingAssumption DEF LeaseUntil, MinOf, TypeOK

\* Sets of jobs are finite.
LEMMA JobsFinite ==
    ASSUME NEW S \in SUBSET Jobs
    PROVE  IsFiniteSet(S) /\ Cardinality(S) \in Nat
<1>1. IsFiniteSet(Jobs)
  BY FS_Interval, BoundsAssumption DEF Jobs
<1>2. QED
  BY <1>1, FS_Subset, FS_CardinalityType

LEMMA SmallerSet ==
    ASSUME NEW S \in SUBSET Jobs, NEW T \in SUBSET S
    PROVE  Cardinality(T) <= Cardinality(S)
BY JobsFinite, FS_Subset

\* A step that admits no job and moves no reservation keeps the capacity.
LEMMA HoldingShrinks ==
    ASSUME CapacityReserved, plan' = plan,
           \A j \in Jobs : state'[j] \in Nonterminal => state[j] \in Nonterminal
    PROVE  CapacityReserved'
<1>1. SUFFICES ASSUME NEW t \in 0..Horizon
               PROVE  /\ Cardinality(Holding(t)') <= GlobalConcurrency
                      /\ \A tn \in Tenants :
                            Cardinality(HoldingOf(tn, t)') <= TenantConcurrency
  BY DEF CapacityReserved
<1>2. Holding(t) \in SUBSET Jobs /\ Holding(t)' \in SUBSET Holding(t)
  BY DEF Holding, Covers
<1>3. Cardinality(Holding(t)') <= GlobalConcurrency
  <2>1. Cardinality(Holding(t)') <= Cardinality(Holding(t))
    BY <1>2, SmallerSet
  <2>2. Cardinality(Holding(t)') \in Nat /\ Cardinality(Holding(t)) \in Nat
    BY <1>2, JobsFinite
  <2>3. QED
    BY <2>1, <2>2, CapsAssumption DEF CapacityReserved
<1>4. ASSUME NEW tn \in Tenants
      PROVE  Cardinality(HoldingOf(tn, t)') <= TenantConcurrency
  <2>1. HoldingOf(tn, t) \in SUBSET Jobs /\ HoldingOf(tn, t)' \in SUBSET HoldingOf(tn, t)
    BY <1>2 DEF HoldingOf, Holding
  <2>2. Cardinality(HoldingOf(tn, t)') <= Cardinality(HoldingOf(tn, t))
    BY <2>1, SmallerSet
  <2>3. Cardinality(HoldingOf(tn, t)') \in Nat /\ Cardinality(HoldingOf(tn, t)) \in Nat
    BY <2>1, JobsFinite
  <2>4. QED
    BY <2>2, <2>3, CapsAssumption DEF CapacityReserved
<1>5. QED
  BY <1>3, <1>4

----------------------------------------------------------------------------
(* Initially. *)

LEMMA InitInv == Init => IInv
<1> SUFFICES ASSUME Init PROVE IInv
  OBVIOUS
<1> USE DEF Init
<1>1. TypeOK
  BY BoundsAssumption DEF TypeOK, NoPlan, States, Versions, MaxAttempts
<1>2. AbsentRows /\ Windows /\ Claimed /\ LeaseInsideReservation /\ CancelIsFinal
      /\ SuspendedTenantDrains /\ SecretOnlyWhileNeeded
  BY DEF AbsentRows, Windows, Claimed, LeaseInsideReservation, CancelIsFinal,
         SuspendedTenantDrains, SecretOnlyWhileNeeded, Nonterminal, Active, Queued
<1>3. CapacityReserved
  <2>1. \A t \in 0..Horizon : Holding(t) = {} /\ \A tn \in Tenants : HoldingOf(tn, t) = {}
    BY DEF Holding, HoldingOf, Covers, Nonterminal, Active, Queued
  <2>2. QED
    BY <2>1, FS_EmptySet, CapsAssumption, SMTT(30) DEF CapacityReserved
<1>4. QED
  BY <1>1, <1>2, <1>3 DEF IInv

----------------------------------------------------------------------------
(* Steps.  One lemma per action. *)

LEMMA TickStep == IInv /\ Tick => IInv'
<1> SUFFICES ASSUME IInv, Tick PROVE IInv'
  OBVIOUS
<1> USE DEF IInv, Tick, row, records
<1>1. TypeOK'
  BY BoundsAssumption DEF TypeOK
<1>2. CapacityReserved'
  BY HoldingShrinks
<1>3. QED
  BY <1>1, <1>2 DEF TypeOK, AbsentRows, Windows, Claimed, LeaseInsideReservation,
     CancelIsFinal, SuspendedTenantDrains, SecretOnlyWhileNeeded

LEMMA MarkCleanedStep ==
    ASSUME IInv, NEW j \in Jobs, NEW v \in Versions, MarkCleaned(j, v)
    PROVE  IInv'
<1> USE DEF IInv, MarkCleaned, row, records
<1>1. TypeOK'
  BY DEF TypeOK
<1>2. CapacityReserved'
  BY HoldingShrinks
<1>3. AbsentRows'
  BY DEF AbsentRows, TypeOK
<1>4. QED
  BY <1>1, <1>2, <1>3 DEF Windows, Claimed, LeaseInsideReservation,
     CancelIsFinal, SuspendedTenantDrains, SecretOnlyWhileNeeded

LEMMA ReinstateStep ==
    ASSUME IInv, NEW tn \in Tenants, Reinstate(tn)
    PROVE  IInv'
<1> USE DEF IInv, Reinstate, row, records
<1>1. TypeOK'
  BY DEF TypeOK
<1>2. CapacityReserved'
  BY HoldingShrinks
<1>3. SuspendedTenantDrains'
  BY DEF SuspendedTenantDrains
<1>4. QED
  BY <1>1, <1>2, <1>3 DEF AbsentRows, Windows, Claimed, LeaseInsideReservation,
     CancelIsFinal, SecretOnlyWhileNeeded

LEMMA ForgetStep ==
    ASSUME IInv, NEW old \in SUBSET Jobs, Forget(old)
    PROVE  IInv'
<1> USE DEF IInv, Forget, records
<1>1. state' \in [Jobs -> States] /\ \A j \in Jobs :
         state'[j] = IF j \in old THEN "deleted" ELSE state[j]
  BY DEF Cleared, TypeOK, States
<1>2. TypeOK'
  BY <1>1 DEF TypeOK
<1>3. \A j \in Jobs : state'[j] \in Nonterminal => state[j] \in Nonterminal /\ state'[j] = state[j]
  BY <1>1 DEF Nonterminal, Active, Queued
<1>4. CapacityReserved'
  BY <1>3, HoldingShrinks
<1>5. AbsentRows'
  BY <1>1 DEF AbsentRows
<1>6. Windows' /\ SuspendedTenantDrains'
  BY <1>3 DEF Windows, SuspendedTenantDrains
<1>7. Claimed' /\ LeaseInsideReservation'
  BY <1>3 DEF Claimed, LeaseInsideReservation, Nonterminal
<1>8. CancelIsFinal'
  BY <1>1 DEF CancelIsFinal
<1>9. SecretOnlyWhileNeeded'
  BY <1>1, <1>3 DEF SecretOnlyWhileNeeded, Terminal, Nonterminal, Active, Queued
<1>10. QED
  BY <1>2, <1>4, <1>5, <1>6, <1>7, <1>8, <1>9

LEMMA HeartbeatStep ==
    ASSUME IInv, NEW j \in Jobs, NEW v \in Versions, NEW p \in Int, Heartbeat(j, v, p)
    PROVE  IInv'
<1> USE DEF IInv, Heartbeat, HoldsLease
<1> DEFINE phase == IF p > 0 /\ ~cancel[j] THEN "streaming" ELSE state[j]
<1>1. state[j] \in Active /\ phase \in Active /\ token[j] = v /\ v = attempt[j]
  BY DEF Active, LeaseInsideReservation
<1>2. state' = [state EXCEPT ![j] = phase] /\ runtime' = [runtime EXCEPT ![j][v] = phase]
  OBVIOUS
<1>3. LeaseUntil(j) \in Nat /\ LeaseUntil(j) <= plan[j].until
  BY LeaseUntilType
<1>4. cancel[j] => phase = "stopping"
  BY <1>1 DEF CancelIsFinal, Active
<1>5. p \in {NoProgress} \cup progress[j]..HeartbeatLimit(j)
  OBVIOUS
<1> HIDE DEF phase, Heartbeat
<1>6. UNCHANGED <<now, enabled, plan, attempt, cancel, secret, nextRun, token, cleaned>>
      /\ progress' = [progress EXCEPT ![j] = Position(j, p)]
      /\ lease' = [lease EXCEPT ![j] = LeaseUntil(j)]
  BY DEF Heartbeat
<1>7. Position(j, p) \in Nat
  BY <1>5 DEF Position, NoProgress, TypeOK, HeartbeatLimit
<1>8. TypeOK'
  BY <1>1, <1>2, <1>3, <1>6, <1>7 DEF TypeOK, States, Nonterminal
<1>9. \A i \in Jobs : /\ state'[i] \in Nonterminal <=> state[i] \in Nonterminal
                      /\ state'[i] \in Active <=> state[i] \in Active
                      /\ i # j => state'[i] = state[i]
  BY <1>1, <1>2 DEF TypeOK, Nonterminal
<1>10. CapacityReserved'
  BY <1>6, <1>9, HoldingShrinks
<1>11. AbsentRows'
  BY <1>1, <1>2, <1>6 DEF AbsentRows, TypeOK, Active
<1>12. Windows' /\ Claimed'
  BY <1>6, <1>9 DEF Windows, Claimed
<1>13. LeaseInsideReservation'
  BY <1>3, <1>6, <1>9 DEF LeaseInsideReservation, TypeOK
<1>14. CancelIsFinal'
  BY <1>2, <1>4, <1>6 DEF CancelIsFinal, TypeOK
<1>15. SuspendedTenantDrains'
  BY <1>1, <1>2, <1>4, <1>6, <1>9 DEF SuspendedTenantDrains, TypeOK, Nonterminal
<1>16. SecretOnlyWhileNeeded'
  BY <1>6, <1>9 DEF SecretOnlyWhileNeeded
<1>17. QED
  BY <1>8, <1>10, <1>11, <1>12, <1>13, <1>14, <1>15, <1>16

\* The row columns and runtime records after the jobs of "outcome" ended.
LEMMA EndingTypes ==
    ASSUME TypeOK, NEW outcome, DOMAIN outcome \in SUBSET Jobs,
           \A j \in DOMAIN outcome : outcome[j] \in Terminal \cup {"retry_wait"}
    PROVE  /\ Override(state, outcome) \in [Jobs -> States]
           /\ \A j \in Jobs : Override(state, outcome)[j] =
                 IF j \in DOMAIN outcome THEN outcome[j] ELSE state[j]
           /\ SecretsAfter(outcome) \in [Jobs -> BOOLEAN]
           /\ \A j \in Jobs : SecretsAfter(outcome)[j] =
                 (secret[j] /\ ~(j \in DOMAIN outcome /\ outcome[j] \in Terminal))
           /\ RuntimesAfter(outcome) \in
                 [Jobs -> [Versions -> {"none"} \cup Nonterminal \cup Terminal]]
           /\ \A j \in Jobs : j \notin DOMAIN outcome =>
                 RuntimesAfter(outcome)[j] = runtime[j]
<1>1. \A j \in DOMAIN outcome : outcome[j] \in States
  BY DEF States, Nonterminal, Queued
<1>2. \A j \in Jobs : Override(state, outcome)[j] =
          IF j \in DOMAIN outcome THEN outcome[j] ELSE state[j]
  BY DEF Override, TypeOK
<1>3. Override(state, outcome) \in [Jobs -> States]
  BY <1>1 DEF Override, TypeOK
<1>4. SecretsAfter(outcome) \in [Jobs -> BOOLEAN]
  BY DEF SecretsAfter, Cleared, TypeOK
<1>5. \A j \in Jobs : SecretsAfter(outcome)[j] =
          (secret[j] /\ ~(j \in DOMAIN outcome /\ outcome[j] \in Terminal))
  BY DEF SecretsAfter, Cleared, EndsIn, TypeOK
<1>6. RuntimesAfter(outcome) \in
          [Jobs -> [Versions -> {"none"} \cup Nonterminal \cup Terminal]]
  BY DEF RuntimesAfter, TypeOK, Nonterminal, Queued
<1>7. ASSUME NEW j \in Jobs, j \notin DOMAIN outcome
      PROVE  RuntimesAfter(outcome)[j] = runtime[j]
  BY <1>7 DEF RuntimesAfter, TypeOK
<1>8. QED
  BY <1>2, <1>3, <1>4, <1>5, <1>6, <1>7

LEMMA FinishStep ==
    ASSUME IInv, NEW j \in Jobs, NEW v \in Versions, NEW p \in Int,
           NEW asked \in Terminal \cup {"retry_wait"}, Finish(j, v, asked, p)
    PROVE  IInv'
<1> USE DEF IInv, HoldsLease
<1> DEFINE settled == Settled(j, asked, p)
           outcome == [i \in {j} |-> settled]
<1>1. /\ state[j] \in Active /\ p \in Nat
      /\ state' = Override(state, outcome)
      /\ secret' = SecretsAfter(outcome)
      /\ runtime' = RuntimesAfter(outcome)
      /\ progress' = [progress EXCEPT ![j] = p]
      /\ nextRun' = [nextRun EXCEPT ![j] = BackoffUntil(j)]
      /\ lease' = [lease EXCEPT ![j] = 0]
      /\ token' = [token EXCEPT ![j] = 0]
      /\ UNCHANGED <<now, enabled, plan, attempt, cancel, cleaned>>
  BY DEF Finish, TypeOK, FinishLimit
<1>2. settled \in Terminal \cup {"retry_wait"} /\ (cancel[j] => settled = "stopped")
  BY DEF Settled, Terminal
<1>3. BackoffUntil(j) \in Nat /\ BackoffUntil(j) >= now
  BY <1>1, BackoffType DEF Claimed
<1> HIDE DEF settled
<1>4. DOMAIN outcome = {j} /\ outcome[j] = settled
  OBVIOUS
<1>5. /\ state' \in [Jobs -> States]
      /\ \A i \in Jobs : state'[i] = IF i = j THEN settled ELSE state[i]
      /\ secret' \in [Jobs -> BOOLEAN]
      /\ \A i \in Jobs : secret'[i] = (secret[i] /\ ~(i = j /\ settled \in Terminal))
      /\ runtime' \in [Jobs -> [Versions -> {"none"} \cup Nonterminal \cup Terminal]]
      /\ \A i \in Jobs : i # j => runtime'[i] = runtime[i]
  <2> HIDE DEF outcome
  <2>1. /\ DOMAIN outcome \in SUBSET Jobs
        /\ \A i \in DOMAIN outcome : outcome[i] \in Terminal \cup {"retry_wait"}
    BY <1>2, <1>4
  <2>2. QED
    BY <2>1, <1>1, <1>4, EndingTypes
<1> HIDE DEF outcome
<1>6. TypeOK'
  <2>1. /\ progress' \in [Jobs -> Nat] /\ nextRun' \in [Jobs -> Nat]
        /\ lease' \in [Jobs -> Nat] /\ token' \in [Jobs -> 0..MaxAttempts]
    BY <1>1, <1>3 DEF TypeOK, MaxAttempts
  <2>2. QED
    BY <1>1, <1>5, <2>1 DEF TypeOK
<1>7. \A i \in Jobs : /\ state'[i] \in Nonterminal => state[i] \in Nonterminal
                      /\ state'[i] \in Active => i # j /\ state[i] \in Active
                      /\ i # j => state'[i] = state[i]
  BY <1>1, <1>2, <1>5 DEF Nonterminal, Active, Queued, Terminal
<1>8. CapacityReserved'
  BY <1>1, <1>7, HoldingShrinks
<1>9. AbsentRows'
  BY <1>1, <1>2, <1>5 DEF AbsentRows, TypeOK, Terminal
<1>10. Windows'
  BY <1>1, <1>3, <1>7 DEF Windows, TypeOK, LeaseInsideReservation
<1>11. Claimed' /\ LeaseInsideReservation'
  BY <1>1, <1>7 DEF Claimed, LeaseInsideReservation, TypeOK
<1>12. CancelIsFinal'
  BY <1>1, <1>2, <1>5 DEF CancelIsFinal
<1>13. SuspendedTenantDrains'
  <2>1. state[j] \in Nonterminal
    BY <1>1 DEF Nonterminal
  <2>2. plan[j].tenant \notin enabled => cancel[j]
    BY <2>1 DEF SuspendedTenantDrains
  <2>3. plan[j].tenant \notin enabled => state'[j] \notin Nonterminal
    BY <2>2, <1>2, <1>5 DEF Nonterminal, Active, Queued
  <2>4. QED
    BY <2>3, <1>1, <1>7 DEF SuspendedTenantDrains
<1>14. SecretOnlyWhileNeeded'
  BY <1>1, <1>2, <1>5 DEF SecretOnlyWhileNeeded, Nonterminal, Active, Queued, Terminal
<1>15. QED
  BY <1>6, <1>8, <1>9, <1>10, <1>11, <1>12, <1>13, <1>14

\* The verdicts of _recover.
LEMMA VerdictsType ==
    ASSUME TypeOK
    PROVE  /\ DOMAIN Verdicts = Expired /\ Expired \in SUBSET Jobs
           /\ \A j \in Expired : /\ Verdicts[j] \in Terminal
                                 /\ cancel[j] => Verdicts[j] = "stopped"
                                 /\ state[j] \in Nonterminal
BY DEF Verdicts, Expired, Terminal, Nonterminal

\* What a transaction that only ends jobs leaves behind: Recover, and the
\* claims that start none.
LEMMA EndingStep ==
    ASSUME IInv, NEW outcome, DOMAIN outcome \in SUBSET Jobs,
           \A j \in DOMAIN outcome : /\ outcome[j] \in Terminal
                                     /\ state[j] \in Nonterminal
                                     /\ cancel[j] => outcome[j] = "stopped",
           \A j \in Jobs : state'[j] = IF j \in DOMAIN outcome THEN outcome[j] ELSE state[j],
           \A j \in Jobs : secret'[j] = (secret[j] /\ j \notin DOMAIN outcome),
           \A j \in Jobs : j \notin DOMAIN outcome =>
              lease'[j] = lease[j] /\ token'[j] = token[j] /\ runtime'[j] = runtime[j],
           TypeOK',
           UNCHANGED <<now, enabled, plan, attempt, progress, cancel, nextRun, cleaned>>
    PROVE  IInv'
<1> USE DEF IInv
<1>1. \A j \in Jobs : state'[j] \in Nonterminal => state[j] = state'[j] /\ j \notin DOMAIN outcome
  BY DEF Terminal, Nonterminal, Active, Queued
<1>2. CapacityReserved'
  BY <1>1, HoldingShrinks
<1>3. AbsentRows'
  <2>1. \A j \in Jobs : state'[j] = "absent" => state[j] = "absent" /\ j \notin DOMAIN outcome
    BY DEF Terminal
  <2>2. ASSUME NEW j \in Jobs, state'[j] = "absent"
        PROVE  /\ attempt'[j] = 0 /\ progress'[j] = 0 /\ ~cancel'[j] /\ cleaned'[j] = {}
               /\ ~secret'[j] /\ runtime'[j] = runtime[j]
    BY <2>1, <2>2 DEF AbsentRows
  <2>3. QED
    BY <2>1, <2>2 DEF AbsentRows
<1>4. Windows' /\ SuspendedTenantDrains'
  BY <1>1 DEF Windows, SuspendedTenantDrains
<1>5. Claimed' /\ LeaseInsideReservation'
  BY <1>1 DEF Claimed, LeaseInsideReservation, Nonterminal
<1>6. CancelIsFinal'
  BY DEF CancelIsFinal
<1>7. SecretOnlyWhileNeeded'
  BY <1>1 DEF SecretOnlyWhileNeeded, Terminal, Nonterminal, Active, Queued
<1>8. QED
  BY <1>2, <1>3, <1>4, <1>5, <1>6, <1>7

LEMMA RecoverStep == IInv /\ Recover => IInv'
<1> SUFFICES ASSUME IInv, Recover PROVE IInv'
  OBVIOUS
<1>1. TypeOK
  BY DEF IInv
<1>2. /\ state' = Override(state, Verdicts)
      /\ secret' = SecretsAfter(Verdicts)
      /\ lease' = Cleared(lease, Expired, 0)
      /\ token' = Cleared(token, Expired, 0)
      /\ runtime' = RuntimesAfter(Verdicts)
      /\ UNCHANGED <<now, enabled, plan, attempt, progress, cancel, nextRun, cleaned>>
  BY DEF Recover
<1>3. /\ DOMAIN Verdicts = Expired /\ Expired \in SUBSET Jobs
      /\ \A j \in Expired : /\ Verdicts[j] \in Terminal
                            /\ cancel[j] => Verdicts[j] = "stopped"
                            /\ state[j] \in Nonterminal
  BY <1>1, VerdictsType
<1>4. /\ state' \in [Jobs -> States]
      /\ \A j \in Jobs : state'[j] = IF j \in Expired THEN Verdicts[j] ELSE state[j]
      /\ secret' \in [Jobs -> BOOLEAN]
      /\ \A j \in Jobs : secret'[j] = (secret[j] /\ j \notin Expired)
      /\ runtime' \in [Jobs -> [Versions -> {"none"} \cup Nonterminal \cup Terminal]]
      /\ \A j \in Jobs : j \notin Expired => runtime'[j] = runtime[j]
  BY <1>1, <1>2, <1>3, EndingTypes
<1>5. /\ lease' \in [Jobs -> Nat] /\ token' \in [Jobs -> 0..MaxAttempts]
      /\ \A j \in Jobs : j \notin Expired => lease'[j] = lease[j] /\ token'[j] = token[j]
  BY <1>1, <1>2 DEF Cleared, TypeOK, MaxAttempts
<1>6. TypeOK'
  BY <1>1, <1>2, <1>4, <1>5 DEF TypeOK
<1>7. QED
  BY <1>2, <1>3, <1>4, <1>5, <1>6, EndingStep

\* Cancellation of any set of jobs, by itself or inside a suspension that
\* takes all unfinished jobs of the tenants it disables.
LEMMA CancelStep ==
    ASSUME IInv, NEW S \in SUBSET Jobs, CancelJobs(S),
           enabled' \subseteq enabled,
           \A j \in Jobs : state[j] \in Nonterminal /\ plan[j].tenant \in enabled \ enabled'
               => j \in S
    PROVE  IInv'
<1> USE DEF IInv
<1> DEFINE queue == {i \in S : state[i] \in Queued}
           running == {i \in S : state[i] \in Active}
           outcome == [j \in queue |-> "stopped"]
<1>1. /\ state' = [j \in Jobs |-> IF j \in running THEN "stopping"
                                  ELSE Override(state, outcome)[j]]
      /\ cancel' = [j \in Jobs |-> cancel[j] \/ j \in running \/ j \in queue]
      /\ secret' = SecretsAfter(outcome)
      /\ runtime' = [j \in Jobs |-> IF j \in running
                        THEN [runtime[j] EXCEPT ![attempt[j]] = "stopping"]
                        ELSE RuntimesAfter(outcome)[j]]
      /\ UNCHANGED <<now, plan, attempt, progress, nextRun, lease, token, cleaned>>
  BY DEF CancelJobs
<1>2. /\ DOMAIN outcome = queue /\ queue \in SUBSET Jobs /\ running \in SUBSET Jobs
      /\ \A j \in queue : outcome[j] = "stopped"
  OBVIOUS
<1>3. \A j \in Jobs : /\ j \in queue <=> (j \in S /\ state[j] \in Queued)
                      /\ j \in running <=> (j \in S /\ state[j] \in Active)
  OBVIOUS
<1> HIDE DEF queue, running, outcome
<1>4. /\ Override(state, outcome) \in [Jobs -> States]
      /\ \A j \in Jobs : Override(state, outcome)[j] = IF j \in queue THEN "stopped" ELSE state[j]
      /\ secret' \in [Jobs -> BOOLEAN]
      /\ \A j \in Jobs : secret'[j] = (secret[j] /\ j \notin queue)
      /\ RuntimesAfter(outcome) \in [Jobs -> [Versions -> {"none"} \cup Nonterminal \cup Terminal]]
      /\ \A j \in Jobs : j \notin queue => RuntimesAfter(outcome)[j] = runtime[j]
  <2>1. \A j \in DOMAIN outcome : outcome[j] \in Terminal
    BY <1>2 DEF Terminal
  <2>2. QED
    BY <2>1, <1>1, <1>2, EndingTypes
<1>5. \A j \in Jobs : state'[j] = IF j \in running THEN "stopping"
                                  ELSE IF j \in queue THEN "stopped" ELSE state[j]
  BY <1>1, <1>4
<1>6. \A j \in Jobs : /\ state'[j] \in Nonterminal => state[j] \in Nonterminal /\ j \notin queue
                      /\ state'[j] \in Active <=> state[j] \in Active
                      /\ state'[j] = "absent" => state[j] = "absent" /\ j \notin queue \cup running
  BY <1>3, <1>5 DEF Nonterminal, Active, Queued
<1>7. TypeOK'
  <2>1. state' \in [Jobs -> States]
    BY <1>1, <1>4 DEF States, Nonterminal, Active
  <2>2. cancel' \in [Jobs -> BOOLEAN]
    BY <1>1 DEF TypeOK
  <2>3. runtime' \in [Jobs -> [Versions -> {"none"} \cup Nonterminal \cup Terminal]]
    BY <1>1, <1>4 DEF TypeOK, Nonterminal, Active
  <2>4. QED
    BY <1>1, <1>4, <2>1, <2>2, <2>3 DEF TypeOK
<1>8. CapacityReserved'
  BY <1>1, <1>6, HoldingShrinks
<1>9. AbsentRows'
  <2>1. ASSUME NEW j \in Jobs, state'[j] = "absent"
        PROVE  /\ attempt'[j] = 0 /\ progress'[j] = 0 /\ ~cancel'[j] /\ cleaned'[j] = {}
               /\ ~secret'[j] /\ runtime'[j] = runtime[j] /\ state[j] = "absent"
    BY <2>1, <1>1, <1>4, <1>6 DEF AbsentRows
  <2>2. QED
    BY <2>1 DEF AbsentRows
<1>10. Windows' /\ Claimed' /\ LeaseInsideReservation'
  BY <1>1, <1>6 DEF Windows, Claimed, LeaseInsideReservation
<1>11. CancelIsFinal'
  BY <1>1, <1>3, <1>5 DEF CancelIsFinal, Active, Queued
<1>12. SuspendedTenantDrains'
  <2>1. ASSUME NEW j \in Jobs, state'[j] \in Nonterminal, plan[j].tenant \notin enabled'
        PROVE  state'[j] = "stopping" /\ cancel'[j]
    <3>1. state[j] \in Nonterminal /\ j \notin queue
      BY <2>1, <1>6
    <3>2. CASE plan[j].tenant \in enabled
      <4>1. j \in S
        BY <2>1, <3>1, <3>2
      <4>2. j \in running
        BY <3>1, <4>1, <1>3 DEF Nonterminal
      <4>3. QED
        BY <4>2, <1>1, <1>5
    <3>3. CASE plan[j].tenant \notin enabled
      <4>1. state[j] = "stopping" /\ cancel[j]
        BY <3>1, <3>3 DEF SuspendedTenantDrains
      <4>2. QED
        BY <3>1, <4>1, <1>1, <1>5
    <3>4. QED
      BY <3>2, <3>3
  <2>2. QED
    BY <2>1, <1>1 DEF SuspendedTenantDrains
<1>13. SecretOnlyWhileNeeded'
  BY <1>1, <1>3, <1>4, <1>5 DEF SecretOnlyWhileNeeded, Nonterminal, Active, Queued
<1>14. QED
  BY <1>7, <1>8, <1>9, <1>10, <1>11, <1>12, <1>13

\* Attempts are counted within the limit of the code, one to five.
LEMMA TriesType ==
    ASSUME TypeOK
    PROVE  /\ MaxAttempts = 5
           /\ \A j \in Jobs : attempt[j] \in 0..MaxAttempts /\ plan[j].tries \in 0..MaxAttempts
<1>1. \A j \in Jobs : plan[j].tries \in {0} \cup Versions
  BY DEF TypeOK
<1>2. QED
  BY <1>1 DEF TypeOK, Versions, MaxAttempts

\* What the scan of claim chooses, and what it ends on the way.
LEMMA ScanType ==
    ASSUME TypeOK, NEW blocked
    PROVE  LET chosen == Chosen(blocked)
               outcome == ScanVerdicts(chosen)
           IN  /\ chosen \in SUBSET Jobs
               /\ \A j \in chosen : /\ state[j] \in Queued /\ nextRun[j] <= now /\ ~cancel[j]
                                    /\ attempt[j] < plan[j].tries
                                    /\ j \notin DOMAIN outcome
               /\ DOMAIN outcome \in SUBSET Jobs
               /\ Expired \in SUBSET DOMAIN outcome
               /\ \A j \in DOMAIN outcome : /\ outcome[j] \in Terminal
                                            /\ state[j] \in Nonterminal
                                            /\ cancel[j] => outcome[j] = "stopped"
               /\ \A j \in (DOMAIN outcome) \ Expired :
                     state[j] \in Queued /\ (Late(j) \/ plan[j].kind = "legacy")
<1> DEFINE chosen == Chosen(blocked)
           outcome == ScanVerdicts(chosen)
<1>1. \A j \in chosen : j \in Candidates /\ ~Late(j) /\ ~Overlarge(j)
  BY DEF Chosen, Claimable
<1>2. \A j \in RefusedBefore(chosen) : j \in Candidates /\ (Late(j) \/ Overlarge(j))
  BY DEF RefusedBefore
<1>3. \A j \in Candidates : /\ j \in Jobs /\ j \notin Expired /\ state[j] \in Queued
                            /\ nextRun[j] <= now /\ ~cancel[j]
  BY DEF Candidates
<1>4. DOMAIN outcome = Expired \cup RefusedBefore(chosen)
  BY DEF ScanVerdicts
<1>5. \A j \in chosen : attempt[j] < plan[j].tries
  <2>1. \A j \in Jobs : attempt[j] \in Int /\ plan[j].tries \in Int
    BY TriesType
  <2>2. \A j \in chosen : ~(attempt[j] >= plan[j].tries)
    BY <1>1 DEF Late
  <2>3. QED
    BY <1>1, <1>3, <2>1, <2>2
<1>6. /\ \A j \in Expired : outcome[j] = Verdicts[j]
      /\ \A j \in RefusedBefore(chosen) : j \notin Expired /\ outcome[j] = "failed"
  BY <1>2, <1>3 DEF ScanVerdicts
<1> HIDE DEF chosen, outcome
<1>7. /\ Expired \in SUBSET Jobs
      /\ \A j \in Expired : /\ Verdicts[j] \in Terminal
                            /\ cancel[j] => Verdicts[j] = "stopped"
                            /\ state[j] \in Nonterminal
  BY VerdictsType
<1>8. \A j \in DOMAIN outcome : /\ outcome[j] \in Terminal
                                /\ state[j] \in Nonterminal
                                /\ cancel[j] => outcome[j] = "stopped"
  BY <1>2, <1>3, <1>4, <1>6, <1>7 DEF Terminal, Nonterminal
<1>9. \A j \in chosen : j \notin DOMAIN outcome
  BY <1>1, <1>2, <1>3, <1>4
<1>10. chosen \in SUBSET Jobs /\ DOMAIN outcome \in SUBSET Jobs
  BY <1>1, <1>2, <1>3, <1>4, <1>7
<1>11. \A j \in (DOMAIN outcome) \ Expired :
          state[j] \in Queued /\ (Late(j) \/ plan[j].kind = "legacy")
  BY <1>2, <1>3, <1>4 DEF Overlarge
<1>12. QED
  BY <1>1, <1>2, <1>3, <1>4, <1>5, <1>8, <1>9, <1>10, <1>11 DEF chosen, outcome

LEMMA ClaimStep ==
    ASSUME IInv, NEW blocked, Claim(blocked)
    PROVE  IInv'
<1> USE DEF IInv
<1> DEFINE chosen == Chosen(blocked)
           outcome == ScanVerdicts(chosen)
<1>1. /\ state' = [j \in Jobs |-> IF j \in chosen THEN "starting"
                                  ELSE Override(state, outcome)[j]]
      /\ attempt' = [j \in Jobs |-> IF j \in chosen THEN attempt[j] + 1 ELSE attempt[j]]
      /\ token' = [j \in Jobs |-> IF j \in chosen THEN attempt[j] + 1
                                  ELSE Cleared(token, Expired, 0)[j]]
      /\ lease' = [j \in Jobs |-> IF j \in chosen THEN LeaseUntil(j)
                                  ELSE Cleared(lease, Expired, 0)[j]]
      /\ secret' = ScanSecrets(outcome)
      /\ runtime' = [j \in Jobs |-> IF j \in chosen
                        THEN [runtime[j] EXCEPT ![attempt[j] + 1] = "starting"]
                        ELSE RuntimesAfter(outcome)[j]]
      /\ UNCHANGED <<now, enabled, plan, progress, cancel, nextRun, cleaned>>
  BY DEF Claim
<1>2. /\ chosen \in SUBSET Jobs
      /\ \A j \in chosen : /\ state[j] \in Queued /\ nextRun[j] <= now /\ ~cancel[j]
                           /\ attempt[j] < plan[j].tries
                           /\ j \notin DOMAIN outcome
      /\ DOMAIN outcome \in SUBSET Jobs
      /\ Expired \in SUBSET DOMAIN outcome
      /\ \A j \in DOMAIN outcome : /\ outcome[j] \in Terminal
                                   /\ state[j] \in Nonterminal
                                   /\ cancel[j] => outcome[j] = "stopped"
      /\ \A j \in (DOMAIN outcome) \ Expired :
            state[j] \in Queued /\ (Late(j) \/ plan[j].kind = "legacy")
  BY ScanType
<1> HIDE DEF chosen, outcome
<1>3. /\ \A j \in Jobs : Override(state, outcome)[j] =
             IF j \in DOMAIN outcome THEN outcome[j] ELSE state[j]
      /\ secret' \in [Jobs -> BOOLEAN]
      /\ \A j \in Jobs : secret'[j] = (secret[j] /\ j \notin DOMAIN outcome)
      /\ RuntimesAfter(outcome) \in [Jobs -> [Versions -> {"none"} \cup Nonterminal \cup Terminal]]
      /\ \A j \in Jobs : j \notin DOMAIN outcome => RuntimesAfter(outcome)[j] = runtime[j]
  <2>1. /\ \A j \in Jobs : Override(state, outcome)[j] =
              IF j \in DOMAIN outcome THEN outcome[j] ELSE state[j]
        /\ RuntimesAfter(outcome) \in [Jobs -> [Versions -> {"none"} \cup Nonterminal \cup Terminal]]
        /\ \A j \in Jobs : j \notin DOMAIN outcome => RuntimesAfter(outcome)[j] = runtime[j]
    BY <1>2, EndingTypes
  <2>2. \A j \in Jobs : plan[j].kind = "legacy" => secret[j] = FALSE
    BY DEF SecretOnlyWhileNeeded, TypeOK
  <2>3. secret \in [Jobs -> BOOLEAN]
    BY DEF TypeOK
  <2>4. /\ secret' \in [Jobs -> BOOLEAN]
        /\ \A j \in Jobs : secret'[j] = IF j \in DOMAIN outcome /\ (j \in Expired \/ Late(j))
                                         THEN FALSE ELSE secret[j]
    BY <1>1, <2>3 DEF ScanSecrets, Cleared
  <2>5. QED
    BY <1>2, <2>1, <2>2, <2>3, <2>4
<1>4. \A j \in Jobs : state'[j] = IF j \in chosen THEN "starting"
                                  ELSE IF j \in DOMAIN outcome THEN outcome[j] ELSE state[j]
  BY <1>1, <1>3
<1>5. \A j \in Jobs :
        /\ state'[j] \in Nonterminal =>
              /\ state[j] \in Nonterminal
              /\ j \notin DOMAIN outcome
              /\ j \notin chosen => state'[j] = state[j]
        /\ state'[j] = "absent" => state[j] = "absent" /\ j \notin DOMAIN outcome /\ j \notin chosen
  BY <1>2, <1>4 DEF Nonterminal, Active, Queued, Terminal
<1>6. \A j \in chosen : attempt[j] + 1 \in 1..MaxAttempts
  BY <1>2, TriesType
<1>7. \A j \in Jobs : LeaseUntil(j) \in Nat /\ LeaseUntil(j) <= plan[j].until
  BY LeaseUntilType
<1>8. TypeOK'
  <2>1. state' \in [Jobs -> States]
    <3>1. \A j \in Jobs : state'[j] \in States
      BY <1>2, <1>4 DEF States, Nonterminal, Active, TypeOK
    <3>2. QED
      BY <3>1, <1>1
  <2>2. attempt' \in [Jobs -> 0..MaxAttempts]
    BY <1>1, <1>6 DEF TypeOK, MaxAttempts
  <2>3. token' \in [Jobs -> 0..MaxAttempts] /\ lease' \in [Jobs -> Nat]
    BY <1>1, <1>6, <1>7 DEF Cleared, TypeOK, MaxAttempts
  <2>4. runtime' \in [Jobs -> [Versions -> {"none"} \cup Nonterminal \cup Terminal]]
    BY <1>1, <1>3 DEF TypeOK, Nonterminal, Active
  <2>5. QED
    BY <1>1, <1>3, <2>1, <2>2, <2>3, <2>4 DEF TypeOK
<1>9. CapacityReserved'
  BY <1>1, <1>5, HoldingShrinks
<1>10. AbsentRows'
  <2>1. ASSUME NEW j \in Jobs, state'[j] = "absent"
        PROVE  /\ attempt'[j] = 0 /\ progress'[j] = 0 /\ ~cancel'[j] /\ cleaned'[j] = {}
               /\ ~secret'[j] /\ runtime'[j] = runtime[j] /\ state[j] = "absent"
    BY <2>1, <1>1, <1>3, <1>5 DEF AbsentRows
  <2>2. QED
    BY <2>1 DEF AbsentRows
<1>11. Windows'
  BY <1>1, <1>5 DEF Windows
<1>12. Claimed' /\ LeaseInsideReservation'
  <2>1. ASSUME NEW j \in chosen
        PROVE  /\ attempt'[j] >= 1 /\ token'[j] = attempt'[j]
               /\ lease'[j] <= plan'[j].until /\ plan'[j].start <= now'
    <3>1. plan[j].start <= nextRun[j] /\ nextRun[j] <= now /\ j \in Jobs
      BY <2>1, <1>2 DEF Windows, Nonterminal
    <3>2. plan[j].start <= now
      BY <3>1 DEF TypeOK
    <3>3. QED
      BY <3>1, <3>2, <1>1, <1>6, <1>7
  <2>2. ASSUME NEW j \in Jobs, j \notin chosen, state'[j] \in Active
        PROVE  /\ state[j] \in Active
               /\ attempt'[j] = attempt[j] /\ token'[j] = token[j] /\ lease'[j] = lease[j]
    <3>1. state[j] \in Active /\ j \notin Expired
      BY <2>2, <1>2, <1>5 DEF Nonterminal
    <3>2. QED
      BY <2>2, <3>1, <1>1 DEF Cleared, TypeOK
  <2>3. QED
    BY <1>1, <2>1, <2>2 DEF Claimed, LeaseInsideReservation
<1>13. CancelIsFinal'
  BY <1>1, <1>2, <1>4 DEF CancelIsFinal
<1>14. SuspendedTenantDrains'
  <2>1. \A j \in chosen : plan[j].tenant \in enabled
    BY <1>2 DEF SuspendedTenantDrains, Nonterminal, Queued
  <2>2. QED
    BY <2>1, <1>1, <1>5 DEF SuspendedTenantDrains
<1>15. SecretOnlyWhileNeeded'
  <2>1. \A j \in Jobs : state'[j] \in Nonterminal <=> (state[j] \in Nonterminal /\ j \notin DOMAIN outcome)
    BY <1>2, <1>4, <1>5 DEF Nonterminal, Active
  <2>2. QED
    BY <2>1, <1>1, <1>3 DEF SecretOnlyWhileNeeded
<1>16. QED
  BY <1>8, <1>9, <1>10, <1>11, <1>12, <1>13, <1>14, <1>15

\* n more jobs add at most n to a count that leaves room for them.
LEMMA RoomForMore ==
    ASSUME NEW S \in SUBSET Jobs, NEW N \in SUBSET Jobs, NEW T \in SUBSET (S \cup N),
           NEW n \in Nat, Cardinality(N) <= n,
           NEW cap \in Nat, Cardinality(S) + n <= cap
    PROVE  Cardinality(T) <= cap
<1>1. /\ IsFiniteSet(S) /\ Cardinality(S) \in Nat
      /\ IsFiniteSet(N) /\ Cardinality(N) \in Nat
      /\ IsFiniteSet(T) /\ Cardinality(T) \in Nat
      /\ IsFiniteSet(S \cup N) /\ Cardinality(S \cup N) \in Nat
      /\ Cardinality(S \cap N) \in Nat
  BY JobsFinite
<1>2. Cardinality(S \cup N) <= Cardinality(S) + Cardinality(N)
  <2>1. Cardinality(S \cup N) = Cardinality(S) + Cardinality(N) - Cardinality(S \cap N)
    BY <1>1, FS_Union, Zenon
  <2>2. QED
    BY <1>1, <2>1
<1>3. Cardinality(T) <= Cardinality(S \cup N)
  BY SmallerSet
<1>4. QED
  BY <1>1, <1>2, <1>3

LEMMA CreateStep ==
    ASSUME IInv, NEW tn \in Tenants, NEW request \in Requests, NEW dur \in MediaDurations,
           NEW tries \in AttemptLimits, NEW start \in 0..Horizon, NEW first \in Jobs,
           Create(tn, request, dur, tries, start, first)
    PROVE  IInv'
<1> USE DEF IInv
<1> DEFINE n == Len(request)
           new == first..(first + n - 1)
           kindOf(j) == request[j - first + 1]
           length == Duration(request[1], dur)
           until == start + Envelope(length, tries)
           fresh(j) == [tenant |-> tn, kind |-> kindOf(j), dur |-> length,
                        start |-> start, until |-> until, tries |-> tries]
<1>1. /\ tn \in enabled
      /\ new \subseteq Jobs
      /\ \A j \in Jobs : state[j] = "absent" <=> j >= first
      /\ until <= Horizon
      /\ CapacityFor(tn, n, start, until)
      /\ plan' = [j \in Jobs |-> IF j \in new THEN fresh(j) ELSE plan[j]]
      /\ state' = [j \in Jobs |-> IF j \in new THEN "scheduled" ELSE state[j]]
      /\ secret' = [j \in Jobs |-> IF j \in new THEN kindOf(j) \in {"stream", "import"}
                                   ELSE secret[j]]
      /\ nextRun' = [j \in Jobs |-> IF j \in new THEN start ELSE nextRun[j]]
      /\ UNCHANGED <<now, enabled, attempt, progress, cancel, lease, token, runtime, cleaned>>
  BY DEF Create, records
<1>2. /\ n \in Nat \ {0} /\ request \in [1..n -> Kinds]
      /\ \A j \in new : kindOf(j) \in Kinds
      /\ first \in Nat
  <2>1. request \in Seq(Kinds) /\ request # <<>>
    BY RequestsAssumption
  <2>2. n \in Nat \ {0} /\ request \in [1..n -> Kinds]
    BY <2>1
  <2>3. first \in Nat
    BY DEF Jobs
  <2>4. \A j \in new : j - first + 1 \in 1..n
    BY <2>2, <2>3
  <2>5. QED
    BY <2>2, <2>3, <2>4
<1>3. length \in Nat /\ until \in Nat /\ tries \in Versions /\ start \in Nat
  <2>1. length \in Nat
    BY TimingAssumption DEF Duration
  <2>2. tries \in Versions
    BY RequestsAssumption
  <2>3. Envelope(length, tries) \in Nat
    BY <2>1, <2>2, EnvelopeType
  <2>4. QED
    BY <2>1, <2>2, <2>3, BoundsAssumption
<1>4. \A j \in new : j \in Jobs /\ state[j] = "absent"
  BY <1>1, <1>2
<1>5. /\ Cardinality(new) = n /\ new \in SUBSET Jobs
  <2>1. first + n - 1 \in Int /\ first <= first + n - 1
    BY <1>2
  <2>2. QED
    BY <1>1, <1>2, <2>1, FS_Interval, SMTT(30)
<1>6. /\ \A j \in new : /\ plan'[j].tenant = tn /\ plan'[j].kind = kindOf(j)
                        /\ plan'[j].start = start /\ plan'[j].until = until
      /\ \A j \in Jobs : j \notin new => plan'[j] = plan[j]
  BY <1>1, <1>4
<1>7. plan' \in [Jobs -> [tenant : Tenants \cup {"none"}, kind : Kinds \cup {"none"}, dur : Nat,
                         start : Nat, until : Nat, tries : {0} \cup Versions]]
  <2>1. \A j \in new : fresh(j) \in [tenant : Tenants \cup {"none"}, kind : Kinds \cup {"none"},
            dur : Nat, start : Nat, until : Nat, tries : {0} \cup Versions]
    BY <1>2, <1>3
  <2>2. QED
    BY <1>1, <2>1 DEF TypeOK
<1> HIDE DEF n, new, kindOf, length, until, fresh
<1>8. TypeOK'
  <2>1. state' \in [Jobs -> States] /\ nextRun' \in [Jobs -> Nat]
    BY <1>1, <1>3 DEF TypeOK, States, Nonterminal, Queued
  <2>2. secret' \in [Jobs -> BOOLEAN]
    <3>1. ASSUME NEW j \in Jobs
          PROVE  (IF j \in new THEN kindOf(j) \in {"stream", "import"} ELSE secret[j]) \in BOOLEAN
      <4>1. secret[j] \in BOOLEAN
        BY DEF TypeOK
      <4>2. (kindOf(j) \in {"stream", "import"}) \in BOOLEAN
        OBVIOUS
      <4>3. QED
        BY <4>1, <4>2
    <3>2. QED
      BY <1>1, <3>1
  <2>3. QED
    BY <1>1, <1>7, <2>1, <2>2 DEF TypeOK
<1>9. \A t \in 0..Horizon : /\ Holding(t)' \subseteq Holding(t) \cup new
                            /\ t \notin start..(until - 1) => Holding(t)' \subseteq Holding(t)
                            /\ \A other \in Tenants \ {tn} : HoldingOf(other, t)' \subseteq HoldingOf(other, t)
                            /\ HoldingOf(tn, t)' \subseteq HoldingOf(tn, t) \cup new
                            /\ t \notin start..(until - 1) =>
                                   HoldingOf(tn, t)' \subseteq HoldingOf(tn, t)
  <2> SUFFICES ASSUME NEW t \in 0..Horizon
               PROVE  /\ Holding(t)' \subseteq Holding(t) \cup new
                      /\ t \notin start..(until - 1) => Holding(t)' \subseteq Holding(t)
                      /\ \A other \in Tenants \ {tn} : HoldingOf(other, t)' \subseteq HoldingOf(other, t)
                      /\ HoldingOf(tn, t)' \subseteq HoldingOf(tn, t) \cup new
                      /\ t \notin start..(until - 1) =>
                             HoldingOf(tn, t)' \subseteq HoldingOf(tn, t)
    OBVIOUS
  <2>1. ASSUME NEW j \in Holding(t)', j \notin new
        PROVE  j \in Holding(t) /\ plan'[j].tenant = plan[j].tenant
    BY <2>1, <1>1, <1>6 DEF Holding, Covers
  <2>2. ASSUME NEW j \in Holding(t)', j \in new
        PROVE  t \in start..(until - 1) /\ plan'[j].tenant = tn
    BY <2>2, <1>3, <1>6 DEF Holding, Covers
  <2>3. QED
    BY <2>1, <2>2 DEF HoldingOf
<1>10. CapacityReserved'
  <2>1. SUFFICES ASSUME NEW t \in 0..Horizon
                 PROVE  /\ Cardinality(Holding(t)') <= GlobalConcurrency
                        /\ \A tt \in Tenants : Cardinality(HoldingOf(tt, t)') <= TenantConcurrency
    BY DEF CapacityReserved
  <2>2. Holding(t) \in SUBSET Jobs /\ \A tt \in Tenants : HoldingOf(tt, t) \in SUBSET Jobs
    BY DEF Holding, HoldingOf
  <2>3. Cardinality(Holding(t)) <= GlobalConcurrency
        /\ \A tt \in Tenants : Cardinality(HoldingOf(tt, t)) <= TenantConcurrency
    BY DEF CapacityReserved
  <2>4. Cardinality({}) = 0 /\ {} \in SUBSET Jobs
    BY FS_EmptySet
  <2>5. ASSUME NEW S \in SUBSET Jobs, NEW T \in SUBSET S, NEW cap \in Nat, Cardinality(S) <= cap
        PROVE  Cardinality(T) <= cap
    <3>1. Cardinality(S) \in Nat
      BY JobsFinite
    <3>2. T \in SUBSET (S \cup {}) /\ Cardinality(S) + 0 <= cap
      BY <3>1, <2>5
    <3>3. QED
      BY <2>4, <2>5, <3>2, RoomForMore
  <2>6. \A tt \in Tenants \ {tn} : Cardinality(HoldingOf(tt, t)') <= TenantConcurrency
    BY <1>9, <2>2, <2>3, <2>5, CapsAssumption
  <2>7. CASE t \in start..(until - 1)
    <3>1. /\ Cardinality(Holding(t)) + n <= GlobalConcurrency
          /\ Cardinality(HoldingOf(tn, t)) + n <= TenantConcurrency
      BY <2>7, <1>1 DEF CapacityFor
    <3>2. Cardinality(new) <= n /\ n \in Nat
      BY <1>2, <1>5
    <3>3. Cardinality(Holding(t)') <= GlobalConcurrency
      <4>1. Holding(t)' \in SUBSET (Holding(t) \cup new)
        BY <1>9
      <4>2. QED
        BY <4>1, <3>1, <3>2, <1>5, <2>2, RoomForMore, CapsAssumption
    <3>4. Cardinality(HoldingOf(tn, t)') <= TenantConcurrency
      <4>1. HoldingOf(tn, t)' \in SUBSET (HoldingOf(tn, t) \cup new)
        BY <1>9
      <4>2. QED
        BY <4>1, <3>1, <3>2, <1>5, <2>2, RoomForMore, CapsAssumption
    <3>5. QED
      BY <2>6, <3>3, <3>4
  <2>8. CASE t \notin start..(until - 1)
    <3>1. Cardinality(Holding(t)') <= GlobalConcurrency
      BY <2>8, <1>9, <2>2, <2>3, <2>5, CapsAssumption
    <3>2. Cardinality(HoldingOf(tn, t)') <= TenantConcurrency
      BY <2>8, <1>9, <2>2, <2>3, <2>5, CapsAssumption
    <3>3. QED
      BY <2>6, <3>1, <3>2
  <2>9. QED
    BY <2>7, <2>8
<1>11. AbsentRows'
  <2>1. ASSUME NEW j \in Jobs, state'[j] = "absent"
        PROVE  /\ attempt'[j] = 0 /\ progress'[j] = 0 /\ ~cancel'[j] /\ cleaned'[j] = {}
               /\ ~secret'[j] /\ runtime'[j] = runtime[j] /\ state[j] = "absent"
    BY <2>1, <1>1 DEF AbsentRows
  <2>2. QED
    BY <2>1 DEF AbsentRows
<1>12. Windows'
  BY <1>1, <1>3, <1>4, <1>6 DEF Windows
<1>13. Claimed' /\ LeaseInsideReservation'
  <2>1. \A j \in Jobs : state'[j] \in Active => j \notin new /\ state[j] \in Active
    BY <1>1 DEF Active
  <2>2. QED
    BY <2>1, <1>1, <1>6 DEF Claimed, LeaseInsideReservation
<1>14. CancelIsFinal'
  BY <1>1, <1>4 DEF CancelIsFinal, AbsentRows
<1>15. SuspendedTenantDrains'
  BY <1>1, <1>6 DEF SuspendedTenantDrains
<1>16. SecretOnlyWhileNeeded'
  BY <1>1, <1>4, <1>6 DEF SecretOnlyWhileNeeded, Nonterminal, Queued
<1>17. QED
  BY <1>8, <1>10, <1>11, <1>12, <1>13, <1>14, <1>15, <1>16

----------------------------------------------------------------------------
(* The invariant of the specification. *)

LEMMA NextStep == IInv /\ [Next]_vars => IInv'
<1> SUFFICES ASSUME IInv, [Next]_vars PROVE IInv'
  OBVIOUS
<1>1. ASSUME NEW tn \in Tenants, NEW r \in Requests, NEW d \in MediaDurations,
             NEW n \in AttemptLimits, NEW s \in 0..Horizon, NEW j \in Jobs,
             Create(tn, r, d, n, s, j)
      PROVE  IInv'
  BY <1>1, CreateStep
<1>2. CASE Recover
  BY <1>2, RecoverStep
<1>3. ASSUME NEW blocked, Claim(blocked)
      PROVE  IInv'
  BY <1>3, ClaimStep
<1>4. ASSUME NEW j \in Jobs, NEW v \in Versions, NEW p \in NoProgress..HeartbeatLimit(j),
             Heartbeat(j, v, p)
      PROVE  IInv'
  BY <1>4, HeartbeatStep
<1>5. ASSUME NEW j \in Jobs, NEW v \in Versions, NEW asked \in Terminal \cup {"retry_wait"},
             NEW p \in 0..FinishLimit(j), Finish(j, v, asked, p)
      PROVE  IInv'
  BY <1>5, FinishStep
<1>6. ASSUME NEW j \in Jobs, NEW v \in Versions, MarkCleaned(j, v)
      PROVE  IInv'
  BY <1>6, MarkCleanedStep
<1>7. ASSUME NEW j \in Jobs, Cancel(j)
      PROVE  IInv'
  <2>1. {j} \in SUBSET Jobs /\ CancelJobs({j}) /\ enabled' = enabled
    BY <1>7 DEF Cancel
  <2>2. QED
    BY <2>1, CancelStep
<1>8. ASSUME NEW old \in SUBSET Jobs, Forget(old)
      PROVE  IInv'
  BY <1>8, ForgetStep
<1>9. ASSUME NEW tn \in Tenants, Suspend(tn)
      PROVE  IInv'
  <2>1. /\ Pending(tn) \in SUBSET Jobs /\ CancelJobs(Pending(tn))
        /\ enabled' = enabled \ {tn}
    BY <1>9 DEF Suspend, Pending
  <2>2. \A j \in Jobs : state[j] \in Nonterminal /\ plan[j].tenant \in enabled \ enabled'
             => j \in Pending(tn)
    BY <2>1 DEF Pending
  <2>3. QED
    BY <2>1, <2>2, CancelStep
<1>10. ASSUME NEW tn \in Tenants, Reinstate(tn)
       PROVE  IInv'
  BY <1>10, ReinstateStep
<1>11. CASE Tick
  BY <1>11, TickStep
<1>12. CASE UNCHANGED vars
  <2>1. CapacityReserved'
    BY <1>12, HoldingShrinks DEF IInv, vars, row
  <2>2. QED
    BY <1>12, <2>1 DEF vars, row, records, IInv, TypeOK, AbsentRows, Windows, Claimed,
       LeaseInsideReservation, CancelIsFinal, SuspendedTenantDrains, SecretOnlyWhileNeeded
<1>13. QED
  BY <1>1, <1>2, <1>3, <1>4, <1>5, <1>6, <1>7, <1>8, <1>9, <1>10, <1>11, <1>12 DEF Next

\* The inductive invariant holds at every instant.
THEOREM Invariance == Spec => []IInv
<1>1. QED
  BY InitInv, NextStep, PTL DEF Spec

\* The columns and records of the database keep their types.
THEOREM TypeCorrect == Spec => []TypeOK
<1>1. IInv => TypeOK
  BY DEF IInv
<1>2. QED
  BY <1>1, Invariance, PTL

\* Reservations never exceed the global cap nor their tenant's cap, now or at
\* any later instant (_capacity, kept by every later operation).
THEOREM CapacityIsReserved == Spec => []CapacityReserved
<1>1. IInv => CapacityReserved
  BY DEF IInv
<1>2. QED
  BY <1>1, Invariance, PTL

\* A live lease lies inside the reservation its job was admitted with.
THEOREM LeasesInsideReservations == Spec => []LeaseInsideReservation
<1>1. IInv => LeaseInsideReservation
  BY DEF IInv
<1>2. QED
  BY <1>1, Invariance, PTL

\* Suspension drains: a disabled tenant's unfinished jobs are all stopping.
THEOREM SuspensionDrains == Spec => []SuspendedTenantDrains
<1>1. IInv => SuspendedTenantDrains
  BY DEF IInv
<1>2. QED
  BY <1>1, Invariance, PTL

\* A cancelled job stops; it neither completes nor runs again.
THEOREM CancellationIsFinal == Spec => []CancelIsFinal
<1>1. IInv => CancelIsFinal
  BY DEF IInv
<1>2. QED
  BY <1>1, Invariance, PTL

\* The stream key is stored exactly while an attempt may still need it.
THEOREM SecretsDropped == Spec => []SecretOnlyWhileNeeded
<1>1. IInv => SecretOnlyWhileNeeded
  BY DEF IInv
<1>2. QED
  BY <1>1, Invariance, PTL

\* A due job with an open window always finds a free slot.  Every running job
\* with a live lease holds a reservation that covers this instant, and so does
\* the candidate, which is not running: the caps on reservations leave it room.
THEOREM AdmissionIsAPromise == Spec => []AdmittedNeverRefused
<1>1. ASSUME IInv, NEW j \in Candidates
      PROVE  /\ Cardinality(Running) < GlobalConcurrency
             /\ TenantFree(j)
  <2>0. TypeOK /\ Windows /\ CapacityReserved /\ LeaseInsideReservation
    BY <1>1 DEF IInv
  <2>1. now \in 0..Horizon
    BY <2>0 DEF TypeOK
  <2>2. /\ j \in Jobs /\ state[j] \in Queued /\ nextRun[j] <= now
        /\ ~(plan[j].until <= now)
    BY <1>1 DEF Candidates, Expired
  <2>3. \A i \in Jobs : /\ plan[i].start \in Int /\ plan[i].until \in Int
                        /\ lease[i] \in Int /\ nextRun[i] \in Int
    BY <2>0 DEF TypeOK
  <2>4. j \in Holding(now) /\ state[j] \notin Active
    BY <2>0, <2>1, <2>2, <2>3 DEF Holding, Covers, Windows, Nonterminal, Active, Queued
  <2>5. ASSUME NEW i \in Running
        PROVE  i \in Holding(now) /\ i # j
    <3>1. i \in Jobs /\ state[i] \in Active /\ ~(lease[i] <= now)
      BY DEF Running, Expired
    <3>2. lease[i] <= plan[i].until /\ plan[i].start <= now
      BY <2>0, <3>1 DEF LeaseInsideReservation
    <3>3. QED
      BY <2>1, <2>3, <2>4, <3>1, <3>2 DEF Holding, Covers, Nonterminal
  <2>6. ASSUME NEW S \in SUBSET Jobs, j \in S, NEW T \in SUBSET (S \ {j}), NEW cap \in Nat,
               Cardinality(S) <= cap
        PROVE  Cardinality(T) < cap
    <3>1. IsFiniteSet(S) /\ Cardinality(S) \in Nat /\ Cardinality(T) \in Nat
          /\ Cardinality(S \ {j}) \in Nat
      BY JobsFinite
    <3>2. Cardinality(S \ {j}) = Cardinality(S) - 1
      BY <2>6, <3>1, FS_RemoveElement
    <3>3. Cardinality(T) <= Cardinality(S \ {j})
      BY SmallerSet
    <3>4. QED
      BY <2>6, <3>1, <3>2, <3>3
  <2>7. Cardinality(Running) < GlobalConcurrency
    <3>1. Holding(now) \in SUBSET Jobs /\ Running \in SUBSET (Holding(now) \ {j})
      BY <2>5 DEF Holding
    <3>2. Cardinality(Holding(now)) <= GlobalConcurrency
      BY <2>0, <2>1 DEF CapacityReserved
    <3>3. QED
      BY <2>4, <2>6, <3>1, <3>2, CapsAssumption
  <2>8. TenantFree(j)
    <3> DEFINE tn == plan[j].tenant
    <3>1. HoldingOf(tn, now) \in SUBSET Jobs /\ j \in HoldingOf(tn, now)
          /\ RunningOf(tn) \in SUBSET (HoldingOf(tn, now) \ {j})
      BY <2>4, <2>5 DEF HoldingOf, Holding, RunningOf
    <3>2. tn \in Tenants
      BY <2>0, <2>2 DEF Windows, Nonterminal
    <3>3. Cardinality(HoldingOf(tn, now)) <= TenantConcurrency
      BY <2>0, <2>1, <3>2 DEF CapacityReserved
    <3>4. QED
      BY <2>6, <3>1, <3>3, CapsAssumption DEF TenantFree
  <2>9. QED
    BY <2>7, <2>8
<1>2. IInv => AdmittedNeverRefused
  BY <1>1 DEF AdmittedNeverRefused
<1>3. QED
  BY <1>2, Invariance, PTL

----------------------------------------------------------------------------
(* What a step never does. *)

\* A step that moves states only by Override with the outcome of queued jobs,
\* or between active ones, reopens nothing.
LEMMA StepsOfStates ==
    ASSUME IInv, [Next]_vars, NEW j \in Jobs
    PROVE  /\ state[j] \in Terminal => state'[j] \in {state[j], "deleted"}
           /\ state[j] \in Active /\ state'[j] \in Queued => lease[j] > now /\ ~cancel[j]
<1> USE DEF Terminal, Active, Queued
<1>0. TypeOK /\ j \in DOMAIN state
  BY DEF IInv, TypeOK
<1>1. ASSUME NEW tn \in Tenants, NEW r \in Requests, NEW d \in MediaDurations,
             NEW n \in AttemptLimits, NEW s \in 0..Horizon, NEW i \in Jobs,
             Create(tn, r, d, n, s, i)
      PROVE  state'[j] = state[j] \/ state[j] = "absent"
  <2>1. i..(i + Len(r) - 1) \subseteq {k \in Jobs : k >= i}
    BY <1>1 DEF Create
  <2>2. j >= i => state[j] = "absent"
    BY <1>1 DEF Create
  <2>3. j \in i..(i + Len(r) - 1) \/ state'[j] = state[j]
    BY <1>1 DEF Create
  <2>4. QED
    BY <2>1, <2>2, <2>3
<1>2. CASE Recover
  <2>1. j \in DOMAIN Verdicts => state[j] \in Active \cup Queued /\ Verdicts[j] \in Terminal
    BY DEF Verdicts, Expired
  <2>2. state'[j] = IF j \in DOMAIN Verdicts THEN Verdicts[j] ELSE state[j]
    BY <1>0, <1>2 DEF Recover, Override
  <2>3. QED
    BY <2>1, <2>2
<1>3. ASSUME NEW blocked, Claim(blocked)
      PROVE  /\ state[j] \in Terminal => state'[j] = state[j]
             /\ state[j] \in Active => state'[j] \notin Queued
  <2> DEFINE outcome == ScanVerdicts(Chosen(blocked))
  <2>1. j \in DOMAIN outcome => state[j] \in Active \cup Queued /\ outcome[j] \in Terminal
    BY DEF ScanVerdicts, Verdicts, Expired, RefusedBefore, Candidates
  <2>2. j \in Chosen(blocked) => state[j] \in Queued
    BY DEF Chosen, Candidates
  <2>3. state'[j] = IF j \in Chosen(blocked) THEN "starting"
                    ELSE IF j \in DOMAIN outcome THEN outcome[j] ELSE state[j]
    BY <1>0, <1>3 DEF Claim, Override
  <2>4. QED
    BY <2>1, <2>2, <2>3
<1>4. ASSUME NEW i \in Jobs, NEW v \in Versions, NEW p \in NoProgress..HeartbeatLimit(i),
             Heartbeat(i, v, p)
      PROVE  state[i] \in Active /\ state'[j] \in {state[j], IF i = j THEN "streaming" ELSE state[j]}
  BY <1>0, <1>4 DEF Heartbeat, HoldsLease, TypeOK
<1>5. ASSUME NEW i \in Jobs, NEW v \in Versions, NEW asked \in Terminal \cup {"retry_wait"},
             NEW p \in 0..FinishLimit(i), Finish(i, v, asked, p)
      PROVE  /\ state[j] \in Terminal => state'[j] = state[j]
             /\ state[j] \in Active /\ state'[j] \in Queued => lease[j] > now /\ ~cancel[j]
  <2>1. state[i] \in Active /\ lease[i] > now
    BY <1>5 DEF Finish, HoldsLease
  <2>2. state'[j] = IF j = i THEN Settled(i, asked, p) ELSE state[j]
    BY <1>0, <1>5 DEF Finish, Override
  <2>3. cancel[i] => Settled(i, asked, p) = "stopped"
    BY DEF Settled
  <2>4. QED
    BY <2>1, <2>2, <2>3
<1>6. ASSUME NEW S \in SUBSET Jobs, CancelJobs(S)
      PROVE  /\ state[j] \in Terminal => state'[j] = state[j]
             /\ state[j] \in Active => state'[j] \notin Queued
  <2> DEFINE outcome == [k \in {i \in S : state[i] \in Queued} |-> "stopped"]
             running == {i \in S : state[i] \in Active}
  <2>1. state'[j] = IF j \in running THEN "stopping"
                    ELSE IF j \in DOMAIN outcome THEN outcome[j] ELSE state[j]
    BY <1>0, <1>6 DEF CancelJobs, Override
  <2>2. QED
    BY <2>1
<1>7. ASSUME NEW old \in SUBSET Jobs, Forget(old)
      PROVE  state'[j] \in {state[j], "deleted"} /\ (state[j] \in Active => state'[j] = state[j])
  BY <1>0, <1>7 DEF Forget, Cleared
<1>8. ASSUME NEW tn \in Tenants, Reinstate(tn)
      PROVE  state' = state
  BY <1>8 DEF Reinstate, row
<1>9. ASSUME NEW i \in Jobs, NEW v \in Versions, MarkCleaned(i, v)
      PROVE  state' = state
  BY <1>9 DEF MarkCleaned, row
<1>10. Tick \/ UNCHANGED vars => state' = state
  BY DEF Tick, vars, row
<1>11. \A tn \in Tenants : Suspend(tn) => Pending(tn) \in SUBSET Jobs /\ CancelJobs(Pending(tn))
  BY DEF Suspend, Pending
<1>12. \A i \in Jobs : Cancel(i) => {i} \in SUBSET Jobs /\ CancelJobs({i})
  BY DEF Cancel
<1>13. QED
  BY <1>1, <1>2, <1>3, <1>4, <1>5, <1>6, <1>7, <1>8, <1>9, <1>10, <1>11, <1>12 DEF Next

\* A job whose worker lost its lease is never queued again: only a report made
\* under a live lease leads to a retry, and never that of a cancelled job.
THEOREM LostLeasesEnd == Spec => LostLeaseNeverRetried
<1>1. IInv /\ [Next]_vars =>
        [\A j \in Jobs : state[j] \in Active /\ state'[j] \in Queued =>
            lease[j] > now /\ ~cancel[j]]_vars
  BY StepsOfStates
<1>2. QED
  BY <1>1, Invariance, PTL DEF Spec, LostLeaseNeverRetried

\* No call reopens a job that has ended.
THEOREM EndsAreFinal == Spec => TerminalIsFinal
<1>1. IInv /\ [Next]_vars =>
        [\A j \in Jobs : state[j] \in Terminal => state'[j] \in {state[j], "deleted"}]_vars
  BY StepsOfStates
<1>2. QED
  BY <1>1, Invariance, PTL DEF Spec, TerminalIsFinal

----------------------------------------------------------------------------
(* Runtime records.  Beside RuntimeMirrorsJob one needs that no record of a  *)
(* later attempt exists yet when a claim begins that attempt.                *)

Mirror(j, v) ==
    /\ runtime[j][v] \in Active <=> (state[j] \in Active /\ attempt[j] = v)
    /\ v \in cleaned[j] => ~(state[j] \in Active /\ attempt[j] = v)
    /\ runtime[j][v] # "none" \/ v \in cleaned[j] => v <= attempt[j]

LEMMA RecordStep ==
    ASSUME IInv, [Next]_vars, NEW j \in Jobs, NEW v \in Versions, Mirror(j, v)
    PROVE  Mirror(j, v)'
<1> USE DEF Active, Queued, Terminal
<1>1. /\ TypeOK /\ state \in [Jobs -> States] /\ attempt \in [Jobs -> 0..MaxAttempts]
      /\ runtime \in [Jobs -> [Versions -> {"none"} \cup Nonterminal \cup Terminal]]
      /\ cleaned \in [Jobs -> SUBSET Versions]
      /\ v \in Int /\ attempt[j] \in Int
  BY DEF IInv, TypeOK, Versions, MaxAttempts
<1>2. ASSUME NEW tn \in Tenants, NEW r \in Requests, NEW d \in MediaDurations,
             NEW n \in AttemptLimits, NEW s \in 0..Horizon, NEW i \in Jobs,
             Create(tn, r, d, n, s, i)
      PROVE  Mirror(j, v)'
  <2>1. i..(i + Len(r) - 1) \subseteq {k \in Jobs : k >= i}
    BY <1>2 DEF Create
  <2>2. j >= i => state[j] = "absent"
    BY <1>2 DEF Create
  <2>3. state'[j] = IF j \in i..(i + Len(r) - 1) THEN "scheduled" ELSE state[j]
    BY <1>2 DEF Create
  <2>4. UNCHANGED <<attempt, runtime, cleaned>>
    BY <1>2 DEF Create, records
  <2>5. QED
    BY <2>1, <2>2, <2>3, <2>4 DEF Mirror
<1>3. ASSUME NEW outcome, j \in DOMAIN outcome => outcome[j] \in Terminal \cup {"retry_wait"},
             state'[j] = IF j \in DOMAIN outcome THEN outcome[j] ELSE state[j],
             runtime'[j] = RuntimesAfter(outcome)[j], attempt' = attempt, cleaned' = cleaned
      PROVE  Mirror(j, v)'
  <2>1. runtime'[j][v] = IF j \in DOMAIN outcome /\ v = attempt[j] THEN outcome[j]
                         ELSE runtime[j][v]
    BY <1>3 DEF RuntimesAfter
  <2>2. QED
    BY <1>1, <1>3, <2>1 DEF Mirror
<1>4. CASE Recover
  <2>1. j \in DOMAIN Verdicts => Verdicts[j] \in Terminal
    BY DEF Verdicts
  <2>2. /\ state'[j] = IF j \in DOMAIN Verdicts THEN Verdicts[j] ELSE state[j]
        /\ runtime' = RuntimesAfter(Verdicts) /\ UNCHANGED <<attempt, cleaned>>
    BY <1>1, <1>4 DEF Recover, Override
  <2>3. QED
    BY <1>3, <2>1, <2>2
<1>5. ASSUME NEW blocked, Claim(blocked)
      PROVE  Mirror(j, v)'
  <2> DEFINE chosen == Chosen(blocked)
             outcome == ScanVerdicts(chosen)
  <2>1. /\ j \in DOMAIN outcome => outcome[j] \in Terminal
        /\ j \in chosen => /\ state[j] \in Queued /\ attempt[j] < plan[j].tries
    BY <1>1, ScanType
  <2>2. /\ state'[j] = IF j \in chosen THEN "starting" ELSE Override(state, outcome)[j]
        /\ attempt'[j] = IF j \in chosen THEN attempt[j] + 1 ELSE attempt[j]
        /\ runtime'[j] = IF j \in chosen THEN [runtime[j] EXCEPT ![attempt[j] + 1] = "starting"]
                         ELSE RuntimesAfter(outcome)[j]
        /\ cleaned' = cleaned
    BY <1>5 DEF Claim
  <2> HIDE DEF chosen, outcome
  <2>3. CASE j \in chosen
    <3>1. attempt[j] + 1 \in Versions
      BY <1>1, <2>1, <2>3, TriesType DEF Versions
    <3>2. runtime'[j][v] = IF v = attempt[j] + 1 THEN "starting" ELSE runtime[j][v]
      BY <1>1, <2>2, <2>3, <3>1
    <3>3. runtime[j][v] \notin Active
      BY <2>1, <2>3 DEF Mirror
    <3>4. v = attempt[j] + 1 => v \notin cleaned[j]
      BY <1>1 DEF Mirror
    <3>5. QED
      BY <1>1, <2>2, <2>3, <3>2, <3>3, <3>4 DEF Mirror
  <2>4. CASE j \notin chosen
    <3>1. state'[j] = IF j \in DOMAIN outcome THEN outcome[j] ELSE state[j]
      BY <1>1, <2>2, <2>4 DEF Override
    <3>2. runtime'[j][v] = IF j \in DOMAIN outcome /\ v = attempt[j] THEN outcome[j]
                           ELSE runtime[j][v]
      BY <2>2, <2>4 DEF RuntimesAfter
    <3>3. QED
      BY <1>1, <2>1, <2>2, <2>4, <3>1, <3>2 DEF Mirror
  <2>5. QED
    BY <2>3, <2>4
<1>6. ASSUME NEW i \in Jobs, NEW w \in Versions, NEW p \in NoProgress..HeartbeatLimit(i),
             Heartbeat(i, w, p)
      PROVE  Mirror(j, v)'
  <2>1. state[i] \in Active /\ attempt[i] = w
    BY <1>6 DEF Heartbeat, HoldsLease, IInv, LeaseInsideReservation
  <2>2. PICK phase \in {"streaming", state[i]} :
           state' = [state EXCEPT ![i] = phase] /\ runtime' = [runtime EXCEPT ![i][w] = phase]
    BY <1>6 DEF Heartbeat
  <2>3. UNCHANGED <<attempt, cleaned>>
    BY <1>6 DEF Heartbeat
  <2>4. /\ state'[j] = IF i = j THEN phase ELSE state[j]
        /\ runtime'[j][v] = IF i = j /\ w = v THEN phase ELSE runtime[j][v]
    BY <1>1, <2>2
  <2>5. QED
    BY <1>1, <2>1, <2>2, <2>3, <2>4 DEF Mirror
<1>7. ASSUME NEW i \in Jobs, NEW w \in Versions, NEW asked \in Terminal \cup {"retry_wait"},
             NEW p \in 0..FinishLimit(i), Finish(i, w, asked, p)
      PROVE  Mirror(j, v)'
  <2> DEFINE outcome == [k \in {i} |-> Settled(i, asked, p)]
  <2>1. outcome[i] \in Terminal \cup {"retry_wait"}
    BY DEF Settled
  <2>2. /\ state'[j] = IF j \in DOMAIN outcome THEN outcome[j] ELSE state[j]
        /\ runtime' = RuntimesAfter(outcome) /\ UNCHANGED <<attempt, cleaned>>
    BY <1>1, <1>7 DEF Finish, Override
  <2>3. j \in DOMAIN outcome => outcome[j] \in Terminal \cup {"retry_wait"}
    BY <2>1
  <2> HIDE DEF outcome
  <2>4. QED
    BY <1>3, <2>2, <2>3
<1>8. ASSUME NEW S \in SUBSET Jobs, CancelJobs(S)
      PROVE  Mirror(j, v)'
  <2> DEFINE outcome == [k \in {i \in S : state[i] \in Queued} |-> "stopped"]
             running == {i \in S : state[i] \in Active}
  <2>1. /\ state'[j] = IF j \in running THEN "stopping" ELSE Override(state, outcome)[j]
        /\ runtime'[j] = IF j \in running THEN [runtime[j] EXCEPT ![attempt[j]] = "stopping"]
                         ELSE RuntimesAfter(outcome)[j]
        /\ UNCHANGED <<attempt, cleaned>>
    BY <1>8 DEF CancelJobs
  <2>2. /\ j \in DOMAIN outcome => outcome[j] = "stopped"
        /\ j \in running => state[j] \in Active
    OBVIOUS
  <2> HIDE DEF outcome, running
  <2>3. CASE j \in running
    <3>1. runtime'[j][v] = IF v = attempt[j] THEN "stopping" ELSE runtime[j][v]
      BY <1>1, <2>1, <2>3
    <3>2. QED
      BY <1>1, <2>1, <2>2, <2>3, <3>1 DEF Mirror
  <2>4. CASE j \notin running
    <3>1. state'[j] = IF j \in DOMAIN outcome THEN outcome[j] ELSE state[j]
      BY <1>1, <2>1, <2>4 DEF Override
    <3>2. QED
      BY <1>3, <2>1, <2>2, <2>4, <3>1
  <2>5. QED
    BY <2>3, <2>4
<1>9. ASSUME NEW i \in Jobs, NEW w \in Versions, MarkCleaned(i, w)
      PROVE  Mirror(j, v)'
  <2>1. runtime[i][w] \notin Active \cup {"none"}
    BY <1>9 DEF MarkCleaned
  <2>2. cleaned'[j] = IF i = j THEN cleaned[j] \cup {w} ELSE cleaned[j]
    BY <1>1, <1>9 DEF MarkCleaned
  <2>3. UNCHANGED <<state, attempt, runtime>>
    BY <1>9 DEF MarkCleaned, row
  <2>4. QED
    BY <2>1, <2>2, <2>3 DEF Mirror
<1>10. ASSUME NEW old \in SUBSET Jobs, Forget(old)
       PROVE  Mirror(j, v)'
  <2>1. state'[j] = IF j \in old THEN "deleted" ELSE state[j]
    BY <1>1, <1>10 DEF Forget, Cleared
  <2>2. j \in old => state[j] \in Terminal
    BY <1>10 DEF Forget
  <2>3. UNCHANGED <<attempt, runtime, cleaned>>
    BY <1>10 DEF Forget, records
  <2>4. QED
    BY <2>1, <2>2, <2>3 DEF Mirror
<1>11. ASSUME UNCHANGED <<row, records>>
       PROVE  Mirror(j, v)'
  BY <1>11 DEF row, records, Mirror
<1>12. \A tn \in Tenants : Reinstate(tn) => UNCHANGED <<row, records>>
  BY DEF Reinstate
<1>13. Tick \/ UNCHANGED vars => UNCHANGED <<row, records>>
  BY DEF Tick, vars
<1>14. \A tn \in Tenants : Suspend(tn) => Pending(tn) \in SUBSET Jobs /\ CancelJobs(Pending(tn))
  BY DEF Suspend, Pending
<1>15. \A i \in Jobs : Cancel(i) => {i} \in SUBSET Jobs /\ CancelJobs({i})
  BY DEF Cancel
<1>16. QED
  BY <1>2, <1>4, <1>5, <1>6, <1>7, <1>8, <1>9, <1>10, <1>11, <1>12, <1>13, <1>14, <1>15 DEF Next

\* The dispatcher never finds a live attempt's record ended, nor an ended
\* attempt's record active, in whatever order attempts start, end and retry.
THEOREM RecordsMirrorJobs == Spec => []RuntimeMirrorsJob
<1> DEFINE Mirrors == \A j \in Jobs, v \in Versions : Mirror(j, v)
<1>1. Init => Mirrors
  BY DEF Init, Mirror, Active, Versions
<1>2. IInv /\ Mirrors /\ [Next]_vars => Mirrors'
  <2> SUFFICES ASSUME IInv, Mirrors, [Next]_vars, NEW j \in Jobs, NEW v \in Versions
               PROVE  Mirror(j, v)'
    OBVIOUS
  <2>1. QED
    BY RecordStep
<1>3. Mirrors => RuntimeMirrorsJob
  BY DEF Mirror, RuntimeMirrorsJob
<1> HIDE DEF Mirrors
<1>4. QED
  BY <1>1, <1>2, <1>3, Invariance, PTL DEF Spec

----------------------------------------------------------------------------
(* The envelope.  An unfinished job's plan is the one its request computed,   *)
(* and a job that waits has attempts left.                                    *)

Payable(j) ==
    state[j] \in Nonterminal =>
        /\ plan[j].tries \in Versions
        /\ plan[j].until = plan[j].start + Envelope(plan[j].dur, plan[j].tries)
        /\ attempt[j] <= plan[j].tries
        /\ state[j] \in Queued => attempt[j] < plan[j].tries

LEMMA PayableStep ==
    ASSUME IInv, [Next]_vars, NEW j \in Jobs, Payable(j)
    PROVE  Payable(j)'
<1> USE DEF Nonterminal, Active, Queued, Terminal
<1>1. /\ TypeOK /\ state \in [Jobs -> States] /\ attempt[j] \in 0..MaxAttempts
      /\ plan[j].tries \in 0..MaxAttempts /\ MaxAttempts = 5
  BY TriesType DEF IInv, TypeOK
<1>2. ASSUME NEW tn \in Tenants, NEW r \in Requests, NEW d \in MediaDurations,
             NEW n \in AttemptLimits, NEW s \in 0..Horizon, NEW i \in Jobs,
             Create(tn, r, d, n, s, i)
      PROVE  Payable(j)'
  <2> DEFINE new == i..(i + Len(r) - 1)
             length == Duration(r[1], d)
  <2>1. /\ attempt' = attempt
        /\ state'[j] = IF j \in new THEN "scheduled" ELSE state[j]
        /\ plan'[j] = IF j \in new
                      THEN [tenant |-> tn, kind |-> r[j - i + 1], dur |-> length, start |-> s,
                            until |-> s + Envelope(length, n), tries |-> n]
                      ELSE plan[j]
    BY <1>2 DEF Create
  <2>2. CASE j \in new
    <3>1. state[j] = "absent" /\ n \in Versions
      BY <1>2, <2>2, RequestsAssumption DEF Create, Jobs
    <3>2. attempt[j] = 0
      BY <3>1 DEF IInv, AbsentRows
    <3>3. QED
      BY <2>1, <2>2, <3>1, <3>2 DEF Payable, Versions, MaxAttempts, Envelope
  <2>3. CASE j \notin new
    BY <2>1, <2>3 DEF Payable, Envelope
  <2>4. QED
    BY <2>2, <2>3
<1>3. ASSUME UNCHANGED <<plan, attempt>>,
             state'[j] \in Nonterminal => state[j] \in Nonterminal,
             state'[j] \in Queued => state[j] \in Queued \/ attempt[j] < plan[j].tries
      PROVE  Payable(j)'
  BY <1>3 DEF Payable, Envelope
<1>4. CASE Recover
  <2>1. j \in DOMAIN Verdicts => Verdicts[j] \in Terminal
    BY DEF Verdicts
  <2>2. /\ state'[j] = IF j \in DOMAIN Verdicts THEN Verdicts[j] ELSE state[j]
        /\ UNCHANGED <<plan, attempt>>
    BY <1>1, <1>4 DEF Recover, Override
  <2>3. QED
    BY <1>3, <2>1, <2>2
<1>5. ASSUME NEW blocked, Claim(blocked)
      PROVE  Payable(j)'
  <2> DEFINE chosen == Chosen(blocked)
             outcome == ScanVerdicts(chosen)
  <2>1. /\ j \in DOMAIN outcome => outcome[j] \in Terminal
        /\ j \in chosen => state[j] \in Queued /\ attempt[j] < plan[j].tries
    BY <1>1, ScanType
  <2>2. /\ state'[j] = IF j \in chosen THEN "starting"
                       ELSE IF j \in DOMAIN outcome THEN outcome[j] ELSE state[j]
        /\ attempt'[j] = IF j \in chosen THEN attempt[j] + 1 ELSE attempt[j]
        /\ plan' = plan
    BY <1>1, <1>5 DEF Claim, Override
  <2>3. QED
    <3> HIDE DEF chosen, outcome
    <3> QED BY <1>1, <2>1, <2>2 DEF Payable, Envelope
<1>6. ASSUME NEW i \in Jobs, NEW v \in Versions, NEW p \in NoProgress..HeartbeatLimit(i),
             Heartbeat(i, v, p)
      PROVE  Payable(j)'
  <2>1. /\ UNCHANGED <<plan, attempt>>
        /\ state[i] \in Active
        /\ state'[j] \in {state[j], IF i = j THEN "streaming" ELSE state[j]}
    BY <1>1, <1>6 DEF Heartbeat, HoldsLease
  <2>2. QED
    BY <1>3, <2>1
<1>7. ASSUME NEW i \in Jobs, NEW v \in Versions, NEW asked \in Terminal \cup {"retry_wait"},
             NEW p \in 0..FinishLimit(i), Finish(i, v, asked, p)
      PROVE  Payable(j)'
  <2>1. state[i] \in Active /\ UNCHANGED <<plan, attempt>>
    BY <1>7 DEF Finish, HoldsLease
  <2>2. state'[j] = IF j = i THEN Settled(i, asked, p) ELSE state[j]
    BY <1>1, <1>7 DEF Finish, Override
  <2>3. Settled(i, asked, p) \in Queued => attempt[i] < plan[i].tries
    BY DEF Settled, RetryFits
  <2>4. QED
    BY <1>3, <2>1, <2>2, <2>3
<1>8. ASSUME NEW S \in SUBSET Jobs, CancelJobs(S)
      PROVE  Payable(j)'
  <2> DEFINE outcome == [k \in {i \in S : state[i] \in Queued} |-> "stopped"]
             running == {i \in S : state[i] \in Active}
  <2>1. state'[j] = IF j \in running THEN "stopping"
                    ELSE IF j \in DOMAIN outcome THEN outcome[j] ELSE state[j]
    BY <1>1, <1>8 DEF CancelJobs, Override
  <2>2. UNCHANGED <<plan, attempt>>
    BY <1>8 DEF CancelJobs
  <2>3. QED
    BY <1>3, <2>1, <2>2
<1>9. ASSUME NEW old \in SUBSET Jobs, Forget(old)
      PROVE  Payable(j)'
  <2>1. state'[j] \in {state[j], "deleted"} /\ UNCHANGED <<plan, attempt>>
    BY <1>1, <1>9 DEF Forget, Cleared
  <2>2. QED
    BY <1>3, <2>1
<1>10. ASSUME UNCHANGED row PROVE Payable(j)'
  BY <1>3, <1>10 DEF row
<1>11. QED
  BY <1>2, <1>4, <1>5, <1>6, <1>7, <1>8, <1>9, <1>10
     DEF Next, vars, Tick, MarkCleaned, Reinstate, Cancel, Suspend, Pending

\* The waits between attempts only grow.
LEMMA PowersGrow ==
    ASSUME NEW a \in 0..4, NEW b \in 0..4, a <= b
    PROVE  2^a \in Nat \ {0} /\ 2^b \in Nat \ {0} /\ 2^a <= 2^b /\ 2^(a + 1) = 2 * 2^a
<1>1. /\ 2^0 \in Nat /\ 2^1 \in Nat /\ 2^2 \in Nat /\ 2^3 \in Nat /\ 2^4 \in Nat
      /\ 2^(0 + 1) = 2 * 2^0 /\ 2^(1 + 1) = 2 * 2^1 /\ 2^(2 + 1) = 2 * 2^2 /\ 2^(3 + 1) = 2 * 2^3
  BY PowersAssumption DEF MaxAttempts
<1>2. 2^0 <= 2^1 /\ 2^1 <= 2^2 /\ 2^2 <= 2^3 /\ 2^3 <= 2^4
  BY <1>1
<1>3. /\ 2^0 <= 2^0 /\ 2^0 <= 2^1 /\ 2^0 <= 2^2 /\ 2^0 <= 2^3 /\ 2^0 <= 2^4
      /\ 2^1 <= 2^1 /\ 2^1 <= 2^2 /\ 2^1 <= 2^3 /\ 2^1 <= 2^4
      /\ 2^2 <= 2^2 /\ 2^2 <= 2^3 /\ 2^2 <= 2^4 /\ 2^3 <= 2^3 /\ 2^3 <= 2^4 /\ 2^4 <= 2^4
  BY <1>1, <1>2
<1>4. 2^a <= 2^b
  <2>1. CASE a = 0
    <3>1. b = 0 \/ b = 1 \/ b = 2 \/ b = 3 \/ b = 4
      OBVIOUS
    <3>2. QED
      BY <1>3, <2>1, <3>1, Zenon
  <2>2. CASE a = 1
    <3>1. b = 1 \/ b = 2 \/ b = 3 \/ b = 4
      BY <2>2
    <3>2. QED
      BY <1>3, <2>2, <3>1, Zenon
  <2>3. CASE a = 2
    <3>1. b = 2 \/ b = 3 \/ b = 4
      BY <2>3
    <3>2. QED
      BY <1>3, <2>3, <3>1, Zenon
  <2>4. CASE a = 3
    <3>1. b = 3 \/ b = 4
      BY <2>4
    <3>2. QED
      BY <1>3, <2>4, <3>1, Zenon
  <2>5. CASE a = 4
    <3>1. b = 4
      BY <2>5
    <3>2. QED
      BY <1>3, <2>5, <3>1, Zenon
  <2>6. a = 0 \/ a = 1 \/ a = 2 \/ a = 3 \/ a = 4
    OBVIOUS
  <2>7. QED
    BY <2>1, <2>2, <2>3, <2>4, <2>5, <2>6
<1>5. a \in 0..MaxAttempts /\ b \in 0..MaxAttempts
  BY DEF MaxAttempts
<1>6. /\ 2^a \in Nat \ {0} /\ 2^(a + 1) = 2 * 2^a
      /\ 2^b \in Nat \ {0}
  BY <1>5, PowersAssumption
<1>7. QED
  BY <1>4, <1>6

\* The plan of n attempts of length D, waits that grow and a grace pays for
\* attempt a + 1, when p is the wait up to it and q the one up to the last.
LEMMA PlanPays ==
    ASSUME NEW D \in Nat, NEW R \in Nat, NEW G \in Nat,
           NEW n \in Nat, NEW a \in Nat, a + 1 <= n,
           NEW p \in Nat, NEW q \in Nat, p <= q
    PROVE  (a + 1) * D + R * (p - 1) + G <= D * n + R * (q - 1) + G
<1>1. PICK k \in Nat : n = a + 1 + k
  <2>1. n - (a + 1) \in Nat /\ n = a + 1 + (n - (a + 1))
    OBVIOUS
  <2>2. QED
    BY <2>1
<1>2. D * n = (a + 1) * D + D * k /\ D * k \in Nat
  BY <1>1
<1>3. PICK m \in Nat : q = p + m
  <2>1. q - p \in Nat /\ q = p + (q - p)
    OBVIOUS
  <2>2. QED
    BY <2>1
<1>4. R * (q - 1) = R * (p - 1) + R * m /\ R * m \in Nat
  BY <1>3
<1>5. (a + 1) * D \in Int /\ R * (p - 1) \in Int
  OBVIOUS
<1>6. QED
  BY <1>2, <1>4, <1>5

\* What is left to play is never more than the whole recording.
LEMMA RemainingBound ==
    ASSUME TypeOK, NEW j \in Jobs, NEW p \in Nat
    PROVE  Remaining(j, p) \in Nat /\ Remaining(j, p) <= plan[j].dur
BY DEF Remaining, TypeOK

\* An active job that kept to its plan can be retried.
LEMMA RetryIsPaid ==
    ASSUME TypeOK, Claimed, NEW j \in Jobs, Payable(j),
           state[j] \in Active, attempt[j] < plan[j].tries,
           now <= Planned(j, attempt[j]) + RetryDelay * (2^(attempt[j] - 1) - 1) + ReservationGrace
    PROVE  RetryFits(j, progress[j])
<1> DEFINE D == plan[j].dur + RuntimeAllowance
           a == attempt[j]
           n == plan[j].tries
           x == 2^(a - 1)
           y == 2^a
           z == 2^(n - 1)
           rest == Remaining(j, progress[j])
<1>1. /\ a \in Nat /\ n \in 1..5 /\ a >= 1 /\ a < n
      /\ plan[j].until = plan[j].start + Envelope(plan[j].dur, plan[j].tries)
  <2>1. state[j] \in Nonterminal
    BY DEF Nonterminal
  <2>2. n \in 1..5
    BY <2>1 DEF Payable, Versions, MaxAttempts
  <2>3. a \in Nat /\ a >= 1
    BY TriesType DEF Claimed
  <2>4. QED
    BY <2>1, <2>2, <2>3 DEF Payable
<1>2. /\ plan[j].dur \in Nat /\ plan[j].start \in Nat /\ plan[j].until \in Nat /\ now \in Nat
      /\ progress[j] \in Nat
  BY DEF TypeOK
<1>3. rest \in Nat /\ rest <= plan[j].dur
  BY <1>2, RemainingBound
<1>4. a - 1 \in 0..4 /\ a \in 0..4 /\ n - 1 \in 0..4 /\ a <= n - 1 /\ (a - 1) + 1 = a
  BY <1>1
<1>5. x \in Nat /\ y = 2 * x
  <2>1. \A e \in 0..4 : 2^e \in Nat /\ 2^(e + 1) = 2 * 2^e
    <3> SUFFICES ASSUME NEW e \in 0..4 PROVE 2^e \in Nat /\ 2^(e + 1) = 2 * 2^e
      OBVIOUS
    <3>1. e <= e
      OBVIOUS
    <3>2. QED
      BY <3>1, PowersGrow
  <2>2. 2^(a - 1) \in Nat /\ 2^((a - 1) + 1) = 2 * 2^(a - 1)
    BY <1>4, <2>1, Zenon
  <2>3. QED
    BY <1>4, <2>2, Zenon
<1>6. y \in Nat /\ z \in Nat /\ y <= z
  BY <1>4, PowersGrow
<1>7. D \in Nat /\ RuntimeAllowance \in Nat /\ RetryDelay \in Nat /\ ReservationGrace \in Nat
  BY <1>2, TimingAssumption
<1>8. plan[j].until = plan[j].start + (D * n + RetryDelay * (z - 1) + ReservationGrace)
  BY <1>1 DEF Envelope
<1>9. now <= plan[j].start + a * D + RetryDelay * (x - 1) + ReservationGrace
  BY DEF Planned
<1>10. BackoffUntil(j) = now + RetryDelay * x
  BY DEF BackoffUntil
<1>11. SUFFICES now + RetryDelay * x + rest + RuntimeAllowance <= plan[j].until
  BY <1>10 DEF RetryFits
<1>12. (a + 1) * D + RetryDelay * (y - 1) + ReservationGrace
         <= D * n + RetryDelay * (z - 1) + ReservationGrace
  <2> HIDE DEF D, a, n, x, y, z
  <2> QED BY <1>1, <1>6, <1>7, PlanPays
<1>13. rest + RuntimeAllowance <= D
  BY <1>2, <1>3, <1>7
<1>14. RetryDelay * (y - 1) = RetryDelay * (x - 1) + RetryDelay * x
  <2> HIDE DEF D, a, n, x, y, z
  <2>1. y - 1 = (x - 1) + x
    BY <1>5
  <2>2. QED
    BY <1>5, <1>7, <2>1
<1>15. (a + 1) * D = a * D + D
  <2> HIDE DEF D, a, n, x, y, z
  <2> QED BY <1>1, <1>7
<1>16. /\ a * D \in Int /\ D * n \in Int /\ RetryDelay * x \in Int
       /\ RetryDelay * (x - 1) \in Int /\ RetryDelay * (z - 1) \in Int
  <2> HIDE DEF D, a, n, x, y, z
  <2> QED BY <1>1, <1>5, <1>6, <1>7
<1>17. QED
  <2> HIDE DEF D, a, n, x, y, z, rest
  <2> QED BY <1>2, <1>3, <1>7, <1>8, <1>9, <1>12, <1>13, <1>14, <1>15, <1>16

\* A job that waits and kept to its plan can be claimed.
LEMMA ClaimIsPaid ==
    ASSUME TypeOK, NEW j \in Jobs, Payable(j), state[j] \in Queued,
           now <= Planned(j, attempt[j]) + RetryDelay * (2^attempt[j] - 1) + ReservationGrace
    PROVE  ~Late(j)
<1> DEFINE D == plan[j].dur + RuntimeAllowance
           a == attempt[j]
           n == plan[j].tries
           y == 2^a
           z == 2^(n - 1)
           rest == Remaining(j, progress[j])
<1>1. /\ a \in Nat /\ n \in 1..5 /\ a < n
      /\ plan[j].until = plan[j].start + Envelope(plan[j].dur, plan[j].tries)
  <2>1. state[j] \in Nonterminal
    BY DEF Nonterminal
  <2>2. n \in 1..5
    BY <2>1 DEF Payable, Versions, MaxAttempts
  <2>3. a \in Nat
    BY TriesType
  <2>4. QED
    BY <2>1, <2>2, <2>3 DEF Payable
<1>2. /\ plan[j].dur \in Nat /\ plan[j].start \in Nat /\ plan[j].until \in Nat /\ now \in Nat
      /\ progress[j] \in Nat
  BY DEF TypeOK
<1>3. rest \in Nat /\ rest <= plan[j].dur
  BY <1>2, RemainingBound
<1>4. a \in 0..4 /\ n - 1 \in 0..4 /\ a <= n - 1
  BY <1>1
<1>5. y \in Nat /\ z \in Nat /\ y <= z
  BY <1>4, PowersGrow
<1>6. D \in Nat /\ RuntimeAllowance \in Nat /\ RetryDelay \in Nat /\ ReservationGrace \in Nat
  BY <1>2, TimingAssumption
<1>7. plan[j].until = plan[j].start + (D * n + RetryDelay * (z - 1) + ReservationGrace)
  BY <1>1 DEF Envelope
<1>8. now <= plan[j].start + a * D + RetryDelay * (y - 1) + ReservationGrace
  BY DEF Planned
<1>9. SUFFICES now + rest + RuntimeAllowance <= plan[j].until
  BY <1>1, <1>2, <1>3, <1>6 DEF Late
<1>10. (a + 1) * D + RetryDelay * (y - 1) + ReservationGrace
         <= D * n + RetryDelay * (z - 1) + ReservationGrace
  <2> HIDE DEF D, a, n, y, z
  <2> QED BY <1>1, <1>5, <1>6, PlanPays
<1>11. rest + RuntimeAllowance <= D
  BY <1>2, <1>3, <1>6
<1>12. (a + 1) * D = a * D + D
  <2> HIDE DEF D, a, n, y, z
  <2> QED BY <1>1, <1>6
<1>13. /\ a * D \in Int /\ D * n \in Int
       /\ RetryDelay * (y - 1) \in Int /\ RetryDelay * (z - 1) \in Int
  <2> HIDE DEF D, a, n, y, z
  <2> QED BY <1>1, <1>5, <1>6
<1>14. QED
  <2> HIDE DEF D, a, n, y, z, rest
  <2> QED BY <1>2, <1>3, <1>6, <1>7, <1>8, <1>10, <1>11, <1>12, <1>13

\* What admission reserves pays for every attempt (_envelope): as long as the
\* attempts so far took no longer than planned plus the grace, a failed one can
\* be retried (finish) and a waiting one is still in time (claim).
THEOREM EnvelopePays == Spec => []EnvelopeCoversRetries
<1> DEFINE AllPayable == \A j \in Jobs : Payable(j)
<1>1. Init => AllPayable
  BY DEF Init, Payable, Nonterminal, Queued, Active
<1>2. IInv /\ AllPayable /\ [Next]_vars => AllPayable'
  BY PayableStep
<1>3. IInv /\ AllPayable => EnvelopeCoversRetries
  <2> SUFFICES ASSUME IInv, AllPayable, NEW j \in Jobs
               PROVE  /\ /\ state[j] \in Active /\ ~cancel[j] /\ attempt[j] < plan[j].tries
                         /\ now <= Planned(j, attempt[j]) + RetryDelay * (2^(attempt[j] - 1) - 1)
                                     + ReservationGrace
                         => RetryFits(j, progress[j])
                      /\ /\ state[j] \in Queued
                         /\ now <= Planned(j, attempt[j]) + RetryDelay * (2^attempt[j] - 1)
                                     + ReservationGrace
                         => ~Late(j)
    BY DEF EnvelopeCoversRetries
  <2>1. TypeOK /\ Claimed /\ Payable(j)
    BY DEF IInv
  <2>2. QED
    BY <2>1, RetryIsPaid, ClaimIsPaid
<1>4. QED
  <2> HIDE DEF AllPayable
  <2> QED BY <1>1, <1>2, <1>3, Invariance, PTL DEF Spec
=============================================================================
