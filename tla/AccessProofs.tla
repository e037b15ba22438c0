----------------------------- MODULE AccessProofs -----------------------------
(* Theorems about Accounts for any accounts, logins, challenges and number of  *)
(* concurrent transactions.  The argument is the locking discipline: what a    *)
(* transaction read stays true until it commits, because whoever could change  *)
(* it needs a row that the transaction holds.  The last three parts are about  *)
(* what else MCAccess composes: the budgets of requests, the signing keys and  *)
(* the credentials of the workload, for any parameters that satisfy theirs.    *)
EXTENDS MCAccess, FiniteSetTheorems, TLAPS

\* What the configuration of the model has to be.
Parameters ==
    /\ Admins \subseteq Members
    /\ None \notin Members \cup Tokens \cup Challenges
    /\ IsFiniteSet(Tokens) /\ MaxLogins \in Nat

Kinds == {"idle", "exchange", "refresh", "logout", "suspend", "enable", "revoke", "purge"}
AdminKinds == {"suspend", "enable", "revoke"}
LockRows == {"gate", "identity", "family", "challenge"}
                \X ({"gate"} \cup Members \cup Families \cup Challenges)
Transactions ==
    [kind : Kinds, member : Members \cup {None}, actor : Admins \cup {None},
     token : Tokens \cup {None}, challenge : Challenges \cup {None},
     expired : SUBSET Families, held : SUBSET LockRows, verdict : {None, "yes", "no"}]

Typed ==
    /\ enabled \in [Members -> BOOLEAN]
    /\ family \in [Families -> [owner : Members \cup {None},
                                state : {"none", "open", "revoked", "over", "purged"}]]
    /\ session \in [Tokens -> [family : Families \cup {NoLogin},
                               state : {"none", "live", "retired", "expired"}]]
    /\ open \subseteq Challenges
    /\ minted \in [Families -> Challenges \cup {None}]
    /\ tx \in [Handlers -> Transactions]
    /\ \A t \in Tokens : session[t].state # "none" =>
          session[t].family \in Families /\ family[session[t].family].state # "none"
    /\ \A f \in Families : family[f].state = "none" <=> family[f].owner = None

Login(x) == session[x.token].family
Owner(x) == family[Login(x)].owner

\* What a transaction is about, and that it takes its locks in order.
WellFormed(x) ==
    /\ x.kind = "idle" => x.held = {} /\ x.verdict = None
    /\ x.kind = "exchange" =>
          /\ x.member \in Members /\ x.challenge \in Challenges
          /\ x.held \subseteq {ChallengeRow(x.challenge), Identity(x.member)}
          /\ Identity(x.member) \in x.held => ChallengeRow(x.challenge) \in x.held
          /\ x.verdict # None => Identity(x.member) \in x.held
    /\ x.kind \in {"refresh", "logout"} => x.token \in Tokens /\ session[x.token].state # "none"
    /\ x.kind = "refresh" =>
          /\ x.held \subseteq {Identity(Owner(x)), FamilyRow(Login(x))}
          /\ FamilyRow(Login(x)) \in x.held => Identity(Owner(x)) \in x.held
          /\ x.verdict # None => FamilyRow(Login(x)) \in x.held
    /\ x.kind = "logout" =>
          /\ x.held \subseteq {FamilyRow(Login(x))}
          /\ x.verdict # None => FamilyRow(Login(x)) \in x.held
    /\ x.kind \in AdminKinds =>
          /\ x.actor \in Admins /\ x.member \in Members
          /\ x.held \subseteq {Gate, Identity(x.member)} \cup {Identity(a) : a \in Admins}
                                \cup {FamilyRow(f) : f \in Families}
          /\ x.held # {} => Gate \in x.held
          /\ Identity(x.member) \in x.held => Identity(x.actor) \in x.held
          /\ x.verdict # None => Identity(x.member) \in x.held
          /\ (\E f \in Families : FamilyRow(f) \in x.held)
                => x.verdict = "yes" /\ x.kind \in {"suspend", "revoke"}
    /\ x.kind # "purge" => x.expired = {}
    /\ x.kind = "purge" =>
          /\ x.held \subseteq {FamilyRow(f) : f \in x.expired}
          /\ \A f \in x.expired : family[f].state \in {"over", "purged"}
          /\ \A g, f \in x.expired :
                FamilyRow(g) \in x.held /\ FamilyRow(f) \notin x.held /\ family[f].state = "over" => g < f

\* What a transaction decided is still so.
Decided(x) ==
    /\ x.kind = "exchange" /\ x.verdict = "yes" =>
          /\ x.challenge \in open /\ enabled[x.member]
          /\ Cardinality(LiveOf(x.member)) < MaxLogins
    /\ x.kind = "refresh" /\ x.verdict = "yes" =>
          /\ enabled[Owner(x)]
          /\ \A u \in Tokens : Live(u) /\ session[u].family = Login(x) => u = x.token
          /\ Cardinality(LiveOf(Owner(x)) \ {x.token}) < MaxLogins
    /\ x.kind = "logout" /\ x.verdict = "no" => family[Login(x)].state = "purged"
    /\ x.kind = "suspend" /\ x.verdict = "yes" => enabled[x.actor] /\ x.actor # x.member

Handled == \A h \in Handlers : WellFormed(tx[h]) /\ Decided(tx[h])
Exclusive == \A h, o \in Handlers : h # o => tx[h].held \cap tx[o].held = {}
Consumed == \A f \in Families : minted[f] # None => minted[f] \notin open

IInv ==
    /\ Typed /\ Handled /\ Exclusive /\ Consumed
    /\ OneLiveTokenPerLogin /\ OneLoginPerChallenge /\ LoginsBounded /\ SuspendedHasNoSession

----------------------------------------------------------------------------
(* Locks.                                                                    *)

\* The rows of each kind of transaction.
LEMMA RowsByKind ==
    ASSUME NEW x
    PROVE  /\ x.kind = "exchange" => Rows(x) = {ChallengeRow(x.challenge), Identity(x.member)}
           /\ x.kind = "refresh" => Rows(x) = {Identity(Owner(x)), FamilyRow(Login(x))}
           /\ x.kind = "logout" => Rows(x) = {FamilyRow(Login(x))}
           /\ x.kind \in AdminKinds => Rows(x) = {Gate, Identity(x.actor), Identity(x.member)}
           /\ x.kind = "purge" => Rows(x) = {}
<1>0. {<<>>[i] : i \in DOMAIN <<>>} = {}
  OBVIOUS
<1>1. ASSUME NEW a
      PROVE  {<<a>>[i] : i \in DOMAIN <<a>>} = {a}
  OBVIOUS
<1>2. ASSUME NEW a, NEW b
      PROVE  {<<a, b>>[i] : i \in DOMAIN <<a, b>>} = {a, b}
  OBVIOUS
<1>3. ASSUME NEW a, NEW b, NEW c
      PROVE  {<<a, b, c>>[i] : i \in DOMAIN <<a, b, c>>} = {a, b, c}
  OBVIOUS
<1>4. x.kind = "exchange" => LocksOf(x) = <<ChallengeRow(x.challenge), Identity(x.member)>>
  BY DEF LocksOf, ExchangeLocks
<1>5. x.kind = "refresh" => LocksOf(x) = <<Identity(Owner(x)), FamilyRow(Login(x))>>
  BY DEF LocksOf, TokenLocks, Owner, Login
<1>6. x.kind = "logout" => LocksOf(x) = <<FamilyRow(Login(x))>>
  BY DEF LocksOf, Login
<1>7. x.kind \in AdminKinds => LocksOf(x) = AdminLocks(x.actor, x.member)
  BY DEF LocksOf, AdminKinds
<1>8. x.kind = "exchange" => Rows(x) = {ChallengeRow(x.challenge), Identity(x.member)}
  BY <1>2, <1>4 DEF Rows
<1>9. x.kind = "refresh" => Rows(x) = {Identity(Owner(x)), FamilyRow(Login(x))}
  BY <1>2, <1>5 DEF Rows
<1>10. x.kind = "logout" => Rows(x) = {FamilyRow(Login(x))}
  BY <1>1, <1>6 DEF Rows
<1>11. ASSUME x.kind \in AdminKinds
       PROVE  Rows(x) = {Gate, Identity(x.actor), Identity(x.member)}
  <2>1. CASE x.actor = x.member
    <3>1. LocksOf(x) = <<Gate, Identity(x.actor)>>
      BY <1>7, <1>11, <2>1 DEF AdminLocks
    <3>2. QED
      BY <1>2, <2>1, <3>1 DEF Rows
  <2>2. CASE x.actor # x.member
    <3>1. LocksOf(x) = <<Gate, Identity(x.actor), Identity(x.member)>>
      BY <1>7, <1>11, <2>2 DEF AdminLocks
    <3>2. QED
      BY <1>3, <3>1 DEF Rows
  <2>3. QED
    BY <2>1, <2>2
<1>12. x.kind = "purge" => Rows(x) = {}
  BY <1>0 DEF LocksOf, Rows
<1>13. QED
  BY <1>8, <1>9, <1>10, <1>11, <1>12

\* The locks a transaction may ask for next, given those it holds.
LEMMA NextLock ==
    ASSUME NEW h \in Handlers, NEW lock \in NextLocks(h), tx[h].kind \in Kinds \ {"idle", "purge"},
           WellFormed(tx[h])
    PROVE  LET x == tx[h]
           IN  /\ lock \in (Rows(x) \cup Peers(x) \cup Revokes(x)) \ x.held
               /\ lock \in Rows(x) \/ Rows(x) \subseteq x.held
               /\ x.kind = "exchange" /\ lock = Identity(x.member)
                      => ChallengeRow(x.challenge) \in x.held \/ lock = ChallengeRow(x.challenge)
               /\ x.kind = "refresh" /\ lock = FamilyRow(Login(x))
                      => Identity(Owner(x)) \in x.held \/ lock = Identity(Owner(x))
               /\ x.kind \in AdminKinds /\ lock \in Rows(x)
                      => /\ lock = Gate \/ Gate \in x.held
                         /\ lock \in {Gate, Identity(x.actor)} \/ Identity(x.actor) \in x.held
<1> DEFINE x == tx[h]
           First(q) == {q[i] : i \in {n \in DOMAIN q : \A k \in 1..(n - 1) : q[k] \in x.held}}
<1>0. Due(x) = {}
  BY DEF Due, WellFormed
<1>1. lock \in (Rows(x) \cup Peers(x) \cup Revokes(x)) \ x.held
  BY <1>0 DEF NextLocks, Missing
<1>2. Rows(x) \subseteq x.held \/ lock \in First(LocksOf(x))
  BY DEF NextLocks, Ordered
<1>3. Rows(x) \subseteq x.held => lock \notin Rows(x)
  BY <1>1
<1>4. lock \in First(LocksOf(x)) => lock \in Rows(x)
  BY DEF Rows
<1>5. ASSUME NEW a, NEW b, lock \in First(<<a, b>>)
      PROVE  lock = a \/ a \in x.held
  <2>1. PICK n \in DOMAIN <<a, b>> : lock = <<a, b>>[n] /\ \A k \in 1..(n - 1) : <<a, b>>[k] \in x.held
    BY <1>5
  <2>2. n \in 1..2
    BY <2>1
  <2>3. n = 1 \/ n = 2
    BY <2>2
  <2>4. CASE n = 1
    BY <2>1, <2>4
  <2>5. CASE n = 2
    <3>1. 1 \in 1..(n - 1)
      BY <2>5
    <3>2. <<a, b>>[1] \in x.held
      BY <2>1, <3>1
    <3>3. QED
      BY <3>2
  <2>6. QED
    BY <2>3, <2>4, <2>5
<1>6. ASSUME NEW a, NEW b, NEW c, lock \in First(<<a, b, c>>)
      PROVE  (lock = a \/ a \in x.held) /\ (lock \in {a, b} \/ b \in x.held)
  <2>1. PICK n \in DOMAIN <<a, b, c>> :
            lock = <<a, b, c>>[n] /\ \A k \in 1..(n - 1) : <<a, b, c>>[k] \in x.held
    BY <1>6
  <2>2. n \in 1..3
    BY <2>1
  <2>3. n = 1 \/ n = 2 \/ n = 3
    BY <2>2
  <2>4. CASE n = 1
    BY <2>1, <2>4
  <2>5. CASE n = 2 \/ n = 3
    <3>1. 1 \in 1..(n - 1) /\ (n = 3 => 2 \in 1..(n - 1))
      BY <2>5
    <3>2. <<a, b, c>>[1] \in x.held /\ (n = 3 => <<a, b, c>>[2] \in x.held)
      BY <2>1, <3>1
    <3>3. QED
      BY <2>1, <2>5, <3>2
  <2>6. QED
    BY <2>3, <2>4, <2>5
<1>7. x.kind = "exchange" => LocksOf(x) = <<ChallengeRow(x.challenge), Identity(x.member)>>
  BY DEF LocksOf, ExchangeLocks
<1>8. x.kind = "refresh" => LocksOf(x) = <<Identity(Owner(x)), FamilyRow(Login(x))>>
  BY DEF LocksOf, TokenLocks, Owner, Login
<1>9. x.kind \in AdminKinds =>
          LocksOf(x) = IF x.actor = x.member THEN <<Gate, Identity(x.actor)>>
                       ELSE <<Gate, Identity(x.actor), Identity(x.member)>>
  BY DEF LocksOf, AdminKinds, AdminLocks
<1> HIDE DEF First
<1>10. ASSUME x.kind \in AdminKinds, lock \in Rows(x)
       PROVE  /\ lock = Gate \/ Gate \in x.held
              /\ lock \in {Gate, Identity(x.actor)} \/ Identity(x.actor) \in x.held
  <2>1. lock \in First(LocksOf(x))
    BY <1>2, <1>3, <1>10
  <2>2. CASE x.actor = x.member
    <3>1. lock = Gate \/ Gate \in x.held
      BY <1>5, <1>9, <1>10, <2>1, <2>2
    <3>2. lock \in {Gate, Identity(x.actor), Identity(x.member)}
      BY <1>10, RowsByKind
    <3>3. QED
      BY <2>2, <3>1, <3>2
  <2>3. CASE x.actor # x.member
    BY <1>6, <1>9, <1>10, <2>1, <2>3
  <2>4. QED
    BY <2>2, <2>3
<1>11. x.kind = "exchange" /\ lock = Identity(x.member)
          => ChallengeRow(x.challenge) \in x.held \/ lock = ChallengeRow(x.challenge)
  <2>1. x.kind = "exchange" => Rows(x) = {ChallengeRow(x.challenge), Identity(x.member)}
    BY RowsByKind
  <2>2. QED
    BY <1>2, <1>5, <1>7, <2>1
<1>12. x.kind = "refresh" /\ lock = FamilyRow(Login(x))
          => Identity(Owner(x)) \in x.held \/ lock = Identity(Owner(x))
  <2>1. x.kind = "refresh" => Rows(x) = {Identity(Owner(x)), FamilyRow(Login(x))}
    BY RowsByKind
  <2>2. QED
    BY <1>2, <1>5, <1>8, <2>1
<1>13. QED
  BY <1>1, <1>2, <1>4, <1>10, <1>11, <1>12

\* The pass asks for the lowest of the rows that it still has to lock.
LEMMA NextPurgeLock ==
    ASSUME NEW h \in Handlers, NEW lock \in NextLocks(h), tx[h].kind = "purge"
    PROVE  \E f \in tx[h].expired :
              /\ lock = FamilyRow(f) /\ lock \notin tx[h].held /\ family[f].state = "over"
              /\ \A g \in tx[h].expired :
                    family[g].state = "over" /\ FamilyRow(g) \notin tx[h].held => f <= g
BY DEF NextLocks, LowestOf, Due

----------------------------------------------------------------------------
(* What a step by others leaves to a transaction that holds its rows.        *)

Frame(o) ==
    /\ tx'[o] = tx[o]
    /\ \A t \in Tokens : session[t].state # "none" =>
          session'[t].state # "none" /\ session'[t].family = session[t].family
    /\ \A f \in Families : family[f].owner # None => family'[f].owner = family[f].owner
    /\ \A f \in Families : family[f].state = "purged" => family'[f].state = "purged"
    /\ \A f \in Families : family[f].state = "over" => family'[f].state \in {"over", "purged"}
    /\ \A c \in Challenges : ChallengeRow(c) \in tx[o].held /\ c \in open => c \in open'
    /\ \A m \in Members : Identity(m) \in tx[o].held =>
          (enabled[m] => enabled'[m]) /\ LiveOf(m)' \subseteq LiveOf(m)
    /\ Gate \in tx[o].held => \A m \in Members : enabled[m] => enabled'[m]

LEMMA FewerLive ==
    ASSUME Parameters, NEW S, NEW T \in SUBSET Tokens, S \subseteq T
    PROVE  Cardinality(S) \in Nat /\ Cardinality(T) \in Nat /\ Cardinality(S) <= Cardinality(T)
<1>1. IsFiniteSet(T)
  BY FS_Subset DEF Parameters
<1>2. QED
  BY <1>1, FS_Subset, FS_CardinalityType

LEMMA FrameKeeps ==
    ASSUME Parameters, IInv, Typed', NEW o \in Handlers, Frame(o)
    PROVE  WellFormed(tx[o])' /\ Decided(tx[o])'
<1>0. PICK x : x = tx[o]
  OBVIOUS
<1> USE DEF IInv, Handled
<1>1. tx[o] = x /\ tx'[o] = x /\ x \in Transactions /\ WellFormed(x) /\ Decided(x)
  BY <1>0 DEF Frame, Typed
<1>2. ASSUME x.kind \in {"refresh", "logout"}
      PROVE  /\ Login(x)' = Login(x) /\ Login(x) \in Families
             /\ Owner(x) \in Members /\ Owner(x)' = Owner(x)
             /\ session'[x.token].state # "none"
  <2>1. x.token \in Tokens /\ session[x.token].state # "none"
    BY <1>1, <1>2 DEF WellFormed
  <2>2. Login(x) \in Families /\ family[Login(x)].state # "none"
    BY <2>1 DEF Typed, Login
  <2>3. family[Login(x)].owner \in Members
    BY <2>2 DEF Typed
  <2>4. Login(x)' = Login(x) /\ session'[x.token].state # "none"
    BY <2>1, <1>1 DEF Frame, Login
  <2>5. family'[Login(x)].owner = family[Login(x)].owner
    BY <2>2, <2>3 DEF Frame, Parameters
  <2>6. QED
    BY <1>1, <2>2, <2>3, <2>4, <2>5 DEF Owner, Login
<1>3. WellFormed(tx[o])'
  <2>1. CASE x.kind \in {"refresh", "logout"}
    <3>1. x.token \in Tokens /\ session'[x.token].state # "none"
      BY <1>1, <1>2, <2>1 DEF WellFormed
    <3>2. QED
      BY <1>1, <1>2, <2>1, <3>1 DEF WellFormed, AdminKinds
  <2>2. CASE x.kind \notin {"refresh", "logout", "purge"}
    BY <1>1, <2>2 DEF WellFormed
  <2>3. CASE x.kind = "purge"
    <3>1. /\ x.held \subseteq {FamilyRow(f) : f \in x.expired}
          /\ \A f \in x.expired : family[f].state \in {"over", "purged"}
          /\ \A g, f \in x.expired :
                FamilyRow(g) \in x.held /\ FamilyRow(f) \notin x.held /\ family[f].state = "over" => g < f
      BY <1>1, <2>3 DEF WellFormed
    <3>2. \A f \in x.expired : /\ family'[f].state \in {"over", "purged"}
                               /\ family'[f].state = "over" => family[f].state = "over"
      BY <1>1, <3>1 DEF Frame, Transactions
    <3>3. QED
      BY <1>1, <2>3, <3>1, <3>2 DEF WellFormed, AdminKinds
  <2>4. QED
    BY <2>1, <2>2, <2>3
<1>4. ASSUME x.kind = "exchange", x.verdict = "yes"
      PROVE  x.challenge \in open' /\ enabled'[x.member] /\ Cardinality(LiveOf(x.member)') < MaxLogins
  <2>1. /\ x.member \in Members /\ x.challenge \in Challenges
        /\ Identity(x.member) \in x.held /\ ChallengeRow(x.challenge) \in x.held
        /\ x.challenge \in open /\ enabled[x.member] /\ Cardinality(LiveOf(x.member)) < MaxLogins
    BY <1>1, <1>4 DEF WellFormed, Decided, None
  <2>2. LiveOf(x.member)' \subseteq LiveOf(x.member)
    BY <1>1, <2>1 DEF Frame
  <2>3. Cardinality(LiveOf(x.member)') < MaxLogins
    <3>1. LiveOf(x.member) \in SUBSET Tokens
      BY DEF LiveOf
    <3>2. QED
      BY <2>1, <2>2, <3>1, FewerLive DEF Parameters
  <2>4. QED
    BY <1>1, <2>1, <2>3 DEF Frame
<1>5. ASSUME x.kind = "refresh", x.verdict = "yes"
      PROVE  /\ enabled'[Owner(x)]
             /\ \A u \in Tokens : Live(u)' /\ session'[u].family = Login(x) => u = x.token
             /\ Cardinality(LiveOf(Owner(x))' \ {x.token}) < MaxLogins
  <2>1. /\ Identity(Owner(x)) \in x.held /\ enabled[Owner(x)]
        /\ \A u \in Tokens : Live(u) /\ session[u].family = Login(x) => u = x.token
        /\ Cardinality(LiveOf(Owner(x)) \ {x.token}) < MaxLogins
    BY <1>1, <1>5 DEF WellFormed, Decided, None
  <2>2. Owner(x) \in Members /\ Owner(x)' = Owner(x) /\ Login(x)' = Login(x)
    BY <1>2, <1>5
  <2>3. enabled'[Owner(x)] /\ LiveOf(Owner(x))' \subseteq LiveOf(Owner(x))
    BY <1>1, <2>1, <2>2 DEF Frame, LiveOf
  <2>4. ASSUME NEW u \in Tokens, Live(u)', session'[u].family = Login(x)
        PROVE  u = x.token
    <3>1. family'[session'[u].family].owner = Owner(x)
      BY <2>2, <2>4 DEF Owner
    <3>2. u \in LiveOf(Owner(x))
      BY <2>2, <2>3, <2>4, <3>1 DEF LiveOf
    <3>3. Live(u) /\ session[u].state # "none"
      BY <3>2 DEF LiveOf, Live
    <3>4. session[u].family = Login(x)
      BY <2>4, <3>3 DEF Frame
    <3>5. QED
      BY <2>1, <3>3, <3>4
  <2>5. Cardinality(LiveOf(Owner(x))' \ {x.token}) < MaxLogins
    <3>1. LiveOf(Owner(x)) \ {x.token} \in SUBSET Tokens
      BY DEF LiveOf
    <3>2. LiveOf(Owner(x))' \ {x.token} \subseteq LiveOf(Owner(x)) \ {x.token}
      BY <1>1, <2>3
    <3>3. QED
      BY <2>1, <3>1, <3>2, FewerLive DEF Parameters
  <2>6. QED
    BY <2>3, <2>4, <2>5
<1>6. ASSUME x.kind = "logout", x.verdict = "no"
      PROVE  family'[Login(x)].state = "purged"
  BY <1>1, <1>2, <1>6 DEF Decided, Frame
<1>7. ASSUME x.kind = "suspend", x.verdict = "yes"
      PROVE  enabled'[x.actor] /\ x.actor # x.member
  <2>1. Gate \in x.held /\ x.actor \in Members
    BY <1>1, <1>7 DEF WellFormed, AdminKinds, Parameters, None
  <2>2. QED
    BY <1>1, <1>7, <2>1 DEF Decided, Frame
<1>8. Decided(tx[o])'
  BY <1>1, <1>2, <1>4, <1>5, <1>6, <1>7 DEF Decided
<1>9. QED
  BY <1>3, <1>8

\* A transaction that ends, and others that it leaves alone.
LEMMA EndsAlone ==
    ASSUME Parameters, IInv, Typed', NEW h \in Handlers, tx' = [tx EXCEPT ![h] = Idle],
           \A o \in Handlers \ {h} : Frame(o)
    PROVE  Handled' /\ Exclusive'
<1>1. tx'[h] = Idle /\ \A o \in Handlers \ {h} : tx'[o] = tx[o]
  BY DEF IInv, Typed
<1>2. WellFormed(tx[h])' /\ Decided(tx[h])'
  BY <1>1 DEF WellFormed, Decided, Idle, None, AdminKinds
<1>3. \A o \in Handlers \ {h} : WellFormed(tx[o])' /\ Decided(tx[o])'
  BY FrameKeeps
<1>4. Exclusive'
  BY <1>1 DEF IInv, Exclusive, Idle
<1>5. QED
  BY <1>2, <1>3, <1>4 DEF Handled

\* A step that makes nothing live.
Shrinks ==
    /\ \A t \in Tokens : session'[t].family = session[t].family /\ (Live(t)' => Live(t))
    /\ \A f \in Families : family'[f].owner = family[f].owner

LEMMA ShrinkKeeps ==
    ASSUME Parameters, IInv, Shrinks
    PROVE  /\ \A m \in Members : LiveOf(m)' \subseteq LiveOf(m)
           /\ OneLiveTokenPerLogin' /\ LoginsBounded'
<1>1. ASSUME NEW t \in Tokens, Live(t)
      PROVE  session[t].family \in Families
  BY <1>1 DEF IInv, Typed, Live
<1>2. ASSUME NEW m \in Members
      PROVE  LiveOf(m)' \subseteq LiveOf(m)
  BY <1>1 DEF Shrinks, LiveOf
<1>3. OneLiveTokenPerLogin'
  BY DEF IInv, Shrinks, OneLiveTokenPerLogin
<1>4. ASSUME NEW m \in Members
      PROVE  Cardinality(LiveOf(m)') <= MaxLogins
  <2>1. LiveOf(m) \in SUBSET Tokens /\ Cardinality(LiveOf(m)) <= MaxLogins
    BY DEF LiveOf, IInv, LoginsBounded
  <2>2. QED
    BY <1>2, <2>1, FewerLive DEF Parameters
<1>5. QED
  BY <1>2, <1>3, <1>4 DEF LoginsBounded

----------------------------------------------------------------------------
(* The steps of a transaction before it commits.                             *)

LEMMA InitInv == ASSUME Parameters PROVE Init => IInv
<1> SUFFICES ASSUME Init PROVE IInv
  OBVIOUS
<1>1. Idle \in Transactions
  BY DEF Idle, Transactions, Kinds
<1>2. Typed
  BY <1>1 DEF Init, Typed
<1>3. Handled
  BY DEF Init, Handled, WellFormed, Decided, Idle, None, AdminKinds
<1>4. \A t \in Tokens : ~Live(t)
  BY DEF Init, Live
<1>5. Exclusive /\ Consumed /\ OneLiveTokenPerLogin
  BY <1>4 DEF Init, Exclusive, Idle, Consumed, OneLiveTokenPerLogin
<1>6. \A m \in Members : LiveOf(m) = {}
  BY <1>4 DEF LiveOf
<1>7. LoginsBounded /\ SuspendedHasNoSession
  BY <1>6, FS_EmptySet DEF LoginsBounded, SuspendedHasNoSession, Parameters
<1>8. OneLoginPerChallenge
  BY DEF Init, OneLoginPerChallenge
<1>9. QED
  BY <1>2, <1>3, <1>5, <1>7, <1>8 DEF IInv

\* Of the steps that only change a transaction, what is left to show.
LEMMA OwnStep ==
    ASSUME Parameters, IInv, NEW h \in Handlers, NEW y \in Transactions,
           tx' = [tx EXCEPT ![h] = y], UNCHANGED <<enabled, family, session, open, minted>>,
           WellFormed(y) /\ Decided(y),
           \A o \in Handlers \ {h} : y.held \cap tx[o].held = {}
    PROVE  IInv'
<1> USE DEF IInv
<1>1. tx'[h] = y /\ \A o \in Handlers \ {h} : tx'[o] = tx[o]
  BY DEF Typed
<1>2. Typed'
  BY DEF Typed
<1>3. \A m \in Members : LiveOf(m)' = LiveOf(m)
  BY DEF LiveOf, Live
<1>4. \A o \in Handlers \ {h} : Frame(o)
  BY <1>1, <1>3 DEF Frame
<1>5. \A o \in Handlers \ {h} : WellFormed(tx[o])' /\ Decided(tx[o])'
  BY <1>2, <1>4, FrameKeeps
<1>6. WellFormed(y)' /\ Decided(y)'
  BY DEF WellFormed, Decided, LiveOf, Live, Login, Owner
<1>7. Handled'
  BY <1>1, <1>5, <1>6 DEF Handled
<1>8. Exclusive'
  BY <1>1 DEF Exclusive
<1>9. OneLiveTokenPerLogin' /\ OneLoginPerChallenge' /\ Consumed'
  BY DEF OneLiveTokenPerLogin, Live, OneLoginPerChallenge, Consumed
<1>10. LoginsBounded' /\ SuspendedHasNoSession'
  BY <1>3 DEF LoginsBounded, SuspendedHasNoSession
<1>11. QED
  BY <1>2, <1>7, <1>8, <1>9, <1>10

LEMMA RequestStep ==
    ASSUME Parameters, IInv, NEW h \in Handlers, Request(h), ~BeginPurge(h)
    PROVE  IInv'
<1>1. PICK kind, m, a, t, c :
        /\ Begin(h, kind, m, a, t, c)
        /\ \/ /\ kind = "exchange" /\ m \in Members /\ a = None /\ t = None /\ c \in Challenges
           \/ /\ kind \in {"refresh", "logout"} /\ m = None /\ a = None /\ t \in Tokens /\ c = None
              /\ session[t].state # "none"
           \/ /\ kind \in {"suspend", "enable", "revoke"} /\ m \in Members /\ a \in Admins
              /\ t = None /\ c = None
  BY DEF Request
<1>2. PICK y :
        y = [Idle EXCEPT !.kind = kind, !.member = m, !.actor = a, !.token = t, !.challenge = c]
  OBVIOUS
<1>3. /\ y.kind = kind /\ y.member = m /\ y.actor = a /\ y.token = t /\ y.challenge = c
      /\ y.held = {} /\ y.verdict = None /\ y.expired = {}
  BY <1>2 DEF Idle
<1>4. Idle \in Transactions /\ kind \in Kinds
  BY <1>1 DEF Idle, Transactions, Kinds
<1>5. y \in Transactions
  BY <1>1, <1>2, <1>4 DEF Transactions
<1>6. WellFormed(y) /\ Decided(y)
  BY <1>1, <1>3 DEF WellFormed, Decided, AdminKinds, None
<1>7. tx' = [tx EXCEPT ![h] = y] /\ UNCHANGED <<enabled, family, session, open, minted>>
  BY <1>1, <1>2 DEF Begin
<1>8. QED
  BY <1>3, <1>5, <1>6, <1>7, OwnStep

\* What the maintenance pass found is over.
LEMMA BeginPurgeStep ==
    ASSUME Parameters, IInv, NEW h \in Handlers, BeginPurge(h)
    PROVE  IInv'
<1>1. PICK y : y = [Idle EXCEPT !.kind = "purge", !.expired = {f \in Families : family[f].state = "over"}]
  OBVIOUS
<1>2. /\ y.kind = "purge" /\ y.expired = {f \in Families : family[f].state = "over"}
      /\ y.held = {} /\ y.verdict = None
  BY <1>1 DEF Idle
<1>3. Idle \in Transactions
  BY DEF Idle, Transactions, Kinds
<1>4. y \in Transactions
  BY <1>1, <1>3 DEF Transactions, Kinds
<1>5. WellFormed(y) /\ Decided(y)
  BY <1>2 DEF WellFormed, Decided, AdminKinds
<1>6. tx' = [tx EXCEPT ![h] = y] /\ UNCHANGED <<enabled, family, session, open, minted>>
  BY <1>1 DEF BeginPurge
<1>7. QED
  BY <1>2, <1>4, <1>5, <1>6, OwnStep

\* The login of a token that was minted, and its owner.
LEMMA LoginFacts ==
    ASSUME IInv, NEW h \in Handlers, tx[h].kind \in {"refresh", "logout"}
    PROVE  /\ tx[h].token \in Tokens /\ session[tx[h].token].state # "none"
           /\ Login(tx[h]) \in Families /\ Owner(tx[h]) \in Members
           /\ family[Login(tx[h])].state # "none"
<1>1. tx[h].token \in Tokens /\ session[tx[h].token].state # "none"
  BY DEF IInv, Handled, WellFormed
<1>2. Login(tx[h]) \in Families /\ family[Login(tx[h])].state # "none"
  BY <1>1 DEF IInv, Typed, Login
<1>3. QED
  BY <1>1, <1>2 DEF IInv, Typed, Owner

LEMMA LockStep ==
    ASSUME Parameters, IInv, NEW h \in Handlers, Lock(h)
    PROVE  IInv'
<1>1. PICK lock \in NextLocks(h) :
        ~HeldByOther(h, lock) /\ tx' = [tx EXCEPT ![h].held = @ \cup {lock}]
  BY DEF Lock
<1>2. PICK x \in Transactions : x = tx[h] /\ x.kind # "idle" /\ WellFormed(x) /\ Decided(x)
  BY DEF Lock, IInv, Typed, Handled
<1>3. PICK y : y = [x EXCEPT !.held = x.held \cup {lock}]
  OBVIOUS
<1>4. /\ y.kind = x.kind /\ y.member = x.member /\ y.actor = x.actor /\ y.token = x.token
      /\ y.challenge = x.challenge /\ y.verdict = x.verdict /\ y.held = x.held \cup {lock}
      /\ y.expired = x.expired
  BY <1>2, <1>3 DEF Transactions
<1>5. tx[h].kind \in Kinds \ {"idle"} /\ x.kind \in Kinds
  BY <1>2 DEF Transactions
<1>6. x.kind # "purge" =>
          /\ lock \in (Rows(x) \cup Peers(x) \cup Revokes(x)) \ x.held
          /\ lock \in Rows(x) \/ Rows(x) \subseteq x.held
  BY <1>2, <1>5, NextLock
<1>7. x.kind # "purge" =>
          \/ lock \in Rows(x)
          \/ /\ x.kind = "suspend" /\ x.verdict = None
             /\ \E a \in Admins : lock = Identity(a)
          \/ /\ x.kind \in {"suspend", "revoke"} /\ x.verdict = "yes"
             /\ \E f \in Families : lock = FamilyRow(f)
  BY <1>6 DEF Peers, Revokes, FamiliesOf, EnabledAdmins
<1>8. lock \in LockRows /\ WellFormed(y)
  <2>1. CASE x.kind = "exchange"
    <3>1. lock \in {ChallengeRow(x.challenge), Identity(x.member)}
      BY <1>7, <2>1, RowsByKind
    <3>2. lock = Identity(x.member) => ChallengeRow(x.challenge) \in x.held \cup {lock}
      BY <1>2, <1>5, <2>1, NextLock
    <3>3. QED
      BY <1>2, <1>4, <2>1, <3>1, <3>2
      DEF WellFormed, AdminKinds, LockRows, ChallengeRow, Identity
  <2>2. CASE x.kind = "refresh"
    <3>1. lock \in {Identity(Owner(x)), FamilyRow(Login(x))}
      BY <1>7, <2>2, RowsByKind
    <3>2. lock = FamilyRow(Login(x)) => Identity(Owner(x)) \in x.held \cup {lock}
      BY <1>2, <1>5, <2>2, NextLock
    <3>3. Login(x) \in Families /\ Owner(x) \in Members
      BY <1>2, <2>2, LoginFacts
    <3>4. Login(y) = Login(x) /\ Owner(y) = Owner(x)
      BY <1>4 DEF Login, Owner
    <3>5. lock \in LockRows
      BY <3>1, <3>3 DEF LockRows, FamilyRow, Identity
    <3>6. QED
      BY <1>2, <1>4, <2>2, <3>1, <3>2, <3>4, <3>5 DEF WellFormed, AdminKinds
  <2>3. CASE x.kind = "logout"
    <3>1. lock = FamilyRow(Login(x))
      BY <1>7, <2>3, RowsByKind
    <3>2. Login(x) \in Families
      BY <1>2, <2>3, LoginFacts
    <3>3. Login(y) = Login(x)
      BY <1>4 DEF Login
    <3>4. lock \in LockRows
      BY <3>1, <3>2 DEF LockRows, FamilyRow
    <3>5. QED
      BY <1>2, <1>4, <2>3, <3>1, <3>3, <3>4 DEF WellFormed, AdminKinds
  <2>4. CASE x.kind \in AdminKinds
    <3>1. Rows(x) = {Gate, Identity(x.actor), Identity(x.member)}
      BY <2>4, RowsByKind
    <3>2. lock \in Rows(x) => /\ lock = Gate \/ Gate \in x.held
                              /\ lock \in {Gate, Identity(x.actor)} \/ Identity(x.actor) \in x.held
      BY <1>2, <1>5, <2>4, NextLock DEF AdminKinds
    <3>3. x.actor \in Admins /\ x.member \in Members /\ x.actor \in Members
      BY <1>2, <2>4 DEF WellFormed, Parameters
    <3>4. lock \in LockRows
      <4>1. Admins \subseteq Members /\ x.kind # "purge"
        BY <2>4 DEF Parameters, AdminKinds
      <4>2. QED
        BY <1>7, <3>1, <3>3, <4>1 DEF LockRows, Gate, Identity, FamilyRow
    <3>5. lock \in Rows(x) => \A f \in Families : lock # FamilyRow(f)
      BY <3>1 DEF Gate, Identity, FamilyRow
    <3>6. CASE lock \in Rows(x)
      <4>1. lock \in {Gate, Identity(x.actor), Identity(x.member)}
        BY <3>1, <3>6
      <4>2. \A f \in Families : FamilyRow(f) \in y.held => FamilyRow(f) \in x.held
        BY <1>4, <3>5, <3>6
      <4>3. y.held # {} => Gate \in y.held
        BY <1>4, <3>2, <3>6
      <4>4. Identity(x.member) \in y.held => Identity(x.actor) \in y.held
        <5>1. lock = Identity(x.member) => Identity(x.actor) \in x.held \cup {lock}
          BY <3>2, <3>6 DEF Gate, Identity
        <5>2. QED
          BY <1>2, <1>4, <2>4, <5>1 DEF WellFormed
      <4>5. QED
        BY <1>2, <1>4, <2>4, <3>3, <3>4, <4>1, <4>2, <4>3, <4>4 DEF WellFormed, AdminKinds
    <3>7. CASE lock \notin Rows(x) /\ x.verdict = "yes"
      <4>1. PICK f \in Families : lock = FamilyRow(f)
        BY <1>7, <2>4, <3>7 DEF AdminKinds, None
      <4>2. x.kind \in {"suspend", "revoke"} /\ Rows(x) \subseteq x.held
        BY <1>6, <1>7, <2>4, <3>7 DEF AdminKinds, None
      <4>3. QED
        BY <1>2, <1>4, <2>4, <3>1, <3>4, <3>7, <4>1, <4>2 DEF WellFormed, AdminKinds
    <3>8. CASE lock \notin Rows(x) /\ x.verdict # "yes"
      <4>1. PICK a \in Admins : lock = Identity(a)
        BY <1>7, <2>4, <3>8 DEF AdminKinds
      <4>2. Rows(x) \subseteq x.held
        BY <1>6, <2>4, <3>8 DEF AdminKinds
      <4>3. \A f \in Families : FamilyRow(f) \in y.held => FamilyRow(f) \in x.held
        BY <1>4, <4>1 DEF Identity, FamilyRow
      <4>4. QED
        BY <1>2, <1>4, <2>4, <3>1, <3>4, <4>1, <4>2, <4>3 DEF WellFormed, AdminKinds
    <3>9. QED
      BY <3>6, <3>7, <3>8
  <2>5. CASE x.kind = "purge"
    <3>1. PICK f \in x.expired :
            /\ lock = FamilyRow(f) /\ lock \notin x.held /\ family[f].state = "over"
            /\ \A g \in x.expired : family[g].state = "over" /\ FamilyRow(g) \notin x.held => f <= g
      BY <1>2, <2>5, NextPurgeLock
    <3>2. x.expired \in SUBSET Families /\ f \in Families
      BY <1>2 DEF Transactions
    <3>3. lock \in LockRows
      BY <3>1, <3>2 DEF LockRows, FamilyRow
    <3>4. \A g \in x.expired : FamilyRow(g) = lock => g = f
      BY <3>1 DEF FamilyRow
    <3>5. \A g, e \in x.expired :
            FamilyRow(g) \in y.held /\ FamilyRow(e) \notin y.held /\ family[e].state = "over" => g < e
      <4> SUFFICES ASSUME NEW g \in x.expired, NEW e \in x.expired,
                          FamilyRow(g) \in y.held, FamilyRow(e) \notin y.held, family[e].state = "over"
                   PROVE  g < e
        OBVIOUS
      <4>1. FamilyRow(e) \notin x.held /\ e # f
        BY <1>4, <3>1
      <4>2. CASE FamilyRow(g) \in x.held
        BY <1>2, <2>5, <4>1, <4>2 DEF WellFormed
      <4>3. CASE FamilyRow(g) \notin x.held
        <5>1. g = f /\ f <= e
          BY <1>4, <3>1, <3>4, <4>1, <4>3
        <5>2. e \in Nat /\ f \in Nat
          BY <3>2, FamiliesAssumption
        <5>3. QED
          BY <4>1, <5>1, <5>2
      <4>4. QED
        BY <4>2, <4>3
    <3>6. y.held \subseteq {FamilyRow(g) : g \in y.expired}
      BY <1>2, <1>4, <2>5, <3>1 DEF WellFormed
    <3>7. QED
      BY <1>2, <1>4, <2>5, <3>3, <3>5, <3>6 DEF WellFormed, AdminKinds
  <2>6. QED
    BY <1>5, <2>1, <2>2, <2>3, <2>4, <2>5, <1>2 DEF Kinds, AdminKinds
<1>9. y \in Transactions
  BY <1>2, <1>3, <1>8 DEF Transactions
<1>10. Decided(y)
  BY <1>2, <1>4 DEF Decided, Login, Owner
<1>11. \A o \in Handlers \ {h} : y.held \cap tx[o].held = {}
  BY <1>1, <1>2, <1>4 DEF HeldByOther, IInv, Exclusive
<1>12. tx' = [tx EXCEPT ![h] = y] /\ UNCHANGED <<enabled, family, session, open, minted>>
  BY <1>1, <1>2, <1>3 DEF Lock
<1>13. QED
  BY <1>8, <1>9, <1>10, <1>11, <1>12, OwnStep

LEMMA ReadStep ==
    ASSUME Parameters, IInv, NEW h \in Handlers, Read(h)
    PROVE  IInv'
<1>1. PICK x \in Transactions :
        /\ x = tx[h] /\ x.kind # "idle" /\ x.verdict = None /\ WellFormed(x)
        /\ Rows(x) \subseteq x.held
  BY DEF Read, IInv, Typed, Handled, Missing
<1>2. PICK y : y = [x EXCEPT !.verdict = IF Permitted(x) THEN "yes" ELSE "no"]
  OBVIOUS
<1>3. /\ y.kind = x.kind /\ y.member = x.member /\ y.actor = x.actor /\ y.token = x.token
      /\ y.challenge = x.challenge /\ y.held = x.held /\ y.expired = x.expired
      /\ y.verdict = IF Permitted(x) THEN "yes" ELSE "no"
      /\ x.kind \in Kinds /\ y \in Transactions
  BY <1>1, <1>2 DEF Transactions
<1>4. Login(y) = Login(x) /\ Owner(y) = Owner(x)
  BY <1>3 DEF Login, Owner
<1>5. WellFormed(y)
  <2>1. x.kind = "exchange" => Identity(x.member) \in x.held
    BY <1>1, RowsByKind
  <2>2. x.kind \in {"refresh", "logout"} => FamilyRow(Login(x)) \in x.held
    BY <1>1, RowsByKind
  <2>3. x.kind \in AdminKinds => Identity(x.member) \in x.held
    BY <1>1, RowsByKind
  <2>4. x.kind \in AdminKinds => \A f \in Families : FamilyRow(f) \notin x.held
    BY <1>1 DEF WellFormed, None
  <2>5. QED
    BY <1>1, <1>3, <1>4, <2>1, <2>2, <2>3, <2>4 DEF WellFormed
<1>6. Decided(y)
  <2>1. CASE x.kind = "exchange"
    <3>1. Permitted(x) => /\ x.challenge \in open /\ enabled[x.member]
                          /\ Cardinality(LiveOf(x.member)) < MaxLogins
      BY <2>1 DEF Permitted, MayLogIn
    <3>2. QED
      BY <1>3, <2>1, <3>1 DEF Decided
  <2>2. CASE x.kind = "refresh" /\ Permitted(x)
    <3>1. Live(x.token) /\ enabled[Owner(x)]
      BY <2>2 DEF Permitted, MayRefresh, Owner, Login
    <3>2. x.token \in Tokens /\ Login(x) \in Families /\ Owner(x) \in Members
      BY <1>1, <2>2, LoginFacts
    <3>3. \A u \in Tokens : Live(u) /\ session[u].family = Login(x) => u = x.token
      BY <3>1, <3>2 DEF IInv, OneLiveTokenPerLogin, Login
    <3>4. Cardinality(LiveOf(Owner(x)) \ {x.token}) < MaxLogins
      <4>1. x.token \in LiveOf(Owner(x)) /\ LiveOf(Owner(x)) \in SUBSET Tokens
        BY <3>1, <3>2 DEF LiveOf, Owner, Login
      <4>2. IsFiniteSet(LiveOf(Owner(x)))
        BY <4>1, FS_Subset DEF Parameters
      <4>3. Cardinality(LiveOf(Owner(x)) \ {x.token}) = Cardinality(LiveOf(Owner(x))) - 1
        BY <4>1, <4>2, FS_RemoveElement
      <4>4. Cardinality(LiveOf(Owner(x))) <= MaxLogins /\ Cardinality(LiveOf(Owner(x))) \in Nat
        BY <3>2, <4>2, FS_CardinalityType DEF IInv, LoginsBounded
      <4>5. QED
        BY <4>3, <4>4 DEF Parameters
    <3>5. QED
      BY <1>3, <1>4, <2>2, <3>1, <3>3, <3>4 DEF Decided
  <2>3. CASE x.kind = "logout"
    <3>1. ~Permitted(x) => family[Login(x)].state = "purged"
      BY <2>3 DEF Permitted, MayLogout, Login
    <3>2. QED
      BY <1>3, <1>4, <2>3, <3>1 DEF Decided
  <2>4. CASE x.kind = "suspend"
    <3>1. Permitted(x) => enabled[x.actor] /\ x.actor # x.member
      BY <2>4 DEF Permitted, MaySuspend, Actor
    <3>2. QED
      BY <1>3, <2>4, <3>1 DEF Decided
  <2>5. CASE x.kind \in {"enable", "revoke", "purge"} \/ (x.kind = "refresh" /\ ~Permitted(x))
    BY <1>3, <2>5 DEF Decided
  <2>6. QED
    BY <1>1, <1>3, <2>1, <2>2, <2>3, <2>4, <2>5 DEF Kinds
<1>7. \A o \in Handlers \ {h} : y.held \cap tx[o].held = {}
  BY <1>1, <1>3 DEF IInv, Exclusive
<1>8. tx' = [tx EXCEPT ![h] = y] /\ UNCHANGED <<enabled, family, session, open, minted>>
  BY <1>1, <1>2 DEF Read
<1>9. QED
  BY <1>3, <1>5, <1>6, <1>7, <1>8, OwnStep

LEMMA RollbackStep ==
    ASSUME Parameters, IInv, NEW h \in Handlers, Rollback(h)
    PROVE  IInv'
<1>1. Idle \in Transactions
  BY DEF Idle, Transactions, Kinds
<1>2. WellFormed(Idle) /\ Decided(Idle)
  BY DEF WellFormed, Decided, Idle, None, AdminKinds
<1>3. Idle.held = {}
  BY DEF Idle
<1>4. QED
  BY <1>1, <1>2, <1>3, OwnStep DEF Rollback, Done

----------------------------------------------------------------------------
(* The commits.                                                              *)

\* What a transaction about to commit holds.
LEMMA Holds ==
    ASSUME IInv, NEW h \in Handlers, NEW kind, NEW verdict, Ready(h, kind, verdict)
    PROVE  LET x == tx[h]
           IN  /\ x \in Transactions /\ x.kind = kind /\ x.verdict = verdict
               /\ WellFormed(x) /\ Decided(x)
               /\ Rows(x) \cup Revokes(x) \subseteq x.held
BY DEF Ready, Missing, IInv, Typed, Handled

LEMMA ExchangeStep ==
    ASSUME Parameters, IInv, NEW h \in Handlers, NEW f \in Families, NEW t \in Tokens,
           Exchange(h, f, t)
    PROVE  IInv'
<1>1. PICK x : x = tx[h]
  OBVIOUS
<1>2. PICK m \in Members, c \in Challenges :
        /\ m = x.member /\ c = x.challenge
        /\ Identity(m) \in tx[h].held /\ ChallengeRow(c) \in tx[h].held
        /\ c \in open /\ enabled[m] /\ Cardinality(LiveOf(m)) < MaxLogins
  <2>1. /\ x.kind = "exchange" /\ x.verdict = "yes" /\ WellFormed(x) /\ Decided(x)
        /\ Rows(x) \subseteq x.held
    BY <1>1, Holds DEF Exchange
  <2>2. Rows(x) = {ChallengeRow(x.challenge), Identity(x.member)}
    BY <2>1, RowsByKind
  <2>3. QED
    BY <1>1, <2>1, <2>2 DEF WellFormed, Decided
<1>3. /\ family[f].state = "none" /\ session[t].state = "none"
      /\ family' = [family EXCEPT ![f] = [owner |-> m, state |-> "open"]]
      /\ session' = [session EXCEPT ![t] = [family |-> f, state |-> "live"]]
      /\ open' = open \ {c} /\ minted' = [minted EXCEPT ![f] = c]
      /\ tx' = [tx EXCEPT ![h] = Idle] /\ enabled' = enabled
  BY <1>1, <1>2 DEF Exchange, FreshToken, Done
<1> USE DEF IInv
<1>4. /\ family'[f].owner = m /\ family'[f].state = "open"
      /\ \A g \in Families \ {f} : family'[g] = family[g]
      /\ session'[t].family = f /\ session'[t].state = "live"
      /\ \A u \in Tokens \ {t} : session'[u] = session[u]
      /\ minted'[f] = c /\ \A g \in Families \ {f} : minted'[g] = minted[g]
  BY <1>3 DEF Typed
<1>5. Typed'
  <2>1. [owner |-> m, state |-> "open"] \in
            [owner : Members \cup {None}, state : {"none", "open", "revoked", "over", "purged"}]
    OBVIOUS
  <2>2. [family |-> f, state |-> "live"] \in
            [family : Families \cup {NoLogin}, state : {"none", "live", "retired", "expired"}]
    OBVIOUS
  <2>3. Idle \in Transactions
    BY DEF Idle, Transactions, Kinds
  <2>4. /\ family' \in [Families -> [owner : Members \cup {None},
                                     state : {"none", "open", "revoked", "over", "purged"}]]
        /\ session' \in [Tokens -> [family : Families \cup {NoLogin},
                                    state : {"none", "live", "retired", "expired"}]]
        /\ tx' \in [Handlers -> Transactions]
    BY <1>3, <2>1, <2>2, <2>3 DEF Typed
  <2>5. \A u \in Tokens : session'[u].state # "none" =>
            session'[u].family \in Families /\ family'[session'[u].family].state # "none"
    BY <1>3, <1>4 DEF Typed
  <2>6. \A g \in Families : family'[g].state = "none" <=> family'[g].owner = None
    BY <1>4 DEF Typed, Parameters
  <2>7. QED
    BY <1>3, <2>4, <2>5, <2>6 DEF Typed
\* A live token other than the new one is of another login.
<1>6. ASSUME NEW u \in Tokens \ {t}, session[u].state # "none"
      PROVE  session[u].family \in Families \ {f}
  BY <1>3, <1>6 DEF Typed
<1>7. \A u \in Tokens \ {t} : Live(u)' => Live(u) /\ session'[u].family \in Families \ {f}
  BY <1>4, <1>6 DEF Live
<1>8. \A o \in Members : LiveOf(o)' \subseteq LiveOf(o) \cup {t} /\ (o # m => LiveOf(o)' \subseteq LiveOf(o))
  BY <1>4, <1>7 DEF LiveOf
<1>9. ASSUME NEW o \in Handlers \ {h}
      PROVE  Frame(o)
  <2>1. tx[o].held \cap tx[h].held = {}
    BY DEF Exclusive
  <2>2. Identity(m) \notin tx[o].held /\ ChallengeRow(c) \notin tx[o].held
    BY <1>2, <2>1
  <2>3. \A n \in Members : Identity(n) \in tx[o].held => n # m
    BY <2>2
  <2>4. \A d \in Challenges : ChallengeRow(d) \in tx[o].held => d # c
    BY <2>2
  <2>5. tx'[o] = tx[o]
    BY <1>3 DEF Typed
  <2>6. \A g \in Families : family[g].owner # None => family'[g].owner = family[g].owner
    BY <1>3, <1>4 DEF Typed
  <2>7. \A g \in Families : family[g].state = "purged" => family'[g].state = "purged"
    BY <1>3, <1>4
  <2>8. \A g \in Families : family[g].state = "over" => family'[g].state \in {"over", "purged"}
    BY <1>3, <1>4
  <2>9. \A u \in Tokens : session[u].state # "none" =>
            session'[u].state # "none" /\ session'[u].family = session[u].family
    BY <1>3, <1>4
  <2>10. QED
    BY <1>3, <1>8, <2>3, <2>4, <2>5, <2>6, <2>7, <2>8, <2>9 DEF Frame
<1>10. Handled' /\ Exclusive'
  BY <1>3, <1>5, <1>9, EndsAlone
<1>11. OneLiveTokenPerLogin'
  <2> SUFFICES ASSUME NEW u \in Tokens, NEW v \in Tokens, Live(u)', Live(v)',
                      session'[u].family = session'[v].family
               PROVE  u = v
    BY DEF OneLiveTokenPerLogin
  <2>1. CASE u # t /\ v # t
    BY <1>4, <1>7, <2>1 DEF OneLiveTokenPerLogin
  <2>2. CASE u = t \/ v = t
    BY <1>4, <1>7, <2>2
  <2>3. QED
    BY <2>1, <2>2
<1>12. LoginsBounded'
  <2> SUFFICES ASSUME NEW o \in Members PROVE Cardinality(LiveOf(o)') <= MaxLogins
    BY DEF LoginsBounded
  <2>1. LiveOf(o) \in SUBSET Tokens /\ IsFiniteSet(LiveOf(o))
    BY FS_Subset DEF LiveOf, Parameters
  <2>2. CASE o # m
    BY <1>8, <2>1, <2>2, FewerLive DEF LoginsBounded, Parameters
  <2>3. CASE o = m
    <3>1. LiveOf(m) \cup {t} \in SUBSET Tokens
      BY <2>1, <2>3
    <3>2. Cardinality(LiveOf(m) \cup {t}) <= MaxLogins
      <4>1. Cardinality(LiveOf(m)) \in Nat
        BY <2>1, <2>3, FS_CardinalityType
      <4>2. Cardinality(LiveOf(m) \cup {t}) \in {Cardinality(LiveOf(m)), Cardinality(LiveOf(m)) + 1}
        BY <2>1, <2>3, FS_AddElement
      <4>3. QED
        BY <1>2, <4>1, <4>2 DEF Parameters
    <3>3. LiveOf(m)' \subseteq LiveOf(m) \cup {t}
      BY <1>8
    <3>4. QED
      BY <2>3, <3>1, <3>2, <3>3, FewerLive DEF Parameters
  <2>4. QED
    BY <2>2, <2>3
<1>13. SuspendedHasNoSession'
  <2>1. ASSUME NEW o \in Members, ~enabled'[o]
        PROVE  LiveOf(o)' = {}
    BY <1>2, <1>3, <1>8, <2>1 DEF SuspendedHasNoSession
  <2>2. QED
    BY <2>1 DEF SuspendedHasNoSession
<1>14. Consumed' /\ OneLoginPerChallenge'
  BY <1>2, <1>3, <1>4 DEF Consumed, OneLoginPerChallenge
<1>15. QED
  BY <1>5, <1>10, <1>11, <1>12, <1>13, <1>14

LEMMA RefreshStep ==
    ASSUME Parameters, IInv, NEW h \in Handlers, NEW t \in Tokens, Refresh(h, t)
    PROVE  IInv'
<1>1. PICK x : x = tx[h]
  OBVIOUS
<1>2. /\ x.kind = "refresh" /\ x.verdict = "yes" /\ WellFormed(x) /\ Decided(x)
      /\ Rows(x) \subseteq x.held
  BY <1>1, Holds DEF Refresh
<1>3. PICK old \in Tokens, f \in Families, m \in Members :
        old = x.token /\ f = Login(x) /\ m = Owner(x)
  BY <1>1, <1>2, LoginFacts
<1>4. /\ session[old].state # "none" /\ session[old].family = f
      /\ family[f].owner = m /\ family[f].state # "none"
  BY <1>1, <1>2, <1>3, LoginFacts DEF Login, Owner
<1>5. /\ Identity(m) \in tx[h].held /\ enabled[m]
      /\ \A u \in Tokens : Live(u) /\ session[u].family = f => u = old
      /\ Cardinality(LiveOf(m) \ {old}) < MaxLogins
  BY <1>1, <1>2, <1>3, RowsByKind DEF Decided
<1>6. /\ session[t].state = "none" /\ t # old
      /\ session' = [session EXCEPT ![old].state = "retired",
                                    ![t] = [family |-> f, state |-> "live"]]
      /\ tx' = [tx EXCEPT ![h] = Idle] /\ UNCHANGED <<enabled, family, open, minted>>
  BY <1>1, <1>3, <1>4 DEF Refresh, FreshToken, Done, AfterRefresh
<1> USE DEF IInv
<1>7. /\ session'[old].family = f /\ session'[old].state = "retired"
      /\ session'[t].family = f /\ session'[t].state = "live"
      /\ \A u \in Tokens \ {t, old} : session'[u] = session[u]
  BY <1>4, <1>6 DEF Typed
<1>8. Typed'
  <2>1. [family |-> f, state |-> "live"] \in
            [family : Families \cup {NoLogin}, state : {"none", "live", "retired", "expired"}]
    OBVIOUS
  <2>2. [session[old] EXCEPT !.state = "retired"] \in
            [family : Families \cup {NoLogin}, state : {"none", "live", "retired", "expired"}]
    BY DEF Typed
  <2>3. Idle \in Transactions
    BY DEF Idle, Transactions, Kinds
  <2>4. /\ session' \in [Tokens -> [family : Families \cup {NoLogin},
                                    state : {"none", "live", "retired", "expired"}]]
        /\ tx' \in [Handlers -> Transactions]
    BY <1>6, <2>1, <2>2, <2>3 DEF Typed
  <2>5. \A u \in Tokens : session'[u].state # "none" =>
            session'[u].family \in Families /\ family[session'[u].family].state # "none"
    BY <1>4, <1>7 DEF Typed
  <2>6. QED
    BY <1>6, <2>4, <2>5 DEF Typed
\* The only token that becomes live is the successor.
<1>9. \A u \in Tokens \ {t} : Live(u)' => Live(u) /\ u # old /\ session'[u] = session[u]
  BY <1>6, <1>7 DEF Live
<1>10. \A n \in Members : /\ LiveOf(n)' \subseteq (LiveOf(n) \ {old}) \cup {t}
                          /\ n # m => LiveOf(n)' \subseteq LiveOf(n)
  BY <1>4, <1>6, <1>7, <1>9 DEF LiveOf
<1>11. ASSUME NEW o \in Handlers \ {h}
       PROVE  Frame(o)
  <2>1. tx[o].held \cap tx[h].held = {}
    BY DEF Exclusive
  <2>2. \A n \in Members : Identity(n) \in tx[o].held => n # m
    BY <1>5, <2>1
  <2>3. tx'[o] = tx[o]
    BY <1>6 DEF Typed
  <2>4. \A u \in Tokens : session[u].state # "none" =>
            session'[u].state # "none" /\ session'[u].family = session[u].family
    BY <1>4, <1>6, <1>7
  <2>5. QED
    BY <1>6, <1>10, <2>2, <2>3, <2>4 DEF Frame
<1>12. Handled' /\ Exclusive'
  BY <1>6, <1>8, <1>11, EndsAlone
<1>13. OneLiveTokenPerLogin'
  <2> SUFFICES ASSUME NEW u \in Tokens, NEW v \in Tokens, Live(u)', Live(v)',
                      session'[u].family = session'[v].family
               PROVE  u = v
    BY DEF OneLiveTokenPerLogin
  <2>1. CASE u # t /\ v # t
    BY <1>9, <2>1 DEF OneLiveTokenPerLogin
  <2>2. CASE u = t \/ v = t
    BY <1>5, <1>7, <1>9, <2>2
  <2>3. QED
    BY <2>1, <2>2
<1>14. LoginsBounded'
  <2> SUFFICES ASSUME NEW n \in Members PROVE Cardinality(LiveOf(n)') <= MaxLogins
    BY DEF LoginsBounded
  <2>1. LiveOf(n) \in SUBSET Tokens /\ IsFiniteSet(LiveOf(n)) /\ IsFiniteSet(LiveOf(n) \ {old})
    BY FS_Subset DEF LiveOf, Parameters
  <2>2. CASE n # m
    BY <1>10, <2>1, <2>2, FewerLive DEF LoginsBounded, Parameters
  <2>3. CASE n = m
    <3>1. (LiveOf(m) \ {old}) \cup {t} \in SUBSET Tokens
      BY <2>1, <2>3
    <3>2. Cardinality((LiveOf(m) \ {old}) \cup {t}) <= MaxLogins
      <4>1. Cardinality(LiveOf(m) \ {old}) \in Nat
        BY <2>1, <2>3, FS_CardinalityType
      <4>2. Cardinality((LiveOf(m) \ {old}) \cup {t})
              \in {Cardinality(LiveOf(m) \ {old}), Cardinality(LiveOf(m) \ {old}) + 1}
        BY <2>1, <2>3, FS_AddElement
      <4>3. QED
        BY <1>5, <4>1, <4>2 DEF Parameters
    <3>3. LiveOf(m)' \subseteq (LiveOf(m) \ {old}) \cup {t}
      BY <1>10
    <3>4. QED
      BY <2>3, <3>1, <3>2, <3>3, FewerLive DEF Parameters
  <2>4. QED
    BY <2>2, <2>3
<1>15. SuspendedHasNoSession'
  <2>1. ASSUME NEW n \in Members, ~enabled'[n]
        PROVE  LiveOf(n)' = {}
    BY <1>5, <1>6, <1>10, <2>1 DEF SuspendedHasNoSession
  <2>2. QED
    BY <2>1 DEF SuspendedHasNoSession
<1>16. Consumed' /\ OneLoginPerChallenge'
  BY <1>6 DEF Consumed, OneLoginPerChallenge
<1>17. QED
  BY <1>8, <1>12, <1>13, <1>14, <1>15, <1>16

\* A refused login uses its challenge up, which no other transaction holds.
LEMMA RefusalStep ==
    ASSUME Parameters, IInv, NEW h \in Handlers, ExchangeRefused(h)
    PROVE  IInv'
<1>1. PICK x : x = tx[h]
  OBVIOUS
<1>2. ChallengeRow(x.challenge) \in tx[h].held
  BY <1>1, Holds, RowsByKind DEF ExchangeRefused
<1>3. /\ open' = open \ {x.challenge} /\ tx' = [tx EXCEPT ![h] = Idle]
      /\ UNCHANGED <<enabled, family, session, minted>>
  BY <1>1 DEF ExchangeRefused, Done
<1> USE DEF IInv
<1>4. Idle \in Transactions
  BY DEF Idle, Transactions, Kinds
<1>5. Typed'
  BY <1>3, <1>4 DEF Typed
<1>6. \A m \in Members : LiveOf(m)' = LiveOf(m)
  BY <1>3 DEF LiveOf, Live
<1>7. ASSUME NEW o \in Handlers \ {h}
      PROVE  Frame(o)
  <2>1. ChallengeRow(x.challenge) \notin tx[o].held
    BY <1>2 DEF Exclusive
  <2>2. \A c \in Challenges : ChallengeRow(c) \in tx[o].held => c # x.challenge
    BY <2>1
  <2>3. QED
    BY <1>3, <1>6, <2>2 DEF Frame, Typed
<1>8. Handled' /\ Exclusive'
  BY <1>3, <1>5, <1>7, EndsAlone
<1>9. OneLiveTokenPerLogin' /\ Consumed' /\ OneLoginPerChallenge'
  BY <1>3 DEF OneLiveTokenPerLogin, Live, Consumed, OneLoginPerChallenge
<1>10. LoginsBounded' /\ SuspendedHasNoSession'
  BY <1>3, <1>6 DEF LoginsBounded, SuspendedHasNoSession
<1>11. QED
  BY <1>5, <1>8, <1>9, <1>10

----------------------------------------------------------------------------
(* Steps that end logins, allow or forbid an account, or let time pass.      *)

LoginRecords ==
    [owner : Members \cup {None}, state : {"none", "open", "revoked", "over", "purged"}]

\* A login that was ended stays ended and keeps its owner; an account that is no
\* longer allowed has no live session left, and nobody else relies on it.
LEMMA ClosingStep ==
    ASSUME Parameters, IInv,
           family' \in [Families -> LoginRecords],
           \A f \in Families : /\ family'[f].owner = family[f].owner
                               /\ family'[f].state = "open" => family[f].state = "open"
                               /\ family'[f].state = "none" <=> family[f].state = "none"
                               /\ family[f].state = "purged" => family'[f].state = "purged"
                               /\ family[f].state = "over" => family'[f].state \in {"over", "purged"},
           enabled' \in [Members -> BOOLEAN],
           \A m \in Members : enabled'[m] \/ ~enabled[m] \/ LiveOf(m)' = {},
           tx' \in [Handlers -> Transactions],
           \A o \in Handlers :
              \/ tx'[o] = Idle
              \/ /\ tx'[o] = tx[o]
                 /\ \A m \in Members : enabled[m] /\ ~enabled'[m] =>
                        Identity(m) \notin tx[o].held /\ Gate \notin tx[o].held,
           UNCHANGED <<session, open, minted>>
    PROVE  IInv'
<1> USE DEF IInv
<1>1. Typed'
  <2>1. \A t \in Tokens : session[t].state # "none" =>
            session[t].family \in Families /\ family'[session[t].family].state # "none"
    BY DEF Typed
  <2>2. \A f \in Families : family'[f].state = "none" <=> family'[f].owner = None
    BY DEF Typed
  <2>3. QED
    BY <2>1, <2>2 DEF Typed, LoginRecords
<1>2. Shrinks
  BY DEF Shrinks, Live, Typed
<1>3. (\A m \in Members : LiveOf(m)' \subseteq LiveOf(m)) /\ OneLiveTokenPerLogin' /\ LoginsBounded'
  BY <1>2, ShrinkKeeps
<1>4. Handled'
  <2> SUFFICES ASSUME NEW o \in Handlers PROVE WellFormed(tx[o])' /\ Decided(tx[o])'
    BY DEF Handled
  <2>1. CASE tx'[o] = Idle
    BY <2>1 DEF WellFormed, Decided, Idle, None, AdminKinds
  <2>2. CASE /\ tx'[o] = tx[o]
             /\ \A m \in Members : enabled[m] /\ ~enabled'[m] =>
                    Identity(m) \notin tx[o].held /\ Gate \notin tx[o].held
    <3>1. Frame(o)
      BY <1>3, <2>2 DEF Frame
    <3>2. QED
      BY <1>1, <3>1, FrameKeeps
  <2>3. QED
    BY <2>1, <2>2
<1>5. Exclusive'
  BY DEF Exclusive, Idle
<1>6. SuspendedHasNoSession'
  <2>1. ASSUME NEW m \in Members, ~enabled'[m]
        PROVE  LiveOf(m)' = {}
    BY <1>3, <2>1 DEF SuspendedHasNoSession
  <2>2. QED
    BY <2>1 DEF SuspendedHasNoSession
<1>7. Consumed' /\ OneLoginPerChallenge'
  BY DEF Consumed, OneLoginPerChallenge
<1>8. QED
  BY <1>1, <1>3, <1>4, <1>5, <1>6, <1>7

LEMMA ShutFacts ==
    ASSUME IInv, NEW f \in Families
    PROVE  /\ Shut(f) \in LoginRecords /\ Shut(f).owner = family[f].owner
           /\ Shut(f).state = IF family[f].state = "open" THEN "revoked" ELSE family[f].state
<1>1. family[f] \in LoginRecords
  BY DEF IInv, Typed, LoginRecords
<1>2. QED
  BY <1>1 DEF Shut, LoginRecords

\* A suspension, a permission, a logout of one login or of all, by an
\* administrator who holds the gate or by the bearer of a token.
LEMMA EndingStep ==
    ASSUME Parameters, IInv, NEW h \in Handlers,
           Logout(h) \/ Suspend(h) \/ Enable(h) \/ RevokeSessions(h)
    PROVE  IInv'
<1>1. PICK x : x = tx[h]
  OBVIOUS
<1>2. Idle \in Transactions
  BY DEF Idle, Transactions, Kinds
<1>3. /\ tx' = [tx EXCEPT ![h] = Idle] /\ UNCHANGED <<session, open, minted>>
  BY DEF Logout, Suspend, Enable, RevokeSessions, Done
<1>4. /\ tx' \in [Handlers -> Transactions]
      /\ tx'[h] = Idle /\ \A o \in Handlers \ {h} : tx'[o] = tx[o]
  BY <1>2, <1>3 DEF IInv, Typed
<1>5. PICK closed \in SUBSET Families :
        /\ family' \in [Families -> LoginRecords]
        /\ \A f \in Families : family'[f] = IF f \in closed THEN Shut(f) ELSE family[f]
        /\ Suspend(h) => closed = FamiliesOf(x.member)
  <2>1. CASE Logout(h)
    <3>1. Login(x) \in Families
      BY <1>1, <2>1, LoginFacts DEF Logout, Ready
    <3>2. family' = [family EXCEPT ![Login(x)] = Shut(Login(x))]
      BY <1>1, <2>1 DEF Logout, Login
    <3>3. ~Suspend(h)
      BY <2>1 DEF Logout, Suspend, Ready
    <3>4. /\ family \in [Families -> LoginRecords] /\ Shut(Login(x)) \in LoginRecords
          /\ {Login(x)} \in SUBSET Families
      BY <3>1, ShutFacts DEF IInv, Typed, LoginRecords
    <3>5. \A f \in Families : family'[f] = IF f \in {Login(x)} THEN Shut(f) ELSE family[f]
      BY <3>1, <3>2, <3>4
    <3>6. family' \in [Families -> LoginRecords]
      BY <3>2, <3>4
    <3>7. QED
      BY <3>3, <3>4, <3>5, <3>6
  <2>2. CASE Suspend(h) \/ RevokeSessions(h)
    <3>1. family' = RevokedAll(x.member)
      BY <1>1, <2>2 DEF Suspend, RevokeSessions
    <3>2. \A f \in Families :
            family'[f] = IF f \in FamiliesOf(x.member) THEN Shut(f) ELSE family[f]
      BY <3>1 DEF RevokedAll, FamiliesOf
    <3>3. family' \in [Families -> LoginRecords]
      BY <3>1, ShutFacts DEF RevokedAll, IInv, Typed, LoginRecords
    <3>4. QED
      BY <3>2, <3>3 DEF FamiliesOf
  <2>3. CASE Enable(h)
    <3>1. ~Suspend(h) /\ family' = family
      BY <2>3 DEF Enable, Suspend, Ready
    <3>2. family \in [Families -> LoginRecords]
      BY DEF IInv, Typed, LoginRecords
    <3>3. PICK closed \in SUBSET Families : closed = {}
      OBVIOUS
    <3>4. \A f \in Families : family'[f] = IF f \in closed THEN Shut(f) ELSE family[f]
      BY <3>1, <3>3
    <3>5. QED
      BY <3>1, <3>2, <3>4
  <2>4. QED
    BY <2>1, <2>2, <2>3
<1>6. \A f \in Families : /\ family'[f].owner = family[f].owner
                          /\ family'[f].state = "open" => family[f].state = "open"
                          /\ family'[f].state = "none" <=> family[f].state = "none"
                          /\ family[f].state = "purged" => family'[f].state = "purged"
                          /\ family[f].state = "over" => family'[f].state \in {"over", "purged"}
                          /\ f \in closed => family'[f].state # "open"
  BY <1>5, ShutFacts
<1>7. CASE Suspend(h)
  <2>1. /\ x.kind = "suspend" /\ WellFormed(x) /\ Rows(x) \subseteq x.held
        /\ enabled' = [enabled EXCEPT ![x.member] = FALSE]
    BY <1>1, <1>7, Holds DEF Suspend
  <2>2. x.member \in Members /\ Gate \in x.held /\ Identity(x.member) \in x.held
    BY <2>1, RowsByKind DEF WellFormed, AdminKinds
  <2>3. enabled' \in [Members -> BOOLEAN] /\ \A m \in Members \ {x.member} : enabled'[m] = enabled[m]
    BY <2>1 DEF IInv, Typed
  <2>4. LiveOf(x.member)' = {}
    <3>1. \A t \in Tokens : session[t].state # "none" => session[t].family \in Families
      BY DEF IInv, Typed
    <3>2. \A f \in Families : family'[f].owner = x.member => family'[f].state # "open"
      BY <1>5, <1>6, <1>7 DEF FamiliesOf
    <3>3. QED
      BY <1>3, <3>1, <3>2 DEF LiveOf, Live
  <2>5. \A o \in Handlers \ {h} : Identity(x.member) \notin tx[o].held /\ Gate \notin tx[o].held
    BY <1>1, <2>2 DEF IInv, Exclusive
  <2>6. \A m \in Members : enabled'[m] \/ ~enabled[m] \/ LiveOf(m)' = {}
    BY <2>3, <2>4
  <2>7. \A o \in Handlers :
           \/ tx'[o] = Idle
           \/ /\ tx'[o] = tx[o]
              /\ \A m \in Members : enabled[m] /\ ~enabled'[m] =>
                     Identity(m) \notin tx[o].held /\ Gate \notin tx[o].held
    BY <1>4, <2>3, <2>5
  <2>8. QED
    BY <1>3, <1>4, <1>5, <1>6, <2>3, <2>6, <2>7, ClosingStep
<1>8. CASE Logout(h) \/ Enable(h) \/ RevokeSessions(h)
  <2>1. enabled' \in [Members -> BOOLEAN] /\ \A m \in Members : enabled[m] => enabled'[m]
    BY <1>8 DEF Logout, Enable, RevokeSessions, IInv, Typed
  <2>2. QED
    BY <1>3, <1>4, <1>5, <1>6, <2>1, ClosingStep
<1>9. QED
  BY <1>7, <1>8

\* The maintenance pass removes rows of logins that are over.
LEMMA PurgeStep ==
    ASSUME Parameters, IInv, NEW h \in Handlers, Purge(h)
    PROVE  IInv'
<1> USE DEF IInv
<1>1. PICK gone \in SUBSET Families : gone = {f \in Families : f \in Due(tx[h])}
  OBVIOUS
<1>2. \A f \in gone : family[f].state = "over"
  BY <1>1 DEF Due
<1>3. \A f \in Families : family'[f] = IF f \in gone THEN [family[f] EXCEPT !.state = "purged"] ELSE family[f]
  BY <1>1 DEF Purge
<1>4. \A f \in Families : family[f] \in LoginRecords /\ [family[f] EXCEPT !.state = "purged"] \in LoginRecords
  BY DEF Typed, LoginRecords
<1>5. family' \in [Families -> LoginRecords]
  BY <1>4 DEF Purge
<1>6. \A f \in Families : /\ family'[f].owner = family[f].owner
                          /\ family'[f].state = IF f \in gone THEN "purged" ELSE family[f].state
  BY <1>3, <1>4 DEF LoginRecords
<1>7. /\ Idle \in Transactions /\ tx' = [tx EXCEPT ![h] = Idle]
      /\ UNCHANGED <<enabled, session, open, minted>>
  BY DEF Purge, Done, Idle, Transactions, Kinds
<1>8. tx' \in [Handlers -> Transactions] /\ tx'[h] = Idle /\ \A o \in Handlers \ {h} : tx'[o] = tx[o]
  BY <1>7 DEF Typed
<1>9. enabled' \in [Members -> BOOLEAN] /\ \A m \in Members : enabled'[m] = enabled[m]
  BY <1>7 DEF Typed
<1>10. QED
  BY <1>2, <1>5, <1>6, <1>7, <1>8, <1>9, ClosingStep

LEMMA TimeStep ==
    ASSUME Parameters, IInv,
           \/ \E t \in Tokens : Expire(t)
           \/ \E f \in Families : Over(f)
    PROVE  IInv'
<1> USE DEF IInv
<1>1. ASSUME NEW f \in Families, Over(f)
      PROVE  IInv'
  <2>1. /\ family' = [family EXCEPT ![f].state = "over"] /\ UNCHANGED <<enabled, session, open, minted, tx>>
        /\ family[f].state \in {"open", "revoked"}
    BY <1>1 DEF Over
  <2>2. [family[f] EXCEPT !.state = "over"] \in LoginRecords
    BY DEF Typed, LoginRecords
  <2>3. family' \in [Families -> LoginRecords]
    BY <2>1, <2>2 DEF Typed, LoginRecords
  <2>4. /\ family'[f].owner = family[f].owner /\ family'[f].state = "over"
        /\ \A g \in Families \ {f} : family'[g] = family[g]
    BY <2>1 DEF Typed
  <2>5. /\ enabled' \in [Members -> BOOLEAN] /\ tx' \in [Handlers -> Transactions]
        /\ \A m \in Members : enabled'[m] = enabled[m]
    BY <2>1 DEF Typed
  <2>6. QED
    BY <2>1, <2>3, <2>4, <2>5, ClosingStep
<1>2. ASSUME NEW t \in Tokens, Expire(t)
      PROVE  IInv'
  <2>1. /\ session[t].state = "live" /\ session' = [session EXCEPT ![t].state = "expired"]
        /\ UNCHANGED <<enabled, family, open, minted, tx>>
    BY <1>2 DEF Expire
  <2>2. /\ session'[t].family = session[t].family /\ session'[t].state = "expired"
        /\ \A u \in Tokens \ {t} : session'[u] = session[u]
    BY <2>1 DEF Typed
  <2>3. Typed'
    BY <2>1, <2>2 DEF Typed
  <2>4. Shrinks
    BY <2>1, <2>2 DEF Shrinks, Live
  <2>5. (\A m \in Members : LiveOf(m)' \subseteq LiveOf(m)) /\ OneLiveTokenPerLogin' /\ LoginsBounded'
    BY <2>4, ShrinkKeeps
  <2>6. ASSUME NEW o \in Handlers
        PROVE  WellFormed(tx[o])' /\ Decided(tx[o])'
    <3>1. Frame(o)
      BY <2>1, <2>2, <2>5 DEF Frame
    <3>2. QED
      BY <2>3, <3>1, FrameKeeps
  <2>7. SuspendedHasNoSession' /\ Consumed' /\ OneLoginPerChallenge' /\ Exclusive'
    BY <2>1, <2>5 DEF SuspendedHasNoSession, Consumed, OneLoginPerChallenge, Exclusive
  <2>8. QED
    BY <2>3, <2>5, <2>6, <2>7 DEF Handled
<1>3. QED
  BY <1>1, <1>2

----------------------------------------------------------------------------
(* The theorems.                                                             *)

LEMMA NextStep == ASSUME Parameters PROVE IInv /\ [Next]_vars => IInv'
<1> SUFFICES ASSUME IInv, [Next]_vars PROVE IInv'
  OBVIOUS
<1>1. ASSUME NEW h \in Handlers, Commit(h)
      PROVE  IInv'
  BY <1>1, ExchangeStep, RefreshStep, RefusalStep, EndingStep, PurgeStep DEF Commit
<1>2. ASSUME NEW h \in Handlers, Request(h) \/ Lock(h) \/ Read(h) \/ Rollback(h)
      PROVE  IInv'
  BY <1>2, RequestStep, BeginPurgeStep, LockStep, ReadStep, RollbackStep
<1>3. CASE (\E t \in Tokens : Expire(t)) \/ (\E f \in Families : Over(f))
  BY <1>3, TimeStep
<1>4. CASE UNCHANGED vars
  <2> USE <1>4 DEF vars, IInv
  <2>1. Typed' /\ Exclusive' /\ Consumed' /\ OneLoginPerChallenge'
    BY DEF Typed, Exclusive, Consumed, OneLoginPerChallenge
  <2>2. \A m \in Members : LiveOf(m)' = LiveOf(m)
    BY DEF LiveOf, Live
  <2>3. LoginsBounded' /\ SuspendedHasNoSession' /\ OneLiveTokenPerLogin'
    BY <2>2 DEF LoginsBounded, SuspendedHasNoSession, OneLiveTokenPerLogin, Live
  <2>4. \A o \in Handlers : Frame(o)
    BY <2>2 DEF Frame
  <2>5. Handled'
    BY <2>1, <2>4, FrameKeeps DEF Handled
  <2>6. QED
    BY <2>1, <2>3, <2>5
<1>5. QED
  BY <1>1, <1>2, <1>3, <1>4 DEF Next

\* The locking discipline holds at every instant.
THEOREM Invariance == ASSUME Parameters PROVE Spec => []IInv
BY InitInv, NextStep, PTL DEF Spec

\* However many logins, refreshes, suspensions and logouts overlap: a login has
\* one live token and comes from a challenge of its own, an account keeps to its
\* limit, and a suspended account has no live session.
THEOREM SessionsAreSingle ==
    ASSUME Parameters
    PROVE  Spec => [](/\ OneLiveTokenPerLogin /\ OneLoginPerChallenge
                      /\ LoginsBounded /\ SuspendedHasNoSession)
<1>1. IInv => /\ OneLiveTokenPerLogin /\ OneLoginPerChallenge
              /\ LoginsBounded /\ SuspendedHasNoSession
  BY DEF IInv
<1>2. QED
  BY <1>1, Invariance, PTL

\* A logout that is refused was refused because its login is over, even when a
\* refresh retired its token in between.
THEOREM LogoutsEndLogins == ASSUME Parameters PROVE Spec => []LogoutEndsLogin
<1>1. IInv => LogoutEndsLogin
  <2> SUFFICES ASSUME IInv, NEW h \in Handlers, NEW t \in Tokens,
                      tx[h].kind = "logout", tx[h].verdict = "no",
                      Live(t), session[t].family = session[tx[h].token].family
               PROVE  FALSE
    BY DEF LogoutEndsLogin
  <2>1. family[session[t].family].state = "purged"
    BY DEF IInv, Handled, Decided, Login
  <2>2. QED
    BY <2>1 DEF Live
<1>2. QED
  BY <1>1, Invariance, PTL

\* Administrators who suspend each other at once leave one of them: whoever
\* suspends is enabled, and stays so while it holds the gate.
THEOREM AnAdminAlwaysRemains ==
    ASSUME Parameters, Admins # {}
    PROVE  Spec => []AnAdminRemains
<1>1. Init => AnAdminRemains
  BY DEF Init, AnAdminRemains, EnabledAdmins, Parameters
<1>2. IInv /\ AnAdminRemains /\ [Next]_vars => AnAdminRemains'
  <2> SUFFICES ASSUME IInv, AnAdminRemains, [Next]_vars PROVE AnAdminRemains'
    OBVIOUS
  <2>1. PICK a \in Admins : enabled[a] /\ a \in Members
    BY DEF AnAdminRemains, EnabledAdmins, Parameters
  <2>2. ASSUME NEW h \in Handlers, Suspend(h)
        PROVE  AnAdminRemains'
    <3>1. PICK x : x = tx[h] /\ WellFormed(x) /\ Decided(x) /\ x.kind = "suspend" /\ x.verdict = "yes"
      BY <2>2, Holds DEF Suspend
    <3>2. x.actor \in Admins /\ x.actor \in Members /\ enabled[x.actor] /\ x.actor # x.member
      BY <3>1 DEF WellFormed, Decided, AdminKinds, Parameters
    <3>3. enabled' = [enabled EXCEPT ![x.member] = FALSE]
      BY <2>2, <3>1 DEF Suspend
    <3>4. enabled'[x.actor]
      BY <3>2, <3>3 DEF IInv, Typed
    <3>5. QED
      BY <3>2, <3>4 DEF AnAdminRemains, EnabledAdmins
  <2>3. ASSUME NEW h \in Handlers, Enable(h)
        PROVE  AnAdminRemains'
    <3>1. enabled'[a]
      BY <2>1, <2>3 DEF Enable, IInv, Typed
    <3>2. QED
      BY <3>1 DEF AnAdminRemains, EnabledAdmins
  <2>4. CASE enabled' = enabled
    BY <2>4 DEF AnAdminRemains, EnabledAdmins
  <2>5. QED
    BY <2>2, <2>3, <2>4
    DEF Next, vars, Request, Begin, BeginPurge, Lock, Read, Commit, Exchange, Refresh, ExchangeRefused,
        Logout, RevokeSessions, Purge, Rollback, Expire, Over
<1>3. QED
  BY <1>1, <1>2, Invariance, PTL DEF Spec

\* But for the pass, locks are asked for in one order, by the kind of their rows:
\* challenge, gate, identity, family.  Only an administrator holds two rows of a
\* kind, and the gate has one holder.
Rank(lock) ==
    CASE lock[1] = "challenge" -> 1 [] lock[1] = "gate" -> 2
      [] lock[1] = "identity" -> 3 [] lock[1] = "family" -> 4

LEMMA Ranks ==
    /\ Rank(Gate) = 2
    /\ \A c : Rank(ChallengeRow(c)) = 1
    /\ \A m : Rank(Identity(m)) = 3
    /\ \A f : Rank(FamilyRow(f)) = 4
BY DEF Rank, Gate, ChallengeRow, Identity, FamilyRow

LEMMA LocksInOrder ==
    ASSUME Parameters, IInv, NEW h \in Handlers, tx[h].kind \notin {"idle", "purge"},
           NEW lock \in NextLocks(h), NEW own \in tx[h].held
    PROVE  /\ Rank(own) \in Nat /\ Rank(lock) \in 1..4
           /\ \/ Rank(own) < Rank(lock)
              \/ Rank(own) = Rank(lock) /\ Gate \in tx[h].held
           /\ Rank(own) = 4 => tx[h].kind \in {"suspend", "revoke"}
<1>1. PICK x \in Transactions : x = tx[h] /\ x.kind \notin {"idle", "purge"} /\ WellFormed(x)
  BY DEF IInv, Typed, Handled
<1>2. tx[h].kind \in Kinds \ {"idle", "purge"} /\ x.kind \in Kinds
  BY <1>1 DEF Transactions
<1>3. /\ lock \in (Rows(x) \cup Peers(x) \cup Revokes(x)) \ x.held
      /\ lock \in Rows(x) \/ Rows(x) \subseteq x.held
  BY <1>1, <1>2, NextLock
<1>4. \/ lock \in Rows(x)
      \/ x.kind \in AdminKinds /\ x.verdict = None /\ \E a \in Admins : lock = Identity(a)
      \/ x.kind \in AdminKinds /\ \E f \in Families : lock = FamilyRow(f)
  BY <1>3 DEF Peers, Revokes, FamiliesOf, EnabledAdmins, AdminKinds
<1>5. CASE x.kind = "exchange"
  <2>1. lock \in {ChallengeRow(x.challenge), Identity(x.member)}
    BY <1>4, <1>5, RowsByKind DEF AdminKinds
  <2>2. /\ own \in {ChallengeRow(x.challenge), Identity(x.member)}
        /\ Identity(x.member) \in x.held => ChallengeRow(x.challenge) \in x.held
    BY <1>1, <1>5 DEF WellFormed
  <2>3. own = ChallengeRow(x.challenge) /\ lock = Identity(x.member)
    BY <1>1, <1>3, <2>1, <2>2
  <2>4. QED
    BY <2>3, Ranks
<1>6. CASE x.kind = "refresh"
  <2>1. lock \in {Identity(Owner(x)), FamilyRow(Login(x))}
    BY <1>4, <1>6, RowsByKind DEF AdminKinds
  <2>2. /\ own \in {Identity(Owner(x)), FamilyRow(Login(x))}
        /\ FamilyRow(Login(x)) \in x.held => Identity(Owner(x)) \in x.held
    BY <1>1, <1>6 DEF WellFormed
  <2>3. own = Identity(Owner(x)) /\ lock = FamilyRow(Login(x))
    BY <1>1, <1>3, <2>1, <2>2
  <2>4. QED
    BY <2>3, Ranks
<1>7. CASE x.kind = "logout"
  <2>1. lock = FamilyRow(Login(x))
    BY <1>4, <1>7, RowsByKind DEF AdminKinds
  <2>2. own = FamilyRow(Login(x))
    BY <1>1, <1>7 DEF WellFormed
  <2>3. QED
    BY <1>1, <1>3, <2>1, <2>2
<1>8. CASE x.kind \in AdminKinds
  <2>1. /\ own \in {Gate, Identity(x.member)} \cup {Identity(a) : a \in Admins}
                      \cup {FamilyRow(f) : f \in Families}
        /\ Gate \in x.held
        /\ Identity(x.member) \in x.held => Identity(x.actor) \in x.held
        /\ x.verdict # None => Identity(x.member) \in x.held
        /\ (\E f \in Families : FamilyRow(f) \in x.held)
              => x.verdict = "yes" /\ x.kind \in {"suspend", "revoke"}
    BY <1>1, <1>8 DEF WellFormed
  <2>2. Rows(x) = {Gate, Identity(x.actor), Identity(x.member)}
    BY <1>8, RowsByKind
  <2>3. (\E m : lock = Identity(m)) \/ (\E f \in Families : lock = FamilyRow(f))
    BY <1>3, <1>4, <2>1, <2>2
  <2>4. CASE own = Gate \/ \E m : own = Identity(m)
    BY <1>1, <2>1, <2>3, <2>4, Ranks
  <2>5. CASE \E f \in Families : own = FamilyRow(f)
    <3>1. /\ x.verdict = "yes" /\ x.kind \in {"suspend", "revoke"}
          /\ Identity(x.member) \in x.held /\ Identity(x.actor) \in x.held
      BY <1>1, <2>1, <2>5 DEF None
    <3>2. \E f \in Families : lock = FamilyRow(f)
      BY <1>3, <1>4, <2>1, <2>2, <3>1 DEF None
    <3>3. QED
      BY <1>1, <2>1, <2>5, <3>1, <3>2, Ranks
  <2>6. QED
    BY <2>1, <2>4, <2>5
<1>9. QED
  BY <1>1, <1>2, <1>5, <1>6, <1>7, <1>8 DEF Kinds, AdminKinds

\* The pass and another transaction: only an update of a member's logins holds the
\* row of a login and asks for another lock.
LEMMA PurgeWaits ==
    ASSUME Parameters, IInv, NEW h \in Handlers, NEW o \in Waits(h), h \in Waits(o),
           tx[h].kind = "purge"
    PROVE  ByIdAndByScan(tx[h], tx[o])
<1>1. o \in Handlers \ {h} /\ tx[o].kind # "idle"
  BY DEF Waits
<1>2. PICK wanted \in NextLocks(h) : wanted \in tx[o].held
  BY DEF Waits
<1>3. PICK owed \in NextLocks(o) : owed \in tx[h].held
  BY DEF Waits
<1>4. /\ tx[h].expired \in SUBSET Families /\ tx[o].expired \in SUBSET Families
      /\ WellFormed(tx[h]) /\ WellFormed(tx[o])
  BY <1>1 DEF IInv, Typed, Transactions, Handled
<1>5. PICK f \in tx[h].expired :
        wanted = FamilyRow(f) /\ wanted \notin tx[h].held /\ family[f].state = "over"
  BY NextPurgeLock
<1>6. CASE tx[o].kind = "purge"
  <2>1. PICK e \in tx[o].expired :
          owed = FamilyRow(e) /\ owed \notin tx[o].held /\ family[e].state = "over"
    BY <1>1, <1>6, NextPurgeLock
  <2>2. f \in tx[o].expired /\ e \in tx[h].expired
    BY <1>2, <1>3, <1>4, <1>5, <1>6, <2>1 DEF WellFormed, FamilyRow
  <2>3. e < f
    BY <1>3, <1>4, <1>5, <2>1, <2>2 DEF WellFormed
  <2>4. f < e
    BY <1>2, <1>4, <1>5, <1>6, <2>1, <2>2 DEF WellFormed
  <2>5. e \in Nat /\ f \in Nat
    BY <1>4, FamiliesAssumption
  <2>6. QED
    BY <2>3, <2>4, <2>5
<1>7. CASE tx[o].kind # "purge"
  <2>1. Rank(wanted) = 4
    BY <1>5, Ranks
  <2>2. tx[o].kind \in {"suspend", "revoke"}
    BY <1>1, <1>2, <1>7, <2>1, LocksInOrder
  <2>3. QED
    BY <2>2 DEF ByIdAndByScan
<1>8. QED
  BY <1>6, <1>7

\* No two transactions ever wait for each other, but for the maintenance pass
\* and an update of a member's logins.
THEOREM TransactionsNeverDeadlock == ASSUME Parameters PROVE Spec => []NoDeadlock
<1>1. ASSUME IInv
      PROVE  NoDeadlock
  <2> SUFFICES ASSUME NEW h \in Handlers, NEW o \in Waits(h), h \in Waits(o)
               PROVE  ByIdAndByScan(tx[h], tx[o]) \/ ByIdAndByScan(tx[o], tx[h])
    BY DEF NoDeadlock
  <2>1. o \in Handlers \ {h} /\ tx[h].kind # "idle" /\ tx[o].kind # "idle"
    BY DEF Waits
  <2>2. CASE tx[h].kind = "purge" \/ tx[o].kind = "purge"
    BY <1>1, <2>1, <2>2, PurgeWaits
  <2>3. CASE tx[h].kind # "purge" /\ tx[o].kind # "purge"
    <3>1. PICK wanted \in NextLocks(h) : wanted \in tx[o].held
      BY DEF Waits
    <3>2. PICK owed \in NextLocks(o) : owed \in tx[h].held
      BY DEF Waits
    <3>3. /\ Rank(owed) \in Nat /\ Rank(wanted) \in 1..4
          /\ \/ Rank(owed) < Rank(wanted)
             \/ Rank(owed) = Rank(wanted) /\ Gate \in tx[h].held
      BY <1>1, <2>1, <2>3, <3>1, <3>2, LocksInOrder
    <3>4. \/ Rank(wanted) < Rank(owed)
          \/ Rank(wanted) = Rank(owed) /\ Gate \in tx[o].held
      BY <1>1, <2>1, <2>3, <3>1, <3>2, LocksInOrder
    <3>5. Gate \in tx[h].held /\ Gate \in tx[o].held
      BY <3>3, <3>4
    <3>6. QED
      BY <1>1, <2>1, <3>5 DEF IInv, Exclusive
  <2>4. QED
    BY <2>2, <2>3
<1>2. IInv => NoDeadlock
  BY <1>1
<1>3. QED
  BY <1>2, Invariance, PTL

\* All of it: what overlapping transactions may never do to accounts and logins.
THEOREM LoginsStaySingle ==
    ASSUME Parameters, Admins # {}
    PROVE  Spec => []LoginsAreSingle
<1>1. IInv => TypeOK
  BY DEF IInv, Typed, Exclusive, TypeOK
<1>2. QED
  BY <1>1, Invariance, SessionsAreSingle, LogoutsEndLogins, AnAdminAlwaysRemains,
     TransactionsNeverDeadlock, PTL DEF LoginsAreSingle

-----------------------------------------------------------------------------
\* Budgets of requests (AccessPolicy).

\* The instance's name for the operator of FiniteSets.
LEMMA PolicyCardinality == \A S : Policy!Cardinality(S) = Cardinality(S)
BY DEF Policy!Cardinality, Cardinality

\* The requests that count for a bucket, and until when its window lasted then.
Counted(b) == {r \in hist : b = Policy!Tenant \/ r.user = b}
Closes(r, b) == IF b = Policy!Tenant THEN r.tenantReset ELSE r.userReset
InWindow(b, x) == {r \in Counted(b) : Closes(r, b) = x}

PolicyTypes ==
    /\ now \in Nat \ {0}
    /\ bucket \in [Policy!Buckets -> [count : Nat, reset : Nat]]
    /\ token \in [Users -> Nat] /\ revoked \in [Users -> Nat] /\ out \subseteq Users
    /\ began \in [Users -> Nat] /\ \A u \in Users : began[u] <= now
    /\ hist \subseteq [user : Users, at : Nat, n : Nat, tenantReset : Nat, userReset : Nat]
    /\ IsFiniteSet(hist)
    /\ \A r \in hist : r.at \in 1..now /\ r.n < Cardinality(hist)

\* A window keeps to its budget, and the open one has counted what the bucket says.
WindowsKeepBudgets ==
    \A b \in Policy!Buckets :
        /\ bucket[b].count <= Policy!Budget(b)
        /\ bucket[b].count > 0 => Cardinality(InWindow(b, bucket[b].reset)) = bucket[b].count
        /\ \A x \in Nat : Cardinality(InWindow(b, x)) <= Policy!Budget(b)

\* The window that is open closes last, and none closes later than a purge that
\* left no row.
OpenIsLast ==
    \A b \in Policy!Buckets : \A r \in Counted(b) :
        Closes(r, b) <= IF bucket[b].count > 0 THEN bucket[b].reset ELSE now

\* What an earlier window counted was let through before a later one was a wait
\* old, and what a later one counted after the earlier one was over.
WindowsInOrder ==
    \A b \in Policy!Buckets : \A r, s \in Counted(b) :
        Closes(r, b) < Closes(s, b) =>
            r.at <= Closes(s, b) - Window + Wait /\ s.at >= Closes(r, b)

RevokedOrExpired ==
    /\ \A u \in Users : revoked[u] \in {0, token[u]}
    /\ \A u \in out : revoked[u] = token[u] \/ token[u] <= now

PolicyInv ==
    PolicyTypes /\ WindowsKeepBudgets /\ OpenIsLast /\ WindowsInOrder /\ RevokedOrExpired

LEMMA PolicyStart == Policy!Init => PolicyInv
<1> SUFFICES ASSUME Policy!Init PROVE PolicyInv
  OBVIOUS
<1> USE PartsAssumption DEF Policy!Parameters
<1>1. hist = {} /\ Cardinality({}) = 0 /\ IsFiniteSet({})
  BY FS_EmptySet DEF Policy!Init
<1>2. \A b : Counted(b) = {}
  BY <1>1 DEF Counted
<1>3. \A b, x : InWindow(b, x) = {}
  BY <1>2 DEF InWindow
<1>4. \A b : Policy!Budget(b) \in Nat
  BY DEF Policy!Budget
<1>5. PolicyTypes
  BY <1>1 DEF PolicyTypes, Policy!Init
<1>6. WindowsKeepBudgets
  BY <1>1, <1>3, <1>4 DEF WindowsKeepBudgets, Policy!Init
<1>7. OpenIsLast /\ WindowsInOrder
  BY <1>2 DEF OpenIsLast, WindowsInOrder
<1>8. RevokedOrExpired
  BY DEF RevokedOrExpired, Policy!Init
<1>9. QED
  BY <1>5, <1>6, <1>7, <1>8 DEF PolicyInv

\* One bucket's part of the invariant, before and after a request is let through
\* that began at `at`.
LEMMA AdmittedInBucket ==
    ASSUME PolicyInv, NEW b \in Policy!Buckets, NEW q, NEW at \in Nat \ {0},
           now \in at..(at + Wait), now' = now, q \notin hist, hist' = hist \cup {q},
           q \in [user : Users, at : {now}, n : Nat, tenantReset : Nat, userReset : Nat],
           b = Policy!Tenant \/ q.user = b,
           NEW count, NEW reset,
           Policy!Consumed(b, at) = [count |-> count, reset |-> reset],
           Closes(q, b) = reset, bucket'[b] = [count |-> count, reset |-> reset],
           Policy!Fits(b, at)
    PROVE  /\ count \in 1..Policy!Budget(b) /\ reset \in Nat
           /\ Cardinality(InWindow(b, reset)') = count
           /\ \A x \in Nat : Cardinality(InWindow(b, x)') <= Policy!Budget(b)
           /\ \A r \in Counted(b)' : Closes(r, b) <= reset
           /\ \A r, s \in Counted(b)' :
                  Closes(r, b) < Closes(s, b) =>
                      r.at <= Closes(s, b) - Window + Wait /\ s.at >= Closes(r, b)
<1> USE PartsAssumption DEF Policy!Parameters
<1>1. Policy!Budget(b) \in Nat
  BY DEF Policy!Budget
<1>2. bucket[b] \in [count : Nat, reset : Nat] /\ IsFiniteSet(hist) /\ now \in Nat
  BY DEF PolicyInv, PolicyTypes
<1>3. reset \in Nat /\ count \in Nat \ {0} /\ count <= Policy!Budget(b)
  BY <1>2 DEF Policy!Consumed, Policy!Fits
<1>4. Counted(b)' = Counted(b) \cup {q} /\ q \notin Counted(b)
  BY DEF Counted
<1>5. /\ InWindow(b, reset)' = InWindow(b, reset) \cup {q} /\ q \notin InWindow(b, reset)
      /\ \A x : x # reset => InWindow(b, x)' = InWindow(b, x)
  BY <1>4 DEF InWindow
<1>6. \A x : IsFiniteSet(InWindow(b, x)) /\ Cardinality(InWindow(b, x)) \in Nat
  <2>1. \A x : InWindow(b, x) \subseteq hist
    BY DEF InWindow, Counted
  <2>2. QED
    BY <1>2, <2>1, FS_Subset, FS_CardinalityType
<1>7. Cardinality(InWindow(b, reset)') = Cardinality(InWindow(b, reset)) + 1
  BY <1>5, <1>6, FS_AddElement
<1>8. \A r \in Counted(b) : Closes(r, b) \in Nat /\ r.at \in Nat /\ r.at <= now
  BY DEF Counted, Closes, PolicyInv, PolicyTypes
<1>9. \A x \in Nat : Cardinality(InWindow(b, x)) <= Policy!Budget(b)
  BY DEF PolicyInv, WindowsKeepBudgets
<1>10. /\ Cardinality(InWindow(b, reset)') = count
       /\ \A r \in Counted(b) : /\ Closes(r, b) <= reset
                                /\ Closes(r, b) < reset =>
                                      r.at <= reset - Window + Wait /\ now >= Closes(r, b)
  <2>1. CASE bucket[b].count = 0 \/ bucket[b].reset <= at
    <3>1. reset = at + Window /\ count = 1
      BY <2>1, <1>2 DEF Policy!Consumed
    <3>2. \A r \in Counted(b) : Closes(r, b) <= now
      BY <2>1, <1>2, <1>8 DEF PolicyInv, OpenIsLast
    <3>3. now < reset /\ now <= reset - Window + Wait
      BY <3>1, <1>2
    <3>4. InWindow(b, reset) = {}
      BY <3>2, <3>3, <1>2, <1>8 DEF InWindow
    <3>5. Cardinality(InWindow(b, reset)') = count
      <4>1. Cardinality(InWindow(b, reset)) = 0
        BY <3>4, FS_EmptySet
      <4>2. QED
        BY <3>1, <4>1, <1>7
    <3>6. QED
      BY <3>1, <3>2, <3>3, <3>5, <1>2, <1>3, <1>8
  <2>2. CASE bucket[b].count > 0 /\ ~(bucket[b].reset <= at)
    <3>1. reset = bucket[b].reset /\ count = bucket[b].count + 1
      BY <2>2, <1>2 DEF Policy!Consumed
    <3>2. Cardinality(InWindow(b, reset)) = bucket[b].count
      BY <2>2, <3>1 DEF PolicyInv, WindowsKeepBudgets
    <3>0. InWindow(b, reset) # {}
      BY <2>2, <3>2, <1>2, FS_EmptySet
    <3>3. PICK s : s \in InWindow(b, reset)
      BY <3>0
    <3>4. s \in Counted(b) /\ Closes(s, b) = reset
      BY <3>3 DEF InWindow
    <3>5. \A r \in Counted(b) : Closes(r, b) <= reset
      BY <2>2, <3>1 DEF PolicyInv, OpenIsLast
    <3>6. ASSUME NEW r \in Counted(b), Closes(r, b) < reset
          PROVE  r.at <= reset - Window + Wait /\ s.at >= Closes(r, b)
      BY <3>4, <3>6 DEF PolicyInv, WindowsInOrder
    <3>7. QED
      BY <3>1, <3>2, <3>4, <3>5, <3>6, <1>2, <1>7, <1>8
  <2>3. QED
    BY <2>1, <2>2, <1>2
<1>11. \A x \in Nat : Cardinality(InWindow(b, x)') <= Policy!Budget(b)
  BY <1>3, <1>5, <1>9, <1>10
<1>12. q.at = now /\ Closes(q, b) = reset
  OBVIOUS
<1>13. \A r, s \in Counted(b) :
          Closes(r, b) < Closes(s, b) =>
              r.at <= Closes(s, b) - Window + Wait /\ s.at >= Closes(r, b)
  BY DEF PolicyInv, WindowsInOrder
<1>14. \A r \in Counted(b)' : Closes(r, b) <= reset
  BY <1>3, <1>4, <1>10, <1>12
<1>15. ASSUME NEW r \in Counted(b)', NEW s \in Counted(b)', Closes(r, b) < Closes(s, b)
       PROVE  r.at <= Closes(s, b) - Window + Wait /\ s.at >= Closes(r, b)
  <2>1. CASE s = q
    BY <2>1, <1>3, <1>4, <1>10, <1>12, <1>15
  <2>2. CASE s # q /\ r = q
    BY <2>2, <1>3, <1>4, <1>8, <1>10, <1>12, <1>15
  <2>3. CASE s # q /\ r # q
    BY <2>3, <1>4, <1>13, <1>15
  <2>4. QED
    BY <2>1, <2>2, <2>3
<1>16. QED
  BY <1>3, <1>10, <1>11, <1>14, <1>15

\* A bucket that a step leaves alone keeps its part, as time passes and others
\* are counted elsewhere.
LEMMA OtherBucket ==
    ASSUME PolicyInv, NEW b \in Policy!Buckets, now' \in Nat, now' >= now,
           Counted(b)' = Counted(b),
           \/ bucket'[b] = bucket[b]
           \/ bucket'[b] = [count |-> 0, reset |-> 0] /\ bucket[b].reset <= now
    PROVE  /\ bucket'[b].count <= Policy!Budget(b)
           /\ bucket'[b].count > 0 => /\ bucket'[b] = bucket[b]
                                      /\ Cardinality(InWindow(b, bucket[b].reset)') = bucket[b].count
           /\ \A x \in Nat : Cardinality(InWindow(b, x)') <= Policy!Budget(b)
           /\ \A r \in Counted(b)' :
                  Closes(r, b) <= IF bucket'[b].count > 0 THEN bucket[b].reset ELSE now'
           /\ \A r, s \in Counted(b)' :
                  Closes(r, b) < Closes(s, b) =>
                      r.at <= Closes(s, b) - Window + Wait /\ s.at >= Closes(r, b)
<1> USE PartsAssumption DEF Policy!Parameters
<1>1. \A x : InWindow(b, x)' = InWindow(b, x)
  BY DEF InWindow
<1>2. bucket[b] \in [count : Nat, reset : Nat] /\ now \in Nat
  BY DEF PolicyInv, PolicyTypes
<1>3. \A r \in Counted(b) : Closes(r, b) \in Nat
  BY DEF Counted, Closes, PolicyInv, PolicyTypes
<1>4. bucket[b].count <= Policy!Budget(b) /\ Policy!Budget(b) \in Nat
  BY DEF PolicyInv, WindowsKeepBudgets, Policy!Budget
<1>5. /\ bucket[b].count > 0 => Cardinality(InWindow(b, bucket[b].reset)) = bucket[b].count
      /\ \A x \in Nat : Cardinality(InWindow(b, x)) <= Policy!Budget(b)
  BY DEF PolicyInv, WindowsKeepBudgets
<1>6. \A r \in Counted(b) : Closes(r, b) <= IF bucket[b].count > 0 THEN bucket[b].reset ELSE now
  BY DEF PolicyInv, OpenIsLast
<1>7. \A r, s \in Counted(b) :
          Closes(r, b) < Closes(s, b) =>
              r.at <= Closes(s, b) - Window + Wait /\ s.at >= Closes(r, b)
  BY DEF PolicyInv, WindowsInOrder
<1>8. bucket'[b].count <= Policy!Budget(b) /\ (bucket'[b].count > 0 => bucket'[b] = bucket[b])
  BY <1>2, <1>4
<1>9. \A r \in Counted(b)' : Closes(r, b) <= IF bucket'[b].count > 0 THEN bucket[b].reset ELSE now'
  BY <1>2, <1>3, <1>6
<1>10. QED
  BY <1>1, <1>5, <1>7, <1>8, <1>9

\* The parts about buckets, put together from those of each bucket.
LEMMA EachBucket ==
    ASSUME \A b \in Policy!Buckets :
           /\ bucket'[b].count <= Policy!Budget(b)
           /\ bucket'[b].count > 0 =>
                \E x : bucket'[b].reset = x /\ Cardinality(InWindow(b, x)') = bucket'[b].count
           /\ \A x \in Nat : Cardinality(InWindow(b, x)') <= Policy!Budget(b)
           /\ \A r \in Counted(b)' :
                  Closes(r, b) <= IF bucket'[b].count > 0 THEN bucket'[b].reset ELSE now'
           /\ \A r, s \in Counted(b)' :
                  Closes(r, b) < Closes(s, b) =>
                      r.at <= Closes(s, b) - Window + Wait /\ s.at >= Closes(r, b)
    PROVE  WindowsKeepBudgets' /\ OpenIsLast' /\ WindowsInOrder'
<1>1. WindowsKeepBudgets'
  BY DEF WindowsKeepBudgets, InWindow, Policy!Budget, Policy!Buckets
<1>2. OpenIsLast'
  BY DEF OpenIsLast, Closes, Policy!Buckets
<1>3. WindowsInOrder'
  BY DEF WindowsInOrder, Closes, Policy!Buckets
<1>4. QED
  BY <1>1, <1>2, <1>3

LEMMA PolicyStep == PolicyInv /\ [Policy!Next]_policy => PolicyInv'
<1> SUFFICES ASSUME PolicyInv, [Policy!Next]_policy PROVE PolicyInv'
  OBVIOUS
<1> USE PartsAssumption DEF Policy!Parameters
<1>1. PolicyTypes /\ RevokedOrExpired
  BY DEF PolicyInv
<1>2. Policy!Tenant \notin Users /\ Policy!Buckets = Users \cup {Policy!Tenant}
  BY DEF Policy!Tenant, Policy!Buckets
<1>3. ASSUME UNCHANGED <<bucket, hist>>, now' \in Nat, now' >= now
      PROVE  WindowsKeepBudgets' /\ OpenIsLast' /\ WindowsInOrder'
  <2>1. \A b : Counted(b)' = Counted(b)
    BY <1>3 DEF Counted
  <2>2. ASSUME NEW b \in Policy!Buckets
        PROVE  /\ bucket'[b].count <= Policy!Budget(b)
               /\ bucket'[b].count > 0 =>
                    \E x : bucket'[b].reset = x /\ Cardinality(InWindow(b, x)') = bucket'[b].count
               /\ \A x \in Nat : Cardinality(InWindow(b, x)') <= Policy!Budget(b)
               /\ \A r \in Counted(b)' :
                      Closes(r, b) <= IF bucket'[b].count > 0 THEN bucket'[b].reset ELSE now'
               /\ \A r, s \in Counted(b)' :
                      Closes(r, b) < Closes(s, b) =>
                          r.at <= Closes(s, b) - Window + Wait /\ s.at >= Closes(r, b)
    BY <1>3, <2>1, OtherBucket
  <2>3. QED
    BY <2>2, EachBucket
<1>4. ASSUME NEW u \in Users, Policy!Begin(u) PROVE PolicyInv'
  <2>1. UNCHANGED <<bucket, hist>> /\ now' \in Nat /\ now' >= now
    BY <1>1, <1>4 DEF Policy!Begin, PolicyTypes
  <2>2. PolicyTypes' /\ RevokedOrExpired'
    BY <1>1, <1>4 DEF Policy!Begin, PolicyTypes, RevokedOrExpired
  <2>3. QED
    BY <2>1, <2>2, <1>3 DEF PolicyInv
<1>5. ASSUME NEW u \in Users, Policy!Unavailable(u) PROVE PolicyInv'
  <2>1. UNCHANGED <<bucket, hist>> /\ now' \in Nat /\ now' >= now
    BY <1>1, <1>5 DEF Policy!Unavailable, PolicyTypes
  <2>2. PolicyTypes' /\ RevokedOrExpired'
    BY <1>1, <1>5 DEF Policy!Unavailable, PolicyTypes, RevokedOrExpired
  <2>3. QED
    BY <2>1, <2>2, <1>3 DEF PolicyInv
<1>6. ASSUME NEW u \in Users, Policy!Revoke(u) PROVE PolicyInv'
  <2>1. UNCHANGED <<bucket, hist>> /\ now' \in Nat /\ now' >= now
    BY <1>1, <1>6 DEF Policy!Revoke, PolicyTypes
  <2>2. PolicyTypes' /\ RevokedOrExpired'
    BY <1>1, <1>6 DEF Policy!Revoke, PolicyTypes, RevokedOrExpired
  <2>3. QED
    BY <2>1, <2>2, <1>3 DEF PolicyInv
<1>7. CASE Policy!Tick
  <2>1. UNCHANGED <<bucket, hist>> /\ now' \in Nat /\ now' >= now
    BY <1>1, <1>7 DEF Policy!Tick, PolicyTypes
  <2>2. PolicyTypes' /\ RevokedOrExpired'
    BY <1>1, <1>7 DEF Policy!Tick, PolicyTypes, RevokedOrExpired
  <2>3. QED
    BY <2>1, <2>2, <1>3 DEF PolicyInv
<1>8. CASE UNCHANGED policy
  <2>1. UNCHANGED <<bucket, hist>> /\ now' \in Nat /\ now' >= now
    BY <1>1, <1>8 DEF policy, PolicyTypes
  <2>2. PolicyTypes' /\ RevokedOrExpired'
    BY <1>1, <1>8 DEF policy, PolicyTypes, RevokedOrExpired
  <2>3. QED
    BY <2>1, <2>2, <1>3 DEF PolicyInv
<1>9. CASE Policy!PurgeExpired
  <2>1. /\ UNCHANGED <<now, token, began, out, hist>>
        /\ \A u \in Users : revoked'[u] = IF revoked[u] <= now THEN 0 ELSE revoked[u]
        /\ revoked' \in [Users -> Nat]
        /\ \A b \in Policy!Buckets :
              bucket'[b] = IF bucket[b].reset <= now THEN [count |-> 0, reset |-> 0] ELSE bucket[b]
        /\ bucket' \in [Policy!Buckets -> [count : Nat, reset : Nat]]
    BY <1>1, <1>9 DEF Policy!PurgeExpired, Policy!Expired, PolicyTypes
  <2>2. PolicyTypes'
    BY <1>1, <2>1 DEF PolicyTypes, Policy!Buckets
  <2>3. RevokedOrExpired'
    BY <1>1, <2>1 DEF RevokedOrExpired, PolicyTypes
  <2>4. \A b : Counted(b)' = Counted(b)
    BY <2>1 DEF Counted
  <2>5. ASSUME NEW b \in Policy!Buckets
        PROVE  /\ bucket'[b].count <= Policy!Budget(b)
               /\ bucket'[b].count > 0 =>
                    \E x : bucket'[b].reset = x /\ Cardinality(InWindow(b, x)') = bucket'[b].count
               /\ \A x \in Nat : Cardinality(InWindow(b, x)') <= Policy!Budget(b)
               /\ \A r \in Counted(b)' :
                      Closes(r, b) <= IF bucket'[b].count > 0 THEN bucket'[b].reset ELSE now'
               /\ \A r, s \in Counted(b)' :
                      Closes(r, b) < Closes(s, b) =>
                          r.at <= Closes(s, b) - Window + Wait /\ s.at >= Closes(r, b)
    <3>1. \/ bucket'[b] = bucket[b]
          \/ bucket'[b] = [count |-> 0, reset |-> 0] /\ bucket[b].reset <= now
      BY <2>1
    <3>2. now' \in Nat /\ now' >= now
      BY <2>1, <1>1 DEF PolicyTypes
    <3>3. QED
      BY <2>4, <3>1, <3>2, OtherBucket
  <2>6. QED
    BY <2>2, <2>3, <2>5, EachBucket DEF PolicyInv
<1>10. ASSUME NEW u \in Users, Policy!Check(u) PROVE PolicyInv'
  <2> DEFINE at == began[u]
             q == Policy!Admitted(u, at)
  <2>1. /\ at \in Nat \ {0} /\ now \in at..(at + Wait) /\ now \in Nat \ {0}
        /\ UNCHANGED <<now, token, revoked, out>> /\ began' = [began EXCEPT ![u] = 0]
    BY <1>1, <1>10 DEF Policy!Check, Policy!InTime, PolicyTypes
  <2>2. RevokedOrExpired'
    BY <1>1, <2>1 DEF RevokedOrExpired
  <2>3. CASE UNCHANGED <<bucket, hist>>
    <3>1. PolicyTypes'
      BY <1>1, <2>1, <2>3 DEF PolicyTypes
    <3>2. QED
      BY <2>1, <2>2, <2>3, <3>1, <1>3 DEF PolicyInv
  <2>4. CASE /\ Policy!Fits(Policy!Tenant, at) /\ Policy!Fits(u, at)
             /\ bucket' = [bucket EXCEPT ![Policy!Tenant] = Policy!Consumed(Policy!Tenant, at),
                                         ![u] = Policy!Consumed(u, at)]
             /\ hist' = hist \cup {q}
    <3>1. /\ Policy!Tenant \in Policy!Buckets /\ u \in Policy!Buckets /\ u # Policy!Tenant
          /\ bucket \in [Policy!Buckets -> [count : Nat, reset : Nat]]
      BY <1>1, <1>2 DEF PolicyTypes
    <3>2. \A b \in Policy!Buckets : \E count, reset \in Nat :
             Policy!Consumed(b, at) = [count |-> count, reset |-> reset]
      <4> SUFFICES ASSUME NEW b \in Policy!Buckets
                   PROVE  \E count, reset \in Nat :
                             Policy!Consumed(b, at) = [count |-> count, reset |-> reset]
        OBVIOUS
      <4>1. bucket[b] \in [count : Nat, reset : Nat]
        BY <3>1
      <4>2. /\ at + Window \in Nat /\ bucket[b].reset \in Nat /\ bucket[b].count + 1 \in Nat
            /\ 1 \in Nat
        BY <4>1, <2>1
      <4>3. \/ Policy!Consumed(b, at) = [count |-> 1, reset |-> at + Window]
            \/ Policy!Consumed(b, at) = [count |-> bucket[b].count + 1, reset |-> bucket[b].reset]
        BY DEF Policy!Consumed
      <4> HIDE DEF at
      <4>4. QED
        BY <4>2, <4>3
    <3>3. Cardinality(hist) \in Nat /\ IsFiniteSet(hist)
      BY <1>1, FS_CardinalityType DEF PolicyTypes
    <3>4. q = [user |-> u, at |-> now, n |-> Cardinality(hist),
               tenantReset |-> Policy!Consumed(Policy!Tenant, at).reset,
               userReset |-> Policy!Consumed(u, at).reset]
      BY PolicyCardinality DEF Policy!Admitted
    <3>5. q \in [user : Users, at : {now}, n : Nat, tenantReset : Nat, userReset : Nat]
      <4>1. Policy!Consumed(Policy!Tenant, at).reset \in Nat /\ Policy!Consumed(u, at).reset \in Nat
        <5> HIDE DEF at
        <5>1. QED
          BY <3>1, <3>2
      <4>2. QED
        BY <3>3, <3>4, <4>1, <2>1
    <3>6. q \notin hist
      BY <1>1, <3>3, <3>4 DEF PolicyTypes
    <3>7. IsFiniteSet(hist') /\ Cardinality(hist') = Cardinality(hist) + 1
      BY <2>4, <3>3, <3>6, FS_AddElement
    <3>8. PolicyTypes'
      <4>1. bucket' \in [Policy!Buckets -> [count : Nat, reset : Nat]]
        <5> HIDE DEF at
        <5>1. QED
          BY <2>4, <3>1, <3>2
      <4>2. hist' \subseteq [user : Users, at : Nat, n : Nat, tenantReset : Nat, userReset : Nat]
        BY <1>1, <2>1, <2>4, <3>5 DEF PolicyTypes
      <4>3. \A r \in hist' : r.at \in 1..now /\ r.n < Cardinality(hist')
        BY <1>1, <2>1, <2>4, <3>3, <3>4, <3>7 DEF PolicyTypes
      <4>4. began' \in [Users -> Nat] /\ \A v \in Users : began'[v] <= now
        BY <1>1, <2>1 DEF PolicyTypes
      <4>5. QED
        BY <1>1, <2>1, <3>7, <4>1, <4>2, <4>3, <4>4 DEF PolicyTypes, Policy!Buckets
    <3>9. ASSUME NEW b \in Policy!Buckets
          PROVE  /\ bucket'[b].count <= Policy!Budget(b)
                 /\ bucket'[b].count > 0 =>
                      \E x : bucket'[b].reset = x /\ Cardinality(InWindow(b, x)') = bucket'[b].count
                 /\ \A x \in Nat : Cardinality(InWindow(b, x)') <= Policy!Budget(b)
                 /\ \A r \in Counted(b)' :
                        Closes(r, b) <= IF bucket'[b].count > 0 THEN bucket'[b].reset ELSE now'
                 /\ \A r, s \in Counted(b)' :
                        Closes(r, b) < Closes(s, b) =>
                            r.at <= Closes(s, b) - Window + Wait /\ s.at >= Closes(r, b)
      <4>1. PICK count, reset \in Nat : Policy!Consumed(b, at) = [count |-> count, reset |-> reset]
        BY <3>2
      <4>2. CASE b \in {Policy!Tenant, u}
        <5>1. bucket'[b] = [count |-> count, reset |-> reset] /\ Policy!Fits(b, at)
          BY <2>4, <3>1, <4>1, <4>2
        <5>2. (b = Policy!Tenant \/ q.user = b) /\ Closes(q, b) = reset
          BY <3>1, <3>4, <4>1, <4>2 DEF Closes
        <5>3. hist' = hist \cup {q} /\ now' = now
          BY <2>1, <2>4
        <5>4. /\ count \in 1..Policy!Budget(b) /\ reset \in Nat
              /\ Cardinality(InWindow(b, reset)') = count
              /\ \A x \in Nat : Cardinality(InWindow(b, x)') <= Policy!Budget(b)
              /\ \A r \in Counted(b)' : Closes(r, b) <= reset
              /\ \A r, s \in Counted(b)' :
                     Closes(r, b) < Closes(s, b) =>
                         r.at <= Closes(s, b) - Window + Wait /\ s.at >= Closes(r, b)
          <6> HIDE DEF at, q
          <6>1. QED
            BY <2>1, <3>5, <3>6, <4>1, <5>1, <5>2, <5>3, AdmittedInBucket
        <5>5. Policy!Budget(b) \in Nat
          BY DEF Policy!Budget
        <5>6. QED
          BY <5>1, <5>4, <5>5
      <4>3. CASE b \notin {Policy!Tenant, u}
        <5>1. bucket'[b] = bucket[b]
          BY <2>4, <3>1, <4>3
        <5>2. Counted(b)' = Counted(b)
          BY <2>4, <3>4, <4>3 DEF Counted
        <5>3. now' \in Nat /\ now' >= now
          BY <2>1
        <5>4. QED
          BY <5>1, <5>2, <5>3, OtherBucket
      <4>4. QED
        BY <4>2, <4>3
    <3>10. QED
      BY <2>2, <3>8, <3>9, EachBucket DEF PolicyInv
  <2>5. QED
    BY <1>10, <2>3, <2>4 DEF Policy!Check, Policy!Refused
<1>11. QED
  BY <1>4, <1>5, <1>6, <1>7, <1>8, <1>9, <1>10 DEF Policy!Next

LEMMA PolicyInvariance == EachSpec => []PolicyInv
<1>1. EachInit => PolicyInv
  BY PolicyStart DEF EachInit
<1>2. PolicyInv /\ [EachNext]_every => PolicyInv'
  <2>1. [EachNext]_every => [Policy!Next]_policy
    BY DEF EachNext, every, policy
  <2>2. QED
    BY <2>1, PolicyStep
<1>3. QED
  BY <1>1, <1>2, PTL DEF EachSpec

\* A stretch of a window less the wait meets two windows at most: of three, the
\* first counts nothing after the second one's first request, which came at most
\* a wait late, and the third counts nothing before the second one is over.
LEMMA TwoWindows ==
    ASSUME PolicyInv, NEW b \in Policy!Buckets, NEW from \in Nat
    PROVE  \E x, y \in Nat :
              Policy!Spent(b, from, from + (Window - Wait)) \subseteq InWindow(b, x) \cup InWindow(b, y)
<1> DEFINE spent == Policy!Spent(b, from, from + (Window - Wait))
<1> USE PartsAssumption DEF Policy!Parameters
<1>1. spent \subseteq Counted(b) /\ \A r \in spent : r.at \in from..(from + (Window - Wait) - 1)
  <2>1. \A r \in hist : r.at \in Nat
    BY DEF PolicyInv, PolicyTypes
  <2>2. QED
    BY <2>1 DEF Policy!Spent, Counted
<1>2. \A r \in Counted(b) : Closes(r, b) \in Nat
  BY DEF Counted, Closes, PolicyInv, PolicyTypes
<1>3. \A r, s \in Counted(b) :
          Closes(r, b) < Closes(s, b) =>
              r.at <= Closes(s, b) - Window + Wait /\ s.at >= Closes(r, b)
  BY DEF PolicyInv, WindowsInOrder
<1> HIDE DEF spent
<1>4. ASSUME NEW r \in spent, NEW s \in spent, NEW t \in spent,
             Closes(r, b) < Closes(s, b), Closes(s, b) < Closes(t, b)
      PROVE  FALSE
  <2>1. r.at <= Closes(s, b) - Window + Wait /\ t.at >= Closes(s, b)
    BY <1>1, <1>3, <1>4
  <2>2. Closes(s, b) \in Nat /\ r.at \in Nat /\ t.at \in Nat
    BY <1>1, <1>2
  <2>3. r.at >= from /\ t.at < from + (Window - Wait)
    BY <1>1
  <2>4. QED
    BY <2>1, <2>2, <2>3
<1>5. CASE spent = {}
  BY <1>5 DEF spent
<1>6. CASE \E r \in spent : \A s \in spent : Closes(s, b) = Closes(r, b)
  <2>1. PICK r \in spent : \A s \in spent : Closes(s, b) = Closes(r, b)
    BY <1>6
  <2>2. spent \subseteq InWindow(b, Closes(r, b))
    BY <2>1, <1>1 DEF InWindow
  <2>3. QED
    BY <2>2, <1>1, <1>2 DEF spent
<1>7. CASE \E r, s \in spent : Closes(r, b) < Closes(s, b)
  <2>1. PICK r \in spent, s \in spent : Closes(r, b) < Closes(s, b)
    BY <1>7
  <2>2. ASSUME NEW t \in spent PROVE t \in InWindow(b, Closes(r, b)) \cup InWindow(b, Closes(s, b))
    <3>1. Closes(r, b) \in Nat /\ Closes(s, b) \in Nat /\ Closes(t, b) \in Nat
      BY <1>1, <1>2
    <3>2. ~(Closes(t, b) < Closes(r, b)) /\ ~(Closes(s, b) < Closes(t, b))
      BY <2>1, <1>4
    <3>3. ~(Closes(r, b) < Closes(t, b) /\ Closes(t, b) < Closes(s, b))
      BY <1>4
    <3>4. Closes(t, b) = Closes(r, b) \/ Closes(t, b) = Closes(s, b)
      BY <3>1, <3>2, <3>3
    <3>5. QED
      BY <3>4, <1>1 DEF InWindow
  <2>3. QED
    BY <2>2, <1>1, <1>2 DEF spent
<1>8. QED
  <2>1. \A r, s \in spent : Closes(r, b) \in Nat /\ Closes(s, b) \in Nat
    BY <1>1, <1>2
  <2>2. QED
    BY <2>1, <1>5, <1>6, <1>7

\* Two budgets at most get through in a window less the wait, however windows,
\* purges and waiting requests fall; what a bucket counts was let through; and
\* counts stay within the budget (AccessPolicy._consume, check, purge_expired).
THEOREM BudgetsAreKept == EachSpec => []BudgetsHold
<1> USE PartsAssumption DEF Policy!Parameters
<1>1. ASSUME PolicyInv PROVE Policy!TypeOK
  <2>1. /\ \A b \in Policy!Buckets : bucket[b] \in [count : Nat, reset : Nat]
        /\ \A b \in Policy!Buckets : bucket[b].count <= Policy!Budget(b)
        /\ \A u \in Users : revoked[u] \in {0, token[u]}
    BY <1>1 DEF PolicyInv, PolicyTypes, WindowsKeepBudgets, RevokedOrExpired
  <2>2. \A b : Policy!Budget(b) \in Nat
    BY DEF Policy!Budget
  <2>3. QED
    BY <2>1, <2>2 DEF Policy!TypeOK
<1>2. ASSUME PolicyInv, NEW b \in Policy!Buckets
      PROVE  \A x \in Nat : /\ IsFiniteSet(InWindow(b, x)) /\ Cardinality(InWindow(b, x)) \in Nat
                            /\ Cardinality(InWindow(b, x)) <= Policy!Budget(b)
  <2>1. \A x : InWindow(b, x) \subseteq hist
    BY DEF InWindow, Counted
  <2>2. QED
    BY <1>2, <2>1, FS_Subset, FS_CardinalityType DEF PolicyInv, PolicyTypes, WindowsKeepBudgets
<1>3. ASSUME PolicyInv PROVE Policy!TwoBudgetsAtMost
  <2> SUFFICES ASSUME NEW b \in Policy!Buckets, NEW from \in 1..now
               PROVE  Cardinality(Policy!Spent(b, from, from + (Window - Wait))) <= 2 * Policy!Budget(b)
    BY PolicyCardinality DEF Policy!TwoBudgetsAtMost
  <2> DEFINE spent == Policy!Spent(b, from, from + (Window - Wait))
  <2>1. from \in Nat /\ Policy!Budget(b) \in Nat
    BY <1>3 DEF PolicyInv, PolicyTypes, Policy!Budget
  <2>2. PICK x \in Nat, y \in Nat : spent \subseteq InWindow(b, x) \cup InWindow(b, y)
    BY <1>3, <2>1, TwoWindows
  <2> HIDE DEF spent
  <2>3. /\ IsFiniteSet(InWindow(b, x)) /\ Cardinality(InWindow(b, x)) \in Nat
        /\ Cardinality(InWindow(b, x)) <= Policy!Budget(b)
        /\ IsFiniteSet(InWindow(b, y)) /\ Cardinality(InWindow(b, y)) \in Nat
        /\ Cardinality(InWindow(b, y)) <= Policy!Budget(b)
    BY <1>2, <1>3
  <2> DEFINE both == InWindow(b, x) \cup InWindow(b, y)
             shared == InWindow(b, x) \cap InWindow(b, y)
  <2>4. /\ IsFiniteSet(both)
        /\ Cardinality(both) = Cardinality(InWindow(b, x)) + Cardinality(InWindow(b, y))
                                  - Cardinality(shared)
    BY <2>3, FS_Union
  <2>5. Cardinality(shared) \in Nat /\ Cardinality(both) \in Nat
    BY <2>3, <2>4, FS_Intersection, FS_CardinalityType
  <2>6. IsFiniteSet(spent) /\ Cardinality(spent) \in Nat /\ Cardinality(spent) <= Cardinality(both)
    BY <2>2, <2>4, FS_Subset, FS_CardinalityType
  <2> HIDE DEF both, shared
  <2>7. Cardinality(spent) <= 2 * Policy!Budget(b)
    BY <2>1, <2>3, <2>4, <2>5, <2>6
  <2>8. QED
    BY <2>7 DEF spent
<1>4. ASSUME PolicyInv PROVE Policy!OnlyAdmittedCount
  <2> SUFFICES ASSUME NEW b \in Policy!Buckets
               PROVE  bucket[b].count <= Cardinality(Policy!Spent(b, 1, now + 1))
    BY PolicyCardinality DEF Policy!OnlyAdmittedCount
  <2>1. bucket[b] \in [count : Nat, reset : Nat] /\ IsFiniteSet(hist)
    BY <1>4 DEF PolicyInv, PolicyTypes
  <2>2. Policy!Spent(b, 1, now + 1) = Counted(b)
    <3>1. \A r \in hist : r.at \in 1..now /\ now \in Nat
      BY <1>4 DEF PolicyInv, PolicyTypes
    <3>2. \A r \in hist : r.at >= 1 /\ r.at < now + 1
      BY <3>1
    <3>3. QED
      BY <3>2 DEF Policy!Spent, Counted
  <2>3. IsFiniteSet(Counted(b)) /\ Cardinality(Counted(b)) \in Nat
    <3>1. Counted(b) \subseteq hist
      BY DEF Counted
    <3>2. QED
      BY <2>1, <3>1, FS_Subset, FS_CardinalityType
  <2>4. CASE bucket[b].count > 0
    <3>1. Cardinality(InWindow(b, bucket[b].reset)) = bucket[b].count
      BY <1>4, <2>4 DEF PolicyInv, WindowsKeepBudgets
    <3>2. InWindow(b, bucket[b].reset) \subseteq Counted(b)
      BY DEF InWindow
    <3>3. Cardinality(InWindow(b, bucket[b].reset)) <= Cardinality(Counted(b))
      BY <2>3, <3>2, FS_Subset
    <3>4. QED
      BY <2>2, <3>1, <3>3
  <2>5. QED
    BY <2>1, <2>2, <2>3, <2>4
<1>5. PolicyInv => BudgetsHold
  BY <1>1, <1>3, <1>4 DEF BudgetsHold
<1>6. QED
  BY <1>5, PolicyInvariance, PTL

\* A revoked token begins no other request, also after its revocation was purged
\* (_token_hash refuses an expired one).
LEMMA RevokedTokensStayOut == EachSpec => Policy!RevokedStaysOut
<1>1. PolicyInv /\ [EachNext]_every => [\A u \in out : began'[u] # 0 => began[u] # 0]_(Policy!vars)
  <2> SUFFICES ASSUME PolicyInv, EachNext, NEW u \in out, began'[u] # 0, began[u] = 0
               PROVE  policy' = policy
    BY DEF EachNext, every, policy, Policy!vars
  <2>1. /\ u \in Users /\ began \in [Users -> Nat] /\ now \in Nat /\ token \in [Users -> Nat]
        /\ revoked[u] = token[u] \/ token[u] <= now
    BY DEF PolicyInv, PolicyTypes, RevokedOrExpired
  <2>2. ~Policy!Valid(u)
    BY <2>1 DEF Policy!Valid
  <2>3. Policy!Next \/ policy' = policy
    BY DEF EachNext, policy
  <2>4. ~Policy!Next
    BY <2>1, <2>2 DEF Policy!Next, Policy!Begin, Policy!Check, Policy!Unavailable, Policy!Revoke,
                      Policy!PurgeExpired, Policy!Tick
  <2>5. QED
    BY <2>3, <2>4
<1>2. QED
  BY <1>1, PolicyInvariance, PTL DEF EachSpec, Policy!RevokedStaysOut

-----------------------------------------------------------------------------
\* Signing keys (SigningKeys).

\* A key that was withdrawn stays out; what is cached was published when the cache
\* was last filled, which was no later than now.
KeysWithdrawn ==
    /\ \A k \in Keys : withdrawn[k] = SignedBy!Never \/ (withdrawn[k] <= kNow /\ k \notin published)
    /\ \A k \in cache : expires <= withdrawn[k] + Ttl
    /\ expires <= kNow + Ttl

\* The request that fetches holds the lock, and the fetch is the last refresh.
OneFetches ==
    /\ \A r \in Handlers : req[r].at = "fetching" => holder # SignedBy!Free /\ holder.by = r
    /\ holder # SignedBy!Free => holder.at <= kNow /\ refreshed = holder.at

\* After a fetch either the cache is young or nobody is served for a while.
LastFetch ==
    holder = SignedBy!Free =>
        \/ refreshed = -Spacing
        \/ expires >= refreshed + Ttl
        \/ unavailable >= refreshed + Spacing

KeysInv == SignedBy!TypeOK /\ refreshed <= kNow /\ KeysWithdrawn /\ OneFetches /\ LastFetch

LEMMA KeysStart == SignedBy!Init => KeysInv
<1> SUFFICES ASSUME SignedBy!Init PROVE KeysInv
  OBVIOUS
<1> USE PartsAssumption DEF SignedBy!Parameters, SignedBy!Init
<1>1. (CHOOSE k \in Keys : TRUE) \in Keys
  OBVIOUS
<1>2. SignedBy!TypeOK /\ refreshed <= kNow
  BY <1>1 DEF SignedBy!TypeOK, SignedBy!Never
<1>3. KeysWithdrawn
  BY DEF KeysWithdrawn
<1>4. OneFetches /\ LastFetch
  BY DEF OneFetches, LastFetch
<1>5. QED
  BY <1>2, <1>3, <1>4 DEF KeysInv

LEMMA KeysStep == KeysInv /\ [SignedBy!Next]_keys => KeysInv'
<1> SUFFICES ASSUME KeysInv, [SignedBy!Next]_keys PROVE KeysInv'
  OBVIOUS
<1> USE PartsAssumption DEF SignedBy!Parameters, KeysInv, SignedBy!TypeOK, KeysWithdrawn, OneFetches,
        LastFetch, SignedBy!Never, SignedBy!Free, SignedBy!To, SignedBy!provider, SignedBy!instants
<1>1. ASSUME NEW r \in Handlers, SignedBy!Arrive(r) PROVE KeysInv'
  BY <1>1 DEF SignedBy!Arrive
<1>2. ASSUME NEW r \in Handlers, SignedBy!Enter(r) PROVE KeysInv'
  BY <1>2 DEF SignedBy!Enter, SignedBy!Refresh, SignedBy!Verdict
<1>3. ASSUME NEW r \in Handlers, SignedBy!Fetched(r) PROVE KeysInv'
  BY <1>3 DEF SignedBy!Fetched, SignedBy!Verdict, SignedBy!Replaced
<1>4. ASSUME NEW r \in Handlers, SignedBy!FetchFails(r) PROVE KeysInv'
  BY <1>4 DEF SignedBy!FetchFails
<1>5. ASSUME NEW k \in Keys, SignedBy!Publish(k) PROVE KeysInv'
  BY <1>5 DEF SignedBy!Publish
<1>6. ASSUME NEW k \in Keys, SignedBy!Withdraw(k) PROVE KeysInv'
  BY <1>6 DEF SignedBy!Withdraw
<1>7. CASE SignedBy!Tick
  BY <1>7 DEF SignedBy!Tick
<1>8. CASE UNCHANGED keys
  BY <1>8 DEF keys
<1>9. QED
  BY <1>1, <1>2, <1>3, <1>4, <1>5, <1>6, <1>7, <1>8 DEF SignedBy!Next

LEMMA KeysInvariance == EachSpec => []KeysInv
<1>1. EachInit => KeysInv
  BY KeysStart DEF EachInit
<1>2. KeysInv /\ [EachNext]_every => KeysInv'
  <2>1. [EachNext]_every => [SignedBy!Next]_keys
    BY DEF EachNext, every, keys
  <2>2. QED
    BY <2>1, KeysStep
<1>3. QED
  BY <1>1, <1>2, PTL DEF EachSpec

\* A withdrawn key is accepted no longer than the cache lives, two fetches are
\* spaced, and a published key is refused only just after one (JWTAuthenticator).
LEMMA KeysAreCurrent ==
    EachSpec => /\ SignedBy!WithdrawnKeyLapses /\ SignedBy!FetchesAreSpaced
                /\ SignedBy!RotationIsPickedUp /\ []SignedBy!TypeOK
<1> USE PartsAssumption DEF SignedBy!Parameters
<1>1. [EachNext]_every => SignedBy!Next \/ UNCHANGED keys
  BY DEF EachNext, every, keys
<1>2. KeysInv /\ [EachNext]_every =>
        [\A r \in Handlers : req[r].at # "accepted" /\ req'[r].at = "accepted"
            => kNow < withdrawn[req[r].kid] + Ttl]_(SignedBy!vars)
  <2> SUFFICES ASSUME KeysInv, SignedBy!Next, NEW r \in Handlers,
                      req[r].at # "accepted", req'[r].at = "accepted"
               PROVE  kNow < withdrawn[req[r].kid] + Ttl
    BY <1>1 DEF keys, SignedBy!vars
  <2> USE DEF KeysInv, SignedBy!TypeOK, KeysWithdrawn, OneFetches, SignedBy!Never, SignedBy!To
  <2>1. SignedBy!Enter(r) \/ SignedBy!Fetched(r)
    BY DEF SignedBy!Next, SignedBy!Arrive, SignedBy!Enter, SignedBy!Fetched, SignedBy!FetchFails,
           SignedBy!Publish, SignedBy!Withdraw, SignedBy!Tick
  <2>2. CASE SignedBy!Enter(r)
    BY <2>2 DEF SignedBy!Enter, SignedBy!Refresh, SignedBy!Verdict
  <2>3. CASE SignedBy!Fetched(r)
    BY <2>3 DEF SignedBy!Fetched, SignedBy!Verdict, SignedBy!Replaced
  <2>4. QED
    BY <2>1, <2>2, <2>3
<1>3. KeysInv /\ [EachNext]_every =>
        [holder = SignedBy!Free /\ holder' # SignedBy!Free
            => kNow - refreshed >= (IF Spacing < Ttl THEN Spacing ELSE Ttl)]_(SignedBy!vars)
  <2> SUFFICES ASSUME KeysInv, SignedBy!Next, holder = SignedBy!Free, holder' # SignedBy!Free
               PROVE  kNow - refreshed >= (IF Spacing < Ttl THEN Spacing ELSE Ttl)
    BY <1>1 DEF keys, SignedBy!vars, SignedBy!Free
  <2>1. PICK r \in Handlers : SignedBy!Enter(r)
    BY DEF SignedBy!Next, SignedBy!Arrive, SignedBy!Enter, SignedBy!Fetched, SignedBy!FetchFails,
           SignedBy!Publish, SignedBy!Withdraw, SignedBy!Tick
  <2>2. kNow >= unavailable /\ SignedBy!Refresh(r)
    BY <2>1 DEF SignedBy!Enter, KeysInv, SignedBy!TypeOK
  <2>3. QED
    BY <2>2 DEF SignedBy!Refresh, KeysInv, SignedBy!TypeOK, LastFetch
<1>4. KeysInv /\ [EachNext]_every =>
        [\A r \in Handlers : req[r].at # "refused" /\ req'[r].at = "refused" /\ req[r].kid \in published
            => kNow - refreshed < Spacing]_(SignedBy!vars)
  <2> SUFFICES ASSUME KeysInv, SignedBy!Next, NEW r \in Handlers, req[r].at # "refused",
                      req'[r].at = "refused", req[r].kid \in published
               PROVE  kNow - refreshed < Spacing
    BY <1>1 DEF keys, SignedBy!vars
  <2> USE DEF KeysInv, SignedBy!TypeOK, SignedBy!To
  <2>1. SignedBy!Enter(r) \/ SignedBy!Fetched(r)
    BY DEF SignedBy!Next, SignedBy!Arrive, SignedBy!Enter, SignedBy!Fetched, SignedBy!FetchFails,
           SignedBy!Publish, SignedBy!Withdraw, SignedBy!Tick
  <2>2. CASE SignedBy!Enter(r)
    BY <2>2 DEF SignedBy!Enter, SignedBy!Refresh, SignedBy!Verdict
  <2>3. CASE SignedBy!Fetched(r)
    BY <2>3 DEF SignedBy!Fetched, SignedBy!Verdict, SignedBy!Replaced
  <2>4. QED
    BY <2>1, <2>2, <2>3
<1>5. KeysInv => SignedBy!TypeOK
  BY DEF KeysInv
<1>6. QED
  BY <1>2, <1>3, <1>4, <1>5, KeysInvariance, PTL
  DEF EachSpec, SignedBy!WithdrawnKeyLapses, SignedBy!FetchesAreSpaced, SignedBy!RotationIsPickedUp

-----------------------------------------------------------------------------
\* Credentials of the workload (WorkloadCredentials).

LEMMA WorkloadCardinality == \A S : Workload!Cardinality(S) = Cardinality(S)
BY DEF Workload!Cardinality, Cardinality

LEMMA UrlTimesAreNumbers ==
    /\ \A x \in {0} \cup UrlTimes : x \in Nat
    /\ \A e \in Workload!Entries \cup {Workload!NoEntry} : e.until \in 0..WorkTime
<1>1. UrlTimes \subseteq Nat \ {0} /\ WorkTime \in Nat
  BY PartsAssumption DEF Workload!Parameters
<1>2. \A x \in {0} \cup UrlTimes : x \in Nat
  BY <1>1
<1>3. \A e \in Workload!Entries \cup {Workload!NoEntry} : e.until \in 0..WorkTime
  BY <1>1 DEF Workload!Entries, Workload!NoEntry
<1>4. QED
  BY <1>2, <1>3

WorkTypes ==
    /\ Workload!TypeOK
    /\ IsFiniteSet(wCache) /\ Cardinality(wCache) <= MaxCache

\* Credentials were granted for a genuine token, and a client outlives what it is
\* for: it is used within Reserve of its resolution.
CredentialsOutlive ==
    /\ \A e \in wCache : e.token \notin ForgedCredentials
    /\ \A r \in Handlers : wReq[r].at = "client" =>
          /\ wReq[r].token \notin ForgedCredentials
          /\ wNow <= wReq[r].since + Reserve
          /\ wReq[r].url # 0 => wReq[r].got.until > wReq[r].since + wReq[r].url + Reserve

WorkInv == WorkTypes /\ CredentialsOutlive /\ Workload!UrlsWorkAsLong

LEMMA WorkStart == Workload!Init => WorkInv
<1> SUFFICES ASSUME Workload!Init PROVE WorkInv
  OBVIOUS
<1> USE PartsAssumption DEF Workload!Parameters, Workload!Init
<1>1. (CHOOSE t \in Credentials : TRUE) \in Credentials
  OBVIOUS
<1>2. Workload!TypeOK
  BY <1>1 DEF Workload!TypeOK, Workload!Idle, Workload!NoEntry, Workload!Entries
<1>3. WorkTypes
  BY <1>2, FS_EmptySet DEF WorkTypes
<1>4. CredentialsOutlive /\ Workload!UrlsWorkAsLong
  BY DEF CredentialsOutlive, Workload!UrlsWorkAsLong, Workload!Idle
<1>5. QED
  BY <1>3, <1>4 DEF WorkInv

\* The cache has room for one entry more, or the oldest makes room.
LEMMA WithRoomFits ==
    ASSUME NEW c, NEW e, IsFiniteSet(c), Cardinality(c) <= MaxCache,
           NEW d \in Workload!WithRoom(c, e)
    PROVE  d \subseteq c \cup {e} /\ IsFiniteSet(d) /\ Cardinality(d) <= MaxCache
<1> USE PartsAssumption DEF Workload!Parameters
<1>1. Cardinality(c) \in Nat
  BY FS_CardinalityType
<1>2. CASE Cardinality(c) < MaxCache
  <2>1. d = c \cup {e}
    BY <1>2, WorkloadCardinality DEF Workload!WithRoom
  <2>2. IsFiniteSet(c \cup {e}) /\ Cardinality(c \cup {e}) <= Cardinality(c) + 1
    <3>1. /\ IsFiniteSet(c \cup {e})
          /\ Cardinality(c \cup {e}) = IF e \in c THEN Cardinality(c) ELSE Cardinality(c) + 1
      BY FS_AddElement
    <3>2. QED
      BY <1>1, <3>1
  <2>3. QED
    BY <1>1, <1>2, <2>1, <2>2, FS_CardinalityType
<1>3. CASE ~(Cardinality(c) < MaxCache)
  <2>1. PICK old \in c : d = (c \ {old}) \cup {e}
    BY <1>3, WorkloadCardinality DEF Workload!WithRoom
  <2>2. IsFiniteSet(c \ {old}) /\ Cardinality(c \ {old}) = Cardinality(c) - 1
    BY FS_RemoveElement
  <2>3. IsFiniteSet((c \ {old}) \cup {e}) /\ Cardinality((c \ {old}) \cup {e}) <= Cardinality(c)
    <3> DEFINE less == c \ {old}
    <3>1. /\ IsFiniteSet(less \cup {e})
          /\ Cardinality(less \cup {e}) = IF e \in less THEN Cardinality(less) ELSE Cardinality(less) + 1
      BY <2>2, FS_AddElement
    <3>2. QED
      BY <1>1, <2>2, <3>1
  <2>4. QED
    BY <1>1, <2>1, <2>3, FS_CardinalityType
<1>4. QED
  BY <1>2, <1>3

LEMMA WorkStep == WorkInv /\ [Workload!Next]_workload => WorkInv'
<1> SUFFICES ASSUME WorkInv, [Workload!Next]_workload PROVE WorkInv'
  OBVIOUS
<1> USE PartsAssumption DEF Workload!Parameters, WorkInv
<1>0. (CHOOSE t \in Credentials : TRUE) \in Credentials
  OBVIOUS
<1>1. ASSUME NEW r \in Handlers, Workload!Check(r) PROVE WorkInv'
  BY <1>1 DEF Workload!Check, WorkTypes, Workload!TypeOK, Workload!Entries, Workload!NoEntry,
              CredentialsOutlive, Workload!UrlsWorkAsLong
<1>2. ASSUME NEW r \in Handlers, Workload!Use(r) PROVE WorkInv'
  <2> USE DEF WorkTypes, Workload!TypeOK, Workload!End, Workload!Use, CredentialsOutlive
  <2>1. Workload!Idle \in [at : {"idle"}, token : Credentials, url : {0}, got : {Workload!NoEntry},
                           since : {0}]
    BY <1>0 DEF Workload!Idle
  <2>2. wReq' \in [Handlers -> [at : {"idle", "checked", "client"}, token : Credentials,
                                url : {0} \cup UrlTimes, got : Workload!Entries \cup {Workload!NoEntry},
                                since : 0..WorkTime]]
    BY <1>2, <2>1
  <2>3. \A u \in urls' : u \in [meant : Int, works : 0..WorkTime] /\ u.works >= u.meant
    <3>0. wReq[r] \in [at : {"idle", "checked", "client"}, token : Credentials,
                       url : {0} \cup UrlTimes, got : Workload!Entries \cup {Workload!NoEntry},
                       since : 0..WorkTime]
      OBVIOUS
    <3>1. /\ wReq[r].url \in {0} \cup UrlTimes /\ wReq[r].since \in 0..WorkTime
          /\ wReq[r].got \in Workload!Entries \cup {Workload!NoEntry}
      BY <3>0
    <3>2. wReq[r].url \in Nat /\ wReq[r].got.until \in 0..WorkTime
      BY ONLY <3>1, UrlTimesAreNumbers
    <3>3. QED
      BY <1>2, <3>1, <3>2 DEF Workload!UrlsWorkAsLong
  <2>4. \A h \in Handlers : wReq'[h] = wReq[h] \/ wReq'[h].at = "idle"
    BY <1>2, <2>1
  <2>5. CredentialsOutlive'
    BY <1>2, <2>4
  <2>6. QED
    BY <1>2, <2>2, <2>3, <2>5 DEF Workload!UrlsWorkAsLong, Workload!Entries
<1>3. CASE Workload!Close
  BY <1>3, FS_EmptySet DEF Workload!Close, WorkTypes, Workload!TypeOK, Workload!Entries,
              CredentialsOutlive, Workload!UrlsWorkAsLong
<1>4. CASE Workload!Tick
  BY <1>4 DEF Workload!Tick, WorkTypes, Workload!TypeOK, Workload!Entries, Workload!NoEntry,
              CredentialsOutlive, Workload!UrlsWorkAsLong
<1>5. CASE UNCHANGED workload
  BY <1>5 DEF workload, WorkTypes, Workload!TypeOK, CredentialsOutlive, Workload!UrlsWorkAsLong
<1>6. ASSUME NEW r \in Handlers, Workload!Resolve(r) PROVE WorkInv'
  <2> DEFINE t == wReq[r].token
             fresh == {e \in Workload!OfToken(Workload!Purged, t) : e.until > wNow + Workload!Needed(r)}
             ended == [wReq EXCEPT ![r] = Workload!Idle]
             RequestType == [at : {"idle", "checked", "client"}, token : Credentials,
                             url : {0} \cup UrlTimes, got : Workload!Entries \cup {Workload!NoEntry},
                             since : 0..WorkTime]
  <2>1. /\ wReq \in [Handlers -> RequestType] /\ wNow \in 0..WorkTime
        /\ UNCHANGED <<wNow, tokenEnd, urls>> /\ wReq[r].at = "checked" /\ t \in Credentials
    BY <1>6 DEF Workload!Resolve, WorkTypes, Workload!TypeOK
  <2>0. wReq[r] \in RequestType /\ wReq[r].url \in Nat /\ Workload!Needed(r) \in Nat
    <3>1. wReq[r] \in RequestType
      BY <2>1
    <3>2. wReq[r].url \in {0} \cup UrlTimes
      BY <3>1
    <3>3. wReq[r].url \in Nat
      BY ONLY <3>2, UrlTimesAreNumbers
    <3>4. QED
      BY <3>1, <3>3 DEF Workload!Needed
  <2>2. /\ wCache \subseteq Workload!Entries /\ IsFiniteSet(wCache) /\ Cardinality(wCache) <= MaxCache
        /\ \A e \in wCache : e.token \notin ForgedCredentials
    BY DEF WorkTypes, Workload!TypeOK, CredentialsOutlive
  <2>3. ASSUME NEW c, c \subseteq wCache PROVE IsFiniteSet(c) /\ Cardinality(c) <= MaxCache
    BY <2>2, <2>3, FS_Subset, FS_CardinalityType
  <2>4. Workload!UrlsWorkAsLong'
    BY <2>1 DEF Workload!UrlsWorkAsLong
  <2>5. ASSUME wReq' = ended, wCache' \subseteq wCache PROVE WorkInv'
    <3>1. wReq' \in [Handlers -> RequestType]
      BY <1>0, <2>1, <2>5 DEF Workload!Idle
    <3>2. \A h \in Handlers : wReq'[h] = wReq[h] \/ wReq'[h].at = "idle"
      BY <2>1, <2>5 DEF Workload!Idle
    <3>3. IsFiniteSet(wCache') /\ Cardinality(wCache') <= MaxCache
      BY <2>3, <2>5
    <3>4. WorkTypes'
      BY <2>1, <2>2, <2>5, <3>1, <3>3 DEF WorkTypes, Workload!TypeOK, Workload!Entries
    <3>5. CredentialsOutlive'
      BY <2>1, <2>2, <2>5, <3>2 DEF CredentialsOutlive
    <3>6. QED
      BY <2>4, <3>4, <3>5
  <2>6. ASSUME NEW e \in Workload!Entries, e.token = t, t \notin ForgedCredentials,
               e.until > wNow + Workload!Needed(r),
               wCache' \in Workload!WithRoom(Workload!Others(Workload!Purged, t), e),
               wReq' = [wReq EXCEPT ![r].at = "client", ![r].got = e, ![r].since = wNow]
        PROVE  WorkInv'
    <3> DEFINE c == Workload!Others(Workload!Purged, t)
    <3>1. c \subseteq wCache
      BY DEF Workload!Others, Workload!Purged
    <3>2. IsFiniteSet(c) /\ Cardinality(c) <= MaxCache
      BY <3>1, <2>3
    <3> HIDE DEF c
    <3>3. wCache' \subseteq c \cup {e} /\ IsFiniteSet(wCache') /\ Cardinality(wCache') <= MaxCache
      BY <2>6, <3>2, WithRoomFits DEF c
    <3>4. /\ wReq' \in [Handlers -> RequestType]
          /\ wReq'[r] = [wReq[r] EXCEPT !.at = "client", !.got = e, !.since = wNow]
          /\ \A h \in Handlers \ {r} : wReq'[h] = wReq[h]
      <4>1. [wReq[r] EXCEPT !.at = "client", !.got = e, !.since = wNow] \in RequestType
        BY <2>0, <2>1, <2>6
      <4> HIDE DEF RequestType
      <4>2. QED
        BY <2>1, <2>6, <4>1
    <3>5. WorkTypes'
      BY <2>1, <2>2, <2>6, <3>1, <3>3, <3>4 DEF WorkTypes, Workload!TypeOK, Workload!Entries
    <3>6. wReq[r].url # 0 => e.until > wNow + wReq[r].url + Reserve
      <4>1. wReq[r].url \in Nat /\ e.until \in Nat
        BY <2>0, <2>6 DEF Workload!Entries
      <4>2. QED
        BY <2>1, <2>6, <4>1 DEF Workload!Needed
    <3>7. /\ wReq'[r].token = t /\ wReq'[r].since = wNow /\ wReq'[r].url = wReq[r].url
          /\ wReq'[r].got = e
      BY <3>4, <2>1
    <3>8. \A x \in wCache' : x.token \notin ForgedCredentials
      BY <2>2, <2>6, <3>1, <3>3
    <3>9. CredentialsOutlive'
      BY <2>1, <2>6, <3>4, <3>6, <3>7, <3>8 DEF CredentialsOutlive
    <3>10. QED
      BY <2>4, <3>5, <3>9
  <2>7. CASE wNow >= tokenEnd[t] /\ Workload!End(r) /\ UNCHANGED wCache
    BY <2>5, <2>7 DEF Workload!End
  <2>8. CASE Workload!End(r) /\ wCache' = Workload!Purged
    BY <2>5, <2>8 DEF Workload!End, Workload!Purged
  <2>9. CASE \E e \in {[f EXCEPT !.used = wNow] :
                          f \in IF fresh # {} THEN fresh
                                ELSE Workload!Established(t, Workload!Needed(r))} :
                 /\ wCache' \in Workload!WithRoom(Workload!Others(Workload!Purged, t), e)
                 /\ wReq' = [wReq EXCEPT ![r].at = "client", ![r].got = e, ![r].since = wNow]
    <3>1. PICK f \in fresh \cup Workload!Established(t, Workload!Needed(r)) :
             /\ wCache' \in Workload!WithRoom(Workload!Others(Workload!Purged, t), [f EXCEPT !.used = wNow])
             /\ wReq' = [wReq EXCEPT ![r].at = "client", ![r].got = [f EXCEPT !.used = wNow],
                                     ![r].since = wNow]
      <4>1. PICK e \in {[f EXCEPT !.used = wNow] :
                          f \in IF fresh # {} THEN fresh
                                ELSE Workload!Established(t, Workload!Needed(r))} :
                 /\ wCache' \in Workload!WithRoom(Workload!Others(Workload!Purged, t), e)
                 /\ wReq' = [wReq EXCEPT ![r].at = "client", ![r].got = e, ![r].since = wNow]
        BY <2>9
      <4>2. PICK f \in fresh \cup Workload!Established(t, Workload!Needed(r)) :
               e = [f EXCEPT !.used = wNow]
        OBVIOUS
      <4>3. QED
        BY <4>1, <4>2
    <3>2. /\ f \in Workload!Entries /\ f.token = t /\ t \notin ForgedCredentials
          /\ f.until > wNow + Workload!Needed(r)
      <4>1. CASE f \in fresh
        BY <4>1, <2>2 DEF Workload!OfToken, Workload!Purged
      <4>2. CASE f \in Workload!Established(t, Workload!Needed(r))
        <5>1. PICK life \in Lifetimes :
                 /\ t \notin ForgedCredentials /\ life > Workload!Needed(r) /\ wNow + life <= WorkTime
                 /\ f = [token |-> t, until |-> wNow + life, used |-> wNow]
          BY <4>2 DEF Workload!Established
        <5>2. Workload!Needed(r) \in Nat
          BY <2>0
        <5>3. QED
          BY <2>1, <5>1, <5>2 DEF Workload!Entries
      <4>3. QED
        BY <3>1, <4>1, <4>2
    <3> DEFINE e == [f EXCEPT !.used = wNow]
    <3>3. e \in Workload!Entries /\ e.token = t /\ e.until > wNow + Workload!Needed(r)
      BY <2>1, <3>2 DEF Workload!Entries
    <3> HIDE DEF e
    <3>4. QED
      BY <2>6, <3>1, <3>2, <3>3 DEF e
  <2>10. QED
    BY <1>6, <2>7, <2>8, <2>9 DEF Workload!Resolve
<1>7. QED
  BY <1>1, <1>2, <1>3, <1>4, <1>5, <1>6 DEF Workload!Next

\* Signed URLs work as long as they were meant to, a forged token gets nothing,
\* and the cache keeps to its size (VercelAWSCredentials).
LEMMA WorkloadIsServed ==
    EachSpec => [](/\ Workload!TypeOK /\ Workload!UrlsWorkAsLong
                   /\ Workload!ForgedGetsNothing /\ Workload!CacheIsBounded)
<1>1. EachInit => WorkInv
  BY WorkStart DEF EachInit
<1>2. WorkInv /\ [EachNext]_every => WorkInv'
  <2>1. [EachNext]_every => [Workload!Next]_workload
    BY DEF EachNext, every, workload
  <2>2. QED
    BY <2>1, WorkStep
<1>3. WorkInv => /\ Workload!TypeOK /\ Workload!UrlsWorkAsLong
                 /\ Workload!ForgedGetsNothing /\ Workload!CacheIsBounded
  BY WorkloadCardinality
  DEF WorkInv, WorkTypes, CredentialsOutlive, Workload!ForgedGetsNothing, Workload!CacheIsBounded
<1>4. QED
  BY <1>1, <1>2, <1>3, PTL DEF EachSpec

\* What was withdrawn lapses, and what was handed out works as long as it was
\* meant to: access_policy.py, auth.py and aws_identity.py together.
THEOREM WithdrawnCredentialsLapse == EachSpec => CredentialsLapse
BY RevokedTokensStayOut, KeysAreCurrent, WorkloadIsServed, PTL DEF CredentialsLapse
=============================================================================
