-------------------------- MODULE OutputStorageProofs --------------------------
(* Proofs about OutputStorage: every object is charged to one row, and what   *)
(* exists or was promised fits in the quota.                                  *)
(*                                                                            *)
(* The invariant says what each key, media row and job may be in; `Rows` is   *)
(* kept by every action, one lemma each.  The quota is a second induction, on *)
(* sums over all rows; the sums come first.                                   *)
EXTENDS MCStorage, FiniteSetTheorems, NaturalsInduction, WellFoundedInduction, TLAPS

Statuses == {"absent", "uploading", "importing", "validating", "ready", "failed", "deleting", "deleted"}
AMedia == [status : Statuses, bytes : Nat, key : Keys \cup {NoKey}, created : Nat]
States == {"absent", "queued", "active", "stopping", "ended", "gone"}
AJob == [state : States, media : Media \cup {NoMedia},
         version : Nat, budget : Nat, held : Nat, output : OutputKeys \cup {NoKey}, bytes : Nat]
APut == [status : {"none", "pending", "committed"}, bytes : Nat, expires : Nat]
ADeletion == [at : Nat \cup {Never}, tries : 0..MaxFailures]
Types ==
    /\ now \in 0..Horizon
    /\ media \in [Media -> AMedia]
    /\ job \in [Jobs -> AJob]
    /\ put \in [OutputKeys -> APut]
    /\ deletion \in [Keys -> ADeletion]
    /\ url \in [Keys -> Nat \cup {Never}]
    /\ object \in SUBSET Keys /\ belated \in SUBSET object /\ verified \in SUBSET Keys /\ removed \in SUBSET Keys

\* No signed URL was given out for the key, and nothing has it.
Unused(k) == url[k] = Never /\ k \notin object \cup verified \cup removed /\ deletion[k].at = Never
\* The object of the key does not exist, or it came too late.
Lost(k) == url[k] <= now /\ (k \in object => k \in belated)
ToBeDeleted(k) == deletion[k].at # Never
\* The key of the upload of attempt 1, the only one, of an import.
Fetched(i) == <<i, 1>>
IsCurrent(k) == job[k[1]].state \in Running /\ k[2] = job[k[1]].version

JobRow(j) ==
    /\ job[j].version <= Tries(j) /\ job[j].held <= job[j].budget
    /\ job[j].state = "absent" => job[j].version = 0 /\ job[j].budget = 0
    /\ job[j].state \in Running => job[j].version > 0
    /\ job[j].state \in {"ended", "gone"} => job[j].held = 0
    /\ job[j].output = NoKey => job[j].bytes = 0
    /\ job[j].output # NoKey => j \in Locals /\ job[j].state = "ended" /\ job[j].output[1] = j
    /\ job[j].state \in Running /\ put[Key(j)].status = "none" => job[j].held = job[j].budget
    /\ job[j].state \in Unfinished => job[j].media \in Media
    /\ job[j].state \in Unfinished /\ j \in Locals => media[job[j].media].status = "ready"
    /\ job[j].state \in Unfinished /\ j \in Imports => job[j].media = j /\ media[j].status = "importing"
JobRows == \A j \in Jobs : JobRow(j)

MediaRow(m) ==
    /\ media[m].created <= now
    /\ (media[m].status = "absent") = (media[m].key = NoKey)
    /\ media[m].status # "absent" => media[m].key = MediaKey(m) \/ (m \in Imports /\ media[m].key = Fetched(m))
    /\ media[m].status \in {"uploading", "validating"} => m \in Uploads
    /\ media[m].status = "ready" /\ m \in Imports => media[m].key = Fetched(m)
    /\ media[m].status = "importing" => media[m].key = MediaKey(m)
    /\ media[m].status \in {"absent", "importing"} => media[m].bytes = 0
MediaRows == \A m \in Media : MediaRow(m)

UploadKey(m) ==
    LET k == MediaKey(m)
    IN  /\ media[m].status = "absent" => Unused(k)
        /\ url[k] <= media[m].created + Ttl
        /\ media[m].status = "uploading" /\ k \in verified => k \in object
        /\ media[m].status \in {"validating", "ready"} => k \in object
        /\ media[m].status = "deleted" => Lost(k)
UploadKeys == \A m \in Uploads : UploadKey(m)

ImportKey(i) == LET k == MediaKey(i) IN url[k] = Never /\ k \notin object
ImportKeys == \A i \in Imports : ImportKey(i)

PendingKey(k) ==
    put[k].status = "pending" =>
        /\ url[k] <= put[k].expires
        /\ k[2] <= job[k[1]].version
        /\ k \in verified /\ ~ToBeDeleted(k) => k \in object
        /\ job[k[1]].output # k
        /\ k[1] \in Imports => media[k[1]].key # k
CommittedKey(k) ==
    put[k].status = "committed" =>
        /\ url[k] <= put[k].expires
        /\ k[2] <= job[k[1]].version
        /\ job[k[1]].state \in {"ended", "gone"}
        /\ ToBeDeleted(k) \/ k \in object
        /\ k[1] \in Locals => job[k[1]].output = k /\ job[k[1]].bytes = put[k].bytes
        /\ k[1] \in Imports =>
               /\ media[k[1]].key = k /\ media[k[1]].bytes = put[k].bytes
               /\ media[k[1]].status \in {"ready", "deleting"}
FreeKey(k) ==
    put[k].status = "none" =>
        /\ put[k].bytes = 0 /\ put[k].expires = 0
        /\ Lost(k) /\ ~ToBeDeleted(k)
        /\ IsCurrent(k) \/ k[2] > job[k[1]].version => Unused(k)
        /\ job[k[1]].output # k
        /\ k[1] \in Imports /\ media[k[1]].key = k => media[k[1]].status = "deleted"
Future(k) == k[2] > job[k[1]].version => put[k].status = "none"
OutputRows == \A k \in OutputKeys : PendingKey(k) /\ CommittedKey(k) /\ FreeKey(k) /\ Future(k)

Deletion(k) ==
    /\ k \in removed => ToBeDeleted(k) /\ Lost(k)
    /\ ToBeDeleted(k) =>
         /\ url[k] <= deletion[k].at
         /\ k \in OutputKeys => ~IsCurrent(k)
         /\ \A m \in Media : media[m].key = k => media[m].status = "deleting"
         /\ k \notin OutputKeys => media[k[1]].key = k
Deletions == \A k \in Keys : Deletion(k)

-----------------------------------------------------------------------------
(* Keys and the largest of a finite set.                                      *)

\* A set of numbers that is not empty has a least element.
LEMMA LeastExists ==
    ASSUME NEW S \in SUBSET Nat, S # {}
    PROVE  \E x \in S : \A y \in S : x <= y
<1> DEFINE R == {p \in Nat \X Nat : p[1] < p[2]}
<1>1. IsWellFoundedOn(R, Nat)
  BY NatLessThanWellFounded, Zenon DEF OpToRel
<1>2. \E x \in S : \A y \in S : ~(<<y, x>> \in R)
  <2> HIDE DEF R
  <2> QED BY <1>1, WFMin
<1>3. ASSUME NEW x \in Nat, NEW y \in Nat, ~(<<y, x>> \in R) PROVE x <= y
  BY <1>3
<1>4. PICK x \in S : \A y \in S : ~(<<y, x>> \in R)
  <2> HIDE DEF R
  <2> QED BY <1>2
<1>5. \A y \in S : x <= y
  <2> HIDE DEF R
  <2> QED BY <1>3, <1>4
<1>6. QED
  BY <1>5

\* Induction over the subsets of a finite set: what fails of some, fails of one
\* all of whose proper subsets are right.
LEMMA SmallestSubset ==
    ASSUME NEW S, IsFiniteSet(S), NEW Bad \in SUBSET SUBSET S, Bad # {}
    PROVE  \E T \in Bad : /\ IsFiniteSet(T) /\ T \subseteq S
                          /\ \A x \in T : T \ {x} \notin Bad
<1> DEFINE Counts == {Cardinality(T) : T \in Bad}
<1>1. \A T \in Bad : IsFiniteSet(T) /\ T \subseteq S /\ Cardinality(T) \in Nat
  BY FS_Subset, FS_CardinalityType
<1>2. Counts \in SUBSET Nat /\ Counts # {}
  BY <1>1
<1>3. PICK n \in Counts : \A k \in Counts : n <= k
  <2> HIDE DEF Counts
  <2> QED BY <1>2, LeastExists
<1>4. PICK T \in Bad : n = Cardinality(T)
  BY <1>3
<1>5. ASSUME NEW x \in T, T \ {x} \in Bad PROVE FALSE
  <2>1. Cardinality(T \ {x}) = Cardinality(T) - 1
    BY <1>1, <1>4, FS_RemoveElement
  <2>2. Cardinality(T) <= Cardinality(T \ {x})
    BY <1>3, <1>4, <1>5
  <2>3. QED
    BY <1>1, <1>4, <2>1, <2>2
<1>6. QED
  BY <1>1, <1>4, <1>5

LEMMA KeyFacts ==
    /\ OutputKeys \subseteq Keys /\ NoKey \notin Keys
    /\ \A k \in OutputKeys : k[1] \in Jobs /\ k[2] \in 1..Attempts
    /\ \A k, l \in OutputKeys : k[1] = l[1] /\ k[2] = l[2] => k = l
    /\ \A j \in Jobs, v \in 1..Attempts :
          <<j, v>> \in OutputKeys /\ <<j, v>>[1] = j /\ <<j, v>>[2] = v
    /\ \A m \in Media : MediaKey(m) \in Keys \ OutputKeys /\ MediaKey(m)[1] = m
    /\ \A k \in Keys \ OutputKeys : k[1] \in Media /\ k = MediaKey(k[1])
BY StorageAssumption DEF OutputKeys, Keys, MediaKey, NoKey

\* A finite set of numbers that is not empty has a largest element.
LEMMA LargestExists ==
    ASSUME NEW S, IsFiniteSet(S), S \subseteq Int, S # {}
    PROVE  Max(S) \in S /\ \A x \in S : x <= Max(S)
<1> DEFINE Bad == {T \in SUBSET S : T # {} /\ ~ \E x \in T : \A y \in T : y <= x}
<1>1. Bad = {}
  <2> SUFFICES ASSUME Bad # {} PROVE FALSE
    OBVIOUS
  <2>1. PICK T \in Bad : IsFiniteSet(T) /\ \A x \in T : T \ {x} \notin Bad
    <3> Bad \in SUBSET SUBSET S
      OBVIOUS
    <3> HIDE DEF Bad
    <3> QED BY SmallestSubset
  <2>2. PICK x \in T : x \in Int
    OBVIOUS
  <2>3. CASE T \ {x} = {}
    BY <2>2, <2>3
  <2>4. CASE T \ {x} # {}
    <3>1. PICK y \in T \ {x} : \A z \in T \ {x} : z <= y
      BY <2>1, <2>4
    <3>2. y \in Int
      OBVIOUS
    <3>3. QED
      BY <2>2, <3>1, <3>2
  <2>5. QED
    BY <2>3, <2>4
<1>2. \E x \in S : \A y \in S : y <= x
  BY <1>1
<1>3. QED
  BY <1>2 DEF Max

LEMMA NotBeforeIsLate ==
    ASSUME Types, NEW k \in Keys
    PROVE  /\ NotBefore(k) \in Nat /\ now <= NotBefore(k)
           /\ k \in OutputKeys /\ put[k].status # "none" => put[k].expires <= NotBefore(k)
           /\ \A m \in Media : media[m].key = k => media[m].created + Ttl <= NotBefore(k)
<1> DEFINE reserved == IF k \in OutputKeys /\ put[k].status # "none" THEN put[k].expires ELSE 0
           named == {m \in Media : media[m].key = k}
           rows == {media[m].created + Ttl : m \in named}
           all == {now, reserved} \cup rows
<1>1. IsFiniteSet(rows)
  <2>1. IsFiniteSet(Media)
    BY StorageAssumption, FS_Union DEF Media
  <2>2. IsFiniteSet(named)
    BY <2>1, FS_Subset
  <2>3. [m \in named |-> media[m].created + Ttl] \in Surjection(named, rows)
    BY DEF Surjection
  <2>4. QED
    <3> HIDE DEF named, rows
    <3> QED BY <2>2, <2>3, FS_Surjection
<1>2. IsFiniteSet(all)
  <2>1. IsFiniteSet((rows \cup {now}) \cup {reserved})
    <3> HIDE DEF rows, reserved
    <3> QED BY <1>1, FS_AddElement
  <2>2. all = (rows \cup {now}) \cup {reserved}
    OBVIOUS
  <2>3. QED
    <3> HIDE DEF all, rows, reserved
    <3> QED BY <2>1, <2>2
<1>3. all \subseteq Nat
  BY StorageAssumption DEF Types, APut, AMedia
<1>4. Max(all) \in all /\ \A x \in all : x <= Max(all)
  <2>1. now \in all /\ all \subseteq Int
    BY <1>3
  <2>2. QED
    <3> HIDE DEF all
    <3> QED BY <1>2, <2>1, LargestExists
<1>5. QED
  BY <1>3, <1>4 DEF NotBefore

-----------------------------------------------------------------------------
(* The recursive function behind SumFunctionOnSet.                            *)

Pick(s) == CHOOSE x \in s : TRUE
Adds(it, f, D) == it = [s \in D |-> IF s = {} THEN 0 ELSE f[Pick(s)] + it[s \ {Pick(s)}]]

LEMMA PickIn == ASSUME NEW s, s # {} PROVE Pick(s) \in s
BY DEF Pick

LEMMA Unfold ==
    ASSUME NEW f, NEW S
    PROVE  SumFunctionOnSet(f, S) = (CHOOSE it : Adds(it, f, SUBSET S))[S]
BY DEF SumFunctionOnSet, FoldFunctionOnSet, MapThenFoldSet, Adds, Pick


\* It is the only one, and its values do not depend on its domain.
LEMMA AddsUnique ==
    ASSUME NEW f, NEW S, IsFiniteSet(S), NEW C, NEW D, SUBSET S \subseteq C, SUBSET S \subseteq D,
           NEW a, NEW b, Adds(a, f, C), Adds(b, f, D)
    PROVE  a[S] = b[S]
<1> DEFINE Bad == {T \in SUBSET S : a[T] # b[T]}
<1> SUFFICES ASSUME Bad # {} PROVE FALSE
  OBVIOUS
<1>1. PICK T \in Bad : IsFiniteSet(T) /\ \A x \in T : T \ {x} \notin Bad
  <2>1. Bad \in SUBSET SUBSET S
    OBVIOUS
  <2>2. \E T \in Bad : IsFiniteSet(T) /\ T \subseteq S /\ \A x \in T : T \ {x} \notin Bad
    <3> HIDE DEF Bad
    <3> QED BY <2>1, SmallestSubset, Zenon
  <2>3. QED
    <3> HIDE DEF Bad
    <3> QED BY <2>2
<1>2. T \subseteq S /\ a[T] # b[T]
  OBVIOUS
<1>3. /\ a[T] = IF T = {} THEN 0 ELSE f[Pick(T)] + a[T \ {Pick(T)}]
      /\ b[T] = IF T = {} THEN 0 ELSE f[Pick(T)] + b[T \ {Pick(T)}]
  BY <1>2 DEF Adds
<1>4. T # {} => a[T \ {Pick(T)}] = b[T \ {Pick(T)}]
  <2>1. T # {} => T \ {Pick(T)} \notin Bad
    BY <1>1, PickIn
  <2>2. T \ {Pick(T)} \subseteq S
    BY <1>2
  <2>3. QED
    BY <2>1, <2>2
<1>5. QED
  BY <1>2, <1>3, <1>4

\* It exists, for a finite set.
LEMMA AddsExists ==
    ASSUME NEW f, NEW S, IsFiniteSet(S)
    PROVE  \E it : Adds(it, f, SUBSET S)
<1> DEFINE Bad == {T \in SUBSET S : ~ \E it : Adds(it, f, SUBSET T)}
<1> SUFFICES ASSUME Bad # {} PROVE FALSE
  OBVIOUS
<1>1. PICK T \in Bad : IsFiniteSet(T) /\ \A x \in T : T \ {x} \notin Bad
  <2> Bad \in SUBSET SUBSET S
    OBVIOUS
  <2> HIDE DEF Bad
  <2> QED BY SmallestSubset
<1> DEFINE it(s) == CHOOSE a : Adds(a, f, SUBSET s)
<1>2. ASSUME NEW u \in SUBSET T, u # T
      PROVE  IsFiniteSet(u) /\ Adds(it(u), f, SUBSET u)
  <2>1. PICK x \in T : u \subseteq T \ {x}
    BY <1>2
  <2>2. T \ {x} \in SUBSET S
    OBVIOUS
  <2>3. PICK a : Adds(a, f, SUBSET (T \ {x}))
    BY <1>1, <2>2
  <2>4. Adds([r \in SUBSET u |-> a[r]], f, SUBSET u)
    <3>1. \A r \in SUBSET u : r \in SUBSET (T \ {x})
      BY <2>1
    <3>2. \A r \in SUBSET u : a[r] = IF r = {} THEN 0 ELSE f[Pick(r)] + a[r \ {Pick(r)}]
      BY <2>3, <3>1 DEF Adds
    <3>3. \A r \in SUBSET u : r \ {Pick(r)} \in SUBSET u
      OBVIOUS
    <3>4. QED
      BY <3>2, <3>3 DEF Adds
  <2>5. QED
    BY <1>1, <2>4, FS_Subset
<1> DEFINE F(u) == it(u)[u]
<1>3. ASSUME NEW u \in SUBSET T, u # T, u # {}
      PROVE  F(u) = f[Pick(u)] + F(u \ {Pick(u)})
  <2> DEFINE v == u \ {Pick(u)}
  <2>1. v \in SUBSET T /\ v # T /\ v \subseteq u
    BY <1>3, PickIn
  <2>2. Adds(it(u), f, SUBSET u) /\ Adds(it(v), f, SUBSET v) /\ IsFiniteSet(v)
    BY <1>2, <1>3, <2>1
  <2>3. it(u)[u] = f[Pick(u)] + it(u)[v]
    <3> HIDE DEF it
    <3> QED BY <1>3, <2>2 DEF Adds
  <2>4. it(u)[v] = it(v)[v]
    <3> SUBSET v \subseteq SUBSET u
      BY <2>1
    <3> HIDE DEF it, v
    <3> QED BY <2>2, AddsUnique
  <2>5. QED
    BY <2>3, <2>4
<1>4. F({}) = 0
  <2>1. CASE T # {}
    <3>1. Adds(it({}), f, SUBSET {})
      BY <1>2, <2>1
    <3> HIDE DEF it
    <3> QED BY <3>1 DEF Adds
  <2>2. CASE T = {}
    <3>1. Adds([s \in SUBSET {} |-> 0], f, SUBSET {})
      <4>1. \A s \in SUBSET {} : s = {}
        OBVIOUS
      <4>2. QED
        BY <4>1 DEF Adds
    <3>2. T \notin Bad
      BY <2>2, <3>1
    <3>3. QED
      BY <3>2
  <2>3. QED
    BY <2>1, <2>2
<1> DEFINE whole == [s \in SUBSET T |-> IF s = {} THEN 0 ELSE f[Pick(s)] + F(s \ {Pick(s)})]
<1>5. ASSUME NEW s \in SUBSET T, s # {}
      PROVE  whole[s \ {Pick(s)}] = F(s \ {Pick(s)})
  <2> DEFINE u == s \ {Pick(s)}
  <2>1. u \in SUBSET T /\ u # T
    BY <1>5, PickIn
  <2>2. u # {} => F(u) = f[Pick(u)] + F(u \ {Pick(u)})
    <3> HIDE DEF u, F
    <3> QED BY <1>3, <2>1
  <2>3. whole[u] = IF u = {} THEN 0 ELSE f[Pick(u)] + F(u \ {Pick(u)})
    <3> HIDE DEF u, F
    <3> QED BY <2>1
  <2>4. whole[u] = F(u)
    <3> HIDE DEF u, F, whole
    <3> QED BY <1>4, <2>2, <2>3
  <2>5. QED
    BY <2>4
<1>6. Adds(whole, f, SUBSET T)
  <2>1. \A s \in SUBSET T : whole[s] = IF s = {} THEN 0 ELSE f[Pick(s)] + whole[s \ {Pick(s)}]
    <3> HIDE DEF F
    <3> QED BY <1>5
  <2>2. whole = [s \in SUBSET T |-> whole[s]]
    <3> HIDE DEF F
    <3> QED OBVIOUS
  <2>3. QED
    <3> HIDE DEF whole
    <3> QED BY <2>1, <2>2 DEF Adds
<1>7. QED
  BY <1>6

-----------------------------------------------------------------------------
(* What the sums of this model need.                                          *)

Sum(f, S) == SumFunctionOnSet(f, S)

LEMMA SumSteps ==
    ASSUME NEW f, NEW S, IsFiniteSet(S)
    PROVE  Sum(f, S) = IF S = {} THEN 0 ELSE f[Pick(S)] + Sum(f, S \ {Pick(S)})
<1> DEFINE it(s) == CHOOSE a : Adds(a, f, SUBSET s)
           u == S \ {Pick(S)}
<1>1. Sum(f, S) = it(S)[S] /\ Sum(f, u) = it(u)[u]
  BY Unfold DEF Sum
<1>2. IsFiniteSet(u) /\ u \subseteq S
  BY FS_Subset
<1>3. Adds(it(S), f, SUBSET S) /\ Adds(it(u), f, SUBSET u)
  <2> HIDE DEF u
  <2> QED BY <1>2, AddsExists
<1>4. it(S)[S] = IF S = {} THEN 0 ELSE f[Pick(S)] + it(S)[u]
  <2> HIDE DEF it
  <2> QED BY <1>3 DEF Adds
<1>5. it(S)[u] = it(u)[u]
  <2>1. SUBSET u \subseteq SUBSET S
    OBVIOUS
  <2> HIDE DEF it, u
  <2> QED BY <1>2, <1>3, <2>1, AddsUnique
<1>6. QED
  BY <1>1, <1>4, <1>5

LEMMA SumEmpty == ASSUME NEW f PROVE Sum(f, {}) = 0
BY SumSteps, FS_EmptySet

\* Sums of natural numbers are natural numbers.
LEMMA SumNat ==
    ASSUME NEW f, NEW S, IsFiniteSet(S), \A x \in S : f[x] \in Nat
    PROVE  Sum(f, S) \in Nat
<1> DEFINE Bad == {T \in SUBSET S : Sum(f, T) \notin Nat}
<1> SUFFICES ASSUME Bad # {} PROVE FALSE
  OBVIOUS
<1>1. PICK T \in Bad : IsFiniteSet(T) /\ T \subseteq S /\ \A x \in T : T \ {x} \notin Bad
  <2> Bad \in SUBSET SUBSET S
    OBVIOUS
  <2> HIDE DEF Bad
  <2> QED BY SmallestSubset
<1>2. Sum(f, T) = IF T = {} THEN 0 ELSE f[Pick(T)] + Sum(f, T \ {Pick(T)})
  BY <1>1, SumSteps
<1>3. T # {} => f[Pick(T)] \in Nat /\ Sum(f, T \ {Pick(T)}) \in Nat
  <2>1. T # {} => Pick(T) \in T
    BY PickIn
  <2>2. QED
    BY <1>1, <2>1
<1>4. QED
  BY <1>2, <1>3

\* Functions that agree on a set have the same sum over it.
LEMMA SumSame ==
    ASSUME NEW f, NEW g, NEW S, IsFiniteSet(S), \A x \in S : f[x] = g[x]
    PROVE  Sum(f, S) = Sum(g, S)
<1> DEFINE Bad == {T \in SUBSET S : Sum(f, T) # Sum(g, T)}
<1> SUFFICES ASSUME Bad # {} PROVE FALSE
  OBVIOUS
<1>1. PICK T \in Bad : IsFiniteSet(T) /\ T \subseteq S /\ \A x \in T : T \ {x} \notin Bad
  <2> Bad \in SUBSET SUBSET S
    OBVIOUS
  <2> HIDE DEF Bad
  <2> QED BY SmallestSubset
<1>2. /\ Sum(f, T) = IF T = {} THEN 0 ELSE f[Pick(T)] + Sum(f, T \ {Pick(T)})
      /\ Sum(g, T) = IF T = {} THEN 0 ELSE g[Pick(T)] + Sum(g, T \ {Pick(T)})
  BY <1>1, SumSteps
<1>3. T # {} => f[Pick(T)] = g[Pick(T)] /\ Sum(f, T \ {Pick(T)}) = Sum(g, T \ {Pick(T)})
  <2>1. T # {} => Pick(T) \in T
    BY PickIn
  <2>2. QED
    BY <1>1, <2>1
<1>4. QED
  BY <1>2, <1>3

\* Any element can be taken out of a sum.
LEMMA SumRemove ==
    ASSUME NEW f, NEW S, IsFiniteSet(S), \A y \in S : f[y] \in Nat, NEW x \in S
    PROVE  Sum(f, S) = f[x] + Sum(f, S \ {x})
<1> DEFINE Bad == {T \in SUBSET S : \E y \in T : Sum(f, T) # f[y] + Sum(f, T \ {y})}
<1> SUFFICES ASSUME Bad # {} PROVE FALSE
  OBVIOUS
<1>1. PICK T \in Bad : IsFiniteSet(T) /\ T \subseteq S /\ \A z \in T : T \ {z} \notin Bad
  <2> Bad \in SUBSET SUBSET S
    OBVIOUS
  <2> HIDE DEF Bad
  <2> QED BY SmallestSubset
<1>2. PICK y \in T : Sum(f, T) # f[y] + Sum(f, T \ {y})
  BY <1>1
<1> DEFINE p == Pick(T)
           rest == (T \ {p}) \ {y}
<1>3. p \in T
  BY <1>2, PickIn
<1>4. Sum(f, T) = f[p] + Sum(f, T \ {p})
  BY <1>1, <1>2, SumSteps
<1>5. p # y
  BY <1>2, <1>4
<1>6. Sum(f, T \ {p}) = f[y] + Sum(f, rest)
  BY <1>1, <1>2, <1>3, <1>5
<1>7. Sum(f, T \ {y}) = f[p] + Sum(f, rest)
  <2>1. T \ {y} \notin Bad /\ p \in T \ {y} /\ (T \ {y}) \ {p} = rest
    BY <1>1, <1>2, <1>3, <1>5
  <2>2. T \ {y} \in SUBSET S
    OBVIOUS
  <2>3. Sum(f, T \ {y}) = f[p] + Sum(f, (T \ {y}) \ {p})
    BY <2>1, <2>2
  <2>4. QED
    BY <2>1, <2>3
<1>8. f[p] \in Nat /\ f[y] \in Nat /\ Sum(f, rest) \in Nat
  <2>1. IsFiniteSet(rest) /\ rest \subseteq S
    BY <1>1, FS_Subset
  <2>2. QED
    BY <1>1, <1>2, <1>3, <2>1, SumNat
<1>9. QED
  BY <1>2, <1>4, <1>6, <1>7, <1>8

\* A sum over part of a set, of smaller numbers, is smaller.
LEMMA SumBelow ==
    ASSUME NEW f, NEW g, NEW S, NEW T, IsFiniteSet(T), S \subseteq T,
           \A x \in S : f[x] \in Nat /\ f[x] <= g[x],
           \A x \in T : g[x] \in Nat
    PROVE  Sum(f, S) <= Sum(g, T)
<1> DEFINE Bad == {U \in SUBSET T : ~ Sum(f, S \cap U) <= Sum(g, U)}
<1> SUFFICES ASSUME Bad # {} PROVE FALSE
  <2> T \notin Bad /\ S \cap T = S
    OBVIOUS
  <2> QED OBVIOUS
<1>1. PICK U \in Bad : IsFiniteSet(U) /\ U \subseteq T /\ \A x \in U : U \ {x} \notin Bad
  <2> Bad \in SUBSET SUBSET T
    OBVIOUS
  <2> HIDE DEF Bad
  <2> QED BY SmallestSubset
<1>2. U # {}
  BY SumEmpty
<1>3. PICK x : x \in U
  BY <1>2
<1>4. /\ Sum(g, U) = g[x] + Sum(g, U \ {x}) /\ g[x] \in Nat
      /\ Sum(g, U \ {x}) \in Nat
  <2>1. IsFiniteSet(U \ {x})
    BY <1>1, FS_Subset
  <2>2. QED
    BY <1>1, <1>3, <2>1, SumRemove, SumNat
<1>5. /\ Sum(f, S \cap (U \ {x})) <= Sum(g, U \ {x})
      /\ Sum(f, S \cap (U \ {x})) \in Nat
  <2>1. IsFiniteSet(S \cap (U \ {x}))
    BY <1>1, FS_Subset
  <2>2. Sum(f, S \cap (U \ {x})) \in Nat
    BY <2>1, SumNat
  <2>3. QED
    BY <1>1, <1>3, <2>2
<1>6. CASE x \in S
  <2>1. IsFiniteSet(S \cap U) /\ x \in S \cap U /\ (S \cap U) \ {x} = S \cap (U \ {x})
    BY <1>1, <1>3, <1>6, FS_Subset
  <2>2. Sum(f, S \cap U) = f[x] + Sum(f, (S \cap U) \ {x})
    BY <2>1, SumRemove
  <2>3. QED
    BY <1>1, <1>4, <1>5, <1>6, <2>1, <2>2
<1>7. CASE x \notin S
  <2>1. S \cap U = S \cap (U \ {x})
    BY <1>7
  <2>2. QED
    BY <1>1, <1>4, <1>5, <2>1
<1>8. QED
  BY <1>6, <1>7

\* Any element can be put into a sum.
LEMMA SumInsert ==
    ASSUME NEW f, NEW S, IsFiniteSet(S), NEW x, x \notin S, \A y \in S \cup {x} : f[y] \in Nat
    PROVE  Sum(f, S \cup {x}) = f[x] + Sum(f, S)
<1>1. IsFiniteSet(S \cup {x}) /\ x \in S \cup {x} /\ (S \cup {x}) \ {x} = S
  BY FS_AddElement
<1>2. Sum(f, S \cup {x}) = f[x] + Sum(f, (S \cup {x}) \ {x})
  BY <1>1, SumRemove
<1>3. QED
  BY <1>1, <1>2

\* What one term changes, the sum changes.
LEMMA SumChange ==
    ASSUME NEW f, NEW g, NEW S, IsFiniteSet(S), NEW x \in S,
           \A y \in S : f[y] \in Nat /\ g[y] \in Nat, \A y \in S \ {x} : f[y] = g[y]
    PROVE  Sum(g, S) + f[x] = Sum(f, S) + g[x]
<1>1. IsFiniteSet(S \ {x})
  BY FS_Subset
<1>2. Sum(f, S) = f[x] + Sum(f, S \ {x})
  BY SumRemove
<1>3. Sum(g, S) = g[x] + Sum(g, S \ {x})
  BY SumRemove
<1>4. Sum(f, S \ {x}) = Sum(g, S \ {x})
  BY <1>1, SumSame
<1>5. Sum(f, S \ {x}) \in Nat
  BY <1>1, SumNat
<1>6. QED
  BY <1>2, <1>3, <1>4, <1>5

\* A sum over two disjoint sets.
LEMMA SumUnion ==
    ASSUME NEW f, NEW S, NEW T, IsFiniteSet(S), IsFiniteSet(T), S \cap T = {},
           \A x \in S \cup T : f[x] \in Nat
    PROVE  Sum(f, S \cup T) = Sum(f, S) + Sum(f, T)
<1> DEFINE Bad == {U \in SUBSET S : Sum(f, U \cup T) # Sum(f, U) + Sum(f, T)}
<1> SUFFICES ASSUME Bad # {} PROVE FALSE
  <2> S \notin Bad
    OBVIOUS
  <2> QED OBVIOUS
<1>1. PICK U \in Bad : IsFiniteSet(U) /\ U \subseteq S /\ \A x \in U : U \ {x} \notin Bad
  <2> Bad \in SUBSET SUBSET S
    OBVIOUS
  <2> HIDE DEF Bad
  <2> QED BY SmallestSubset
<1>2. Sum(f, T) \in Nat
  BY SumNat
<1>3. U # {}
  <2>1. {} \cup T = T /\ Sum(f, {}) = 0
    BY SumEmpty
  <2>2. QED
    BY <1>1, <1>2, <2>1
<1>4. PICK x : x \in U
  BY <1>3
<1> DEFINE V == U \ {x}
<1>5. /\ IsFiniteSet(V) /\ x \notin V /\ V \cup {x} = U
      /\ IsFiniteSet(V \cup T) /\ x \notin V \cup T /\ (V \cup T) \cup {x} = U \cup T
  BY <1>1, <1>4, FS_Subset, FS_Union
<1>6. Sum(f, V \cup T) = Sum(f, V) + Sum(f, T) /\ Sum(f, V) \in Nat /\ f[x] \in Nat
  <2>1. Sum(f, V) \in Nat
    BY <1>1, <1>5, SumNat
  <2>2. QED
    BY <1>1, <1>4, <2>1
<1>7. Sum(f, U) = f[x] + Sum(f, V)
  <2>1. Sum(f, V \cup {x}) = f[x] + Sum(f, V)
    <3>1. \A y \in V \cup {x} : f[y] \in Nat
      BY <1>1, <1>4
    <3> HIDE DEF V
    <3> QED BY <1>5, <3>1, SumInsert
  <2>2. QED
    BY <1>5, <2>1
<1>8. Sum(f, U \cup T) = f[x] + Sum(f, V \cup T)
  <2>1. Sum(f, (V \cup T) \cup {x}) = f[x] + Sum(f, V \cup T)
    <3>1. \A y \in (V \cup T) \cup {x} : f[y] \in Nat
      BY <1>1, <1>4
    <3> HIDE DEF V
    <3> QED BY <1>5, <3>1, SumInsert
  <2>2. QED
    BY <1>5, <2>1
<1>9. QED
  BY <1>1, <1>2, <1>6, <1>7, <1>8

\* The sum of two functions is the sum of their sums.
LEMMA SumPlus ==
    ASSUME NEW f, NEW g, NEW h, NEW S, IsFiniteSet(S),
           \A x \in S : f[x] \in Nat /\ g[x] \in Nat /\ h[x] = f[x] + g[x]
    PROVE  Sum(h, S) = Sum(f, S) + Sum(g, S)
<1> DEFINE Bad == {T \in SUBSET S : Sum(h, T) # Sum(f, T) + Sum(g, T)}
<1> SUFFICES ASSUME Bad # {} PROVE FALSE
  OBVIOUS
<1>1. PICK T \in Bad : IsFiniteSet(T) /\ T \subseteq S /\ \A x \in T : T \ {x} \notin Bad
  <2> Bad \in SUBSET SUBSET S
    OBVIOUS
  <2> HIDE DEF Bad
  <2> QED BY SmallestSubset
<1>2. T # {}
  <2>1. Sum(f, {}) = 0 /\ Sum(g, {}) = 0 /\ Sum(h, {}) = 0
    BY SumEmpty
  <2>2. QED
    BY <1>1, <2>1
<1>3. /\ Sum(f, T) = f[Pick(T)] + Sum(f, T \ {Pick(T)})
      /\ Sum(g, T) = g[Pick(T)] + Sum(g, T \ {Pick(T)})
      /\ Sum(h, T) = h[Pick(T)] + Sum(h, T \ {Pick(T)})
  BY <1>1, <1>2, SumSteps
<1>4. Pick(T) \in S /\ Sum(h, T \ {Pick(T)}) = Sum(f, T \ {Pick(T)}) + Sum(g, T \ {Pick(T)})
  BY <1>1, <1>2, PickIn
<1>5. Sum(f, T \ {Pick(T)}) \in Nat /\ Sum(g, T \ {Pick(T)}) \in Nat
  <2>1. IsFiniteSet(T \ {Pick(T)})
    BY <1>1, FS_Subset
  <2>2. QED
    BY <1>1, <2>1, SumNat
<1>6. QED
  BY <1>1, <1>3, <1>4, <1>5

\* Terms that are sent to different terms, none of them smaller, do not exceed them.
LEMMA SumInjected ==
    ASSUME NEW f, NEW S, NEW g, NEW T, NEW h \in [S -> T], IsFiniteSet(S), IsFiniteSet(T),
           \A x, y \in S : h[x] = h[y] => x = y,
           \A x \in S : f[x] \in Nat /\ f[x] <= g[h[x]], \A y \in T : g[y] \in Nat
    PROVE  Sum(f, S) <= Sum(g, T)
<1> DEFINE img(U) == {h[x] : x \in U}
           Bad == {U \in SUBSET S : ~ Sum(f, U) <= Sum(g, img(U))}
<1>0. ASSUME NEW U \in SUBSET S PROVE IsFiniteSet(img(U)) /\ img(U) \subseteq T
  BY FS_Subset
<1>1. Bad = {}
  <2> SUFFICES ASSUME Bad # {} PROVE FALSE
    OBVIOUS
  <2>1. PICK U \in Bad : IsFiniteSet(U) /\ U \subseteq S /\ \A x \in U : U \ {x} \notin Bad
    <3> Bad \in SUBSET SUBSET S
      OBVIOUS
    <3> HIDE DEF Bad
    <3> QED BY SmallestSubset
  <2>2. U # {}
    <3>1. img({}) = {} /\ Sum(f, {}) = 0 /\ Sum(g, {}) = 0
      BY SumEmpty
    <3>2. QED
      BY <2>1, <3>1
  <2>3. PICK x : x \in U
    BY <2>2
  <2> DEFINE V == U \ {x}
  <2>4. V \in SUBSET S /\ IsFiniteSet(V) /\ x \in S /\ h[x] \in img(U) /\ img(V) = img(U) \ {h[x]}
    BY <2>1, <2>3, FS_Subset
  <2>5. Sum(f, V) <= Sum(g, img(V))
    BY <2>1, <2>3
  <2>6. Sum(f, U) = f[x] + Sum(f, V) /\ Sum(f, V) \in Nat
    BY <2>1, <2>3, <2>4, SumRemove, SumNat
  <2>7. Sum(g, img(U)) = g[h[x]] + Sum(g, img(V)) /\ Sum(g, img(V)) \in Nat
    <3>1. IsFiniteSet(img(U)) /\ IsFiniteSet(img(V)) /\ img(U) \subseteq T /\ img(V) \subseteq T
      BY <1>0, <2>1, <2>4
    <3> HIDE DEF img, V
    <3>2. Sum(g, img(U)) = g[h[x]] + Sum(g, img(U) \ {h[x]})
      BY <2>4, <3>1, SumRemove
    <3>3. Sum(g, img(V)) \in Nat
      BY <3>1, SumNat
    <3>4. QED
      BY <2>4, <3>2, <3>3
  <2>8. f[x] \in Nat /\ g[h[x]] \in Nat /\ f[x] <= g[h[x]]
    BY <2>4
  <2>9. ~ Sum(f, U) <= Sum(g, img(U))
    BY <2>1
  <2>10. QED
    <3> HIDE DEF img, V, Bad
    <3> QED BY <2>5, <2>6, <2>7, <2>8, <2>9
<1>2. Sum(f, S) <= Sum(g, img(S))
  BY <1>1
<1>3. Sum(g, img(S)) <= Sum(g, T)
  <2>1. IsFiniteSet(img(S)) /\ img(S) \subseteq T
    BY <1>0
  <2> HIDE DEF img
  <2> QED BY <2>1, SumBelow
<1>4. Sum(f, S) \in Nat /\ Sum(g, img(S)) \in Nat /\ Sum(g, T) \in Nat
  <2>1. IsFiniteSet(img(S)) /\ img(S) \subseteq T
    BY <1>0
  <2> HIDE DEF img
  <2> QED BY <2>1, SumNat
<1>5. QED
  <2> HIDE DEF img
  <2> QED BY <1>2, <1>3, <1>4

\* Terms outside a subset may as well be counted as nothing.
LEMMA SumFiltered ==
    ASSUME NEW f, NEW g, NEW S, NEW T, IsFiniteSet(S), T \subseteq S,
           \A x \in S : f[x] \in Nat /\ g[x] = IF x \in T THEN f[x] ELSE 0
    PROVE  Sum(g, S) = Sum(f, T)
<1>1. IsFiniteSet(T) /\ IsFiniteSet(S \ T) /\ T \cap (S \ T) = {} /\ T \cup (S \ T) = S
  BY FS_Subset
<1>2. Sum(g, T \cup (S \ T)) = Sum(g, T) + Sum(g, S \ T)
  <2>1. \A x \in T \cup (S \ T) : g[x] \in Nat
    OBVIOUS
  <2>2. QED
    BY <1>1, <2>1, SumUnion
<1>3. Sum(g, T) = Sum(f, T)
  BY <1>1, SumSame
<1>4. Sum(g, S \ T) = 0
  <2> DEFINE zero == [x \in S |-> 0]
             Bad == {U \in SUBSET (S \ T) : Sum(g, U) # 0}
  <2> SUFFICES ASSUME Bad # {} PROVE FALSE
    OBVIOUS
  <2>1. PICK U \in Bad : IsFiniteSet(U) /\ \A x \in U : U \ {x} \notin Bad
    <3> Bad \in SUBSET SUBSET (S \ T)
      OBVIOUS
    <3> HIDE DEF Bad
    <3> QED BY <1>1, SmallestSubset
  <2>2. U # {}
    BY <2>1, SumEmpty
  <2>3. Sum(g, U) = g[Pick(U)] + Sum(g, U \ {Pick(U)})
    BY <2>1, <2>2, SumSteps
  <2>4. g[Pick(U)] = 0 /\ Sum(g, U \ {Pick(U)}) = 0
    BY <2>1, <2>2, PickIn
  <2>5. QED
    BY <2>1, <2>3, <2>4
<1>5. Sum(f, T) \in Nat
  BY <1>1, SumNat
<1>6. QED
  BY <1>1, <1>2, <1>3, <1>4, <1>5

-----------------------------------------------------------------------------
(* The inductive invariant.                                                   *)

Rows == Types /\ JobRows /\ MediaRows /\ UploadKeys /\ ImportKeys /\ OutputRows /\ Deletions
Fits == \A m \in Media : media[m].bytes <= MaxStorage
IInv == Rows /\ Fits /\ Used <= MaxStorage

\* There are finitely many rows and keys.
LEMMA Finite ==
    IsFiniteSet(Media) /\ IsFiniteSet(Jobs) /\ IsFiniteSet(OutputKeys) /\ IsFiniteSet(Keys)
<1>1. IsFiniteSet(Media) /\ IsFiniteSet(Jobs)
  BY StorageAssumption, FS_Union DEF Media, Jobs
<1>2. IsFiniteSet(1..Attempts)
  BY StorageAssumption, FS_Interval
<1>3. IsFiniteSet(OutputKeys)
  BY <1>1, <1>2, FS_Product DEF OutputKeys
<1> DEFINE ofMedia == {MediaKey(m) : m \in Media}
<1>4. IsFiniteSet(ofMedia)
  <2>1. [m \in Media |-> MediaKey(m)] \in Surjection(Media, ofMedia)
    BY DEF Surjection
  <2> HIDE DEF ofMedia
  <2> QED BY <1>1, <2>1, FS_Surjection
<1>5. IsFiniteSet(ofMedia \cup OutputKeys)
  <2> HIDE DEF ofMedia
  <2> QED BY <1>3, <1>4, FS_Union
<1>6. QED
  BY <1>1, <1>3, <1>5 DEF Keys

LEMMA UsedNat == ASSUME Types PROVE Used \in Nat
<1>1. IsFiniteSet(Media) /\ IsFiniteSet(Jobs) /\ IsFiniteSet(OutputKeys)
  BY Finite
<1>2. IsFiniteSet(LiveMedia) /\ IsFiniteSet(PendingPuts)
  BY <1>1, FS_Subset DEF LiveMedia, PendingPuts
<1>3. /\ Sum([m \in Media |-> media[m].bytes], LiveMedia) \in Nat
      /\ Sum([j \in Jobs |-> job[j].bytes + job[j].held], Jobs) \in Nat
      /\ Sum([k \in OutputKeys |-> put[k].bytes], PendingPuts) \in Nat
  BY <1>1, <1>2, SumNat DEF Types, AMedia, AJob, APut, LiveMedia, PendingPuts
<1>4. QED
  BY <1>3 DEF Used, Sum

USE DEF Never

LEMMA UploadIntentStep ==
    ASSUME Rows, NEW m \in Uploads, NEW b \in Sizes, NEW s \in Recent, UploadIntent(m, b, s)
    PROVE  Rows'
<1> USE StorageAssumption, KeyFacts DEF Rows, UploadIntent, AddMedia, MediaAdmitted, Signed
<1>0. s \in Nat /\ s <= now /\ m \in Media /\ b \in Nat
  BY DEF Recent, Larger, Types, Media
<1>1. Types'
  BY <1>0 DEF Types, AMedia, Statuses, Larger
<1>2. JobRows'
  BY <1>0 DEF Types, JobRows, JobRow, Key, Tries, IsCurrent
<1>3. MediaRows'
  BY <1>0 DEF Types, MediaRows, MediaRow, AMedia
<1>4. UploadKeys'
  <2> SUFFICES ASSUME NEW n \in Uploads PROVE UploadKey(n)'
    BY DEF UploadKeys
  <2>1. UploadKey(n) /\ n \in Media /\ Ttl \in Nat
    BY DEF UploadKeys, Media
  <2>2. CASE n = m
    BY <1>0, <2>1, <2>2 DEF Types, UploadKey, Unused, Larger, AMedia
  <2>3. CASE n # m
    <3>1. MediaKey(n) # MediaKey(m) /\ UNCHANGED <<url[MediaKey(n)], media[n]>>
      BY <1>0, <2>1, <2>3 DEF Types
    <3>2. QED
      BY <2>1, <3>1 DEF UploadKey, Unused, Lost, ToBeDeleted
  <2>4. QED
    BY <2>2, <2>3
<1>5. ImportKeys'
  BY <1>0 DEF Types, ImportKeys, ImportKey, Media
<1>6. OutputRows'
  BY <1>0 DEF Types, OutputRows, PendingKey, CommittedKey, FreeKey, Future, Unused, Lost, IsCurrent, ToBeDeleted
<1>7. Deletions'
  BY <1>0 DEF Types, Deletions, Deletion, UploadKeys, UploadKey, Unused, Lost, ToBeDeleted, IsCurrent
<1>8. QED
  BY <1>1, <1>2, <1>3, <1>4, <1>5, <1>6, <1>7

LEMMA StorePutStep ==
    ASSUME Rows, NEW k \in Keys, StorePut(k)
    PROVE  Rows'
<1> USE StorageAssumption, KeyFacts DEF Rows, StorePut, Authorised
<1>0. /\ k \notin object /\ object' = object \cup {k} /\ url[k] # Never
      /\ belated' = IF now < url[k] THEN belated ELSE belated \cup {k}
  BY DEF Types, Larger
<1>1. Types'
  BY <1>0 DEF Types
<1>2. JobRows'
  BY DEF JobRows, JobRow, Key, Tries
<1>3. MediaRows'
  BY DEF MediaRows, MediaRow
<1>4. UploadKeys'
  BY <1>0 DEF Types, UploadKeys, UploadKey, Unused, Lost, ToBeDeleted, Media
<1>5. ImportKeys'
  BY <1>0 DEF Types, ImportKeys, ImportKey, Media
<1>6. OutputRows'
  BY <1>0 DEF Types, OutputRows, PendingKey, CommittedKey, FreeKey, Future, Unused, Lost, IsCurrent, ToBeDeleted
<1>7. Deletions'
  BY <1>0 DEF Types, Deletions, Deletion, Lost, ToBeDeleted, IsCurrent
<1>8. QED
  BY <1>1, <1>2, <1>3, <1>4, <1>5, <1>6, <1>7

LEMMA VerifyStep ==
    ASSUME Rows, NEW k \in Keys, Verify(k)
    PROVE  Rows'
<1> USE StorageAssumption, KeyFacts DEF Rows, Verify
<1>1. Types'
  BY DEF Types
<1>2. JobRows'
  BY DEF JobRows, JobRow, Key, Tries
<1>3. MediaRows'
  BY DEF MediaRows, MediaRow
<1>4. UploadKeys'
  BY DEF Types, UploadKeys, UploadKey, Unused, Lost, ToBeDeleted, Media
<1>5. ImportKeys'
  BY DEF ImportKeys, ImportKey
<1>6. OutputRows'
  BY DEF Types, OutputRows, PendingKey, CommittedKey, FreeKey, Future, Unused, Lost, IsCurrent, ToBeDeleted
<1>7. Deletions'
  BY DEF Deletions, Deletion, Lost, ToBeDeleted, IsCurrent
<1>8. QED
  BY <1>1, <1>2, <1>3, <1>4, <1>5, <1>6, <1>7

LEMMA UploadCompleteStep ==
    ASSUME Rows, NEW m \in Uploads, UploadComplete(m)
    PROVE  Rows'
<1> USE StorageAssumption, KeyFacts DEF Rows, UploadComplete
<1>0. m \in Media
  BY DEF Media
<1>1. Types'
  BY <1>0 DEF Types, AMedia, Statuses
<1>2. JobRows'
  BY <1>0 DEF Types, JobRows, JobRow, Key, Tries
<1>3. MediaRows'
  BY <1>0 DEF Types, MediaRows, MediaRow, AMedia
<1>4. UploadKeys'
  BY <1>0 DEF Types, UploadKeys, UploadKey, Unused, Lost, ToBeDeleted, Media, AMedia
<1>5. ImportKeys'
  BY DEF ImportKeys, ImportKey
<1>6. OutputRows'
  BY <1>0 DEF Types, OutputRows, PendingKey, CommittedKey, FreeKey, Future, Unused, Lost, IsCurrent, ToBeDeleted
<1>7. Deletions'
  BY <1>0 DEF Types, Deletions, Deletion, Lost, ToBeDeleted, IsCurrent
<1>8. QED
  BY <1>1, <1>2, <1>3, <1>4, <1>5, <1>6, <1>7

LEMMA ValidatedStep ==
    ASSUME Rows, NEW m \in Uploads, NEW verdict \in {"ready", "failed"}, Validated(m, verdict)
    PROVE  Rows'
<1> USE StorageAssumption, KeyFacts DEF Rows, Validated
<1>0. m \in Media
  BY DEF Media
<1>1. Types'
  <2>1. media[m] \in AMedia
    BY <1>0 DEF Types
  <2>2. verdict \in Statuses /\ [media[m] EXCEPT !.status = verdict] \in AMedia
    BY <2>1 DEF AMedia, Statuses
  <2>3. media' = [media EXCEPT ![m] = [media[m] EXCEPT !.status = verdict]]
    OBVIOUS
  <2>4. QED
    BY <1>0, <2>2, <2>3 DEF Types
<1>2. JobRows'
  BY <1>0 DEF Types, JobRows, JobRow, Key, Tries
<1>3. MediaRows'
  BY <1>0 DEF Types, MediaRows, MediaRow, AMedia
<1>4. UploadKeys'
  BY <1>0 DEF Types, UploadKeys, UploadKey, Unused, Lost, ToBeDeleted, Media, AMedia
<1>5. ImportKeys'
  BY DEF ImportKeys, ImportKey
<1>6. OutputRows'
  BY <1>0 DEF Types, OutputRows, PendingKey, CommittedKey, FreeKey, Future, Unused, Lost, IsCurrent, ToBeDeleted
<1>7. Deletions'
  BY <1>0 DEF Types, Deletions, Deletion, Lost, ToBeDeleted, IsCurrent
<1>8. QED
  BY <1>1, <1>2, <1>3, <1>4, <1>5, <1>6, <1>7

LEMMA CreateLocalStep ==
    ASSUME Rows, NEW j \in Locals, NEW m \in Media, CreateLocal(j, m)
    PROVE  Rows'
<1> USE StorageAssumption, KeyFacts DEF Rows, CreateLocal, Admitted
<1>0. j \in Jobs /\ Budget \in Nat
  BY DEF Jobs
<1>1. Types'
  BY <1>0 DEF Types, AJob, States
<1>2. JobRows'
  BY <1>0 DEF Types, JobRows, JobRow, Key, Tries, AJob, Running
<1>3. MediaRows'
  BY DEF MediaRows, MediaRow
<1>4. UploadKeys'
  BY DEF UploadKeys, UploadKey, Unused, Lost
<1>5. ImportKeys'
  BY DEF ImportKeys, ImportKey
<1>6. OutputRows'
  BY <1>0 DEF Types, OutputRows, PendingKey, CommittedKey, FreeKey, Future, Unused, Lost, IsCurrent, ToBeDeleted,
     JobRows, JobRow, Running
<1>7. Deletions'
  BY <1>0 DEF Types, Deletions, Deletion, Lost, ToBeDeleted, IsCurrent, Running
<1>8. QED
  BY <1>1, <1>2, <1>3, <1>4, <1>5, <1>6, <1>7

LEMMA CreateImportStep ==
    ASSUME Rows, NEW i \in Imports, CreateImport(i)
    PROVE  Rows'
<1> USE StorageAssumption, KeyFacts DEF Rows, CreateImport, Admitted, MediaAdmitted
<1> DEFINE budget == Smaller(MaxImport, MaxStorage - Used)
<1>0. i \in Jobs /\ i \in Media /\ budget \in Nat
  BY UsedNat DEF Jobs, Media, Smaller
<1> HIDE DEF budget
<1>1. Types'
  BY <1>0 DEF Types, AJob, AMedia, States, Statuses, budget
<1>2. JobRows'
  BY <1>0 DEF Types, JobRows, JobRow, Key, Tries, AJob, AMedia, Running, budget
<1>3. MediaRows'
  BY <1>0 DEF Types, MediaRows, MediaRow, AMedia, budget
<1>4. UploadKeys'
  BY <1>0 DEF Types, UploadKeys, UploadKey, Unused, Lost, budget, Media
<1>5. ImportKeys'
  BY DEF ImportKeys, ImportKey
<1>6. OutputRows'
  BY <1>0 DEF Types, OutputRows, PendingKey, CommittedKey, FreeKey, Future, Unused, Lost, IsCurrent, ToBeDeleted,
     JobRows, JobRow, Running, budget, AJob, AMedia
<1>7. Deletions'
  BY <1>0 DEF Types, Deletions, Deletion, Lost, ToBeDeleted, IsCurrent, Running, budget, MediaRows, MediaRow
<1>8. QED
  BY <1>1, <1>2, <1>3, <1>4, <1>5, <1>6, <1>7

LEMMA ClaimStep ==
    ASSUME Rows, NEW j \in Jobs, Claim(j)
    PROVE  Rows'
<1> USE StorageAssumption, KeyFacts DEF Rows, Claim, HeldOnClaim
<1>0. /\ job'[j].state = "active" /\ job'[j].version = job[j].version + 1 /\ job'[j].held = job[j].budget
      /\ job'[j].budget = job[j].budget /\ job'[j].media = job[j].media
      /\ job'[j].output = job[j].output /\ job'[j].bytes = job[j].bytes
      /\ job[j].state = "queued" /\ job[j].version \in Nat /\ job[j].version < Tries(j) /\ job[j].budget \in Nat
      /\ \A l \in Jobs \ {j} : job'[l] = job[l]
      /\ UNCHANGED <<now, media, put, deletion, object, belated, url, verified, removed>>
  BY DEF Types, AJob
<1>1. Types'
  <2> DEFINE r == [job[j] EXCEPT !.state = "active", !.version = job[j].version + 1, !.held = job[j].budget]
  <2>1. job[j] \in AJob /\ job[j].version + 1 \in Nat /\ job[j].budget \in Nat
    BY DEF Types, AJob
  <2>2. r \in AJob
    BY <2>1 DEF AJob, States
  <2>3. job' = [job EXCEPT ![j] = r]
    BY <2>1 DEF Types, AJob
  <2>4. QED
    BY <2>2, <2>3 DEF Types
<1>2. JobRows'
  <2> SUFFICES ASSUME NEW l \in Jobs PROVE JobRow(l)'
    BY DEF JobRows
  <2>1. JobRow(l)
    BY DEF JobRows
  <2>2. CASE l = j
    BY <1>0, <2>1, <2>2 DEF JobRow, Tries, Running, Unfinished
  <2>3. CASE l # j
    BY <1>0, <2>1, <2>3 DEF JobRow, Key, Tries
  <2>4. QED
    BY <2>2, <2>3
<1>3. MediaRows'
  BY DEF MediaRows, MediaRow
<1>4. UploadKeys'
  BY DEF UploadKeys, UploadKey, Unused, Lost
<1>5. ImportKeys'
  BY DEF ImportKeys, ImportKey
<1>6. OutputRows'
  <2> SUFFICES ASSUME NEW k \in OutputKeys
               PROVE  (PendingKey(k) /\ CommittedKey(k) /\ FreeKey(k) /\ Future(k))'
    BY DEF OutputRows
  <2>1. PendingKey(k) /\ CommittedKey(k) /\ FreeKey(k) /\ Future(k) /\ k[1] \in Jobs /\ k[2] \in 1..Attempts
    BY DEF OutputRows
  <2>2. CASE k[1] = j
    <3>1. PendingKey(k)' /\ CommittedKey(k)' /\ Future(k)'
      BY <1>0, <2>1, <2>2 DEF PendingKey, CommittedKey, Future, ToBeDeleted
    <3>2. put[k].status = "none" /\ (IsCurrent(k)' \/ k[2] > job'[j].version) => Unused(k)
      BY <1>0, <2>1, <2>2 DEF FreeKey, IsCurrent
    <3>3. FreeKey(k)'
      BY <1>0, <2>1, <2>2, <3>2 DEF FreeKey, Unused, Lost, ToBeDeleted
    <3>4. QED
      BY <3>1, <3>3
  <2>3. CASE k[1] # j
    BY <1>0, <2>1, <2>3 DEF PendingKey, CommittedKey, FreeKey, Future, Unused, Lost, ToBeDeleted, IsCurrent
  <2>4. QED
    BY <2>2, <2>3
<1>7. Deletions'
  BY DEF Types, Deletions, Deletion, Lost, ToBeDeleted, IsCurrent, Running, OutputRows, FreeKey, Future, AJob
<1>8. QED
  BY <1>1, <1>2, <1>3, <1>4, <1>5, <1>6, <1>7

LEMMA CancelStep ==
    ASSUME Rows, NEW j \in Jobs, Cancel(j)
    PROVE  Rows'
<1> USE StorageAssumption, KeyFacts DEF Rows, Cancel
<1>1. Types'
  <2>1. job[j] \in AJob
    BY DEF Types
  <2>2. [job[j] EXCEPT !.state = "stopping"] \in AJob
    BY <2>1 DEF AJob, States
  <2>3. QED
    BY <2>2 DEF Types
<1>2. JobRows'
  BY DEF Types, JobRows, JobRow, Key, Tries, AJob, Running, Unfinished, States, Jobs
<1>3. MediaRows'
  BY DEF MediaRows, MediaRow
<1>4. UploadKeys'
  BY DEF UploadKeys, UploadKey, Unused, Lost
<1>5. ImportKeys'
  BY DEF ImportKeys, ImportKey
<1>6. OutputRows'
  BY DEF Types, OutputRows, PendingKey, CommittedKey, FreeKey, Future, Unused, Lost, IsCurrent, ToBeDeleted,
     JobRows, JobRow, Running, AJob
<1>7. Deletions'
  BY DEF Types, Deletions, Deletion, Lost, ToBeDeleted, IsCurrent, Running, AJob
<1>8. QED
  BY <1>1, <1>2, <1>3, <1>4, <1>5, <1>6, <1>7

\* The key of a running attempt.
LEMMA CurrentKey ==
    ASSUME Types, JobRows, NEW j \in Jobs, job[j].state \in Running
    PROVE  /\ Key(j) \in OutputKeys /\ Key(j)[1] = j /\ Key(j)[2] = job[j].version
           /\ \A k \in OutputKeys : IsCurrent(k) /\ k[1] = j => k = Key(j)
<1>1. job[j].version \in 1..Attempts
  BY StorageAssumption DEF Types, JobRows, JobRow, AJob, Tries
<1>2. QED
  BY <1>1, KeyFacts DEF Key, IsCurrent

LEMMA OutputIntentStep ==
    ASSUME Rows, NEW j \in Jobs, NEW b \in Sizes, NEW s \in Recent, OutputIntent(j, b, s)
    PROVE  Rows'
<1> DEFINE k == Key(j)
<1> USE StorageAssumption, KeyFacts DEF Rows
<1>0. s \in Nat /\ s <= now /\ b \in Nat /\ now \in Nat /\ Ttl \in Nat
  BY DEF Recent, Larger, Types
<1>1. job[j].state = "active" /\ k \in OutputKeys /\ k[1] = j /\ k[2] = job[j].version
  BY CurrentKey DEF OutputIntent, ReserveOutput, Running
<1>2. IsCurrent(k) /\ ~ToBeDeleted(k)
  BY <1>1 DEF IsCurrent, Running, Deletions, Deletion
<1>3. PICK e \in Nat : /\ put' = [put EXCEPT ![k] = [status |-> "pending", bytes |-> b, expires |-> e]]
                       /\ put[k].expires <= e /\ now + Ttl <= e
  <2>1. put[k].expires \in Nat
    BY <1>1 DEF Types, APut
  <2>2. Larger(put[k].expires, now + Ttl) \in Nat
    BY <1>0, <2>1 DEF Larger
  <2>3. put[k].expires <= Larger(put[k].expires, now + Ttl) /\ now + Ttl <= Larger(put[k].expires, now + Ttl)
    BY <1>0, <2>1 DEF Larger
  <2>4. QED
    BY <2>2, <2>3 DEF OutputIntent, ReserveOutput
<1>4. PICK u \in Nat : url' = [url EXCEPT ![k] = u] /\ (u = url[k] \/ u <= now + Ttl)
  <2>1. url[k] \in Nat \cup {-1} /\ url \in [Keys -> Nat \cup {-1}] /\ k \in Keys
    BY <1>1 DEF Types
  <2>2. /\ Larger(url[k], s + Ttl) \in Nat
        /\ Larger(url[k], s + Ttl) = url[k] \/ Larger(url[k], s + Ttl) <= now + Ttl
    BY <1>0, <2>1 DEF Larger
  <2>3. url' = [url EXCEPT ![k] = Larger(url[k], s + Ttl)]
    BY <2>1 DEF OutputIntent, Signed
  <2>4. QED
    BY <2>2, <2>3
<1> DEFINE h == IF put[k].status = "none" THEN job[j].held - b ELSE job[j].held
<1>5. /\ h \in Nat /\ job' = [job EXCEPT ![j].held = h] /\ h <= job[j].held
      /\ put[k].status # "none" => h = job[j].held
  <2>1. job[j].held \in Nat
    BY DEF Types, AJob
  <2>2. put[k].status = "none" => b <= job[j].held
    BY DEF OutputIntent, ReserveOutput
  <2>3. h \in Nat /\ h <= job[j].held
    BY <1>0, <2>1, <2>2
  <2>4. job' = [job EXCEPT ![j].held = h]
    BY DEF OutputIntent, ReserveOutput, HeldAfter, Types
  <2>5. QED
    BY <2>3, <2>4
<1>6. UNCHANGED <<now, media, deletion, object, belated, verified, removed>>
  BY DEF OutputIntent
<1>7. put[k].status = "none" \/ (put[k].status = "pending" /\ put[k].bytes = b)
  BY DEF OutputIntent, ReserveOutput
<1> HIDE DEF k, h
<1>11. Types'
  <2>1. job[j] \in AJob
    BY DEF Types
  <2>4. [job[j] EXCEPT !.held = h] \in AJob
    BY <1>5, <2>1 DEF AJob
  <2>5. job' = [job EXCEPT ![j] = [job[j] EXCEPT !.held = h]]
    BY <1>5
  <2>2. [status |-> "pending", bytes |-> b, expires |-> e] \in APut
    BY <1>0 DEF APut
  <2>3. QED
    BY <1>1, <1>3, <1>4, <1>6, <2>2, <2>4, <2>5 DEF Types
<1>12. JobRows'
  BY <1>0, <1>1, <1>3, <1>5, <1>6 DEF Types, JobRows, JobRow, Key, Tries, AJob, Running, Unfinished, APut, k
<1>13. MediaRows'
  BY <1>6 DEF MediaRows, MediaRow
<1>14. UploadKeys'
  BY <1>1, <1>4, <1>6 DEF Types, UploadKeys, UploadKey, Unused, Lost, ToBeDeleted, Media
<1>15. ImportKeys'
  BY <1>1, <1>4, <1>6 DEF Types, ImportKeys, ImportKey, Media
<1>16. OutputRows'
  <2> SUFFICES ASSUME NEW l \in OutputKeys
               PROVE  (PendingKey(l) /\ CommittedKey(l) /\ FreeKey(l) /\ Future(l))'
    BY DEF OutputRows
  <2>1. l[1] \in Jobs /\ PendingKey(l) /\ CommittedKey(l) /\ FreeKey(l) /\ Future(l)
    BY DEF OutputRows
  <2>2. /\ job'[l[1]].version = job[l[1]].version /\ job'[l[1]].state = job[l[1]].state
        /\ job'[l[1]].output = job[l[1]].output /\ job'[l[1]].bytes = job[l[1]].bytes
    BY <2>1, <1>5 DEF Types, AJob
  <2>3. CASE l # k
    <3>1. put'[l] = put[l] /\ url'[l] = url[l]
      BY <1>1, <1>3, <1>4, <2>3 DEF Types
    <3>2. QED
      BY <1>6, <2>1, <2>2, <3>1
         DEF PendingKey, CommittedKey, FreeKey, Future, Unused, Lost, IsCurrent, ToBeDeleted
  <2>4. CASE l = k
    <3>1. put'[l] = [status |-> "pending", bytes |-> b, expires |-> e] /\ url'[l] = u
      BY <1>1, <1>3, <1>4, <2>4 DEF Types
    <3>2. u <= e
      <4>1. url[k] <= put[k].expires
        BY <1>0, <1>1, <1>2, <1>7, <2>1, <2>4 DEF PendingKey, FreeKey, Unused
      <4>2. url[k] \in Int /\ put[k].expires \in Int
        BY <1>1 DEF Types, APut
      <4>3. QED
        BY <1>0, <1>3, <1>4, <4>1, <4>2
    <3>3. k \in verified => k \in object
      BY <1>2, <1>7, <2>1, <2>4 DEF PendingKey, FreeKey, Unused
    <3>4. job[k[1]].output # k /\ (k[1] \in Imports => media[k[1]].key # k)
      <4>1. k[1] \in Imports => media[k[1]].key # k
        BY <1>1, <1>7, <2>1, <2>4 DEF PendingKey, FreeKey, JobRows, JobRow, Running, Unfinished
      <4>2. QED
        BY <1>7, <2>1, <2>4, <4>1 DEF PendingKey, FreeKey
    <3>5. job[k[1]].version \in Nat
      BY <1>1 DEF Types, AJob
    <3>6. QED
      BY <1>1, <1>6, <2>2, <2>4, <3>1, <3>2, <3>3, <3>4, <3>5
         DEF PendingKey, CommittedKey, FreeKey, Future, ToBeDeleted
  <2>5. QED
    BY <2>3, <2>4
<1>17. Deletions'
  BY <1>0, <1>1, <1>2, <1>4, <1>5, <1>6 DEF Types, Deletions, Deletion, Lost, ToBeDeleted, IsCurrent, Running, AJob
<1>18. QED
  BY <1>11, <1>12, <1>13, <1>14, <1>15, <1>16, <1>17

\* A row knows of the object that the key may have.
Charged(k) == IF k \in OutputKeys THEN put[k].status # "none" ELSE media[k[1]].key = k

\* What a deletion that is enqueued waits for.
LEMMA EnqueuedFacts ==
    ASSUME Rows, NEW ks \in SUBSET Keys
    PROVE  /\ Enqueued(ks) \in [Keys -> ADeletion]
           /\ \A k \in Keys : k \notin ks \/ ToBeDeleted(k) => Enqueued(ks)[k] = deletion[k]
           /\ \A k \in Keys : Enqueued(ks)[k].at # Never <=> (k \in ks \/ ToBeDeleted(k))
           /\ \A k \in ks : Charged(k) => url[k] <= Enqueued(ks)[k].at
<1> USE DEF Rows
<1>1. ASSUME NEW k \in Keys
      PROVE  NotBefore(k) \in Nat /\ [at |-> NotBefore(k), tries |-> 0] \in ADeletion
  <2>1. NotBefore(k) \in Nat
    BY NotBeforeIsLate
  <2>2. QED
    BY <2>1, StorageAssumption DEF ADeletion
<1>2. ASSUME NEW k \in Keys
      PROVE  Enqueued(ks)[k] = IF k \in ks /\ ~ToBeDeleted(k) THEN [at |-> NotBefore(k), tries |-> 0] ELSE deletion[k]
  BY DEF Enqueued, ToBeDeleted
<1>3. Enqueued(ks) \in [Keys -> ADeletion]
  <2>1. Enqueued(ks) = [k \in Keys |-> Enqueued(ks)[k]]
    BY DEF Enqueued
  <2>2. \A k \in Keys : Enqueued(ks)[k] \in ADeletion
    BY <1>1, <1>2 DEF Types
  <2>3. QED
    BY <2>1, <2>2
<1>4. ASSUME NEW k \in ks, Charged(k)
      PROVE  url[k] <= NotBefore(k)
  <2> USE <1>4 DEF Charged
  <2>1. /\ url[k] \in Int /\ NotBefore(k) \in Int /\ k \in Keys
        /\ k \in OutputKeys => put[k].expires \in Int
        /\ k \notin OutputKeys => k[1] \in Media /\ k = MediaKey(k[1]) /\ media[k[1]].created \in Int
    <3>1. k \in Keys
      OBVIOUS
    <3>2. k \in OutputKeys => put[k].expires \in Int
      BY DEF Types, APut
    <3>3. k \notin OutputKeys => k[1] \in Media /\ k = MediaKey(k[1]) /\ media[k[1]].created \in Int
      BY <3>1, KeyFacts DEF Types, AMedia
    <3>4. NotBefore(k) \in Nat
      BY <3>1, <1>1
    <3>5. url[k] \in Nat \cup {-1}
      BY <3>1 DEF Types
    <3>6. QED
      BY <3>1, <3>2, <3>3, <3>4, <3>5
  <2>2. CASE k \in OutputKeys
    <3>1. url[k] <= put[k].expires
      BY <1>4, <2>2 DEF OutputRows, PendingKey, CommittedKey, Types, APut
    <3>2. QED
      BY <1>4, <2>1, <2>2, <3>1, NotBeforeIsLate
  <2>3. CASE k \notin OutputKeys /\ k[1] \in Uploads
    <3>1. url[k] <= media[k[1]].created + Ttl /\ media[k[1]].created + Ttl \in Int
      BY <2>1, <2>3, StorageAssumption DEF UploadKeys, UploadKey
    <3>2. media[k[1]].created + Ttl <= NotBefore(k)
      BY <1>4, <2>1, <2>3, NotBeforeIsLate
    <3>3. QED
      BY <2>1, <3>1, <3>2
  <2>4. CASE k \notin OutputKeys /\ k[1] \in Imports
    <3>1. url[k] = -1
      BY <2>1, <2>4 DEF ImportKeys, ImportKey
    <3> DEFINE n == NotBefore(k)
    <3>2. n \in Nat
      BY <1>1
    <3> HIDE DEF n
    <3>3. url[k] <= n
      BY <3>1, <3>2
    <3>4. QED
      BY <3>3 DEF n
  <2>5. k \notin OutputKeys => k[1] \in Uploads \/ k[1] \in Imports
    BY <2>1 DEF Media
  <2> HIDE DEF Charged
  <2>6. QED
    BY <2>2, <2>3, <2>4, <2>5, Zenon
<1>5. ASSUME NEW k \in Keys
      PROVE  Enqueued(ks)[k].at # Never <=> (k \in ks \/ ToBeDeleted(k))
  <2> DEFINE n == NotBefore(k)
  <2>1. n \in Nat
    BY <1>1
  <2>2. Enqueued(ks)[k].at = IF k \in ks /\ ~ToBeDeleted(k) THEN n ELSE deletion[k].at
    BY DEF Enqueued, ToBeDeleted
  <2> HIDE DEF n
  <2>3. QED
    BY <2>1, <2>2 DEF ToBeDeleted
<1>6. ASSUME NEW k \in ks, Charged(k)
      PROVE  url[k] <= Enqueued(ks)[k].at
  <2> k \in Keys
    OBVIOUS
  <2>1. CASE ToBeDeleted(k)
    <3>1. Enqueued(ks)[k] = deletion[k]
      BY <1>2, <2>1
    <3>2. url[k] <= deletion[k].at
      BY <2>1 DEF Deletions, Deletion
    <3>3. QED
      BY <3>1, <3>2
  <2>2. CASE ~ToBeDeleted(k)
    <3>1. Enqueued(ks)[k].at = NotBefore(k)
      BY <2>2, <1>6 DEF Enqueued, ToBeDeleted
    <3>2. QED
      BY <1>4, <1>6, <3>1
  <2>3. QED
    BY <2>1, <2>2
<1>7. QED
  BY <1>2, <1>3, <1>5, <1>6

LEMMA DeleteMediaStep ==
    ASSUME Rows, NEW m \in Media, DeleteMedia(m)
    PROVE  Rows'
<1> USE StorageAssumption, KeyFacts DEF Rows
<1> DEFINE k == media[m].key
<1>0. /\ media' = [media EXCEPT ![m].status = "deleting"]
      /\ UNCHANGED <<now, job, put, object, belated, url, verified, removed>>
      /\ m \in LiveMedia /\ media[m].status # "deleting" /\ ~InUse(m)
  BY DEF DeleteMedia
<1>1. k = MediaKey(m) \/ (m \in Imports /\ k = Fetched(m) /\ k \in OutputKeys)
  <2>1. m \in Imports => Fetched(m) \in OutputKeys
    BY <1>0 DEF Fetched, Jobs
  <2>2. MediaRow(m) /\ media[m].status # "absent"
    BY <1>0 DEF MediaRows, LiveMedia
  <2>3. QED
    BY <2>1, <2>2 DEF MediaRow
<1>2. k \in Keys /\ k[1] = m
  BY <1>1 DEF Fetched
<1>3. k \in OutputKeys => put[k].status = "committed"
  BY <1>0, <1>1, <1>2 DEF OutputRows, FreeKey, PendingKey, LiveMedia, Types, APut
<1>4. /\ deletion' \in [Keys -> ADeletion]
      /\ \A l \in Keys : l # k \/ ToBeDeleted(l) => deletion'[l] = deletion[l]
      /\ \A l \in Keys : ToBeDeleted(l)' <=> (l = k \/ ToBeDeleted(l))
      /\ url[k] <= deletion'[k].at
  <2>1. deletion' = Enqueued({k})
    BY DEF DeleteMedia
  <2>2. Charged(k)
    BY <1>1, <1>2, <1>3 DEF Charged
  <2>3. {k} \in SUBSET Keys
    BY <1>2
  <2> HIDE DEF k
  <2>4. QED
    BY <2>1, <2>2, <2>3, EnqueuedFacts DEF ToBeDeleted
<1>5. \A n \in Media : media[n].key = k => n = m
  BY <1>1, <1>2 DEF MediaRows, MediaRow, Fetched
<1> HIDE DEF k
<1>11. Types'
  <2>1. media[m] \in AMedia
    BY DEF Types
  <2>2. [media[m] EXCEPT !.status = "deleting"] \in AMedia
    BY <2>1 DEF AMedia, Statuses
  <2>3. QED
    BY <1>0, <1>4, <2>2 DEF Types
<1>12. JobRows'
  BY <1>0 DEF Types, JobRows, JobRow, Key, Tries, InUse, AMedia
<1>13. MediaRows'
  BY <1>0 DEF Types, MediaRows, MediaRow, AMedia, LiveMedia
<1>14. UploadKeys'
  <2> SUFFICES ASSUME NEW n \in Uploads PROVE UploadKey(n)'
    BY DEF UploadKeys
  <2>1. UploadKey(n) /\ n \in Media
    BY DEF UploadKeys, Media
  <2>2. /\ media'[n].created = media[n].created /\ n # m => media'[n] = media[n]
        /\ n = m => media'[n].status = "deleting"
    BY <1>0, <2>1 DEF Types, AMedia
  <2>3. CASE n = m
    BY <1>0, <2>1, <2>2, <2>3 DEF UploadKey, LiveMedia
  <2>4. CASE n # m
    <3>1. MediaKey(n) # k /\ MediaKey(n) \in Keys
      BY <1>2, <2>1, <2>4
    <3>2. deletion'[MediaKey(n)] = deletion[MediaKey(n)]
      BY <1>4, <3>1
    <3>3. QED
      BY <1>0, <2>1, <2>2, <2>4, <3>2 DEF UploadKey, Unused, Lost
  <2>5. QED
    BY <2>3, <2>4
<1>15. ImportKeys'
  BY <1>0 DEF ImportKeys, ImportKey
<1>16. OutputRows'
  BY <1>0, <1>2, <1>3, <1>4
     DEF Types, OutputRows, PendingKey, CommittedKey, FreeKey, Future, Unused, Lost, IsCurrent, AMedia, LiveMedia
<1>17. Deletions'
  <2> SUFFICES ASSUME NEW l \in Keys PROVE Deletion(l)'
    BY DEF Deletions
  <2>1. Deletion(l)
    BY DEF Deletions
  <2>2. \A n \in Media : /\ media'[n].key = media[n].key /\ n # m => media'[n] = media[n]
                         /\ media'[m].status = "deleting"
    BY <1>0 DEF Types, AMedia
  <2>3. l \in removed => ToBeDeleted(l)' /\ Lost(l)'
    BY <1>0, <1>4, <2>1 DEF Deletion, Lost
  <2>4. CASE l # k
    BY <1>0, <1>4, <2>1, <2>2, <2>3, <2>4 DEF Deletion, Lost, ToBeDeleted, IsCurrent
  <2>5. CASE l = k
    <3>1. l \in OutputKeys => ~IsCurrent(l)'
      BY <1>0, <1>3, <2>5 DEF OutputRows, CommittedKey, IsCurrent, Running
    <3>2. \A n \in Media : media'[n].key = l => media'[n].status = "deleting"
      BY <1>0, <1>5, <2>2, <2>5
    <3>3. l \notin OutputKeys => media'[l[1]].key = l
      BY <1>0, <1>2, <2>2, <2>5 DEF k
    <3>4. QED
      BY <1>0, <1>4, <2>3, <2>5, <3>1, <3>2, <3>3 DEF Deletion
  <2>6. QED
    BY <2>4, <2>5
<1>18. QED
  BY <1>11, <1>12, <1>13, <1>14, <1>15, <1>16, <1>17

LEMMA RemoveStep ==
    ASSUME Rows, NEW k \in Keys, Remove(k)
    PROVE  Rows'
<1> USE StorageAssumption, KeyFacts DEF Rows, Remove, Due
<1>0. ToBeDeleted(k) /\ url[k] <= now
  BY DEF ToBeDeleted, Deletions, Deletion, Types, ADeletion
<1>1. Types'
  BY DEF Types
<1>2. JobRows'
  BY DEF JobRows, JobRow, Key, Tries
<1>3. MediaRows'
  BY DEF MediaRows, MediaRow
<1>4. UploadKeys'
  BY <1>0 DEF Types, UploadKeys, UploadKey, Unused, Lost, ToBeDeleted, Media, Deletions, Deletion, MediaRows, MediaRow
<1>5. ImportKeys'
  BY DEF Types, ImportKeys, ImportKey, Media
<1>6. OutputRows'
  BY <1>0 DEF Types, OutputRows, PendingKey, CommittedKey, FreeKey, Future, Unused, Lost, IsCurrent, ToBeDeleted
<1>7. Deletions'
  BY <1>0 DEF Types, Deletions, Deletion, Lost, ToBeDeleted, IsCurrent
<1>8. QED
  BY <1>1, <1>2, <1>3, <1>4, <1>5, <1>6, <1>7

LEMMA DeletionFailedStep ==
    ASSUME Rows, NEW k \in Keys, DeletionFailed(k)
    PROVE  Rows'
<1> USE StorageAssumption, KeyFacts DEF Rows
<1>0. ToBeDeleted(k) /\ url[k] <= now
  BY DEF DeletionFailed, Due, ToBeDeleted, Deletions, Deletion, Types, ADeletion, Lost
<1>1. PICK d \in ADeletion : /\ deletion' = [deletion EXCEPT ![k] = d]
                             /\ d.at # Never /\ url[k] <= d.at
  <2> DEFINE t == deletion[k].tries
             n == now + Backoff * 2^t
  <2>1. t \in 0..MaxFailures /\ t < MaxFailures /\ now \in Nat
    BY DEF DeletionFailed, Types, ADeletion
  <2>2. Backoff * 2^t \in Nat /\ t + 1 \in 0..MaxFailures
    BY <2>1
  <2>3. n \in Nat /\ now <= n /\ url[k] \in Int
    BY <2>1, <2>2 DEF Types
  <2>4. deletion' = [deletion EXCEPT ![k] = [at |-> n, tries |-> t + 1]]
    BY DEF DeletionFailed
  <2>5. [at |-> n, tries |-> t + 1] \in ADeletion
    BY <2>2, <2>3 DEF ADeletion
  <2> DEFINE d == [at |-> n, tries |-> t + 1]
  <2>6. d.at # Never /\ url[k] <= d.at
    BY <1>0, <2>1, <2>3
  <2> HIDE DEF d
  <2>7. QED
    BY <2>4, <2>5, <2>6 DEF d
<1>2. UNCHANGED <<now, media, job, put, object, belated, url, verified>> /\ removed' = removed \ {k}
  BY DEF DeletionFailed
<1>3. \A l \in Keys : ToBeDeleted(l)' = ToBeDeleted(l)
  BY <1>0, <1>1 DEF ToBeDeleted, Types
<1>11. Types'
  BY <1>1, <1>2 DEF Types
<1>12. JobRows'
  BY <1>2 DEF JobRows, JobRow, Key, Tries
<1>13. MediaRows'
  BY <1>2 DEF MediaRows, MediaRow
<1>14. UploadKeys'
  BY <1>2, <1>3 DEF Types, UploadKeys, UploadKey, Unused, Lost, ToBeDeleted, Media
<1>15. ImportKeys'
  BY <1>2 DEF Types, ImportKeys, ImportKey, Media
<1>16. OutputRows'
  BY <1>2, <1>3 DEF Types, OutputRows, PendingKey, CommittedKey, FreeKey, Future, Unused, Lost, IsCurrent, ToBeDeleted
<1>17. Deletions'
  BY <1>1, <1>2, <1>3 DEF Types, Deletions, Deletion, Lost, IsCurrent
<1>18. QED
  BY <1>11, <1>12, <1>13, <1>14, <1>15, <1>16, <1>17

LEMMA TickStep ==
    ASSUME Rows, Tick
    PROVE  Rows'
<1> USE StorageAssumption, KeyFacts DEF Rows, Tick
<1>1. Types'
  BY DEF Types
<1>2. JobRows'
  BY DEF JobRows, JobRow, Key, Tries
<1>3. MediaRows'
  BY DEF MediaRows, MediaRow, Types, AMedia
<1>4. UploadKeys'
  BY DEF Types, UploadKeys, UploadKey, Unused, Lost, ToBeDeleted, Media
<1>5. ImportKeys'
  BY DEF ImportKeys, ImportKey
<1>6. OutputRows'
  BY DEF Types, OutputRows, PendingKey, CommittedKey, FreeKey, Future, Unused, Lost, IsCurrent, ToBeDeleted
<1>7. Deletions'
  BY DEF Types, Deletions, Deletion, Lost, ToBeDeleted, IsCurrent
<1>8. QED
  BY <1>1, <1>2, <1>3, <1>4, <1>5, <1>6, <1>7

LEMMA FinishCompletedStep ==
    ASSUME Rows, NEW j \in Jobs, FinishCompleted(j)
    PROVE  Rows'
<1> USE StorageAssumption, KeyFacts DEF Rows
<1> DEFINE k == Key(j)
           r == job'[j]
           f == media'[j]
<1>1. job[j].state = "active" /\ k \in OutputKeys /\ k[1] = j /\ k[2] = job[j].version
  BY CurrentKey DEF FinishCompleted, Running
<1>2. /\ put[k].status = "pending" /\ k \in verified /\ ~ToBeDeleted(k) /\ k \in object
      /\ url[k] <= put[k].expires
  <2>1. put[k].status = "pending" /\ k \in verified
    BY DEF FinishCompleted
  <2>2. ~ToBeDeleted(k)
    BY <1>1 DEF IsCurrent, Running, Deletions, Deletion
  <2>3. PendingKey(k)
    BY <1>1 DEF OutputRows
  <2>4. QED
    BY <2>1, <2>2, <2>3 DEF PendingKey
<1>3. job[j] \in AJob /\ job[j].output = NoKey /\ job[j].version > 0
  BY <1>1 DEF Types, JobRows, JobRow, Running
<1>4. /\ r \in AJob /\ job' = [job EXCEPT ![j] = r]
      /\ r.state = "ended" /\ r.held = 0 /\ r.version = job[j].version /\ r.budget = job[j].budget
      /\ j \in Locals => r.output = k /\ r.bytes = put[k].bytes
      /\ j \notin Locals => r.output = NoKey /\ r.bytes = job[j].bytes
  <2> DEFINE q == [job[j] EXCEPT !.state = "ended", !.held = 0,
                       !.output = IF j \in Locals THEN k ELSE job[j].output,
                       !.bytes = IF j \in Locals THEN put[k].bytes ELSE job[j].bytes]
  <2>1. job' = [job EXCEPT ![j] = q]
    <3> DEFINE p == [job[j] EXCEPT
              !.state = IF "completed" = "retry_wait" THEN "queued" ELSE "ended",
              !.held = IF "completed" = "retry_wait" THEN @ ELSE 0,
              !.output = IF "completed" = "completed" /\ j \in Locals THEN k ELSE @,
              !.bytes = IF "completed" = "completed" /\ j \in Locals THEN put[k].bytes ELSE @]
    <3>1. job' = [job EXCEPT ![j] = p]
      BY DEF FinishCompleted, Settle, Types
    <3>2. p = q
      OBVIOUS
    <3>3. QED
      BY <3>1, <3>2
  <2>2. put[k].bytes \in Nat
    BY <1>1 DEF Types, APut
  <2>3. q \in AJob
    BY <1>1, <1>3, <2>2 DEF AJob, States
  <2>4. r = q
    BY <2>1 DEF Types
  <2>5. /\ q.state = "ended" /\ q.held = 0 /\ q.version = job[j].version /\ q.budget = job[j].budget
        /\ j \in Locals => q.output = k /\ q.bytes = put[k].bytes
        /\ j \notin Locals => q.output = NoKey /\ q.bytes = job[j].bytes
    BY <1>3 DEF AJob
  <2> HIDE DEF q
  <2>6. QED
    BY <2>1, <2>3, <2>4, <2>5
<1>5. /\ put' = [put EXCEPT ![k].status = "committed"]
      /\ verified' = verified \ {k}
      /\ UNCHANGED <<now, object, belated, url, removed, deletion>>
  BY DEF FinishCompleted, Settle
<1>6. ASSUME j \in Imports
      PROVE  /\ j \in Media /\ f \in AMedia /\ media' = [media EXCEPT ![j] = f] /\ k = Fetched(j)
             /\ f.status = "ready" /\ f.bytes = put[k].bytes /\ f.key = k /\ f.created = media[j].created
             /\ media[j].status = "importing" /\ media[j].key = MediaKey(j)
  <2>1. j \in Media /\ media[j] \in AMedia /\ put[k].bytes \in Nat /\ k \in Keys
    BY <1>1, <1>6 DEF Types, Media, APut
  <2> DEFINE g == [media[j] EXCEPT !.status = "ready", !.bytes = put[k].bytes, !.key = k]
  <2>2. media' = [media EXCEPT ![j] = g]
    BY <1>6, <2>1 DEF FinishCompleted, Settle, SettledMedia, Types
  <2>3. g \in AMedia
    BY <2>1 DEF AMedia, Statuses
  <2>4. f = g
    BY <2>1, <2>2 DEF Types
  <2>5. g.status = "ready" /\ g.bytes = put[k].bytes /\ g.key = k /\ g.created = media[j].created
    BY <2>1 DEF AMedia
  <2>6. k = Fetched(j)
    <3>1. job[j].version = 1
      BY <1>3, <1>6 DEF JobRows, JobRow, Tries, AJob
    <3>2. QED
      BY <3>1 DEF Key, Fetched
  <2>7. media[j].status = "importing" /\ media[j].key = MediaKey(j)
    BY <1>1, <1>6, <2>1 DEF JobRows, JobRow, Unfinished, Running, MediaRows, MediaRow
  <2> HIDE DEF g, k
  <2>8. QED
    BY <2>1, <2>2, <2>3, <2>4, <2>5, <2>6, <2>7
<1>7. j \notin Imports => media' = media
  BY DEF FinishCompleted, Settle, SettledMedia
<1>8. \A l \in Jobs \ {j} : job'[l] = job[l]
  BY <1>4 DEF Types
<1>9. \A m \in Media : m # j => media'[m] = media[m]
  BY <1>6, <1>7 DEF Types
<1>10. \A l \in OutputKeys \ {k} : put'[l] = put[l]
  BY <1>5 DEF Types
<1>11. put'[k].status = "committed" /\ put'[k].bytes = put[k].bytes /\ put'[k].expires = put[k].expires
  BY <1>1, <1>5 DEF Types, APut
<1> HIDE DEF k, r, f
<1>21. Types'
  <2>1. [put[k] EXCEPT !.status = "committed"] \in APut
    BY <1>1 DEF Types, APut
  <2>2. put' = [put EXCEPT ![k] = [put[k] EXCEPT !.status = "committed"]]
    BY <1>5
  <2>3. media' \in [Media -> AMedia]
    BY <1>6, <1>7 DEF Types
  <2>4. QED
    BY <1>1, <1>4, <1>5, <2>1, <2>2, <2>3 DEF Types
<1>22. JobRows'
  <2> SUFFICES ASSUME NEW l \in Jobs PROVE JobRow(l)'
    BY DEF JobRows
  <2>1. CASE l = j
    BY <1>1, <1>3, <1>4, <2>1 DEF JobRows, JobRow, Running, Unfinished, AJob, r, Tries
  <2>2. CASE l # j
    <3>1. job'[l] = job[l] /\ JobRow(l)
      BY <1>8, <2>2 DEF JobRows
    <3>2. job[l].state \in Running => put'[Key(l)] = put[Key(l)] /\ Key(l)' = Key(l)
      <4>1. job[l].state \in Running => Key(l) \in OutputKeys /\ Key(l) # k
        BY <1>1, <2>2, CurrentKey
      <4>2. QED
        BY <1>10, <3>1, <4>1 DEF Key
    <3>3. job[l].state \in Unfinished /\ l \in Locals => media'[job[l].media].status = "ready"
      BY <1>6, <1>7, <1>9, <3>1 DEF JobRow, Types, AJob
    <3>4. l \in Imports => media'[l] = media[l]
      BY <1>9, <2>2 DEF Media
    <3>5. QED
      BY <3>1, <3>2, <3>3, <3>4 DEF JobRow, Tries
  <2>3. QED
    BY <2>1, <2>2
<1>23. MediaRows'
  <2> SUFFICES ASSUME NEW m \in Media PROVE MediaRow(m)'
    BY DEF MediaRows
  <2>1. MediaRow(m)
    BY DEF MediaRows
  <2>2. CASE m # j \/ j \notin Imports
    BY <1>5, <1>7, <1>9, <2>1, <2>2 DEF MediaRow
  <2>3. CASE m = j /\ j \in Imports
    BY <1>1, <1>5, <1>6, <2>1, <2>3 DEF MediaRow, f
  <2>4. QED
    BY <2>2, <2>3
<1>24. UploadKeys'
  <2>1. \A m \in Uploads : m \in Media /\ media'[m] = media[m] /\ MediaKey(m) # k
    BY <1>1, <1>7, <1>9 DEF Media
  <2>2. QED
    BY <1>5, <2>1 DEF UploadKeys, UploadKey, Unused, Lost, ToBeDeleted
<1>25. ImportKeys'
  BY <1>5 DEF ImportKeys, ImportKey
<1>26. OutputRows'
  <2> SUFFICES ASSUME NEW l \in OutputKeys
               PROVE  (PendingKey(l) /\ CommittedKey(l) /\ FreeKey(l) /\ Future(l))'
    BY DEF OutputRows
  <2>1. l[1] \in Jobs /\ PendingKey(l) /\ CommittedKey(l) /\ FreeKey(l) /\ Future(l)
    BY DEF OutputRows
  <2>2. CASE l = k
    <3>1. job[j].version \in Nat
      BY <1>3 DEF AJob
    <3>2. PendingKey(l)' /\ FreeKey(l)'
      BY <1>11, <2>2 DEF PendingKey, FreeKey
    <3>3. CommittedKey(l)'
      <4>1. url'[k] <= put'[k].expires /\ k[2] <= job'[k[1]].version /\ k \in object'
        BY <1>1, <1>2, <1>4, <1>5, <1>11, <3>1 DEF r
      <4>2. job'[k[1]].state = "ended"
        BY <1>1, <1>4 DEF r
      <4>3. j \in Locals => job'[j].output = k /\ job'[j].bytes = put'[k].bytes
        BY <1>4, <1>11 DEF r
      <4>4. j \in Imports => /\ media'[j].key = k /\ media'[j].bytes = put'[k].bytes
                             /\ media'[j].status = "ready"
        BY <1>6, <1>11 DEF f
      <4>5. QED
        BY <1>1, <2>2, <4>1, <4>2, <4>3, <4>4 DEF CommittedKey
    <3>4. Future(l)'
      BY <1>1, <1>4, <2>2, <3>1 DEF Future, r
    <3>5. QED
      BY <3>2, <3>3, <3>4
  <2>3. CASE l # k /\ l[1] # j
    <3>1. put'[l] = put[l] /\ job'[l[1]] = job[l[1]] /\ (l[1] \in Imports => media'[l[1]] = media[l[1]])
      BY <1>8, <1>9, <1>10, <2>1, <2>3 DEF Media
    <3>2. QED
      BY <1>5, <2>1, <2>3, <3>1
         DEF PendingKey, CommittedKey, FreeKey, Future, Unused, Lost, IsCurrent, ToBeDeleted
  <2>4. CASE l # k /\ l[1] = j
    <3>1. /\ put'[l] = put[l] /\ job'[j].version = job[j].version
          /\ job'[j].output # l /\ job'[j].state = "ended"
      BY <1>4, <1>10, <2>4 DEF r
    <3>2. j \in Imports => media'[j].key # l
      BY <1>6, <2>4 DEF f
    <3>3. put[l].status # "committed"
      BY <1>1, <2>1, <2>4 DEF CommittedKey
    <3>4. QED
      BY <1>5, <2>1, <2>4, <3>1, <3>2, <3>3
         DEF PendingKey, CommittedKey, FreeKey, Future, Unused, Lost, IsCurrent, ToBeDeleted, Running
  <2>5. QED
    BY <2>2, <2>3, <2>4
<1>27. Deletions'
  <2> SUFFICES ASSUME NEW l \in Keys PROVE Deletion(l)'
    BY DEF Deletions
  <2>1. Deletion(l)
    BY DEF Deletions
  <2>2. CASE ~ToBeDeleted(l)
    BY <1>5, <2>1, <2>2 DEF Deletion, ToBeDeleted
  <2>3. CASE ToBeDeleted(l)
    <3>1. l # k
      BY <1>2, <2>3
    <3>2. l \in OutputKeys => ~IsCurrent(l)'
      <4>1. l \in OutputKeys => (IsCurrent(l)' => IsCurrent(l))
        BY <1>4, <1>8 DEF IsCurrent, Running, r
      <4>2. QED
        BY <2>1, <2>3, <4>1 DEF Deletion
    <3>3. \A m \in Media : media'[m].key = l => media'[m].status = "deleting"
      BY <1>6, <1>7, <1>9, <2>1, <2>3, <3>1 DEF Deletion, f
    <3>4. l \notin OutputKeys => media'[l[1]].key = l
      BY <1>6, <1>7, <1>9, <2>1, <2>3 DEF Deletion
    <3>5. QED
      BY <1>5, <2>1, <2>3, <3>2, <3>3, <3>4 DEF Deletion, Lost, ToBeDeleted
  <2>4. QED
    BY <2>2, <2>3
<1>28. QED
  BY <1>21, <1>22, <1>23, <1>24, <1>25, <1>26, <1>27

LEMMA SettleOtherwiseStep ==
    ASSUME Rows, NEW j \in Jobs, NEW outcome \in {"failed", "stopped", "retry_wait"},
           job[j].state \in Unfinished,
           outcome = "retry_wait" => job[j].state = "active" /\ job[j].version < Tries(j),
           Settle(j, outcome)
    PROVE  Rows'
<1> USE StorageAssumption, KeyFacts DEF Rows
<1> DEFINE k == Key(j)
           r == job'[j]
           charged == job[j].version > 0 /\ put[k].status = "pending"
<1>1. job[j] \in AJob /\ JobRow(j)
  BY DEF Types, JobRows
<1>2. charged => k \in OutputKeys /\ k[1] = j /\ k[2] = job[j].version
  BY <1>1 DEF JobRow, AJob, Tries, Key
<1>3. /\ r \in AJob /\ job' = [job EXCEPT ![j] = r]
      /\ r.state \in {"queued", "ended"} /\ r.held \in {0, job[j].held} /\ (r.state = "ended" => r.held = 0)
      /\ r.media = job[j].media /\ r.version = job[j].version /\ r.budget = job[j].budget
      /\ r.output = job[j].output /\ r.bytes = job[j].bytes
  <2> DEFINE q == [job[j] EXCEPT
                       !.state = IF outcome = "retry_wait" THEN "queued" ELSE "ended",
                       !.held = IF outcome = "retry_wait" THEN job[j].held ELSE 0,
                       !.output = IF outcome = "completed" /\ j \in Locals THEN k ELSE job[j].output,
                       !.bytes = IF outcome = "completed" /\ j \in Locals THEN put[k].bytes ELSE job[j].bytes]
  <2>1. job' = [job EXCEPT ![j] = q]
    BY DEF Settle, Types
  <2>2. r = q
    BY <2>1 DEF Types
  <2>3. /\ q.state \in {"queued", "ended"} /\ q.held \in {0, job[j].held} /\ (q.state = "ended" => q.held = 0)
        /\ q.media = job[j].media /\ q.version = job[j].version /\ q.budget = job[j].budget
        /\ q.output = job[j].output /\ q.bytes = job[j].bytes
    BY <1>1 DEF AJob
  <2>4. q \in AJob
    BY <1>1 DEF AJob, States
  <2> HIDE DEF q
  <2>5. QED
    BY <2>1, <2>2, <2>3, <2>4
<1>4. put' = put /\ verified' = verified \ {k} /\ UNCHANGED <<now, object, belated, url, removed>>
  BY DEF Settle
<1>5. /\ deletion' \in [Keys -> ADeletion]
      /\ \A l \in Keys : ToBeDeleted(l) => deletion'[l] = deletion[l]
      /\ \A l \in Keys : ToBeDeleted(l)' <=> (ToBeDeleted(l) \/ (charged /\ l = k))
      /\ charged => url[k] <= deletion'[k].at
  <2>1. CASE charged
    <3>1. deletion' = Enqueued({k})
      BY <2>1 DEF Settle
    <3>2. Charged(k) /\ {k} \in SUBSET Keys
      BY <1>2, <2>1 DEF Charged
    <3> HIDE DEF k
    <3>3. QED
      BY <2>1, <3>1, <3>2, EnqueuedFacts DEF ToBeDeleted
  <2>2. CASE ~charged
    <3>1. deletion' = deletion
      BY <2>2 DEF Settle
    <3>2. QED
      BY <2>2, <3>1 DEF ToBeDeleted, Types
  <2>3. QED
    BY <2>1, <2>2
<1>6. /\ \A m \in Media : m # j => media'[m] = media[m]
      /\ j \notin Imports => media' = media
      /\ j \in Imports => /\ j \in Media /\ media'[j] \in AMedia /\ media' = [media EXCEPT ![j] = media'[j]]
                          /\ media[j].status = "importing" /\ media'[j].status = "failed"
                          /\ media'[j].key = media[j].key /\ media'[j].bytes = media[j].bytes
                          /\ media'[j].created = media[j].created /\ media[j].key = MediaKey(j)
  <2>1. CASE j \notin Imports
    BY <2>1 DEF Settle, SettledMedia
  <2>2. CASE j \in Imports
    <3>1. j \in Media /\ media[j] \in AMedia /\ media[j].status = "importing" /\ media[j].key = MediaKey(j)
      BY <1>1, <2>2 DEF Media, Types, JobRow, MediaRows, MediaRow
    <3>2. outcome # "retry_wait"
      BY <1>1, <2>2 DEF JobRow, Tries, AJob, Running
    <3> DEFINE f == [media[j] EXCEPT !.status = "failed"]
    <3>3. media' = [media EXCEPT ![j] = f]
      BY <2>2, <3>2 DEF Settle, SettledMedia
    <3>4. /\ f \in AMedia /\ f.status = "failed" /\ f.key = media[j].key /\ f.bytes = media[j].bytes
          /\ f.created = media[j].created
      BY <3>1 DEF AMedia, Statuses
    <3> HIDE DEF f
    <3>5. media'[j] = f
      BY <3>1, <3>3 DEF Types
    <3>6. \A m \in Media : m # j => media'[m] = media[m]
      BY <3>3 DEF Types
    <3>7. QED
      BY <2>2, <3>1, <3>3, <3>4, <3>5, <3>6
  <2>3. QED
    BY <2>1, <2>2
<1>7. \A l \in Jobs \ {j} : job'[l] = job[l]
  BY <1>3 DEF Types
<1> HIDE DEF k, r
<1>21. Types'
  <2>1. media' \in [Media -> AMedia]
    BY <1>6 DEF Types
  <2>2. QED
    BY <1>3, <1>4, <1>5, <2>1 DEF Types
<1>22. JobRows'
  <2> SUFFICES ASSUME NEW l \in Jobs PROVE JobRow(l)'
    BY DEF JobRows
  <2>1. CASE l = j
    <3>1. j \in Locals /\ r.state = "queued" => media'[r.media].status = "ready"
      BY <1>1, <1>3, <1>6 DEF JobRow, r
    <3>2. j \in Imports => r.state = "ended"
      <4>1. j \in Imports => outcome # "retry_wait"
        BY <1>1 DEF JobRow, Tries, AJob, Running
      <4>2. QED
        BY <1>1, <4>1 DEF Settle, Types, AJob, r
    <3>3. r.output = NoKey
      BY <1>1, <1>3 DEF JobRow, Unfinished, Running
    <3>4. QED
      BY <1>1, <1>3, <2>1, <3>1, <3>2, <3>3 DEF JobRow, Running, Unfinished, AJob, r, Tries
  <2>2. CASE l # j
    <3>1. job'[l] = job[l] /\ JobRow(l)
      BY <1>7, <2>2 DEF JobRows
    <3>2. job[l].state \in Unfinished /\ l \in Locals => media'[job[l].media].status = "ready"
      <4>1. job[l].state \in Unfinished /\ l \in Locals =>
              job[l].media \in Media /\ media[job[l].media].status = "ready"
        BY <3>1 DEF JobRow
      <4>2. QED
        BY <1>6, <4>1
    <3>3. l \in Imports => media'[l] = media[l]
      BY <1>6, <2>2 DEF Media
    <3>4. put'[Key(l)'] = put[Key(l)]
      BY <1>4, <3>1 DEF Key
    <3>5. QED
      BY <3>1, <3>2, <3>3, <3>4 DEF JobRow, Tries
  <2>3. QED
    BY <2>1, <2>2
<1>23. MediaRows'
  BY <1>4, <1>6 DEF MediaRows, MediaRow
<1>24. UploadKeys'
  <2> SUFFICES ASSUME NEW m \in Uploads PROVE UploadKey(m)'
    BY DEF UploadKeys
  <2>1. UploadKey(m) /\ m \in Media /\ media'[m] = media[m]
    BY <1>6 DEF UploadKeys, Media
  <2>2. charged => MediaKey(m) # k
    BY <1>2, <2>1
  <2>3. ToBeDeleted(MediaKey(m))' = ToBeDeleted(MediaKey(m))
    BY <1>5, <2>1, <2>2 DEF ToBeDeleted
  <2>4. QED
    BY <1>4, <2>1, <2>3 DEF UploadKey, Unused, Lost, ToBeDeleted
<1>25. ImportKeys'
  BY <1>4 DEF ImportKeys, ImportKey
<1>26. OutputRows'
  <2> SUFFICES ASSUME NEW l \in OutputKeys
               PROVE  (PendingKey(l) /\ CommittedKey(l) /\ FreeKey(l) /\ Future(l))'
    BY DEF OutputRows
  <2>1. l[1] \in Jobs /\ PendingKey(l) /\ CommittedKey(l) /\ FreeKey(l) /\ Future(l)
    BY DEF OutputRows
  <2>2. /\ job'[l[1]].version = job[l[1]].version /\ job'[l[1]].output = job[l[1]].output
        /\ job'[l[1]].bytes = job[l[1]].bytes /\ (IsCurrent(l)' => IsCurrent(l))
    BY <1>3, <1>7, <2>1 DEF r, IsCurrent, Running
  <2>3. PendingKey(l)'
    BY <1>4, <1>5, <1>6, <2>1, <2>2 DEF PendingKey, Media
  <2>4. CommittedKey(l)'
    <3>1. put[l].status = "committed" => l[1] # j
      BY <2>1 DEF CommittedKey, Unfinished, Running
    <3>2. put[l].status = "committed" => job'[l[1]] = job[l[1]] /\ (l[1] \in Imports => media'[l[1]] = media[l[1]])
      BY <1>6, <1>7, <2>1, <3>1 DEF Media
    <3>3. QED
      BY <1>4, <1>5, <2>1, <3>2 DEF CommittedKey
  <2>5. FreeKey(l)'
    <3>1. put[l].status = "none" => ToBeDeleted(l)' = ToBeDeleted(l)
      BY <1>5, <2>1 DEF ToBeDeleted
    <3>2. l[1] \in Imports /\ media'[l[1]].key = l => media'[l[1]] = media[l[1]]
      BY <1>6, <2>1 DEF Media
    <3>3. QED
      BY <1>4, <2>1, <2>2, <3>1, <3>2 DEF FreeKey, Unused, Lost, ToBeDeleted
  <2>6. Future(l)'
    BY <1>4, <2>1, <2>2 DEF Future
  <2>7. QED
    BY <2>3, <2>4, <2>5, <2>6
<1>27. Deletions'
  <2> SUFFICES ASSUME NEW l \in Keys PROVE Deletion(l)'
    BY DEF Deletions
  <2>1. Deletion(l)
    BY DEF Deletions
  <2>2. l \in removed => ToBeDeleted(l)' /\ Lost(l)'
    BY <1>4, <1>5, <2>1 DEF Deletion, Lost
  <2>3. CASE ToBeDeleted(l)
    <3>1. l \in OutputKeys => ~IsCurrent(l)'
      <4>1. l \in OutputKeys => (IsCurrent(l)' => IsCurrent(l))
        BY <1>3, <1>7 DEF IsCurrent, Running, r
      <4>2. QED
        BY <2>1, <2>3, <4>1 DEF Deletion
    <3>2. \A m \in Media : media'[m].key = l => media'[m].status = "deleting"
      BY <1>6, <2>1, <2>3 DEF Deletion
    <3>3. l \notin OutputKeys => media'[l[1]].key = l
      BY <1>6, <2>1, <2>3 DEF Deletion
    <3>4. url'[l] <= deletion'[l].at
      BY <1>4, <1>5, <2>1, <2>3 DEF Deletion
    <3>5. QED
      BY <1>4, <2>2, <3>1, <3>2, <3>3, <3>4 DEF Deletion
  <2>4. CASE ~ToBeDeleted(l) /\ charged /\ l = k
    <3>1. ~IsCurrent(l)'
      BY <1>2, <1>3, <2>4 DEF IsCurrent, Running, r
    <3>2. ASSUME NEW m \in Media, media'[m].key = l PROVE FALSE
      <4>1. media[m].key = l
        BY <1>6, <3>2
      <4>2. m = j /\ j \in Imports
        BY <1>2, <2>4, <4>1 DEF MediaRows, MediaRow, Fetched
      <4>3. PendingKey(k)
        BY <1>2, <2>4 DEF OutputRows
      <4>4. QED
        BY <1>2, <2>4, <4>1, <4>2, <4>3 DEF PendingKey
    <3>3. QED
      BY <1>2, <1>4, <1>5, <2>2, <2>4, <3>1, <3>2 DEF Deletion
  <2>5. CASE ~ToBeDeleted(l) /\ ~(charged /\ l = k)
    <3>1. ~ToBeDeleted(l)'
      BY <1>5, <2>5 DEF ToBeDeleted
    <3>2. QED
      BY <1>4, <2>2, <3>1 DEF Deletion
  <2>6. QED
    BY <2>3, <2>4, <2>5
<1>28. QED
  BY <1>21, <1>22, <1>23, <1>24, <1>25, <1>26, <1>27

LEMMA CleanupStep ==
    ASSUME Rows, NEW oldJobs \in SUBSET Jobs, NEW oldMedia \in SUBSET Media, Cleanup(oldJobs, oldMedia)
    PROVE  Rows'
<1> USE StorageAssumption, KeyFacts DEF Rows
<1> DEFINE outputs == {job[j].output : j \in oldJobs} \ {NoKey}
           orphans == {k \in Orphans : put[k].expires <= now}
           names == {media[m].key : m \in oldMedia}
           ks == outputs \cup orphans \cup names
           IsGone(j) == j \in oldJobs /\ job[j].output = NoKey
<1>1. /\ \A j \in oldJobs : job[j].state = "ended"
      /\ \A m \in oldMedia : m \in LiveMedia /\ media[m].status # "deleting" /\ ~InUse(m)
      /\ UNCHANGED <<now, put, object, belated, url, verified, removed>>
      /\ deletion' = Enqueued(ks)
  BY DEF Cleanup
<1>2. \A j \in Jobs : /\ IsGone(j) => job'[j] = [job[j] EXCEPT !.state = "gone", !.media = NoMedia]
                      /\ ~IsGone(j) => job'[j] = job[j]
  BY DEF Cleanup
<1>3. \A m \in Media : /\ m \in oldMedia => media'[m] = [media[m] EXCEPT !.status = "deleting"]
                       /\ m \notin oldMedia => media'[m] = media[m]
  BY DEF Cleanup
<1>4. ASSUME NEW j \in Jobs
      PROVE  /\ job'[j] \in AJob
             /\ job'[j].version = job[j].version /\ job'[j].output = job[j].output
             /\ job'[j].bytes = job[j].bytes /\ job'[j].held = job[j].held
             /\ job'[j].budget = job[j].budget
             /\ job'[j] = job[j] \/ (job[j].state = "ended" /\ job'[j].state = "gone" /\ job[j].output = NoKey)
  <2>1. job[j] \in AJob
    BY DEF Types
  <2>2. CASE IsGone(j)
    <3> DEFINE q == [job[j] EXCEPT !.state = "gone", !.media = NoMedia]
    <3>1. /\ q \in AJob /\ q.version = job[j].version /\ q.output = job[j].output /\ q.bytes = job[j].bytes
          /\ q.held = job[j].held /\ q.budget = job[j].budget /\ q.state = "gone"
      BY <2>1 DEF AJob, States
    <3>2. job'[j] = q
      BY <1>2, <2>2
    <3> HIDE DEF q
    <3>3. QED
      BY <1>1, <2>2, <3>1, <3>2
  <2>3. CASE ~IsGone(j)
    BY <1>2, <2>1, <2>3
  <2>4. QED
    BY <2>2, <2>3
<1>5. ASSUME NEW m \in Media
      PROVE  /\ media'[m] \in AMedia
             /\ media'[m].key = media[m].key /\ media'[m].bytes = media[m].bytes
             /\ media'[m].created = media[m].created
             /\ m \in oldMedia => media'[m].status = "deleting"
  <2>1. media[m] \in AMedia
    BY DEF Types
  <2>2. CASE m \in oldMedia
    <3> DEFINE q == [media[m] EXCEPT !.status = "deleting"]
    <3>1. /\ q \in AMedia /\ q.key = media[m].key /\ q.bytes = media[m].bytes
          /\ q.created = media[m].created /\ q.status = "deleting"
      BY <2>1 DEF AMedia, Statuses
    <3>2. media'[m] = q
      BY <1>3, <2>2
    <3> HIDE DEF q
    <3>3. QED
      BY <3>1, <3>2
  <2>3. CASE m \notin oldMedia
    BY <1>3, <2>1, <2>3
  <2>4. QED
    BY <2>2, <2>3
<1>6. ASSUME NEW k \in outputs
      PROVE  /\ k \in OutputKeys /\ put[k].status = "committed" /\ k[1] \in Locals
             /\ job[k[1]].state = "ended" /\ \A m \in Media : media[m].key # k
  <2>1. PICK j \in oldJobs : k = job[j].output /\ k # NoKey
    BY <1>6
  <2>2. k \in OutputKeys /\ j \in Locals /\ k[1] = j
    BY <2>1 DEF Types, AJob, JobRows, JobRow
  <2>3. put[k].status = "committed"
    BY <2>1, <2>2 DEF OutputRows, PendingKey, FreeKey, Types, APut
  <2>4. \A m \in Media : media[m].key # k
    BY <2>1, <2>2 DEF MediaRows, MediaRow, Fetched
  <2>5. QED
    BY <1>1, <2>1, <2>2, <2>3, <2>4
<1>7. ASSUME NEW k \in orphans
      PROVE  k \in OutputKeys /\ put[k].status = "pending" /\ ~IsCurrent(k) /\ \A m \in Media : media[m].key # k
  <2>1. k \in OutputKeys /\ put[k].status = "pending"
    BY DEF Orphans, PendingPuts
  <2>2. ~IsCurrent(k)
    BY <2>1, CurrentKey DEF Orphans, IsCurrent
  <2>3. \A m \in Media : media[m].key # k
    BY <2>1 DEF MediaRows, MediaRow, Fetched, OutputRows, PendingKey
  <2>4. QED
    BY <2>1, <2>2, <2>3
<1>8. ASSUME NEW m \in oldMedia
      PROVE  /\ media[m].key \in Keys /\ media[m].key[1] = m
             /\ \A n \in Media : media[n].key = media[m].key => n = m
             /\ media[m].key \in OutputKeys => /\ put[media[m].key].status = "committed"
                                                /\ m \in Imports
  <2>1. m \in Media /\ MediaRow(m) /\ media[m].status \notin {"absent", "deleted"}
    BY <1>1 DEF MediaRows, LiveMedia
  <2>2. m \in Imports => Fetched(m) \in OutputKeys
    BY DEF Fetched, Jobs
  <2>3. media[m].key \in Keys /\ media[m].key[1] = m
    BY <2>1, <2>2 DEF MediaRow, Fetched
  <2>4. \A n \in Media : media[n].key = media[m].key => n = m
    BY <2>3 DEF MediaRows, MediaRow, Fetched
  <2>5. media[m].key \in OutputKeys => put[media[m].key].status = "committed" /\ m \in Imports
    BY <2>1, <2>3 DEF OutputRows, FreeKey, PendingKey, Types, APut, MediaRow
  <2>6. QED
    BY <2>3, <2>4, <2>5
<1>9. /\ ks \in SUBSET Keys
      /\ \A k \in ks : Charged(k)
  BY <1>6, <1>7, <1>8 DEF Charged
<1>10. /\ deletion' \in [Keys -> ADeletion]
       /\ \A k \in Keys : k \notin ks \/ ToBeDeleted(k) => deletion'[k] = deletion[k]
       /\ \A k \in Keys : deletion'[k].at # Never <=> (k \in ks \/ ToBeDeleted(k))
       /\ \A k \in ks : url[k] <= deletion'[k].at
  <2> HIDE DEF ks
  <2> QED BY <1>1, <1>9, EnqueuedFacts
<1>11. \A k \in ks : /\ k \in OutputKeys => put[k].status # "none" /\ ~IsCurrent(k)
                     /\ \A n \in Media : media[n].key = k => n \in oldMedia
                     /\ k \notin OutputKeys => media[k[1]].key = k /\ k[1] \in oldMedia
  <2>1. \A k \in outputs : ~IsCurrent(k)
    BY <1>6 DEF IsCurrent, Running
  <2>2. \A m \in oldMedia : media[m].key \in OutputKeys => ~IsCurrent(media[m].key)
    BY <1>8 DEF IsCurrent, Running, OutputRows, CommittedKey
  <2> DEFINE Ok(k) == /\ k \in OutputKeys => put[k].status # "none" /\ ~IsCurrent(k)
                      /\ \A n \in Media : media[n].key = k => n \in oldMedia
                      /\ k \notin OutputKeys => media[k[1]].key = k /\ k[1] \in oldMedia
  <2>3. \A k \in outputs : Ok(k)
    BY <1>6, <2>1
  <2>4. \A k \in orphans : Ok(k)
    BY <1>7
  <2>5. \A m \in oldMedia : Ok(media[m].key)
    BY <1>8, <2>2
  <2>6. \A k \in names : Ok(k)
    BY <2>5
  <2>7. QED
    <3> HIDE DEF outputs, orphans, names
    <3> QED BY <2>3, <2>4, <2>6
<1> HIDE DEF ks, outputs, orphans, names, IsGone
<1>21. Types'
  <2>1. job' \in [Jobs -> AJob]
    <3>1. \A j \in Jobs : job'[j] \in AJob
      BY <1>4
    <3>2. job' = [j \in Jobs |-> job'[j]]
      BY DEF Cleanup
    <3>3. QED
      BY <3>1, <3>2
  <2>2. media' \in [Media -> AMedia]
    <3>1. \A m \in Media : media'[m] \in AMedia
      BY <1>5
    <3>2. media' = [m \in Media |-> media'[m]]
      BY DEF Cleanup
    <3>3. QED
      BY <3>1, <3>2
  <2>3. QED
    BY <1>1, <1>10, <2>1, <2>2 DEF Types
<1>22. JobRows'
  <2> SUFFICES ASSUME NEW l \in Jobs PROVE JobRow(l)'
    BY DEF JobRows
  <2>1. JobRow(l)
    BY DEF JobRows
  <2>2. CASE job'[l] = job[l]
    <3>1. job[l].state \in Unfinished => media'[job[l].media] = media[job[l].media]
      BY <1>1, <1>3, <2>1 DEF InUse, JobRow
    <3>2. job[l].state \in Unfinished /\ l \in Imports => media'[l] = media[l]
      BY <2>1, <3>1 DEF JobRow
    <3>3. QED
      BY <1>1, <2>1, <2>2, <3>1, <3>2 DEF JobRow, Key, Tries
  <2>3. CASE job[l].state = "ended" /\ job'[l].state = "gone" /\ job[l].output = NoKey
    BY <1>4, <2>1, <2>3 DEF JobRow, Running, Unfinished, Tries
  <2>4. QED
    BY <1>4, <2>2, <2>3
<1>23. MediaRows'
  <2> SUFFICES ASSUME NEW m \in Media PROVE MediaRow(m)'
    BY DEF MediaRows
  <2>1. MediaRow(m)
    BY DEF MediaRows
  <2>2. CASE m \in oldMedia
    BY <1>1, <1>5, <2>1, <2>2 DEF MediaRow, LiveMedia
  <2>3. CASE m \notin oldMedia
    BY <1>1, <1>3, <2>1, <2>3 DEF MediaRow
  <2>4. QED
    BY <2>2, <2>3
<1>24. UploadKeys'
  <2> SUFFICES ASSUME NEW m \in Uploads PROVE UploadKey(m)'
    BY DEF UploadKeys
  <2>1. UploadKey(m) /\ m \in Media /\ MediaKey(m) \in Keys
    BY DEF UploadKeys, Media
  <2>2. CASE m \in oldMedia
    BY <1>1, <1>5, <2>1, <2>2 DEF UploadKey
  <2>3. CASE m \notin oldMedia
    <3>1. MediaKey(m) \notin ks
      BY <1>11, <2>1, <2>3
    <3>2. deletion'[MediaKey(m)] = deletion[MediaKey(m)]
      BY <1>10, <2>1, <3>1
    <3>3. QED
      BY <1>1, <1>3, <2>1, <2>3, <3>2 DEF UploadKey, Unused, Lost
  <2>4. QED
    BY <2>2, <2>3
<1>25. ImportKeys'
  BY <1>1 DEF ImportKeys, ImportKey
<1>26. OutputRows'
  <2> SUFFICES ASSUME NEW l \in OutputKeys
               PROVE  (PendingKey(l) /\ CommittedKey(l) /\ FreeKey(l) /\ Future(l))'
    BY DEF OutputRows
  <2>1. l[1] \in Jobs /\ l \in Keys /\ PendingKey(l) /\ CommittedKey(l) /\ FreeKey(l) /\ Future(l)
    BY DEF OutputRows
  <2>2. PendingKey(l)'
    BY <1>1, <1>4, <1>5, <1>10, <2>1 DEF PendingKey, ToBeDeleted, Media
  <2>3. CommittedKey(l)'
    <3>1. put[l].status = "committed" /\ l[1] \in Imports => media'[l[1]].status \in {"ready", "deleting"}
      BY <1>3, <1>5, <2>1 DEF CommittedKey, Media
    <3>2. QED
      BY <1>1, <1>4, <1>5, <1>10, <2>1, <3>1 DEF CommittedKey, ToBeDeleted, Media
  <2>4. FreeKey(l)'
    <3>1. put[l].status = "none" => deletion'[l] = deletion[l]
      BY <1>10, <1>11, <2>1
    <3>2. IsCurrent(l)' => IsCurrent(l)
      BY <1>4, <2>1 DEF IsCurrent, Running
    <3>3. l[1] \in Imports /\ media[l[1]].status = "deleted" => media'[l[1]] = media[l[1]]
      BY <1>1, <1>3 DEF Media, LiveMedia
    <3>4. QED
      BY <1>1, <1>4, <1>5, <2>1, <3>1, <3>2, <3>3 DEF FreeKey, Unused, Lost, ToBeDeleted, Media
  <2>5. Future(l)'
    BY <1>1, <1>4, <2>1 DEF Future
  <2>6. QED
    BY <2>2, <2>3, <2>4, <2>5
<1>27. Deletions'
  <2> SUFFICES ASSUME NEW l \in Keys PROVE Deletion(l)'
    BY DEF Deletions
  <2>1. Deletion(l)
    BY DEF Deletions
  <2>2. l \in removed => deletion'[l].at # Never /\ Lost(l)'
    BY <1>1, <1>10, <2>1 DEF Deletion, Lost
  <2>3. l \in OutputKeys => (IsCurrent(l)' => IsCurrent(l))
    BY <1>4 DEF IsCurrent, Running
  <2>4. CASE ToBeDeleted(l)
    <3>1. \A m \in Media : media'[m].key = l => media'[m].status = "deleting"
      BY <1>3, <1>5, <2>1, <2>4 DEF Deletion
    <3>2. l \notin OutputKeys => media'[l[1]].key = l
      BY <1>5, <2>1, <2>4 DEF Deletion
    <3>3. url'[l] <= deletion'[l].at
      BY <1>1, <1>10, <2>1, <2>4 DEF Deletion
    <3>4. QED
      BY <1>1, <2>1, <2>2, <2>3, <2>4, <3>1, <3>2, <3>3 DEF Deletion, ToBeDeleted
  <2>5. CASE l \in ks
    <3>1. \A m \in Media : media'[m].key = l => media'[m].status = "deleting"
      BY <1>5, <1>11, <2>5
    <3>2. l \notin OutputKeys => media'[l[1]].key = l
      BY <1>5, <1>11, <2>5
    <3>3. url'[l] <= deletion'[l].at
      BY <1>1, <1>10, <2>5
    <3>4. l \in OutputKeys => ~IsCurrent(l)'
      BY <1>11, <2>3, <2>5
    <3>5. QED
      BY <1>1, <2>2, <3>1, <3>2, <3>3, <3>4 DEF Deletion, ToBeDeleted
  <2>6. CASE l \notin ks /\ ~ToBeDeleted(l)
    <3>1. ~(deletion'[l].at # Never)
      BY <1>10, <2>6
    <3>2. QED
      BY <1>1, <2>2, <3>1 DEF Deletion, ToBeDeleted
  <2>7. QED
    BY <2>4, <2>5, <2>6
<1>28. QED
  BY <1>21, <1>22, <1>23, <1>24, <1>25, <1>26, <1>27

LEMMA ConfirmDeletionStep ==
    ASSUME Rows, NEW k \in Keys, ConfirmDeletion(k)
    PROVE  Rows'
<1> USE StorageAssumption, KeyFacts DEF Rows
<1> DEFINE Freed(j) == job[j].output = k /\ job[j].state = "ended"
           Erased(m) == media[m].key = k /\ media[m].status = "deleting"
<1>1. /\ ToBeDeleted(k) /\ Lost(k) /\ k \in removed
      /\ removed' = removed \ {k} /\ UNCHANGED <<now, object, belated, url, verified>>
      /\ deletion' = [deletion EXCEPT ![k] = [at |-> Never, tries |-> 0]]
  BY DEF ConfirmDeletion, Deletions, Deletion
<1>2. Deletion(k)
  BY DEF Deletions
<1>3. \A j \in Jobs : /\ Freed(j) => job'[j] = [job[j] EXCEPT !.output = NoKey, !.bytes = 0]
                      /\ ~Freed(j) => job'[j] = job[j]
  BY DEF ConfirmDeletion
<1>4. \A m \in Media : /\ Erased(m) => media'[m] = [media[m] EXCEPT !.status = "deleted"]
                       /\ ~Erased(m) => media'[m] = media[m]
  BY DEF ConfirmDeletion
<1>5. \A x \in OutputKeys : put'[x] = IF x = k THEN [status |-> "none", bytes |-> 0, expires |-> 0] ELSE put[x]
  BY DEF ConfirmDeletion
<1>6. ASSUME NEW j \in Jobs
      PROVE  /\ job'[j] \in AJob
             /\ job'[j].version = job[j].version /\ job'[j].state = job[j].state
             /\ job'[j].held = job[j].held /\ job'[j].budget = job[j].budget
             /\ job'[j].media = job[j].media
             /\ Freed(j) => job'[j].output = NoKey /\ job'[j].bytes = 0
  <2>1. job[j] \in AJob
    BY DEF Types
  <2>2. CASE Freed(j)
    <3> DEFINE q == [job[j] EXCEPT !.output = NoKey, !.bytes = 0]
    <3>1. /\ q \in AJob /\ q.version = job[j].version /\ q.state = job[j].state /\ q.media = job[j].media
          /\ q.held = job[j].held /\ q.budget = job[j].budget /\ q.output = NoKey /\ q.bytes = 0
      BY <2>1 DEF AJob
    <3>2. job'[j] = q
      BY <1>3, <2>2
    <3> HIDE DEF q
    <3>3. QED
      BY <3>1, <3>2
  <2>3. CASE ~Freed(j)
    BY <1>3, <2>1, <2>3
  <2>4. QED
    BY <2>2, <2>3
<1>7. ASSUME NEW m \in Media
      PROVE  /\ media'[m] \in AMedia
             /\ media'[m].key = media[m].key /\ media'[m].bytes = media[m].bytes
             /\ media'[m].created = media[m].created
             /\ Erased(m) => media'[m].status = "deleted"
  <2>1. media[m] \in AMedia
    BY DEF Types
  <2>2. CASE Erased(m)
    <3> DEFINE q == [media[m] EXCEPT !.status = "deleted"]
    <3>1. /\ q \in AMedia /\ q.key = media[m].key /\ q.bytes = media[m].bytes
          /\ q.created = media[m].created /\ q.status = "deleted"
      BY <2>1 DEF AMedia, Statuses
    <3>2. media'[m] = q
      BY <1>4, <2>2
    <3> HIDE DEF q
    <3>3. QED
      BY <3>1, <3>2
  <2>3. CASE ~Erased(m)
    BY <1>4, <2>1, <2>3
  <2>4. QED
    BY <2>2, <2>3
<1>8. deletion'[k].at = Never /\ \A l \in Keys \ {k} : deletion'[l] = deletion[l]
  BY <1>1 DEF Types
<1>9. k \in OutputKeys => put[k].status # "none" /\ ~IsCurrent(k) /\ ~(k[2] > job[k[1]].version)
  BY <1>1, <1>2 DEF Deletion, OutputRows, FreeKey, Future
<1>21. Types'
  <2>1. job' \in [Jobs -> AJob]
    <3>1. \A j \in Jobs : job'[j] \in AJob
      BY <1>6
    <3>2. job' = [j \in Jobs |-> job'[j]]
      BY DEF ConfirmDeletion
    <3>3. QED
      BY <3>1, <3>2
  <2>2. media' \in [Media -> AMedia]
    <3>1. \A m \in Media : media'[m] \in AMedia
      BY <1>7
    <3>2. media' = [m \in Media |-> media'[m]]
      BY DEF ConfirmDeletion
    <3>3. QED
      BY <3>1, <3>2
  <2>3. put' \in [OutputKeys -> APut]
    <3>1. \A x \in OutputKeys : put'[x] \in APut
      BY <1>5 DEF Types, APut
    <3>2. put' = [x \in OutputKeys |-> put'[x]]
      BY DEF ConfirmDeletion
    <3>3. QED
      BY <3>1, <3>2
  <2>4. [at |-> Never, tries |-> 0] \in ADeletion
    BY DEF ADeletion
  <2>5. QED
    BY <1>1, <2>1, <2>2, <2>3, <2>4 DEF Types
<1>22. JobRows'
  <2> SUFFICES ASSUME NEW l \in Jobs PROVE JobRow(l)'
    BY DEF JobRows
  <2>1. JobRow(l)
    BY DEF JobRows
  <2>2. job[l].state \in Running => put'[Key(l)'] = put[Key(l)]
    <3>1. job[l].state \in Running => Key(l) \in OutputKeys /\ Key(l) # k
      BY <1>9, CurrentKey DEF IsCurrent
    <3>2. Key(l)' = Key(l)
      BY <1>6 DEF Key
    <3>3. QED
      BY <1>5, <3>1, <3>2
  <2>3. job[l].state \in Unfinished => media'[job[l].media].status = media[job[l].media].status
    <3>1. job[l].state \in Unfinished =>
            job[l].media \in Media /\ media[job[l].media].status \in {"ready", "importing"}
      BY <2>1 DEF JobRow, Jobs
    <3>2. QED
      BY <1>4, <3>1
  <2>4. job'[l].output = NoKey => job'[l].bytes = 0
    BY <1>3, <1>6, <2>1 DEF JobRow
  <2>5. job'[l].output # NoKey => job'[l].output = job[l].output
    BY <1>3, <1>6
  <2>6. QED
    BY <1>6, <2>1, <2>2, <2>3, <2>4, <2>5 DEF JobRow, Tries, Running
<1>23. MediaRows'
  <2> SUFFICES ASSUME NEW m \in Media PROVE MediaRow(m)'
    BY DEF MediaRows
  <2>1. MediaRow(m)
    BY DEF MediaRows
  <2>2. CASE Erased(m)
    BY <1>1, <1>7, <2>1, <2>2 DEF MediaRow
  <2>3. CASE ~Erased(m)
    BY <1>1, <1>4, <2>1, <2>3 DEF MediaRow
  <2>4. QED
    BY <2>2, <2>3
<1>24. UploadKeys'
  <2> SUFFICES ASSUME NEW m \in Uploads PROVE UploadKey(m)'
    BY DEF UploadKeys
  <2>1. UploadKey(m) /\ m \in Media /\ MediaKey(m) \in Keys
    BY DEF UploadKeys, Media
  <2>2. CASE Erased(m)
    <3>1. MediaKey(m) = k
      BY <2>1, <2>2 DEF MediaRows, MediaRow
    <3>2. QED
      BY <1>1, <1>7, <2>1, <2>2, <3>1 DEF UploadKey, Lost
  <2>3. CASE ~Erased(m)
    BY <1>1, <1>4, <1>8, <2>1, <2>3 DEF UploadKey, Unused, Lost
  <2>4. QED
    BY <2>2, <2>3
<1>25. ImportKeys'
  BY <1>1 DEF ImportKeys, ImportKey
<1>26. OutputRows'
  <2> SUFFICES ASSUME NEW l \in OutputKeys
               PROVE  (PendingKey(l) /\ CommittedKey(l) /\ FreeKey(l) /\ Future(l))'
    BY DEF OutputRows
  <2>1. l[1] \in Jobs /\ l \in Keys /\ PendingKey(l) /\ CommittedKey(l) /\ FreeKey(l) /\ Future(l)
    BY DEF OutputRows
  <2>2. CASE l = k
    <3>1. put'[l].status = "none" /\ put'[l].bytes = 0 /\ put'[l].expires = 0
      BY <1>5, <2>2
    <3>2. Lost(l)' /\ ~ToBeDeleted(l)'
      BY <1>1, <1>8, <2>2 DEF Lost, ToBeDeleted
    <3>3. ~IsCurrent(l)' /\ ~(l[2] > job'[l[1]].version)
      BY <1>6, <1>9, <2>1, <2>2 DEF IsCurrent
    <3>4. job'[l[1]].output # l
      <4>1. CASE job[l[1]].output = k
        <5>1. Freed(l[1])
          BY <2>1, <4>1 DEF JobRows, JobRow
        <5>2. QED
          BY <1>6, <2>1, <5>1
      <4>2. CASE job[l[1]].output # k
        BY <1>3, <2>1, <2>2, <4>2
      <4>3. QED
        BY <4>1, <4>2
    <3>5. l[1] \in Imports /\ media'[l[1]].key = l => media'[l[1]].status = "deleted"
      BY <1>1, <1>2, <1>7, <2>2 DEF Deletion, Media
    <3>6. QED
      BY <3>1, <3>2, <3>3, <3>4, <3>5 DEF PendingKey, CommittedKey, FreeKey, Future
  <2>3. CASE l # k
    <3>1. put'[l] = put[l] /\ deletion'[l] = deletion[l]
      BY <1>5, <1>8, <2>1, <2>3
    <3>2. /\ job[l[1]].output = l => job'[l[1]] = job[l[1]]
          /\ job[l[1]].output # l => job'[l[1]].output # l
      <4>1. Freed(l[1]) => job'[l[1]].output = NoKey /\ l # NoKey
        BY <1>6, <2>1
      <4>2. ~Freed(l[1]) => job'[l[1]] = job[l[1]]
        BY <1>3, <2>1
      <4>3. QED
        BY <2>3, <4>1, <4>2
    <3>3. l[1] \in Imports /\ media[l[1]].key = l => media'[l[1]] = media[l[1]]
      BY <1>4, <2>3 DEF Media
    <3>4. IsCurrent(l)' => IsCurrent(l)
      BY <1>6, <2>1 DEF IsCurrent
    <3>5. PendingKey(l)'
      BY <1>1, <1>6, <1>7, <2>1, <3>1, <3>2 DEF PendingKey, ToBeDeleted, Media
    <3>6. CommittedKey(l)'
      BY <1>1, <1>6, <2>1, <3>1, <3>2, <3>3 DEF CommittedKey, ToBeDeleted, Jobs
    <3>7. FreeKey(l)'
      BY <1>1, <1>6, <1>7, <2>1, <3>1, <3>2, <3>3, <3>4 DEF FreeKey, Lost, Unused, ToBeDeleted, Media
    <3>8. Future(l)'
      BY <1>6, <2>1, <3>1 DEF Future
    <3>9. QED
      BY <3>5, <3>6, <3>7, <3>8
  <2>4. QED
    BY <2>2, <2>3
<1>27. Deletions'
  <2> SUFFICES ASSUME NEW l \in Keys PROVE Deletion(l)'
    BY DEF Deletions
  <2>1. Deletion(l)
    BY DEF Deletions
  <2>2. CASE l = k
    BY <1>1, <1>8, <2>2 DEF Deletion, ToBeDeleted
  <2>3. CASE l # k
    <3>1. deletion'[l] = deletion[l]
      BY <1>8, <2>3
    <3>2. l \in OutputKeys => (IsCurrent(l)' => IsCurrent(l))
      BY <1>6 DEF IsCurrent
    <3>3. \A m \in Media : media[m].key = l => media'[m] = media[m]
      BY <1>4, <2>3
    <3>4. QED
      BY <1>1, <1>7, <2>1, <3>1, <3>2, <3>3 DEF Deletion, ToBeDeleted, Lost
  <2>4. QED
    BY <2>2, <2>3
<1>28. QED
  BY <1>21, <1>22, <1>23, <1>24, <1>25, <1>26, <1>27

-----------------------------------------------------------------------------
(* Every step keeps the invariant on rows and keys.                           *)

LEMMA InitRows == Init => Rows
<1> SUFFICES ASSUME Init PROVE Rows
  OBVIOUS
<1> USE StorageAssumption, KeyFacts DEF Init
<1>1. Types
  BY DEF Types, AMedia, AJob, APut, ADeletion, Statuses, States
<1>2. JobRows
  BY DEF JobRows, JobRow, Tries, Running, Unfinished
<1>3. MediaRows
  BY DEF MediaRows, MediaRow
<1>4. UploadKeys
  BY DEF UploadKeys, UploadKey, Unused, Media
<1>5. ImportKeys
  BY DEF ImportKeys, ImportKey, Media
<1>6. OutputRows
  BY DEF OutputRows, PendingKey, CommittedKey, FreeKey, Future, Lost, ToBeDeleted, Unused, Media
<1>7. Deletions
  BY DEF Deletions, Deletion, ToBeDeleted
<1>8. QED
  BY <1>1, <1>2, <1>3, <1>4, <1>5, <1>6, <1>7 DEF Rows

LEMMA RowsStutter == Rows /\ UNCHANGED vars => Rows'
BY DEF vars, Rows, Types, JobRows, JobRow, Key, Tries, MediaRows, MediaRow, UploadKeys, UploadKey,
    Unused, Lost, ToBeDeleted, ImportKeys, ImportKey, OutputRows, PendingKey, CommittedKey, FreeKey,
    Future, Deletions, Deletion, IsCurrent

LEMMA RowsStep ==
    ASSUME Rows, [Next]_vars
    PROVE  Rows'
<1>1. CASE UNCHANGED vars
  BY <1>1, RowsStutter
<1>2. ASSUME NEW m \in Uploads, NEW b \in Sizes, NEW s \in Recent, UploadIntent(m, b, s) PROVE Rows'
  BY <1>2, UploadIntentStep
<1>3. ASSUME NEW k \in Keys, StorePut(k) \/ Verify(k) \/ Remove(k) \/ ConfirmDeletion(k) PROVE Rows'
  BY <1>3, StorePutStep, VerifyStep, RemoveStep, ConfirmDeletionStep
<1>4. ASSUME NEW m \in Uploads,
             UploadComplete(m) \/ \E verdict \in {"ready", "failed"} : Validated(m, verdict)
      PROVE  Rows'
  BY <1>4, UploadCompleteStep, ValidatedStep
<1>5. ASSUME NEW j \in Locals, NEW m \in Media, CreateLocal(j, m) PROVE Rows'
  BY <1>5, CreateLocalStep
<1>6. ASSUME NEW i \in Imports, CreateImport(i) PROVE Rows'
  BY <1>6, CreateImportStep
<1>7. ASSUME NEW j \in Jobs, NEW b \in Sizes, NEW s \in Recent, OutputIntent(j, b, s) PROVE Rows'
  BY <1>7, OutputIntentStep
<1>8. ASSUME NEW j \in Jobs, Claim(j) \/ FinishCompleted(j) \/ Cancel(j) PROVE Rows'
  BY <1>8, ClaimStep, FinishCompletedStep, CancelStep
<1>9. ASSUME NEW j \in Jobs,
             Lapse(j) \/ \E o \in {"failed", "stopped", "retry_wait"} : FinishOtherwise(j, o)
      PROVE  Rows'
  <2>1. ASSUME Lapse(j) PROVE Rows'
    BY <2>1, SettleOtherwiseStep DEF Lapse
  <2>2. ASSUME NEW o \in {"failed", "stopped", "retry_wait"}, FinishOtherwise(j, o) PROVE Rows'
    BY <2>2, SettleOtherwiseStep DEF FinishOtherwise, Unfinished
  <2>3. QED
    BY <1>9, <2>1, <2>2
<1>10. ASSUME NEW m \in Media, DeleteMedia(m) PROVE Rows'
  BY <1>10, DeleteMediaStep
<1>11. ASSUME NEW old \in SUBSET Jobs, NEW oldMedia \in SUBSET Media, Cleanup(old, oldMedia) PROVE Rows'
  BY <1>11, CleanupStep
<1>12. ASSUME NEW k \in Keys, DeletionFailed(k) PROVE Rows'
  BY <1>12, DeletionFailedStep
<1>13. CASE Tick
  BY <1>13, TickStep
<1>14. QED
  BY <1>1, <1>2, <1>3, <1>4, <1>5, <1>6, <1>7, <1>8, <1>9, <1>10, <1>11, <1>12, <1>13 DEF Next

-----------------------------------------------------------------------------
(* The quota: what is used, as three sums over all rows.                      *)

StoredBytes(md) == [m \in Media |-> IF md[m].status \notin {"absent", "deleted"} THEN md[m].bytes ELSE 0]
OwedBytes(jb) == [j \in Jobs |-> jb[j].bytes + jb[j].held]
ReservedBytes(p) == [k \in OutputKeys |-> IF p[k].status = "pending" THEN p[k].bytes ELSE 0]
Total(md, jb, p) ==
    Sum(StoredBytes(md), Media) + Sum(OwedBytes(jb), Jobs) + Sum(ReservedBytes(p), OutputKeys)

LEMMA TotalOf ==
    ASSUME NEW md \in [Media -> AMedia], NEW jb \in [Jobs -> AJob], NEW p \in [OutputKeys -> APut]
    PROVE  /\ Sum([m \in Media |-> md[m].bytes], {m \in Media : md[m].status \notin {"absent", "deleted"}})
                  + Sum([j \in Jobs |-> jb[j].bytes + jb[j].held], Jobs)
                  + Sum([k \in OutputKeys |-> p[k].bytes], {k \in OutputKeys : p[k].status = "pending"})
                = Total(md, jb, p)
           /\ \A m \in Media : StoredBytes(md)[m] \in Nat
           /\ \A j \in Jobs : OwedBytes(jb)[j] \in Nat
           /\ \A k \in OutputKeys : ReservedBytes(p)[k] \in Nat
           /\ Sum(StoredBytes(md), Media) \in Nat /\ Sum(OwedBytes(jb), Jobs) \in Nat
           /\ Sum(ReservedBytes(p), OutputKeys) \in Nat
<1> DEFINE bytes == [m \in Media |-> md[m].bytes]
           live == {m \in Media : md[m].status \notin {"absent", "deleted"}}
           size == [k \in OutputKeys |-> p[k].bytes]
           pending == {k \in OutputKeys : p[k].status = "pending"}
<1>1. Sum(StoredBytes(md), Media) = Sum(bytes, live)
  <2>1. \A m \in Media : bytes[m] \in Nat /\ StoredBytes(md)[m] = IF m \in live THEN bytes[m] ELSE 0
    BY DEF AMedia, StoredBytes
  <2>2. live \subseteq Media
    OBVIOUS
  <2> HIDE DEF bytes, live
  <2> QED BY <2>1, <2>2, Finite, SumFiltered
<1>2. Sum(ReservedBytes(p), OutputKeys) = Sum(size, pending)
  <2>1. \A k \in OutputKeys : size[k] \in Nat /\ ReservedBytes(p)[k] = IF k \in pending THEN size[k] ELSE 0
    BY DEF APut, ReservedBytes
  <2>2. pending \subseteq OutputKeys
    OBVIOUS
  <2> HIDE DEF size, pending
  <2> QED BY <2>1, <2>2, Finite, SumFiltered
<1>3. /\ \A m \in Media : StoredBytes(md)[m] \in Nat
      /\ \A j \in Jobs : OwedBytes(jb)[j] \in Nat
      /\ \A k \in OutputKeys : ReservedBytes(p)[k] \in Nat
  BY DEF AMedia, AJob, APut, StoredBytes, OwedBytes, ReservedBytes
<1>4. /\ Sum(StoredBytes(md), Media) \in Nat /\ Sum(OwedBytes(jb), Jobs) \in Nat
      /\ Sum(ReservedBytes(p), OutputKeys) \in Nat
  BY <1>3, Finite, SumNat
<1>5. QED
  BY <1>1, <1>2, <1>3, <1>4 DEF Total, OwedBytes

LEMMA UsedIsTotal == Types => Used = Total(media, job, put)
BY TotalOf DEF Types, Used, Sum, LiveMedia, PendingPuts

LEMMA UsedIsTotalAfter == Types' => Used' = Total(media', job', put')
BY TotalOf DEF Types, Used, Sum, LiveMedia, PendingPuts

\* Nothing is used that was not before, when no row grows.
LEMMA TotalBelow ==
    ASSUME NEW md \in [Media -> AMedia], NEW jb \in [Jobs -> AJob], NEW p \in [OutputKeys -> APut],
           NEW md2 \in [Media -> AMedia], NEW jb2 \in [Jobs -> AJob], NEW p2 \in [OutputKeys -> APut],
           \A m \in Media : StoredBytes(md2)[m] <= StoredBytes(md)[m],
           \A j \in Jobs : OwedBytes(jb2)[j] <= OwedBytes(jb)[j],
           \A k \in OutputKeys : ReservedBytes(p2)[k] <= ReservedBytes(p)[k]
    PROVE  Total(md2, jb2, p2) <= Total(md, jb, p)
<1>1. /\ Sum(StoredBytes(md2), Media) <= Sum(StoredBytes(md), Media)
      /\ Sum(OwedBytes(jb2), Jobs) <= Sum(OwedBytes(jb), Jobs)
      /\ Sum(ReservedBytes(p2), OutputKeys) <= Sum(ReservedBytes(p), OutputKeys)
  BY Finite, TotalOf, SumBelow
<1>2. /\ Sum(StoredBytes(md), Media) \in Nat /\ Sum(StoredBytes(md2), Media) \in Nat
      /\ Sum(OwedBytes(jb), Jobs) \in Nat /\ Sum(OwedBytes(jb2), Jobs) \in Nat
      /\ Sum(ReservedBytes(p), OutputKeys) \in Nat /\ Sum(ReservedBytes(p2), OutputKeys) \in Nat
  BY TotalOf
<1>3. QED
  BY <1>1, <1>2 DEF Total

\* Rows of one job and of one key, and of a media row, change: what they gain and lose.
LEMMA TotalChange ==
    ASSUME NEW md \in [Media -> AMedia], NEW jb \in [Jobs -> AJob], NEW p \in [OutputKeys -> APut],
           NEW md2 \in [Media -> AMedia], NEW jb2 \in [Jobs -> AJob], NEW p2 \in [OutputKeys -> APut],
           NEW a \in Int, NEW b \in Int, NEW c \in Int,
           \/ a = 0 /\ \A x \in Media : StoredBytes(md2)[x] = StoredBytes(md)[x]
           \/ \E m \in Media : /\ StoredBytes(md2)[m] <= StoredBytes(md)[m] + a
                               /\ \A x \in Media \ {m} : StoredBytes(md2)[x] = StoredBytes(md)[x],
           \/ b = 0 /\ \A x \in Jobs : OwedBytes(jb2)[x] = OwedBytes(jb)[x]
           \/ \E j \in Jobs : /\ OwedBytes(jb2)[j] <= OwedBytes(jb)[j] + b
                              /\ \A x \in Jobs \ {j} : OwedBytes(jb2)[x] = OwedBytes(jb)[x],
           \/ c = 0 /\ \A x \in OutputKeys : ReservedBytes(p2)[x] = ReservedBytes(p)[x]
           \/ \E k \in OutputKeys : /\ ReservedBytes(p2)[k] <= ReservedBytes(p)[k] + c
                                    /\ \A x \in OutputKeys \ {k} : ReservedBytes(p2)[x] = ReservedBytes(p)[x]
    PROVE  Total(md2, jb2, p2) <= Total(md, jb, p) + a + b + c
<1>1. ASSUME NEW S, IsFiniteSet(S), NEW f, NEW g, NEW d \in Int,
             \A x \in S : f[x] \in Nat /\ g[x] \in Nat,
             \/ d = 0 /\ \A x \in S : g[x] = f[x]
             \/ \E y \in S : g[y] <= f[y] + d /\ \A x \in S \ {y} : g[x] = f[x]
      PROVE  Sum(g, S) <= Sum(f, S) + d
  <2>0. Sum(f, S) \in Nat /\ Sum(g, S) \in Nat
    BY <1>1, SumNat
  <2>1. CASE d = 0 /\ \A x \in S : g[x] = f[x]
    <3>1. Sum(g, S) = Sum(f, S)
      BY <1>1, <2>1, SumSame
    <3>2. QED
      BY <2>0, <2>1, <3>1
  <2>2. ASSUME NEW y \in S, g[y] <= f[y] + d, \A x \in S \ {y} : g[x] = f[x]
        PROVE  Sum(g, S) <= Sum(f, S) + d
    <3>1. Sum(g, S) + f[y] = Sum(f, S) + g[y]
      BY <1>1, <2>2, SumChange
    <3>2. f[y] \in Nat /\ g[y] \in Nat
      BY <1>1
    <3>3. QED
      BY <1>1, <2>0, <2>2, <3>1, <3>2
  <2>3. QED
    BY <1>1, <2>1, <2>2
<1>2. Sum(StoredBytes(md2), Media) <= Sum(StoredBytes(md), Media) + a
  BY <1>1, Finite, TotalOf
<1>3. Sum(OwedBytes(jb2), Jobs) <= Sum(OwedBytes(jb), Jobs) + b
  BY <1>1, Finite, TotalOf
<1>4. Sum(ReservedBytes(p2), OutputKeys) <= Sum(ReservedBytes(p), OutputKeys) + c
  BY <1>1, Finite, TotalOf
<1>5. /\ Sum(StoredBytes(md), Media) \in Nat /\ Sum(StoredBytes(md2), Media) \in Nat
      /\ Sum(OwedBytes(jb), Jobs) \in Nat /\ Sum(OwedBytes(jb2), Jobs) \in Nat
      /\ Sum(ReservedBytes(p), OutputKeys) \in Nat /\ Sum(ReservedBytes(p2), OutputKeys) \in Nat
  BY TotalOf
<1>6. QED
  BY <1>2, <1>3, <1>4, <1>5 DEF Total

\* No row takes more.
Shrinks ==
    /\ \A m \in Media : StoredBytes(media')[m] <= StoredBytes(media)[m]
    /\ \A j \in Jobs : OwedBytes(job')[j] <= OwedBytes(job)[j]
    /\ \A k \in OutputKeys : ReservedBytes(put')[k] <= ReservedBytes(put)[k]

LEMMA ShrinksStep ==
    ASSUME Types, Types', Shrinks
    PROVE  Used' <= Used
BY TotalBelow, UsedIsTotal, UsedIsTotalAfter DEF Types, Shrinks

LEMMA UsedNatAfter == Types' => Used' \in Nat
<1> SUFFICES ASSUME Types' PROVE Used' \in Nat
  OBVIOUS
<1>1. /\ Sum(StoredBytes(media'), Media) \in Nat /\ Sum(OwedBytes(job'), Jobs) \in Nat
      /\ Sum(ReservedBytes(put'), OutputKeys) \in Nat
  BY TotalOf DEF Types
<1>2. QED
  BY <1>1, UsedIsTotalAfter DEF Total

LEMMA BytesAreNat ==
    ASSUME Types
    PROVE  /\ \A m \in Media : StoredBytes(media)[m] \in Nat
           /\ \A j \in Jobs : OwedBytes(job)[j] \in Nat
           /\ \A k \in OutputKeys : ReservedBytes(put)[k] \in Nat
BY TotalOf DEF Types

\* A job's reservation comes out of its budget; a file that is finished, out of
\* its reservation; a new row takes what was checked to be free.
LEMMA UsedOnUpload ==
    ASSUME Types, Types', NEW m \in Uploads, NEW b \in Sizes, NEW s \in Recent, UploadIntent(m, b, s)
    PROVE  Used' <= MaxStorage
<1>1. m \in Media /\ b \in Nat /\ media[m].status = "absent" /\ Used + b <= MaxStorage
  BY StorageAssumption DEF Media, UploadIntent, AddMedia, MediaAdmitted
<1>2. /\ StoredBytes(media')[m] <= StoredBytes(media)[m] + b
      /\ \A x \in Media \ {m} : StoredBytes(media')[x] = StoredBytes(media)[x]
  BY <1>1 DEF UploadIntent, AddMedia, MediaAdmitted, StoredBytes, Types
<1>3. UNCHANGED <<job, put>>
  BY DEF UploadIntent
<1>4. Total(media', job', put') <= Total(media, job, put) + b + 0 + 0
  <2>1. /\ \A x \in Jobs : OwedBytes(job')[x] = OwedBytes(job)[x]
        /\ \A x \in OutputKeys : ReservedBytes(put')[x] = ReservedBytes(put)[x]
    BY <1>3
  <2>2. b \in Int /\ 0 \in Int
    BY <1>1
  <2>3. QED
    BY <1>1, <1>2, <2>1, <2>2, TotalChange DEF Types
<1>5. Used \in Nat /\ Used' \in Nat
  BY UsedNat, UsedNatAfter
<1>6. QED
  BY <1>1, <1>4, <1>5, UsedIsTotal, UsedIsTotalAfter, StorageAssumption

LEMMA UsedOnCreateLocal ==
    ASSUME Rows, Rows', NEW j \in Locals, NEW m \in Media, CreateLocal(j, m)
    PROVE  Used' <= MaxStorage
<1>1. j \in Jobs /\ Budget \in Nat /\ Used + Budget <= MaxStorage
  BY StorageAssumption DEF Jobs, CreateLocal
<1>2. /\ OwedBytes(job')[j] <= OwedBytes(job)[j] + Budget
      /\ \A x \in Jobs \ {j} : OwedBytes(job')[x] = OwedBytes(job)[x]
  <2>1. job[j].bytes \in Nat /\ job[j].held \in Nat
    BY <1>1 DEF Rows, Types, AJob
  <2>2. QED
    BY <1>1, <2>1 DEF CreateLocal, Admitted, OwedBytes, Rows, Types
<1>3. UNCHANGED <<media, put>>
  BY DEF CreateLocal
<1>4. Total(media', job', put') <= Total(media, job, put) + 0 + Budget + 0
  <2>1. /\ \A x \in Media : StoredBytes(media')[x] = StoredBytes(media)[x]
        /\ \A x \in OutputKeys : ReservedBytes(put')[x] = ReservedBytes(put)[x]
    BY <1>3
  <2>2. Budget \in Int /\ 0 \in Int
    BY <1>1
  <2>3. QED
    BY <1>1, <1>2, <2>1, <2>2, TotalChange DEF Rows, Types
<1>5. Used \in Nat /\ Used' \in Nat
  BY UsedNat, UsedNatAfter DEF Rows
<1>6. QED
  BY <1>1, <1>4, <1>5, UsedIsTotal, UsedIsTotalAfter, StorageAssumption DEF Rows

LEMMA UsedOnCreateImport ==
    ASSUME Rows, Rows', Used <= MaxStorage, NEW i \in Imports, CreateImport(i)
    PROVE  Used' <= MaxStorage
<1> DEFINE budget == Smaller(MaxImport, MaxStorage - Used)
<1>1. /\ i \in Jobs /\ i \in Media /\ budget \in Int /\ Used + budget <= MaxStorage
      /\ Used \in Nat /\ Used' \in Nat
  BY StorageAssumption, UsedNat, UsedNatAfter DEF Rows, Jobs, Media, Smaller
<1>2. /\ media' = [media EXCEPT ![i] = [status |-> "importing", bytes |-> 0, key |-> MediaKey(i), created |-> now]]
      /\ job' = [job EXCEPT ![i] = [state |-> "queued", media |-> i, version |-> 0, budget |-> budget,
                                    held |-> budget, output |-> NoKey, bytes |-> 0]]
      /\ put' = put
  BY DEF CreateImport, MediaAdmitted, Admitted
<1> HIDE DEF budget
<1>3. /\ OwedBytes(job')[i] <= OwedBytes(job)[i] + budget
      /\ \A x \in Jobs \ {i} : OwedBytes(job')[x] = OwedBytes(job)[x]
  <2>1. job[i].bytes \in Nat /\ job[i].held \in Nat
    BY <1>1 DEF Rows, Types, AJob
  <2>2. QED
    BY <1>1, <1>2, <2>1 DEF OwedBytes, Rows, Types
<1>4. /\ StoredBytes(media')[i] <= StoredBytes(media)[i] + 0
      /\ \A x \in Media \ {i} : StoredBytes(media')[x] = StoredBytes(media)[x]
  <2>1. StoredBytes(media)[i] \in Nat /\ StoredBytes(media')[i] = 0
    BY <1>1, <1>2, BytesAreNat DEF StoredBytes, Rows, Types
  <2>2. QED
    BY <1>1, <1>2, <2>1 DEF StoredBytes, Rows, Types
<1>5. Total(media', job', put') <= Total(media, job, put) + 0 + budget + 0
  <2>1. \A x \in OutputKeys : ReservedBytes(put')[x] = ReservedBytes(put)[x]
    BY <1>2
  <2>2. 0 \in Int
    OBVIOUS
  <2>3. QED
    BY <1>1, <1>3, <1>4, <2>1, <2>2, TotalChange DEF Rows, Types
<1>6. QED
  BY <1>1, <1>5, UsedIsTotal, UsedIsTotalAfter, StorageAssumption DEF Rows

LEMMA UsedOnClaim ==
    ASSUME Rows, Rows', Used <= MaxStorage, NEW j \in Jobs, Claim(j)
    PROVE  Used' <= MaxStorage
<1> DEFINE missing == job[j].budget - job[j].held
<1>1. /\ missing \in Int /\ (missing = 0 \/ Used + missing <= MaxStorage)
      /\ Used \in Nat /\ Used' \in Nat /\ UNCHANGED <<media, put>>
      /\ job[j] \in AJob /\ job[j].bytes \in Nat /\ job[j].held \in Nat /\ job[j].budget \in Nat
  BY UsedNat, UsedNatAfter DEF Rows, Types, AJob, Claim
<1>2. /\ OwedBytes(job')[j] <= OwedBytes(job)[j] + missing
      /\ \A x \in Jobs \ {j} : OwedBytes(job')[x] = OwedBytes(job)[x]
  <2>1. job'[j].bytes = job[j].bytes /\ job'[j].held = job[j].budget
    BY <1>1 DEF Claim, HeldOnClaim, Rows, Types, AJob
  <2>2. \A x \in Jobs \ {j} : job'[x] = job[x]
    BY DEF Claim, Rows, Types
  <2>3. QED
    BY <1>1, <2>1, <2>2 DEF OwedBytes
<1>3. Total(media', job', put') <= Total(media, job, put) + 0 + missing + 0
  <2>1. /\ \A x \in Media : StoredBytes(media')[x] = StoredBytes(media)[x]
        /\ \A x \in OutputKeys : ReservedBytes(put')[x] = ReservedBytes(put)[x]
    BY <1>1
  <2>2. 0 \in Int
    OBVIOUS
  <2> HIDE DEF missing
  <2>3. QED
    BY <1>1, <1>2, <2>1, <2>2, TotalChange DEF Rows, Types
<1>4. QED
  <2> HIDE DEF missing
  <2> QED BY <1>1, <1>3, UsedIsTotal, UsedIsTotalAfter, StorageAssumption DEF Rows

LEMMA UsedOnOutputIntent ==
    ASSUME Rows, Rows', NEW j \in Jobs, NEW b \in Sizes, NEW s \in Recent, OutputIntent(j, b, s)
    PROVE  Used' <= Used
<1> DEFINE k == Key(j)
<1>1. /\ k \in OutputKeys /\ b \in Nat /\ job[j] \in AJob /\ put[k] \in APut /\ media' = media
      /\ Used \in Nat /\ Used' \in Nat
  BY CurrentKey, UsedNat, UsedNatAfter, StorageAssumption
  DEF OutputIntent, ReserveOutput, Running, Rows, Types
<1>2. /\ put'[k].status = "pending" /\ put'[k].bytes = b
      /\ \A x \in OutputKeys \ {k} : put'[x] = put[x]
  BY <1>1 DEF OutputIntent, ReserveOutput, Rows, Types
<1>3. CASE put[k].status = "none"
  <2>1. b <= job[j].held /\ job' = [job EXCEPT ![j].held = HeldAfter(j, b)]
    BY <1>3 DEF OutputIntent, ReserveOutput
  <2>2. job'[j].bytes = job[j].bytes /\ job'[j].held = job[j].held - b /\ \A x \in Jobs \ {j} : job'[x] = job[x]
    BY <1>1, <2>1 DEF HeldAfter, Rows, Types, AJob
  <2>3. /\ OwedBytes(job')[j] <= OwedBytes(job)[j] + (0 - b)
        /\ \A x \in Jobs \ {j} : OwedBytes(job')[x] = OwedBytes(job)[x]
    BY <1>1, <2>2 DEF OwedBytes, AJob
  <2>4. /\ ReservedBytes(put')[k] <= ReservedBytes(put)[k] + b
        /\ \A x \in OutputKeys \ {k} : ReservedBytes(put')[x] = ReservedBytes(put)[x]
    BY <1>1, <1>2, <1>3 DEF ReservedBytes
  <2>5. Total(media', job', put') <= Total(media, job, put) + 0 + (0 - b) + b
    <3>1. \A x \in Media : StoredBytes(media')[x] = StoredBytes(media)[x]
      BY <1>1
    <3>2. 0 \in Int /\ 0 - b \in Int /\ b \in Int
      BY <1>1
    <3> HIDE DEF k
    <3>3. QED
      BY <1>1, <2>3, <2>4, <3>1, <3>2, TotalChange DEF Rows, Types
  <2>6. QED
    BY <1>1, <2>5, UsedIsTotal, UsedIsTotalAfter DEF Rows
<1>4. CASE put[k].status # "none"
  <2>1. put[k].status = "pending" /\ put[k].bytes = b
    BY <1>4 DEF OutputIntent, ReserveOutput
  <2>2. job' = job
    BY <1>1, <1>4 DEF OutputIntent, ReserveOutput, Rows, Types, AJob
  <2>3. Shrinks
    <3>1. \A x \in OutputKeys : ReservedBytes(put')[x] = ReservedBytes(put)[x]
      BY <1>1, <1>2, <2>1 DEF ReservedBytes
    <3>2. QED
      BY <1>1, <2>2, <3>1, BytesAreNat DEF Shrinks, Rows
  <2>4. QED
    BY <2>3, ShrinksStep DEF Rows
<1>5. QED
  BY <1>3, <1>4

LEMMA UsedOnFinish ==
    ASSUME Rows, Rows', NEW j \in Jobs, FinishCompleted(j)
    PROVE  Used' <= Used
<1> DEFINE k == Key(j)
           d == put[k].bytes
<1>1. /\ k \in OutputKeys /\ put[k] \in APut /\ put[k].status = "pending" /\ d \in Nat
      /\ job[j] \in AJob /\ job[j].held \in Nat /\ job[j].bytes \in Nat /\ job[j].state = "active"
      /\ Used \in Nat /\ Used' \in Nat
  BY CurrentKey, UsedNat, UsedNatAfter DEF FinishCompleted, Running, Rows, Types, APut, AJob
<1>2. /\ ReservedBytes(put')[k] <= ReservedBytes(put)[k] + (0 - d)
      /\ \A x \in OutputKeys \ {k} : ReservedBytes(put')[x] = ReservedBytes(put)[x]
  <2>1. put' = [put EXCEPT ![k].status = "committed"]
    BY DEF FinishCompleted, Settle
  <2>2. put'[k].status = "committed" /\ \A x \in OutputKeys \ {k} : put'[x] = put[x]
    BY <1>1, <2>1 DEF Rows, Types, APut
  <2>3. QED
    BY <1>1, <2>2 DEF ReservedBytes
<1> DEFINE q == [job[j] EXCEPT !.state = "ended", !.held = 0,
                     !.output = IF j \in Locals THEN k ELSE job[j].output,
                     !.bytes = IF j \in Locals THEN d ELSE job[j].bytes]
<1>3. job' = [job EXCEPT ![j] = q]
  BY DEF FinishCompleted, Settle, Rows, Types
<1>4. /\ j \in Locals => OwedBytes(job')[j] <= OwedBytes(job)[j] + d
      /\ j \notin Locals => OwedBytes(job')[j] <= OwedBytes(job)[j] + 0
      /\ \A x \in Jobs \ {j} : OwedBytes(job')[x] = OwedBytes(job)[x]
  <2>1. q.held = 0 /\ q.bytes = IF j \in Locals THEN d ELSE job[j].bytes
    BY <1>1 DEF AJob
  <2>2. job'[j] = q /\ \A x \in Jobs \ {j} : job'[x] = job[x]
    BY <1>3 DEF Rows, Types
  <2> HIDE DEF q, d
  <2>3. QED
    BY <1>1, <2>1, <2>2 DEF OwedBytes
<1>5. CASE j \in Locals
  <2>1. \A x \in Media : StoredBytes(media')[x] = StoredBytes(media)[x]
    BY <1>5, StorageAssumption DEF FinishCompleted, Settle, SettledMedia
  <2>2. Total(media', job', put') <= Total(media, job, put) + 0 + d + (0 - d)
    <3>1. 0 \in Int /\ 0 - d \in Int /\ d \in Int
      BY <1>1
    <3> HIDE DEF k, d, q
    <3>2. QED
      BY <1>1, <1>2, <1>4, <1>5, <2>1, <3>1, TotalChange DEF Rows, Types
  <2> HIDE DEF d
  <2>3. QED
    BY <1>1, <2>2, UsedIsTotal, UsedIsTotalAfter DEF Rows
<1>6. CASE j \in Imports
  <2>1. /\ StoredBytes(media')[j] <= StoredBytes(media)[j] + d
        /\ \A x \in Media \ {j} : StoredBytes(media')[x] = StoredBytes(media)[x]
    <3>1. j \in Media /\ media[j] \in AMedia
      BY <1>6 DEF Media, Rows, Types
    <3> DEFINE f == [media[j] EXCEPT !.status = "ready", !.bytes = d, !.key = k]
    <3>2. media' = [media EXCEPT ![j] = f]
      BY <1>6 DEF FinishCompleted, Settle, SettledMedia, Rows, Types
    <3>3. f.status = "ready" /\ f.bytes = d
      BY <3>1 DEF AMedia
    <3>4. media'[j] = f /\ \A x \in Media \ {j} : media'[x] = media[x]
      BY <3>1, <3>2 DEF Rows, Types
    <3> HIDE DEF f, d
    <3>5. StoredBytes(media')[j] = d
      BY <3>1, <3>3, <3>4 DEF StoredBytes
    <3>6. StoredBytes(media)[j] \in Nat
      BY <3>1, BytesAreNat DEF Rows
    <3>7. QED
      BY <1>1, <3>4, <3>5, <3>6 DEF StoredBytes
  <2>2. Total(media', job', put') <= Total(media, job, put) + d + 0 + (0 - d)
    <3>1. 0 \in Int /\ 0 - d \in Int /\ d \in Int /\ j \in Media /\ j \notin Locals
      BY <1>1, <1>6, StorageAssumption DEF Media
    <3> HIDE DEF k, d, q
    <3>2. QED
      BY <1>1, <1>2, <1>4, <1>6, <2>1, <3>1, TotalChange DEF Rows, Types
  <2> HIDE DEF d
  <2>3. QED
    BY <1>1, <2>2, UsedIsTotal, UsedIsTotalAfter DEF Rows
<1>7. QED
  BY <1>5, <1>6 DEF Jobs

LEMMA UsedOnSettle ==
    ASSUME Rows, Rows', NEW j \in Jobs, NEW outcome \in {"failed", "stopped", "retry_wait"},
           job[j].state \in Unfinished, Settle(j, outcome)
    PROVE  Used' <= Used
<1>1. job[j] \in AJob /\ JobRow(j) /\ job[j].held \in Nat /\ job[j].bytes \in Nat
  BY DEF Rows, Types, JobRows, AJob
<1>2. \A x \in Jobs : OwedBytes(job')[x] <= OwedBytes(job)[x]
  <2> DEFINE q == [job[j] EXCEPT
                       !.state = IF outcome = "retry_wait" THEN "queued" ELSE "ended",
                       !.held = IF outcome = "retry_wait" THEN job[j].held ELSE 0,
                       !.output = IF outcome = "completed" /\ j \in Locals THEN Key(j) ELSE job[j].output,
                       !.bytes = IF outcome = "completed" /\ j \in Locals THEN put[Key(j)].bytes ELSE job[j].bytes]
  <2>1. job' = [job EXCEPT ![j] = q]
    BY DEF Settle, Rows, Types
  <2>2. q.held \in {0, job[j].held} /\ q.bytes = job[j].bytes
    BY <1>1 DEF AJob
  <2>3. job'[j] = q /\ \A x \in Jobs \ {j} : job'[x] = job[x]
    BY <2>1 DEF Rows, Types
  <2> HIDE DEF q
  <2>4. OwedBytes(job')[j] <= OwedBytes(job)[j]
    BY <1>1, <2>2, <2>3 DEF OwedBytes
  <2>5. \A x \in Jobs \ {j} : OwedBytes(job')[x] = OwedBytes(job)[x]
    BY <2>3 DEF OwedBytes
  <2>6. QED
    BY <2>4, <2>5, BytesAreNat DEF Rows
<1>3. \A x \in Media : StoredBytes(media')[x] = StoredBytes(media)[x]
  <2>1. CASE j \notin Imports \/ outcome = "retry_wait"
    BY <2>1 DEF Settle, SettledMedia
  <2>2. CASE j \in Imports /\ outcome # "retry_wait"
    <3>1. j \in Media /\ media[j] \in AMedia /\ media[j].status = "importing"
      BY <1>1, <2>2 DEF Media, Rows, Types, JobRow
    <3> DEFINE f == [media[j] EXCEPT !.status = "failed"]
    <3>2. media' = [media EXCEPT ![j] = f]
      BY <2>2 DEF Settle, SettledMedia
    <3>3. f.status = "failed" /\ f.bytes = media[j].bytes
      BY <3>1 DEF AMedia
    <3>4. media'[j] = f /\ \A x \in Media \ {j} : media'[x] = media[x]
      BY <3>1, <3>2 DEF Rows, Types
    <3> HIDE DEF f
    <3>5. QED
      BY <3>1, <3>3, <3>4 DEF StoredBytes
  <2>3. QED
    BY <2>1, <2>2
<1>4. put' = put
  BY DEF Settle
<1>5. Shrinks
  BY <1>2, <1>3, <1>4, BytesAreNat DEF Shrinks, Rows
<1>6. QED
  BY <1>5, ShrinksStep DEF Rows

\* What concerns media rows alone, and the clean-up, takes nothing more; the
\* confirmation of a deletion gives back.
LEMMA UsedOnMediaStep ==
    ASSUME Rows, Rows', NEW m \in Media, UNCHANGED <<job, put>>, media[m].status # "absent",
           NEW status \in Statuses, media' = [media EXCEPT ![m].status = status],
           media[m].status # "deleted"
    PROVE  Used' <= Used
<1>1. media[m] \in AMedia /\ media[m].bytes \in Nat
  BY DEF Rows, Types, AMedia
<1> DEFINE f == [media[m] EXCEPT !.status = status]
<1>2. f.bytes = media[m].bytes
  BY <1>1 DEF AMedia
<1>3. media'[m] = f /\ \A x \in Media \ {m} : media'[x] = media[x]
  BY DEF Rows, Types
<1> HIDE DEF f
<1>4. StoredBytes(media')[m] <= StoredBytes(media)[m]
  BY <1>1, <1>2, <1>3 DEF StoredBytes
<1>5. \A x \in Media \ {m} : StoredBytes(media')[x] = StoredBytes(media)[x]
  BY <1>3 DEF StoredBytes
<1>6. /\ \A x \in Media : StoredBytes(media)[x] \in Nat
      /\ \A j \in Jobs : OwedBytes(job)[j] \in Nat
      /\ \A k \in OutputKeys : ReservedBytes(put)[k] \in Nat
  BY BytesAreNat DEF Rows
<1>7. OwedBytes(job') = OwedBytes(job) /\ ReservedBytes(put') = ReservedBytes(put)
  OBVIOUS
<1>8. Shrinks
  <2>1. \A x \in Media : StoredBytes(media')[x] <= StoredBytes(media)[x]
    <3> DEFINE s == StoredBytes(media)
               t == StoredBytes(media')
    <3>1. t[m] <= s[m] /\ (\A x \in Media \ {m} : t[x] = s[x]) /\ \A x \in Media : s[x] \in Nat
      BY <1>4, <1>5, <1>6
    <3> HIDE DEF s, t
    <3>2. \A x \in Media : t[x] <= s[x]
      BY <3>1
    <3>3. QED
      BY <3>2 DEF s, t
  <2>2. /\ \A j \in Jobs : OwedBytes(job')[j] <= OwedBytes(job)[j]
        /\ \A k \in OutputKeys : ReservedBytes(put')[k] <= ReservedBytes(put)[k]
    BY <1>6, <1>7
  <2>3. QED
    BY <2>1, <2>2 DEF Shrinks
<1>9. QED
  BY <1>8, ShrinksStep DEF Rows

LEMMA UsedOnCleanup ==
    ASSUME Rows, Rows', NEW oldJobs \in SUBSET Jobs, NEW oldMedia \in SUBSET Media, Cleanup(oldJobs, oldMedia)
    PROVE  Used' <= Used
<1>1. ASSUME NEW j \in Jobs PROVE OwedBytes(job')[j] = OwedBytes(job)[j]
  <2>1. job[j] \in AJob
    BY DEF Rows, Types
  <2> DEFINE q == [job[j] EXCEPT !.state = "gone", !.media = NoMedia]
  <2>2. q.bytes = job[j].bytes /\ q.held = job[j].held
    BY <2>1 DEF AJob
  <2>3. job'[j] \in {q, job[j]}
    BY DEF Cleanup
  <2> HIDE DEF q
  <2>4. QED
    BY <2>2, <2>3 DEF OwedBytes
<1>2. ASSUME NEW m \in Media PROVE StoredBytes(media')[m] = StoredBytes(media)[m]
  <2>1. media[m] \in AMedia
    BY DEF Rows, Types
  <2> DEFINE f == [media[m] EXCEPT !.status = "deleting"]
  <2>2. f.bytes = media[m].bytes /\ f.status = "deleting"
    BY <2>1 DEF AMedia
  <2>3. media'[m] = IF m \in oldMedia THEN f ELSE media[m]
    BY DEF Cleanup
  <2>4. m \in oldMedia => media[m].status \notin {"absent", "deleted"}
    BY DEF Cleanup, LiveMedia
  <2> HIDE DEF f
  <2>5. QED
    BY <2>2, <2>3, <2>4 DEF StoredBytes
<1>3. put' = put
  BY DEF Cleanup
<1>4. Shrinks
  BY <1>1, <1>2, <1>3, BytesAreNat DEF Shrinks, Rows
<1>5. QED
  BY <1>4, ShrinksStep DEF Rows

LEMMA UsedOnConfirm ==
    ASSUME Rows, Rows', NEW k \in Keys, ConfirmDeletion(k)
    PROVE  Used' <= Used
<1>1. ASSUME NEW j \in Jobs PROVE OwedBytes(job')[j] <= OwedBytes(job)[j]
  <2>1. job[j] \in AJob /\ job[j].bytes \in Nat /\ job[j].held \in Nat
    BY DEF Rows, Types, AJob
  <2> DEFINE q == [job[j] EXCEPT !.output = NoKey, !.bytes = 0]
  <2>2. q.bytes = 0 /\ q.held = job[j].held
    BY <2>1 DEF AJob
  <2>3. job'[j] \in {q, job[j]}
    BY DEF ConfirmDeletion
  <2> HIDE DEF q
  <2>4. QED
    BY <2>1, <2>2, <2>3 DEF OwedBytes
<1>2. ASSUME NEW m \in Media PROVE StoredBytes(media')[m] <= StoredBytes(media)[m]
  <2>1. media[m] \in AMedia /\ media[m].bytes \in Nat
    BY DEF Rows, Types, AMedia
  <2> DEFINE f == [media[m] EXCEPT !.status = "deleted"]
  <2>2. f.status = "deleted"
    BY <2>1 DEF AMedia
  <2>3. media'[m] \in {f, media[m]}
    BY DEF ConfirmDeletion
  <2> HIDE DEF f
  <2>4. QED
    BY <2>1, <2>2, <2>3 DEF StoredBytes
<1>3. ASSUME NEW x \in OutputKeys PROVE ReservedBytes(put')[x] <= ReservedBytes(put)[x]
  <2>1. put[x] \in APut /\ put[x].bytes \in Nat
    BY DEF Rows, Types, APut
  <2>2. put'[x] \in {[status |-> "none", bytes |-> 0, expires |-> 0], put[x]}
    BY DEF ConfirmDeletion
  <2>3. QED
    BY <2>1, <2>2 DEF ReservedBytes
<1>4. Shrinks
  BY <1>1, <1>2, <1>3 DEF Shrinks
<1>5. QED
  BY <1>4, ShrinksStep DEF Rows

\* What is used never exceeds the quota.
LEMMA UsedStep ==
    ASSUME Rows, Rows', Used <= MaxStorage, [Next]_vars
    PROVE  Used' <= MaxStorage
<1> USE DEF Rows
<1>1. MaxStorage \in Nat /\ Used \in Nat /\ Used' \in Nat
  BY UsedNat, UsedNatAfter, StorageAssumption
<1>2. CASE UNCHANGED <<media, job, put>>
  BY <1>2 DEF Used, LiveMedia, PendingPuts
<1>3. ASSUME NEW m \in Uploads, NEW b \in Sizes, NEW s \in Recent, UploadIntent(m, b, s)
      PROVE  Used' <= MaxStorage
  BY <1>3, UsedOnUpload
<1>4. ASSUME NEW k \in Keys, StorePut(k) \/ Verify(k) \/ Remove(k) \/ ConfirmDeletion(k)
      PROVE  Used' <= MaxStorage
  <2>1. CASE ConfirmDeletion(k)
    BY <1>1, <2>1, UsedOnConfirm
  <2>2. CASE StorePut(k) \/ Verify(k) \/ Remove(k)
    BY <1>2, <2>2 DEF StorePut, Verify, Remove
  <2>3. QED
    BY <1>4, <2>1, <2>2
<1>5. ASSUME NEW m \in Uploads,
             UploadComplete(m) \/ \E verdict \in {"ready", "failed"} : Validated(m, verdict)
      PROVE  Used' <= MaxStorage
  <2>1. m \in Media /\ {"ready", "failed", "validating"} \subseteq Statuses
    BY DEF Media, Statuses
  <2>2. Used' <= Used
    <3>1. CASE UploadComplete(m)
      BY <2>1, <3>1, UsedOnMediaStep DEF UploadComplete
    <3>2. ASSUME NEW verdict \in {"ready", "failed"}, Validated(m, verdict) PROVE Used' <= Used
      BY <2>1, <3>2, UsedOnMediaStep DEF Validated
    <3>3. QED
      BY <1>5, <3>1, <3>2
  <2>3. QED
    BY <1>1, <2>2
<1>6. ASSUME NEW j \in Locals, NEW m \in Media, CreateLocal(j, m) PROVE Used' <= MaxStorage
  BY <1>6, UsedOnCreateLocal
<1>7. ASSUME NEW i \in Imports, CreateImport(i) PROVE Used' <= MaxStorage
  BY <1>7, UsedOnCreateImport
<1>8. ASSUME NEW j \in Jobs, NEW b \in Sizes, NEW s \in Recent, OutputIntent(j, b, s)
      PROVE  Used' <= MaxStorage
  BY <1>1, <1>8, UsedOnOutputIntent
<1>9. ASSUME NEW j \in Jobs, Claim(j) \/ FinishCompleted(j) \/ Cancel(j) PROVE Used' <= MaxStorage
  <2>1. CASE Claim(j)
    BY <2>1, UsedOnClaim
  <2>2. CASE FinishCompleted(j)
    BY <1>1, <2>2, UsedOnFinish
  <2>3. CASE Cancel(j)
    <3>1. ASSUME NEW x \in Jobs PROVE OwedBytes(job')[x] = OwedBytes(job)[x]
      BY <2>3 DEF Cancel, Types, AJob, OwedBytes
    <3>2. UNCHANGED <<media, put>>
      BY <2>3 DEF Cancel
    <3>3. Shrinks
      BY <3>1, <3>2, BytesAreNat DEF Shrinks
    <3>4. QED
      BY <1>1, <3>3, ShrinksStep
  <2>4. QED
    BY <1>9, <2>1, <2>2, <2>3
<1>10. ASSUME NEW j \in Jobs,
              Lapse(j) \/ \E o \in {"failed", "stopped", "retry_wait"} : FinishOtherwise(j, o)
       PROVE  Used' <= MaxStorage
  <2>1. ASSUME Lapse(j) PROVE Used' <= Used
    BY <2>1, UsedOnSettle DEF Lapse
  <2>2. ASSUME NEW o \in {"failed", "stopped", "retry_wait"}, FinishOtherwise(j, o) PROVE Used' <= Used
    BY <2>2, UsedOnSettle DEF FinishOtherwise, Unfinished
  <2>3. QED
    BY <1>1, <1>10, <2>1, <2>2
<1>11. ASSUME NEW m \in Media, DeleteMedia(m) PROVE Used' <= MaxStorage
  <2>1. "deleting" \in Statuses
    BY DEF Statuses
  <2>2. Used' <= Used
    BY <1>11, <2>1, UsedOnMediaStep DEF DeleteMedia, LiveMedia
  <2>3. QED
    BY <1>1, <2>2
<1>12. ASSUME NEW old \in SUBSET Jobs, NEW oldMedia \in SUBSET Media, Cleanup(old, oldMedia)
       PROVE  Used' <= MaxStorage
  BY <1>1, <1>12, UsedOnCleanup
<1>13. ASSUME NEW k \in Keys, DeletionFailed(k) PROVE Used' <= MaxStorage
  BY <1>2, <1>13 DEF DeletionFailed
<1>14. CASE Tick
  BY <1>2, <1>14 DEF Tick
<1>15. CASE UNCHANGED vars
  BY <1>2, <1>15 DEF vars
<1>16. QED
  BY <1>3, <1>4, <1>5, <1>6, <1>7, <1>8, <1>9, <1>10, <1>11, <1>12, <1>13, <1>14, <1>15 DEF Next

LEMMA UsedInit == Init => Used = 0
<1> SUFFICES ASSUME Init PROVE Used = 0
  OBVIOUS
<1>1. LiveMedia = {} /\ PendingPuts = {}
  BY DEF Init, LiveMedia, PendingPuts
<1> DEFINE owed == [j \in Jobs |-> job[j].bytes + job[j].held]
<1>2. Sum([m \in Media |-> media[m].bytes], {}) = 0 /\ Sum([k \in OutputKeys |-> put[k].bytes], {}) = 0
  BY SumEmpty
<1>3. Sum(owed, Jobs) = 0
  <2>1. \A j \in Jobs : owed[j] \in Nat /\ owed[j] = 0
    BY DEF Init
  <2> HIDE DEF owed
  <2>2. Sum(owed, Jobs) = Sum(owed, {})
    <3>1. {} \subseteq Jobs
      OBVIOUS
    <3>2. QED
      BY <2>1, <3>1, Finite, SumFiltered
  <2>3. QED
    BY <2>2, SumEmpty
<1>4. QED
  BY <1>1, <1>2, <1>3 DEF Used, Sum

-----------------------------------------------------------------------------
(* What the invariant says of objects and of the quota.                       *)

\* No row knows of the key any more: the object can only have come too late.
Abandoned(k) == IF k \in OutputKeys THEN put[k].status = "none" ELSE media[k[1]].status = "deleted"

\* The row a key is charged to, of which there is one unless it is abandoned.
LEMMA OneCharge ==
    ASSUME Rows, NEW k \in Possible
    PROVE  Charges(k) = IF Abandoned(k) THEN 0 ELSE 1
<1> DEFINE A == {m \in LiveMedia : media[m].key = k}
           B == {j \in Jobs : job[j].output = k}
<1> USE KeyFacts, StorageAssumption DEF Rows
<1>1. k \in Keys /\ ~Unused(k) /\ (now < url[k] \/ k \in object)
  BY DEF Possible, Unused, Types
<1>2. \A m \in Media : media[m].key = k => m = k[1]
  BY <1>1 DEF MediaRows, MediaRow, Fetched, Types
<1>3. \A j \in Jobs : job[j].output = k => j = k[1]
  BY <1>1 DEF JobRows, JobRow
<1>4. /\ A = {} \/ A = {k[1]}
      /\ B = {} \/ B = {k[1]}
  BY <1>2, <1>3 DEF LiveMedia
<1>5. /\ Cardinality({}) = 0 /\ Cardinality({k[1]}) = 1
      /\ Charges(k) = Cardinality(A) + Cardinality(B) + (IF k \in PendingPuts THEN 1 ELSE 0)
  BY FS_EmptySet, FS_Singleton DEF Charges
<1>6. ASSUME k \in OutputKeys, put[k].status = "pending" PROVE Charges(k) = 1
  <2>1. B = {}
    BY <1>3, <1>6 DEF OutputRows, PendingKey
  <2>2. A = {}
    <3>1. k[1] \in Media /\ media[k[1]].key = k => k[1] \in Imports
      BY <1>6 DEF MediaRows, MediaRow
    <3>2. QED
      BY <1>2, <1>6, <3>1 DEF OutputRows, PendingKey, LiveMedia
  <2>3. k \in PendingPuts
    BY <1>6 DEF PendingPuts
  <2>4. QED
    <3> HIDE DEF A, B
    <3> QED BY <1>5, <2>1, <2>2, <2>3
<1>7. ASSUME k \in OutputKeys, put[k].status = "committed" PROVE Charges(k) = 1
  <2>1. k \notin PendingPuts
    BY <1>7 DEF PendingPuts
  <2>2. CommittedKey(k) /\ k[1] \in Jobs
    BY <1>7 DEF OutputRows
  <2>3. CASE k[1] \in Locals
    <3>1. A = {}
      <4>1. k[1] \in Media /\ media[k[1]].key = k => k[1] \in Imports
        BY <1>7 DEF MediaRows, MediaRow
      <4>2. QED
        BY <1>2, <2>3, <4>1 DEF LiveMedia
    <3>2. B = {k[1]}
      BY <1>4, <1>7, <2>2, <2>3 DEF CommittedKey
    <3>3. QED
      <4> HIDE DEF A, B
      <4> QED BY <1>5, <2>1, <3>1, <3>2
  <2>4. CASE k[1] \in Imports
    <3>1. A = {k[1]}
      <4>1. k[1] \in Media /\ media[k[1]].key = k /\ media[k[1]].status \in {"ready", "deleting"}
        BY <1>7, <2>2, <2>4 DEF CommittedKey, Media
      <4>2. QED
        BY <1>4, <4>1 DEF LiveMedia
    <3>2. B = {}
      <4>1. k # NoKey
        BY <1>7
      <4>2. \A j \in Jobs : job[j].output = k => j \in Locals
        BY <4>1 DEF JobRows, JobRow
      <4>3. QED
        BY <1>3, <2>4, <4>2
    <3>3. QED
      <4> HIDE DEF A, B
      <4> QED BY <1>5, <2>1, <3>1, <3>2
  <2>5. QED
    BY <2>2, <2>3, <2>4 DEF Jobs
<1>8. ASSUME k \in OutputKeys, put[k].status = "none" PROVE Charges(k) = 0
  <2>1. FreeKey(k) /\ k[1] \in Jobs /\ k \notin PendingPuts
    BY <1>8 DEF OutputRows, PendingPuts
  <2>2. B = {}
    BY <1>3, <1>8, <2>1 DEF FreeKey
  <2>3. A = {}
    <3>1. k[1] \in Media /\ media[k[1]].key = k => k[1] \in Imports
      BY <1>8 DEF MediaRows, MediaRow
    <3>2. QED
      BY <1>2, <1>8, <2>1, <3>1 DEF FreeKey, LiveMedia
  <2>4. QED
    <3> HIDE DEF A, B
    <3> QED BY <1>5, <2>1, <2>2, <2>3
<1>9. ASSUME k \notin OutputKeys
      PROVE  Charges(k) = IF media[k[1]].status = "deleted" THEN 0 ELSE 1
  <2>1. k \notin PendingPuts /\ B = {}
    BY <1>1, <1>9 DEF PendingPuts, Types, AJob, NoKey
  <2>2. k[1] \in Media /\ k = MediaKey(k[1])
    BY <1>1, <1>9
  <2>3. k[1] \in Uploads
    BY <1>1, <2>2 DEF ImportKeys, ImportKey, Media, Types
  <2>4. media[k[1]].status # "absent" /\ media[k[1]].key = k
    BY <1>1, <2>2, <2>3 DEF UploadKeys, UploadKey, MediaRows, MediaRow
  <2>5. CASE media[k[1]].status = "deleted"
    <3>1. A = {}
      BY <1>2, <2>5 DEF LiveMedia
    <3>2. QED
      <4> HIDE DEF A, B
      <4> QED BY <1>5, <2>1, <2>5, <3>1
  <2>6. CASE media[k[1]].status # "deleted"
    <3>1. A = {k[1]}
      BY <1>4, <2>2, <2>4, <2>6 DEF LiveMedia
    <3>2. QED
      <4> HIDE DEF A, B
      <4> QED BY <1>5, <2>1, <2>6, <3>1
  <2>7. QED
    BY <2>5, <2>6
<1>10. k \in OutputKeys => put[k].status \in {"none", "pending", "committed"}
  BY DEF Types, APut
<1>11. QED
  BY <1>6, <1>7, <1>8, <1>9, <1>10 DEF Abandoned

\* An abandoned object is a stray.
LEMMA Strays ==
    ASSUME Rows, NEW k \in Possible, Abandoned(k)
    PROVE  k \in Stray
<1> USE KeyFacts, StorageAssumption DEF Rows
<1>1. k \in Keys /\ (now < url[k] \/ k \in object) /\ now \in Nat /\ url[k] \in Nat \cup {Never}
  BY DEF Possible, Types
<1>2. Lost(k)
  <2>1. CASE k \in OutputKeys
    BY <2>1 DEF Abandoned, OutputRows, FreeKey
  <2>2. CASE k \notin OutputKeys
    <3>1. k[1] \in Media /\ k = MediaKey(k[1])
      BY <1>1, <2>2
    <3>2. k[1] \in Uploads
      BY <1>1, <3>1 DEF ImportKeys, ImportKey, Media, Types
    <3>3. QED
      BY <2>2, <3>1, <3>2 DEF Abandoned, UploadKeys, UploadKey
  <2>3. QED
    BY <2>1, <2>2
<1>3. k \in belated
  BY <1>1, <1>2 DEF Lost
<1>4. Charges(k) = 0
  BY OneCharge
<1>5. QED
  BY <1>3, <1>4 DEF Stray

LEMMA DataKept == Rows => LiveDataKept
<1> SUFFICES ASSUME Rows PROVE LiveDataKept
  OBVIOUS
<1> USE KeyFacts, StorageAssumption DEF Rows
<1>1. ASSUME NEW m \in Media, media[m].status \in {"validating", "ready"} PROVE media[m].key \in object
  <2>1. MediaRow(m)
    BY DEF MediaRows
  <2>2. CASE m \in Uploads
    BY <1>1, <2>1, <2>2 DEF MediaRow, UploadKeys, UploadKey
  <2>3. CASE m \in Imports
    <3> DEFINE k == Fetched(m)
    <3>1. media[m].status = "ready" /\ media[m].key = k /\ k \in OutputKeys /\ k[1] = m
      BY <1>1, <2>1, <2>3 DEF MediaRow, Fetched, Jobs
    <3> HIDE DEF k
    <3>2. put[k].status = "committed"
      BY <2>3, <3>1 DEF OutputRows, FreeKey, PendingKey, Types, APut
    <3>3. ~ToBeDeleted(k)
      BY <3>1 DEF Deletions, Deletion
    <3>4. QED
      BY <3>1, <3>2, <3>3 DEF OutputRows, CommittedKey
  <2>4. QED
    BY <2>2, <2>3 DEF Media
<1>2. ASSUME NEW j \in Jobs, job[j].output # NoKey, deletion[job[j].output].at = Never
      PROVE  job[j].output \in object
  <2> DEFINE k == job[j].output
  <2>1. k \in OutputKeys /\ k[1] = j /\ ~ToBeDeleted(k)
    BY <1>2 DEF Types, AJob, JobRows, JobRow, ToBeDeleted
  <2>2. put[k].status = "committed"
    BY <2>1 DEF OutputRows, FreeKey, PendingKey, Types, APut
  <2>3. QED
    BY <2>1, <2>2 DEF OutputRows, CommittedKey
<1>3. ASSUME NEW j \in Locals, job[j].state \in Unfinished PROVE media[job[j].media].key \in object
  <2>1. j \in Jobs /\ job[j].media \in Media /\ media[job[j].media].status = "ready"
    BY <1>3 DEF Jobs, JobRows, JobRow
  <2>2. QED
    BY <1>1, <2>1
<1>4. QED
  BY <1>1, <1>2, <1>3 DEF LiveDataKept

LEMMA CanFinish == Rows => AttemptCanFinish
BY DEF Rows, JobRows, JobRow, AttemptCanFinish

\* Rows that exist, may still arrive or are promised: what each is charged to.
LEMMA Quota == Rows /\ Used <= MaxStorage => WithinQuota
<1> SUFFICES ASSUME Rows, Used <= MaxStorage PROVE WithinQuota
  OBVIOUS
<1> USE DEF Rows
<1> DEFINE Counted == Possible \ Stray
           size == [k \in Keys |-> SizeOf(k)]
           P == {k \in Counted : k \in OutputKeys /\ put[k].status = "pending"}
           L == {k \in Counted : k \in OutputKeys /\ put[k].status = "committed" /\ k[1] \in Locals}
           M == (Counted \ P) \ L
           held == [j \in Jobs |-> job[j].held]
           made == [j \in Jobs |-> job[j].bytes]
<1>0. \A k \in Counted : k \in Keys /\ (now < url[k] \/ k \in object) /\ ~Unused(k) /\ ~Abandoned(k)
  BY Strays DEF Possible, Unused, Types
<1> HIDE DEF Counted
<1>1. \A k \in Keys : size[k] \in Nat /\ size[k] = IF k \in OutputKeys THEN put[k].bytes ELSE media[k[1]].bytes
  BY KeyFacts DEF SizeOf, Types, APut, AMedia
<1>2. /\ IsFiniteSet(P) /\ IsFiniteSet(L) /\ IsFiniteSet(M)
      /\ P \subseteq OutputKeys /\ L \subseteq OutputKeys /\ M \subseteq Keys
      /\ P \cap L = {} /\ (P \cup L) \cap M = {} /\ (P \cup L) \cup M = Counted
  <2>1. P \subseteq Keys /\ L \subseteq Keys /\ M \subseteq Keys
    BY <1>0
  <2>2. QED
    BY <2>1, Finite, FS_Subset
<1>3. Sum(size, P) <= Sum(ReservedBytes(put), OutputKeys)
  <2>1. \A k \in P : size[k] \in Nat /\ size[k] <= ReservedBytes(put)[k]
    BY <1>1, KeyFacts DEF ReservedBytes
  <2> HIDE DEF size, P
  <2>2. QED
    BY <1>2, <2>1, Finite, SumBelow, BytesAreNat
<1>4. Sum(size, L) <= Sum(made, Jobs)
  <2> DEFINE h == [k \in L |-> k[1]]
  <2>1. h \in [L -> Jobs]
    BY KeyFacts
  <2>2. \A k \in L : job[k[1]].output = k /\ job[k[1]].bytes = put[k].bytes
    BY DEF OutputRows, CommittedKey
  <2>3. \A x, y \in L : h[x] = h[y] => x = y
    BY <2>2
  <2>4. \A k \in L : size[k] \in Nat /\ size[k] <= made[h[k]]
    <3> SUFFICES ASSUME NEW k \in L PROVE size[k] \in Nat /\ size[k] <= made[h[k]]
      OBVIOUS
    <3>1. size[k] \in Nat /\ size[k] = put[k].bytes
      BY <1>1, KeyFacts
    <3>2. made[h[k]] = put[k].bytes
      BY <2>1, <2>2
    <3>3. QED
      BY <3>1, <3>2
  <2>5. \A j \in Jobs : made[j] \in Nat
    BY DEF Types, AJob
  <2> HIDE DEF size, L, made, h
  <2>6. QED
    BY <1>2, <2>1, <2>3, <2>4, <2>5, Finite, SumInjected
<1>5. Sum(size, M) <= Sum(StoredBytes(media), Media)
  <2> DEFINE h == [k \in M |-> k[1]]
  <2>1. ASSUME NEW k \in M
        PROVE  /\ k[1] \in Media /\ media[k[1]].key = k /\ size[k] = media[k[1]].bytes
               /\ media[k[1]].status \notin {"absent", "deleted"}
    <3>0. k \in Keys /\ (now < url[k] \/ k \in object) /\ ~Unused(k) /\ ~Abandoned(k)
      BY <1>0
    <3>1. CASE k \in OutputKeys
      <4>1. put[k].status = "committed" /\ k[1] \in Imports
        BY <3>0, <3>1, KeyFacts DEF Abandoned, Types, APut, Jobs
      <4>2. QED
        BY <1>1, <3>0, <3>1, <4>1 DEF OutputRows, CommittedKey, Media
    <3>2. CASE k \notin OutputKeys
      <4>1. k[1] \in Media /\ k = MediaKey(k[1])
        BY <3>0, <3>2, KeyFacts
      <4>2. k[1] \in Uploads
        BY <3>0, <4>1 DEF ImportKeys, ImportKey, Media, Types
      <4>3. media[k[1]].status \notin {"absent", "deleted"} /\ media[k[1]].key = k
        BY <3>0, <3>2, <4>1, <4>2, StorageAssumption DEF Abandoned, UploadKeys, UploadKey, MediaRows, MediaRow
      <4>4. QED
        BY <1>1, <3>0, <3>2, <4>1, <4>3
    <3>3. QED
      BY <3>1, <3>2
  <2>2. h \in [M -> Media]
    BY <2>1
  <2>3. ASSUME NEW x \in M, NEW y \in M, h[x] = h[y] PROVE x = y
    <3>1. x[1] = y[1]
      <4> HIDE DEF M
      <4> QED BY <2>3
    <3>2. media[x[1]].key = x /\ media[y[1]].key = y
      <4> HIDE DEF M, h
      <4> QED BY <2>1
    <3>3. QED
      BY <3>1, <3>2
  <2>4. \A k \in M : size[k] \in Nat /\ size[k] <= StoredBytes(media)[h[k]]
    <3> SUFFICES ASSUME NEW k \in M PROVE size[k] \in Nat /\ size[k] <= StoredBytes(media)[h[k]]
      OBVIOUS
    <3>1. size[k] \in Nat /\ size[k] = media[k[1]].bytes
      BY <1>0, <1>1, <2>1
    <3>2. StoredBytes(media)[h[k]] = media[k[1]].bytes
      BY <2>1 DEF StoredBytes
    <3>3. QED
      BY <3>1, <3>2
  <2> HIDE DEF size, M, h
  <2>5. QED
    BY <1>2, <2>2, <2>3, <2>4, Finite, SumInjected, BytesAreNat
<1>6. /\ Sum(size, Counted) = Sum(size, P) + Sum(size, L) + Sum(size, M)
      /\ Sum(size, P) \in Nat /\ Sum(size, L) \in Nat /\ Sum(size, M) \in Nat
  <2>1. \A k \in P \cup L \cup M : size[k] \in Nat
    BY <1>1, <1>2, KeyFacts
  <2> HIDE DEF size, P, L, M
  <2>2. Sum(size, P \cup L) = Sum(size, P) + Sum(size, L)
    BY <1>2, <2>1, SumUnion
  <2>3. Sum(size, (P \cup L) \cup M) = Sum(size, P \cup L) + Sum(size, M)
    BY <1>2, <2>1, FS_Union, SumUnion
  <2>4. Sum(size, P) \in Nat /\ Sum(size, L) \in Nat /\ Sum(size, M) \in Nat
    BY <1>2, <2>1, SumNat
  <2>5. QED
    BY <1>2, <2>2, <2>3, <2>4
<1>7. /\ Sum(OwedBytes(job), Jobs) = Sum(made, Jobs) + Sum(held, Jobs)
      /\ Sum(made, Jobs) \in Nat /\ Sum(held, Jobs) \in Nat
  <2>1. \A j \in Jobs : made[j] \in Nat /\ held[j] \in Nat /\ OwedBytes(job)[j] = made[j] + held[j]
    BY DEF Types, AJob, OwedBytes
  <2> HIDE DEF made, held
  <2>2. QED
    BY <2>1, Finite, SumPlus, SumNat
<1>8. /\ Used = Sum(StoredBytes(media), Media) + Sum(OwedBytes(job), Jobs) + Sum(ReservedBytes(put), OutputKeys)
      /\ Sum(StoredBytes(media), Media) \in Nat /\ Sum(ReservedBytes(put), OutputKeys) \in Nat
      /\ MaxStorage \in Nat
  BY UsedIsTotal, TotalOf, StorageAssumption DEF Total, Types
<1>9. Sum(size, Counted) + Sum(held, Jobs) <= MaxStorage
  <2> HIDE DEF size, P, L, M, made, held
  <2> QED BY <1>3, <1>4, <1>5, <1>6, <1>7, <1>8
<1>10. QED
  BY <1>9 DEF WithinQuota, Sum, Counted

-----------------------------------------------------------------------------
(* The theorems.                                                              *)

\* A row of the deleted files keeps its size.
LEMMA DeletedKeepsBytes ==
    ASSUME Rows, Rows', [Next]_vars, NEW m \in Media, media'[m].status = "deleted"
    PROVE  media'[m].bytes = media[m].bytes
<1> USE DEF Rows
<1>1. media \in [Media -> AMedia] /\ media[m] \in AMedia
  BY DEF Types
<1>2. CASE media' = media
  BY <1>2
<1>3. ASSUME NEW n \in Media, NEW s, media' = [media EXCEPT ![n].status = s]
      PROVE  media'[m].bytes = media[m].bytes
  BY <1>1, <1>3 DEF AMedia
<1>4. ASSUME NEW n \in Media, NEW s, NEW b, s # "deleted", MediaAdmitted(n, s, b)
      PROVE  media'[m].bytes = media[m].bytes
  <2>1. m # n
    BY <1>1, <1>4 DEF MediaAdmitted
  <2>2. QED
    BY <1>1, <1>4, <2>1 DEF MediaAdmitted
<1>5. ASSUME NEW k \in Keys, StorePut(k) \/ Verify(k) \/ Remove(k) \/ ConfirmDeletion(k)
      PROVE  media'[m].bytes = media[m].bytes
  <2>1. CASE ConfirmDeletion(k)
    <3>1. media'[m] \in {[media[m] EXCEPT !.status = "deleted"], media[m]}
      BY <2>1 DEF ConfirmDeletion
    <3>2. [media[m] EXCEPT !.status = "deleted"].bytes = media[m].bytes
      BY <1>1 DEF AMedia
    <3>3. QED
      BY <3>1, <3>2
  <2>2. CASE StorePut(k) \/ Verify(k) \/ Remove(k)
    BY <2>2 DEF StorePut, Verify, Remove
  <2>3. QED
    BY <1>5, <2>1, <2>2
<1>6. ASSUME NEW n \in Uploads,
             UploadComplete(n) \/ \E verdict \in {"ready", "failed"} : Validated(n, verdict)
      PROVE  media'[m].bytes = media[m].bytes
  BY <1>3, <1>6 DEF UploadComplete, Validated, Media
<1>7. ASSUME NEW n \in Uploads, NEW b \in Sizes, NEW s \in Recent, UploadIntent(n, b, s)
      PROVE  media'[m].bytes = media[m].bytes
  BY <1>4, <1>7 DEF UploadIntent, AddMedia, Media
<1>8. ASSUME NEW i \in Imports, CreateImport(i) PROVE media'[m].bytes = media[m].bytes
  BY <1>4, <1>8 DEF CreateImport, Media
<1>9. ASSUME NEW j \in Jobs, NEW o, Settle(j, o) PROVE media'[m].bytes = media[m].bytes
  <2>1. CASE j \notin Imports \/ o \in {"retry_wait", "queued"}
    BY <1>9, <2>1 DEF Settle, SettledMedia
  <2>2. CASE j \in Imports /\ o = "completed"
    <3>1. media' = [media EXCEPT ![j] = [media[j] EXCEPT !.status = "ready", !.bytes = put[Key(j)].bytes, !.key = Key(j)]]
      BY <1>9, <2>2 DEF Settle, SettledMedia
    <3>2. j \in Media /\ media[j] \in AMedia
      BY <1>1, <2>2 DEF Media
    <3> DEFINE f == [media[j] EXCEPT !.status = "ready", !.bytes = put[Key(j)].bytes, !.key = Key(j)]
    <3>3. f.status = "ready"
      BY <3>2 DEF AMedia
    <3>4. media'[j] = f /\ \A x \in Media \ {j} : media'[x] = media[x]
      BY <1>1, <3>1, <3>2
    <3> HIDE DEF f
    <3>5. QED
      BY <3>3, <3>4
  <2>3. CASE j \in Imports /\ o \notin {"retry_wait", "queued", "completed"}
    BY <1>3, <1>9, <2>3 DEF Settle, SettledMedia, Media
  <2>4. QED
    BY <2>1, <2>2, <2>3
<1>10. ASSUME NEW j \in Jobs,
              \/ FinishCompleted(j) \/ Lapse(j)
              \/ \E o \in {"failed", "stopped", "retry_wait"} : FinishOtherwise(j, o)
       PROVE  media'[m].bytes = media[m].bytes
  BY <1>9, <1>10 DEF FinishCompleted, Lapse, FinishOtherwise
<1>11. ASSUME NEW old \in SUBSET Jobs, NEW oldMedia \in SUBSET Media, Cleanup(old, oldMedia)
       PROVE  media'[m].bytes = media[m].bytes
  <2>1. media'[m] \in {[media[m] EXCEPT !.status = "deleting"], media[m]}
    BY <1>11 DEF Cleanup
  <2>2. [media[m] EXCEPT !.status = "deleting"].bytes = media[m].bytes
    BY <1>1 DEF AMedia
  <2>3. QED
    BY <2>1, <2>2
<1>12. ASSUME NEW n \in Media, DeleteMedia(n) PROVE media'[m].bytes = media[m].bytes
  BY <1>3, <1>12 DEF DeleteMedia
<1>13. QED
  BY <1>2, <1>5, <1>6, <1>7, <1>8, <1>10, <1>11, <1>12
  DEF Next, CreateLocal, OutputIntent, Claim, Cancel, DeletionFailed, Tick, vars

LEMMA FitsStep ==
    ASSUME IInv, Rows', Used' <= MaxStorage, [Next]_vars
    PROVE  Fits'
<1> SUFFICES ASSUME NEW m \in Media PROVE media'[m].bytes <= MaxStorage
  BY DEF Fits
<1>1. Rows /\ Fits /\ Types'
  BY DEF IInv, Rows
<1>2. media'[m] \in AMedia /\ media'[m].bytes \in Nat /\ MaxStorage \in Nat
  BY <1>1, StorageAssumption DEF Types, AMedia
<1>3. CASE media'[m].status = "deleted"
  BY <1>1, <1>3, DeletedKeepsBytes DEF Fits
<1>4. CASE media'[m].status = "absent"
  BY <1>2, <1>4 DEF Rows, MediaRows, MediaRow
<1>5. CASE media'[m].status \notin {"absent", "deleted"}
  <2> DEFINE f == StoredBytes(media')
  <2>1. /\ f[m] = media'[m].bytes /\ \A x \in Media : f[x] \in Nat
        /\ Sum(f, Media) \in Nat /\ Sum(OwedBytes(job'), Jobs) \in Nat
        /\ Sum(ReservedBytes(put'), OutputKeys) \in Nat
        /\ Used' = Sum(f, Media) + Sum(OwedBytes(job'), Jobs) + Sum(ReservedBytes(put'), OutputKeys)
    <3>1. f[m] = media'[m].bytes
      BY <1>5 DEF StoredBytes
    <3>2. QED
      BY <1>1, <3>1, TotalOf, UsedIsTotalAfter DEF Types, Total
  <2> HIDE DEF f
  <2>2. Sum(f, Media) = f[m] + Sum(f, Media \ {m})
    BY <2>1, Finite, SumRemove
  <2>3. Sum(f, Media \ {m}) \in Nat
    <3>1. IsFiniteSet(Media \ {m})
      BY Finite, FS_Subset
    <3>2. QED
      BY <2>1, <3>1, SumNat
  <2>4. QED
    BY <1>2, <2>1, <2>2, <2>3
<1>6. QED
  BY <1>3, <1>4, <1>5

LEMMA IInvInit == Init => IInv
BY InitRows, UsedInit, StorageAssumption DEF Init, IInv, Fits

LEMMA IInvStep ==
    ASSUME IInv, [Next]_vars
    PROVE  IInv'
<1>1. Rows'
  BY RowsStep DEF IInv
<1>2. Used' <= MaxStorage
  BY <1>1, UsedStep DEF IInv
<1>3. Fits'
  BY <1>1, <1>2, FitsStep
<1>4. QED
  BY <1>1, <1>2, <1>3 DEF IInv

LEMMA IInvAlways == Spec => []IInv
<1>1. IInv /\ [Next]_vars => IInv'
  BY IInvStep
<1>2. QED
  BY <1>1, IInvInit, PTL DEF Spec

\* Every object that exists, or that a URL given out may still create, is
\* charged to one row of the tenant, and no file that is of use is taken away,
\* for every number of uploads, jobs, attempts and sizes, however long a PUT
\* takes; only what lands when its URL has expired may be charged to nobody.
THEOREM EveryObjectIsAccounted == Spec => []ObjectsAccounted
<1>1. IInv => ObjectsAccounted
  <2> SUFFICES ASSUME IInv PROVE ObjectsAccounted
    OBVIOUS
  <2>1. Rows /\ Fits
    BY DEF IInv
  <2>2. TypeOK
    BY <2>1, StorageAssumption DEF Rows, Fits, Types, TypeOK, AMedia, AJob, APut, JobRows, JobRow
  <2>3. ChargedOnce
    BY <2>1, OneCharge, Strays DEF ChargedOnce
  <2>4. LiveDataKept
    BY <2>1, DataKept
  <2>5. QED
    BY <2>2, <2>3, <2>4 DEF ObjectsAccounted
<1>2. QED
  BY <1>1, IInvAlways, PTL

\* What exists, may still come or was promised to a running job fits in the
\* quota together, and a running attempt that has not reserved its upload holds
\* its whole budget; strays that landed too late are not part of the quota.
THEOREM TheQuotaHolds == Spec => []QuotaHolds
<1>1. IInv => QuotaHolds
  BY Quota, CanFinish DEF IInv, QuotaHolds
<1>2. QED
  BY <1>1, IInvAlways, PTL

-----------------------------------------------------------------------------
(* One key of the file system store (LocalObjects) *)

\* The file under the key is of a writer that is at work on it or was killed, or
\* that checked it as a whole.
LocalInv ==
    /\ Local!TypeOK
    /\ path # none =>
        /\ writer[path] \in Local!Live \cup {"stored", "killed"}
        /\ writer[path] = "stored" => Local!Whole(path)

LEMMA LocalStart == Local!Init => LocalInv
BY PartsAssumption DEF Local!Init, LocalInv, Local!TypeOK, Local!Parameters

LEMMA LocalTypes == Local!TypeOK /\ [Local!Next]_file => Local!TypeOK'
<1> SUFFICES ASSUME Local!TypeOK, [Local!Next]_file PROVE Local!TypeOK'
  OBVIOUS
<1> USE PartsAssumption DEF Local!Parameters, Local!TypeOK, Local!Go, Local!Live, Local!Over
<1>1. ASSUME NEW w \in Local!Writers, Local!Create(w) PROVE Local!TypeOK'
  BY <1>1 DEF Local!Create, Local!Callers
<1>2. ASSUME NEW w \in Local!Writers, Local!Piece(w) PROVE Local!TypeOK'
  <2>1. len[w] + 1 \in 0..Size
    BY <1>2 DEF Local!Piece
  <2> QED BY <1>2, <2>1 DEF Local!Piece
<1>3. ASSUME NEW w \in Local!Writers, Local!Interrupted(w) PROVE Local!TypeOK'
  BY <1>3 DEF Local!Interrupted, Local!file
<1>4. ASSUME NEW w \in Local!Writers, Local!StreamEnds(w) PROVE Local!TypeOK'
  BY <1>4 DEF Local!StreamEnds, Local!file
<1>5. ASSUME NEW w \in Local!Writers, Local!FileEnds(w) PROVE Local!TypeOK'
  BY <1>5 DEF Local!FileEnds, Local!file
<1>6. ASSUME NEW w \in Local!Writers, Local!VerifyUpload(w) PROVE Local!TypeOK'
  BY <1>6 DEF Local!VerifyUpload, Local!file
<1>7. ASSUME NEW w \in Local!Writers, Local!Unlink(w) PROVE Local!TypeOK'
  BY <1>7 DEF Local!Unlink, Local!Unlinked
<1>8. ASSUME NEW w \in Local!Writers, Local!Kill(w) PROVE Local!TypeOK'
  <2>1. stops \in 0..MaxKills /\ MaxKills \in Nat /\ stops < MaxKills /\ stops' = stops + 1
    BY <1>8 DEF Local!Kill
  <2>2. stops' \in 0..MaxKills
    BY <2>1
  <2> QED BY <1>8, <2>2 DEF Local!Kill, Local!file
<1>9. ASSUME NEW r \in FileRemoves, Local!Delete(r) PROVE Local!TypeOK'
  BY <1>9 DEF Local!Delete
<1>10. CASE UNCHANGED file
  BY <1>10 DEF file
<1> QED BY <1>1, <1>2, <1>3, <1>4, <1>5, <1>6, <1>7, <1>8, <1>9, <1>10 DEF Local!Next

LEMMA LocalStep == LocalInv /\ [Local!Next]_file => LocalInv'
<1> SUFFICES ASSUME LocalInv, [Local!Next]_file, path' # none
             PROVE  /\ writer'[path'] \in Local!Live \cup {"stored", "killed"}
                    /\ writer'[path'] = "stored" => (Local!Whole(path))'
  BY LocalTypes DEF LocalInv
<1>1. /\ writer \in [Local!Callers -> {"idle"} \cup Local!Live \cup Local!Over]
      /\ path \in Local!Writers \cup {none} /\ Local!Writers \subseteq Local!Callers
      /\ len \in [Local!Writers -> 0..Size] /\ intact \in [Local!Writers -> BOOLEAN]
  BY DEF LocalInv, Local!TypeOK, Local!Callers
<1> USE <1>1 DEF LocalInv, Local!Go, Local!Live, Local!Over
<1>2. ASSUME NEW w \in Local!Writers, Local!Create(w)
      PROVE  /\ writer'[path'] \in Local!Live \cup {"stored", "killed"}
             /\ writer'[path'] = "stored" => (Local!Whole(path))'
  BY <1>2 DEF Local!Create, Local!Exclusive, Local!Whole
<1>3. ASSUME NEW w \in Local!Writers, Local!Piece(w)
      PROVE  /\ writer'[path'] \in Local!Live \cup {"stored", "killed"}
             /\ writer'[path'] = "stored" => (Local!Whole(path))'
  BY <1>3 DEF Local!Piece, Local!Whole
<1>4. ASSUME NEW w \in Local!Writers,
             \/ Local!Interrupted(w) \/ Local!StreamEnds(w) \/ Local!FileEnds(w)
             \/ Local!VerifyUpload(w) \/ Local!Kill(w)
      PROVE  /\ writer'[path'] \in Local!Live \cup {"stored", "killed"}
             /\ writer'[path'] = "stored" => (Local!Whole(path))'
  BY <1>4 DEF Local!Interrupted, Local!StreamEnds, Local!FileEnds, Local!VerifyUpload, Local!Kill,
              Local!Matches, Local!Whole, Local!file
<1>5. CASE \/ \E w \in Local!Writers : Local!Unlink(w)
           \/ \E r \in FileRemoves : Local!Delete(r)
  BY <1>5 DEF Local!Unlink, Local!Unlinked, Local!Delete
<1>6. CASE UNCHANGED file
  BY <1>6 DEF file, Local!Whole
<1> QED BY <1>2, <1>3, <1>4, <1>5, <1>6 DEF Local!Next

\* What is found under the key can only go.
LEMMA FileStays == [Local!Next]_file => (path # none => path' \in {path, none})
BY DEF Local!Next, Local!Create, Local!Exclusive, Local!Piece, Local!Interrupted, Local!StreamEnds,
       Local!FileEnds, Local!VerifyUpload, Local!Unlink, Local!Unlinked, Local!Kill, Local!Delete,
       Local!file, file

-----------------------------------------------------------------------------
(* One key of the remote stores (RemoteObjects) *)

\* A download that reads has its temporary file, of the version that head
\* described to it.
RemoteInv ==
    /\ Remote!TypeOK /\ Remote!NoTempLeft /\ Remote!DestinationIsWhole
    /\ \A d \in Downloads : at[d] = "read" => temp[d] \in Remote!Bodies /\ temp[d].of = expected[d]

LEMMA RemoteStart == Remote!Init => RemoteInv
BY PartsAssumption
DEF Remote!Init, RemoteInv, Remote!TypeOK, Remote!Parameters, Remote!NoTempLeft,
    Remote!DestinationIsWhole, Remote!Callers

LEMMA RemoteStep == RemoteInv /\ [Remote!Next]_copy => RemoteInv'
<1> SUFFICES ASSUME RemoteInv, [Remote!Next]_copy PROVE RemoteInv'
  OBVIOUS
<1>1. Remote!TypeOK /\ Remote!NoTempLeft /\ Remote!DestinationIsWhole
  BY DEF RemoteInv
<1>2. /\ at \in [Remote!Callers -> {"idle", "done", "failed", "killed"} \cup Remote!Live]
      /\ version \in Remote!Versions \cup {none}
      /\ expected \in [Downloads -> Remote!Versions \cup {none}]
      /\ temp \in [Downloads -> Remote!Bodies \cup {none}] /\ dest \in Remote!Bodies \cup {none}
      /\ kills \in 0..MaxKills
      /\ Copies \cup Downloads \cup CopyRemoves = Remote!Callers /\ Size \in Nat /\ MaxKills \in Nat
  BY <1>1, PartsAssumption DEF Remote!TypeOK, Remote!Parameters, Remote!Callers
<1>3. \A d \in Downloads : at[d] = "read" => temp[d] \in Remote!Bodies /\ temp[d].of = expected[d]
  BY DEF RemoteInv
<1>4. \A b \in Remote!Bodies : b.of \in Remote!Versions /\ b.len \in 0..Size /\ b.sound \in BOOLEAN
  BY DEF Remote!Bodies
\* A step that touches no temporary file and no destination, and takes one caller on.
<1>5. ASSUME NEW c \in Remote!Callers, NEW step \in {"done", "failed", "put", "verify", "killed"},
             at' = [at EXCEPT ![c] = step], version' \in Remote!Versions \cup {none},
             UNCHANGED <<expected, temp, dest>>, kills' \in 0..MaxKills,
             at[c] # "done", c \in Downloads /\ at[c] = "read" => step = "killed",
             c \in Downloads /\ at[c] = "killed" => FALSE
      PROVE  RemoteInv'
  <2>1. Remote!TypeOK'
    BY <1>2, <1>5 DEF Remote!TypeOK, Remote!Live
  <2>2. Remote!NoTempLeft'
    BY <1>1, <1>2, <1>5 DEF Remote!NoTempLeft
  <2>3. Remote!DestinationIsWhole'
    BY <1>1, <1>2, <1>5 DEF Remote!DestinationIsWhole
  <2> QED BY <1>2, <1>3, <1>5, <2>1, <2>2, <2>3 DEF RemoteInv
<1>6. ASSUME NEW u \in Copies, Remote!Authorise(u) \/ Remote!Put(u) \/ Remote!VerifyUpload(u)
      PROVE  RemoteInv'
  <2>1. /\ version' \in Remote!Versions \cup {none} /\ UNCHANGED <<expected, temp, dest, kills>>
        /\ at[u] \in {"idle", "put", "verify"}
    BY <1>2, <1>6 DEF Remote!Authorise, Remote!Put, Remote!VerifyUpload, Remote!local, Remote!Versions
  <2>2. \E step \in {"put", "failed", "verify", "done"} : at' = [at EXCEPT ![u] = step]
    BY <1>6 DEF Remote!Authorise, Remote!Put, Remote!VerifyUpload, Remote!Go
  <2> QED BY <1>2, <1>5, <2>1, <2>2
<1>7. ASSUME NEW r \in CopyRemoves, Remote!Delete(r) PROVE RemoteInv'
  <2>1. /\ version' \in Remote!Versions \cup {none} /\ UNCHANGED <<expected, temp, dest, kills>>
        /\ at[r] = "idle"
    BY <1>2, <1>7 DEF Remote!Delete, Remote!local
  <2>2. \E step \in {"done", "failed"} : at' = [at EXCEPT ![r] = step]
    BY <1>7 DEF Remote!Delete, Remote!Go
  <2> QED BY <1>2, <1>5, <2>1, <2>2
<1>8. ASSUME NEW c \in Remote!Callers, Remote!Kill(c) PROVE RemoteInv'
  <2>1. /\ at[c] \in Remote!Live /\ at' = [at EXCEPT ![c] = "killed"]
        /\ UNCHANGED <<version, expected, temp, dest>> /\ kills' \in 0..MaxKills
    BY <1>2, <1>8 DEF Remote!Kill, Remote!Go
  <2> QED BY <1>2, <1>5, <2>1 DEF Remote!Live
<1>9. ASSUME NEW d \in Downloads, Remote!Head(d) PROVE RemoteInv'
  <2>1. at[d] = "idle" /\ UNCHANGED <<version, temp, dest, kills>>
    BY <1>9 DEF Remote!Head
  <2>2. \/ version # none /\ expected' = [expected EXCEPT ![d] = version] /\ at' = [at EXCEPT ![d] = "get"]
        \/ UNCHANGED expected /\ at' = [at EXCEPT ![d] = "failed"]
    BY <1>9 DEF Remote!Head, Remote!Go
  <2>3. Remote!TypeOK'
    BY <1>2, <2>1, <2>2 DEF Remote!TypeOK, Remote!Live
  <2>4. Remote!NoTempLeft'
    BY <1>1, <1>2, <2>1, <2>2 DEF Remote!NoTempLeft
  <2>5. \A c \in Downloads : at[c] # "idle" => at'[c] = at[c] /\ expected'[c] = expected[c]
    BY <1>2, <2>1, <2>2
  <2>6. Remote!DestinationIsWhole'
    BY <1>1, <2>1, <2>5 DEF Remote!DestinationIsWhole
  <2>7. \A c \in Downloads : at'[c] = "read" => at[c] = "read"
    BY <1>2, <2>1, <2>2
  <2> QED BY <1>3, <2>1, <2>3, <2>4, <2>5, <2>6, <2>7 DEF RemoteInv
<1>10. ASSUME NEW d \in Downloads, Remote!Get(d) PROVE RemoteInv'
  <2> DEFINE body == [of |-> version, len |-> 0, sound |-> TRUE]
  <2>1. at[d] = "get" /\ UNCHANGED <<version, expected, dest, kills>>
    BY <1>10 DEF Remote!Get
  <2>2. \/ /\ version # none /\ version = expected[d] /\ at' = [at EXCEPT ![d] = "read"]
           /\ temp' = [temp EXCEPT ![d] = body]
        \/ at' = [at EXCEPT ![d] = "failed"] /\ UNCHANGED temp
    BY <1>10 DEF Remote!Get, Remote!SameVersion, Remote!Go
  <2>3. version # none => body \in Remote!Bodies /\ body.of = version
    BY <1>2 DEF Remote!Bodies
  <2> HIDE DEF body
  <2>4. Remote!TypeOK'
    BY <1>2, <2>1, <2>2, <2>3 DEF Remote!TypeOK, Remote!Live
  <2>5. Remote!NoTempLeft'
    BY <1>1, <1>2, <2>1, <2>2 DEF Remote!NoTempLeft
  <2>6. Remote!DestinationIsWhole'
    BY <1>1, <1>2, <2>1, <2>2 DEF Remote!DestinationIsWhole
  <2> QED BY <1>2, <1>3, <2>1, <2>2, <2>3, <2>4, <2>5, <2>6 DEF RemoteInv
<1>11. ASSUME NEW d \in Downloads, Remote!Chunk(d) PROVE RemoteInv'
  <2>1. at[d] = "read" /\ UNCHANGED <<at, version, expected, dest, kills>>
    BY <1>11 DEF Remote!Chunk
  <2>2. PICK sound \in BOOLEAN :
            temp' = [temp EXCEPT ![d].len = @ + 1, ![d].sound = @ /\ sound]
    BY <1>11 DEF Remote!Chunk
  <2>3. temp[d] \in Remote!Bodies /\ temp[d].of = expected[d] /\ temp[d].len < Size
    BY <1>3, <1>11, <2>1 DEF Remote!Chunk
  <2> DEFINE more == [of |-> temp[d].of, len |-> temp[d].len + 1, sound |-> temp[d].sound /\ sound]
  <2>4. more \in Remote!Bodies /\ more.of = expected[d]
    <3>1. temp[d].of \in Remote!Versions /\ temp[d].len + 1 \in 0..Size
      BY <1>2, <1>4, <2>3
    <3>2. (temp[d].sound /\ sound) \in BOOLEAN
      OBVIOUS
    <3> QED BY <2>3, <3>1, <3>2 DEF Remote!Bodies
  <2>5. temp' = [temp EXCEPT ![d] = more]
    <3>1. temp[d] = [of |-> temp[d].of, len |-> temp[d].len, sound |-> temp[d].sound]
      BY <2>3 DEF Remote!Bodies
    <3>2. [[temp[d] EXCEPT !.len = @ + 1] EXCEPT !.sound = @ /\ sound] = more
      <4> DEFINE plus == [of |-> temp[d].of, len |-> temp[d].len + 1, sound |-> temp[d].sound]
      <4>1. [temp[d] EXCEPT !.len = @ + 1] = plus
        BY <3>1
      <4>2. plus.sound = temp[d].sound
        OBVIOUS
      <4>3. \A ok : [plus EXCEPT !.sound = ok] = [of |-> temp[d].of, len |-> temp[d].len + 1, sound |-> ok]
        OBVIOUS
      <4>4. [plus EXCEPT !.sound = temp[d].sound /\ sound] = more
        <5> HIDE DEF plus
        <5> QED BY <4>3
      <4> HIDE DEF plus, more
      <4> QED BY <4>1, <4>2, <4>4
    <3> DEFINE longer == [temp EXCEPT ![d].len = @ + 1]
    <3>3. temp' = [longer EXCEPT ![d].sound = @ /\ sound] /\ DOMAIN longer = Downloads
      BY <1>2, <2>2
    <3>4. longer[d] = [temp[d] EXCEPT !.len = @ + 1]
      BY <1>2
    <3>5. DOMAIN temp' = Downloads /\ temp'[d] = [longer[d] EXCEPT !.sound = @ /\ sound]
      <4> HIDE DEF longer
      <4> QED BY <3>3
    <3>6. temp'[d] = more
      BY <3>2, <3>4, <3>5
    <3>7. ASSUME NEW c \in Downloads \ {d} PROVE temp'[c] = temp[c]
      BY <1>2, <3>3
    <3> QED BY <1>2, <3>3, <3>5, <3>6, <3>7
  <2> HIDE DEF more
  <2>6. /\ temp' \in [Downloads -> Remote!Bodies \cup {none}]
         /\ temp'[d] = more /\ \A c \in Downloads \ {d} : temp'[c] = temp[c]
    BY <1>2, <2>4, <2>5
  <2>7. Remote!TypeOK'
    BY <1>2, <2>1, <2>6 DEF Remote!TypeOK
  <2>8. Remote!NoTempLeft'
    BY <1>1, <2>1, <2>6 DEF Remote!NoTempLeft
  <2>9. Remote!DestinationIsWhole'
    BY <1>1, <2>1 DEF Remote!DestinationIsWhole
  <2> QED BY <1>3, <2>1, <2>4, <2>6, <2>7, <2>8, <2>9 DEF RemoteInv
<1>12. ASSUME NEW d \in Downloads, Remote!Deliver(d) PROVE RemoteInv'
  <2>1. /\ at[d] = "read" /\ at' = [at EXCEPT ![d] = "done"] /\ dest' = temp[d]
        /\ temp' = [temp EXCEPT ![d] = none] /\ UNCHANGED <<version, expected, kills>>
        /\ temp[d].len = Size /\ temp[d].sound
    BY <1>12 DEF Remote!Deliver, Remote!Complete, Remote!Go
  <2>2. Remote!TypeOK'
    BY <1>2, <1>3, <2>1 DEF Remote!TypeOK
  <2>3. Remote!NoTempLeft'
    BY <1>1, <1>2, <2>1 DEF Remote!NoTempLeft
  <2>4. Remote!DestinationIsWhole'
    BY <1>2, <1>3, <2>1 DEF Remote!DestinationIsWhole
  <2> QED BY <1>2, <1>3, <2>1, <2>2, <2>3, <2>4 DEF RemoteInv
<1>13. ASSUME NEW d \in Downloads, Remote!Give(d) PROVE RemoteInv'
  <2>1. /\ at[d] = "read" /\ at' = [at EXCEPT ![d] = "failed"]
        /\ temp' = [temp EXCEPT ![d] = none] /\ UNCHANGED <<version, expected, dest, kills>>
    BY <1>13 DEF Remote!Give, Remote!NoTemp, Remote!Go
  <2>2. Remote!TypeOK'
    BY <1>2, <2>1 DEF Remote!TypeOK
  <2>3. Remote!NoTempLeft'
    BY <1>1, <1>2, <2>1 DEF Remote!NoTempLeft
  <2>4. Remote!DestinationIsWhole'
    BY <1>1, <1>2, <2>1 DEF Remote!DestinationIsWhole
  <2> QED BY <1>2, <1>3, <2>1, <2>2, <2>3, <2>4 DEF RemoteInv
<1>14. CASE UNCHANGED copy
  BY <1>14 DEF copy, RemoteInv, Remote!TypeOK, Remote!NoTempLeft, Remote!DestinationIsWhole
<1> QED BY <1>6, <1>7, <1>8, <1>9, <1>10, <1>11, <1>12, <1>13, <1>14 DEF Remote!Next

\* What is stored under the key can only go.
LEMMA CopyStays == [Remote!Next]_copy => (version # none => version' \in {version, none})
BY DEF Remote!Next, Remote!Authorise, Remote!Put, Remote!CreateOnly, Remote!VerifyUpload, Remote!Delete,
       Remote!Head, Remote!Get, Remote!Chunk, Remote!Deliver, Remote!Give, Remote!Kill, Remote!local, copy

-----------------------------------------------------------------------------
(* Imports from a user's computer (DeviceImports) *)

DTasks == Device!Active \cup Device!Ended \cup {"none"}
DUploads == {"none", "uploading", "validating", "ready", "failed", "deleting"}
Serving == {"task", "upload", "complete", "failure", "admit", "recheck", "clean", "verify", "validate",
            "inspect", "revert", "finish"}
Helping == {"task", "upload", "put", "complete", "retry", "failure", "give up", "stop"}
ARequest == [task : Device!Tasks, pc : Serving \cup {"free"}]
AHelper == [pc : Helping \cup {"none"}, on : Handlers \cup {Device!None}, sent : Int]
DTypes ==
    /\ task \in [Device!Tasks -> DTasks] /\ late \in [Device!Tasks -> BOOLEAN]
    /\ upload \in [Device!Tasks -> DUploads] /\ stored \in [Device!Tasks -> BOOLEAN]
    /\ req \in [Handlers -> ARequest]
    /\ helper \in [Device!Tasks -> AHelper]

\* What a task has come to says what may be there for it.
DTask(t) ==
    /\ task[t] = "none" => upload[t] = "none" /\ helper[t].pc = "none"
    /\ upload[t] = "none" => ~stored[t] /\ helper[t].pc # "put"
    /\ task[t] = "completed" => upload[t] \notin {"none", "uploading"}
    /\ helper[t].on # Device!None =>
        req[helper[t].on].task = t /\ req[helper[t].on].pc # "free"
\* A request knows that the step before it was taken.
DRequest(h) ==
    LET t == req[h].task
    IN  /\ req[h].pc # "free" => task[t] # "none"
        /\ req[h].pc = "recheck" => upload[t] # "none"
        /\ req[h].pc = "validate" => stored[t]
        /\ req[h].pc = "finish" => upload[t] \notin {"none", "uploading"}
DeviceInv == DTypes /\ (\A t \in Device!Tasks : DTask(t)) /\ \A h \in Handlers : DRequest(h)

\* An upload reserved for a cancelled or failed task still has the request that
\* gives it back.
GivesBack(h, t) == req[h].task = t /\ req[h].pc \in {"recheck", "clean"}
NoneOrphaned ==
    \A t \in Device!Tasks : task[t] \in {"cancelled", "failed"} /\ upload[t] = "uploading" =>
        \E h \in Handlers : GivesBack(h, t)

LEMMA DeviceStart == Device!Init => DeviceInv /\ NoneOrphaned
BY PartsAssumption
DEF Device!Init, DeviceInv, DTypes, DTask, DRequest, DTasks, DUploads, NoneOrphaned, Device!Free,
    Device!Parameters, Device!Tasks, ARequest, AHelper

\* What a step may do to tasks, media rows and objects.
Keeps(t) ==
    /\ task[t] = "none" => upload'[t] = upload[t]
    /\ task'[t] = "none" => task[t] = "none"
    /\ task'[t] = "completed" => task[t] = "completed" \/ upload[t] \notin {"none", "uploading"}
    /\ upload[t] # "none" => upload'[t] # "none"
    /\ upload[t] \notin {"none", "uploading"} => upload'[t] # "uploading"
    /\ stored[t] => stored'[t]
    /\ stored'[t] => stored[t] \/ upload[t] # "none"
DKeeps ==
    /\ task' \in [Device!Tasks -> DTasks] /\ late' \in [Device!Tasks -> BOOLEAN]
    /\ upload' \in [Device!Tasks -> DUploads] /\ stored' \in [Device!Tasks -> BOOLEAN]
    /\ \A t \in Device!Tasks : Keeps(t)

LEMMA TaskKeeps ==
    ASSUME DeviceInv, UNCHANGED <<late, upload, stored>>, NEW t \in Device!Tasks, NEW s \in DTasks,
           task' = [task EXCEPT ![t] = s], s # "none",
           s = "completed" => task[t] = "completed" \/ upload[t] \notin {"none", "uploading"}
    PROVE  DKeeps
BY DEF DeviceInv, DTypes, DTask, DKeeps, Keeps

LEMMA UploadKeeps ==
    ASSUME DeviceInv, UNCHANGED <<task, late, stored>>, NEW t \in Device!Tasks, NEW u \in DUploads,
           upload' = [upload EXCEPT ![t] = u], u # "none", task[t] # "none",
           upload[t] \notin {"none", "uploading"} => u # "uploading"
    PROVE  DKeeps
BY DEF DeviceInv, DTypes, DTask, DKeeps, Keeps

LEMMA NothingKeeps == DeviceInv /\ UNCHANGED <<task, late, upload, stored>> => DKeeps
BY DEF DeviceInv, DTypes, DKeeps, Keeps

\* The overdue tasks expire, and what they hold is given back.
LEMMA ExpiryKeeps ==
    ASSUME DeviceInv, UNCHANGED <<late, stored>>, upload' = Device!Swept(upload),
           \/ task' = Device!Expired
           \/ \E t \in Device!Tasks : task' = [Device!Expired EXCEPT ![t] = "queued"]
    PROVE  DKeeps
<1>1. /\ task \in [Device!Tasks -> DTasks] /\ upload \in [Device!Tasks -> DUploads]
      /\ \A s \in Device!Tasks : DTask(s)
  BY DEF DeviceInv, DTypes
<1>2. /\ task' \in [Device!Tasks -> DTasks]
      /\ \A s \in Device!Tasks : task'[s] \in {task[s], "expired", "queued"}
  <2>1. /\ Device!Expired \in [Device!Tasks -> DTasks]
        /\ \A s \in Device!Tasks : Device!Expired[s] \in {task[s], "expired"}
    BY <1>1 DEF Device!Expired, DTasks, Device!Ended
  <2>2. "queued" \in DTasks
    BY DEF DTasks, Device!Active
  <2> QED BY <2>1, <2>2
<1>3. /\ upload' \in [Device!Tasks -> DUploads]
      /\ \A s \in Device!Tasks :
            \/ upload'[s] = upload[s]
            \/ Device!Unfinished(s) /\ task[s] # "none" /\ upload'[s] = "deleting"
  BY <1>1 DEF Device!Swept, Device!Overdue, Device!Active, DUploads
<1> QED BY <1>1, <1>2, <1>3 DEF DKeeps, Keeps, Device!Unfinished, DeviceInv, DTypes

\* What a request knows stays true while it waits.
LEMMA RequestsKeep ==
    ASSUME DeviceInv, DKeeps, NEW h \in Handlers, req'[h] = req[h]
    PROVE  DRequest(h)'
<1>1. req[h].task \in Device!Tasks
  BY DEF DeviceInv, DTypes, ARequest
<1>2. DRequest(h) /\ Keeps(req[h].task)
  BY <1>1 DEF DeviceInv, DKeeps
<1> QED BY <1>2 DEF DRequest, Keeps

\* The end of a request, which the helper learns of or does not.
LEMMA AnswerKeeps ==
    ASSUME DeviceInv, DKeeps, NEW h \in Handlers, req[h].pc # "free",
           NEW pc \in Helping, Device!Answer(h, pc), pc = "put" => upload[req[h].task] # "none"
    PROVE  DeviceInv' /\ req' = [req EXCEPT ![h] = Device!Free]
<1> DEFINE t == req[h].task
<1>1. /\ req \in [Handlers -> ARequest] /\ t \in Device!Tasks
      /\ helper \in [Device!Tasks -> AHelper]
      /\ Device!None \notin Handlers /\ Device!Free \in ARequest
      /\ task[t] # "none" /\ Device!Free.pc = "free"
  BY PartsAssumption
  DEF DeviceInv, DTypes, DRequest, Device!Parameters, Device!Free, Device!Tasks, ARequest
<1>2. req' = [req EXCEPT ![h] = Device!Free]
  BY DEF Device!Answer
<1>3. helper' = IF helper[t].on = h THEN [helper EXCEPT ![t] = [@ EXCEPT !.pc = pc, !.on = Device!None]]
                                    ELSE helper
  BY DEF Device!Answer, Device!Pc
<1> HIDE DEF t
<1>4. [helper[t] EXCEPT !.pc = pc, !.on = Device!None] \in
          AHelper
  BY <1>1 DEF AHelper
<1>5. DTypes'
  BY <1>1, <1>2, <1>3, <1>4 DEF DKeeps, DTypes
<1>6. ASSUME NEW s \in Device!Tasks PROVE DTask(s)'
  <2>1. DTask(s) /\ Keeps(s)
    BY DEF DeviceInv, DKeeps
  <2>2. CASE s = t /\ helper[t].on = h
    <3>1. helper'[s].pc = pc /\ helper'[s].on = Device!None
      BY <1>1, <1>3, <2>2 DEF AHelper
    <3>2. pc # "none" /\ (pc = "put" => upload[s] # "none")
      BY <2>2 DEF Helping, t
    <3> QED BY <1>1, <2>1, <2>2, <3>1, <3>2 DEF DTask, Keeps
  <2>3. CASE s # t \/ helper[t].on # h
    <3>1. helper'[s] = helper[s]
      BY <1>1, <1>3, <2>3
    <3>2. helper[s].on # h
      BY <1>1, <2>1, <2>3 DEF DTask, t
    <3>3. helper[s].on # Device!None => req'[helper[s].on] = req[helper[s].on]
      BY <1>1, <1>2, <3>2
    <3> QED BY <2>1, <3>1, <3>3 DEF DTask, Keeps
  <2> QED BY <2>2, <2>3
<1>7. ASSUME NEW g \in Handlers PROVE DRequest(g)'
  <2>1. CASE g = h
    BY <1>1, <1>2, <2>1 DEF DRequest
  <2>2. CASE g # h
    BY <1>1, <1>2, <2>2, RequestsKeep
  <2> QED BY <2>1, <2>2
<1> QED BY <1>2, <1>5, <1>6, <1>7 DEF DeviceInv

\* A request goes on to its next step.
LEMMA GoKeeps ==
    ASSUME DeviceInv, DKeeps, NEW h \in Handlers, req[h].pc # "free", helper' = helper,
           NEW pc \in Serving, Device!To(h, pc), DRequest(h)'
    PROVE  DeviceInv' /\ req' = [req EXCEPT ![h].pc = pc]
<1>1. /\ req \in [Handlers -> ARequest]
      /\ helper \in [Device!Tasks -> AHelper]
  BY DEF DeviceInv, DTypes
<1>2. req' = [req EXCEPT ![h].pc = pc]
  BY DEF Device!To
<1>3. DTypes'
  BY <1>1, <1>2 DEF DKeeps, DTypes, ARequest
<1>4. ASSUME NEW s \in Device!Tasks PROVE DTask(s)'
  <2>1. DTask(s) /\ Keeps(s)
    BY DEF DeviceInv, DKeeps
  <2>2. \A g \in Handlers : req'[g].task = req[g].task /\ (req[g].pc # "free" => req'[g].pc # "free")
    BY <1>1, <1>2 DEF ARequest, Serving
  <2>3. helper[s].on # Device!None => helper[s].on \in Handlers
    BY <1>1 DEF AHelper
  <2> QED BY <2>1, <2>2, <2>3 DEF DTask, Keeps
<1>5. ASSUME NEW g \in Handlers PROVE DRequest(g)'
  BY <1>1, <1>2, RequestsKeep
<1> QED BY <1>2, <1>3, <1>4, <1>5 DEF DeviceInv

\* The helper goes on, or only time, the owner and the other jobs do.
LEMMA RestKeeps ==
    ASSUME DeviceInv, DKeeps, req' = req,
           \/ helper' = helper
           \/ \E t \in Device!Tasks, pc \in Helping \ {"put"} :
                  task'[t] # "none" /\ Device!Pc(t, pc)
    PROVE  DeviceInv'
<1>1. helper \in [Device!Tasks -> AHelper]
  BY DEF DeviceInv, DTypes
<1>2. /\ helper' \in [Device!Tasks -> AHelper]
      /\ \A s \in Device!Tasks :
            \/ helper'[s] = helper[s]
            \/ task'[s] # "none" /\ helper'[s].pc # "put" /\ helper'[s].on = Device!None
  <2>1. CASE helper' = helper
    BY <1>1, <2>1
  <2>2. ASSUME NEW t \in Device!Tasks, NEW pc \in Helping \ {"put"}, task'[t] # "none", Device!Pc(t, pc)
        PROVE  <1>2
    <3> DEFINE new == [helper[t] EXCEPT !.pc = pc, !.on = Device!None]
    <3>1. new \in AHelper /\ new.pc = pc /\ new.on = Device!None
      BY <1>1 DEF AHelper
    <3>2. helper' = [helper EXCEPT ![t] = new]
      BY <1>1, <2>2 DEF Device!Pc
    <3> HIDE DEF new
    <3> QED BY <1>1, <2>2, <3>1, <3>2
  <2> QED BY <2>1, <2>2
<1>3. DTypes'
  BY <1>2 DEF DeviceInv, DTypes, DKeeps
<1>4. ASSUME NEW s \in Device!Tasks PROVE DTask(s)'
  BY <1>2 DEF DeviceInv, DKeeps, DTask, Keeps
<1>5. ASSUME NEW g \in Handlers PROVE DRequest(g)'
  BY RequestsKeep
<1> QED BY <1>3, <1>4, <1>5 DEF DeviceInv

LEMMA Losses ==
    ASSUME NEW t PROVE Device!AfterLoss(t) \in Helping \ {"put"}
BY DEF Device!AfterLoss, Helping

\* Whatever a handler does, and though the server goes down.
LEMMA ServeKeeps ==
    ASSUME DeviceInv, NEW h \in Handlers, Device!Serve(h) \/ Device!Dropped(h) \/ Device!Crash(h)
    PROVE  DeviceInv'
<1> DEFINE t == req[h].task
<1>1. /\ task \in [Device!Tasks -> DTasks] /\ upload \in [Device!Tasks -> DUploads]
      /\ stored \in [Device!Tasks -> BOOLEAN] /\ req \in [Handlers -> ARequest]
      /\ t \in Device!Tasks /\ DTask(t) /\ DRequest(h)
  BY DEF DeviceInv, DTypes, ARequest
<1>2. /\ req[h].pc # "free" => task[t] # "none"
      /\ req[h].pc = "recheck" => upload[t] # "none"
      /\ req[h].pc = "validate" => stored[t]
      /\ req[h].pc = "finish" => upload[t] \notin {"none", "uploading"}
      /\ upload[t] = "none" => ~stored[t]
  BY <1>1 DEF DRequest, DTask
<1>3. ASSUME NEW pc \in Serving, Device!To(h, pc)
      PROVE  req'[h].task = t /\ req'[h].pc = pc
  BY <1>1, <1>3 DEF Device!To, ARequest
<1>4. \A pc \in Serving \ {"recheck", "validate", "finish"} :
          Device!To(h, pc) /\ DKeeps /\ task[t] # "none" => DRequest(h)'
  BY <1>1, <1>3 DEF DRequest, DKeeps, Keeps
<1> USE DEF Device!At
<1>5. CASE Device!Clean(h)
  <2>1. req[h].pc = "clean" /\ UNCHANGED <<task, late, stored>> /\ Device!Answer(h, "stop")
    BY <1>5 DEF Device!Clean
  <2>2. CASE Device!Unfinished(t)
    <3>1. upload' = [upload EXCEPT ![t] = "deleting"]
      BY <1>5, <2>2 DEF Device!Clean
    <3>2. DKeeps
      BY <1>1, <1>2, <2>1, <3>1, UploadKeeps DEF DUploads
    <3> QED BY <2>1, <3>2, AnswerKeeps DEF Helping
  <2>3. CASE ~Device!Unfinished(t)
    <3>1. upload' = upload
      BY <1>5, <2>3 DEF Device!Clean
    <3> QED BY <2>1, <3>1, NothingKeeps, AnswerKeeps DEF Helping
  <2> QED BY <2>2, <2>3
<1>6. CASE Device!Refuse(h)
  <2>1. /\ req[h].pc # "free" /\ Device!Answer(h, "give up")
        /\ UNCHANGED <<task, late, upload, stored>>
    BY <1>6 DEF Device!Refuse
  <2> QED BY <2>1, NothingKeeps, AnswerKeeps DEF Helping
<1>7. CASE Device!ServeTask(h)
  <2>1. /\ req[h].pc = "task" /\ UNCHANGED <<late, upload, stored>>
        /\ task' = [task EXCEPT ![t] = IF task[t] = "queued" THEN "downloading" ELSE task[t]]
        /\ \E pc \in {"stop", "upload"} : Device!Answer(h, pc)
    BY <1>7 DEF Device!ServeTask
  <2>2. DKeeps
    BY <1>1, <1>2, <2>1, TaskKeeps DEF DTasks, Device!Active
  <2> QED BY <2>1, <2>2, AnswerKeeps DEF Helping
<1>8. CASE Device!ServeUpload(h)
  <2>1. /\ req[h].pc = "upload" /\ UNCHANGED <<late, upload, stored, helper>>
        /\ task' = [task EXCEPT ![t] = "uploading"] /\ Device!To(h, "admit")
    BY <1>8 DEF Device!ServeUpload
  <2>2. DKeeps
    BY <1>1, <1>2, <2>1, TaskKeeps DEF DTasks, Device!Active
  <2> QED BY <1>2, <1>4, <2>1, <2>2, GoKeeps DEF Serving
<1>9. ASSUME NEW room \in BOOLEAN, Device!AdmitMedia(h, room) PROVE DeviceInv'
  <2>1. /\ req[h].pc = "admit" /\ UNCHANGED <<task, late, stored>>
        /\ \/ upload' = upload
           \/ upload[t] = "none" /\ upload' = [upload EXCEPT ![t] = "uploading"]
    BY <1>9 DEF Device!AdmitMedia
  <2>2. DKeeps
    BY <1>1, <1>2, <2>1, UploadKeeps, NothingKeeps DEF DUploads
  <2>3. CASE Device!To(h, "recheck") /\ helper' = helper
    <3>1. req'[h].task = t /\ req'[h].pc = "recheck"
      BY <1>3, <2>3 DEF Serving
    <3>2. req' # [req EXCEPT ![h] = Device!Free]
      BY <1>1, <3>1 DEF Device!Free
    <3>3. upload'[t] # "none"
      BY <1>1, <1>9, <3>2 DEF Device!AdmitMedia, Device!Answer
    <3>4. DRequest(h)'
      BY <1>2, <2>1, <3>1, <3>3 DEF DRequest
    <3> QED BY <2>1, <2>2, <2>3, <3>4, GoKeeps DEF Serving
  <2>4. CASE Device!Answer(h, "give up")
    BY <2>1, <2>2, <2>4, AnswerKeeps DEF Helping
  <2> QED BY <1>9, <2>3, <2>4 DEF Device!AdmitMedia
<1>10. CASE Device!Recheck(h)
  <2>1. /\ req[h].pc = "recheck" /\ UNCHANGED <<task, late, upload, stored>>
        /\ \/ Device!To(h, "clean") /\ helper' = helper
           \/ Device!Answer(h, "put")
    BY <1>10 DEF Device!Recheck
  <2>2. DKeeps /\ upload[t] # "none" /\ task[t] # "none"
    BY <1>2, <2>1, NothingKeeps
  <2> QED BY <1>4, <2>1, <2>2, GoKeeps, AnswerKeeps DEF Helping, Serving
<1>11. CASE Device!ServeComplete(h)
  <2>1. /\ req[h].pc = "complete" /\ UNCHANGED <<late, upload, stored, helper>>
        /\ task' = [task EXCEPT ![t] = IF task[t] = "completed" THEN task[t] ELSE "completing"]
        /\ Device!To(h, "verify")
    BY <1>11 DEF Device!ServeComplete
  <2>2. DKeeps
    BY <1>1, <1>2, <2>1, TaskKeeps DEF DTasks, Device!Active
  <2> QED BY <1>2, <1>4, <2>1, <2>2, GoKeeps DEF Serving
<1>12. ASSUME NEW reached \in BOOLEAN, Device!Verify(h, reached) PROVE DeviceInv'
  <2> DEFINE pc == Device!AfterVerify(t, reached)
  <2>1. /\ pc \in {"finish", "validate", "inspect"}
        /\ pc = "finish" => upload[t] = "ready"
        /\ pc = "validate" => stored[t]
    BY DEF Device!AfterVerify
  <2>2. Device!To(h, pc) /\ UNCHANGED <<task, late, upload, stored, helper>> /\ req[h].pc = "verify"
    BY <1>12 DEF Device!Verify
  <2> HIDE DEF pc
  <2>3. DKeeps /\ pc \in Serving
    BY <2>1, <2>2, NothingKeeps DEF Serving
  <2>4. DRequest(h)'
    BY <1>2, <1>3, <2>1, <2>2, <2>3 DEF DRequest
  <2> QED BY <2>2, <2>3, <2>4, GoKeeps
<1>13. ASSUME NEW woken \in BOOLEAN, Device!Validate(h, woken) PROVE DeviceInv'
  <2>1. /\ req[h].pc = "validate" /\ UNCHANGED <<task, late, stored, helper>>
        /\ upload' = [upload EXCEPT ![t] = IF upload[t] = "uploading" THEN "validating" ELSE upload[t]]
        /\ \E pc \in {"finish", "inspect"} : Device!To(h, pc)
    BY <1>13 DEF Device!Validate
  <2>2. upload[t] # "none" /\ upload'[t] \notin {"none", "uploading"}
    BY <1>1, <1>2, <2>1
  <2>3. DKeeps
    BY <1>1, <1>2, <2>1, <2>2, UploadKeeps DEF DUploads
  <2>4. PICK pc \in {"finish", "inspect"} : Device!To(h, pc)
    BY <2>1
  <2>5. pc \in Serving
    BY DEF Serving
  <2>6. DRequest(h)'
    BY <1>2, <1>3, <2>1, <2>2, <2>4, <2>5 DEF DRequest
  <2> QED BY <2>1, <2>3, <2>4, <2>5, <2>6, GoKeeps
<1>14. CASE Device!Inspect(h)
  <2>1. /\ req[h].pc = "inspect" /\ UNCHANGED <<task, late, upload, stored>>
        /\ \/ Device!To(h, "revert") /\ helper' = helper
           \/ \E pc \in {"give up", "retry"} : Device!Answer(h, pc)
    BY <1>14 DEF Device!Inspect
  <2>2. DKeeps /\ task[t] # "none"
    BY <1>2, <2>1, NothingKeeps
  <2> QED BY <1>4, <2>1, <2>2, GoKeeps, AnswerKeeps DEF Helping, Serving
<1>15. CASE Device!Revert(h)
  <2>1. /\ req[h].pc = "revert" /\ UNCHANGED <<late, upload, stored>> /\ Device!Answer(h, "retry")
        /\ task' = [task EXCEPT ![t] = IF task[t] = "completing" THEN "uploading" ELSE task[t]]
    BY <1>15 DEF Device!Revert, Device!Reverted
  <2>2. DKeeps
    BY <1>1, <1>2, <2>1, TaskKeeps DEF DTasks, Device!Active
  <2> QED BY <2>1, <2>2, AnswerKeeps DEF Helping
<1>16. CASE Device!Finish(h)
  <2>1. /\ req[h].pc = "finish" /\ UNCHANGED <<late, upload, stored>> /\ Device!Answer(h, "stop")
        /\ task' = [task EXCEPT ![t] = "completed"]
    BY <1>16 DEF Device!Finish
  <2>2. DKeeps
    BY <1>1, <1>2, <2>1, TaskKeeps DEF DTasks, Device!Ended
  <2> QED BY <2>1, <2>2, AnswerKeeps DEF Helping
<1>17. CASE Device!ServeFailure(h)
  <2>1. /\ req[h].pc = "failure" /\ UNCHANGED <<late, upload, stored>>
        /\ \/ /\ task' = [task EXCEPT ![t] = "failed"] /\ Device!To(h, "clean") /\ helper' = helper
           \/ task' = task /\ Device!Answer(h, "stop")
    BY <1>17 DEF Device!ServeFailure
  <2>2. DKeeps
    BY <1>1, <1>2, <2>1, TaskKeeps, NothingKeeps DEF DTasks, Device!Ended
  <2> QED BY <1>2, <1>4, <2>1, <2>2, GoKeeps, AnswerKeeps DEF Helping, Serving
<1>18. CASE Device!Dropped(h) \/ Device!Crash(h)
  <2>1. /\ UNCHANGED <<task, late, upload, stored>> /\ req[h].pc # "free"
        /\ Device!Answer(h, Device!AfterLoss(t))
    BY <1>18 DEF Device!Dropped, Device!Crash, Device!Lost
  <2> QED BY <2>1, NothingKeeps, Losses, AnswerKeeps
<1> QED BY <1>5, <1>6, <1>7, <1>8, <1>9, <1>10, <1>11, <1>12, <1>13, <1>14, <1>15, <1>16, <1>17, <1>18
        DEF Device!Serve

LEMMA OthersKeep ==
    ASSUME DeviceInv,
           \/ \E h \in Handlers, t \in Device!Tasks : Device!Cancel(h, t) \/ Device!Send(t, h)
           \/ \E t \in Device!Tasks :
                 \/ Device!Create(t) \/ Device!GiveUp(t) \/ Device!Fail(t) \/ Device!TimePasses(t)
                 \/ Device!DeleteMedia(t) \/ \E taken \in BOOLEAN : Device!Put(t, taken)
                 \/ \E verdict \in {"ready", "failed"} : Device!Validated(t, verdict)
           \/ Device!Expire \/ Device!Revoke
    PROVE  DeviceInv'
<1>1. /\ task \in [Device!Tasks -> DTasks] /\ late \in [Device!Tasks -> BOOLEAN]
      /\ upload \in [Device!Tasks -> DUploads] /\ stored \in [Device!Tasks -> BOOLEAN]
      /\ \A s \in Device!Tasks : DTask(s)
      /\ req \in [Handlers -> ARequest]
      /\ helper \in [Device!Tasks -> AHelper]
      /\ Device!None \notin Handlers
  BY PartsAssumption DEF DeviceInv, DTypes, Device!Parameters
<1> USE <1>1 DEF Device!At
<1>2. UNCHANGED <<task, late, upload, stored>> => DKeeps
  BY NothingKeeps
\* A new request: nobody waits for its handler yet.
<1>3. ASSUME NEW h \in Handlers, NEW t \in Device!Tasks, NEW pc \in Serving,
             req[h].pc = "free", pc \notin {"recheck", "validate", "finish"},
             req' = [req EXCEPT ![h] = [task |-> t, pc |-> pc]], DKeeps, task[t] # "none",
             \/ helper' = helper
             \/ \E n \in Int : helper' = [helper EXCEPT ![t] = [[@ EXCEPT !.on = h] EXCEPT !.sent = n]]
      PROVE  DeviceInv'
  <2>1. [task |-> t, pc |-> pc] \in ARequest /\ pc # "free"
    BY DEF ARequest, Serving
  <2>2. helper' \in [Device!Tasks -> AHelper]
        /\ \A s \in Device!Tasks : \/ helper'[s] = helper[s]
                                   \/ s = t /\ helper'[s].pc = helper[s].pc /\ helper'[s].on = h
    <3>1. CASE helper' = helper
      BY <3>1
    <3>2. ASSUME NEW n \in Int, helper' = [helper EXCEPT ![t] = [[@ EXCEPT !.on = h] EXCEPT !.sent = n]]
          PROVE  <2>2
      <4> DEFINE new == [[helper[t] EXCEPT !.on = h] EXCEPT !.sent = n]
      <4>1. new \in AHelper /\ new.pc = helper[t].pc /\ new.on = h
        BY DEF AHelper
      <4>2. helper' = [helper EXCEPT ![t] = new]
        BY <3>2
      <4> HIDE DEF new
      <4> QED BY <4>1, <4>2
    <3> QED BY <1>3, <3>1, <3>2
  <2>4. DTypes'
    BY <1>3, <2>1, <2>2 DEF DKeeps, DTypes
  <2>5. req'[h].task = t /\ req'[h].pc = pc /\ \A g \in Handlers \ {h} : req'[g] = req[g]
    BY <1>3, <2>1
  <2>6. ASSUME NEW s \in Device!Tasks PROVE DTask(s)'
    <3>1. DTask(s) /\ Keeps(s) /\ helper[s].on \in Handlers \cup {Device!None}
      BY <1>3 DEF DKeeps, AHelper
    <3>2. CASE helper'[s] = helper[s]
      <4>1. helper[s].on # h
        BY <1>3, <3>1 DEF DTask
      <4>2. helper[s].on # Device!None => req'[helper[s].on] = req[helper[s].on]
        BY <2>5, <3>1, <4>1
      <4> QED BY <3>1, <3>2, <4>2 DEF DTask, Keeps
    <3>3. CASE s = t /\ helper'[s].pc = helper[s].pc /\ helper'[s].on = h
      BY <1>3, <2>1, <2>5, <3>1, <3>3 DEF DTask, Keeps
    <3> QED BY <2>2, <3>2, <3>3
  <2>7. ASSUME NEW g \in Handlers PROVE DRequest(g)'
    <3>1. CASE g = h
      BY <1>3, <2>5, <3>1 DEF DRequest, DKeeps, Keeps
    <3>2. CASE g # h
      BY <1>3, <2>5, <3>2, RequestsKeep
    <3> QED BY <3>1, <3>2
  <2> QED BY <2>4, <2>6, <2>7 DEF DeviceInv
<1>4. ASSUME NEW h \in Handlers, NEW t \in Device!Tasks, Device!Cancel(h, t) PROVE DeviceInv'
  <2>1. /\ req[h].pc = "free" /\ req' = [req EXCEPT ![h] = [task |-> t, pc |-> "clean"]]
        /\ task' = [task EXCEPT ![t] = "cancelled"] /\ task[t] # "none"
        /\ UNCHANGED <<late, upload, stored, helper>>
    BY <1>4 DEF Device!Cancel
  <2>2. DKeeps
    BY <2>1, TaskKeeps DEF DTasks, Device!Ended
  <2> QED BY <1>3, <2>1, <2>2 DEF Serving
<1>5. ASSUME NEW h \in Handlers, NEW t \in Device!Tasks, Device!Send(t, h) PROVE DeviceInv'
  <2> DEFINE pc == Device!Request(helper[t].pc)
             n == IF helper[t].pc \in {"complete", "retry"} THEN helper[t].sent + 1 ELSE helper[t].sent
  <2>1. /\ req[h].pc = "free" /\ req' = [req EXCEPT ![h] = [task |-> t, pc |-> pc]]
        /\ UNCHANGED <<task, late, upload, stored>>
    BY <1>5 DEF Device!Send
  <2>2. pc \in Serving /\ pc \notin {"recheck", "validate", "finish"} /\ task[t] # "none"
    BY <1>5 DEF Device!Send, Device!Wants, Device!Request, DTask, Serving
  <2>3. helper' = [helper EXCEPT ![t] = [[@ EXCEPT !.on = h] EXCEPT !.sent = n]]
    BY <1>5 DEF Device!Send
  <2>4. n \in Int
    BY DEF AHelper
  <2> HIDE DEF pc, n
  <2> QED BY <1>2, <1>3, <2>1, <2>2, <2>3, <2>4
<1>6. ASSUME NEW t \in Device!Tasks, Device!Create(t) PROVE DeviceInv'
  <2>1. /\ task' = [Device!Expired EXCEPT ![t] = "queued"] /\ upload' = Device!Swept(upload)
        /\ Device!Pc(t, "task") /\ UNCHANGED <<late, stored, req>>
    BY <1>6 DEF Device!Create
  <2>2. DKeeps /\ task'[t] # "none"
    BY <2>1, ExpiryKeeps DEF Device!Expired
  <2> QED BY <2>1, <2>2, RestKeeps DEF Helping
<1>7. ASSUME NEW t \in Device!Tasks, Device!GiveUp(t) PROVE DeviceInv'
  <2>1. /\ helper[t].on # Device!None /\ Device!Pc(t, Device!AfterLoss(t))
        /\ UNCHANGED <<task, late, upload, stored, req>>
    BY <1>7 DEF Device!GiveUp
  <2>2. helper[t].on \in Handlers /\ DRequest(helper[t].on)
    BY <2>1 DEF AHelper, DeviceInv
  <2>3. task[t] # "none"
    BY <2>1, <2>2 DEF DTask, DRequest
  <2> QED BY <1>2, <2>1, <2>3, Losses, RestKeeps
<1>8. ASSUME NEW t \in Device!Tasks, Device!Fail(t) PROVE DeviceInv'
  <2>1. helper[t].pc # "none" /\ Device!Pc(t, "failure") /\ UNCHANGED <<task, late, upload, stored, req>>
    BY <1>8 DEF Device!Fail
  <2>2. task[t] # "none"
    BY <2>1 DEF DTask
  <2> QED BY <1>2, <2>1, <2>2, RestKeeps DEF Helping
<1>9. ASSUME NEW t \in Device!Tasks, NEW taken \in BOOLEAN, Device!Put(t, taken) PROVE DeviceInv'
  <2>1. /\ helper[t].pc = "put" /\ UNCHANGED <<task, late, upload, req>>
        /\ stored' = [stored EXCEPT ![t] = stored[t] \/ taken]
        /\ \E pc \in {"complete", "failure"} : Device!Pc(t, pc)
    BY <1>9 DEF Device!Put
  <2>2. task[t] # "none" /\ upload[t] # "none"
    BY <2>1 DEF DTask
  <2>3. DKeeps
    BY <2>1, <2>2 DEF DKeeps, Keeps, DeviceInv, DTypes
  <2> QED BY <2>1, <2>2, <2>3, RestKeeps DEF Helping
<1>10. ASSUME NEW t \in Device!Tasks, Device!TimePasses(t) PROVE DeviceInv'
  <2>1. late' = [late EXCEPT ![t] = TRUE] /\ UNCHANGED <<task, upload, stored, req, helper>>
    BY <1>10 DEF Device!TimePasses
  <2>2. DKeeps
    BY <2>1 DEF DKeeps, Keeps
  <2> QED BY <2>1, <2>2, RestKeeps
<1>11. ASSUME NEW t \in Device!Tasks, NEW verdict \in {"ready", "failed"},
              Device!DeleteMedia(t) \/ Device!Validated(t, verdict)
       PROVE  DeviceInv'
  <2>1. /\ UNCHANGED <<task, late, stored, req, helper>> /\ upload[t] # "none"
        /\ \E u \in {"deleting", "ready", "failed"} : upload' = [upload EXCEPT ![t] = u]
    BY <1>11 DEF Device!DeleteMedia, Device!Validated, Device!Unfinished
  <2>2. DKeeps
    BY <2>1, UploadKeeps DEF DTask, DUploads
  <2> QED BY <2>1, <2>2, RestKeeps
<1>12. CASE Device!Expire
  <2>1. /\ task' = Device!Expired /\ upload' = Device!Swept(upload)
        /\ UNCHANGED <<late, stored, req, helper>>
    BY <1>12 DEF Device!Expire
  <2> QED BY <2>1, ExpiryKeeps, RestKeeps
<1>13. CASE Device!Revoke
  BY <1>2, <1>13, RestKeeps DEF Device!Revoke
<1> QED BY <1>4, <1>5, <1>6, <1>7, <1>8, <1>9, <1>10, <1>11, <1>12, <1>13

LEMMA DeviceStep == DeviceInv /\ [Device!CrashNext]_device => DeviceInv'
<1>1. DeviceInv /\ UNCHANGED device => DeviceInv'
  BY DEF device, DeviceInv, DTypes, DTask, DRequest
<1> QED BY <1>1, ServeKeeps, OthersKeep DEF Device!CrashNext, Device!Next

\* What ended stays so.
LEMMA EndedStays ==
    ASSUME DeviceInv, [Device!CrashNext]_device, NEW t \in Device!Tasks, task[t] \in Device!Ended
    PROVE  task'[t] \in Device!Ended
<1>1. task \in [Device!Tasks -> DTasks]
  BY DEF DeviceInv, DTypes
<1> USE <1>1 DEF Device!Ended, Device!Active
<1>2. ASSUME NEW h \in Handlers, Device!Serve(h) \/ Device!Dropped(h) \/ Device!Crash(h)
      PROVE  task'[t] \in Device!Ended
  BY <1>2 DEF Device!Serve, Device!Clean, Device!Refuse, Device!ServeTask, Device!ServeUpload,
      Device!AdmitMedia, Device!Recheck, Device!ServeComplete, Device!Verify, Device!Validate,
      Device!Inspect, Device!Revert, Device!Reverted, Device!Finish, Device!ServeFailure,
      Device!Dropped, Device!Crash, Device!Lost
<1>3. ASSUME NEW s \in Device!Tasks, Device!Create(s) PROVE task'[t] \in Device!Ended
  BY <1>3 DEF Device!Create, Device!Expired, Device!Overdue
<1>4. CASE \/ \E h \in Handlers, s \in Device!Tasks : Device!Cancel(h, s) \/ Device!Send(s, h)
           \/ \E s \in Device!Tasks :
                 \/ Device!GiveUp(s) \/ Device!Fail(s) \/ Device!TimePasses(s) \/ Device!DeleteMedia(s)
                 \/ \E taken \in BOOLEAN : Device!Put(s, taken)
                 \/ \E verdict \in {"ready", "failed"} : Device!Validated(s, verdict)
           \/ Device!Revoke \/ UNCHANGED device
  BY <1>4 DEF Device!Cancel, Device!Send, Device!GiveUp, Device!Fail, Device!TimePasses,
      Device!DeleteMedia, Device!Put, Device!Validated, Device!Revoke, device
<1>5. CASE Device!Expire
  BY <1>5 DEF Device!Expire, Device!Expired, Device!Overdue
<1> QED BY <1>2, <1>3, <1>4, <1>5 DEF Device!CrashNext, Device!Next

\* No upload of a cancelled or failed task is forgotten while the server is up.
LEMMA NoneOrphanedStep ==
    ASSUME DeviceInv, NoneOrphaned, [Device!Next]_device
    PROVE  NoneOrphaned'
<1>1. /\ task \in [Device!Tasks -> DTasks] /\ upload \in [Device!Tasks -> DUploads]
      /\ req \in [Handlers -> ARequest]
  BY DEF DeviceInv, DTypes
<1> USE <1>1 DEF Device!At
\* A step that neither cancels, fails nor reserves, nor ends such a request.
<1>2. ASSUME \A t \in Device!Tasks :
                /\ task'[t] \in {"cancelled", "failed"} => task[t] \in {"cancelled", "failed"}
                /\ upload'[t] = "uploading" => upload[t] = "uploading",
             \A h \in Handlers : req[h].pc \in {"recheck", "clean"} => req'[h] = req[h]
      PROVE  NoneOrphaned'
  BY <1>2 DEF NoneOrphaned, GivesBack
<1>3. ASSUME NEW h \in Handlers, req[h].pc \notin {"recheck", "clean"},
             (\E new : req' = [req EXCEPT ![h] = new]) \/ req' = req
      PROVE  \A g \in Handlers : req[g].pc \in {"recheck", "clean"} => req'[g] = req[g]
  BY <1>3
<1>4. ASSUME NEW h \in Handlers, Device!Clean(h) PROVE NoneOrphaned'
  <2>1. /\ req' = [req EXCEPT ![h] = Device!Free] /\ task' = task /\ req[h].task \in Device!Tasks
        /\ upload' = IF Device!Unfinished(req[h].task) THEN [upload EXCEPT ![req[h].task] = "deleting"] ELSE upload
    BY <1>4 DEF Device!Clean, Device!Answer, ARequest
  <2>2. upload'[req[h].task] # "uploading"
    BY <2>1 DEF Device!Unfinished
  <2> QED BY <2>1, <2>2 DEF NoneOrphaned, GivesBack
<1>5. ASSUME NEW h \in Handlers, Device!Recheck(h) PROVE NoneOrphaned'
  <2>1. UNCHANGED <<task, upload>> /\ req[h].pc = "recheck"
    BY <1>5 DEF Device!Recheck
  <2>2. CASE req' = [req EXCEPT ![h].pc = "clean"]
    <3>1. \A g \in Handlers, t \in Device!Tasks : GivesBack(g, t) => GivesBack(g, t)'
      BY <2>2 DEF GivesBack
    <3> QED BY <2>1, <3>1 DEF NoneOrphaned
  <2>3. CASE req' = [req EXCEPT ![h] = Device!Free] /\ task[req[h].task] = "uploading"
    BY <2>1, <2>3 DEF NoneOrphaned, GivesBack
  <2> QED BY <1>5, <2>2, <2>3 DEF Device!Recheck, Device!Revoked, Device!To, Device!Answer
<1>6. ASSUME NEW h \in Handlers, NEW room \in BOOLEAN, Device!AdmitMedia(h, room) PROVE NoneOrphaned'
  <2>1. task' = task /\ req[h].pc = "admit" /\ req[h].task \in Device!Tasks
    BY <1>6 DEF Device!AdmitMedia, ARequest
  <2>2. CASE /\ req' = [req EXCEPT ![h].pc = "recheck"]
             /\ upload' \in {upload, [upload EXCEPT ![req[h].task] = "uploading"]}
    <3>1. \A g \in Handlers, t \in Device!Tasks : GivesBack(g, t) => GivesBack(g, t)'
      BY <2>1, <2>2 DEF GivesBack
    <3>2. GivesBack(h, req[h].task)'
      BY <2>1, <2>2 DEF GivesBack
    <3> QED BY <2>1, <2>2, <3>1, <3>2 DEF NoneOrphaned
  <2>3. CASE req' = [req EXCEPT ![h] = Device!Free] /\ upload' = upload
    BY <1>2, <1>3, <2>1, <2>3
  <2> QED BY <1>6, <2>2, <2>3 DEF Device!AdmitMedia, Device!To, Device!Answer
<1>7. ASSUME NEW h \in Handlers, Device!ServeFailure(h) PROVE NoneOrphaned'
  <2>1. upload' = upload /\ req[h].pc = "failure" /\ req[h].task \in Device!Tasks
    BY <1>7 DEF Device!ServeFailure, ARequest
  <2>2. CASE /\ req' = [req EXCEPT ![h].pc = "clean"] /\ task' = [task EXCEPT ![req[h].task] = "failed"]
    <3>1. \A g \in Handlers, t \in Device!Tasks : GivesBack(g, t) => GivesBack(g, t)'
      BY <2>1, <2>2 DEF GivesBack
    <3>2. GivesBack(h, req[h].task)'
      BY <2>1, <2>2 DEF GivesBack
    <3> QED BY <2>1, <2>2, <3>1, <3>2 DEF NoneOrphaned
  <2>3. CASE req' = [req EXCEPT ![h] = Device!Free] /\ task' = task
    BY <1>2, <1>3, <2>1, <2>3
  <2> QED BY <1>7, <2>2, <2>3 DEF Device!ServeFailure, Device!To, Device!Answer
<1>8. ASSUME NEW h \in Handlers, NEW t \in Device!Tasks, Device!Cancel(h, t) PROVE NoneOrphaned'
  <2>1. /\ upload' = upload /\ req[h].pc = "free" /\ task' = [task EXCEPT ![t] = "cancelled"]
        /\ req' = [req EXCEPT ![h] = [task |-> t, pc |-> "clean"]]
    BY <1>8 DEF Device!Cancel
  <2>2. \A g \in Handlers, s \in Device!Tasks : GivesBack(g, s) => GivesBack(g, s)'
    BY <2>1 DEF GivesBack
  <2>3. GivesBack(h, t)'
    BY <2>1 DEF GivesBack
  <2> QED BY <2>1, <2>2, <2>3 DEF NoneOrphaned
<1>9. ASSUME NEW h \in Handlers,
             \/ Device!Refuse(h) \/ Device!ServeTask(h) \/ Device!ServeUpload(h)
             \/ Device!ServeComplete(h) \/ Device!Inspect(h) \/ Device!Revert(h) \/ Device!Finish(h)
             \/ \E fine \in BOOLEAN : Device!Verify(h, fine) \/ Device!Validate(h, fine)
             \/ Device!Dropped(h)
      PROVE  NoneOrphaned'
  <2>1. \E new : req' = [req EXCEPT ![h] = new]
    BY <1>9 DEF Device!Refuse, Device!ServeTask, Device!ServeUpload, Device!ServeComplete,
        Device!Inspect, Device!Revert, Device!Finish, Device!Verify, Device!Validate, Device!Dropped,
        Device!Lost, Device!To, Device!Answer
  <2>2. req[h].pc \notin {"recheck", "clean"}
    BY <1>9 DEF Device!Refuse, Device!ServeTask, Device!ServeUpload, Device!ServeComplete,
        Device!Inspect, Device!Revert, Device!Finish, Device!Verify, Device!Validate, Device!Dropped
  <2>3. ASSUME NEW t \in Device!Tasks
        PROVE  /\ task'[t] \in {"cancelled", "failed"} => task[t] \in {"cancelled", "failed"}
               /\ upload'[t] = "uploading" => upload[t] = "uploading"
    BY <1>9 DEF Device!Refuse, Device!ServeTask, Device!ServeUpload, Device!ServeComplete,
        Device!Inspect, Device!Revert, Device!Reverted, Device!Finish, Device!Verify, Device!Validate,
        Device!Dropped, Device!Lost
  <2> QED BY <1>2, <1>3, <2>1, <2>2, <2>3
<1>10. ASSUME NEW t \in Device!Tasks, NEW h \in Handlers, Device!Send(t, h) PROVE NoneOrphaned'
  BY <1>2, <1>3, <1>10 DEF Device!Send
<1>11. ASSUME NEW t \in Device!Tasks, Device!Create(t) PROVE NoneOrphaned'
  BY <1>2, <1>11 DEF Device!Create, Device!Expired, Device!Swept, Device!Unfinished
<1>12. ASSUME NEW t \in Device!Tasks,
             \/ Device!GiveUp(t) \/ Device!Fail(t) \/ Device!TimePasses(t) \/ Device!DeleteMedia(t)
             \/ \E taken \in BOOLEAN : Device!Put(t, taken)
             \/ \E verdict \in {"ready", "failed"} : Device!Validated(t, verdict)
       PROVE  NoneOrphaned'
  BY <1>2, <1>12 DEF Device!GiveUp, Device!Fail, Device!TimePasses, Device!DeleteMedia, Device!Put,
      Device!Validated
<1>13. CASE Device!Expire
  BY <1>2, <1>13 DEF Device!Expire, Device!Expired, Device!Swept, Device!Unfinished
<1>14. CASE Device!Revoke \/ UNCHANGED device
  BY <1>2, <1>14 DEF Device!Revoke, device
<1> QED BY <1>4, <1>5, <1>6, <1>7, <1>8, <1>9, <1>10, <1>11, <1>12, <1>13, <1>14
        DEF Device!Next, Device!Serve

LEMMA DeviceReads ==
    DeviceInv => /\ Device!TypeOK /\ Device!CompletedIsAdmitted
                 /\ NoneOrphaned => Device!CancelledHoldsNothing
<1> SUFFICES ASSUME DeviceInv
             PROVE  /\ Device!TypeOK /\ Device!CompletedIsAdmitted
                    /\ NoneOrphaned => Device!CancelledHoldsNothing
  OBVIOUS
<1>1. Device!TypeOK
  BY DEF DeviceInv, DTypes, DTask, DTasks, Device!TypeOK, Device!At
<1>2. Device!CompletedIsAdmitted
  BY DEF DeviceInv, DTask, Device!CompletedIsAdmitted
<1>3. NoneOrphaned => Device!CancelledHoldsNothing
  BY DEF NoneOrphaned, GivesBack, Device!CancelledHoldsNothing, Device!InFlight, Device!At
<1> QED BY <1>1, <1>2, <1>3

-----------------------------------------------------------------------------
(* The programs of MCStorage *)

StorageInv == LocalInv /\ RemoteInv /\ DeviceInv /\ (part # "crashing" => NoneOrphaned)

LEMMA StorageStart == EachInit => StorageInv
BY LocalStart, RemoteStart, DeviceStart DEF EachInit, StorageInv

\* A step of the composition is a step, or none, of each part.
LEMMA EachSteps ==
    [EachNext]_allVars => /\ [Local!Next]_file /\ [Remote!Next]_copy /\ [Device!CrashNext]_device
                          /\ part' = part /\ (part # "crashing" => [Device!Next]_device)
BY DEF EachNext, allVars, Device!CrashNext

LEMMA StorageStep == StorageInv /\ [EachNext]_allVars => StorageInv'
BY EachSteps, LocalStep, RemoteStep, DeviceStep, NoneOrphanedStep DEF StorageInv

LEMMA StorageHolds == EachSpec => []StorageInv
BY StorageStart, StorageStep, PTL DEF EachSpec

\* Whatever fails, is repeated or is killed, no half of an object is found under a
\* key, at a destination or in a temporary file, and no object turns into another,
\* for every number of uploads, downloads, removals, pieces and kills, and whether
\* the store checks the body or not (LocalStorage, S3Storage, VercelBlobStorage).
THEOREM ObjectsStayWhole == EachSpec => ObjectsAreWhole
<1> DEFINE AtRest == Local!TypeOK /\ Local!NoPartialAtRest
           Delivered == Remote!TypeOK /\ Remote!DestinationIsWhole /\ Remote!NoTempLeft
           FileKept == path # none => path' \in {path, none}
           CopyKept == version # none => version' \in {version, none}
<1>1. StorageInv => AtRest /\ Delivered
  BY DEF StorageInv, LocalInv, RemoteInv, Local!NoPartialAtRest
<1>2. [EachNext]_allVars => [FileKept]_(Local!vars) /\ [CopyKept]_(Remote!vars)
  <2> SUFFICES ASSUME [EachNext]_allVars PROVE [FileKept]_(Local!vars) /\ [CopyKept]_(Remote!vars)
    OBVIOUS
  <2>1. FileKept /\ CopyKept
    BY EachSteps, FileStays, CopyStays
  <2> QED BY <2>1
<1>3. EachSpec => []AtRest /\ []Delivered /\ [][FileKept]_(Local!vars) /\ [][CopyKept]_(Remote!vars)
  <2> HIDE DEF AtRest, Delivered, FileKept, CopyKept
  <2> QED BY <1>1, <1>2, StorageHolds, PTL DEF EachSpec
<1> QED BY <1>3 DEF ObjectsAreWhole, Local!NeverReplaced, Remote!NeverReplaced

\* However many requests of however many device imports overlap, a completed import
\* is one whose upload was admitted to validation, though the server goes down, one
\* that ended stays so, and a cancelled or failed one holds no upload once its
\* requests are over (the safety half of DeviceImportsSettle, device_imports.py).
THEOREM DeviceImportsAreConsistent ==
    EachSpec => /\ [](Device!TypeOK /\ Device!CompletedIsAdmitted)
                /\ [](part # "crashing" => Device!CancelledHoldsNothing)
                /\ Device!EndedStaysEnded
<1> DEFINE Checks == Device!TypeOK /\ Device!CompletedIsAdmitted
           GivenBack == part # "crashing" => Device!CancelledHoldsNothing
           Stays == \A t \in Device!Tasks : task[t] \in Device!Ended => task'[t] \in Device!Ended
<1>1. StorageInv => Checks /\ GivenBack
  BY DeviceReads DEF StorageInv
<1>2. StorageInv /\ [EachNext]_allVars => [Stays]_(Device!vars)
  BY EachSteps, EndedStays DEF StorageInv
<1>3. EachSpec => []Checks /\ []GivenBack /\ [][Stays]_(Device!vars)
  <2> HIDE DEF Checks, GivenBack, Stays
  <2> QED BY <1>1, <1>2, StorageHolds, PTL DEF EachSpec
<1> QED BY <1>3 DEF Device!EndedStaysEnded
=============================================================================
