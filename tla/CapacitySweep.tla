---------------------------- MODULE CapacitySweep ----------------------------
(***************************************************************************)
(* Repository._capacity: the sweep that admits a reservation, and its use    *)
(* by create_jobs_batch, which runs it once per job inside one transaction.  *)
(* JobRepository states the verdict as a bound at every instant              *)
(* (CapacityFor); here the code's loop over interval ends is shown to give   *)
(* that verdict.                                                             *)
(***************************************************************************)
EXTENDS Integers, FiniteSets

CONSTANTS Rows,         \* stored jobs
          Others,       \* tenants other than the one that asks
          MaxTime, MaxBatch, GlobalConcurrency, TenantConcurrency

VARIABLES
    stored,     \* stored[r]: tenant, scheduled and reserved_until of a row
    window,     \* the request: start, end
    batch,      \* jobs the request asks for
    admitted,   \* of these, inserted so far: each one is a row for the next
    scope,      \* the pass of the loop: "all" rows, or those of the "caller"
    points,     \* points the current pass has not reached
    count,
    verdict

vars == <<stored, window, batch, admitted, scope, points, count, verdict>>

Parameters ==
    /\ IsFiniteSet(Rows) /\ Rows \subseteq Nat \ {0}
    /\ {MaxTime, MaxBatch, GlobalConcurrency, TenantConcurrency} \subseteq Nat

Intervals == {w \in [from : 0..MaxTime, to : 0..MaxTime] : w.from < w.to}
Reservations == {[tenant |-> tn, from |-> w.from, to |-> w.to] : tn \in Others \cup {"caller"}, w \in Intervals}

MinOf(a, b) == IF a <= b THEN a ELSE b
MaxOf(a, b) == IF a >= b THEN a ELSE b

----------------------------------------------------------------------------
(* The reference: how many reservations cover an instant.                    *)

CoveringAt(t) == {r \in Rows : stored[r].from <= t /\ t < stored[r].to}
OwnAt(t) == {r \in CoveringAt(t) : stored[r].tenant = "caller"}
Fits(n) ==
    \A t \in window.from..(window.to - 1) :
        /\ Cardinality(CoveringAt(t)) + n <= GlobalConcurrency
        /\ Cardinality(OwnAt(t)) + n <= TenantConcurrency

\* Rows were themselves admitted: they respect the caps.
AdmittedBefore ==
    \A t \in 0..MaxTime :
        /\ Cardinality(CoveringAt(t)) <= GlobalConcurrency
        /\ \A tn \in Others \cup {"caller"} :
              Cardinality({r \in CoveringAt(t) : stored[r].tenant = tn}) <= TenantConcurrency

----------------------------------------------------------------------------
(* The sweep.                                                                *)

\* The query keeps the rows that meet the window.
Meeting == {r \in Rows : stored[r].from < window.to /\ stored[r].to > window.from}

\* A release at t comes before an admission at t.
PointBeforeMutant(a, b) ==
    a.at < b.at \/ (a.at = b.at /\ a.delta > b.delta) \/ (a.at = b.at /\ a.delta = b.delta /\ a.id < b.id)
PointBefore(a, b) ==
    a.at < b.at \/ (a.at = b.at /\ a.delta < b.delta) \/ (a.at = b.at /\ a.delta = b.delta /\ a.id < b.id)

\* Both ends of [from, to) clipped to the window; "id" keeps equal points apart.
Ends(from, to, id) ==
    {[at |-> MaxOf(window.from, from), delta |-> 1, id |-> id],
     [at |-> MinOf(window.to, to), delta |-> -1, id |-> id]}

\* The request itself, its siblings inserted before it, and the stored rows.
PointsOf(pass, siblings) ==
    LET rows == {r \in Meeting : pass = "all" \/ stored[r].tenant = "caller"}
        own == UNION {Ends(window.from, window.to, -i) : i \in 0..siblings}
    IN  own \cup UNION {Ends(stored[r].from, stored[r].to, r) : r \in rows}
First == CHOOSE p \in points : \A q \in points \ {p} : PointBefore(p, q)

Cap(pass) == IF pass = "all" THEN GlobalConcurrency ELSE TenantConcurrency

Init ==
    /\ stored \in [Rows -> Reservations]
    /\ AdmittedBefore
    /\ window \in Intervals
    /\ batch \in 1..MaxBatch
    /\ admitted = 0
    /\ scope = "all"
    /\ points = PointsOf("all", 0)
    /\ count = 0
    /\ verdict = "open"

\* One iteration of the inner loop: raises as soon as the cap is passed.
Visit ==
    /\ verdict = "open" /\ points # {}
    /\ count' = count + First.delta
    /\ points' = points \ {First}
    /\ verdict' = IF count' > Cap(scope) THEN "refused" ELSE "open"
    /\ UNCHANGED <<stored, window, batch, admitted, scope>>

\* The second pass counts the caller's rows only.
OwnPass ==
    /\ verdict = "open" /\ points = {} /\ scope = "all"
    /\ scope' = "caller"
    /\ points' = PointsOf("caller", admitted)
    /\ count' = 0
    /\ UNCHANGED <<stored, window, batch, admitted, verdict>>

\* Both passes ended: the job is inserted, and the batch goes on or is done.
Insert ==
    /\ verdict = "open" /\ points = {} /\ scope = "caller"
    /\ admitted' = admitted + 1
    /\ IF admitted' = batch
       THEN verdict' = "admitted" /\ UNCHANGED <<scope, points, count>>
       ELSE /\ scope' = "all" /\ points' = PointsOf("all", admitted') /\ count' = 0
            /\ UNCHANGED verdict
    /\ UNCHANGED <<stored, window, batch>>

Next == Visit \/ OwnPass \/ Insert
Spec == Init /\ [][Next]_vars

----------------------------------------------------------------------------

\* The loop admits a request exactly when every instant of its window has room
\* for all its jobs under both caps, whatever ends coincide.
SweepIsExact ==
    /\ verdict = "admitted" => Fits(batch)
    /\ verdict = "refused" => ~Fits(batch)
=============================================================================
