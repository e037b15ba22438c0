------------------------------ MODULE StreamSlot ------------------------------
(***************************************************************************)
(* What the leases of a tenant with one slot promise: its runs go on air   *)
(* one at a time, each at most once, and a run that left the air never     *)
(* comes back.                                                             *)
(***************************************************************************)
CONSTANTS Runs, Nobody

VARIABLES
    onAir,      \* the run that may publish, or Nobody
    aired       \* the runs that have been on air

Init == onAir = Nobody /\ aired = {}

GoOnAir(r) ==
    /\ onAir = Nobody /\ r \notin aired
    /\ onAir' = r
    /\ aired' = aired \cup {r}

LeaveAir ==
    /\ onAir # Nobody
    /\ onAir' = Nobody
    /\ UNCHANGED aired

Next == LeaveAir \/ \E r \in Runs : GoOnAir(r)

Spec == Init /\ [][Next]_<<onAir, aired>>
===============================================================================
