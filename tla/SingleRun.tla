------------------------------ MODULE SingleRun ------------------------------
(***************************************************************************)
(* What a table of job runs promises: runs are numbered, each is carried   *)
(* out once, and a run begins only when no other is in progress.           *)
(***************************************************************************)
CONSTANT Runs

VARIABLES
    begun,      \* runs that have begun
    running     \* runs in progress

vars == <<begun, running>>

Init == begun = {} /\ running = {}

Begin(r) ==
    /\ running = {} /\ r \notin begun
    /\ begun' = begun \union {r}
    /\ running' \in {{r}, {}}       \* it may fail at once

End ==
    /\ running # {}
    /\ running' = {}
    /\ UNCHANGED begun

Next == End \/ \E r \in Runs : Begin(r)

Spec == Init /\ [][Next]_vars
=============================================================================
