----------------------------- MODULE WriteAhead -----------------------------
(***************************************************************************)
(* What a record kept ahead of an irrevocable step promises: the step is   *)
(* taken for an item only while the record names it, and the record lets   *)
(* go of an item only when nothing is owed for it.                         *)
(***************************************************************************)
CONSTANT Items

VARIABLES
    promised,   \* items on record
    owed        \* items for which the step was taken and not yet made good

vars == <<promised, owed>>

Init == promised = {} /\ owed = {}

Promise(i) ==
    /\ promised' = promised \union {i}
    /\ UNCHANGED owed

Act(i) ==
    /\ i \in promised
    /\ owed' = owed \union {i}
    /\ UNCHANGED promised

MakeGood ==
    /\ owed' \subseteq owed
    /\ UNCHANGED promised

Release(i) ==
    /\ i \notin owed
    /\ promised' = promised \ {i}
    /\ UNCHANGED owed

Next == MakeGood \/ \E i \in Items : Promise(i) \/ Act(i) \/ Release(i)

Spec == Init /\ [][Next]_vars
=============================================================================
