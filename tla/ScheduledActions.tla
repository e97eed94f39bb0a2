-------------------------- MODULE ScheduledActions --------------------------
(***************************************************************************)
(* The table scheduled_actions and the statements the program runs on it.  *)
(*                                                                         *)
(* A table is a function from row ids to rows.  SQLite hands out ids in    *)
(* increasing order and the code only ever compares the ids of one media   *)
(* item (ORDER BY id DESC, or the order of the index on media_item_id), so *)
(* an id is a pair <<item, n>>: the n-th row inserted for that item.       *)
(* delete_status is 'pending' where the column is NULL, because every      *)
(* statement treats the two alike.                                         *)
(***************************************************************************)
EXTENDS Integers

CONSTANTS Items     \* media items (Plex rating keys)

NoTime == -1        \* execute_at IS NULL

Actions  == {"scheduled_deletion", "snoozed", "protected_forever"}
Statuses == {"pending", "deleting"}
Ids      == Items \X (Nat \ {0})
Row      == [action : Actions, at : Int, used : BOOLEAN, status : Statuses]

ItemOf(id) == id[1]

-----------------------------------------------------------------------------
(* Predicates of the WHERE clauses. *)

Protects(r, t) ==
    \/ r.action = "protected_forever"
    \/ r.action = "snoozed" /\ r.at # NoTime /\ r.at >= t

LiveDeletion(r) == r.action = "scheduled_deletion" /\ ~r.used

\* Mutated form: the executor does not look at the deadline.
IsDueAnyTime(r, t) == r.action = "scheduled_deletion" /\ r.status = "pending"

\* Mutated form: a row due exactly now waits for the next instant.
IsDueStrict(r, t) ==
    r.action = "scheduled_deletion" /\ r.at < t /\ r.status = "pending"

IsDue(r, t) ==
    r.action = "scheduled_deletion" /\ r.at <= t /\ r.status = "pending"

\* Mutated form: the sweep takes snoozes that still run.
SweepableAnyTime(r, t) == r.action = "snoozed" /\ ~r.used

\* Mutated form: the sweep takes the email snoozes instead of the admin's.
SweepableUsed(r, t) == r.action = "snoozed" /\ r.used /\ r.at < t

Sweepable(r, t) == r.action = "snoozed" /\ ~r.used /\ r.at < t

\* The WHERE clause of the guarded UPDATE behind an emailed keep link.
KeepableByLink(r, t) ==
    r.action = "scheduled_deletion" /\ r.status = "pending" /\ ~r.used /\ r.at >= t

-----------------------------------------------------------------------------
(* Queries. *)

ItemsOf(S) == {ItemOf(k) : k \in S}

ProtectedItems(rows, t) ==
    ItemsOf({k \in DOMAIN rows : Protects(rows[k], t)})

ScheduledItems(rows) ==
    ItemsOf({k \in DOMAIN rows : LiveDeletion(rows[k])})

\* The keys of the partial UNIQUE index on active deletions.
IndexedItems(rows) ==
    ItemsOf({k \in DOMAIN rows : LiveDeletion(rows[k]) /\ rows[k].status = "pending"})

Due(rows, t) == {k \in DOMAIN rows : IsDue(rows[k], t)}

Stuck(rows) == {k \in DOMAIN rows : rows[k].status = "deleting"}

OpenRowsOf(rows, i) == {k \in DOMAIN rows : ItemOf(k) = i /\ ~rows[k].used}

ProtectionRowsOf(rows, i) ==
    {k \in DOMAIN rows : /\ ItemOf(k) = i
                         /\ rows[k].action \in {"snoozed", "protected_forever"}}

IsOldest(k, S) == k \in S /\ \A m \in S : k[2] <= m[2]
IsNewest(k, S) == k \in S /\ \A m \in S : k[2] >= m[2]

-----------------------------------------------------------------------------
(* Updates. *)

Without(rows, S) == [k \in DOMAIN rows \ S |-> rows[k]]

\* UPDATE ... WHERE id = ?: a row that is gone is not an error.
Mark(rows, id, s) ==
    [k \in DOMAIN rows |-> IF k = id THEN [rows[k] EXCEPT !.status = s] ELSE rows[k]]

MarkAll(rows, S, s) ==
    [k \in DOMAIN rows |-> IF k \in S THEN [rows[k] EXCEPT !.status = s] ELSE rows[k]]

\* INSERT of one row with the same values for each id of S.
InsertAll(rows, S, r) ==
    [k \in DOMAIN rows \union S |-> IF k \in S THEN r ELSE rows[k]]

\* UPDATE ... SET action, execute_at WHERE id IN S; the other columns stay.
Reassign(rows, S, action, at) ==
    [k \in DOMAIN rows |->
        IF k \in S THEN [rows[k] EXCEPT !.action = action, !.at = at] ELSE rows[k]]
=============================================================================
