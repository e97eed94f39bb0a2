------------------------- MODULE MediaLifecycleProofs -------------------------
(***************************************************************************)
(* The safety of the item lifecycle for every set of items and workers,    *)
(* every grace period and every choice of snoozes of two ticks or more.    *)
(***************************************************************************)
EXTENDS MediaLifecycle, TLAPS

-----------------------------------------------------------------------------
(* What the statements on scheduled_actions do to a table. *)

Table(tab) == DOMAIN tab \subseteq Ids /\ \A k \in DOMAIN tab : tab[k] \in Row

\* Every row of `new` is in `old`, with the same columns but delete_status.
Shrunk(old, new) ==
    /\ DOMAIN new \subseteq DOMAIN old
    /\ \A k \in DOMAIN new : /\ new[k].action = old[k].action
                             /\ new[k].at = old[k].at
                             /\ new[k].used = old[k].used

-----------------------------------------------------------------------------
(* Types. *)

\* A table without some of its rows is a table (any DELETE).
LEMMA WithoutTable ==
    ASSUME NEW tab, NEW S, Table(tab)
    PROVE  Table(Without(tab, S))
BY DEF Table, Without

\* A table with the status of a row changed is a table (mark_delete_status).
LEMMA MarkTable ==
    ASSUME NEW tab, NEW id, NEW s \in Statuses, Table(tab)
    PROVE  Table(Mark(tab, id, s))
BY DEF Table, Mark, Row

\* The same, for a set of rows (recover_stuck_deletions).
LEMMA MarkAllTable ==
    ASSUME NEW tab, NEW S, NEW s \in Statuses, Table(tab)
    PROVE  Table(MarkAll(tab, S, s))
BY DEF Table, MarkAll, Row

\* Inserting rows keeps a table a table (schedule_deletion and the keeps).
LEMMA InsertAllTable ==
    ASSUME NEW tab, NEW S \in SUBSET Ids, NEW r \in Row, Table(tab)
    PROVE  Table(InsertAll(tab, S, r))
BY DEF Table, InsertAll

\* So does rewriting the action and deadline of some rows (the admin's keeps).
LEMMA ReassignTable ==
    ASSUME NEW tab, NEW S, NEW a \in Actions, NEW t \in Int, Table(tab)
    PROVE  Table(Reassign(tab, S, a, t))
BY DEF Table, Reassign, Row

-----------------------------------------------------------------------------
(* Statements that only drop tab or move them between statuses. *)

\* A DELETE shrinks the table.
LEMMA WithoutShrinks ==
    ASSUME NEW tab, NEW S
    PROVE  Shrunk(tab, Without(tab, S))
BY DEF Shrunk, Without

\* mark_delete_status leaves the action, the deadline and the spent flag alone.
LEMMA MarkShrinks ==
    ASSUME NEW tab, NEW id, NEW s, Table(tab)
    PROVE  Shrunk(tab, Mark(tab, id, s))
BY DEF Shrunk, Mark, Table, Row

\* So does the recovery, which drops some stuck rows and resets the others.
LEMMA MarkAllShrinks ==
    ASSUME NEW tab, NEW S, NEW s, Table(tab)
    PROVE  Shrunk(tab, MarkAll(tab, S, s))
BY DEF Shrunk, MarkAll, Table, Row

\* Shrinking twice is shrinking.
LEMMA ShrunkTrans ==
    ASSUME NEW a, NEW b, NEW c, Shrunk(a, b), Shrunk(b, c)
    PROVE  Shrunk(a, c)
BY DEF Shrunk

-----------------------------------------------------------------------------
(* The item lifecycle. *)

\* The executor has a row in hand, and the scan a library, wherever it uses one.
TypeInv ==
    /\ TypeOK
    /\ pc \in {"remove", "commit"} => cur \in Ids
    /\ pc \in {"guard", "write"} => lib \in Libraries

-----------------------------------------------------------------------------
(* Types of the building blocks. *)

\* An id is a pair of an item and a row number.
LEMMA IdParts ==
    ASSUME NEW k \in Ids
    PROVE  ItemOf(k) \in Items /\ k[1] = ItemOf(k) /\ k[2] \in Nat \ {0} /\ k = <<ItemOf(k), k[2]>>
BY DEF Ids, ItemOf

\* The ids an INSERT takes are ids, and the counters stay counters.
LEMMA IssueType ==
    ASSUME issued \in [Items -> Nat], NEW S \in SUBSET Items
    PROVE  Fresh(S) \subseteq Ids /\ Issue(S) \in [Items -> Nat]
BY DEF Fresh, Issue, Ids

\* Every library is one of the two, and its items are items.
LEMMA LibraryType ==
    /\ \A l \in {"movies", "shows"} : Library(l) \subseteq Items
    /\ Libraries \subseteq {"movies", "shows"}
BY ItemsAssumption DEF Library, Libraries

\* A keep has an action and a deadline of the right kind.
LEMMA KeepType ==
    ASSUME NEW d \in Keeps, NEW t \in Nat
    PROVE  /\ KeepKind(d) \in {"snoozed", "protected_forever"}
           /\ KeepUntil(d, t) \in Int
           /\ Kept(d, t) \in Row
           /\ Scheduled(t) \in Row
           /\ t + d \in Nat
BY TimesAssumption DEF KeepKind, KeepUntil, Kept, Scheduled, Keeps, Forever, NoTime, Row, Actions, Statuses

\* The end of a scan resets the scanner's locals to values of their types.
LEMMA ScanOverType ==
    ASSUME NEW step \in {"idle", "down"}, ScanOver(step)
    PROVE  /\ pc' \in ScanSteps /\ dry' \in BOOLEAN
           /\ todoLibs' \subseteq Libraries /\ doneLibs' \subseteq Libraries
           /\ lib' \in {"movies", "shows"}
           /\ fetched' \subseteq Items /\ seen' \subseteq Items /\ guarded' \subseteq Items
           /\ clock' \in Nat /\ work' \subseteq Ids /\ cur' \in Ids \union {NoId}
           /\ pc' \notin {"guard", "write", "remove", "commit"}
BY DEF ScanOver, ScanSteps

\* The recovery leaves a table and well-typed audit state.
LEMMA RecoverType ==
    ASSUME Table(rows), credited \subseteq Ids, owed \subseteq Ids, RecoverStuck
    PROVE  Table(rows') /\ Shrunk(rows, rows') /\ credited' \subseteq Ids /\ owed' \subseteq Ids
<1> DEFINE gone == {k \in Stuck(rows) : ItemOf(k) \in Inside \ disk}
           left == Without(rows, gone)
<1>1. Table(left) /\ Shrunk(rows, left)
  BY WithoutTable, WithoutShrinks
<1>2. Table(MarkAll(left, Stuck(rows) \ gone, "pending"))
  <2> HIDE DEF left
  <2>1. "pending" \in Statuses BY DEF Statuses
  <2> QED BY <1>1, <2>1, MarkAllTable
<1>3. Shrunk(left, MarkAll(left, Stuck(rows) \ gone, "pending"))
  <2> HIDE DEF left
  <2> QED BY <1>1, MarkAllShrinks
<1>4. rows' = MarkAll(left, Stuck(rows) \ gone, "pending")
      /\ credited' = credited \union gone /\ owed' = owed \ gone
  BY DEF RecoverStuck
<1>5. Shrunk(rows, rows')
  <2> HIDE DEF left, gone
  <2> QED BY <1>1, <1>3, <1>4, ShrunkTrans
<1>6. gone \subseteq Ids
  BY DEF Table, Stuck
<1> QED
  <2> HIDE DEF left, gone
  <2> QED BY <1>2, <1>4, <1>5, <1>6

-----------------------------------------------------------------------------
(* Type correctness. *)

\* The program starts with tables of the right type.
LEMMA TypeInit == Init => TypeInv
<1>1. Inside \union Outside \subseteq Items
  BY ItemsAssumption
<1>2. NotKept \in [action : {"none", "snoozed", "protected_forever"}, at : Int]
  BY DEF NotKept, NoTime
<1>3. [w \in Workers |-> NoRequest] \in [Workers -> Request]
  BY DEF Request
<1> QED
  <2> SUFFICES ASSUME Init PROVE TypeInv
    OBVIOUS
  <2>1. issued \in [Items -> Nat] /\ DOMAIN rows = {}
    BY DEF Init
  <2>2. req \in [Workers -> Request]
    BY <1>3 DEF Init
  <2> QED
    BY <1>1, <1>2, <2>1, <2>2 DEF Init, TypeInv, TypeOK, NoId, ScanSteps

\* The fields of the requests in progress.
LEMMA RequestType ==
    ASSUME req \in [Workers -> Request], NEW w \in Workers
    PROVE  /\ Busy(w, "link") => req[w].id \in Ids /\ req[w].keep \in Keeps /\ req[w].t \in Nat
           /\ Busy(w, "show") => /\ req[w].updates \subseteq Ids /\ req[w].inserts \subseteq Seasons
                                 /\ req[w].keep \in Keeps /\ req[w].t \in Nat
           /\ req[w] # NoRequest => req[w].t \in Nat
<1>1. req[w] \in Request
  OBVIOUS
<1> QED
  BY <1>1 DEF Request, NoRequest, LinkRequest, ShowRequest, UnprotectRequest, Busy

\* A library's transaction leaves tables behind, and the scan where it was.
LEMMA WriteLibraryType ==
    ASSUME TypeOK, lib \in Libraries, NEW skip, WriteLibrary(skip)
    PROVE  /\ media' \subseteq Items /\ Table(rows') /\ issued' \in [Items -> Nat]
           /\ todoLibs' \subseteq Libraries
           /\ doneLibs' \subseteq Libraries
           /\ lib' \in {"movies", "shows"} /\ fetched' \subseteq Items /\ guarded' \subseteq Items
           /\ pc' = "scan"
<1>1. PICK condemned \in SUBSET (IF dry THEN {} ELSE Schedulable(skip)) :
          /\ rows' = InsertAll(rows, Fresh(condemned), Scheduled(now))
          /\ issued' = Issue(condemned)
  BY DEF WriteLibrary
<1>2. condemned \subseteq Items
  BY DEF Schedulable, TypeOK
<1>3. Fresh(condemned) \subseteq Ids /\ issued' \in [Items -> Nat]
  BY <1>1, <1>2, IssueType DEF TypeOK
<1>4. Scheduled(now) \in Row
  BY TimesAssumption DEF Scheduled, Row, Actions, Statuses, TypeOK
<1>5. Table(rows')
  BY <1>1, <1>3, <1>4, InsertAllTable DEF Table, TypeOK
<1> QED
  BY <1>3, <1>5 DEF WriteLibrary, TypeOK

\* A guard set is a set of items.
LEMMA GuardsType ==
    ASSUME Table(rows), NEW t
    PROVE  GuardedItems(t) \subseteq Items
BY IdParts DEF GuardedItems, ProtectedItems, ScheduledItems, ItemsOf, Table

\* Every step of the scan keeps the types.
LEMMA ScanType ==
    ASSUME TypeInv, Scan
    PROVE  TypeInv'
<1> USE DEF TypeInv, ScanSteps, tableVars, execVars, syncVars, auditVars, envVars
<1>0. Table(rows)
  BY DEF TypeOK, Table
<1>1. CASE BeginScan
  BY <1>1, SettingsAssumption DEF BeginScan, TypeOK
<1>2. CASE ReadGuards
  <2>1. guarded' \subseteq Items
    BY <1>0, <1>2, GuardsType DEF ReadGuards
  <2> QED
    BY <1>2, <2>1 DEF ReadGuards, TypeOK
<1>3. CASE WriteMovies
  <2>1. WriteLibrary(guarded)
    BY <1>3 DEF WriteMovies
  <2> QED
    BY <1>3, <2>1, WriteLibraryType DEF WriteMovies, TypeOK, Table
<1>4. CASE WriteSeasons
  <2>1. PICK skip : WriteLibrary(skip)
    BY <1>4 DEF WriteSeasons
  <2>2. kept' \in [action : {"none", "snoozed", "protected_forever"}, at : Int]
    BY <1>4 DEF WriteSeasons, SweptShow, NotKept, NoTime, TypeOK
  <2> QED
    BY <1>4, <2>1, <2>2, WriteLibraryType DEF WriteSeasons, TypeOK, Table
<1>5. CASE EndPasses
  BY <1>5 DEF EndPasses, AfterPasses, TypeOK
<1>6. ASSUME NEW l \in Libraries, FetchLibrary(l) PROVE TypeInv'
  BY <1>6, LibraryType DEF FetchLibrary, TypeOK
<1>7. ASSUME NEW l \in Libraries, PruneLibrary(l) PROVE TypeInv'
  <2>1. PICK orphans : rows' = RowsWithout(orphans) /\ media' = media \ orphans
    BY <1>7 DEF PruneLibrary
  <2>2. Table(rows')
    BY <1>0, <2>1, WithoutTable DEF RowsWithout
  <2> QED
    BY <1>7, <2>1, <2>2 DEF PruneLibrary, TypeOK, Table
<1> QED
  BY <1>1, <1>2, <1>3, <1>4, <1>5, <1>6, <1>7 DEF Scan

\* Every step of the executor keeps the types.
LEMMA ExecuteType ==
    ASSUME TypeInv, Execute
    PROVE  TypeInv'
<1> USE DEF TypeInv, ScanSteps, tableVars, scanVars, execVars, syncVars, auditVars, envVars
<1>0. Table(rows) /\ "pending" \in Statuses /\ "deleting" \in Statuses
  BY DEF TypeOK, Table, Statuses
<1>1. CASE Recover
  <2>1. Table(rows') /\ credited' \subseteq Ids /\ owed' \subseteq Ids
    BY <1>0, <1>1, RecoverType DEF Recover, TypeOK
  <2> QED
    BY <1>1, <2>1 DEF Recover, TypeOK, Table
<1>2. CASE Collect
  <2>1. CASE ScanOver("idle")
    BY <1>2, <2>1, ScanOverType DEF Collect, TypeOK
  <2>2. CASE ~ScanOver("idle")
    BY <1>2, <2>2 DEF Collect, TypeOK, Due
  <2> QED
    BY <2>1, <2>2
<1>3. CASE RefuseRemoval
  <2>1. Table(rows')
    BY <1>0, <1>3, MarkTable DEF RefuseRemoval
  <2> QED
    BY <1>3, <2>1 DEF RefuseRemoval, TypeOK, Table
<1>4. CASE RemoveFile
  BY <1>4 DEF RemoveFile, TypeOK
<1>5. CASE CommitDeletion
  <2>1. Table(rows')
    BY <1>0, <1>5, WithoutTable DEF CommitDeletion
  <2> QED
    BY <1>5, <2>1 DEF CommitDeletion, TypeOK, Table
<1>6. CASE FinishScan
  <2>1. Table(rows') /\ ScanOver("idle")
    BY <1>0, <1>6, WithoutTable DEF FinishScan
  <2> QED
    BY <1>6, <2>1, ScanOverType DEF FinishScan, TypeOK, Table
<1>7. ASSUME NEW k \in work, ParkPathless(k) PROVE TypeInv'
  <2>1. Table(rows')
    BY <1>0, <1>7, WithoutTable DEF ParkPathless
  <2> QED
    BY <1>7, <2>1 DEF ParkPathless, TypeOK, Table
<1>8. ASSUME NEW k \in work, MarkDeleting(k) PROVE TypeInv'
  <2>1. Table(rows')
    BY <1>0, <1>8, MarkTable DEF MarkDeleting
  <2> QED
    BY <1>8, <2>1 DEF MarkDeleting, TypeOK, Table
<1> QED
  BY <1>1, <1>2, <1>3, <1>4, <1>5, <1>6, <1>7, <1>8 DEF Execute

\* A crash, the restart and every failed call keep the types.
LEMMA FailureType ==
    ASSUME TypeInv, Failure
    PROVE  TypeInv'
<1> USE DEF TypeInv, ScanSteps, Fault, tableVars, scanVars, execVars, syncVars, auditVars, envVars
<1>1. CASE AbortScan
  BY <1>1, ScanOverType DEF AbortScan, TypeOK
<1>2. CASE FailRemoval
  BY <1>2 DEF FailRemoval, TypeOK
<1>3. CASE Crash
  <2>1. req' \in [Workers -> Request]
    BY <1>3 DEF Crash, Request
  <2> QED
    BY <1>3, <2>1, ScanOverType DEF Crash, TypeOK
<1>4. CASE Boot
  <2>1. Table(rows') /\ credited' \subseteq Ids /\ owed' \subseteq Ids
    BY <1>4, RecoverType DEF Boot, TypeOK, Table
  <2> QED
    BY <1>4, <2>1 DEF Boot, TypeOK, Table
<1> QED
  BY <1>1, <1>2, <1>3, <1>4 DEF Failure

\* The library sync and the world around the program keep the types.
LEMMA SyncType ==
    ASSUME TypeInv, Sync \/ Environment
    PROVE  TypeInv'
<1> USE DEF TypeInv, Fault, tableVars, scanVars, execVars, syncVars, auditVars, envVars
<1>1. ASSUME NEW libs \in SUBSET Libraries, SyncFetch(libs) PROVE TypeInv'
  BY <1>1 DEF SyncFetch, TypeOK
<1>2. ASSUME NEW l \in Libraries, SyncWrite(l) PROVE TypeInv'
  <2>1. PICK orphans \in {{}, Orphans(l, syncSeen)},
                upserted \in SUBSET (syncSeen \intersect Library(l)) :
           /\ rows' = RowsWithout(orphans)
           /\ media' = (media \ orphans) \union upserted
    BY <1>2 DEF SyncWrite
  <2>2. Table(rows')
    BY <2>1, WithoutTable DEF RowsWithout, Table, TypeOK
  <2> QED
    BY <1>2, <2>1, <2>2 DEF SyncWrite, TypeOK, Table
<1>3. CASE Tick
  BY <1>3 DEF Tick, TypeOK
<1>4. CASE PlexRefresh
  BY <1>4 DEF PlexRefresh, TypeOK
<1>5. ASSUME NEW i \in Items, PlexGlitch(i) \/ FileVanishes(i) PROVE TypeInv'
  BY <1>5 DEF PlexGlitch, FileVanishes, TypeOK
<1> QED
  BY <1>1, <1>2, <1>3, <1>4, <1>5 DEF Sync, Environment

\* A keep made by a link is a row.
LEMMA LinkKeepType ==
    ASSUME NEW d \in Keeps, NEW r \in Row, NEW t \in Nat
    PROVE  /\ LinkKeep(d, r, t) \in Row
           /\ LinkKeep(d, r, t).action = KeepKind(d)
           /\ LinkKeep(d, r, t).used = TRUE
           /\ LinkKeep(d, r, t).at = IF d = Forever THEN r.at ELSE t + d
           /\ LinkKeep(d, r, t).status = r.status
<1>1. KeepKind(d) \in Actions /\ t + d \in Int
  BY KeepType DEF Actions
<1> QED
  BY <1>1 DEF LinkKeep, Row

\* Every web handler keeps the types.
LEMMA WebType ==
    ASSUME TypeInv, Web
    PROVE  TypeInv'
<1> USE DEF TypeInv, webUnchanged, scanVars, execVars, syncVars, auditVars, envVars, tableVars
<1>0. Table(rows)
  BY DEF TypeOK, Table
<1>1. ASSUME NEW w \in Workers, Done(w) \/ \E r \in Request : Begin(w, r)
      PROVE  req' \in [Workers -> Request]
  BY <1>1 DEF Done, Begin, Request, TypeOK
<1>2. ASSUME NEW i \in Items, NEW d \in Keeps, AdminKeep(i, d) PROVE TypeInv'
  <2> DEFINE update(k) == rows' = Reassign(rows, {k}, KeepKind(d), KeepUntil(d, now))
  <2>1. \/ /\ \E k \in DOMAIN rows : update(k)
           /\ UNCHANGED issued
        \/ /\ rows' = InsertAll(rows, Fresh({i}), Kept(d, now))
           /\ issued' = Issue({i})
    BY <1>2 DEF AdminKeep
  <2>2. KeepKind(d) \in Actions /\ KeepUntil(d, now) \in Int /\ Kept(d, now) \in Row
    BY KeepType DEF Actions, TypeOK
  <2>3. Fresh({i}) \subseteq Ids /\ Issue({i}) \in [Items -> Nat]
    BY IssueType DEF TypeOK
  <2>4. Table(rows') /\ issued' \in [Items -> Nat]
    <3>1. ASSUME NEW k \in DOMAIN rows, update(k) PROVE Table(rows')
      <4>1. Table(Reassign(rows, {k}, KeepKind(d), KeepUntil(d, now)))
        BY <1>0, <2>2, ReassignTable
      <4> QED
        BY <3>1, <4>1
    <3>2. Table(InsertAll(rows, Fresh({i}), Kept(d, now)))
      BY <1>0, <2>2, <2>3, InsertAllTable
    <3> HIDE DEF update
    <3> QED
      BY <2>1, <2>3, <3>1, <3>2 DEF TypeOK
  <2> QED
    BY <1>2, <2>4 DEF AdminKeep, TypeOK, Table
<1>3. CASE RemoveShowKeep
  BY <1>3 DEF RemoveShowKeep, NotKept, NoTime, TypeOK
<1>4. CASE ClearPending
  <2>1. Table(rows')
    BY <1>0, <1>4, WithoutTable DEF ClearPending
  <2> QED
    BY <1>4, <2>1 DEF ClearPending, TypeOK, Table
<1>5. ASSUME NEW w \in Workers, LinkApply(w) PROVE TypeInv'
  <2>1. req[w].id \in Ids /\ req[w].keep \in Keeps /\ req[w].t \in Nat
    BY <1>5, RequestType DEF LinkApply, TypeOK
  <2>2. rows[req[w].id] \in Row \/ req[w].id \notin DOMAIN rows
    BY <1>0 DEF Table
  <2>3. Table(rows')
    <3>1. CASE rows' = rows
      BY <1>0, <3>1
    <3>2. CASE /\ req[w].id \in DOMAIN rows
               /\ rows' = [rows EXCEPT ![req[w].id] = LinkKeep(req[w].keep, rows[req[w].id], req[w].t)]
      <4>1. LinkKeep(req[w].keep, rows[req[w].id], req[w].t) \in Row
        BY <2>1, <2>2, <3>2, LinkKeepType
      <4> QED
        BY <1>0, <3>2, <4>1 DEF Table
    <3> QED
      BY <1>5, <3>1, <3>2 DEF LinkApply
  <2>4. req' \in [Workers -> Request]
    BY <1>1, <1>5 DEF LinkApply
  <2> QED
    BY <1>5, <2>1, <2>3, <2>4 DEF LinkApply, TypeOK, Table
<1>6. ASSUME NEW w \in Workers, ShowWrite(w) PROVE TypeInv'
  <2> DEFINE q == req[w]
             kind == KeepKind(q.keep)
             until == KeepUntil(q.keep, q.t)
  <2>1. q.updates \subseteq Ids /\ q.inserts \subseteq Items /\ q.keep \in Keeps /\ q.t \in Nat
    BY <1>6, RequestType, ItemsAssumption DEF ShowWrite, TypeOK
  <2>2. /\ kind \in {"snoozed", "protected_forever"} /\ until \in Int
        /\ Kept(q.keep, q.t) \in Row
    BY <2>1, KeepType
  <2>3. Fresh(q.inserts) \subseteq Ids /\ Issue(q.inserts) \in [Items -> Nat]
    BY <2>1, IssueType DEF TypeOK
  <2>4. \/ UNCHANGED <<kept, rows, issued>>
        \/ /\ kept' = [action |-> kind, at |-> until]
           /\ rows' = InsertAll(Reassign(rows, q.updates, kind, until), Fresh(q.inserts), Kept(q.keep, q.t))
           /\ issued' = Issue(q.inserts)
    BY <1>6 DEF ShowWrite
  <2>5. Table(Reassign(rows, q.updates, kind, until))
    <3>1. kind \in Actions
      BY <2>2 DEF Actions
    <3> QED
      BY <1>0, <2>2, <3>1, ReassignTable
  <2>6. /\ Table(rows') /\ issued' \in [Items -> Nat]
        /\ kept' \in [action : {"none", "snoozed", "protected_forever"}, at : Int]
    <3> HIDE DEF kind, until
    <3> QED
      BY <1>0, <2>2, <2>3, <2>4, <2>5, InsertAllTable DEF TypeOK
  <2>7. req' \in [Workers -> Request]
    BY <1>1, <1>6 DEF ShowWrite
  <2> QED
    BY <1>6, <2>6, <2>7 DEF ShowWrite, TypeOK, Table
<1>7. ASSUME NEW w \in Workers, UnprotectWrite(w) PROVE TypeInv'
  <2>1. Table(rows')
    BY <1>0, <1>7, WithoutTable DEF UnprotectWrite
  <2>2. req' \in [Workers -> Request]
    BY <1>1, <1>7 DEF UnprotectWrite
  <2> QED
    BY <1>7, <2>1, <2>2 DEF UnprotectWrite, TypeOK, Table
<1>8. ASSUME NEW w \in Workers, NEW k \in DOMAIN rows, NEW d \in Keeps, LinkRead(w, k, d)
      PROVE  TypeInv'
  <2>1. [kind |-> "link", id |-> k, keep |-> d, t |-> now] \in Request
    BY <1>0 DEF Table, TypeOK, Request, LinkRequest
  <2>2. req' \in [Workers -> Request]
    BY <1>1, <1>8, <2>1 DEF LinkRead
  <2> QED
    BY <1>8, <2>2 DEF LinkRead, TypeOK
<1>9. ASSUME NEW w \in Workers, NEW S \in SUBSET Seasons, NEW d \in Keeps, ShowRead(w, S, d)
      PROVE  TypeInv'
  <2>1. PICK r \in ShowRequest : Begin(w, r)
    BY <1>0, <1>9 DEF ShowRead, ShowRequest, Table, TypeOK
  <2>2. req' \in [Workers -> Request]
    BY <1>1, <2>1 DEF Request
  <2> QED
    BY <1>9, <2>2 DEF ShowRead, TypeOK
<1>10. ASSUME NEW w \in Workers, NEW k \in DOMAIN rows, UnprotectRead(w, k) PROVE TypeInv'
  <2>1. [kind |-> "unprotect", id |-> k, t |-> now] \in Request
    BY <1>0 DEF Table, TypeOK, Request, UnprotectRequest
  <2>2. req' \in [Workers -> Request]
    BY <1>1, <1>10, <2>1 DEF UnprotectRead
  <2> QED
    BY <1>10, <2>2 DEF UnprotectRead, TypeOK
<1> QED
  BY <1>2, <1>3, <1>4, <1>5, <1>6, <1>7, <1>8, <1>9, <1>10 DEF Web

\* Every step keeps the types.
LEMMA TypeStep == TypeInv /\ [Next]_vars => TypeInv'
<1> SUFFICES ASSUME TypeInv, [Next]_vars PROVE TypeInv'
  OBVIOUS
<1>1. CASE UNCHANGED vars
  BY <1>1 DEF vars, tableVars, scanVars, execVars, syncVars, auditVars, envVars, TypeInv, TypeOK
<1> QED
  BY <1>1, ScanType, ExecuteType, SyncType, WebType, FailureType DEF Next

\* In every reachable state the tables, the threads' local variables and the
\* requests hold values of their types.
THEOREM TypeCorrect == Spec => []TypeOK
<1>1. TypeInv => TypeOK
  BY DEF TypeInv
<1> QED
  BY <1>1, TypeInit, TypeStep, PTL DEF Spec

-----------------------------------------------------------------------------
(* Safety of live deletions and of keeps made by link.                      *)
(*                                                                         *)
(* Only the scan inserts live deletions, and only for items that have none *)
(* and no link keep that runs.  Every other step is calm: it makes no      *)
(* deletion, and keeps for a link only a row that was a live deletion.     *)

LinkKept(r, t) == r.used /\ Protects(r, t)

Calm ==
    /\ \A k \in DOMAIN rows' : LiveDeletion(rows'[k]) =>
          k \in DOMAIN rows /\ LiveDeletion(rows[k]) /\ rows'[k].at = rows[k].at
    /\ \A k \in DOMAIN rows' : LinkKept(rows'[k], now) =>
          k \in DOMAIN rows /\ (LiveDeletion(rows[k]) \/ LinkKept(rows[k], now))

\* No row changes its delete_status, and the ids of new rows were free.
Quiet ==
    /\ \A k \in DOMAIN rows' \intersect DOMAIN rows : rows'[k].status = rows[k].status
    /\ \A k \in DOMAIN rows' \ DOMAIN rows : k[2] > issued[ItemOf(k)]
    /\ \A i \in Items : issued[i] <= issued'[i]

\* The guard sets in use are those in use before.
GuardsStay == pc' = "write" /\ lib' = "movies" => UNCHANGED <<pc, lib, guarded>>

\* A calm step keeps what the property is about.
LEMMA CalmStep ==
    ASSUME OneLiveDeletion, LinkKeepHolds, GuardsCover, now' = now, GuardsStay, Calm
    PROVE  OneLiveDeletion' /\ LinkKeepHolds' /\ GuardsCover'
<1>1. OneLiveDeletion'
  BY DEF OneLiveDeletion, Calm
<1>2. LinkKeepHolds'
  <2> SUFFICES ASSUME NEW k \in DOMAIN rows', NEW m \in DOMAIN rows',
                      LinkKept(rows'[k], now), LiveDeletion(rows'[m]), ItemOf(k) = ItemOf(m)
               PROVE  FALSE
    BY DEF LinkKeepHolds, LinkKept
  <2>1. m \in DOMAIN rows /\ LiveDeletion(rows[m])
    BY DEF Calm
  <2>2. k \in DOMAIN rows /\ (LiveDeletion(rows[k]) \/ LinkKept(rows[k], now))
    BY DEF Calm
  <2>3. CASE LiveDeletion(rows[k])
    <3>1. k = m
      BY <2>1, <2>2, <2>3 DEF OneLiveDeletion
    <3> QED
      BY <3>1 DEF LinkKept, LiveDeletion
  <2>4. CASE LinkKept(rows[k], now)
    BY <2>1, <2>2, <2>4 DEF LinkKept, LinkKeepHolds
  <2> QED
    BY <2>2, <2>3, <2>4
<1>3. GuardsCover'
  BY DEF GuardsCover, Calm, GuardsStay, LinkKept
<1> QED
  BY <1>1, <1>2, <1>3

\* A step that inserts no row and changes no status is quiet.
LEMMA QuietRows ==
    ASSUME TypeOK, issued' = issued, DOMAIN rows' \subseteq DOMAIN rows,
           \A k \in DOMAIN rows' : rows'[k].status = rows[k].status
    PROVE  Quiet
<1>1. \A i \in Items : issued[i] \in Nat
  BY DEF TypeOK
<1> QED
  BY <1>1 DEF Quiet

\* A step that leaves the rows alone is calm.
LEMMA SameRows ==
    ASSUME TypeOK, UNCHANGED <<rows, issued>>
    PROVE  Calm /\ Quiet
BY QuietRows DEF Calm

\* So is one that drops rows or changes their status.
LEMMA ShrunkCalm ==
    ASSUME Shrunk(rows, rows')
    PROVE  Calm
BY DEF Calm, Shrunk, LiveDeletion, LinkKept, Protects

\* Requests go on, end, or begin; a show keep begins with open rows only.
RequestsMove ==
    \A w \in Workers :
        \/ req'[w] = req[w]
        \/ req'[w] = NoRequest
        \/ /\ req'[w].t = now
           /\ req'[w].kind = "show" =>
                \A k \in req'[w].updates \intersect DOMAIN rows : ~rows[k].used

\* A step that only drops rows or changes their status preserves the invariant.
LEMMA ShrinkStep ==
    ASSUME TypeOK, Core, Shrunk(rows, rows'), issued' = issued, now' = now,
           GuardsStay, RequestsMove
    PROVE  Core'
<1> USE DEF Core
<1>1. Calm
  BY ShrunkCalm
<1>2. OneLiveDeletion' /\ LinkKeepHolds' /\ GuardsCover'
  BY <1>1, CalmStep
<1>3. UsedAreKeeps' /\ IdsIssued'
  BY DEF UsedAreKeeps, IdsIssued, Shrunk
<1>4. RequestTimes'
  BY DEF RequestTimes, RequestsMove, TypeOK
<1>5. ShowRequestsFresh'
  <2> SUFFICES ASSUME NEW w \in Workers, Busy(w, "show")',
                      NEW k \in req'[w].updates \intersect DOMAIN rows', rows'[k].used
               PROVE  Protects(rows'[k], req'[w].t + 1)
    BY DEF ShowRequestsFresh
  <2>1. k \in DOMAIN rows /\ rows[k].used
    BY DEF Shrunk
  <2>2. req'[w] = req[w]
    BY <2>1 DEF RequestsMove, Busy
  <2>3. Protects(rows[k], req[w].t + 1)
    BY <2>1, <2>2 DEF ShowRequestsFresh, Busy
  <2> QED
    BY <2>2, <2>3 DEF Protects, Shrunk
<1> QED
  BY <1>2, <1>3, <1>4, <1>5

\* The ids of an INSERT are free, and the counter covers them afterwards.
LEMMA FreshIsFree ==
    ASSUME TypeOK, IdsIssued, NEW S \in SUBSET Items
    PROVE  /\ Fresh(S) \intersect DOMAIN rows = {}
           /\ \A k \in Fresh(S) : ItemOf(k) \in S /\ k[2] <= Issue(S)[ItemOf(k)]
           /\ \A k \in Fresh(S), m \in Fresh(S) : ItemOf(k) = ItemOf(m) => k = m
           /\ \A k \in DOMAIN rows : k[2] <= Issue(S)[ItemOf(k)]
           /\ \A k \in Fresh(S) : k[2] > issued[ItemOf(k)]
           /\ \A i \in Items : issued[i] <= Issue(S)[i]
<1>1. \A i \in Items : issued[i] \in Nat
  BY DEF TypeOK
<1>2. \A k \in DOMAIN rows : ItemOf(k) \in Items /\ k[2] \in Nat /\ k[2] <= issued[ItemOf(k)]
  BY IdParts DEF TypeOK, IdsIssued
<1>3. \A k \in Fresh(S) : ItemOf(k) \in S /\ k = <<ItemOf(k), issued[ItemOf(k)] + 1>>
  BY DEF Fresh, ItemOf
<1>4. \A i \in Items : issued[i] <= Issue(S)[i] /\ (i \in S => Issue(S)[i] = issued[i] + 1)
  <2> SUFFICES ASSUME NEW i \in Items
               PROVE  issued[i] <= Issue(S)[i] /\ (i \in S => Issue(S)[i] = issued[i] + 1)
    OBVIOUS
  <2>1. Issue(S)[i] = IF i \in S THEN issued[i] + 1 ELSE issued[i]
    BY DEF Issue
  <2>2. issued[i] \in Nat
    BY <1>1
  <2> QED
    BY <2>1, <2>2
<1>5. \A k \in Fresh(S) : k[2] = issued[ItemOf(k)] + 1
  BY <1>3
<1>6. Fresh(S) \intersect DOMAIN rows = {}
  BY <1>1, <1>2, <1>5
<1>7. \A k \in Fresh(S) : ItemOf(k) \in S /\ k[2] <= Issue(S)[ItemOf(k)]
  BY <1>1, <1>3, <1>4, <1>5
<1>8. \A k \in DOMAIN rows : k[2] <= Issue(S)[ItemOf(k)]
  <2> SUFFICES ASSUME NEW k \in DOMAIN rows PROVE k[2] <= Issue(S)[ItemOf(k)]
    OBVIOUS
  <2>1. ItemOf(k) \in Items /\ issued[ItemOf(k)] \in Nat /\ k[2] \in Nat
    BY <1>1, <1>2
  <2>2. k[2] <= issued[ItemOf(k)] /\ issued[ItemOf(k)] <= Issue(S)[ItemOf(k)]
    BY <1>2, <1>4, <2>1
  <2>3. Issue(S)[ItemOf(k)] \in Nat
    BY <2>1, IssueType DEF TypeOK
  <2> QED
    BY <2>1, <2>2, <2>3
<1>9. \A k \in Fresh(S), m \in Fresh(S) : ItemOf(k) = ItemOf(m) => k = m
  BY <1>3
<1>10. \A k \in Fresh(S) : k[2] > issued[ItemOf(k)]
  BY <1>1, <1>3, <1>5
<1> QED
  BY <1>4, <1>6, <1>7, <1>8, <1>9, <1>10

\* A library's transaction preserves the invariant when it passes over the
\* items that have a live deletion or a link keep that runs.
LEMMA ScheduleStep ==
    ASSUME TypeInv, Core, NEW skip, WriteLibrary(skip), UNCHANGED <<now, req>>,
           \A k \in DOMAIN rows :
              LiveDeletion(rows[k]) \/ LinkKept(rows[k], now) => ItemOf(k) \in skip
    PROVE  Core'
<1> USE DEF Core, TypeInv
<1>1. PICK C \in SUBSET (IF dry THEN {} ELSE Schedulable(skip)) :
          /\ rows' = InsertAll(rows, Fresh(C), Scheduled(now))
          /\ issued' = Issue(C)
  BY DEF WriteLibrary
<1>2. C \subseteq Items /\ C \intersect skip = {}
  BY DEF Schedulable, TypeOK
<1>3. /\ Fresh(C) \intersect DOMAIN rows = {}
      /\ \A k \in Fresh(C) : ItemOf(k) \in C /\ k[2] <= issued'[ItemOf(k)]
      /\ \A k \in Fresh(C), m \in Fresh(C) : ItemOf(k) = ItemOf(m) => k = m
      /\ \A k \in DOMAIN rows : k[2] <= issued'[ItemOf(k)]
  BY <1>1, <1>2, FreshIsFree
<1>4. /\ DOMAIN rows' = DOMAIN rows \union Fresh(C)
      /\ \A k \in DOMAIN rows : rows'[k] = rows[k]
      /\ \A k \in Fresh(C) : rows'[k].used = FALSE
  BY <1>1, <1>3 DEF InsertAll, Scheduled
<1>5. \A k \in DOMAIN rows :
         LiveDeletion(rows[k]) \/ LinkKept(rows[k], now) => ItemOf(k) \notin C
  BY <1>2
<1>6. OneLiveDeletion'
  BY <1>3, <1>4, <1>5 DEF OneLiveDeletion
<1>7. LinkKeepHolds'
  BY <1>3, <1>4, <1>5 DEF LinkKeepHolds, LinkKept
<1>8. UsedAreKeeps' /\ IdsIssued'
  BY <1>3, <1>4 DEF UsedAreKeeps, IdsIssued
<1>9. GuardsCover' /\ RequestTimes'
  BY DEF GuardsCover, WriteLibrary, RequestTimes
<1>10. ShowRequestsFresh'
  BY <1>4 DEF ShowRequestsFresh, Busy
<1> QED
  BY <1>6, <1>7, <1>8, <1>9, <1>10

\* Both passes pass over those items: the movie pass because its guard sets,
\* though old, still cover them, the TV pass because it reads under the lock.
LEMMA ScanCore ==
    ASSUME TypeInv, Core, Scan
    PROVE  Core'
<1> USE DEF tableVars, scanVars, execVars, syncVars, auditVars, envVars
<1>0. TypeOK /\ Table(rows) /\ Shrunk(rows, rows)
  BY DEF TypeInv, TypeOK, Table, Shrunk
<1>1. ASSUME UNCHANGED <<rows, issued, now, req>>, GuardsStay PROVE Core'
  BY <1>0, <1>1, ShrinkStep DEF RequestsMove
<1>2. CASE BeginScan
  BY <1>1, <1>2 DEF BeginScan, GuardsStay
<1>3. CASE ReadGuards
  <2>1. GuardsCover'
    BY <1>3 DEF ReadGuards, GuardsCover, GuardedItems, ProtectedItems, ScheduledItems, ItemsOf
  <2> QED
    BY <1>3, <2>1 DEF ReadGuards, Core, OneLiveDeletion, LinkKeepHolds, UsedAreKeeps,
                      IdsIssued, RequestTimes, ShowRequestsFresh, Busy
<1>4. CASE WriteMovies
  <2>1. \A k \in DOMAIN rows : LiveDeletion(rows[k]) \/ LinkKept(rows[k], now) => ItemOf(k) \in guarded
    BY <1>4 DEF WriteMovies, Core, GuardsCover, LinkKept
  <2> QED
    BY <1>4, <2>1, ScheduleStep DEF WriteMovies
<1>5. CASE WriteSeasons
  <2> DEFINE skip == GuardedItems(now) \union (IF ShowKept(kept', now) THEN Seasons ELSE {})
  <2>1. \A k \in DOMAIN rows : LiveDeletion(rows[k]) \/ LinkKept(rows[k], now) => ItemOf(k) \in skip
    BY DEF LinkKept, GuardedItems, ProtectedItems, ScheduledItems, ItemsOf
  <2>2. WriteLibrary(skip) /\ UNCHANGED <<now, req>>
    BY <1>5 DEF WriteSeasons
  <2> HIDE DEF skip
  <2> QED
    BY <2>1, <2>2, ScheduleStep
<1>6. CASE EndPasses
  BY <1>1, <1>6 DEF EndPasses, AfterPasses, GuardsStay
<1>7. ASSUME NEW l \in Libraries, FetchLibrary(l) PROVE Core'
  <2>1. GuardsStay
    BY <1>7, LibraryType DEF FetchLibrary, GuardsStay
  <2> QED
    BY <1>1, <1>7, <2>1 DEF FetchLibrary
<1>8. ASSUME NEW l \in Libraries, PruneLibrary(l) PROVE Core'
  <2>1. Shrunk(rows, rows')
    BY <1>8, WithoutShrinks DEF PruneLibrary, RowsWithout
  <2> QED
    BY <1>0, <1>8, <2>1, ShrinkStep DEF PruneLibrary, GuardsStay, RequestsMove
<1> QED
  BY <1>2, <1>3, <1>4, <1>5, <1>6, <1>7, <1>8 DEF Scan

\* The executor, failures and the library sync drop rows or change statuses.
LEMMA OtherCore ==
    ASSUME TypeInv, Core, Execute \/ Failure \/ Sync \/ Environment
    PROVE  Core'
<1> USE DEF tableVars, scanVars, execVars, syncVars, auditVars, envVars
<1>0. TypeOK /\ Table(rows) /\ Shrunk(rows, rows)
  BY DEF TypeInv, TypeOK, Table, Shrunk
<1>1. ASSUME Shrunk(rows, rows'), UNCHANGED <<issued, now>>, GuardsStay,
             req' = req \/ req' = [w \in Workers |-> NoRequest]
      PROVE  Core'
  BY <1>0, <1>1, ShrinkStep DEF RequestsMove
<1>2. CASE Recover
  <2>1. Shrunk(rows, rows')
    BY <1>0, <1>2, RecoverType DEF Recover, TypeOK
  <2> QED
    BY <1>1, <1>2, <2>1 DEF Recover, GuardsStay
<1>3. CASE Collect
  BY <1>0, <1>1, <1>3 DEF Collect, ScanOver, GuardsStay
<1>4. CASE RefuseRemoval
  BY <1>0, <1>1, <1>4, MarkShrinks DEF RefuseRemoval, GuardsStay
<1>5. CASE RemoveFile
  BY <1>0, <1>1, <1>5 DEF RemoveFile, GuardsStay
<1>6. CASE CommitDeletion
  BY <1>1, <1>6, WithoutShrinks DEF CommitDeletion, GuardsStay
<1>7. CASE FinishScan
  BY <1>1, <1>7, WithoutShrinks DEF FinishScan, ScanOver, GuardsStay
<1>8. ASSUME NEW k \in work, ParkPathless(k) PROVE Core'
  BY <1>1, <1>8, WithoutShrinks DEF ParkPathless, GuardsStay
<1>9. ASSUME NEW k \in work, MarkDeleting(k) PROVE Core'
  BY <1>0, <1>1, <1>9, MarkShrinks DEF MarkDeleting, GuardsStay
<1>10. CASE AbortScan
  BY <1>0, <1>1, <1>10 DEF AbortScan, ScanOver, GuardsStay
<1>11. CASE FailRemoval
  BY <1>0, <1>1, <1>11 DEF FailRemoval, GuardsStay
<1>12. CASE Crash
  BY <1>0, <1>1, <1>12 DEF Crash, ScanOver, GuardsStay
<1>13. CASE Boot
  <2>1. Shrunk(rows, rows')
    BY <1>0, <1>13, RecoverType DEF Boot, TypeOK
  <2> QED
    BY <1>1, <1>13, <2>1 DEF Boot, GuardsStay
<1>14. ASSUME NEW libs, SyncFetch(libs) PROVE Core'
  BY <1>0, <1>1, <1>14 DEF SyncFetch, GuardsStay
<1>15. ASSUME NEW l, SyncWrite(l) PROVE Core'
  <2>1. Shrunk(rows, rows')
    BY <1>15, WithoutShrinks DEF SyncWrite, RowsWithout
  <2> QED
    BY <1>1, <1>15, <2>1 DEF SyncWrite, GuardsStay
<1>16. CASE Tick
  <2>1. \A r \in Row : Protects(r, now + 1) => Protects(r, now)
    BY <1>0 DEF Protects, Row, TypeOK
  <2>2. \A k \in DOMAIN rows : rows[k] \in Row
    BY <1>0 DEF Table
  <2>3. UNCHANGED <<rows, issued, guarded, pc, lib, req>> /\ now' = now + 1
    BY <1>16 DEF Tick
  <2>4. LinkKeepHolds' /\ GuardsCover'
    BY <2>1, <2>2, <2>3 DEF Core, LinkKeepHolds, GuardsCover
  <2>5. RequestTimes'
    BY <1>0, <1>16, <2>3, RequestType DEF Tick, RequestTimes, TypeOK
  <2> QED
    BY <2>3, <2>4, <2>5 DEF Core, OneLiveDeletion, UsedAreKeeps, IdsIssued, ShowRequestsFresh, Busy
<1>17. ASSUME NEW i, PlexRefresh \/ PlexGlitch(i) \/ FileVanishes(i) PROVE Core'
  BY <1>0, <1>1, <1>17 DEF PlexRefresh, PlexGlitch, FileVanishes, GuardsStay
<1> QED
  BY <1>2, <1>3, <1>4, <1>5, <1>6, <1>7, <1>8, <1>9, <1>10, <1>11, <1>12, <1>13, <1>14,
     <1>15, <1>16, <1>17 DEF Execute, Failure, Sync, Environment

\* A keep made in the last tick still runs, and outlives every request.
LEMMA KeepOutlives ==
    ASSUME NEW d \in Keeps, NEW t \in Nat, NEW u \in Nat, u <= t + 2, NEW r,
           r.action = KeepKind(d), d # Forever => r.at = t + d
    PROVE  Protects(r, u)
BY TimesAssumption DEF Protects, KeepKind, Keeps, Forever, NoTime

\* A web handler that makes keeps, given that it makes them calmly.
LEMMA KeepStep ==
    ASSUME TypeOK, Core, Calm, UNCHANGED <<now, pc, lib, guarded>>,
           UsedAreKeeps', IdsIssued', ShowRequestsFresh',
           \A w \in Workers : req'[w] = req[w] \/ req'[w] = NoRequest
    PROVE  Core'
<1>1. OneLiveDeletion' /\ LinkKeepHolds' /\ GuardsCover'
  BY CalmStep DEF Core, GuardsStay
<1>2. RequestTimes'
  BY DEF Core, RequestTimes
<1> QED
  BY <1>1, <1>2 DEF Core

\* The admin's keep turns an open row, or a new one, into a protection; rows
\* spent by a link are not open.
LEMMA AdminKeepCore ==
    ASSUME TypeInv, Core, NEW i \in Items, NEW d \in Keeps, AdminKeep(i, d)
    PROVE  Core' /\ Calm /\ Quiet
<1> USE DEF TypeInv
<1>1. UNCHANGED <<now, pc, lib, guarded, req>>
  BY DEF AdminKeep, webUnchanged, scanVars, envVars
<1>2. KeepKind(d) # "scheduled_deletion"
  BY DEF KeepKind
<1>3. CASE /\ UNCHANGED issued
           /\ \E k \in DOMAIN rows :
                 /\ IsOldest(k, OpenRowsOf(rows, i))
                 /\ rows' = Reassign(rows, {k}, KeepKind(d), KeepUntil(d, now))
  <2>1. PICK k \in DOMAIN rows :
           /\ ~rows[k].used
           /\ rows' = Reassign(rows, {k}, KeepKind(d), KeepUntil(d, now))
    BY <1>3 DEF IsOldest, OpenRowsOf
  <2>2. /\ DOMAIN rows' = DOMAIN rows
        /\ \A m \in DOMAIN rows : m # k => rows'[m] = rows[m]
        /\ rows'[k].action = KeepKind(d) /\ rows'[k].used = rows[k].used
        /\ rows'[k].status = rows[k].status
    BY <2>1 DEF Reassign, TypeOK, Row
  <2>3. Calm
    BY <1>2, <2>1, <2>2 DEF Calm, LiveDeletion, LinkKept
  <2>4. UsedAreKeeps' /\ IdsIssued' /\ ShowRequestsFresh'
    BY <1>1, <1>3, <2>1, <2>2 DEF Core, UsedAreKeeps, IdsIssued, ShowRequestsFresh, Busy
  <2>5. Quiet
    BY <1>3, <2>2, QuietRows
  <2> QED
    BY <1>1, <2>3, <2>4, <2>5, KeepStep
<1>4. CASE /\ rows' = InsertAll(rows, Fresh({i}), Kept(d, now))
           /\ issued' = Issue({i})
  <2>1. /\ Fresh({i}) \intersect DOMAIN rows = {}
        /\ \A k \in Fresh({i}) : k[2] <= issued'[ItemOf(k)]
        /\ \A k \in DOMAIN rows : k[2] <= issued'[ItemOf(k)]
        /\ \A k \in Fresh({i}) : k[2] > issued[ItemOf(k)]
        /\ \A j \in Items : issued[j] <= issued'[j]
    BY <1>4, FreshIsFree DEF Core
  <2>2. /\ DOMAIN rows' = DOMAIN rows \union Fresh({i})
        /\ \A k \in DOMAIN rows : rows'[k] = rows[k]
        /\ \A k \in Fresh({i}) : rows'[k].used = FALSE /\ rows'[k].action = KeepKind(d)
    BY <1>4, <2>1 DEF InsertAll, Kept
  <2>3. Calm
    BY <1>2, <2>2 DEF Calm, LiveDeletion, LinkKept
  <2>4. UsedAreKeeps' /\ IdsIssued' /\ ShowRequestsFresh'
    BY <1>1, <2>1, <2>2 DEF Core, UsedAreKeeps, IdsIssued, ShowRequestsFresh, Busy
  <2>5. Quiet
    BY <2>1, <2>2 DEF Quiet
  <2> QED
    BY <1>1, <2>3, <2>4, <2>5, KeepStep
<1> QED
  BY <1>3, <1>4 DEF AdminKeep

\* A link spends the row it keeps: it was the item's one live deletion, so no
\* other is left to contradict the keep.
LEMMA LinkApplyCore ==
    ASSUME TypeInv, Core, NEW w \in Workers, LinkApply(w)
    PROVE  Core' /\ Calm /\ Quiet
<1> DEFINE k == req[w].id
           d == req[w].keep
           t == req[w].t
<1> USE DEF TypeInv
<1>1. /\ UNCHANGED <<now, pc, lib, guarded, issued>>
      /\ \A v \in Workers : req'[v] = req[v] \/ req'[v] = NoRequest
  BY DEF LinkApply, webUnchanged, scanVars, envVars, Done, TypeOK
<1>2. k \in Ids /\ d \in Keeps /\ t \in Nat /\ t <= now /\ now <= t + 1
  BY RequestType DEF LinkApply, Busy, Core, RequestTimes, TypeOK, NoRequest
<1>3. CASE rows' = rows
  <2>1. Shrunk(rows, rows')
    BY <1>3 DEF Shrunk
  <2> QED
    BY <1>1, <1>3, <2>1, ShrinkStep, SameRows DEF GuardsStay, RequestsMove
<1>4. CASE /\ k \in DOMAIN rows /\ KeepableByLink(rows[k], t)
           /\ rows' = [rows EXCEPT ![k] = LinkKeep(d, rows[k], t)]
  <2>1. LiveDeletion(rows[k]) /\ rows[k] \in Row
    BY <1>4 DEF KeepableByLink, LiveDeletion, TypeOK
  <2>2. /\ DOMAIN rows' = DOMAIN rows
        /\ \A m \in DOMAIN rows : m # k => rows'[m] = rows[m]
        /\ rows'[k].action = KeepKind(d) /\ (d # Forever => rows'[k].at = t + d)
    BY <1>2, <1>4, <2>1, LinkKeepType
  <2>3. KeepKind(d) # "scheduled_deletion"
    BY DEF KeepKind
  <2>4. Calm
    BY <2>1, <2>2, <2>3 DEF Calm, LiveDeletion, LinkKept
  <2>5. UsedAreKeeps' /\ IdsIssued'
    BY <1>1, <2>2, <2>3 DEF Core, UsedAreKeeps, IdsIssued
  <2>6. ShowRequestsFresh'
    <3> SUFFICES ASSUME NEW v \in Workers, Busy(v, "show")',
                        NEW m \in req'[v].updates \intersect DOMAIN rows', rows'[m].used
                 PROVE  Protects(rows'[m], req'[v].t + 1)
      BY DEF ShowRequestsFresh
    <3>1. req'[v] = req[v]
      BY <1>1 DEF Busy
    <3>2. CASE m # k
      BY <2>2, <3>1, <3>2 DEF Core, ShowRequestsFresh, Busy
    <3>3. CASE m = k
      <4>1. req[v].t \in Nat /\ req[v].t <= now
        BY <3>1, RequestType DEF Busy, Core, RequestTimes, TypeOK
      <4>2. req[v].t + 1 \in Nat /\ req[v].t + 1 <= t + 2
        BY <1>2, <4>1 DEF TypeOK
      <4> HIDE DEF k, d, t
      <4> QED
        BY <1>2, <2>2, <3>1, <3>3, <4>2, KeepOutlives
    <3> QED
      BY <3>2, <3>3
  <2>7. rows'[k].status = rows[k].status
    <3> HIDE DEF k, d, t
    <3>1. LinkKeep(d, rows[k], t).status = rows[k].status
      BY <1>2, <2>1, LinkKeepType
    <3> QED
      BY <1>4, <3>1
  <2>8. Quiet
    BY <1>1, <2>2, <2>7, QuietRows
  <2> QED
    BY <1>1, <2>4, <2>5, <2>6, <2>8, KeepStep
<1> QED
  BY <1>3, <1>4 DEF LinkApply

\* A show keep overwrites rows it read before its transaction; the spent ones
\* among them had been kept for longer than the request may last, and so had
\* no live deletion beside them.
LEMMA ShowWriteCore ==
    ASSUME TypeInv, Core, NEW w \in Workers, ShowWrite(w)
    PROVE  Core' /\ Calm /\ Quiet
<1> DEFINE q == req[w]
           d == q.keep
           t == q.t
           mid == Reassign(rows, q.updates, KeepKind(d), KeepUntil(d, t))
<1> USE DEF TypeInv
<1>1. /\ UNCHANGED <<now, pc, lib, guarded>>
      /\ \A v \in Workers : req'[v] = req[v] \/ req'[v] = NoRequest
  BY DEF ShowWrite, webUnchanged, scanVars, envVars, Done, TypeOK
<1>2. /\ d \in Keeps /\ t \in Nat /\ t <= now /\ now <= t + 1
      /\ q.inserts \subseteq Items
      /\ now \in Nat
  BY RequestType, ItemsAssumption DEF ShowWrite, Busy, Core, RequestTimes, TypeOK, NoRequest
<1>3. CASE UNCHANGED <<kept, rows, issued>>
  <2>1. Shrunk(rows, rows')
    BY <1>3 DEF Shrunk
  <2> QED
    BY <1>1, <1>3, <2>1, ShrinkStep, SameRows DEF GuardsStay, RequestsMove
<1>4. CASE /\ rows' = InsertAll(mid, Fresh(q.inserts), Kept(d, t))
           /\ issued' = Issue(q.inserts)
  <2>1. /\ Fresh(q.inserts) \intersect DOMAIN rows = {}
        /\ \A k \in Fresh(q.inserts) : k[2] <= issued'[ItemOf(k)]
        /\ \A k \in DOMAIN rows : k[2] <= issued'[ItemOf(k)]
        /\ \A k \in Fresh(q.inserts) : k[2] > issued[ItemOf(k)]
        /\ \A i \in Items : issued[i] <= issued'[i]
    BY <1>2, <1>4, FreshIsFree DEF Core
  <2>2. /\ DOMAIN mid = DOMAIN rows
        /\ \A k \in DOMAIN rows : k \notin q.updates => mid[k] = rows[k]
        /\ \A k \in DOMAIN rows \intersect q.updates :
              /\ mid[k].action = KeepKind(d) /\ mid[k].at = KeepUntil(d, t)
              /\ mid[k].used = rows[k].used /\ mid[k].status = rows[k].status
    BY DEF Reassign, TypeOK, Row
  <2>3. /\ DOMAIN rows' = DOMAIN rows \union Fresh(q.inserts)
        /\ \A k \in DOMAIN rows : rows'[k] = mid[k]
        /\ \A k \in Fresh(q.inserts) : rows'[k].used = FALSE /\ rows'[k].action = KeepKind(d)
    <3> HIDE DEF mid
    <3> QED
      BY <1>4, <2>1, <2>2 DEF InsertAll, Kept
  <2>4. KeepKind(d) # "scheduled_deletion"
    BY DEF KeepKind
  <2>5. \A k \in DOMAIN rows \intersect q.updates : rows[k].used => LinkKept(rows[k], now)
    <3> SUFFICES ASSUME NEW k \in DOMAIN rows \intersect q.updates, rows[k].used
                 PROVE  Protects(rows[k], now)
      BY DEF LinkKept
    <3>1. Protects(rows[k], t + 1)
      BY DEF Core, ShowRequestsFresh, ShowWrite
    <3>2. rows[k] \in Row
      BY DEF TypeOK
    <3> QED
      BY <1>2, <3>1, <3>2 DEF Protects, Row
  <2> HIDE DEF mid
  <2>6. Calm
    <3>1. ASSUME NEW k \in DOMAIN rows', LiveDeletion(rows'[k])
          PROVE  k \in DOMAIN rows /\ LiveDeletion(rows[k]) /\ rows'[k].at = rows[k].at
      BY <2>2, <2>3, <2>4, <3>1 DEF LiveDeletion
    <3>2. ASSUME NEW k \in DOMAIN rows', LinkKept(rows'[k], now)
          PROVE  k \in DOMAIN rows /\ LinkKept(rows[k], now)
      <4>1. k \in DOMAIN rows
        BY <2>3, <3>2 DEF LinkKept
      <4>2. CASE k \in q.updates
        BY <2>2, <2>3, <2>5, <3>2, <4>1, <4>2 DEF LinkKept
      <4>3. CASE k \notin q.updates
        BY <2>2, <2>3, <3>2, <4>1, <4>3
      <4> QED
        BY <4>1, <4>2, <4>3
    <3> QED
      BY <3>1, <3>2 DEF Calm
  <2>7. UsedAreKeeps' /\ IdsIssued'
    BY <2>1, <2>2, <2>3, <2>4 DEF Core, UsedAreKeeps, IdsIssued
  <2>8. ShowRequestsFresh'
    <3> SUFFICES ASSUME NEW v \in Workers, Busy(v, "show")',
                        NEW m \in req'[v].updates \intersect DOMAIN rows', rows'[m].used
                 PROVE  Protects(rows'[m], req'[v].t + 1)
      BY DEF ShowRequestsFresh
    <3>1. req'[v] = req[v]
      BY <1>1 DEF Busy
    <3>2. m \in DOMAIN rows
      BY <2>3
    <3>3. CASE m \notin q.updates
      BY <2>2, <2>3, <3>1, <3>2, <3>3 DEF Core, ShowRequestsFresh, Busy
    <3>4. CASE m \in q.updates
      <4>1. req[v].t \in Nat /\ req[v].t <= now
        BY <3>1, RequestType DEF Busy, Core, RequestTimes, TypeOK
      <4>2. req[v].t + 1 \in Nat /\ req[v].t + 1 <= t + 2
        BY <1>2, <4>1
      <4>3. rows'[m].action = KeepKind(d) /\ (d # Forever => rows'[m].at = t + d)
        BY <2>2, <2>3, <3>2, <3>4 DEF KeepUntil
      <4> HIDE DEF d, t
      <4> QED
        BY <1>2, <3>1, <4>2, <4>3, KeepOutlives
    <3> QED
      BY <3>3, <3>4
  <2>9. Quiet
    BY <2>1, <2>2, <2>3 DEF Quiet
  <2> QED
    BY <1>1, <2>6, <2>7, <2>8, <2>9, KeepStep
<1> QED
  BY <1>3, <1>4 DEF ShowWrite

\* The other handlers only drop rows or begin requests.
LEMMA WebCore ==
    ASSUME TypeInv, Core, Web
    PROVE  Core'
<1> USE DEF webUnchanged, tableVars, scanVars, execVars, syncVars, auditVars, envVars
<1>0. TypeOK /\ Shrunk(rows, rows)
  BY DEF TypeInv, Shrunk
<1>1. ASSUME Shrunk(rows, rows'), UNCHANGED <<issued, now, pc, lib, guarded>>, RequestsMove
      PROVE  Core'
  BY <1>0, <1>1, ShrinkStep DEF GuardsStay
<1>2. ASSUME NEW w \in Workers, NEW r, Begin(w, r), r.t = now, r.kind # "show"
      PROVE  RequestsMove
  BY <1>0, <1>2 DEF RequestsMove, Begin, TypeOK
<1>3. CASE RemoveShowKeep
  BY <1>0, <1>1, <1>3 DEF RemoveShowKeep, RequestsMove
<1>4. CASE ClearPending
  BY <1>1, <1>4, WithoutShrinks DEF ClearPending, RequestsMove
<1>5. ASSUME NEW w \in Workers, UnprotectWrite(w) PROVE Core'
  BY <1>0, <1>1, <1>5, WithoutShrinks DEF UnprotectWrite, RequestsMove, Done, TypeOK
<1>6. ASSUME NEW w \in Workers, NEW k, NEW d, LinkRead(w, k, d) PROVE Core'
  BY <1>0, <1>1, <1>2, <1>6 DEF LinkRead
<1>7. ASSUME NEW w \in Workers, NEW k, UnprotectRead(w, k) PROVE Core'
  BY <1>0, <1>1, <1>2, <1>7 DEF UnprotectRead
<1>8. ASSUME NEW w \in Workers, NEW S, NEW d, ShowRead(w, S, d) PROVE Core'
  <2>1. PICK r : /\ Begin(w, r) /\ r.t = now
                 /\ \A k \in r.updates \intersect DOMAIN rows : ~rows[k].used
    BY <1>8 DEF ShowRead, IsNewest, OpenRowsOf
  <2>2. RequestsMove
    BY <1>0, <2>1 DEF RequestsMove, Begin, TypeOK
  <2> QED
    BY <1>0, <1>1, <1>8, <2>2 DEF ShowRead
<1> QED
  BY <1>3, <1>4, <1>5, <1>6, <1>7, <1>8, AdminKeepCore, LinkApplyCore, ShowWriteCore DEF Web

\* The invariant holds at the start: there are no rows and no requests.
LEMMA CoreInit == Init => Core
BY DEF Init, Core, OneLiveDeletion, LinkKeepHolds, UsedAreKeeps, IdsIssued, GuardsCover,
       RequestTimes, ShowRequestsFresh, Busy, NoRequest

\* Every step preserves it.
LEMMA CoreStep == TypeInv /\ Core /\ [Next]_vars => Core'
<1> SUFFICES ASSUME TypeInv, Core, [Next]_vars PROVE Core'
  OBVIOUS
<1>1. CASE UNCHANGED vars
  <2>1. TypeOK /\ Shrunk(rows, rows') /\ UNCHANGED <<issued, now, pc, lib, guarded, req>>
    BY <1>1 DEF TypeInv, Shrunk, vars, tableVars, scanVars, envVars
  <2> QED
    BY <2>1, ShrinkStep DEF GuardsStay, RequestsMove
<1> QED
  BY <1>1, ScanCore, OtherCore, WebCore DEF Next

\* The inductive invariant holds in every reachable state.
THEOREM CoreAlways == Spec => []Core
<1> QED
  BY TypeInit, TypeStep, CoreInit, CoreStep, PTL DEF Spec

\* No item ever has two live deletions, so that the recovery cannot run into
\* the unique index when it sets a row back to pending.
THEOREM OneLiveDeletionAlways == Spec => []OneLiveDeletion
<1>1. Core => OneLiveDeletion
  BY DEF Core
<1> QED
  BY <1>1, CoreAlways, PTL

\* While a keep made through an emailed link runs, its item has no live
\* deletion, for every interleaving of scan, admin, links and recovery.
THEOREM LinkKeepHoldsAlways == Spec => []LinkKeepHolds
<1>1. Core => LinkKeepHolds
  BY DEF Core
<1> QED
  BY <1>1, CoreAlways, PTL

-----------------------------------------------------------------------------
(* What the executor has in hand.                                           *)
(*                                                                         *)
(* Steps beside the executor are calm and quiet, and leave its variables   *)
(* alone; steps after which it has nothing in hand need little else.       *)

\* Ids in hand, and those owed an entry, are ids; the counters are numbers.
LEMMA HandType ==
    ASSUME TypeInv
    PROVE  /\ Hand \subseteq Ids /\ owed \subseteq Ids
           /\ \A k \in Ids : k[2] \in Nat /\ ItemOf(k) \in Items /\ issued[ItemOf(k)] \in Nat
           /\ clock \in Nat /\ now \in Nat
           /\ \A k \in DOMAIN rows : rows[k].at \in Int
<1>1. \A k \in Ids : k[2] \in Nat /\ ItemOf(k) \in Items
  BY IdParts
<1> QED
  BY <1>1 DEF TypeInv, TypeOK, Hand, Row

\* A calm and quiet step beside the executor leaves it what it has in hand.
LEMMA HandStep ==
    ASSUME TypeInv, TypeInv', InHand, Calm, Quiet,
           UNCHANGED <<pc, cur, clock, dry, owed, now>>, work' \subseteq work, disk' \subseteq disk
    PROVE  InHand'
<1> USE DEF InHand
<1>1. Hand' \subseteq Hand
  BY DEF Hand
<1>2. \A k \in Hand \union owed : k \in DOMAIN rows' => k \in DOMAIN rows
  BY HandType DEF HandIssued, Quiet
<1>3. ListedAlone'
  BY DEF ListedAlone, Calm, LinkKept
<1>4. DueInHand'
  BY <1>1, <1>2 DEF DueInHand, Calm
<1>5. HandIssued'
  <2> SUFFICES ASSUME NEW k \in Hand \union owed PROVE k[2] <= issued'[ItemOf(k)]
    BY <1>1 DEF HandIssued
  <2>1. /\ k[2] \in Nat /\ issued[ItemOf(k)] \in Nat /\ k[2] <= issued[ItemOf(k)]
        /\ issued[ItemOf(k)] <= issued'[ItemOf(k)]
    BY HandType DEF HandIssued, Quiet
  <2>2. issued'[ItemOf(k)] \in Nat
    BY HandType DEF TypeInv, TypeOK
  <2> QED
    BY <2>1, <2>2
<1>6. OwedStuck'
  <2>1. pc \in {"remove", "commit"} => cur \in Hand
    BY DEF Hand
  <2> QED
    BY <1>2, <2>1 DEF OwedStuck, Quiet
<1>7. OwedRecovered' /\ DryStaysOut'
  BY <1>2 DEF OwedRecovered, DryStaysOut
<1> QED
  BY <1>3, <1>4, <1>5, <1>6, <1>7

\* A step that deletes some rows for good, and little else, is such a step.
LEMMA DropStep ==
    ASSUME TypeInv, TypeInv', InHand, NEW S, rows' = Without(rows, S),
           UNCHANGED <<pc, cur, clock, dry, owed, now, issued>>,
           work' \subseteq work, disk' \subseteq disk
    PROVE  InHand' /\ Calm
<1>1. Calm
  BY WithoutShrinks, ShrunkCalm
<1>2. Quiet
  BY QuietRows DEF Without, TypeInv
<1> QED
  BY <1>1, <1>2, HandStep

\* After a step that leaves nothing in hand only the owed entries matter.
LEMMA IdleStep ==
    ASSUME TypeInv, TypeInv', InHand,
           pc' \notin {"exec", "remove", "commit"}, work' = {}, clock' <= now',
           pc' = "collect" /\ ~dry' => owed' \intersect DOMAIN rows' = {},
           DryStaysOut', owed' \subseteq owed, disk' \subseteq disk,
           \A k \in owed' \intersect DOMAIN rows' :
              k \in DOMAIN rows => rows'[k].status = rows[k].status,
           \A k \in owed' \intersect DOMAIN rows' : k \in DOMAIN rows \/ k[2] > issued[ItemOf(k)],
           \A i \in Items : issued[i] <= issued'[i]
    PROVE  InHand'
<1> USE DEF InHand
<1>1. Hand' = {}
  BY DEF Hand
<1>2. \A k \in owed' \intersect DOMAIN rows' : k \in DOMAIN rows
  BY HandType DEF HandIssued
<1>3. ListedAlone' /\ DueInHand'
  BY <1>1 DEF ListedAlone, DueInHand
<1>4. HandIssued'
  <2> SUFFICES ASSUME NEW k \in owed PROVE k[2] <= issued'[ItemOf(k)]
    BY <1>1 DEF HandIssued
  <2>1. /\ k[2] \in Nat /\ issued[ItemOf(k)] \in Nat /\ k[2] <= issued[ItemOf(k)]
        /\ issued[ItemOf(k)] <= issued'[ItemOf(k)]
    BY HandType DEF HandIssued
  <2>2. issued'[ItemOf(k)] \in Nat
    BY HandType DEF TypeInv, TypeOK
  <2> QED
    BY <2>1, <2>2
<1>5. OwedStuck'
  BY <1>2 DEF OwedStuck
<1>6. OwedRecovered'
  BY DEF OwedRecovered
<1> QED
  BY <1>3, <1>4, <1>5, <1>6

\* The recovery settles every row that is owed an entry and leaves the rest.
LEMMA RecoverSettles ==
    ASSUME TypeInv, OwedStuck, RecoverStuck
    PROVE  /\ owed' \subseteq owed /\ owed' \intersect DOMAIN rows' = {}
           /\ \A k \in owed \intersect DOMAIN rows : k \in credited'
<1> DEFINE gone == {k \in Stuck(rows) : ItemOf(k) \in Inside \ disk}
<1>1. /\ DOMAIN rows' = DOMAIN rows \ gone
      /\ credited' = credited \union gone /\ owed' = owed \ gone
  BY DEF RecoverStuck, MarkAll, Without
<1>2. owed \intersect DOMAIN rows \subseteq gone
  BY DEF OwedStuck, Stuck
<1> QED
  BY <1>1, <1>2

\* The scan has nothing in hand.
LEMMA ScanHand ==
    ASSUME TypeInv, TypeInv', Core, InHand, Scan
    PROVE  InHand'
<1> USE DEF tableVars, scanVars, execVars, syncVars, auditVars, envVars
<1>1. /\ \A i \in Items : issued[i] \in Nat
      /\ clock \in Nat /\ now \in Nat /\ clock <= now /\ now <= now
      /\ \A k \in DOMAIN rows : rows[k] \in Row
  BY DEF TypeInv, TypeOK, InHand, DueInHand
<1>2. pc \notin {"exec", "remove", "commit"} => work = {}
  BY DEF InHand, ListedAlone
<1>3. DryStaysOut
  BY DEF InHand
<1>4. ASSUME pc \notin {"exec", "remove", "commit"}, pc' \notin {"exec", "remove", "commit"},
             UNCHANGED <<rows, issued, work, owed, disk, now>>,
             clock' <= now, DryStaysOut', pc' = "collect" => dry'
      PROVE  InHand'
  BY <1>1, <1>2, <1>4, IdleStep
<1>5. CASE BeginScan
  BY <1>1, <1>4, <1>5 DEF BeginScan, DryStaysOut
<1>6. CASE ReadGuards
  BY <1>1, <1>3, <1>4, <1>6 DEF ReadGuards, DryStaysOut
<1>7. ASSUME NEW skip, WriteLibrary(skip), pc = "write", UNCHANGED <<execVars, auditVars, envVars, dry>>
      PROVE  InHand'
  <2>1. PICK C \in SUBSET (IF dry THEN {} ELSE Schedulable(skip)) :
            /\ rows' = InsertAll(rows, Fresh(C), Scheduled(now))
            /\ issued' = Issue(C)
    BY <1>7 DEF WriteLibrary
  <2>2. C \subseteq Items
    BY DEF Schedulable, TypeInv, TypeOK
  <2>3. /\ Fresh(C) \intersect DOMAIN rows = {}
        /\ \A k \in Fresh(C) : k[2] > issued[ItemOf(k)]
        /\ \A i \in Items : issued[i] <= issued'[i]
    BY <2>1, <2>2, FreshIsFree DEF Core, TypeInv
  <2>4. /\ DOMAIN rows' = DOMAIN rows \union Fresh(C)
        /\ \A k \in DOMAIN rows : rows'[k] = rows[k]
    BY <2>1, <2>3 DEF InsertAll
  <2>5. pc' = "scan"
    BY <1>7 DEF WriteLibrary
  <2>6. DryStaysOut'
    BY <1>7, <2>5 DEF DryStaysOut
  <2> QED
    BY <1>1, <1>2, <1>7, <2>3, <2>4, <2>5, <2>6, IdleStep
<1>8. CASE WriteMovies
  BY <1>7, <1>8 DEF WriteMovies
<1>9. CASE WriteSeasons
  BY <1>7, <1>9 DEF WriteSeasons
<1>10. CASE EndPasses
  BY <1>1, <1>3, <1>4, <1>10 DEF EndPasses, AfterPasses, DryStaysOut
<1>11. ASSUME NEW l, FetchLibrary(l) PROVE InHand'
  BY <1>1, <1>3, <1>4, <1>11 DEF FetchLibrary, DryStaysOut
<1>12. ASSUME NEW l, PruneLibrary(l) PROVE InHand'
  BY <1>12, DropStep DEF PruneLibrary, RowsWithout
<1> QED
  BY <1>5, <1>6, <1>8, <1>9, <1>10, <1>11, <1>12 DEF Scan

\* When the executor reads its list, the due rows are live deletions, each
\* alone with its item.
LEMMA CollectHand ==
    ASSUME TypeInv, TypeInv', Core, InHand, Collect
    PROVE  InHand'
<1> USE DEF tableVars, scanVars, execVars, syncVars, auditVars, envVars
<1>1. UNCHANGED <<rows, issued, owed, disk, now>>
  BY DEF Collect
<1>2. CASE dry /\ ScanOver("idle")
  <2>1. /\ pc' = "idle" /\ work' = {} /\ dry' = FALSE /\ clock' = 0
        /\ \A i \in Items : issued[i] \in Nat
        /\ now \in Nat
    BY <1>2 DEF ScanOver, TypeInv, TypeOK
  <2>2. DryStaysOut'
    BY <2>1 DEF DryStaysOut
  <2> QED
    BY <1>1, <2>1, <2>2, IdleStep
<1>3. CASE ~dry /\ pc' = "exec" /\ work' \subseteq Due(rows, clock) /\ UNCHANGED <<clock, cur, dry>>
  <2> USE DEF InHand
  <2>1. \A k \in work' : k \in DOMAIN rows /\ LiveDeletion(rows[k]) /\ rows[k].at <= clock
    <3> SUFFICES ASSUME NEW k \in work'
                 PROVE  k \in DOMAIN rows /\ LiveDeletion(rows[k]) /\ rows[k].at <= clock
      OBVIOUS
    <3>1. k \in DOMAIN rows /\ rows[k].action = "scheduled_deletion" /\ rows[k].at <= clock
      BY <1>3 DEF Due, IsDue
    <3>2. rows[k] \in Row
      BY <3>1 DEF TypeInv, TypeOK
    <3> QED
      BY <3>1, <3>2 DEF Core, UsedAreKeeps, LiveDeletion, Row
  <2>2. Hand' = work'
    BY <1>3 DEF Hand
  <2>3. ListedAlone'
    BY <1>1, <1>3, <2>1 DEF ListedAlone, Core, OneLiveDeletion, LinkKeepHolds
  <2>4. DueInHand'
    BY <1>1, <1>3, <2>1, <2>2 DEF DueInHand
  <2>5. HandIssued'
    BY <1>1, <2>1, <2>2 DEF HandIssued, Core, IdsIssued
  <2>6. OwedStuck' /\ OwedRecovered' /\ DryStaysOut'
    BY <1>1, <1>3 DEF Collect, OwedStuck, OwedRecovered, DryStaysOut
  <2> QED
    BY <2>3, <2>4, <2>5, <2>6
<1> QED
  BY <1>2, <1>3 DEF Collect

\* The other steps of the executor take rows from its hand one at a time.
LEMMA ExecuteHand ==
    ASSUME TypeInv, TypeInv', Core, InHand, Execute
    PROVE  InHand'
<1> USE DEF tableVars, scanVars, execVars, syncVars, auditVars, envVars
<1>1. /\ \A i \in Items : issued[i] \in Nat
      /\ clock \in Nat /\ now \in Nat /\ clock <= now /\ now <= now
      /\ \A k \in DOMAIN rows : rows[k] \in Row
  BY DEF TypeInv, TypeOK, InHand, DueInHand
<1>2. CASE Recover
  <2>1. owed' \subseteq owed /\ owed' \intersect DOMAIN rows' = {}
    BY <1>2, RecoverSettles DEF Recover, InHand
  <2>2. work' = {} /\ DryStaysOut'
    BY <1>2 DEF Recover, InHand, ListedAlone, DryStaysOut
  <2> QED
    BY <1>1, <1>2, <2>1, <2>2, IdleStep DEF Recover
<1>3. CASE FinishScan
  <2>1. pc' = "idle" /\ work' = {} /\ dry' = FALSE /\ clock' = 0
    BY <1>3 DEF FinishScan, ScanOver
  <2>2. DryStaysOut'
    BY <2>1 DEF DryStaysOut
  <2> QED
    BY <1>1, <1>3, <2>1, <2>2, IdleStep DEF FinishScan, Without
<1>4. ASSUME NEW k \in work, ParkPathless(k) PROVE InHand'
  BY <1>4, DropStep DEF ParkPathless
<1> USE DEF InHand
<1>5. ASSUME NEW k \in work, MarkDeleting(k) PROVE InHand'
  <2>1. /\ pc = "exec" /\ pc' = "remove" /\ work' = work \ {k} /\ cur' = k
        /\ UNCHANGED <<clock, dry, owed, credited, now, disk, issued>>
        /\ rows' = Mark(rows, k, "deleting")
    BY <1>5 DEF MarkDeleting
  <2>2. /\ DOMAIN rows' = DOMAIN rows
        /\ \A m \in DOMAIN rows : /\ rows'[m].action = rows[m].action /\ rows'[m].at = rows[m].at
                                  /\ rows'[m].used = rows[m].used
                                  /\ rows'[m].status = IF m = k THEN "deleting" ELSE rows[m].status
    BY <1>1, <2>1 DEF Mark, Row
  <2>3. Hand' \subseteq Hand
    BY <2>1 DEF Hand
  <2>4. ListedAlone'
    BY <2>1, <2>2 DEF ListedAlone, LiveDeletion, Protects
  <2>5. DueInHand' /\ HandIssued'
    BY <2>1, <2>2, <2>3 DEF DueInHand, HandIssued, LiveDeletion
  <2>6. OwedStuck' /\ OwedRecovered' /\ DryStaysOut'
    BY <2>1, <2>2 DEF OwedStuck, OwedRecovered, DryStaysOut
  <2> QED
    BY <2>4, <2>5, <2>6
<1>6. CASE RefuseRemoval
  <2>1. /\ pc = "remove" /\ pc' = "exec" /\ UNCHANGED <<work, clock, dry, owed, credited, now, disk, issued>>
        /\ rows' = Mark(rows, cur, "pending") /\ ItemOf(cur) \in Outside
    BY <1>6 DEF RefuseRemoval
  <2>2. /\ DOMAIN rows' = DOMAIN rows
        /\ \A m \in DOMAIN rows : /\ rows'[m].action = rows[m].action /\ rows'[m].at = rows[m].at
                                  /\ rows'[m].used = rows[m].used
                                  /\ m # cur => rows'[m].status = rows[m].status
    BY <1>1, <2>1 DEF Mark, Row
  <2>3. Hand' \subseteq Hand
    BY <2>1 DEF Hand
  <2>4. ListedAlone'
    BY <2>1, <2>2 DEF ListedAlone, LiveDeletion, Protects
  <2>5. DueInHand' /\ HandIssued'
    BY <2>1, <2>2, <2>3 DEF DueInHand, HandIssued, LiveDeletion
  <2>6. OwedStuck' /\ OwedRecovered' /\ DryStaysOut'
    BY <2>1, <2>2 DEF OwedStuck, OwedRecovered, DryStaysOut
  <2> QED
    BY <2>4, <2>5, <2>6
<1>7. CASE RemoveFile
  <2>1. /\ pc = "remove" /\ pc' = "commit" /\ UNCHANGED <<work, cur, clock, dry, rows, now, issued>>
        /\ disk' = disk \ {ItemOf(cur)} /\ ItemOf(cur) \in Inside
        /\ owed' \subseteq owed \union {cur} /\ cur \in Hand
    BY <1>7 DEF RemoveFile, Hand
  <2>2. Hand' = Hand
    BY <2>1 DEF Hand
  <2>3. ListedAlone' /\ DueInHand' /\ HandIssued' /\ DryStaysOut'
    BY <2>1, <2>2 DEF ListedAlone, DueInHand, HandIssued, DryStaysOut
  <2>4. OwedStuck' /\ OwedRecovered'
    BY <2>1 DEF OwedStuck, OwedRecovered
  <2> QED
    BY <2>3, <2>4
<1>8. CASE CommitDeletion
  <2>1. /\ pc = "commit" /\ pc' = "exec" /\ UNCHANGED <<work, clock, dry, now, disk, issued>>
        /\ owed' = owed \ {cur}
        /\ DOMAIN rows' = DOMAIN rows \ {cur} /\ \A k \in DOMAIN rows' : rows'[k] = rows[k]
    BY <1>8 DEF CommitDeletion, Without
  <2>2. Hand' \subseteq Hand
    BY <2>1 DEF Hand
  <2>3. ListedAlone' /\ DueInHand' /\ HandIssued' /\ DryStaysOut'
    BY <2>1, <2>2 DEF ListedAlone, DueInHand, HandIssued, DryStaysOut
  <2>4. OwedStuck' /\ OwedRecovered'
    BY <2>1 DEF OwedStuck, OwedRecovered
  <2> QED
    BY <2>3, <2>4
<1> QED
  BY <1>2, <1>3, <1>4, <1>5, <1>6, <1>7, <1>8, CollectHand DEF Execute

\* A failed removal ends the row's turn; a crash or an aborted scan, the list.
LEMMA FailureHand ==
    ASSUME TypeInv, TypeInv', Core, InHand, Failure
    PROVE  InHand'
<1> USE DEF tableVars, scanVars, execVars, syncVars, auditVars, envVars
<1>1. /\ \A i \in Items : issued[i] \in Nat
      /\ clock \in Nat /\ now \in Nat /\ clock <= now
  BY DEF TypeInv, TypeOK, InHand, DueInHand
<1>2. ASSUME NEW step \in {"idle", "down"}, ScanOver(step), UNCHANGED <<rows, issued, owed, disk, now>>
      PROVE  InHand'
  <2>1. pc' = step /\ work' = {} /\ dry' = FALSE /\ clock' = 0
    BY <1>2 DEF ScanOver
  <2>2. DryStaysOut'
    BY <2>1 DEF DryStaysOut
  <2> QED
    BY <1>1, <1>2, <2>1, <2>2, IdleStep
<1>3. CASE AbortScan
  BY <1>2, <1>3 DEF AbortScan
<1>4. CASE Crash
  BY <1>2, <1>4 DEF Crash
<1>5. CASE FailRemoval
  <2> USE DEF InHand
  <2>1. /\ pc = "remove" /\ pc' = "exec" /\ UNCHANGED <<rows, owed, work, clock, dry, now, issued>>
        /\ disk' \subseteq disk
    BY <1>5 DEF FailRemoval
  <2>2. Hand' \subseteq Hand
    BY <2>1 DEF Hand
  <2>3. ListedAlone' /\ DueInHand' /\ HandIssued' /\ DryStaysOut'
    BY <2>1, <2>2 DEF ListedAlone, DueInHand, HandIssued, DryStaysOut
  <2>4. OwedStuck' /\ OwedRecovered'
    BY <2>1 DEF OwedStuck, OwedRecovered
  <2> QED
    BY <2>3, <2>4
<1>6. CASE Boot
  <2>1. /\ pc' = "idle" /\ work' = {} /\ DryStaysOut' /\ clock' = clock
        /\ UNCHANGED <<issued, disk, now>>
    BY <1>6 DEF Boot, InHand, ListedAlone, DryStaysOut
  <2>2. owed' \subseteq owed /\ (rows' = rows \/ owed' \intersect DOMAIN rows' = {})
    BY <1>6, RecoverSettles DEF Boot, InHand
  <2> QED
    BY <1>1, <2>1, <2>2, IdleStep
<1> QED
  BY <1>3, <1>4, <1>5, <1>6 DEF Failure

\* The sync and the world around delete rows and files, and time passes.
LEMMA OutsideHand ==
    ASSUME TypeInv, TypeInv', InHand, Sync \/ Environment
    PROVE  InHand'
<1> USE DEF tableVars, scanVars, execVars, syncVars, auditVars, envVars
<1>1. ASSUME UNCHANGED <<rows, issued, pc, cur, clock, dry, owed, now, work>>, disk' \subseteq disk
      PROVE  InHand'
  BY <1>1, SameRows, HandStep DEF TypeInv
<1>2. ASSUME NEW libs, SyncFetch(libs) PROVE InHand'
  BY <1>1, <1>2 DEF SyncFetch
<1>3. ASSUME NEW l, SyncWrite(l) PROVE InHand'
  BY <1>3, DropStep DEF SyncWrite, RowsWithout
<1>4. ASSUME NEW i, PlexRefresh \/ PlexGlitch(i) \/ FileVanishes(i) PROVE InHand'
  BY <1>1, <1>4 DEF PlexRefresh, PlexGlitch, FileVanishes
<1>5. CASE Tick
  <2>1. /\ \A r \in Row : Protects(r, now + 1) => Protects(r, now)
        /\ \A k \in DOMAIN rows : rows[k] \in Row
    BY DEF Protects, Row, TypeInv, TypeOK
  <2>2. /\ UNCHANGED <<rows, issued, pc, cur, clock, dry, owed, work, disk>>
        /\ now' = now + 1 /\ now \in Nat /\ clock \in Nat
    BY <1>5 DEF Tick, TypeInv, TypeOK
  <2>3. ListedAlone' /\ DueInHand'
    BY <2>1, <2>2 DEF InHand, ListedAlone, DueInHand, Hand
  <2>4. HandIssued' /\ OwedStuck' /\ OwedRecovered' /\ DryStaysOut'
    BY <2>2 DEF InHand, HandIssued, Hand, OwedStuck, OwedRecovered, DryStaysOut
  <2> QED
    BY <2>3, <2>4 DEF InHand
<1> QED
  BY <1>2, <1>3, <1>4, <1>5 DEF Sync, Environment

\* No web request takes anything from the executor's hand or adds to it.
LEMMA WebHand ==
    ASSUME TypeInv, TypeInv', Core, InHand, Web
    PROVE  InHand'
<1> USE DEF webUnchanged, tableVars, scanVars, execVars, syncVars, auditVars, envVars
<1>1. ASSUME Calm, Quiet, webUnchanged' = webUnchanged PROVE InHand'
  BY <1>1, HandStep
<1>2. ASSUME NEW i \in Items, NEW d \in Keeps, AdminKeep(i, d) PROVE InHand'
  BY <1>1, <1>2, AdminKeepCore DEF AdminKeep
<1>3. ASSUME NEW w \in Workers, LinkApply(w) \/ ShowWrite(w) PROVE InHand'
  BY <1>1, <1>3, LinkApplyCore, ShowWriteCore DEF LinkApply, ShowWrite
<1>4. ASSUME NEW w, UnprotectWrite(w) \/ ClearPending PROVE InHand'
  BY <1>4, DropStep DEF UnprotectWrite, ClearPending
<1>5. ASSUME UNCHANGED <<rows, issued, webUnchanged>> PROVE InHand'
  BY <1>1, <1>5, SameRows DEF TypeInv
<1>6. CASE RemoveShowKeep
  BY <1>5, <1>6 DEF RemoveShowKeep
<1>7. ASSUME NEW w, NEW k, NEW S, NEW d,
             LinkRead(w, k, d) \/ ShowRead(w, S, d) \/ UnprotectRead(w, k)
      PROVE  InHand'
  BY <1>5, <1>7 DEF LinkRead, ShowRead, UnprotectRead
<1> QED
  BY <1>2, <1>3, <1>4, <1>6, <1>7 DEF Web

\* At the start nothing is in hand and nothing is owed.
LEMMA HandInit == Init => InHand
BY DEF Init, InHand, Hand, ListedAlone, DueInHand, HandIssued, OwedStuck, OwedRecovered, DryStaysOut

\* Every step preserves what is in hand.
LEMMA HandNext == TypeInv /\ Core /\ InHand /\ [Next]_vars => InHand'
<1> SUFFICES ASSUME TypeInv, Core, InHand, [Next]_vars PROVE InHand'
  OBVIOUS
<1>1. TypeInv'
  BY TypeStep
<1>2. CASE UNCHANGED vars
  BY <1>1, <1>2, SameRows, HandStep DEF TypeInv, vars, tableVars, scanVars, execVars, auditVars, envVars
<1> QED
  BY <1>1, <1>2, ScanHand, ExecuteHand, FailureHand, OutsideHand, WebHand DEF Next

\* The whole invariant, tables and executor, holds in every reachable state.
THEOREM InductiveAlways == Spec => []Inductive
<1> QED
  BY TypeInit, TypeStep, CoreInit, CoreStep, HandInit, HandNext, PTL DEF Spec, Inductive

\* The executor spares link keeps: a row of its list beside a running link keep
\* is that keep itself, made after the list was read.
THEOREM WorkSparesLinkKeepsAlways == Spec => []WorkSparesLinkKeeps
<1>1. Inductive => WorkSparesLinkKeeps
  BY DEF Inductive, InHand, ListedAlone, WorkSparesLinkKeeps
<1> QED
  BY <1>1, InductiveAlways, PTL

-----------------------------------------------------------------------------
(* What steps may not do. *)

\* The executor removes a file only for a row that was due when it read its
\* list, or that has since become a keep or gone; never for one put off.
THEOREM OnlyDueFilesRemovedAlways == Spec => OnlyDueFilesRemoved
<1>1. TypeInv /\ Inductive /\ [Next]_vars =>
        [RemoveFile => \/ cur \notin DOMAIN rows
                       \/ rows[cur].action # "scheduled_deletion"
                       \/ rows[cur].at <= clock]_vars
  <2> SUFFICES ASSUME TypeInv, Inductive, RemoveFile, cur \in DOMAIN rows,
                      rows[cur].action = "scheduled_deletion"
               PROVE  rows[cur].at <= clock
    OBVIOUS
  <2>1. rows[cur] \in Row
    BY DEF TypeInv, TypeOK
  <2>2. LiveDeletion(rows[cur])
    BY <2>1 DEF Inductive, Core, UsedAreKeeps, LiveDeletion, Row
  <2>3. cur \in Hand
    BY DEF RemoveFile, Hand
  <2> QED
    BY <2>2, <2>3 DEF Inductive, InHand, DueInHand
<1> QED
  BY <1>1, TypeInit, TypeStep, InductiveAlways, PTL DEF Spec, OnlyDueFilesRemoved

\* The executor, a crash and the recovery never forget a file they removed:
\* while its row is there, the row stays 'deleting' or the entry is written.
THEOREM RecoveryAuditsRemovalsAlways == Spec => RecoveryAuditsRemovals
<1> DEFINE remembered == \A k \in owed \intersect Stuck(rows) : k \in credited' \/ k \in Stuck(rows')
<1>1. TypeInv /\ Inductive /\ [Next]_vars => [Execute \/ Failure => remembered]_vars
  <2> SUFFICES ASSUME TypeInv, Inductive, Execute \/ Failure
               PROVE  remembered
    OBVIOUS
  <2> USE DEF Inductive, InHand, OwedStuck, Stuck, tableVars, auditVars
  <2>0. \A k \in DOMAIN rows : rows[k] \in Row
    BY DEF TypeInv, TypeOK
  <2>1. CASE UNCHANGED rows
    BY <2>1
  <2>2. CASE RecoverStuck
    BY <2>2, RecoverSettles
  <2>3. ASSUME NEW k, ParkPathless(k) PROVE remembered
    BY <2>3 DEF ParkPathless, Without
  <2>4. ASSUME NEW k, MarkDeleting(k) PROVE remembered
    BY <2>0, <2>4 DEF MarkDeleting, Mark, Row
  <2>5. CASE RefuseRemoval
    BY <2>5, ItemsAssumption DEF RefuseRemoval, Mark
  <2>6. CASE CommitDeletion
    BY <2>6 DEF CommitDeletion, Without
  <2>7. CASE FinishScan
    BY <2>7 DEF FinishScan, OwedRecovered
  <2> HIDE DEF remembered
  <2> QED
    BY <2>1, <2>2, <2>3, <2>4, <2>5, <2>6, <2>7
       DEF Execute, Failure, Recover, Collect, RemoveFile, AbortScan, FailRemoval, Crash, Boot
<1> QED
  BY <1>1, TypeInit, TypeStep, InductiveAlways, PTL DEF Spec, RecoveryAuditsRemovals

\* No step of the scanner, the executor or the boot ends a protection that
\* runs while the item's file is there.
THEOREM ScannerSparesProtectionAlways == Spec => ScannerSparesProtection
<1> DEFINE spared == \A k \in DOMAIN rows :
               Protects(rows[k], now) /\ ItemOf(k) \in disk
               => k \in DOMAIN rows' /\ Protects(rows'[k], now)
           steps == Recover \/ Collect \/ FinishScan \/ WriteMovies \/ WriteSeasons \/ Boot
<1>1. TypeInv /\ Inductive /\ [Next]_vars => [steps => spared]_vars
  <2> SUFFICES ASSUME TypeInv, Inductive, steps PROVE spared
    OBVIOUS
  <2> USE DEF tableVars
  <2>0. /\ \A k \in DOMAIN rows : rows[k] \in Row
        /\ clock \in Nat /\ now \in Nat /\ clock <= now
    BY DEF TypeInv, TypeOK, Inductive, InHand, DueInHand
  <2>1. CASE UNCHANGED rows
    BY <2>1
  <2>2. CASE RecoverStuck
    BY <2>0, <2>2 DEF RecoverStuck, MarkAll, Without, Row, Protects
  <2>3. CASE FinishScan
    BY <2>0, <2>3 DEF FinishScan, Without, Sweepable, Protects, Row
  <2>4. ASSUME NEW skip, WriteLibrary(skip) PROVE spared
    <3>1. PICK C \in SUBSET (IF dry THEN {} ELSE Schedulable(skip)) :
              rows' = InsertAll(rows, Fresh(C), Scheduled(now))
      BY <2>4 DEF WriteLibrary
    <3>2. C \subseteq Items
      BY DEF Schedulable, TypeInv, TypeOK
    <3>3. Fresh(C) \intersect DOMAIN rows = {}
      BY <3>2, FreshIsFree DEF Inductive, Core, TypeInv
    <3> QED
      BY <3>1, <3>3 DEF InsertAll
  <2>5. CASE WriteMovies \/ WriteSeasons
    <3> HIDE DEF spared
    <3> QED
      BY <2>4, <2>5 DEF WriteMovies, WriteSeasons
  <2> HIDE DEF spared
  <2> QED
    BY <2>1, <2>2, <2>3, <2>5 DEF Recover, Collect, Boot
<1> QED
  BY <1>1, TypeInit, TypeStep, InductiveAlways, PTL DEF Spec, ScannerSparesProtection

\* The table of rows is a function with no more in it than its rows.
IsMap(f) == f = [k \in DOMAIN f |-> f[k]]

\* So is the result of every statement.
LEMMA StatementsMap ==
    /\ \A f, S : IsMap(Without(f, S))
    /\ \A f, k, t : IsMap(Mark(f, k, t))
    /\ \A f, S, t : IsMap(MarkAll(f, S, t))
    /\ \A f, S, r : IsMap(InsertAll(f, S, r))
    /\ \A f, S, a, t : IsMap(Reassign(f, S, a, t))
    /\ \A f, k, r : IsMap([f EXCEPT ![k] = r])
<1>1. ASSUME NEW f, NEW S PROVE IsMap(Without(f, S))
  BY DEF IsMap, Without
<1>2. ASSUME NEW f, NEW k, NEW t PROVE IsMap(Mark(f, k, t))
  BY DEF IsMap, Mark
<1>3. ASSUME NEW f, NEW S, NEW t PROVE IsMap(MarkAll(f, S, t))
  BY DEF IsMap, MarkAll
<1>4. ASSUME NEW f, NEW S, NEW r PROVE IsMap(InsertAll(f, S, r))
  BY DEF IsMap, InsertAll
<1>5. ASSUME NEW f, NEW S, NEW a, NEW t PROVE IsMap(Reassign(f, S, a, t))
  BY DEF IsMap, Reassign
<1>6. ASSUME NEW f, NEW k, NEW r PROVE IsMap([f EXCEPT ![k] = r])
  BY DEF IsMap
<1> QED
  BY <1>1, <1>2, <1>3, <1>4, <1>5, <1>6

\* The table stays one, whatever the program does.
LEMMA RowsMap == Spec => []IsMap(rows)
<1>1. Init => IsMap(rows)
  BY DEF Init, IsMap
<1>2. IsMap(rows) /\ [Next]_vars => IsMap(rows)'
  <2> SUFFICES ASSUME IsMap(rows), [Next]_vars PROVE IsMap(rows')
    OBVIOUS
  <2> USE DEF tableVars
  <2>0. CASE UNCHANGED rows
    BY <2>0
  <2>1. ASSUME NEW skip, WriteLibrary(skip) PROVE IsMap(rows')
    BY <2>1, StatementsMap DEF WriteLibrary
  <2>2. CASE Scan
    <3>1. ASSUME NEW l, PruneLibrary(l) PROVE IsMap(rows')
      BY <3>1, StatementsMap DEF PruneLibrary, RowsWithout
    <3>2. CASE WriteMovies \/ WriteSeasons
      BY <2>1, <3>2 DEF WriteMovies, WriteSeasons
    <3> QED
      BY <2>0, <2>2, <3>1, <3>2 DEF Scan, BeginScan, ReadGuards, EndPasses, FetchLibrary
  <2>3. CASE Execute \/ Failure
    <3>1. CASE RecoverStuck
      BY <3>1, StatementsMap DEF RecoverStuck
    <3>2. ASSUME NEW k, RefuseRemoval \/ CommitDeletion \/ FinishScan \/ ParkPathless(k) \/ MarkDeleting(k)
          PROVE  IsMap(rows')
      BY <3>2, StatementsMap DEF RefuseRemoval, CommitDeletion, FinishScan, ParkPathless, MarkDeleting
    <3> QED
      BY <2>0, <2>3, <3>1, <3>2 DEF Execute, Failure, Recover, Collect, RemoveFile,
                                    AbortScan, FailRemoval, Crash, Boot
  <2>4. CASE Sync \/ Environment
    <3>1. ASSUME NEW l, SyncWrite(l) PROVE IsMap(rows')
      BY <3>1, StatementsMap DEF SyncWrite, RowsWithout
    <3> QED
      BY <2>0, <2>4, <3>1 DEF Sync, Environment, SyncFetch, Tick, PlexRefresh, PlexGlitch, FileVanishes
  <2>5. CASE Web
    <3>1. ASSUME NEW i, NEW d, AdminKeep(i, d) PROVE IsMap(rows')
      <4>1. \/ \E k \in DOMAIN rows : rows' = Reassign(rows, {k}, KeepKind(d), KeepUntil(d, now))
            \/ rows' = InsertAll(rows, Fresh({i}), Kept(d, now))
        BY <3>1 DEF AdminKeep
      <4> QED
        <5>1. CASE \E k \in DOMAIN rows : rows' = Reassign(rows, {k}, KeepKind(d), KeepUntil(d, now))
          <6>1. PICK k : rows' = Reassign(rows, {k}, KeepKind(d), KeepUntil(d, now))
            BY <5>1
          <6>2. IsMap(Reassign(rows, {k}, KeepKind(d), KeepUntil(d, now)))
            BY StatementsMap
          <6> QED
            BY <6>1, <6>2
        <5>2. CASE rows' = InsertAll(rows, Fresh({i}), Kept(d, now))
          BY <5>2, StatementsMap
        <5> QED
          BY <4>1, <5>1, <5>2
    <3>2. ASSUME NEW w, LinkApply(w) PROVE IsMap(rows')
      BY <2>0, <3>2, StatementsMap DEF LinkApply
    <3>3. ASSUME NEW w, ShowWrite(w) PROVE IsMap(rows')
      BY <2>0, <3>3, StatementsMap DEF ShowWrite
    <3>4. ASSUME NEW w, UnprotectWrite(w) \/ ClearPending PROVE IsMap(rows')
      BY <3>4, StatementsMap DEF UnprotectWrite, ClearPending
    <3> QED
      BY <2>0, <2>5, <3>1, <3>2, <3>3, <3>4 DEF Web, RemoveShowKeep, LinkRead, ShowRead, UnprotectRead
  <2> QED
    BY <2>0, <2>2, <2>3, <2>4, <2>5 DEF Next, vars
<1> QED
  BY <1>1, <1>2, PTL DEF Spec

\* From its first step to its last a dry run leaves the files, the rows and
\* the audit entries as they are.
THEOREM DryRunKeepsTablesAlways == Spec => DryRunKeepsTables
<1> DEFINE kept3 == UNCHANGED <<disk, rows, credited>>
<1>1. TypeInv /\ IsMap(rows) /\ Inductive /\ [Next]_vars =>
         [dry /\ (Scan \/ Execute) /\ pc # "idle" => kept3]_vars
  <2> SUFFICES ASSUME TypeInv, IsMap(rows), Inductive, dry, Scan \/ Execute, pc # "idle"
               PROVE  kept3
    OBVIOUS
  <2> USE DEF tableVars, auditVars, envVars
  <2>1. pc \in {"scan", "guard", "write", "collect"}
    BY DEF Inductive, InHand, DryStaysOut
  <2>2. ASSUME NEW skip, WriteLibrary(skip) PROVE UNCHANGED rows
    <3>1. rows' = InsertAll(rows, Fresh({}), Scheduled(now))
      BY <2>2 DEF WriteLibrary
    <3> QED
      BY <3>1 DEF InsertAll, Fresh, IsMap
  <2>3. CASE WriteMovies \/ WriteSeasons
    BY <2>2, <2>3 DEF WriteMovies, WriteSeasons
  <2> QED
    BY <2>1, <2>3 DEF Scan, Execute, BeginScan, ReadGuards, EndPasses, FetchLibrary, PruneLibrary,
          Recover, Collect, RefuseRemoval, RemoveFile, CommitDeletion, FinishScan, ParkPathless, MarkDeleting
<1> QED
  BY <1>1, TypeInit, TypeStep, RowsMap, InductiveAlways, PTL DEF Spec, DryRunKeepsTables
=============================================================================
