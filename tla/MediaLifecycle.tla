--------------------------- MODULE MediaLifecycle ---------------------------
(***************************************************************************)
(* What happens to a media item between the weekly scan that finds it      *)
(* stale and the moment its file is gone, or kept.                         *)
(*                                                                         *)
(* Four kinds of thread share the SQLite file, each on a connection of its *)
(* own: the scanner (scheduled or started by hand, one at a time: that is  *)
(* the subject of module JobRuns), the library sync that runs beside it,   *)
(* the web workers, and the recovery at boot.  A transaction is one action *)
(* here, because a second writer waits for the first and nobody reads its  *)
(* uncommitted rows.  What a thread read before its transaction began is   *)
(* kept in a variable, and is stale by the time it is used.                *)
(*                                                                         *)
(* The clock counts deadlines apart: one tick is long for a web request    *)
(* and short for a grace period, so at most one tick falls into a request. *)
(***************************************************************************)
EXTENDS ScheduledActions, FiniteSets

CONSTANTS
    Movies, Seasons,    \* Items, by library; the seasons are those of one show
    Inside, Outside,    \* where the file is: under a delete root, elsewhere (the
                        \* other items have no file_path)
    Grace,              \* grace_days
    Durations,          \* the snoozes offered; Forever is the other choice
    Workers,            \* web requests that can be in progress together
    DryRuns,            \* the values of the dry_run setting
    Traffic,            \* the handlers the outside world calls
    MaxTime, MaxRows, MaxFaults     \* bounds

Forever == 0

ASSUME ItemsAssumption ==
    /\ Items = Movies \union Seasons
    /\ Movies \intersect Seasons = {}
    /\ Inside \union Outside \subseteq Items
    /\ Inside \intersect Outside = {}

ASSUME TimesAssumption ==
    /\ Grace \in Nat /\ MaxTime \in Nat /\ MaxRows \in Nat /\ MaxFaults \in Nat
    /\ Durations \subseteq Nat /\ \A d \in Durations : d >= 2

ASSUME SettingsAssumption == DryRuns \subseteq BOOLEAN

Library(l)   == IF l = "movies" THEN Movies ELSE Seasons
Libraries    == {l \in {"movies", "shows"} : Library(l) # {}}
Handlers     == {"link", "keep", "show", "unprotect", "clear", "sync", "plex", "vanish"}
Keeps        == Durations \union {Forever}

\* Mutated form: the word shown to the admin is stored as the action.
KeepKindLabel(d) == IF d = Forever THEN "forever" ELSE "snoozed"
KeepKind(d)  == IF d = Forever THEN "protected_forever" ELSE "snoozed"
KeepUntil(d, t) == IF d = Forever THEN NoTime ELSE t + d

VARIABLES
    now,        \* the clock
    disk,       \* items whose file exists
    plex,       \* items Plex lists
    media,      \* rows of media_items
    rows,       \* table scheduled_actions
    issued,     \* [Items -> Nat]: rows inserted so far (AUTOINCREMENT)
    spent,      \* table keep_tokens_used; the token of a row is named by its id
    kept,       \* the show's row of kept_shows, action "none" when absent
    pc,         \* where the scanner is
    dry,        \* the scan's dry_run
    todoLibs,   \* libraries still to scan, or still to prune
    doneLibs,   \* keys of seen_by_lib
    lib,        \* the library being scanned
    fetched,    \* its items, as Plex returned them
    seen,       \* seen_by_lib, all libraries together
    guarded,    \* the guard sets, protected and already scheduled together
    clock,      \* the executor's `now`
    work,       \* the executor's rows
    cur,        \* the row it is deleting
    syncLibs,   \* libraries the sync has fetched and not yet written
    syncSeen,   \* their items, as Plex returned them
    req,        \* the request of each worker
    faults,     \* crashes, failed calls and failed deletions so far
    owed,       \* ghost: files the executor removed and has not audited yet
    credited    \* rows with a "deleted" entry in audit_log (which names their bytes)

tableVars == <<media, rows, issued, spent, kept>>
scanVars  == <<pc, dry, todoLibs, doneLibs, lib, fetched, seen, guarded>>
execVars  == <<clock, work, cur>>
syncVars  == <<syncLibs, syncSeen>>
auditVars == <<owed, credited>>
envVars   == <<now, disk, plex, faults>>
vars == <<tableVars, scanVars, execVars, syncVars, auditVars, envVars, req>>

NoId       == <<>>
NotKept    == [action |-> "none", at |-> NoTime]
NoRequest  == [kind |-> "none"]
LinkRequest == [kind : {"link"}, id : Ids, keep : Keeps, t : Nat]
ShowRequest == [kind : {"show"}, updates : SUBSET Ids, inserts : SUBSET Seasons,
                keep : Keeps, t : Nat]
UnprotectRequest == [kind : {"unprotect"}, id : Ids, t : Nat]
Request == {NoRequest} \union LinkRequest \union ShowRequest \union UnprotectRequest

ScanSteps == {"down", "idle", "scan", "guard", "write", "prune",
              "collect", "exec", "remove", "commit"}

TypeOK ==
    /\ now \in Nat /\ faults \in Nat
    /\ disk \subseteq Items /\ plex \subseteq Items /\ media \subseteq Items
    /\ DOMAIN rows \subseteq Ids
    /\ \A k \in DOMAIN rows : rows[k] \in Row
    /\ issued \in [Items -> Nat]
    /\ spent \subseteq Ids
    /\ kept \in [action : {"none", "snoozed", "protected_forever"}, at : Int]
    /\ pc \in ScanSteps /\ dry \in BOOLEAN
    /\ todoLibs \subseteq Libraries /\ doneLibs \subseteq Libraries /\ lib \in {"movies", "shows"}
    /\ fetched \subseteq Items /\ seen \subseteq Items /\ guarded \subseteq Items
    /\ clock \in Nat /\ work \subseteq Ids /\ cur \in Ids \union {NoId}
    /\ syncLibs \subseteq Libraries /\ syncSeen \subseteq Items
    /\ req \in [Workers -> Request]
    /\ owed \subseteq Ids /\ credited \subseteq Ids

Init ==
    /\ now = 0 /\ faults = 0
    /\ disk = Inside \union Outside /\ plex = Items /\ media = {}
    /\ rows = [k \in {} |-> 0] /\ issued = [i \in Items |-> 0]
    /\ spent = {} /\ kept = NotKept
    /\ pc = "idle" /\ dry = FALSE
    /\ todoLibs = {} /\ doneLibs = {} /\ lib = "movies"
    /\ fetched = {} /\ seen = {} /\ guarded = {}
    /\ clock = 0 /\ work = {} /\ cur = NoId
    /\ syncLibs = {} /\ syncSeen = {}
    /\ req = [w \in Workers |-> NoRequest]
    /\ owed = {} /\ credited = {}

\* The scan is over and its local variables with it.
ScanOver(step) ==
    /\ pc' = step /\ dry' = FALSE
    /\ todoLibs' = {} /\ doneLibs' = {} /\ lib' = "movies"
    /\ fetched' = {} /\ seen' = {} /\ guarded' = {}
    /\ clock' = 0 /\ work' = {} /\ cur' = NoId

Fault == faults < MaxFaults /\ faults' = faults + 1

-----------------------------------------------------------------------------
(* The environment. *)

Tick ==
    /\ now < MaxTime
    /\ \A w \in Workers : req[w] # NoRequest => req[w].t = now
    /\ now' = now + 1
    /\ UNCHANGED <<tableVars, scanVars, execVars, syncVars, auditVars, disk, plex, faults, req>>

\* Plex rescans its folders and lists what is there.
PlexRefresh ==
    /\ plex' = disk \union (Items \ (Inside \union Outside))
    /\ UNCHANGED <<tableVars, scanVars, execVars, syncVars, auditVars, now, disk, faults, req>>

\* Plex fails to list an item that is there.
PlexGlitch(i) ==
    /\ "plex" \in Traffic /\ Fault
    /\ plex' = plex \ {i}
    /\ UNCHANGED <<tableVars, scanVars, execVars, syncVars, auditVars, now, disk, req>>

\* Somebody else deletes the file.
FileVanishes(i) ==
    /\ "vanish" \in Traffic /\ Fault
    /\ i \in disk
    /\ disk' = disk \ {i}
    /\ UNCHANGED <<tableVars, scanVars, execVars, syncVars, auditVars, now, plex, req>>

-----------------------------------------------------------------------------
(* The scan: engine.run_scan and the per-library passes. *)

BeginScan ==
    /\ pc = "idle"
    /\ dry' \in DryRuns
    /\ todoLibs' \in SUBSET Libraries        \* after the disk thresholds
    /\ doneLibs' = {} /\ seen' = {}
    /\ pc' = "scan"
    /\ UNCHANGED <<tableVars, execVars, syncVars, auditVars, envVars, lib, fetched, guarded, req>>

\* Items whose watch history cannot be read are seen but not returned.
FetchLibrary(l) ==
    /\ pc = "scan" /\ l \in todoLibs
    /\ lib' = l
    /\ fetched' \in SUBSET (plex \intersect Library(l))
    /\ seen' = seen \union (plex \intersect Library(l))
    /\ guarded' = {}
    /\ pc' = IF l = "movies" THEN "guard" ELSE "write"
    /\ UNCHANGED <<tableVars, execVars, syncVars, auditVars, envVars, dry, todoLibs, doneLibs, req>>

\* Plex does not answer: the scan ends here, before it deletes anything.
AbortScan ==
    /\ pc = "scan" /\ Fault
    /\ ScanOver("idle")
    /\ UNCHANGED <<tableVars, syncVars, auditVars, now, disk, plex, req>>

\* Mutated form: the protections are not read.
GuardedItemsNoProtection(t) == ScheduledItems(rows)

\* Mutated form: only the protections are read.
GuardedItemsNoSchedule(t) == ProtectedItems(rows, t)

GuardedItems(t) == ProtectedItems(rows, t) \union ScheduledItems(rows)

\* The movie pass reads its guard sets outside a transaction: the first write
\* of the library comes later.
ReadGuards ==
    /\ pc = "guard"
    /\ guarded' = GuardedItems(now)
    /\ pc' = "write"
    /\ UNCHANGED <<tableVars, execVars, syncVars, auditVars, envVars,
                   dry, todoLibs, doneLibs, lib, fetched, seen, req>>

Fresh(S) == {<<i, issued[i] + 1>> : i \in S}
Issue(S) == [i \in Items |-> IF i \in S THEN issued[i] + 1 ELSE issued[i]]
Scheduled(t) == [action |-> "scheduled_deletion", at |-> t + Grace,
                 used |-> FALSE, status |-> "pending"]

\* Items a pass may schedule: returned by Plex, not guarded, and without an
\* entry in the partial unique index on active deletions.
Schedulable(skip) == {i \in fetched \ (skip \union IndexedItems(rows)) : issued[i] < MaxRows}

\* One library's transaction.  Which items the policy condemns (age, watch
\* history) is left open.
WriteLibrary(skip) ==
    /\ media' = media \union fetched
    /\ \E condemned \in SUBSET (IF dry THEN {} ELSE Schedulable(skip)) :
          /\ rows' = InsertAll(rows, Fresh(condemned), Scheduled(now))
          /\ issued' = Issue(condemned)
    /\ todoLibs' = todoLibs \ {lib} /\ doneLibs' = doneLibs \union {lib}
    /\ lib' = "movies" /\ fetched' = {} /\ guarded' = {}
    /\ pc' = "scan"

WriteMovies ==
    /\ pc = "write" /\ lib = "movies"
    /\ WriteLibrary(guarded)
    /\ UNCHANGED <<execVars, syncVars, auditVars, envVars, spent, kept, dry, seen, req>>

ShowKept(k, t) == k.action = "protected_forever" \/ k.at > t
SweptShow(k, t) == IF k.action = "snoozed" /\ k.at <= t THEN NotKept ELSE k

\* The TV pass deletes expired show snoozes first, so its guards are read
\* under the write lock.
WriteSeasons ==
    /\ pc = "write" /\ lib = "shows"
    /\ kept' = SweptShow(kept, now)
    /\ WriteLibrary(GuardedItems(now) \union (IF ShowKept(kept', now) THEN Seasons ELSE {}))
    /\ UNCHANGED <<execVars, syncVars, auditVars, envVars, spent, dry, seen, req>>

\* Mutated form: a dry run prunes as a live one does.
AfterPassesAlways(preview) == "prune"
AfterPasses(preview) == IF preview THEN "collect" ELSE "prune"

EndPasses ==
    /\ pc = "scan" /\ todoLibs = {}
    /\ pc' = AfterPasses(dry)
    /\ todoLibs' = doneLibs
    /\ clock' = IF dry THEN now ELSE clock
    /\ UNCHANGED <<tableVars, syncVars, auditVars, envVars, work, cur,
                   dry, doneLibs, lib, fetched, seen, guarded, req>>

\* Rows of items a library no longer lists go, with everything scheduled for
\* them.  The orphan guard may put a suspicious drop off to the next pass.
Orphans(l, listed) == (media \intersect Library(l)) \ listed
RowsWithout(items) == Without(rows, {k \in DOMAIN rows : ItemOf(k) \in items})

PruneLibrary(l) ==
    /\ pc = "prune" /\ l \in todoLibs
    /\ \E orphans \in {{}, Orphans(l, seen)} :
          /\ rows' = RowsWithout(orphans)
          /\ media' = media \ orphans
    /\ todoLibs' = todoLibs \ {l}
    /\ UNCHANGED <<execVars, syncVars, auditVars, envVars, issued, spent, kept,
                   pc, dry, doneLibs, lib, fetched, seen, guarded, req>>

-----------------------------------------------------------------------------
(* The executor: DeletionExecutor.execute. *)

\* Mutated form: every stuck row is retried, and what was done is forgotten.
RecoverStuckRetry ==
    rows' = MarkAll(rows, Stuck(rows), "pending") /\ UNCHANGED <<credited, owed>>

\* Mutated form: rows whose file is still there are not put back.
RecoverStuckGone ==
    LET gone == {k \in Stuck(rows) : ItemOf(k) \in Inside \ disk}
    IN  /\ rows' = Without(rows, gone)
        /\ credited' = credited \union gone
        /\ owed' = owed \ gone

\* Rows left in 'deleting': the file is gone and was deletable, so the
\* deletion is recorded; otherwise the row is pending again.
RecoverStuck ==
    LET gone == {k \in Stuck(rows) : ItemOf(k) \in Inside \ disk}
    IN  /\ rows' = MarkAll(Without(rows, gone), Stuck(rows) \ gone, "pending")
        /\ credited' = credited \union gone
        /\ owed' = owed \ gone

Recover ==
    /\ pc = "prune" /\ todoLibs = {}
    /\ clock' = now
    /\ RecoverStuck
    /\ pc' = "collect"
    /\ UNCHANGED <<syncVars, envVars, media, issued, spent, kept, work, cur,
                   dry, todoLibs, doneLibs, lib, fetched, seen, guarded, req>>

\* A dry run only writes that it would delete; without delete roots nothing
\* is deleted.
Collect ==
    /\ pc = "collect"
    /\ \/ dry /\ ScanOver("idle")
       \/ /\ ~dry /\ pc' = "exec"
          /\ work' = IF Inside = {} THEN {} ELSE Due(rows, clock)
          /\ doneLibs' = {} /\ seen' = {}
          /\ UNCHANGED <<clock, cur, dry, todoLibs, lib, fetched, guarded>>
    /\ UNCHANGED <<tableVars, syncVars, auditVars, envVars, req>>

\* A row whose item has no path is dropped, so that it cannot cycle.
ParkPathless(k) ==
    /\ pc = "exec" /\ k \in work /\ ItemOf(k) \notin Inside \union Outside
    /\ rows' = Without(rows, {k})
    /\ work' = work \ {k}
    /\ UNCHANGED <<scanVars, syncVars, auditVars, envVars, media, issued, spent, kept, clock, cur, req>>

MarkDeleting(k) ==
    /\ pc = "exec" /\ k \in work /\ ItemOf(k) \in Inside \union Outside
    /\ rows' = Mark(rows, k, "deleting")
    /\ work' = work \ {k} /\ cur' = k
    /\ pc' = "remove"
    /\ UNCHANGED <<syncVars, auditVars, envVars, media, issued, spent, kept, clock,
                   dry, todoLibs, doneLibs, lib, fetched, seen, guarded, req>>

\* DeletionRefused: the path is not under a root.
RefuseRemoval ==
    /\ pc = "remove" /\ ItemOf(cur) \in Outside
    /\ rows' = Mark(rows, cur, "pending")
    /\ cur' = NoId
    /\ pc' = "exec"
    /\ UNCHANGED <<syncVars, auditVars, envVars, media, issued, spent, kept, clock, work,
                   dry, todoLibs, doneLibs, lib, fetched, seen, guarded, req>>

\* A file that is already gone counts as removed.
RemoveFile ==
    /\ pc = "remove" /\ ItemOf(cur) \in Inside
    /\ disk' = disk \ {ItemOf(cur)}
    /\ owed' = IF ItemOf(cur) \in disk THEN owed \union {cur} ELSE owed
    /\ pc' = "commit"
    /\ UNCHANGED <<tableVars, execVars, syncVars, now, plex, faults, credited,
                   dry, todoLibs, doneLibs, lib, fetched, seen, guarded, req>>

\* The removal raises: the file is still there (PermissionError, OSError) or
\* vanished under it (FileNotFoundError).  The row stays 'deleting'.
FailRemoval ==
    /\ pc = "remove" /\ ItemOf(cur) \in Inside /\ Fault
    /\ disk' \in {disk} \union (IF "vanish" \in Traffic THEN {disk \ {ItemOf(cur)}} ELSE {})
    /\ cur' = NoId
    /\ pc' = "exec"
    /\ UNCHANGED <<tableVars, syncVars, auditVars, now, plex, clock, work,
                   dry, todoLibs, doneLibs, lib, fetched, seen, guarded, req>>

CommitDeletion ==
    /\ pc = "commit"
    /\ credited' = credited \union {cur} /\ owed' = owed \ {cur}
    /\ rows' = Without(rows, {cur})
    /\ cur' = NoId
    /\ pc' = "exec"
    /\ UNCHANGED <<syncVars, envVars, media, issued, spent, kept, clock, work,
                   dry, todoLibs, doneLibs, lib, fetched, seen, guarded, req>>

\* The last transaction sweeps the snoozes that had lapsed when it began.
FinishScan ==
    /\ pc = "exec" /\ work = {}
    /\ rows' = Without(rows, {k \in DOMAIN rows : Sweepable(rows[k], clock)})
    /\ ScanOver("idle")
    /\ UNCHANGED <<syncVars, auditVars, envVars, media, issued, spent, kept, req>>

-----------------------------------------------------------------------------
(* Crash and boot. *)

Crash ==
    /\ pc # "down" /\ Fault
    /\ ScanOver("down")
    /\ syncLibs' = {} /\ syncSeen' = {}
    /\ req' = [w \in Workers |-> NoRequest]
    /\ UNCHANGED <<tableVars, auditVars, now, disk, plex>>

\* Recovery runs before the scheduler starts.  An exception in it is logged
\* and the program goes on.
Boot ==
    /\ pc = "down"
    /\ \/ RecoverStuck /\ UNCHANGED faults
       \/ Fault /\ UNCHANGED <<rows, credited, owed>>
    /\ pc' = "idle"
    /\ UNCHANGED <<execVars, syncVars, now, disk, plex, media, issued, spent, kept,
                   dry, todoLibs, doneLibs, lib, fetched, seen, guarded, req>>

-----------------------------------------------------------------------------
(* The library sync, beside the scan. *)

SyncFetch(libs) ==
    /\ "sync" \in Traffic /\ pc # "down" /\ syncLibs = {}
    /\ syncLibs' = libs
    /\ syncSeen' = {i \in plex : \E l \in libs : i \in Library(l)}
    /\ UNCHANGED <<tableVars, scanVars, execVars, auditVars, envVars, req>>

SyncWrite(l) ==
    /\ l \in syncLibs
    /\ \E orphans \in {{}, Orphans(l, syncSeen)},
          upserted \in SUBSET (syncSeen \intersect Library(l)) :
          /\ rows' = RowsWithout(orphans)
          /\ media' = (media \ orphans) \union upserted
    /\ syncLibs' = syncLibs \ {l}
    /\ syncSeen' = syncSeen \ Library(l)
    /\ UNCHANGED <<scanVars, execVars, auditVars, envVars, issued, spent, kept, req>>

-----------------------------------------------------------------------------
(* Web handlers.  A worker answers only while the program runs. *)

Idle(w)       == pc # "down" /\ req[w] = NoRequest
Busy(w, kind) == req[w] # NoRequest /\ req[w].kind = kind
Begin(w, r)   == req' = [req EXCEPT ![w] = r]
Done(w)       == req' = [req EXCEPT ![w] = NoRequest]

webUnchanged == <<scanVars, execVars, syncVars, auditVars, envVars>>

\* keep_submit, keep_forever: the token is verified and the row looked at ...
LinkRead(w, k, d) ==
    /\ "link" \in Traffic /\ Idle(w)
    /\ k \in DOMAIN rows /\ ItemOf(k) \in media
    /\ k \notin spent
    /\ rows[k].action = "scheduled_deletion" /\ rows[k].status = "pending" /\ rows[k].at >= now
    /\ Begin(w, [kind |-> "link", id |-> k, keep |-> d, t |-> now])
    /\ UNCHANGED <<tableVars, webUnchanged>>

LinkKeep(d, r, t) ==
    [r EXCEPT !.action = KeepKind(d), !.used = TRUE,
              !.at = IF d = Forever THEN @ ELSE t + d]

\* ... then, in a transaction, the token is spent and the guarded UPDATE run.
\* The token stays spent when the UPDATE finds nothing.
LinkApply(w) ==
    /\ Busy(w, "link")
    /\ LET k == req[w].id
           t == req[w].t
           found == k \notin spent /\ k \in DOMAIN rows /\ KeepableByLink(rows[k], t)
       IN  rows' = IF found THEN [rows EXCEPT ![k] = LinkKeep(req[w].keep, rows[k], t)] ELSE rows
    /\ spent' = spent \union {req[w].id}
    /\ Done(w)
    /\ UNCHANGED <<webUnchanged, media, issued, kept>>

\* apply_keep_in_tx: the oldest open row becomes the keep, whatever it was.
Kept(d, t) == [action |-> KeepKind(d), at |-> KeepUntil(d, t),
               used |-> FALSE, status |-> "pending"]

AdminKeep(i, d) ==
    /\ "keep" \in Traffic /\ pc # "down"
    /\ i \in media
    /\ \/ /\ \E k \in DOMAIN rows :
                /\ IsOldest(k, OpenRowsOf(rows, i))
                /\ rows' = Reassign(rows, {k}, KeepKind(d), KeepUntil(d, now))
          /\ UNCHANGED issued
       \/ /\ OpenRowsOf(rows, i) = {} /\ issued[i] < MaxRows
          /\ rows' = InsertAll(rows, Fresh({i}), Kept(d, now))
          /\ issued' = Issue({i})
    /\ UNCHANGED <<webUnchanged, media, spent, kept, req>>

\* api_keep_show: the open rows of the chosen seasons are read first ...
ShowRead(w, S, d) ==
    /\ "show" \in Traffic /\ Idle(w)
    /\ S # {} /\ S \subseteq Seasons \intersect media
    /\ Begin(w, [kind |-> "show", keep |-> d, t |-> now,
                 updates |-> {k \in DOMAIN rows : /\ ItemOf(k) \in S
                                                 /\ IsNewest(k, OpenRowsOf(rows, ItemOf(k)))},
                 inserts |-> {i \in S : OpenRowsOf(rows, i) = {}}])
    /\ UNCHANGED <<tableVars, webUnchanged>>

\* ... and the keep is written later.  An insert for a season that has gone
\* breaks the foreign key and takes the whole transaction with it.
ShowWrite(w) ==
    /\ Busy(w, "show")
    /\ \A i \in req[w].inserts : issued[i] < MaxRows
    /\ LET q == req[w]
       IN  IF q.inserts \subseteq media
           THEN /\ kept' = [action |-> KeepKind(q.keep), at |-> KeepUntil(q.keep, q.t)]
                /\ rows' = InsertAll(
                              Reassign(rows, q.updates, KeepKind(q.keep), KeepUntil(q.keep, q.t)),
                              Fresh(q.inserts), Kept(q.keep, q.t))
                /\ issued' = Issue(q.inserts)
           ELSE UNCHANGED <<kept, rows, issued>>
    /\ Done(w)
    /\ UNCHANGED <<webUnchanged, media, spent>>

RemoveShowKeep ==
    /\ "show" \in Traffic /\ pc # "down"
    /\ kept # NotKept
    /\ kept' = NotKept
    /\ UNCHANGED <<webUnchanged, media, rows, issued, spent, req>>

\* api_unprotect: the newest protection row is read, then deleted by id.
UnprotectRead(w, k) ==
    /\ "unprotect" \in Traffic /\ Idle(w)
    /\ IsNewest(k, ProtectionRowsOf(rows, ItemOf(k)))
    /\ Begin(w, [kind |-> "unprotect", id |-> k, t |-> now])
    /\ UNCHANGED <<tableVars, webUnchanged>>

UnprotectWrite(w) ==
    /\ Busy(w, "unprotect")
    /\ rows' = Without(rows, {req[w].id})
    /\ Done(w)
    /\ UNCHANGED <<webUnchanged, media, issued, spent, kept>>

ClearPending ==
    /\ "clear" \in Traffic /\ pc # "down"
    /\ rows' = Without(rows, {k \in DOMAIN rows : LiveDeletion(rows[k])})
    /\ UNCHANGED <<webUnchanged, media, issued, spent, kept, req>>

-----------------------------------------------------------------------------
Scan ==
    \/ BeginScan \/ ReadGuards \/ WriteMovies \/ WriteSeasons \/ EndPasses
    \/ \E l \in Libraries : FetchLibrary(l) \/ PruneLibrary(l)

Execute ==
    \/ Recover \/ Collect \/ RefuseRemoval \/ RemoveFile \/ CommitDeletion \/ FinishScan
    \/ \E k \in work : ParkPathless(k) \/ MarkDeleting(k)

Sync ==
    \/ \E libs \in SUBSET Libraries \ {{}} : SyncFetch(libs)
    \/ \E l \in Libraries : SyncWrite(l)

Web ==
    \/ \E i \in Items, d \in Keeps : AdminKeep(i, d)
    \/ RemoveShowKeep
    \/ ClearPending
    \/ \E w \in Workers :
          \/ LinkApply(w) \/ ShowWrite(w) \/ UnprotectWrite(w)
          \/ \E k \in DOMAIN rows, d \in Keeps : LinkRead(w, k, d)
          \/ \E S \in SUBSET Seasons, d \in Keeps : ShowRead(w, S, d)
          \/ \E k \in DOMAIN rows : UnprotectRead(w, k)

Environment ==
    \/ Tick \/ PlexRefresh
    \/ \E i \in Items : PlexGlitch(i) \/ FileVanishes(i)

Failure == AbortScan \/ FailRemoval \/ Crash \/ Boot

Next == Scan \/ Execute \/ Sync \/ Web \/ Environment \/ Failure

Spec == Init /\ [][Next]_vars

\* The weekly job comes round again and a running scan goes on; the program is
\* restarted after a crash.  Nothing is assumed of users, Plex or the clock.
FairSpec ==
    /\ Spec
    /\ WF_vars(Scan \/ Execute)
    /\ WF_vars(Boot)

-----------------------------------------------------------------------------
(* Properties. *)

\* An item has one live deletion at most, claimed or not.  The partial UNIQUE
\* index ignores rows in 'deleting', so it alone would let recovery, which sets
\* such a row back to pending, run into a second row and fail at every boot.
OneLiveDeletion ==
    \A k, m \in DOMAIN rows :
        LiveDeletion(rows[k]) /\ LiveDeletion(rows[m]) /\ ItemOf(k) = ItemOf(m) => k = m

\* While a keep made through an emailed link runs, nothing is scheduled for
\* that item, whatever the scan, the admin and the recovery do meanwhile.
LinkKeepHolds ==
    \A k, m \in DOMAIN rows :
        /\ rows[k].used /\ Protects(rows[k], now)
        /\ LiveDeletion(rows[m])
        => ItemOf(k) # ItemOf(m)

\* The executor deletes for a row of its list that a link has kept only when
\* the keep came after the list was read: the row in the list is the kept one.
WorkSparesLinkKeeps ==
    \A k \in DOMAIN rows, m \in work :
        rows[k].used /\ Protects(rows[k], now) /\ ItemOf(k) = ItemOf(m) => k = m

\* The executor, a crash and the recovery lose no file that was removed: its
\* row stays in 'deleting' until the audit entry is written.
RecoveryAuditsRemovals ==
    [][Execute \/ Failure =>
         \A k \in owed \intersect Stuck(rows) : k \in credited' \/ k \in Stuck(rows')]_vars

\* A file goes only for a row that was due when the executor read its list,
\* and whose grace period had passed.
OnlyDueFilesRemoved ==
    [][RemoveFile => \/ cur \notin DOMAIN rows
                     \/ rows[cur].action # "scheduled_deletion"
                     \/ rows[cur].at <= clock]_vars

\* The scanner ends no protection that runs, except together with its file or
\* its item: recovery and the sweep of lapsed snoozes see protections too.
ScannerSparesProtection ==
    [][Recover \/ Collect \/ FinishScan \/ WriteMovies \/ WriteSeasons \/ Boot =>
         \A k \in DOMAIN rows :
            Protects(rows[k], now) /\ ItemOf(k) \in disk
            => k \in DOMAIN rows' /\ Protects(rows'[k], now)]_vars

\* A dry run schedules nothing, deletes nothing, prunes nothing.
DryRunKeepsTables ==
    [][dry /\ (Scan \/ Execute) /\ pc # "idle" => UNCHANGED <<disk, rows, credited>>]_vars

\* A row in 'deleting' does not stay there: after a crash or a failed removal
\* it is retried or completed.
StuckRowsResolved ==
    \A i \in Items, n \in 1..MaxRows :
        (<<i, n>> \in Stuck(rows)) ~> (<<i, n>> \notin Stuck(rows))

\* A deletion whose time has come does not wait for ever, the boundary included.
DueDeletionsDecided ==
    \A i \in Items, n \in 1..MaxRows :
        LET waits == /\ <<i, n>> \in DOMAIN rows
                     /\ rows[<<i, n>>].action = "scheduled_deletion"
                     /\ rows[<<i, n>>].status = "pending"
                     /\ rows[<<i, n>>].at <= now
        IN  waits ~> ~waits

\* A snooze an admin set does not outlive its time in the table.
LapsedSnoozesSwept ==
    \A i \in Items, n \in 1..MaxRows :
        LET lapsed == /\ <<i, n>> \in DOMAIN rows
                      /\ rows[<<i, n>>].action = "snoozed" /\ ~rows[<<i, n>>].used
                      /\ rows[<<i, n>>].at < now
        IN  lapsed ~> ~lapsed

-----------------------------------------------------------------------------
(* Why OneLiveDeletion and LinkKeepHolds hold: the inductive invariant.     *)

\* A row spent by a link is a keep from then on.
UsedAreKeeps ==
    \A k \in DOMAIN rows : rows[k].used => rows[k].action # "scheduled_deletion"

\* Row ids are issued in order, so the next insert takes an id that is free.
IdsIssued == \A k \in DOMAIN rows : k[2] <= issued[ItemOf(k)]

\* The guard sets go stale in one way only: an item has lost its row since.
\* No link can keep an item that had no live deletion when they were read.
GuardsCover ==
    pc = "write" /\ lib = "movies" =>
        \A k \in DOMAIN rows :
            LiveDeletion(rows[k]) \/ (rows[k].used /\ Protects(rows[k], now))
            => ItemOf(k) \in guarded

\* A request is at most one tick old.
RequestTimes ==
    \A w \in Workers : req[w] # NoRequest => req[w].t <= now /\ now <= req[w].t + 1

\* Rows a show keep is about to overwrite may have been kept by a link in the
\* meantime; such a keep was made during the request and outlives it.
ShowRequestsFresh ==
    \A w \in Workers : Busy(w, "show") =>
        \A k \in req[w].updates \intersect DOMAIN rows :
            rows[k].used => Protects(rows[k], req[w].t + 1)

Core ==
    /\ OneLiveDeletion /\ LinkKeepHolds
    /\ UsedAreKeeps /\ IdsIssued /\ GuardsCover /\ RequestTimes /\ ShowRequestsFresh

-----------------------------------------------------------------------------
(* Why the other properties hold: what the executor has in hand.            *)

\* The rows the executor is to decide, the one it is deleting included.
Hand == work \union (IF pc \in {"remove", "commit"} THEN {cur} ELSE {})

\* The list lives from its reading to the end of the executor.  No scan writes
\* meanwhile, so a row beside a listed one was no deletion when the list was
\* read and can be kept by no link since.
ListedAlone ==
    /\ pc \notin {"exec", "remove", "commit"} => work = {}
    /\ \A k \in DOMAIN rows, m \in work :
          /\ LiveDeletion(rows[k]) \/ (rows[k].used /\ Protects(rows[k], now))
          /\ ItemOf(k) = ItemOf(m)
          => k = m

\* A row in hand that is a live deletion still was due when the list was read.
DueInHand ==
    /\ clock <= now
    /\ \A k \in Hand \intersect DOMAIN rows : LiveDeletion(rows[k]) => rows[k].at <= clock

\* An id in hand, or owed an entry, is not issued a second time.
HandIssued == \A k \in Hand \union owed : k[2] <= issued[ItemOf(k)]

\* A removed file stays away, and its row, when there is one, in 'deleting'.
OwedStuck ==
    /\ \A k \in owed : ItemOf(k) \in Inside \ disk
    /\ \A k \in owed \intersect DOMAIN rows : rows[k].status = "deleting"
    /\ pc \in {"remove", "commit"} /\ cur \in DOMAIN rows => rows[cur].status = "deleting"

\* The recovery has dealt with the rows owed an entry before the executor reads
\* its list; after that only the row in hand can be one.
OwedRecovered ==
    /\ pc = "exec" \/ pc = "remove" \/ (pc = "collect" /\ ~dry) => owed \intersect DOMAIN rows = {}
    /\ pc = "commit" => owed \intersect DOMAIN rows \subseteq {cur}

\* A dry run never gets as far as the steps that delete.
DryStaysOut == dry => pc \in {"scan", "guard", "write", "collect"}

InHand ==
    /\ ListedAlone /\ DueInHand /\ HandIssued /\ OwedStuck /\ OwedRecovered /\ DryStaysOut

Inductive == Core /\ InHand

-----------------------------------------------------------------------------
(* What a comment of the code says and the code does not do. *)

\* scanner/deletions.py on the two phases of a deletion: after a crash the next
\* recovery "can inspect the row and decide".  So every file the executor
\* removed is audited, or a row in 'deleting' is left to tell (or the entry is
\* being written).
NoRemovalForgotten ==
    \A k \in owed : \/ k \in DOMAIN rows /\ rows[k].status = "deleting"
                    \/ pc = "commit" /\ cur = k
=============================================================================
