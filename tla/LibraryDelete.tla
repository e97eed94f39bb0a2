--------------------------- MODULE LibraryDelete ---------------------------
(***************************************************************************)
(* An admin deletes an item by hand: the file goes at Radarr or Sonarr,    *)
(* the row goes here, and a durable intent bridges the two, so that a      *)
(* crash between them is repaired at the next start.  Beside it scans and  *)
(* syncs bring rows in from Plex and drop the rows of items that Plex no   *)
(* longer lists, with a guard against answers that are too short to be     *)
(* believed the first time.  Syncs take no lease: they overlap with a scan *)
(* and with one another.                                                   *)
(***************************************************************************)
EXTENDS Naturals, Sequences, FiniteSets

CONSTANTS
    Items, Libraries,
    LibraryOf,      \* the library of each item
    Managed,        \* items with an id at a configured service
    Workers,        \* delete requests in progress together
    Jobs, ScanJob,  \* library passes in progress together; one of them is the scan
    MinToTrust,     \* _MIN_ITEMS_TO_TRUST
    RatioFrom,      \* _MIN_ITEMS_FOR_RATIO_CHECK
    RatioBase,      \* 1 / _MIN_RATIO_TO_TRUST
    MaxIntents      \* bound on the delete requests for managed items

ASSUME LibraryAssumption ==
    /\ LibraryOf \in [Items -> Libraries]
    /\ Managed \subseteq Items
    /\ {MinToTrust, RatioFrom, RatioBase, MaxIntents} \subseteq Nat

VARIABLES
    files,      \* items whose file the service has
    listed,     \* items that Plex lists
    rows,       \* media_items
    intents,    \* delete_intents, in the order of their ids
    marked,     \* libraries in the setting orphan_guard_pending
    request,    \* the delete request of each worker
    pass,       \* the library pass of each job
    phase,      \* "up", "down", or "boot" while the start-up reconciles
    todo,       \* the pending intents the start-up has read
    owed,       \* ghost: rows whose file a request has removed
    doubts,     \* ghost: looks at a library in a row that were not believed
    blurred     \* ghost: libraries whose mark was set or left by a list of marks that
                \* another job had changed since it was read

libVars == <<files, listed, rows, intents, marked, request, pass, phase, todo, owed, doubts, blurred>>

NoRequest == [at |-> 0]
NoPass    == [step |-> "idle"]
NoIntent  == 0

Intents  == [item : Items, state : {"open", "failed", "done"}]
Requests == [at : 1..4, item : Items, intent : 0..MaxIntents]
Passes   == [step : {"fetched", "guard", "trust", "doubt", "drop"}, library : Libraries,
             seen : SUBSET Items, fetched : SUBSET Items, marks : SUBSET Libraries,
             looks : 0..2, mixed : BOOLEAN]

LibraryTypeOK ==
    /\ {files, listed, rows, owed} \subseteq SUBSET Items
    /\ intents \in Seq(Intents) /\ Len(intents) <= MaxIntents
    /\ marked \subseteq Libraries /\ blurred \subseteq Libraries
    /\ request \in [Workers -> Requests \union {NoRequest}]
    /\ pass \in [Jobs -> Passes \union {NoPass}]
    /\ phase \in {"up", "down", "boot"} /\ todo \subseteq (1..MaxIntents) \X {"row", "intent"}
    /\ doubts \in [Libraries -> 0..2]

LibraryInit ==
    /\ files = Items /\ listed = Items /\ rows = Items
    /\ intents = <<>>
    /\ marked = {}
    /\ request = [w \in Workers |-> NoRequest]
    /\ pass = [j \in Jobs |-> NoPass]
    /\ phase = "up" /\ todo = {}
    /\ owed = {}
    /\ doubts = [l \in Libraries |-> 0] /\ blurred = {}

Up      == phase = "up"
\* The scheduler starts before the start-up reconciles.
Running == phase # "down"
Pending == {n \in DOMAIN intents : intents[n].state # "done"}

\* Mutated form: the intent is completed before the row is dropped.
CompletesEarly == <<"record", "call", "complete", "finalise">>

\* Every entry is a transaction, or a call, of its own.
DeleteSteps == <<"record", "call", "finalise", "complete">>

At(w, s) == Up /\ request[w] # NoRequest /\ DeleteSteps[request[w].at] = s
Done(w)  == request' = IF request[w].at = Len(DeleteSteps)
                       THEN [request EXCEPT ![w] = NoRequest]
                       ELSE [request EXCEPT ![w].at = @ + 1]
GiveUp(w) == request' = [request EXCEPT ![w] = NoRequest]
Item(w)   == request[w].item
Mark(n, s) == intents' = [intents EXCEPT ![n].state = s]

passUnchanged == UNCHANGED <<listed, marked, pass, phase, todo, doubts, blurred>>

-----------------------------------------------------------------------------
(* api_media_delete.                                                       *)

\* The row has to be there when the request reads it, and never again.
Snapshot(w, i) ==
    /\ Up /\ request[w] = NoRequest
    /\ i \in rows
    /\ request' = [request EXCEPT ![w] = [at |-> 1, item |-> i, intent |-> NoIntent]]
    /\ UNCHANGED <<files, rows, intents, owed>> /\ passUnchanged

\* An item that no service manages has no file to remove and gets no intent.
RecordIntent(w) ==
    /\ At(w, "record")
    /\ IF Item(w) \in Managed
       THEN /\ Len(intents) < MaxIntents
            /\ intents' = Append(intents, [item |-> Item(w), state |-> "open"])
            /\ request' = [request EXCEPT ![w].at = @ + 1, ![w].intent = Len(intents) + 1]
       ELSE /\ Done(w)
            /\ UNCHANGED intents
    /\ UNCHANGED <<files, rows, owed>> /\ passUnchanged

Remove(i) ==
    /\ files' = files \ {i}
    /\ owed' = IF i \in files \intersect rows THEN owed \union {i} ELSE owed

\* A file that is gone already is as good as removed.
CallService(w) ==
    /\ At(w, "call")
    /\ IF request[w].intent = NoIntent THEN UNCHANGED <<files, owed>> ELSE Remove(Item(w))
    /\ Done(w)
    /\ UNCHANGED <<rows, intents>> /\ passUnchanged

\* The call is refused, or answered too late, or fails at Sonarr after the files
\* went; the intent keeps the error and stays pending.
CallFails(w) ==
    /\ At(w, "call") /\ request[w].intent # NoIntent
    /\ Remove(Item(w)) \/ UNCHANGED <<files, owed>>
    /\ Mark(request[w].intent, "failed")
    /\ GiveUp(w)
    /\ UNCHANGED rows /\ passUnchanged

\* finalise_delete_in_tx does not ask whether the row is still there.
Finalise(w) ==
    /\ At(w, "finalise")
    /\ rows' = rows \ {Item(w)}
    /\ owed' = owed \ {Item(w)}
    /\ Done(w)
    /\ UNCHANGED <<files, intents>> /\ passUnchanged

\* The transaction fails: the request ends, row and intent stay.
FinaliseFails(w) ==
    /\ At(w, "finalise")
    /\ GiveUp(w)
    /\ UNCHANGED <<files, rows, intents, owed>> /\ passUnchanged

Complete(w) ==
    /\ At(w, "complete")
    /\ IF request[w].intent = NoIntent THEN UNCHANGED intents ELSE Mark(request[w].intent, "done")
    /\ Done(w)
    /\ UNCHANGED <<files, rows, owed>> /\ passUnchanged

\* api_media_redownload finds the title at a service and adds it there.
Redownload(i) ==
    /\ Up /\ i \in Managed \ files
    /\ files' = files \union {i}
    /\ UNCHANGED <<rows, intents, request, owed>> /\ passUnchanged

-----------------------------------------------------------------------------
(* The library passes, one library at a time.                              *)

Step(j, s) == Running /\ pass[j].step = s
LetGo(j)    == pass' = [pass EXCEPT ![j] = NoPass]

\* What Plex answers may be short; an item whose history cannot be read is seen
\* but not written.
Fetch(j, l) ==
    /\ Running /\ pass[j] = NoPass
    /\ \E seen \in SUBSET {i \in listed : LibraryOf[i] = l} : \E fetched \in {seen, {}} :
         pass' = [pass EXCEPT ![j] =
                    [step |-> "fetched", library |-> l, seen |-> seen, fetched |-> fetched,
                     marks |-> {}, looks |-> 0, mixed |-> FALSE]]
    /\ UNCHANGED <<files, listed, rows, intents, marked, request, phase, todo, owed, doubts, blurred>>

\* A scan commits the library's rows and comes back to its orphans later.
WriteRows(j) ==
    /\ j = ScanJob /\ Step(j, "fetched")
    /\ rows' = rows \union pass[j].fetched
    /\ pass' = [pass EXCEPT ![j].step = "guard", ![j].fetched = {}]
    /\ UNCHANGED <<files, listed, intents, marked, request, phase, todo, owed, doubts, blurred>>

InLibrary(j, R) == {i \in R : LibraryOf[i] = pass[j].library}

\* _suspicious_reason, with the rows after the write.
Suspicious(j, R) ==
    LET now == Cardinality(pass[j].seen)  before == Cardinality(InLibrary(j, R))
    IN  \/ now < MinToTrust /\ before >= MinToTrust
        \/ before > RatioFrom /\ now * RatioBase < before

DropFrom(j, R) ==
    /\ rows' = R \ (InLibrary(j, R) \ pass[j].seen)
    /\ owed' = owed \intersect rows'

\* Marks that changed since they were read.
Late(marks) == {l \in Libraries : (l \in marks) # (l \in marked)}

\* Mutated form: an answer that is believed does not lift the mark.
TrustKeepsMark(j, marks, R) ==
    LET l == pass[j].library
    IN  /\ UNCHANGED marked
        /\ blurred' = marked' \intersect (blurred \union IF l \in marks THEN Late(marks) ELSE {l})
        /\ doubts' = [doubts EXCEPT ![l] = 0]
        /\ DropFrom(j, R) /\ LetGo(j)

\* A believable answer lifts the mark it has read and drops the orphans, in one
\* transaction.
Trust(j, marks, R) ==
    LET l == pass[j].library
    IN  /\ marked' = IF l \in marks THEN marks \ {l} ELSE marked
        /\ blurred' = marked' \intersect (blurred \union IF l \in marks THEN Late(marks) ELSE {l})
        /\ doubts' = [doubts EXCEPT ![l] = 0]
        /\ DropFrom(j, R) /\ LetGo(j)

\* The first doubtful answer is only noted; one that finds the mark is believed.
\* The whole list of marks is written, and committed before anything is dropped.
Doubt(j, marks, R) ==
    LET l == pass[j].library
    IN  /\ doubts' = [doubts EXCEPT ![l] = IF @ < 2 THEN @ + 1 ELSE 2]
        /\ marked' = IF l \in marks THEN marks \ {l} ELSE marks \union {l}
        /\ blurred' = marked' \intersect ((blurred \union Late(marks)) \ {l})
        /\ IF l \in marks
           THEN pass' = [pass EXCEPT ![j].step = "drop", ![j].marks = {}, ![j].fetched = {},
                            ![j].looks = doubts'[l], ![j].mixed = l \in blurred \union Late(marks)]
           ELSE LetGo(j)
        /\ rows' = R
    /\ UNCHANGED owed

\* A scan, or a sync that has nothing to write, counts the rows and reads the marks
\* without a transaction, and decides on them later.
Look(j) ==
    /\ Step(j, "guard") \/ (j # ScanJob /\ Step(j, "fetched") /\ pass[j].fetched = {})
    /\ pass' = [pass EXCEPT ![j].marks = marked,
                  ![j].step = IF Suspicious(j, rows) THEN "doubt" ELSE "trust"]
    /\ UNCHANGED <<files, listed, rows, intents, marked, request, phase, todo, owed, doubts, blurred>>

Decide(j) ==
    /\ \/ Step(j, "trust") /\ Trust(j, pass[j].marks, rows)
       \/ Step(j, "doubt") /\ Doubt(j, pass[j].marks, rows)
    /\ UNCHANGED <<files, listed, intents, request, phase, todo>>

\* A sync that writes rows looks and decides in the same transaction.
SyncLook(j) ==
    /\ j # ScanJob /\ Step(j, "fetched") /\ pass[j].fetched # {}
    /\ LET written == rows \union pass[j].fetched
       IN  \/ ~Suspicious(j, written) /\ Trust(j, marked, written)
           \/ Suspicious(j, written) /\ Doubt(j, marked, written)
    /\ UNCHANGED <<files, listed, intents, request, phase, todo>>

DropConfirmed(j) ==
    /\ Step(j, "drop")
    /\ DropFrom(j, rows)
    /\ LetGo(j)
    /\ UNCHANGED <<files, listed, intents, marked, request, phase, todo, doubts, blurred>>

\* Plex follows the files at its own pace.
PlexNotices(i) ==
    /\ (i \in files) # (i \in listed)
    /\ listed' = IF i \in files THEN listed \union {i} ELSE listed \ {i}
    /\ UNCHANGED <<files, rows, intents, marked, request, pass, phase, todo, owed, doubts, blurred>>

-----------------------------------------------------------------------------
(* Crashes and the next start.                                             *)

Crash ==
    /\ phase # "down"
    /\ phase' = "down" /\ todo' = {}
    /\ request' = [w \in Workers |-> NoRequest]
    /\ pass' = [j \in Jobs |-> NoPass]
    /\ UNCHANGED <<files, listed, rows, intents, marked, owed, doubts, blurred>>

\* reconcile_pending_delete_intents reads its list once, before any request is
\* served but with the scheduler's passes beside it.
Boot ==
    /\ phase = "down"
    /\ phase' = "boot" /\ todo' = Pending \X {"row"}
    /\ UNCHANGED <<files, listed, rows, intents, marked, request, pass, owed, doubts, blurred>>

Booting(n, s) == phase = "boot" /\ <<n, s>> \in todo

\* The row of a pending intent is dropped first and the intent completed after
\* it; where the row is gone already the intent only completes.
ReconcileRow(n) ==
    /\ Booting(n, "row")
    /\ intents[n].item \in rows
    /\ rows' = rows \ {intents[n].item}
    /\ owed' = owed \ {intents[n].item}
    /\ todo' = (todo \ {<<n, "row">>}) \union {<<n, "intent">>}
    /\ UNCHANGED <<files, listed, intents, marked, request, pass, phase, doubts, blurred>>

ReconcileIntent(n) ==
    /\ Booting(n, "intent") \/ (Booting(n, "row") /\ intents[n].item \notin rows)
    /\ Mark(n, "done")
    /\ todo' = todo \ {<<n, "row">>, <<n, "intent">>}
    /\ UNCHANGED <<files, listed, rows, marked, request, pass, phase, owed, doubts, blurred>>

\* One that fails keeps its error and waits for the next start.
ReconcileFails(n) ==
    /\ Booting(n, "row") \/ Booting(n, "intent")
    /\ Mark(n, "failed")
    /\ todo' = todo \ {<<n, "row">>, <<n, "intent">>}
    /\ UNCHANGED <<files, listed, rows, marked, request, pass, phase, owed, doubts, blurred>>

StartServing ==
    /\ phase = "boot" /\ todo = {}
    /\ phase' = "up"
    /\ UNCHANGED <<files, listed, rows, intents, marked, request, pass, todo, owed, doubts, blurred>>

LibraryNext ==
    \/ \E w \in Workers :
        \/ RecordIntent(w) \/ CallService(w) \/ CallFails(w)
        \/ Finalise(w) \/ FinaliseFails(w) \/ Complete(w)
        \/ \E i \in Items : Snapshot(w, i)
    \/ \E i \in Items : Redownload(i) \/ PlexNotices(i)
    \/ \E j \in Jobs :
        \/ \E l \in Libraries : Fetch(j, l)
        \/ WriteRows(j) \/ Look(j) \/ Decide(j) \/ SyncLook(j) \/ DropConfirmed(j)
    \/ Crash \/ Boot \/ StartServing
    \/ \E n \in 1..MaxIntents : ReconcileRow(n) \/ ReconcileIntent(n) \/ ReconcileFails(n)

LibrarySpec == LibraryInit /\ [][LibraryNext]_libVars

-----------------------------------------------------------------------------
(* Properties. *)

\* A row whose file a request has removed is never forgotten: until it goes, an
\* intent on record says that it has to, through failures, crashes and restarts.
OwedRowsRemembered ==
    /\ LibraryTypeOK
    /\ \A i \in owed : \E n \in Pending : intents[n].item = i

\* delete_intents is a record kept ahead of the removals at Radarr and Sonarr.
Ahead == INSTANCE WriteAhead WITH promised <- {intents[n].item : n \in Pending}

\* Deletions by hand keep the promise of WriteAhead: no file goes for an intent that
\* is not on record already, and no intent is completed that still owes a row.
DeletionsWriteAhead == Ahead!Spec

\* A pass of j takes rows from library l after an answer it does not believe.
PrunesOnDoubt(j, l) ==
    /\ WriteRows(j) \/ Decide(j) \/ SyncLook(j) \/ DropConfirmed(j)
    /\ \E i \in rows \ rows' : LibraryOf[i] = l
    /\ pass[j].step = "drop" \/ doubts'[l] # 0

\* No library loses rows to its first doubtful answer: a pass that drops rows after an
\* answer it does not believe has had one before, and none that it believed in between,
\* whatever crashed or was written meanwhile.  Only where passes overlap, and one of
\* them decided on marks of that library that another had changed since, is it not so.
PruneNeedsTwoLooks ==
    [][\A j \in Jobs, l \in Libraries : PrunesOnDoubt(j, l) =>
          pass[j].step = "drop" /\ pass[j].library = l
          /\ (pass[j].looks = 2 \/ pass[j].mixed)]_libVars

\* What phases/delete.py promises: only a second consecutive suspicious look prunes.
SecondLookPrunes ==
    [][\A j \in Jobs, l \in Libraries : PrunesOnDoubt(j, l) => pass[j].looks = 2]_libVars
=============================================================================
