---------------------------- MODULE DownloadQueue ----------------------------
(***************************************************************************)
(* The downloads page.  Every request for it lists what Radarr, Sonarr and *)
(* NZBGet are doing, swaps the list for the one before, and records in     *)
(* recent_downloads what has left the list and has its file.  Requests     *)
(* overlap: a list may be older than the one it replaces, or be applied    *)
(* to rows that are younger than the list.                                 *)
(***************************************************************************)
EXTENDS Naturals, FiniteSets, SequencesExt

CONSTANTS
    Films,          \* the films and series at Radarr and Sonarr
    DlId,           \* dl_id of each: service and title, without the year
    TitleOf,        \* the title of every dl_id and of every job
    SourceOf,       \* the service of every dl_id
    CardOrder,      \* the dl_ids, as the services list them
    SeriesIds,      \* those of series
    Jobs,           \* NZBGet jobs
    Alike,          \* <<job, dl_id>>: one name contains the other
    SeriesLike,     \* jobs whose name has a season marker
    Remaining,      \* what is left of each job
    Requests,       \* requests for the page
    MaxChanges      \* bound on what happens at the services

VARIABLES
    library,        \* what Radarr and Sonarr hold of each film
    running,        \* what NZBGet lists
    changes,        \* the bounded number of changes there
    previous,       \* _previous_queue
    started,        \* _previous_initialised
    recent,         \* the ids of recent_downloads, and (ghost) the film each stands for
    request,        \* what each request for the page is doing
    filed,          \* ghost: films that had a file at some time
    fate            \* ghost: what became of each id that was on a list

queueVars == <<library, running, changes, previous, started, recent, request, filed, fate>>

services == <<library, running, changes, filed>>

ArrIds  == {DlId[f] : f \in Films}
ItemIds == ArrIds \union Jobs
Sources == {SourceOf[i] : i \in ArrIds}

\* An item of the list: the film it stands for, and whether its number at TMDB is known.
NoRow   == "no row"
Absent  == [film |-> "absent", pinned |-> FALSE]
JobItem == [film |-> "none", pinned |-> FALSE]
Items   == [film : Films \union {"none"}, pinned : BOOLEAN]
Lists   == [ItemIds -> Items \union {Absent}]
Nothing == [i \in ItemIds |-> Absent]
On(list) == {i \in ItemIds : list[i] # Absent}

\* An item of a list that was kept is owed: it has to be recorded when it leaves the
\* list, unless it has no file then.  A completion is lost to a service that is silent
\* when it is asked, to a failed INSERT, to a list older than the row, to another item
\* of the title, or to a restart.
Causes == {"silent", "unwritten", "older", "title", "restart"}
Fates  == {"settled", "owed"} \union Causes
owed   == {i \in ItemIds : fate[i] = "owed"}

\* What was owed and is not on the kept list ends as `how` says.
Ends(how) == [i \in ItemIds |-> IF i \in (owed \intersect DOMAIN how) \ On(previous)
                                THEN how[i] ELSE fate[i]]

\* A dl_id begins with its service, and a job's name does not.
ASSUME QueueAssumption ==
    /\ {"none", NoRow, "absent"} \intersect Films = {}
    /\ Jobs \intersect ArrIds = {}
    /\ MaxChanges \in Nat
    /\ CardOrder \in Seq(ArrIds) /\ ArrIds \subseteq Range(CardOrder)
    /\ IsFiniteSet(Jobs) /\ \A j \in Jobs : Remaining[j] \in Nat

Resting == [step |-> "idle", list |-> Nothing, gone |-> Nothing, done |-> {}, newer |-> {}]
PageSteps == {"idle", "jobs", "swap", "verify", "insert", "sync"}

QueueTypeOK ==
    /\ library \in [Films -> {"wanted", "queued", "filed", "upgrading", "hidden"}]
    /\ running \subseteq Jobs /\ changes \in 0..MaxChanges
    /\ previous \in Lists /\ started \in BOOLEAN
    /\ recent \in [ItemIds -> Films \union {"none", NoRow}]
    /\ request \in [Requests -> [step : PageSteps, list : Lists, gone : Lists,
                                 done : SUBSET ItemIds, newer : SUBSET ItemIds]]
    /\ filed \subseteq Films /\ fate \in [ItemIds -> Fates]

HasFile(f) == library[f] \in {"filed", "upgrading"}

QueueInit ==
    /\ library \in [Films -> {"wanted", "queued", "filed"}]
    /\ filed = {f \in Films : HasFile(f)}
    /\ running \in SUBSET Jobs /\ changes = 0
    /\ previous = Nothing /\ started = FALSE
    /\ recent = [i \in ItemIds |-> NoRow]
    /\ request = [r \in Requests |-> Resting]
    /\ fate = [i \in ItemIds |-> "settled"]

Doing(r, s) == request[r].step = s
-----------------------------------------------------------------------------
(* What the services do of their own accord.                               *)

\* Hidden: unmonitored, or not released yet.
Next1(state) ==
    CASE state = "wanted"    -> {"queued", "hidden"}
      [] state = "queued"    -> {"filed", "wanted", "hidden"}
      [] state = "filed"     -> {"upgrading", "wanted"}
      [] state = "upgrading" -> {"filed"}
      [] state = "hidden"    -> {"wanted"}

FilmMoves(f) ==
    /\ changes < MaxChanges /\ changes' = changes + 1
    /\ \E s \in Next1(library[f]) : library' = [library EXCEPT ![f] = s]
    /\ filed' = filed \union {g \in Films : library'[g] \in {"filed", "upgrading"}}
    /\ UNCHANGED <<running, previous, started, recent, request, fate>>

JobMoves(j) ==
    /\ changes < MaxChanges /\ changes' = changes + 1
    /\ running' = IF j \in running THEN running \ {j} ELSE running \union {j}
    /\ UNCHANGED <<library, filed, previous, started, recent, request, fate>>

-----------------------------------------------------------------------------
(* Building the list.                                                      *)

InQueue(f)   == library[f] \in {"queued", "upgrading"}
Searching(f) == library[f] = "wanted"

\* The films of a dl_id that have a card: a service that fails leaves none; one whose
\* library fails leaves its queue.
Cards(i, up, whole) ==
    {f \in Films : /\ DlId[f] = i /\ SourceOf[i] \in up
                   /\ InQueue(f) \/ (Searching(f) /\ SourceOf[i] \in whole)}

\* Of two films with one dl_id the one that is searched for replaces the other.
Shown(cards) ==
    LET waiting == {f \in cards : Searching(f)}
    IN  CHOOSE f \in (IF waiting # {} THEN waiting ELSE cards) : TRUE

\* Its number is known where the title is one film's alone, or the card is the library's.
Pinned(i, film, known) ==
    Cardinality({f \in Films : DlId[f] = i}) > 1 => (Searching(film) /\ SourceOf[i] \in known)

Fetch(r) ==
    /\ Doing(r, "idle")
    /\ \E up, known \in SUBSET Sources : \E whole \in SUBSET up :
         request' = [request EXCEPT ![r] = [Resting EXCEPT
             !.step = "jobs",
             !.list = [i \in ItemIds |->
                 LET cards == Cards(i, up, whole)
                 IN  IF i \in ArrIds /\ cards # {}
                     THEN [film |-> Shown(cards), pinned |-> Pinned(i, Shown(cards), known)]
                     ELSE Absent]]]
    /\ UNCHANGED <<services, previous, started, recent, fate>>

\* _find_best_nzb_match and _mark_series_nzb_matches for one card; `free` are the
\* jobs no card before it has taken.
Takes(i, free) ==
    LET fit  == {j \in free : <<j, i>> \in Alike /\ (i \in SeriesIds \/ j \notin SeriesLike)}
        best == CHOOSE j \in fit : \A k \in fit : Remaining[k] <= Remaining[j]
    IN  IF fit = {} THEN {}
        ELSE IF i \in SeriesIds THEN fit ELSE {best}

\* What the first n cards leave of the jobs.
Leave(list, jobs) ==
    LET free[n \in 0..Len(CardOrder)] ==
            IF n = 0 THEN jobs
            ELSE IF list[CardOrder[n]] = Absent THEN free[n - 1]
            ELSE free[n - 1] \ Takes(CardOrder[n], free[n - 1])
    IN  free

Claimed(list, jobs) == jobs \ Leave(list, jobs)[Len(CardOrder)]

\* A job that no card takes is an item of its own.  NZBGet that fails lists nothing.
ListJobs(r) ==
    /\ Doing(r, "jobs")
    /\ \E jobs \in {running, {}} :
         request' = [request EXCEPT ![r].step = "swap",
                       ![r].list = [i \in ItemIds |->
                           IF i \in jobs \ Claimed(@, jobs) THEN JobItem ELSE @[i]]]
    /\ UNCHANGED <<services, previous, started, recent, fate>>

-----------------------------------------------------------------------------
(* Completions.                                                            *)

\* detect_completed
Completed(before, list) == [i \in ItemIds |-> IF list[i] = Absent THEN before[i] ELSE Absent]

Swap(r) ==
    /\ Doing(r, "swap")
    /\ LET gone == IF started THEN Completed(previous, request[r].list) ELSE Nothing
       IN  request' = [request EXCEPT ![r].gone = gone,
                         ![r].step = IF gone = Nothing THEN "sync" ELSE "verify"]
    /\ previous' = request[r].list /\ started' = TRUE
    /\ fate' = [i \in ItemIds |-> IF i \in On(request[r].list) THEN "owed" ELSE fate[i]]
    /\ UNCHANGED <<services, recent>>

\* Without a number the title decides, and the last film of that title.
LibraryFilm(i, item) ==
    IF item.pinned THEN item.film
    ELSE CHOOSE f \in {g \in Films : DlId[g] = i} : TRUE

\* _check_item_verified: a job alone counts as done.
Confirmed(i, item) == i \in Jobs \/ HasFile(LibraryFilm(i, item))

\* Mutated form: one service that fails spoils the whole list.
VerifiedOrNone(gone, down) ==
    {i \in On(gone) : (i \in Jobs \/ down = {}) /\ Confirmed(i, gone[i])}

\* An item whose service fails is passed over, the others are not.
Verified(gone, down) ==
    {i \in On(gone) : (i \in Jobs \/ SourceOf[i] \notin down) /\ Confirmed(i, gone[i])}

\* Why the others are not: another film of the title was asked about, or there is no file.
Refused(gone, down) ==
    [i \in {k \in On(gone) \ Jobs : SourceOf[k] \in down \/ ~Confirmed(k, gone[k])} |->
        IF SourceOf[i] \in down THEN "silent"
        ELSE IF HasFile(gone[i].film) THEN "title" ELSE "settled"]

Verify(r) ==
    /\ Doing(r, "verify")
    /\ \E down \in SUBSET {SourceOf[i] : i \in On(request[r].gone) \ Jobs} :
         LET gone == request[r].gone
             done == Verified(gone, down)
         IN  /\ request' = [request EXCEPT ![r].done = done,
                              ![r].gone = IF done = {} THEN Nothing ELSE @,
                              ![r].step = IF done = {} THEN "sync" ELSE "insert"]
             /\ fate' = Ends(Refused(gone, down))
    /\ UNCHANGED <<services, previous, started, recent>>

\* INSERT OR IGNORE; a failure of the batch is passed over.
Insert(r) ==
    /\ Doing(r, "insert")
    /\ LET new == {i \in request[r].done : recent[i] = NoRow}
           mine == [request EXCEPT ![r].step = "sync", ![r].gone = Nothing, ![r].done = {}]
       IN  \/ /\ recent' = [i \in ItemIds |-> IF i \in new THEN request[r].gone[i].film ELSE recent[i]]
              /\ request' = [q \in Requests |->
                                IF q # r /\ Doing(q, "idle") THEN mine[q]
                                ELSE [mine[q] EXCEPT !.newer = IF q = r THEN @ ELSE @ \union request[r].done]]
              /\ UNCHANGED fate
           \/ /\ request' = mine /\ fate' = Ends([i \in request[r].done |-> "unwritten"])
              /\ UNCHANGED recent
    /\ UNCHANGED <<services, previous, started>>

\* The rows of what is active again go, by id or by title.
Sync(r) ==
    /\ Doing(r, "sync")
    /\ LET list   == request[r].list
           active == {TitleOf[i] : i \in On(list)}
           drops  == {i \in ItemIds : recent[i] # NoRow /\ TitleOf[i] \in active}
           \* The item is not back: its title is another's, or the list is older than the row.
           spent  == {i \in drops : i \notin On(list) \/ i \in request[r].newer}
       IN  /\ recent' = [i \in ItemIds |-> IF i \in drops THEN NoRow ELSE recent[i]]
           /\ fate' = Ends([i \in spent |-> IF i \in On(list) THEN "older" ELSE "title"])
    /\ request' = [request EXCEPT ![r] = Resting]
    /\ UNCHANGED <<services, previous, started>>

\* cleanup_recent_downloads, after seven days.
Cleanup ==
    /\ \E i \in ItemIds : recent[i] # NoRow
    /\ recent' = [i \in ItemIds |-> NoRow]
    /\ fate' = [i \in ItemIds |-> IF recent[i] # NoRow /\ i \notin On(previous)
                                  THEN "settled" ELSE fate[i]]
    /\ UNCHANGED <<services, previous, started, request>>

\* The lists are in memory only.
ForgetLists ==
    /\ started
    /\ previous' = Nothing /\ started' = FALSE
    /\ request' = [r \in Requests |-> Resting]
    /\ fate' = [i \in ItemIds |-> IF i \in owed /\ recent[i] = NoRow THEN "restart" ELSE fate[i]]
    /\ UNCHANGED <<services, recent>>

QueueNext ==
    \/ \E f \in Films : FilmMoves(f)
    \/ \E j \in Jobs : JobMoves(j)
    \/ \E r \in Requests :
        Fetch(r) \/ ListJobs(r) \/ Swap(r) \/ Verify(r) \/ Insert(r) \/ Sync(r)
    \/ Cleanup \/ ForgetLists

QueueSpec == QueueInit /\ [][QueueNext]_queueVars

-----------------------------------------------------------------------------
(* Properties. *)

\* Still to be found missing by the next request, recorded, or being looked at now.
Tracked(i) ==
    \/ i \in On(previous) \/ recent[i] # NoRow
    \/ \E r \in Requests : \/ Doing(r, "verify") /\ i \in On(request[r].gone)
                           \/ Doing(r, "insert") /\ i \in request[r].done

\* An item that was on a kept list is tracked until it is found to have no file or its
\* row is a week old: apart from Causes, nothing loses a completion, and two requests
\* that overlap lose one only by the rows an older list deletes.
LossesHaveACause == \A i \in owed : Tracked(i)

\* What the package says of completions (completion/__init__.py), with every cause but
\* one allowed for: requests that overlap lose none.
CompletionsRecorded == \A i \in ItemIds : fate[i] \in {"owed", "older"} => Tracked(i)

\* What is recorded of Radarr or Sonarr had a file, under that title.
RecordedHadFile ==
    \A i \in ArrIds : recent[i] # NoRow => \E f \in filed : DlId[f] = i

\* A job that is an item of its own was left over by every card it is like: a series
\* takes all its jobs, a film the one of which most is left.
JobsPlaced ==
    \A r \in Requests : Doing(r, "swap") =>
        LET alone == On(request[r].list) \intersect Jobs
        IN  \A j \in alone : \A i \in On(request[r].list) \intersect ArrIds :
                <<j, i>> \in Alike =>
                    /\ i \notin SeriesIds
                    /\ j \in SeriesLike \/ \E k \in Jobs \ alone :
                            <<k, i>> \in Alike /\ Remaining[k] >= Remaining[j]

PageRecordsCompletions == QueueTypeOK /\ LossesHaveACause /\ RecordedHadFile /\ JobsPlaced
=============================================================================
