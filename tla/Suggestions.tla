----------------------------- MODULE Suggestions ------------------------------
(***************************************************************************)
(* Recommendations: the table suggestions, which a scan adds to and an     *)
(* admin's refresh replaces the batch of the day of; the page that shows   *)
(* them with what Radarr and Sonarr say of each title, and takes back      *)
(* "downloaded" from a title that is gone there; the button that adds one. *)
(* A film and a series stand for those two services.                       *)
(***************************************************************************)
EXTENDS Integers, FiniteSets, FiniteSetsExt, Functions

CONSTANTS
    Titles,
    Films,          \* the titles Radarr keeps; Sonarr keeps the others
    PickRequests,   \* requests for a refresh, each made once
    PickDay,        \* a day, which is also RECOMMENDATION_REFRESH_COOLDOWN_HOURS
    KeepDays,       \* the ninety days after which a scan drops a batch
    MaxRows,        \* bound on the rows ever made
    MaxPickTime,    \* bound on the time
    MaxMoves        \* bound on scans, pages, clicks, crashes and changes at the services

Ids      == 1..MaxRows
Scan     == "scan"
Refreshers == PickRequests \cup {Scan}
Services == {Titles \cap Films, Titles \ Films}
NoTitle  == [title |-> "none", batch |-> 0, flag |-> FALSE, by |-> Scan]
Resting  == [step |-> "idle", asked |-> 0, day |-> 0, picks |-> {}]
NoPage   == [rows |-> {}, list |-> <<>>, heard |-> {}, queue |-> {}, ready |-> {}, gone |-> {}]
NoClick  == [step |-> "idle", id |-> 1, title |-> "none"]

\* What is asked of the constants.
PicksAssumption ==
    /\ IsFiniteSet(Titles) /\ "none" \notin Titles /\ Scan \notin PickRequests
    /\ {PickDay, MaxRows} \subseteq Nat \ {0} /\ {KeepDays, MaxPickTime, MaxMoves} \subseteq Nat

ASSUME PicksAssumed == PicksAssumption

VARIABLES
    hour,       \* the time
    row,        \* the table suggestions, by id
    made,       \* how many rows have been made: ids are never used again
    lastRefresh,    \* setting last_manual_recommendation_refresh, and when: {} or {time}
    lease,      \* the request that holds the lease of a refresh: {} or {request}
    refresh,    \* where each refresh is
    held,       \* what the services hold of a title
    queued,     \* titles in a service's queue
    moves,      \* the bounded number
    page,       \* the page being built
    click,      \* the click on a download button being served
    accepted,   \* ghost: titles a service has taken from the button
    offered,     \* ghost: days that have had picks
    wronged     \* ghost: titles whose mark was taken back though they were there

pickVars == <<hour, row, made, lastRefresh, lease, refresh, held, queued, moves, page, click,
              accepted, offered, wronged>>
table    == <<row, made, lastRefresh, lease, offered>>
outside  == <<held, queued>>

Found(i) == row[i] # NoTitle
Rows  == {i \in Ids : Found(i)}
Today == hour \div PickDay
Working(r) == refresh[r].step \in {"generate", "insert", "record", "finish"}

PicksTypeOK ==
    /\ hour \in 0..MaxPickTime /\ made \in 0..MaxRows /\ moves \in 0..MaxMoves
    /\ row \in [Ids -> {NoTitle} \cup [title : Titles, batch : 0..MaxPickTime, flag : BOOLEAN,
                                       by : Refreshers]]
    /\ lastRefresh \in SUBSET (0..MaxPickTime) /\ lease \in SUBSET PickRequests
    /\ held \in [Titles -> {"absent", "idle", "wanted", "file"}] /\ queued \subseteq Titles
    /\ click \in [step : {"idle", "add", "mark"}, id : Ids, title : Titles \cup {"none"}]

PicksInit ==
    /\ hour = 0 /\ row = [i \in Ids |-> NoTitle] /\ made = 0 /\ lastRefresh = {} /\ lease = {}
    /\ refresh = [r \in Refreshers |-> Resting]
    /\ held \in [Titles -> {"absent", "wanted"}] /\ queued = {} /\ moves = 0
    /\ page = NoPage /\ click = NoClick
    /\ accepted = {} /\ offered = {} /\ wronged = {}

Move == moves < MaxMoves /\ moves' = moves + 1
RefreshAt(r, step) == refresh[r].step = step
Go(r, rec)  == refresh' = [refresh EXCEPT ![r] = rec]
EndOf(r)    == Go(r, [Resting EXCEPT !.step = IF r = Scan THEN "idle" ELSE "over"])

-----------------------------------------------------------------------------
(* Refreshing.                                                             *)

\* refresh_cooldown_remaining
Cooling == \E t \in lastRefresh : hour - t < PickDay

\* api_refresh_recommendations looks at the cooldown and then claims the lease.
AskToRefresh(r) ==
    /\ r \in PickRequests /\ RefreshAt(r, "idle") /\ ~Cooling
    /\ Go(r, [Resting EXCEPT !.step = "claim", !.asked = hour])
    /\ UNCHANGED <<hour, moves, table, outside, page, click, accepted, wronged>>

Claim(r) ==
    /\ RefreshAt(r, "claim")
    /\ IF lease = {}
       THEN /\ lease' = {r}
            /\ Go(r, [refresh[r] EXCEPT !.step = "generate", !.day = Today])
       ELSE EndOf(r) /\ UNCHANGED lease
    /\ UNCHANGED <<hour, moves, row, made, lastRefresh, offered, outside, page, click, accepted, wronged>>

\* The last step of a scan but the newsletter.
StartScan ==
    /\ Move /\ RefreshAt(Scan, "idle")
    /\ Go(Scan, [Resting EXCEPT !.step = "generate", !.day = Today])
    /\ UNCHANGED <<hour, table, outside, page, click, accepted, wronged>>

\* generate_trending, generate_personal, enrich_recommendations: the answers may be empty,
\* and a call may raise.  The day is that of the beginning.
Generate(r) ==
    /\ RefreshAt(r, "generate")
    /\ \E picks \in SUBSET Titles :
         IF picks = {}
         THEN EndOf(r) /\ lease' = lease \ {r}
         ELSE /\ Go(r, [refresh[r] EXCEPT !.step = "insert", !.picks = picks])
              /\ UNCHANGED lease
    /\ UNCHANGED <<hour, moves, row, made, lastRefresh, offered, outside, page, click, accepted, wronged>>

Dropped(r) ==
    {i \in Rows : IF r \in PickRequests THEN row[i].batch = refresh[r].day
                  ELSE row[i].batch + KeepDays < refresh[r].day}

\* Mutated form: without AUTOINCREMENT, the ids of the last rows are given again.
NextAfterLast(rows) == 1 + (IF rows = {} THEN 0 ELSE Max(rows))

NextId(rows) == made + 1

\* _insert_recommendations: out with the old and in with the new in one transaction.
InsertPicks(r) ==
    /\ RefreshAt(r, "insert")
    /\ LET old == Rows \ Dropped(r)
           first == NextId(old)
           fresh == first..(first + Cardinality(refresh[r].picks) - 1)
       IN  /\ fresh \subseteq Ids
           /\ LET name == CHOOSE f \in Bijection(fresh, refresh[r].picks) : TRUE
              IN  row' = [i \in Ids |->
                    IF i \in fresh
                    THEN [title |-> name[i], batch |-> refresh[r].day, flag |-> FALSE, by |-> r]
                    ELSE IF i \in old THEN row[i] ELSE NoTitle]
           /\ made' = made + Cardinality(fresh)
    /\ offered' = offered \cup {refresh[r].day}
    /\ IF r = Scan THEN EndOf(r) ELSE Go(r, [refresh[r] EXCEPT !.step = "record"])
    /\ UNCHANGED <<hour, moves, lastRefresh, lease, outside, page, click, accepted, wronged>>

RecordManualRefresh(r) ==
    /\ RefreshAt(r, "record")
    /\ lastRefresh' = {hour}
    /\ Go(r, [refresh[r] EXCEPT !.step = "finish"])
    /\ UNCHANGED <<hour, moves, row, made, lease, offered, outside, page, click, accepted, wronged>>

\* finish_refresh_run, at the end or when a step has raised.
FinishRefresh(r) ==
    /\ Working(r) /\ EndOf(r) /\ lease' = lease \ {r}
    /\ UNCHANGED <<hour, moves, row, made, lastRefresh, offered, outside, page, click, accepted, wronged>>

-----------------------------------------------------------------------------
(* The page.                                                               *)

Building == page.rows # {}
Missing(t, h) == h = "absent" \/ (h = "idle" /\ t \in Films)

\* fetch_recommendations
OpenPage ==
    /\ Move /\ ~Building
    /\ page' = [NoPage EXCEPT !.rows = {[id |-> i, title |-> row[i].title,
                                         flag |-> row[i].flag] : i \in Rows},
                              !.gone = {t \in Titles : Missing(t, held[t])}]
    /\ UNCHANGED <<hour, table, refresh, outside, click, accepted, wronged>>

\* _build_arr_index: a service is asked once, for the titles of its kind on the page, and
\* may not answer or not be set up.
ListService(s) ==
    /\ Building /\ s \cap {rec.title : rec \in page.rows} # {}
    /\ s \notin page.heard
    /\ \E answers \in BOOLEAN :
         page' = [page EXCEPT !.heard = @ \cup {s},
                              !.ready = IF answers THEN @ ELSE @ \cup {s},
                              !.list = IF answers THEN [t \in s \cup DOMAIN @ |->
                                                       IF t \in s THEN held[t] ELSE @[t]]
                                       ELSE @]
    /\ UNCHANGED <<hour, moves, table, refresh, outside, click, accepted, wronged>>

\* client.get_queue, the second call.
QueueOf(s) ==
    /\ s \in page.heard \ page.ready
    /\ \E answers \in BOOLEAN :
         page' = [page EXCEPT !.ready = @ \cup {s},
                              !.queue = IF answers THEN @ \cup (queued \cap s) ELSE @,
                              !.list = IF answers THEN @
                                       ELSE [t \in DOMAIN @ \ s |-> @[t]]]
    /\ UNCHANGED <<hour, moves, table, refresh, outside, click, accepted, wronged>>

\* compute_download_state: a film nobody asks for any more has no state, a series has one.
HasState(t) ==
    \/ page.list[t] \in {"file", "wanted"}
    \/ page.list[t] = "idle" /\ (t \notin Films \/ t \in page.queue)

\* attach_download_states: the flags that are not true any more go.
ClosePage ==
    /\ Building
    /\ \A s \in Services : s \cap {rec.title : rec \in page.rows} # {} => s \in page.ready
    /\ LET stale == {rec \in page.rows : rec.flag /\ rec.title \in DOMAIN page.list
                                         /\ ~HasState(rec.title)}
           ids   == {rec.id : rec \in stale}
       IN  /\ row' = [i \in Ids |-> IF i \in ids /\ Found(i)
                                    THEN [row[i] EXCEPT !.flag = FALSE] ELSE row[i]]
           /\ wronged' = wronged \cup {rec.title : rec \in {x \in stale : x.title \notin page.gone}}
    /\ page' = NoPage
    /\ UNCHANGED <<hour, moves, made, lastRefresh, lease, offered, refresh, outside, click, accepted>>

-----------------------------------------------------------------------------
(* The button, and the services.                                           *)

\* fetch_suggestion_by_id, of a row an older page may show.
Click(i) ==
    /\ Move /\ click.step = "idle" /\ i \in Rows
    /\ click' = [step |-> "add", id |-> i, title |-> row[i].title]
    /\ UNCHANGED <<hour, table, refresh, outside, page, accepted, wronged>>

\* _add_rec_to_radarr, _add_rec_to_sonarr: a title that is there already is refused.
AddToService ==
    /\ click.step = "add"
    /\ \/ /\ held[click.title] = "absent"
          /\ held' = [held EXCEPT ![click.title] = "wanted"]
          /\ accepted' = accepted \cup {click.title}
          /\ click' = [click EXCEPT !.step = "mark"]
       \/ click' = NoClick /\ UNCHANGED <<held, accepted>>
    /\ UNCHANGED <<hour, moves, table, refresh, queued, page, wronged>>

\* mark_downloaded: a row that is gone by now is not marked, nor any other.
MarkDownloaded ==
    /\ click.step = "mark"
    /\ row' = IF Found(click.id) THEN [row EXCEPT ![click.id].flag = TRUE] ELSE row
    /\ click' = NoClick
    /\ UNCHANGED <<hour, moves, made, lastRefresh, lease, offered, refresh, outside, page, accepted, wronged>>

\* A title is added, no longer asked for, imported or deleted at its service.
Settles(t, h) ==
    /\ Move
    /\ held[t] # h /\ (held[t] = "absent" => h = "wanted")
    /\ held' = [held EXCEPT ![t] = h]
    /\ queued' = IF h \in {"absent", "file"} THEN queued \ {t} ELSE queued
    /\ page' = IF Building /\ Missing(t, h) THEN [page EXCEPT !.gone = @ \cup {t}] ELSE page
    /\ UNCHANGED <<hour, table, refresh, click, accepted, wronged>>

IsQueued(t) ==
    /\ Move
    /\ held[t] \in {"idle", "wanted"} /\ t \notin queued
    /\ queued' = queued \cup {t}
    /\ UNCHANGED <<hour, table, held, refresh, page, click, accepted, wronged>>

PickTick ==
    /\ hour < MaxPickTime /\ hour' = hour + 1
    /\ UNCHANGED <<moves, table, outside, refresh, page, click, accepted, wronged>>

\* The process ends; its lease is found stale by the next request.
PicksCrash ==
    /\ Move
    /\ refresh' = [r \in Refreshers |-> IF refresh[r].step \in {"idle", "over"} THEN refresh[r]
                                        ELSE [Resting EXCEPT !.step = IF r = Scan THEN "idle"
                                                                      ELSE "over"]]
    /\ lease' = {} /\ page' = NoPage /\ click' = NoClick
    /\ UNCHANGED <<hour, row, made, lastRefresh, offered, held, queued, accepted, wronged>>

PicksNext ==
    \/ StartScan \/ OpenPage \/ ClosePage \/ AddToService \/ MarkDownloaded \/ PickTick
    \/ PicksCrash
    \/ \E r \in Refreshers : \/ AskToRefresh(r) \/ Claim(r) \/ Generate(r) \/ InsertPicks(r)
                              \/ RecordManualRefresh(r) \/ FinishRefresh(r)
    \/ \E s \in Services : ListService(s) \/ QueueOf(s)
    \/ \E i \in Ids : Click(i)
    \/ \E t \in Titles : IsQueued(t) \/ \E h \in {"absent", "idle", "wanted", "file"} : Settles(t, h)

PicksSpec == PicksInit /\ [][PicksNext]_pickVars

-----------------------------------------------------------------------------
(* Properties. *)

\* A row is marked as downloaded only if its title was added by the button: the mark of a
\* click on a row that has been replaced lands on no other.
MarksHitTheirTitle == \A i \in Rows : row[i].flag => row[i].title \in accepted

\* The page takes a mark back only from a title nobody asked for at its service at some
\* moment since the page was opened: neither from what a service did not answer for nor
\* from what was imported meanwhile.
MarksLostByTheGone == wronged = {}

\* A day that has had picks has some until they are too old, whatever becomes of the
\* refreshes that were to replace them.
PicksStay ==
    \A d \in offered : d + KeepDays >= Today => \E i \in Rows : row[i].batch = d

\* The picks of a day are those of one manual refresh and of scans.
OneRefreshPerBatch ==
    \A i, j \in Rows : row[i].batch = row[j].batch /\ {row[i].by, row[j].by} \subseteq PickRequests
                       => row[i].by = row[j].by

\* A refresh works alone, and within a day of another only if it was asked for before that
\* one was on record.
RefreshesApart ==
    \A r \in PickRequests : Working(r) =>
        /\ lease = {r}
        /\ \A t \in lastRefresh : t >= refresh[r].asked \/ hour - t >= PickDay

SuggestionsKept ==
    /\ PicksTypeOK /\ MarksHitTheirTitle /\ MarksLostByTheGone /\ PicksStay
    /\ OneRefreshPerBatch /\ RefreshesApart
=============================================================================
