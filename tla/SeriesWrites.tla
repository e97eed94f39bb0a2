---------------------------- MODULE SeriesWrites -----------------------------
(***************************************************************************)
(* What the program changes of one series at Sonarr: an admin deletes a    *)
(* season or abandons some, and the search job abandons.  Sonarr offers no *)
(* version to write against: a season is unmonitored by reading the series *)
(* and writing it back whole, and a series is deleted with its files after *)
(* a question whether any are left.                                        *)
(***************************************************************************)
EXTENDS Naturals, FiniteSets

CONSTANTS
    Seasons,        \* the seasons of the series
    Writers,        \* requests and jobs that change it
    MaxRetries      \* max_retries of _unmonitor_with_retry

ASSUME SeriesAssumption == MaxRetries \in Nat

VARIABLES
    present,        \* the series is at Sonarr
    monitored,      \* which of its seasons are monitored
    files,          \* which of its seasons have episode files
    throttled,      \* the search throttle of the series holds a count
    writer,         \* what each request or job is doing
    reported,       \* ghost: seasons reported as unmonitored, and not written since
    spoiled         \* ghost: a season lost files to somebody who deleted another

seriesVars == <<present, monitored, files, throttled, writer, reported, spoiled>>

\* copy: the monitored seasons of the series as it was read.  late: ghost, seasons
\* imported since has_remaining_files was asked.
Asleep == [step |-> "idle", kind |-> "none", todo |-> {}, season |-> {}, copy |-> {},
           tries |-> 0, failed |-> {}, late |-> {}]
WriterSteps == {"idle", "files", "next", "get", "put", "ask", "drop"}

SeriesTypeOK ==
    /\ present \in BOOLEAN /\ throttled \in BOOLEAN /\ spoiled \in BOOLEAN
    /\ monitored \subseteq Seasons /\ files \subseteq Seasons /\ reported \subseteq Seasons
    /\ writer \in [Writers -> [step : WriterSteps, kind : {"none", "delete", "abandon"},
                               todo : SUBSET Seasons, season : SUBSET Seasons,
                               copy : SUBSET Seasons, tries : 0..MaxRetries,
                               failed : SUBSET Seasons, late : SUBSET Seasons]]

SeriesInit ==
    /\ present = TRUE /\ throttled = TRUE /\ spoiled = FALSE
    /\ monitored \in SUBSET Seasons /\ files \in SUBSET Seasons
    /\ reported = {}
    /\ writer = [w \in Writers |-> Asleep]

Is(w, s) == writer[w].step = s
Set(w, rec) == writer' = [writer EXCEPT ![w] = rec]
atSonarr == <<present, monitored, files>>

-----------------------------------------------------------------------------

\* Sonarr fetches what is monitored and missing.
Import(s) ==
    /\ present /\ s \in monitored \ files
    /\ files' = files \union {s}
    /\ writer' = [w \in Writers |-> IF Is(w, "drop") THEN [writer[w] EXCEPT !.late = @ \union {s}]
                                    ELSE writer[w]]
    /\ UNCHANGED <<present, monitored, throttled, reported, spoiled>>

\* A search that found nothing is counted.
Count ==
    /\ present /\ monitored \ files # {} /\ ~throttled
    /\ throttled' = TRUE
    /\ UNCHANGED <<atSonarr, writer, reported, spoiled>>

\* delete.py starts with the files, abandon_seasons with the first season;
\* abandon_series names every season that is monitored when it asks.
StartDelete(w, s) ==
    /\ Is(w, "idle") /\ s \in files
    /\ Set(w, [Asleep EXCEPT !.step = "files", !.kind = "delete", !.season = {s}])
    /\ UNCHANGED <<atSonarr, throttled, reported, spoiled>>

StartAbandon(w, S) ==
    /\ Is(w, "idle") /\ S # {}
    /\ Set(w, [Asleep EXCEPT !.step = "next", !.kind = "abandon", !.todo = S])
    /\ UNCHANGED <<atSonarr, throttled, reported, spoiled>>

AbandonSeries(w) ==
    /\ Is(w, "idle") /\ present
    /\ IF monitored = {} THEN throttled' = FALSE /\ UNCHANGED writer
       ELSE /\ Set(w, [Asleep EXCEPT !.step = "next", !.kind = "abandon", !.todo = monitored])
            /\ UNCHANGED throttled
    /\ UNCHANGED <<atSonarr, reported, spoiled>>

\* The bulk call, or one call for each file where Sonarr does not know it: it may
\* fail before or after it did its work, and then the request gives up.
DeleteFiles(w) ==
    /\ Is(w, "files")
    /\ files' \in {files, files \ writer[w].season}
    /\ \/ Set(w, Asleep)
       \/ files' = files \ writer[w].season /\ Set(w, [writer[w] EXCEPT !.step = "get"])
    /\ UNCHANGED <<present, monitored, throttled, reported, spoiled>>

\* abandon_seasons goes through its seasons one by one.
NextSeason(w, s) ==
    /\ Is(w, "next") /\ s \in writer[w].todo
    /\ Set(w, [writer[w] EXCEPT !.step = "get", !.todo = @ \ {s}, !.season = {s}, !.tries = 0,
                                !.copy = {}])
    /\ UNCHANGED <<atSonarr, throttled, reported, spoiled>>

\* The throttle is cleared when every season went.
Finish(w) ==
    /\ Is(w, "next") /\ writer[w].todo = {}
    /\ throttled' = IF writer[w].failed = {} THEN FALSE ELSE throttled
    /\ Set(w, Asleep)
    /\ UNCHANGED <<atSonarr, reported, spoiled>>

Went(w, rec) ==
    Set(w, IF rec.kind = "delete" THEN [rec EXCEPT !.step = "ask", !.copy = {}]
           ELSE [rec EXCEPT !.step = "next", !.copy = {}])

\* A deletion ends here, an abandonment goes on with its other seasons.
Fails(w) ==
    Set(w, IF writer[w].kind = "delete" THEN Asleep
           ELSE [writer[w] EXCEPT !.step = "next", !.copy = {},
                                  !.failed = @ \union writer[w].season])

\* One round of _unmonitor_with_retry reads the series ...
Get(w) ==
    /\ Is(w, "get")
    /\ \/ Fails(w) /\ UNCHANGED reported
       \/ /\ present
          /\ IF writer[w].season \intersect monitored = {}
             THEN Went(w, writer[w]) /\ reported' = reported \union writer[w].season
             ELSE Set(w, [writer[w] EXCEPT !.step = "put", !.copy = monitored]) /\ UNCHANGED reported
    /\ UNCHANGED <<atSonarr, throttled, spoiled>>

\* ... and writes it back whole.  A call that failed may have done its work.
Put(w) ==
    /\ Is(w, "put")
    /\ LET wrote == writer[w].copy \ writer[w].season
           again == [writer[w] EXCEPT !.step = "get", !.tries = @ + 1, !.copy = {}]
       IN  \/ /\ present /\ monitored' = wrote
              /\ Went(w, writer[w])
              /\ reported' = (reported \ wrote) \union writer[w].season
           \/ /\ monitored' \in {monitored} \union (IF present THEN {wrote} ELSE {})
              /\ reported' = IF monitored' = monitored THEN reported ELSE reported \ wrote
              /\ IF writer[w].tries + 1 >= MaxRetries THEN Fails(w) ELSE Set(w, again)
    /\ UNCHANGED <<present, files, throttled, spoiled>>

\* Mutated form: only the deleted season is asked for.
AskForOwn(w) ==
    /\ Is(w, "ask")
    /\ Set(w, IF files \intersect writer[w].season # {} THEN Asleep ELSE [writer[w] EXCEPT !.step = "drop"])
    /\ UNCHANGED <<atSonarr, throttled, reported, spoiled>>

\* has_remaining_files
Ask(w) ==
    /\ Is(w, "ask")
    /\ \/ Set(w, Asleep)
       \/ present /\ files # {} /\ Set(w, Asleep)
       \/ present /\ files = {} /\ Set(w, [writer[w] EXCEPT !.step = "drop"])
    /\ UNCHANGED <<atSonarr, throttled, reported, spoiled>>

\* delete_series takes along what was imported since the question.
Drop(w) ==
    /\ Is(w, "drop")
    /\ \/ /\ present' = FALSE /\ files' = {} /\ monitored' = {}
          /\ spoiled' = (spoiled \/ (files \ writer[w].late) # {})
          /\ reported' = {}
       \/ UNCHANGED <<atSonarr, reported, spoiled>>
    /\ Set(w, Asleep)
    /\ UNCHANGED throttled

SeriesNext ==
    \/ Count \/ \E s \in Seasons : Import(s)
    \/ \E w \in Writers :
        \/ \E s \in Seasons : StartDelete(w, s) \/ NextSeason(w, s)
        \/ \E S \in SUBSET Seasons : StartAbandon(w, S)
        \/ AbandonSeries(w) \/ DeleteFiles(w) \/ Finish(w)
        \/ Get(w) \/ Put(w) \/ Ask(w) \/ Drop(w)

SeriesSpec == SeriesInit /\ [][SeriesNext]_seriesVars

-----------------------------------------------------------------------------
(* Properties. *)

\* A season that was reported as unmonitored is, until somebody writes back a copy of
\* the series that is older: an answer that was lost is not a success.
ReportedStayDown == present => reported \intersect monitored = {}

\* Deleting a season takes files of other seasons along only where Sonarr imported
\* them after it was asked whether any are left.
OtherSeasonsSpared == ~spoiled

SeriesKeepsRest == SeriesTypeOK /\ ReportedStayDown /\ OtherSeasonsSpared
=============================================================================
