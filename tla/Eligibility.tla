----------------------------- MODULE Eligibility ------------------------------
(***************************************************************************)
(* Which items a scan condemns: those whose newest file has been there for *)
(* long enough and that nobody has watched for long enough.  When files    *)
(* came is asked of Radarr and Sonarr, once per run of the scanner, and of *)
(* Plex for the rest; who watched is asked of Plex, part by part.  People  *)
(* watch, and files come, between the questions and the decision.          *)
(*                                                                         *)
(* One item stands for all: a film, or a season with its episodes.         *)
(***************************************************************************)
EXTENDS Integers, FiniteSets, FiniteSetsExt

CONSTANTS
    Parts,          \* files of the item: a film has one of them, a season any number
    Day,            \* ticks of a day
    MinAge,         \* min_age_days
    Inactivity,     \* inactivity_days
    MaxTime,        \* bound on the clock
    MaxChanges      \* bound on arrivals, viewings and lost histories

ASSUME AgesAssumption ==
    /\ Day \in Nat \ {0} /\ {MaxTime, MaxChanges} \subseteq Nat
    /\ {MinAge, Inactivity} \subseteq Int      \* the settings take any number

VARIABLES
    kind,       \* a film, in Radarr, or a season, in Sonarr
    clock,
    file,       \* per part, when it came and how Arr writes that date
    plexDate,   \* addedAt at Plex
    viewed,     \* the latest time in Plex's history of each part
    dates,      \* added_at and last_watched_at in media_items
    run,        \* the scan or sync that is running
    changes     \* how many there have been

eligVars == <<kind, clock, file, plexDate, viewed, dates, run, changes>>

Times      == 0..MaxTime
Never      == -1                        \* also a date that is missing
Unreadable == -2
Forms      == {"aware", "naive", "bad"} \* with an offset or Z, without, not a date
Dates      == [at : Times, form : Forms]
NoDate     == [form |-> "none"]
Idle       == [step |-> "idle"]
FilmPart   == CHOOSE p \in Parts : TRUE    \* a film's only one

Runs == [step : {"fetch", "write", "decided"}, job : {"scan", "sync"}, left : SUBSET Parts,
           heard : Times \union {Never}, loaded : BOOLEAN,
           date : Dates \union {NoDate}, began : Times, asked : Times,
           verdict : {"none", "skip", "schedule_deletion"}, used : Times \union {Never}]

EligTypeOK ==
    /\ kind \in {"film", "season"}
    /\ clock \in Times
    /\ file \in [Parts -> Dates \union {NoDate}]
    /\ plexDate \in Times \union {Never}
    /\ viewed \in [Parts -> Times \union {Never}]
    /\ dates \in [added : Times \union {Never, Unreadable}, watched : Times \union {Never}]
    /\ run \in Runs \union {Idle}
    /\ changes \in 0..MaxChanges

EligInit ==
    /\ kind \in {"film", "season"}
    /\ clock = 0 /\ plexDate = Never
    /\ file = [p \in Parts |-> NoDate] /\ viewed = [p \in Parts |-> Never]
    /\ dates = [added |-> Never, watched |-> Never]
    /\ run = Idle /\ changes = 0

-----------------------------------------------------------------------------
(* Plex, Radarr and Sonarr. *)

Present  == {p \in Parts : file[p] # NoDate}
Readable == {p \in Present : file[p].form # "bad"}

Change == changes < MaxChanges /\ changes' = changes + 1

\* Plex dates an item with its first file, or not at all.
PlexDates == IF Present = {} THEN {Never, clock} ELSE {plexDate}

Arrive(p) ==
    /\ Change
    /\ kind = "film" => p = FilmPart
    /\ \E f \in Forms : file' = [file EXCEPT ![p] = [at |-> clock, form |-> f]]
    /\ plexDate' \in PlexDates
    /\ UNCHANGED <<kind, clock, viewed, dates, run>>

\* Entries without a time, of what is being watched, never get past get_watch_history.
Watch(p) ==
    /\ Change /\ file[p] # NoDate
    /\ viewed' = [viewed EXCEPT ![p] = clock]
    /\ UNCHANGED <<kind, clock, file, plexDate, dates, run>>

\* An answer may hold an older slice of the history than the one before.
Forget(p) ==
    /\ Change /\ viewed[p] # Never /\ viewed' = [viewed EXCEPT ![p] = Never]
    /\ UNCHANGED <<kind, clock, file, plexDate, dates, run>>

\* A decision is looked at while it is fresh.
EligTick ==
    /\ clock < MaxTime
    /\ run # Idle => run.step # "decided"
    /\ clock' = clock + 1
    /\ UNCHANGED <<kind, file, plexDate, viewed, dates, run, changes>>

-----------------------------------------------------------------------------
(* Dates. *)

\* A naive date and an aware one cannot be compared: a TypeError.
Clash == kind = "season" /\ {"naive", "aware"} \subseteq {file[p].form : p \in Present}

\* Mutated form: the first file of the season decides.
AnyFile(S) == CHOOSE p \in S : \A q \in S : file[p].at <= file[q].at

Newest(S) == CHOOSE p \in S : \A q \in S : file[p].at >= file[q].at

\* A film's date is kept as it comes; a season's is that of its newest readable file.
ArrDate ==
    IF kind = "film"
    THEN UNION {{file[p]} : p \in Present}
    ELSE {file[Newest(Readable)] : p \in Readable}

\* Dates are asked for once per run, with the first item that is written: another
\* library's, maybe, before this one was fetched.  A service that fails gives none.
DatesNow == IF ArrDate = {} THEN {NoDate} ELSE ArrDate \union {NoDate}

AddedAt(date) ==
    IF date.form \in {"aware", "naive"} THEN date.at
    ELSE IF plexDate # Never THEN plexDate ELSE clock

\* upsert_media_item writes a date it cannot read as it is.
StoredDate(date) == IF date.form = "bad" THEN Unreadable ELSE AddedAt(date)

-----------------------------------------------------------------------------
(* The run. *)

Begin(job) ==
    /\ run = Idle /\ Present # {}
    /\ \E loaded \in IF job = "scan" /\ ~Clash THEN BOOLEAN ELSE {FALSE} :
       \E d \in IF loaded THEN DatesNow ELSE {NoDate} :
          run' = [step |-> "fetch", job |-> job, left |-> Present,
                  heard |-> Never, loaded |-> loaded, date |-> d, began |-> clock, asked |-> clock,
                  verdict |-> "none", used |-> Never]
    /\ UNCHANGED <<kind, clock, file, plexDate, viewed, dates, changes>>

\* get_watch_history, for one part.
AskHistory(p) ==
    /\ run # Idle /\ run.step = "fetch" /\ p \in run.left
    /\ run' = [run EXCEPT !.left = @ \ {p}, !.heard = Max({@, viewed[p]}),
                           !.step = IF run.left = {p} THEN "write" ELSE "fetch"]
    /\ UNCHANGED <<kind, clock, file, plexDate, viewed, dates, changes>>

\* One part without an answer, and the item is left out of this run.
HistoryFails ==
    /\ run # Idle /\ run.step = "fetch"
    /\ run' = Idle
    /\ UNCHANGED <<kind, clock, file, plexDate, viewed, dates, changes>>

LoadDates ==
    /\ run # Idle /\ run.step = "write" /\ ~run.loaded
    /\ IF Clash THEN run' \in {Idle} \union {[run EXCEPT !.loaded = TRUE, !.asked = clock]}
       ELSE \E d \in DatesNow : run' = [run EXCEPT !.loaded = TRUE, !.date = d, !.asked = clock]
    /\ UNCHANGED <<kind, clock, file, plexDate, viewed, dates, changes>>

Days(t)        == (clock - t) \div Day
IsOldEnough(t) == Days(t) >= MinAge
IsInactive(t)  == t = Never \/ Days(t) >= Inactivity

Evaluate(added, heard) ==
    IF IsOldEnough(added) /\ IsInactive(heard) THEN "schedule_deletion" ELSE "skip"

\* upsert_item and, in a scan, the decision, in one transaction.
WriteItem ==
    /\ run # Idle /\ run.step = "write" /\ run.loaded
    /\ LET added == AddedAt(run.date)
       IN  /\ dates' = [added   |-> StoredDate(run.date),
                        watched |-> Max({dates.watched, run.heard})]
           /\ run' = [run EXCEPT !.step = "decided", !.used = added,
                                  !.verdict = IF run.job = "scan"
                                              THEN Evaluate(added, run.heard) ELSE "none"]
    /\ UNCHANGED <<kind, clock, file, plexDate, viewed, changes>>

EndPass ==
    /\ run # Idle /\ run.step = "decided" /\ run' = Idle
    /\ UNCHANGED <<kind, clock, file, plexDate, viewed, dates, changes>>

EligNext ==
    \/ EligTick \/ HistoryFails \/ LoadDates \/ WriteItem \/ EndPass
    \/ \E p \in Parts : Arrive(p) \/ Watch(p) \/ Forget(p) \/ AskHistory(p)
    \/ \E job \in {"scan", "sync"} : Begin(job)

EligSpec == EligInit /\ [][EligNext]_eligVars

-----------------------------------------------------------------------------
(* Properties. *)

Decided == run # Idle /\ run.step = "decided" /\ run.job = "scan"
Young(t)  == clock - t < MinAge * Day
Recent(t) == clock - t < Inactivity * Day

\* Nothing is condemned that somebody had watched recently when the pass began, or
\* that has a file Arr told of which is not old enough yet; without Arr's dates Plex's
\* must be old.  The parts of a season may be of any age and in any order.
CondemnedIsOld ==
    Decided /\ run.verdict = "schedule_deletion" =>
        /\ \A p \in Parts : viewed[p] \in 0..run.began - 1 => ~Recent(viewed[p])
        /\ run.date # NoDate =>
              \A p \in Readable : file[p].at < run.asked => ~Young(file[p].at)
        /\ run.date.form \in {"none", "bad"} =>
              MinAge <= 0 \/ (plexDate # Never /\ ~Young(plexDate))

\* Nothing is spared without a reason: an unreadable date or one that is missing does
\* not make an item young for ever while the other service knows better.
SparedForAReason ==
    Decided /\ run.verdict = "skip" =>
        \/ run.heard # Never /\ Recent(run.heard)
        \/ \E p \in Present : Young(file[p].at)
        \/ run.date.form \in {"none", "bad"} /\ plexDate = Never

\* What the pages and the newsletter tell is what the decision was about, and the time
\* somebody last watched is not forgotten when Plex forgets.
TablesAgree ==
    run # Idle /\ run.step = "decided" =>
        dates.added \in {run.used, Unreadable} /\ dates.watched >= run.heard

EligibilityKept == EligTypeOK /\ CondemnedIsOld /\ SparedForAReason /\ TablesAgree
=============================================================================
