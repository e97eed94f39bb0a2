------------------------------- MODULE MCArr --------------------------------
(***************************************************************************)
(* The parts that talk to Radarr and Sonarr, checked in one run: they      *)
(* share no state that matters to the properties, so a behaviour is one of *)
(* a single part and the others rest.  Three parts come twice, each time   *)
(* with less of something: time or successes, jobs or requests, episodes   *)
(* or downloads.                                                           *)
(***************************************************************************)
EXTENDS ArrSearch, DownloadQueue, SeriesWrites, ArrStates, TLC

VARIABLE part

MCVars == <<part, searchVars, queueVars, seriesVars, stateVars>>

ServiceDef == [t \in Titles |-> "sonarr"]

\* A film and a series of one title, and two jobs that are like both.
DlIdDef      == [f \in Films |-> IF f = "film" THEN "radarr:x" ELSE "sonarr:x"]
TitleOfDef   == [i \in {"radarr:x", "sonarr:x"} \union Jobs |-> IF i \in Jobs THEN "x.S01" ELSE "x"]
SourceOfDef  == [i \in {"radarr:x", "sonarr:x"} |-> IF i = "radarr:x" THEN "radarr" ELSE "sonarr"]
CardOrderDef == <<"radarr:x", "sonarr:x">>
AlikeDef     == Jobs \X {"radarr:x", "sonarr:x"}
RemainingDef == [j \in Jobs |-> IF j = "k" THEN 1 ELSE 2]

\* What the parts that rest begin with.
QueueRests  == library = [f \in Films |-> "wanted"] /\ running = {}
SeriesRests == monitored = Seasons /\ files = {}
StatesRest  == season = [n \in SeasonNumbers |->
                    [monitored |-> TRUE, aired |-> FALSE, files |-> 0, episodes |-> 0]]

\* Bounds of the parts that come twice: one title is never found, or time is short;
\* NZBGet has no jobs, or one request is served at a time; a season has one episode,
\* or one download without a size is in the queue at a time.
NeverFound(t)  == saved[t] = Never /\ sent[t].newest = 0 /\ leaving[t] = "no"
ShortTime      == now <= 2
OneByOne       == Cardinality({r \in Requests : request[r] # Resting}) <= 1
OneEpisode     == \A n \in SeasonNumbers : season[n].episodes <= 1
OneWithoutSize == Len(queue) <= 1 /\ \A e \in Range(queue) : e.size = 0

MCInit ==
    /\ part \in {"search", "pair", "page", "jobs", "series", "counts", "cards"}
    /\ SearchInit /\ QueueInit /\ SeriesInit /\ StatesInit
    /\ part \notin {"page", "jobs"} => QueueRests
    /\ part = "page" => running = {}
    /\ part # "series" => SeriesRests
    /\ part \notin {"counts", "cards"} => StatesRest

MCNext ==
    /\ UNCHANGED part
    /\ \/ /\ part = "search" /\ SearchNext /\ NeverFound("t2")'
          /\ UNCHANGED <<queueVars, seriesVars, stateVars>>
       \/ /\ part = "pair" /\ SearchNext /\ ShortTime'
          /\ UNCHANGED <<queueVars, seriesVars, stateVars>>
       \/ /\ part = "page" /\ QueueNext /\ running' = {}
          /\ UNCHANGED <<searchVars, seriesVars, stateVars>>
       \/ /\ part = "jobs" /\ QueueNext /\ OneByOne'
          /\ UNCHANGED <<searchVars, seriesVars, stateVars>>
       \/ part = "series" /\ SeriesNext /\ UNCHANGED <<searchVars, queueVars, stateVars>>
       \/ /\ part = "counts" /\ StatesNext /\ OneWithoutSize'
          /\ UNCHANGED <<searchVars, queueVars, seriesVars>>
       \/ /\ part = "cards" /\ StatesNext /\ OneEpisode'
          /\ UNCHANGED <<searchVars, queueVars, seriesVars>>

MCSpec == MCInit /\ [][MCNext]_MCVars

\* Of a fate the invariants of this run ask only whether it is "owed", and the steps
\* set it from that alone: states that differ in the cause of a loss are one.
View == <<part, searchVars, library, running, changes, previous, started, recent, request,
          filed, owed, seriesVars, stateVars>>

\* The requests of the page alone.
PageSpec == MCInit /\ part = "page" /\ [][MCNext]_MCVars

\* Requests are interchangeable: no definition tells one from another.
Symmetry == Permutations(Requests \union Writers)
=============================================================================
