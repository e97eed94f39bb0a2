------------------------------ MODULE ArrStates ------------------------------
(***************************************************************************)
(* What the pages say of a series: how much of it is here, from Sonarr's   *)
(* counts per season, and how far its downloads are, from Sonarr's queue,  *)
(* in which a season pack is listed once for every episode, each time with *)
(* the size of the whole pack.                                             *)
(***************************************************************************)
EXTENDS Integers, FiniteSets, SequencesExt

CONSTANTS
    SeasonNumbers,  \* the seasons of the series; 0 are the specials
    MaxEpisodes,    \* episodes of a season
    DownloadIds,    \* downloads Sonarr tracks
    Sizes,          \* sizes of a download
    Lefts,          \* what may be left of it when Sonarr is asked again
    MaxQueue        \* bound on the queue

NoDownload == "no download"

ASSUME StatesAssumption ==
    /\ {MaxEpisodes, MaxQueue} \subseteq Nat /\ Sizes \subseteq Nat /\ Lefts \subseteq Nat
    /\ NoDownload \notin DownloadIds

VARIABLES
    season,         \* statistics of every season: monitored, aired, files, episodes
    queue           \* the records of the series in Sonarr's queue

stateVars == <<season, queue>>

\* named: the record has a title or a label.
Records == [download : DownloadIds \union {NoDownload}, named : BOOLEAN, label : 1..MaxQueue,
            size : Sizes, left : Nat, status : {"downloading", "paused", "completed"}]

StatesTypeOK ==
    /\ season \in [SeasonNumbers -> [monitored : BOOLEAN, aired : BOOLEAN,
                                     files : 0..MaxEpisodes, episodes : 0..MaxEpisodes]]
    /\ Len(queue) <= MaxQueue /\ Range(queue) \subseteq Records

StatesInit ==
    /\ season \in [SeasonNumbers -> {[monitored |-> b, aired |-> FALSE, files |-> 0, episodes |-> 0]
                                     : b \in BOOLEAN}]
    /\ queue = <<>>

-----------------------------------------------------------------------------
(* How much is here.                                                       *)

\* Specials, unmonitored and future seasons do not count.
AiredSeasons(S) == {n \in SeasonNumbers : n > 0 /\ S[n].monitored /\ S[n].aired}

Complete(s) == s.files >= s.episodes /\ s.episodes > 0

SeriesState(S, q) ==
    LET aired == AiredSeasons(S)
    IN  CASE aired # {} /\ (\A n \in aired : Complete(S[n])) -> "in_library"
          [] \E n \in aired : S[n].files > 0 /\ \E k \in aired : ~Complete(S[k]) -> "partial"
          [] OTHER -> IF q # <<>> THEN "downloading" ELSE "queued"

-----------------------------------------------------------------------------
(* How far the downloads are.                                              *)

\* Python rounds halves to the even number.
RoundedPercent(done, size) ==
    LET q == (100 * done) \div size  r == 2 * ((100 * done) % size)
    IN  IF r > size \/ (r = size /\ q % 2 = 1) THEN q + 1 ELSE q

Progress(size, left) ==
    IF size = 0 THEN 0 ELSE IF left > size THEN 0 ELSE RoundedPercent(size - left, size)

\* _compute_cluster_keys: a record with neither download nor name counts for nothing.
ClusterKeys(e) ==
    IF e.download # NoDownload THEN {<<e.download>>}
    ELSE IF e.named THEN {<<"episode", e.label>>} ELSE {}

\* The sum of n over S: as many units as there are.
Units(S, n) == Cardinality(UNION {{i} \X (1..n[i]) : i \in S})

\* Records that are the first of their download, or of their name.
Counted(q) == {i \in DOMAIN q : /\ ClusterKeys(q[i]) # {}
                                /\ \A k \in 1..(i - 1) : ClusterKeys(q[k]) # ClusterKeys(q[i])}

\* Mutated form: every record counts.
TotalsPerRecord(q) ==
    [size |-> Units(DOMAIN q, [i \in DOMAIN q |-> q[i].size]),
     left |-> Units(DOMAIN q, [i \in DOMAIN q |-> q[i].left])]

\* _aggregate_totals_per_cluster: the first record of a download gives its size.
Totals(q) ==
    [size |-> Units(Counted(q), [i \in DOMAIN q |-> q[i].size]),
     left |-> Units(Counted(q), [i \in DOMAIN q |-> q[i].left])]

EpisodeState(e) ==
    LET percent == Progress(e.size, e.left)
    IN  IF percent = 100 \/ (e.left = 0 /\ e.size > 0) THEN "ready"
        ELSE IF e.status = "downloading" THEN "downloading"
        ELSE IF e.status = "paused" \/ percent > 0 THEN "queued" ELSE "searching"

\* _derive_series_state, for a card that NZBGet has no job for.
CardState(q) ==
    LET states == {EpisodeState(e) : e \in Range(q)}
    IN  CASE q # <<>> /\ states = {"ready"} -> "almost_ready"
          [] states \intersect {"downloading", "queued"} # {} -> "downloading"
          [] OTHER -> "searching"

-----------------------------------------------------------------------------
(* What Sonarr does.                                                       *)

\* An episode that is not monitored itself is not counted.
Air(n) ==
    /\ season[n].episodes < MaxEpisodes
    /\ \E counted \in (IF season[n].monitored THEN {0, 1} ELSE {0}) :
         season' = [season EXCEPT ![n].aired = TRUE, ![n].episodes = @ + counted]
    /\ UNCHANGED queue

Grab(e) ==
    /\ Len(queue) < MaxQueue
    /\ e.left = e.size
    /\ e.label = CHOOSE n \in 1..MaxQueue : \A f \in Range(queue) : f.label # n
    /\ \A f \in Range(queue) : /\ e.download = f.download /\ e.download # NoDownload
                                   => e.size = f.size /\ f.left = f.size /\ e.status = f.status
    /\ queue' = Append(queue, e)
    /\ UNCHANGED season

\* All records of a download move together.
Advance(i, left) ==
    /\ i \in DOMAIN queue /\ left < queue[i].left
    /\ queue' = [k \in DOMAIN queue |->
                    IF k = i \/ (queue[k].download = queue[i].download /\ queue[i].download # NoDownload)
                    THEN [queue[k] EXCEPT !.left = left] ELSE queue[k]]
    /\ UNCHANGED season

\* Sonarr imports an episode of a record whose download is done.
ImportEpisode(i, n) ==
    /\ i \in DOMAIN queue /\ queue[i].left = 0
    /\ season[n].files < season[n].episodes
    /\ season' = [season EXCEPT ![n].files = @ + 1]
    /\ queue' = RemoveAt(queue, i)

StatesNext ==
    \/ \E n \in SeasonNumbers : Air(n)
    \/ \E e \in [download : DownloadIds \union {NoDownload}, named : BOOLEAN, label : 1..MaxQueue,
                 size : Sizes, left : Sizes, status : {"downloading", "paused", "completed"}] : Grab(e)
    \/ \E i \in 1..MaxQueue : \/ \E left \in Lefts : Advance(i, left)
                             \/ \E n \in SeasonNumbers : ImportEpisode(i, n)

StatesSpec == StatesInit /\ [][StatesNext]_stateVars

-----------------------------------------------------------------------------
(* Properties. *)

Rank(state) == CASE state = "in_library" -> 2 [] state = "partial" -> 1 [] OTHER -> 0

\* One more file never sets a series back, and takes it out of the library never.
FilesNeverSetBack ==
    \A n \in SeasonNumbers : season[n].files < season[n].episodes =>
        Rank(SeriesState([season EXCEPT ![n].files = @ + 1], queue))
            >= Rank(SeriesState(season, queue))

\* "In the library" is said of no series without a file.
LibraryHasFiles ==
    SeriesState(season, queue) = "in_library" => \E n \in SeasonNumbers : season[n].files > 0

\* A download counts once, however many episodes it has and in whatever order they
\* are listed.
SizesCountOnce ==
    /\ Totals(queue).size = Totals(Reverse(queue)).size
    /\ Totals(queue).left = Totals(Reverse(queue)).left
    /\ \A d \in DownloadIds : \A size \in Sizes :
        (queue # <<>> /\ \A e \in Range(queue) : e.download = d /\ e.size = size)
            => Totals(queue).size = size

\* A card that has begun to load is not shown as one that is searched for, unless what
\* has begun is all but half a percent here.
BegunIsNotSearching ==
    (\E e \in Range(queue) : Progress(e.size, e.left) > 0 /\ 200 * e.left > e.size)
        => CardState(queue) # "searching"

\* Nothing is shown as ready of which more than half a percent is left.
ReadyIsLoaded ==
    CardState(queue) = "almost_ready" => \A e \in Range(queue) : 200 * e.left <= e.size

PagesTellTheState ==
    /\ StatesTypeOK /\ FilesNeverSetBack /\ LibraryHasFiles /\ SizesCountOnce
    /\ BegunIsNotSearching /\ ReadyIsLoaded
=============================================================================
