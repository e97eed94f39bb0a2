----------------------------- MODULE ArrProofs ------------------------------
(***************************************************************************)
(* The parts that talk to Radarr and Sonarr: the changes of one series,    *)
(* the searches of the titles that wait, the downloads page, and what the  *)
(* pages say of a series, for any number of seasons, titles, requests,     *)
(* downloads and changes at the services.                                  *)
(***************************************************************************)
EXTENDS ArrSearch, DownloadQueue, SeriesWrites, ArrStates, FiniteSetTheorems,
        FunctionTheorems, SequenceTheorems, WellFoundedInduction, TLAPS

-----------------------------------------------------------------------------
(* Numbers.                                                                *)

\* Of some numbers there is a first one.
LEMMA FirstOf ==
    ASSUME NEW S \in SUBSET Nat, S # {}
    PROVE  \E n \in S : \A k \in S : n <= k
<1>1. IsWellFoundedOn(OpToRel(<, Nat), Nat)
  BY NatLessThanWellFounded
<1>2. \E n \in S : \A k \in S : ~(<<k, n>> \in OpToRel(<, Nat))
  BY <1>1, WFMin
<1>3. PICK n \in S : \A k \in S : ~(k < n)
  BY <1>2 DEF OpToRel
<1> QED
  BY <1>3

-----------------------------------------------------------------------------
(* One series at Sonarr.                                                   *)

\* Between the question and the deletion, whatever has files was imported since.
LateKnown == \A w \in Writers : Is(w, "drop") => files \subseteq writer[w].late

SeriesInv == SeriesKeepsRest /\ LateKnown

Works == [step : WriterSteps, kind : {"none", "delete", "abandon"},
          todo : SUBSET Seasons, season : SUBSET Seasons,
          copy : SUBSET Seasons, tries : 0..MaxRetries,
          failed : SUBSET Seasons, late : SUBSET Seasons]

LEMMA WorkIs ==
    ASSUME SeriesTypeOK, NEW w \in Writers
    PROVE  /\ writer[w] \in Works /\ Asleep \in Works /\ Asleep.step = "idle"
           /\ \A rec \in Works : Set(w, rec) =>
                 /\ writer'[w] = rec /\ writer' \in [Writers -> Works]
                 /\ \A v \in Writers : v # w => writer'[v] = writer[v]
<1>1. writer \in [Writers -> Works]
  BY DEF SeriesTypeOK, Works
<1>2. Asleep \in Works /\ Asleep.step = "idle"
  BY SeriesAssumption DEF Asleep, Works, WriterSteps
<1> QED
  BY <1>1, <1>2 DEF Set

\* One step of a writer that leaves the series alone, or does to it what is said here.
LEMMA SeriesMoves ==
    ASSUME SeriesInv, NEW w \in Writers, NEW rec \in Works, Set(w, rec),
           present' \in BOOLEAN, throttled' \in BOOLEAN,
           monitored' \subseteq Seasons, files' \subseteq files, reported' \subseteq Seasons,
           present' => reported' \intersect monitored' = {},
           spoiled' = FALSE,
           rec.step = "drop" => files' = {}
    PROVE  SeriesInv'
<1>1. /\ writer'[w] = rec /\ writer' \in [Writers -> Works]
      /\ \A v \in Writers : v # w => writer'[v] = writer[v]
  BY WorkIs DEF SeriesInv, SeriesKeepsRest
<1>2. SeriesTypeOK'
  BY <1>1 DEF SeriesInv, SeriesKeepsRest, SeriesTypeOK, Works
<1>3. LateKnown'
  BY <1>1 DEF SeriesInv, LateKnown, Is
<1> QED
  BY <1>2, <1>3 DEF SeriesInv, SeriesKeepsRest, ReportedStayDown, OtherSeasonsSpared

\* How a request or job goes on is a record of its kind.
LEMMA WentIs ==
    ASSUME SeriesTypeOK, NEW w \in Writers, Went(w, writer[w]) \/ Fails(w)
    PROVE  \E rec \in Works : Set(w, rec) /\ rec.step # "drop"
<1>1. writer[w] \in Works /\ Asleep \in Works /\ Asleep.step = "idle"
  BY WorkIs
<1>2. PICK r \in Works : r = writer[w]
  BY <1>1
<1>3. /\ [r EXCEPT !.step = "ask", !.copy = {}] \in Works
      /\ [r EXCEPT !.step = "next", !.copy = {}] \in Works
      /\ [r EXCEPT !.step = "next", !.copy = {}, !.failed = r.failed \union r.season] \in Works
  BY DEF Works, WriterSteps
<1>4. /\ [r EXCEPT !.step = "ask", !.copy = {}].step = "ask"
      /\ [r EXCEPT !.step = "next", !.copy = {}].step = "next"
      /\ [r EXCEPT !.step = "next", !.copy = {}, !.failed = r.failed \union r.season].step = "next"
  BY DEF Works
<1>5. CASE Went(w, writer[w])
  BY <1>2, <1>3, <1>4, <1>5 DEF Went
<1>6. CASE Fails(w)
  BY <1>1, <1>2, <1>3, <1>4, <1>6 DEF Fails
<1> QED
  BY <1>5, <1>6

LEMMA SeriesInvInit ==
    ASSUME SeriesInit
    PROVE  SeriesInv
<1>1. Asleep \in Works /\ Asleep.step = "idle"
  BY SeriesAssumption DEF Asleep, Works, WriterSteps
<1>2. writer \in [Writers -> Works] /\ \A w \in Writers : ~Is(w, "drop")
  BY <1>1 DEF SeriesInit, Is
<1> QED
  BY <1>2 DEF SeriesInit, SeriesInv, SeriesKeepsRest, SeriesTypeOK, ReportedStayDown,
              OtherSeasonsSpared, LateKnown, Works

LEMMA ImportSafe ==
    ASSUME SeriesInv, NEW s \in Seasons, Import(s)
    PROVE  SeriesInv'
<1>1. /\ files' = files \union {s}
      /\ writer' = [w \in Writers |-> IF Is(w, "drop") THEN [writer[w] EXCEPT !.late = @ \union {s}]
                                      ELSE writer[w]]
      /\ UNCHANGED <<present, monitored, throttled, reported, spoiled>>
  BY DEF Import
<1>2. ASSUME NEW w \in Writers
      PROVE  /\ writer'[w] \in Works /\ writer'[w].step = writer[w].step
             /\ Is(w, "drop") => writer'[w].late = writer[w].late \union {s}
  <2>1. PICK r \in Works : r = writer[w]
    BY WorkIs DEF SeriesInv, SeriesKeepsRest
  <2>2. /\ [r EXCEPT !.late = @ \union {s}] \in Works
        /\ [r EXCEPT !.late = @ \union {s}].step = r.step
        /\ [r EXCEPT !.late = @ \union {s}].late = r.late \union {s}
    BY DEF Works
  <2> QED
    BY <1>1, <2>1, <2>2
<1>3. SeriesTypeOK'
  <2>1. writer' \in [Writers -> Works]
    BY <1>1, <1>2
  <2> QED
    BY <1>1, <2>1 DEF SeriesInv, SeriesKeepsRest, SeriesTypeOK, Works
<1>4. LateKnown'
  BY <1>1, <1>2 DEF SeriesInv, LateKnown, Is
<1> QED
  BY <1>1, <1>3, <1>4 DEF SeriesInv, SeriesKeepsRest, ReportedStayDown, OtherSeasonsSpared

\* The steps that ask and plan: the series stays as it is.
LEMMA PlansSafe ==
    ASSUME SeriesInv, NEW w \in Writers,
           \/ \E s \in Seasons : StartDelete(w, s) \/ NextSeason(w, s)
           \/ \E S \in SUBSET Seasons : StartAbandon(w, S)
           \/ AbandonSeries(w) \/ Finish(w) \/ Ask(w)
    PROVE  SeriesInv'
<1>1. /\ UNCHANGED <<present, monitored, files, reported, spoiled>> /\ throttled' \in BOOLEAN
  BY DEF StartDelete, NextSeason, StartAbandon, AbandonSeries, Finish, Ask, atSonarr,
         SeriesInv, SeriesKeepsRest, SeriesTypeOK
<1>2. PICK r \in Works : r = writer[w]
  BY WorkIs DEF SeriesInv, SeriesKeepsRest
<1>3. Asleep \in Works /\ Asleep.step = "idle"
  BY WorkIs DEF SeriesInv, SeriesKeepsRest
<1>4. UNCHANGED writer \/ \E rec \in Works : Set(w, rec) /\ (rec.step = "drop" => files = {})
  <2>1. ASSUME NEW s \in Seasons, StartDelete(w, s)
        PROVE  \E rec \in Works : Set(w, rec) /\ rec.step # "drop"
    <3>1. PICK rec : rec = [Asleep EXCEPT !.step = "files", !.kind = "delete", !.season = {s}]
      OBVIOUS
    <3>2. rec \in Works /\ rec.step = "files"
      BY <1>3, <3>1 DEF Works, WriterSteps
    <3> QED
      BY <2>1, <3>1, <3>2 DEF StartDelete
  <2>2. ASSUME NEW s \in Seasons, NextSeason(w, s)
        PROVE  \E rec \in Works : Set(w, rec) /\ rec.step # "drop"
    <3>1. PICK rec : rec = [r EXCEPT !.step = "get", !.todo = r.todo \ {s}, !.season = {s},
                                     !.tries = 0, !.copy = {}]
      OBVIOUS
    <3>2. /\ r.todo \ {s} \in SUBSET Seasons /\ {s} \in SUBSET Seasons /\ {} \in SUBSET Seasons
          /\ 0 \in 0..MaxRetries
      BY SeriesAssumption DEF Works
    <3>3. rec \in Works /\ rec.step = "get"
      BY <3>1, <3>2 DEF Works, WriterSteps
    <3> QED
      BY <1>2, <2>2, <3>1, <3>3 DEF NextSeason
  <2>3. ASSUME NEW S \in SUBSET Seasons,
               Set(w, [Asleep EXCEPT !.step = "next", !.kind = "abandon", !.todo = S])
        PROVE  \E rec \in Works : Set(w, rec) /\ rec.step # "drop"
    <3>1. PICK rec : rec = [Asleep EXCEPT !.step = "next", !.kind = "abandon", !.todo = S]
      OBVIOUS
    <3>2. rec \in Works /\ rec.step = "next"
      BY <1>3, <3>1 DEF Works, WriterSteps
    <3> QED
      BY <2>3, <3>1, <3>2
  <2>4. monitored \in SUBSET Seasons
    BY DEF SeriesInv, SeriesKeepsRest, SeriesTypeOK
  <2>5. CASE AbandonSeries(w)
    BY <2>3, <2>4, <2>5 DEF AbandonSeries
  <2>6. CASE Ask(w)
    <3>1. [r EXCEPT !.step = "drop"] \in Works
      BY DEF Works, WriterSteps
    <3> QED
      BY <1>2, <1>3, <2>6, <3>1 DEF Ask
  <2> QED
    BY <1>3, <2>1, <2>2, <2>3, <2>5, <2>6 DEF StartAbandon, Finish
<1>5. CASE UNCHANGED writer
  BY <1>1, <1>5 DEF SeriesInv, SeriesKeepsRest, SeriesTypeOK, ReportedStayDown,
                    OtherSeasonsSpared, LateKnown, Is
<1>6. ASSUME NEW rec \in Works, Set(w, rec), rec.step = "drop" => files = {} PROVE SeriesInv'
  <2>1. /\ present' \in BOOLEAN /\ monitored' \subseteq Seasons /\ files' \subseteq files
        /\ reported' \subseteq Seasons /\ spoiled' = FALSE
        /\ present' => reported' \intersect monitored' = {}
    BY <1>1 DEF SeriesInv, SeriesKeepsRest, SeriesTypeOK, ReportedStayDown, OtherSeasonsSpared
  <2> QED
    BY <1>1, <1>6, <2>1, SeriesMoves
<1> QED
  BY <1>4, <1>5, <1>6

LEMMA DeleteFilesSafe ==
    ASSUME SeriesInv, NEW w \in Writers, DeleteFiles(w)
    PROVE  SeriesInv'
<1>1. /\ UNCHANGED <<present, monitored, throttled, reported, spoiled>> /\ files' \subseteq files
  BY DEF DeleteFiles
<1>2. \E rec \in Works : Set(w, rec) /\ rec.step # "drop"
  <2>1. PICK r \in Works : r = writer[w]
    BY WorkIs DEF SeriesInv, SeriesKeepsRest
  <2>2. [r EXCEPT !.step = "get"] \in Works /\ [r EXCEPT !.step = "get"].step = "get"
    BY DEF Works, WriterSteps
  <2>3. Asleep \in Works /\ Asleep.step = "idle"
    BY WorkIs DEF SeriesInv, SeriesKeepsRest
  <2> QED
    BY <2>1, <2>2, <2>3 DEF DeleteFiles
<1>3. /\ present' \in BOOLEAN /\ throttled' \in BOOLEAN /\ monitored' \subseteq Seasons
      /\ reported' \subseteq Seasons /\ spoiled' = FALSE
      /\ present' => reported' \intersect monitored' = {}
  BY <1>1 DEF SeriesInv, SeriesKeepsRest, SeriesTypeOK, ReportedStayDown, OtherSeasonsSpared
<1> QED
  BY <1>1, <1>2, <1>3, SeriesMoves

LEMMA GetSafe ==
    ASSUME SeriesInv, NEW w \in Writers, Get(w)
    PROVE  SeriesInv'
<1>1. PICK r \in Works : r = writer[w]
  BY WorkIs DEF SeriesInv, SeriesKeepsRest
<1>2. UNCHANGED <<present, monitored, files, throttled, spoiled>>
  BY DEF Get, atSonarr
<1>3. \E rec \in Works : Set(w, rec) /\ rec.step # "drop"
  <2>1. monitored \in SUBSET Seasons
    BY DEF SeriesInv, SeriesKeepsRest, SeriesTypeOK
  <2>2. PICK rec : rec = [r EXCEPT !.step = "put", !.copy = monitored]
    OBVIOUS
  <2>3. rec \in Works /\ rec.step = "put"
    BY <2>1, <2>2 DEF Works, WriterSteps
  <2>4. CASE Set(w, [writer[w] EXCEPT !.step = "put", !.copy = monitored])
    BY <1>1, <2>2, <2>3, <2>4
  <2>5. CASE Went(w, writer[w]) \/ Fails(w)
    BY <2>5, WentIs DEF SeriesInv, SeriesKeepsRest
  <2> QED
    BY <2>4, <2>5 DEF Get
<1>4. reported' \subseteq Seasons /\ (present' => reported' \intersect monitored' = {})
  <2>1. reported \subseteq Seasons /\ (present => reported \intersect monitored = {})
        /\ writer[w].season \subseteq Seasons
    BY <1>1 DEF SeriesInv, SeriesKeepsRest, SeriesTypeOK, ReportedStayDown, Works
  <2>2. \/ reported' = reported
        \/ /\ reported' = reported \union writer[w].season
           /\ writer[w].season \intersect monitored = {}
    BY DEF Get
  <2> QED
    BY <1>2, <2>1, <2>2
<1>5. /\ present' \in BOOLEAN /\ throttled' \in BOOLEAN /\ monitored' \subseteq Seasons
      /\ spoiled' = FALSE /\ files' \subseteq files
  BY <1>2 DEF SeriesInv, SeriesKeepsRest, SeriesTypeOK, OtherSeasonsSpared
<1> QED
  BY <1>3, <1>4, <1>5, SeriesMoves

LEMMA PutSafe ==
    ASSUME SeriesInv, NEW w \in Writers, Put(w)
    PROVE  SeriesInv'
<1>1. PICK r \in Works : r = writer[w]
  BY WorkIs DEF SeriesInv, SeriesKeepsRest
<1>2. PICK wrote : wrote = writer[w].copy \ writer[w].season
  OBVIOUS
<1>3. /\ wrote \subseteq Seasons /\ wrote \intersect writer[w].season = {}
      /\ writer[w].season \subseteq Seasons /\ writer[w].tries \in 0..MaxRetries
  BY <1>1, <1>2 DEF Works
<1>4. /\ UNCHANGED <<present, files, throttled, spoiled>>
      /\ \/ /\ monitored' = wrote /\ Went(w, writer[w])
            /\ reported' = (reported \ wrote) \union writer[w].season
         \/ /\ monitored' \in {monitored} \union (IF present THEN {wrote} ELSE {})
            /\ reported' = IF monitored' = monitored THEN reported ELSE reported \ wrote
            /\ IF writer[w].tries + 1 >= MaxRetries THEN Fails(w)
               ELSE Set(w, [writer[w] EXCEPT !.step = "get", !.tries = @ + 1, !.copy = {}])
  BY <1>2 DEF Put
<1>5. \E rec \in Works : Set(w, rec) /\ rec.step # "drop"
  <2>1. CASE Went(w, writer[w]) \/ Fails(w)
    BY <2>1, WentIs DEF SeriesInv, SeriesKeepsRest
  <2>2. CASE /\ ~(writer[w].tries + 1 >= MaxRetries)
             /\ Set(w, [writer[w] EXCEPT !.step = "get", !.tries = @ + 1, !.copy = {}])
    <3>1. PICK n : n = r.tries + 1
      OBVIOUS
    <3>2. n \in 0..MaxRetries /\ {} \in SUBSET Seasons
      BY <1>1, <1>3, <2>2, <3>1, SeriesAssumption
    <3>3. PICK rec : rec = [r EXCEPT !.step = "get", !.tries = n, !.copy = {}]
      OBVIOUS
    <3>4. rec \in Works /\ rec.step = "get"
      BY <3>2, <3>3 DEF Works, WriterSteps
    <3>5. Set(w, rec)
      BY <1>1, <2>2, <3>1, <3>3
    <3> QED
      BY <3>4, <3>5
  <2> QED
    BY <1>4, <2>1, <2>2
<1>6. /\ monitored' \subseteq Seasons /\ reported' \subseteq Seasons
      /\ (present' => reported' \intersect monitored' = {})
  <2>1. reported \subseteq Seasons /\ monitored \subseteq Seasons
        /\ (present => reported \intersect monitored = {})
    BY DEF SeriesInv, SeriesKeepsRest, SeriesTypeOK, ReportedStayDown
  <2>2. monitored' = wrote \/ monitored' = monitored
    BY <1>4
  <2>3. \/ reported' = reported /\ monitored' = monitored
        \/ reported' = reported \ wrote /\ monitored' = wrote
        \/ reported' = (reported \ wrote) \union writer[w].season /\ monitored' = wrote
    BY <1>4, <2>2
  <2> QED
    BY <1>3, <1>4, <2>1, <2>3
<1>7. present' \in BOOLEAN /\ throttled' \in BOOLEAN /\ spoiled' = FALSE /\ files' \subseteq files
  BY <1>4 DEF SeriesInv, SeriesKeepsRest, SeriesTypeOK, OtherSeasonsSpared
<1> QED
  BY <1>5, <1>6, <1>7, SeriesMoves

LEMMA DropSafe ==
    ASSUME SeriesInv, NEW w \in Writers, Drop(w)
    PROVE  SeriesInv'
<1>1. Asleep \in Works /\ Asleep.step = "idle"
  BY WorkIs DEF SeriesInv, SeriesKeepsRest
<1>2. Set(w, Asleep) /\ UNCHANGED throttled
  BY DEF Drop
<1>3. files \subseteq writer[w].late
  BY DEF Drop, SeriesInv, LateKnown
<1>4. \/ /\ present' = FALSE /\ files' = {} /\ monitored' = {} /\ reported' = {}
         /\ spoiled' = (spoiled \/ (files \ writer[w].late) # {})
      \/ UNCHANGED <<present, monitored, files, reported, spoiled>>
  BY DEF Drop, atSonarr
<1>5. /\ present' \in BOOLEAN /\ throttled' \in BOOLEAN /\ files' \subseteq files
      /\ monitored' \subseteq Seasons /\ reported' \subseteq Seasons
      /\ present' => reported' \intersect monitored' = {}
  <2>1. /\ present \in BOOLEAN /\ throttled \in BOOLEAN /\ monitored \subseteq Seasons
        /\ reported \subseteq Seasons /\ (present => reported \intersect monitored = {})
    BY DEF SeriesInv, SeriesKeepsRest, SeriesTypeOK, ReportedStayDown
  <2>2. CASE UNCHANGED <<present, monitored, files, reported, spoiled>>
    BY <1>2, <2>1, <2>2
  <2>3. CASE present' = FALSE /\ files' = {} /\ monitored' = {} /\ reported' = {}
    BY <1>2, <2>1, <2>3
  <2> QED
    BY <1>4, <2>2, <2>3
<1>6. spoiled' = FALSE
  <2>1. spoiled = FALSE /\ files \ writer[w].late = {}
    BY <1>3 DEF SeriesInv, SeriesKeepsRest, SeriesTypeOK, OtherSeasonsSpared
  <2> QED
    BY <1>4, <2>1
<1> QED
  BY <1>1, <1>2, <1>5, <1>6, SeriesMoves

LEMMA SeriesInvStep ==
    ASSUME SeriesInv, [SeriesNext]_seriesVars
    PROVE  SeriesInv'
<1>1. CASE UNCHANGED seriesVars \/ Count
  <2>1. UNCHANGED <<present, monitored, files, writer, reported, spoiled>> /\ throttled' \in BOOLEAN
    BY <1>1 DEF seriesVars, Count, atSonarr, SeriesInv, SeriesKeepsRest, SeriesTypeOK
  <2> QED
    BY <2>1 DEF SeriesInv, SeriesKeepsRest, SeriesTypeOK, ReportedStayDown, OtherSeasonsSpared,
                LateKnown, Is
<1>2. CASE SeriesNext
  BY <1>1, <1>2, ImportSafe, PlansSafe, DeleteFilesSafe, GetSafe, PutSafe, DropSafe DEF SeriesNext
<1> QED
  BY <1>1, <1>2

\* A season reported as unmonitored stays so until an older copy of the series is
\* written back, and no other season loses files but what was imported meanwhile.
THEOREM SeriesKeepsRestAlways == SeriesSpec => []SeriesKeepsRest
<1>1. SeriesInv => SeriesKeepsRest
  BY DEF SeriesInv
<1> QED
  BY <1>1, SeriesInvInit, SeriesInvStep, PTL DEF SeriesSpec

-----------------------------------------------------------------------------
(* The downloads page: the invariant.                                      *)

\* What a list says of a dl_id is a film of that dl_id.
Fits(list) == \A i \in On(list) \intersect ArrIds : list[i].film \in Films /\ DlId[list[i].film] = i

\* A film of the dl_id had a file at some time.
WasFiled(i) == i \in ArrIds => \E f \in filed : DlId[f] = i

\* What a request looks at left the list it works with, which is of dl_ids as the
\* services have them; what it found done had a file.
RequestFits(r) ==
    /\ Fits(request[r].list) /\ Fits(request[r].gone)
    /\ On(request[r].gone) \intersect On(request[r].list) = {}
    /\ Doing(r, "jobs") => request[r].gone = Nothing
    /\ Doing(r, "insert") => request[r].done \subseteq On(request[r].gone)
    /\ \A i \in request[r].done : WasFiled(i)

\* Ids that a request looks at now, so that they are neither on the list that is kept
\* nor on record.
LookedAt(r) == IF Doing(r, "verify") THEN On(request[r].gone)
               ELSE IF Doing(r, "insert") THEN request[r].done ELSE {}

Covered(i) == i \in On(previous) \/ \E q \in Requests : i \in LookedAt(q)

\* A list may have been replaced since a request swapped it in: what is owed and no
\* longer on the newest one is looked at by somebody, or was recorded meanwhile, and
\* then the request knows that its list is the older.
StillListed(r) ==
    ~(Doing(r, "idle") \/ Doing(r, "jobs") \/ Doing(r, "swap")) =>
        \A i \in owed \intersect On(request[r].list) : i \in request[r].newer \/ Covered(i)

QueueInv ==
    /\ QueueTypeOK /\ LossesHaveACause /\ RecordedHadFile
    /\ Fits(previous) /\ (~started => previous = Nothing)
    /\ \A f \in Films : HasFile(f) => f \in filed
    /\ \A r \in Requests : RequestFits(r) /\ StillListed(r)

-----------------------------------------------------------------------------
(* The downloads page: the steps.                                          *)

PageWorks == [step : PageSteps, list : Lists, gone : Lists,
              done : SUBSET ItemIds, newer : SUBSET ItemIds]
TitleRecords == [ItemIds -> Films \union {"none", NoRow}]

LEMMA ItemIs ==
    /\ Absent \notin Items /\ JobItem \in Items
    /\ Nothing \in Lists /\ On(Nothing) = {} /\ Fits(Nothing)
    /\ \A list \in Lists : \A i \in On(list) : i \in ItemIds /\ list[i] \in Items
BY QueueAssumption DEF Absent, Items, JobItem, Nothing, Lists, On, Fits

LEMMA CompletionsAre ==
    /\ LossesHaveACause <=> \A i \in owed : Covered(i) \/ (i \in ItemIds /\ recent[i] # NoRow)
    /\ LossesHaveACause' <=> \A i \in owed' : Covered(i)' \/ (i \in ItemIds /\ recent'[i] # NoRow)
<1>1. ASSUME NEW i, NEW q \in Requests
      PROVE  /\ i \in LookedAt(q) <=> \/ Doing(q, "verify") /\ i \in On(request[q].gone)
                                      \/ Doing(q, "insert") /\ i \in request[q].done
             /\ (i \in LookedAt(q))' <=> \/ (Doing(q, "verify") /\ i \in On(request[q].gone))'
                                         \/ (Doing(q, "insert") /\ i \in request[q].done)'
  BY DEF LookedAt, Doing
<1>2. \A i : /\ Tracked(i) <=> Covered(i) \/ recent[i] # NoRow
             /\ Tracked(i)' <=> Covered(i)' \/ recent'[i] # NoRow
  BY <1>1 DEF Tracked, Covered
<1> QED
  BY <1>2 DEF LossesHaveACause, owed

LEMMA OwedIs ==
    /\ owed \subseteq ItemIds /\ owed' \subseteq ItemIds
    /\ UNCHANGED fate => owed' = owed
BY DEF owed

\* What ends is owed no more, unless the list that is kept has it.
LEMMA EndsIs ==
    ASSUME QueueTypeOK, NEW how, \A i \in DOMAIN how : how[i] \in Fates /\ how[i] # "owed",
           fate' = Ends(how)
    PROVE  /\ fate' \in [ItemIds -> Fates]
           /\ owed' = owed \ (DOMAIN how \ On(previous))
<1>1. /\ fate \in [ItemIds -> Fates]
      /\ fate' = [i \in ItemIds |-> IF i \in (owed \intersect DOMAIN how) \ On(previous)
                                    THEN how[i] ELSE fate[i]]
  BY DEF QueueTypeOK, Ends
<1>2. fate' \in [ItemIds -> Fates]
  BY <1>1
<1>3. \A i \in ItemIds : fate'[i] = "owed" <=> i \in owed /\ i \notin DOMAIN how \ On(previous)
  BY <1>1 DEF owed
<1> QED
  BY <1>2, <1>3 DEF owed

LEMMA PageIs ==
    ASSUME QueueTypeOK, NEW r \in Requests
    PROVE  /\ request[r] \in PageWorks /\ Resting \in PageWorks
           /\ \A rec \in PageWorks : request' = [request EXCEPT ![r] = rec] =>
                 /\ request'[r] = rec /\ request' \in [Requests -> PageWorks]
                 /\ \A q \in Requests : q # r => request'[q] = request[q]
<1>1. request \in [Requests -> PageWorks]
  BY DEF QueueTypeOK, PageWorks
<1>2. Resting \in PageWorks
  BY ItemIs DEF Resting, PageWorks, PageSteps
<1> QED
  BY <1>1, <1>2

\* A request moves, and what was looked at, listed or recorded and is still owed is so
\* afterwards in one of these ways.
LEMMA PageMoves ==
    ASSUME QueueInv, NEW r \in Requests, NEW rec \in PageWorks,
           request' = [request EXCEPT ![r] = rec], UNCHANGED services,
           previous' \in Lists, started' \in BOOLEAN, Fits(previous)',
           ~started' => previous' = Nothing,
           recent' \in TitleRecords, \A i \in ArrIds : recent'[i] # NoRow => recent[i] # NoRow,
           fate' \in [ItemIds -> Fates],
           RequestFits(r)', StillListed(r)',
           \A i \in owed' : i \notin owed \/ Covered(i) => Covered(i)',
           \A i \in owed' : recent[i] # NoRow => recent'[i] # NoRow \/ Covered(i)'
    PROVE  QueueInv'
<1>1. /\ request'[r] = rec /\ request' \in [Requests -> PageWorks]
      /\ \A q \in Requests : q # r => request'[q] = request[q]
  BY PageIs DEF QueueInv
<1>2. UNCHANGED <<library, running, changes, filed>>
  BY DEF services
<1>3. QueueTypeOK'
  BY <1>1, <1>2 DEF QueueInv, QueueTypeOK, PageWorks, TitleRecords
<1>4. LossesHaveACause'
  <2>1. \A i \in owed : Covered(i) \/ (i \in ItemIds /\ recent[i] # NoRow)
    BY CompletionsAre DEF QueueInv
  <2>2. \A i \in owed' : i \in ItemIds /\ (Covered(i)' \/ recent'[i] # NoRow)
    BY <2>1, OwedIs
  <2> QED
    BY <2>2, CompletionsAre
<1>5. RecordedHadFile'
  BY <1>2 DEF QueueInv, RecordedHadFile
<1>6. ASSUME NEW q \in Requests, q # r PROVE RequestFits(q)' /\ StillListed(q)'
  <2>1. request'[q] = request[q] /\ RequestFits(q) /\ StillListed(q)
    BY <1>1, <1>6 DEF QueueInv
  <2>2. RequestFits(q)'
    BY <1>2, <2>1 DEF RequestFits, Doing, WasFiled
  <2>3. StillListed(q)'
    BY <2>1 DEF StillListed, Doing
  <2> QED
    BY <2>2, <2>3
<1>7. \A f \in Films : HasFile(f)' => f \in filed'
  BY <1>2 DEF QueueInv, HasFile
<1> QED
  BY <1>3, <1>4, <1>5, <1>6, <1>7 DEF QueueInv

LEMMA QueueInvInit ==
    ASSUME QueueInit
    PROVE  QueueInv
<1>1. /\ Resting \in PageWorks /\ Resting.step = "idle" /\ Resting.done = {}
      /\ Resting.list = Nothing /\ Resting.gone = Nothing
  BY ItemIs DEF Resting, PageWorks, PageSteps
<1>2. \A r \in Requests : request[r] = Resting
  BY DEF QueueInit
<1>3. QueueTypeOK
  <2>1. request \in [Requests -> PageWorks]
    BY <1>1 DEF QueueInit
  <2>2. /\ library \in [Films -> {"wanted", "queued", "filed", "upgrading", "hidden"}]
        /\ recent \in [ItemIds -> Films \union {"none", NoRow}]
        /\ running \subseteq Jobs /\ filed \subseteq Films /\ fate \in [ItemIds -> Fates]
        /\ changes \in 0..MaxChanges /\ started \in BOOLEAN /\ previous \in Lists
    <3>1. library \in [Films -> {"wanted", "queued", "filed"}]
      BY DEF QueueInit
    <3>2. library \in [Films -> {"wanted", "queued", "filed", "upgrading", "hidden"}]
      BY <3>1
    <3>3. filed \subseteq Films /\ running \subseteq Jobs
      BY DEF QueueInit
    <3>4. recent \in [ItemIds -> Films \union {"none", NoRow}]
      BY DEF QueueInit
    <3>5. changes = 0 /\ started = FALSE /\ fate \in [ItemIds -> Fates] /\ previous = Nothing
      BY DEF QueueInit, Fates
    <3>6. 0 \in 0..MaxChanges /\ Nothing \in Lists
      BY ItemIs, QueueAssumption
    <3> QED
      BY <3>2, <3>3, <3>4, <3>5, <3>6
  <2> QED
    BY <2>1, <2>2 DEF QueueTypeOK, PageWorks
<1>4. LossesHaveACause /\ RecordedHadFile /\ Fits(previous) /\ previous = Nothing
  BY ItemIs DEF QueueInit, LossesHaveACause, owed, RecordedHadFile, ArrIds, ItemIds
<1>5. \A f \in Films : HasFile(f) => f \in filed
  BY DEF QueueInit
<1>6. ASSUME NEW r \in Requests PROVE RequestFits(r) /\ StillListed(r)
  BY <1>1, <1>2, <1>6, ItemIs DEF RequestFits, StillListed, Doing
<1> QED
  BY <1>3, <1>4, <1>5, <1>6 DEF QueueInv

\* What the services do is no business of the page's.
LEMMA ServicesSafe ==
    ASSUME QueueInv, UNCHANGED <<previous, started, recent, request, fate>>,
           library' \in [Films -> {"wanted", "queued", "filed", "upgrading", "hidden"}],
           running' \subseteq Jobs, changes' \in 0..MaxChanges,
           filed' = filed \union {f \in Films : HasFile(f)'}
    PROVE  QueueInv'
<1>1. filed \subseteq filed' /\ filed' \subseteq Films
  BY DEF QueueInv, QueueTypeOK
<1>2. QueueTypeOK'
  BY <1>1 DEF QueueInv, QueueTypeOK
<1>3. LossesHaveACause' /\ Fits(previous)'
  BY OwedIs DEF QueueInv, LossesHaveACause, Tracked, Fits, On, Doing
<1>4. RecordedHadFile'
  BY <1>1 DEF QueueInv, RecordedHadFile
<1>5. ASSUME NEW r \in Requests PROVE RequestFits(r)' /\ StillListed(r)'
  <2>1. RequestFits(r)'
    BY <1>1 DEF QueueInv, RequestFits, Doing, Fits, WasFiled
  <2>2. StillListed(r)'
    BY OwedIs DEF QueueInv, StillListed, Doing, Covered, LookedAt
  <2> QED
    BY <2>1, <2>2
<1>6. \A f \in Films : HasFile(f)' => f \in filed'
  OBVIOUS
<1> QED
  BY <1>2, <1>3, <1>4, <1>5, <1>6 DEF QueueInv

LEMMA FilmMovesSafe ==
    ASSUME QueueInv, NEW f \in Films, FilmMoves(f)
    PROVE  QueueInv'
<1>1. PICK s \in Next1(library[f]) : library' = [library EXCEPT ![f] = s]
  BY DEF FilmMoves
<1>2. library[f] \in {"wanted", "queued", "filed", "upgrading", "hidden"}
  BY DEF QueueInv, QueueTypeOK
<1>3. s \in {"wanted", "queued", "filed", "upgrading", "hidden"}
  BY <1>1, <1>2 DEF Next1
<1>4. library' \in [Films -> {"wanted", "queued", "filed", "upgrading", "hidden"}]
  BY <1>1, <1>3 DEF QueueInv, QueueTypeOK
<1>5. /\ UNCHANGED <<running, previous, started, recent, request, fate>>
      /\ filed' = filed \union {g \in Films : HasFile(g)'}
  BY DEF FilmMoves, HasFile
<1>6. changes' \in 0..MaxChanges /\ running' \subseteq Jobs
  BY QueueAssumption DEF FilmMoves, QueueInv, QueueTypeOK
<1> QED
  BY <1>4, <1>5, <1>6, ServicesSafe

LEMMA JobMovesSafe ==
    ASSUME QueueInv, NEW j \in Jobs, JobMoves(j)
    PROVE  QueueInv'
<1>1. /\ UNCHANGED <<library, filed, previous, started, recent, request, fate>>
      /\ changes' \in 0..MaxChanges
      /\ library' \in [Films -> {"wanted", "queued", "filed", "upgrading", "hidden"}]
  BY QueueAssumption DEF JobMoves, QueueInv, QueueTypeOK
<1>2. running' \subseteq Jobs
  BY DEF JobMoves, QueueInv, QueueTypeOK
<1>3. filed' = filed \union {f \in Films : HasFile(f)'}
  BY <1>1 DEF QueueInv, HasFile
<1> QED
  BY <1>1, <1>2, <1>3, ServicesSafe

\* Moves that touch the request alone, before its list is swapped in.
LEMMA ListingSafe ==
    ASSUME QueueInv, NEW r \in Requests, NEW rec \in PageWorks,
           request' = [request EXCEPT ![r] = rec], UNCHANGED services,
           UNCHANGED <<previous, started, recent, fate>>,
           Doing(r, "idle") \/ Doing(r, "jobs"),
           rec.step \in {"jobs", "swap"}, Fits(rec.list), rec.gone = Nothing,
           \A i \in rec.done : WasFiled(i)
    PROVE  QueueInv'
<1>1. /\ request'[r] = rec /\ \A q \in Requests : q # r => request'[q] = request[q]
  BY PageIs DEF QueueInv
<1>2. RequestFits(r)' /\ StillListed(r)'
  BY <1>1, ItemIs, OwedIs DEF RequestFits, StillListed, Doing, services, Fits, On, WasFiled
<1>3. \A i \in owed' : Covered(i) => Covered(i)'
  BY <1>1 DEF Covered, LookedAt, Doing
<1>4. Fits(previous)' /\ (~started' => previous' = Nothing)
  BY DEF QueueInv, Fits
<1>5. /\ previous' \in Lists /\ started' \in BOOLEAN /\ recent' \in TitleRecords /\ fate' \in [ItemIds -> Fates]
  BY DEF QueueInv, QueueTypeOK, TitleRecords
<1>6. owed' = owed
  BY OwedIs
<1> QED
  BY <1>2, <1>3, <1>4, <1>5, <1>6, PageMoves

\* A new list has films and series, each under its dl_id.
LEMMA FetchIs ==
    ASSUME NEW r \in Requests, Fetch(r)
    PROVE  \E list \in Lists :
             /\ request' = [request EXCEPT ![r] = [Resting EXCEPT !.step = "jobs", !.list = list]]
             /\ Fits(list)
             /\ \A i \in ItemIds : i \notin ArrIds => list[i] = Absent
<1>1. PICK up \in SUBSET Sources, known \in SUBSET Sources :
        \E whole \in SUBSET up :
           request' = [request EXCEPT ![r] = [Resting EXCEPT
               !.step = "jobs",
               !.list = [i \in ItemIds |->
                   IF i \in ArrIds /\ Cards(i, up, whole) # {}
                   THEN [film |-> Shown(Cards(i, up, whole)),
                         pinned |-> Pinned(i, Shown(Cards(i, up, whole)), known)]
                   ELSE Absent]]]
  BY DEF Fetch
<1>2. PICK whole \in SUBSET up :
        request' = [request EXCEPT ![r] = [Resting EXCEPT
            !.step = "jobs",
            !.list = [i \in ItemIds |->
                IF i \in ArrIds /\ Cards(i, up, whole) # {}
                THEN [film |-> Shown(Cards(i, up, whole)),
                      pinned |-> Pinned(i, Shown(Cards(i, up, whole)), known)]
                ELSE Absent]]]
  BY <1>1
<1>3. PICK list : list = [i \in ItemIds |->
                IF i \in ArrIds /\ Cards(i, up, whole) # {}
                THEN [film |-> Shown(Cards(i, up, whole)),
                      pinned |-> Pinned(i, Shown(Cards(i, up, whole)), known)]
                ELSE Absent]
  OBVIOUS
<1>4. ASSUME NEW i, Cards(i, up, whole) # {}
      PROVE  Shown(Cards(i, up, whole)) \in Films /\ DlId[Shown(Cards(i, up, whole))] = i
  <2>1. Shown(Cards(i, up, whole)) \in Cards(i, up, whole)
    BY <1>4 DEF Shown
  <2> QED
    BY <2>1 DEF Cards
<1>5. ASSUME NEW i \in ItemIds
      PROVE  /\ list[i] \in Items \union {Absent}
             /\ i \in ArrIds /\ list[i] # Absent =>
                   list[i].film \in Films /\ DlId[list[i].film] = i
  <2>1. CASE i \in ArrIds /\ Cards(i, up, whole) # {}
    <3>1. PICK film \in Films : film = Shown(Cards(i, up, whole)) /\ DlId[film] = i
      BY <1>4, <2>1
    <3>2. PICK b \in BOOLEAN : b = Pinned(i, film, known)
      BY DEF Pinned
    <3>3. list[i] = [film |-> film, pinned |-> b]
      BY <1>3, <2>1, <3>1, <3>2
    <3> QED
      BY <3>1, <3>3 DEF Items
  <2>2. CASE ~(i \in ArrIds /\ Cards(i, up, whole) # {})
    BY <1>3, <1>5, <2>2
  <2> QED
    BY <2>1, <2>2
<1>6. list \in Lists
  BY <1>3, <1>5 DEF Lists
<1>7. request' = [request EXCEPT ![r] = [Resting EXCEPT !.step = "jobs", !.list = list]]
  BY <1>2, <1>3
<1>8. \A i \in ItemIds : i \notin ArrIds => list[i] = Absent
  BY <1>3
<1> QED
  BY <1>5, <1>6, <1>7, <1>8 DEF Fits, On

LEMMA FetchSafe ==
    ASSUME QueueInv, NEW r \in Requests, Fetch(r)
    PROVE  QueueInv'
<1>1. PICK list \in Lists :
        /\ request' = [request EXCEPT ![r] = [Resting EXCEPT !.step = "jobs", !.list = list]]
        /\ Fits(list)
  BY FetchIs
<1>2. PICK rec : rec = [Resting EXCEPT !.step = "jobs", !.list = list]
  OBVIOUS
<1>3. rec \in PageWorks /\ rec.step = "jobs" /\ rec.list = list /\ rec.gone = Nothing /\ rec.done = {}
  BY <1>1, <1>2, ItemIs DEF PageWorks, PageSteps, Resting
<1>4. UNCHANGED services /\ UNCHANGED <<previous, started, recent, fate>> /\ Doing(r, "idle")
  BY DEF Fetch
<1> QED
  BY <1>1, <1>2, <1>3, <1>4, ListingSafe

LEMMA ListJobsSafe ==
    ASSUME QueueInv, NEW r \in Requests, ListJobs(r)
    PROVE  QueueInv'
<1>1. PICK w \in PageWorks : w = request[r]
  BY PageIs DEF QueueInv
<1>2. PICK jobs \in {running, {}} :
        request' = [request EXCEPT ![r].step = "swap",
                      ![r].list = [i \in ItemIds |-> IF i \in jobs \ Claimed(@, jobs) THEN JobItem
                                                     ELSE @[i]]]
  BY DEF ListJobs
<1>3. PICK list : list = [i \in ItemIds |-> IF i \in jobs \ Claimed(w.list, jobs) THEN JobItem
                                            ELSE w.list[i]]
  OBVIOUS
<1>4. PICK rec : rec = [w EXCEPT !.step = "swap", !.list = list]
  OBVIOUS
<1>5. request' = [request EXCEPT ![r] = rec]
  BY <1>1, <1>2, <1>3, <1>4 DEF QueueInv, QueueTypeOK
<1>6. jobs \subseteq Jobs /\ w.list \in Lists /\ Fits(w.list) /\ \A i \in w.done : WasFiled(i)
  BY <1>1, <1>2 DEF QueueInv, QueueTypeOK, PageWorks, RequestFits
<1>7. list \in Lists /\ Fits(list)
  <2>1. \A i \in ItemIds : list[i] \in Items \union {Absent}
    BY <1>3, <1>6, ItemIs DEF Lists
  <2>2. \A i \in ArrIds : i \in ItemIds /\ i \notin jobs
    BY <1>6, QueueAssumption DEF ItemIds
  <2>3. \A i \in ArrIds : list[i] = w.list[i]
    BY <1>3, <2>2
  <2> QED
    BY <1>3, <1>6, <2>1, <2>3 DEF Lists, Fits, On
<1>8. /\ rec \in PageWorks /\ rec.step = "swap" /\ rec.list = list /\ rec.gone = w.gone
      /\ rec.done = w.done
  BY <1>4, <1>7 DEF PageWorks, PageSteps
<1>9. w.gone = Nothing /\ UNCHANGED services /\ UNCHANGED <<previous, started, recent, fate>>
      /\ Doing(r, "jobs")
  BY <1>1 DEF ListJobs, QueueInv, RequestFits
<1> QED
  BY <1>5, <1>6, <1>7, <1>8, <1>9, ListingSafe

\* What left the list is now looked at by the request that found it missing.
LEMMA SwapSafe ==
    ASSUME QueueInv, NEW r \in Requests, Swap(r)
    PROVE  QueueInv'
<1>1. PICK w \in PageWorks : w = request[r]
  BY PageIs DEF QueueInv
<1>2. PICK gone : gone = IF started THEN Completed(previous, w.list) ELSE Nothing
  OBVIOUS
<1>3. /\ request' = [request EXCEPT ![r].gone = gone,
                       ![r].step = IF gone = Nothing THEN "sync" ELSE "verify"]
      /\ previous' = w.list /\ started' = TRUE
      /\ fate' = [i \in ItemIds |-> IF i \in On(w.list) THEN "owed" ELSE fate[i]]
      /\ UNCHANGED services /\ UNCHANGED recent /\ Doing(r, "swap")
  BY <1>1, <1>2 DEF Swap
<1>4. w.list \in Lists /\ Fits(w.list) /\ previous \in Lists /\ Fits(previous)
      /\ (\A i \in w.done : WasFiled(i))
  BY <1>1 DEF QueueInv, QueueTypeOK, RequestFits, PageWorks
<1>5. /\ gone \in Lists /\ Fits(gone) /\ On(gone) \intersect On(w.list) = {}
      /\ On(previous) \subseteq On(gone) \union On(w.list)
  <2>1. CASE started
    <3>1. gone = [i \in ItemIds |-> IF w.list[i] = Absent THEN previous[i] ELSE Absent]
      BY <1>2, <2>1 DEF Completed
    <3>2. gone \in Lists
      BY <1>4, <3>1 DEF Lists
    <3> QED
      BY <1>4, <3>1, <3>2 DEF On, Fits
  <2>2. CASE ~started
    <3>1. gone = Nothing /\ previous = Nothing
      BY <1>2, <2>2 DEF QueueInv
    <3> QED
      BY <3>1, ItemIs
  <2> QED
    BY <2>1, <2>2
<1>6. PICK rec : rec = [w EXCEPT !.gone = gone, !.step = IF gone = Nothing THEN "sync" ELSE "verify"]
  OBVIOUS
<1>7. /\ rec \in PageWorks /\ rec.gone = gone /\ rec.list = w.list /\ rec.done = w.done
      /\ rec.step = IF gone = Nothing THEN "sync" ELSE "verify"
  BY <1>5, <1>6 DEF PageWorks, PageSteps
<1>8. request' = [request EXCEPT ![r] = rec]
  BY <1>1, <1>3, <1>6 DEF QueueInv, QueueTypeOK
<1>9. request'[r] = rec /\ \A q \in Requests : q # r => request'[q] = request[q]
  BY <1>7, <1>8, PageIs DEF QueueInv
<1>10. On(gone) \subseteq LookedAt(r)' /\ LookedAt(r) = {}
  BY <1>3, <1>7, <1>9, ItemIs DEF LookedAt, Doing
<1>11. \A i \in owed' : i \notin owed \/ Covered(i) => Covered(i)'
  <2>3. owed' = owed \union On(w.list)
    BY <1>3 DEF owed, On
  <2>1. \A q \in Requests : LookedAt(q) \subseteq LookedAt(q)'
    BY <1>9, <1>10 DEF LookedAt, Doing
  <2>2. On(previous)' = On(w.list)
    BY <1>3 DEF On
  <2> QED
    BY <1>3, <1>5, <1>10, <2>1, <2>2, <2>3 DEF Covered
<1>12. RequestFits(r)'
  <2>1. /\ request'[r].list = w.list /\ request'[r].gone = gone /\ request'[r].done = w.done
        /\ request'[r].step \in {"sync", "verify"}
    BY <1>7, <1>9
  <2>2. \A i \in w.done : WasFiled(i)'
    BY <1>3, <1>4 DEF WasFiled, services
  <2>3. Fits(request[r].list)' /\ Fits(request[r].gone)'
    BY <1>4, <1>5, <2>1 DEF Fits, On
  <2>4. On(request[r].gone)' \intersect On(request[r].list)' = {}
    BY <1>5, <2>1 DEF On
  <2> QED
    BY <2>1, <2>2, <2>3, <2>4 DEF RequestFits, Doing
<1>13. StillListed(r)'
  <2>1. On(request[r].list)' = On(previous)'
    BY <1>3, <1>7, <1>9 DEF On
  <2> QED
    BY <2>1 DEF StillListed, Covered
<1>14. /\ previous' \in Lists /\ Fits(previous)' /\ recent' \in TitleRecords
       /\ fate' \in [ItemIds -> Fates]
  BY <1>3, <1>4 DEF QueueInv, QueueTypeOK, TitleRecords, Fits, On, Fates
<1> QED
  BY <1>3, <1>7, <1>8, <1>11, <1>12, <1>13, <1>14, PageMoves

\* A film is confirmed by a film of its dl_id that has a file now.
LEMMA ConfirmedIs ==
    ASSUME QueueInv, NEW list \in Lists, Fits(list), NEW i \in On(list), Confirmed(i, list[i])
    PROVE  WasFiled(i)
<1> SUFFICES ASSUME i \in ArrIds PROVE \E f \in filed : DlId[f] = i
  BY DEF WasFiled
<1>1. i \notin Jobs
  BY QueueAssumption
<1>2. LibraryFilm(i, list[i]) \in Films /\ DlId[LibraryFilm(i, list[i])] = i
  <2>1. CASE list[i].pinned
    BY <2>1 DEF LibraryFilm, Fits
  <2>2. CASE ~list[i].pinned
    <3>1. \E g \in {g \in Films : DlId[g] = i} : TRUE
      BY DEF ArrIds
    <3> QED
      BY <2>2, <3>1 DEF LibraryFilm
  <2> QED
    BY <2>1, <2>2
<1>3. HasFile(LibraryFilm(i, list[i]))
  BY <1>1 DEF Confirmed
<1> QED
  BY <1>2, <1>3 DEF QueueInv

LEMMA VerifySafe ==
    ASSUME QueueInv, NEW r \in Requests, Verify(r)
    PROVE  QueueInv'
<1>1. PICK w \in PageWorks : w = request[r]
  BY PageIs DEF QueueInv
<1>2. PICK down : LET done == Verified(w.gone, down)
                  IN  /\ request' = [request EXCEPT ![r].done = done,
                                       ![r].gone = IF done = {} THEN Nothing ELSE @,
                                       ![r].step = IF done = {} THEN "sync" ELSE "insert"]
                      /\ fate' = Ends(Refused(w.gone, down))
  BY <1>1 DEF Verify
<1>3. PICK done : done = Verified(w.gone, down)
  OBVIOUS
<1>4. PICK rec : rec = [w EXCEPT !.done = done, !.gone = IF done = {} THEN Nothing ELSE w.gone,
                                 !.step = IF done = {} THEN "sync" ELSE "insert"]
  OBVIOUS
<1>5. request' = [request EXCEPT ![r] = rec]
  BY <1>1, <1>2, <1>3, <1>4 DEF QueueInv, QueueTypeOK
<1>6. /\ w.gone \in Lists /\ Fits(w.gone) /\ Fits(w.list) /\ On(w.gone) \intersect On(w.list) = {}
      /\ done \subseteq On(w.gone) /\ done \subseteq ItemIds
      /\ \A i \in On(w.gone) : i \in done \/ i \in DOMAIN Refused(w.gone, down)
  BY <1>1, <1>3 DEF QueueInv, RequestFits, PageWorks, Verified, Refused, On, Confirmed
<1>7. /\ rec \in PageWorks /\ rec.done = done /\ rec.list = w.list /\ rec.newer = w.newer
      /\ rec.gone = (IF done = {} THEN Nothing ELSE w.gone)
      /\ rec.step = IF done = {} THEN "sync" ELSE "insert"
  BY <1>4, <1>6, ItemIs DEF PageWorks, PageSteps
<1>8. request'[r] = rec /\ \A q \in Requests : q # r => request'[q] = request[q]
  BY <1>5, <1>7, PageIs DEF QueueInv
<1>9. \A i \in done : WasFiled(i)
  BY <1>3, <1>6, ConfirmedIs DEF Verified
<1>10. UNCHANGED services /\ UNCHANGED <<previous, started, recent>> /\ Doing(r, "verify")
  BY DEF Verify
<1>11. RequestFits(r)'
  <2>1. rec.done \subseteq On(rec.gone) /\ Fits(rec.gone) /\ On(rec.gone) \intersect On(rec.list) = {}
    BY <1>6, <1>7, ItemIs
  <2> QED
    BY <1>6, <1>7, <1>8, <1>9, <1>10, <2>1 DEF RequestFits, Doing, services, Fits, On, WasFiled
<1>15. /\ fate' \in [ItemIds -> Fates]
       /\ owed' = owed \ (DOMAIN Refused(w.gone, down) \ On(previous))
  <2>1. \A i \in DOMAIN Refused(w.gone, down) :
           Refused(w.gone, down)[i] \in Fates /\ Refused(w.gone, down)[i] # "owed"
    BY DEF Refused, Fates, Causes
  <2> QED
    BY <1>2, <2>1, EndsIs DEF QueueInv
<1>12. \A i \in owed' : i \in owed /\ (Covered(i) => Covered(i)')
  <2> SUFFICES ASSUME NEW i \in owed', Covered(i) PROVE Covered(i)'
    BY <1>15
  <2>1. i \in On(previous) \/ i \notin DOMAIN Refused(w.gone, down)
    BY <1>15
  <2>2. On(previous)' = On(previous)
    BY <1>10 DEF On
  <2>3. LookedAt(r) = On(w.gone) /\ LookedAt(r)' = done
    BY <1>1, <1>7, <1>8, <1>10 DEF LookedAt, Doing
  <2>4. \A q \in Requests : q # r => LookedAt(q)' = LookedAt(q)
    BY <1>8 DEF LookedAt, Doing
  <2> QED
    BY <1>6, <2>1, <2>2, <2>3, <2>4 DEF Covered
<1>13. StillListed(r)'
  <2>1. StillListed(r)
    BY DEF QueueInv
  <2>2. On(request[r].list)' = On(request[r].list) /\ request'[r].newer = request[r].newer
    BY <1>1, <1>7, <1>8 DEF On
  <2> QED
    BY <1>10, <1>12, <2>1, <2>2 DEF StillListed, Doing
<1>14. /\ previous' \in Lists /\ Fits(previous)' /\ recent' \in TitleRecords
       /\ started' \in BOOLEAN /\ fate' \in [ItemIds -> Fates] /\ (~started' => previous' = Nothing)
  BY <1>10, <1>15 DEF QueueInv, QueueTypeOK, TitleRecords, Fits, On
<1> QED
  BY <1>5, <1>7, <1>10, <1>11, <1>12, <1>13, <1>14, PageMoves

\* A batch that is recorded, and every request that is under way learns that its list
\* is the older.
Recording(r) ==
    request' = [q \in Requests |->
        LET m == [request EXCEPT ![r].step = "sync", ![r].gone = Nothing, ![r].done = {}]
        IN  IF q # r /\ Doing(q, "idle") THEN m[q]
            ELSE [m[q] EXCEPT !.newer = IF q = r THEN @ ELSE @ \union request[r].done]]

LEMMA RecordSafe ==
    ASSUME QueueInv, NEW r \in Requests, Doing(r, "insert"), Recording(r),
           recent' = [i \in ItemIds |-> IF i \in {j \in request[r].done : recent[j] = NoRow}
                                        THEN request[r].gone[i].film ELSE recent[i]],
           UNCHANGED <<services, fate, previous, started>>
    PROVE  QueueInv'
<1>1. PICK w \in PageWorks : w = request[r]
  BY PageIs DEF QueueInv
<1>2. /\ w.done \subseteq On(w.gone) /\ w.gone \in Lists /\ w.done \subseteq ItemIds
      /\ On(w.gone) \intersect On(w.list) = {} /\ Fits(w.list)
      /\ \A i \in w.done : WasFiled(i)
  BY <1>1 DEF QueueInv, RequestFits, PageWorks
<1>3. PICK rec : rec = [w EXCEPT !.step = "sync", !.gone = Nothing, !.done = {}]
  OBVIOUS
<1>4. /\ rec \in PageWorks /\ rec.step = "sync" /\ rec.gone = Nothing /\ rec.done = {}
      /\ rec.list = w.list /\ rec.newer = w.newer
  BY <1>3, ItemIs DEF PageWorks, PageSteps
<1>5. request'[r] = rec
  <2>1. [request EXCEPT ![r].step = "sync", ![r].gone = Nothing, ![r].done = {}][r] = rec
    BY <1>1, <1>3 DEF QueueInv, QueueTypeOK
  <2>2. request'[r] = [rec EXCEPT !.newer = rec.newer]
    BY <2>1 DEF Recording
  <2> QED
    BY <1>4, <2>2 DEF PageWorks
<1>6. ASSUME NEW q \in Requests, q # r
      PROVE  /\ request'[q] \in PageWorks
             /\ request'[q].step = request[q].step /\ request'[q].list = request[q].list
             /\ request'[q].gone = request[q].gone /\ request'[q].done = request[q].done
             /\ request'[q].newer = IF Doing(q, "idle") THEN request[q].newer
                                    ELSE request[q].newer \union w.done
  <2>1. PICK v \in PageWorks : v = request[q]
    BY PageIs DEF QueueInv
  <2>2. [request EXCEPT ![r].step = "sync", ![r].gone = Nothing, ![r].done = {}][q] = v
    BY <1>6, <2>1 DEF QueueInv, QueueTypeOK
  <2>3. request'[q] = IF Doing(q, "idle") THEN v ELSE [v EXCEPT !.newer = v.newer \union w.done]
    <3>1. PICK m : m = [request EXCEPT ![r].step = "sync", ![r].gone = Nothing, ![r].done = {}]
      OBVIOUS
    <3>2. CASE Doing(q, "idle")
      BY <1>6, <2>2, <3>2 DEF Recording
    <3>3. CASE ~Doing(q, "idle")
      <4>1. request'[q] = [m[q] EXCEPT !.newer = IF q = r THEN m[q].newer ELSE m[q].newer \union request[r].done]
        BY <3>1, <3>3 DEF Recording
      <4>2. m[q] = v
        BY <2>2, <3>1
      <4>3. request'[q] = [v EXCEPT !.newer = v.newer \union w.done]
        BY <1>1, <1>6, <4>1, <4>2
      <4> QED
        BY <3>3, <4>3
    <3> QED
      BY <3>2, <3>3
  <2>4. PICK u : u = [v EXCEPT !.newer = v.newer \union w.done]
    OBVIOUS
  <2>5. /\ u \in PageWorks /\ u.newer = v.newer \union w.done
        /\ u.step = v.step /\ u.list = v.list /\ u.gone = v.gone /\ u.done = v.done
    BY <1>2, <2>4 DEF PageWorks
  <2>6. CASE Doing(q, "idle")
    <3>1. request'[q] = v
      BY <2>3, <2>6
    <3> QED
      BY <2>1, <2>6, <3>1
  <2>7. CASE ~Doing(q, "idle")
    <3>1. request'[q] = u
      BY <2>3, <2>4, <2>7
    <3> QED
      BY <2>1, <2>5, <2>7, <3>1
  <2> QED
    BY <2>6, <2>7
<1>7. /\ recent' \in TitleRecords
      /\ \A i \in ItemIds : i \in w.done \/ recent[i] # NoRow <=> recent'[i] # NoRow
  <2>1. ASSUME NEW i \in w.done PROVE w.gone[i].film \in Films \union {"none"} /\ w.gone[i].film # NoRow
    BY <1>2, <2>1, ItemIs, QueueAssumption DEF Items, NoRow
  <2> QED
    BY <1>1, <1>2, <2>1 DEF QueueInv, QueueTypeOK, TitleRecords
<1>8. QueueTypeOK'
  <2>1. request' \in [Requests -> PageWorks]
    <3>1. request' = [q \in Requests |-> request'[q]]
      BY DEF Recording
    <3>2. \A q \in Requests : request'[q] \in PageWorks
      BY <1>4, <1>5, <1>6
    <3> QED
      BY <3>1, <3>2
  <2> QED
    BY <1>7, <2>1 DEF QueueInv, QueueTypeOK, PageWorks, TitleRecords, services
<1>9. /\ LookedAt(r) = w.done /\ \A q \in Requests : q # r => LookedAt(q)' = LookedAt(q)
      /\ On(previous)' = On(previous)
  <2>1. LookedAt(r) = w.done
    BY <1>1 DEF LookedAt, Doing
  <2>2. ASSUME NEW q \in Requests, q # r PROVE LookedAt(q)' = LookedAt(q)
    <3>1. /\ request'[q].step = request[q].step /\ request'[q].gone = request[q].gone
          /\ request'[q].done = request[q].done
      BY <1>6, <2>2
    <3>2. On(request[q].gone)' = On(request[q].gone)
      BY <3>1 DEF On
    <3> QED
      BY <3>1, <3>2 DEF LookedAt, Doing
  <2> QED
    BY <2>1, <2>2 DEF On
<1>10. \A i \in owed : Covered(i) => Covered(i)' \/ i \in w.done
  BY <1>9 DEF Covered
<1>11. LossesHaveACause'
  <2>1. \A i \in owed : Covered(i) \/ (i \in ItemIds /\ recent[i] # NoRow)
    BY CompletionsAre DEF QueueInv
  <2>2. \A i \in owed' : Covered(i)' \/ (i \in ItemIds /\ recent'[i] # NoRow)
    BY <1>2, <1>7, <1>10, <2>1, OwedIs
  <2> QED
    BY <2>2, CompletionsAre
<1>12. RecordedHadFile'
  BY <1>2, <1>7 DEF QueueInv, RecordedHadFile, WasFiled, ItemIds, services
<1>13. RequestFits(r)' /\ StillListed(r)'
  <2>1. RequestFits(r)'
    <3>1. /\ request'[r].list = w.list /\ request'[r].gone = Nothing /\ request'[r].done = {}
          /\ request'[r].step = "sync"
      BY <1>4, <1>5
    <3>2. Fits(request[r].list)' /\ Fits(request[r].gone)'
      BY <1>2, <3>1, ItemIs DEF Fits, On
    <3>3. On(request[r].gone)' = {}
      BY <3>1, ItemIs DEF On
    <3> QED
      BY <3>1, <3>2, <3>3 DEF RequestFits, Doing
  <2>2. \A i \in On(request[r].list) : i \notin w.done
    BY <1>1, <1>2
  <2>3. StillListed(r) /\ On(request[r].list)' = On(request[r].list)
        /\ request'[r].newer = request[r].newer
    BY <1>1, <1>4, <1>5 DEF QueueInv, On
  <2> QED
    BY <1>10, <2>1, <2>2, <2>3, OwedIs DEF StillListed, Doing
<1>14. ASSUME NEW q \in Requests, q # r PROVE RequestFits(q)' /\ StillListed(q)'
  <2>1. /\ request'[q].step = request[q].step /\ request'[q].list = request[q].list
        /\ request'[q].gone = request[q].gone /\ request'[q].done = request[q].done
    BY <1>6, <1>14
  <2>2. /\ Fits(request[q].list)' = Fits(request[q].list)
        /\ Fits(request[q].gone)' = Fits(request[q].gone)
        /\ On(request[q].gone)' = On(request[q].gone)
        /\ On(request[q].list)' = On(request[q].list)
    BY <2>1 DEF Fits, On
  <2>3. \A i : WasFiled(i)' <=> WasFiled(i)
    BY DEF WasFiled, services
  <2>4. RequestFits(q) /\ StillListed(q)
    BY DEF QueueInv
  <2>5. RequestFits(q)'
    BY <2>1, <2>2, <2>3, <2>4 DEF RequestFits, Doing
  <2>6. StillListed(q)'
    <3> SUFFICES ASSUME ~(Doing(q, "idle") \/ Doing(q, "jobs") \/ Doing(q, "swap"))',
                        NEW i \in owed \intersect On(request[q].list)
                 PROVE  i \in request'[q].newer \/ Covered(i)'
      BY <2>2, OwedIs DEF StillListed
    <3>1. ~(Doing(q, "idle") \/ Doing(q, "jobs") \/ Doing(q, "swap"))
      BY <2>1 DEF Doing
    <3>2. i \in request[q].newer \/ Covered(i)
      BY <2>4, <3>1 DEF StillListed
    <3>3. request'[q].newer = request[q].newer \union w.done
      BY <1>6, <1>14, <3>1
    <3> QED
      BY <1>10, <3>2, <3>3
  <2> QED
    BY <2>5, <2>6
<1>15. Fits(previous)' /\ (~started' => previous' = Nothing) /\ \A f \in Films : HasFile(f)' => f \in filed'
  BY DEF QueueInv, Fits, On, HasFile, services
<1> QED
  BY <1>8, <1>11, <1>12, <1>13, <1>14, <1>15 DEF QueueInv

LEMMA InsertSafe ==
    ASSUME QueueInv, NEW r \in Requests, Insert(r)
    PROVE  QueueInv'
<1>1. CASE recent' = recent /\ fate' = Ends([i \in request[r].done |-> "unwritten"])
           /\ request' = [request EXCEPT ![r].step = "sync", ![r].gone = Nothing, ![r].done = {}]
  <2>1. PICK w \in PageWorks : w = request[r]
    BY PageIs DEF QueueInv
  <2>2. PICK rec : rec = [w EXCEPT !.step = "sync", !.gone = Nothing, !.done = {}]
    OBVIOUS
  <2>3. /\ rec \in PageWorks /\ rec.step = "sync" /\ rec.gone = Nothing /\ rec.done = {}
        /\ rec.list = w.list /\ rec.newer = w.newer
    BY <2>2, ItemIs DEF PageWorks, PageSteps
  <2>4. request' = [request EXCEPT ![r] = rec]
    BY <1>1, <2>1, <2>2 DEF QueueInv, QueueTypeOK
  <2>5. request'[r] = rec /\ \A q \in Requests : q # r => request'[q] = request[q]
    BY <2>3, <2>4, PageIs DEF QueueInv
  <2>6. UNCHANGED services /\ UNCHANGED <<previous, started>> /\ Doing(r, "insert")
    BY DEF Insert
  <2>7. RequestFits(r)'
    BY <2>1, <2>3, <2>5, ItemIs DEF QueueInv, RequestFits, Doing, Fits, On
  <2>11. /\ fate' \in [ItemIds -> Fates]
         /\ owed' = owed \ (request[r].done \ On(previous))
    <3>1. PICK how : how = [i \in request[r].done |-> "unwritten"]
      OBVIOUS
    <3>2. DOMAIN how = request[r].done
          /\ \A i \in DOMAIN how : how[i] \in Fates /\ how[i] # "owed"
      BY <3>1 DEF Fates, Causes
    <3>3. fate' = Ends(how)
      BY <1>1, <3>1
    <3> QED
      BY <3>2, <3>3, EndsIs DEF QueueInv
  <2>8. \A i \in owed' : i \in owed /\ (Covered(i) => Covered(i)')
    <3>1. LookedAt(r) = request[r].done /\ \A q \in Requests : q # r => LookedAt(q)' = LookedAt(q)
      BY <2>5, <2>6 DEF LookedAt, Doing
    <3>2. On(previous)' = On(previous)
      BY <2>6 DEF On
    <3> QED
      BY <2>11, <3>1, <3>2 DEF Covered
  <2>9. StillListed(r)'
    <3>1. StillListed(r) /\ On(request[r].list)' = On(request[r].list)
          /\ request'[r].newer = request[r].newer
      BY <2>1, <2>3, <2>5 DEF QueueInv, On
    <3> QED
      BY <2>6, <2>8, <3>1 DEF StillListed, Doing
  <2>10. /\ previous' \in Lists /\ Fits(previous)' /\ recent' \in TitleRecords
         /\ started' \in BOOLEAN /\ fate' \in [ItemIds -> Fates] /\ (~started' => previous' = Nothing)
    BY <1>1, <2>6, <2>11 DEF QueueInv, QueueTypeOK, TitleRecords, Fits, On
  <2> QED
    BY <1>1, <2>3, <2>4, <2>6, <2>7, <2>8, <2>9, <2>10, PageMoves
<1>2. CASE /\ recent' = [i \in ItemIds |-> IF i \in {j \in request[r].done : recent[j] = NoRow}
                                           THEN request[r].gone[i].film ELSE recent[i]]
           /\ Recording(r)
           /\ UNCHANGED fate
  BY <1>2, RecordSafe DEF Insert
<1> QED
  BY <1>1, <1>2 DEF Insert, Recording

\* What is dropped from the record is on the list that is kept, or is looked at, or is
\* owed no more.
LEMMA SyncSafe ==
    ASSUME QueueInv, NEW r \in Requests, Sync(r)
    PROVE  QueueInv'
<1>1. PICK drops : drops = {i \in ItemIds : recent[i] # NoRow
                               /\ TitleOf[i] \in {TitleOf[j] : j \in On(request[r].list)}}
  OBVIOUS
<1>10. PICK spent : spent = {i \in drops : i \notin On(request[r].list) \/ i \in request[r].newer}
  OBVIOUS
<1>11. PICK how : how = [i \in spent |-> IF i \in On(request[r].list) THEN "older" ELSE "title"]
  OBVIOUS
<1>12. /\ recent' = [i \in ItemIds |-> IF i \in drops THEN NoRow ELSE recent[i]]
       /\ fate' = Ends(how)
  BY <1>1, <1>10, <1>11 DEF Sync
<1>13. fate' \in [ItemIds -> Fates] /\ owed' = owed \ (spent \ On(previous))
  <2>1. DOMAIN how = spent /\ \A i \in DOMAIN how : how[i] \in Fates /\ how[i] # "owed"
    BY <1>11 DEF Fates, Causes
  <2> QED
    BY <1>12, <2>1, EndsIs DEF QueueInv
<1>2. /\ recent' = [i \in ItemIds |-> IF i \in drops THEN NoRow ELSE recent[i]]
      /\ fate' \in [ItemIds -> Fates]
      /\ owed' = owed \ ({i \in drops : i \notin On(request[r].list) \/ i \in request[r].newer}
                           \ On(previous))
      /\ request' = [request EXCEPT ![r] = Resting] /\ Doing(r, "sync")
      /\ UNCHANGED services /\ UNCHANGED <<previous, started>>
  BY <1>10, <1>12, <1>13 DEF Sync
<1>3. Resting \in PageWorks /\ Resting.step = "idle" /\ Resting.list = Nothing
      /\ Resting.gone = Nothing /\ Resting.done = {}
  BY PageIs DEF QueueInv, Resting
<1>4. request'[r] = Resting /\ \A q \in Requests : q # r => request'[q] = request[q]
  BY <1>2, <1>3, PageIs DEF QueueInv
<1>5. RequestFits(r)' /\ StillListed(r)'
  BY <1>3, <1>4, ItemIs DEF RequestFits, StillListed, Doing, Fits, On
<1>6. \A i : Covered(i) => Covered(i)'
  <2>1. LookedAt(r) = {} /\ \A q \in Requests : q # r => LookedAt(q)' = LookedAt(q)
    BY <1>2, <1>4 DEF LookedAt, Doing
  <2>2. On(previous)' = On(previous)
    BY <1>2 DEF On
  <2> QED
    BY <2>1, <2>2 DEF Covered
<1>7. \A i \in owed' : recent[i] # NoRow => recent'[i] # NoRow \/ Covered(i)'
  <2> SUFFICES ASSUME NEW i \in owed', recent[i] # NoRow, recent'[i] = NoRow PROVE Covered(i)
    BY <1>6
  <2>1. i \in ItemIds /\ i \in owed
    BY <1>2, OwedIs
  <2>2. i \in drops
    BY <1>2, <2>1
  <2>3. CASE i \in On(previous)
    BY <2>3 DEF Covered
  <2>4. CASE i \in On(request[r].list) /\ i \notin request[r].newer
    BY <1>2, <2>1, <2>4 DEF QueueInv, StillListed, Doing
  <2> QED
    BY <1>2, <2>2, <2>3, <2>4
<1>8. /\ previous' \in Lists /\ Fits(previous)' /\ recent' \in TitleRecords
      /\ started' \in BOOLEAN /\ (~started' => previous' = Nothing)
      /\ \A i \in ArrIds : recent'[i] # NoRow => recent[i] # NoRow
  BY <1>2 DEF QueueInv, QueueTypeOK, TitleRecords, Fits, On, ItemIds
<1> QED
  BY <1>2, <1>3, <1>5, <1>6, <1>7, <1>8, PageMoves

LEMMA CleanupSafe ==
    ASSUME QueueInv, Cleanup
    PROVE  QueueInv'
<1>1. /\ recent' = [i \in ItemIds |-> NoRow]
      /\ fate' = [i \in ItemIds |-> IF recent[i] # NoRow /\ i \notin On(previous)
                                    THEN "settled" ELSE fate[i]]
      /\ UNCHANGED <<library, running, changes, filed, previous, started, request>>
  BY DEF Cleanup, services
<1>7. /\ fate' \in [ItemIds -> Fates]
      /\ owed' = {i \in owed : recent[i] = NoRow \/ i \in On(previous)}
  <2>1. fate \in [ItemIds -> Fates]
    BY DEF QueueInv, QueueTypeOK
  <2>2. fate' \in [ItemIds -> Fates]
    BY <1>1, <2>1 DEF Fates
  <2>3. \A i \in ItemIds : fate'[i] = "owed" <=> fate[i] = "owed" /\ (recent[i] = NoRow \/ i \in On(previous))
    BY <1>1
  <2> QED
    BY <2>2, <2>3 DEF owed
<1>2. \A i : Covered(i)' = Covered(i)
  BY <1>1 DEF Covered, LookedAt, Doing, On
<1>3. LossesHaveACause'
  <2>1. \A i \in owed : Covered(i) \/ (i \in ItemIds /\ recent[i] # NoRow)
    BY CompletionsAre DEF QueueInv
  <2>2. \A i \in owed' : Covered(i)'
    BY <1>2, <1>7, <2>1 DEF Covered
  <2> QED
    BY <2>2, CompletionsAre
<1>4. QueueTypeOK' /\ RecordedHadFile'
  BY <1>1, <1>7 DEF QueueInv, QueueTypeOK, RecordedHadFile, ItemIds
<1>5. ASSUME NEW r \in Requests PROVE RequestFits(r)' /\ StillListed(r)'
  <2>1. RequestFits(r)'
    BY <1>1 DEF QueueInv, RequestFits, Doing, Fits, On, WasFiled
  <2>2. StillListed(r)'
    BY <1>1, <1>2, <1>7 DEF QueueInv, StillListed, Doing, On
  <2> QED
    BY <2>1, <2>2
<1>6. Fits(previous)' /\ (~started' => previous' = Nothing) /\ \A f \in Films : HasFile(f)' => f \in filed'
  BY <1>1 DEF QueueInv, Fits, On, HasFile
<1> QED
  BY <1>3, <1>4, <1>5, <1>6 DEF QueueInv

LEMMA ForgetListsSafe ==
    ASSUME QueueInv, ForgetLists
    PROVE  QueueInv'
<1>1. /\ previous' = Nothing /\ started' = FALSE /\ request' = [r \in Requests |-> Resting]
      /\ fate' = [i \in ItemIds |-> IF i \in owed /\ recent[i] = NoRow THEN "restart" ELSE fate[i]]
      /\ UNCHANGED <<library, running, changes, filed, recent>>
  BY DEF ForgetLists, services
<1>8. /\ fate' \in [ItemIds -> Fates]
      /\ owed' = {i \in owed : recent[i] # NoRow}
  <2>1. fate \in [ItemIds -> Fates]
    BY DEF QueueInv, QueueTypeOK
  <2>2. fate' \in [ItemIds -> Fates]
    BY <1>1, <2>1 DEF Fates, Causes
  <2>3. \A i \in ItemIds : fate'[i] = "owed" <=> i \in owed /\ recent[i] # NoRow
    BY <1>1 DEF owed
  <2> QED
    BY <2>2, <2>3 DEF owed
<1>2. /\ Resting \in PageWorks /\ Resting.step = "idle" /\ Resting.done = {}
      /\ Resting.list = Nothing /\ Resting.gone = Nothing
  BY ItemIs DEF Resting, PageWorks, PageSteps
<1>3. QueueTypeOK'
  <2>1. request' \in [Requests -> PageWorks] /\ previous' \in Lists
    BY <1>1, <1>2, ItemIs
  <2> QED
    BY <1>1, <1>8, <2>1 DEF QueueInv, QueueTypeOK, PageWorks
<1>4. LossesHaveACause'
  <2>1. \A i \in owed' : i \in ItemIds /\ recent'[i] # NoRow
    BY <1>1, <1>8, OwedIs
  <2> QED
    BY <2>1, CompletionsAre
<1>5. RecordedHadFile' /\ \A f \in Films : HasFile(f)' => f \in filed'
  BY <1>1 DEF QueueInv, RecordedHadFile, HasFile
<1>6. ASSUME NEW r \in Requests PROVE RequestFits(r)' /\ StillListed(r)'
  <2>1. request'[r] = Resting
    BY <1>1
  <2> QED
    BY <1>2, <2>1, ItemIs DEF RequestFits, StillListed, Doing, Fits, On
<1>7. Fits(previous)'
  BY <1>1, ItemIs DEF Fits, On
<1> QED
  BY <1>1, <1>3, <1>4, <1>5, <1>6, <1>7 DEF QueueInv

LEMMA QueueInvStep ==
    ASSUME QueueInv, [QueueNext]_queueVars
    PROVE  QueueInv'
<1>1. CASE UNCHANGED queueVars
  <2>1. /\ UNCHANGED <<previous, started, recent, request, fate, library, running, changes, filed>>
    BY <1>1 DEF queueVars
  <2>2. /\ library' \in [Films -> {"wanted", "queued", "filed", "upgrading", "hidden"}]
        /\ running' \subseteq Jobs /\ changes' \in 0..MaxChanges
    BY <2>1 DEF QueueInv, QueueTypeOK
  <2>3. filed' = filed \union {f \in Films : HasFile(f)'}
    BY <2>1 DEF QueueInv, HasFile
  <2> QED
    BY <2>1, <2>2, <2>3, ServicesSafe
<1>2. CASE QueueNext
  BY <1>2, FilmMovesSafe, JobMovesSafe, FetchSafe, ListJobsSafe, SwapSafe, VerifySafe, InsertSafe,
     SyncSafe, CleanupSafe, ForgetListsSafe DEF QueueNext
<1> QED
  BY <1>1, <1>2

-----------------------------------------------------------------------------
(* The downloads page: the jobs of NZBGet.                                 *)

\* What a card does to the jobs it finds free.
Left(list, n, free) ==
    IF list[CardOrder[n]] = Absent THEN free ELSE free \ Takes(CardOrder[n], free)

\* How the jobs become fewer from card to card.
IsRun(f, list, jobs, m) ==
    /\ f = [n \in 0..m |-> f[n]] /\ f[0] = jobs
    /\ \A n \in 1..m : f[n] = Left(list, n, f[n - 1])

LEMMA RunExists ==
    ASSUME NEW list, NEW jobs, NEW N \in Nat
    PROVE  \E f : IsRun(f, list, jobs, N)
<1> DEFINE S == {m \in 0..N : ~ \E f : IsRun(f, list, jobs, m)}
<1> SUFFICES ASSUME S # {} PROVE FALSE
  OBVIOUS
<1>1. PICK m \in S : \A k \in S : m <= k
  <2>1. S \in SUBSET Nat
    OBVIOUS
  <2> QED
    BY <2>1, FirstOf
<1>2. m \in 0..N /\ ~ \E f : IsRun(f, list, jobs, m)
  OBVIOUS
<1>3. CASE m = 0
  <2> DEFINE g == [n \in 0..0 |-> jobs]
  <2>1. g = [n \in 0..0 |-> g[n]] /\ g[0] = jobs /\ 1..0 = {}
    OBVIOUS
  <2>2. IsRun(g, list, jobs, 0)
    BY <2>1 DEF IsRun
  <2> QED
    BY <1>2, <1>3, <2>2
<1>4. CASE m # 0
  <2>1. m - 1 \in 0..N /\ ~(m <= m - 1)
    BY <1>2, <1>4
  <2>2. PICK f : IsRun(f, list, jobs, m - 1)
    BY <1>1, <2>1
  <2> DEFINE g == [n \in 0..m |-> IF n = m THEN Left(list, m, f[m - 1]) ELSE f[n]]
  <2>3. \A n \in 1..m : n - 1 \in 0..m /\ n - 1 # m /\ (n # m => n \in 1..(m - 1))
    BY <1>2
  <2>4. g[0] = jobs
    BY <1>2, <1>4, <2>2 DEF IsRun
  <2>5. ASSUME NEW n \in 1..m PROVE g[n] = Left(list, n, g[n - 1])
    <3>1. g[n - 1] = f[n - 1] /\ n \in 0..m
      BY <1>2, <2>3
    <3>2. CASE n = m
      BY <3>1, <3>2
    <3>3. CASE n # m
      <4>1. g[n] = f[n] /\ n \in 1..(m - 1)
        BY <2>3, <3>1, <3>3
      <4>2. f[n] = Left(list, n, f[n - 1])
        BY <2>2, <4>1 DEF IsRun
      <4> QED
        BY <3>1, <4>1, <4>2
    <3> QED
      BY <3>2, <3>3
  <2>6. g = [n \in 0..m |-> g[n]]
    OBVIOUS
  <2> HIDE DEF g
  <2>7. IsRun(g, list, jobs, m)
    BY <2>4, <2>5, <2>6 DEF IsRun
  <2> QED
    BY <1>2, <2>7
<1> QED
  BY <1>3, <1>4

LEMMA LeaveIs ==
    ASSUME NEW list, NEW jobs
    PROVE  IsRun(Leave(list, jobs), list, jobs, Len(CardOrder))
<1> DEFINE N == Len(CardOrder)
           Whole(f) == f = [n \in 0..N |-> IF n = 0 THEN jobs ELSE Left(list, n, f[n - 1])]
<1>1. N \in Nat
  BY QueueAssumption
<1>2. Leave(list, jobs) = CHOOSE f : Whole(f)
  BY DEF Leave, Left
<1>3. PICK f : IsRun(f, list, jobs, N)
  BY <1>1, RunExists
<1>4. Whole(f)
  <2>1. f = [n \in 0..N |-> f[n]]
    BY <1>3 DEF IsRun
  <2>2. \A n \in 0..N : f[n] = IF n = 0 THEN jobs ELSE Left(list, n, f[n - 1])
    <3>1. \A n \in 0..N : n = 0 \/ n \in 1..N
      BY <1>1
    <3> QED
      BY <1>3, <3>1 DEF IsRun
  <2>3. [n \in 0..N |-> f[n]] = [n \in 0..N |-> IF n = 0 THEN jobs ELSE Left(list, n, f[n - 1])]
    BY <2>2
  <2> QED
    BY <2>1, <2>3
<1> HIDE DEF Whole
<1>5. PICK g : g = Leave(list, jobs) /\ Whole(g)
  BY <1>2, <1>4
<1>6. g = [n \in 0..N |-> IF n = 0 THEN jobs ELSE Left(list, n, g[n - 1])]
  BY <1>5 DEF Whole
<1>7. g = [n \in 0..N |-> g[n]]
  BY <1>6
<1>8. g[0] = jobs /\ \A n \in 1..N : g[n] = Left(list, n, g[n - 1])
  <2>1. 0 \in 0..N /\ \A n \in 1..N : n \in 0..N /\ n # 0
    BY <1>1
  <2> HIDE DEF N
  <2> QED
    BY <1>6, <2>1
<1> QED
  BY <1>5, <1>7, <1>8 DEF IsRun

\* No card gives a job back.
LEMMA LeaveShrinks ==
    ASSUME NEW f, NEW list, NEW jobs, NEW N \in Nat, IsRun(f, list, jobs, N),
           NEW m \in 0..N, NEW n \in 0..N, m <= n
    PROVE  f[n] \subseteq f[m]
<1> DEFINE S == {k \in 0..N : m <= k /\ ~(f[k] \subseteq f[m])}
<1> SUFFICES ASSUME S # {} PROVE FALSE
  OBVIOUS
<1>1. PICK k \in S : \A j \in S : k <= j
  <2>1. S \in SUBSET Nat
    OBVIOUS
  <2> QED
    BY <2>1, FirstOf
<1>2. k \in 0..N /\ m <= k /\ ~(f[k] \subseteq f[m]) /\ k # m
  OBVIOUS
<1>3. k \in 1..N /\ k - 1 \in 0..N /\ m <= k - 1 /\ ~(k <= k - 1)
  BY <1>2
<1>4. f[k - 1] \subseteq f[m]
  BY <1>1, <1>3
<1>5. f[k] \subseteq f[k - 1]
  BY <1>3 DEF IsRun, Left
<1> QED
  BY <1>2, <1>4, <1>5

\* Of the jobs that fit there is one of which most is left.
LEMMA MostIsLeft ==
    ASSUME NEW fit \in SUBSET Jobs, fit # {}
    PROVE  \E j \in fit : \A k \in fit : Remaining[k] <= Remaining[j]
<1> DEFINE More(j) == {k \in fit : Remaining[k] > Remaining[j]}
           S == {Cardinality(More(j)) : j \in fit}
<1>1. IsFiniteSet(Jobs) /\ \A j \in fit : Remaining[j] \in Nat
  BY QueueAssumption
<1>2. IsFiniteSet(fit)
  BY <1>1, FS_Subset
<1>3. \A j \in fit : IsFiniteSet(More(j)) /\ Cardinality(More(j)) \in Nat
  <2> TAKE j \in fit
  <2>1. More(j) \in SUBSET fit
    OBVIOUS
  <2> HIDE DEF More
  <2>2. IsFiniteSet(More(j))
    BY <1>2, <2>1, FS_Subset
  <2> QED
    BY <2>2, FS_CardinalityType
<1>4. PICK j \in fit : \A k \in fit : Cardinality(More(j)) <= Cardinality(More(k))
  <2>1. S \in SUBSET Nat /\ S # {}
    BY <1>3
  <2>2. PICK n \in S : \A k \in S : n <= k
    BY <2>1, FirstOf
  <2> QED
    BY <2>2
<1>5. ASSUME NEW k \in fit, Remaining[k] > Remaining[j] PROVE FALSE
  <2>1. k \in More(j) /\ k \notin More(k) /\ More(k) \subseteq More(j)
    BY <1>1, <1>5
  <2> HIDE DEF More
  <2>2. /\ Cardinality(More(k)) <= Cardinality(More(j))
        /\ Cardinality(More(j)) = Cardinality(More(k)) => More(j) = More(k)
    BY <1>3, <2>1, FS_Subset
  <2> QED
    BY <1>3, <1>4, <2>1, <2>2
<1> QED
  BY <1>1, <1>5

\* Before the jobs are listed the list has films and series only.
PlacedInv ==
    /\ JobsPlaced
    /\ \A r \in Requests : Doing(r, "jobs") => On(request[r].list) \intersect Jobs = {}

\* What a list with the jobs that are left over says of them.
Placed(list) ==
    LET alone == On(list) \intersect Jobs
    IN  \A j \in alone : \A i \in On(list) \intersect ArrIds :
            <<j, i>> \in Alike =>
                /\ i \notin SeriesIds
                /\ j \in SeriesLike \/ \E k \in Jobs \ alone :
                        <<k, i>> \in Alike /\ Remaining[k] >= Remaining[j]

LEMMA PlacedIs ==
    /\ JobsPlaced <=> \A r \in Requests : Doing(r, "swap") => Placed(request[r].list)
    /\ JobsPlaced' <=> \A r \in Requests : Doing(r, "swap")' => Placed(request'[r].list)
BY DEF JobsPlaced, Placed

\* A job that is left over was left by every card, whatever the cards before it took.
LEMMA LeftOver ==
    ASSUME NEW before, NEW jobs \in SUBSET Jobs, NEW list,
           On(list) \intersect Jobs = jobs \ Claimed(before, jobs),
           \A i \in On(list) \intersect ArrIds : before[i] # Absent
    PROVE  Placed(list)
<1> DEFINE f == Leave(before, jobs)
           N == Len(CardOrder)
           alone == On(list) \intersect Jobs
<1>1. N \in Nat /\ DOMAIN CardOrder = 1..N
  BY QueueAssumption
<1>2. IsRun(f, before, jobs, N)
  BY LeaveIs
<1>3. alone = jobs \ (jobs \ f[N])
  BY DEF Claimed
<1> HIDE DEF f, N
<1>4. 0 \in 0..N /\ N \in 0..N /\ 0 <= N
  BY <1>1
<1>5. f[N] \subseteq f[0] /\ f[0] = jobs
  <2>1. f[N] \subseteq f[0]
    BY <1>1, <1>2, <1>4, LeaveShrinks
  <2> QED
    BY <1>2, <2>1 DEF IsRun
<1>6. alone = f[N]
  BY <1>3, <1>5
<1> HIDE DEF alone
<1> SUFFICES ASSUME NEW j \in alone, NEW i \in On(list) \intersect ArrIds, <<j, i>> \in Alike
             PROVE  /\ i \notin SeriesIds
                    /\ j \in SeriesLike \/ \E k \in Jobs \ alone :
                            <<k, i>> \in Alike /\ Remaining[k] >= Remaining[j]
  BY DEF Placed, alone
<1>7. PICK n \in 1..N : CardOrder[n] = i
  BY <1>1, QueueAssumption DEF Range
<1>8. n - 1 \in 0..N /\ n \in 0..N /\ n <= N /\ n - 1 <= n /\ 0 <= n - 1
  BY <1>1, <1>7
<1>9. f[N] \subseteq f[n] /\ f[n] \subseteq f[n - 1] /\ f[n - 1] \subseteq Jobs
  <2>1. f[N] \subseteq f[n]
    BY <1>1, <1>2, <1>4, <1>8, LeaveShrinks
  <2>2. f[n] \subseteq f[n - 1]
    BY <1>1, <1>2, <1>8, LeaveShrinks
  <2>3. f[n - 1] \subseteq f[0]
    BY <1>1, <1>2, <1>4, <1>8, LeaveShrinks
  <2> QED
    BY <1>5, <2>1, <2>2, <2>3
<1>10. f[n] = f[n - 1] \ Takes(i, f[n - 1])
  <2>1. f[n] = Left(before, n, f[n - 1])
    BY <1>2, <1>7 DEF IsRun
  <2> QED
    BY <1>7, <2>1 DEF Left
<1> DEFINE fit == {k \in f[n - 1] : <<k, i>> \in Alike /\ (i \in SeriesIds \/ k \notin SeriesLike)}
           best == CHOOSE k \in fit : \A m \in fit : Remaining[m] <= Remaining[k]
<1>11. Takes(i, f[n - 1]) = IF fit = {} THEN {} ELSE IF i \in SeriesIds THEN fit ELSE {best}
  BY DEF Takes
<1>12. j \in f[n - 1] /\ j \notin Takes(i, f[n - 1])
  BY <1>6, <1>9, <1>10
<1>13. fit \in SUBSET Jobs /\ (i \in SeriesIds \/ j \notin SeriesLike => j \in fit)
  BY <1>9, <1>12
<1>14. fit # {} => best \in fit /\ \A m \in fit : Remaining[m] <= Remaining[best]
  BY <1>13, MostIsLeft
<1>15. \A k \in fit : <<k, i>> \in Alike /\ k \in Jobs /\ Remaining[k] \in Nat
  BY <1>13, QueueAssumption
<1> HIDE DEF fit, best
<1>16. i \notin SeriesIds
  BY <1>11, <1>12, <1>13
<1>17. ASSUME j \notin SeriesLike
       PROVE  \E k \in Jobs \ alone : <<k, i>> \in Alike /\ Remaining[k] >= Remaining[j]
  <2>1. j \in fit /\ best \in fit /\ Takes(i, f[n - 1]) = {best}
    BY <1>11, <1>13, <1>14, <1>16, <1>17
  <2>2. best \notin alone
    BY <1>6, <1>9, <1>10, <2>1
  <2>3. Remaining[best] >= Remaining[j]
    BY <1>14, <1>15, <2>1
  <2> QED
    BY <1>15, <2>1, <2>2, <2>3
<1> QED
  BY <1>16, <1>17

\* A step after which no request has other jobs to place.
LEMMA PlacedStays ==
    ASSUME PlacedInv,
           \A q \in Requests : request'[q].step \in {"jobs", "swap"} =>
               request'[q].step = request[q].step /\ request'[q].list = request[q].list
    PROVE  PlacedInv'
<1>1. \A q \in Requests : Doing(q, "swap")' => Doing(q, "swap") /\ request'[q].list = request[q].list
  BY DEF Doing
<1>2. \A q \in Requests : Doing(q, "jobs")' => Doing(q, "jobs") /\ request'[q].list = request[q].list
  BY DEF Doing
<1>3. JobsPlaced'
  BY <1>1, PlacedIs DEF PlacedInv
<1> QED
  BY <1>2, <1>3 DEF PlacedInv

\* One request moves on to what has nothing to place.
LEMMA MovesOn ==
    ASSUME PlacedInv, QueueTypeOK, NEW r \in Requests,
           \A q \in Requests : q # r =>
              request'[q].step = request[q].step /\ request'[q].list = request[q].list,
           request'[r].step \notin {"jobs", "swap"}
    PROVE  PlacedInv'
BY PlacedStays

LEMMA FetchPlaces ==
    ASSUME PlacedInv, QueueTypeOK, NEW r \in Requests, Fetch(r)
    PROVE  PlacedInv'
<1>1. PICK list \in Lists :
        /\ request' = [request EXCEPT ![r] = [Resting EXCEPT !.step = "jobs", !.list = list]]
        /\ \A i \in ItemIds : i \notin ArrIds => list[i] = Absent
  BY FetchIs
<1>2. request \in [Requests -> PageWorks]
  BY DEF QueueTypeOK, PageWorks
<1>3. /\ request'[r].step = "jobs" /\ request'[r].list = list
      /\ \A q \in Requests : q # r => request'[q] = request[q]
  BY <1>1, <1>2 DEF Resting
<1>4. On(list) \intersect Jobs = {}
  BY <1>1, QueueAssumption DEF On, ItemIds
<1>5. \A q \in Requests : Doing(q, "swap")' => Doing(q, "swap") /\ request'[q].list = request[q].list
  BY <1>3 DEF Doing
<1>6. JobsPlaced'
  BY <1>5, PlacedIs DEF PlacedInv
<1>7. ASSUME NEW q \in Requests, Doing(q, "jobs")' PROVE On(request'[q].list) \intersect Jobs = {}
  <2>1. CASE q = r
    BY <1>3, <1>4, <2>1
  <2>2. CASE q # r
    BY <1>3, <1>7, <2>2 DEF PlacedInv, Doing
  <2> QED
    BY <2>1, <2>2
<1> QED
  BY <1>6, <1>7 DEF PlacedInv

LEMMA ListJobsPlaces ==
    ASSUME PlacedInv, QueueTypeOK, NEW r \in Requests, ListJobs(r)
    PROVE  PlacedInv'
<1>1. request \in [Requests -> PageWorks] /\ running \subseteq Jobs /\ Doing(r, "jobs")
  BY DEF QueueTypeOK, PageWorks, ListJobs
<1>2. PICK before : before = request[r].list
  OBVIOUS
<1>3. PICK jobs \in {running, {}} :
        request' = [request EXCEPT ![r].step = "swap",
                      ![r].list = [i \in ItemIds |-> IF i \in jobs \ Claimed(@, jobs) THEN JobItem
                                                     ELSE @[i]]]
  BY DEF ListJobs
<1>4. PICK list : list = [i \in ItemIds |-> IF i \in jobs \ Claimed(before, jobs) THEN JobItem
                                            ELSE before[i]]
  OBVIOUS
<1>5. /\ request'[r].step = "swap" /\ request'[r].list = list
      /\ \A q \in Requests : q # r => request'[q] = request[q]
  BY <1>1, <1>2, <1>3, <1>4 DEF PageWorks
<1>6. jobs \subseteq Jobs /\ On(before) \intersect Jobs = {}
  BY <1>1, <1>2, <1>3 DEF PlacedInv
<1>7. JobItem # Absent
  BY QueueAssumption DEF JobItem, Absent
<1>8. On(list) \intersect Jobs = jobs \ Claimed(before, jobs)
  <2>1. \A i \in ItemIds : list[i] # Absent <=> i \in jobs \ Claimed(before, jobs) \/ before[i] # Absent
    BY <1>4, <1>7
  <2>2. \A i \in Jobs : i \in ItemIds /\ before[i] = Absent
    BY <1>6 DEF On, ItemIds
  <2> QED
    BY <1>6, <2>1, <2>2 DEF On
<1>9. \A i \in On(list) \intersect ArrIds : before[i] # Absent
  <2>1. \A i \in ArrIds : i \in ItemIds /\ i \notin jobs
    BY <1>6, QueueAssumption DEF ItemIds
  <2> QED
    BY <1>4, <2>1 DEF On
<1>10. Placed(list)
  BY <1>6, <1>8, <1>9, LeftOver
<1>11. JobsPlaced'
  <2> SUFFICES ASSUME NEW q \in Requests, Doing(q, "swap")' PROVE Placed(request'[q].list)
    BY PlacedIs
  <2>1. CASE q = r
    BY <1>5, <1>10, <2>1
  <2>2. CASE q # r
    <3>1. Doing(q, "swap") /\ request'[q].list = request[q].list
      BY <1>5, <2>2 DEF Doing
    <3> QED
      BY <3>1, PlacedIs DEF PlacedInv
  <2> QED
    BY <2>1, <2>2
<1>12. \A q \in Requests : Doing(q, "jobs")' => Doing(q, "jobs") /\ request'[q].list = request[q].list
  BY <1>5 DEF Doing
<1> QED
  BY <1>11, <1>12 DEF PlacedInv

LEMMA PlacedStep ==
    ASSUME PlacedInv, QueueTypeOK, [QueueNext]_queueVars
    PROVE  PlacedInv'
<1>1. request \in [Requests -> PageWorks]
  BY DEF QueueTypeOK, PageWorks
<1>2. ASSUME UNCHANGED request PROVE PlacedInv'
  BY <1>2, PlacedStays
<1>3. ASSUME NEW r \in Requests, Swap(r) PROVE PlacedInv'
  <2>1. PICK gone : request' = [request EXCEPT ![r].gone = gone,
                                  ![r].step = IF gone = Nothing THEN "sync" ELSE "verify"]
    BY <1>3 DEF Swap
  <2>2. request'[r].step \in {"sync", "verify"} /\ \A q \in Requests : q # r => request'[q] = request[q]
    BY <1>1, <2>1 DEF PageWorks
  <2> QED
    BY <2>2, MovesOn
<1>4. ASSUME NEW r \in Requests, Verify(r) PROVE PlacedInv'
  <2>1. PICK done : request' = [request EXCEPT ![r].done = done,
                              ![r].gone = IF done = {} THEN Nothing ELSE @,
                              ![r].step = IF done = {} THEN "sync" ELSE "insert"]
    BY <1>4 DEF Verify
  <2>2. request'[r].step \in {"sync", "insert"} /\ \A q \in Requests : q # r => request'[q] = request[q]
    BY <1>1, <2>1 DEF PageWorks
  <2> QED
    BY <2>2, MovesOn
<1>5. ASSUME NEW r \in Requests, Insert(r) PROVE PlacedInv'
  <2> DEFINE mine == [request EXCEPT ![r].step = "sync", ![r].gone = Nothing, ![r].done = {}]
  <2>1. mine[r].step = "sync" /\ \A q \in Requests : q # r => mine[q] = request[q]
    BY <1>1 DEF PageWorks
  <2>2. mine \in [Requests -> PageWorks]
    BY <1>1, ItemIs DEF PageWorks, PageSteps
  <2>3. \/ request' = mine
        \/ request' = [q \in Requests |->
                          IF q # r /\ Doing(q, "idle") THEN mine[q]
                          ELSE [mine[q] EXCEPT !.newer = IF q = r THEN @ ELSE @ \union request[r].done]]
    BY <1>5 DEF Insert
  <2> HIDE DEF mine
  <2>4. \A q \in Requests : request'[q].step = mine[q].step /\ request'[q].list = mine[q].list
    BY <2>2, <2>3 DEF PageWorks
  <2> QED
    BY <2>1, <2>4, MovesOn
<1>6. ASSUME NEW r \in Requests, Sync(r) PROVE PlacedInv'
  <2>1. request' = [request EXCEPT ![r] = Resting]
    BY <1>6 DEF Sync
  <2>2. request'[r].step = "idle" /\ \A q \in Requests : q # r => request'[q] = request[q]
    BY <1>1, <2>1 DEF Resting
  <2> QED
    BY <2>2, MovesOn
<1>7. ASSUME ForgetLists PROVE PlacedInv'
  <2>1. \A q \in Requests : request'[q].step = "idle"
    BY <1>7 DEF ForgetLists, Resting
  <2> QED
    BY <2>1, PlacedStays
<1>8. ASSUME NEW x, FilmMoves(x) \/ JobMoves(x) PROVE UNCHANGED request
  BY <1>8 DEF FilmMoves, JobMoves
<1>9. Cleanup => UNCHANGED request
  BY DEF Cleanup
<1>10. UNCHANGED queueVars => UNCHANGED request
  BY DEF queueVars
<1> QED
  BY <1>2, <1>3, <1>4, <1>5, <1>6, <1>7, <1>8, <1>9, <1>10, FetchPlaces, ListJobsPlaces DEF QueueNext

\* For any number of requests that overlap, an item that left the list is recorded, or
\* found missing by the next request, or being looked at, unless it had no file, its row
\* grew old, or it was lost in one of the five ways of Causes; what is recorded of a film
\* or series had a file; and a job is an item of its own only where every card left it.
THEOREM CompletionsRecordedAlways == QueueSpec => []PageRecordsCompletions
<1>1. QueueInit => PlacedInv
  BY DEF QueueInit, PlacedInv, JobsPlaced, Doing, Resting
<1>2. QueueInv /\ PlacedInv /\ [QueueNext]_queueVars => PlacedInv'
  BY PlacedStep DEF QueueInv
<1>3. QueueInv /\ PlacedInv => PageRecordsCompletions
  BY DEF QueueInv, PlacedInv, PageRecordsCompletions
<1> QED
  BY <1>1, <1>2, <1>3, QueueInvInit, QueueInvStep, PTL DEF QueueSpec

-----------------------------------------------------------------------------
(* The searches: the invariant.                                            *)

Calling(c, t) == Title(c) = t /\ At(c, "call")
Saving(c, t)  == Title(c) = t /\ At(c, "save")
Reading(c, t) == Title(c) = t /\ (At(c, "adopt") \/ At(c, "reserve"))
Busy(c)       == At(c, "adopt") \/ At(c, "reserve") \/ At(c, "call") \/ At(c, "save")

\* A call is booked within the shortest delay after its time was taken, and what a
\* caller has read or will write is not newer than the newest success.
CallerFits(c) ==
    /\ caller[c].live => At(c, "call") \/ At(c, "save")
    /\ Busy(c) => Title(c) \in Titles /\ caller[c].row.at <= sent[Title(c)].newest
    /\ At(c, "reserve") \/ At(c, "call") \/ At(c, "save") =>
          1 <= caller[c].at /\ caller[c].at <= now /\ now < caller[c].at + BackoffBase
    /\ At(c, "save") => caller[c].at <= sent[Title(c)].newest

\* A call that its title was not abandoned under holds the reservation, found at least
\* what is on record of the successes before it, and left its own time in memory.  One
\* under which it was abandoned holds it only as long as nobody has searched since.
TokenFits(t) ==
    \A c \in Callers : Calling(c, t) =>
        IF caller[c].live
        THEN /\ token[t] = {c} /\ last[t] = caller[c].at
             /\ sent[t].n > 0 => /\ caller[c].row.at >= sent[t].at /\ caller[c].row.n >= sent[t].n
                                 /\ caller[c].at >= sent[t].at + Delay(sent[t].n)
        ELSE token[t] = {c} => sent[t].n = 0

\* The time in memory is that of a success, or of the call that holds the reservation.
MemoryFits(t) ==
    \/ last[t] <= sent[t].newest
    \/ \E c \in Callers : Calling(c, t) /\ token[t] = {c} /\ last[t] = caller[c].at

\* The successes are known to memory, or memory is empty and whoever comes reads them
\* from the table.
InMemory(t) == last[t] >= sent[t].at /\ count[t] >= sent[t].n
InTable(t)  ==
    /\ last[t] = 0 /\ leaving[t] = "no"
    /\ saved[t].at >= sent[t].at /\ saved[t].n >= sent[t].n
    /\ \A c \in Callers :
        /\ ~Calling(c, t) /\ ~Saving(c, t)
        /\ Reading(c, t) => caller[c].row.at >= sent[t].at /\ caller[c].row.n >= sent[t].n
Known(t) == sent[t].n > 0 => sent[t].at >= 1 /\ (InMemory(t) \/ InTable(t))

\* What the table holds, or will hold, of the newest success counts all of them, and
\* nothing in it is a delay younger than that success.
RowFits(t) ==
    /\ saved[t].at <= sent[t].newest /\ sent[t].newest <= now
    /\ saved[t].at > 0 => saved[t].n > 0
    /\ saved[t].at = sent[t].at => saved[t].n >= sent[t].n
    /\ sent[t].n > 0 => saved[t].at < sent[t].at + BackoffBase
    /\ \A c \in Callers :
        /\ Saving(c, t) /\ caller[c].at = sent[t].at => caller[c].row.n + 1 >= sent[t].n
        /\ sent[t].n > 0 /\ (Saving(c, t) \/ (Calling(c, t) /\ ~caller[c].live))
              => caller[c].at < sent[t].at + BackoffBase

TitleFits(t) == TokenFits(t) /\ MemoryFits(t) /\ Known(t) /\ RowFits(t)

SearchInv == SearchTypeOK /\ (\A c \in Callers : CallerFits(c)) /\ (\A t \in Titles : TitleFits(t))

-----------------------------------------------------------------------------
(* The searches: the delay.                                                *)

LEMMA SearchConstants ==
    /\ ArrWindow \in Nat /\ BackoffBase \in Nat /\ BackoffMax \in Nat /\ StrandedTtl \in Nat
    /\ MaxTime \in Nat /\ MaxAbandons \in Nat
    /\ 0 < BackoffBase /\ BackoffBase <= BackoffMax /\ 0 < MaxTime
    /\ NoTitle \notin Titles
BY SearchAssumption

\* The subsets of 1..n are 2 ^ n, and those of 1..m among them.
LEMMA PowersGrow ==
    ASSUME NEW m \in Nat, NEW n \in Nat, m <= n
    PROVE  2 ^ m \in Nat /\ 2 ^ n \in Nat /\ 1 <= 2 ^ m /\ 2 ^ m <= 2 ^ n
<1>1. \A k \in Nat : /\ IsFiniteSet(1..k) /\ Cardinality(1..k) = k
                     /\ IsFiniteSet(SUBSET (1..k)) /\ Cardinality(SUBSET (1..k)) = 2 ^ k
                     /\ 2 ^ k \in Nat
  <2> SUFFICES ASSUME NEW k \in Nat
               PROVE  /\ IsFiniteSet(1..k) /\ Cardinality(1..k) = k
                      /\ IsFiniteSet(SUBSET (1..k)) /\ Cardinality(SUBSET (1..k)) = 2 ^ k
                      /\ 2 ^ k \in Nat
    OBVIOUS
  <2>1. IsFiniteSet(1..k)
    BY FS_Interval
  <2>2. Cardinality(1..k) = k
    BY FS_Interval
  <2>3. IsFiniteSet(SUBSET (1..k)) /\ Cardinality(SUBSET (1..k)) = 2 ^ k
    BY <2>1, <2>2, FS_SUBSET
  <2>4. Cardinality(SUBSET (1..k)) \in Nat
    BY <2>3, FS_CardinalityType
  <2> QED
    BY <2>1, <2>2, <2>3, <2>4
<1>2. SUBSET (1..m) \subseteq SUBSET (1..n)
  OBVIOUS
<1>3. Cardinality(SUBSET (1..m)) <= Cardinality(SUBSET (1..n))
  BY <1>1, <1>2, FS_Subset
<1>4. Cardinality(SUBSET (1..m)) # 0
  BY <1>1, FS_EmptySet
<1>5. 2 ^ m \in Nat /\ 2 ^ n \in Nat
  BY <1>1
<1>6. 2 ^ m = Cardinality(SUBSET (1..m)) /\ 2 ^ n = Cardinality(SUBSET (1..n))
  BY <1>1
<1>7. 2 ^ m # 0 /\ 2 ^ m <= 2 ^ n
  BY <1>3, <1>4, <1>6
<1> QED
  BY <1>5, <1>7

\* The delay is never below the shortest and grows with the number of searches.
LEMMA DelayGrows ==
    ASSUME NEW m \in Nat, NEW n \in Nat, m <= n
    PROVE  Delay(m) \in Nat /\ Delay(n) \in Nat /\ BackoffBase <= Delay(m) /\ Delay(m) <= Delay(n)
<1>1. PICK i \in Nat, j \in Nat : /\ i <= j /\ i = (IF m = 0 THEN 0 ELSE m - 1)
                                  /\ j = IF n = 0 THEN 0 ELSE n - 1
  OBVIOUS
<1>2. PICK p \in Nat, q \in Nat : p = 2 ^ i /\ q = 2 ^ j /\ 1 <= p /\ p <= q
  BY <1>1, PowersGrow
<1>3. /\ BackoffBase * p \in Nat /\ BackoffBase * q \in Nat
      /\ BackoffBase <= BackoffBase * p /\ BackoffBase * p <= BackoffBase * q
  BY <1>2, SearchConstants
<1>4. Delay(m) = Smaller(BackoffBase * p, BackoffMax) /\ Delay(n) = Smaller(BackoffBase * q, BackoffMax)
  BY <1>1, <1>2 DEF Delay
<1> QED
  BY <1>3, <1>4, SearchConstants DEF Smaller

-----------------------------------------------------------------------------
(* The searches: the steps.                                                *)

CallerWorks == [step : InFlight \union {"idle", "next", "adopt"},
                todo : SUBSET Titles, partial : BOOLEAN,
                title : Titles \union {NoTitle}, at : 0..MaxTime,
                row : Rows, live : BOOLEAN]
Sents == [at : 0..MaxTime, n : Nat, newest : 0..MaxTime]
Memories ==
    /\ last \in [Titles -> 0..MaxTime] /\ count \in [Titles -> Nat]
    /\ token \in [Titles -> SUBSET Callers]
    /\ byArr \in [Services -> [at : 0..MaxTime, by : Titles \union {NoTitle}]]

\* One caller changes.
Turns(c, rec) == caller' = [caller EXCEPT ![c] = rec]

LEMMA CallerIs ==
    ASSUME SearchTypeOK, NEW c \in Callers
    PROVE  /\ caller[c] \in CallerWorks /\ Idle \in CallerWorks /\ Never \in Rows
           /\ Idle.live = FALSE /\ Idle.title = NoTitle /\ Idle.step = "idle"
           /\ \A rec \in CallerWorks : Turns(c, rec) =>
                 /\ caller'[c] = rec /\ caller' \in [Callers -> CallerWorks]
                 /\ \A d \in Callers : d # c => caller'[d] = caller[d]
<1>1. caller \in [Callers -> CallerWorks]
  BY DEF SearchTypeOK, CallerWorks
<1>2. Idle \in CallerWorks /\ Never \in Rows /\ Idle.live = FALSE /\ Idle.title = NoTitle
      /\ Idle.step = "idle"
  BY SearchConstants DEF Idle, CallerWorks, Rows, Never
<1> QED
  BY <1>1, <1>2 DEF Turns

\* A caller goes on with its list.
LEMMA NextIs ==
    ASSUME SearchTypeOK, NEW c \in Callers, Next(c)
    PROVE  \E rec \in CallerWorks : /\ Turns(c, rec)
                                    /\ rec.step \in {"idle", "next"} /\ rec.live = FALSE
                                    /\ rec.title = NoTitle
<1>1. PICK w \in CallerWorks : w = caller[c]
  BY CallerIs
<1>2. PICK step \in {"idle", "next"} :
        step = IF caller[c].todo = {} /\ c # Scheduler THEN "idle" ELSE "next"
  OBVIOUS
<1>3. PICK rec : rec = [Idle EXCEPT !.step = step, !.todo = w.todo, !.partial = w.partial]
  OBVIOUS
<1>4. rec \in CallerWorks /\ rec.step = step /\ rec.live = FALSE /\ rec.title = NoTitle
  BY <1>1, <1>3, CallerIs DEF CallerWorks
<1> QED
  BY <1>1, <1>2, <1>3, <1>4 DEF Next, Turns

\* A title that nothing is written of, and whose callers do not move.
LEMMA TitleStays ==
    ASSUME NEW u \in Titles, TitleFits(u), now' = now, leaving'[u] = leaving[u],
           last'[u] = last[u], count'[u] = count[u], token'[u] = token[u],
           saved'[u] = saved[u], sent'[u] = sent[u],
           \A d \in Callers :
              /\ Calling(d, u)' <=> Calling(d, u)
              /\ Saving(d, u)' <=> Saving(d, u)
              /\ Reading(d, u)' <=> Reading(d, u)
              /\ Calling(d, u) \/ Saving(d, u) \/ Reading(d, u) => caller'[d] = caller[d]
    PROVE  TitleFits(u)'
<1>1. TokenFits(u) /\ MemoryFits(u) /\ Known(u) /\ RowFits(u)
  BY DEF TitleFits
<1>2. TokenFits(u)'
  BY <1>1 DEF TokenFits
<1>3. MemoryFits(u)'
  BY <1>1 DEF MemoryFits
<1>4. Known(u)'
  BY <1>1 DEF Known, InMemory, InTable
<1>5. RowFits(u)'
  BY <1>1 DEF RowFits
<1> QED
  BY <1>2, <1>3, <1>4, <1>5 DEF TitleFits

\* One caller moves, and of the titles only the one it is at.
LEMMA CallerMoves ==
    ASSUME SearchInv, NEW c \in Callers, NEW t, NEW rec \in CallerWorks,
           Turns(c, rec),
           Busy(c) => Title(c) = t, rec.title \in {t, NoTitle}, t = NoTitle \/ t \in Titles,
           UNCHANGED <<now, leaving, abandons>>,
           Memories', saved' \in [Titles -> Rows], sent' \in [Titles -> Sents],
           \A u \in Titles : u # t =>
               /\ last'[u] = last[u] /\ count'[u] = count[u] /\ token'[u] = token[u]
               /\ saved'[u] = saved[u] /\ sent'[u] = sent[u],
           t \in Titles => sent[t].newest <= sent'[t].newest /\ TitleFits(t)',
           CallerFits(c)'
    PROVE  SearchInv'
<1>1. /\ caller'[c] = rec /\ caller' \in [Callers -> CallerWorks]
      /\ \A d \in Callers : d # c => caller'[d] = caller[d]
  BY CallerIs DEF SearchInv
<1>2. SearchTypeOK'
  BY <1>1 DEF SearchInv, SearchTypeOK, Memories, CallerWorks, Sents
<1>3. \A u \in Titles : /\ sent[u].newest \in Nat /\ sent'[u].newest \in Nat
                        /\ sent[u].newest <= sent'[u].newest
  BY DEF SearchInv, SearchTypeOK, Sents
<1>4. ASSUME NEW d \in Callers, d # c PROVE CallerFits(d)'
  <2>1. caller'[d] = caller[d] /\ CallerFits(d) /\ caller[d] \in CallerWorks
    BY <1>1, <1>4, CallerIs DEF SearchInv
  <2>2. Busy(d) => Title(d) \in Titles
    BY <2>1 DEF CallerFits
  <2> QED
    BY <1>3, <2>1, <2>2 DEF CallerFits, Busy, At, Title, CallerWorks, Rows
<1>5. ASSUME NEW u \in Titles, u # t PROVE TitleFits(u)'
  <2>1. /\ last'[u] = last[u] /\ count'[u] = count[u] /\ token'[u] = token[u]
        /\ saved'[u] = saved[u] /\ sent'[u] = sent[u] /\ leaving' = leaving /\ now' = now
    BY <1>5
  <2>2. ASSUME NEW d \in Callers
        PROVE  /\ Calling(d, u)' <=> Calling(d, u)
               /\ Saving(d, u)' <=> Saving(d, u)
               /\ Reading(d, u)' <=> Reading(d, u)
               /\ Calling(d, u) \/ Saving(d, u) \/ Reading(d, u) => caller'[d] = caller[d]
    <3>1. CASE d = c
      <4>1. u \notin {t, NoTitle}
        BY <1>5, SearchConstants
      <4> QED
        BY <1>1, <3>1, <4>1 DEF Calling, Saving, Reading, Busy, At, Title
    <3>2. CASE d # c
      BY <1>1, <3>2 DEF Calling, Saving, Reading, At, Title
    <3> QED
      BY <3>1, <3>2
  <2>3. TitleFits(u) /\ leaving'[u] = leaving[u]
    BY <2>1 DEF SearchInv
  <2> QED
    BY <2>1, <2>2, <2>3, TitleStays
<1> QED
  BY <1>2, <1>4, <1>5 DEF SearchInv

LEMMA ListsSafe ==
    ASSUME SearchInv, NEW c \in Callers, Poll(c) \/ Done(c)
    PROVE  SearchInv'
<1>1. /\ ~Busy(c) /\ UNCHANGED <<now, leaving, abandons, last, count, token, byArr, saved, sent>>
  BY DEF Poll, Done, Busy, At, memory, world
<1>2. PICK rec \in CallerWorks : /\ Turns(c, rec)
                                 /\ rec.step \in {"idle", "next"} /\ rec.live = FALSE
                                 /\ rec.title = NoTitle
  <2>1. CASE Poll(c)
    <3>1. PICK list \in SUBSET Titles :
            caller' = [caller EXCEPT ![c] = [Idle EXCEPT !.step = "next", !.todo = list]]
      BY <2>1 DEF Poll
    <3>2. PICK rec : rec = [Idle EXCEPT !.step = "next", !.todo = list]
      OBVIOUS
    <3>3. rec \in CallerWorks /\ rec.step = "next" /\ rec.live = FALSE /\ rec.title = NoTitle
      BY <3>2, CallerIs DEF SearchInv, CallerWorks
    <3> QED
      BY <3>1, <3>2, <3>3 DEF Turns
  <2>2. CASE Done(c)
    <3>1. PICK rec : /\ Turns(c, rec)
                     /\ rec = Idle \/ rec = [Idle EXCEPT !.step = "next", !.partial = TRUE, !.todo = Partial]
      BY <2>2 DEF Done, Turns
    <3>2. CASE rec = Idle
      BY <3>1, <3>2, CallerIs DEF SearchInv
    <3>3. CASE rec = [Idle EXCEPT !.step = "next", !.partial = TRUE, !.todo = Partial]
      <4>1. rec \in CallerWorks /\ rec.step = "next" /\ rec.live = FALSE /\ rec.title = NoTitle
        BY <3>3, CallerIs, SearchAssumption DEF SearchInv, CallerWorks
      <4> QED
        BY <3>1, <4>1
    <3> QED
      BY <3>1, <3>2, <3>3
  <2> QED
    BY <2>1, <2>2
<1>3. Memories' /\ saved' \in [Titles -> Rows] /\ sent' \in [Titles -> Sents]
  BY <1>1 DEF SearchInv, SearchTypeOK, Memories, Sents
<1>4. CallerFits(c)'
  <2>1. caller'[c] = rec
    BY <1>2, CallerIs DEF SearchInv
  <2> QED
    BY <1>2, <2>1 DEF CallerFits, Busy, At
<1> QED
  BY <1>1, <1>2, <1>3, <1>4, SearchConstants, CallerMoves

\* What is known of the title a caller is at, in numbers.
LEMMA TitleIs ==
    ASSUME SearchTypeOK, NEW t \in Titles
    PROVE  /\ last[t] \in Nat /\ count[t] \in Nat /\ last[t] \in 0..MaxTime
           /\ saved[t] \in Rows /\ saved[t].at \in Nat /\ saved[t].n \in Nat
           /\ sent[t] \in Sents /\ sent[t].at \in Nat /\ sent[t].n \in Nat /\ sent[t].newest \in Nat
           /\ now \in Nat /\ MaxTime \in Nat
BY SearchConstants DEF SearchTypeOK, Rows, Sents

LEMMA WorkFits ==
    ASSUME SearchTypeOK, NEW c \in Callers
    PROVE  /\ caller[c].at \in Nat /\ caller[c].at \in 0..MaxTime /\ caller[c].row \in Rows
           /\ caller[c].row.at \in Nat /\ caller[c].row.n \in Nat /\ caller[c].row.at \in 0..MaxTime
           /\ caller[c].live \in BOOLEAN
<1>1. PICK w \in CallerWorks : w = caller[c]
  BY CallerIs
<1>2. w.at \in 0..MaxTime /\ w.row \in Rows /\ w.live \in BOOLEAN
  BY DEF CallerWorks
<1>3. w.row.at \in 0..MaxTime /\ w.row.n \in Nat
  BY <1>2 DEF Rows
<1> QED
  BY <1>1, <1>2, <1>3, SearchConstants

LEMMA Mover ==
    ASSUME SearchTypeOK, NEW c \in Callers, NEW rec \in CallerWorks, Turns(c, rec), NEW t
    PROVE  /\ caller'[c] = rec
           /\ Calling(c, t)' <=> rec.title = t /\ rec.step = "call"
           /\ Saving(c, t)'  <=> rec.title = t /\ rec.step = "save"
           /\ Reading(c, t)' <=> rec.title = t /\ rec.step \in {"adopt", "reserve"}
BY CallerIs DEF Calling, Saving, Reading, At, Title

LEMMA Others ==
    ASSUME SearchTypeOK, NEW c \in Callers, NEW rec \in CallerWorks, Turns(c, rec), NEW t,
           NEW d \in Callers, d # c
    PROVE  /\ caller'[d] = caller[d]
           /\ Calling(d, t)' <=> Calling(d, t)
           /\ Saving(d, t)'  <=> Saving(d, t)
           /\ Reading(d, t)' <=> Reading(d, t)
BY CallerIs DEF Calling, Saving, Reading, At, Title

\* A caller that neither calls nor goes to call: the reservation of the title stays, and
\* memory takes up what the table says only where it holds nothing.
LEMMA ReaderMoves ==
    ASSUME SearchInv, NEW c \in Callers, NEW t \in Titles, NEW rec \in CallerWorks,
           Turns(c, rec),
           ~Calling(c, t), rec.step \notin {"call", "save"},
           token'[t] = token[t], sent'[t] = sent[t], now' = now,
           last'[t] = last[t] \/ (last[t] = 0 /\ last'[t] <= sent[t].newest)
    PROVE  /\ TokenFits(t)' /\ MemoryFits(t)'
           /\ saved'[t] = saved[t] => RowFits(t)'
<1>1. TokenFits(t) /\ MemoryFits(t) /\ RowFits(t)
  BY DEF SearchInv, TitleFits
<1>2. ~Calling(c, t)' /\ ~Saving(c, t)'
  BY Mover DEF SearchInv
<1>3. \A d \in Callers : /\ Calling(d, t)' => d # c /\ Calling(d, t) /\ caller'[d] = caller[d]
                         /\ Saving(d, t)' => d # c /\ Saving(d, t) /\ caller'[d] = caller[d]
  BY <1>2, Others DEF SearchInv
<1>4. \A d \in Callers : Calling(d, t) => 1 <= caller[d].at
  BY DEF SearchInv, CallerFits, Calling
<1>5. TokenFits(t)'
  <2> SUFFICES ASSUME NEW d \in Callers, Calling(d, t)'
               PROVE  IF caller'[d].live
                      THEN /\ token'[t] = {d} /\ last'[t] = caller'[d].at
                           /\ sent'[t].n > 0 =>
                                 /\ caller'[d].row.at >= sent'[t].at /\ caller'[d].row.n >= sent'[t].n
                                 /\ caller'[d].at >= sent'[t].at + Delay(sent'[t].n)
                      ELSE token'[t] = {d} => sent'[t].n = 0
    BY DEF TokenFits, Delay
  <2>1. Calling(d, t) /\ caller'[d] = caller[d] /\ 1 <= caller[d].at
    BY <1>3, <1>4
  <2>2. caller[d].live => last'[t] = last[t]
    BY <1>1, <2>1 DEF TokenFits
  <2> QED
    BY <1>1, <2>1, <2>2 DEF TokenFits
<1>6. MemoryFits(t)'
  <2>1. CASE \E d \in Callers : Calling(d, t) /\ token[t] = {d} /\ last[t] = caller[d].at
    <3>1. PICK d \in Callers : Calling(d, t) /\ token[t] = {d} /\ last[t] = caller[d].at
      BY <2>1
    <3>2. d # c /\ Calling(d, t)' /\ caller'[d] = caller[d] /\ last'[t] = last[t]
      <4>1. d # c /\ last[t] # 0
        BY <1>4, <3>1
      <4> QED
        BY <3>1, <4>1, Others DEF SearchInv
    <3> QED
      BY <3>1, <3>2 DEF MemoryFits
  <2>2. CASE last[t] <= sent[t].newest
    BY <2>2 DEF MemoryFits
  <2> QED
    BY <1>1, <2>1, <2>2 DEF MemoryFits
<1>7. ASSUME saved'[t] = saved[t] PROVE RowFits(t)'
  BY <1>1, <1>3, <1>7 DEF RowFits
<1> QED
  BY <1>5, <1>6, <1>7

\* What a caller reads of a title is what the table holds now.
LEMMA ReadsIs ==
    ASSUME SearchTypeOK, NEW c \in Callers, NEW t \in Titles, caller[c].live = FALSE
    PROVE  /\ Reads(c, t) \in CallerWorks /\ Reads(c, t).step = "reserve" /\ Reads(c, t).title = t
           /\ Reads(c, t).at = now /\ Reads(c, t).row = saved[t] /\ Reads(c, t).live = FALSE
<1>1. PICK w \in CallerWorks : w = caller[c]
  BY CallerIs
<1>2. Reads(c, t) = [w EXCEPT !.step = "reserve", !.at = now, !.row = saved[t],
                              !.todo = w.todo \ {t}, !.title = t]
  BY <1>1 DEF Reads
<1>3. now \in 0..MaxTime /\ saved[t] \in Rows
  BY SearchConstants DEF SearchTypeOK
<1>4. PICK v : v = [w EXCEPT !.step = "reserve", !.at = now, !.row = saved[t],
                             !.todo = w.todo \ {t}, !.title = t]
  OBVIOUS
<1>5. v \in CallerWorks
  BY <1>3, <1>4 DEF CallerWorks, InFlight
<1>6. v.step = "reserve" /\ v.title = t /\ v.at = now /\ v.row = saved[t] /\ v.live = w.live
  BY <1>4 DEF CallerWorks
<1> QED
  BY <1>1, <1>2, <1>4, <1>5, <1>6

LEMMA PickSafe ==
    ASSUME SearchInv, NEW c \in Callers, NEW t \in Titles, Pick(c, t)
    PROVE  SearchInv'
<1>1. At(c, "next") /\ UNCHANGED <<now, leaving, abandons, last, count, token, byArr, saved, sent>>
  BY DEF Pick, memory, world
<1>2. caller[c].live = FALSE
  BY <1>1, WorkFits DEF SearchInv, CallerFits, At
<1>3. PICK rec \in CallerWorks : /\ Turns(c, rec)
                                 /\ rec.step \in {"adopt", "reserve"} /\ rec.title = t
                                 /\ rec.at = now /\ rec.row = saved[t] /\ rec.live = FALSE
  <2>1. PICK w \in CallerWorks : w = Reads(c, t)
    BY <1>2, ReadsIs DEF SearchInv
  <2>2. PICK v : v = [w EXCEPT !.step = "adopt"]
    OBVIOUS
  <2>3. v \in CallerWorks /\ v.step = "adopt" /\ v.title = w.title /\ v.at = w.at /\ v.row = w.row
        /\ v.live = w.live
    BY <2>1, <2>2 DEF CallerWorks, InFlight
  <2>4. Turns(c, w) \/ Turns(c, v)
    BY <2>1, <2>2 DEF Pick, Turns
  <2> QED
    BY <1>2, <2>1, <2>3, <2>4, ReadsIs DEF SearchInv
<1>4. ~Busy(c) /\ ~Calling(c, t) /\ ~Saving(c, t) /\ ~Reading(c, t)
  BY <1>1 DEF Busy, Calling, Saving, Reading, At
<1>5. TokenFits(t)' /\ MemoryFits(t)' /\ RowFits(t)'
  BY <1>1, <1>3, <1>4, ReaderMoves
<1>6. Known(t)'
  <2>0. SearchTypeOK
    BY DEF SearchInv
  <2>1. Known(t)
    BY DEF SearchInv, TitleFits
  <2>2. InTable(t) => InTable(t)'
    <3> SUFFICES ASSUME InTable(t), NEW d \in Callers
                 PROVE  /\ ~Calling(d, t)' /\ ~Saving(d, t)'
                        /\ Reading(d, t)' => caller'[d].row.at >= sent[t].at /\ caller'[d].row.n >= sent[t].n
      BY <1>1 DEF InTable
    <3>0. /\ ~Calling(c, t)' /\ ~Saving(c, t)' /\ caller'[c] = rec
      BY <1>3, <2>0, Mover
    <3>1. CASE d = c
      BY <1>3, <3>0, <3>1 DEF InTable
    <3>2. CASE d # c
      <4>1. caller'[d] = caller[d] /\ (Calling(d, t)' <=> Calling(d, t))
            /\ (Saving(d, t)' <=> Saving(d, t)) /\ (Reading(d, t)' <=> Reading(d, t))
        BY <1>3, <2>0, <3>2, Others
      <4> QED
        BY <4>1 DEF InTable
    <3> QED
      BY <3>1, <3>2
  <2> QED
    BY <1>1, <2>1, <2>2 DEF Known, InMemory
<1>7. CallerFits(c)'
  <2>1. caller'[c] = rec /\ saved[t].at <= sent[t].newest
    BY <1>3, Mover DEF SearchInv, TitleFits, RowFits
  <2>2. now \in Nat /\ 1 <= now /\ 0 < BackoffBase /\ BackoffBase \in Nat
    BY SearchConstants DEF SearchInv, SearchTypeOK
  <2> QED
    BY <1>1, <1>3, <2>1, <2>2 DEF CallerFits, Busy, At, Title
<1>8. Memories' /\ saved' \in [Titles -> Rows] /\ sent' \in [Titles -> Sents]
  BY <1>1 DEF SearchInv, SearchTypeOK, Memories, Sents
<1>9. sent[t].newest <= sent'[t].newest
  BY <1>1, TitleIs DEF SearchInv
<1> QED
  BY <1>1, <1>3, <1>4, <1>5, <1>6, <1>7, <1>8, <1>9, CallerMoves DEF TitleFits

\* The table goes on to say what is known as long as nobody calls or saves, and whoever
\* comes reads it.
LEMMA TableStays ==
    ASSUME SearchInv, NEW c \in Callers, NEW t \in Titles, NEW rec \in CallerWorks, Turns(c, rec),
           sent'[t] = sent[t], saved'[t] = saved[t], leaving' = leaving, last'[t] = last[t],
           rec.step \in {"call", "save"} => rec.title # t, InTable(t),
           (rec.row.at >= saved[t].at /\ rec.row.n >= saved[t].n) \/ rec.title = NoTitle
    PROVE  InTable(t)'
<1>0. SearchTypeOK
  BY DEF SearchInv
<1> SUFFICES ASSUME NEW d \in Callers
             PROVE  /\ ~Calling(d, t)' /\ ~Saving(d, t)'
                    /\ Reading(d, t)' => caller'[d].row.at >= sent[t].at /\ caller'[d].row.n >= sent[t].n
  BY DEF InTable
<1>1. CASE d = c
  <2>1. /\ caller'[c] = rec /\ ~Calling(c, t)' /\ ~Saving(c, t)'
        /\ Reading(c, t)' => rec.title = t
    BY <1>0, Mover
  <2>2. rec.row.at \in Nat /\ rec.row.n \in Nat
    BY SearchConstants DEF CallerWorks, Rows
  <2> QED
    BY <1>0, <1>1, <2>1, <2>2, TitleIs, SearchConstants DEF InTable
<1>2. CASE d # c
  <2>1. caller'[d] = caller[d] /\ (Calling(d, t)' <=> Calling(d, t))
        /\ (Saving(d, t)' <=> Saving(d, t)) /\ (Reading(d, t)' <=> Reading(d, t))
    BY <1>0, <1>2, Others
  <2> QED
    BY <2>1 DEF InTable
<1> QED
  BY <1>1, <1>2

LEMMA AdoptSafe ==
    ASSUME SearchInv, NEW c \in Callers, Adopt(c)
    PROVE  SearchInv'
<1>0. SearchTypeOK
  BY DEF SearchInv
<1>1. PICK t : t = Title(c)
  OBVIOUS
<1>2. /\ At(c, "adopt") /\ UNCHANGED <<now, leaving, abandons, token, byArr, saved, sent>>
      /\ last' = (IF last[t] = 0 THEN [last EXCEPT ![t] = caller[c].row.at] ELSE last)
      /\ count' = [count EXCEPT ![t] = Larger(count[t], caller[c].row.n)]
      /\ Turns(c, Reads(c, t))
  BY <1>1 DEF Adopt, world, Turns
<1>3. /\ t \in Titles /\ caller[c].live = FALSE /\ caller[c].row.at <= sent[t].newest
      /\ Reading(c, t) /\ ~Calling(c, t) /\ ~Saving(c, t)
  BY <1>0, <1>1, <1>2, WorkFits DEF SearchInv, CallerFits, Busy, At, Reading, Calling, Saving
<1>4. PICK rec \in CallerWorks : /\ Turns(c, rec) /\ rec.step = "reserve" /\ rec.title = t
                                 /\ rec.at = now /\ rec.row = saved[t] /\ rec.live = FALSE
  BY <1>0, <1>2, <1>3, ReadsIs
<1>5. /\ last'[t] = (IF last[t] = 0 THEN caller[c].row.at ELSE last[t])
      /\ count'[t] \in Nat /\ count[t] <= count'[t] /\ caller[c].row.n <= count'[t]
      /\ \A u \in Titles : u # t => last'[u] = last[u] /\ count'[u] = count[u]
  <2>1. last \in [Titles -> 0..MaxTime] /\ count \in [Titles -> Nat]
    BY <1>0 DEF SearchTypeOK
  <2>2. caller[c].row.n \in Nat /\ count[t] \in Nat
    BY <1>0, <1>3, <2>1, WorkFits
  <2>3. /\ Larger(count[t], caller[c].row.n) \in Nat /\ count[t] <= Larger(count[t], caller[c].row.n)
        /\ caller[c].row.n <= Larger(count[t], caller[c].row.n)
    BY <2>2 DEF Larger
  <2> QED
    BY <1>2, <1>3, <2>1, <2>3
<1>6. TokenFits(t)' /\ MemoryFits(t)' /\ RowFits(t)'
  BY <1>2, <1>3, <1>4, <1>5, ReaderMoves
<1>7. Known(t)'
  <2>1. Known(t)
    BY <1>3 DEF SearchInv, TitleFits
  <2>2. ASSUME sent[t].n > 0 PROVE InMemory(t)'
    <3>1. CASE InMemory(t)
      BY <1>0, <1>2, <1>3, <1>5, <2>1, <2>2, <3>1, TitleIs DEF InMemory, Known
    <3>2. CASE InTable(t)
      BY <1>0, <1>2, <1>3, <1>5, <3>2, TitleIs, WorkFits DEF InMemory, InTable
    <3> QED
      BY <2>1, <2>2, <3>1, <3>2 DEF Known
  <2> QED
    BY <1>2, <2>1, <2>2 DEF Known
<1>8. CallerFits(c)'
  <2>1. caller'[c] = rec /\ saved[t].at <= sent[t].newest
    BY <1>0, <1>3, <1>4, Mover DEF SearchInv, TitleFits, RowFits
  <2>2. now \in Nat /\ 1 <= now /\ 0 < BackoffBase /\ BackoffBase \in Nat
    BY <1>0, SearchConstants DEF SearchTypeOK
  <2> QED
    BY <1>2, <1>3, <1>4, <2>1, <2>2 DEF CallerFits, Busy, At, Title
<1>9. Memories' /\ saved' \in [Titles -> Rows] /\ sent' \in [Titles -> Sents]
  <2>1. last' \in [Titles -> 0..MaxTime]
    BY <1>0, <1>2, WorkFits DEF SearchTypeOK
  <2>2. count' \in [Titles -> Nat]
    BY <1>0, <1>2, <1>3, <1>5 DEF SearchTypeOK
  <2> QED
    BY <1>0, <1>2, <2>1, <2>2 DEF SearchTypeOK, Memories, Sents
<1>10. sent[t].newest <= sent'[t].newest
  BY <1>0, <1>2, <1>3, TitleIs
<1> QED
  BY <1>1, <1>2, <1>3, <1>4, <1>5, <1>6, <1>7, <1>8, <1>9, <1>10, CallerMoves DEF TitleFits

\* The reservation is refused: memory takes up what is on record, and no more.
LEMMA RefusedSafe ==
    ASSUME SearchInv, NEW c \in Callers, NEW t \in Titles, Reading(c, t), Next(c),
           NEW at \in 0..MaxTime, NEW n \in Nat,
           at = (IF last[t] = 0 THEN caller[c].row.at ELSE last[t]),
           n = Larger(count[t], caller[c].row.n),
           \/ last' = last /\ count' = count
           \/ last' = [last EXCEPT ![t] = at] /\ count' = [count EXCEPT ![t] = n],
           UNCHANGED <<now, leaving, abandons, token, byArr, saved, sent>>
    PROVE  SearchInv'
<1>0. SearchTypeOK
  BY DEF SearchInv
<1>1. PICK rec \in CallerWorks : /\ Turns(c, rec) /\ rec.step \in {"idle", "next"}
                                 /\ rec.live = FALSE /\ rec.title = NoTitle
  BY <1>0, NextIs
<1>2. ~Calling(c, t) /\ ~Saving(c, t) /\ Title(c) = t /\ caller[c].row.at <= sent[t].newest
  BY DEF SearchInv, CallerFits, Busy, Calling, Saving, Reading, At
<1>3. /\ count[t] \in Nat /\ caller[c].row.n \in Nat /\ caller[c].row.at \in Nat
      /\ last[t] \in Nat /\ sent[t].at \in Nat /\ sent[t].n \in Nat /\ sent[t].newest \in Nat
      /\ count[t] <= n /\ caller[c].row.n <= n
  BY <1>0, TitleIs, WorkFits DEF Larger
<1>4. /\ last'[t] = last[t] \/ (last[t] = 0 /\ last'[t] = caller[c].row.at /\ count'[t] = n)
      /\ count[t] <= count'[t] /\ count'[t] \in Nat
      /\ \A u \in Titles : u # t => last'[u] = last[u] /\ count'[u] = count[u]
      /\ last' \in [Titles -> 0..MaxTime] /\ count' \in [Titles -> Nat]
  <2>1. last \in [Titles -> 0..MaxTime] /\ count \in [Titles -> Nat]
    BY <1>0 DEF SearchTypeOK
  <2>2. CASE last' = last /\ count' = count
    BY <1>3, <2>1, <2>2
  <2>3. CASE last' = [last EXCEPT ![t] = at] /\ count' = [count EXCEPT ![t] = n]
    <3>1. last'[t] = at /\ count'[t] = n
      BY <2>1, <2>3
    <3>2. last' \in [Titles -> 0..MaxTime] /\ count' \in [Titles -> Nat]
      BY <2>1, <2>3
    <3> QED
      BY <1>3, <2>1, <2>3, <3>1, <3>2
  <2> QED
    BY <2>2, <2>3
<1>5. TokenFits(t)' /\ MemoryFits(t)' /\ RowFits(t)'
  BY <1>1, <1>2, <1>4, ReaderMoves
<1>6. Known(t)'
  <2>1. Known(t)
    BY DEF SearchInv, TitleFits
  <2>2. ASSUME sent[t].n > 0 PROVE InMemory(t)' \/ InTable(t)'
    <3>1. CASE InMemory(t)
      BY <1>3, <1>4, <2>1, <2>2, <3>1 DEF InMemory, Known
    <3>2. CASE InTable(t) /\ last'[t] = last[t]
      BY <1>1, <3>2, TableStays
    <3>3. CASE InTable(t) /\ last'[t] # last[t]
      BY <1>3, <1>4, <3>3 DEF InMemory, InTable
    <3> QED
      BY <2>1, <2>2, <3>1, <3>2, <3>3 DEF Known
  <2> QED
    BY <2>1, <2>2 DEF Known
<1>7. CallerFits(c)'
  <2>1. caller'[c] = rec
    BY <1>0, <1>1, Mover
  <2> QED
    BY <1>1, <2>1 DEF CallerFits, Busy, At
<1>8. Memories' /\ saved' \in [Titles -> Rows] /\ sent' \in [Titles -> Sents]
  BY <1>0, <1>4 DEF SearchTypeOK, Memories, Sents
<1> QED
  BY <1>1, <1>2, <1>3, <1>4, <1>5, <1>6, <1>7, <1>8, CallerMoves DEF TitleFits

\* The reservation is made, which nobody else holds: the delay has passed.
Reserving(c, t, at, n, rec) ==
    /\ at = (IF last[t] = 0 THEN caller[c].row.at ELSE last[t])
    /\ n = Larger(count[t], caller[c].row.n)
    /\ ~(at # 0 /\ caller[c].at < at + Delay(n))
    /\ last'[t] = caller[c].at /\ count'[t] = n /\ token'[t] = {c} /\ Memories'
    /\ \A u \in Titles : u # t =>
          last'[u] = last[u] /\ count'[u] = count[u] /\ token'[u] = token[u]
    /\ Turns(c, rec) /\ rec.step = "call" /\ rec.title = t
    /\ rec.at = caller[c].at /\ rec.row = [at |-> at, n |-> n] /\ rec.live = TRUE
    /\ UNCHANGED <<now, leaving, abandons, byArr, saved, sent>>

LEMMA ReservedSafe ==
    ASSUME SearchInv, NEW c \in Callers, NEW t \in Titles, Reading(c, t), At(c, "reserve"),
           NEW at \in Nat, NEW n \in Nat, NEW rec \in CallerWorks, Reserving(c, t, at, n, rec)
    PROVE  SearchInv'
<1> USE DEF Reserving
<1>0. SearchTypeOK
  BY DEF SearchInv
<1>1. ~Calling(c, t) /\ ~Saving(c, t) /\ Title(c) = t /\ caller[c].row.at <= sent[t].newest
      /\ 1 <= caller[c].at /\ caller[c].at <= now /\ now < caller[c].at + BackoffBase
  BY DEF SearchInv, CallerFits, Busy, Calling, Saving, Reading, At
<1>2. /\ count[t] \in Nat /\ caller[c].row.n \in Nat /\ caller[c].row.at \in Nat
      /\ last[t] \in Nat /\ sent[t].at \in Nat /\ sent[t].n \in Nat /\ sent[t].newest \in Nat
      /\ now \in Nat /\ caller[c].at \in Nat
      /\ count[t] <= n /\ caller[c].row.n <= n /\ BackoffBase \in Nat
  BY <1>0, TitleIs, WorkFits, SearchConstants DEF Larger
<1>3. /\ last'[t] = caller[c].at /\ count'[t] = n /\ token'[t] = {c}
      /\ \A u \in Titles : u # t => last'[u] = last[u] /\ count'[u] = count[u] /\ token'[u] = token[u]
  OBVIOUS
<1>4. /\ caller'[c] = rec /\ Calling(c, t)' /\ ~Saving(c, t)' /\ ~Reading(c, t)'
  BY <1>0, Mover
<1>5. Delay(n) \in Nat /\ BackoffBase <= Delay(n)
  BY DelayGrows
<1>6. ASSUME NEW d \in Callers, Calling(d, t), caller[d].live PROVE FALSE
  <2>1. TokenFits(t) /\ CallerFits(d)
    BY DEF SearchInv, TitleFits
  <2>2. last[t] = caller[d].at /\ 1 <= caller[d].at /\ now < caller[d].at + BackoffBase
    BY <1>6, <2>1 DEF TokenFits, CallerFits, Calling
  <2>3. caller[d].at \in Nat
    BY <1>0, WorkFits
  <2> QED
    BY <1>1, <1>2, <1>5, <2>2, <2>3
<1>7. Known(t) /\ RowFits(t)
  BY DEF SearchInv, TitleFits
<1>8. ASSUME sent[t].n > 0
      PROVE  at >= sent[t].at /\ n >= sent[t].n /\ caller[c].at >= sent[t].at + Delay(sent[t].n)
             /\ 1 <= sent[t].at /\ Delay(sent[t].n) \in Nat
  <2>1. at >= sent[t].at /\ n >= sent[t].n /\ 1 <= sent[t].at
    BY <1>2, <1>7, <1>8 DEF Known, InMemory, InTable
  <2>2. Delay(sent[t].n) <= Delay(n) /\ Delay(sent[t].n) \in Nat
    BY <1>2, <2>1, DelayGrows
  <2>3. caller[c].at >= at + Delay(n)
    BY <1>2, <1>5, <2>1
  <2> QED
    BY <1>2, <1>5, <2>1, <2>2, <2>3
<1>9. TokenFits(t)'
  <2> SUFFICES ASSUME NEW d \in Callers, Calling(d, t)'
               PROVE  IF caller'[d].live
                      THEN /\ token'[t] = {d} /\ last'[t] = caller'[d].at
                           /\ sent[t].n > 0 =>
                                 /\ caller'[d].row.at >= sent[t].at /\ caller'[d].row.n >= sent[t].n
                                 /\ caller'[d].at >= sent[t].at + Delay(sent[t].n)
                      ELSE token'[t] = {d} => sent[t].n = 0
    BY DEF TokenFits, Delay
  <2>1. CASE d = c
    BY <1>3, <1>4, <1>8, <2>1
  <2>2. CASE d # c
    <3>1. Calling(d, t) /\ caller'[d] = caller[d]
      BY <1>0, <2>2, Others
    <3>2. caller[d].live = FALSE
      BY <1>0, <1>6, <3>1, WorkFits
    <3> QED
      BY <1>3, <2>2, <3>1, <3>2
  <2> QED
    BY <2>1, <2>2
<1>10. MemoryFits(t)'
  BY <1>3, <1>4 DEF MemoryFits
<1>11. Known(t)'
  BY <1>2, <1>3, <1>8, <1>5 DEF Known, InMemory
<1>12. RowFits(t)'
  <2>1. ASSUME NEW d \in Callers
        PROVE  /\ Saving(d, t)' => Saving(d, t) /\ caller'[d] = caller[d]
               /\ (Calling(d, t) /\ ~caller[d].live)' =>
                     Calling(d, t) /\ ~caller[d].live /\ caller'[d] = caller[d]
    <3>1. CASE d = c
      BY <1>4, <3>1
    <3>2. CASE d # c
      BY <1>0, <3>2, Others
    <3> QED
      BY <3>1, <3>2
  <2> QED
    BY <1>7, <2>1 DEF RowFits
<1>13. CallerFits(c)'
  <2>1. at <= sent[t].newest
    <3>1. last[t] # 0 => last[t] <= sent[t].newest
      <4>1. MemoryFits(t) /\ TokenFits(t)
        BY DEF SearchInv, TitleFits
      <4>2. ASSUME NEW d \in Callers, Calling(d, t), last[t] = caller[d].at, last[t] # 0
            PROVE  FALSE
        <5>1. caller[d].at \in Nat /\ CallerFits(d)
          BY <1>0, WorkFits DEF SearchInv
        <5>2. now < caller[d].at + BackoffBase
          BY <4>2, <5>1 DEF CallerFits, Calling
        <5> QED
          BY <1>1, <1>2, <1>5, <4>2, <5>1, <5>2
      <4> QED
        BY <4>1, <4>2 DEF MemoryFits
    <3> QED
      BY <1>1, <3>1
  <2> QED
    BY <1>1, <1>4, <2>1 DEF CallerFits, Busy, At, Title
<1>14. Memories' /\ saved' \in [Titles -> Rows] /\ sent' \in [Titles -> Sents]
  BY <1>0 DEF SearchTypeOK, Sents
<1>15. \A u \in Titles : u # t =>
               /\ last'[u] = last[u] /\ count'[u] = count[u] /\ token'[u] = token[u]
               /\ saved'[u] = saved[u] /\ sent'[u] = sent[u]
  BY <1>3
<1>16. Busy(c) => Title(c) = t
  BY <1>1
<1> QED
  BY <1>2, <1>9, <1>10, <1>11, <1>12, <1>13, <1>14, <1>15, <1>16, CallerMoves DEF TitleFits

LEMMA ReserveSafe ==
    ASSUME SearchInv, NEW c \in Callers, Reserve(c)
    PROVE  SearchInv'
<1>0. SearchTypeOK
  BY DEF SearchInv
<1>1. PICK t : t = Title(c)
  OBVIOUS
<1>2. At(c, "reserve") /\ UNCHANGED <<now, leaving, abandons, saved, sent>>
  BY DEF Reserve, world
<1>3. t \in Titles /\ Reading(c, t)
  BY <1>1, <1>2 DEF SearchInv, CallerFits, Busy, Reading, At
<1>4. PICK at : at = (IF last[t] = 0 THEN caller[c].row.at ELSE last[t])
  OBVIOUS
<1>5. PICK n : n = Larger(count[t], caller[c].row.n)
  OBVIOUS
<1>6. at \in 0..MaxTime /\ at \in Nat /\ n \in Nat
  BY <1>0, <1>3, <1>4, <1>5, TitleIs, WorkFits DEF Larger
<1>7. PICK tooSoon \in BOOLEAN : tooSoon = (at # 0 /\ caller[c].at < at + Delay(n))
  OBVIOUS
<1>8. \/ Next(c) /\ UNCHANGED <<last, count, token, byArr>>
      \/ /\ count' = [count EXCEPT ![t] = n]
         /\ last' = [last EXCEPT ![t] = IF tooSoon THEN at ELSE caller[c].at]
         /\ token' = IF tooSoon THEN token ELSE [token EXCEPT ![t] = {c}]
         /\ IF tooSoon THEN Next(c)
            ELSE caller' = [caller EXCEPT ![c] = [caller[c] EXCEPT
                    !.step = "call", !.row = [at |-> at, n |-> n], !.live = TRUE]]
         /\ UNCHANGED byArr
  BY <1>0, <1>1, <1>4, <1>5, <1>7 DEF Reserve, memory, SearchTypeOK
<1>9. CASE ~tooSoon /\ ~(Next(c) /\ UNCHANGED <<last, count, token, byArr>>)
  <2>1. PICK w \in CallerWorks : w = caller[c]
    BY <1>0, CallerIs
  <2>2. PICK rec : rec = [w EXCEPT !.step = "call", !.row = [at |-> at, n |-> n], !.live = TRUE]
    OBVIOUS
  <2>3. [at |-> at, n |-> n] \in Rows
    BY <1>6 DEF Rows
  <2>4. rec \in CallerWorks
    BY <2>2, <2>3 DEF CallerWorks, InFlight
  <2>5. rec.step = "call" /\ rec.title = w.title /\ rec.at = w.at /\ rec.row = [at |-> at, n |-> n]
        /\ rec.live = TRUE
    BY <2>2 DEF CallerWorks
  <2>6. Turns(c, rec) /\ rec.title = t
    BY <1>1, <1>8, <1>9, <2>1, <2>2, <2>5 DEF Turns, Title
  <2>7. /\ last' = [last EXCEPT ![t] = caller[c].at] /\ count' = [count EXCEPT ![t] = n]
        /\ token' = [token EXCEPT ![t] = {c}] /\ UNCHANGED byArr
    BY <1>8, <1>9
  <2>8. ~(at # 0 /\ caller[c].at < at + Delay(n)) /\ rec.at = caller[c].at
    BY <1>7, <1>9, <2>1, <2>5
  <2>9. /\ last'[t] = caller[c].at /\ count'[t] = n /\ token'[t] = {c} /\ Memories'
        /\ \A u \in Titles : u # t =>
               last'[u] = last[u] /\ count'[u] = count[u] /\ token'[u] = token[u]
    <3>1. /\ last \in [Titles -> 0..MaxTime] /\ count \in [Titles -> Nat]
          /\ token \in [Titles -> SUBSET Callers] /\ caller[c].at \in 0..MaxTime
      BY <1>0, WorkFits DEF SearchTypeOK
    <3>2. /\ last' \in [Titles -> 0..MaxTime] /\ count' \in [Titles -> Nat]
          /\ token' \in [Titles -> SUBSET Callers]
      BY <1>6, <2>7, <3>1
    <3>3. Memories'
      BY <1>0, <2>7, <3>2 DEF SearchTypeOK, Memories
    <3> QED
      BY <1>3, <2>7, <3>1, <3>3
  <2>10. UNCHANGED <<now, leaving, abandons, byArr, saved, sent>>
    BY <1>2, <2>7
  <2>11. Reserving(c, t, at, n, rec)
    BY <1>4, <1>5, <2>5, <2>6, <2>8, <2>9, <2>10 DEF Reserving
  <2> QED
    BY <1>2, <1>3, <1>6, <2>4, <2>11, ReservedSafe
<1>10. CASE tooSoon \/ (Next(c) /\ UNCHANGED <<last, count, token, byArr>>)
  <2>1. /\ Next(c) /\ UNCHANGED <<token, byArr>>
        /\ \/ last' = last /\ count' = count
           \/ last' = [last EXCEPT ![t] = at] /\ count' = [count EXCEPT ![t] = n]
    BY <1>8, <1>10
  <2> QED
    BY <1>2, <1>3, <1>4, <1>5, <1>6, <2>1, RefusedSafe
<1> QED
  BY <1>9, <1>10

LEMMA SaveSafe ==
    ASSUME SearchInv, NEW c \in Callers, Save(c)
    PROVE  SearchInv'
<1>0. SearchTypeOK
  BY DEF SearchInv
<1>1. PICK t : t = Title(c)
  OBVIOUS
<1>2. /\ At(c, "save") /\ UNCHANGED <<now, leaving, abandons, last, count, token, byArr, sent>>
      /\ \/ saved' = [saved EXCEPT ![t] = [at |-> caller[c].at, n |-> caller[c].row.n + 1]]
         \/ saved' = saved
      /\ Next(c)
  BY <1>1 DEF Save, memory, world
<1>3. /\ t \in Titles /\ Saving(c, t) /\ ~Calling(c, t) /\ ~Reading(c, t)
      /\ caller[c].at <= sent[t].newest /\ 1 <= caller[c].at
  BY <1>1, <1>2 DEF SearchInv, CallerFits, Busy, At, Saving, Calling, Reading
<1>4. PICK rec \in CallerWorks : /\ Turns(c, rec) /\ rec.step \in {"idle", "next"}
                                 /\ rec.live = FALSE /\ rec.title = NoTitle
  BY <1>0, <1>2, NextIs
<1>5. caller[c].at \in Nat /\ caller[c].at \in 0..MaxTime /\ caller[c].row.n \in Nat
  BY <1>0, WorkFits
<1>6. PICK row \in Rows : row = [at |-> caller[c].at, n |-> caller[c].row.n + 1]
  <2>1. [at |-> caller[c].at, n |-> caller[c].row.n + 1] \in Rows
    BY <1>5 DEF Rows
  <2> QED
    BY <2>1
<1>7. /\ saved' \in [Titles -> Rows] /\ (saved'[t] = row \/ saved'[t] = saved[t])
      /\ \A u \in Titles : u # t => saved'[u] = saved[u]
  <2>1. saved \in [Titles -> Rows]
    BY <1>0 DEF SearchTypeOK
  <2>2. CASE saved' = saved
    BY <2>1, <2>2
  <2>3. CASE saved' = [saved EXCEPT ![t] = row]
    BY <1>3, <2>1, <2>3
  <2> QED
    BY <1>2, <1>6, <2>2, <2>3
<1>8. TokenFits(t)' /\ MemoryFits(t)'
  BY <1>2, <1>3, <1>4, ReaderMoves
<1>9. Known(t)'
  <2>1. Known(t)
    BY <1>3 DEF SearchInv, TitleFits
  <2>2. ~InTable(t)
    BY <1>3 DEF InTable
  <2> QED
    BY <1>2, <2>1, <2>2 DEF Known, InMemory
<1>10. RowFits(t)'
  <2>1. RowFits(t)
    BY <1>3 DEF SearchInv, TitleFits
  <2>2. ASSUME NEW d \in Callers
        PROVE  /\ Saving(d, t)' => Saving(d, t) /\ caller'[d] = caller[d]
               /\ Calling(d, t)' => Calling(d, t) /\ caller'[d] = caller[d]
    <3>1. CASE d = c
      BY <1>0, <1>4, <3>1, Mover
    <3>2. CASE d # c
      BY <1>0, <1>4, <3>2, Others
    <3> QED
      BY <3>1, <3>2
  <2>3. ASSUME saved'[t] = row
        PROVE  /\ saved'[t].at <= sent[t].newest /\ saved'[t].n > 0
               /\ saved'[t].at = sent[t].at => saved'[t].n >= sent[t].n
               /\ sent[t].n > 0 => saved'[t].at < sent[t].at + BackoffBase
    <3>1. row.at = caller[c].at /\ row.n = caller[c].row.n + 1
      BY <1>6
    <3> QED
      BY <1>3, <1>5, <2>1, <2>3, <3>1 DEF RowFits
  <2>4. /\ saved'[t].at <= sent[t].newest /\ (saved'[t].at > 0 => saved'[t].n > 0)
        /\ saved'[t].at = sent[t].at => saved'[t].n >= sent[t].n
        /\ sent[t].n > 0 => saved'[t].at < sent[t].at + BackoffBase
    BY <1>7, <2>1, <2>3 DEF RowFits
  <2> QED
    BY <1>2, <2>1, <2>2, <2>4 DEF RowFits
<1>11. CallerFits(c)'
  <2>1. caller'[c] = rec
    BY <1>0, <1>4, Mover
  <2> QED
    BY <1>4, <2>1 DEF CallerFits, Busy, At
<1>12. Memories' /\ sent' \in [Titles -> Sents] /\ sent[t].newest <= sent'[t].newest
  BY <1>0, <1>2, <1>3, TitleIs DEF SearchTypeOK, Memories, Sents
<1>13. \A u \in Titles : u # t =>
               /\ last'[u] = last[u] /\ count'[u] = count[u] /\ token'[u] = token[u]
               /\ saved'[u] = saved[u] /\ sent'[u] = sent[u]
  BY <1>2, <1>7
<1>14. Busy(c) => Title(c) = t
  BY <1>1
<1>15. TitleFits(t)'
  BY <1>8, <1>9, <1>10 DEF TitleFits
<1>16. UNCHANGED <<now, leaving, abandons>> /\ saved' \in [Titles -> Rows] /\ rec.title \in {t, NoTitle}
  BY <1>2, <1>4, <1>7
<1> QED
  BY <1>3, <1>4, <1>11, <1>12, <1>13, <1>14, <1>15, <1>16, CallerMoves

LEMMA RollbackSafe ==
    ASSUME SearchInv, NEW c \in Callers, Rollback(c)
    PROVE  SearchInv'
<1>0. SearchTypeOK
  BY DEF SearchInv
<1>1. PICK t : t = Title(c)
  OBVIOUS
<1>2. /\ At(c, "call") /\ UNCHANGED <<now, leaving, abandons, count, byArr, saved, sent>>
      /\ Next(c)
      /\ IF token[t] = {c}
         THEN last' = [last EXCEPT ![t] = caller[c].row.at] /\ token' = [token EXCEPT ![t] = {}]
         ELSE last' = last /\ token' = token
  BY <1>1 DEF Rollback, Mine, world
<1>3. /\ t \in Titles /\ Calling(c, t) /\ ~Saving(c, t) /\ ~Reading(c, t)
      /\ caller[c].row.at <= sent[t].newest
  BY <1>1, <1>2 DEF SearchInv, CallerFits, Busy, At, Saving, Calling, Reading
<1>4. PICK rec \in CallerWorks : /\ Turns(c, rec) /\ rec.step \in {"idle", "next"}
                                 /\ rec.live = FALSE /\ rec.title = NoTitle
  BY <1>0, <1>2, NextIs
<1>5. /\ IF token[t] = {c} THEN last'[t] = caller[c].row.at /\ token'[t] = {}
                           ELSE last'[t] = last[t] /\ token'[t] = token[t]
      /\ last' \in [Titles -> 0..MaxTime] /\ token' \in [Titles -> SUBSET Callers]
      /\ \A u \in Titles : u # t => last'[u] = last[u] /\ token'[u] = token[u]
  <2>1. last \in [Titles -> 0..MaxTime] /\ token \in [Titles -> SUBSET Callers]
        /\ caller[c].row.at \in 0..MaxTime
    BY <1>0, WorkFits DEF SearchTypeOK
  <2>2. CASE token[t] = {c}
    BY <1>2, <1>3, <2>1, <2>2
  <2>3. CASE token[t] # {c}
    BY <1>2, <1>3, <2>1, <2>3
  <2> QED
    BY <2>2, <2>3
<1>6. TokenFits(t) /\ MemoryFits(t) /\ Known(t) /\ RowFits(t)
  BY <1>3 DEF SearchInv, TitleFits
<1>7. ~Calling(c, t)' /\ ~Saving(c, t)' /\ caller'[c] = rec
  BY <1>0, <1>4, Mover
<1>8. \A d \in Callers : /\ Calling(d, t)' => d # c /\ Calling(d, t) /\ caller'[d] = caller[d]
                         /\ Saving(d, t)' => d # c /\ Saving(d, t) /\ caller'[d] = caller[d]
                         /\ d # c /\ Calling(d, t) => Calling(d, t)' /\ caller'[d] = caller[d]
  <2> SUFFICES ASSUME NEW d \in Callers
               PROVE  /\ Calling(d, t)' => d # c /\ Calling(d, t) /\ caller'[d] = caller[d]
                      /\ Saving(d, t)' => d # c /\ Saving(d, t) /\ caller'[d] = caller[d]
                      /\ d # c /\ Calling(d, t) => Calling(d, t)' /\ caller'[d] = caller[d]
    OBVIOUS
  <2>1. CASE d = c
    BY <1>7, <2>1
  <2>2. CASE d # c
    BY <1>0, <1>4, <2>2, Others
  <2> QED
    BY <2>1, <2>2
<1>9. TokenFits(t)'
  <2> SUFFICES ASSUME NEW d \in Callers, Calling(d, t)'
               PROVE  IF caller'[d].live
                      THEN /\ token'[t] = {d} /\ last'[t] = caller'[d].at
                           /\ sent[t].n > 0 =>
                                 /\ caller'[d].row.at >= sent[t].at /\ caller'[d].row.n >= sent[t].n
                                 /\ caller'[d].at >= sent[t].at + Delay(sent[t].n)
                      ELSE token'[t] = {d} => sent[t].n = 0
    BY <1>2 DEF TokenFits, Delay
  <2>1. d # c /\ Calling(d, t) /\ caller'[d] = caller[d]
    BY <1>8
  <2>2. CASE token[t] = {c}
    BY <1>5, <1>6, <2>1, <2>2 DEF TokenFits
  <2>3. CASE token[t] # {c}
    BY <1>5, <1>6, <2>1, <2>3 DEF TokenFits
  <2> QED
    BY <2>2, <2>3
<1>10. MemoryFits(t)'
  <2>1. CASE token[t] = {c}
    BY <1>2, <1>3, <1>5, <2>1 DEF MemoryFits
  <2>2. CASE token[t] # {c} /\ last[t] <= sent[t].newest
    BY <1>2, <1>5, <2>2 DEF MemoryFits
  <2>3. CASE token[t] # {c} /\ ~(last[t] <= sent[t].newest)
    <3>1. PICK d \in Callers : Calling(d, t) /\ token[t] = {d} /\ last[t] = caller[d].at
      BY <1>6, <2>3 DEF MemoryFits
    <3>2. d # c /\ Calling(d, t)' /\ caller'[d] = caller[d]
      BY <1>8, <2>3, <3>1
    <3> QED
      BY <1>5, <2>3, <3>1, <3>2 DEF MemoryFits
  <2> QED
    BY <2>1, <2>2, <2>3
<1>11. Known(t)'
  <2>1. ~InTable(t)
    BY <1>3 DEF InTable
  <2>2. ASSUME sent[t].n > 0 PROVE InMemory(t)'
    <3>1. InMemory(t)
      BY <1>6, <2>1, <2>2 DEF Known
    <3>2. CASE token[t] = {c}
      <4>1. caller[c].live
        BY <1>3, <1>6, <2>2, <3>2 DEF TokenFits
      <4> QED
        BY <1>2, <1>3, <1>5, <1>6, <2>2, <3>1, <3>2, <4>1 DEF TokenFits, InMemory
    <3>3. CASE token[t] # {c}
      BY <1>2, <1>5, <3>1, <3>3 DEF InMemory
    <3> QED
      BY <3>2, <3>3
  <2> QED
    BY <1>2, <1>6, <2>2 DEF Known
<1>12. RowFits(t)'
  BY <1>2, <1>6, <1>8 DEF RowFits
<1>13. CallerFits(c)'
  BY <1>4, <1>7 DEF CallerFits, Busy, At
<1>14. Memories' /\ saved' \in [Titles -> Rows] /\ sent' \in [Titles -> Sents]
       /\ sent[t].newest <= sent'[t].newest
  BY <1>0, <1>2, <1>3, <1>5, TitleIs DEF SearchTypeOK, Memories, Sents
<1> QED
  BY <1>1, <1>2, <1>3, <1>4, <1>5, <1>9, <1>10, <1>11, <1>12, <1>13, <1>14, CallerMoves DEF TitleFits

LEMMA CommitSafe ==
    ASSUME SearchInv, NEW c \in Callers, Commit(c)
    PROVE  SearchInv'
<1>0. SearchTypeOK
  BY DEF SearchInv
<1>1. PICK t : t = Title(c)
  OBVIOUS
<1>2. PICK w \in CallerWorks : w = caller[c]
  BY <1>0, CallerIs
<1>3. /\ At(c, "call") /\ UNCHANGED <<now, leaving, abandons, last, saved>>
      /\ count' = [count EXCEPT ![t] = w.row.n + 1]
      /\ byArr' = [byArr EXCEPT ![Service[t]] = [at |-> w.at, by |-> t]]
      /\ token' = (IF token[t] = {c} THEN [token EXCEPT ![t] = {}] ELSE token)
      /\ sent' = [sent EXCEPT ![t] =
                    [at |-> IF w.live THEN w.at ELSE sent[t].at,
                     n  |-> IF w.live THEN sent[t].n + 1 ELSE Smaller(sent[t].n, 1),
                     newest |-> Larger(sent[t].newest, w.at)]]
      /\ caller' = [caller EXCEPT ![c].step = "save", ![c].row.at = 0]
  BY <1>1, <1>2 DEF Commit, Mine, world
<1>4. PICK rec : rec = [w EXCEPT !.step = "save", !.row = [w.row EXCEPT !.at = 0]]
  OBVIOUS
<1>5. /\ w.at \in Nat /\ w.at \in 0..MaxTime /\ w.row \in Rows /\ w.row.n \in Nat /\ w.row.at \in Nat
      /\ w.live \in BOOLEAN
  BY <1>0, <1>2, WorkFits
<1>6. [w.row EXCEPT !.at = 0] \in Rows /\ [w.row EXCEPT !.at = 0].at = 0
      /\ [w.row EXCEPT !.at = 0].n = w.row.n
  BY <1>5, SearchConstants DEF Rows
<1>7. /\ rec \in CallerWorks /\ rec.step = "save" /\ rec.title = w.title /\ rec.at = w.at
      /\ rec.live = w.live /\ rec.row.at = 0 /\ rec.row.n = w.row.n
  BY <1>4, <1>6 DEF CallerWorks, InFlight
<1>8. Turns(c, rec)
  <2>1. caller \in [Callers -> CallerWorks]
    BY <1>0 DEF SearchTypeOK, CallerWorks
  <2> QED
    BY <1>2, <1>3, <1>4, <2>1 DEF Turns
<1>9. /\ t \in Titles /\ Calling(c, t) /\ ~Saving(c, t) /\ ~Reading(c, t) /\ w.title = t
      /\ w.row.at <= sent[t].newest /\ 1 <= w.at /\ w.at <= now /\ now < w.at + BackoffBase
  BY <1>1, <1>2, <1>3 DEF SearchInv, CallerFits, Busy, At, Title, Saving, Calling, Reading
<1>10. /\ last[t] \in Nat /\ saved[t].at \in Nat /\ saved[t].n \in Nat
       /\ sent[t].at \in Nat /\ sent[t].n \in Nat /\ sent[t].newest \in Nat /\ now \in Nat
       /\ sent[t].at \in 0..MaxTime /\ sent[t].newest \in 0..MaxTime
       /\ BackoffBase \in Nat /\ 0 < BackoffBase
  BY <1>0, <1>9, TitleIs, SearchConstants DEF Sents
<1>11. PICK s \in Sents :
         /\ s.at = (IF w.live THEN w.at ELSE sent[t].at)
         /\ s.n  = (IF w.live THEN sent[t].n + 1 ELSE Smaller(sent[t].n, 1))
         /\ s.newest = Larger(sent[t].newest, w.at)
         /\ sent' = [sent EXCEPT ![t] = s]
  <2>1. PICK s : s = [at |-> IF w.live THEN w.at ELSE sent[t].at,
                      n  |-> IF w.live THEN sent[t].n + 1 ELSE Smaller(sent[t].n, 1),
                      newest |-> Larger(sent[t].newest, w.at)]
    OBVIOUS
  <2>2. s \in Sents
    BY <1>5, <1>10, <2>1 DEF Sents, Larger, Smaller
  <2> QED
    BY <1>3, <2>1, <2>2
<1>12. /\ s.at \in Nat /\ s.n \in Nat /\ s.newest \in Nat
       /\ sent[t].newest <= s.newest /\ w.at <= s.newest
       /\ s.newest = sent[t].newest \/ s.newest = w.at
       /\ ~w.live => s.n <= sent[t].n /\ s.n <= 1 /\ (s.n > 0 => sent[t].n > 0)
  BY <1>5, <1>9, <1>10, <1>11, SearchConstants DEF Larger, Smaller
<1>13. /\ sent' \in [Titles -> Sents] /\ sent'[t] = s /\ last'[t] = last[t] /\ saved'[t] = saved[t]
       /\ count'[t] = w.row.n + 1
       /\ token'[t] = (IF token[t] = {c} THEN {} ELSE token[t])
       /\ Memories'
       /\ \A u \in Titles : u # t =>
             /\ last'[u] = last[u] /\ count'[u] = count[u] /\ token'[u] = token[u]
             /\ saved'[u] = saved[u] /\ sent'[u] = sent[u]
  <2>1. /\ last \in [Titles -> 0..MaxTime] /\ count \in [Titles -> Nat]
        /\ token \in [Titles -> SUBSET Callers] /\ sent \in [Titles -> Sents]
        /\ byArr \in [Services -> [at : 0..MaxTime, by : Titles \union {NoTitle}]]
    BY <1>0 DEF SearchTypeOK, Sents
  <2>2. sent' \in [Titles -> Sents] /\ sent'[t] = s /\ \A u \in Titles : u # t => sent'[u] = sent[u]
    BY <1>9, <1>11, <2>1
  <2>3. count' \in [Titles -> Nat] /\ count'[t] = w.row.n + 1
        /\ \A u \in Titles : u # t => count'[u] = count[u]
    BY <1>3, <1>5, <1>9, <2>1
  <2>4. token' \in [Titles -> SUBSET Callers] /\ token'[t] = (IF token[t] = {c} THEN {} ELSE token[t])
        /\ \A u \in Titles : u # t => token'[u] = token[u]
    <3>1. CASE token[t] = {c}
      BY <1>3, <1>9, <2>1, <3>1
    <3>2. CASE token[t] # {c}
      BY <1>3, <1>9, <2>1, <3>2
    <3> QED
      BY <3>1, <3>2
  <2>5. byArr' \in [Services -> [at : 0..MaxTime, by : Titles \union {NoTitle}]]
    <3>1. [at |-> w.at, by |-> t] \in [at : 0..MaxTime, by : Titles \union {NoTitle}]
      BY <1>5, <1>9
    <3> QED
      BY <1>3, <2>1, <3>1
  <2>6. Memories'
    BY <1>3, <2>1, <2>3, <2>4, <2>5 DEF Memories
  <2> QED
    BY <1>3, <2>2, <2>3, <2>4, <2>6
<1>14. /\ caller'[c] = rec /\ ~Calling(c, t)' /\ Saving(c, t)' /\ ~Reading(c, t)'
  BY <1>0, <1>7, <1>8, <1>9, Mover
<1>15. \A d \in Callers :
          d # c => /\ caller'[d] = caller[d] /\ (Calling(d, t)' <=> Calling(d, t))
                   /\ (Saving(d, t)' <=> Saving(d, t))
  BY <1>0, <1>7, <1>8, Others
<1>16. \A d \in Callers : /\ caller[d].at \in Nat /\ caller[d].live \in BOOLEAN
                          /\ caller[d].row.n \in Nat
                          /\ Calling(d, t) \/ Saving(d, t) => caller[d].at <= now
  <2> SUFFICES ASSUME NEW d \in Callers
               PROVE  /\ caller[d].at \in Nat /\ caller[d].live \in BOOLEAN
                      /\ caller[d].row.n \in Nat
                      /\ Calling(d, t) \/ Saving(d, t) => caller[d].at <= now
    OBVIOUS
  <2>1. CallerFits(d)
    BY DEF SearchInv
  <2> QED
    BY <1>0, <2>1, WorkFits DEF CallerFits, Calling, Saving
<1>17. TokenFits(t) /\ MemoryFits(t) /\ Known(t) /\ RowFits(t)
  BY <1>9 DEF SearchInv, TitleFits
<1>18. CallerFits(c)'
  <2>1. caller'[c].step = "save" /\ caller'[c].title = t /\ caller'[c].row.at = 0
        /\ caller'[c].at = w.at /\ now' = now /\ sent'[t].newest = s.newest
    BY <1>3, <1>7, <1>9, <1>13, <1>14
  <2> QED
    BY <1>5, <1>9, <1>10, <1>12, <2>1 DEF CallerFits, Busy, At, Title
<1>19. ASSUME w.live PROVE TitleFits(t)'
  <2>1. /\ token[t] = {c} /\ last[t] = w.at /\ token'[t] = {}
        /\ sent[t].n > 0 => /\ w.row.at >= sent[t].at /\ w.row.n >= sent[t].n
                            /\ w.at >= sent[t].at + Delay(sent[t].n)
    BY <1>2, <1>9, <1>13, <1>17, <1>19 DEF TokenFits
  <2>2. s.at = w.at /\ s.n = sent[t].n + 1
    BY <1>11, <1>19
  <2>3. sent[t].n > 0 => w.at >= sent[t].at + BackoffBase
    <3>1. Delay(sent[t].n) \in Nat /\ BackoffBase <= Delay(sent[t].n)
      BY <1>10, DelayGrows
    <3> QED
      BY <1>5, <1>10, <2>1, <3>1
  <2>4. TokenFits(t)'
    <3> SUFFICES ASSUME NEW d \in Callers, Calling(d, t)'
                 PROVE  ~caller'[d].live /\ token'[t] # {d}
      BY DEF TokenFits
    <3>1. d # c /\ Calling(d, t) /\ caller'[d] = caller[d]
      BY <1>14, <1>15
    <3> QED
      BY <1>16, <1>17, <2>1, <3>1 DEF TokenFits
  <2>5. MemoryFits(t)'
    BY <1>12, <1>13, <2>1 DEF MemoryFits
  <2>6. Known(t)'
    BY <1>5, <1>9, <1>10, <1>12, <1>13, <2>1, <2>2 DEF Known, InMemory
  <2>7. RowFits(t)'
    <3>1. /\ saved[t].at <= s.newest /\ s.newest <= now
          /\ saved[t].at > 0 => saved[t].n > 0
          /\ saved[t].at = s.at => saved[t].n >= s.n
          /\ saved[t].at < s.at + BackoffBase
      BY <1>5, <1>9, <1>10, <1>12, <1>17, <2>2, <2>3 DEF RowFits
    <3>2. ASSUME NEW d \in Callers
          PROVE  /\ Saving(d, t)' /\ caller'[d].at = s.at => caller'[d].row.n + 1 >= s.n
                 /\ Saving(d, t)' \/ Calling(d, t)' => caller'[d].at < s.at + BackoffBase
      <4>1. CASE d = c
        BY <1>5, <1>7, <1>10, <1>14, <2>1, <2>2, <4>1
      <4>2. CASE d # c
        BY <1>5, <1>9, <1>10, <1>15, <1>16, <1>17, <2>2, <2>3, <4>2 DEF RowFits
      <4> QED
        BY <4>1, <4>2
    <3> QED
      BY <1>3, <1>13, <3>1, <3>2 DEF RowFits
  <2> QED
    BY <2>4, <2>5, <2>6, <2>7 DEF TitleFits
<1>20. ASSUME ~w.live PROVE TitleFits(t)'
  <2>1. s.at = sent[t].at /\ s.n <= sent[t].n /\ s.n <= 1 /\ (s.n > 0 => sent[t].n > 0)
    BY <1>11, <1>12, <1>20
  <2>2. token[t] = {c} => sent[t].n = 0
    BY <1>2, <1>9, <1>17, <1>20 DEF TokenFits
  <2>3. Delay(s.n) \in Nat /\ Delay(sent[t].n) \in Nat /\ Delay(s.n) <= Delay(sent[t].n)
    BY <1>10, <1>12, <2>1, DelayGrows
  <2>4. TokenFits(t)'
    <3> SUFFICES ASSUME NEW d \in Callers, Calling(d, t)'
                 PROVE  IF caller'[d].live
                        THEN /\ token'[t] = {d} /\ last'[t] = caller'[d].at
                             /\ s.n > 0 =>
                                   /\ caller'[d].row.at >= s.at /\ caller'[d].row.n >= s.n
                                   /\ caller'[d].at >= s.at + Delay(s.n)
                        ELSE token'[t] = {d} => s.n = 0
      BY <1>13 DEF TokenFits, Delay
    <3>1. d # c /\ Calling(d, t) /\ caller'[d] = caller[d]
      BY <1>14, <1>15
    <3>2. CASE caller[d].live
      <4>1. token[t] = {d} /\ token'[t] = {d} /\ last[t] = caller[d].at
        BY <1>13, <1>17, <3>1, <3>2 DEF TokenFits
      <4>2. ASSUME s.n > 0
            PROVE  /\ caller[d].row.at >= s.at /\ caller[d].row.n >= s.n
                   /\ caller[d].at >= s.at + Delay(s.n)
        <5>1. /\ caller[d].row.at >= sent[t].at /\ caller[d].row.n >= sent[t].n
              /\ caller[d].at >= sent[t].at + Delay(sent[t].n)
          BY <1>17, <2>1, <3>1, <3>2, <4>2 DEF TokenFits
        <5> QED
          BY <1>10, <1>12, <1>16, <2>1, <2>3, <5>1
      <4> QED
        BY <1>13, <3>1, <3>2, <4>1, <4>2
    <3>3. CASE ~caller[d].live
      <4>1. token'[t] = {d} => sent[t].n = 0
        BY <1>13, <1>17, <3>1, <3>3 DEF TokenFits
      <4> QED
        BY <1>10, <1>12, <2>1, <3>1, <3>3, <4>1
    <3> QED
      BY <3>2, <3>3
  <2>5. MemoryFits(t)'
    <3>1. CASE last[t] <= sent[t].newest
      BY <1>10, <1>12, <1>13, <3>1 DEF MemoryFits
    <3>2. ASSUME NEW d \in Callers, Calling(d, t), token[t] = {d}, last[t] = caller[d].at
          PROVE  MemoryFits(t)'
      <4>1. CASE d = c
        BY <1>2, <1>12, <1>13, <3>2, <4>1 DEF MemoryFits
      <4>2. CASE d # c
        BY <1>13, <1>15, <3>2, <4>2 DEF MemoryFits
      <4> QED
        BY <4>1, <4>2
    <3> QED
      BY <1>17, <3>1, <3>2 DEF MemoryFits
  <2>6. Known(t)'
    <3>1. ~InTable(t)
      BY <1>9 DEF InTable
    <3> QED
      BY <1>5, <1>10, <1>12, <1>13, <1>17, <2>1, <3>1 DEF Known, InMemory
  <2>7. RowFits(t)'
    <3>1. /\ saved[t].at <= s.newest /\ s.newest <= now
          /\ saved[t].at > 0 => saved[t].n > 0
          /\ saved[t].at = s.at => saved[t].n >= s.n
          /\ s.n > 0 => saved[t].at < s.at + BackoffBase
      BY <1>5, <1>9, <1>10, <1>12, <1>17, <2>1 DEF RowFits
    <3>2. ASSUME NEW d \in Callers
          PROVE  /\ Saving(d, t)' /\ caller'[d].at = s.at => caller'[d].row.n + 1 >= s.n
                 /\ s.n > 0 /\ (Saving(d, t)' \/ (Calling(d, t)' /\ ~caller'[d].live))
                       => caller'[d].at < s.at + BackoffBase
      <4>1. CASE d = c
        BY <1>2, <1>5, <1>7, <1>9, <1>10, <1>12, <1>14, <1>17, <1>20, <2>1, <4>1 DEF RowFits
      <4>2. CASE d # c
        BY <1>10, <1>12, <1>15, <1>16, <1>17, <2>1, <4>2 DEF RowFits
      <4> QED
        BY <4>1, <4>2
    <3> QED
      BY <1>3, <1>13, <3>1, <3>2 DEF RowFits
  <2> QED
    BY <2>4, <2>5, <2>6, <2>7 DEF TitleFits
<1>21. /\ UNCHANGED <<now, leaving, abandons>> /\ saved' \in [Titles -> Rows]
       /\ sent[t].newest <= sent'[t].newest
  BY <1>0, <1>3, <1>12, <1>13 DEF SearchTypeOK
<1>22. (Busy(c) => Title(c) = t) /\ rec.title \in {t, NoTitle} /\ TitleFits(t)'
  BY <1>1, <1>5, <1>7, <1>9, <1>19, <1>20
<1> QED
  BY <1>7, <1>8, <1>9, <1>13, <1>18, <1>21, <1>22, CallerMoves

\* The lists of the titles stay what they are.
LEMMA SearchTypes ==
    ASSUME SearchTypeOK
    PROVE  /\ Memories /\ saved \in [Titles -> Rows] /\ sent \in [Titles -> Sents]
           /\ caller \in [Callers -> CallerWorks] /\ leaving \in [Titles -> {"no", "row"}]
BY DEF SearchTypeOK, Memories, Sents, CallerWorks

\* A title is cleared from memory, under the calls that are out for it.
LEMMA ClearMemorySafe ==
    ASSUME SearchInv, NEW t \in Titles, ClearMemory(t)
    PROVE  SearchInv'
<1>0. SearchTypeOK
  BY DEF SearchInv
<1>1. /\ UNCHANGED <<now, token, saved>> /\ abandons < MaxAbandons /\ abandons' = abandons + 1
      /\ last' = [last EXCEPT ![t] = 0] /\ count' = [count EXCEPT ![t] = 0]
      /\ byArr' = [byArr EXCEPT ![Service[t]] = [at |-> 0, by |-> NoTitle]]
      /\ leaving' = [leaving EXCEPT ![t] = "row"]
      /\ sent' = [sent EXCEPT ![t] = [sent[t] EXCEPT !.n = 0]]
      /\ caller' = [c \in Callers |-> IF Title(c) = t THEN [caller[c] EXCEPT !.live = FALSE]
                                      ELSE caller[c]]
  BY <1>0 DEF ClearMemory, SearchTypeOK
<1>2. \A c \in Callers :
        /\ caller'[c] \in CallerWorks
        /\ caller'[c].step = caller[c].step /\ caller'[c].title = caller[c].title
        /\ caller'[c].at = caller[c].at /\ caller'[c].row = caller[c].row
        /\ caller'[c].live = (caller[c].live /\ Title(c) # t)
        /\ Title(c) # t => caller'[c] = caller[c]
  <2> SUFFICES ASSUME NEW c \in Callers
               PROVE  /\ caller'[c] \in CallerWorks
                      /\ caller'[c].step = caller[c].step /\ caller'[c].title = caller[c].title
                      /\ caller'[c].at = caller[c].at /\ caller'[c].row = caller[c].row
                      /\ caller'[c].live = (caller[c].live /\ Title(c) # t)
                      /\ Title(c) # t => caller'[c] = caller[c]
    OBVIOUS
  <2>1. PICK w \in CallerWorks : w = caller[c]
    BY <1>0, CallerIs
  <2>2. PICK v : v = [w EXCEPT !.live = FALSE]
    OBVIOUS
  <2>3. v \in CallerWorks /\ v.step = w.step /\ v.title = w.title /\ v.at = w.at /\ v.row = w.row
        /\ v.live = FALSE /\ w.live \in BOOLEAN
    BY <2>2 DEF CallerWorks
  <2>4. caller'[c] = IF Title(c) = t THEN v ELSE w
    BY <1>1, <2>1, <2>2
  <2> QED
    BY <2>1, <2>3, <2>4
<1>3. sent[t] \in Sents /\ [sent[t] EXCEPT !.n = 0] \in Sents
      /\ [sent[t] EXCEPT !.n = 0].n = 0 /\ [sent[t] EXCEPT !.n = 0].at = sent[t].at
      /\ [sent[t] EXCEPT !.n = 0].newest = sent[t].newest
  BY <1>0, TitleIs DEF Sents
<1>4. /\ last' \in [Titles -> 0..MaxTime] /\ count' \in [Titles -> Nat]
      /\ sent' \in [Titles -> Sents] /\ leaving' \in [Titles -> {"no", "row"}]
      /\ last'[t] = 0 /\ count'[t] = 0 /\ sent'[t].n = 0 /\ sent'[t].at = sent[t].at
      /\ sent'[t].newest = sent[t].newest
      /\ \A u \in Titles : u # t => /\ last'[u] = last[u] /\ count'[u] = count[u]
                                    /\ sent'[u] = sent[u] /\ leaving'[u] = leaving[u]
  <2>1. /\ last \in [Titles -> 0..MaxTime] /\ count \in [Titles -> Nat] /\ 0 \in 0..MaxTime
        /\ sent \in [Titles -> Sents] /\ leaving \in [Titles -> {"no", "row"}]
    BY <1>0, SearchTypes, SearchConstants DEF Memories
  <2>2. last' \in [Titles -> 0..MaxTime] /\ last'[t] = 0 /\ \A u \in Titles : u # t => last'[u] = last[u]
    BY <1>1, <2>1
  <2>3. count' \in [Titles -> Nat] /\ count'[t] = 0 /\ \A u \in Titles : u # t => count'[u] = count[u]
    BY <1>1, <2>1
  <2>4. PICK s \in Sents : s = [sent[t] EXCEPT !.n = 0]
    BY <1>3
  <2>5. sent' \in [Titles -> Sents] /\ sent'[t] = s /\ \A u \in Titles : u # t => sent'[u] = sent[u]
    BY <1>1, <2>1, <2>4
  <2>6. leaving' \in [Titles -> {"no", "row"}] /\ \A u \in Titles : u # t => leaving'[u] = leaving[u]
    BY <1>1, <2>1
  <2> QED
    BY <1>3, <2>2, <2>3, <2>4, <2>5, <2>6
<1>5. SearchTypeOK'
  <2>1. byArr' \in [Services -> [at : 0..MaxTime, by : Titles \union {NoTitle}]]
    <3>1. [at |-> 0, by |-> NoTitle] \in [at : 0..MaxTime, by : Titles \union {NoTitle}]
      BY SearchConstants
    <3> QED
      BY <1>0, <1>1, <3>1 DEF SearchTypeOK
  <2>2. abandons' \in 0..MaxAbandons
    BY <1>0, <1>1, SearchConstants DEF SearchTypeOK
  <2>3. caller' \in [Callers -> CallerWorks]
    BY <1>1, <1>2
  <2> QED
    BY <1>0, <1>1, <1>4, <2>1, <2>2, <2>3 DEF SearchTypeOK, CallerWorks, Sents
<1>6. ASSUME NEW c \in Callers PROVE CallerFits(c)'
  <2>1. \A u \in Titles : sent'[u].newest = sent[u].newest
    BY <1>4
  <2>2. CallerFits(c)
    BY DEF SearchInv
  <2> QED
    BY <1>1, <1>2, <2>1, <2>2 DEF CallerFits, Busy, At, Title
<1>7. ASSUME NEW u \in Titles PROVE TitleFits(u)'
  <2>1. TitleFits(u)
    BY DEF SearchInv
  <2>2. CASE u # t
    <3>1. ASSUME NEW d \in Callers
          PROVE  /\ Calling(d, u)' <=> Calling(d, u)
                 /\ Saving(d, u)' <=> Saving(d, u)
                 /\ Reading(d, u)' <=> Reading(d, u)
                 /\ Calling(d, u) \/ Saving(d, u) \/ Reading(d, u) => caller'[d] = caller[d]
      BY <1>2, <2>2 DEF Calling, Saving, Reading, At, Title
    <3> QED
      BY <1>1, <1>4, <2>1, <2>2, <3>1, TitleStays
  <2>3. CASE u = t
    <3>1. ASSUME NEW d \in Callers
          PROVE  /\ Calling(d, t)' => ~caller'[d].live
                 /\ Saving(d, t)' => caller'[d].row.n \in Nat
      BY <1>0, <1>2, WorkFits DEF Calling, Saving, At, Title
    <3>2. TokenFits(t)' /\ Known(t)'
      BY <1>4, <3>1 DEF TokenFits, Known
    <3>3. MemoryFits(t)'
      BY <1>0, <1>4, TitleIs DEF MemoryFits
    <3>4. RowFits(t)'
      <4>1. RowFits(t) /\ saved'[t] = saved[t] /\ now' = now /\ saved[t].n \in Nat
        BY <1>0, <1>1, <2>1, <2>3, TitleIs DEF TitleFits
      <4> QED
        BY <1>4, <3>1, <4>1 DEF RowFits
    <3> QED
      BY <2>3, <3>2, <3>3, <3>4 DEF TitleFits
  <2> QED
    BY <2>2, <2>3
<1> QED
  BY <1>5, <1>6, <1>7 DEF SearchInv

\* The callers stand still.
LEMMA CallersStay ==
    ASSUME caller' = caller, NEW d, NEW t
    PROVE  /\ Calling(d, t)' <=> Calling(d, t)
           /\ Saving(d, t)' <=> Saving(d, t)
           /\ Reading(d, t)' <=> Reading(d, t)
           /\ Busy(d)' <=> Busy(d)
BY DEF Calling, Saving, Reading, Busy, At, Title

LEMMA ClearRowSafe ==
    ASSUME SearchInv, NEW t \in Titles, ClearRow(t)
    PROVE  SearchInv'
<1>0. SearchTypeOK
  BY DEF SearchInv
<1>1. /\ leaving[t] = "row" /\ leaving' = [leaving EXCEPT ![t] = "no"]
      /\ UNCHANGED <<now, abandons, last, count, token, byArr, caller, sent>>
      /\ saved' = [saved EXCEPT ![t] = Never] \/ saved' = saved
  BY DEF ClearRow, memory
<1>2. /\ saved' \in [Titles -> Rows] /\ saved'[t] \in {Never, saved[t]}
      /\ leaving' \in [Titles -> {"no", "row"}]
      /\ \A u \in Titles : u # t => saved'[u] = saved[u] /\ leaving'[u] = leaving[u]
  <2>1. saved \in [Titles -> Rows] /\ leaving \in [Titles -> {"no", "row"}] /\ Never \in Rows
    BY <1>0, SearchTypes, SearchConstants DEF Never, Rows
  <2>2. CASE saved' = saved
    BY <1>1, <2>1, <2>2
  <2>3. CASE saved' = [saved EXCEPT ![t] = Never]
    BY <1>1, <2>1, <2>3
  <2> QED
    BY <1>1, <2>2, <2>3
<1>3. SearchTypeOK'
  BY <1>0, <1>1, <1>2 DEF SearchTypeOK
<1>4. ASSUME NEW c \in Callers PROVE CallerFits(c)'
  BY <1>1, CallersStay DEF SearchInv, CallerFits, At, Title
<1>5. ASSUME NEW u \in Titles, u # t PROVE TitleFits(u)'
  <2>1. TitleFits(u)
    BY DEF SearchInv
  <2>2. \A d \in Callers : /\ Calling(d, u)' <=> Calling(d, u)
                           /\ Saving(d, u)' <=> Saving(d, u)
                           /\ Reading(d, u)' <=> Reading(d, u)
    BY <1>1, CallersStay
  <2> QED
    BY <1>1, <1>2, <1>5, <2>1, <2>2, TitleStays
<1>6. TitleFits(t)'
  <2>1. TokenFits(t) /\ MemoryFits(t) /\ Known(t) /\ RowFits(t) /\ ~InTable(t)
    BY <1>1 DEF SearchInv, TitleFits, InTable
  <2>2. \A d \in Callers : (Calling(d, t)' <=> Calling(d, t)) /\ (Saving(d, t)' <=> Saving(d, t))
    BY <1>1, CallersStay
  <2>3. TokenFits(t)'
    BY <1>1, <2>1, <2>2 DEF TokenFits
  <2>4. MemoryFits(t)'
    BY <1>1, <2>1, <2>2 DEF MemoryFits
  <2>5. Known(t)'
    BY <1>1, <2>1 DEF Known, InMemory
  <2>6. RowFits(t)'
    <3>1. /\ sent[t].at \in Nat /\ sent[t].n \in Nat /\ sent[t].newest \in Nat
          /\ BackoffBase \in Nat /\ 0 < BackoffBase /\ Never.at = 0 /\ Never.n = 0
      BY <1>0, TitleIs, SearchConstants DEF Never
    <3>2. CASE saved'[t] = saved[t]
      BY <1>1, <2>1, <2>2, <3>2 DEF RowFits
    <3>3. CASE saved'[t] = Never
      BY <1>1, <2>1, <2>2, <3>1, <3>3 DEF RowFits, Known
    <3> QED
      BY <1>2, <3>2, <3>3
  <2> QED
    BY <2>3, <2>4, <2>5, <2>6 DEF TitleFits
<1> QED
  BY <1>3, <1>4, <1>5, <1>6 DEF SearchInv

\* The clock waits for every call in flight to be booked.
LEMMA SearchTickSafe ==
    ASSUME SearchInv, SearchTick
    PROVE  SearchInv'
<1>0. SearchTypeOK
  BY DEF SearchInv
<1>1. /\ now < MaxTime /\ now' = now + 1
      /\ \A c \in Callers : caller[c].step \in InFlight => now + 1 < caller[c].at + BackoffBase
      /\ UNCHANGED <<last, count, token, byArr, leaving, abandons, saved, caller, sent>>
  BY DEF SearchTick, memory
<1>2. now \in Nat /\ 1 <= now /\ MaxTime \in Nat
  BY <1>0, SearchConstants DEF SearchTypeOK
<1>3. SearchTypeOK'
  BY <1>0, <1>1, <1>2 DEF SearchTypeOK
<1>4. ASSUME NEW c \in Callers PROVE CallerFits(c)'
  <2>1. CallerFits(c) /\ caller[c].at \in Nat
    BY <1>0, WorkFits DEF SearchInv
  <2> QED
    BY <1>1, <1>2, <2>1, SearchConstants DEF CallerFits, Busy, At, Title, InFlight
<1>5. ASSUME NEW t \in Titles PROVE TitleFits(t)'
  <2>1. TokenFits(t) /\ MemoryFits(t) /\ Known(t) /\ RowFits(t)
    BY DEF SearchInv, TitleFits
  <2>2. \A d \in Callers : /\ Calling(d, t)' <=> Calling(d, t)
                           /\ Saving(d, t)' <=> Saving(d, t)
                           /\ Reading(d, t)' <=> Reading(d, t)
    BY <1>1, CallersStay
  <2>3. TokenFits(t)'
    BY <1>1, <2>1, <2>2 DEF TokenFits
  <2>4. MemoryFits(t)'
    BY <1>1, <2>1, <2>2 DEF MemoryFits
  <2>5. Known(t)'
    BY <1>1, <2>1, <2>2 DEF Known, InMemory, InTable
  <2>6. RowFits(t)'
    <3>1. sent[t].newest \in Nat
      BY <1>0, TitleIs
    <3> QED
      BY <1>1, <1>2, <2>1, <2>2, <3>1 DEF RowFits
  <2> QED
    BY <2>3, <2>4, <2>5, <2>6 DEF TitleFits
<1> QED
  BY <1>3, <1>4, <1>5 DEF SearchInv

\* A row that is swept ends what is owed to the successes it counted.
LEMMA SweepRowsSafe ==
    ASSUME SearchInv, SweepRows
    PROVE  SearchInv'
<1>0. SearchTypeOK
  BY DEF SearchInv
<1>1. /\ UNCHANGED <<now, last, count, token, byArr, leaving, abandons, caller>>
      /\ saved' = [t \in Titles |-> IF saved[t].at + StrandedTtl < now THEN Never ELSE saved[t]]
      /\ sent' = [t \in Titles |-> IF saved'[t] = saved[t] THEN sent[t]
                                   ELSE [sent[t] EXCEPT !.n = 0]]
  BY DEF SweepRows, memory, world
<1>2. ASSUME NEW t \in Titles
      PROVE  /\ saved'[t] \in Rows /\ sent'[t] \in Sents /\ sent'[t].newest = sent[t].newest
             /\ \/ saved'[t] = saved[t] /\ sent'[t] = sent[t]
                \/ saved'[t] = Never /\ sent'[t].at = sent[t].at /\ sent'[t].n = 0
  <2>1. saved[t] \in Rows /\ sent[t] \in Sents /\ Never \in Rows
    BY <1>0, TitleIs, SearchConstants DEF Never, Rows
  <2>2. PICK s : s = [sent[t] EXCEPT !.n = 0]
    OBVIOUS
  <2>3. s \in Sents /\ s.n = 0 /\ s.at = sent[t].at /\ s.newest = sent[t].newest
    BY <2>1, <2>2 DEF Sents
  <2>4. saved'[t] \in {Never, saved[t]}
    BY <1>1
  <2>5. sent'[t] = IF saved'[t] = saved[t] THEN sent[t] ELSE s
    BY <1>1, <2>2
  <2> QED
    BY <2>1, <2>3, <2>4, <2>5
<1>3. SearchTypeOK'
  <2>1. saved' \in [Titles -> Rows]
    BY <1>1, <1>2
  <2>2. sent' \in [Titles -> Sents]
    BY <1>1, <1>2
  <2> QED
    BY <1>0, <1>1, <2>1, <2>2 DEF SearchTypeOK, Sents
<1>4. ASSUME NEW c \in Callers PROVE CallerFits(c)'
  <2>1. CallerFits(c) /\ \A t \in Titles : sent'[t].newest = sent[t].newest
    BY <1>2 DEF SearchInv
  <2> QED
    BY <1>1, <2>1 DEF CallerFits, Busy, At, Title
<1>5. ASSUME NEW t \in Titles PROVE TitleFits(t)'
  <2>1. TitleFits(t)
    BY DEF SearchInv
  <2>2. \A d \in Callers : /\ Calling(d, t)' <=> Calling(d, t)
                           /\ Saving(d, t)' <=> Saving(d, t)
                           /\ Reading(d, t)' <=> Reading(d, t)
    BY <1>1, CallersStay
  <2>3. CASE saved'[t] = saved[t] /\ sent'[t] = sent[t]
    BY <1>1, <2>1, <2>2, <2>3, TitleStays
  <2>4. CASE saved'[t] = Never /\ sent'[t].at = sent[t].at /\ sent'[t].n = 0
    <3>1. \A d \in Callers : caller[d].row.n \in Nat
      BY <1>0, WorkFits
    <3>2. TokenFits(t)'
      BY <1>1, <2>1, <2>2, <2>4 DEF TitleFits, TokenFits
    <3>3. MemoryFits(t)'
      BY <1>1, <1>2, <2>1, <2>2 DEF TitleFits, MemoryFits
    <3>4. Known(t)'
      BY <2>4 DEF Known
    <3>5. RowFits(t)'
      <4>1. sent[t].newest \in Nat /\ Never.at = 0 /\ Never.n = 0 /\ sent[t].newest <= now
        BY <1>0, <2>1, TitleIs DEF Never, TitleFits, RowFits
      <4> QED
        BY <1>1, <1>2, <2>4, <3>1, <4>1 DEF RowFits
    <3> QED
      BY <3>2, <3>3, <3>4, <3>5 DEF TitleFits
  <2> QED
    BY <1>2, <2>3, <2>4
<1> QED
  BY <1>3, <1>4, <1>5 DEF SearchInv

\* Of a title's successes a restart leaves those that the table has counted.
LEMMA RestartSafe ==
    ASSUME SearchInv, Restart
    PROVE  SearchInv'
<1>0. SearchTypeOK
  BY DEF SearchInv
<1>1. /\ last' = [t \in Titles |-> 0] /\ count' = [t \in Titles |-> 0]
      /\ token' = [t \in Titles |-> {}]
      /\ byArr' = [s \in Services |-> [at |-> 0, by |-> NoTitle]]
      /\ caller' = [c \in Callers |-> Idle] /\ leaving' = [t \in Titles |-> "no"]
      /\ sent' = [t \in Titles |->
            [sent[t] EXCEPT !.n = IF saved[t].at = sent[t].at THEN sent[t].n ELSE 0]]
      /\ UNCHANGED <<now, saved, abandons>>
  BY <1>0 DEF Restart, SearchTypeOK
<1>2. ASSUME NEW t \in Titles
      PROVE  /\ sent'[t] \in Sents /\ sent'[t].at = sent[t].at /\ sent'[t].newest = sent[t].newest
             /\ sent'[t].n = IF saved[t].at = sent[t].at THEN sent[t].n ELSE 0
  <2>1. sent[t] \in Sents /\ sent[t].n \in Nat
    BY <1>0, TitleIs
  <2>2. PICK n \in Nat : n = IF saved[t].at = sent[t].at THEN sent[t].n ELSE 0
    BY <2>1
  <2>3. PICK s : s = [sent[t] EXCEPT !.n = n]
    OBVIOUS
  <2>4. s \in Sents /\ s.n = n /\ s.at = sent[t].at /\ s.newest = sent[t].newest
    BY <2>1, <2>3 DEF Sents
  <2> QED
    BY <1>1, <2>2, <2>3, <2>4
<1>3. \A c \in Callers : caller'[c].step = "idle" /\ caller'[c].live = FALSE /\ caller'[c] \in CallerWorks
  BY <1>0, <1>1, CallerIs
<1>4. SearchTypeOK'
  <2>1. sent' \in [Titles -> Sents]
    BY <1>1, <1>2
  <2>2. caller' \in [Callers -> CallerWorks]
    BY <1>1, <1>3
  <2>3. byArr' \in [Services -> [at : 0..MaxTime, by : Titles \union {NoTitle}]]
    BY <1>1, SearchConstants
  <2>4. /\ last' \in [Titles -> 0..MaxTime] /\ count' \in [Titles -> Nat]
        /\ token' \in [Titles -> SUBSET Callers] /\ leaving' \in [Titles -> {"no", "row"}]
    BY <1>1, SearchConstants
  <2> QED
    BY <1>0, <1>1, <2>1, <2>2, <2>3, <2>4 DEF SearchTypeOK, CallerWorks, Sents
<1>5. ASSUME NEW c \in Callers PROVE CallerFits(c)'
  BY <1>3 DEF CallerFits, Busy, At
<1>6. ASSUME NEW t \in Titles PROVE TitleFits(t)'
  <2>1. Known(t) /\ RowFits(t)
    BY DEF SearchInv, TitleFits
  <2>2. \A d \in Callers : ~Calling(d, t)' /\ ~Saving(d, t)' /\ ~Reading(d, t)'
    BY <1>3 DEF Calling, Saving, Reading, At
  <2>3. /\ sent[t].at \in Nat /\ sent[t].n \in Nat /\ sent[t].newest \in Nat
        /\ saved[t].at \in Nat /\ saved[t].n \in Nat
    BY <1>0, TitleIs
  <2>4. TokenFits(t)' /\ MemoryFits(t)'
    BY <1>1, <1>2, <2>2, <2>3 DEF TokenFits, MemoryFits
  <2>5. Known(t)'
    BY <1>1, <1>2, <2>1, <2>2, <2>3 DEF Known, RowFits, InTable
  <2>6. RowFits(t)'
    BY <1>1, <1>2, <2>1, <2>2, <2>3 DEF RowFits
  <2> QED
    BY <2>4, <2>5, <2>6 DEF TitleFits
<1> QED
  BY <1>4, <1>5, <1>6 DEF SearchInv

LEMMA SearchInvInit == SearchInit => SearchInv
<1> SUFFICES ASSUME SearchInit PROVE SearchInv
  OBVIOUS
<1>1. /\ now = 1 /\ abandons = 0
      /\ last = [t \in Titles |-> 0] /\ count = [t \in Titles |-> 0]
      /\ token = [t \in Titles |-> {}]
      /\ byArr = [s \in Services |-> [at |-> 0, by |-> NoTitle]]
      /\ saved = [t \in Titles |-> Never]
      /\ sent = [t \in Titles |-> [at |-> 0, n |-> 0, newest |-> 0]]
      /\ caller = [c \in Callers |-> Idle]
      /\ leaving = [t \in Titles |-> "no"]
  BY DEF SearchInit
<1>2. Never \in Rows /\ Idle \in CallerWorks /\ Idle.step = "idle" /\ Idle.live = FALSE
  BY SearchConstants DEF Never, Rows, Idle, CallerWorks
<1>3. SearchTypeOK
  BY <1>1, <1>2, SearchConstants DEF SearchTypeOK, CallerWorks
<1>4. \A c \in Callers : caller[c].step = "idle" /\ caller[c].live = FALSE
  BY <1>1, <1>2
<1>5. ASSUME NEW c \in Callers PROVE CallerFits(c)
  BY <1>4 DEF CallerFits, Busy, At
<1>6. ASSUME NEW t \in Titles PROVE TitleFits(t)
  <2>1. \A d \in Callers : ~Calling(d, t) /\ ~Saving(d, t) /\ ~Reading(d, t)
    BY <1>4 DEF Calling, Saving, Reading, At
  <2>2. saved[t].at = 0 /\ saved[t].n = 0 /\ sent[t].at = 0 /\ sent[t].n = 0 /\ sent[t].newest = 0
        /\ last[t] = 0
    BY <1>1 DEF Never
  <2> QED
    BY <1>1, <2>1, <2>2 DEF TitleFits, TokenFits, MemoryFits, Known, RowFits
<1> QED
  BY <1>3, <1>5, <1>6 DEF SearchInv

LEMMA SearchInvStep ==
    ASSUME SearchInv, [SearchNext]_searchVars
    PROVE  SearchInv'
<1>1. CASE UNCHANGED searchVars
  <2>1. /\ now' = now /\ last' = last /\ count' = count /\ token' = token /\ byArr' = byArr
        /\ saved' = saved /\ caller' = caller /\ leaving' = leaving /\ abandons' = abandons
        /\ sent' = sent
    BY <1>1 DEF searchVars
  <2>2. SearchTypeOK'
    BY <2>1 DEF SearchInv, SearchTypeOK
  <2>3. ASSUME NEW c \in Callers PROVE CallerFits(c)'
    BY <2>1 DEF SearchInv, CallerFits, Busy, At, Title
  <2>4. ASSUME NEW t \in Titles PROVE TitleFits(t)'
    BY <2>1, CallersStay, TitleStays DEF SearchInv
  <2> QED
    BY <2>2, <2>3, <2>4 DEF SearchInv
<1>2. ASSUME NEW c \in Callers, Poll(c) \/ Done(c) PROVE SearchInv'
  BY <1>2, ListsSafe
<1>3. ASSUME NEW c \in Callers, Adopt(c) PROVE SearchInv'
  BY <1>3, AdoptSafe
<1>4. ASSUME NEW c \in Callers, Reserve(c) PROVE SearchInv'
  BY <1>4, ReserveSafe
<1>5. ASSUME NEW c \in Callers, Commit(c) PROVE SearchInv'
  BY <1>5, CommitSafe
<1>6. ASSUME NEW c \in Callers, Save(c) PROVE SearchInv'
  BY <1>6, SaveSafe
<1>7. ASSUME NEW c \in Callers, Rollback(c) PROVE SearchInv'
  BY <1>7, RollbackSafe
<1>8. ASSUME NEW c \in Callers, NEW t \in Titles, Pick(c, t) PROVE SearchInv'
  BY <1>8, PickSafe
<1>9. ASSUME NEW t \in Titles, ClearMemory(t) PROVE SearchInv'
  BY <1>9, ClearMemorySafe
<1>10. ASSUME NEW t \in Titles, ClearRow(t) PROVE SearchInv'
  BY <1>10, ClearRowSafe
<1>11. CASE SearchTick
  BY <1>11, SearchTickSafe
<1>12. CASE SweepRows
  BY <1>12, SweepRowsSafe
<1>13. CASE Restart
  BY <1>13, RestartSafe
<1> QED
  BY <1>1, <1>2, <1>3, <1>4, <1>5, <1>6, <1>7, <1>8, <1>9, <1>10, <1>11, <1>12, <1>13 DEF SearchNext

\* Two live calls of one title would both hold its reservation.
LEMMA BudgetFollows ==
    ASSUME SearchInv
    PROVE  SearchBudget
<1>0. SearchTypeOK /\ \A t \in Titles : TokenFits(t) /\ MemoryFits(t)
  BY DEF SearchInv, TitleFits
<1>1. OneAtATime
  <2> SUFFICES ASSUME NEW t \in Titles
               PROVE  Cardinality({c \in Live(t) : At(c, "call")}) <= 1
    BY DEF OneAtATime
  <2>1. PICK out : out = {c \in Live(t) : At(c, "call")}
    OBVIOUS
  <2>2. \A c \in out : token[t] = {c}
    BY <1>0, <2>1 DEF Live, TokenFits, Calling
  <2>3. CASE out = {}
    <3>1. Cardinality({}) = 0
      BY FS_EmptySet
    <3> QED
      BY <2>1, <2>3, <3>1
  <2>4. CASE \E c : out = {c}
    <3>1. PICK d : out = {d}
      BY <2>4
    <3>2. Cardinality({d}) = 1
      BY FS_Singleton
    <3>3. Cardinality(out) = 1
      BY <3>1, <3>2
    <3> QED
      BY <2>1, <3>3
  <2>5. out = {} \/ \E c : out = {c}
    <3>1. ASSUME NEW c \in out PROVE out = {c}
      BY <2>2
    <3> QED
      BY <3>1
  <2> QED
    BY <2>3, <2>4, <2>5
<1>2. SearchesSpaced
  BY <1>0 DEF SearchesSpaced, TokenFits, Calling, Live, At, Title
<1>3. FailuresCostNothing
  BY <1>0 DEF FailuresCostNothing, MemoryFits, Calling
<1> QED
  BY <1>0, <1>1, <1>2, <1>3 DEF SearchBudget

\* Across the pages, the search job, abandonment, a lost table write and restarts, no two
\* searches of a title are out at once unless it was abandoned in between, each waits
\* for the whole delay since the last success, and one that failed holds nothing back
\* (maybe_trigger_search, _try_acquire_throttle_lock, _commit, _rollback, clear_throttle).
THEOREM SearchBudgetAlways == SearchSpec => []SearchBudget
<1>1. SearchInv /\ [SearchNext]_searchVars => SearchInv'
  BY SearchInvStep
<1>2. SearchInv => SearchBudget
  BY BudgetFollows
<1> QED
  BY <1>1, <1>2, SearchInvInit, PTL DEF SearchSpec

-----------------------------------------------------------------------------
(* The pages of a series: counting units. *)

UnitsOf(S, n) == UNION {{i} \X (1..n[i]) : i \in S}

\* The units of what counts, under the key of the record instead of its place.
Keyed(q) == {k \in DOMAIN q : ClusterKeys(q[k]) # {}}
ByKey(q, n) == UNION {{ClusterKeys(q[i])} \X (1..n[i]) : i \in Keyed(q)}

IsUnit(y, q, n) ==
    \E i \in DOMAIN q : ClusterKeys(q[i]) # {} /\ \E u \in 1..n[i] : y = <<ClusterKeys(q[i]), u>>

LEMMA ByKeyIs ==
    ASSUME NEW q, NEW n, NEW y
    PROVE  y \in ByKey(q, n) <=> IsUnit(y, q, n)
<1> DEFINE key(i) == ClusterKeys(q[i])
<1>1. \A i : i \in Keyed(q) <=> i \in DOMAIN q /\ key(i) # {}
  BY DEF Keyed
<1>2. ByKey(q, n) = UNION {{key(i)} \X (1..n[i]) : i \in Keyed(q)}
  BY DEF ByKey
<1> HIDE DEF key
<1>3. y \in ByKey(q, n) <=> \E i \in Keyed(q) : \E u \in 1..n[i] : y = <<key(i), u>>
  BY <1>2
<1>4. y \in ByKey(q, n) <=> \E i \in DOMAIN q : key(i) # {} /\ \E u \in 1..n[i] : y = <<key(i), u>>
  BY <1>1, <1>3
<1> QED
  BY <1>4 DEF key, IsUnit

LEMMA UnitsFinite ==
    ASSUME NEW S, IsFiniteSet(S), NEW n \in [S -> Nat]
    PROVE  IsFiniteSet(UnitsOf(S, n))
<1> DEFINE f == [i \in S |-> {i} \X (1..n[i])]
           T == {{i} \X (1..n[i]) : i \in S}
<1>1. f \in Surjection(S, T)
  BY DEF Surjection
<1>2. IsFiniteSet(T)
  BY <1>1, FS_Surjection
<1>3. ASSUME NEW X \in T PROVE IsFiniteSet(X)
  <2>1. PICK i \in S : X = {i} \X (1..n[i])
    OBVIOUS
  <2>2. IsFiniteSet({i})
    BY FS_Singleton
  <2>3. 1 \in Int /\ n[i] \in Int
    OBVIOUS
  <2>4. IsFiniteSet(1..n[i])
    BY <2>3, FS_Interval
  <2> QED
    BY <2>1, <2>2, <2>4, FS_Product
<1> QED
  BY <1>2, <1>3, FS_UNION DEF UnitsOf

\* Where equal keys mean equal sizes, the sum is over keys and not over places.
LEMMA UnitsByKey ==
    ASSUME NEW R, NEW q \in Seq(R), NEW n \in [DOMAIN q -> Nat],
           \A i, k \in DOMAIN q : ClusterKeys(q[i]) = ClusterKeys(q[k]) /\ ClusterKeys(q[i]) # {}
                                     => n[i] = n[k]
    PROVE  Units(Counted(q), n) = Cardinality(ByKey(q, n))
<1> DEFINE U == UnitsOf(Counted(q), n)
           key(i) == ClusterKeys(q[i])
           F == [x \in U |-> <<key(x[1]), x[2]>>]
<1>1. DOMAIN q = 1..Len(q) /\ Len(q) \in Nat
  OBVIOUS
<1>2. \A i : i \in Counted(q) <=>
            /\ i \in DOMAIN q /\ key(i) # {}
            /\ \A k \in 1..(i - 1) : key(k) # key(i)
  BY DEF Counted
<1>3. \A x : x \in U <=> \E i \in Counted(q) : \E u \in 1..n[i] : x = <<i, u>>
  BY DEF UnitsOf
<1>4. \A y : y \in ByKey(q, n) <=>
            \E i \in DOMAIN q : key(i) # {} /\ \E u \in 1..n[i] : y = <<key(i), u>>
  BY ByKeyIs DEF IsUnit
<1>5. ASSUME NEW i \in DOMAIN q, key(i) # {}
      PROVE  \E j \in Counted(q) : key(j) = key(i)
  <2> DEFINE S == {k \in DOMAIN q : key(k) = key(i)}
  <2>1. S \in SUBSET Nat /\ S # {}
    BY <1>1
  <2>2. PICK j \in S : \A k \in S : j <= k
    BY <2>1, FirstOf
  <2>3. ASSUME NEW k \in 1..(j - 1) PROVE key(k) # key(j)
    <3>1. k \in DOMAIN q /\ ~(j <= k)
      BY <1>1, <2>2
    <3> QED
      BY <2>2, <3>1
  <2> QED
    BY <1>2, <1>5, <2>2, <2>3
<1> HIDE DEF U, key
<1>6. ASSUME NEW x \in U PROVE F[x] \in ByKey(q, n)
  BY <1>2, <1>3, <1>4
<1>7. ASSUME NEW i \in Counted(q), NEW j \in Counted(q), key(i) = key(j) PROVE i = j
  <2>1. i \in 1..Len(q) /\ j \in 1..Len(q)
    BY <1>1, <1>2
  <2>2. CASE i < j
    <3>1. i \in 1..(j - 1)
      BY <2>1, <2>2
    <3> QED
      BY <1>2, <1>7, <3>1
  <2>3. CASE j < i
    <3>1. j \in 1..(i - 1)
      BY <2>1, <2>3
    <3> QED
      BY <1>2, <1>7, <3>1
  <2> QED
    BY <2>1, <2>2, <2>3
<1>8. ASSUME NEW x \in U, NEW y \in U, F[x] = F[y] PROVE x = y
  <2>1. PICK i \in Counted(q) : \E u \in 1..n[i] : x = <<i, u>>
    BY <1>3
  <2>2. PICK j \in Counted(q) : \E u \in 1..n[j] : y = <<j, u>>
    BY <1>3
  <2>3. x = <<i, x[2]>> /\ y = <<j, y[2]>>
    BY <2>1, <2>2
  <2>4. key(i) = key(j) /\ x[2] = y[2]
    BY <1>8, <2>1, <2>2
  <2> QED
    BY <1>7, <2>3, <2>4
<1>9. ASSUME NEW y \in ByKey(q, n) PROVE \E x \in U : F[x] = y
  <2>1. PICK i \in DOMAIN q : key(i) # {} /\ \E u \in 1..n[i] : y = <<key(i), u>>
    BY <1>4
  <2>2. PICK u \in 1..n[i] : y = <<key(i), u>>
    BY <2>1
  <2>3. PICK j \in Counted(q) : key(j) = key(i)
    BY <1>5, <2>1
  <2>4. n[j] = n[i]
    BY <1>2, <2>1, <2>3 DEF key
  <2>5. <<j, u>> \in U
    BY <1>3, <2>2, <2>3, <2>4
  <2>6. F[<<j, u>>] = <<key(j), u>>
    BY <2>5
  <2> QED
    BY <2>2, <2>3, <2>5, <2>6
<1>10. F \in Bijection(U, ByKey(q, n))
  BY <1>6, <1>8, <1>9, Fun_IsBij
<1>11. IsFiniteSet(U)
  <2>1. IsFiniteSet(DOMAIN q) /\ Counted(q) \subseteq DOMAIN q
    BY <1>1, <1>2, FS_Interval
  <2>2. IsFiniteSet(Counted(q))
    BY <2>1, FS_Subset
  <2>3. \A i \in Counted(q) : n[i] \in Nat
    BY <2>1
  <2> DEFINE m == [i \in Counted(q) |-> n[i]]
  <2>4. UnitsOf(Counted(q), m) = U /\ m \in [Counted(q) -> Nat]
    BY <2>3 DEF UnitsOf, U
  <2> HIDE DEF m
  <2> QED
    BY <2>2, <2>4, UnitsFinite
<1>12. Cardinality(ByKey(q, n)) = Cardinality(U)
  BY <1>10, <1>11, FS_Bijection DEF ExistsBijection
<1>13. Units(Counted(q), n) = Cardinality(U)
  BY DEF Units, U, UnitsOf
<1> QED
  BY <1>12, <1>13

\* Who is listed first does not matter.
LEMMA UnitsOfReverse ==
    ASSUME NEW R, NEW q \in Seq(R), NEW n \in [DOMAIN q -> Nat], NEW m \in [DOMAIN q -> Nat],
           \A i, k \in DOMAIN q : ClusterKeys(q[i]) = ClusterKeys(q[k]) /\ ClusterKeys(q[i]) # {}
                                     => n[i] = n[k],
           \A i \in DOMAIN q : m[i] = n[(Len(q) - i) + 1]
    PROVE  Units(Counted(Reverse(q)), m) = Units(Counted(q), n)
<1> DEFINE r == Reverse(q)
           t(i) == (Len(q) - i) + 1
<1>1. DOMAIN q = 1..Len(q) /\ Len(q) \in Nat
  OBVIOUS
<1>2. \A i \in DOMAIN q : t(i) \in DOMAIN q /\ t(t(i)) = i
  BY <1>1
<1>3. r = [i \in 1..Len(q) |-> q[t(i)]]
  BY DEF Reverse
<1>4. \A i \in 1..Len(q) : q[t(i)] \in R
  BY <1>1, <1>2
<1>5. r \in Seq(R) /\ DOMAIN r = DOMAIN q /\ \A i \in DOMAIN q : r[i] = q[t(i)]
  BY <1>1, <1>3, <1>4
<1> HIDE DEF r, t
<1>6. ASSUME NEW i \in DOMAIN r, NEW k \in DOMAIN r,
             ClusterKeys(r[i]) = ClusterKeys(r[k]), ClusterKeys(r[i]) # {}
      PROVE  m[i] = m[k]
  <2>1. t(i) \in DOMAIN q /\ t(k) \in DOMAIN q /\ r[i] = q[t(i)] /\ r[k] = q[t(k)]
    BY <1>2, <1>5
  <2>2. n[t(i)] = n[t(k)]
    BY <1>6, <2>1
  <2> QED
    BY <1>5, <2>2 DEF t
<1>7. ByKey(r, m) = ByKey(q, n)
  <2>1. \A y : y \in ByKey(q, n) <=>
            \E i \in DOMAIN q : ClusterKeys(q[i]) # {} /\ \E u \in 1..n[i] : y = <<ClusterKeys(q[i]), u>>
    <3>1. \A y : y \in ByKey(q, n) <=> IsUnit(y, q, n)
      BY ByKeyIs
    <3> QED
      BY <3>1 DEF IsUnit
  <2>2. \A y : y \in ByKey(r, m) <=>
            \E i \in DOMAIN r : ClusterKeys(r[i]) # {} /\ \E u \in 1..m[i] : y = <<ClusterKeys(r[i]), u>>
    <3>1. \A y : y \in ByKey(r, m) <=> IsUnit(y, r, m)
      BY ByKeyIs
    <3> QED
      BY <3>1 DEF IsUnit
  <2>3. \A i \in DOMAIN q : m[i] = n[t(i)]
    BY DEF t
  <2>4. ASSUME NEW y \in ByKey(r, m) PROVE y \in ByKey(q, n)
    BY <1>2, <1>5, <2>1, <2>2, <2>3, <2>4
  <2>5. ASSUME NEW y \in ByKey(q, n) PROVE y \in ByKey(r, m)
    <3>1. PICK i \in DOMAIN q : ClusterKeys(q[i]) # {} /\ \E u \in 1..n[i] : y = <<ClusterKeys(q[i]), u>>
      BY <2>1
    <3>2. t(i) \in DOMAIN r /\ r[t(i)] = q[i] /\ m[t(i)] = n[i]
      BY <1>2, <1>5, <2>3
    <3> QED
      BY <2>2, <3>1, <3>2
  <2> QED
    BY <2>4, <2>5
<1>8. Units(Counted(r), m) = Cardinality(ByKey(r, m))
  BY <1>5, <1>6, UnitsByKey
<1>9. Units(Counted(q), n) = Cardinality(ByKey(q, n))
  BY UnitsByKey
<1> QED
  BY <1>7, <1>8, <1>9 DEF r

-----------------------------------------------------------------------------
(* The pages of a series: percentages. *)

LEMMA Division ==
    ASSUME NEW x \in Nat, NEW y \in Nat \ {0}
    PROVE  /\ x \div y \in Nat /\ x % y \in 0..(y - 1)
           /\ x = y * (x \div y) + (x % y)
BY SMT

\* A hundred percent are shown when half a percent is left at most.
LEMMA HundredIsLoaded ==
    ASSUME NEW size \in Nat, NEW left \in Nat
    PROVE  /\ Progress(size, left) = 100 => 200 * left <= size /\ left <= size
           /\ Progress(size, left) \in Int
<1>1. CASE size = 0
  BY <1>1 DEF Progress
<1>2. CASE left > size
  BY <1>2 DEF Progress
<1>3. CASE size # 0 /\ ~(left > size)
  <2> DEFINE done == size - left
             q == (100 * done) \div size
             r == (100 * done) % size
  <2>1. done \in Nat /\ size \in Nat \ {0} /\ left = size - done /\ 100 * done \in Nat
    BY <1>3
  <2>2. q \in Nat /\ r \in 0..(size - 1) /\ 100 * done = size * q + r
    BY <2>1, Division
  <2>3. Progress(size, left) = IF 2 * r > size \/ (2 * r = size /\ q % 2 = 1) THEN q + 1 ELSE q
    BY <1>3 DEF Progress, RoundedPercent
  <2> HIDE DEF done, q, r
  <2>4. ASSUME Progress(size, left) = 100 PROVE 200 * left <= size
    <3>1. CASE 2 * r > size \/ (2 * r = size /\ q % 2 = 1)
      <4>1. q = 99 /\ 2 * r >= size
        BY <2>1, <2>2, <2>3, <2>4, <3>1
      <4>2. 100 * done = 99 * size + r
        BY <2>1, <2>2, <4>1
      <4> QED
        BY <2>1, <2>2, <4>1, <4>2
    <3>2. CASE ~(2 * r > size \/ (2 * r = size /\ q % 2 = 1))
      <4>1. q = 100
        BY <2>2, <2>3, <2>4, <3>2
      <4>2. 100 * done = 100 * size + r
        BY <2>1, <2>2, <4>1
      <4> QED
        BY <2>1, <2>2, <4>2
    <3> QED
      BY <3>1, <3>2
  <2>5. Progress(size, left) \in Int
    BY <2>2, <2>3
  <2> QED
    BY <1>3, <2>4, <2>5
<1> QED
  BY <1>1, <1>2, <1>3

-----------------------------------------------------------------------------
(* The pages of a series: what holds of the queue. *)

\* t is the list s without its entry n: the rest keeps its order.
IsWithout(t, S, s, n) ==
    /\ t \in Seq(S) /\ Len(t) = Len(s) - 1 /\ DOMAIN t = 1..(Len(s) - 1)
    /\ \A i \in 1..(n - 1) : t[i] = s[i]
    /\ \A i \in n..(Len(s) - 1) : t[i] = s[i + 1]

LEMMA WithoutOne ==
    ASSUME NEW S, NEW s \in Seq(S), NEW n \in DOMAIN s, NEW t, t = RemoveAt(s, n)
    PROVE  IsWithout(t, S, s, n)
<1> DEFINE young == SubSeq(s, 1, n - 1)
           old == SubSeq(s, n + 1, Len(s))
<1>2. DOMAIN s = 1..Len(s) /\ Len(s) \in Nat /\ n \in 1..Len(s)
  OBVIOUS
<1>3. t = SubSeq(s, 1, n - 1) \o SubSeq(s, n + 1, Len(s))
  BY DEF RemoveAt
<1>4. /\ young \in Seq(S) /\ Len(young) = n - 1 /\ \A i \in 1..(n - 1) : young[i] = s[i]
      /\ old \in Seq(S) /\ Len(old) = Len(s) - n /\ \A i \in 1..(Len(s) - n) : old[i] = s[n + i]
  <2>1. \A i \in 1..Len(s) : s[i] \in S
    OBVIOUS
  <2>2. 1 \in Int /\ n - 1 \in Int /\ n + 1 \in Int /\ Len(s) \in Int
    BY <1>2
  <2>3. /\ young \in Seq(S) /\ Len(young) = IF 1 <= n - 1 THEN (n - 1) - 1 + 1 ELSE 0
        /\ \A i \in 1..((n - 1) - 1 + 1) : young[i] = s[1 + i - 1]
    BY ONLY <1>2, <2>1, <2>2, SubSeqProperties
  <2>4. /\ old \in Seq(S) /\ Len(old) = IF n + 1 <= Len(s) THEN Len(s) - (n + 1) + 1 ELSE 0
        /\ \A i \in 1..(Len(s) - (n + 1) + 1) : old[i] = s[n + 1 + i - 1]
    BY ONLY <1>2, <2>1, <2>2, SubSeqProperties
  <2>5. (n - 1) - 1 + 1 = n - 1 /\ Len(s) - (n + 1) + 1 = Len(s) - n
    BY <1>2
  <2> HIDE DEF young, old
  <2>6. ASSUME NEW i \in 1..(n - 1) PROVE young[i] = s[i]
    <3>1. 1 + i - 1 = i
      BY <1>2
    <3> QED
      BY <2>3, <2>5, <3>1
  <2>7. ASSUME NEW i \in 1..(Len(s) - n) PROVE old[i] = s[n + i]
    <3>1. n + 1 + i - 1 = n + i
      BY <1>2
    <3> QED
      BY <2>4, <2>5, <3>1
  <2>8. Len(young) = n - 1
    <3>1. CASE 1 <= n - 1
      BY <3>1, <2>3, <2>5
    <3>2. CASE ~(1 <= n - 1)
      BY <3>2, <2>3, <1>2
    <3> QED
      BY <3>1, <3>2
  <2>9. Len(old) = Len(s) - n
    <3>1. CASE n + 1 <= Len(s)
      <4>1. Len(old) = Len(s) - (n + 1) + 1
        BY <3>1, <2>4
      <4> QED
        BY <4>1, <2>5
    <3>2. CASE ~(n + 1 <= Len(s))
      <4>1. Len(old) = 0
        BY <3>2, <2>4
      <4>2. Len(s) \in Int /\ n \in Int /\ n <= Len(s) /\ ~(n + 1 <= Len(s))
        BY <3>2, <1>2
      <4>3. Len(s) - n = 0
        BY ONLY <4>2
      <4> QED
        BY <4>1, <4>3
    <3> QED
      BY <3>1, <3>2
  <2> QED
    BY <2>3, <2>4, <2>6, <2>7, <2>8, <2>9
<1> HIDE DEF young, old
<1>5. /\ t \in Seq(S) /\ Len(t) = Len(s) - 1 /\ DOMAIN t = 1..(Len(s) - 1)
      /\ \A i \in 1..(n - 1) : t[i] = s[i]
      /\ \A i \in n..(Len(s) - 1) : t[i] = s[i + 1]
  <2>1. /\ t \in Seq(S) /\ Len(t) = Len(young) + Len(old)
        /\ \A i \in 1..(Len(young) + Len(old)) :
              t[i] = IF i <= Len(young) THEN young[i] ELSE old[i - Len(young)]
    <3>1. t = young \o old
      BY <1>3 DEF young, old
    <3> QED
      BY ONLY <1>4, <3>1, ConcatProperties
  <2>2. Len(t) = Len(s) - 1 /\ DOMAIN t = 1..(Len(s) - 1)
    BY <1>2, <1>4, <2>1
  <2>3. ASSUME NEW i \in 1..(n - 1) PROVE t[i] = s[i]
    <3>1. i \in 1..(Len(young) + Len(old)) /\ i <= Len(young)
      BY <1>2, <1>4
    <3>2. t[i] = young[i]
      BY <2>1, <3>1
    <3> QED
      BY <3>2, <1>4
  <2>4. ASSUME NEW i \in n..(Len(s) - 1) PROVE t[i] = s[i + 1]
    <3>1. i - (n - 1) \in 1..(Len(s) - n) /\ n + (i - (n - 1)) = i + 1
      BY <1>2
    <3>2. t[i] = old[i - (n - 1)]
      <4>1. i \in 1..(Len(young) + Len(old)) /\ ~(i <= Len(young)) /\ i - Len(young) = i - (n - 1)
        <5>1. Len(young) = n - 1 /\ Len(old) = Len(s) - n
          BY <1>4
        <5> QED
          BY ONLY <5>1, <1>2, i \in n..(Len(s) - 1)
      <4> QED
        BY <2>1, <4>1
    <3> QED
      BY <3>1, <3>2, <1>4
  <2> QED
    BY <2>1, <2>2, <2>3, <2>4
<1> QED
  BY <1>5 DEF IsWithout

\* Labels are given once, and records of one download tell the same of it.
QueueFits ==
    /\ queue \in Seq(Records)
    /\ \A i, k \in DOMAIN queue : queue[i].label = queue[k].label => i = k
    /\ \A i, k \in DOMAIN queue :
          queue[i].download = queue[k].download /\ queue[i].download # NoDownload
             => queue[i].size = queue[k].size /\ queue[i].left = queue[k].left

StatesInv == StatesTypeOK /\ QueueFits

LEMMA StatesInit_Inv ==
    StatesInit => StatesInv
<1> SUFFICES ASSUME StatesInit PROVE StatesInv
  OBVIOUS
<1>1. queue = <<>> /\ queue \in Seq(Records) /\ Len(queue) = 0 /\ DOMAIN queue = {} /\ Range(queue) = {}
  BY DEF StatesInit, Range
<1>2. MaxQueue \in Nat /\ MaxEpisodes \in Nat
  BY StatesAssumption
<1>3. season \in [SeasonNumbers -> [monitored : BOOLEAN, aired : BOOLEAN,
                                    files : 0..MaxEpisodes, episodes : 0..MaxEpisodes]]
  <2>1. 0 \in 0..MaxEpisodes
    BY <1>2
  <2> DEFINE New(b) == [monitored |-> b, aired |-> FALSE, files |-> 0, episodes |-> 0]
  <2>2. \A b \in BOOLEAN : New(b) \in [monitored : BOOLEAN, aired : BOOLEAN,
                                       files : 0..MaxEpisodes, episodes : 0..MaxEpisodes]
    BY <2>1
  <2>3. season \in [SeasonNumbers -> {New(b) : b \in BOOLEAN}]
    BY DEF StatesInit
  <2> HIDE DEF New
  <2> QED
    BY <2>2, <2>3
<1> QED
  BY <1>1, <1>2, <1>3 DEF StatesInv, StatesTypeOK, QueueFits

LEMMA RangeIs ==
    ASSUME NEW q \in Seq(Records)
    PROVE  /\ Range(q) \subseteq Records
           /\ \A e : e \in Range(q) <=> \E i \in DOMAIN q : q[i] = e
<1>1. \A i \in DOMAIN q : q[i] \in Records
  OBVIOUS
<1> QED
  BY <1>1 DEF Range

\* A label is left as long as there is room.
LEMMA LabelLeft ==
    ASSUME StatesInv, Len(queue) < MaxQueue
    PROVE  \E n \in 1..MaxQueue : \A f \in Range(queue) : f.label # n
<1> SUFFICES ASSUME \A n \in 1..MaxQueue : \E f \in Range(queue) : f.label = n
             PROVE  FALSE
  OBVIOUS
<1> DEFINE f == [i \in DOMAIN queue |-> queue[i].label]
<1>1. /\ queue \in Seq(Records) /\ DOMAIN queue = 1..Len(queue) /\ Len(queue) \in Nat
      /\ MaxQueue \in Nat
  BY StatesAssumption DEF StatesInv, QueueFits
<1>2. \A i \in DOMAIN queue : queue[i].label \in 1..MaxQueue
  <2>1. \A i \in DOMAIN queue : queue[i] \in Records
    BY <1>1
  <2> QED
    BY <2>1 DEF Records
<1>3. \A n \in 1..MaxQueue : \E i \in DOMAIN queue : queue[i].label = n
  <2>1. \A e : e \in Range(queue) <=> \E i \in DOMAIN queue : queue[i] = e
    BY <1>1, RangeIs
  <2> QED
    BY <2>1
<1>4. f \in Surjection(DOMAIN queue, 1..MaxQueue)
  BY <1>2, <1>3, Fun_IsSurj
<1>5. 1 \in Int /\ Len(queue) \in Int /\ MaxQueue \in Int
  BY <1>1
<1>6. IsFiniteSet(DOMAIN queue) /\ Cardinality(DOMAIN queue) = Len(queue)
  <2>1. /\ IsFiniteSet(1..Len(queue))
        /\ Cardinality(1..Len(queue)) = IF 1 > Len(queue) THEN 0 ELSE Len(queue) - 1 + 1
    BY <1>5, FS_Interval
  <2>2. Cardinality(1..Len(queue)) = Len(queue)
    BY <1>1, <2>1
  <2> QED
    BY <1>1, <2>1, <2>2
<1>7. Cardinality(1..MaxQueue) = MaxQueue
  <2>1. Cardinality(1..MaxQueue) = IF 1 > MaxQueue THEN 0 ELSE MaxQueue - 1 + 1
    BY <1>5, FS_Interval
  <2> QED
    BY <1>1, <2>1
<1>8. Cardinality(1..MaxQueue) <= Cardinality(DOMAIN queue)
  BY <1>4, <1>6, FS_Surjection
<1> QED
  BY <1>1, <1>6, <1>7, <1>8

LEMMA StatesNext_Inv ==
    StatesInv /\ [StatesNext]_stateVars => StatesInv'
<1> SUFFICES ASSUME StatesInv, [StatesNext]_stateVars PROVE StatesInv'
  OBVIOUS
<1> DEFINE Season == [monitored : BOOLEAN, aired : BOOLEAN,
                      files : 0..MaxEpisodes, episodes : 0..MaxEpisodes]
<1>1. /\ season \in [SeasonNumbers -> Season] /\ Len(queue) <= MaxQueue
      /\ queue \in Seq(Records) /\ Len(queue) \in Nat /\ DOMAIN queue = 1..Len(queue)
      /\ \A i \in DOMAIN queue : queue[i] \in Records
      /\ \A i, k \in DOMAIN queue : queue[i].label = queue[k].label => i = k
      /\ \A i, k \in DOMAIN queue :
            queue[i].download = queue[k].download /\ queue[i].download # NoDownload
               => queue[i].size = queue[k].size /\ queue[i].left = queue[k].left
  BY DEF StatesInv, StatesTypeOK, QueueFits
<1>2. MaxQueue \in Nat /\ MaxEpisodes \in Nat /\ Sizes \subseteq Nat /\ Lefts \subseteq Nat
  BY StatesAssumption
\* What is to be shown of the queue and of the seasons that a step leaves.
<1>3. ASSUME season' \in [SeasonNumbers -> Season], queue' \in Seq(Records),
             Len(queue') <= MaxQueue,
             \A i, k \in DOMAIN queue' : queue'[i].label = queue'[k].label => i = k,
             \A i, k \in DOMAIN queue' :
                queue'[i].download = queue'[k].download /\ queue'[i].download # NoDownload
                   => queue'[i].size = queue'[k].size /\ queue'[i].left = queue'[k].left
      PROVE  StatesInv'
  <2>1. Range(queue') \subseteq Records
    BY <1>3, RangeIs
  <2>2. StatesTypeOK'
    BY <1>3, <2>1 DEF StatesTypeOK
  <2> QED
    BY <1>3, <2>2 DEF StatesInv, QueueFits
<1>4. ASSUME NEW n \in SeasonNumbers, Air(n) PROVE StatesInv'
  <2>1. PICK counted \in {0, 1} :
            season' = [season EXCEPT ![n].aired = TRUE, ![n].episodes = @ + counted]
    BY <1>4 DEF Air
  <2>2. season[n] \in Season /\ season[n].episodes + counted \in 0..MaxEpisodes
    BY <1>1, <1>2, <1>4 DEF Air
  <2>3. season' \in [SeasonNumbers -> Season]
    BY <1>1, <2>1, <2>2
  <2> QED
    BY <1>1, <1>3, <1>4, <2>3 DEF Air
<1>5. ASSUME NEW e \in [download : DownloadIds \union {NoDownload}, named : BOOLEAN,
                        label : 1..MaxQueue, size : Sizes, left : Sizes,
                        status : {"downloading", "paused", "completed"}],
             Grab(e)
      PROVE  StatesInv'
  <2>1. e \in Records
    BY <1>2 DEF Records
  <2>2. /\ Len(queue) < MaxQueue /\ e.left = e.size
        /\ \A f \in Range(queue) : /\ e.download = f.download /\ e.download # NoDownload
                                   => e.size = f.size /\ f.left = f.size /\ e.status = f.status
        /\ e.label = CHOOSE n \in 1..MaxQueue : \A f \in Range(queue) : f.label # n
        /\ queue' = Append(queue, e) /\ season' = season
    BY <1>5 DEF Grab
  <2>3. \A f \in Range(queue) : f.label # e.label
    BY <2>2, LabelLeft
  <2>4. \A i \in DOMAIN queue : queue[i] \in Range(queue)
    BY <1>1, RangeIs
  <2>5. /\ queue' \in Seq(Records) /\ Len(queue') = Len(queue) + 1
        /\ DOMAIN queue' = 1..(Len(queue) + 1)
        /\ \A i \in DOMAIN queue : queue'[i] = queue[i]
        /\ queue'[Len(queue) + 1] = e
    BY <1>1, <2>1, <2>2
  <2>6. \A i \in DOMAIN queue' : i \in DOMAIN queue \/ i = Len(queue) + 1
    BY <1>1, <2>5
  <2>7. \A i, k \in DOMAIN queue' : queue'[i].label = queue'[k].label => i = k
    BY <1>1, <2>3, <2>4, <2>5, <2>6
  <2>8. \A i, k \in DOMAIN queue' :
            queue'[i].download = queue'[k].download /\ queue'[i].download # NoDownload
               => queue'[i].size = queue'[k].size /\ queue'[i].left = queue'[k].left
    <3>1. \A i \in DOMAIN queue :
             queue[i].download = e.download /\ e.download # NoDownload
                => queue[i].size = e.size /\ queue[i].left = e.left
      BY <2>2, <2>4
    <3> SUFFICES ASSUME NEW i \in DOMAIN queue', NEW k \in DOMAIN queue',
                        queue'[i].download = queue'[k].download, queue'[i].download # NoDownload
                 PROVE  queue'[i].size = queue'[k].size /\ queue'[i].left = queue'[k].left
      OBVIOUS
    <3>2. CASE i \in DOMAIN queue /\ k \in DOMAIN queue
      <4>1. queue'[i] = queue[i] /\ queue'[k] = queue[k]
        BY <2>5, <3>2
      <4> QED
        BY <1>1, <3>2, <4>1
    <3>3. CASE i \in DOMAIN queue /\ k = Len(queue) + 1
      <4>1. queue'[i] = queue[i] /\ queue'[k] = e
        BY <2>5, <3>3
      <4> QED
        BY <3>1, <3>3, <4>1
    <3>4. CASE i = Len(queue) + 1 /\ k \in DOMAIN queue
      <4>1. queue'[i] = e /\ queue'[k] = queue[k]
        BY <2>5, <3>4
      <4> QED
        BY <3>1, <3>4, <4>1
    <3>5. CASE i = Len(queue) + 1 /\ k = Len(queue) + 1
      BY <3>5
    <3> QED
      BY <2>6, <3>2, <3>3, <3>4, <3>5
  <2>9. Len(queue') <= MaxQueue
    BY <1>1, <1>2, <2>2, <2>5
  <2> QED
    BY <1>1, <1>3, <2>2, <2>5, <2>7, <2>8, <2>9
<1>6. ASSUME NEW i \in 1..MaxQueue, NEW left \in Lefts, Advance(i, left) PROVE StatesInv'
  <2> DEFINE Moves(k) == k = i \/ (queue[k].download = queue[i].download /\ queue[i].download # NoDownload)
  <2>1. /\ i \in DOMAIN queue /\ season' = season
        /\ queue' = [k \in DOMAIN queue |->
                        IF Moves(k) THEN [queue[k] EXCEPT !.left = left] ELSE queue[k]]
    BY <1>6 DEF Advance
  <2>2. left \in Nat
    BY <1>2
  <2>3. ASSUME NEW k \in DOMAIN queue
        PROVE  /\ queue'[k] \in Records /\ queue'[k].label = queue[k].label
               /\ queue'[k].download = queue[k].download /\ queue'[k].size = queue[k].size
               /\ queue'[k].left = IF Moves(k) THEN left ELSE queue[k].left
    BY <1>1, <2>1, <2>2 DEF Records
  <2>4. queue' \in Seq(Records) /\ DOMAIN queue' = DOMAIN queue /\ Len(queue') = Len(queue)
    <3>1. queue' \in [1..Len(queue) -> Records]
      BY <1>1, <2>1, <2>3
    <3> QED
      BY <1>1, <3>1
  <2>5. \A k, m \in DOMAIN queue' :
            queue'[k].download = queue'[m].download /\ queue'[k].download # NoDownload
               => queue'[k].size = queue'[m].size /\ queue'[k].left = queue'[m].left
    <3> SUFFICES ASSUME NEW k \in DOMAIN queue, NEW m \in DOMAIN queue,
                        queue[k].download = queue[m].download, queue[k].download # NoDownload
                 PROVE  queue'[k].size = queue'[m].size /\ queue'[k].left = queue'[m].left
      BY <2>3, <2>4
    <3>1. Moves(k) <=> Moves(m)
      OBVIOUS
    <3>2. queue[k].size = queue[m].size /\ queue[k].left = queue[m].left
      BY <1>1
    <3> HIDE DEF Moves
    <3> QED
      BY <2>3, <3>1, <3>2
  <2> HIDE DEF Moves
  <2>6. \A k, m \in DOMAIN queue' : queue'[k].label = queue'[m].label => k = m
    BY <1>1, <2>3, <2>4
  <2> QED
    BY <1>1, <1>3, <2>1, <2>4, <2>5, <2>6
<1>7. ASSUME NEW i \in 1..MaxQueue, NEW n \in SeasonNumbers, ImportEpisode(i, n) PROVE StatesInv'
  <2>1. /\ i \in DOMAIN queue /\ season[n].files < season[n].episodes
        /\ season' = [season EXCEPT ![n].files = @ + 1] /\ queue' = RemoveAt(queue, i)
    BY <1>7 DEF ImportEpisode
  <2>2. season[n] \in Season /\ season[n].files + 1 \in 0..MaxEpisodes
    BY <1>1, <1>2, <2>1
  <2>3. season' \in [SeasonNumbers -> Season]
    BY <1>1, <2>1, <2>2
  <2>4. /\ queue' \in Seq(Records) /\ Len(queue') = Len(queue) - 1
        /\ DOMAIN queue' = 1..(Len(queue) - 1)
        /\ \A k \in 1..(i - 1) : queue'[k] = queue[k]
        /\ \A k \in i..(Len(queue) - 1) : queue'[k] = queue[k + 1]
    <3>1. queue \in Seq(Records) /\ i \in DOMAIN queue /\ queue' = RemoveAt(queue, i)
      BY <1>1, <2>1
    <3>2. IsWithout(queue', Records, queue, i)
      BY <3>1, WithoutOne
    <3> QED
      BY <3>2 DEF IsWithout
  <2> DEFINE was(k) == IF k < i THEN k ELSE k + 1
  <2>5. /\ \A k \in DOMAIN queue' : was(k) \in DOMAIN queue /\ queue'[k] = queue[was(k)]
        /\ \A k, m \in DOMAIN queue' : was(k) = was(m) => k = m
    <3>1. \A k \in 1..(Len(queue) - 1) : was(k) \in 1..Len(queue)
      BY <1>1
    <3>2. \A k, m \in 1..(Len(queue) - 1) : was(k) = was(m) => k = m
      BY <1>1
    <3>3. ASSUME NEW k \in 1..(Len(queue) - 1) PROVE queue'[k] = queue[was(k)]
      <4>1. CASE k < i
        <5>1. k \in 1..(i - 1)
          BY <1>1, <4>1
        <5> QED
          BY <2>4, <4>1, <5>1
      <4>2. CASE ~(k < i)
        <5>1. k \in i..(Len(queue) - 1)
          BY <1>1, <4>2
        <5> QED
          BY <2>4, <4>2, <5>1
      <4> QED
        BY <4>1, <4>2
    <3> QED
      BY <1>1, <2>4, <3>1, <3>2, <3>3
  <2> HIDE DEF was
  <2>6. \A k, m \in DOMAIN queue' : queue'[k].label = queue'[m].label => k = m
    BY <1>1, <2>5
  <2>7. \A k, m \in DOMAIN queue' :
            queue'[k].download = queue'[m].download /\ queue'[k].download # NoDownload
               => queue'[k].size = queue'[m].size /\ queue'[k].left = queue'[m].left
    BY <1>1, <2>5
  <2>8. Len(queue') <= MaxQueue
    BY <1>1, <1>2, <2>4
  <2> QED
    BY <1>3, <2>3, <2>4, <2>6, <2>7, <2>8
<1>8. CASE UNCHANGED stateVars
  BY <1>1, <1>3, <1>8 DEF stateVars
<1> QED
  BY <1>4, <1>5, <1>6, <1>7, <1>8 DEF StatesNext

-----------------------------------------------------------------------------
(* The pages of a series: what they say. *)

LEMMA HereIs ==
    ASSUME StatesTypeOK
    PROVE  FilesNeverSetBack /\ LibraryHasFiles
<1> DEFINE All(S) == AiredSeasons(S) # {} /\ \A k \in AiredSeasons(S) : Complete(S[k])
           Some(S) == \E k \in AiredSeasons(S) : S[k].files > 0 /\ \E j \in AiredSeasons(S) : ~Complete(S[j])
<1>1. ASSUME NEW S
      PROVE  /\ Rank(SeriesState(S, queue)) = IF All(S) THEN 2 ELSE IF Some(S) THEN 1 ELSE 0
             /\ SeriesState(S, queue) = "in_library" => All(S)
  <2> DEFINE a == All(S)  b == Some(S)
  <2>1. ~(a /\ b)
    OBVIOUS
  <2>2. SeriesState(S, queue) = CASE a -> "in_library" [] b -> "partial"
                                  [] OTHER -> IF queue # <<>> THEN "downloading" ELSE "queued"
    BY DEF SeriesState
  <2> HIDE DEF a, b
  <2>3. SeriesState(S, queue) = IF a THEN "in_library" ELSE IF b THEN "partial"
                                ELSE IF queue # <<>> THEN "downloading" ELSE "queued"
    BY <2>1, <2>2
  <2>4. Rank("in_library") = 2 /\ Rank("partial") = 1 /\ Rank("downloading") = 0 /\ Rank("queued") = 0
    BY DEF Rank
  <2>5. /\ Rank(SeriesState(S, queue)) = IF a THEN 2 ELSE IF b THEN 1 ELSE 0
        /\ SeriesState(S, queue) = "in_library" => a
    BY <2>3, <2>4
  <2> QED
    BY <2>5 DEF a, b
<1>2. /\ \A n \in SeasonNumbers : season[n].files \in Nat /\ season[n].episodes \in Nat
      /\ DOMAIN season = SeasonNumbers
      /\ \A n \in SeasonNumbers : DOMAIN season[n] = {"monitored", "aired", "files", "episodes"}
  BY StatesAssumption DEF StatesTypeOK
<1>3. FilesNeverSetBack
  <2> SUFFICES ASSUME NEW n \in SeasonNumbers, season[n].files < season[n].episodes
               PROVE  Rank(SeriesState([season EXCEPT ![n].files = @ + 1], queue))
                        >= Rank(SeriesState(season, queue))
    BY DEF FilesNeverSetBack
  <2> DEFINE T == [season EXCEPT ![n].files = @ + 1]
  <2>1. \A k \in SeasonNumbers :
            /\ T[k].monitored = season[k].monitored /\ T[k].aired = season[k].aired
            /\ T[k].episodes = season[k].episodes
            /\ T[k].files = IF k = n THEN season[k].files + 1 ELSE season[k].files
    BY <1>2
  <2> HIDE DEF T
  <2>2. AiredSeasons(T) = AiredSeasons(season) /\ AiredSeasons(T) \subseteq SeasonNumbers
    BY <2>1 DEF AiredSeasons
  <2>3. \A k \in SeasonNumbers : /\ Complete(season[k]) => Complete(T[k])
                                 /\ season[k].files > 0 => T[k].files > 0
    BY <1>2, <2>1 DEF Complete
  <2>4. All(season) => All(T)
    BY <2>2, <2>3
  <2>5. Some(season) => Some(T) \/ All(T)
    BY <2>2, <2>3
  <2> HIDE DEF All, Some
  <2>6. Rank(SeriesState(T, queue)) >= Rank(SeriesState(season, queue))
    BY <1>1, <2>4, <2>5
  <2> QED
    BY <2>6 DEF T
<1>4. LibraryHasFiles
  <2> SUFFICES ASSUME All(season) PROVE \E n \in SeasonNumbers : season[n].files > 0
    BY <1>1 DEF LibraryHasFiles
  <2>1. PICK k \in AiredSeasons(season) : Complete(season[k])
    OBVIOUS
  <2>2. k \in SeasonNumbers
    BY DEF AiredSeasons
  <2>3. season[k].files > 0
    BY <1>2, <2>1, <2>2 DEF Complete
  <2> QED
    BY <2>2, <2>3
<1> QED
  BY <1>3, <1>4

\* The key of a record says what is counted for it.
LEMMA KeyTells ==
    ASSUME QueueFits, NEW i \in DOMAIN queue, NEW k \in DOMAIN queue,
           ClusterKeys(queue[i]) = ClusterKeys(queue[k]), ClusterKeys(queue[i]) # {}
    PROVE  queue[i].size = queue[k].size /\ queue[i].left = queue[k].left
<1>1. ASSUME NEW e, ClusterKeys(e) # {}
      PROVE  ClusterKeys(e) = IF e.download # NoDownload THEN {<<e.download>>} ELSE {<<"episode", e.label>>}
  BY <1>1 DEF ClusterKeys
<1>2. \A d, l : <<d>> # <<"episode", l>>
  <2> TAKE d, l
  <2>1. Len(<<d>>) = 1 /\ Len(<<"episode", l>>) = 2
    OBVIOUS
  <2> QED
    BY <2>1
<1>3. ClusterKeys(queue[i]) # {} /\ ClusterKeys(queue[k]) # {}
  OBVIOUS
<1>4. CASE queue[i].download # NoDownload /\ queue[k].download # NoDownload
  <2>1. <<queue[i].download>> = <<queue[k].download>>
    BY <1>1, <1>3, <1>4
  <2>2. queue[i].download = queue[k].download
    BY <2>1
  <2> QED
    BY <1>4, <2>2 DEF QueueFits
<1>5. CASE queue[i].download = NoDownload /\ queue[k].download = NoDownload
  <2>1. <<"episode", queue[i].label>> = <<"episode", queue[k].label>>
    BY <1>1, <1>3, <1>5
  <2>2. queue[i].label = queue[k].label
    BY <2>1
  <2> QED
    BY <2>2 DEF QueueFits
<1>6. CASE queue[i].download # NoDownload /\ queue[k].download = NoDownload
  BY <1>1, <1>2, <1>3, <1>6
<1>7. CASE queue[i].download = NoDownload /\ queue[k].download # NoDownload
  BY <1>1, <1>2, <1>3, <1>7
<1> QED
  BY <1>4, <1>5, <1>6, <1>7

LEMMA OneDownload ==
    ASSUME NEW q \in Seq(Records), q # <<>>, NEW d, d # NoDownload, NEW size \in Nat,
           \A i \in DOMAIN q : q[i].download = d /\ q[i].size = size
    PROVE  Totals(q).size = size
<1> DEFINE n == [i \in DOMAIN q |-> q[i].size]
<1>1. DOMAIN q = 1..Len(q) /\ Len(q) \in Nat /\ 1 \in DOMAIN q
  OBVIOUS
<1>2. \A i \in DOMAIN q : ClusterKeys(q[i]) = {<<d>>}
  BY DEF ClusterKeys
<1>3. Counted(q) = {1}
  <2>1. \A i : i \in Counted(q) <=>
            /\ i \in DOMAIN q /\ ClusterKeys(q[i]) # {}
            /\ \A k \in 1..(i - 1) : ClusterKeys(q[k]) # ClusterKeys(q[i])
    BY DEF Counted
  <2>2. 1 \in Counted(q)
    <3>1. 1..(1 - 1) = {}
      OBVIOUS
    <3>2. ClusterKeys(q[1]) # {}
      BY <1>1, <1>2
    <3> QED
      BY <1>1, <2>1, <3>1, <3>2
  <2>3. ASSUME NEW i \in Counted(q) PROVE i = 1
    <3>1. i \in 1..Len(q)
      BY <1>1, <2>1
    <3>2. CASE i # 1
      <4>1. 1 \in 1..(i - 1)
        BY <3>1, <3>2
      <4> QED
        BY <1>1, <1>2, <2>1, <3>1, <4>1
    <3> QED
      BY <3>2
  <2> QED
    BY <2>2, <2>3
<1>4. n[1] = size
  BY <1>1
<1> HIDE DEF n
<1>5. UNION {{i} \X (1..n[i]) : i \in {1}} = {1} \X (1..size)
  BY <1>4
<1>6. IsFiniteSet({1}) /\ Cardinality({1}) = 1
  BY FS_Singleton
<1>7. IsFiniteSet(1..size) /\ Cardinality(1..size) = size
  <2>1. 1 \in Int /\ size \in Int
    OBVIOUS
  <2>2. IsFiniteSet(1..size) /\ Cardinality(1..size) = IF 1 > size THEN 0 ELSE size - 1 + 1
    BY <2>1, FS_Interval
  <2> QED
    BY <2>2
<1>8. Cardinality({1} \X (1..size)) = size
  <2>1. Cardinality({1} \X (1..size)) = Cardinality({1}) * Cardinality(1..size)
    BY <1>6, <1>7, FS_Product
  <2> QED
    BY <1>6, <1>7, <2>1
<1>9. Units(Counted(q), n) = size
  <2>1. Units({1}, n) = Cardinality(UNION {{i} \X (1..n[i]) : i \in {1}})
    BY DEF Units
  <2> QED
    BY <1>3, <1>5, <1>8, <2>1
<1> QED
  BY <1>9 DEF Totals, n

LEMMA SizesAre ==
    ASSUME QueueFits
    PROVE  SizesCountOnce
<1> DEFINE n == [i \in DOMAIN queue |-> queue[i].size]
           l == [i \in DOMAIN queue |-> queue[i].left]
           r == Reverse(queue)
           rn == [i \in DOMAIN r |-> r[i].size]
           rl == [i \in DOMAIN r |-> r[i].left]
<1>1. /\ queue \in Seq(Records) /\ DOMAIN queue = 1..Len(queue) /\ Len(queue) \in Nat
      /\ \A i \in DOMAIN queue : queue[i] \in Records
  BY DEF QueueFits
<1>2. \A i \in DOMAIN queue : queue[i].size \in Nat /\ queue[i].left \in Nat
  BY <1>1, StatesAssumption DEF Records
<1>3. r = [i \in DOMAIN queue |-> queue[(Len(queue) - i) + 1]]
  BY <1>1 DEF Reverse
<1>4. DOMAIN r = DOMAIN queue
  BY <1>3
<1>5. \A i \in DOMAIN queue : (Len(queue) - i) + 1 \in DOMAIN queue
  BY <1>1
<1>6. n \in [DOMAIN queue -> Nat] /\ l \in [DOMAIN queue -> Nat]
  BY <1>2
<1>7. \A i \in DOMAIN queue : /\ rn[i] = n[(Len(queue) - i) + 1]
                              /\ rl[i] = l[(Len(queue) - i) + 1]
  BY <1>3, <1>5
<1> HIDE DEF r
<1>8. rn \in [DOMAIN queue -> Nat] /\ rl \in [DOMAIN queue -> Nat]
  <2>1. rn = [i \in DOMAIN queue |-> n[(Len(queue) - i) + 1]]
        /\ rl = [i \in DOMAIN queue |-> l[(Len(queue) - i) + 1]]
    BY <1>4, <1>7
  <2> QED
    BY <1>5, <1>6, <2>1
<1>9. \A i, k \in DOMAIN queue :
          ClusterKeys(queue[i]) = ClusterKeys(queue[k]) /\ ClusterKeys(queue[i]) # {}
             => n[i] = n[k] /\ l[i] = l[k]
  BY KeyTells
<1> HIDE DEF n, l, rn, rl
<1>10. Units(Counted(r), rn) = Units(Counted(queue), n)
  BY <1>1, <1>6, <1>7, <1>8, <1>9, UnitsOfReverse DEF r
<1>11. Units(Counted(r), rl) = Units(Counted(queue), l)
  BY <1>1, <1>6, <1>7, <1>8, <1>9, UnitsOfReverse DEF r
<1>12. /\ Totals(queue).size = Totals(r).size
       /\ Totals(queue).left = Totals(r).left
  <2>1. /\ Totals(queue) = [size |-> Units(Counted(queue), n), left |-> Units(Counted(queue), l)]
        /\ Totals(r) = [size |-> Units(Counted(r), rn), left |-> Units(Counted(r), rl)]
    BY DEF Totals, n, l, rn, rl
  <2> QED
    BY <1>10, <1>11, <2>1
<1>13. ASSUME NEW d \in DownloadIds, NEW size \in Sizes, queue # <<>>,
              \A e \in Range(queue) : e.download = d /\ e.size = size
       PROVE  Totals(queue).size = size
  <2>1. d # NoDownload /\ size \in Nat
    BY StatesAssumption
  <2>2. \A i \in DOMAIN queue : queue[i] \in Range(queue)
    BY <1>1, RangeIs
  <2>3. \A i \in DOMAIN queue : queue[i].download = d /\ queue[i].size = size
    BY <1>13, <2>2
  <2> QED
    BY <1>1, <1>13, <2>1, <2>3, OneDownload
<1> QED
  BY <1>12, <1>13 DEF SizesCountOnce, r

LEMMA EpisodeIs ==
    ASSUME NEW e \in Records
    PROVE  /\ EpisodeState(e) = "ready" => 200 * e.left <= e.size
           /\ Progress(e.size, e.left) > 0 /\ 200 * e.left > e.size
                 => EpisodeState(e) \in {"downloading", "queued"}
<1>1. e.size \in Nat /\ e.left \in Nat
  BY StatesAssumption DEF Records
<1> DEFINE percent == Progress(e.size, e.left)
<1>2. /\ percent = 100 => 200 * e.left <= e.size
      /\ percent \in Int
  BY <1>1, HundredIsLoaded
<1>3. EpisodeState(e) = IF percent = 100 \/ (e.left = 0 /\ e.size > 0) THEN "ready"
                        ELSE IF e.status = "downloading" THEN "downloading"
                        ELSE IF e.status = "paused" \/ percent > 0 THEN "queued" ELSE "searching"
  BY DEF EpisodeState
<1> HIDE DEF percent
<1>4. ASSUME EpisodeState(e) = "ready" PROVE 200 * e.left <= e.size
  <2>1. percent = 100 \/ (e.left = 0 /\ e.size > 0)
    BY <1>3, <1>4
  <2> QED
    BY <1>1, <1>2, <2>1
<1>5. ASSUME percent > 0, 200 * e.left > e.size PROVE EpisodeState(e) \in {"downloading", "queued"}
  <2>1. ~(percent = 100 \/ (e.left = 0 /\ e.size > 0))
    BY <1>1, <1>2, <1>5
  <2> QED
    BY <1>3, <1>5, <2>1
<1> QED
  BY <1>4, <1>5 DEF percent

LEMMA CardsAre ==
    ASSUME StatesTypeOK
    PROVE  BegunIsNotSearching /\ ReadyIsLoaded
<1> DEFINE states == {EpisodeState(e) : e \in Range(queue)}
           Some == states \intersect {"downloading", "queued"} # {}
           All == queue # <<>> /\ states = {"ready"}
<1>1. CardState(queue) = CASE All -> "almost_ready" [] Some -> "downloading" [] OTHER -> "searching"
  BY DEF CardState
<1>2. ~(All /\ Some)
  OBVIOUS
<1>3. \A e \in Range(queue) : e \in Records
  BY DEF StatesTypeOK
<1>4. \A e \in Range(queue) : EpisodeState(e) \in states
  OBVIOUS
<1> HIDE DEF states
<1>5. BegunIsNotSearching
  <2> SUFFICES ASSUME NEW e \in Range(queue), Progress(e.size, e.left) > 0, 200 * e.left > e.size
               PROVE  CardState(queue) # "searching"
    BY DEF BegunIsNotSearching
  <2>1. EpisodeState(e) \in {"downloading", "queued"}
    BY <1>3, EpisodeIs
  <2>2. Some
    BY <1>4, <2>1
  <2> HIDE DEF All, Some
  <2> QED
    BY <1>1, <1>2, <2>2
<1>6. ReadyIsLoaded
  <2> SUFFICES ASSUME CardState(queue) = "almost_ready", NEW e \in Range(queue)
               PROVE  200 * e.left <= e.size
    BY DEF ReadyIsLoaded
  <2>1. All
    <3> HIDE DEF All, Some
    <3> QED
      BY <1>1, <1>2
  <2>2. EpisodeState(e) = "ready"
    BY <1>4, <2>1
  <2> QED
    BY <1>3, <2>2, EpisodeIs
<1> QED
  BY <1>5, <1>6

\* However many episodes a series has in the queue, one more file never sets it back, a
\* download counts once in whatever order its records are listed, what has begun is not
\* shown as searched for, and what is shown as almost ready has half a percent left at most.
THEOREM PagesTellTheStateAlways == StatesSpec => []PagesTellTheState
<1>1. StatesInv => PagesTellTheState
  BY HereIs, SizesAre, CardsAre DEF StatesInv, PagesTellTheState
<1> QED
  BY StatesInit_Inv, StatesNext_Inv, <1>1, PTL DEF StatesSpec
=============================================================================
