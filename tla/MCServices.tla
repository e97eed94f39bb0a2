----------------------------- MODULE MCServices ------------------------------
(***************************************************************************)
(* Deletions by hand, the scanner's judgement of an item, and              *)
(* recommendations, which share no state, checked in one run: a behaviour  *)
(* is one of a single part, and the others rest.  The library comes twice: *)
(* two deletions, or one beside a pass, over one library, and a scan       *)
(* beside a sync over two libraries; and so do the recommendations: two    *)
(* refreshes of one film's picks over days, and the page and the button, a *)
(* refresh and scans on one day.                                           *)
(***************************************************************************)
EXTENDS LibraryDelete, Eligibility, Suggestions, TLC

VARIABLE part

MCVars == <<part, libVars, eligVars, pickVars>>

\* Bounds of the two parts about the library: in the first, two requests or one beside
\* a pass; in the second, a scan that can read every item's history.
OnePass   == Cardinality({j \in Jobs : pass[j] # NoPass}) <= 1
TwoActors ==
    Cardinality({w \in Workers : request[w] # NoRequest})
        + Cardinality({j \in Jobs : pass[j] # NoPass}) <= 2
InFilms(i) == LibraryOf[i] = "films"
FilmsAlone ==
    /\ \A j \in Jobs : pass[j] # NoPass => pass[j].library = "films"
    /\ \A w \in Workers : request[w] # NoRequest => InFilms(request[w].item)
NoRequests  == \A w \in Workers : request[w] = NoRequest
ScansFilms  ==
    pass[ScanJob] # NoPass =>
        /\ pass[ScanJob].library = "films"
        /\ pass[ScanJob].step = "fetched" => pass[ScanJob].fetched = pass[ScanJob].seen

\* Bounds of the two parts about recommendations.
FilmOnly == \A r \in Refreshers : refresh[r].picks \subseteq {"film"}
OneMove  == moves <= 1
Unused(r) == refresh[r] = Resting
ShowUnchanged == held'["show"] = held["show"] /\ ("show" \in queued <=> "show" \in queued')

MCInit ==
    /\ part \in {"library", "passes", "judgement", "refreshing", "showing"}
    /\ LibraryInit /\ EligInit /\ PicksInit
    /\ part # "judgement" => kind = "film"
    /\ part # "showing" => held["show"] = "absent"
    /\ part \notin {"refreshing", "showing"} => held["film"] = "absent"

MCNext ==
    /\ UNCHANGED part
    /\ \/ /\ part = "library" /\ LibraryNext /\ OnePass' /\ TwoActors' /\ FilmsAlone'
          /\ UNCHANGED <<eligVars, pickVars>>
       \/ /\ part = "passes" /\ LibraryNext /\ NoRequests' /\ ScansFilms'
          /\ UNCHANGED <<eligVars, pickVars>>
       \/ part = "judgement" /\ EligNext /\ UNCHANGED <<libVars, pickVars>>
       \/ /\ part = "refreshing" /\ PicksNext
          /\ FilmOnly' /\ OneMove' /\ ShowUnchanged
          /\ UNCHANGED <<libVars, eligVars>>
       \/ /\ part = "showing" /\ PicksNext
          /\ Unused("r2")' /\ hour' = hour
          /\ UNCHANGED <<libVars, eligVars>>

MCSpec == MCInit /\ [][MCNext]_MCVars

\* The library passes alone, and no library with two of them at once.
Apart == \A j, k \in Jobs :
    j # k /\ pass[j] # NoPass /\ pass[k] # NoPass => pass[j].library # pass[k].library
ApartSpec == MCInit /\ part = "passes" /\ [][MCNext /\ Apart']_MCVars

\* Requests are interchangeable: no definition tells one from another.
WorkerSymmetry == Permutations(Workers)

\* Every film in one library, a season in another.
LibraryOfDef == [i \in Items |-> IF i = "season" THEN "shows" ELSE "films"]
=============================================================================
