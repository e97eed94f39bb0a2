---------------------------- MODULE MCMediaWorlds ----------------------------
(***************************************************************************)
(* The lifecycle in three small worlds: a movie and all the traffic, a     *)
(* season with a link and a show keep at a time, and titles in and outside *)
(* the delete roots and without a path, whose files vanish and whose       *)
(* passes may be dry.  A behaviour is a behaviour of one of them; titles of the   *)
(* other worlds are in no library.                                         *)
(***************************************************************************)
EXTENDS MediaLifecycle, TLC

\* Web workers are interchangeable: no definition tells one from another.
WorkerSymmetry == Permutations(Workers)

VARIABLE part

Film ==
    INSTANCE MediaLifecycle WITH
        Movies <- {"film"}, Seasons <- {}, Outside <- Items \ Inside,
        DryRuns <- {FALSE}, Traffic <- Traffic \ {"show", "vanish"}

Show ==
    INSTANCE MediaLifecycle WITH
        Movies <- {}, Seasons <- {"season"}, Outside <- Items \ Inside,
        DryRuns <- {FALSE}, Traffic <- {"link", "show"}, MaxFaults <- 0

Files ==
    INSTANCE MediaLifecycle WITH
        Seasons <- {"nopath"}, Traffic <- {"vanish"}, MaxTime <- 2, MaxRows <- 1

MCVars == <<part, vars>>

MCInit ==
    \/ part = "film" /\ Film!Init
    \/ part = "show" /\ Show!Init
    \/ part = "files" /\ Files!Init

\* One web request at a time.
Filming ==
    /\ part = "film" /\ Film!Next /\ UNCHANGED part
    /\ \A v, w \in Workers : req'[v] = NoRequest \/ req'[w] = NoRequest \/ v = w
\* A link and a show keep at a time.
Showing ==
    /\ part = "show" /\ Show!Next /\ UNCHANGED part
    /\ \A v, w \in Workers :
          v # w /\ req'[v] # NoRequest /\ req'[w] # NoRequest => req'[v].kind # req'[w].kind
Filing  == part = "files" /\ Files!Next /\ UNCHANGED part

MCSpec == MCInit /\ [][Filming \/ Showing \/ Filing]_MCVars
=============================================================================
