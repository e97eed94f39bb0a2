-------------------------- MODULE MCMediaLifecycle --------------------------
EXTENDS MediaLifecycle, TLC

\* What can happen in a library of films which users protect by hand only: the
\* actions that the other traffic and seasons would add are disabled there.
FilmsNext ==
    \/ BeginScan \/ ReadGuards \/ WriteMovies \/ EndPasses
    \/ \E l \in Libraries : FetchLibrary(l) \/ PruneLibrary(l)
    \/ Execute
    \/ \E i \in Items, d \in Keeps : AdminKeep(i, d)
    \/ Tick \/ PlexRefresh
    \/ \E i \in Items : PlexGlitch(i)
    \/ Failure

FilmsSpec ==
    /\ Init /\ [][FilmsNext]_vars
    /\ WF_vars(Scan \/ Execute)
    /\ WF_vars(Boot)
=============================================================================
