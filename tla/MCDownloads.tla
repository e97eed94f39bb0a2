----------------------------- MODULE MCDownloads -----------------------------
EXTENDS Downloads, TLC

\* Every link is for the one title.
OneTitle == [k \in Tokens |-> CHOOSE t \in Titles : TRUE]

\* Web workers are interchangeable: no definition tells one from another.
WorkerSymmetry == Permutations(Workers)
=============================================================================
