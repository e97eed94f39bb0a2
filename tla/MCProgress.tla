----------------------------- MODULE MCProgress ------------------------------
(***************************************************************************)
(* The three parts whose promises are about progress: the lockout of       *)
(* logins, the newsletter and the lease of scans and refreshes.  They      *)
(* share no state: a behaviour is a behaviour of one of them, and the      *)
(* others rest.                                                            *)
(***************************************************************************)
EXTENDS JobRuns, Lockout, Newsletter

VARIABLE part

MCVars == <<part, vars, lockVars, letterVars>>

MCInit ==
    /\ part \in {"lease", "lockout", "newsletter"} /\ Init /\ LockInit /\ LetterInit
    /\ part # "newsletter" => ~picks /\ Active = {}

Leasing == part = "lease" /\ Next /\ UNCHANGED <<part, lockVars, letterVars>>
Locking == part = "lockout" /\ LockNext /\ UNCHANGED <<part, vars, letterVars>>
Sending == part = "newsletter" /\ LetterNext /\ UNCHANGED <<part, vars, lockVars>>

\* What the fair specifications of the three parts assume, and less: that some step of time
\* or of a thread is taken if one stays possible.
Progress ==
    \/ part = "lease" /\ (Tick \/ \E r \in Runs : ThreadStep(r))
       /\ UNCHANGED <<part, lockVars, letterVars>>
    \/ part = "lockout" /\ LockTick /\ UNCHANGED <<part, vars, letterVars>>
    \/ part = "newsletter" /\ SendStep("scan") /\ UNCHANGED <<part, vars, lockVars>>

MCFairSpec ==
    MCInit /\ [][Leasing \/ Locking \/ Sending]_MCVars /\ WF_MCVars(Progress)

\* _LOCK_RULES in small: two thresholds, the second with a longer lock,
\* which lasts as long as old failures count, as in the code.
LockRulesDef == {<<2, 1>>, <<3, 2>>}
=============================================================================
