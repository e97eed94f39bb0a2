------------------------------- MODULE JobRuns -------------------------------
(***************************************************************************)
(* The lease that keeps two scans, or two recommendation refreshes, from   *)
(* running together: a row per run in scan_runs (refresh_runs), a worker   *)
(* that does the job and a heartbeat thread that renews the row meanwhile. *)
(*                                                                         *)
(* A row is old after a number of heartbeat intervals, and old rows block  *)
(* nobody, so that a crash does not end all scanning.  One tick of this    *)
(* model is one interval; a row keeps its silence, not its timestamp.      *)
(***************************************************************************)
EXTENDS Naturals

CONSTANTS
    Kinds,          \* who starts runs of this table: "scheduled", "manual", "refresh"
    Stale,          \* heartbeat intervals after which a row is old
    MaxMisses,      \* heartbeats in a row that may fail
    Failures,       \* what else can fail
    MaxRuns, MaxFaults      \* bounds

ASSUME LeaseAssumption ==
    /\ Stale \in Nat /\ MaxMisses \in Nat /\ MaxRuns \in Nat /\ MaxFaults \in Nat
    \* _JOB_HEARTBEAT_INTERVAL_SECONDS < _JOB_HEARTBEAT_STALE_SECONDS, and more
    \* when heartbeats may fail.
    /\ MaxMisses + 1 < Stale

Runs == 1..MaxRuns

VARIABLES
    up,         \* the process runs
    lease,      \* rows: "none", "running" or "finished" (finished_at is set)
    silence,        \* ticks since heartbeat_at, Stale for anything older
    kind,       \* who started the run
    worker,     \* the thread that does the job
    heart,      \* the thread that renews the row
    due,        \* runs whose heart still has to wake in this tick
    missed,     \* failed heartbeats since the last good one
    faults      \* failures so far

vars == <<up, lease, silence, kind, worker, heart, due, missed, faults>>

TypeOK ==
    /\ up \in BOOLEAN /\ faults \in Nat
    /\ lease \in [Runs -> {"none", "running", "finished"}]
    /\ silence \in [Runs -> 0..Stale]
    /\ kind \in [Runs -> Kinds \union {"none"}]
    /\ worker \in [Runs -> {"none", "opening", "working", "over", "lost"}]
    /\ heart \in [Runs -> {"none", "opening", "beating", "stopping", "over"}]
    /\ due \subseteq Runs
    /\ missed \in [Runs -> 0..MaxMisses]

Init ==
    /\ up = TRUE /\ faults = 0
    /\ lease = [r \in Runs |-> "none"] /\ silence = [r \in Runs |-> 0]
    /\ kind = [r \in Runs |-> "none"]
    /\ worker = [r \in Runs |-> "none"] /\ heart = [r \in Runs |-> "none"]
    /\ due = {} /\ missed = [r \in Runs |-> 0]

Fault(f) == f \in Failures /\ faults < MaxFaults /\ faults' = faults + 1

\* Mutated form: a row is old one interval early.
LiveEarly(r) == lease[r] = "running" /\ silence[r] < Stale - 1

\* A row counts as running while it is unfinished and its heartbeat recent.
Live(r) == lease[r] = "running" /\ silence[r] < Stale

Working(r) == worker[r] \in {"opening", "working"}

\* Row ids grow.
IsNext(r) == lease[r] = "none" /\ \A q \in Runs : q < r => lease[q] # "none"

\* _start_job_run under BEGIN IMMEDIATE, and the handler that calls it.  The
\* scheduled scan runs on the scheduler's own thread and connection (one
\* instance at a time); the others start threads that open one first.
Claim(k, r) ==
    /\ up /\ IsNext(r)
    /\ \A q \in Runs : ~Live(q)
    /\ k = "scheduled" => \A q \in Runs : Working(q) => kind[q] # "scheduled"
    /\ lease' = [lease EXCEPT ![r] = "running"]
    /\ silence' = [silence EXCEPT ![r] = 0]
    /\ kind' = [kind EXCEPT ![r] = k]
    /\ worker' = [worker EXCEPT ![r] = IF k = "scheduled" THEN "working" ELSE "opening"]
    /\ heart' = [heart EXCEPT ![r] = "opening"]
    /\ UNCHANGED <<up, due, missed, faults>>

\* Between the claim and the threads the refresh handler reads the Plex
\* settings.  It gives the row back if there are none; an error leaves it.
ClaimInVain(r) ==
    /\ up /\ IsNext(r) /\ "refresh" \in Kinds
    /\ \A q \in Runs : ~Live(q)
    /\ \/ lease' = [lease EXCEPT ![r] = "finished"] /\ UNCHANGED faults
       \/ Fault("handler") /\ lease' = [lease EXCEPT ![r] = "running"]
    /\ silence' = [silence EXCEPT ![r] = 0]
    /\ kind' = [kind EXCEPT ![r] = "refresh"]
    /\ worker' = [worker EXCEPT ![r] = "over"]
    /\ heart' = [heart EXCEPT ![r] = "over"]
    /\ UNCHANGED <<up, due, missed>>

-----------------------------------------------------------------------------
(* The heartbeat thread. *)

OpenHeart(r) ==
    /\ heart[r] = "opening"
    /\ \/ /\ heart' = [heart EXCEPT ![r] = IF worker[r] = "over" THEN "stopping" ELSE "beating"]
          /\ UNCHANGED faults
       \/ Fault("heart") /\ heart' = [heart EXCEPT ![r] = "over"]
    /\ UNCHANGED <<up, lease, silence, kind, worker, due, missed>>

\* A heartbeat on its way when the worker stops the thread still lands.
Beat(r) ==
    /\ heart[r] \in {"beating", "stopping"} /\ r \in due
    /\ silence' = IF lease[r] = "running" THEN [silence EXCEPT ![r] = 0] ELSE silence
    /\ missed' = [missed EXCEPT ![r] = 0]
    /\ due' = due \ {r}
    /\ UNCHANGED <<up, lease, kind, worker, heart, faults>>

\* The write fails (a locked database): logged, and tried again next time.
MissBeat(r) ==
    /\ heart[r] \in {"beating", "stopping"} /\ r \in due
    /\ missed[r] < MaxMisses
    /\ missed' = [missed EXCEPT ![r] = @ + 1]
    /\ due' = due \ {r}
    /\ UNCHANGED <<up, lease, silence, kind, worker, heart, faults>>

StopHeart(r) ==
    /\ heart[r] = "stopping"
    /\ heart' = [heart EXCEPT ![r] = "over"]
    /\ due' = due \ {r}
    /\ UNCHANGED <<up, lease, silence, kind, worker, missed, faults>>

-----------------------------------------------------------------------------
(* The worker. *)

\* The connection is opened outside the try block: a failure ends the thread
\* and tells nobody, the heart included.
OpenWorker(r) ==
    /\ worker[r] = "opening"
    /\ \/ worker' = [worker EXCEPT ![r] = "working"] /\ UNCHANGED faults
       \/ Fault("worker") /\ worker' = [worker EXCEPT ![r] = "lost"]
    /\ UNCHANGED <<up, lease, silence, kind, heart, due, missed>>

\* Mutated form: the heart is not told to stop.
FinishHeartGoesOn(r) ==
    /\ worker[r] = "working"
    /\ worker' = [worker EXCEPT ![r] = "over"]
    /\ \/ lease' = [lease EXCEPT ![r] = "finished"] /\ UNCHANGED faults
       \/ Fault("finish") /\ UNCHANGED lease
    /\ UNCHANGED <<up, silence, kind, heart, due, missed>>

\* The job ends, well or not, and the row is finished; or that fails too.
\* Either way the heart is told to stop.
Finish(r) ==
    /\ worker[r] = "working"
    /\ worker' = [worker EXCEPT ![r] = "over"]
    /\ \/ lease' = [lease EXCEPT ![r] = "finished"] /\ UNCHANGED faults
       \/ Fault("finish") /\ UNCHANGED lease
    /\ heart' = [heart EXCEPT ![r] = IF @ = "beating" THEN "stopping" ELSE @]
    /\ UNCHANGED <<up, silence, kind, due, missed>>

-----------------------------------------------------------------------------
\* A tick is over when every heart that had to wake has, and when threads that
\* open a connection or were told to stop have done so.
Tick ==
    /\ due = {}
    /\ \A r \in Runs : worker[r] # "opening" /\ heart[r] \notin {"opening", "stopping"}
    /\ silence' = [r \in Runs |-> IF lease[r] = "running" /\ silence[r] < Stale THEN silence[r] + 1 ELSE silence[r]]
    /\ due' = {r \in Runs : heart[r] = "beating"}
    /\ UNCHANGED <<up, lease, kind, worker, heart, missed, faults>>

Crash ==
    /\ up /\ Fault("crash")
    /\ up' = FALSE
    /\ worker' = [r \in Runs |-> IF lease[r] = "none" THEN "none" ELSE "over"]
    /\ heart' = [r \in Runs |-> IF lease[r] = "none" THEN "none" ELSE "over"]
    /\ due' = {}
    /\ UNCHANGED <<lease, silence, kind, missed>>

\* Nothing at boot touches the rows: the old lease has to lapse.
Boot ==
    /\ ~up /\ up' = TRUE
    /\ UNCHANGED <<lease, silence, kind, worker, heart, due, missed, faults>>

ThreadStep(r) ==
    OpenHeart(r) \/ Beat(r) \/ MissBeat(r) \/ StopHeart(r) \/ OpenWorker(r)

Next ==
    \/ Tick \/ Crash \/ Boot
    \/ \E r \in Runs : ThreadStep(r) \/ Finish(r) \/ ClaimInVain(r)
    \/ \E r \in Runs, k \in Kinds : Claim(k, r)

Spec == Init /\ [][Next]_vars

\* Threads are scheduled and time passes; no job is assumed to end.
FairSpec ==
    /\ Spec
    /\ WF_vars(Tick)
    /\ \A r \in Runs : WF_vars(ThreadStep(r))

-----------------------------------------------------------------------------
(* Properties. *)

\* At most one worker is at the job, so that scanner and executor need no lock
\* against themselves.
OneRunAtATime == \A q, r \in Runs : Working(q) /\ Working(r) => q = r

\* The table is what SingleRun promises.
Abstract == INSTANCE SingleRun WITH
    begun   <- {r \in Runs : lease[r] # "none"},
    running <- {r \in Runs : Working(r)}

LeaseIsSingleRun == Abstract!Spec

\* A row whose worker is gone (crashed, or unable to finish it) stops blocking, unless
\* the worker went before it reached its try block: nobody stops its heart then.
LeaseReleased ==
    \A r \in Runs : (Live(r) /\ ~Working(r)) ~> (~Live(r) \/ worker[r] = "lost")
=============================================================================
