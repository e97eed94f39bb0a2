---------------------------- MODULE JobRunsProofs ----------------------------
(***************************************************************************)
(* The lease excludes a second run for every stale threshold and every     *)
(* number of runs, as long as the heart of each run gets its connection    *)
(* and never misses Stale - 1 heartbeats in a row.                         *)
(***************************************************************************)
EXTENDS JobRuns, TLAPS

HeartsOpen == "heart" \notin Failures

\* A worker at its job holds an unfinished row and has a heart.
Leased ==
    \A r \in Runs : Working(r) =>
        lease[r] = "running" /\ heart[r] \in {"opening", "beating"}

\* That row is as old as the heartbeats missed, and one more while the heart
\* has yet to wake.
Fresh ==
    \A r \in Runs : Working(r) =>
        silence[r] <= missed[r] + (IF r \in due THEN 1 ELSE 0)

Inv == TypeOK /\ Leased /\ Fresh /\ OneRunAtATime

-----------------------------------------------------------------------------
\* At the start there is no run.
LEMMA JobInit == Init => Inv
BY LeaseAssumption DEF Init, Inv, TypeOK, Leased, Fresh, OneRunAtATime, Working, Runs

\* No working row is ever old: it blocks every claim.
LEMMA WorkingIsLive ==
    ASSUME Inv, NEW r \in Runs, Working(r)
    PROVE  Live(r)
<1>1. silence[r] <= missed[r] + 1 /\ missed[r] \in Nat /\ missed[r] <= MaxMisses /\ silence[r] \in Nat
  BY LeaseAssumption DEF Inv, Fresh, TypeOK
<1>2. silence[r] < Stale
  BY <1>1, LeaseAssumption
<1> QED
  BY <1>2 DEF Inv, Leased, Live

\* Every thread of every run keeps the invariant.
LEMMA ThreadStepInv ==
    ASSUME Inv, HeartsOpen, NEW r \in Runs, ThreadStep(r) \/ Finish(r)
    PROVE  Inv'
<1> USE LeaseAssumption DEF Inv, TypeOK, Fault
<1>1. CASE OpenHeart(r)
  BY <1>1 DEF OpenHeart, HeartsOpen, Leased, Fresh, OneRunAtATime, Working
<1>2. CASE Beat(r)
  <2>1. Working(r) => lease[r] = "running"
    BY DEF Leased
  <2>2. TypeOK'
    BY <1>2 DEF Beat
  <2>3. Leased' /\ OneRunAtATime'
    BY <1>2 DEF Beat, Leased, OneRunAtATime, Working
  <2>4. Fresh'
    <3> SUFFICES ASSUME NEW q \in Runs, Working(q)
                 PROVE  silence'[q] <= missed'[q] + (IF q \in due' THEN 1 ELSE 0)
      BY <1>2 DEF Beat, Fresh, Working
    <3>1. CASE q = r
      BY <1>2, <2>1, <3>1 DEF Beat
    <3>2. CASE q # r
      BY <1>2, <3>2 DEF Beat, Fresh
    <3> QED
      BY <3>1, <3>2
  <2> QED
    BY <2>2, <2>3, <2>4
<1>3. CASE MissBeat(r)
  <2>1. TypeOK' /\ Leased' /\ OneRunAtATime'
    BY <1>3 DEF MissBeat, Leased, OneRunAtATime, Working
  <2>2. Fresh'
    <3> SUFFICES ASSUME NEW q \in Runs, Working(q)
                 PROVE  silence'[q] <= missed'[q] + (IF q \in due' THEN 1 ELSE 0)
      BY <1>3 DEF MissBeat, Fresh, Working
    <3>1. silence[q] <= missed[q] + (IF q \in due THEN 1 ELSE 0)
      BY DEF Fresh
    <3>2. CASE q = r
      BY <1>3, <3>1, <3>2 DEF MissBeat
    <3>3. CASE q # r
      BY <1>3, <3>1, <3>3 DEF MissBeat
    <3> QED
      BY <3>2, <3>3
  <2> QED
    BY <2>1, <2>2
<1>4. CASE StopHeart(r)
  <2>1. ~Working(r)
    BY <1>4 DEF StopHeart, Leased
  <2> QED
    BY <1>4, <2>1 DEF StopHeart, Leased, Fresh, OneRunAtATime, Working
<1>5. CASE OpenWorker(r)
  BY <1>5 DEF OpenWorker, Leased, Fresh, OneRunAtATime, Working
<1>6. CASE Finish(r)
  BY <1>6 DEF Finish, Leased, Fresh, OneRunAtATime, Working
<1> QED
  BY <1>1, <1>2, <1>3, <1>4, <1>5, <1>6 DEF ThreadStep

\* A claim finds no working run, so the new one is alone.
LEMMA ClaimInv ==
    ASSUME Inv, NEW r \in Runs, ClaimInVain(r) \/ \E k \in Kinds : Claim(k, r)
    PROVE  Inv' /\ {q \in Runs : Working(q)} = {}
<1> USE LeaseAssumption DEF Inv, TypeOK, Fault
<1>1. \A q \in Runs : ~Working(q)
  BY WorkingIsLive DEF Claim, ClaimInVain
<1>2. CASE ClaimInVain(r)
  BY <1>1, <1>2 DEF ClaimInVain, Leased, Fresh, OneRunAtATime, Working
<1>3. ASSUME NEW k \in Kinds, Claim(k, r) PROVE Inv'
  BY <1>1, <1>3 DEF Claim, Leased, Fresh, OneRunAtATime, Working
<1> QED
  BY <1>1, <1>2, <1>3

\* So do time, a crash and the restart.
LEMMA WorldInv ==
    ASSUME Inv, Tick \/ Crash \/ Boot
    PROVE  Inv'
<1> USE LeaseAssumption DEF Inv, TypeOK, Fault
<1>1. CASE Tick
  <2>1. TypeOK'
    BY <1>1 DEF Tick
  <2>2. Leased' /\ OneRunAtATime'
    BY <1>1 DEF Tick, Leased, OneRunAtATime, Working
  <2>3. Fresh'
    <3> SUFFICES ASSUME NEW q \in Runs, Working(q)
                 PROVE  silence'[q] <= missed'[q] + (IF q \in due' THEN 1 ELSE 0)
      BY <1>1 DEF Tick, Fresh, Working
    <3>1. q \in due' /\ q \notin due
      BY <1>1 DEF Tick, Leased
    <3>2. silence[q] <= missed[q] /\ silence[q] \in Nat /\ missed[q] \in Nat
      BY <3>1 DEF Fresh
    <3>3. silence'[q] <= silence[q] + 1 /\ silence'[q] \in Nat
      BY <1>1, <3>2 DEF Tick
    <3> QED
      BY <1>1, <3>1, <3>2, <3>3 DEF Tick
  <2> QED
    BY <2>1, <2>2, <2>3
<1>2. CASE Crash
  <2>1. TypeOK'
    <3>1. worker' \in [Runs -> {"none", "over"}] /\ heart' \in [Runs -> {"none", "over"}]
      BY <1>2 DEF Crash
    <3>2. /\ worker' \in [Runs -> {"none", "opening", "working", "over", "lost"}]
          /\ heart' \in [Runs -> {"none", "opening", "beating", "stopping", "over"}]
      BY <3>1
    <3>3. up' = FALSE /\ due' = {} /\ faults' = faults + 1 /\ UNCHANGED <<lease, silence, kind, missed>>
      BY <1>2 DEF Crash
    <3>4. up' \in BOOLEAN
      BY <3>3
    <3>5. faults' \in Nat /\ due' \subseteq Runs
      BY <3>3
    <3>6. /\ lease' \in [Runs -> {"none", "running", "finished"}]
          /\ silence' \in [Runs -> 0..Stale]
          /\ kind' \in [Runs -> Kinds \union {"none"}]
          /\ missed' \in [Runs -> 0..MaxMisses]
      BY <3>3
    <3> QED
      BY <3>2, <3>4, <3>5, <3>6
  <2>2. \A q \in Runs : ~Working(q)'
    BY <1>2 DEF Crash, Working
  <2> QED
    BY <2>1, <2>2 DEF Leased, Fresh, OneRunAtATime
<1>3. CASE Boot
  BY <1>3 DEF Boot, Leased, Fresh, OneRunAtATime, Working
<1> QED
  BY <1>1, <1>2, <1>3

\* Every step keeps the invariant.
LEMMA JobStep == HeartsOpen /\ Inv /\ [Next]_vars => Inv'
<1> SUFFICES ASSUME HeartsOpen, Inv, [Next]_vars PROVE Inv'
  OBVIOUS
<1>1. CASE UNCHANGED vars
  BY <1>1 DEF vars, Inv, TypeOK, Leased, Fresh, OneRunAtATime, Working
<1> QED
  BY <1>1, ThreadStepInv, ClaimInv, WorldInv DEF Next

\* At most one worker is at the job, provided hearts get their connections.
THEOREM OneRunAlways == HeartsOpen => (Spec => []OneRunAtATime)
<1> SUFFICES ASSUME HeartsOpen PROVE Spec => []OneRunAtATime
  OBVIOUS
<1>1. Inv => OneRunAtATime
  BY DEF Inv
<1>2. Inv /\ [Next]_vars => Inv'
  BY JobStep
<1> QED
  BY <1>1, <1>2, JobInit, PTL DEF Spec

-----------------------------------------------------------------------------
(* The table of runs implements SingleRun. *)

\* Threads come to life only with a claim, so that every other step ends the
\* run in progress or changes nothing SingleRun sees.
LEMMA OtherStepMaps ==
    ASSUME Inv, Tick \/ Crash \/ Boot \/ \E r \in Runs : ThreadStep(r) \/ Finish(r)
    PROVE  [Abstract!Next]_Abstract!vars
<1> DEFINE before == {r \in Runs : Working(r)}
<1>1. \A r \in Runs : (lease'[r] # "none") <=> (lease[r] # "none")
  BY DEF Tick, Crash, Boot, ThreadStep, OpenHeart, Beat, MissBeat, StopHeart, OpenWorker, Finish,
         Inv, TypeOK, Leased, Working
<1>2. \A r \in Runs : Working(r)' => Working(r)
  BY DEF Tick, Crash, Boot, ThreadStep, OpenHeart, Beat, MissBeat, StopHeart, OpenWorker, Finish,
         Inv, TypeOK, Working
<1>3. before' = before \/ (before # {} /\ before' = {})
  <2>1. \A q, r \in before : q = r
    BY DEF Inv, OneRunAtATime
  <2>2. before' \subseteq before
    BY <1>2
  <2> HIDE DEF before
  <2> QED
    BY <2>1, <2>2
<1> QED
  BY <1>1, <1>3 DEF Abstract!Next, Abstract!End, Abstract!vars

\* A claim begins a run that never began, while none is in progress.
LEMMA ClaimMaps ==
    ASSUME Inv, NEW r \in Runs, ClaimInVain(r) \/ \E k \in Kinds : Claim(k, r)
    PROVE  Abstract!Begin(r)
<1>1. {q \in Runs : Working(q)} = {}
  BY ClaimInv
<1>2. lease[r] = "none" /\ {q \in Runs : lease'[q] # "none"} = {q \in Runs : lease[q] # "none"} \union {r}
  BY DEF Claim, ClaimInVain, IsNext, Inv, TypeOK
<1>3. {q \in Runs : Working(q)'} \in {{r}, {}}
  <2>1. \A q \in Runs : q # r => ~Working(q)'
    BY <1>1 DEF Claim, ClaimInVain, Working, Inv, TypeOK
  <2> QED
    BY <2>1
<1> QED
  BY <1>1, <1>2, <1>3 DEF Abstract!Begin

\* scan_runs and refresh_runs are what SingleRun promises, provided hearts get
\* their connections.
THEOREM ImplementsSingleRun == HeartsOpen => (Spec => LeaseIsSingleRun)
<1> SUFFICES ASSUME HeartsOpen PROVE Spec => LeaseIsSingleRun
  OBVIOUS
<1>1. Init => Abstract!Init
  BY DEF Init, Abstract!Init, Working
<1>2. Inv /\ [Next]_vars => [Abstract!Next]_Abstract!vars
  <2> SUFFICES ASSUME Inv, [Next]_vars PROVE [Abstract!Next]_Abstract!vars
    OBVIOUS
  <2>1. CASE UNCHANGED vars
    BY <2>1 DEF vars, Abstract!vars, Working
  <2>2. CASE \E r \in Runs : ClaimInVain(r) \/ \E k \in Kinds : Claim(k, r)
    BY <2>2, ClaimMaps DEF Abstract!Next
  <2> QED
    BY <2>1, <2>2, OtherStepMaps DEF Next
<1>3. Inv /\ [Next]_vars => Inv'
  BY JobStep
<1> QED
  BY <1>1, <1>2, <1>3, JobInit, PTL DEF Spec, LeaseIsSingleRun, Abstract!Spec
=============================================================================
