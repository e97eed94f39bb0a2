----------------------------- MODULE ArrSearch ------------------------------
(***************************************************************************)
(* Titles that wait at Radarr or Sonarr without a file are searched for    *)
(* again and again, by the scheduler and by every open downloads page.     *)
(* Memory under a lock, and a table behind it, keep the searches of one    *)
(* title apart by a growing delay.  The call to the service happens        *)
(* outside the lock, between a reservation and its commit or rollback.     *)
(***************************************************************************)
EXTENDS Naturals, FiniteSets

CONSTANTS
    Titles,         \* dl_id of every title
    Service,        \* the service of each title
    Partial,        \* series of which only some episodes are missing
    Pages,          \* requests for the downloads page
    Scheduler,      \* the search job
    ArrWindow,      \* _PER_ARR_THROTTLE_SECONDS
    BackoffBase,    \* _SEARCH_BACKOFF_BASE_SECONDS
    BackoffMax,     \* _SEARCH_BACKOFF_MAX_SECONDS
    StrandedTtl,    \* _STRANDED_THROTTLE_TTL_SECONDS
    MaxTime,        \* bound on the clock
    MaxAbandons     \* bound on the titles abandoned

NoTitle == "no title"

ASSUME SearchAssumption ==
    /\ Partial \subseteq Titles /\ Scheduler \notin Pages /\ NoTitle \notin Titles
    /\ {ArrWindow, BackoffBase, BackoffMax, StrandedTtl, MaxTime, MaxAbandons} \subseteq Nat
    /\ 0 < MaxTime /\ 0 < BackoffBase /\ BackoffBase <= BackoffMax /\ BackoffMax <= StrandedTtl

VARIABLES
    now,            \* the clock; 0 stands for "never"
    last,           \* _last_search_trigger
    count,          \* _search_count
    token,          \* _reservation_tokens
    byArr,          \* _last_search_trigger_by_arr
    saved,          \* arr_search_throttle
    caller,         \* what each page or job is doing
    leaving,        \* what is still to be cleared of a title that was abandoned
    abandons,       \* the bounded number of them
    sent            \* ghost: the time and number of each title's successful searches since it
                    \* was cleared or forgotten, and the newest one of all

searchVars == <<now, last, count, token, byArr, saved, caller, leaving, abandons, sent>>

Callers == Pages \union {Scheduler}
Services == {Service[t] : t \in Titles}
Never    == [at |-> 0, n |-> 0]
Rows     == [at : 0..MaxTime, n : Nat]

\* row: what the table held, then what the reservation found.  live: ghost, false
\* once the title was cleared under the call.
Idle     == [step |-> "idle", todo |-> {}, partial |-> FALSE, title |-> NoTitle,
             at |-> 0, row |-> Never, live |-> FALSE]
InFlight == {"reserve", "call", "save"}

SearchTypeOK ==
    /\ now \in 1..MaxTime /\ abandons \in 0..MaxAbandons
    /\ last \in [Titles -> 0..MaxTime] /\ count \in [Titles -> Nat]
    /\ token \in [Titles -> SUBSET Callers]
    /\ byArr \in [Services -> [at : 0..MaxTime, by : Titles \union {NoTitle}]]
    /\ saved \in [Titles -> Rows]
    /\ sent \in [Titles -> [at : 0..MaxTime, n : Nat, newest : 0..MaxTime]]
    /\ caller \in [Callers -> [step : InFlight \union {"idle", "next", "adopt"},
                               todo : SUBSET Titles, partial : BOOLEAN,
                               title : Titles \union {NoTitle}, at : 0..MaxTime,
                               row : Rows, live : BOOLEAN]]
    /\ leaving \in [Titles -> {"no", "row"}]

SearchInit ==
    /\ now = 1 /\ abandons = 0
    /\ last = [t \in Titles |-> 0] /\ count = [t \in Titles |-> 0]
    /\ token = [t \in Titles |-> {}]
    /\ byArr = [s \in Services |-> [at |-> 0, by |-> NoTitle]]
    /\ saved = [t \in Titles |-> Never]
    /\ sent = [t \in Titles |-> [at |-> 0, n |-> 0, newest |-> 0]]
    /\ caller = [c \in Callers |-> Idle]
    /\ leaving = [t \in Titles |-> "no"]

Larger(a, b)  == IF a < b THEN b ELSE a
Smaller(a, b) == IF a < b THEN a ELSE b

\* The jitter of a tenth either way is below the model's unit of time.
Delay(n) == Smaller(BackoffBase * 2 ^ (IF n = 0 THEN 0 ELSE n - 1), BackoffMax)

At(c, s) == caller[c].step = s
Title(c) == caller[c].title
Mine(c)  == token[Title(c)] = {c}
Next(c)  == caller' = [caller EXCEPT ![c] = [Idle EXCEPT
                !.step = IF caller[c].todo = {} /\ c # Scheduler THEN "idle" ELSE "next",
                !.todo = caller[c].todo, !.partial = caller[c].partial]]

memory == <<last, count, token, byArr>>
world  == <<now, leaving, abandons>>

-----------------------------------------------------------------------------
(* One pass over the titles that wait.                                     *)

\* What the service lists comes and goes there; the list may be stale before its
\* last title is reached.
Poll(c) ==
    /\ At(c, "idle")
    /\ \E list \in SUBSET (Titles \ Partial) :
         caller' = [caller EXCEPT ![c] = [Idle EXCEPT !.step = "next", !.todo = list]]
    /\ UNCHANGED <<memory, world, saved, sent>>

\* maybe_trigger_search reads the clock and the table before it takes the lock.
Reads(c, t) == [caller[c] EXCEPT !.step = "reserve", !.at = now, !.row = saved[t],
                                 !.todo = @ \ {t}, !.title = t]

\* A page shows what is known of the search before it may start one, and reads the
\* table for it where memory knows nothing (get_search_info).
Pick(c, t) ==
    /\ At(c, "next") /\ t \in caller[c].todo
    /\ caller' = [caller EXCEPT ![c] =
         IF c \in Pages /\ count[t] = 0 /\ last[t] = 0 /\ saved[t] # Never
         THEN [Reads(c, t) EXCEPT !.step = "adopt"] ELSE Reads(c, t)]
    /\ UNCHANGED <<memory, world, saved, sent>>

\* The job goes on to the series of which some episodes are missing, unless the
\* service was searched a moment ago.
Done(c) ==
    /\ At(c, "next") /\ caller[c].todo = {}
    /\ caller' = [caller EXCEPT ![c] =
         IF \/ c # Scheduler \/ caller[c].partial
            \/ \E t \in Partial : byArr[Service[t]].at # 0 /\ now < byArr[Service[t]].at + ArrWindow
         THEN Idle
         ELSE [Idle EXCEPT !.step = "next", !.partial = TRUE, !.todo = Partial]]
    /\ UNCHANGED <<memory, world, saved, sent>>

\* By now another caller may have filled the memory.
Adopt(c) ==
    /\ At(c, "adopt")
    /\ LET t == Title(c)
       IN  /\ last' = IF last[t] = 0 THEN [last EXCEPT ![t] = caller[c].row.at] ELSE last
           /\ count' = [count EXCEPT ![t] = Larger(@, caller[c].row.n)]
           /\ caller' = [caller EXCEPT ![c] = Reads(c, t)]
    /\ UNCHANGED <<token, byArr, world, saved, sent>>

\* ANOTHER title's search of the service holds this one back.
HeldBack(t, at) ==
    LET arr == byArr[Service[t]]
    IN  arr.at # 0 /\ arr.by # t /\ at < arr.at + ArrWindow

Reserve(c) ==
    /\ At(c, "reserve")
    /\ LET t == Title(c)  at == caller[c].at
           before == [at |-> IF last[t] = 0 THEN caller[c].row.at ELSE last[t],
                      n  |-> Larger(count[t], caller[c].row.n)]
           tooSoon == before.at # 0 /\ at < before.at + Delay(before.n)
       IN  IF HeldBack(t, at) THEN Next(c) /\ UNCHANGED memory
           ELSE /\ count' = [count EXCEPT ![t] = before.n]
                /\ last' = [last EXCEPT ![t] = IF tooSoon THEN before.at ELSE at]
                /\ token' = IF tooSoon THEN token ELSE [token EXCEPT ![t] = {c}]
                /\ IF tooSoon THEN Next(c)
                   ELSE caller' = [caller EXCEPT ![c] = [@ EXCEPT !.step = "call", !.row = before,
                                                                  !.live = TRUE]]
                /\ UNCHANGED byArr
    /\ UNCHANGED <<world, saved, sent>>

\* The call has been answered.
Commit(c) ==
    /\ At(c, "call")
    /\ LET t == Title(c)
       IN  /\ count' = [count EXCEPT ![t] = caller[c].row.n + 1]
           /\ byArr' = [byArr EXCEPT ![Service[t]] = [at |-> caller[c].at, by |-> t]]
           /\ token' = IF Mine(c) THEN [token EXCEPT ![t] = {}] ELSE token
           /\ sent' = [sent EXCEPT
                ![t] = [at |-> IF caller[c].live THEN caller[c].at ELSE @.at,
                        n  |-> IF caller[c].live THEN @.n + 1 ELSE Smaller(@.n, 1),
                        newest |-> Larger(@.newest, caller[c].at)]]
    /\ caller' = [caller EXCEPT ![c].step = "save", ![c].row.at = 0]
    /\ UNCHANGED <<last, world, saved>>

\* The table is written after the lock is let go, and a failed write is passed over.
Save(c) ==
    /\ At(c, "save")
    /\ \/ saved' = [saved EXCEPT ![Title(c)] = [at |-> caller[c].at, n |-> caller[c].row.n + 1]]
       \/ UNCHANGED saved
    /\ Next(c)
    /\ UNCHANGED <<memory, world, sent>>

\* Mutated form: the reservation is taken back whoever holds it now.
RollbackAnyway(c) ==
    /\ At(c, "call")
    /\ last' = [last EXCEPT ![Title(c)] = caller[c].row.at]
    /\ token' = [token EXCEPT ![Title(c)] = {}]
    /\ Next(c)
    /\ UNCHANGED <<count, byArr, world, saved, sent>>

\* No client, a refused call and an error are one outcome.
Rollback(c) ==
    /\ At(c, "call")
    /\ IF Mine(c)
       THEN /\ last' = [last EXCEPT ![Title(c)] = caller[c].row.at]
            /\ token' = [token EXCEPT ![Title(c)] = {}]
       ELSE UNCHANGED <<last, token>>
    /\ Next(c)
    /\ UNCHANGED <<count, byArr, world, saved, sent>>

-----------------------------------------------------------------------------
(* clear_throttle, for a title that an admin or the search job abandoned.   *)

\* The service agreed; where it did not, nothing is cleared.
ClearMemory(t) ==
    /\ leaving[t] = "no" /\ abandons < MaxAbandons
    /\ abandons' = abandons + 1
    /\ last' = [last EXCEPT ![t] = 0] /\ count' = [count EXCEPT ![t] = 0]
    /\ byArr' = [byArr EXCEPT ![Service[t]] = [at |-> 0, by |-> NoTitle]]
    /\ leaving' = [leaving EXCEPT ![t] = "row"]
    /\ sent' = [sent EXCEPT ![t].n = 0]
    /\ caller' = [c \in Callers |-> IF Title(c) = t THEN [caller[c] EXCEPT !.live = FALSE]
                                    ELSE caller[c]]
    /\ UNCHANGED <<now, token, saved>>

ClearRow(t) ==
    /\ leaving[t] = "row"
    /\ saved' = [saved EXCEPT ![t] = Never] \/ UNCHANGED saved
    /\ leaving' = [leaving EXCEPT ![t] = "no"]
    /\ UNCHANGED <<now, abandons, memory, caller, sent>>

-----------------------------------------------------------------------------

\* A call is answered, or times out, and is booked within the shortest delay.
SearchTick ==
    /\ now < MaxTime
    /\ \A c \in Callers : caller[c].step \in InFlight => now + 1 < caller[c].at + BackoffBase
    /\ now' = now + 1
    /\ UNCHANGED <<memory, leaving, abandons, saved, caller, sent>>

\* reconcile_stranded_throttle, one statement.
SweepRows ==
    /\ \E t \in Titles : saved[t] # Never /\ saved[t].at + StrandedTtl < now
    /\ saved' = [t \in Titles |-> IF saved[t].at + StrandedTtl < now THEN Never ELSE saved[t]]
    /\ sent' = [t \in Titles |-> IF saved'[t] = saved[t] THEN sent[t] ELSE [sent[t] EXCEPT !.n = 0]]
    /\ UNCHANGED <<memory, world, caller>>

\* Memory is lost, and what was in flight with it.
Restart ==
    /\ last' = [t \in Titles |-> 0] /\ count' = [t \in Titles |-> 0]
    /\ token' = [t \in Titles |-> {}]
    /\ byArr' = [s \in Services |-> [at |-> 0, by |-> NoTitle]]
    /\ caller' = [c \in Callers |-> Idle] /\ leaving' = [t \in Titles |-> "no"]
    /\ sent' = [t \in Titles |-> [sent[t] EXCEPT !.n = IF saved[t].at = sent[t].at THEN @ ELSE 0]]
    /\ UNCHANGED <<now, saved, abandons>>

SearchNext ==
    \/ \E c \in Callers :
        \/ Poll(c) \/ Done(c) \/ Adopt(c) \/ Reserve(c)
        \/ Commit(c) \/ Save(c) \/ Rollback(c)
        \/ \E t \in Titles : Pick(c, t)
    \/ \E t \in Titles :
        ClearMemory(t) \/ ClearRow(t)
    \/ SearchTick \/ SweepRows \/ Restart

SearchSpec == SearchInit /\ [][SearchNext]_searchVars

-----------------------------------------------------------------------------
(* Properties. *)

Live(t) == {c \in Callers : Title(c) = t /\ caller[c].live /\ caller[c].step \in InFlight}

\* No two searches of a title are out at once, unless it was abandoned in between.
OneAtATime == \A t \in Titles : Cardinality({c \in Live(t) : At(c, "call")}) <= 1

\* A search goes out only when the delay since the last one that succeeded has passed,
\* a delay that counts every success since the title was cleared or its row was lost.
SearchesSpaced ==
    \A t \in Titles : \A c \in Live(t) :
        At(c, "call") /\ sent[t].n > 0 => caller[c].at >= sent[t].at + Delay(sent[t].n)

\* A search that failed holds nothing back: once no call of the title is out, the
\* time that memory holds is that of a success.
FailuresCostNothing ==
    \A t \in Titles :
        (\A c \in Callers : ~(Title(c) = t /\ At(c, "call")))
            => last[t] <= sent[t].newest

\* The search budget of a title, across pages, the search job, abandonment and restarts.
SearchBudget == SearchTypeOK /\ OneAtATime /\ SearchesSpaced /\ FailuresCostNothing
=============================================================================
