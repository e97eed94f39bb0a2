---------------------------- MODULE DownloadNotes ----------------------------
(***************************************************************************)
(* Mails that tell people their download is ready: the table               *)
(* download_notifications, and the check that every library sync ends      *)
(* with.  Two checks may run together, the scheduled sync's and the one an *)
(* admin starts; a row is claimed before it is looked at, so that only one *)
(* of them mails it.                                                       *)
(*                                                                         *)
(* A tick is the poll interval.  Deadlines are kept as the ticks that are  *)
(* left, ages as ticks gone by, both capped, so that time has no end.      *)
(***************************************************************************)
EXTENDS Integers, FiniteSets

CONSTANTS
    Titles,         \* what can be downloaded
    Checkers,       \* library syncs: "scheduled", "manual"
    MaxDelay,       \* _BACKOFF_MAX_SECONDS, in ticks
    Grace,          \* STRANDED_CLAIM_GRACE_SECONDS, in ticks
    Failures,       \* what can fail: "crash", "db", "arr", "mail", "uncaught"
    MaxNotes, MaxFaults     \* bounds

ASSUME NotesAssumption ==
    /\ MaxDelay \in Nat \ {0} /\ Grace \in Nat \ {0}
    /\ MaxNotes \in Nat /\ MaxFaults \in Nat

Notes == 1..MaxNotes

VARIABLES
    up,         \* "down", "booting" (reconciliation still to run) or "serving"
    arr,        \* [Titles]: "absent", "wanted" or "ready" in Radarr or Sonarr
    status,     \* rows: "none", "queued" (0), "claimed" (2), "sent" (1)
    about,      \* their titles
    age,        \* ticks since claimed_at, Grace + 1 for anything older
    wait,       \* _backoff_state: ticks until the next try ...
    delay,      \* ... and the wait after the next failure, doubled by each
    check,      \* the check of each sync
    mails,      \* ghost: mails the recipient of a row got
    faults      \* failures so far, by kind

rowVars  == <<status, about, age>>
notesVars == <<up, arr, rowVars, wait, delay, check, mails, faults>>

NoNote    == 0
Holding(s, S) == [step |-> s, rows |-> S, cur |-> NoNote, index |-> {}, indexed |-> FALSE, since |-> 0]
NoCheck   == Holding("idle", {})
CheckSteps == {"idle", "claimed", "fetch", "row", "mail", "mark", "release"}
CheckRecord == [step : CheckSteps, rows : SUBSET Notes, cur : Notes \union {NoNote},
                index : SUBSET Titles, indexed : BOOLEAN, since : 0..MaxDelay]

NotesTypeOK ==
    /\ up \in {"down", "booting", "serving"}
    /\ arr \in [Titles -> {"absent", "wanted", "ready"}]
    /\ status \in [Notes -> {"none", "queued", "claimed", "sent"}]
    /\ about \in [Notes -> Titles]
    /\ age \in [Notes -> 0..(Grace + 1)]
    /\ wait \in [Notes -> 0..MaxDelay]
    /\ delay \in [Notes -> 1..MaxDelay]
    /\ check \in [Checkers -> CheckRecord]
    /\ mails \in [Notes -> Nat]
    /\ faults \in [Failures -> Nat]

\* Rows an earlier process left are queued.
NotesInit ==
    /\ up = "serving"
    /\ arr \in [Titles -> {"absent", "wanted"}]
    /\ \E last \in 0..MaxNotes : status = [n \in Notes |-> IF n <= last THEN "queued" ELSE "none"]
    /\ about \in [Notes -> Titles]
    /\ age = [n \in Notes |-> 0]
    /\ wait = [n \in Notes |-> 0] /\ delay = [n \in Notes |-> 1]
    /\ check = [c \in Checkers |-> NoCheck]
    /\ mails = [n \in Notes |-> 0]
    /\ faults = [f \in Failures |-> 0]

Happened(f) == f \in Failures /\ faults[f] > 0

Failed == {p \in Failures \X (1..MaxFaults) : p[2] <= faults[p[1]]}
Fault(f) ==
    /\ f \in Failures /\ Cardinality(Failed) < MaxFaults
    /\ faults' = [faults EXCEPT ![f] = @ + 1]

Lesser(a, b)  == IF a < b THEN a ELSE b
Remaining(d, gone) == IF d > gone THEN d - gone ELSE 0

\* record_download_notification, inside a transaction of the caller's.
RecordNote(t) ==
    \E n \in Notes :
        /\ status[n] = "none" /\ \A m \in Notes : m < n => status[m] # "none"
        /\ status' = [status EXCEPT ![n] = "queued"]
        /\ about' = [about EXCEPT ![n] = t]

-----------------------------------------------------------------------------
(* One check: check_download_notifications. *)

Queued == {n \in Notes : status[n] = "queued"}

\* Mutated form: rows another check has claimed are taken as well.
ClaimableAny == {n \in Notes : status[n] \in {"queued", "claimed"}}
\* Mutated form: a row that has failed is not tried again.
ClaimableFresh == {n \in Queued : delay[n] = 1}
Claimable == Queued

\* The web serves manual syncs after the boot is over; the scheduler starts
\* before the reconciliation.
ClaimNotes(c) ==
    /\ up = "serving" \/ (up = "booting" /\ c # "manual")
    /\ check[c].step = "idle" /\ Queued # {}
    /\ check' = [check EXCEPT ![c] = Holding("claimed", Claimable)]
    /\ status' = [n \in Notes |-> IF n \in Claimable THEN "claimed" ELSE status[n]]
    /\ age' = [n \in Notes |-> IF n \in Claimable THEN 0 ELSE age[n]]
    /\ UNCHANGED <<up, arr, about, wait, delay, mails, faults>>

\* Releases are best-effort: when the UPDATE fails the rows stay claimed.
Release(S) ==
    \/ status' = [n \in Notes |-> IF n \in S THEN "queued" ELSE status[n]] /\ UNCHANGED faults
    \/ S # {} /\ Fault("db") /\ UNCHANGED status

\* Mutated form: rows that are backed off are put aside and not released.
DeferredKept(S) == {}
Deferred(S) == {n \in S : wait[n] > 0}

\* Without mail settings everything is released.
Unconfigured(c) ==
    /\ check[c].step = "claimed" /\ Fault("mail")
    /\ status' = [n \in Notes |-> IF n \in check[c].rows THEN "queued" ELSE status[n]]
    /\ check' = [check EXCEPT ![c] = NoCheck]
    /\ UNCHANGED <<up, arr, about, age, wait, delay, mails>>

Partition(c) ==
    /\ check[c].step = "claimed"
    /\ LET runnable == {n \in check[c].rows : wait[n] = 0}
       IN  \/ runnable = {} /\ check' = [check EXCEPT ![c] = NoCheck]
           \/ runnable # {} /\ check' = [check EXCEPT ![c] = Holding("fetch", runnable)]
    /\ Release(Deferred(check[c].rows))
    /\ UNCHANGED <<up, arr, about, age, wait, delay, mails>>

\* The libraries of Radarr and Sonarr are read once per check; if that fails
\* each row asks for itself.
FetchIndex(c) ==
    /\ check[c].step = "fetch"
    /\ \/ /\ check' = [check EXCEPT ![c].step = "row", ![c].indexed = TRUE,
                                    ![c].index = {t \in Titles : arr[t] = "ready"}]
          /\ UNCHANGED faults
       \/ Fault("arr") /\ check' = [check EXCEPT ![c].step = "row"]
    /\ UNCHANGED <<up, arr, rowVars, wait, delay, mails>>

\* An exception nobody catches ends the check, and its rows stay claimed: a
\* query that fails outside the loop over the rows, or anything other than a
\* failure of the services, of the mailer's transport or of the table.
CheckDies(c) ==
    /\ \/ check[c].step \in {"claimed", "fetch"} /\ Fault("db")
       \/ check[c].step \in {"claimed", "fetch", "row"} /\ Fault("uncaught")
    /\ check' = [check EXCEPT ![c] = NoCheck]
    /\ UNCHANGED <<up, arr, rowVars, wait, delay, mails>>

\* The deadline counts from the beginning of the check.
Backoff(c, n) ==
    /\ wait' = [wait EXCEPT ![n] = Remaining(delay[n], check[c].since)]
    /\ delay' = [delay EXCEPT ![n] = Lesser(2 * @, MaxDelay)]

PollLater(c, n) ==
    /\ wait' = [wait EXCEPT ![n] = Remaining(1, check[c].since)]
    /\ UNCHANGED delay

IsReady(c, t) == IF check[c].indexed THEN t \in check[c].index ELSE arr[t] = "ready"

RowGoto(c, n, s) == check' = [check EXCEPT ![c].step = s, ![c].cur = n]

RowReady(c, n) ==
    /\ check[c].step = "row" /\ n \in check[c].rows
    /\ IsReady(c, about[n])
    /\ RowGoto(c, n, "mail")
    /\ UNCHANGED <<up, arr, rowVars, wait, delay, mails, faults>>

RowNotReady(c, n) ==
    /\ check[c].step = "row" /\ n \in check[c].rows
    /\ ~IsReady(c, about[n])
    /\ PollLater(c, n) /\ RowGoto(c, n, "release")
    /\ UNCHANGED <<up, arr, rowVars, mails, faults>>

RowUnreachable(c, n) ==
    /\ check[c].step = "row" /\ n \in check[c].rows
    /\ ~check[c].indexed /\ Fault("arr")
    /\ Backoff(c, n) /\ RowGoto(c, n, "release")
    /\ UNCHANGED <<up, arr, rowVars, mails>>

SendMail(c) ==
    /\ check[c].step = "mail"
    /\ mails' = [mails EXCEPT ![check[c].cur] = @ + 1]
    /\ check' = [check EXCEPT ![c].step = "mark"]
    /\ UNCHANGED <<up, arr, rowVars, wait, delay, faults>>

\* Mailgun refuses, or has taken the mail and does not answer.
MailFails(c) ==
    /\ check[c].step = "mail" /\ Fault("mail")
    /\ mails' \in {mails, [mails EXCEPT ![check[c].cur] = @ + 1]}
    /\ Backoff(c, check[c].cur)
    /\ check' = [check EXCEPT ![c].step = "release"]
    /\ UNCHANGED <<up, arr, rowVars>>

\* The mailer raises a ValueError (an address or a subject it does not accept,
\* before anything is sent; a Retry-After it cannot wait for, after Mailgun was
\* asked), which the handler of the row does not catch: the check is over.
MailDies(c) ==
    /\ check[c].step = "mail" /\ Fault("uncaught")
    /\ mails' \in {mails, [mails EXCEPT ![check[c].cur] = @ + 1]}
    /\ check' = [check EXCEPT ![c] = NoCheck]
    /\ UNCHANGED <<up, arr, rowVars, wait, delay>>

\* The check goes on without row n.
Without(c, n) ==
    \/ check[c].rows = {n} /\ check' = [check EXCEPT ![c] = NoCheck]
    \/ /\ check[c].rows # {n}
       /\ check' = [check EXCEPT ![c].step = "row", ![c].rows = @ \ {n}, ![c].cur = NoNote]

MarkSent(c) ==
    /\ check[c].step = "mark"
    /\ LET n == check[c].cur
       IN  /\ status' = [status EXCEPT ![n] = "sent"]
           /\ wait' = [wait EXCEPT ![n] = 0] /\ delay' = [delay EXCEPT ![n] = 1]
           /\ Without(c, n)
    /\ UNCHANGED <<up, arr, about, age, mails, faults>>

\* The mail is out and the row cannot be marked.
MarkFails(c) ==
    /\ check[c].step = "mark" /\ Fault("db")
    /\ Backoff(c, check[c].cur)
    /\ check' = [check EXCEPT ![c].step = "release"]
    /\ UNCHANGED <<up, arr, rowVars, mails>>

ReleaseRow(c) ==
    /\ check[c].step = "release"
    /\ Release({check[c].cur}) /\ Without(c, check[c].cur)
    /\ UNCHANGED <<up, arr, about, age, wait, delay, mails>>

CheckStep(c) ==
    \/ Partition(c) \/ FetchIndex(c) \/ SendMail(c) \/ MarkSent(c) \/ ReleaseRow(c)
    \/ \E n \in check[c].rows : RowReady(c, n) \/ RowNotReady(c, n)

CheckFailure(c) ==
    \/ Unconfigured(c) \/ CheckDies(c) \/ MailFails(c) \/ MailDies(c) \/ MarkFails(c)
    \/ \E n \in check[c].rows : RowUnreachable(c, n)

-----------------------------------------------------------------------------
(* The services, time, crash and boot. *)

\* The download arrives; or somebody removes the title from Radarr or Sonarr.
ArrImports(t) ==
    /\ arr[t] = "wanted" /\ arr' = [arr EXCEPT ![t] = "ready"]
    /\ UNCHANGED <<up, rowVars, wait, delay, check, mails, faults>>

ArrForgets(t) ==
    /\ arr[t] # "absent" /\ arr' = [arr EXCEPT ![t] = "absent"]
    /\ UNCHANGED <<up, rowVars, wait, delay, check, mails, faults>>

\* Booting takes less than a tick.
Tick ==
    /\ up # "booting"
    /\ wait' = [n \in Notes |-> Remaining(wait[n], 1)]
    /\ age' = [n \in Notes |-> IF status[n] = "claimed" THEN Lesser(age[n] + 1, Grace + 1) ELSE 0]
    /\ check' = [c \in Checkers |->
                    [check[c] EXCEPT !.since = IF check[c].step \in {"idle", "claimed"} THEN 0
                                             ELSE Lesser(@ + 1, MaxDelay)]]
    /\ UNCHANGED <<up, arr, status, about, delay, mails, faults>>

\* The backoff is in memory.
NotesCrash ==
    /\ up # "down" /\ Fault("crash")
    /\ up' = "down"
    /\ check' = [c \in Checkers |-> NoCheck]
    /\ wait' = [n \in Notes |-> 0] /\ delay' = [n \in Notes |-> 1]
    /\ UNCHANGED <<arr, rowVars, mails>>

Boot ==
    /\ up = "down" /\ up' = "booting"
    /\ UNCHANGED <<arr, rowVars, wait, delay, check, mails, faults>>

\* Mutated form: every claim is taken for one of a crashed process.
StrandedAll == {n \in Notes : status[n] = "claimed"}
Stranded == {n \in Notes : status[n] = "claimed" /\ age[n] > Grace}

\* reconcile_stranded_notifications; an exception is logged.
Reconcile ==
    /\ up = "booting" /\ up' = "serving"
    /\ \/ /\ status' = [n \in Notes |-> IF n \in Stranded THEN "queued" ELSE status[n]]
          /\ UNCHANGED faults
       \/ Fault("db") /\ UNCHANGED status
    /\ UNCHANGED <<arr, about, age, wait, delay, check, mails>>

-----------------------------------------------------------------------------
(* Properties. *)

Owned(n) == \E c \in Checkers : n \in check[c].rows

\* Two checks never work on one row, and a row that is worked on is claimed.
ClaimsExclusive ==
    \A c \in Checkers : \A n \in check[c].rows :
        status[n] = "claimed" /\ \A d \in Checkers : n \in check[d].rows => c = d

\* The recipient gets one mail, and another only for a crash, a failure or an
\* exception between the mail and its record.
MailedOnce ==
    LET count(f) == IF f \in Failures THEN faults[f] ELSE 0
    IN  \A n \in Notes :
            mails[n] <= 1 + count("crash") + count("mail") + count("db") + count("uncaught")

\* A claim whose check is gone was left by a crash, by a failing statement or by
\* an exception the check does not catch: services and mails that merely fail,
\* rows that wait and checks that overlap leave none.
OnlyFailuresStrand ==
    \A n \in Notes : status[n] = "claimed" /\ ~Owned(n) =>
        Happened("crash") \/ Happened("db") \/ Happened("uncaught")

\* A download that is ready is announced, unless a failure has stranded its
\* row or the title is gone again.
Announced ==
    \A n \in Notes :
        (status[n] = "queued" /\ arr[about[n]] = "ready")
            ~> \/ status[n] = "sent"
               \/ arr[about[n]] # "ready"
               \/ status[n] = "claimed" /\ ~Owned(n)
=============================================================================
