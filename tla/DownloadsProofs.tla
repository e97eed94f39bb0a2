--------------------------- MODULE DownloadsProofs ---------------------------
(***************************************************************************)
(* For any number of rows, syncs, links, requests and failures: a row has  *)
(* one owner and is mailed once for each failure and once more, a claim    *)
(* without an owner is the trace of a failure, and a link is good for one  *)
(* download.                                                               *)
(***************************************************************************)
EXTENDS Downloads, TLAPS

Count(f) == IF f \in Failures THEN faults[f] ELSE 0
Losses   == Count("crash") + Count("mail") + Count("db") + Count("uncaught")

\* A check holds rows while it is under way, and the row it is at is one of
\* them.
ChecksHold ==
    \A c \in Checkers :
        /\ check[c].step = "idle" => check[c].rows = {}
        /\ check[c].step \in {"mail", "mark", "release"} => check[c].cur \in check[c].rows

\* Nothing is checked while the program is down, so that at a boot only the
\* claims of that boot have owners, and they are young.
OwnersYoung ==
    \A c \in Checkers : \A n \in check[c].rows :
        /\ up # "down"
        /\ up = "booting" => age[n] = 0

\* The mail of this row is out and has no failure to answer for.
Accounted(n) ==
    \/ status[n] = "sent"
    \/ \E c \in Checkers : check[c].step = "mark" /\ check[c].cur = n

\* Every mail is accounted for by the row's end or by a failure.
MailsCounted ==
    \A n \in Notes : mails[n] <= Losses + (IF Accounted(n) THEN 1 ELSE 0)

NotesInv ==
    /\ NotesTypeOK
    /\ ClaimsExclusive
    /\ ChecksHold
    /\ OwnersYoung
    /\ OnlyFailuresStrand
    /\ MailsCounted

-----------------------------------------------------------------------------
(* The helpers. *)

LEMMA HelpersBounded ==
    ASSUME NEW a \in Nat, NEW b \in Nat
    PROVE  /\ Lesser(a, b) \in Nat /\ Lesser(a, b) <= b /\ Lesser(a, b) <= a
           /\ a > 0 /\ b > 0 => Lesser(a, b) > 0
           /\ Remaining(a, b) \in 0..a
BY DEF Lesser, Remaining

\* A failure is counted, and no count goes back.
LEMMA FaultCounted ==
    ASSUME NotesTypeOK, NEW f, Fault(f)
    PROVE  /\ faults' \in [Failures -> Nat]
           /\ f \in Failures /\ faults'[f] = faults[f] + 1
           /\ \A g \in Failures : faults'[g] >= faults[g]
BY DEF NotesTypeOK, Fault

LEMMA LossesCounted ==
    ASSUME NotesTypeOK, NEW f, Fault(f)
    PROVE  /\ Losses \in Nat /\ Losses' \in Nat /\ Losses' >= Losses
           /\ f \in {"crash", "mail", "db", "uncaught"} => Losses' = Losses + 1
           /\ \A g : Happened(g) => Happened(g)'
           /\ Happened(f)'
<1>1. \A g \in Failures : faults[g] \in Nat /\ faults'[g] \in Nat /\ faults'[g] >= faults[g]
  BY FaultCounted DEF NotesTypeOK
<1>2. f \in Failures /\ faults'[f] = faults[f] + 1 /\ \A g \in Failures \ {f} : faults'[g] = faults[g]
  BY FaultCounted DEF Fault, NotesTypeOK
<1>3. Happened(f)' /\ \A g : Happened(g) => Happened(g)'
  BY <1>1, <1>2 DEF Happened
<1>4. \A g : Count(g) \in Nat /\ Count(g)' \in Nat /\ Count(g)' >= Count(g)
  BY <1>1 DEF Count
<1>5. Count(f)' = Count(f) + 1 /\ \A g : g # f => Count(g)' = Count(g)
  BY <1>2 DEF Count
<1> QED
  BY <1>3, <1>4, <1>5 DEF Losses

-----------------------------------------------------------------------------
(* Steps that touch no row: the services, requests, time. *)

LEMMA QuietStep ==
    ASSUME NotesInv,
           UNCHANGED <<up, rowVars, wait, delay, check, mails>>,
           arr' \in [Titles -> {"absent", "wanted", "ready"}],
           UNCHANGED faults \/ \E f : Fault(f)
    PROVE  NotesInv'
<1>1. /\ faults' \in [Failures -> Nat]
      /\ Losses \in Nat /\ Losses' \in Nat /\ Losses' >= Losses
      /\ \A g : Happened(g) => Happened(g)'
  <2>1. CASE UNCHANGED faults
    BY <2>1 DEF NotesInv, NotesTypeOK, Losses, Count, Happened
  <2>2. CASE \E f : Fault(f)
    BY <2>2, FaultCounted, LossesCounted DEF NotesInv
  <2> QED
    BY <2>1, <2>2
<1>2. NotesTypeOK'
  BY <1>1 DEF NotesInv, NotesTypeOK, rowVars
<1>3. (ClaimsExclusive /\ ChecksHold /\ OwnersYoung)'
  BY DEF NotesInv, ClaimsExclusive, ChecksHold, OwnersYoung, rowVars
<1>4. OnlyFailuresStrand'
  BY <1>1 DEF NotesInv, OnlyFailuresStrand, Owned, rowVars
<1>5. MailsCounted'
  <2> SUFFICES ASSUME NEW n \in Notes
               PROVE  mails[n] <= Losses' + (IF Accounted(n) THEN 1 ELSE 0)
    BY DEF MailsCounted, Accounted, rowVars
  <2>1. mails[n] <= Losses + (IF Accounted(n) THEN 1 ELSE 0) /\ mails[n] \in Nat
    BY DEF NotesInv, MailsCounted, NotesTypeOK
  <2> QED
    BY <1>1, <2>1
<1> QED
  BY <1>2, <1>3, <1>4, <1>5 DEF NotesInv

-----------------------------------------------------------------------------
(* The steps of a check. *)

\* What may leave a claimed row without an owner.
Stranding == Happened("crash") \/ Happened("db") \/ Happened("uncaught")

\* A step of check c that keeps its rows or lets go of some: those it lets go
\* of are released, sent, or lost to a failure.
LEMMA RowsDropped ==
    ASSUME NotesInv, NEW c \in Checkers,
           UNCHANGED <<up, about, age>>,
           \A d \in Checkers \ {c} : check'[d] = check[d],
           check'[c].rows \subseteq check[c].rows,
           check'[c].step = "idle" => check'[c].rows = {},
           check'[c].step \in {"mail", "mark", "release"} => check'[c].cur \in check'[c].rows,
           \A n \in Notes : n \in check'[c].rows \/ n \notin check[c].rows => status'[n] = status[n],
           \A n \in check[c].rows \ check'[c].rows :
                status'[n] # "claimed" \/ Stranding',
           \A g : Happened(g) => Happened(g)'
    PROVE  (ClaimsExclusive /\ ChecksHold /\ OwnersYoung /\ OnlyFailuresStrand)'
<1>1. \A d \in Checkers : check[d].rows \subseteq Notes /\ check'[d].rows \subseteq check[d].rows
  BY DEF NotesInv, NotesTypeOK, CheckRecord
<1>2. \A d \in Checkers : \A n \in check'[d].rows : status'[n] = status[n]
  BY <1>1 DEF NotesInv, ClaimsExclusive
<1>3. ClaimsExclusive'
  BY <1>1, <1>2 DEF NotesInv, ClaimsExclusive
<1>4. ChecksHold'
  BY DEF NotesInv, ChecksHold
<1>5. OwnersYoung'
  BY <1>1 DEF NotesInv, OwnersYoung
<1>6. OnlyFailuresStrand'
  <2> SUFFICES ASSUME NEW n \in Notes, status'[n] = "claimed", ~Owned(n)'
               PROVE  Stranding'
    BY DEF OnlyFailuresStrand, Stranding
  <2>1. CASE n \in check[c].rows
    BY <2>1 DEF Owned
  <2>2. CASE n \notin check[c].rows
    BY <2>2 DEF NotesInv, OnlyFailuresStrand, Owned, Stranding
  <2> QED
    BY <2>1, <2>2
<1> QED
  BY <1>3, <1>4, <1>5, <1>6

\* Where no mail goes out, nothing is unaccounted for if what was accounted for
\* is.
LEMMA MailsKept ==
    ASSUME NotesInv, mails' = mails,
           Losses \in Nat, Losses' \in Nat, Losses' >= Losses,
           \A n \in Notes : Accounted(n) => Accounted(n)' \/ Losses' = Losses + 1
    PROVE  MailsCounted'
<1> SUFFICES ASSUME NEW n \in Notes
             PROVE  mails'[n] <= Losses' + (IF Accounted(n)' THEN 1 ELSE 0)
  BY DEF MailsCounted, Accounted
<1>1. mails[n] \in Nat /\ mails[n] <= Losses + (IF Accounted(n) THEN 1 ELSE 0)
  BY DEF NotesInv, NotesTypeOK, MailsCounted
<1> QED
  BY <1>1

\* The failures do not change.
LEMMA NoFault ==
    ASSUME NotesTypeOK, UNCHANGED faults
    PROVE  /\ Losses \in Nat /\ Losses' = Losses
           /\ \A g : Happened(g)' = Happened(g)
BY DEF NotesTypeOK, Losses, Count, Happened

LEMMA ClaimNotesInv ==
    ASSUME NotesInv, NEW c \in Checkers, ClaimNotes(c)
    PROVE  NotesInv'
<1> USE NotesAssumption
<1>0. check' = [check EXCEPT ![c] = Holding("claimed", Queued)]
  BY DEF ClaimNotes, Claimable
<1>1. /\ check[c].rows = {} /\ check[c].step = "idle"
      /\ check'[c].rows = Queued /\ check'[c].step = "claimed"
      /\ \A d \in Checkers \ {c} : check'[d] = check[d]
      /\ \A n \in Queued : status'[n] = "claimed" /\ age'[n] = 0
      /\ \A n \in Notes \ Queued : status'[n] = status[n] /\ age'[n] = age[n]
      /\ up # "down"
  <2>1. check[c].rows = {} /\ check[c].step = "idle" /\ up # "down"
    BY DEF NotesInv, ChecksHold, ClaimNotes
  <2>2. /\ check'[c].rows = Queued /\ check'[c].step = "claimed"
        /\ \A d \in Checkers \ {c} : check'[d] = check[d]
    BY <1>0 DEF NotesInv, NotesTypeOK, Holding
  <2>3. /\ \A n \in Queued : status'[n] = "claimed" /\ age'[n] = 0
        /\ \A n \in Notes \ Queued : status'[n] = status[n] /\ age'[n] = age[n]
    BY DEF ClaimNotes, Claimable, Queued
  <2> QED
    BY <2>1, <2>2, <2>3
<1>2. NotesTypeOK'
  <2>1. check' \in [Checkers -> CheckRecord]
    <3>1. Holding("claimed", Queued) \in CheckRecord
      BY DEF Holding, CheckRecord, Queued, CheckSteps
    <3> QED
      BY <1>0, <3>1 DEF NotesInv, NotesTypeOK
  <2>2. status' \in [Notes -> {"none", "queued", "claimed", "sent"}] /\ age' \in [Notes -> 0..(Grace + 1)]
    BY DEF NotesInv, NotesTypeOK, ClaimNotes
  <2> QED
    BY <2>1, <2>2 DEF NotesInv, NotesTypeOK, ClaimNotes
<1>3. \A d \in Checkers : \A n \in check[d].rows : n \in Notes \ Queued
  <2> SUFFICES ASSUME NEW d \in Checkers, NEW n \in check[d].rows
               PROVE  n \in Notes \ Queued
    OBVIOUS
  <2>1. check[d] \in CheckRecord /\ status[n] = "claimed"
    BY DEF NotesInv, NotesTypeOK, ClaimsExclusive
  <2>2. check[d].rows \subseteq Notes
    BY <2>1 DEF CheckRecord
  <2> QED
    BY <2>1, <2>2 DEF Queued
<1>4. ClaimsExclusive'
  BY <1>1, <1>3 DEF NotesInv, ClaimsExclusive
<1>5. ChecksHold'
  BY <1>1 DEF NotesInv, ChecksHold
<1>6. OwnersYoung'
  BY <1>1, <1>3 DEF NotesInv, OwnersYoung, ClaimNotes
<1>7. OnlyFailuresStrand'
  <2>1. \A n \in Notes : Owned(n) \/ n \in Queued => Owned(n)'
    BY <1>1 DEF Owned
  <2> QED
    BY <1>1, <2>1 DEF NotesInv, OnlyFailuresStrand, ClaimNotes, Happened
<1>8. MailsCounted'
  <2>1. \A n \in Notes : Accounted(n) => Accounted(n)'
    BY <1>1 DEF Accounted, Queued
  <2>2. Losses' = Losses /\ mails' = mails /\ Losses \in Nat /\ mails \in [Notes -> Nat]
    BY DEF ClaimNotes, Losses, Count, NotesInv, NotesTypeOK
  <2> QED
    BY <2>1, <2>2 DEF NotesInv, MailsCounted
<1> QED
  BY <1>2, <1>4, <1>5, <1>6, <1>7, <1>8 DEF NotesInv

\* Dropping out of a check, for one row or for all.
LEMMA NoCheckFacts ==
    /\ NoCheck \in CheckRecord
    /\ NoCheck.rows = {} /\ NoCheck.step = "idle"
BY NotesAssumption DEF NoCheck, Holding, CheckRecord, CheckSteps

LEMMA WithoutFacts ==
    ASSUME NotesInv, NEW c \in Checkers, NEW n, Without(c, n)
    PROVE  /\ check' \in [Checkers -> CheckRecord]
           /\ \A d \in Checkers \ {c} : check'[d] = check[d]
           /\ check'[c].rows = check[c].rows \ {n}
           /\ check'[c].step \in {"idle", "row"}
           /\ check'[c].step = "idle" => check'[c].rows = {}
<1>1. check \in [Checkers -> CheckRecord]
  BY DEF NotesInv, NotesTypeOK
<1>2. CASE check[c].rows = {n}
  BY <1>1, <1>2, NoCheckFacts DEF Without
<1>3. CASE check[c].rows # {n}
  BY <1>1, <1>3 DEF Without, CheckRecord, CheckSteps
<1> QED
  BY <1>2, <1>3

\* The steps that end a check, or part of it, before the first row.
LEMMA EarlyStepInv ==
    ASSUME NotesInv, NEW c \in Checkers, Unconfigured(c) \/ Partition(c) \/ CheckDies(c)
    PROVE  NotesInv'
<1> DEFINE gone == check[c].rows \ check'[c].rows
<1>1. check \in [Checkers -> CheckRecord] /\ check[c].rows \subseteq Notes
  BY DEF NotesInv, NotesTypeOK, CheckRecord
<1>2. /\ check' \in [Checkers -> CheckRecord]
      /\ \A d \in Checkers \ {c} : check'[d] = check[d]
      /\ check'[c].rows \subseteq check[c].rows
      /\ check'[c].step = "idle" => check'[c].rows = {}
      /\ check'[c].step \in {"idle", "fetch"}
      /\ check[c].step \in {"claimed", "fetch", "row"}
  <2>1. CASE Unconfigured(c) \/ CheckDies(c)
    BY <1>1, <2>1, NoCheckFacts DEF Unconfigured, CheckDies
  <2>2. CASE Partition(c)
    <3> DEFINE runnable == {n \in check[c].rows : wait[n] = 0}
    <3>1. /\ Holding("fetch", runnable) \in CheckRecord
          /\ Holding("fetch", runnable).rows = runnable
          /\ Holding("fetch", runnable).step = "fetch"
      BY <1>1, NotesAssumption DEF Holding, CheckRecord, CheckSteps
    <3> QED
      BY <1>1, <2>2, <3>1, NoCheckFacts DEF Partition
  <2> QED
    BY <2>1, <2>2
<1>3. /\ faults' \in [Failures -> Nat]
      /\ Losses \in Nat /\ Losses' \in Nat /\ Losses' >= Losses
      /\ \A g : Happened(g) => Happened(g)'
  BY FaultCounted, LossesCounted, NoFault DEF NotesInv, NotesTypeOK, Unconfigured, CheckDies, Partition, Release
<1>4. /\ \A n \in Notes \ gone : status'[n] = status[n]
      /\ \A n \in gone : status'[n] = "queued" \/ status'[n] = status[n]
      /\ \A n \in gone : status'[n] # "claimed" \/ Stranding'
  <2>1. \A n \in check[c].rows : status[n] = "claimed"
    BY DEF NotesInv, ClaimsExclusive
  <2>2. CASE Unconfigured(c)
    <3>1. check'[c].rows = {}
      BY <1>1, <2>2, NoCheckFacts DEF Unconfigured
    <3> QED
      BY <1>1, <2>2, <3>1 DEF Unconfigured
  <2>3. CASE CheckDies(c)
    BY <2>3, LossesCounted DEF CheckDies, rowVars, NotesInv, Stranding
  <2>4. CASE Partition(c)
    <3>1. gone = Deferred(check[c].rows)
      BY <1>1, <2>4, NoCheckFacts DEF Partition, Deferred, Holding, NotesInv, NotesTypeOK
    <3>2. CASE status' = [n \in Notes |-> IF n \in gone THEN "queued" ELSE status[n]]
      BY <1>1, <3>2 DEF NotesInv, NotesTypeOK
    <3>3. CASE Fault("db") /\ UNCHANGED status
      BY <3>3, LossesCounted DEF NotesInv, Stranding
    <3> QED
      BY <2>4, <3>1, <3>2, <3>3 DEF Partition, Release
  <2> QED
    BY <2>2, <2>3, <2>4
<1>5. UNCHANGED <<up, arr, about, age, wait, delay, mails>>
  BY DEF Unconfigured, Partition, CheckDies, rowVars
<1>6. status' \in [Notes -> {"none", "queued", "claimed", "sent"}]
  BY DEF NotesInv, NotesTypeOK, Unconfigured, CheckDies, Partition, Release, rowVars
<1>7. NotesTypeOK'
  BY <1>2, <1>3, <1>5, <1>6 DEF NotesInv, NotesTypeOK
<1>8. (ClaimsExclusive /\ ChecksHold /\ OwnersYoung /\ OnlyFailuresStrand)'
  BY <1>2, <1>3, <1>4, <1>5, RowsDropped
<1>9. \A n \in Notes : Accounted(n) => Accounted(n)'
  BY <1>1, <1>2, <1>4 DEF Accounted, NotesInv, ClaimsExclusive
<1>10. MailsCounted'
  BY <1>3, <1>5, <1>9, MailsKept
<1> QED
  BY <1>7, <1>8, <1>10 DEF NotesInv

\* The deadlines stay within their bounds.
LEMMA BackoffTyped ==
    ASSUME NotesInv, NEW c \in Checkers, NEW n \in Notes, Backoff(c, n) \/ PollLater(c, n)
    PROVE  wait' \in [Notes -> 0..MaxDelay] /\ delay' \in [Notes -> 1..MaxDelay]
<1>1. /\ check[c] \in CheckRecord /\ check[c].since \in 0..MaxDelay
      /\ wait \in [Notes -> 0..MaxDelay] /\ delay \in [Notes -> 1..MaxDelay]
      /\ delay[n] \in 1..MaxDelay
  BY DEF NotesInv, NotesTypeOK, CheckRecord
<1>2. /\ Remaining(delay[n], check[c].since) \in 0..MaxDelay
      /\ Remaining(1, check[c].since) \in 0..MaxDelay
      /\ Lesser(2 * delay[n], MaxDelay) \in 1..MaxDelay
  BY <1>1, NotesAssumption DEF Remaining, Lesser
<1> QED
  BY <1>1, <1>2 DEF Backoff, PollLater

\* The row a check is at has one owner, is claimed, and has no mail out but for
\* the check that is about to record it.
LEMMA CurrentRow ==
    ASSUME NotesInv, NEW c \in Checkers, check[c].step \in {"mail", "mark", "release"}
    PROVE  /\ check[c].cur \in Notes /\ check[c].cur \in check[c].rows
           /\ status[check[c].cur] = "claimed"
           /\ \A d \in Checkers \ {c} :
                  ~(check[d].step \in {"mail", "mark", "release"} /\ check[d].cur = check[c].cur)
BY DEF NotesInv, NotesTypeOK, CheckRecord, ChecksHold, ClaimsExclusive

\* The steps that read, decide or fail, and move no row.
SameRowStep(c) ==
    \/ FetchIndex(c) \/ SendMail(c) \/ MailFails(c) \/ MarkFails(c)
    \/ \E n \in check[c].rows : RowReady(c, n) \/ RowNotReady(c, n) \/ RowUnreachable(c, n)

LEMMA SameRowsFacts ==
    ASSUME NotesInv, NEW c \in Checkers, SameRowStep(c)
    PROVE  /\ UNCHANGED <<up, arr, status, about, age>>
           /\ check' \in [Checkers -> CheckRecord]
           /\ \A d \in Checkers \ {c} : check'[d] = check[d]
           /\ check'[c].rows = check[c].rows
           /\ check'[c].step \in {"row", "mail", "mark", "release"}
           /\ check'[c].step \in {"mail", "mark", "release"} => check'[c].cur \in check[c].rows
           /\ wait' \in [Notes -> 0..MaxDelay] /\ delay' \in [Notes -> 1..MaxDelay]
<1>1. check \in [Checkers -> CheckRecord] /\ check[c].rows \subseteq Notes
  BY DEF NotesInv, NotesTypeOK, CheckRecord
<1>2. wait \in [Notes -> 0..MaxDelay] /\ delay \in [Notes -> 1..MaxDelay]
  BY DEF NotesInv, NotesTypeOK
<1>3. CASE FetchIndex(c)
  BY <1>1, <1>2, <1>3 DEF FetchIndex, CheckRecord, CheckSteps, rowVars
<1>4. CASE SendMail(c)
  BY <1>1, <1>2, <1>4, CurrentRow DEF SendMail, CheckRecord, CheckSteps, rowVars
<1>5. CASE MailFails(c)
  BY <1>1, <1>5, CurrentRow, BackoffTyped DEF MailFails, CheckRecord, CheckSteps, rowVars
<1>6. CASE MarkFails(c)
  BY <1>1, <1>6, CurrentRow, BackoffTyped DEF MarkFails, CheckRecord, CheckSteps, rowVars
<1>7. ASSUME NEW n \in check[c].rows, RowReady(c, n) \/ RowNotReady(c, n) \/ RowUnreachable(c, n)
      PROVE  /\ UNCHANGED <<up, arr, status, about, age>>
             /\ wait' \in [Notes -> 0..MaxDelay] /\ delay' \in [Notes -> 1..MaxDelay]
             /\ check' = [check EXCEPT ![c].step = "mail", ![c].cur = n]
                \/ check' = [check EXCEPT ![c].step = "release", ![c].cur = n]
  BY <1>1, <1>2, <1>7, BackoffTyped DEF RowReady, RowNotReady, RowUnreachable, RowGoto, rowVars
<1>8. CASE \E n \in check[c].rows : RowReady(c, n) \/ RowNotReady(c, n) \/ RowUnreachable(c, n)
  <2>1. PICK n \in check[c].rows : RowReady(c, n) \/ RowNotReady(c, n) \/ RowUnreachable(c, n)
    BY <1>8
  <2> QED
    BY <1>1, <1>7, <2>1 DEF CheckRecord, CheckSteps
<1> QED
  BY <1>3, <1>4, <1>5, <1>6, <1>8 DEF SameRowStep

LEMMA SameRowStepInv ==
    ASSUME NotesInv, NEW c \in Checkers, SameRowStep(c)
    PROVE  NotesInv'
<1> DEFINE k == check[c].cur
<1>1. /\ faults' \in [Failures -> Nat]
      /\ Losses \in Nat /\ Losses' \in Nat /\ Losses' >= Losses
      /\ \A g : Happened(g) => Happened(g)'
  BY FaultCounted, LossesCounted, NoFault
     DEF NotesInv, NotesTypeOK, SameRowStep, FetchIndex, SendMail, MailFails, MarkFails,
         RowReady, RowNotReady, RowUnreachable
<1>2. /\ mails' = mails
      \/ /\ SendMail(c) \/ MailFails(c)
         /\ mails' = [mails EXCEPT ![k] = @ + 1]
  BY DEF SameRowStep, FetchIndex, SendMail, MailFails, MarkFails, RowReady, RowNotReady, RowUnreachable
<1>3. k \in Notes \/ ~(SendMail(c) \/ MailFails(c))
  BY CurrentRow DEF SendMail, MailFails
<1>4. mails' \in [Notes -> Nat]
  BY <1>2, <1>3 DEF NotesInv, NotesTypeOK
<1>5. NotesTypeOK'
  BY <1>1, <1>4, SameRowsFacts DEF NotesInv, NotesTypeOK
<1>6. (ClaimsExclusive /\ ChecksHold /\ OwnersYoung /\ OnlyFailuresStrand)'
  BY <1>1, SameRowsFacts, RowsDropped
<1>7. MailsCounted'
  <2>1. CASE SendMail(c)
    <3>1. /\ mails' = [mails EXCEPT ![k] = @ + 1] /\ UNCHANGED <<faults, status>>
          /\ check' = [check EXCEPT ![c].step = "mark"] /\ check[c].step = "mail"
      BY <2>1 DEF SendMail, rowVars
    <3>2. /\ check'[c].step = "mark" /\ check'[c].cur = k
          /\ \A d \in Checkers \ {c} : check'[d] = check[d]
      BY <3>1 DEF NotesInv, NotesTypeOK, CheckRecord
    <3>3. \A n \in Notes : n = k => ~Accounted(n)
      BY <3>1, CurrentRow DEF Accounted
    <3>4. \A n \in Notes : n = k \/ Accounted(n) => Accounted(n)'
      BY <3>1, <3>2 DEF Accounted
    <3>5. Losses' = Losses
      BY <3>1, NoFault DEF NotesInv
    <3> SUFFICES ASSUME NEW n \in Notes
                 PROVE  mails'[n] <= Losses' + (IF Accounted(n)' THEN 1 ELSE 0)
      BY DEF MailsCounted, Accounted
    <3>6. mails[n] \in Nat /\ mails[n] <= Losses + (IF Accounted(n) THEN 1 ELSE 0)
      BY DEF NotesInv, NotesTypeOK, MailsCounted
    <3>7. mails \in [Notes -> Nat]
      BY DEF NotesInv, NotesTypeOK
    <3>8. CASE n = k
      <4>1. mails'[n] = mails[n] + 1
        BY <3>1, <3>7, <3>8
      <4>2. mails[n] <= Losses
        BY <1>1, <3>3, <3>6, <3>8
      <4>3. Accounted(n)'
        BY <3>4, <3>8
      <4> QED
        BY <1>1, <3>5, <3>6, <4>1, <4>2, <4>3
    <3>9. CASE n # k
      <4>1. mails'[n] = mails[n]
        BY <3>1, <3>7, <3>9
      <4> QED
        BY <1>1, <3>4, <3>5, <3>6, <3>9, <4>1
    <3> QED
      BY <3>8, <3>9
  <2>2. CASE MailFails(c)
    <3>1. Losses' = Losses + 1 /\ k \in Notes
      BY <2>2, LossesCounted, CurrentRow DEF MailFails, NotesInv
    <3>2. /\ ~Accounted(k)
          /\ \A n \in Notes : Accounted(n) => Accounted(n)'
      BY <2>2, CurrentRow, SameRowsFacts DEF Accounted, MailFails
    <3> SUFFICES ASSUME NEW n \in Notes
                 PROVE  mails'[n] <= Losses' + (IF Accounted(n)' THEN 1 ELSE 0)
      BY DEF MailsCounted, Accounted
    <3>3. mails[n] \in Nat /\ mails[n] <= Losses + (IF Accounted(n) THEN 1 ELSE 0)
      BY DEF NotesInv, NotesTypeOK, MailsCounted
    <3>4. mails'[n] = mails[n] \/ (n = k /\ mails'[n] = mails[n] + 1)
      <4>1. mails \in [Notes -> Nat]
        BY DEF NotesInv, NotesTypeOK
      <4>2. mails' = mails \/ mails' = [mails EXCEPT ![k] = @ + 1]
        BY <1>2
      <4> QED
        BY <4>1, <4>2, n = k \/ n # k
    <3> QED
      BY <1>1, <3>1, <3>2, <3>3, <3>4
  <2>3. CASE ~SendMail(c) /\ ~MailFails(c)
    <3>1. mails' = mails
      BY <1>2, <2>3
    <3>2. MarkFails(c) => Losses' = Losses + 1
      BY LossesCounted DEF MarkFails, NotesInv
    <3>3. MarkFails(c) \/ check[c].step # "mark"
      BY <2>3 DEF SameRowStep, FetchIndex, RowReady, RowNotReady, RowUnreachable
    <3>4. \A n \in Notes : Accounted(n) => Accounted(n)' \/ Losses' = Losses + 1
      BY <3>2, <3>3, SameRowsFacts DEF Accounted
    <3> QED
      BY <1>1, <3>1, <3>4, MailsKept
  <2> QED
    BY <2>1, <2>2, <2>3
<1> QED
  BY <1>5, <1>6, <1>7 DEF NotesInv

\* An exception of the mailer ends the check and leaves its rows claimed; the
\* mail that may be out has it to answer for.
LEMMA MailDiesInv ==
    ASSUME NotesInv, NEW c \in Checkers, MailDies(c)
    PROVE  NotesInv'
<1> DEFINE k == check[c].cur
<1>1. /\ k \in Notes /\ ~Accounted(k) /\ check[c].step = "mail"
      /\ check \in [Checkers -> CheckRecord] /\ mails \in [Notes -> Nat]
  BY CurrentRow DEF MailDies, Accounted, NotesInv, NotesTypeOK
<1>2. /\ faults' \in [Failures -> Nat] /\ Losses \in Nat /\ Losses' = Losses + 1
      /\ Stranding' /\ \A g : Happened(g) => Happened(g)'
  BY FaultCounted, LossesCounted DEF MailDies, NotesInv, Stranding
<1>3. /\ UNCHANGED <<up, arr, status, about, age, wait, delay>>
      /\ check' \in [Checkers -> CheckRecord]
      /\ \A d \in Checkers \ {c} : check'[d] = check[d]
      /\ check'[c].rows = {} /\ check'[c].step = "idle"
  BY <1>1, NoCheckFacts DEF MailDies, rowVars
<1>4. mails' = mails \/ mails' = [mails EXCEPT ![k] = @ + 1]
  BY DEF MailDies
<1>5. NotesTypeOK'
  BY <1>1, <1>2, <1>3, <1>4 DEF NotesInv, NotesTypeOK
<1>6. (ClaimsExclusive /\ ChecksHold /\ OwnersYoung /\ OnlyFailuresStrand)'
  BY <1>2, <1>3, RowsDropped
<1>7. \A n \in Notes : Accounted(n) => Accounted(n)'
  BY <1>1, <1>3 DEF Accounted
<1>8. MailsCounted'
  <2> SUFFICES ASSUME NEW n \in Notes
               PROVE  mails'[n] <= Losses' + (IF Accounted(n)' THEN 1 ELSE 0)
    BY DEF MailsCounted, Accounted
  <2>1. mails[n] \in Nat /\ mails[n] <= Losses + (IF Accounted(n) THEN 1 ELSE 0)
    BY DEF NotesInv, NotesTypeOK, MailsCounted
  <2>2. mails'[n] = mails[n] \/ (n = k /\ mails'[n] = mails[n] + 1)
    BY <1>1, <1>4, n = k \/ n # k
  <2> QED
    BY <1>1, <1>2, <1>7, <2>1, <2>2
<1> QED
  BY <1>5, <1>6, <1>8 DEF NotesInv

\* A check lets go of the row it is at.
LEMMA LastRowStepInv ==
    ASSUME NotesInv, NEW c \in Checkers, MarkSent(c) \/ ReleaseRow(c)
    PROVE  NotesInv'
<1> DEFINE k == check[c].cur
<1>1. k \in Notes /\ k \in check[c].rows /\ status[k] = "claimed" /\ Without(c, k)
  BY CurrentRow DEF MarkSent, ReleaseRow
<1>2. /\ faults' \in [Failures -> Nat]
      /\ Losses \in Nat /\ Losses' \in Nat /\ Losses' >= Losses
      /\ \A g : Happened(g) => Happened(g)'
  BY FaultCounted, LossesCounted, NoFault DEF NotesInv, NotesTypeOK, MarkSent, ReleaseRow, Release
<1>3. /\ status' \in [Notes -> {"none", "queued", "claimed", "sent"}]
      /\ \A n \in Notes \ {k} : status'[n] = status[n]
      /\ status'[k] # "claimed" \/ Happened("db")'
      /\ MarkSent(c) => status'[k] = "sent"
  <2>1. CASE MarkSent(c)
    BY <1>1, <2>1 DEF MarkSent, NotesInv, NotesTypeOK
  <2>2. CASE ReleaseRow(c) /\ status' = [n \in Notes |-> IF n \in {k} THEN "queued" ELSE status[n]]
    BY <1>1, <2>2 DEF NotesInv, NotesTypeOK, ReleaseRow, MarkSent
  <2>3. CASE ReleaseRow(c) /\ Fault("db") /\ UNCHANGED status
    BY <2>3, LossesCounted DEF NotesInv, NotesTypeOK, ReleaseRow, MarkSent
  <2> QED
    BY <2>1, <2>2, <2>3 DEF ReleaseRow, Release
<1>4. /\ UNCHANGED <<up, arr, about, age, mails>>
      /\ wait' \in [Notes -> 0..MaxDelay] /\ delay' \in [Notes -> 1..MaxDelay]
  BY NotesAssumption, <1>1 DEF NotesInv, NotesTypeOK, MarkSent, ReleaseRow
<1>5. NotesTypeOK'
  BY <1>1, <1>2, <1>3, <1>4, WithoutFacts DEF NotesInv, NotesTypeOK
<1>6. (ClaimsExclusive /\ ChecksHold /\ OwnersYoung /\ OnlyFailuresStrand)'
  BY <1>1, <1>2, <1>3, <1>4, WithoutFacts, RowsDropped DEF Stranding
<1>7. \A n \in Notes : Accounted(n) => Accounted(n)'
  <2>1. \A d \in Checkers \ {c} : check'[d] = check[d]
    BY <1>1, WithoutFacts
  <2>2. CASE MarkSent(c)
    BY <1>1, <1>3, <2>1, <2>2 DEF Accounted
  <2>3. CASE ReleaseRow(c)
    BY <1>1, <1>3, <2>1, <2>3 DEF Accounted, ReleaseRow
  <2> QED
    BY <2>2, <2>3
<1>8. MailsCounted'
  BY <1>2, <1>4, <1>7, MailsKept
<1> QED
  BY <1>5, <1>6, <1>8 DEF NotesInv

-----------------------------------------------------------------------------
(* Time, crash, boot and new rows. *)

LEMMA TickInv ==
    ASSUME NotesInv, Tick
    PROVE  NotesInv'
<1>1. /\ UNCHANGED <<up, arr, status, about, delay, mails, faults>> /\ up # "booting"
      /\ check \in [Checkers -> CheckRecord]
  BY DEF Tick, NotesInv, NotesTypeOK
<1>2. /\ check' \in [Checkers -> CheckRecord]
      /\ \A c \in Checkers : /\ check'[c].step = check[c].step /\ check'[c].rows = check[c].rows
                             /\ check'[c].cur = check[c].cur
  <2> DEFINE since(c) == IF check[c].step \in {"idle", "claimed"} THEN 0
                         ELSE Lesser(check[c].since + 1, MaxDelay)
  <2>1. check' = [c \in Checkers |-> [check[c] EXCEPT !.since = since(c)]]
    BY DEF Tick
  <2>2. \A c \in Checkers : since(c) \in 0..MaxDelay
    BY <1>1, NotesAssumption DEF CheckRecord, Lesser
  <2> HIDE DEF since
  <2>3. ASSUME NEW c \in Checkers
        PROVE  /\ check'[c] \in CheckRecord
               /\ check'[c].step = check[c].step /\ check'[c].rows = check[c].rows
               /\ check'[c].cur = check[c].cur
    <3>1. check'[c] = [check[c] EXCEPT !.since = since(c)] /\ check[c] \in CheckRecord
      BY <1>1, <2>1
    <3> QED
      BY <2>2, <3>1 DEF CheckRecord
  <2> QED
    BY <2>1, <2>3
<1>3. wait' \in [Notes -> 0..MaxDelay]
  BY NotesAssumption DEF Tick, Remaining, NotesInv, NotesTypeOK
<1>4. age' \in [Notes -> 0..(Grace + 1)]
  BY NotesAssumption DEF Tick, Lesser, NotesInv, NotesTypeOK
<1>5. NotesTypeOK'
  BY <1>1, <1>2, <1>3, <1>4 DEF NotesInv, NotesTypeOK
<1>6. (ClaimsExclusive /\ ChecksHold /\ OwnersYoung)'
  BY <1>1, <1>2 DEF NotesInv, ClaimsExclusive, ChecksHold, OwnersYoung
<1>7. OnlyFailuresStrand'
  BY <1>1, <1>2 DEF NotesInv, OnlyFailuresStrand, Owned, Happened
<1>8. MailsCounted'
  <2>1. \A n \in Notes : Accounted(n) => Accounted(n)'
    BY <1>1, <1>2 DEF Accounted
  <2> QED
    BY <1>1, <2>1, NoFault, MailsKept DEF NotesInv
<1> QED
  BY <1>5, <1>6, <1>7, <1>8 DEF NotesInv

LEMMA NotesCrashInv ==
    ASSUME NotesInv, NotesCrash
    PROVE  NotesInv'
<1>1. /\ faults' \in [Failures -> Nat] /\ Losses \in Nat /\ Losses' = Losses + 1
      /\ Happened("crash")'
  BY FaultCounted, LossesCounted DEF NotesCrash, NotesInv
<1>2. /\ check' \in [Checkers -> CheckRecord]
      /\ \A c \in Checkers : check'[c].rows = {} /\ check'[c].step = "idle"
  BY NoCheckFacts DEF NotesCrash
<1>3. NotesTypeOK'
  BY <1>1, <1>2, NotesAssumption DEF NotesInv, NotesTypeOK, NotesCrash, rowVars
<1>4. (ClaimsExclusive /\ ChecksHold /\ OwnersYoung /\ OnlyFailuresStrand)'
  BY <1>1, <1>2 DEF ClaimsExclusive, ChecksHold, OwnersYoung, OnlyFailuresStrand
<1>5. MailsCounted'
  BY <1>1, MailsKept DEF NotesCrash
<1> QED
  BY <1>3, <1>4, <1>5 DEF NotesInv

LEMMA BootInv ==
    ASSUME NotesInv, Boot
    PROVE  NotesInv'
<1>1. NotesTypeOK'
  BY DEF NotesInv, NotesTypeOK, Boot, rowVars
<1>2. (ClaimsExclusive /\ ChecksHold /\ OwnersYoung /\ OnlyFailuresStrand)'
  BY DEF NotesInv, Boot, rowVars, ClaimsExclusive, ChecksHold, OwnersYoung, OnlyFailuresStrand, Owned, Happened
<1>3. MailsCounted'
  BY DEF NotesInv, Boot, rowVars, MailsCounted, Accounted, Losses, Count
<1> QED
  BY <1>1, <1>2, <1>3 DEF NotesInv

LEMMA ReconcileInv ==
    ASSUME NotesInv, Reconcile
    PROVE  NotesInv'
<1>1. /\ faults' \in [Failures -> Nat]
      /\ Losses \in Nat /\ Losses' \in Nat /\ Losses' >= Losses
      /\ \A g : Happened(g) => Happened(g)'
  BY FaultCounted, LossesCounted, NoFault DEF NotesInv, NotesTypeOK, Reconcile
<1>2. UNCHANGED <<arr, about, age, wait, delay, check, mails>> /\ up' = "serving" /\ up = "booting"
  BY DEF Reconcile
<1>3. /\ status' \in [Notes -> {"none", "queued", "claimed", "sent"}]
      /\ \A n \in Notes \ Stranded : status'[n] = status[n]
      /\ \A n \in Stranded : status[n] = "claimed"
      /\ \A n \in Notes : status'[n] = "claimed" => status[n] = "claimed"
  BY DEF Reconcile, Stranded, NotesInv, NotesTypeOK
<1>4. \A c \in Checkers : \A n \in check[c].rows : n \in Notes \ Stranded
  <2> SUFFICES ASSUME NEW c \in Checkers, NEW n \in check[c].rows
               PROVE  n \in Notes \ Stranded
    OBVIOUS
  <2>1. n \in Notes /\ age[n] = 0
    BY <1>2 DEF NotesInv, NotesTypeOK, CheckRecord, OwnersYoung
  <2> QED
    BY <2>1, NotesAssumption DEF Stranded
<1>5. NotesTypeOK'
  BY <1>1, <1>2, <1>3 DEF NotesInv, NotesTypeOK
<1>6. (ClaimsExclusive /\ ChecksHold /\ OwnersYoung)'
  BY <1>2, <1>3, <1>4 DEF NotesInv, ClaimsExclusive, ChecksHold, OwnersYoung
<1>7. OnlyFailuresStrand'
  BY <1>1, <1>2, <1>3 DEF NotesInv, OnlyFailuresStrand, Owned
<1>8. \A n \in Notes : Accounted(n) => Accounted(n)'
  BY <1>2, <1>3 DEF Accounted
<1>9. MailsCounted'
  BY <1>1, <1>2, <1>8, MailsKept
<1> QED
  BY <1>5, <1>6, <1>7, <1>9 DEF NotesInv

LEMMA RecordNoteInv ==
    ASSUME NotesInv, NEW t \in Titles, RecordNote(t),
           UNCHANGED <<up, arr, age, wait, delay, check, mails, faults>>
    PROVE  NotesInv'
<1>1. PICK n \in Notes : /\ status[n] = "none" /\ status' = [status EXCEPT ![n] = "queued"]
                         /\ about' = [about EXCEPT ![n] = t]
  BY DEF RecordNote
<1>2. NotesTypeOK'
  BY <1>1 DEF NotesInv, NotesTypeOK
<1>3. \A c \in Checkers : \A m \in check[c].rows : m \in Notes /\ m # n
  BY <1>1 DEF NotesInv, NotesTypeOK, CheckRecord, ClaimsExclusive
<1>4. \A m \in Notes \ {n} : status'[m] = status[m]
  BY <1>1 DEF NotesInv, NotesTypeOK
<1>5. status'[n] = "queued"
  BY <1>1 DEF NotesInv, NotesTypeOK
<1>6. (ClaimsExclusive /\ ChecksHold /\ OwnersYoung)'
  BY <1>3, <1>4 DEF NotesInv, ClaimsExclusive, ChecksHold, OwnersYoung
<1>7. OnlyFailuresStrand'
  BY <1>4, <1>5 DEF NotesInv, OnlyFailuresStrand, Owned, Happened
<1>8. \A m \in Notes : Accounted(m) => Accounted(m)'
  BY <1>1, <1>4 DEF Accounted
<1>9. MailsCounted'
  BY <1>8, NoFault, MailsKept DEF NotesInv
<1> QED
  BY <1>2, <1>6, <1>7, <1>9 DEF NotesInv

-----------------------------------------------------------------------------
(* Links. *)

\* The request that has claimed a token and has yet to give its answer.
Owns(w, k) ==
    /\ \/ req[w].step \in {"arr", "record", "uncache", "unclaim"}
       \/ req[w].step = "cache" /\ req[w].won
    /\ req[w].token = k

\* Steps before and after the call are for tokens only.
TokensClaimed ==
    \A w \in Workers : req[w].step \in {"claim", "cache", "uncache", "unclaim"} => req[w].token \in Tokens

\* An owned token is in the table, has downloaded nothing, and has one owner.
OwnersExclusive ==
    \A k \in Tokens : \A w \in Workers : Owns(w, k) =>
        k \in used /\ granted[k] = 0 /\ \A v \in Workers : Owns(v, k) => v = w

\* A token that has downloaded stays in the table.
GrantsRecorded == \A k \in Tokens : granted[k] > 0 => k \in used

\* A token in the table has an owner, has had its answer, or met a failure.
UsedForAReason ==
    \A k \in used : k \in settled \/ (\E w \in Workers : Owns(w, k)) \/ Happened("db") \/ Happened("crash")

LinksInv ==
    /\ LinksTypeOK
    /\ TokensClaimed
    /\ OwnersExclusive
    /\ GrantsRecorded
    /\ LinkGrantedOnce
    /\ UsedForAReason

\* A step of one request: what it owns afterwards it owned before or has just
\* put into the table, and it changes no token but its own.
LEMMA OneRequestMoves ==
    ASSUME LinksInv, LinksTypeOK', NEW w \in Workers,
           \A v \in Workers \ {w} : req'[v] = req[v],
           req'[w].step \in {"claim", "cache", "uncache", "unclaim"} => req'[w].token \in Tokens,
           \A k \in Tokens : Owns(w, k)' =>
                k \in used' /\ granted'[k] = 0 /\ (Owns(w, k) \/ k \notin used),
           \A k \in Tokens : Owns(w, k) \/ (granted'[k] = granted[k] /\ (k \in used => k \in used')),
           \A k \in Tokens : Owns(w, k) => granted'[k] <= 1 /\ (granted'[k] > 0 => k \in used'),
           \A k \in used' : k \in used \/ Owns(w, k)',
           \A k \in used' : Owns(w, k) =>
                k \in settled' \/ Owns(w, k)' \/ Happened("db")' \/ Happened("crash")',
           settled \subseteq settled',
           \A g : Happened(g) => Happened(g)'
    PROVE  LinksInv'
<1>1. \A v \in Workers \ {w} : \A k : Owns(v, k)' <=> Owns(v, k)
  BY DEF Owns
<1>2. TokensClaimed'
  BY DEF LinksInv, TokensClaimed
<1>3. OwnersExclusive'
  <2> SUFFICES ASSUME NEW k \in Tokens, NEW u \in Workers, Owns(u, k)'
               PROVE  k \in used' /\ granted'[k] = 0 /\ \A v \in Workers : Owns(v, k)' => v = u
    BY DEF OwnersExclusive
  <2>1. CASE u = w
    <3>1. \A v \in Workers \ {w} : ~Owns(v, k)
      BY <2>1 DEF LinksInv, OwnersExclusive
    <3> QED
      BY <1>1, <2>1, <3>1
  <2>2. CASE u # w
    <3>1. Owns(u, k) /\ ~Owns(w, k) /\ k \in used /\ granted[k] = 0
      BY <1>1, <2>2 DEF LinksInv, OwnersExclusive
    <3>2. ~Owns(w, k)'
      BY <3>1
    <3> QED
      BY <1>1, <2>2, <3>1, <3>2 DEF LinksInv, OwnersExclusive
  <2> QED
    BY <2>1, <2>2
<1>4. GrantsRecorded'
  BY DEF LinksInv, GrantsRecorded
<1>5. LinkGrantedOnce'
  BY DEF LinksInv, LinkGrantedOnce
<1>6. UsedForAReason'
  <2> SUFFICES ASSUME NEW k \in used'
               PROVE  \/ k \in settled' \/ (\E v \in Workers : Owns(v, k)')
                      \/ Happened("db")' \/ Happened("crash")'
    BY DEF UsedForAReason
  <2>1. CASE Owns(w, k) \/ Owns(w, k)'
    BY <2>1
  <2>2. CASE ~Owns(w, k) /\ ~Owns(w, k)'
    <3>1. k \in used
      BY <2>2
    <3>2. \/ k \in settled \/ (\E v \in Workers \ {w} : Owns(v, k))
          \/ Happened("db") \/ Happened("crash")
      BY <2>2, <3>1 DEF LinksInv, UsedForAReason
    <3> QED
      BY <1>1, <3>2
  <2> QED
    BY <2>1, <2>2
<1> QED
  BY <1>2, <1>3, <1>4, <1>5, <1>6 DEF LinksInv

LEMMA RequestFacts ==
    ASSUME LinksTypeOK, NEW w \in Workers, req[w].step # "idle"
    PROVE  /\ req[w] \in [step : {"claim", "cache", "arr", "record", "uncache", "unclaim"},
                          token : Tokens \union {NoToken}, title : Titles, won : BOOLEAN]
           /\ req \in [Workers -> Request]
BY DEF LinksTypeOK, Request, NoRequest

LEMMA GotoFacts ==
    ASSUME LinksTypeOK, NEW w \in Workers, req[w].step # "idle",
           NEW s \in {"claim", "cache", "arr", "record", "uncache", "unclaim"}, Goto(w, s)
    PROVE  /\ req' \in [Workers -> Request]
           /\ \A v \in Workers \ {w} : req'[v] = req[v]
           /\ req'[w].step = s /\ req'[w].token = req[w].token /\ req'[w].won = req[w].won
<1>1. req' = [req EXCEPT ![w].step = s]
  BY DEF Goto
<1>2. [req[w] EXCEPT !.step = s] \in Request
  BY RequestFacts DEF Request
<1> QED
  BY <1>1, <1>2, RequestFacts

LEMMA DoneFacts ==
    ASSUME LinksTypeOK, NEW w \in Workers, Done(w)
    PROVE  /\ req' \in [Workers -> Request]
           /\ \A v \in Workers \ {w} : req'[v] = req[v]
           /\ req'[w].step = "idle"
BY DEF LinksTypeOK, Done, Request, NoRequest

\* A call that is given up leaves its token owned, or had none.
LEMMA GiveUpFacts ==
    ASSUME LinksTypeOK, NEW w \in Workers, req[w].step # "idle", GiveUp(w)
    PROVE  /\ req' \in [Workers -> Request]
           /\ \A v \in Workers \ {w} : req'[v] = req[v]
           /\ \/ req'[w].step = "idle" /\ req[w].token = NoToken
              \/ /\ req'[w].step = "uncache" /\ req'[w].token = req[w].token /\ req[w].token \in Tokens
<1>1. CASE req[w].token = NoToken
  BY <1>1, DoneFacts DEF GiveUp
<1>2. CASE req[w].token # NoToken
  BY <1>2, GotoFacts, RequestFacts DEF GiveUp
<1> QED
  BY <1>1, <1>2

\* A request begins: it owns nothing yet.
LEMMA SubmitInv ==
    ASSUME LinksInv, NEW w \in Workers,
           \/ \E k \in Tokens : SubmitLink(w, k)
           \/ \E t \in Titles : SubmitButton(w, t)
    PROVE  LinksInv'
<1>1. PICK r \in Request :
        /\ req' = [req EXCEPT ![w] = r]
        /\ \/ r.step = "claim" /\ r.token \in Tokens
           \/ r.step = "arr" /\ r.token = NoToken
  <2>1. ASSUME NEW k \in Tokens, SubmitLink(w, k)
        PROVE  \E r \in Request : req' = [req EXCEPT ![w] = r] /\ r.step = "claim" /\ r.token \in Tokens
    <3> DEFINE r == [step |-> "claim", token |-> k, title |-> TitleOf[k], won |-> FALSE]
    <3>1. r \in Request /\ r.step = "claim" /\ r.token \in Tokens
      BY LinksAssumption DEF Request
    <3> QED
      BY <2>1, <3>1 DEF SubmitLink
  <2>2. ASSUME NEW t \in Titles, SubmitButton(w, t)
        PROVE  \E r \in Request : req' = [req EXCEPT ![w] = r] /\ r.step = "arr" /\ r.token = NoToken
    <3> DEFINE r == [step |-> "arr", token |-> NoToken, title |-> t, won |-> TRUE]
    <3>1. r \in Request /\ r.step = "arr" /\ r.token = NoToken
      BY DEF Request
    <3> QED
      BY <2>2, <3>1 DEF SubmitButton
  <2> QED
    BY <2>1, <2>2
<1>2. UNCHANGED <<expired, used, granted, settled, overtaken, faults>> /\ req[w].step = "idle"
  BY DEF SubmitLink, SubmitButton, Step, notesVars
<1>3. cache' \subseteq Tokens
  BY DEF SubmitLink, SubmitButton, Trimmed, LinksInv, LinksTypeOK
<1>4. LinksTypeOK'
  BY <1>1, <1>2, <1>3 DEF LinksInv, LinksTypeOK
<1>5. /\ req'[w] = r /\ \A v \in Workers \ {w} : req'[v] = req[v]
      /\ \A k \in Tokens : ~Owns(w, k) /\ ~Owns(w, k)'
  BY <1>1, <1>2, LinksAssumption DEF LinksInv, LinksTypeOK, Owns
<1>6. \A g : Happened(g) => Happened(g)'
  BY <1>2 DEF Happened
<1>7. req'[w].step \in {"claim", "cache", "uncache", "unclaim"} => req'[w].token \in Tokens
  BY <1>1, <1>5
<1> QED
  BY <1>2, <1>4, <1>5, <1>6, <1>7, OneRequestMoves DEF LinksInv, LinksTypeOK

\* Steps of the call itself: the token stays in the table.
LEMMA CallInv ==
    ASSUME LinksInv, NotesTypeOK, NEW w \in Workers,
           \/ CannotAdd(w) \/ AddTitle(w) \/ AlreadyThere(w) \/ AddFails(w) \/ RecordFails(w) \/ Uncache(w)
    PROVE  LinksInv'
<1>1. /\ UNCHANGED <<expired, used, granted, overtaken>> /\ req[w].step \in {"arr", "record", "uncache"}
      /\ settled \subseteq settled' /\ settled' \subseteq Tokens /\ cache' \subseteq Tokens
  BY DEF CannotAdd, AddTitle, AlreadyThere, AddFails, RecordFails, Uncache, Step, LinksInv, LinksTypeOK
<1>2. \A g : Happened(g) => Happened(g)'
  BY LossesCounted, NoFault DEF CannotAdd, AddTitle, AlreadyThere, AddFails, RecordFails, Uncache, notesVars
<1>3. /\ req' \in [Workers -> Request]
      /\ \A v \in Workers \ {w} : req'[v] = req[v]
      /\ \/ /\ req'[w].step \in {"record", "uncache", "unclaim"} /\ req'[w].token = req[w].token
            /\ req'[w].step # "record" => req[w].token \in Tokens
         \/ req'[w].step = "idle" /\ (req[w].token \in Tokens => req[w].token \in settled')
  <2>1. CASE CannotAdd(w) \/ AddFails(w) \/ RecordFails(w)
    BY <1>1, <2>1, GiveUpFacts, LinksAssumption DEF CannotAdd, AddFails, RecordFails, LinksInv
  <2>2. CASE AddTitle(w)
    BY <1>1, <2>2, GotoFacts DEF AddTitle, LinksInv
  <2>3. CASE AlreadyThere(w) /\ req[w].token \in Redownloads
    BY <1>1, <2>3, GiveUpFacts, LinksAssumption DEF AlreadyThere, LinksInv
  <2>4. CASE AlreadyThere(w) /\ req[w].token \notin Redownloads
    BY <2>4, DoneFacts DEF AlreadyThere, LinksInv
  <2>5. CASE Uncache(w)
    <3>1. Goto(w, "unclaim") /\ req[w].step = "uncache"
      BY <2>5 DEF Uncache, Step
    <3>2. req[w].token \in Tokens
      BY <3>1 DEF LinksInv, TokensClaimed
    <3> QED
      BY <1>1, <3>1, <3>2, GotoFacts DEF LinksInv
  <2> QED
    BY <2>1, <2>2, <2>3, <2>4, <2>5
<1>4. LinksTypeOK'
  BY <1>1, <1>3 DEF LinksInv, LinksTypeOK
<1>5. \A k \in Tokens : Owns(w, k) <=> req[w].token = k
  BY <1>1 DEF Owns
<1>6. \A k \in Tokens : Owns(w, k)' => Owns(w, k)
  BY <1>3, <1>5 DEF Owns
<1>7. \A k \in Tokens : Owns(w, k) => Owns(w, k)' \/ k \in settled'
  BY <1>3, <1>5 DEF Owns
<1>8. /\ \A k \in Tokens : Owns(w, k) => k \in used /\ granted[k] = 0
      /\ used \subseteq Tokens
  BY DEF LinksInv, OwnersExclusive, LinksTypeOK
<1> QED
  BY <1>1, <1>2, <1>3, <1>4, <1>6, <1>7, <1>8, OneRequestMoves DEF LinksInv, LinkGrantedOnce

\* The token is claimed, or the claim is lost.
LEMMA ClaimInv ==
    ASSUME LinksInv, NotesTypeOK, NEW w \in Workers, ClaimToken(w) \/ CacheToken(w)
    PROVE  LinksInv'
<1>1. /\ UNCHANGED <<expired, granted, settled>> /\ req[w].step \in {"claim", "cache"}
      /\ req[w].token \in Tokens /\ req[w] \in Request
  BY RequestFacts DEF ClaimToken, CacheToken, Step, LinksInv, TokensClaimed, LinksTypeOK
<1>2. \A g : Happened(g) => Happened(g)'
  BY LossesCounted, NoFault DEF ClaimToken, CacheToken, notesVars
<1>3. CASE ClaimToken(w) /\ used' = used \union {req[w].token}
    /\ req' = [req EXCEPT ![w].step = "cache", ![w].won = req[w].token \notin used]
  <2>1. /\ req' \in [Workers -> Request]
        /\ \A v \in Workers \ {w} : req'[v] = req[v]
        /\ req'[w].step = "cache" /\ req'[w].token = req[w].token
        /\ req'[w].won = (req[w].token \notin used)
    <3>1. [req[w] EXCEPT !.step = "cache", !.won = req[w].token \notin used] \in Request
      BY <1>1, RequestFacts DEF Request, LinksInv
    <3> QED
      BY <1>1, <1>3, <3>1, RequestFacts DEF LinksInv
  <2>2. LinksTypeOK'
    BY <1>1, <1>3, <2>1 DEF LinksInv, LinksTypeOK, ClaimToken
  <2>3. /\ \A k \in Tokens : ~Owns(w, k)
        /\ \A k \in Tokens : Owns(w, k)' <=> k = req[w].token /\ k \notin used
    BY <1>3, <2>1 DEF Owns, ClaimToken, Step
  <2>4. \A k \in Tokens : granted[k] \in Nat /\ (granted[k] > 0 => k \in used)
    BY DEF LinksInv, GrantsRecorded, LinksTypeOK
  <2>5. used' \subseteq Tokens /\ UNCHANGED <<granted, settled>>
    BY <1>1, <2>2 DEF LinksTypeOK
  <2>6. \A k \in Tokens : Owns(w, k)' => k \in used' /\ granted'[k] = 0 /\ k \notin used
    BY <1>1, <1>3, <2>3, <2>4
  <2>7. \A k \in used' : k \in used \/ Owns(w, k)'
    BY <1>3, <2>3, <2>5
  <2> QED
    BY <1>1, <1>2, <1>3, <2>1, <2>2, <2>3, <2>5, <2>6, <2>7, OneRequestMoves
<1>4. CASE ClaimToken(w) /\ Done(w) /\ UNCHANGED used
  <2>1. LinksTypeOK'
    BY <1>1, <1>4, DoneFacts DEF LinksInv, LinksTypeOK, ClaimToken
  <2>2. \A k \in Tokens : ~Owns(w, k) /\ ~Owns(w, k)'
    BY <1>4, DoneFacts DEF Owns, ClaimToken, Step, LinksInv
  <2>3. used \subseteq Tokens
    BY DEF LinksInv, LinksTypeOK
  <2> QED
    <3>1. /\ \A v \in Workers \ {w} : req'[v] = req[v]
          /\ req'[w].step = "idle" /\ UNCHANGED <<used, granted, settled>>
      BY <1>1, <1>4, DoneFacts DEF LinksInv
    <3> QED
      BY <1>2, <2>1, <2>2, <2>3, <3>1, OneRequestMoves
<1>5. CASE CacheToken(w)
  <2>1. /\ req' \in [Workers -> Request]
        /\ \A v \in Workers \ {w} : req'[v] = req[v]
        /\ \/ req[w].won /\ req'[w].step = "arr" /\ req'[w].token = req[w].token
           \/ ~req[w].won /\ req'[w].step = "idle"
    BY <1>1, <1>5, GotoFacts, DoneFacts DEF CacheToken, Step, LinksInv
  <2>2. LinksTypeOK' /\ used' = used
    BY <1>1, <1>5, <2>1 DEF LinksInv, LinksTypeOK, CacheToken, notesVars
  <2>3. \A k \in Tokens : Owns(w, k)' <=> Owns(w, k)
    BY <1>5, <2>1 DEF Owns, CacheToken, Step
  <2>4. \A k \in Tokens : Owns(w, k) => k \in used /\ granted[k] = 0
    BY DEF LinksInv, OwnersExclusive
  <2> QED
    BY <1>1, <1>2, <2>1, <2>2, <2>3, <2>4, OneRequestMoves DEF LinksInv, LinksTypeOK
<1> QED
  BY <1>3, <1>4, <1>5 DEF ClaimToken

\* The token has its download, or goes back.
LEMMA SettleInv ==
    ASSUME LinksInv, NotesTypeOK, NEW w \in Workers, Record(w) \/ Unclaim(w)
    PROVE  LinksInv'
<1> DEFINE t == req[w].token
<1>1. /\ Done(w) /\ UNCHANGED <<expired, overtaken>> /\ cache' = cache /\ req[w].step \in {"record", "unclaim"}
      /\ settled' = settled \union (IF Record(w) THEN {t} \intersect Tokens ELSE {})
  BY DEF Record, Unclaim, Step
<1>2. \A g : Happened(g) => Happened(g)'
  BY LossesCounted, NoFault DEF Record, Unclaim
<1>3. \A k \in Tokens : /\ Owns(w, k) <=> k = t
                        /\ ~Owns(w, k)'
                        /\ Owns(w, k) => k \in used /\ granted[k] = 0
                        /\ granted[k] \in Nat
  BY <1>1, DoneFacts DEF Owns, LinksInv, OwnersExclusive, LinksTypeOK
<1>4. CASE Record(w)
  <2>1. /\ used' = used
        /\ granted' = [k \in Tokens |-> IF k = t THEN granted[k] + 1 ELSE granted[k]]
    BY <1>4 DEF Record
  <2>2. LinksTypeOK'
    BY <1>1, <1>3, <2>1, DoneFacts DEF LinksInv, LinksTypeOK
  <2>3. \A k \in used' : Owns(w, k) => k \in settled'
    BY <1>1, <1>3, <1>4, <2>1 DEF LinksInv, LinksTypeOK
  <2> QED
    BY <1>1, <1>2, <1>3, <2>1, <2>2, <2>3, DoneFacts, OneRequestMoves DEF LinksInv
<1>5. CASE Unclaim(w)
  <2>1. /\ granted' = granted /\ settled' = settled
        /\ \/ used' = used \ {t}
           \/ used' = used /\ Happened("db")'
    BY <1>5, LossesCounted DEF Unclaim
  <2>2. LinksTypeOK'
    BY <1>1, <2>1, DoneFacts DEF LinksInv, LinksTypeOK
  <2> QED
    BY <1>1, <1>2, <1>3, <2>1, <2>2, DoneFacts, OneRequestMoves DEF LinksInv, LinksTypeOK
<1> QED
  BY <1>4, <1>5

\* A cached token is in the table and stays there, or was overtaken.
CachedForAReason == \A k \in cache : k \in overtaken \/ ~Released(k)

\* A step that caches nothing and begins or completes no release.
LEMMA CacheQuiet ==
    ASSUME CachedForAReason, cache' \subseteq cache, used \subseteq used', overtaken \subseteq overtaken',
           \A w \in Workers : req'[w].step = "unclaim" =>
                req[w].step = "unclaim" /\ req'[w].token = req[w].token
    PROVE  CachedForAReason'
BY DEF CachedForAReason, Released, Step

\* The steps that cache a token or release one.
LEMMA CacheInv ==
    ASSUME LinksInv, CachedForAReason, NEW w \in Workers, CacheToken(w) \/ Uncache(w) \/ Unclaim(w)
    PROVE  CachedForAReason'
<1> DEFINE t == req[w].token
<1>1. LinksTypeOK
  BY DEF LinksInv
<1>2. CASE CacheToken(w)
  <2>1. /\ \A v \in Workers \ {w} : req'[v] = req[v]
        /\ req'[w].step # "unclaim" /\ UNCHANGED used
        /\ cache' = cache \union {t}
        /\ overtaken' = overtaken \union {k \in {t} : ~req[w].won /\ Released(k)}
    BY <1>1, <1>2, GotoFacts, DoneFacts DEF CacheToken, Step
  <2>2. \A k : Released(k)' => Released(k)
    BY <2>1 DEF Released, Step
  <2>3. req[w].won => ~Released(t)
    <3>1. t \in Tokens
      BY <1>2 DEF CacheToken, Step, LinksInv, TokensClaimed
    <3>2. ASSUME req[w].won
          PROVE  t \in used /\ \A v \in Workers : Owns(v, t) => v = w
      BY <1>2, <3>1, <3>2 DEF LinksInv, OwnersExclusive, Owns, CacheToken, Step
    <3>3. ~Step(w, "unclaim") /\ \A v \in Workers : Step(v, "unclaim") /\ req[v].token = t => Owns(v, t)
      BY <1>2 DEF CacheToken, Step, Owns
    <3> QED
      BY <3>2, <3>3 DEF Released
  <2> QED
    BY <2>1, <2>2, <2>3 DEF CachedForAReason
<1>3. CASE Uncache(w)
  <2>1. /\ \A v \in Workers \ {w} : req'[v] = req[v]
        /\ req'[w].token = t /\ UNCHANGED <<used, overtaken>> /\ cache' = cache \ {t}
    BY <1>1, <1>3, GotoFacts DEF Uncache, Step
  <2>2. \A k : k # t /\ Released(k)' => Released(k)
    BY <2>1 DEF Released, Step
  <2> QED
    BY <2>1, <2>2 DEF CachedForAReason
<1>4. CASE Unclaim(w)
  <2>1. /\ \A v \in Workers \ {w} : req'[v] = req[v]
        /\ req'[w].step = "idle" /\ UNCHANGED <<cache, overtaken>>
        /\ used' = used \/ used' = used \ {t}
        /\ Step(w, "unclaim")
    BY <1>1, <1>4, DoneFacts DEF Unclaim
  <2>2. Released(t) /\ \A k : k # t /\ Released(k)' => Released(k)
    BY <2>1 DEF Released, Step
  <2> QED
    BY <2>1, <2>2 DEF CachedForAReason
<1> QED
  BY <1>2, <1>3, <1>4

\* No other step caches a token or releases one.
LEMMA CacheKept ==
    ASSUME LinksInv, CachedForAReason, Requests \/ Announcements \/ Crash \/ UNCHANGED vars
    PROVE  CachedForAReason'
<1>1. LinksTypeOK
  BY DEF LinksInv
<1>2. CASE Announcements \/ UNCHANGED vars \/ \E k \in Tokens : Expire(k)
  BY <1>2, CacheQuiet DEF Announcements, vars, linkVars, Expire
<1>3. CASE Crash
  BY <1>3 DEF Crash, CachedForAReason
<1>4. ASSUME NEW w \in Workers, CacheToken(w) \/ Uncache(w) \/ Unclaim(w)
      PROVE  CachedForAReason'
  BY <1>4, CacheInv
<1>5. ASSUME NEW w \in Workers, CannotAdd(w) \/ AddFails(w) \/ RecordFails(w) \/ AlreadyThere(w)
      PROVE  CachedForAReason'
  <2>1. req[w].step # "idle" /\ UNCHANGED <<used, cache, overtaken>> /\ (GiveUp(w) \/ Done(w))
    BY <1>5 DEF CannotAdd, AddFails, RecordFails, AlreadyThere, Step
  <2>2. req'[w].step # "unclaim" /\ \A v \in Workers \ {w} : req'[v] = req[v]
    BY <1>1, <2>1, GiveUpFacts, DoneFacts
  <2> QED
    BY <2>1, <2>2, CacheQuiet
<1>6. ASSUME NEW w \in Workers, AddTitle(w) \/ Record(w) \/ ClaimToken(w)
      PROVE  CachedForAReason'
  <2>1. UNCHANGED <<cache, overtaken>> /\ used \subseteq used' /\ req[w].step # "idle"
    BY <1>6 DEF AddTitle, Record, ClaimToken, Step
  <2>2. req'[w].step # "unclaim" /\ \A v \in Workers \ {w} : req'[v] = req[v]
    <3>1. CASE AddTitle(w)
      BY <1>1, <2>1, <3>1, GotoFacts DEF AddTitle
    <3>2. CASE Done(w)
      BY <1>1, <3>2, DoneFacts
    <3>3. CASE req' = [req EXCEPT ![w].step = "cache", ![w].won = req[w].token \notin used]
      BY <1>1, <2>1, <3>3, RequestFacts
    <3> QED
      BY <1>6, <3>1, <3>2, <3>3 DEF Record, ClaimToken
  <2> QED
    BY <2>1, <2>2, CacheQuiet
<1>7. ASSUME NEW w \in Workers, (\E k \in Tokens : SubmitLink(w, k)) \/ \E t \in Titles : SubmitButton(w, t)
      PROVE  CachedForAReason'
  <2>1. cache' \subseteq cache /\ UNCHANGED <<used, overtaken>>
    BY <1>7 DEF SubmitLink, SubmitButton, Trimmed
  <2>2. req'[w].step # "unclaim" /\ \A v \in Workers \ {w} : req'[v] = req[v]
    BY <1>1, <1>7 DEF SubmitLink, SubmitButton, LinksTypeOK
  <2> QED
    BY <2>1, <2>2, CacheQuiet
<1> QED
  BY <1>2, <1>3, <1>4, <1>5, <1>6, <1>7 DEF Requests

\* Everything else leaves requests and tokens alone, or is a crash.
LEMMA LinksQuiet ==
    ASSUME LinksInv, UNCHANGED <<used, cache, req, granted, settled, overtaken>>, expired' \subseteq Tokens,
           \A g : Happened(g) => Happened(g)'
    PROVE  LinksInv'
<1>1. \A w \in Workers : \A k : Owns(w, k)' <=> Owns(w, k)
  BY DEF Owns
<1>2. (LinksTypeOK /\ TokensClaimed /\ GrantsRecorded /\ LinkGrantedOnce)'
  BY DEF LinksInv, LinksTypeOK, TokensClaimed, GrantsRecorded, LinkGrantedOnce
<1>3. OwnersExclusive'
  BY <1>1 DEF LinksInv, OwnersExclusive
<1>4. UsedForAReason'
  BY <1>1 DEF LinksInv, UsedForAReason
<1> QED
  BY <1>2, <1>3, <1>4 DEF LinksInv

LEMMA LinksCrash ==
    ASSUME LinksInv, NotesTypeOK, Crash
    PROVE  LinksInv'
<1>1. Happened("crash")'
  BY LossesCounted DEF Crash, NotesCrash
<1>2. LinksTypeOK' /\ \A w \in Workers : req'[w].step = "idle"
  BY DEF Crash, LinksInv, LinksTypeOK, Request, NoRequest
<1>3. (TokensClaimed /\ OwnersExclusive)'
  BY <1>2 DEF TokensClaimed, OwnersExclusive, Owns
<1>4. (GrantsRecorded /\ LinkGrantedOnce /\ UsedForAReason)'
  BY <1>1 DEF Crash, LinksInv, GrantsRecorded, LinkGrantedOnce, UsedForAReason
<1> QED
  BY <1>2, <1>3, <1>4 DEF LinksInv

-----------------------------------------------------------------------------
(* Theorems. *)

Inv == NotesInv /\ LinksInv /\ CachedForAReason

LEMMA InitInv == Init => Inv
<1> SUFFICES ASSUME Init PROVE Inv
  OBVIOUS
<1>1. NotesTypeOK
  BY NotesAssumption, NoCheckFacts DEF Init, NotesInit, NotesTypeOK
<1>2. \A c \in Checkers : check[c].rows = {} /\ check[c].step = "idle"
  BY NoCheckFacts DEF Init, NotesInit
<1>3. ClaimsExclusive /\ ChecksHold /\ OwnersYoung
  BY <1>2 DEF ClaimsExclusive, ChecksHold, OwnersYoung
<1>4. OnlyFailuresStrand
  BY DEF Init, NotesInit, OnlyFailuresStrand
<1>5. MailsCounted
  <2>1. Losses \in Nat
    BY <1>1 DEF Losses, Count, NotesTypeOK
  <2> QED
    BY <2>1 DEF MailsCounted, Init, NotesInit
<1>6. NotesInv
  BY <1>1, <1>3, <1>4, <1>5 DEF NotesInv
<1>7. LinksTypeOK /\ \A w \in Workers : req[w].step = "idle"
  BY DEF Init, LinksTypeOK, Request, NoRequest
<1>8. TokensClaimed /\ OwnersExclusive /\ GrantsRecorded /\ LinkGrantedOnce /\ UsedForAReason
  BY <1>7 DEF Init, TokensClaimed, OwnersExclusive, Owns, GrantsRecorded, LinkGrantedOnce, UsedForAReason
<1>9. CachedForAReason
  BY DEF Init, CachedForAReason
<1> QED
  BY <1>6, <1>7, <1>8, <1>9 DEF Inv, LinksInv

LEMMA CheckInv ==
    ASSUME NotesInv, NEW c \in Checkers, ClaimNotes(c) \/ CheckStep(c) \/ CheckFailure(c)
    PROVE  NotesInv'
<1>1. \/ ClaimNotes(c) \/ SameRowStep(c) \/ MarkSent(c) \/ ReleaseRow(c)
      \/ Unconfigured(c) \/ Partition(c) \/ CheckDies(c) \/ MailDies(c)
  BY DEF CheckStep, CheckFailure, SameRowStep
<1> QED
  BY <1>1, ClaimNotesInv, SameRowStepInv, LastRowStepInv, EarlyStepInv, MailDiesInv

\* Requests write rows in one place; elsewhere they meet the services.
LEMMA RequestKeepsNotes ==
    ASSUME Inv, Requests
    PROVE  NotesInv'
<1>1. CASE UNCHANGED notesVars
  BY <1>1, QuietStep DEF Inv, NotesInv, NotesTypeOK, notesVars
<1>2. CASE \E w \in Workers : Record(w)
  <2>1. PICK w \in Workers : Record(w)
    BY <1>2
  <2>2. req[w].title \in Titles
    BY <2>1, RequestFacts DEF Record, Step, Inv, LinksInv
  <2>3. CASE RecordNote(req[w].title)
    BY <2>1, <2>2, <2>3, RecordNoteInv DEF Record, Inv
  <2>4. CASE UNCHANGED <<status, about>>
    BY <2>1, <2>4, QuietStep DEF Record, Inv, NotesInv, NotesTypeOK, rowVars
  <2> QED
    BY <2>1, <2>3, <2>4 DEF Record
<1>3. ASSUME NEW w \in Workers,
             ClaimToken(w) \/ AddTitle(w) \/ AddFails(w) \/ RecordFails(w) \/ Unclaim(w)
      PROVE  NotesInv'
  <2>1. UNCHANGED <<up, rowVars, wait, delay, check, mails>>
    BY <1>3 DEF ClaimToken, AddTitle, AddFails, RecordFails, Unclaim
  <2>2. UNCHANGED faults \/ \E f : Fault(f)
    BY <1>3 DEF ClaimToken, AddTitle, AddFails, RecordFails, Unclaim
  <2>3. arr' \in [Titles -> {"absent", "wanted", "ready"}]
    BY <1>3 DEF ClaimToken, AddTitle, AddFails, RecordFails, Unclaim, Inv, NotesInv, NotesTypeOK
  <2> QED
    BY <2>1, <2>2, <2>3, QuietStep DEF Inv
<1> QED
  BY <1>1, <1>2, <1>3
     DEF Requests, CacheToken, CannotAdd, AlreadyThere, Uncache, SubmitLink, SubmitButton, Expire

LEMMA RequestKeepsLinks ==
    ASSUME Inv, Requests
    PROVE  LinksInv'
<1>1. CASE \E k \in Tokens : Expire(k)
  BY <1>1, LinksQuiet DEF Expire, Inv, LinksInv, LinksTypeOK, notesVars, Happened
<1>2. ASSUME NEW w \in Workers,
             \/ \E k \in Tokens : SubmitLink(w, k)
             \/ \E t \in Titles : SubmitButton(w, t)
      PROVE  LinksInv'
  BY <1>2, SubmitInv DEF Inv
<1>3. ASSUME NEW w \in Workers,
             \/ CannotAdd(w) \/ AddTitle(w) \/ AlreadyThere(w) \/ AddFails(w) \/ RecordFails(w)
             \/ Uncache(w) \/ ClaimToken(w) \/ CacheToken(w) \/ Record(w) \/ Unclaim(w)
      PROVE  LinksInv'
  BY <1>3, CallInv, ClaimInv, SettleInv DEF Inv, NotesInv
<1> QED
  BY <1>1, <1>2, <1>3 DEF Requests

LEMMA AnnouncementInv ==
    ASSUME Inv, Announcements
    PROVE  (NotesInv /\ LinksInv)'
<1>1. ASSUME Tick \/ Boot \/ Reconcile
             \/ \E c \in Checkers : ClaimNotes(c) \/ CheckStep(c) \/ CheckFailure(c)
      PROVE  NotesInv'
  BY <1>1, TickInv, BootInv, ReconcileInv, CheckInv DEF Inv
<1>2. ASSUME NEW t \in Titles, ArrImports(t) \/ ArrForgets(t)
      PROVE  NotesInv'
  <2>1. UNCHANGED <<up, rowVars, wait, delay, check, mails, faults>>
    BY <1>2 DEF ArrImports, ArrForgets
  <2>2. arr' \in [Titles -> {"absent", "wanted", "ready"}]
    BY <1>2 DEF ArrImports, ArrForgets, Inv, NotesInv, NotesTypeOK
  <2> QED
    BY <2>1, <2>2, QuietStep DEF Inv
<1>3. NotesInv'
  BY <1>1, <1>2 DEF Announcements
<1>4. UNCHANGED faults \/ \E f : Fault(f)
  BY DEF Announcements, Tick, Boot, Reconcile, ArrImports, ArrForgets, ClaimNotes, CheckStep, CheckFailure,
         Partition, Release, FetchIndex, SendMail, MarkSent, ReleaseRow, RowReady, RowNotReady,
         Unconfigured, CheckDies, MailFails, MailDies, MarkFails, RowUnreachable
<1>5. \A g : Happened(g) => Happened(g)'
  BY <1>4, LossesCounted, NoFault DEF Inv, NotesInv
<1>6. LinksInv'
  BY <1>5, LinksQuiet DEF Announcements, linkVars, Inv, LinksInv, LinksTypeOK
<1> QED
  BY <1>3, <1>6

LEMMA NextInv == Inv /\ [Next]_vars => Inv'
<1> SUFFICES ASSUME Inv, [Next]_vars PROVE Inv'
  OBVIOUS
<1>0. CachedForAReason'
  BY CacheKept DEF Inv, Next
<1>1. CASE Requests
  BY <1>0, <1>1, RequestKeepsNotes, RequestKeepsLinks DEF Inv
<1>2. CASE Announcements
  BY <1>0, <1>2, AnnouncementInv DEF Inv
<1>3. CASE Crash
  BY <1>0, <1>3, NotesCrashInv, LinksCrash DEF Crash, Inv, NotesInv
<1>4. CASE UNCHANGED vars
  <2>1. UNCHANGED notesVars /\ UNCHANGED linkVars
    BY <1>4 DEF vars
  <2>2. NotesInv'
    BY <2>1, QuietStep DEF Inv, NotesInv, NotesTypeOK, notesVars
  <2>3. LinksInv'
    BY <2>1, LinksQuiet DEF Inv, LinksInv, LinksTypeOK, linkVars, notesVars, Happened
  <2> QED
    BY <1>0, <2>2, <2>3 DEF Inv
<1> QED
  BY <1>1, <1>2, <1>3, <1>4 DEF Next

LEMMA InvAlways == Spec => []Inv
BY InitInv, NextInv, PTL DEF Spec

\* Rows, checks, links and requests stay within their types.
THEOREM DownloadsTyped == Spec => []TypeOK
<1>1. Inv => TypeOK
  BY DEF Inv, NotesInv, LinksInv, TypeOK
<1> QED
  BY <1>1, InvAlways, PTL

\* However syncs interleave, crash and restart, no row has two owners.
THEOREM ClaimsExclusiveAlways == Spec => []ClaimsExclusive
<1>1. Inv => ClaimsExclusive
  BY DEF Inv, NotesInv
<1> QED
  BY <1>1, InvAlways, PTL

\* A row is mailed at most once more than there were crashes, failures of the
\* mailer, failing statements and exceptions nobody catches.
THEOREM MailedOnceAlways == Spec => []MailedOnce
<1>1. Inv => MailedOnce
  <2> SUFFICES ASSUME Inv, NEW n \in Notes
               PROVE  mails[n] <= 1 + Count("crash") + Count("mail") + Count("db") + Count("uncaught")
    BY DEF MailedOnce, Count
  <2>1. mails[n] \in Nat /\ mails[n] <= Losses + (IF Accounted(n) THEN 1 ELSE 0)
    BY DEF Inv, NotesInv, NotesTypeOK, MailsCounted
  <2>2. /\ Count("crash") \in Nat /\ Count("mail") \in Nat
        /\ Count("db") \in Nat /\ Count("uncaught") \in Nat
    BY DEF Inv, NotesInv, NotesTypeOK, Count
  <2> QED
    BY <2>1, <2>2 DEF Losses
<1> QED
  BY <1>1, InvAlways, PTL

\* A claim that nobody works on was left by a crash, a failing statement or an
\* exception the check does not catch: overlapping checks, backoff, restarts and
\* failing services leave none.
THEOREM OnlyFailuresStrandAlways == Spec => []OnlyFailuresStrand
<1>1. Inv => OnlyFailuresStrand
  BY DEF Inv, NotesInv
<1> QED
  BY <1>1, InvAlways, PTL

\* A link is good for one download, whatever happens between its clicks.
THEOREM LinkGrantedOnceAlways == Spec => []LinkGrantedOnce
<1>1. Inv => LinkGrantedOnce
  BY DEF Inv, LinksInv
<1> QED
  BY <1>1, InvAlways, PTL

\* A link that is refused has had its answer or is being used, or the table
\* failed, the program died, or a click that had lost it cached it after its
\* release had begun.
THEOREM NoLinkBurnedAlways == Spec => []NoLinkBurned
<1>1. Inv => NoLinkBurned
  <2> SUFFICES ASSUME Inv PROVE NoLinkBurned
    OBVIOUS
  <2>1. ASSUME NEW k \in used
        PROVE  \/ k \in settled \/ (\E w \in Workers : Holds(w, k))
               \/ Happened("db") \/ Happened("crash")
    <3>1. \A w \in Workers : Owns(w, k) => Holds(w, k)
      BY DEF Owns, Holds, NoRequest
    <3> QED
      BY <3>1 DEF Inv, LinksInv, UsedForAReason
  <2>2. cache \ used \subseteq overtaken
    BY DEF Inv, CachedForAReason, Released
  <2> QED
    BY <2>1, <2>2 DEF NoLinkBurned
<1> QED
  BY <1>1, InvAlways, PTL
=============================================================================
