----------------------------- MODULE Newsletter ------------------------------
(***************************************************************************)
(* The newsletter: the last step of every scan tells all subscribers of    *)
(* the deletions nobody was told of yet, one mail each, and an admin may   *)
(* send one to some of them at any time.  What reached whom is on record,  *)
(* so that a deletion is announced again until one record says that        *)
(* everybody has it.                                                       *)
(***************************************************************************)
EXTENDS Naturals, FiniteSets

CONSTANTS
    Emails,         \* addresses
    Actions,        \* rows of scheduled_actions, whose ids are never used twice
    MaxFailures,    \* bound on mails and records that fail, and on crashes
    MaxChanges      \* bound on what subscribers and admins do, and keeps and deletions

ASSUME LettersAssumption == MaxFailures \in Nat /\ MaxChanges \in Nat

VARIABLES
    subscriber,     \* the table subscribers
    action,         \* scheduled_actions: not yet there, notified = 0, notified = 1, or over
    delivery,       \* newsletter_deliveries
    picks,          \* there are recommendations to report
    letter,         \* what the scan and an admin are sending
    failures, changes,  \* the bounded numbers
    got,            \* ghost: who was told of what
    audience        \* ghost: to whom the pass that marked an action wrote

letterVars == <<subscriber, action, delivery, picks, letter, failures, changes, got, audience>>

Senders == {"scan", "admin"}
NoLetter == [step |-> "idle", to |-> {}, todo |-> {}, about |-> {}, now |-> {}, ok |-> FALSE,
             any |-> FALSE]

LetterTypeOK ==
    /\ subscriber \in [Emails -> {"none", "active", "opted out"}]
    /\ action \in [Actions -> {"none", "due", "told", "over"}]
    /\ delivery \in [Actions \X Emails -> {"none", "sent", "failed"}]
    /\ picks \in BOOLEAN /\ failures \in 0..MaxFailures /\ changes \in 0..MaxChanges
    /\ letter \in [Senders -> [step : {"idle", "rows", "mail", "record"}, to : SUBSET Emails,
                               todo : SUBSET Emails, about : SUBSET Actions, now : SUBSET Emails,
                               ok : BOOLEAN, any : BOOLEAN]]
    /\ got \in [Actions \X Emails -> BOOLEAN] /\ audience \in [Actions -> SUBSET Emails]

LetterInit ==
    /\ subscriber \in [Emails -> {"none", "active"}]
    /\ action = [a \in Actions |-> "none"]
    /\ delivery = [p \in Actions \X Emails |-> "none"]
    /\ picks \in BOOLEAN
    /\ letter = [s \in Senders |-> NoLetter]
    /\ failures = 0 /\ changes = 0
    /\ got = [p \in Actions \X Emails |-> FALSE]
    /\ audience = [a \in Actions |-> {}]

Active == {e \in Emails : subscriber[e] = "active"}
Due    == {a \in Actions : action[a] = "due"}
Sends(s, step) == letter[s].step = step
Put(s, rec) == letter' = [letter EXCEPT ![s] = rec]

bounds == <<failures, changes>>
ghosts == <<got, audience>>

-----------------------------------------------------------------------------
(* Sending.                                                                *)

\* _load_subscribers, or the addresses an admin has chosen among the active ones.
LoadSubscribers(s, chosen) ==
    /\ Sends(s, "idle")
    /\ chosen # {} /\ IF s = "scan" THEN chosen = Active ELSE chosen \subseteq Active
    /\ IF s = "scan" THEN UNCHANGED changes ELSE changes < MaxChanges /\ changes' = changes + 1
    /\ Put(s, [NoLetter EXCEPT !.step = "rows", !.to = chosen, !.todo = chosen])
    /\ UNCHANGED <<subscriber, action, delivery, picks, failures, ghosts>>

\* _load_recommendations, _has_content_to_report
Content(rows) == rows # {} \/ picks

\* _load_scheduled_items: an admin's letter names what has been announced as well.
\* Nothing to report, nothing sent.
LoadItems(s) ==
    /\ Sends(s, "rows")
    /\ LET rows == IF s = "scan" THEN Due ELSE {a \in Actions : action[a] \in {"due", "told"}}
       IN  Put(s, IF Content(rows) THEN [letter[s] EXCEPT !.step = "mail", !.about = rows]
                  ELSE NoLetter)
    /\ UNCHANGED <<subscriber, action, delivery, picks, bounds, ghosts>>

\* One mail.  One that failed may have arrived.  Only the scan keeps a record, and only
\* of actions.
Mail(s, e) ==
    /\ Sends(s, "mail") /\ e \in letter[s].todo
    /\ \E ok, arrives \in BOOLEAN :
         LET rec == [letter[s] EXCEPT !.todo = @ \ {e}, !.any = @ \/ ok]
         IN  /\ ok => arrives
             /\ ~ok => failures < MaxFailures
             /\ failures' = IF ok THEN failures ELSE failures + 1
             /\ got' = [p \in Actions \X Emails |->
                           got[p] \/ (arrives /\ p[1] \in letter[s].about /\ p[2] = e)]
             /\ Put(s, IF s = "scan" /\ letter[s].about # {}
                       THEN [rec EXCEPT !.step = "record", !.now = {e}, !.ok = ok] ELSE rec)
    /\ UNCHANGED <<subscriber, action, delivery, picks, changes, audience>>

\* Mutated form: INSERT OR IGNORE.
RecordedOnce(s, old, p) ==
    IF p[1] \in letter[s].about /\ p[2] \in letter[s].now /\ old = "none"
    THEN IF letter[s].ok THEN "sent" ELSE "failed"
    ELSE old

\* A record that fails is passed over.
Recorded(s, old, p) ==
    IF p[1] \in letter[s].about /\ p[2] \in letter[s].now
    THEN IF letter[s].ok THEN "sent" ELSE "failed"
    ELSE old

\* _record_delivery_attempt, INSERT OR REPLACE: the last attempt counts, be it the one
\* that failed.
Record(s) ==
    /\ Sends(s, "record")
    /\ \/ /\ delivery' = [p \in Actions \X Emails |-> Recorded(s, delivery[p], p)]
          /\ UNCHANGED failures
       \/ failures < MaxFailures /\ failures' = failures + 1 /\ UNCHANGED delivery
    /\ Put(s, [letter[s] EXCEPT !.step = "mail", !.now = {}, !.ok = FALSE])
    /\ UNCHANGED <<subscriber, action, picks, changes, ghosts>>

\* Mutated form: one mail that went out is enough.
DeliveredToAny(a, to) == TRUE

DeliveredToAll(a, to) == \A e \in to : delivery[<<a, e>>] = "sent"

\* _mark_notified, if any mail went out.
Mark(s) ==
    /\ Sends(s, "mail") /\ letter[s].todo = {}
    /\ LET marked == IF s = "scan" /\ letter[s].any
                     THEN {a \in letter[s].about : DeliveredToAll(a, letter[s].to)} ELSE {}
       IN  /\ action' = [a \in Actions |-> IF a \in marked /\ action[a] = "due" THEN "told"
                                           ELSE action[a]]
           /\ audience' = [a \in Actions |-> IF a \in marked THEN letter[s].to ELSE audience[a]]
    /\ Put(s, NoLetter)
    /\ UNCHANGED <<subscriber, delivery, picks, bounds, got>>

-----------------------------------------------------------------------------
(* What goes on beside it.                                                 *)

Change == changes < MaxChanges /\ changes' = changes + 1

\* The scanner schedules a deletion; it is carried out, kept or dropped.
Schedule(a) ==
    /\ Change /\ action[a] = "none" /\ Sends("scan", "idle")
    /\ action' = [action EXCEPT ![a] = "due"]
    /\ UNCHANGED <<subscriber, delivery, picks, letter, failures, ghosts>>

Settle(a) ==
    /\ Change /\ action[a] \in {"due", "told"}
    /\ action' = [action EXCEPT ![a] = "over"]
    /\ UNCHANGED <<subscriber, delivery, picks, letter, failures, ghosts>>

\* try_add_subscriber refuses whoever opted out: the row is still there.
Subscribe(e) ==
    /\ Change /\ subscriber[e] = "none"
    /\ subscriber' = [subscriber EXCEPT ![e] = "active"]
    /\ UNCHANGED <<action, delivery, picks, letter, failures, ghosts>>

Unsubscribe(e) ==
    /\ Change /\ subscriber[e] = "active"
    /\ subscriber' = [subscriber EXCEPT ![e] = "opted out"]
    /\ UNCHANGED <<action, delivery, picks, letter, failures, ghosts>>

Remove(e) ==
    /\ Change /\ subscriber[e] # "none"
    /\ subscriber' = [subscriber EXCEPT ![e] = "none"]
    /\ UNCHANGED <<action, delivery, picks, letter, failures, ghosts>>

\* The process ends, and with it what was being sent.
LetterCrash ==
    /\ failures < MaxFailures /\ failures' = failures + 1
    /\ \E s \in Senders : ~Sends(s, "idle")
    /\ letter' = [s \in Senders |-> NoLetter]
    /\ UNCHANGED <<subscriber, action, delivery, picks, changes, ghosts>>

SendStep(s) ==
    \/ \E chosen \in SUBSET Emails : LoadSubscribers(s, chosen)
    \/ LoadItems(s) \/ Record(s) \/ Mark(s)
    \/ \E e \in Emails : Mail(s, e)

LetterNext ==
    \/ \E s \in Senders : SendStep(s)
    \/ \E a \in Actions : Schedule(a) \/ Settle(a)
    \/ \E e \in Emails : Subscribe(e) \/ Unsubscribe(e) \/ Remove(e)
    \/ LetterCrash

LetterSpec == LetterInit /\ [][LetterNext]_letterVars

\* The scheduler scans every week, and a scan goes on to its end.
LetterFairSpec == LetterSpec /\ WF_letterVars(SendStep("scan"))

-----------------------------------------------------------------------------
(* Properties. *)

\* What is marked as announced has reached everybody the scan wrote to: one who could not
\* be reached is written to again, whoever else has been.
ToldMeansReached ==
    \A a \in Actions : action[a] = "told" =>
        audience[a] # {} /\ \A e \in audience[a] : got[<<a, e>>]

LettersReach == LetterTypeOK /\ ToldMeansReached

\* A deletion is announced to everybody in the end, if it is not settled before and mails,
\* records and the process fail no more than so many times: whatever the failures have
\* left on record, a later letter makes up for.
DueAreTold ==
    \A a \in Actions : action[a] = "due" ~> (action[a] # "due" \/ Active = {})
=============================================================================
