------------------------------ MODULE Downloads ------------------------------
(***************************************************************************)
(* Requests for a download: mailed links, each good for one download, and  *)
(* the admin's buttons (search, recommendations, library).  A request adds *)
(* a title to Radarr or Sonarr and leaves a row for module DownloadNotes,  *)
(* which announces the download when it has arrived.                       *)
(*                                                                         *)
(* A link's token is reserved in a table before the service is called, and *)
(* released when the call fails.  A cache in memory spares the table: it   *)
(* is written after the table and emptied before it.                       *)
(***************************************************************************)
EXTENDS DownloadNotes

CONSTANTS
    Tokens,         \* mailed links
    Redownloads,    \* those with act = "redownload"
    TitleOf,        \* [Tokens -> Titles]
    Workers,        \* web requests that can be in progress together
    CacheMax        \* _TOKEN_USED_CACHE_MAX

NoToken == "no token"

ASSUME LinksAssumption ==
    /\ NoToken \notin Tokens
    /\ Redownloads \subseteq Tokens
    /\ TitleOf \in [Tokens -> Titles]
    /\ CacheMax \in Nat

VARIABLES
    expired,    \* tokens past their exp
    used,       \* table used_download_tokens
    cache,      \* _USED_TOKENS
    req,        \* the request of each worker
    granted,    \* ghost: answers "added" per token
    settled,    \* ghost: tokens whose user has been told how it ended
    overtaken   \* ghost: tokens cached by a click that had lost them, after
                \* their owner had begun to release them

linkVars == <<expired, used, cache, req, granted, settled, overtaken>>
vars     == <<notesVars, linkVars>>

NoRequest == [step |-> "idle"]
Request   == {NoRequest} \union
             [step : {"claim", "cache", "arr", "record", "uncache", "unclaim"},
              token : Tokens \union {NoToken}, title : Titles, won : BOOLEAN]

LinksTypeOK ==
    /\ expired \subseteq Tokens /\ used \subseteq Tokens /\ cache \subseteq Tokens
    /\ req \in [Workers -> Request]
    /\ granted \in [Tokens -> Nat]
    /\ settled \subseteq Tokens /\ overtaken \subseteq Tokens

TypeOK == NotesTypeOK /\ LinksTypeOK

Init ==
    /\ NotesInit
    /\ expired = {} /\ used = {} /\ cache = {}
    /\ req = [w \in Workers |-> NoRequest]
    /\ granted = [k \in Tokens |-> 0] /\ settled = {} /\ overtaken = {}

Step(w, s) == req[w].step = s
Goto(w, s) == req' = [req EXCEPT ![w].step = s]
Done(w)    == req' = [req EXCEPT ![w] = NoRequest]

\* What follows a failed call: a token is released, a button does nothing.
GiveUp(w) == IF req[w].token = NoToken THEN Done(w) ELSE Goto(w, "uncache")

-----------------------------------------------------------------------------
(* download_submit. *)

\* The cache makes room before it grows: expired tokens first, then old ones.
Trimmed ==
    LET live == cache \ expired
    IN  IF Cardinality(cache) < CacheMax THEN {cache}
        ELSE {S \in SUBSET live : Cardinality(S) = Lesser(Cardinality(live), CacheMax)}

SubmitLink(w, k) ==
    /\ up = "serving" /\ Step(w, "idle")
    /\ k \notin expired /\ k \notin cache
    /\ cache' \in Trimmed
    /\ req' = [req EXCEPT ![w] = [step |-> "claim", token |-> k, title |-> TitleOf[k], won |-> FALSE]]
    /\ UNCHANGED <<notesVars, expired, used, granted, settled, overtaken>>

\* Mutated form: the row count of the INSERT is not looked at.
ClaimTokenBlindly(w) ==
    /\ Step(w, "claim")
    /\ \/ /\ used' = used \union {req[w].token}
          /\ req' = [req EXCEPT ![w].step = "cache", ![w].won = TRUE]
          /\ UNCHANGED faults
       \/ Fault("db") /\ Done(w) /\ UNCHANGED used
    /\ UNCHANGED <<up, arr, rowVars, wait, delay, check, mails, expired, cache, granted, settled, overtaken>>

\* INSERT OR IGNORE: the row is this request's if it was not there.  An error
\* fails the request.
ClaimToken(w) ==
    /\ Step(w, "claim")
    /\ \/ /\ used' = used \union {req[w].token}
          /\ req' = [req EXCEPT ![w].step = "cache", ![w].won = req[w].token \notin used]
          /\ UNCHANGED faults
       \/ Fault("db") /\ Done(w) /\ UNCHANGED used
    /\ UNCHANGED <<up, arr, rowVars, wait, delay, check, mails, expired, cache, granted, settled, overtaken>>

\* The token is released, or its cache entry is gone and the row will follow.
Released(k) == k \notin used \/ \E w \in Workers : Step(w, "unclaim") /\ req[w].token = k

\* Won or lost, the token goes into the cache.
CacheToken(w) ==
    /\ Step(w, "cache")
    /\ cache' = cache \union {req[w].token}
    /\ overtaken' = overtaken \union {k \in {req[w].token} : ~req[w].won /\ Released(k)}
    /\ IF req[w].won THEN Goto(w, "arr") ELSE Done(w)
    /\ UNCHANGED <<notesVars, expired, used, granted, settled>>

\* A button needs no token.
SubmitButton(w, t) ==
    /\ up = "serving" /\ Step(w, "idle")
    /\ req' = [req EXCEPT ![w] = [step |-> "arr", token |-> NoToken, title |-> t, won |-> TRUE]]
    /\ UNCHANGED <<notesVars, expired, used, cache, granted, settled, overtaken>>

\* The service is not configured, or does not know the title.
CannotAdd(w) ==
    /\ Step(w, "arr")
    /\ GiveUp(w)
    /\ UNCHANGED <<notesVars, expired, used, cache, granted, settled, overtaken>>

AddTitle(w) ==
    /\ Step(w, "arr") /\ arr[req[w].title] = "absent"
    /\ arr' = [arr EXCEPT ![req[w].title] = "wanted"]
    /\ Goto(w, "record")
    /\ UNCHANGED <<up, rowVars, wait, delay, check, mails, faults,
                   expired, used, cache, granted, settled, overtaken>>

\* The title is there: a redownload link is released so that the page can ask
\* again, any other link is spent.
AlreadyThere(w) ==
    /\ Step(w, "arr") /\ arr[req[w].title] # "absent"
    /\ IF req[w].token \in Redownloads THEN GiveUp(w) ELSE Done(w)
    /\ settled' = settled \union ({req[w].token} \intersect Tokens)
    /\ UNCHANGED <<notesVars, expired, used, cache, granted, overtaken>>

\* The call fails, whether the service has added the title or not.
AddFails(w) ==
    /\ Step(w, "arr") /\ Fault("arr")
    /\ arr' \in {arr, [arr EXCEPT ![req[w].title] = IF @ = "absent" THEN "wanted" ELSE @]}
    /\ GiveUp(w)
    /\ UNCHANGED <<up, rowVars, wait, delay, check, mails,
                   expired, used, cache, granted, settled, overtaken>>

\* Audit and notification in a transaction; no notification where there is no
\* address.
Record(w) ==
    /\ Step(w, "record")
    /\ RecordNote(req[w].title) \/ UNCHANGED <<status, about>>
    /\ granted' = [k \in Tokens |-> IF k = req[w].token THEN granted[k] + 1 ELSE granted[k]]
    /\ settled' = settled \union ({req[w].token} \intersect Tokens)
    /\ Done(w)
    /\ UNCHANGED <<up, arr, age, wait, delay, check, mails, faults, expired, used, cache, overtaken>>

RecordFails(w) ==
    /\ Step(w, "record") /\ Fault("db")
    /\ GiveUp(w)
    /\ UNCHANGED <<up, arr, rowVars, wait, delay, check, mails,
                   expired, used, cache, granted, settled, overtaken>>

\* Mutated form: the release leaves the token in the cache.
UncacheForgotten(w) ==
    /\ Step(w, "uncache")
    /\ Goto(w, "unclaim")
    /\ UNCHANGED <<notesVars, expired, used, cache, granted, settled, overtaken>>

\* _unmark_token_used: the cache first ...
Uncache(w) ==
    /\ Step(w, "uncache")
    /\ cache' = cache \ {req[w].token}
    /\ Goto(w, "unclaim")
    /\ UNCHANGED <<notesVars, expired, used, granted, settled, overtaken>>

\* ... then the table, best-effort.
Unclaim(w) ==
    /\ Step(w, "unclaim")
    /\ \/ used' = used \ {req[w].token} /\ UNCHANGED faults
       \/ Fault("db") /\ UNCHANGED used
    /\ Done(w)
    /\ UNCHANGED <<up, arr, rowVars, wait, delay, check, mails, expired, cache, granted, settled, overtaken>>

-----------------------------------------------------------------------------
Expire(k) ==
    /\ k \notin expired /\ expired' = expired \union {k}
    /\ UNCHANGED <<notesVars, used, cache, req, granted, settled, overtaken>>

Crash ==
    /\ NotesCrash
    /\ cache' = {} /\ req' = [w \in Workers |-> NoRequest]
    /\ UNCHANGED <<expired, used, granted, settled, overtaken>>

Requests ==
    \/ \E w \in Workers :
          \/ ClaimToken(w) \/ CacheToken(w) \/ CannotAdd(w) \/ AddTitle(w) \/ AlreadyThere(w)
          \/ AddFails(w) \/ Record(w) \/ RecordFails(w) \/ Uncache(w) \/ Unclaim(w)
          \/ \E k \in Tokens : SubmitLink(w, k)
          \/ \E t \in Titles : SubmitButton(w, t)
    \/ \E k \in Tokens : Expire(k)

Announcements ==
    /\ \/ Tick \/ Boot \/ Reconcile
       \/ \E c \in Checkers : ClaimNotes(c) \/ CheckStep(c) \/ CheckFailure(c)
       \/ \E t \in Titles : ArrImports(t) \/ ArrForgets(t)
    /\ UNCHANGED linkVars

Next == Requests \/ Announcements \/ Crash

Spec == Init /\ [][Next]_vars

\* Time passes, the program is restarted and finishes booting, the scheduler
\* runs syncs, and a sync that has begun goes on.  Users need not do anything.
FairSpec ==
    /\ Spec
    /\ WF_vars(Tick /\ UNCHANGED linkVars)
    /\ WF_vars((Boot \/ Reconcile) /\ UNCHANGED linkVars)
    /\ \A c \in Checkers :
          WF_vars((CheckStep(c) \/ (c # "manual" /\ ClaimNotes(c))) /\ UNCHANGED linkVars)

-----------------------------------------------------------------------------
(* Properties. *)

Holds(w, k) == req[w] # NoRequest /\ req[w].token = k

\* A link downloads once, however its clicks, failures and crashes fall.
LinkGrantedOnce == \A k \in Tokens : granted[k] <= 1

\* A link that is refused is refused for a reason.  In the table: it has had its
\* answer, a request is at it, or a failure of the table or a crash has spent
\* it.  In the cache beside the table: a click that had lost the link put it
\* there after its release had begun.  A failing service burns no link alone.
NoLinkBurned ==
    /\ \A k \in used : k \in settled \/ (\E w \in Workers : Holds(w, k))
                       \/ Happened("db") \/ Happened("crash")
    /\ cache \ used \subseteq overtaken

\* What _tokens.py says of its cache, that it is always consistent with the
\* authoritative table: it refuses no link that the table would grant.
CacheConsistent == cache \subseteq used
=============================================================================
