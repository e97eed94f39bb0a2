------------------------------ MODULE Outbound -------------------------------
(***************************************************************************)
(* Requests to other programs.  A call resolves and checks its host once,  *)
(* pins the address it checked for its thread, and sends the request,      *)
(* again where that may help; a mail tries the other region of Mailgun     *)
(* too.  Names may resolve differently every time, answers may be late,    *)
(* unreadable or lost, and the process may replace the resolver.           *)
(***************************************************************************)
EXTENDS Naturals, Sequences, FiniteSets

CONSTANTS
    Threads,        \* threads that make calls
    Hosts,          \* names, as _normalise_host leaves them
    Bridges,        \* those of the container's host, _ALLOWED_DOCKER_HOSTNAMES
    Unlisted,       \* names of cloud metadata, and names outside the caller's list
    Ips,            \* what a name may resolve to
    Blocked,        \* addresses that _ip_is_blocked refuses
    Strict,         \* MEDIAMAN_STRICT_EGRESS
    MaxTries        \* 1 + len(_RETRY_BACKOFFS)

NoAddress == "no address"

ASSUME OutboundAssumption ==
    Hosts # {} /\ MaxTries \in Nat \ {0} /\ NoAddress \notin Ips

VARIABLES
    hooked,         \* socket.getaddrinfo is _patched_getaddrinfo
    pins,           \* the pins of every thread
    kept,           \* connections that a thread's session holds open
    call,           \* what every thread is doing
    approved        \* ghost: addresses that passed a check of their host

outboundVars == <<hooked, pins, kept, call, approved>>

NoConnection == [to |-> NoAddress, sure |-> TRUE]
Statuses  == {200, 401, 404, 429, 500, 503}
Lost      == 0      \* the status of a request that was not answered

\* SafeHTTPClient.get, its post, put and delete, MailgunClient.send, and PlexClient.
CallKinds == {"get", "write", "mail", "plex"}
Once(kind) == kind \in {"write", "plex"}

\* answers: the statuses of this loop.  prior: the pin that was there.  taken: ghost, how
\* often the other side did what must not be done twice; known: ghost, it said that it
\* is done, and was heard; reached: ghost, the addresses; sure: ghost, every one of them through the hook.
Resting == [step |-> "idle", kind |-> "get", host |-> CHOOSE h \in Hosts : TRUE, region |-> 1,
            answers |-> <<>>, streak |-> 0, prior |-> NoAddress, result |-> "none",
            status |-> Lost,
            read |-> FALSE, taken |-> 0, known |-> FALSE, reached |-> {}, sure |-> TRUE]

OutboundTypeOK ==
    /\ hooked \in BOOLEAN
    /\ pins \in [Threads -> [Hosts -> Ips \union {NoAddress}]]
    /\ kept \in [Threads -> [Hosts -> [to : Ips \union {NoAddress}, sure : BOOLEAN]]]
    /\ approved \in [Hosts -> SUBSET Ips]
    /\ \A t \in Threads :
        /\ call[t].step \in {"idle", "check", "send"}
        /\ call[t].kind \in CallKinds /\ call[t].host \in Hosts /\ call[t].region \in 1..2
        /\ Len(call[t].answers) <= MaxTries /\ call[t].streak \in 0..MaxTries
        /\ call[t].result \in {"none", "ok", "refused", "error", "raw", "value error"}

OutboundInit ==
    /\ hooked = TRUE
    /\ pins = [t \in Threads |-> [h \in Hosts |-> NoAddress]]
    /\ kept = [t \in Threads |-> [h \in Hosts |-> NoConnection]]
    /\ call = [t \in Threads |-> Resting]
    /\ approved = [h \in Hosts |-> {}]

-----------------------------------------------------------------------------
(* One call.                                                               *)

Start(t, kind, h) ==
    /\ call[t].step = "idle"
    /\ call' = [call EXCEPT ![t] = [Resting EXCEPT !.step = "check", !.kind = kind, !.host = h]]
    /\ UNCHANGED <<hooked, pins, kept, approved>>

\* The end of one request, which for a mail may not be the end of the call: only a 404,
\* or an answer that breaks off, sends it to the other region.
Ends(t, rec, result, status) ==
    LET over == [rec EXCEPT !.step = "idle", !.result = result, !.status = status]
        next == [rec EXCEPT !.step = "check", !.region = 2, !.answers = <<>>, !.streak = 0]
    IN  IF /\ rec.kind = "mail" /\ rec.region = 1
           /\ (result = "error" /\ status = 404) \/ result = "raw"
        THEN \E h \in Hosts : call' = [call EXCEPT ![t] = [next EXCEPT !.host = h]]
        ELSE call' = [call EXCEPT ![t] = over]

\* The container's host is used as it resolves later; every other name resolves once, each
\* of its addresses has to pass, and the first is used.
Free(h)       == h \in Bridges /\ ~Strict
Listed(h)     == h \notin Unlisted
Public(found) == found # {} /\ found \intersect Blocked = {}
Acceptable(h, found) == Listed(h) /\ (Free(h) \/ Public(found))

\* The session of PlexClient pins without a look whether the hook is still in place.
PinsBlindly(kind) == kind = "plex"
EnsureHook(t)     == hooked' = (hooked \/ ~PinsBlindly(call[t].kind))

\* A pin goes back to the one that was there when its call ends.
Pin(t, h, a) == pins' = [pins EXCEPT ![t][h] = a]

Check(t) ==
    /\ call[t].step = "check"
    /\ EnsureHook(t)
    /\ \E found \in SUBSET Ips :
         LET h == call[t].host
             free == Free(h)
         IN  IF ~Acceptable(h, found)
             THEN Ends(t, call[t], "error", Lost) /\ UNCHANGED <<pins, approved>>
             ELSE \E first \in (IF free THEN {NoAddress} ELSE found) :
                    /\ call' = [call EXCEPT ![t].step = "send", ![t].prior = pins[t][h]]
                    /\ IF free THEN UNCHANGED pins ELSE Pin(t, h, first)
                    /\ approved' = IF free THEN approved
                                   ELSE [approved EXCEPT ![h] = @ \union found]
    /\ UNCHANGED kept

\* Mutated form: the name is resolved again.
ResolvesAgain(t, h) == Ips

\* A connection that was kept open, or one to the pinned address.
Reachable(t, h) ==
    ({kept[t][h].to} \ {NoAddress})
        \union (IF hooked /\ pins[t][h] # NoAddress THEN {pins[t][h]} ELSE Ips)

\* Statuses that another attempt may help.
Retryable(kind) == {429, 503} \union (IF kind = "mail" THEN {500} ELSE {})
Attempts(kind)  == IF kind \in {"get", "mail"} THEN MaxTries ELSE 1

\* _handle_retryable_status.  A mail gives up after two answers of 5xx in a row.
StreakAfter(rec, status) == IF status >= 500 THEN rec.streak + 1 ELSE 0

\* Retry-After is taken at its word up to a minute, and "nan" is a number to Python, but
\* none that a thread can sleep for.
Advice(status) == IF status \in {429, 503} THEN {"none", "seconds", "nan"} ELSE {"none"}

\* Another attempt is left.
More(c) == Len(c.answers) + 1 < Attempts(c.kind)

\* What one attempt adds to its call.
Heard(t, a, status, body, did) ==
    LET c == call[t]
    IN  [c EXCEPT
           !.answers = Append(c.answers, status),
           !.streak  = IF status \in Retryable(c.kind) /\ More(c) THEN StreakAfter(c, status) ELSE 0,
           !.taken   = IF did /\ Once(c.kind) /\ c.taken < 2 THEN c.taken + 1 ELSE c.taken,
           !.known   = c.known \/ (status = 200 /\ body = "read"),
           !.reached = c.reached \union {a},
           !.sure    = c.sure /\ hooked /\ kept[t][c.host].sure /\ c.host \notin Bridges,
           !.read    = (body = "read")]

\* Whether the loop goes on.  A body that is too long, encoded or of the wrong type is
\* refused; one that breaks off raises what requests raises, and is not tried again.
Judged(t, rec, status, body) ==
    LET again == More(call[t]) /\ (status = Lost \/ status \in Retryable(rec.kind))
    IN  \/ body = "refused" /\ Ends(t, rec, "error", status)
        \/ body = "broken" /\ Ends(t, rec, "raw", status)
        \/ /\ body = "read" /\ ~again
           /\ IF status = 200 THEN Ends(t, rec, "ok", status)
              ELSE IF status = Lost /\ rec.kind = "plex" THEN Ends(t, rec, "raw", status)
              ELSE Ends(t, rec, "error", status)
        \/ /\ body = "read" /\ again
           /\ IF rec.kind = "mail" /\ rec.streak >= 2 THEN Ends(t, rec, "error", status)
              ELSE \E advice \in Advice(status) :
                     IF advice = "nan" THEN Ends(t, rec, "value error", status)
                     ELSE call' = [call EXCEPT ![t] = rec]

\* dispatch_loop, one attempt.
Attempt(t) ==
    /\ call[t].step = "send"
    /\ \E a \in Reachable(t, call[t].host), status \in Statuses \union {Lost},
          body \in {"read", "refused", "broken"}, did \in BOOLEAN, keeps \in BOOLEAN :
         LET rec == Heard(t, a, status, body, did)
         IN  /\ status = 200 => did
             /\ status = Lost => body = "read" /\ ~keeps
             /\ kept' = [kept EXCEPT ![t][call[t].host] =
                           IF keeps THEN [to |-> a, sure |-> rec.sure] ELSE NoConnection]
             /\ Judged(t, rec, status, body)
    /\ IF call'[t].step = "send" THEN UNCHANGED pins ELSE Pin(t, call[t].host, call[t].prior)
    /\ UNCHANGED <<hooked, approved>>

\* Something in the process replaces socket.getaddrinfo, and does not call ours.
ReplaceResolver ==
    /\ hooked /\ hooked' = FALSE
    /\ UNCHANGED <<pins, kept, call, approved>>

OutboundNext ==
    \/ ReplaceResolver
    \/ \E t \in Threads :
        \/ \E kind \in CallKinds, h \in Hosts : Start(t, kind, h)
        \/ Check(t) \/ Attempt(t)

OutboundSpec == OutboundInit /\ [][OutboundNext]_outboundVars

-----------------------------------------------------------------------------
(* Properties. *)

\* As long as the hook is in place a call reaches no address but those that passed a check
\* of its host, however the name resolves between the check and a late attempt.
ReachesWhatItChecked ==
    \A t \in Threads : call[t].sure =>
        call[t].reached \subseteq (UNION {approved[h] : h \in Hosts}) \ Blocked

\* Pins last no longer than their call, whichever way it ends.
PinsEnd ==
    \A t \in Threads : call[t].step # "send" => \A h \in Hosts : pins[t][h] = NoAddress

\* Nobody is asked twice to do what must not be done twice, and what was done and said
\* so is not asked for again, nor reported as failed.
DoneIsDone ==
    \A t \in Threads :
        /\ Once(call[t].kind) => Len(call[t].answers) <= 1 /\ call[t].taken <= 1
        /\ call[t].known <=> call[t].result = "ok"

\* The status that a failure is reported with is that of the last answer.
LastAnswerTold ==
    \A t \in Threads :
        call[t].result \in {"error", "value error"} /\ call[t].answers # <<>>
            => call[t].status = call[t].answers[Len(call[t].answers)]

\* A mail is given up before its last attempt after two answers of 5xx in a row, and only
\* then.
GivesUpInTime ==
    \A t \in Threads : call[t].kind = "mail" =>
        LET s == call[t].answers  n == Len(s)
        IN  /\ \A i \in 1..n - 2 : ~(s[i] >= 500 /\ s[i + 1] >= 500)
            /\ call[t].result = "error" /\ call[t].read /\ 0 < n /\ n < MaxTries
                => \/ s[n] \notin {Lost, 429, 500, 503}
                   \/ n > 1 /\ s[n] >= 500 /\ s[n - 1] >= 500

OutboundKept ==
    /\ OutboundTypeOK /\ ReachesWhatItChecked /\ PinsEnd
    /\ DoneIsDone /\ LastAnswerTold /\ GivesUpInTime
=============================================================================
