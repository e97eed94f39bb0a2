----------------------------- MODULE RateLimits -----------------------------
(***************************************************************************)
(* The two limiters in front of the handlers.  ActionRateLimiter counts    *)
(* per admin, in a short window and over a day; RateLimiter counts per     *)
(* network of the client's address, in a table of bounded size that drops  *)
(* the bucket unused for longest.  Old attempts are forgotten lazily, at   *)
(* the next call or at every n-th call's pruning.                          *)
(*                                                                         *)
(* A log is the sequence of the ages of its attempts, in ticks, oldest     *)
(* first; ages stop at the first one nobody looks at any more.             *)
(***************************************************************************)
EXTENDS Integers, FiniteSets, FiniteSetsExt, SequencesExt

CONSTANTS
    Admins,         \* the actors of ActionRateLimiter
    Addresses,      \* every address: clients and proxies
    Trusted,        \* MEDIAMAN_TRUSTED_PROXIES
    Cloudflare,     \* MEDIAMAN_CLOUDFLARE_PROXIES
    BucketOf,       \* _bucket_key: the network of an address
    Window, Day,    \* the short window and the day, in ticks
    MaxInWindow, MaxPerDay, MaxAttempts,
    MaxBuckets,     \* _MAX_BUCKETS
    PruneEvery      \* _DAILY_PRUNE_EVERY, _PRUNE_EVERY

NoHeader == "none"

ASSUME LimitsAssumption ==
    /\ NoHeader \notin Addresses
    /\ Trusted \subseteq Addresses /\ Cloudflare \subseteq Trusted
    /\ Window \in Nat \ {0} /\ Day \in Nat /\ Window <= Day
    /\ {MaxInWindow, MaxPerDay, MaxAttempts, MaxBuckets, PruneEvery} \subseteq Nat \ {0}

Clients == Addresses \ Trusted
Buckets == {BucketOf[a] : a \in Addresses}

VARIABLES
    attempts,   \* ActionRateLimiter._attempts
    daily,      \* ActionRateLimiter._daily
    calls,      \* calls since the last pruning
    granted,    \* ghost: the calls let through to each admin within a day
    table,      \* RateLimiter._attempts, <<>> where there is no bucket
    order,      \* the buckets of the table, unused for longest first
    asked,      \* calls since the last pruning
    passed      \* ghost: the calls let through for a network

actorVars  == <<attempts, daily, calls, granted>>
bucketVars == <<table, order, asked, passed>>

Logs(top) == Seq(0..top)

LimitsTypeOK ==
    /\ attempts \in [Admins -> Logs(Day + 1)] /\ daily \in [Admins -> Logs(Day + 1)]
    /\ granted \in [Admins -> Logs(Day)]
    /\ table \in [Buckets -> Logs(Window)] /\ passed \in [Buckets -> Logs(Window - 1)]
    /\ order \in Seq(Buckets)
    /\ calls \in 0..(PruneEvery - 1) /\ asked \in 0..(PruneEvery - 1)

ActorInit ==
    /\ attempts = [a \in Admins |-> <<>>]
    /\ daily = [a \in Admins |-> <<>>]
    /\ granted = [a \in Admins |-> <<>>]
    /\ calls = 0

BucketInit ==
    /\ table = [b \in Buckets |-> <<>>]
    /\ order = <<>>
    /\ asked = 0
    /\ passed = [b \in Buckets |-> <<>>]

\* The attempts younger than an age: from some place of the log on, all of them.
From(log, age)   == Min({i \in 1..(Len(log) + 1) : \A k \in i..Len(log) : log[k] < age})
Within(log, age) == SubSeq(log, From(log, age), Len(log))
Aged(log, top)   == [i \in DOMAIN log |-> IF log[i] < top THEN log[i] + 1 ELSE top]

\* Mutated form: the counter of calls is not set back when it has pruned.
CountedOn(n) == n + 1

Counted(n) == (n + 1) % PruneEvery

-----------------------------------------------------------------------------
(* ActionRateLimiter.check: the day first, then the window.                *)

Today(a) == Within(daily[a], Day + 1)

\* _prune_daily at every n-th call that is let through.
Pruned(d) == IF calls + 1 = PruneEvery THEN [b \in Admins |-> Within(d[b], Day + 1)] ELSE d

ActorCheck(a) ==
    LET recent == Within(attempts[a], Window)
        today  == [daily EXCEPT ![a] = Today(a)]
    IN  \/ /\ Len(Today(a)) >= MaxPerDay
           /\ daily' = today
           /\ UNCHANGED <<attempts, calls, granted>>
        \/ /\ Len(Today(a)) < MaxPerDay
           /\ Len(recent) >= MaxInWindow
           /\ attempts' = [attempts EXCEPT ![a] = recent]
           /\ daily' = today
           /\ UNCHANGED <<calls, granted>>
        \/ /\ Len(Today(a)) < MaxPerDay
           /\ Len(recent) < MaxInWindow
           /\ attempts' = [attempts EXCEPT ![a] = Append(recent, 0)]
           /\ daily' = Pruned([today EXCEPT ![a] = Append(@, 0)])
           /\ calls' = Counted(calls)
           /\ granted' = [granted EXCEPT ![a] = Append(@, 0)]

ActorTick ==
    /\ attempts' = [a \in Admins |-> Aged(attempts[a], Day + 1)]
    /\ daily' = [a \in Admins |-> Aged(daily[a], Day + 1)]
    /\ granted' = [a \in Admins |-> Within(Aged(granted[a], Day + 1), Day + 1)]
    /\ UNCHANGED calls

ActorNext == ActorTick \/ \E a \in Admins : ActorCheck(a)

-----------------------------------------------------------------------------
(* get_client_ip: whom a request is counted for.                           *)

\* From the right, the first address that is not a proxy of ours.
LastUntrusted(peer, forwarded) ==
    LET strangers == {i \in DOMAIN forwarded : forwarded[i] \notin Trusted}
    IN  IF strangers = {} THEN peer ELSE forwarded[Max(strangers)]

\* Entries that are no address have been left out of the header already.
ClientIp(peer, cf, forwarded, real) ==
    IF peer \notin Trusted THEN peer
    ELSE IF cf # NoHeader /\ peer \in Cloudflare THEN cf
    ELSE IF forwarded # <<>> THEN LastUntrusted(peer, forwarded)
    ELSE IF real # NoHeader THEN real ELSE peer

\* How a request travels: the client writes what it likes, and every proxy adds
\* the address it was reached from to X-Forwarded-For, or is alone, puts it into
\* X-Real-IP and passes X-Forwarded-For on as the client wrote it, or left it out.
\* Only Cloudflare's own proxy replaces the third header with the client.
Paths == {<<>>} \union {<<p>> : p \in Trusted}
         \union {<<p, q>> : p, q \in Trusted \ Cloudflare}

Arrivals(c) ==
    UNION {{[peer |-> IF path = <<>> THEN c ELSE Last(path),
             cf |-> IF path # <<>> /\ Last(path) \in Cloudflare THEN c ELSE said,
             forwarded |-> IF path = <<>> THEN <<said>> ELSE <<said, c>> \o Front(path),
             real |-> said] : path \in Paths}
           \union {[peer |-> p, cf |-> NoHeader, forwarded |-> f, real |-> c] :
                     p \in Trusted \ Cloudflare, f \in {<<>>, <<said>>}} : said \in Addresses}

\* The header that get_client_ip reads first tells the client: it came without a
\* proxy, or a proxy wrote that header, or the client has left it out.
Vouched(c, r) == r.peer = c \/ r.forwarded = <<>> \/ c \in ToSet(r.forwarded)

-----------------------------------------------------------------------------
(* RateLimiter.check.                                                      *)

\* Mutated form: a bucket is stale as soon as its oldest attempt is.
StaleByOldest(t, b) == t[b] = <<>> \/ t[b][1] >= Window

Stale(t, b) == t[b] = <<>> \/ Last(t[b]) >= Window

\* What is left of the order without some buckets.
Without(o, B) ==
    LET left == {i \in DOMAIN o : o[i] \notin B}
    IN  [n \in 1..Cardinality(left) |->
            o[CHOOSE i \in left : Cardinality({k \in left : k <= i}) = n]]

\* _maybe_prune at every n-th call, granted or not.
StoreAndPrune(t, o) ==
    LET old == IF asked + 1 = PruneEvery THEN {b \in ToSet(o) : Stale(t, b)} ELSE {}
    IN  /\ table' = [b \in Buckets |-> IF b \in old THEN <<>> ELSE t[b]]
        /\ order' = Without(o, old)
        /\ asked' = Counted(asked)

\* The bucket that is used goes to the end, and one that is evicted goes.
MovedToEnd(b, evicted) == Append(Without(order, {b} \union evicted), b)

\* A network that was dropped from a full table starts anew.
BucketCheck(c, r) ==
    LET b       == BucketOf[ClientIp(r.peer, r.cf, r.forwarded, r.real)]
        recent  == Within(table[b], Window)
        evicted == IF b \notin ToSet(order) /\ Len(order) >= MaxBuckets
                   THEN {Head(order)} ELSE {}
        kept    == [x \in Buckets |-> IF x \in evicted THEN <<>> ELSE table[x]]
    IN  IF Len(recent) >= MaxAttempts
        THEN /\ StoreAndPrune([table EXCEPT ![b] = recent], MovedToEnd(b, {}))
             /\ UNCHANGED passed
        ELSE /\ StoreAndPrune([kept EXCEPT ![b] = Append(recent, 0)], MovedToEnd(b, evicted))
             /\ passed' = [x \in Buckets |->
                    LET log == IF x \in evicted THEN <<>> ELSE passed[x]
                        net == IF Vouched(c, r) THEN BucketOf[c] ELSE b
                    IN  IF x = net THEN Append(log, 0) ELSE log]

BucketTick ==
    /\ table' = [b \in Buckets |-> Aged(table[b], Window)]
    /\ passed' = [b \in Buckets |-> Within(Aged(passed[b], Window), Window)]
    /\ UNCHANGED <<order, asked>>

BucketNext ==
    \/ BucketTick
    \/ \E c \in Clients : \E r \in Arrivals(c) : BucketCheck(c, r)

-----------------------------------------------------------------------------
LimitsInit == ActorInit /\ BucketInit

LimitsNext ==
    \/ ActorNext /\ UNCHANGED bucketVars
    \/ BucketNext /\ UNCHANGED actorVars

LimitsSpec == LimitsInit /\ [][LimitsNext]_<<actorVars, bucketVars>>

-----------------------------------------------------------------------------
(* Properties. *)

\* Nobody gets more through than the limits say: an admin in the short window and
\* over the day, and a network in its window, whenever the tables are pruned, as
\* long as its bucket is not dropped from a full table.  What counts for a network
\* is what its own clients send without a proxy or by proxies that write
\* X-Forwarded-For, whatever headers the clients write; behind a proxy that writes
\* only X-Real-IP, a request with an X-Forwarded-For of its own counts for the
\* address it names there.  The table never grows past its size.
LimitsHold ==
    /\ \A a \in Admins : /\ Len(granted[a]) <= MaxPerDay
                         /\ Len(Within(granted[a], Window)) <= MaxInWindow
    /\ \A b \in Buckets : Len(passed[b]) <= MaxAttempts
    /\ Len(order) <= MaxBuckets

\* Both limiters keep well-formed logs, and what they let through fits the limits.
LimitsKept == LimitsTypeOK /\ LimitsHold
=============================================================================
