----------------------------- MODULE PosterCache ------------------------------
(***************************************************************************)
(* Posters are fetched once and kept as files in one directory, each with  *)
(* a small file beside it that holds its type.  Both are written under     *)
(* another name and renamed.  Every so many writes one request looks       *)
(* through the directory and, if it has grown too large, removes the       *)
(* oldest files, while others read and write.                              *)
(*                                                                         *)
(* The directory is the sequence of its files, oldest first; renaming      *)
(* keeps the age of a file.  An image counts one, a file of a type nothing.*)
(***************************************************************************)
EXTENDS Naturals, FiniteSets, SequencesExt

CONSTANTS
    Posters,        \* rating keys
    Viewers,        \* requests in progress together
    Cap, Target,    \* _CACHE_DIR_MAX_BYTES and 0.9 of it, in images
    RecheckEvery,   \* _CACHE_GC_RECHECK_EVERY
    MaxFetches,     \* bound on the posters fetched
    MaxMishaps      \* bound on the writes that fail

Nobody == "nobody"

ASSUME CacheAssumption ==
    /\ {Cap, Target, MaxMishaps} \subseteq Nat /\ Target <= Cap
    /\ RecheckEvery \in Nat \ {0}
    /\ IsFiniteSet(Viewers) /\ Nobody \notin Viewers

VARIABLES
    dir,        \* the files of the directory, oldest first
    type,       \* the type of the image that is kept
    mime,       \* the type on record beside it
    counter,    \* _cache_gc_counter
    sweeper,    \* who holds _cache_gc_lock
    list,       \* entries the sweep has still to look at
    over,       \* the sweep's own estimate of what is left
    viewer,     \* each request
    fetches, mishaps,
    mixed,      \* ghost: posters two requests wrote together, or whose type was not written
    leaked      \* ghost: unfinished files since the last look

posterVars == <<dir, type, mime, counter, sweeper, list, over, viewer, fetches, mishaps, mixed, leaked>>

Types    == {"image/jpeg", "image/png"}
NoType   == "none"
Image(k) == <<"image", k>>
Mime(k)  == <<"mime", k>>
Temp(v)  == <<"temp", v>>               \* of an image
MimeTemp(v) == <<"mime temp", v>>
Part(n)  == <<"part", n>>               \* of an image whose write failed
Entries  == {Image(k) : k \in Posters} \union {Mime(k) : k \in Posters}
            \union {Temp(v) : v \in Viewers} \union {MimeTemp(v) : v \in Viewers}
            \union {Part(n) : n \in 1..MaxMishaps}
Away     == [step |-> "away"]

Size(e)   == IF e[1] \in {"image", "temp", "part"} THEN 1 ELSE 0
There(e)  == e \in ToSet(dir)
Total(s)  == Cardinality({e \in ToSet(s) : Size(e) = 1})

\* A list without one of its entries, each of which it has once.
Less(s, e) == IF e \in ToSet(s) THEN RemoveAt(s, CHOOSE i \in DOMAIN s : s[i] = e) ELSE s
Gone(e)    == Less(dir, e)
Renamed(e, f) == LET rest == Less(dir, f)
                 IN  [i \in DOMAIN rest |-> IF rest[i] = e THEN f ELSE rest[i]]

WriteSteps == {"temp", "image", "mime temp", "mime", "count"}

PosterTypeOK ==
    /\ dir \in Seq(Entries) /\ IsInjective(dir)
    /\ type \in [Posters -> Types \union {NoType}] /\ mime \in [Posters -> Types \union {NoType}]
    /\ counter \in Nat /\ sweeper \in Viewers \union {Nobody}
    /\ list \in Seq(Entries) /\ over \in Nat
    /\ viewer \in [Viewers -> [step : {"look", "read", "type", "fetch", "walk", "sweep", "beside"} \union WriteSteps,
                               poster : Posters, type : Types \union {NoType}] \union {Away}]

PosterInit ==
    /\ dir = <<>> /\ type = [k \in Posters |-> NoType] /\ mime = type
    /\ counter = 0 /\ sweeper = Nobody /\ list = <<>> /\ over = 0
    /\ viewer = [v \in Viewers |-> Away]
    /\ fetches = 0 /\ mishaps = 0 /\ mixed = {} /\ leaked = 0

ViewerAt(v, s)    == viewer[v].step = s
Poster(v)   == viewer[v].poster
GoTo(v, s)  == viewer' = [viewer EXCEPT ![v].step = s]
Leave(v)    == viewer' = [viewer EXCEPT ![v] = Away]
Mishap      == mishaps < MaxMishaps /\ mishaps' = mishaps + 1
WritersOf(k)  == {v \in Viewers : viewer[v].step \in WriteSteps \ {"count"} /\ Poster(v) = k}
Keeps       == UNCHANGED <<counter, sweeper, list, over>>

-----------------------------------------------------------------------------
(* A request. *)

AskPoster(v, k) ==
    /\ ViewerAt(v, "away")
    /\ viewer' = [viewer EXCEPT ![v] = [step |-> "look", poster |-> k, type |-> NoType]]
    /\ UNCHANGED <<dir, type, mime, fetches, mishaps, mixed, leaked>> /\ Keeps

LookUp(v) ==
    /\ ViewerAt(v, "look") /\ GoTo(v, IF There(Image(Poster(v))) THEN "read" ELSE "fetch")
    /\ UNCHANGED <<dir, type, mime, fetches, mishaps, mixed, leaked>> /\ Keeps

\* A file that was swept after the look makes the request fail.
ReadImage(v) ==
    /\ ViewerAt(v, "read")
    /\ IF There(Image(Poster(v))) THEN GoTo(v, "type") ELSE Leave(v)
    /\ UNCHANGED <<dir, type, mime, fetches, mishaps, mixed, leaked>> /\ Keeps

\* read_sidecar_mime: whatever is on record by now, or image/jpeg.
ReadType(v) ==
    /\ ViewerAt(v, "type") /\ Leave(v)
    /\ UNCHANGED <<dir, type, mime, fetches, mishaps, mixed, leaked>> /\ Keeps

\* Plex's poster, or that of Radarr or Sonarr in another type.  Temporary names are
\* never used twice: the sweep's entries for the last ones stand for nothing any more.
FetchPoster(v) ==
    /\ ViewerAt(v, "fetch") /\ fetches < MaxFetches /\ fetches' = fetches + 1
    /\ \E t \in Types :
          viewer' = [viewer EXCEPT ![v].step = "temp", ![v].type = t]
    /\ mixed' = IF WritersOf(Poster(v)) # {} THEN mixed \union {Poster(v)} ELSE mixed
    /\ list' = Less(Less(list, Temp(v)), MimeTemp(v))
    /\ UNCHANGED <<dir, type, mime, mishaps, leaked, counter, sweeper, over>>

NoPoster(v) ==
    /\ ViewerAt(v, "fetch") /\ Leave(v)
    /\ UNCHANGED <<dir, type, mime, fetches, mishaps, mixed, leaked>> /\ Keeps

\* A write that fails leaves what it has written: the name is known only afterwards.
WriteTemp(v) ==
    /\ ViewerAt(v, "temp")
    /\ \/ dir' = Append(dir, Temp(v)) /\ GoTo(v, "image") /\ UNCHANGED <<mishaps, leaked>>
       \/ /\ Mishap /\ Leave(v)
          /\ dir' = Append(dir, Part(mishaps + 1)) /\ leaked' = leaked + 1
    /\ UNCHANGED <<type, mime, fetches, mixed>> /\ Keeps

\* Without its temporary file, which a sweep may have taken, the write is given up.
ReplaceImage(v) ==
    /\ ViewerAt(v, "image")
    /\ IF There(Temp(v))
       THEN /\ dir' = Renamed(Temp(v), Image(Poster(v)))
            /\ type' = [type EXCEPT ![Poster(v)] = viewer[v].type]
            /\ GoTo(v, "mime temp")
       ELSE Leave(v) /\ UNCHANGED <<dir, type>>
    /\ UNCHANGED <<mime, fetches, mishaps, mixed, leaked>> /\ Keeps

\* A type that cannot be written is not missed here.
WriteMimeTemp(v) ==
    /\ ViewerAt(v, "mime temp")
    /\ \/ dir' = Append(dir, MimeTemp(v)) /\ GoTo(v, "mime") /\ UNCHANGED <<mishaps, mixed>>
       \/ Mishap /\ GoTo(v, "count") /\ mixed' = mixed \union {Poster(v)} /\ UNCHANGED dir
    /\ UNCHANGED <<type, mime, fetches, leaked>> /\ Keeps

ReplaceMime(v) ==
    /\ ViewerAt(v, "mime") /\ GoTo(v, "count")
    /\ IF There(MimeTemp(v))
       THEN /\ dir' = Renamed(MimeTemp(v), Mime(Poster(v)))
            /\ mime' = [mime EXCEPT ![Poster(v)] = viewer[v].type]
       ELSE UNCHANGED <<dir, mime>>
    /\ UNCHANGED <<type, fetches, mishaps, mixed, leaked>> /\ Keeps

-----------------------------------------------------------------------------
(* The sweep. *)

\* The lock is only tried: whoever finds it taken leaves the counter where it is.
Trips(v) ==
    /\ counter + 1 >= RecheckEvery
    /\ IF sweeper = Nobody
       THEN sweeper' = v /\ GoTo(v, "walk") /\ counter' = 0
       ELSE Leave(v) /\ counter' = counter + 1 /\ UNCHANGED sweeper

CountWrite(v) ==
    /\ ViewerAt(v, "count")
    /\ \/ Trips(v)
       \/ counter + 1 < RecheckEvery /\ counter' = counter + 1 /\ Leave(v) /\ UNCHANGED sweeper
    /\ UNCHANGED <<dir, type, mime, list, over, fetches, mishaps, mixed, leaked>>

\* Mutated form: a look that ends early does not reach the release.
LeavesLocked(v) == list' = <<>> /\ over' = 0 /\ Leave(v) /\ UNCHANGED sweeper

\* The finally of maybe_sweep_cache.
Release(v) == sweeper' = Nobody /\ list' = <<>> /\ over' = 0 /\ Leave(v)

\* The walk through the directory, unfinished files of others included.
Walk(v) ==
    /\ ViewerAt(v, "walk")
    /\ IF Total(dir) <= Cap
       THEN Release(v)
       ELSE list' = dir /\ over' = Total(dir) /\ GoTo(v, "sweep") /\ UNCHANGED sweeper
    /\ leaked' = 0
    /\ UNCHANGED <<dir, type, mime, counter, fetches, mishaps, mixed>>

\* One entry of the walk: what is no longer there does not count as removed.
SweepEntry(v) ==
    /\ ViewerAt(v, "sweep") /\ list # <<>> /\ over > Target
    /\ LET e == Head(list)
       IN  IF There(e)
           THEN /\ dir' = Gone(e) /\ over' = over - Size(e)
                /\ type' = IF e[1] = "image" THEN [type EXCEPT ![e[2]] = NoType] ELSE type
                /\ mime' = IF e[1] = "mime" THEN [mime EXCEPT ![e[2]] = NoType] ELSE mime
                /\ IF e[1] = "image" THEN GoTo(v, "beside") /\ UNCHANGED list
                   ELSE list' = Tail(list) /\ UNCHANGED viewer
           ELSE list' = Tail(list) /\ UNCHANGED <<dir, type, mime, over, viewer>>
    /\ UNCHANGED <<counter, sweeper, fetches, mishaps, mixed, leaked>>

\* The type beside an image goes with it, be it the old one or a newer.
SweepBeside(v) ==
    /\ ViewerAt(v, "beside") /\ GoTo(v, "sweep") /\ list' = Tail(list)
    /\ LET k == Head(list)[2]
       IN  dir' = Gone(Mime(k)) /\ mime' = [mime EXCEPT ![k] = NoType]
    /\ UNCHANGED <<type, counter, sweeper, over, fetches, mishaps, mixed, leaked>>

EndSweep(v) ==
    /\ ViewerAt(v, "sweep")
    /\ list = <<>> \/ over <= Target
    /\ Release(v)
    /\ UNCHANGED <<dir, type, mime, counter, fetches, mishaps, mixed, leaked>>

ViewerStep(v) ==
    \/ LookUp(v) \/ ReadImage(v) \/ ReadType(v) \/ FetchPoster(v) \/ NoPoster(v)
    \/ WriteTemp(v) \/ ReplaceImage(v) \/ WriteMimeTemp(v) \/ ReplaceMime(v)
    \/ CountWrite(v) \/ Walk(v) \/ SweepEntry(v) \/ SweepBeside(v) \/ EndSweep(v)
    \/ \E k \in Posters : AskPoster(v, k)

PosterNext == \E v \in Viewers : ViewerStep(v)

PosterSpec == PosterInit /\ [][PosterNext]_posterVars

-----------------------------------------------------------------------------
(* Properties. *)

Unfinished == {v \in Viewers : viewer[v].step \in WriteSteps}

\* The directory outgrows its cap by no more than what was written since the last look,
\* however long a sweep takes and whatever is renamed and written anew meanwhile, and
\* the lock is held by nobody who does not sweep, so that there is a next look.
CacheBounded ==
    /\ \A v \in Viewers : sweeper = v <=> viewer[v].step \in {"walk", "sweep", "beside"}
    /\ sweeper = Nobody => Total(dir) <= Cap + counter + Cardinality(Unfinished) + leaked

\* A poster at rest is served in its own type, or as image/jpeg, unless two requests have
\* written it together or its type could not be written.
TypesTell ==
    \A k \in Posters \ mixed :
        WritersOf(k) = {} /\ type[k] # NoType /\ mime[k] # NoType => mime[k] = type[k]

PostersKept == PosterTypeOK /\ CacheBounded /\ TypesTell
=============================================================================
