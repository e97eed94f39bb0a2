# mediaman in TLA+

mediaman watches a Plex library. Once a week it finds films and seasons nobody has
watched for a long time, schedules their deletion, mails a newsletter with a "keep"
link per item, and deletes what nobody kept. Around this it shows the download queue of
Radarr and Sonarr, triggers searches, mails people whose download is ready, and asks a
language model for recommendations. Everything is one Python process: FastAPI with a
thread pool, an APScheduler with a few periodic jobs, threads for the scans an admin
starts, and one SQLite file that all of them share.

This directory holds models of that program, their TLC configurations, and proofs that
TLAPS checks. A module header says what the module stands for; a comment above a
definition says what its code does; `PROJECT.json` maps each definition to its lines.

    tlc -workers 2 -config Lifecycle_worlds.cfg MCMediaWorlds.tla
    tlapm MediaLifecycleProofs.tla

## Inventory

| Component | State | Operations | Modelled in |
|---|---|---|---|
| scan passes (`scanner/engine.py`, `_scan_library.py`, `runner.py`, `fetch.py`) | `media_items`, `scheduled_actions`, the scan's locals (`seen_by_lib`, guard sets) | `run_scan`, `scan_movie_library`, `scan_tv_library`, `run_library_sync` | MediaLifecycle |
| eligibility and dates (`_eligibility.py`, `arr_dates.py`, `phases/evaluate.py`) | the dates cached for a run; `added_at`, `last_watched_at` | history per part, fold of the parts' dates, fallbacks, verdict | Eligibility (one item); MediaLifecycle leaves the verdict open |
| orphan guard (`scanner/phases/delete.py`) | setting `orphan_guard_pending`, `media_items` | `remove_orphans` | LibraryDelete; MediaLifecycle (outcome only) |
| deletion executor (`scanner/deletions.py`, `services/infra/storage`) | `scheduled_actions.delete_status`, the disk, `audit_log` | `execute`, `recover_stuck_deletions` | MediaLifecycle |
| statements of the two tables (`scanner/repository`) | `scheduled_actions`, `kept_shows` | the queries and updates | ScheduledActions |
| job leases (`db/connection.py`, `web/routes/scan.py`, `recommended/refresh.py`) | `scan_runs`, `refresh_runs`, worker and heart threads | claim, heartbeat, finish, staleness | JobRuns, SingleRun |
| scheduler and boot (`scanner/scheduler.py`, `bootstrap/scan_jobs.py`) | job store, recovery flag | weekly scan, sync, boot recovery | MediaLifecycle, JobRuns |
| keep links (`web/routes/keep.py`, `services/scheduled_actions`) | `keep_tokens_used`, one row of `scheduled_actions` | look up, keep | MediaLifecycle |
| admin keeps (`web/routes/kept*.py`, `library_api`) | `scheduled_actions`, `kept_shows` | keep, show keep, unprotect, clear | MediaLifecycle |
| library delete and redownload | `delete_intents`, `media_items`, Arr services | two-step delete, reconcile at startup; redownload | LibraryDelete, WriteAhead; Downloads (redownload, as one of the buttons) |
| download notifications (`services/downloads/notifications.py`, `_notification_*.py`) | `download_notifications`, `_backoff_state` in memory | record, claim, judge readiness, mail, back off, reconcile at boot | DownloadNotes |
| download links and buttons (`web/routes/download`, `search/download.py`, `recommended/api.py`) | `used_download_tokens`, `_USED_TOKENS` in memory | claim, cache, add, record, release | Downloads |
| download queue and completion (`services/downloads/download_queue`, `services/arr/completion`) | the queue of the last request in memory, `recent_downloads` | list, match, swap, verify, record, prune | DownloadQueue |
| search trigger, throttle, auto-abandon (`services/arr/search_trigger.py`, `_throttle_persistence.py`, `auto_abandon.py`) | throttle in memory and `arr_search_throttle` | reserve, search, commit, roll back, sweep, clear | ArrSearch |
| writes to a series at Sonarr (`_transport.py`, `fetcher`, `downloads/abandon.py`) | none here: Sonarr's copy | unmonitor, delete season, delete series | SeriesWrites |
| state of a title on the pages (`services/arr/state.py`, `fetcher/_sonarr.py`) | none | counts and queue records to a state and a percentage | ArrStates |
| newsletter (`services/mail/newsletter`) | `newsletter_deliveries`, `scheduled_actions.notified`, `subscribers` | recipients, send, record, mark | Newsletter |
| users, sessions, reauthentication (`web/auth`, `web/routes/users`) | `admin_users`, `admin_sessions`, `reauth_tickets` | log in, out, change, create, delete, prove again, expire | Accounts |
| lockout (`web/auth/login_lockout.py`) | `login_failures` | check, count, decay, lock, unlock | Lockout |
| rate limits (`services/rate_limit`) | windows in memory | attempt, prune, evict; whose address it is | RateLimits |
| recommendations (`services/openai`, `web/routes/recommended`) | `suggestions`, a setting, the lease | refresh, show, mark, download | Suggestions; JobRuns (the lease), Downloads (the button) |
| outbound HTTP (`services/infra/http`, `url_safety.py`, `mail/mailgun.py`) | pins per thread, the resolver hook | check, pin, send, retry, give up | Outbound |
| poster cache (`web/routes/poster`) | a directory, its counter and lock | read, fetch, write, sweep | PosterCache |
| secret settings and the key (`web/routes/settings`, `crypto/_aes_key.py`, `aes.py`) | `settings`, salt and canary rows, the salt in memory, test results | start, write, test | Settings |
| pages that read, middleware, start-up wiring, helpers | none, or rows of others | reads | no, see the end |

**Interaction.** Components meet in the database. Connections are per thread;
`BEGIN IMMEDIATE` takes the one write lock, so a transaction is atomic and transactions
are ordered, while a plain `SELECT` sees the last commit. What goes wrong therefore goes
wrong *between* a read and the transaction that uses it, between a transaction and an
effect outside the database (a file, a mail, a call to Arr), and at a crash between two
of those. The scanner, the sync, the recovery at boot and the web workers all write
`scheduled_actions`; scanner and executor share one thread; a lease row keeps a second
scan from starting; the newsletter runs inside the scan and hands out the keep links.

**What makes a component correct**, in a line each:

- scan and executor: no item is deleted that was not due, was kept, or lies outside the
  delete roots; what was deleted is audited; a crash or a refused removal loses nothing
  and holds nobody up; a dry run does nothing;
- eligibility: only what is old *and* unwatched is condemned, by the newest file it has,
  and nothing is spared for ever because one source has a bad date;
- keeps: a keep the user made is honoured while it runs, a link works once, a protection
  ends only by its time or by the admin;
- leases: one run at a time, and a dead run stops blocking;
- library delete: a row whose file was removed by hand goes, whatever fails in between;
  the orphan guard drops nothing on one doubtful answer, unless passes overlap;
- notifications: at most one mail per download unless the process dies in between, and
  in the end one; backoff ends;
- download links: a link downloads once, and only a download, an answer, a failure of
  the table or a click that lost it at the wrong moment spends it;
- queue: a completion is recorded, or lost for a cause that has a name, and nothing is
  recorded that was never there;
- searches: one at a time and spaced by a delay that grows with every success; a failed
  one costs nothing;
- newsletter: a deletion marked as announced has reached everybody; every deletion is
  announced in the end;
- accounts: an admin always remains; a session and its ticket prove the password its
  user has now; weak passwords are flagged; locks fit the failures, run their time, end;
- limits hold for whatever headers, proxies, pruning and eviction;
- outbound calls reach only addresses that were checked, are not repeated where that
  does harm, and are reported by their last answer;
- recommendations: marks belong to the title that was clicked, a batch is never replaced
  by nothing, refreshes do not overlap;
- secrets are readable after every restart with the key they were written under; a write
  is whole; a test result is about the settings in force;
- posters: the cache keeps its cap while it is used, and a poster keeps its type.

## Modules

    ScheduledActions            table scheduled_actions: predicates, queries, updates
      MediaLifecycle            scanner, executor, sync, boot, web handlers, environment
        MCMediaLifecycle        symmetry of the web workers, for TLC
        MCMediaWorlds           three small worlds side by side, for TLC
        MediaLifecycleProofs    theorems, and lemmas on the updates
    SingleRun                   what a table of runs promises
      JobRuns                   leases, worker and heartbeat threads       > MCProgress
        JobRunsProofs           theorems
    DownloadNotes               rows that announce downloads, the checks that mail them
      Downloads                 links, buttons, and DownloadNotes composed
        MCDownloads             one title, symmetry of the requests, for TLC
        DownloadsProofs         theorems
    Accounts  RateLimits  Settings  PosterCache  Outbound         \  MCWeb
    LibraryDelete  Eligibility  Suggestions                       |  MCServices
      WriteAhead                what a record kept ahead of a removal promises
    ArrSearch  DownloadQueue  SeriesWrites  ArrStates             |  MCArr
    Lockout  Newsletter                                           /  MCProgress
        WebProofs               theorems on Accounts, Settings, Outbound, RateLimits
        PosterCacheProofs       theorem on PosterCache
        ServicesProofs          theorems on LibraryDelete, Eligibility
        ArrProofs               theorems on ArrSearch, DownloadQueue, SeriesWrites, ArrStates
        ProgressProofs          theorems on Lockout, Newsletter, Suggestions

The modules side by side share no state that their properties speak of. Their
MC modules check them side by side: a variable `part` says whose behaviour it is, and
the variables of the others stay at their initial values. So each part is explored in
full, and no part can hide or help another. Five modules have two parts with a bound
each, because both bounds lifted at once would be too large: Suggestions, two refreshes over
days or the page and the button on one day; ArrSearch, two titles of a service of which one is
never found, in full length, or both in a short time; DownloadQueue, overlapping requests
without NZBGet jobs or jobs beside one request at a time; ArrStates, seasons of two episodes
with one download at a time or downloads beside seasons of one; LibraryDelete, two requests
or one beside a pass over one library, or a scan of one library beside a sync of two
without requests. In the show part of MCMediaWorlds, requests in progress together are of different
kinds.

### ScheduledActions

A table is a function from ids to rows. SQL compares ids only among the rows of one
item (`ORDER BY id DESC`, or the order of the index), so an id is a pair
`<<item, n>>`, the n-th row ever inserted for the item; `AUTOINCREMENT` never hands
one out twice. A row has `action`, `at` (`execute_at`, `NoTime` for NULL), `used`
(`token_used`) and `status` (`delete_status`; NULL and 'pending' are one value because
every statement treats them alike). The predicates are the WHERE clauses, boundary
included: a row with `execute_at = now` is due for the executor *and* can still be kept
by its link.

### MediaLifecycle

| Model | Code |
|---|---|
| `rows`, `kept`, `media`, `spent` | `scheduled_actions`, `kept_shows` (one show), `media_items`, `keep_tokens_used` |
| `pc` | where the scanner's thread is: `scan` (between libraries), `guard`, `write`, `prune`, `collect`, `exec`, `remove`, `commit`; `idle`, or `down` after a crash |
| `fetched`, `seen`, `guarded`, `clock`, `work`, `cur` | locals of `run_scan` and `execute`, stale once read |
| `syncLibs`, `syncSeen` | locals of `run_library_sync`, which has a thread of its own |
| `req` | per web worker, what a handler read before its transaction |
| `disk`, `plex` | which files exist; which items Plex lists |
| `owed`, `credited` | removed files with no audit entry yet (ghost); rows with a "deleted" entry |

One action is one transaction or one step outside the database. Handlers that read,
release the connection and write later are two actions with the values read in `req`:
the emailed link (`LinkRead`, `LinkApply`), the show keep (`ShowRead`, `ShowWrite`),
unprotect (`UnprotectRead`, `UnprotectWrite`). `AdminKeep` and `ClearPending` are one
transaction each. The movie pass reads its guard sets before it takes the write lock
(`ReadGuards`, then `WriteMovies`); the TV pass first deletes expired show snoozes, which
takes the lock, so its reads are part of `WriteSeasons`. A deletion is
`MarkDeleting`, `RemoveFile`, `CommitDeletion`, with a crash possible between any two.

Items come in three sorts by where their file is: `Inside` a delete root, `Outside` of
all, or without a path. Left open on purpose: which items the policy condemns (any
subset of those fetched), which items a fetch returns (any subset of those Plex lists:
items whose history cannot be read are dropped), whether the orphan guard lets an orphan
go now or next time, and whether a scan visits a library at all (disk thresholds).

Time: deadlines are days, requests are milliseconds. The model's clock separates
deadlines, and `Tick` waits while a request that began in an earlier tick is unfinished:
a request spans at most one tick. Snoozes last at least two ticks
(`TimesAssumption`: the shortest snooze the program offers is seven days), so one made
by a request still runs when that request ends.

### JobRuns and SingleRun

`lease`, `silence` and `kind` are the rows of `scan_runs` (or `refresh_runs`, the same
code): unfinished or not, heartbeat intervals since `heartbeat_at`, who started the run.
`worker` and `heart` are the two threads of a run. A tick is one heartbeat interval and
ends when every heart due in it has beaten, missed or stopped. `Claim` is the transaction
of `_start_job_run` together with the handler that starts the threads; `ClaimInVain` the
refresh handler that gives the lease back, or fails between claim and threads. `Finish`
covers a job that ends well or not and a `finish_*_run` that fails. A crash keeps the
rows: nothing at boot releases a lease, it has to age.

`SingleRun` is the promise: runs are numbered, begun once, and begin only when none is
in progress. `JobRuns` implements it with `begun <- rows in the table`,
`running <- runs whose worker is alive`.

### DownloadNotes and Downloads

| Model | Code |
|---|---|
| `status`, `about`, `age` | `download_notifications`: `notified` (0 queued, 2 claimed, 1 sent), its title, the time since `claimed_at` |
| `wait`, `delay` | `_backoff_state` and the schedule of `ExponentialBackoff`: lost in a crash |
| `check` | per library sync, the locals of `check_download_notifications`: rows claimed and not done with, the row at hand, the index of the library read at the beginning, the time since then |
| `arr` | per title, whether Radarr or Sonarr lacks it, wants it or has its file; an unmonitored title, which the search button monitors again, counts as lacking |
| `used`, `cache` | `used_download_tokens`, `_USED_TOKENS` |
| `req` | per web request, how far its handler is |
| `mails`, `granted`, `settled`, `faults` | ghosts: mails per row, downloads per token, tokens with a final answer, failures by kind |

A check goes through `ClaimNotes`, `Partition` (release what is backed off), `FetchIndex`,
then per row `RowReady`, `RowNotReady` or `RowUnreachable`, `SendMail`, `MarkSent`, and
`ReleaseRow` on every path that does not end in a sent mail. Each is a statement with
its commit, a request to a service, or a mail, and each can fail: `Fault(f)` is a guard
that counts failures against `MaxFaults`. A statement that fails in a release leaves the
row claimed (`_release_claim` logs it); an exception outside the loop over rows leaves
all of them claimed, and so does one inside it that `_process_one_notification` does not
catch, such as a ValueError of the mailer (`CheckDies`, `MailDies`, failure "uncaught"). Mailgun
may have taken a mail whose request fails.

The scheduler starts before the reconciliation, so a scheduled check may run while the
program is `booting`; requests and manual syncs may not. Booting takes less than a tick,
which is what makes the grace of one hour safe for claims of the same boot.

A request for a link is `SubmitLink` (signature, expiry, cache), `ClaimToken`
(`INSERT OR IGNORE`), `CacheToken`, the call (`AddTitle`, `AlreadyThere`, `AddFails`,
`CannotAdd`), `Record`, and on failure `Uncache` and `Unclaim`. The admin's buttons share
the call and `Record`, without a token; `RecordNote` is where the two modules meet.
Left out: rate limits and the ten-second double-click guard of the search button (they
refuse requests, which may fail to happen anyway), rows with an unknown service, and two
failures in one step (mail settings that are missing while the release fails).

### Eligibility

One item, a film or a season, seen by one scan or sync at a time. `file` is per part
when it came and in which form Arr writes the date (with an offset, without, unreadable);
`plexDate` and `viewed` are what Plex has; `run` holds the pass's locals: the parts whose
history has still to be asked for, the latest viewing heard of, the date taken from the
cache. People watch, files come, and histories shrink between any two of these steps.
`Newest` is the fold of `ArrDateCache._build`, `Clash` its TypeError when a season mixes
dates with and without an offset, `AddedAt` the chain of `_resolve_added_at`. The cache
is filled once per run of the scanner, so a pass may begin with dates that are older
than its own fetch (`loaded`). The properties compare the verdict with the world, not
with the pass's own variables: what arrived or was watched before the questions were
asked must have counted.

### LibraryDelete

`DELETE` on the library page is: read the item, insert the intent, call Radarr or Sonarr,
drop the row in one transaction, complete the intent in another; an item without an
id at a service has no intent and only loses its row. A call may be refused, done, or done with its answer
lost. Restarts reconcile the pending intents read at the start (`todo`) while the
scheduler already runs. `owed` are rows whose file a request has removed.

A pass is the two-look guard of `remove_orphans`: a library
that shrinks too much is marked first and pruned only if a second look agrees; the mark
is a setting, so it outlives the process, and a good answer lifts it. Passes are given per
job (`pass[j]`), because a sync takes no lease and runs beside a scan. One library of a pass is
`Fetch`, then for the scan `WriteRows` (the rows, committed), `Look` (the count of rows and the
list of marks, read without a transaction), `Decide` (a believed answer lifts its mark and drops
the orphans in one transaction; a doubted one writes the whole list of marks), and `DropConfirmed`
after a mark that was found; for a sync that has rows to write, look and decision are in the
transaction that its writes have opened (`SyncLook`). Two libraries follow each other as two
passes of the same job; their order is left open. The count of the rows and the marks are two reads in
the code and one here, as are the query for the orphans' ids and their deletion in `DropFrom`.
There is one scan at a time, which is what the lease of JobRuns gives. `doubts` counts the
consecutive looks at a library that were not believed, and `blurred` are the libraries whose mark
was written from a list that had changed since it was read.

`WriteAhead` is the promise of the intents: a step that cannot be taken back is taken for an
item only while the record names it, and the record lets go of it only when nothing is owed.
`LibraryDelete` implements it (`DeletionsWriteAhead`) with `promised <- items of the pending
intents`; every step but those of requests and reconciliation changes nothing the promise sees, or
settles what is owed.

### ArrSearch, DownloadQueue, SeriesWrites, ArrStates

- **ArrSearch**: `last`, `count`, `token`, `byArr` are the module's dictionaries, `saved`
  the table. A caller sweeps, reserves (under the lock), calls outside of it, then commits,
  rolls back by its token, or finds its title abandoned; each table write is separate and
  may fail, and a restart loads what the table has. `leaving` makes `clear_throttle` two steps.
- **DownloadQueue**: a request lists the services one after another (a failed one keeps
  its old cards), matches NZBGet jobs to cards, swaps the list for the previous one, and
  verifies, records and prunes what left it; several requests interleave at these steps.
  `fate` says of every id that was on a kept list whether its completion is owed (it has still to be
  recorded), settled, or lost, and by which of five causes (`Causes`): its service was silent at the
  verification, the INSERT failed, its row was deleted for a list older than the row, or for another
  item of the same title, or the process was restarted before it was recorded. Only a list, a
  verification and the passing of a week settle; a step that loses a completion says so.
- **SeriesWrites**: the read-modify-write of a whole series with its retries and lost
  answers, season deletion with the question "any files left?" and the deletion of the
  series; imports and people at Sonarr change things in between.
- **ArrStates**: pure functions over statistics and queue records; the variables are
  their arguments, and steps change one of them. Sizes count once per download: a sum is the
  number of its units (`Units`), over the first record of each key (`Counted`). Rounding
  is `round(100 * done / size)`.

### Accounts and Lockout

A request resolves its session (`Enter`), then performs the transactions of its handler
(`StepsOf`), each an action, so two requests mix between any two. Passwords are numbers
per name; a row is known by the number it was created with, as ids are never reused.
Sessions and tickets expire and are swept at any time; cleaning up tickets may fail, as
the code logs and goes on. The command line creates users from outside.

`Lockout` keeps times as ticks left (`left`) or gone (`age`), both capped, so that time
need not be bounded and liveness is about all of it. Reading the lock, comparing the
password and recording the result are three steps of each check.

### RateLimits, Settings, PosterCache

- **RateLimits**: `ActionRateLimiter` per admin and day, `RateLimiter` per network in a
  bounded table in order of use; pruning every n-th call. `Arrivals` are all paths a
  request can take: direct, over trusted proxies, over Cloudflare, with headers the
  client wrote. A proxy that writes only X-Real-IP hands an X-Forwarded-For on as it came,
  and `get_client_ip` reads that one first (`ip_resolver.py:193`, `:229`), so such a request
  counts for the address it names (`Vouched` is false, see Divergences). Attempts are ages; what is
  left of a log, and of the order, is said by places in it, so that it can be reasoned about. `LimitsSpec` is both limiters side by side; the
  run takes each as a part of its own. `granted` and `passed` record what was let through.
- **Settings**: writes as `Begin`, `MakeSalt`, `WriteRows`, `CommitWrite`, `Invalidate`,
  with a rollback at every point; the salt's own commit ends the transaction it is made
  in (`_load_or_create_salt` commits). Starts check or write the canary and may come with
  another master key. Tests read rows, call, and cache a result.
- **PosterCache**: the directory is the sequence of its files by age; a request looks,
  reads image and type in separate steps, fetches, writes each of the two files under
  a temporary name and renames it. The walk through the directory is one step, every
  removal another. Increment and reset of the counter are one step with the attempt to
  take the lock; in the code they are two critical sections, between which an increment may be lost.

### Outbound, Newsletter, Suggestions

- **Outbound**: `call` is a thread's call with its kind (read, write, mail, Plex), the
  answers so far, and where it went. The host is checked and its address pinned, an attempt
  uses the pin if the hook is in place (or what the name now resolves to, where code has
  replaced the resolver), and `Heard`, `_LoopState` after it, and `Judged` decide on the
  next one. `taken` counts how often the other side did what must not be done twice.
- **Newsletter**: `SendStep(s)` is a sender's next statement or mail: the scan, or an admin
  who picked recipients. A record of a delivery, once written, decides who is written to
  next time; `notified` is set when `DeliveredToAll`. Mails, records and the process fail
  up to `MaxFailures` times; people subscribe, leave, and are removed up to `MaxChanges` times.
- **Suggestions**: rows by id, of a batch (day), by a scan or by a request; a refresh is
  `Ask` (cooldown), `Claim` (lease), `Generate`, `InsertPicks`, `RecordManualRefresh`,
  `FinishRefresh`. The page asks each service for its list and its queue in turn and then
  takes marks back; the button adds and marks.

## Runs

| Run | Checks | Bounds |
|---|---|---|
| `Lifecycle_worlds` | `TypeOK`, `OneLiveDeletion`, `LinkKeepHolds`, `WorkSparesLinkKeeps`, `Inductive`, `OnlyDueFilesRemoved`, `ScannerSparesProtection`, `RecoveryAuditsRemovals`, `DryRunKeepsTables` | part `film`: one film, one worker at a time, traffic link, keep, unprotect, clear, sync; 4 instants, 2 rows, 1 fault. Part `show`: one season, a link and a show keep in progress together; 4 instants, 2 rows, no fault. Part `files`: a film inside, one outside the roots, a season without path; vanishing files, dry and live runs; 3 instants, 1 row, 1 fault |
| `Lifecycle_live` | `StuckRowsResolved`, `DueDeletionsDecided`, `LapsedSnoozesSwept` under `FairSpec` | a film inside, one outside; admin keeps, Plex glitches; 4 instants, 1 row each, 1 fault |
| `Downloads_links` | `LinkGrantedOnce`, `NoLinkBurned` | two links for one title, one a redownload; two requests (symmetric) and buttons; cache of 1, 2 faults |
| `Downloads_mail` | `ClaimsExclusive`, `MailedOnce`, `OnlyFailuresStrand`, `Announced` under `FairSpec` | two rows of one title, a scheduled and a manual check; backoff up to 2 ticks, grace 1, 1 fault (crash, statement, service, mail, uncaught exception) |
| `Web` | `LastAdminStays`, `AccountsKept`, `LimitsKept`, `SettingsKept`, `PostersKept`, `OutboundKept` | two admins, two requests, two sessions, one new password each; 2 in a window and 3 a day, four arrival networks, with and without headers of the client's own, and two buckets; one secret, two master keys, two writers, 3 starts; two posters, two viewers, cap 1, a look every 2nd write; one thread, a host with a good and a bad address and the container's host, 3 attempts |
| `Services` | `OwedRowsRemembered`, `PruneNeedsTwoLooks`, `EligibilityKept`, `SuggestionsKept` | two films (one known to Radarr) in one library and a season in another, two intents; two requests (symmetric), or one beside a scan or a sync of the films, or a scan of the films beside a sync of both; an answer of no items is doubted (the theorem has any thresholds); restarts at any point; two parts of a season, 3 instants, 3 changes; recommendations over days, and one day's page |
| `Arr` | `SearchBudget`, `PageRecordsCompletions`, `SeriesKeepsRest`, `PagesTellTheState` | two titles of a service, a page and the search job, delays 1, 2, 4; two downloads of two services, two overlapping requests or two jobs; two seasons, two writers, 3 retries; a season and the specials, of two episodes, or of one and two queue records of 0 or 200 units with none, 1 or 3 left |
| `Progress` | `OneRunAtATime`, `LeaseIsSingleRun`, `LockFitsCount`, `LockNeverShortens`, `LettersReach`; `LeaseReleased`, `LocksEnd`, `DueAreTold` under fairness | 3 runs of 3 kinds, stale after 3 intervals, 1 miss in a row, 2 faults (crash, failed finish, failed handler, worker that cannot start); one name, two checks at once, two lock rules; two addresses, one deletion, 2 failures, 2 changes |
| `Lifecycle_forgotten` | `NoRemovalForgotten`, violated | one film, clear |
| `Downloads_cache` | `CacheConsistent`, violated | as `Downloads_links` |
| `Arr_overlap` | `CompletionsRecorded`, violated | the overlapping requests of `Arr` |
| `Services_doubt` | `SecondLookPrunes`, violated | the scan and sync of `Services`, never in one library together |

Why the bounds suffice. All properties of the deletion pipeline relate rows of one item
(or one file), and rows of different items meet only in the scanner's sets, so one item
with two rows has every pair of roles: old keep and new deletion, claimed deletion and
fresh one. Four instants with `Grace = 1` and a snooze of 2 let a deletion be scheduled,
fall due, be kept, the snooze run and lapse, and the next scan see the result. Two
workers are needed only for the show keep that overwrites a row a link has just kept. One
fault places a crash, a failed removal or an aborted scan at every point of a run; the
theorems below remove the bounds for the safety properties they cover. `MaxTime`,
`MaxRows`, `MaxRuns` and `MaxFaults` are guards of the actions that count. With `MaxTime`
reached the clock stands still, which the liveness properties allow for: they only ask
for scans to go on.

For downloads, two requests race for one token and two checks for one row; a third adds
no new pair, and the theorems hold for any number. `Downloads_mail` has no web requests:
its rows are those an earlier process left (`NotesInit`), so all orders of claim,
backoff, failure and crash are met with a small state. Two faults in `Downloads_links`
allow a failing call and a failing release after it. `Grace` and `MaxDelay` count ticks
of a minute; only their order of events matters, and they are larger than a tick so
that a deadline can be pending at a check.

For the parts of `Web`, `Services`, `Arr` and `Progress` the bounds follow one rule: two
actors for every race, one element of each kind a property tells apart, and room for
the limit to be hit and passed once more. Two lock rules `<<2,1>>, <<3,2>>`
stand for the code's five, ten and fifteen failures: a count can be raised past one rule
while the lock of the one before runs. A cache of one poster is full after one
write, and looks every second write, so it is over its cap between two sweeps and each
sweep has something to remove. Two searches' worth of backoff reaches the longest delay.
Two parts of a season come in both orders and with every pair of date forms; three
instants with days of two ticks hold one boundary of a day. Three attempts are what the
code makes.

Interchangeable requests are reduced by symmetry in the runs without liveness.

`Web`, `Services`, `Arr` and `Progress` do not check for deadlock: their parts end when a
bounded number is used up. The other runs check it.

What the passing runs say beyond the obvious:

- **`OneLiveDeletion`** (film). The partial unique index covers 'pending' rows only, so
  while a row is 'deleting' the index would admit a second one, and recovery, setting the
  first back to pending, would then fail at every boot. It is the guard set of scheduled
  items, which has no status filter, that prevents it, although it is read before the
  lock.
- **`LinkKeepHolds`** (film). A link's keep is never overtaken by a deletion
  the movie pass decides on from stale guard sets: an item a link can keep has a live
  deletion, and so is in the set already. `GuardsCover` makes this precise.
- **`WorkSparesLinkKeeps`** (film, show). The executor's list is read once. A keep by link
  committed later does not save the file the row is for (the executor marks the row by
  its id and removes the file); what holds is that the list never contains a *different*
  row of an item kept by link.
- **`OnlyDueFilesRemoved`**, **`ScannerSparesProtection`** (film): the boundary cases of
  `execute_at`, with the executor's clock read before its list.
- **`RecoveryAuditsRemovals`** (film, files): crash or failure at any point between removal
  and audit, executor and recovery lose no removed file.
- **`DryRunKeepsTables`** (files): a dry run leaves files, rows and audit alone. It does not speak
  of `kept_shows`, whose lapsed snoozes a dry pass over a show deletes too
  (`scanner/_scan_library.py:302`).
- **`StuckRowsResolved`**, **`DueDeletionsDecided`**, **`LapsedSnoozesSwept`** (live): a
  refused or failing removal goes back to pending or is retried, and does not block the
  rest.
- **`LeaseReleased`** (Progress): after a crash, a failed finish, a failed handler, the old
  lease lapses. One way to hold it for ever is excepted by name: a worker that is lost
  before its `try` while its heart goes on (see Divergences).
- **`NoLinkBurned`**, **`LinkGrantedOnce`** (links): in the table the release undoes the claim on
  every path (not configured, unknown title, failing call, failing record) and on no path after
  the download, whichever of two clicks gets there first. The cache refuses links too, and there
  one cause more is left: a click that lost the link and caches it while it is being released
  (`overtaken`). **`CacheConsistent`** leaves that cause out, and is violated.
- **`MailedOnce`** (mail): the code's promise is at least once; the run shows how much
  more, one mail per crash, unanswered mail, unrecorded mail or uncaught exception, and no other
  cause.
- **`OnlyFailuresStrand`**, **`Announced`** (mail): rows that are put off come back. Nothing
  but a crash, a failing statement or an exception that the check does not catch leaves a row
  claimed, so a download that is there is announced after any number of mails and services that
  merely fail.
- **`LastAdminStays`** (Web): two admins who delete each other at the same time do not
  both succeed, as the count is taken inside the deleting transaction.
- **`AccountsKept`** (Web): `AccessProvesPassword`, that sessions and tickets do not
  outlive the password they were opened with, whatever commits between a request's check of
  its session and its own transaction (a session counts as opened with the password in
  force when its row was written: a login under way may have compared the one before), and
  `WeakSessionsFlagged`, that a weak password entered at login marks its account until it
  is changed.
- **`LimitsKept`** (Web): `granted` and `passed` stay within the window's and the day's
  limit whenever the tables are pruned, and a request counts for the network it came
  from, not the one its headers claim, where it came without a proxy or by one that writes
  X-Forwarded-For; a bucket that a full table drops starts anew.
- **`SettingsKept`** (Web): `SaltOutlivesCache` and `CanaryMeansReadable`, that what is
  written under a cached salt is read after a restart; `WritesAreWhole`; `ResultsFit`, that a
  test result is not kept past a write, unless the test ran while it was written.
- **`PostersKept`** (Web): `CacheBounded`, that the sweep, run by one request while
  others write, keeps the directory within its cap and the few writes made since, and that a
  sweep which raises lets its lock go; `TypesTell`, that a poster at rest is served in its
  own type, unless two requests wrote it together or its type could not be written.
- **`OutboundKept`** (Web): `ReachesWhatItChecked`, though names resolve differently
  at every attempt, as long as the hook is in place; `PinsEnd`; `DoneIsDone`, that writes
  are not repeated and what was done and heard of is reported so; `LastAnswerTold`;
  `GivesUpInTime`.
- **`OwedRowsRemembered`** (Services): the row of an item whose file a request has removed
  stays until the transaction that records the deletion, through crashes and lost
  answers. **`PruneNeedsTwoLooks`**: the orphan guard takes no rows of a library on the first doubtful
  answer, restarts included, as long as nobody decides on marks of that library that another pass has
  changed since they were read (`mixed`). **`SecondLookPrunes`** has no such exception, and is
  violated by a scan beside a sync.
- **`EligibilityKept`** (Services): `CondemnedIsOld`, `SparedForAReason`, and
  `TablesAgree`, in every order of a season's parts, with dates of all forms, silent
  services, and viewings between question and decision.
- **`SuggestionsKept`** (Services): `MarksHitTheirTitle` rests on `AUTOINCREMENT`: a click
  from an old page must not mark a new row. `MarksLostByTheGone`: a service that
  does not answer takes no mark. `PicksStay`: no batch is replaced by nothing.
  `OneRefreshPerBatch`, `RefreshesApart`: the lease does what the cooldown alone does not.
- **`SearchBudget`** (Arr): `OneAtATime` per title, `SearchesSpaced` by a delay that
  counts every success, and `FailuresCostNothing`, that a search which failed leaves no
  time behind, though its rollback by token meets later reservations.
- **`PageRecordsCompletions`** (Arr): `LossesHaveACause`: though two requests swap the
  list under each other, what left it is recorded or being looked at, unless it had no file or was
  lost by one of `Causes`; `RecordedHadFile`; `JobsPlaced`, that a job feeds one card. One of the
  causes is the overlap itself: **`CompletionsRecorded`**, which allows for the other four, is violated.
- **`SeriesKeepsRest`** (Arr): `ReportedStayDown`, that a season reported as unmonitored
  is, whichever answers were lost, until somebody writes back an older copy of the series (nothing is said of the flags
  such a copy brings back);
  `OtherSeasonsSpared`, that deleting a season takes no files of others along but those
  imported after the last question.
- **`PagesTellTheState`** (Arr): one more file never sets a series back, a series without
  files is not in the library, packs count once in every order, a card is not shown as
  ready while more than half a percent of its download is left, and one that has begun is not
  shown as searched for. The last has an exception that small sizes hide: an episode of which half a
  percent or less is left counts as ready, and beside one that has not begun the card says
  "searching" though something is here (`BegunIsNotSearching` leaves that out).
- **`LockFitsCount`**, **`LockNeverShortens`**, **`LocksEnd`** (Progress): concurrent
  failures each count, a running lock is cut short by the right password or an admin and
  by nothing else (decay, another request's failure), and it ends although attempts go on.
- **`LettersReach`** (Progress): `ToldMeansReached`: a deletion is marked as announced only
  when everybody the scan wrote to has it.
  **`DueAreTold`**: after any bounded number of failures every deletion still due is announced.

### Fairness

`MediaLifecycle.FairSpec`: weak fairness of `Scan \/ Execute` (the scheduler starts a
scan every week, `add_job(..., CronTrigger)` in `scheduler.py`, and a running scan goes
on) and of `Boot` (the container is restarted). Nothing is assumed of users, Plex, the
sync or the clock. `JobRuns.FairSpec`: weak fairness of `Tick` and of the steps of each
thread; no job is assumed to end. `Downloads.FairSpec`: weak fairness of time, of boot and
reconciliation (the container is restarted), of the steps of a check that has begun and of
the scheduled sync (an interval job in `scheduler.py`). Nothing is assumed of users,
manual syncs, Radarr or Sonarr; failures are bounded by `MaxFaults`, so that a service
that fails for ever is outside `Announced`. `Lockout`: weak fairness of `LockTick` alone,
that is, time passes; nobody is assumed to log in or to stop trying. `Newsletter`: weak
fairness of the scan's `SendStep`, as the weekly scan ends with the newsletter and a
letter begun goes on; nothing of admins or subscribers, and `MaxFailures` bounds failures.
`MCProgress` checks these three under one weak fairness of the steps they name together
(`Progress`). It follows from theirs: in a part with a single fair action it is the same, and in the
lease's every other step is bounded by `MaxRuns` and `MaxFaults`, so that once those are over a
fair step that stays possible is one and the same.

### Divergences

With a run each (paths under `src/src/mediaman`):

- `Lifecycle_forgotten`. "Clear pending deletions" also deletes a row that is
  in 'deleting'. If the process then dies between removing the file and the audit entry,
  nothing is left to tell that the file was deleted.
- `Downloads_cache`. A click that loses the claim writes the token into the cache
  (`web/routes/download/_tokens.py:209`). If it lost between the owner's two release steps, the cache keeps
  a token the table no longer has, and refuses it until the entry goes or the process ends, where
  `_tokens.py:16` says "always consistent" and `:217` "so the user can retry".
- `Services_doubt`. The list of marked libraries is read before any transaction
  (`scanner/phases/delete.py:99`) and written back whole, so a scan of one library can restore the mark
  that a sync has lifted from another. The next doubtful answer then prunes that library although it is
  the first; `delete.py:7` promises a second consecutive one.
- `Arr_overlap`. A request whose list is older than a row deletes it
  (`services/arr/completion/_sync.py:149`), also where the item has not come back but had not left
  yet, and the completion is never recorded again.

Met while modelling, described here without a run. Paths are under `src/src/mediaman`.

*Deletion pipeline.*

- `apply_keep_in_tx` rewrites one open row of the item, in practice the oldest, whatever it
  is (`web/repository/library_api.py:91`). If a lapsed snooze and a live deletion are both open,
  keep-for-ever lands on the snooze, and the deletion is carried out, although
  `core/scheduled_action_kinds.py:5` says "never scheduled for deletion".
- An admin's keep that commits between `_build_guard_sets` and the pass's first write
  (`_scan_library.py`) is not seen: the pass schedules the item just kept.
- Orphans are pruned before stuck rows are recovered (`scanner/engine.py:269`), so the 'deleting'
  row of a file that vanished with its listing is dropped unaudited.
- The removal of a file that is already absent counts its bytes again
  (`services/infra/storage/deletion.py:202`) when Plex still lists it and it was scheduled again.
- Unprotect removes the newest protection row, which can be a lapsed snooze while the
  keep in force is an older row (`web/repository/kept.py:198`).
- With naive and aware dates in one season `ArrDateCache._build` raises a TypeError; a scan
  loses the item, a sync ends. History entries without a time never reach
  `is_inactive` (`services/media_meta/plex.py:275`), so an item with only such entries reads
  as never watched, where `_eligibility.py` means to fail safe. An unreadable date
  of Radarr is stored as it is while the decision uses Plex's.

*Leases.* The thread of a manual scan opens its connection before its `try`
(`web/routes/scan.py:110`). If that raises, the heartbeat thread is never told to stop
and renews the lease until the process ends; `LeaseReleased` names this exception
(`worker[r] = "lost"`). A heartbeat thread that cannot open *its* connection
leaves a running scan to look stale, and a second one starts beside it: `OneRunAtATime`
has `HeartsOpen` as a condition, and the run leaves that failure out.

*Downloads.*

- The docstring of `check_download_notifications` lists "Reset stranded notified=2 rows
  whose claim has expired" as its first step. No check does: rows are reset at boot
  only, and only those claimed more than an hour ago.
- An exception that `_process_one_notification` does not expect (`services/downloads/notifications.py:492`), such
  as the ValueError of the mailer for an address, a subject or a `Retry-After` of "nan", ends the check, and
  its rows stay claimed until the next restart after an hour (`CheckDies`, `MailDies`).
- A title that is added while its record fails is released (`web/routes/download/submit.py:163`), and the next
  click meets a title that is there.
- A redownload of a series known by TVDB id only may match Radarr first. Two deletions of
  one item at once are both audited as done, and the reconciliation at startup
  audits failed intents as deleted (`web/repository/delete_intents.py:84`).

*Queue, searches, Sonarr.*

- A completion whose verification fails for a moment, or whose INSERT fails, is
  dropped (`Causes`); a job known to NZBGet only is recorded as complete when it leaves.
- Two callers can both pass the per-service limit before either commits
  (`services/arr/search_trigger.py:287`). The automatic abandonment of a series cannot fire
  (`services/arr/auto_abandon.py:190-194`: queue cards have no `arr_id`).
- Changes of two writers to one series overwrite each other, as Sonarr takes whole series
  (`services/arr/_transport.py:158-233`); `delete_series` removes what was imported after the question
  (`web/routes/library_api/delete.py:133`).
- Progress rounds to 100 with up to half a percent left.

*Rate limits.* A proxy that writes only X-Real-IP and passes on an X-Forwarded-For: `get_client_ip` reads
the latter first (`services/rate_limit/ip_resolver.py:193`), so such requests count for the
address that the client wrote there.

*Outbound.* A `Retry-After` of "nan" ends in a ValueError (`services/infra/http/retry.py:114`); errors
while a body is read are neither retried nor converted (the same file, line 445); the Plex session
pins without checking the hook; a mail that was taken while its answer was lost is sent
again, maybe by the other region.

*Newsletter.* A failed repeat overwrites a recorded success (`services/mail/newsletter/subscribers.py:80`), so an issue
that failed for one address is sent to everybody again, and whoever had it may be on record
as failed. Some errors of the letter are not caught by `_run_post_scan_followups`
(`scanner/engine.py:366`).

*Recommendations.* The cooldown is read before the lease is claimed (`web/routes/recommended/refresh.py:195`), so two
refreshes may run within a day (`RefreshesApart` says when). A film nobody asks for that is
imported between the two calls of a page, and a mark renewed while a page is built,
lose their mark. Trending picks alone replace a batch when personal ones fail.

*Settings.* After a change of the master key the canary row is never rewritten, so entering all
secrets again and restarting does not bring the scheduler back, though `crypto/aes.py:187` and
`scan_jobs.py` say so. A first start whose check raises lets secrets be written without a
canary, and every later start is then refused. `_load_or_create_salt` commits in the middle
of `write_settings` (`crypto/_aes_key.py:228`), so the first write is not atomic: `WritesAreWhole`
names it. A test that runs across a write caches a result of the old settings.

*Accounts and posters.* A login checked against the old password opens its session after
a change (`web/routes/auth.py:192`). `exists()` and read of a poster are two steps, between which a sweep may
remove it; the sweep touches temporary files too (`web/routes/poster/cache.py:165`); image and type are
not replaced together; a restart forgets the counter of writes.

## Theorems

`MediaLifecycleProofs`, for all sets of items, workers, durations and traffic:

- `TypeCorrect == Spec => []TypeOK`, from `TypeInv` (`TypeOK` and what the scanner's
  locals hold at each `pc`).
- `InductiveAlways == Spec => []Inductive`. `Inductive` is `Core /\ InHand`, one half about
  the tables and one about what the executor has in hand; TLC checks it in `Lifecycle_worlds`.
  `Core` is `OneLiveDeletion /\ LinkKeepHolds` with what
  makes them inductive: `IdsIssued` (an insert takes a free id), `UsedAreKeeps` (only a
  link sets `used`, and it makes the row a keep), `GuardsCover` (until the movie pass
  writes, every live deletion and every running link keep is in the guard sets, because
  a row can only have *gone* since, or have turned from the one into the other),
  `RequestTimes` and `ShowRequestsFresh` (a row a show keep is about to overwrite and a
  link has kept meanwhile has a keep that outlives the request). Steps fall into
  groups, each with a lemma: steps that leave the tables alone, steps that only
  remove rows or change `status`, the two passes that schedule, and the handlers that
  keep.
  `InHand` says of the executor's list that it was due when it was read and still is, or
  has become a keep or gone (`DueInHand`), that a listed row whose item has a running link
  keep is that keep (`ListedAlone`), that a removed file whose row is there is a row in
  'deleting' or the row in hand (`OwedStuck`, `OwedRecovered`), and that a dry run never
  gets to the steps that delete (`DryStaysOut`).
- From `Core`: `OneLiveDeletionAlways`, `LinkKeepHoldsAlways`. From `Inductive`:
  `WorkSparesLinkKeepsAlways`, and of the steps `OnlyDueFilesRemovedAlways`,
  `RecoveryAuditsRemovalsAlways`, `ScannerSparesProtectionAlways`, `DryRunKeepsTablesAlways`.

They rest on `ItemsAssumption`, `TimesAssumption` and `SettingsAssumption`, which TLC
evaluates in every run, and on lemmas at the head of the module: what each update does to
domain and rows.

`JobRunsProofs`, for every `Stale`, `MaxMisses` and number of runs:

- `OneRunAlways` and `ImplementsSingleRun`, under `HeartsOpen == "heart" \notin Failures`.
  The invariant says that a working run's row is unfinished and its age at most its
  silence (intervals without a beat), plus one while its heart is due; with `MaxMisses + 1 < Stale`
  (`LeaseAssumption`: an interval of 60 s against 300 s in the code) it is never old, so no claim
  succeeds beside it.

`DownloadsProofs`, for any number of rows, titles, checks, links, requests and failures, and
any cache size:

- `ClaimsExclusiveAlways`, `MailedOnceAlways`, `OnlyFailuresStrandAlways`. The invariant
  `NotesInv` adds that the row at hand is among the rows held (`ChecksHold`), that during
  a boot only claims of that boot have owners and are young (`OwnersYoung`: otherwise the
  reconciliation would take rows from a running check), and that every mail is accounted
  for by a sent row, by a check about to record it, or by a failure (`MailsCounted`).
  `MailedOnce` alone is not inductive: nothing in it says that a row at "mark" is not
  mailed yet by another check.
- `LinkGrantedOnceAlways`, `NoLinkBurnedAlways`. `LinksInv` gives each claimed token at most
  one owner, which has downloaded nothing yet, and keeps a token that has downloaded in
  the table (`OwnersExclusive`, `GrantsRecorded`). For what is granted
  the cache is not needed, only the table decides. For what is refused, `CachedForAReason` says that a
  token in the cache is in the table and nobody is about to release it, or a click overtook its
  release (`overtaken`). One lemma, `OneRequestMoves`, says what a step of one request must satisfy;
  the handler's steps are checked against it.
- `DownloadsTyped`, which no run repeats.

They rest on `NotesAssumption` and `LinksAssumption`, which TLC evaluates in every run.

`ProgressProofs`, for any lock rules that grow, any names, checks, addresses, deletions,
titles, requests and days:

- `LockFitsCountAlways`, `LockNeverShortensAlways`. `RowsFit` is already inductive; the work
  is in the rules (`WindowGrows`: more failures never mean a shorter lock, and the longest
  exists because the thresholds are bounded).
- `LettersReachAlways`. `LettersInv` adds that what is recorded as sent has been got, also
  by those of a batch that is about to be recorded (`RecordsTrue`): a mark is set from the
  records, not from the mails.
- `SuggestionsKeptAlways`, under `PicksAssumption`, which TLC evaluates in
  `Services`. `PicksInv` says that a click holds the title of its id or its row is gone (`ClickFits`: ids
  are given once), that what a page was told of a title nobody asks for has been true since the page was
  opened (`PageFits`), that the day of a refresh is not after today, so that a scan drops no batch that
  counts (`BatchesStay`), and that nobody's refresh is on record within the day before one was
  asked for (`RefreshFits`). That the picks can be numbered at all is `NamesAre`.

`ServicesProofs`, for any items, libraries, requests, ages and limits:

- `OwedRowsRememberedAlways`. That a pending intent exists for a removed file's row is not
  inductive: the request at its last step completes it. `LibraryInv` asks for an intent
  that no request is about to complete (`OwedStands`), and says that every request has
  an intent of its own (`RequestsOwn`) and that a start lists only intents of the table, those whose
  row it has dropped owing nothing (`StartsClean`).
- `ImplementsWriteAhead`, from `LibraryInv`: the table of intents is what `WriteAhead` promises,
  step by step. That an intent may be completed is `OwedStands` of the state after it.
- `PruneNeedsTwoLooksAlways`, from `MarksRight`: a mark in the settings stands for the first
  doubt unless a pass of another job has written over it (`blurred`), and a pass that drops rows
  after a doubt is at its second, or had such a mark before it (`mixed`). The lemmas `TrustSafe` and `DoubtSafe` are
  about any list of marks, read in the same transaction as by a sync or long before as by a scan.
- `EligibilityKeptAlways`. `JudgeInv` follows a run from what it has heard so far to the
  decision: it has heard of every viewing from before it began, of the parts it has asked
  about (`ViewingsHeard`), the date it was told is no older than any readable file and no
  newer than the newest (`DateHeard`), and the verdict was made of both (`DecisionStands`). `MinAge` and `Inactivity` are any integers, as in the settings.

`WebProofs`, for any people, requests, sessions, keys, starts, threads, names, addresses and
limits:

- `AccountsKeptAlways`, `LastAdminStaysAlways`. `AccessInv` says what a request in flight knows
  of its session and user (`RequestKnows`: the version of the password it proved is that
  of its session if the session is still open), and how far a request of a user with a
  weak password can be before the gate stops it (`WeakIsHeld`).
- `SettingsKeptAlways`. `SecretsInv` says under which salt each row is, committed or only
  written (`SaltHolds`, `PendingFits`), what a writer holds (`WriterHolds`), and of what
  settings a kept result is.
- `OutboundKeptAlways`. `OutboundInv` keeps for every call what its answers so far allow
  (`CallsFit`: among others that the streak of a mail is one exactly when its last answer
  was a 5xx, and that a call that goes on was not heard to succeed), that whatever a pin or
  an open connection points to was approved (`AddressesFit`) and that a thread has at most the pin
  of the call it is in (`PinsFit`).
- `LimitsKeptAlways`. `LimitsInv` says that every log is in order of age (`InOrder`), that for
  every age up to the limit the log holds at least as many younger attempts as were let through
  (`Covers`: forgetting, pruning and a tick keep it, and with it the count the code takes
  bounds the true one), and that a bucket with attempts has a place in the order. That a
  request counts for its client, whatever headers it wrote, where its proxies tell who it is
  (`Vouched`) is a lemma (`ClientIsCounted`), and so is that the order shrinks by what is evicted (`WithoutIs`: positions of a finite set have ranks).

`PosterCacheProofs`, for any number of posters, requests, fetches and failures, any cap and
any interval between two looks:

- `PostersKeptAlways`, in two independent halves over `NamesFit` (a temporary file is there only
  while its request is at the step after writing it, and the sweep has no name before it
  that is still to be used). The bound is not inductive, because a sweep works from a list
  made earlier: `SizesFit` says that beyond its own estimate, and outside what it has still to
  come to, there are only images that are booked (`Booked`: written since the last look, by a
  request that will still count or that failed), also when a file ahead of the sweep is renamed out of its
  list. For the types, `TypeFits` says that a poster's only writer has the type of
  the image, and that the old type on record, if there is one, is older than the new file beside it, in the
  directory and in the sweep's list (`Older`): so the sweep that takes the new one has
  taken the old one before. The lemmas on lists (`LessIs`, `TailIs`, `RenamedIs`) say what
  removing and renaming do to the order of files.

`ArrProofs`, for any titles, items, jobs, seasons, sizes, callers, requests, limits and delays:

- `SearchBudgetAlways`. `SearchInv` says who owns a reservation (`TokenFits`: a caller
  at its call whose time is the one in memory, unless the title was abandoned), that what
  is remembered or on record is never newer than the newest search nor older than the
  last that was booked (`MemoryFits`, `RowFits`, `Known`), and that a search books
  itself within the shortest delay (`CallerFits`). The delay grows with the count
  because `2 ^ n` is the number of subsets of `1..n` (`PowersGrow`).
- `CompletionsRecordedAlways`: all of `PageRecordsCompletions`. Every loss has a cause on record (`fate`): nothing that
  is owed is forgotten. `QueueInv` says that what a request's own list has and is owed is on the list kept
  last or looked at by a request (`Covered`), or was recorded meanwhile, and the request then knows
  that its list is the older one (`StillListed`). For `JobsPlaced` the cards take their jobs one after the other, a recursive
  function of the place of a card (`Leave`): that it is one (`LeaveIs`), and that no card gives a job
  back (`LeaveShrinks`), is shown from the first place where it would fail (`FirstOf`), as the
  induction theorems of the library cannot be used. A job that is left over was then left by
  each card at its turn (`LeftOver`).
- `PagesTellTheStateAlways`, under `StatesAssumption`. `QueueFits` says that labels are given
  once, for which there is always one left (`LabelLeft`), and that records of one download tell
  the same size and rest. Then the sum over first records is a sum over keys
  (`UnitsByKey`: a bijection between the units of both), so the order does not matter
  (`UnitsOfReverse`), and a hundred percent means half a percent left at most
  (`HundredIsLoaded`).
- `SeriesKeepsRestAlways`, from `LateKnown`: between the question whether files are left and
  the deletion, files are those imported since. It says nothing of the flags of seasons that a write
  of an older copy changes back, nor of files imported after the question.

They rest on `RulesAssumption`, `LettersAssumption`, `LibraryAssumption`, `AgesAssumption`,
`AccountsAssumption`, `SettingsAssumption`, `OutboundAssumption`, `LimitsAssumption`, `CacheAssumption`,
`SearchAssumption`, `QueueAssumption`, `SeriesAssumption` and `StatesAssumption`, which TLC evaluates in the runs. They ask for numbers where the code
has numbers, for values that stand for "nothing" to be no names, for lock rules that grow,
a search delay between its base and its cap, somebody who can log in, finitely many jobs at
NZBGet, and a list of cards with every title of the library.

Only model-checked: the liveness properties (`StuckRowsResolved`, `DueDeletionsDecided`,
`LapsedSnoozesSwept`, `LeaseReleased`, `Announced`, `LocksEnd`, `DueAreTold`), because liveness under
fairness is not within the provers' reach.

## Plan

What comes next, most important first:

1. An abstract promise of ArrSearch, as a refinement, in the manner of `SingleRun` and
   `WriteAhead`.

## Not modelled

The traversal of a directory that is removed and its checks of each path; signatures and
encryption in `crypto` (taken to work); forms that write one plain setting or row;
pages that only read (library, search, history, dashboard) and what they group or sort;
templates and JavaScript; the parsing of answers from Plex, Radarr, Sonarr, NZBGet, TMDb,
OMDb and OpenAI; prompts; the grammar of URLs and the limits on streamed bodies beyond
"refused"; middleware and headers; start-up wiring and configuration. Two
workers of one process are modelled, two processes on one database are not: the program
takes a single process for granted.

Parts are modelled on their own where they share a table but no property spans it: the
newsletter sees a row of `scheduled_actions` as due, told or over, and MediaLifecycle has no
newsletter; MediaLifecycle leaves open which orphans go, and LibraryDelete says when.
