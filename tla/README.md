# A formal model of seerr-torbox-webhook

The program takes media requests (from a Seerr webhook, its own web interface,
watchlists), finds a torrent release for each, has a debrid service (TorBox,
RealDebrid) cache it, writes `.strm` files for a media server, and resolves each
`.strm` to a stream URL when it is played. It is one Python process: Flask
threads, threads started per request, and one APScheduler thread pool, sharing
an SQLite file, the media folders and a handful of module-level dictionaries;
beside it a C library preloaded into Plex, and FFmpeg processes.

The directory holds TLA+ modules of its state machines, the TLC configurations
that check them on small instances, and proofs checked by TLAPS.
`PROJECT.json` lists the runs, the mutants that show each property can fail, the
source lines each definition stands for, the hazards and the theorems.

## 1. The system

| component | source | state | operations | status |
|---|---|---|---|---|
| createtorrent budget | `torbox.py`, `db.py` | the in-memory log, its loaded flag, table `createtorrent_log` | lazy load, count, record, POST | modelled: `CreateTorrentQuota` |
| request pipeline | `processor.py`, `locks.py`, `retry_queue.py`, `upgrader.recheck_wanted`, `db.py`, routes of `app.py` | tables `requests`, `webhook_events`, `retry_queue`, `wanted_movies`, `monitored_series`; `_WANTED`; the per-imdb mutexes | accept, process, retry, recheck, reconcile, delete | modelled: `RequestPipeline`, and its promise `RequestLedger` |
| Catbox | `catbox.py`, `torbox.py`, `strm_generator.py` (preload), `upgrader.py` (Catbox upgrade), `realdebrid.py` | table `virtual_items`; URL and cooldown caches, token locks, the cached torrent list | materialize, re-resolve, preload, idle release, upgrade | modelled: `Catbox` |
| series monitor | `monitor.py`, `db.py` | tables `monitored_series`, `wanted_episodes` | check, detection of seasons, sync, retry, immediate search, reconciliation | modelled: `SeriesMonitor` |
| user requests | `app.py`, `db.py` | table `user_requests` | submit, approve, deny, kick-off | modelled: `UserRequests` |
| Plex bridge | `spore/spore.c`, `spore_server.py`, `mp4_faststart.py`, `app.py`, `strm_generator.py` (stubs) | the library's descriptor table, hook slots, the cached layouts, stub and `.minfo` files | open, read, seek, dup, close; byte requests; `/spore-stream`; build, probe, write, regenerate | modelled: `FastStart`, `Spore`, `SporeStubs` |
| web player | `plugins/webplayer/web_player.py` | prepare jobs, sessions, segment directories, FFmpeg processes | prepare, seek, idle cleanup | partly: `WebPlayer` |
| strm generator, cleanup, pack consolidation | `strm_generator.py`, `cleanup.py`, `upgrader.py` | the media folders, `virtual_items` | create, rebuild, repair, migrate, dedup, cleanup, repair of titles | partly: `MediaLibrary` |
| library sync, recovery | `library_sync.py`, `recovery.py` | table `media_items` | import, resolve, monitor, recover | partly: `LibrarySync` |
| NFO generator | `nfo_generator.py` | NFO files | write, generate all | partly, as far as an NFO decides what others do |
| TorBox and RealDebrid clients | `torbox.py`, `realdebrid.py`, `debrid.py` | remote libraries | add, list, delete, link | partly, inside the above |
| database layer | `db.py` | some 30 tables | one connection per thread, one commit per call | partly, the tables above |
| upgrader | `upgrader.py` | `.strm` files, `virtual_items` | recheck, upgrade, pack consolidation | partly: not the upgrade of fixed files outside Catbox mode |
| HTTP front, scheduler | `app.py` | none of its own | routes, interval jobs | as actions of the modules they drive |
| Arr import, trending | `arr_import.py`, `radarr.py`, `sonarr.py`, `trending.py` | none | loops over external lists | partly: the importers of `SeriesMonitor`, `Submit` of the pipeline |
| the rest | | | | not modelled, section 5 |

How they interact. An accepted request starts a thread in `processor.process`,
under its title's mutex; what cannot be added goes to `retry_queue`, taken up
again by the scheduler, or to `wanted_movies`, rechecked by the upgrader through
the processor's own functions but without its mutex. A series that was
processed, imported or asked for in Seerr enters `monitored_series`, whose
episodes the monitor lists and searches. Adding draws on the createtorrent
budget, which every thread shares without a lock across its check. In Catbox
mode adding only registers a virtual item and writes its `.strm`; playing it
calls `materialize`, which has a lock per token that the preload, the idle
release and the upgrader, all writing the same rows and caches, do not take.
The files are then renamed, merged, repaired and pruned by jobs of which only
three exclude each other. Plex does not play `.strm` files: it gets a stub, and
the preloaded library answers reads of the stub with bytes of the stream.

What makes it hard: checks and the updates they justify are separate steps of
different threads; locks exist but not every writer takes them; module state is
lost on a restart while tables and files stay; every call to a service may fail
or be late and each place reacts in its own way; values are read once and
written back after calls that take minutes; the same fact is kept in a table, a
file's content and a folder's name.

## 2. The modules

`X.tla` is a component's model, `MCX.tla` instantiates it for TLC (model values,
symmetry, the instances looked at) where a `.cfg` alone does not do, `XProofs.tla`
holds its theorems. Faulty
variants of some actions stand before the action they vary; they are used by no
specification, only by the mutants of `PROJECT.json`. Several modules look at
more than one installation: the constant `Setups` lists them and `Init` chooses
one, so that a run covers them all.

Composition: `UserRequests` extends `SeriesMonitor`; `SporeStubs` extends
`Spore`, which extends `FastStart`; `LibrarySync` extends `MediaLibrary`;
`RequestPipeline` has an instance of `RequestLedger`, the abstract specification
it implements. History variables (`past`, `got`, `lapse`, `approved`) record
what happened for the properties; no action's guard reads them, except the
bound of `StreamStart` (a transcoder asks for an offset once).

### CreateTorrentQuota

One action per step of `torbox.add_magnet`: `AskUsage` (the loaded flag goes up
first), `SelectRows`, `AppendRow`, `AppendDone` (the lazy load), `CountHour` and
`CountMinute` (the two guards), `Record` (the log, under its lock), `Persist`
(the table), `Post`. `ShowUsage` is the interface asking for the same numbers.
`Restart` keeps the table only. A call is its identity and its time: the
identity is history, the code keeps only times, so an entry read back twice
counts twice as it does in the code (`src` tells the loaded copy from the own
one). A database access may raise (`Fault`) and is swallowed, as in the code.
The deque's `maxlen=200` is left out: 60 calls an hour do not fill it.

### RequestPipeline and RequestLedger

`Webhook`, `Submit` and `RetryRequest` start a worker thread (`Spawn`); from
`Enter`/`EnterBusy` (the mutex) through `Insert`, one `Search` per movie or
season, `Verdict`, `Unwant`, `PopWanted`, `Mark` to `Leave`, `UpsertWanted` or
`Schedule` each action is the code between two points where another thread's
step can show. `RunDue`, `TakeDue`, `EndDue` are the retry queue's run, in which
the scheduler's thread goes through `process()` inline; `RecheckStart` ...
`RecheckEnd` are `upgrader.recheck_wanted`. The flag `_WANTED` is one variable
that both write. `Restart` drops threads, locks and flag.

Abstracted: which releases exist and how they rank is the environment's choice
(`Appear`: a cached, acceptable release of a movie or season exists from then
on); the ways an add goes wrong are `Fault`s with the outcomes the code has for
them; `failed` stands for `failed` and `upcoming`, whose treatment is the same.
`insert_request` returns `cur.lastrowid`, which SQLite leaves as it was when the
upsert updates, so `Insert` chooses what a connection may still hold.
A title has one row of `requests` (`imdb_id` is unique). Errors of the database
itself inside `process()` are left out; a request for a series names at least
one season. The settings that make it lazy are reloaded while it runs
(`settings.py`) and read at each use, so `LazyModes` is the set of values they
may have at any time, not one value.

Two constants are switches of the shipped code, not settings: `JobsFire` (the
interval jobs fire; the code adds them with `next_run_time=None`, that is,
paused) and `BudgetAttr` (torbox has the attribute `run_due` reads; it has not).
`PipelineSeries` sets both, so that the retry queue is run at all: every behaviour
of the shipped code is a behaviour of that model too (fewer actions happen), so its
safety results cover both. What must happen in the end is asked of the code as
shipped, with both off (`PipelineLive`).

`RequestLedger` says what the pipeline promises, without threads, locks, tables
or jobs: a request is a ticket that may be exchanged for another but never
copied or dropped; a title is tried by one at a time; a failed try costs one
attempt; a request ends with something added, with the title on the wanted list
or after its last attempt; a title is unwanted only when something of it was
added; only a crash loses a request. It stands for no lines of code. A request
waits in a row of `retry_queue` or in a thread that has not yet asked for the
mutex; its title is tried by the thread that holds the mutex.

### Catbox

A playing thread goes `Play` (or `ReResolve`), `Ask` (cache, cooldown), `Lock`
(the same again under the token's lock, then the row is read once), `TbLive`,
`Readd`, `Known`, `Search`, `Add` for TorBox or `RdLive`, `RdSearch`, `RdAdd`,
`RdSwitch` for RealDebrid, `File`, `Link`, and ends in `Keep` or, after
`Refuse`, in `Cool`. Beside it run `PreloadAdd`/`PreloadLink`, `ReleaseStart`/
`ReleaseDelete`/`ReleaseClear` and `Upgrade`/`UpgradeInvalidate`. `Clock` lets a
URL, a cooldown, an idle time or the torrent list run out at any moment;
`Services` finishes or evicts torrents.

A playback picks the file whose name has the episode's number if the release
names it (`Named`) and else the largest (`catbox.py:517-519`), which may be another
episode's (`Largest`); the preload always takes the largest. A playback starts the
preload of its own release and of the next episode's (`NextEpisode`). `Movie` says
that the token is a movie, the only kind the Catbox upgrade takes.

Abstracted: every release carries a file for every token (one movie, or episodes
whose releases are season packs); a torrent's id is its index in the history of
adds; a RealDebrid library item is named by its release. Network
calls end in any way the code distinguishes. Durations are kept only as far as
one cooldown may cut another ("30s", "120s", "6h"). One `release_idle` runs at a
time.
A search that could not run is cached for six hours like a miss
(`catbox.py:591`); the search cache is not a variable, a search may miss at any
time.

### SeriesMonitor and UserRequests

One series, its row of `monitored_series` (mode, seasons, since when) and its
`wanted_episodes`. A check (`CheckStart`) reads the row once and works with that
copy: `Resolve` (the TMDB id), `Detect` (new seasons), `FetchSeason`,
`SyncEpisode`, `SyncDone` (`_sync_wanted`, an episode at a time), `ListWanted`,
`RetryCheck` (has it a file by now), `RetrySearch`. `_sync_wanted` reads the date
again. Threads of `Adders` end in `add_series`: a `process()`, which takes a season
(`ProcessSeason`) and registers its episodes one at a time, aired or not
(`Register`), until `Processed`, or the Seerr sync. Importers
read the list of monitored series and upsert later. `SearchNow` is the immediate
search of one episode, `Reconcile` the boot-time pass, `KickOff` is
`_kick_off_processing`, with its error path and the one season it falls back to when
TMDB knows none. The world: days pass, seasons are announced, releases
appear, a cleanup removes files. Outside Catbox mode a cached torrent is added
and `Generate` writes its file later.

Abstracted: dates are day numbers; the search is "an acceptable cached release
is there". `strm_exists_episode` looks in `Season 1` where the generator writes
`Season 01`, so a check sees only files of the seasons whose number has two digits
(`setup.long`). It looks in the first folder that contains the beginning of the
title (`monitor.py:29-32`), which may be another show's: `setup.namesake` is what
that folder shows and `setup.first` says that it is listed before the series' own.

`UserRequests` adds `user_requests` in front: with accounts a request is
submitted and waits unless auto-approved; `Approve` and `Deny` do not look at the
status; `ApproveKick` is the approving thread between its update and the
kick-off. The approve route drops the mode and the seasons the user chose:
`ApproveKick` starts with the defaults, as the code does.

### FastStart, Spore and SporeStubs

`FastStart` is the layout of `mp4_faststart.py` as operators: a file is a
sequence of boxes, a byte is its address at the CDN, `Info` is what
`build_and_cache` stores, `ServeBytes` what `serve_bytes` answers (the cached
header, the data that stood before `moov`, the data behind it).

`Spore` is the rest of the path. The kernel's descriptor table (`kern`) and the
library's (`vfd`) are separate: `Open` registers in two more steps (`ReadMinfo`
with the thread's hook slot marked, `Register`) or, where the `.minfo` is missing,
emptied or without a token, leaves an open descriptor that is not registered
(`NoToken`); `Close` deregisters before the kernel frees the number; `Dup`/`Dup2`
duplicate in the kernel and copy the entry afterwards (`Copy`). Hook slots are part
of the setup: `pthread_self() % 512` gives threads a slot of their own or one
between them, and both occur. `Read` copies token and position, `Handle` and
`HandleAgain` are the byte server's two attempts, of which the second asks for the
plain CDN file whatever the first did (`spore_server.py:121-140`); `Advance` moves
the position by what came. `StreamStart`, `StreamHead`, `StreamCold`, `StreamWarm`
are `/spore-stream`, `Build` the builder thread it or the preload starts: it may
work with the URL of an earlier release, and keeps a layout without `moov` (`Blank`)
from what an expired URL is answered, as `_get` does not look at the status. URLs
expire, fetches raise and releases are upgraded at any time. A thread does not use a
descriptor another closes at that moment: what POSIX leaves undefined is not
modelled. Nor is a `.fsh` file that is read half written.

`SporeStubs` is the files the media server sees: a stub and a `.minfo` beside
it, and the tracks a probe found. The builder's thread goes on to probe
(`BuildThenProbe`, `WarmThenProbe`, `Probe`), then rewrites the `.minfo`
(`ReadLines`, `OpenMinfo`, `WriteLines`: read, emptied, written), the stub, and
for some titles the `.minfo` once more; `WriteSporeStubs`/`WriteMinfo` (new title,
backfill), `DeleteSporeStubs`/`UnlinkMinfo` (cleanup) and `Regenerate`/`Rewrite`
(admin) run beside it without a lock. `Restart` ends the server's threads while
Plex and its library go on. A title has been probed and its files show it when an
instance begins, unless the instance is about probing (`probe`) or about titles
made before the bridge was enabled (`missing`).

### WebPlayer

A prepare job (`Search`, `Try`, `Fetch`, `Probe`, `Mkdir`, `Start`, `Wait`) walks
the ranked candidates until one plays, times out, or fails (with several audio
tracks it writes a master playlist, which raises if the directory is gone); a seek (`SeekStart`, `SeekStop`,
`SeekWipe`, `SeekRestart`, `SeekWait`) replaces the FFmpeg of the session it
looked up before, unless that FFmpeg does not die in time and the call raises; the
cleanup lists stale sessions (`CleanupList`), then pops
and removes them one by one. FFmpeg processes write segments while they run and
their directory is there (`Write`), and end (`Exit`). The session table's lock
is held by the actions that hold it and by no others.

### MediaLibrary and LibrarySync

A `.strm` file is `[folder, stem, ep, url]`; a row of `virtual_items` names the
file it was written as. Each task walks a list it read before, one step per
element: `Create` ... `CreateNfo` (a new title: row, file, NFO), `Rebuild`
(`run_once`), `RepairFolder`/`RepairFile`, `Migrate` and what follows a renaming
(`MigrateRows`, `MigrateFile`, `MigrateStem`, `MigrateNfo`, `MigrateRest`; or it
leaves the group when TMDB gives no name), `DedupStrms`, the cleanup's phases
(`CleanupRename`, `CleanupMerge`, `CleanupLook`, `CleanupOrphan`, `CleanupDups`,
`CleanupBroken`), `FixTitle` (folders named by an IMDb id), which moves files one by
one (`MoveStrm`, `MoveNfo`) and may stop at any of them (`MoveFails`), and the pack
consolidation, which unlinks a season (`PackUnlink`) and then writes what it can
read of the pack (`PackWrite`), all of it or nothing. `Acquire`/`Release` is `_maintenance_lock`, which repair,
migration and deduplication take and the others do not. Two ways of taking rows
along with a rename are kept apart, since they differ: `RowsUnderFolder` (by the
folder) and `RowsUnderPrefix` (by the text the path begins with, which also
catches a folder whose name only begins alike; such a row then names a folder
`Spliced` from both).

`LibrarySync` adds `media_items`: imports insert placeholders for unknown
folders by a list of titles read before, `ResolveRow` gives a placeholder its
id or deletes it as a duplicate, `MonitorFolder` and `FinishFolder` follow; the
recovery wizard runs the cleanup, then the same.

Abstracted: a name is a model value with what code computes from it as constants:
what it stands for, its quality tier, and two normal forms, since the code has two:
`Norm` is `_norm_title`, which drops the year, `Cleaned` is `_normalize_title` with
the year. `Best` is the order in which the migration ranks a title's folders
(`_score` and a stable sort); the posters and subtitles a folder holds (`Extras`)
and its place in the directory listing (`Listing`) are constants of its name, so a
renamed folder gets those of its new name. The files of a pack are the episodes of
the season it replaces.

## 3. What the runs check

| run | instance | what it shows |
|---|---|---|
| `QuotaThreads` | 2 threads, limits 5/h and 3/min, hour of 2 ticks, 1 restart, 1 database fault | `HourOvershootBounded`, `MinuteOvershootBounded`: the unlocked check overshoots by at most the other threads. `SentCallsArePersisted`: a call is in the table before it is on the wire. `LoadedLogIsComplete`: a finished load lacks no call. |
| `QuotaOneThread` | 1 thread, 3 restarts | `SentWithinMargin`: with a single caller the limit holds over all lives of the process, restarted at any step. |
| `PipelineSeries` | 1 series of 2 seasons, lazy mode, 2 workers and the retry thread, 2 submissions, 1 fault, 1 restart | `OneProcessorPerTitle`; `RequestsConserved`: a request is in one thread, in one queue row or ended, only a restart loses one; `EndsSettled`: it ends added, wanted, or after its last attempt, also when the recheck pops the flag under the processor; `WantedUntilAdded`: neither `process()` nor the recheck takes a title off the wanted list before something of it was added; `ImplementsLedger`: each step is one of `RequestLedger` or a stutter. |
| `PipelineLive` | the code as shipped (jobs paused, no budget attribute): 1 movie, 2 workers, 2 submissions, 1 fault, 1 restart, lazy mode switched on and off meanwhile, fairness | `AttemptsEnd`: however an attempt goes, collision, exception and popped flag included, the title is free again; `WantedMovieIsFound`: a wanted movie is found at last if the recheck is asked for again and again. |
| `CatboxPack` | 2 episodes, 2 packs of which one does not name its files, 1 player, preload of this and the next episode | `RowNamesItsRelease`: the row never pairs one release with another's torrent or file; `PlaybackKeepsOwnFile`: the URL a playback keeps is of the release its row names and of the file picked for its own episode, while the episodes share torrents, change release and are preloaded. |
| `CatboxProbes` | 1 movie, 2 players, RealDebrid, 1 upgrade, 1 idle release | `OneMaterialization`; `NothingAddedInCooldown`: however many probes wait, a failure stops the ones that waited. |
| `SeriesRequests` | 2 seasons of one episode that air on two days; 1 check, 1 processing thread, 1 importer; installations with accounts and Catbox, with Seerr, another show's folder and a failing call, with imports, Catbox, a fault and a removed file | `NothingBeforeApproval`; `FoundHadFile`: "found" is said only of an episode that had a file or an item, or for which a namesake's folder shows one; `FutureSkipsBackCatalog`; `AnnouncedIsMonitored`, `WantedIsFound` under `URFairSpec`, if checks are asked for again and again. |
| `Playback` | 2 threads of the media server with hook slots of their own or one between them, 2 transcoders, 3 descriptors, a film of two releases (`moov` last) and a clip that is fast already, 2 probing threads; thirteen setups | `VirtualIsOpen`, `OpenIsVirtual`: the library's table follows the kernel's; `BytesOfOneImage`, `GaplessReading`: what is read in pieces is one image, in order and complete; `FilesShowTheProbe`: stub and `.minfo` show in the end what the probe saved; `CallsReturn` under fairness. |
| `WebPlayer` | 3 releases (HDR, SDR, several audio tracks), 2 jobs, 1 seek, 2 FFmpeg processes | `RunningIsRegistered`, `SeekLeavesNoOldSegments`; `IdleIsCleaned` under `FairSpec`. |
| `Library` | a film under four names and a show under two, twelve libraries, 2 syncing threads | `FilesPlayTheirTitle`: whatever interleaves, no file plays another title; `GeneratorRestores`; `RunsAreIdempotent`: a migration, deduplication or generation run again at once finds nothing to do; `ImportsAreResolved`. |
| `RunDueRaises` | `BudgetAttr = FALSE` | refutes `AcceptedGetsVerdict` |
| `UpgradeRace` | 1 movie, 1 player, 1 upgrade | refutes `RowNamesItsRelease` |

The type invariants of the quota and the pipeline are checked in their runs;
those of Catbox, the monitor, the web player, the library and the Plex bridge
are proved (section 4), and so is `OnlySdrIsStarted`.

Why these bounds. Each protocol races at most two actors over one item: two
workers, or a worker with the retry thread or the recheck, collide on one title;
two players collide on one token; two episodes are what it takes to share a
torrent, two releases to confuse them; a check and one writer of the same row
exchange everything stale a check can hold; a descriptor, its duplicate and one
more let every number be reused; four names of one film are a duplicate, a
third copy, a name that begins like another and one spliced from two. Two submissions make one request
collide with another's retry. One restart can fall at any step. The quota's
limits are the smallest at which both margins (two calls of the hour, one of the
minute) leave room for an overshoot; an hour of two ticks lets calls expire. A
box is one or two bytes long, so that a read of two crosses every border of the
layout. What does not depend on the bounds is proved (section 4). The bounded
counters (`MaxCalls`, `MaxSubmissions`, `MaxFaults`, `MaxTorrents`, `MaxKicks`,
`MaxProcs`, `MaxItems`, a task's `left`, ...) appear only in guards. Where these
bounds, not the code, end a behaviour, the configuration says
`CHECK_DEADLOCK FALSE` (the quota's clock at its last tick, no submission left
and nothing queued, no task left to start); the Catbox runs check deadlock.

Why setups. One model with every event at once is too large for `Playback` and
`Library`; each setup takes the operations and events that meet: duplicates
without reads, reads with expiry, requests with the builder, two titles only
where both matter. Between them every action and every disjunct fires.

Fairness. The interval jobs are added paused (`app.py:222-226`, `app.py:291`), so no
fairness says that a job fires. `RequestPipeline!FairSpec`: a started thread, a
retry run and a recheck that is under way go on, and `next_retry_at` comes.
`UserRequests!URFair`: a check, a sync and a processing thread that are under way go
on, an approving thread reaches its kick-off, the generator runs. What needs a recheck
or a check to be *started* again and again, by a user at `POST
/ui/api/wanted-recheck` (`app.py:2054-2067`) or by a job someone has resumed, says so
as a hypothesis of the property itself: `RecheckedAgain` of `WantedMovieIsFound`,
`CheckedAgain` of `AnnouncedIsMonitored` and `WantedIsFound`. `Spore!Fairness`: a
thread of the media server that is inside the library goes on, and a transcoder's
request is answered or times out. `WebPlayer!FairSpec`: jobs and seeks go on, and the
cleanup runs every quarter of an hour, a job that is not paused. The environment,
users, failures and restarts are not fair anywhere. A thread that is never scheduled
again would be a failure of the interpreter.

What the properties leave out by name. Some hold only with an exception, which
the property states and which is behaviour of the code:

- `VirtualIsOpen`: `dup2` of an unregistered file over a virtual descriptor
  leaves the entry (`spore.c:775`), and while `dup2` runs the entry is copied after
  the kernel's part.
- `OpenIsVirtual`: a stub that is opened while its thread's slot is marked
  (`spore.c:87`) or without a readable `.minfo` (`spore.c:410-423`) is not registered,
  and neither is a duplicate of such a descriptor. The property says that nothing
  else loses a registration.
- `GaplessReading`: one call at a time moves a descriptor; two that read or seek one
  descriptor at once count for none.
- `BytesOfOneImage`: a layout that is cached in the middle of a film, an upgrade
  (the cached layout is never dropped), a read through the layout from an expired URL
  or behind the end (`mp4_faststart._get` does not look at the status), and a fetch
  that raises with a layout cached (the second attempt reads the plain file,
  `spore_server.py:121-140`) mix images. A read that a marked slot passes on to the
  file on disk is not part of what was received over the network; `MixedImage`
  shows it.
- `FoundHadFile`: another show's folder may be taken for the series' own.
- `FilesShowTheProbe`: a probe that reads a `.minfo` in the moment another has
  emptied it loses the token's line for good, since the backfill skips existing
  files; a restart between saving the tracks and rewriting the stub is healed
  only by a regeneration; a stub deleted and filled in again stays a
  placeholder, since a title with tracks is not probed again, nor after an
  upgrade.
- `RunningIsRegistered`, `SeekLeavesNoOldSegments`: two calls that prepare or seek
  one release at a time overwrite each other's session.
- `RowNamesItsRelease`, `PlaybackKeepsOwnFile`: for episodes on TorBox. What a movie's
  upgrade and the switch to RealDebrid do is among the divergences.
- `RunsAreIdempotent`: a migration counts if TMDB named every film. One that it left
  for want of a name is renamed by the next run. The repair and the cleanup are not
  idempotent and not part of it.
- `WantedIsFound`: in Catbox mode, for an episode aired from the start, and if
  checks are asked for again and again; outside Catbox mode a low budget ends every
  check, and a `torbox.RateLimited` that `monitor.py:164` does not catch ends the run.

### Known divergences

What the code or its documents say and the model shows not to hold. The first two
are standing runs; each of the others has a configuration here that gives TLC's
counterexample, with the property quoted from the source in its module.

| property | configuration | what happens |
|---|---|---|
| `AcceptedGetsVerdict` | `RunDueRaises` | `run_due` reads `torbox._CREATETORRENT_LIMIT`, which does not exist (`retry_queue.py:39`): a queued retry stays queued |
| `RowNamesItsRelease` | `UpgradeRace` | a playback writes the old release's ids into an upgraded row (`upgrader.py:96`) |
| `CachedUrlIsOwnFile` | `WrongEpisode` | the preload keeps the largest file's URL under any row with the hash (`strm_generator.py:354`) |
| `SharedTorrentIsKept` | `ReleaseShared` | an idle episode's torrent is deleted while another episode plays from it (`db.py:1013`) |
| `AcceptedGetsVerdict` | `PausedJobs` | the interval jobs are added paused (`app.py:291`) |
| `WantedSeriesIsFound` | `WantedSeries` | a wanted series is rechecked as a movie (`upgrader.py:233`) |
| `NoDoubleProcessing` | `DoubleProcessing` | the recheck does not take the mutex (`upgrader.py:236`, against `README.md:177`) |
| `NoLeakedWantedFlag` | `LeakedFlag` | an exception after a flagged season leaves the flag (`processor.py:530`) |
| `VerdictIsShown` | `LostVerdict` | a verdict goes to another row id (`db.py:462`) |
| `UsageSurvivesRestart` | `QuotaRestartRace` | a second thread counts before the first has read the table (`torbox.py:58`) |
| `RowNamesItsRelease` | `RdOldMagnet` | an item that leaves RealDebrid goes on with its old magnet and torrent id (`catbox.py:321`) |
| `RdIdIsOfItsRelease` | `RdUpgrade` | an upgraded RealDebrid item keeps its old `rd_id` (`db.py:862`) |
| `CooldownNeverCut` | `CooldownCut` | the default cooldown replaces the 6 h one (`catbox.py:209`) |
| `ReleasedItemIsIdle` | `ReleasePlayed` | an item played since the idle query is released (`catbox.py:741`) |
| `AddedTorrentIsNamed` | `LeakedTorrent` | a torrent that is late is named by no row (`catbox.py:356`) |
| `ClearsWhatItReleased` | `ReleaseForgets` | the row is cleared of an id added since (`catbox.py:748`) |
| `AiredIsPickedUp` | `NotAiredStays` | an episode listed as `not_aired` is never made wanted (`db.py:592`) |
| `CleanupIsIdempotent` | `CleanupTwice` | a second cleanup changes what the first left (against `recovery.py:2`) |
| `FoundHadOwnFile` | `NamesakeFolder` | an episode is called found for a file of another show, whose folder name contains the beginning of the title (`monitor.py:29`, against `monitor.py:25`) |
| `TitlesStayPlayable` | `TitlesLost` | a pack that cannot be written after the season was unlinked (`upgrader.py:199-210`), and a cleanup beside a migration, leave a title without a file |
| `ReadsAreOfOneImage` | `MixedImage` | after a failed fetch the server answers a position of the layout from the plain file (`spore_server.py:121-140`, against line 114), and a read of a marked slot is answered from the stub (against `spore.c:82-83`, "safe") |
| `ReadyOnOwnSegments` | `OldSegments` | a job becomes ready on segments an earlier FFmpeg left (`web_player.py:612`, against the message of line 332) |
| `RenameTakesItsRows` | `TitlesLost`, with this property in place of its own | a migration also rewrites the rows of a folder whose name begins alike (`db.py`, the update by path prefix) |

Met while modelling, without a property of their own: the approve route drops
the mode and seasons a user chose; importers upsert mode `all` over what a user
has created since they read the list; rows of `virtual_items` are never deleted;
`merge_series_duplicates` leaves the rows of merged folders as they were;
`fix_imdb_titles` leaves a show's season folders behind and uses the same prefix
update; two films of one title and different years are one film to `_norm_title`,
so the later one gets no file (`strm_generator.py:635`) and a repair of it may need
two runs; a rename by path prefix can leave rows with a path no folder had, in which
the generator then makes folder and file; the comment of `spore.c:13-14` has the first
bytes of a stub read from the file on disk, but no read is split by its offset; `repair_tvshow_titles` tests an XML element for truth, which is false for
one without children, and so repairs nothing (`nfo_generator.py`); the web
player's heartbeat uses a name `db` that is not defined there; chunk offsets of
data behind `moov` are shifted like the others, although that data keeps its
address.

## 4. What is proved

For every value of the constants that the named assumptions admit (finite sets
of threads and titles, natural bounds, `HourSpan <= PruneAge`), whatever the
bounds are.

`CreateTorrentQuotaProofs`
- `TypeCorrect`: `[]TypeOK`.
- `HourlyOvershoot`, `MinutelyOvershoot`: a thread past the count is counted
  with the calls recorded (`OvershootInv`: type, a finite log, both bounds);
  passing the count needs room, recording moves one from the threads to the log.
  The counting steps are lemmas on cardinalities (`MoveOne`, `ShrinkBoth`,
  `CountLeavesRoom`).
- `WriteAhead` (`SentCallsArePersisted`): `DurableInv` says the call in hand
  before the POST is in the table as long as the hour lasts, since pruning keeps
  `PruneAge >= HourSpan`.
- `LoadComplete` (`LoadedLogIsComplete`): `LoadInv` says each row of the hour is
  in the log or has a thread that will select or append it.
- `OneThreadSurvives`: for one thread `UsageSurvivesRestart`, the property
  `QuotaRestartRace` refutes for two. The flag that is set too early can then mislead nobody, since the thread that set it counts only
  after it has read the table.
- `SentInMargin` (`SentWithinMargin`), for one thread or for a process that is
  not restarted. With one thread `SoloInv` bounds what TorBox saw in the hour, one
  call less while the thread is between its count and the POST; in one life
  `OneLifeInv` says that every call sent is in the log, so the overshoot bounds
  it. With several threads and a restart it is false (`QuotaRestartRace`).

`RequestPipelineProofs`
- `TypeCorrect`: `TypeInv` adds that the recheck has a title in hand.
- `MutualExclusion` (`OneProcessorPerTitle`): `LockInv`, whoever is past the
  mutex holds its title's lock; exclusion follows since one lock has one holder.
- `WantedLeavesAdded` (`WantedUntilAdded`) and `EndsAreSettled` (`EndsSettled`):
  a title is *settled* when something of it was added or it is on the wanted
  list, and settled titles stay settled (`SettledStays`), because a title leaves
  the list only once added. `ThreadInv` says what each thread relies on: a
  success has something added, and a thread about to pop the flag finds the flag
  or a settled title. `RecheckInv` says the recheck has only settled titles in
  hand, which is what makes its popping of another thread's flag harmless to
  where requests end.

The proofs of the last two are why both invariants are needed: the flag is
shared, so a thread's claim about it holds only together with the recheck's.

`PipelineLedgerProofs`
- `PipelineImplementsLedger` (`ImplementsLedger`): the refinement for any
  titles, threads, seasons and attempts. `LedgerInv` joins the invariants above
  with `HolderInv` (a held mutex is held by a thread that works on that title)
  and `QueueInv` (rows have ids of their own, and what `run_due` has still to
  take is in the table). `LedgerStep` maps each action: a collision and a taken
  row are exchanges of tickets (`BusyExchanges`, `TakeExchanges`), entering the
  mutex is a try (`EnterTries`), the ends settle, retry or give up
  (`EndImplements`), and the recheck's adds are the ledger's (`RecheckImplements`)
  since it has only wanted titles, or added ones, in hand.
- `RequestsAreConserved` (`RequestsConserved`): the count of a title's requests
  over queue rows, threads and ends. Each action moves at most one of them, and
  `Balance` gains one only where a request is accepted; what the counting needs is
  that the queue is finite and that a row that is taken was in it.

`CatboxProofs`
- `TypeCorrect`: `TypeInv` adds to `TypeOK` what a thread has in hand at each
  place (`InHand`), and that ids name torrents that were added.
- `OneAtATime` (`OneMaterialization`), `CooldownIsRespected`
  (`NothingAddedInCooldown`): `LockInv`, whoever is behind the token's lock holds
  it and found the token without cooldown after it got it; cooldowns of a token
  are set only by its holder. With every feature: RealDebrid, upgrades, preloads.
- `RowsNameTheirRelease` (`RowNamesItsRelease`), for TorBox alone and for the episodes
  of a season, or a movie that is not upgraded: `NamesInv` says that the row, and what
  its lock's holder has in hand, are of one release (`RowFits`, `HandFits`). The
  preload and the idle release write rows without the lock but only ids of the row's
  own release.
- `OwnFileIsKept` (`PlaybackKeepsOwnFile`, an action property), on the same
  assumptions: what a playback has in hand when it ends is of the row's release and
  the file picked for its own token, whatever is preloaded or released meanwhile.

Each assumption of the last two is needed: `RdOldMagnet`, `RdUpgrade` and
`UpgradeRace` are what happens without it. What the preload keeps is no playback's
file: `WrongEpisode`. So the theorems say exactly which features the rows'
consistency does not survive.

`MonitorProofs`, for any seasons, dates, threads, requests and installations
(`MonitorConstants`: at least one season)
- `TypeCorrect` (`URTypeOK`): `TypeInv` adds the history's type and that the
  installation is one of `Setups`.
- `FoundHasFile` (`FoundHadFile`): `FoundInv`, the files and the items of the
  moment are among those there have been, whoever wrote them; what the sync, the
  retry or the reconciliation calls found is one of them, or is shown by the folder
  of another show that is taken for the series' own (`NamesakeFolder`).
- `ApprovalComesFirst` (`NothingBeforeApproval`): `NothingInv`, before the first
  approval the row and every list are empty, checks find nothing to do, no
  kick-off waits and no importer has read.
- `FutureIsFuture` (`FutureSkipsBackCatalog`): `FutureInv` says, of a series that
  never had another mode, that a check which has the row in hand has its mode and
  its date, and that the lists checks work through hold only episodes with a row.
  So what a late check marks has been wanted already, or airs since the series was
  added. `FirstIsThere` is needed for it: the first episode of a list is in the
  list, because among the finite sets of episodes at or before one of them there
  is a smallest.

`WebPlayerProofs`, for any jobs, seekers, releases and rankings
(`WebPlayerConstants`: a job is not a seeker, which are calls of two functions)
- `TypeCorrect` (`TypeOK`), `SdrOnly` (`OnlySdrIsStarted`).
- `RunningRegistered` (`RunningIsRegistered`), `SeekClean`
  (`SeekLeavesNoOldSegments`). A call that is past its look at the session and busy with a release
  is alone with it, or the release is one where calls met (`past.overlap`); so
  what the call read of the session is still so. `SegmentInv` adds that a seek
  about to restart FFmpeg has an empty directory. Each step is first reduced to what
  it does to the calls (`JobMove`, `SeekMove`), then to one release's session.

`LibraryProofs`, about `LibrarySync` and with it `MediaLibrary`, for any titles
and names, any number of threads and any library to begin with in which files
play their title or nothing, no two are at one path, and NFOs and rows have the
title of their folder (`SetupsConsistent`). Assumed of names: a title's canonical
name is not another's (`CanonicalNames`), and no id reads like a placeholder
(`SyncConstants`: ids begin with `tt`, placeholders with `unknown_`).
- `TypeCorrect` (`LSTypeOK`), `FilesPlay` (`FilesPlayTheirTitle`): `LibInv` is
  `LibraryInv`, what the folders, files, NFOs and rows are, together with
  `TasksInv` and `SyncRight`, what each task and thread remembers of the library
  it read earlier. The files alone are not inductive: a task writes from a list
  that is stale by then. What makes it harmless is that a list remembers only what
  cannot change any more: a row keeps its title and episode for ever
  (`ItemsStay`), so a remembered row still leads to the place it was remembered
  with (`Leads`), and folders that were to be merged stand for one title
  (`GroupRight`), whoever has renamed them since. There is a lemma `...Keeps` for
  each task.
- `ImportsResolve` (`ImportsAreResolved`): `ImportInv`, as long as TMDB answered
  every placeholder is one some thread has on its list or will list (`Asked`).
- `GeneratorRestoresFiles` (`GeneratorRestores`): `GenerateInv`, while the
  generator runs alone every row has its file or is still on the list. Threads of
  the import and of the web interface may run beside it since they only add files
  (`SyncGrows`). `LockInv` is part of the types: of the three tasks under the lock,
  the one that is not idle holds it (`LockKeeps`, over how any task can move).
- `TasksAreIdempotent` (`RunsAreIdempotent`, an action property), for a finite set of
  names: `Fine(t)` is what task `t` leaves when it has run alone, `Part(t)` what it has
  done so far, the rest being on its list. `SoleInv` says that a task that met no other
  task, and no thread of the import that changed the library, has `Part`, and that
  `Fine` lasts until the library changes. Of every step of a task (`...Progress`) it is
  shown that it changes nothing if `Fine` holds and keeps or completes `Part`. A
  migration for which TMDB named every film is done with one when its canonical name
  is taken, and by a folder of the film only if no third is left (`GroupFine`); that the
  folder it would keep is still ahead of the others needs `Ahead` to be an order on the
  folders that are left (`OneIsAhead`), and so finite counts. A repair and a cleanup are
  not part of it because they are not idempotent: a repair skips the empty folder of one
  film because another of the same `_norm_title` has a file (`strm_generator.py:1151`),
  then removes that file as dead, and a second run fills the folder; a second cleanup
  changes what the first left (`CleanupTwice`).

That titles stay playable is no theorem: it is false (`TitlesLost`).

`SporeProofs`, about `SporeStubs` and with it `Spore`, for any threads,
transcoders, descriptors, titles, releases and probing threads (`SporeConstants`,
`StubConstants`), and any layouts whose addresses and sizes are natural numbers
(`LayoutsTyped`)
- `TypeCorrect` (`SSTypeOK`): `BridgeType` adds what a thread, a transcoder and the
  histories hold, and that the cached layout is of a release there is.
- `VirtualDescriptorsAreOpen` (`VirtualIsOpen`) and `OpenStubsAreVirtual`
  (`OpenIsVirtual`), whichever threads share a hook slot: `TableInv` says of each
  descriptor (`EntryRight`) that a closed one is not virtual, a virtual one is open on
  its token's stub, and an open stub is virtual, missed, or has a thread that is about
  to register, close or copy it; and of each thread (`CallRight`) that one which opens,
  closes or copies a descriptor is alone with it, so that nothing else can register
  under its number.
- `ReadsLeaveNoGap` (`GaplessReading`), whichever threads share a hook slot: `GapInv`,
  what a descriptor that is read in order has received is what lies before its
  position, and of the calls under way on it only one moves it, from where it stands.
  A read that a marked slot passes on to the file on disk returns without moving the
  virtual position. The bytes themselves enter as `RangeIsBytes`: however a range lies
  over the layout, as many bytes are answered as lie in the file.
- `FilesShowProbes` (`FilesShowTheProbe`): `FilesInv` says of each prober at each
  place what the files hold and what it has read of them. Whoever has read a
  `.minfo` has read all of it, the backfill writes only where there is none, and a
  line that is missing has a prober which will still write it; a title that breaks
  one of these is one of `lapse`. Each of the writers has a lemma (`FilesProbe`,
  `FilesWriteByProber`, `FilesRewrite`, ...).

- `OneImageServed` (`BytesOfOneImage`): under `LayoutsRight`, the layout of each
  file is the one its comment draws, the header, then the data shifted by it, then
  the data that keeps its address. `RangeInOrder` shows that `serve_bytes` then
  answers, however a range lies over the three, the bytes of the positions asked
  for. `ImageInv` carries this over the steps: a cached layout is of the current
  release unless one was built or the release upgraded meanwhile, a URL is stale only
  if it expired, a call has its descriptor's title, what a call has in hand, like what
  its reader has received, is of the image, and a descriptor that is being put over
  another has received nothing. It is needed beside `TableInv`, since a call acts on
  the title it read from the table steps before. `MediaFrame` is the part all calls
  of the library share, `StreamImages` the transcoder's requests.

Only model-checked:
- `LayoutsRight`: that the file as drawn has the layout for every file is a sum
  over its boxes, an induction over data. TLC evaluates it for the titles of
  `Playback`, and for every file of up to five boxes (`SmallLayouts` in `MCSpore`)
  that begins with an `ftyp` box of `FtypFetch` bytes.
- Liveness, which is out of the prover's reach like every statement about
  fairness and ENABLED.

## 5. Not modelled

- Webhook parser, ranking, `torrentio.py`, `zilean.py`: functions of their
  input; what they choose is the environment's choice of a release.
- Settings, configuration, setup, users, sessions, login: reads and writes of
  one row or a check per request, no protocol of several steps. Where a setting
  may change in the middle of something it is a set of values (`LazyModes`) or a
  setup. `quota_monthly` is stored and shown; no code enforces it.
- Blacklist, health cache: a counter per hash, one statement each.
- Backup: a copy of the database file; what a copy beside a writer holds is
  decided by SQLite's pages and journal, which are not in this code.
- WebDAV: a listing and byte ranges over Catbox's URLs. Its two small caches
  (`_size_cache` is not dropped with `_url_cache`; a slow resolver can put an
  older URL back) could be modelled with `Catbox`, at the cost of its instances.
- Catch-up, continue watching, trending: loops that call what is modelled
  (`Submit`, `SearchNow`, the importers).
- Watchdog, notifications, statistics, metrics, Jellyfin, subtitles, TMDB, Trakt,
  the plugin loader, the front end: reports, display or best-effort clients.
- In modelled components: the search cache and durations of `Catbox` (a URL kept
  for 23 h against an idle time below that); the upgrade of fixed files outside
  Catbox mode; subtitles, heartbeat and FFmpeg's command line of the web player;
  `_regenerate_wrong_files` (needs TorBox's list and file names); NFO texts and
  images; EBML of the stubs.
- Called by nothing: `dedup_movie_folders`, `_search_and_add_season`.

## 6. What is left

1. An abstract specification of Catbox (a cache of streams per token),
   implemented under the assumptions of `OwnFileIsKept`; a composition in
   which the pipeline's adds draw on `CreateTorrentQuota`.
2. `Catbox` with durations and the search cache, the WebDAV caches on top of it,
   and the upgrade outside Catbox mode.
