--------------------------- MODULE SeriesMonitor ---------------------------
(***************************************************************************)
(* The series monitor (src/monitor.py) over the tables monitored_series    *)
(* and wanted_episodes, for one series: the series check, threads that     *)
(* end in add_series() (a finished process() or the Seerr sync), bulk      *)
(* imports, and what happens around them (days pass, seasons are           *)
(* announced, releases appear, files come and go).  An episode is a pair   *)
(* <<season, number>>.                                                     *)
(***************************************************************************)
EXTENDS Naturals, FiniteSets, FiniteSetsExt

CONSTANTS
    Checkers,      \* threads in run_series_check (the job, the manual routes)
    Adders,        \* threads that end in add_series
    Importers,     \* import_sonarr, trending and library imports
    MaxSeason, MaxDay,  \* bounds: seasons, days
    Episodes,      \* the episodes of the seasons
    AirDay,        \* the day each episode airs
    Setups         \* installations looked at: settings, users, the series'
                   \* seasons and namesake, and bounds

Seasons  == 1..MaxSeason
Modes    == {"all", "future", "selected"}
Threads  == Checkers \cup Adders

ASSUME MonitorConstants ==
    /\ {MaxSeason, MaxDay} \subseteq Nat /\ MaxSeason > 0
    /\ Episodes \subseteq Seasons \X Nat /\ IsFiniteSet(Episodes)
    /\ AirDay \in [Episodes -> Nat]
    /\ Setups \subseteq [catbox: BOOLEAN,            \* setting CATBOX_MODE
                       seerr: SUBSET Seasons,      \* seasons requested in Seerr
                       imports: BOOLEAN,           \* Sonarr or trending imports
                       long: SUBSET Seasons,       \* numbers of two digits
                       first: BOOLEAN,             \* a namesake's folder is
                       namesake: SUBSET Episodes,  \* listed first; its files
                       users: {"none", "single", "accounts"},
                       faults: Nat, removals: Nat] \* bounds: failed calls,
                                                   \* removed files
    /\ Checkers \cap Adders = {}

VARIABLES
    today,      \* the date
    announced,  \* number of seasons TMDB knows
    released,   \* episodes with an acceptable cached release
    ready,      \* episodes in a finished TorBox torrent without a .strm yet
    files,      \* episodes with a .strm in the media folder
    virtual,    \* episodes with a row in virtual_items
    row,        \* the series' row of monitored_series
    status,     \* wanted_episodes.status of each episode, "none" without a row
    th,         \* the threads
    im,         \* the importers: what they saw of monitored_series
    past,       \* history: files and items there have been, modes of the row,
                \* whether an import or Seerr has written the row
    faults, removals,
    setup       \* the installation

vars == <<today, announced, released, ready, files, virtual, row, status, th,
          im, past, faults, removals, setup>>
world == <<today, announced, released, ready, files, virtual, removals, setup>>

NoRow == [mode |-> "none", seasons |-> {}, tmdb |-> FALSE, since |-> 0]
Rows  == [mode: Modes \cup {"none"}, seasons: SUBSET Seasons, tmdb: BOOLEAN,
          since: 0..MaxDay]

(* "idle"; a processor in "process"; add_series before its upsert ("add")   *)
(* and a check before each of its blocks.  todo is the list in hand; left  *)
(* the seasons still to be processed and ok whether something was added;   *)
(* synced the date _sync_wanted reads.                                     *)
PCs == {"idle", "process", "add", "resolve", "detect", "sync", "list",
        "retry", "search"}
IdleThread == [pc |-> "idle", day |-> 0, mode |-> "all", seasons |-> {},
               tmdb |-> FALSE, since |-> 0, todo |-> {}, left |-> {}, ok |-> FALSE,
               synced |-> 0]
ThreadStates == [pc: PCs, day: 0..MaxDay, mode: Modes \cup {"none"},
                 seasons: SUBSET Seasons, tmdb: BOOLEAN, since: 0..MaxDay,
                 todo: SUBSET Episodes, left: SUBSET Seasons, ok: BOOLEAN,
                 synced: 0..MaxDay]

Init ==
    /\ today = 0 /\ announced = 1
    /\ released = {} /\ ready = {} /\ files = {} /\ virtual = {}
    /\ row = NoRow
    /\ status = [e \in Episodes |-> "none"]
    /\ th = [t \in Threads |-> IdleThread]
    /\ im = [i \in Importers |-> "idle"]
    /\ past = [files |-> {}, modes |-> {}, other |-> FALSE]
    /\ faults = 0 /\ removals = 0
    /\ setup \in Setups

(* A call to TMDB, Torrentio or TorBox fails.                              *)
Fault == faults < setup.faults /\ faults' = faults + 1
Works == UNCHANGED faults

Goto(t, pc) == th' = [th EXCEPT ![t].pc = pc]
Finish(t)   == th' = [th EXCEPT ![t] = IdleThread]

(* Python compares (season, episode) in reading order.                     *)
Before(d, e) == d[1] < e[1] \/ (d[1] = e[1] /\ d[2] <= e[2])
FirstOf(S)   == CHOOSE e \in S : \A d \in S : Before(e, d)

(***************************************************************************)
(* The tables and the media folder                                         *)
(***************************************************************************)

(* upsert_monitored_series: an existing row keeps its date and its TMDB id *)
(* when none is given; seasons and mode are replaced.                      *)
Upsert(mode, seasons, tmdb) ==
    /\ row' = [mode |-> mode, seasons |-> seasons, tmdb |-> tmdb \/ row.tmdb,
               since |-> IF row.mode = "none" THEN today ELSE row.since]
    /\ past' = [past EXCEPT !.modes = @ \cup {mode}]

(* upsert_wanted_episode inserts as 'wanted' and leaves a present status.  *)
UpsertedStatus(e) == IF status[e] = "none" THEN "wanted" ELSE status[e]

(* _series_dir takes the first folder whose name contains the beginning of *)
(* the title: a namesake's if it is listed first, or alone.                *)
FilesSeen == IF setup.first \/ files = {} THEN setup.namesake ELSE files

(* strm_exists_episode looks in "Season 1" where the generator writes      *)
(* "Season 01": only seasons of two digits are seen.                       *)
StrmExists(e) == e \in FilesSeen /\ e[1] \in setup.long

(* The seasons a check reads from a row: "1" when the column is empty.     *)
SeasonsOf(r) == IF r.seasons = {} THEN {1} \cap Seasons ELSE r.seasons

WriteStrm(e, lazy) ==
    /\ files' = files \cup {e}
    /\ virtual' = IF lazy THEN virtual \cup {e} ELSE virtual
    /\ past' = [past EXCEPT !.files = @ \cup {e}]

(***************************************************************************)
(* add_series: after process() succeeded for some seasons, or from Seerr   *)
(***************************************************************************)

(* create_lazy_episode_strm: the item is registered before the file is     *)
(* written, which may fail.                                                *)
LazyStrm(e) ==
    \/ Works /\ WriteStrm(e, TRUE)
    \/ /\ Fault /\ virtual' = virtual \cup {e} /\ UNCHANGED files
       /\ past' = [past EXCEPT !.files = @ \cup {e}]

(* What _lazy_register_season finds for a season: a cached pack, taken for *)
(* all its episodes, aired or not; or cached episodes up to the first one  *)
(* without; or nothing.                                                    *)
Offers(s) ==
    LET out == {e \in released : e[1] = s}
        run == {e \in out : \A d \in Episodes : d[1] = s /\ d[2] < e[2] => d \in out}
    IN  IF out = {} THEN {{}} ELSE {{}, run, {e \in Episodes : e[1] = s}}

(* process() looks one season after the other up; outside Catbox mode its  *)
(* torrents are added to TorBox.  An error ends it.                        *)
ProcessSeason(t) ==
    /\ th[t].pc = "process" /\ th[t].todo = {} /\ th[t].left # {}
    /\ LET s == Min(th[t].left) IN
        \/ /\ setup.catbox /\ UNCHANGED ready
           /\ \E offer \in Offers(s) :
                th' = [th EXCEPT ![t].left = @ \ {s}, ![t].todo = offer]
        \/ /\ ~setup.catbox
           /\ \E got \in SUBSET {e \in released : e[1] = s} :
                /\ ready' = ready \cup got
                /\ th' = [th EXCEPT ![t].left = @ \ {s}, ![t].ok = @ \/ got # {}]
        \/ Finish(t) /\ UNCHANGED ready
    /\ UNCHANGED <<today, announced, released, files, virtual, row, status, im,
                   past, faults, removals, setup>>

(* One lazy .strm after the other, unless its path exists.                 *)
Register(t) ==
    /\ th[t].pc = "process" /\ th[t].todo # {}
    /\ LET e == FirstOf(th[t].todo) IN
        /\ IF e \in files THEN Works /\ UNCHANGED <<files, virtual, past>> ELSE LazyStrm(e)
        /\ th' = [th EXCEPT ![t].todo = @ \ {e}, ![t].ok = @ \/ files' # files]
    /\ UNCHANGED <<today, announced, released, ready, row, status, im, removals, setup>>

(* Only a success reaches add_series, with all the seasons of the request. *)
Processed(t) ==
    /\ th[t].pc = "process" /\ th[t].todo = {} /\ th[t].left = {}
    /\ IF th[t].ok THEN th' = [th EXCEPT ![t].pc = "add", ![t].ok = FALSE]
       ELSE Finish(t)
    /\ UNCHANGED <<world, row, status, im, past, faults>>

(* sync_series: every approved request of Seerr goes through add_series.   *)
SyncSeerr(t) ==
    /\ th[t].pc = "idle" /\ setup.seerr # {}
    /\ th' = [th EXCEPT ![t] = [IdleThread EXCEPT !.pc = "add", !.seasons = setup.seerr]]
    /\ past' = [past EXCEPT !.other = TRUE]
    /\ UNCHANGED <<world, row, status, im, faults>>

(* add_series: find_by_imdb, upsert (mode "all" by default), _sync_wanted  *)
(* when there is a TMDB id.                                                *)
AddSeries(t) ==
    /\ th[t].pc = "add"
    /\ \/ /\ Works /\ Upsert("all", th[t].seasons, TRUE)
          /\ th' = [th EXCEPT ![t].pc = "sync", ![t].synced = today,
                              ![t].since = today, ![t].mode = "all"]
       \/ Fault /\ Upsert("all", th[t].seasons, FALSE) /\ Finish(t)
    /\ UNCHANGED <<world, status, im>>

(***************************************************************************)
(* run_series_check                                                        *)
(***************************************************************************)

(* The row and the date of the retries are read once, at the start.        *)
CheckStart(c) ==
    /\ th[c].pc = "idle"
    /\ th' = [th EXCEPT ![c] =
                [IdleThread EXCEPT
                    !.pc = IF row.mode = "none" THEN "list" ELSE "resolve",
                    !.day = today, !.mode = row.mode, !.seasons = SeasonsOf(row),
                    !.tmdb = row.tmdb, !.since = row.since]]
    /\ UNCHANGED <<world, row, status, im, past, faults>>

(* A missing TMDB id is looked up; without one the series is skipped.      *)
Resolve(c) ==
    /\ th[c].pc = "resolve"
    /\ \/ Works /\ Goto(c, "detect") /\ row' = [row EXCEPT !.tmdb = TRUE]
       \/ ~th[c].tmdb /\ Fault /\ Goto(c, "list") /\ UNCHANGED row
    /\ UNCHANGED <<world, status, im, past>>

(* _sync_wanted reads the date again.                                      *)
ToSync(c, seasons) ==
    th' = [th EXCEPT ![c].pc = "sync", ![c].seasons = seasons, ![c].synced = today]

(* Faulty variant: the seasons are never written back.                     *)
DetectForgets(c) ==
    /\ th[c].pc = "detect"
    /\ ToSync(c, th[c].seasons \cup (1..announced))
    /\ UNCHANGED <<world, row, status, im, past, faults>>

(* New seasons are added to those read at the start, and written back;     *)
(* never in mode 'selected'.                                               *)
Detect(c) ==
    /\ th[c].pc = "detect"
    /\ LET new == (1..announced) \ th[c].seasons
           all == th[c].seasons \cup new IN
       IF th[c].mode = "selected" \/ new = {}
       THEN ToSync(c, th[c].seasons) /\ Works /\ UNCHANGED row
       ELSE \/ ToSync(c, all) /\ Works /\ row' = [row EXCEPT !.seasons = all]
            \/ ToSync(c, th[c].seasons) /\ Fault /\ UNCHANGED row
    /\ UNCHANGED <<world, status, im, past>>

(* _sync_wanted fetches one season after the other; a season TMDB does not *)
(* know yet, or a failed call, has no episodes.                            *)
FetchSeason(t) ==
    /\ th[t].pc = "sync" /\ th[t].todo = {} /\ th[t].seasons # {}
    /\ LET s   == Min(th[t].seasons)
           eps == IF s <= announced THEN {e \in Episodes : e[1] = s} ELSE {} IN
        \/ Works /\ th' = [th EXCEPT ![t].seasons = @ \ {s}, ![t].todo = eps]
        \/ Fault /\ th' = [th EXCEPT ![t].seasons = @ \ {s}]
    /\ UNCHANGED <<world, row, status, im, past>>

(* The status an episode's row gets: one that airs later is not_aired, one *)
(* whose .strm is seen is found, and another keeps what it has.            *)
SyncedStatus(e, day) ==
    IF AirDay[e] > day THEN "not_aired"
    ELSE IF StrmExists(e) THEN "found" ELSE UpsertedStatus(e)

(* Faulty variant: the mode is not looked at.                              *)
SkippedNever(e, mode, since) == FALSE

(* In mode 'future' what aired before the series was added is skipped.     *)
Skipped(e, mode, since) == mode = "future" /\ AirDay[e] < since

SyncEpisode(t) ==
    /\ th[t].pc = "sync" /\ th[t].todo # {}
    /\ LET e == FirstOf(th[t].todo) IN
        /\ th' = [th EXCEPT ![t].todo = @ \ {e}]
        /\ status' = IF Skipped(e, th[t].mode, th[t].since) THEN status
                     ELSE [status EXCEPT ![e] = SyncedStatus(e, th[t].synced)]
    /\ UNCHANGED <<world, row, im, past, faults>>

(* An adding thread is done after the sync, a check goes on to retry.      *)
SyncDone(t) ==
    /\ th[t].pc = "sync" /\ th[t].todo = {} /\ th[t].seasons = {}
    /\ IF t \in Checkers THEN Goto(t, "list") ELSE Finish(t)
    /\ UNCHANGED <<world, row, status, im, past, faults>>

(* get_wanted_episodes: the rows that are 'wanted' now.                    *)
ListWanted(c) ==
    /\ th[c].pc = "list"
    /\ th' = [th EXCEPT ![c] =
                [IdleThread EXCEPT !.pc = "retry", !.day = th[c].day,
                                   !.todo = {e \in Episodes : status[e] = "wanted"}]]
    /\ UNCHANGED <<world, row, status, im, past, faults>>

(* Faulty variant: an episode of today is taken for one of the future.     *)
RetryCheckLate(c) ==
    /\ th[c].pc = "retry"
    /\ IF th[c].todo = {} THEN Finish(c) /\ UNCHANGED status
       ELSE LET e == FirstOf(th[c].todo) IN
            IF AirDay[e] >= th[c].day
            THEN /\ status' = [status EXCEPT ![e] = "not_aired"]
                 /\ th' = [th EXCEPT ![c].todo = @ \ {e}]
            ELSE Goto(c, "search") /\ UNCHANGED status
    /\ UNCHANGED <<world, row, im, past, faults>>

(* One episode of the list: not aired, found by its file, or searched;     *)
(* outside Catbox mode a low createtorrent budget ends the run.            *)
RetryCheck(c) ==
    /\ th[c].pc = "retry"
    /\ IF th[c].todo = {} THEN Finish(c) /\ UNCHANGED status
       ELSE LET e == FirstOf(th[c].todo)
                Mark(v) == /\ status' = [status EXCEPT ![e] = v]
                           /\ th' = [th EXCEPT ![c].todo = @ \ {e}]
            IN  IF AirDay[e] > th[c].day THEN Mark("not_aired")
                ELSE IF StrmExists(e) THEN Mark("found")
                ELSE /\ UNCHANGED status
                     /\ \/ Goto(c, "search")
                        \/ ~setup.catbox /\ Finish(c)
    /\ UNCHANGED <<world, row, im, past, faults>>

(* Faulty variant: what was searched is found, written or not.             *)
LazyEpisodeMarked(e) ==
    /\ Works /\ UNCHANGED ready
    /\ IF e \in released THEN WriteStrm(e, TRUE) ELSE UNCHANGED <<files, virtual, past>>
    /\ status' = [status EXCEPT ![e] = IF @ = "none" THEN @ ELSE "found"]

(* _retry_episode in Catbox mode: a lazy .strm for the best cached release *)
(* unless its path exists already, and only what was written is found.     *)
LazyEpisode(e) ==
    \/ /\ e \in released \ files /\ LazyStrm(e)
       /\ status' = [status EXCEPT ![e] = IF @ = "none" \/ files' = files THEN @
                                          ELSE "found"]
       /\ UNCHANGED ready
    \/ /\ e \in files \/ e \notin released
       /\ Works /\ UNCHANGED <<files, virtual, ready, status, past>>

(* _retry_episode otherwise: the release is in TorBox already or is added; *)
(* if not, RealDebrid may serve it with a .strm of its own.                *)
AddedEpisode(e) ==
    /\ UNCHANGED status
    /\ \/ e \in released /\ Works /\ ready' = ready \cup {e}
          /\ UNCHANGED <<files, virtual, past>>
       \/ e \in released /\ Fault /\ WriteStrm(e, FALSE) /\ UNCHANGED ready
       \/ e \notin released /\ Works /\ UNCHANGED <<files, virtual, ready, past>>

SearchEpisode(e) == IF setup.catbox THEN LazyEpisode(e) ELSE AddedEpisode(e)

(* A rate limit while the cache is asked is torbox.RateLimited, which the  *)
(* loop does not catch: the check ends, in either mode.                    *)
RetrySearch(c) ==
    /\ th[c].pc = "search"
    /\ LET e == FirstOf(th[c].todo) IN
        \/ /\ SearchEpisode(e)
           /\ th' = [th EXCEPT ![c].pc = "retry", ![c].todo = @ \ {e}]
        \/ Fault /\ Finish(c) /\ UNCHANGED <<files, virtual, ready, status, past>>
    /\ UNCHANGED <<today, announced, released, row, im, removals, setup>>

(* search_episode_now: the route's thread searches one episode at once.    *)
SearchNow(e) ==
    /\ SearchEpisode(e)
    /\ UNCHANGED <<today, announced, released, row, th, im, removals, setup>>

(* reconcile_wanted_episodes, when the interface lists the episodes.       *)
Reconcile ==
    /\ status' = [e \in Episodes |-> IF status[e] = "wanted" /\ e \in virtual
                                     THEN "found" ELSE status[e]]
    /\ status' # status
    /\ UNCHANGED <<world, row, th, im, past, faults>>

(***************************************************************************)
(* Imports: what is not in monitored_series yet is upserted with mode      *)
(* "all" and every season; the list of what is there is read first.        *)
(***************************************************************************)

ImportRead(i) ==
    /\ setup.imports /\ im[i] = "idle"
    /\ im' = [im EXCEPT ![i] = IF row.mode = "none" THEN "missing" ELSE "known"]
    /\ past' = [past EXCEPT !.other = TRUE]
    /\ UNCHANGED <<world, row, status, th, faults>>

ImportUpsert(i) ==
    /\ im[i] # "idle" /\ im' = [im EXCEPT ![i] = "idle"]
    /\ IF im[i] = "missing" THEN Upsert("all", 1..announced, TRUE)
       ELSE UNCHANGED <<row, past>>
    /\ UNCHANGED <<world, status, th, faults>>

(***************************************************************************)
(* _kick_off_processing of app.py: monitor the series as chosen and, but   *)
(* for mode 'future', start process() for its seasons.  Without TMDB one   *)
(* season is known; without the database the chosen ones are processed.    *)
(***************************************************************************)
KickOff(t, mode, chosen) ==
    LET monitored(known) == IF mode = "selected" /\ chosen # {} THEN chosen \cap known
                            ELSE known
        process(seasons) ==
            IF mode = "future" \/ seasons = {} THEN UNCHANGED th
            ELSE th' = [th EXCEPT ![t] = [IdleThread EXCEPT
                            !.pc = "process", !.seasons = seasons, !.left = seasons]]
        kickOff(known) == Upsert(mode, monitored(known), TRUE) /\ process(monitored(known))
    IN  \/ Works /\ kickOff(1..announced)
        \/ Fault /\ kickOff({1})
        \/ /\ Fault /\ UNCHANGED <<row, past>>
           /\ process(IF chosen = {} THEN {1} ELSE chosen)

(***************************************************************************)
(* The world                                                               *)
(***************************************************************************)
NextDay  == today < MaxDay /\ today' = today + 1
            /\ UNCHANGED <<announced, released, ready, files, virtual, removals>>
Announce == announced < MaxSeason /\ announced' = announced + 1
            /\ UNCHANGED <<today, released, ready, files, virtual, removals>>
Release(e) == e \notin released /\ AirDay[e] <= today /\ released' = released \cup {e}
            /\ UNCHANGED <<today, announced, ready, files, virtual, removals>>
(* The file is removed by a cleanup, with or without its virtual item.     *)
Remove(e) == /\ e \in files /\ removals < setup.removals
             /\ removals' = removals + 1 /\ files' = files \ {e}
             /\ virtual' \in {virtual, virtual \ {e}}
             /\ UNCHANGED <<today, announced, released, ready>>

World == /\ NextDay \/ Announce \/ \E e \in Episodes : Release(e) \/ Remove(e)
         /\ UNCHANGED <<row, status, th, im, past, faults, setup>>

(* The generator's run over the finished torrents (strm_generator.py).     *)
Generate ==
    /\ ready # {} /\ ready' = {} /\ files' = files \cup ready
    /\ past' = [past EXCEPT !.files = @ \cup ready]
    /\ UNCHANGED <<today, announced, released, virtual, row, status, th, im,
                   faults, removals, setup>>

CheckStep(c) == \/ Resolve(c) \/ Detect(c) \/ ListWanted(c)
                \/ RetryCheck(c) \/ RetrySearch(c)
SyncStep(t)  == FetchSeason(t) \/ SyncEpisode(t) \/ SyncDone(t)
AddStep(a)   == ProcessSeason(a) \/ Register(a) \/ Processed(a) \/ AddSeries(a)

MonitorStep ==
    \/ \E c \in Checkers : CheckStart(c) \/ CheckStep(c)
    \/ \E t \in Threads : SyncStep(t)
    \/ \E a \in Adders : SyncSeerr(a) \/ AddStep(a)
    \/ \E i \in Importers : ImportRead(i) \/ ImportUpsert(i)
    \/ \E e \in Episodes : SearchNow(e)
    \/ Reconcile \/ World \/ Generate

(***************************************************************************)
(* Properties                                                              *)
(***************************************************************************)

(* The tables and every thread hold values of their types (db.py).         *)
MonitorTypeOK ==
    /\ today \in 0..MaxDay /\ announced \in 1..MaxSeason
    /\ {released, ready, files, virtual, past.files} \subseteq SUBSET Episodes
    /\ row \in Rows /\ past.modes \subseteq Modes
    /\ status \in [Episodes -> {"none", "wanted", "not_aired", "found"}]
    /\ th \in [Threads -> ThreadStates]
    /\ im \in [Importers -> {"idle", "missing", "known"}]
    /\ faults \in 0..setup.faults /\ removals \in 0..setup.removals

(* wanted_episodes.status = 'found' is said only of an episode that has    *)
(* had a .strm file or a virtual item of its own, or that a namesake's     *)
(* folder shows for it, whichever of the sync, the retry and the           *)
(* reconciliation said it (monitor.py, db.py).                             *)
FoundHadFile ==
    \A e \in Episodes :
        status[e] = "found" => \/ e \in past.files
                               \/ e \in setup.namesake /\ e[1] \in setup.long

(* _series_dir returns "the series folder that best matches title"         *)
(* (monitor.py:25), so that 'found' is said of the series' own episodes.   *)
FoundHadOwnFile == \A e \in Episodes : status[e] = "found" => e \in past.files

(* A series that has only been monitored in mode 'future' has no wanted    *)
(* row of an episode that aired before it was added, whichever check read  *)
(* its mode and date when (monitor.py, _sync_wanted).                      *)
FutureSkipsBackCatalog ==
    past.modes = {"future"} =>
        \A e \in Episodes : status[e] # "none" => AirDay[e] >= row.since

(* The monitor's job is added paused: a check runs when a user asks for    *)
(* one (app.py, ui_api_wanted_recheck), which the next properties assume   *)
(* to happen again and again.                                              *)
CheckedAgain == []<><<\E c \in Checkers : CheckStart(c)>>_vars

(* Outside mode 'selected' an announced season comes to be monitored       *)
(* (monitor.py, the detection of new seasons).                             *)
AnnouncedIsMonitored ==
    CheckedAgain =>
        \A s \in Seasons :
            (row.mode \in {"all", "future"} /\ s <= announced)
                ~> (s \in row.seasons \/ row.mode = "selected")

(* A wanted episode a release has appeared for gets its file, however      *)
(* often it was searched in vain (monitor.py: "keep watching               *)
(* indefinitely"), if no check can take its air date for a future one.     *)
(* Outside Catbox mode a low createtorrent budget may end every check.     *)
WantedIsFound ==
    CheckedAgain =>
        \A e \in {d \in Episodes : AirDay[d] = 0} :
            (setup.catbox /\ status[e] = "wanted" /\ e \in released)
                ~> (status[e] = "found" \/ e \in files)

(* A monitored series' episode is searched once it has aired: app.py says  *)
(* "let the monitor pick up episodes as they air".                         *)
AiredIsPickedUp ==
    CheckedAgain =>
        \A e \in Episodes :
            (status[e] = "not_aired" /\ AirDay[e] <= today /\ e \in released)
                ~> (status[e] # "not_aired")
=============================================================================
