---------------------------- MODULE LibrarySync ----------------------------
(***************************************************************************)
(* The list of known titles (media_items) and of monitored series, brought *)
(* in line with the media folders (library_sync.py), composed with the     *)
(* folders themselves.  Two kinds of thread do it: the library import      *)
(* (app.py: import, resolve, monitor, NFOs) and the recovery wizard        *)
(* (recovery.py: cleanup, import, resolve, rebuild); resolve and monitor   *)
(* are also started at boot.  Nothing excludes them from each other.       *)
(*                                                                         *)
(* A row of media_items is [id, title]: the id is a film or show, or, for  *)
(* a placeholder (unknown_...), the name of the folder it was made for.    *)
(***************************************************************************)
EXTENDS MediaLibrary

CONSTANT Syncs  \* the threads

(* No id of a film or show reads like a placeholder's.                     *)
ASSUME SyncConstants == Media \cap Names = {}

VARIABLES
    rows,     \* media_items
    watched,  \* shows in monitored_series
    sync,     \* what each thread is doing, its list, and what it read first
    misses    \* bound and history: TMDB did not answer

syncVars == <<rows, watched, sync, misses>>
allVars == <<vars, syncVars>>

Resting == [pc |-> "idle", kind |-> "import", todo |-> {}, seen |-> {}]

LSInit ==
    /\ Init
    /\ rows = {} /\ watched = {} /\ misses = 0
    /\ sync = [s \in Syncs |-> Resting]

Placeholders == {r \in rows : r.id \in Names}
Titles       == {r.title : r \in rows}
Filled       == {f.folder : f \in disk}

(* upsert_media_item: the id is unique.                                    *)
Upserted(id, title) == {r \in rows : r.id # id} \cup {[id |-> id, title |-> title]}

(* Faulty variant: a row whose new id is taken already is left.            *)
RekeyRefused(id, new) ==
    rows' = IF \E r \in rows : r.id = new THEN rows
            ELSE {IF r.id = id THEN [r EXCEPT !.id = new] ELSE r : r \in rows}

(* rekey_media_item: a placeholder whose title is known already is deleted.*)
Rekey(id, new) ==
    rows' = IF \E r \in rows : r.id = new THEN {r \in rows : r.id # id}
            ELSE {IF r.id = id THEN [r EXCEPT !.id = new] ELSE r : r \in rows}

Does2(s, x) == sync' = [sync EXCEPT ![s].todo = @ \ {x}]
Begins2(s, pc, todo, seen) ==
    sync' = [sync EXCEPT ![s].pc = pc, ![s].todo = todo, ![s].seen = seen]
OnlySync == UNCHANGED <<library, wanted, task, lock, left>>

(* import_existing lists the files and the known titles.                   *)
StartImport(s) ==
    /\ sync[s].pc = "idle" /\ left["import"] > 0
    /\ left' = [left EXCEPT !["import"] = @ - 1]
    /\ Begins2(s, "import", Filled, Titles)
    /\ UNCHANGED <<library, wanted, task, lock, rows, watched, misses>>

(* At boot: resolve_unknowns, import_series_to_monitored and generate_all, *)
(* which _delayed starts half a minute apart; taken in this order.         *)
StartResolve(s) ==
    /\ sync[s].pc = "idle" /\ left["resolve"] > 0
    /\ left' = [left EXCEPT !["resolve"] = @ - 1]
    /\ Begins2(s, "resolve", Placeholders, {})
    /\ UNCHANGED <<library, wanted, task, lock, rows, watched, misses>>

(* recovery.run first runs the cleanup (bound: none runs already).         *)
StartRecovery(s) ==
    /\ sync[s].pc = "idle" /\ left["recovery"] > 0 /\ task["cleanup"].pc = "idle"
    /\ left' = [left EXCEPT !["recovery"] = @ - 1]
    /\ Goes("cleanup", "messy", dirs)
    /\ sync' = [sync EXCEPT ![s].pc = "cleanup", ![s].kind = "recovery"]
    /\ UNCHANGED <<library, wanted, lock, rows, watched, misses>>

CleanedUp(s) ==
    /\ sync[s].pc = "cleanup" /\ task["cleanup"].pc = "idle"
    /\ Begins2(s, "import", Filled, Titles)
    /\ OnlySync /\ UNCHANGED <<rows, watched, misses>>

(* A folder that was not listed, if its file can still be read.            *)
ImportFolder(s) ==
    \E n \in sync[s].todo :
        LET new == n \notin sync[s].seen /\ In(n) # {} IN
        /\ sync[s].pc = "import"
        /\ rows' = IF new THEN Upserted(n, n) ELSE rows
        /\ sync' = [sync EXCEPT ![s].todo = @ \ {n},
                                ![s].seen = IF new THEN @ \cup {n} ELSE @]
        /\ OnlySync /\ UNCHANGED <<watched, misses>>

Imported(s) ==
    /\ sync[s].pc = "import" /\ sync[s].todo = {}
    /\ Begins2(s, "resolve", Placeholders, {})
    /\ OnlySync /\ UNCHANGED <<rows, watched, misses>>

(* resolve_unknowns asks TMDB for each placeholder it listed; one that is  *)
(* gone meanwhile is not updated.                                          *)
ResolveRow(s) ==
    \E r \in sync[s].todo :
        /\ sync[s].pc = "resolve" /\ Does2(s, r)
        /\ \/ Rekey(r.id, Of[r.title]) /\ UNCHANGED misses
           \/ misses = 0 /\ misses' = 1 /\ UNCHANGED rows
        /\ OnlySync /\ UNCHANGED watched

(* import_series_to_monitored reads both tables and lists the folders.     *)
ResolvedAll(s) ==
    /\ sync[s].pc = "resolve" /\ sync[s].todo = {}
    /\ IF sync[s].kind = "recovery" THEN Begins2(s, "rebuild", RowList, {})
       ELSE Begins2(s, "monitor", {n \in dirs : IsShow(n)},
                    {[show |-> r.id, title |-> r.title] : r \in rows \ Placeholders}
                    \cup {[show |-> m, title |-> Nowhere] : m \in watched})
    /\ OnlySync /\ UNCHANGED <<rows, watched, misses>>

(* A folder that carries a known title is monitored, if it was not.        *)
MonitorFolder(s) ==
    \E n \in sync[s].todo :
        LET known == IF n \in dirs THEN {x.show : x \in {y \in sync[s].seen : y.title = n}}
                     ELSE {}
            had   == {x.show : x \in {y \in sync[s].seen : y.title = Nowhere}}
        IN  /\ sync[s].pc = "monitor"
            /\ watched' = watched \cup (known \ had)
            /\ sync' = [sync EXCEPT ![s].todo = @ \ {n},
                           ![s].seen = @ \cup {[show |-> m, title |-> Nowhere] : m \in known}]
            /\ OnlySync /\ UNCHANGED <<rows, misses>>

Monitored(s) ==
    /\ sync[s].pc = "monitor" /\ sync[s].todo = {}
    /\ Begins2(s, "nfos", dirs, {})
    /\ OnlySync /\ UNCHANGED <<rows, watched, misses>>

(* generate_all after an import, _run_once_catbox after a recovery.        *)
FinishFolder(s) ==
    \E x \in sync[s].todo :
        /\ Does2(s, x)
        /\ \/ /\ sync[s].pc = "nfos" /\ UNCHANGED <<dirs, disk>>
              /\ nfo' = IF x \in dirs THEN WithNfo(x, x) ELSE nfo
           \/ sync[s].pc = "rebuild" /\ Rebuilt(x) /\ UNCHANGED nfo
        /\ UNCHANGED <<items, wanted, task, lock, left, rows, watched, misses>>

Finished(s) ==
    /\ sync[s].pc \in {"nfos", "rebuild"} /\ sync[s].todo = {}
    /\ sync' = [sync EXCEPT ![s] = Resting]
    /\ OnlySync /\ UNCHANGED <<rows, watched, misses>>

(* sync_movies of monitor.py: an approved film of Seerr, under its title.  *)
SyncMovie(m, title) ==
    /\ left["seerr"] > 0 /\ Of[title] = m /\ m \notin Shows
    /\ left' = [left EXCEPT !["seerr"] = @ - 1]
    /\ rows' = Upserted(m, title)
    /\ UNCHANGED <<library, wanted, task, lock, watched, sync, misses>>

SyncStep ==
    \/ \E s \in Syncs :
        \/ StartImport(s) \/ StartResolve(s) \/ StartRecovery(s) \/ CleanedUp(s)
        \/ ImportFolder(s) \/ Imported(s) \/ ResolveRow(s) \/ ResolvedAll(s)
        \/ MonitorFolder(s) \/ Monitored(s) \/ FinishFolder(s) \/ Finished(s)
    \/ \E m \in Media, title \in Names : SyncMovie(m, title)

LSNext == ((Step /\ UNCHANGED syncVars) \/ SyncStep) /\ Recorded
LSSpec == LSInit /\ [][LSNext]_allVars

(***************************************************************************)
(* Properties                                                              *)
(***************************************************************************)

(* The lists and the threads hold values of their types, and no id has two *)
(* rows (db.py).                                                           *)
LSTypeOK ==
    /\ TypeOK
    /\ \A r \in rows : r.id \in Media \cup Names /\ r.title \in Names
    /\ \A q, r \in rows : q.id = r.id => q = r
    /\ watched \subseteq Shows /\ misses \in 0..1
    /\ \A s \in Syncs : sync[s].pc \in {"idle", "cleanup", "import", "resolve",
                                        "monitor", "nfos", "rebuild"}

(* Once the threads rest, no placeholder is left if TMDB always answered:  *)
(* what one thread imports behind another's back is resolved after all     *)
(* (library_sync.py).                                                      *)
ImportsAreResolved ==
    (\A s \in Syncs : sync[s].pc = "idle") /\ misses = 0 => Placeholders = {}
=============================================================================
