---------------------------- MODULE MediaLibrary ---------------------------
(***************************************************************************)
(* The media folders and the table virtual_items in Catbox mode            *)
(* (strm_generator.py, cleanup.py, upgrader.py).  Threads create files for *)
(* new titles, rebuild missing ones, repair, rename, merge and deduplicate *)
(* them; each walks a list it read before.  Three of these tasks exclude   *)
(* each other with _maintenance_lock.                                      *)
(*                                                                         *)
(* A .strm file is [folder, stem, ep, url]: the name of the film's or      *)
(* show's folder, the title in the file's own name, the episode (0: a      *)
(* film) and what it plays: a row of the table, or                         *)
(*   Direct  a CDN link written before Catbox mode, long expired           *)
(*   Orphan  a /stream link whose token is in no row                       *)
(***************************************************************************)
EXTENDS Integers, Sequences, FiniteSets

CONSTANTS
    Media,      \* films and shows
    Shows,      \* those which are shows
    Names,      \* folder names, which are also the titles in NFOs and files
    Nowhere,    \* the folder of a row without a path
    Of,         \* what a name stands for (the IMDb id its NFO gets)
    Canonical,  \* the TMDB name of a film, the monitored title of a show
    Norm,       \* _norm_title of a name, which leaves out the year
    Cleaned,    \* _normalize_title of a name's title, and its year
    Tier,       \* _quality_tier of a name
    Begins,     \* names whose path begins with a name's path
    Spliced,    \* a name whose beginning was replaced by another name
    Extras,     \* how many posters and subtitles a folder holds
    Listing,    \* where a directory's listing has a name
    PackMin,    \* episodes a season needs to be consolidated (3)
    MaxItems,   \* bound: rows of virtual_items
    Setups      \* instances: what is on disk, and which tasks run how often

Direct == 0
Orphan == -1

ASSUME LibraryConstants ==
    /\ Shows \subseteq Media /\ MaxItems \in Nat /\ PackMin \in Nat \ {0}
    /\ Of \in [Names -> Media] /\ Canonical \in [Media -> Names]
    /\ Begins \in [Names -> SUBSET Names] /\ Spliced \in [Names \X Names \X Names -> Names]
    /\ \A n \in Names : n \in Begins[n] /\ Tier[n] \in 0..4
    /\ \A n \in Names : Extras[n] \in Nat /\ Listing[n] \in Nat
    /\ \A m, n \in Names : Listing[m] = Listing[n] => m = n
    /\ Nowhere \notin Names
(* No two titles share a canonical name.                                   *)
ASSUME CanonicalNames == \A m \in Media : Of[Canonical[m]] = m
(* <<old, new, n>>: n, which begins with old, with new in its place; TMDB  *)
(* still reads its own title in it.                                        *)
ASSUME SplicedNames ==
    \A old, new \in Names : \A n \in Begins[old] :
        LET name == Spliced[<<old, new, n>>] IN
        /\ n = old => name = new
        /\ n # old => Of[name] = Of[n]

StrmFile == [folder : Names, stem : Names, ep : Nat, url : Int]
NfoFile  == [folder : Names, stem : Names, title : Names]
ItemRow  == [media : Media, named : BOOLEAN, folder : Names \cup {Nowhere},
             stem : Names, ep : Nat]

Tasks == {"create", "generate", "repair", "migrate", "dedup", "cleanup", "pack", "titles"}
(* What the scheduler, startup and users start, those of LibrarySync too.  *)
Started == Tasks \cup {"import", "resolve", "recovery", "seerr"}

(* What is on disk at first: files in folders, no two at one path, which   *)
(* play their title or nothing; NFOs and rows of the title of their folder.*)
ASSUME SetupsConsistent ==
    \A s \in Setups :
        /\ s.dirs \subseteq Names /\ s.disk \subseteq StrmFile
        /\ s.nfo \subseteq NfoFile /\ s.items \in Seq(ItemRow)
        /\ s.left \in [Started -> Nat]
        /\ \A f \in s.disk :
            /\ f.folder \in s.dirs /\ (Of[f.folder] \notin Shows => f.ep = 0)
            /\ f.url \in {Direct, Orphan} \cup DOMAIN s.items
            /\ f.url \in DOMAIN s.items =>
                s.items[f.url].media = Of[f.folder] /\ s.items[f.url].ep = f.ep
            /\ \A g \in s.disk :
                g.folder = f.folder /\ g.stem = f.stem /\ g.ep = f.ep => g = f
        /\ \A x \in s.nfo : x.folder \in s.dirs /\ Of[x.title] = Of[x.folder]
        /\ \A k \in DOMAIN s.items :
            /\ s.items[k].folder \in Names => Of[s.items[k].folder] = s.items[k].media
            /\ s.items[k].media \notin Shows => s.items[k].ep = 0

VARIABLES
    dirs,    \* folders that exist
    disk,    \* .strm files
    nfo,     \* NFO files [folder, stem, title]
    items,   \* virtual_items, in the order of their insertion
    wanted,  \* titles a request or a repair is being processed for
    task,    \* what each task is doing
    lock,    \* _maintenance_lock: the task that holds it, or "none"
    left,    \* how often each task may still be started
    past     \* history: titles that could be played when all was quiet; tasks
             \* after which, when they had run alone, nothing has changed; tasks
             \* beside which others ran

library == <<dirs, disk, nfo, items>>
vars == <<dirs, disk, nfo, items, wanted, task, lock, left, past>>

(* noted: a cleanup has changed something, a migration had no name for a   *)
(* film.                                                                   *)
Idle == [pc |-> "idle", todo |-> {}, arg |-> 0, noted |-> FALSE]

(* A title can be played: a file of its own leads to a row of its own.     *)
Playable == {m \in Media : \E f \in disk :
                Of[f.folder] = m /\ f.url \in DOMAIN items /\ items[f.url].media = m}

Init ==
    \E s \in Setups :
        /\ dirs = s.dirs /\ disk = s.disk /\ nfo = s.nfo /\ items = s.items
        /\ wanted = s.wanted /\ left = s.left
        /\ task = [t \in Tasks |-> Idle]
        /\ lock = "none"
        /\ past = [had |-> Playable, settled |-> {}, met |-> {}]

IsShow(n)  == Of[n] \in Shows
In(n)      == {f \in disk : f.folder = n}
At(p)      == {f \in disk : f.folder = p.folder /\ f.stem = p.stem /\ f.ep = p.ep}
Place(r)   == [folder |-> r.folder, stem |-> r.stem, ep |-> r.ep]
Put(p, url) == (disk \ At(p)) \cup {[folder |-> p.folder, stem |-> p.stem,
                                     ep |-> p.ep, url |-> url]}
Nfos(n)    == {x \in nfo : x.folder = n}
(* The rows of a title (get_virtual_items_by_imdb); not every row names it. *)
RowsOf(m)  == {k \in DOMAIN items : items[k].media = m /\ items[k].named}

Goes(t, pc, todo) == task' = [task EXCEPT ![t].pc = pc, ![t].todo = todo]
Does(t, x)        == task' = [task EXCEPT ![t].todo = @ \ {x}]
Notes(t, x)       == task' = [task EXCEPT ![t].todo = @ \ {x}, ![t].noted = TRUE]
Ends(t)           == task' = [task EXCEPT ![t] = Idle]
Turns(t, pc, arg) == task' = [task EXCEPT ![t].pc = pc, ![t].arg = arg]
Takes(t, pc, x, arg) ==
    task' = [task EXCEPT ![t].pc = pc, ![t].todo = @ \ {x}, ![t].arg = arg]

(***************************************************************************)
(* Creating files                                                          *)
(***************************************************************************)

(* _write_strm's search for a film under another spelling: the siblings of *)
(* a season's folder are seasons, which it never takes for duplicates.     *)
Duplicated(n) ==
    /\ ~IsShow(n)
    /\ \E sibling \in dirs \ {n} : /\ ~IsShow(sibling) /\ Norm[sibling] = Norm[n]
                                   /\ In(sibling) # {}

(* _write_strm, after a parent that may have been made already.            *)
WriteStrm(p, url) ==
    IF At(p) = {} /\ ~Duplicated(p.folder)
    THEN dirs' = dirs \cup {p.folder} /\ disk' = Put(p, url)
    ELSE UNCHANGED <<dirs, disk>>

(* create_lazy_movie_strm and create_lazy_episode_strm up to the row: the  *)
(* name is TMDB's or, when it does not answer, the request's.              *)
Create(m, name, ep) ==
    LET p == [folder |-> name, stem |-> name, ep |-> ep] IN
    /\ task["create"].pc = "idle" /\ m \in wanted /\ Of[name] = m
    /\ Len(items) < MaxItems
    /\ wanted' = IF m \in Shows THEN wanted ELSE wanted \ {m}
    /\ IF (m \notin Shows /\ RowsOf(m) # {}) \/ At(p) # {}
       THEN UNCHANGED <<items, task>>
       ELSE /\ items' = Append(items, [media |-> m, named |-> TRUE, folder |-> name,
                                       stem |-> name, ep |-> ep])
            /\ task' = [task EXCEPT !["create"] =
                          [Idle EXCEPT !.pc = "write", !.todo = {p}, !.arg = Len(items) + 1]]
    /\ UNCHANGED <<dirs, disk, nfo, lock, left>>

(* Where the call decided to, wherever the row has been moved since.       *)
CreateWrite ==
    \E p \in task["create"].todo :
        /\ task["create"].pc = "write"
        /\ WriteStrm(p, task["create"].arg)
        /\ IF disk' # disk THEN Goes("create", "nfo", {p.folder}) ELSE Ends("create")
        /\ UNCHANGED <<nfo, items, wanted, lock, left>>

WithNfo(n, stem) ==
    IF {x \in Nfos(n) : x.stem = stem} # {} THEN nfo
    ELSE nfo \cup {[folder |-> n, stem |-> stem, title |-> n]}

CreateNfo ==
    \E n \in task["create"].todo :
        /\ task["create"].pc = "nfo" /\ Ends("create")
        /\ nfo' = IF n \in dirs THEN WithNfo(n, n) ELSE nfo
        /\ UNCHANGED <<dirs, disk, items, wanted, lock, left>>

(***************************************************************************)
(* run_and_refresh: run_once in Catbox mode, then generate_all             *)
(***************************************************************************)

RowList == {[row |-> k, place |-> Place(items[k])] :
               k \in {i \in DOMAIN items : items[i].folder \in Names}}

(* Faulty variant: the folder is not made first.                           *)
RebuildInPlace(t) ==
    \E e \in task[t].todo :
        /\ task[t].pc = "rebuild" /\ Does(t, e)
        /\ IF At(e.place) = {} /\ e.place.folder \in dirs
           THEN WriteStrm(e.place, e.row) ELSE UNCHANGED <<dirs, disk>>
        /\ UNCHANGED <<nfo, items, wanted, lock, left>>

(* _run_once_catbox: a row's file is written again where the list says.    *)
Rebuilt(e) ==
    IF At(e.place) # {} THEN UNCHANGED <<dirs, disk>>
    ELSE /\ dirs' = dirs \cup {e.place.folder}
         /\ disk' = IF Duplicated(e.place.folder) THEN disk ELSE Put(e.place, e.row)

Rebuild(t) ==
    \E e \in task[t].todo :
        /\ task[t].pc = "rebuild" /\ Does(t, e) /\ Rebuilt(e)
        /\ UNCHANGED <<nfo, items, wanted, lock, left>>

RebuildDone(t) ==
    /\ task[t].pc = "rebuild" /\ task[t].todo = {}
    /\ Goes(t, "nfos", dirs)
    /\ UNCHANGED <<library, wanted, lock, left>>

(* generate_all; TMDB may not know the name.                               *)
WriteNfo(t) ==
    \E n \in task[t].todo :
        /\ task[t].pc = "nfos" /\ Does(t, n)
        /\ \/ n \in dirs /\ nfo' = WithNfo(n, n)
           \/ UNCHANGED nfo
        /\ UNCHANGED <<dirs, disk, items, wanted, lock, left>>

NfosDone(t) ==
    /\ task[t].pc = "nfos" /\ task[t].todo = {} /\ Ends(t)
    /\ UNCHANGED <<library, wanted, lock, left>>

(***************************************************************************)
(* The file system, and the rows that follow it                            *)
(***************************************************************************)

Moved(set, old, new) ==
    {IF f.folder = old THEN [f EXCEPT !.folder = new] ELSE f : f \in set}
RenameDir(old, new) ==
    /\ dirs' = (dirs \ {old}) \cup {new}
    /\ disk' = Moved(disk, old, new) /\ nfo' = Moved(nfo, old, new)
RemoveDirs(S) ==
    /\ dirs' = dirs \ S
    /\ disk' = {f \in disk : f.folder \notin S}
    /\ nfo'  = {x \in nfo : x.folder \notin S}

(* update_virtual_strm_path_prefix compares the text of paths: the rows of *)
(* a folder whose name only begins like the old one change too.            *)
RowsUnderPrefix(old, new) ==
    [k \in DOMAIN items |->
        IF items[k].folder \in Begins[old]
        THEN [items[k] EXCEPT !.folder = Spliced[<<old, new, items[k].folder>>]]
        ELSE items[k]]
(* rename_virtual_item_paths ends the prefix with a slash.                 *)
RowsUnderFolder(old, new) ==
    [k \in DOMAIN items |->
        IF items[k].folder = old THEN [items[k] EXCEPT !.folder = new] ELSE items[k]]
RowsOfFile(rows, n, old, new) ==
    [k \in DOMAIN rows |->
        IF rows[k].folder = n /\ rows[k].stem = old THEN [rows[k] EXCEPT !.stem = new]
        ELSE rows[k]]
Restemmed(set, n, old, new) ==
    IF \E f \in set : f.folder = n /\ f.stem = new THEN set
    ELSE {IF f.folder = n /\ f.stem = old THEN [f EXCEPT !.stem = new] ELSE f : f \in set}

(***************************************************************************)
(* The tasks under _maintenance_lock                                       *)
(***************************************************************************)

Acquire(t) == lock = "none" /\ lock' = t
Release(t) == lock' = IF lock = t THEN "none" ELSE lock

Films(S) == {x \in S : ~IsShow(x)}
FilmFiles(S) == {f \in S : ~IsShow(f.folder)}

(* Faulty variant: the file gets the newest row of any title.              *)
RelinkNewest(m, p) ==
    LET own   == {k \in RowsOf(m) : Place(items[k]) = p}
        first == CHOOSE k \in DOMAIN items : \A j \in DOMAIN items : j <= k
    IN  /\ disk' = Put(p, IF own # {} THEN CHOOSE k \in own : TRUE ELSE first)
        /\ dirs' = dirs \cup {p.folder}

(* _relink: the row that names this file, else the title's newest row.     *)
Relink(m, p) ==
    LET own   == {k \in RowsOf(m) : Place(items[k]) = p}
        first == CHOOSE k \in RowsOf(m) : \A j \in RowsOf(m) : j <= k
    IN  /\ disk' = Put(p, IF own # {} THEN CHOOSE k \in own : TRUE ELSE first)
        /\ dirs' = dirs \cup {p.folder}

(* Pass 1: folders without a file.                                         *)
RepairFolder ==
    \E n \in task["repair"].todo :
        /\ task["repair"].pc = "folders" /\ Does("repair", n)
        /\ IF n \notin dirs \/ In(n) # {} \/ Duplicated(n) \/ Nfos(n) = {}
           THEN UNCHANGED <<dirs, disk, wanted>>
           ELSE IF RowsOf(Of[n]) # {}
           THEN Relink(Of[n], [folder |-> n, stem |-> n, ep |-> 0]) /\ UNCHANGED wanted
           ELSE wanted' = wanted \cup {Of[n]} /\ UNCHANGED <<dirs, disk>>
        /\ UNCHANGED <<nfo, items, lock, left>>

RepairFolders ==
    /\ task["repair"].pc = "folders" /\ task["repair"].todo = {}
    /\ Goes("repair", "files", {Place(f) : f \in FilmFiles(disk)})
    /\ UNCHANGED <<library, wanted, lock, left>>

(* Pass 2: files that play nothing.                                        *)
RepairFile ==
    \E p \in task["repair"].todo :
        LET m == Of[p.folder] IN
        /\ task["repair"].pc = "files" /\ Does("repair", p)
        /\ IF At(p) = {} \/ Nfos(p.folder) = {} \/ \A f \in At(p) : f.url \in DOMAIN items
           THEN UNCHANGED <<dirs, disk, wanted>>
           ELSE IF RowsOf(m) # {} THEN Relink(m, p) /\ UNCHANGED wanted
           ELSE wanted' = wanted \cup {m} /\ disk' = disk \ At(p) /\ UNCHANGED dirs
        /\ UNCHANGED <<nfo, items, lock, left>>

RepairDone ==
    /\ task["repair"].pc = "files" /\ task["repair"].todo = {}
    /\ Ends("repair") /\ Release("repair")
    /\ UNCHANGED <<library, wanted, left>>

(* migrate_to_canonical_names: folders by the IMDb id of their NFO.        *)
Groups(S) == {[media |-> m, folders |-> {n \in S : Of[n] = m /\ Nfos(n) # {}}] :
                 m \in {Of[n] : n \in {x \in S : Nfos(x) # {}}}}

(* The best of a group's folders has a file if one has, then the most      *)
(* entries; of equals the one listed first.                                *)
Entries(n)  == Cardinality(In(n)) + Cardinality(Nfos(n)) + Extras[n]
Ahead(n, o) == \/ In(n) # {} /\ In(o) = {}
               \/ /\ In(n) # {} <=> In(o) # {}
                  /\ \/ Entries(n) > Entries(o)
                     \/ Entries(n) = Entries(o) /\ Listing[n] < Listing[o]
Best(S)     == {n \in S : \A o \in S \ {n} : Ahead(n, o)}

(* TMDB may give no name.  A group of which a folder is gone, or whose     *)
(* name another folder has, is left.  Else the best folder gets the name,  *)
(* or stays beside the folder that has it; the others are to be deleted.   *)
Migrate ==
    \E g \in task["migrate"].todo : \E best \in Best(g.folders) :
        LET name == Canonical[g.media]
            a    == [old |-> best, new |-> name, rest |-> g.folders \ {best, name}]
        IN  /\ task["migrate"].pc = "groups"
            /\ \/ Notes("migrate", g) /\ UNCHANGED <<dirs, disk, nfo>>
               \/ /\ ~(g.folders \subseteq dirs) \/ name \in dirs \ g.folders
                  /\ Does("migrate", g) /\ UNCHANGED <<dirs, disk, nfo>>
               \/ /\ g.folders \subseteq dirs /\ name \notin dirs
                  /\ RenameDir(best, name) /\ Takes("migrate", "rows", g, a)
               \/ /\ g.folders \subseteq dirs /\ name \in g.folders
                  /\ Takes("migrate", "rest", g, a) /\ UNCHANGED <<dirs, disk, nfo>>
            /\ UNCHANGED <<items, wanted, lock, left>>

(* _do_rename after the rename: the rows, the file of the old name, its    *)
(* row, its NFO.                                                           *)
MigrateRows ==
    LET a == task["migrate"].arg IN
    /\ task["migrate"].pc = "rows" /\ Turns("migrate", "file", a)
    /\ items' = RowsUnderPrefix(a.old, a.new)
    /\ UNCHANGED <<dirs, disk, nfo, wanted, lock, left>>

MigrateFile ==
    LET a == task["migrate"].arg IN
    /\ task["migrate"].pc = "file"
    /\ disk' = Restemmed(disk, a.new, a.old, a.new)
    /\ Turns("migrate", IF disk' # disk THEN "stem" ELSE "nfo", a)
    /\ UNCHANGED <<dirs, nfo, items, wanted, lock, left>>

MigrateStem ==
    LET a == task["migrate"].arg IN
    /\ task["migrate"].pc = "stem" /\ Turns("migrate", "nfo", a)
    /\ items' = RowsOfFile(items, a.new, a.old, a.new)
    /\ UNCHANGED <<dirs, disk, nfo, wanted, lock, left>>

(* Faulty variant: after a rename the other folders stay.                  *)
MigrateNfoLast ==
    LET a == task["migrate"].arg IN
    /\ task["migrate"].pc = "nfo"
    /\ Turns("migrate", "groups", 0)
    /\ nfo' = Restemmed(nfo, a.new, a.old, a.new)
    /\ UNCHANGED <<dirs, disk, items, wanted, lock, left>>

MigrateNfo ==
    LET a == task["migrate"].arg IN
    /\ task["migrate"].pc = "nfo" /\ Turns("migrate", "rest", a)
    /\ nfo' = Restemmed(nfo, a.new, a.old, a.new)
    /\ UNCHANGED <<dirs, disk, items, wanted, lock, left>>

(* _do_delete of the other folders, one after the other.                   *)
MigrateRest ==
    LET a == task["migrate"].arg IN
    /\ task["migrate"].pc = "rest"
    /\ \E n \in a.rest : RemoveDirs({n}) /\ Turns("migrate", "rest", [a EXCEPT !.rest = @ \ {n}])
    /\ UNCHANGED <<items, wanted, lock, left>>

MigrateNext ==
    /\ task["migrate"].pc = "rest" /\ task["migrate"].arg.rest = {}
    /\ Turns("migrate", "groups", 0)
    /\ UNCHANGED <<library, wanted, lock, left>>

MigrateDone ==
    /\ task["migrate"].pc = "groups" /\ task["migrate"].todo = {}
    /\ Ends("migrate") /\ Release("migrate")
    /\ UNCHANGED <<library, wanted, left>>

(* cleanup_duplicate_strms: one file per film folder, named like it.       *)
DedupStrms ==
    \E n \in task["dedup"].todo, keep \in disk :
        LET named == {f \in In(n) : f.stem = n}
            live  == {f \in In(n) : f.url \in DOMAIN items /\ items[f.url].named}
        IN  /\ task["dedup"].pc = "folders" /\ Does("dedup", n)
            /\ Cardinality(In(n)) > 1
            /\ keep \in IF named # {} THEN named ELSE IF live # {} THEN live ELSE In(n)
            /\ disk' = (disk \ In(n)) \cup {[keep EXCEPT !.stem = n]}
            /\ items' = RowsOfFile(items, n, keep.stem, n)
            /\ nfo' = {x \in Restemmed(nfo, n, keep.stem, n) :
                          x.folder = n => x.stem = n \/ ~\E f \in In(n) : f.stem = x.stem}
            /\ UNCHANGED <<dirs, wanted, lock, left>>

DedupSkip ==
    \E n \in task["dedup"].todo :
        /\ task["dedup"].pc = "folders" /\ Does("dedup", n)
        /\ Cardinality(In(n)) <= 1
        /\ UNCHANGED <<library, wanted, lock, left>>

DedupDone ==
    /\ task["dedup"].pc = "folders" /\ task["dedup"].todo = {}
    /\ Ends("dedup") /\ Release("dedup")
    /\ UNCHANGED <<library, wanted, left>>

(***************************************************************************)
(* run_cleanup, which takes no lock                                        *)
(***************************************************************************)

C == task["cleanup"]
CleanupGoes(pc, todo) == Goes("cleanup", pc, todo)

(* _movie_nfo_info reads the NFO named like the folder, else any.          *)
CanonicalTitles(n) ==
    IF IsShow(n) THEN {Canonical[Of[n]]}
    ELSE {x.title : x \in IF {y \in Nfos(n) : y.stem = n} # {}
                          THEN {y \in Nfos(n) : y.stem = n} ELSE Nfos(n)}

(* rename_messy_series_folders takes the title from the table or TMDB;     *)
(* rename_messy_movie_folders takes it from the NFO, renames the file too, *)
(* and leaves the file's old name in the row.                              *)
CleanupRename ==
    \E n \in C.todo :
        /\ C.pc = "messy" /\ Does("cleanup", n)
        /\ \/ \E title \in CanonicalTitles(n) :
                 /\ n \in dirs /\ Nfos(n) # {} /\ title \notin dirs
                 /\ dirs' = (dirs \ {n}) \cup {title}
                 /\ items' = RowsUnderFolder(n, title)
                 /\ IF IsShow(n)
                    THEN disk' = Moved(disk, n, title) /\ nfo' = Moved(nfo, n, title)
                    ELSE /\ disk' = Restemmed(Moved(disk, n, title), title, n, title)
                         /\ nfo' = Restemmed(Moved(nfo, n, title), title, n, title)
           \/ /\ n \notin dirs \/ Nfos(n) = {} \/ CanonicalTitles(n) \cap dirs # {}
              /\ UNCHANGED library
        /\ UNCHANGED <<wanted, lock, left>>

CleanupRenamed ==
    /\ C.pc = "messy" /\ C.todo = {}
    /\ CleanupGoes("merge", {g \in Groups(dirs) : Cardinality(g.folders) > 1})
    /\ UNCHANGED <<library, wanted, lock, left>>

(* The copies a merge makes of the files of dup in the folder kept.        *)
Copies(dup, keep, renamed) ==
    {[f EXCEPT !.folder = keep, !.stem = IF renamed THEN keep ELSE @] : f \in In(dup)}
Merged(dups, keep, renamed) ==
    LET all  == UNION {Copies(d, keep, renamed) : d \in dups}
        free == {f \in all : At(Place(f)) = {}}
    IN  {f \in disk : f.folder \notin dups}
        \cup {f \in free : f = CHOOSE g \in free : Place(g) = Place(f)}

(* merge_movie_duplicates: the rows follow.  merge_series_duplicates: the  *)
(* files take the name of the show, the rows stay as they are.             *)
CleanupMerge ==
    \E g \in C.todo, keep \in Names :
        LET series == g.media \in Shows
            dups   == (g.folders \cap dirs) \ {keep}
        IN  /\ C.pc = "merge" /\ keep \in g.folders \cap dirs /\ Does("cleanup", g)
            /\ (series /\ Canonical[g.media] \in g.folders \cap dirs) => keep = Canonical[g.media]
            /\ disk' = Merged(dups, keep, series)
            /\ dirs' = dirs \ dups
            /\ nfo' = {x \in nfo : x.folder \notin dups}
            /\ items' = IF series THEN items
                        ELSE [k \in DOMAIN items |->
                                IF items[k].folder \in dups
                                THEN [items[k] EXCEPT !.folder = keep] ELSE items[k]]
            /\ UNCHANGED <<wanted, lock, left>>

CleanupMerged ==
    /\ C.pc = "merge"
    /\ \A g \in C.todo : g.folders \cap dirs = {}
    /\ CleanupGoes("orphans", dirs)
    /\ UNCHANGED <<library, wanted, lock, left>>

(* remove_orphan_folders looks for a file, then removes the folder.        *)
CleanupLook ==
    \E n \in C.todo :
        /\ C.pc = "orphans" /\ C.arg = 0
        /\ IF n \in dirs /\ In(n) = {} THEN task' = [task EXCEPT !["cleanup"].arg = n]
                                       ELSE Does("cleanup", n)
        /\ UNCHANGED <<library, wanted, lock, left>>

CleanupOrphan ==
    /\ C.pc = "orphans" /\ C.arg # 0
    /\ RemoveDirs({C.arg})
    /\ task' = [task EXCEPT !["cleanup"].todo = @ \ {C.arg}, !["cleanup"].arg = 0,
                            !["cleanup"].noted = TRUE]
    /\ UNCHANGED <<items, wanted, lock, left>>

(* Without files, or without an answer from TorBox, that was all.          *)
Regenerates == IF C.noted THEN task' = [task EXCEPT !["cleanup"].pc = "rebuild",
                                                      !["cleanup"].todo = RowList]
               ELSE Ends("cleanup")
CleanupList ==
    /\ C.pc = "orphans" /\ C.todo = {}
    /\ \/ disk # {} /\ CleanupGoes("dups", disk)
       \/ disk = {} /\ Regenerates
       \/ disk # {} /\ Ends("cleanup")
    /\ UNCHANGED <<library, wanted, lock, left>>

(* _remove_duplicates: of a film one file in 4K and one below it stay, of  *)
(* an episode the best.                                                    *)
Key(f)    == <<IsShow(f.folder), Cleaned[f.folder], f.ep>>
TierOf(f) == IF Tier[f.folder] # 0 THEN Tier[f.folder] ELSE Tier[f.stem]
BestOf(S) == {f \in S : \A g \in S : TierOf(g) <= TierOf(f)}
CleanupDups ==
    /\ C.pc = "dups"
    /\ \E f \in C.todo :
        LET same == {g \in C.todo : Key(g) = Key(f)}
            uhd  == {g \in same : TierOf(g) = 4}
            hd   == {g \in same : TierOf(g) \in 1..3}
        IN \E a \in BestOf(IF IsShow(f.folder) \/ uhd \cup hd = {} THEN same
                           ELSE IF uhd # {} THEN uhd ELSE hd),
             b \in IF IsShow(f.folder) \/ uhd = {} THEN same ELSE BestOf(hd) \cup uhd :
            LET twoTiers == ~IsShow(f.folder) /\ uhd # {} /\ hd # {}
                gone == (same \ {a, b}) \cap disk
            IN
            /\ IF twoTiers THEN b \in hd ELSE b = a
            /\ task' = [task EXCEPT !["cleanup"].todo = @ \ same,
                                    !["cleanup"].noted = @ \/ gone # {}]
            /\ disk' = disk \ gone
            /\ nfo' = {x \in nfo : ~\E g \in gone : /\ ~IsShow(g.folder) /\ g.folder = x.folder
                                                    /\ g.stem = x.stem}
            /\ dirs' = {n \in dirs : \/ \A g \in gone : g.folder # n
                                     \/ \E x \in disk' \cup nfo' : x.folder = n}
            /\ UNCHANGED <<items, wanted, lock, left>>

CleanupListed ==
    /\ C.pc = "dups" /\ C.todo = {}
    /\ CleanupGoes("broken", {f \in disk : f.url = Direct})
    /\ UNCHANGED <<library, wanted, lock, left>>

(* _repair_strm, of direct links only: the torrent is still there, or the  *)
(* file goes, which counts as a change only when a new torrent replaces    *)
(* it, or TorBox limits the rate.                                          *)
CleanupBroken ==
    \E f \in C.todo :
        /\ C.pc = "broken"
        /\ \/ Does("cleanup", f) /\ UNCHANGED <<disk, nfo>>
           \/ /\ Does("cleanup", f) \/ Notes("cleanup", f)
              /\ disk' = disk \ {f}
              /\ nfo' = {x \in nfo : x.folder # f.folder \/ x.stem # f.stem \/ IsShow(f.folder)}
           \/ CleanupGoes("broken", {}) /\ UNCHANGED <<disk, nfo>>
        /\ UNCHANGED <<dirs, items, wanted, lock, left>>

CleanupDone ==
    /\ C.pc = "broken" /\ C.todo = {} /\ Regenerates
    /\ UNCHANGED <<library, wanted, lock, left>>

(***************************************************************************)
(* fix_imdb_titles, which takes no lock: requests that were made without a *)
(* title have folders named by their IMDb id                               *)
(***************************************************************************)

NewNames(m) == IF m \in Shows THEN {n \in Names : Of[n] = m} ELSE {Canonical[m]}

(* TMDB does not answer or has no title, or the title has no folder.       *)
TitleStays ==
    \E m \in task["titles"].todo :
        /\ task["titles"].pc = "titles" /\ Does("titles", m)
        /\ UNCHANGED <<library, wanted, lock, left>>

(* The folder some row of the title names gets the name TMDB gives, or its *)
(* files are listed, to be moved into the folder of that name.             *)
FixTitle ==
    \E m \in task["titles"].todo, new \in Names :
    \E old \in {items[k].folder : k \in RowsOf(m)} :
        LET free == new \notin dirs
            a    == [old |-> old, new |-> new,
                     strms |-> IF free THEN {} ELSE {Place(f) : f \in In(old)},
                     nfos |-> IF free THEN {} ELSE {x.stem : x \in Nfos(old)}]
        IN  /\ task["titles"].pc = "titles"
            /\ new \in NewNames(m) /\ old \in dirs \ {new}
            /\ IF free THEN RenameDir(old, new) ELSE UNCHANGED <<dirs, disk, nfo>>
            /\ Takes("titles", IF free THEN "rows" ELSE "move", m, a)
            /\ UNCHANGED <<items, wanted, lock, left>>

(* One by one, if still there, over a file of its name.                    *)
MoveStrm ==
    LET a == task["titles"].arg IN
    /\ task["titles"].pc = "move"
    /\ \E p \in a.strms :
        /\ Turns("titles", "move", [a EXCEPT !.strms = @ \ {p}])
        /\ IF At(p) = {} THEN UNCHANGED <<dirs, disk>>
           ELSE /\ disk' = (disk \ (At(p) \cup At([p EXCEPT !.folder = a.new])))
                           \cup Moved(At(p), a.old, a.new)
                /\ dirs' = dirs \cup {a.new}
    /\ UNCHANGED <<nfo, items, wanted, lock, left>>

MoveNfo ==
    LET a == task["titles"].arg IN
    /\ task["titles"].pc = "move"
    /\ \E stem \in a.nfos :
        LET named(n) == {x \in Nfos(n) : x.stem = stem} IN
        /\ Turns("titles", "move", [a EXCEPT !.nfos = @ \ {stem}])
        /\ IF named(a.old) = {} THEN UNCHANGED <<dirs, nfo>>
           ELSE /\ nfo' = (nfo \ (named(a.old) \cup named(a.new)))
                          \cup Moved(named(a.old), a.old, a.new)
                /\ dirs' = dirs \cup {a.new}
    /\ UNCHANGED <<disk, items, wanted, lock, left>>

(* The empty folder goes; that of a show still has its seasons.            *)
MoveDone ==
    LET a == task["titles"].arg IN
    /\ task["titles"].pc = "move" /\ a.strms = {} /\ a.nfos = {} /\ a.old \in dirs
    /\ dirs' = IF IsShow(a.old) \/ In(a.old) # {} \/ Nfos(a.old) # {} THEN dirs
               ELSE dirs \ {a.old}
    /\ Turns("titles", "rows", a)
    /\ UNCHANGED <<disk, nfo, items, wanted, lock, left>>

(* An error leaves the rest, and the rows, as they are.                    *)
MoveFails ==
    /\ task["titles"].pc = "move"
    /\ Turns("titles", "titles", 0)
    /\ UNCHANGED <<library, wanted, lock, left>>

FixTitleRows ==
    LET a == task["titles"].arg IN
    /\ task["titles"].pc = "rows"
    /\ items' = RowsUnderPrefix(a.old, a.new)
    /\ Turns("titles", "titles", 0)
    /\ UNCHANGED <<dirs, disk, nfo, wanted, lock, left>>

TitlesDone ==
    /\ task["titles"].pc = "titles" /\ task["titles"].todo = {} /\ Ends("titles")
    /\ UNCHANGED <<library, wanted, lock, left>>

(***************************************************************************)
(* run_pack_consolidation                                                  *)
(***************************************************************************)

(* A cached pack was added: the season's files go one by one, ...          *)
PackUnlink ==
    \E f \in task["pack"].todo :
        /\ task["pack"].pc = "unlink" /\ Does("pack", f)
        /\ disk' = disk \ {f}
        /\ UNCHANGED <<dirs, nfo, items, wanted, lock, left>>

(* ... then process_torrent writes one for each file of the pack, under    *)
(* the title it reads in the file's name.  Its rows name no file.  It      *)
(* skips names it cannot read, and may fail at once or later.              *)
PackWrites ==
    /\ task["pack"].pc = "unlink" /\ task["pack"].todo = {}
    /\ Goes("pack", "write", {f.ep : f \in task["pack"].arg})
    /\ UNCHANGED <<library, wanted, lock, left>>

PackWrite ==
    \E ep \in task["pack"].todo, title \in Names :
        LET m == Of[(CHOOSE f \in task["pack"].arg : TRUE).folder]
            p == [folder |-> title, stem |-> title, ep |-> ep]
        IN  /\ task["pack"].pc = "write" /\ Does("pack", ep) /\ Of[title] = m
            /\ Len(items) < MaxItems
            /\ IF At(p) # {} THEN UNCHANGED library
               ELSE /\ items' = Append(items, [media |-> m, named |-> FALSE,
                                     folder |-> Nowhere, stem |-> title, ep |-> ep])
                    /\ WriteStrm(p, Len(items) + 1) /\ UNCHANGED nfo
            /\ UNCHANGED <<wanted, lock, left>>

PackDone ==
    /\ task["pack"].pc = "write" /\ Ends("pack")
    /\ UNCHANGED <<library, wanted, lock, left>>

(***************************************************************************)
(* The tasks are started by the scheduler, at startup and by users         *)
(***************************************************************************)

Starts(t, pc, todo) ==
    /\ task[t].pc = "idle" /\ left[t] > 0
    /\ left' = [left EXCEPT ![t] = @ - 1]
    /\ Goes(t, pc, todo)
    /\ UNCHANGED <<library, wanted>>

StartTask ==
    \/ Starts("generate", "rebuild", RowList) /\ UNCHANGED lock
    \/ Starts("repair", "folders", Films(dirs)) /\ Acquire("repair")
    \/ Starts("migrate", "groups", Groups(Films(dirs))) /\ Acquire("migrate")
    \/ Starts("dedup", "folders", Films(dirs)) /\ Acquire("dedup")
    \/ Starts("cleanup", "messy", dirs) /\ UNCHANGED lock
    \/ \E raw \in SUBSET Media : Starts("titles", "titles", raw) /\ UNCHANGED lock
    \/ \E m \in Shows :
        LET season == In(Canonical[m]) IN
        /\ Cardinality(season) >= PackMin
        /\ task["pack"].pc = "idle" /\ left["pack"] > 0
        /\ left' = [left EXCEPT !["pack"] = @ - 1]
        /\ task' = [task EXCEPT !["pack"] = [Idle EXCEPT !.pc = "unlink", !.todo = season,
                                                         !.arg = season]]
        /\ UNCHANGED <<library, wanted, lock>>

CreateStep == \/ CreateWrite \/ CreateNfo
              \/ \E m \in Media, n \in Names, ep \in 0..1 :
                    (ep = 0 <=> m \notin Shows) /\ Create(m, n, ep)
GenerateStep(t) == Rebuild(t) \/ RebuildDone(t) \/ WriteNfo(t) \/ NfosDone(t)
RepairStep  == RepairFolder \/ RepairFolders \/ RepairFile \/ RepairDone
MigrateStep == \/ Migrate \/ MigrateRows \/ MigrateFile \/ MigrateStem \/ MigrateNfo
               \/ MigrateRest \/ MigrateNext \/ MigrateDone
DedupStep   == DedupStrms \/ DedupSkip \/ DedupDone
CleanupStep == \/ CleanupRename \/ CleanupRenamed \/ CleanupMerge \/ CleanupMerged
               \/ CleanupLook \/ CleanupOrphan \/ CleanupList \/ CleanupDups
               \/ CleanupListed \/ CleanupBroken \/ CleanupDone
TitlesStep  == \/ TitleStays \/ FixTitle \/ FixTitleRows \/ TitlesDone
               \/ MoveStrm \/ MoveNfo \/ MoveDone \/ MoveFails
PackStep    == PackUnlink \/ PackWrites \/ PackWrite \/ PackDone

(***************************************************************************)
(* History                                                                 *)
(***************************************************************************)

Busy == {t \in Tasks : task[t].pc # "idle"}

(* A thread of the import that changes the library ran beside the tasks.   *)
Recorded ==
    LET begun == Busy' \ Busy
        ended == Busy \ Busy'
        met   == IF begun # {} /\ Busy # {} THEN past.met \cup Busy'
                 ELSE IF task' = task /\ library' # library THEN past.met \cup Busy
                 ELSE past.met \ begun
    IN  past' = [had |-> IF Busy' = {} THEN past.had \cup Playable' ELSE past.had,
                 settled |-> (IF library' # library THEN {} ELSE past.settled)
                             \cup {t \in ended \ met : t = "migrate" => ~task[t].noted},
                 met |-> met]

Step == \/ CreateStep \/ RepairStep \/ MigrateStep \/ DedupStep \/ CleanupStep \/ PackStep
        \/ TitlesStep
        \/ StartTask
        \/ \E t \in {"generate", "cleanup"} : GenerateStep(t)

Next == Step /\ Recorded

Spec == Init /\ [][Next]_vars

(***************************************************************************)
(* Properties                                                              *)
(***************************************************************************)

(* Folders, files, rows and tasks hold values of their types; no two files *)
(* share a path, no file is outside a folder, and the lock is held by the  *)
(* task that runs under it.                                                *)
TypeOK ==
    /\ dirs \subseteq Names
    /\ \A f \in disk : /\ f.folder \in dirs /\ f.stem \in Names
                       /\ f.url \in {Direct, Orphan} \cup DOMAIN items
                       /\ At(f) = {f}
    /\ \A x \in nfo : x.folder \in dirs /\ x.title \in Names
    /\ \A k \in DOMAIN items : items[k].folder \in Names \cup {Nowhere}
    /\ lock \in {"none", "repair", "migrate", "dedup"}
    /\ \A t \in {"repair", "migrate", "dedup"} : task[t].pc # "idle" <=> lock = t

(* A file that leads to a row plays the title of its folder and the        *)
(* episode of its name, whatever renamed, merged or relinked it.           *)
FilesPlayTheirTitle ==
    \A f \in disk : f.url \in DOMAIN items =>
        items[f.url].media = Of[f.folder] /\ items[f.url].ep = f.ep

(* When the generator has run alone and nothing changed since, every row   *)
(* that names a file has it, or its film has one under another spelling.   *)
GeneratorRestores ==
    "generate" \in past.settled =>
        \A k \in DOMAIN items :
            items[k].folder \in Names => At(Place(items[k])) # {} \/ Duplicated(items[k].folder)

(* A migration, deduplication or generator that has run alone, a migration *)
(* with a name from TMDB for every film, changes nothing when it is run    *)
(* again before anything else has changed the library.                     *)
Unchanging(t) == t \in past.settled /\ task'[t] # task[t] => UNCHANGED <<dirs, disk, items>>
RunsAreIdempotent == [][\A t \in {"migrate", "dedup", "generate"} : Unchanging(t)]_vars

(* The same of the cleanup, the first step of the recovery wizard, whose   *)
(* steps are said to be idempotent (recovery.py:2).                        *)
CleanupIsIdempotent == [][Unchanging("cleanup")]_vars

(* Once all is quiet, a title that could be played before can be played    *)
(* still: the tasks do not delete the last file of a title.                *)
TitlesStayPlayable == Busy = {} => past.had \subseteq Playable

(* A migration changes the rows of the folder it renames and no others.    *)
RenameTakesItsRows ==
    [][task["migrate"].pc = "rows" /\ task'["migrate"].pc # "rows" =>
        \A k \in DOMAIN items :
            items'[k] # items[k] => items[k].folder = task["migrate"].arg.old]_vars
=============================================================================
