------------------------------- MODULE Catbox -------------------------------
(***************************************************************************)
(* Catbox: from the token of a .strm file to a stream URL.  A playback     *)
(* takes the token's lock, makes sure the release of its virtual item is   *)
(* in the TorBox (or RealDebrid) library, picks the item's file and keeps  *)
(* the URL it gets.  The idle release, the upgrader and the preload change *)
(* the same rows, libraries and URLs without that lock.                    *)
(*                                                                         *)
(* The items are one movie, or episodes of a season whose releases are     *)
(* season packs.  A release carries every item's file, but its file names  *)
(* need not tell which is which (Named).                                   *)
(***************************************************************************)
EXTENDS Integers, Sequences, FiniteSets

CONSTANTS
  Tokens,       \* virtual items
  Movie,        \* the one item is a movie; else episodes of a season
  Hashes,       \* releases, named by info hash
  Players,      \* threads inside materialize
  Largest,      \* the token whose file is the largest of a release
  Named,        \* the tokens a release has a file name with SxxExx for
  NextEpisode,  \* the token of the following episode, or None
  RealDebrid,   \* RealDebrid is configured
  Preload,      \* CATBOX_PRELOAD
  None,         \* SQL NULL, a missing dict entry, nobody
  MaxTorrents,  \* bound: torrents ever added to TorBox
  MaxUpgrades,  \* bound: upgrades
  MaxReleases   \* bound: rounds of release_idle that find something

Providers == {"torbox", "realdebrid"}
Ids == 1 .. MaxTorrents
Files == Hashes \X Tokens     \* a file id belongs to one release's listing

ASSUME CatboxNames ==
  /\ None \notin Tokens \cup Hashes \cup Players \cup Ids \cup Files
  /\ Largest \in [Hashes -> Tokens] /\ Named \in [Hashes -> SUBSET Tokens]
  /\ NextEpisode \in [Tokens -> Tokens \cup {None}]
  /\ Movie => \E t \in Tokens : Tokens = {t}
ASSUME CatboxBounds ==
  /\ MaxTorrents \in Nat /\ MaxUpgrades \in Nat /\ MaxReleases \in Nat
  /\ {RealDebrid, Preload, Movie} \subseteq BOOLEAN

VARIABLES
  row,        \* table virtual_items
  cache,      \* _url_cache: the URL of each token, as <<release, file>>
  cool,       \* _fail_cache: the length of each token's cooldown
  held,       \* _token_locks: who holds each token's lock
  torrents,   \* TorBox: every torrent ever added; its id is its index
  rdlib,      \* RealDebrid: the releases in the library
  mylist,     \* torbox._mylist_cache: ids listed as ready, or None
  pc, job,    \* the threads inside materialize
  glist, gitem, releases,   \* release_idle: the rows to do, the one in hand
  upgraded,   \* the token whose URL the upgrader drops next, or None
  upgrades,   \* upgrades done
  preload     \* _preload_torrent per release

gc == <<glist, gitem, releases>>
upgrader == <<upgraded, upgrades>>
player == <<cache, cool, held, pc, job>>
world == <<torrents, rdlib, mylist>>
vars == <<row, player, world, gc, upgrader, preload>>

Torrent == [hash : Hashes, state : {"queued", "ready", "gone"}]
Item == [hash : Hashes, tid : Ids \cup {None}, file : Files \cup {None},
         provider : Providers, rid : Hashes \cup {None}, idle : BOOLEAN]
Url == Hashes \X Files
Cooldowns == {"none", "30s", "120s", "6h"}

Present(i) == i # None /\ torrents[i].state # "gone"
Live(i) == Present(i) /\ torrents[i].state = "ready"
Ready == {i \in DOMAIN torrents : torrents[i].state = "ready"}
WithHash(list, h) == {i \in list : torrents[i].hash = h}
(* The file picked for a token: the first whose name has its SxxExx, else  *)
(* the largest, which is also a movie's.                                   *)
FileOf(h, t) == <<h, IF t \in Named[h] THEN t ELSE Largest[h]>>
Goto(p, l) == pc' = [pc EXCEPT ![p] = l]

NewItem(h) == [hash |-> h, tid |-> None, file |-> None,
               provider |-> "torbox", rid |-> None, idle |-> FALSE]
NoJob == [token |-> None, readd |-> FALSE, item |-> None, magnet |-> None,
          fresh |-> None, url |-> None]

(* list_torrents: the list kept, else a new one, which is kept: empty when *)
(* TorBox answers 403.                                                     *)
List == /\ mylist' \in IF mylist = None THEN {Ready, {}} ELSE {mylist}
        /\ UNCHANGED torrents

(* Lazily registered items, their preloads started or not.                 *)
Init ==
  /\ row \in [Tokens -> {NewItem(h) : h \in Hashes}]
  /\ cache = [t \in Tokens |-> None]
  /\ cool = [t \in Tokens |-> "none"]
  /\ held = [t \in Tokens |-> None]
  /\ torrents = <<>> /\ rdlib = {} /\ mylist = None
  /\ pc = [p \in Players |-> "idle"]
  /\ job = [p \in Players |-> NoJob]
  /\ glist = {} /\ gitem = None /\ releases = 0
  /\ upgraded = None /\ upgrades = 0
  /\ preload \in [Hashes -> IF Preload THEN {"none", "run"} ELSE {"none"}]
  /\ \A h \in Hashes : preload[h] = "run" => \E t \in Tokens : row[t].hash = h
-----------------------------------------------------------------------------
(* createtorrent: a release already in the library keeps its torrent, and  *)
(* the list of torrents is dropped.  i is the id it returns.               *)
AddTorrent(h, i) ==
  LET there == {k \in DOMAIN torrents : torrents[k].hash = h /\ Present(k)} IN
  /\ mylist' = None
  /\ \/ i \in there /\ UNCHANGED torrents
     \/ /\ there = {} /\ i = Len(torrents) + 1
        /\ \E s \in {"queued", "ready"} :
             torrents' = Append(torrents, [hash |-> h, state |-> s])

(* GET /stream/<token>, and re-resolve, which first clears what the token  *)
(* is remembered for and insists on the add.                               *)
Play(p, t) ==
  /\ pc[p] = "idle"
  /\ \E readd \in BOOLEAN :
       job' = [job EXCEPT ![p] = [NoJob EXCEPT !.token = t, !.readd = readd]]
  /\ Goto(p, "ask")
  /\ UNCHANGED <<row, cache, cool, held, world, gc, upgrader, preload>>

ReResolve(p, t) ==
  /\ pc[p] = "idle"
  /\ cache' = [cache EXCEPT ![t] = None]
  /\ cool' = [cool EXCEPT ![t] = "none"]
  /\ job' = [job EXCEPT ![p] = [NoJob EXCEPT !.token = t, !.readd = TRUE]]
  /\ Goto(p, "ask")
  /\ UNCHANGED <<row, held, world, gc, upgrader, preload>>

(* A cached URL touches the item and is served; a cooldown answers None.   *)
Answer(p) ==
  LET t == job[p].token IN
  /\ cache[t] # None \/ cool[t] # "none"
  /\ row' = [row EXCEPT ![t].idle = @ /\ cache[t] = None]
  /\ Goto(p, "idle")
  /\ job' = [job EXCEPT ![p] = NoJob]
  /\ UNCHANGED <<cache, cool, held, world, gc, upgrader, preload>>

Ask(p) ==
  LET t == job[p].token IN
  /\ pc[p] = "ask"
  /\ \/ Answer(p)
     \/ /\ cache[t] = None /\ cool[t] = "none"
        /\ Goto(p, "lock")
        /\ UNCHANGED <<row, cache, cool, held, job, world, gc, upgrader, preload>>

Take(p) ==
  LET t == job[p].token IN
  /\ held' = [held EXCEPT ![t] = p]
  /\ job' = [job EXCEPT ![p].item = [row[t] EXCEPT !.idle = FALSE],
             ![p].magnet = row[t].hash]
  /\ Goto(p, IF row[t].provider = "realdebrid" THEN "rdlive" ELSE "tblive")
  /\ UNCHANGED <<row, cache, cool, world, gc, upgrader, preload>>

(* Faulty variants: no lock; no second look under the lock.                *)
LockIgnored(p) ==
  LET t == job[p].token IN
  /\ pc[p] = "lock"
  /\ Answer(p) \/ (cache[t] = None /\ cool[t] = "none" /\ Take(p))
LockTakenBlindly(p) ==
  /\ pc[p] = "lock" /\ held[job[p].token] = None
  /\ Take(p)

(* Under the lock the cache and the cooldown are looked at once more, then *)
(* the item is read, once.                                                 *)
Lock(p) ==
  LET t == job[p].token IN
  /\ pc[p] = "lock" /\ held[t] = None
  /\ Answer(p) \/ (cache[t] = None /\ cool[t] = "none" /\ Take(p))

(* An error path of _materialize_locked asks for its own cooldown and      *)
(* returns None; a path that returns None without one asks for "none".     *)
(* What it had in hand goes with its frame, only the token is left.        *)
Refuse(p, length) ==
  /\ cool' = IF length = "none" THEN cool ELSE [cool EXCEPT ![job[p].token] = length]
  /\ Goto(p, "refuse")
  /\ job' = [job EXCEPT ![p] = [NoJob EXCEPT !.token = job[p].token]]
  /\ UNCHANGED <<cache, held, gc, upgrader, preload>>
Step(p, l) == Goto(p, l) /\ UNCHANGED <<cache, cool, held, gc, upgrader, preload>>

(* The URL is in hand: the item is touched and the URL on its way out.     *)
Serve(p, r, url) ==
  /\ row' = [row EXCEPT ![job[p].token] = [r EXCEPT !.idle = FALSE]]
  /\ job' = [job EXCEPT ![p] = [NoJob EXCEPT !.token = job[p].token, !.url = url]]
  /\ Step(p, "serve")
Picked(p, h) == FileOf(h, job[p].token)
Leave(p) ==
  /\ held' = [held EXCEPT ![job[p].token] = None]
  /\ Goto(p, "idle")
  /\ job' = [job EXCEPT ![p] = NoJob]
-----------------------------------------------------------------------------
(* RealDebrid: the stored rd_id while it is still in the library.          *)
RdLive(p) ==
  LET t == job[p].token  item == job[p].item IN
  /\ pc[p] = "rdlive"
  /\ UNCHANGED world
  /\ \/ /\ item.rid \in rdlib
        /\ Serve(p, row[t], <<item.rid, Picked(p, item.rid)>>)
     \/ /\ row' = [row EXCEPT ![t].rid = IF item.rid = None THEN @ ELSE None]
        /\ \/ job[p].readd /\ Step(p, "rdsearch") /\ UNCHANGED job
           \/ ~job[p].readd /\ Refuse(p, "none")

(* Faulty variant: the ids stay.                                           *)
SwappedKeepsIds(r, h) == [r EXCEPT !.hash = h]

(* update_virtual_item_upgrade clears the TorBox ids, not the RealDebrid   *)
(* one.                                                                    *)
Swapped(r, h) == [r EXCEPT !.hash = h, !.tid = None, !.file = None]

(* _search_cached_release: a release cached at a provider, none, or the    *)
(* search could not be made; its own cache repeats an earlier answer.      *)
Found == Hashes \X (IF RealDebrid THEN Providers ELSE {"torbox"})

NotFound(p) ==
  /\ Refuse(p, "30s") \/ Refuse(p, "6h")
  /\ UNCHANGED <<row, world>>

(* A fresh search for an item of RealDebrid.  When the release found is    *)
(* TorBox's, the item in hand takes its hash and goes on with the magnet   *)
(* and the torrent id it was read with.                                    *)
RdSearch(p) ==
  LET t == job[p].token IN
  /\ pc[p] = "rdsearch"
  /\ \/ NotFound(p)
     \/ \E found \in Found :
          LET h == found[1]  prov == found[2] IN
          /\ row' = [row EXCEPT ![t] = [Swapped(@, h) EXCEPT !.provider = prov]]
          /\ \/ /\ prov = "torbox"
                /\ job' = [job EXCEPT ![p].item.hash = h, ![p].item.file = None]
                /\ Step(p, "tblive")
             \/ /\ prov = "realdebrid"
                /\ job' = [job EXCEPT ![p].fresh = h]
                /\ Step(p, "rdadd")
          /\ UNCHANGED world

(* The RealDebrid add of a search result: in time, in time but without a   *)
(* URL, late or refused.                                                   *)
AddToRd(p, noUrl) ==
  LET t == job[p].token  h == job[p].fresh IN
  /\ rdlib' \in {rdlib, rdlib \cup {h}}
  /\ UNCHANGED <<torrents, mylist>>
  /\ \/ /\ h \in rdlib'
        /\ Serve(p, [row[t] EXCEPT !.rid = h], <<h, Picked(p, h)>>)
     \/ /\ h \in rdlib'
        /\ row' = [row EXCEPT ![t].rid = h]
        /\ noUrl
     \/ /\ Refuse(p, "30s") \/ Refuse(p, "120s")
        /\ UNCHANGED row

(* Without a URL an item of RealDebrid falls through to TorBox, with the   *)
(* hash it was read with; one that has just switched gives up.             *)
RdAdd(p) == pc[p] = "rdadd" /\ AddToRd(p, Step(p, "tblive") /\ UNCHANGED job)
RdSwitch(p) == pc[p] = "rdswitch" /\ AddToRd(p, Refuse(p, "none"))
-----------------------------------------------------------------------------
(* TorBox: the stored id while it is seen live, else a listed torrent with *)
(* the item's hash.  The list may be 45 s old; when it cannot be fetched,  *)
(* that raises through materialize, and no cooldown is put.                *)
TbLive(p) ==
  LET t == job[p].token  item == job[p].item IN
  /\ pc[p] = "tblive"
  /\ UNCHANGED rdlib
  /\ \/ /\ Live(item.tid)
        /\ Step(p, "file")
        /\ UNCHANGED <<row, job, torrents, mylist>>
     \/ /\ List
        /\ \E i \in WithHash(mylist', item.hash) :
             /\ row' = [row EXCEPT ![t].tid = i]
             /\ job' = [job EXCEPT ![p].item.tid = i]
        /\ Step(p, "file")
     \/ /\ List /\ WithHash(mylist', item.hash) = {}
        /\ \/ job[p].readd /\ Step(p, "readd") /\ UNCHANGED job
           \/ ~job[p].readd /\ Refuse(p, "none")
        /\ UNCHANGED row
     \/ /\ mylist = None /\ Leave(p)
        /\ UNCHANGED <<row, cache, cool, torrents, mylist, gc, upgrader, preload>>

(* The stored magnet is added again and used once it is seen ready; a rate *)
(* limit ends the attempt, any other trouble goes on.                      *)
Readd(p) ==
  LET use(i) == /\ torrents'[i].state = "ready"
                /\ row' = [row EXCEPT ![job[p].token].tid = i]
                /\ job' = [job EXCEPT ![p].item.tid = i]
                /\ Step(p, "file")
      trouble == /\ Refuse(p, "120s") \/ (Step(p, "known") /\ UNCHANGED job)
                 /\ UNCHANGED row
  IN
  /\ pc[p] = "readd"
  /\ UNCHANGED rdlib
  /\ \/ \E i \in Ids : AddTorrent(job[p].magnet, i) /\ (use(i) \/ trouble)
     \/ trouble /\ UNCHANGED <<torrents, mylist>>

(* The item's own hash may be cached at RealDebrid: the provider is        *)
(* written before the magnet is added, which may be late or raise.         *)
Known(p) ==
  LET t == job[p].token
      h == job[p].magnet
      switched == [row[t] EXCEPT !.provider = "realdebrid"]
  IN
  /\ pc[p] = "known"
  /\ UNCHANGED <<torrents, mylist>>
  /\ \/ /\ Step(p, "search")
        /\ UNCHANGED <<row, job, rdlib>>
     \/ /\ RealDebrid
        /\ rdlib' \in {rdlib, rdlib \cup {h}}
        /\ \/ /\ h \in rdlib'
              /\ Serve(p, [switched EXCEPT !.rid = h], <<h, Picked(p, h)>>)
           \/ /\ \E r \in {switched, [switched EXCEPT !.rid = h]} :
                   row' = [row EXCEPT ![t] = r]
              /\ Refuse(p, "30s")
           \/ /\ row' = [row EXCEPT ![t] = switched]
              /\ Step(p, "search")
              /\ UNCHANGED job

(* A fresh search for an item of TorBox: the row takes the new release     *)
(* before it is added.                                                     *)
Search(p) ==
  LET t == job[p].token  item == job[p].item IN
  /\ pc[p] = "search"
  /\ \/ NotFound(p)
     \/ \E h \in Hashes :
          /\ <<h, "torbox">> \in Found
          /\ LET r == IF h = item.hash THEN row[t] ELSE Swapped(row[t], h)
             IN  row' = [row EXCEPT ![t] = [r EXCEPT !.provider = "torbox"]]
          /\ job' = [job EXCEPT ![p].item.hash = h,
                     ![p].item.file = IF h = item.hash THEN @ ELSE None]
          /\ Step(p, "add")
          /\ UNCHANGED world
     \/ \E h \in Hashes :
          /\ <<h, "realdebrid">> \in Found
          /\ row' = [row EXCEPT ![t] = [Swapped(@, h) EXCEPT !.provider = "realdebrid"]]
          /\ job' = [job EXCEPT ![p].fresh = h]
          /\ Step(p, "rdswitch")
          /\ UNCHANGED world

(* The TorBox add of a search result.  One that is not ready in time is    *)
(* used all the same when the last look at the list shows it.              *)
Add(p) ==
  LET use(i) == /\ row' = [row EXCEPT ![job[p].token].tid = i]
                /\ job' = [job EXCEPT ![p].item.tid = i]
                /\ Step(p, "file")
      trouble == /\ Refuse(p, "30s") \/ Refuse(p, "120s")
                 /\ UNCHANGED row
  IN
  /\ pc[p] = "add"
  /\ UNCHANGED rdlib
  /\ \/ \E i \in Ids : AddTorrent(job[p].item.hash, i) /\ (use(i) \/ trouble)
     \/ trouble /\ UNCHANGED <<torrents, mylist>>
-----------------------------------------------------------------------------
(* The file: the stored one, or the one picked among the torrent's files.  *)
(* Without a list of files a movie asks for the largest and keeps no id.   *)
PickFile(p, chosen) ==
  LET t == job[p].token  item == job[p].item IN
  /\ pc[p] = "file"
  /\ UNCHANGED world
  /\ \/ /\ item.file # None
        /\ Step(p, "link")
        /\ UNCHANGED <<row, job>>
     \/ /\ item.file = None /\ Present(item.tid)
        /\ LET f == chosen[torrents[item.tid].hash] IN
             /\ row' = [row EXCEPT ![t].file = f]
             /\ job' = [job EXCEPT ![p].item.file = f]
        /\ Step(p, "link")
     \/ /\ item.file = None /\ Movie /\ Present(item.tid)
        /\ LET h == torrents[item.tid].hash IN
             job' = [job EXCEPT ![p].item.file = <<h, Largest[h]>>]
        /\ Step(p, "link")
        /\ UNCHANGED row
     \/ /\ item.file = None
        /\ Refuse(p, "30s")
        /\ UNCHANGED row

(* Faulty variant: the largest file, as for a movie.                       *)
FileLargest(p) == PickFile(p, [h \in Hashes |-> <<h, Largest[h]>>])
File(p) == PickFile(p, [h \in Hashes |-> Picked(p, h)])

(* requestdl for the torrent and the file; it may fail.                    *)
Link(p) ==
  LET item == job[p].item IN
  /\ pc[p] = "link"
  /\ UNCHANGED world
  /\ \/ /\ Live(item.tid)
        /\ Serve(p, row[job[p].token], <<torrents[item.tid].hash, item.file>>)
     \/ /\ Refuse(p, "none")
        /\ UNCHANGED row

(* The URL is kept, the next episode's release preloaded.                  *)
Keep(p) ==
  LET t == job[p].token
      next == NextEpisode[t]
      h == row[next].hash
  IN
  /\ pc[p] = "serve"
  /\ cache' = [cache EXCEPT ![t] = job[p].url]
  /\ preload' = IF Preload /\ next # None
                THEN [preload EXCEPT ![h] = IF @ = "none" THEN "run" ELSE @]
                ELSE preload
  /\ Leave(p)
  /\ UNCHANGED <<row, cool, world, gc, upgrader>>

(* Whatever _materialize_locked asked for, its caller puts the default.    *)
Cool(p) ==
  /\ pc[p] = "refuse"
  /\ cool' = [cool EXCEPT ![job[p].token] = "30s"]
  /\ Leave(p)
  /\ UNCHANGED <<row, cache, world, gc, upgrader, preload>>
-----------------------------------------------------------------------------
(* _preload_torrent: the release is in the library, then the URL of its    *)
(* main file goes to a row with this hash, whichever the query returns.    *)
PreloadAdd(h) ==
  /\ preload[h] = "run"
  /\ UNCHANGED rdlib
  /\ \/ /\ List /\ WithHash(mylist', h) # {}
        /\ preload' = [preload EXCEPT ![h] = "link"]
     \/ \E next \in {"link", "none"} :
          /\ \E i \in Ids : AddTorrent(h, i)
          /\ preload' = [preload EXCEPT ![h] = next]
     \/ /\ preload' = [preload EXCEPT ![h] = "none"]
        /\ UNCHANGED <<torrents, mylist>>
  /\ UNCHANGED <<row, player, gc, upgrader>>

PreloadLink(h) ==
  /\ preload[h] = "link"
  /\ preload' = [preload EXCEPT ![h] = "none"]
  /\ \/ /\ WithHash(Ready, h) # {}
        /\ \E t \in Tokens :
             /\ row[t].hash = h
             /\ cache' = [cache EXCEPT ![t] = <<h, <<h, Largest[h]>>>>]
     \/ UNCHANGED cache
  /\ UNCHANGED <<row, cool, held, pc, job, world, gc, upgrader>>
-----------------------------------------------------------------------------
(* release_idle: the idle rows are read once; each torrent is deleted and  *)
(* its row cleared.                                                        *)
IdleRows == {<<t, row[t].tid>> : t \in {u \in Tokens : row[u].tid # None /\ row[u].idle}}
ReleaseStart ==
  /\ glist = {} /\ gitem = None /\ IdleRows # {}
  /\ releases < MaxReleases /\ releases' = releases + 1
  /\ glist' = IdleRows
  /\ UNCHANGED <<row, player, world, gitem, upgrader, preload>>

(* A delete that fails clears the row too, unless the torrent is seen to   *)
(* be there; the probe does not see it when its own call fails.            *)
ReleaseDelete ==
  /\ gitem = None
  /\ \E item \in glist :
       LET i == item[2] IN
       /\ glist' = glist \ {item}
       /\ \/ /\ torrents[i].state # "gone"
             /\ torrents' = [torrents EXCEPT ![i].state = "gone"]
             /\ mylist' = None
             /\ gitem' = item
          \/ gitem' = item /\ UNCHANGED <<torrents, mylist>>
          \/ torrents[i].state # "gone" /\ UNCHANGED <<torrents, mylist, gitem>>
  /\ UNCHANGED <<row, player, rdlib, releases, upgrader, preload>>

ReleaseClear ==
  /\ gitem # None
  /\ row' = [row EXCEPT ![gitem[1]].tid = None]
  /\ gitem' = None
  /\ UNCHANGED <<player, world, glist, releases, upgrader, preload>>

(* The upgrader swaps the release in a movie's row (it lists no episodes), *)
(* then drops the URL.                                                     *)
Upgrade(t, h) ==
  /\ upgraded = None /\ upgrades < MaxUpgrades
  /\ Movie /\ h # row[t].hash
  /\ row' = [row EXCEPT ![t] = Swapped(@, h)]
  /\ upgraded' = t /\ upgrades' = upgrades + 1
  /\ UNCHANGED <<player, world, gc, preload>>

UpgradeInvalidate ==
  /\ upgraded # None
  /\ cache' = [cache EXCEPT ![upgraded] = None]
  /\ upgraded' = None
  /\ UNCHANGED <<row, cool, held, pc, job, world, gc, upgrades, preload>>
-----------------------------------------------------------------------------
(* Clocks: an item goes idle, a URL, a cooldown or the list runs out.      *)
Clock ==
  \/ \E t \in Tokens :
       \/ /\ ~row[t].idle /\ row[t].tid # None
          /\ releases < MaxReleases
          /\ row' = [row EXCEPT ![t].idle = TRUE]
          /\ UNCHANGED <<player, mylist>>
       \/ /\ cache[t] # None
          /\ cache' = [cache EXCEPT ![t] = None]
          /\ UNCHANGED <<row, cool, held, pc, job, mylist>>
       \/ /\ cool[t] # "none"
          /\ cool' = [cool EXCEPT ![t] = "none"]
          /\ UNCHANGED <<row, cache, held, pc, job, mylist>>
  \/ /\ mylist # None
     /\ mylist' = None
     /\ UNCHANGED <<row, player>>

(* The services: a torrent finishes, a torrent or a release is evicted.    *)
Services ==
  \/ /\ \E i \in DOMAIN torrents :
          \/ /\ torrents[i].state = "queued"
             /\ torrents' = [torrents EXCEPT ![i].state = "ready"]
          \/ /\ torrents[i].state # "gone"
             /\ torrents' = [torrents EXCEPT ![i].state = "gone"]
     /\ UNCHANGED rdlib
  \/ /\ \E h \in rdlib : rdlib' = rdlib \ {h}
     /\ UNCHANGED torrents

Resolve(p) ==
  \/ RdLive(p) \/ RdSearch(p) \/ RdAdd(p) \/ RdSwitch(p)
  \/ TbLive(p) \/ Readd(p) \/ Known(p) \/ Search(p) \/ Add(p) \/ File(p) \/ Link(p)
Materialize(p) == Ask(p) \/ Lock(p) \/ Resolve(p) \/ Keep(p) \/ Cool(p)
PreloadStep == \E h \in Hashes : PreloadAdd(h) \/ PreloadLink(h)
ReleaseStep == ReleaseStart \/ ReleaseDelete \/ ReleaseClear

Next ==
  \/ \E p \in Players, t \in Tokens : Play(p, t) \/ ReResolve(p, t)
  \/ \E p \in Players : Materialize(p)
  \/ PreloadStep
  \/ ReleaseStep
  \/ \E t \in Tokens, h \in Hashes : Upgrade(t, h)
  \/ UpgradeInvalidate
  \/ Clock /\ UNCHANGED <<torrents, rdlib, gc, upgrader, preload>>
  \/ Services /\ UNCHANGED <<row, player, mylist, gc, upgrader, preload>>

Spec == Init /\ [][Next]_vars

-----------------------------------------------------------------------------
InLock == {"rdlive", "rdsearch", "rdadd", "rdswitch", "tblive", "readd", "known", "search",
           "add", "file", "link", "serve", "refuse"}
Adding == {"rdsearch", "rdadd", "rdswitch", "readd", "known", "search", "add"}
Job == [token : Tokens \cup {None}, readd : BOOLEAN, item : Item \cup {None},
        magnet : Hashes \cup {None}, fresh : Hashes \cup {None},
        url : Url \cup {None}]

(* The variables hold values of their kinds.                               *)
TypeOK ==
  /\ row \in [Tokens -> Item]
  /\ cache \in [Tokens -> Url \cup {None}]
  /\ cool \in [Tokens -> Cooldowns]
  /\ held \in [Tokens -> Players \cup {None}]
  /\ torrents \in Seq(Torrent) /\ Len(torrents) <= MaxTorrents
  /\ rdlib \subseteq Hashes
  /\ mylist = None \/ mylist \subseteq DOMAIN torrents
  /\ pc \in [Players -> {"idle", "ask", "lock"} \cup InLock]
  /\ job \in [Players -> Job]
  /\ glist \subseteq Tokens \X Ids
  /\ gitem \in (Tokens \X Ids) \cup {None} /\ releases \in 0 .. MaxReleases
  /\ upgraded \in Tokens \cup {None} /\ upgrades \in 0 .. MaxUpgrades
  /\ preload \in [Hashes -> {"none", "run", "link"}]

(* "Re-check inside the lock: another thread may have succeeded or set     *)
(* cooldown" (catbox.py:197): one thread at a time resolves a token.       *)
OneMaterialization ==
  \A p, q \in Players :
    pc[p] \in InLock /\ pc[q] \in InLock /\ p # q => job[p].token # job[q].token

(* "after a failed materialize ... block retries for a short window"       *)
(* (catbox.py:35-36): nothing is searched or added for a token in          *)
(* cooldown, however many probes were waiting when it failed.              *)
NothingAddedInCooldown ==
  \A p \in Players : pc[p] \in Adding => cool[job[p].token] = "none"

(* A row's torrent and file are those of the row's release: whoever finds  *)
(* the torrent by its id plays what the row says.                          *)
RowNamesItsRelease ==
  \A t \in Tokens :
    LET r == row[t] IN
    /\ r.tid # None => torrents[r.tid].hash = r.hash
    /\ r.file # None => r.file[1] = r.hash

(* "catbox.materialize picks the right file by SxxExx at playback time"    *)
(* (strm_generator.py:586): the URL a playback keeps for a token is of the *)
(* release its row names by then and of the token's file in it (the        *)
(* largest only where no name tells it), whatever ids a row still holds of *)
(* a torrent or a release before.                                          *)
PlaybackKeepsOwnFile ==
  [][\A p \in Players :
       pc[p] = "serve" /\ pc'[p] = "idle" =>
         LET t == job[p].token IN cache'[t] = <<row[t].hash, FileOf(row[t].hash, t)>>]_vars

(* The same promise of what is kept at any time, also by the preload, in a *)
(* release that has a name for the episode.                                *)
CachedUrlIsOwnFile ==
  \A t \in Tokens : cache[t] # None /\ t \in Named[cache[t][1]]
                      => cache[t][2] = <<cache[t][1], t>>

(* "so next playback re-materializes with new hash" (db.py:858): a         *)
(* RealDebrid id an item plays from is of the item's release.              *)
RdIdIsOfItsRelease ==
  \A p \in Players :
    pc[p] = "rdlive" /\ job[p].item.rid # None => job[p].item.rid = job[p].item.hash

(* "retry in 6h" (catbox.py:418), "back off longer" (catbox.py:39): a      *)
(* cooldown runs out or is cleared, and is never cut to a shorter one.     *)
CooldownNeverCut ==
  [][\A t \in Tokens : cool[t] \in {"120s", "6h"} /\ cool'[t] # cool[t]
                         => cool'[t] = "none"]_vars

(* "Remove TorBox items idle longer than CATBOX_IDLE_MINUTES"              *)
(* (catbox.py:735): the item whose torrent is deleted is idle.             *)
ReleasedItemIsIdle ==
  [][ReleaseDelete => \A item \in glist \ glist' :
       torrents' # torrents => row[item[1]].idle]_vars

(* ... and so is every other item that plays from the same torrent.        *)
SharedTorrentIsKept ==
  [][ReleaseDelete => \A i \in DOMAIN torrents :
       torrents'[i] # torrents[i] =>
         \A t \in Tokens : row[t].tid = i /\ ~row[t].idle => <<t, i>> \in glist]_vars

Quiet == /\ \A p \in Players : pc[p] = "idle"
         /\ \A h \in Hashes : preload[h] = "none"
         /\ gitem = None
(* "torrents added to TorBox on-demand at playback, removed after idle"    *)
(* (CHANGELOG.md:115): a torrent in the library is named by a row, so that *)
(* release_idle gets to see it.                                            *)
AddedTorrentIsNamed ==
  Quiet => \A i \in DOMAIN torrents :
             Present(i) => \E t \in Tokens : row[t].tid = i

(* "Still clear the local reference so catbox can re-add it on next play"  *)
(* (catbox.py:744): the reference cleared is the one that was released.    *)
ClearsWhatItReleased ==
  [][ReleaseClear => row[gitem[1]].tid \in {None, gitem[2]}]_vars
=============================================================================
