---------------------------- MODULE CatboxProofs ----------------------------
(***************************************************************************)
(* Theorems about Catbox, for every set of tokens, releases and threads.   *)
(***************************************************************************)
EXTENDS Catbox, TLAPS

(* An id that is kept is of one of the n torrents added.                   *)
Of(i, n) == i = None \/ i \in 1 .. n

(* What a thread has in hand at each place: the item only while it looks   *)
(* for a URL.                                                              *)
Busy == InLock \ {"serve", "refuse"}
Fits(l, j, n) ==
  /\ l # "idle" => j.token \in Tokens
  /\ l \in Busy => j.item \in Item /\ j.magnet \in Hashes /\ Of(j.item.tid, n)
  /\ l \in {"rdadd", "rdswitch"} => j.fresh \in Hashes
  /\ l = "serve" => j.url \in Url
  /\ l \in {"file", "link"} => j.item.tid # None
  /\ l = "link" => j.item.file \in Files
InHand(p) == Fits(pc[p], job[p], Len(torrents))

TypeInv ==
  /\ TypeOK
  /\ \A p \in Players : InHand(p)
  /\ \A t \in Tokens : Of(row[t].tid, Len(torrents))
  /\ \A pair \in glist : pair[2] <= Len(torrents)
  /\ gitem # None => gitem[2] <= Len(torrents)

(* The torrents a step leaves: more of them, of the same releases.         *)
Grown ==
  /\ torrents' \in Seq(Torrent) /\ Len(torrents') <= MaxTorrents
  /\ Len(torrents) <= Len(torrents')
  /\ \A k \in DOMAIN torrents : k \in DOMAIN torrents' /\ torrents'[k].hash = torrents[k].hash

LEMMA AddGrows ==
  ASSUME torrents \in Seq(Torrent), Len(torrents) <= MaxTorrents,
         NEW h \in Hashes, NEW i \in Ids, AddTorrent(h, i)
  PROVE  /\ Grown /\ i \in DOMAIN torrents' /\ torrents'[i].hash = h
         /\ mylist' = None
<1> USE CatboxBounds
<1>1. CASE torrents' = torrents
  BY <1>1 DEF AddTorrent, Grown, Ids
<1>2. CASE torrents' # torrents
  <2>1. PICK s \in {"queued", "ready"} :
          /\ i = Len(torrents) + 1
          /\ torrents' = Append(torrents, [hash |-> h, state |-> s])
    BY <1>2 DEF AddTorrent
  <2>2. [hash |-> h, state |-> s] \in Torrent
    BY DEF Torrent
  <2>3. /\ torrents' \in Seq(Torrent) /\ Len(torrents') = Len(torrents) + 1
        /\ torrents'[i] = [hash |-> h, state |-> s]
        /\ \A k \in 1 .. Len(torrents) : torrents'[k] = torrents[k]
    BY <2>1, <2>2
  <2> QED
    BY <1>2, <2>1, <2>3 DEF AddTorrent, Grown, Ids
<1> QED
  BY <1>1, <1>2

LEMMA SameGrows ==
  ASSUME torrents \in Seq(Torrent), Len(torrents) <= MaxTorrents, torrents' = torrents
  PROVE  Grown
BY DEF Grown

LEMMA StateGrows ==
  ASSUME torrents \in Seq(Torrent), Len(torrents) <= MaxTorrents,
         NEW i \in DOMAIN torrents, NEW s \in {"ready", "gone"},
         torrents' = [torrents EXCEPT ![i].state = s]
  PROVE  Grown
<1> USE CatboxBounds
<1>0. torrents[i] \in Torrent
  OBVIOUS
<1>a. [torrents[i] EXCEPT !.state = s] \in Torrent /\ [torrents[i] EXCEPT !.state = s].hash = torrents[i].hash
  BY <1>0 DEF Torrent
<1>1. \A k \in DOMAIN torrents : torrents'[k] \in Torrent /\ torrents'[k].hash = torrents[k].hash
  BY <1>a
<1>2. DOMAIN torrents' = DOMAIN torrents /\ DOMAIN torrents = 1 .. Len(torrents) /\ Len(torrents) \in Nat
  OBVIOUS
<1>3. torrents' \in Seq(Torrent) /\ Len(torrents') = Len(torrents)
  BY <1>1, <1>2
<1> QED
  BY <1>1, <1>2, <1>3 DEF Grown
-----------------------------------------------------------------------------
Places == {"idle", "ask", "lock"} \cup InLock

LEMMA JobFields ==
  ASSUME NEW j \in Job
  PROVE  /\ \A r \in Item : [j EXCEPT !.item = r] \in Job
         /\ \A u \in Url : [j EXCEPT !.url = u] \in Job
         /\ \A h \in Hashes : [j EXCEPT !.fresh = h] \in Job
BY DEF Job

LEMMA ItemFields ==
  ASSUME NEW r \in Item
  PROVE  /\ \A i \in Ids \cup {None} : [r EXCEPT !.tid = i] \in Item
         /\ \A f \in Files \cup {None} : [r EXCEPT !.file = f] \in Item
         /\ \A h \in Hashes \cup {None} : [r EXCEPT !.rid = h] \in Item
         /\ \A x \in Providers : [r EXCEPT !.provider = x] \in Item
         /\ [r EXCEPT !.idle = FALSE] \in Item
         /\ \A h \in Hashes : Swapped(r, h) \in Item
BY DEF Item, Swapped

(* A step of p, which holds its token's lock before and after it.          *)
Within(p) ==
  /\ pc' \in [Players -> Places] /\ job' \in [Players -> Job] /\ row' \in [Tokens -> Item]
  /\ \A q \in Players \ {p} : pc'[q] = pc[q] /\ job'[q] = job[q]
  /\ \A t \in Tokens \ {job[p].token} : row'[t] = row[t]
  /\ \A t \in Tokens : Of(row'[t].tid, Len(torrents'))
  /\ pc'[p] \in InLock /\ job'[p].token = job[p].token /\ InHand(p)'
  /\ UNCHANGED <<held, cache, gc, upgrader, preload>>
  /\ \/ cool' = cool
     \/ /\ pc'[p] = "refuse"
        /\ \E c \in Cooldowns : cool' = [cool EXCEPT ![job[p].token] = c]
  /\ rdlib' \subseteq Hashes /\ (mylist' = None \/ mylist' \subseteq DOMAIN torrents')
  /\ Grown

LEMMA HandsOf ==
  ASSUME TypeInv, NEW p \in Players
  PROVE  /\ job[p] \in Job /\ row \in [Tokens -> Item] /\ job \in [Players -> Job]
         /\ pc \in [Players -> Places]
         /\ InHand(p)
         /\ torrents \in Seq(Torrent) /\ Len(torrents) <= MaxTorrents /\ Len(torrents) \in Nat
         /\ \A t \in Tokens : Of(row[t].tid, Len(torrents))
         /\ rdlib \subseteq Hashes /\ (mylist = None \/ mylist \subseteq DOMAIN torrents)
BY DEF TypeInv, TypeOK, Places

LEMMA OfMore ==
  ASSUME NEW i, torrents \in Seq(Torrent), Grown, Of(i, Len(torrents))
  PROVE  Of(i, Len(torrents'))
BY DEF Of, Grown

(* Such a step goes to l and leaves j in hand and r in the row.            *)
LEMMA WithinShape ==
  ASSUME TypeInv, NEW p \in Players, pc[p] \in InLock,
         NEW l \in InLock, NEW j \in Job, NEW r \in Item, Of(r.tid, Len(torrents')), Fits(l, j, Len(torrents')), j.token = job[p].token,
         pc' = [pc EXCEPT ![p] = l],
         \/ job' = [job EXCEPT ![p] = j]
         \/ job' = job /\ j = job[p],
         \/ row' = [row EXCEPT ![job[p].token] = r]
         \/ row' = row,
         UNCHANGED <<held, cache, gc, upgrader, preload>>,
         \/ cool' = cool
         \/ l = "refuse" /\ \E c \in Cooldowns : cool' = [cool EXCEPT ![job[p].token] = c],
         rdlib' \subseteq Hashes, mylist' = None \/ mylist' \subseteq DOMAIN torrents', Grown
  PROVE  Within(p)
<1>1. job[p].token \in Tokens
  BY HandsOf DEF InHand, Fits, InLock
<1>a. \A t \in Tokens : Of(row[t].tid, Len(torrents'))
  BY HandsOf, OfMore
<1>2. /\ row' \in [Tokens -> Item]
      /\ \A x \in Tokens \ {job[p].token} : row'[x] = row[x]
      /\ row'[job[p].token] = r \/ row' = row
  BY <1>1, HandsOf
<1>b. \A t \in Tokens : Of(row'[t].tid, Len(torrents'))
  BY <1>2, <1>a
<1>3. /\ job' \in [Players -> Job] /\ job'[p] = j
      /\ \A q \in Players \ {p} : job'[q] = job[q]
  BY HandsOf
<1>4. /\ pc' \in [Players -> Places] /\ pc'[p] = l
      /\ \A q \in Players \ {p} : pc'[q] = pc[q]
  BY HandsOf DEF Places
<1> QED
  BY <1>2, <1>b, <1>3, <1>4 DEF Within, InHand

LEMMA InLockHas ==
  ASSUME TypeInv, NEW p \in Players, pc[p] \in InLock
  PROVE  /\ job[p] \in Job /\ job[p].token \in Tokens
         /\ row[job[p].token] \in Item /\ Fits(pc[p], job[p], Len(torrents))
BY HandsOf DEF InHand, Fits, InLock

LEMMA BusyHas ==
  ASSUME TypeInv, NEW p \in Players, pc[p] \in Busy
  PROVE  /\ pc[p] \in InLock /\ pc[p] \in Busy /\ job[p] \in Job /\ job[p].token \in Tokens
         /\ job[p].item \in Item /\ job[p].magnet \in Hashes /\ row[job[p].token] \in Item
         /\ Of(job[p].item.tid, Len(torrents)) /\ Fits(pc[p], job[p], Len(torrents))
BY InLockHas, HandsOf DEF InHand, Fits, Busy

LEMMA HandMore ==
  ASSUME TypeInv, NEW p \in Players, pc[p] \in Busy, Grown
  PROVE  /\ Of(job[p].item.tid, Len(torrents'))
         /\ Of(row[job[p].token].tid, Len(torrents'))
BY BusyHas, HandsOf, OfMore

LEMMA Emptied ==
  ASSUME NEW t \in Tokens, NEW u \in Url \cup {None}
  PROVE  /\ [NoJob EXCEPT !.token = t, !.url = u] \in Job
         /\ [NoJob EXCEPT !.token = t, !.url = u].token = t
         /\ [NoJob EXCEPT !.token = t, !.url = u].url = u
         /\ [NoJob EXCEPT !.token = t] \in Job /\ [NoJob EXCEPT !.token = t].token = t
BY DEF NoJob, Job

LEMMA ServeShape ==
  ASSUME TypeInv, NEW p \in Players, pc[p] \in Busy,
         NEW r \in Item, Of(r.tid, Len(torrents')), NEW u \in Url, Serve(p, r, u), Grown,
         rdlib' \subseteq Hashes, mylist' = None \/ mylist' \subseteq DOMAIN torrents'
  PROVE  Within(p)
<1> DEFINE j == [NoJob EXCEPT !.token = job[p].token, !.url = u]
           s == [r EXCEPT !.idle = FALSE]
<1>1. j \in Job /\ s \in Item
  BY BusyHas, Emptied, ItemFields
<1>2. j.token = job[p].token /\ j.url = u
  BY BusyHas, Emptied
<1>a. Fits("serve", j, Len(torrents'))
  BY <1>2, BusyHas DEF Fits, Busy
<1>b. Of(s.tid, Len(torrents'))
  BY DEF Item
<1>3. /\ row' = [row EXCEPT ![job[p].token] = s] /\ job' = [job EXCEPT ![p] = j]
      /\ pc' = [pc EXCEPT ![p] = "serve"] /\ cool' = cool
      /\ UNCHANGED <<held, cache, gc, upgrader, preload>>
  BY DEF Serve, Step, Goto
<1> HIDE DEF j, s
<1> QED
  BY <1>1, <1>2, <1>a, <1>b, <1>3, WithinShape DEF InLock, Busy

LEMMA RefuseShape ==
  ASSUME TypeInv, NEW p \in Players, pc[p] \in Busy, NEW c \in Cooldowns, Refuse(p, c), Grown,
         rdlib' \subseteq Hashes, mylist' = None \/ mylist' \subseteq DOMAIN torrents',
         NEW r \in Item, Of(r.tid, Len(torrents')),
         row' = row \/ row' = [row EXCEPT ![job[p].token] = r]
  PROVE  Within(p)
<1> DEFINE j == [NoJob EXCEPT !.token = job[p].token]
<1>1. Fits("refuse", j, Len(torrents')) /\ j \in Job /\ j.token = job[p].token
  BY BusyHas, Emptied DEF Fits, Busy
<1>2. /\ pc' = [pc EXCEPT ![p] = "refuse"] /\ job' = [job EXCEPT ![p] = j]
      /\ cool' = cool \/ cool' = [cool EXCEPT ![job[p].token] = c]
      /\ UNCHANGED <<held, cache, gc, upgrader, preload>>
  BY DEF Refuse, Goto
<1> HIDE DEF j
<1> QED
  BY <1>1, <1>2, WithinShape DEF InLock, Busy

LEMMA StepShape ==
  ASSUME TypeInv, NEW p \in Players, pc[p] \in Busy, NEW l \in Busy, Step(p, l), Grown,
         rdlib' \subseteq Hashes, mylist' = None \/ mylist' \subseteq DOMAIN torrents',
         NEW j \in Job, Fits(l, j, Len(torrents')), j.token = job[p].token,
         \/ job' = [job EXCEPT ![p] = j]
         \/ job' = job /\ j = job[p],
         NEW r \in Item, Of(r.tid, Len(torrents')), row' = row \/ row' = [row EXCEPT ![job[p].token] = r]
  PROVE  Within(p)
<1>1. /\ pc' = [pc EXCEPT ![p] = l] /\ cool' = cool
      /\ UNCHANGED <<held, cache, gc, upgrader, preload>>
  BY DEF Step, Goto
<1>2. pc[p] \in InLock /\ l \in InLock /\ l # "refuse"
  BY DEF Busy
<1> QED
  BY <1>1, <1>2, WithinShape

LEMMA RdLiveWithin ==
  ASSUME TypeInv, NEW p \in Players, RdLive(p)
  PROVE  Within(p)
<1> DEFINE t == job[p].token  item == job[p].item
<1>1. pc[p] \in Busy
  BY DEF RdLive, InLock, Busy
<1>2. Grown /\ rdlib' \subseteq Hashes /\ (mylist' = None \/ mylist' \subseteq DOMAIN torrents')
  BY HandsOf, SameGrows DEF RdLive, world
<1>3. CASE item.rid \in rdlib /\ Serve(p, row[t], <<item.rid, Picked(p, item.rid)>>)
  <2>1. <<item.rid, Picked(p, item.rid)>> \in Url
    BY <1>1, <1>3, BusyHas, HandsOf, CatboxNames DEF Picked, FileOf, Url, Files
  <2> QED
    BY <1>1, <1>2, <1>3, <2>1, BusyHas, HandMore, ServeShape
<1>4. CASE /\ row' = [row EXCEPT ![t].rid = IF item.rid = None THEN @ ELSE None]
           /\ (Step(p, "rdsearch") /\ job' = job) \/ Refuse(p, "none")
  <2> DEFINE r == [row[t] EXCEPT !.rid = IF item.rid = None THEN row[t].rid ELSE None]
  <2>1. r \in Item /\ r.tid = row[t].tid
    BY <1>1, BusyHas DEF Item
  <2>a. Of(r.tid, Len(torrents'))
    BY <1>1, <1>2, <2>1, HandMore
  <2>2. row' = [row EXCEPT ![t] = r]
    BY <1>4
  <2>3. Fits("rdsearch", job[p], Len(torrents'))
    BY <1>1, <1>2, BusyHas, HandMore DEF Fits, Busy
  <2> HIDE DEF r
  <2>4. CASE Step(p, "rdsearch") /\ job' = job
    BY <1>1, <1>2, <1>4, <2>1, <2>a, <2>2, <2>3, <2>4, BusyHas, StepShape DEF InLock, Busy
  <2>5. CASE Refuse(p, "none")
    BY <1>1, <1>2, <1>4, <2>1, <2>a, <2>2, <2>5, RefuseShape DEF Cooldowns
  <2> QED
    BY <1>4, <2>4, <2>5
<1> QED
  BY <1>3, <1>4 DEF RdLive

(* The item in hand after a step that changes it.                          *)
LEMMA PutItem ==
  ASSUME NEW j \in Job, NEW r \in Item
  PROVE  /\ [j EXCEPT !.item = r] \in Job
         /\ [j EXCEPT !.item = r].item = r /\ [j EXCEPT !.item = r].token = j.token
         /\ [j EXCEPT !.item = r].magnet = j.magnet
BY DEF Job

LEMMA PutFresh ==
  ASSUME NEW j \in Job, NEW h \in Hashes
  PROVE  /\ [j EXCEPT !.fresh = h] \in Job /\ [j EXCEPT !.fresh = h].fresh = h
         /\ [j EXCEPT !.fresh = h].item = j.item /\ [j EXCEPT !.fresh = h].token = j.token
         /\ [j EXCEPT !.fresh = h].magnet = j.magnet
BY DEF Job

LEMMA SameWorld ==
  ASSUME TypeInv, UNCHANGED world
  PROVE  Grown /\ rdlib' \subseteq Hashes /\ (mylist' = None \/ mylist' \subseteq DOMAIN torrents')
BY SameGrows DEF TypeInv, TypeOK, world

LEMMA NotFoundWithin ==
  ASSUME TypeInv, NEW p \in Players, pc[p] \in Busy, NotFound(p)
  PROVE  Within(p)
<1>1. row[job[p].token] \in Item /\ Grown
  BY BusyHas, SameWorld DEF NotFound
<1>2. Of(row[job[p].token].tid, Len(torrents'))
  BY <1>1, HandMore
<1> QED
  BY <1>1, <1>2, SameWorld, RefuseShape DEF NotFound, Cooldowns

(* A step with the item r in hand that puts it, or its id, into the row.   *)
LEMMA ItemShape ==
  ASSUME TypeInv, NEW p \in Players, pc[p] \in Busy,
         NEW l \in {"tblive", "add", "file", "link"}, Step(p, l), Grown,
         rdlib' \subseteq Hashes, mylist' = None \/ mylist' \subseteq DOMAIN torrents',
         NEW i \in Item, Of(i.tid, Len(torrents')),
         l \in {"file", "link"} => i.tid # None, l = "link" => i.file \in Files,
         job' = [job EXCEPT ![p] = [job[p] EXCEPT !.item = i]],
         NEW r \in Item, Of(r.tid, Len(torrents')),
         row' = row \/ row' = [row EXCEPT ![job[p].token] = r]
  PROVE  Within(p)
<1> DEFINE j == [job[p] EXCEPT !.item = i]
<1>1. j \in Job /\ j.item = i /\ j.token = job[p].token /\ j.magnet = job[p].magnet
  BY BusyHas, PutItem
<1>2. Fits(l, j, Len(torrents'))
  BY <1>1, BusyHas DEF Fits, Busy
<1>3. job' = [job EXCEPT ![p] = j]
  OBVIOUS
<1> HIDE DEF j
<1> QED
  BY <1>1, <1>2, <1>3, StepShape DEF InLock, Busy

LEMMA FreshShape ==
  ASSUME TypeInv, NEW p \in Players, pc[p] \in Busy,
         NEW l \in {"rdadd", "rdswitch"}, Step(p, l), UNCHANGED world,
         NEW h \in Hashes, job' = [job EXCEPT ![p].fresh = h],
         NEW r \in Item, Of(r.tid, Len(torrents')),
         row' = [row EXCEPT ![job[p].token] = r]
  PROVE  Within(p)
<1> DEFINE j == [job[p] EXCEPT !.fresh = h]
<1>1. /\ j \in Job /\ j.item = job[p].item /\ j.token = job[p].token
      /\ j.magnet = job[p].magnet /\ j.fresh = h
  BY BusyHas, PutFresh
<1>2. Fits(l, j, Len(torrents'))
  BY <1>1, BusyHas, HandMore, SameWorld DEF Fits, Busy
<1>3. job' = [job EXCEPT ![p] = j]
  OBVIOUS
<1> HIDE DEF j
<1> QED
  BY <1>1, <1>2, <1>3, SameWorld, StepShape DEF InLock, Busy

LEMMA RdSearchWithin ==
  ASSUME TypeInv, NEW p \in Players, RdSearch(p)
  PROVE  Within(p)
<1> DEFINE t == job[p].token  item == job[p].item
<1>1. pc[p] \in Busy
  BY DEF RdSearch, InLock, Busy
<1>2. CASE NotFound(p)
  BY <1>1, <1>2, NotFoundWithin
<1>3. ASSUME NEW h \in Hashes, NEW x \in Providers,
             row' = [row EXCEPT ![t] = [Swapped(@, h) EXCEPT !.provider = x]],
             UNCHANGED world,
             \/ /\ job' = [job EXCEPT ![p].item.hash = h, ![p].item.file = None]
                /\ Step(p, "tblive")
             \/ /\ job' = [job EXCEPT ![p].fresh = h]
                /\ Step(p, "rdadd")
      PROVE  Within(p)
  <2> DEFINE r == [Swapped(row[t], h) EXCEPT !.provider = x]
             i == [item EXCEPT !.hash = h, !.file = None]
  <2>1. r \in Item /\ r.tid = None
    BY <1>1, BusyHas DEF Item, Swapped
  <2>2. row' = [row EXCEPT ![t] = r] /\ Of(r.tid, Len(torrents'))
    BY <1>3, <2>1 DEF Of
  <2>3. CASE job' = [job EXCEPT ![p].fresh = h] /\ Step(p, "rdadd")
    <3> HIDE DEF r
    <3> QED
      BY <1>1, <1>3, <2>1, <2>2, <2>3, FreshShape
  <2>4. CASE /\ job' = [job EXCEPT ![p].item.hash = h, ![p].item.file = None]
             /\ Step(p, "tblive")
    <3>1. job' = [job EXCEPT ![p] = [job[p] EXCEPT !.item = i]]
      BY <1>1, <2>4, HandsOf
    <3>2. i \in Item /\ i.tid = item.tid
      BY <1>1, BusyHas DEF Item
    <3>3. Of(i.tid, Len(torrents'))
      BY <1>1, <1>3, <3>2, SameWorld, HandMore
    <3> HIDE DEF r, i
    <3> QED
      BY <1>1, <1>3, <2>1, <2>2, <2>4, <3>1, <3>2, <3>3, SameWorld, ItemShape
  <2> QED
    BY <1>3, <2>3, <2>4
<1>4. ASSUME NEW found \in Found PROVE found[1] \in Hashes /\ found[2] \in Providers
  BY <1>4 DEF Found, Providers
<1> QED
  BY <1>2, <1>3, <1>4 DEF RdSearch

LEMMA AddToRdWithin ==
  ASSUME TypeInv, NEW p \in Players, pc[p] \in {"rdadd", "rdswitch"},
         RdAdd(p) \/ RdSwitch(p)
  PROVE  Within(p)
<1> DEFINE t == job[p].token  h == job[p].fresh
<1>1. pc[p] \in Busy /\ h \in Hashes
  BY BusyHas DEF InLock, Busy, Fits
<1>2. /\ rdlib' \subseteq Hashes /\ torrents' = torrents /\ mylist' = mylist
  BY <1>1, HandsOf DEF RdAdd, RdSwitch, AddToRd
<1>3. Grown /\ (mylist' = None \/ mylist' \subseteq DOMAIN torrents')
  BY <1>2, HandsOf, SameGrows
<1> DEFINE r == [row[t] EXCEPT !.rid = h]
<1>4. r \in Item /\ r.tid = row[t].tid
  BY <1>1, BusyHas DEF Item
<1>5. Of(r.tid, Len(torrents')) /\ Of(row[t].tid, Len(torrents')) /\ row[t] \in Item
  BY <1>1, <1>3, <1>4, HandMore, BusyHas
<1>6. \/ Serve(p, r, <<h, Picked(p, h)>>)
      \/ row' = [row EXCEPT ![t] = r] /\ job' = job /\ Step(p, "tblive")
      \/ row' = [row EXCEPT ![t] = r] /\ Refuse(p, "none")
      \/ row' = row /\ (Refuse(p, "30s") \/ Refuse(p, "120s"))
  BY DEF RdAdd, RdSwitch, AddToRd
<1>7. <<h, Picked(p, h)>> \in Url
  BY <1>1, BusyHas, CatboxNames DEF Picked, FileOf, Url, Files
<1>8. Fits("tblive", job[p], Len(torrents')) /\ job[p] \in Job
  BY <1>1, <1>3, BusyHas, HandMore DEF Fits, Busy
<1> HIDE DEF r, h
<1>9. CASE Serve(p, r, <<h, Picked(p, h)>>)
  BY <1>1, <1>2, <1>3, <1>4, <1>5, <1>7, <1>9, ServeShape
<1>10. CASE row' = [row EXCEPT ![t] = r] /\ job' = job /\ Step(p, "tblive")
  BY <1>1, <1>2, <1>3, <1>4, <1>5, <1>8, <1>10, StepShape DEF InLock, Busy
<1>11. CASE /\ row' = [row EXCEPT ![t] = r] \/ row' = row
            /\ Refuse(p, "none") \/ Refuse(p, "30s") \/ Refuse(p, "120s")
  BY <1>1, <1>2, <1>3, <1>4, <1>5, <1>11, RefuseShape DEF Cooldowns
<1> QED
  BY <1>6, <1>9, <1>10, <1>11

LEMMA ListWorld ==
  ASSUME TypeInv, List
  PROVE  /\ Grown /\ torrents' = torrents /\ (mylist' = None \/ mylist' \subseteq DOMAIN torrents')
         /\ \A h : WithHash(mylist', h) \subseteq DOMAIN torrents'
<1>1. torrents' = torrents /\ mylist' \in IF mylist = None THEN {Ready, {}} ELSE {mylist}
  BY DEF List
<1>2. Ready \subseteq DOMAIN torrents
  BY DEF Ready
<1>3. mylist' \subseteq DOMAIN torrents
  BY <1>1, <1>2 DEF TypeInv, TypeOK
<1>4. \A h : WithHash(mylist', h) \subseteq DOMAIN torrents
  BY <1>3 DEF WithHash
<1>5. Grown
  BY <1>1, SameGrows DEF TypeInv, TypeOK
<1> QED
  BY <1>1, <1>3, <1>4, <1>5

(* The row and the item in hand take the id of a torrent.                  *)
LEMMA TakesId ==
  ASSUME TypeInv, NEW p \in Players, pc[p] \in Busy, Step(p, "file"), Grown,
         NEW i \in DOMAIN torrents',
         rdlib' \subseteq Hashes, mylist' = None \/ mylist' \subseteq DOMAIN torrents',
         row' = [row EXCEPT ![job[p].token].tid = i],
         job' = [job EXCEPT ![p].item.tid = i]
  PROVE  Within(p)
<1> DEFINE t == job[p].token
           r == [row[t] EXCEPT !.tid = i]
           k == [job[p].item EXCEPT !.tid = i]
<1>1. i \in 1 .. Len(torrents') /\ i \in Ids /\ i # None
  BY CatboxBounds, CatboxNames DEF Grown, Ids
<1>2. r \in Item /\ r.tid = i /\ k \in Item /\ k.tid = i
  BY <1>1, BusyHas DEF Item
<1>3. row' = [row EXCEPT ![t] = r] /\ job' = [job EXCEPT ![p] = [job[p] EXCEPT !.item = k]]
  BY HandsOf
<1>4. Of(r.tid, Len(torrents')) /\ Of(k.tid, Len(torrents')) /\ k.tid # None
  BY <1>1, <1>2 DEF Of
<1> HIDE DEF r, k
<1> QED
  BY <1>2, <1>3, <1>4, ItemShape

(* The item in hand and the row stay as they are.                          *)
LEMMA StaysWithin ==
  ASSUME TypeInv, NEW p \in Players, pc[p] \in Busy, Grown, row' = row,
         rdlib' \subseteq Hashes, mylist' = None \/ mylist' \subseteq DOMAIN torrents',
         NEW l \in {"readd", "known", "search"}, NEW c \in Cooldowns,
         (Step(p, l) /\ job' = job) \/ Refuse(p, c)
  PROVE  Within(p)
<1>1. /\ job[p] \in Job /\ row[job[p].token] \in Item
      /\ Of(row[job[p].token].tid, Len(torrents')) /\ Fits(l, job[p], Len(torrents'))
  BY BusyHas, HandMore DEF Fits, Busy
<1>2. CASE Step(p, l) /\ job' = job
  BY <1>1, <1>2, StepShape DEF InLock, Busy
<1>3. CASE Refuse(p, c)
  BY <1>1, <1>3, RefuseShape
<1> QED
  BY <1>2, <1>3

LEMMA TbLiveWithin ==
  ASSUME TypeInv, NEW p \in Players, TbLive(p)
  PROVE  Within(p) \/ (UNCHANGED <<row, cache, cool, world, gc, upgrader, preload>> /\ Leave(p))
<1> DEFINE t == job[p].token  item == job[p].item
<1>1. pc[p] \in Busy /\ rdlib' \subseteq Hashes
  BY HandsOf DEF TbLive, InLock, Busy
<1>2. CASE Live(item.tid) /\ Step(p, "file") /\ UNCHANGED <<row, job, torrents, mylist>>
  <2>1. Grown /\ (mylist' = None \/ mylist' \subseteq DOMAIN torrents')
    BY <1>2, HandsOf, SameGrows
  <2>2. item.tid # None
    BY <1>2 DEF Live, Present
  <2>3. Fits("file", job[p], Len(torrents')) /\ job[p] \in Job
    BY <1>1, <2>1, <2>2, BusyHas, HandMore DEF Fits, Busy
  <2>4. row[t] \in Item /\ Of(row[t].tid, Len(torrents'))
    BY <1>1, <2>1, BusyHas, HandMore
  <2> QED
    BY <1>1, <1>2, <2>1, <2>3, <2>4, StepShape DEF InLock, Busy
<1>3. ASSUME NEW i \in WithHash(mylist', item.hash), List, Step(p, "file"),
             row' = [row EXCEPT ![t].tid = i], job' = [job EXCEPT ![p].item.tid = i]
      PROVE  Within(p)
  <2>1. i \in DOMAIN torrents'
    BY <1>3, ListWorld
  <2> QED
    BY <1>1, <1>3, <2>1, ListWorld, TakesId
<1>4. CASE List /\ ((Step(p, "readd") /\ UNCHANGED job) \/ Refuse(p, "none")) /\ UNCHANGED row
  BY <1>1, <1>4, ListWorld, StaysWithin DEF Cooldowns
<1> QED
  BY <1>2, <1>3, <1>4, Zenon DEF TbLive, world

LEMMA AddWithin ==
  ASSUME TypeInv, NEW p \in Players, Readd(p) \/ Add(p)
  PROVE  Within(p)
<1>1. pc[p] \in Busy /\ rdlib' \subseteq Hashes
  BY HandsOf DEF Readd, Add, InLock, Busy
<1> DEFINE trouble == /\ row' = row
                      /\ \/ Refuse(p, "30s") \/ Refuse(p, "120s")
                         \/ Step(p, "known") /\ job' = job
           use(i) == /\ row' = [row EXCEPT ![job[p].token].tid = i]
                     /\ job' = [job EXCEPT ![p].item.tid = i]
                     /\ Step(p, "file")
<1>2. \/ \E i \in Ids, h \in Hashes : AddTorrent(h, i) /\ (use(i) \/ trouble)
      \/ trouble /\ torrents' = torrents /\ mylist' = mylist
  <2>1. job[p].magnet \in Hashes /\ job[p].item.hash \in Hashes
    BY <1>1, BusyHas DEF Item
  <2> QED
    BY <2>1 DEF Readd, Add
<1>3. ASSUME trouble, Grown, mylist' = None \/ mylist' \subseteq DOMAIN torrents'
      PROVE  Within(p)
  BY <1>1, <1>3, StaysWithin DEF Cooldowns
<1>4. ASSUME NEW i \in Ids, NEW h \in Hashes, AddTorrent(h, i), use(i)
      PROVE  Within(p)
  <2>1. Grown /\ i \in DOMAIN torrents' /\ mylist' = None
    BY <1>4, HandsOf, AddGrows
  <2> QED
    BY <1>1, <1>4, <2>1, TakesId
<1>5. ASSUME NEW i \in Ids, NEW h \in Hashes, AddTorrent(h, i), trouble
      PROVE  Within(p)
  <2>1. Grown /\ mylist' = None
    BY <1>5, HandsOf, AddGrows
  <2> QED
    BY <1>3, <1>5, <2>1
<1>6. CASE trouble /\ torrents' = torrents /\ mylist' = mylist
  BY <1>3, <1>6, HandsOf, SameGrows
<1> HIDE DEF trouble, use
<1> QED
  BY <1>2, <1>4, <1>5, <1>6

LEMMA KnownWithin ==
  ASSUME TypeInv, NEW p \in Players, Known(p)
  PROVE  Within(p)
<1> DEFINE t == job[p].token
           h == job[p].magnet
           switched == [row[t] EXCEPT !.provider = "realdebrid"]
           kept == [switched EXCEPT !.rid = h]
<1>1. pc[p] \in Busy /\ h \in Hashes /\ t \in Tokens
  BY BusyHas DEF Known, InLock, Busy
<1>2. /\ torrents' = torrents /\ mylist' = mylist /\ rdlib' \subseteq Hashes
  BY <1>1, HandsOf DEF Known
<1>3. Grown /\ (mylist' = None \/ mylist' \subseteq DOMAIN torrents')
  BY <1>2, HandsOf, SameGrows
<1>4. /\ switched \in Item /\ switched.tid = row[t].tid
      /\ kept \in Item /\ kept.tid = row[t].tid
  BY <1>1, BusyHas DEF Item, Providers
<1>5. /\ Of(switched.tid, Len(torrents')) /\ Of(kept.tid, Len(torrents'))
      /\ row[t] \in Item /\ Of(row[t].tid, Len(torrents'))
  BY <1>1, <1>3, <1>4, HandMore, BusyHas
<1>6. <<h, Picked(p, h)>> \in Url
  BY <1>1, CatboxNames DEF Picked, FileOf, Url, Files
<1>7. Fits("search", job[p], Len(torrents')) /\ job[p] \in Job
  BY <1>1, <1>3, BusyHas, HandMore DEF Fits, Busy
<1>8. \/ Step(p, "search") /\ row' = row /\ job' = job
      \/ Serve(p, kept, <<h, Picked(p, h)>>)
      \/ /\ row' = [row EXCEPT ![t] = switched] \/ row' = [row EXCEPT ![t] = kept]
         /\ Refuse(p, "30s")
      \/ row' = [row EXCEPT ![t] = switched] /\ Step(p, "search") /\ job' = job
  BY DEF Known
<1> HIDE DEF switched, kept, h
<1>9. CASE Step(p, "search") /\ job' = job /\ (row' = row \/ row' = [row EXCEPT ![t] = switched])
  BY <1>1, <1>2, <1>3, <1>4, <1>5, <1>7, <1>9, StepShape DEF InLock, Busy
<1>10. CASE Serve(p, kept, <<h, Picked(p, h)>>)
  BY <1>1, <1>2, <1>3, <1>4, <1>5, <1>6, <1>10, ServeShape
<1>11. CASE row' = [row EXCEPT ![t] = switched] /\ Refuse(p, "30s")
  BY <1>1, <1>2, <1>3, <1>4, <1>5, <1>11, RefuseShape DEF Cooldowns
<1>12. CASE row' = [row EXCEPT ![t] = kept] /\ Refuse(p, "30s")
  BY <1>1, <1>2, <1>3, <1>4, <1>5, <1>12, RefuseShape DEF Cooldowns
<1> QED
  BY <1>8, <1>9, <1>10, <1>11, <1>12

LEMMA SearchWithin ==
  ASSUME TypeInv, NEW p \in Players, Search(p)
  PROVE  Within(p)
<1> DEFINE t == job[p].token  item == job[p].item
<1>1. pc[p] \in Busy
  BY DEF Search, InLock, Busy
<1>2. CASE NotFound(p)
  BY <1>1, <1>2, NotFoundWithin
<1>3. ASSUME NEW h \in Hashes, Step(p, "add"), UNCHANGED world,
             LET r == IF h = item.hash THEN row[t] ELSE Swapped(row[t], h)
             IN  row' = [row EXCEPT ![t] = [r EXCEPT !.provider = "torbox"]],
             job' = [job EXCEPT ![p].item.hash = h,
                                ![p].item.file = IF h = item.hash THEN @ ELSE None]
      PROVE  Within(p)
  <2> DEFINE s == IF h = item.hash THEN row[t] ELSE Swapped(row[t], h)
             r == [s EXCEPT !.provider = "torbox"]
             i == [item EXCEPT !.hash = h, !.file = IF h = item.hash THEN item.file ELSE None]
  <2>1. s \in Item /\ (s.tid = row[t].tid \/ s.tid = None)
    BY <1>1, BusyHas DEF Item, Swapped
  <2>2. r \in Item /\ r.tid = s.tid
    BY <2>1 DEF Item, Providers
  <2>3. i \in Item /\ i.tid = item.tid
    BY <1>1, BusyHas DEF Item
  <2>4. row' = [row EXCEPT ![t] = r]
    BY <1>3
  <2>5. job' = [job EXCEPT ![p] = [job[p] EXCEPT !.item = i]]
    BY <1>1, <1>3, BusyHas, HandsOf DEF Job, Item
  <2>6. Of(r.tid, Len(torrents')) /\ Of(i.tid, Len(torrents'))
    BY <1>1, <1>3, <2>1, <2>2, <2>3, SameWorld, HandMore DEF Of
  <2> HIDE DEF r, i, s
  <2> QED
    BY <1>1, <1>3, <2>2, <2>3, <2>4, <2>5, <2>6, SameWorld, ItemShape
<1>4. ASSUME NEW h \in Hashes, Step(p, "rdswitch"), UNCHANGED world,
             row' = [row EXCEPT ![t] = [Swapped(@, h) EXCEPT !.provider = "realdebrid"]],
             job' = [job EXCEPT ![p].fresh = h]
      PROVE  Within(p)
  <2> DEFINE r == [Swapped(row[t], h) EXCEPT !.provider = "realdebrid"]
  <2>1. r \in Item /\ Of(r.tid, Len(torrents'))
    BY <1>1, BusyHas DEF Item, Swapped, Of, Providers
  <2>2. row' = [row EXCEPT ![t] = r]
    BY <1>4
  <2> HIDE DEF r
  <2> QED
    BY <1>1, <1>4, <2>1, <2>2, FreshShape
<1> QED
  BY <1>2, <1>3, <1>4 DEF Search

LEMMA HashOfTorrent ==
  ASSUME TypeInv, NEW i, Of(i, Len(torrents)), i # None
  PROVE  i \in DOMAIN torrents /\ torrents[i].hash \in Hashes
<1>1. i \in DOMAIN torrents /\ torrents \in Seq(Torrent)
  BY DEF Of, TypeInv, TypeOK
<1>2. torrents[i] \in Torrent
  BY <1>1
<1> QED
  BY <1>1, <1>2 DEF Torrent

LEMMA FileWithin ==
  ASSUME TypeInv, NEW p \in Players, File(p)
  PROVE  Within(p)
<1> DEFINE t == job[p].token  item == job[p].item
<1>1. pc[p] \in Busy /\ t \in Tokens /\ item \in Item /\ item.tid # None
  BY BusyHas DEF File, PickFile, InLock, Busy, Fits, Busy
<1>2. UNCHANGED world
  BY DEF File, PickFile
<1>3. torrents[item.tid].hash \in Hashes
  BY <1>1, BusyHas, HashOfTorrent DEF Fits, Busy
<1>4. row[t] \in Item /\ Of(row[t].tid, Len(torrents')) /\ Of(item.tid, Len(torrents'))
  BY <1>1, <1>2, BusyHas, HandMore, SameWorld
<1>5. CASE item.file # None /\ Step(p, "link") /\ row' = row /\ job' = job
  <2>1. Fits("link", job[p], Len(torrents')) /\ job[p] \in Job
    BY <1>1, <1>4, <1>5, BusyHas DEF Fits, Busy, Item
  <2> QED
    BY <1>1, <1>2, <1>4, <1>5, <2>1, SameWorld, StepShape DEF InLock, Busy
<1>6. ASSUME NEW f \in Files, Step(p, "link"),
             row' = row \/ row' = [row EXCEPT ![t].file = f],
             job' = [job EXCEPT ![p].item.file = f]
      PROVE  Within(p)
  <2> DEFINE r == [row[t] EXCEPT !.file = f]
             i == [item EXCEPT !.file = f]
  <2>1. r \in Item /\ r.tid = row[t].tid /\ i \in Item /\ i.tid = item.tid /\ i.file = f
    BY <1>1, <1>4 DEF Item
  <2>2. /\ row' = row \/ row' = [row EXCEPT ![t] = r]
        /\ job' = [job EXCEPT ![p] = [job[p] EXCEPT !.item = i]]
    BY <1>6, HandsOf
  <2> HIDE DEF r, i
  <2> QED
    BY <1>1, <1>2, <1>4, <1>6, <2>1, <2>2, SameWorld, ItemShape
<1>7. CASE Refuse(p, "30s") /\ row' = row
  BY <1>1, <1>2, <1>4, <1>7, SameWorld, RefuseShape DEF Cooldowns
<1>8. /\ [h \in Hashes |-> Picked(p, h)][torrents[item.tid].hash] \in Files
      /\ <<torrents[item.tid].hash, Largest[torrents[item.tid].hash]>> \in Files
  BY <1>1, <1>3, CatboxNames DEF Files, Picked, FileOf
<1> QED
  BY <1>5, <1>6, <1>7, <1>8 DEF File, PickFile

LEMMA LinkWithin ==
  ASSUME TypeInv, NEW p \in Players, Link(p)
  PROVE  Within(p)
<1> DEFINE t == job[p].token  item == job[p].item
<1>1. pc[p] \in Busy /\ UNCHANGED world /\ item.tid # None /\ item.file \in Files
  BY BusyHas DEF Link, InLock, Busy, Fits, Busy
<1>2. torrents[item.tid].hash \in Hashes
  BY <1>1, BusyHas, HashOfTorrent DEF Fits, Busy
<1>3. row[t] \in Item /\ Of(row[t].tid, Len(torrents'))
  BY <1>1, BusyHas, HandMore, SameWorld
<1>4. <<torrents[item.tid].hash, item.file>> \in Url
  BY <1>1, <1>2 DEF Url
<1>5. \/ Serve(p, row[t], <<torrents[item.tid].hash, item.file>>)
      \/ Refuse(p, "none") /\ row' = row
  BY DEF Link
<1> QED
  BY <1>1, <1>3, <1>4, <1>5, SameWorld, ServeShape, RefuseShape DEF Cooldowns

LEMMA ResolveWithin ==
  ASSUME TypeInv, NEW p \in Players, Resolve(p)
  PROVE  Within(p) \/ (UNCHANGED <<row, cache, cool, world, gc, upgrader, preload>> /\ Leave(p))
<1>1. CASE RdAdd(p) \/ RdSwitch(p)
  BY <1>1, AddToRdWithin DEF RdAdd, RdSwitch
<1> QED
  BY <1>1, RdLiveWithin, RdSearchWithin, TbLiveWithin, AddWithin, KnownWithin, SearchWithin,
     FileWithin, LinkWithin DEF Resolve
-----------------------------------------------------------------------------
(* Type correctness.                                                       *)
LEMMA OtherHand ==
  ASSUME TypeInv, Grown, NEW q \in Players, pc'[q] = pc[q], job'[q] = job[q]
  PROVE  InHand(q)'
BY HandsOf, OfMore DEF InHand, Fits

(* The parts a step can disturb, and what they keep when it leaves them.   *)
ThreadsTyped == /\ pc \in [Players -> Places] /\ job \in [Players -> Job]
                /\ \A q \in Players : InHand(q)
RowsTyped == /\ row \in [Tokens -> Item]
             /\ \A t \in Tokens : Of(row[t].tid, Len(torrents))
TablesTyped == /\ cache \in [Tokens -> Url \cup {None}]
               /\ cool \in [Tokens -> Cooldowns]
               /\ held \in [Tokens -> Players \cup {None}]
WorldTyped == /\ torrents \in Seq(Torrent) /\ Len(torrents) <= MaxTorrents
              /\ rdlib \subseteq Hashes
              /\ mylist = None \/ mylist \subseteq DOMAIN torrents
ReleaseTyped == /\ glist \subseteq Tokens \X Ids /\ gitem \in (Tokens \X Ids) \cup {None}
                /\ releases \in 0 .. MaxReleases
                /\ \A pair \in glist : pair[2] <= Len(torrents)
                /\ gitem # None => gitem[2] <= Len(torrents)
RestTyped == /\ upgraded \in Tokens \cup {None} /\ upgrades \in 0 .. MaxUpgrades
             /\ preload \in [Hashes -> {"none", "run", "link"}]

LEMMA TypeParts ==
  TypeInv <=> /\ ThreadsTyped /\ RowsTyped /\ TablesTyped
              /\ WorldTyped /\ ReleaseTyped /\ RestTyped
BY DEF TypeInv, TypeOK, ThreadsTyped, RowsTyped, TablesTyped, WorldTyped, ReleaseTyped,
   RestTyped, Places

LEMMA NextParts ==
  ASSUME ThreadsTyped', RowsTyped', TablesTyped', WorldTyped', ReleaseTyped', RestTyped'
  PROVE  TypeInv'
BY DEF TypeInv, TypeOK, ThreadsTyped, RowsTyped, TablesTyped, WorldTyped, ReleaseTyped,
   RestTyped, Places

LEMMA ThreadsStay == ASSUME TypeInv, Grown, pc' = pc, job' = job PROVE ThreadsTyped'
<1>1. \A q \in Players : InHand(q)'
  BY OtherHand
<1> QED
  BY <1>1, TypeParts DEF ThreadsTyped

LEMMA RowsStay == ASSUME TypeInv, Grown, row' = row PROVE RowsTyped'
BY OfMore, TypeParts DEF RowsTyped, WorldTyped

LEMMA RowPut ==
  ASSUME TypeInv, Grown, NEW t \in Tokens, NEW r \in Item, Of(r.tid, Len(torrents)),
         row' = [row EXCEPT ![t] = r]
  PROVE  RowsTyped'
<1>1. \A x \in Tokens : row'[x] \in Item /\ Of(row'[x].tid, Len(torrents))
  BY TypeParts DEF RowsTyped
<1> QED
  BY <1>1, OfMore, TypeParts DEF RowsTyped, WorldTyped

LEMMA ReleaseStays == ASSUME TypeInv, Grown, UNCHANGED gc PROVE ReleaseTyped'
<1>1. Len(torrents) \in Nat /\ Len(torrents') \in Nat /\ Len(torrents) <= Len(torrents')
  BY TypeParts DEF WorldTyped, Grown
<1>2. \A pair \in glist : pair[2] \in Nat
  BY TypeParts DEF ReleaseTyped, Ids
<1>3. gitem # None => gitem[2] \in Nat
  BY TypeParts DEF ReleaseTyped, Ids
<1> QED
  BY <1>1, <1>2, <1>3, TypeParts DEF ReleaseTyped, gc

(* A thread that goes to l with j.                                         *)
LEMMA ThreadPut ==
  ASSUME TypeInv, Grown, NEW p \in Players, NEW l \in Places, NEW j \in Job,
         Fits(l, j, Len(torrents')), pc' = [pc EXCEPT ![p] = l], job' = [job EXCEPT ![p] = j]
  PROVE  ThreadsTyped'
<1>1. /\ pc' \in [Players -> Places] /\ job' \in [Players -> Job]
      /\ pc'[p] = l /\ job'[p] = j
      /\ \A q \in Players \ {p} : pc'[q] = pc[q] /\ job'[q] = job[q]
  BY TypeParts DEF ThreadsTyped
<1>2. \A q \in Players \ {p} : InHand(q)'
  BY <1>1, OtherHand
<1>3. InHand(p)'
  BY <1>1 DEF InHand
<1> QED
  BY <1>1, <1>2, <1>3 DEF ThreadsTyped

LEMMA NoJobFits == NoJob \in Job /\ \A n : Fits("idle", NoJob, n)
BY DEF NoJob, Job, Fits, InLock, Busy

LEMMA WithinTypes ==
  ASSUME TypeInv, NEW p \in Players, pc[p] \in InLock, Within(p)
  PROVE  TypeInv'
<1>1. Grown /\ ReleaseTyped'
  BY ReleaseStays DEF Within
<1>2. \A q \in Players : InHand(q)'
  BY <1>1, OtherHand DEF Within
<1>3. ThreadsTyped' /\ RowsTyped'
  BY <1>2 DEF Within, ThreadsTyped, RowsTyped
<1>4. TablesTyped'
  BY TypeParts, InLockHas DEF Within, TablesTyped
<1>5. WorldTyped' /\ RestTyped'
  BY TypeParts DEF Within, Grown, WorldTyped, RestTyped, upgrader
<1> QED
  BY <1>1, <1>3, <1>4, <1>5, NextParts

LEMMA LeaveTypes ==
  ASSUME TypeInv, NEW p \in Players, pc[p] \in InLock, Leave(p),
         row' = row, cache' \in [Tokens -> Url \cup {None}], cool' \in [Tokens -> Cooldowns],
         UNCHANGED <<world, gc, upgrader>>, preload' \in [Hashes -> {"none", "run", "link"}]
  PROVE  TypeInv'
<1>1. Grown /\ WorldTyped'
  BY SameWorld, TypeParts DEF world, WorldTyped
<1>2. ThreadsTyped'
  BY <1>1, NoJobFits, ThreadPut DEF Leave, Goto, Places
<1>3. TablesTyped'
  BY TypeParts DEF Leave, TablesTyped
<1>4. RowsTyped' /\ ReleaseTyped' /\ RestTyped'
  BY <1>1, RowsStay, ReleaseStays, TypeParts DEF RestTyped, upgrader
<1> QED
  BY <1>1, <1>2, <1>3, <1>4, NextParts

LEMMA AnswerTypes ==
  ASSUME TypeInv, NEW p \in Players, job[p].token \in Tokens, Answer(p)
  PROVE  TypeInv'
<1> DEFINE t == job[p].token
           r == [row[t] EXCEPT !.idle = @ /\ cache[t] = None]
<1>1. Grown /\ WorldTyped' /\ ReleaseTyped' /\ RestTyped'
  BY SameWorld, ReleaseStays, TypeParts DEF Answer, world, WorldTyped, RestTyped, upgrader
<1>2. ThreadsTyped'
  BY <1>1, NoJobFits, ThreadPut DEF Answer, Goto, Places
<1>3. TablesTyped'
  BY TypeParts DEF Answer, TablesTyped
<1>4. r \in Item /\ r.tid = row[t].tid
  BY TypeParts DEF RowsTyped, Item
<1>5. row' = [row EXCEPT ![t] = r]
  BY DEF Answer
<1>6. RowsTyped'
  <2> HIDE DEF r
  <2> QED
    BY <1>1, <1>4, <1>5, RowPut, TypeParts DEF RowsTyped
<1> QED
  BY <1>1, <1>2, <1>3, <1>6, NextParts

(* Asking, and the look under the lock.                                    *)
LEMMA AskTypes ==
  ASSUME TypeInv, NEW p \in Players, NEW t \in Tokens,
         Play(p, t) \/ ReResolve(p, t)
  PROVE  TypeInv'
<1>1. Grown /\ WorldTyped' /\ ReleaseTyped' /\ RestTyped' /\ RowsTyped'
  BY SameWorld, ReleaseStays, RowsStay, TypeParts
  DEF Play, ReResolve, world, WorldTyped, RestTyped, upgrader
<1>2. PICK b \in BOOLEAN : job' = [job EXCEPT ![p] = [NoJob EXCEPT !.token = t, !.readd = b]]
  BY DEF Play, ReResolve
<1>3. /\ [NoJob EXCEPT !.token = t, !.readd = b] \in Job
      /\ [NoJob EXCEPT !.token = t, !.readd = b].token = t
  BY DEF NoJob, Job
<1>4. Fits("ask", [NoJob EXCEPT !.token = t, !.readd = b], Len(torrents'))
  BY <1>3 DEF Fits, InLock, Busy
<1>5. pc' = [pc EXCEPT ![p] = "ask"]
  BY DEF Play, ReResolve, Goto
<1>6. ThreadsTyped'
  BY <1>1, <1>2, <1>3, <1>4, <1>5, ThreadPut DEF Places
<1>7. TablesTyped'
  BY TypeParts DEF Play, ReResolve, TablesTyped, Cooldowns
<1> QED
  BY <1>1, <1>6, <1>7, NextParts

LEMMA LockTypes ==
  ASSUME TypeInv, NEW p \in Players, Ask(p) \/ Lock(p)
  PROVE  TypeInv'
<1> DEFINE t == job[p].token
<1>1. t \in Tokens /\ job[p] \in Job
  BY HandsOf DEF Ask, Lock, InHand, Fits
<1>2. CASE Answer(p)
  BY <1>1, <1>2, AnswerTypes
<1>3. CASE /\ Goto(p, "lock")
           /\ UNCHANGED <<row, cache, cool, held, job, world, gc, upgrader, preload>>
  <2>1. Grown /\ WorldTyped' /\ ReleaseTyped' /\ RestTyped' /\ RowsTyped'
    BY <1>3, SameWorld, ReleaseStays, RowsStay, TypeParts
    DEF world, WorldTyped, RestTyped, upgrader
  <2>2. Fits("lock", job[p], Len(torrents')) /\ job' = [job EXCEPT ![p] = job[p]]
    BY <1>1, <1>3, HandsOf DEF Fits, InLock, Busy
  <2>3. ThreadsTyped' /\ TablesTyped'
    BY <1>1, <1>3, <2>1, <2>2, ThreadPut, TypeParts DEF Goto, Places, TablesTyped
  <2> QED
    BY <2>1, <2>3, NextParts
<1>4. CASE Take(p)
  <2> DEFINE i == [row[t] EXCEPT !.idle = FALSE]
             j == [job[p] EXCEPT !.item = i, !.magnet = row[t].hash]
             l == IF row[t].provider = "realdebrid" THEN "rdlive" ELSE "tblive"
  <2>1. Grown /\ WorldTyped' /\ ReleaseTyped' /\ RestTyped' /\ RowsTyped'
    BY <1>4, SameWorld, ReleaseStays, RowsStay, TypeParts
    DEF Take, world, WorldTyped, RestTyped, upgrader
  <2>2. i \in Item /\ i.tid = row[t].tid /\ row[t].hash \in Hashes
    BY <1>1, TypeParts DEF RowsTyped, Item
  <2>3. j \in Job /\ j.item = i /\ j.magnet = row[t].hash /\ j.token = t
    <3> HIDE DEF i
    <3> QED
      BY <1>1, <2>2 DEF Job
  <2>4. Of(i.tid, Len(torrents'))
    BY <1>1, <2>1, <2>2, OfMore, TypeParts DEF RowsTyped, WorldTyped
  <2>5. l \in {"rdlive", "tblive"} /\ pc' = [pc EXCEPT ![p] = l]
    BY <1>4 DEF Take, Goto
  <2>6. job' = [job EXCEPT ![p] = j]
    BY <1>4, HandsOf DEF Take
  <2>7. TablesTyped'
    BY <1>1, <1>4, TypeParts DEF Take, TablesTyped
  <2> HIDE DEF i, j, l
  <2>8. Fits(l, j, Len(torrents'))
    BY <1>1, <2>2, <2>3, <2>4, <2>5 DEF Fits
  <2> QED
    BY <2>1, <2>3, <2>5, <2>6, <2>7, <2>8, ThreadPut, NextParts DEF Places, InLock
<1> QED
  BY <1>2, <1>3, <1>4 DEF Ask, Lock

LEMMA EndTypes ==
  ASSUME TypeInv, NEW p \in Players, Keep(p) \/ Cool(p)
  PROVE  TypeInv'
<1>1. pc[p] \in InLock
  BY DEF Keep, Cool, InLock
<1>2. CASE Keep(p)
  <2>1. job[p].url \in Url /\ job[p].token \in Tokens
    BY <1>1, <1>2, InLockHas DEF Keep, Fits
  <2>2. cache' \in [Tokens -> Url \cup {None}] /\ cool' \in [Tokens -> Cooldowns]
    BY <1>2, <2>1, TypeParts DEF Keep, TablesTyped
  <2>3. preload' \in [Hashes -> {"none", "run", "link"}]
    BY <1>2, TypeParts DEF Keep, RestTyped
  <2> QED
    BY <1>1, <1>2, <2>2, <2>3, LeaveTypes DEF Keep
<1>3. CASE Cool(p)
  <2>1. cache' \in [Tokens -> Url \cup {None}] /\ cool' \in [Tokens -> Cooldowns]
    BY <1>3, TypeParts DEF Cool, TablesTyped, Cooldowns
  <2> QED
    BY <1>1, <1>3, <2>1, LeaveTypes, TypeParts DEF Cool, RestTyped
<1> QED
  BY <1>2, <1>3

(* The preload, the idle release, the upgrader, the clocks and services.   *)
LEMMA ListGrows ==
  ASSUME TypeInv, List
  PROVE  Grown /\ (mylist' = None \/ mylist' \subseteq DOMAIN torrents')
BY HandsOf, SameGrows, TypeParts DEF List, Ready, WorldTyped

LEMMA OutsideTypes ==
  ASSUME TypeInv, Grown, pc' = pc, job' = job, held' = held,
         RowsTyped', cache' \in [Tokens -> Url \cup {None}], cool' \in [Tokens -> Cooldowns],
         rdlib' \subseteq Hashes, mylist' = None \/ mylist' \subseteq DOMAIN torrents',
         ReleaseTyped', RestTyped'
  PROVE  TypeInv'
<1>1. TablesTyped' /\ WorldTyped'
  BY TypeParts DEF TablesTyped, WorldTyped, Grown
<1> QED
  BY <1>1, ThreadsStay, NextParts

LEMMA PreloadTypes ==
  ASSUME TypeInv, PreloadStep
  PROVE  TypeInv'
<1>1. PICK h \in Hashes : PreloadAdd(h) \/ PreloadLink(h)
  BY DEF PreloadStep
<1>2. CASE PreloadAdd(h)
  <2>1. Grown /\ (mylist' = None \/ mylist' \subseteq DOMAIN torrents')
    <3>1. \/ List
          \/ \E i \in Ids : AddTorrent(h, i)
          \/ UNCHANGED <<torrents, mylist>>
      BY <1>2 DEF PreloadAdd
    <3>2. torrents \in Seq(Torrent) /\ Len(torrents) <= MaxTorrents
      BY TypeParts DEF WorldTyped
    <3>3. CASE \E i \in Ids : AddTorrent(h, i)
      BY <3>2, <3>3, AddGrows
    <3>4. CASE UNCHANGED <<torrents, mylist>>
      BY <3>2, <3>4, SameGrows, TypeParts DEF WorldTyped
    <3> QED
      BY <3>1, <3>3, <3>4, ListGrows
  <2>2. preload' \in [Hashes -> {"none", "run", "link"}]
    BY <1>2, TypeParts DEF PreloadAdd, RestTyped
  <2>3. /\ pc' = pc /\ job' = job /\ held' = held /\ cache' = cache /\ cool' = cool
        /\ row' = row /\ rdlib' = rdlib /\ UNCHANGED gc /\ UNCHANGED upgrader
    BY <1>2 DEF PreloadAdd, player
  <2>4. RowsTyped' /\ ReleaseTyped' /\ RestTyped'
    BY <2>1, <2>2, <2>3, RowsStay, ReleaseStays, TypeParts DEF RestTyped, upgrader
  <2> QED
    BY <2>1, <2>3, <2>4, OutsideTypes, TypeParts DEF TablesTyped, WorldTyped
<1>3. CASE PreloadLink(h)
  <2>1. Grown /\ rdlib' \subseteq Hashes /\ (mylist' = None \/ mylist' \subseteq DOMAIN torrents')
    BY <1>3, SameWorld DEF PreloadLink
  <2>2. cache' \in [Tokens -> Url \cup {None}]
    <3>1. <<h, <<h, Largest[h]>>>> \in Url
      BY CatboxNames DEF Url, Files
    <3> QED
      BY <1>3, <3>1, TypeParts DEF PreloadLink, TablesTyped
  <2>3. RowsTyped' /\ ReleaseTyped' /\ RestTyped'
    BY <1>3, <2>1, RowsStay, ReleaseStays, TypeParts DEF PreloadLink, RestTyped, upgrader
  <2> QED
    BY <1>3, <2>1, <2>2, <2>3, OutsideTypes, TypeParts DEF PreloadLink, TablesTyped
<1> QED
  BY <1>1, <1>2, <1>3

LEMMA ReleaseTypes ==
  ASSUME TypeInv, ReleaseStep
  PROVE  TypeInv'
<1>1. CASE ReleaseStart
  <2>1. Grown /\ rdlib' \subseteq Hashes /\ (mylist' = None \/ mylist' \subseteq DOMAIN torrents')
    BY <1>1, SameWorld DEF ReleaseStart
  <2>2. \A pair \in IdleRows : /\ pair \in Tokens \X Ids
                               /\ pair[2] <= Len(torrents)
    BY HandsOf, TypeParts DEF IdleRows, RowsTyped, WorldTyped, Of, Item
  <2>3. ReleaseTyped'
    BY <1>1, <2>2, TypeParts, CatboxBounds DEF ReleaseStart, ReleaseTyped, world
  <2>4. RowsTyped' /\ RestTyped'
    BY <1>1, <2>1, RowsStay, TypeParts DEF ReleaseStart, RestTyped, upgrader
  <2> QED
    BY <1>1, <2>1, <2>3, <2>4, OutsideTypes, TypeParts DEF ReleaseStart, TablesTyped, player
<1>2. CASE ReleaseDelete
  <2>1. PICK item \in glist :
          /\ glist' = glist \ {item} /\ gitem' \in {gitem, item}
          /\ \/ /\ torrents' = [torrents EXCEPT ![item[2]].state = "gone"]
                /\ mylist' = None
             \/ UNCHANGED <<torrents, mylist>>
    BY <1>2 DEF ReleaseDelete
  <2>2. item \in Tokens \X Ids /\ item[2] \in DOMAIN torrents
    <3>1. item \in Tokens \X Ids /\ item[2] <= Len(torrents) /\ Len(torrents) \in Nat
      BY TypeParts DEF ReleaseTyped, WorldTyped
    <3>2. DOMAIN torrents = 1 .. Len(torrents)
      BY TypeParts DEF WorldTyped
    <3> QED
      BY <3>1, <3>2, CatboxBounds DEF Ids
  <2>3. Grown /\ (mylist' = None \/ mylist' \subseteq DOMAIN torrents')
    <3>1. torrents \in Seq(Torrent) /\ Len(torrents) <= MaxTorrents
      BY TypeParts DEF WorldTyped
    <3> QED
      BY <2>1, <2>2, <3>1, StateGrows, SameGrows, TypeParts DEF WorldTyped
  <2>4. Len(torrents') = Len(torrents)
    BY <2>1, <2>2, TypeParts DEF WorldTyped
  <2>5. ReleaseTyped'
    BY <1>2, <2>1, <2>2, <2>4, TypeParts DEF ReleaseDelete, ReleaseTyped
  <2>6. RowsTyped' /\ RestTyped'
    BY <1>2, <2>3, RowsStay, TypeParts DEF ReleaseDelete, RestTyped, upgrader
  <2> QED
    BY <1>2, <2>3, <2>5, <2>6, OutsideTypes, TypeParts
    DEF ReleaseDelete, TablesTyped, WorldTyped, player
<1>3. CASE ReleaseClear
  <2> DEFINE r == [row[gitem[1]] EXCEPT !.tid = None]
  <2>1. Grown /\ rdlib' \subseteq Hashes /\ (mylist' = None \/ mylist' \subseteq DOMAIN torrents')
    BY <1>3, SameWorld DEF ReleaseClear
  <2>2. gitem[1] \in Tokens
    BY <1>3, TypeParts DEF ReleaseClear, ReleaseTyped
  <2>3. r \in Item /\ r.tid = None
    BY <2>2, TypeParts DEF RowsTyped, Item
  <2>4. row' = [row EXCEPT ![gitem[1]] = r]
    BY <1>3 DEF ReleaseClear
  <2>5. RowsTyped'
    <3> HIDE DEF r
    <3> QED
      BY <2>1, <2>2, <2>3, <2>4, RowPut DEF Of
  <2>6. ReleaseTyped' /\ RestTyped'
    BY <1>3, TypeParts DEF ReleaseClear, ReleaseTyped, RestTyped, upgrader, world
  <2> QED
    BY <1>3, <2>1, <2>5, <2>6, OutsideTypes, TypeParts DEF ReleaseClear, TablesTyped, player
<1> QED
  BY <1>1, <1>2, <1>3 DEF ReleaseStep

LEMMA UpgradeTypes ==
  ASSUME TypeInv, NEW t \in Tokens, NEW h \in Hashes, Upgrade(t, h)
  PROVE  TypeInv'
<1> DEFINE r == Swapped(row[t], h)
<1>1. Grown /\ rdlib' \subseteq Hashes /\ (mylist' = None \/ mylist' \subseteq DOMAIN torrents')
  BY SameWorld DEF Upgrade
<1>2. r \in Item /\ r.tid = None
  BY TypeParts DEF RowsTyped, Item, Swapped
<1>3. row' = [row EXCEPT ![t] = r]
  BY DEF Upgrade
<1>4. RowsTyped'
  <2> HIDE DEF r
  <2> QED
    BY <1>1, <1>2, <1>3, RowPut DEF Of
<1>5. ReleaseTyped' /\ RestTyped'
  BY <1>1, ReleaseStays, TypeParts, CatboxBounds DEF Upgrade, RestTyped
<1> QED
  BY <1>1, <1>4, <1>5, OutsideTypes, TypeParts DEF Upgrade, TablesTyped, player

LEMMA InvalidateTypes ==
  ASSUME TypeInv, UpgradeInvalidate
  PROVE  TypeInv'
<1>1. Grown /\ rdlib' \subseteq Hashes /\ (mylist' = None \/ mylist' \subseteq DOMAIN torrents')
  BY SameWorld DEF UpgradeInvalidate
<1>2. RowsTyped' /\ ReleaseTyped' /\ RestTyped'
  BY <1>1, RowsStay, ReleaseStays, TypeParts DEF UpgradeInvalidate, RestTyped
<1> QED
  BY <1>1, <1>2, OutsideTypes, TypeParts DEF UpgradeInvalidate, TablesTyped

LEMMA ClockTypes ==
  ASSUME TypeInv, Clock, UNCHANGED <<torrents, rdlib, gc, upgrader, preload>>
  PROVE  TypeInv'
<1>1. Grown /\ ReleaseTyped' /\ RestTyped' /\ rdlib' \subseteq Hashes
  BY SameGrows, ReleaseStays, TypeParts DEF WorldTyped, RestTyped, upgrader
<1>2. /\ pc' = pc /\ job' = job /\ held' = held
      /\ mylist' = None \/ mylist' \subseteq DOMAIN torrents'
  BY TypeParts DEF Clock, player, WorldTyped
<1>3. cache' \in [Tokens -> Url \cup {None}]
  BY TypeParts DEF Clock, player, TablesTyped
<1>4. cool' \in [Tokens -> Cooldowns]
  BY TypeParts DEF Clock, player, TablesTyped, Cooldowns
<1>5. RowsTyped'
  <2>1. CASE row' = row
    BY <1>1, <2>1, RowsStay
  <2>2. ASSUME NEW t \in Tokens, row' = [row EXCEPT ![t].idle = TRUE]
        PROVE  RowsTyped'
    <3> DEFINE r == [row[t] EXCEPT !.idle = TRUE]
    <3>1. r \in Item /\ r.tid = row[t].tid /\ row' = [row EXCEPT ![t] = r]
      BY <2>2, TypeParts DEF RowsTyped, Item
    <3> HIDE DEF r
    <3> QED
      BY <1>1, <3>1, RowPut, TypeParts DEF RowsTyped
  <2> QED
    BY <2>1, <2>2 DEF Clock
<1> QED
  BY <1>1, <1>2, <1>3, <1>4, <1>5, OutsideTypes

LEMMA ServicesTypes ==
  ASSUME TypeInv, Services, UNCHANGED <<row, player, mylist, gc, upgrader, preload>>
  PROVE  TypeInv'
<1>1. Grown /\ rdlib' \subseteq Hashes
  BY StateGrows, SameGrows, TypeParts DEF Services, WorldTyped
<1>2. mylist' = None \/ mylist' \subseteq DOMAIN torrents'
  BY <1>1, TypeParts DEF WorldTyped, Grown
<1>3. RowsTyped' /\ ReleaseTyped' /\ RestTyped'
  BY <1>1, RowsStay, ReleaseStays, TypeParts DEF RestTyped, upgrader
<1> QED
  BY <1>1, <1>2, <1>3, OutsideTypes, TypeParts DEF TablesTyped, player

LEMMA TypeStutter == ASSUME TypeInv, UNCHANGED vars PROVE TypeInv'
<1>1. Grown /\ rdlib' \subseteq Hashes /\ (mylist' = None \/ mylist' \subseteq DOMAIN torrents')
  BY SameWorld DEF vars
<1>2. RowsTyped' /\ ReleaseTyped' /\ RestTyped'
  BY <1>1, RowsStay, ReleaseStays, TypeParts DEF vars, RestTyped, upgrader
<1> QED
  BY <1>1, <1>2, OutsideTypes, TypeParts DEF vars, player, TablesTyped

LEMMA TypeInit == Init => TypeInv
<1> SUFFICES ASSUME Init PROVE TypeInv
  OBVIOUS
<1>1. ThreadsTyped
  BY NoJobFits DEF Init, ThreadsTyped, InHand, Places
<1>2. \A h \in Hashes : NewItem(h) \in Item /\ NewItem(h).tid = None
  BY DEF NewItem, Item, Providers
<1>3. RowsTyped
  BY <1>2 DEF Init, RowsTyped, Of
<1>4. TablesTyped /\ ReleaseTyped /\ RestTyped
  BY CatboxBounds DEF Init, TablesTyped, ReleaseTyped, RestTyped, Cooldowns
<1>5. WorldTyped
  BY CatboxBounds DEF Init, WorldTyped
<1> QED
  BY <1>1, <1>3, <1>4, <1>5, TypeParts

LEMMA TypeStep == TypeInv /\ [Next]_vars => TypeInv'
<1> SUFFICES ASSUME TypeInv, [Next]_vars PROVE TypeInv'
  OBVIOUS
<1>1. ASSUME NEW p \in Players, Resolve(p) PROVE TypeInv'
  <2>1. pc[p] \in InLock
    BY <1>1 DEF Resolve, RdLive, RdSearch, RdAdd, RdSwitch, TbLive, Readd, Known, Search,
       Add, File, PickFile, Link, InLock
  <2>2. CASE UNCHANGED <<row, cache, cool, world, gc, upgrader, preload>> /\ Leave(p)
    BY <2>1, <2>2, LeaveTypes, TypeParts DEF TablesTyped, RestTyped
  <2> QED
    BY <1>1, <2>1, <2>2, ResolveWithin, WithinTypes
<1> QED
  BY <1>1, AskTypes, LockTypes, EndTypes, PreloadTypes, ReleaseTypes, UpgradeTypes,
     InvalidateTypes, ClockTypes, ServicesTypes, TypeStutter DEF Next, Materialize

(* Rows, tables, libraries and threads hold values of their kinds: every   *)
(* id kept is of a torrent that was added.                                 *)
THEOREM TypeCorrect == Spec => []TypeOK
<1>1. TypeInv => TypeOK
  BY DEF TypeInv
<1> QED
  BY <1>1, TypeInit, TypeStep, PTL DEF Spec
-----------------------------------------------------------------------------
(* The lock: a thread that resolves a token holds the token's lock, and    *)
(* the token has no cooldown until the thread puts it there.               *)
Exclusive(p) ==
  pc[p] \in InLock => /\ held[job[p].token] = p
                      /\ pc[p] # "refuse" => cool[job[p].token] = "none"
LockInv == \A p \in Players : Exclusive(p)

(* A step of the threads outside any lock, and of everything else.         *)
LEMMA LockStays ==
  ASSUME TypeInv, LockInv, held' = held,
         \A t \in Tokens : cool'[t] \in {cool[t], "none"},
         \A q \in Players : pc'[q] \in InLock => pc'[q] = pc[q] /\ job'[q] = job[q]
  PROVE  LockInv'
<1> SUFFICES ASSUME NEW q \in Players, pc'[q] \in InLock
             PROVE  /\ held'[job'[q].token] = q
                    /\ pc'[q] # "refuse" => cool'[job'[q].token] = "none"
  BY DEF LockInv, Exclusive
<1>1. job[q].token \in Tokens
  BY InLockHas
<1> QED
  BY <1>1 DEF LockInv, Exclusive

(* A step of p under its lock: the tokens of the others are not its own.   *)
LEMMA LockWithin ==
  ASSUME TypeInv, LockInv, NEW p \in Players, pc[p] \in InLock \ {"refuse"}, Within(p)
  PROVE  LockInv'
<1> DEFINE t == job[p].token
<1>1. t \in Tokens /\ held[t] = p /\ cool \in [Tokens -> Cooldowns]
  BY InLockHas, TypeParts DEF LockInv, Exclusive, TablesTyped
<1>2. \A x \in Tokens \ {t} : cool'[x] = cool[x]
  BY <1>1 DEF Within
<1>3. ASSUME NEW q \in Players \ {p}, pc[q] \in InLock
      PROVE  job[q].token \in Tokens \ {t}
  BY <1>1, <1>3, InLockHas DEF LockInv, Exclusive
<1>4. \A q \in Players \ {p} : Exclusive(q)'
  BY <1>2, <1>3 DEF Within, LockInv, Exclusive
<1>5. Exclusive(p)'
  <2>1. held'[job'[p].token] = p
    BY <1>1 DEF Within
  <2>2. job'[p].token = t /\ (cool' = cool \/ pc'[p] = "refuse")
    BY DEF Within
  <2>3. cool[t] = "none"
    BY DEF LockInv, Exclusive
  <2> QED
    BY <2>1, <2>2, <2>3 DEF Exclusive
<1> QED
  BY <1>4, <1>5 DEF LockInv

LEMMA LockLeave ==
  ASSUME TypeInv, LockInv, NEW p \in Players, pc[p] \in InLock, Leave(p),
         \A x \in Tokens \ {job[p].token} : cool'[x] = cool[x]
  PROVE  LockInv'
<1> DEFINE t == job[p].token
<1>1. t \in Tokens /\ held[t] = p /\ held \in [Tokens -> Players \cup {None}]
  BY InLockHas, TypeParts DEF LockInv, Exclusive, TablesTyped
<1>2. /\ pc'[p] \notin InLock
      /\ \A q \in Players \ {p} : pc'[q] = pc[q] /\ job'[q] = job[q]
      /\ \A x \in Tokens \ {t} : held'[x] = held[x]
  BY <1>1, HandsOf DEF Leave, Goto, InLock
<1>3. ASSUME NEW q \in Players \ {p}, pc[q] \in InLock
      PROVE  job[q].token \in Tokens \ {t}
  BY <1>1, <1>3, InLockHas DEF LockInv, Exclusive
<1> QED
  BY <1>2, <1>3 DEF LockInv, Exclusive

LEMMA LockAsk ==
  ASSUME TypeInv, LockInv, NEW p \in Players,
         Ask(p) \/ Lock(p) \/ \E t \in Tokens : Play(p, t) \/ ReResolve(p, t)
  PROVE  LockInv'
<1>1. CASE \E t \in Tokens : Play(p, t) \/ ReResolve(p, t)
  <2>1. /\ held' = held /\ pc' = [pc EXCEPT ![p] = "ask"]
        /\ \A q \in Players \ {p} : job'[q] = job[q]
        /\ \A x \in Tokens : cool'[x] \in {cool[x], "none"}
    BY <1>1, HandsOf, TypeParts DEF Play, ReResolve, Goto, TablesTyped
  <2> QED
    BY <2>1, HandsOf, LockStays DEF InLock
<1>2. CASE /\ Goto(p, "lock") \/ Goto(p, "idle")
           /\ UNCHANGED <<held, cool>>
           /\ \A q \in Players \ {p} : job'[q] = job[q]
  BY <1>2, HandsOf, LockStays DEF Goto, InLock
<1>3. CASE held[job[p].token] = None /\ cool[job[p].token] = "none" /\ Take(p) /\ pc[p] = "lock"
  <2> DEFINE t == job[p].token
  <2>1. t \in Tokens
    BY <1>3, HandsOf DEF InHand, Fits
  <2>2. /\ held'[t] = p /\ cool' = cool /\ pc'[p] # "refuse"
        /\ \A x \in Tokens \ {t} : held'[x] = held[x]
        /\ \A q \in Players \ {p} : pc'[q] = pc[q] /\ job'[q] = job[q]
    BY <1>3, <2>1, HandsOf, TypeParts DEF Take, Goto, TablesTyped
  <2>3. job'[p].token = t
    BY <1>3, HandsOf DEF Take, Job
  <2>4. ASSUME NEW q \in Players \ {p}, pc[q] \in InLock
        PROVE  job[q].token \in Tokens \ {t}
    BY <1>3, <2>4, InLockHas, CatboxNames DEF LockInv, Exclusive
  <2> QED
    BY <1>3, <2>2, <2>3, <2>4 DEF LockInv, Exclusive
<1>4. Answer(p) => /\ Goto(p, "idle") /\ UNCHANGED <<held, cool>>
                   /\ \A q \in Players \ {p} : job'[q] = job[q]
  BY HandsOf DEF Answer
<1> QED
  BY <1>1, <1>2, <1>3, <1>4 DEF Ask, Lock

LEMMA LockStep == TypeInv /\ LockInv /\ [Next]_vars => LockInv'
<1> SUFFICES ASSUME TypeInv, LockInv, [Next]_vars PROVE LockInv'
  OBVIOUS
<1>1. ASSUME NEW p \in Players, Resolve(p) PROVE LockInv'
  <2>1. pc[p] \in InLock \ {"refuse"}
    BY <1>1 DEF Resolve, RdLive, RdSearch, RdAdd, RdSwitch, TbLive, Readd, Known, Search,
       Add, File, PickFile, Link, InLock
  <2> QED
    BY <1>1, <2>1, ResolveWithin, LockWithin, LockLeave
<1>2. ASSUME NEW p \in Players, Keep(p) \/ Cool(p) PROVE LockInv'
  <2>1. pc[p] \in InLock
    BY <1>2 DEF Keep, Cool, InLock
  <2>2. Leave(p) /\ \A x \in Tokens \ {job[p].token} : cool'[x] = cool[x]
    BY <1>2, TypeParts DEF Keep, Cool, TablesTyped
  <2> QED
    BY <2>1, <2>2, LockLeave
<1>3. ASSUME pc' = pc, job' = job, held' = held,
             \A t \in Tokens : cool'[t] \in {cool[t], "none"}
      PROVE  LockInv'
  BY <1>3, LockStays
<1>4. CASE PreloadStep \/ UpgradeInvalidate
  BY <1>3, <1>4 DEF PreloadStep, PreloadAdd, PreloadLink, UpgradeInvalidate, player
<1>5. CASE ReleaseStep \/ (\E t \in Tokens, h \in Hashes : Upgrade(t, h)) \/ UNCHANGED vars
  BY <1>3, <1>5 DEF ReleaseStep, ReleaseStart, ReleaseDelete, ReleaseClear, Upgrade, vars, player
<1>6. CASE Clock
  BY <1>3, <1>6, TypeParts DEF Clock, player, TablesTyped
<1>7. CASE UNCHANGED <<row, player, mylist, gc, upgrader, preload>>
  BY <1>3, <1>7 DEF player
<1> QED
  BY <1>1, <1>2, <1>4, <1>5, <1>6, <1>7, LockAsk DEF Next, Materialize

LEMMA LockInit == Init => LockInv
BY DEF Init, LockInv, Exclusive, InLock

LEMMA LockHolds == Spec => [](TypeInv /\ LockInv)
<1> QED
  BY TypeInit, TypeStep, LockInit, LockStep, PTL DEF Spec

(* One thread at a time resolves a token: two that resolve the same token  *)
(* would both hold its lock.                                               *)
THEOREM OneAtATime == Spec => []OneMaterialization
<1>1. LockInv => OneMaterialization
  BY DEF LockInv, Exclusive, OneMaterialization
<1> QED
  BY <1>1, LockHolds, PTL

(* Nothing is searched or added for a token in cooldown: the cooldown of a *)
(* failed attempt reaches the threads that waited for the lock.            *)
THEOREM CooldownIsRespected == Spec => []NothingAddedInCooldown
<1>1. Adding \subseteq InLock \ {"refuse"}
  BY DEF Adding, InLock
<1>2. LockInv => NothingAddedInCooldown
  BY <1>1 DEF LockInv, Exclusive, NothingAddedInCooldown
<1> QED
  BY <1>2, LockHolds, PTL
-----------------------------------------------------------------------------
(* With TorBox alone, and for the episodes of a season, which no upgrade   *)
(* swaps, a token's lock also guards its row's release: what the row and   *)
(* its holder have in hand is of one release.                              *)
RowFits(r, t, list) ==
  /\ r.provider = "torbox"
  /\ r.tid # None => list[r.tid].hash = r.hash
  /\ r.file \in {None, FileOf(r.hash, t)}
HandFits(l, j, r, list) ==
  /\ l \notin {"rdlive", "rdsearch", "rdadd", "rdswitch"}
  /\ l \in Busy => j.item.hash = r.hash
  /\ l \in Busy => j.item.file \in {None, FileOf(r.hash, j.token)}
  /\ l \in {"tblive", "readd"} => j.magnet = r.hash
  /\ l \in {"tblive", "file", "link"} /\ j.item.tid # None
       => list[j.item.tid].hash = r.hash
  /\ l = "serve" => j.url = <<r.hash, FileOf(r.hash, j.token)>>
RowNames(t) == RowFits(row[t], t, torrents)
HandNames(p) == pc[p] \in InLock => HandFits(pc[p], job[p], row[job[p].token], torrents)
NamesInv == /\ \A t \in Tokens : RowNames(t)
            /\ \A p \in Players : HandNames(p)

LEMMA StepGrows == ASSUME TypeInv, [Next]_vars PROVE Grown
<1>1. CASE UNCHANGED torrents
  BY <1>1, SameGrows, TypeParts DEF WorldTyped
<1>2. ASSUME NEW p \in Players, Resolve(p) PROVE Grown
  BY <1>1, <1>2, ResolveWithin DEF Within, world
<1>3. ASSUME NEW h \in Hashes, PreloadAdd(h) PROVE Grown
  BY <1>1, <1>3, AddGrows, TypeParts DEF PreloadAdd, List, WorldTyped
<1>4. CASE ReleaseDelete
  <2>1. PICK item \in glist : \/ torrents' = [torrents EXCEPT ![item[2]].state = "gone"]
                              \/ UNCHANGED torrents
    BY <1>4 DEF ReleaseDelete
  <2>2. item[2] \in DOMAIN torrents
    <3>1. item[2] \in Ids /\ item[2] <= Len(torrents) /\ Len(torrents) \in Nat
      BY TypeParts DEF ReleaseTyped, WorldTyped
    <3> QED
      BY <3>1, TypeParts, CatboxBounds DEF Ids, WorldTyped
  <2> QED
    BY <1>1, <2>1, <2>2, StateGrows, TypeParts DEF WorldTyped
<1>5. CASE Services
  BY <1>5, <1>1, StateGrows, TypeParts DEF Services, WorldTyped
<1> QED
  BY <1>1, <1>2, <1>3, <1>4, <1>5
  DEF Next, Materialize, Ask, Lock, Answer, Take, Keep, Cool, Play, ReResolve, PreloadStep,
      PreloadLink, ReleaseStep, ReleaseStart, ReleaseClear, Upgrade, UpgradeInvalidate, vars, world

(* More torrents are no harm.                                              *)
LEMMA RowFitsMore ==
  ASSUME TypeInv, Grown, NEW t \in Tokens, RowNames(t)
  PROVE  RowFits(row[t], t, torrents')
BY TypeParts DEF RowNames, RowFits, RowsTyped, WorldTyped, Of, Grown

LEMMA HandFitsMore ==
  ASSUME TypeInv, Grown, NEW p \in Players, HandNames(p), pc[p] \in InLock
  PROVE  HandFits(pc[p], job[p], row[job[p].token], torrents')
BY InLockHas, TypeParts DEF HandNames, HandFits, Fits, Busy, InLock, WorldTyped, Of, Grown

(* A step that leaves the releases of the rows, and the threads, alone.    *)
LEMMA NamesStay ==
  ASSUME TypeInv, NamesInv, Grown,
         \A t \in Tokens : RowFits(row[t], t, torrents') => RowNames(t)',
         \A t \in Tokens : row'[t].hash = row[t].hash,
         \A q \in Players : pc'[q] \in InLock => pc'[q] = pc[q] /\ job'[q] = job[q]
  PROVE  NamesInv'
<1>1. \A t \in Tokens : RowNames(t)'
  BY RowFitsMore DEF NamesInv
<1>2. ASSUME NEW q \in Players, pc'[q] \in InLock PROVE HandNames(q)'
  <2>1. pc'[q] = pc[q] /\ job'[q] = job[q] /\ job[q].token \in Tokens
    BY <1>2, InLockHas
  <2>2. HandFits(pc[q], job[q], row[job[q].token], torrents')
    BY <1>2, <2>1, HandFitsMore DEF NamesInv
  <2> QED
    BY <2>1, <2>2 DEF HandNames, HandFits
<1>3. \A q \in Players : HandNames(q)'
  BY <1>2 DEF HandNames
<1> QED
  BY <1>1, <1>3 DEF NamesInv

(* A step of p under its lock that leaves r in its row and goes to l with  *)
(* j in hand.                                                              *)
LEMMA NamesWithin ==
  ASSUME TypeInv, LockInv, NamesInv, NEW p \in Players, pc[p] \in InLock, Grown,
         NEW t \in Tokens, t = job[p].token,
         \A x \in Tokens \ {t} : row'[x] = row[x],
         \A q \in Players \ {p} : pc'[q] = pc[q] /\ job'[q] = job[q],
         RowFits(row'[t], t, torrents'),
         HandNames(p)'
  PROVE  NamesInv'
<1>1. held[t] = p
  BY DEF LockInv, Exclusive
<1>2. ASSUME NEW q \in Players \ {p}, pc[q] \in InLock
      PROVE  HandNames(q)'
  <2>1. job[q].token \in Tokens \ {t}
    BY <1>1, <1>2, InLockHas DEF LockInv, Exclusive
  <2>2. HandFits(pc[q], job[q], row[job[q].token], torrents')
    BY <1>2, HandFitsMore DEF NamesInv
  <2> QED
    BY <2>1, <2>2 DEF HandNames
<1>3. \A q \in Players : HandNames(q)'
  BY <1>2 DEF HandNames
<1>4. \A x \in Tokens \ {t} : RowNames(x)'
  BY RowFitsMore DEF NamesInv, RowNames
<1>5. RowNames(t)'
  BY DEF RowNames
<1> QED
  BY <1>3, <1>4, <1>5 DEF NamesInv

LEMMA NamesShape ==
  ASSUME TypeInv, LockInv, NamesInv, NEW p \in Players, pc[p] \in InLock, Within(p),
         NEW t \in Tokens, t = job[p].token, NEW r, NEW j, NEW l,
         row'[t] = r, job'[p] = j, pc'[p] = l,
         RowFits(r, t, torrents'), HandFits(l, j, r, torrents')
  PROVE  NamesInv'
<1>1. job'[p].token = t /\ Grown
  BY DEF Within
<1>2. HandNames(p)'
  BY <1>1 DEF HandNames
<1> QED
  BY <1>1, <1>2, NamesWithin DEF Within

(* What p has before its step, seen against the torrents after it.         *)
LEMMA NamesBefore ==
  ASSUME TypeInv, NamesInv, NEW p \in Players, pc[p] \in InLock, Grown
  PROVE  /\ HandFits(pc[p], job[p], row[job[p].token], torrents')
         /\ RowFits(row[job[p].token], job[p].token, torrents')
BY InLockHas, HandFitsMore, RowFitsMore DEF NamesInv

(* Nothing changes but the place.                                          *)
LEMMA NamesGo ==
  ASSUME TypeInv, LockInv, NamesInv, NEW p \in Players, pc[p] \in Busy, Within(p),
         row' = row, job' = job,
         \/ pc[p] = "tblive" /\ pc'[p] = "readd"
         \/ pc[p] = "tblive" /\ pc'[p] = "file"
         \/ pc[p] = "file" /\ pc'[p] = "link"
         \/ pc'[p] \in {"known", "search"}
  PROVE  NamesInv'
<1> DEFINE t == job[p].token
<1>1. t \in Tokens /\ Grown
  BY BusyHas DEF Within
<1>2. /\ HandFits(pc[p], job[p], row[t], torrents')
      /\ RowFits(row[t], t, torrents')
  BY <1>1, BusyHas, NamesBefore
<1>3. HandFits(pc'[p], job[p], row[t], torrents') /\ pc[p] \in InLock
  BY <1>2 DEF HandFits, Busy, InLock
<1> HIDE DEF t
<1>4. PICK x \in Tokens : x = t
  BY <1>1
<1> QED
  BY <1>2, <1>3, <1>4, NamesShape DEF t

(* An attempt that is given up has nothing in hand.                        *)
LEMMA NamesRefuse ==
  ASSUME TypeInv, LockInv, NamesInv, NEW p \in Players, pc[p] \in Busy, Within(p),
         row' = row, pc'[p] = "refuse"
  PROVE  NamesInv'
<1>1. PICK t \in Tokens : t = job[p].token
  BY BusyHas
<1>2. RowFits(row[t], t, torrents') /\ HandFits("refuse", job'[p], row[t], torrents') /\ pc[p] \in InLock
  BY <1>1, BusyHas, NamesBefore DEF Within, HandFits, Busy
<1> QED
  BY <1>1, <1>2, NamesShape

(* The row and the item in hand take the id of a torrent of the release.   *)
LEMMA NamesTakesId ==
  ASSUME TypeInv, LockInv, NamesInv, NEW p \in Players, pc[p] \in Busy, Within(p),
         NEW i, torrents'[i].hash = job[p].item.hash,
         Step(p, "file"),
         row' = [row EXCEPT ![job[p].token].tid = i],
         job' = [job EXCEPT ![p].item.tid = i]
  PROVE  NamesInv'
<1>1. PICK t \in Tokens : t = job[p].token
  BY BusyHas
<1> DEFINE r == [row[t] EXCEPT !.tid = i]
           j == [job[p] EXCEPT !.item.tid = i]
<1>2. /\ HandFits(pc[p], job[p], row[t], torrents') /\ RowFits(row[t], t, torrents')
      /\ row[t] \in Item /\ job[p] \in Job /\ job[p].item \in Item /\ pc[p] \in InLock
  BY <1>1, BusyHas, NamesBefore DEF Within
<1>3. row'[t] = r /\ job'[p] = j /\ pc'[p] = "file"
  BY <1>1, HandsOf DEF Step, Goto
<1>4. /\ r.tid = i /\ r.hash = row[t].hash /\ r.file = row[t].file /\ r.provider = row[t].provider
      /\ j.item.tid = i /\ j.item.hash = job[p].item.hash /\ j.item.file = job[p].item.file
      /\ j.token = job[p].token
  BY <1>2 DEF Item, Job
<1> HIDE DEF r, j
<1>5. RowFits(r, t, torrents') /\ HandFits("file", j, r, torrents')
  BY <1>2, <1>4 DEF RowFits, HandFits, Busy, InLock
<1> QED
  BY <1>1, <1>2, <1>3, <1>5, NamesShape

LEMMA NamesTb ==
  ASSUME TypeInv, LockInv, NamesInv, NEW p \in Players, TbLive(p), Within(p)
  PROVE  NamesInv'
<1>1. pc[p] = "tblive" /\ pc[p] \in Busy
  BY DEF TbLive, InLock, Busy
<1>2. CASE Live(job[p].item.tid) /\ Step(p, "file") /\ UNCHANGED <<row, job>>
  <2>1. pc'[p] = "file"
    BY <1>2, HandsOf DEF Step, Goto
  <2> QED
    BY <1>1, <1>2, <2>1, NamesGo
<1>3. ASSUME NEW i \in WithHash(mylist', job[p].item.hash), List, Step(p, "file"),
             row' = [row EXCEPT ![job[p].token].tid = i], job' = [job EXCEPT ![p].item.tid = i]
      PROVE  NamesInv'
  <2>1. torrents'[i].hash = job[p].item.hash
    BY <1>3 DEF List, WithHash
  <2> QED
    BY <1>1, <1>3, <2>1, NamesTakesId
<1>4. CASE Step(p, "readd") /\ UNCHANGED <<row, job>>
  <2>1. pc'[p] = "readd"
    BY <1>4, HandsOf DEF Step, Goto
  <2> QED
    BY <1>1, <1>4, <2>1, NamesGo
<1>5. CASE Refuse(p, "none") /\ UNCHANGED row
  <2>1. pc'[p] = "refuse"
    BY <1>5, HandsOf DEF Refuse, Goto
  <2> QED
    BY <1>1, <1>5, <2>1, NamesRefuse
<1>6. ~Leave(p)
  BY HandsOf DEF Leave, Goto, Within, InLock
<1> QED
  BY <1>2, <1>3, <1>4, <1>5, <1>6, Zenon DEF TbLive

LEMMA NamesAdd ==
  ASSUME TypeInv, LockInv, NamesInv, NEW p \in Players, Readd(p) \/ Add(p), Within(p)
  PROVE  NamesInv'
<1>1. pc[p] \in Busy /\ job[p].magnet \in Hashes /\ job[p].item.hash \in Hashes
  BY BusyHas DEF Readd, Add, InLock, Busy, Item
<1>2. CASE row' = row /\ job' = job /\ Step(p, "known")
  <2>1. pc'[p] = "known"
    BY <1>2, HandsOf DEF Step, Goto
  <2> QED
    BY <1>1, <1>2, <2>1, NamesGo
<1>5. CASE row' = row /\ (Refuse(p, "30s") \/ Refuse(p, "120s"))
  <2>1. pc'[p] = "refuse"
    BY <1>5, HandsOf DEF Refuse, Goto
  <2> QED
    BY <1>1, <1>5, <2>1, NamesRefuse
<1>3. ASSUME NEW i \in Ids, AddTorrent(job[p].item.hash, i), Step(p, "file"),
             row' = [row EXCEPT ![job[p].token].tid = i], job' = [job EXCEPT ![p].item.tid = i]
      PROVE  NamesInv'
  <2>1. torrents'[i].hash = job[p].item.hash
    BY <1>1, <1>3, HandsOf, AddGrows
  <2> QED
    BY <1>1, <1>3, <2>1, NamesTakesId
<1>4. pc[p] = "readd" => job[p].magnet = job[p].item.hash
  BY <1>1, BusyHas DEF NamesInv, HandNames, HandFits
<1> QED
  BY <1>2, <1>3, <1>4, <1>5 DEF Readd, Add

LEMMA NamesSearch ==
  ASSUME ~RealDebrid, TypeInv, LockInv, NamesInv, NEW p \in Players, Search(p), Within(p)
  PROVE  NamesInv'
<1>1. pc[p] \in Busy /\ pc[p] \in InLock
  BY DEF Search, InLock, Busy
<1>2. CASE NotFound(p)
  <2>1. pc'[p] = "refuse" /\ row' = row
    BY <1>2, HandsOf DEF NotFound, Refuse, Goto
  <2> QED
    BY <1>1, <2>1, NamesRefuse
<1>3. ASSUME NEW h \in Hashes, Step(p, "add"),
             LET r == IF h = job[p].item.hash THEN row[job[p].token]
                                              ELSE Swapped(row[job[p].token], h)
             IN  row' = [row EXCEPT ![job[p].token] = [r EXCEPT !.provider = "torbox"]],
             job' = [job EXCEPT ![p].item.hash = h,
                                ![p].item.file = IF h = job[p].item.hash THEN @ ELSE None]
      PROVE  NamesInv'
  <2>1. PICK t \in Tokens : t = job[p].token
    BY <1>1, BusyHas
  <2> DEFINE s == IF h = job[p].item.hash THEN row[t] ELSE Swapped(row[t], h)
             r == [s EXCEPT !.provider = "torbox"]
             i == [job[p].item EXCEPT !.hash = h,
                   !.file = IF h = job[p].item.hash THEN job[p].item.file ELSE None]
             j == [job[p] EXCEPT !.item = i]
  <2>2. /\ HandFits(pc[p], job[p], row[t], torrents') /\ RowFits(row[t], t, torrents')
        /\ row[t] \in Item /\ job[p] \in Job /\ job[p].item \in Item
    BY <1>1, <2>1, BusyHas, NamesBefore DEF Within
  <2>3. row'[t] = r /\ pc'[p] = "add"
    BY <1>3, <2>1, HandsOf DEF Step, Goto
  <2>4. job'[p] = j
    BY <1>3, <2>2, HandsOf DEF Job, Item
  <2>5. /\ job[p].item.hash = row[t].hash /\ job[p].token = t
        /\ job[p].item.file \in {None, FileOf(row[t].hash, t)}
    BY <1>1, <2>1, <2>2 DEF HandFits
  <2>6. /\ s.hash = h /\ s \in Item
        /\ s.tid = None \/ (s.tid = row[t].tid /\ h = row[t].hash)
        /\ s.file = None \/ (s.file = row[t].file /\ h = row[t].hash)
    <3>1. CASE h = job[p].item.hash
      BY <2>2, <2>5, <3>1
    <3>2. CASE h # job[p].item.hash
      <4>1. s = Swapped(row[t], h)
        BY <3>2
      <4>2. Swapped(row[t], h) \in Item
        BY <2>2, ItemFields
      <4>3. /\ Swapped(row[t], h).hash = h /\ Swapped(row[t], h).tid = None
            /\ Swapped(row[t], h).file = None
        BY <2>2 DEF Item, Swapped
      <4> QED
        BY <4>1, <4>2, <4>3
    <3> QED
      BY <3>1, <3>2
  <2>7. r.hash = h /\ r.tid = s.tid /\ r.file = s.file /\ r.provider = "torbox"
    BY <2>6 DEF Item
  <2>8. /\ i.hash = h /\ i \in Item
        /\ i.file = None \/ (i.file = job[p].item.file /\ h = job[p].item.hash)
    <3>1. CASE h = job[p].item.hash
      BY <2>2, <3>1 DEF Item
    <3>2. CASE h # job[p].item.hash
      <4>1. i = [job[p].item EXCEPT !.hash = h, !.file = None]
        BY <3>2
      <4> HIDE DEF i
      <4> QED
        BY <2>2, <4>1 DEF Item
    <3> QED
      BY <3>1, <3>2
  <2>9. j.item = i /\ j.token = job[p].token
    <3> HIDE DEF i
    <3> QED
      BY <2>2, <2>8, PutItem
  <2> HIDE DEF s, r, i, j
  <2>10. RowFits(r, t, torrents')
    BY <2>2, <2>6, <2>7 DEF RowFits
  <2>11. HandFits("add", j, r, torrents')
    BY <2>2, <2>5, <2>7, <2>8, <2>9 DEF HandFits, Busy, InLock
  <2> QED
    BY <1>1, <2>1, <2>3, <2>4, <2>10, <2>11, NamesShape
<1>4. \A h \in Hashes : <<h, "realdebrid">> \notin Found
  BY DEF Found
<1> QED
  BY <1>2, <1>3, <1>4 DEF Search

LEMMA NamesFile ==
  ASSUME TypeInv, LockInv, NamesInv, NEW p \in Players, File(p), Within(p)
  PROVE  NamesInv'
<1>1. PICK t \in Tokens : t = job[p].token /\ pc[p] = "file" /\ pc[p] \in Busy /\ pc[p] \in InLock
  BY BusyHas DEF File, PickFile, InLock, Busy
<1>2. UNCHANGED world
  BY DEF File, PickFile
<1>3. /\ HandFits("file", job[p], row[t], torrents') /\ RowFits(row[t], t, torrents')
      /\ row[t] \in Item /\ job[p] \in Job /\ job[p].item \in Item /\ job[p].item.tid # None
  BY <1>1, BusyHas, NamesBefore DEF Within, Fits
<1>4. CASE row' = row /\ job' = job /\ Step(p, "link")
  <2>1. pc'[p] = "link"
    BY <1>4, HandsOf DEF Step, Goto
  <2> QED
    BY <1>1, <1>4, <2>1, NamesGo
<1>9. CASE row' = row /\ Refuse(p, "30s")
  <2>1. pc'[p] = "refuse"
    BY <1>9, HandsOf DEF Refuse, Goto
  <2> QED
    BY <1>1, <1>9, <2>1, NamesRefuse
<1> DEFINE f == FileOf(torrents[job[p].item.tid].hash, t)
<1>5. f = FileOf(row[t].hash, t)
  BY <1>2, <1>3 DEF HandFits, world
<1>6. CASE /\ Step(p, "link")
           /\ row' = row \/ row' = [row EXCEPT ![t].file = f]
           /\ job' = [job EXCEPT ![p].item.file = f]
  <2> DEFINE r == row'[t]
             j == [job[p] EXCEPT !.item.file = f]
  <2>1. /\ r.tid = row[t].tid /\ r.hash = row[t].hash /\ r.provider = row[t].provider
        /\ r.file = row[t].file \/ r.file = f
    BY <1>3, <1>6, TypeParts DEF RowsTyped, Item
  <2>2. /\ j.item.file = f /\ j.item.tid = job[p].item.tid
        /\ j.item.hash = job[p].item.hash /\ j.token = t
    BY <1>1, <1>3 DEF Job, Item
  <2>3. job'[p] = j /\ pc'[p] = "link"
    BY <1>6, HandsOf DEF Step, Goto
  <2> HIDE DEF r, j, f
  <2>4. RowFits(r, t, torrents')
    BY <1>3, <1>5, <2>1, <2>2 DEF RowFits
  <2>5. HandFits("link", j, r, torrents')
    BY <1>3, <1>5, <2>1, <2>2 DEF HandFits, Busy, InLock
  <2> QED
    BY <1>1, <2>3, <2>4, <2>5, NamesShape DEF r
<1>7. /\ t \in Tokens
      /\ [h \in Hashes |-> Picked(p, h)][torrents[job[p].item.tid].hash] = f
      /\ Movie => <<torrents[job[p].item.tid].hash, Largest[torrents[job[p].item.tid].hash]>> = f
  <2>1. torrents[job[p].item.tid].hash \in Hashes
    BY <1>1, <1>3, BusyHas, HashOfTorrent DEF Fits
  <2> QED
    BY <1>1, <2>1, CatboxNames DEF Picked, FileOf
<1> HIDE DEF f
<1>8. \/ Step(p, "link") /\ row' = row /\ job' = job
      \/ Refuse(p, "30s") /\ row' = row
      \/ /\ Step(p, "link")
         /\ row' = row \/ row' = [row EXCEPT ![t].file = f]
         /\ job' = [job EXCEPT ![p].item.file = f]
  BY <1>1, <1>7 DEF File, PickFile, f
<1> QED
  BY <1>4, <1>6, <1>8, <1>9

LEMMA NamesLink ==
  ASSUME TypeInv, LockInv, NamesInv, NEW p \in Players, Link(p), Within(p)
  PROVE  NamesInv'
<1>1. PICK t \in Tokens : t = job[p].token /\ pc[p] = "link" /\ pc[p] \in Busy /\ pc[p] \in InLock
  BY BusyHas DEF Link, InLock, Busy
<1>2. /\ HandFits("link", job[p], row[t], torrents') /\ RowFits(row[t], t, torrents')
      /\ row[t] \in Item /\ job[p] \in Job /\ job[p].item.tid # None
      /\ job[p].item.file \in Files /\ torrents' = torrents
  BY <1>1, BusyHas, NamesBefore DEF Within, Fits, Link, world
<1>3. CASE Refuse(p, "none") /\ row' = row
  <2>1. pc'[p] = "refuse"
    BY <1>3, HandsOf DEF Refuse, Goto
  <2> QED
    BY <1>1, <1>3, <2>1, NamesRefuse
<1> DEFINE u == <<torrents[job[p].item.tid].hash, job[p].item.file>>
<1>4. u = <<row[t].hash, FileOf(row[t].hash, t)>>
  BY <1>1, <1>2, CatboxNames DEF HandFits, Busy, InLock
<1>6. u \in Url
  BY <1>1, <1>2, HashOfTorrent, BusyHas DEF Url
<1> HIDE DEF u
<1>5. CASE Serve(p, row[t], u)
  <2> DEFINE r == [row[t] EXCEPT !.idle = FALSE]
             j == [NoJob EXCEPT !.token = t, !.url = u]
  <2>1. row'[t] = r /\ job'[p] = j /\ pc'[p] = "serve"
    BY <1>1, <1>5, HandsOf DEF Serve, Step, Goto
  <2>2. /\ r.tid = row[t].tid /\ r.hash = row[t].hash /\ r.provider = row[t].provider
        /\ r.file = row[t].file
    BY <1>2 DEF Item
  <2>3. j.token = t /\ j.url = u
    BY <1>1, <1>6, Emptied
  <2> HIDE DEF r, j
  <2>4. RowFits(r, t, torrents') /\ HandFits("serve", j, r, torrents')
    BY <1>1, <1>2, <1>4, <2>2, <2>3 DEF RowFits, HandFits, Busy
  <2> QED
    BY <1>1, <2>1, <2>4, NamesShape
<1> QED
  BY <1>1, <1>3, <1>5 DEF Link, u

LEMMA NamesResolve ==
  ASSUME ~RealDebrid, TypeInv, LockInv, NamesInv, NEW p \in Players, Resolve(p)
  PROVE  NamesInv'
<1>1. pc[p] \in Busy /\ pc[p] \in InLock /\ Grown
  <2>1. pc[p] \in Busy
    BY DEF Resolve, RdLive, RdSearch, RdAdd, RdSwitch, TbLive,
       Readd, Known, Search, Add, File, PickFile, Link, InLock, Busy
  <2>2. [Next]_vars
    BY DEF Next, Materialize
  <2> QED
    BY <2>1, <2>2, StepGrows DEF Busy
<1>2. CASE UNCHANGED row /\ Leave(p)
  <2>1. pc'[p] = "idle" /\ \A q \in Players \ {p} : pc'[q] = pc[q] /\ job'[q] = job[q]
    BY <1>2, HandsOf DEF Leave, Goto
  <2>2. \A q \in Players : pc'[q] \in InLock => pc'[q] = pc[q] /\ job'[q] = job[q]
    BY <2>1 DEF InLock
  <2> QED
    BY <1>1, <1>2, <2>2, NamesStay DEF RowNames
<1>3. CASE Known(p) /\ Within(p)
  <2>1. pc'[p] = "search" /\ row' = row /\ job' = job
    BY <1>3, HandsOf DEF Known, Step, Goto
  <2> QED
    BY <1>1, <1>3, <2>1, NamesGo
<1>4. pc[p] \notin {"rdlive", "rdsearch", "rdadd", "rdswitch"}
  BY <1>1 DEF NamesInv, HandNames, HandFits
<1>5. ~RdLive(p) /\ ~RdSearch(p) /\ ~RdAdd(p) /\ ~RdSwitch(p)
  BY <1>4 DEF RdLive, RdSearch, RdAdd, RdSwitch
<1> QED
  BY <1>2, <1>3, <1>5, ResolveWithin, NamesTb, NamesAdd, NamesSearch, NamesFile, NamesLink
  DEF Resolve

LEMMA NamesLock ==
  ASSUME TypeInv, NamesInv, NEW p \in Players, Ask(p) \/ Lock(p), Grown
  PROVE  NamesInv'
<1>1. PICK t \in Tokens : t = job[p].token
  BY HandsOf DEF Ask, Lock, InHand, Fits
<1>2. CASE Answer(p)
  <2>1. pc'[p] = "idle" /\ \A q \in Players \ {p} : pc'[q] = pc[q] /\ job'[q] = job[q]
    BY <1>2, HandsOf DEF Answer, Goto
  <2>2. \A q \in Players : pc'[q] \in InLock => pc'[q] = pc[q] /\ job'[q] = job[q]
    BY <2>1 DEF InLock
  <2>3. row' = [row EXCEPT ![t].idle = @ /\ cache[t] = None]
    BY <1>1, <1>2 DEF Answer
  <2>4. \A x \in Tokens : /\ row'[x].hash = row[x].hash /\ row'[x].tid = row[x].tid
                          /\ row'[x].file = row[x].file /\ row'[x].provider = row[x].provider
    BY <2>3, TypeParts DEF RowsTyped, Item
  <2> QED
    BY <2>2, <2>4, NamesStay DEF RowNames, RowFits
<1>3. CASE Goto(p, "lock") /\ UNCHANGED <<row, job>>
  <2>1. \A q \in Players : pc'[q] \in InLock => pc'[q] = pc[q] /\ job'[q] = job[q]
    BY <1>3, HandsOf DEF Goto, InLock
  <2> QED
    BY <1>3, <2>1, NamesStay DEF RowNames
<1>4. CASE Take(p) /\ pc[p] = "lock"
  <2> DEFINE i == [row[t] EXCEPT !.idle = FALSE]
             j == [job[p] EXCEPT !.item = i, !.magnet = row[t].hash]
  <2>1. row[t] \in Item /\ job[p] \in Job /\ RowFits(row[t], t, torrents')
    BY TypeParts, HandsOf, RowFitsMore DEF RowsTyped, NamesInv
  <2>2. job'[p] = j /\ row' = row /\ pc'[p] = "tblive"
    BY <1>1, <1>4, <2>1, HandsOf DEF Take, Goto, RowFits
  <2>3. i.hash = row[t].hash /\ i.tid = row[t].tid /\ i.file = row[t].file
    BY <2>1 DEF Item
  <2>4. j.item = i /\ j.token = t /\ j.magnet = row[t].hash
    <3> HIDE DEF i
    <3> QED
      BY <1>1, <2>1 DEF Job
  <2> HIDE DEF i, j
  <2>5. HandFits("tblive", j, row[t], torrents')
    BY <2>1, <2>3, <2>4 DEF HandFits, RowFits
  <2>6. HandNames(p)'
    BY <2>2, <2>4, <2>5 DEF HandNames
  <2>7. ASSUME NEW q \in Players \ {p} PROVE HandNames(q)'
    <3>1. pc'[q] = pc[q] /\ job'[q] = job[q]
      BY <1>4, HandsOf DEF Take, Goto
    <3> QED
      BY <2>2, <3>1, HandFitsMore DEF NamesInv, HandNames
  <2>8. \A x \in Tokens : RowNames(x)'
    BY <2>2, RowFitsMore DEF NamesInv, RowNames
  <2> QED
    BY <2>6, <2>7, <2>8 DEF NamesInv
<1> QED
  BY <1>2, <1>3, <1>4 DEF Ask, Lock

LEMMA NamesStep ==
  ASSUME ~RealDebrid, ~Movie \/ MaxUpgrades = 0, TypeInv, LockInv, NamesInv, [Next]_vars
  PROVE  NamesInv'
<1>1. Grown
  BY StepGrows
<1>2. ASSUME UNCHANGED row, NEW p \in Players, pc'[p] \notin InLock,
             \A q \in Players \ {p} : pc'[q] = pc[q] /\ job'[q] = job[q]
      PROVE  NamesInv'
  BY <1>1, <1>2, NamesStay DEF RowNames
<1>3. ASSUME NEW p \in Players, \/ \E t \in Tokens : Play(p, t) \/ ReResolve(p, t)
                                \/ Keep(p) \/ Cool(p)
      PROVE  NamesInv'
  <2>1. /\ UNCHANGED row /\ pc'[p] \in {"ask", "idle"}
        /\ \A q \in Players \ {p} : pc'[q] = pc[q] /\ job'[q] = job[q]
    BY <1>3, HandsOf DEF Play, ReResolve, Keep, Cool, Leave, Goto
  <2> QED
    BY <1>2, <2>1 DEF InLock
<1>4. ASSUME UNCHANGED <<row, pc, job>> PROVE NamesInv'
  BY <1>1, <1>4, NamesStay DEF RowNames
<1>5. CASE PreloadStep \/ UpgradeInvalidate \/ UNCHANGED vars
  BY <1>4, <1>5 DEF PreloadStep, PreloadAdd, PreloadLink, UpgradeInvalidate, vars, player
<1>6. CASE ReleaseStart \/ ReleaseDelete
  BY <1>4, <1>6 DEF ReleaseStart, ReleaseDelete, player
<1>7. CASE ReleaseClear
  <2>1. \A x \in Tokens : /\ row'[x].hash = row[x].hash /\ row'[x].file = row[x].file
                          /\ row'[x].tid \in {row[x].tid, None}
                          /\ row'[x].provider = row[x].provider
    BY <1>7, TypeParts DEF ReleaseClear, RowsTyped, Item
  <2> QED
    BY <1>1, <1>7, <2>1, NamesStay DEF RowNames, RowFits, ReleaseClear, player
<1>8. \A t \in Tokens, h \in Hashes : ~Upgrade(t, h)
  BY TypeParts DEF Upgrade, RestTyped
<1>9. CASE Clock
  <2>1. \A x \in Tokens : /\ row'[x].hash = row[x].hash /\ row'[x].file = row[x].file
                          /\ row'[x].tid = row[x].tid /\ row'[x].provider = row[x].provider
    BY <1>9, TypeParts DEF Clock, RowsTyped, Item
  <2>2. UNCHANGED <<pc, job>>
    BY <1>9 DEF Clock, player
  <2> QED
    BY <1>1, <2>1, <2>2, NamesStay DEF RowNames, RowFits
<1>10. CASE UNCHANGED <<row, player, mylist, gc, upgrader, preload>>
  BY <1>4, <1>10 DEF player
<1> QED
  BY <1>1, <1>3, <1>5, <1>6, <1>7, <1>8, <1>9, <1>10, NamesResolve, NamesLock
  DEF Next, Materialize, ReleaseStep

LEMMA NamesInit == Init => NamesInv
<1> SUFFICES ASSUME Init PROVE NamesInv
  OBVIOUS
<1>1. \A t \in Tokens : RowNames(t)
  BY DEF Init, RowNames, RowFits, NewItem
<1> QED
  BY <1>1 DEF Init, NamesInv, HandNames, InLock

LEMMA NamesHold ==
  ASSUME ~RealDebrid, ~Movie \/ MaxUpgrades = 0
  PROVE  Spec => [](TypeInv /\ NamesInv)
<1>1. Init => TypeInv /\ LockInv /\ NamesInv
  BY TypeInit, LockInit, NamesInit
<1>2. TypeInv /\ LockInv /\ NamesInv /\ [Next]_vars => (TypeInv /\ LockInv /\ NamesInv)'
  BY TypeStep, LockStep, NamesStep
<1> QED
  BY <1>1, <1>2, PTL DEF Spec

(* A row's torrent and file are of the row's release, whatever the preload *)
(* and the idle release do meanwhile, as long as no provider switch and no *)
(* upgrade rewrites the release behind the back of a playback.  Episodes   *)
(* are not upgraded in Catbox mode.                                        *)
THEOREM RowsNameTheirRelease ==
  ASSUME ~RealDebrid, ~Movie \/ MaxUpgrades = 0
  PROVE  Spec => []RowNamesItsRelease
<1>1. NamesInv => RowNamesItsRelease
  <2> SUFFICES ASSUME NamesInv, NEW t \in Tokens
               PROVE  /\ row[t].tid # None => torrents[row[t].tid].hash = row[t].hash
                      /\ row[t].file # None => row[t].file[1] = row[t].hash
    BY DEF RowNamesItsRelease
  <2>1. RowFits(row[t], t, torrents)
    BY DEF NamesInv, RowNames
  <2>2. FileOf(row[t].hash, t)[1] = row[t].hash
    BY DEF FileOf
  <2> QED
    BY <2>1, <2>2 DEF RowFits
<1> QED
  BY <1>1, NamesHold, PTL
-----------------------------------------------------------------------------
(* A thread's step moves nobody else.                                      *)
LEMMA OthersStay ==
  ASSUME TypeInv, NEW p \in Players, NEW q \in Players, q # p,
         \/ Materialize(q)
         \/ \E t \in Tokens : Play(q, t) \/ ReResolve(q, t)
  PROVE  pc'[p] = pc[p]
<1>0. pc \in [Players -> Places]
  BY HandsOf
<1>1. CASE Resolve(q)
  BY <1>0, <1>1, ResolveWithin DEF Within, Leave, Goto
<1>2. CASE Ask(q) \/ Lock(q)
  BY <1>0, <1>2 DEF Ask, Lock, Answer, Take, Goto
<1>3. CASE Keep(q) \/ Cool(q) \/ \E t \in Tokens : Play(q, t) \/ ReResolve(q, t)
  BY <1>0, <1>3 DEF Keep, Cool, Leave, Play, ReResolve, Goto
<1> QED
  BY <1>1, <1>2, <1>3 DEF Materialize

(* ... and what a playback keeps is the URL of its token's own file in it, *)
(* although the preload writes URLs of the same row and the row may hold   *)
(* ids of a torrent that is gone.                                          *)
THEOREM OwnFileIsKept ==
  ASSUME ~RealDebrid, ~Movie \/ MaxUpgrades = 0
  PROVE  Spec => PlaybackKeepsOwnFile
<1> DEFINE KeepsOwn(p) ==
      pc[p] = "serve" /\ pc'[p] = "idle" =>
        LET t == job[p].token IN cache'[t] = <<row[t].hash, FileOf(row[t].hash, t)>>
<1>1. ASSUME TypeInv, NamesInv, [Next]_vars, NEW p \in Players PROVE KeepsOwn(p)
  <2> SUFFICES ASSUME pc[p] = "serve", pc'[p] = "idle" PROVE KeepsOwn(p)
    OBVIOUS
  <2>1. job[p].token \in Tokens /\ pc[p] \in InLock
    BY <1>1, InLockHas DEF InLock
  <2>2. PICK t \in Tokens : t = job[p].token
    BY <2>1
  <2>3. job[p].url = <<row[t].hash, FileOf(row[t].hash, t)>>
    BY <1>1, <2>1, <2>2 DEF NamesInv, HandNames, HandFits
  <2>4. cache \in [Tokens -> Url \cup {None}]
    BY <1>1, TypeParts DEF TablesTyped
  <2>5. CASE Keep(p)
    BY <2>2, <2>3, <2>4, <2>5 DEF Keep
  <2>6. ~Ask(p) /\ ~Lock(p) /\ ~Resolve(p) /\ ~Cool(p)
        /\ \A x \in Tokens : ~Play(p, x) /\ ~ReResolve(p, x)
    BY DEF Ask, Lock, Resolve, RdLive, RdSearch, RdAdd, RdSwitch, TbLive, Readd, Known,
       Search, Add, File, PickFile, Link, Cool, Play, ReResolve
  <2>7. \/ pc' = pc
        \/ \E q \in Players : Materialize(q) \/ \E x \in Tokens : Play(q, x) \/ ReResolve(q, x)
    BY <1>1
    DEF Next, PreloadStep, PreloadAdd, PreloadLink, ReleaseStep, ReleaseStart,
        ReleaseDelete, ReleaseClear, Upgrade, UpgradeInvalidate, Clock, vars, player
  <2>8. PICK q \in Players : Materialize(q) \/ \E x \in Tokens : Play(q, x) \/ ReResolve(q, x)
    BY <2>7
  <2>9. CASE q # p
    BY <1>1, <2>8, <2>9, OthersStay
  <2>10. CASE q = p
    BY <2>5, <2>6, <2>8, <2>10 DEF Materialize
  <2> QED
    BY <2>9, <2>10
<1>2. TypeInv /\ NamesInv /\ [Next]_vars => [\A p \in Players : KeepsOwn(p)]_vars
  BY <1>1
<1> QED
  BY <1>2, NamesHold, PTL DEF Spec, PlaybackKeepsOwnFile
=============================================================================
