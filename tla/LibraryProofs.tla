---------------------------- MODULE LibraryProofs ---------------------------
(***************************************************************************)
(* Theorems about LibrarySync, and so about the media folders it is        *)
(* composed with, for every set of titles and names, every initial library *)
(* that SetupsConsistent describes and every number of threads.            *)
(***************************************************************************)
EXTENDS LibrarySync, SequenceTheorems, FiniteSetTheorems, TLAPS

(* A task is a record whatever it does.                                    *)
TaskShape ==
  task = [t \in Tasks |-> [pc |-> task[t].pc, todo |-> task[t].todo,
                           arg |-> task[t].arg, noted |-> task[t].noted]]
SyncShape ==
  sync = [s \in Syncs |-> [pc |-> sync[s].pc, kind |-> sync[s].kind,
                           todo |-> sync[s].todo, seen |-> sync[s].seen]]

(* The folders, the files, their NFOs and the rows.                        *)
LibraryType == /\ dirs \subseteq Names /\ disk \subseteq StrmFile /\ nfo \subseteq NfoFile
               /\ items \in Seq(ItemRow)
RowRight(k) == /\ items[k].folder \in Names => Of[items[k].folder] = items[k].media
               /\ items[k].media \notin Shows => items[k].ep = 0
FileRight(f) == /\ Of[f.folder] \notin Shows => f.ep = 0
                /\ f.url \in {Direct, Orphan} \cup DOMAIN items
                /\ f.url \in DOMAIN items =>
                     items[f.url].media = Of[f.folder] /\ items[f.url].ep = f.ep
NfoRight(x) == Of[x.title] = Of[x.folder]
SamePath(f, g) == f.folder = g.folder /\ f.stem = g.stem /\ f.ep = g.ep
PathsDiffer == \A f, g \in disk : SamePath(f, g) => f = g
LibraryInv == /\ LibraryType /\ PathsDiffer
              /\ \A k \in DOMAIN items : RowRight(k)
              /\ \A f \in disk : f.folder \in dirs /\ FileRight(f)
              /\ \A x \in nfo : x.folder \in dirs /\ NfoRight(x)

(* What the tasks remember of the library they read before.                *)
PlaceType == [folder : Names, stem : Names, ep : Nat]
Leads(k, p) == /\ k \in DOMAIN items /\ p \in PlaceType
               /\ items[k].media = Of[p.folder] /\ items[k].ep = p.ep
GroupRight(g) == g.folders \subseteq Names /\ \A n \in g.folders : Of[n] = g.media
RenameRight(a) == a.old \in Names /\ a.new \in Names /\ Of[a.old] = Of[a.new]
RenamingRight(a) == RenameRight(a) /\ a = [old |-> a.old, new |-> a.new, rest |-> a.rest]
MovingRight(a) == /\ RenameRight(a) /\ a.old # a.new
                  /\ a = [old |-> a.old, new |-> a.new, strms |-> a.strms, nfos |-> a.nfos]
                  /\ \A p \in a.strms : p \in PlaceType /\ p.folder = a.old

CreateInv == /\ task["create"].pc = "write" =>
                  \A p \in task["create"].todo : Leads(task["create"].arg, p)
             /\ task["create"].pc = "nfo" => task["create"].todo \subseteq Names
RebuildInv(t) == task[t].pc = "rebuild" => \A e \in task[t].todo : Leads(e.row, e.place)
RepairInv == /\ task["repair"].pc = "folders" =>
                  \A n \in task["repair"].todo : n \in Names /\ ~IsShow(n)
             /\ task["repair"].pc = "files" =>
                  \A p \in task["repair"].todo : /\ p \in PlaceType /\ p.ep = 0
                                                 /\ ~IsShow(p.folder)
MigrateInv == /\ \A g \in task["migrate"].todo : GroupRight(g)
              /\ task["migrate"].pc \notin {"idle", "groups"} => RenamingRight(task["migrate"].arg)
DedupInv == task["dedup"].todo \subseteq Names
MergeInv == C.pc = "merge" => \A g \in C.todo : GroupRight(g)
TitlesInv == task["titles"].pc \notin {"idle", "titles"} => MovingRight(task["titles"].arg)
PackInv == task["pack"].pc \in {"unlink", "write"} =>
             /\ \A f \in task["pack"].arg : IsShow(f.folder) /\ f.ep \in Nat
             /\ task["pack"].pc = "write" => \A ep \in task["pack"].todo :
                  ep \in Nat /\ task["pack"].arg # {}
TasksInv == /\ TaskShape /\ CreateInv /\ RebuildInv("generate") /\ RebuildInv("cleanup")
            /\ RepairInv /\ MigrateInv /\ DedupInv /\ MergeInv /\ TitlesInv /\ PackInv

(* The known titles, and what the threads remember.                        *)
RowType == [id : Media \cup Names, title : Names]
RowsInv == /\ rows \subseteq RowType
           /\ \A q, r \in rows : q.id = r.id => q = r
           /\ \A r \in rows : r.id = IF r.id \in Media THEN Of[r.title] ELSE r.title
           /\ watched \subseteq Shows /\ misses \in 0 .. 1
SyncRight(s) ==
  /\ sync[s].pc \in {"idle", "cleanup", "import", "resolve", "monitor", "nfos", "rebuild"}
  /\ sync[s].pc = "import" => sync[s].todo \subseteq Names
  /\ sync[s].pc = "resolve" => \A r \in sync[s].todo :
                                r \in RowType /\ r.id \in Names /\ r.title = r.id
  /\ sync[s].pc = "monitor" => /\ \A n \in sync[s].todo : IsShow(n)
                               /\ \A x \in sync[s].seen :
                                    x.title \in Names => x.show = Of[x.title]
  /\ sync[s].pc = "rebuild" => \A e \in sync[s].todo : Leads(e.row, e.place)
LibInv == LibraryInv /\ TasksInv /\ SyncShape /\ RowsInv /\ \A s \in Syncs : SyncRight(s)

(* A placeholder is one that a thread will ask about.                      *)
Asked(r) == \E s \in Syncs : \/ sync[s].pc = "import"
                             \/ sync[s].pc = "resolve" /\ r \in sync[s].todo
ImportInv == misses = 0 => \A r \in Placeholders : Asked(r)

(* The lock is held by the task that runs under it.                        *)
LockInv == /\ lock \in {"none", "repair", "migrate", "dedup"}
           /\ \A t \in {"repair", "migrate", "dedup"} : task[t].pc # "idle" <=> lock = t

(* While the generator runs alone, a row has its file or is on the list.   *)
Restored(k) == items[k].folder \in Names =>
                 At(Place(items[k])) # {} \/ Duplicated(items[k].folder)
OnList(k) == \E e \in task["generate"].todo : e.row = k /\ e.place = Place(items[k])
Alone == task["generate"].pc # "idle" /\ "generate" \notin past.met
GenerateInv ==
  /\ "generate" \in past.settled => \A k \in DOMAIN items : Restored(k)
  /\ task["generate"].pc \in {"idle", "rebuild", "nfos"}
  /\ Alone =>
       /\ Busy = {"generate"}
       /\ task["generate"].pc = "rebuild" =>
            \A k \in DOMAIN items : Restored(k) \/ OnList(k)
       /\ task["generate"].pc = "nfos" => \A k \in DOMAIN items : Restored(k)
-----------------------------------------------------------------------------
(* What a step leaves of the tasks and of the rows.                        *)
OtherTasks(t) == \A u \in Tasks \ {t} : task'[u] = task[u]
ItemsStay == /\ DOMAIN items \subseteq DOMAIN items'
             /\ \A k \in DOMAIN items : /\ items'[k].media = items[k].media
                                        /\ items'[k].ep = items[k].ep

LEMMA TaskSet ==
  ASSUME TaskShape, NEW t \in Tasks, NEW pc, NEW todo, NEW arg, NEW noted,
         task' = [u \in Tasks |-> task'[u]], OtherTasks(t),
         task'[t] = [pc |-> pc, todo |-> todo, arg |-> arg, noted |-> noted]
  PROVE  TaskShape' /\ task'[t].pc = pc /\ task'[t].todo = todo /\ task'[t].arg = arg
<1>1. task'[t].pc = pc /\ task'[t].todo = todo /\ task'[t].arg = arg
  OBVIOUS
<1>2. \A u \in Tasks : task'[u] = [pc |-> task'[u].pc, todo |-> task'[u].todo,
                                   arg |-> task'[u].arg, noted |-> task'[u].noted]
  <2> SUFFICES ASSUME NEW u \in Tasks
               PROVE  task'[u] = [pc |-> task'[u].pc, todo |-> task'[u].todo,
                                   arg |-> task'[u].arg, noted |-> task'[u].noted]
    OBVIOUS
  <2>1. CASE u = t
    BY <2>1
  <2>2. CASE u # t
    BY <2>2 DEF TaskShape, OtherTasks
  <2> QED
    BY <2>1, <2>2
<1> QED
  BY <1>1, <1>2 DEF TaskShape

LEMMA GoesSets ==
  ASSUME TaskShape, NEW t \in Tasks, NEW pc, NEW todo, Goes(t, pc, todo)
  PROVE  /\ TaskShape' /\ OtherTasks(t)
         /\ task'[t].pc = pc /\ task'[t].todo = todo /\ task'[t].arg = task[t].arg
<1>1. task[t] = [pc |-> task[t].pc, todo |-> task[t].todo, arg |-> task[t].arg,
                 noted |-> task[t].noted]
  BY DEF TaskShape
<1>2. task' = [u \in Tasks |-> task'[u]] /\ OtherTasks(t)
  BY DEF TaskShape, Goes, OtherTasks
<1>3. task'[t] = [pc |-> pc, todo |-> todo, arg |-> task[t].arg, noted |-> task[t].noted]
  BY <1>1 DEF TaskShape, Goes
<1> QED
  BY <1>2, <1>3, TaskSet

LEMMA DoesSets ==
  ASSUME TaskShape, NEW t \in Tasks, NEW x, Does(t, x)
  PROVE  /\ TaskShape' /\ OtherTasks(t)
         /\ task'[t].pc = task[t].pc /\ task'[t].todo = task[t].todo \ {x}
         /\ task'[t].arg = task[t].arg /\ task'[t].noted = task[t].noted
<1>1. task[t] = [pc |-> task[t].pc, todo |-> task[t].todo, arg |-> task[t].arg,
                 noted |-> task[t].noted]
  BY DEF TaskShape
<1>2. task' = [u \in Tasks |-> task'[u]] /\ OtherTasks(t)
  BY DEF TaskShape, Does, OtherTasks
<1>3. task'[t] = [pc |-> task[t].pc, todo |-> task[t].todo \ {x}, arg |-> task[t].arg,
                  noted |-> task[t].noted]
  BY <1>1 DEF TaskShape, Does
<1>4. task'[t].noted = task[t].noted
  BY <1>3
<1> QED
  BY <1>2, <1>3, <1>4, TaskSet

LEMMA TakesSets ==
  ASSUME TaskShape, NEW t \in Tasks, NEW pc, NEW x, NEW arg, Takes(t, pc, x, arg)
  PROVE  /\ TaskShape' /\ OtherTasks(t)
         /\ task'[t].pc = pc /\ task'[t].todo = task[t].todo \ {x} /\ task'[t].arg = arg
         /\ task'[t].noted = task[t].noted
<1>1. task[t] = [pc |-> task[t].pc, todo |-> task[t].todo, arg |-> task[t].arg,
                 noted |-> task[t].noted]
  BY DEF TaskShape
<1>2. task' = [u \in Tasks |-> task'[u]] /\ OtherTasks(t)
  BY DEF TaskShape, Takes, OtherTasks
<1>3. task'[t] = [pc |-> pc, todo |-> task[t].todo \ {x}, arg |-> arg,
                  noted |-> task[t].noted]
  BY <1>1 DEF TaskShape, Takes
<1>4. task'[t].noted = task[t].noted
  BY <1>3
<1> QED
  BY <1>2, <1>3, <1>4, TaskSet

LEMMA NotesSets ==
  ASSUME TaskShape, NEW t \in Tasks, NEW x, Notes(t, x)
  PROVE  /\ TaskShape' /\ OtherTasks(t)
         /\ task'[t].pc = task[t].pc /\ task'[t].todo = task[t].todo \ {x}
         /\ task'[t].arg = task[t].arg /\ task'[t].noted
<1>1. task[t] = [pc |-> task[t].pc, todo |-> task[t].todo, arg |-> task[t].arg,
                 noted |-> task[t].noted]
  BY DEF TaskShape
<1>2. task' = [u \in Tasks |-> task'[u]] /\ OtherTasks(t)
  BY DEF TaskShape, Notes, OtherTasks
<1>3. task'[t] = [pc |-> task[t].pc, todo |-> task[t].todo \ {x}, arg |-> task[t].arg,
                  noted |-> TRUE]
  BY <1>1 DEF TaskShape, Notes
<1>4. task'[t].noted
  BY <1>3
<1> QED
  BY <1>2, <1>3, <1>4, TaskSet

(* A task goes on with the list it has.                                    *)
LEMMA TurnSets ==
  ASSUME TaskShape, NEW t \in Tasks, NEW pc, NEW arg,
         Turns(t, pc, arg)
  PROVE  /\ TaskShape' /\ OtherTasks(t)
         /\ task'[t].pc = pc /\ task'[t].todo = task[t].todo /\ task'[t].arg = arg
         /\ task'[t].noted = task[t].noted
<1>1. task[t] = [pc |-> task[t].pc, todo |-> task[t].todo, arg |-> task[t].arg,
                 noted |-> task[t].noted]
  BY DEF TaskShape
<1>2. task' = [u \in Tasks |-> task'[u]] /\ OtherTasks(t)
  BY DEF TaskShape, Turns, OtherTasks
<1>3. task'[t] = [pc |-> pc, todo |-> task[t].todo, arg |-> arg, noted |-> task[t].noted]
  BY <1>1 DEF TaskShape, Turns
<1>4. task'[t].noted = task[t].noted
  BY <1>3
<1> QED
  BY <1>2, <1>3, <1>4, TaskSet

LEMMA EndsSets ==
  ASSUME TaskShape, NEW t \in Tasks, Ends(t)
  PROVE  /\ TaskShape' /\ OtherTasks(t)
         /\ task'[t].pc = "idle" /\ task'[t].todo = {} /\ task'[t].arg = 0
<1>1. task' = [u \in Tasks |-> task'[u]] /\ OtherTasks(t)
  BY DEF TaskShape, Ends, OtherTasks
<1>2. task'[t] = [pc |-> "idle", todo |-> {}, arg |-> 0, noted |-> FALSE]
  BY DEF TaskShape, Ends, Idle
<1> QED
  BY <1>1, <1>2, TaskSet
-----------------------------------------------------------------------------
(* What a task remembers stays right while the rows keep what they play.   *)
LEMMA LeadsStays ==
  ASSUME ItemsStay, NEW k, NEW p, Leads(k, p)
  PROVE  Leads(k, p)'
BY DEF Leads, ItemsStay

Own(t) == /\ t = "create" => CreateInv
          /\ t \in {"generate", "cleanup"} => RebuildInv(t)
          /\ t = "repair" => RepairInv
          /\ t = "migrate" => MigrateInv
          /\ t = "dedup" => DedupInv
          /\ t = "cleanup" => MergeInv
          /\ t = "titles" => TitlesInv
          /\ t = "pack" => PackInv

LEMMA TasksInvIsOwn == TasksInv <=> TaskShape /\ \A t \in Tasks : Own(t)
BY DEF TasksInv, Own, Tasks

LEMMA OwnStays ==
  ASSUME ItemsStay, NEW t \in Tasks, Own(t), task'[t] = task[t]
  PROVE  Own(t)'
<1>1. CreateInv /\ t = "create" => CreateInv'
  BY LeadsStays DEF CreateInv
<1>2. RebuildInv(t) => RebuildInv(t)'
  BY LeadsStays DEF RebuildInv
<1>3. t = "repair" /\ RepairInv => RepairInv'
  BY DEF RepairInv
<1>4. t = "migrate" /\ MigrateInv => MigrateInv'
  BY DEF MigrateInv, GroupRight, RenamingRight, RenameRight
<1>5. t = "dedup" /\ DedupInv => DedupInv'
  BY DEF DedupInv
<1>6. t = "cleanup" /\ MergeInv => MergeInv'
  BY DEF MergeInv, GroupRight, C
<1>7. t = "titles" /\ TitlesInv => TitlesInv'
  BY DEF TitlesInv, MovingRight, RenameRight
<1>8. t = "pack" /\ PackInv => PackInv'
  BY DEF PackInv
<1> QED
  BY <1>1, <1>2, <1>3, <1>4, <1>5, <1>6, <1>7, <1>8 DEF Own

(* One task takes a step: the others remember what they did.               *)
LEMMA OneTask ==
  ASSUME TasksInv, ItemsStay, NEW t \in Tasks, TaskShape', OtherTasks(t), Own(t)'
  PROVE  TasksInv'
<1>1. \A u \in Tasks : Own(u)'
  BY OwnStays, TasksInvIsOwn DEF OtherTasks
<1> QED
  BY <1>1 DEF TasksInv, Own, Tasks

LEMMA NoTask ==
  ASSUME TasksInv, ItemsStay, UNCHANGED task
  PROVE  TasksInv'
<1>1. TaskShape'
  BY DEF TasksInv, TaskShape
<1>2. "create" \in Tasks
  BY DEF Tasks
<1>3. Own("create") /\ task'["create"] = task["create"]
  BY <1>2, TasksInvIsOwn
<1> QED
  BY <1>1, <1>2, <1>3, OneTask, OwnStays DEF OtherTasks
-----------------------------------------------------------------------------
(* The rows.                                                               *)
LEMMA ItemsFacts ==
  ASSUME items \in Seq(ItemRow)
  PROVE  /\ Len(items) \in Nat /\ DOMAIN items = 1 .. Len(items)
         /\ \A k \in DOMAIN items : items[k] \in ItemRow
OBVIOUS

RowsKept(g) == /\ g \in Seq(ItemRow) /\ DOMAIN g = DOMAIN items
               /\ \A k \in DOMAIN items :
                    /\ g[k].media = items[k].media /\ g[k].ep = items[k].ep
                    /\ g[k].folder \in Names => Of[g[k].folder] = items[k].media
RowsFollow == items' \in Seq(ItemRow) /\ ItemsStay /\ \A k \in DOMAIN items' : RowRight(k)'

LEMMA RowsRewritten ==
  ASSUME items \in Seq(ItemRow), NEW g, g = [k \in DOMAIN items |-> g[k]],
         \A k \in DOMAIN items : g[k] \in ItemRow
  PROVE  g \in Seq(ItemRow) /\ DOMAIN g = DOMAIN items
<1>1. Len(items) \in Nat /\ DOMAIN items = 1 .. Len(items)
  BY ItemsFacts
<1>2. g \in [1 .. Len(items) -> ItemRow]
  BY <1>1
<1> QED
  BY <1>1, <1>2, SeqDef

LEMMA RowsStay ==
  ASSUME LibraryInv, items' = items
  PROVE  RowsFollow
BY DEF LibraryInv, LibraryType, RowsFollow, ItemsStay, RowRight

LEMMA KeptFollow ==
  ASSUME LibraryInv, RowsKept(items')
  PROVE  RowsFollow
BY DEF LibraryInv, RowsKept, RowsFollow, ItemsStay, RowRight

(* A row gets another folder of its title, or another file name.           *)
LEMMA Refoldered ==
  ASSUME NEW r \in ItemRow, NEW n \in Names \cup {Nowhere}, NEW h, h = [r EXCEPT !.folder = n]
  PROVE  h \in ItemRow /\ h.folder = n /\ h.media = r.media /\ h.ep = r.ep
BY DEF ItemRow

LEMMA Renamed ==
  ASSUME NEW r \in ItemRow, NEW n \in Names, NEW h, h = [r EXCEPT !.stem = n]
  PROVE  h \in ItemRow /\ h.folder = r.folder /\ h.media = r.media /\ h.ep = r.ep
BY DEF ItemRow

LEMMA PrefixKeeps ==
  ASSUME LibraryInv, NEW old \in Names, NEW new \in Names, Of[old] = Of[new],
         NEW g, g = RowsUnderPrefix(old, new)
  PROVE  RowsKept(g)
<1> USE LibraryConstants DEF LibraryInv, LibraryType
<1>1. \A k \in DOMAIN items : items[k] \in ItemRow /\ RowRight(k)
  BY ItemsFacts
<1>2. g = [k \in DOMAIN items |-> g[k]]
  BY DEF RowsUnderPrefix
<1>3. ASSUME NEW k \in DOMAIN items
      PROVE  /\ g[k] \in ItemRow /\ g[k].media = items[k].media /\ g[k].ep = items[k].ep
             /\ g[k].folder \in Names => Of[g[k].folder] = items[k].media
  <2>1. CASE items[k].folder \in Begins[old]
    <3> DEFINE n == items[k].folder
               name == Spliced[<<old, new, n>>]
    <3>1. g[k] = [items[k] EXCEPT !.folder = name]
      BY <2>1 DEF RowsUnderPrefix
    <3>2. n \in Names /\ name \in Names
      BY <2>1
    <3>3. Of[name] = Of[n]
      BY <2>1, <3>2, SplicedNames
    <3> HIDE DEF name
    <3> QED
      BY <1>1, <3>1, <3>2, <3>3, Refoldered DEF RowRight
  <2>2. CASE items[k].folder \notin Begins[old]
    <3>1. g[k] = items[k]
      BY <2>2 DEF RowsUnderPrefix
    <3> QED
      BY <1>1, <3>1 DEF RowRight
  <2> QED
    BY <2>1, <2>2
<1> QED
  BY <1>2, <1>3, RowsRewritten DEF RowsKept

(* Rows of the folders in S come to name the folder new.                   *)
LEMMA FoldersKeep ==
  ASSUME LibraryInv, NEW S, NEW new \in Names,
         \A n \in S : n \in Names /\ Of[n] = Of[new],
         NEW g, g = [k \in DOMAIN items |->
                       IF items[k].folder \in S THEN [items[k] EXCEPT !.folder = new]
                       ELSE items[k]]
  PROVE  RowsKept(g)
<1> USE DEF LibraryInv, LibraryType
<1>1. \A k \in DOMAIN items : items[k] \in ItemRow /\ RowRight(k)
  BY ItemsFacts
<1>2. g = [k \in DOMAIN items |-> g[k]]
  OBVIOUS
<1>3. ASSUME NEW k \in DOMAIN items
      PROVE  /\ g[k] \in ItemRow /\ g[k].media = items[k].media /\ g[k].ep = items[k].ep
             /\ g[k].folder \in Names => Of[g[k].folder] = items[k].media
  <2>1. CASE items[k].folder \in S
    <3>1. g[k] = [items[k] EXCEPT !.folder = new]
      BY <2>1
    <3> QED
      BY <1>1, <2>1, <3>1, Refoldered DEF RowRight
  <2>2. CASE items[k].folder \notin S
    <3>1. g[k] = items[k]
      BY <2>2
    <3> QED
      BY <1>1, <3>1 DEF RowRight
  <2> QED
    BY <2>1, <2>2
<1> QED
  BY <1>2, <1>3, RowsRewritten DEF RowsKept

LEMMA FolderKeeps ==
  ASSUME LibraryInv, NEW old \in Names, NEW new \in Names, Of[old] = Of[new],
         NEW g, g = RowsUnderFolder(old, new)
  PROVE  RowsKept(g)
<1>1. g = [k \in DOMAIN items |->
             IF items[k].folder \in {old} THEN [items[k] EXCEPT !.folder = new] ELSE items[k]]
  BY DEF RowsUnderFolder
<1>2. \A n \in {old} : n \in Names /\ Of[n] = Of[new]
  OBVIOUS
<1> QED
  BY <1>1, <1>2, FoldersKeep, Zenon

LEMMA FileKeeps ==
  ASSUME LibraryInv, NEW rs, RowsKept(rs), NEW n, NEW old, NEW new \in Names,
         NEW g, g = RowsOfFile(rs, n, old, new)
  PROVE  RowsKept(g)
<1> USE DEF LibraryInv, LibraryType
<1>1. \A k \in DOMAIN rs : rs[k] \in ItemRow
  BY DEF RowsKept
<1>2. g = [k \in DOMAIN items |-> g[k]]
  BY DEF RowsOfFile, RowsKept
<1>3. ASSUME NEW k \in DOMAIN items
      PROVE  /\ g[k] \in ItemRow /\ g[k].media = rs[k].media /\ g[k].ep = rs[k].ep
             /\ g[k].folder = rs[k].folder
  <2>1. CASE rs[k].folder = n /\ rs[k].stem = old
    <3>1. g[k] = [rs[k] EXCEPT !.stem = new]
      BY <2>1 DEF RowsOfFile, RowsKept
    <3> QED
      BY <1>1, <3>1, Renamed DEF RowsKept
  <2>2. CASE ~(rs[k].folder = n /\ rs[k].stem = old)
    <3>1. g[k] = rs[k]
      BY <2>2 DEF RowsOfFile, RowsKept
    <3> QED
      BY <1>1, <3>1 DEF RowsKept
  <2> QED
    BY <2>1, <2>2
<1> QED
  BY <1>2, <1>3, RowsRewritten DEF RowsKept

LEMMA AppendFollows ==
  ASSUME LibraryInv, NEW r \in ItemRow, items' = Append(items, r),
         r.folder \in Names => Of[r.folder] = r.media, r.media \notin Shows => r.ep = 0
  PROVE  /\ RowsFollow /\ Len(items) + 1 \in DOMAIN items' /\ items'[Len(items) + 1] = r
<1> USE DEF LibraryInv, LibraryType
<1>1. /\ Len(items) \in Nat /\ DOMAIN items = 1 .. Len(items)
      /\ items' \in Seq(ItemRow) /\ DOMAIN items' = 1 .. Len(items) + 1
      /\ items'[Len(items) + 1] = r /\ \A k \in DOMAIN items : items'[k] = items[k]
  BY ItemsFacts
<1> QED
  BY <1>1 DEF RowsFollow, ItemsStay, RowRight
-----------------------------------------------------------------------------
(* The files.  A set of files comes from the disk when each plays what a   *)
(* file on disk plays, for the same title and episode.                     *)
Image(f, g) == f.url = g.url /\ f.ep = g.ep /\ Of[f.folder] = Of[g.folder]
FilesFrom(D) == /\ D \subseteq StrmFile
                /\ \A f \in D : \E g \in disk : Image(f, g)
                /\ \A f, g \in D : SamePath(f, g) => f = g
NfosFrom(X) == X \subseteq NfoFile /\ \A x \in X : NfoRight(x)
FoldersIn(D, ds) == \A f \in D : f.folder \in ds

LEMMA FromStart == LibraryInv => FilesFrom(disk) /\ NfosFrom(nfo)
                                 /\ FoldersIn(disk, dirs) /\ FoldersIn(nfo, dirs)
BY DEF LibraryInv, LibraryType, PathsDiffer, FilesFrom, NfosFrom, FoldersIn, Image

LEMMA FromSubset ==
  ASSUME NEW D, NEW E \in SUBSET D
  PROVE  (FilesFrom(D) => FilesFrom(E)) /\ (NfosFrom(D) => NfosFrom(E))
BY DEF FilesFrom, NfosFrom

LEMMA ImageRight ==
  ASSUME LibraryInv, RowsFollow, NEW f, NEW g \in disk, Image(f, g)
  PROVE  FileRight(f)'
<1>1. items \in Seq(ItemRow) /\ items' \in Seq(ItemRow) /\ FileRight(g) /\ ItemsStay
  BY DEF LibraryInv, LibraryType, RowsFollow
<1>2. DOMAIN items = 1 .. Len(items) /\ DOMAIN items' = 1 .. Len(items')
      /\ Len(items) \in Nat /\ Len(items') \in Nat
  BY <1>1, ItemsFacts
<1>3. g.url \in DOMAIN items' => g.url \in DOMAIN items
  BY <1>1, <1>2 DEF FileRight, Direct, Orphan
<1> QED
  BY <1>1, <1>3 DEF FileRight, Image, ItemsStay

LEMMA Assemble ==
  ASSUME LibraryInv, RowsFollow, dirs' \subseteq Names,
         FilesFrom(disk'), FoldersIn(disk', dirs'), NfosFrom(nfo'), FoldersIn(nfo', dirs')
  PROVE  LibraryInv' /\ ItemsStay
<1>1. \A f \in disk' : FileRight(f)'
  BY ImageRight DEF FilesFrom
<1>2. PathsDiffer'
  BY DEF FilesFrom, PathsDiffer
<1>3. \A x \in nfo' : NfoRight(x)'
  BY DEF NfosFrom, NfoRight
<1> QED
  BY <1>1, <1>2, <1>3 DEF LibraryInv, LibraryType, RowsFollow, FilesFrom, NfosFrom, FoldersIn

LEMMA NothingKeeps ==
  ASSUME LibraryInv, UNCHANGED library
  PROVE  LibraryInv' /\ ItemsStay
BY FromStart, RowsStay, Assemble DEF library, LibraryInv, LibraryType

(* Files, NFOs and folders go.                                             *)
LEMMA ShrinkKeeps ==
  ASSUME LibraryInv, items' = items, disk' \subseteq disk, nfo' \subseteq nfo,
         dirs' \subseteq dirs, FoldersIn(disk', dirs'), FoldersIn(nfo', dirs')
  PROVE  LibraryInv' /\ ItemsStay
<1>1. FilesFrom(disk') /\ NfosFrom(nfo') /\ dirs' \subseteq Names
  BY FromStart, FromSubset DEF LibraryInv, LibraryType
<1> QED
  BY <1>1, RowsStay, Assemble

(* A file is written that leads to a row of its title.                     *)
LEMMA PutKeeps ==
  ASSUME LibraryInv, RowsFollow, NEW k, NEW p, Leads(k, p)', disk' = Put(p, k), nfo' = nfo,
         dirs' = dirs \cup {p.folder}
  PROVE  LibraryInv' /\ ItemsStay
<1> DEFINE f == [folder |-> p.folder, stem |-> p.stem, ep |-> p.ep, url |-> k]
<1>1. p \in PlaceType /\ k \in DOMAIN items' /\ items'[k].media = Of[p.folder]
      /\ items'[k].ep = p.ep /\ RowRight(k)'
  BY DEF Leads, RowsFollow
<1>2. k \in Nat
  BY <1>1 DEF RowsFollow
<1>3. /\ f \in StrmFile /\ f.folder = p.folder /\ f.stem = p.stem /\ f.ep = p.ep /\ f.url = k
  BY <1>1, <1>2 DEF StrmFile, PlaceType
<1>4. disk' = (disk \ At(p)) \cup {f}
  BY DEF Put
<1> HIDE DEF f
<1>5. FileRight(f)'
  BY <1>1, <1>3 DEF FileRight, RowRight
<1>6. \A g \in disk \ At(p) : FileRight(g)' /\ ~SamePath(f, g) /\ ~SamePath(g, f)
  BY <1>3, ImageRight DEF Image, At, SamePath
<1>7. PathsDiffer'
  BY <1>4, <1>6 DEF PathsDiffer, LibraryInv
<1>8. dirs' \subseteq Names /\ disk' \subseteq StrmFile
  BY <1>1, <1>3, <1>4 DEF LibraryInv, LibraryType, PlaceType
<1> QED
  BY <1>3, <1>4, <1>5, <1>6, <1>7, <1>8 DEF LibraryInv, LibraryType, RowsFollow, NfoRight

(* A folder's files get another folder of the title, ...                   *)
LEMMA FileMoved ==
  ASSUME NEW f \in StrmFile, NEW n \in Names, NEW h, h = [f EXCEPT !.folder = n]
  PROVE  h \in StrmFile /\ h.folder = n /\ h.stem = f.stem /\ h.ep = f.ep /\ h.url = f.url
BY DEF StrmFile

LEMMA FileRestemmed ==
  ASSUME NEW f \in StrmFile, NEW n \in Names, NEW h, h = [f EXCEPT !.stem = n]
  PROVE  h \in StrmFile /\ h.folder = f.folder /\ h.stem = n /\ h.ep = f.ep /\ h.url = f.url
BY DEF StrmFile

LEMMA NfoMoved ==
  ASSUME NEW x \in NfoFile, NEW n \in Names, NEW h, h = [x EXCEPT !.folder = n]
  PROVE  h \in NfoFile /\ h.folder = n /\ h.title = x.title
BY DEF NfoFile

LEMMA NfoRestemmed ==
  ASSUME NEW x \in NfoFile, NEW n \in Names, NEW h, h = [x EXCEPT !.stem = n]
  PROVE  h \in NfoFile /\ h.folder = x.folder /\ h.title = x.title
BY DEF NfoFile

LEMMA MovedFrom ==
  ASSUME NEW D, FilesFrom(D), NEW old \in Names, NEW new \in Names, Of[old] = Of[new],
         \A f, g \in D : f.folder = old /\ g.folder = new => ~(f.stem = g.stem /\ f.ep = g.ep)
  PROVE  FilesFrom(Moved(D, old, new))
<1> DEFINE mv(f) == IF f.folder = old THEN [f EXCEPT !.folder = new] ELSE f
<1>1. ASSUME NEW f \in D
      PROVE  /\ mv(f) \in StrmFile /\ mv(f).stem = f.stem /\ mv(f).ep = f.ep
             /\ mv(f).url = f.url /\ mv(f).folder = IF f.folder = old THEN new ELSE f.folder
  <2>1. CASE f.folder = old
    BY <2>1, FileMoved DEF FilesFrom
  <2>2. CASE f.folder # old
    BY <2>2 DEF FilesFrom
  <2> QED
    BY <2>1, <2>2
<1>2. Moved(D, old, new) = {mv(f) : f \in D}
  BY DEF Moved
<1> HIDE DEF mv
<1>3. \A f \in D : \E g \in disk : Image(mv(f), g)
  BY <1>1 DEF FilesFrom, Image
<1>4. \A f, g \in D : SamePath(mv(f), mv(g)) => f = g
  BY <1>1 DEF FilesFrom, SamePath
<1> QED
  BY <1>1, <1>2, <1>3, <1>4 DEF FilesFrom

LEMMA NfosMovedFrom ==
  ASSUME NEW X, NfosFrom(X), NEW old \in Names, NEW new \in Names, Of[old] = Of[new]
  PROVE  NfosFrom(Moved(X, old, new))
<1> DEFINE mv(f) == IF f.folder = old THEN [f EXCEPT !.folder = new] ELSE f
<1>1. ASSUME NEW f \in X
      PROVE  mv(f) \in NfoFile /\ NfoRight(mv(f))
  <2>1. CASE f.folder = old
    BY <2>1, NfoMoved DEF NfosFrom, NfoRight
  <2>2. CASE f.folder # old
    BY <2>2 DEF NfosFrom
  <2> QED
    BY <2>1, <2>2
<1>2. Moved(X, old, new) = {mv(f) : f \in X}
  BY DEF Moved
<1> QED
  BY <1>1, <1>2 DEF NfosFrom

LEMMA MovedFolders ==
  ASSUME NEW D, D \subseteq StrmFile \/ D \subseteq NfoFile,
         NEW ds, FoldersIn(D, ds), NEW old, NEW new \in Names
  PROVE  FoldersIn(Moved(D, old, new), (ds \ {old}) \cup {new})
<1> DEFINE mv(f) == IF f.folder = old THEN [f EXCEPT !.folder = new] ELSE f
<1>1. ASSUME NEW f \in D
      PROVE  mv(f).folder \in (ds \ {old}) \cup {new}
  <2>1. CASE f.folder = old
    BY <2>1, FileMoved, NfoMoved
  <2>2. CASE f.folder # old
    BY <2>2 DEF FoldersIn
  <2> QED
    BY <2>1, <2>2
<1>2. Moved(D, old, new) = {mv(f) : f \in D}
  BY DEF Moved
<1> QED
  BY <1>1, <1>2 DEF FoldersIn

(* ... or another name, if none of the folder has it.                      *)
LEMMA RestemmedFrom ==
  ASSUME NEW D, FilesFrom(D), NEW n, NEW old, NEW new \in Names
  PROVE  FilesFrom(Restemmed(D, n, old, new))
<1> DEFINE mv(f) == IF f.folder = n /\ f.stem = old THEN [f EXCEPT !.stem = new] ELSE f
<1>1. ASSUME NEW f \in D
      PROVE  /\ mv(f) \in StrmFile /\ mv(f).folder = f.folder /\ mv(f).ep = f.ep
             /\ mv(f).url = f.url
             /\ mv(f).stem = IF f.folder = n /\ f.stem = old THEN new ELSE f.stem
  <2>1. CASE f.folder = n /\ f.stem = old
    BY <2>1, FileRestemmed DEF FilesFrom
  <2>2. CASE ~(f.folder = n /\ f.stem = old)
    BY <2>2 DEF FilesFrom
  <2> QED
    BY <2>1, <2>2
<1>2. CASE \E f \in D : f.folder = n /\ f.stem = new
  BY <1>2 DEF Restemmed
<1>3. CASE ~\E f \in D : f.folder = n /\ f.stem = new
  <2>1. Restemmed(D, n, old, new) = {mv(f) : f \in D}
    BY <1>3 DEF Restemmed
  <2> HIDE DEF mv
  <2>2. \A f \in D : \E g \in disk : Image(mv(f), g)
    BY <1>1 DEF FilesFrom, Image
  <2>3. \A f, g \in D : SamePath(mv(f), mv(g)) => f = g
    BY <1>1, <1>3 DEF FilesFrom, SamePath
  <2> QED
    BY <1>1, <2>1, <2>2, <2>3 DEF FilesFrom
<1> QED
  BY <1>2, <1>3

LEMMA NfosRestemmedFrom ==
  ASSUME NEW X, NfosFrom(X), NEW n, NEW old, NEW new \in Names
  PROVE  NfosFrom(Restemmed(X, n, old, new))
<1> DEFINE mv(f) == IF f.folder = n /\ f.stem = old THEN [f EXCEPT !.stem = new] ELSE f
<1>1. ASSUME NEW f \in X
      PROVE  mv(f) \in NfoFile /\ NfoRight(mv(f))
  <2>1. CASE f.folder = n /\ f.stem = old
    BY <2>1, NfoRestemmed DEF NfosFrom, NfoRight
  <2>2. CASE ~(f.folder = n /\ f.stem = old)
    BY <2>2 DEF NfosFrom
  <2> QED
    BY <2>1, <2>2
<1>2. Restemmed(X, n, old, new) \in {X, {mv(f) : f \in X}}
  BY DEF Restemmed
<1> QED
  BY <1>1, <1>2 DEF NfosFrom

LEMMA RestemmedFolders ==
  ASSUME NEW D, D \subseteq StrmFile \/ D \subseteq NfoFile,
         NEW ds, FoldersIn(D, ds), NEW n, NEW old, NEW new \in Names
  PROVE  FoldersIn(Restemmed(D, n, old, new), ds)
<1> DEFINE mv(f) == IF f.folder = n /\ f.stem = old THEN [f EXCEPT !.stem = new] ELSE f
<1>1. ASSUME NEW f \in D
      PROVE  mv(f).folder \in ds
  <2>1. CASE f.folder = n /\ f.stem = old
    BY <2>1, FileRestemmed, NfoRestemmed DEF FoldersIn
  <2>2. CASE ~(f.folder = n /\ f.stem = old)
    BY <2>2 DEF FoldersIn
  <2> QED
    BY <2>1, <2>2
<1>2. Restemmed(D, n, old, new) \in {D, {mv(f) : f \in D}}
  BY DEF Restemmed
<1> QED
  BY <1>1, <1>2 DEF FoldersIn

(* The copies a merge makes are files of the title, at paths of their own. *)
LEMMA MergedFrom ==
  ASSUME LibraryInv, NEW keep \in Names, NEW dups, NEW renamed \in BOOLEAN,
         \A n \in dups : Of[n] = Of[keep]
  PROVE  /\ FilesFrom(Merged(dups, keep, renamed))
         /\ FoldersIn(Merged(dups, keep, renamed), (dirs \ dups) \cup {keep})
<1> DEFINE c(f)  == [f EXCEPT !.folder = keep, !.stem = IF renamed THEN keep ELSE @]
           all   == UNION {Copies(d, keep, renamed) : d \in dups}
           free  == {f \in all : At(Place(f)) = {}}
           old   == {f \in disk : f.folder \notin dups}
           first(p) == CHOOSE g \in free : Place(g) = p
           new   == {f \in free : f = CHOOSE g \in free : Place(g) = Place(f)}
<1>1. disk \subseteq StrmFile /\ \A f \in disk : f.folder \in dirs
  BY DEF LibraryInv, LibraryType
<1>2. ASSUME NEW f \in disk
      PROVE  /\ c(f) \in StrmFile /\ c(f).folder = keep /\ c(f).ep = f.ep /\ c(f).url = f.url
  BY <1>1 DEF StrmFile
<1>3. ASSUME NEW h \in all
      PROVE  h \in StrmFile /\ h.folder = keep /\ \E g \in disk : Image(h, g)
  <2> PICK d \in dups : h \in Copies(d, keep, renamed)
    OBVIOUS
  <2> PICK f \in In(d) : h = c(f)
    BY DEF Copies
  <2>1. f \in disk /\ f.folder \in dups
    BY DEF In
  <2> QED
    BY <1>2, <2>1 DEF Image
<1>4. Merged(dups, keep, renamed) = old \cup new
  BY DEF Merged
<1>5. ASSUME NEW f \in new, NEW g \in old PROVE ~SamePath(f, g) /\ ~SamePath(g, f)
  <2>1. At(Place(f)) = {} /\ g \in disk
    OBVIOUS
  <2> QED
    BY <2>1 DEF At, Place, SamePath
<1>6. ASSUME NEW f \in new, NEW g \in new, SamePath(f, g) PROVE f = g
  <2>1. f = first(Place(f)) /\ g = first(Place(g))
    OBVIOUS
  <2>2. Place(f) = Place(g)
    BY <1>6 DEF SamePath, Place
  <2> HIDE DEF first
  <2> QED
    BY <2>1, <2>2
<1>7. ASSUME NEW f \in old, NEW g \in old, SamePath(f, g) PROVE f = g
  BY <1>7 DEF LibraryInv, PathsDiffer
<1>8. new \subseteq all
  OBVIOUS
<1>9. \A f \in old \cup new : f \in StrmFile /\ \E g \in disk : Image(f, g)
  BY <1>1, <1>3, <1>8 DEF Image
<1>10. \A f \in old \cup new : f.folder \in (dirs \ dups) \cup {keep}
  BY <1>1, <1>3, <1>8
<1> HIDE DEF old, new
<1>11. FilesFrom(old \cup new)
  BY <1>5, <1>6, <1>7, <1>9 DEF FilesFrom
<1> QED
  BY <1>4, <1>10, <1>11 DEF FoldersIn

LEMMA NfoKeeps ==
  ASSUME LibraryInv, NEW n \in dirs, NEW s \in Names, nfo' = WithNfo(n, s),
         UNCHANGED <<dirs, disk, items>>
  PROVE  LibraryInv' /\ ItemsStay
<1> DEFINE x == [folder |-> n, stem |-> s, title |-> n]
<1>1. n \in Names
  BY DEF LibraryInv, LibraryType
<1>2. x \in NfoFile /\ x.folder = n /\ x.title = n
  BY <1>1 DEF NfoFile
<1>3. nfo' \subseteq nfo \cup {x}
  BY DEF WithNfo
<1> HIDE DEF x
<1>4. NfosFrom(nfo') /\ FoldersIn(nfo', dirs')
  BY <1>2, <1>3, FromStart DEF NfosFrom, NfoRight, FoldersIn
<1>5. dirs' \subseteq Names
  BY DEF LibraryInv, LibraryType
<1> QED
  BY <1>4, <1>5, FromStart, RowsStay, Assemble

(* A file is written unless its place is taken.                            *)
LEMMA WriteKeeps ==
  ASSUME LibraryInv, NEW p, NEW k, Leads(k, p), WriteStrm(p, k), UNCHANGED <<nfo, items>>
  PROVE  LibraryInv' /\ ItemsStay
<1>1. CASE At(p) = {} /\ ~Duplicated(p.folder)
  <2>1. dirs' = dirs \cup {p.folder} /\ disk' = Put(p, k)
    BY <1>1 DEF WriteStrm
  <2>2. RowsFollow
    BY RowsStay
  <2>3. Leads(k, p)'
    BY <2>2, LeadsStays DEF RowsFollow
  <2> QED
    BY <2>1, <2>2, <2>3, PutKeeps
<1>2. CASE ~(At(p) = {} /\ ~Duplicated(p.folder))
  BY <1>2, NothingKeeps DEF WriteStrm, library
<1> QED
  BY <1>1, <1>2

LEMMA RebuiltKeeps ==
  ASSUME LibraryInv, NEW e, Leads(e.row, e.place), Rebuilt(e), UNCHANGED <<nfo, items>>
  PROVE  LibraryInv' /\ ItemsStay
<1> USE DEF LibraryInv, LibraryType
<1>1. CASE At(e.place) = {} /\ ~Duplicated(e.place.folder)
  <2>1. dirs' = dirs \cup {e.place.folder} /\ disk' = Put(e.place, e.row)
    BY <1>1 DEF Rebuilt
  <2>2. RowsFollow
    BY RowsStay
  <2>3. Leads(e.row, e.place)'
    BY <2>2, LeadsStays DEF RowsFollow
  <2> QED
    BY <2>1, <2>2, <2>3, PutKeeps
<1>2. CASE At(e.place) = {} /\ Duplicated(e.place.folder)
  <2>1. dirs' = dirs \cup {e.place.folder} /\ disk' = disk
    BY <1>2 DEF Rebuilt
  <2>2. dirs' \subseteq Names
    BY <2>1 DEF Leads, PlaceType
  <2>3. FoldersIn(disk', dirs') /\ FoldersIn(nfo', dirs')
    BY <2>1, FromStart DEF FoldersIn
  <2> QED
    BY <2>1, <2>2, <2>3, FromStart, RowsStay, Assemble
<1>3. CASE At(e.place) # {}
  BY <1>3, NothingKeeps DEF Rebuilt, library
<1> QED
  BY <1>1, <1>2, <1>3
-----------------------------------------------------------------------------
(* The steps, task by task.                                                *)
Kept == LibraryInv' /\ ItemsStay /\ TasksInv'

LEMMA TaskNames == Tasks = {"create", "generate", "repair", "migrate", "dedup", "cleanup",
                            "pack", "titles"}
BY DEF Tasks

LEMMA CreateKeeps ==
  ASSUME LibraryInv, TasksInv, NEW m \in Media, NEW name \in Names, NEW ep \in 0 .. 1,
         ep = 0 <=> m \notin Shows, Create(m, name, ep)
  PROVE  Kept
<1> DEFINE p == [folder |-> name, stem |-> name, ep |-> ep]
           r == [media |-> m, named |-> TRUE, folder |-> name, stem |-> name, ep |-> ep]
<1>1. UNCHANGED <<dirs, disk, nfo>> /\ Of[name] = m
  BY DEF Create
<1>2. CASE UNCHANGED <<items, task>>
  BY <1>1, <1>2, NothingKeeps, NoTask DEF library, Kept
<1>3. CASE ~UNCHANGED <<items, task>>
  <2>1. /\ items' = Append(items, r)
        /\ task' = [task EXCEPT !["create"] =
                      [Idle EXCEPT !.pc = "write", !.todo = {p}, !.arg = Len(items) + 1]]
    BY <1>3 DEF Create
  <2>2. /\ r \in ItemRow /\ r.folder = name /\ r.media = m /\ r.ep = ep
        /\ p \in PlaceType /\ p.folder = name /\ p.ep = ep
    BY DEF ItemRow, PlaceType
  <2>3. "create" \in Tasks /\ TaskShape
    BY DEF Tasks, TasksInv
  <2>4. /\ task' = [u \in Tasks |-> task'[u]] /\ OtherTasks("create")
        /\ task'["create"] = [pc |-> "write", todo |-> {p}, arg |-> Len(items) + 1,
                              noted |-> FALSE]
    BY <2>1, <2>3 DEF TaskShape, OtherTasks, Idle
  <2> HIDE DEF p, r
  <2>5. /\ TaskShape' /\ task'["create"].pc = "write" /\ task'["create"].todo = {p}
        /\ task'["create"].arg = Len(items) + 1
    BY <2>3, <2>4, TaskSet
  <2>6. RowsFollow /\ Len(items) + 1 \in DOMAIN items' /\ items'[Len(items) + 1] = r
    BY <1>1, <2>1, <2>2, AppendFollows
  <2>7. LibraryInv' /\ ItemsStay
    <3>1. dirs' \subseteq Names
      BY <1>1 DEF LibraryInv, LibraryType
    <3> QED
      BY <1>1, <2>6, <3>1, FromStart, Assemble
  <2>8. Own("create")'
    BY <1>1, <2>2, <2>5, <2>6 DEF Own, CreateInv, Leads
  <2> QED
    BY <2>3, <2>4, <2>5, <2>7, <2>8, OneTask DEF Kept
<1> QED
  BY <1>2, <1>3

LEMMA CreateWriteKeeps ==
  ASSUME LibraryInv, TasksInv, CreateWrite
  PROVE  Kept
<1> PICK p \in task["create"].todo :
      /\ task["create"].pc = "write" /\ WriteStrm(p, task["create"].arg)
      /\ (IF disk' # disk THEN Goes("create", "nfo", {p.folder}) ELSE Ends("create"))
      /\ UNCHANGED <<nfo, items>>
  BY DEF CreateWrite
<1>1. Leads(task["create"].arg, p) /\ "create" \in Tasks /\ TaskShape
  BY DEF TasksInv, CreateInv, Tasks
<1>2. LibraryInv' /\ ItemsStay
  BY <1>1, WriteKeeps
<1>3. /\ TaskShape' /\ OtherTasks("create")
      /\ \/ task'["create"].pc = "nfo" /\ task'["create"].todo = {p.folder}
         \/ task'["create"].pc = "idle"
  BY <1>1, GoesSets, EndsSets
<1>4. Own("create")'
  BY <1>1, <1>3 DEF Own, CreateInv, Leads, PlaceType
<1> QED
  BY <1>1, <1>2, <1>3, <1>4, OneTask DEF Kept

LEMMA CreateNfoKeeps ==
  ASSUME LibraryInv, TasksInv, CreateNfo
  PROVE  Kept
<1> PICK n \in task["create"].todo :
      /\ task["create"].pc = "nfo" /\ Ends("create")
      /\ nfo' = IF n \in dirs THEN WithNfo(n, n) ELSE nfo
      /\ UNCHANGED <<dirs, disk, items>>
  BY DEF CreateNfo
<1>1. n \in Names /\ "create" \in Tasks /\ TaskShape
  BY DEF TasksInv, CreateInv, Tasks
<1>2. LibraryInv' /\ ItemsStay
  BY <1>1, NfoKeeps, NothingKeeps DEF library
<1>3. TaskShape' /\ OtherTasks("create") /\ task'["create"].pc = "idle"
  BY <1>1, EndsSets
<1>4. Own("create")'
  BY <1>3 DEF Own, CreateInv
<1> QED
  BY <1>1, <1>2, <1>3, <1>4, OneTask DEF Kept

(* A task takes one thing off its list, or ends.                           *)
LEMMA DoesKeeps ==
  ASSUME TasksInv, ItemsStay, NEW t \in Tasks, NEW x, Does(t, x)
  PROVE  TasksInv'
<1>1. /\ TaskShape' /\ OtherTasks(t) /\ task'[t].pc = task[t].pc
      /\ task'[t].todo = task[t].todo \ {x} /\ task'[t].arg = task[t].arg
  BY DoesSets DEF TasksInv
<1>2. Own(t)
  BY TasksInvIsOwn
<1>3. t = "create" => CreateInv'
  BY <1>1, <1>2, LeadsStays DEF Own, CreateInv
<1>4. t \in {"generate", "cleanup"} => RebuildInv(t)'
  BY <1>1, <1>2, LeadsStays DEF Own, RebuildInv
<1>5. t = "repair" => RepairInv'
  BY <1>1, <1>2 DEF Own, RepairInv
<1>6. t = "migrate" => MigrateInv'
  BY <1>1, <1>2 DEF Own, MigrateInv, GroupRight, RenamingRight, RenameRight
<1>7. (t = "dedup" => DedupInv') /\ (t = "titles" => TitlesInv')
  BY <1>1, <1>2 DEF Own, DedupInv, TitlesInv, MovingRight, RenameRight
<1>8. t = "cleanup" => MergeInv'
  BY <1>1, <1>2 DEF Own, MergeInv, GroupRight, C
<1>9. t = "pack" => PackInv'
  BY <1>1, <1>2 DEF Own, PackInv
<1>10. Own(t)'
  BY <1>3, <1>4, <1>5, <1>6, <1>7, <1>8, <1>9 DEF Own
<1> QED
  BY <1>1, <1>10, OneTask

LEMMA EndsKeeps ==
  ASSUME TasksInv, ItemsStay, NEW t \in Tasks, Ends(t)
  PROVE  TasksInv'
<1>1. /\ TaskShape' /\ OtherTasks(t) /\ task'[t].pc = "idle" /\ task'[t].todo = {}
  BY EndsSets DEF TasksInv
<1>2. Own(t)'
  BY <1>1 DEF Own, CreateInv, RebuildInv, RepairInv, MigrateInv, DedupInv, MergeInv,
     TitlesInv, PackInv, C
<1> QED
  BY <1>1, <1>2, OneTask

LEMMA RowListLeads == LibraryInv => \A e \in RowList : Leads(e.row, e.place)
<1> SUFFICES ASSUME LibraryInv, NEW e \in RowList PROVE Leads(e.row, e.place)
  OBVIOUS
<1> PICK k \in DOMAIN items : items[k].folder \in Names
                              /\ e = [row |-> k, place |-> Place(items[k])]
  BY DEF RowList
<1>1. e.row = k /\ e.place = Place(items[k])
  OBVIOUS
<1>2. items[k] \in ItemRow /\ RowRight(k)
  BY ItemsFacts DEF LibraryInv, LibraryType
<1>3. Place(items[k]) \in PlaceType /\ Place(items[k]).folder = items[k].folder
      /\ Place(items[k]).ep = items[k].ep
  BY <1>2 DEF Place, PlaceType, ItemRow
<1> QED
  BY <1>1, <1>2, <1>3 DEF Leads, RowRight

LEMMA GenerateKeeps ==
  ASSUME LibraryInv, TasksInv, NEW t \in {"generate", "cleanup"}, GenerateStep(t)
  PROVE  Kept
<1>0. t \in Tasks /\ TaskShape /\ RebuildInv(t)
  BY DEF TasksInv, Tasks
<1>1. CASE Rebuild(t)
  <2> PICK e \in task[t].todo : /\ task[t].pc = "rebuild" /\ Does(t, e) /\ Rebuilt(e)
                                /\ UNCHANGED <<nfo, items>>
    BY <1>1 DEF Rebuild
  <2>1. Leads(e.row, e.place)
    BY <1>0 DEF RebuildInv
  <2>2. LibraryInv' /\ ItemsStay
    BY <2>1, RebuiltKeeps
  <2> QED
    BY <1>0, <2>2, DoesKeeps DEF Kept
<1>2. CASE RebuildDone(t)
  <2>1. Goes(t, "nfos", dirs) /\ UNCHANGED library
    BY <1>2 DEF RebuildDone
  <2>2. LibraryInv' /\ ItemsStay
    BY <2>1, NothingKeeps
  <2>3. TaskShape' /\ OtherTasks(t) /\ task'[t].pc = "nfos"
    BY <1>0, <2>1, GoesSets
  <2>4. Own(t)'
    BY <2>3 DEF Own, RebuildInv, MergeInv, C
  <2> QED
    BY <1>0, <2>2, <2>3, <2>4, OneTask DEF Kept
<1>3. CASE WriteNfo(t)
  <2> PICK n \in task[t].todo : /\ Does(t, n) /\ UNCHANGED <<dirs, disk, items>>
                                /\ (n \in dirs /\ nfo' = WithNfo(n, n)) \/ UNCHANGED nfo
    BY <1>3 DEF WriteNfo
  <2>1. dirs \subseteq Names
    BY DEF LibraryInv, LibraryType
  <2>2. LibraryInv' /\ ItemsStay
    BY <2>1, NfoKeeps, NothingKeeps DEF library
  <2> QED
    BY <1>0, <2>2, DoesKeeps DEF Kept
<1>4. CASE NfosDone(t)
  BY <1>0, <1>4, NothingKeeps, EndsKeeps DEF NfosDone, Kept
<1> QED
  BY <1>1, <1>2, <1>3, <1>4 DEF GenerateStep

(* Of finitely many numbers one is the greatest: the one with the fewest   *)
(* above it.                                                               *)
LEMMA GreatestOfFew ==
  ASSUME NEW M, M \subseteq Nat, IsFiniteSet(M), M # {}
  PROVE  \E i \in M : \A j \in M : j <= i
<1> DEFINE above(k) == {j \in M : j > k}
           T == {above(k) : k \in M}
<1>1. FiniteSubsetsOf(M) = SUBSET M
  BY FS_FiniteSubsetsOfFinite
<1>2. IsWellFoundedOn(StrictSubsetOrdering(M), FiniteSubsetsOf(M))
  BY FS_StrictSubsetOrderingWellFounded
<1>3. T \subseteq FiniteSubsetsOf(M) /\ T # {}
  <2>1. \A i \in M : above(i) \in SUBSET M
    OBVIOUS
  <2>2. T \subseteq SUBSET M
    BY <2>1
  <2>3. T # {}
    OBVIOUS
  <2> HIDE DEF T
  <2> QED
    BY <1>1, <2>2, <2>3
<1> HIDE DEF T
<1>4. PICK U \in T : \A V \in T : ~(<<V, U>> \in StrictSubsetOrdering(M))
  BY <1>2, <1>3, WFMin
<1>5. PICK k \in M : U = above(k)
  BY DEF T
<1>6. ASSUME NEW j \in M, j > k PROVE FALSE
  <2>1. \A i \in M : i \in Nat
    OBVIOUS
  <2>2. above(j) \subseteq above(k) /\ j \in above(k) /\ j \notin above(j)
    <3>1. j \in Nat /\ k \in Nat /\ ~(j > j)
      BY <2>1
    <3>2. ASSUME NEW i \in M, i > j PROVE i > k
      BY <1>6, <2>1, <3>1, <3>2
    <3> QED
      BY <1>6, <3>1, <3>2
  <2>3. above(j) \in T
    BY DEF T
  <2> HIDE DEF above
  <2>4. above(j) \in SUBSET M /\ above(k) \in SUBSET M /\ above(j) # above(k)
    BY <2>2 DEF above
  <2>5. <<above(j), above(k)>> \in StrictSubsetOrdering(M)
    BY <2>2, <2>4 DEF StrictSubsetOrdering
  <2> QED
    BY <1>4, <1>5, <2>3, <2>5
<1>7. \A i \in M : i \in Nat
  OBVIOUS
<1> QED
  BY <1>6, <1>7

(* A relinked file leads to a row of the title of its folder.              *)
(* A file is relinked to one of the rows of its title.                     *)
LEMMA RelinkPuts ==
  ASSUME LibraryInv, NEW m, NEW p, RowsOf(m) # {}, Relink(m, p)
  PROVE  \E k \in RowsOf(m) : dirs' = dirs \cup {p.folder} /\ disk' = Put(p, k)
<1> DEFINE own   == {k \in RowsOf(m) : Place(items[k]) = p}
           first == CHOOSE k \in RowsOf(m) : \A j \in RowsOf(m) : j <= k
           k     == IF own # {} THEN CHOOSE i \in own : TRUE ELSE first
<1>1. \E i \in RowsOf(m) : \A j \in RowsOf(m) : j <= i
  <2>1. DOMAIN items = 1 .. Len(items) /\ Len(items) \in Nat
    BY ItemsFacts DEF LibraryInv, LibraryType
  <2>2. IsFiniteSet(1 .. Len(items))
    BY <2>1, FS_Interval
  <2>3. IsFiniteSet(RowsOf(m)) /\ RowsOf(m) \subseteq Nat
    BY <2>1, <2>2, FS_Subset DEF RowsOf
  <2> QED
    BY <2>3, GreatestOfFew
<1>2. k \in RowsOf(m)
  BY <1>1
<1>3. dirs' = dirs \cup {p.folder} /\ disk' = Put(p, k)
  BY DEF Relink
<1> HIDE DEF k
<1> QED
  BY <1>2, <1>3

LEMMA RelinkKeeps ==
  ASSUME LibraryInv, NEW m, NEW p \in PlaceType, m = Of[p.folder], p.ep = 0, m \notin Shows,
         RowsOf(m) # {}, Relink(m, p), UNCHANGED <<nfo, items>>
  PROVE  LibraryInv' /\ ItemsStay
<1>1. \A i \in RowsOf(m) : i \in DOMAIN items /\ items[i].media = m /\ RowRight(i)
  BY DEF RowsOf, LibraryInv
<1>2. PICK k \in RowsOf(m) : dirs' = dirs \cup {p.folder} /\ disk' = Put(p, k)
  BY RelinkPuts
<1>3. RowsFollow
  BY RowsStay
<1>4. Leads(k, p)
  BY <1>1 DEF Leads, RowRight
<1> QED
  BY <1>2, <1>3, <1>4, LeadsStays, PutKeeps DEF RowsFollow

LEMMA RepairKeeps ==
  ASSUME LibraryInv, TasksInv, RepairStep
  PROVE  Kept
<1>0. "repair" \in Tasks /\ TaskShape /\ RepairInv
  BY DEF TasksInv, Tasks
<1>1. CASE RepairFolder
  <2> PICK n \in task["repair"].todo :
        /\ task["repair"].pc = "folders" /\ Does("repair", n) /\ UNCHANGED <<nfo, items>>
        /\ \/ UNCHANGED <<dirs, disk>>
           \/ /\ RowsOf(Of[n]) # {}
              /\ Relink(Of[n], [folder |-> n, stem |-> n, ep |-> 0])
    BY <1>1 DEF RepairFolder
  <2> DEFINE p == [folder |-> n, stem |-> n, ep |-> 0]
  <2>1. n \in Names /\ Of[n] \notin Shows
    BY <1>0 DEF RepairInv, IsShow
  <2>2. p \in PlaceType /\ p.folder = n /\ p.ep = 0
    BY <2>1 DEF PlaceType
  <2>3. UNCHANGED <<dirs, disk>> \/ (RowsOf(Of[n]) # {} /\ Relink(Of[n], p))
    OBVIOUS
  <2> HIDE DEF p
  <2>4. LibraryInv' /\ ItemsStay
    BY <2>1, <2>2, <2>3, RelinkKeeps, NothingKeeps DEF library
  <2> QED
    BY <1>0, <2>4, DoesKeeps DEF Kept
<1>2. CASE RepairFolders
  <2>1. /\ Goes("repair", "files", {Place(f) : f \in FilmFiles(disk)}) /\ UNCHANGED library
    BY <1>2 DEF RepairFolders
  <2>2. LibraryInv' /\ ItemsStay
    BY <2>1, NothingKeeps
  <2>3. /\ TaskShape' /\ OtherTasks("repair") /\ task'["repair"].pc = "files"
        /\ task'["repair"].todo = {Place(f) : f \in FilmFiles(disk)}
    BY <1>0, <2>1, GoesSets
  <2>4. ASSUME NEW f \in FilmFiles(disk)
        PROVE  Place(f) \in PlaceType /\ Place(f).ep = 0 /\ ~IsShow(Place(f).folder)
    <3>1. f \in StrmFile /\ FileRight(f) /\ ~IsShow(f.folder)
      BY DEF FilmFiles, LibraryInv, LibraryType
    <3>2. Place(f) \in PlaceType /\ Place(f).ep = f.ep /\ Place(f).folder = f.folder
      BY <3>1 DEF StrmFile, PlaceType, Place
    <3> QED
      BY <3>1, <3>2 DEF FileRight, IsShow
  <2>5. Own("repair")'
    BY <2>3, <2>4 DEF Own, RepairInv, IsShow
  <2> QED
    BY <1>0, <2>2, <2>3, <2>5, OneTask DEF Kept
<1>3. CASE RepairFile
  <2> PICK p \in task["repair"].todo :
        /\ task["repair"].pc = "files" /\ Does("repair", p) /\ UNCHANGED <<nfo, items>>
        /\ \/ UNCHANGED <<dirs, disk>>
           \/ RowsOf(Of[p.folder]) # {} /\ Relink(Of[p.folder], p)
           \/ disk' = disk \ At(p) /\ UNCHANGED dirs
    BY <1>3 DEF RepairFile
  <2>1. p \in PlaceType /\ p.ep = 0 /\ Of[p.folder] \notin Shows
    BY <1>0 DEF RepairInv, IsShow
  <2>2. disk' = disk \ At(p) /\ UNCHANGED dirs => LibraryInv' /\ ItemsStay
    BY FromStart, ShrinkKeeps DEF FoldersIn
  <2>3. LibraryInv' /\ ItemsStay
    BY <2>1, <2>2, RelinkKeeps, NothingKeeps DEF library
  <2> QED
    BY <1>0, <2>3, DoesKeeps DEF Kept
<1>4. CASE RepairDone
  BY <1>0, <1>4, NothingKeeps, EndsKeeps DEF RepairDone, Kept
<1> QED
  BY <1>1, <1>2, <1>3, <1>4 DEF RepairStep

(* A folder gets a name no folder has; folders are deleted.                *)
LEMMA RenameKeeps ==
  ASSUME LibraryInv, NEW old \in Names, NEW new \in Names, Of[old] = Of[new],
         new \notin dirs, RenameDir(old, new), items' = items
  PROVE  LibraryInv' /\ ItemsStay
<1>1. /\ FilesFrom(disk) /\ NfosFrom(nfo) /\ FoldersIn(disk, dirs) /\ FoldersIn(nfo, dirs)
      /\ disk \subseteq StrmFile /\ nfo \subseteq NfoFile /\ dirs \subseteq Names
  BY FromStart DEF LibraryInv, LibraryType
<1>2. \A f, g \in disk : f.folder = old /\ g.folder = new => ~(f.stem = g.stem /\ f.ep = g.ep)
  BY <1>1 DEF FoldersIn
<1>3. /\ disk' = Moved(disk, old, new) /\ nfo' = Moved(nfo, old, new)
      /\ dirs' = (dirs \ {old}) \cup {new}
  BY DEF RenameDir
<1>4. FilesFrom(disk') /\ NfosFrom(nfo')
  BY <1>1, <1>2, <1>3, MovedFrom, NfosMovedFrom
<1>5. FoldersIn(disk', dirs') /\ FoldersIn(nfo', dirs') /\ dirs' \subseteq Names
  BY <1>1, <1>3, MovedFolders
<1> QED
  BY <1>4, <1>5, RowsStay, Assemble

LEMMA RemoveKeeps ==
  ASSUME LibraryInv, NEW S, RemoveDirs(S), items' = items
  PROVE  LibraryInv' /\ ItemsStay
<1>1. disk' \subseteq disk /\ nfo' \subseteq nfo /\ dirs' \subseteq dirs
  BY DEF RemoveDirs
<1>2. FoldersIn(disk', dirs') /\ FoldersIn(nfo', dirs')
  BY FromStart DEF RemoveDirs, FoldersIn
<1> QED
  BY <1>1, <1>2, ShrinkKeeps

(* The best of some folders is one of them, with a file if one has one.    *)
LEMMA BestOfGroup ==
  ASSUME NEW S, NEW best \in Best(S)
  PROVE  best \in S /\ \A n \in S : In(n) # {} => In(best) # {}
BY DEF Best, Ahead

LEMMA MigrateGroupKeeps ==
  ASSUME LibraryInv, TasksInv, Migrate
  PROVE  Kept
<1>0. "migrate" \in Tasks /\ TaskShape /\ MigrateInv
  BY DEF TasksInv, Tasks
<1> PICK g \in task["migrate"].todo :
      \E best \in Best(g.folders) :
        LET name == Canonical[g.media]
            a    == [old |-> best, new |-> name, rest |-> g.folders \ {best, name}] IN
        /\ \/ Notes("migrate", g) /\ UNCHANGED <<dirs, disk, nfo>>
           \/ Does("migrate", g) /\ UNCHANGED <<dirs, disk, nfo>>
           \/ name \notin dirs /\ RenameDir(best, name) /\ Takes("migrate", "rows", g, a)
           \/ Takes("migrate", "rest", g, a) /\ UNCHANGED <<dirs, disk, nfo>>
        /\ UNCHANGED items
  BY DEF Migrate
<1> PICK best \in Best(g.folders) :
        LET name == Canonical[g.media]
            a    == [old |-> best, new |-> name, rest |-> g.folders \ {best, name}] IN
        /\ \/ Notes("migrate", g) /\ UNCHANGED <<dirs, disk, nfo>>
           \/ Does("migrate", g) /\ UNCHANGED <<dirs, disk, nfo>>
           \/ name \notin dirs /\ RenameDir(best, name) /\ Takes("migrate", "rows", g, a)
           \/ Takes("migrate", "rest", g, a) /\ UNCHANGED <<dirs, disk, nfo>>
        /\ UNCHANGED items
  OBVIOUS
<1> DEFINE name == Canonical[g.media]
           a    == [old |-> best, new |-> name, rest |-> g.folders \ {best, name}]
<1>1. /\ best \in Names /\ name \in Names /\ Of[best] = Of[name] /\ GroupRight(g)
  <2>1. GroupRight(g) /\ best \in g.folders /\ Of[best] = g.media /\ g.media \in Media
    BY <1>0, BestOfGroup, LibraryConstants DEF MigrateInv, GroupRight
  <2> QED
    BY <2>1, LibraryConstants, CanonicalNames DEF GroupRight
<1>2. RenamingRight(a)
  BY <1>1 DEF RenamingRight, RenameRight
<1>3. /\ \/ Notes("migrate", g) /\ UNCHANGED <<dirs, disk, nfo>>
         \/ Does("migrate", g) /\ UNCHANGED <<dirs, disk, nfo>>
         \/ name \notin dirs /\ RenameDir(best, name) /\ Takes("migrate", "rows", g, a)
         \/ Takes("migrate", "rest", g, a) /\ UNCHANGED <<dirs, disk, nfo>>
      /\ UNCHANGED items
  OBVIOUS
<1> HIDE DEF a, name
<1>4. LibraryInv' /\ ItemsStay
  BY <1>1, <1>3, RenameKeeps, NothingKeeps DEF library
<1>5. CASE Does("migrate", g)
  BY <1>0, <1>4, <1>5, DoesKeeps DEF Kept
<1>6. CASE Notes("migrate", g)
  <2>1. /\ TaskShape' /\ OtherTasks("migrate")
        /\ task'["migrate"].pc = task["migrate"].pc /\ task'["migrate"].arg = task["migrate"].arg
        /\ task'["migrate"].todo = task["migrate"].todo \ {g}
    BY <1>0, <1>6, NotesSets
  <2>2. Own("migrate")'
    BY <1>0, <2>1 DEF Own, MigrateInv, GroupRight, RenamingRight, RenameRight
  <2> QED
    BY <1>0, <1>4, <2>1, <2>2, OneTask DEF Kept
<1>7. ASSUME NEW pc, Takes("migrate", pc, g, a) PROVE Kept
  <2>1. /\ TaskShape' /\ OtherTasks("migrate") /\ task'["migrate"].pc = pc
        /\ task'["migrate"].todo = task["migrate"].todo \ {g} /\ task'["migrate"].arg = a
    BY <1>0, <1>7, TakesSets
  <2>2. Own("migrate")'
    BY <1>0, <1>2, <2>1 DEF Own, MigrateInv, GroupRight, RenamingRight, RenameRight
  <2> QED
    BY <1>0, <1>4, <2>1, <2>2, OneTask DEF Kept
<1> QED
  BY <1>3, <1>5, <1>6, <1>7

(* The rows follow a renamed folder, then those of its file; a file and an *)
(* NFO take its name.                                                      *)
LEMMA RowsFollowKeeps ==
  ASSUME LibraryInv, RowsKept(items'), UNCHANGED <<dirs, disk, nfo>>
  PROVE  LibraryInv' /\ ItemsStay
<1>1. RowsFollow /\ dirs' \subseteq Names
  BY KeptFollow DEF LibraryInv, LibraryType
<1>2. FilesFrom(disk') /\ NfosFrom(nfo') /\ FoldersIn(disk', dirs') /\ FoldersIn(nfo', dirs')
  BY FromStart DEF FilesFrom, NfosFrom, FoldersIn, LibraryInv
<1> QED
  BY <1>1, <1>2, Assemble

LEMMA RestemKeeps ==
  ASSUME LibraryInv, NEW n \in Names, NEW old \in Names, NEW new \in Names,
         disk' \in {disk, Restemmed(disk, n, old, new)},
         nfo' \in {nfo, Restemmed(nfo, n, old, new)}, UNCHANGED <<dirs, items>>
  PROVE  LibraryInv' /\ ItemsStay
<1>1. /\ FilesFrom(disk) /\ NfosFrom(nfo) /\ FoldersIn(disk, dirs) /\ FoldersIn(nfo, dirs)
      /\ disk \subseteq StrmFile /\ nfo \subseteq NfoFile /\ dirs \subseteq Names
  BY FromStart DEF LibraryInv, LibraryType
<1>2. FilesFrom(disk') /\ NfosFrom(nfo')
  BY <1>1, RestemmedFrom, NfosRestemmedFrom DEF FilesFrom, NfosFrom
<1>3. FoldersIn(disk', dirs) /\ FoldersIn(nfo', dirs)
  BY <1>1, RestemmedFolders DEF FoldersIn
<1> QED
  BY <1>1, <1>2, <1>3, RowsStay, Assemble

LEMMA MigrateTurnKeeps ==
  ASSUME LibraryInv, TasksInv, NEW pc, NEW arg, Turns("migrate", pc, arg),
         LibraryInv' /\ ItemsStay, pc \notin {"idle", "groups"} => RenamingRight(arg)
  PROVE  Kept
<1>0. "migrate" \in Tasks /\ TaskShape /\ MigrateInv
  BY DEF TasksInv, Tasks
<1>1. /\ TaskShape' /\ OtherTasks("migrate") /\ task'["migrate"].pc = pc
      /\ task'["migrate"].todo = task["migrate"].todo /\ task'["migrate"].arg = arg
  BY <1>0, TurnSets
<1>2. Own("migrate")'
  BY <1>0, <1>1 DEF Own, MigrateInv, GroupRight, RenamingRight, RenameRight
<1> QED
  BY <1>0, <1>1, <1>2, OneTask DEF Kept

LEMMA MigrateKeeps ==
  ASSUME LibraryInv, TasksInv, MigrateStep
  PROVE  Kept
<1> DEFINE a == task["migrate"].arg
<1>0. MigrateInv
  BY DEF TasksInv
<1>1. CASE MigrateDone
  <2>1. Ends("migrate") /\ UNCHANGED library /\ "migrate" \in Tasks
    BY <1>1 DEF MigrateDone, Tasks
  <2> QED
    BY <2>1, NothingKeeps, EndsKeeps DEF Kept
<1>2. CASE MigrateRows \/ MigrateStem
  <2>1. RenamingRight(a)
    BY <1>0, <1>2 DEF MigrateInv, MigrateRows, MigrateStem
  <2>2. a.old \in Names /\ a.new \in Names /\ Of[a.old] = Of[a.new]
    BY <2>1 DEF RenamingRight, RenameRight
  <2>3. /\ items' = RowsUnderPrefix(a.old, a.new) \/ items' = RowsOfFile(items, a.new, a.old, a.new)
        /\ \E pc : Turns("migrate", pc, a)
        /\ UNCHANGED <<dirs, disk, nfo>>
    BY <1>2 DEF MigrateRows, MigrateStem
  <2> HIDE DEF a
  <2>4. RowsKept(items)
    BY ItemsFacts DEF RowsKept, LibraryInv, LibraryType, RowRight
  <2>5. RowsKept(items')
    BY <2>2, <2>3, <2>4, PrefixKeeps, FileKeeps
  <2>6. LibraryInv' /\ ItemsStay
    BY <2>3, <2>5, RowsFollowKeeps
  <2> QED
    BY <2>1, <2>3, <2>6, MigrateTurnKeeps
<1>3. CASE MigrateFile \/ MigrateNfo
  <2>1. RenamingRight(a)
    BY <1>0, <1>3 DEF MigrateInv, MigrateFile, MigrateNfo
  <2>2. a.old \in Names /\ a.new \in Names
    BY <2>1 DEF RenamingRight, RenameRight
  <2>3. /\ \/ disk' = Restemmed(disk, a.new, a.old, a.new) /\ nfo' = nfo
           \/ nfo' = Restemmed(nfo, a.new, a.old, a.new) /\ disk' = disk
        /\ \E pc : Turns("migrate", pc, a)
        /\ UNCHANGED <<dirs, items>>
    BY <1>3 DEF MigrateFile, MigrateNfo
  <2> HIDE DEF a
  <2>4. LibraryInv' /\ ItemsStay
    BY <2>2, <2>3, RestemKeeps
  <2> QED
    BY <2>1, <2>3, <2>4, MigrateTurnKeeps
<1>4. CASE MigrateRest
  <2>1. RenamingRight(a)
    BY <1>0, <1>4 DEF MigrateInv, MigrateRest
  <2>2. PICK n \in a.rest : RemoveDirs({n}) /\ Turns("migrate", "rest", [a EXCEPT !.rest = @ \ {n}])
    BY <1>4 DEF MigrateRest
  <2>3. items' = items
    BY <1>4 DEF MigrateRest
  <2> HIDE DEF a
  <2>4. RenamingRight([a EXCEPT !.rest = @ \ {n}])
    <3>1. a = [old |-> a.old, new |-> a.new, rest |-> a.rest] /\ RenameRight(a)
      BY <2>1 DEF RenamingRight
    <3> QED
      BY <3>1 DEF RenamingRight, RenameRight
  <2>5. LibraryInv' /\ ItemsStay
    BY <2>2, <2>3, RemoveKeeps
  <2> QED
    BY <2>2, <2>4, <2>5, MigrateTurnKeeps
<1>5. CASE MigrateNext
  <2>1. UNCHANGED library /\ Turns("migrate", "groups", 0)
    BY <1>5 DEF MigrateNext
  <2> QED
    BY <2>1, NothingKeeps, MigrateTurnKeeps
<1> QED
  BY <1>1, <1>2, <1>3, <1>4, <1>5, MigrateGroupKeeps DEF MigrateStep

(* Of a folder's files one is kept, under the name of the folder.          *)
LEMMA DedupStrmsKeeps ==
  ASSUME LibraryInv, TasksInv, DedupStrms
  PROVE  Kept
<1> PICK n \in task["dedup"].todo, keep \in disk :
      /\ Does("dedup", n) /\ keep \in In(n)
      /\ disk' = (disk \ In(n)) \cup {[keep EXCEPT !.stem = n]}
      /\ items' = RowsOfFile(items, n, keep.stem, n)
      /\ nfo' \subseteq Restemmed(nfo, n, keep.stem, n) /\ dirs' = dirs
  BY DEF DedupStrms
<1>0. "dedup" \in Tasks /\ TaskShape /\ n \in Names
  BY DEF TasksInv, Tasks, DedupInv
<1>1. /\ FilesFrom(disk) /\ NfosFrom(nfo) /\ FoldersIn(disk, dirs) /\ FoldersIn(nfo, dirs)
      /\ disk \subseteq StrmFile /\ nfo \subseteq NfoFile /\ dirs \subseteq Names
  BY FromStart DEF LibraryInv, LibraryType
<1> DEFINE h == [keep EXCEPT !.stem = n]
<1>2. h \in StrmFile /\ h.folder = n /\ h.ep = keep.ep /\ h.url = keep.url /\ keep.folder = n
  BY <1>0, <1>1, FileRestemmed DEF In
<1>3. disk' = (disk \ In(n)) \cup {h}
  OBVIOUS
<1> HIDE DEF h
<1>4. FilesFrom(disk')
  <2>1. \A f \in disk \ In(n) : ~SamePath(f, h) /\ ~SamePath(h, f)
    BY <1>2 DEF In, SamePath
  <2>2. Image(h, keep)
    BY <1>2 DEF Image
  <2> QED
    BY <1>1, <1>2, <1>3, <2>1, <2>2 DEF FilesFrom
<1>5. FoldersIn(disk', dirs')
  BY <1>1, <1>2, <1>3 DEF FoldersIn
<1>6. NfosFrom(nfo') /\ FoldersIn(nfo', dirs')
  <2>1. /\ NfosFrom(Restemmed(nfo, n, keep.stem, n))
        /\ FoldersIn(Restemmed(nfo, n, keep.stem, n), dirs)
    BY <1>0, <1>1, NfosRestemmedFrom, RestemmedFolders
  <2> QED
    BY <2>1, FromSubset DEF FoldersIn
<1>7. RowsKept(items)
  BY DEF RowsKept, LibraryInv, LibraryType, RowRight
<1>8. RowsFollow
  BY <1>0, <1>7, FileKeeps, KeptFollow
<1>9. LibraryInv' /\ ItemsStay
  BY <1>1, <1>4, <1>5, <1>6, <1>8, Assemble
<1> QED
  BY <1>0, <1>9, DoesKeeps DEF Kept

LEMMA DedupKeeps ==
  ASSUME LibraryInv, TasksInv, DedupStep
  PROVE  Kept
<1>0. "dedup" \in Tasks
  BY DEF Tasks
<1>1. CASE DedupSkip
  <2>1. UNCHANGED library /\ \E n : Does("dedup", n)
    BY <1>1 DEF DedupSkip
  <2> QED
    BY <1>0, <2>1, NothingKeeps, DoesKeeps DEF Kept
<1>2. CASE DedupDone
  BY <1>0, <1>2, NothingKeeps, EndsKeeps DEF DedupDone, Kept
<1> QED
  BY <1>1, <1>2, DedupStrmsKeeps DEF DedupStep

(* The cleanup elsewhere than in its two lists of what it read.            *)
LEMMA CleanupElsewhere ==
  ASSUME TasksInv, ItemsStay, TaskShape', OtherTasks("cleanup"),
         task'["cleanup"].pc \notin {"rebuild", "merge"}
  PROVE  TasksInv'
<1>1. Own("cleanup")' /\ "cleanup" \in Tasks
  BY DEF Own, RebuildInv, MergeInv, C, Tasks
<1> QED
  BY <1>1, OneTask

LEMMA CleanupGoesOn ==
  ASSUME LibraryInv, TasksInv, UNCHANGED library, NEW pc, NEW todo, CleanupGoes(pc, todo),
         pc \notin {"rebuild", "merge"}
  PROVE  Kept
<1>1. TaskShape /\ "cleanup" \in Tasks
  BY DEF TasksInv, Tasks
<1>2. TaskShape' /\ OtherTasks("cleanup") /\ task'["cleanup"].pc = pc
  BY <1>1, GoesSets DEF CleanupGoes
<1> QED
  BY <1>2, NothingKeeps, CleanupElsewhere DEF Kept

(* The cleanup stays where it is, whatever else it notes.                  *)
LEMMA CleanupNotes ==
  ASSUME TasksInv, ItemsStay, task' = [u \in Tasks |-> task'[u]], OtherTasks("cleanup"),
         C.pc \notin {"rebuild", "merge"},
         C' = [pc |-> C.pc, todo |-> C'.todo, arg |-> C'.arg, noted |-> C'.noted]
  PROVE  TasksInv'
<1>1. "cleanup" \in Tasks /\ TaskShape
  BY DEF TasksInv, Tasks
<1> DEFINE pc == C.pc
           todo == C'.todo
           arg == C'.arg
           noted == C'.noted
<1>2. task'["cleanup"] = [pc |-> pc, todo |-> todo, arg |-> arg, noted |-> noted]
  BY DEF C
<1>3. pc \notin {"rebuild", "merge"}
  OBVIOUS
<1> HIDE DEF pc, todo, arg, noted
<1>4. TaskShape' /\ task'["cleanup"].pc = pc
  BY <1>1, <1>2, TaskSet
<1> QED
  BY <1>3, <1>4, CleanupElsewhere

LEMMA CleanupTitle ==
  ASSUME LibraryInv, NEW n \in dirs, NEW title \in CanonicalTitles(n)
  PROVE  n \in Names /\ title \in Names /\ Of[n] = Of[title]
<1>1. n \in Names /\ NfosFrom(nfo)
  BY FromStart DEF LibraryInv, LibraryType
<1>2. CASE IsShow(n)
  BY <1>1, <1>2, LibraryConstants, CanonicalNames DEF CanonicalTitles
<1>3. CASE ~IsShow(n)
  <2>1. PICK x \in nfo : x.folder = n /\ title = x.title
    BY <1>3 DEF CanonicalTitles, Nfos
  <2> QED
    BY <1>1, <2>1 DEF NfosFrom, NfoRight, NfoFile
<1> QED
  BY <1>2, <1>3

LEMMA CleanupRenameKeeps ==
  ASSUME LibraryInv, TasksInv, CleanupRename
  PROVE  Kept
<1>0. "cleanup" \in Tasks /\ TaskShape
  BY DEF TasksInv, Tasks
<1>1. PICK n : /\ Does("cleanup", n)
               /\ \/ \E title \in CanonicalTitles(n) :
                       /\ n \in dirs /\ title \notin dirs
                       /\ dirs' = (dirs \ {n}) \cup {title}
                       /\ items' = RowsUnderFolder(n, title)
                       /\ \/ disk' = Moved(disk, n, title) /\ nfo' = Moved(nfo, n, title)
                          \/ /\ disk' = Restemmed(Moved(disk, n, title), title, n, title)
                             /\ nfo' = Restemmed(Moved(nfo, n, title), title, n, title)
                  \/ UNCHANGED library
  BY DEF CleanupRename
<1>2. CASE UNCHANGED library
  BY <1>0, <1>1, <1>2, NothingKeeps, DoesKeeps DEF Kept
<1>3. CASE \E title \in CanonicalTitles(n) :
             /\ n \in dirs /\ title \notin dirs
             /\ dirs' = (dirs \ {n}) \cup {title}
             /\ items' = RowsUnderFolder(n, title)
             /\ \/ disk' = Moved(disk, n, title) /\ nfo' = Moved(nfo, n, title)
                \/ /\ disk' = Restemmed(Moved(disk, n, title), title, n, title)
                   /\ nfo' = Restemmed(Moved(nfo, n, title), title, n, title)
  <2> PICK title \in CanonicalTitles(n) :
             /\ n \in dirs /\ title \notin dirs
             /\ dirs' = (dirs \ {n}) \cup {title}
             /\ items' = RowsUnderFolder(n, title)
             /\ \/ disk' = Moved(disk, n, title) /\ nfo' = Moved(nfo, n, title)
                \/ /\ disk' = Restemmed(Moved(disk, n, title), title, n, title)
                   /\ nfo' = Restemmed(Moved(nfo, n, title), title, n, title)
    BY <1>3
  <2>1. /\ FilesFrom(disk) /\ NfosFrom(nfo) /\ FoldersIn(disk, dirs) /\ FoldersIn(nfo, dirs)
        /\ disk \subseteq StrmFile /\ nfo \subseteq NfoFile /\ dirs \subseteq Names
    BY FromStart DEF LibraryInv, LibraryType
  <2>2. n \in Names /\ title \in Names /\ Of[n] = Of[title]
    BY CleanupTitle
  <2>3. \A f, g \in disk : f.folder = n /\ g.folder = title =>
                             ~(f.stem = g.stem /\ f.ep = g.ep)
    BY <2>1 DEF FoldersIn
  <2> DEFINE D == Moved(disk, n, title)
             X == Moved(nfo, n, title)
  <2>4. /\ FilesFrom(D) /\ NfosFrom(X) /\ FoldersIn(D, dirs') /\ FoldersIn(X, dirs')
    BY <2>1, <2>2, <2>3, MovedFrom, NfosMovedFrom, MovedFolders
  <2>5. D \subseteq StrmFile /\ X \subseteq NfoFile
    BY <2>4 DEF FilesFrom, NfosFrom
  <2> HIDE DEF D, X
  <2>6. /\ FilesFrom(Restemmed(D, title, n, title)) /\ NfosFrom(Restemmed(X, title, n, title))
        /\ FoldersIn(Restemmed(D, title, n, title), dirs')
        /\ FoldersIn(Restemmed(X, title, n, title), dirs')
    BY <2>2, <2>4, <2>5, RestemmedFrom, NfosRestemmedFrom, RestemmedFolders
  <2>7. /\ FilesFrom(disk') /\ NfosFrom(nfo') /\ FoldersIn(disk', dirs')
        /\ FoldersIn(nfo', dirs') /\ dirs' \subseteq Names
    BY <2>1, <2>2, <2>4, <2>6 DEF D, X
  <2>8. RowsFollow
    BY <2>2, FolderKeeps, KeptFollow
  <2>9. LibraryInv' /\ ItemsStay
    BY <2>7, <2>8, Assemble
  <2> QED
    BY <1>0, <1>1, <2>9, DoesKeeps DEF Kept
<1> QED
  BY <1>1, <1>2, <1>3

LEMMA CleanupMergeKeeps ==
  ASSUME LibraryInv, TasksInv, CleanupMerge
  PROVE  Kept
<1> PICK g \in C.todo, keep \in Names :
      /\ C.pc = "merge" /\ keep \in g.folders \cap dirs /\ Does("cleanup", g)
      /\ disk' = Merged((g.folders \cap dirs) \ {keep}, keep, g.media \in Shows)
      /\ dirs' = dirs \ ((g.folders \cap dirs) \ {keep})
      /\ nfo' = {x \in nfo : x.folder \notin (g.folders \cap dirs) \ {keep}}
      /\ items' = IF g.media \in Shows THEN items
                  ELSE [k \in DOMAIN items |->
                          IF items[k].folder \in (g.folders \cap dirs) \ {keep}
                          THEN [items[k] EXCEPT !.folder = keep] ELSE items[k]]
  BY DEF CleanupMerge
<1> DEFINE dups   == (g.folders \cap dirs) \ {keep}
           series == g.media \in Shows
<1>0. "cleanup" \in Tasks /\ GroupRight(g)
  BY DEF TasksInv, Tasks, MergeInv, C
<1>1. (\A n \in dups : n \in Names /\ Of[n] = Of[keep]) /\ keep \in dirs \ dups
  BY <1>0 DEF GroupRight
<1>2. series \in BOOLEAN
  OBVIOUS
<1>3. /\ disk' = Merged(dups, keep, series) /\ dirs' = dirs \ dups
      /\ nfo' = {x \in nfo : x.folder \notin dups}
      /\ \/ items' = items
         \/ items' = [k \in DOMAIN items |->
                         IF items[k].folder \in dups THEN [items[k] EXCEPT !.folder = keep]
                         ELSE items[k]]
  OBVIOUS
<1> HIDE DEF dups, series
<1>4. RowsFollow
  <2>1. CASE items' = items
    BY <2>1, RowsStay
  <2>2. CASE items' = [k \in DOMAIN items |->
                         IF items[k].folder \in dups THEN [items[k] EXCEPT !.folder = keep]
                         ELSE items[k]]
    <3>1. RowsKept(items')
      BY <1>1, <2>2, FoldersKeep, Zenon
    <3> QED
      BY <3>1, KeptFollow
  <2> QED
    BY <1>3, <2>1, <2>2
<1>5. FilesFrom(disk') /\ FoldersIn(disk', dirs')
  <2>1. \A n \in dups : Of[n] = Of[keep]
    BY <1>1
  <2>2. /\ FilesFrom(Merged(dups, keep, series))
        /\ FoldersIn(Merged(dups, keep, series), (dirs \ dups) \cup {keep})
    BY <1>2, <2>1, MergedFrom, Zenon
  <2>3. (dirs \ dups) \cup {keep} = dirs'
    BY <1>1, <1>3
  <2> HIDE DEF FilesFrom, FoldersIn
  <2> QED
    BY <1>3, <2>2, <2>3
<1>6. NfosFrom(nfo') /\ FoldersIn(nfo', dirs') /\ dirs' \subseteq Names
  BY <1>3, FromStart DEF NfosFrom, FoldersIn, LibraryInv, LibraryType
<1>7. LibraryInv' /\ ItemsStay
  BY <1>4, <1>5, <1>6, Assemble
<1> QED
  BY <1>0, <1>7, DoesKeeps DEF Kept

(* The cleanup ends, or writes the missing files again.                    *)
LEMMA RegeneratesKeeps ==
  ASSUME LibraryInv, TasksInv, UNCHANGED library, Regenerates
  PROVE  Kept
<1>0. "cleanup" \in Tasks /\ TaskShape
  BY DEF TasksInv, Tasks
<1>1. LibraryInv' /\ ItemsStay
  BY NothingKeeps
<1>2. CASE C.noted
  <2>1. Goes("cleanup", "rebuild", RowList)
    BY <1>2 DEF Regenerates, Goes
  <2>2. /\ TaskShape' /\ OtherTasks("cleanup") /\ task'["cleanup"].pc = "rebuild"
        /\ task'["cleanup"].todo = RowList
    BY <1>0, <2>1, GoesSets
  <2>3. Own("cleanup")'
    BY <1>1, <2>2, RowListLeads, LeadsStays DEF Own, RebuildInv, MergeInv, C
  <2> QED
    BY <1>0, <1>1, <2>2, <2>3, OneTask DEF Kept
<1>3. CASE ~C.noted
  BY <1>0, <1>1, <1>3, EndsKeeps DEF Regenerates, Kept
<1> QED
  BY <1>2, <1>3

LEMMA CleanupDupsKeeps ==
  ASSUME LibraryInv, TasksInv, CleanupDups
  PROVE  Kept
<1>1. PICK gone, same :
        /\ C.pc = "dups" /\ items' = items
        /\ task' = [task EXCEPT !["cleanup"].todo = @ \ same,
                                !["cleanup"].noted = @ \/ gone # {}]
        /\ disk' = disk \ gone
        /\ nfo' = {x \in nfo : ~\E g \in gone : /\ ~IsShow(g.folder) /\ g.folder = x.folder
                                                /\ g.stem = x.stem}
        /\ dirs' = {n \in dirs : \/ \A g \in gone : g.folder # n
                                 \/ \E x \in disk' \cup nfo' : x.folder = n}
  BY DEF CleanupDups
<1>2. disk' \subseteq disk /\ nfo' \subseteq nfo /\ dirs' \subseteq dirs
  BY <1>1
<1>3. FoldersIn(disk', dirs') /\ FoldersIn(nfo', dirs')
  BY <1>1, <1>2, FromStart DEF FoldersIn
<1>4. LibraryInv' /\ ItemsStay
  BY <1>1, <1>2, <1>3, ShrinkKeeps
<1>5. TaskShape /\ "cleanup" \in Tasks
  BY DEF TasksInv, Tasks
<1>6. task["cleanup"] = [pc |-> task["cleanup"].pc, todo |-> task["cleanup"].todo,
                         arg |-> task["cleanup"].arg, noted |-> task["cleanup"].noted]
  BY <1>5 DEF TaskShape
<1>7. /\ task' = [u \in Tasks |-> task'[u]] /\ OtherTasks("cleanup")
      /\ task'["cleanup"] = [task["cleanup"] EXCEPT !.todo = @ \ same,
                                                    !.noted = @ \/ gone # {}]
  BY <1>1, <1>5 DEF TaskShape, OtherTasks
<1>8. C' = [pc |-> C.pc, todo |-> C'.todo, arg |-> C'.arg, noted |-> C'.noted]
  BY <1>6, <1>7 DEF C
<1> QED
  BY <1>1, <1>4, <1>7, <1>8, CleanupNotes DEF Kept

LEMMA CleanupOrphanKeeps ==
  ASSUME LibraryInv, TasksInv, CleanupLook \/ CleanupOrphan
  PROVE  Kept
<1>0. "cleanup" \in Tasks /\ TaskShape
  BY DEF TasksInv, Tasks
<1>1. task["cleanup"] = [pc |-> task["cleanup"].pc, todo |-> task["cleanup"].todo,
                         arg |-> task["cleanup"].arg, noted |-> task["cleanup"].noted]
  BY <1>0 DEF TaskShape
<1>2. CASE CleanupLook
  <2>1. PICK n : /\ C.pc = "orphans" /\ UNCHANGED library
                 /\ task' = [task EXCEPT !["cleanup"].arg = n] \/ Does("cleanup", n)
    BY <1>2 DEF CleanupLook
  <2>2. LibraryInv' /\ ItemsStay
    BY <2>1, NothingKeeps
  <2>3. CASE Does("cleanup", n)
    BY <1>0, <2>2, <2>3, DoesKeeps DEF Kept
  <2>4. CASE task' = [task EXCEPT !["cleanup"].arg = n]
    <3>1. /\ task' = [u \in Tasks |-> task'[u]] /\ OtherTasks("cleanup")
          /\ task'["cleanup"] = [task["cleanup"] EXCEPT !.arg = n]
      BY <1>0, <2>4 DEF TaskShape, OtherTasks
    <3>2. C' = [pc |-> C.pc, todo |-> C'.todo, arg |-> C'.arg, noted |-> C'.noted]
      BY <1>1, <3>1 DEF C
    <3> QED
      BY <2>1, <2>2, <3>1, <3>2, CleanupNotes DEF Kept
  <2> QED
    BY <2>1, <2>3, <2>4
<1>3. CASE CleanupOrphan
  <2>1. /\ C.pc = "orphans" /\ RemoveDirs({C.arg}) /\ items' = items
        /\ task' = [task EXCEPT !["cleanup"].todo = @ \ {C.arg}, !["cleanup"].arg = 0,
                                !["cleanup"].noted = TRUE]
    BY <1>3 DEF CleanupOrphan
  <2>2. LibraryInv' /\ ItemsStay
    BY <2>1, RemoveKeeps
  <2>3. /\ task' = [u \in Tasks |-> task'[u]] /\ OtherTasks("cleanup")
        /\ task'["cleanup"] = [task["cleanup"] EXCEPT !.todo = @ \ {C.arg}, !.arg = 0,
                                                      !.noted = TRUE]
    BY <1>0, <2>1 DEF TaskShape, OtherTasks
  <2>4. C' = [pc |-> C.pc, todo |-> C'.todo, arg |-> C'.arg, noted |-> C'.noted]
    BY <1>1, <2>3 DEF C
  <2> QED
    BY <2>1, <2>2, <2>3, <2>4, CleanupNotes DEF Kept
<1> QED
  BY <1>2, <1>3

LEMMA CleanupBrokenKeeps ==
  ASSUME LibraryInv, TasksInv, CleanupBroken
  PROVE  Kept
<1>0. "cleanup" \in Tasks /\ TaskShape
  BY DEF TasksInv, Tasks
<1>1. PICK f : /\ C.pc = "broken" /\ UNCHANGED <<dirs, items>>
               /\ disk' \subseteq disk /\ nfo' \subseteq nfo
               /\ Does("cleanup", f) \/ Notes("cleanup", f) \/ CleanupGoes("broken", {})
  BY DEF CleanupBroken
<1>2. LibraryInv' /\ ItemsStay
  <2>1. FoldersIn(disk', dirs') /\ FoldersIn(nfo', dirs')
    BY <1>1, FromStart DEF FoldersIn
  <2> QED
    BY <1>1, <2>1, ShrinkKeeps
<1>3. task["cleanup"] = [pc |-> task["cleanup"].pc, todo |-> task["cleanup"].todo,
                         arg |-> task["cleanup"].arg, noted |-> task["cleanup"].noted]
  BY <1>0 DEF TaskShape
<1>4. CASE Does("cleanup", f)
  BY <1>0, <1>2, <1>4, DoesKeeps DEF Kept
<1>5. CASE Notes("cleanup", f)
  <2>1. /\ task' = [u \in Tasks |-> task'[u]] /\ OtherTasks("cleanup")
        /\ task'["cleanup"] = [task["cleanup"] EXCEPT !.todo = @ \ {f}, !.noted = TRUE]
    BY <1>0, <1>5 DEF TaskShape, OtherTasks, Notes
  <2>2. C' = [pc |-> C.pc, todo |-> C'.todo, arg |-> C'.arg, noted |-> C'.noted]
    BY <1>3, <2>1 DEF C
  <2> QED
    BY <1>1, <1>2, <2>1, <2>2, CleanupNotes DEF Kept
<1>6. CASE CleanupGoes("broken", {})
  <2>1. TaskShape' /\ OtherTasks("cleanup") /\ task'["cleanup"].pc = "broken"
    BY <1>0, <1>6, GoesSets DEF CleanupGoes
  <2> QED
    BY <1>2, <2>1, CleanupElsewhere DEF Kept
<1> QED
  BY <1>1, <1>4, <1>5, <1>6

LEMMA CleanupKeeps ==
  ASSUME LibraryInv, TasksInv, CleanupStep
  PROVE  Kept
<1>0. "cleanup" \in Tasks /\ TaskShape
  BY DEF TasksInv, Tasks
<1>1. CASE CleanupRenamed
  <2>1. /\ Goes("cleanup", "merge", {g \in Groups(dirs) : Cardinality(g.folders) > 1})
        /\ UNCHANGED library
    BY <1>1 DEF CleanupRenamed, CleanupGoes
  <2>2. LibraryInv' /\ ItemsStay
    BY <2>1, NothingKeeps
  <2>3. /\ TaskShape' /\ OtherTasks("cleanup") /\ task'["cleanup"].pc = "merge"
        /\ task'["cleanup"].todo \subseteq Groups(dirs)
    BY <1>0, <2>1, GoesSets
  <2>4. \A g \in Groups(dirs) : GroupRight(g)
    BY DEF Groups, GroupRight, LibraryInv, LibraryType
  <2>5. Own("cleanup")'
    BY <2>3, <2>4 DEF Own, RebuildInv, MergeInv, GroupRight, C
  <2> QED
    BY <1>0, <2>2, <2>3, <2>5, OneTask DEF Kept
<1>2. CASE CleanupMerged \/ CleanupListed
  BY <1>2, CleanupGoesOn DEF CleanupMerged, CleanupListed
<1>3. CASE CleanupList
  <2>1. UNCHANGED library
    BY <1>3 DEF CleanupList
  <2>2. LibraryInv' /\ ItemsStay
    BY <2>1, NothingKeeps
  <2>3. CleanupGoes("dups", disk) \/ Regenerates \/ Ends("cleanup")
    BY <1>3 DEF CleanupList
  <2> QED
    BY <1>0, <2>1, <2>2, <2>3, CleanupGoesOn, RegeneratesKeeps, EndsKeeps DEF Kept
<1>4. CASE CleanupDone
  BY <1>4, RegeneratesKeeps DEF CleanupDone
<1> QED
  BY <1>1, <1>2, <1>3, <1>4, CleanupRenameKeeps, CleanupMergeKeeps, CleanupOrphanKeeps,
     CleanupDupsKeeps, CleanupBrokenKeeps DEF CleanupStep

(* A file, or NFO, of a folder is moved into another of its title.         *)
LEMMA MoveStrmKeeps ==
  ASSUME LibraryInv, NEW old \in Names, NEW new \in Names, Of[old] = Of[new], old # new,
         NEW p \in PlaceType, p.folder = old, nfo' = nfo, items' = items,
         disk' = (disk \ (At(p) \cup At([p EXCEPT !.folder = new]))) \cup Moved(At(p), old, new),
         dirs' = dirs \cup {new}
  PROVE  LibraryInv' /\ ItemsStay
<1> DEFINE q == [p EXCEPT !.folder = new]
           M == At(p) \cup (disk \ (At(p) \cup At(q)))
           rest == disk \ (At(p) \cup At(q))
<1>1. /\ FilesFrom(disk) /\ NfosFrom(nfo) /\ FoldersIn(disk, dirs) /\ FoldersIn(nfo, dirs)
      /\ disk \subseteq StrmFile /\ nfo \subseteq NfoFile /\ dirs \subseteq Names
  BY FromStart DEF LibraryInv, LibraryType
<1>2. q.folder = new /\ q.stem = p.stem /\ q.ep = p.ep
  BY DEF PlaceType
<1>3. ASSUME NEW f \in At(p)
      PROVE  /\ [f EXCEPT !.folder = new] \in StrmFile /\ [f EXCEPT !.folder = new].folder = new
             /\ SamePath([f EXCEPT !.folder = new], q) /\ Image([f EXCEPT !.folder = new], f)
             /\ f.folder = old /\ f \in disk
  <2>1. f \in StrmFile /\ f \in disk /\ f.folder = old /\ f.stem = p.stem /\ f.ep = p.ep
    BY <1>1, <1>3 DEF At
  <2> DEFINE h == [f EXCEPT !.folder = new]
  <2>2. h \in StrmFile /\ h.folder = new /\ h.stem = f.stem /\ h.ep = f.ep /\ h.url = f.url
    BY <2>1, FileMoved
  <2> HIDE DEF h
  <2>3. SamePath(h, q) /\ Image(h, f)
    BY <1>2, <2>1, <2>2 DEF SamePath, Image
  <2> QED
    BY <2>1, <2>2, <2>3 DEF h
<1>4. Moved(At(p), old, new) = {[f EXCEPT !.folder = new] : f \in At(p)}
  BY DEF Moved, At
<1> HIDE DEF q
<1>5. disk' = rest \cup {[f EXCEPT !.folder = new] : f \in At(p)}
  BY <1>4 DEF q
<1>6. \A f, g \in At(p) : f = g
  BY DEF At, LibraryInv, PathsDiffer, SamePath
<1>7. \A f \in rest : ~SamePath(f, q)
  BY DEF At, SamePath
<1>8. FilesFrom(disk')
  <2>1. disk' \subseteq StrmFile
    BY <1>1, <1>3, <1>5
  <2>2. \A f \in disk' : \E g \in disk : Image(f, g)
    BY <1>3, <1>5 DEF Image
  <2>3. ASSUME NEW f \in disk', NEW g \in disk', SamePath(f, g) PROVE f = g
    <3>1. CASE f \in rest /\ g \in rest
      BY <2>3, <3>1 DEF LibraryInv, PathsDiffer
    <3>2. CASE f \notin rest /\ g \notin rest
      BY <1>5, <1>6, <3>2
    <3>3. CASE f \in rest /\ g \notin rest
      <4>1. SamePath(g, q)
        BY <1>3, <1>5, <3>3
      <4> QED
        BY <1>7, <2>3, <3>3, <4>1 DEF SamePath
    <3>4. CASE f \notin rest /\ g \in rest
      <4>1. SamePath(f, q)
        BY <1>3, <1>5, <3>4
      <4> QED
        BY <1>7, <2>3, <3>4, <4>1 DEF SamePath
    <3> QED
      BY <3>1, <3>2, <3>3, <3>4
  <2> QED
    BY <2>1, <2>2, <2>3 DEF FilesFrom, SamePath
<1>9. FoldersIn(disk', dirs') /\ FoldersIn(nfo', dirs') /\ dirs' \subseteq Names
  BY <1>1, <1>3, <1>5 DEF FoldersIn
<1> QED
  BY <1>1, <1>8, <1>9, RowsStay, Assemble

LEMMA MoveNfoKeeps ==
  ASSUME LibraryInv, NEW old \in Names, NEW new \in Names, Of[old] = Of[new],
         NEW S, NEW T, S \subseteq nfo, T \subseteq nfo,
         nfo' = T \cup Moved(S, old, new), dirs' = dirs \cup {new}, UNCHANGED <<disk, items>>
  PROVE  LibraryInv' /\ ItemsStay
<1>1. /\ FilesFrom(disk) /\ NfosFrom(nfo) /\ FoldersIn(disk, dirs) /\ FoldersIn(nfo, dirs)
      /\ disk \subseteq StrmFile /\ nfo \subseteq NfoFile /\ dirs \subseteq Names
  BY FromStart DEF LibraryInv, LibraryType
<1>2. NfosFrom(S) /\ NfosFrom(T) /\ FoldersIn(S, dirs) /\ S \subseteq NfoFile
  BY <1>1, FromSubset DEF FoldersIn
<1>3. NfosFrom(Moved(S, old, new))
  BY <1>2, NfosMovedFrom
<1>4. FoldersIn(Moved(S, old, new), (dirs \ {old}) \cup {new})
  BY <1>2, MovedFolders DEF FoldersIn
<1>5. NfosFrom(nfo') /\ FoldersIn(nfo', dirs') /\ FoldersIn(disk', dirs') /\ dirs' \subseteq Names
  BY <1>1, <1>2, <1>3, <1>4 DEF NfosFrom, FoldersIn
<1> QED
  BY <1>1, <1>5, RowsStay, Assemble

LEMMA FixTitleKeeps ==
  ASSUME LibraryInv, TasksInv, FixTitle
  PROVE  Kept
<1> PICK m \in task["titles"].todo, new \in Names : \E old \in {items[k].folder : k \in RowsOf(m)} :
      LET free == new \notin dirs
          a    == [old |-> old, new |-> new,
                   strms |-> IF free THEN {} ELSE {Place(f) : f \in In(old)},
                   nfos |-> IF free THEN {} ELSE {x.stem : x \in Nfos(old)}] IN
      /\ new \in NewNames(m) /\ old \in dirs \ {new} /\ items' = items
      /\ IF free THEN RenameDir(old, new) ELSE UNCHANGED <<dirs, disk, nfo>>
      /\ Takes("titles", IF free THEN "rows" ELSE "move", m, a)
  BY DEF FixTitle
<1> PICK k \in RowsOf(m) :
      LET old  == items[k].folder
          free == new \notin dirs
          a    == [old |-> old, new |-> new,
                   strms |-> IF free THEN {} ELSE {Place(f) : f \in In(old)},
                   nfos |-> IF free THEN {} ELSE {x.stem : x \in Nfos(old)}] IN
      /\ new \in NewNames(m) /\ old \in dirs \ {new} /\ items' = items
      /\ IF free THEN RenameDir(old, new) ELSE UNCHANGED <<dirs, disk, nfo>>
      /\ Takes("titles", IF free THEN "rows" ELSE "move", m, a)
  OBVIOUS
<1> DEFINE old  == items[k].folder
           free == new \notin dirs
           a    == [old |-> old, new |-> new,
                    strms |-> IF free THEN {} ELSE {Place(f) : f \in In(old)},
                    nfos |-> IF free THEN {} ELSE {x.stem : x \in Nfos(old)}]
<1>0. "titles" \in Tasks /\ TaskShape
  BY DEF TasksInv, Tasks
<1>1. old \in Names /\ new \in Names /\ Of[old] = Of[new] /\ old # new
  <2>1. old \in Names /\ k \in DOMAIN items /\ items[k].media = m /\ RowRight(k)
    BY DEF RowsOf, LibraryInv, LibraryType
  <2>2. Of[old] = m /\ m \in Media
    BY <2>1, LibraryConstants DEF RowRight
  <2> QED
    BY <2>1, <2>2, CanonicalNames DEF NewNames
<1>2. IF free THEN RenameDir(old, new) ELSE UNCHANGED <<dirs, disk, nfo>>
  OBVIOUS
<1>3. items' = items /\ \E pc : Takes("titles", pc, m, a)
  OBVIOUS
<1>4. MovingRight(a)
  <2>1. \A f \in In(old) : Place(f) \in PlaceType /\ Place(f).folder = old
    BY DEF In, Place, PlaceType, LibraryInv, LibraryType, StrmFile
  <2>2. \A p \in a.strms : p \in PlaceType /\ p.folder = old
    BY <2>1
  <2> QED
    BY <1>1, <2>2 DEF MovingRight, RenameRight
<1> HIDE DEF old, a
<1>5. LibraryInv' /\ ItemsStay
  BY <1>1, <1>2, <1>3, RenameKeeps, NothingKeeps DEF library
<1>6. TaskShape' /\ OtherTasks("titles") /\ task'["titles"].arg = a
  BY <1>0, <1>3, TakesSets
<1>7. Own("titles")'
  BY <1>4, <1>6 DEF Own, TitlesInv, MovingRight, RenameRight
<1> QED
  BY <1>0, <1>5, <1>6, <1>7, OneTask DEF Kept

LEMMA TitlesTurnKeeps ==
  ASSUME LibraryInv, TasksInv, NEW pc, NEW arg, Turns("titles", pc, arg),
         LibraryInv' /\ ItemsStay, pc \notin {"idle", "titles"} => MovingRight(arg)
  PROVE  Kept
<1>0. "titles" \in Tasks /\ TaskShape
  BY DEF TasksInv, Tasks
<1>1. /\ TaskShape' /\ OtherTasks("titles") /\ task'["titles"].pc = pc
      /\ task'["titles"].arg = arg
  BY <1>0, TurnSets
<1>2. Own("titles")'
  BY <1>0, <1>1 DEF Own, TitlesInv, MovingRight, RenameRight
<1> QED
  BY <1>0, <1>1, <1>2, OneTask DEF Kept

LEMMA MovingStays ==
  ASSUME NEW a, MovingRight(a), NEW x
  PROVE  MovingRight([a EXCEPT !.strms = @ \ {x}]) /\ MovingRight([a EXCEPT !.nfos = @ \ {x}])
<1>1. /\ a.old \in Names /\ a.new \in Names /\ Of[a.old] = Of[a.new] /\ a.old # a.new
      /\ a = [old |-> a.old, new |-> a.new, strms |-> a.strms, nfos |-> a.nfos]
      /\ \A p \in a.strms : p \in PlaceType /\ p.folder = a.old
  BY DEF MovingRight, RenameRight
<1>2. ASSUME NEW S, NEW T, \A p \in S : p \in a.strms,
             NEW b, b = [old |-> a.old, new |-> a.new, strms |-> S, nfos |-> T]
      PROVE  MovingRight(b)
  <2>1. b.old = a.old /\ b.new = a.new /\ b.strms = S /\ b.nfos = T
    BY <1>2
  <2> QED
    BY <1>1, <1>2, <2>1 DEF MovingRight, RenameRight
<1>3. /\ [a EXCEPT !.strms = @ \ {x}]
           = [old |-> a.old, new |-> a.new, strms |-> a.strms \ {x}, nfos |-> a.nfos]
      /\ [a EXCEPT !.nfos = @ \ {x}]
           = [old |-> a.old, new |-> a.new, strms |-> a.strms, nfos |-> a.nfos \ {x}]
  BY <1>1
<1> QED
  BY <1>2, <1>3

LEMMA TitlesKeeps ==
  ASSUME LibraryInv, TasksInv, TitlesStep
  PROVE  Kept
<1> DEFINE a == task["titles"].arg
<1>0. "titles" \in Tasks /\ TaskShape /\ TitlesInv
  BY DEF TasksInv, Tasks
<1>1. CASE TitleStays
  <2>1. UNCHANGED library /\ \E m : Does("titles", m)
    BY <1>1 DEF TitleStays
  <2> QED
    BY <1>0, <2>1, NothingKeeps, DoesKeeps DEF Kept
<1>2. CASE TitlesDone
  BY <1>0, <1>2, NothingKeeps, EndsKeeps DEF TitlesDone, Kept
<1>3. CASE FixTitleRows
  <2>1. /\ task["titles"].pc = "rows" /\ UNCHANGED <<dirs, disk, nfo>>
        /\ items' = RowsUnderPrefix(a.old, a.new) /\ Turns("titles", "titles", 0)
    BY <1>3 DEF FixTitleRows
  <2>2. a.old \in Names /\ a.new \in Names /\ Of[a.old] = Of[a.new]
    BY <1>0, <2>1 DEF TitlesInv, MovingRight, RenameRight
  <2> HIDE DEF a
  <2>3. LibraryInv' /\ ItemsStay
    BY <2>1, <2>2, PrefixKeeps, RowsFollowKeeps
  <2> QED
    BY <2>1, <2>3, TitlesTurnKeeps
<1>4. CASE MoveStrm
  <2>1. PICK p \in a.strms :
          /\ Turns("titles", "move", [a EXCEPT !.strms = @ \ {p}])
          /\ IF At(p) = {} THEN UNCHANGED <<dirs, disk>>
             ELSE /\ disk' = (disk \ (At(p) \cup At([p EXCEPT !.folder = a.new])))
                             \cup Moved(At(p), a.old, a.new)
                  /\ dirs' = dirs \cup {a.new}
    BY <1>4 DEF MoveStrm
  <2>2. MovingRight(a) /\ UNCHANGED <<nfo, items>>
    BY <1>0, <1>4 DEF MoveStrm, TitlesInv
  <2> HIDE DEF a
  <2>5. /\ a.old \in Names /\ a.new \in Names /\ Of[a.old] = Of[a.new] /\ a.old # a.new
        /\ p \in PlaceType /\ p.folder = a.old
    BY <2>1, <2>2 DEF MovingRight, RenameRight
  <2>3. LibraryInv' /\ ItemsStay
    <3>1. CASE At(p) = {}
      <4>1. UNCHANGED library
        BY <2>1, <2>2, <3>1 DEF library
      <4> QED
        BY <4>1, NothingKeeps
    <3>2. CASE At(p) # {}
      <4>1. /\ disk' = (disk \ (At(p) \cup At([p EXCEPT !.folder = a.new])))
                       \cup Moved(At(p), a.old, a.new)
            /\ dirs' = dirs \cup {a.new} /\ nfo' = nfo /\ items' = items
        BY <2>1, <2>2, <3>2
      <4> QED
        BY <2>5, <4>1, MoveStrmKeeps
    <3> QED
      BY <3>1, <3>2
  <2>4. MovingRight([a EXCEPT !.strms = @ \ {p}])
    BY <2>2, MovingStays
  <2> QED
    BY <2>1, <2>3, <2>4, TitlesTurnKeeps
<1>5. CASE MoveNfo
  <2> DEFINE named(s, n) == {x \in Nfos(n) : x.stem = s}
  <2>1. PICK stem \in a.nfos :
          /\ Turns("titles", "move", [a EXCEPT !.nfos = @ \ {stem}])
          /\ IF named(stem, a.old) = {} THEN UNCHANGED <<dirs, nfo>>
             ELSE /\ nfo' = (nfo \ (named(stem, a.old) \cup named(stem, a.new)))
                            \cup Moved(named(stem, a.old), a.old, a.new)
                  /\ dirs' = dirs \cup {a.new}
    BY <1>5 DEF MoveNfo
  <2>2. MovingRight(a) /\ UNCHANGED <<disk, items>>
    BY <1>0, <1>5 DEF MoveNfo, TitlesInv
  <2>3. named(stem, a.old) \subseteq nfo
    BY DEF Nfos
  <2> DEFINE S == named(stem, a.old)
             T == nfo \ (S \cup named(stem, a.new))
  <2>6. S \subseteq nfo /\ T \subseteq nfo
    BY <2>3
  <2>7. S # {} => nfo' = T \cup Moved(S, a.old, a.new) /\ dirs' = dirs \cup {a.new}
    BY <2>1
  <2>8. S = {} => UNCHANGED library
    BY <2>1, <2>2 DEF library
  <2> HIDE DEF a, named, S, T
  <2>9. a.old \in Names /\ a.new \in Names /\ Of[a.old] = Of[a.new]
    BY <2>2 DEF MovingRight, RenameRight
  <2>4. LibraryInv' /\ ItemsStay
    <3>1. CASE S = {}
      BY <2>8, <3>1, NothingKeeps
    <3>2. CASE S # {}
      BY <2>2, <2>6, <2>7, <2>9, <3>2, MoveNfoKeeps
    <3> QED
      BY <3>1, <3>2
  <2>5. MovingRight([a EXCEPT !.nfos = @ \ {stem}])
    BY <2>2, MovingStays
  <2> QED
    BY <2>1, <2>4, <2>5, TitlesTurnKeeps
<1>6. CASE MoveDone
  <2>1. /\ Turns("titles", "rows", a) /\ UNCHANGED <<disk, nfo, items>>
        /\ \/ dirs' = dirs
           \/ dirs' = dirs \ {a.old} /\ In(a.old) = {} /\ Nfos(a.old) = {}
    BY <1>6 DEF MoveDone
  <2>2. MovingRight(a)
    BY <1>0, <1>6 DEF MoveDone, TitlesInv
  <2> HIDE DEF a
  <2>3. FoldersIn(disk', dirs') /\ FoldersIn(nfo', dirs')
    BY <2>1, FromStart DEF FoldersIn, In, Nfos, LibraryInv
  <2>4. LibraryInv' /\ ItemsStay
    BY <2>1, <2>3, ShrinkKeeps
  <2> QED
    BY <2>1, <2>2, <2>4, TitlesTurnKeeps
<1>7. CASE MoveFails
  <2>1. UNCHANGED library /\ Turns("titles", "titles", 0)
    BY <1>7 DEF MoveFails
  <2> QED
    BY <2>1, NothingKeeps, TitlesTurnKeeps
<1> QED
  BY <1>1, <1>2, <1>3, <1>4, <1>5, <1>6, <1>7, FixTitleKeeps DEF TitlesStep

LEMMA PackWriteKeeps ==
  ASSUME LibraryInv, TasksInv, PackWrite
  PROVE  Kept
<1> DEFINE m == Of[(CHOOSE f \in task["pack"].arg : TRUE).folder]
<1> PICK ep \in task["pack"].todo, title \in Names :
      /\ task["pack"].pc = "write" /\ Does("pack", ep) /\ Of[title] = m
      /\ \/ UNCHANGED library
         \/ /\ items' = Append(items, [media |-> m, named |-> FALSE, folder |-> Nowhere,
                                       stem |-> title, ep |-> ep])
            /\ WriteStrm([folder |-> title, stem |-> title, ep |-> ep], Len(items) + 1)
            /\ UNCHANGED nfo
  BY DEF PackWrite
<1>0. /\ "pack" \in Tasks /\ PackInv
  BY DEF TasksInv, Tasks
<1>1. m \in Shows /\ m \in Media /\ ep \in Nat
  BY <1>0, LibraryConstants DEF PackInv, IsShow
<1> HIDE DEF m
<1> DEFINE p == [folder |-> title, stem |-> title, ep |-> ep]
           r == [media |-> m, named |-> FALSE, folder |-> Nowhere, stem |-> title, ep |-> ep]
<1>2. /\ r \in ItemRow /\ r.folder = Nowhere /\ r.media = m /\ r.ep = ep
      /\ p \in PlaceType /\ p.folder = title /\ p.ep = ep
  BY <1>1 DEF ItemRow, PlaceType
<1>3. \/ UNCHANGED library
      \/ items' = Append(items, r) /\ WriteStrm(p, Len(items) + 1) /\ UNCHANGED nfo
  OBVIOUS
<1> HIDE DEF p, r
<1>4. LibraryInv' /\ ItemsStay
  <2>1. CASE UNCHANGED library
    BY <2>1, NothingKeeps
  <2>2. CASE items' = Append(items, r) /\ WriteStrm(p, Len(items) + 1) /\ UNCHANGED nfo
    <3> PICK k : k = Len(items) + 1
      OBVIOUS
    <3>1. RowsFollow /\ k \in DOMAIN items' /\ items'[k] = r
      <4>1. r.folder \notin Names /\ (r.media \notin Shows => r.ep = 0)
        BY <1>1, <1>2, LibraryConstants
      <4> QED
        BY <1>2, <2>2, <4>1, AppendFollows
    <3>2. Leads(k, p)'
      BY <1>2, <3>1 DEF Leads
    <3>3. CASE dirs' = dirs \cup {p.folder} /\ disk' = Put(p, k)
      BY <2>2, <3>1, <3>2, <3>3, PutKeeps
    <3>4. CASE UNCHANGED <<dirs, disk>>
      <4>1. dirs' \subseteq Names
        BY <3>4 DEF LibraryInv, LibraryType
      <4> QED
        BY <2>2, <3>1, <3>4, <4>1, FromStart, Assemble
    <3> QED
      BY <2>2, <3>3, <3>4 DEF WriteStrm
  <2> QED
    BY <1>3, <2>1, <2>2
<1> QED
  BY <1>0, <1>4, DoesKeeps DEF Kept

LEMMA PackKeeps ==
  ASSUME LibraryInv, TasksInv, PackStep
  PROVE  Kept
<1>0. "pack" \in Tasks /\ TaskShape /\ PackInv
  BY DEF TasksInv, Tasks
<1>1. CASE PackUnlink
  <2>1. PICK f : /\ Does("pack", f) /\ disk' = disk \ {f} /\ UNCHANGED <<dirs, nfo, items>>
    BY <1>1 DEF PackUnlink
  <2>2. LibraryInv' /\ ItemsStay
    BY <2>1, FromStart, ShrinkKeeps DEF FoldersIn
  <2> QED
    BY <1>0, <2>1, <2>2, DoesKeeps DEF Kept
<1>2. CASE PackWrites
  <2>1. /\ task["pack"].pc = "unlink" /\ UNCHANGED library
        /\ Goes("pack", "write", {f.ep : f \in task["pack"].arg})
    BY <1>2 DEF PackWrites
  <2>2. LibraryInv' /\ ItemsStay
    BY <2>1, NothingKeeps
  <2>3. /\ TaskShape' /\ OtherTasks("pack") /\ task'["pack"].pc = "write"
        /\ task'["pack"].todo = {f.ep : f \in task["pack"].arg}
        /\ task'["pack"].arg = task["pack"].arg
    BY <1>0, <2>1, GoesSets
  <2>4. Own("pack")'
    BY <1>0, <2>1, <2>3 DEF Own, PackInv, IsShow
  <2> QED
    BY <1>0, <2>2, <2>3, <2>4, OneTask DEF Kept
<1>3. CASE PackDone
  BY <1>0, <1>3, NothingKeeps, EndsKeeps DEF PackDone, Kept
<1> QED
  BY <1>1, <1>2, <1>3, PackWriteKeeps DEF PackStep

LEMMA StartKeeps ==
  ASSUME LibraryInv, TasksInv, StartTask
  PROVE  Kept
<1>0. TaskShape /\ dirs \subseteq Names
  BY DEF TasksInv, LibraryInv, LibraryType
<1>1. UNCHANGED library
  BY DEF StartTask, Starts
<1>2. LibraryInv' /\ ItemsStay
  BY <1>1, NothingKeeps
<1>3. ASSUME NEW t \in Tasks, NEW pc, NEW todo, Goes(t, pc, todo)
      PROVE  TaskShape' /\ OtherTasks(t) /\ task'[t].pc = pc /\ task'[t].todo = todo
  BY <1>0, <1>3, GoesSets
<1>4. CASE Goes("generate", "rebuild", RowList)
  <2>1. "generate" \in Tasks
    BY DEF Tasks
  <2>2. TaskShape' /\ OtherTasks("generate") /\ task'["generate"].todo = RowList
    BY <1>3, <1>4, <2>1
  <2>3. Own("generate")'
    BY <1>2, <2>2, RowListLeads, LeadsStays DEF Own, RebuildInv
  <2> QED
    BY <1>2, <2>1, <2>2, <2>3, OneTask DEF Kept
<1>5. CASE Goes("repair", "folders", Films(dirs))
  <2>1. "repair" \in Tasks
    BY DEF Tasks
  <2>2. /\ TaskShape' /\ OtherTasks("repair") /\ task'["repair"].pc = "folders"
        /\ task'["repair"].todo = Films(dirs)
    BY <1>3, <1>5, <2>1
  <2>3. Own("repair")'
    BY <1>0, <2>2 DEF Own, RepairInv, Films, IsShow
  <2> QED
    BY <1>2, <2>1, <2>2, <2>3, OneTask DEF Kept
<1>6. CASE Goes("migrate", "groups", Groups(Films(dirs)))
  <2>1. "migrate" \in Tasks
    BY DEF Tasks
  <2>2. /\ TaskShape' /\ OtherTasks("migrate") /\ task'["migrate"].pc = "groups"
        /\ task'["migrate"].todo = Groups(Films(dirs))
    BY <1>3, <1>6, <2>1
  <2>3. \A g \in Groups(Films(dirs)) : GroupRight(g)
    BY <1>0 DEF Groups, GroupRight, Films
  <2>4. Own("migrate")'
    BY <2>2, <2>3 DEF Own, MigrateInv, GroupRight
  <2> QED
    BY <1>2, <2>1, <2>2, <2>4, OneTask DEF Kept
<1>7. CASE Goes("dedup", "folders", Films(dirs))
  <2>1. "dedup" \in Tasks
    BY DEF Tasks
  <2>2. TaskShape' /\ OtherTasks("dedup") /\ task'["dedup"].todo = Films(dirs)
    BY <1>3, <1>7, <2>1
  <2>3. Own("dedup")'
    BY <1>0, <2>2 DEF Own, DedupInv, Films
  <2> QED
    BY <1>2, <2>1, <2>2, <2>3, OneTask DEF Kept
<1>8. CASE Goes("cleanup", "messy", dirs)
  BY <1>1, <1>8, CleanupGoesOn DEF CleanupGoes
<1>9. CASE \E raw \in SUBSET Media : Goes("titles", "titles", raw)
  <2>1. "titles" \in Tasks
    BY DEF Tasks
  <2>2. TaskShape' /\ OtherTasks("titles") /\ task'["titles"].pc = "titles"
    BY <1>3, <1>9, <2>1
  <2>3. Own("titles")'
    BY <2>2 DEF Own, TitlesInv
  <2> QED
    BY <1>2, <2>1, <2>2, <2>3, OneTask DEF Kept
<1>10. CASE \E m \in Shows : task' = [task EXCEPT !["pack"] =
              [Idle EXCEPT !.pc = "unlink", !.todo = In(Canonical[m]), !.arg = In(Canonical[m])]]
  <2> PICK m \in Shows : task' = [task EXCEPT !["pack"] =
              [Idle EXCEPT !.pc = "unlink", !.todo = In(Canonical[m]), !.arg = In(Canonical[m])]]
    BY <1>10
  <2> PICK season : season = In(Canonical[m])
    OBVIOUS
  <2>1. "pack" \in Tasks
    BY DEF Tasks
  <2>2. \A f \in season : IsShow(f.folder) /\ f.ep \in Nat
    BY LibraryConstants, CanonicalNames DEF In, IsShow, LibraryInv, LibraryType, StrmFile
  <2>3. /\ task' = [u \in Tasks |-> task'[u]] /\ OtherTasks("pack")
        /\ task'["pack"] = [pc |-> "unlink", todo |-> season, arg |-> season, noted |-> FALSE]
    BY <1>0, <2>1 DEF TaskShape, OtherTasks, Idle
  <2>4. task'["pack"].pc = "unlink" /\ task'["pack"].arg = season
    BY <2>3
  <2>5. TaskShape'
    BY <1>0, <2>1, <2>3, TaskSet
  <2>6. PackInv'
    BY <2>2, <2>4 DEF PackInv, IsShow
  <2>7. Own("pack")'
    BY <2>6 DEF Own
  <2> QED
    BY <1>2, <2>1, <2>3, <2>5, <2>7, OneTask DEF Kept
<1>11. \/ Goes("generate", "rebuild", RowList) \/ Goes("repair", "folders", Films(dirs))
       \/ Goes("migrate", "groups", Groups(Films(dirs))) \/ Goes("dedup", "folders", Films(dirs))
       \/ Goes("cleanup", "messy", dirs) \/ \E raw \in SUBSET Media : Goes("titles", "titles", raw)
       \/ \E m \in Shows : task' = [task EXCEPT !["pack"] =
              [Idle EXCEPT !.pc = "unlink", !.todo = In(Canonical[m]), !.arg = In(Canonical[m])]]
  BY DEF StartTask, Starts
<1> QED
  BY <1>4, <1>5, <1>6, <1>7, <1>8, <1>9, <1>10, <1>11

LEMMA StepKeeps ==
  ASSUME LibraryInv, TasksInv, Step
  PROVE  Kept
<1>1. CASE CreateStep
  BY <1>1, CreateKeeps, CreateWriteKeeps, CreateNfoKeeps DEF CreateStep
<1>2. CASE \E t \in {"generate", "cleanup"} : GenerateStep(t)
  BY <1>2, GenerateKeeps
<1> QED
  BY <1>1, <1>2, RepairKeeps, MigrateKeeps, DedupKeeps, CleanupKeeps, PackKeeps, TitlesKeeps,
     StartKeeps DEF Step
-----------------------------------------------------------------------------
(* The threads of the import and the recovery.                             *)
OtherSyncs(s) == \A u \in Syncs \ {s} : sync'[u] = sync[u]

LEMMA SyncSet ==
  ASSUME SyncShape, NEW s \in Syncs, NEW pc, NEW kind, NEW todo, NEW seen,
         sync' = [u \in Syncs |-> sync'[u]], OtherSyncs(s),
         sync'[s] = [pc |-> pc, kind |-> kind, todo |-> todo, seen |-> seen]
  PROVE  SyncShape' /\ sync'[s].pc = pc /\ sync'[s].todo = todo /\ sync'[s].seen = seen
<1>1. sync'[s].pc = pc /\ sync'[s].todo = todo /\ sync'[s].seen = seen
  OBVIOUS
<1>2. \A u \in Syncs : sync'[u] = [pc |-> sync'[u].pc, kind |-> sync'[u].kind,
                                   todo |-> sync'[u].todo, seen |-> sync'[u].seen]
  <2> SUFFICES ASSUME NEW u \in Syncs
               PROVE  sync'[u] = [pc |-> sync'[u].pc, kind |-> sync'[u].kind,
                                  todo |-> sync'[u].todo, seen |-> sync'[u].seen]
    OBVIOUS
  <2>1. CASE u = s
    BY <2>1
  <2>2. CASE u # s
    BY <2>2 DEF SyncShape, OtherSyncs
  <2> QED
    BY <2>1, <2>2
<1> QED
  BY <1>1, <1>2 DEF SyncShape

LEMMA Begins2Sets ==
  ASSUME SyncShape, NEW s \in Syncs, NEW pc, NEW todo, NEW seen, Begins2(s, pc, todo, seen)
  PROVE  /\ SyncShape' /\ OtherSyncs(s) /\ sync'[s].pc = pc
         /\ sync'[s].todo = todo /\ sync'[s].seen = seen
<1>1. sync[s] = [pc |-> sync[s].pc, kind |-> sync[s].kind, todo |-> sync[s].todo,
                 seen |-> sync[s].seen]
  BY DEF SyncShape
<1>2. sync' = [u \in Syncs |-> sync'[u]] /\ OtherSyncs(s)
  BY DEF SyncShape, Begins2, OtherSyncs
<1>3. sync'[s] = [pc |-> pc, kind |-> sync[s].kind, todo |-> todo, seen |-> seen]
  BY <1>1 DEF SyncShape, Begins2
<1> QED
  BY <1>2, <1>3, SyncSet

LEMMA Does2Sets ==
  ASSUME SyncShape, NEW s \in Syncs, NEW x, Does2(s, x)
  PROVE  /\ SyncShape' /\ OtherSyncs(s) /\ sync'[s].pc = sync[s].pc
         /\ sync'[s].todo = sync[s].todo \ {x} /\ sync'[s].seen = sync[s].seen
<1>1. sync[s] = [pc |-> sync[s].pc, kind |-> sync[s].kind, todo |-> sync[s].todo,
                 seen |-> sync[s].seen]
  BY DEF SyncShape
<1>2. sync' = [u \in Syncs |-> sync'[u]] /\ OtherSyncs(s)
  BY DEF SyncShape, Does2, OtherSyncs
<1>3. sync'[s] = [pc |-> sync[s].pc, kind |-> sync[s].kind, todo |-> sync[s].todo \ {x},
                  seen |-> sync[s].seen]
  BY <1>1 DEF SyncShape, Does2
<1> QED
  BY <1>2, <1>3, SyncSet

(* One thread takes a step: the others remember what they did.             *)
LEMMA OneSync ==
  ASSUME \A u \in Syncs : SyncRight(u), ItemsStay, NEW s \in Syncs, OtherSyncs(s), SyncRight(s)'
  PROVE  \A u \in Syncs : SyncRight(u)'
<1>1. ASSUME NEW u \in Syncs \ {s} PROVE SyncRight(u)'
  <2>1. sync'[u] = sync[u] /\ SyncRight(u)
    BY DEF OtherSyncs
  <2> QED
    BY <2>1, LeadsStays DEF SyncRight, IsShow
<1> QED
  BY <1>1

LEMMA NoSync ==
  ASSUME \A u \in Syncs : SyncRight(u), SyncShape, ItemsStay, UNCHANGED sync
  PROVE  SyncShape' /\ \A u \in Syncs : SyncRight(u)'
<1>1. SyncShape'
  BY DEF SyncShape
<1>2. ASSUME NEW u \in Syncs PROVE SyncRight(u)'
  BY LeadsStays DEF SyncRight, IsShow
<1> QED
  BY <1>1, <1>2

(* A thread that neither imports nor asks stops nobody from asking.        *)
LEMMA AskedStays ==
  ASSUME NEW s \in Syncs, OtherSyncs(s), NEW r, Asked(r),
         \/ sync[s].pc \notin {"import", "resolve"}
         \/ sync[s].pc = "resolve" /\ r \notin sync[s].todo
  PROVE  Asked(r)'
BY DEF Asked, OtherSyncs

LEMMA UpsertedRows ==
  ASSUME RowsInv, NEW id \in Media \cup Names, NEW title \in Names,
         id = IF id \in Media THEN Of[title] ELSE title,
         rows' = Upserted(id, title), UNCHANGED <<watched, misses>>
  PROVE  RowsInv'
<1> DEFINE n == [id |-> id, title |-> title]
<1>1. n \in RowType /\ n.id = id /\ n.title = title
  BY DEF RowType
<1>2. rows' = {r \in rows : r.id # id} \cup {n}
  BY DEF Upserted
<1> HIDE DEF n
<1> QED
  BY <1>1, <1>2 DEF RowsInv

LEMMA RekeyedRows ==
  ASSUME RowsInv, NEW id \in Names, Rekey(id, Of[id]), UNCHANGED watched, misses' \in 0 .. 1
  PROVE  RowsInv' /\ \A r \in Placeholders' : r \in Placeholders /\ r.id # id
<1> DEFINE new   == Of[id]
           re(r) == IF r.id = id THEN [r EXCEPT !.id = new] ELSE r
<1>1. new \in Media /\ new \notin Names /\ id \notin Media
  BY LibraryConstants, SyncConstants
<1>2. CASE \E r \in rows : r.id = new
  <2>1. rows' = {r \in rows : r.id # id}
    BY <1>2 DEF Rekey
  <2> QED
    BY <2>1 DEF RowsInv, Placeholders
<1>3. CASE ~\E r \in rows : r.id = new
  <2>1. rows' = {re(r) : r \in rows}
    BY <1>3 DEF Rekey
  <2>2. ASSUME NEW r \in rows
        PROVE  /\ re(r) \in RowType /\ re(r).title = r.title
               /\ re(r).id = IF r.id = id THEN new ELSE r.id
               /\ r.id # id => re(r) = r
    <3>1. r \in RowType
      BY DEF RowsInv
    <3> QED
      BY <1>1, <3>1 DEF RowType
  <2> HIDE DEF re
  <2>3. \A q, r \in rows : re(q).id = re(r).id => q = r
    BY <1>3, <2>2 DEF RowsInv
  <2>4. \A r \in rows :
          re(r).id = IF re(r).id \in Media THEN Of[re(r).title] ELSE re(r).title
    BY <1>1, <2>2 DEF RowsInv
  <2>5. RowsInv'
    BY <2>1, <2>2, <2>3, <2>4 DEF RowsInv
  <2>6. \A r \in Placeholders' : r \in Placeholders /\ r.id # id
    BY <1>1, <2>1, <2>2 DEF Placeholders
  <2> QED
    BY <2>5, <2>6
<1> QED
  BY <1>2, <1>3

(* What one step of a thread keeps.                                        *)
SyncKept == /\ Kept /\ SyncShape' /\ RowsInv' /\ \A s \in Syncs : SyncRight(s)'
            /\ ImportInv'

LEMMA NothingOfTasks ==
  ASSUME LibraryInv, TasksInv, UNCHANGED <<library, task>>
  PROVE  Kept
BY NothingKeeps, NoTask DEF Kept

LEMMA RowsUntouched ==
  ASSUME RowsInv, UNCHANGED <<rows, watched, misses>>
  PROVE  RowsInv'
BY DEF RowsInv

LEMMA FilledNames == LibraryInv => Filled \subseteq Names
BY DEF LibraryInv, LibraryType, Filled, StrmFile

LEMMA PlaceholdersNamed ==
  ASSUME RowsInv, NEW r \in Placeholders
  PROVE  r \in RowType /\ r.id \in Names /\ r.title = r.id
BY SyncConstants DEF RowsInv, Placeholders

LEMMA StartsKeep ==
  ASSUME LibInv, ImportInv, NEW s \in Syncs,
         StartImport(s) \/ StartResolve(s) \/ StartRecovery(s) \/ CleanedUp(s)
  PROVE  SyncKept
<1> USE DEF LibInv
<1>1. UNCHANGED <<library, rows, watched, misses>>
  BY DEF StartImport, StartResolve, StartRecovery, CleanedUp, OnlySync
<1>2. RowsInv' /\ sync[s].pc \in {"idle", "cleanup"}
  BY <1>1, RowsUntouched DEF StartImport, StartResolve, StartRecovery, CleanedUp
<1>3. Kept
  <2>1. CASE UNCHANGED task
    BY <1>1, <2>1, NothingOfTasks
  <2>2. CASE Goes("cleanup", "messy", dirs)
    BY <1>1, <2>2, CleanupGoesOn DEF CleanupGoes
  <2> QED
    BY <2>1, <2>2 DEF StartImport, StartResolve, StartRecovery, CleanedUp, OnlySync
<1>4. SyncShape' /\ OtherSyncs(s) /\ SyncRight(s)'
  <2>1. CASE Begins2(s, "import", Filled, Titles)
    BY <2>1, Begins2Sets, FilledNames DEF SyncRight
  <2>2. CASE Begins2(s, "resolve", Placeholders, {})
    <3>1. /\ SyncShape' /\ OtherSyncs(s) /\ sync'[s].pc = "resolve"
          /\ sync'[s].todo = Placeholders
      BY <2>2, Begins2Sets
    <3> QED
      BY <3>1, PlaceholdersNamed DEF SyncRight
  <2>3. CASE sync' = [sync EXCEPT ![s].pc = "cleanup", ![s].kind = "recovery"]
    <3>1. sync[s] = [pc |-> sync[s].pc, kind |-> sync[s].kind, todo |-> sync[s].todo,
                     seen |-> sync[s].seen]
      BY DEF SyncShape
    <3>2. sync' = [u \in Syncs |-> sync'[u]] /\ OtherSyncs(s)
      BY <2>3 DEF SyncShape, OtherSyncs
    <3>3. sync'[s] = [pc |-> "cleanup", kind |-> "recovery", todo |-> sync[s].todo,
                      seen |-> sync[s].seen]
      BY <2>3, <3>1 DEF SyncShape
    <3>4. SyncShape' /\ sync'[s].pc = "cleanup"
      BY <3>2, <3>3, SyncSet
    <3> QED
      BY <3>2, <3>4 DEF SyncRight
  <2> QED
    BY <2>1, <2>2, <2>3 DEF StartImport, StartResolve, StartRecovery, CleanedUp
<1>5. ImportInv'
  BY <1>1, <1>2, <1>4, AskedStays DEF ImportInv, Placeholders
<1> QED
  BY <1>2, <1>3, <1>4, <1>5, OneSync DEF SyncKept, Kept

LEMMA ImportFolderKeeps ==
  ASSUME LibInv, ImportInv, NEW s \in Syncs, ImportFolder(s)
  PROVE  SyncKept
<1> USE DEF LibInv
<1> PICK n \in sync[s].todo :
      /\ sync[s].pc = "import" /\ OnlySync /\ UNCHANGED <<watched, misses>>
      /\ \/ /\ rows' = Upserted(n, n)
            /\ sync' = [sync EXCEPT ![s].todo = @ \ {n}, ![s].seen = @ \cup {n}]
         \/ /\ rows' = rows
            /\ sync' = [sync EXCEPT ![s].todo = @ \ {n}, ![s].seen = @]
  BY DEF ImportFolder
<1>1. n \in Names /\ n \notin Media /\ sync[s].todo \subseteq Names
  BY SyncConstants DEF SyncRight
<1>2. Kept
  BY NothingOfTasks DEF OnlySync
<1>3. RowsInv'
  BY <1>1, UpsertedRows, RowsUntouched
<1>4. sync[s] = [pc |-> sync[s].pc, kind |-> sync[s].kind, todo |-> sync[s].todo,
                 seen |-> sync[s].seen]
  BY DEF SyncShape
<1>5. /\ sync' = [u \in Syncs |-> sync'[u]] /\ OtherSyncs(s)
      /\ \E seen : sync'[s] = [pc |-> sync[s].pc, kind |-> sync[s].kind,
                               todo |-> sync[s].todo \ {n}, seen |-> seen]
  BY <1>4 DEF SyncShape, OtherSyncs
<1>6. SyncShape' /\ sync'[s].pc = "import" /\ sync'[s].todo \subseteq Names
  BY <1>1, <1>5, SyncSet
<1>7. SyncRight(s)' /\ ImportInv'
  BY <1>6 DEF SyncRight, ImportInv, Asked
<1> QED
  BY <1>2, <1>3, <1>5, <1>6, <1>7, OneSync DEF SyncKept, Kept

LEMMA ImportedKeeps ==
  ASSUME LibInv, ImportInv, NEW s \in Syncs, Imported(s)
  PROVE  SyncKept
<1> USE DEF LibInv
<1>1. /\ Begins2(s, "resolve", Placeholders, {}) /\ UNCHANGED <<library, task>>
      /\ UNCHANGED <<rows, watched, misses>>
  BY DEF Imported, OnlySync
<1>2. Kept /\ RowsInv'
  BY <1>1, NothingOfTasks, RowsUntouched
<1>3. /\ SyncShape' /\ OtherSyncs(s) /\ sync'[s].pc = "resolve"
      /\ sync'[s].todo = Placeholders
  BY <1>1, Begins2Sets
<1>4. SyncRight(s)'
  BY <1>3, PlaceholdersNamed DEF SyncRight
<1>5. ImportInv'
  BY <1>1, <1>3 DEF ImportInv, Asked, Placeholders
<1> QED
  BY <1>2, <1>3, <1>4, <1>5, OneSync DEF SyncKept, Kept

(* The rows a placeholder's answer leaves are asked about elsewhere.       *)
LEMMA ResolveRowKeeps ==
  ASSUME LibInv, ImportInv, NEW s \in Syncs, ResolveRow(s)
  PROVE  SyncKept
<1> USE DEF LibInv
<1> PICK r \in sync[s].todo :
      /\ sync[s].pc = "resolve" /\ Does2(s, r) /\ OnlySync /\ UNCHANGED watched
      /\ \/ Rekey(r.id, Of[r.title]) /\ UNCHANGED misses
         \/ misses = 0 /\ misses' = 1 /\ UNCHANGED rows
  BY DEF ResolveRow
<1>1. r.id \in Names /\ r.title = r.id
  BY DEF SyncRight
<1>2. Kept
  BY NothingOfTasks DEF OnlySync
<1>3. /\ SyncShape' /\ OtherSyncs(s) /\ sync'[s].pc = "resolve"
      /\ sync'[s].todo = sync[s].todo \ {r}
  BY Does2Sets
<1>4. SyncRight(s)'
  BY <1>3 DEF SyncRight
<1>5. CASE Rekey(r.id, Of[r.title]) /\ UNCHANGED misses
  <2>1. RowsInv' /\ \A q \in Placeholders' : q \in Placeholders /\ q.id # r.id
    <3>1. Rekey(r.id, Of[r.id]) /\ misses' \in 0 .. 1
      BY <1>1, <1>5 DEF RowsInv
    <3> QED
      BY <1>1, <3>1, RekeyedRows
  <2>2. ASSUME misses' = 0, NEW q \in Placeholders' PROVE Asked(q)'
    <3>1. q # r /\ Asked(q)
      BY <1>5, <2>1, <2>2 DEF ImportInv
    <3> QED
      BY <1>3, <3>1 DEF Asked, OtherSyncs
  <2>3. ImportInv'
    BY <2>2 DEF ImportInv
  <2> QED
    BY <1>2, <1>3, <1>4, <2>1, <2>3, OneSync DEF SyncKept, Kept
<1>6. CASE misses = 0 /\ misses' = 1 /\ UNCHANGED rows
  <2>1. RowsInv' /\ ImportInv'
    BY <1>6 DEF RowsInv, ImportInv
  <2> QED
    BY <1>2, <1>3, <1>4, <2>1, OneSync DEF SyncKept, Kept
<1> QED
  BY <1>5, <1>6

LEMMA ResolvedAllKeeps ==
  ASSUME LibInv, ImportInv, NEW s \in Syncs, ResolvedAll(s)
  PROVE  SyncKept
<1> USE DEF LibInv
<1> DEFINE seen == {[show |-> r.id, title |-> r.title] : r \in rows \ Placeholders}
                   \cup {[show |-> m, title |-> Nowhere] : m \in watched}
<1>1. /\ sync[s].pc = "resolve" /\ sync[s].todo = {} /\ UNCHANGED <<library, task>>
      /\ UNCHANGED <<rows, watched, misses>>
      /\ \/ Begins2(s, "rebuild", RowList, {})
         \/ Begins2(s, "monitor", {n \in dirs : IsShow(n)}, seen)
  BY DEF ResolvedAll, OnlySync
<1>2. Kept /\ RowsInv'
  BY <1>1, NothingOfTasks, RowsUntouched
<1>3. \A x \in seen : x.title \in Names => x.show = Of[x.title]
  BY LibraryConstants DEF RowsInv, Placeholders, RowType
<1> HIDE DEF seen
<1>4. SyncShape' /\ OtherSyncs(s) /\ SyncRight(s)'
  <2>1. CASE Begins2(s, "rebuild", RowList, {})
    <3>1. /\ SyncShape' /\ OtherSyncs(s) /\ sync'[s].pc = "rebuild"
          /\ sync'[s].todo = RowList
      BY <2>1, Begins2Sets
    <3> QED
      BY <1>2, <3>1, RowListLeads, LeadsStays DEF SyncRight, Kept
  <2>2. CASE Begins2(s, "monitor", {n \in dirs : IsShow(n)}, seen)
    <3>1. /\ SyncShape' /\ OtherSyncs(s) /\ sync'[s].pc = "monitor"
          /\ sync'[s].todo = {n \in dirs : IsShow(n)} /\ sync'[s].seen = seen
      BY <2>2, Begins2Sets
    <3> QED
      BY <1>3, <3>1 DEF SyncRight, IsShow
  <2> QED
    BY <1>1, <2>1, <2>2
<1>5. ImportInv'
  BY <1>1, <1>4, AskedStays DEF ImportInv, Placeholders
<1> QED
  BY <1>2, <1>4, <1>5, OneSync DEF SyncKept, Kept

LEMMA MonitorFolderKeeps ==
  ASSUME LibInv, ImportInv, NEW s \in Syncs, MonitorFolder(s)
  PROVE  SyncKept
<1> USE DEF LibInv
<1> PICK n \in sync[s].todo :
      \E known : \E new :
        /\ sync[s].pc = "monitor" /\ OnlySync /\ UNCHANGED <<rows, misses>>
        /\ known \subseteq {x.show : x \in {y \in sync[s].seen : n \in dirs /\ y.title = n}}
        /\ new = {[show |-> m, title |-> Nowhere] : m \in known}
        /\ watched' \subseteq watched \cup known
        /\ sync' = [sync EXCEPT ![s].todo = @ \ {n}, ![s].seen = @ \cup new]
  <2> PICK n \in sync[s].todo :
        LET known == IF n \in dirs THEN {x.show : x \in {y \in sync[s].seen : y.title = n}}
                     ELSE {}
            had   == {x.show : x \in {y \in sync[s].seen : y.title = Nowhere}}
        IN  /\ sync[s].pc = "monitor"
            /\ watched' = watched \cup (known \ had)
            /\ sync' = [sync EXCEPT ![s].todo = @ \ {n},
                           ![s].seen = @ \cup {[show |-> m, title |-> Nowhere] : m \in known}]
            /\ OnlySync /\ UNCHANGED <<rows, misses>>
    BY DEF MonitorFolder
  <2> DEFINE known == IF n \in dirs THEN {x.show : x \in {y \in sync[s].seen : y.title = n}}
                      ELSE {}
             new   == {[show |-> m, title |-> Nowhere] : m \in known}
  <2>1. known \subseteq {x.show : x \in {y \in sync[s].seen : n \in dirs /\ y.title = n}}
    OBVIOUS
  <2>2. sync' = [sync EXCEPT ![s].todo = @ \ {n}, ![s].seen = @ \cup new]
    OBVIOUS
  <2>3. watched' \subseteq watched \cup known
    OBVIOUS
  <2> QED
    BY <2>1, <2>2, <2>3
<1>0. PICK known, new :
      /\ sync[s].pc = "monitor" /\ OnlySync /\ UNCHANGED <<rows, misses>>
      /\ known \subseteq {x.show : x \in {y \in sync[s].seen : n \in dirs /\ y.title = n}}
      /\ new = {[show |-> m, title |-> Nowhere] : m \in known}
      /\ watched' \subseteq watched \cup known
      /\ sync' = [sync EXCEPT ![s].todo = @ \ {n}, ![s].seen = @ \cup new]
  OBVIOUS
<1>1. /\ \A i \in sync[s].todo : IsShow(i)
      /\ \A x \in sync[s].seen : x.title \in Names => x.show = Of[x.title]
  BY <1>0 DEF SyncRight
<1>2. Kept
  BY <1>0, NothingOfTasks DEF OnlySync
<1>3. known \subseteq Shows
  BY <1>0, <1>1 DEF IsShow, LibraryInv, LibraryType
<1>4. RowsInv'
  BY <1>0, <1>3 DEF RowsInv
<1>5. \A x \in new : x.title \notin Names
  BY <1>0, LibraryConstants
<1>6. sync[s] = [pc |-> sync[s].pc, kind |-> sync[s].kind, todo |-> sync[s].todo,
                 seen |-> sync[s].seen]
  BY DEF SyncShape
<1>7. /\ sync' = [u \in Syncs |-> sync'[u]] /\ OtherSyncs(s)
      /\ sync'[s] = [sync[s] EXCEPT !.todo = @ \ {n}, !.seen = @ \cup new]
  BY <1>0 DEF SyncShape, OtherSyncs
<1>8. sync'[s] = [pc |-> sync[s].pc, kind |-> sync[s].kind, todo |-> sync[s].todo \ {n},
                  seen |-> sync[s].seen \cup new]
  BY <1>6, <1>7
<1>9. /\ SyncShape' /\ sync'[s].pc = sync[s].pc /\ sync'[s].todo = sync[s].todo \ {n}
      /\ sync'[s].seen = sync[s].seen \cup new
  BY <1>7, <1>8, SyncSet
<1>10. SyncRight(s)'
  BY <1>0, <1>1, <1>5, <1>9 DEF SyncRight, IsShow
<1>11. ImportInv'
  BY <1>0, <1>7, AskedStays DEF ImportInv, Placeholders
<1> QED
  BY <1>2, <1>4, <1>7, <1>9, <1>10, <1>11, OneSync DEF SyncKept, Kept

LEMMA FinishKeeps ==
  ASSUME LibInv, ImportInv, NEW s \in Syncs, Monitored(s) \/ FinishFolder(s) \/ Finished(s)
  PROVE  SyncKept
<1> USE DEF LibInv
<1>1. UNCHANGED <<items, task, rows, watched, misses>>
  BY DEF Monitored, FinishFolder, Finished, OnlySync, library
<1>2. RowsInv'
  BY <1>1, RowsUntouched
<1>3. Kept /\ SyncShape' /\ OtherSyncs(s) /\ SyncRight(s)'
  <2>1. CASE Monitored(s)
    <3>1. Begins2(s, "nfos", dirs, {}) /\ UNCHANGED <<library, task>>
      BY <2>1 DEF Monitored, OnlySync
    <3>2. SyncShape' /\ OtherSyncs(s) /\ sync'[s].pc = "nfos"
      BY <3>1, Begins2Sets
    <3> QED
      BY <3>1, <3>2, NothingOfTasks DEF SyncRight
  <2>2. CASE FinishFolder(s)
    <3> PICK x \in sync[s].todo :
          /\ Does2(s, x)
          /\ \/ /\ sync[s].pc = "nfos" /\ UNCHANGED <<dirs, disk>>
                /\ nfo' = IF x \in dirs THEN WithNfo(x, x) ELSE nfo
             \/ sync[s].pc = "rebuild" /\ Rebuilt(x) /\ UNCHANGED nfo
      BY <2>2 DEF FinishFolder
    <3>1. /\ SyncShape' /\ OtherSyncs(s) /\ sync'[s].pc = sync[s].pc
          /\ sync'[s].todo = sync[s].todo \ {x}
      BY Does2Sets
    <3>2. LibraryInv' /\ ItemsStay
      <4>1. CASE sync[s].pc = "nfos" /\ UNCHANGED <<dirs, disk>>
                 /\ nfo' = IF x \in dirs THEN WithNfo(x, x) ELSE nfo
        <5>1. dirs \subseteq Names
          BY DEF LibraryInv, LibraryType
        <5> QED
          BY <1>1, <4>1, <5>1, NfoKeeps, NothingKeeps DEF library
      <4>2. CASE sync[s].pc = "rebuild" /\ Rebuilt(x) /\ UNCHANGED nfo
        <5>1. Leads(x.row, x.place)
          BY <4>2 DEF SyncRight
        <5> QED
          BY <1>1, <4>2, <5>1, RebuiltKeeps
      <4> QED
        BY <4>1, <4>2
    <3>3. SyncRight(s)'
      BY <3>1, <3>2, LeadsStays DEF SyncRight
    <3> QED
      BY <1>1, <3>1, <3>2, <3>3, NoTask DEF Kept
  <2>3. CASE Finished(s)
    <3>1. sync' = [sync EXCEPT ![s] = Resting] /\ UNCHANGED <<library, task>>
      BY <2>3 DEF Finished, OnlySync
    <3>2. /\ sync' = [u \in Syncs |-> sync'[u]] /\ OtherSyncs(s)
          /\ sync'[s] = [pc |-> "idle", kind |-> "import", todo |-> {}, seen |-> {}]
      BY <3>1 DEF SyncShape, OtherSyncs, Resting
    <3>3. SyncShape' /\ sync'[s].pc = "idle"
      BY <3>2, SyncSet
    <3> QED
      BY <3>1, <3>2, <3>3, NothingOfTasks DEF SyncRight
  <2> QED
    BY <2>1, <2>2, <2>3
<1>4. ImportInv'
  <2>1. sync[s].pc \notin {"import", "resolve"}
    BY DEF Monitored, FinishFolder, Finished
  <2> QED
    BY <1>1, <1>3, <2>1, AskedStays DEF ImportInv, Placeholders
<1> QED
  BY <1>2, <1>3, <1>4, OneSync DEF SyncKept, Kept

LEMMA SyncMovieKeeps ==
  ASSUME LibInv, ImportInv, NEW m \in Media, NEW title \in Names, SyncMovie(m, title)
  PROVE  SyncKept
<1> USE DEF LibInv
<1>1. /\ rows' = Upserted(m, title) /\ Of[title] = m
      /\ UNCHANGED <<library, task, watched, sync, misses>>
  BY DEF SyncMovie
<1>2. Kept
  BY <1>1, NothingOfTasks
<1>3. RowsInv'
  BY <1>1, UpsertedRows
<1>4. Placeholders' \subseteq Placeholders
  BY <1>1, SyncConstants DEF Placeholders, Upserted
<1>5. ImportInv'
  BY <1>1, <1>4 DEF ImportInv, Asked
<1> QED
  BY <1>1, <1>2, <1>3, <1>5, NoSync DEF SyncKept, Kept

LEMMA SyncKeeps ==
  ASSUME LibInv, ImportInv, SyncStep
  PROVE  SyncKept
BY StartsKeep, ImportFolderKeeps, ImportedKeeps, ResolveRowKeeps, ResolvedAllKeeps,
   MonitorFolderKeeps, FinishKeeps, SyncMovieKeeps DEF SyncStep
-----------------------------------------------------------------------------
(* Whose step it is: a task moves on, stops or sets out, with the lock if  *)
(* it is one of the three that take it.                                    *)
Locked == {"repair", "migrate", "dedup"}
MovesOn(t) == task[t].pc # "idle" /\ task'[t].pc # "idle" /\ lock' = lock
Stops(t) == /\ task[t].pc # "idle" /\ task'[t].pc = "idle"
            /\ IF t \in Locked THEN Release(t) ELSE lock' = lock
SetsOut(t) == /\ task[t].pc = "idle" /\ task'[t].pc # "idle"
              /\ IF t \in Locked THEN Acquire(t) ELSE lock' = lock
Moves(t) == /\ t \in Tasks /\ OtherTasks(t)
            /\ \/ MovesOn(t) \/ Stops(t) \/ SetsOut(t)
               \/ UNCHANGED <<library, task, lock>>

LEMMA DoesMoves ==
  ASSUME TaskShape, NEW t \in Tasks, task[t].pc # "idle", NEW x, Does(t, x), lock' = lock
  PROVE  Moves(t)
BY DoesSets DEF Moves, MovesOn

LEMMA GoesMoves ==
  ASSUME TaskShape, NEW t \in Tasks, task[t].pc # "idle", NEW pc, NEW todo,
         Goes(t, pc, todo), pc # "idle", lock' = lock
  PROVE  Moves(t)
BY GoesSets DEF Moves, MovesOn

LEMMA NotesMoves ==
  ASSUME TaskShape, NEW t \in Tasks, task[t].pc # "idle", NEW x, Notes(t, x), lock' = lock
  PROVE  Moves(t)
<1>1. OtherTasks(t) /\ task'[t].pc = task[t].pc
  BY DEF TaskShape, OtherTasks, Notes
<1> QED
  BY <1>1 DEF Moves, MovesOn

LEMMA TurnMoves ==
  ASSUME TaskShape, NEW t \in Tasks, task[t].pc # "idle", NEW pc, NEW arg, Turns(t, pc, arg),
         pc # "idle", lock' = lock
  PROVE  Moves(t)
BY TurnSets DEF Moves, MovesOn

LEMMA TakesMoves ==
  ASSUME TaskShape, NEW t \in Tasks, task[t].pc # "idle", NEW pc, NEW x, NEW arg,
         Takes(t, pc, x, arg), pc # "idle", lock' = lock
  PROVE  Moves(t)
BY TakesSets DEF Moves, MovesOn

LEMMA EndsMoves ==
  ASSUME TaskShape, NEW t \in Tasks, task[t].pc # "idle", Ends(t),
         IF t \in Locked THEN Release(t) ELSE lock' = lock
  PROVE  Moves(t)
BY EndsSets DEF Moves, Stops

LEMMA CreateMoves == TaskShape /\ CreateStep => Moves("create")
<1> SUFFICES ASSUME TaskShape, CreateStep PROVE Moves("create")
  OBVIOUS
<1>0. "create" \in Tasks /\ "create" \notin Locked
  BY DEF Tasks, Locked
<1>1. CASE CreateWrite
  <2>1. /\ task["create"].pc = "write" /\ lock' = lock
        /\ (\E p : Goes("create", "nfo", {p})) \/ Ends("create")
    BY <1>1 DEF CreateWrite
  <2> QED
    BY <1>0, <2>1, GoesMoves, EndsMoves
<1>2. CASE CreateNfo
  BY <1>0, <1>2, EndsMoves DEF CreateNfo
<1>3. CASE \E m \in Media, n \in Names, ep \in 0 .. 1 : Create(m, n, ep)
  <2> PICK m \in Media, n \in Names, ep \in 0 .. 1 : Create(m, n, ep)
    BY <1>3
  <2>1. /\ task["create"].pc = "idle" /\ UNCHANGED <<dirs, disk, nfo, lock>>
        /\ \/ UNCHANGED <<items, task>>
           \/ \E p, k : task' = [task EXCEPT !["create"] =
                                   [Idle EXCEPT !.pc = "write", !.todo = {p}, !.arg = k]]
    BY DEF Create
  <2>2. CASE UNCHANGED <<items, task>>
    BY <1>0, <2>1, <2>2 DEF Moves, OtherTasks, library
  <2>3. CASE \E p, k : task' = [task EXCEPT !["create"] =
                                  [Idle EXCEPT !.pc = "write", !.todo = {p}, !.arg = k]]
    <3> PICK p, k : task' = [task EXCEPT !["create"] =
                               [Idle EXCEPT !.pc = "write", !.todo = {p}, !.arg = k]]
      BY <2>3
    <3>1. OtherTasks("create") /\ task'["create"].pc = "write"
      BY <1>0 DEF TaskShape, OtherTasks, Idle
    <3> QED
      BY <1>0, <2>1, <3>1 DEF Moves, SetsOut
  <2> QED
    BY <2>1, <2>2, <2>3
<1> QED
  BY <1>1, <1>2, <1>3 DEF CreateStep

LEMMA GenerateMoves ==
  ASSUME TaskShape, NEW t \in {"generate", "cleanup"}, GenerateStep(t)
  PROVE  Moves(t)
<1>0. t \in Tasks /\ t \notin Locked
  BY DEF Tasks, Locked
<1> QED
  BY <1>0, DoesMoves, GoesMoves, EndsMoves
     DEF GenerateStep, Rebuild, RebuildDone, WriteNfo, NfosDone

LEMMA RepairMoves == TaskShape /\ RepairStep => Moves("repair")
<1>0. "repair" \in Tasks /\ "repair" \in Locked
  BY DEF Tasks, Locked
<1>1. TaskShape /\ RepairFolder => Moves("repair")
  BY <1>0, DoesMoves DEF RepairFolder
<1>2. TaskShape /\ RepairFile => Moves("repair")
  BY <1>0, DoesMoves DEF RepairFile
<1>3. TaskShape /\ (RepairFolders \/ RepairDone) => Moves("repair")
  BY <1>0, GoesMoves, EndsMoves DEF RepairFolders, RepairDone
<1> QED
  BY <1>1, <1>2, <1>3 DEF RepairStep

LEMMA MigrateMoves == TaskShape /\ MigrateStep => Moves("migrate")
<1> SUFFICES ASSUME TaskShape, MigrateStep PROVE Moves("migrate")
  OBVIOUS
<1>0. "migrate" \in Tasks /\ "migrate" \in Locked
  BY DEF Tasks, Locked
<1>1. CASE Migrate
  <2>1. /\ task["migrate"].pc = "groups" /\ lock' = lock
        /\ \E g : \/ Does("migrate", g) \/ Notes("migrate", g)
                  \/ \E a : Takes("migrate", "rows", g, a) \/ Takes("migrate", "rest", g, a)
    BY <1>1 DEF Migrate
  <2> QED
    BY <1>0, <2>1, DoesMoves, NotesMoves, TakesMoves
<1>2. ASSUME \/ MigrateRows \/ MigrateFile \/ MigrateStem \/ MigrateNfo \/ MigrateRest
             \/ MigrateNext
      PROVE  Moves("migrate")
  <2>1. /\ task["migrate"].pc # "idle" /\ lock' = lock
        /\ \E pc, arg : pc # "idle" /\ Turns("migrate", pc, arg)
    BY <1>2 DEF MigrateRows, MigrateFile, MigrateStem, MigrateNfo, MigrateRest, MigrateNext
  <2> QED
    BY <1>0, <2>1, TurnMoves
<1>3. CASE MigrateDone
  BY <1>0, <1>3, EndsMoves DEF MigrateDone
<1> QED
  BY <1>1, <1>2, <1>3 DEF MigrateStep

LEMMA DedupMoves == TaskShape /\ DedupStep => Moves("dedup")
<1>0. "dedup" \in Tasks /\ "dedup" \in Locked
  BY DEF Tasks, Locked
<1>1. TaskShape /\ DedupStrms => Moves("dedup")
  BY <1>0, DoesMoves DEF DedupStrms
<1>2. TaskShape /\ DedupSkip => Moves("dedup")
  BY <1>0, DoesMoves DEF DedupSkip
<1>3. TaskShape /\ DedupDone => Moves("dedup")
  BY <1>0, EndsMoves DEF DedupDone
<1> QED
  BY <1>1, <1>2, <1>3 DEF DedupStep

LEMMA CleanupMoves == TaskShape /\ CleanupStep => Moves("cleanup")
<1> SUFFICES ASSUME TaskShape, CleanupStep PROVE Moves("cleanup")
  OBVIOUS
<1>0. "cleanup" \in Tasks /\ "cleanup" \notin Locked
  BY DEF Tasks, Locked
<1>1. CASE CleanupRename
  BY <1>0, <1>1, DoesMoves DEF CleanupRename, C
<1>2. CASE CleanupMerge
  BY <1>0, <1>2, DoesMoves DEF CleanupMerge, C
<1>3. CASE CleanupRenamed \/ CleanupMerged \/ CleanupListed
  BY <1>0, <1>3, GoesMoves DEF CleanupRenamed, CleanupMerged, CleanupListed, CleanupGoes, C
<1>4. ASSUME C.pc # "idle", Regenerates, lock' = lock PROVE Moves("cleanup")
  <2>1. Goes("cleanup", "rebuild", RowList) \/ Ends("cleanup")
    BY <1>4 DEF Regenerates, Goes
  <2> QED
    BY <1>0, <1>4, <2>1, GoesMoves, EndsMoves DEF C
<1>5. CASE CleanupList \/ CleanupDone
  <2>1. /\ C.pc \in {"orphans", "broken"} /\ lock' = lock
        /\ Regenerates \/ CleanupGoes("dups", disk) \/ Ends("cleanup")
    BY <1>5 DEF CleanupList, CleanupDone
  <2> QED
    BY <1>0, <1>4, <2>1, GoesMoves, EndsMoves DEF CleanupGoes, C
<1>6. ASSUME C.pc # "idle", OtherTasks("cleanup"), task'["cleanup"].pc = C.pc, lock' = lock
      PROVE  Moves("cleanup")
  BY <1>0, <1>6 DEF Moves, MovesOn, C
<1>7. CASE CleanupLook
  <2>1. /\ C.pc = "orphans" /\ lock' = lock
        /\ \E x : task' = [task EXCEPT !["cleanup"].arg = x] \/ Does("cleanup", x)
    BY <1>7 DEF CleanupLook
  <2>2. CASE \E x : Does("cleanup", x)
    BY <1>0, <2>1, <2>2, DoesMoves DEF C
  <2>3. CASE \E x : task' = [task EXCEPT !["cleanup"].arg = x]
    <3>1. OtherTasks("cleanup") /\ task'["cleanup"].pc = task["cleanup"].pc
      BY <1>0, <2>3 DEF TaskShape, OtherTasks
    <3> QED
      BY <1>6, <2>1, <3>1 DEF C
  <2> QED
    BY <2>1, <2>2, <2>3
<1>8. CASE CleanupOrphan
  <2>1. /\ C.pc = "orphans" /\ lock' = lock
        /\ task' = [task EXCEPT !["cleanup"].todo = @ \ {C.arg}, !["cleanup"].arg = 0,
                                !["cleanup"].noted = TRUE]
    BY <1>8 DEF CleanupOrphan
  <2>2. OtherTasks("cleanup") /\ task'["cleanup"].pc = task["cleanup"].pc
    BY <1>0, <2>1 DEF TaskShape, OtherTasks
  <2> QED
    BY <1>6, <2>1, <2>2 DEF C
<1>9. CASE CleanupDups
  <2>1. PICK gone, same :
          /\ C.pc = "dups" /\ lock' = lock
          /\ task' = [task EXCEPT !["cleanup"].todo = @ \ same,
                                  !["cleanup"].noted = @ \/ gone # {}]
    BY <1>9, ZenonT(60) DEF CleanupDups
  <2>2. OtherTasks("cleanup") /\ task'["cleanup"].pc = task["cleanup"].pc
    BY <1>0, <2>1 DEF TaskShape, OtherTasks
  <2> QED
    BY <1>6, <2>1, <2>2 DEF C
<1>10. CASE CleanupBroken
  <2>1. PICK f : /\ C.pc = "broken" /\ lock' = lock
                 /\ Does("cleanup", f) \/ Notes("cleanup", f) \/ CleanupGoes("broken", {})
    BY <1>10 DEF CleanupBroken
  <2>2. CASE Notes("cleanup", f)
    <3>1. OtherTasks("cleanup") /\ task'["cleanup"].pc = task["cleanup"].pc
      BY <1>0, <2>2 DEF TaskShape, OtherTasks, Notes
    <3> QED
      BY <1>6, <2>1, <3>1 DEF C
  <2> QED
    BY <1>0, <2>1, <2>2, DoesMoves, GoesMoves DEF CleanupGoes, C
<1> QED
  BY <1>1, <1>2, <1>3, <1>5, <1>7, <1>8, <1>9, <1>10 DEF CleanupStep

LEMMA TitlesMoves == TaskShape /\ TitlesStep => Moves("titles")
<1> SUFFICES ASSUME TaskShape, TitlesStep PROVE Moves("titles")
  OBVIOUS
<1>0. "titles" \in Tasks /\ "titles" \notin Locked
  BY DEF Tasks, Locked
<1>1. CASE TitleStays
  BY <1>0, <1>1, DoesMoves DEF TitleStays
<1>2. CASE FixTitle
  <2>1. /\ task["titles"].pc = "titles" /\ lock' = lock
        /\ \E pc, m, a : pc # "idle" /\ Takes("titles", pc, m, a)
    BY <1>2 DEF FixTitle
  <2> QED
    BY <1>0, <2>1, TakesMoves
<1>3. CASE FixTitleRows \/ MoveStrm \/ MoveNfo \/ MoveDone \/ MoveFails
  <2>1. /\ task["titles"].pc # "idle" /\ lock' = lock
        /\ \E pc, arg : pc # "idle" /\ Turns("titles", pc, arg)
    BY <1>3 DEF FixTitleRows, MoveStrm, MoveNfo, MoveDone, MoveFails
  <2> QED
    BY <1>0, <2>1, TurnMoves
<1>4. CASE TitlesDone
  BY <1>0, <1>4, EndsMoves DEF TitlesDone
<1> QED
  BY <1>1, <1>2, <1>3, <1>4 DEF TitlesStep

LEMMA PackMoves == TaskShape /\ PackStep => Moves("pack")
<1>0. "pack" \in Tasks /\ "pack" \notin Locked
  BY DEF Tasks, Locked
<1>1. TaskShape /\ PackUnlink => Moves("pack")
  BY <1>0, DoesMoves DEF PackUnlink
<1>2. TaskShape /\ PackWrite => Moves("pack")
  BY <1>0, DoesMoves DEF PackWrite
<1>3. TaskShape /\ (PackWrites \/ PackDone) => Moves("pack")
  BY <1>0, GoesMoves, EndsMoves DEF PackWrites, PackDone
<1> QED
  BY <1>1, <1>2, <1>3 DEF PackStep

GeneratorStarts == Starts("generate", "rebuild", RowList) /\ UNCHANGED lock

LEMMA StartMoves ==
  ASSUME TaskShape, StartTask
  PROVE  GeneratorStarts \/ \E t \in Tasks \ {"generate"} : SetsOut(t) /\ OtherTasks(t)
<1>1. ASSUME NEW t \in Tasks, NEW pc, NEW todo, Starts(t, pc, todo), pc # "idle",
             IF t \in Locked THEN Acquire(t) ELSE lock' = lock
      PROVE  SetsOut(t) /\ OtherTasks(t)
  BY <1>1, GoesSets DEF Starts, SetsOut
<1>2. /\ {"repair", "migrate", "dedup", "cleanup", "titles", "pack"} \subseteq Tasks \ {"generate"}
      /\ {"cleanup", "titles", "pack"} \cap Locked = {}
  BY DEF Tasks, Locked
<1>3. CASE \/ Starts("cleanup", "messy", dirs) /\ UNCHANGED lock
           \/ \E raw \in SUBSET Media : Starts("titles", "titles", raw) /\ UNCHANGED lock
  BY <1>1, <1>2, <1>3
<1>4. CASE \/ Starts("repair", "folders", Films(dirs)) /\ Acquire("repair")
           \/ Starts("migrate", "groups", Groups(Films(dirs))) /\ Acquire("migrate")
           \/ Starts("dedup", "folders", Films(dirs)) /\ Acquire("dedup")
  BY <1>1, <1>2, <1>4 DEF Locked
<1>5. CASE /\ task["pack"].pc = "idle" /\ lock' = lock
           /\ \E S : task' = [task EXCEPT !["pack"] =
                               [Idle EXCEPT !.pc = "unlink", !.todo = S, !.arg = S]]
  <2> PICK S : task' = [task EXCEPT !["pack"] =
                          [Idle EXCEPT !.pc = "unlink", !.todo = S, !.arg = S]]
    BY <1>5
  <2>1. OtherTasks("pack") /\ task'["pack"].pc = "unlink"
    BY <1>2 DEF TaskShape, OtherTasks, Idle
  <2> QED
    BY <1>2, <1>5, <2>1 DEF SetsOut
<1> QED
  BY <1>3, <1>4, <1>5 DEF StartTask, GeneratorStarts

LEMMA GeneratorOrOther ==
  ASSUME TaskShape, Step
  PROVE  \/ GenerateStep("generate") \/ GeneratorStarts
         \/ \E t \in Tasks \ {"generate"} : Moves(t)
<1>1. CASE StartTask
  BY <1>1, StartMoves DEF Moves
<1>2. CASE \E t \in {"generate", "cleanup"} : GenerateStep(t)
  BY <1>2, GenerateMoves DEF Moves
<1>3. CASE CreateStep \/ RepairStep \/ MigrateStep \/ DedupStep \/ CleanupStep \/ PackStep
           \/ TitlesStep
  BY <1>3, CreateMoves, RepairMoves, MigrateMoves, DedupMoves, CleanupMoves, PackMoves,
     TitlesMoves DEF Moves
<1> QED
  BY <1>1, <1>2, <1>3 DEF Step

LEMMA GeneratorMoves == TaskShape /\ GeneratorStarts => Moves("generate")
BY GoesSets DEF GeneratorStarts, Starts, Moves, SetsOut, Locked, Tasks

LEMMA SomeTaskMoves == TaskShape /\ Step => \E t \in Tasks : Moves(t)
BY GeneratorOrOther, GenerateMoves, GeneratorMoves DEF Moves

LEMMA LockKeeps ==
  ASSUME LockInv, NEW t \in Tasks, Moves(t)
  PROVE  LockInv'
BY DEF LockInv, Moves, MovesOn, Stops, SetsOut, OtherTasks, Locked, Acquire, Release, Tasks
-----------------------------------------------------------------------------
(* The generator, while it runs alone.                                     *)
Ended == Busy \ Busy'
Begun == Busy' \ Busy

LEMMA PastSets ==
  ASSUME Recorded
  PROVE  /\ past'.met = IF Begun # {} /\ Busy # {} THEN past.met \cup Busy'
                        ELSE IF task' = task /\ library' # library THEN past.met \cup Busy
                        ELSE past.met \ Begun
         /\ past'.settled = (IF library' # library THEN {} ELSE past.settled)
                            \cup {t \in Ended \ past'.met : t = "migrate" => ~task[t].noted}
BY DEF Recorded, Begun, Ended

LEMMA RestoredGrows ==
  ASSUME items' = items, dirs \subseteq dirs', disk \subseteq disk', NEW k, Restored(k)
  PROVE  Restored(k)'
BY DEF Restored, At, Place, Duplicated, In, IsShow

LEMMA RebuiltGrows ==
  ASSUME NEW e, Rebuilt(e), items' = items
  PROVE  /\ dirs \subseteq dirs' /\ disk \subseteq disk'
         /\ \A k : e.place = Place(items[k]) => Restored(k)'
<1>1. CASE At(e.place) # {}
  <2>1. UNCHANGED <<dirs, disk>>
    BY <1>1 DEF Rebuilt
  <2>2. ASSUME NEW k, e.place = Place(items[k]) PROVE Restored(k)
    BY <1>1, <2>2 DEF Restored
  <2> QED
    BY <2>1, <2>2, RestoredGrows
<1>2. CASE At(e.place) = {} /\ Duplicated(e.place.folder)
  <2>1. dirs' = dirs \cup {e.place.folder} /\ disk' = disk
    BY <1>2 DEF Rebuilt
  <2>2. ASSUME NEW k, e.place = Place(items[k]) PROVE Restored(k)
    BY <1>2, <2>2 DEF Restored, Place
  <2> QED
    BY <2>1, <2>2, RestoredGrows
<1>3. CASE At(e.place) = {} /\ ~Duplicated(e.place.folder)
  <2> DEFINE f == [folder |-> e.place.folder, stem |-> e.place.stem, ep |-> e.place.ep,
                   url |-> e.row]
  <2>1. dirs' = dirs \cup {e.place.folder} /\ disk' = (disk \ At(e.place)) \cup {f}
    BY <1>3 DEF Rebuilt, Put
  <2>2. f.folder = e.place.folder /\ f.stem = e.place.stem /\ f.ep = e.place.ep
    OBVIOUS
  <2> HIDE DEF f
  <2>3. ASSUME NEW k, e.place = Place(items[k]) PROVE Restored(k)'
    <3>1. f \in disk' /\ f \in At(Place(items[k]))'
      BY <2>1, <2>2, <2>3 DEF At
    <3> QED
      BY <3>1 DEF Restored
  <2> QED
    BY <1>3, <2>1, <2>3
<1> QED
  BY <1>1, <1>2, <1>3

(* Another task's step, or the tasks rest: the generator runs on alone     *)
(* only while nothing but more files comes about.                          *)
LEMMA OthersKeep ==
  ASSUME GenerateInv, Recorded, task'["generate"] = task["generate"],
         Alone => \/ Busy' # {"generate"}
                  \/ items' = items /\ dirs \subseteq dirs' /\ disk \subseteq disk'
  PROVE  GenerateInv'
<1>0. "generate" \in Tasks
  BY DEF Tasks
<1>1. "generate" \in Busy <=> "generate" \in Busy'
  BY <1>0 DEF Busy
<1>2. ASSUME "generate" \in past'.settled PROVE \A k \in DOMAIN items' : Restored(k)'
  <2>1. UNCHANGED <<dirs, disk, items>> /\ "generate" \in past.settled
    BY <1>1, <1>2, PastSets DEF Ended, library
  <2> QED
    BY <2>1, RestoredGrows DEF GenerateInv
<1>3. ASSUME Alone'
      PROVE  /\ Busy' = {"generate"}
             /\ task'["generate"].pc = "rebuild" =>
                  \A k \in DOMAIN items' : Restored(k)' \/ OnList(k)'
             /\ task'["generate"].pc = "nfos" => \A k \in DOMAIN items' : Restored(k)'
  <2>1. "generate" \in Busy /\ "generate" \in Busy'
    BY <1>0, <1>1, <1>3 DEF Alone, Busy
  <2>2. Begun = {} /\ "generate" \notin past.met
    BY <1>3, <2>1, PastSets DEF Alone, Begun
  <2>3. Alone /\ Busy' = {"generate"}
    BY <1>3, <2>1, <2>2 DEF Alone, GenerateInv, Begun
  <2>4. items' = items /\ dirs \subseteq dirs' /\ disk \subseteq disk'
    BY <2>3
  <2>5. \A k : (Restored(k) => Restored(k)') /\ (OnList(k) => OnList(k)')
    BY <2>4, RestoredGrows DEF OnList, Place
  <2> QED
    BY <2>3, <2>4, <2>5 DEF GenerateInv
<1> QED
  BY <1>2, <1>3 DEF GenerateInv

LEMMA OtherMoves ==
  ASSUME GenerateInv, Recorded, NEW t \in Tasks \ {"generate"}, Moves(t)
  PROVE  GenerateInv'
<1>0. task'["generate"] = task["generate"] /\ "generate" \in Tasks
  BY DEF Moves, OtherTasks, Tasks
<1>1. ASSUME Alone, Busy' = {"generate"} PROVE UNCHANGED <<dirs, disk, items>>
  <2>1. task[t].pc = "idle" /\ task'[t].pc = "idle"
    BY <1>1 DEF GenerateInv, Busy
  <2> QED
    BY <2>1 DEF Moves, MovesOn, Stops, SetsOut, library
<1> QED
  BY <1>0, <1>1, OthersKeep

LEMMA GeneratorSets ==
  ASSUME GenerateInv, TaskShape, Recorded, GeneratorStarts
  PROVE  GenerateInv'
<1>0. "generate" \in Tasks
  BY DEF Tasks
<1>1. /\ OtherTasks("generate") /\ task["generate"].pc = "idle" /\ UNCHANGED library
      /\ task'["generate"].pc = "rebuild" /\ task'["generate"].todo = RowList
  BY <1>0, GoesSets DEF GeneratorStarts, Starts
<1>2. Busy' = Busy \cup {"generate"} /\ "generate" \notin Busy
  BY <1>0, <1>1 DEF Busy, OtherTasks
<1>3. UNCHANGED <<dirs, disk, items>>
  BY <1>1 DEF library
<1>4. ASSUME "generate" \in past'.settled PROVE \A k \in DOMAIN items' : Restored(k)'
  <2>1. "generate" \in past.settled
    BY <1>2, <1>4, PastSets DEF Ended
  <2> QED
    BY <1>3, <2>1, RestoredGrows DEF GenerateInv
<1>5. ASSUME Alone' PROVE Busy' = {"generate"}
  BY <1>2, <1>5, PastSets DEF Alone, Begun
<1>6. \A k \in DOMAIN items' : Restored(k)' \/ OnList(k)'
  <2> SUFFICES ASSUME NEW k \in DOMAIN items, items[k].folder \in Names PROVE OnList(k)'
    BY <1>3 DEF Restored
  <2> DEFINE e == [row |-> k, place |-> Place(items[k])]
  <2>1. e \in RowList
    BY DEF RowList
  <2>2. e.row = k /\ e.place = Place(items[k])
    OBVIOUS
  <2> HIDE DEF e
  <2> QED
    BY <1>1, <1>3, <2>1, <2>2 DEF OnList, Place
<1> QED
  BY <1>1, <1>4, <1>5, <1>6 DEF GenerateInv

LEMMA GeneratorWorks ==
  ASSUME GenerateInv, TaskShape, Recorded, GenerateStep("generate")
  PROVE  GenerateInv'
<1>0. "generate" \in Tasks
  BY DEF Tasks
<1>1. ASSUME OtherTasks("generate"), task["generate"].pc # "idle", task'["generate"].pc # "idle"
      PROVE  Busy' = Busy /\ Begun = {} /\ Ended = {}
  BY <1>0, <1>1 DEF Busy, OtherTasks, Begun, Ended
<1>2. ASSUME Begun = {}, Ended = {}, Busy' = Busy, task["generate"].pc # "idle"
      PROVE  /\ Alone' => Alone /\ Busy' = Busy
             /\ "generate" \in past'.settled => "generate" \in past.settled /\ UNCHANGED library
  BY <1>2, PastSets DEF Alone
<1>3. CASE Rebuild("generate")
  <2> PICK e \in task["generate"].todo :
        /\ task["generate"].pc = "rebuild" /\ Does("generate", e) /\ Rebuilt(e) /\ items' = items
    BY <1>3 DEF Rebuild
  <2>1. /\ OtherTasks("generate") /\ task'["generate"].pc = "rebuild"
        /\ task'["generate"].todo = task["generate"].todo \ {e}
    BY <1>0, DoesSets
  <2>2. /\ dirs \subseteq dirs' /\ disk \subseteq disk'
        /\ \A k : e.place = Place(items[k]) => Restored(k)'
    BY RebuiltGrows
  <2>3. \A k : Restored(k) \/ OnList(k) => Restored(k)' \/ OnList(k)'
    <3> SUFFICES ASSUME NEW k, Restored(k) \/ OnList(k) PROVE Restored(k)' \/ OnList(k)'
      OBVIOUS
    <3>1. CASE Restored(k)
      BY <2>2, <3>1, RestoredGrows
    <3>2. CASE OnList(k)
      <4> PICK d \in task["generate"].todo : d.row = k /\ d.place = Place(items[k])
        BY <3>2 DEF OnList
      <4>1. CASE d = e
        BY <2>2, <4>1
      <4>2. CASE d # e
        BY <2>1, <4>2 DEF OnList, Place
      <4> QED
        BY <4>1, <4>2
    <3> QED
      BY <3>1, <3>2
  <2>4. /\ Alone' => Alone /\ Busy' = Busy
        /\ "generate" \in past'.settled => "generate" \in past.settled /\ UNCHANGED library
    BY <1>1, <1>2, <2>1
  <2>5. "generate" \in past'.settled => \A k \in DOMAIN items' : Restored(k)'
    BY <2>2, <2>4, RestoredGrows DEF GenerateInv
  <2> QED
    BY <2>1, <2>3, <2>4, <2>5 DEF GenerateInv
<1>4. CASE RebuildDone("generate")
  <2>1. /\ task["generate"].pc = "rebuild" /\ task["generate"].todo = {}
        /\ Goes("generate", "nfos", dirs) /\ UNCHANGED library
    BY <1>4 DEF RebuildDone
  <2>2. OtherTasks("generate") /\ task'["generate"].pc = "nfos"
    BY <1>0, <2>1, GoesSets
  <2>3. /\ Alone' => Alone /\ Busy' = Busy
        /\ "generate" \in past'.settled => "generate" \in past.settled
    BY <1>1, <1>2, <2>1, <2>2
  <2>4. UNCHANGED <<dirs, disk, items>>
    BY <2>1 DEF library
  <2>5. Alone \/ "generate" \in past.settled => \A k \in DOMAIN items : Restored(k)
    BY <2>1 DEF GenerateInv, OnList
  <2>6. Alone' \/ "generate" \in past'.settled => \A k \in DOMAIN items' : Restored(k)'
    BY <2>3, <2>4, <2>5, RestoredGrows
  <2> QED
    BY <2>2, <2>3, <2>6 DEF GenerateInv
<1>5. CASE WriteNfo("generate")
  <2>1. /\ task["generate"].pc = "nfos" /\ UNCHANGED <<dirs, disk, items>>
        /\ \E n : Does("generate", n)
    BY <1>5 DEF WriteNfo
  <2>2. OtherTasks("generate") /\ task'["generate"].pc = "nfos"
    BY <1>0, <2>1, DoesSets
  <2>3. /\ Alone' => Alone /\ Busy' = Busy
        /\ "generate" \in past'.settled => "generate" \in past.settled
    BY <1>1, <1>2, <2>1, <2>2
  <2>4. Alone' \/ "generate" \in past'.settled => \A k \in DOMAIN items' : Restored(k)'
    BY <2>1, <2>3, RestoredGrows DEF GenerateInv
  <2> QED
    BY <2>2, <2>3, <2>4 DEF GenerateInv
<1>6. CASE NfosDone("generate")
  <2>1. task["generate"].pc = "nfos" /\ Ends("generate") /\ UNCHANGED library
    BY <1>6 DEF NfosDone
  <2>2. OtherTasks("generate") /\ task'["generate"].pc = "idle"
    BY <1>0, <2>1, EndsSets
  <2>3. Begun = {}
    BY <1>0, <2>2 DEF Busy, OtherTasks, Begun
  <2>4. "generate" \in past'.settled => "generate" \in past.settled \/ Alone
    BY <2>1, <2>3, PastSets DEF Alone
  <2>5. UNCHANGED <<dirs, disk, items>>
    BY <2>1 DEF library
  <2>6. "generate" \in past'.settled => \A k \in DOMAIN items' : Restored(k)'
    BY <2>1, <2>4, <2>5, RestoredGrows DEF GenerateInv
  <2> QED
    BY <2>2, <2>6 DEF GenerateInv, Alone
<1> QED
  BY <1>3, <1>4, <1>5, <1>6 DEF GenerateStep

(* The threads of the import only add to the library.                      *)
LEMMA SyncGrows ==
  ASSUME SyncStep
  PROVE  \/ UNCHANGED task /\ items' = items /\ dirs \subseteq dirs' /\ disk \subseteq disk'
         \/ Goes("cleanup", "messy", dirs) /\ task["cleanup"].pc = "idle"
<1>1. ASSUME OnlySync \/ UNCHANGED <<library, task>>
      PROVE  UNCHANGED task /\ items' = items /\ dirs \subseteq dirs' /\ disk \subseteq disk'
  BY <1>1 DEF OnlySync, library
<1>2. CASE \E m \in Media, title \in Names : SyncMovie(m, title)
  BY <1>1, <1>2 DEF SyncMovie
<1>3. ASSUME NEW s \in Syncs, FinishFolder(s)
      PROVE  UNCHANGED task /\ items' = items /\ dirs \subseteq dirs' /\ disk \subseteq disk'
  <2>1. /\ UNCHANGED <<items, task>>
        /\ UNCHANGED <<dirs, disk>> \/ \E x : Rebuilt(x)
    BY <1>3 DEF FinishFolder
  <2> QED
    BY <2>1, RebuiltGrows
<1>4. ASSUME NEW s \in Syncs,
             \/ StartImport(s) \/ StartResolve(s) \/ CleanedUp(s) \/ ImportFolder(s)
             \/ Imported(s) \/ ResolveRow(s) \/ ResolvedAll(s) \/ MonitorFolder(s)
             \/ Monitored(s) \/ Finished(s)
      PROVE  OnlySync \/ UNCHANGED <<library, task>>
  BY <1>4 DEF StartImport, StartResolve, CleanedUp, ImportFolder, Imported, ResolveRow,
     ResolvedAll, MonitorFolder, Monitored, Finished
<1>5. ASSUME NEW s \in Syncs, StartRecovery(s)
      PROVE  Goes("cleanup", "messy", dirs) /\ task["cleanup"].pc = "idle"
  BY <1>5 DEF StartRecovery
<1> QED
  BY <1>1, <1>2, <1>3, <1>4, <1>5 DEF SyncStep
-----------------------------------------------------------------------------
(* The inductive invariant: every part of it.                              *)
LSInv == LibInv /\ ImportInv /\ LockInv /\ GenerateInv

LEMMA InitLibrary == Init => LibraryInv /\ TasksInv /\ LockInv /\ GenerateInv
<1> SUFFICES ASSUME Init PROVE LibraryInv /\ TasksInv /\ LockInv /\ GenerateInv
  OBVIOUS
<1> PICK s \in Setups : /\ dirs = s.dirs /\ disk = s.disk /\ nfo = s.nfo /\ items = s.items
                        /\ task = [t \in Tasks |-> Idle] /\ lock = "none"
                        /\ past = [had |-> Playable, settled |-> {}, met |-> {}]
  BY DEF Init
<1>1. /\ LibraryType /\ PathsDiffer
      /\ \A f \in disk : f.folder \in dirs /\ FileRight(f)
      /\ \A x \in nfo : x.folder \in dirs /\ NfoRight(x)
      /\ \A k \in DOMAIN items : RowRight(k)
  <2>1. LibraryType
    BY SetupsConsistent DEF LibraryType
  <2>2. PathsDiffer
    BY SetupsConsistent DEF PathsDiffer, SamePath
  <2>3. \A f \in disk : f.folder \in dirs /\ FileRight(f)
    BY SetupsConsistent DEF FileRight
  <2>4. \A x \in nfo : x.folder \in dirs /\ NfoRight(x)
    BY SetupsConsistent DEF NfoRight
  <2>5. \A k \in DOMAIN items : RowRight(k)
    BY SetupsConsistent DEF RowRight
  <2> QED
    BY <2>1, <2>2, <2>3, <2>4, <2>5
<1>2. \A t \in Tasks : task[t] = [pc |-> "idle", todo |-> {}, arg |-> 0, noted |-> FALSE]
  BY DEF Idle
<1>3. \A t \in Tasks : task[t].pc = "idle" /\ task[t].todo = {}
  BY <1>2
<1>4. TaskShape
  BY <1>2 DEF TaskShape
<1>5. TasksInv
  BY <1>3, <1>4 DEF TasksInv, CreateInv, RebuildInv, RepairInv, MigrateInv, DedupInv, MergeInv,
     TitlesInv, PackInv, C, Tasks
<1>6. LockInv
  BY <1>3 DEF LockInv, Tasks
<1>7. GenerateInv
  BY <1>3 DEF GenerateInv, Alone, Tasks
<1> QED
  BY <1>1, <1>5, <1>6, <1>7 DEF LibraryInv

LEMMA InitHolds == LSInit => LSInv
<1> SUFFICES ASSUME LSInit PROVE LSInv
  OBVIOUS
<1>1. LibraryInv /\ TasksInv /\ LockInv /\ GenerateInv
  BY InitLibrary DEF LSInit
<1>2. \A s \in Syncs : sync[s] = [pc |-> "idle", kind |-> "import", todo |-> {}, seen |-> {}]
  BY DEF LSInit, Resting
<1>3. SyncShape /\ \A s \in Syncs : SyncRight(s)
  <2>1. SyncShape
    BY <1>2 DEF SyncShape, LSInit
  <2> QED
    BY <1>2, <2>1 DEF SyncRight
<1>4. RowsInv /\ ImportInv
  BY DEF LSInit, RowsInv, ImportInv, Placeholders
<1> QED
  BY <1>1, <1>3, <1>4 DEF LSInv, LibInv

(* A step of one of the tasks.                                             *)
LEMMA TaskStepKeeps ==
  ASSUME LSInv, Step, UNCHANGED syncVars, Recorded
  PROVE  LSInv'
<1>0. LibInv /\ ImportInv /\ LockInv /\ GenerateInv /\ TaskShape
  BY DEF LSInv, LibInv, TasksInv
<1>1. Kept
  BY <1>0, StepKeeps DEF LibInv
<1>2. UNCHANGED <<rows, watched, misses>> /\ UNCHANGED sync
  BY DEF syncVars
<1>3. RowsInv' /\ SyncShape' /\ \A s \in Syncs : SyncRight(s)'
  BY <1>0, <1>1, <1>2, NoSync, RowsUntouched DEF LibInv, Kept
<1>4. ImportInv'
  BY <1>0, <1>2 DEF ImportInv, Placeholders, Asked
<1>5. LockInv'
  BY <1>0, SomeTaskMoves, LockKeeps
<1>6. GenerateInv'
  BY <1>0, GeneratorOrOther, OtherMoves, GeneratorSets, GeneratorWorks
<1> QED
  BY <1>1, <1>3, <1>4, <1>5, <1>6 DEF LSInv, LibInv, Kept

(* A step of a thread of the import, or of the monitor.                    *)
LEMMA SyncStepKeeps ==
  ASSUME LSInv, SyncStep, Recorded
  PROVE  LSInv'
<1>0. LibInv /\ ImportInv /\ LockInv /\ GenerateInv /\ TaskShape
  BY DEF LSInv, LibInv, TasksInv
<1>1. LibInv' /\ ImportInv'
  BY <1>0, SyncKeeps DEF SyncKept, Kept, LibInv
<1>2. lock' = lock
  BY DEF SyncStep, StartImport, StartResolve, StartRecovery, CleanedUp, ImportFolder, Imported,
     ResolveRow, ResolvedAll, MonitorFolder, Monitored, FinishFolder, Finished, SyncMovie, OnlySync
<1>3. "generate" \in Tasks /\ "cleanup" \in Tasks \ {"generate"} /\ "cleanup" \notin Locked
  BY DEF Tasks, Locked
<1>4. CASE UNCHANGED task /\ items' = items /\ dirs \subseteq dirs' /\ disk \subseteq disk'
  <2>1. LockInv'
    BY <1>0, <1>2, <1>4 DEF LockInv
  <2>2. GenerateInv'
    BY <1>0, <1>4, OthersKeep
  <2> QED
    BY <1>1, <2>1, <2>2 DEF LSInv
<1>5. CASE Goes("cleanup", "messy", dirs) /\ task["cleanup"].pc = "idle"
  <2>1. Moves("cleanup")
    BY <1>0, <1>2, <1>3, <1>5, GoesSets DEF Moves, SetsOut
  <2>2. LockInv' /\ GenerateInv'
    BY <1>0, <1>3, <2>1, LockKeeps, OtherMoves
  <2> QED
    BY <1>1, <2>2 DEF LSInv
<1> QED
  BY <1>4, <1>5, SyncGrows

LEMMA NothingHappens ==
  ASSUME LSInv, UNCHANGED allVars
  PROVE  LSInv'
<1>0. /\ LibInv /\ ImportInv /\ LockInv /\ GenerateInv
      /\ UNCHANGED <<dirs, disk, nfo, items, task, lock, past, rows, watched, sync, misses>>
  BY DEF LSInv, allVars, vars, syncVars
<1>1. Kept
  BY <1>0, NothingOfTasks DEF LibInv, library
<1>2. RowsInv' /\ SyncShape' /\ \A s \in Syncs : SyncRight(s)'
  BY <1>0, <1>1, NoSync, RowsUntouched DEF LibInv, Kept
<1>3. ImportInv'
  BY <1>0 DEF ImportInv, Placeholders, Asked
<1>4. LockInv'
  BY <1>0 DEF LockInv
<1>5. Alone' = Alone /\ Busy' = Busy
  BY <1>0 DEF Alone, Busy
<1>6. \A k : (Restored(k) => Restored(k)') /\ (OnList(k) => OnList(k)')
  BY <1>0, RestoredGrows DEF OnList, Place
<1>7. GenerateInv'
  BY <1>0, <1>5, <1>6 DEF GenerateInv
<1> QED
  BY <1>1, <1>2, <1>3, <1>4, <1>7 DEF LSInv, LibInv, Kept

LEMMA LSInvHolds == LSSpec => []LSInv
<1>1. LSInv /\ [LSNext]_allVars => LSInv'
  BY TaskStepKeeps, SyncStepKeeps, NothingHappens DEF LSNext
<1> QED
  BY <1>1, InitHolds, PTL DEF LSSpec
-----------------------------------------------------------------------------
(* The folders, files, rows, lists and threads hold values of their types, *)
(* no two files share a path, no id has two rows, and the lock is held by  *)
(* the task that runs under it.                                            *)
THEOREM TypeCorrect == LSSpec => []LSTypeOK
<1>1. LSInv => LSTypeOK
  <2> SUFFICES ASSUME LSInv PROVE LSTypeOK
    OBVIOUS
  <2>1. LibraryInv /\ RowsInv /\ LockInv /\ \A s \in Syncs : SyncRight(s)
    BY DEF LSInv, LibInv
  <2>2. dirs \subseteq Names /\ \A x \in nfo : x.folder \in dirs /\ x.title \in Names
    BY <2>1 DEF LibraryInv, LibraryType, NfoFile
  <2>3. \A f \in disk : At(f) = {f}
    BY <2>1 DEF LibraryInv, PathsDiffer, SamePath, At
  <2>4. \A f \in disk : /\ f.folder \in dirs /\ f.stem \in Names
                        /\ f.url \in {Direct, Orphan} \cup DOMAIN items
    BY <2>1 DEF LibraryInv, LibraryType, StrmFile, FileRight
  <2>5. \A k \in DOMAIN items : items[k].folder \in Names \cup {Nowhere}
    BY <2>1, ItemsFacts DEF LibraryInv, LibraryType, ItemRow
  <2>6. TypeOK
    BY <2>1, <2>2, <2>3, <2>4, <2>5 DEF TypeOK, LockInv
  <2> QED
    BY <2>1, <2>6 DEF LSTypeOK, RowsInv, RowType, SyncRight
<1> QED
  BY <1>1, LSInvHolds, PTL

(* A file that leads to a row plays the title of its folder and the        *)
(* episode of its name: creation, repair, renames, merges, the upgrade of  *)
(* a season to a pack and the import relink, rename and delete files       *)
(* behind each other's backs, each from a list it read before, and none    *)
(* ever makes a file play another title (strm_generator.py, cleanup.py).   *)
THEOREM FilesPlay == LSSpec => []FilesPlayTheirTitle
<1>1. LSInv => FilesPlayTheirTitle
  BY DEF LSInv, LibInv, LibraryInv, FileRight, FilesPlayTheirTitle
<1> QED
  BY <1>1, LSInvHolds, PTL

(* Once the threads of the import rest, no placeholder is left if TMDB     *)
(* always answered, however many of them ran at once (library_sync.py).    *)
THEOREM ImportsResolve == LSSpec => []ImportsAreResolved
<1>1. LSInv => ImportsAreResolved
  BY DEF LSInv, ImportInv, Asked, ImportsAreResolved
<1> QED
  BY <1>1, LSInvHolds, PTL

(* After a run of the generator that met no other task, every row that     *)
(* names a file has it until the library changes again, or its film has    *)
(* one under another spelling (strm_generator.py), whatever the threads    *)
(* of the import did meanwhile.                                            *)
THEOREM GeneratorRestoresFiles == LSSpec => []GeneratorRestores
<1>1. LSInv => GeneratorRestores
  BY DEF LSInv, GenerateInv, Restored, GeneratorRestores
<1> QED
  BY <1>1, LSInvHolds, PTL
-----------------------------------------------------------------------------
(***************************************************************************)
(* Migration, deduplication and the generator change nothing when they are *)
(* run again.                                                              *)
(***************************************************************************)
Checked == {"migrate", "dedup", "generate"}

(* What a task leaves when it has run alone (Fine), and what it has done   *)
(* so far while it does (Part).                                            *)
Well(k) == items[k].folder \in Names =>
             \/ At(Place(items[k])) # {}
             \/ Duplicated(items[k].folder) /\ items[k].folder \in dirs
GenerateFine == /\ \A k \in DOMAIN items : Well(k)
                /\ task["generate"].pc = "rebuild" => task["generate"].todo \subseteq RowList
GeneratePart == /\ task["generate"].pc = "rebuild" => \A k \in DOMAIN items : Well(k) \/ OnList(k)
                /\ task["generate"].pc = "nfos" => \A k \in DOMAIN items : Well(k)

(* A film's group has the name and no other folder than the one kept; the  *)
(* one in hand has the name already, and the best of the others goes last. *)
Titled(m) == {n \in Films(dirs) : Of[n] = m /\ Nfos(n) # {}}
GroupFine(m) == \A best \in Best(Titled(m)) :
                  /\ Canonical[m] \in dirs
                  /\ Canonical[m] \in Titled(m) => Titled(m) \subseteq {best, Canonical[m]}
ToDo(m) == \E g \in task["migrate"].todo : g.media = m
GroupsFresh == \A g \in task["migrate"].todo :
                 /\ g.media \notin Shows /\ g.folders = Titled(g.media)
                 /\ \A h \in task["migrate"].todo : g.media = h.media => g = h
InHand(m, a) == /\ a.new = Canonical[m] /\ a.new \in Titled(m) /\ ~ToDo(m)
                /\ a.rest \subseteq Titled(m) /\ a.new \notin a.rest /\ a.old \notin a.rest
                /\ Titled(m) \subseteq {a.new, a.old} \cup a.rest
                /\ \A k \in Media \ {m} : GroupFine(k) \/ ToDo(k)
MigrateFine == /\ \A m \in Media : GroupFine(m)
               /\ GroupsFresh
               /\ \/ task["migrate"].pc \in {"idle", "groups"}
                  \/ task["migrate"].pc = "rest" /\ task["migrate"].arg.rest = {}
Renaming == {"rows", "file", "stem", "nfo"}
MigratePart ==
  LET a == task["migrate"].arg IN
  \/ task["migrate"].noted
  \/ /\ GroupsFresh
     /\ task["migrate"].pc = "groups" => \A m \in Media : GroupFine(m) \/ ToDo(m)
     /\ task["migrate"].pc \in Renaming => InHand(Of[a.new], a) /\ a.old \notin dirs
     /\ task["migrate"].pc = "rest" =>
          /\ InHand(Of[a.new], a)
          /\ a.old \in Titled(Of[a.new]) /\ a.old # a.new => Ahead(a.old, a.new)

Single(n) == \A f, g \in In(n) : f = g
FilmsListed == \A n \in task["dedup"].todo : ~IsShow(n)
DedupFine == FilmsListed /\ \A n \in Films(dirs) : Single(n)
DedupPart == FilmsListed /\ \A n \in Films(dirs) : n \in task["dedup"].todo \/ Single(n)

Fine(t) == /\ t = "generate" => GenerateFine
           /\ t = "migrate" => MigrateFine
           /\ t = "dedup" => DedupFine
Part(t) == /\ t = "generate" => GeneratePart
           /\ t = "migrate" => MigratePart
           /\ t = "dedup" => DedupPart
Sole(t) == task[t].pc # "idle" /\ t \notin past.met
SoleInv(t) == /\ t \in past.settled => Fine(t)
              /\ Sole(t) => Busy = {t} /\ Part(t)
IdempotentInv == LSInv /\ \A t \in Checked : SoleInv(t)

LEMMA GroupsStay ==
  ASSUME UNCHANGED <<dirs, disk, nfo>>
  PROVE  /\ \A m : Titled(m)' = Titled(m) /\ (GroupFine(m)' <=> GroupFine(m))
         /\ \A n, o : Ahead(n, o)' <=> Ahead(n, o)
<1>1. \A n, o : Ahead(n, o)' <=> Ahead(n, o)
  BY DEF Ahead, Entries, In, Nfos
<1>2. \A m : Titled(m)' = Titled(m) /\ \A S : Best(S)' = Best(S)
  BY <1>1 DEF Titled, Films, Nfos, Best, IsShow
<1> QED
  BY <1>1, <1>2 DEF GroupFine

LEMMA SameLibrary ==
  ASSUME UNCHANGED <<dirs, disk, nfo, items>>, NEW t \in Checked, task'[t] = task[t]
  PROVE  (Fine(t) => Fine(t)') /\ (Part(t) => Part(t)')
<1>1. CASE t = "generate"
  BY <1>1 DEF Fine, Part, GenerateFine, GeneratePart, Well, OnList, RowList, At, Place,
     Duplicated, In, IsShow
<1>2. CASE t = "migrate"
  <2>1. /\ GroupsFresh' <=> GroupsFresh
        /\ \A m : ToDo(m)' <=> ToDo(m)
    BY <1>2, GroupsStay DEF GroupsFresh, ToDo
  <2>2. \A m, a : InHand(m, a)' <=> InHand(m, a)
    BY <2>1, GroupsStay DEF InHand
  <2>3. MigrateFine => MigrateFine'
    BY <1>2, <2>1, GroupsStay DEF MigrateFine
  <2>4. MigratePart => MigratePart'
    BY <1>2, <2>1, <2>2, GroupsStay DEF MigratePart
  <2> QED
    BY <1>2, <2>3, <2>4 DEF Fine, Part
<1>3. CASE t = "dedup"
  BY <1>3 DEF Fine, Part, DedupFine, DedupPart, FilmsListed, Single, In, Films, IsShow
<1> QED
  BY <1>1, <1>2, <1>3 DEF Checked

(* Another task's step leaves a task that is alone where it is.            *)
LEMMA SoleOthers ==
  ASSUME NEW t \in Checked, SoleInv(t), Recorded, NEW u \in Tasks \ {t}, Moves(u)
  PROVE  SoleInv(t)'
<1>0. task'[t] = task[t] /\ t \in Tasks
  BY DEF Moves, OtherTasks, Checked, Tasks
<1>1. t \in Busy <=> t \in Busy'
  BY <1>0 DEF Busy
<1>2. ASSUME t \in past'.settled PROVE Fine(t)'
  <2>1. t \in past.settled /\ library' = library
    BY <1>1, <1>2, PastSets DEF Ended
  <2> QED
    BY <1>0, <2>1, SameLibrary DEF library, SoleInv
<1>3. ASSUME Sole(t)' PROVE Busy' = {t} /\ Part(t)'
  <2>1. t \in Busy /\ t \in Busy'
    BY <1>0, <1>3 DEF Sole, Busy
  <2>2. Begun = {} /\ t \notin past.met
    BY <1>3, <2>1, PastSets DEF Sole, Begun
  <2>3. Sole(t)
    BY <1>0, <1>3, <2>2 DEF Sole
  <2>4. task[u].pc = "idle" /\ task'[u].pc = "idle"
    BY <2>2, <2>3 DEF SoleInv, Busy, Begun
  <2>5. UNCHANGED <<dirs, disk, nfo, items, task>>
    BY <2>4 DEF Moves, MovesOn, Stops, SetsOut, library
  <2> QED
    BY <2>3, <2>5, SameLibrary DEF SoleInv, Busy
<1> QED
  BY <1>2, <1>3 DEF SoleInv

(* A task starts, and has its list to work through.                        *)
LEMMA SoleStarts ==
  ASSUME NEW t \in Checked, SoleInv(t), Recorded, OtherTasks(t), UNCHANGED library,
         task[t].pc = "idle", task'[t].pc # "idle", Part(t)', Fine(t) => Fine(t)'
  PROVE  SoleInv(t)'
<1>0. t \in Tasks
  BY DEF Checked, Tasks
<1>1. Busy' = Busy \cup {t} /\ t \notin Busy
  BY <1>0 DEF Busy, OtherTasks
<1>2. ASSUME t \in past'.settled PROVE Fine(t)'
  BY <1>1, <1>2, PastSets DEF Ended, SoleInv
<1>3. ASSUME Sole(t)' PROVE Busy' = {t}
  BY <1>1, <1>3, PastSets DEF Sole, Begun
<1> QED
  BY <1>2, <1>3 DEF SoleInv

(* A task goes on or ends.                                                 *)
Progress(t) == /\ Fine(t) => UNCHANGED <<dirs, disk, items>>
               /\ Fine(t) /\ library' = library => Fine(t)'
               /\ Part(t) => IF task'[t].pc = "idle"
                             THEN (t = "migrate" /\ task[t].noted) \/ Fine(t)' ELSE Part(t)'

LEMMA SoleWorks ==
  ASSUME NEW t \in Checked, SoleInv(t), Recorded, OtherTasks(t), task[t].pc # "idle", Progress(t)
  PROVE  SoleInv(t)'
<1>0. t \in Tasks
  BY DEF Checked, Tasks
<1>1. /\ Busy' = IF task'[t].pc = "idle" THEN Busy \ {t} ELSE Busy
      /\ Begun = {}
      /\ Ended = IF task'[t].pc = "idle" THEN {t} ELSE {}
  BY <1>0 DEF Busy, OtherTasks, Begun, Ended
<1>2. past.met \subseteq past'.met
  BY <1>1, PastSets
<1>3. ASSUME t \in past'.settled PROVE Fine(t)'
  <2>1. \/ t \in past.settled /\ library' = library
        \/ /\ task'[t].pc = "idle" /\ t \notin past.met
           /\ t = "migrate" => ~task[t].noted
    BY <1>0, <1>1, <1>2, <1>3, PastSets
  <2> QED
    BY <2>1 DEF SoleInv, Sole, Progress
<1>4. ASSUME Sole(t)' PROVE Busy' = {t} /\ Part(t)'
  BY <1>1, <1>2, <1>4 DEF Sole, SoleInv, Progress
<1> QED
  BY <1>3, <1>4 DEF SoleInv

LEMMA WellGrows ==
  ASSUME items' = items, dirs \subseteq dirs', disk \subseteq disk', NEW k, Well(k)
  PROVE  Well(k)'
BY DEF Well, At, Place, Duplicated, In, IsShow

LEMMA RebuiltWell ==
  ASSUME NEW e, Rebuilt(e), items' = items, NEW k, e.place = Place(items[k])
  PROVE  Well(k)'
<1>1. Restored(k)' /\ disk \subseteq disk'
  BY RebuiltGrows
<1>2. CASE At(e.place) # {}
  BY <1>1, <1>2 DEF Well, At, Place
<1>3. CASE At(e.place) = {}
  <2>1. items[k].folder \in dirs'
    BY <1>3 DEF Rebuilt, Place
  <2> QED
    BY <1>1, <2>1 DEF Well, Restored
<1> QED
  BY <1>2, <1>3

LEMMA GenerateProgress ==
  ASSUME LSInv, GenerateStep("generate")
  PROVE  Progress("generate")
<1>0. /\ TaskShape /\ "generate" \in Tasks
      /\ task["generate"].pc \in {"idle", "rebuild", "nfos"}
  BY DEF LSInv, LibInv, TasksInv, GenerateInv, Tasks
<1>1. /\ Fine("generate") <=> GenerateFine
      /\ Part("generate") <=> GeneratePart
      /\ Fine("generate")' <=> GenerateFine'
      /\ Part("generate")' <=> GeneratePart'
  BY DEF Fine, Part
<1>2. CASE Rebuild("generate")
  <2> PICK e \in task["generate"].todo :
        /\ task["generate"].pc = "rebuild" /\ Does("generate", e) /\ Rebuilt(e)
        /\ UNCHANGED <<nfo, items>>
    BY <1>2 DEF Rebuild
  <2>1. /\ task'["generate"].pc = "rebuild"
        /\ task'["generate"].todo = task["generate"].todo \ {e}
    BY <1>0, DoesSets
  <2>2. dirs \subseteq dirs' /\ disk \subseteq disk'
    BY RebuiltGrows
  <2>3. ASSUME GenerateFine PROVE UNCHANGED <<dirs, disk, items>>
    <3>1. PICK k \in DOMAIN items : e.place = Place(items[k]) /\ items[k].folder \in Names
      BY <2>3 DEF GenerateFine, RowList
    <3>2. e.place.folder = items[k].folder /\ Well(k)
      BY <2>3, <3>1 DEF Place, GenerateFine
    <3> QED
      BY <3>1, <3>2 DEF Rebuilt, Well
  <2>4. ASSUME GenerateFine PROVE GenerateFine'
    <3>1. UNCHANGED <<dirs, disk, items>>
      BY <2>3, <2>4
    <3>2. \A k : Well(k) => Well(k)'
      BY <3>1, WellGrows
    <3> QED
      BY <2>1, <2>4, <3>1, <3>2 DEF GenerateFine, RowList, Place
  <2>5. ASSUME GeneratePart PROVE GeneratePart'
    <3>1. ASSUME NEW k, Well(k) \/ OnList(k) PROVE Well(k)' \/ OnList(k)'
      <4>1. CASE Well(k)
        BY <2>2, <4>1, WellGrows
      <4>2. CASE OnList(k)
        <5> PICK d \in task["generate"].todo : d.row = k /\ d.place = Place(items[k])
          BY <4>2 DEF OnList
        <5>1. CASE d = e
          BY <5>1, RebuiltWell
        <5>2. CASE d # e
          BY <2>1, <5>2 DEF OnList, Place
        <5> QED
          BY <5>1, <5>2
      <4> QED
        BY <3>1, <4>1, <4>2
    <3> QED
      BY <2>1, <2>5, <3>1 DEF GeneratePart
  <2> QED
    BY <1>1, <2>1, <2>3, <2>4, <2>5 DEF Progress
<1>3. CASE RebuildDone("generate")
  <2>1. /\ task["generate"].pc = "rebuild" /\ task["generate"].todo = {}
        /\ Goes("generate", "nfos", dirs) /\ UNCHANGED <<dirs, disk, items>>
    BY <1>3 DEF RebuildDone, library
  <2>2. task'["generate"].pc = "nfos"
    BY <1>0, <2>1, GoesSets
  <2>3. \A k : Well(k) => Well(k)'
    BY <2>1, WellGrows
  <2>4. GenerateFine => GenerateFine'
    BY <2>1, <2>2, <2>3 DEF GenerateFine
  <2>5. GeneratePart => GeneratePart'
    BY <2>1, <2>2, <2>3 DEF GeneratePart, OnList
  <2> QED
    BY <1>1, <2>1, <2>2, <2>4, <2>5 DEF Progress
<1>4. CASE WriteNfo("generate") \/ NfosDone("generate")
  <2>1. /\ task["generate"].pc = "nfos" /\ UNCHANGED <<dirs, disk, items>>
        /\ (\E n : Does("generate", n)) \/ Ends("generate")
    BY <1>4 DEF WriteNfo, NfosDone, library
  <2>2. task'["generate"].pc \in {"nfos", "idle"}
    BY <1>0, <2>1, DoesSets, EndsSets
  <2>3. \A k : Well(k) => Well(k)'
    BY <2>1, WellGrows
  <2>4. GenerateFine \/ GeneratePart => GenerateFine' /\ GeneratePart'
    BY <2>1, <2>2, <2>3 DEF GenerateFine, GeneratePart
  <2> QED
    BY <1>1, <2>1, <2>4 DEF Progress
<1> QED
  BY <1>2, <1>3, <1>4 DEF GenerateStep

(* Deduplication leaves one file of a film's.                              *)
LEMMA FewInFolder ==
  ASSUME LibraryInv, IsFiniteSet(Names), NEW n \in Names, ~IsShow(n)
  PROVE  IsFiniteSet(In(n)) /\ IsFiniteSet(Nfos(n))
<1>1. IsFiniteSet(In(n))
  <2> DEFINE stem == [f \in In(n) |-> f.stem]
  <2>1. \A f \in In(n) : f \in StrmFile /\ f.folder = n /\ f.ep = 0
    BY DEF LibraryInv, LibraryType, In, FileRight, IsShow
  <2>2. stem \in [In(n) -> Names]
    BY <2>1 DEF StrmFile
  <2>3. \A f, g \in In(n) : stem[f] = stem[g] => f = g
    BY <2>1 DEF LibraryInv, PathsDiffer, SamePath, In
  <2>4. stem \in Injection(In(n), Names)
    BY <2>2, <2>3 DEF Injection, IsInjective
  <2> QED
    BY <2>4, FS_Injection
<1>2. IsFiniteSet(Nfos(n))
  <2> DEFINE kind == [x \in Nfos(n) |-> <<x.stem, x.title>>]
  <2>1. \A x \in Nfos(n) : x \in NfoFile /\ x.folder = n
    BY DEF LibraryInv, LibraryType, Nfos
  <2>2. kind \in [Nfos(n) -> Names \X Names]
    BY <2>1 DEF NfoFile
  <2>3. \A x, y \in Nfos(n) : kind[x] = kind[y] => x = y
    BY <2>1 DEF NfoFile
  <2>4. kind \in Injection(Nfos(n), Names \X Names)
    BY <2>2, <2>3 DEF Injection, IsInjective
  <2>5. IsFiniteSet(Names \X Names)
    BY FS_Product
  <2> QED
    BY <2>4, <2>5, FS_Injection
<1> QED
  BY <1>1, <1>2

LEMMA SingleCounts ==
  ASSUME LibraryInv, IsFiniteSet(Names), NEW n \in Names, ~IsShow(n)
  PROVE  Single(n) <=> ~(Cardinality(In(n)) > 1)
<1>1. IsFiniteSet(In(n)) /\ Cardinality(In(n)) \in Nat
  BY FewInFolder, FS_CardinalityType
<1>2. ASSUME Single(n) PROVE Cardinality(In(n)) <= 1
  <2>1. CASE In(n) = {}
    BY <2>1, FS_EmptySet
  <2>2. CASE In(n) # {}
    <3>1. PICK f \in In(n) : In(n) = {f}
      BY <1>2, <2>2 DEF Single
    <3>2. Cardinality({f}) = 1
      BY FS_Singleton
    <3> QED
      BY <3>1, <3>2
  <2> QED
    BY <2>1, <2>2
<1>3. ASSUME ~Single(n) PROVE Cardinality(In(n)) > 1
  <2> PICK f \in In(n), g \in In(n) : f # g
    BY <1>3 DEF Single
  <2>1. IsFiniteSet({f}) /\ Cardinality({f}) = 1 /\ g \notin {f}
    BY FS_Singleton
  <2>2. Cardinality({f} \cup {g}) = 2
    BY <2>1, FS_AddElement
  <2>3. Cardinality({f} \cup {g}) <= Cardinality(In(n))
    BY <1>1, FS_Subset
  <2> QED
    BY <1>1, <2>2, <2>3
<1> QED
  BY <1>1, <1>2, <1>3

LEMMA DedupProgress ==
  ASSUME LSInv, IsFiniteSet(Names), DedupStep
  PROVE  Progress("dedup")
<1>0. LibraryInv /\ TaskShape /\ DedupInv /\ "dedup" \in Tasks
  BY DEF LSInv, LibInv, TasksInv, Tasks
<1>1. /\ Fine("dedup") <=> DedupFine
      /\ Part("dedup") <=> DedupPart
      /\ Fine("dedup")' <=> DedupFine'
      /\ Part("dedup")' <=> DedupPart'
  BY DEF Fine, Part
<1>2. CASE DedupStrms
  <2> PICK n \in task["dedup"].todo, keep \in disk :
        /\ task["dedup"].pc = "folders" /\ Does("dedup", n) /\ Cardinality(In(n)) > 1
        /\ keep \in In(n) /\ dirs' = dirs
        /\ disk' = (disk \ In(n)) \cup {[keep EXCEPT !.stem = n]}
    BY <1>2 DEF DedupStrms
  <2> DEFINE file == [keep EXCEPT !.stem = n]
  <2>1. n \in Names /\ file.folder = n
    BY <1>0, FileRestemmed DEF DedupInv, LibraryInv, LibraryType, In
  <2>2. disk' = (disk \ In(n)) \cup {file}
    OBVIOUS
  <2> HIDE DEF file
  <2>3. task'["dedup"].pc = "folders" /\ task'["dedup"].todo = task["dedup"].todo \ {n}
    BY <1>0, DoesSets
  <2>4. \A m : Single(m) \/ m = n => Single(m)'
    BY <2>1, <2>2 DEF Single, In
  <2>5. ~DedupFine
    <3> SUFFICES ASSUME DedupFine PROVE FALSE
      OBVIOUS
    <3>1. ~Single(n) /\ ~IsShow(n)
      BY <1>0, <2>1, SingleCounts DEF DedupFine, FilmsListed
    <3>2. n \in dirs
      BY <1>0 DEF LibraryInv, In
    <3> QED
      BY <3>1, <3>2 DEF DedupFine, Films
  <2>6. DedupPart => DedupPart'
    BY <2>3, <2>4 DEF DedupPart, FilmsListed, IsShow, Films
  <2> QED
    BY <1>1, <2>3, <2>5, <2>6 DEF Progress
<1>3. CASE DedupSkip
  <2> PICK n \in task["dedup"].todo :
        /\ task["dedup"].pc = "folders" /\ Does("dedup", n) /\ Cardinality(In(n)) <= 1
        /\ UNCHANGED <<dirs, disk, items>>
    BY <1>3 DEF DedupSkip, library
  <2>1. task'["dedup"].pc = "folders" /\ task'["dedup"].todo = task["dedup"].todo \ {n}
    BY <1>0, DoesSets
  <2>2. \A m : Single(m)' <=> Single(m)
    BY DEF Single, In
  <2>3. DedupPart => Single(n)
    <3> SUFFICES ASSUME DedupPart PROVE Single(n)
      OBVIOUS
    <3>1. n \in Names /\ ~IsShow(n)
      BY <1>0 DEF DedupInv, DedupPart, FilmsListed
    <3>2. IsFiniteSet(In(n)) /\ Cardinality(In(n)) \in Nat
      BY <1>0, <3>1, FewInFolder, FS_CardinalityType
    <3> QED
      BY <1>0, <3>1, <3>2, SingleCounts
  <2>4. DedupPart => DedupPart'
    BY <2>1, <2>2, <2>3 DEF DedupPart, FilmsListed, IsShow, Films
  <2>5. DedupFine => DedupFine'
    BY <2>1, <2>2 DEF DedupFine, FilmsListed, IsShow, Films
  <2> QED
    BY <1>1, <2>1, <2>4, <2>5 DEF Progress
<1>4. CASE DedupDone
  <2>1. /\ task["dedup"].pc = "folders" /\ task["dedup"].todo = {} /\ Ends("dedup")
        /\ UNCHANGED <<dirs, disk, items>>
    BY <1>4 DEF DedupDone, library
  <2>2. task'["dedup"].pc = "idle" /\ task'["dedup"].todo = {}
    BY <1>0, <2>1, EndsSets
  <2>3. \A m : Single(m)' <=> Single(m)
    BY <2>1 DEF Single, In
  <2>4. DedupFine \/ DedupPart => DedupFine'
    BY <2>1, <2>2, <2>3 DEF DedupFine, DedupPart, FilmsListed, IsShow, Films
  <2> QED
    BY <1>1, <2>1, <2>2, <2>4 DEF Progress
<1> QED
  BY <1>2, <1>3, <1>4 DEF DedupStep

(* The migration: of two folders one is ahead.                             *)
LEMMA OneIsAhead ==
  ASSUME LibraryInv, IsFiniteSet(Names), NEW m \in Names, NEW n \in Names,
         ~IsShow(m), ~IsShow(n), Ahead(m, n)
  PROVE  ~Ahead(n, m)
<1>1. ASSUME NEW k \in Names, ~IsShow(k)
      PROVE  Entries(k) \in Nat /\ Listing[k] \in Nat
  <2>1. Cardinality(In(k)) \in Nat /\ Cardinality(Nfos(k)) \in Nat
    BY <1>1, FewInFolder, FS_CardinalityType
  <2>2. Extras[k] \in Nat /\ Listing[k] \in Nat
    BY LibraryConstants
  <2> QED
    BY <2>1, <2>2 DEF Entries
<1> QED
  BY <1>1 DEF Ahead

(* What happens to the folders of one film does not concern another.       *)
LEMMA OtherFilms ==
  ASSUME dirs \subseteq Names, dirs' \subseteq Names, NEW m,
         \A n \in Names : Of[n] # m =>
            (n \in dirs' <=> n \in dirs) /\ In(n)' = In(n) /\ Nfos(n)' = Nfos(n),
         NEW k, k # m
  PROVE  Titled(k)' = Titled(k) /\ (k \in Media /\ GroupFine(k) => GroupFine(k)')
<1>1. Titled(k)' = Titled(k) /\ Titled(k) \subseteq Names /\ \A n \in Titled(k) : Of[n] = k
  BY DEF Titled, Films, IsShow
<1>2. \A n, o \in Titled(k) : Ahead(n, o)' <=> Ahead(n, o)
  <2>1. \A n \in Titled(k) : In(n)' = In(n) /\ Entries(n)' = Entries(n)
    BY <1>1 DEF Entries
  <2> QED
    BY <2>1 DEF Ahead
<1>3. \A b : b \in Best(Titled(k))' <=> b \in Best(Titled(k))
  BY <1>1, <1>2 DEF Best
<1>4. k \in Media /\ Canonical[k] \in dirs => Canonical[k] \in dirs'
  <2>1. k \in Media => Canonical[k] \in Names /\ Of[Canonical[k]] = k
    BY LibraryConstants, CanonicalNames
  <2> QED
    BY <2>1
<1> QED
  BY <1>1, <1>3, <1>4 DEF GroupFine

LEMMA MovedElsewhere ==
  ASSUME NEW D, D \subseteq StrmFile \/ D \subseteq NfoFile,
         NEW old \in Names, NEW new \in Names, NEW n
  PROVE  /\ n \notin {old, new} =>
              \A f : f \in Moved(D, old, new) /\ f.folder = n <=> f \in D /\ f.folder = n
         /\ (\E f \in D : f.folder = old) => \E f \in Moved(D, old, new) : f.folder = new
<1> DEFINE mv(f) == IF f.folder = old THEN [f EXCEPT !.folder = new] ELSE f
<1>1. Moved(D, old, new) = {mv(f) : f \in D}
  BY DEF Moved
<1>2. \A f \in D : mv(f).folder = new \/ mv(f) = f
  BY FileMoved, NfoMoved
<1>3. \A f \in D : f.folder = old => mv(f).folder = new
  BY FileMoved, NfoMoved
<1>4. \A f \in D : f.folder # old => mv(f) = f
  OBVIOUS
<1> HIDE DEF mv
<1>5. ASSUME n \notin {old, new}, NEW f
      PROVE  f \in Moved(D, old, new) /\ f.folder = n <=> f \in D /\ f.folder = n
  BY <1>1, <1>3, <1>4, <1>5
<1> QED
  BY <1>1, <1>3, <1>5

LEMMA RestemmedElsewhere ==
  ASSUME NEW D, D \subseteq StrmFile \/ D \subseteq NfoFile,
         NEW m, NEW old, NEW new \in Names, NEW n
  PROVE  /\ n # m =>
              \A f : f \in Restemmed(D, m, old, new) /\ f.folder = n
                      <=> f \in D /\ f.folder = n
         /\ (\E f \in D : f.folder = m) => \E f \in Restemmed(D, m, old, new) : f.folder = m
<1> DEFINE mv(f) == IF f.folder = m /\ f.stem = old THEN [f EXCEPT !.stem = new] ELSE f
<1>1. Restemmed(D, m, old, new) \in {D, {mv(f) : f \in D}}
  BY DEF Restemmed
<1>2. \A f \in D : mv(f).folder = f.folder
  BY FileRestemmed, NfoRestemmed
<1>3. \A f \in D : f.folder # m => mv(f) = f
  OBVIOUS
<1> HIDE DEF mv
<1> QED
  BY <1>1, <1>2, <1>3

(* A group is taken up: it is left, renamed or has the name already.       *)
LEMMA GroupProgress ==
  ASSUME LSInv, IsFiniteSet(Names), Migrate
  PROVE  Progress("migrate")
<1>0. /\ LibraryInv /\ TaskShape /\ MigrateInv /\ "migrate" \in Tasks
      /\ dirs \subseteq Names /\ disk \subseteq StrmFile /\ nfo \subseteq NfoFile
  BY DEF LSInv, LibInv, TasksInv, Tasks, LibraryInv, LibraryType
<1> PICK g \in task["migrate"].todo, best \in Names :
      LET name == Canonical[g.media]
          a    == [old |-> best, new |-> name, rest |-> g.folders \ {best, name}]
      IN  /\ task["migrate"].pc = "groups" /\ best \in Best(g.folders) /\ items' = items
          /\ \/ Notes("migrate", g) /\ UNCHANGED <<dirs, disk, nfo>>
             \/ /\ ~(g.folders \subseteq dirs) \/ name \in dirs \ g.folders
                /\ Does("migrate", g) /\ UNCHANGED <<dirs, disk, nfo>>
             \/ /\ g.folders \subseteq dirs /\ name \notin dirs
                /\ RenameDir(best, name) /\ Takes("migrate", "rows", g, a)
             \/ /\ g.folders \subseteq dirs /\ name \in g.folders
                /\ Takes("migrate", "rest", g, a) /\ UNCHANGED <<dirs, disk, nfo>>
  <2>1. \A h \in task["migrate"].todo : Best(h.folders) \subseteq Names
    BY <1>0 DEF MigrateInv, GroupRight, Best
  <2> QED
    BY <2>1 DEF Migrate
<1> DEFINE m    == g.media
           name == Canonical[m]
           a    == [old |-> best, new |-> name, rest |-> g.folders \ {best, name}]
<1>1. /\ Fine("migrate") <=> MigrateFine
      /\ Part("migrate") <=> MigratePart
      /\ Fine("migrate")' <=> MigrateFine'
      /\ Part("migrate")' <=> MigratePart'
  BY DEF Fine, Part
<1>2. /\ best \in g.folders /\ Of[best] = m /\ m \in Media /\ name \in Names /\ Of[name] = m
      /\ \A n \in g.folders : n \in Names /\ Of[n] = m
  BY <1>0, BestOfGroup, LibraryConstants, CanonicalNames DEF MigrateInv, GroupRight
<1>3. /\ a.old = best /\ a.new = name /\ a.rest = g.folders \ {best, name}
      /\ name = Canonical[m]
  OBVIOUS
<1> HIDE DEF a, name
<1>4. GroupsFresh => /\ g.folders = Titled(m) /\ m \notin Shows
                     /\ \A h \in task["migrate"].todo : h.media = m => h = g
  BY DEF GroupsFresh
<1>5. CASE Notes("migrate", g) /\ UNCHANGED <<dirs, disk, nfo>>
  <2>1. /\ task'["migrate"].pc = "groups" /\ task'["migrate"].noted
        /\ task'["migrate"].todo = task["migrate"].todo \ {g}
    BY <1>0, <1>5, NotesSets
  <2>2. MigrateFine => MigrateFine'
    BY <1>5, <2>1, GroupsStay DEF MigrateFine, GroupsFresh
  <2> QED
    BY <1>1, <1>5, <2>1, <2>2 DEF Progress, MigratePart
<1>6. CASE /\ ~(g.folders \subseteq dirs) \/ name \in dirs \ g.folders
           /\ Does("migrate", g) /\ UNCHANGED <<dirs, disk, nfo>>
  <2>1. /\ task'["migrate"].pc = "groups" /\ task'["migrate"].noted = task["migrate"].noted
        /\ task'["migrate"].todo = task["migrate"].todo \ {g}
    BY <1>0, <1>6, DoesSets
  <2>2. GroupsFresh => GroupFine(m)
    <3> SUFFICES ASSUME GroupsFresh PROVE GroupFine(m)
      OBVIOUS
    <3>1. g.folders = Titled(m) /\ g.folders \subseteq dirs
      BY <1>4 DEF Titled, Films
    <3> QED
      BY <1>3, <1>6, <3>1 DEF GroupFine
  <2>3. GroupsFresh => GroupsFresh'
    BY <1>6, <2>1, GroupsStay DEF GroupsFresh
  <2>4. \A k : ToDo(k) => ToDo(k)' \/ k = m
    BY <2>1 DEF ToDo
  <2>5. MigratePart => MigratePart'
    BY <1>6, <2>1, <2>2, <2>3, <2>4, GroupsStay DEF MigratePart, Renaming
  <2>6. MigrateFine => MigrateFine'
    BY <1>6, <2>1, <2>3, GroupsStay DEF MigrateFine
  <2> QED
    BY <1>1, <1>6, <2>1, <2>5, <2>6 DEF Progress
<1>7. CASE /\ g.folders \subseteq dirs /\ name \notin dirs
           /\ RenameDir(best, name) /\ Takes("migrate", "rows", g, a)
  <2>1. /\ task'["migrate"].pc = "rows" /\ task'["migrate"].noted = task["migrate"].noted
        /\ task'["migrate"].todo = task["migrate"].todo \ {g} /\ task'["migrate"].arg = a
    BY <1>0, <1>7, TakesSets
  <2>2. /\ dirs' = (dirs \ {best}) \cup {name}
        /\ disk' = Moved(disk, best, name) /\ nfo' = Moved(nfo, best, name)
    BY <1>7 DEF RenameDir
  <2>3. \A n : n \notin {best, name} =>
          (n \in dirs' <=> n \in dirs) /\ In(n)' = In(n) /\ Nfos(n)' = Nfos(n)
    <3> TAKE n
    <3> HAVE n \notin {best, name}
    <3>1. \A f : f \in disk' /\ f.folder = n <=> f \in disk /\ f.folder = n
      BY <1>0, <1>2, <2>2, MovedElsewhere
    <3>2. \A x : x \in nfo' /\ x.folder = n <=> x \in nfo /\ x.folder = n
      BY <1>0, <1>2, <2>2, MovedElsewhere
    <3> QED
      BY <2>2, <3>1, <3>2 DEF In, Nfos
  <2>4. /\ \A k : k # m => Titled(k)' = Titled(k)
        /\ \A k \in Media \ {m} : GroupFine(k) => GroupFine(k)'
    BY <1>0, <1>2, <2>2, <2>3, OtherFilms
  <2>5. ~MigrateFine
    <3> SUFFICES ASSUME MigrateFine PROVE FALSE
      OBVIOUS
    <3>1. g.folders = Titled(m)
      BY <1>4 DEF MigrateFine
    <3> QED
      BY <1>2, <1>3, <1>7, <3>1 DEF MigrateFine, GroupFine
  <2>6. GroupsFresh => Titled(m)' = {name} \cup (g.folders \ {best, name})
    <3> SUFFICES ASSUME GroupsFresh PROVE Titled(m)' = {name} \cup (g.folders \ {best, name})
      OBVIOUS
    <3>1. \E x \in nfo : x.folder = best
      BY <1>2, <1>4 DEF Titled, Nfos
    <3>2. \E x \in nfo' : x.folder = name
      BY <1>0, <1>2, <2>2, <3>1, MovedElsewhere
    <3>3. name \in Titled(m)'
      BY <1>2, <1>4, <2>2, <3>2 DEF Titled, Films, IsShow, Nfos
    <3>4. best \notin Titled(m)'
      BY <1>2, <1>7, <2>2 DEF Titled, Films
    <3>5. \A n : n \notin {best, name} => (n \in Titled(m)' <=> n \in Titled(m))
      BY <2>3 DEF Titled, Films, IsShow
    <3> QED
      BY <1>4, <3>3, <3>4, <3>5
  <2>7. GroupsFresh => GroupsFresh' /\ ~ToDo(m)' /\ \A k : k # m /\ ToDo(k) => ToDo(k)'
    <3> SUFFICES ASSUME GroupsFresh
                 PROVE  GroupsFresh' /\ ~ToDo(m)' /\ \A k : k # m /\ ToDo(k) => ToDo(k)'
      OBVIOUS
    <3>1. \A h \in task'["migrate"].todo : h.media # m
      BY <1>4, <2>1
    <3> QED
      BY <2>1, <2>4, <3>1 DEF GroupsFresh, ToDo
  <2>8. a.old \notin dirs'
    BY <1>2, <1>3, <1>7, <2>2
  <2>9. MigratePart => MigratePart'
    <3> SUFFICES ASSUME MigratePart, ~task["migrate"].noted PROVE MigratePart'
      BY <2>1 DEF MigratePart
    <3>1. GroupsFresh /\ \A k \in Media : GroupFine(k) \/ ToDo(k)
      BY DEF MigratePart
    <3>2. InHand(m, a)'
      BY <1>3, <2>4, <2>6, <2>7, <3>1 DEF InHand
    <3> QED
      BY <1>2, <1>3, <2>1, <2>7, <2>8, <3>1, <3>2 DEF MigratePart, Renaming
  <2> QED
    BY <1>1, <2>1, <2>5, <2>9 DEF Progress
<1>8. CASE /\ g.folders \subseteq dirs /\ name \in g.folders
           /\ Takes("migrate", "rest", g, a) /\ UNCHANGED <<dirs, disk, nfo>>
  <2>1. /\ task'["migrate"].pc = "rest" /\ task'["migrate"].noted = task["migrate"].noted
        /\ task'["migrate"].todo = task["migrate"].todo \ {g} /\ task'["migrate"].arg = a
    BY <1>0, <1>8, TakesSets
  <2>2. GroupsFresh => GroupsFresh' /\ ~ToDo(m)' /\ \A k : k # m /\ ToDo(k) => ToDo(k)'
    <3> SUFFICES ASSUME GroupsFresh
                 PROVE  GroupsFresh' /\ ~ToDo(m)' /\ \A k : k # m /\ ToDo(k) => ToDo(k)'
      OBVIOUS
    <3>1. \A h \in task'["migrate"].todo : h.media # m
      BY <1>4, <2>1
    <3> QED
      BY <1>8, <2>1, <3>1, GroupsStay DEF GroupsFresh, ToDo
  <2>3. MigrateFine => a.rest = {}
    <3> SUFFICES ASSUME MigrateFine PROVE a.rest = {}
      OBVIOUS
    <3>1. g.folders = Titled(m) /\ GroupFine(m)
      BY <1>2, <1>4 DEF MigrateFine
    <3> QED
      BY <1>3, <1>8, <3>1 DEF GroupFine
  <2>4. MigrateFine => MigrateFine'
    BY <1>8, <2>1, <2>2, <2>3, GroupsStay DEF MigrateFine
  <2>5. MigratePart => MigratePart'
    <3> SUFFICES ASSUME MigratePart, ~task["migrate"].noted PROVE MigratePart'
      BY <2>1 DEF MigratePart
    <3>1. GroupsFresh /\ \A k \in Media : GroupFine(k) \/ ToDo(k)
      BY DEF MigratePart
    <3>2. InHand(m, a)'
      BY <1>3, <1>4, <1>8, <2>2, <3>1, GroupsStay DEF InHand
    <3>3. a.old # a.new => Ahead(a.old, a.new)'
      BY <1>3, <1>8, GroupsStay DEF Best
    <3> QED
      BY <1>2, <1>3, <2>1, <2>2, <3>1, <3>2, <3>3 DEF MigratePart, Renaming
  <2> QED
    BY <1>1, <1>8, <2>1, <2>4, <2>5 DEF Progress
<1> QED
  BY <1>5, <1>6, <1>7, <1>8 DEF a, name

(* The rows and files of the renamed folder follow.                        *)
LEMMA RenamingProgress ==
  ASSUME LSInv, NEW a, a = task["migrate"].arg, task["migrate"].pc \in Renaming,
         NEW pc \in {"file", "stem", "nfo", "rest"}, Turns("migrate", pc, a), dirs' = dirs,
         disk' = disk \/ disk' = Restemmed(disk, a.new, a.old, a.new),
         nfo' = nfo \/ nfo' = Restemmed(nfo, a.new, a.old, a.new)
  PROVE  Progress("migrate")
<1> DEFINE m == Of[a.new]
<1>0. /\ LibraryInv /\ TaskShape /\ MigrateInv /\ "migrate" \in Tasks
      /\ dirs \subseteq Names /\ disk \subseteq StrmFile /\ nfo \subseteq NfoFile
      /\ a.new \in Names
  BY DEF LSInv, LibInv, TasksInv, Tasks, LibraryInv, LibraryType, MigrateInv, RenamingRight,
     RenameRight, Renaming
<1>1. /\ Part("migrate") <=> MigratePart
      /\ ~Fine("migrate")
      /\ Part("migrate")' <=> MigratePart'
  BY DEF Fine, Part, MigrateFine, Renaming
<1>2. /\ task'["migrate"].pc = pc /\ task'["migrate"].todo = task["migrate"].todo
      /\ task'["migrate"].arg = a /\ task'["migrate"].noted = task["migrate"].noted
  BY <1>0, TurnSets
<1> SUFFICES ASSUME MigratePart, ~task["migrate"].noted PROVE MigratePart'
  BY <1>1, <1>2 DEF Progress, MigratePart
<1>3. GroupsFresh /\ InHand(m, a) /\ a.old \notin dirs
  BY DEF MigratePart, Renaming
<1> HIDE DEF m
<1>4. \A n : n # a.new => In(n)' = In(n) /\ Nfos(n)' = Nfos(n)
  <2> TAKE n
  <2> HAVE n # a.new
  <2>1. \A f : f \in disk' /\ f.folder = n <=> f \in disk /\ f.folder = n
    <3>1. CASE disk' = disk
      BY <3>1
    <3>2. CASE disk' = Restemmed(disk, a.new, a.old, a.new)
      BY <1>0, <3>2, RestemmedElsewhere
    <3> QED
      BY <3>1, <3>2
  <2>2. \A x : x \in nfo' /\ x.folder = n <=> x \in nfo /\ x.folder = n
    <3>1. CASE nfo' = nfo
      BY <3>1
    <3>2. CASE nfo' = Restemmed(nfo, a.new, a.old, a.new)
      BY <1>0, <3>2, RestemmedElsewhere
    <3> QED
      BY <3>1, <3>2
  <2> QED
    BY <2>1, <2>2 DEF In, Nfos
<1>5. /\ \A k : k # m => Titled(k)' = Titled(k)
      /\ \A k \in Media \ {m} : GroupFine(k) => GroupFine(k)'
  BY <1>0, <1>4, OtherFilms DEF m
<1>6. Titled(m)' = Titled(m)
  <2>1. \E x \in nfo : x.folder = a.new
    BY <1>3 DEF InHand, Titled, Nfos
  <2>2. \E x \in nfo' : x.folder = a.new
    <3>1. CASE nfo' = nfo
      BY <2>1, <3>1
    <3>2. CASE nfo' = Restemmed(nfo, a.new, a.old, a.new)
      BY <1>0, <2>1, <3>2, RestemmedElsewhere
    <3> QED
      BY <3>1, <3>2
  <2>3. Nfos(a.new)' # {} /\ Nfos(a.new) # {}
    BY <2>1, <2>2 DEF Nfos
  <2>4. \A n : Nfos(n)' # {} <=> Nfos(n) # {}
    BY <1>4, <2>3
  <2> QED
    BY <2>4 DEF Titled, Films, IsShow
<1>7. GroupsFresh' /\ \A k : ToDo(k)' <=> ToDo(k)
  BY <1>2, <1>3, <1>5, <1>6 DEF GroupsFresh, ToDo
<1>8. InHand(m, a)'
  BY <1>3, <1>5, <1>6, <1>7 DEF InHand
<1>9. a.old \notin dirs' /\ a.old \notin Titled(m)'
  BY <1>3 DEF Titled, Films
<1> QED
  BY <1>2, <1>7, <1>8, <1>9 DEF MigratePart, m

(* Another folder goes.                                                    *)
LEMMA RestProgress ==
  ASSUME LSInv, MigrateRest
  PROVE  Progress("migrate")
<1> PICK a : a = task["migrate"].arg
  OBVIOUS
<1> DEFINE m == Of[a.new]
<1> PICK n \in a.rest : RemoveDirs({n}) /\ Turns("migrate", "rest", [a EXCEPT !.rest = @ \ {n}])
  BY DEF MigrateRest
<1> DEFINE b == [a EXCEPT !.rest = @ \ {n}]
<1>0. /\ LibraryInv /\ TaskShape /\ MigrateInv /\ "migrate" \in Tasks
      /\ dirs \subseteq Names /\ a.new \in Names /\ task["migrate"].pc = "rest"
      /\ RenamingRight(a)
  BY DEF LSInv, LibInv, TasksInv, Tasks, LibraryInv, LibraryType, MigrateInv, RenamingRight,
     RenameRight, MigrateRest
<1>1. /\ Part("migrate") <=> MigratePart
      /\ ~Fine("migrate")
      /\ Part("migrate")' <=> MigratePart'
  BY <1>0 DEF Fine, Part, MigrateFine
<1>2. b.old = a.old /\ b.new = a.new /\ b.rest = a.rest \ {n}
  BY <1>0 DEF RenamingRight
<1> HIDE DEF b
<1>3. /\ task'["migrate"].pc = "rest" /\ task'["migrate"].todo = task["migrate"].todo
      /\ task'["migrate"].arg = b /\ task'["migrate"].noted = task["migrate"].noted
  BY <1>0, TurnSets DEF b
<1> SUFFICES ASSUME MigratePart, ~task["migrate"].noted PROVE MigratePart'
  BY <1>1, <1>3 DEF Progress, MigratePart
<1>4. /\ GroupsFresh /\ InHand(m, a)
      /\ a.old \in Titled(m) /\ a.old # a.new => Ahead(a.old, a.new)
  BY <1>0 DEF MigratePart
<1>5. n \in Titled(m) /\ n # a.new /\ n # a.old /\ Of[n] = m
  BY <1>4 DEF InHand, Titled
<1> HIDE DEF m
<1>6. \A o : o # n => (o \in dirs' <=> o \in dirs) /\ In(o)' = In(o) /\ Nfos(o)' = Nfos(o)
  BY DEF RemoveDirs, In, Nfos
<1>7. n \notin dirs' /\ dirs' \subseteq Names
  BY <1>0 DEF RemoveDirs
<1>8. /\ \A k : k # m => Titled(k)' = Titled(k)
      /\ \A k \in Media \ {m} : GroupFine(k) => GroupFine(k)'
  BY <1>0, <1>5, <1>6, <1>7, OtherFilms
<1>9. Titled(m)' = Titled(m) \ {n}
  BY <1>6, <1>7 DEF Titled, Films, IsShow
<1>10. \A k : ToDo(k)' <=> ToDo(k)
  BY <1>3 DEF ToDo
<1>11. GroupsFresh'
  <2>1. \A g \in task["migrate"].todo : g.media # m
    BY <1>4 DEF InHand, ToDo
  <2> QED
    BY <1>3, <1>4, <1>8, <2>1 DEF GroupsFresh
<1>12. InHand(m, b)'
  BY <1>2, <1>4, <1>5, <1>8, <1>9, <1>10 DEF InHand
<1>13. Ahead(a.old, a.new)' <=> Ahead(a.old, a.new)
  BY <1>5, <1>6 DEF Ahead, Entries
<1> QED
  BY <1>2, <1>3, <1>4, <1>9, <1>11, <1>12, <1>13 DEF MigratePart, Renaming, m

(* ... until the group is done.                                            *)
LEMMA NextProgress ==
  ASSUME LSInv, IsFiniteSet(Names), MigrateNext
  PROVE  Progress("migrate")
<1> DEFINE a == task["migrate"].arg
           m == Of[a.new]
<1>0. /\ LibraryInv /\ TaskShape /\ MigrateInv /\ "migrate" \in Tasks
      /\ task["migrate"].pc = "rest" /\ a.rest = {} /\ Turns("migrate", "groups", 0)
      /\ UNCHANGED <<dirs, disk, nfo, items>> /\ dirs \subseteq Names
      /\ a.old \in Names /\ a.new \in Names
  BY DEF LSInv, LibInv, TasksInv, Tasks, MigrateNext, library, LibraryInv, LibraryType,
     MigrateInv, RenamingRight, RenameRight
<1>1. /\ Fine("migrate") <=> MigrateFine
      /\ Part("migrate") <=> MigratePart
      /\ Fine("migrate")' <=> MigrateFine'
      /\ Part("migrate")' <=> MigratePart'
  BY DEF Fine, Part
<1>2. /\ task'["migrate"].pc = "groups" /\ task'["migrate"].todo = task["migrate"].todo
      /\ task'["migrate"].noted = task["migrate"].noted
  BY <1>0, TurnSets
<1>3. GroupsFresh => GroupsFresh'
  BY <1>0, <1>2, GroupsStay DEF GroupsFresh
<1>4. MigrateFine => MigrateFine'
  BY <1>0, <1>2, <1>3, GroupsStay DEF MigrateFine
<1>5. ASSUME MigratePart, ~task["migrate"].noted PROVE MigratePart'
  <2>1. /\ GroupsFresh /\ InHand(m, a)
        /\ a.old \in Titled(m) /\ a.old # a.new => Ahead(a.old, a.new)
    BY <1>0, <1>5 DEF MigratePart
  <2> HIDE DEF a, m
  <2>2. GroupFine(m)
    <3>1. a.new = Canonical[m] /\ a.new \in dirs /\ ~IsShow(a.new)
          /\ Titled(m) \subseteq {a.new, a.old} /\ \A n \in Titled(m) : ~IsShow(n)
      BY <1>0, <2>1 DEF InHand, Titled, Films
    <3>2. ASSUME NEW best \in Best(Titled(m)) PROVE Titled(m) \subseteq {best, a.new}
      <4>1. best \in Titled(m)
        BY DEF Best
      <4>2. CASE best # a.new
        BY <3>1, <4>1, <4>2
      <4>3. CASE best = a.new /\ a.old \in Titled(m) /\ a.old # a.new
        <5>1. Ahead(a.old, a.new) /\ Ahead(a.new, a.old)
          BY <2>1, <4>3 DEF Best
        <5> QED
          BY <1>0, <3>1, <4>3, <5>1, OneIsAhead
      <4> QED
        BY <3>1, <4>2, <4>3
    <3> QED
      BY <3>1, <3>2 DEF GroupFine
  <2>3. \A k \in Media : GroupFine(k)' \/ ToDo(k)'
    BY <1>0, <1>2, <2>1, <2>2, GroupsStay DEF InHand, ToDo
  <2> QED
    BY <1>2, <1>3, <2>1, <2>3 DEF MigratePart, Renaming
<1>6. MigratePart => MigratePart'
  BY <1>2, <1>5 DEF MigratePart
<1> QED
  BY <1>0, <1>1, <1>2, <1>4, <1>6 DEF Progress

LEMMA MigrateProgress ==
  ASSUME LSInv, IsFiniteSet(Names), MigrateStep
  PROVE  Progress("migrate")
<1>1. CASE MigrateDone
  <2>0. TaskShape /\ "migrate" \in Tasks
    BY DEF LSInv, LibInv, TasksInv, Tasks
  <2>1. /\ task["migrate"].pc = "groups" /\ task["migrate"].todo = {} /\ Ends("migrate")
        /\ UNCHANGED <<dirs, disk, nfo, items>>
    BY <1>1 DEF MigrateDone, library
  <2>2. task'["migrate"].pc = "idle" /\ task'["migrate"].todo = {}
    BY <2>0, <2>1, EndsSets
  <2>3. GroupsFresh'
    BY <2>2 DEF GroupsFresh
  <2>4. MigrateFine \/ (MigratePart /\ ~task["migrate"].noted) => MigrateFine'
    BY <2>1, <2>2, <2>3, GroupsStay DEF MigrateFine, MigratePart, ToDo
  <2> QED
    BY <2>1, <2>2, <2>4 DEF Progress, Fine, Part
<1>2. CASE MigrateRows \/ MigrateFile \/ MigrateStem \/ MigrateNfo
  <2> DEFINE a == task["migrate"].arg
  <2>1. /\ task["migrate"].pc \in Renaming /\ dirs' = dirs
        /\ disk' = disk \/ disk' = Restemmed(disk, a.new, a.old, a.new)
        /\ nfo' = nfo \/ nfo' = Restemmed(nfo, a.new, a.old, a.new)
        /\ \E pc \in {"file", "stem", "nfo", "rest"} : Turns("migrate", pc, a)
    BY <1>2 DEF MigrateRows, MigrateFile, MigrateStem, MigrateNfo, Renaming
  <2> QED
    BY <2>1, RenamingProgress
<1> QED
  BY <1>1, <1>2, GroupProgress, RestProgress, NextProgress DEF MigrateStep

(* A task that starts has all of the library on its list.                  *)
OwnStep(t) == /\ t = "generate" => GenerateStep("generate")
              /\ t = "migrate" => MigrateStep
              /\ t = "dedup" => DedupStep
OwnStart(t) ==
    /\ t = "generate" => GeneratorStarts
    /\ t = "migrate" => Starts("migrate", "groups", Groups(Films(dirs))) /\ Acquire("migrate")
    /\ t = "dedup" => Starts("dedup", "folders", Films(dirs)) /\ Acquire("dedup")

LEMMA GroupsAreFresh ==
  ASSUME UNCHANGED <<dirs, nfo>>, task'["migrate"].todo = Groups(Films(dirs))
  PROVE  /\ GroupsFresh'
         /\ \A m : Titled(m)' = Titled(m) /\ (Titled(m) # {} => ToDo(m)')
<1>1. \A m : Titled(m)' = Titled(m)
  BY DEF Titled, Films, Nfos, IsShow
<1>2. ASSUME NEW g \in Groups(Films(dirs))
      PROVE  g.media \notin Shows /\ g.folders = Titled(g.media)
  BY DEF Groups, Titled, Films, IsShow
<1>3. ASSUME NEW g \in Groups(Films(dirs)), NEW h \in Groups(Films(dirs)), g.media = h.media
      PROVE  g = h
  <2> DEFINE F(m) == {n \in Films(dirs) : Of[n] = m /\ Nfos(n) # {}}
  <2>1. PICK m : g = [media |-> m, folders |-> F(m)]
    BY DEF Groups
  <2>2. PICK k : h = [media |-> k, folders |-> F(k)]
    BY DEF Groups
  <2> HIDE DEF F
  <2>3. m = k
    BY <1>3, <2>1, <2>2
  <2> QED
    BY <2>1, <2>2, <2>3
<1>4. ASSUME NEW m, Titled(m) # {} PROVE \E g \in Groups(Films(dirs)) : g.media = m
  <2> PICK n \in Films(dirs) : Of[n] = m /\ Nfos(n) # {}
    BY <1>4 DEF Titled
  <2> DEFINE g == [media |-> m, folders |-> {o \in Films(dirs) : Of[o] = m /\ Nfos(o) # {}}]
  <2>1. g \in Groups(Films(dirs))
    BY DEF Groups
  <2> QED
    BY <2>1
<1> QED
  BY <1>1, <1>2, <1>3, <1>4 DEF GroupsFresh, ToDo

LEMMA OwnStartSets ==
  ASSUME TaskShape, NEW t \in Checked, SoleInv(t), Recorded, OwnStart(t)
  PROVE  SoleInv(t)' /\ UNCHANGED library
<1>0. t \in Tasks
  BY DEF Checked, Tasks
<1>1. ASSUME NEW pc, NEW todo, Starts(t, pc, todo), pc # "idle"
      PROVE  /\ OtherTasks(t) /\ UNCHANGED library /\ task[t].pc = "idle"
             /\ task'[t].pc = pc /\ task'[t].todo = todo
             /\ UNCHANGED <<dirs, disk, nfo, items>>
  BY <1>0, <1>1, GoesSets DEF Starts, library
<1>2. CASE t = "generate"
  <2>1. Starts(t, "rebuild", RowList)
    BY <1>2 DEF OwnStart, GeneratorStarts
  <2>2. \A k : Well(k) => Well(k)'
    BY <1>1, <2>1, WellGrows
  <2>3. RowList' = RowList
    BY <1>1, <2>1 DEF RowList, Place
  <2>4. ASSUME NEW k \in DOMAIN items PROVE Well(k)' \/ OnList(k)'
    <3>1. CASE items[k].folder \in Names
      <4> DEFINE e == [row |-> k, place |-> Place(items[k])]
      <4>1. e \in RowList /\ e.row = k /\ e.place = Place(items[k])
        BY <3>1 DEF RowList
      <4> HIDE DEF e
      <4> QED
        BY <1>1, <1>2, <2>1, <4>1 DEF OnList, Place
    <3>2. CASE items[k].folder \notin Names
      BY <1>1, <2>1, <3>2 DEF Well
    <3> QED
      BY <3>1, <3>2
  <2>5. GeneratePart'
    BY <1>1, <1>2, <2>1, <2>4 DEF GeneratePart
  <2>6. GenerateFine => GenerateFine'
    BY <1>1, <1>2, <2>1, <2>2, <2>3 DEF GenerateFine
  <2> QED
    BY <1>1, <1>2, <2>1, <2>5, <2>6, SoleStarts DEF Fine, Part
<1>4. CASE t = "migrate"
  <2>1. Starts(t, "groups", Groups(Films(dirs)))
    BY <1>4 DEF OwnStart
  <2>2. GroupsFresh' /\ \A m : Titled(m)' = Titled(m) /\ (Titled(m) # {} => ToDo(m)')
    BY <1>1, <1>4, <2>1, GroupsAreFresh
  <2>3. \A m : (GroupFine(m) => GroupFine(m)') /\ (Titled(m) = {} => GroupFine(m)')
    <3>1. UNCHANGED <<dirs, disk, nfo>>
      BY <1>1, <2>1
    <3>2. \A m : Titled(m) = {} => GroupFine(m)
      BY DEF GroupFine, Best
    <3> QED
      BY <3>1, <3>2, GroupsStay
  <2>4. MigratePart'
    BY <1>1, <1>4, <2>1, <2>2, <2>3 DEF MigratePart, Renaming
  <2>5. MigrateFine => MigrateFine'
    BY <1>1, <1>4, <2>1, <2>2, <2>3 DEF MigrateFine
  <2> QED
    BY <1>1, <1>4, <2>1, <2>4, <2>5, SoleStarts DEF Fine, Part
<1>5. CASE t = "dedup"
  <2>1. Starts(t, "folders", Films(dirs))
    BY <1>5 DEF OwnStart
  <2>2. \A n : Single(n)' <=> Single(n)
    BY <1>1, <2>1 DEF Single, In
  <2>3. DedupPart' /\ (DedupFine => DedupFine')
    BY <1>1, <1>5, <2>1, <2>2 DEF DedupPart, DedupFine, FilmsListed, Films, IsShow
  <2> QED
    BY <1>1, <1>5, <2>1, <2>3, SoleStarts DEF Fine, Part
<1> QED
  BY <1>2, <1>4, <1>5 DEF Checked

LEMMA OwnStepProgress ==
  ASSUME LSInv, IsFiniteSet(Names), NEW t \in Checked, OwnStep(t)
  PROVE  Progress(t) /\ OtherTasks(t) /\ task[t].pc # "idle"
<1>0. TaskShape
  BY DEF LSInv, LibInv, TasksInv
<1>1. CASE t = "generate"
  <2>1. GenerateStep("generate") /\ "generate" \in {"generate", "cleanup"}
    BY <1>1 DEF OwnStep
  <2>2. task["generate"].pc # "idle"
    BY <2>1 DEF GenerateStep, Rebuild, RebuildDone, WriteNfo, NfosDone
  <2> QED
    BY <1>0, <1>1, <2>1, <2>2, GenerateProgress, GenerateMoves DEF Moves
<1>3. CASE t = "migrate"
  <2>1. task["migrate"].pc # "idle"
    BY <1>3 DEF OwnStep, MigrateStep, Migrate, MigrateRows, MigrateFile, MigrateStem, MigrateNfo,
       MigrateRest, MigrateNext, MigrateDone
  <2> QED
    BY <1>0, <1>3, <2>1, MigrateProgress, MigrateMoves DEF OwnStep, Moves
<1>4. CASE t = "dedup"
  <2>1. task["dedup"].pc # "idle"
    BY <1>4 DEF OwnStep, DedupStep, DedupStrms, DedupSkip, DedupDone
  <2> QED
    BY <1>0, <1>4, <2>1, DedupProgress, DedupMoves DEF OwnStep, Moves
<1> QED
  BY <1>1, <1>3, <1>4 DEF Checked

LEMMA OwnOrOther ==
  ASSUME TaskShape, Step, NEW t \in Checked
  PROVE  OwnStep(t) \/ OwnStart(t) \/ \E u \in Tasks \ {t} : Moves(u)
<1>0. /\ t \in Tasks /\ t \notin {"create", "repair", "cleanup", "pack", "titles"}
      /\ {"create", "repair", "cleanup", "pack", "titles"} \cup Checked \subseteq Tasks
      /\ Checked = {"migrate", "dedup", "generate"}
  BY DEF Checked, Tasks
<1>1. CASE CreateStep \/ CleanupStep \/ PackStep \/ TitlesStep \/ GenerateStep("cleanup")
  BY <1>0, <1>1, CreateMoves, CleanupMoves, PackMoves, TitlesMoves, GenerateMoves
<1>2. CASE RepairStep
  BY <1>0, <1>2, RepairMoves
<1>3. CASE MigrateStep
  BY <1>0, <1>3, MigrateMoves DEF OwnStep
<1>4. CASE DedupStep
  BY <1>0, <1>4, DedupMoves DEF OwnStep
<1>5. CASE GenerateStep("generate")
  BY <1>0, <1>5, GenerateMoves DEF OwnStep
<1>6. CASE GeneratorStarts
  BY <1>0, <1>6, GeneratorMoves DEF OwnStart
<1>7. CASE StartTask
  <2>1. ASSUME NEW u \in Tasks, NEW pc, NEW todo, Starts(u, pc, todo), pc # "idle",
               IF u \in Locked THEN Acquire(u) ELSE lock' = lock
        PROVE  Moves(u)
    BY <2>1, GoesSets DEF Starts, Moves, SetsOut
  <2>2. {"repair", "migrate", "dedup"} = Locked
    BY DEF Locked
  <2>3. CASE Starts("repair", "folders", Films(dirs)) /\ Acquire("repair")
    <3>1. Moves("repair")
      BY <1>0, <2>1, <2>2, <2>3
    <3> QED
      BY <1>0, <3>1
  <2>4. CASE Starts("migrate", "groups", Groups(Films(dirs))) /\ Acquire("migrate")
    <3>1. Moves("migrate")
      BY <1>0, <2>1, <2>2, <2>4
    <3> QED
      BY <1>0, <2>4, <3>1 DEF OwnStart
  <2>5. CASE Starts("dedup", "folders", Films(dirs)) /\ Acquire("dedup")
    <3>1. Moves("dedup")
      BY <1>0, <2>1, <2>2, <2>5
    <3> QED
      BY <1>0, <2>5, <3>1 DEF OwnStart
  <2>6. CASE Starts("cleanup", "messy", dirs) /\ UNCHANGED lock
    <3>1. Moves("cleanup")
      BY <1>0, <2>1, <2>2, <2>6
    <3> QED
      BY <1>0, <3>1
  <2>7. CASE \E raw \in SUBSET Media : Starts("titles", "titles", raw) /\ UNCHANGED lock
    <3>1. Moves("titles")
      BY <1>0, <2>1, <2>2, <2>7
    <3> QED
      BY <1>0, <3>1
  <2>8. CASE /\ task["pack"].pc = "idle" /\ lock' = lock
             /\ \E S : task' = [task EXCEPT !["pack"] =
                                 [Idle EXCEPT !.pc = "unlink", !.todo = S, !.arg = S]]
    <3>1. OtherTasks("pack") /\ task'["pack"].pc = "unlink"
      BY <1>0, <2>8 DEF TaskShape, OtherTasks, Idle
    <3>2. Moves("pack")
      BY <1>0, <2>2, <2>8, <3>1 DEF Moves, SetsOut
    <3> QED
      BY <1>0, <3>2
  <2>9. CASE Starts("generate", "rebuild", RowList) /\ UNCHANGED lock
    BY <1>6, <2>9 DEF GeneratorStarts
  <2> QED
    BY <1>7, <2>3, <2>4, <2>5, <2>6, <2>7, <2>8, <2>9 DEF StartTask
<1> QED
  BY <1>1, <1>2, <1>3, <1>4, <1>5, <1>7 DEF Step

LEMMA IdempotentStep ==
  ASSUME IsFiniteSet(Names), IdempotentInv, [LSNext]_allVars
  PROVE  /\ IdempotentInv'
         /\ \A t \in Checked : Unchanging(t)
<1>0. /\ LSInv /\ TaskShape /\ \A t \in Checked : SoleInv(t)
      /\ Checked \subseteq Tasks
  BY DEF IdempotentInv, LSInv, LibInv, TasksInv, Checked, Tasks
<1>1. LSInv'
  BY <1>0, TaskStepKeeps, SyncStepKeeps, NothingHappens DEF LSNext
<1>2. CASE UNCHANGED allVars
  <2>1. UNCHANGED <<dirs, disk, nfo, items, task, past>>
    BY <1>2 DEF allVars, vars
  <2>2. \A t \in Checked : SoleInv(t)'
    <3> TAKE t \in Checked
    <3>1. (Fine(t) => Fine(t)') /\ (Part(t) => Part(t)')
      BY <2>1, SameLibrary
    <3> QED
      BY <1>0, <2>1, <3>1 DEF SoleInv, Sole, Busy
  <2> QED
    BY <1>1, <2>1, <2>2 DEF IdempotentInv, Unchanging
<1>3. CASE Step /\ UNCHANGED syncVars /\ Recorded
  <2>1. ASSUME NEW t \in Checked PROVE SoleInv(t)' /\ Unchanging(t)
    <3>1. CASE OwnStep(t)
      <4>1. Progress(t) /\ OtherTasks(t) /\ task[t].pc # "idle"
        BY <1>0, <3>1, OwnStepProgress
      <4>2. SoleInv(t)'
        BY <1>0, <1>3, <4>1, SoleWorks
      <4>3. Unchanging(t)
        BY <1>0, <4>1 DEF Progress, Unchanging, SoleInv
      <4> QED
        BY <4>2, <4>3
    <3>2. CASE OwnStart(t)
      BY <1>0, <1>3, <3>2, OwnStartSets DEF Unchanging, library
    <3>3. CASE \E u \in Tasks \ {t} : Moves(u)
      <4> PICK u \in Tasks \ {t} : Moves(u)
        BY <3>3
      <4>1. SoleInv(t)'
        BY <1>0, <1>3, SoleOthers
      <4>2. task'[t] = task[t]
        BY <1>0 DEF Moves, OtherTasks
      <4> QED
        BY <4>1, <4>2 DEF Unchanging
    <3> QED
      BY <1>0, <1>3, <3>1, <3>2, <3>3, OwnOrOther
  <2> QED
    BY <1>1, <2>1 DEF IdempotentInv
<1>4. CASE SyncStep /\ Recorded
  <2>1. lock' = lock
    BY <1>4 DEF SyncStep, StartImport, StartResolve, StartRecovery, CleanedUp, ImportFolder,
       Imported, ResolveRow, ResolvedAll, MonitorFolder, Monitored, FinishFolder, Finished,
       SyncMovie, OnlySync
  <2>2. "cleanup" \in Tasks /\ "cleanup" \notin Checked /\ "cleanup" \notin Locked
    BY DEF Tasks, Checked, Locked
  <2>3. CASE Goes("cleanup", "messy", dirs) /\ task["cleanup"].pc = "idle"
    <3>1. Moves("cleanup")
      BY <1>0, <2>1, <2>2, <2>3, GoesSets DEF Moves, SetsOut
    <3>2. \A t \in Checked : SoleInv(t)'
      BY <1>0, <1>4, <2>2, <3>1, SoleOthers
    <3>3. \A t \in Checked : task'[t] = task[t]
      BY <1>0, <2>2, <3>1 DEF Moves, OtherTasks
    <3> QED
      BY <1>1, <3>2, <3>3 DEF IdempotentInv, Unchanging
  <2>4. CASE UNCHANGED task /\ library' # library
    <3>1. ASSUME NEW t \in Checked PROVE SoleInv(t)'
      <4>1. t \in Busy <=> task[t].pc # "idle"
        BY <1>0 DEF Busy
      <4>2. Begun = {} /\ Ended = {}
        BY <2>4 DEF Begun, Ended, Busy
      <4>3. past'.settled = {} /\ past'.met = past.met \cup Busy
        BY <1>4, <2>4, <4>2, PastSets
      <4> QED
        BY <2>4, <4>1, <4>3 DEF SoleInv, Sole
    <3> QED
      BY <1>1, <2>4, <3>1 DEF IdempotentInv, Unchanging
  <2>5. CASE UNCHANGED task /\ library' = library
    <3>1. Moves("cleanup")
      BY <2>1, <2>2, <2>5 DEF Moves, OtherTasks
    <3>2. \A t \in Checked : SoleInv(t)'
      BY <1>0, <1>4, <2>2, <3>1, SoleOthers
    <3> QED
      BY <1>1, <2>5, <3>2 DEF IdempotentInv, Unchanging
  <2> QED
    BY <1>4, <2>3, <2>4, <2>5, SyncGrows
<1> QED
  BY <1>2, <1>3, <1>4 DEF LSNext

LEMMA IdempotentInit == LSInit => IdempotentInv
<1> SUFFICES ASSUME LSInit PROVE IdempotentInv
  OBVIOUS
<1>1. /\ task = [t \in Tasks |-> Idle]
      /\ past = [had |-> Playable, settled |-> {}, met |-> {}]
  BY DEF LSInit, Init
<1>2. ASSUME NEW t \in Checked PROVE SoleInv(t)
  BY <1>1 DEF SoleInv, Sole, Idle, Checked, Tasks
<1> QED
  BY <1>2, InitHolds DEF IdempotentInv

(* A migration of names, a deduplication or a generation that has run      *)
(* without another task or thread changing the library beside it, and a    *)
(* migration with a name from TMDB for every film, changes nothing when it *)
(* is run again before the library has changed (strm_generator.py),        *)
(* whatever the folders hold and whatever ran before or between.           *)
(* Hypothesis: there are finitely many names.                              *)
THEOREM TasksAreIdempotent ==
  ASSUME IsFiniteSet(Names)
  PROVE  LSSpec => RunsAreIdempotent
<1>1. LSInit => IdempotentInv
  BY IdempotentInit
<1>2. IdempotentInv /\ [LSNext]_allVars => IdempotentInv'
  BY IdempotentStep
<1>3. IdempotentInv /\ [LSNext]_allVars =>
        [\A t \in {"migrate", "dedup", "generate"} : Unchanging(t)]_vars
  BY IdempotentStep DEF Checked
<1> QED
  BY <1>1, <1>2, <1>3, PTL DEF LSSpec, RunsAreIdempotent
=============================================================================
