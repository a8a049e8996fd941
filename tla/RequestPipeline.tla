-------------------------- MODULE RequestPipeline --------------------------
(***************************************************************************)
(* From an accepted request to its verdict: processor.process with its     *)
(* per-imdb mutex, the requests table, the retry queue and its scheduled   *)
(* run, and the wanted list with its recheck, which shares the processor's *)
(* module state but not its mutex.                                         *)
(*                                                                         *)
(* A request is a movie or the seasons of a series.  Which releases exist  *)
(* is the environment's choice and only grows; what goes wrong while one   *)
(* is added (TorBox refuses, the budget is gone, a call raises) is a fault.*)
(***************************************************************************)
EXTENDS Integers, FiniteSets

CONSTANTS
  Movies, Series,   \* imdb ids
  Seasons,          \* how many seasons a series request names
  Workers,          \* threads started by the webhook and the UI
  LazyModes,        \* CATBOX_MODE and CATBOX_LAZY_ADD: the values they have,
                    \* both if they are changed while requests are processed
  MaxAttempts,      \* len(RETRY_BACKOFF_MINUTES)
  JobsFire,         \* the interval jobs of app._start_scheduler run
  BudgetAttr,       \* torbox has the attribute retry_queue.run_due reads
  NoThread, NoRow,  \* no holder; no row of requests
  MaxFaults,        \* bound: faults of a behaviour
  MaxSubmissions,   \* bound: requests accepted per title
  MaxRestarts       \* bound: restarts of the process

Titles == Movies \cup Series
Retrier == "retrier"                 \* the scheduler thread in run_due
Threads == Workers \cup {Retrier}
RowIds == 1 .. (MaxSubmissions * Cardinality(Titles))

ASSUME NamesAssumption ==
  /\ Movies \cap Series = {} /\ Retrier \notin Workers
  /\ NoThread \notin Threads /\ NoRow \notin Titles
  /\ IsFiniteSet(Titles) /\ IsFiniteSet(Workers) /\ Titles # {}
ASSUME PipelineNumbers ==
  /\ Seasons \in Nat \ {0} /\ MaxAttempts \in Nat
  /\ MaxFaults \in Nat /\ MaxSubmissions \in Nat /\ MaxRestarts \in Nat
ASSUME PipelineSwitches ==
  LazyModes \subseteq BOOLEAN /\ {JobsFire, BudgetAttr} \subseteq BOOLEAN

(* The settings are read again at each use.                                *)
Lazy  == TRUE \in LazyModes
Eager == FALSE \in LazyModes

VARIABLES
  requests,   \* table requests: the status of each title's row, or "none"
  seen,       \* table webhook_events
  queue,      \* table retry_queue
  wanted,     \* table wanted_movies
  monitored,  \* table monitored_series
  library,    \* what was added to TorBox or registered as a virtual item
  released,   \* the environment: parts an acceptable (cached) release exists for
  flag,       \* processor._WANTED
  mutex,      \* locks._locks: who holds each title's lock
  pc, job,    \* the threads inside process()
  due,        \* run_due: the due rows it has still to go through
  rpc, rlist, ritem,           \* the thread inside upgrader.recheck_wanted
  faults, started, ended, restarts   \* bounds and history

tables == <<requests, seen, queue, wanted, monitored>>
memory == <<flag, mutex, pc, job, due, rpc, rlist, ritem>>
history == <<faults, started, ended, restarts>>
vars == <<tables, library, released, memory, history>>

Attempts == 0 .. MaxAttempts
Statuses == {"none", "pending", "success", "wanted", "failed", "rate_limited"}
Row == [id : RowIds, title : Titles, attempt : Attempts, due : BOOLEAN]
Job == [title : Titles, attempt : Attempts, row : Titles \cup {NoRow},
        part : 1 .. Seasons + 1, ok : BOOLEAN, status : Statuses]

(* A movie is one part, a series one part per requested season.            *)
PartsOf(x) == IF x \in Movies THEN 1 ELSE Seasons
Parts == {part \in Titles \X (1 .. Seasons) : part[2] <= PartsOf(part[1])}

Fault == faults < MaxFaults /\ faults' = faults + 1
NewJob(x, n) == [title |-> x, attempt |-> n, row |-> NoRow, part |-> 1,
                 ok |-> FALSE, status |-> "none"]
NoJob == NewJob(CHOOSE x \in Titles : TRUE, 0)
Goto(p, l) == pc' = [pc EXCEPT ![p] = l]

(* db.enqueue_retry: a row with an id of its own.                          *)
FreeIds == RowIds \ {r.id : r \in queue}
Enqueue(x, n) ==
  /\ FreeIds # {}
  /\ queue' = queue \cup {[id |-> CHOOSE i \in FreeIds : TRUE,
                           title |-> x, attempt |-> n, due |-> FALSE]}
-----------------------------------------------------------------------------
Init ==
  /\ requests = [x \in Titles |-> "none"]
  /\ seen = {} /\ queue = {} /\ wanted = {} /\ monitored = {}
  /\ library = {} /\ released = {}
  /\ flag = {}
  /\ mutex = [x \in Titles |-> NoThread]
  /\ pc = [p \in Threads |-> "idle"]
  /\ job = [p \in Threads |-> NoJob]
  /\ due = {}
  /\ rpc = "idle" /\ rlist = {} /\ ritem = NoRow
  /\ faults = 0 /\ restarts = 0
  /\ started = [x \in Titles |-> 0]
  /\ ended = [x \in Titles |-> 0]

(* A new thread runs processor.process(req) at attempt 0.                  *)
Spawn(p, x) ==
  /\ p \in Workers /\ pc[p] = "idle"
  /\ started[x] < MaxSubmissions
  /\ started' = [started EXCEPT ![x] = @ + 1]
  /\ job' = [job EXCEPT ![p] = NewJob(x, 0)]
  /\ Goto(p, "enter")
  /\ UNCHANGED <<queue, wanted, monitored, library, released, flag, mutex, due,
                 rpc, rlist, ritem, faults, ended, restarts>>

(* POST /webhook: an event already recorded starts nothing.                *)
Webhook(p, x) ==
  /\ x \notin seen
  /\ seen' = seen \cup {x}
  /\ Spawn(p, x)
  /\ UNCHANGED requests

(* The UI's submit, discover and approve routes start without a check.     *)
Submit(p, x) == Spawn(p, x) /\ UNCHANGED <<requests, seen>>

(* POST /ui/api/requests/<id>/retry puts the row back to pending first.    *)
RetryRequest(p, x) ==
  /\ requests[x] # "none"
  /\ requests' = [requests EXCEPT ![x] = "pending"]
  /\ Spawn(p, x)
  /\ UNCHANGED seen

DeleteRequest(x) ==
  /\ requests[x] # "none"
  /\ requests' = [requests EXCEPT ![x] = "none"]
  /\ UNCHANGED <<seen, queue, wanted, monitored, library, released, memory, history>>

(* prune_webhook_events(24): a day later the same event counts as new.     *)
PruneWebhooks ==
  /\ JobsFire
  /\ seen # {}
  /\ seen' = {}
  /\ UNCHANGED <<requests, queue, wanted, monitored, library, released, memory, history>>
-----------------------------------------------------------------------------
(* process() returns to its caller, or raises through it: a worker thread  *)
(* ends either way, run_due goes on to its next row or is aborted.         *)
Return(p) == /\ Goto(p, IF p = Retrier THEN "loop" ELSE "idle")
             /\ job' = [job EXCEPT ![p] = NoJob]
             /\ UNCHANGED due
Raise(p) == /\ Goto(p, "idle")
            /\ job' = [job EXCEPT ![p] = NoJob]
            /\ due' = IF p = Retrier THEN {} ELSE due

(* Faulty variant: a busy title is skipped without putting it back.        *)
EnterBusySkips(p) ==
  LET j == job[p] IN
  /\ pc[p] = "enter" /\ mutex[j.title] # NoThread
  /\ Return(p)
  /\ UNCHANGED <<tables, library, released, flag, mutex, rpc, rlist, ritem, history>>

EnterBusy(p) ==
  LET j == job[p] IN
  /\ pc[p] = "enter" /\ mutex[j.title] # NoThread
  /\ Enqueue(j.title, j.attempt)
  /\ Return(p)
  /\ UNCHANGED <<requests, seen, wanted, monitored, library, released, flag, mutex,
                 rpc, rlist, ritem, history>>

(* Faulty variant: the lock is taken over from whoever holds it.           *)
EnterAnyway(p) ==
  LET j == job[p] IN
  /\ pc[p] = "enter"
  /\ mutex' = [mutex EXCEPT ![j.title] = p]
  /\ Goto(p, "insert")
  /\ UNCHANGED <<tables, library, released, flag, job, due, rpc, rlist, ritem, history>>

Enter(p) ==
  LET j == job[p] IN
  /\ pc[p] = "enter" /\ mutex[j.title] = NoThread
  /\ mutex' = [mutex EXCEPT ![j.title] = p]
  /\ Goto(p, "insert")
  /\ UNCHANGED <<tables, library, released, flag, job, due, rpc, rlist, ritem, history>>

(* insert_request returns cur.lastrowid.  After the upsert changed an old  *)
(* row that is whatever this thread's connection inserted last, in any     *)
(* table: nothing in a new thread, anything in the scheduler's.            *)
Insert(p) ==
  LET x == job[p].title IN
  /\ pc[p] = "insert"
  /\ \E row \in Titles \cup {NoRow} :
       /\ requests[x] = "none" => row = x
       /\ requests[x] # "none" /\ p \in Workers => row = NoRow
       /\ job' = [job EXCEPT ![p].row = row]
  /\ requests' = [requests EXCEPT ![x] = IF @ = "none" THEN "pending" ELSE @]
  /\ Goto(p, "search")
  /\ UNCHANGED <<seen, queue, wanted, monitored, library, released, flag, mutex, due,
                 rpc, rlist, ritem, history>>

(* What a search for one part can end in without a fault: something of it  *)
(* is added, or the title is flagged as wanted, or neither.  In lazy mode a *)
(* season whose .strm files all exist adds nothing.                        *)
Registered(part) == part[1] \in Series /\ part \in library
Added(part)   == part \in released
Missed(part)  == part \notin released \/ (Registered(part) /\ Lazy)
Flagged(part) == Missed(part) /\ (part[1] \in Movies \/ Lazy)
Nothing(part) == Missed(part) /\ part[1] \in Series

(* _process_movie, or _process_season of the next season.                  *)
Search(p) ==
  LET j == job[p]
      part == <<j.title, j.part>>
      next(ok) == /\ job' = [job EXCEPT ![p].part = @ + 1, ![p].ok = @ \/ ok]
                  /\ UNCHANGED pc
      stop(s) == /\ job' = [job EXCEPT ![p].status = s]
                 /\ Goto(p, "mark")
  IN
  /\ pc[p] = "search" /\ j.part <= PartsOf(j.title)
  /\ \/ /\ Added(part)
        /\ library' = library \cup {part}
        /\ next(TRUE)
        /\ UNCHANGED <<flag, faults>>
     \/ /\ Flagged(part)
        /\ flag' = flag \cup {j.title}
        /\ next(FALSE)
        /\ UNCHANGED <<library, faults>>
     \/ /\ Nothing(part)
        /\ next(FALSE)
        /\ UNCHANGED <<flag, library, faults>>
     \/ /\ Fault
        /\ \/ Eager /\ next(FALSE)
           \/ Eager /\ stop("rate_limited")
           \/ stop("failed")
        /\ UNCHANGED <<flag, library>>
  /\ UNCHANGED <<tables, released, mutex, due, rpc, rlist, ritem,
                 started, ended, restarts>>

(* The verdict reads the outcome, then the shared flag.                    *)
Verdict(p) ==
  LET j == job[p]  x == j.title IN
  /\ pc[p] = "search" /\ j.part > PartsOf(x)
  /\ \/ /\ j.ok
        /\ flag' = flag \ {x}
        /\ job' = [job EXCEPT ![p].status = "success"]
        /\ Goto(p, "unwant")
     \/ /\ ~j.ok /\ x \in flag
        /\ Goto(p, "popwanted")
        /\ UNCHANGED <<flag, job>>
     \/ /\ ~j.ok /\ x \notin flag
        /\ job' = [job EXCEPT ![p].status = "failed"]
        /\ Goto(p, "mark")
        /\ UNCHANGED flag
  /\ UNCHANGED <<tables, library, released, mutex, due, rpc, rlist, ritem, history>>

Unwant(p) ==
  /\ pc[p] = "unwant"
  /\ wanted' = wanted \ {job[p].title}
  /\ Goto(p, "mark")
  /\ UNCHANGED <<requests, seen, queue, monitored, library, released, flag, mutex, job,
                 due, rpc, rlist, ritem, history>>

PopWanted(p) ==
  LET x == job[p].title IN
  /\ pc[p] = "popwanted" /\ x \in flag
  /\ flag' = flag \ {x}
  /\ job' = [job EXCEPT ![p].status = "wanted"]
  /\ Goto(p, "mark")
  /\ UNCHANGED <<tables, library, released, mutex, due, rpc, rlist, ritem, history>>

Release(p) == mutex' = [mutex EXCEPT ![job[p].title] = NoThread]
End(p) == ended' = [ended EXCEPT ![job[p].title] = @ + 1]

(* Faulty variant: the lock is kept when the call raises.                  *)
PopWantedRaisesLocked(p) ==
  /\ pc[p] = "popwanted" /\ job[p].title \notin flag
  /\ End(p)
  /\ Raise(p)
  /\ UNCHANGED <<tables, library, released, flag, mutex, rpc, rlist, ritem,
                 faults, started, restarts>>

(* _WANTED.pop without a default: a KeyError when recheck_wanted popped    *)
(* the flag after the verdict read it.                                     *)
PopWantedRaises(p) ==
  /\ pc[p] = "popwanted" /\ job[p].title \notin flag
  /\ Release(p) /\ End(p)
  /\ Raise(p)
  /\ UNCHANGED <<tables, library, released, flag, rpc, rlist, ritem,
                 faults, started, restarts>>

(* update_request writes the row it was given; on success a series is      *)
(* monitored from then on.                                                 *)
Mark(p) ==
  LET j == job[p] IN
  /\ pc[p] = "mark"
  /\ requests' = [x \in Titles |-> IF x = j.row /\ requests[x] # "none"
                                   THEN j.status ELSE requests[x]]
  /\ monitored' = IF j.status = "success" /\ j.title \in Series
                  THEN monitored \cup {j.title} ELSE monitored
  /\ Goto(p, CASE j.status = "success" -> "leave"
               [] j.status = "wanted" -> "upsert"
               [] OTHER -> "schedule")
  /\ UNCHANGED <<seen, queue, wanted, library, released, flag, mutex, job, due,
                 rpc, rlist, ritem, history>>

(* The rest of a success (.strm, refresh, metrics) returns or raises.      *)
Leave(p) ==
  /\ pc[p] = "leave"
  /\ Release(p) /\ End(p)
  /\ \/ Return(p) /\ UNCHANGED faults
     \/ Raise(p) /\ Fault
  /\ UNCHANGED <<tables, library, released, flag, rpc, rlist, ritem,
                 started, restarts>>

UpsertWanted(p) ==
  /\ pc[p] = "upsert"
  /\ wanted' = wanted \cup {job[p].title}
  /\ Release(p) /\ End(p) /\ Return(p)
  /\ UNCHANGED <<requests, seen, queue, monitored, library, released, flag,
                 rpc, rlist, ritem, faults, started, restarts>>

(* Faulty variants: one attempt too many, one too few.                     *)
ScheduleOneMore(p) ==
  LET j == job[p] IN
  /\ pc[p] = "schedule"
  /\ \/ /\ j.attempt <= MaxAttempts
        /\ Enqueue(j.title, j.attempt + 1)
        /\ UNCHANGED ended
     \/ /\ j.attempt > MaxAttempts
        /\ End(p)
        /\ UNCHANGED queue
  /\ Release(p) /\ Return(p)
  /\ UNCHANGED <<requests, seen, wanted, monitored, library, released, flag,
                 rpc, rlist, ritem, faults, started, restarts>>

ScheduleOneLess(p) ==
  LET j == job[p] IN
  /\ pc[p] = "schedule"
  /\ \/ /\ j.attempt + 1 < MaxAttempts
        /\ Enqueue(j.title, j.attempt + 1)
        /\ UNCHANGED ended
     \/ /\ j.attempt + 1 >= MaxAttempts
        /\ End(p)
        /\ UNCHANGED queue
  /\ Release(p) /\ Return(p)
  /\ UNCHANGED <<requests, seen, wanted, monitored, library, released, flag,
                 rpc, rlist, ritem, faults, started, restarts>>

(* retry_queue.schedule: the next attempt, or none after the last.         *)
Schedule(p) ==
  LET j == job[p] IN
  /\ pc[p] = "schedule"
  /\ \/ /\ j.attempt < MaxAttempts
        /\ Enqueue(j.title, j.attempt + 1)
        /\ UNCHANGED ended
     \/ /\ j.attempt >= MaxAttempts
        /\ End(p)
        /\ UNCHANGED queue
  /\ Release(p) /\ Return(p)
  /\ UNCHANGED <<requests, seen, wanted, monitored, library, released, flag,
                 rpc, rlist, ritem, faults, started, restarts>>
-----------------------------------------------------------------------------
(* next_retry_at passes.                                                   *)
BecomeDue(r) ==
  /\ r \in queue /\ ~r.due
  /\ queue' = (queue \ {r}) \cup {[r EXCEPT !.due = TRUE]}
  /\ UNCHANGED <<requests, seen, wanted, monitored, library, released, memory, history>>

DueRows == {r \in queue : r.due}

(* run_due reads the due rows, then the budget through an attribute of     *)
(* torbox; with no such attribute it raises before it takes a row.         *)
RunDue ==
  /\ JobsFire /\ BudgetAttr
  /\ pc[Retrier] = "idle" /\ DueRows # {}
  /\ due' = DueRows
  /\ Goto(Retrier, "loop")
  /\ UNCHANGED <<tables, library, released, flag, mutex, job, rpc, rlist, ritem, history>>

(* Faulty variant: the row stays in the table.                             *)
TakeDueKeepsRow ==
  /\ pc[Retrier] = "loop"
  /\ \E r \in due :
       /\ due' = due \ {r}
       /\ job' = [job EXCEPT ![Retrier] = NewJob(r.title, r.attempt)]
  /\ Goto(Retrier, "enter")
  /\ UNCHANGED <<requests, seen, queue, wanted, monitored, library, released, flag, mutex,
                 rpc, rlist, ritem, history>>

(* The row leaves the table, then process() runs inline.                   *)
TakeDue ==
  /\ pc[Retrier] = "loop"
  /\ \E r \in due :
       /\ due' = due \ {r}
       /\ queue' = queue \ {r}
       /\ job' = [job EXCEPT ![Retrier] = NewJob(r.title, r.attempt)]
  /\ Goto(Retrier, "enter")
  /\ UNCHANGED <<requests, seen, wanted, monitored, library, released, flag, mutex,
                 rpc, rlist, ritem, history>>

(* The list is through, or the budget is gone and the rest stays queued.   *)
EndDue ==
  /\ pc[Retrier] = "loop"
  /\ \/ due = {} /\ UNCHANGED faults
     \/ due # {} /\ Fault
  /\ due' = {}
  /\ Goto(Retrier, "idle")
  /\ UNCHANGED <<tables, library, released, flag, mutex, job, rpc, rlist, ritem,
                 started, ended, restarts>>
-----------------------------------------------------------------------------
(* upgrader.recheck_wanted, scheduled or from the UI, takes no mutex.      *)
RecheckStart ==
  /\ rpc = "idle" /\ wanted # {}
  /\ rlist' = wanted
  /\ rpc' = "next"
  /\ UNCHANGED <<tables, library, released, flag, mutex, pc, job, due, ritem, history>>

RecheckNext ==
  /\ rpc = "next"
  /\ \E x \in rlist :
       /\ ritem' = x
       /\ rlist' = rlist \ {x}
  /\ rpc' = "search"
  /\ UNCHANGED <<tables, library, released, flag, mutex, pc, job, due, history>>

(* Faulty variant: a wanted title is searched as a series.                 *)
RecheckSearchAsSeries ==
  /\ rpc = "search"
  /\ \/ /\ ritem \in Series /\ <<ritem, 1>> \in released
        /\ library' = library \cup {<<ritem, 1>>}
        /\ rpc' = "found"
        /\ UNCHANGED <<flag, rlist, faults>>
     \/ /\ ritem \in Movies \/ <<ritem, 1>> \notin released
        /\ flag' = flag \cup {ritem}
        /\ rpc' = "pop"
        /\ UNCHANGED <<library, rlist, faults>>
     \/ /\ Fault
        /\ \/ rpc' = "next" /\ UNCHANGED rlist
           \/ Eager /\ rpc' = "pop" /\ UNCHANGED rlist
           \/ rpc' = "next" /\ rlist' = {}
        /\ UNCHANGED <<library, flag>>
  /\ UNCHANGED <<tables, released, mutex, pc, job, due, ritem, started, ended, restarts>>

(* Every wanted title is searched as a movie, a series too.  RateLimited   *)
(* and a low budget end the round, another exception the title.            *)
RecheckSearch ==
  /\ rpc = "search"
  /\ \/ /\ ritem \in Movies /\ <<ritem, 1>> \in released
        /\ library' = library \cup {<<ritem, 1>>}
        /\ rpc' = "found"
        /\ UNCHANGED <<flag, rlist, faults>>
     \/ /\ ritem \in Series \/ <<ritem, 1>> \notin released
        /\ flag' = flag \cup {ritem}
        /\ rpc' = "pop"
        /\ UNCHANGED <<library, rlist, faults>>
     \/ /\ Fault
        /\ \/ rpc' = "next" /\ UNCHANGED rlist
           \/ Eager /\ rpc' = "pop" /\ UNCHANGED rlist
           \/ rpc' = "next" /\ rlist' = {}
        /\ UNCHANGED <<library, flag>>
  /\ UNCHANGED <<tables, released, mutex, pc, job, due, ritem, started, ended, restarts>>

RecheckFound ==
  /\ rpc = "found"
  /\ wanted' = wanted \ {ritem}
  /\ rpc' = "pop"
  /\ UNCHANGED <<requests, seen, queue, monitored, library, released, flag, mutex,
                 pc, job, due, rlist, ritem, history>>

(* Faulty variant: a recheck in vain takes the title off the list.         *)
RecheckPopForgets ==
  /\ rpc = "pop"
  /\ flag' = flag \ {ritem}
  /\ wanted' = wanted \ {ritem}
  /\ rpc' = "next"
  /\ UNCHANGED <<requests, seen, queue, monitored, library, released, mutex, pc, job,
                 due, rlist, ritem, history>>

RecheckPop ==
  /\ rpc = "pop"
  /\ flag' = flag \ {ritem}
  /\ rpc' = "next"
  /\ UNCHANGED <<tables, library, released, mutex, pc, job, due, rlist, ritem, history>>

RecheckEnd ==
  /\ rpc = "next" /\ rlist = {}
  /\ rpc' = "idle"
  /\ ritem' = NoRow
  /\ UNCHANGED <<tables, library, released, flag, mutex, pc, job, due, rlist, history>>

(* db.reconcile_wanted_movies, whenever the movie view is opened.          *)
Reconcile ==
  /\ Lazy
  /\ \E x \in Movies : requests[x] = "wanted" /\ <<x, 1>> \in library
  /\ requests' = [x \in Titles |->
       IF x \in Movies /\ requests[x] = "wanted" /\ <<x, 1>> \in library
       THEN "success" ELSE requests[x]]
  /\ UNCHANGED <<seen, queue, wanted, monitored, library, released, memory, history>>
-----------------------------------------------------------------------------
(* A release of one part appears (and gets cached).                        *)
Appear(part) ==
  /\ part \notin released
  /\ released' = released \cup {part}
  /\ UNCHANGED <<tables, library, memory, history>>

(* Every thread dies with the process; the tables stay.                    *)
Restart ==
  /\ restarts < MaxRestarts
  /\ restarts' = restarts + 1
  /\ flag' = {}
  /\ mutex' = [x \in Titles |-> NoThread]
  /\ pc' = [p \in Threads |-> "idle"]
  /\ job' = [p \in Threads |-> NoJob]
  /\ due' = {}
  /\ rpc' = "idle" /\ rlist' = {} /\ ritem' = NoRow
  /\ UNCHANGED <<tables, library, released, faults, started, ended>>

ProcessStep(p) ==
  \/ Enter(p) \/ EnterBusy(p) \/ Insert(p) \/ Search(p) \/ Verdict(p)
  \/ Unwant(p) \/ PopWanted(p) \/ PopWantedRaises(p) \/ Mark(p)
  \/ Leave(p) \/ UpsertWanted(p) \/ Schedule(p)
RetryStep == RunDue \/ TakeDue \/ EndDue
RecheckStep == \/ RecheckStart \/ RecheckNext \/ RecheckSearch
               \/ RecheckFound \/ RecheckPop \/ RecheckEnd
UserStep ==
  \/ \E p \in Workers, x \in Titles :
       Webhook(p, x) \/ Submit(p, x) \/ RetryRequest(p, x)
  \/ \E x \in Titles : DeleteRequest(x)
  \/ Reconcile

Next ==
  \/ UserStep
  \/ \E p \in Threads : ProcessStep(p)
  \/ RetryStep \/ RecheckStep
  \/ \E r \in queue : BecomeDue(r)
  \/ PruneWebhooks
  \/ \E part \in Parts : Appear(part)
  \/ Restart

Spec == Init /\ [][Next]_vars

(* Running threads are scheduled, clocks advance, and run_due, were its    *)
(* job to fire, does so again and again.  No request is ever sure to come, *)
(* neither is a recheck.                                                   *)
Fairness ==
  /\ \A p \in Threads : WF_vars(ProcessStep(p))
  /\ WF_vars(RetryStep)
  /\ WF_vars(RecheckStep /\ rpc # "idle")
  /\ WF_vars(\E r \in queue : BecomeDue(r))

FairSpec == Spec /\ Fairness
-----------------------------------------------------------------------------
Places == {"idle", "enter", "insert", "search", "unwant", "popwanted", "mark",
           "leave", "upsert", "schedule", "loop"}

(* The variables hold values of their kinds.                               *)
TypeOK ==
  /\ requests \in [Titles -> Statuses]
  /\ seen \subseteq Titles /\ wanted \subseteq Titles /\ flag \subseteq Titles
  /\ monitored \subseteq Series
  /\ queue \subseteq Row /\ due \subseteq Row
  /\ library \subseteq Parts /\ released \subseteq Parts
  /\ mutex \in [Titles -> Threads \cup {NoThread}]
  /\ pc \in [Threads -> Places]
  /\ job \in [Threads -> Job]
  /\ rpc \in {"idle", "next", "search", "found", "pop"}
  /\ rlist \subseteq Titles /\ ritem \in Titles \cup {NoRow}
  /\ faults \in Nat /\ restarts \in Nat
  /\ started \in [Titles -> Nat] /\ ended \in [Titles -> Nat]

Processing(p) == pc[p] \notin {"idle", "enter", "loop"}
Within(p, x) == pc[p] \notin {"idle", "loop"} /\ job[p].title = x
RowsOf(x) == {r \in queue : r.title = x}
InFlight(x) == {p \in Threads : Within(p, x)}

(* "the same item never enters processor.process() twice in parallel"      *)
(* (locks.py:3): two threads inside _process_locked work on two titles,    *)
(* and each of them holds its title's lock.                                *)
OneProcessorPerTitle ==
  /\ \A p \in Threads : Processing(p) => mutex[job[p].title] = p
  /\ \A p, q \in Threads :
       Processing(p) /\ Processing(q) /\ p # q => job[p].title # job[q].title

(* A request is at any time in one place: in a thread, in one row of the   *)
(* retry queue, or at its end.  Retries never fork (a collision on the     *)
(* mutex puts back one row for the one it took), and only a restart of the *)
(* process loses one.                                                      *)
RequestsConserved ==
  \A x \in Titles :
    LET accounted == ended[x] + Cardinality(RowsOf(x)) + Cardinality(InFlight(x))
    IN  accounted <= started[x] /\ (restarts = 0 => accounted = started[x])

(* A request ends only with something added, with the title on the wanted  *)
(* list, or after the last attempt of the backoff: also when the recheck   *)
(* pops the shared flag between the verdict's test and its own pop.        *)
EndsSettled ==
  [][\A x \in Titles : ended'[x] > ended[x] =>
       \/ x \in wanted' \/ \E i \in 1 .. Seasons : <<x, i>> \in library
       \/ \E p \in Threads : /\ pc[p] = "schedule" /\ job[p].title = x
                             /\ job[p].attempt = MaxAttempts]_vars

(* A title leaves the wanted list only when something of it was added,     *)
(* whichever of process() and recheck_wanted takes it off.                 *)
WantedUntilAdded ==
  [][\A x \in wanted \ wanted' : \E i \in 1 .. Seasons : <<x, i>> \in library]_vars

(* The pipeline does what RequestLedger promises: a request waits in a row *)
(* of the queue or in a thread in front of the mutex, and a title is tried *)
(* at the attempt of the thread that holds its lock.                       *)
RowTicket(r) == [at |-> <<"row", r.id>>, title |-> r.title, attempt |-> r.attempt]
ThreadTicket(p) ==
  [at |-> <<"thread", p>>, title |-> job[p].title, attempt |-> job[p].attempt]
Tickets == {RowTicket(r) : r \in queue}
           \cup {ThreadTicket(p) : p \in {q \in Threads : pc[q] = "enter"}}
TicketPlaces == ({"row"} \X RowIds) \cup ({"thread"} \X Threads)
Tried == [x \in Titles |-> IF mutex[x] = NoThread THEN -1 ELSE job[mutex[x]].attempt]

Ledger == INSTANCE RequestLedger WITH
  Places <- TicketPlaces, waiting <- Tickets, trying <- Tried, settled <- ended
ImplementsLedger == Ledger!Spec

(* "Per-IMDB mutex prevents double-processing" (README.md:177): no title   *)
(* is searched and added by process() and by the recheck at once.          *)
NoDoubleProcessing ==
  \A p \in Threads : ~(pc[p] = "search" /\ rpc = "search" /\ job[p].title = ritem)

(* What process() and the recheck note in _WANTED is transient: no flag is *)
(* left when neither works on the title ("so it doesn't leak",             *)
(* upgrader.py:253).                                                       *)
NoLeakedWantedFlag ==
  \A x \in flag : ritem = x \/ \E p \in Threads : Processing(p) /\ job[p].title = x

(* "surfaced into the requests.error column so the UI can show why         *)
(* something failed" (processor.py:22-23): once a verdict is written, the  *)
(* title's own row shows it.                                               *)
VerdictIsShown ==
  [][\A p \in Threads :
       LET j == job[p] IN
       pc[p] = "mark" /\ pc'[p] # "mark" /\ pc'[p] # "idle"
         /\ requests[j.title] # "none"
         => requests'[j.title] = j.status]_vars

(* "A scheduler picks up due items every RETRY_QUEUE_INTERVAL_MINUTES and  *)
(* re-runs processor.process for them" (retry_queue.py:4-5): without       *)
(* restarts every accepted request gets its final verdict.                 *)
AcceptedGetsVerdict ==
  \A x \in Titles : []<>(restarts > 0 \/ ended[x] = started[x])

(* Whatever way an attempt ends (a verdict, a retry, a collision, a call   *)
(* that raises, the KeyError of a flag the recheck has popped), its thread *)
(* leaves the title and gives the lock back, so that it can be tried again *)
(* (locks.py:43-45).                                                       *)
AttemptsEnd == \A x \in Titles : []<>(mutex[x] = NoThread /\ InFlight(x) = {})

(* "rechecked periodically rather than being marked permanently failed"    *)
(* (processor.py:27-28): a wanted title all of whose parts have a release  *)
(* is added at last, if the recheck is started again and again (the job is *)
(* paused, the UI has a button for it, app.py:2054).                       *)
AllReleased(x) == \A i \in 1 .. PartsOf(x) : <<x, i>> \in released
SomeAdded(x) == \E i \in 1 .. PartsOf(x) : <<x, i>> \in library
RecheckedAgain == []<><<RecheckStart>>_vars
WantedMovieIsFound ==
  RecheckedAgain => \A x \in Movies : (x \in wanted /\ AllReleased(x)) ~> SomeAdded(x)
WantedSeriesIsFound ==
  RecheckedAgain => \A x \in Series : (x \in wanted /\ AllReleased(x)) ~> SomeAdded(x)
=============================================================================
