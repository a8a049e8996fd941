------------------------ MODULE RequestPipelineProofs ------------------------
(***************************************************************************)
(* Theorems about RequestPipeline for every set of titles and threads and  *)
(* every setting of the switches.                                          *)
(***************************************************************************)
EXTENDS RequestPipeline, TLAPS

(* The jobs that process() is started with are typed.                      *)
LEMMA JobType == \A x \in Titles, n \in Attempts : NewJob(x, n) \in Job
<1>1. 1 \in 1 .. Seasons + 1
  BY PipelineNumbers
<1> QED
  BY <1>1 DEF NewJob, Job, Statuses

LEMMA NoJobType == NoJob \in Job
<1>1. (CHOOSE x \in Titles : TRUE) \in Titles
  BY NamesAssumption
<1>2. 0 \in Attempts
  BY PipelineNumbers DEF Attempts
<1> QED
  BY <1>1, <1>2, JobType DEF NoJob

(* db.enqueue_retry adds a row.                                            *)
LEMMA EnqueueType ==
  ASSUME queue \subseteq Row, NEW x \in Titles, NEW n \in Attempts, Enqueue(x, n)
  PROVE  queue' \subseteq Row
<1>1. (CHOOSE i \in FreeIds : TRUE) \in RowIds
  BY DEF Enqueue, FreeIds
<1> DEFINE r == [id |-> CHOOSE i \in FreeIds : TRUE,
                 title |-> x, attempt |-> n, due |-> FALSE]
<1>2. r \in Row
  BY <1>1 DEF Row
<1>3. queue' = queue \cup {r}
  BY Zenon DEF Enqueue
<1> QED
  BY <1>2, <1>3

(* The recheck has a title in hand when it searches one: the part of the   *)
(* type invariant that keeps NoRow out of the flags.                       *)
TypeInv == TypeOK /\ (rpc \notin {"idle", "next"} => ritem \in Titles)

LEMMA TypeInit == Init => TypeInv
<1> SUFFICES ASSUME Init PROVE TypeInv
  BY DEF TypeInv
<1>1. job \in [Threads -> Job]
  BY NoJobType DEF Init
<1>2. requests \in [Titles -> Statuses] /\ pc \in [Threads -> Places]
  BY DEF Init, Statuses, Places
<1> QED
  BY <1>1, <1>2 DEF Init, TypeOK, TypeInv

LEMMA TypeStep == TypeInv /\ [Next]_vars => TypeInv'
<1> SUFFICES ASSUME TypeInv, [Next]_vars
             PROVE  TypeInv'
  OBVIOUS
<1> USE NamesAssumption, PipelineNumbers, NoJobType
<1>1. ASSUME NEW p \in Workers, NEW x \in Titles, Webhook(p, x) PROVE TypeInv'
  BY <1>1, JobType
   DEF TypeInv, TypeOK, tables, memory, history, Webhook, Spawn, Goto,
       Attempts, Places, Statuses, Threads
<1>2. ASSUME NEW p \in Workers, NEW x \in Titles, Submit(p, x) PROVE TypeInv'
  BY <1>2, JobType
   DEF TypeInv, TypeOK, tables, memory, history, Submit, Spawn, Goto,
       Attempts, Places, Statuses, Threads
<1>3. ASSUME NEW p \in Workers, NEW x \in Titles, RetryRequest(p, x) PROVE TypeInv'
  BY <1>3, JobType
   DEF TypeInv, TypeOK, tables, memory, history, RetryRequest, Spawn, Goto,
       Attempts, Places, Statuses, Threads
<1>4. ASSUME NEW x \in Titles, DeleteRequest(x) PROVE TypeInv'
  BY <1>4 DEF TypeInv, TypeOK, tables, memory, history, DeleteRequest, Statuses
<1>5. CASE Reconcile
  BY <1>5 DEF TypeInv, TypeOK, tables, memory, history, Reconcile, Statuses
<1>6. ASSUME NEW p \in Threads, EnterBusy(p) PROVE TypeInv'
  <2>1. job[p] \in Job
    BY DEF TypeInv, TypeOK
  <2>3. job' \in [Threads -> Job] /\ pc' \in [Threads -> Places]
    BY <1>6, <2>1 DEF TypeInv, TypeOK, EnterBusy, Goto, Job, Places, Return
  <2>4. /\ queue' \subseteq Row
        /\ due' \subseteq Row
    BY <1>6, <2>1, EnqueueType DEF TypeInv, TypeOK, EnterBusy, Job, Return
  <2>5. UNCHANGED <<requests, seen, wanted, monitored, library, released, flag,
                    mutex, rpc, rlist, ritem, faults, started, ended, restarts>>
    BY <1>6, Zenon DEF EnterBusy, tables, history
  <2> QED
    BY <2>3, <2>4, <2>5 DEF TypeInv, TypeOK
<1>7. ASSUME NEW p \in Threads, Enter(p) PROVE TypeInv'
  <2>1. job[p] \in Job
    BY DEF TypeInv, TypeOK
  <2>3. job' \in [Threads -> Job] /\ pc' \in [Threads -> Places]
    BY <1>7, <2>1 DEF TypeInv, TypeOK, Enter, Goto, Job, Places
  <2>4. /\ mutex' \in [Titles -> Threads \cup {NoThread}]
    BY <1>7, <2>1 DEF TypeInv, TypeOK, Enter, Job
  <2>5. UNCHANGED <<requests, seen, queue, wanted, monitored, library,
                    released, flag, due, rpc, rlist, ritem, faults, started,
                    ended, restarts>>
    BY <1>7, Zenon DEF Enter, tables, history
  <2> QED
    BY <2>3, <2>4, <2>5 DEF TypeInv, TypeOK
<1>8. ASSUME NEW p \in Threads, Insert(p) PROVE TypeInv'
  <2>1. job[p] \in Job
    BY DEF TypeInv, TypeOK
  <2>3. job' \in [Threads -> Job] /\ pc' \in [Threads -> Places]
    BY <1>8, <2>1 DEF TypeInv, TypeOK, Insert, Goto, Job, Places, Statuses
  <2>4. /\ requests' \in [Titles -> Statuses]
    BY <1>8, <2>1 DEF TypeInv, TypeOK, Insert, Job, Statuses
  <2>5. UNCHANGED <<seen, queue, wanted, monitored, library, released, flag,
                    mutex, due, rpc, rlist, ritem, faults, started, ended,
                    restarts>>
    BY <1>8, Zenon DEF Insert, tables, history
  <2> QED
    BY <2>3, <2>4, <2>5 DEF TypeInv, TypeOK
<1>9. ASSUME NEW p \in Threads, Search(p) PROVE TypeInv'
  <2>1. job[p] \in Job
    BY DEF TypeInv, TypeOK
  <2>2. job[p].part \in 1 .. Seasons /\ <<job[p].title, job[p].part>> \in Parts
    BY <1>9, <2>1 DEF Search, Job, Parts, PartsOf
  <2>3. job' \in [Threads -> Job] /\ pc' \in [Threads -> Places]
    BY <1>9, <2>1, <2>2, SMTT(30)
     DEF TypeInv, TypeOK, Search, Goto, Job, Places, Statuses, Fault
  <2>4. /\ library' \subseteq Parts
        /\ flag' \subseteq Titles
        /\ faults' \in Nat
    BY <1>9, <2>1, <2>2, SMTT(30) DEF TypeInv, TypeOK, Search, Job, Statuses, Fault
  <2>5. UNCHANGED <<requests, seen, queue, wanted, monitored, released, mutex,
                    due, rpc, rlist, ritem, started, ended, restarts>>
    BY <1>9, Zenon DEF Search, tables, history
  <2> QED
    BY <2>3, <2>4, <2>5 DEF TypeInv, TypeOK
<1>10. ASSUME NEW p \in Threads, Verdict(p) PROVE TypeInv'
  <2>1. job[p] \in Job
    BY DEF TypeInv, TypeOK
  <2>3. job' \in [Threads -> Job] /\ pc' \in [Threads -> Places]
    BY <1>10, <2>1, SMTT(30)
     DEF TypeInv, TypeOK, Verdict, Goto, Job, Places, Statuses
  <2>4. /\ flag' \subseteq Titles
    BY <1>10, <2>1 DEF TypeInv, TypeOK, Verdict, Job, Statuses
  <2>5. UNCHANGED <<requests, seen, queue, wanted, monitored, library,
                    released, mutex, due, rpc, rlist, ritem, faults, started,
                    ended, restarts>>
    BY <1>10, Zenon DEF Verdict, tables, history
  <2> QED
    BY <2>3, <2>4, <2>5 DEF TypeInv, TypeOK
<1>11. ASSUME NEW p \in Threads, Unwant(p) PROVE TypeInv'
  <2>1. job[p] \in Job
    BY DEF TypeInv, TypeOK
  <2>3. job' \in [Threads -> Job] /\ pc' \in [Threads -> Places]
    BY <1>11, <2>1 DEF TypeInv, TypeOK, Unwant, Goto, Job, Places
  <2>4. /\ wanted' \subseteq Titles
    BY <1>11, <2>1 DEF TypeInv, TypeOK, Unwant, Job
  <2>5. UNCHANGED <<requests, seen, queue, monitored, library, released, flag,
                    mutex, due, rpc, rlist, ritem, faults, started, ended,
                    restarts>>
    BY <1>11, Zenon DEF Unwant, tables, history
  <2> QED
    BY <2>3, <2>4, <2>5 DEF TypeInv, TypeOK
<1>12. ASSUME NEW p \in Threads, PopWanted(p) PROVE TypeInv'
  <2>1. job[p] \in Job
    BY DEF TypeInv, TypeOK
  <2>3. job' \in [Threads -> Job] /\ pc' \in [Threads -> Places]
    BY <1>12, <2>1 DEF TypeInv, TypeOK, PopWanted, Goto, Job, Places, Statuses
  <2>4. /\ flag' \subseteq Titles
    BY <1>12, <2>1 DEF TypeInv, TypeOK, PopWanted, Job, Statuses
  <2>5. UNCHANGED <<requests, seen, queue, wanted, monitored, library,
                    released, mutex, due, rpc, rlist, ritem, faults, started,
                    ended, restarts>>
    BY <1>12, Zenon DEF PopWanted, tables, history
  <2> QED
    BY <2>3, <2>4, <2>5 DEF TypeInv, TypeOK
<1>13. ASSUME NEW p \in Threads, PopWantedRaises(p) PROVE TypeInv'
  <2>1. job[p] \in Job
    BY DEF TypeInv, TypeOK
  <2>3. job' \in [Threads -> Job] /\ pc' \in [Threads -> Places]
    BY <1>13, <2>1
     DEF TypeInv, TypeOK, PopWantedRaises, Goto, Job, Places, Raise, Release,
         End
  <2>4. /\ mutex' \in [Titles -> Threads \cup {NoThread}]
        /\ due' \subseteq Row
        /\ ended' \in [Titles -> Nat]
    BY <1>13, <2>1 DEF TypeInv, TypeOK, PopWantedRaises, Job, Raise, Release, End
  <2>5. UNCHANGED <<requests, seen, queue, wanted, monitored, library,
                    released, flag, rpc, rlist, ritem, faults, started,
                    restarts>>
    BY <1>13, Zenon DEF PopWantedRaises, tables, history
  <2> QED
    BY <2>3, <2>4, <2>5 DEF TypeInv, TypeOK
<1>14. ASSUME NEW p \in Threads, Mark(p) PROVE TypeInv'
  <2>1. job[p] \in Job
    BY DEF TypeInv, TypeOK
  <2>2. pc' \in [Threads -> Places] /\ UNCHANGED job
    BY <1>14 DEF TypeInv, TypeOK, Mark, Goto, Places
  <2>3. job' \in [Threads -> Job]
    BY <2>2, Zenon DEF TypeInv, TypeOK
  <2>4. /\ requests' \in [Titles -> Statuses]
        /\ monitored' \subseteq Series
    BY <1>14, <2>1 DEF TypeInv, TypeOK, Mark, Job, Statuses
  <2>5. UNCHANGED <<seen, queue, wanted, library, released, flag, mutex, due,
                    rpc, rlist, ritem, faults, started, ended, restarts>>
    BY <1>14, Zenon DEF Mark, tables, history
  <2> QED
    BY <2>2, <2>3, <2>4, <2>5 DEF TypeInv, TypeOK
<1>15. ASSUME NEW p \in Threads, Leave(p) PROVE TypeInv'
  <2>1. job[p] \in Job
    BY DEF TypeInv, TypeOK
  <2>3. job' \in [Threads -> Job] /\ pc' \in [Threads -> Places]
    BY <1>15, <2>1, SMTT(30)
     DEF TypeInv, TypeOK, Leave, Goto, Job, Places, Return, Raise, Release,
         End, Fault
  <2>4. /\ mutex' \in [Titles -> Threads \cup {NoThread}]
        /\ due' \subseteq Row
        /\ ended' \in [Titles -> Nat]
        /\ faults' \in Nat
    BY <1>15, <2>1
     DEF TypeInv, TypeOK, Leave, Job, Return, Raise, Release, End, Fault
  <2>5. UNCHANGED <<requests, seen, queue, wanted, monitored, library,
                    released, flag, rpc, rlist, ritem, started, restarts>>
    BY <1>15, Zenon DEF Leave, tables, history
  <2> QED
    BY <2>3, <2>4, <2>5 DEF TypeInv, TypeOK
<1>16. ASSUME NEW p \in Threads, UpsertWanted(p) PROVE TypeInv'
  <2>1. job[p] \in Job
    BY DEF TypeInv, TypeOK
  <2>3. job' \in [Threads -> Job] /\ pc' \in [Threads -> Places]
    BY <1>16, <2>1
     DEF TypeInv, TypeOK, UpsertWanted, Goto, Job, Places, Return, Release,
         End
  <2>4. /\ wanted' \subseteq Titles
        /\ mutex' \in [Titles -> Threads \cup {NoThread}]
        /\ due' \subseteq Row
        /\ ended' \in [Titles -> Nat]
    BY <1>16, <2>1 DEF TypeInv, TypeOK, UpsertWanted, Job, Return, Release, End
  <2>5. UNCHANGED <<requests, seen, queue, monitored, library, released, flag,
                    rpc, rlist, ritem, faults, started, restarts>>
    BY <1>16, Zenon DEF UpsertWanted, tables, history
  <2> QED
    BY <2>3, <2>4, <2>5 DEF TypeInv, TypeOK
<1>17. ASSUME NEW p \in Threads, Schedule(p) PROVE TypeInv'
  <2>1. job[p] \in Job
    BY DEF TypeInv, TypeOK
  <2>3. job' \in [Threads -> Job] /\ pc' \in [Threads -> Places]
    BY <1>17, <2>1
     DEF TypeInv, TypeOK, Schedule, Goto, Job, Places, Return, Release, End,
         Attempts
  <2>4. /\ queue' \subseteq Row
        /\ mutex' \in [Titles -> Threads \cup {NoThread}]
        /\ due' \subseteq Row
        /\ ended' \in [Titles -> Nat]
    BY <1>17, <2>1, EnqueueType
     DEF TypeInv, TypeOK, Schedule, Job, Return, Release, End, Attempts
  <2>5. UNCHANGED <<requests, seen, wanted, monitored, library, released, flag,
                    rpc, rlist, ritem, faults, started, restarts>>
    BY <1>17, Zenon DEF Schedule, tables, history
  <2> QED
    BY <2>3, <2>4, <2>5 DEF TypeInv, TypeOK
<1>18. CASE RunDue
  BY <1>18
   DEF TypeInv, TypeOK, tables, memory, history, RunDue, DueRows, Goto,
       Places, Threads
<1>19. CASE TakeDue
  BY <1>19, JobType
   DEF TypeInv, TypeOK, tables, memory, history, TakeDue, Goto, Places,
       Threads, Row
<1>20. CASE EndDue
  BY <1>20
   DEF TypeInv, TypeOK, tables, memory, history, EndDue, Goto, Places,
       Threads, Fault
<1>21. CASE RecheckStart
  BY <1>21 DEF TypeInv, TypeOK, tables, memory, history, RecheckStart
<1>22. CASE RecheckNext
  BY <1>22 DEF TypeInv, TypeOK, tables, memory, history, RecheckNext
<1>23. CASE RecheckSearch
  BY <1>23
   DEF TypeInv, TypeOK, tables, memory, history, RecheckSearch, Fault, Parts,
       PartsOf, Titles
<1>24. CASE RecheckFound
  BY <1>24 DEF TypeInv, TypeOK, tables, memory, history, RecheckFound
<1>25. CASE RecheckPop
  BY <1>25 DEF TypeInv, TypeOK, tables, memory, history, RecheckPop
<1>26. CASE RecheckEnd
  BY <1>26 DEF TypeInv, TypeOK, tables, memory, history, RecheckEnd
<1>27. ASSUME NEW r \in queue, BecomeDue(r) PROVE TypeInv'
  BY <1>27 DEF TypeInv, TypeOK, tables, memory, history, BecomeDue, Row
<1>28. CASE PruneWebhooks
  BY <1>28 DEF TypeInv, TypeOK, tables, memory, history, PruneWebhooks
<1>29. ASSUME NEW part \in Parts, Appear(part) PROVE TypeInv'
  BY <1>29 DEF TypeInv, TypeOK, tables, memory, history, Appear
<1>30. CASE Restart
  BY <1>30 DEF TypeInv, TypeOK, tables, memory, history, Restart, Places
<1>31. CASE UNCHANGED vars
  BY <1>31 DEF TypeInv, TypeOK, tables, memory, history, vars
<1> QED
  BY <1>1, <1>2, <1>3, <1>4, <1>5, <1>6, <1>7, <1>8, <1>9, <1>10, <1>11,
     <1>12, <1>13, <1>14, <1>15, <1>16, <1>17, <1>18, <1>19, <1>20, <1>21,
     <1>22, <1>23, <1>24, <1>25, <1>26, <1>27, <1>28, <1>29, <1>30, <1>31
   DEF Next, UserStep, ProcessStep, RetryStep, RecheckStep

(* Every variable keeps its type, whatever the threads, the recheck, the   *)
(* users and restarts do.                                                  *)
THEOREM TypeCorrect == Spec => []TypeOK
<1>1. TypeInv => TypeOK
  BY DEF TypeInv
<1> QED
  BY <1>1, TypeInit, TypeStep, PTL DEF Spec
-----------------------------------------------------------------------------
(* The kinds of step: of a thread, of the retry queue, of the recheck, a   *)
(* restart, and those that leave the memory, the library, the wanted list  *)
(* and the ends alone.                                                     *)
LEMMA StepKinds ==
  [Next]_vars =>
    \/ \E p \in Workers, x \in Titles : Spawn(p, x)
    \/ \E p \in Threads : ProcessStep(p)
    \/ RetryStep \/ RecheckStep \/ Restart
    \/ UNCHANGED memory /\ UNCHANGED <<wanted, library, ended>>
<1> SUFFICES ASSUME Next \/ UNCHANGED vars
             PROVE  \/ \E p \in Workers, x \in Titles : Spawn(p, x)
                    \/ \E p \in Threads : ProcessStep(p)
                    \/ RetryStep \/ RecheckStep \/ Restart
                    \/ UNCHANGED memory /\ UNCHANGED <<wanted, library, ended>>
  OBVIOUS
<1>1. CASE UserStep
  BY <1>1, Zenon DEF UserStep, Webhook, Submit, RetryRequest, DeleteRequest,
     Reconcile, history
<1>2. CASE (\E r \in queue : BecomeDue(r)) \/ PruneWebhooks
           \/ (\E part \in Parts : Appear(part))
  BY <1>2, Zenon DEF BecomeDue, PruneWebhooks, Appear, tables, history
<1>3. CASE UNCHANGED vars
  BY <1>3, Zenon DEF vars, tables, history
<1> QED
  BY <1>1, <1>2, <1>3, Zenon DEF Next

(* The inductive part of OneProcessorPerTitle: whoever is past the mutex   *)
(* holds it.  Two threads on one title would both hold its lock.           *)
LockInv == \A p \in Threads : Processing(p) => mutex[job[p].title] = p

LEMMA LockInit == Init => LockInv
BY DEF Init, LockInv, Processing

(* The steps of one thread that keep the locks: it stays on its title, and *)
(* is past the mutex after the step only when it was before.               *)
LEMMA LocalStep ==
  ASSUME TypeOK, LockInv, mutex' = mutex, NEW p \in Threads,
         \A q \in Threads \ {p} : pc'[q] = pc[q] /\ job'[q] = job[q],
         Processing(p)' => Processing(p) /\ job'[p].title = job[p].title
  PROVE  LockInv'
BY DEF LockInv, Processing

(* The steps that release: the thread leaves, its title's lock is free.    *)
LEMMA ReleaseStep ==
  ASSUME TypeOK, LockInv, NEW p \in Threads, Processing(p), Release(p),
         \A q \in Threads \ {p} : pc'[q] = pc[q] /\ job'[q] = job[q],
         ~Processing(p)'
  PROVE  LockInv'
<1> SUFFICES ASSUME NEW q \in Threads, Processing(q)'
             PROVE  mutex'[job'[q].title] = q
  BY DEF LockInv
<1>1. q # p /\ Processing(q) /\ job'[q] = job[q]
  BY DEF Processing
<1>2. mutex[job[q].title] = q /\ mutex[job[p].title] = p
  BY <1>1 DEF LockInv
<1>3. job[p].title \in Titles /\ job[q].title \in Titles
  BY DEF TypeOK, Job
<1> QED
  BY <1>1, <1>2, <1>3 DEF Release, TypeOK

LEMMA LockStep == TypeOK /\ LockInv /\ [Next]_vars => LockInv'
<1> SUFFICES ASSUME TypeOK, LockInv, [Next]_vars
             PROVE  LockInv'
  OBVIOUS
<1> USE NamesAssumption
<1>1. ASSUME NEW p \in Workers, NEW x \in Titles, Spawn(p, x) PROVE LockInv'
  <2>1. /\ mutex' = mutex /\ p \in Threads
        /\ \A q \in Threads \ {p} : pc'[q] = pc[q] /\ job'[q] = job[q]
        /\ Processing(p)' => Processing(p) /\ job'[p].title = job[p].title
    BY <1>1, SMTT(30) DEF Spawn, Threads, TypeOK, Job, Goto, Processing
  <2> QED
    BY <2>1, LocalStep
<1>2. CASE UNCHANGED memory
  BY <1>2 DEF memory, LockInv, Processing
<1>3. CASE RecheckStep
  BY <1>3, Zenon DEF RecheckStep, RecheckStart, RecheckNext, RecheckSearch,
     RecheckFound, RecheckPop, RecheckEnd, LockInv, Processing
<1>4. ASSUME NEW p \in Threads, Enter(p) PROVE LockInv'
  <2> SUFFICES ASSUME NEW q \in Threads, Processing(q)'
               PROVE  mutex'[job'[q].title] = q
    BY DEF LockInv
  <2>1. job' = job /\ job[p].title \in Titles /\ job[q].title \in Titles
    BY <1>4 DEF Enter, TypeOK, Job
  <2>2. mutex' = [mutex EXCEPT ![job[p].title] = p] /\ mutex[job[p].title] = NoThread
    BY <1>4 DEF Enter
  <2>3. CASE q = p
    BY <2>1, <2>2, <2>3 DEF TypeOK
  <2>4. CASE q # p
    <3>1. mutex[job[q].title] = q
      BY <1>4, <2>4 DEF Enter, Goto, Processing, LockInv, TypeOK
    <3> QED
      BY <2>1, <2>2, <3>1 DEF TypeOK
  <2> QED
    BY <2>3, <2>4
<1>5. ASSUME NEW p \in Threads, EnterBusy(p) PROVE LockInv'
  <2>1. /\ mutex' = mutex /\ p \in Threads
        /\ \A q \in Threads \ {p} : pc'[q] = pc[q] /\ job'[q] = job[q]
        /\ Processing(p)' => Processing(p) /\ job'[p].title = job[p].title
    BY <1>5, SMTT(30) DEF EnterBusy, Return, TypeOK, Job, Goto, Processing
  <2> QED
    BY <2>1, LocalStep
<1>6. ASSUME NEW p \in Threads, Insert(p) PROVE LockInv'
  <2>1. /\ mutex' = mutex /\ p \in Threads
        /\ \A q \in Threads \ {p} : pc'[q] = pc[q] /\ job'[q] = job[q]
        /\ Processing(p)' => Processing(p) /\ job'[p].title = job[p].title
    BY <1>6, SMTT(30) DEF Insert, TypeOK, Job, Goto, Processing
  <2> QED
    BY <2>1, LocalStep
<1>7. ASSUME NEW p \in Threads, Search(p) PROVE LockInv'
  <2>1. /\ mutex' = mutex /\ p \in Threads
        /\ \A q \in Threads \ {p} : pc'[q] = pc[q] /\ job'[q] = job[q]
        /\ Processing(p)' => Processing(p) /\ job'[p].title = job[p].title
    BY <1>7, SMTT(30) DEF Search, TypeOK, Job, Goto, Processing
  <2> QED
    BY <2>1, LocalStep
<1>8. ASSUME NEW p \in Threads, Verdict(p) PROVE LockInv'
  <2>1. /\ mutex' = mutex /\ p \in Threads
        /\ \A q \in Threads \ {p} : pc'[q] = pc[q] /\ job'[q] = job[q]
        /\ Processing(p)' => Processing(p) /\ job'[p].title = job[p].title
    BY <1>8, SMTT(30) DEF Verdict, TypeOK, Job, Goto, Processing
  <2> QED
    BY <2>1, LocalStep
<1>9. ASSUME NEW p \in Threads, Unwant(p) PROVE LockInv'
  <2>1. /\ mutex' = mutex /\ p \in Threads
        /\ \A q \in Threads \ {p} : pc'[q] = pc[q] /\ job'[q] = job[q]
        /\ Processing(p)' => Processing(p) /\ job'[p].title = job[p].title
    BY <1>9, SMTT(30) DEF Unwant, TypeOK, Job, Goto, Processing
  <2> QED
    BY <2>1, LocalStep
<1>10. ASSUME NEW p \in Threads, PopWanted(p) PROVE LockInv'
  <2>1. /\ mutex' = mutex /\ p \in Threads
        /\ \A q \in Threads \ {p} : pc'[q] = pc[q] /\ job'[q] = job[q]
        /\ Processing(p)' => Processing(p) /\ job'[p].title = job[p].title
    BY <1>10, SMTT(30) DEF PopWanted, TypeOK, Job, Goto, Processing
  <2> QED
    BY <2>1, LocalStep
<1>11. ASSUME NEW p \in Threads, Mark(p) PROVE LockInv'
  <2>1. /\ mutex' = mutex /\ p \in Threads
        /\ \A q \in Threads \ {p} : pc'[q] = pc[q] /\ job'[q] = job[q]
        /\ Processing(p)' => Processing(p) /\ job'[p].title = job[p].title
    BY <1>11, SMTT(30) DEF Mark, TypeOK, Job, Goto, Processing
  <2> QED
    BY <2>1, LocalStep
<1>12. ASSUME NEW p \in Threads, PopWantedRaises(p) PROVE LockInv'
  <2>1. /\ Processing(p) /\ Release(p) /\ ~Processing(p)'
        /\ \A q \in Threads \ {p} : pc'[q] = pc[q] /\ job'[q] = job[q]
    BY <1>12, SMTT(30) DEF PopWantedRaises, Raise, TypeOK, Goto, Processing
  <2> QED
    BY <2>1, ReleaseStep
<1>13. ASSUME NEW p \in Threads, Leave(p) PROVE LockInv'
  <2>1. /\ Processing(p) /\ Release(p) /\ ~Processing(p)'
        /\ \A q \in Threads \ {p} : pc'[q] = pc[q] /\ job'[q] = job[q]
    BY <1>13, SMTT(30) DEF Leave, Return, Raise, TypeOK, Goto, Processing
  <2> QED
    BY <2>1, ReleaseStep
<1>14. ASSUME NEW p \in Threads, UpsertWanted(p) PROVE LockInv'
  <2>1. /\ Processing(p) /\ Release(p) /\ ~Processing(p)'
        /\ \A q \in Threads \ {p} : pc'[q] = pc[q] /\ job'[q] = job[q]
    BY <1>14, SMTT(30) DEF UpsertWanted, Return, TypeOK, Goto, Processing
  <2> QED
    BY <2>1, ReleaseStep
<1>15. ASSUME NEW p \in Threads, Schedule(p) PROVE LockInv'
  <2>1. /\ Processing(p) /\ Release(p) /\ ~Processing(p)'
        /\ \A q \in Threads \ {p} : pc'[q] = pc[q] /\ job'[q] = job[q]
    BY <1>15, SMTT(30) DEF Schedule, Return, TypeOK, Goto, Processing
  <2> QED
    BY <2>1, ReleaseStep
<1>16. CASE RunDue
  <2>1. /\ mutex' = mutex /\ Retrier \in Threads
        /\ \A q \in Threads \ {Retrier} : pc'[q] = pc[q] /\ job'[q] = job[q]
        /\ Processing(Retrier)' => Processing(Retrier) /\ job'[Retrier].title = job[Retrier].title
    BY <1>16, SMTT(30) DEF RunDue, Threads, TypeOK, Job, Goto, Processing
  <2> QED
    BY <2>1, LocalStep
<1>17. CASE TakeDue
  <2>1. /\ mutex' = mutex /\ Retrier \in Threads
        /\ \A q \in Threads \ {Retrier} : pc'[q] = pc[q] /\ job'[q] = job[q]
        /\ Processing(Retrier)' => Processing(Retrier) /\ job'[Retrier].title = job[Retrier].title
    BY <1>17, SMTT(30) DEF TakeDue, Threads, TypeOK, Job, Goto, Processing
  <2> QED
    BY <2>1, LocalStep
<1>18. CASE EndDue
  <2>1. /\ mutex' = mutex /\ Retrier \in Threads
        /\ \A q \in Threads \ {Retrier} : pc'[q] = pc[q] /\ job'[q] = job[q]
        /\ Processing(Retrier)' => Processing(Retrier) /\ job'[Retrier].title = job[Retrier].title
    BY <1>18, SMTT(30) DEF EndDue, Threads, TypeOK, Job, Goto, Processing
  <2> QED
    BY <2>1, LocalStep
<1>19. CASE Restart
  BY <1>19 DEF Restart, LockInv, Processing
<1> QED
  BY <1>1, <1>2, <1>3, <1>4, <1>5, <1>6, <1>7, <1>8, <1>9, <1>10, <1>11,
     <1>12, <1>13, <1>14, <1>15, <1>16, <1>17, <1>18, <1>19,
     StepKinds DEF ProcessStep, RetryStep

(* The per-imdb mutex does its work: no two threads are inside             *)
(* _process_locked for one title, each holds its title's lock.             *)
THEOREM MutualExclusion == Spec => []OneProcessorPerTitle
<1>1. LockInv => OneProcessorPerTitle
  BY DEF LockInv, OneProcessorPerTitle
<1>2. Init /\ [][Next]_vars => []LockInv
  <2>1. TypeInv => TypeOK
    BY DEF TypeInv
  <2> QED
    BY <2>1, TypeInit, TypeStep, LockInit, LockStep, PTL
<1> QED
  BY <1>1, <1>2, PTL DEF Spec
-----------------------------------------------------------------------------
Something(x) == \E i \in 1 .. Seasons : <<x, i>> \in library
Settled(x) == x \in wanted \/ Something(x)

(* Why a request ends settled.  A thread that has seen a success has added *)
(* something; one that was told to pop the flag finds it, or the recheck   *)
(* took it, whose titles were wanted when it read the list.                *)
ThreadOf(p) ==
  /\ job[p].ok \/ job[p].status = "success" => Something(job[p].title)
  /\ pc[p] \in {"unwant", "leave"} => job[p].status = "success"
  /\ pc[p] = "popwanted" => job[p].title \in flag \/ Settled(job[p].title)
ThreadInv == \A p \in Threads : ThreadOf(p)
RecheckInv ==
  /\ \A x \in rlist : Settled(x)
  /\ rpc \notin {"idle", "next"} => Settled(ritem)
  /\ rpc = "found" => Something(ritem)

LEMMA SettledInit == Init => ThreadInv /\ RecheckInv
<1> SUFFICES ASSUME Init PROVE ThreadInv /\ RecheckInv
  OBVIOUS
<1>1. ASSUME NEW p \in Threads PROVE ThreadOf(p)
  BY DEF Init, ThreadOf, NoJob, NewJob
<1> QED
  BY <1>1 DEF Init, ThreadInv, RecheckInv

(* The library never shrinks.                                              *)
LEMMA LibraryGrows == [Next]_vars => library \subseteq library'
<1> SUFFICES ASSUME [Next]_vars PROVE library \subseteq library'
  OBVIOUS
<1>1. ASSUME NEW p \in Threads, Search(p) PROVE library \subseteq library'
  BY <1>1 DEF Search
<1>2. ASSUME NEW p \in Threads, ProcessStep(p), ~Search(p) PROVE library' = library
  BY <1>2, Zenon DEF ProcessStep, Enter, EnterBusy, Insert, Verdict, Unwant,
     PopWanted, PopWantedRaises, Mark, Leave, UpsertWanted, Schedule
<1>3. CASE RecheckStep
  BY <1>3 DEF RecheckStep, RecheckStart, RecheckNext, RecheckSearch,
     RecheckFound, RecheckPop, RecheckEnd
<1>4. CASE RetryStep \/ Restart \/ \E p \in Workers, x \in Titles : Spawn(p, x)
  BY <1>4, Zenon DEF RetryStep, RunDue, TakeDue, EndDue, Restart, Spawn
<1> QED
  BY <1>1, <1>2, <1>3, <1>4, StepKinds

(* What leaves the wanted list has had something added.                    *)
LEMMA WantedShrinks ==
  ThreadInv /\ RecheckInv /\ [Next]_vars => \A x \in wanted \ wanted' : Something(x)
<1> SUFFICES ASSUME ThreadInv, RecheckInv, [Next]_vars, NEW x \in wanted \ wanted'
             PROVE  Something(x)
  OBVIOUS
<1>1. ASSUME NEW p \in Threads, Unwant(p) PROVE Something(x)
  BY <1>1 DEF Unwant, ThreadInv, ThreadOf
<1>2. ASSUME NEW p \in Threads, ProcessStep(p), ~Unwant(p) PROVE FALSE
  <2>1. wanted' = wanted \/ wanted' = wanted \cup {job[p].title}
    BY <1>2, Zenon DEF ProcessStep, Enter, EnterBusy, Insert, Search, Verdict,
       PopWanted, PopWantedRaises, Mark, Leave, UpsertWanted, Schedule, tables
  <2> QED
    BY <2>1
<1>3. CASE RecheckFound
  BY <1>3 DEF RecheckFound, RecheckInv
<1>4. ASSUME \/ RecheckStep /\ ~RecheckFound
             \/ RetryStep \/ Restart \/ \E p \in Workers, y \in Titles : Spawn(p, y)
      PROVE  wanted' = wanted
  BY <1>4, Zenon
   DEF RecheckStep, RecheckStart, RecheckNext, RecheckSearch, RecheckPop,
     RecheckEnd, RetryStep, RunDue, TakeDue, EndDue, Restart, Spawn, tables
<1> QED
  BY <1>1, <1>2, <1>3, <1>4, StepKinds

(* Hence what is settled stays settled.                                    *)
Stays == \A x \in Titles : /\ Something(x) => Something(x)'
                           /\ Settled(x) => Settled(x)'

LEMMA SettledStays == ThreadInv /\ RecheckInv /\ [Next]_vars => Stays
BY LibraryGrows, WantedShrinks DEF Stays, Something, Settled

(* A step leaves the other threads' part of the invariant alone when their *)
(* flags stay.                                                             *)
LEMMA OtherThreads ==
  ASSUME TypeInv, ThreadInv, Stays, NEW P \in SUBSET Threads,
         \A q \in Threads \ P : pc'[q] = pc[q] /\ job'[q] = job[q],
         \A q \in Threads \ P : pc[q] = "popwanted" /\ job[q].title \in flag =>
                                  job[q].title \in flag' \/ Settled(job[q].title)',
         \A p \in P : ThreadOf(p)'
  PROVE  ThreadInv'
<1> SUFFICES ASSUME NEW q \in Threads \ P PROVE ThreadOf(q)'
  BY DEF ThreadInv
<1>1. ThreadOf(q) /\ job[q].title \in Titles
  BY DEF ThreadInv, TypeInv, TypeOK, Job
<1> QED
  BY <1>1 DEF ThreadOf, Stays

LEMMA RecheckSettled ==
  TypeInv /\ ThreadInv /\ RecheckInv /\ [Next]_vars => RecheckInv'
<1> SUFFICES ASSUME TypeInv, ThreadInv, RecheckInv, [Next]_vars
             PROVE  RecheckInv'
  OBVIOUS
<1>1. Stays
  BY SettledStays
<1>2. ASSUME UNCHANGED <<rlist, rpc, ritem>> PROVE RecheckInv'
  BY <1>1, <1>2 DEF RecheckInv, Stays, TypeInv, TypeOK
<1>3. CASE RecheckStart
  BY <1>3 DEF RecheckStart, tables, RecheckInv, Settled
<1>4. CASE RecheckNext
  BY <1>1, <1>4 DEF RecheckNext, RecheckInv, Stays, TypeInv, TypeOK
<1>5. CASE RecheckSearch
  <2>1. rlist' \subseteq rlist /\ ritem' = ritem /\ ritem \in Titles
    BY <1>5 DEF RecheckSearch, TypeInv
  <2>2. rpc' = "found" => Something(ritem)'
    <3>1. 1 \in 1 .. Seasons
      BY PipelineNumbers
    <3> QED
      BY <1>5, <3>1 DEF RecheckSearch, Something
  <2>3. rpc = "search"
    BY <1>5, Zenon DEF RecheckSearch
  <2> QED
    BY <1>1, <2>1, <2>2, <2>3 DEF RecheckInv, Stays, TypeInv, TypeOK
<1>6. CASE RecheckFound \/ RecheckPop \/ RecheckEnd
  BY <1>1, <1>6 DEF RecheckFound, RecheckPop, RecheckEnd, RecheckInv, Stays,
     TypeInv, TypeOK
<1>7. CASE Restart
  BY <1>7 DEF Restart, RecheckInv
<1>8. ASSUME NEW p \in Threads, ProcessStep(p) PROVE UNCHANGED <<rlist, rpc, ritem>>
  BY <1>8, Zenon DEF ProcessStep, Enter, EnterBusy, Insert, Search, Verdict, Unwant,
     PopWanted, PopWantedRaises, Mark, Leave, UpsertWanted, Schedule
<1>9. ASSUME RetryStep \/ UNCHANGED memory \/ \E p \in Workers, x \in Titles : Spawn(p, x)
      PROVE  UNCHANGED <<rlist, rpc, ritem>>
  BY <1>9, Zenon DEF RetryStep, RunDue, TakeDue, EndDue, memory, Spawn
<1> QED
  BY <1>2, <1>3, <1>4, <1>5, <1>6, <1>7, <1>8, <1>9, StepKinds DEF RecheckStep

LEMMA ThreadsSettled ==
  TypeInv /\ LockInv /\ ThreadInv /\ RecheckInv /\ [Next]_vars => ThreadInv'
<1> SUFFICES ASSUME TypeInv, LockInv, ThreadInv, RecheckInv, [Next]_vars
             PROVE  ThreadInv'
  OBVIOUS
<1> USE NamesAssumption
<1>1. Stays
  BY SettledStays
<1>2. \A p \in Threads : /\ ThreadOf(p) /\ job[p] \in Job /\ job[p].title \in Titles
                         /\ pc \in [Threads -> Places] /\ job \in [Threads -> Job]
  BY DEF ThreadInv, TypeInv, TypeOK, Job
<1>3. ASSUME UNCHANGED <<pc, job, flag>> PROVE ThreadInv'
  BY <1>1, <1>2, <1>3 DEF ThreadInv, ThreadOf, Stays
<1>4. ASSUME NEW p \in Workers, NEW x \in Titles, Spawn(p, x) PROVE ThreadInv'
  <2>1. /\ UNCHANGED flag /\ p \in Threads
        /\ \A q \in Threads \ {p} : pc'[q] = pc[q] /\ job'[q] = job[q]
    BY <1>4, <1>2 DEF Spawn, Goto, tables, Threads
  <2>2. ThreadOf(p)'
    BY <1>4, <1>1, <1>2
     DEF Spawn, Goto, ThreadOf, Stays, Job, Threads, NoJob, NewJob
  <2> QED
    BY <1>1, <2>1, <2>2, OtherThreads
<1>5. ASSUME NEW p \in Threads, Enter(p) PROVE ThreadInv'
  <2>1. /\ UNCHANGED flag /\ p \in Threads
        /\ \A q \in Threads \ {p} : pc'[q] = pc[q] /\ job'[q] = job[q]
    BY <1>5, <1>2 DEF Enter, Goto, tables, Threads
  <2>2. ThreadOf(p)'
    BY <1>5, <1>1, <1>2
     DEF Enter, Goto, ThreadOf, Stays, Job, Threads, NoJob, NewJob
  <2> QED
    BY <1>1, <2>1, <2>2, OtherThreads
<1>6. ASSUME NEW p \in Threads, EnterBusy(p) PROVE ThreadInv'
  <2>1. /\ UNCHANGED flag /\ p \in Threads
        /\ \A q \in Threads \ {p} : pc'[q] = pc[q] /\ job'[q] = job[q]
    BY <1>6, <1>2 DEF EnterBusy, Goto, tables, Return, Threads
  <2>2. ThreadOf(p)'
    BY <1>6, <1>1, <1>2
     DEF EnterBusy, Goto, Return, ThreadOf, Stays, Job, Threads, NoJob, NewJob
  <2> QED
    BY <1>1, <2>1, <2>2, OtherThreads
<1>7. ASSUME NEW p \in Threads, Insert(p) PROVE ThreadInv'
  <2>1. /\ UNCHANGED flag /\ p \in Threads
        /\ \A q \in Threads \ {p} : pc'[q] = pc[q] /\ job'[q] = job[q]
    BY <1>7, <1>2 DEF Insert, Goto, tables, Threads
  <2>2. ThreadOf(p)'
    BY <1>7, <1>1, <1>2
     DEF Insert, Goto, ThreadOf, Stays, Job, Threads, NoJob, NewJob
  <2> QED
    BY <1>1, <2>1, <2>2, OtherThreads
<1>8. ASSUME NEW p \in Threads, Unwant(p) PROVE ThreadInv'
  <2>1. /\ UNCHANGED flag /\ p \in Threads
        /\ \A q \in Threads \ {p} : pc'[q] = pc[q] /\ job'[q] = job[q]
    BY <1>8, <1>2 DEF Unwant, Goto, tables, Threads
  <2>2. ThreadOf(p)'
    BY <1>8, <1>1, <1>2
     DEF Unwant, Goto, ThreadOf, Stays, Job, Threads, NoJob, NewJob
  <2> QED
    BY <1>1, <2>1, <2>2, OtherThreads
<1>9. ASSUME NEW p \in Threads, Mark(p) PROVE ThreadInv'
  <2>1. /\ UNCHANGED flag /\ p \in Threads
        /\ \A q \in Threads \ {p} : pc'[q] = pc[q] /\ job'[q] = job[q]
    BY <1>9, <1>2 DEF Mark, Goto, tables, Threads
  <2>2. ThreadOf(p)'
    BY <1>9, <1>1, <1>2 DEF Mark, Goto, ThreadOf, Stays, Job, Threads, NoJob, NewJob
  <2> QED
    BY <1>1, <2>1, <2>2, OtherThreads
<1>10. ASSUME NEW p \in Threads, PopWantedRaises(p) PROVE ThreadInv'
  <2>1. /\ UNCHANGED flag /\ p \in Threads
        /\ \A q \in Threads \ {p} : pc'[q] = pc[q] /\ job'[q] = job[q]
    BY <1>10, <1>2 DEF PopWantedRaises, Goto, tables, Raise, Threads
  <2>2. ThreadOf(p)'
    BY <1>10, <1>1, <1>2
     DEF PopWantedRaises, Goto, Raise, ThreadOf, Stays, Job, Threads, NoJob,
         NewJob
  <2> QED
    BY <1>1, <2>1, <2>2, OtherThreads
<1>11. ASSUME NEW p \in Threads, Leave(p) PROVE ThreadInv'
  <2>1. /\ UNCHANGED flag /\ p \in Threads
        /\ \A q \in Threads \ {p} : pc'[q] = pc[q] /\ job'[q] = job[q]
    BY <1>11, <1>2 DEF Leave, Goto, tables, Return, Raise, Threads
  <2>2. ThreadOf(p)'
    BY <1>11, <1>1, <1>2
     DEF Leave, Goto, Return, Raise, ThreadOf, Stays, Job, Threads, NoJob,
         NewJob
  <2> QED
    BY <1>1, <2>1, <2>2, OtherThreads
<1>12. ASSUME NEW p \in Threads, UpsertWanted(p) PROVE ThreadInv'
  <2>1. /\ UNCHANGED flag /\ p \in Threads
        /\ \A q \in Threads \ {p} : pc'[q] = pc[q] /\ job'[q] = job[q]
    BY <1>12, <1>2 DEF UpsertWanted, Goto, tables, Return, Threads
  <2>2. ThreadOf(p)'
    BY <1>12, <1>1, <1>2
     DEF UpsertWanted, Goto, Return, ThreadOf, Stays, Job, Threads, NoJob,
         NewJob
  <2> QED
    BY <1>1, <2>1, <2>2, OtherThreads
<1>13. ASSUME NEW p \in Threads, Schedule(p) PROVE ThreadInv'
  <2>1. /\ UNCHANGED flag /\ p \in Threads
        /\ \A q \in Threads \ {p} : pc'[q] = pc[q] /\ job'[q] = job[q]
    BY <1>13, <1>2 DEF Schedule, Goto, tables, Return, Threads
  <2>2. ThreadOf(p)'
    BY <1>13, <1>1, <1>2
     DEF Schedule, Goto, Return, ThreadOf, Stays, Job, Threads, NoJob, NewJob
  <2> QED
    BY <1>1, <2>1, <2>2, OtherThreads
<1>14. CASE RunDue
  <2>1. /\ UNCHANGED flag /\ Retrier \in Threads
        /\ \A q \in Threads \ {Retrier} : pc'[q] = pc[q] /\ job'[q] = job[q]
    BY <1>14, <1>2 DEF RunDue, Goto, tables, Threads
  <2>2. ThreadOf(Retrier)'
    BY <1>14, <1>1, <1>2
     DEF RunDue, Goto, ThreadOf, Stays, Job, Threads, NoJob, NewJob
  <2> QED
    BY <1>1, <2>1, <2>2, OtherThreads
<1>15. CASE TakeDue
  <2>1. /\ UNCHANGED flag /\ Retrier \in Threads
        /\ \A q \in Threads \ {Retrier} : pc'[q] = pc[q] /\ job'[q] = job[q]
    BY <1>15, <1>2 DEF TakeDue, Goto, tables, Threads
  <2>2. ThreadOf(Retrier)'
    BY <1>15, <1>1, <1>2
     DEF TakeDue, Goto, ThreadOf, Stays, Job, Threads, NoJob, NewJob
  <2> QED
    BY <1>1, <2>1, <2>2, OtherThreads
<1>16. CASE EndDue
  <2>1. /\ UNCHANGED flag /\ Retrier \in Threads
        /\ \A q \in Threads \ {Retrier} : pc'[q] = pc[q] /\ job'[q] = job[q]
    BY <1>16, <1>2 DEF EndDue, Goto, tables, Threads
  <2>2. ThreadOf(Retrier)'
    BY <1>16, <1>1, <1>2
     DEF EndDue, Goto, ThreadOf, Stays, Job, Threads, NoJob, NewJob
  <2> QED
    BY <1>1, <2>1, <2>2, OtherThreads
<1>17. CASE Restart
  BY <1>17 DEF Restart, ThreadInv, ThreadOf, NoJob, NewJob
<1>18. ASSUME NEW p \in Threads, Search(p) PROVE ThreadInv'
  <2>1. /\ flag \subseteq flag'
        /\ \A q \in Threads \ {p} : pc'[q] = pc[q] /\ job'[q] = job[q]
    BY <1>18, <1>2 DEF Search, Goto
  <2>2. job[p].part \in 1 .. Seasons
    BY <1>18, <1>2, PipelineNumbers DEF Search, Job, PartsOf
  <2>3. <<job[p].title, job[p].part>> \in library' =>
          \E i \in 1 .. Seasons : <<job[p].title, i>> \in library'
    BY <2>2
  <2>4. /\ job'[p].title = job[p].title /\ pc'[p] \in {"search", "mark"}
        /\ job'[p].ok => job[p].ok \/ <<job[p].title, job[p].part>> \in library'
        /\ job'[p].status = "success" => job[p].status = "success"
    BY <1>18, <1>2, SMTT(30) DEF Search, Goto, Job
  <2>5. ThreadOf(p)'
    BY <1>1, <1>2, <2>3, <2>4 DEF ThreadOf, Stays, Something
  <2> QED
    BY <1>1, <2>1, <2>5, OtherThreads
<1>19. ASSUME NEW p \in Threads, Verdict(p) PROVE ThreadInv'
  <2>1. /\ flag \ {job[p].title} \subseteq flag' /\ Processing(p)
        /\ \A q \in Threads \ {p} : pc'[q] = pc[q] /\ job'[q] = job[q]
    BY <1>19, <1>2 DEF Verdict, Goto, Processing
  <2>2. \A q \in Threads \ {p} : pc[q] = "popwanted" => job[q].title # job[p].title
    BY <2>1 DEF LockInv, Processing
  <2>3. /\ job'[p].title = job[p].title /\ job'[p].ok = job[p].ok
        /\ job'[p].status = "success" => job[p].ok \/ job[p].status = "success"
        /\ pc'[p] \in {"unwant", "leave"} => pc'[p] = "unwant" /\ job'[p].status = "success"
        /\ pc'[p] = "popwanted" => job[p].title \in flag'
    BY <1>19, <1>2, SMTT(30) DEF Verdict, Goto, Job
  <2>4. ThreadOf(p)'
    BY <1>1, <1>2, <2>3 DEF ThreadOf, Stays
  <2> QED
    BY <1>1, <2>1, <2>2, <2>4, OtherThreads
<1>20. ASSUME NEW p \in Threads, PopWanted(p) PROVE ThreadInv'
  <2>1. /\ flag \ {job[p].title} \subseteq flag' /\ Processing(p)
        /\ \A q \in Threads \ {p} : pc'[q] = pc[q] /\ job'[q] = job[q]
    BY <1>20, <1>2 DEF PopWanted, Goto, Processing
  <2>2. \A q \in Threads \ {p} : pc[q] = "popwanted" => job[q].title # job[p].title
    BY <2>1 DEF LockInv, Processing
  <2>3. /\ job'[p].title = job[p].title /\ job'[p].ok = job[p].ok
        /\ job'[p].status = "wanted" /\ pc'[p] = "mark"
    BY <1>20, <1>2 DEF PopWanted, Goto, Job
  <2>4. ThreadOf(p)'
    BY <1>1, <1>2, <2>3 DEF ThreadOf, Stays
  <2> QED
    BY <1>1, <2>1, <2>2, <2>4, OtherThreads
<1>21. CASE RecheckPop
  <2>1. /\ UNCHANGED <<pc, job>> /\ flag \ {ritem} \subseteq flag'
        /\ Settled(ritem) /\ ritem \in Titles
    BY <1>21 DEF RecheckPop, RecheckInv, TypeInv
  <2>2. \A q \in Threads : pc[q] = "popwanted" /\ job[q].title \in flag =>
                             job[q].title \in flag' \/ Settled(job[q].title)'
    BY <1>1, <2>1 DEF Stays
  <2> QED
    BY <1>1, <1>2, <2>1, <2>2 DEF ThreadInv, ThreadOf, Stays
<1>22. CASE RecheckSearch
  <2>1. UNCHANGED <<pc, job>> /\ flag \subseteq flag'
    BY <1>22 DEF RecheckSearch
  <2> QED
    BY <1>1, <1>2, <2>1 DEF ThreadInv, ThreadOf, Stays
<1>23. CASE RecheckStart \/ RecheckNext \/ RecheckFound \/ RecheckEnd \/ UNCHANGED memory
  BY <1>3, <1>23, Zenon
   DEF RecheckStart, RecheckNext, RecheckFound, RecheckEnd, memory
<1> QED
  BY <1>4, <1>5, <1>6, <1>7, <1>8, <1>9, <1>10, <1>11, <1>12, <1>13, <1>14,
     <1>15, <1>16, <1>17, <1>18, <1>19, <1>20, <1>21, <1>22, <1>23,
     StepKinds, Zenon DEF ProcessStep, RetryStep, RecheckStep

LEMMA SettledAlways ==
  Spec => [](TypeInv /\ LockInv /\ ThreadInv /\ RecheckInv)
<1>1. TypeInv => TypeOK
  BY DEF TypeInv
<1> QED
  BY <1>1, TypeInit, TypeStep, LockInit, LockStep, SettledInit, ThreadsSettled,
     RecheckSettled, PTL DEF Spec

(* A title leaves the wanted list only when something of it was added: the *)
(* recheck and the processor may both work on it, in any order.            *)
THEOREM WantedLeavesAdded == Spec => WantedUntilAdded
<1>1. ThreadInv /\ RecheckInv /\ [Next]_vars =>
        [\A x \in wanted \ wanted' : \E i \in 1 .. Seasons : <<x, i>> \in library]_vars
  BY WantedShrinks DEF Something
<1> QED
  BY <1>1, SettledAlways, PTL DEF WantedUntilAdded, Spec

LEMMA EndsStep ==
  ASSUME TypeInv, ThreadInv, [Next]_vars, NEW x \in Titles, ended'[x] > ended[x]
  PROVE  \/ x \in wanted' \/ Something(x)
         \/ \E p \in Threads : /\ pc[p] = "schedule" /\ job[p].title = x
                               /\ job[p].attempt = MaxAttempts
<1>1. ended' # ended
  BY DEF TypeInv, TypeOK
<1>2. ASSUME NEW p \in Threads, End(p) PROVE job[p].title = x
  BY <1>2 DEF End, TypeInv, TypeOK
<1>3. ASSUME NEW p \in Threads, PopWantedRaises(p)
      PROVE  x \in wanted' \/ Something(x)
  BY <1>2, <1>3 DEF PopWantedRaises, tables, ThreadInv, ThreadOf, Settled
<1>4. ASSUME NEW p \in Threads, Leave(p) PROVE Something(x)
  BY <1>2, <1>4 DEF Leave, ThreadInv, ThreadOf
<1>5. ASSUME NEW p \in Threads, UpsertWanted(p) PROVE x \in wanted'
  BY <1>2, <1>5 DEF UpsertWanted
<1>6. ASSUME NEW p \in Threads, Schedule(p)
      PROVE  pc[p] = "schedule" /\ job[p].title = x /\ job[p].attempt = MaxAttempts
  <2>1. End(p) /\ pc[p] = "schedule" /\ job[p].attempt >= MaxAttempts
    BY <1>1, <1>6 DEF Schedule
  <2>2. job[p].attempt \in 0 .. MaxAttempts
    BY DEF TypeInv, TypeOK, Job, Attempts
  <2> QED
    BY <1>2, <2>1, <2>2, PipelineNumbers
<1>7. ASSUME NEW p \in Threads, ProcessStep(p), ~PopWantedRaises(p), ~Leave(p),
             ~UpsertWanted(p), ~Schedule(p)
      PROVE  FALSE
  BY <1>1, <1>7, Zenon DEF ProcessStep, Enter, EnterBusy, Insert, Search, Verdict,
     Unwant, PopWanted, Mark, history
<1>8. ASSUME RetryStep \/ RecheckStep \/ Restart
             \/ \E p \in Workers, y \in Titles : Spawn(p, y)
      PROVE  FALSE
  BY <1>1, <1>8, Zenon
   DEF RetryStep, RunDue, TakeDue, EndDue, RecheckStep, RecheckStart,
     RecheckNext, RecheckSearch, RecheckFound, RecheckPop, RecheckEnd, Restart, Spawn,
     history
<1> QED
  BY <1>1, <1>3, <1>4, <1>5, <1>6, <1>7, <1>8, StepKinds

(* A request ends only with something added, with its title on the wanted  *)
(* list, or after the last attempt, whatever races for the shared flag.    *)
THEOREM EndsAreSettled == Spec => EndsSettled
<1>1. TypeInv /\ ThreadInv /\ [Next]_vars =>
        [\A x \in Titles : ended'[x] > ended[x] =>
           \/ x \in wanted' \/ \E i \in 1 .. Seasons : <<x, i>> \in library
           \/ \E p \in Threads : /\ pc[p] = "schedule" /\ job[p].title = x
                                 /\ job[p].attempt = MaxAttempts]_vars
  BY EndsStep DEF Something
<1> QED
  BY <1>1, SettledAlways, PTL DEF EndsSettled, Spec
=============================================================================
