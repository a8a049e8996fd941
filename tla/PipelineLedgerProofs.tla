------------------------ MODULE PipelineLedgerProofs ------------------------
(***************************************************************************)
(* RequestPipeline implements RequestLedger, for every set of titles and   *)
(* threads and every setting of the switches.                              *)
(***************************************************************************)
EXTENDS RequestPipelineProofs, FiniteSetTheorems

(* The lock of a title is held by a thread that works on it, rows have ids *)
(* of their own, and what run_due has still to take is in the table.       *)
HolderInv == \A x \in Titles : mutex[x] # NoThread =>
               mutex[x] \in Threads /\ Processing(mutex[x]) /\ job[mutex[x]].title = x
QueueInv == /\ \A r, s \in queue : r.id = s.id => r = s
            /\ \A r \in due : r \in queue /\ r.due
LedgerInv == TypeInv /\ LockInv /\ ThreadInv /\ RecheckInv /\ HolderInv /\ QueueInv

LEMMA JobFields ==
  ASSUME TypeOK, NEW p \in Threads
  PROVE  job[p] \in Job /\ job[p].title \in Titles /\ job[p].attempt \in 0 .. MaxAttempts
BY DEF TypeOK, Job, Attempts

(* A step of process() between the mutex and the end.                      *)
LocalStepOf(p) == Insert(p) \/ Search(p) \/ Verdict(p) \/ Unwant(p) \/ PopWanted(p) \/ Mark(p)
EndStepOf(p) == PopWantedRaises(p) \/ Leave(p) \/ UpsertWanted(p) \/ Schedule(p)
OthersStay(p) == \A q \in Threads \ {p} : pc'[q] = pc[q] /\ job'[q] = job[q]
Stands(p) == job'[p].title = job[p].title /\ job'[p].attempt = job[p].attempt

LEMMA LocalShape ==
  ASSUME TypeOK, NEW p \in Threads, LocalStepOf(p)
  PROVE  /\ Processing(p) /\ Processing(p)' /\ OthersStay(p) /\ Stands(p)
         /\ mutex' = mutex /\ queue' = queue /\ due' = due /\ ended' = ended
<1>0. job[p] \in Job /\ job \in [Threads -> Job] /\ pc \in [Threads -> Places]
  BY DEF TypeOK
<1>1. CASE Insert(p)
  BY <1>0, <1>1, SMTT(30) DEF Insert, OthersStay, Stands, Processing, Goto, Job, history
<1>2. CASE Search(p)
  BY <1>0, <1>2, SMTT(30) DEF Search, OthersStay, Stands, Processing, Goto, Job, tables
<1>3. CASE Verdict(p)
  BY <1>0, <1>3, SMTT(30) DEF Verdict, OthersStay, Stands, Processing, Goto, Job, tables, history
<1>4. CASE Unwant(p)
  BY <1>0, <1>4, SMTT(30) DEF Unwant, OthersStay, Stands, Processing, Goto, history
<1>5. CASE PopWanted(p)
  BY <1>0, <1>5, SMTT(30) DEF PopWanted, OthersStay, Stands, Processing, Goto, Job, tables, history
<1>6. CASE Mark(p)
  BY <1>0, <1>6, SMTT(30) DEF Mark, OthersStay, Stands, Processing, Goto, history
<1> QED
  BY <1>1, <1>2, <1>3, <1>4, <1>5, <1>6 DEF LocalStepOf

LEMMA EndShape ==
  ASSUME TypeOK, NEW p \in Threads, EndStepOf(p)
  PROVE  /\ Processing(p) /\ pc'[p] \in {"idle", "loop"} /\ OthersStay(p)
         /\ Release(p) /\ due' \subseteq due /\ library' = library
<1>0. job \in [Threads -> Job] /\ pc \in [Threads -> Places]
  BY DEF TypeOK
<1>1. ASSUME Return(p) \/ Raise(p)
      PROVE  pc'[p] \in {"idle", "loop"} /\ OthersStay(p) /\ due' \subseteq due
  BY <1>0, <1>1 DEF Return, Raise, Goto, OthersStay
<1>2. pc[p] \in {"popwanted", "leave", "upsert", "schedule"} /\ Release(p)
      /\ (Return(p) \/ Raise(p)) /\ library' = library
  BY DEF EndStepOf, PopWantedRaises, Leave, UpsertWanted, Schedule
<1> QED
  BY <1>1, <1>2 DEF Processing
-----------------------------------------------------------------------------
LEMMA HolderInit == Init => HolderInv /\ QueueInv
BY DEF Init, HolderInv, QueueInv

(* A step of p that holds no lock, or keeps it.                            *)
LEMMA HolderLocal ==
  ASSUME HolderInv, NEW p \in Threads, mutex' = mutex, OthersStay(p),
         Processing(p) => Processing(p)' /\ job'[p].title = job[p].title
  PROVE  HolderInv'
BY DEF HolderInv, OthersStay, Processing

LEMMA HolderRelease ==
  ASSUME TypeOK, HolderInv, NEW p \in Threads, OthersStay(p), Processing(p), Release(p)
  PROVE  HolderInv'
<1> SUFFICES ASSUME NEW x \in Titles, mutex'[x] # NoThread
             PROVE  mutex'[x] \in Threads /\ Processing(mutex[x])' /\ job'[mutex'[x]].title = x
                    /\ mutex'[x] = mutex[x]
  BY DEF HolderInv, Processing
<1>1. mutex'[x] = mutex[x] /\ x # job[p].title
  BY DEF Release, TypeOK
<1>2. mutex[x] \in Threads /\ mutex[x] # p
  BY <1>1 DEF HolderInv
<1> QED
  BY <1>1, <1>2 DEF HolderInv, OthersStay, Processing

LEMMA HolderStep == TypeOK /\ HolderInv /\ [Next]_vars => HolderInv'
<1> SUFFICES ASSUME TypeOK, HolderInv, [Next]_vars PROVE HolderInv'
  OBVIOUS
<1> USE NamesAssumption
<1>0. pc \in [Threads -> Places] /\ job \in [Threads -> Job]
  BY DEF TypeOK
<1>1. ASSUME NEW p \in Workers, NEW x \in Titles, Spawn(p, x) PROVE HolderInv'
  <2>1. p \in Threads /\ mutex' = mutex /\ OthersStay(p) /\ ~Processing(p)
    BY <1>0, <1>1 DEF Spawn, Threads, Goto, OthersStay, Processing
  <2> QED
    BY <2>1, HolderLocal
<1>2. CASE UNCHANGED memory
  BY <1>2 DEF memory, HolderInv, Processing
<1>3. CASE RecheckStep
  BY <1>3, Zenon DEF RecheckStep, RecheckStart, RecheckNext, RecheckSearch,
     RecheckFound, RecheckPop, RecheckEnd, HolderInv, Processing
<1>4. ASSUME NEW p \in Threads, Enter(p) PROVE HolderInv'
  <2>1. /\ mutex' = [mutex EXCEPT ![job[p].title] = p] /\ job' = job
        /\ pc' = [pc EXCEPT ![p] = "insert"] /\ ~Processing(p)
    BY <1>4 DEF Enter, Goto, Processing
  <2> SUFFICES ASSUME NEW x \in Titles, mutex'[x] # NoThread
               PROVE  mutex'[x] \in Threads /\ pc'[mutex'[x]] \notin {"idle", "enter", "loop"}
                      /\ job'[mutex'[x]].title = x
    BY DEF HolderInv, Processing
  <2>2. CASE x = job[p].title
    BY <1>0, <2>1, <2>2 DEF TypeOK
  <2>3. CASE x # job[p].title
    <3>1. mutex'[x] = mutex[x] /\ mutex[x] \in Threads /\ Processing(mutex[x])
      BY <2>1, <2>3 DEF TypeOK, HolderInv
    <3> QED
      BY <1>0, <2>1, <3>1 DEF HolderInv, Processing
  <2> QED
    BY <2>2, <2>3
<1>5. ASSUME NEW p \in Threads, EnterBusy(p) PROVE HolderInv'
  <2>1. mutex' = mutex /\ OthersStay(p) /\ ~Processing(p)
    BY <1>0, <1>5 DEF EnterBusy, Return, Goto, OthersStay, Processing
  <2> QED
    BY <2>1, HolderLocal
<1>6. ASSUME NEW p \in Threads, LocalStepOf(p) PROVE HolderInv'
  BY <1>6, LocalShape, HolderLocal DEF Stands
<1>7. ASSUME NEW p \in Threads, EndStepOf(p) PROVE HolderInv'
  BY <1>7, EndShape, HolderRelease
<1>8. CASE RetryStep
  <2>1. Retrier \in Threads /\ mutex' = mutex /\ OthersStay(Retrier) /\ ~Processing(Retrier)
    BY <1>0, <1>8 DEF Threads, RetryStep, RunDue, TakeDue, EndDue, Goto, OthersStay, Processing
  <2> QED
    BY <2>1, HolderLocal
<1>9. CASE Restart
  BY <1>9 DEF Restart, HolderInv
<1> QED
  BY <1>1, <1>2, <1>3, <1>4, <1>5, <1>6, <1>7, <1>8, <1>9, StepKinds, Zenon
  DEF ProcessStep, LocalStepOf, EndStepOf

(* What a step does to the queue: a row with a new id comes, the row taken *)
(* goes, a row becomes due.                                                *)
LEMMA EnqueueFresh ==
  ASSUME NEW x, NEW n, Enqueue(x, n)
  PROVE  \E r : /\ queue' = queue \cup {r} /\ r.id \in RowIds /\ \A s \in queue : s.id # r.id
                /\ r.title = x /\ r.attempt = n /\ ~r.due
<1> DEFINE r == [id |-> CHOOSE i \in FreeIds : TRUE, title |-> x, attempt |-> n, due |-> FALSE]
<1>1. r.id \in FreeIds /\ queue' = queue \cup {r}
  BY Zenon DEF Enqueue
<1>2. r.title = x /\ r.attempt = n /\ ~r.due
  OBVIOUS
<1>3. r.id \in RowIds /\ \A s \in queue : s.id # r.id
  BY <1>1 DEF FreeIds
<1> HIDE DEF r
<1> QED
  BY <1>1, <1>2, <1>3

LEMMA QueueEnqueue ==
  ASSUME QueueInv, NEW x, NEW n, Enqueue(x, n), due' \subseteq due
  PROVE  QueueInv'
<1> PICK r : /\ queue' = queue \cup {r} /\ \A s \in queue : s.id # r.id
  BY EnqueueFresh
<1> QED
  BY DEF QueueInv

LEMMA QueueStep == TypeOK /\ QueueInv /\ [Next]_vars => QueueInv'
<1> SUFFICES ASSUME TypeOK, QueueInv, Next \/ UNCHANGED vars PROVE QueueInv'
  OBVIOUS
<1>1. ASSUME queue' = queue, due' \subseteq due PROVE QueueInv'
  BY <1>1 DEF QueueInv
<1>2. CASE UserStep \/ PruneWebhooks \/ (\E part \in Parts : Appear(part)) \/ UNCHANGED vars
  <2>1. queue' = queue /\ due' = due
    BY <1>2, Zenon DEF UserStep, Webhook, Submit, RetryRequest, Spawn, DeleteRequest, Reconcile,
       PruneWebhooks, Appear, memory, tables, vars
  <2> QED
    BY <1>1, <2>1
<1>3. CASE RecheckStep \/ Restart
  <2>1. queue' = queue /\ (due' = due \/ due' = {})
    BY <1>3, Zenon DEF RecheckStep, RecheckStart, RecheckNext, RecheckSearch,
       RecheckFound, RecheckPop, RecheckEnd, Restart, tables
  <2> QED
    BY <1>1, <2>1
<1>4. ASSUME NEW p \in Threads, ProcessStep(p) PROVE QueueInv'
  <2>1. CASE EnterBusy(p)
    BY <2>1, QueueEnqueue DEF EnterBusy, Return
  <2>2. CASE Enter(p) \/ LocalStepOf(p)
    BY <1>1, <2>2, LocalShape DEF Enter, tables
  <2>3. CASE EndStepOf(p)
    <3>1. due' \subseteq due
      BY <2>3, EndShape
    <3>2. queue' = queue \/ Enqueue(job[p].title, job[p].attempt + 1)
      BY <2>3 DEF EndStepOf, PopWantedRaises, Leave, UpsertWanted, Schedule, tables
    <3> QED
      BY <1>1, <3>1, <3>2, QueueEnqueue
  <2> QED
    BY <1>4, <2>1, <2>2, <2>3 DEF ProcessStep, LocalStepOf, EndStepOf
<1>5. CASE RetryStep
  <2>1. CASE TakeDue
    BY <2>1 DEF TakeDue, QueueInv
  <2>2. CASE RunDue \/ EndDue
    BY <2>2 DEF RunDue, EndDue, DueRows, QueueInv, tables
  <2> QED
    BY <1>5, <2>1, <2>2 DEF RetryStep
<1>6. ASSUME NEW r \in queue, BecomeDue(r) PROVE QueueInv'
  <2> DEFINE s == [r EXCEPT !.due = TRUE]
  <2>1. s.id = r.id
    BY DEF TypeOK, Row
  <2>2. queue' = (queue \ {r}) \cup {s} /\ due' = due /\ ~r.due
    BY <1>6 DEF BecomeDue, memory
  <2> HIDE DEF s
  <2> QED
    BY <2>1, <2>2 DEF QueueInv
<1> QED
  BY <1>2, <1>3, <1>4, <1>5, <1>6, Zenon DEF Next

LEMMA LedgerInvAlways == Spec => []LedgerInv
<1>1. TypeInv => TypeOK
  BY DEF TypeInv
<1> QED
  BY <1>1, SettledAlways, HolderInit, HolderStep, QueueStep, PTL DEF Spec, LedgerInv
-----------------------------------------------------------------------------
LEMMA TicketType == TypeOK => Tickets \subseteq Ledger!Ticket
<1> SUFFICES ASSUME TypeOK, NEW t \in Tickets PROVE t \in Ledger!Ticket
  OBVIOUS
<1>1. ASSUME NEW r \in queue PROVE RowTicket(r) \in Ledger!Ticket
  <2>1. r.id \in RowIds /\ r.title \in Titles /\ r.attempt \in 0 .. MaxAttempts
    BY DEF TypeOK, Row, Attempts
  <2> QED
    BY <2>1 DEF RowTicket, Ledger!Ticket, TicketPlaces
<1>2. ASSUME NEW p \in Threads PROVE ThreadTicket(p) \in Ledger!Ticket
  BY JobFields DEF ThreadTicket, Ledger!Ticket, TicketPlaces
<1> QED
  BY <1>1, <1>2 DEF Tickets

LEMMA LedgerInit == Init => Ledger!Init
<1> SUFFICES ASSUME Init PROVE Ledger!Init
  OBVIOUS
<1>1. Tickets = {}
  BY DEF Init, Tickets
<1>2. Tried = [x \in Titles |-> -1]
  BY DEF Init, Tried
<1> QED
  BY <1>1, <1>2 DEF Init, Ledger!Init, Ledger!Untried

(* The tickets stay when neither the rows nor the threads in front of the  *)
(* mutex change, and what is tried when neither the locks nor the jobs of  *)
(* their holders do.                                                       *)
LEMMA TicketsStay ==
  ASSUME queue' = queue,
         \A p \in Threads : /\ pc'[p] = "enter" <=> pc[p] = "enter"
                            /\ pc[p] = "enter" => job'[p] = job[p]
  PROVE  Tickets' = Tickets
<1>1. {p \in Threads : pc'[p] = "enter"} = {p \in Threads : pc[p] = "enter"}
  OBVIOUS
<1>2. \A p \in Threads : pc[p] = "enter" => ThreadTicket(p)' = ThreadTicket(p)
  BY DEF ThreadTicket
<1>3. {ThreadTicket(p) : p \in {q \in Threads : pc[q] = "enter"}}'
      = {ThreadTicket(p) : p \in {q \in Threads : pc[q] = "enter"}}
  BY <1>1, <1>2
<1>4. {RowTicket(r) : r \in queue}' = {RowTicket(r) : r \in queue}
  BY DEF RowTicket
<1> QED
  BY <1>3, <1>4 DEF Tickets

LEMMA TriedStays ==
  ASSUME HolderInv, mutex' = mutex,
         \A p \in Threads : Processing(p) => job'[p].attempt = job[p].attempt
  PROVE  Tried' = Tried
BY DEF HolderInv, Tried

LEMMA TriedFreed ==
  ASSUME TypeOK, LockInv, HolderInv, NEW p \in Threads, Processing(p), Release(p), OthersStay(p)
  PROVE  /\ Tried[job[p].title] = job[p].attempt /\ job[p].attempt # -1
         /\ Tried' = [Tried EXCEPT ![job[p].title] = -1]
<1>1. job[p].title \in Titles /\ job[p].attempt \in 0 .. MaxAttempts
  BY JobFields
<1>2. mutex[job[p].title] = p /\ p # NoThread
  BY NamesAssumption DEF LockInv
<1>3. Tried[job[p].title] = job[p].attempt
  BY <1>1, <1>2 DEF Tried
<1>4. mutex' = [mutex EXCEPT ![job[p].title] = NoThread] /\ mutex \in [Titles -> Threads \cup {NoThread}]
  BY DEF Release, TypeOK
<1>5. ASSUME NEW x \in Titles, x # job[p].title
      PROVE  Tried'[x] = Tried[x]
  <2>1. mutex'[x] = mutex[x]
    BY <1>4, <1>5
  <2>2. CASE mutex[x] = NoThread
    BY <2>1, <2>2 DEF Tried
  <2>3. CASE mutex[x] # NoThread
    <3>1. mutex[x] \in Threads \ {p}
      BY <1>5, <2>3 DEF HolderInv
    <3> QED
      BY <2>1, <2>3, <3>1 DEF Tried, OthersStay
  <2> QED
    BY <2>2, <2>3
<1>6. Tried'[job[p].title] = -1
  BY <1>1, <1>4 DEF Tried
<1> QED
  BY <1>1, <1>3, <1>5, <1>6 DEF Tried
-----------------------------------------------------------------------------
(* Tickets of different places differ.                                     *)
LEMMA TicketsDiffer ==
  /\ \A r, p : RowTicket(r) # ThreadTicket(p)
  /\ \A p, q : ThreadTicket(p) = ThreadTicket(q) => p = q
  /\ QueueInv => \A r, s \in queue : RowTicket(r) = RowTicket(s) => r = s
<1>1. \A r, p : RowTicket(r).at # ThreadTicket(p).at
  BY DEF RowTicket, ThreadTicket
<1>2. \A p, q : ThreadTicket(p).at = ThreadTicket(q).at => p = q
  BY DEF ThreadTicket
<1>3. \A r, s : RowTicket(r).at = RowTicket(s).at => r.id = s.id
  BY DEF RowTicket
<1> QED
  BY <1>1, <1>2, <1>3 DEF QueueInv

(* A thread comes to stand in front of the mutex, or leaves from there.    *)
LEMMA ThreadComes ==
  ASSUME NEW p \in Threads, OthersStay(p), pc[p] # "enter", pc'[p] = "enter"
  PROVE  {ThreadTicket(q) : q \in {a \in Threads : pc[a] = "enter"}}'
         = {ThreadTicket(q) : q \in {a \in Threads : pc[a] = "enter"}} \cup {ThreadTicket(p)'}
<1>1. {a \in Threads : pc'[a] = "enter"} = {a \in Threads : pc[a] = "enter"} \cup {p}
  BY DEF OthersStay
<1>2. \A q \in {a \in Threads : pc[a] = "enter"} : ThreadTicket(q)' = ThreadTicket(q)
  BY DEF OthersStay, ThreadTicket
<1> QED
  BY <1>1, <1>2

LEMMA ThreadGoes ==
  ASSUME NEW p \in Threads, \A q \in Threads \ {p} : pc'[q] = pc[q] /\ job'[q] = job[q],
         pc[p] = "enter", pc'[p] # "enter"
  PROVE  {ThreadTicket(q) : q \in {a \in Threads : pc[a] = "enter"}}'
         = {ThreadTicket(q) : q \in {a \in Threads : pc[a] = "enter"}} \ {ThreadTicket(p)}
<1>1. {a \in Threads : pc'[a] = "enter"} = {a \in Threads : pc[a] = "enter"} \ {p}
  OBVIOUS
<1>2. \A q \in {a \in Threads : pc[a] = "enter"} \ {p} : ThreadTicket(q)' = ThreadTicket(q)
  BY DEF ThreadTicket
<1>3. {ThreadTicket(q) : q \in {a \in Threads : pc[a] = "enter"} \ {p}}
      = {ThreadTicket(q) : q \in {a \in Threads : pc[a] = "enter"}} \ {ThreadTicket(p)}
  BY TicketsDiffer
<1> QED
  BY <1>1, <1>2, <1>3

LEMMA SpawnAccepts ==
  ASSUME LedgerInv, NEW p \in Workers, NEW x \in Titles, Spawn(p, x),
         queue' = queue
  PROVE  Ledger!Next
<1> USE NamesAssumption DEF LedgerInv, TypeInv
<1> DEFINE t == ThreadTicket(p)'
<1>1. /\ p \in Threads /\ OthersStay(p) /\ pc[p] # "enter" /\ pc'[p] = "enter"
      /\ job'[p] = NewJob(x, 0) /\ ~Processing(p) /\ mutex' = mutex
      /\ UNCHANGED <<ended, wanted, library>>
  BY DEF Spawn, Threads, Goto, OthersStay, Processing, TypeOK
<1>2. Tickets' = Tickets \cup {t} /\ t \in Tickets'
  BY <1>1, ThreadComes DEF Tickets, RowTicket
<1>3. t.at = <<"thread", p>> /\ t.attempt = 0
  BY <1>1 DEF ThreadTicket, NewJob
<1>4. t \notin Tickets
  BY <1>1, <1>3 DEF Tickets, RowTicket, ThreadTicket
<1>5. t \in Ledger!Ticket
  <2>1. t = [at |-> <<"thread", p>>, title |-> x, attempt |-> 0]
    BY <1>1 DEF ThreadTicket, NewJob
  <2> QED
    BY <1>1, <2>1, PipelineNumbers DEF Ledger!Ticket, TicketPlaces
<1>6. Tried' = Tried
  <2>1. \A q \in Threads : Processing(q) => job'[q].attempt = job[q].attempt
    BY <1>1 DEF OthersStay
  <2> QED
    BY <1>1, <2>1, TriedStays
<1> HIDE DEF t
<1>7. Ledger!Accept(t)
  BY <1>1, <1>2, <1>3, <1>4, <1>6 DEF Ledger!Accept
<1> QED
  BY <1>5, <1>7 DEF Ledger!Next

(* A collision on the mutex exchanges the thread's ticket for a row's.     *)
LEMMA BusyExchanges ==
  ASSUME LedgerInv, NEW p \in Threads, EnterBusy(p)
  PROVE  Ledger!Next
<1> USE DEF LedgerInv, TypeInv
<1> DEFINE t == ThreadTicket(p)
<1>1. /\ OthersStay(p) /\ pc[p] = "enter" /\ pc'[p] # "enter" /\ mutex' = mutex
      /\ UNCHANGED <<ended, wanted, library>>
  BY DEF EnterBusy, Return, Goto, OthersStay, TypeOK, history
<1>2. job[p].title \in Titles /\ job[p].attempt \in 0 .. MaxAttempts
  BY JobFields
<1> PICK r : /\ queue' = queue \cup {r} /\ r.id \in RowIds /\ \A s \in queue : s.id # r.id
             /\ r.title = job[p].title /\ r.attempt = job[p].attempt
  BY EnqueueFresh DEF EnterBusy
<1> DEFINE u == RowTicket(r)
<1>3. {RowTicket(s) : s \in queue}' = {RowTicket(s) : s \in queue} \cup {u}
  BY DEF RowTicket
<1>4. {ThreadTicket(q) : q \in {a \in Threads : pc[a] = "enter"}}'
      = {ThreadTicket(q) : q \in {a \in Threads : pc[a] = "enter"}} \ {t}
  BY <1>1, ThreadGoes DEF OthersStay
<1>5. t \in Tickets /\ \A s : RowTicket(s) # t
  BY <1>1, TicketsDiffer DEF Tickets
<1>6. Tickets' = (Tickets \ {t}) \cup {u}
  BY <1>3, <1>4, <1>5 DEF Tickets
<1>7. u \notin Tickets
  <2>1. \A s \in queue : RowTicket(s).at # u.at
    BY DEF RowTicket
  <2> QED
    BY <2>1, TicketsDiffer DEF Tickets
<1>8. u.title = t.title /\ u.attempt = t.attempt /\ u \in Ledger!Ticket /\ t \in Ledger!Ticket
  BY <1>2 DEF RowTicket, ThreadTicket, Ledger!Ticket, TicketPlaces
<1>9. Tried' = Tried
  <2>1. \A q \in Threads : Processing(q) => job'[q].attempt = job[q].attempt
    BY <1>1 DEF OthersStay, Processing
  <2> QED
    BY <1>1, <2>1, TriedStays
<1> HIDE DEF t, u
<1>10. Ledger!Exchange(t, u)
  BY <1>1, <1>5, <1>6, <1>7, <1>8, <1>9 DEF Ledger!Exchange
<1> QED
  BY <1>8, <1>10 DEF Ledger!Next

(* Taking the mutex, the thread tries its request.                         *)
LEMMA EnterTries ==
  ASSUME LedgerInv, NEW p \in Threads, Enter(p)
  PROVE  Ledger!Next
<1> USE DEF LedgerInv, TypeInv
<1> DEFINE t == ThreadTicket(p)
<1>1. /\ pc[p] = "enter" /\ pc'[p] # "enter" /\ job' = job /\ queue' = queue
      /\ \A q \in Threads \ {p} : pc'[q] = pc[q]
      /\ mutex[job[p].title] = NoThread /\ mutex' = [mutex EXCEPT ![job[p].title] = p]
      /\ UNCHANGED <<ended, wanted, library>>
  BY DEF Enter, Goto, TypeOK, tables, history
<1>2. job[p].title \in Titles /\ job[p].attempt \in 0 .. MaxAttempts /\ p # NoThread
  BY JobFields, NamesAssumption
<1>3. {RowTicket(s) : s \in queue}' = {RowTicket(s) : s \in queue}
  BY <1>1 DEF RowTicket
<1>4. {ThreadTicket(q) : q \in {a \in Threads : pc[a] = "enter"}}'
      = {ThreadTicket(q) : q \in {a \in Threads : pc[a] = "enter"}} \ {t}
  BY <1>1, ThreadGoes
<1>5. t \in Tickets /\ \A s : RowTicket(s) # t
  BY <1>1, TicketsDiffer DEF Tickets
<1>6. Tickets' = Tickets \ {t}
  BY <1>3, <1>4, <1>5 DEF Tickets
<1>7. t.title = job[p].title /\ t.attempt = job[p].attempt /\ t \in Ledger!Ticket
  BY <1>2 DEF ThreadTicket, Ledger!Ticket, TicketPlaces
<1>8. Tried[job[p].title] = -1
  BY <1>1, <1>2 DEF Tried
<1>9. Tried' = [Tried EXCEPT ![job[p].title] = job[p].attempt]
  BY <1>1, <1>2 DEF Tried, TypeOK
<1> HIDE DEF t
<1>10. Ledger!Try(t)
  BY <1>1, <1>5, <1>6, <1>7, <1>8, <1>9 DEF Ledger!Try, Ledger!Untried
<1> QED
  BY <1>7, <1>10 DEF Ledger!Next

(* run_due exchanges a row's ticket for the thread's.                      *)
LEMMA TakeExchanges ==
  ASSUME LedgerInv, TakeDue
  PROVE  Ledger!Next
<1> USE DEF LedgerInv, TypeInv
<1> PICK r \in due : queue' = queue \ {r}
                     /\ job' = [job EXCEPT ![Retrier] = NewJob(r.title, r.attempt)]
  BY DEF TakeDue
<1> DEFINE t == RowTicket(r)
           u == ThreadTicket(Retrier)'
<1>1. /\ Retrier \in Threads /\ OthersStay(Retrier) /\ pc[Retrier] # "enter"
      /\ pc'[Retrier] = "enter" /\ mutex' = mutex /\ UNCHANGED <<ended, wanted, library>>
      /\ job'[Retrier] = NewJob(r.title, r.attempt) /\ ~Processing(Retrier)
  BY DEF TakeDue, Threads, Goto, OthersStay, Processing, TypeOK, history
<1>2. r \in queue /\ r.id \in RowIds /\ r.title \in Titles /\ r.attempt \in 0 .. MaxAttempts
  BY DEF QueueInv, TypeOK, Row, Attempts
<1>3. {RowTicket(s) : s \in queue}' = {RowTicket(s) : s \in queue} \ {t}
  <2>1. \A s \in queue \ {r} : RowTicket(s) # t
    BY <1>2, TicketsDiffer
  <2> QED
    BY <2>1 DEF RowTicket
<1>4. {ThreadTicket(q) : q \in {a \in Threads : pc[a] = "enter"}}'
      = {ThreadTicket(q) : q \in {a \in Threads : pc[a] = "enter"}} \cup {u}
  BY <1>1, ThreadComes
<1>5. u = [at |-> <<"thread", Retrier>>, title |-> r.title, attempt |-> r.attempt]
  BY <1>1 DEF ThreadTicket, NewJob
<1>6. t \in Tickets /\ \A q : ThreadTicket(q) # t
  BY <1>2, TicketsDiffer DEF Tickets
<1>7. t # u
  BY <1>5 DEF RowTicket
<1>8. Tickets' = (Tickets \ {t}) \cup {u}
  BY <1>3, <1>4, <1>6, <1>7 DEF Tickets
<1>9. u \notin Tickets
  <2>1. \A s : RowTicket(s).at # u.at
    BY <1>5 DEF RowTicket
  <2>2. \A q \in Threads : pc[q] = "enter" => ThreadTicket(q).at # u.at
    BY <1>1, <1>5 DEF ThreadTicket
  <2> QED
    BY <2>1, <2>2 DEF Tickets
<1>10. u.title = t.title /\ u.attempt = t.attempt /\ u \in Ledger!Ticket /\ t \in Ledger!Ticket
  BY <1>1, <1>2, <1>5 DEF RowTicket, Ledger!Ticket, TicketPlaces
<1>11. Tried' = Tried
  <2>1. \A q \in Threads : Processing(q) => job'[q].attempt = job[q].attempt
    BY <1>1 DEF OthersStay
  <2> QED
    BY <1>1, <2>1, TriedStays
<1> HIDE DEF t, u
<1>12. Ledger!Exchange(t, u)
  BY <1>1, <1>6, <1>8, <1>9, <1>10, <1>11 DEF Ledger!Exchange
<1> QED
  BY <1>10, <1>12 DEF Ledger!Next
-----------------------------------------------------------------------------
LEMMA SomethingAdded ==
  ASSUME NEW x \in Titles, Something(x)
  PROVE  Ledger!Something(x)
BY DEF Something, Ledger!Something

LEMMA AddsOrNot ==
  ASSUME NEW part \in Parts, library' \in {library, library \cup {part}},
         \/ Tried[part[1]] # -1
         \/ part[1] \in wanted \/ Ledger!Something(part[1]),
         Tickets' = Tickets, Tried' = Tried, ended' = ended, wanted' = wanted
  PROVE  Ledger!Next \/ UNCHANGED Ledger!ledger
<1>1. CASE library' = library
  BY <1>1 DEF Ledger!ledger
<1>2. CASE library' = library \cup {part}
  BY <1>2 DEF Ledger!Next, Ledger!Add, Ledger!Untried
<1> QED
  BY <1>1, <1>2

LEMMA UnwantsOrNot ==
  ASSUME NEW x \in Titles, wanted' = wanted \ {x}, Something(x),
         Tickets' = Tickets, Tried' = Tried, ended' = ended, library' = library
  PROVE  Ledger!Next \/ UNCHANGED Ledger!ledger
<1>1. CASE x \in wanted
  BY <1>1, SomethingAdded DEF Ledger!Next, Ledger!Unwant
<1>2. CASE x \notin wanted
  BY <1>2 DEF Ledger!ledger
<1> QED
  BY <1>1, <1>2

LEMMA LocalImplements ==
  ASSUME LedgerInv, NEW p \in Threads, LocalStepOf(p)
  PROVE  Ledger!Next \/ UNCHANGED Ledger!ledger
<1> USE DEF LedgerInv, TypeInv
<1> DEFINE x == job[p].title
<1>1. /\ Processing(p) /\ Processing(p)' /\ OthersStay(p) /\ Stands(p)
      /\ mutex' = mutex /\ queue' = queue /\ due' = due /\ ended' = ended
  BY LocalShape
<1>2. Tickets' = Tickets
  <2>1. \A q \in Threads : /\ pc'[q] = "enter" <=> pc[q] = "enter"
                           /\ pc[q] = "enter" => job'[q] = job[q]
    BY <1>1 DEF OthersStay, Processing
  <2> QED
    BY <1>1, <2>1, TicketsStay
<1>3. Tried' = Tried
  <2>1. \A q \in Threads : Processing(q) => job'[q].attempt = job[q].attempt
    BY <1>1 DEF OthersStay, Stands
  <2> QED
    BY <1>1, <2>1, TriedStays
<1>4. x \in Titles /\ job[p].attempt \in 0 .. MaxAttempts /\ mutex[x] = p /\ p # NoThread
  BY <1>1, JobFields, NamesAssumption DEF LockInv
<1>5. Tried[x] # -1
  BY <1>4 DEF Tried
<1>6. CASE Search(p)
  <2>1. wanted' = wanted
    BY <1>6 DEF Search, tables
  <2>2. CASE library' = library
    BY <1>1, <1>2, <1>3, <2>1, <2>2 DEF Ledger!ledger
  <2>3. CASE library' # library
    <3> DEFINE part == <<x, job[p].part>>
    <3>1. library' = library \cup {part} /\ job[p].part <= PartsOf(x)
      BY <1>6, <2>3 DEF Search
    <3>2. job[p].part \in 1 .. Seasons + 1 /\ PartsOf(x) \in Nat /\ PartsOf(x) <= Seasons
      BY PipelineNumbers DEF TypeOK, Job, PartsOf
    <3>3. part \in Parts
      BY <1>4, <3>1, <3>2, PipelineNumbers DEF Parts
    <3>4. part[1] = x
      OBVIOUS
    <3> HIDE DEF part
    <3> QED
      BY <1>1, <1>2, <1>3, <1>5, <2>1, <3>1, <3>3, <3>4, AddsOrNot
  <2> QED
    BY <2>2, <2>3
<1>7. CASE Unwant(p)
  <2>1. wanted' = wanted \ {x} /\ library' = library
    BY <1>7 DEF Unwant
  <2>2. Something(x)
    BY <1>7 DEF Unwant, ThreadInv, ThreadOf
  <2> QED
    BY <1>1, <1>2, <1>3, <1>4, <2>1, <2>2, UnwantsOrNot
<1>8. CASE Insert(p) \/ Verdict(p) \/ PopWanted(p) \/ Mark(p)
  <2>1. wanted' = wanted /\ library' = library
    BY <1>8, Zenon DEF Insert, Verdict, PopWanted, Mark, tables
  <2> QED
    BY <1>1, <1>2, <1>3, <2>1 DEF Ledger!ledger
<1> QED
  BY <1>6, <1>7, <1>8 DEF LocalStepOf

(* The lock is released: the request is settled, given up, or waits again. *)
LEMMA EndImplements ==
  ASSUME LedgerInv, NEW p \in Threads, EndStepOf(p)
  PROVE  Ledger!Next
<1> USE DEF LedgerInv, TypeInv
<1> DEFINE x == job[p].title
<1>1. /\ Processing(p) /\ pc'[p] \in {"idle", "loop"} /\ OthersStay(p)
      /\ Release(p) /\ due' \subseteq due /\ library' = library
  BY EndShape
<1>2. x \in Titles /\ job[p].attempt \in 0 .. MaxAttempts
  BY JobFields
<1>3. /\ Tried[x] = job[p].attempt /\ job[p].attempt # -1
      /\ Tried' = [Tried EXCEPT ![x] = -1]
  BY <1>1, TriedFreed
<1>4. {ThreadTicket(q) : q \in {a \in Threads : pc[a] = "enter"}}'
      = {ThreadTicket(q) : q \in {a \in Threads : pc[a] = "enter"}}
  <2>1. {a \in Threads : pc'[a] = "enter"} = {a \in Threads : pc[a] = "enter"}
    BY <1>1 DEF OthersStay, Processing
  <2>2. \A q \in Threads : pc[q] = "enter" => ThreadTicket(q)' = ThreadTicket(q)
    BY <1>1 DEF OthersStay, ThreadTicket, Processing
  <2> QED
    BY <2>1, <2>2
<1>5. ASSUME queue' = queue PROVE Tickets' = Tickets
  BY <1>4, <1>5 DEF Tickets, RowTicket
<1>6. ASSUME queue' = queue, End(p), wanted' \in {wanted, wanted \cup {x}},
             x \in wanted' \/ Something(x)
      PROVE  Ledger!Next
  <2>1. Ledger!Ends(x)
    BY <1>1, <1>3, <1>5, <1>6 DEF Ledger!Ends, Ledger!Untried, End
  <2>2. Ledger!Settle(x)
    BY <1>2, <1>6, <2>1, SomethingAdded DEF Ledger!Settle
  <2> QED
    BY <1>2, <2>2 DEF Ledger!Next
<1>7. CASE PopWantedRaises(p)
  <2>1. x \in wanted \/ Something(x)
    BY <1>7 DEF PopWantedRaises, ThreadInv, ThreadOf, Settled
  <2>2. queue' = queue /\ End(p) /\ wanted' = wanted
    BY <1>7, Zenon DEF PopWantedRaises, tables
  <2> QED
    BY <1>6, <2>1, <2>2
<1>8. CASE Leave(p)
  <2>1. Something(x)
    BY <1>8 DEF Leave, ThreadInv, ThreadOf
  <2>2. queue' = queue /\ End(p) /\ wanted' = wanted
    BY <1>8, Zenon DEF Leave, tables
  <2> QED
    BY <1>6, <2>1, <2>2
<1>9. CASE UpsertWanted(p)
  BY <1>6, <1>9 DEF UpsertWanted
<1>10. CASE Schedule(p) /\ job[p].attempt >= MaxAttempts
  <2>1. queue' = queue /\ End(p) /\ wanted' = wanted /\ job[p].attempt = MaxAttempts
    BY <1>2, <1>10, PipelineNumbers DEF Schedule
  <2>2. Ledger!GiveUp(x)
    BY <1>1, <1>3, <1>5, <2>1 DEF Ledger!GiveUp, Ledger!Ends, Ledger!Untried, End
  <2> QED
    BY <1>2, <2>2 DEF Ledger!Next
<1>11. CASE Schedule(p) /\ ~(job[p].attempt >= MaxAttempts)
  <2>1. Enqueue(x, job[p].attempt + 1) /\ ended' = ended /\ wanted' = wanted
        /\ job[p].attempt + 1 \in 0 .. MaxAttempts
    BY <1>2, <1>11, PipelineNumbers DEF Schedule
  <2> PICK r : /\ queue' = queue \cup {r} /\ r.id \in RowIds /\ \A s \in queue : s.id # r.id
               /\ r.title = x /\ r.attempt = job[p].attempt + 1
    BY <2>1, EnqueueFresh
  <2> DEFINE u == RowTicket(r)
  <2>2. Tickets' = Tickets \cup {u}
    <3>1. {RowTicket(s) : s \in queue}' = {RowTicket(s) : s \in queue} \cup {u}
      BY DEF RowTicket
    <3> QED
      BY <1>4, <3>1 DEF Tickets
  <2>3. u \notin Tickets
    <3>1. \A s \in queue : RowTicket(s).at # u.at
      BY DEF RowTicket
    <3> QED
      BY <3>1, TicketsDiffer DEF Tickets
  <2>4. u.title = x /\ u.attempt = job[p].attempt + 1 /\ u \in Ledger!Ticket
    BY <1>2, <2>1 DEF RowTicket, Ledger!Ticket, TicketPlaces
  <2> HIDE DEF u
  <2>5. Ledger!Retry(u)
    BY <1>1, <1>3, <2>1, <2>2, <2>3, <2>4 DEF Ledger!Retry, Ledger!Untried
  <2> QED
    BY <2>4, <2>5 DEF Ledger!Next
<1> QED
  BY <1>7, <1>8, <1>9, <1>10, <1>11 DEF EndStepOf

(* The recheck adds only titles somebody asked for.                        *)
LEMMA RecheckImplements ==
  ASSUME LedgerInv, RecheckStep
  PROVE  Ledger!Next \/ UNCHANGED Ledger!ledger
<1> USE DEF LedgerInv, TypeInv
<1>1. UNCHANGED <<queue, pc, job, mutex, ended>>
  BY Zenon DEF RecheckStep, RecheckStart, RecheckNext, RecheckSearch, RecheckFound, RecheckPop,
     RecheckEnd, tables, history
<1>2. Tickets' = Tickets /\ Tried' = Tried
  BY <1>1, TicketsStay, TriedStays
<1>3. CASE RecheckSearch
  <2>1. wanted' = wanted /\ ritem \in Titles /\ Settled(ritem)
    BY <1>3 DEF RecheckSearch, tables, RecheckInv
  <2>2. CASE library' = library
    BY <1>1, <1>2, <2>1, <2>2 DEF Ledger!ledger
  <2>3. CASE library' # library
    <3> DEFINE part == <<ritem, 1>>
    <3>1. library' = library \cup {part} /\ ritem \in Movies
      BY <1>3, <2>3 DEF RecheckSearch
    <3>2. part \in Parts
      BY <2>1, <3>1, PipelineNumbers DEF Parts, PartsOf
    <3>3. part[1] = ritem
      OBVIOUS
    <3>4. part[1] \in wanted \/ Ledger!Something(part[1])
      BY <2>1, <3>3, SomethingAdded DEF Settled
    <3> HIDE DEF part
    <3> QED
      BY <1>1, <1>2, <2>1, <3>1, <3>2, <3>4, AddsOrNot
  <2> QED
    BY <2>2, <2>3
<1>4. CASE RecheckFound
  <2>1. wanted' = wanted \ {ritem} /\ library' = library /\ ritem \in Titles /\ Something(ritem)
    BY <1>4 DEF RecheckFound, RecheckInv
  <2> QED
    BY <1>1, <1>2, <2>1, UnwantsOrNot
<1>5. CASE RecheckStart \/ RecheckNext \/ RecheckPop \/ RecheckEnd
  <2>1. wanted' = wanted /\ library' = library
    BY <1>5, Zenon DEF RecheckStart, RecheckNext, RecheckPop, RecheckEnd, tables
  <2> QED
    BY <1>1, <1>2, <2>1 DEF Ledger!ledger
<1> QED
  BY <1>3, <1>4, <1>5 DEF RecheckStep

(* Every step of the pipeline is a step of the ledger, or none.            *)
LEMMA LedgerStep == LedgerInv /\ [Next]_vars => [Ledger!Next]_(Ledger!ledger)
<1> SUFFICES ASSUME LedgerInv, Next \/ UNCHANGED vars
             PROVE  Ledger!Next \/ UNCHANGED Ledger!ledger
  OBVIOUS
<1> USE DEF LedgerInv, TypeInv
<1>1. ASSUME UNCHANGED <<queue, pc, job, mutex, ended, wanted, library>>
      PROVE  UNCHANGED Ledger!ledger
  <2>1. Tickets' = Tickets /\ Tried' = Tried
    BY <1>1, TicketsStay, TriedStays
  <2> QED
    BY <1>1, <2>1 DEF Ledger!ledger
<1>2. CASE UserStep
  <2>1. ASSUME NEW p \in Workers, NEW x \in Titles,
               Webhook(p, x) \/ Submit(p, x) \/ RetryRequest(p, x)
        PROVE  Ledger!Next
    <3>1. Spawn(p, x)
      BY <2>1 DEF Webhook, Submit, RetryRequest
    <3>2. queue' = queue
      BY <3>1 DEF Spawn
    <3> QED
      BY <3>1, <3>2, SpawnAccepts
  <2>2. CASE (\E x \in Titles : DeleteRequest(x)) \/ Reconcile
    BY <1>1, <2>2, Zenon DEF DeleteRequest, Reconcile, memory, history
  <2> QED
    BY <1>2, <2>1, <2>2 DEF UserStep
<1>3. CASE PruneWebhooks \/ (\E part \in Parts : Appear(part)) \/ UNCHANGED vars
  BY <1>1, <1>3, Zenon DEF PruneWebhooks, Appear, memory, history, tables, vars
<1>4. ASSUME NEW p \in Threads, ProcessStep(p)
      PROVE  Ledger!Next \/ UNCHANGED Ledger!ledger
  BY <1>4, BusyExchanges, EnterTries, LocalImplements, EndImplements, Zenon
  DEF ProcessStep, LocalStepOf, EndStepOf
<1>5. CASE RunDue \/ EndDue
  <2>1. UNCHANGED <<queue, job, mutex, ended, wanted, library>>
    BY <1>5, Zenon DEF RunDue, EndDue, tables, history
  <2>2. \A p \in Threads : pc'[p] = "enter" <=> pc[p] = "enter"
    BY <1>5 DEF RunDue, EndDue, Goto, TypeOK
  <2>3. Tickets' = Tickets /\ Tried' = Tried
    BY <2>1, <2>2, TicketsStay, TriedStays
  <2> QED
    BY <2>1, <2>3 DEF Ledger!ledger
<1>6. ASSUME NEW r \in queue, BecomeDue(r) PROVE UNCHANGED Ledger!ledger
  <2> DEFINE s == [r EXCEPT !.due = TRUE]
  <2>1. RowTicket(s) = RowTicket(r)
    BY DEF RowTicket, TypeOK, Row
  <2>2. /\ queue' = (queue \ {r}) \cup {s}
        /\ UNCHANGED <<pc, job, mutex, ended, wanted, library>>
    BY <1>6, Zenon DEF BecomeDue, memory, history
  <2> HIDE DEF s
  <2>3. {RowTicket(a) : a \in queue}' = {RowTicket(a) : a \in queue}
    <3>1. {RowTicket(a) : a \in queue'} = {RowTicket(a) : a \in queue}
      BY <2>1, <2>2
    <3> QED
      BY <3>1 DEF RowTicket
  <2>4. Tickets' = Tickets
    BY <2>2, <2>3 DEF Tickets, ThreadTicket
  <2>5. Tried' = Tried
    BY <2>2, TriedStays
  <2> QED
    BY <2>2, <2>4, <2>5 DEF Ledger!ledger
<1>7. CASE Restart
  <2>1. /\ mutex' = [x \in Titles |-> NoThread] /\ pc' = [p \in Threads |-> "idle"]
        /\ UNCHANGED <<queue, ended, wanted, library>>
    BY <1>7, Zenon DEF Restart, tables
  <2>2. Tickets' \subseteq Tickets
    BY <2>1 DEF Tickets, RowTicket
  <2>3. Tried' = [x \in Titles |-> -1]
    BY <2>1 DEF Tried
  <2>4. Ledger!Crash
    BY <2>1, <2>2, <2>3 DEF Ledger!Crash, Ledger!Untried
  <2> QED
    BY <2>4 DEF Ledger!Next
<1> QED
  BY <1>2, <1>3, <1>4, <1>5, <1>6, <1>7, TakeExchanges, RecheckImplements, Zenon
  DEF Next, RetryStep

(* The pipeline keeps what RequestLedger promises, across collisions,      *)
(* retries, the recheck and restarts: no request is lost or doubled except *)
(* by a restart, and each ends settled or after its last attempt.          *)
THEOREM PipelineImplementsLedger == Spec => ImplementsLedger
BY LedgerInvAlways, LedgerInit, LedgerStep, PTL DEF Spec, ImplementsLedger, Ledger!Spec
-----------------------------------------------------------------------------
(* Where the requests for a title are: in the rows of the queue and in the *)
(* threads.  A step moves one request at a time.                           *)
LEMMA OneMoreOneLess ==
  ASSUME NEW S, IsFiniteSet(S), NEW e
  PROVE  /\ Cardinality(S) \in Nat
         /\ e \notin S => Cardinality(S \cup {e}) = Cardinality(S) + 1
         /\ e \in S => Cardinality(S \ {e}) = Cardinality(S) - 1
<1>1. Cardinality(S) \in Nat
  BY FS_CardinalityType
<1>2. e \notin S => Cardinality(S \cup {e}) = Cardinality(S) + 1
  BY FS_AddElement
<1>3. e \in S => Cardinality(S \ {e}) = Cardinality(S) - 1
  BY FS_RemoveElement
<1> QED
  BY <1>1, <1>2, <1>3

LEMMA CountsFinite ==
  ASSUME IsFiniteSet(queue), NEW x
  PROVE  /\ IsFiniteSet(RowsOf(x)) /\ IsFiniteSet(InFlight(x))
         /\ Cardinality(RowsOf(x)) \in Nat /\ Cardinality(InFlight(x)) \in Nat
<1>1. IsFiniteSet(Threads)
  BY NamesAssumption, FS_AddElement DEF Threads
<1>2. RowsOf(x) \subseteq queue /\ InFlight(x) \subseteq Threads
  BY DEF RowsOf, InFlight
<1>3. IsFiniteSet(RowsOf(x)) /\ IsFiniteSet(InFlight(x))
  BY <1>1, <1>2, FS_Subset
<1> QED
  BY <1>3, FS_CardinalityType

(* What the title's requests amount to after a step.                       *)
Rows(x)    == Cardinality(RowsOf(x))
Flying(x)  == Cardinality(InFlight(x))
Balance(x) == ended[x] + Rows(x) + Flying(x)
ConservedInv == IsFiniteSet(queue) /\ RequestsConserved

LEMMA ThreadComesIn ==
  ASSUME IsFiniteSet(queue), NEW p \in Threads, OthersStay(p), pc[p] \in {"idle", "loop"},
         pc'[p] = "enter", NEW x \in Titles
  PROVE  Flying(x)' = IF x = job'[p].title THEN Flying(x) + 1 ELSE Flying(x)
<1>1. p \notin InFlight(x)
  BY DEF InFlight, Within
<1>2. InFlight(x)' = IF x = job'[p].title THEN InFlight(x) \cup {p} ELSE InFlight(x)
  BY <1>1 DEF InFlight, Within, OthersStay
<1>3. IsFiniteSet(InFlight(x))
  BY CountsFinite
<1> QED
  BY <1>1, <1>2, <1>3, OneMoreOneLess DEF Flying

LEMMA ThreadGoesOut ==
  ASSUME IsFiniteSet(queue), NEW p \in Threads, OthersStay(p), pc[p] \notin {"idle", "loop"},
         pc'[p] \in {"idle", "loop"}, NEW x \in Titles
  PROVE  Flying(x)' = IF x = job[p].title THEN Flying(x) - 1 ELSE Flying(x)
<1>1. x = job[p].title <=> p \in InFlight(x)
  BY DEF InFlight, Within
<1>2. InFlight(x)' = InFlight(x) \ {p}
  BY DEF InFlight, Within, OthersStay
<1>3. IsFiniteSet(InFlight(x))
  BY CountsFinite
<1>4. p \notin InFlight(x) => InFlight(x) \ {p} = InFlight(x)
  OBVIOUS
<1> QED
  BY <1>1, <1>2, <1>3, <1>4, OneMoreOneLess DEF Flying

LEMMA ThreadsStayIn ==
  ASSUME NEW x, \A p \in Threads : Within(p, x)' <=> Within(p, x)
  PROVE  Flying(x)' = Flying(x)
<1>1. InFlight(x)' = InFlight(x)
  BY DEF InFlight
<1> QED
  BY <1>1 DEF Flying

LEMMA RowComesIn ==
  ASSUME IsFiniteSet(queue), NEW t, NEW n, Enqueue(t, n)
  PROVE  /\ IsFiniteSet(queue')
         /\ \A x \in Titles : Rows(x)' = IF x = t THEN Rows(x) + 1 ELSE Rows(x)
<1> PICK r : /\ queue' = queue \cup {r} /\ \A s \in queue : s.id # r.id
             /\ r.title = t
  BY EnqueueFresh
<1>1. r \notin queue /\ IsFiniteSet(queue')
  BY FS_AddElement
<1>2. ASSUME NEW x \in Titles
      PROVE  Rows(x)' = IF x = t THEN Rows(x) + 1 ELSE Rows(x)
  <2>1. RowsOf(x)' = IF x = t THEN RowsOf(x) \cup {r} ELSE RowsOf(x)
    BY DEF RowsOf
  <2>2. r \notin RowsOf(x) /\ IsFiniteSet(RowsOf(x))
    BY <1>1, CountsFinite DEF RowsOf
  <2> QED
    BY <2>1, <2>2, OneMoreOneLess DEF Rows
<1> QED
  BY <1>1, <1>2

LEMMA RowGoesOut ==
  ASSUME IsFiniteSet(queue), NEW r \in queue, queue' = queue \ {r}
  PROVE  /\ IsFiniteSet(queue')
         /\ \A x \in Titles : Rows(x)' = IF x = r.title THEN Rows(x) - 1 ELSE Rows(x)
<1>1. IsFiniteSet(queue')
  BY FS_RemoveElement
<1>2. ASSUME NEW x \in Titles
      PROVE  Rows(x)' = IF x = r.title THEN Rows(x) - 1 ELSE Rows(x)
  <2>1. RowsOf(x)' = IF x = r.title THEN RowsOf(x) \ {r} ELSE RowsOf(x)
    BY DEF RowsOf
  <2>2. (x = r.title => r \in RowsOf(x)) /\ IsFiniteSet(RowsOf(x))
    BY CountsFinite DEF RowsOf
  <2> QED
    BY <2>1, <2>2, OneMoreOneLess DEF Rows
<1> QED
  BY <1>1, <1>2

(* An account that changes as the starts do is still even.                 *)
LEMMA EvenAccount ==
  ASSUME TypeOK, TypeOK', ConservedInv, IsFiniteSet(queue'), restarts' = restarts,
         \A x \in Titles : Balance(x)' - started'[x] = Balance(x) - started[x]
  PROVE  ConservedInv'
<1>1. ASSUME NEW x \in Titles
      PROVE  Balance(x)' <= started'[x] /\ (restarts' = 0 => Balance(x)' = started'[x])
  <2>1. /\ ended[x] \in Nat /\ ended'[x] \in Nat /\ started[x] \in Nat /\ started'[x] \in Nat
    BY DEF TypeOK
  <2>2. Rows(x) \in Nat /\ Flying(x) \in Nat
    BY CountsFinite DEF ConservedInv, Rows, Flying
  <2>3. Rows(x)' \in Nat /\ Flying(x)' \in Nat
    <3>1. IsFiniteSet(RowsOf(x)') /\ IsFiniteSet(InFlight(x)')
      <4>1. IsFiniteSet(Threads)
        BY NamesAssumption, FS_AddElement DEF Threads
      <4>2. RowsOf(x)' \subseteq queue' /\ InFlight(x)' \subseteq Threads
        BY DEF RowsOf, InFlight
      <4> QED
        BY <4>1, <4>2, FS_Subset
    <3> QED
      BY <3>1, FS_CardinalityType DEF Rows, Flying
  <2>4. Balance(x) \in Int /\ Balance(x)' \in Int
    BY <2>1, <2>2, <2>3 DEF Balance
  <2>5. Balance(x) <= started[x] /\ (restarts = 0 => Balance(x) = started[x])
    BY DEF ConservedInv, RequestsConserved, Balance, Rows, Flying
  <2>6. Balance(x)' - started'[x] = Balance(x) - started[x]
    OBVIOUS
  <2> QED
    BY <2>1, <2>4, <2>5, <2>6
<1> QED
  BY <1>1 DEF ConservedInv, RequestsConserved, Balance, Rows, Flying

LEMMA RowsStay ==
  ASSUME queue' = queue, NEW x
  PROVE  Rows(x)' = Rows(x)
<1>1. RowsOf(x)' = RowsOf(x)
  BY DEF RowsOf
<1> QED
  BY <1>1 DEF Rows

(* The terms of an account are numbers, so that they can be moved.         *)
LEMMA AccountType ==
  ASSUME TypeOK, IsFiniteSet(queue), NEW x \in Titles
  PROVE  ended[x] \in Nat /\ started[x] \in Nat /\ Rows(x) \in Nat /\ Flying(x) \in Nat
BY CountsFinite DEF TypeOK, Rows, Flying

(* The steps that change neither the rows of a title nor its threads.      *)
LEMMA NothingMoves ==
  ASSUME TypeOK, TypeOK', ConservedInv, queue' = queue, UNCHANGED <<started, ended, restarts>>,
         \A p \in Threads, x \in Titles : Within(p, x)' <=> Within(p, x)
  PROVE  ConservedInv'
<1>1. ASSUME NEW x \in Titles
      PROVE  Balance(x)' - started'[x] = Balance(x) - started[x]
  BY RowsStay, ThreadsStayIn DEF Balance
<1> QED
  BY <1>1, EvenAccount DEF ConservedInv

(* A request is accepted: one more is started and one more is in a thread. *)
LEMMA SpawnConserves ==
  ASSUME TypeOK, TypeOK', ConservedInv, NEW p \in Workers, NEW t \in Titles, Spawn(p, t)
  PROVE  ConservedInv'
<1>1. /\ p \in Threads /\ OthersStay(p) /\ pc[p] = "idle" /\ pc'[p] = "enter"
      /\ job'[p].title = t
  BY DEF Spawn, Threads, Goto, OthersStay, TypeOK, NewJob
<1>2. /\ started' = [started EXCEPT ![t] = @ + 1]
      /\ UNCHANGED <<queue, ended, restarts>>
  BY DEF Spawn
<1>3. ASSUME NEW x \in Titles
      PROVE  Balance(x)' - started'[x] = Balance(x) - started[x]
  <2>1. Flying(x)' = IF x = t THEN Flying(x) + 1 ELSE Flying(x)
    BY <1>1, ThreadComesIn DEF ConservedInv
  <2>2. started'[x] = IF x = t THEN started[x] + 1 ELSE started[x]
    BY <1>2 DEF TypeOK
  <2>3. Rows(x)' = Rows(x) /\ ended'[x] = ended[x]
    BY <1>2, RowsStay
  <2> QED
    BY <2>1, <2>2, <2>3, AccountType DEF Balance, ConservedInv
<1> QED
  BY <1>2, <1>3, EvenAccount DEF ConservedInv

(* A busy title: the thread's request goes back into a row.                *)
LEMMA BusyConserves ==
  ASSUME TypeOK, TypeOK', ConservedInv, NEW p \in Threads, EnterBusy(p)
  PROVE  ConservedInv'
<1>1. /\ OthersStay(p) /\ pc[p] = "enter" /\ pc'[p] \in {"idle", "loop"}
      /\ job[p].title \in Titles
  BY JobFields DEF EnterBusy, Return, Goto, OthersStay, TypeOK
<1>2. Enqueue(job[p].title, job[p].attempt) /\ UNCHANGED <<started, ended, restarts>>
  BY DEF EnterBusy, history
<1>3. IsFiniteSet(queue')
  BY <1>2, RowComesIn DEF ConservedInv
<1>4. ASSUME NEW x \in Titles
      PROVE  Balance(x)' - started'[x] = Balance(x) - started[x]
  <2>1. Flying(x)' = IF x = job[p].title THEN Flying(x) - 1 ELSE Flying(x)
    BY <1>1, ThreadGoesOut DEF ConservedInv
  <2>2. Rows(x)' = IF x = job[p].title THEN Rows(x) + 1 ELSE Rows(x)
    BY <1>2, RowComesIn DEF ConservedInv
  <2> QED
    BY <1>2, <2>1, <2>2, AccountType DEF Balance, ConservedInv
<1> QED
  BY <1>2, <1>3, <1>4, EvenAccount

(* The lock is released: the request ends, or waits in a row again.        *)
LEMMA EndConserves ==
  ASSUME TypeOK, TypeOK', ConservedInv, NEW p \in Threads, EndStepOf(p)
  PROVE  ConservedInv'
<1> DEFINE t == job[p].title
<1>1. /\ OthersStay(p) /\ pc[p] \notin {"idle", "loop"} /\ pc'[p] \in {"idle", "loop"}
      /\ t \in Titles
  BY EndShape, JobFields DEF Processing
<1>2. \/ queue' = queue /\ End(p)
      \/ Enqueue(t, job[p].attempt + 1) /\ ended' = ended
  BY DEF EndStepOf, PopWantedRaises, Leave, UpsertWanted, Schedule, tables
<1>3. UNCHANGED <<started, restarts>>
  BY DEF EndStepOf, PopWantedRaises, Leave, UpsertWanted, Schedule
<1>4. \A x \in Titles : Flying(x)' = IF x = t THEN Flying(x) - 1 ELSE Flying(x)
  BY <1>1, ThreadGoesOut DEF ConservedInv
<1>5. CASE queue' = queue /\ End(p)
  <2>1. ASSUME NEW x \in Titles
        PROVE  Balance(x)' - started'[x] = Balance(x) - started[x]
    <3>1. ended'[x] = IF x = t THEN ended[x] + 1 ELSE ended[x]
      BY <1>5 DEF End, TypeOK
    <3>2. Rows(x)' = Rows(x)
      BY <1>5, RowsStay
    <3> QED
      BY <1>3, <1>4, <3>1, <3>2, AccountType DEF Balance, ConservedInv
  <2> QED
    BY <1>3, <1>5, <2>1, EvenAccount DEF ConservedInv
<1>6. CASE Enqueue(t, job[p].attempt + 1) /\ ended' = ended
  <2>1. /\ IsFiniteSet(queue')
        /\ \A x \in Titles : Rows(x)' = IF x = t THEN Rows(x) + 1 ELSE Rows(x)
    BY <1>6, RowComesIn DEF ConservedInv
  <2>2. ASSUME NEW x \in Titles
        PROVE  Balance(x)' - started'[x] = Balance(x) - started[x]
    BY <1>3, <1>4, <1>6, <2>1, AccountType DEF Balance, ConservedInv
  <2> QED
    BY <1>3, <2>1, <2>2, EvenAccount
<1> QED
  BY <1>2, <1>5, <1>6

(* run_due takes a row: its request moves into the scheduler's thread.     *)
LEMMA TakeConserves ==
  ASSUME TypeOK, TypeOK', QueueInv, ConservedInv, TakeDue
  PROVE  ConservedInv'
<1> PICK r \in due : /\ queue' = queue \ {r}
                     /\ job' = [job EXCEPT ![Retrier] = NewJob(r.title, r.attempt)]
  BY DEF TakeDue
<1>1. r \in queue /\ Retrier \in Threads /\ UNCHANGED <<started, ended, restarts>>
  BY DEF QueueInv, Threads, TakeDue, history
<1>2. /\ OthersStay(Retrier) /\ pc[Retrier] = "loop" /\ pc'[Retrier] = "enter"
      /\ job'[Retrier].title = r.title
  BY <1>1 DEF TakeDue, Goto, OthersStay, TypeOK, NewJob
<1>3. /\ IsFiniteSet(queue')
      /\ \A x \in Titles : Rows(x)' = IF x = r.title THEN Rows(x) - 1 ELSE Rows(x)
  BY <1>1, RowGoesOut DEF ConservedInv
<1>4. ASSUME NEW x \in Titles
      PROVE  Balance(x)' - started'[x] = Balance(x) - started[x]
  <2>1. Flying(x)' = IF x = r.title THEN Flying(x) + 1 ELSE Flying(x)
    BY <1>1, <1>2, ThreadComesIn DEF ConservedInv
  <2> QED
    BY <1>1, <1>3, <2>1, AccountType DEF Balance, ConservedInv
<1> QED
  BY <1>1, <1>3, <1>4, EvenAccount

(* A row becomes due: it is still one row of the same title.               *)
LEMMA DueConserves ==
  ASSUME TypeOK, TypeOK', QueueInv, ConservedInv, NEW r \in queue, BecomeDue(r)
  PROVE  ConservedInv'
<1> DEFINE s == [r EXCEPT !.due = TRUE]
<1>1. s.id = r.id /\ s.title = r.title /\ s.due
  BY DEF TypeOK, Row
<1>2. /\ queue' = (queue \ {r}) \cup {s} /\ ~r.due
      /\ UNCHANGED <<pc, job, started, ended, restarts>>
  BY Zenon DEF BecomeDue, memory, history
<1> HIDE DEF s
<1>3. s \notin queue
  BY <1>1, <1>2 DEF QueueInv
<1>4. IsFiniteSet(queue')
  BY <1>2, FS_RemoveElement, FS_AddElement DEF ConservedInv
<1>5. ASSUME NEW x \in Titles PROVE Rows(x)' = Rows(x)
  <2>1. CASE x = r.title
    <3>1. RowsOf(x)' = (RowsOf(x) \ {r}) \cup {s} /\ r \in RowsOf(x)
      BY <1>1, <1>2, <2>1 DEF RowsOf
    <3>2. s \notin RowsOf(x) \ {r}
      BY <1>3 DEF RowsOf
    <3>3. IsFiniteSet(RowsOf(x)) /\ Cardinality(RowsOf(x)) \in Nat
      BY CountsFinite DEF ConservedInv
    <3>4. IsFiniteSet(RowsOf(x) \ {r}) /\ Cardinality(RowsOf(x) \ {r}) = Cardinality(RowsOf(x)) - 1
      BY <3>1, <3>3, FS_RemoveElement
    <3>5. Cardinality((RowsOf(x) \ {r}) \cup {s}) = Cardinality(RowsOf(x) \ {r}) + 1
      BY <3>2, <3>4, FS_AddElement
    <3> QED
      BY <3>1, <3>3, <3>4, <3>5 DEF Rows
  <2>2. CASE x # r.title
    <3>1. RowsOf(x)' = RowsOf(x)
      BY <1>1, <1>2, <2>2 DEF RowsOf
    <3> QED
      BY <3>1 DEF Rows
  <2> QED
    BY <2>1, <2>2
<1>6. ASSUME NEW x \in Titles
      PROVE  Balance(x)' - started'[x] = Balance(x) - started[x]
  <2>1. Flying(x)' = Flying(x)
    BY <1>2, ThreadsStayIn DEF Within
  <2> QED
    BY <1>2, <1>5, <2>1 DEF Balance
<1> QED
  BY <1>2, <1>4, <1>6, EvenAccount

(* The process dies with its threads: their requests are the ones lost.    *)
LEMMA RestartLoses ==
  ASSUME TypeOK, ConservedInv, Restart
  PROVE  ConservedInv'
<1>1. /\ UNCHANGED <<queue, started, ended>> /\ restarts' # 0
      /\ pc' = [p \in Threads |-> "idle"]
  BY DEF Restart, tables, TypeOK
<1>2. ASSUME NEW x \in Titles PROVE Balance(x)' <= started'[x]
  <2>1. Flying(x)' = 0
    <3>1. InFlight(x)' = {}
      BY <1>1 DEF InFlight, Within
    <3> QED
      BY <3>1, FS_EmptySet DEF Flying
  <2>2. Rows(x)' = Rows(x)
    BY <1>1, RowsStay
  <2>3. Balance(x) <= started[x]
    BY DEF ConservedInv, RequestsConserved, Balance, Rows, Flying
  <2>4. ended[x] \in Nat /\ started[x] \in Nat /\ Rows(x) \in Nat /\ Flying(x) \in Nat
    BY AccountType DEF ConservedInv
  <2> QED
    BY <1>1, <2>1, <2>2, <2>3, <2>4 DEF Balance
<1> QED
  BY <1>1, <1>2 DEF ConservedInv, RequestsConserved, Balance, Rows, Flying

LEMMA ConservedInit == Init => ConservedInv
<1> SUFFICES ASSUME Init PROVE ConservedInv
  OBVIOUS
<1>1. ASSUME NEW x \in Titles PROVE RowsOf(x) = {} /\ InFlight(x) = {}
  BY DEF Init, RowsOf, InFlight, Within
<1> QED
  BY <1>1, FS_EmptySet DEF Init, ConservedInv, RequestsConserved

LEMMA ConservedStep ==
  LedgerInv /\ LedgerInv' /\ ConservedInv /\ [Next]_vars => ConservedInv'
<1> SUFFICES ASSUME LedgerInv, TypeOK', ConservedInv, Next \/ UNCHANGED vars
             PROVE  ConservedInv'
  BY DEF LedgerInv, TypeInv
<1> USE DEF LedgerInv, TypeInv
<1>1. ASSUME UNCHANGED <<queue, pc, job, started, ended, restarts>> PROVE ConservedInv'
  BY <1>1, NothingMoves DEF Within
<1>2. CASE UserStep
  <2>1. CASE \E p \in Workers, x \in Titles :
               Webhook(p, x) \/ Submit(p, x) \/ RetryRequest(p, x)
    BY <2>1, SpawnConserves DEF Webhook, Submit, RetryRequest
  <2>2. CASE (\E x \in Titles : DeleteRequest(x)) \/ Reconcile
    BY <1>1, <2>2, Zenon DEF DeleteRequest, Reconcile, memory, history
  <2> QED
    BY <1>2, <2>1, <2>2 DEF UserStep
<1>3. CASE PruneWebhooks \/ (\E part \in Parts : Appear(part)) \/ UNCHANGED vars
  BY <1>1, <1>3, Zenon DEF PruneWebhooks, Appear, memory, history, tables, vars
<1>4. CASE RecheckStep
  BY <1>1, <1>4, Zenon DEF RecheckStep, RecheckStart, RecheckNext, RecheckSearch,
     RecheckFound, RecheckPop, RecheckEnd, tables, history
<1>5. ASSUME NEW p \in Threads, Enter(p) PROVE ConservedInv'
  <2>1. /\ UNCHANGED <<queue, started, ended, restarts, job>> /\ pc[p] = "enter"
        /\ pc' = [pc EXCEPT ![p] = "insert"]
    BY <1>5, Zenon DEF Enter, Goto, tables, history
  <2>2. \A q \in Threads, x \in Titles : Within(q, x)' <=> Within(q, x)
    BY <2>1 DEF Within, TypeOK
  <2> QED
    BY <2>1, <2>2, NothingMoves
<1>6. ASSUME NEW p \in Threads, LocalStepOf(p) PROVE ConservedInv'
  <2>1. UNCHANGED <<started, restarts>>
    BY <1>6, Zenon DEF LocalStepOf, Insert, Search, Verdict, Unwant, PopWanted, Mark, history
  <2>2. /\ Processing(p) /\ Processing(p)' /\ OthersStay(p) /\ Stands(p)
        /\ queue' = queue /\ ended' = ended
    BY <1>6, LocalShape
  <2>3. \A q \in Threads, x \in Titles : Within(q, x)' <=> Within(q, x)
    BY <2>2 DEF Within, Processing, OthersStay, Stands
  <2> QED
    BY <2>1, <2>2, <2>3, NothingMoves
<1>7. CASE RunDue \/ EndDue
  <2>1. UNCHANGED <<queue, job, started, ended, restarts>>
    BY <1>7, Zenon DEF RunDue, EndDue, tables, history
  <2>2. \A q \in Threads, x \in Titles : Within(q, x)' <=> Within(q, x)
    BY <1>7, <2>1 DEF RunDue, EndDue, Goto, Within, TypeOK
  <2> QED
    BY <2>1, <2>2, NothingMoves
<1>8. ASSUME NEW p \in Threads, ProcessStep(p) PROVE ConservedInv'
  BY <1>5, <1>6, <1>8, BusyConserves, EndConserves, Zenon DEF ProcessStep, LocalStepOf, EndStepOf
<1> QED
  BY <1>2, <1>3, <1>4, <1>7, <1>8, TakeConserves, DueConserves, RestartLoses, Zenon
  DEF Next, RetryStep

(* A request is at any time in one place: in a thread, in one row of the   *)
(* retry queue, or at its end.  Collisions on the mutex and retries never  *)
(* fork one, and only a restart of the process loses one.                  *)
THEOREM RequestsAreConserved == Spec => []RequestsConserved
<1>1. ConservedInv => RequestsConserved
  BY DEF ConservedInv
<1> QED
  BY <1>1, LedgerInvAlways, ConservedInit, ConservedStep, PTL DEF Spec
=============================================================================
