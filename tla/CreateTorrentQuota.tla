------------------------- MODULE CreateTorrentQuota -------------------------
(***************************************************************************)
(* The client-side budget for TorBox's POST /torrents/createtorrent        *)
(* (torbox.py).  Every worker thread that adds a magnet counts the calls   *)
(* in the in-memory log over one hour and over one minute, gives up when   *)
(* either count is near its limit, appends its own call to the log, writes *)
(* it to the database and only then sends the POST.  Nothing holds a lock  *)
(* from the count to the append.  The in-memory log is filled lazily from  *)
(* the database by the first thread that asks for the usage after a start. *)
(***************************************************************************)
EXTENDS Integers, FiniteSets

CONSTANTS
  Workers,       \* threads that may call add_magnet or show the usage
  HourLimit,     \* _CREATETORRENT_LIMIT_HOUR
  MinuteLimit,   \* _CREATETORRENT_LIMIT_MIN
  HourSpan,      \* 3600 s, in ticks
  MinuteSpan,    \* 60 s, in ticks
  PruneAge,      \* 7200 s, in ticks: older rows leave the table
  MaxTime,       \* bound: last tick
  MaxCalls,      \* bound: calls recorded in all
  MaxFaults,     \* bound: database accesses that raise
  MaxRestarts    \* bound: times the process dies and starts again

ASSUME WorkersAssumption == IsFiniteSet(Workers) /\ Workers # {}
ASSUME LimitAssumption == HourLimit \in Nat /\ MinuteLimit \in Nat
                          /\ HourLimit >= 3 /\ MinuteLimit >= 2
ASSUME SpanAssumption == /\ HourSpan \in Nat /\ MinuteSpan \in Nat
                         /\ PruneAge \in Nat /\ MinuteSpan <= HourSpan
                         /\ HourSpan <= PruneAge
ASSUME BoundAssumption == /\ MaxTime \in Nat /\ MaxCalls \in Nat
                          /\ MaxRestarts \in Nat /\ MaxFaults \in Nat

VARIABLES
  now,       \* time.time(), in ticks
  pc,        \* where each worker is inside add_magnet / createtorrent_usage
  call,      \* the call each worker recorded last
  rows,      \* the rows a loading worker has still to append
  mem,       \* _CREATETORRENT_LOG
  loaded,    \* _CREATETORRENT_LOADED
  disk,      \* table createtorrent_log
  sent,      \* the calls POSTed to TorBox (history)
  calls,     \* how many calls were recorded: the identity of the next one
  restarts,  \* how often the process restarted
  faults     \* how many database accesses raised (history)

vars == <<now, pc, call, rows, mem, loaded, disk, sent, calls, restarts, faults>>

(* A call is its identity (a history value: the rows carry only the time)  *)
(* and its time.  A log entry also says whether this process recorded it   *)
(* or read it back: the loader can append a row that is in the log already.*)
Call == [id : Nat, ts : Nat]
Entry == [id : Nat, ts : Nat, src : {"own", "db"}]
NoCall == [id |-> 0, ts |-> 0]

Steps == {"idle", "select", "append", "hour", "minute", "record", "persist", "post"}

Recent(entries, span) == {e \in entries : e.ts >= now - span}
CallOf(e) == [id |-> e.id, ts |-> e.ts]
CallsIn(entries) == {CallOf(e) : e \in entries}
-----------------------------------------------------------------------------
Init ==
  /\ now = 0
  /\ pc = [w \in Workers |-> "idle"]
  /\ call = [w \in Workers |-> NoCall]
  /\ rows = [w \in Workers |-> {}]
  /\ mem = {}
  /\ loaded = FALSE
  /\ disk = {}
  /\ sent = {}
  /\ calls = 0
  /\ restarts = 0 /\ faults = 0

(* A database access raises and its caller swallows it.                    *)
Fault == faults < MaxFaults /\ faults' = faults + 1

(* createtorrent_usage: the flag goes up before the rows are read.         *)
AskUsage(w) ==
  /\ pc[w] = "idle"
  /\ pc' = [pc EXCEPT ![w] = IF loaded THEN "hour" ELSE "select"]
  /\ loaded' = TRUE
  /\ UNCHANGED <<now, call, rows, mem, disk, sent, calls, restarts, faults>>

(* Faulty variant: only the rows of the last minute are read back.         *)
SelectRowsOfMinute(w) ==
  /\ pc[w] = "select"
  /\ rows' = [rows EXCEPT ![w] = Recent(disk, MinuteSpan)]
  /\ pc' = [pc EXCEPT ![w] = "append"]
  /\ UNCHANGED <<now, call, mem, loaded, disk, sent, calls, restarts, faults>>

(* get_createtorrent_log: the rows of the last hour.                       *)
SelectRows(w) ==
  /\ pc[w] = "select"
  /\ \/ /\ rows' = [rows EXCEPT ![w] = Recent(disk, HourSpan)]
        /\ pc' = [pc EXCEPT ![w] = "append"]
        /\ UNCHANGED faults
     \/ /\ Fault
        /\ pc' = [pc EXCEPT ![w] = "hour"]
        /\ UNCHANGED rows
  /\ UNCHANGED <<now, call, mem, loaded, disk, sent, calls, restarts>>

(* Faulty variant: the row goes into the log as the table holds it.        *)
AppendBareRow(w) ==
  /\ pc[w] = "append"
  /\ \E r \in rows[w] :
       /\ mem' = mem \cup {r}
       /\ rows' = [rows EXCEPT ![w] = @ \ {r}]
  /\ UNCHANGED <<now, pc, call, loaded, disk, sent, calls, restarts, faults>>

(* The loader appends row after row without the log's lock.                *)
AppendRow(w) ==
  /\ pc[w] = "append"
  /\ \E r \in rows[w] :
       /\ mem' = mem \cup {[id |-> r.id, ts |-> r.ts, src |-> "db"]}
       /\ rows' = [rows EXCEPT ![w] = @ \ {r}]
  /\ UNCHANGED <<now, pc, call, loaded, disk, sent, calls, restarts, faults>>

AppendDone(w) ==
  /\ pc[w] = "append"
  /\ rows[w] = {}
  /\ pc' = [pc EXCEPT ![w] = "hour"]
  /\ UNCHANGED <<now, call, rows, mem, loaded, disk, sent, calls, restarts, faults>>

(* Faulty variants: the margin below the limit one call too small.         *)
HourExhaustedLate == Cardinality(Recent(mem, HourSpan)) >= HourLimit - 1
MinuteExhaustedLate == Cardinality(Recent(mem, MinuteSpan)) >= MinuteLimit
HourExhausted == Cardinality(Recent(mem, HourSpan)) >= HourLimit - 2
MinuteExhausted == Cardinality(Recent(mem, MinuteSpan)) >= MinuteLimit - 1

(* add_magnet counts the last hour, then the last minute; RateLimited ends *)
(* the call.  The UI's usage page ends after the first count.              *)
CountHour(w) ==
  /\ pc[w] = "hour"
  /\ pc' = [pc EXCEPT ![w] = IF HourExhausted THEN "idle" ELSE "minute"]
  /\ UNCHANGED <<now, call, rows, mem, loaded, disk, sent, calls, restarts, faults>>

CountMinute(w) ==
  /\ pc[w] = "minute"
  /\ pc' = [pc EXCEPT ![w] = IF MinuteExhausted THEN "idle" ELSE "record"]
  /\ UNCHANGED <<now, call, rows, mem, loaded, disk, sent, calls, restarts, faults>>

ShowUsage(w) ==
  /\ pc[w] = "hour"
  /\ pc' = [pc EXCEPT ![w] = "idle"]
  /\ UNCHANGED <<now, call, rows, mem, loaded, disk, sent, calls, restarts, faults>>

(* _record_createtorrent: the log first, under its lock ...                *)
Record(w) ==
  /\ pc[w] = "record"
  /\ calls < MaxCalls
  /\ call' = [call EXCEPT ![w] = [id |-> calls, ts |-> now]]
  /\ mem' = mem \cup {[id |-> calls, ts |-> now, src |-> "own"]}
  /\ calls' = calls + 1
  /\ pc' = [pc EXCEPT ![w] = "persist"]
  /\ UNCHANGED <<now, rows, loaded, disk, sent, restarts, faults>>

(* Faulty variant: the table keeps less than the hour that is counted.     *)
PersistPruningTheHour(w) ==
  /\ pc[w] = "persist"
  /\ disk' = {r \in disk \cup {call[w]} : r.ts > call[w].ts - HourSpan}
  /\ pc' = [pc EXCEPT ![w] = "post"]
  /\ UNCHANGED <<now, call, rows, mem, loaded, sent, calls, restarts, faults>>

(* ... then the table, which also loses its old rows.                      *)
Persist(w) ==
  /\ pc[w] = "persist"
  /\ \/ /\ disk' = {r \in disk \cup {call[w]} : r.ts >= call[w].ts - PruneAge}
        /\ UNCHANGED faults
     \/ Fault /\ UNCHANGED disk
  /\ pc' = [pc EXCEPT ![w] = "post"]
  /\ UNCHANGED <<now, call, rows, mem, loaded, sent, calls, restarts>>

(* requests.post: whatever TorBox answers (200, 429, an error) or whether  *)
(* it answers at all, the call stays counted.                              *)
Post(w) ==
  /\ pc[w] = "post"
  /\ sent' = sent \cup {call[w]}
  /\ pc' = [pc EXCEPT ![w] = "idle"]
  /\ UNCHANGED <<now, call, rows, mem, loaded, disk, calls, restarts, faults>>

Tick ==
  /\ now < MaxTime
  /\ now' = now + 1
  /\ UNCHANGED <<pc, call, rows, mem, loaded, disk, sent, calls, restarts, faults>>

(* Faulty variant: the flag of the last life is still up.                  *)
RestartTakenForLoaded ==
  /\ restarts < MaxRestarts
  /\ restarts' = restarts + 1
  /\ pc' = [w \in Workers |-> "idle"]
  /\ call' = [w \in Workers |-> NoCall]
  /\ rows' = [w \in Workers |-> {}]
  /\ mem' = {}
  /\ UNCHANGED <<now, loaded, disk, sent, calls, faults>>

(* The process dies at any point; only the table survives.                 *)
Restart ==
  /\ restarts < MaxRestarts
  /\ restarts' = restarts + 1
  /\ pc' = [w \in Workers |-> "idle"]
  /\ call' = [w \in Workers |-> NoCall]
  /\ rows' = [w \in Workers |-> {}]
  /\ mem' = {}
  /\ loaded' = FALSE
  /\ UNCHANGED <<now, disk, sent, calls, faults>>

Step(w) ==
  \/ AskUsage(w) \/ SelectRows(w) \/ AppendRow(w) \/ AppendDone(w)
  \/ CountHour(w) \/ CountMinute(w) \/ ShowUsage(w)
  \/ Record(w) \/ Persist(w) \/ Post(w)

Next == (\E w \in Workers : Step(w)) \/ Tick \/ Restart

Spec == Init /\ [][Next]_vars
-----------------------------------------------------------------------------
(* The variables hold values of their kinds.                               *)
TypeOK ==
  /\ now \in Nat
  /\ pc \in [Workers -> Steps]
  /\ call \in [Workers -> Call]
  /\ rows \in [Workers -> SUBSET Call]
  /\ mem \subseteq Entry
  /\ loaded \in BOOLEAN
  /\ disk \subseteq Call
  /\ sent \subseteq Call
  /\ calls \in Nat
  /\ restarts \in Nat /\ faults \in Nat

(* What this process recorded within the span, without what it read back.  *)
Own(span) == {e \in Recent(mem, span) : e.src = "own"}
PassedHour == {w \in Workers : pc[w] \in {"minute", "record"}}
PassedMinute == {w \in Workers : pc[w] = "record"}

(* Nothing reserves a slot between count and append, so the hourly budget  *)
(* can be overshot, but only by the threads already past the count: what   *)
(* one process recorded in an hour, with those still to come, never        *)
(* exceeds HourLimit - 3 plus the number of threads.                       *)
HourOvershootBounded ==
  Cardinality(Own(HourSpan)) + Cardinality(PassedHour)
    <= HourLimit - 3 + Cardinality(Workers)

(* The same for the burst limit of a minute, whose margin is one call.     *)
MinuteOvershootBounded ==
  Cardinality(Own(MinuteSpan)) + Cardinality(PassedMinute)
    <= MinuteLimit - 2 + Cardinality(Workers)

(* A call is in the table before it is on the wire: whenever the process   *)
(* dies, every call TorBox saw in the last hour can be counted again       *)
(* (torbox.py:42-50 runs before the POST at line 103).                     *)
SentCallsArePersisted ==
  faults = 0 => Recent(sent, HourSpan) \subseteq disk

LoadFinished == loaded /\ \A w \in Workers : pc[w] \notin {"select", "append"}

(* Once the lazy load is over the log lacks no call of the last hour that  *)
(* TorBox saw, those of earlier lives of the process included.             *)
LoadedLogIsComplete ==
  (faults = 0 /\ LoadFinished) =>
     Recent(sent, HourSpan) \subseteq CallsIn(mem)

(* "Populate in-memory log from DB on startup so counter survives          *)
(* restarts" (torbox.py:32): a thread that passes the hourly check has     *)
(* counted at least the calls the table holds for that hour.               *)
UsageSurvivesRestart ==
  [][\A w \in Workers :
       faults = 0 /\ pc[w] = "hour" /\ pc'[w] = "minute" =>
         Cardinality(Recent(disk, HourSpan)) <= Cardinality(Recent(mem, HourSpan))]_vars

(* "we never even send a request we know TorBox will reject with 429"      *)
(* (torbox.py:82-83): the calls of one hour, over all lives of the         *)
(* process, stay within the limit less its margin plus one per thread.     *)
SentWithinMargin ==
  faults = 0 =>
    Cardinality(Recent(sent, HourSpan)) <= HourLimit - 3 + Cardinality(Workers)
=============================================================================
