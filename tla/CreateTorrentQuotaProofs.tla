---------------------- MODULE CreateTorrentQuotaProofs ----------------------
(***************************************************************************)
(* Theorems about CreateTorrentQuota for every number of threads, limit,   *)
(* window and bound.                                                       *)
(***************************************************************************)
EXTENDS CreateTorrentQuota, FiniteSetTheorems, TLAPS

(* What Init and Restart give the threads is typed.                        *)
LEMMA FreshThreads ==
  /\ [w \in Workers |-> "idle"] \in [Workers -> Steps]
  /\ [w \in Workers |-> NoCall] \in [Workers -> Call]
  /\ [w \in Workers |-> {}] \in [Workers -> SUBSET Call]
<1>1. [w \in Workers |-> "idle"] \in [Workers -> Steps]
  BY DEF Steps
<1>2. [w \in Workers |-> NoCall] \in [Workers -> Call]
  BY DEF NoCall, Call
<1>3. [w \in Workers |-> {}] \in [Workers -> SUBSET Call]
  <2>1. {} \in SUBSET Call
    OBVIOUS
  <2> QED
    BY <2>1, Zenon
<1> QED
  BY <1>1, <1>2, <1>3

LEMMA TypeInit == Init => TypeOK
<1> SUFFICES ASSUME Init PROVE TypeOK
  OBVIOUS
<1>1. /\ pc \in [Workers -> Steps]
      /\ call \in [Workers -> Call]
      /\ rows \in [Workers -> SUBSET Call]
  BY FreshThreads, Zenon DEF Init
<1>2. /\ now \in Nat /\ calls \in Nat /\ restarts \in Nat /\ faults \in Nat
      /\ mem = {} /\ disk = {} /\ sent = {} /\ loaded \in BOOLEAN
  BY DEF Init
<1> QED
  BY <1>1, <1>2 DEF TypeOK

LEMMA TypeStep == TypeOK /\ [Next]_vars => TypeOK'
<1> SUFFICES ASSUME TypeOK, [Next]_vars
             PROVE  TypeOK'
  OBVIOUS
<1>1. ASSUME NEW w \in Workers, AskUsage(w) PROVE TypeOK'
  BY <1>1 DEF TypeOK, Steps, AskUsage
<1>2. ASSUME NEW w \in Workers, SelectRows(w) PROVE TypeOK'
  BY <1>2 DEF TypeOK, Steps, SelectRows, Recent, Fault
<1>3. ASSUME NEW w \in Workers, AppendRow(w) PROVE TypeOK'
  BY <1>3 DEF TypeOK, Steps, AppendRow, Call, Entry
<1>4. ASSUME NEW w \in Workers, AppendDone(w) PROVE TypeOK'
  BY <1>4 DEF TypeOK, Steps, AppendDone
<1>5. ASSUME NEW w \in Workers, CountHour(w) PROVE TypeOK'
  BY <1>5 DEF TypeOK, Steps, CountHour
<1>6. ASSUME NEW w \in Workers, CountMinute(w) PROVE TypeOK'
  BY <1>6 DEF TypeOK, Steps, CountMinute
<1>7. ASSUME NEW w \in Workers, ShowUsage(w) PROVE TypeOK'
  BY <1>7 DEF TypeOK, Steps, ShowUsage
<1>8. ASSUME NEW w \in Workers, Record(w) PROVE TypeOK'
  BY <1>8 DEF TypeOK, Steps, Record, Call, Entry
<1>9. ASSUME NEW w \in Workers, Persist(w) PROVE TypeOK'
  BY <1>9 DEF TypeOK, Steps, Persist, Fault
<1>10. ASSUME NEW w \in Workers, Post(w) PROVE TypeOK'
  BY <1>10 DEF TypeOK, Steps, Post
<1>11. CASE Tick
  BY <1>11 DEF TypeOK, Steps, Tick
<1>12. CASE Restart
  <2>1. /\ pc' \in [Workers -> Steps]
        /\ call' \in [Workers -> Call]
        /\ rows' \in [Workers -> SUBSET Call]
    BY <1>12, FreshThreads, Zenon DEF Restart
  <2>2. restarts' = restarts + 1
    BY <1>12, Zenon DEF Restart
  <2>3. restarts' \in Nat
    BY <2>2 DEF TypeOK
  <2>4. /\ mem' = {} /\ loaded' = FALSE
        /\ UNCHANGED <<now, disk, sent, calls, faults>>
    BY <1>12, Zenon DEF Restart
  <2> QED
    BY <2>1, <2>3, <2>4 DEF TypeOK
<1>13. CASE UNCHANGED vars
  BY <1>13 DEF vars, TypeOK
<1> QED
  BY <1>1, <1>2, <1>3, <1>4, <1>5, <1>6, <1>7, <1>8, <1>9, <1>10, <1>11,
     <1>12, <1>13 DEF Next, Step

(* Every variable keeps its type, whatever threads, clock and restarts do. *)
THEOREM TypeCorrect == Spec => []TypeOK
BY TypeInit, TypeStep, PTL DEF Spec
-----------------------------------------------------------------------------
(* Two sets counted together count no more when both shrink.               *)
LEMMA ShrinkBoth ==
  ASSUME NEW A, NEW B, IsFiniteSet(A), IsFiniteSet(B),
         NEW C, NEW D, C \subseteq A, D \subseteq B
  PROVE  /\ Cardinality(C) \in Nat /\ Cardinality(D) \in Nat
         /\ Cardinality(A) \in Nat /\ Cardinality(B) \in Nat
         /\ Cardinality(C) <= Cardinality(A)
         /\ Cardinality(D) <= Cardinality(B)
<1>1. IsFiniteSet(C) /\ Cardinality(C) <= Cardinality(A)
  BY FS_Subset
<1>2. IsFiniteSet(D) /\ Cardinality(D) <= Cardinality(B)
  BY FS_Subset
<1> QED
  BY <1>1, <1>2, FS_CardinalityType

(* One element moves from one set to the other: the sum does not grow.     *)
LEMMA MoveOne ==
  ASSUME NEW A, NEW B, IsFiniteSet(A), IsFiniteSet(B),
         NEW x, NEW y \in B, NEW C, NEW D,
         C \subseteq A \cup {x}, D \subseteq B \ {y}
  PROVE  /\ Cardinality(C) \in Nat /\ Cardinality(D) \in Nat
         /\ Cardinality(A) \in Nat /\ Cardinality(B) \in Nat
         /\ Cardinality(C) + Cardinality(D) <= Cardinality(A) + Cardinality(B)
<1>1. /\ IsFiniteSet(A \cup {x})
      /\ Cardinality(A \cup {x}) <= Cardinality(A) + 1
  <2>1. Cardinality(A) \in Nat
    BY FS_CardinalityType
  <2>2. /\ IsFiniteSet(A \cup {x})
        /\ Cardinality(A \cup {x}) =
             IF x \in A THEN Cardinality(A) ELSE Cardinality(A) + 1
    BY FS_AddElement
  <2> QED
    BY <2>1, <2>2
<1>2. /\ IsFiniteSet(B \ {y})
      /\ Cardinality(B \ {y}) = Cardinality(B) - 1
  BY FS_RemoveElement
<1>3. IsFiniteSet(C) /\ Cardinality(C) <= Cardinality(A \cup {x})
  BY <1>1, FS_Subset
<1>4. IsFiniteSet(D) /\ Cardinality(D) <= Cardinality(B \ {y})
  BY <1>2, FS_Subset
<1>5. /\ Cardinality(A) \in Nat /\ Cardinality(B) \in Nat
      /\ Cardinality(C) \in Nat /\ Cardinality(D) \in Nat
      /\ Cardinality(A \cup {x}) \in Nat /\ Cardinality(B \ {y}) \in Nat
  BY <1>1, <1>2, <1>3, <1>4, FS_CardinalityType
<1> QED
  BY <1>1, <1>2, <1>3, <1>4, <1>5

(* Which threads are past a count, and what counts as this process's own,  *)
(* grow in one step each: CountHour, CountMinute and Record.               *)
LEMMA OwnMonotone ==
  ASSUME TypeOK, [Next]_vars, NEW span \in Nat,
         \A w \in Workers : ~Record(w)
  PROVE  Own(span)' \subseteq Own(span)
<1> USE DEF TypeOK, Own, Recent
<1>1. ASSUME NEW w \in Workers, AppendRow(w) PROVE Own(span)' \subseteq Own(span)
  <2>1. PICK r \in rows[w] : mem' = mem \cup {[id |-> r.id, ts |-> r.ts, src |-> "db"]}
    BY <1>1 DEF AppendRow
  <2>2. now' = now
    BY <1>1 DEF AppendRow
  <2> QED
    BY <2>1, <2>2
<1>2. CASE UNCHANGED <<mem, now>>
  BY <1>2
<1>3. CASE Tick
  <2>1. now' = now + 1 /\ mem' = mem
    BY <1>3 DEF Tick
  <2>2. \A e \in mem : e.ts \in Nat
    BY DEF Entry
  <2> QED
    BY <2>1, <2>2
<1>4. CASE Restart
  BY <1>4 DEF Restart
<1>5. ASSUME NEW w \in Workers, Step(w), ~AppendRow(w) PROVE UNCHANGED <<mem, now>>
  BY <1>5 DEF Step, AskUsage, SelectRows, AppendDone, CountHour, CountMinute,
              ShowUsage, Persist, Post
<1> QED
  BY <1>1, <1>2, <1>3, <1>4, <1>5 DEF Next, Step, vars

(* The strengthening of the two overshoot bounds that every step keeps.    *)
OvershootInv ==
  /\ TypeOK
  /\ IsFiniteSet(mem)
  /\ HourOvershootBounded
  /\ MinuteOvershootBounded

LEMMA OvershootInit == Init => OvershootInv
<1> SUFFICES ASSUME Init PROVE OvershootInv
  OBVIOUS
<1>1. TypeOK
  BY TypeInit
<1>2. mem = {} /\ IsFiniteSet(mem)
  BY FS_EmptySet DEF Init
<1>3. /\ Own(HourSpan) = {} /\ Own(MinuteSpan) = {}
      /\ PassedHour = {} /\ PassedMinute = {}
  BY <1>2 DEF Own, Recent, PassedHour, PassedMinute, Init
<1>4. Cardinality({}) = 0
  BY FS_EmptySet
<1>5. Cardinality(Workers) \in Nat /\ Cardinality(Workers) >= 1
  BY WorkersAssumption, FS_EmptySet, FS_CardinalityType
<1> QED
  BY <1>1, <1>2, <1>3, <1>4, <1>5, LimitAssumption
  DEF OvershootInv, HourOvershootBounded, MinuteOvershootBounded

(* The log stays finite: it grows by one entry or is emptied.              *)
LEMMA MemFinite ==
  ASSUME TypeOK, IsFiniteSet(mem), [Next]_vars
  PROVE  IsFiniteSet(mem')
<1>1. ASSUME NEW w \in Workers, AppendRow(w) PROVE IsFiniteSet(mem')
  <2>1. PICK r \in rows[w] : mem' = mem \cup {[id |-> r.id, ts |-> r.ts, src |-> "db"]}
    BY <1>1 DEF AppendRow
  <2> QED
    BY <2>1, FS_AddElement
<1>2. ASSUME NEW w \in Workers, Record(w) PROVE IsFiniteSet(mem')
  <2>1. mem' = mem \cup {[id |-> calls, ts |-> now, src |-> "own"]}
    BY <1>2 DEF Record
  <2> QED
    BY <2>1, FS_AddElement
<1>3. CASE Restart
  BY <1>3, FS_EmptySet DEF Restart
<1>4. CASE mem' = mem
  BY <1>4
<1>5. ASSUME NEW w \in Workers, Step(w), ~AppendRow(w), ~Record(w) PROVE mem' = mem
  BY <1>5 DEF Step, AskUsage, SelectRows, AppendDone, CountHour, CountMinute,
              ShowUsage, Persist, Post
<1>6. Tick \/ UNCHANGED vars => mem' = mem
  BY DEF Tick, vars
<1> QED
  BY <1>1, <1>2, <1>3, <1>4, <1>5, <1>6 DEF Next

(* Only a count under the limit lets a thread past it.                     *)
LEMMA PassedSteps ==
  ASSUME TypeOK, [Next]_vars
  PROVE  /\ (\A w \in Workers : ~(CountHour(w) /\ ~HourExhausted))
               => PassedHour' \subseteq PassedHour
         /\ (\A w \in Workers : ~(CountMinute(w) /\ ~MinuteExhausted))
               => PassedMinute' \subseteq PassedMinute
<1> USE DEF TypeOK, PassedHour, PassedMinute
<1>1. ASSUME NEW w \in Workers, CountHour(w)
      PROVE  /\ HourExhausted => PassedHour' \subseteq PassedHour
             /\ PassedMinute' \subseteq PassedMinute
  BY <1>1 DEF CountHour
<1>2. ASSUME NEW w \in Workers, CountMinute(w)
      PROVE  /\ MinuteExhausted => PassedMinute' \subseteq PassedMinute
             /\ PassedHour' \subseteq PassedHour
  BY <1>2 DEF CountMinute
<1>3. ASSUME NEW w \in Workers, Step(w), ~CountHour(w), ~CountMinute(w)
      PROVE  PassedHour' \subseteq PassedHour /\ PassedMinute' \subseteq PassedMinute
  BY <1>3 DEF Step, AskUsage, SelectRows, AppendRow, AppendDone, ShowUsage,
              Record, Persist, Post
<1>4. CASE Tick \/ UNCHANGED vars
  BY <1>4 DEF Tick, vars
<1>5. CASE Restart
  BY <1>5 DEF Restart
<1> QED
  BY <1>1, <1>2, <1>3, <1>4, <1>5 DEF Next

(* A count below the limit leaves room for every thread at once.           *)
LEMMA CountLeavesRoom ==
  ASSUME TypeOK, IsFiniteSet(mem), NEW span \in Nat, NEW limit \in Nat,
         ~(Cardinality(Recent(mem, span)) >= limit),
         NEW D, D \subseteq Workers
  PROVE  Cardinality(Own(span)) + Cardinality(D) <= limit - 1 + Cardinality(Workers)
<1>1. IsFiniteSet(Recent(mem, span)) /\ IsFiniteSet(Workers)
  BY WorkersAssumption, FS_Subset DEF Recent
<1>2. Own(span) \subseteq Recent(mem, span)
  BY DEF Own
<1>3. Cardinality(Recent(mem, span)) \in Nat
  BY <1>1, FS_CardinalityType
<1> QED
  BY <1>1, <1>2, <1>3, ShrinkBoth

(* Finiteness of the sets the two bounds count.                            *)
LEMMA CountedFinite ==
  ASSUME IsFiniteSet(mem), NEW span \in Nat
  PROVE  IsFiniteSet(Own(span)) /\ IsFiniteSet(PassedHour) /\ IsFiniteSet(PassedMinute)
         /\ Cardinality(Workers) \in Nat
<1>1. Own(span) \subseteq mem /\ PassedHour \subseteq Workers
      /\ PassedMinute \subseteq Workers
  BY DEF Own, Recent, PassedHour, PassedMinute
<1> QED
  BY <1>1, WorkersAssumption, FS_Subset, FS_CardinalityType

LEMMA OvershootStep == OvershootInv /\ [Next]_vars => OvershootInv'
<1> SUFFICES ASSUME OvershootInv, [Next]_vars
             PROVE  OvershootInv'
  OBVIOUS
<1>0. TypeOK /\ IsFiniteSet(mem)
  BY DEF OvershootInv
<1>1. TypeOK' /\ IsFiniteSet(mem')
  BY <1>0, TypeStep, MemFinite
<1>2. PassedHour' \subseteq Workers /\ PassedMinute' \subseteq Workers
  BY DEF PassedHour, PassedMinute
<1>3. /\ Cardinality(Own(HourSpan)) + Cardinality(PassedHour)
           <= HourLimit - 3 + Cardinality(Workers)
      /\ Cardinality(Own(MinuteSpan)) + Cardinality(PassedMinute)
           <= MinuteLimit - 2 + Cardinality(Workers)
  BY DEF OvershootInv, HourOvershootBounded, MinuteOvershootBounded
<1>4. /\ HourSpan \in Nat /\ MinuteSpan \in Nat
      /\ HourLimit \in Nat /\ MinuteLimit \in Nat
      /\ HourLimit - 2 \in Nat /\ MinuteLimit - 1 \in Nat
  BY SpanAssumption, LimitAssumption
<1>5. /\ IsFiniteSet(Own(HourSpan)) /\ IsFiniteSet(Own(MinuteSpan))
      /\ IsFiniteSet(PassedHour) /\ IsFiniteSet(PassedMinute)
      /\ Cardinality(Workers) \in Nat
  BY <1>0, <1>4, CountedFinite
<1>6. ASSUME NEW w \in Workers, Record(w) PROVE OvershootInv'
  <2> DEFINE new == [id |-> calls, ts |-> now, src |-> "own"]
  <2>1. /\ Own(HourSpan)' \subseteq Own(HourSpan) \cup {new}
        /\ Own(MinuteSpan)' \subseteq Own(MinuteSpan) \cup {new}
    BY <1>6 DEF Record, Own, Recent
  <2>2. w \in PassedHour /\ w \in PassedMinute
    BY <1>6 DEF Record, PassedHour, PassedMinute
  <2>3. PassedHour' \subseteq PassedHour \ {w} /\ PassedMinute' \subseteq PassedMinute \ {w}
    BY <1>0, <1>6 DEF Record, PassedHour, PassedMinute, TypeOK
  <2> HIDE DEF new
  <2>4. HourOvershootBounded'
    <3>1. /\ Cardinality(Own(HourSpan)') \in Nat /\ Cardinality(PassedHour') \in Nat
          /\ Cardinality(Own(HourSpan)) \in Nat /\ Cardinality(PassedHour) \in Nat
          /\ Cardinality(Own(HourSpan)') + Cardinality(PassedHour')
               <= Cardinality(Own(HourSpan)) + Cardinality(PassedHour)
      BY <1>5, <2>1, <2>2, <2>3, MoveOne
    <3> QED
      BY <1>3, <1>4, <1>5, <3>1 DEF HourOvershootBounded
  <2>5. MinuteOvershootBounded'
    <3>1. /\ Cardinality(Own(MinuteSpan)') \in Nat /\ Cardinality(PassedMinute') \in Nat
          /\ Cardinality(Own(MinuteSpan)) \in Nat /\ Cardinality(PassedMinute) \in Nat
          /\ Cardinality(Own(MinuteSpan)') + Cardinality(PassedMinute')
               <= Cardinality(Own(MinuteSpan)) + Cardinality(PassedMinute)
      BY <1>5, <2>1, <2>2, <2>3, MoveOne
    <3> QED
      BY <1>3, <1>4, <1>5, <3>1 DEF MinuteOvershootBounded
  <2> QED
    BY <1>1, <2>4, <2>5 DEF OvershootInv
<1>7. CASE \A w \in Workers : ~Record(w)
  <2>1. /\ Own(HourSpan)' \subseteq Own(HourSpan)
        /\ Own(MinuteSpan)' \subseteq Own(MinuteSpan)
    BY <1>0, <1>4, <1>7, OwnMonotone
  <2>2. HourOvershootBounded'
    <3>1. CASE PassedHour' \subseteq PassedHour
      BY <1>3, <1>4, <1>5, <2>1, <3>1, ShrinkBoth DEF HourOvershootBounded
    <3>2. ASSUME NEW w \in Workers, CountHour(w), ~HourExhausted
          PROVE  HourOvershootBounded'
      <4>1. Cardinality(Own(HourSpan)) + Cardinality(PassedHour')
              <= (HourLimit - 2) - 1 + Cardinality(Workers)
        BY <1>0, <1>2, <1>4, <3>2, CountLeavesRoom DEF HourExhausted
      <4>2. Own(HourSpan)' = Own(HourSpan)
        BY <3>2 DEF CountHour, Own, Recent
      <4> QED
        BY <1>4, <4>1, <4>2 DEF HourOvershootBounded
    <3> QED
      BY <1>0, <3>1, <3>2, PassedSteps
  <2>3. MinuteOvershootBounded'
    <3>1. CASE PassedMinute' \subseteq PassedMinute
      BY <1>3, <1>4, <1>5, <2>1, <3>1, ShrinkBoth DEF MinuteOvershootBounded
    <3>2. ASSUME NEW w \in Workers, CountMinute(w), ~MinuteExhausted
          PROVE  MinuteOvershootBounded'
      <4>1. Cardinality(Own(MinuteSpan)) + Cardinality(PassedMinute')
              <= (MinuteLimit - 1) - 1 + Cardinality(Workers)
        BY <1>0, <1>2, <1>4, <3>2, CountLeavesRoom DEF MinuteExhausted
      <4>2. Own(MinuteSpan)' = Own(MinuteSpan)
        BY <3>2 DEF CountMinute, Own, Recent
      <4> QED
        BY <1>4, <4>1, <4>2 DEF MinuteOvershootBounded
    <3> QED
      BY <1>0, <3>1, <3>2, PassedSteps
  <2> QED
    BY <1>1, <2>2, <2>3 DEF OvershootInv
<1> QED
  BY <1>6, <1>7

(* However the threads interleave, whatever the database does and however  *)
(* often the process restarts, the calls one process records in an hour    *)
(* and the threads already past the count never exceed HourLimit - 3 plus  *)
(* the number of threads: up to three threads stay within TorBox's limit.  *)
THEOREM HourlyOvershoot == Spec => []HourOvershootBounded
<1>1. OvershootInv => HourOvershootBounded
  BY DEF OvershootInv
<1> QED
  BY <1>1, OvershootInit, OvershootStep, PTL DEF Spec

(* The same for the minute: one thread too many and TorBox answers 429.    *)
THEOREM MinutelyOvershoot == Spec => []MinuteOvershootBounded
<1>1. OvershootInv => MinuteOvershootBounded
  BY DEF OvershootInv
<1> QED
  BY <1>1, OvershootInit, OvershootStep, PTL DEF Spec
-----------------------------------------------------------------------------
(* No step takes a fault back.                                             *)
LEMMA FaultsGrow == TypeOK /\ [Next]_vars => (faults' = 0 => faults = 0)
<1> SUFFICES ASSUME TypeOK, [Next]_vars
             PROVE  faults' = faults \/ faults' = faults + 1
  BY DEF TypeOK
<1> QED
  BY Zenon DEF Next, Step, AskUsage, SelectRows, AppendRow, AppendDone, CountHour,
     CountMinute, ShowUsage, Record, Persist, Post, Tick, Restart, Fault, vars

(* The write-ahead argument: a call about to be sent is in the table while *)
(* the hour lasts, because pruning keeps PruneAge >= HourSpan.             *)
DurableInv ==
  /\ TypeOK
  /\ \A w \in Workers : pc[w] \in {"persist", "post"} => call[w].ts <= now
  /\ faults = 0 =>
       /\ \A c \in sent : c.ts >= now - HourSpan => c \in disk
       /\ \A w \in Workers :
            pc[w] = "post" /\ call[w].ts >= now - HourSpan => call[w] \in disk

LEMMA DurableInit == Init => DurableInv
BY TypeInit DEF Init, DurableInv

LEMMA DurableStep == DurableInv /\ [Next]_vars => DurableInv'
<1> SUFFICES ASSUME DurableInv, [Next]_vars
             PROVE  DurableInv'
  OBVIOUS
<1>0. TypeOK /\ TypeOK' /\ (faults' = 0 => faults = 0)
  BY TypeStep, FaultsGrow DEF DurableInv
<1>1. ASSUME NEW w \in Workers, Record(w) PROVE DurableInv'
  BY <1>0, <1>1 DEF Record, DurableInv, TypeOK
<1>2. ASSUME NEW w \in Workers, Persist(w) PROVE DurableInv'
  <2>1. /\ call[w] \in Call /\ call[w].ts \in Nat /\ call[w].ts <= now
        /\ now \in Nat
    BY <1>0, <1>2 DEF Persist, DurableInv, TypeOK, Call
  <2>2. call[w].ts - PruneAge <= now - HourSpan
    BY <2>1, SpanAssumption
  <2>3. ASSUME faults' = 0, NEW c, c \in disk \/ c = call[w], c \in Call,
               c.ts >= now - HourSpan
        PROVE  c \in disk'
    <3>1. faults' # faults + 1
      BY <1>0, <2>3
    <3> QED
      BY <1>2, <2>1, <2>2, <2>3, <3>1, SpanAssumption DEF Persist, Fault, Call
  <2>4. /\ now' = now /\ call' = call /\ sent' = sent
        /\ pc' = [pc EXCEPT ![w] = "post"]
    BY <1>2 DEF Persist
  <2> QED
    BY <1>0, <1>2, <2>1, <2>3, <2>4 DEF DurableInv, TypeOK
<1>3. ASSUME NEW w \in Workers, Post(w) PROVE DurableInv'
  BY <1>0, <1>3 DEF Post, DurableInv, TypeOK
<1>4. CASE Tick
  <2>1. /\ now \in Nat /\ now' = now + 1
        /\ UNCHANGED <<pc, call, disk, sent>>
    BY <1>0, <1>4 DEF Tick, TypeOK
  <2>2. /\ \A w \in Workers : call[w].ts \in Nat
        /\ \A c \in sent : c.ts \in Nat
    BY <1>0 DEF TypeOK, Call
  <2> QED
    BY <1>0, <2>1, <2>2, SpanAssumption DEF DurableInv
<1>5. CASE Restart
  <2>1. \A w \in Workers : pc'[w] = "idle"
    BY <1>5 DEF Restart
  <2>2. UNCHANGED <<now, disk, sent>>
    BY <1>5 DEF Restart
  <2> QED
    BY <1>0, <2>1, <2>2 DEF DurableInv
<1>6. CASE UNCHANGED vars
  BY <1>0, <1>6 DEF DurableInv, vars
<1>7. ASSUME NEW w \in Workers, Step(w), ~Record(w), ~Persist(w), ~Post(w)
      PROVE  DurableInv'
  <2>1. UNCHANGED <<now, call, disk, sent>>
    BY <1>7 DEF Step, AskUsage, SelectRows, AppendRow, AppendDone, CountHour,
                CountMinute, ShowUsage
  <2>2. \A v \in Workers : pc'[v] \in {"persist", "post"} => pc'[v] = pc[v]
    BY <1>0, <1>7 DEF Step, AskUsage, SelectRows, AppendRow, AppendDone,
                      CountHour, CountMinute, ShowUsage, TypeOK
  <2> QED
    BY <1>0, <2>1, <2>2 DEF DurableInv
<1> QED
  BY <1>1, <1>2, <1>3, <1>4, <1>5, <1>6, <1>7 DEF Next, Step

(* Whenever the process dies, every call TorBox saw within the hour is in  *)
(* the table: the table is written before the POST.                        *)
THEOREM WriteAhead == Spec => []SentCallsArePersisted
<1>1. DurableInv => SentCallsArePersisted
  BY DEF DurableInv, SentCallsArePersisted, Recent
<1> QED
  BY <1>1, DurableInit, DurableStep, PTL DEF Spec
-----------------------------------------------------------------------------
(* The lazy load loses no row: each row of the hour is in the log, or some *)
(* thread has still to select it or to append it.                          *)
Covered(r) ==
  \/ r \in CallsIn(mem)
  \/ \E w \in Workers : pc[w] = "select" \/ (pc[w] = "append" /\ r \in rows[w])

LoadInv ==
  /\ \A w \in Workers : pc[w] # "idle" => loaded
  /\ \A w \in Workers : pc[w] \in {"persist", "post"} => call[w] \in CallsIn(mem)
  /\ faults = 0 /\ loaded => \A r \in Recent(disk, HourSpan) : Covered(r)

LEMMA LoadInit == Init => LoadInv
BY DEF Init, LoadInv

LEMMA LoadStep == TypeOK /\ LoadInv /\ [Next]_vars => LoadInv'
<1> SUFFICES ASSUME TypeOK, LoadInv, [Next]_vars
             PROVE  LoadInv'
  OBVIOUS
<1>0. faults' = 0 => faults = 0
  BY FaultsGrow
<1>1. ASSUME NEW w \in Workers, AskUsage(w) PROVE LoadInv'
  <2>1. CASE loaded
    BY <1>0, <1>1, <2>1 DEF AskUsage, LoadInv, TypeOK, Recent, Covered, CallsIn
  <2>2. CASE ~loaded
    <3>1. pc'[w] = "select" /\ loaded'
      BY <1>1, <2>2 DEF AskUsage, TypeOK
    <3>2. \A v \in Workers : pc'[v] \notin {"persist", "post"}
      BY <1>1, <2>2 DEF AskUsage, LoadInv, TypeOK
    <3> QED
      BY <3>1, <3>2, <1>0 DEF LoadInv, Covered
  <2> QED
    BY <2>1, <2>2
<1>2. ASSUME NEW w \in Workers, SelectRows(w) PROVE LoadInv'
  <2>1. /\ UNCHANGED <<now, call, mem, loaded, disk>>
        /\ pc[w] = "select" /\ loaded
        /\ \A v \in Workers : v # w => pc'[v] = pc[v] /\ rows'[v] = rows[v]
        /\ pc'[w] \in {"append", "hour"}
    BY <1>2 DEF SelectRows, LoadInv, TypeOK
  <2>2. faults' = 0 => pc'[w] = "append" /\ rows'[w] = Recent(disk, HourSpan)
    BY <1>2 DEF SelectRows, Fault, TypeOK
  <2>3. ASSUME faults' = 0, NEW r \in Recent(disk, HourSpan) PROVE Covered(r)'
    BY <2>2, <2>3 DEF Covered
  <2>4. Recent(disk, HourSpan)' = Recent(disk, HourSpan) /\ CallsIn(mem)' = CallsIn(mem)
    BY <2>1 DEF Recent, CallsIn
  <2> QED
    BY <1>0, <2>1, <2>3, <2>4 DEF LoadInv
<1>3. ASSUME NEW w \in Workers, AppendRow(w) PROVE LoadInv'
  <2>1. PICK r \in rows[w] :
          /\ mem' = mem \cup {[id |-> r.id, ts |-> r.ts, src |-> "db"]}
          /\ rows' = [rows EXCEPT ![w] = @ \ {r}]
    BY <1>3 DEF AppendRow
  <2>2. UNCHANGED <<now, pc, call, loaded, disk>> /\ pc[w] = "append"
    BY <1>3 DEF AppendRow
  <2>3. r \in CallsIn(mem')
    <3> DEFINE e == [id |-> r.id, ts |-> r.ts, src |-> "db"]
    <3>1. CallOf(e) = [id |-> r.id, ts |-> r.ts]
      BY DEF CallOf
    <3>2. r = [id |-> r.id, ts |-> r.ts]
      BY DEF TypeOK, Call
    <3>3. e \in mem'
      BY <2>1
    <3> QED
      BY <3>1, <3>2, <3>3, Zenon DEF CallsIn
  <2>4. CallsIn(mem) \subseteq CallsIn(mem')
    BY <2>1 DEF CallsIn
  <2>5. ASSUME NEW q, Covered(q) PROVE Covered(q)'
    BY <2>1, <2>2, <2>3, <2>4, <2>5 DEF Covered, TypeOK
  <2>6. Recent(disk, HourSpan)' = Recent(disk, HourSpan)
    BY <2>2 DEF Recent
  <2> QED
    BY <1>0, <2>2, <2>4, <2>5, <2>6 DEF LoadInv
<1>4. ASSUME NEW w \in Workers, AppendDone(w) PROVE LoadInv'
  <2>1. /\ UNCHANGED <<now, call, rows, mem, loaded, disk>>
        /\ pc' = [pc EXCEPT ![w] = "hour"]
        /\ pc[w] = "append" /\ rows[w] = {}
    BY <1>4 DEF AppendDone
  <2>2. ASSUME NEW q, Covered(q) PROVE Covered(q)'
    BY <2>1, <2>2 DEF Covered, CallsIn, TypeOK
  <2> QED
    BY <1>0, <2>1, <2>2 DEF LoadInv, Recent, CallsIn, TypeOK
<1>5. ASSUME NEW w \in Workers, CountHour(w) \/ CountMinute(w) \/ ShowUsage(w) \/ Post(w)
      PROVE  LoadInv'
  <2>1. /\ UNCHANGED <<now, call, rows, mem, loaded, disk>>
        /\ pc[w] \in {"hour", "minute", "post"}
        /\ \A v \in Workers : v # w => pc'[v] = pc[v]
        /\ pc'[w] \in {"idle", "minute", "record"}
    BY <1>5 DEF CountHour, CountMinute, ShowUsage, Post, TypeOK
  <2>2. ASSUME NEW q, Covered(q) PROVE Covered(q)'
    BY <2>1, <2>2 DEF Covered, CallsIn
  <2> QED
    BY <1>0, <2>1, <2>2 DEF LoadInv, Recent, CallsIn
<1>6. ASSUME NEW w \in Workers, Record(w) PROVE LoadInv'
  <2> DEFINE new == [id |-> calls, ts |-> now, src |-> "own"]
  <2>1. /\ UNCHANGED <<now, rows, loaded, disk>>
        /\ pc[w] = "record" /\ pc' = [pc EXCEPT ![w] = "persist"]
        /\ call' = [call EXCEPT ![w] = [id |-> calls, ts |-> now]]
        /\ mem' = mem \cup {new}
    BY <1>6 DEF Record
  <2>2. CallsIn(mem) \subseteq CallsIn(mem') /\ [id |-> calls, ts |-> now] \in CallsIn(mem')
    <3>1. CallOf(new) = [id |-> calls, ts |-> now]
      BY DEF CallOf
    <3>2. new \in mem' /\ mem \subseteq mem'
      BY <2>1
    <3> HIDE DEF new
    <3> QED
      BY <3>1, <3>2, Zenon DEF CallsIn
  <2>3. ASSUME NEW q, Covered(q) PROVE Covered(q)'
    BY <2>1, <2>2, <2>3 DEF Covered, TypeOK
  <2> QED
    BY <1>0, <2>1, <2>2, <2>3 DEF LoadInv, Recent, TypeOK
<1>7. ASSUME NEW w \in Workers, Persist(w) PROVE LoadInv'
  <2>1. /\ UNCHANGED <<now, call, rows, mem, loaded>>
        /\ pc[w] = "persist" /\ pc' = [pc EXCEPT ![w] = "post"]
        /\ disk' \subseteq disk \cup {call[w]}
    BY <1>7 DEF Persist
  <2>2. ASSUME NEW q, Covered(q) PROVE Covered(q)'
    BY <2>1, <2>2 DEF Covered, CallsIn, TypeOK
  <2>3. call[w] \in CallsIn(mem) /\ Covered(call[w])
    BY <2>1 DEF LoadInv, Covered
  <2> QED
    BY <1>0, <2>1, <2>2, <2>3 DEF LoadInv, Recent, CallsIn, TypeOK
<1>8. CASE Tick
  <2>1. UNCHANGED <<pc, call, rows, mem, loaded, disk>> /\ now' = now + 1
    BY <1>8 DEF Tick
  <2>2. Recent(disk, HourSpan)' \subseteq Recent(disk, HourSpan)
    BY <2>1, SpanAssumption DEF Recent, TypeOK, Call
  <2>3. ASSUME NEW q, Covered(q) PROVE Covered(q)'
    BY <2>1, <2>3 DEF Covered, CallsIn
  <2> QED
    BY <1>0, <2>1, <2>2, <2>3 DEF LoadInv, CallsIn
<1>9. CASE Restart
  <2>1. (\A w \in Workers : pc'[w] = "idle") /\ ~loaded'
    BY <1>9 DEF Restart
  <2> QED
    BY <1>0, <2>1 DEF LoadInv
<1>10. CASE UNCHANGED vars
  BY <1>0, <1>10 DEF LoadInv, vars, Covered, Recent, CallsIn
<1> QED
  BY <1>1, <1>2, <1>3, <1>4, <1>5, <1>6, <1>7, <1>8, <1>9, <1>10 DEF Next, Step

(* Once the lazy load has finished, the log holds every call of the hour   *)
(* that TorBox saw, those sent before a crash included.                    *)
THEOREM LoadComplete == Spec => []LoadedLogIsComplete
<1>1. DurableInv /\ LoadInv => LoadedLogIsComplete
  <2> SUFFICES ASSUME DurableInv, LoadInv, faults = 0, LoadFinished,
                      NEW c \in Recent(sent, HourSpan)
               PROVE  c \in CallsIn(mem)
    BY DEF LoadedLogIsComplete
  <2>1. c \in Recent(disk, HourSpan)
    BY DEF DurableInv, Recent
  <2>2. Covered(c)
    BY <2>1 DEF LoadInv, LoadFinished
  <2> QED
    BY <2>2 DEF Covered, LoadFinished
<1>2. DurableInv => TypeOK
  BY DEF DurableInv
<1> QED
  BY <1>1, <1>2, DurableInit, DurableStep, LoadInit, LoadStep, PTL DEF Spec
-----------------------------------------------------------------------------
(* A set of log entries holds at most as many calls as it has entries.     *)
LEMMA CallsCounted ==
  ASSUME NEW S, IsFiniteSet(S), NEW T, T \subseteq CallsIn(S)
  PROVE  /\ IsFiniteSet(T) /\ Cardinality(T) <= Cardinality(S)
         /\ Cardinality(T) \in Nat /\ Cardinality(S) \in Nat
<1> DEFINE f == [e \in S |-> CallOf(e)]
<1>1. f \in Surjection(S, CallsIn(S))
  <2>1. \A e \in S : CallOf(e) \in CallsIn(S)
    BY DEF CallsIn
  <2>2. f \in [S -> CallsIn(S)]
    BY <2>1
  <2>3. \A c \in CallsIn(S) : \E e \in S : f[e] = c
    BY DEF CallsIn
  <2> QED
    BY <2>2, <2>3 DEF Surjection
<1>2. IsFiniteSet(CallsIn(S)) /\ Cardinality(CallsIn(S)) <= Cardinality(S)
  BY <1>1, FS_Surjection
<1>3. IsFiniteSet(T) /\ Cardinality(T) <= Cardinality(CallsIn(S))
  BY <1>2, FS_Subset
<1> QED
  BY <1>2, <1>3, FS_CardinalityType

(* A call of the span that is in the log is among the span's entries.      *)
LEMMA RecentCalls ==
  ASSUME NEW entries, NEW c \in CallsIn(entries), NEW span, c.ts >= now - span
  PROVE  c \in CallsIn(Recent(entries, span))
<1>1. PICK e \in entries : c = CallOf(e)
  BY DEF CallsIn
<1>2. e.ts >= now - span
  BY <1>1 DEF CallOf
<1> QED
  BY <1>1, <1>2 DEF CallsIn, Recent

(* With one thread that counts, the load is over.                          *)
LEMMA LoadedWhenCounting ==
  ASSUME DurableInv, LoadInv, NEW w \in Workers, Workers = {w}, faults = 0,
         pc[w] = "hour"
  PROVE  /\ Recent(disk, HourSpan) \subseteq CallsIn(Recent(mem, HourSpan))
         /\ Recent(sent, HourSpan) \subseteq CallsIn(Recent(mem, HourSpan))
<1>1. ASSUME NEW c \in Recent(disk, HourSpan)
      PROVE  c \in CallsIn(Recent(mem, HourSpan))
  <2>1. c \in CallsIn(mem) /\ c.ts >= now - HourSpan
    BY <1>1 DEF LoadInv, Covered, Recent
  <2> QED
    BY <2>1, RecentCalls
<1>2. Recent(sent, HourSpan) \subseteq Recent(disk, HourSpan)
  BY DEF DurableInv, Recent
<1> QED
  BY <1>1, <1>2

(* "Populate in-memory log from DB on startup so counter survives          *)
(* restarts" (torbox.py:32) holds of one thread: when it passes the hourly *)
(* check it has counted what the table holds for that hour.                *)
THEOREM OneThreadSurvives == Cardinality(Workers) = 1 /\ Spec => UsageSurvivesRestart
<1> SUFFICES ASSUME Cardinality(Workers) = 1
             PROVE  Spec => UsageSurvivesRestart
  OBVIOUS
<1>1. ASSUME DurableInv, LoadInv, IsFiniteSet(mem), NEW w \in Workers, faults = 0, pc[w] = "hour"
      PROVE  Cardinality(Recent(disk, HourSpan)) <= Cardinality(Recent(mem, HourSpan))
  <2>1. Workers = {w}
    BY <1>1, WorkersAssumption, FS_Singleton
  <2>2. IsFiniteSet(Recent(mem, HourSpan))
    BY <1>1, FS_Subset DEF Recent
  <2> QED
    BY <1>1, <2>1, <2>2, LoadedWhenCounting, CallsCounted
<1>2. DurableInv /\ LoadInv /\ OvershootInv /\ [Next]_vars =>
        [\A w \in Workers :
           faults = 0 /\ pc[w] = "hour" /\ pc'[w] = "minute" =>
             Cardinality(Recent(disk, HourSpan)) <= Cardinality(Recent(mem, HourSpan))]_vars
  BY <1>1 DEF OvershootInv
<1>3. DurableInv => TypeOK
  BY DEF DurableInv
<1> QED
  BY <1>2, <1>3, DurableInit, DurableStep, LoadInit, LoadStep, OvershootInit, OvershootStep,
     PTL DEF Spec, UsageSurvivesRestart

(* The calls TorBox saw within the hour, where one thread sends them all:  *)
(* one fewer while that thread is on its way from the count to the POST.   *)
SoloInv ==
  /\ IsFiniteSet(sent)
  /\ faults = 0 =>
       /\ Cardinality(Recent(sent, HourSpan)) <= HourLimit - 2
       /\ \A w \in Workers : pc[w] \in {"minute", "record", "persist", "post"} =>
            Cardinality(Recent(sent, HourSpan)) <= HourLimit - 3

LEMMA SoloInit == Init => SoloInv
<1> SUFFICES ASSUME Init
             PROVE  SoloInv
  OBVIOUS
<1>1. sent = {} /\ Recent(sent, HourSpan) = {}
  BY DEF Init, Recent
<1> QED
  BY <1>1, FS_EmptySet, LimitAssumption DEF SoloInv

(* The calls sent: Post adds one, the clock lets some of the hour go.      *)
LEMMA SentNext ==
  ASSUME TypeOK, [Next]_vars
  PROVE  \/ /\ Recent(sent, HourSpan)' \subseteq Recent(sent, HourSpan)
            /\ sent' = sent
         \/ \E w \in Workers : Post(w)
<1>1. ASSUME NEW w \in Workers, Step(w), ~Post(w)
      PROVE  sent' = sent /\ now' = now
  BY <1>1 DEF Step, AskUsage, SelectRows, AppendRow, AppendDone, CountHour, CountMinute,
              ShowUsage, Record, Persist
<1>2. CASE sent' = sent /\ now' = now
  BY <1>2 DEF Recent
<1>3. CASE Tick
  <2>1. sent' = sent /\ now' = now + 1
    BY <1>3 DEF Tick
  <2>2. /\ \A c \in sent : c.ts \in Nat
        /\ now \in Nat /\ HourSpan \in Nat
    BY SpanAssumption DEF TypeOK, Call
  <2> QED
    BY <2>1, <2>2 DEF Recent
<1>4. CASE Restart \/ UNCHANGED vars
  BY <1>2, <1>4 DEF Restart, vars
<1> QED
  BY <1>1, <1>2, <1>3, <1>4 DEF Next

(* Between the count and the POST a thread takes the steps of its own.     *)
LEMMA OnItsWay ==
  ASSUME TypeOK, [Next]_vars, NEW w \in Workers,
         pc'[w] \in {"minute", "record", "persist", "post"}
  PROVE  \/ pc[w] \in {"minute", "record", "persist", "post"}
         \/ CountHour(w) /\ ~HourExhausted
<1>1. ASSUME NEW v \in Workers, Step(v), v # w
      PROVE  pc'[w] = pc[w]
  BY <1>1 DEF Step, AskUsage, SelectRows, AppendRow, AppendDone, CountHour, CountMinute,
              ShowUsage, Record, Persist, Post, TypeOK
<1>2. ASSUME Step(w), ~CountHour(w)
      PROVE  pc[w] \in {"minute", "record", "persist", "post"}
  BY <1>2 DEF Step, AskUsage, SelectRows, AppendRow, AppendDone, CountMinute, ShowUsage,
              Record, Persist, Post, TypeOK
<1>3. ASSUME CountHour(w)
      PROVE  ~HourExhausted
  BY <1>3 DEF CountHour, TypeOK
<1>4. CASE Tick \/ UNCHANGED vars
  BY <1>4 DEF Tick, vars
<1>5. ~Restart
  BY DEF Restart
<1> QED
  BY <1>1, <1>2, <1>3, <1>4, <1>5 DEF Next

LEMMA SoloStep ==
  Cardinality(Workers) = 1 /\ DurableInv /\ LoadInv /\ OvershootInv /\ SoloInv
    /\ [Next]_vars => SoloInv'
<1> SUFFICES ASSUME Cardinality(Workers) = 1, DurableInv, LoadInv, OvershootInv, SoloInv,
                    [Next]_vars
             PROVE  SoloInv'
  OBVIOUS
<1>0. /\ TypeOK /\ IsFiniteSet(sent) /\ IsFiniteSet(mem) /\ (faults' = 0 => faults = 0)
      /\ IsFiniteSet(Recent(sent, HourSpan))
      /\ Cardinality(Recent(sent, HourSpan)) \in Nat /\ HourLimit \in Nat
  BY FaultsGrow, FS_Subset, FS_CardinalityType, LimitAssumption
     DEF SoloInv, OvershootInv, Recent
<1>1. PICK w \in Workers : Workers = {w}
  BY WorkersAssumption, FS_Singleton
<1>2. CASE Recent(sent, HourSpan)' \subseteq Recent(sent, HourSpan) /\ sent' = sent
  <2>1. /\ Cardinality(Recent(sent, HourSpan)') \in Nat
        /\ Cardinality(Recent(sent, HourSpan)') <= Cardinality(Recent(sent, HourSpan))
    BY <1>0, <1>2, FS_Subset, FS_CardinalityType
  <2>2. ASSUME faults' = 0, pc'[w] \in {"minute", "record", "persist", "post"}
        PROVE  Cardinality(Recent(sent, HourSpan)) <= HourLimit - 3
    <3>1. CASE pc[w] \in {"minute", "record", "persist", "post"}
      BY <1>0, <2>2, <3>1 DEF SoloInv
    <3>2. CASE CountHour(w) /\ ~HourExhausted
      <4>1. /\ IsFiniteSet(Recent(mem, HourSpan))
            /\ Cardinality(Recent(mem, HourSpan)) \in Nat
        BY <1>0, FS_Subset, FS_CardinalityType DEF Recent
      <4>2. Recent(sent, HourSpan) \subseteq CallsIn(Recent(mem, HourSpan))
        BY <1>0, <1>1, <2>2, <3>2, LoadedWhenCounting DEF CountHour
      <4>3. Cardinality(Recent(sent, HourSpan)) <= Cardinality(Recent(mem, HourSpan))
        BY <4>1, <4>2, CallsCounted
      <4>4. ~(Cardinality(Recent(mem, HourSpan)) >= HourLimit - 2)
        BY <3>2 DEF HourExhausted
      <4> QED
        BY <1>0, <4>1, <4>3, <4>4
    <3> QED
      BY <1>0, <2>2, <3>1, <3>2, OnItsWay
  <2>3. faults' = 0 => Cardinality(Recent(sent, HourSpan)) <= HourLimit - 2
    BY <1>0 DEF SoloInv
  <2> QED
    BY <1>0, <1>1, <1>2, <2>1, <2>2, <2>3 DEF SoloInv
<1>3. CASE Post(w)
  <2>1. Recent(sent, HourSpan)' \subseteq Recent(sent, HourSpan) \cup {call[w]}
    BY <1>3 DEF Post, Recent
  <2>2. IsFiniteSet(sent') /\ pc'[w] = "idle" /\ pc[w] = "post"
    BY <1>0, <1>3, FS_AddElement DEF Post, TypeOK
  <2>3. /\ IsFiniteSet(Recent(sent, HourSpan) \cup {call[w]})
        /\ Cardinality(Recent(sent, HourSpan) \cup {call[w]})
             <= Cardinality(Recent(sent, HourSpan)) + 1
    <3>1. /\ IsFiniteSet(Recent(sent, HourSpan) \cup {call[w]})
          /\ Cardinality(Recent(sent, HourSpan) \cup {call[w]}) =
               IF call[w] \in Recent(sent, HourSpan) THEN Cardinality(Recent(sent, HourSpan))
               ELSE Cardinality(Recent(sent, HourSpan)) + 1
      BY <1>0, FS_AddElement
    <3> QED
      BY <1>0, <3>1
  <2>4. /\ Cardinality(Recent(sent, HourSpan)') \in Nat
        /\ Cardinality(Recent(sent, HourSpan) \cup {call[w]}) \in Nat
        /\ Cardinality(Recent(sent, HourSpan)')
             <= Cardinality(Recent(sent, HourSpan) \cup {call[w]})
    BY <2>1, <2>3, FS_Subset, FS_CardinalityType
  <2>5. faults' = 0 => Cardinality(Recent(sent, HourSpan)) <= HourLimit - 3
    BY <1>0, <2>2 DEF SoloInv
  <2>6. faults' = 0 => Cardinality(Recent(sent, HourSpan)') <= HourLimit - 2
    BY <1>0, <2>3, <2>4, <2>5
  <2> QED
    BY <1>1, <2>2, <2>6 DEF SoloInv
<1> QED
  BY <1>0, <1>1, <1>2, <1>3, SentNext

(* Within one life of the process every call that was sent is in the log,  *)
(* as the process's own.                                                   *)
OneLifeInv ==
  /\ \A c \in sent : [id |-> c.id, ts |-> c.ts, src |-> "own"] \in mem
  /\ \A w \in Workers : pc[w] \in {"persist", "post"} =>
       [id |-> call[w].id, ts |-> call[w].ts, src |-> "own"] \in mem

LEMMA OneLifeStep ==
  MaxRestarts = 0 /\ TypeOK /\ OneLifeInv /\ [Next]_vars => OneLifeInv'
<1> SUFFICES ASSUME MaxRestarts = 0, TypeOK, OneLifeInv, [Next]_vars
             PROVE  OneLifeInv'
  OBVIOUS
<1>1. ASSUME NEW w \in Workers, Record(w)
      PROVE  OneLifeInv'
  <2>1. /\ call' = [call EXCEPT ![w] = [id |-> calls, ts |-> now]]
        /\ mem' = mem \cup {[id |-> calls, ts |-> now, src |-> "own"]}
        /\ sent' = sent /\ pc' = [pc EXCEPT ![w] = "persist"]
    BY <1>1 DEF Record
  <2>2. ASSUME NEW v \in Workers, pc'[v] \in {"persist", "post"}
        PROVE  [id |-> call'[v].id, ts |-> call'[v].ts, src |-> "own"] \in mem'
    BY <2>1, <2>2 DEF OneLifeInv, TypeOK
  <2> QED
    BY <2>1, <2>2 DEF OneLifeInv
<1>2. ASSUME NEW w \in Workers, Post(w)
      PROVE  OneLifeInv'
  BY <1>2 DEF Post, OneLifeInv, TypeOK
<1>3. ASSUME NEW w \in Workers, Step(w), ~Record(w), ~Post(w)
      PROVE  OneLifeInv'
  <2>1. mem \subseteq mem' /\ UNCHANGED <<call, sent>>
    BY <1>3 DEF Step, AskUsage, SelectRows, AppendRow, AppendDone, CountHour, CountMinute,
                ShowUsage, Persist
  <2>2. \A v \in Workers : pc'[v] \in {"persist", "post"} => pc[v] \in {"persist", "post"}
    BY <1>3 DEF Step, AskUsage, SelectRows, AppendRow, AppendDone, CountHour, CountMinute,
                ShowUsage, Persist, TypeOK
  <2> QED
    BY <2>1, <2>2 DEF OneLifeInv
<1>4. CASE Tick \/ UNCHANGED vars
  BY <1>4 DEF Tick, vars, OneLifeInv
<1>5. ~Restart
  BY DEF Restart, TypeOK
<1> QED
  BY <1>1, <1>2, <1>3, <1>4, <1>5 DEF Next

(* The calls of one hour stay within the limit less its margin plus one    *)
(* per thread (torbox.py:82-83): over all lives of a process with one      *)
(* thread, and over one life of a process with any number of threads.      *)
THEOREM SentInMargin ==
  (Cardinality(Workers) = 1 \/ MaxRestarts = 0) /\ Spec => []SentWithinMargin
<1>1. Cardinality(Workers) = 1 /\ SoloInv => SentWithinMargin
  BY LimitAssumption DEF SoloInv, SentWithinMargin
<1>2. OneLifeInv /\ OvershootInv => SentWithinMargin
  <2> SUFFICES ASSUME OneLifeInv, OvershootInv
               PROVE  Cardinality(Recent(sent, HourSpan)) <= HourLimit - 3 + Cardinality(Workers)
    BY DEF SentWithinMargin
  <2>1. ASSUME NEW c \in Recent(sent, HourSpan)
        PROVE  c \in CallsIn(Own(HourSpan))
    <3> DEFINE e == [id |-> c.id, ts |-> c.ts, src |-> "own"]
    <3>1. c \in Call /\ e \in mem /\ c.ts >= now - HourSpan
      BY DEF Recent, OneLifeInv, OvershootInv, TypeOK
    <3>2. e \in Own(HourSpan)
      BY <3>1 DEF Own, Recent
    <3>3. CallOf(e) = c
      BY <3>1 DEF CallOf, Call
    <3> HIDE DEF e
    <3> QED
      BY <3>2, <3>3 DEF CallsIn
  <2>2. /\ IsFiniteSet(Own(HourSpan)) /\ IsFiniteSet(PassedHour)
        /\ Cardinality(Workers) \in Nat
    BY CountedFinite, SpanAssumption DEF OvershootInv
  <2>3. /\ Cardinality(Recent(sent, HourSpan)) <= Cardinality(Own(HourSpan))
        /\ Cardinality(Recent(sent, HourSpan)) \in Nat /\ Cardinality(Own(HourSpan)) \in Nat
    BY <2>1, <2>2, CallsCounted
  <2>4. Cardinality(PassedHour) \in Nat /\ HourLimit \in Nat
    BY <2>2, FS_CardinalityType, LimitAssumption
  <2> QED
    BY <2>2, <2>3, <2>4 DEF OvershootInv, HourOvershootBounded
<1>3. Init => OneLifeInv
  BY DEF Init, OneLifeInv
<1>4. DurableInv => TypeOK
  BY DEF DurableInv
<1>5. ASSUME Cardinality(Workers) = 1
      PROVE  Spec => []SentWithinMargin
  <2>1. SoloInv => SentWithinMargin
    BY <1>1, <1>5
  <2>2. DurableInv /\ LoadInv /\ OvershootInv /\ SoloInv /\ [Next]_vars => SoloInv'
    BY <1>5, SoloStep
  <2> QED
    BY <2>1, <2>2, <1>4, DurableInit, DurableStep, LoadInit, LoadStep, OvershootInit,
       OvershootStep, SoloInit, PTL DEF Spec
<1>6. ASSUME MaxRestarts = 0
      PROVE  Spec => []SentWithinMargin
  <2>1. TypeOK /\ OneLifeInv /\ [Next]_vars => OneLifeInv'
    BY <1>6, OneLifeStep
  <2> QED
    BY <1>2, <1>3, <1>4, <2>1, DurableInit, DurableStep, OvershootInit, OvershootStep,
       PTL DEF Spec
<1> QED
  BY <1>5, <1>6
=============================================================================
