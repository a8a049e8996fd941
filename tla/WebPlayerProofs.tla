-------------------------- MODULE WebPlayerProofs --------------------------
(***************************************************************************)
(* Theorems about the web player, for any number of jobs, seekers,         *)
(* releases and FFmpeg processes.                                          *)
(***************************************************************************)
EXTENDS WebPlayer, FiniteSetTheorems, NaturalsInduction, WellFoundedInduction,
        SequenceTheorems, TLAPS

(* What a job, a seek, a session and the other records may be.             *)
Underway   == {"try", "fetch", "probe", "mkdir", "start", "wait"}
JobStates  == [pc: Underway \cup {"none", "ready", "error"}, todo: Seq(Hashes), proc: Nat]
SeekStates == [pc: {"none", "stop", "wipe", "restart", "wait"},
               hash: Hashes \cup {NewSeek.hash}, proc: Nat]
Processes  == [hash: Hashes, running: BOOLEAN]

ProcsTyped == procs \in Seq(Processes)
JobsTyped ==
    /\ job \in [Jobs -> JobStates]
    /\ \A j \in Jobs : job[j].pc \in Underway => job[j].todo # <<>>
    /\ \A j \in Jobs : job[j].proc \in 0..Len(procs)
SeeksTyped ==
    /\ seek \in [Seekers -> SeekStates]
    /\ \A u \in Seekers : seek[u].pc # "none" => seek[u].hash \in Hashes
    /\ \A u \in Seekers : seek[u].proc \in 0..Len(procs)
SessionsTyped ==
    /\ sessions \in [Hashes -> [proc: Nat, idle: BOOLEAN]]
    /\ \A h \in Hashes : sessions[h].proc \in 0..Len(procs)
    /\ \A h \in Hashes : sessions[h].proc # 0 => procs[sessions[h].proc].hash = h
DirsTyped ==
    /\ dir \in [Hashes -> [exists: BOOLEAN, segments: SUBSET Nat]]
    /\ \A h \in Hashes : dir[h].segments \subseteq 1..Len(procs)
CleanerTyped ==
    /\ cleaner \in [busy: BOOLEAN, stale: SUBSET Hashes, wipe: SUBSET Hashes]
    /\ \A g, h \in cleaner.wipe : g = h
PastTyped ==
    past \in [overlap: SUBSET Hashes, clean: SUBSET Hashes]
TypeInv ==
    /\ ProcsTyped /\ JobsTyped /\ SeeksTyped /\ SessionsTyped /\ DirsTyped
    /\ CleanerTyped /\ PastTyped /\ library \subseteq Hashes

(* A nonempty set of positions has a first one.                            *)
LEMMA FirstExists ==
    ASSUME NEW S \in SUBSET Nat, S # {}
    PROVE  \E i \in S : \A k \in S : i <= k
<1> DEFINE R == {ss \in Nat \X Nat : ss[1] < ss[2]}
<1>1. IsWellFoundedOn(R, Nat)
  BY NatLessThanWellFounded DEF OpToRel
<1>2. \A k, i \in Nat : k < i => <<k, i>> \in R
  OBVIOUS
<1> HIDE DEF R
<1>3. PICK i \in S : \A k \in S : <<k, i>> \notin R
  BY <1>1, WFMin
<1>4. ASSUME NEW k \in S
      PROVE  i <= k
  <2>1. k \in Nat /\ i \in Nat /\ ~(k < i)
    BY <1>2, <1>3
  <2> QED
    BY <2>1
<1> QED
  BY <1>4

(* The candidates in the order they are tried are candidates.              *)
LEMMA BestFirstTyped ==
    ASSUME NEW s \in Seq(Hashes), s # <<>>, Best(s) # 0
    PROVE  BestFirst(s) \in Seq(Hashes) /\ BestFirst(s) # <<>>
<1> DEFINE within(S) == {i \in DOMAIN s : s[i] \in S}
           first(S)  == CHOOSE i \in within(S) : \A k \in within(S) : i <= k
<1>1. DOMAIN s = 1..Len(s) /\ Len(s) \in Nat /\ Len(s) > 0
  OBVIOUS
<1>2. ASSUME NEW S, within(S) # {}
      PROVE  first(S) \in DOMAIN s
  <2>1. within(S) \in SUBSET Nat
    BY <1>1
  <2>2. \E i \in within(S) : \A k \in within(S) : i <= k
    BY <1>2, <2>1, FirstExists
  <2>3. first(S) \in within(S)
    BY <2>2
  <2> QED
    BY <2>3
<1>3. Best(s) \in DOMAIN s
  <2>1. Best(s) = IF within(library) # {} THEN first(library)
                  ELSE IF within(Cached) # {} THEN first(Cached) ELSE 0
    BY DEF Best
  <2> QED
    BY <1>2, <2>1
<1>4. \A i \in 1..Len(s) : BestFirst(s)[i] \in Hashes
  BY <1>1, <1>3 DEF BestFirst
<1>5. BestFirst(s) = [i \in 1..Len(s) |-> BestFirst(s)[i]]
  BY <1>1 DEF BestFirst
<1>6. BestFirst(s) \in [1..Len(s) -> Hashes]
  BY <1>4, <1>5
<1> QED
  BY <1>1, <1>6

(***************************************************************************)
(* What the helpers do to the processes                                    *)
(***************************************************************************)

(* No process is added or changes its hash.                                *)
SameProcs ==
    /\ Len(procs') = Len(procs)
    /\ \A i \in 1..Len(procs) : /\ procs'[i].hash = procs[i].hash
                                /\ procs'[i].running => procs[i].running

LEMMA StopOne ==
    ASSUME ProcsTyped, NEW p \in 1..Len(procs),
           procs' = [procs EXCEPT ![p].running = FALSE]
    PROVE  ProcsTyped' /\ SameProcs /\ ~procs'[p].running
<1>1. procs \in Seq(Processes) /\ procs[p] \in Processes
  BY ElementOfSeq DEF ProcsTyped
<1>2. PICK r \in Processes : procs' = [procs EXCEPT ![p] = r] /\ ~r.running
                             /\ r.hash = procs[p].hash
  <2> DEFINE r == [procs[p] EXCEPT !.running = FALSE]
  <2>1. r \in Processes /\ ~r.running /\ r.hash = procs[p].hash
    BY <1>1 DEF Processes
  <2>2. procs' = [procs EXCEPT ![p] = r]
    OBVIOUS
  <2> QED
    BY <2>1, <2>2
<1>3. /\ [procs EXCEPT ![p] = r] \in Seq(Processes)
      /\ Len([procs EXCEPT ![p] = r]) = Len(procs)
      /\ \A i \in 1..Len(procs) : [procs EXCEPT ![p] = r][i] = IF i = p THEN r ELSE procs[i]
  BY <1>1, ExceptSeq
<1> QED
  BY <1>1, <1>2, <1>3 DEF ProcsTyped, SameProcs

LEMMA KillKeeps ==
    ASSUME ProcsTyped, NEW p \in 0..Len(procs), procs' = Killed(p)
    PROVE  /\ ProcsTyped' /\ SameProcs
           /\ p # 0 => ~procs'[p].running
<1>1. CASE p = 0
  BY <1>1 DEF ProcsTyped, Killed, SameProcs, Processes
<1>2. CASE p # 0
  <2>1. procs' = [procs EXCEPT ![p].running = FALSE] /\ p \in 1..Len(procs)
    BY <1>2 DEF Killed, ProcsTyped
  <2> QED
    BY <2>1, StopOne
<1> QED
  BY <1>1, <1>2

LEMMA StartAdds ==
    ASSUME ProcsTyped, NEW h \in Hashes, StartHls(h)
    PROVE  /\ ProcsTyped' /\ Len(procs') = Len(procs) + 1
           /\ \A i \in 1..Len(procs) : procs'[i] = procs[i]
           /\ procs'[Len(procs) + 1] = [hash |-> h, running |-> TRUE]
BY DEF ProcsTyped, StartHls, Processes

(***************************************************************************)
(* Type correctness                                                        *)
(***************************************************************************)

LEMMA TypeInit == Init => TypeInv
<1> SUFFICES ASSUME Init
             PROVE  TypeInv
  OBVIOUS
<1>1. ProcsTyped /\ Len(procs) = 0
  BY DEF Init, ProcsTyped
<1>2. JobsTyped
  BY <1>1 DEF Init, JobsTyped, NewJob, JobStates, Underway
<1>3. SeeksTyped
  BY <1>1 DEF Init, SeeksTyped, NewSeek, SeekStates
<1>4. SessionsTyped /\ DirsTyped
  BY <1>1 DEF Init, SessionsTyped, DirsTyped, NoSession, NoDir
<1>5. CleanerTyped /\ PastTyped /\ library \subseteq Hashes
  BY WebPlayerConstants DEF Init, CleanerTyped, PastTyped
<1> QED
  BY <1>1, <1>2, <1>3, <1>4, <1>5 DEF TypeInv

(* A job under way has a candidate in hand.                                *)
LEMMA InHand ==
    ASSUME TypeInv, NEW j \in Jobs, job[j].pc \in Underway
    PROVE  /\ job[j] \in JobStates /\ job[j].todo \in Seq(Hashes) /\ job[j].todo # <<>>
           /\ HashOf(j) \in Hashes /\ HashOf(j) = Head(job[j].todo)
BY DEF TypeInv, JobsTyped, JobStates, HashOf

(* What a step may do to the processes.                                    *)
LEMMA ProcsSteps ==
    ASSUME TypeInv, [Next]_vars
    PROVE  \/ UNCHANGED procs
           \/ \E p \in 1..Len(procs) : procs' = [procs EXCEPT ![p].running = FALSE]
           \/ \E j \in Jobs : Start(j) /\ dir[HashOf(j)].exists
           \/ \E u \in Seekers : SeekRestart(u) /\ dir[seek[u].hash].exists
<1>1. ASSUME NEW p \in DOMAIN procs, Exit(p)
      PROVE  \E q \in 1..Len(procs) : procs' = [procs EXCEPT ![q].running = FALSE]
  <2>1. p \in 1..Len(procs)
    BY DEF TypeInv, ProcsTyped
  <2> QED
    BY <1>1, <2>1 DEF Exit
<1>2. ASSUME NEW p \in 0..Len(procs), procs' = Killed(p)
      PROVE  \/ UNCHANGED procs
             \/ \E q \in 1..Len(procs) : procs' = [procs EXCEPT ![q].running = FALSE]
  <2>1. CASE p = 0
    BY <1>2, <2>1 DEF Killed
  <2>2. CASE p # 0
    <3>1. p \in 1..Len(procs) /\ procs' = [procs EXCEPT ![p].running = FALSE]
      BY <1>2, <2>2 DEF Killed, TypeInv, ProcsTyped
    <3> QED
      BY <3>1
  <2> QED
    BY <2>1, <2>2
<1>3. ASSUME NEW j \in Jobs, JobStep(j) \/ \E r \in Rankings : Search(j, r)
      PROVE  \/ UNCHANGED procs
             \/ Start(j) /\ dir[HashOf(j)].exists
             \/ \E p \in 0..Len(procs) : procs' = Killed(p)
  <2>1. CASE Start(j)
    BY <2>1 DEF Start
  <2>2. CASE Wait(j)
    <3>1. job[j].proc \in 0..Len(procs)
      BY DEF TypeInv, JobsTyped
    <3> QED
      BY <2>2, <3>1 DEF Wait
  <2> QED
    BY <1>3, <2>1, <2>2 DEF JobStep, Try, Fetch, Probe, Mkdir, Search
<1>4. ASSUME NEW u \in Seekers, SeekStep(u) \/ \E h \in Hashes : SeekStart(u, h)
      PROVE  \/ UNCHANGED procs
             \/ SeekRestart(u) /\ dir[seek[u].hash].exists
             \/ \E p \in 0..Len(procs) : procs' = Killed(p)
  <2>1. CASE SeekRestart(u)
    BY <2>1 DEF SeekRestart
  <2>2. CASE SeekStop(u)
    <3>1. seek[u].proc \in 0..Len(procs)
      BY DEF TypeInv, SeeksTyped
    <3> QED
      BY <2>2, <3>1 DEF SeekStop
  <2> QED
    BY <1>4, <2>1, <2>2 DEF SeekStep, SeekWipe, SeekWait, SeekStart
<1>5. ASSUME NEW h \in Hashes, CleanupPop(h)
      PROVE  \E p \in 0..Len(procs) : procs' = Killed(p)
  BY <1>5 DEF CleanupPop, TypeInv, SessionsTyped
<1>6. ASSUME NEW h \in Hashes, ServeFile(h) \/ GoIdle(h) \/ CleanupWipe(h)
      PROVE  UNCHANGED procs
  BY <1>6 DEF ServeFile, GoIdle, CleanupWipe
<1>7. CASE CleanupList \/ CleanupEnd \/ UNCHANGED vars
  BY <1>7 DEF CleanupList, CleanupEnd, vars
<1>8. ASSUME NEW p \in DOMAIN procs, Write(p)
      PROVE  UNCHANGED procs
  BY <1>8 DEF Write
<1> QED
  BY <1>1, <1>2, <1>3, <1>4, <1>5, <1>6, <1>7, <1>8 DEF Next, Cleanup

LEMMA ProcsTypedNext ==
    ASSUME TypeInv, [Next]_vars
    PROVE  ProcsTyped' /\ Len(procs) <= Len(procs')
           /\ \A i \in 1..Len(procs) : procs'[i].hash = procs[i].hash
<1>0. ProcsTyped /\ Len(procs) \in Nat
  BY DEF TypeInv, ProcsTyped
<1>1. CASE UNCHANGED procs
  BY <1>0, <1>1 DEF ProcsTyped
<1>2. ASSUME NEW p \in 1..Len(procs), procs' = [procs EXCEPT ![p].running = FALSE]
      PROVE  ProcsTyped' /\ SameProcs
  BY <1>0, <1>2, StopOne
<1>3. ASSUME NEW h \in Hashes, StartHls(h)
      PROVE  ProcsTyped' /\ Len(procs) <= Len(procs')
             /\ \A i \in 1..Len(procs) : procs'[i].hash = procs[i].hash
  <2>1. /\ ProcsTyped' /\ Len(procs') = Len(procs) + 1
        /\ \A i \in 1..Len(procs) : procs'[i] = procs[i]
    BY <1>0, <1>3, StartAdds
  <2> QED
    BY <1>0, <2>1
<1>4. ASSUME NEW j \in Jobs, Start(j), dir[HashOf(j)].exists
      PROVE  HashOf(j) \in Hashes /\ StartHls(HashOf(j))
  BY <1>4, InHand DEF Start, Underway
<1>5. ASSUME NEW u \in Seekers, SeekRestart(u), dir[seek[u].hash].exists
      PROVE  seek[u].hash \in Hashes /\ StartHls(seek[u].hash)
  BY <1>5 DEF SeekRestart, TypeInv, SeeksTyped
<1> QED
  BY <1>0, <1>1, <1>2, <1>3, <1>4, <1>5, ProcsSteps DEF SameProcs

LEMMA JobSet ==
    ASSUME TypeInv, [Next]_vars, NEW j \in Jobs, NEW s \in JobStates,
           job' = [job EXCEPT ![j] = s],
           s.pc \in Underway => s.todo # <<>>,
           s.proc \in 0..Len(procs')
    PROVE  JobsTyped'
<1>1. job' \in [Jobs -> JobStates]
  BY DEF TypeInv, JobsTyped
<1>2. Len(procs) \in Nat /\ Len(procs') \in Nat /\ Len(procs) <= Len(procs')
  BY ProcsTypedNext DEF TypeInv, ProcsTyped
<1>3. ASSUME NEW k \in Jobs
      PROVE  /\ job'[k].pc \in Underway => job'[k].todo # <<>>
             /\ job'[k].proc \in 0..Len(procs')
  <2>1. CASE k = j
    BY <2>1 DEF TypeInv, JobsTyped
  <2>2. CASE k # j
    BY <1>2, <2>2 DEF TypeInv, JobsTyped
  <2> QED
    BY <2>1, <2>2
<1> QED
  BY <1>1, <1>3 DEF JobsTyped

LEMMA JobsTypedNext ==
    ASSUME TypeInv, [Next]_vars
    PROVE  JobsTyped'
<1>0. /\ Len(procs) \in Nat /\ Len(procs') \in Nat /\ Len(procs) <= Len(procs')
      /\ job \in [Jobs -> JobStates]
  BY ProcsTypedNext DEF TypeInv, ProcsTyped, JobsTyped
<1>1. CASE UNCHANGED job
  BY <1>0, <1>1 DEF TypeInv, JobsTyped
<1>2. ASSUME NEW j \in Jobs, NEW pc \in Underway \cup {"ready", "error"},
             Goes(j, pc), job[j].pc \in Underway
      PROVE  JobsTyped'
  <2> DEFINE s == [job[j] EXCEPT !.pc = pc]
  <2>1. s \in JobStates /\ s.todo = job[j].todo /\ s.proc = job[j].proc
    BY <1>0 DEF JobStates, Underway
  <2>2. job' = [job EXCEPT ![j] = s]
    BY <1>0, <1>2 DEF Goes
  <2>3. job[j].todo # <<>> /\ job[j].proc \in 0..Len(procs')
    BY <1>0, <1>2 DEF TypeInv, JobsTyped
  <2> HIDE DEF s
  <2> QED
    BY <2>1, <2>2, <2>3, JobSet
<1>3. ASSUME NEW j \in Jobs, Fails(j)
      PROVE  JobsTyped'
  <2> DEFINE s == [job[j] EXCEPT !.pc = "error"]
  <2>1. s \in JobStates /\ s.pc \notin Underway /\ s.proc = job[j].proc
    BY <1>0 DEF JobStates, Underway
  <2>2. job' = [job EXCEPT ![j] = s]
    BY <1>0, <1>3 DEF Fails
  <2>3. job[j].proc \in 0..Len(procs')
    BY <1>0 DEF TypeInv, JobsTyped
  <2> HIDE DEF s
  <2> QED
    BY <2>1, <2>2, <2>3, JobSet
<1>4. ASSUME NEW j \in Jobs, Skips(j), job[j].pc \in Underway
      PROVE  JobsTyped'
  <2>1. job[j].todo \in Seq(Hashes) /\ job[j].todo # <<>>
    BY <1>4, InHand
  <2>2. /\ Tail(job[j].todo) \in Seq(Hashes)
        /\ Len(job[j].todo) # 1 => Tail(job[j].todo) # <<>>
    <3>1. /\ Tail(job[j].todo) \in Seq(Hashes)
          /\ Len(Tail(job[j].todo)) = Len(job[j].todo) - 1
      BY <2>1, HeadTailProperties
    <3>2. ASSUME Len(job[j].todo) # 1, Tail(job[j].todo) = <<>>
          PROVE  FALSE
      <4> DEFINE n == Len(job[j].todo)
      <4>1. n \in Nat /\ n # 1
        BY <2>1, <3>2
      <4>2. Len(<<>>) = n - 1
        BY <3>1, <3>2
      <4>3. Len(<<>>) = 0
        OBVIOUS
      <4> HIDE DEF n
      <4> QED
        BY <4>1, <4>2, <4>3
    <3> QED
      BY <3>1, <3>2
  <2> DEFINE pc == IF Len(job[j].todo) = 1 THEN "error" ELSE "try"
             s  == [job[j] EXCEPT !.todo = Tail(@), !.pc = pc]
  <2>3. /\ s \in JobStates /\ s.proc = job[j].proc
        /\ s.pc \in Underway => s.todo # <<>>
    BY <1>0, <2>2 DEF JobStates, Underway
  <2>4. job' = [job EXCEPT ![j] = s]
    BY <1>0, <1>4 DEF Skips
  <2>5. job[j].proc \in 0..Len(procs')
    BY <1>0 DEF TypeInv, JobsTyped
  <2> HIDE DEF s
  <2> QED
    BY <2>3, <2>4, <2>5, JobSet
<1>5. ASSUME NEW j \in Jobs, NEW r \in Rankings, Search(j, r)
      PROVE  JobsTyped'
  <2>1. CASE r # <<>> /\ Best(r) # 0
    <3> DEFINE s == [job[j] EXCEPT !.pc = "try", !.todo = BestFirst(r)]
    <3>1. BestFirst(r) \in Seq(Hashes) /\ BestFirst(r) # <<>>
      BY <2>1, BestFirstTyped, WebPlayerConstants
    <3>2. s \in JobStates /\ s.todo # <<>> /\ s.proc = job[j].proc
      BY <1>0, <3>1 DEF JobStates, Underway
    <3>3. job' = [job EXCEPT ![j] = s]
      BY <1>0, <1>5, <2>1 DEF Search
    <3>4. job[j].proc \in 0..Len(procs')
      BY <1>0 DEF TypeInv, JobsTyped
    <3> HIDE DEF s
    <3> QED
      BY <3>2, <3>3, <3>4, JobSet
  <2> QED
    BY <1>3, <1>5, <2>1 DEF Search
<1>6. ASSUME NEW j \in Jobs, Start(j)
      PROVE  JobsTyped'
  <2>1. CASE dir[HashOf(j)].exists
    <3> DEFINE n == Len(procs) + 1
               s == [job[j] EXCEPT !.pc = "wait", !.proc = n]
    <3>1. n \in Nat
      BY <1>0
    <3>2. job' = [job EXCEPT ![j] = s]
      BY <1>0, <1>6, <2>1 DEF Start
    <3>3. Len(procs') = n
      <4>1. StartHls(HashOf(j)) /\ HashOf(j) \in Hashes
        BY <1>6, <2>1, InHand DEF Start, Underway
      <4> QED
        BY <4>1, StartAdds DEF TypeInv
    <3> HIDE DEF n
    <3>4. s \in JobStates /\ s.todo = job[j].todo /\ s.proc = n
      BY <1>0, <3>1 DEF JobStates, Underway
    <3>5. job[j].todo # <<>>
      BY <1>6, InHand DEF Start, Underway
    <3>6. n \in 0..Len(procs')
      BY <3>1, <3>3
    <3> HIDE DEF s
    <3> QED
      BY <3>2, <3>4, <3>5, <3>6, JobSet
  <2> QED
    BY <1>3, <1>6, <2>1 DEF Start
<1>7. ASSUME NEW j \in Jobs, Try(j) \/ Fetch(j) \/ Probe(j) \/ Mkdir(j) \/ Wait(j)
      PROVE  JobsTyped'
  <2>1. job[j].pc \in Underway
    BY <1>7 DEF Try, Fetch, Probe, Mkdir, Wait, Underway
  <2>2. Skips(j) \/ Fails(j) \/ \E pc \in Underway \cup {"ready"} : Goes(j, pc)
    BY <1>7 DEF Try, Fetch, Probe, Mkdir, Wait, Underway
  <2> QED
    BY <1>2, <1>3, <1>4, <2>1, <2>2
<1>8. ASSUME NEW u \in Seekers, SeekStep(u) \/ \E h \in Hashes : SeekStart(u, h)
      PROVE  UNCHANGED job
  BY <1>8 DEF SeekStep, SeekStart, SeekStop, SeekWipe, SeekRestart, SeekWait
<1>9. CASE Cleanup \/ \E h \in Hashes : ServeFile(h) \/ GoIdle(h)
  BY <1>1, <1>9 DEF Cleanup, CleanupList, CleanupEnd, CleanupPop, CleanupWipe,
                    ServeFile, GoIdle
<1>10. CASE UNCHANGED vars \/ \E p \in DOMAIN procs : Write(p) \/ Exit(p)
  BY <1>1, <1>10 DEF Write, Exit, vars
<1> QED
  BY <1>1, <1>5, <1>6, <1>7, <1>8, <1>9, <1>10 DEF Next, JobStep

LEMMA SeekSet ==
    ASSUME TypeInv, [Next]_vars, NEW u \in Seekers, NEW s \in SeekStates,
           seek' = [seek EXCEPT ![u] = s],
           s.pc # "none" => s.hash \in Hashes,
           s.proc \in 0..Len(procs)
    PROVE  SeeksTyped'
<1>1. seek' \in [Seekers -> SeekStates]
  BY DEF TypeInv, SeeksTyped
<1>2. Len(procs) \in Nat /\ Len(procs') \in Nat /\ Len(procs) <= Len(procs')
  BY ProcsTypedNext DEF TypeInv, ProcsTyped
<1>3. ASSUME NEW v \in Seekers
      PROVE  /\ seek'[v].pc # "none" => seek'[v].hash \in Hashes
             /\ seek'[v].proc \in 0..Len(procs')
  <2>1. CASE v = u
    BY <1>2, <2>1 DEF TypeInv, SeeksTyped
  <2>2. CASE v # u
    BY <1>2, <2>2 DEF TypeInv, SeeksTyped
  <2> QED
    BY <2>1, <2>2
<1> QED
  BY <1>1, <1>3 DEF SeeksTyped

LEMMA SeeksTypedNext ==
    ASSUME TypeInv, [Next]_vars
    PROVE  SeeksTyped'
<1>0. /\ Len(procs) \in Nat /\ Len(procs') \in Nat /\ Len(procs) <= Len(procs')
      /\ seek \in [Seekers -> SeekStates]
  BY ProcsTypedNext DEF TypeInv, ProcsTyped, SeeksTyped
<1>1. CASE UNCHANGED seek
  BY <1>0, <1>1 DEF TypeInv, SeeksTyped
<1>2. ASSUME NEW u \in Seekers, NEW pc \in {"none", "wipe", "restart", "wait"},
             SeekGoes(u, pc), seek[u].pc # "none"
      PROVE  SeeksTyped'
  <2> DEFINE s == [seek[u] EXCEPT !.pc = pc]
  <2>1. s \in SeekStates /\ s.hash = seek[u].hash /\ s.proc = seek[u].proc
    BY <1>0 DEF SeekStates
  <2>2. seek' = [seek EXCEPT ![u] = s]
    BY <1>0, <1>2 DEF SeekGoes
  <2>3. seek[u].hash \in Hashes /\ seek[u].proc \in 0..Len(procs)
    BY <1>2 DEF TypeInv, SeeksTyped
  <2> HIDE DEF s
  <2> QED
    BY <2>1, <2>2, <2>3, SeekSet
<1>3. ASSUME NEW u \in Seekers, NEW h \in Hashes, SeekStart(u, h)
      PROVE  SeeksTyped'
  <2> DEFINE s == [pc |-> "stop", hash |-> h, proc |-> sessions[h].proc]
  <2>1. sessions[h].proc \in 0..Len(procs)
    BY DEF TypeInv, SessionsTyped
  <2>2. s \in SeekStates /\ s.hash = h /\ s.proc = sessions[h].proc
    BY <1>0, <2>1 DEF SeekStates
  <2>3. seek' = [seek EXCEPT ![u] = s]
    BY <1>3 DEF SeekStart
  <2> HIDE DEF s
  <2> QED
    BY <2>1, <2>2, <2>3, SeekSet
<1>4. ASSUME NEW u \in Seekers, SeekStep(u)
      PROVE  SeeksTyped'
  <2>1. seek[u].pc # "none"
    BY <1>4 DEF SeekStep, SeekStop, SeekWipe, SeekRestart, SeekWait
  <2>2. \E pc \in {"none", "wipe", "restart", "wait"} : SeekGoes(u, pc)
    BY <1>4 DEF SeekStep, SeekStop, SeekWipe, SeekRestart, SeekWait
  <2> QED
    BY <1>2, <2>1, <2>2
<1>5. ASSUME NEW j \in Jobs, JobStep(j)
      PROVE  UNCHANGED seek
  BY <1>5 DEF JobStep, Try, Fetch, Probe, Mkdir, Start, Wait
<1>6. ASSUME NEW j \in Jobs, NEW r \in Rankings, Search(j, r)
      PROVE  UNCHANGED seek
  BY <1>6 DEF Search
<1>9. CASE Cleanup \/ \E h \in Hashes : ServeFile(h) \/ GoIdle(h)
  BY <1>1, <1>9 DEF Cleanup, CleanupList, CleanupEnd, CleanupPop, CleanupWipe,
                    ServeFile, GoIdle
<1>10. CASE UNCHANGED vars \/ \E p \in DOMAIN procs : Write(p) \/ Exit(p)
  BY <1>1, <1>10 DEF Write, Exit, vars
<1> QED
  BY <1>1, <1>3, <1>4, <1>5, <1>6, <1>9, <1>10 DEF Next

(* What a step may do to the sessions.                                     *)
LEMMA SessionSteps ==
    ASSUME [Next]_vars
    PROVE  \/ UNCHANGED sessions
           \/ \E j \in Jobs : Start(j) /\ dir[HashOf(j)].exists
           \/ \E u \in Seekers : SeekRestart(u) /\ dir[seek[u].hash].exists
           \/ \E h \in Hashes : CleanupPop(h) \/ ServeFile(h) \/ GoIdle(h)
<1>1. ASSUME NEW j \in Jobs, JobStep(j)
      PROVE  UNCHANGED sessions \/ (Start(j) /\ dir[HashOf(j)].exists)
  <2>1. CASE Try(j) \/ Fetch(j) \/ Probe(j) \/ Mkdir(j) \/ Wait(j)
    BY <2>1 DEF Try, Fetch, Probe, Mkdir, Wait
  <2>2. CASE Start(j) /\ ~dir[HashOf(j)].exists
    BY <2>2 DEF Start
  <2> QED
    BY <1>1, <2>1, <2>2 DEF JobStep
<1>2. ASSUME NEW j \in Jobs, NEW r \in Rankings, Search(j, r)
      PROVE  UNCHANGED sessions
  BY <1>2 DEF Search
<1>3. ASSUME NEW u \in Seekers, SeekStep(u)
      PROVE  UNCHANGED sessions \/ (SeekRestart(u) /\ dir[seek[u].hash].exists)
  <2>1. CASE SeekStop(u) \/ SeekWipe(u) \/ SeekWait(u)
    BY <2>1 DEF SeekStop, SeekWipe, SeekWait
  <2>2. CASE SeekRestart(u) /\ ~dir[seek[u].hash].exists
    BY <2>2 DEF SeekRestart
  <2> QED
    BY <1>3, <2>1, <2>2 DEF SeekStep
<1>4. ASSUME NEW u \in Seekers, NEW h \in Hashes, SeekStart(u, h)
      PROVE  UNCHANGED sessions
  BY <1>4 DEF SeekStart
<1>5. CASE Cleanup
  BY <1>5 DEF Cleanup, CleanupList, CleanupEnd, CleanupWipe
<1>6. CASE UNCHANGED vars \/ \E p \in DOMAIN procs : Write(p) \/ Exit(p)
  BY <1>6 DEF Write, Exit, vars
<1> QED
  BY <1>1, <1>2, <1>3, <1>4, <1>5, <1>6 DEF Next

LEMMA SessionSet ==
    ASSUME TypeInv, [Next]_vars, NEW h \in Hashes, NEW s \in [proc: Nat, idle: BOOLEAN],
           sessions' = [sessions EXCEPT ![h] = s],
           s.proc \in 0..Len(procs'),
           s.proc # 0 => procs'[s.proc].hash = h
    PROVE  SessionsTyped'
<1>1. sessions' \in [Hashes -> [proc: Nat, idle: BOOLEAN]]
  BY DEF TypeInv, SessionsTyped
<1>2. /\ Len(procs) \in Nat /\ Len(procs') \in Nat /\ Len(procs) <= Len(procs')
      /\ \A i \in 1..Len(procs) : procs'[i].hash = procs[i].hash
  BY ProcsTypedNext DEF TypeInv, ProcsTyped
<1>3. ASSUME NEW g \in Hashes
      PROVE  /\ sessions'[g].proc \in 0..Len(procs')
             /\ sessions'[g].proc # 0 => procs'[sessions'[g].proc].hash = g
  <2>1. CASE g = h
    BY <2>1 DEF TypeInv, SessionsTyped
  <2>2. CASE g # h
    <3>1. sessions'[g] = sessions[g]
      BY <2>2 DEF TypeInv, SessionsTyped
    <3>2. /\ sessions[g].proc \in 0..Len(procs)
          /\ sessions[g].proc # 0 => procs[sessions[g].proc].hash = g
      BY DEF TypeInv, SessionsTyped
    <3> QED
      BY <1>2, <3>1, <3>2
  <2> QED
    BY <2>1, <2>2
<1> QED
  BY <1>1, <1>3 DEF SessionsTyped

LEMMA SessionsTypedNext ==
    ASSUME TypeInv, [Next]_vars
    PROVE  SessionsTyped'
<1>0. /\ Len(procs) \in Nat /\ Len(procs') \in Nat /\ Len(procs) <= Len(procs')
      /\ \A i \in 1..Len(procs) : procs'[i].hash = procs[i].hash
      /\ sessions \in [Hashes -> [proc: Nat, idle: BOOLEAN]]
      /\ \A h \in Hashes : sessions[h].proc \in 0..Len(procs)
      /\ \A h \in Hashes : sessions[h].proc # 0 => procs[sessions[h].proc].hash = h
  BY ProcsTypedNext DEF TypeInv, ProcsTyped, SessionsTyped
<1>1. CASE UNCHANGED sessions
  BY <1>0, <1>1 DEF SessionsTyped
<1>2. ASSUME NEW h \in Hashes, StartHls(h)
      PROVE  SessionsTyped'
  <2> DEFINE n == Len(procs) + 1
             s == [proc |-> n, idle |-> FALSE]
  <2>1. n \in Nat /\ n # 0
    BY <1>0
  <2>2. sessions' = [sessions EXCEPT ![h] = s]
    BY <1>2 DEF StartHls
  <2>3. Len(procs') = n /\ procs'[n].hash = h
    <3>1. Len(procs') = n /\ procs'[n] = [hash |-> h, running |-> TRUE]
      BY <1>2, StartAdds DEF TypeInv
    <3> QED
      BY <3>1
  <2> HIDE DEF n
  <2>4. s \in [proc: Nat, idle: BOOLEAN] /\ s.proc = n /\ n \in 0..Len(procs')
    BY <2>1, <2>3
  <2> HIDE DEF s
  <2> QED
    BY <2>2, <2>3, <2>4, SessionSet
<1>3. ASSUME NEW h \in Hashes, NEW b \in BOOLEAN,
             sessions' = [sessions EXCEPT ![h].idle = b]
      PROVE  SessionsTyped'
  <2> DEFINE s == [sessions[h] EXCEPT !.idle = b]
  <2>1. s \in [proc: Nat, idle: BOOLEAN] /\ s.proc = sessions[h].proc
    BY <1>0
  <2>2. sessions' = [sessions EXCEPT ![h] = s]
    BY <1>0, <1>3
  <2>3. /\ sessions[h].proc \in 0..Len(procs')
        /\ sessions[h].proc # 0 => procs'[sessions[h].proc].hash = h
    BY <1>0
  <2> HIDE DEF s
  <2> QED
    BY <2>1, <2>2, <2>3, SessionSet
<1>4. ASSUME NEW h \in Hashes, CleanupPop(h)
      PROVE  SessionsTyped'
  <2>1. sessions' = [sessions EXCEPT ![h] = NoSession]
    BY <1>4 DEF CleanupPop
  <2>2. NoSession \in [proc: Nat, idle: BOOLEAN] /\ NoSession.proc = 0
    BY DEF NoSession
  <2>3. 0 \in 0..Len(procs')
    BY <1>0
  <2> QED
    BY <2>1, <2>2, <2>3, SessionSet
<1>5. ASSUME NEW j \in Jobs, Start(j), dir[HashOf(j)].exists
      PROVE  SessionsTyped'
  <2>1. StartHls(HashOf(j)) /\ HashOf(j) \in Hashes
    BY <1>5, InHand DEF Start, Underway
  <2> QED
    BY <1>2, <2>1
<1>6. ASSUME NEW u \in Seekers, SeekRestart(u), dir[seek[u].hash].exists
      PROVE  SessionsTyped'
  <2>1. StartHls(seek[u].hash) /\ seek[u].hash \in Hashes
    BY <1>6 DEF SeekRestart, TypeInv, SeeksTyped
  <2> QED
    BY <1>2, <2>1
<1> QED
  BY <1>1, <1>3, <1>4, <1>5, <1>6, SessionSteps DEF ServeFile, GoIdle

(* What a step may do to the directories.                                  *)
LEMMA DirSteps ==
    ASSUME [Next]_vars
    PROVE  \/ UNCHANGED dir
           \/ \E p \in DOMAIN procs : Write(p)
           \/ \E j \in Jobs : Mkdir(j)
           \/ \E u \in Seekers : SeekWipe(u)
           \/ \E h \in Hashes : CleanupWipe(h)
<1>1. ASSUME NEW j \in Jobs, JobStep(j)
      PROVE  UNCHANGED dir \/ Mkdir(j)
  BY <1>1 DEF JobStep, Try, Fetch, Probe, Start, Wait
<1>2. ASSUME NEW j \in Jobs, NEW r \in Rankings, Search(j, r)
      PROVE  UNCHANGED dir
  BY <1>2 DEF Search
<1>3. ASSUME NEW u \in Seekers, SeekStep(u)
      PROVE  UNCHANGED dir \/ SeekWipe(u)
  BY <1>3 DEF SeekStep, SeekStop, SeekRestart, SeekWait
<1>4. ASSUME NEW u \in Seekers, NEW h \in Hashes, SeekStart(u, h)
      PROVE  UNCHANGED dir
  BY <1>4 DEF SeekStart
<1>5. CASE Cleanup
  BY <1>5 DEF Cleanup, CleanupList, CleanupEnd, CleanupPop
<1>6. CASE UNCHANGED vars \/ \E p \in DOMAIN procs : Exit(p)
  BY <1>6 DEF Exit, vars
<1>7. CASE \E h \in Hashes : ServeFile(h) \/ GoIdle(h)
  BY <1>7 DEF ServeFile, GoIdle
<1> QED
  BY <1>1, <1>2, <1>3, <1>4, <1>5, <1>6, <1>7 DEF Next

LEMMA DirsTypedNext ==
    ASSUME TypeInv, [Next]_vars
    PROVE  DirsTyped'
<1>0. /\ Len(procs) \in Nat /\ Len(procs') \in Nat /\ Len(procs) <= Len(procs')
      /\ dir \in [Hashes -> [exists: BOOLEAN, segments: SUBSET Nat]]
      /\ \A h \in Hashes : dir[h].segments \subseteq 1..Len(procs)
  BY ProcsTypedNext DEF TypeInv, ProcsTyped, DirsTyped
<1>1. CASE UNCHANGED dir
  BY <1>0, <1>1 DEF DirsTyped
<1>2. ASSUME NEW h \in Hashes, NEW s \in [exists: BOOLEAN, segments: SUBSET Nat],
             dir' = [dir EXCEPT ![h] = s], s.segments \subseteq 1..Len(procs)
      PROVE  DirsTyped'
  <2>1. dir' \in [Hashes -> [exists: BOOLEAN, segments: SUBSET Nat]]
    BY <1>0, <1>2
  <2>2. ASSUME NEW g \in Hashes
        PROVE  dir'[g].segments \subseteq 1..Len(procs)
    BY <1>0, <1>2
  <2> QED
    BY <1>0, <2>1, <2>2 DEF DirsTyped
<1>3. ASSUME NEW h \in Hashes, NEW S \in SUBSET (1..Len(procs)),
             dir' = [dir EXCEPT ![h].segments = S]
      PROVE  DirsTyped'
  <2> DEFINE s == [dir[h] EXCEPT !.segments = S]
  <2>1. s \in [exists: BOOLEAN, segments: SUBSET Nat] /\ s.segments = S
    BY <1>0
  <2>2. dir' = [dir EXCEPT ![h] = s]
    BY <1>0, <1>3
  <2> HIDE DEF s
  <2> QED
    BY <1>2, <2>1, <2>2
<1>4. ASSUME NEW p \in DOMAIN procs, Write(p)
      PROVE  DirsTyped'
  <2> DEFINE h == procs[p].hash
             S == dir[h].segments \cup {p}
  <2>1. p \in 1..Len(procs) /\ h \in Hashes
    <3>1. procs \in Seq(Processes) /\ p \in 1..Len(procs)
      BY DEF TypeInv, ProcsTyped
    <3>2. procs[p] \in Processes
      BY <3>1, ElementOfSeq
    <3> QED
      BY <3>1, <3>2 DEF Processes
  <2>2. S \in SUBSET (1..Len(procs))
    BY <1>0, <2>1
  <2>3. dir' = [dir EXCEPT ![h].segments = S]
    BY <1>0, <1>4, <2>1 DEF Write
  <2> HIDE DEF h, S
  <2> QED
    BY <1>3, <2>1, <2>2, <2>3
<1>5. ASSUME NEW j \in Jobs, Mkdir(j)
      PROVE  DirsTyped'
  <2> DEFINE h == HashOf(j)
             s == [dir[h] EXCEPT !.exists = TRUE]
  <2>1. h \in Hashes
    BY <1>5, InHand DEF Mkdir, Underway
  <2>2. dir' = [dir EXCEPT ![h] = s]
    BY <1>0, <1>5, <2>1 DEF Mkdir
  <2> HIDE DEF h
  <2>3. /\ s \in [exists: BOOLEAN, segments: SUBSET Nat]
        /\ s.segments \subseteq 1..Len(procs)
    BY <1>0, <2>1
  <2> HIDE DEF s
  <2> QED
    BY <1>2, <2>1, <2>2, <2>3
<1>6. ASSUME NEW u \in Seekers, SeekWipe(u)
      PROVE  DirsTyped'
  <2>1. seek[u].hash \in Hashes /\ dir' = [dir EXCEPT ![seek[u].hash].segments = {}]
    BY <1>6 DEF SeekWipe, TypeInv, SeeksTyped
  <2>2. {} \in SUBSET (1..Len(procs))
    OBVIOUS
  <2> QED
    BY <1>3, <2>1, <2>2
<1>7. ASSUME NEW h \in Hashes, CleanupWipe(h)
      PROVE  DirsTyped'
  <2>1. dir' = [dir EXCEPT ![h] = NoDir]
    BY <1>7 DEF CleanupWipe
  <2>2. /\ NoDir \in [exists: BOOLEAN, segments: SUBSET Nat]
        /\ NoDir.segments \subseteq 1..Len(procs)
    BY DEF NoDir
  <2> QED
    BY <1>2, <2>1, <2>2
<1> QED
  BY <1>1, <1>4, <1>5, <1>6, <1>7, DirSteps

LEMMA CleanerTypedNext ==
    ASSUME TypeInv, [Next]_vars
    PROVE  CleanerTyped'
<1>0. /\ cleaner \in [busy: BOOLEAN, stale: SUBSET Hashes, wipe: SUBSET Hashes]
      /\ \A g, h \in cleaner.wipe : g = h
  BY DEF TypeInv, CleanerTyped
<1>1. CASE UNCHANGED cleaner
  BY <1>0, <1>1 DEF CleanerTyped
<1>2. CASE CleanupList \/ CleanupEnd
  <2>1. CASE CleanupList
    <3>1. PICK S \in SUBSET Hashes : cleaner' = [busy |-> TRUE, stale |-> S, wipe |-> {}]
      BY <2>1 DEF CleanupList
    <3> QED
      BY <3>1 DEF CleanerTyped
  <2>2. CASE CleanupEnd
    BY <1>0, <2>2 DEF CleanupEnd, CleanerTyped
  <2> QED
    BY <1>2, <2>1, <2>2
<1>3. ASSUME NEW h \in Hashes, CleanupPop(h) \/ CleanupWipe(h)
      PROVE  CleanerTyped'
  <2>1. CASE CleanupPop(h)
    <3>1. PICK W \in {{}, {h}} :
              cleaner' = [busy |-> TRUE, stale |-> cleaner.stale \ {h}, wipe |-> W]
      BY <2>1 DEF CleanupPop
    <3>2. cleaner.stale \ {h} \in SUBSET Hashes /\ W \in SUBSET Hashes
      BY <1>0
    <3> QED
      BY <3>1, <3>2 DEF CleanerTyped
  <2>2. CASE CleanupWipe(h)
    BY <1>0, <2>2 DEF CleanupWipe, CleanerTyped
  <2> QED
    BY <1>3, <2>1, <2>2
<1>4. ASSUME NEW j \in Jobs, JobStep(j) \/ \E r \in Rankings : Search(j, r)
      PROVE  UNCHANGED cleaner
  BY <1>4 DEF JobStep, Try, Fetch, Probe, Mkdir, Start, Wait, Search
<1>5. ASSUME NEW u \in Seekers, SeekStep(u) \/ \E h \in Hashes : SeekStart(u, h)
      PROVE  UNCHANGED cleaner
  BY <1>5 DEF SeekStep, SeekStop, SeekWipe, SeekRestart, SeekWait, SeekStart
<1>6. CASE UNCHANGED vars \/ \E p \in DOMAIN procs : Write(p) \/ Exit(p)
  BY <1>1, <1>6 DEF Write, Exit, vars
<1>7. CASE \E h \in Hashes : ServeFile(h) \/ GoIdle(h)
  BY <1>1, <1>7 DEF ServeFile, GoIdle
<1> QED
  BY <1>1, <1>2, <1>3, <1>4, <1>5, <1>6, <1>7 DEF Next, Cleanup

LEMMA PastTypedNext ==
    ASSUME TypeInv, [Next]_vars
    PROVE  PastTyped'
<1>0. past \in [overlap: SUBSET Hashes, clean: SUBSET Hashes]
  BY DEF TypeInv, PastTyped
<1>1. CASE UNCHANGED past
  BY <1>0, <1>1 DEF PastTyped
<1>2. ASSUME NEW j \in Jobs, Try(j)
      PROVE  PastTyped'
  <2>1. HashOf(j) \in Hashes
    BY <1>2, InHand DEF Try, Underway
  <2>2. Meets(HashOf(j), j) \in SUBSET Hashes
    BY <1>0, <2>1 DEF Meets
  <2>3. \/ UNCHANGED past
        \/ past' = [past EXCEPT !.overlap = Meets(HashOf(j), j)]
    BY <1>2 DEF Try
  <2> QED
    BY <1>0, <1>1, <2>2, <2>3 DEF PastTyped
<1>3. ASSUME NEW j \in Jobs, Start(j)
      PROVE  PastTyped'
  BY <1>0, <1>3 DEF Start, PastTyped
<1>4. ASSUME NEW u \in Seekers, NEW h \in Hashes, SeekStart(u, h)
      PROVE  PastTyped'
  BY <1>0, <1>4 DEF SeekStart, Meets, PastTyped
<1>5. ASSUME NEW u \in Seekers, SeekRestart(u)
      PROVE  PastTyped'
  BY <1>0, <1>5 DEF SeekRestart, PastTyped, TypeInv, SeeksTyped
<1>6. ASSUME NEW h \in Hashes, CleanupPop(h) \/ CleanupWipe(h)
      PROVE  PastTyped'
  BY <1>0, <1>6 DEF CleanupPop, CleanupWipe, PastTyped
<1>7. ASSUME NEW j \in Jobs, JobStep(j) \/ \E r \in Rankings : Search(j, r),
             ~Try(j), ~Start(j)
      PROVE  UNCHANGED past
  BY <1>7 DEF JobStep, Fetch, Probe, Mkdir, Wait, Search
<1>8. ASSUME NEW u \in Seekers, SeekStep(u), ~SeekRestart(u)
      PROVE  UNCHANGED past
  BY <1>8 DEF SeekStep, SeekStop, SeekWipe, SeekWait
<1>9. CASE UNCHANGED vars \/ \E p \in DOMAIN procs : Write(p) \/ Exit(p)
  BY <1>1, <1>9 DEF Write, Exit, vars
<1>10. CASE \E h \in Hashes : ServeFile(h) \/ GoIdle(h)
  BY <1>1, <1>10 DEF ServeFile, GoIdle
<1>11. CASE CleanupList \/ CleanupEnd
  BY <1>1, <1>11 DEF CleanupList, CleanupEnd
<1> QED
  BY <1>1, <1>2, <1>3, <1>4, <1>5, <1>6, <1>7, <1>8, <1>9, <1>10, <1>11
     DEF Next, Cleanup

(* The library only grows, with releases.                                  *)
LEMMA LibraryNext ==
    ASSUME TypeInv, [Next]_vars
    PROVE  library \subseteq library' /\ library' \subseteq Hashes
<1>0. library \subseteq Hashes
  BY DEF TypeInv
<1>1. ASSUME NEW j \in Jobs, Fetch(j)
      PROVE  library \subseteq library' /\ library' \subseteq Hashes
  <2>1. HashOf(j) \in Hashes
    BY <1>1, InHand DEF Fetch, Underway
  <2> QED
    BY <1>0, <1>1, <2>1 DEF Fetch
<1>2. ASSUME NEW j \in Jobs, JobStep(j) \/ \E r \in Rankings : Search(j, r), ~Fetch(j)
      PROVE  UNCHANGED library
  BY <1>2 DEF JobStep, Try, Probe, Mkdir, Start, Wait, Search
<1>3. ASSUME NEW u \in Seekers, SeekStep(u) \/ \E h \in Hashes : SeekStart(u, h)
      PROVE  UNCHANGED library
  BY <1>3 DEF SeekStep, SeekStop, SeekWipe, SeekRestart, SeekWait, SeekStart
<1>4. CASE UNCHANGED vars \/ \E p \in DOMAIN procs : Write(p) \/ Exit(p)
  BY <1>0, <1>4 DEF Write, Exit, vars
<1>5. CASE Cleanup \/ \E h \in Hashes : ServeFile(h) \/ GoIdle(h)
  BY <1>0, <1>5 DEF Cleanup, CleanupList, CleanupEnd, CleanupPop, CleanupWipe, ServeFile, GoIdle
<1> QED
  BY <1>0, <1>1, <1>2, <1>3, <1>4, <1>5 DEF Next

LEMMA TypeNext == TypeInv /\ [Next]_vars => TypeInv'
BY ProcsTypedNext, JobsTypedNext, SeeksTypedNext, SessionsTypedNext, DirsTypedNext,
   CleanerTypedNext, PastTypedNext, LibraryNext DEF TypeInv

LEMMA TypeInvariant == Spec => []TypeInv
BY TypeInit, TypeNext, PTL DEF Spec

(* Jobs, sessions and directories always hold values of their types, and   *)
(* every session's FFmpeg was started for its hash (web_player.py).        *)
THEOREM TypeCorrect == Spec => []TypeOK
<1>1. TypeInv => TypeOK
  <2> SUFFICES ASSUME TypeInv
               PROVE  TypeOK
    OBVIOUS
  <2>1. ASSUME NEW j \in Jobs
        PROVE  /\ job[j].pc \in {"none", "try", "fetch", "probe", "mkdir", "start",
                                 "wait", "ready", "error"}
               /\ Preparing(j) => job[j].todo # <<>>
    BY DEF TypeInv, JobsTyped, JobStates, Underway, Preparing
  <2>2. ASSUME NEW u \in Seekers
        PROVE  seek[u].pc \in {"none", "stop", "wipe", "restart", "wait"}
    BY DEF TypeInv, SeeksTyped, SeekStates
  <2>3. ASSUME NEW h \in Hashes
        PROVE  /\ sessions[h].proc \in 0..Len(procs)
               /\ sessions[h].proc # 0 => procs[sessions[h].proc].hash = h
               /\ dir[h].segments \subseteq DOMAIN procs
    <3>1. DOMAIN procs = 1..Len(procs)
      BY DEF TypeInv, ProcsTyped
    <3> QED
      BY <3>1 DEF TypeInv, SessionsTyped, DirsTyped
  <2>4. cleaner.stale \subseteq Hashes /\ Cardinality(cleaner.wipe) <= 1
    <3>1. CASE cleaner.wipe = {}
      BY <3>1, FS_EmptySet DEF TypeInv, CleanerTyped
    <3>2. CASE cleaner.wipe # {}
      <4>1. PICK h \in cleaner.wipe : cleaner.wipe = {h}
        BY <3>2 DEF TypeInv, CleanerTyped
      <4>2. Cardinality({h}) = 1
        BY FS_Singleton
      <4> QED
        BY <4>1, <4>2 DEF TypeInv, CleanerTyped
    <3> QED
      BY <3>1, <3>2
  <2> QED
    BY <2>1, <2>2, <2>3, <2>4 DEF TypeOK
<1> QED
  BY <1>1, TypeInvariant, PTL

(***************************************************************************)
(* What a step does to the calls                                           *)
(***************************************************************************)

Onwards == {<<"fetch", "probe">>, <<"probe", "mkdir">>, <<"mkdir", "start">>,
            <<"start", "wait">>}

(* A job goes on with its candidate, takes it in hand, or lets it go.      *)
JobMove(j) ==
    /\ UNCHANGED seek /\ \A k \in Jobs \ {j} : job'[k] = job[k]
    /\ \/ job'[j].pc \in {"none", "try", "ready", "error"}
       \/ /\ Try(j) /\ job'[j].pc = "fetch" /\ job'[j].todo = job[j].todo
          /\ past'.overlap = Meets(HashOf(j), j) /\ ~Alive(sessions[HashOf(j)].proc)
       \/ job'[j].todo = job[j].todo /\ <<job[j].pc, job'[j].pc>> \in Onwards

SeekMove(u) ==
    /\ UNCHANGED job /\ \A v \in Seekers \ {u} : seek'[v] = seek[v]
    /\ \/ seek'[u].pc = "none"
       \/ \E h \in Hashes : SeekStart(u, h)
       \/ /\ seek'[u].hash = seek[u].hash
          /\ SeekStop(u) \/ SeekWipe(u) \/ (SeekRestart(u) /\ seek'[u].pc = "wait")

LEMMA JobMoves ==
    ASSUME TypeInv, NEW j \in Jobs, JobStep(j) \/ \E r \in Rankings : Search(j, r)
    PROVE  JobMove(j)
<1>0. job \in [Jobs -> JobStates]
  BY DEF TypeInv, JobsTyped
<1>1. ASSUME NEW pc, Goes(j, pc), UNCHANGED seek
      PROVE  /\ UNCHANGED seek /\ \A k \in Jobs \ {j} : job'[k] = job[k]
             /\ job'[j].pc = pc /\ job'[j].todo = job[j].todo
  BY <1>0, <1>1 DEF Goes, JobStates
<1>2. ASSUME Fails(j), UNCHANGED seek
      PROVE  JobMove(j)
  BY <1>0, <1>2 DEF Fails, JobStates, JobMove
<1>3. ASSUME Skips(j), UNCHANGED seek
      PROVE  JobMove(j)
  BY <1>0, <1>3 DEF Skips, JobStates, JobMove
<1>4. CASE Try(j)
  <2>1. UNCHANGED seek
    BY <1>4 DEF Try
  <2>2. CASE Goes(j, "ready")
    BY <1>1, <2>1, <2>2 DEF JobMove
  <2>3. CASE /\ Goes(j, "fetch") /\ ~Alive(sessions[HashOf(j)].proc)
             /\ past' = [past EXCEPT !.overlap = Meets(HashOf(j), j)]
    <3>1. past'.overlap = Meets(HashOf(j), j)
      BY <2>3 DEF TypeInv, PastTyped
    <3> QED
      BY <1>1, <1>4, <2>1, <2>3, <3>1 DEF JobMove
  <2> QED
    BY <1>3, <1>4, <2>1, <2>2, <2>3 DEF Try
<1>5. CASE Fetch(j)
  <2>1. UNCHANGED seek /\ job[j].pc = "fetch"
    BY <1>5 DEF Fetch
  <2>2. CASE Goes(j, "probe")
    BY <1>1, <2>1, <2>2 DEF JobMove, Onwards
  <2> QED
    BY <1>3, <1>5, <2>1, <2>2 DEF Fetch
<1>6. CASE Probe(j)
  <2>1. UNCHANGED seek /\ job[j].pc = "probe"
    BY <1>6 DEF Probe
  <2>2. CASE Goes(j, "mkdir")
    BY <1>1, <2>1, <2>2 DEF JobMove, Onwards
  <2> QED
    BY <1>2, <1>3, <1>6, <2>1, <2>2 DEF Probe
<1>7. CASE Mkdir(j)
  <2>1. UNCHANGED seek /\ job[j].pc = "mkdir" /\ Goes(j, "start")
    BY <1>7 DEF Mkdir
  <2> QED
    BY <1>1, <2>1 DEF JobMove, Onwards
<1>8. CASE Start(j)
  <2>1. UNCHANGED seek /\ job[j].pc = "start"
    BY <1>8 DEF Start
  <2>2. CASE dir[HashOf(j)].exists
    <3>1. job' = [job EXCEPT ![j].pc = "wait", ![j].proc = Len(procs) + 1]
      BY <1>8, <2>2 DEF Start
    <3>2. /\ \A k \in Jobs \ {j} : job'[k] = job[k]
          /\ job'[j].pc = "wait" /\ job'[j].todo = job[j].todo
      BY <1>0, <3>1 DEF JobStates
    <3> QED
      BY <2>1, <3>2 DEF JobMove, Onwards
  <2> QED
    BY <1>2, <1>8, <2>1, <2>2 DEF Start
<1>9. CASE Wait(j)
  <2>1. UNCHANGED seek
    BY <1>9 DEF Wait
  <2>2. CASE Goes(j, "ready")
    BY <1>1, <2>1, <2>2 DEF JobMove
  <2> QED
    BY <1>2, <1>9, <2>1, <2>2 DEF Wait
<1>10. ASSUME NEW r \in Rankings, Search(j, r)
       PROVE  JobMove(j)
  <2>1. UNCHANGED seek
    BY <1>10 DEF Search
  <2>2. CASE job' = [job EXCEPT ![j].pc = "try", ![j].todo = BestFirst(r)]
    BY <1>0, <2>1, <2>2 DEF JobStates, JobMove
  <2> QED
    BY <1>2, <1>10, <2>1, <2>2 DEF Search
<1> QED
  BY <1>4, <1>5, <1>6, <1>7, <1>8, <1>9, <1>10 DEF JobStep

LEMMA SeekMoves ==
    ASSUME TypeInv, NEW u \in Seekers, SeekStep(u) \/ \E h \in Hashes : SeekStart(u, h)
    PROVE  SeekMove(u)
<1>0. seek \in [Seekers -> SeekStates]
  BY DEF TypeInv, SeeksTyped
<1>1. ASSUME NEW pc, SeekGoes(u, pc), UNCHANGED job
      PROVE  /\ UNCHANGED job /\ \A v \in Seekers \ {u} : seek'[v] = seek[v]
             /\ seek'[u].pc = pc /\ seek'[u].hash = seek[u].hash
  BY <1>0, <1>1 DEF SeekGoes, SeekStates
<1>2. ASSUME NEW h \in Hashes, SeekStart(u, h)
      PROVE  SeekMove(u)
  BY <1>0, <1>2 DEF SeekStart, SeekMove
<1>3. CASE SeekStop(u)
  <2>1. (SeekGoes(u, "wipe") \/ SeekGoes(u, "none")) /\ UNCHANGED job
    BY <1>3 DEF SeekStop
  <2> QED
    BY <1>1, <1>3, <2>1 DEF SeekMove
<1>4. CASE SeekWipe(u)
  <2>1. SeekGoes(u, "restart") /\ UNCHANGED job
    BY <1>4 DEF SeekWipe
  <2> QED
    BY <1>1, <1>4, <2>1 DEF SeekMove
<1>5. CASE SeekRestart(u)
  <2>1. (SeekGoes(u, "wait") \/ SeekGoes(u, "none")) /\ UNCHANGED job
    BY <1>5 DEF SeekRestart
  <2> QED
    BY <1>1, <1>5, <2>1 DEF SeekMove
<1>6. CASE SeekWait(u)
  <2>1. SeekGoes(u, "none") /\ UNCHANGED job
    BY <1>6 DEF SeekWait
  <2> QED
    BY <1>1, <2>1 DEF SeekMove
<1> QED
  BY <1>2, <1>3, <1>4, <1>5, <1>6 DEF SeekStep

LEMMA OneCallMoves ==
    ASSUME TypeInv, [Next]_vars
    PROVE  \/ UNCHANGED <<job, seek>>
           \/ \E j \in Jobs : JobMove(j)
           \/ \E u \in Seekers : SeekMove(u)
<1>1. CASE Cleanup
  BY <1>1 DEF Cleanup, CleanupList, CleanupEnd, CleanupPop, CleanupWipe
<1>2. CASE UNCHANGED vars \/ \E p \in DOMAIN procs : Write(p) \/ Exit(p)
  BY <1>2 DEF Write, Exit, vars
<1>3. CASE \E h \in Hashes : ServeFile(h) \/ GoIdle(h)
  BY <1>3 DEF ServeFile, GoIdle
<1> QED
  BY <1>1, <1>2, <1>3, JobMoves, SeekMoves DEF Next

(* Two calls busy with a release are on the record for good.               *)
LEMMA OverlapGrows ==
    ASSUME TypeInv, [Next]_vars
    PROVE  past.overlap \subseteq past'.overlap
<1>0. past \in [overlap: SUBSET Hashes, clean: SUBSET Hashes]
  BY DEF TypeInv, PastTyped
<1>1. ASSUME NEW j \in Jobs, JobStep(j) \/ \E r \in Rankings : Search(j, r)
      PROVE  past.overlap \subseteq past'.overlap
  <2>1. CASE Try(j)
    BY <1>0, <2>1 DEF Try, Meets
  <2>2. CASE Start(j)
    BY <1>0, <2>2 DEF Start
  <2> QED
    BY <1>1, <2>1, <2>2 DEF JobStep, Fetch, Probe, Mkdir, Wait, Search
<1>2. ASSUME NEW u \in Seekers, SeekStep(u) \/ \E h \in Hashes : SeekStart(u, h)
      PROVE  past.overlap \subseteq past'.overlap
  <2>1. CASE \E h \in Hashes : SeekStart(u, h)
    BY <1>0, <2>1 DEF SeekStart, Meets
  <2>2. CASE SeekRestart(u)
    BY <1>0, <2>2 DEF SeekRestart
  <2> QED
    BY <1>2, <2>1, <2>2 DEF SeekStep, SeekStop, SeekWipe, SeekWait
<1>3. CASE Cleanup
  BY <1>0, <1>3 DEF Cleanup, CleanupList, CleanupEnd, CleanupPop, CleanupWipe
<1>4. CASE UNCHANGED vars \/ \E p \in DOMAIN procs : Write(p) \/ Exit(p)
  BY <1>4 DEF Write, Exit, vars
<1>5. CASE \E h \in Hashes : ServeFile(h) \/ GoIdle(h)
  BY <1>5 DEF ServeFile, GoIdle
<1> QED
  BY <1>1, <1>2, <1>3, <1>4, <1>5 DEF Next

(***************************************************************************)
(* A release that one call at a time is busy with                          *)
(***************************************************************************)

Runs(p, h) == procs[p].hash = h /\ procs[p].running
Still(h)   == \A p \in 1..Len(procs) : ~Runs(p, h)

Alone(h)      == \A c, d \in BusyWith(h) : c = d
Registered(h) == \A p \in 1..Len(procs) : Runs(p, h) => sessions[h].proc = p
JobsStill(h) ==
    \A j \in Jobs : /\ job[j].pc \in {"fetch", "probe", "mkdir", "start"}
                    /\ HashOf(j) = h
                    => Still(h)
SeeksStill(h) ==
    \A u \in Seekers : seek[u].hash = h =>
        /\ seek[u].pc \in {"wipe", "restart"} => Still(h)
        /\ seek[u].pc = "stop" => \A p \in 1..Len(procs) : Runs(p, h) => seek[u].proc = p
(* The FFmpeg that runs is registered; none runs between the moment a call *)
(* has made sure of that and the moment it starts its own.                 *)
HashInv(h) == Alone(h) /\ Registered(h) /\ JobsStill(h) /\ SeeksStill(h)
RunInv     == \A h \in Hashes \ past.overlap : HashInv(h)

(* Only a call that finds itself alone becomes busy with a release.        *)
LEMMA AloneNext ==
    ASSUME TypeInv, [Next]_vars, NEW h \in Hashes, h \notin past'.overlap, Alone(h)
    PROVE  Alone(h)'
<1>1. CASE UNCHANGED <<job, seek>>
  BY <1>1 DEF Alone, BusyWith, Preparing, HashOf
<1>2. ASSUME NEW j \in Jobs, JobMove(j)
      PROVE  Alone(h)'
  <2>1. ASSUME NEW k \in Jobs, k # j
        PROVE  (Preparing(k) <=> Preparing(k)') /\ HashOf(k) = HashOf(k)'
    BY <1>2, <2>1 DEF JobMove, Preparing, HashOf
  <2>2. UNCHANGED seek
    BY <1>2 DEF JobMove
  <2>3. CASE ~Preparing(j)' \/ (Preparing(j) /\ HashOf(j) = HashOf(j)')
    <3>1. BusyWith(h)' \subseteq BusyWith(h)
      BY <2>1, <2>2, <2>3 DEF BusyWith
    <3> QED
      BY <3>1 DEF Alone
  <2>4. CASE ~Preparing(j) /\ Preparing(j)'
    <3>1. /\ past'.overlap = Meets(HashOf(j), j) /\ HashOf(j)' = HashOf(j)
      BY <1>2, <2>4 DEF JobMove, Preparing, Onwards, HashOf
    <3>2. CASE HashOf(j) = h
      <4>1. BusyWith(h) \subseteq {j}
        BY <3>1, <3>2 DEF Meets
      <4>2. BusyWith(h)' \subseteq {j}
        BY <2>1, <2>2, <4>1 DEF BusyWith
      <4> QED
        BY <4>2 DEF Alone
    <3>3. CASE HashOf(j) # h
      <4>1. BusyWith(h)' \subseteq BusyWith(h)
        BY <2>1, <2>2, <3>1, <3>3 DEF BusyWith
      <4> QED
        BY <4>1 DEF Alone
    <3> QED
      BY <3>2, <3>3
  <2>5. Preparing(j) /\ Preparing(j)' => HashOf(j) = HashOf(j)'
    BY <1>2 DEF JobMove, Preparing, HashOf
  <2> QED
    BY <2>3, <2>4, <2>5
<1>3. ASSUME NEW u \in Seekers, SeekMove(u)
      PROVE  Alone(h)'
  <2>1. ASSUME NEW j \in Jobs
        PROVE  (Preparing(j) <=> Preparing(j)') /\ HashOf(j) = HashOf(j)'
    BY <1>3 DEF SeekMove, Preparing, HashOf
  <2>2. \A v \in Seekers \ {u} : seek'[v] = seek[v]
    BY <1>3 DEF SeekMove
  <2>3. CASE seek'[u].pc = "none" \/ (seek[u].pc # "none" /\ seek'[u].hash = seek[u].hash)
    <3>1. BusyWith(h)' \subseteq BusyWith(h)
      BY <2>1, <2>2, <2>3 DEF BusyWith
    <3> QED
      BY <3>1 DEF Alone
  <2>4. ASSUME NEW g \in Hashes, SeekStart(u, g)
        PROVE  Alone(h)'
    <3>1. past'.overlap = Meets(g, u)
      BY <2>4 DEF SeekStart, TypeInv, PastTyped
    <3>2. seek'[u].hash = g
      BY <2>4 DEF SeekStart, TypeInv, SeeksTyped
    <3>3. CASE g = h
      <4>1. BusyWith(h) \subseteq {u}
        BY <3>1, <3>3 DEF Meets
      <4>2. BusyWith(h)' \subseteq {u}
        BY <2>1, <2>2, <4>1 DEF BusyWith
      <4> QED
        BY <4>2 DEF Alone
    <3>4. CASE g # h
      <4>1. BusyWith(h)' \subseteq BusyWith(h)
        BY <2>1, <2>2, <3>2, <3>4 DEF BusyWith
      <4> QED
        BY <4>1 DEF Alone
    <3> QED
      BY <3>3, <3>4
  <2>5. seek[u].pc = "none" => seek'[u].pc = "none" \/ \E g \in Hashes : SeekStart(u, g)
    BY <1>3 DEF SeekMove, SeekStop, SeekWipe, SeekRestart
  <2> QED
    BY <1>3, <2>3, <2>4, <2>5 DEF SeekMove
<1> QED
  BY <1>1, <1>2, <1>3, OneCallMoves

StartsAt(h) ==
    \/ \E j \in Jobs : Start(j) /\ dir[HashOf(j)].exists /\ HashOf(j) = h
    \/ \E u \in Seekers : SeekRestart(u) /\ dir[seek[u].hash].exists /\ seek[u].hash = h
Fewer(h) == \A p \in 1..Len(procs') : Runs(p, h)' => p \in 1..Len(procs) /\ Runs(p, h)

LEMMA RunsNext ==
    ASSUME TypeInv, [Next]_vars, NEW h \in Hashes
    PROVE  Fewer(h) \/ StartsAt(h)
<1>0. ProcsTyped /\ Len(procs) \in Nat
  BY DEF TypeInv, ProcsTyped
<1>1. CASE UNCHANGED procs
  BY <1>1 DEF Fewer, Runs
<1>2. ASSUME NEW p \in 1..Len(procs), procs' = [procs EXCEPT ![p].running = FALSE]
      PROVE  Fewer(h)
  <2>1. SameProcs
    BY <1>0, <1>2, StopOne
  <2> QED
    BY <2>1 DEF SameProcs, Fewer, Runs
<1>3. ASSUME NEW g \in Hashes, StartHls(g), g # h
      PROVE  Fewer(h)
  <2>1. /\ ProcsTyped' /\ Len(procs') = Len(procs) + 1
        /\ \A i \in 1..Len(procs) : procs'[i] = procs[i]
        /\ procs'[Len(procs) + 1] = [hash |-> g, running |-> TRUE]
    BY <1>0, <1>3, StartAdds
  <2>2. ASSUME NEW p \in 1..Len(procs'), Runs(p, h)'
        PROVE  p \in 1..Len(procs) /\ Runs(p, h)
    <3>1. p # Len(procs) + 1
      BY <1>3, <2>1, <2>2 DEF Runs
    <3>2. p \in 1..Len(procs)
      BY <1>0, <2>1, <3>1
    <3> QED
      BY <2>1, <2>2, <3>2 DEF Runs
  <2> QED
    BY <2>2 DEF Fewer
<1>4. ASSUME NEW j \in Jobs, Start(j), dir[HashOf(j)].exists
      PROVE  HashOf(j) \in Hashes /\ StartHls(HashOf(j))
  BY <1>4, InHand DEF Start, Underway
<1>5. ASSUME NEW u \in Seekers, SeekRestart(u), dir[seek[u].hash].exists
      PROVE  seek[u].hash \in Hashes /\ StartHls(seek[u].hash)
  BY <1>5 DEF SeekRestart, TypeInv, SeeksTyped
<1> QED
  BY <1>1, <1>2, <1>3, <1>4, <1>5, ProcsSteps DEF StartsAt

LEMMA FewerStill ==
    ASSUME NEW h, Fewer(h), Still(h)
    PROVE  Still(h)'
BY DEF Fewer, Still

(* A session keeps its FFmpeg but where a call starts one and the cleanup  *)
(* removes it.                                                             *)
LEMMA SessionKept ==
    ASSUME TypeInv, [Next]_vars, NEW h \in Hashes
    PROVE  \/ sessions'[h].proc = sessions[h].proc
           \/ StartsAt(h)
           \/ CleanupPop(h)
<1>0. sessions \in [Hashes -> [proc: Nat, idle: BOOLEAN]]
  BY DEF TypeInv, SessionsTyped
<1>1. ASSUME NEW g \in Hashes, StartHls(g), g # h
      PROVE  sessions'[h].proc = sessions[h].proc
  BY <1>0, <1>1 DEF StartHls
<1>2. ASSUME NEW j \in Jobs, Start(j), dir[HashOf(j)].exists
      PROVE  sessions'[h].proc = sessions[h].proc \/ StartsAt(h)
  <2>1. HashOf(j) \in Hashes /\ StartHls(HashOf(j))
    BY <1>2, InHand DEF Start, Underway
  <2> QED
    BY <1>1, <1>2, <2>1 DEF StartsAt
<1>3. ASSUME NEW u \in Seekers, SeekRestart(u), dir[seek[u].hash].exists
      PROVE  sessions'[h].proc = sessions[h].proc \/ StartsAt(h)
  <2>1. seek[u].hash \in Hashes /\ StartHls(seek[u].hash)
    BY <1>3 DEF SeekRestart, TypeInv, SeeksTyped
  <2> QED
    BY <1>1, <1>3, <2>1 DEF StartsAt
<1>4. ASSUME NEW g \in Hashes, ServeFile(g) \/ GoIdle(g)
      PROVE  sessions'[h].proc = sessions[h].proc
  <2>1. PICK b \in BOOLEAN : sessions' = [sessions EXCEPT ![g].idle = b]
    BY <1>4 DEF ServeFile, GoIdle
  <2> QED
    BY <1>0, <2>1
<1>5. ASSUME NEW g \in Hashes, CleanupPop(g), g # h
      PROVE  sessions'[h].proc = sessions[h].proc
  BY <1>0, <1>5 DEF CleanupPop
<1> QED
  BY <1>2, <1>3, <1>4, <1>5, SessionSteps

(* When a call starts FFmpeg for a release nobody else is busy with, it is *)
(* the only one that runs, and registered.                                 *)
LEMMA StartKeeps ==
    ASSUME TypeInv, [Next]_vars, NEW h \in Hashes, h \notin past'.overlap,
           HashInv(h), StartsAt(h)
    PROVE  Registered(h)' /\ JobsStill(h)' /\ SeeksStill(h)'
<1>1. PICK c \in BusyWith(h) :
        /\ StartHls(h) /\ Still(h)
        /\ c \in Jobs => /\ UNCHANGED seek /\ \A k \in Jobs \ {c} : job'[k] = job[k]
                         /\ job'[c].pc = "wait"
        /\ c \in Seekers => /\ UNCHANGED job /\ \A v \in Seekers \ {c} : seek'[v] = seek[v]
                            /\ seek'[c].pc = "wait"
  <2>1. ASSUME NEW j \in Jobs, Start(j), dir[HashOf(j)].exists, HashOf(j) = h
        PROVE  /\ j \in BusyWith(h) /\ StartHls(h) /\ Still(h)
               /\ UNCHANGED seek /\ \A k \in Jobs \ {j} : job'[k] = job[k]
               /\ job'[j].pc = "wait" /\ j \notin Seekers
    <3>1. job[j].pc = "start" /\ StartHls(h)
      BY <2>1 DEF Start
    <3>2. j \in BusyWith(h) /\ Still(h)
      BY <2>1, <3>1 DEF BusyWith, Preparing, HashInv, JobsStill
    <3>3. UNCHANGED seek /\ job' = [job EXCEPT ![j].pc = "wait", ![j].proc = Len(procs) + 1]
      BY <2>1 DEF Start
    <3>4. \A k \in Jobs \ {j} : job'[k] = job[k]
      BY <3>3 DEF TypeInv, JobsTyped
    <3>5. job'[j].pc = "wait"
      BY <3>3 DEF TypeInv, JobsTyped, JobStates
    <3> QED
      BY <3>1, <3>2, <3>3, <3>4, <3>5, WebPlayerConstants
  <2>2. ASSUME NEW u \in Seekers, SeekRestart(u), dir[seek[u].hash].exists, seek[u].hash = h
        PROVE  /\ u \in BusyWith(h) /\ StartHls(h) /\ Still(h)
               /\ UNCHANGED job /\ \A v \in Seekers \ {u} : seek'[v] = seek[v]
               /\ seek'[u].pc = "wait" /\ u \notin Jobs
    <3>1. seek[u].pc = "restart" /\ StartHls(h)
      BY <2>2 DEF SeekRestart
    <3>2. u \in BusyWith(h) /\ Still(h)
      BY <2>2, <3>1 DEF BusyWith, HashInv, SeeksStill
    <3>3. UNCHANGED job /\ seek' = [seek EXCEPT ![u].pc = "wait"]
      BY <2>2 DEF SeekRestart, SeekGoes
    <3>4. \A v \in Seekers \ {u} : seek'[v] = seek[v]
      BY <3>3 DEF TypeInv, SeeksTyped
    <3>5. seek'[u].pc = "wait"
      BY <3>3 DEF TypeInv, SeeksTyped, SeekStates
    <3> QED
      BY <3>1, <3>2, <3>3, <3>4, <3>5, WebPlayerConstants
  <2> QED
    BY <2>1, <2>2 DEF StartsAt
<1>2. BusyWith(h) = {c}
  BY <1>1 DEF HashInv, Alone
<1>3. /\ Len(procs) \in Nat /\ Len(procs') = Len(procs) + 1
      /\ \A i \in 1..Len(procs) : procs'[i] = procs[i]
  <2>1. ProcsTyped /\ Len(procs) \in Nat
    BY DEF TypeInv, ProcsTyped
  <2> QED
    BY <1>1, <2>1, StartAdds
<1>4. Registered(h)'
  <2>1. sessions'[h].proc = Len(procs) + 1
    BY <1>1 DEF StartHls, TypeInv, SessionsTyped
  <2>2. ASSUME NEW p \in 1..Len(procs'), Runs(p, h)'
        PROVE  p = Len(procs) + 1
    <3>1. p \in 1..Len(procs) => Runs(p, h)
      BY <1>3, <2>2 DEF Runs
    <3> QED
      BY <1>1, <1>3, <3>1 DEF Still
  <2> QED
    BY <2>1, <2>2 DEF Registered
<1>5. ASSUME NEW k \in Jobs, job'[k].pc \in {"fetch", "probe", "mkdir", "start"},
             HashOf(k)' = h
      PROVE  FALSE
  <2>1. job'[k] = job[k]
    BY <1>1, <1>5 DEF BusyWith
  <2>2. k \in BusyWith(h)
    BY <1>5, <2>1 DEF BusyWith, Preparing, HashOf
  <2> QED
    BY <1>1, <1>2, <1>5, <2>2
<1>6. ASSUME NEW v \in Seekers, seek'[v].hash = h, seek'[v].pc \in {"stop", "wipe", "restart"}
      PROVE  FALSE
  <2>1. seek'[v] = seek[v]
    BY <1>1, <1>6 DEF BusyWith
  <2>2. v \in BusyWith(h)
    BY <1>6, <2>1 DEF BusyWith
  <2> QED
    BY <1>1, <1>2, <1>6, <2>2
<1>7. JobsStill(h)'
  BY <1>5 DEF JobsStill
<1>8. SeeksStill(h)'
  BY <1>6 DEF SeeksStill
<1> QED
  BY <1>4, <1>7, <1>8

(* A process that is stopped does not run.                                 *)
LEMMA StopsOne ==
    ASSUME TypeInv, NEW h \in Hashes, Fewer(h), NEW q \in 0..Len(procs),
           procs' = Killed(q),
           \A p \in 1..Len(procs) : Runs(p, h) => q = p
    PROVE  Still(h)'
<1>0. ProcsTyped
  BY DEF TypeInv
<1>1. ASSUME NEW p \in 1..Len(procs'), Runs(p, h)'
      PROVE  FALSE
  <2>1. p \in 1..Len(procs) /\ q = p
    BY <1>1 DEF Fewer
  <2>2. q # 0 /\ p # 0
    BY <2>1
  <2>3. ~procs'[p].running
    BY <1>0, <2>1, <2>2, KillKeeps
  <2> QED
    BY <1>1, <2>3 DEF Runs
<1> QED
  BY <1>1 DEF Still

LEMMA OtherKeeps ==
    ASSUME TypeInv, [Next]_vars, NEW h \in Hashes, HashInv(h), Fewer(h), ~StartsAt(h)
    PROVE  Registered(h)' /\ JobsStill(h)' /\ SeeksStill(h)'
<1>1. Registered(h)'
  <2>1. CASE sessions'[h].proc = sessions[h].proc
    BY <2>1 DEF HashInv, Registered, Fewer
  <2>2. CASE CleanupPop(h)
    <3>1. procs' = Killed(sessions[h].proc) /\ sessions[h].proc \in 0..Len(procs)
      BY <2>2 DEF CleanupPop, TypeInv, SessionsTyped
    <3>2. Still(h)'
      BY <3>1, StopsOne DEF HashInv, Registered
    <3> QED
      BY <3>2 DEF Still, Registered
  <2> QED
    BY <2>1, <2>2, SessionKept
<1>2. ASSUME NEW j \in Jobs, job'[j].pc \in {"fetch", "probe", "mkdir", "start"},
             HashOf(j)' = h
      PROVE  Still(h)'
  <2>1. CASE job'[j] = job[j]
    <3>1. HashOf(j) = h
      BY <1>2, <2>1 DEF HashOf
    <3> QED
      BY <1>2, <2>1, <3>1, FewerStill DEF HashInv, JobsStill
  <2>2. CASE JobMove(j) /\ job'[j] # job[j]
    <3>1. HashOf(j) = h
      BY <1>2, <2>2 DEF JobMove, HashOf
    <3>2. CASE ~Alive(sessions[h].proc)
      <4>1. Still(h)
        BY <3>2 DEF HashInv, Registered, Alive, Still, Runs
      <4> QED
        BY <4>1, FewerStill
    <3>3. CASE job[j].pc \in {"fetch", "probe", "mkdir", "start"}
      BY <3>1, <3>3, FewerStill DEF HashInv, JobsStill
    <3> QED
      BY <1>2, <2>2, <3>1, <3>2, <3>3 DEF JobMove, Onwards
  <2>3. JobMove(j) \/ job'[j] = job[j]
    BY OneCallMoves DEF JobMove, SeekMove
  <2> QED
    BY <2>1, <2>2, <2>3
<1>3. ASSUME NEW u \in Seekers, seek'[u].hash = h
      PROVE  /\ seek'[u].pc \in {"wipe", "restart"} => Still(h)'
             /\ seek'[u].pc = "stop" =>
                    \A p \in 1..Len(procs') : Runs(p, h)' => seek'[u].proc = p
  <2>0. seek \in [Seekers -> SeekStates] /\ seek[u].proc \in 0..Len(procs)
    BY DEF TypeInv, SeeksTyped
  <2>1. CASE seek'[u] = seek[u]
    <3>1. seek[u].pc \in {"wipe", "restart"} => Still(h)'
      BY <1>3, <2>1, FewerStill DEF HashInv, SeeksStill
    <3>2. seek[u].pc = "stop" => \A p \in 1..Len(procs') : Runs(p, h)' => seek[u].proc = p
      BY <1>3, <2>1 DEF HashInv, SeeksStill, Fewer
    <3> QED
      BY <2>1, <3>1, <3>2
  <2>2. ASSUME NEW g \in Hashes, SeekStart(u, g)
        PROVE  /\ seek'[u].pc = "stop"
               /\ \A p \in 1..Len(procs') : Runs(p, h)' => seek'[u].proc = p
    <3>1. seek'[u] = [pc |-> "stop", hash |-> g, proc |-> sessions[g].proc]
      BY <2>0, <2>2 DEF SeekStart
    <3>2. g = h
      BY <1>3, <3>1
    <3> QED
      BY <3>1, <3>2 DEF HashInv, Registered, Fewer
  <2>3. CASE SeekStop(u) /\ seek'[u].hash = seek[u].hash
    <3>1. procs' = Killed(seek[u].proc) /\ seek[u].pc = "stop"
      BY <2>3 DEF SeekStop
    <3>2. \A p \in 1..Len(procs) : Runs(p, h) => seek[u].proc = p
      BY <1>3, <2>3, <3>1 DEF HashInv, SeeksStill
    <3>3. Still(h)'
      BY <2>0, <3>1, <3>2, StopsOne
    <3>4. seek'[u].pc \in {"wipe", "none"}
      BY <2>0, <2>3 DEF SeekStop, SeekGoes, SeekStates
    <3> QED
      BY <3>3, <3>4
  <2>4. CASE SeekWipe(u) /\ seek'[u].hash = seek[u].hash
    <3>1. seek[u].pc = "wipe"
      BY <2>4 DEF SeekWipe
    <3>2. Still(h)'
      BY <1>3, <2>4, <3>1, FewerStill DEF HashInv, SeeksStill
    <3>3. seek'[u].pc = "restart"
      BY <2>0, <2>4 DEF SeekWipe, SeekGoes, SeekStates
    <3> QED
      BY <3>2, <3>3
  <2>5. SeekMove(u) \/ seek'[u] = seek[u]
    BY OneCallMoves DEF JobMove, SeekMove
  <2> QED
    BY <2>1, <2>2, <2>3, <2>4, <2>5 DEF SeekMove
<1>4. JobsStill(h)'
  BY <1>2 DEF JobsStill
<1>5. SeeksStill(h)'
  BY <1>3 DEF SeeksStill
<1> QED
  BY <1>1, <1>4, <1>5

LEMMA RunInit == Init => RunInv
<1> SUFFICES ASSUME Init
             PROVE  RunInv
  OBVIOUS
<1>1. /\ Len(procs) = 0
      /\ \A j \in Jobs : job[j].pc = "none"
      /\ \A u \in Seekers : seek[u].pc = "none"
  BY DEF Init, NewJob, NewSeek
<1>2. ASSUME NEW h \in Hashes
      PROVE  Alone(h) /\ Registered(h) /\ JobsStill(h) /\ SeeksStill(h)
  BY <1>1 DEF Alone, BusyWith, Preparing, Registered, JobsStill, SeeksStill
<1> QED
  BY <1>2 DEF RunInv, HashInv

LEMMA RunNext == TypeInv /\ RunInv /\ [Next]_vars => RunInv'
<1> SUFFICES ASSUME TypeInv, RunInv, [Next]_vars, NEW h \in Hashes, h \notin past'.overlap
             PROVE  HashInv(h)'
  BY DEF RunInv
<1>1. HashInv(h)
  BY OverlapGrows DEF RunInv
<1>2. Alone(h)'
  BY <1>1, AloneNext DEF HashInv
<1>3. Registered(h)' /\ JobsStill(h)' /\ SeeksStill(h)'
  BY <1>1, StartKeeps, OtherKeeps, RunsNext
<1> QED
  BY <1>2, <1>3 DEF HashInv

(* An FFmpeg that runs is the one of its hash's session, unless two calls  *)
(* were busy with the release at the same time (web_player.py).            *)
THEOREM RunningRegistered == Spec => []RunningIsRegistered
<1>1. TypeInv /\ RunInv => RunningIsRegistered
  <2> SUFFICES ASSUME TypeInv, RunInv, NEW p \in DOMAIN procs, procs[p].running,
                      procs[p].hash \notin past.overlap
               PROVE  sessions[procs[p].hash].proc = p
    BY DEF RunningIsRegistered
  <2>1. procs \in Seq(Processes) /\ p \in 1..Len(procs)
    BY DEF TypeInv, ProcsTyped
  <2>2. procs[p].hash \in Hashes
    <3>1. procs[p] \in Processes
      BY <2>1, ElementOfSeq
    <3> QED
      BY <3>1 DEF Processes
  <2> QED
    BY <2>1, <2>2 DEF RunInv, HashInv, Registered, Runs
<1> QED
  BY <1>1, TypeInit, TypeNext, RunInit, RunNext, PTL DEF Spec

(***************************************************************************)
(* The segments a seek leaves, and the session of a job that waits         *)
(***************************************************************************)

(* Before it restarts FFmpeg a seek has emptied the directory, which then  *)
(* fills with segments of the session's FFmpeg.                            *)
Emptied(h) == \A u \in Seekers : seek[u].hash = h /\ seek[u].pc = "restart"
                                     => dir[h].segments = {}
Fresh(h)   == h \in past.clean => \/ dir[h].segments \subseteq {sessions[h].proc, 0}
                                  \/ sessions[h].proc = 0
SegmentInv == \A h \in Hashes \ past.overlap : Emptied(h) /\ Fresh(h)

LEMMA SegmentsNext ==
    ASSUME TypeInv, [Next]_vars, NEW h \in Hashes
    PROVE  \/ dir'[h].segments \subseteq dir[h].segments
           \/ \E p \in 1..Len(procs) :
                Runs(p, h) /\ dir'[h].segments = dir[h].segments \cup {p}
<1>0. dir \in [Hashes -> [exists: BOOLEAN, segments: SUBSET Nat]]
  BY DEF TypeInv, DirsTyped
<1>1. ASSUME NEW p \in DOMAIN procs, Write(p)
      PROVE  \/ dir'[h].segments = dir[h].segments
             \/ \E q \in 1..Len(procs) :
                    Runs(q, h) /\ dir'[h].segments = dir[h].segments \cup {q}
  <2>1. p \in 1..Len(procs)
    BY DEF TypeInv, ProcsTyped
  <2>2. CASE procs[p].hash = h
    <3>1. dir'[h].segments = dir[h].segments \cup {p} /\ Runs(p, h)
      BY <1>0, <1>1, <2>2 DEF Write, Runs
    <3> QED
      BY <2>1, <3>1
  <2>3. CASE procs[p].hash # h
    BY <1>0, <1>1, <2>3 DEF Write
  <2> QED
    BY <2>2, <2>3
<1>2. ASSUME NEW j \in Jobs, Mkdir(j)
      PROVE  dir'[h].segments = dir[h].segments
  <2>1. dir' = [dir EXCEPT ![HashOf(j)].exists = TRUE]
    BY <1>2 DEF Mkdir
  <2> QED
    BY <1>0, <2>1
<1>3. ASSUME NEW u \in Seekers, SeekWipe(u)
      PROVE  dir'[h].segments \subseteq dir[h].segments
  <2>1. dir' = [dir EXCEPT ![seek[u].hash].segments = {}]
    BY <1>3 DEF SeekWipe
  <2> QED
    BY <1>0, <2>1
<1>4. ASSUME NEW g \in Hashes, CleanupWipe(g)
      PROVE  dir'[h].segments \subseteq dir[h].segments
  <2>1. dir' = [dir EXCEPT ![g] = NoDir] /\ NoDir.segments = {}
    BY <1>4 DEF CleanupWipe, NoDir
  <2> QED
    BY <1>0, <2>1
<1> QED
  BY <1>1, <1>2, <1>3, <1>4, DirSteps

(* A release comes on the list of clean directories with a seek, and a job *)
(* that starts FFmpeg takes it off.                                        *)
LEMMA CleanNext ==
    ASSUME TypeInv, [Next]_vars, NEW h \in past'.clean
    PROVE  \/ h \in past.clean /\ ~StartsAt(h)
           \/ \E u \in Seekers :
                SeekRestart(u) /\ dir[seek[u].hash].exists /\ seek[u].hash = h
<1>0. past \in [overlap: SUBSET Hashes, clean: SUBSET Hashes]
  BY DEF TypeInv, PastTyped
<1>1. ASSUME NEW j \in Jobs, Start(j), dir[HashOf(j)].exists
      PROVE  HashOf(j) # h
  BY <1>0, <1>1 DEF Start
<1>2. h \in past.clean \/ \E u \in Seekers :
          SeekRestart(u) /\ dir[seek[u].hash].exists /\ seek[u].hash = h
  <2>1. ASSUME NEW j \in Jobs, JobStep(j) \/ \E r \in Rankings : Search(j, r)
        PROVE  past'.clean \subseteq past.clean
    <3>1. CASE Try(j)
      BY <1>0, <3>1 DEF Try
    <3>2. CASE Start(j)
      BY <1>0, <3>2 DEF Start
    <3> QED
      BY <2>1, <3>1, <3>2 DEF JobStep, Fetch, Probe, Mkdir, Wait, Search
  <2>2. ASSUME NEW u \in Seekers, SeekRestart(u)
        PROVE  h \in past.clean \/ (dir[seek[u].hash].exists /\ seek[u].hash = h)
    BY <1>0, <2>2 DEF SeekRestart
  <2>3. ASSUME NEW u \in Seekers, NEW g \in Hashes, SeekStart(u, g)
        PROVE  past'.clean = past.clean
    BY <1>0, <2>3 DEF SeekStart
  <2>4. ASSUME NEW u \in Seekers, SeekStep(u), ~SeekRestart(u)
        PROVE  past' = past
    BY <2>4 DEF SeekStep, SeekStop, SeekWipe, SeekWait
  <2>5. CASE Cleanup
    BY <1>0, <2>5 DEF Cleanup, CleanupList, CleanupEnd, CleanupPop, CleanupWipe
  <2>6. CASE UNCHANGED vars \/ \E p \in DOMAIN procs : Write(p) \/ Exit(p)
    BY <2>6 DEF Write, Exit, vars
  <2>7. CASE \E g \in Hashes : ServeFile(g) \/ GoIdle(g)
    BY <2>7 DEF ServeFile, GoIdle
  <2> QED
    BY <2>1, <2>2, <2>3, <2>4, <2>5, <2>6, <2>7 DEF Next
<1> QED
  BY <1>1, <1>2 DEF StartsAt

LEMMA SegmentInit == Init => SegmentInv
BY DEF Init, SegmentInv, Emptied, Fresh, NewSeek

LEMMA SegmentNext == TypeInv /\ RunInv /\ SegmentInv /\ [Next]_vars => SegmentInv'
<1> SUFFICES ASSUME TypeInv, RunInv, SegmentInv, [Next]_vars,
                    NEW h \in Hashes, h \notin past'.overlap
             PROVE  Emptied(h)' /\ Fresh(h)'
  BY DEF SegmentInv
<1>0. HashInv(h) /\ Emptied(h) /\ Fresh(h)
  BY OverlapGrows DEF RunInv, SegmentInv
<1>1. ASSUME NEW u \in Seekers, seek'[u].hash = h, seek'[u].pc = "restart"
      PROVE  dir'[h].segments = {}
  <2>0. seek \in [Seekers -> SeekStates] /\ dir \in [Hashes -> [exists: BOOLEAN, segments: SUBSET Nat]]
    BY DEF TypeInv, SeeksTyped, DirsTyped
  <2>1. CASE seek'[u] = seek[u]
    <3>1. dir[h].segments = {} /\ Still(h)
      BY <1>0, <1>1, <2>1 DEF Emptied, HashInv, SeeksStill
    <3> QED
      BY <3>1, SegmentsNext DEF Still
  <2>2. CASE SeekWipe(u) /\ seek'[u].hash = seek[u].hash
    BY <1>1, <2>0, <2>2 DEF SeekWipe
  <2>3. SeekMove(u) \/ seek'[u] = seek[u]
    BY OneCallMoves DEF JobMove, SeekMove
  <2>4. ASSUME NEW g \in Hashes, SeekStart(u, g)
        PROVE  FALSE
    BY <1>1, <2>0, <2>4 DEF SeekStart
  <2>5. CASE SeekStop(u)
    BY <1>1, <2>0, <2>5 DEF SeekStop, SeekGoes, SeekStates
  <2> QED
    BY <1>1, <2>1, <2>2, <2>3, <2>4, <2>5 DEF SeekMove
<1>2. Emptied(h)'
  BY <1>1 DEF Emptied
<1>3. ASSUME h \in past'.clean
      PROVE  \/ dir'[h].segments \subseteq {sessions'[h].proc, 0}
             \/ sessions'[h].proc = 0
  <2>1. ASSUME NEW u \in Seekers, SeekRestart(u), seek[u].hash = h
        PROVE  dir'[h].segments = {}
    BY <1>0, <2>1 DEF SeekRestart, Emptied
  <2>2. CASE h \in past.clean /\ ~StartsAt(h)
    <3>1. CASE sessions'[h].proc = sessions[h].proc
      <4>1. dir'[h].segments \subseteq dir[h].segments \cup {sessions[h].proc}
        BY <1>0, SegmentsNext DEF HashInv, Registered
      <4> QED
        BY <1>0, <2>2, <3>1, <4>1 DEF Fresh
    <3>2. CASE CleanupPop(h)
      BY <3>2 DEF CleanupPop, NoSession, TypeInv, SessionsTyped
    <3> QED
      BY <2>2, <3>1, <3>2, SessionKept
  <2> QED
    BY <1>3, <2>1, <2>2, CleanNext
<1>4. Fresh(h)'
  BY <1>3 DEF Fresh
<1> QED
  BY <1>2, <1>4

(* After a seek the directory holds only segments of the session's FFmpeg, *)
(* until a job prepares the release again, unless two calls were busy with *)
(* it at the same time (seek_session).                                     *)
THEOREM SeekClean == Spec => []SeekLeavesNoOldSegments
<1>1. SegmentInv => SeekLeavesNoOldSegments
  BY DEF SegmentInv, Fresh, SeekLeavesNoOldSegments
<1> QED
  BY <1>1, TypeInit, TypeNext, RunInit, RunNext, SegmentInit, SegmentNext, PTL DEF Spec

(* A job changes by its own steps only.                                    *)
LEMMA OwnSteps ==
    ASSUME TypeInv, [Next]_vars, NEW j \in Jobs, job'[j] # job[j]
    PROVE  JobStep(j) \/ \E r \in Rankings : Search(j, r)
<1>1. ASSUME NEW k \in Jobs, JobStep(k) \/ \E r \in Rankings : Search(k, r), k # j
      PROVE  job'[j] = job[j]
  BY <1>1, JobMoves DEF JobMove
<1>2. ASSUME NEW u \in Seekers, SeekStep(u) \/ \E h \in Hashes : SeekStart(u, h)
      PROVE  job' = job
  BY <1>2, SeekMoves DEF SeekMove
<1>3. CASE Cleanup
  BY <1>3 DEF Cleanup, CleanupList, CleanupEnd, CleanupPop, CleanupWipe
<1>4. CASE UNCHANGED vars \/ \E p \in DOMAIN procs : Write(p) \/ Exit(p)
  BY <1>4 DEF Write, Exit, vars
<1>5. CASE \E h \in Hashes : ServeFile(h) \/ GoIdle(h)
  BY <1>5 DEF ServeFile, GoIdle
<1> QED
  BY <1>1, <1>2, <1>3, <1>4, <1>5 DEF Next

(* What is given to FFmpeg was fetched into the library and is not HDR.    *)
SdrInv ==
    /\ OnlySdrIsStarted
    /\ \A j \in Jobs : /\ job[j].pc = "probe" => HashOf(j) \in library
                       /\ job[j].pc \in {"mkdir", "start"} => HashOf(j) \in library \ Hdr
    /\ \A u \in Seekers : seek[u].pc # "none" => seek[u].hash \in library \ Hdr

LEMMA SdrNext == TypeInv /\ SdrInv /\ [Next]_vars => SdrInv'
<1> SUFFICES ASSUME TypeInv, SdrInv, [Next]_vars
             PROVE  SdrInv'
  OBVIOUS
<1>0. /\ library \subseteq library' /\ DOMAIN procs = 1..Len(procs) /\ Len(procs) \in Nat
      /\ ProcsTyped'
  BY LibraryNext, ProcsTypedNext DEF TypeInv, ProcsTyped
<1>1. \A i \in 1..Len(procs) : procs[i].hash \in library \ Hdr
  BY <1>0 DEF SdrInv, OnlySdrIsStarted
<1>2. ASSUME NEW h \in library \ Hdr, h \in Hashes, StartHls(h)
      PROVE  \A i \in 1..Len(procs') : procs'[i].hash \in library' \ Hdr
  <2>1. /\ Len(procs') = Len(procs) + 1
        /\ \A i \in 1..Len(procs) : procs'[i] = procs[i]
        /\ procs'[Len(procs) + 1] = [hash |-> h, running |-> TRUE]
    BY <1>2, StartAdds DEF TypeInv
  <2>2. ASSUME NEW i \in 1..Len(procs')
        PROVE  procs'[i].hash \in library' \ Hdr
    <3>1. CASE i = Len(procs) + 1
      BY <1>0, <1>2, <2>1, <3>1
    <3>2. CASE i \in 1..Len(procs)
      BY <1>0, <1>1, <2>1, <3>2
    <3> QED
      BY <1>0, <2>1, <3>1, <3>2
  <2> QED
    BY <2>2
<1>3. ASSUME SameProcs
      PROVE  \A i \in 1..Len(procs') : procs'[i].hash \in library' \ Hdr
  BY <1>0, <1>1, <1>3 DEF SameProcs
<1>4. \A i \in 1..Len(procs') : procs'[i].hash \in library' \ Hdr
  <2>1. ASSUME NEW j \in Jobs, Start(j), dir[HashOf(j)].exists
        PROVE  HashOf(j) \in library \ Hdr /\ HashOf(j) \in Hashes /\ StartHls(HashOf(j))
    BY <2>1, InHand DEF Start, Underway, SdrInv
  <2>2. ASSUME NEW u \in Seekers, SeekRestart(u), dir[seek[u].hash].exists
        PROVE  /\ seek[u].hash \in library \ Hdr /\ seek[u].hash \in Hashes
               /\ StartHls(seek[u].hash)
    BY <2>2 DEF SeekRestart, TypeInv, SeeksTyped, SdrInv
  <2>3. ASSUME NEW p \in 1..Len(procs), procs' = [procs EXCEPT ![p].running = FALSE]
        PROVE  SameProcs
    BY <2>3, StopOne DEF TypeInv
  <2>4. CASE UNCHANGED procs
    BY <1>0, <1>1, <2>4
  <2> QED
    BY <1>2, <1>3, <2>1, <2>2, <2>3, <2>4, ProcsSteps
<1>5. OnlySdrIsStarted'
  <2>1. DOMAIN procs' = 1..Len(procs')
    BY <1>0 DEF ProcsTyped
  <2> QED
    BY <1>4, <2>1 DEF OnlySdrIsStarted
<1>6. ASSUME NEW j \in Jobs
      PROVE  /\ job'[j].pc = "probe" => HashOf(j)' \in library'
             /\ job'[j].pc \in {"mkdir", "start"} => HashOf(j)' \in library' \ Hdr
  <2>1. CASE job'[j] = job[j]
    BY <1>0, <2>1 DEF SdrInv, HashOf
  <2>2. CASE job'[j] # job[j] /\ job'[j].pc \in {"probe", "mkdir", "start"}
    <3>1. JobMove(j) /\ (JobStep(j) \/ \E r \in Rankings : Search(j, r))
      BY <2>2, OwnSteps, JobMoves
    <3>2. HashOf(j)' = HashOf(j) /\ <<job[j].pc, job'[j].pc>> \in Onwards
      BY <2>2, <3>1 DEF JobMove, HashOf
    <3>3. CASE job[j].pc = "fetch"
      <4>1. Fetch(j)
        BY <3>1, <3>3 DEF JobStep, Try, Probe, Mkdir, Start, Wait, Search
      <4>2. ~Skips(j)
        BY <2>2 DEF Skips, TypeInv, JobsTyped, JobStates
      <4>3. job'[j].pc = "probe"
        BY <3>2, <3>3 DEF Onwards
      <4> QED
        BY <3>2, <4>1, <4>2, <4>3 DEF Fetch
    <3>4. CASE job[j].pc = "probe"
      <4>1. Probe(j)
        BY <3>1, <3>4 DEF JobStep, Try, Fetch, Mkdir, Start, Wait, Search
      <4>2. ~Skips(j) /\ ~Fails(j)
        BY <2>2 DEF Skips, Fails, TypeInv, JobsTyped, JobStates
      <4>3. HashOf(j) \in library \ Hdr
        BY <3>4, <4>1, <4>2 DEF Probe, SdrInv
      <4>4. job'[j].pc = "mkdir"
        BY <3>2, <3>4 DEF Onwards
      <4> QED
        BY <1>0, <3>2, <4>3, <4>4
    <3>5. CASE job[j].pc \in {"mkdir", "start"}
      BY <1>0, <2>2, <3>2, <3>5 DEF SdrInv
    <3> QED
      BY <3>2, <3>3, <3>4, <3>5 DEF Onwards
  <2> QED
    BY <2>1, <2>2
<1>7. ASSUME NEW u \in Seekers, seek'[u].pc # "none"
      PROVE  seek'[u].hash \in library' \ Hdr
  <2>1. CASE seek'[u] = seek[u]
    BY <1>0, <1>7, <2>1 DEF SdrInv
  <2>2. ASSUME NEW h \in Hashes, SeekStart(u, h)
        PROVE  seek'[u].hash \in library' \ Hdr
    <3>1. sessions[h].proc \in 1..Len(procs) /\ procs[sessions[h].proc].hash = h
      BY <1>0, <2>2 DEF SeekStart, TypeInv, SessionsTyped
    <3>2. h \in library \ Hdr
      BY <1>1, <3>1
    <3>3. seek'[u].hash = h
      BY <2>2 DEF SeekStart, TypeInv, SeeksTyped
    <3> QED
      BY <1>0, <3>2, <3>3
  <2>3. CASE /\ seek'[u].hash = seek[u].hash
             /\ SeekStop(u) \/ SeekWipe(u) \/ SeekRestart(u)
    BY <1>0, <2>3 DEF SdrInv, SeekStop, SeekWipe, SeekRestart
  <2>4. SeekMove(u) \/ seek'[u] = seek[u]
    BY OneCallMoves DEF JobMove, SeekMove
  <2> QED
    BY <1>7, <2>1, <2>2, <2>3, <2>4 DEF SeekMove
<1> QED
  BY <1>5, <1>6, <1>7 DEF SdrInv

(* No release known to be HDR, or not instantly available, is ever given   *)
(* to FFmpeg (_run_job).                                                   *)
THEOREM SdrOnly == Spec => []OnlySdrIsStarted
<1>1. Init => SdrInv
  BY DEF Init, SdrInv, OnlySdrIsStarted, NewJob, NewSeek
<1>2. SdrInv => OnlySdrIsStarted
  BY DEF SdrInv
<1> QED
  BY <1>1, <1>2, TypeInit, TypeNext, SdrNext, PTL DEF Spec
=============================================================================
