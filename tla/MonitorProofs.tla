--------------------------- MODULE MonitorProofs ---------------------------
(***************************************************************************)
(* Theorems about the series monitor and the user requests before it, for  *)
(* any seasons, dates, threads, requests and installations.                *)
(***************************************************************************)
EXTENDS UserRequests, FiniteSetTheorems, WellFoundedInduction, TLAPS

(* The history and the installation are of their types too.                *)
PastTyped ==
    past \in [files: SUBSET Episodes, modes: SUBSET Modes, other: BOOLEAN]
TypeInv == URTypeOK /\ PastTyped /\ setup \in Setups

(* A step of a user starts a thread as the user or the defaults have it,   *)
(* or leaves the monitor as it is.                                         *)
Started == \E mode \in Modes, chosen \in SUBSET Seasons : Start(mode, chosen)

LEMMA SetupFields ==
    ASSUME setup \in Setups
    PROVE  /\ setup.catbox \in BOOLEAN /\ setup.seerr \in SUBSET Seasons
           /\ setup.faults \in Nat /\ setup.removals \in Nat
<1>1. setup \in [catbox: BOOLEAN, seerr: SUBSET Seasons, imports: BOOLEAN,
                 long: SUBSET Seasons, first: BOOLEAN, namesake: SUBSET Episodes,
                 users: {"none", "single", "accounts"}, faults: Nat, removals: Nat]
  BY MonitorConstants
<1> QED
  BY <1>1

(* Which actions there are.                                                *)
LEMMA Steps ==
    ASSUME [URNext]_allVars
    PROVE  \/ UNCHANGED allVars
           \/ /\ UNCHANGED uvars
              /\ \/ \E c \in Checkers :
                        \/ CheckStart(c) \/ Resolve(c) \/ Detect(c)
                        \/ ListWanted(c) \/ RetryCheck(c) \/ RetrySearch(c)
                 \/ \E t \in Threads : FetchSeason(t) \/ SyncEpisode(t) \/ SyncDone(t)
                 \/ \E a \in Adders :
                        \/ SyncSeerr(a) \/ ProcessSeason(a) \/ Register(a)
                        \/ Processed(a) \/ AddSeries(a)
                 \/ \E i \in Importers : ImportRead(i) \/ ImportUpsert(i)
                 \/ \E e \in Episodes : SearchNow(e)
                 \/ Reconcile \/ World \/ Generate
           \/ \E r \in Requests, mode \in UserModes, auto \in BOOLEAN :
                  \E chosen \in SUBSET Seasons : Submit(r, mode, chosen, auto)
           \/ \E mode \in UserModes : AddDirectly(mode, {})
           \/ \E r \in Requests : Approve(r) \/ ApproveKick(r) \/ Deny(r)
BY DEF URNext, MonitorStep, CheckStep, SyncStep, AddStep

(* What the users' actions do to the monitor.                              *)
LEMMA UserSteps ==
    ASSUME \/ \E r \in Requests, mode \in UserModes, auto \in BOOLEAN :
                  \E chosen \in SUBSET Seasons : Submit(r, mode, chosen, auto)
           \/ \E mode \in UserModes : AddDirectly(mode, {})
           \/ \E r \in Requests : Approve(r) \/ ApproveKick(r) \/ Deny(r)
    PROVE  UNCHANGED vars \/ Started
<1>1. UserModes \subseteq Modes /\ "all" \in Modes /\ {} \in SUBSET Seasons
  BY RequestConstants DEF Modes
<1>2. ASSUME NEW r \in Requests, NEW mode \in UserModes, NEW auto \in BOOLEAN,
             NEW chosen \in SUBSET Seasons, Submit(r, mode, chosen, auto)
      PROVE  UNCHANGED vars \/ Started
  BY <1>1, <1>2 DEF Submit, Started
<1>3. ASSUME NEW mode \in UserModes, AddDirectly(mode, {})
      PROVE  Started
  BY <1>1, <1>3 DEF AddDirectly, Started
<1>4. ASSUME NEW r \in Requests, Approve(r) \/ ApproveKick(r) \/ Deny(r)
      PROVE  UNCHANGED vars \/ Started
  BY <1>1, <1>4 DEF Approve, ApproveKick, Deny, Started
<1> QED
  BY <1>2, <1>3, <1>4
(* The first episode of a list is in the list: of the episodes at or before *)
(* each, a list has a smallest set, since it is finite.                    *)
LEMMA FirstIsThere ==
    ASSUME NEW S \in SUBSET Episodes, S # {}
    PROVE  FirstOf(S) \in S
<1>1. IsFiniteSet(Episodes)
  BY MonitorConstants
<1>2. IsFiniteSet(S) /\ \A T \in SUBSET S : IsFiniteSet(T)
  BY <1>1, FS_Subset
<1> DEFINE UpTo(e) == {d \in S : Before(d, e)}
           F == {UpTo(e) : e \in S}
<1>3. F \subseteq FiniteSubsetsOf(S) /\ F # {}
  BY <1>2 DEF FiniteSubsetsOf
<1>4. IsWellFoundedOn(StrictSubsetOrdering(S), FiniteSubsetsOf(S))
  BY FS_StrictSubsetOrderingWellFounded
<1> HIDE DEF F
<1>5. PICK U \in F : \A V \in F : <<V, U>> \notin StrictSubsetOrdering(S)
  BY <1>3, <1>4, WFMin
<1>6. PICK e \in S : U = UpTo(e)
  BY DEF F
<1>7. \A d \in S : d[1] \in Nat /\ d[2] \in Nat /\ d = <<d[1], d[2]>>
  BY MonitorConstants DEF Seasons
<1>8. ASSUME NEW d \in S, ~Before(e, d)
      PROVE  FALSE
  <2>1. Before(d, e)
    BY <1>7, <1>8 DEF Before
  <2>2. UpTo(d) \subseteq UpTo(e)
    BY <1>7, <2>1 DEF Before
  <2>3. e \in UpTo(e) /\ e \notin UpTo(d)
    BY <1>7, <1>8 DEF Before
  <2>4. UpTo(d) \in F /\ UpTo(d) \in SUBSET S /\ UpTo(e) \in SUBSET S
    BY DEF F
  <2> HIDE DEF UpTo
  <2>5. <<UpTo(d), UpTo(e)>> \in StrictSubsetOrdering(S)
    BY <2>2, <2>3, <2>4 DEF StrictSubsetOrdering
  <2> QED
    BY <1>5, <1>6, <2>4, <2>5
<1> QED
  BY <1>8 DEF FirstOf
-----------------------------------------------------------------------------
(* Type correctness.                                                       *)

LEMMA ThreadPut ==
    ASSUME th \in [Threads -> ThreadStates], NEW t \in Threads, NEW s \in ThreadStates,
           th' = [th EXCEPT ![t] = s]
    PROVE  th' \in [Threads -> ThreadStates]
OBVIOUS

LEMMA IdleTyped == IdleThread \in ThreadStates
BY MonitorConstants DEF IdleThread, ThreadStates, PCs, Modes

LEMMA FinishTyped ==
    ASSUME th \in [Threads -> ThreadStates], NEW t \in Threads, Finish(t)
    PROVE  th' \in [Threads -> ThreadStates]
BY IdleTyped DEF Finish

LEMMA GotoTyped ==
    ASSUME th \in [Threads -> ThreadStates], NEW t \in Threads, NEW pc \in PCs, Goto(t, pc)
    PROVE  th' \in [Threads -> ThreadStates]
BY DEF Goto, ThreadStates

LEMMA SearchTyped ==
    ASSUME TypeInv, NEW e, SearchEpisode(e)
    PROVE  /\ {ready', files', virtual'} \subseteq SUBSET Episodes
           /\ status' \in [Episodes -> {"none", "wanted", "not_aired", "found"}]
           /\ PastTyped' /\ faults' \in 0..setup.faults
<1>1. setup.faults \in Nat
  BY SetupFields DEF TypeInv
<1> QED
  BY <1>1 DEF TypeInv, URTypeOK, MonitorTypeOK, PastTyped, SearchEpisode, LazyEpisode,
     AddedEpisode, LazyStrm, WriteStrm, Works, Fault

LEMMA UpsertTyped ==
    ASSUME TypeInv, NEW mode \in Modes, NEW seasons \in SUBSET Seasons,
           NEW tmdb \in BOOLEAN, Upsert(mode, seasons, tmdb)
    PROVE  row' \in Rows /\ PastTyped'
BY DEF TypeInv, URTypeOK, MonitorTypeOK, PastTyped, Upsert, Rows

(* The parts a step leaves alone.                                          *)
LEMMA WorldStays ==
    ASSUME TypeInv, UNCHANGED world, PastTyped', row' \in Rows,
           status' \in [Episodes -> {"none", "wanted", "not_aired", "found"}],
           th' \in [Threads -> ThreadStates],
           im' \in [Importers -> {"idle", "missing", "known"}],
           faults' \in 0..setup.faults,
           past'.files \in SUBSET Episodes, past'.modes \in SUBSET Modes
    PROVE  MonitorTypeOK' /\ setup' \in Setups
BY DEF TypeInv, URTypeOK, MonitorTypeOK, world

LEMMA KnownSeasons ==
    ASSUME TypeInv
    PROVE  1..announced \in SUBSET Seasons
BY MonitorConstants DEF TypeInv, URTypeOK, MonitorTypeOK, Seasons

(* A kick-off writes the row or fails to, and begins with its seasons, or   *)
(* with none in mode 'future'.                                             *)
Begun(seasons) == [IdleThread EXCEPT !.pc = "process", !.seasons = seasons,
                                     !.left = seasons]

LEMMA KickOffShape ==
    ASSUME TypeInv, NEW mode \in Modes, NEW chosen \in SUBSET Seasons, NEW a,
           KickOff(a, mode, chosen)
    PROVE  \E seasons \in SUBSET Seasons :
               /\ Upsert(mode, seasons, TRUE) \/ UNCHANGED <<row, past>>
               /\ \/ UNCHANGED th
                  \/ mode # "future" /\ th' = [th EXCEPT ![a] = Begun(seasons)]
               /\ Works \/ Fault
<1>1. {1} \in SUBSET Seasons
  BY MonitorConstants DEF Seasons
<1> QED
  BY <1>1, KnownSeasons DEF KickOff, Begun

LEMMA StartedTypes ==
    ASSUME TypeInv, Started
    PROVE  MonitorTypeOK' /\ PastTyped' /\ setup' \in Setups
<1>1. PICK mode \in Modes, chosen \in SUBSET Seasons : Start(mode, chosen)
  BY DEF Started
<1>2. PICK a \in Adders : th[a].pc = "idle" /\ KickOff(a, mode, chosen)
  BY <1>1 DEF Start
<1>3. a \in Threads
  BY DEF Threads
<1>4. PICK seasons \in SUBSET Seasons :
          /\ Upsert(mode, seasons, TRUE) \/ UNCHANGED <<row, past>>
          /\ th' = th \/ th' = [th EXCEPT ![a] = Begun(seasons)]
          /\ Works \/ Fault
  BY <1>2, KickOffShape
<1>5. Begun(seasons) \in ThreadStates
  BY IdleTyped DEF ThreadStates, PCs, Begun
<1>6. th' \in [Threads -> ThreadStates]
  BY <1>3, <1>4, <1>5, ThreadPut DEF TypeInv, URTypeOK, MonitorTypeOK
<1>7. row' \in Rows /\ PastTyped'
  BY <1>4, UpsertTyped DEF TypeInv, URTypeOK, MonitorTypeOK, PastTyped
<1>8. faults' \in 0..setup.faults
  BY <1>4, SetupFields DEF TypeInv, URTypeOK, MonitorTypeOK, Works, Fault
<1> QED
  BY <1>1, <1>6, <1>7, <1>8, WorldStays
     DEF Start, TypeInv, URTypeOK, MonitorTypeOK, PastTyped

LEMMA CheckTypes ==
    ASSUME TypeInv, NEW c \in Checkers,
           \/ CheckStart(c) \/ Resolve(c) \/ Detect(c)
           \/ ListWanted(c) \/ RetryCheck(c) \/ RetrySearch(c)
    PROVE  MonitorTypeOK' /\ PastTyped' /\ setup' \in Setups
<1> USE DEF TypeInv, URTypeOK, MonitorTypeOK, PastTyped
<1>0. c \in Threads /\ th[c] \in ThreadStates /\ setup.faults \in Nat
      /\ {"list", "resolve", "detect", "sync", "search"} \subseteq PCs
  BY SetupFields DEF Threads, PCs
<1>1. CASE CheckStart(c)
  <2> DEFINE begun == [IdleThread EXCEPT
                           !.pc = IF row.mode = "none" THEN "list" ELSE "resolve",
                           !.day = today, !.mode = row.mode, !.seasons = SeasonsOf(row),
                           !.tmdb = row.tmdb, !.since = row.since]
  <2>1. begun \in ThreadStates
    BY <1>0, IdleTyped DEF Rows, ThreadStates, SeasonsOf
  <2>2. th' \in [Threads -> ThreadStates]
    BY <1>0, <1>1, <2>1, ThreadPut DEF CheckStart
  <2> QED
    BY <1>1, <2>2, WorldStays DEF CheckStart
<1>2. CASE Resolve(c)
  <2>1. th' \in [Threads -> ThreadStates]
    BY <1>0, <1>2, GotoTyped DEF Resolve
  <2>2. (row' = row \/ row' = [row EXCEPT !.tmdb = TRUE]) /\ (Works \/ Fault)
    BY <1>2 DEF Resolve
  <2>3. row' \in Rows
    BY <2>2 DEF Rows
  <2>4. faults' \in 0..setup.faults
    BY <1>0, <2>2 DEF Works, Fault
  <2> QED
    BY <1>2, <2>1, <2>3, <2>4, WorldStays DEF Resolve
<1>3. CASE Detect(c)
  <2> DEFINE all == th[c].seasons \cup ((1..announced) \ th[c].seasons)
             synced(seasons) == [th[c] EXCEPT !.pc = "sync", !.seasons = seasons,
                                              !.synced = today]
  <2>1. all \in SUBSET Seasons /\ \A seasons \in SUBSET Seasons : synced(seasons) \in ThreadStates
    BY <1>0, KnownSeasons DEF ThreadStates
  <2>2. /\ th' = [th EXCEPT ![c] = synced(all)]
           \/ th' = [th EXCEPT ![c] = synced(th[c].seasons)]
        /\ row' = row \/ row' = [row EXCEPT !.seasons = all]
        /\ Works \/ Fault
    BY <1>0, <1>3 DEF Detect, ToSync
  <2>s. th[c].seasons \in SUBSET Seasons
    BY <1>0 DEF ThreadStates
  <2>3. th' \in [Threads -> ThreadStates]
    BY <1>0, <2>1, <2>2, <2>s, ThreadPut
  <2>4. row' \in Rows
    BY <2>1, <2>2 DEF Rows
  <2>5. faults' \in 0..setup.faults
    BY <1>0, <2>2 DEF Works, Fault
  <2> QED
    BY <1>3, <2>3, <2>4, <2>5, WorldStays DEF Detect
<1>4. CASE ListWanted(c)
  <2> DEFINE listed == [IdleThread EXCEPT !.pc = "retry", !.day = th[c].day,
                                !.todo = {e \in Episodes : status[e] = "wanted"}]
  <2>1. listed \in ThreadStates
    BY <1>0, IdleTyped DEF ThreadStates, PCs
  <2>2. th' \in [Threads -> ThreadStates]
    BY <1>0, <1>4, <2>1, ThreadPut DEF ListWanted
  <2> QED
    BY <1>4, <2>2, WorldStays DEF ListWanted
<1>5. CASE RetryCheck(c)
  <2> DEFINE e == FirstOf(th[c].todo)
             shorter == [th[c] EXCEPT !.todo = @ \ {e}]
  <2>1. shorter \in ThreadStates
    BY <1>0 DEF ThreadStates
  <2>2. \/ Finish(c) /\ status' = status
        \/ Goto(c, "search") /\ status' = status
        \/ /\ \E v \in {"not_aired", "found"} : status' = [status EXCEPT ![e] = v]
           /\ th' = [th EXCEPT ![c] = shorter]
    BY <1>0, <1>5 DEF RetryCheck
  <2>3. th' \in [Threads -> ThreadStates]
    BY <1>0, <2>1, <2>2, GotoTyped, FinishTyped, ThreadPut
  <2>4. status' \in [Episodes -> {"none", "wanted", "not_aired", "found"}]
    BY <2>2
  <2> QED
    BY <1>5, <2>3, <2>4, WorldStays DEF RetryCheck
<1>6. CASE RetrySearch(c)
  <2> DEFINE e == FirstOf(th[c].todo)
             shorter == [th[c] EXCEPT !.pc = "retry", !.todo = @ \ {e}]
  <2>1. shorter \in ThreadStates
    BY <1>0 DEF ThreadStates, PCs
  <2>2. \/ SearchEpisode(e) /\ th' = [th EXCEPT ![c] = shorter]
        \/ Fault /\ Finish(c) /\ UNCHANGED <<files, virtual, ready, status, past>>
    BY <1>0, <1>6 DEF RetrySearch
  <2>3. th' \in [Threads -> ThreadStates]
    BY <1>0, <2>1, <2>2, FinishTyped, ThreadPut
  <2>4. CASE SearchEpisode(e)
    BY <1>6, <2>3, <2>4, SearchTyped DEF RetrySearch
  <2>5. CASE ~SearchEpisode(e)
    BY <1>0, <1>6, <2>2, <2>3, <2>5 DEF RetrySearch, Fault
  <2> QED
    BY <2>4, <2>5
<1> QED
  BY <1>1, <1>2, <1>3, <1>4, <1>5, <1>6

LEMMA SyncTypes ==
    ASSUME TypeInv, NEW t \in Threads, FetchSeason(t) \/ SyncEpisode(t) \/ SyncDone(t)
    PROVE  MonitorTypeOK' /\ PastTyped' /\ setup' \in Setups
<1> USE DEF TypeInv, URTypeOK, MonitorTypeOK, PastTyped
<1>0. th[t] \in ThreadStates /\ setup.faults \in Nat /\ "list" \in PCs
  BY SetupFields DEF PCs
<1>1. CASE FetchSeason(t)
  <2> DEFINE s == Min(th[t].seasons)
             eps == IF s <= announced THEN {e \in Episodes : e[1] = s} ELSE {}
             fetched == [th[t] EXCEPT !.seasons = @ \ {s}, !.todo = eps]
             missed == [th[t] EXCEPT !.seasons = @ \ {s}]
  <2>1. fetched \in ThreadStates /\ missed \in ThreadStates
    BY <1>0 DEF ThreadStates
  <2> HIDE DEF s
  <2>2. \/ Works /\ th' = [th EXCEPT ![t] = fetched]
        \/ Fault /\ th' = [th EXCEPT ![t] = missed]
    BY <1>0, <1>1 DEF FetchSeason, s
  <2>3. th' \in [Threads -> ThreadStates] /\ faults' \in 0..setup.faults
    <3>1. th' \in [Threads -> ThreadStates]
      BY <2>1, <2>2, ThreadPut
    <3>2. faults' \in 0..setup.faults
      BY <1>0, <2>2 DEF Works, Fault
    <3> QED
      BY <3>1, <3>2
  <2> QED
    BY <1>1, <2>3, WorldStays DEF FetchSeason
<1>2. CASE SyncEpisode(t)
  <2> DEFINE e == FirstOf(th[t].todo)
             shorter == [th[t] EXCEPT !.todo = @ \ {e}]
  <2>1. shorter \in ThreadStates
    BY <1>0 DEF ThreadStates
  <2>2. /\ th' = [th EXCEPT ![t] = shorter]
        /\ status' = status \/ status' = [status EXCEPT ![e] = SyncedStatus(e, th[t].synced)]
    BY <1>0, <1>2 DEF SyncEpisode
  <2>3. e \in Episodes =>
            SyncedStatus(e, th[t].synced) \in {"none", "wanted", "not_aired", "found"}
    BY DEF SyncedStatus, UpsertedStatus
  <2>4. /\ th' \in [Threads -> ThreadStates]
        /\ status' \in [Episodes -> {"none", "wanted", "not_aired", "found"}]
    BY <2>1, <2>2, <2>3, ThreadPut
  <2> QED
    BY <1>2, <2>4, WorldStays DEF SyncEpisode
<1>3. CASE SyncDone(t)
  <2>1. th' \in [Threads -> ThreadStates]
    BY <1>0, <1>3, GotoTyped, FinishTyped DEF SyncDone
  <2> QED
    BY <1>3, <2>1, WorldStays DEF SyncDone
<1> QED
  BY <1>1, <1>2, <1>3

(* What processing changes: its thread, and what it adds or writes.        *)
LEMMA ProcessShape ==
    ASSUME TypeInv, NEW a \in Adders, ProcessSeason(a) \/ Register(a) \/ Processed(a)
    PROVE  /\ a \in Threads /\ th[a].pc = "process"
           /\ \E s \in ThreadStates : /\ s.pc \in {"process", "add", "idle"}
                                       /\ th' = [th EXCEPT ![a] = s]
           /\ UNCHANGED <<today, announced, released, row, status, im, removals, setup>>
           /\ {ready', files', virtual'} \subseteq SUBSET Episodes
           /\ PastTyped' /\ past'.modes = past.modes /\ past'.other = past.other
           /\ past.files \subseteq past'.files
           /\ (files' \cup virtual') \ (files \cup virtual) \subseteq past'.files
           /\ faults' \in 0..setup.faults
<1> USE DEF TypeInv, URTypeOK, MonitorTypeOK, PastTyped
<1>0. /\ a \in Threads /\ th[a] \in ThreadStates /\ setup.faults \in Nat
      /\ {"process", "add", "idle"} \subseteq PCs
      /\ IdleThread \in ThreadStates /\ IdleThread.pc = "idle"
  BY SetupFields, IdleTyped DEF Threads, PCs, IdleThread
<1>1. CASE ProcessSeason(a)
  <2> DEFINE n == Min(th[a].left)
  <2>0. th[a].pc = "process" /\ (th' = [th EXCEPT ![a] = IdleThread]
           \/ (\E offer \in Offers(n) :
                 th' = [th EXCEPT ![a].left = @ \ {n}, ![a].todo = offer])
           \/ (\E got : th' = [th EXCEPT ![a].left = @ \ {n}, ![a].ok = @ \/ got # {}]))
    BY <1>1 DEF ProcessSeason, Finish
  <2>1. \A offer \in Offers(n) : offer \in SUBSET Episodes
    BY DEF Offers
  <2> HIDE DEF n
  <2>2. \E s \in ThreadStates : s.pc \in {"process", "add", "idle"} /\ th' = [th EXCEPT ![a] = s]
    <3>1. CASE th' = [th EXCEPT ![a] = IdleThread]
      BY <1>0, <3>1
    <3>2. CASE \E offer \in Offers(n) : th' = [th EXCEPT ![a].left = @ \ {n}, ![a].todo = offer]
      <4>1. PICK offer \in SUBSET Episodes : th' = [th EXCEPT ![a].left = @ \ {n}, ![a].todo = offer]
        BY <2>1, <3>2
      <4> DEFINE s == [th[a] EXCEPT !.left = @ \ {n}, !.todo = offer]
      <4>2. s \in ThreadStates /\ s.pc = "process"
        BY <1>0, <2>0 DEF ThreadStates
      <4>3. th' = [th EXCEPT ![a] = s]
        BY <1>0, <4>1
      <4> QED
        BY <4>2, <4>3
    <3>3. CASE \E got : th' = [th EXCEPT ![a].left = @ \ {n}, ![a].ok = @ \/ got # {}]
      <4>1. PICK got : th' = [th EXCEPT ![a].left = @ \ {n}, ![a].ok = @ \/ got # {}]
        BY <3>3
      <4> DEFINE s == [th[a] EXCEPT !.left = @ \ {n}, !.ok = @ \/ got # {}]
      <4>2. s \in ThreadStates /\ s.pc = "process"
        BY <1>0, <2>0 DEF ThreadStates
      <4>3. th' = [th EXCEPT ![a] = s]
        BY <1>0, <4>1
      <4> QED
        BY <4>2, <4>3
    <3> QED
      BY <2>0, <3>1, <3>2, <3>3
  <2>3. ready' \in SUBSET Episodes
    BY <1>1 DEF ProcessSeason
  <2> QED
    BY <1>0, <1>1, <2>0, <2>2, <2>3 DEF ProcessSeason
<1>2. CASE Register(a)
  <2> DEFINE e == FirstOf(th[a].todo)
             s == [th[a] EXCEPT !.todo = @ \ {e}, !.ok = @ \/ files' # files]
  <2>1. th[a].todo \in SUBSET Episodes /\ th[a].todo # {} /\ th[a].pc = "process"
    BY <1>0, <1>2 DEF Register, ThreadStates
  <2>2. e \in Episodes
    BY <2>1, FirstIsThere
  <2>3. /\ \/ Works /\ UNCHANGED <<files, virtual, past>>
           \/ LazyStrm(e)
        /\ th' = [th EXCEPT ![a].todo = @ \ {e}, ![a].ok = @ \/ files' # files]
        /\ UNCHANGED <<today, announced, released, ready, row, status, im, removals, setup>>
    BY <1>2 DEF Register
  <2>4. s \in ThreadStates /\ s.pc = "process" /\ th' = [th EXCEPT ![a] = s]
    BY <1>0, <2>1, <2>3 DEF ThreadStates
  <2> HIDE DEF e, s
  <2>5. /\ {files', virtual'} \subseteq SUBSET Episodes
        /\ PastTyped' /\ past'.modes = past.modes /\ past'.other = past.other
        /\ past.files \subseteq past'.files
        /\ (files' \cup virtual') \ (files \cup virtual) \subseteq past'.files
    <3>1. CASE UNCHANGED <<files, virtual, past>>
      BY <3>1
    <3>2. CASE LazyStrm(e)
      <4>1. /\ files' \in {files, files \cup {e}} /\ virtual' = virtual \cup {e}
            /\ past' = [past EXCEPT !.files = @ \cup {e}]
        BY <3>2 DEF LazyStrm, WriteStrm
      <4> QED
        BY <2>2, <4>1
    <3> QED
      BY <2>3, <3>1, <3>2
  <2>6. faults' \in 0..setup.faults
    <3>1. Works \/ Fault
      BY <2>3 DEF LazyStrm
    <3> QED
      BY <1>0, <3>1 DEF Works, Fault
  <2> QED
    BY <1>0, <2>1, <2>3, <2>4, <2>5, <2>6
<1>3. CASE Processed(a)
  <2> DEFINE s == [th[a] EXCEPT !.pc = "add", !.ok = FALSE]
  <2>1. s \in ThreadStates /\ s.pc = "add"
    BY <1>0 DEF ThreadStates
  <2>2. th' = [th EXCEPT ![a] = s] \/ th' = [th EXCEPT ![a] = IdleThread]
    BY <1>0, <1>3 DEF Processed, Finish
  <2> HIDE DEF s
  <2> QED
    BY <1>0, <1>3, <2>1, <2>2 DEF Processed, world
<1> QED
  BY <1>1, <1>2, <1>3

LEMMA AddTypes ==
    ASSUME TypeInv, NEW a \in Adders,
           \/ SyncSeerr(a) \/ ProcessSeason(a) \/ Register(a)
           \/ Processed(a) \/ AddSeries(a)
    PROVE  MonitorTypeOK' /\ PastTyped' /\ setup' \in Setups
<1> USE DEF TypeInv, URTypeOK, MonitorTypeOK, PastTyped
<1>0. /\ a \in Threads /\ th[a] \in ThreadStates /\ setup.faults \in Nat
      /\ setup.seerr \in SUBSET Seasons /\ {"add", "sync"} \subseteq PCs
  BY SetupFields DEF Threads, PCs
<1>1. CASE SyncSeerr(a)
  <2> DEFINE begun == [IdleThread EXCEPT !.pc = "add", !.seasons = setup.seerr]
  <2>1. begun \in ThreadStates
    BY <1>0, IdleTyped DEF ThreadStates
  <2>2. th' \in [Threads -> ThreadStates]
    BY <1>0, <1>1, <2>1, ThreadPut DEF SyncSeerr
  <2>3. PastTyped'
    BY <1>1 DEF SyncSeerr
  <2> QED
    BY <1>1, <2>2, <2>3, WorldStays DEF SyncSeerr
<1>2. CASE ProcessSeason(a) \/ Register(a) \/ Processed(a)
  <2>1. th' \in [Threads -> ThreadStates]
    BY <1>0, <1>2, ProcessShape, ThreadPut
  <2> QED
    BY <1>2, <2>1, ProcessShape
<1>3. CASE AddSeries(a)
  <2> DEFINE begun == [th[a] EXCEPT !.pc = "sync", !.synced = today, !.since = today,
                                    !.mode = "all"]
  <2>1. begun \in ThreadStates
    BY <1>0 DEF ThreadStates, Modes
  <2>2. \/ Works /\ Upsert("all", th[a].seasons, TRUE) /\ th' = [th EXCEPT ![a] = begun]
        \/ Fault /\ Upsert("all", th[a].seasons, FALSE) /\ Finish(a)
    BY <1>0, <1>3 DEF AddSeries
  <2>3. th' \in [Threads -> ThreadStates]
    BY <1>0, <2>1, <2>2, FinishTyped, ThreadPut
  <2>4. row' \in Rows /\ PastTyped'
    <3>1. th[a].seasons \in SUBSET Seasons /\ "all" \in Modes
      BY <1>0 DEF ThreadStates, Modes
    <3>2. PICK tmdb \in BOOLEAN : Upsert("all", th[a].seasons, tmdb)
      BY <2>2
    <3> HIDE DEF TypeInv, URTypeOK, MonitorTypeOK, PastTyped
    <3> QED
      BY <3>1, <3>2, UpsertTyped
  <2>5. Works \/ Fault
    BY <2>2
  <2>6. faults' \in 0..setup.faults
    BY <1>0, <2>5 DEF Works, Fault
  <2> QED
    BY <1>3, <2>3, <2>4, <2>6, WorldStays DEF AddSeries
<1> QED
  BY <1>1, <1>2, <1>3

LEMMA ImportTypes ==
    ASSUME TypeInv, NEW i \in Importers, ImportRead(i) \/ ImportUpsert(i)
    PROVE  MonitorTypeOK' /\ PastTyped' /\ setup' \in Setups
<1> USE DEF TypeInv, URTypeOK, MonitorTypeOK, PastTyped
<1>1. CASE ImportRead(i)
  <2>1. PastTyped'
    BY <1>1 DEF ImportRead
  <2>2. im' \in [Importers -> {"idle", "missing", "known"}]
    BY <1>1 DEF ImportRead
  <2> QED
    BY <1>1, <2>1, <2>2, WorldStays DEF ImportRead
<1>2. CASE ImportUpsert(i)
  <2>1. row' \in Rows /\ PastTyped'
    <3>1. Upsert("all", 1..announced, TRUE) \/ UNCHANGED <<row, past>>
      BY <1>2 DEF ImportUpsert
    <3> QED
      BY <3>1, KnownSeasons, UpsertTyped DEF Modes
  <2>2. im' \in [Importers -> {"idle", "missing", "known"}]
    BY <1>2 DEF ImportUpsert
  <2> QED
    BY <1>2, <2>1, <2>2, WorldStays DEF ImportUpsert
<1> QED
  BY <1>1, <1>2

LEMMA OtherTypes ==
    ASSUME TypeInv,
           (\E e \in Episodes : SearchNow(e)) \/ Reconcile \/ World \/ Generate
    PROVE  MonitorTypeOK' /\ PastTyped' /\ setup' \in Setups
<1> USE DEF TypeInv, URTypeOK, MonitorTypeOK, PastTyped
<1>0. setup.faults \in Nat /\ setup.removals \in Nat /\ {MaxSeason, MaxDay} \subseteq Nat
  BY SetupFields, MonitorConstants
<1>1. ASSUME NEW e \in Episodes, SearchNow(e)
      PROVE  MonitorTypeOK' /\ PastTyped' /\ setup' \in Setups
  BY <1>1, SearchTyped DEF SearchNow
<1>2. CASE Reconcile
  <2>1. status' \in [Episodes -> {"none", "wanted", "not_aired", "found"}]
    BY <1>2 DEF Reconcile
  <2> QED
    BY <1>2, <2>1, WorldStays DEF Reconcile
<1>3. CASE World
  <2>1. UNCHANGED <<row, status, th, im, past, faults, setup>>
    BY <1>3 DEF World
  <2>2. CASE NextDay
    BY <1>0, <2>1, <2>2 DEF NextDay
  <2>3. CASE Announce
    BY <1>0, <2>1, <2>3 DEF Announce
  <2>4. ASSUME NEW e \in Episodes, Release(e) \/ Remove(e)
        PROVE  MonitorTypeOK' /\ PastTyped' /\ setup' \in Setups
    BY <1>0, <2>1, <2>4 DEF Release, Remove
  <2> QED
    BY <1>3, <2>2, <2>3, <2>4 DEF World
<1>4. CASE Generate
  BY <1>4 DEF Generate
<1> QED
  BY <1>1, <1>2, <1>3, <1>4

LEMMA RequestTypes ==
    ASSUME TypeInv, [URNext]_allVars
    PROVE  /\ ureq' \in [Requests -> {"none", "pending", "approved", "denied"}]
           /\ kicks' \in [Requests -> 0..MaxKicks] /\ approved' \subseteq Requests
<1> USE DEF TypeInv, URTypeOK
<1>0. MaxKicks \in Nat
  BY RequestConstants
<1>1. CASE UNCHANGED uvars
  BY <1>1 DEF uvars
<1>2. ASSUME NEW r \in Requests, NEW mode \in UserModes, NEW auto \in BOOLEAN,
             NEW chosen \in SUBSET Seasons, Submit(r, mode, chosen, auto)
      PROVE  /\ ureq' \in [Requests -> {"none", "pending", "approved", "denied"}]
             /\ kicks' \in [Requests -> 0..MaxKicks] /\ approved' \subseteq Requests
  BY <1>2 DEF Submit
<1>3. ASSUME NEW r \in Requests, Approve(r) \/ ApproveKick(r) \/ Deny(r)
      PROVE  /\ ureq' \in [Requests -> {"none", "pending", "approved", "denied"}]
             /\ kicks' \in [Requests -> 0..MaxKicks] /\ approved' \subseteq Requests
  BY <1>0, <1>3 DEF Approve, ApproveKick, Deny
<1> QED
  BY <1>1, <1>2, <1>3, Steps DEF AddDirectly, allVars

LEMMA TypeStep == TypeInv /\ [URNext]_allVars => TypeInv'
<1> SUFFICES ASSUME TypeInv, [URNext]_allVars PROVE TypeInv'
  OBVIOUS
<1>1. MonitorTypeOK' /\ PastTyped' /\ setup' \in Setups
  <2>1. CASE UNCHANGED vars
    BY <2>1 DEF TypeInv, URTypeOK, MonitorTypeOK, PastTyped, vars
  <2> QED
    BY <2>1, Steps, UserSteps, StartedTypes, CheckTypes, SyncTypes, AddTypes,
       ImportTypes, OtherTypes DEF allVars
<1> QED
  BY <1>1, RequestTypes DEF TypeInv, URTypeOK

LEMMA TypeInit == URInit => TypeInv
<1> SUFFICES ASSUME URInit PROVE TypeInv
  OBVIOUS
<1>1. setup \in Setups /\ setup.faults \in Nat /\ setup.removals \in Nat
  BY SetupFields DEF URInit, Init
<1>2. {MaxSeason, MaxDay, MaxKicks} \subseteq Nat /\ MaxSeason > 0
  BY MonitorConstants, RequestConstants
<1>3. NoRow \in Rows
  BY MonitorConstants DEF NoRow, Rows
<1> QED
  BY <1>1, <1>2, <1>3, IdleTyped DEF URInit, Init, TypeInv, URTypeOK, MonitorTypeOK, PastTyped

(* The tables, the threads and the requests hold values of their types     *)
(* (db.py, monitor.py, app.py).                                            *)
THEOREM TypeCorrect == URSpec => []URTypeOK
<1>1. TypeInv => URTypeOK
  BY DEF TypeInv
<1> QED
  BY <1>1, TypeInit, TypeStep, PTL DEF URSpec
-----------------------------------------------------------------------------
(* "found" is said of what had a file: the files and items of the moment   *)
(* are among those there have been.                                        *)
FoundInv == files \cup virtual \subseteq past.files /\ FoundHadFile

LEMMA FoundKept ==
    ASSUME FoundInv, PastTyped, UNCHANGED <<files, virtual, status, setup>>,
           past'.files = past.files
    PROVE  FoundInv'
BY DEF FoundInv, FoundHadFile

LEMMA FoundSearch ==
    ASSUME TypeInv, FoundInv, NEW e, SearchEpisode(e), UNCHANGED setup
    PROVE  FoundInv'
<1> USE DEF TypeInv, URTypeOK, MonitorTypeOK, PastTyped, FoundInv, FoundHadFile
<1>1. CASE LazyEpisode(e)
  <2>1. /\ files' \cup virtual' \subseteq past'.files /\ past.files \subseteq past'.files
        /\ files' # files => e \in past'.files
    BY <1>1 DEF LazyEpisode, LazyStrm, WriteStrm
  <2>2. \/ UNCHANGED status
        \/ status' = [status EXCEPT ![e] = IF @ = "none" \/ files' = files THEN @
                                          ELSE "found"]
    BY <1>1 DEF LazyEpisode
  <2> QED
    BY <2>1, <2>2
<1>2. CASE AddedEpisode(e)
  BY <1>2 DEF AddedEpisode, WriteStrm
<1> QED
  BY <1>1, <1>2 DEF SearchEpisode

LEMMA FoundMark ==
    ASSUME TypeInv, FoundInv, NEW e, NEW v, v = "found" => StrmExists(e),
           status' = [status EXCEPT ![e] = v],
           UNCHANGED <<files, virtual, past, setup>>
    PROVE  FoundInv'
BY DEF TypeInv, URTypeOK, MonitorTypeOK, FoundInv, FoundHadFile, StrmExists, FilesSeen

LEMMA FoundStep == TypeInv /\ FoundInv /\ [URNext]_allVars => FoundInv'
<1> SUFFICES ASSUME TypeInv, FoundInv, [URNext]_allVars PROVE FoundInv'
  OBVIOUS
<1>0. PastTyped
  BY DEF TypeInv
<1>1. CASE UNCHANGED vars
  BY <1>0, <1>1, FoundKept DEF vars
<1>2. CASE Started
  <2>1. UNCHANGED <<files, virtual, status, setup>> /\ past'.files = past.files
    BY <1>0, <1>2 DEF Started, Start, KickOff, Upsert, world, PastTyped
  <2> QED
    BY <1>0, <2>1, FoundKept
<1>3. ASSUME NEW c \in Checkers,
             CheckStart(c) \/ Resolve(c) \/ Detect(c) \/ ListWanted(c)
      PROVE  FoundInv'
  <2>1. UNCHANGED <<files, virtual, status, past, setup>>
    BY <1>3 DEF CheckStart, Resolve, Detect, ListWanted, world
  <2> QED
    BY <1>0, <2>1, FoundKept
<1>4. ASSUME NEW c \in Checkers, RetryCheck(c)
      PROVE  FoundInv'
  <2> DEFINE e == FirstOf(th[c].todo)
  <2>1. /\ UNCHANGED <<files, virtual, past, setup>>
        /\ \/ UNCHANGED status
           \/ status' = [status EXCEPT ![e] = "not_aired"]
           \/ StrmExists(e) /\ status' = [status EXCEPT ![e] = "found"]
    BY <1>4 DEF RetryCheck, world
  <2> HIDE DEF e
  <2> QED
    BY <1>0, <2>1, FoundKept, FoundMark
<1>5. ASSUME NEW c \in Checkers, RetrySearch(c)
      PROVE  FoundInv'
  <2>1. /\ UNCHANGED setup
        /\ \/ SearchEpisode(FirstOf(th[c].todo))
           \/ UNCHANGED <<files, virtual, status, past, setup>>
    BY <1>5 DEF RetrySearch
  <2> QED
    BY <1>0, <2>1, FoundKept, FoundSearch
<1>6. ASSUME NEW t \in Threads, FetchSeason(t) \/ SyncDone(t)
      PROVE  FoundInv'
  <2>1. UNCHANGED <<files, virtual, status, past, setup>>
    BY <1>6 DEF FetchSeason, SyncDone, world
  <2> QED
    BY <1>0, <2>1, FoundKept
<1>7. ASSUME NEW t \in Threads, SyncEpisode(t)
      PROVE  FoundInv'
  <2> DEFINE e == FirstOf(th[t].todo)
             v == SyncedStatus(e, th[t].synced)
  <2>1. /\ UNCHANGED <<files, virtual, past, setup>>
        /\ status' = status \/ status' = [status EXCEPT ![e] = v]
    BY <1>7 DEF SyncEpisode, world
  <2>2. v = "found" => StrmExists(e) \/ status[e] = "found"
    BY DEF SyncedStatus, UpsertedStatus
  <2> HIDE DEF v, e
  <2>3. CASE status' = [status EXCEPT ![e] = v]
    BY <2>1, <2>2, <2>3
       DEF TypeInv, URTypeOK, MonitorTypeOK, FoundInv, FoundHadFile, StrmExists, FilesSeen
  <2> QED
    BY <1>0, <2>1, <2>3, FoundKept
<1>8. ASSUME NEW a \in Adders, SyncSeerr(a) \/ AddSeries(a)
      PROVE  FoundInv'
  <2>1. UNCHANGED <<files, virtual, status, setup>> /\ past'.files = past.files
    BY <1>0, <1>8 DEF SyncSeerr, AddSeries, Upsert, world, PastTyped
  <2> QED
    BY <1>0, <2>1, FoundKept
<1>9. ASSUME NEW a \in Adders, ProcessSeason(a) \/ Register(a) \/ Processed(a)
      PROVE  FoundInv'
  <2>1. /\ UNCHANGED <<status, setup>> /\ past.files \subseteq past'.files
        /\ (files' \cup virtual') \ (files \cup virtual) \subseteq past'.files
    BY <1>9, ProcessShape
  <2> QED
    BY <2>1 DEF FoundInv, FoundHadFile
<1>10. ASSUME NEW i \in Importers, ImportRead(i) \/ ImportUpsert(i)
       PROVE  FoundInv'
  <2>1. UNCHANGED <<files, virtual, status, setup>> /\ past'.files = past.files
    BY <1>0, <1>10 DEF ImportRead, ImportUpsert, Upsert, world, PastTyped
  <2> QED
    BY <1>0, <2>1, FoundKept
<1>11. ASSUME NEW e \in Episodes, SearchNow(e)
       PROVE  FoundInv'
  BY <1>11, FoundSearch DEF SearchNow
<1>12. CASE Reconcile
  BY <1>12 DEF Reconcile, world, FoundInv, FoundHadFile
<1>13. CASE World
  <2>1. files' \cup virtual' \subseteq files \cup virtual /\ UNCHANGED <<status, past, setup>>
    BY <1>13 DEF World, NextDay, Announce, Release, Remove
  <2> QED
    BY <2>1 DEF FoundInv, FoundHadFile
<1>14. CASE Generate
  BY <1>0, <1>14 DEF Generate, PastTyped, FoundInv, FoundHadFile
<1> QED
  BY <1>1, <1>2, <1>3, <1>4, <1>5, <1>6, <1>7, <1>8, <1>9, <1>10, <1>11, <1>12,
     <1>13, <1>14, Steps, UserSteps DEF allVars

(* An episode is called found only when it has had a file or an item, or a *)
(* namesake's folder has its file, for any interleaving of checks, adders, *)
(* imports and removals, and any calls that fail (monitor.py).             *)
THEOREM FoundHasFile == URSpec => []FoundHadFile
<1>1. URInit => FoundInv
  BY DEF URInit, Init, FoundInv, FoundHadFile
<1>2. FoundInv => FoundHadFile
  BY DEF FoundInv
<1> QED
  BY <1>1, <1>2, TypeInit, TypeStep, FoundStep, PTL DEF URSpec
-----------------------------------------------------------------------------
(* Before an approval: the table is empty, checks find nothing to do, no   *)
(* approving thread is on its way and no import has looked.                *)
Unasked == approved = {} /\ ~past.other /\ setup.users # "single"
Quiet(t) == /\ th[t].pc \in {"idle", "list", "retry"}
            /\ th[t].todo = {}
NothingInv ==
    Unasked => /\ row = NoRow
               /\ \A t \in Threads : Quiet(t)
               /\ \A e \in Episodes : status[e] = "none"
               /\ \A r \in Requests : kicks[r] = 0
               /\ \A i \in Importers : im[i] = "idle"

LEMMA QuietStays ==
    ASSUME TypeInv, \A t \in Threads : Quiet(t), NEW c \in Threads, NEW s,
           s.pc \in {"idle", "list", "retry"}, s.todo = {},
           th' = [th EXCEPT ![c] = s]
    PROVE  \A t \in Threads : Quiet(t)'
BY DEF TypeInv, URTypeOK, MonitorTypeOK, Quiet

LEMMA UnaskedBefore ==
    ASSUME TypeInv, [URNext]_allVars, Unasked'
    PROVE  Unasked
<1>0. PastTyped
  BY DEF TypeInv
<1>1. approved \subseteq approved'
  BY Steps DEF allVars, uvars, Submit, AddDirectly, Approve, ApproveKick, Deny
<1>2. setup' = setup /\ (past.other => past'.other)
  <2>1. CASE UNCHANGED vars
    BY <2>1 DEF vars
  <2>2. CASE Started
    BY <1>0, <2>2 DEF Started, Start, KickOff, Upsert, world, PastTyped
  <2>3. ASSUME NEW c \in Checkers, CheckStart(c) \/ Resolve(c) \/ Detect(c)
                                   \/ ListWanted(c) \/ RetryCheck(c)
        PROVE  setup' = setup /\ past' = past
    BY <2>3 DEF CheckStart, Resolve, Detect, ListWanted, RetryCheck, world
  <2>4. ASSUME NEW e, SearchEpisode(e)
        PROVE  past.other => past'.other
    BY <1>0, <2>4 DEF SearchEpisode, LazyEpisode, AddedEpisode, LazyStrm, WriteStrm, PastTyped
  <2>5. ASSUME NEW c \in Checkers, RetrySearch(c)
        PROVE  setup' = setup /\ (past.other => past'.other)
    BY <2>4, <2>5 DEF RetrySearch
  <2>6. ASSUME NEW e \in Episodes, SearchNow(e)
        PROVE  setup' = setup /\ (past.other => past'.other)
    BY <2>4, <2>6 DEF SearchNow
  <2>7. ASSUME NEW t \in Threads, FetchSeason(t) \/ SyncEpisode(t) \/ SyncDone(t)
        PROVE  setup' = setup /\ past' = past
    BY <2>7 DEF FetchSeason, SyncEpisode, SyncDone, world
  <2>8. ASSUME NEW a \in Adders, \/ SyncSeerr(a) \/ ProcessSeason(a) \/ Register(a)
                                 \/ Processed(a) \/ AddSeries(a)
        PROVE  setup' = setup /\ (past.other => past'.other)
    BY <1>0, <2>8, ProcessShape DEF SyncSeerr, AddSeries, Upsert, world, PastTyped
  <2>9. ASSUME NEW i \in Importers, ImportRead(i) \/ ImportUpsert(i)
        PROVE  setup' = setup /\ (past.other => past'.other)
    BY <1>0, <2>9 DEF ImportRead, ImportUpsert, Upsert, world, PastTyped
  <2>10. CASE Reconcile \/ World \/ Generate
    BY <1>0, <2>10 DEF Reconcile, World, NextDay, Announce, Release, Remove, Generate,
       world, PastTyped
  <2> QED
    BY <2>1, <2>2, <2>3, <2>5, <2>6, <2>7, <2>8, <2>9, <2>10, Steps, UserSteps DEF allVars
<1> QED
  BY <1>1, <1>2 DEF Unasked

LEMMA NothingStep == TypeInv /\ NothingInv /\ [URNext]_allVars => NothingInv'
<1> SUFFICES ASSUME TypeInv, NothingInv, [URNext]_allVars, Unasked' PROVE NothingInv'
  BY DEF NothingInv
<1> USE UnaskedBefore
<1>0. /\ PastTyped /\ th \in [Threads -> ThreadStates] /\ setup \in Setups
      /\ status \in [Episodes -> {"none", "wanted", "not_aired", "found"}]
      /\ kicks \in [Requests -> 0..MaxKicks]
      /\ im \in [Importers -> {"idle", "missing", "known"}]
  BY DEF TypeInv, URTypeOK, MonitorTypeOK
<1>1. CASE UNCHANGED vars /\ UNCHANGED kicks /\ approved' = approved
  BY <1>1 DEF vars, NothingInv, Unasked, Quiet
<1>2. ASSUME NEW r \in Requests, NEW mode \in UserModes, NEW auto \in BOOLEAN,
             NEW chosen \in SUBSET Seasons, Submit(r, mode, chosen, auto)
      PROVE  NothingInv'
  <2>1. ~auto
    BY <1>2 DEF Submit, Unasked
  <2> QED
    BY <1>1, <1>2, <2>1 DEF Submit
<1>3. ASSUME NEW mode \in UserModes, AddDirectly(mode, {})
      PROVE  FALSE
  BY <1>3 DEF AddDirectly, Start, world, Unasked
<1>4. ASSUME NEW r \in Requests, Approve(r) \/ ApproveKick(r) \/ Deny(r)
      PROVE  NothingInv'
  <2>1. ~Approve(r)
    BY DEF Approve, Unasked
  <2>2. CASE ApproveKick(r)
    <3>1. approved' = approved /\ past'.other = past.other /\ setup' = setup
      BY <1>0, <2>2 DEF ApproveKick, Start, KickOff, Upsert, world, PastTyped
    <3>2. kicks[r] = 0
      BY <3>1 DEF NothingInv, Unasked
    <3> QED
      BY <1>0, <2>2, <3>2 DEF ApproveKick
  <2>3. CASE Deny(r)
    BY <1>1, <2>3 DEF Deny
  <2> QED
    BY <1>4, <2>1, <2>2, <2>3
<1>5. CASE UNCHANGED uvars
  <2> USE <1>5
  <2>0. /\ row = NoRow
        /\ \A t \in Threads : Quiet(t)
        /\ \A e \in Episodes : status[e] = "none"
        /\ \A r \in Requests : kicks'[r] = 0
        /\ \A i \in Importers : im[i] = "idle"
    BY DEF NothingInv, uvars
  <2>1. ASSUME NEW c \in Checkers, CheckStart(c) \/ Resolve(c) \/ Detect(c)
                                   \/ ListWanted(c) \/ RetryCheck(c) \/ RetrySearch(c)
        PROVE  NothingInv'
    <3>0. c \in Threads /\ Quiet(c)
      BY <2>0 DEF Threads
    <3>1. ~Resolve(c) /\ ~Detect(c) /\ ~RetrySearch(c)
      BY <3>0 DEF Quiet, Resolve, Detect, RetrySearch
    <3>2. CASE CheckStart(c)
      <4> DEFINE s == [IdleThread EXCEPT
                           !.pc = IF row.mode = "none" THEN "list" ELSE "resolve",
                           !.day = today, !.mode = row.mode, !.seasons = SeasonsOf(row),
                           !.tmdb = row.tmdb, !.since = row.since]
      <4>1. s.pc = "list" /\ s.todo = {} /\ th' = [th EXCEPT ![c] = s]
        BY <2>0, <3>2 DEF CheckStart, NoRow, IdleThread
      <4> HIDE DEF s
      <4>2. \A t \in Threads : Quiet(t)'
        BY <2>0, <3>0, <4>1, QuietStays DEF Quiet
      <4> QED
        BY <2>0, <3>2, <4>2 DEF CheckStart, NothingInv
    <3>3. CASE ListWanted(c)
      <4> DEFINE s == [IdleThread EXCEPT !.pc = "retry", !.day = th[c].day,
                                !.todo = {e \in Episodes : status[e] = "wanted"}]
      <4>1. s.pc = "retry" /\ s.todo = {}
        BY <2>0 DEF IdleThread
      <4>2. th' = [th EXCEPT ![c] = s]
        BY <3>3 DEF ListWanted
      <4> HIDE DEF s
      <4>3. \A t \in Threads : Quiet(t)'
        BY <2>0, <3>0, <4>1, <4>2, QuietStays DEF Quiet
      <4> QED
        BY <2>0, <3>3, <4>3 DEF ListWanted, NothingInv
    <3>4. CASE RetryCheck(c)
      <4>1. Finish(c) /\ UNCHANGED <<row, status, im>>
        BY <3>0, <3>4 DEF RetryCheck, Quiet
      <4>2. \A t \in Threads : Quiet(t)'
        BY <2>0, <3>0, <4>1, QuietStays DEF Finish, IdleThread, Quiet
      <4> QED
        BY <2>0, <4>1, <4>2 DEF NothingInv
    <3> QED
      BY <2>1, <3>1, <3>2, <3>3, <3>4
  <2>2. ASSUME NEW t \in Threads
        PROVE  ~FetchSeason(t) /\ ~SyncEpisode(t) /\ ~SyncDone(t)
    BY <2>0 DEF Quiet, FetchSeason, SyncEpisode, SyncDone
  <2>3. ASSUME NEW a \in Adders
        PROVE  /\ ~SyncSeerr(a) /\ ~ProcessSeason(a) /\ ~Register(a)
               /\ ~Processed(a) /\ ~AddSeries(a)
    <3>1. Quiet(a)
      BY <2>0 DEF Threads
    <3>2. ~SyncSeerr(a)
      BY <1>0 DEF SyncSeerr, Unasked, PastTyped
    <3> QED
      BY <3>1, <3>2 DEF Quiet, ProcessSeason, Register, Processed, AddSeries
  <2>4. ASSUME NEW i \in Importers
        PROVE  ~ImportRead(i) /\ ~ImportUpsert(i)
    BY <1>0, <2>0 DEF ImportRead, ImportUpsert, Unasked, PastTyped
  <2>5. ASSUME NEW e \in Episodes, SearchNow(e)
        PROVE  NothingInv'
    <3>1. \A d \in Episodes : status'[d] = "none"
      BY <1>0, <2>0, <2>5 DEF SearchNow, SearchEpisode, LazyEpisode, AddedEpisode
    <3>2. UNCHANGED <<row, th, im>>
      BY <2>5 DEF SearchNow
    <3> QED
      BY <2>0, <3>1, <3>2 DEF NothingInv, Quiet
  <2>6. ~Reconcile
    BY <1>0, <2>0 DEF Reconcile
  <2>7. CASE World \/ Generate
    <3>1. UNCHANGED <<row, status, th, im>>
      BY <2>7 DEF World, Generate
    <3> QED
      BY <2>0, <3>1 DEF NothingInv, Quiet
  <2> QED
    BY <1>1, <1>2, <1>3, <1>4, <2>1, <2>2, <2>3, <2>4, <2>5, <2>6, <2>7, Steps
       DEF allVars, uvars
<1> QED
  BY <1>1, <1>2, <1>3, <1>4, <1>5, Steps DEF allVars, uvars, vars

(* Where accounts are, and neither Seerr nor an import brings the series   *)
(* in, nothing starts before it is approved, whatever is submitted, denied *)
(* or searched meanwhile (app.py).                                         *)
THEOREM ApprovalComesFirst == URSpec => []NothingBeforeApproval
<1>1. URInit => NothingInv
  BY DEF URInit, Init, NothingInv, Quiet, IdleThread
<1>2. NothingInv => NothingBeforeApproval
  BY DEF NothingInv, NothingBeforeApproval, Unasked, Quiet
<1> QED
  BY <1>1, <1>2, TypeInit, TypeStep, NothingStep, PTL DEF URSpec
-----------------------------------------------------------------------------
(* What mode 'future' leaves alone.  While the series has never had        *)
(* another mode, who works with the row has its mode and its date, and     *)
(* lists hold only episodes that have a row already.                       *)
Future == past.modes \subseteq {"future"}
InRow(t) == th[t].pc \in {"resolve", "detect", "sync"} =>
                /\ row.mode = "future"
                /\ th[t].mode = "future" /\ th[t].since = row.since
Listed(t) == th[t].pc \in {"retry", "search"} =>
                \A e \in th[t].todo : status[e] # "none"
FutureInv ==
    Future =>
        /\ row.mode = "none" <=> past.modes = {}
        /\ row.mode \in {"none", "future"}
        /\ \A t \in Threads : InRow(t) /\ Listed(t)
        /\ \A e \in Episodes : status[e] # "none" =>
               row.mode = "future" /\ AirDay[e] >= row.since

LEMMA FutureBefore ==
    ASSUME TypeInv, [URNext]_allVars
    PROVE  past.modes \subseteq past'.modes
<1>0. PastTyped
  BY DEF TypeInv
<1>1. CASE UNCHANGED vars
  BY <1>1 DEF vars
<1>2. CASE Started
  BY <1>0, <1>2 DEF Started, Start, KickOff, Upsert, PastTyped
<1>3. ASSUME NEW c \in Checkers, CheckStart(c) \/ Resolve(c) \/ Detect(c)
                                 \/ ListWanted(c) \/ RetryCheck(c)
      PROVE  past' = past
  BY <1>3 DEF CheckStart, Resolve, Detect, ListWanted, RetryCheck
<1>4. ASSUME NEW e, SearchEpisode(e)
      PROVE  past'.modes = past.modes
  BY <1>0, <1>4 DEF SearchEpisode, LazyEpisode, AddedEpisode, LazyStrm, WriteStrm, PastTyped
<1>5. ASSUME NEW c \in Checkers, RetrySearch(c)
      PROVE  past'.modes = past.modes
  BY <1>4, <1>5 DEF RetrySearch
<1>6. ASSUME NEW e \in Episodes, SearchNow(e)
      PROVE  past'.modes = past.modes
  BY <1>4, <1>6 DEF SearchNow
<1>7. ASSUME NEW t \in Threads, FetchSeason(t) \/ SyncEpisode(t) \/ SyncDone(t)
      PROVE  past' = past
  BY <1>7 DEF FetchSeason, SyncEpisode, SyncDone
<1>8. ASSUME NEW a \in Adders, \/ SyncSeerr(a) \/ ProcessSeason(a) \/ Register(a)
                                \/ Processed(a) \/ AddSeries(a)
      PROVE  past.modes \subseteq past'.modes
  BY <1>0, <1>8, ProcessShape DEF SyncSeerr, AddSeries, Upsert, PastTyped
<1>9. ASSUME NEW i \in Importers, ImportRead(i) \/ ImportUpsert(i)
      PROVE  past.modes \subseteq past'.modes
  BY <1>0, <1>9 DEF ImportRead, ImportUpsert, Upsert, PastTyped
<1>10. CASE Reconcile \/ World \/ Generate
  BY <1>0, <1>10 DEF Reconcile, World, Generate, PastTyped
<1> QED
  BY <1>1, <1>2, <1>3, <1>5, <1>6, <1>7, <1>8, <1>9, <1>10, Steps, UserSteps DEF allVars

LEMMA FutureKept ==
    ASSUME TypeInv, FutureInv, Future, NEW c \in Threads, NEW s,
           th' = [th EXCEPT ![c] = s],
           row'.mode = row.mode, row'.since = row.since, past'.modes = past.modes,
           \A e \in Episodes :
               \/ status'[e] = status[e]
               \/ /\ status'[e] # "none"
                  /\ row.mode = "future" /\ AirDay[e] >= row.since,
           s.pc \in {"resolve", "detect", "sync"} =>
               row.mode = "future" /\ s.mode = "future" /\ s.since = row.since,
           s.pc \in {"retry", "search"} =>
               \A e \in s.todo : e \in Episodes /\ status[e] # "none"
    PROVE  FutureInv'
<1>0. th \in [Threads -> ThreadStates] /\ \A t \in Threads : th[t].todo \subseteq Episodes
  BY DEF TypeInv, URTypeOK, MonitorTypeOK, ThreadStates
<1>1. \A e \in Episodes : status[e] # "none" => status'[e] # "none"
  OBVIOUS
<1>2. ASSUME NEW t \in Threads
      PROVE  InRow(t)' /\ Listed(t)'
  <2>1. CASE t = c
    BY <1>0, <1>1, <2>1 DEF InRow, Listed
  <2>2. CASE t # c
    <3>1. th'[t] = th[t]
      BY <1>0, <2>2
    <3>2. InRow(t) /\ Listed(t)
      BY DEF FutureInv
    <3> QED
      BY <1>0, <1>1, <3>1, <3>2 DEF InRow, Listed
  <2> QED
    BY <2>1, <2>2
<1> QED
  BY <1>2 DEF FutureInv, Future, InRow, Listed

LEMMA FutureSame ==
    ASSUME FutureInv, Future, UNCHANGED <<row, th>>, past'.modes = past.modes,
           \A e \in Episodes : status'[e] = status[e]
                               \/ (status[e] # "none" /\ status'[e] # "none"),
           TypeInv
    PROVE  FutureInv'
<1>0. \A t \in Threads : th[t].todo \subseteq Episodes
  BY DEF TypeInv, URTypeOK, MonitorTypeOK, ThreadStates
<1> QED
  BY <1>0 DEF FutureInv, Future, InRow, Listed

LEMMA FutureSearch ==
    ASSUME TypeInv, NEW e, SearchEpisode(e)
    PROVE  /\ past'.modes = past.modes
           /\ \A d \in Episodes : status'[d] = status[d]
                                  \/ (status[d] # "none" /\ status'[d] # "none")
<1>0. PastTyped /\ status \in [Episodes -> {"none", "wanted", "not_aired", "found"}]
  BY DEF TypeInv, URTypeOK, MonitorTypeOK
<1>1. \/ UNCHANGED status
      \/ status' = [status EXCEPT ![e] = IF @ = "none" \/ files' = files THEN @
                                        ELSE "found"]
  BY DEF SearchEpisode, LazyEpisode, AddedEpisode
<1>2. past'.modes = past.modes
  BY <1>0 DEF SearchEpisode, LazyEpisode, AddedEpisode, LazyStrm, WriteStrm, PastTyped
<1>3. ASSUME NEW d \in Episodes
      PROVE  status'[d] = status[d] \/ (status[d] # "none" /\ status'[d] # "none")
  BY <1>0, <1>1
<1> QED
  BY <1>2, <1>3

LEMMA FutureStep == TypeInv /\ FutureInv /\ [URNext]_allVars => FutureInv'
<1> SUFFICES ASSUME TypeInv, FutureInv, [URNext]_allVars, Future' PROVE FutureInv'
  BY DEF FutureInv
<1>0. /\ Future /\ PastTyped /\ th \in [Threads -> ThreadStates] /\ row \in Rows
      /\ status \in [Episodes -> {"none", "wanted", "not_aired", "found"}]
  BY FutureBefore DEF TypeInv, URTypeOK, MonitorTypeOK, Future
<1>t. \A t \in Threads : InRow(t) /\ Listed(t) /\ th[t].todo \in SUBSET Episodes
  BY <1>0 DEF FutureInv, ThreadStates
<1>u. \A mode \in Modes : \A seasons, tmdb : Upsert(mode, seasons, tmdb) => mode = "future"
  BY <1>0 DEF Upsert, Future, PastTyped
<1>1. CASE UNCHANGED vars
  <2>1. UNCHANGED <<row, th, past, status>>
    BY <1>1 DEF vars
  <2> QED
    BY <1>0, <2>1, FutureSame
<1>2. CASE Started
  <2>1. PICK mode \in Modes, chosen \in SUBSET Seasons : Start(mode, chosen)
    BY <1>2 DEF Started
  <2>2. PICK a \in Adders : KickOff(a, mode, chosen)
    BY <2>1 DEF Start
  <2>3. PICK seasons \in SUBSET Seasons :
            /\ Upsert(mode, seasons, TRUE) \/ UNCHANGED <<row, past>>
            /\ \/ UNCHANGED th
               \/ mode # "future" /\ th' = [th EXCEPT ![a] = Begun(seasons)]
    BY <2>2, KickOffShape
  <2>4. UNCHANGED status
    BY <2>1 DEF Start
  <2>5. CASE Upsert(mode, seasons, TRUE)
    <3>1. /\ mode = "future" /\ UNCHANGED th
          /\ row'.mode = "future" /\ past'.modes = past.modes \cup {"future"}
          /\ row.mode = "future" => row'.since = row.since
      BY <1>0, <1>u, <2>3, <2>5 DEF Upsert, PastTyped
    <3> QED
      BY <1>0, <1>t, <2>4, <3>1 DEF FutureInv, Future, InRow, Listed
  <2>6. CASE UNCHANGED <<row, past>> /\ UNCHANGED th
    BY <1>0, <2>4, <2>6, FutureSame
  <2>7. CASE UNCHANGED <<row, past>> /\ th' = [th EXCEPT ![a] = Begun(seasons)]
    <3>1. a \in Threads /\ Begun(seasons).pc = "process"
      BY DEF Threads, Begun, IdleThread
    <3> QED
      BY <1>0, <2>4, <2>7, <3>1, FutureKept
  <2> QED
    BY <2>3, <2>5, <2>6, <2>7
<1>3. ASSUME NEW c \in Checkers, CheckStart(c)
      PROVE  FutureInv'
  <2> DEFINE s == [IdleThread EXCEPT
                       !.pc = IF row.mode = "none" THEN "list" ELSE "resolve",
                       !.day = today, !.mode = row.mode, !.seasons = SeasonsOf(row),
                       !.tmdb = row.tmdb, !.since = row.since]
  <2>1. /\ s.pc \in {"list", "resolve"} /\ s.since = row.since /\ s.mode = row.mode
        /\ s.pc = "resolve" => row.mode = "future"
    BY <1>0 DEF FutureInv, IdleThread
  <2>2. th' = [th EXCEPT ![c] = s] /\ UNCHANGED <<row, status, past>> /\ c \in Threads
    BY <1>3 DEF CheckStart, Threads
  <2> HIDE DEF s
  <2> QED
    BY <1>0, <2>1, <2>2, FutureKept
<1>4. ASSUME NEW c \in Checkers, Resolve(c) \/ Detect(c)
      PROVE  FutureInv'
  <2>0. c \in Threads /\ InRow(c)
    BY <1>t DEF Threads
  <2>1. row.mode = "future" /\ th[c].mode = "future" /\ th[c].since = row.since
    BY <1>4, <2>0 DEF Resolve, Detect, InRow
  <2>2. \E s : /\ th' = [th EXCEPT ![c] = s] /\ s.pc \in {"list", "detect", "sync"}
               /\ s.mode = th[c].mode /\ s.since = th[c].since
    <3>1. CASE \E pc \in {"list", "detect", "sync"} : Goto(c, pc)
      <4>1. PICK pc \in {"list", "detect", "sync"} : Goto(c, pc)
        BY <3>1
      <4>2. th' = [th EXCEPT ![c] = [th[c] EXCEPT !.pc = pc]]
        BY <1>0, <2>0, <4>1 DEF Goto
      <4>3. /\ [th[c] EXCEPT !.pc = pc].pc = pc
            /\ [th[c] EXCEPT !.pc = pc].mode = th[c].mode
            /\ [th[c] EXCEPT !.pc = pc].since = th[c].since
        BY <1>0, <2>0 DEF ThreadStates
      <4> QED
        BY <4>1, <4>2, <4>3
    <3>2. CASE ~\E pc \in {"list", "detect", "sync"} : Goto(c, pc)
      <4>0. Detect(c)
        BY <1>4, <3>2 DEF Resolve
      <4>1. PICK seasons : ToSync(c, seasons)
        BY <4>0 DEF Detect
      <4> DEFINE s == [th[c] EXCEPT !.pc = "sync", !.seasons = seasons, !.synced = today]
      <4>2. s.pc = "sync" /\ s.mode = th[c].mode /\ s.since = th[c].since
        BY <1>0, <2>0 DEF ThreadStates
      <4>3. th' = [th EXCEPT ![c] = s]
        BY <1>0, <2>0, <4>1 DEF ToSync
      <4> HIDE DEF s
      <4> QED
        BY <4>2, <4>3
    <3> QED
      BY <3>1, <3>2
  <2>3. row'.mode = row.mode /\ row'.since = row.since
    <3>1. \/ row' = row \/ row' = [row EXCEPT !.tmdb = TRUE]
          \/ \E all : row' = [row EXCEPT !.seasons = all]
      BY <1>4 DEF Resolve, Detect
    <3> QED
      BY <1>0, <3>1 DEF Rows
  <2>4. UNCHANGED <<status, past>>
    BY <1>4 DEF Resolve, Detect
  <2> QED
    BY <1>0, <2>0, <2>1, <2>2, <2>3, <2>4, FutureKept
<1>5. ASSUME NEW c \in Checkers, ListWanted(c)
      PROVE  FutureInv'
  <2> DEFINE s == [IdleThread EXCEPT !.pc = "retry", !.day = th[c].day,
                            !.todo = {e \in Episodes : status[e] = "wanted"}]
  <2>1. s.pc = "retry" /\ \A e \in s.todo : e \in Episodes /\ status[e] # "none"
    BY DEF IdleThread
  <2>2. th' = [th EXCEPT ![c] = s] /\ UNCHANGED <<row, status, past>> /\ c \in Threads
    BY <1>5 DEF ListWanted, Threads
  <2> HIDE DEF s
  <2> QED
    BY <1>0, <2>1, <2>2, FutureKept
<1>6. ASSUME NEW c \in Checkers, RetryCheck(c)
      PROVE  FutureInv'
  <2>0. c \in Threads /\ Listed(c) /\ th[c].todo \in SUBSET Episodes
    BY <1>t DEF Threads
  <2>1. th[c].pc = "retry" /\ UNCHANGED <<row, past>>
    BY <1>6 DEF RetryCheck
  <2> DEFINE e == FirstOf(th[c].todo)
  <2>2. CASE th' = [th EXCEPT ![c] = IdleThread] /\ UNCHANGED status
    <3>1. IdleThread.pc = "idle"
      BY DEF IdleThread
    <3> QED
      BY <1>0, <2>0, <2>1, <2>2, <3>1, FutureKept
  <2>3. CASE th' = [th EXCEPT ![c].pc = "search"] /\ UNCHANGED status
    <3> DEFINE s == [th[c] EXCEPT !.pc = "search"]
    <3>1. s.pc = "search" /\ s.todo = th[c].todo
      BY <1>0, <2>0 DEF ThreadStates
    <3>2. \A d \in s.todo : d \in Episodes /\ status[d] # "none"
      BY <2>0, <2>1, <3>1 DEF Listed
    <3>3. th' = [th EXCEPT ![c] = s]
      BY <1>0, <2>0, <2>3
    <3> HIDE DEF s
    <3> QED
      BY <1>0, <2>0, <2>1, <2>3, <3>1, <3>2, <3>3, FutureKept
  <2>4. ASSUME NEW v \in {"not_aired", "found"}, th[c].todo # {},
               status' = [status EXCEPT ![e] = v],
               th' = [th EXCEPT ![c].todo = @ \ {e}]
        PROVE  FutureInv'
    <3> DEFINE s == [th[c] EXCEPT !.todo = @ \ {e}]
    <3>0. e \in th[c].todo /\ e \in Episodes
      BY <2>0, <2>4, FirstIsThere
    <3>1. s.pc = "retry" /\ s.todo \subseteq th[c].todo
      BY <1>0, <2>0, <2>1 DEF ThreadStates
    <3>2. \A d \in s.todo : d \in Episodes /\ status[d] # "none"
      BY <2>0, <2>1, <3>1 DEF Listed
    <3>3. th' = [th EXCEPT ![c] = s]
      BY <1>0, <2>0, <2>4
    <3>4. status[e] # "none" /\ row.mode = "future" /\ AirDay[e] >= row.since
      BY <1>0, <2>0, <2>1, <3>0 DEF Listed, FutureInv
    <3> HIDE DEF s, e
    <3>5. \A d \in Episodes : \/ status'[d] = status[d]
                              \/ /\ status'[d] # "none"
                                 /\ row.mode = "future" /\ AirDay[d] >= row.since
      BY <1>0, <2>4, <3>0, <3>4
    <3> QED
      BY <1>0, <2>0, <2>1, <3>1, <3>2, <3>3, <3>5, FutureKept
  <2> QED
    BY <1>6, <2>2, <2>3, <2>4 DEF RetryCheck, Goto, Finish
<1>7. ASSUME NEW c \in Checkers, RetrySearch(c)
      PROVE  FutureInv'
  <2>0. c \in Threads /\ Listed(c) /\ th[c].todo \in SUBSET Episodes
    BY <1>t DEF Threads
  <2>1. th[c].pc = "search" /\ UNCHANGED row
    BY <1>7 DEF RetrySearch
  <2> DEFINE e == FirstOf(th[c].todo)
             s == [th[c] EXCEPT !.pc = "retry", !.todo = @ \ {e}]
  <2>2. CASE th' = [th EXCEPT ![c] = IdleThread] /\ UNCHANGED <<status, past>>
    <3>1. IdleThread.pc = "idle"
      BY DEF IdleThread
    <3> QED
      BY <1>0, <2>0, <2>1, <2>2, <3>1, FutureKept
  <2>3. CASE /\ SearchEpisode(e)
             /\ th' = [th EXCEPT ![c].pc = "retry", ![c].todo = @ \ {e}]
    <3>1. s.pc = "retry" /\ s.todo \subseteq th[c].todo
      BY <1>0, <2>0 DEF ThreadStates
    <3>2. \A d \in s.todo : d \in Episodes /\ status[d] # "none"
      BY <2>0, <2>1, <3>1 DEF Listed
    <3>3. th' = [th EXCEPT ![c] = s]
      BY <1>0, <2>0, <2>3
    <3>4. /\ past'.modes = past.modes
          /\ \A d \in Episodes : status'[d] = status[d]
                                 \/ (status[d] # "none" /\ status'[d] # "none")
      BY <2>3, FutureSearch
    <3> HIDE DEF s, e
    <3>5. \A d \in Episodes : \/ status'[d] = status[d]
                              \/ /\ status'[d] # "none"
                                 /\ row.mode = "future" /\ AirDay[d] >= row.since
      BY <1>0, <3>4 DEF FutureInv
    <3> QED
      BY <1>0, <2>0, <2>1, <3>1, <3>2, <3>3, <3>4, <3>5, FutureKept
  <2> QED
    BY <1>7, <2>2, <2>3 DEF RetrySearch, Finish
<1>8. ASSUME NEW e \in Episodes, SearchNow(e)
      PROVE  FutureInv'
  <2>1. SearchEpisode(e) /\ UNCHANGED <<row, th>>
    BY <1>8 DEF SearchNow
  <2> QED
    BY <1>0, <2>1, FutureSearch, FutureSame
<1>9. ASSUME NEW t \in Threads, FetchSeason(t) \/ SyncDone(t)
      PROVE  FutureInv'
  <2>1. th[t].pc = "sync" /\ UNCHANGED <<row, status, past>>
    BY <1>9 DEF FetchSeason, SyncDone
  <2>2. row.mode = "future" /\ th[t].mode = "future" /\ th[t].since = row.since
    BY <1>t, <2>1 DEF InRow
  <2>3. PICK s : /\ th' = [th EXCEPT ![t] = s]
                 /\ \/ s.pc = "idle" \/ s.pc = "list"
                    \/ s.pc = "sync" /\ s.mode = th[t].mode /\ s.since = th[t].since
    <3>1. CASE FetchSeason(t)
      <4>1. PICK seasons, todo :
              th' = [th EXCEPT ![t] = [th[t] EXCEPT !.seasons = seasons, !.todo = todo]]
        <5>1. \/ \E n, eps : th' = [th EXCEPT ![t].seasons = @ \ {n}, ![t].todo = eps]
              \/ \E n : th' = [th EXCEPT ![t].seasons = @ \ {n}]
          BY <3>1 DEF FetchSeason
        <5>2. CASE \E n, eps : th' = [th EXCEPT ![t].seasons = @ \ {n}, ![t].todo = eps]
          <6>1. PICK n, eps : th' = [th EXCEPT ![t].seasons = @ \ {n}, ![t].todo = eps]
            BY <5>2
          <6>2. th' = [th EXCEPT ![t] = [th[t] EXCEPT !.seasons = th[t].seasons \ {n},
                                                      !.todo = eps]]
            BY <1>0, <6>1
          <6> QED
            BY <6>2
        <5>3. CASE \E n : th' = [th EXCEPT ![t].seasons = @ \ {n}]
          <6>1. PICK n : th' = [th EXCEPT ![t].seasons = @ \ {n}]
            BY <5>3
          <6>2. th' = [th EXCEPT ![t] = [th[t] EXCEPT !.seasons = th[t].seasons \ {n},
                                                      !.todo = th[t].todo]]
            BY <1>0, <6>1 DEF ThreadStates
          <6> QED
            BY <6>2
        <5> QED
          BY <5>1, <5>2, <5>3
      <4> DEFINE s == [th[t] EXCEPT !.seasons = seasons, !.todo = todo]
      <4>2. s.pc = "sync" /\ s.mode = th[t].mode /\ s.since = th[t].since
        BY <1>0, <2>1 DEF ThreadStates
      <4> HIDE DEF s
      <4> QED
        BY <4>1, <4>2 DEF s
    <3>2. CASE SyncDone(t) /\ t \in Checkers
      <4> DEFINE s == [th[t] EXCEPT !.pc = "list"]
      <4>1. th' = [th EXCEPT ![t] = s] /\ s.pc = "list"
        BY <1>0, <3>2 DEF SyncDone, Goto, ThreadStates
      <4> HIDE DEF s
      <4> QED
        BY <4>1
    <3>3. CASE SyncDone(t) /\ t \notin Checkers
      <4>1. th' = [th EXCEPT ![t] = IdleThread] /\ IdleThread.pc = "idle"
        BY <3>3 DEF SyncDone, Finish, IdleThread
      <4> QED
        BY <4>1
    <3> QED
      BY <1>9, <3>1, <3>2, <3>3
  <2> QED
    BY <1>0, <2>1, <2>2, <2>3, FutureKept
<1>10. ASSUME NEW t \in Threads, SyncEpisode(t)
       PROVE  FutureInv'
  <2> DEFINE e == FirstOf(th[t].todo)
             s == [th[t] EXCEPT !.todo = @ \ {e}]
  <2>1. th[t].pc = "sync" /\ UNCHANGED <<row, past>>
    BY <1>10 DEF SyncEpisode
  <2>2. row.mode = "future" /\ th[t].mode = "future" /\ th[t].since = row.since
    BY <1>t, <2>1 DEF InRow
  <2>3. th' = [th EXCEPT ![t].todo = @ \ {e}]
    BY <1>10 DEF SyncEpisode
  <2>4. th' = [th EXCEPT ![t] = s]
    BY <1>0, <2>3
  <2>5. s.pc = "sync" /\ s.mode = "future" /\ s.since = row.since
    BY <1>0, <2>1, <2>2 DEF ThreadStates
  <2>6. status' = IF Skipped(e, th[t].mode, th[t].since) THEN status
                  ELSE [status EXCEPT ![e] = SyncedStatus(e, th[t].synced)]
    BY <1>10 DEF SyncEpisode
  <2>7. e \in Episodes
    BY <1>10, <1>t, FirstIsThere DEF SyncEpisode
  <2>8. AirDay[e] \in Nat /\ row.since \in Nat
    BY <1>0, <2>7, MonitorConstants DEF Rows
  <2>9. SyncedStatus(e, th[t].synced) # "none"
    BY DEF SyncedStatus, UpsertedStatus
  <2> HIDE DEF s, e
  <2>10. \A d \in Episodes : \/ status'[d] = status[d]
                             \/ /\ status'[d] # "none"
                                /\ row.mode = "future" /\ AirDay[d] >= row.since
    <3>1. ~Skipped(e, th[t].mode, th[t].since) => AirDay[e] >= row.since
      BY <2>2, <2>8 DEF Skipped
    <3> DEFINE v == SyncedStatus(e, th[t].synced)
    <3> HIDE DEF v
    <3>2. v # "none"
      BY <2>9 DEF v
    <3>3. \/ status' = status
          \/ status' = [status EXCEPT ![e] = v] /\ AirDay[e] >= row.since
      BY <2>6, <3>1 DEF v
    <3> QED
      BY <1>0, <2>2, <2>7, <3>2, <3>3
  <2>11. /\ s.pc \notin {"retry", "search"} /\ past'.modes = past.modes
         /\ row'.mode = row.mode /\ row'.since = row.since
    BY <2>1, <2>5
  <2> QED
    BY <1>0, <2>2, <2>4, <2>5, <2>10, <2>11, FutureKept
<1>11. ASSUME NEW a \in Adders, SyncSeerr(a)
       PROVE  FutureInv'
  <2> DEFINE s == [IdleThread EXCEPT !.pc = "add", !.seasons = setup.seerr]
  <2>1. s.pc = "add" /\ a \in Threads
    BY DEF IdleThread, Threads
  <2>2. th' = [th EXCEPT ![a] = s] /\ UNCHANGED <<row, status>>
    BY <1>11 DEF SyncSeerr
  <2>3. past'.modes = past.modes
    BY <1>0, <1>11 DEF SyncSeerr, PastTyped
  <2> HIDE DEF s
  <2> QED
    BY <1>0, <2>1, <2>2, <2>3, FutureKept
<1>12. ASSUME NEW a \in Adders, ProcessSeason(a) \/ Register(a) \/ Processed(a)
       PROVE  FutureInv'
  <2>1. /\ a \in Threads /\ UNCHANGED <<row, status>> /\ past'.modes = past.modes
        /\ \E s \in ThreadStates : /\ s.pc \in {"process", "add", "idle"}
                                    /\ th' = [th EXCEPT ![a] = s]
    BY <1>12, ProcessShape
  <2> QED
    BY <1>0, <2>1, FutureKept
<1>13. ASSUME NEW a \in Adders, AddSeries(a)
       PROVE  FutureInv'
  <2>1. \E tmdb : Upsert("all", th[a].seasons, tmdb)
    BY <1>13 DEF AddSeries
  <2> QED
    BY <1>u, <2>1 DEF Modes
<1>14. ASSUME NEW i \in Importers, ImportRead(i) \/ ImportUpsert(i)
       PROVE  FutureInv'
  <2>1. CASE ImportRead(i) \/ UNCHANGED <<row, past>>
    <3>1. UNCHANGED <<row, th, status>>
      BY <1>14, <2>1 DEF ImportRead, ImportUpsert
    <3>2. past'.modes = past.modes
      BY <1>0, <2>1 DEF ImportRead, PastTyped
    <3> QED
      BY <1>0, <3>1, <3>2, FutureSame
  <2>2. CASE ImportUpsert(i) /\ Upsert("all", 1..announced, TRUE)
    BY <1>u, <2>2 DEF Modes
  <2> QED
    BY <1>14, <2>1, <2>2 DEF ImportUpsert
<1>15. CASE Reconcile \/ World \/ Generate
  <2>1. UNCHANGED <<row, th>>
    BY <1>15 DEF Reconcile, World, Generate
  <2>2. past'.modes = past.modes
    BY <1>0, <1>15 DEF Reconcile, World, Generate, PastTyped
  <2>3. \A e \in Episodes : status'[e] = status[e]
                            \/ (status[e] # "none" /\ status'[e] # "none")
    BY <1>15 DEF Reconcile, World, Generate
  <2> QED
    BY <1>0, <2>1, <2>2, <2>3, FutureSame
<1> QED
  BY <1>1, <1>2, <1>3, <1>4, <1>5, <1>6, <1>7, <1>8, <1>9, <1>10, <1>11, <1>12,
     <1>13, <1>14, <1>15, Steps, UserSteps DEF allVars

LEMMA FutureInit == URInit => FutureInv
  BY DEF URInit, Init, FutureInv, Future, InRow, Listed, IdleThread, NoRow

(* Mode 'future' is about the future only: a series never monitored in     *)
(* another mode has wanted rows only of episodes that air on or after the  *)
(* day it was added, although every check works with the mode and the date *)
(* it read at its start (monitor.py, _sync_wanted and run_series_check).   *)
THEOREM FutureIsFuture == URSpec => []FutureSkipsBackCatalog
<1>1. FutureInv => FutureSkipsBackCatalog
  BY DEF FutureInv, Future, FutureSkipsBackCatalog
<1> QED
  BY <1>1, TypeInit, TypeStep, FutureInit, FutureStep, PTL DEF URSpec
=============================================================================
