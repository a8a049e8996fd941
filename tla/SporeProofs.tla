---------------------------- MODULE SporeProofs ----------------------------
(***************************************************************************)
(* Theorems about SporeStubs, and so about the bridge it is composed with, *)
(* for every number of threads, descriptors, transcoders and titles, every *)
(* release that LayoutsTyped describes, and every mixture of operations    *)
(* and events a Setup allows.                                              *)
(***************************************************************************)
EXTENDS SporeStubs, SequenceTheorems, FiniteSetTheorems, WellFoundedInduction, TLAPS

(***************************************************************************)
(* Lemmas about the operators                                              *)
(***************************************************************************)

(* A finite set of numbers that is not empty has its Min in it.            *)
LEMMA MinOfPair ==
    ASSUME NEW a \in Int, NEW b \in Int
    PROVE  /\ Min({a, b}) \in {a, b} /\ Min({a, b}) \in Int
           /\ Min({a, b}) <= a /\ Min({a, b}) <= b
<1> DEFINE Low(m) == m \in {a, b} /\ \A y \in {a, b} : m <= y
<1>1. \E m : Low(m)
  <2>1. CASE a <= b
    BY <2>1
  <2>2. CASE b <= a
    BY <2>2
  <2> QED
    BY <2>1, <2>2
<1>2. Min({a, b}) = CHOOSE m : Low(m)
  BY DEF Min
<1>3. Low(Min({a, b}))
  <2> HIDE DEF Low
  <2> QED
    BY <1>1, <1>2
<1> QED
  BY <1>3

LEMMA MaxOfPair ==
    ASSUME NEW a \in Int, NEW b \in Int
    PROVE  /\ Max({a, b}) \in {a, b} /\ Max({a, b}) \in Int
           /\ Max({a, b}) >= a /\ Max({a, b}) >= b
<1> DEFINE High(m) == m \in {a, b} /\ \A y \in {a, b} : m >= y
<1>1. \E m : High(m)
  <2>1. CASE a <= b
    BY <2>1
  <2>2. CASE b <= a
    BY <2>2
  <2> QED
    BY <2>1, <2>2
<1>2. Max({a, b}) = CHOOSE m : High(m)
  BY DEF Max
<1>3. High(Max({a, b}))
  <2> HIDE DEF High
  <2> QED
    BY <1>1, <1>2
<1> QED
  BY <1>3

(* The lowest free descriptor is a free one.                               *)
LEMMA LowestIsFree ==
    ASSUME NEW n \in Nat, NEW S \in SUBSET (1 .. n), S # {}
    PROVE  Min(S) \in S
<1>1. IsFiniteSet(S) /\ \A T \in SUBSET S : IsFiniteSet(T)
  <2>1. IsFiniteSet(1 .. n)
    BY FS_Interval
  <2> QED
    BY <2>1, FS_Subset
<1> DEFINE UpTo(e) == {d \in S : d < e}
           F == {UpTo(e) : e \in S}
<1>2. F \subseteq FiniteSubsetsOf(S) /\ F # {}
  BY <1>1 DEF FiniteSubsetsOf
<1>3. IsWellFoundedOn(StrictSubsetOrdering(S), FiniteSubsetsOf(S))
  BY FS_StrictSubsetOrderingWellFounded
<1> HIDE DEF F
<1>4. PICK U \in F : \A V \in F : <<V, U>> \notin StrictSubsetOrdering(S)
  BY <1>2, <1>3, WFMin
<1>5. PICK e \in S : U = UpTo(e)
  BY DEF F
<1>6. ASSUME NEW d \in S, ~(e <= d)
      PROVE  FALSE
  <2>1. d < e
    BY <1>6
  <2>2. UpTo(d) \subseteq UpTo(e) /\ d \in UpTo(e) /\ d \notin UpTo(d)
    <3>1. \A x \in S : x \in Int
      OBVIOUS
    <3>2. \A x \in S : x < d => x < e
      BY <2>1, <3>1
    <3>3. ~(d < d)
      BY <3>1
    <3> QED
      BY <2>1, <3>2, <3>3
  <2>3. UpTo(d) \in F /\ UpTo(d) \subseteq S /\ U \subseteq S
    BY <1>5 DEF F
  <2>4. <<UpTo(d), U>> \in StrictSubsetOrdering(S)
    BY <1>5, <2>2, <2>3 DEF StrictSubsetOrdering
  <2> QED
    BY <1>4, <2>3, <2>4
<1> DEFINE Low(m) == m \in S /\ \A y \in S : m <= y
<1>7. Low(e)
  BY <1>6
<1>8. Min(S) = CHOOSE m : Low(m)
  BY DEF Min
<1>9. Low(Min(S))
  <2> HIDE DEF Low
  <2> QED
    BY <1>7, <1>8
<1> QED
  BY <1>9

(* What a range of a file is answered with is a sequence of bytes.         *)
Bytes == Int \X Int

LEMMA FetchIsBytes ==
    ASSUME NEW size \in Int, NEW first \in Int, NEW last \in Int
    PROVE  Fetch(size, first, last) \in Seq(Int)
<1> DEFINE m == Max({0, Min({last, size - 1}) - first + 1})
<1>1. m \in Nat
  <2>1. Min({last, size - 1}) \in Int
    <3>1. size - 1 \in Int
      OBVIOUS
    <3> QED
      BY <3>1, MinOfPair
  <2> DEFINE k == Min({last, size - 1}) - first + 1
  <2>2. k \in Int
    BY <2>1
  <2> HIDE DEF k
  <2>3. Max({0, k}) \in Int /\ Max({0, k}) >= 0
    <3>1. 0 \in Int
      OBVIOUS
    <3> QED
      BY <2>2, <3>1, MaxOfPair
  <2> QED
    BY <2>2, <2>3 DEF k
<1> HIDE DEF m
<1>2. [i \in 1 .. m |-> first + i - 1] \in Seq(Int)
  BY <1>1, IsASeq
<1> QED
  BY <1>2 DEF Fetch, m

LEMMA RangeIsBytes ==
    ASSUME NEW info \in [ftyp: Nat, moov: Nat, at: Nat, size: Nat, header: Seq(Nat)],
           NEW size \in Int, NEW first \in Nat, NEW last \in Int
    PROVE  ServeBytes(info, size, first, last) \in Seq(Int)
<1> DEFINE hdr   == Len(info.header)
           mdat2 == info.at + info.moov
           p1    == IF first < hdr THEN Min({last, hdr - 1}) + 1 ELSE first
           two   == p1 <= last /\ p1 < mdat2
           p2    == IF two THEN Min({last, mdat2 - 1}) + 1 ELSE p1
           a     == IF first < hdr THEN SubSeq(info.header, first + 1, p1) ELSE <<>>
           b     == IF two THEN Fetch(size, p1 - info.moov, p2 - 1 - info.moov) ELSE <<>>
           c     == IF p2 <= last THEN Fetch(size, p2, last) ELSE <<>>
<1>1. info.header \in Seq(Nat) /\ hdr \in Nat /\ mdat2 \in Nat /\ info.moov \in Nat
  OBVIOUS
<1>2. p1 \in Int /\ (first < hdr => p1 <= hdr)
  <2>1. CASE first < hdr
    <3>1. hdr - 1 \in Int
      BY <1>1
    <3>2. Min({last, hdr - 1}) \in Int /\ Min({last, hdr - 1}) <= hdr - 1
      BY <3>1, MinOfPair
    <3> QED
      BY <1>1, <2>1, <3>2
  <2> QED
    BY <1>1, <2>1
<1>3. p2 \in Int
  <2>1. CASE two
    <3>1. mdat2 - 1 \in Int
      BY <1>1
    <3>2. Min({last, mdat2 - 1}) \in Int
      BY <3>1, MinOfPair
    <3> QED
      BY <2>1, <3>2
  <2> QED
    BY <1>2, <2>1
<1>4. a \in Seq(Int)
  <2>1. CASE first < hdr
    <3>1. \A i \in first + 1 .. p1 : info.header[i] \in Int
      BY <1>1, <1>2, <2>1, ElementOfSeq
    <3>2. first + 1 \in Int /\ p1 \in Int
      BY <1>2
    <3> HIDE DEF p1
    <3>3. SubSeq(info.header, first + 1, p1) \in Seq(Int)
      BY <3>1, <3>2, SubSeqProperties
    <3> QED
      BY <2>1, <3>3
  <2> QED
    BY <2>1, EmptySeq
<1> HIDE DEF hdr, mdat2, p1, p2
<1>5. b \in Seq(Int)
  BY <1>1, <1>2, <1>3, FetchIsBytes, EmptySeq
<1>6. c \in Seq(Int)
  BY <1>3, FetchIsBytes, EmptySeq
<1>7. ServeBytes(info, size, first, last) = a \o b \o c
  BY DEF ServeBytes, hdr, mdat2, p1, p2
<1> HIDE DEF a, b, c
<1> QED
  BY <1>4, <1>5, <1>6, <1>7, ConcatProperties

LEMMA SizesAreNumbers ==
    ASSUME NEW t \in Titles, rel[t] \in Releases(t)
    PROVE  Size(t) \in Nat /\ rel[t] \in Int
<1>1. InfoOf[t][rel[t]] \in [ftyp: Nat, moov: Nat, at: Nat, size: Nat, header: Seq(Nat)]
  BY LayoutsTyped
<1>2. rel[t] \in Int
  BY SporeConstants
<1> QED
  BY <1>1, <1>2 DEF Size

LEMMA RawIsBytes ==
    ASSUME NEW t \in Titles, rel[t] \in Releases(t), NEW pos \in Nat, NEW n \in Nat
    PROVE  RawBytes(t, pos, n) \in Seq(Bytes)
<1>1. Size(t) \in Nat /\ rel[t] \in Int
  BY SizesAreNumbers
<1> DEFINE data == Fetch(Size(t), pos, pos + n - 1)
<1>2. data \in Seq(Int)
  <2>1. Size(t) \in Int /\ pos \in Int /\ pos + n - 1 \in Int
    BY <1>1
  <2> QED
    BY <2>1, FetchIsBytes
<1> HIDE DEF data
<1>3. DOMAIN data = 1 .. Len(data) /\ Len(data) \in Nat /\ \A i \in 1 .. Len(data) : data[i] \in Int
  BY <1>2, LenProperties, ElementOfSeq
<1>4. [i \in 1 .. Len(data) |-> <<rel[t], data[i]>>] \in Seq(Bytes)
  <2>1. \A i \in 1 .. Len(data) : <<rel[t], data[i]>> \in Bytes
    BY <1>1, <1>3 DEF Bytes
  <2> QED
    BY <1>3, <2>1, IsASeq
<1> QED
  BY <1>3, <1>4 DEF RawBytes, data

(* Every layout in use, Blank included, has the type of a layout.          *)
LayoutState == [ftyp: Nat, moov: Nat, at: Nat, size: Nat, header: Seq(Nat)]

LEMMA LayoutsAreTyped ==
    ASSUME NEW t \in Titles, NEW h \in Releases(t) \cup {Blank}
    PROVE  Layout(t, h) \in LayoutState /\ h \in Int
<1>1. h \in Int
  BY SporeConstants DEF Blank
<1>2. CASE h = Blank
  <2>1. <<>> \in Seq(Nat)
    OBVIOUS
  <2>2. NoMoov(0) \in LayoutState
    BY <2>1 DEF NoMoov, LayoutState
  <2> QED
    BY <1>1, <1>2, <2>2 DEF Layout
<1>3. CASE h # Blank
  <2>1. InfoOf[t][h] \in LayoutState
    BY <1>3, LayoutsTyped DEF LayoutState
  <2> QED
    BY <1>1, <1>3, <2>1 DEF Layout
<1> QED
  BY <1>2, <1>3

LEMMA FastIsBytes ==
    ASSUME NEW t \in Titles, rel[t] \in Releases(t), NEW h \in Releases(t) \cup {Blank},
           NEW pos \in Nat, NEW n \in Nat
    PROVE  FastBytes(t, h, pos, n) \in Seq(Bytes)
<1>1. Size(t) \in Nat /\ rel[t] \in Int /\ h \in Int
  BY SizesAreNumbers, LayoutsAreTyped
<1> DEFINE info == Layout(t, h)
           data == ServeBytes(info, Size(t), pos, pos + n - 1)
<1>2. info \in [ftyp: Nat, moov: Nat, at: Nat, size: Nat, header: Seq(Nat)]
  BY LayoutsAreTyped DEF LayoutState
<1> HIDE DEF info
<1>3. data \in Seq(Int)
  <2>1. Size(t) \in Int /\ pos + n - 1 \in Int
    BY <1>1
  <2> QED
    BY <1>2, <2>1, RangeIsBytes
<1> HIDE DEF data
<1>4. DOMAIN data = 1 .. Len(data) /\ Len(data) \in Nat /\ \A i \in 1 .. Len(data) : data[i] \in Int
  BY <1>3, LenProperties, ElementOfSeq
<1> DEFINE of(i) == IF pos + i - 1 < Len(info.header) THEN h ELSE rel[t]
<1>5. [i \in 1 .. Len(data) |-> <<of(i), data[i]>>] \in Seq(Bytes)
  <2>1. \A i \in 1 .. Len(data) : <<of(i), data[i]>> \in Bytes
    BY <1>1, <1>4 DEF Bytes
  <2> HIDE DEF of
  <2> QED
    BY <1>4, <2>1, IsASeq
<1> QED
  BY <1>4, <1>5 DEF FastBytes, info, data

LEMMA BadFastIsBytes ==
    ASSUME NEW t \in Titles, NEW h \in Releases(t) \cup {Blank}, NEW pos \in Nat, NEW n \in Nat
    PROVE  BadFastBytes(t, h, pos, n) \in Seq(Bytes)
<1> DEFINE header == Layout(t, h).header
           last   == Min({Len(header), pos + n})
           data   == SubSeq(header, pos + 1, last)
           tail   == IF Len(data) < n THEN <<Error>> ELSE <<>>
<1>1. header \in Seq(Nat) /\ h \in Int
  BY LayoutsAreTyped DEF LayoutState
<1> HIDE DEF header
<1>2. last \in Int /\ last <= Len(header)
  <2>1. Len(header) \in Int /\ pos + n \in Int
    BY <1>1
  <2> QED
    BY <2>1, MinOfPair
<1> HIDE DEF last
<1>3. data \in Seq(Int)
  <2>1. \A i \in pos + 1 .. last : header[i] \in Int
    BY <1>1, <1>2, ElementOfSeq
  <2>2. pos + 1 \in Int
    OBVIOUS
  <2> QED
    BY <1>2, <2>1, <2>2, SubSeqProperties
<1> HIDE DEF data
<1>4. DOMAIN data = 1 .. Len(data) /\ Len(data) \in Nat /\ \A i \in 1 .. Len(data) : data[i] \in Int
  BY <1>3, LenProperties, ElementOfSeq
<1>5. [i \in 1 .. Len(data) |-> <<h, data[i]>>] \in Seq(Bytes)
  <2>1. \A i \in 1 .. Len(data) : <<h, data[i]>> \in Bytes
    BY <1>1, <1>4 DEF Bytes
  <2> QED
    BY <1>4, <2>1, IsASeq
<1>6. tail \in Seq(Bytes)
  <2>1. Error \in Bytes
    BY DEF Error, Bytes
  <2> QED
    BY <2>1
<1> HIDE DEF tail
<1>7. [i \in 1 .. Len(data) |-> <<h, data[i]>>] \o tail \in Seq(Bytes)
  BY <1>5, <1>6, ConcatProperties
<1> QED
  BY <1>4, <1>7 DEF BadFastBytes, header, last, data, tail

(***************************************************************************)
(* Types of the bridge                                                     *)
(***************************************************************************)

ThreadState == [pc: {"idle", "minfo", "register", "close", "copy", "seek", "fetch", "retry",
                     "advance"},
                op: {"read", "pread", "send"}, fd: Fds, from: Fds, title: Titles,
                pos: Nat, count: Nat, data: Seq(Bytes)]
ClientState == [pc: {"idle", "head", "cold", "warm"}, title: Titles, info: Int, pos: Nat]

Marks == {"expire", "build", "upgrade", "end", "raw"}
History == [events: [Titles -> SUBSET Marks], moved: SUBSET Fds, over: SUBSET Fds,
            missed: SUBSET Fds, skipped: SUBSET Fds]

(* What the media server's process keeps, and what the server's does.      *)
TableType ==
    /\ setup \in Setups
    /\ kern \in [Fds -> Titles \cup {Plain, None}]
    /\ vfd \in [Fds -> [active: BOOLEAN, token: Titles, pos: Nat]]
    /\ hook \in [Slots -> BOOLEAN]
    /\ th \in [Threads -> ThreadState]
    /\ DOMAIN got = Readers
    /\ past \in History
ServerType ==
    /\ hc \in [Clients -> ClientState]
    /\ DOMAIN rel = Titles /\ DOMAIN fsh = Titles
    /\ \A t \in Titles : rel[t] \in Releases(t) /\ fsh[t] \in {0, Blank} \cup Releases(t)
    /\ url \in [Titles -> {"none", "fresh", "stale"}] /\ cold \subseteq Titles
BridgeType == TableType /\ ServerType

LEMMA SetupTyped ==
    ASSUME setup \in Setups
    PROVE  /\ setup.titles \subseteq Titles /\ setup.asked \subseteq Nat
           /\ setup.fds \in Nat /\ 1 .. setup.fds \subseteq Fds
           /\ 1 \in Fds /\ NoTitle \in Titles
           /\ \A t \in Threads : setup.slots[t] \in Slots
<1>0. \A t \in Threads : setup.slots[t] \in Slots
  BY SporeConstants
<1>1. setup.fds \in Fds /\ setup.titles \subseteq Titles /\ setup.asked \subseteq Targets
  BY SporeConstants
<1>2. NoTitle \in Titles
  BY SporeConstants DEF NoTitle
<1>3. MaxFd \in Nat /\ setup.fds \in Nat /\ 1 <= setup.fds /\ setup.fds <= MaxFd
  BY <1>1, SporeConstants DEF Fds
<1>4. 1 .. setup.fds \subseteq Fds /\ 1 \in Fds
  BY <1>3 DEF Fds
<1>5. setup.asked \subseteq Nat
  BY <1>1, SporeConstants
<1> QED
  BY <1>0, <1>1, <1>2, <1>3, <1>4, <1>5

LEMMA IdleTyped ==
    ASSUME setup \in Setups
    PROVE  Idle \in ThreadState /\ IdleClient \in ClientState
           /\ Closed \in [active: BOOLEAN, token: Titles, pos: Nat]
<1>1. <<>> \in Seq(Bytes)
  OBVIOUS
<1> QED
  BY <1>1, SetupTyped DEF Idle, IdleClient, Closed, ThreadState, ClientState

LEMMA InitTypes == Init => BridgeType
<1> SUFFICES ASSUME Init
             PROVE  BridgeType
  OBVIOUS
<1>1. setup \in Setups
  BY DEF Init
<1>2. TableType
  BY <1>1, IdleTyped DEF Init, TableType, History
<1>3. \A t \in Titles : 1 \in Releases(t)
  BY SporeConstants
<1>4. ServerType
  BY <1>1, <1>3, IdleTyped DEF Init, ServerType
<1> QED
  BY <1>2, <1>4 DEF BridgeType

LEMMA OpenFds ==
    ASSUME setup \in Setups, FreeFds # {}
    PROVE  Min(FreeFds) \in FreeFds /\ FreeFds \subseteq Fds
<1>1. setup.fds \in Nat /\ FreeFds \in SUBSET (1 .. setup.fds)
  BY SetupTyped DEF FreeFds
<1> QED
  BY <1>1, SetupTyped, LowestIsFree

LEMMA EventNoted ==
    ASSUME TableType, NEW t \in Titles, NEW e \in Marks, Happened(t, e)
    PROVE  /\ past' \in History
           /\ past'.moved = past.moved /\ past'.over = past.over /\ past'.missed = past.missed
<1>1. past.events \in [Titles -> SUBSET Marks] /\ past \in History
  BY DEF TableType, History
<1>2. past.events[t] \cup {e} \in SUBSET Marks
  BY <1>1
<1>3. past' = [past EXCEPT !.events = [past.events EXCEPT ![t] = @ \cup {e}]]
  BY DEF Happened
<1>4. [past.events EXCEPT ![t] = @ \cup {e}] \in [Titles -> SUBSET Marks]
  BY <1>1, <1>2
<1> QED
  BY <1>1, <1>3, <1>4 DEF History

LEMMA MediaTypes ==
    ASSUME BridgeType, MediaServer
    PROVE  BridgeType'
<1> USE DEF BridgeType
<1>0. setup \in Setups /\ \A t \in Threads : th[t] \in ThreadState
  BY DEF TableType
<1>1. PICK t \in Threads :
        \/ \E f \in setup.titles \cup {Plain} : Open(t, f)
        \/ ThreadStep(t)
        \/ \E d \in Fds :
            \/ Close(t, d) \/ Dup(t, d)
            \/ \E new \in Fds : Dup2(t, d, new)
            \/ \E target \in Targets : Lseek(t, d, target)
            \/ \E op \in {"read", "pread", "send"}, n \in Counts :
                  \E offset \in IF op = "pread" THEN Targets ELSE {0} :
                      Read(t, d, op, offset, n)
  BY DEF MediaServer
<1> DEFINE me == th[t]
<1>2. ASSUME NEW f \in setup.titles \cup {Plain}, Open(t, f)
      PROVE  BridgeType'
  <2>1. Min(FreeFds) \in Fds /\ f \in Titles \cup {Plain} /\ (f # Plain => f \in Titles)
    BY <1>0, <1>2, OpenFds, SetupTyped DEF Open
  <2> DEFINE d == Min(FreeFds)
             s == [Idle EXCEPT !.pc = "minfo", !.fd = d, !.title = f]
  <2>2. f # Plain => s \in ThreadState
    BY <1>0, <2>1, IdleTyped DEF ThreadState
  <2>3. th' = th \/ (f # Plain /\ th' = [th EXCEPT ![t] = s])
    BY <1>2 DEF Open
  <2>h. past' \in History
    <3>1. past' = [past EXCEPT !.moved = @ \ {d}, !.over = @ \ {d}, !.skipped = @ \ {d},
                    !.missed = IF f # Plain /\ Hooked(t) THEN @ \cup {d} ELSE @ \ {d}]
      BY <1>2 DEF Open
    <3> HIDE DEF d
    <3> QED
      BY <2>1, <3>1 DEF TableType, History, d
  <2> HIDE DEF s
  <2>4. th' \in [Threads -> ThreadState]
    BY <2>2, <2>3 DEF TableType
  <2> HIDE DEF d
  <2>5. TableType'
    BY <1>2, <2>1, <2>h, <2>4 DEF Open, TableType, d
  <2>6. ServerType'
    BY <1>2 DEF Open, ServerType, serverVars
  <2> QED
    BY <2>5, <2>6
<1>3. CASE ReadMinfo(t)
  <2>1. th' \in [Threads -> ThreadState]
    BY <1>3 DEF ReadMinfo, TableType, ThreadState
  <2>2. TableType'
    BY <1>0, <1>3, <2>1, SetupTyped DEF ReadMinfo, Mark, TableType
  <2>3. ServerType'
    BY <1>3 DEF ReadMinfo, ServerType, serverVars
  <2> QED
    BY <2>2, <2>3
<1>4. CASE Register(t)
  <2>1. /\ th' = [th EXCEPT ![t] = Idle]
        /\ vfd' = [vfd EXCEPT ![th[t].fd] = [active |-> TRUE, token |-> th[t].title, pos |-> 0]]
        /\ hook' = [hook EXCEPT ![setup.slots[t]] = FALSE]
        /\ UNCHANGED <<kern, hc, serverVars, got, past, setup>>
    BY <1>4 DEF Register, Mark
  <2>2. th' \in [Threads -> ThreadState] /\ th[t].fd \in Fds /\ th[t].title \in Titles
    BY <1>0, <2>1, IdleTyped DEF TableType, ThreadState
  <2>3. vfd' \in [Fds -> [active: BOOLEAN, token: Titles, pos: Nat]]
    BY <2>1, <2>2 DEF TableType
  <2>4. TableType'
    BY <2>1, <2>2, <2>3 DEF TableType
  <2> QED
    BY <2>1, <2>4 DEF ServerType, serverVars
<1>4a. CASE NoToken(t)
  <2>1. /\ th' = [th EXCEPT ![t] = Idle]
        /\ past' = [past EXCEPT !.missed = @ \cup {th[t].fd}]
        /\ hook' = [hook EXCEPT ![setup.slots[t]] = FALSE]
        /\ UNCHANGED <<kern, vfd, hc, serverVars, got, setup>>
    BY <1>4a DEF NoToken, Mark
  <2>2. th' \in [Threads -> ThreadState] /\ th[t].fd \in Fds
    BY <1>0, <2>1, IdleTyped DEF TableType, ThreadState
  <2>3. past' \in History
    BY <2>1, <2>2 DEF TableType, History
  <2>4. TableType'
    BY <2>1, <2>2, <2>3 DEF TableType
  <2> QED
    BY <2>1, <2>4 DEF ServerType, serverVars
<1>5. CASE Closing(t)
  <2>1. th' \in [Threads -> ThreadState] /\ th[t].fd \in Fds
    BY <1>0, <1>5, IdleTyped DEF Closing, TableType, ThreadState
  <2>2. TableType'
    BY <1>5, <2>1 DEF Closing, TableType
  <2>3. ServerType'
    BY <1>5 DEF Closing, ServerType, serverVars
  <2> QED
    BY <2>2, <2>3
<1>6. CASE Seek(t)
  <2>1. /\ th' = [th EXCEPT ![t] = Idle]
        /\ UNCHANGED <<kern, hook, hc, serverVars, got, past, setup>>
    BY <1>6 DEF Seek
  <2>2. th' \in [Threads -> ThreadState] /\ th[t].fd \in Fds /\ th[t].pos \in Nat
    BY <1>0, <2>1, IdleTyped DEF TableType, ThreadState
  <2>3. vfd' \in [Fds -> [active: BOOLEAN, token: Titles, pos: Nat]]
    BY <1>6, <2>2 DEF Seek, SetPosition, TableType
  <2> QED
    BY <2>1, <2>2, <2>3 DEF TableType, ServerType, serverVars
<1>7. ASSUME NEW d \in Fds, Close(t, d)
      PROVE  BridgeType'
  BY <1>0, <1>7, IdleTyped DEF Close, TableType, ServerType, ThreadState, serverVars
<1>8. ASSUME NEW d \in Fds, NEW new \in Fds, Duplicate(t, d, new)
      PROVE  BridgeType'
  <2> DEFINE s == [Idle EXCEPT !.pc = "copy", !.fd = new, !.from = d]
  <2>1. /\ kern' = [kern EXCEPT ![new] = kern[d]]
        /\ got' = [got EXCEPT ![new] = {}]
        /\ past' = [past EXCEPT !.moved = @ \cup {new}, !.skipped = @ \ {new}]
        /\ th' = [th EXCEPT ![t] = s]
        /\ UNCHANGED <<vfd, hook, hc, serverVars, setup>>
    BY <1>8 DEF Duplicate
  <2>2. s \in ThreadState
    BY <1>0, IdleTyped DEF ThreadState
  <2> HIDE DEF s
  <2>3. th' \in [Threads -> ThreadState]
    BY <2>1, <2>2 DEF TableType
  <2>4. past' \in History
    BY <2>1 DEF TableType, History
  <2>5. TableType'
    BY <2>1, <2>3, <2>4 DEF TableType
  <2> QED
    BY <2>1, <2>5 DEF ServerType, serverVars
<1>8a. CASE Copy(t)
  <2> DEFINE old == th[t].from
             new == th[t].fd
  <2>0. old \in Fds /\ new \in Fds
    BY <1>0 DEF ThreadState
  <2>1. \E A, B \in SUBSET Fds : past' = [past EXCEPT !.over = A, !.missed = B]
    <3> DEFINE c == IF vfd[old].active THEN old \in past.over
                    ELSE vfd[new].active \/ new \in past.over
               A == IF c THEN past.over \cup {new} ELSE past.over \ {new}
               B == IF ~vfd[old].active THEN past.missed \cup {new} ELSE past.missed \ {new}
    <3>1. past' = [past EXCEPT !.over = A, !.missed = B]
      BY <1>8a DEF Copy
    <3>2. past.over \cup {new} \in SUBSET Fds /\ past.over \ {new} \in SUBSET Fds
          /\ past.missed \cup {new} \in SUBSET Fds /\ past.missed \ {new} \in SUBSET Fds
      BY <2>0 DEF TableType, History
    <3> HIDE DEF c
    <3>3. A \in SUBSET Fds /\ B \in SUBSET Fds
      BY <3>2
    <3> HIDE DEF A, B
    <3> QED
      BY <3>1, <3>3
  <2>2. /\ th' = [th EXCEPT ![t] = Idle]
        /\ vfd' = vfd \/ vfd' = [vfd EXCEPT ![new] = vfd[old]]
        /\ UNCHANGED <<kern, hook, hc, serverVars, got, setup>>
    BY <1>8a DEF Copy, CopyVfd
  <2>3. th' \in [Threads -> ThreadState]
    BY <2>2, <1>0, IdleTyped DEF TableType
  <2> HIDE DEF old, new
  <2>4. past' \in History
    BY <2>1 DEF TableType, History
  <2>5. vfd' \in [Fds -> [active: BOOLEAN, token: Titles, pos: Nat]]
    BY <2>0, <2>2 DEF TableType
  <2>6. TableType'
    BY <2>2, <2>3, <2>4, <2>5 DEF TableType
  <2> QED
    BY <2>2, <2>6 DEF ServerType, serverVars
<1>9. ASSUME NEW d \in Fds, NEW target \in Targets, Lseek(t, d, target)
      PROVE  BridgeType'
  <2> DEFINE s == [Idle EXCEPT !.pc = "seek", !.fd = d, !.pos = target]
  <2>1. /\ th' = [th EXCEPT ![t] = s] /\ past' = [past EXCEPT !.moved = @ \cup {d}]
        /\ UNCHANGED <<kern, vfd, hook, hc, serverVars, got, setup>>
    BY <1>9 DEF Lseek
  <2>2. s \in ThreadState
    BY <1>0, IdleTyped, SporeConstants DEF ThreadState
  <2> HIDE DEF s
  <2>3. th' \in [Threads -> ThreadState] /\ past' \in History
    BY <2>1, <2>2 DEF TableType, History
  <2>4. TableType'
    BY <2>1, <2>3 DEF TableType
  <2> QED
    BY <2>1, <2>4 DEF ServerType, serverVars
<1>10. ASSUME NEW d \in Fds, NEW op \in {"read", "pread", "send"}, NEW n \in Counts,
              NEW offset \in IF op = "pread" THEN Targets ELSE {0},
              Read(t, d, op, offset, n)
       PROVE  BridgeType'
  <2>1. n \in Nat /\ offset \in Nat /\ <<>> \in Seq(Bytes)
    <3>1. n \in Nat
      BY SporeConstants
    <3>2. offset \in Nat
      BY SporeConstants
    <3> QED
      BY <3>1, <3>2
  <2> DEFINE s == [Idle EXCEPT !.pc = "fetch", !.op = op, !.fd = d,
                               !.title = vfd[d].token, !.count = n,
                               !.pos = IF op = "pread" THEN offset ELSE vfd[d].pos]
  <2>2. s \in ThreadState
    BY <1>0, <2>1, IdleTyped DEF TableType, ThreadState
  <2>3. th' = th \/ th' = [th EXCEPT ![t] = s]
    BY <1>10 DEF Read
  <2> HIDE DEF s
  <2>4. th' \in [Threads -> ThreadState]
    BY <2>2, <2>3 DEF TableType
  <2>5. /\ UNCHANGED <<kern, vfd, hook, hc, serverVars, setup>>
        /\ DOMAIN got' = Readers
    BY <1>10 DEF Read, TableType
  <2>6. past' \in History
    <3>1. \/ past' = past
          \/ past' = [past EXCEPT !.skipped = @ \cup {d}]
          \/ past' = [past EXCEPT !.moved = IF OnCall(d) \/ op = "pread"
                                           THEN @ \cup {d} ELSE @]
      BY <1>10 DEF Read
    <3> QED
      BY <3>1 DEF TableType, History
  <2>7. TableType'
    BY <2>4, <2>5, <2>6 DEF TableType
  <2>8. ServerType'
    BY <2>5 DEF ServerType, serverVars
  <2> QED
    BY <2>7, <2>8
<1> DEFINE title == me.title
<1>a. /\ me \in ThreadState /\ title \in Titles /\ me.fd \in Fds /\ me.pos \in Nat
      /\ Wanted(me) \in Nat /\ Idle \in ThreadState
  BY <1>0, IdleTyped DEF ThreadState, Wanted
<1>b. ASSUME Refused(t)
      PROVE  /\ th' \in [Threads -> ThreadState]
             /\ vfd' \in [Fds -> [active: BOOLEAN, token: Titles, pos: Nat]]
  BY <1>a, <1>b DEF Refused, SetPosition, TableType
<1>c. Resolved(title) \in {"fresh", "stale"}
  BY <1>a DEF Resolved, ServerType
<1>d. ASSUME NEW data \in Seq(Bytes), th' = [th EXCEPT ![t].pc = "advance", ![t].data = data]
      PROVE  th' \in [Threads -> ThreadState]
  BY <1>0, <1>d DEF TableType, ThreadState
<1>11. CASE Handle(t)
  <2> DEFINE h    == fsh[title]
             n    == Wanted(me)
             bad  == Resolved(title) = "stale" \/ me.pos >= Size(title)
             data == IF h = 0 THEN RawBytes(title, me.pos, n)
                     ELSE IF bad THEN BadFastBytes(title, h, me.pos, n)
                     ELSE FastBytes(title, h, me.pos, n)
  <2>1. data \in Seq(Bytes)
    <3>1. rel[title] \in Releases(title) /\ (h # 0 => h \in Releases(title) \cup {Blank})
      BY <1>a DEF ServerType
    <3> QED
      BY <1>a, <3>1, RawIsBytes, FastIsBytes, BadFastIsBytes
  <2>2. UNCHANGED <<kern, hook, hc, rel, fsh, cold, builders, got, setup>>
    BY <1>11 DEF Handle
  <2>3. /\ th' \in [Threads -> ThreadState]
        /\ vfd' \in [Fds -> [active: BOOLEAN, token: Titles, pos: Nat]]
        /\ url' \in [Titles -> {"none", "fresh", "stale"}]
        /\ past' \in History
    <3>1. \/ Refused(t) /\ UNCHANGED <<url, past>>
          \/ /\ url' = [url EXCEPT ![title] = "none"]
             /\ th' = [th EXCEPT ![t].pc = "retry"]
             /\ UNCHANGED vfd
             /\ Happened(title, "raw") \/ UNCHANGED past
          \/ /\ url' = [url EXCEPT ![title] = Resolved(title)]
             /\ th' = [th EXCEPT ![t].pc = "advance", ![t].data = data]
             /\ UNCHANGED vfd
             /\ Happened(title, "end") \/ UNCHANGED past
      BY <1>11 DEF Handle
    <3> HIDE DEF data
    <3>2. CASE Refused(t) /\ UNCHANGED <<url, past>>
      BY <1>b, <3>2 DEF TableType, ServerType
    <3>3. CASE /\ url' = [url EXCEPT ![title] = "none"]
               /\ th' = [th EXCEPT ![t].pc = "retry"]
               /\ UNCHANGED vfd
               /\ Happened(title, "raw") \/ UNCHANGED past
      <4>1. th' \in [Threads -> ThreadState]
        BY <1>0, <3>3 DEF TableType, ThreadState
      <4>2. past' \in History
        BY <1>a, <3>3, EventNoted DEF Marks, TableType
      <4> QED
        BY <3>3, <4>1, <4>2 DEF TableType, ServerType
    <3>4. CASE /\ url' = [url EXCEPT ![title] = Resolved(title)]
               /\ th' = [th EXCEPT ![t].pc = "advance", ![t].data = data]
               /\ UNCHANGED vfd
               /\ Happened(title, "end") \/ UNCHANGED past
      <4>1. th' \in [Threads -> ThreadState]
        BY <1>d, <2>1, <3>4
      <4>2. past' \in History
        BY <1>a, <3>4, EventNoted DEF Marks, TableType
      <4> QED
        BY <1>a, <1>c, <3>4, <4>1, <4>2 DEF TableType, ServerType
    <3> QED
      BY <3>1, <3>2, <3>3, <3>4
  <2> QED
    BY <2>2, <2>3 DEF TableType, ServerType
<1>12. CASE HandleAgain(t)
  <2> DEFINE data == RawBytes(title, me.pos, Wanted(me))
  <2>1. data \in Seq(Bytes)
    BY <1>a, RawIsBytes DEF ServerType
  <2>2. UNCHANGED <<kern, hook, hc, rel, fsh, cold, builders, got, past, setup>>
    BY <1>12 DEF HandleAgain
  <2>3. /\ url' = url \/ url' = [url EXCEPT ![title] = Resolved(title)]
        /\ \/ Refused(t)
           \/ th' = [th EXCEPT ![t].pc = "advance", ![t].data = data] /\ UNCHANGED vfd
    BY <1>12 DEF HandleAgain
  <2> HIDE DEF data
  <2>4. /\ th' \in [Threads -> ThreadState]
        /\ vfd' \in [Fds -> [active: BOOLEAN, token: Titles, pos: Nat]]
    BY <1>b, <1>d, <2>1, <2>3 DEF TableType
  <2>5. url' \in [Titles -> {"none", "fresh", "stale"}]
    BY <1>c, <2>3 DEF ServerType
  <2> QED
    BY <2>2, <2>4, <2>5 DEF TableType, ServerType
<1>13. CASE Advance(t)
  <2> DEFINE pos  == me.pos + Len(me.data)
             left == me.count - Len(me.data)
             s    == [me EXCEPT !.pc = "fetch", !.pos = pos, !.count = left, !.data = <<>>]
  <2>1. Len(me.data) \in Nat /\ pos \in Nat /\ left \in Int /\ <<>> \in Seq(Bytes)
    <3>1. me.data \in Seq(Bytes) /\ me.count \in Nat
      BY <1>a DEF ThreadState
    <3>2. Len(me.data) \in Nat
      BY <3>1, LenProperties
    <3> HIDE DEF me
    <3> QED
      BY <1>a, <3>1, <3>2
  <2>2. left > 0 => s \in ThreadState
    <3> HIDE DEF me
    <3>1. left > 0 => left \in Nat
      BY <2>1
    <3> HIDE DEF left, pos
    <3> QED
      BY <1>a, <2>1, <3>1 DEF ThreadState
  <2>3. /\ UNCHANGED <<kern, hook, hc, serverVars, past, setup>>
        /\ DOMAIN got' = Readers
    BY <1>13 DEF Advance, TableType
  <2>4. \/ left > 0 /\ th' = [th EXCEPT ![t] = s] /\ UNCHANGED vfd
        \/ /\ th' = [th EXCEPT ![t] = Idle]
           /\ \/ SetPosition(me.fd, vfd[me.fd].pos + Len(me.data))
              \/ SetPosition(me.fd, pos)
              \/ UNCHANGED vfd
    <3>1. me.op \in {"read", "pread", "send"}
      BY <1>a DEF ThreadState
    <3> QED
      BY <1>13, <3>1 DEF Advance
  <2> HIDE DEF s, pos
  <2>5. th' \in [Threads -> ThreadState]
    BY <1>a, <2>2, <2>4 DEF TableType
  <2>6. vfd' \in [Fds -> [active: BOOLEAN, token: Titles, pos: Nat]]
    <3>1. vfd[me.fd].pos + Len(me.data) \in Nat
      BY <1>a, <2>1 DEF TableType
    <3>2. \/ vfd' = vfd
          \/ \E p \in Nat : vfd' = [vfd EXCEPT ![me.fd].pos = p]
      BY <2>1, <2>4, <3>1 DEF SetPosition
    <3> HIDE DEF me
    <3> QED
      BY <1>a, <3>2 DEF TableType
  <2> QED
    BY <2>3, <2>5, <2>6 DEF TableType, ServerType, serverVars
<1> QED
  <2>1. ASSUME NEW d \in Fds, Dup(t, d)
        PROVE  BridgeType'
    <3>1. Min(FreeFds) \in Fds
      BY <1>0, <2>1, OpenFds DEF Dup
    <3> QED
      BY <1>8, <2>1, <3>1 DEF Dup
  <2>2. ASSUME NEW d \in Fds, NEW new \in Fds, Dup2(t, d, new)
        PROVE  BridgeType'
    BY <1>8, <2>2 DEF Dup2
  <2>3. CASE ThreadStep(t)
    BY <1>3, <1>4, <1>4a, <1>5, <1>6, <1>8a, <1>11, <1>12, <1>13, <2>3 DEF ThreadStep
  <2> HIDE DEF BridgeType
  <2> QED
    BY <1>1, <1>2, <1>7, <1>9, <1>10, <2>1, <2>2, <2>3

(* What the server does leaves the library's tables, and what descriptors  *)
(* have received, alone.                                                   *)
Quiet == /\ UNCHANGED <<kern, vfd, hook, th>>
         /\ \A d \in Fds : got'[d] = got[d]
         /\ past'.moved = past.moved /\ past'.over = past.over /\ past'.missed = past.missed

LEMMA QuietTypes ==
    ASSUME TableType, UNCHANGED <<clientVars, setup>>,
           \/ UNCHANGED <<got, past>>
           \/ UNCHANGED got /\ \E t \in Titles, e \in Marks : Happened(t, e)
           \/ UNCHANGED past /\ \E c \in Clients : \E b : got' = [got EXCEPT ![c] = b]
    PROVE  TableType' /\ Quiet
<1>0. UNCHANGED <<kern, vfd, hook, th, setup>>
  BY DEF clientVars
<1>1. CASE UNCHANGED <<got, past>>
  BY <1>0, <1>1 DEF TableType, Quiet
<1>2. CASE UNCHANGED got /\ \E t \in Titles, e \in Marks : Happened(t, e)
  BY <1>0, <1>2, EventNoted DEF TableType, Quiet
<1>3. ASSUME UNCHANGED past, NEW c \in Clients, NEW b, got' = [got EXCEPT ![c] = b]
      PROVE  TableType' /\ Quiet
  <2>1. \A d \in Fds : d # c /\ d \in DOMAIN got
    BY SporeConstants DEF TableType, Readers
  <2>2. \A d \in Fds : got'[d] = got[d]
    BY <1>3, <2>1
  <2> QED
    BY <1>0, <1>3, <2>2 DEF TableType, Quiet
<1> QED
  BY <1>1, <1>2, <1>3

LEMMA OutsideTypes ==
    ASSUME BridgeType, NEW t \in setup.titles, Outside(t) \/ Build(t)
    PROVE  BridgeType' /\ Quiet
<1>0. t \in Titles
  BY SetupTyped DEF BridgeType, TableType
<1>1. CASE Expire(t)
  <2>1. TableType' /\ Quiet
    BY <1>0, <1>1, QuietTypes DEF Expire, Marks, BridgeType
  <2> QED
    BY <1>0, <1>1, <2>1 DEF Expire, BridgeType, ServerType
<1>2. CASE Preload(t)
  <2>1. TableType' /\ Quiet
    BY <1>0, <1>2, QuietTypes DEF Preload, BridgeType
  <2> QED
    BY <1>0, <1>2, <2>1 DEF Preload, BridgeType, ServerType
<1>3. CASE Upgrade(t)
  <2>1. TableType' /\ Quiet
    BY <1>0, <1>3, QuietTypes DEF Upgrade, Marks, BridgeType
  <2> QED
    BY <1>0, <1>3, <2>1 DEF Upgrade, BridgeType, ServerType
<1>4. CASE Build(t)
  <2>1. UNCHANGED got /\ (Happened(t, "build") \/ UNCHANGED past)
    BY <1>4 DEF Build
  <2>2. TableType' /\ Quiet
    BY <1>0, <1>4, <2>1, QuietTypes DEF Build, Marks, BridgeType
  <2> QED
    BY <1>0, <1>4, <2>2 DEF Build, BridgeType, ServerType, Blank
<1> QED
  BY <1>1, <1>2, <1>3, <1>4 DEF Outside

LEMMA StreamTypes ==
    ASSUME BridgeType, NEW c \in Clients,
           \/ ClientStep(c)
           \/ \E t \in setup.titles, pos \in setup.asked : StreamStart(c, t, pos)
    PROVE  BridgeType' /\ Quiet
<1>0. TableType /\ ServerType /\ hc[c] \in ClientState /\ hc[c].title \in Titles
  BY DEF BridgeType, ServerType, ClientState
<1>1. CASE StreamHead(c)
  <2>1. TableType' /\ Quiet
    BY <1>0, <1>1, QuietTypes DEF StreamHead
  <2>2. hc' \in [Clients -> ClientState]
    BY <1>0, <1>1 DEF StreamHead, StreamEnds, ServerType, ClientState
  <2> QED
    BY <1>0, <1>1, <2>1, <2>2 DEF StreamHead, BridgeType, ServerType
<1>2. CASE StreamCold(c)
  <2>1. UNCHANGED got \/ \E b : got' = [got EXCEPT ![c] = b]
    BY <1>2 DEF StreamCold, Streamed
  <2>2. TableType' /\ Quiet
    BY <1>0, <1>2, <2>1, QuietTypes DEF StreamCold
  <2>3. hc' \in [Clients -> ClientState]
    BY <1>0, <1>2 DEF StreamCold, StreamEnds, ServerType, ClientState
  <2> QED
    BY <1>0, <1>2, <2>2, <2>3 DEF StreamCold, BridgeType, ServerType
<1>3. CASE StreamWarm(c)
  <2>1. UNCHANGED got \/ \E b : got' = [got EXCEPT ![c] = b]
    BY <1>3 DEF StreamWarm, Streamed
  <2>2. TableType' /\ Quiet
    BY <1>0, <1>3, <2>1, QuietTypes DEF StreamWarm
  <2>3. hc' \in [Clients -> ClientState]
    BY <1>0, <1>3 DEF StreamWarm, StreamEnds, ServerType, ClientState
  <2> QED
    BY <1>0, <1>3, <2>2, <2>3 DEF StreamWarm, BridgeType, ServerType
<1>4. ASSUME NEW t \in setup.titles, NEW pos \in setup.asked, StreamStart(c, t, pos)
      PROVE  BridgeType' /\ Quiet
  <2>1. t \in Titles /\ pos \in Nat
    BY <1>0, SetupTyped DEF TableType
  <2>2. TableType' /\ Quiet
    BY <1>0, <1>4, QuietTypes DEF StreamStart
  <2>3. fsh[t] \in Int
    BY <1>0, <2>1, SporeConstants DEF ServerType, Blank
  <2>4. hc' \in [Clients -> ClientState]
    BY <1>0, <1>4, <2>1, <2>3 DEF StreamStart, ServerType, ClientState
  <2>5. Resolved(t) \in {"fresh", "stale"}
    BY <1>0, <2>1 DEF Resolved, ServerType
  <2> QED
    BY <1>0, <1>4, <2>1, <2>2, <2>4, <2>5 DEF StreamStart, BridgeType, ServerType
<1> QED
  BY <1>1, <1>2, <1>3, <1>4 DEF ClientStep

(***************************************************************************)
(* The library's table                                                     *)
(***************************************************************************)

Opening == {"minfo", "register", "close"}
Owning  == Opening \cup {"copy"}
Served  == {"fetch", "retry", "advance"}
Busy(t) == th[t].pc # "idle"
Alone(t) == \A s \in Threads \ {t} : th[t].fd \notin Uses(s)

(* A call is on an open descriptor; one that opens, closes or duplicates   *)
(* has its descriptor for itself.                                          *)
CallRight(t) == /\ \A d \in Uses(t) : kern[d] # None
                /\ th[t].pc \in {"minfo", "register"} => kern[th[t].fd] = th[t].title
                /\ th[t].pc \in Opening => ~vfd[th[t].fd].active
                /\ th[t].pc \in Owning => Alone(t)
                /\ Copying(t) => /\ th[t].from # th[t].fd
                                 /\ kern[th[t].fd] = kern[th[t].from]

(* A closed descriptor is not virtual, a virtual one is open on its file,  *)
(* and a stub is not virtual only while it is opened, closed or copied,    *)
(* unless it was missed.                                                   *)
ClosedRight(d)  == kern[d] = None => ~vfd[d].active
VirtualRight(d) == vfd[d].active /\ d \notin past.over
                     /\ (\A t \in Threads : Copying(t) => th[t].fd # d)
                        => kern[d] = vfd[d].token
OpenRight(d)    == kern[d] \in Titles /\ ~vfd[d].active /\ d \notin past.missed =>
                     \E t \in Threads : th[t].fd = d /\ th[t].pc \in Owning
EntryRight(d)   == ClosedRight(d) /\ VirtualRight(d) /\ OpenRight(d)
TableInv == /\ \A d \in Fds : EntryRight(d)
            /\ \A t \in Threads : CallRight(t)

LEMMA TableStarts == BridgeType /\ Init => TableInv
<1> SUFFICES ASSUME Init, BridgeType
             PROVE  TableInv
  OBVIOUS
<1>1. \A d \in Fds : kern[d] = None /\ ~vfd[d].active
  BY DEF Init, Closed
<1>2. \A t \in Threads : th[t].pc = "idle"
  BY DEF Init, Idle
<1>3. \A d \in Fds : EntryRight(d)
  BY <1>1, SporeConstants DEF EntryRight, ClosedRight, VirtualRight, OpenRight
<1>4. \A t \in Threads : CallRight(t)
  BY <1>2 DEF CallRight, Opening, Owning, Uses, Copying
<1> QED
  BY <1>3, <1>4 DEF TableInv

LEMMA QuietTables ==
    ASSUME Quiet, TableInv
    PROVE  TableInv'
<1>1. \A t \in Threads : CallRight(t)'
  BY DEF Quiet, TableInv, CallRight, Alone, Uses, Copying
<1>2. \A d \in Fds : EntryRight(d)'
  BY DEF Quiet, TableInv, EntryRight, ClosedRight, VirtualRight, OpenRight, Copying
<1> QED
  BY <1>1, <1>2 DEF TableInv

(* A thread's step on a descriptor that disturbs no other thread's use.    *)
LEMMA TableFrame ==
    ASSUME TableType, TableInv, NEW t \in Threads, NEW d \in Fds,
           \A x \in Threads \ {t} : th'[x] = th[x],
           Busy(t) => th[t].fd = d,
           \A x \in Fds \ {d} : /\ kern'[x] = kern[x] /\ vfd'[x].token = vfd[x].token
                                /\ vfd'[x].active = vfd[x].active
                                /\ x \in past'.over <=> x \in past.over
                                /\ x \in past'.missed <=> x \in past.missed,
           \A x \in Threads \ {t} :
               /\ d \in Uses(x) => kern'[d] = kern[d]
               /\ d \in Uses(x) => vfd'[d].active = vfd[d].active
               /\ th[x].pc \in Owning => th[x].fd \notin Uses(t)',
           CallRight(t)', EntryRight(d)'
    PROVE  TableInv'
<1>1. \A x \in Threads \ {t} : Uses(x)' = Uses(x) /\ Copying(x)' = Copying(x)
  BY DEF Uses, Copying
<1>2. \A x \in Threads : Uses(x) \subseteq Fds /\ (Busy(x) => th[x].fd \in Uses(x))
  BY DEF TableType, ThreadState, Uses, Busy
<1>3. \A x \in Fds \ {d} : EntryRight(x)'
  <2> SUFFICES ASSUME NEW x \in Fds \ {d}
               PROVE  EntryRight(x)'
    OBVIOUS
  <2>1. EntryRight(x)
    BY DEF TableInv
  <2>2. ClosedRight(x)'
    BY <2>1 DEF EntryRight, ClosedRight
  <2>3. VirtualRight(x)'
    <3>1. ASSUME NEW y \in Threads, Copying(y), th[y].fd = x
          PROVE  Copying(y)' /\ th'[y].fd = x
      <4>1. y # t
        BY <3>1 DEF Copying, Busy
      <4> QED
        BY <1>1, <3>1, <4>1
    <3> QED
      BY <2>1, <3>1 DEF EntryRight, VirtualRight
  <2>4. OpenRight(x)'
    <3> SUFFICES ASSUME kern'[x] \in Titles, ~vfd'[x].active, x \notin past'.missed
                 PROVE  \E y \in Threads : th'[y].fd = x /\ th'[y].pc \in Owning
      BY DEF OpenRight
    <3>1. PICK y \in Threads : th[y].fd = x /\ th[y].pc \in Owning
      BY <2>1 DEF EntryRight, OpenRight
    <3>2. y # t
      BY <3>1 DEF Busy, Owning, Opening
    <3> QED
      BY <3>1, <3>2
  <2> QED
    BY <2>2, <2>3, <2>4 DEF EntryRight
<1>4. \A x \in Threads \ {t} : CallRight(x)'
  <2> SUFFICES ASSUME NEW x \in Threads \ {t}
               PROVE  CallRight(x)'
    OBVIOUS
  <2>1. CallRight(x) /\ th'[x] = th[x] /\ (Copying(x)' <=> Copying(x)) /\ Uses(x)' = Uses(x)
    BY <1>1 DEF TableInv
  <2>2. \A e \in Uses(x) : kern'[e] = kern[e] /\ vfd'[e].active = vfd[e].active
    BY <1>2
  <2>3. /\ th[x].pc \in Owning => Busy(x)
        /\ Copying(x) => th[x].from \in Uses(x) /\ Busy(x)
    BY DEF Owning, Opening, Busy, Copying, Uses
  <2>4. th[x].pc \in Owning => Alone(x)'
    BY <1>1, <2>1 DEF CallRight, Alone
  <2> QED
    BY <1>2, <2>1, <2>2, <2>3, <2>4 DEF CallRight, Opening, Owning
<1> QED
  BY <1>3, <1>4 DEF TableInv

(* A call goes on, or ends, on the descriptor it was made on.              *)
LEMMA CallGoesOn ==
    ASSUME TableType, TableInv,
           NEW t \in Threads, th[t].pc \in Served \cup {"seek"},
           NEW s, th' = [th EXCEPT ![t] = s],
           s.pc = "idle" \/ (s.fd = th[t].fd /\ s.pc \in Served),
           UNCHANGED kern, past'.over = past.over, past'.missed = past.missed,
           vfd' = vfd \/ \E p \in Nat : vfd' = [vfd EXCEPT ![th[t].fd].pos = p]
    PROVE  TableInv'
<1>d. PICK d \in Fds : d = th[t].fd
  BY DEF TableType, ThreadState
<1>1. /\ \A x \in Threads \ {t} : th'[x] = th[x]
      /\ th'[t] = s /\ th[t].pc \notin Owning \cup {"idle"} /\ s.pc \notin Owning
  BY DEF TableType, Opening, Owning, Served
<1>2. \A x \in Fds : vfd'[x].active = vfd[x].active /\ vfd'[x].token = vfd[x].token
  <2> SUFFICES ASSUME NEW x \in Fds
               PROVE  vfd'[x].active = vfd[x].active /\ vfd'[x].token = vfd[x].token
    OBVIOUS
  <2>1. vfd[x] \in [active: BOOLEAN, token: Titles, pos: Nat] /\ x \in DOMAIN vfd
    BY DEF TableType
  <2>2. \/ vfd'[x] = vfd[x]
        \/ \E p \in Nat : vfd'[x] = [vfd[x] EXCEPT !.pos = p]
    <3>1. CASE vfd' = vfd
      BY <3>1
    <3>2. ASSUME NEW p \in Nat, vfd' = [vfd EXCEPT ![th[t].fd].pos = p]
          PROVE  vfd'[x] = vfd[x] \/ vfd'[x] = [vfd[x] EXCEPT !.pos = p]
      BY <2>1, <3>2
    <3> QED
      BY <3>1, <3>2
  <2> QED
    BY <2>1, <2>2
<1>3. d \in Fds /\ d \in Uses(t) /\ CallRight(t) /\ EntryRight(d)
  BY <1>d, <1>1 DEF TableType, ThreadState, Uses, TableInv
<1>4. Uses(t)' \subseteq {d} /\ ~Copying(t)' /\ ~Copying(t)
  BY <1>d, <1>1 DEF Uses, Copying, Owning, Served
<1>5. CallRight(t)'
  BY <1>1, <1>3, <1>4 DEF CallRight, Owning, Opening
<1>6. EntryRight(d)'
  <2>1. \A x \in Threads : Copying(x)' <=> Copying(x)
    BY <1>1, <1>4 DEF Copying
  <2>2. ClosedRight(d)' /\ VirtualRight(d)'
    <3>1. ASSUME NEW x \in Threads, Copying(x)
          PROVE  th'[x] = th[x]
      BY <1>1, <1>4, <3>1
    <3> QED
      BY <1>2, <1>3, <2>1, <3>1 DEF EntryRight, ClosedRight, VirtualRight
  <2>3. OpenRight(d)'
    BY <1>1, <1>2, <1>3 DEF EntryRight, OpenRight
  <2> QED
    BY <2>2, <2>3 DEF EntryRight
<1>7. \A x \in Threads \ {t} : th[x].pc \in Owning => th[x].fd \notin Uses(t)'
  <2>1. \A x \in Threads \ {t} : th[x].pc \in Owning => th[x].fd # d
    BY <1>3 DEF TableInv, CallRight, Alone
  <2> QED
    BY <1>4, <2>1
<1>8. Busy(t) => th[t].fd = d
  BY <1>d
<1> QED
  BY <1>d, <1>1, <1>2, <1>3, <1>5, <1>6, <1>7, <1>8, TableFrame

(* A call is made on a descriptor that the media server has.               *)
LEMMA CallBegins ==
    ASSUME TableType, TableInv,
           NEW t \in Threads, th[t].pc = "idle", NEW d \in Fds, Held(d),
           NEW s, th' = [th EXCEPT ![t] = s],
           s.fd = d, s.pc \in Served \cup {"seek"},
           UNCHANGED <<kern, vfd>>, past'.over = past.over, past'.missed = past.missed
    PROVE  TableInv'
<1>1. /\ \A x \in Threads \ {t} : th'[x] = th[x]
      /\ th'[t] = s /\ s.pc \notin Owning
  BY DEF TableType, Opening, Owning, Served
<1>2. Uses(t)' = {d} /\ ~Copying(t)' /\ ~Copying(t)
  BY <1>1 DEF Uses, Copying, Owning, Served
<1>3. kern[d] # None /\ \A x \in Threads : th[x].fd = d => th[x].pc \notin Owning
  BY DEF Held, Owning, Opening
<1>4. CallRight(t)'
  BY <1>1, <1>2, <1>3 DEF CallRight, Owning, Opening
<1>5. EntryRight(d)'
  <2>1. EntryRight(d)
    BY DEF TableInv
  <2>2. \A x \in Threads : /\ Copying(x)' <=> Copying(x)
                           /\ Copying(x) => th'[x] = th[x]
    BY <1>1, <1>2 DEF Copying
  <2>3. VirtualRight(d)' /\ ClosedRight(d)'
    BY <2>1, <2>2 DEF EntryRight, VirtualRight, ClosedRight
  <2>4. OpenRight(d)'
    BY <1>3, <2>1 DEF EntryRight, OpenRight
  <2> QED
    BY <2>3, <2>4 DEF EntryRight
<1>6. \A x \in Threads \ {t} : th[x].pc \in Owning => th[x].fd \notin Uses(t)'
  BY <1>2, <1>3
<1>7. ~Busy(t)
  BY DEF Busy
<1> QED
  BY <1>1, <1>4, <1>5, <1>6, <1>7, TableFrame

(* A descriptor that is not open is used by no call.                       *)
LEMMA FreeIsUnused ==
    ASSUME TableInv, NEW d \in Fds, kern[d] = None
    PROVE  ~vfd[d].active /\ \A x \in Threads : d \notin Uses(x)
BY DEF TableInv, CallRight, EntryRight, ClosedRight

LEMMA OpenTables ==
    ASSUME TableType, TableInv,
           NEW t \in Threads, NEW f \in setup.titles \cup {Plain}, Open(t, f)
    PROVE  TableInv'
<1>d. PICK d \in Fds : d = Min(FreeFds) /\ kern[d] = None
  BY OpenFds DEF Open, FreeFds, TableType
<1> DEFINE s == [Idle EXCEPT !.pc = "minfo", !.fd = d, !.title = f]
<1>k. PICK skip \in BOOLEAN : skip <=> f = Plain \/ Hooked(t)
  OBVIOUS
<1>1. d \in Fds /\ kern[d] = None /\ f \in Titles \cup {Plain} /\ f # None
  BY <1>d, SetupTyped, SporeConstants DEF TableType
<1>2. /\ kern' = [kern EXCEPT ![d] = f] /\ UNCHANGED vfd
      /\ past'.over = past.over \ {d} /\ th[t].pc = "idle"
      /\ past'.missed = IF f # Plain /\ Hooked(t) THEN past.missed \cup {d}
                        ELSE past.missed \ {d}
      /\ th' = IF skip THEN th ELSE [th EXCEPT ![t] = s]
  BY <1>d, <1>k DEF Open, TableType, History
<1>3. s.pc = "minfo" /\ s.fd = d /\ s.title = f
  BY DEF Idle
<1> HIDE DEF s
<1>4. ~vfd[d].active /\ \A x \in Threads : d \notin Uses(x)
  BY <1>1, FreeIsUnused
<1>5. /\ \A x \in Threads \ {t} : th'[x] = th[x]
      /\ IF skip THEN th'[t] = th[t] ELSE th'[t] = s
  BY <1>2 DEF TableType
<1>6. kern'[d] = f /\ \A x \in Fds \ {d} : kern'[x] = kern[x]
  BY <1>1, <1>2 DEF TableType
<1>7. Uses(t)' \subseteq {d} /\ ~Copying(t)'
  BY <1>2, <1>3, <1>5 DEF Uses, Copying
<1>8. CallRight(t)'
  <2>1. Alone(t)' \/ skip
    BY <1>3, <1>4, <1>5 DEF Alone, Uses, Copying
  <2>2. CASE skip
    BY <1>2, <1>5, <2>2 DEF CallRight, Uses, Copying, Opening, Owning
  <2>3. CASE ~skip
    BY <1>1, <1>2, <1>3, <1>4, <1>5, <1>6, <1>7, <2>1, <2>3 DEF CallRight, Opening, Owning
  <2> QED
    BY <2>2, <2>3
<1>9. EntryRight(d)'
  <2>1. ClosedRight(d)' /\ VirtualRight(d)'
    BY <1>2, <1>4 DEF ClosedRight, VirtualRight
  <2>2. OpenRight(d)'
    <3>1. Plain \notin Titles
      BY SporeConstants
    <3>2. CASE skip
      BY <1>k, <1>2, <1>6, <3>1, <3>2 DEF OpenRight
    <3>3. CASE ~skip
      BY <1>3, <1>5, <3>3 DEF OpenRight, Owning, Opening
    <3> QED
      BY <3>2, <3>3
  <2> QED
    BY <2>1, <2>2 DEF EntryRight
<1>10. /\ \A x \in Fds \ {d} : /\ x \in past'.over <=> x \in past.over
                               /\ x \in past'.missed <=> x \in past.missed
       /\ \A x \in Threads \ {t} : th[x].pc \in Owning => th[x].fd \notin Uses(t)'
  <2>1. \A x \in Threads : th[x].pc \in Owning => th[x].fd \in Uses(x)
    BY DEF Owning, Opening, Uses
  <2> QED
    BY <1>2, <1>4, <1>7, <2>1
<1>11. ~Busy(t)
  BY <1>2 DEF Busy
<1> QED
  BY <1>1, <1>2, <1>4, <1>5, <1>6, <1>8, <1>9, <1>10, <1>11, TableFrame

(* What an opening or closing thread does on its own descriptor.           *)
LEMMA OwnStep ==
    ASSUME TableType, TableInv, NEW t \in Threads, th[t].pc \in Owning,
           NEW d \in Fds, d = th[t].fd,
           NEW s, th' = [th EXCEPT ![t] = s],
           s.pc = "idle" \/ (s.fd = d /\ s.pc \in Opening),
           \A x \in Fds \ {d} :
               /\ kern'[x] = kern[x] /\ vfd'[x].token = vfd[x].token
               /\ vfd'[x].active = vfd[x].active
               /\ x \in past'.over <=> x \in past.over
               /\ x \in past'.missed <=> x \in past.missed,
           CallRight(t)', EntryRight(d)'
    PROVE  TableInv'
<1>1. \A x \in Threads \ {t} : th'[x] = th[x]
  BY DEF TableType
<1>2. th'[t] = s
  BY DEF TableType
<1>3. \A x \in Threads \ {t} : d \notin Uses(x)
  BY DEF TableInv, CallRight, Alone
<1>4. Uses(t)' \subseteq {d}
  BY <1>2 DEF Uses, Copying, Opening
<1>5. \A x \in Threads \ {t} : th[x].pc \in Owning => th[x].fd \notin Uses(t)'
  <2>1. \A x \in Threads \ {t} : th[x].pc \in Owning => th[x].fd \in Uses(x)
    BY DEF Uses, Owning, Opening
  <2> QED
    BY <1>3, <1>4, <2>1
<1> QED
  BY <1>1, <1>3, <1>5, TableFrame

LEMMA ReadMinfoTables ==
    ASSUME TableType, TableInv, NEW t \in Threads, ReadMinfo(t)
    PROVE  TableInv'
<1>d. PICK d \in Fds : d = th[t].fd
  BY DEF TableType, ThreadState
<1> DEFINE s == [th[t] EXCEPT !.pc = "register"]
<1>1. /\ th[t].pc = "minfo" /\ UNCHANGED <<kern, vfd, past>>
      /\ th' = [th EXCEPT ![t] = s]
  BY DEF ReadMinfo, TableType
<1>2. s.pc = "register" /\ s.fd = d /\ s.title = th[t].title /\ th'[t] = s
      /\ \A x \in Threads \ {t} : th'[x] = th[x]
  BY <1>d, <1>1 DEF TableType, ThreadState
<1> HIDE DEF s
<1>3. CallRight(t) /\ EntryRight(d)
  BY DEF TableInv
<1>4. Uses(t)' = {d} /\ ~Copying(t)' /\ Uses(t) = {d}
  BY <1>d, <1>1, <1>2 DEF Uses, Copying
<1>5. CallRight(t)'
  <2>1. Alone(t)'
    BY <1>d, <1>1, <1>2, <1>3 DEF CallRight, Alone, Uses, Copying, Owning, Opening
  <2> QED
    BY <1>d, <1>1, <1>2, <1>3, <1>4, <2>1 DEF CallRight, Opening, Owning
<1>6. EntryRight(d)'
  <2>1. VirtualRight(d)' /\ ClosedRight(d)'
    BY <1>d, <1>1, <1>3 DEF CallRight, Opening, VirtualRight, ClosedRight
  <2>2. OpenRight(d)'
    BY <1>2 DEF OpenRight, Owning, Opening
  <2> QED
    BY <2>1, <2>2 DEF EntryRight
<1>7. th[t].pc \in Owning /\ s.pc \in Opening
  BY <1>1, <1>2 DEF Owning, Opening
<1> QED
  BY <1>d, <1>1, <1>2, <1>5, <1>6, <1>7, OwnStep

LEMMA RegisterTables ==
    ASSUME TableType, TableInv, NEW t \in Threads, Register(t) \/ NoToken(t)
    PROVE  TableInv'
<1>d. PICK d \in Fds : d = th[t].fd
  BY DEF TableType, ThreadState
<1>1. /\ th[t].pc = "register" /\ UNCHANGED kern
      /\ th' = [th EXCEPT ![t] = Idle]
  BY DEF Register, NoToken
<1>2. Idle.pc = "idle" /\ th'[t].pc = "idle"
  BY <1>1 DEF TableType, Idle
<1>3. kern[d] = th[t].title /\ kern[d] # None /\ ~vfd[d].active
  BY <1>d, <1>1 DEF TableInv, CallRight, Opening, Uses
<1>4. CallRight(t)'
  BY <1>2 DEF CallRight, Uses, Copying, Opening, Owning
<1>5. /\ \/ vfd'[d].active /\ vfd'[d].token = th[t].title /\ UNCHANGED past
         \/ UNCHANGED vfd /\ past' = [past EXCEPT !.missed = @ \cup {d}]
      /\ \A x \in Fds \ {d} : vfd'[x] = vfd[x]
  <2>1. CASE Register(t)
    BY <1>d, <2>1 DEF Register, TableType
  <2>2. CASE NoToken(t)
    BY <1>d, <2>2 DEF NoToken
  <2> QED
    BY <2>1, <2>2
<1>6. EntryRight(d)'
  BY <1>1, <1>3, <1>5 DEF EntryRight, ClosedRight, VirtualRight, OpenRight, TableType, History
<1>7. \A x \in Fds \ {d} : /\ x \in past'.over <=> x \in past.over
                           /\ x \in past'.missed <=> x \in past.missed
  BY <1>5 DEF TableType, History
<1>8. th[t].pc \in Owning
  BY <1>1 DEF Owning, Opening
<1> QED
  BY <1>d, <1>1, <1>2, <1>4, <1>5, <1>6, <1>7, <1>8, OwnStep

LEMMA CloseTables ==
    ASSUME TableType, TableInv, NEW t \in Threads, NEW d \in Fds, Close(t, d)
    PROVE  TableInv'
<1> DEFINE s == [Idle EXCEPT !.pc = "close", !.fd = d]
<1>1. /\ th[t].pc = "idle" /\ kern[d] # None /\ UNCHANGED <<kern, past>>
      /\ \A x \in Threads : d \notin Uses(x)
      /\ th' = [th EXCEPT ![t] = s]
  BY DEF Close, Held, InUse
<1>2. /\ \A x \in Threads \ {t} : th'[x] = th[x]
      /\ th'[t] = s /\ s.pc = "close" /\ s.fd = d
  BY <1>1 DEF TableType, Idle
<1> HIDE DEF s
<1>3. ~vfd'[d].active /\ \A x \in Fds \ {d} : vfd'[x] = vfd[x]
  BY DEF Close, TableType
<1>4. Uses(t)' = {d} /\ ~Copying(t)'
  BY <1>2 DEF Uses, Copying
<1>5. CallRight(t)'
  <2>1. Alone(t)'
    BY <1>1, <1>2 DEF Alone, Uses, Copying
  <2> QED
    BY <1>1, <1>2, <1>3, <1>4, <2>1 DEF CallRight, Opening, Owning
<1>6. EntryRight(d)'
  BY <1>2, <1>3 DEF EntryRight, ClosedRight, VirtualRight, OpenRight, Owning, Opening
<1>7. /\ \A x \in Threads \ {t} : th[x].pc \in Owning => th[x].fd \notin Uses(t)'
      /\ ~Busy(t)
  <2>1. \A x \in Threads : th[x].pc \in Owning => th[x].fd \in Uses(x)
    BY DEF Owning, Opening, Uses
  <2> QED
    BY <1>1, <1>4, <2>1 DEF Busy
<1> QED
  BY <1>1, <1>2, <1>3, <1>5, <1>6, <1>7, TableFrame

LEMMA ClosingTables ==
    ASSUME TableType, TableInv, NEW t \in Threads, Closing(t)
    PROVE  TableInv'
<1>d. PICK d \in Fds : d = th[t].fd
  BY DEF TableType, ThreadState
<1>1. /\ th[t].pc = "close" /\ UNCHANGED <<vfd, past>>
      /\ kern' = [kern EXCEPT ![d] = None]
      /\ th' = [th EXCEPT ![t] = Idle]
  BY <1>d DEF Closing
<1>2. Idle.pc = "idle" /\ th'[t].pc = "idle"
  BY <1>1 DEF TableType, Idle
<1>3. ~vfd[d].active
  BY <1>d, <1>1 DEF TableInv, CallRight, Opening
<1>4. CallRight(t)'
  BY <1>2 DEF CallRight, Uses, Copying, Opening, Owning
<1>5. kern'[d] = None /\ \A x \in Fds \ {d} : kern'[x] = kern[x]
  BY <1>1 DEF TableType
<1>6. EntryRight(d)'
  <2>1. None \notin Titles
    BY SporeConstants
  <2> QED
    BY <1>1, <1>3, <1>5, <2>1 DEF EntryRight, ClosedRight, VirtualRight, OpenRight
<1>7. th[t].pc \in Owning
  BY <1>1 DEF Owning, Opening
<1> QED
  BY <1>d, <1>1, <1>2, <1>4, <1>5, <1>6, <1>7, OwnStep

(* dup and dup2: no call is in progress on the new descriptor, and none    *)
(* opens, closes or copies over the old one.                               *)
LEMMA DuplicateTables ==
    ASSUME TableType, TableInv,
           NEW t \in Threads, NEW old \in Fds, NEW new \in Fds, Duplicate(t, old, new),
           ~InUse(new)
    PROVE  TableInv'
<1> DEFINE s == [Idle EXCEPT !.pc = "copy", !.fd = new, !.from = old]
<1>1. /\ th[t].pc = "idle" /\ old # new /\ UNCHANGED vfd
      /\ kern' = [kern EXCEPT ![new] = kern[old]]
      /\ past'.over = past.over /\ past'.missed = past.missed
      /\ \A x \in Threads : new \notin Uses(x)
      /\ th' = [th EXCEPT ![t] = s]
  BY DEF Duplicate, InUse, TableType, History
<1>2. /\ \A x \in Threads \ {t} : th'[x] = th[x]
      /\ th'[t] = s /\ s.pc = "copy" /\ s.fd = new /\ s.from = old
  BY <1>1 DEF TableType, Idle
<1> HIDE DEF s
<1>3. kern[old] # None /\ \A x \in Threads : th[x].fd = old => th[x].pc \notin Owning
  BY DEF Duplicate, Held, Owning, Opening
<1>4. /\ kern'[new] = kern[old] /\ kern'[old] = kern[old]
      /\ \A x \in Fds \ {new} : kern'[x] = kern[x]
  BY <1>1 DEF TableType
<1>5. Uses(t)' = {new, old} /\ Copying(t)' /\ th'[t].fd = new /\ th'[t].from = old
  BY <1>2 DEF Uses, Copying
<1>6. CallRight(t)'
  <2>1. Alone(t)'
    BY <1>1, <1>2 DEF Alone, Uses, Copying
  <2> QED
    BY <1>1, <1>2, <1>3, <1>4, <1>5, <2>1 DEF CallRight, Opening, Owning
<1>7. EntryRight(new)'
  BY <1>2, <1>3, <1>4, <1>5 DEF EntryRight, ClosedRight, VirtualRight, OpenRight, Owning
<1>8. /\ \A x \in Threads \ {t} : th[x].pc \in Owning => th[x].fd \notin Uses(t)'
      /\ ~Busy(t)
  <2>1. \A x \in Threads : th[x].pc \in Owning => th[x].fd \in Uses(x)
    BY DEF Owning, Opening, Uses
  <2> QED
    BY <1>1, <1>3, <1>5, <2>1 DEF Busy
<1> QED
  BY <1>1, <1>2, <1>4, <1>6, <1>7, <1>8, TableFrame

(* The entry that is copied is the old descriptor's.                       *)
LEMMA CopyTables ==
    ASSUME TableType, TableInv, NEW t \in Threads, Copy(t)
    PROVE  TableInv'
<1>1. PICK old \in Fds, new \in Fds : old = th[t].from /\ new = th[t].fd
  BY DEF TableType, ThreadState
<1>2. /\ Copying(t) /\ UNCHANGED kern /\ th' = [th EXCEPT ![t] = Idle]
      /\ vfd' = IF vfd[old].active THEN [vfd EXCEPT ![new] = vfd[old]] ELSE vfd
      /\ past'.over = IF (IF vfd[old].active THEN old \in past.over
                          ELSE vfd[new].active \/ new \in past.over)
                      THEN past.over \cup {new} ELSE past.over \ {new}
      /\ past'.missed = IF vfd[old].active THEN past.missed \ {new}
                        ELSE past.missed \cup {new}
  <2>1. \A a \in BOOLEAN : (IF ~a THEN past.missed \cup {new} ELSE past.missed \ {new})
                         = IF a THEN past.missed \ {new} ELSE past.missed \cup {new}
    OBVIOUS
  <2>2. vfd[old].active \in BOOLEAN
    BY DEF TableType
  <2> QED
    BY <1>1, <2>1, <2>2 DEF Copy, CopyVfd, TableType, History
<1>3. Idle.pc = "idle" /\ th'[t].pc = "idle" /\ th[t].pc = "copy"
  BY <1>2 DEF TableType, Idle, Copying
<1>4. /\ \A x \in Fds \ {new} : /\ vfd'[x] = vfd[x]
                                /\ x \in past'.over <=> x \in past.over
                                /\ x \in past'.missed <=> x \in past.missed
      /\ vfd'[new] = IF vfd[old].active THEN vfd[old] ELSE vfd[new]
  <2>1. \A x \in Fds \ {new} : /\ x \in past'.over <=> x \in past.over
                               /\ x \in past'.missed <=> x \in past.missed
    <3>1. /\ past'.over \in {past.over \cup {new}, past.over \ {new}}
          /\ past'.missed \in {past.missed \cup {new}, past.missed \ {new}}
      BY <1>2
    <3> QED
      BY <3>1
  <2>2. \A x \in Fds \ {new} : vfd'[x] = vfd[x]
    BY <1>2 DEF TableType
  <2>3. vfd'[new] = IF vfd[old].active THEN vfd[old] ELSE vfd[new]
    BY <1>2 DEF TableType
  <2> QED
    BY <2>1, <2>2, <2>3
<1>5. old # new /\ kern[new] = kern[old] /\ kern[new] # None /\ old \in Uses(t) /\ Alone(t)
  BY <1>1, <1>2, <1>3 DEF TableInv, CallRight, Uses, Owning
<1>6. CallRight(t)'
  BY <1>3 DEF CallRight, Uses, Copying, Opening, Owning
<1>7. EntryRight(new)'
  <2>1. ClosedRight(new)'
    BY <1>2, <1>5 DEF ClosedRight
  <2>2. VirtualRight(new)'
    <3> SUFFICES ASSUME vfd'[new].active, new \notin past'.over
                 PROVE  kern'[new] = vfd'[new].token
      BY DEF VirtualRight
    <3>1. vfd[old].active /\ old \notin past.over /\ vfd'[new] = vfd[old]
      BY <1>2, <1>4
    <3>2. \A x \in Threads : Copying(x) => th[x].fd # old
      <4> SUFFICES ASSUME NEW x \in Threads, Copying(x), th[x].fd = old
                   PROVE  FALSE
        OBVIOUS
      <4>1. x # t
        BY <1>1, <1>5
      <4>2. Alone(x)
        BY DEF TableInv, CallRight, Copying, Owning
      <4> QED
        BY <1>5, <4>1, <4>2 DEF Alone
    <3>3. VirtualRight(old)
      BY DEF TableInv, EntryRight
    <3> QED
      BY <1>2, <1>5, <3>1, <3>2, <3>3 DEF VirtualRight
  <2>3. OpenRight(new)'
    BY <1>2, <1>4 DEF OpenRight
  <2> QED
    BY <2>1, <2>2, <2>3 DEF EntryRight
<1>8. th[t].pc \in Owning
  BY <1>3 DEF Owning
<1>9. UNCHANGED kern
  BY <1>2
<1> QED
  <2>1. \A x \in Fds \ {new} : vfd'[x] = vfd[x]
    BY <1>4
  <2>2. th' = [th EXCEPT ![t] = Idle]
    BY <1>2
  <2>3. \A x \in Fds \ {new} : /\ kern'[x] = kern[x] /\ vfd'[x].token = vfd[x].token
                               /\ vfd'[x].active = vfd[x].active
                               /\ x \in past'.over <=> x \in past.over
                               /\ x \in past'.missed <=> x \in past.missed
    BY <1>4, <1>9, <2>1
  <2> HIDE DEF Idle
  <2> QED
    BY <1>1, <1>3, <1>6, <1>7, <1>8, <2>2, <2>3, OwnStep

LEMMA MediaTables ==
    ASSUME TableType, ServerType, TableInv, MediaServer
    PROVE  TableInv'
<1> DEFINE Right == TableInv'
<1>1. PICK t \in Threads :
        \/ \E f \in setup.titles \cup {Plain} : Open(t, f)
        \/ ThreadStep(t)
        \/ \E d \in Fds :
            \/ Close(t, d) \/ Dup(t, d)
            \/ \E new \in Fds : Dup2(t, d, new)
            \/ \E target \in Targets : Lseek(t, d, target)
            \/ \E op \in {"read", "pread", "send"}, n \in Counts :
                  \E offset \in IF op = "pread" THEN Targets ELSE {0} :
                      Read(t, d, op, offset, n)
  BY DEF MediaServer
<1>2. th[t] \in ThreadState /\ th[t].pos \in Nat /\ th[t].fd \in Fds
  BY DEF TableType, ThreadState
<1>3. Idle.pc = "idle"
  BY DEF Idle
<1>4. ASSUME Refused(t), th[t].pc \in Served, UNCHANGED kern, past'.over = past.over,
              past'.missed = past.missed
      PROVE  Right
  <2>1. th' = [th EXCEPT ![t] = Idle]
    BY <1>4 DEF Refused
  <2>2. vfd' = vfd \/ \E p \in Nat : vfd' = [vfd EXCEPT ![th[t].fd].pos = p]
    BY <1>2, <1>4 DEF Refused, SetPosition
  <2> QED
    BY <1>3, <1>4, <2>1, <2>2, CallGoesOn
<1>5. CASE Seek(t)
  <2>1. th' = [th EXCEPT ![t] = Idle] /\ th[t].pc = "seek" /\ UNCHANGED <<kern, past>>
    BY <1>5 DEF Seek
  <2>2. vfd' = vfd \/ \E p \in Nat : vfd' = [vfd EXCEPT ![th[t].fd].pos = p]
    BY <1>2, <1>5 DEF Seek, SetPosition
  <2> QED
    BY <1>3, <2>1, <2>2, CallGoesOn
<1>6. CASE Handle(t)
  <2>1. /\ th[t].pc \in Served /\ UNCHANGED kern
        /\ past' = past \/ \E e \in {"end", "raw"} : Happened(th[t].title, e)
        /\ \/ Refused(t)
           \/ th' = [th EXCEPT ![t].pc = "retry"] /\ UNCHANGED vfd
           \/ \E data : th' = [th EXCEPT ![t].pc = "advance", ![t].data = data] /\ UNCHANGED vfd
    BY <1>6 DEF Handle, Served
  <2>2. past'.over = past.over /\ past'.missed = past.missed
    BY <1>2, <2>1, EventNoted DEF ThreadState, Marks
  <2>3. CASE Refused(t)
    BY <1>4, <2>1, <2>2, <2>3
  <2>4. CASE th' = [th EXCEPT ![t].pc = "retry"] /\ UNCHANGED vfd
    <3> DEFINE s == [th[t] EXCEPT !.pc = "retry"]
    <3>1. th' = [th EXCEPT ![t] = s] /\ s.pc = "retry" /\ s.fd = th[t].fd
      BY <1>2, <2>4 DEF ThreadState
    <3> HIDE DEF s
    <3>2. s.pc \in Served
      BY <3>1 DEF Served
    <3> QED
      BY <2>1, <2>2, <2>4, <3>1, <3>2, CallGoesOn
  <2>5. ASSUME NEW data, th' = [th EXCEPT ![t].pc = "advance", ![t].data = data], UNCHANGED vfd
        PROVE  Right
    <3> DEFINE s == [th[t] EXCEPT !.pc = "advance", !.data = data]
    <3>1. th' = [th EXCEPT ![t] = s] /\ s.pc = "advance" /\ s.fd = th[t].fd
      BY <1>2, <2>5 DEF ThreadState, TableType
    <3> HIDE DEF s
    <3>2. s.pc \in Served
      BY <3>1 DEF Served
    <3> QED
      BY <2>1, <2>2, <2>5, <3>1, <3>2, CallGoesOn
  <2> QED
    BY <2>1, <2>3, <2>4, <2>5
<1>7. CASE HandleAgain(t)
  <2>1. /\ th[t].pc \in Served /\ UNCHANGED <<kern, past>>
        /\ \/ Refused(t)
           \/ \E data : th' = [th EXCEPT ![t].pc = "advance", ![t].data = data] /\ UNCHANGED vfd
    BY <1>7 DEF HandleAgain, Served
  <2>2. CASE Refused(t)
    BY <1>4, <2>1, <2>2
  <2>3. ASSUME NEW data, th' = [th EXCEPT ![t].pc = "advance", ![t].data = data], UNCHANGED vfd
        PROVE  Right
    <3> DEFINE s == [th[t] EXCEPT !.pc = "advance", !.data = data]
    <3>1. th' = [th EXCEPT ![t] = s] /\ s.pc = "advance" /\ s.fd = th[t].fd
      BY <1>2, <2>3 DEF ThreadState, TableType
    <3> HIDE DEF s
    <3>2. s.pc \in Served
      BY <3>1 DEF Served
    <3> QED
      BY <2>1, <2>3, <3>1, <3>2, CallGoesOn
  <2> QED
    BY <2>1, <2>2, <2>3
<1>8. CASE Advance(t)
  <2> DEFINE me   == th[t]
             pos  == me.pos + Len(me.data)
             left == me.count - Len(me.data)
             s    == [me EXCEPT !.pc = "fetch", !.pos = pos, !.count = left, !.data = <<>>]
  <2>1. /\ me.pc = "advance" /\ UNCHANGED <<kern, past>>
        /\ \/ th' = [th EXCEPT ![t] = s] /\ UNCHANGED vfd
           \/ /\ th' = [th EXCEPT ![t] = Idle]
              /\ \/ SetPosition(me.fd, vfd[me.fd].pos + Len(me.data))
                 \/ SetPosition(me.fd, pos)
                 \/ UNCHANGED vfd
    <3>1. me.op \in {"read", "pread", "send"}
      BY <1>2 DEF ThreadState
    <3> QED
      BY <1>8, <3>1 DEF Advance
  <2>2. s.pc = "fetch" /\ s.fd = th[t].fd
    BY <1>2 DEF ThreadState
  <2>3. Len(me.data) \in Nat
    <3>1. me.data \in Seq(Bytes)
      BY <1>2 DEF ThreadState
    <3> QED
      BY <3>1, LenProperties
  <2>4. pos \in Nat /\ vfd[me.fd].pos + Len(me.data) \in Nat
    BY <1>2, <2>3 DEF TableType
  <2> HIDE DEF s, pos
  <2>5. vfd' = vfd \/ \E p \in Nat : vfd' = [vfd EXCEPT ![th[t].fd].pos = p]
    BY <2>1, <2>4 DEF SetPosition
  <2>6. th[t].pc \in Served /\ s.pc \in Served /\ past'.over = past.over
        /\ past'.missed = past.missed
    BY <2>1, <2>2 DEF Served
  <2>7. CASE th' = [th EXCEPT ![t] = s]
    BY <2>1, <2>2, <2>5, <2>6, <2>7, CallGoesOn
  <2>8. CASE th' = [th EXCEPT ![t] = Idle]
    BY <1>3, <2>1, <2>5, <2>6, <2>8, CallGoesOn
  <2> QED
    BY <2>1, <2>7, <2>8
<1>9. ASSUME NEW d \in Fds, NEW target \in Targets, Lseek(t, d, target)
      PROVE  Right
  <2> DEFINE s == [Idle EXCEPT !.pc = "seek", !.fd = d, !.pos = target]
  <2>1. s.fd = d /\ s.pc = "seek"
    BY DEF Idle
  <2>2. /\ th[t].pc = "idle" /\ Held(d) /\ UNCHANGED <<kern, vfd>>
        /\ th' = [th EXCEPT ![t] = s] /\ past'.over = past.over /\ past'.missed = past.missed
    BY <1>9 DEF Lseek, TableType, History
  <2> HIDE DEF s
  <2> QED
    BY <2>1, <2>2, CallBegins
<1>10. ASSUME NEW d \in Fds, NEW op \in {"read", "pread", "send"}, NEW n \in Counts,
              NEW offset \in IF op = "pread" THEN Targets ELSE {0},
              Read(t, d, op, offset, n)
       PROVE  Right
  <2> DEFINE s == [Idle EXCEPT !.pc = "fetch", !.op = op, !.fd = d,
                               !.title = vfd[d].token, !.count = n,
                               !.pos = IF op = "pread" THEN offset ELSE vfd[d].pos]
  <2>1. s.fd = d /\ s.pc \in Served
    BY DEF Served, Idle
  <2>2. /\ th[t].pc = "idle" /\ Held(d) /\ UNCHANGED <<kern, vfd>>
        /\ UNCHANGED <<hook, got>>
        /\ th' = th \/ th' = [th EXCEPT ![t] = s]
    BY <1>10 DEF Read
  <2>3. past'.over = past.over /\ past'.missed = past.missed
    BY <1>10 DEF Read, TableType, History
  <2> HIDE DEF s
  <2>4. CASE th' = th
    <3>1. \A x \in Threads : CallRight(x)'
      BY <2>2, <2>4 DEF TableInv, CallRight, Alone, Uses, Copying
    <3>2. \A x \in Fds : EntryRight(x)'
      BY <2>2, <2>3, <2>4 DEF TableInv, EntryRight, ClosedRight, VirtualRight, OpenRight,
                              Copying
    <3> QED
      BY <3>1, <3>2 DEF TableInv
  <2>5. CASE th' = [th EXCEPT ![t] = s]
    BY <2>1, <2>2, <2>3, <2>5, CallBegins
  <2> QED
    BY <2>2, <2>4, <2>5
<1>11. ASSUME NEW d \in Fds, Dup(t, d) \/ \E new \in Fds : Dup2(t, d, new)
       PROVE  Right
  <2>1. CASE Dup(t, d)
    <3>1. Min(FreeFds) \in Fds /\ kern[Min(FreeFds)] = None
      BY <2>1, OpenFds DEF Dup, FreeFds, TableType
    <3>2. ~InUse(Min(FreeFds))
      BY <3>1, FreeIsUnused DEF InUse
    <3> QED
      BY <2>1, <3>1, <3>2, DuplicateTables DEF Dup
  <2>2. ASSUME NEW new \in Fds, Dup2(t, d, new)
        PROVE  Right
    BY <2>2, DuplicateTables DEF Dup2
  <2> QED
    BY <1>11, <2>1, <2>2
<1> QED
  BY <1>1, <1>5, <1>6, <1>7, <1>8, <1>9, <1>10, <1>11, OpenTables, ReadMinfoTables,
     RegisterTables, CloseTables, ClosingTables, CopyTables DEF ThreadStep

(***************************************************************************)
(* Reading in order                                                        *)
(***************************************************************************)

Positions(d) == {pair[1] : pair \in got[d]}
InOrder(d)   == d \notin past.moved \cup past.over

Sole(t)      == \A s \in Threads \ {t} : Busy(s) => th[s].fd # th[t].fd

(* A descriptor no call is using has received what is before its position, *)
(* and one that a call is using what is before the call's.                 *)
ReadInOrder(d) == vfd[d].active /\ InOrder(d) /\ ~OnCall(d) =>
                      Positions(d) = 0 .. (vfd[d].pos - 1)
CallInOrder(t) ==
    /\ th[t].pc \in {"minfo", "register"} => got[th[t].fd] = {}
    /\ th[t].pc \in {"seek", "copy"} => th[t].fd \in past.moved
    /\ th[t].pc \in Served /\ InOrder(th[t].fd) =>
         /\ th[t].op # "pread" /\ vfd[th[t].fd].active /\ Sole(t)
         /\ Positions(th[t].fd) = 0 .. (th[t].pos - 1)
         /\ th[t].op = "read" => vfd[th[t].fd].pos = th[t].pos
GapInv == (\A d \in Fds : ReadInOrder(d)) /\ \A t \in Threads : CallInOrder(t)

LEMMA GapStarts == BridgeType /\ Init => GapInv
<1> SUFFICES ASSUME Init, BridgeType
             PROVE  GapInv
  OBVIOUS
<1>1. \A d \in Fds : ~vfd[d].active
  BY DEF Init, Closed
<1>2. \A t \in Threads : th[t].pc = "idle"
  BY DEF Init, Idle
<1> QED
  BY <1>1, <1>2 DEF GapInv, ReadInOrder, CallInOrder, Served

LEMMA QuietGap ==
    ASSUME Quiet, TableType, GapInv
    PROVE  GapInv'
<1>1. UNCHANGED <<kern, vfd, hook, th>> /\ \A t \in Threads : th[t].fd \in Fds
  BY DEF Quiet, TableType, ThreadState
<1>2. \A d \in Fds : Positions(d)' = Positions(d) /\ InOrder(d)' = InOrder(d)
                     /\ got'[d] = got[d]
  BY DEF Quiet, Positions, InOrder
<1>3. \A d \in Fds : ReadInOrder(d)'
  BY <1>1, <1>2 DEF GapInv, ReadInOrder, OnCall
<1>4. \A t \in Threads : CallInOrder(t)'
  <2> SUFFICES ASSUME NEW t \in Threads
               PROVE  CallInOrder(t)'
    OBVIOUS
  <2>1. CallInOrder(t) /\ th[t].fd \in Fds
    BY <1>1 DEF GapInv
  <2>2. past'.moved = past.moved
    BY DEF Quiet
  <2>3. Sole(t)' = Sole(t)
    BY <1>1 DEF Sole, Busy
  <2> QED
    BY <1>1, <1>2, <2>1, <2>2, <2>3 DEF CallInOrder
<1> QED
  BY <1>3, <1>4 DEF GapInv

(* A step of thread t that touches only descriptor d.                      *)
LEMMA GapFrame ==
    ASSUME TableType, GapInv, NEW t \in Threads, NEW d \in Fds,
           \A x \in Fds \ {d} : /\ vfd'[x] = vfd[x] /\ got'[x] = got[x]
                                /\ x \in past'.moved <=> x \in past.moved
                                /\ x \in past'.over <=> x \in past.over,
           \A s \in Threads \ {t} : th'[s] = th[s],
           Busy(t) => th[t].fd = d, Busy(t)' => th'[t].fd = d,
           ReadInOrder(d)', CallInOrder(t)',
           \A s \in Threads \ {t} : Busy(s) /\ th[s].fd = d => CallInOrder(s)'
    PROVE  GapInv'
<1>1. \A x \in Fds \ {d} : Positions(x)' = Positions(x) /\ (InOrder(x)' <=> InOrder(x))
  BY DEF Positions, InOrder
<1>2. \A x \in Fds \ {d} : OnCall(x)' <=> OnCall(x)
  BY DEF OnCall, Busy
<1>3. \A x \in Fds : ReadInOrder(x)'
  BY <1>1, <1>2 DEF GapInv, ReadInOrder
<1>4. \A s \in Threads : CallInOrder(s)'
  <2> SUFFICES ASSUME NEW s \in Threads \ {t}, ~(Busy(s) /\ th[s].fd = d)
               PROVE  CallInOrder(s)'
    OBVIOUS
  <2>1. CallInOrder(s) /\ th'[s] = th[s] /\ th[s].fd \in Fds
    BY DEF GapInv, TableType, ThreadState
  <2>2. CASE ~Busy(s)
    BY <2>1, <2>2 DEF CallInOrder, Busy, Served
  <2>3. CASE th[s].fd # d
    <3>1. Sole(s) => Sole(s)'
      BY <2>1, <2>3 DEF Sole, Busy
    <3> QED
      BY <1>1, <2>1, <2>3, <3>1 DEF CallInOrder
  <2> QED
    BY <2>2, <2>3
<1> QED
  BY <1>3, <1>4 DEF GapInv

(* A step of a thread's call: the other calls on its descriptor are there  *)
(* only when the descriptor is not read in order.                          *)
LEMMA GapOfCall ==
    ASSUME TableType, TableInv, GapInv, NEW t \in Threads, NEW d \in Fds, th[t].fd = d,
           th[t].pc \in Served \cup {"seek"},
           NEW s, th' = [th EXCEPT ![t] = s],
           s.pc = "idle" \/ (s.fd = d /\ s.pc \in Served /\ s.op = th[t].op),
           past'.moved = past.moved, past'.over = past.over,
           \A x \in Fds \ {d} : vfd'[x] = vfd[x] /\ got'[x] = got[x],
           vfd'[d].active = vfd[d].active,
           th[t].pc \in Served /\ InOrder(d) =>
               /\ s.pc = "idle" => Positions(d)' = 0 .. (vfd'[d].pos - 1)
               /\ s.pc # "idle" => /\ Positions(d)' = 0 .. (s.pos - 1)
                                   /\ s.op = "read" => vfd'[d].pos = s.pos
    PROVE  GapInv'
<1>1. /\ \A x \in Threads \ {t} : th'[x] = th[x]
      /\ th'[t] = s /\ Busy(t) /\ CallInOrder(t) /\ InOrder(d)' = InOrder(d)
  BY DEF TableType, Busy, Served, GapInv, InOrder
<1>2. th[t].pc = "seek" => ~InOrder(d)
  BY <1>1 DEF CallInOrder, InOrder
<1>3. InOrder(d) => /\ th[t].pc \in Served /\ Sole(t) /\ vfd[d].active /\ th[t].op # "pread"
  BY <1>1, <1>2 DEF CallInOrder
<1>4. ReadInOrder(d)'
  <2> SUFFICES ASSUME InOrder(d), ~OnCall(d)'
               PROVE  Positions(d)' = 0 .. (vfd'[d].pos - 1)
    BY <1>1 DEF ReadInOrder
  <2>1. s.pc = "idle"
    BY <1>1 DEF OnCall
  <2> QED
    BY <1>3, <2>1
<1>5. CallInOrder(t)'
  <2>1. CASE s.pc = "idle"
    BY <1>1, <2>1 DEF CallInOrder, Served
  <2>2. CASE s.fd = d /\ s.pc \in Served /\ s.op = th[t].op
    <3>1. s.pc \notin {"idle", "minfo", "register", "seek", "copy"}
      BY <2>2 DEF Served
    <3>2. Sole(t) => Sole(t)'
      BY <1>1, <2>2 DEF Sole, Busy
    <3> QED
      BY <1>1, <1>3, <2>2, <3>1, <3>2 DEF CallInOrder
  <2> QED
    BY <2>1, <2>2
<1>6. ASSUME NEW x \in Threads \ {t}, Busy(x), th[x].fd = d
      PROVE  CallInOrder(x)'
  <2>1. th[x].pc \notin Opening
    <3>1. d \in Uses(t) /\ (th[x].pc \in Opening => Alone(x))
      BY <1>1 DEF TableInv, CallRight, Uses, Busy, Owning
    <3> QED
      BY <1>6, <3>1 DEF Alone
  <2>2. ~InOrder(d)
    BY <1>3, <1>6 DEF Sole
  <2>3. CallInOrder(x) /\ th'[x] = th[x]
    BY <1>1 DEF GapInv
  <2> QED
    BY <1>1, <1>6, <2>1, <2>2, <2>3 DEF CallInOrder, Opening
<1>7. Busy(t)' => th'[t].fd = d
  BY <1>1 DEF Busy
<1> QED
  BY <1>1, <1>4, <1>5, <1>6, <1>7, GapFrame

LEMMA GapOfOpening ==
    ASSUME TableType, TableInv, GapInv,
           NEW t \in Threads,
           \/ \E f \in setup.titles \cup {Plain} : Open(t, f)
           \/ ReadMinfo(t) \/ Register(t) \/ NoToken(t) \/ Closing(t)
           \/ \E d \in Fds : Close(t, d)
    PROVE  GapInv'
<1>0. /\ Idle.pc = "idle" /\ \A x \in Threads : th[x].fd \in Fds
      /\ CallRight(t) /\ CallInOrder(t)
  BY DEF Idle, TableType, ThreadState, TableInv, GapInv
<1>1. ASSUME NEW f \in setup.titles \cup {Plain}, Open(t, f)
      PROVE  GapInv'
  <2>1. PICK d \in Fds : d = Min(FreeFds) /\ kern[d] = None
    BY <1>1, OpenFds DEF Open, FreeFds, TableType
  <2> DEFINE s == [Idle EXCEPT !.pc = "minfo", !.fd = d, !.title = f]
  <2>2. /\ UNCHANGED vfd /\ th[t].pc = "idle" /\ got' = [got EXCEPT ![d] = {}]
        /\ past'.moved = past.moved \ {d} /\ past'.over = past.over \ {d}
        /\ th' = th \/ th' = [th EXCEPT ![t] = s]
    BY <1>1, <2>1 DEF Open, TableType, History
  <2>3. s.pc = "minfo" /\ s.fd = d
    BY DEF Idle
  <2> HIDE DEF s
  <2>4. ~vfd[d].active /\ \A x \in Threads : Busy(x) => th[x].fd # d
    BY <2>1, FreeIsUnused DEF Uses, Busy
  <2>5. /\ \A x \in Threads \ {t} : th'[x] = th[x]
        /\ th'[t] = th[t] \/ (th'[t].pc = "minfo" /\ th'[t].fd = d)
    BY <2>2, <2>3 DEF TableType
  <2>6. /\ \A x \in Fds \ {d} : got'[x] = got[x]
        /\ got'[d] = {}
    BY <2>1, <2>2 DEF TableType, Readers
  <2>7. ReadInOrder(d)'
    BY <2>2, <2>4 DEF ReadInOrder
  <2>8. CallInOrder(t)'
    BY <2>2, <2>5, <2>6 DEF CallInOrder, Served
  <2>9. ~Busy(t) /\ (Busy(t)' => th'[t].fd = d)
    BY <2>2, <2>5 DEF Busy
  <2> QED
    BY <2>1, <2>2, <2>4, <2>5, <2>6, <2>7, <2>8, <2>9, GapFrame
<1>d. PICK d \in Fds : d = th[t].fd
  BY <1>0
<1>s. ASSUME th[t].pc \in Opening
      PROVE  Sole(t) /\ ~vfd[d].active
  BY <1>0, <1>d, <1>s DEF CallRight, Owning, Alone, Sole, Uses, Busy
<1>2. CASE ReadMinfo(t)
  <2>1. /\ th[t].pc = "minfo" /\ UNCHANGED <<vfd, got, past>>
        /\ th' = [th EXCEPT ![t].pc = "register"]
    BY <1>2, <1>d DEF ReadMinfo
  <2>2. /\ \A x \in Threads \ {t} : th'[x] = th[x]
        /\ th'[t].pc = "register" /\ th'[t].fd = d
    BY <1>d, <2>1 DEF TableType, ThreadState
  <2>3. Sole(t) /\ ~vfd[d].active /\ got[d] = {}
    BY <1>0, <1>d, <1>s, <2>1 DEF Opening, CallInOrder
  <2>4. ReadInOrder(d)' /\ CallInOrder(t)'
    BY <2>1, <2>2, <2>3 DEF ReadInOrder, CallInOrder, Served
  <2>5. d \in Fds /\ th[t].fd = d /\ th'[t].fd = d
    BY <1>0, <1>d, <2>2
  <2> QED
    BY <2>1, <2>2, <2>3, <2>4, <2>5, GapFrame DEF Sole
<1>3. CASE Register(t)
  <2>1. /\ th[t].pc = "register" /\ UNCHANGED <<got, past>>
        /\ th' = [th EXCEPT ![t] = Idle]
        /\ vfd' = [vfd EXCEPT ![d] = [active |-> TRUE, token |-> th[t].title, pos |-> 0]]
    BY <1>3, <1>d DEF Register
  <2>2. /\ \A x \in Threads \ {t} : th'[x] = th[x]
        /\ th'[t].pc = "idle"
    BY <1>0, <1>d, <2>1 DEF TableType
  <2>3. Sole(t) /\ got[d] = {}
    BY <1>0, <1>d, <1>s, <2>1 DEF Opening, CallInOrder
  <2>4. /\ \A x \in Fds \ {d} : vfd'[x] = vfd[x]
        /\ vfd'[d].pos = 0
    BY <1>0, <1>d, <2>1 DEF TableType
  <2>5. CallInOrder(t)'
    BY <2>2 DEF CallInOrder, Served
  <2>6. ReadInOrder(d)'
    <3>1. Positions(d)' = {}
      BY <2>1, <2>3 DEF Positions
    <3>2. vfd'[d].pos = 0 /\ 0 .. (0 - 1) = {}
      BY <2>4
    <3> QED
      BY <3>1, <3>2 DEF ReadInOrder
  <2>7. d \in Fds /\ th[t].fd = d
    BY <1>0, <1>d
  <2>8. ~Busy(t)'
    BY <2>2 DEF Busy
  <2>9. \A x \in Fds \ {d} : vfd'[x] = vfd[x] /\ got'[x] = got[x]
    BY <2>1, <2>4, <2>7
  <2> QED
    BY <2>1, <2>2, <2>3, <2>5, <2>6, <2>7, <2>8, <2>9, GapFrame DEF Sole
<1>3a. CASE NoToken(t)
  <2>1. /\ th[t].pc = "register" /\ UNCHANGED <<vfd, got>>
        /\ past'.moved = past.moved /\ past'.over = past.over
        /\ th' = [th EXCEPT ![t] = Idle]
    BY <1>3a DEF NoToken, TableType, History
  <2>2. /\ \A x \in Threads \ {t} : th'[x] = th[x]
        /\ th'[t].pc = "idle"
    BY <1>0, <1>d, <2>1 DEF TableType
  <2>3. Sole(t) /\ ~vfd[d].active
    BY <1>d, <1>s, <2>1 DEF Opening
  <2>4. CallInOrder(t)' /\ ~Busy(t)'
    BY <2>2 DEF CallInOrder, Served, Busy
  <2>5. ReadInOrder(d)'
    BY <2>1, <2>3 DEF ReadInOrder
  <2>6. d \in Fds /\ th[t].fd = d
    BY <1>0, <1>d
  <2> QED
    BY <2>1, <2>2, <2>3, <2>4, <2>5, <2>6, GapFrame DEF Sole
<1>4. CASE Closing(t)
  <2>1. /\ th[t].pc = "close" /\ UNCHANGED <<vfd, got, past>>
        /\ th' = [th EXCEPT ![t] = Idle]
    BY <1>4 DEF Closing
  <2>2. /\ \A x \in Threads \ {t} : th'[x] = th[x]
        /\ th'[t].pc = "idle"
    BY <1>0, <1>d, <2>1 DEF TableType
  <2>3. Sole(t) /\ ~vfd[d].active
    BY <1>d, <1>s, <2>1 DEF Opening
  <2>4. CallInOrder(t)' /\ ~Busy(t)'
    BY <2>2 DEF CallInOrder, Served, Busy
  <2>5. ReadInOrder(d)'
    BY <2>1, <2>3 DEF ReadInOrder
  <2>6. d \in Fds /\ th[t].fd = d
    BY <1>0, <1>d
  <2> QED
    BY <2>1, <2>2, <2>3, <2>4, <2>5, <2>6, GapFrame DEF Sole
<1>5. ASSUME NEW e \in Fds, Close(t, e)
      PROVE  GapInv'
  <2>1. /\ th[t].pc = "idle" /\ ~InUse(e) /\ UNCHANGED <<got, past>>
        /\ vfd' = [vfd EXCEPT ![e].active = FALSE]
        /\ th' = [th EXCEPT ![t] = [Idle EXCEPT !.pc = "close", !.fd = e]]
    BY <1>5 DEF Close
  <2>2. /\ \A x \in Threads \ {t} : th'[x] = th[x]
        /\ th'[t].pc = "close" /\ th'[t].fd = e
    BY <2>1 DEF TableType, Idle
  <2>3. \A x \in Threads : Busy(x) => th[x].fd # e
    BY <2>1 DEF InUse, Uses, Busy
  <2>4. /\ \A x \in Fds \ {e} : vfd'[x] = vfd[x]
        /\ ~vfd'[e].active
    BY <2>1 DEF TableType
  <2>5. CallInOrder(t)' /\ ReadInOrder(e)'
    BY <2>2, <2>4 DEF CallInOrder, ReadInOrder, Served
  <2>6. ~Busy(t)
    BY <2>1 DEF Busy
  <2> QED
    BY <2>1, <2>2, <2>3, <2>4, <2>5, <2>6, GapFrame
<1> QED
  BY <1>1, <1>2, <1>3, <1>3a, <1>4, <1>5

LEMMA GapOfDuplicate ==
    ASSUME TableType, TableInv, GapInv, NEW t \in Threads,
           NEW old \in Fds, NEW new \in Fds, Duplicate(t, old, new), ~InUse(new)
    PROVE  GapInv'
<1> DEFINE s == [Idle EXCEPT !.pc = "copy", !.fd = new, !.from = old]
<1>1. /\ th[t].pc = "idle" /\ UNCHANGED vfd
      /\ th' = [th EXCEPT ![t] = s]
      /\ got' = [got EXCEPT ![new] = {}]
      /\ past'.moved = past.moved \cup {new} /\ past'.over = past.over
  BY DEF Duplicate, TableType, History
<1>2. \A x \in Threads : Busy(x) => th[x].fd # new
  BY DEF InUse, Uses, Busy
<1>3. s.pc = "copy" /\ s.fd = new
  BY DEF Idle
<1> HIDE DEF s
<1>4. /\ \A x \in Fds \ {new} : vfd'[x] = vfd[x] /\ got'[x] = got[x]
      /\ \A x \in Threads \ {t} : th'[x] = th[x]
      /\ th'[t] = s
  BY <1>1 DEF TableType, Readers
<1>5. CallInOrder(t)'
  BY <1>1, <1>3, <1>4 DEF CallInOrder, Served
<1>6. ReadInOrder(new)'
  BY <1>1 DEF ReadInOrder, InOrder
<1>7. ~Busy(t) /\ th'[t].fd = new
  BY <1>1, <1>3, <1>4 DEF Busy
<1>8. \A x \in Fds \ {new} : /\ x \in past'.moved <=> x \in past.moved
                             /\ x \in past'.over <=> x \in past.over
  BY <1>1
<1> QED
  BY <1>2, <1>4, <1>5, <1>6, <1>7, <1>8, GapFrame

LEMMA GapOfCopy ==
    ASSUME TableType, TableInv, GapInv, NEW t \in Threads, Copy(t)
    PROVE  GapInv'
<1>1. PICK new \in Fds : new = th[t].fd
  BY DEF TableType, ThreadState
<1>2. /\ th[t].pc = "copy" /\ th' = [th EXCEPT ![t] = Idle] /\ UNCHANGED got
      /\ \A x \in Fds \ {new} : vfd'[x] = vfd[x]
  BY <1>1 DEF Copy, Copying, CopyVfd, TableType
<1>3. past'.moved = past.moved /\ past'.over \in {past.over \cup {new}, past.over \ {new}}
  <2> DEFINE A == IF vfd[th[t].from].active THEN th[t].from \in past.over
                  ELSE vfd[new].active \/ new \in past.over
             B == ~vfd[th[t].from].active
  <2>1. past' = [past EXCEPT
                    !.over = IF A THEN past.over \cup {new} ELSE past.over \ {new},
                    !.missed = IF B THEN past.missed \cup {new} ELSE past.missed \ {new}]
    BY <1>1 DEF Copy
  <2> HIDE DEF A, B
  <2> QED
    BY <2>1 DEF TableType, History
<1>4. new \in past.moved
  BY <1>1, <1>2 DEF GapInv, CallInOrder
<1>5. /\ \A x \in Threads \ {t} : th'[x] = th[x]
      /\ th'[t].pc = "idle"
  BY <1>2 DEF TableType, Idle
<1>6. ReadInOrder(new)'
  BY <1>3, <1>4 DEF ReadInOrder, InOrder
<1>7. CallInOrder(t)' /\ ~Busy(t)'
  BY <1>5 DEF CallInOrder, Served, Busy
<1>8. \A x \in Threads \ {t} : ~(Busy(x) /\ th[x].fd = new)
  BY <1>1, <1>2 DEF TableInv, CallRight, Owning, Alone, Uses, Busy
<1>9. /\ \A x \in Fds \ {new} : /\ x \in past'.moved <=> x \in past.moved
                                /\ x \in past'.over <=> x \in past.over
      /\ \A x \in Fds \ {new} : vfd'[x] = vfd[x] /\ got'[x] = got[x]
  BY <1>2, <1>3
<1> QED
  BY <1>1, <1>5, <1>6, <1>7, <1>8, <1>9, GapFrame

(* lseek marks the descriptor; a read is in order when no other call uses  *)
(* the descriptor.                                                         *)
LEMMA GapOfBeginning ==
    ASSUME TableType, TableInv, GapInv, NEW t \in Threads, NEW d \in Fds,
           \/ \E target \in Targets : Lseek(t, d, target)
           \/ \E op \in {"read", "pread", "send"}, n \in Counts :
                 \E offset \in IF op = "pread" THEN Targets ELSE {0} :
                     Read(t, d, op, offset, n)
    PROVE  GapInv'
<1>0. Held(d) /\ th[t].pc = "idle" /\ UNCHANGED vfd
  BY DEF Lseek, Read
<1>a. ASSUME NEW x \in Threads, Busy(x), th[x].fd = d
      PROVE  th[x].pc \in Served \cup {"seek"} /\ CallInOrder(x)
  BY <1>0, <1>a DEF Held, Busy, Served, TableType, ThreadState, GapInv
<1>b. ~Busy(t)
  BY <1>0 DEF Busy
<1>1. ASSUME NEW target \in Targets, Lseek(t, d, target)
      PROVE  GapInv'
  <2> DEFINE s == [Idle EXCEPT !.pc = "seek", !.fd = d, !.pos = target]
  <2>1. /\ th' = [th EXCEPT ![t] = s] /\ UNCHANGED got
        /\ past'.moved = past.moved \cup {d} /\ past'.over = past.over
    BY <1>1 DEF Lseek, TableType, History
  <2>2. s.pc = "seek" /\ s.fd = d
    BY DEF Idle
  <2> HIDE DEF s
  <2>3. /\ \A x \in Threads \ {t} : th'[x] = th[x]
        /\ th'[t] = s
    BY <2>1 DEF TableType
  <2>4. ~InOrder(d)' /\ d \in past'.moved
    BY <2>1 DEF InOrder
  <2>5. ReadInOrder(d)' /\ CallInOrder(t)'
    BY <2>2, <2>3, <2>4 DEF ReadInOrder, CallInOrder, Served
  <2>6. ASSUME NEW x \in Threads \ {t}, Busy(x), th[x].fd = d
        PROVE  CallInOrder(x)'
    BY <1>a, <2>3, <2>4, <2>6 DEF CallInOrder, Served
  <2>7. \A x \in Fds \ {d} : /\ x \in past'.moved <=> x \in past.moved
                             /\ x \in past'.over <=> x \in past.over
    BY <2>1
  <2> QED
    BY <1>0, <1>b, <2>1, <2>2, <2>3, <2>5, <2>6, <2>7, GapFrame
<1>2. ASSUME NEW op \in {"read", "pread", "send"}, NEW n \in Counts,
             NEW offset \in IF op = "pread" THEN Targets ELSE {0},
             Read(t, d, op, offset, n)
      PROVE  GapInv'
  <2> DEFINE s == [Idle EXCEPT !.pc = "fetch", !.op = op, !.fd = d,
                               !.title = vfd[d].token, !.count = n,
                               !.pos = IF op = "pread" THEN offset ELSE vfd[d].pos]
             skip == ~vfd[d].active \/ (Hooked(t) /\ op # "send")
  <2>1. CASE skip
    <3>1. UNCHANGED <<th, vfd, got>> /\ past'.moved = past.moved /\ past'.over = past.over
      BY <1>2, <2>1 DEF Read, TableType, History
    <3>2. \A x \in Fds : ReadInOrder(x)'
      BY <3>1 DEF GapInv, ReadInOrder, InOrder, OnCall, Positions
    <3>3. \A x \in Threads : CallInOrder(x)'
      BY <3>1 DEF GapInv, CallInOrder, InOrder, Positions, Sole, Busy
    <3> QED
      BY <3>2, <3>3 DEF GapInv
  <2>2. CASE ~skip
    <3>1. vfd[d].active
      BY <2>2
    <3>2. /\ th' = [th EXCEPT ![t] = s] /\ UNCHANGED got /\ past'.over = past.over
          /\ past'.moved = IF OnCall(d) \/ op = "pread" THEN past.moved \cup {d} ELSE past.moved
      BY <1>2, <2>2 DEF Read, TableType, History
    <3>3. s.pc = "fetch" /\ s.fd = d /\ s.op = op /\ (op # "pread" => s.pos = vfd[d].pos)
      BY DEF Idle
    <3> HIDE DEF s, skip
    <3>4. /\ \A x \in Threads \ {t} : th'[x] = th[x]
          /\ th'[t] = s /\ OnCall(d)'
      BY <3>2, <3>3 DEF TableType, OnCall
    <3>5. InOrder(d)' => InOrder(d) /\ ~OnCall(d) /\ op # "pread"
      BY <3>2 DEF InOrder
    <3>6. ReadInOrder(d)'
      BY <3>4 DEF ReadInOrder
    <3>7. CallInOrder(t)'
      <4>1. InOrder(d)' => Sole(t)'
        BY <3>3, <3>4, <3>5 DEF Sole, OnCall, Busy
      <4>2. InOrder(d)' => Positions(d)' = 0 .. (s.pos - 1)
        BY <3>1, <3>2, <3>3, <3>5 DEF GapInv, ReadInOrder, Positions
      <4> QED
        BY <1>0, <3>1, <3>3, <3>4, <3>5, <4>1, <4>2 DEF CallInOrder
    <3>8. ASSUME NEW x \in Threads \ {t}, Busy(x), th[x].fd = d
          PROVE  CallInOrder(x)'
      <4>1. ~InOrder(d)'
        BY <3>5, <3>8 DEF OnCall, Busy
      <4>2. past.moved \subseteq past'.moved
        BY <3>2
      <4> QED
        BY <1>a, <3>4, <3>8, <4>1, <4>2 DEF CallInOrder, Served
    <3>9. \A x \in Fds \ {d} : x \in past'.moved <=> x \in past.moved
      BY <3>2
    <3> QED
      BY <1>0, <1>b, <3>2, <3>3, <3>4, <3>6, <3>7, <3>8, <3>9, GapFrame
  <2> QED
    BY <2>1, <2>2
<1> QED
  BY <1>1, <1>2

(* A call's answer fills the gap between what the descriptor had received  *)
(* and the position behind it.                                             *)
LEMMA PairsFollow ==
    ASSUME NEW d \in Fds, NEW pos \in Nat, NEW data \in Seq(Bytes), d \in DOMAIN got,
           Positions(d) = 0 .. (pos - 1), got' = [got EXCEPT ![d] = @ \cup Pairs(pos, data)]
    PROVE  Positions(d)' = 0 .. (pos + Len(data) - 1)
<1>1. Len(data) \in Nat /\ DOMAIN data = 1 .. Len(data)
  BY LenProperties
<1>2. Positions(d)' = Positions(d) \cup {pair[1] : pair \in Pairs(pos, data)}
  BY DEF Positions
<1>3. {pair[1] : pair \in Pairs(pos, data)} = {pos + i - 1 : i \in 1 .. Len(data)}
  <2>1. \A i \in DOMAIN data : <<pos + i - 1, data[i]>>[1] = pos + i - 1
    OBVIOUS
  <2>2. ASSUME NEW pair \in Pairs(pos, data)
        PROVE  \E i \in DOMAIN data : pair[1] = pos + i - 1
    BY <2>1, <2>2 DEF Pairs
  <2>3. ASSUME NEW i \in DOMAIN data
        PROVE  \E pair \in Pairs(pos, data) : pair[1] = pos + i - 1
    <3>1. <<pos + i - 1, data[i]>> \in Pairs(pos, data)
      BY DEF Pairs
    <3> QED
      BY <2>1, <3>1
  <2> QED
    BY <1>1, <2>2, <2>3
<1>4. {pos + i - 1 : i \in 1 .. Len(data)} = pos .. (pos + Len(data) - 1)
  <2>1. ASSUME NEW x \in pos .. (pos + Len(data) - 1)
        PROVE  \E i \in 1 .. Len(data) : x = pos + i - 1
    <3>1. x - pos + 1 \in 1 .. Len(data) /\ x = pos + (x - pos + 1) - 1
      BY <1>1, <2>1
    <3> QED
      BY <3>1
  <2>2. \A i \in 1 .. Len(data) : pos + i - 1 \in pos .. (pos + Len(data) - 1)
    BY <1>1
  <2> QED
    BY <2>1, <2>2
<1>5. (0 .. (pos - 1)) \cup (pos .. (pos + Len(data) - 1)) = 0 .. (pos + Len(data) - 1)
  BY <1>1
<1> QED
  BY <1>2, <1>3, <1>4, <1>5

LEMMA GapOfServing ==
    ASSUME TableType, TableInv, GapInv, NEW t \in Threads,
           Seek(t) \/ Handle(t) \/ HandleAgain(t) \/ Advance(t)
    PROVE  GapInv'
<1> DEFINE me == th[t]
<1>1. /\ me \in ThreadState /\ me.op \in {"read", "pread", "send"} /\ me.pos \in Nat
      /\ Idle.pc = "idle" /\ CallInOrder(t) /\ me.title \in Titles
  BY DEF TableType, ThreadState, Idle, GapInv
<1>2. PICK d \in Fds : me.fd = d
  BY <1>1 DEF ThreadState
<1>3. /\ vfd[d] \in [active: BOOLEAN, token: Titles, pos: Nat] /\ d \in DOMAIN vfd
      /\ d \in DOMAIN got
  BY DEF TableType, Readers
<1>4. ASSUME NEW p \in Nat, SetPosition(d, p)
      PROVE  /\ \A x \in Fds \ {d} : vfd'[x] = vfd[x]
             /\ vfd'[d].active = vfd[d].active
             /\ vfd[d].active => vfd'[d].pos = p
  BY <1>3, <1>4 DEF SetPosition, TableType
<1>5. me.pc \in Served /\ InOrder(d) =>
         /\ me.op # "pread" /\ vfd[d].active
         /\ Positions(d) = 0 .. (me.pos - 1)
         /\ me.op = "read" => vfd[d].pos = me.pos
  BY <1>1, <1>2 DEF CallInOrder
<1> HIDE DEF me
<1>6. ASSUME Refused(t), me.pc \in Served, UNCHANGED got,
             past'.moved = past.moved, past'.over = past.over
      PROVE  GapInv'
  <2>1. th' = [th EXCEPT ![t] = Idle]
    BY <1>6 DEF Refused
  <2>2. /\ \A x \in Fds \ {d} : vfd'[x] = vfd[x]
        /\ vfd'[d].active = vfd[d].active
        /\ IF me.op = "send" THEN vfd[d].active => vfd'[d].pos = me.pos ELSE vfd'[d] = vfd[d]
    BY <1>1, <1>2, <1>4, <1>6 DEF Refused, me
  <2>3. me.pc \in Served /\ InOrder(d) => Positions(d)' = 0 .. (vfd'[d].pos - 1)
    BY <1>1, <1>5, <1>6, <2>2 DEF Positions
  <2> QED
    BY <1>1, <1>2, <1>6, <2>1, <2>2, <2>3, GapOfCall DEF me
<1>7. ASSUME NEW s, th' = [th EXCEPT ![t] = s], s.pc \in {"retry", "advance"}, s.fd = d,
             s.op = me.op, s.pos = me.pos, me.pc \in Served, UNCHANGED <<vfd, got>>,
             past'.moved = past.moved, past'.over = past.over
      PROVE  GapInv'
  <2>1. s.pc \in Served /\ s.pc # "idle"
    BY <1>7 DEF Served
  <2>2. me.pc \in Served /\ InOrder(d) =>
           /\ Positions(d)' = 0 .. (s.pos - 1)
           /\ s.op = "read" => vfd'[d].pos = s.pos
    BY <1>5, <1>7 DEF Positions
  <2> QED
    BY <1>2, <1>7, <2>1, <2>2, GapOfCall DEF me
<1>8. CASE Seek(t)
  <2>1. /\ th' = [th EXCEPT ![t] = Idle] /\ me.pc = "seek" /\ UNCHANGED <<got, past>>
        /\ SetPosition(d, me.pos)
    BY <1>2, <1>8 DEF Seek, me
  <2>2. me.pc \notin Served
    BY <2>1 DEF Served
  <2>3. /\ \A x \in Fds \ {d} : vfd'[x] = vfd[x]
        /\ vfd'[d].active = vfd[d].active
    BY <1>1, <1>4, <2>1
  <2> QED
    BY <1>1, <1>2, <2>1, <2>2, <2>3, GapOfCall DEF me
<1>9. CASE Handle(t)
  <2>1. /\ me.pc \in Served /\ UNCHANGED got
        /\ past' = past \/ \E e \in {"end", "raw"} : Happened(me.title, e)
        /\ \/ Refused(t)
           \/ th' = [th EXCEPT ![t].pc = "retry"] /\ UNCHANGED vfd
           \/ \E data : th' = [th EXCEPT ![t].pc = "advance", ![t].data = data] /\ UNCHANGED vfd
    BY <1>9 DEF Handle, Served, me
  <2>2. past'.over = past.over /\ past'.moved = past.moved
    BY <1>1, <2>1, EventNoted DEF Marks
  <2>3. CASE th' = [th EXCEPT ![t].pc = "retry"] /\ UNCHANGED vfd
    <3> DEFINE s == [me EXCEPT !.pc = "retry"]
    <3>1. th' = [th EXCEPT ![t] = s]
      BY <2>3 DEF me
    <3>2. s.pc = "retry" /\ s.fd = d /\ s.op = me.op /\ s.pos = me.pos
      BY <1>1, <1>2 DEF ThreadState
    <3> HIDE DEF s
    <3> QED
      BY <1>7, <2>1, <2>2, <2>3, <3>1, <3>2
  <2>4. ASSUME NEW data, th' = [th EXCEPT ![t].pc = "advance", ![t].data = data], UNCHANGED vfd
        PROVE  GapInv'
    <3> DEFINE s == [me EXCEPT !.pc = "advance", !.data = data]
    <3>1. th' = [th EXCEPT ![t] = s]
      BY <1>1, <2>4 DEF me, TableType, ThreadState
    <3>2. s.pc = "advance" /\ s.fd = d /\ s.op = me.op /\ s.pos = me.pos
      BY <1>1, <1>2 DEF ThreadState
    <3> HIDE DEF s
    <3> QED
      BY <1>7, <2>1, <2>2, <2>4, <3>1, <3>2
  <2> QED
    BY <1>6, <2>1, <2>2, <2>3, <2>4
<1>10. CASE HandleAgain(t)
  <2>1. /\ me.pc \in Served /\ UNCHANGED <<got, past>>
        /\ \/ Refused(t)
           \/ \E data : th' = [th EXCEPT ![t].pc = "advance", ![t].data = data] /\ UNCHANGED vfd
    BY <1>10 DEF HandleAgain, Served, me
  <2>2. ASSUME NEW data, th' = [th EXCEPT ![t].pc = "advance", ![t].data = data], UNCHANGED vfd
        PROVE  GapInv'
    <3> DEFINE s == [me EXCEPT !.pc = "advance", !.data = data]
    <3>1. th' = [th EXCEPT ![t] = s]
      BY <1>1, <2>2 DEF me, TableType, ThreadState
    <3>2. s.pc = "advance" /\ s.fd = d /\ s.op = me.op /\ s.pos = me.pos
      BY <1>1, <1>2 DEF ThreadState
    <3> HIDE DEF s
    <3> QED
      BY <1>7, <2>1, <2>2, <3>1, <3>2
  <2> QED
    BY <1>6, <2>1, <2>2
<1>11. CASE Advance(t)
  <2> DEFINE pos  == me.pos + Len(me.data)
             left == me.count - Len(me.data)
             s    == [me EXCEPT !.pc = "fetch", !.pos = pos, !.count = left, !.data = <<>>]
  <2>1. /\ me.pc = "advance" /\ UNCHANGED past
        /\ got' = [got EXCEPT ![d] = @ \cup Pairs(me.pos, me.data)]
        /\ \/ th' = [th EXCEPT ![t] = s] /\ UNCHANGED vfd /\ me.op = "send"
           \/ /\ th' = [th EXCEPT ![t] = Idle]
              /\ \/ me.op = "read" /\ SetPosition(d, vfd[d].pos + Len(me.data))
                 \/ me.op = "send" /\ SetPosition(d, pos)
                 \/ me.op = "pread" /\ UNCHANGED vfd
    BY <1>1, <1>2, <1>11 DEF Advance, me
  <2>2. s.pc = "fetch" /\ s.fd = d /\ s.op = me.op /\ s.pos = pos
    BY <1>1, <1>2 DEF ThreadState
  <2>3. me.data \in Seq(Bytes) /\ Len(me.data) \in Nat
    BY <1>1, LenProperties DEF ThreadState
  <2>4. me.pc \in Served
    BY <2>1 DEF Served
  <2>5. pos \in Nat /\ vfd[d].pos + Len(me.data) \in Nat
    BY <1>1, <1>3, <2>3
  <2>6. InOrder(d) => Positions(d)' = 0 .. (pos - 1)
    <3> SUFFICES ASSUME InOrder(d)
                 PROVE  Positions(d)' = 0 .. (pos - 1)
      OBVIOUS
    <3>1. Positions(d) = 0 .. (me.pos - 1)
      BY <1>5, <2>4
    <3>2. PICK p \in Nat, data \in Seq(Bytes) : p = me.pos /\ data = me.data
      BY <1>1, <2>3
    <3>3. got' = [got EXCEPT ![d] = @ \cup Pairs(p, data)] /\ d \in DOMAIN got
      BY <1>3, <2>1, <3>2
    <3>4. Positions(d)' = 0 .. (p + Len(data) - 1)
      BY <3>1, <3>2, <3>3, PairsFollow
    <3> QED
      BY <3>2, <3>4
  <2>7. \A x \in Fds \ {d} : got'[x] = got[x]
    BY <2>1 DEF TableType, Readers
  <2> HIDE DEF s
  <2>8. CASE th' = [th EXCEPT ![t] = s] /\ UNCHANGED vfd /\ me.op = "send"
    <3>1. s.pc \in Served
      BY <2>2 DEF Served
    <3> HIDE DEF pos
    <3>2. me.pc \in Served /\ InOrder(d) =>
           /\ s.pc = "idle" => Positions(d)' = 0 .. (vfd'[d].pos - 1)
           /\ s.pc # "idle" => /\ Positions(d)' = 0 .. (s.pos - 1)
                               /\ s.op = "read" => vfd'[d].pos = s.pos
      BY <2>2, <2>6, <2>8
    <3> QED
      BY <1>2, <2>1, <2>2, <2>4, <2>7, <2>8, <3>1, <3>2, GapOfCall DEF me
  <2>9. CASE th' = [th EXCEPT ![t] = Idle]
    <3>1. /\ \A x \in Fds \ {d} : vfd'[x] = vfd[x]
          /\ vfd'[d].active = vfd[d].active
      <4> HIDE DEF pos
      <4> QED
        BY <1>4, <2>1, <2>2, <2>5, <2>9
    <3>2. InOrder(d) => vfd'[d].pos = pos
      <4>1. InOrder(d) => /\ vfd[d].active /\ me.op # "pread"
                          /\ me.op = "read" => vfd[d].pos + Len(me.data) = pos
        BY <1>1, <1>5, <2>3, <2>4
      <4> HIDE DEF pos
      <4>2. ASSUME me.op = "read", SetPosition(d, vfd[d].pos + Len(me.data)), vfd[d].active
            PROVE  vfd'[d].pos = vfd[d].pos + Len(me.data)
        BY <1>4, <2>5, <4>2
      <4>3. ASSUME SetPosition(d, pos), vfd[d].active
            PROVE  vfd'[d].pos = pos
        BY <1>4, <2>5, <4>3
      <4>4. th' # [th EXCEPT ![t] = s]
        BY <1>1, <2>2, <2>9 DEF TableType
      <4> QED
        BY <2>1, <4>1, <4>2, <4>3, <4>4
    <3> HIDE DEF pos
    <3> QED
      BY <1>1, <1>2, <2>1, <2>4, <2>6, <2>7, <2>9, <3>1, <3>2, GapOfCall DEF me
  <2> QED
    BY <2>1, <2>8, <2>9
<1> QED
  BY <1>8, <1>9, <1>10, <1>11

LEMMA MediaGap ==
    ASSUME TableType, TableInv, GapInv, MediaServer
    PROVE  GapInv'
<1>1. PICK t \in Threads :
        \/ \E f \in setup.titles \cup {Plain} : Open(t, f)
        \/ ThreadStep(t)
        \/ \E d \in Fds :
            \/ Close(t, d) \/ Dup(t, d)
            \/ \E new \in Fds : Dup2(t, d, new)
            \/ \E target \in Targets : Lseek(t, d, target)
            \/ \E op \in {"read", "pread", "send"}, n \in Counts :
                  \E offset \in IF op = "pread" THEN Targets ELSE {0} :
                      Read(t, d, op, offset, n)
  BY DEF MediaServer
<1>2. ASSUME NEW d \in Fds, Dup(t, d)
      PROVE  GapInv'
  <2>1. PICK new \in Fds : new = Min(FreeFds) /\ kern[new] = None
    BY <1>2, OpenFds DEF Dup, FreeFds, TableType
  <2>2. ~InUse(new)
    BY <2>1, FreeIsUnused DEF InUse
  <2> QED
    BY <1>2, <2>1, <2>2, GapOfDuplicate DEF Dup
<1>3. ASSUME NEW d \in Fds, NEW new \in Fds, Dup2(t, d, new)
      PROVE  GapInv'
  BY <1>3, GapOfDuplicate DEF Dup2
<1> QED
  BY <1>1, <1>2, <1>3, GapOfOpening, GapOfCopy, GapOfBeginning, GapOfServing DEF ThreadStep

(***************************************************************************)
(* The stubs' files                                                        *)
(***************************************************************************)

JobPcs   == {"idle", "probe", "update", "read", "open", "write", "stub", "minfo",
             "unlink", "rewrite"}
LineKind == {"token", "codec", "pref"}
JobState == [pc: JobPcs, title: Titles, line: LineKind, lines: SUBSET LineKind, saved: BOOLEAN]
StubType ==
    /\ tracks \subseteq Titles /\ probing \subseteq Titles
    /\ stub \in [Titles -> {"none", "plain", "probed"}]
    /\ minfo \in [Titles -> {Missing} \cup SUBSET LineKind]
    /\ lapse \in [Titles -> SUBSET {"stub", "minfo"}]
    /\ job \in [Workers -> JobState]

LEMMA NoJobTyped ==
    ASSUME setup \in Setups
    PROVE  NoJob \in JobState
BY SetupTyped DEF NoJob, JobState, JobPcs, LineKind

LEMMA OthersAreWorkers ==
    /\ "backfill" \in Workers /\ "cleanup" \in Workers /\ "regenerate" \in Workers
    /\ \A w \in Probers : w \in Workers /\ w # "backfill" /\ w # "cleanup" /\ w # "regenerate"
BY StubConstants DEF Workers, Others

LEMMA StubStarts == setup \in Setups /\ SSInit => StubType
<1> SUFFICES ASSUME setup \in Setups, SSInit
             PROVE  StubType
  OBVIOUS
<1>1. tracks \subseteq Titles
  BY DEF SSInit
<1>2. minfo \in [Titles -> {Missing} \cup SUBSET LineKind]
  <2>1. \A t \in Titles :
          {"token"} \cup (IF t \in tracks THEN {"codec"} ELSE {})
            \cup (IF t \in tracks \cap Fallback THEN {"pref"} ELSE {}) \in SUBSET LineKind
    BY DEF LineKind
  <2> QED
    BY <2>1 DEF SSInit
<1>3. stub \in [Titles -> {"none", "plain", "probed"}]
  BY DEF SSInit
<1> QED
  BY <1>1, <1>2, <1>3, NoJobTyped DEF SSInit, StubType

(* A worker's job, where it goes on or ends.                               *)
LEMMA JobMoves ==
    ASSUME setup \in Setups, StubType, NEW w \in Workers,
           \/ Ends(w) \/ UNCHANGED job
           \/ \E pc \in JobPcs : Goes(w, pc)
           \/ \E pc \in JobPcs, line \in LineKind : job' = [job EXCEPT ![w].pc = pc, ![w].line = line]
           \/ \E pc \in JobPcs, lines \in SUBSET LineKind :
                 job' = [job EXCEPT ![w].pc = pc, ![w].lines = lines]
           \/ \E s \in JobState : job' = [job EXCEPT ![w] = s]
    PROVE  job' \in [Workers -> JobState]
<1>1. job[w] \in JobState /\ NoJob \in JobState
  BY NoJobTyped DEF StubType
<1>2. PICK s : s \in JobState /\ job' = [job EXCEPT ![w] = s]
  <2>1. CASE Ends(w)
    BY <1>1, <2>1 DEF Ends
  <2>2. CASE UNCHANGED job
    BY <1>1, <2>2 DEF StubType
  <2>3. ASSUME NEW pc \in JobPcs, Goes(w, pc)
        PROVE  \E s \in JobState : job' = [job EXCEPT ![w] = s]
    <3>1. [job[w] EXCEPT !.pc = pc] \in JobState
      BY <1>1 DEF JobState
    <3> QED
      BY <2>3, <3>1 DEF Goes
  <2>4. ASSUME NEW pc \in JobPcs, NEW line \in LineKind,
               job' = [job EXCEPT ![w].pc = pc, ![w].line = line]
        PROVE  \E s \in JobState : job' = [job EXCEPT ![w] = s]
    <3>1. [job[w] EXCEPT !.pc = pc, !.line = line] \in JobState
      BY <1>1 DEF JobState
    <3>2. job' = [job EXCEPT ![w] = [job[w] EXCEPT !.pc = pc, !.line = line]]
      BY <1>1, <2>4 DEF StubType
    <3> QED
      BY <3>1, <3>2
  <2>5. ASSUME NEW pc \in JobPcs, NEW lines \in SUBSET LineKind,
               job' = [job EXCEPT ![w].pc = pc, ![w].lines = lines]
        PROVE  \E s \in JobState : job' = [job EXCEPT ![w] = s]
    <3>1. [job[w] EXCEPT !.pc = pc, !.lines = lines] \in JobState
      BY <1>1 DEF JobState
    <3>2. job' = [job EXCEPT ![w] = [job[w] EXCEPT !.pc = pc, !.lines = lines]]
      BY <1>1, <2>5 DEF StubType
    <3> QED
      BY <3>1, <3>2
  <2> QED
    BY <2>1, <2>2, <2>3, <2>4, <2>5
<1> QED
  BY <1>2 DEF StubType

LEMMA ProberTypes ==
    ASSUME setup \in Setups, StubType, NEW w \in Probers,
           \/ Probe(w) \/ UpdateStub(w) \/ ReadLines(w) \/ WriteStub(w)
           \/ (\E t \in Titles : ProbeStarts(w, t)) /\ UNCHANGED <<stub, minfo, tracks, lapse>>
              /\ (UNCHANGED probing \/ \E t \in Titles : probing' = probing \cup {t})
    PROVE  StubType'
<1>0. w \in Workers /\ job[w] \in JobState /\ job[w].title \in Titles /\ NoJob \in JobState
  BY OthersAreWorkers, NoJobTyped DEF StubType, JobState
<1>p. {"idle", "update", "read", "open", "stub", "probe"} \subseteq JobPcs
  BY DEF JobPcs
<1>1. CASE Probe(w)
  <2>1. job' \in [Workers -> JobState]
    BY <1>0, <1>1, <1>p, JobMoves DEF Probe
  <2> QED
    BY <1>0, <1>1, <2>1 DEF Probe, StubType
<1>a. ASSUME Prefers(w)
      PROVE  job' \in [Workers -> JobState] /\ probing' \subseteq Titles
  <2>1. job' \in [Workers -> JobState]
    BY <1>0, <1>a, <1>p, JobMoves DEF Prefers, LineKind
  <2> QED
    BY <1>a, <2>1 DEF Prefers, StubType
<1>b. ASSUME AfterLine(w)
      PROVE  job' \in [Workers -> JobState] /\ probing' \subseteq Titles
  <2>1. job[w].line \in {"codec", "pref", "token"}
    BY <1>0 DEF JobState, LineKind
  <2>2. \/ Goes(w, "stub") /\ UNCHANGED probing
        \/ Ends(w) /\ probing' = probing \ {job[w].title}
        \/ Ends(w) /\ UNCHANGED probing
    BY <1>b, <2>1 DEF AfterLine
  <2>3. job' \in [Workers -> JobState]
    BY <1>0, <1>p, <2>2, JobMoves
  <2> QED
    BY <2>2, <2>3 DEF StubType
<1>c. ASSUME NEW t \in Titles, NEW what \in SUBSET {"stub", "minfo"}, Lapses(t, what)
      PROVE  lapse' \in [Titles -> SUBSET {"stub", "minfo"}]
  BY <1>c DEF Lapses, StubType
<1>2. CASE UpdateStub(w)
  <2>1. CASE Goes(w, "read") /\ UNCHANGED <<probing, lapse>>
    <3>1. job' \in [Workers -> JobState]
      BY <1>0, <1>p, <2>1, JobMoves
    <3> QED
      BY <1>2, <2>1, <3>1 DEF UpdateStub, StubType
  <2>2. CASE Prefers(w) /\ Lapses(job[w].title, {"stub", "minfo"})
    BY <1>0, <1>2, <1>a, <1>c, <2>2 DEF UpdateStub, StubType
  <2> QED
    BY <1>2, <2>1, <2>2 DEF UpdateStub
<1>3. CASE ReadLines(w)
  <2>1. job' \in [Workers -> JobState] /\ probing' \subseteq Titles
    <3>1. CASE AfterLine(w)
      BY <1>b, <3>1
    <3>2. CASE ~AfterLine(w)
      <4>1. /\ job' = [job EXCEPT ![w].pc = "open", ![w].lines = minfo[job[w].title]]
            /\ minfo[job[w].title] # Missing /\ UNCHANGED probing
        BY <1>3, <3>2 DEF ReadLines
      <4>2. minfo[job[w].title] \in SUBSET LineKind
        BY <1>0, <4>1 DEF StubType
      <4>3. job' \in [Workers -> JobState]
        BY <1>0, <1>p, <4>1, <4>2, JobMoves
      <4> QED
        BY <4>1, <4>3 DEF StubType
    <3> QED
      BY <3>1, <3>2
  <2>2. lapse' \in [Titles -> SUBSET {"stub", "minfo"}]
    <3>1. UNCHANGED lapse \/ Lapses(job[w].title, {"minfo"})
      BY <1>3 DEF ReadLines
    <3> QED
      BY <1>0, <1>c, <3>1 DEF StubType
  <2> QED
    BY <1>3, <2>1, <2>2 DEF ReadLines, StubType
<1>4. CASE WriteStub(w)
  BY <1>0, <1>4, <1>a DEF WriteStub, StubType
<1>5. ASSUME NEW t \in Titles, ProbeStarts(w, t), UNCHANGED <<stub, minfo, tracks, lapse>>,
             UNCHANGED probing \/ \E u \in Titles : probing' = probing \cup {u}
      PROVE  StubType'
  <2>1. [NoJob EXCEPT !.pc = "probe", !.title = t] \in JobState
    BY <1>0 DEF JobState, JobPcs
  <2>2. job' \in [Workers -> JobState]
    BY <1>0, <1>5, <2>1, JobMoves DEF ProbeStarts
  <2> QED
    BY <1>5, <2>2 DEF StubType
<1> QED
  BY <1>1, <1>2, <1>3, <1>4, <1>5

LEMMA WorkerTypes ==
    ASSUME setup \in Setups, StubType, NEW w \in Workers, OpenMinfo(w) \/ WriteLines(w)
    PROVE  StubType'
<1>0. job[w] \in JobState /\ job[w].title \in Titles /\ job[w].lines \in SUBSET LineKind
      /\ job[w].line \in LineKind
  BY DEF StubType, JobState
<1>b. ASSUME AfterLine(w)
      PROVE  job' \in [Workers -> JobState] /\ probing' \subseteq Titles
  <2>1. job[w].line \in {"codec", "pref", "token"}
    BY <1>0 DEF LineKind
  <2>2. \/ Goes(w, "stub") /\ UNCHANGED probing
        \/ Ends(w) /\ probing' = probing \ {job[w].title}
        \/ Ends(w) /\ UNCHANGED probing
    BY <1>b, <2>1 DEF AfterLine
  <2>3. "stub" \in JobPcs
    BY DEF JobPcs
  <2>4. job' \in [Workers -> JobState]
    BY <2>2, <2>3, JobMoves
  <2> QED
    BY <2>2, <2>4 DEF StubType
<1>1. CASE OpenMinfo(w)
  <2>1. CASE AfterLine(w)
    BY <1>0, <1>1, <1>b, <2>1 DEF OpenMinfo, StubType
  <2>2. CASE ~AfterLine(w)
    <3>1. "write" \in JobPcs
      BY DEF JobPcs
    <3>2. Goes(w, "write") /\ minfo' = [minfo EXCEPT ![job[w].title] = {}] /\ UNCHANGED probing
      BY <1>1, <2>2 DEF OpenMinfo
    <3>3. job' \in [Workers -> JobState]
      BY <3>1, <3>2, JobMoves
    <3> QED
      BY <1>0, <1>1, <3>2, <3>3 DEF OpenMinfo, StubType
  <2> QED
    BY <2>1, <2>2
<1>2. CASE WriteLines(w)
  <2> DEFINE t == job[w].title
  <2>1. PICK end \in IF minfo[t] = Missing THEN {{}} ELSE SUBSET minfo[t] :
          minfo' = IF minfo[t] = Missing THEN minfo
                   ELSE [minfo EXCEPT ![t] = job[w].lines \cup {job[w].line} \cup end]
    BY <1>2 DEF WriteLines
  <2>2. minfo[t] # Missing => end \in SUBSET LineKind
    BY <1>0 DEF StubType
  <2>3. minfo' \in [Titles -> {Missing} \cup SUBSET LineKind]
    BY <1>0, <2>1, <2>2 DEF StubType
  <2> QED
    BY <1>2, <1>b, <2>3 DEF WriteLines, StubType
<1> QED
  BY <1>1, <1>2

LEMMA OtherTypes ==
    ASSUME setup \in Setups, StubType,
           \/ WriteMinfo \/ UnlinkMinfo \/ Rewrite
           \/ \E t \in setup.titles : WriteSporeStubs(t) \/ DeleteSporeStubs(t) \/ Regenerate(t)
    PROVE  StubType'
<1>0. /\ "backfill" \in Workers /\ "cleanup" \in Workers /\ "regenerate" \in Workers
      /\ NoJob \in JobState /\ \A w \in Workers : job[w].title \in Titles
      /\ setup.titles \subseteq Titles
  BY OthersAreWorkers, NoJobTyped, SetupTyped DEF StubType, JobState
<1>1. CASE WriteMinfo
  <2>1. "open" \in JobPcs
    BY DEF JobPcs
  <2>2. job' \in [Workers -> JobState]
    BY <1>0, <1>1, <2>1, JobMoves DEF WriteMinfo
  <2> QED
    BY <1>1, <2>2 DEF WriteMinfo, StubType
<1>2. CASE UnlinkMinfo
  <2>1. job' \in [Workers -> JobState]
    BY <1>0, <1>2, JobMoves DEF UnlinkMinfo
  <2> QED
    BY <1>0, <1>2, <2>1 DEF UnlinkMinfo, StubType
<1>3. CASE Rewrite
  <2>1. job' \in [Workers -> JobState]
    BY <1>0, <1>3, JobMoves DEF Rewrite
  <2>2. lapse' \in [Titles -> SUBSET {"stub", "minfo"}]
    BY <1>0, <1>3 DEF Rewrite, Lapses, StubType
  <2>3. stub' \in [Titles -> {"none", "plain", "probed"}]
    BY <1>0, <1>3 DEF Rewrite, StubType
  <2> QED
    BY <1>3, <2>1, <2>2, <2>3 DEF Rewrite, StubType
<1>4. ASSUME NEW t \in setup.titles, WriteSporeStubs(t)
      PROVE  StubType'
  <2> DEFINE s == [NoJob EXCEPT !.pc = "minfo", !.title = t, !.line = "token"]
  <2>1. s \in JobState
    BY <1>0 DEF JobState, JobPcs, LineKind
  <2>2. job' = [job EXCEPT !["backfill"] = s]
    BY <1>4 DEF WriteSporeStubs
  <2> HIDE DEF s
  <2>3. job' \in [Workers -> JobState]
    BY <1>0, <2>1, <2>2, JobMoves
  <2> QED
    BY <1>0, <1>4, <2>3 DEF WriteSporeStubs, StubType
<1>5. ASSUME NEW t \in setup.titles, DeleteSporeStubs(t)
      PROVE  StubType'
  <2> DEFINE s == [NoJob EXCEPT !.pc = "unlink", !.title = t]
  <2>1. s \in JobState
    BY <1>0 DEF JobState, JobPcs, LineKind
  <2>2. job' = [job EXCEPT !["cleanup"] = s]
    BY <1>5 DEF DeleteSporeStubs
  <2> HIDE DEF s
  <2>3. job' \in [Workers -> JobState]
    BY <1>0, <2>1, <2>2, JobMoves
  <2> QED
    BY <1>0, <1>5, <2>3 DEF DeleteSporeStubs, Lapses, StubType
<1>6. ASSUME NEW t \in setup.titles, Regenerate(t)
      PROVE  StubType'
  <2> DEFINE b == t \in tracks
             s == [NoJob EXCEPT !.pc = "rewrite", !.title = t, !.saved = b]
  <2>0. b \in BOOLEAN
    OBVIOUS
  <2>2. job' = [job EXCEPT !["regenerate"] = s]
    BY <1>6 DEF Regenerate
  <2> HIDE DEF b
  <2>1. s \in JobState
    BY <1>0, <2>0 DEF JobState, JobPcs, LineKind
  <2> HIDE DEF s
  <2>3. job' \in [Workers -> JobState]
    BY <1>0, <2>1, <2>2, JobMoves
  <2> QED
    BY <1>6, <2>3 DEF Regenerate, StubType
<1> QED
  BY <1>1, <1>2, <1>3, <1>4, <1>5, <1>6

LEMMA RestartTypes ==
    ASSUME BridgeType, StubType, Restart
    PROVE  BridgeType' /\ StubType' /\ Quiet
<1>0. TableType /\ ServerType /\ setup \in Setups
  BY DEF BridgeType, TableType
<1>1. TableType' /\ Quiet
  BY <1>0, QuietTypes DEF Restart
<1>2. hc' \in [Clients -> ClientState]
  <2>1. \A c \in Clients : [hc[c] EXCEPT !.pc = "idle"] \in ClientState
    BY <1>0 DEF ServerType, ClientState
  <2> QED
    BY <2>1 DEF Restart
<1>3. ServerType'
  BY <1>0, <1>2 DEF Restart, ServerType
<1>4. lapse' \in [Titles -> SUBSET {"stub", "minfo"}]
  <2>1. \A t \in Titles : lapse[t] \cup (IF BusyOn(t) = {} THEN {} ELSE {"stub", "minfo"})
                          \in SUBSET {"stub", "minfo"}
    BY DEF StubType
  <2> QED
    BY <2>1 DEF Restart
<1>5. StubType'
  BY <1>0, <1>4, NoJobTyped DEF Restart, StubType
<1> QED
  BY <1>1, <1>3, <1>5 DEF BridgeType

(* What the lines of a .minfo may say; who is on a title; whether the line *)
(* the tracks ask for is still to be written, or the stub's and the line   *)
(* of the preferred track.                                                 *)
Allowed(t)   == {"token"} \cup (IF t \in tracks THEN {"codec"} ELSE {})
                          \cup (IF t \in tracks \cap Fallback THEN {"pref"} ELSE {})
On(w, t)     == job[w].title = t
Writing      == {"read", "open", "write"}
AsksCodec(w) == job[w].pc = "update" \/ (job[w].pc \in Writing /\ job[w].line = "codec")
AsksPref(w)  == job[w].pc = "stub" \/ (job[w].pc \in Writing /\ job[w].line = "pref")
AsksStub(w)  == job[w].pc = "stub" \/ (job[w].pc \in Writing /\ job[w].line = "codec")
HasRead(w)   == job[w].pc \in {"open", "write"} \/ AsksPref(w)
Filling(t)   == On("backfill", t) /\ job["backfill"].pc \in {"open", "write"}
Coded(t)     == minfo[t] # Missing /\ (Emptied(t) \/ "codec" \in minfo[t])

ProberRight(w) ==
    /\ job[w].pc \in {"idle", "probe", "update", "stub"} \cup Writing
    /\ job[w].line \in {"codec", "pref"}
    /\ job[w].pc \in {"probe", "update"} => job[w].line = "codec"
    /\ job[w].pc \notin {"idle", "probe"} => job[w].title \in tracks
    /\ job[w].pc \in Writing /\ job[w].line = "pref" => job[w].title \in Fallback
    /\ job[w].pc \in {"open", "write"} => job[w].lines \subseteq Allowed(job[w].title)
OthersRight ==
    /\ job["backfill"].pc \in {"idle", "minfo", "open", "write"}
    /\ job["backfill"].lines = {}
    /\ job["backfill"].pc # "idle" => job["backfill"].line = "token"
    /\ job["cleanup"].pc \in {"idle", "unlink"}
    /\ job["cleanup"].pc = "unlink" => "minfo" \in lapse[job["cleanup"].title]
    /\ job["regenerate"].pc \in {"idle", "rewrite"}
    /\ job["regenerate"].pc # "idle" /\ job["regenerate"].saved => job["regenerate"].title \in tracks

(* The stub of a title that has its tracks shows them, or will.            *)
StubRight(t) ==
    /\ stub[t] = "none" /\ minfo[t] # Missing => "stub" \in lapse[t]
    /\ stub[t] = "none" /\ (\E w \in Probers : On(w, t) /\ AsksStub(w)) => "stub" \in lapse[t]
    /\ "stub" \notin lapse[t] =>
         /\ stub[t] = "probed" => t \in tracks
         /\ stub[t] = "plain" /\ t \in tracks =>
              \E w \in Probers : On(w, t) /\ (AsksCodec(w) \/ AsksStub(w))
         /\ stub[t] = "none" /\ t \in tracks =>
              \E w \in Probers : On(w, t) /\ job[w].pc = "update"

(* Who has read a .minfo has read all of it; a backfill writes one only    *)
(* where there is none and no probe has read it; and a line that is not    *)
(* there yet will be written.                                              *)
MinfoRight(t) == "minfo" \notin lapse[t] =>
    /\ \A w \in Probers : On(w, t) /\ HasRead(w) => minfo[t] # Missing /\ ~Filling(t)
    /\ On("backfill", t) /\ job["backfill"].pc = "open" => minfo[t] = Missing
    /\ Emptied(t) => minfo[t] # Missing
    /\ \A w \in Probers : On(w, t) /\ job[w].pc \in {"open", "write"} =>
         /\ "token" \in job[w].lines
         /\ job[w].line = "pref" => "codec" \in job[w].lines
    /\ minfo[t] # Missing /\ ~Emptied(t) => "token" \in minfo[t]
    /\ t \in tracks => \/ Coded(t) /\ ~Filling(t)
                       \/ \E w \in Probers : On(w, t) /\ AsksCodec(w)
    /\ (\E w \in Probers : On(w, t) /\ AsksPref(w)) => Coded(t)
    /\ t \in tracks \cap Fallback => \/ minfo[t] # Missing /\ "pref" \in minfo[t]
                                     \/ \E w \in Probers : On(w, t) /\ (AsksCodec(w) \/ AsksPref(w))
LinesRight(t) == minfo[t] # Missing => minfo[t] \subseteq Allowed(t)
FilesInv == /\ \A w \in Probers : ProberRight(w)
            /\ OthersRight
            /\ \A t \in Titles : StubRight(t) /\ MinfoRight(t) /\ LinesRight(t)

LEMMA FilesStart == setup \in Setups /\ SSInit => FilesInv
<1> SUFFICES ASSUME setup \in Setups, SSInit
             PROVE  FilesInv
  OBVIOUS
<1>1. /\ \A w \in Workers : job[w] = NoJob
      /\ NoJob.pc = "idle" /\ NoJob.line = "codec" /\ NoJob.lines = {}
  BY DEF SSInit, NoJob
<1>2. \A w \in Probers : ProberRight(w)
  BY <1>1, OthersAreWorkers DEF ProberRight, Writing
<1>3. OthersRight
  BY <1>1, OthersAreWorkers DEF OthersRight
<1>4. ASSUME NEW t \in Titles
      PROVE  /\ ~Emptied(t) /\ ~Filling(t) /\ job["backfill"].pc # "open"
             /\ \A w \in Probers : ~AsksPref(w) /\ ~AsksCodec(w) /\ ~AsksStub(w) /\ ~HasRead(w)
  BY <1>1, OthersAreWorkers DEF Emptied, BusyOn, Filling, AsksPref, AsksCodec, AsksStub, HasRead, Writing
<1>5. ASSUME NEW t \in Titles
      PROVE  StubRight(t) /\ MinfoRight(t) /\ LinesRight(t)
  <2>1. \/ /\ t \notin tracks
           /\ \/ stub[t] = "none" /\ minfo[t] = Missing
              \/ stub[t] = "plain" /\ minfo[t] = Allowed(t)
        \/ t \in tracks /\ stub[t] = "probed" /\ minfo[t] = Allowed(t)
    BY DEF SSInit, Allowed
  <2>2. Allowed(t) # Missing
    BY DEF Allowed, Missing
  <2>3. StubRight(t)
    BY <1>4, <2>1 DEF StubRight
  <2>4. /\ "token" \in Allowed(t) /\ (t \in tracks => "codec" \in Allowed(t))
        /\ t \in tracks \cap Fallback => "pref" \in Allowed(t)
    BY DEF Allowed
  <2>5. MinfoRight(t)
    <3>1. \A w \in Probers : job[w].pc = "idle"
      BY <1>1, OthersAreWorkers
    <3>2. minfo[t] # Missing => minfo[t] = Allowed(t)
      BY <2>1
    <3>3. t \in tracks => minfo[t] = Allowed(t) /\ minfo[t] # Missing
      BY <2>1, <2>2
    <3>4. t \in tracks => Coded(t)
      BY <2>4, <3>3 DEF Coded
    <3> QED
      BY <1>4, <2>4, <3>1, <3>2, <3>3, <3>4 DEF MinfoRight
  <2> QED
    BY <2>1, <2>3, <2>5 DEF LinesRight
<1> QED
  BY <1>2, <1>3, <1>5 DEF FilesInv

(* A step of worker w for title t leaves the other titles right.           *)
LEMMA FilesFrame ==
    ASSUME StubType, FilesInv, NEW w \in Workers, NEW t \in Titles,
           \A v \in Workers \ {w} : job'[v] = job[v],
           job[w].pc = "idle" \/ job[w].title = t,
           job'[w].pc = "idle" \/ job'[w].title = t,
           \A x \in Titles \ {t} : /\ stub'[x] = stub[x] /\ minfo'[x] = minfo[x]
                                   /\ lapse'[x] = lapse[x]
                                   /\ x \in tracks' <=> x \in tracks,
           t \in tracks => t \in tracks',
           StubRight(t)', MinfoRight(t)', LinesRight(t)', OthersRight',
           w \in Probers => ProberRight(w)'
    PROVE  FilesInv'
<1>1. \A v \in Probers : ProberRight(v)'
  <2> SUFFICES ASSUME NEW v \in Probers, v # w
               PROVE  ProberRight(v)'
    OBVIOUS
  <2>1. ProberRight(v) /\ job'[v] = job[v] /\ job[v].title \in Titles
    BY OthersAreWorkers DEF FilesInv, StubType, JobState
  <2>2. /\ \A x \in Titles : x \in tracks => x \in tracks'
        /\ \A x \in Titles : Allowed(x) \subseteq Allowed(x)'
    BY DEF Allowed
  <2> QED
    BY <2>1, <2>2 DEF ProberRight
<1>2. ASSUME NEW x \in Titles \ {t}
      PROVE  StubRight(x)' /\ MinfoRight(x)' /\ LinesRight(x)'
  <2>1. /\ \A v \in Probers : On(v, x)' /\ job'[v].pc # "idle" <=> On(v, x) /\ job[v].pc # "idle"
        /\ \A v \in Probers : On(v, x) /\ job[v].pc # "idle" => job'[v] = job[v]
    BY OthersAreWorkers DEF On
  <2>2. \A v \in Probers : /\ On(v, x)' /\ AsksCodec(v)' <=> On(v, x) /\ AsksCodec(v)
                           /\ On(v, x)' /\ AsksPref(v)' <=> On(v, x) /\ AsksPref(v)
                           /\ On(v, x)' /\ AsksStub(v)' <=> On(v, x) /\ AsksStub(v)
                           /\ On(v, x)' /\ HasRead(v)' <=> On(v, x) /\ HasRead(v)
                           /\ On(v, x)' /\ job'[v].pc = "update" <=> On(v, x) /\ job[v].pc = "update"
    BY <2>1 DEF AsksCodec, AsksPref, AsksStub, HasRead, Writing
  <2>3. Filling(x)' <=> Filling(x)
    BY OthersAreWorkers DEF Filling, On
  <2>4. Emptied(x)' <=> Emptied(x)
    BY DEF Emptied, BusyOn
  <2>5. StubRight(x)'
    BY <2>2 DEF FilesInv, StubRight
  <2>6. On("backfill", x)' /\ job'["backfill"].pc = "open" => On("backfill", x) /\ job["backfill"].pc = "open"
    BY OthersAreWorkers DEF On
  <2>7. \A v \in Probers : On(v, x)' /\ job'[v].pc \in {"open", "write"} =>
            On(v, x) /\ job'[v] = job[v]
    BY <2>1
  <2>8. Coded(x)' <=> Coded(x)
    BY <2>4 DEF Coded
  <2>9. MinfoRight(x)'
    <3>1. MinfoRight(x)
      BY DEF FilesInv
    <3>2. /\ minfo'[x] = minfo[x] /\ lapse'[x] = lapse[x] /\ (x \in tracks' <=> x \in tracks)
      OBVIOUS
    <3> QED
      BY <2>2, <2>3, <2>4, <2>6, <2>7, <2>8, <3>1, <3>2 DEF MinfoRight
  <2>10. LinesRight(x)'
    BY DEF FilesInv, LinesRight, Allowed
  <2> QED
    BY <2>5, <2>9, <2>10
<1> QED
  BY <1>1, <1>2 DEF FilesInv

(* What the other workers ask for, and who is writing, when one steps.     *)
LEMMA OthersAsk ==
    ASSUME NEW w \in Workers, NEW t \in Titles, \A v \in Workers \ {w} : job'[v] = job[v]
    PROVE  /\ \A v \in Probers \ {w} :
                /\ On(v, t)' <=> On(v, t)
                /\ AsksCodec(v)' <=> AsksCodec(v)
                /\ AsksPref(v)' <=> AsksPref(v)
                /\ AsksStub(v)' <=> AsksStub(v)
                /\ HasRead(v)' <=> HasRead(v)
                /\ job'[v] = job[v]
           /\ w # "backfill" => /\ Filling(t)' <=> Filling(t)
                                /\ job'["backfill"] = job["backfill"]
                                /\ On("backfill", t)' <=> On("backfill", t)
<1>1. \A v \in Probers \ {w} : v \in Workers \ {w}
  BY OthersAreWorkers
<1>2. "backfill" \in Workers
  BY OthersAreWorkers
<1> QED
  BY <1>1, <1>2 DEF On, AsksCodec, AsksPref, AsksStub, HasRead, Filling, Writing

LEMMA EmptiedBy ==
    ASSUME NEW t \in Titles
    PROVE  Emptied(t) <=> \E v \in Workers : job[v].pc = "write" /\ On(v, t)
BY DEF Emptied, BusyOn, On

LEMMA EmptiedStays ==
    ASSUME NEW w \in Workers, NEW t \in Titles, \A v \in Workers \ {w} : job'[v] = job[v],
           job[w].pc # "write", job'[w].pc # "write"
    PROVE  Emptied(t)' <=> Emptied(t)
BY DEF Emptied, BusyOn

(* A prober that has nothing to ask for, and asks for nothing now.         *)
LEMMA FilesProbeStarts ==
    ASSUME setup \in Setups, StubType, FilesInv, NEW w \in Probers, NEW t \in Titles,
           job[w].pc = "idle", ProbeStarts(w, t), UNCHANGED <<stub, minfo, tracks, lapse>>
    PROVE  FilesInv'
<1> DEFINE s == [NoJob EXCEPT !.pc = "probe", !.title = t]
<1>0. s.pc = "probe" /\ s.line = "codec" /\ s.title = t
  BY DEF NoJob
<1>1. job' = job \/ job' = [job EXCEPT ![w] = s]
  BY DEF ProbeStarts
<1> HIDE DEF s
<1>2. CASE job' = job
  <2>1. UNCHANGED <<stub, minfo, tracks, lapse, job>>
    BY <1>2
  <2> QED
    BY <2>1 DEF FilesInv, ProberRight, OthersRight, StubRight, MinfoRight, LinesRight, Allowed,
       On, AsksCodec, AsksPref, AsksStub, HasRead, Filling, Coded, Emptied, BusyOn
<1>3. CASE job' = [job EXCEPT ![w] = s]
  <2>1. w \in Workers /\ w # "backfill" /\ job'[w] = s /\ \A v \in Workers \ {w} : job'[v] = job[v]
    BY <1>3, OthersAreWorkers DEF StubType
  <2>2. /\ ~AsksCodec(w) /\ ~AsksPref(w) /\ ~AsksStub(w) /\ ~HasRead(w)
        /\ ~AsksCodec(w)' /\ ~AsksPref(w)' /\ ~AsksStub(w)' /\ ~HasRead(w)'
    BY <1>0, <2>1 DEF AsksCodec, AsksPref, AsksStub, HasRead, Writing
  <2>3. Emptied(t)' <=> Emptied(t)
    BY <1>0, <2>1, EmptiedStays
  <2>4. ProberRight(w)'
    BY <1>0, <2>1 DEF ProberRight, Writing
  <2>5. OthersRight'
    BY <2>1, OthersAreWorkers DEF FilesInv, OthersRight
  <2>6. StubRight(t)'
    BY <1>0, <2>1, <2>2, OthersAsk DEF FilesInv, StubRight
  <2>7. MinfoRight(t)'
    BY <1>0, <2>1, <2>2, <2>3, OthersAsk DEF FilesInv, MinfoRight, Coded
  <2>8. LinesRight(t)'
    BY DEF FilesInv, LinesRight, Allowed
  <2> QED
    BY <1>0, <2>1, <2>4, <2>5, <2>6, <2>7, <2>8, FilesFrame
<1> QED
  BY <1>1, <1>2, <1>3

LEMMA FilesProbe ==
    ASSUME setup \in Setups, StubType, FilesInv, NEW w \in Probers, Probe(w)
    PROVE  FilesInv'
<1>0. w \in Workers /\ w # "backfill" /\ job[w] \in JobState /\ ProberRight(w)
  BY OthersAreWorkers DEF StubType, FilesInv
<1>1. PICK t \in Titles : t = job[w].title
  BY <1>0 DEF JobState
<1>2. /\ job[w].pc = "probe" /\ UNCHANGED <<stub, minfo, lapse>>
      /\ \/ job' = [job EXCEPT ![w] = NoJob] /\ UNCHANGED tracks
         \/ job' = [job EXCEPT ![w].pc = "update"] /\ tracks' = tracks \cup {t}
  BY <1>1 DEF Probe, Ends, Goes
<1>3. \A v \in Workers \ {w} : job'[v] = job[v]
  BY <1>2 DEF StubType
<1>4. \/ job'[w].pc = "idle" /\ job'[w].line = "codec" /\ UNCHANGED tracks
      \/ job'[w].pc = "update" /\ job'[w].title = t /\ job'[w].line = "codec" /\ tracks' = tracks \cup {t}
  BY <1>0, <1>1, <1>2 DEF StubType, JobState, NoJob, ProberRight
<1>5. /\ ~AsksCodec(w) /\ ~AsksPref(w) /\ ~AsksStub(w) /\ ~HasRead(w)
      /\ ~AsksPref(w)' /\ ~AsksStub(w)' /\ ~HasRead(w)'
      /\ t \in tracks' /\ t \notin tracks => On(w, t)' /\ AsksCodec(w)' /\ job'[w].pc = "update"
  BY <1>2, <1>4 DEF AsksCodec, AsksPref, AsksStub, HasRead, Writing, On
<1>6. Emptied(t)' <=> Emptied(t)
  BY <1>0, <1>2, <1>3, <1>4, EmptiedStays
<1>7. ProberRight(w)'
  BY <1>4 DEF ProberRight, Writing
<1>8. OthersRight'
  BY <1>0, <1>2, <1>3, OthersAreWorkers DEF FilesInv, OthersRight
<1>9. StubRight(t)'
  BY <1>0, <1>2, <1>3, <1>5, OthersAsk DEF FilesInv, StubRight
<1>10. MinfoRight(t)'
  <2>1. job'[w].pc \notin {"open", "write"}
    BY <1>4
  <2> QED
    BY <1>0, <1>2, <1>3, <1>5, <1>6, <2>1, OthersAsk DEF FilesInv, MinfoRight, Coded
<1>11. LinesRight(t)'
  BY <1>2 DEF FilesInv, LinesRight, Allowed
<1> QED
  BY <1>0, <1>1, <1>2, <1>3, <1>4, <1>7, <1>8, <1>9, <1>10, <1>11, FilesFrame

(* A job goes on to the next file, or ends.                                *)
LEMMA AfterPrefers ==
    ASSUME StubType, NEW w \in Workers, NEW t \in Titles, t = job[w].title, Prefers(w)
    PROVE  /\ \A v \in Workers \ {w} : job'[v] = job[v]
           /\ \/ job'[w].pc = "read" /\ job'[w].line = "pref" /\ job'[w].title = t /\ t \in Fallback
              \/ job'[w].pc = "idle" /\ job'[w].line = "codec" /\ t \notin Fallback
<1>1. job[w] \in JobState
  BY DEF StubType
<1>2. \/ job' = [job EXCEPT ![w] = [job[w] EXCEPT !.pc = "read", !.line = "pref"]] /\ t \in Fallback
      \/ job' = [job EXCEPT ![w] = NoJob] /\ t \notin Fallback
  BY <1>1 DEF Prefers, Ends, StubType
<1>3. [job[w] EXCEPT !.pc = "read", !.line = "pref"].pc = "read"
      /\ [job[w] EXCEPT !.pc = "read", !.line = "pref"].line = "pref"
      /\ [job[w] EXCEPT !.pc = "read", !.line = "pref"].title = t
  BY <1>1 DEF JobState
<1>4. NoJob.pc = "idle" /\ NoJob.line = "codec"
  BY DEF NoJob
<1> QED
  BY <1>2, <1>3, <1>4 DEF StubType

LEMMA AfterAfterLine ==
    ASSUME StubType, NEW w \in Workers, NEW t \in Titles, t = job[w].title, AfterLine(w)
    PROVE  /\ \A v \in Workers \ {w} : job'[v] = job[v]
           /\ \/ /\ job[w].line = "codec" /\ job'[w].pc = "stub" /\ job'[w].line = "codec"
                 /\ job'[w].title = t
              \/ job[w].line # "codec" /\ job'[w] = NoJob /\ job'[w].pc = "idle"
                 /\ job'[w].line = "codec" /\ job'[w].lines = {}
<1>1. job[w] \in JobState /\ job[w].line \in {"codec", "pref", "token"}
  BY DEF StubType, JobState, LineKind
<1>2. \/ job' = [job EXCEPT ![w] = [job[w] EXCEPT !.pc = "stub"]] /\ job[w].line = "codec"
      \/ job' = [job EXCEPT ![w] = NoJob] /\ job[w].line # "codec"
  BY <1>1 DEF AfterLine, Ends, Goes
<1>3. /\ [job[w] EXCEPT !.pc = "stub"].pc = "stub"
      /\ [job[w] EXCEPT !.pc = "stub"].line = job[w].line
      /\ [job[w] EXCEPT !.pc = "stub"].title = t
  BY <1>1 DEF JobState
<1>4. NoJob.pc = "idle" /\ NoJob.line = "codec" /\ NoJob.lines = {}
  BY DEF NoJob
<1> QED
  BY <1>2, <1>3, <1>4 DEF StubType

LEMMA FilesUpdateStub ==
    ASSUME setup \in Setups, StubType, FilesInv, NEW w \in Probers, UpdateStub(w)
    PROVE  FilesInv'
<1>0. w \in Workers /\ w # "backfill" /\ job[w] \in JobState /\ ProberRight(w)
  BY OthersAreWorkers DEF StubType, FilesInv
<1>1. PICK t \in Titles : t = job[w].title
  BY <1>0 DEF JobState
<1>2. job[w].pc = "update" /\ job[w].line = "codec" /\ t \in tracks /\ UNCHANGED <<stub, minfo, tracks>>
  BY <1>0, <1>1 DEF UpdateStub, ProberRight
<1>3. LinesRight(t)'
  BY <1>2 DEF FilesInv, LinesRight, Allowed
<1>4. CASE Folder(t) /\ Goes(w, "read") /\ UNCHANGED lapse
  <2>1. \A v \in Workers \ {w} : job'[v] = job[v]
    BY <1>4 DEF Goes, StubType
  <2>2. job'[w].pc = "read" /\ job'[w].line = "codec" /\ job'[w].title = t
    BY <1>0, <1>1, <1>2, <1>4 DEF Goes, StubType, JobState
  <2>3. ProberRight(w)'
    BY <1>2, <2>2 DEF ProberRight, Writing
  <2>4. OthersRight'
    BY <1>0, <1>2, <1>4, <2>1, OthersAreWorkers DEF FilesInv, OthersRight
  <2>5. /\ On(w, t) /\ On(w, t)' /\ AsksCodec(w) /\ AsksCodec(w)' /\ ~AsksPref(w)' /\ ~HasRead(w)'
        /\ AsksStub(w)'
    BY <1>1, <1>2, <2>2 DEF AsksCodec, AsksPref, AsksStub, HasRead, Writing, On
  <2>6. Emptied(t)' <=> Emptied(t)
    BY <1>0, <1>2, <2>1, <2>2, EmptiedStays
  <2>7. StubRight(t)'
    <3>1. stub[t] = "none" => "stub" \in lapse[t]
      BY <1>4 DEF Folder, FilesInv, StubRight
    <3> QED
      BY <1>0, <1>2, <1>4, <2>1, <2>5, <3>1, OthersAsk DEF FilesInv, StubRight
  <2>8. MinfoRight(t)'
    BY <1>0, <1>2, <1>4, <2>1, <2>2, <2>5, <2>6, OthersAsk DEF FilesInv, MinfoRight, Coded
  <2> QED
    BY <1>0, <1>1, <1>2, <1>3, <1>4, <2>1, <2>2, <2>3, <2>4, <2>7, <2>8, FilesFrame
<1>5. CASE Prefers(w) /\ Lapses(t, {"stub", "minfo"})
  <2>1. /\ \A v \in Workers \ {w} : job'[v] = job[v]
        /\ \/ job'[w].pc = "read" /\ job'[w].line = "pref" /\ job'[w].title = t /\ t \in Fallback
           \/ job'[w].pc = "idle" /\ job'[w].line = "codec" /\ t \notin Fallback
    BY <1>0, <1>1, <1>5, AfterPrefers
  <2>2. /\ "stub" \in lapse'[t] /\ "minfo" \in lapse'[t]
        /\ \A x \in Titles \ {t} : lapse'[x] = lapse[x]
        /\ \A x \in Titles : lapse[x] \subseteq lapse'[x]
    BY <1>5 DEF Lapses, StubType
  <2>3. ProberRight(w)'
    BY <1>2, <2>1 DEF ProberRight, Writing
  <2>4. OthersRight'
    BY <1>0, <1>2, <2>1, <2>2, OthersAreWorkers DEF FilesInv, OthersRight, StubType, JobState
  <2>5. StubRight(t)' /\ MinfoRight(t)'
    BY <2>2 DEF StubRight, MinfoRight
  <2> QED
    BY <1>0, <1>1, <1>2, <1>3, <2>1, <2>2, <2>3, <2>4, <2>5, FilesFrame
<1> QED
  BY <1>1, <1>4, <1>5 DEF UpdateStub

LEMMA FilesReadLines ==
    ASSUME setup \in Setups, StubType, FilesInv, NEW w \in Probers, ReadLines(w)
    PROVE  FilesInv'
<1>0. w \in Workers /\ w # "backfill" /\ job[w] \in JobState /\ ProberRight(w)
  BY OthersAreWorkers DEF StubType, FilesInv
<1>1. PICK t \in Titles : t = job[w].title
  BY <1>0 DEF JobState
<1>2. /\ job[w].pc = "read" /\ job[w].line \in {"codec", "pref"} /\ t \in tracks
      /\ job[w].line = "pref" => t \in Fallback
      /\ UNCHANGED <<stub, minfo, tracks>>
  BY <1>0, <1>1 DEF ReadLines, ProberRight, Writing
<1>3. LinesRight(t)'
  BY <1>2 DEF FilesInv, LinesRight, Allowed
<1>4. /\ \A x \in Titles \ {t} : lapse'[x] = lapse[x]
      /\ \A x \in Titles : lapse[x] \subseteq lapse'[x]
      /\ minfo[t] = Missing \/ Emptied(t) => "minfo" \in lapse'[t]
      /\ ~(minfo[t] = Missing \/ Emptied(t)) => lapse' = lapse
      /\ "stub" \in lapse'[t] <=> "stub" \in lapse[t]
  BY <1>1 DEF ReadLines, Lapses, StubType
<1>5. CASE AfterLine(w) /\ minfo[t] = Missing
  <2>1. /\ \A v \in Workers \ {w} : job'[v] = job[v]
        /\ \/ /\ job[w].line = "codec" /\ job'[w].pc = "stub" /\ job'[w].line = "codec"
              /\ job'[w].title = t
           \/ job[w].line # "codec" /\ job'[w].pc = "idle" /\ job'[w].line = "codec"
    BY <1>0, <1>1, <1>5, AfterAfterLine
  <2>2. ProberRight(w)'
    BY <1>2, <2>1 DEF ProberRight, Writing
  <2>3. OthersRight'
    BY <1>0, <1>2, <1>4, <2>1, OthersAreWorkers DEF FilesInv, OthersRight, StubType, JobState
  <2>4. /\ On(w, t)
        /\ AsksStub(w) <=> job[w].line = "codec"
        /\ AsksCodec(w) <=> job[w].line = "codec"
        /\ AsksStub(w)' <=> job[w].line = "codec"
        /\ ~AsksCodec(w)' /\ job'[w].pc # "update" /\ job[w].pc # "update"
        /\ job[w].line = "codec" => On(w, t)'
    BY <1>1, <1>2, <2>1 DEF AsksCodec, AsksStub, Writing, On
  <2>5. StubRight(t)'
    BY <1>0, <1>2, <1>4, <2>1, <2>4, OthersAsk DEF FilesInv, StubRight
  <2>6. MinfoRight(t)'
    BY <1>4, <1>5 DEF MinfoRight
  <2> QED
    BY <1>0, <1>1, <1>2, <1>3, <1>4, <2>1, <2>2, <2>3, <2>5, <2>6, FilesFrame
<1>6. CASE job' = [job EXCEPT ![w].pc = "open", ![w].lines = minfo[t]] /\ minfo[t] # Missing
  <2>1. \A v \in Workers \ {w} : job'[v] = job[v]
    BY <1>6 DEF StubType
  <2>2. /\ job'[w].pc = "open" /\ job'[w].line = job[w].line /\ job'[w].title = t
        /\ job'[w].lines = minfo[t]
    BY <1>0, <1>1, <1>2, <1>6 DEF StubType, JobState
  <2>3. ProberRight(w)'
    <3>1. minfo[t] \subseteq Allowed(t) /\ Allowed(t)' = Allowed(t)
      BY <1>2, <1>6 DEF FilesInv, LinesRight, Allowed
    <3> QED
      BY <1>2, <2>2, <3>1 DEF ProberRight, Writing, Allowed
  <2>4. OthersRight'
    BY <1>0, <1>2, <1>4, <2>1, OthersAreWorkers DEF FilesInv, OthersRight, StubType, JobState
  <2>5. /\ On(w, t) /\ On(w, t)' /\ HasRead(w)'
        /\ AsksStub(w)' <=> AsksStub(w)
        /\ AsksCodec(w)' <=> AsksCodec(w)
        /\ AsksPref(w)' <=> AsksPref(w)
        /\ job'[w].pc # "update" /\ job[w].pc # "update"
        /\ AsksCodec(w) \/ AsksPref(w)
        /\ job'[w].line = "pref" => AsksPref(w)
    BY <1>1, <1>2, <2>2 DEF AsksCodec, AsksPref, AsksStub, HasRead, Writing, On
  <2>6. Emptied(t)' <=> Emptied(t)
    BY <1>0, <1>2, <2>1, <2>2, EmptiedStays
  <2>7. StubRight(t)'
    BY <1>0, <1>2, <1>4, <2>1, <2>5, OthersAsk DEF FilesInv, StubRight
  <2>8. MinfoRight(t)'
    <3> SUFFICES ASSUME "minfo" \notin lapse'[t]
                 PROVE  MinfoRight(t)'
      BY DEF MinfoRight
    <3>1. ~Emptied(t) /\ lapse' = lapse /\ MinfoRight(t)
      BY <1>4 DEF FilesInv
    <3>2. "token" \in minfo[t] /\ (AsksPref(w) => "codec" \in minfo[t])
      BY <1>6, <2>5, <3>1 DEF MinfoRight, Coded
    <3>3. ~Filling(t)
      BY <1>6, <3>1, EmptiedBy, OthersAreWorkers DEF MinfoRight, Filling
    <3>4. Coded(t)' <=> Coded(t)
      BY <1>2, <2>6 DEF Coded
    <3> QED
      BY <1>0, <1>2, <1>6, <2>1, <2>2, <2>5, <2>6, <3>1, <3>2, <3>3, <3>4, OthersAsk DEF MinfoRight
  <2> QED
    BY <1>0, <1>1, <1>2, <1>3, <1>4, <2>1, <2>2, <2>3, <2>4, <2>7, <2>8, FilesFrame
<1> QED
  BY <1>1, <1>5, <1>6 DEF ReadLines

LEMMA FilesWriteStub ==
    ASSUME setup \in Setups, StubType, FilesInv, NEW w \in Probers, WriteStub(w)
    PROVE  FilesInv'
<1>0. w \in Workers /\ w # "backfill" /\ job[w] \in JobState /\ ProberRight(w)
  BY OthersAreWorkers DEF StubType, FilesInv
<1>1. PICK t \in Titles : t = job[w].title
  BY <1>0 DEF JobState
<1>2. /\ job[w].pc = "stub" /\ t \in tracks /\ UNCHANGED <<minfo, tracks, lapse>> /\ Prefers(w)
      /\ stub' = IF Folder(t) THEN [stub EXCEPT ![t] = "probed"] ELSE stub
  BY <1>0, <1>1 DEF WriteStub, ProberRight, Writing
<1>3. /\ \A v \in Workers \ {w} : job'[v] = job[v]
      /\ \/ job'[w].pc = "read" /\ job'[w].line = "pref" /\ job'[w].title = t /\ t \in Fallback
         \/ job'[w].pc = "idle" /\ job'[w].line = "codec" /\ t \notin Fallback
  BY <1>0, <1>1, <1>2, AfterPrefers
<1>4. LinesRight(t)'
  BY <1>2 DEF FilesInv, LinesRight, Allowed
<1>5. ProberRight(w)'
  BY <1>2, <1>3 DEF ProberRight, Writing
<1>6. OthersRight'
  BY <1>0, <1>2, <1>3, OthersAreWorkers DEF FilesInv, OthersRight
<1>7. /\ On(w, t) /\ HasRead(w) /\ AsksPref(w) /\ AsksStub(w)
      /\ ~AsksCodec(w)' /\ ~AsksStub(w)' /\ ~AsksCodec(w)
      /\ t \in Fallback => On(w, t)' /\ AsksPref(w)'
      /\ job'[w].pc \notin {"update", "open", "write"} /\ job[w].pc \notin {"update", "open", "write"}
  BY <1>1, <1>2, <1>3 DEF AsksCodec, AsksPref, AsksStub, HasRead, Writing, On
<1>8. Emptied(t)' <=> Emptied(t)
  BY <1>0, <1>2, <1>3, EmptiedStays
<1>9. StubRight(t)'
  <2>1. Folder(t) => stub'[t] = "probed"
    BY <1>2 DEF StubType
  <2>2. ~Folder(t) => stub[t] = "none" /\ "stub" \in lapse[t] /\ stub' = stub
    BY <1>2, <1>7 DEF Folder, FilesInv, StubRight
  <2> QED
    BY <1>2, <2>1, <2>2 DEF StubRight
<1>10. MinfoRight(t)'
  <2>1. Coded(t)' <=> Coded(t)
    BY <1>2, <1>8 DEF Coded
  <2> QED
    BY <1>0, <1>2, <1>3, <1>7, <1>8, <2>1, OthersAsk DEF FilesInv, MinfoRight
<1>11. \A x \in Titles \ {t} : stub'[x] = stub[x]
  BY <1>2 DEF StubType
<1> QED
  BY <1>0, <1>1, <1>2, <1>3, <1>4, <1>5, <1>6, <1>9, <1>10, <1>11, FilesFrame

(* Whoever opens or writes a .minfo is a probe, or the backfill.           *)
LEMMA Writers ==
    ASSUME StubType, FilesInv, NEW w \in Workers, job[w].pc \in {"open", "write"}
    PROVE  \/ w \in Probers /\ ProberRight(w) /\ w # "backfill"
           \/ w = "backfill" /\ job[w].line = "token" /\ job[w].lines = {} /\ w \notin Probers
BY OthersAreWorkers, StubConstants DEF FilesInv, OthersRight, Workers, Others

LEMMA FilesOpenByProber ==
    ASSUME setup \in Setups, StubType, FilesInv, NEW w \in Probers, OpenMinfo(w)
    PROVE  FilesInv'
<1>0. w \in Workers /\ w # "backfill" /\ job[w] \in JobState /\ ProberRight(w)
  BY OthersAreWorkers DEF StubType, FilesInv
<1>1. PICK t \in Titles : t = job[w].title
  BY <1>0 DEF JobState
<1>2. /\ job[w].pc = "open" /\ job[w].line \in {"codec", "pref"} /\ t \in tracks
      /\ job[w].line = "pref" => t \in Fallback
      /\ job[w].lines \subseteq Allowed(t)
      /\ UNCHANGED <<stub, tracks, lapse>>
  BY <1>0, <1>1 DEF OpenMinfo, ProberRight, Writing
<1>3. CASE ~Folder(t)
  <2>1. AfterLine(w) /\ UNCHANGED minfo /\ minfo[t] = Missing
    BY <1>1, <1>3 DEF OpenMinfo, Folder
  <2>2. /\ \A v \in Workers \ {w} : job'[v] = job[v]
        /\ \/ /\ job[w].line = "codec" /\ job'[w].pc = "stub" /\ job'[w].line = "codec"
              /\ job'[w].title = t
           \/ job[w].line # "codec" /\ job'[w].pc = "idle" /\ job'[w].line = "codec"
    BY <1>0, <1>1, <2>1, AfterAfterLine
  <2>3. ProberRight(w)'
    BY <1>2, <2>2 DEF ProberRight, Writing
  <2>4. OthersRight'
    BY <1>0, <1>2, <2>2, OthersAreWorkers DEF FilesInv, OthersRight
  <2>5. /\ On(w, t) /\ HasRead(w)
        /\ AsksStub(w) <=> job[w].line = "codec"
        /\ AsksCodec(w) <=> job[w].line = "codec"
        /\ AsksStub(w)' <=> job[w].line = "codec"
        /\ ~AsksCodec(w)' /\ job'[w].pc # "update" /\ job[w].pc # "update"
        /\ job[w].line = "codec" => On(w, t)'
    BY <1>1, <1>2, <2>2 DEF AsksCodec, AsksStub, HasRead, Writing, On
  <2>6. StubRight(t)'
    BY <1>0, <1>2, <2>1, <2>2, <2>5, OthersAsk DEF FilesInv, StubRight
  <2>7. MinfoRight(t)'
    BY <1>2, <2>1, <2>5 DEF FilesInv, MinfoRight
  <2>8. LinesRight(t)'
    BY <2>1 DEF LinesRight
  <2> QED
    BY <1>0, <1>1, <1>2, <2>1, <2>2, <2>3, <2>4, <2>6, <2>7, <2>8, FilesFrame
<1>4. CASE Folder(t)
  <2>1. minfo' = [minfo EXCEPT ![t] = {}] /\ Goes(w, "write")
    BY <1>1, <1>4 DEF OpenMinfo
  <2>2. /\ \A v \in Workers \ {w} : job'[v] = job[v]
        /\ job'[w].pc = "write" /\ job'[w].line = job[w].line /\ job'[w].title = t
        /\ job'[w].lines = job[w].lines
    BY <1>0, <1>1, <2>1 DEF Goes, StubType, JobState
  <2>3. /\ minfo'[t] = {} /\ {} # Missing
        /\ \A x \in Titles \ {t} : minfo'[x] = minfo[x]
    BY <2>1 DEF StubType, Missing
  <2>4. ProberRight(w)'
    <3>1. Allowed(t)' = Allowed(t)
      BY <1>2 DEF Allowed
    <3> QED
      BY <1>2, <2>2, <3>1 DEF ProberRight, Writing, Allowed
  <2>5. OthersRight'
    BY <1>0, <1>2, <2>2, OthersAreWorkers DEF FilesInv, OthersRight
  <2>6. /\ On(w, t) /\ On(w, t)' /\ HasRead(w) /\ HasRead(w)'
        /\ AsksStub(w)' <=> AsksStub(w)
        /\ AsksCodec(w)' <=> AsksCodec(w)
        /\ AsksPref(w)' <=> AsksPref(w)
        /\ job'[w].pc # "update" /\ job[w].pc # "update"
        /\ AsksCodec(w) \/ AsksPref(w)
    BY <1>1, <1>2, <2>2 DEF AsksCodec, AsksPref, AsksStub, HasRead, Writing, On
  <2>7. Emptied(t)'
    BY <1>0, <2>2 DEF Emptied, BusyOn
  <2>8. StubRight(t)'
    <3>1. stub[t] = "none" => "stub" \in lapse[t]
      BY <1>4 DEF Folder, FilesInv, StubRight
    <3> QED
      BY <1>0, <1>2, <2>2, <2>6, <3>1, OthersAsk DEF FilesInv, StubRight
  <2>9. MinfoRight(t)'
    <3> SUFFICES ASSUME "minfo" \notin lapse[t]
                 PROVE  MinfoRight(t)'
      BY <1>2 DEF MinfoRight
    <3>1. MinfoRight(t) /\ minfo[t] # Missing /\ ~Filling(t)
      BY <2>6 DEF FilesInv, MinfoRight
    <3>2. Coded(t)' /\ ~Filling(t)'
      BY <1>0, <2>2, <2>3, <2>7, <3>1, OthersAsk DEF Coded
    <3>3. ~(On("backfill", t)' /\ job'["backfill"].pc = "open")
      BY <3>2 DEF Filling
    <3>4. \A v \in Probers : On(v, t)' /\ job'[v].pc \in {"open", "write"} =>
            /\ On(v, t) /\ job[v].pc \in {"open", "write"}
            /\ job'[v].lines = job[v].lines /\ job'[v].line = job[v].line
      BY <1>0, <1>2, <2>2, <2>6, OthersAsk
    <3>5. \A v \in Probers : On(v, t)' /\ job'[v].pc \in {"open", "write"} =>
            /\ "token" \in job'[v].lines
            /\ job'[v].line = "pref" => "codec" \in job'[v].lines
      BY <3>1, <3>4 DEF MinfoRight
    <3> QED
      BY <2>3, <2>6, <2>7, <3>2, <3>3, <3>5 DEF MinfoRight
  <2>10. LinesRight(t)'
    BY <2>3 DEF LinesRight
  <2> QED
    BY <1>0, <1>1, <1>2, <2>2, <2>3, <2>4, <2>5, <2>8, <2>9, <2>10, FilesFrame
<1> QED
  BY <1>3, <1>4

LEMMA FilesOpenByBackfill ==
    ASSUME setup \in Setups, StubType, FilesInv, OpenMinfo("backfill")
    PROVE  FilesInv'
<1> DEFINE w == "backfill"
<1>0. w \in Workers /\ w \notin Probers /\ job[w] \in JobState /\ job[w].pc = "open"
      /\ job[w].line = "token" /\ job[w].lines = {}
  BY OthersAreWorkers, Writers DEF StubType, OpenMinfo
<1>1. PICK t \in Titles : t = job[w].title
  BY <1>0 DEF JobState
<1>2. UNCHANGED <<stub, tracks, lapse>> /\ On(w, t) /\ Filling(t)
  BY <1>0, <1>1 DEF OpenMinfo, On, Filling
<1>3. CASE ~Folder(t)
  <2>1. AfterLine(w) /\ UNCHANGED minfo /\ minfo[t] = Missing
    BY <1>1, <1>3 DEF OpenMinfo, Folder
  <2>2. /\ \A v \in Workers \ {w} : job'[v] = job[v]
        /\ job'[w].pc = "idle" /\ job'[w].lines = {}
    BY <1>0, <1>1, <2>1, AfterAfterLine
  <2>3. OthersRight'
    BY <1>2, <2>2, OthersAreWorkers DEF FilesInv, OthersRight
  <2>4. StubRight(t)'
    BY <1>0, <1>2, <2>1, <2>2, OthersAsk DEF FilesInv, StubRight
  <2>5. Emptied(t)' <=> Emptied(t)
    BY <1>0, <2>2, EmptiedStays
  <2>6. MinfoRight(t)'
    <3>1. ~Filling(t)'
      BY <2>2 DEF Filling
    <3>2. ~Coded(t) /\ ~Coded(t)'
      BY <2>1 DEF Coded
    <3> QED
      BY <1>0, <1>2, <2>1, <2>2, <2>5, <3>1, <3>2, OthersAsk DEF FilesInv, MinfoRight
  <2>7. LinesRight(t)'
    BY <2>1 DEF LinesRight
  <2> QED
    BY <1>0, <1>1, <1>2, <2>1, <2>2, <2>3, <2>4, <2>6, <2>7, FilesFrame
<1>4. CASE Folder(t)
  <2>1. minfo' = [minfo EXCEPT ![t] = {}] /\ Goes(w, "write")
    BY <1>1, <1>4 DEF OpenMinfo
  <2>2. /\ \A v \in Workers \ {w} : job'[v] = job[v]
        /\ job'[w].pc = "write" /\ job'[w].line = "token" /\ job'[w].title = t
        /\ job'[w].lines = {}
    BY <1>0, <1>1, <2>1 DEF Goes, StubType, JobState
  <2>3. /\ minfo'[t] = {} /\ {} # Missing
        /\ \A x \in Titles \ {t} : minfo'[x] = minfo[x]
    BY <2>1 DEF StubType, Missing
  <2>4. OthersRight'
    BY <1>2, <2>2, OthersAreWorkers DEF FilesInv, OthersRight
  <2>5. Emptied(t)'
    BY <1>0, <2>2 DEF Emptied, BusyOn
  <2>6. StubRight(t)'
    <3>1. stub[t] = "none" => "stub" \in lapse[t]
      BY <1>4 DEF Folder, FilesInv, StubRight
    <3> QED
      BY <1>0, <1>2, <2>2, <3>1, OthersAsk DEF FilesInv, StubRight
  <2>7. MinfoRight(t)'
    <3> SUFFICES ASSUME "minfo" \notin lapse[t]
                 PROVE  MinfoRight(t)'
      BY <1>2 DEF MinfoRight
    <3>1. MinfoRight(t) /\ minfo[t] = Missing
      BY <1>0, <1>2 DEF FilesInv, MinfoRight
    <3>2. \A v \in Probers : On(v, t) => ~HasRead(v)
      BY <3>1 DEF MinfoRight
    <3>3. \A v \in Probers : On(v, t) => ~AsksPref(v) /\ job[v].pc \notin {"open", "write"}
      BY <3>2 DEF HasRead
    <3>4. job'[w].pc # "open"
      BY <2>2
    <3>5. ~Coded(t)
      BY <3>1 DEF Coded
    <3> QED
      BY <1>0, <1>2, <2>2, <2>3, <2>5, <3>1, <3>2, <3>3, <3>4, <3>5, OthersAsk DEF MinfoRight
  <2>8. LinesRight(t)'
    BY <2>3 DEF LinesRight
  <2> QED
    BY <1>0, <1>1, <1>2, <2>2, <2>3, <2>4, <2>6, <2>7, <2>8, FilesFrame
<1> QED
  BY <1>3, <1>4

LEMMA FilesOpen ==
    ASSUME setup \in Setups, StubType, FilesInv, NEW w \in Workers, OpenMinfo(w)
    PROVE  FilesInv'
<1>1. job[w].pc = "open"
  BY DEF OpenMinfo
<1> QED
  BY <1>1, Writers, FilesOpenByProber, FilesOpenByBackfill

(* What a .minfo says once the lines of job w are in it.                   *)
LEMMA LinesWritten ==
    ASSUME StubType, NEW w \in Workers, NEW t \in Titles, t = job[w].title, WriteLines(w)
    PROVE  /\ UNCHANGED <<stub, tracks, lapse>> /\ AfterLine(w)
           /\ \A x \in Titles \ {t} : minfo'[x] = minfo[x]
           /\ \/ minfo[t] = Missing /\ minfo' = minfo
              \/ /\ minfo[t] # Missing /\ minfo'[t] # Missing
                 /\ job[w].lines \cup {job[w].line} \subseteq minfo'[t]
                 /\ minfo'[t] \subseteq job[w].lines \cup {job[w].line} \cup minfo[t]
<1>1. UNCHANGED <<stub, tracks, lapse>> /\ AfterLine(w)
  BY DEF WriteLines
<1>2. CASE minfo[t] = Missing
  BY <1>1, <1>2 DEF WriteLines
<1>3. CASE minfo[t] # Missing
  <2>1. PICK end \in SUBSET minfo[t] :
            minfo' = [minfo EXCEPT ![t] = job[w].lines \cup {job[w].line} \cup end]
    BY <1>3 DEF WriteLines
  <2>2. job[w].line # "missing"
    BY DEF StubType, JobState, LineKind
  <2>3. minfo'[t] = job[w].lines \cup {job[w].line} \cup end
    BY <2>1 DEF StubType
  <2>4. minfo'[t] # Missing
    BY <2>2, <2>3 DEF Missing
  <2> QED
    BY <1>1, <1>3, <2>1, <2>3, <2>4 DEF StubType
<1> QED
  BY <1>2, <1>3

LEMMA FilesWriteByProber ==
    ASSUME setup \in Setups, StubType, FilesInv, NEW w \in Probers, WriteLines(w)
    PROVE  FilesInv'
<1>0. w \in Workers /\ w # "backfill" /\ job[w] \in JobState /\ ProberRight(w)
  BY OthersAreWorkers DEF StubType, FilesInv
<1>1. PICK t \in Titles : t = job[w].title
  BY <1>0 DEF JobState
<1>2. /\ job[w].pc = "write" /\ job[w].line \in {"codec", "pref"} /\ t \in tracks
      /\ job[w].line = "pref" => t \in Fallback
      /\ job[w].lines \subseteq Allowed(t)
  BY <1>0, <1>1 DEF WriteLines, ProberRight, Writing
<1>3. /\ UNCHANGED <<stub, tracks, lapse>> /\ AfterLine(w)
      /\ \A x \in Titles \ {t} : minfo'[x] = minfo[x]
      /\ \/ minfo[t] = Missing /\ minfo' = minfo
         \/ /\ minfo[t] # Missing /\ minfo'[t] # Missing
            /\ job[w].lines \cup {job[w].line} \subseteq minfo'[t]
            /\ minfo'[t] \subseteq job[w].lines \cup {job[w].line} \cup minfo[t]
  BY <1>0, <1>1, LinesWritten
<1>4. /\ \A v \in Workers \ {w} : job'[v] = job[v]
      /\ \/ /\ job[w].line = "codec" /\ job'[w].pc = "stub" /\ job'[w].line = "codec"
            /\ job'[w].title = t
         \/ job[w].line # "codec" /\ job'[w].pc = "idle" /\ job'[w].line = "codec"
  BY <1>0, <1>1, <1>3, AfterAfterLine
<1>5. ProberRight(w)'
  BY <1>2, <1>3, <1>4 DEF ProberRight, Writing
<1>6. OthersRight'
  BY <1>0, <1>3, <1>4, OthersAreWorkers DEF FilesInv, OthersRight
<1>7. /\ On(w, t) /\ HasRead(w)
      /\ AsksStub(w) <=> job[w].line = "codec"
      /\ AsksCodec(w) <=> job[w].line = "codec"
      /\ AsksStub(w)' <=> job[w].line = "codec"
      /\ AsksPref(w)' <=> job[w].line = "codec"
      /\ ~AsksCodec(w)' /\ job'[w].pc \notin {"update", "open", "write"} /\ job[w].pc # "update"
      /\ job[w].line = "codec" => On(w, t)'
  BY <1>1, <1>2, <1>4 DEF AsksCodec, AsksStub, AsksPref, HasRead, Writing, On
<1>8. StubRight(t)'
  BY <1>0, <1>3, <1>4, <1>7, OthersAsk DEF FilesInv, StubRight
<1>9. MinfoRight(t)'
  <2> SUFFICES ASSUME "minfo" \notin lapse[t]
               PROVE  MinfoRight(t)'
    BY <1>3 DEF MinfoRight
  <2>1. /\ MinfoRight(t) /\ minfo[t] # Missing /\ ~Filling(t)
        /\ "token" \in job[w].lines
        /\ job[w].line = "pref" => "codec" \in job[w].lines
    BY <1>2, <1>7 DEF FilesInv, MinfoRight
  <2>2. /\ minfo'[t] # Missing /\ "token" \in minfo'[t] /\ "codec" \in minfo'[t]
        /\ job[w].line = "pref" => "pref" \in minfo'[t]
    BY <1>2, <1>3, <2>1
  <2>3. Coded(t)' /\ ~Filling(t)'
    BY <1>0, <1>4, <2>1, <2>2, OthersAsk DEF Coded
  <2>4. ~(On("backfill", t)' /\ job'["backfill"].pc = "open")
    BY <2>3 DEF Filling
  <2>5. \A v \in Probers : On(v, t)' /\ job'[v].pc \in {"open", "write"} =>
            /\ "token" \in job'[v].lines
            /\ job'[v].line = "pref" => "codec" \in job'[v].lines
    BY <1>0, <1>4, <1>7, <2>1, OthersAsk DEF MinfoRight
  <2> QED
    BY <1>2, <1>3, <1>7, <2>2, <2>3, <2>4, <2>5 DEF MinfoRight
<1>10. LinesRight(t)'
  <2>1. job[w].line \in Allowed(t) /\ Allowed(t)' = Allowed(t)
    BY <1>2, <1>3 DEF Allowed
  <2> QED
    BY <1>2, <1>3, <2>1 DEF FilesInv, LinesRight
<1> QED
  BY <1>0, <1>1, <1>3, <1>4, <1>5, <1>6, <1>8, <1>9, <1>10, FilesFrame

LEMMA FilesWriteByBackfill ==
    ASSUME setup \in Setups, StubType, FilesInv, WriteLines("backfill")
    PROVE  FilesInv'
<1> DEFINE w == "backfill"
<1>0. w \in Workers /\ w \notin Probers /\ job[w] \in JobState /\ job[w].pc = "write"
      /\ job[w].line = "token" /\ job[w].lines = {}
  BY OthersAreWorkers, Writers DEF StubType, WriteLines
<1>1. PICK t \in Titles : t = job[w].title
  BY <1>0 DEF JobState
<1>2. /\ UNCHANGED <<stub, tracks, lapse>> /\ AfterLine(w)
      /\ \A x \in Titles \ {t} : minfo'[x] = minfo[x]
      /\ \/ minfo[t] = Missing /\ minfo' = minfo
         \/ /\ minfo[t] # Missing /\ minfo'[t] # Missing
            /\ "token" \in minfo'[t] /\ minfo'[t] \subseteq {"token"} \cup minfo[t]
  BY <1>0, <1>1, LinesWritten
<1>3. /\ \A v \in Workers \ {w} : job'[v] = job[v]
      /\ job'[w].pc = "idle" /\ job'[w].lines = {}
  BY <1>0, <1>1, <1>2, AfterAfterLine
<1>4. OthersRight'
  BY <1>2, <1>3, OthersAreWorkers DEF FilesInv, OthersRight
<1>5. StubRight(t)'
  BY <1>0, <1>2, <1>3, OthersAsk DEF FilesInv, StubRight
<1>6. MinfoRight(t)'
  <2> SUFFICES ASSUME "minfo" \notin lapse[t]
               PROVE  MinfoRight(t)'
    BY <1>2 DEF MinfoRight
  <2>1. Filling(t) /\ Emptied(t) /\ MinfoRight(t)
    BY <1>0, <1>1 DEF Filling, On, Emptied, BusyOn, FilesInv
  <2>2. minfo[t] # Missing /\ \A v \in Probers : On(v, t) => ~HasRead(v)
    BY <2>1 DEF MinfoRight
  <2>3. minfo'[t] # Missing /\ "token" \in minfo'[t]
    BY <1>2, <2>2
  <2>4. \A v \in Probers : On(v, t) => ~AsksPref(v) /\ job[v].pc \notin {"open", "write"}
    BY <2>2 DEF HasRead
  <2>5. ~Filling(t)' /\ job'[w].pc # "open"
    BY <1>3 DEF Filling
  <2>6. t \in tracks => \E v \in Probers : On(v, t)' /\ AsksCodec(v)'
    BY <1>0, <1>3, <2>1, OthersAsk DEF MinfoRight
  <2>7. \A v \in Probers : On(v, t)' => ~AsksPref(v)' /\ job'[v].pc \notin {"open", "write"}
    BY <1>0, <1>3, <2>4, OthersAsk
  <2> QED
    BY <1>2, <2>3, <2>5, <2>6, <2>7 DEF MinfoRight
<1>7. LinesRight(t)'
  BY <1>2 DEF FilesInv, LinesRight, Allowed
<1> QED
  BY <1>0, <1>1, <1>2, <1>3, <1>4, <1>5, <1>6, <1>7, FilesFrame

LEMMA FilesWriteLines ==
    ASSUME setup \in Setups, StubType, FilesInv, NEW w \in Workers, WriteLines(w)
    PROVE  FilesInv'
<1>1. job[w].pc = "write"
  BY DEF WriteLines
<1> QED
  BY <1>1, Writers, FilesWriteByProber, FilesWriteByBackfill

(* A step of a worker that is no probe asks for nothing.                   *)
LEMMA OthersStep ==
    ASSUME NEW w \in Others, NEW t \in Titles, \A v \in Workers \ {w} : job'[v] = job[v]
    PROVE  /\ w \in Workers /\ w \notin Probers
           /\ \A v \in Probers : /\ On(v, t)' <=> On(v, t)
                                 /\ AsksCodec(v)' <=> AsksCodec(v)
                                 /\ AsksPref(v)' <=> AsksPref(v)
                                 /\ AsksStub(v)' <=> AsksStub(v)
                                 /\ HasRead(v)' <=> HasRead(v)
                                 /\ job'[v] = job[v]
           /\ w # "backfill" => /\ Filling(t)' <=> Filling(t)
                                /\ job'["backfill"] = job["backfill"]
                                /\ On("backfill", t)' <=> On("backfill", t)
<1>1. w \in Workers /\ w \notin Probers
  BY StubConstants DEF Workers
<1> QED
  BY <1>1, OthersAsk

LEMMA FilesWriteMinfo ==
    ASSUME setup \in Setups, StubType, FilesInv, WriteMinfo
    PROVE  FilesInv'
<1> DEFINE w == "backfill"
<1>0. w \in Workers /\ w \in Others /\ w \notin Probers /\ job[w] \in JobState
      /\ job[w].pc = "minfo" /\ job[w].line = "token" /\ job[w].lines = {}
  BY OthersAreWorkers DEF StubType, WriteMinfo, FilesInv, OthersRight, Others
<1>1. PICK t \in Titles : t = job[w].title
  BY <1>0 DEF JobState
<1>2. /\ UNCHANGED <<stub, minfo, tracks, lapse>>
      /\ \/ minfo[t] = Missing /\ Goes(w, "open")
         \/ minfo[t] # Missing /\ Ends(w)
  BY <1>1 DEF WriteMinfo
<1>3. /\ \A v \in Workers \ {w} : job'[v] = job[v]
      /\ \/ /\ minfo[t] = Missing /\ job'[w].pc = "open" /\ job'[w].title = t
            /\ job'[w].line = "token" /\ job'[w].lines = {}
         \/ minfo[t] # Missing /\ job'[w].pc = "idle" /\ job'[w].lines = {}
  BY <1>0, <1>1, <1>2 DEF Goes, Ends, StubType, JobState, NoJob
<1>4. OthersRight'
  BY <1>2, <1>3, OthersAreWorkers DEF FilesInv, OthersRight
<1>5. Emptied(t)' <=> Emptied(t)
  BY <1>0, <1>3, EmptiedStays
<1>6. Coded(t)' <=> Coded(t)
  BY <1>2, <1>5 DEF Coded
<1>7. ~Filling(t) /\ (minfo[t] # Missing => ~Filling(t)' /\ job'[w].pc # "open")
  BY <1>0, <1>3 DEF Filling
<1>8. StubRight(t)'
  BY <1>0, <1>2, <1>3, OthersStep DEF FilesInv, StubRight
<1>9. MinfoRight(t)'
  <2> SUFFICES ASSUME "minfo" \notin lapse[t]
               PROVE  MinfoRight(t)'
    BY <1>2 DEF MinfoRight
  <2>1. MinfoRight(t)
    BY DEF FilesInv
  <2>2. CASE minfo[t] = Missing
    <3>1. ~Coded(t)
      BY <2>2 DEF Coded
    <3> QED
      BY <1>0, <1>2, <1>3, <1>5, <1>6, <2>1, <2>2, <3>1, OthersStep DEF MinfoRight
  <2>3. CASE minfo[t] # Missing
    BY <1>0, <1>2, <1>3, <1>5, <1>6, <1>7, <2>1, <2>3, OthersStep DEF MinfoRight
  <2> QED
    BY <2>2, <2>3
<1>10. LinesRight(t)'
  BY <1>2 DEF FilesInv, LinesRight, Allowed
<1> QED
  BY <1>0, <1>1, <1>2, <1>3, <1>4, <1>8, <1>9, <1>10, FilesFrame

LEMMA FilesUnlinkMinfo ==
    ASSUME setup \in Setups, StubType, FilesInv, UnlinkMinfo
    PROVE  FilesInv'
<1> DEFINE w == "cleanup"
<1>0. w \in Workers /\ w \in Others /\ w # "backfill" /\ w \notin Probers /\ job[w] \in JobState
      /\ job[w].pc = "unlink"
  BY OthersAreWorkers DEF StubType, UnlinkMinfo, Others
<1>1. PICK t \in Titles : t = job[w].title
  BY <1>0 DEF JobState
<1>2. /\ UNCHANGED <<stub, tracks, lapse>> /\ "minfo" \in lapse[t]
      /\ minfo'[t] = Missing /\ \A x \in Titles \ {t} : minfo'[x] = minfo[x]
  BY <1>0, <1>1 DEF UnlinkMinfo, StubType, FilesInv, OthersRight
<1>3. job'[w].pc = "idle" /\ \A v \in Workers \ {w} : job'[v] = job[v]
  BY <1>0 DEF UnlinkMinfo, Ends, StubType, NoJob
<1>4. OthersRight'
  BY <1>2, <1>3, OthersAreWorkers DEF FilesInv, OthersRight
<1>5. StubRight(t)'
  BY <1>0, <1>2, <1>3, OthersStep DEF FilesInv, StubRight
<1>6. MinfoRight(t)' /\ LinesRight(t)'
  BY <1>2 DEF MinfoRight, LinesRight
<1> QED
  BY <1>0, <1>1, <1>2, <1>3, <1>4, <1>5, <1>6, FilesFrame

LEMMA FilesRewrite ==
    ASSUME setup \in Setups, StubType, FilesInv, Rewrite
    PROVE  FilesInv'
<1> DEFINE w == "regenerate"
<1>0. w \in Workers /\ w \in Others /\ w # "backfill" /\ w \notin Probers /\ job[w] \in JobState
      /\ job[w].pc = "rewrite"
  BY OthersAreWorkers DEF StubType, Rewrite, Others
<1>1. PICK t \in Titles : t = job[w].title
  BY <1>0 DEF JobState
<1>2. /\ UNCHANGED <<minfo, tracks>>
      /\ \/ Folder(t) /\ stub' = [stub EXCEPT ![t] = IF job[w].saved THEN "probed" ELSE "plain"]
         \/ ~Folder(t) /\ stub' = stub
      /\ \/ job[w].saved # (t \in tracks) /\ lapse' = [lapse EXCEPT ![t] = @ \cup {"stub"}]
         \/ /\ job[w].saved = (t \in tracks)
            /\ \/ Folder(t) /\ lapse' = [lapse EXCEPT ![t] = @ \ {"stub"}]
               \/ ~Folder(t) /\ lapse' = lapse
  BY <1>1 DEF Rewrite, Lapses
<1>3. job'[w].pc = "idle" /\ \A v \in Workers \ {w} : job'[v] = job[v]
  BY <1>0 DEF Rewrite, Ends, StubType, NoJob
<1>4. /\ \A x \in Titles \ {t} : stub'[x] = stub[x] /\ lapse'[x] = lapse[x]
      /\ "minfo" \in lapse'[t] <=> "minfo" \in lapse[t]
      /\ \A x \in Titles : "minfo" \in lapse[x] => "minfo" \in lapse'[x]
  BY <1>2 DEF StubType
<1>5. OthersRight'
  BY <1>0, <1>2, <1>3, <1>4, OthersAreWorkers DEF FilesInv, OthersRight, StubType, JobState
<1>6. StubRight(t)'
  <2>1. CASE job[w].saved # (t \in tracks)
    <3>1. "stub" \in lapse'[t]
      BY <1>2, <2>1 DEF StubType
    <3> QED
      BY <3>1 DEF StubRight
  <2>2. CASE job[w].saved = (t \in tracks) /\ Folder(t)
    <3>1. stub'[t] = IF t \in tracks THEN "probed" ELSE "plain"
      BY <1>2, <2>2 DEF StubType
    <3> QED
      BY <1>2, <3>1 DEF StubRight
  <2>3. CASE job[w].saved = (t \in tracks) /\ ~Folder(t)
    <3>1. UNCHANGED <<stub, minfo, tracks, lapse>>
      BY <1>2, <2>3
    <3> QED
      BY <1>0, <1>3, <3>1, OthersStep DEF FilesInv, StubRight
  <2> QED
    BY <2>1, <2>2, <2>3
<1>7. MinfoRight(t)'
  <2>1. Emptied(t)' <=> Emptied(t)
    BY <1>0, <1>3, EmptiedStays
  <2>2. Coded(t)' <=> Coded(t)
    BY <1>2, <2>1 DEF Coded
  <2> QED
    BY <1>0, <1>2, <1>3, <1>4, <2>1, <2>2, OthersStep DEF FilesInv, MinfoRight
<1>8. LinesRight(t)'
  BY <1>2 DEF FilesInv, LinesRight, Allowed
<1> QED
  BY <1>0, <1>1, <1>2, <1>3, <1>4, <1>5, <1>6, <1>7, <1>8, FilesFrame

LEMMA FilesWriteSporeStubs ==
    ASSUME setup \in Setups, StubType, FilesInv, NEW t \in Titles, WriteSporeStubs(t)
    PROVE  FilesInv'
<1> DEFINE w == "backfill"
           s == [NoJob EXCEPT !.pc = "minfo", !.title = t, !.line = "token"]
<1>0. w \in Workers /\ w \in Others /\ job[w].pc = "idle"
  BY OthersAreWorkers DEF WriteSporeStubs, Others
<1>1. /\ UNCHANGED <<minfo, tracks, lapse>>
      /\ stub' = [stub EXCEPT ![t] = IF @ = "none" THEN "plain" ELSE @]
      /\ job' = [job EXCEPT ![w] = s]
  BY DEF WriteSporeStubs
<1>2. s.pc = "minfo" /\ s.title = t /\ s.line = "token" /\ s.lines = {}
  BY DEF NoJob
<1> HIDE DEF s
<1>3. job'[w] = s /\ \A v \in Workers \ {w} : job'[v] = job[v]
  BY <1>0, <1>1 DEF StubType
<1>4. /\ stub'[t] = IF stub[t] = "none" THEN "plain" ELSE stub[t]
      /\ \A x \in Titles \ {t} : stub'[x] = stub[x]
  BY <1>1 DEF StubType
<1>5. OthersRight'
  BY <1>1, <1>2, <1>3, OthersAreWorkers DEF FilesInv, OthersRight
<1>6. StubRight(t)'
  <2>1. \A v \in Probers : job[v].pc = "update" => AsksCodec(v)
    BY DEF AsksCodec
  <2> QED
    BY <1>0, <1>1, <1>3, <1>4, <2>1, OthersStep DEF FilesInv, StubRight
<1>7. MinfoRight(t)'
  <2>1. Emptied(t)' <=> Emptied(t)
    BY <1>0, <1>2, <1>3, EmptiedStays
  <2>2. Coded(t)' <=> Coded(t)
    BY <1>1, <2>1 DEF Coded
  <2>3. ~Filling(t) /\ ~Filling(t)' /\ job'[w].pc # "open"
    BY <1>0, <1>2, <1>3 DEF Filling
  <2> QED
    BY <1>0, <1>1, <1>3, <2>1, <2>2, <2>3, OthersStep DEF FilesInv, MinfoRight
<1>8. LinesRight(t)'
  BY <1>1 DEF FilesInv, LinesRight, Allowed
<1> QED
  BY <1>0, <1>1, <1>2, <1>3, <1>4, <1>5, <1>6, <1>7, <1>8, OthersStep, FilesFrame

LEMMA FilesDeleteSporeStubs ==
    ASSUME setup \in Setups, StubType, FilesInv, NEW t \in Titles, DeleteSporeStubs(t)
    PROVE  FilesInv'
<1> DEFINE w == "cleanup"
           s == [NoJob EXCEPT !.pc = "unlink", !.title = t]
<1>0. w \in Workers /\ w \in Others /\ job[w].pc = "idle"
  BY OthersAreWorkers DEF DeleteSporeStubs, Others
<1>1. /\ UNCHANGED <<minfo, tracks>> /\ stub' = [stub EXCEPT ![t] = "none"]
      /\ lapse' = [lapse EXCEPT ![t] = @ \cup {"stub", "minfo"}] /\ job' = [job EXCEPT ![w] = s]
  BY DEF DeleteSporeStubs, Lapses
<1>2. s.pc = "unlink" /\ s.title = t
  BY DEF NoJob
<1> HIDE DEF s
<1>3. job'[w] = s /\ \A v \in Workers \ {w} : job'[v] = job[v]
  BY <1>0, <1>1 DEF StubType
<1>4. /\ "stub" \in lapse'[t] /\ "minfo" \in lapse'[t]
      /\ \A x \in Titles \ {t} : stub'[x] = stub[x] /\ lapse'[x] = lapse[x]
  BY <1>1 DEF StubType
<1>5. OthersRight'
  BY <1>1, <1>2, <1>3, <1>4, OthersAreWorkers DEF FilesInv, OthersRight
<1>6. StubRight(t)' /\ MinfoRight(t)'
  BY <1>4 DEF StubRight, MinfoRight
<1>7. LinesRight(t)'
  BY <1>1 DEF FilesInv, LinesRight, Allowed
<1> QED
  BY <1>0, <1>1, <1>2, <1>3, <1>4, <1>5, <1>6, <1>7, OthersStep, FilesFrame

LEMMA FilesRegenerate ==
    ASSUME setup \in Setups, StubType, FilesInv, NEW t \in Titles, Regenerate(t)
    PROVE  FilesInv'
<1> DEFINE w == "regenerate"
           s == [NoJob EXCEPT !.pc = "rewrite", !.title = t, !.saved = t \in tracks]
<1>0. w \in Workers /\ w \in Others /\ w # "backfill" /\ job[w].pc = "idle"
  BY OthersAreWorkers DEF Regenerate, Others
<1>1. UNCHANGED <<stub, minfo, tracks, lapse>> /\ job' = [job EXCEPT ![w] = s]
  BY DEF Regenerate
<1>2. s.pc = "rewrite" /\ s.title = t /\ (s.saved => t \in tracks)
  BY DEF NoJob
<1> HIDE DEF s
<1>3. job'[w] = s /\ \A v \in Workers \ {w} : job'[v] = job[v]
  BY <1>0, <1>1 DEF StubType
<1>4. OthersRight'
  BY <1>1, <1>2, <1>3, OthersAreWorkers DEF FilesInv, OthersRight
<1>5. StubRight(t)'
  BY <1>0, <1>1, <1>3, OthersStep DEF FilesInv, StubRight
<1>6. MinfoRight(t)'
  <2>1. Emptied(t)' <=> Emptied(t)
    BY <1>0, <1>2, <1>3, EmptiedStays
  <2>2. Coded(t)' <=> Coded(t)
    BY <1>1, <2>1 DEF Coded
  <2> QED
    BY <1>0, <1>1, <1>3, <2>1, <2>2, OthersStep DEF FilesInv, MinfoRight
<1>7. LinesRight(t)'
  BY <1>1 DEF FilesInv, LinesRight, Allowed
<1> QED
  BY <1>0, <1>1, <1>2, <1>3, <1>4, <1>5, <1>6, <1>7, OthersStep, FilesFrame

(* After a restart nobody works on a title; where somebody did, nothing is *)
(* expected of its files.                                                  *)
LEMMA FilesRestart ==
    ASSUME setup \in Setups, StubType, FilesInv, Restart
    PROVE  FilesInv'
<1>1. /\ UNCHANGED <<stub, minfo, tracks>>
      /\ \A w \in Workers : job'[w] = NoJob
      /\ \A t \in Titles : lapse'[t] = lapse[t] \cup IF BusyOn(t) = {} THEN {} ELSE {"stub", "minfo"}
  BY DEF Restart
<1>2. NoJob.pc = "idle" /\ NoJob.line = "codec" /\ NoJob.lines = {}
  BY DEF NoJob
<1>3. \A w \in Probers : ProberRight(w)'
  BY <1>1, <1>2, OthersAreWorkers DEF ProberRight, Writing
<1>4. OthersRight'
  BY <1>1, <1>2, OthersAreWorkers DEF OthersRight
<1>5. ASSUME NEW t \in Titles
      PROVE  StubRight(t)' /\ MinfoRight(t)' /\ LinesRight(t)'
  <2>1. LinesRight(t)'
    BY <1>1 DEF FilesInv, LinesRight, Allowed
  <2>2. CASE BusyOn(t) # {}
    BY <1>1, <2>1, <2>2 DEF StubRight, MinfoRight
  <2>3. CASE BusyOn(t) = {}
    <3>1. lapse'[t] = lapse[t]
      BY <1>1, <2>3
    <3>2. \A w \in Workers : On(w, t) => job[w].pc = "idle"
      BY <2>3 DEF BusyOn, On
    <3>3. /\ \A w \in Probers : On(w, t) => ~AsksCodec(w) /\ ~AsksPref(w) /\ ~AsksStub(w)
                                            /\ job[w].pc # "update"
          /\ \A w \in Probers : ~AsksCodec(w)' /\ ~AsksPref(w)' /\ ~AsksStub(w)' /\ ~HasRead(w)'
                                /\ job'[w].pc \notin {"update", "open", "write"}
          /\ job'["backfill"].pc # "open"
      BY <1>1, <1>2, <3>2, OthersAreWorkers
      DEF AsksCodec, AsksPref, AsksStub, HasRead, Writing
    <3>4. ~Emptied(t) /\ ~Emptied(t)' /\ ~Filling(t)'
      BY <1>1, <1>2, <2>3, OthersAreWorkers DEF Emptied, BusyOn, Filling
    <3>5. Coded(t)' <=> Coded(t)
      BY <1>1, <3>4 DEF Coded
    <3>6. StubRight(t)'
      BY <1>1, <3>1, <3>3 DEF FilesInv, StubRight
    <3>7. MinfoRight(t)'
      BY <1>1, <3>1, <3>3, <3>4, <3>5 DEF FilesInv, MinfoRight
    <3> QED
      BY <2>1, <3>6, <3>7
  <2> QED
    BY <2>2, <2>3
<1> QED
  BY <1>3, <1>4, <1>5 DEF FilesInv

LEMMA FilesStay ==
    ASSUME FilesInv, UNCHANGED <<stub, minfo, tracks, lapse, job>>
    PROVE  FilesInv'
BY DEF FilesInv, ProberRight, OthersRight, StubRight, MinfoRight, LinesRight, Allowed,
   On, AsksCodec, AsksPref, AsksStub, HasRead, Filling, Coded, Emptied, BusyOn

(* What the files show of a title nobody works on.                         *)
LEMMA FilesFollow ==
    ASSUME StubType, FilesInv
    PROVE  FilesShowTheProbe
<1> SUFFICES ASSUME NEW t \in Titles, BusyOn(t) = {}
             PROVE  /\ stub[t] # "none" /\ "stub" \notin lapse[t] => (stub[t] = "probed" <=> t \in tracks)
                    /\ minfo[t] # Missing /\ "minfo" \notin lapse[t] => minfo[t] = Allowed(t)
  BY DEF FilesShowTheProbe, Allowed
<1>1. \A w \in Probers : On(w, t) => ~AsksCodec(w) /\ ~AsksPref(w) /\ ~AsksStub(w)
                                     /\ job[w].pc # "update"
  BY OthersAreWorkers DEF BusyOn, On, AsksCodec, AsksPref, AsksStub, Writing
<1>2. ~Emptied(t)
  BY DEF Emptied
<1>3. StubRight(t) /\ MinfoRight(t) /\ LinesRight(t) /\ stub[t] \in {"none", "plain", "probed"}
  BY DEF FilesInv, StubType
<1>4. stub[t] # "none" /\ "stub" \notin lapse[t] => (stub[t] = "probed" <=> t \in tracks)
  BY <1>1, <1>3 DEF StubRight
<1>5. ASSUME minfo[t] # Missing, "minfo" \notin lapse[t]
      PROVE  minfo[t] = Allowed(t)
  <2>1. minfo[t] \subseteq Allowed(t)
    BY <1>3, <1>5 DEF LinesRight
  <2>2. "token" \in minfo[t]
    BY <1>2, <1>3, <1>5 DEF MinfoRight
  <2>3. t \in tracks => "codec" \in minfo[t]
    BY <1>1, <1>2, <1>3, <1>5 DEF MinfoRight, Coded
  <2>4. t \in tracks \cap Fallback => "pref" \in minfo[t]
    BY <1>1, <1>3, <1>5 DEF MinfoRight
  <2> QED
    BY <2>1, <2>2, <2>3, <2>4 DEF Allowed
<1> QED
  BY <1>4, <1>5

(***************************************************************************)
(* The bytes of one image                                                  *)
(***************************************************************************)

(* What a piece of a file holds, and how much of it there is.              *)
LEMMA FetchHolds ==
    ASSUME NEW size \in Int, NEW first \in Int, NEW last \in Int
    PROVE  LET n == IF last <= size - 1 THEN last - first + 1 ELSE size - first
               m == IF n <= 0 THEN 0 ELSE n
           IN  /\ Fetch(size, first, last) = [i \in 1 .. m |-> first + i - 1]
               /\ m \in Nat
<1> DEFINE k == Min({last, size - 1})
           n == IF last <= size - 1 THEN last - first + 1 ELSE size - first
           m == IF n <= 0 THEN 0 ELSE n
<1>1. k \in Int /\ k = IF last <= size - 1 THEN last ELSE size - 1
  <2>1. size - 1 \in Int
    OBVIOUS
  <2>2. k \in {last, size - 1} /\ k \in Int /\ k <= last /\ k <= size - 1
    BY <2>1, MinOfPair
  <2> QED
    BY <2>2
<1> HIDE DEF k
<1>2. k - first + 1 = n /\ n \in Int
  BY <1>1
<1>3. Max({0, k - first + 1}) = m /\ m \in Nat
  <2> HIDE DEF n
  <2>1. 0 \in Int
    OBVIOUS
  <2>2. /\ Max({0, n}) \in {0, n} /\ Max({0, n}) >= 0 /\ Max({0, n}) >= n
    BY <1>2, <2>1, MaxOfPair
  <2> QED
    BY <1>2, <2>2
<1> QED
  BY <1>3 DEF Fetch, k

(* The byte at position p of a layout.                                     *)
ByteAt(info, p) == IF p < Len(info.header) THEN info.header[p + 1]
                   ELSE IF p < info.at + info.moov THEN p - info.moov ELSE p

(* However a range lies over the borders of the layout, it is answered     *)
(* with the bytes at its positions, in order.                              *)
LEMMA RangeInOrder ==
    ASSUME NEW info \in LayoutState,
           Len(info.header) <= info.at + info.moov, info.at + info.moov <= info.size,
           NEW first \in Nat, NEW last \in Int, first <= last + 1
    PROVE  LET data == ServeBytes(info, info.size, first, last) IN
           \A i \in DOMAIN data : /\ first + i - 1 \in 0 .. (info.size - 1)
                                  /\ data[i] = ByteAt(info, first + i - 1)
<1> DEFINE header == info.header
           size   == info.size
           moov   == info.moov
           hdr    == Len(header)
           mdat2  == info.at + moov
           p1     == IF first < hdr THEN Min({last, hdr - 1}) + 1 ELSE first
           two    == p1 <= last /\ p1 < mdat2
           p2     == IF two THEN Min({last, mdat2 - 1}) + 1 ELSE p1
           a      == IF first < hdr THEN SubSeq(header, first + 1, p1) ELSE <<>>
           b      == IF two THEN Fetch(size, p1 - moov, p2 - 1 - moov) ELSE <<>>
           c      == IF p2 <= last THEN Fetch(size, p2, last) ELSE <<>>
           la     == p1 - first
           lb     == p2 - p1
           end    == IF last <= size - 1 THEN last ELSE size - 1
           lc     == IF p2 <= end THEN end - p2 + 1 ELSE 0
<1>1. /\ header \in Seq(Nat) /\ hdr \in Nat /\ mdat2 \in Nat /\ moov \in Nat /\ size \in Nat
      /\ info.at \in Nat
  BY DEF LayoutState
<1>2. hdr <= mdat2 /\ mdat2 <= size
  OBVIOUS
<1>3. ServeBytes(info, size, first, last) = a \o b \o c
  BY DEF ServeBytes
<1>4. Min({last, hdr - 1}) = IF last <= hdr - 1 THEN last ELSE hdr - 1
  <2>1. hdr - 1 \in Int
    BY <1>1
  <2>2. Min({last, hdr - 1}) \in {last, hdr - 1} /\ Min({last, hdr - 1}) <= last /\ Min({last, hdr - 1}) <= hdr - 1
    BY <2>1, MinOfPair
  <2> QED
    BY <2>1, <2>2
<1>5. Min({last, mdat2 - 1}) = IF last <= mdat2 - 1 THEN last ELSE mdat2 - 1
  <2>1. mdat2 - 1 \in Int
    BY <1>1
  <2>2. Min({last, mdat2 - 1}) \in {last, mdat2 - 1} /\ Min({last, mdat2 - 1}) <= last /\ Min({last, mdat2 - 1}) <= mdat2 - 1
    BY <2>1, MinOfPair
  <2> QED
    BY <2>1, <2>2
<1> HIDE DEF header, size, moov, hdr, mdat2
<1>6. /\ p1 \in Nat /\ first <= p1 /\ p1 <= last + 1
      /\ first < hdr => p1 <= hdr
      /\ first >= hdr => p1 = first
      /\ p1 <= last => p1 >= hdr
  BY <1>1, <1>4
<1> HIDE DEF p1
<1>7. /\ p2 \in Nat /\ p1 <= p2 /\ p2 <= last + 1
      /\ two => p2 <= mdat2
      /\ p2 <= last => p2 >= mdat2
      /\ ~two => p2 = p1
  BY <1>1, <1>5, <1>6
<1> HIDE DEF p2
<1>8. la \in Nat /\ lb \in Nat /\ lc \in Nat /\ end \in Int
  BY <1>1, <1>6, <1>7
<1>a. /\ a = IF first < hdr THEN SubSeq(header, first + 1, p1) ELSE <<>>
      /\ b = IF two THEN Fetch(size, p1 - moov, p2 - 1 - moov) ELSE <<>>
      /\ c = IF p2 <= last THEN Fetch(size, p2, last) ELSE <<>>
  OBVIOUS
<1>l. /\ la = p1 - first /\ lb = p2 - p1
      /\ end = IF last <= size - 1 THEN last ELSE size - 1
      /\ lc = IF p2 <= end THEN end - p2 + 1 ELSE 0
  OBVIOUS
<1>t. two <=> (p1 <= last /\ p1 < mdat2)
  OBVIOUS
<1>s. ServeBytes(info, size, first, last) = a \o b \o c
  BY <1>3
<1>e. <<>> \in Seq(Int) /\ <<>> \in Seq(Nat) /\ Len(<<>>) = 0
  OBVIOUS
<1> HIDE DEF a, b, c, la, lb, lc, end, two
<1>9. /\ a \in Seq(Int) /\ Len(a) = la
      /\ \A i \in 1 .. la : first < hdr /\ a[i] = header[first + i]
  <2>1. CASE first < hdr
    <3>1. \A i \in first + 1 .. p1 : header[i] \in Int
      <4>1. \A i \in first + 1 .. p1 : i \in 1 .. Len(header)
        BY <1>1, <1>6, <2>1 DEF hdr
      <4> QED
        BY <1>1, <4>1, ElementOfSeq
    <3>2. first + 1 \in Int /\ p1 \in Int
      BY <1>6
    <3>3. /\ SubSeq(header, first + 1, p1) \in Seq(Int)
          /\ Len(SubSeq(header, first + 1, p1)) = IF first + 1 <= p1 THEN p1 - (first + 1) + 1 ELSE 0
          /\ \A i \in 1 .. p1 - (first + 1) + 1 :
                SubSeq(header, first + 1, p1)[i] = header[(first + 1) + i - 1]
      BY <3>1, <3>2, SubSeqProperties
    <3>4. p1 - (first + 1) + 1 = la /\ (~(first + 1 <= p1) => la = 0)
      BY <1>6, <1>l
    <3>5. \A i \in 1 .. la : (first + 1) + i - 1 = first + i
      BY <1>8
    <3>6. a = SubSeq(header, first + 1, p1)
      BY <1>a, <2>1
    <3> QED
      BY <2>1, <3>3, <3>4, <3>5, <3>6
  <2>2. CASE ~(first < hdr)
    <3>1. la = 0 /\ a = <<>>
      BY <1>1, <1>6, <1>a, <1>l, <2>2
    <3> QED
      BY <1>e, <3>1
  <2> QED
    BY <2>1, <2>2
<1>10. /\ b \in Seq(Int) /\ Len(b) = lb
       /\ \A i \in 1 .. lb : two /\ b[i] = p1 - moov + i - 1
  <2>1. CASE two
    <3>1. Fetch(size, p1 - moov, p2 - 1 - moov) = [i \in 1 .. lb |-> p1 - moov + i - 1]
      <4>1. p1 - moov \in Int /\ p2 - 1 - moov \in Int /\ size \in Int
        BY <1>1, <1>6, <1>7
      <4>2. p2 - 1 - moov <= size - 1 /\ (p2 - 1 - moov) - (p1 - moov) + 1 = lb
        BY <1>1, <1>2, <1>6, <1>7, <1>l, <2>1
      <4>3. \E m \in Nat : /\ m = IF lb <= 0 THEN 0 ELSE lb
                           /\ Fetch(size, p1 - moov, p2 - 1 - moov) = [i \in 1 .. m |-> p1 - moov + i - 1]
        BY <4>1, <4>2, FetchHolds
      <4> QED
        BY <1>8, <4>3
    <3>2. \A i \in 1 .. lb : p1 - moov + i - 1 \in Int
      BY <1>1, <1>6
    <3>3. [i \in 1 .. lb |-> p1 - moov + i - 1] \in Seq(Int)
      BY <1>8, <3>2, IsASeq
    <3>4. Len([i \in 1 .. lb |-> p1 - moov + i - 1]) = lb
      BY <1>8, <3>3, LenProperties
    <3> QED
      BY <1>a, <2>1, <3>1, <3>3, <3>4
  <2>2. CASE ~two
    <3>1. lb = 0 /\ b = <<>>
      BY <1>6, <1>7, <1>a, <1>l, <2>2
    <3> QED
      BY <1>e, <3>1
  <2> QED
    BY <2>1, <2>2
<1>11. /\ c \in Seq(Int) /\ Len(c) = lc
       /\ \A i \in 1 .. lc : p2 <= last /\ c[i] = p2 + i - 1
  <2>1. CASE p2 <= last
    <3>1. Fetch(size, p2, last) = [i \in 1 .. lc |-> p2 + i - 1]
      <4>1. \E m \in Nat : /\ m = lc
                           /\ Fetch(size, p2, last) = [i \in 1 .. m |-> p2 + i - 1]
        <5>1. size \in Int /\ p2 \in Int
          BY <1>1, <1>7
        <5>2. (IF last <= size - 1 THEN last - p2 + 1 ELSE size - p2) = end - p2 + 1
          BY <1>l, <5>1
        <5>3. (IF end - p2 + 1 <= 0 THEN 0 ELSE end - p2 + 1) = lc
          BY <1>8, <1>l, <5>1
        <5>4. last \in Int
          OBVIOUS
        <5> DEFINE n == IF last <= size - 1 THEN last - p2 + 1 ELSE size - p2
        <5>5. n = end - p2 + 1
          BY <5>2
        <5>6. Fetch(size, p2, last) = [i \in 1 .. (IF n <= 0 THEN 0 ELSE n) |-> p2 + i - 1]
          BY <5>1, <5>4, FetchHolds
        <5> HIDE DEF n
        <5>7. (IF n <= 0 THEN 0 ELSE n) = lc
          BY <5>3, <5>5
        <5> QED
          BY <1>8, <5>6, <5>7
      <4> QED
        BY <4>1
    <3>2. \A i \in 1 .. lc : p2 + i - 1 \in Int
      BY <1>7
    <3>3. [i \in 1 .. lc |-> p2 + i - 1] \in Seq(Int)
      BY <1>8, <3>2, IsASeq
    <3>4. Len([i \in 1 .. lc |-> p2 + i - 1]) = lc
      BY <1>8, <3>3, LenProperties
    <3> QED
      BY <1>a, <2>1, <3>1, <3>3, <3>4
  <2>2. CASE ~(p2 <= last)
    <3>1. lc = 0 /\ c = <<>>
      BY <1>1, <1>7, <1>a, <1>l, <2>2
    <3> QED
      BY <1>e, <3>1
  <2> QED
    BY <2>1, <2>2
<1>12. /\ Len(a \o b) = la + lb /\ a \o b \in Seq(Int)
       /\ \A i \in 1 .. (la + lb) : (a \o b)[i] = IF i <= la THEN a[i] ELSE b[i - la]
  <2>1. a \in Seq(Int) /\ b \in Seq(Int)
    BY <1>9, <1>10
  <2>2. /\ Len(a \o b) = Len(a) + Len(b) /\ a \o b \in Seq(Int)
        /\ \A i \in 1 .. Len(a) + Len(b) : (a \o b)[i] = IF i <= Len(a) THEN a[i] ELSE b[i - Len(a)]
    BY <2>1, ConcatProperties
  <2>3. Len(a) = la /\ Len(b) = lb
    BY <1>9, <1>10
  <2> QED
    BY <2>2, <2>3
<1> DEFINE ab == a \o b
<1>13. /\ Len(ab \o c) = la + lb + lc /\ DOMAIN (ab \o c) = 1 .. (la + lb + lc)
       /\ \A i \in 1 .. (la + lb + lc) : (ab \o c)[i] = IF i <= la + lb THEN ab[i] ELSE c[i - (la + lb)]
  <2>1. ab \in Seq(Int) /\ Len(ab) = la + lb
    BY <1>12
  <2> HIDE DEF ab
  <2>2. ab \o c \in Seq(Int) /\ Len(ab \o c) = Len(ab) + Len(c)
        /\ \A i \in 1 .. Len(ab) + Len(c) : (ab \o c)[i] = IF i <= Len(ab) THEN ab[i] ELSE c[i - Len(ab)]
    BY <1>11, <2>1, ConcatProperties
  <2> QED
    BY <1>8, <1>11, <2>1, <2>2, LenProperties
<1> HIDE DEF ab
<1>14. ASSUME NEW i \in 1 .. (la + lb + lc), NEW p, p = first + i - 1
       PROVE  /\ p \in 0 .. (size - 1)
              /\ (ab \o c)[i] = IF p < hdr THEN header[p + 1] ELSE IF p < mdat2 THEN p - moov ELSE p
  <2>0. p \in Nat /\ p + 1 = first + i /\ i \in Nat /\ i > 0
    BY <1>8, <1>14
  <2>1. CASE i <= la
    <3>1. i \in 1 .. la /\ (ab \o c)[i] = a[i]
      BY <1>8, <1>12, <1>13, <2>1 DEF ab
    <3>2. first < hdr /\ a[i] = header[first + i]
      BY <1>9, <3>1
    <3>3. p1 <= hdr /\ p < p1
      BY <1>1, <1>6, <1>l, <2>0, <2>1, <3>2
    <3>4. p < hdr /\ p < size
      BY <1>1, <1>2, <1>6, <2>0, <3>3
    <3>5. (ab \o c)[i] = header[p + 1]
      BY <2>0, <3>1, <3>2
    <3> QED
      BY <1>1, <2>0, <3>4, <3>5
  <2>2. CASE la < i /\ i <= la + lb
    <3>1. i - la \in 1 .. lb /\ i \in 1 .. (la + lb)
      BY <1>8, <2>2
    <3>2. (ab \o c)[i] = b[i - la]
      BY <1>8, <1>12, <1>13, <2>2, <3>1 DEF ab
    <3>3. two /\ b[i - la] = p1 - moov + (i - la) - 1
      BY <1>10, <3>1
    <3>4. p1 >= hdr /\ p2 <= mdat2
      BY <1>6, <1>7, <1>t, <3>3
    <3>5. ~(p < hdr) /\ p < mdat2 /\ p < size /\ p1 - moov + (i - la) - 1 = p - moov
      BY <1>1, <1>2, <1>6, <1>7, <1>8, <1>l, <2>0, <2>2, <3>4
    <3>6. (ab \o c)[i] = p - moov
      BY <3>2, <3>3, <3>5
    <3> QED
      BY <1>1, <2>0, <3>5, <3>6
  <2>3. CASE la + lb < i
    <3>1. i - (la + lb) \in 1 .. lc
      BY <1>8, <2>3
    <3>2. (ab \o c)[i] = c[i - (la + lb)]
      BY <1>8, <1>13, <2>3
    <3>3. p2 <= last /\ c[i - (la + lb)] = p2 + (i - (la + lb)) - 1 /\ lc # 0
      BY <1>8, <1>11, <3>1
    <3>4. p2 >= mdat2 /\ lc = end - p2 + 1
      BY <1>7, <1>l, <3>3
    <3>5. p >= mdat2 /\ p <= end /\ p2 + (i - (la + lb)) - 1 = p
      BY <1>1, <1>6, <1>7, <1>8, <1>l, <2>0, <2>3, <3>1, <3>4
    <3>6. ~(p < hdr) /\ ~(p < mdat2) /\ p < size
      BY <1>1, <1>2, <1>8, <1>l, <2>0, <3>5
    <3>7. (ab \o c)[i] = p
      BY <3>2, <3>3, <3>5
    <3> QED
      BY <1>1, <2>0, <3>6, <3>7
  <2>4. i <= la \/ (la < i /\ i <= la + lb) \/ la + lb < i
    BY <1>8
  <2> QED
    BY <2>1, <2>2, <2>3, <2>4
<1> DEFINE data == ServeBytes(info, info.size, first, last)
<1>15. data = ab \o c
  BY <1>s DEF ab, size
<1>16. DOMAIN data = 1 .. (la + lb + lc)
  BY <1>13, <1>15
<1>17. \A p : ByteAt(info, p) = IF p < hdr THEN header[p + 1]
                                 ELSE IF p < mdat2 THEN p - moov ELSE p
  BY Zenon DEF ByteAt, header, moov, hdr, mdat2
<1> HIDE DEF data
<1>18. ASSUME NEW i \in DOMAIN data
       PROVE  first + i - 1 \in 0 .. (info.size - 1) /\ data[i] = ByteAt(info, first + i - 1)
  <2> DEFINE p == first + i - 1
  <2>1. p = first + i - 1
    OBVIOUS
  <2> HIDE DEF p
  <2>2. /\ p \in 0 .. (size - 1)
        /\ (ab \o c)[i] = IF p < hdr THEN header[p + 1] ELSE IF p < mdat2 THEN p - moov ELSE p
    BY <1>14, <1>16, <1>18, <2>1
  <2>3. data[i] = ByteAt(info, p)
    BY Zenon, <1>15, <1>17, <2>2
  <2> QED
    BY <2>1, <2>2, <2>3 DEF size
<1> QED
  BY <1>18 DEF data

(* The image a title's readers see: the file as it is, or its layout once  *)
(* the header is cached.                                                   *)
Image(t) == [i \in 0 .. (Size(t) - 1) |->
                <<rel[t], IF fsh[t] = 0 THEN i ELSE Virtual(File(t))[i + 1]>>]
InImage(image, pos, data) == \A i \in DOMAIN data : /\ pos + i - 1 \in DOMAIN image
                                                    /\ data[i] = image[pos + i - 1]
PartOf(pairs, image) == \A pair \in pairs : /\ pair[1] \in DOMAIN image
                                            /\ image[pair[1]] = pair[2]

(* What Calm says of a descriptor.                                         *)
Undisturbed(t) == \/ past.events[t] = {}
                  \/ past.events[t] = {"expire"} /\ fsh[t] = 0

(* A cached layout is of the release that is current unless it was built   *)
(* meanwhile or there was an upgrade; a call's title is that of its        *)
(* descriptor, and what it has in hand, like what each reader has          *)
(* received, is of the image; a descriptor that is being put over another  *)
(* has received nothing.                                                   *)
TitleRight(t) == /\ past.events[t] \cap {"upgrade", "build"} = {} => fsh[t] \in {0, rel[t]}
                 /\ url[t] = "stale" => "expire" \in past.events[t]
HandRight(s) ==
    \A t \in Titles : th[s].title = t =>
        /\ th[s].pc \in Served /\ th[s].fd \notin past.over => kern[th[s].fd] = t
        /\ th[s].pc = "retry" /\ Undisturbed(t) => fsh[t] = 0
        /\ th[s].pc = "advance" /\ Undisturbed(t) => InImage(Image(t), th[s].pos, th[s].data)
ReadRight(d) ==
    \A t \in Titles : kern[d] = t /\ d \notin past.over /\ Undisturbed(t) => PartOf(got[d], Image(t))
StreamRight(c) ==
    \A t \in Titles : hc[c].title = t /\ past.events[t] = {} =>
        /\ PartOf(got[c], Image(t))
        /\ hc[c].pc = "warm" => hc[c].info = fsh[t] /\ fsh[t] # 0
        /\ hc[c].pc \in {"head", "cold"} => fsh[t] = 0
ImageInv == /\ \A t \in Titles : TitleRight(t)
            /\ \A s \in Threads : HandRight(s)
            /\ \A s \in Threads : Copying(s) => got[th[s].fd] = {}
            /\ \A d \in Fds : ReadRight(d)
            /\ \A c \in Clients : StreamRight(c)

LEMMA LayoutTyped ==
    ASSUME BridgeType, NEW t \in Titles
    PROVE  /\ rel[t] \in Nat \ {0} /\ rel[t] \in Releases(t)
           /\ InfoOf[t][rel[t]] \in LayoutState
           /\ Size(t) = InfoOf[t][rel[t]].size /\ Size(t) \in Nat
           /\ File(t) = Media[t][rel[t]]
<1>1. rel[t] \in Releases(t)
  BY DEF BridgeType, ServerType
<1>2. rel[t] \in Nat \ {0}
  BY <1>1, SporeConstants
<1>3. InfoOf[t][rel[t]] \in LayoutState
  BY <1>1, LayoutsTyped DEF LayoutState
<1> QED
  BY <1>1, <1>2, <1>3 DEF Size, File, LayoutState

(* A piece of the file as it is.                                           *)
LEMMA RawInImage ==
    ASSUME BridgeType, NEW t \in Titles, NEW pos \in Nat, NEW n \in Nat,
           \/ fsh[t] = 0
           \/ LayoutsRight /\ AlreadyFast(InfoOf[t][rel[t]])
    PROVE  InImage(Image(t), pos, RawBytes(t, pos, n))
<1> DEFINE size == Size(t)
           last == pos + n - 1
           k    == IF last <= size - 1 THEN last - pos + 1 ELSE size - pos
           m    == IF k <= 0 THEN 0 ELSE k
<1>1. size \in Int /\ pos \in Int /\ last \in Int
  BY LayoutTyped
<1>2. Fetch(size, pos, last) = [i \in 1 .. m |-> pos + i - 1] /\ m \in Nat
  BY <1>1, FetchHolds
<1>3. RawBytes(t, pos, n) = [i \in 1 .. m |-> <<rel[t], pos + i - 1>>]
  <2> HIDE DEF m, k
  <2> QED
    BY <1>2 DEF RawBytes
<1>4. \A i \in 1 .. m : pos + i - 1 \in 0 .. (size - 1)
  BY <1>1
<1> HIDE DEF m, size
<1>5. \A j \in 0 .. (size - 1) : Image(t)[j] = <<rel[t], j>>
  <2>1. CASE fsh[t] = 0
    BY <2>1 DEF Image, size
  <2>2. CASE LayoutsRight /\ AlreadyFast(InfoOf[t][rel[t]])
    <3>1. \A j \in 0 .. (size - 1) : Virtual(File(t))[j + 1] = j
      BY <2>2, LayoutTyped DEF LayoutsRight, LaidOut, size
    <3> QED
      BY <3>1 DEF Image, size
  <2> QED
    BY <2>1, <2>2
<1>6. DOMAIN Image(t) = 0 .. (size - 1)
  BY DEF Image, size
<1> QED
  BY <1>3, <1>4, <1>5, <1>6 DEF InImage

(* A piece of the layout, over whatever borders it lies.                   *)
LEMMA FastInImage ==
    ASSUME LayoutsRight, BridgeType, NEW t \in Titles, NEW pos \in Nat, NEW n \in Nat,
           fsh[t] = rel[t]
    PROVE  InImage(Image(t), pos, FastBytes(t, fsh[t], pos, n))
<1>1. PICK info \in LayoutState : info = InfoOf[t][rel[t]]
  BY LayoutTyped
<1>2. Size(t) = info.size /\ Len(info.header) <= info.at + info.moov /\ info.at + info.moov <= info.size
  BY <1>1, LayoutTyped DEF LayoutsRight, LaidOut
<1> DEFINE last == pos + n - 1
           data == ServeBytes(info, info.size, pos, last)
<1>3. last \in Int /\ pos <= last + 1
  OBVIOUS
<1>4. \A i \in DOMAIN data : /\ pos + i - 1 \in 0 .. (info.size - 1)
                             /\ data[i] = ByteAt(info, pos + i - 1)
  <2> HIDE DEF last
  <2> QED
    BY <1>2, <1>3, RangeInOrder
<1>l. Layout(t, rel[t]) = info
  BY <1>1, LayoutTyped DEF Layout, Blank
<1>5. FastBytes(t, fsh[t], pos, n) = [i \in DOMAIN data |-> <<rel[t], data[i]>>]
  <2>1. FastBytes(t, rel[t], pos, n)
          = [i \in DOMAIN data |-> <<IF pos + i - 1 < Len(info.header) THEN rel[t] ELSE rel[t], data[i]>>]
    BY <1>2, <1>l DEF FastBytes
  <2> HIDE DEF data
  <2>2. \A i \in DOMAIN data : (IF pos + i - 1 < Len(info.header) THEN rel[t] ELSE rel[t]) = rel[t]
    OBVIOUS
  <2> QED
    BY <2>1, <2>2
<1> HIDE DEF data
<1>6. \A j \in 0 .. (info.size - 1) : Virtual(File(t))[j + 1] = ByteAt(info, j)
  BY <1>1, LayoutTyped DEF LayoutsRight, LaidOut, ByteAt
<1>7. fsh[t] # 0
  BY LayoutTyped
<1>8. /\ DOMAIN Image(t) = 0 .. (info.size - 1)
      /\ \A j \in 0 .. (info.size - 1) : Image(t)[j] = <<rel[t], ByteAt(info, j)>>
  BY <1>2, <1>6, <1>7 DEF Image
<1>9. ASSUME NEW i \in DOMAIN data
      PROVE  /\ pos + i - 1 \in 0 .. (info.size - 1)
             /\ <<rel[t], data[i]>> = Image(t)[pos + i - 1]
  BY <1>4, <1>8, <1>9
<1> QED
  BY <1>5, <1>8, <1>9 DEF InImage

LEMMA PairsInImage ==
    ASSUME NEW image, NEW pos, NEW data, InImage(image, pos, data)
    PROVE  PartOf(Pairs(pos, data), image)
BY DEF InImage, PartOf, Pairs

(***************************************************************************)
(* What happens to a title is written down                                 *)
(***************************************************************************)

Holds(t)  == rel'[t] = rel[t] /\ fsh'[t] = fsh[t]
Remembered == \A t \in Titles :
                 /\ past.events[t] \subseteq past'.events[t]
                 /\ Holds(t) \/ past'.events[t] \cap {"build", "upgrade"} # {}

LEMMA EventAdded ==
    ASSUME TableType, NEW t \in Titles, NEW e, Happened(t, e)
    PROVE  /\ \A u \in Titles : past.events[u] \subseteq past'.events[u]
           /\ e \in past'.events[t]
           /\ \A u \in Titles \ {t} : past'.events[u] = past.events[u]
<1>1. past.events \in [Titles -> SUBSET Marks]
  BY DEF TableType, History
<1>2. past'.events = [past.events EXCEPT ![t] = @ \cup {e}]
  BY DEF Happened, TableType, History
<1> QED
  BY <1>1, <1>2

LEMMA ImageHolds ==
    ASSUME NEW t, Holds(t)
    PROVE  Image(t)' = Image(t)
BY DEF Holds, Image, Size, File

LEMMA UndisturbedBefore ==
    ASSUME Remembered, NEW t \in Titles, Undisturbed(t)'
    PROVE  Undisturbed(t) /\ fsh'[t] = fsh[t] /\ Image(t)' = Image(t)
<1>1. past'.events[t] \in {{}, {"expire"}}
  BY DEF Undisturbed
<1>2. Holds(t)
  BY <1>1 DEF Remembered
<1>3. Undisturbed(t)
  BY <1>1, <1>2 DEF Remembered, Undisturbed, Holds
<1> QED
  BY <1>2, <1>3, ImageHolds DEF Holds

LEMMA HandStays ==
    ASSUME Remembered, NEW s \in Threads, th'[s] = th[s], HandRight(s),
           th[s].pc \in Served => /\ kern'[th[s].fd] = kern[th[s].fd]
                                  /\ th[s].fd \in past.over => th[s].fd \in past'.over
    PROVE  HandRight(s)'
<1> SUFFICES ASSUME NEW t \in Titles, th[s].title = t
             PROVE  /\ th[s].pc \in Served /\ th[s].fd \notin past'.over => kern'[th[s].fd] = t
                    /\ th[s].pc = "retry" /\ Undisturbed(t)' => fsh'[t] = 0
                    /\ th[s].pc = "advance" /\ Undisturbed(t)' => InImage(Image(t)', th[s].pos, th[s].data)
  BY DEF HandRight
<1>1. Undisturbed(t)' => Undisturbed(t) /\ fsh'[t] = fsh[t] /\ Image(t)' = Image(t)
  BY UndisturbedBefore
<1> QED
  BY <1>1 DEF HandRight

LEMMA ReadStays ==
    ASSUME Remembered, NEW d \in Fds, got'[d] = got[d], ReadRight(d),
           kern'[d] = kern[d] \/ kern'[d] \notin Titles, d \in past.over => d \in past'.over
    PROVE  ReadRight(d)'
<1> SUFFICES ASSUME NEW t \in Titles, kern'[d] = t, d \notin past'.over, Undisturbed(t)'
             PROVE  PartOf(got[d], Image(t)')
  BY DEF ReadRight
<1>1. Undisturbed(t) /\ Image(t)' = Image(t)
  BY UndisturbedBefore
<1> QED
  BY <1>1 DEF ReadRight

LEMMA StreamStays ==
    ASSUME Remembered, NEW c \in Clients, got'[c] = got[c], StreamRight(c),
           hc'[c] = hc[c] \/ hc'[c] = [hc[c] EXCEPT !.pc = "idle"], hc[c] \in ClientState
    PROVE  StreamRight(c)'
<1>1. /\ hc'[c].title = hc[c].title
      /\ hc'[c].pc # "idle" => hc'[c] = hc[c]
  BY DEF ClientState
<1> SUFFICES ASSUME NEW t \in Titles, hc[c].title = t, past'.events[t] = {}
             PROVE  /\ PartOf(got[c], Image(t)')
                    /\ hc'[c].pc = "warm" => hc'[c].info = fsh'[t] /\ fsh'[t] # 0
                    /\ hc'[c].pc \in {"head", "cold"} => fsh'[t] = 0
  BY <1>1 DEF StreamRight
<1>2. past.events[t] = {}
  BY DEF Remembered
<1>3. fsh'[t] = fsh[t] /\ Image(t)' = Image(t)
  BY UndisturbedBefore DEF Undisturbed
<1> QED
  BY <1>1, <1>2, <1>3 DEF StreamRight

LEMMA ImageStarts == BridgeType /\ Init => ImageInv
<1> SUFFICES ASSUME BridgeType, Init
             PROVE  ImageInv
  OBVIOUS
<1>1. \A t \in Titles : TitleRight(t)
  BY DEF Init, TitleRight
<1>2. \A s \in Threads : HandRight(s)
  BY DEF Init, Idle, HandRight, Served
<1>3. \A x \in Readers : got[x] = {}
  BY DEF Init
<1>4. /\ \A d \in Fds : ReadRight(d)
      /\ \A s \in Threads : ~Copying(s)
  BY <1>3 DEF Init, Idle, Copying, ReadRight, PartOf, Readers
<1>5. \A c \in Clients : StreamRight(c)
  BY <1>3 DEF Init, IdleClient, StreamRight, PartOf, Readers
<1> QED
  BY <1>1, <1>2, <1>4, <1>5 DEF ImageInv

(* What the library holds while the server is at work.                     *)
LEMMA QuietImages ==
    ASSUME TableType, Quiet, Remembered, ImageInv
    PROVE  /\ \A s \in Threads : HandRight(s)'
           /\ \A s \in Threads : Copying(s)' => got'[th'[s].fd] = {}
           /\ \A d \in Fds : ReadRight(d)'
<1>1. UNCHANGED <<kern, th>> /\ past'.over = past.over /\ \A d \in Fds : got'[d] = got[d]
  BY DEF Quiet
<1>2. \A s \in Threads : HandRight(s)'
  <2> SUFFICES ASSUME NEW s \in Threads
               PROVE  HandRight(s)'
    OBVIOUS
  <2>1. HandRight(s) /\ th'[s] = th[s]
    BY <1>1 DEF ImageInv
  <2> QED
    BY <1>1, <2>1, HandStays
<1>3. ASSUME NEW d \in Fds
      PROVE  ReadRight(d)'
  <2>1. ReadRight(d)
    BY DEF ImageInv
  <2> QED
    BY <1>1, <2>1, ReadStays
<1>4. ASSUME NEW s \in Threads, Copying(s)'
      PROVE  got'[th'[s].fd] = {}
  <2>1. Copying(s) /\ th'[s].fd = th[s].fd /\ th[s].fd \in Fds
    BY <1>1, <1>4 DEF Copying, TableType, ThreadState
  <2> QED
    BY <1>1, <2>1 DEF ImageInv
<1> QED
  BY <1>2, <1>3, <1>4

LEMMA OutsideImages ==
    ASSUME BridgeType, ImageInv, NEW t \in setup.titles, Outside(t) \/ Build(t)
    PROVE  ImageInv'
<1>0. /\ t \in Titles /\ TableType /\ ServerType /\ Quiet
      /\ \A u \in Titles : TitleRight(u) /\ past.events[u] \in SUBSET Marks
      /\ DOMAIN fsh = Titles /\ DOMAIN rel = Titles /\ url \in [Titles -> {"none", "fresh", "stale"}]
  BY SetupTyped, OutsideTypes DEF BridgeType, TableType, History, ServerType, ImageInv
<1>1. Remembered /\ \A u \in Titles : TitleRight(u)'
  <2>1. CASE Expire(t)
    <3>1. Happened(t, "expire") /\ UNCHANGED <<rel, fsh>> /\ url' = [url EXCEPT ![t] = "stale"]
      BY <2>1 DEF Expire
    <3>2. /\ \A u \in Titles : past.events[u] \subseteq past'.events[u]
          /\ "expire" \in past'.events[t]
      BY <1>0, <3>1, EventAdded
    <3>3. Remembered
      BY <3>1, <3>2 DEF Remembered, Holds
    <3> QED
      BY <1>0, <3>1, <3>2, <3>3 DEF TitleRight
  <2>2. CASE Preload(t)
    <3>1. UNCHANGED <<rel, fsh, past>> /\ url' = [url EXCEPT ![t] = "fresh"]
      BY <2>2 DEF Preload
    <3>2. Remembered
      BY <3>1 DEF Remembered, Holds
    <3> QED
      BY <1>0, <3>1, <3>2 DEF TitleRight
  <2>3. CASE Upgrade(t)
    <3>1. /\ Happened(t, "upgrade") /\ UNCHANGED fsh /\ url' = [url EXCEPT ![t] = "none"]
          /\ rel' = [rel EXCEPT ![t] = @ + 1]
      BY <2>3 DEF Upgrade
    <3>2. /\ \A u \in Titles : past.events[u] \subseteq past'.events[u]
          /\ "upgrade" \in past'.events[t]
      BY <1>0, <3>1, EventAdded
    <3>3. Remembered
      BY <1>0, <3>1, <3>2 DEF Remembered, Holds
    <3> QED
      BY <1>0, <3>1, <3>2, <3>3 DEF TitleRight
  <2>4. CASE Build(t) /\ UNCHANGED <<fsh, past>>
    <3>1. UNCHANGED <<rel, fsh, past, url>>
      BY <2>4 DEF Build
    <3>2. Remembered
      BY <3>1 DEF Remembered, Holds
    <3> QED
      BY <1>0, <3>1, <3>2 DEF TitleRight
  <2>5. CASE Build(t) /\ ~UNCHANGED <<fsh, past>>
    <3>1. /\ Happened(t, "build") /\ UNCHANGED <<rel, url>>
          /\ \E h : fsh' = [fsh EXCEPT ![t] = h]
      BY <2>5 DEF Build
    <3>2. /\ \A u \in Titles : past.events[u] \subseteq past'.events[u]
          /\ "build" \in past'.events[t]
      BY <1>0, <3>1, EventAdded
    <3>3. Remembered
      BY <1>0, <3>1, <3>2 DEF Remembered, Holds
    <3> QED
      BY <1>0, <3>1, <3>2, <3>3 DEF TitleRight
  <2> QED
    BY <2>1, <2>2, <2>3, <2>4, <2>5 DEF Outside
<1>2. UNCHANGED <<hc, got>>
  BY DEF Outside, Expire, Preload, Upgrade, Build
<1>3. \A c \in Clients : StreamRight(c)'
  <2> SUFFICES ASSUME NEW c \in Clients
               PROVE  StreamRight(c)'
    OBVIOUS
  <2>1. StreamRight(c) /\ hc[c] \in ClientState
    BY <1>0 DEF ImageInv, ServerType
  <2> QED
    BY <1>1, <1>2, <2>1, StreamStays
<1> QED
  BY <1>0, <1>1, <1>3, QuietImages DEF ImageInv

(* A server that is started anew knows no URL, and no client is served.    *)
LEMMA RestartImages ==
    ASSUME BridgeType, ImageInv, Quiet, UNCHANGED <<rel, fsh, got, past>>,
           \A t \in Titles : url'[t] = "stale" => url[t] = "stale",
           \A c \in Clients : hc'[c] = hc[c] \/ hc'[c] = [hc[c] EXCEPT !.pc = "idle"]
    PROVE  ImageInv'
<1>1. Remembered
  BY DEF Remembered, Holds
<1>2. \A t \in Titles : TitleRight(t)'
  BY DEF ImageInv, TitleRight
<1>3. \A c \in Clients : StreamRight(c)'
  <2> SUFFICES ASSUME NEW c \in Clients
               PROVE  StreamRight(c)'
    OBVIOUS
  <2>1. StreamRight(c) /\ hc[c] \in ClientState
    BY DEF ImageInv, BridgeType, ServerType
  <2> QED
    BY <1>1, <2>1, StreamStays
<1> QED
  BY <1>1, <1>2, <1>3, QuietImages DEF ImageInv, BridgeType

(* What a transcoder receives: nothing, or a piece of what its request     *)
(* found cached.                                                           *)
LEMMA StreamImages ==
    ASSUME LayoutsRight, BridgeType, ImageInv, NEW c \in Clients,
           \/ ClientStep(c)
           \/ \E t \in setup.titles, pos \in setup.asked : StreamStart(c, t, pos)
    PROVE  ImageInv'
<1>0. /\ TableType /\ ServerType /\ Quiet /\ hc[c] \in ClientState
      /\ \A u \in Titles : TitleRight(u)
      /\ c \in DOMAIN got /\ c \in DOMAIN hc
  BY StreamTypes DEF BridgeType, TableType, ServerType, ImageInv, Readers
<1>1. UNCHANGED <<rel, fsh, past>>
  BY DEF ClientStep, StreamHead, StreamCold, StreamWarm, StreamStart
<1>2. Remembered
  BY <1>1 DEF Remembered, Holds
<1>3. \A u \in Titles : TitleRight(u)'
  <2>1. \A u \in Titles : url'[u] = "stale" => url[u] = "stale"
    <3>1. CASE ClientStep(c)
      BY <3>1 DEF ClientStep, StreamHead, StreamCold, StreamWarm
    <3>2. ASSUME NEW t \in setup.titles, NEW pos \in setup.asked, StreamStart(c, t, pos)
          PROVE  \A u \in Titles : url'[u] = "stale" => url[u] = "stale"
      <4>1. url' = [url EXCEPT ![t] = Resolved(t)] /\ (Resolved(t) = "stale" => url[t] = "stale")
        BY <3>2 DEF StreamStart, Resolved
      <4> QED
        BY <1>0, <4>1 DEF ServerType
    <3> QED
      BY <3>1, <3>2
  <2> QED
    BY <1>0, <1>1, <2>1 DEF TitleRight
<1>4. /\ \A x \in Clients \ {c} : hc'[x] = hc[x] /\ got'[x] = got[x]
  <2>1. \A b : hc' = [hc EXCEPT ![c] = b] => \A x \in Clients \ {c} : hc'[x] = hc[x]
    BY <1>0 DEF ServerType
  <2>2. \A b : got' = [got EXCEPT ![c] = b] => \A x \in Clients \ {c} : got'[x] = got[x]
    BY <1>0 DEF TableType, Readers
  <2>3. \E b : hc' = [hc EXCEPT ![c] = b]
    BY DEF ClientStep, StreamHead, StreamCold, StreamWarm, StreamStart, StreamEnds
  <2>4. UNCHANGED got \/ \E b : got' = [got EXCEPT ![c] = b]
    BY DEF ClientStep, StreamHead, StreamCold, StreamWarm, StreamStart, Streamed
  <2> QED
    BY <2>1, <2>2, <2>3, <2>4
<1>5. \A x \in Clients \ {c} : StreamRight(x)'
  <2> SUFFICES ASSUME NEW x \in Clients \ {c}
               PROVE  StreamRight(x)'
    OBVIOUS
  <2>1. StreamRight(x) /\ hc[x] \in ClientState
    BY <1>0 DEF ImageInv, ServerType
  <2> QED
    BY <1>2, <1>4, <2>1, StreamStays
<1>6. \A u \in Titles : Image(u)' = Image(u)
  BY <1>1, ImageHolds DEF Holds
<1>7. StreamRight(c)
  BY DEF ImageInv
<1>8. PICK t \in Titles, pos \in Nat : hc[c].title = t /\ hc[c].pos = pos
  BY <1>0 DEF ClientState
<1>9. Max(Counts) \in Nat
  BY SporeConstants
<1>10. ASSUME NEW u \in Titles, hc'[c].title = u,
              past.events[u] = {} => /\ PartOf(got'[c], Image(u))
                                     /\ hc'[c].pc = "warm" => hc'[c].info = fsh[u] /\ fsh[u] # 0
                                     /\ hc'[c].pc \in {"head", "cold"} => fsh[u] = 0
       PROVE  StreamRight(c)'
  BY <1>1, <1>6, <1>10 DEF StreamRight
<1>11. StreamEnds(c) => hc'[c].title = t /\ hc'[c].pc = "idle"
  BY <1>0, <1>8 DEF StreamEnds, ClientState
<1>12. past.events[t] = {} => PartOf(got[c], Image(t))
  BY <1>7, <1>8 DEF StreamRight
<1>13. ASSUME NEW data, StreamEnds(c),
              got' = [got EXCEPT ![c] = @ \cup Pairs(pos, IF url[t] = "stale" THEN <<Error>> ELSE data)],
              past.events[t] = {} => InImage(Image(t), pos, data)
       PROVE  StreamRight(c)'
  <2>1. past.events[t] = {} => PartOf(got'[c], Image(t))
    <3> SUFFICES ASSUME past.events[t] = {}
                 PROVE  PartOf(got'[c], Image(t))
      OBVIOUS
    <3>1. url[t] # "stale"
      BY <1>0 DEF TitleRight
    <3>2. got'[c] = got[c] \cup Pairs(pos, data)
      BY <1>0, <1>13, <3>1
    <3>3. PartOf(Pairs(pos, data), Image(t))
      BY <1>13, PairsInImage
    <3> QED
      BY <1>12, <3>2, <3>3 DEF PartOf
  <2> QED
    BY <1>10, <1>11, <1>13, <2>1
<1>14. ASSUME StreamHead(c)
       PROVE  StreamRight(c)'
  <2>1. /\ UNCHANGED got /\ hc[c].pc = "head"
        /\ hc' = [hc EXCEPT ![c].pc = "cold"] \/ hc' = [hc EXCEPT ![c].pc = "idle"]
    BY <1>14 DEF StreamHead, StreamEnds
  <2>2. hc'[c].title = t /\ hc'[c].pc \in {"cold", "idle"}
    BY <1>0, <1>8, <2>1 DEF ClientState
  <2>3. past.events[t] = {} => fsh[t] = 0
    BY <1>7, <1>8, <2>1 DEF StreamRight
  <2> QED
    BY <1>10, <1>12, <2>1, <2>2, <2>3
<1>15. ASSUME StreamCold(c)
       PROVE  StreamRight(c)'
  <2> DEFINE data == RawBytes(t, pos, Max(Counts))
  <2>1. /\ hc[c].pc = "cold" /\ StreamEnds(c)
        /\ \/ UNCHANGED got
           \/ got' = [got EXCEPT ![c] = @ \cup Pairs(pos, IF url[t] = "stale" THEN <<Error>> ELSE data)]
    BY <1>8, <1>15 DEF StreamCold, Streamed
  <2>2. past.events[t] = {} => InImage(Image(t), pos, data)
    <3> SUFFICES ASSUME past.events[t] = {}
                 PROVE  InImage(Image(t), pos, data)
      OBVIOUS
    <3>1. fsh[t] = 0
      BY <1>7, <1>8, <2>1 DEF StreamRight
    <3> QED
      BY <1>9, <3>1, RawInImage
  <2> HIDE DEF data
  <2>3. CASE UNCHANGED got
    BY <1>10, <1>11, <1>12, <2>1, <2>3
  <2> QED
    BY <1>13, <2>1, <2>2, <2>3
<1>16. ASSUME StreamWarm(c)
       PROVE  StreamRight(c)'
  <2> DEFINE h    == hc[c].info
             data == IF AlreadyFast(Layout(t, h)) THEN RawBytes(t, pos, Max(Counts))
                     ELSE FastBytes(t, h, pos, Max(Counts))
  <2>1. /\ hc[c].pc = "warm" /\ StreamEnds(c)
        /\ \/ UNCHANGED got
           \/ got' = [got EXCEPT ![c] = @ \cup Pairs(pos, IF url[t] = "stale" THEN <<Error>> ELSE data)]
    BY <1>8, <1>16 DEF StreamWarm, Streamed
  <2>2. past.events[t] = {} => InImage(Image(t), pos, data)
    <3> SUFFICES ASSUME past.events[t] = {}
                 PROVE  InImage(Image(t), pos, data)
      OBVIOUS
    <3>1. h = fsh[t] /\ fsh[t] = rel[t]
      BY <1>0, <1>7, <1>8, <2>1 DEF StreamRight, TitleRight
    <3>2. CASE AlreadyFast(Layout(t, h))
      <4>1. AlreadyFast(InfoOf[t][rel[t]])
        BY <3>1, <3>2, LayoutTyped DEF Layout, Blank
      <4> QED
        BY <1>9, <3>2, <4>1, RawInImage
    <3>3. CASE ~AlreadyFast(Layout(t, h))
      BY <1>9, <3>1, <3>3, FastInImage
    <3> QED
      BY <3>2, <3>3
  <2> HIDE DEF data
  <2>3. CASE UNCHANGED got
    BY <1>10, <1>11, <1>12, <2>1, <2>3
  <2> QED
    BY <1>13, <2>1, <2>2, <2>3
<1>17. ASSUME NEW u \in setup.titles, NEW p \in setup.asked, StreamStart(c, u, p)
       PROVE  StreamRight(c)'
  <2>1. /\ UNCHANGED got /\ (got[c] = {} \/ u = t) /\ u \in Titles
        /\ hc'[c].title = u /\ hc'[c].info = fsh[u]
        /\ hc'[c].pc = "warm" => fsh[u] # 0
        /\ hc'[c].pc \in {"head", "cold"} => fsh[u] = 0
    BY <1>0, <1>8, <1>17, SetupTyped DEF StreamStart, ServerType, TableType
  <2>2. past.events[u] = {} => PartOf(got[c], Image(u))
    BY <1>12, <2>1 DEF PartOf
  <2> QED
    BY <1>10, <2>1, <2>2
<1>18. StreamRight(c)'
  BY <1>14, <1>15, <1>16, <1>17 DEF ClientStep
<1> QED
  BY <1>0, <1>2, <1>3, <1>5, <1>18, QuietImages DEF ImageInv

(* The library's thread: the server's half is as it was, and what is open  *)
(* or received changes on one descriptor only.                             *)
LEMMA MediaFrame ==
    ASSUME BridgeType, ImageInv, UNCHANGED <<hc, rel, fsh>>,
           NEW t \in Threads, NEW d \in Fds,
           \A u \in Titles : past.events[u] \subseteq past'.events[u],
           \A u \in Titles : url'[u] = "stale" => url[u] = "stale",
           \A s \in Threads \ {t} : th'[s] = th[s],
           \A x \in Fds \ {d} : kern'[x] = kern[x] /\ (x \in past.over => x \in past'.over),
           \A s \in Threads \ {t} : th[s].pc \in Served /\ th[s].fd = d =>
                 kern'[d] = kern[d] /\ (d \in past.over => d \in past'.over),
           \A x \in Readers \ {d} : got'[x] = got[x],
           got'[d] \in {got[d], {}} \/ \A s \in Threads \ {t} : Copying(s) => th[s].fd # d,
           Copying(t)' => th'[t].fd = d /\ got'[d] = {},
           HandRight(t)', ReadRight(d)'
    PROVE  ImageInv'
<1>1. Remembered
  BY DEF Remembered, Holds
<1>2. \A u \in Titles : TitleRight(u)'
  BY DEF ImageInv, TitleRight
<1>3. ASSUME NEW s \in Threads
      PROVE  HandRight(s)'
  <2>1. HandRight(s) /\ th[s].fd \in Fds
    BY DEF ImageInv, BridgeType, TableType, ThreadState
  <2>2. CASE s # t
    BY <1>1, <2>1, <2>2, HandStays
  <2> QED
    BY <2>2
<1>4. ASSUME NEW x \in Fds
      PROVE  ReadRight(x)'
  <2>1. ReadRight(x) /\ x \in Readers
    BY DEF ImageInv, Readers
  <2>2. CASE x # d
    BY <1>1, <2>1, <2>2, ReadStays
  <2> QED
    BY <2>2
<1>6. ASSUME NEW s \in Threads, Copying(s)'
      PROVE  got'[th'[s].fd] = {}
  <2>1. CASE s = t
    BY <1>6, <2>1
  <2>2. CASE s # t
    <3>1. Copying(s) /\ th'[s] = th[s] /\ got[th[s].fd] = {} /\ th[s].fd \in Readers
      BY <1>6, <2>2 DEF Copying, ImageInv, BridgeType, TableType, ThreadState, Readers
    <3>2. CASE th[s].fd # d
      BY <3>1, <3>2
    <3>3. CASE th[s].fd = d
      BY <2>2, <3>1, <3>3
    <3> QED
      BY <3>2, <3>3
  <2> QED
    BY <2>1, <2>2
<1>5. ASSUME NEW c \in Clients
      PROVE  StreamRight(c)'
  <2>1. StreamRight(c) /\ hc[c] \in ClientState /\ c \in Readers \ {d}
    BY SporeConstants DEF ImageInv, BridgeType, ServerType, Readers
  <2> QED
    BY <1>1, <2>1, StreamStays
<1> QED
  BY <1>2, <1>3, <1>4, <1>5, <1>6 DEF ImageInv

(* A call that gives no bytes of a title.                                  *)
LEMMA NothingInHand ==
    ASSUME NEW t \in Threads, th'[t].pc \notin Served
    PROVE  HandRight(t)'
BY DEF HandRight, Served

LEMMA OpeningImages ==
    ASSUME BridgeType, TableInv, ImageInv, NEW t \in Threads,
           \/ \E f \in setup.titles \cup {Plain} : Open(t, f)
           \/ ReadMinfo(t) \/ Register(t) \/ NoToken(t) \/ Closing(t) \/ Seek(t)
           \/ \E d \in Fds : Close(t, d) \/ \E target \in Targets : Lseek(t, d, target)
    PROVE  ImageInv'
<1>0. /\ Idle.pc = "idle" /\ \A s \in Threads : th[s] \in ThreadState /\ th[s].fd \in Fds
      /\ th \in [Threads -> ThreadState] /\ DOMAIN got = Readers /\ setup \in Setups
      /\ kern \in [Fds -> Titles \cup {Plain, None}]
      /\ past \in History
  BY DEF Idle, BridgeType, TableType, ThreadState
<1>1. ASSUME NEW f \in setup.titles \cup {Plain}, Open(t, f)
      PROVE  ImageInv'
  <2>1. PICK d \in Fds : d = Min(FreeFds) /\ kern[d] = None
    BY <1>0, <1>1, OpenFds DEF Open, FreeFds
  <2>2. /\ UNCHANGED <<hc, rel, fsh, url>> /\ th[t].pc = "idle"
        /\ kern' = [kern EXCEPT ![d] = f] /\ got' = [got EXCEPT ![d] = {}]
        /\ past'.events = past.events /\ past'.over = past.over \ {d}
        /\ \/ th' = th
           \/ th' = [th EXCEPT ![t] = [Idle EXCEPT !.pc = "minfo", !.fd = d, !.title = f]]
    BY <1>0, <1>1, <2>1 DEF Open, serverVars, History
  <2>3. \A s \in Threads : th[s].pc \in Served => th[s].fd # d
    BY <2>1, FreeIsUnused DEF Uses, Served
  <2>4. th'[t].pc \notin Served /\ ~Copying(t)'
    BY <1>0, <2>2 DEF Served, Idle, Copying
  <2>5. ReadRight(d)'
    BY <1>0, <2>2 DEF ReadRight, PartOf, Readers
  <2>6. /\ past'.events = past.events
        /\ \A x \in Fds \ {d} : kern'[x] = kern[x] /\ (x \in past.over => x \in past'.over)
    BY <1>0, <2>2
  <2>7. \A s \in Threads \ {t} : th'[s] = th[s]
    BY <1>0, <2>2
  <2>8. (\A x \in Readers \ {d} : got'[x] = got[x]) /\ got'[d] = {}
    BY <1>0, <2>2 DEF Readers
  <2> QED
    BY <2>2, <2>3, <2>4, <2>5, <2>6, <2>7, <2>8, MediaFrame, NothingInHand
<1>2. ASSUME UNCHANGED <<hc, rel, fsh, url, got>>, NEW s, th' = [th EXCEPT ![t] = s],
             s.pc \notin Served \cup {"copy"},
             past'.events = past.events, past'.over = past.over,
             NEW d \in Fds, \A x \in Fds \ {d} : kern'[x] = kern[x],
             \A x \in Threads \ {t} : th[x].pc \in Served /\ th[x].fd = d => kern'[d] = kern[d],
             kern'[d] = kern[d] \/ kern'[d] \notin Titles
      PROVE  ImageInv'
  <2>1. th'[t] = s /\ \A x \in Threads \ {t} : th'[x] = th[x]
    BY <1>0, <1>2
  <2>2. Remembered
    BY <1>2 DEF Remembered, Holds
  <2>3. ReadRight(d)'
    <3>1. ReadRight(d)
      BY DEF ImageInv
    <3> QED
      BY <1>2, <2>2, <3>1, ReadStays
  <2>4. HandRight(t)' /\ ~Copying(t)'
    BY <1>2, <2>1, NothingInHand DEF Copying
  <2> QED
    BY <1>2, <2>1, <2>3, <2>4, MediaFrame
<1>3. CASE ReadMinfo(t)
  <2>1. /\ UNCHANGED <<hc, rel, fsh, url, got, past, kern>>
        /\ th' = [th EXCEPT ![t].pc = "register"]
    BY <1>3 DEF ReadMinfo, serverVars
  <2> DEFINE s == [th[t] EXCEPT !.pc = "register"]
  <2>2. s.pc \notin Served \cup {"copy"} /\ th' = [th EXCEPT ![t] = s]
    BY <1>0, <2>1 DEF Served, ThreadState
  <2> HIDE DEF s
  <2> QED
    BY <1>0, <1>2, <2>1, <2>2
<1>4. CASE Register(t) \/ Seek(t) \/ NoToken(t)
  <2>1. /\ UNCHANGED <<hc, rel, fsh, url, got, kern>>
        /\ th' = [th EXCEPT ![t] = Idle]
        /\ past'.events = past.events /\ past'.over = past.over
    BY <1>0, <1>4 DEF Register, Seek, NoToken, serverVars, History
  <2> QED
    BY <1>0, <1>2, <2>1 DEF Served
<1>5. CASE Closing(t)
  <2>1. PICK d \in Fds : th[t].fd = d
    BY <1>0
  <2>2. /\ UNCHANGED <<hc, rel, fsh, url, got, past>> /\ th[t].pc = "close"
        /\ th' = [th EXCEPT ![t] = Idle] /\ kern' = [kern EXCEPT ![d] = None]
    BY <1>5, <2>1 DEF Closing, serverVars
  <2>3. \A x \in Threads \ {t} : ~(th[x].pc \in Served /\ th[x].fd = d)
    BY <2>1, <2>2 DEF TableInv, CallRight, Opening, Owning, Alone, Uses, Served
  <2>4. kern'[d] \notin Titles /\ \A x \in Fds \ {d} : kern'[x] = kern[x]
    BY <1>0, <2>2, SporeConstants
  <2>5. Idle.pc \notin Served \cup {"copy"}
    BY <1>0 DEF Served
  <2> QED
    BY <1>2, <2>2, <2>3, <2>4, <2>5
<1>6. ASSUME NEW d \in Fds, Close(t, d)
      PROVE  ImageInv'
  <2> DEFINE s == [Idle EXCEPT !.pc = "close", !.fd = d]
  <2>1. /\ UNCHANGED <<hc, rel, fsh, url, got, past, kern>> /\ th' = [th EXCEPT ![t] = s]
    BY <1>6 DEF Close, serverVars
  <2>2. s.pc \notin Served \cup {"copy"}
    BY DEF Served, Idle
  <2> HIDE DEF s
  <2> QED
    BY <1>2, <2>1, <2>2
<1>7. ASSUME NEW d \in Fds, NEW target \in Targets, Lseek(t, d, target)
      PROVE  ImageInv'
  <2> DEFINE s == [Idle EXCEPT !.pc = "seek", !.fd = d, !.pos = target]
  <2>1. /\ UNCHANGED <<hc, rel, fsh, url, got, kern>> /\ th' = [th EXCEPT ![t] = s]
        /\ past'.events = past.events /\ past'.over = past.over
    BY <1>0, <1>7 DEF Lseek, serverVars, History
  <2>2. s.pc \notin Served \cup {"copy"}
    BY DEF Served, Idle
  <2> HIDE DEF s
  <2> QED
    BY <1>2, <2>1, <2>2
<1> QED
  BY <1>1, <1>3, <1>4, <1>5, <1>6, <1>7

LEMMA DuplicateImages ==
    ASSUME BridgeType, ImageInv, NEW t \in Threads, NEW old \in Fds, NEW new \in Fds,
           Duplicate(t, old, new), \A s \in Threads : new \notin Uses(s)
    PROVE  ImageInv'
<1>0. /\ DOMAIN got = Readers /\ kern \in [Fds -> Titles \cup {Plain, None}]
      /\ past \in History
      /\ new \in Readers /\ DOMAIN th = Threads
  BY DEF BridgeType, TableType, Readers
<1>1. /\ UNCHANGED <<hc, rel, fsh, url>>
      /\ \E s : s.pc = "copy" /\ s.fd = new /\ th' = [th EXCEPT ![t] = s]
      /\ kern' = [kern EXCEPT ![new] = kern[old]] /\ got' = [got EXCEPT ![new] = {}]
  <2> DEFINE s == [Idle EXCEPT !.pc = "copy", !.fd = new, !.from = old]
  <2>1. s.pc = "copy" /\ s.fd = new
    BY DEF Idle
  <2> QED
    BY <2>1 DEF Duplicate, serverVars
<1>2. past'.events = past.events /\ past'.over = past.over
  BY <1>0 DEF Duplicate, History
<1>3. \A s \in Threads : th[s].pc \in Served => th[s].fd # new
  BY DEF Uses, Served
<1>4. ReadRight(new)'
  BY <1>0, <1>1 DEF ReadRight, PartOf
<1>5. th'[t].fd = new /\ th'[t].pc = "copy" /\ \A s \in Threads \ {t} : th'[s] = th[s]
  BY <1>0, <1>1
<1>6. HandRight(t)'
  BY <1>5, NothingInHand DEF Served
<1>7. /\ \A x \in Fds \ {new} : kern'[x] = kern[x]
      /\ \A x \in Readers \ {new} : got'[x] = got[x]
      /\ got'[new] = {}
  BY <1>0, <1>1
<1> QED
  BY <1>1, <1>2, <1>3, <1>4, <1>5, <1>6, <1>7, MediaFrame

(* The duplicate has received nothing yet.                                 *)
LEMMA CopyImages ==
    ASSUME BridgeType, TableInv, ImageInv, NEW t \in Threads, Copy(t)
    PROVE  ImageInv'
<1>1. PICK new \in Fds : new = th[t].fd
  BY DEF BridgeType, TableType, ThreadState
<1>2. /\ Copying(t) /\ UNCHANGED <<kern, hc, rel, fsh, url, got>> /\ th' = [th EXCEPT ![t] = Idle]
      /\ past'.events = past.events
      /\ \A x \in Fds \ {new} : x \in past.over => x \in past'.over
  BY <1>1 DEF Copy, serverVars, BridgeType, TableType, History
<1>3. th'[t].pc = "idle" /\ \A s \in Threads \ {t} : th'[s] = th[s]
  BY <1>2 DEF BridgeType, TableType, Idle
<1>4. \A s \in Threads \ {t} : th[s].pc \in Served => th[s].fd # new
  BY <1>1, <1>2 DEF TableInv, CallRight, Copying, Owning, Alone, Uses, Served
<1>5. ReadRight(new)'
  BY <1>1, <1>2 DEF ImageInv, ReadRight, PartOf
<1>6. HandRight(t)' /\ ~Copying(t)'
  BY <1>3, NothingInHand DEF Served, Copying
<1> QED
  BY <1>2, <1>3, <1>4, <1>5, <1>6, MediaFrame

(* A call begins on the title its descriptor is open on; one that reads    *)
(* the file on disk receives none of the title's bytes over the network.   *)
LEMMA ReadImages ==
    ASSUME BridgeType, TableInv, ImageInv, NEW t \in Threads, NEW d \in Fds,
           NEW op \in {"read", "pread", "send"}, NEW offset, NEW n,
           Read(t, d, op, offset, n)
    PROVE  ImageInv'
<1>0. /\ DOMAIN got = Readers /\ d \in Readers /\ th \in [Threads -> ThreadState]
      /\ past \in History
  BY DEF BridgeType, TableType, Readers
<1>1. /\ UNCHANGED <<hc, rel, fsh, url, kern, vfd, got>> /\ th[t].pc = "idle" /\ Held(d)
  BY DEF Read, serverVars
<1>2. past'.events = past.events /\ past'.over = past.over
  BY <1>0 DEF Read, History
<1>3. ReadRight(d)'
  <2>1. ReadRight(d)
    BY DEF ImageInv
  <2>2. Remembered
    BY <1>1, <1>2 DEF Remembered, Holds
  <2> QED
    BY <1>1, <1>2, <2>1, <2>2, ReadStays
<1>4. CASE ~vfd[d].active \/ (Hooked(t) /\ op # "send")
  <2>1. UNCHANGED th
    BY <1>4 DEF Read
  <2>2. HandRight(t)' /\ ~Copying(t)'
    BY <1>1, <2>1, NothingInHand DEF Served, Copying
  <2> QED
    BY <1>1, <1>2, <1>3, <2>1, <2>2, MediaFrame
<1>5. CASE ~(~vfd[d].active \/ (Hooked(t) /\ op # "send"))
  <2> DEFINE s == [Idle EXCEPT !.pc = "fetch", !.op = op, !.fd = d,
                               !.title = vfd[d].token, !.count = n,
                               !.pos = IF op = "pread" THEN offset ELSE vfd[d].pos]
  <2>1. vfd[d].active /\ th' = [th EXCEPT ![t] = s]
    BY <1>5 DEF Read
  <2>2. s.pc = "fetch" /\ s.fd = d /\ s.title = vfd[d].token
    BY DEF Idle
  <2> HIDE DEF s
  <2>3. th'[t] = s /\ \A x \in Threads \ {t} : th'[x] = th[x]
    BY <1>0, <2>1
  <2>4. d \notin past.over => kern[d] = vfd[d].token
    BY <1>1, <2>1 DEF TableInv, EntryRight, VirtualRight, Held, Copying
  <2>5. HandRight(t)' /\ ~Copying(t)'
    BY <1>1, <1>2, <2>2, <2>3, <2>4 DEF HandRight, Copying
  <2> QED
    BY <1>1, <1>2, <1>3, <2>3, <2>5, MediaFrame
<1> QED
  BY <1>4, <1>5

(* A call goes on on its own descriptor, or ends.                          *)
LEMMA CallImages ==
    ASSUME BridgeType, TableInv, ImageInv, UNCHANGED <<kern, hc, rel, fsh>>,
           NEW t \in Threads, th[t].pc \in Served, NEW u \in Titles, th[t].title = u,
           NEW s, th' = [th EXCEPT ![t] = s],
           past'.over = past.over,
           \A v \in Titles : past.events[v] \subseteq past'.events[v],
           \A v \in Titles : url'[v] = "stale" => url[v] = "stale",
           \A x \in Readers \ {th[t].fd} : got'[x] = got[x],
           got'[th[t].fd] = got[th[t].fd] \/
              (th[t].pc = "advance" /\ got'[th[t].fd] = got[th[t].fd] \cup Pairs(th[t].pos, th[t].data)),
           s.pc = "idle" \/ /\ s.pc \in Served /\ s.fd = th[t].fd /\ s.title = u
                            /\ s.pc = "retry" /\ Undisturbed(u)' => fsh[u] = 0
                            /\ s.pc = "advance" /\ Undisturbed(u)' =>
                                  InImage(Image(u), s.pos, s.data)
    PROVE  ImageInv'
<1>1. PICK d \in Fds : th[t].fd = d
  BY DEF BridgeType, TableType, ThreadState
<1>2. th[t].title = u
  OBVIOUS
<1>3. th'[t] = s /\ \A x \in Threads \ {t} : th'[x] = th[x]
  BY DEF BridgeType, TableType
<1>4. Remembered
  BY DEF Remembered, Holds
<1>5. Undisturbed(u)' => Undisturbed(u) /\ Image(u)' = Image(u)
  BY <1>4, UndisturbedBefore
<1>6. HandRight(t)
  BY DEF ImageInv
<1>7. d \notin past.over => kern[d] = u
  BY <1>1, <1>2, <1>6 DEF HandRight
<1>8. HandRight(t)'
  <2>1. CASE s.pc = "idle"
    BY <1>3, <2>1 DEF HandRight, Served
  <2>2. CASE s.pc # "idle"
    <3>1. s.fd = d /\ s.title = u
      BY <1>1, <1>2, <2>2
    <3>2. s.pc = "retry" /\ Undisturbed(u)' => fsh'[u] = 0
      BY <2>2, <3>1
    <3>3. s.pc = "advance" /\ Undisturbed(u)' => InImage(Image(u)', s.pos, s.data)
      BY <1>5, <2>2, <3>1
    <3> QED
      BY <1>3, <1>7, <3>1, <3>2, <3>3 DEF HandRight
  <2> QED
    BY <2>1, <2>2
<1>9. ReadRight(d)'
  <2> SUFFICES ASSUME NEW v \in Titles, kern[d] = v, d \notin past.over,
                      Undisturbed(v)'
               PROVE  PartOf(got'[d], Image(v)')
    BY DEF ReadRight
  <2>1. v = u
    BY <1>7
  <2>2. PartOf(got[d], Image(v)')
    <3>1. ReadRight(d)
      BY DEF ImageInv
    <3> QED
      BY <1>5, <2>1, <3>1 DEF ReadRight
  <2>3. th[t].pc = "advance" => PartOf(Pairs(th[t].pos, th[t].data), Image(v)')
    <3>1. th[t].pc = "advance" => InImage(Image(u), th[t].pos, th[t].data)
      BY <1>2, <1>5, <1>6, <2>1 DEF HandRight
    <3> QED
      BY <1>5, <2>1, <3>1, PairsInImage
  <2> QED
    BY <1>1, <2>2, <2>3 DEF PartOf
<1>10. /\ \A x \in Threads \ {t} : Copying(x) => th[x].fd # d
       /\ ~Copying(t)'
  BY <1>1, <1>3 DEF TableInv, CallRight, Copying, Owning, Alone, Uses, Served
<1> QED
  BY <1>1, <1>3, <1>8, <1>9, <1>10, MediaFrame

LEMMA HandleImages ==
    ASSUME LayoutsRight, BridgeType, TableInv, ImageInv, NEW t \in Threads, Handle(t)
    PROVE  ImageInv'
<1>0. /\ th[t] \in ThreadState /\ Idle.pc = "idle" /\ TableType
      /\ url \in [Titles -> {"none", "fresh", "stale"}]
      /\ past \in History
  BY DEF BridgeType, TableType, ServerType, Idle
<1>1. PICK u \in Titles, pos \in Nat, n \in Nat :
         th[t].title = u /\ th[t].pos = pos /\ n = Wanted(th[t])
  BY <1>0 DEF ThreadState, Wanted
<1>2. TitleRight(u)
  BY DEF ImageInv
<1> DEFINE bad  == Resolved(u) = "stale" \/ pos >= Size(u)
           data == IF fsh[u] = 0 THEN RawBytes(u, pos, n)
                   ELSE IF bad THEN BadFastBytes(u, fsh[u], pos, n)
                   ELSE FastBytes(u, fsh[u], pos, n)
<1>3. /\ th[t].pc = "fetch" /\ UNCHANGED <<kern, hc, rel, fsh, got>>
      /\ \/ th' = [th EXCEPT ![t] = Idle] /\ UNCHANGED <<url, past>>
         \/ /\ url' = [url EXCEPT ![u] = "none"] /\ th' = [th EXCEPT ![t].pc = "retry"]
            /\ IF fsh[u] = 0 THEN UNCHANGED past ELSE Happened(u, "raw")
         \/ /\ ~(fsh[u] = 0 /\ bad) /\ url' = [url EXCEPT ![u] = Resolved(u)]
            /\ th' = [th EXCEPT ![t].pc = "advance", ![t].data = data]
            /\ IF bad THEN Happened(u, "end") ELSE UNCHANGED past
  BY <1>1 DEF Handle, Refused
<1>4. th[t].pc \in Served
  BY <1>3 DEF Served
<1>5. Resolved(u) = "stale" => url[u] = "stale"
  BY DEF Resolved
<1> HIDE DEF bad
<1>6. CASE th' = [th EXCEPT ![t] = Idle] /\ UNCHANGED <<url, past>>
  BY <1>0, <1>1, <1>3, <1>4, <1>6, CallImages
<1>7. CASE /\ url' = [url EXCEPT ![u] = "none"] /\ th' = [th EXCEPT ![t].pc = "retry"]
           /\ IF fsh[u] = 0 THEN UNCHANGED past ELSE Happened(u, "raw")
  <2> DEFINE s == [th[t] EXCEPT !.pc = "retry"]
  <2>1. /\ s.pc = "retry" /\ s.fd = th[t].fd /\ s.title = th[t].title
        /\ th' = [th EXCEPT ![t] = s]
    BY <1>0, <1>7 DEF ThreadState
  <2> HIDE DEF s
  <2>2. \A v \in Titles : url'[v] = "stale" => url[v] = "stale"
    BY <1>0, <1>7
  <2>3. s.pc \in Served
    BY <2>1 DEF Served
  <2>4. /\ \A v \in Titles : past.events[v] \subseteq past'.events[v]
        /\ past'.over = past.over
    <3>1. Happened(u, "raw") => past'.over = past.over
      BY <1>0, EventNoted DEF Marks
    <3> QED
      BY <1>0, <1>7, <3>1, EventAdded
  <2>5. Undisturbed(u)' => fsh[u] = 0
    <3>1. Happened(u, "raw") => "raw" \in past'.events[u]
      BY <1>0, EventAdded
    <3> QED
      BY <1>7, <3>1 DEF Undisturbed
  <2> QED
    BY <1>1, <1>3, <1>4, <2>1, <2>2, <2>3, <2>4, <2>5, CallImages
<1>8. CASE /\ ~(fsh[u] = 0 /\ bad) /\ url' = [url EXCEPT ![u] = Resolved(u)]
           /\ th' = [th EXCEPT ![t].pc = "advance", ![t].data = data]
           /\ IF bad THEN Happened(u, "end") ELSE UNCHANGED past
  <2> DEFINE s == [th[t] EXCEPT !.pc = "advance", !.data = data]
  <2>1. /\ s.pc = "advance" /\ s.fd = th[t].fd /\ s.title = u /\ s.pos = pos /\ s.data = data
        /\ th' = [th EXCEPT ![t] = s]
    <3> HIDE DEF data
    <3> QED
      BY <1>0, <1>1, <1>8 DEF ThreadState, TableType
  <2> HIDE DEF s
  <2>2. \A v \in Titles : url'[v] = "stale" => url[v] = "stale"
    BY <1>0, <1>5, <1>8
  <2>3. s.pc \in Served
    BY <2>1 DEF Served
  <2>4. \A v \in Titles : past.events[v] \subseteq past'.events[v]
    BY <1>0, <1>8, EventAdded
  <2>5. past'.over = past.over
    <3>1. bad => past'.over = past.over
      BY <1>0, <1>8, EventNoted DEF Marks
    <3> QED
      BY <1>8, <3>1
  <2>6. ASSUME Undisturbed(u)'
        PROVE  InImage(Image(u), pos, data)
    <3>1. Remembered
      BY <1>3, <2>4 DEF Remembered, Holds
    <3>2. ~bad
      <4>1. bad => "end" \in past'.events[u]
        BY <1>0, <1>8, EventAdded
      <4> QED
        BY <2>6, <4>1 DEF Undisturbed
    <3>3. Undisturbed(u)
      BY <2>6, <3>1, UndisturbedBefore
    <3>4. CASE fsh[u] = 0
      BY <3>4, RawInImage
    <3>5. CASE fsh[u] # 0
      <4>1. fsh[u] = rel[u]
        BY <1>2, <3>3, <3>5 DEF TitleRight, Undisturbed
      <4> QED
        BY <3>2, <3>5, <4>1, FastInImage
    <3> QED
      BY <3>4, <3>5
  <2> HIDE DEF data
  <2>7. s.pc = "advance" /\ Undisturbed(u)' => InImage(Image(u), s.pos, s.data)
    BY <2>1, <2>6
  <2> QED
    BY <1>1, <1>3, <1>4, <2>1, <2>2, <2>3, <2>4, <2>5, <2>7, CallImages
<1> QED
  BY <1>3, <1>6, <1>7, <1>8

LEMMA HandleAgainImages ==
    ASSUME BridgeType, TableInv, ImageInv, NEW t \in Threads, HandleAgain(t)
    PROVE  ImageInv'
<1>0. /\ th[t] \in ThreadState /\ Idle.pc = "idle" /\ TableType
      /\ url \in [Titles -> {"none", "fresh", "stale"}]
  BY DEF BridgeType, TableType, ServerType, Idle
<1>1. PICK u \in Titles, pos \in Nat, n \in Nat :
         th[t].title = u /\ th[t].pos = pos /\ n = Wanted(th[t])
  BY <1>0 DEF ThreadState, Wanted
<1> DEFINE data == RawBytes(u, pos, n)
<1>2. /\ th[t].pc = "retry" /\ UNCHANGED <<kern, hc, rel, fsh, got, past>>
      /\ UNCHANGED url \/ url' = [url EXCEPT ![u] = Resolved(u)]
      /\ \/ th' = [th EXCEPT ![t] = Idle]
         \/ th' = [th EXCEPT ![t].pc = "advance", ![t].data = data]
  BY <1>1 DEF HandleAgain, Refused
<1>3. th[t].pc \in Served
  BY <1>2 DEF Served
<1>4. \A v \in Titles : url'[v] = "stale" => url[v] = "stale"
  <2>1. Resolved(u) = "stale" => url[u] = "stale"
    BY DEF Resolved
  <2> QED
    BY <1>0, <1>2, <2>1
<1>5. Undisturbed(u)' => InImage(Image(u), pos, data)
  <2> SUFFICES ASSUME Undisturbed(u)'
               PROVE  InImage(Image(u), pos, data)
    OBVIOUS
  <2>1. Undisturbed(u)
    BY <1>2 DEF Undisturbed
  <2>2. fsh[u] = 0
    BY <1>1, <1>2, <2>1 DEF ImageInv, HandRight
  <2> QED
    BY <2>2, RawInImage
<1> HIDE DEF data
<1>6. CASE th' = [th EXCEPT ![t] = Idle]
  BY <1>0, <1>1, <1>2, <1>3, <1>4, <1>6, CallImages
<1>7. CASE th' = [th EXCEPT ![t].pc = "advance", ![t].data = data]
  <2> DEFINE s == [th[t] EXCEPT !.pc = "advance", !.data = data]
  <2>1. /\ s.pc = "advance" /\ s.fd = th[t].fd /\ s.title = u /\ s.pos = pos /\ s.data = data
        /\ th' = [th EXCEPT ![t] = s]
    BY <1>0, <1>1, <1>7 DEF ThreadState, TableType
  <2> HIDE DEF s
  <2>2. s.pc \in Served
    BY <2>1 DEF Served
  <2>3. s.pc = "advance" /\ Undisturbed(u)' => InImage(Image(u), s.pos, s.data)
    BY <1>5, <2>1
  <2> QED
    BY <1>1, <1>2, <1>3, <1>4, <2>1, <2>2, <2>3, CallImages
<1> QED
  BY <1>2, <1>6, <1>7

LEMMA AdvanceImages ==
    ASSUME BridgeType, TableInv, ImageInv, NEW t \in Threads, Advance(t)
    PROVE  ImageInv'
<1>0. /\ th[t] \in ThreadState /\ Idle.pc = "idle" /\ DOMAIN got = Readers /\ th[t].fd \in Readers
      /\ th[t].title \in Titles
  BY DEF BridgeType, TableType, ThreadState, Idle, Readers
<1> DEFINE s == [th[t] EXCEPT !.pc = "fetch", !.pos = th[t].pos + Len(th[t].data),
                              !.count = th[t].count - Len(th[t].data), !.data = <<>>]
<1>1. /\ th[t].pc = "advance" /\ UNCHANGED <<kern, hc, rel, fsh, url, past>>
      /\ got' = [got EXCEPT ![th[t].fd] = @ \cup Pairs(th[t].pos, th[t].data)]
      /\ th' = [th EXCEPT ![t] = Idle] \/ th' = [th EXCEPT ![t] = s]
  BY DEF Advance, serverVars
<1>2. s.pc = "fetch" /\ s.fd = th[t].fd /\ s.title = th[t].title
  BY <1>0 DEF ThreadState
<1> HIDE DEF s
<1>3. th[t].pc \in Served /\ s.pc \in Served
  BY <1>1, <1>2 DEF Served
<1>4. /\ \A x \in Readers \ {th[t].fd} : got'[x] = got[x]
      /\ got'[th[t].fd] = got[th[t].fd] \cup Pairs(th[t].pos, th[t].data)
  BY <1>0, <1>1
<1>5. CASE th' = [th EXCEPT ![t] = Idle]
  BY <1>0, <1>1, <1>3, <1>4, <1>5, CallImages
<1>6. CASE th' = [th EXCEPT ![t] = s]
  BY <1>0, <1>1, <1>2, <1>3, <1>4, <1>6, CallImages
<1> QED
  BY <1>1, <1>5, <1>6

LEMMA MediaImages ==
    ASSUME LayoutsRight, BridgeType, TableInv, ImageInv, MediaServer
    PROVE  ImageInv'
<1>1. PICK t \in Threads :
        \/ \E f \in setup.titles \cup {Plain} : Open(t, f)
        \/ ThreadStep(t)
        \/ \E d \in Fds :
            \/ Close(t, d) \/ Dup(t, d)
            \/ \E new \in Fds : Dup2(t, d, new)
            \/ \E target \in Targets : Lseek(t, d, target)
            \/ \E op \in {"read", "pread", "send"}, n \in Counts :
                  \E offset \in IF op = "pread" THEN Targets ELSE {0} :
                      Read(t, d, op, offset, n)
  BY DEF MediaServer
<1>2. ASSUME NEW d \in Fds, Dup(t, d)
      PROVE  ImageInv'
  <2>1. PICK new \in Fds : new = Min(FreeFds) /\ kern[new] = None
    BY <1>2, OpenFds DEF Dup, FreeFds, BridgeType, TableType
  <2>2. \A s \in Threads : new \notin Uses(s)
    BY <2>1, FreeIsUnused
  <2> QED
    BY <1>2, <2>1, <2>2, DuplicateImages DEF Dup
<1>3. ASSUME NEW d \in Fds, NEW new \in Fds, Dup2(t, d, new)
      PROVE  ImageInv'
  <2>1. \A s \in Threads : new \notin Uses(s)
    BY <1>3 DEF Dup2, InUse
  <2> QED
    BY <1>3, <2>1, DuplicateImages DEF Dup2
<1>4. ASSUME NEW d \in Fds, NEW op \in {"read", "pread", "send"}, NEW n, NEW offset,
             Read(t, d, op, offset, n)
      PROVE  ImageInv'
  BY <1>4, ReadImages
<1>5. ASSUME ThreadStep(t)
      PROVE  ImageInv'
  BY <1>5, OpeningImages, CopyImages, HandleImages, HandleAgainImages, AdvanceImages
     DEF ThreadStep
<1> QED
  BY <1>1, <1>2, <1>3, <1>4, <1>5, OpeningImages

(***************************************************************************)
(* The theorems                                                            *)
(***************************************************************************)

(* What holds of the bridge together with the stubs' files.                *)
SSInv == BridgeType /\ StubType /\ TableInv /\ GapInv /\ FilesInv

LEMMA InvStarts == SSInit => SSInv
<1> SUFFICES ASSUME SSInit
             PROVE  SSInv
  OBVIOUS
<1>1. Init
  BY DEF SSInit
<1>2. BridgeType /\ setup \in Setups
  BY <1>1, InitTypes DEF BridgeType, TableType
<1>3. TableInv /\ GapInv
  BY <1>1, <1>2, TableStarts, GapStarts
<1>4. StubType /\ FilesInv
  BY <1>2, StubStarts, FilesStart
<1> QED
  BY <1>2, <1>3, <1>4 DEF SSInv

(* A step that leaves the media server's process alone, and is right about *)
(* the files.                                                              *)
LEMMA QuietStep ==
    ASSUME SSInv, BridgeType', Quiet, StubType', FilesInv'
    PROVE  SSInv'
<1>1. TableInv'
  BY QuietTables DEF SSInv
<1>2. GapInv'
  BY QuietGap DEF SSInv, BridgeType
<1> QED
  BY <1>1, <1>2 DEF SSInv

LEMMA FilesAside ==
    ASSUME SSInv, UNCHANGED stubVars
    PROVE  StubType' /\ FilesInv'
<1>1. UNCHANGED <<stub, minfo, tracks, probing, job, lapse>>
  BY DEF stubVars
<1> QED
  BY <1>1, FilesStay DEF SSInv, StubType

LEMMA StubStepTypes ==
    ASSUME SSInv, StubStep
    PROVE  StubType' /\ FilesInv'
<1>0. setup \in Setups /\ StubType /\ FilesInv /\ setup.titles \subseteq Titles
  BY SetupTyped DEF SSInv, BridgeType, TableType
<1>1. ASSUME NEW w \in Probers, Probe(w) \/ UpdateStub(w) \/ ReadLines(w) \/ WriteStub(w)
      PROVE  StubType' /\ FilesInv'
  BY <1>0, <1>1, ProberTypes, FilesProbe, FilesUpdateStub, FilesReadLines, FilesWriteStub
<1>2. ASSUME NEW w \in Workers, OpenMinfo(w) \/ WriteLines(w)
      PROVE  StubType' /\ FilesInv'
  BY <1>0, <1>2, WorkerTypes, FilesOpen, FilesWriteLines
<1>3. ASSUME WriteMinfo \/ UnlinkMinfo \/ Rewrite
      PROVE  StubType' /\ FilesInv'
  BY <1>0, <1>3, OtherTypes, FilesWriteMinfo, FilesUnlinkMinfo, FilesRewrite
<1>4. ASSUME NEW t \in setup.titles, WriteSporeStubs(t) \/ DeleteSporeStubs(t) \/ Regenerate(t)
      PROVE  StubType' /\ FilesInv'
  BY <1>0, <1>4, OtherTypes, FilesWriteSporeStubs, FilesDeleteSporeStubs, FilesRegenerate
<1> QED
  BY <1>1, <1>2, <1>3, <1>4 DEF StubStep

(* A build or a stream that lets a prober begin.                           *)
LEMMA ProbingBegins ==
    ASSUME SSInv, NEW w \in Probers,
           \/ \E t \in setup.titles : BuildThenProbe(w, t)
           \/ \E c \in Clients : WarmThenProbe(w, c)
    PROVE  SSInv'
<1>0. /\ setup \in Setups /\ BridgeType /\ StubType /\ FilesInv /\ setup.titles \subseteq Titles
      /\ \A c \in Clients : hc[c].title \in Titles
  BY SetupTyped DEF SSInv, BridgeType, TableType, ServerType, ClientState
<1>1. ASSUME NEW t \in setup.titles, BuildThenProbe(w, t)
      PROVE  SSInv'
  <2>1. /\ Build(t) /\ job[w].pc = "idle" /\ UNCHANGED <<stub, minfo, tracks, probing, lapse>>
        /\ UNCHANGED job \/ ProbeStarts(w, t)
    BY <1>1 DEF BuildThenProbe
  <2>2. BridgeType' /\ Quiet
    BY <1>0, <2>1, OutsideTypes
  <2>3. CASE UNCHANGED job
    BY <2>1, <2>2, <2>3, FilesAside, QuietStep DEF stubVars
  <2>4. CASE ProbeStarts(w, t)
    BY <1>0, <2>1, <2>2, <2>4, ProberTypes, FilesProbeStarts, QuietStep
  <2> QED
    BY <2>1, <2>3, <2>4
<1>2. ASSUME NEW c \in Clients, WarmThenProbe(w, c)
      PROVE  SSInv'
  <2>0. PICK t \in Titles : t = hc[c].title
    BY <1>0
  <2>1. /\ StreamWarm(c) /\ job[w].pc = "idle" /\ UNCHANGED <<stub, minfo, tracks, lapse>>
        /\ \/ UNCHANGED <<probing, job>>
           \/ probing' = probing \cup {t} /\ ProbeStarts(w, t)
    BY <1>2, <2>0 DEF WarmThenProbe
  <2>2. BridgeType' /\ Quiet
    BY <1>0, <2>1, StreamTypes DEF ClientStep
  <2>3. CASE UNCHANGED <<probing, job>>
    BY <2>1, <2>2, <2>3, FilesAside, QuietStep DEF stubVars
  <2>4. CASE probing' = probing \cup {t} /\ ProbeStarts(w, t)
    BY <1>0, <2>1, <2>2, <2>4, ProberTypes, FilesProbeStarts, QuietStep
  <2> QED
    BY <2>1, <2>3, <2>4
<1> QED
  BY <1>1, <1>2

LEMMA InvStays == SSInv /\ [SSNext]_SSvars => SSInv'
<1> SUFFICES ASSUME SSInv, [SSNext]_SSvars
             PROVE  SSInv'
  OBVIOUS
<1>0. BridgeType /\ TableType /\ ServerType /\ TableInv /\ GapInv
  BY DEF SSInv, BridgeType
<1>1. ASSUME NEW w \in Probers,
             \/ \E t \in setup.titles : BuildThenProbe(w, t)
             \/ \E c \in Clients : WarmThenProbe(w, c)
      PROVE  SSInv'
  BY <1>1, ProbingBegins
<1>2. ASSUME MediaServer, UNCHANGED stubVars
      PROVE  SSInv'
  <2>1. TableInv'
    BY <1>0, <1>2, MediaTables
  <2>2. GapInv'
    BY <1>0, <1>2, MediaGap
  <2>3. BridgeType' /\ StubType' /\ FilesInv'
    BY <1>0, <1>2, MediaTypes, FilesAside
  <2> QED
    BY <2>1, <2>2, <2>3 DEF SSInv
<1>3. ASSUME UNCHANGED stubVars,
             \/ \E t \in setup.titles : Outside(t)
             \/ \E c \in Clients : \/ StreamHead(c) \/ StreamCold(c)
                                   \/ \E t \in setup.titles, pos \in setup.asked :
                                         StreamStart(c, t, pos)
      PROVE  SSInv'
  <2>1. BridgeType' /\ Quiet
    BY <1>0, <1>3, OutsideTypes, StreamTypes DEF ClientStep
  <2> QED
    BY <1>3, <2>1, FilesAside, QuietStep
<1>4. ASSUME UNCHANGED vars
      PROVE  BridgeType' /\ Quiet
  <2>1. UNCHANGED <<kern, vfd, hook, th, hc, rel, url, fsh, cold, builders, got, past, setup>>
    BY <1>4 DEF vars, clientVars
  <2> QED
    BY <1>0, <2>1 DEF BridgeType, TableType, ServerType, Quiet
<1>5. ASSUME StubStep, UNCHANGED vars
      PROVE  SSInv'
  BY <1>4, <1>5, StubStepTypes, QuietStep
<1>6. ASSUME Restart
      PROVE  SSInv'
  <2>1. BridgeType' /\ StubType' /\ Quiet
    BY <1>0, <1>6, RestartTypes DEF SSInv
  <2>2. FilesInv'
    BY <1>0, <1>6, FilesRestart DEF SSInv, TableType
  <2> QED
    BY <2>1, <2>2, QuietStep
<1>7. ASSUME UNCHANGED SSvars
      PROVE  SSInv'
  <2>1. UNCHANGED vars /\ UNCHANGED stubVars
    BY <1>7 DEF SSvars
  <2> QED
    BY <1>4, <2>1, FilesAside, QuietStep
<1> QED
  BY <1>1, <1>2, <1>3, <1>5, <1>6, <1>7 DEF SSNext

LEMMA InvAlways == SSSpec => []SSInv
BY InvStarts, InvStays, PTL DEF SSSpec

(* The tables of the media server's library and of the server, the stubs'  *)
(* files and the workers' jobs hold values of their types.                 *)
THEOREM TypeCorrect == SSSpec => []SSTypeOK
<1>1. SSInv => SSTypeOK
  <2> SUFFICES ASSUME SSInv
               PROVE  SSTypeOK
    OBVIOUS
  <2>1. TypeOK
    BY DEF SSInv, BridgeType, TableType, ServerType, ThreadState, ClientState, TypeOK
  <2> QED
    BY <2>1 DEF SSInv, StubType, JobState, JobPcs, LineKind, SSTypeOK
<1> QED
  BY <1>1, InvAlways, PTL

(* A virtual descriptor is open on the stub whose token it carries, in any *)
(* interleaving of the media server's threads, also when two of them share *)
(* a hook slot (spore.c).                                                  *)
THEOREM VirtualDescriptorsAreOpen == SSSpec => []VirtualIsOpen
<1>1. SSInv => VirtualIsOpen
  BY DEF SSInv, TableInv, EntryRight, VirtualRight, VirtualIsOpen
<1> QED
  BY <1>1, InvAlways, PTL

(* A stub that is open, and that no call opens, closes or puts over        *)
(* another, is virtual unless its registration was missed, in any          *)
(* interleaving and whichever threads share a hook slot (spore.c).         *)
THEOREM OpenStubsAreVirtual == SSSpec => []OpenIsVirtual
<1>1. SSInv => OpenIsVirtual
  BY DEF SSInv, TableInv, EntryRight, OpenRight, OnCall, Owning, Opening, OpenIsVirtual
<1> QED
  BY <1>1, InvAlways, PTL

(* What has been read through a descriptor that one thread at a time reads *)
(* in order is every position before its own, whichever threads share a    *)
(* hook slot (spore.c).                                                    *)
THEOREM ReadsLeaveNoGap == SSSpec => []GaplessReading
<1>1. SSInv => GaplessReading
  <2> SUFFICES ASSUME SSInv
               PROVE  GaplessReading
    OBVIOUS
  <2>1. GapInv
    BY DEF SSInv
  <2> QED
    BY <2>1 DEF GapInv, ReadInOrder, InOrder, Positions, GaplessReading
<1> QED
  BY <1>1, InvAlways, PTL

(* When nobody works on a title any more, its stub and its .minfo show     *)
(* what the probe has saved, in any order of any number of probes, a       *)
(* backfill, a cleanup and a regeneration (strm_generator.py).             *)
THEOREM FilesShowProbes == SSSpec => []FilesShowTheProbe
<1>1. SSInv => FilesShowTheProbe
  BY FilesFollow DEF SSInv
<1> QED
  BY <1>1, InvAlways, PTL

LEMMA ImagesStay ==
    ASSUME LayoutsRight, SSInv, ImageInv, [SSNext]_SSvars
    PROVE  ImageInv'
<1>0. BridgeType /\ TableInv
  BY DEF SSInv, BridgeType
<1>1. ASSUME NEW t \in setup.titles, Outside(t) \/ Build(t)
      PROVE  ImageInv'
  BY <1>0, <1>1, OutsideImages
<1>2. ASSUME NEW c \in Clients,
             \/ ClientStep(c)
             \/ \E t \in setup.titles, pos \in setup.asked : StreamStart(c, t, pos)
      PROVE  ImageInv'
  BY <1>0, <1>2, StreamImages
<1>3. ASSUME UNCHANGED vars
      PROVE  ImageInv'
  <2>1. /\ UNCHANGED <<kern, vfd, hook, th, hc, rel, url, fsh, got, past>> /\ Quiet
    BY <1>3 DEF vars, clientVars, Quiet
  <2> QED
    BY <1>0, <2>1, RestartImages
<1>4. ASSUME Restart
      PROVE  ImageInv'
  <2>1. /\ UNCHANGED <<kern, vfd, hook, th, rel, fsh, got, past>>
        /\ hc' = [c \in Clients |-> [hc[c] EXCEPT !.pc = "idle"]]
        /\ url' = [t \in Titles |-> "none"]
    BY <1>4 DEF Restart, clientVars
  <2>2. Quiet
    BY <2>1 DEF Quiet
  <2>3. /\ \A c \in Clients : hc'[c] = [hc[c] EXCEPT !.pc = "idle"]
        /\ \A t \in Titles : url'[t] # "stale"
    BY <2>1
  <2> QED
    BY <1>0, <2>1, <2>2, <2>3, RestartImages
<1>5. UNCHANGED SSvars => UNCHANGED vars
  BY DEF SSvars
<1>6. ASSUME MediaServer
      PROVE  ImageInv'
  BY <1>0, <1>6, MediaImages
<1> QED
  BY <1>1, <1>2, <1>3, <1>4, <1>5, <1>6 DEF SSNext, BuildThenProbe, WarmThenProbe, ClientStep

(* Whatever a reader has received of a title, in pieces, after seeks and   *)
(* through duplicated descriptors, is of one image of its release, as long *)
(* as nothing of what Calm names has happened to the title                 *)
(* (spore_server.py, mp4_faststart.py, app.py).                            *)
THEOREM OneImageServed ==
    ASSUME LayoutsRight
    PROVE  SSSpec => []BytesOfOneImage
<1>1. SSInit => SSInv /\ ImageInv
  <2> SUFFICES ASSUME SSInit
               PROVE  SSInv /\ ImageInv
    OBVIOUS
  <2>1. SSInv
    BY InvStarts
  <2> QED
    BY <2>1, ImageStarts DEF SSInit, SSInv
<1>2. (SSInv /\ ImageInv) /\ [SSNext]_SSvars => (SSInv /\ ImageInv)'
  <2> SUFFICES ASSUME SSInv, ImageInv, [SSNext]_SSvars
               PROVE  SSInv' /\ ImageInv'
    OBVIOUS
  <2> QED
    BY InvStays, ImagesStay
<1>3. SSInv /\ ImageInv => BytesOfOneImage
  <2> SUFFICES ASSUME SSInv, ImageInv
               PROVE  BytesOfOneImage
    OBVIOUS
  <2>1. BridgeType
    BY DEF SSInv
  <2>2. ASSUME NEW x \in Readers, NEW t \in Titles, PartOf(got[x], Image(t)), fsh[t] \in {0, rel[t]}
        PROVE  OneImage(x, t)
    <3>1. Image(t) \in ImagesOf[t][rel[t]]
      <4> DEFINE r     == rel[t]
                 bytes == 0 .. (InfoOf[t][r].size - 1)
      <4>1. ImagesOf[t][r] = {[i \in bytes |-> <<r, i>>],
                              [i \in bytes |-> <<r, Virtual(Media[t][r])[i + 1]>>]}
        BY <2>1, LayoutTyped DEF ImagesOf
      <4>2. CASE fsh[t] = 0
        <5>1. Image(t) = [i \in bytes |-> <<r, i>>]
          BY <2>1, <4>2, LayoutTyped DEF Image
        <5> QED
          BY <4>1, <5>1
      <4>3. CASE fsh[t] # 0
        <5>1. Image(t) = [i \in bytes |-> <<r, Virtual(Media[t][r])[i + 1]>>]
          BY <2>1, <4>3, LayoutTyped DEF Image
        <5> QED
          BY <4>1, <5>1
      <4> QED
        BY <4>2, <4>3
    <3> QED
      BY <2>2, <3>1 DEF OneImage, PartOf
  <2>3. ASSUME NEW x, NEW t \in Titles, Calm(x, t)
        PROVE  Undisturbed(t) /\ fsh[t] \in {0, rel[t]} /\ (x \notin Fds => past.events[t] = {})
    BY <2>3 DEF Calm, Undisturbed, ImageInv, TitleRight
  <2>4. ASSUME NEW d \in Fds, kern[d] \in Titles, d \notin past.over, Calm(d, kern[d])
        PROVE  OneImage(d, kern[d])
    <3>1. PICK t \in Titles : kern[d] = t
      BY <2>4
    <3>2. Undisturbed(t) /\ fsh[t] \in {0, rel[t]}
      BY <2>3, <2>4, <3>1
    <3>3. PartOf(got[d], Image(t)) /\ d \in Readers
      BY <2>4, <3>1, <3>2 DEF ImageInv, ReadRight, Readers
    <3> QED
      BY <2>2, <3>1, <3>2, <3>3
  <2>5. ASSUME NEW c \in Clients, Calm(c, hc[c].title)
        PROVE  OneImage(c, hc[c].title)
    <3>1. PICK t \in Titles : hc[c].title = t
      BY <2>1 DEF BridgeType, ServerType, ClientState
    <3>2. c \in Readers /\ c \notin Fds
      BY SporeConstants DEF Readers
    <3>3. past.events[t] = {} /\ fsh[t] \in {0, rel[t]}
      BY <2>3, <2>5, <3>1, <3>2
    <3>4. PartOf(got[c], Image(t))
      BY <3>1, <3>3 DEF ImageInv, StreamRight
    <3> QED
      BY <2>2, <3>1, <3>2, <3>3, <3>4
  <2> QED
    BY <2>4, <2>5 DEF BytesOfOneImage
<1> QED
  BY <1>1, <1>2, <1>3, PTL DEF SSSpec
=============================================================================
