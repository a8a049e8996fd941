------------------------------- MODULE Spore -------------------------------
(***************************************************************************)
(* The Plex bridge.  spore/spore.c keeps, inside the media server's        *)
(* process, a table of the descriptors that were opened on stub files and  *)
(* answers their reads over TCP; spore_server.py answers those requests    *)
(* with bytes of the CDN file, or of its fast-start layout once            *)
(* mp4_faststart.py has cached one; /spore-stream (app.py) serves the      *)
(* transcoder the same over HTTP and starts the builder of that cache.     *)
(*                                                                         *)
(* A title's release 1, 2, ... is a file (FastStart); a byte served is     *)
(* <<release, address>>.  The kernel's own descriptor table is kern.       *)
(***************************************************************************)
EXTENDS FastStart

CONSTANTS
    Threads,     \* threads of the media server
    Clients,     \* transcoders that read /spore-stream
    MaxFd,       \* bound: descriptors 1..MaxFd
    Titles,      \* stubs with their .minfo
    Plain, None, \* any other file; no file
    Slots,       \* hook slots
    Media,       \* Media[t][r]: release r of title t
    Counts,      \* sizes of read requests
    Targets,     \* offsets that are sought, and requested over HTTP
    Setups       \* instances: what is read by whom, and which events happen

Fds      == 1..MaxFd
Releases(t) == DOMAIN Media[t]

ASSUME SporeConstants ==
    /\ MaxFd \in Nat /\ Targets \subseteq Nat
    /\ Counts \subseteq Nat \ {0} /\ Max(Counts) \in Counts
    /\ Clients \cap Fds = {}
    /\ Titles # {} /\ {Plain, None} \cap Titles = {} /\ Plain # None
    /\ \A t \in Titles : 1 \in Releases(t) /\ Releases(t) \subseteq Nat \ {0}
    /\ Setups \subseteq
        [ops: SUBSET {"read", "pread", "send", "seek", "dup", "dup2", "http"},
         events: SUBSET {"expire", "build", "upgrade", "fail", "empty", "probe",
                         "missing", "delete", "regenerate", "restart"},
         slots: [Threads -> Slots],  \* each thread's: pthread_self() % 512
         cached: BOOLEAN, titles: SUBSET Titles, asked: SUBSET Targets, fds: Fds]

VARIABLES
    kern,    \* the kernel's table: the file a descriptor is open on
    vfd,     \* vfd_table of spore.c
    hook,    \* _in_hook_tbl: slots whose thread is inside the library
    th,      \* the threads
    hc,      \* the HTTP clients
    rel,     \* the release the title's virtual item names now
    url,     \* the CDN URL in catbox's cache: "none", "fresh" or "stale"
    fsh,     \* the release the cached layout was built of; 0: none, or Blank
    cold,    \* titles in _spore_cold_sizes
    builders,\* builder threads of a title
    got,     \* history: <<position, byte>> pairs of each reader's open or play
    past,    \* history: events of a title; descriptors moved other than by
             \* reading in order, those dup2 put an unregistered file over,
             \* those never registered, those whose stub file was read
    setup

clientVars == <<kern, vfd, hook, th>>
serverVars == <<rel, url, fsh, cold, builders>>
vars == <<kern, vfd, hook, th, hc, rel, url, fsh, cold, builders, got, past, setup>>

Readers   == Fds \cup Clients
NoTitle   == CHOOSE t \in Titles : TRUE
Idle      == [pc |-> "idle", op |-> "read", fd |-> 1, from |-> 1, title |-> NoTitle,
              pos |-> 0, count |-> 0, data |-> <<>>]
IdleClient == [pc |-> "idle", title |-> NoTitle, info |-> 0, pos |-> 0]
Closed    == [active |-> FALSE, token |-> NoTitle, pos |-> 0]

File(t)  == Media[t][rel[t]]

(* The layouts and sizes of all releases, and of the current one; and what *)
(* is stored of an expired URL, whose answer is taken for a file without   *)
(* moov: all is served as it is.                                           *)
InfoOf  == [t \in Titles |-> [r \in Releases(t) |-> Info(Media[t][r])]]
Size(t) == InfoOf[t][rel[t]].size
Blank   == -1
Layout(t, h) == IF h = Blank THEN NoMoov(0) ELSE InfoOf[t][h]

(* What build_and_cache stores of a file are sums of its boxes' sizes, and *)
(* addresses in it.                                                        *)
ASSUME LayoutsTyped ==
    \A t \in Titles : \A r \in Releases(t) :
        InfoOf[t][r] \in [ftyp: Nat, moov: Nat, at: Nat, size: Nat, header: Seq(Nat)]

Init ==
    /\ kern = [d \in Fds |-> None]
    /\ vfd  = [d \in Fds |-> Closed]
    /\ hook = [s \in Slots |-> FALSE]
    /\ th = [t \in Threads |-> Idle]
    /\ hc = [c \in Clients |-> IdleClient]
    /\ rel = [t \in Titles |-> 1]
    /\ url = [t \in Titles |-> "none"]
    /\ setup \in Setups
    /\ fsh = [t \in Titles |-> IF setup.cached THEN 1 ELSE 0]
    /\ cold = {}
    /\ builders = [t \in Titles |-> 0]
    /\ got = [x \in Readers |-> {}]
    /\ past = [events |-> [t \in Titles |-> {}],
               moved |-> {}, over |-> {}, missed |-> {}, skipped |-> {}]

(***************************************************************************)
(* spore.c: open, close, dup, lseek                                        *)
(***************************************************************************)

Hooked(t) == hook[setup.slots[t]]
Mark(t, v) == hook' = [hook EXCEPT ![setup.slots[t]] = v]
FreeFds   == {d \in 1..setup.fds : kern[d] = None}
Copying(t) == th[t].pc = "copy"
Uses(t)   == IF th[t].pc = "idle" THEN {}
             ELSE {th[t].fd} \cup IF Copying(t) THEN {th[t].from} ELSE {}
InUse(d)  == \E t \in Threads : d \in Uses(t)
OnCall(d) == \E t \in Threads : th[t].pc # "idle" /\ th[t].fd = d
(* A descriptor the media server has: open() or dup() has returned it,     *)
(* close() has not been called.                                            *)
Held(d)   == /\ kern[d] # None
             /\ \A t \in Threads :
                   th[t].fd = d => th[t].pc \notin {"minfo", "register", "close", "copy"}
Does(op)  == op \in setup.ops

(* The kernel gives the lowest free descriptor.  The library looks further *)
(* only at stubs, and not when the thread's slot is marked: then the       *)
(* descriptor is never registered.                                         *)
Open(t, f) ==
    /\ th[t].pc = "idle" /\ FreeFds # {} /\ setup.ops # {"http"}
    /\ LET d      == Min(FreeFds)
           missed == f # Plain /\ Hooked(t)
       IN
        /\ kern' = [kern EXCEPT ![d] = f]
        /\ got' = [got EXCEPT ![d] = {}]
        /\ past' = [past EXCEPT !.moved = @ \ {d}, !.over = @ \ {d}, !.skipped = @ \ {d},
                                !.missed = IF missed THEN @ \cup {d} ELSE @ \ {d}]
        /\ th' = IF f = Plain \/ missed THEN th
                 ELSE [th EXCEPT ![t] = [Idle EXCEPT !.pc = "minfo", !.fd = d, !.title = f]]
    /\ UNCHANGED <<vfd, hook, hc, serverVars, setup>>

(* _read_minfo, with the slot marked.                                      *)
ReadMinfo(t) ==
    /\ th[t].pc = "minfo"
    /\ Mark(t, TRUE)
    /\ th' = [th EXCEPT ![t].pc = "register"]
    /\ UNCHANGED <<kern, vfd, hc, serverVars, got, past, setup>>

Register(t) ==
    /\ th[t].pc = "register"
    /\ Mark(t, FALSE)
    /\ vfd' = [vfd EXCEPT ![th[t].fd] =
                  [active |-> TRUE, token |-> th[t].title, pos |-> 0]]
    /\ th' = [th EXCEPT ![t] = Idle]
    /\ UNCHANGED <<kern, hc, serverVars, got, past, setup>>

(* The .minfo is missing, empty or names no token.                         *)
NoToken(t) ==
    /\ th[t].pc = "register" /\ "empty" \in setup.events
    /\ Mark(t, FALSE)
    /\ past' = [past EXCEPT !.missed = @ \cup {th[t].fd}]
    /\ th' = [th EXCEPT ![t] = Idle]
    /\ UNCHANGED <<kern, vfd, hc, serverVars, got, setup>>

(* Faulty variant: the entry of the table is left.                         *)
CloseForgets(t, d) ==
    /\ th[t].pc = "idle" /\ Held(d) /\ ~InUse(d)
    /\ th' = [th EXCEPT ![t] = [Idle EXCEPT !.pc = "close", !.fd = d]]
    /\ UNCHANGED <<kern, vfd, hook, hc, serverVars, got, past, setup>>

(* close deregisters, then closes.  The media server does not close what   *)
(* one of its threads still uses.                                          *)
Close(t, d) ==
    /\ th[t].pc = "idle" /\ Held(d) /\ ~InUse(d)
    /\ vfd' = [vfd EXCEPT ![d].active = FALSE]
    /\ th' = [th EXCEPT ![t] = [Idle EXCEPT !.pc = "close", !.fd = d]]
    /\ UNCHANGED <<kern, hook, hc, serverVars, got, past, setup>>

Closing(t) ==
    /\ th[t].pc = "close"
    /\ kern' = [kern EXCEPT ![th[t].fd] = None]
    /\ th' = [th EXCEPT ![t] = Idle]
    /\ UNCHANGED <<vfd, hook, hc, serverVars, got, past, setup>>

(* Faulty variant: the entry of a duplicated descriptor is not copied.     *)
CopyVfdNot(old, new) == UNCHANGED vfd

(* _copy_vfd: nothing is done to new when old is not virtual.  The copy    *)
(* has a position of its own.                                              *)
CopyVfd(old, new) ==
    vfd' = IF vfd[old].active THEN [vfd EXCEPT ![new] = vfd[old]] ELSE vfd

(* dup and dup2: the kernel's call first, ...                              *)
Duplicate(t, old, new) ==
    /\ th[t].pc = "idle" /\ Held(old) /\ old # new
    /\ kern' = [kern EXCEPT ![new] = kern[old]]
    /\ got' = [got EXCEPT ![new] = {}]
    /\ past' = [past EXCEPT !.moved = @ \cup {new}, !.skipped = @ \ {new}]
    /\ th' = [th EXCEPT ![t] = [Idle EXCEPT !.pc = "copy", !.fd = new, !.from = old]]
    /\ UNCHANGED <<vfd, hook, hc, serverVars, setup>>

Dup(t, old) ==
    /\ Does("dup") /\ FreeFds # {}
    /\ Duplicate(t, old, Min(FreeFds))

Dup2(t, old, new) ==
    /\ Does("dup2") /\ Held(new) /\ ~InUse(new)
    /\ Duplicate(t, old, new)

(* ... then the table's entry.                                             *)
Copy(t) ==
    LET old == th[t].from
        new == th[t].fd
        With(set, cond) == IF cond THEN set \cup {new} ELSE set \ {new}
    IN  /\ Copying(t)
        /\ CopyVfd(old, new)
        /\ past' = [past EXCEPT !.over = With(@, IF vfd[old].active THEN old \in @
                                                 ELSE vfd[new].active \/ new \in @),
                                !.missed = With(@, ~vfd[old].active)]
        /\ th' = [th EXCEPT ![t] = Idle]
        /\ UNCHANGED <<kern, hook, hc, serverVars, got, setup>>

(* lseek: the new position is computed from one look at the table and set  *)
(* with a second.                                                          *)
Lseek(t, d, target) ==
    /\ Does("seek") /\ th[t].pc = "idle" /\ Held(d) /\ vfd[d].active
    /\ th' = [th EXCEPT ![t] = [Idle EXCEPT !.pc = "seek", !.fd = d, !.pos = target]]
    /\ past' = [past EXCEPT !.moved = @ \cup {d}]
    /\ UNCHANGED <<kern, vfd, hook, hc, serverVars, got, setup>>

SetPosition(d, pos) ==
    vfd' = IF vfd[d].active THEN [vfd EXCEPT ![d].pos = pos] ELSE vfd

Seek(t) ==
    /\ th[t].pc = "seek"
    /\ SetPosition(th[t].fd, th[t].pos)
    /\ th' = [th EXCEPT ![t] = Idle]
    /\ UNCHANGED <<kern, hook, hc, serverVars, got, past, setup>>

(***************************************************************************)
(* spore.c: read, pread, sendfile and splice                               *)
(***************************************************************************)

Error == <<0, 1>>    \* a byte of the CDN's answer to an expired URL

(* An unregistered descriptor, or a marked slot (sendfile does not look at *)
(* it), reads the file on disk.  Otherwise token and position are copied   *)
(* and the table is unlocked.                                              *)
Read(t, d, op, offset, n) ==
    /\ Does(op) /\ th[t].pc = "idle" /\ Held(d)
    /\ IF ~vfd[d].active \/ (Hooked(t) /\ op # "send")
       THEN /\ past' = IF vfd[d].active THEN [past EXCEPT !.skipped = @ \cup {d}] ELSE past
            /\ UNCHANGED th
       ELSE /\ vfd[d].pos <= Size(vfd[d].token)  \* bound: one read behind
            /\ th' = [th EXCEPT ![t] =
                        [Idle EXCEPT !.pc = "fetch", !.op = op, !.fd = d,
                                     !.title = vfd[d].token, !.count = n,
                                     !.pos = IF op = "pread" THEN offset ELSE vfd[d].pos]]
            /\ past' = [past EXCEPT !.moved = IF OnCall(d) \/ op = "pread"
                                              THEN @ \cup {d} ELSE @]
    /\ UNCHANGED <<kern, vfd, hook, hc, serverVars, got, setup>>

Pairs(pos, data) == {<<pos + i - 1, data[i]>> : i \in DOMAIN data}

(* Faulty variant: the position advances by what was asked for.            *)
AdvanceByCount(t) ==
    LET me   == th[t]
        pos  == me.pos + Len(me.data)
        left == me.count - Len(me.data)
    IN  /\ me.pc = "advance"
        /\ got' = [got EXCEPT ![me.fd] = @ \cup Pairs(me.pos, me.data)]
        /\ IF me.op = "send" /\ left > 0
           THEN /\ th' = [th EXCEPT ![t] = [me EXCEPT !.pc = "fetch", !.pos = pos,
                                                      !.count = left, !.data = <<>>]]
                /\ UNCHANGED vfd
           ELSE /\ th' = [th EXCEPT ![t] = Idle]
                /\ IF me.op = "read" THEN SetPosition(me.fd, vfd[me.fd].pos + me.count)
                   ELSE IF me.op = "send" THEN SetPosition(me.fd, pos) ELSE UNCHANGED vfd
        /\ UNCHANGED <<kern, hook, hc, serverVars, past, setup>>

(* read adds what it received to the position of that moment; sendfile     *)
(* goes on until all is sent and then sets the position it came to.        *)
Advance(t) ==
    LET me   == th[t]
        pos  == me.pos + Len(me.data)
        left == me.count - Len(me.data)
    IN  /\ me.pc = "advance"
        /\ got' = [got EXCEPT ![me.fd] = @ \cup Pairs(me.pos, me.data)]
        /\ IF me.op = "send" /\ left > 0
           THEN /\ th' = [th EXCEPT ![t] = [me EXCEPT !.pc = "fetch", !.pos = pos,
                                                      !.count = left, !.data = <<>>]]
                /\ UNCHANGED vfd
           ELSE /\ th' = [th EXCEPT ![t] = Idle]
                /\ CASE me.op = "read"  -> SetPosition(me.fd, vfd[me.fd].pos + Len(me.data))
                     [] me.op = "send"  -> SetPosition(me.fd, pos)
                     [] me.op = "pread" -> UNCHANGED vfd
        /\ UNCHANGED <<kern, hook, hc, serverVars, past, setup>>

(* The server said ERR: EIO, or the end of a sendfile.                     *)
Refused(t) ==
    /\ th' = [th EXCEPT ![t] = Idle]
    /\ IF th[t].op = "send" THEN SetPosition(th[t].fd, th[t].pos) ELSE UNCHANGED vfd

(***************************************************************************)
(* spore_server.py                                                         *)
(***************************************************************************)

May(event) == event \in setup.events
Happened(t, event) == past' = [past EXCEPT !.events[t] = @ \cup {event}]

(* A range of the CDN file as it is, and of the layout with release h's    *)
(* header over the release that is current.                                *)
RawBytes(t, pos, n) ==
    LET data == Fetch(Size(t), pos, pos + n - 1) IN
    [i \in DOMAIN data |-> <<rel[t], data[i]>>]

FastBytes(t, h, pos, n) ==
    LET info == Layout(t, h)
        data == ServeBytes(info, Size(t), pos, pos + n - 1)
    IN  [i \in DOMAIN data |-> <<IF pos + i - 1 < Len(info.header) THEN h ELSE rel[t],
                                 data[i]>>]

(* mp4_faststart._get does not look at the status: what an expired URL or  *)
(* a range behind the end is answered is taken for data.                   *)
BadFastBytes(t, h, pos, n) ==
    LET header == Layout(t, h).header
        data   == SubSeq(header, pos + 1, Min({Len(header), pos + n}))
    IN  [i \in DOMAIN data |-> <<h, data[i]>>] \o IF Len(data) < n THEN <<Error>> ELSE <<>>

(* _get_cdn_url: the cached URL, else catbox.materialize.                  *)
Resolved(t)   == IF url[t] = "none" THEN "fresh" ELSE url[t]
ResolveFails(t) == url[t] = "none" /\ May("fail")

(* sendfile asks for a piece (64 kB) at a time.                            *)
Wanted(me) == IF me.op = "send" THEN 1 ELSE me.count

(* _handle, up to the first answer.  A fetch that raises, and without a    *)
(* layout one answered with an error status, drops the cached URL and asks *)
(* again.                                                                  *)
Handle(t) ==
    LET me    == th[t]
        title == me.title
        n     == Wanted(me)
        h     == fsh[title]
        bad   == Resolved(title) = "stale" \/ me.pos >= Size(title)
        lost  == IF h = 0 THEN bad \/ May("fail")
                 ELSE May("fail") /\ me.pos + n > Len(Layout(title, h).header)
        data  == IF h = 0 THEN RawBytes(title, me.pos, n)
                 ELSE IF bad THEN BadFastBytes(title, h, me.pos, n)
                 ELSE FastBytes(title, h, me.pos, n)
    IN  /\ me.pc = "fetch"
        /\ \/ /\ ResolveFails(title) /\ Refused(t)
              /\ UNCHANGED <<url, past>>
           \/ /\ lost
              /\ url' = [url EXCEPT ![title] = "none"]
              /\ th' = [th EXCEPT ![t].pc = "retry"]
              /\ IF h = 0 THEN UNCHANGED past ELSE Happened(title, "raw")
              /\ UNCHANGED vfd
           \/ /\ ~(h = 0 /\ bad)
              /\ url' = [url EXCEPT ![title] = Resolved(title)]
              /\ th' = [th EXCEPT ![t].pc = "advance", ![t].data = data]
              /\ IF bad THEN Happened(title, "end") ELSE UNCHANGED past
              /\ UNCHANGED vfd
        /\ UNCHANGED <<kern, hook, hc, rel, fsh, cold, builders, got, setup>>

(* Faulty variant: it asks for a fresh URL again and again.                *)
HandleAgainForever(t) ==
    LET me == th[t] IN
    /\ me.pc = "retry"
    /\ url' = [url EXCEPT ![me.title] = "none"]
    /\ th' = [th EXCEPT ![t].pc = "fetch"]
    /\ UNCHANGED <<kern, vfd, hook, hc, rel, fsh, cold, builders, got, past, setup>>

(* The second and last attempt, of the file as it is in any case.          *)
HandleAgain(t) ==
    LET me    == th[t]
        title == me.title
        bad   == Resolved(title) = "stale" \/ me.pos >= Size(title)
    IN  /\ me.pc = "retry"
        /\ \/ /\ ~bad /\ th' = [th EXCEPT ![t].pc = "advance",
                                   ![t].data = RawBytes(title, me.pos, Wanted(me))]
              /\ url' = [url EXCEPT ![title] = Resolved(title)]
              /\ UNCHANGED vfd
           \/ /\ bad \/ May("fail")
              /\ Refused(t) /\ url' = [url EXCEPT ![title] = Resolved(title)]
           \/ ResolveFails(title) /\ Refused(t) /\ UNCHANGED url
        /\ UNCHANGED <<kern, hook, hc, rel, fsh, cold, builders, got, past, setup>>

(***************************************************************************)
(* /spore-stream                                                           *)
(***************************************************************************)

(* The URL and the cached layout are looked up.  A cold title whose size   *)
(* is not known starts a builder.                                          *)
StreamStart(c, t, pos) ==
    /\ Does("http") /\ hc[c].pc = "idle" /\ pos < Size(t)
    /\ got[c] = {} \/ hc[c].title = t
    /\ pos \notin {pair[1] : pair \in got[c]}
    /\ url' = [url EXCEPT ![t] = Resolved(t)]
    /\ LET head == fsh[t] = 0 /\ t \notin cold IN
        /\ hc' = [hc EXCEPT ![c] =
                     [pc |-> IF head THEN "head" ELSE IF fsh[t] = 0 THEN "cold" ELSE "warm",
                      title |-> t, info |-> fsh[t], pos |-> pos]]
        /\ IF head THEN /\ builders[t] < Cardinality(Clients)
                        /\ builders' = [builders EXCEPT ![t] = @ + 1]
                   ELSE UNCHANGED builders
    /\ UNCHANGED <<clientVars, rel, fsh, cold, got, past, setup>>

StreamEnds(c) == hc' = [hc EXCEPT ![c].pc = "idle"]

StreamHead(c) ==
    /\ hc[c].pc = "head"
    /\ \/ cold' = cold \cup {hc[c].title} /\ hc' = [hc EXCEPT ![c].pc = "cold"]
       \/ May("fail") /\ StreamEnds(c) /\ UNCHANGED cold
    /\ UNCHANGED <<clientVars, rel, url, fsh, builders, got, past, setup>>

Streamed(c, data) ==
    \/ got' = [got EXCEPT ![c] = @ \cup Pairs(hc[c].pos, IF url[hc[c].title] = "stale"
                                                         THEN <<Error>> ELSE data)]
    \/ May("fail") /\ UNCHANGED got

(* The size may be gone again (502).  Once a layout is cached it is        *)
(* dropped.                                                                *)
StreamCold(c) ==
    LET t == hc[c].title IN
    /\ hc[c].pc = "cold" /\ StreamEnds(c)
    /\ IF t \in cold THEN Streamed(c, RawBytes(t, hc[c].pos, Max(Counts)))
                     ELSE UNCHANGED got
    /\ cold' = IF fsh[t] # 0 THEN cold \ {t} ELSE cold
    /\ UNCHANGED <<clientVars, rel, url, fsh, builders, past, setup>>

(* Warm: the layout, or a redirect to the file when it is fast already.    *)
StreamWarm(c) ==
    LET t    == hc[c].title
        info == Layout(t, hc[c].info)
    IN  /\ hc[c].pc = "warm" /\ StreamEnds(c)
        /\ IF AlreadyFast(info)
           THEN /\ cold' = cold \ {t}
                /\ Streamed(c, RawBytes(t, hc[c].pos, Max(Counts)))
           ELSE /\ UNCHANGED cold
                /\ Streamed(c, FastBytes(t, hc[c].info, hc[c].pos, Max(Counts)))
        /\ UNCHANGED <<clientVars, rel, url, fsh, builders, past, setup>>

(* build_and_cache keeps what is there already, and may fail.  Its URL is  *)
(* the one its thread was started with, which an upgrade may have made one *)
(* of an earlier release; if it has expired, the error that answers it is  *)
(* taken for a file.                                                       *)
Build(t) ==
    /\ builders[t] > 0 /\ builders' = [builders EXCEPT ![t] = @ - 1]
    /\ \/ /\ fsh[t] # 0 \/ May("fail") \/ May("expire") \/ BuildFails(File(t))
          /\ UNCHANGED <<fsh, past>>
       \/ \E r \in Releases(t) :
            /\ fsh[t] = 0 /\ r <= rel[t] /\ ~BuildFails(Media[t][r])
            /\ fsh' = [fsh EXCEPT ![t] = r] /\ Happened(t, "build")
       \/ /\ fsh[t] = 0 /\ May("expire")
          /\ fsh' = [fsh EXCEPT ![t] = Blank] /\ Happened(t, "build")
    /\ UNCHANGED <<clientVars, hc, rel, url, cold, got, setup>>

(***************************************************************************)
(* Around it: URLs expire, a preload caches a layout, an upgrade replaces  *)
(* the release.  No code removes a cached layout.                          *)
(***************************************************************************)
Expire(t) ==
    /\ May("expire") /\ url[t] = "fresh" /\ url' = [url EXCEPT ![t] = "stale"]
    /\ Happened(t, "expire")
    /\ UNCHANGED <<clientVars, hc, rel, fsh, cold, builders, got, setup>>

Preload(t) ==
    /\ May("build") /\ builders[t] = 0 /\ fsh[t] = 0
    /\ builders' = [builders EXCEPT ![t] = 1] /\ url' = [url EXCEPT ![t] = "fresh"]
    /\ UNCHANGED <<clientVars, hc, rel, fsh, cold, got, past, setup>>

Upgrade(t) ==
    /\ May("upgrade") /\ rel[t] + 1 \in Releases(t)
    /\ rel' = [rel EXCEPT ![t] = @ + 1] /\ url' = [url EXCEPT ![t] = "none"]
    /\ Happened(t, "upgrade")
    /\ UNCHANGED <<clientVars, hc, fsh, cold, builders, got, setup>>

ThreadStep(t) == \/ ReadMinfo(t) \/ Register(t) \/ NoToken(t) \/ Closing(t)
                 \/ Copy(t) \/ Seek(t)
                 \/ Handle(t) \/ HandleAgain(t) \/ Advance(t)
ClientStep(c) == StreamHead(c) \/ StreamCold(c) \/ StreamWarm(c)

MediaServer ==
    \E t \in Threads :
        \/ \E f \in setup.titles \cup {Plain} : Open(t, f)
        \/ ThreadStep(t)
        \/ \E d \in Fds :
            \/ Close(t, d) \/ Dup(t, d)
            \/ \E new \in Fds : Dup2(t, d, new)
            \/ \E target \in Targets : Lseek(t, d, target)
            \/ \E op \in {"read", "pread", "send"}, n \in Counts :
                  \E offset \in IF op = "pread" THEN Targets ELSE {0} :
                      Read(t, d, op, offset, n)

Outside(t) == Expire(t) \/ Preload(t) \/ Upgrade(t)

Next ==
    \/ MediaServer
    \/ \E c \in Clients :
        \/ ClientStep(c)
        \/ \E t \in setup.titles, pos \in setup.asked : StreamStart(c, t, pos)
    \/ \E t \in setup.titles : Build(t) \/ Outside(t)

Spec == Init /\ [][Next]_vars

(* The media server's threads run, and the server answers or times out.    *)
Fairness == /\ \A t \in Threads : WF_vars(ThreadStep(t))
            /\ \A c \in Clients : WF_vars(ClientStep(c))

(***************************************************************************)
(* Properties                                                              *)
(***************************************************************************)

(* The tables of the library and of the server hold values of their types. *)
TypeOK ==
    /\ kern \in [Fds -> Titles \cup {Plain, None}]
    /\ vfd \in [Fds -> [active: BOOLEAN, token: Titles, pos: Nat]]
    /\ hook \in [Slots -> BOOLEAN]
    /\ \A t \in Threads :
        /\ th[t].pc \in {"idle", "minfo", "register", "close", "copy", "seek", "fetch",
                         "retry", "advance"}
        /\ th[t].fd \in Fds /\ th[t].title \in Titles
    /\ \A c \in Clients : hc[c].pc \in {"idle", "head", "cold", "warm"}
    /\ \A t \in Titles : rel[t] \in Releases(t) /\ fsh[t] \in {0, Blank} \cup Releases(t)
    /\ url \in [Titles -> {"none", "fresh", "stale"}] /\ cold \subseteq Titles

(* A virtual descriptor is open on the stub whose token it carries, so no  *)
(* file opened later under its number is answered with another title's     *)
(* bytes, unless dup2 has put an unregistered file over it (spore.c).      *)
VirtualIsOpen ==
    \A d \in Fds :
        vfd[d].active /\ d \notin past.over /\ (\A t \in Threads : Copying(t) => th[t].fd # d)
            => kern[d] = vfd[d].token

(* A stub that is open is virtual, whichever threads share a hook slot and *)
(* however open, close and dup interleave, unless it was opened in the     *)
(* moment in which its thread's slot was marked, its .minfo named no token *)
(* or it duplicates a descriptor of this kind (spore.c).                   *)
OpenIsVirtual ==
    \A d \in Fds :
        kern[d] \in Titles /\ d \notin past.missed /\ ~OnCall(d)
            => vfd[d].active

(* The release's bytes in the order of the CDN file, or of its layout.     *)
ImagesOf ==
    [t \in Titles |-> [r \in Releases(t) |->
        LET bytes == 0..(InfoOf[t][r].size - 1) IN
        {[i \in bytes |-> <<r, i>>],
         [i \in bytes |-> <<r, Virtual(Media[t][r])[i + 1]>>]}]]

(* A layout is right for a file if the file the module's comment draws      *)
(* (Virtual) is the header that build_and_cache has kept, then what stood   *)
(* before moov, then what keeps its address.                                *)
LaidOut(file, info) ==
    LET drawn == Virtual(file)
    IN  /\ Len(info.header) <= info.at + info.moov
        /\ info.at + info.moov <= info.size
        /\ \A i \in 0..(info.size - 1) :
              /\ drawn[i + 1] = IF i < Len(info.header) THEN info.header[i + 1]
                                ELSE IF i < info.at + info.moov THEN i - info.moov
                                ELSE i
              /\ AlreadyFast(info) => drawn[i + 1] = i

(* Every file has the layout its comment draws. *)
LayoutsRight == \A t \in Titles : \A r \in Releases(t) : LaidOut(Media[t][r], InfoOf[t][r])

Calm(x, t) == \/ past.events[t] = {}
              \/ past.events[t] = {"expire"} /\ fsh[t] = 0 /\ x \in Fds

OneImage(x, t) == \E image \in ImagesOf[t][rel[t]] :
                      \A pair \in got[x] : pair[1] \in DOMAIN image
                                           /\ image[pair[1]] = pair[2]

(* Whatever a reader of a title receives over the network, in pieces,      *)
(* after seeks, through duplicated descriptors and across an expired URL,  *)
(* belongs to one image of its release (spore_server.py, mp4_faststart.py, *)
(* app.py), as long as the layout is not cached meanwhile, nothing is read *)
(* through a cached layout from an expired URL, behind the end or by a     *)
(* fetch that raises, and there is no upgrade.                             *)
BytesOfOneImage ==
    /\ \A d \in Fds : kern[d] \in Titles /\ d \notin past.over /\ Calm(d, kern[d])
                            => OneImage(d, kern[d])
    /\ \A c \in Clients : Calm(c, hc[c].title) => OneImage(c, hc[c].title)

(* A virtual descriptor is never answered from the stub file, nor from the *)
(* CDN's file once a layout is cached, not even for a moment or after a    *)
(* failed fetch (spore.c, spore_server.py).                                *)
ReadsAreOfOneImage ==
    \A d \in Fds :
        kern[d] \in Titles /\ vfd[d].active /\ d \notin past.over =>
            (past.events[kern[d]] \subseteq {"raw"}
                => d \notin past.skipped /\ OneImage(d, kern[d]))

(* A descriptor that one thread at a time reads in order has received every *)
(* byte before its position and none behind it (spore.c).                  *)
GaplessReading ==
    \A d \in Fds :
        vfd[d].active /\ d \notin past.moved \cup past.over /\ ~OnCall(d)
            => {pair[1] : pair \in got[d]} = 0..(vfd[d].pos - 1)

(* Every call of the media server returns, and every request of the        *)
(* transcoder is answered, whatever expires or fails (spore_server.py).    *)
CallsReturn ==
    /\ \A t \in Threads : []<>(th[t].pc = "idle")
    /\ \A c \in Clients : []<>(hc[c].pc = "idle")
=============================================================================
