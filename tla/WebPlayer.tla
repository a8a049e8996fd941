----------------------------- MODULE WebPlayer -----------------------------
(***************************************************************************)
(* The web player (src/plugins/webplayer/web_player.py).  A prepare job is *)
(* a thread that looks for a playable release, starts FFmpeg in the        *)
(* directory of the release's hash and registers the session; a seek       *)
(* stops that FFmpeg, empties the directory and starts another; a          *)
(* scheduled cleanup removes the sessions nobody has asked for.  Sessions  *)
(* are looked up under a lock that is not held while they are used.        *)
(***************************************************************************)
EXTENDS Integers, Sequences, FiniteSets

CONSTANTS
    Jobs,      \* prepare jobs, each of them submitted once
    Seekers,   \* users who seek
    Hashes,    \* releases
    Rankings,  \* candidate lists find_web_candidates may return
    Cached,    \* releases TorBox has cached
    Owned,     \* releases in the library at the start
    Hdr,       \* releases that turn out to be HDR when they are probed
    Multi,     \* releases with several audio tracks
    MaxProcs   \* bound: FFmpeg processes started

ASSUME WebPlayerConstants ==
    /\ Rankings \subseteq Seq(Hashes) /\ Cached \cup Owned \subseteq Hashes
    /\ Hdr \subseteq Hashes /\ Multi \subseteq Hashes /\ MaxProcs \in Nat
    /\ Jobs \cap Seekers = {}

VARIABLES
    job,       \* _jobs
    seek,      \* calls of seek_session
    sessions,  \* _sessions: each hash's FFmpeg (0: no session), idle or not
    procs,     \* the FFmpeg processes, in the order they were started
    dir,       \* each hash's directory: absent, or whose segments it holds
    library,   \* releases in the user's TorBox library
    cleaner,   \* cleanup_idle_sessions: idle, or the stale tokens it goes through
    past       \* history: hashes two calls were busy with at a time; those
               \* whose directory a seek has emptied for the FFmpeg it started

vars == <<job, seek, sessions, procs, dir, library, cleaner, past>>

NoSession == [proc |-> 0, idle |-> FALSE]
NoDir     == [exists |-> FALSE, segments |-> {}]
NewJob    == [pc |-> "none", todo |-> <<>>, proc |-> 0]
NewSeek   == [pc |-> "none", hash |-> CHOOSE h \in Hashes : TRUE, proc |-> 0]

Init ==
    /\ job = [j \in Jobs |-> NewJob]
    /\ seek = [u \in Seekers |-> NewSeek]
    /\ sessions = [h \in Hashes |-> NoSession]
    /\ procs = <<>>
    /\ dir = [h \in Hashes |-> NoDir]
    /\ library = Owned
    /\ cleaner = [busy |-> FALSE, stale |-> {}, wipe |-> {}]
    /\ past = [overlap |-> {}, clean |-> {}]

Alive(p)    == p # 0 /\ procs[p].running
HashOf(j)   == Head(job[j].todo)
Ended(j)    == job[j].pc \in {"none", "ready", "error"}
Preparing(j) == job[j].pc \in {"fetch", "probe", "mkdir", "start", "wait"}
(* Bound: every call under way may start one more FFmpeg.                  *)
MayStart ==
    Len(procs) + Cardinality({j \in Jobs : ~Ended(j) /\ job[j].pc # "wait"})
               + Cardinality({u \in Seekers : seek[u].pc \notin {"none", "wait"}}) < MaxProcs
(* The calls that are busy with a hash.                                    *)
BusyWith(h) == {j \in Jobs : Preparing(j) /\ HashOf(j) = h}
               \cup {u \in Seekers : seek[u].pc # "none" /\ seek[u].hash = h}
Meets(h, self) ==
    IF BusyWith(h) \ {self} = {} THEN past.overlap ELSE past.overlap \cup {h}

(***************************************************************************)
(* FFmpeg (external)                                                       *)
(***************************************************************************)

(* It writes segments while its directory is there, and ends with the film *)
(* or because it cannot write.                                             *)
Write(p) ==
    LET h == procs[p].hash IN
    /\ procs[p].running /\ dir[h].exists /\ p \notin dir[h].segments
    /\ dir' = [dir EXCEPT ![h].segments = @ \cup {p}]
    /\ UNCHANGED <<job, seek, sessions, procs, library, cleaner, past>>

Exit(p) ==
    /\ procs[p].running
    /\ procs' = [procs EXCEPT ![p].running = FALSE]
    /\ UNCHANGED <<job, seek, sessions, dir, library, cleaner, past>>

Killed(p) == IF p = 0 THEN procs ELSE [procs EXCEPT ![p].running = FALSE]

(* _start_hls: opens its log in the directory, starts FFmpeg, registers    *)
(* the session over the one that is there.                                 *)
StartHls(h) ==
    /\ procs' = Append(procs, [hash |-> h, running |-> TRUE])
    /\ sessions' = [sessions EXCEPT ![h] = [proc |-> Len(procs) + 1, idle |-> FALSE]]

(***************************************************************************)
(* _run_job                                                                *)
(***************************************************************************)

(* The first candidate in the library, else the first that is cached, then *)
(* the others in their order.                                              *)
Best(s) ==
    LET within(S) == {i \in DOMAIN s : s[i] \in S}
        first(S)  == CHOOSE i \in within(S) : \A k \in within(S) : i <= k
    IN  IF within(library) # {} THEN first(library)
        ELSE IF within(Cached) # {} THEN first(Cached) ELSE 0
BestFirst(s) ==
    LET best == Best(s) IN
    [i \in DOMAIN s |-> IF i = 1 THEN s[best] ELSE IF i <= best THEN s[i - 1] ELSE s[i]]

Fails(j) == job' = [job EXCEPT ![j].pc = "error"]
Skips(j) ==
    job' = [job EXCEPT ![j].todo = Tail(@),
                       ![j].pc = IF Len(job[j].todo) = 1 THEN "error" ELSE "try"]
Goes(j, pc) == job' = [job EXCEPT ![j].pc = pc]

Search(j, ranking) ==
    /\ job[j].pc = "none" /\ MayStart
    /\ IF ranking = <<>> \/ Best(ranking) = 0 THEN Fails(j)
       ELSE job' = [job EXCEPT ![j].pc = "try", ![j].todo = BestFirst(ranking)]
    /\ UNCHANGED <<seek, sessions, procs, dir, library, cleaner, past>>

(* A candidate that would have to be downloaded is skipped; a session      *)
(* whose FFmpeg runs is reused as it is.                                   *)
Try(j) ==
    LET h == HashOf(j) IN
    /\ job[j].pc = "try"
    /\ IF h \notin library \cup Cached THEN Skips(j) /\ UNCHANGED past
       ELSE IF Alive(sessions[h].proc) THEN Goes(j, "ready") /\ UNCHANGED past
       ELSE /\ Goes(j, "fetch")
            /\ past' = [past EXCEPT !.overlap = Meets(h, j)]
    /\ UNCHANGED <<seek, sessions, procs, dir, library, cleaner>>

(* _get_cdn_url adds the torrent; it may be refused, or not get a URL.     *)
Fetch(j) ==
    /\ job[j].pc = "fetch"
    /\ \/ Goes(j, "probe") /\ library' = library \cup {HashOf(j)}
       \/ Skips(j) /\ library' \in {library, library \cup {HashOf(j)}}
    /\ UNCHANGED <<seek, sessions, procs, dir, cleaner, past>>

(* ffprobe may time out, which ends the job.                               *)
Probe(j) ==
    /\ job[j].pc = "probe"
    /\ \/ IF HashOf(j) \in Hdr THEN Skips(j) ELSE Goes(j, "mkdir")
       \/ Fails(j)
    /\ UNCHANGED <<seek, sessions, procs, dir, library, cleaner, past>>

Mkdir(j) ==
    /\ job[j].pc = "mkdir" /\ Goes(j, "start")
    /\ dir' = [dir EXCEPT ![HashOf(j)].exists = TRUE]
    /\ UNCHANGED <<seek, sessions, procs, library, cleaner, past>>

Start(j) ==
    LET h == HashOf(j) IN
    /\ job[j].pc = "start"
    /\ IF dir[h].exists
       THEN /\ StartHls(h)
            /\ job' = [job EXCEPT ![j].pc = "wait", ![j].proc = Len(procs) + 1]
            /\ past' = [past EXCEPT !.clean = @ \ {h}]
       ELSE Fails(j) /\ UNCHANGED <<procs, sessions, past>>
    /\ UNCHANGED <<seek, dir, library, cleaner>>

(* _wait_segments takes any segment of the directory; at the timeout       *)
(* FFmpeg is stopped, and the session stays.  With several audio tracks    *)
(* the timeout is not looked at, but the master playlist cannot be written *)
(* in a directory that is gone: the job fails and FFmpeg is left.          *)
Wait(j) ==
    LET h == HashOf(j) IN
    /\ job[j].pc = "wait"
    /\ \/ /\ IF h \in Multi THEN dir[h].exists ELSE dir[h].segments # {}
          /\ Goes(j, "ready") /\ UNCHANGED procs
       \/ /\ h \in Multi /\ ~dir[h].exists
          /\ Fails(j) /\ UNCHANGED procs
       \/ /\ h \notin Multi /\ dir[h].segments = {}
          /\ Fails(j) /\ procs' = Killed(job[j].proc)
    /\ UNCHANGED <<seek, sessions, dir, library, cleaner, past>>

(***************************************************************************)
(* seek_session and the routes                                             *)
(***************************************************************************)

SeekStart(u, h) ==
    /\ seek[u].pc = "none" /\ sessions[h].proc # 0 /\ MayStart
    /\ seek' = [seek EXCEPT ![u] = [pc |-> "stop", hash |-> h, proc |-> sessions[h].proc]]
    /\ past' = [past EXCEPT !.overlap = Meets(h, u)]
    /\ UNCHANGED <<job, sessions, procs, dir, library, cleaner>>

SeekGoes(u, pc) == seek' = [seek EXCEPT ![u].pc = pc]

(* terminate, wait, kill; the wait for the killed process may time out,    *)
(* and then the call raises.                                               *)
SeekStop(u) ==
    /\ seek[u].pc = "stop"
    /\ SeekGoes(u, "wipe") \/ SeekGoes(u, "none")
    /\ procs' = Killed(seek[u].proc)
    /\ UNCHANGED <<job, sessions, dir, library, cleaner, past>>

(* Faulty variant: only the playlists are removed.                         *)
SeekWipePlaylists(u) ==
    /\ seek[u].pc = "wipe" /\ SeekGoes(u, "restart")
    /\ UNCHANGED <<job, sessions, procs, dir, library, cleaner, past>>

SeekWipe(u) ==
    /\ seek[u].pc = "wipe" /\ SeekGoes(u, "restart")
    /\ dir' = [dir EXCEPT ![seek[u].hash].segments = {}]
    /\ UNCHANGED <<job, sessions, procs, library, cleaner, past>>

(* Without the directory the log cannot be opened: the call raises.        *)
SeekRestart(u) ==
    LET h == seek[u].hash IN
    /\ seek[u].pc = "restart"
    /\ IF dir[h].exists
       THEN /\ StartHls(h) /\ SeekGoes(u, "wait")
            /\ past' = [past EXCEPT !.clean = @ \cup {h}]
       ELSE SeekGoes(u, "none") /\ UNCHANGED <<procs, sessions, past>>
    /\ UNCHANGED <<job, dir, library, cleaner>>

SeekWait(u) ==
    /\ seek[u].pc = "wait" /\ SeekGoes(u, "none")
    /\ UNCHANGED <<job, sessions, procs, dir, library, cleaner, past>>

(* A file of the session is served, and the session touched.               *)
ServeFile(h) ==
    /\ sessions[h].proc # 0 /\ dir[h].segments # {} /\ sessions[h].idle
    /\ sessions' = [sessions EXCEPT ![h].idle = FALSE]
    /\ UNCHANGED <<job, seek, procs, dir, library, cleaner, past>>

(***************************************************************************)
(* cleanup_idle_sessions                                                   *)
(***************************************************************************)

(* SESSION_IDLE_CLEANUP has passed since a session was asked for.          *)
GoIdle(h) ==
    /\ sessions[h].proc # 0 /\ ~sessions[h].idle
    /\ sessions' = [sessions EXCEPT ![h].idle = TRUE]
    /\ UNCHANGED <<job, seek, procs, dir, library, cleaner, past>>

(* Faulty variant: only sessions whose FFmpeg runs are listed.             *)
CleanupListRunning ==
    /\ ~cleaner.busy
    /\ LET stale == {h \in Hashes : sessions[h].idle /\ Alive(sessions[h].proc)} IN
        /\ stale # {}
        /\ cleaner' = [busy |-> TRUE, stale |-> stale, wipe |-> {}]
    /\ UNCHANGED <<job, seek, sessions, procs, dir, library, past>>

CleanupList ==
    /\ ~cleaner.busy
    /\ LET stale == {h \in Hashes : sessions[h].idle} IN
        /\ stale # {}
        /\ cleaner' = [busy |-> TRUE, stale |-> stale, wipe |-> {}]
    /\ UNCHANGED <<job, seek, sessions, procs, dir, library, past>>

(* Faulty variant: the session is forgotten and FFmpeg goes on.            *)
CleanupPopOnly(h) ==
    /\ cleaner.wipe = {} /\ h \in cleaner.stale
    /\ cleaner' = [busy |-> TRUE, stale |-> cleaner.stale \ {h},
                   wipe |-> IF sessions[h].proc # 0 THEN {h} ELSE {}]
    /\ sessions' = [sessions EXCEPT ![h] = NoSession]
    /\ UNCHANGED <<job, seek, procs, dir, library, past>>

(* Whatever session the token has now is removed and its FFmpeg stopped.   *)
CleanupPop(h) ==
    /\ cleaner.wipe = {} /\ h \in cleaner.stale
    /\ cleaner' = [busy |-> TRUE, stale |-> cleaner.stale \ {h},
                   wipe |-> IF sessions[h].proc # 0 THEN {h} ELSE {}]
    /\ sessions' = [sessions EXCEPT ![h] = NoSession]
    /\ procs' = Killed(sessions[h].proc)
    /\ UNCHANGED <<job, seek, dir, library, past>>

(* Then its directory is removed.                                          *)
CleanupWipe(h) ==
    /\ h \in cleaner.wipe
    /\ cleaner' = [cleaner EXCEPT !.wipe = {}]
    /\ dir' = [dir EXCEPT ![h] = NoDir]
    /\ UNCHANGED <<job, seek, sessions, procs, library, past>>

CleanupEnd ==
    /\ cleaner.busy /\ cleaner.stale = {} /\ cleaner.wipe = {}
    /\ cleaner' = [cleaner EXCEPT !.busy = FALSE]
    /\ UNCHANGED <<job, seek, sessions, procs, dir, library, past>>

JobStep(j) == Try(j) \/ Fetch(j) \/ Probe(j) \/ Mkdir(j) \/ Start(j) \/ Wait(j)
SeekStep(u) == SeekStop(u) \/ SeekWipe(u) \/ SeekRestart(u) \/ SeekWait(u)
Cleanup == \/ CleanupList \/ CleanupEnd
           \/ \E h \in Hashes : CleanupPop(h) \/ CleanupWipe(h)

Next ==
    \/ \E p \in DOMAIN procs : Write(p) \/ Exit(p)
    \/ \E j \in Jobs : JobStep(j) \/ \E ranking \in Rankings : Search(j, ranking)
    \/ \E u \in Seekers : SeekStep(u) \/ \E h \in Hashes : SeekStart(u, h)
    \/ \E h \in Hashes : ServeFile(h) \/ GoIdle(h)
    \/ Cleanup

Spec == Init /\ [][Next]_vars

(* Threads run, and the scheduler calls the cleanup every 15 minutes.      *)
FairSpec == /\ Spec /\ WF_vars(Cleanup)
            /\ \A j \in Jobs : WF_vars(JobStep(j))
            /\ \A u \in Seekers : WF_vars(SeekStep(u))

(***************************************************************************)
(* Properties                                                              *)
(***************************************************************************)

(* Jobs, sessions and directories hold values of their types, and every    *)
(* session's FFmpeg was started for its own hash (web_player.py).          *)
TypeOK ==
    /\ \A j \in Jobs : /\ job[j].pc \in {"none", "try", "fetch", "probe", "mkdir",
                                         "start", "wait", "ready", "error"}
                       /\ Preparing(j) => job[j].todo # <<>>
    /\ \A u \in Seekers : seek[u].pc \in {"none", "stop", "wipe", "restart", "wait"}
    /\ \A h \in Hashes : /\ sessions[h].proc \in 0..Len(procs)
                         /\ sessions[h].proc # 0 => procs[sessions[h].proc].hash = h
                         /\ dir[h].segments \subseteq DOMAIN procs
    /\ cleaner.stale \subseteq Hashes /\ Cardinality(cleaner.wipe) <= 1

(* An FFmpeg that runs is the one of its hash's session, so that a seek or *)
(* the cleanup can stop it, whatever the cleanup meets; unless two calls   *)
(* prepared or sought the same release at the same time (web_player.py).   *)
RunningIsRegistered ==
    \A p \in DOMAIN procs :
        procs[p].running /\ procs[p].hash \notin past.overlap
            => sessions[procs[p].hash].proc = p

(* After a seek the directory holds only segments of the FFmpeg started at *)
(* the new position, until a job prepares the release again; unless two    *)
(* calls were busy with it at the same time (seek_session).                *)
SeekLeavesNoOldSegments ==
    \A h \in Hashes \ past.overlap :
        h \in past.clean => dir[h].segments \subseteq {sessions[h].proc, 0}
                            \/ sessions[h].proc = 0

(* The message a job ends with when FFmpeg has written nothing, "Timeout:   *)
(* FFmpeg produced no segments." (web_player.py:332): a job with one audio  *)
(* track becomes ready only on segments of the FFmpeg it has started.      *)
ReadyOnOwnSegments ==
    [][\A j \in Jobs :
        LET h == HashOf(j) IN
        job[j].pc = "wait" /\ job'[j].pc = "ready" /\ h \notin Multi \cup past.overlap
            => job[j].proc \in dir[h].segments]_vars

(* No release known to be HDR, or not instantly available, is ever given   *)
(* to FFmpeg (_run_job).                                                   *)
OnlySdrIsStarted ==
    \A p \in DOMAIN procs : procs[p].hash \in library \ Hdr

(* A session nobody asks for is removed, also when its job timed out or    *)
(* its FFmpeg has ended (cleanup_idle_sessions).                           *)
IdleIsCleaned ==
    \A h \in Hashes : sessions[h].idle ~> ~sessions[h].idle
=============================================================================
