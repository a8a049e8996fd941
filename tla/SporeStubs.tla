----------------------------- MODULE SporeStubs ----------------------------
(***************************************************************************)
(* The files the media server sees of a title (strm_generator.py): a stub  *)
(* .mkv and a .minfo beside it, and the tracks that a probe of the release *)
(* has found, which db.py keeps with the title's row.  The thread that has *)
(* built a fast-start layout probes the release, then rewrites both files; *)
(* a backfill writes missing ones, a cleanup deletes them and an admin has *)
(* the stubs written anew, each beside the others.                         *)
(*                                                                         *)
(* The size in a .minfo is left out, and so is which release was probed:   *)
(* no code removes the tracks of an old one.                               *)
(***************************************************************************)
EXTENDS Spore

CONSTANTS
    Probers,    \* threads that probe a release
    Fallback    \* titles whose first audio track is to be avoided

Missing == {"missing"}
Others  == {"backfill", "cleanup", "regenerate"}
Workers == Probers \cup Others

ASSUME StubConstants == Fallback \subseteq Titles /\ Probers \cap Others = {}

VARIABLES
    stub,    \* the stub: "none", "plain" or "probed"
    minfo,   \* the .minfo: Missing or what its lines say of "token", "codec", "pref"
    tracks,  \* titles whose row has spore_tracks
    probing, \* _spore_probing
    job,     \* what each worker is doing
    lapse    \* history: what is not expected of a title's files any more

stubVars == <<stub, minfo, tracks, probing, job, lapse>>
SSvars   == <<vars, stubVars>>

NoJob == [pc |-> "idle", title |-> NoTitle, line |-> "codec", lines |-> {}, saved |-> FALSE]

(* The titles are probed already, or have only the files they were made    *)
(* with, or not even these (made before the bridge was enabled).           *)
SSInit ==
    /\ Init
    /\ tracks = IF May("probe") \/ May("missing") THEN {} ELSE Titles
    /\ stub = [t \in Titles |-> IF May("missing") THEN "none"
                                ELSE IF t \in tracks THEN "probed" ELSE "plain"]
    /\ minfo = [t \in Titles |-> IF May("missing") THEN Missing
                                 ELSE {"token"} \cup (IF t \in tracks THEN {"codec"} ELSE {})
                                      \cup (IF t \in tracks \cap Fallback THEN {"pref"} ELSE {})]
    /\ probing = {}
    /\ job = [w \in Workers |-> NoJob]
    /\ lapse = [t \in Titles |-> {}]

(* The folder is there as long as a file is: the last rmdir removes it.    *)
Folder(t)  == stub[t] # "none" \/ minfo[t] # Missing
BusyOn(t)  == {w \in Workers : job[w].pc # "idle" /\ job[w].title = t}
Lapses(t, what) == lapse' = [lapse EXCEPT ![t] = @ \cup what]
Ends(w)    == job' = [job EXCEPT ![w] = NoJob]
Goes(w, pc) == job' = [job EXCEPT ![w].pc = pc]

(***************************************************************************)
(* _build_then_probe and _preload_spore                                    *)
(***************************************************************************)

(* A title that has its tracks is not probed again, whatever became of the *)
(* files.                                                                  *)
ProbeStarts(w, t) ==
    IF t \in tracks THEN UNCHANGED job
    ELSE job' = [job EXCEPT ![w] = [NoJob EXCEPT !.pc = "probe", !.title = t]]

BuildThenProbe(w, t) ==
    /\ Build(t) /\ job[w].pc = "idle"
    /\ IF fsh'[t] # 0 THEN ProbeStarts(w, t) ELSE UNCHANGED job
    /\ UNCHANGED <<stub, minfo, tracks, probing, lapse>>

(* A title that is fast already is probed at its first request.            *)
WarmThenProbe(w, c) ==
    LET t    == hc[c].title
        fast == AlreadyFast(Layout(t, hc[c].info))
    IN  /\ StreamWarm(c) /\ job[w].pc = "idle"
        /\ IF fast /\ t \notin tracks /\ t \notin probing
           THEN probing' = probing \cup {t} /\ ProbeStarts(w, t)
           ELSE UNCHANGED <<probing, job>>
        /\ UNCHANGED <<stub, minfo, tracks, lapse>>

(* ffprobe fails, or what it found is saved.                               *)
Probe(w) ==
    LET t == job[w].title IN
    /\ job[w].pc = "probe"
    /\ \/ Ends(w) /\ probing' = probing \ {t} /\ UNCHANGED tracks
       \/ Goes(w, "update") /\ tracks' = tracks \cup {t} /\ UNCHANGED probing
    /\ UNCHANGED <<stub, minfo, lapse>>

(* update_stub_from_probe, then update_minfo_preferred_audio.              *)
Prefers(w) ==
    IF job[w].title \in Fallback
    THEN job' = [job EXCEPT ![w].pc = "read", ![w].line = "pref"] /\ UNCHANGED probing
    ELSE Ends(w) /\ probing' = probing \ {job[w].title}

UpdateStub(w) ==
    /\ job[w].pc = "update"
    /\ IF Folder(job[w].title) THEN Goes(w, "read") /\ UNCHANGED <<probing, lapse>>
       ELSE Prefers(w) /\ Lapses(job[w].title, {"stub", "minfo"})
    /\ UNCHANGED <<stub, minfo, tracks>>

(* Once its line is written, or could not be.                              *)
AfterLine(w) ==
    CASE job[w].line = "codec" -> Goes(w, "stub") /\ UNCHANGED probing
      [] job[w].line = "pref"  -> Ends(w) /\ probing' = probing \ {job[w].title}
      [] job[w].line = "token" -> Ends(w) /\ UNCHANGED probing

(* A .minfo is rewritten by reading it, emptying it and writing all lines; *)
(* whoever reads it in between reads an empty file.                        *)
Emptied(t) == \E w \in BusyOn(t) : job[w].pc = "write"

ReadLines(w) ==
    LET t == job[w].title IN
    /\ job[w].pc = "read"
    /\ IF minfo[t] = Missing THEN AfterLine(w)
       ELSE /\ job' = [job EXCEPT ![w].pc = "open", ![w].lines = minfo[t]]
            /\ UNCHANGED probing
    /\ IF minfo[t] = Missing \/ Emptied(t) THEN Lapses(t, {"minfo"}) ELSE UNCHANGED lapse
    /\ UNCHANGED <<stub, minfo, tracks>>

OpenMinfo(w) ==
    LET t == job[w].title IN
    /\ job[w].pc = "open"
    /\ IF Folder(t) THEN minfo' = [minfo EXCEPT ![t] = {}] /\ Goes(w, "write")
                         /\ UNCHANGED probing
                    ELSE UNCHANGED minfo /\ AfterLine(w)
    /\ UNCHANGED <<stub, tracks, lapse>>

(* Faulty variant: the lines that were there are not written again.        *)
WriteOneLine(w) ==
    LET t == job[w].title IN
    /\ job[w].pc = "write"
    /\ minfo' = IF minfo[t] = Missing THEN minfo ELSE [minfo EXCEPT ![t] = {job[w].line}]
    /\ AfterLine(w)
    /\ UNCHANGED <<stub, tracks, lapse>>

(* The text goes over what another has written since, and a longer text's  *)
(* end may stay behind it.  A file unlinked meanwhile is gone.             *)
WriteLines(w) ==
    LET t == job[w].title IN
    /\ job[w].pc = "write"
    /\ \E end \in IF minfo[t] = Missing THEN {{}} ELSE SUBSET minfo[t] :
          minfo' = IF minfo[t] = Missing THEN minfo
                   ELSE [minfo EXCEPT ![t] = job[w].lines \cup {job[w].line} \cup end]
    /\ AfterLine(w)
    /\ UNCHANGED <<stub, tracks, lapse>>

WriteStub(w) ==
    LET t == job[w].title IN
    /\ job[w].pc = "stub"
    /\ stub' = IF Folder(t) THEN [stub EXCEPT ![t] = "probed"] ELSE stub
    /\ Prefers(w)
    /\ UNCHANGED <<minfo, tracks, lapse>>

(***************************************************************************)
(* The other writers                                                       *)
(***************************************************************************)

(* _write_spore_stubs: a stub without tracks, then a .minfo; called for a  *)
(* new title and by backfill_spore_stubs.                                  *)
WriteSporeStubs(t) ==
    /\ job["backfill"].pc = "idle" /\ (stub[t] = "none" \/ minfo[t] = Missing)
    /\ stub' = [stub EXCEPT ![t] = IF @ = "none" THEN "plain" ELSE @]
    /\ job' = [job EXCEPT !["backfill"] = [NoJob EXCEPT !.pc = "minfo", !.title = t,
                                                        !.line = "token"]]
    /\ UNCHANGED <<minfo, tracks, probing, lapse>>

WriteMinfo ==
    /\ job["backfill"].pc = "minfo"
    /\ IF minfo[job["backfill"].title] = Missing THEN Goes("backfill", "open")
                                                 ELSE Ends("backfill")
    /\ UNCHANGED <<stub, minfo, tracks, probing, lapse>>

DeleteSporeStubs(t) ==
    /\ May("delete") /\ job["cleanup"].pc = "idle" /\ Folder(t)
    /\ stub' = [stub EXCEPT ![t] = "none"]
    /\ job' = [job EXCEPT !["cleanup"] = [NoJob EXCEPT !.pc = "unlink", !.title = t]]
    /\ Lapses(t, {"stub", "minfo"})
    /\ UNCHANGED <<minfo, tracks, probing>>

UnlinkMinfo ==
    /\ job["cleanup"].pc = "unlink" /\ Ends("cleanup")
    /\ minfo' = [minfo EXCEPT ![job["cleanup"].title] = Missing]
    /\ UNCHANGED <<stub, tracks, probing, lapse>>

(* regenerate_spore_stubs: from the tracks that were saved when it looked. *)
Regenerate(t) ==
    /\ May("regenerate") /\ job["regenerate"].pc = "idle"
    /\ job' = [job EXCEPT !["regenerate"] = [NoJob EXCEPT !.pc = "rewrite", !.title = t,
                                                          !.saved = t \in tracks]]
    /\ UNCHANGED <<stub, minfo, tracks, probing, lapse>>

Rewrite ==
    LET t     == job["regenerate"].title
        saved == job["regenerate"].saved
    IN  /\ job["regenerate"].pc = "rewrite" /\ Ends("regenerate")
        /\ stub' = IF Folder(t) THEN [stub EXCEPT ![t] = IF saved THEN "probed" ELSE "plain"]
                   ELSE stub
        /\ IF saved # (t \in tracks) THEN Lapses(t, {"stub"})
           ELSE lapse' = IF Folder(t) THEN [lapse EXCEPT ![t] = @ \ {"stub"}] ELSE lapse
        /\ UNCHANGED <<minfo, tracks, probing>>

(* The server's process is restarted; the media server's goes on.          *)
Restart ==
    /\ May("restart") /\ (builders # [t \in Titles |-> 0] \/ \E w \in Workers : job[w].pc # "idle")
    /\ job' = [w \in Workers |-> NoJob] /\ probing' = {}
    /\ lapse' = [t \in Titles |-> lapse[t] \cup IF BusyOn(t) = {} THEN {}
                                                ELSE {"stub", "minfo"}]
    /\ hc' = [c \in Clients |-> [hc[c] EXCEPT !.pc = "idle"]]
    /\ cold' = {} /\ builders' = [t \in Titles |-> 0]
    /\ url' = [t \in Titles |-> "none"]
    /\ UNCHANGED <<clientVars, rel, fsh, got, past, setup, stub, minfo, tracks>>

StubStep ==
    \/ \E w \in Probers : \/ Probe(w) \/ UpdateStub(w) \/ ReadLines(w) \/ WriteStub(w)
    \/ \E w \in Workers : OpenMinfo(w) \/ WriteLines(w)
    \/ WriteMinfo \/ UnlinkMinfo \/ Rewrite
    \/ \E t \in setup.titles : WriteSporeStubs(t) \/ DeleteSporeStubs(t) \/ Regenerate(t)

SSNext ==
    \/ \E w \in Probers : \/ \E t \in setup.titles : BuildThenProbe(w, t)
                          \/ \E c \in Clients : WarmThenProbe(w, c)
    \/ /\ \/ MediaServer
          \/ \E t \in setup.titles : Outside(t)
          \/ \E c \in Clients : \/ StreamHead(c) \/ StreamCold(c)
                                \/ \E t \in setup.titles, pos \in setup.asked :
                                      StreamStart(c, t, pos)
       /\ UNCHANGED stubVars
    \/ StubStep /\ UNCHANGED vars
    \/ Restart

SSSpec == SSInit /\ [][SSNext]_SSvars /\ Fairness

(***************************************************************************)
(* Properties                                                              *)
(***************************************************************************)

(* The bridge's tables and the stubs' files hold values of their types.    *)
SSTypeOK ==
    /\ TypeOK /\ tracks \subseteq Titles /\ probing \subseteq Titles
    /\ stub \in [Titles -> {"none", "plain", "probed"}]
    /\ minfo \in [Titles -> {Missing} \cup SUBSET {"token", "codec", "pref"}]
    /\ lapse \in [Titles -> SUBSET {"stub", "minfo"}]
    /\ job \in [Workers -> [pc: {"idle", "probe", "update", "read", "open", "write", "stub",
                                 "minfo", "unlink", "rewrite"}, title: Titles,
                            line: {"token", "codec", "pref"},
                            lines: SUBSET {"token", "codec", "pref"}, saved: BOOLEAN]]

(* Whatever order the probes of a title, a backfill and a regeneration run *)
(* in, the stub and the .minfo show in the end what the probe has saved,   *)
(* and the .minfo names the token; unless they were deleted, or missing    *)
(* when the probe came, a restart hit a probe, the tracks were saved while *)
(* the stub was being regenerated, or a .minfo was read in the moment in   *)
(* which it was empty (strm_generator.py).                                 *)
FilesShowTheProbe ==
    \A t \in Titles : BusyOn(t) = {} =>
        /\ stub[t] # "none" /\ "stub" \notin lapse[t] => (stub[t] = "probed" <=> t \in tracks)
        /\ minfo[t] # Missing /\ "minfo" \notin lapse[t] =>
              minfo[t] = {"token"} \cup (IF t \in tracks THEN {"codec"} ELSE {})
                                   \cup (IF t \in tracks \cap Fallback THEN {"pref"} ELSE {})
=============================================================================
