------------------------------ MODULE MCSpore ------------------------------
(* Small instances of the Plex bridge for TLC.                             *)
EXTENDS SporeStubs, TLC
CONSTANTS t1, t2, s1, s2, movie, clip

(* Each thread has a slot of its own, or both have the same one, as the    *)
(* threads of glibc do whose stacks are aligned to pages.                  *)
OwnSlot    == [t \in Threads |-> IF t = t1 THEN s1 ELSE s2]
SharedSlot == [t \in Threads |-> s1]

(* The movie: two releases, of two and of three boxes, moov last.  The     *)
(* clip is fast already.                                                   *)
MCMedia == (movie :> <<<<Box("ftyp", 1), Box("mdat", 2), Box("moov", 1)>>,
                       <<Box("ftyp", 1), Box("mdat", 1), Box("moov", 1), Box("mdat", 1)>>>>)
           @@ (clip :> <<<<Box("ftyp", 1), Box("moov", 1), Box("mdat", 1)>>>>)

Setup(ops, events, cached, fds) ==
    [ops |-> ops, events |-> events, cached |-> cached, titles |-> {movie},
     asked |-> Targets, fds |-> fds, slots |-> SharedSlot]

Table   == Setup({"dup", "dup2"}, {"empty"}, FALSE, 3)
Apart   == [Table EXCEPT !.slots = OwnSlot]
Raw     == Setup({"read", "pread"}, {"expire", "fail"}, FALSE, 1)
Dups    == Setup({"read", "dup"}, {}, FALSE, 2)
Cached  == Setup({"read", "seek"}, {}, TRUE, 1)
Failing == Setup({"read"}, {"expire", "fail"}, TRUE, 1)
Sending == Setup({"send", "read"}, {"expire"}, FALSE, 1)
Http    == Setup({"http"}, {"build", "expire", "upgrade"}, FALSE, 1)
Losing  == Setup({"http"}, {"build", "fail"}, FALSE, 1)
Warm    == Setup({"http"}, {"upgrade"}, TRUE, 1)

(* One request of each transcoder while the stubs' files are written, for  *)
(* a film that is probed twice or has no files, and for a clip.            *)
Probing  == [Setup({"http"}, {"build", "probe", "regenerate", "restart"}, FALSE, 1)
                EXCEPT !.asked = {0}]
Unmade   == [Setup({"http"}, {"build", "probe", "missing"}, FALSE, 1) EXCEPT !.asked = {}]
FastClip == [Probing EXCEPT !.events = {"probe", "delete", "regenerate", "restart"},
                            !.titles = {clip}, !.cached = TRUE]

MCSetups == {Table, Apart, Raw, Dups, Cached, Failing, Sending, Http, Losing, Warm,
             Probing, Unmade, FastClip}

(* The layouts these files get are right, and so is that of every file of  *)
(* up to five boxes that begins with an ftyp box which is fetched whole.   *)
ASSUME MCLayouts == LayoutsRight

MCBoxes == {Box(type, size) : type \in {"free", "mdat", "moov"}, size \in 1..2}
ASSUME SmallLayouts ==
    \A rest \in UNION {[1..n -> MCBoxes] : n \in 0..4} :
        LET file == <<Box("ftyp", FtypFetch)>> \o rest IN LaidOut(file, Info(file))
=============================================================================
