----------------------------- MODULE FastStart -----------------------------
(***************************************************************************)
(* The fast-start layout of src/mp4_faststart.py, as operators.  A file at *)
(* the CDN is a sequence of boxes [type, size]; a byte is the address it   *)
(* has there.  build_and_cache keeps ftyp and moov (the header), and       *)
(* serve_bytes serves a virtual file in which moov comes second.           *)
(***************************************************************************)
EXTENDS Integers, Sequences, SequencesExt, FiniteSetsExt

CONSTANTS
    FtypFetch,    \* bytes fetched for ftyp, the first box (64)
    OffsetLimit   \* one more than the largest chunk offset stco holds (2^32)

ASSUME FastStartConstants == FtypFetch \in Nat /\ OffsetLimit \in Nat

Box(type, size) == [type |-> type, size |-> size]

(* Where the i-th box of a file begins, and the file's size.               *)
StartOf(file, i) == MapThenSumSet(LAMBDA j : file[j].size, 1..(i - 1))
SizeOf(file)     == StartOf(file, Len(file) + 1)

(* _locate_moov walks the box headers; the last eight bytes of a file (one *)
(* unit here) are not looked at.                                           *)
MoovBoxes(file)  == {i \in DOMAIN file : file[i].type = "moov"
                                         /\ StartOf(file, i) < SizeOf(file)}

(* The addresses chunk tables name: the data of every mdat box.            *)
Chunks(file) == {StartOf(file, i) : i \in {j \in DOMAIN file : file[j].type = "mdat"}}

(* _rewrite_offsets adds the size of moov to every chunk offset.           *)
Rewritten(info, chunk) == chunk + info.moov

NoMoov(size) == [ftyp |-> 0, moov |-> 0, at |-> 0, size |-> size, header |-> <<>>]

(* build_and_cache: what it stores.  Without moov, or with moov right after *)
(* ftyp, a sentinel with an empty header.                                  *)
Info(file) ==
    LET ftyp == file[1].size
        size == SizeOf(file)
    IN  IF MoovBoxes(file) = {}
        THEN NoMoov(size)
        ELSE LET m  == Min(MoovBoxes(file))
                 at == StartOf(file, m)
                 n  == file[m].size
             IN  IF at = ftyp
                 THEN [ftyp |-> ftyp, moov |-> 0, at |-> at, size |-> size,
                       header |-> <<>>]
                 ELSE [ftyp |-> ftyp, moov |-> n, at |-> at, size |-> size,
                       header |-> [i \in 1..Min({ftyp, FtypFetch}) |-> i - 1]
                                  \o [i \in 1..n |-> at + i - 1]]

(* Packing a chunk offset that no longer fits fails the whole build.       *)
BuildFails(file) ==
    LET info == Info(file) IN
    info.moov > 0 /\ \E c \in Chunks(file) : Rewritten(info, c) >= OffsetLimit

AlreadyFast(info) == info.moov = 0

(* _get: the bytes first..last of a file of that size, as far as it goes.  *)
Fetch(size, first, last) ==
    [i \in 1..Max({0, Min({last, size - 1}) - first + 1}) |-> first + i - 1]

(* Faulty variant: mdat is served from its address in the virtual file.    *)
ServeBytesUnshifted(info, size, first, last) ==
    LET hdr == Len(info.header)
        p   == IF first < hdr THEN Min({last, hdr - 1}) + 1 ELSE first
    IN  (IF first < hdr THEN SubSeq(info.header, first + 1, p) ELSE <<>>)
        \o Fetch(size, p, last)

(* serve_bytes: the cached header, then the data that stood before moov,   *)
(* then the data behind it, which keeps its address.                       *)
ServeBytes(info, size, first, last) ==
    LET hdr   == Len(info.header)
        mdat2 == info.at + info.moov
        p1    == IF first < hdr THEN Min({last, hdr - 1}) + 1 ELSE first
        two   == p1 <= last /\ p1 < mdat2
        p2    == IF two THEN Min({last, mdat2 - 1}) + 1 ELSE p1
    IN  (IF first < hdr THEN SubSeq(info.header, first + 1, p1) ELSE <<>>)
        \o (IF two THEN Fetch(size, p1 - info.moov, p2 - 1 - info.moov) ELSE <<>>)
        \o (IF p2 <= last THEN Fetch(size, p2, last) ELSE <<>>)

(* The virtual file as the module's comment draws it: ftyp, moov, and the  *)
(* rest in its order (the file itself when there is no moov).              *)
Virtual(file) ==
    LET bytes(i) == [j \in 1..file[i].size |-> StartOf(file, i) + j - 1]
        moov     == IF MoovBoxes(file) = {} THEN 1 ELSE Min(MoovBoxes(file))
        rest     == SetToSortSeq(DOMAIN file \ {1, moov}, <)
    IN  bytes(1) \o (IF moov = 1 THEN <<>> ELSE bytes(moov))
        \o FlattenSeq([k \in DOMAIN rest |-> bytes(rest[k])])
=============================================================================
