------------------------------ MODULE MCCatbox ------------------------------
(* Instances of Catbox for TLC.                                            *)
EXTENDS Catbox, TLC

CONSTANTS e1, e2, h1, h2

(* Two episodes of one season: the second is the larger file and follows   *)
(* the first; only the first release names its files.                      *)
LargestIsLast == [h \in Hashes |-> e2]
NamesInFirst == [h \in Hashes |-> IF h = h1 THEN Tokens ELSE {}]
Episodes == [t \in Tokens |-> IF t = e1 THEN e2 ELSE None]

(* A movie: one token, its file the largest.                               *)
LargestIsMovie == [h \in Hashes |-> CHOOSE t \in Tokens : TRUE]
NamesMovie == [h \in Hashes |-> Tokens]
NoEpisode == [t \in Tokens |-> None]

Symmetry == Permutations(Players) \cup Permutations(Hashes)
=============================================================================
