------------------------ MODULE MCCreateTorrentQuota ------------------------
(* Instances of CreateTorrentQuota for TLC, and the faulty variants of its *)
(* definitions that the runs must tell apart from the code.                *)
EXTENDS CreateTorrentQuota, TLC

Symmetry == Permutations(Workers)
=============================================================================
