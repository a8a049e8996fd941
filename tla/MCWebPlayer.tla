---------------------------- MODULE MCWebPlayer ----------------------------
(* Small instances of the web player for TLC.                              *)
EXTENDS WebPlayer
CONSTANTS sdr, hdr, big

MCRankings == {<<hdr, sdr>>, <<big>>}
=============================================================================
