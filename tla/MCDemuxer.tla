----------------------------- MODULE MCDemuxer -----------------------------
(* Instances of Demuxer for TLC.                                            *)
EXTENDS Demuxer
=============================================================================
