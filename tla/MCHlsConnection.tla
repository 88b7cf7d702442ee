-------------------------- MODULE MCHlsConnection --------------------------
(* Instances of HlsConnection for TLC.                                      *)
EXTENDS HlsConnection
=============================================================================
