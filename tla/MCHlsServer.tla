---------------------------- MODULE MCHlsServer -----------------------------
(* An instance of HlsServer for TLC.                                        *)
EXTENDS HlsServer
=============================================================================
