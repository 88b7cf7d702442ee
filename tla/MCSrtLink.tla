----------------------------- MODULE MCSrtLink ------------------------------
(* An instance of SrtLink for TLC.                                          *)
EXTENDS SrtLink
=============================================================================
