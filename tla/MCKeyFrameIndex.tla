-------------------------- MODULE MCKeyFrameIndex --------------------------
(* Instances of KeyFrameIndex for TLC.                                      *)
EXTENDS KeyFrameIndex
=============================================================================
