------------------------------ MODULE MCHaven ------------------------------
(* Instances of Haven for TLC: connections of a kind are interchangeable.   *)
EXTENDS Haven, TLC

Symmetry ==
  Permutations(Pubs) \cup Permutations(Escorts) \cup Permutations(Viewers)
=============================================================================
