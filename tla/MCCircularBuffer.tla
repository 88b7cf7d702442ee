-------------------------- MODULE MCCircularBuffer --------------------------
(* Instances of CircularBuffer for TLC: the subscribers are interchangeable. *)
EXTENDS CircularBuffer, TLC

Symmetry == Permutations(Readers)
=============================================================================
