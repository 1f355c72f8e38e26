------------------------------- MODULE MCVideoApi -------------------------------
(* Small instances of the API handlers over the queue.                     *)
EXTENDS VideoApi, TLC

Symmetry == Permutations(Workers) \cup Permutations(Keys)
=============================================================================
