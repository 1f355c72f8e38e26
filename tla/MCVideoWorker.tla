----------------------------- MODULE MCVideoWorker -----------------------------
(* Small instances of the workers over the queue.                          *)
EXTENDS VideoWorker, TLC

Symmetry == Permutations(Workers)
=============================================================================
