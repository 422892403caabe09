---------------------------- MODULE MCWorkerPool ----------------------------
(* Small instances of the worker pool for TLC. *)
EXTENDS WorkerPool, TLC

Symmetry == Permutations(Workers) \cup Permutations(Tasks) \cup Permutations(Clients)
=============================================================================
