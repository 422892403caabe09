--------------------------- MODULE MCParallelMap ---------------------------
(* Small instances of ParallelMap for TLC. *)
EXTENDS ParallelMap

MCTasks == 1..N
=============================================================================
