------------------------------ MODULE MCFileSync ------------------------------
(* The instances of the file synchronisation for TLC, see the cfg files. *)
EXTENDS FileSync
=============================================================================
