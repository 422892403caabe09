------------------------------- MODULE MCStream -------------------------------
(* Small instances of the paginated stream for TLC. *)
EXTENDS Stream
=============================================================================
