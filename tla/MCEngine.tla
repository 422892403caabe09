------------------------------- MODULE MCEngine -------------------------------
(* The instances of the engine for TLC: small fleets, see the cfg files. *)
EXTENDS Engine
=============================================================================
