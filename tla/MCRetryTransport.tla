--------------------------- MODULE MCRetryTransport ---------------------------
(* Small instances of the transport for TLC. *)
EXTENDS RetryTransport, TLC
=============================================================================
