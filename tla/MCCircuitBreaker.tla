-------------------------- MODULE MCCircuitBreaker --------------------------
(***************************************************************************)
(* Small instances of CircuitBreaker for TLC, with the clients around it.  *)
(***************************************************************************)
EXTENDS Connector
=============================================================================
