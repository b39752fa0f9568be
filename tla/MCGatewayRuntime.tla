-------------------------- MODULE MCGatewayRuntime --------------------------
(* Instances of GatewayRuntime for TLC. *)
EXTENDS GatewayRuntime, TLC

Symmetry == Permutations(Conn) \cup Permutations(Caller)
=============================================================================
