-------------------------- MODULE MCGatewayAccounts --------------------------
(* GatewayAccounts for TLC: names and keys are interchangeable. *)
EXTENDS GatewayAccounts

Symmetry == Permutations(Name) \cup Permutations(Key)
=============================================================================
