------------------------------ MODULE MCPairing ------------------------------
(* Pairing for TLC: devices and nonces are interchangeable. *)
EXTENDS Pairing, TLC

Symmetry == Permutations(Device) \cup Permutations(Nonce)
=============================================================================
