--------------------------- MODULE MCCommandSession ---------------------------
(* CommandSession with the definitions its configurations need. *)
EXTENDS SessionInvariant

\* Nonces are only ever compared with each other.
NonceSymmetry == Permutations(Nonce)

=============================================================================
