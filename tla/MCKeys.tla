------------------------------- MODULE MCKeys -------------------------------
(* Symmetry for the run of Keys: no private key is told from another.      *)
EXTENDS Keys, TLC

Symmetry == Permutations(Signers)

=============================================================================
