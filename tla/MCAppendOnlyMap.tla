--------------------------- MODULE MCAppendOnlyMap ---------------------------
(* Symmetry for the runs of AppendOnlyMap. *)
EXTENDS AppendOnlyMap, TLC

Symmetry == Permutations(Keys) \cup Permutations(Values) \cup Permutations(Readers)

=============================================================================
