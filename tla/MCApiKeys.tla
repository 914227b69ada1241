----------------------------- MODULE MCApiKeys -----------------------------
(* ApiKeys on a small instance.                                            *)
EXTENDS ApiKeys, TLC

Symmetry == Permutations(Keys) \cup Permutations(Rotations) \cup Permutations(Calls) \cup Permutations(Edits)
=============================================================================
