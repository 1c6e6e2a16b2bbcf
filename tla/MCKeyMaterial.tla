----------------------------- MODULE MCKeyMaterial -----------------------------
(* KeyMaterial for TLC: processes and generations are interchangeable. *)
EXTENDS KeyMaterial, TLC

Symmetry == Permutations(Procs) \cup Permutations(Generations)

=============================================================================
