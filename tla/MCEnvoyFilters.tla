---------------------------- MODULE MCEnvoyFilters ----------------------------
(* Small instances of EnvoyFilters for TLC. *)
EXTENDS EnvoyFilters, TLC

Symmetry == Permutations(Envs) \cup Permutations(Versions) \cup Permutations(Triggers)
=============================================================================
