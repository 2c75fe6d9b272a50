---------------------------- MODULE MCController ----------------------------
(* Small instances of Controller for TLC. *)
EXTENDS Controller, TLC

Symmetry == Permutations(Events) \cup Permutations(Workers)
=============================================================================
