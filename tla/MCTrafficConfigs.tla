--------------------------- MODULE MCTrafficConfigs ---------------------------
(* Small instances of TrafficConfigs for TLC. *)
EXTENDS TrafficConfigs, TLC

CONSTANTS c1, c2

ClusterSymmetry == Permutations({c1, c2})
=============================================================================
