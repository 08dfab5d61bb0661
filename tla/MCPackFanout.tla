---------------------------- MODULE MCPackFanout ----------------------------
(* Instances of PackFanout for TLC.                                        *)
EXTENDS PackFanout, TLC

CONSTANTS d1, d2, a1, a2

Symmetry == Permutations(Drains) \cup Permutations(Authors)
=============================================================================
