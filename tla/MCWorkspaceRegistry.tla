------------------------ MODULE MCWorkspaceRegistry ------------------------
(* Small instances of WorkspaceRegistry for TLC. *)
EXTENDS WorkspaceRefinement, TLC

CONSTANTS o1, o2, o3, c1, c2, h1, h2, u1, u2

\* The upstream's history is the line u1 -> u2.
MCForeignBefore == {<<u1, u2>>} \cap (Foreign \X Foreign)

Symmetry == Permutations(Ops) \cup Permutations(ConflictIds) \cup Permutations(Handlers)
=============================================================================
