------------------------- MODULE MCWorkspaceSync -------------------------
(* Small instances of WorkspaceSync for TLC. *)
EXTENDS WorkspaceSync, TLC

CONSTANTS laptop, desktop, e1, e2, e3

NoneClash == {{}}
FirstTwoClash == {{{e1, e2}}}

\* Edits that overlap alike are interchangeable.
EditSymmetry == Permutations(Edits)
=============================================================================
