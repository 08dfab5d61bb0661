------------------------ MODULE WorkspaceRefinement ------------------------
(* WorkspaceRegistry implements SharedHead. *)
EXTENDS WorkspaceRegistry

OpenSides == UNION {conflicts[c].heads : c \in Active}

OutcomeOf(o) ==
    IF operations[o] = None \/ Prepared(o) THEN "undecided" ELSE operations[o].state

Promise == INSTANCE SharedHead WITH
    Saves <- OpIds, Values <- Revs, First <- Base, Outside <- Foreign,
    value <- head, sides <- OpenSides, from <- parents,
    outcome <- [o \in OpIds |-> OutcomeOf(o)]

\* Two handlers, lost answers and retries, renames that work on what they
\* read before their transaction, restores, pruning and deletion: devices
\* cannot tell the registry from a register with one open divergence at most.
ImplementsSharedHead == Promise!Spec
=============================================================================
