------------------------- MODULE MCSubscriptionSync -------------------------
(* Instances of SubscriptionSync for TLC: two processes, the command line    *)
(* and the background service; releases of one name, or the second a rename. *)
EXTENDS SubscriptionSync, TLC

CONSTANTS cli, service

Symmetry == Permutations(Procs)

OneName == [r \in Revs |-> "first"]
SecondRenames == [r \in Revs |-> IF r = 1 THEN "first" ELSE "second"]
=============================================================================
