--------------------------- MODULE MCBlobStorage ---------------------------
(* Small instances of BlobStorage for TLC. *)
EXTENDS BlobStorage, TLC

CONSTANTS r1, r2, r3, r4, b1, b2, b3, q1, q2, n1, n2, s1, s2

\* r1 and r3 are the same tree, as an import and a restore make; r2 replaces
\* its blob by another one, r4 by a third where there is one.
MCBlobsOf == [r \in Revs |-> CASE r \in {r1, r3} -> {b1}
                                [] r = r2 -> {b2}
                                [] r = r4 -> IF b3 \in Blobs THEN {b3} ELSE {b1, b2}]

Symmetry == Permutations(Skills) \cup Permutations(Requests)
=============================================================================
