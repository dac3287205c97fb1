------------------------- MODULE MCUpdateTransaction -------------------------
(* Small instances of UpdateTransaction: two or three deployments, of which *)
(* two share a semantic version.                                            *)
EXTENDS UpdateTransaction, TLC

CONSTANTS a1, a2, a3

TwoVersions == {1, 2}

\* Byte-distinct deployments a1 and a2 of one version, and a newer a3.
SharedVersion == [a \in Artifacts |-> IF a = a3 THEN 2 ELSE 1]

\* a1 and a2 differ in nothing the specification reads.
SameVersionSymmetry == Permutations({a1, a2})
=============================================================================
