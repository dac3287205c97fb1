----------------------------- MODULE MCStorage -----------------------------
(***************************************************************************)
(* Instances of Storage for TLC.                                           *)
(***************************************************************************)
EXTENDS Storage

CONSTANTS p1, p2

\* An older release still serves while a newer one is first started.
OldAndNew == [p \in Procs |-> IF p = p1 THEN 1 ELSE 2]

\* No state, a current root, a legacy root, or both.
AnyRoots == SUBSET {"canonical", "legacy"}
=============================================================================
