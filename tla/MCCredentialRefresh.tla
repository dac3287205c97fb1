------------------------ MODULE MCCredentialRefresh ------------------------
(* Two gateway processes that share one stored credential.                 *)
EXTENDS CredentialRefresh, TLC

CONSTANTS p1, p2

ProcessSymmetry == Permutations(Procs)
=============================================================================
