-------------------------- MODULE MCCredentialLogin --------------------------
(* Instances of CredentialLogin. *)
EXTENDS CredentialLogin

CONSTANTS codex, gemini, n1
==============================================================================
