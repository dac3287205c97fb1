---------------------------- MODULE MCConversation ----------------------------
(* Instances of Conversation. *)
EXTENDS Conversation

\* The first answer is the long one.
Long == [n \in 1..MaxTurns |-> IF n = 1 THEN 2 ELSE 0]
==============================================================================
