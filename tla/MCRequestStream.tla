--------------------------- MODULE MCRequestStream ---------------------------
(* One streamed request of a pool of three accounts. *)
EXTENDS RequestStream, TLC

CONSTANTS a1, a2, a3, r1, s1

ThreePins == <<a1, a2, a3>>
ThePools == {[strategy |-> "manual", sticky |-> FALSE],
             [strategy |-> "fill-first", sticky |-> TRUE],
             [strategy |-> "round-robin", sticky |-> FALSE]}
OneSession == r1 :> s1
==============================================================================
