---------------------------- MODULE MCPoolRouting ----------------------------
(* A pool of two accounts shared by two requests of different sessions. *)
EXTENDS PoolRouting, TLC

CONSTANTS a1, a2, r1, r2, s1, s2

TwoPins == <<a1, a2>>
ThePools == {[strategy |-> "round-robin", sticky |-> TRUE]}
OwnSession == (r1 :> s1) @@ (r2 :> s2)

\* The two requests are alike, each taken with its session.
Alike == {f \in Permutations({r1, r2, s1, s2}) :
            \A r \in {r1, r2} : f[r] \in {r1, r2} /\ f[OwnSession[r]] = OwnSession[f[r]]}

\* What became of an attempt is read by no step and by no property of this run.
AccountsTried(r) == [i \in DOMAIN attempts[r] |-> attempts[r][i].account]
View == <<pool, accounts, selector, req, out, [r \in Requests |-> AccountsTried(r)]>>
==============================================================================
