----------------------------- MODULE Switchover -----------------------------
(***************************************************************************)
(* What `rly update` promises of the active reference, whatever fails or   *)
(* crashes: an activation takes effect whole or not at all.  The reference *)
(* moves to the candidate only in an activation that is open, the          *)
(* activation ends with the candidate active, or, once it turned back,     *)
(* with the deployment it started from, and where neither can be had       *)
(* nothing moves any more.                                                 *)
(***************************************************************************)
CONSTANTS Artifacts, NoArtifact

VARIABLES
  active,   \* the deployment that is booted
  mode,     \* no activation, one going forward, one turned back, or given up
  target,   \* the candidate of the activation
  origin    \* the deployment it started from, NoArtifact when none is known

vars == <<active, mode, target, origin>>

References == Artifacts \cup {NoArtifact}

\* A home of an older release may have been left turned back.
Init ==
  /\ active \in References
  /\ mode \in {"none", "back"}
  /\ target \in References /\ origin \in References

\* Candidates are staged, refused and replaced, and nothing is activated.
Prepare ==
  /\ mode = "none"
  /\ target' \in References /\ origin' \in References
  /\ UNCHANGED <<active, mode>>

Begin ==
  /\ mode = "none" /\ origin \in {active, NoArtifact}
  /\ mode' = "forward"
  /\ UNCHANGED <<active, target, origin>>

Switch ==
  /\ mode = "forward"
  /\ active' = target
  /\ UNCHANGED <<mode, target, origin>>

Commit ==
  /\ mode = "forward" /\ active = target
  /\ mode' = "none"
  /\ UNCHANGED <<active, target, origin>>

TurnBack ==
  /\ mode = "forward"
  /\ mode' = "back"
  /\ UNCHANGED <<active, target, origin>>

Restore ==
  /\ mode = "back"
  /\ active' \in IF origin = NoArtifact THEN References ELSE {origin}
  /\ UNCHANGED <<mode, target, origin>>

RollBack ==
  /\ mode = "back" /\ origin \in {active, NoArtifact}
  /\ mode' = "none"
  /\ UNCHANGED <<active, target, origin>>

GiveUp ==
  /\ mode = "back"
  /\ mode' = "given-up"
  /\ UNCHANGED <<active, target, origin>>

Next ==
  \/ Prepare \/ Begin \/ Switch \/ Commit
  \/ TurnBack \/ Restore \/ RollBack \/ GiveUp

Spec == Init /\ [][Next]_vars
=============================================================================
