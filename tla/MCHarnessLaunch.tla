--------------------------- MODULE MCHarnessLaunch ---------------------------
(* Two launches of one profile, before and after the move of the overlay. *)
EXTENDS HarnessLaunch, TLC

CONSTANTS l1, l2

SameLaunches == Permutations({l1, l2})

OneProfile == [l \in {l1, l2} |-> "p"]
OneDefault == l1 :> "default" @@ l2 :> "default"
ProfileAndDefault == l1 :> "p" @@ l2 :> "default"

\* The overlay of an older release, and a new installation.
NoHome == <<>>
Shared == [dirs |-> {<<"claude">>}, home |-> <<"claude">>]
New == [dirs |-> {}, home |-> NoHome]
NewOrShared == {New, Shared}
OnlyShared == {Shared}
OnlyNew == {New}
Removals == {<<s, "absent">> : s \in Surfaces} \cup {<<"agent", "v2">>}
AllEdits == Surfaces \X {"v1", "v2", "absent"}
=============================================================================
