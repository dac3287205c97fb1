-------------------------- MODULE MCModelRouting --------------------------
(***************************************************************************)
(* Instances of ModelRouting for TLC: an aggregator P with two families, a *)
(* second provider Q, one profile that edits move, rename or replace.      *)
(***************************************************************************)
EXTENDS ModelRouting

CONSTANTS
  Roots  \* which compatibility stores a run starts from

MCModels == {"a1", "a2", "a3", "b1"}
MCContested == {<<"a1", "text">>}
MCOrder == <<"a1", "a2", "a3", "b1">>
MCProviderOf == [a1 |-> "P", a2 |-> "P", a3 |-> "P", b1 |-> "Q"]
MCFamilyOf == [a1 |-> "F", a2 |-> "G", a3 |-> "F", b1 |-> "F"]
MCCapsOf == [m \in MCModels |-> IF m = "a2" THEN {"reasoning"} ELSE {"tools", "reasoning"}]
MCReasoningOf ==
  [m \in MCModels |-> IF m = "a2"
     THEN [control |-> "discrete-effort", levels |-> <<"none", "low", "high">>, adaptive |-> FALSE, withTools |-> TRUE]
     ELSE [control |-> "binary", levels |-> <<>>, adaptive |-> FALSE, withTools |-> FALSE]]
MCSeed == [m \in MCModels |-> IF m \in {"a3", "b1"} THEN "VERIFIED" ELSE "EXPERIMENTAL"]
MCTierMapping == [k \in {<<"P", "G", "fable">>} |-> "a2"]
MCHelpers == [h \in {"claude-haiku-4-5"} |-> "fast"]

Base ==
  [profiles |-> [f \in {"f1"} |-> [name |-> "work", pool |-> "o1", roles |-> [primary |-> "a1", fast |-> "a2"], deny |-> {}]],
   pools |-> [o1 |-> [provider |-> "P", ready |-> TRUE], o2 |-> [provider |-> "P", ready |-> TRUE],
              o3 |-> [provider |-> "Q", ready |-> TRUE], o4 |-> [provider |-> "Q", ready |-> FALSE]],
   providers |-> [P |-> TRUE, Q |-> TRUE]]
Moved == [Base EXCEPT !.profiles["f1"].pool = "o2", !.profiles["f1"].roles = [primary |-> "a2", opus |-> "a3"],
                      !.profiles["f1"].deny = {"tools"},
                      !.pools["o3"].ready = FALSE, !.pools["o4"].ready = TRUE]
Recreated == [Base EXCEPT !.profiles = [f \in {"f2"} |-> [Base.profiles["f1"] EXCEPT !.roles = [primary |-> "a3"]]]]
MCMoves == {Base, Moved}
MCReplaced == {Base, Recreated}

Call(agent, parent, space, word, required, effort) ==
  [agent |-> agent, parent |-> parent, selector |-> [space |-> space, word |-> word],
   required |-> required, tools |-> "tools" \in required,
   reasoning |-> [thinking |-> None, effort |-> effort]]
MCSelectors ==
  {Call("main", None, "bare", "claude-haiku-4-5", {}, "high"),
   Call("main", None, "claude-rly", "b1", {}, None),
   Call("main", None, "list", "", {}, None),
   Call("sub", "main", "rly-tier", "opus", {}, None),
   Call("sub", "main", "bare", "inherit", {}, None),
   Call("leaf", "sub", "bare", "fable", {}, None)}
MCCalls == [l \in Leases |-> MCSelectors]

Whole == <<[layer |-> "A", result |-> "passed"]>>
Promotion(claim, b) == <<[decision |-> "promote", evidence |-> claim, build |-> b]>>
Store(claim, decisions, records) ==
  [claims |-> [k \in Keys |-> claim], reviews |-> [k \in Keys |-> decisions], quarantines |-> [k \in Keys |-> records]]
\* "held" was promoted, and quarantined since.
MCRoots ==
  [fresh    |-> Store(<<>>, <<>>, <<>>),
   reviewed |-> Store(Whole, Promotion(Whole, "now"), <<>>),
   held     |-> Store(Whole, Promotion(Whole, "now"), <<"active">>)]

MCInit ==
  /\ \E root \in Roots : /\ claims = MCRoots[root].claims /\ reviews = MCRoots[root].reviews
                          /\ quarantines = MCRoots[root].quarantines
  /\ policy = Base
  /\ Init

MCSpec == MCInit /\ [][Next]_vars
=============================================================================
