---------------------------- MODULE MCManagement ----------------------------
(***************************************************************************)
(* Instances of Management for TLC.                                        *)
(***************************************************************************)
EXTENDS Management

CONSTANTS pr1, a1, t1, t2

\* A configured store: a provider with an account, a pool of it and a profile.
\* The other ids are free.
MCInit ==
  /\ tables = [providers |-> [p \in Providers |-> IF p = pr1
                               THEN [version |-> 1, terms |-> None, enabled |-> TRUE] ELSE NoRow],
               accounts |-> [a \in Accounts |-> IF a = a1
                              THEN [version |-> 1, provider |-> pr1, state |-> "ready",
                                    generation |-> 0, cooling |-> FALSE, acknowledged |-> None]
                              ELSE NoRow],
               pools |-> [o \in Pools |-> [version |-> 1, provider |-> pr1, members |-> <<a1>>]],
               profiles |-> [f \in Profiles |-> [version |-> 1, provider |-> pr1, pool |-> "o1"]],
               health |-> [a \in Accounts |-> [failures |-> 0, cooling |-> FALSE]]]
  /\ policy = [revision |-> 4, snapshot |-> Snapshot(tables)]
  /\ audit = [ok |-> 0, rejected |-> 0]
  /\ InitSessions

MCSpec == MCInit /\ [][Next]_vars

SameTabs == Permutations({t1, t2})
=============================================================================
