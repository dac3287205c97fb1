---------------------------- MODULE ControlPlane ----------------------------
(***************************************************************************)
(* The control-plane store (control-plane/store.ts, repository.ts): the    *)
(* tables of providers, accounts, pools and profiles, every mutation as    *)
(* one transaction with an optimistic version check, the policy revision   *)
(* each one publishes and the audit event each one leaves.                 *)
(*                                                                         *)
(* A row is a record with its version; version 0 is "no such row".  Ids    *)
(* stand for names too: both are unique.  Free text, time stamps and JSON  *)
(* columns are left out.                                                   *)
(***************************************************************************)
EXTENDS Naturals, Sequences, SequencesExt, FiniteSets

CONSTANTS
  Providers, Accounts, Pools, Profiles,   \* ids
  Terms,       \* terms revisions
  MaxChanges   \* bound: mutations attempted

ASSUME ChangesAssumption == MaxChanges \in Nat

VARIABLES
  tables,   \* the four tables and health
  policy,   \* the newest policy revision: its number and snapshot
  audit     \* how many mutations were audited as ok and as rejected

storeVars == <<tables, policy, audit>>

None == "none"
NoRow == [version |-> 0]
Exists(table, id) == tables[table][id].version > 0

\* The rows of the schema, without names, free text and time stamps.
ProviderRow == [version : Nat \ {0}, terms : Terms \cup {None}, enabled : BOOLEAN]
AccountRow == [version : Nat \ {0}, provider : Providers,
               state : {"ready", "paused", "unready", "revoked"}, generation : Nat,
               cooling : BOOLEAN, acknowledged : Terms \cup {None}]
PoolRow == [version : Nat \ {0}, provider : Providers, members : Seq(Accounts)]
ProfileRow == [version : Nat \ {0}, provider : Providers \cup {None}, pool : Pools \cup {None}]
HealthRow == [failures : Nat, cooling : BOOLEAN]
Tables == [providers : [Providers -> ProviderRow \cup {NoRow}],
           accounts : [Accounts -> AccountRow \cup {NoRow}],
           pools : [Pools -> PoolRow \cup {NoRow}],
           profiles : [Profiles -> ProfileRow \cup {NoRow}],
           health : [Accounts -> HealthRow]]

StoreTypeOK ==
  /\ tables \in Tables
  /\ policy.revision \in Nat
  /\ audit \in [ok : 0..MaxChanges, rejected : 0..MaxChanges]

\* What a policy revision is compiled from: every list, without health.
Snapshot(t) ==
  [providers |-> t.providers, accounts |-> t.accounts, pools |-> t.pools, profiles |-> t.profiles]

\* A new store: its tables are empty, and no policy revision says anything else.
InitStore ==
  /\ tables = [providers |-> [p \in Providers |-> NoRow], accounts |-> [a \in Accounts |-> NoRow],
               pools |-> [o \in Pools |-> NoRow], profiles |-> [f \in Profiles |-> NoRow],
               health |-> [a \in Accounts |-> [failures |-> 0, cooling |-> FALSE]]]
  /\ policy = [revision |-> 0, snapshot |-> Snapshot(tables)]
  /\ audit = [ok |-> 0, rejected |-> 0]

\* UPDATE ... WHERE id = ? AND version = ?: the next row has the next version.
Replace(table, id, row) ==
  [tables EXCEPT ![table][id] = [row EXCEPT !.version = tables[table][id].version + 1]]

-----------------------------------------------------------------------------
(* The work of each mutation: the set holding the tables it leaves, or the *)
(* empty set when it throws.                                               *)

CreateProvider(q) ==
  {[tables EXCEPT !.providers[q.id] = [version |-> 1, terms |-> q.terms, enabled |-> TRUE]] :
     x \in {q.id} \ {id \in Providers : Exists("providers", id)}}

UpdateProvider(q) ==
  {Replace("providers", q.id, [tables.providers[q.id] EXCEPT !.terms = q.terms, !.enabled = q.enabled])}

\* An account starts with generation 0 and a health row.
CreateAccount(q) ==
  {[tables EXCEPT
      !.accounts[q.id] = [version |-> 1, provider |-> q.provider, state |-> q.state,
                          generation |-> 0, cooling |-> FALSE, acknowledged |-> None],
      !.health[q.id] = [failures |-> 0, cooling |-> FALSE]] :
     x \in {q.provider : y \in {q.id} \ {id \in Accounts : Exists("accounts", id)}}
             \cap {pr \in Providers : Exists("providers", pr)}}

UpdateAccount(q) ==
  {Replace("accounts", q.id, [tables.accounts[q.id] EXCEPT !.state = q.state])}

BindCredential(q) ==
  {Replace("accounts", q.id,
     [tables.accounts[q.id] EXCEPT !.generation = q.generation, !.state = q.state])}

\* The provider's requirement, if it has one, is the revision acknowledged.
AcknowledgeTerms(q) ==
  LET required == tables.providers[tables.accounts[q.id].provider].terms
  IN {Replace("accounts", q.id, [tables.accounts[q.id] EXCEPT !.acknowledged = q.terms]) :
        x \in {q.terms} \cap (IF required = None THEN Terms ELSE {required})}

\* Members are distinct existing accounts of the pool's provider.
ValidMembers(provider, members) ==
  /\ IsInjective(members)
  /\ \A a \in ToSet(members) :
       Exists("accounts", a) /\ tables.accounts[a].provider = provider

CreatePool(q) ==
  {[tables EXCEPT !.pools[q.id] = [version |-> 1, provider |-> q.provider, members |-> q.members]] :
     x \in {y \in {q.provider} : /\ ~Exists("pools", q.id) /\ Exists("providers", y)
                                 /\ ValidMembers(y, q.members)}}

\* The provider of a pool never changes.
UpdatePool(q) ==
  {Replace("pools", q.id, [tables.pools[q.id] EXCEPT !.members = q.members]) :
     x \in {y \in {tables.pools[q.id].provider} : ValidMembers(y, q.members)}}

\* A profile names a provider or a pool, both exist, and the pool it names is
\* the provider's.
AssertProfileRefs(provider, pool) ==
  /\ provider # None \/ pool # None
  /\ provider # None => Exists("providers", provider)
  /\ pool # None => Exists("pools", pool)
  /\ provider # None /\ pool # None => tables.pools[pool].provider = provider

CreateProfile(q) ==
  {[tables EXCEPT !.profiles[q.id] = [version |-> 1, provider |-> q.provider, pool |-> q.pool]] :
     x \in {y \in {q.id} : ~Exists("profiles", y) /\ AssertProfileRefs(q.provider, q.pool)}}

BugUpdateProfile(q) ==
  LET current == tables.profiles[q.id]
  IN {Replace("profiles", q.id, [current EXCEPT
        !.provider = IF q.provider = None THEN @ ELSE q.provider,
        !.pool = IF q.pool = None THEN @ ELSE q.pool]) :
        x \in {y \in {q.id} : AssertProfileRefs(q.provider, q.pool)}}

\* A reference that is not given keeps its value; the merged pair is checked.
UpdateProfile(q) ==
  LET current == tables.profiles[q.id]
      provider == IF q.provider = None THEN current.provider ELSE q.provider
      pool == IF q.pool = None THEN current.pool ELSE q.pool
  IN {Replace("profiles", q.id, [current EXCEPT !.provider = provider, !.pool = pool]) :
        x \in {y \in {q.id} : AssertProfileRefs(provider, pool)}}

Work(q) ==
  CASE q.op = "provider.create" -> CreateProvider(q)
    [] q.op = "provider.update" -> UpdateProvider(q)
    [] q.op = "account.create" -> CreateAccount(q)
    [] q.op = "account.update" -> UpdateAccount(q)
    [] q.op = "account.bind-credential" -> BindCredential(q)
    [] q.op = "account.acknowledge-terms" -> AcknowledgeTerms(q)
    [] q.op = "pool.create" -> CreatePool(q)
    [] q.op = "pool.update" -> UpdatePool(q)
    [] q.op = "profile.create" -> CreateProfile(q)
    [] q.op = "profile.update" -> UpdateProfile(q)

\* A request that names a version is refused unless the row still has it.
AssertCurrentVersion(q) ==
  "version" \in DOMAIN q => tables[q.table][q.id].version = q.version

Accepted(q) == AssertCurrentVersion(q) /\ Work(q) # {}

BugMutate(q) ==
  /\ audit.ok + audit.rejected < MaxChanges
  /\ IF Accepted(q)
     THEN /\ tables' \in Work(q)
          /\ policy' = [revision |-> policy.revision + 1, snapshot |-> Snapshot(tables)]
          /\ audit' = [audit EXCEPT !.ok = @ + 1]
     ELSE audit' = [audit EXCEPT !.rejected = @ + 1] /\ UNCHANGED <<tables, policy>>

\* One mutation: the version check, the work, the policy revision and the
\* audit event commit together; a failure rolls all of it back and is audited
\* as rejected.
Mutate(q) ==
  /\ audit.ok + audit.rejected < MaxChanges
  /\ IF Accepted(q)
     THEN /\ tables' \in Work(q)
          /\ policy' = [revision |-> policy.revision + 1, snapshot |-> Snapshot(tables')]
          /\ audit' = [audit EXCEPT !.ok = @ + 1]
     ELSE audit' = [audit EXCEPT !.rejected = @ + 1] /\ UNCHANGED <<tables, policy>>

BugRecordRouteOutcome(a, success, cool) ==
  /\ audit.ok + audit.rejected < MaxChanges
  /\ Exists("accounts", a)
  /\ LET cooling == IF success THEN FALSE ELSE cool
     IN tables' = [tables EXCEPT
          !.accounts[a].cooling = cooling,
          !.health[a] = [failures |-> IF success THEN 0 ELSE @.failures + 1, cooling |-> cooling]]
  /\ audit' = [audit EXCEPT !.ok = @ + 1]
  /\ UNCHANGED policy

\* A request's outcome reaches the account and its health without a new policy
\* revision, and under whatever version the account has.
RecordRouteOutcome(a, success, cool) ==
  /\ audit.ok + audit.rejected < MaxChanges
  /\ Exists("accounts", a)
  /\ LET cooling == IF success THEN FALSE ELSE cool
     IN tables' = [Replace("accounts", a, [tables.accounts[a] EXCEPT !.cooling = cooling])
          EXCEPT !.health[a] = [failures |-> IF success THEN 0 ELSE @.failures + 1,
                                cooling |-> cooling]]
  /\ audit' = [audit EXCEPT !.ok = @ + 1]
  /\ UNCHANGED policy

-----------------------------------------------------------------------------
\* Every pool's members are of its provider, and a profile that names both a
\* provider and a pool names a pool of that provider, whatever order providers,
\* pools and profiles were created and repointed in.
ReferencesAgree ==
  /\ \A o \in Pools : Exists("pools", o) => ValidMembers(tables.pools[o].provider, tables.pools[o].members)
  /\ \A f \in Profiles : Exists("profiles", f) =>
       AssertProfileRefs(tables.profiles[f].provider, tables.profiles[f].pool)

\* The newest policy revision says what the tables say, except for what route
\* outcomes have changed since: cooldowns and the versions they moved.
Settled(accounts) ==
  [a \in Accounts |-> IF accounts[a].version = 0 THEN NoRow
                      ELSE [accounts[a] EXCEPT !.cooling = FALSE, !.version = 1]]
PolicyIsCurrent ==
  LET now == Snapshot(tables) IN
  [policy.snapshot EXCEPT !.accounts = Settled(@)] = [now EXCEPT !.accounts = Settled(@)]
=============================================================================
