-------------------------- MODULE Management_proofs --------------------------
(***************************************************************************)
(* Theorems about the control-plane store and its writers, for every set   *)
(* of ids, of tabs and of terms and every bound: the rows agree with each  *)
(* other, the policy says what they say, and no accepted update overwrites *)
(* a change its author has not seen.                                       *)
(***************************************************************************)
EXTENDS Management, TLAPS

-----------------------------------------------------------------------------
(* One row written in one table.                                           *)

\* Writing a provider touches nothing else.
LEMMA ProviderWritten ==
  ASSUME tables \in Tables, NEW id \in Providers, NEW row \in ProviderRow,
         tables' = [tables EXCEPT !.providers[id] = row]
  PROVE  /\ tables' \in Tables
         /\ tables'.providers = [tables.providers EXCEPT ![id] = row]
         /\ tables'.accounts = tables.accounts /\ tables'.pools = tables.pools
         /\ tables'.profiles = tables.profiles /\ tables'.health = tables.health
  BY DEF Tables

\* Writing an account touches nothing but, on creation, its health.
LEMMA AccountWritten ==
  ASSUME tables \in Tables, NEW id \in Accounts, NEW row \in AccountRow,
         NEW h \in [Accounts -> HealthRow],
         tables' = [tables EXCEPT !.accounts[id] = row, !.health = h]
  PROVE  /\ tables' \in Tables
         /\ tables'.accounts = [tables.accounts EXCEPT ![id] = row]
         /\ tables'.providers = tables.providers /\ tables'.pools = tables.pools
         /\ tables'.profiles = tables.profiles /\ tables'.health = h
  BY DEF Tables

\* Writing a pool touches nothing else.
LEMMA PoolWritten ==
  ASSUME tables \in Tables, NEW id \in Pools, NEW row \in PoolRow,
         tables' = [tables EXCEPT !.pools[id] = row]
  PROVE  /\ tables' \in Tables
         /\ tables'.pools = [tables.pools EXCEPT ![id] = row]
         /\ tables'.accounts = tables.accounts /\ tables'.providers = tables.providers
         /\ tables'.profiles = tables.profiles /\ tables'.health = tables.health
  BY DEF Tables

\* Writing a profile touches nothing else.
LEMMA ProfileWritten ==
  ASSUME tables \in Tables, NEW id \in Profiles, NEW row \in ProfileRow,
         tables' = [tables EXCEPT !.profiles[id] = row]
  PROVE  /\ tables' \in Tables
         /\ tables'.profiles = [tables.profiles EXCEPT ![id] = row]
         /\ tables'.accounts = tables.accounts /\ tables'.providers = tables.providers
         /\ tables'.pools = tables.pools /\ tables'.health = tables.health
  BY DEF Tables

\* What a mutation may do to a table: the next version of one row, of the same
\* provider as before, with references that were checked against the other tables.
WritesProvider ==
  \E id \in Providers, row \in ProviderRow :
    /\ tables' = [tables EXCEPT !.providers[id] = row]
    /\ row.version = tables.providers[id].version + 1
WritesAccount ==
  \E id \in Accounts, row \in AccountRow, h \in [Accounts -> HealthRow] :
    /\ tables' = [tables EXCEPT !.accounts[id] = row, !.health = h]
    /\ row.version = tables.accounts[id].version + 1
    /\ Exists("accounts", id) => row.provider = tables.accounts[id].provider
WritesPool ==
  \E id \in Pools, row \in PoolRow :
    /\ tables' = [tables EXCEPT !.pools[id] = row]
    /\ row.version = tables.pools[id].version + 1
    /\ Exists("pools", id) => row.provider = tables.pools[id].provider
    /\ ValidMembers(row.provider, row.members)
WritesProfile ==
  \E id \in Profiles, row \in ProfileRow :
    /\ tables' = [tables EXCEPT !.profiles[id] = row]
    /\ row.version = tables.profiles[id].version + 1
    /\ AssertProfileRefs(row.provider, row.pool)
WritesRow == WritesProvider \/ WritesAccount \/ WritesPool \/ WritesProfile

\* A written row moves to its next version; no other row moves.
RowsMove ==
  \A k \in DOMAIN Kinds : \A id \in Kinds[k] :
    \/ tables'[k][id] = tables[k][id]
    \/ tables'[k][id].version = tables[k][id].version + 1

\* The tables there are, with their ids.
LEMMA KindsFacts ==
  /\ DOMAIN Kinds = {"providers", "accounts", "pools", "profiles"}
  /\ Kinds["providers"] = Providers /\ Kinds["accounts"] = Accounts
  /\ Kinds["pools"] = Pools /\ Kinds["profiles"] = Profiles
  BY DEF Kinds

\* A row that exists has a positive version and a row's fields.
LEMMA RowFacts ==
  ASSUME tables \in Tables
  PROVE  /\ \A id \in Providers : /\ tables.providers[id].version \in Nat
                                  /\ Exists("providers", id) => tables.providers[id] \in ProviderRow
         /\ \A id \in Accounts : /\ tables.accounts[id].version \in Nat
                                 /\ Exists("accounts", id) => tables.accounts[id] \in AccountRow
         /\ \A id \in Pools : /\ tables.pools[id].version \in Nat
                              /\ Exists("pools", id) => tables.pools[id] \in PoolRow
         /\ \A id \in Profiles : /\ tables.profiles[id].version \in Nat
                                 /\ Exists("profiles", id) => tables.profiles[id] \in ProfileRow
<1>1. NoRow.version = 0
  BY DEF NoRow
<1>2. /\ \A r \in ProviderRow : r.version \in Nat \ {0}
      /\ \A r \in AccountRow : r.version \in Nat \ {0}
      /\ \A r \in PoolRow : r.version \in Nat \ {0}
      /\ \A r \in ProfileRow : r.version \in Nat \ {0}
  BY DEF ProviderRow, AccountRow, PoolRow, ProfileRow
<1>3. /\ tables.providers \in [Providers -> ProviderRow \cup {NoRow}]
      /\ tables.accounts \in [Accounts -> AccountRow \cup {NoRow}]
      /\ tables.pools \in [Pools -> PoolRow \cup {NoRow}]
      /\ tables.profiles \in [Profiles -> ProfileRow \cup {NoRow}]
  BY DEF Tables
<1> QED
  BY <1>1, <1>2, <1>3 DEF Exists

\* Every table keeps its type, and its rows only move forward.
LEMMA RowsWritten == tables \in Tables /\ WritesRow => tables' \in Tables /\ RowsMove
<1> SUFFICES ASSUME tables \in Tables, WritesRow PROVE tables' \in Tables /\ RowsMove
  OBVIOUS
<1>0. /\ tables.providers \in [Providers -> ProviderRow \cup {NoRow}]
      /\ tables.accounts \in [Accounts -> AccountRow \cup {NoRow}]
      /\ tables.pools \in [Pools -> PoolRow \cup {NoRow}]
      /\ tables.profiles \in [Profiles -> ProfileRow \cup {NoRow}]
  BY DEF Tables
<1>1. CASE WritesProvider
  <2>1. PICK id \in Providers, row \in ProviderRow :
               /\ tables' = [tables EXCEPT !.providers[id] = row]
               /\ row.version = tables.providers[id].version + 1
    BY <1>1 DEF WritesProvider
  <2>2. /\ tables' \in Tables
        /\ tables'.providers = [tables.providers EXCEPT ![id] = row]
        /\ tables'.accounts = tables.accounts /\ tables'.pools = tables.pools /\ tables'.profiles = tables.profiles
    BY <2>1, ProviderWritten
  <2>3. \A i \in Providers : \/ tables'.providers[i] = tables.providers[i]
                        \/ tables'.providers[i].version = tables.providers[i].version + 1
    BY <1>0, <2>1, <2>2
  <2> QED
    BY <2>2, <2>3, KindsFacts DEF RowsMove
<1>2. CASE WritesAccount
  <2>1. PICK id \in Accounts, row \in AccountRow, h \in [Accounts -> HealthRow] :
               /\ tables' = [tables EXCEPT !.accounts[id] = row, !.health = h]
               /\ row.version = tables.accounts[id].version + 1
    BY <1>2 DEF WritesAccount
  <2>2. /\ tables' \in Tables
        /\ tables'.accounts = [tables.accounts EXCEPT ![id] = row]
        /\ tables'.providers = tables.providers /\ tables'.pools = tables.pools /\ tables'.profiles = tables.profiles
    BY <2>1, AccountWritten
  <2>3. \A i \in Accounts : \/ tables'.accounts[i] = tables.accounts[i]
                        \/ tables'.accounts[i].version = tables.accounts[i].version + 1
    BY <1>0, <2>1, <2>2
  <2> QED
    BY <2>2, <2>3, KindsFacts DEF RowsMove
<1>3. CASE WritesPool
  <2>1. PICK id \in Pools, row \in PoolRow :
               /\ tables' = [tables EXCEPT !.pools[id] = row]
               /\ row.version = tables.pools[id].version + 1
    BY <1>3 DEF WritesPool
  <2>2. /\ tables' \in Tables
        /\ tables'.pools = [tables.pools EXCEPT ![id] = row]
        /\ tables'.providers = tables.providers /\ tables'.accounts = tables.accounts /\ tables'.profiles = tables.profiles
    BY <2>1, PoolWritten
  <2>3. \A i \in Pools : \/ tables'.pools[i] = tables.pools[i]
                        \/ tables'.pools[i].version = tables.pools[i].version + 1
    BY <1>0, <2>1, <2>2
  <2> QED
    BY <2>2, <2>3, KindsFacts DEF RowsMove
<1>4. CASE WritesProfile
  <2>1. PICK id \in Profiles, row \in ProfileRow :
               /\ tables' = [tables EXCEPT !.profiles[id] = row]
               /\ row.version = tables.profiles[id].version + 1
    BY <1>4 DEF WritesProfile
  <2>2. /\ tables' \in Tables
        /\ tables'.profiles = [tables.profiles EXCEPT ![id] = row]
        /\ tables'.providers = tables.providers /\ tables'.accounts = tables.accounts /\ tables'.pools = tables.pools
    BY <2>1, ProfileWritten
  <2>3. \A i \in Profiles : \/ tables'.profiles[i] = tables.profiles[i]
                        \/ tables'.profiles[i].version = tables.profiles[i].version + 1
    BY <1>0, <2>1, <2>2
  <2> QED
    BY <2>2, <2>3, KindsFacts DEF RowsMove
<1> QED
  BY <1>1, <1>2, <1>3, <1>4 DEF WritesRow

\* Accounts, pools and providers do not vanish, and do not change their provider.
LEMMA RowsStay ==
  ASSUME tables \in Tables, WritesRow
  PROVE  /\ \A a \in Accounts : Exists("accounts", a) =>
              Exists("accounts", a)' /\ tables'.accounts[a].provider = tables.accounts[a].provider
         /\ \A o \in Pools : Exists("pools", o) =>
              Exists("pools", o)' /\ tables'.pools[o].provider = tables.pools[o].provider
         /\ \A r \in Providers : Exists("providers", r) => Exists("providers", r)'
<1>0. /\ tables.providers \in [Providers -> ProviderRow \cup {NoRow}]
      /\ tables.accounts \in [Accounts -> AccountRow \cup {NoRow}]
      /\ tables.pools \in [Pools -> PoolRow \cup {NoRow}]
  BY DEF Tables
<1>1. /\ \A a \in Accounts : tables.accounts[a].version \in Nat
      /\ \A o \in Pools : tables.pools[o].version \in Nat
      /\ \A r \in Providers : tables.providers[r].version \in Nat
  BY RowFacts
<1>2. CASE WritesProvider
  <2>1. PICK id \in Providers, row \in ProviderRow :
               /\ tables' = [tables EXCEPT !.providers[id] = row]
               /\ row.version = tables.providers[id].version + 1
    BY <1>2 DEF WritesProvider
  <2>2. /\ tables'.providers = [tables.providers EXCEPT ![id] = row]
        /\ tables'.accounts = tables.accounts /\ tables'.pools = tables.pools
    BY <2>1, ProviderWritten
  <2>3. \A i \in Providers : tables'.providers[i] = IF i = id THEN row ELSE tables.providers[i]
    BY <1>0, <2>2
  <2>4. row.version > 0
    BY <1>1, <2>1
  <2> QED
    BY <2>1, <2>2, <2>3, <2>4 DEF Exists
<1>3. CASE WritesAccount
  <2>1. PICK id \in Accounts, row \in AccountRow, h \in [Accounts -> HealthRow] :
               /\ tables' = [tables EXCEPT !.accounts[id] = row, !.health = h]
               /\ row.version = tables.accounts[id].version + 1
               /\ Exists("accounts", id) => row.provider = tables.accounts[id].provider
    BY <1>3 DEF WritesAccount
  <2>2. /\ tables'.accounts = [tables.accounts EXCEPT ![id] = row]
        /\ tables'.providers = tables.providers /\ tables'.pools = tables.pools
    BY <2>1, AccountWritten
  <2>3. \A i \in Accounts : tables'.accounts[i] = IF i = id THEN row ELSE tables.accounts[i]
    BY <1>0, <2>2
  <2>4. row.version > 0
    BY <1>1, <2>1
  <2> QED
    BY <2>1, <2>2, <2>3, <2>4 DEF Exists
<1>4. CASE WritesPool
  <2>1. PICK id \in Pools, row \in PoolRow :
               /\ tables' = [tables EXCEPT !.pools[id] = row]
               /\ row.version = tables.pools[id].version + 1
               /\ Exists("pools", id) => row.provider = tables.pools[id].provider
    BY <1>4 DEF WritesPool
  <2>2. /\ tables'.pools = [tables.pools EXCEPT ![id] = row]
        /\ tables'.providers = tables.providers /\ tables'.accounts = tables.accounts
    BY <2>1, PoolWritten
  <2>3. \A i \in Pools : tables'.pools[i] = IF i = id THEN row ELSE tables.pools[i]
    BY <1>0, <2>2
  <2>4. row.version > 0
    BY <1>1, <2>1
  <2> QED
    BY <2>1, <2>2, <2>3, <2>4 DEF Exists
<1>5. CASE WritesProfile
  <2>1. PICK id \in Profiles, row \in ProfileRow :
               /\ tables' = [tables EXCEPT !.profiles[id] = row]
               /\ row.version = tables.profiles[id].version + 1
    BY <1>5 DEF WritesProfile
  <2> QED
    BY <2>1, ProfileWritten DEF Exists
<1> QED
  BY <1>2, <1>3, <1>4, <1>5 DEF WritesRow

\* What a pool or a profile refers to was checked when its row was written.
LEMMA RowsChecked ==
  ASSUME tables \in Tables, WritesRow
  PROVE  /\ \A o \in Pools : \/ tables'.pools[o] = tables.pools[o]
                             \/ ValidMembers(tables'.pools[o].provider, tables'.pools[o].members)
         /\ \A f \in Profiles :
              \/ tables'.profiles[f] = tables.profiles[f]
              \/ AssertProfileRefs(tables'.profiles[f].provider, tables'.profiles[f].pool)
<1>0. /\ tables.pools \in [Pools -> PoolRow \cup {NoRow}]
      /\ tables.profiles \in [Profiles -> ProfileRow \cup {NoRow}]
  BY DEF Tables
<1>1. CASE WritesProvider
  BY <1>1, ProviderWritten DEF WritesProvider
<1>2. CASE WritesAccount
  <2>1. PICK id \in Accounts, row \in AccountRow, h \in [Accounts -> HealthRow] :
          tables' = [tables EXCEPT !.accounts[id] = row, !.health = h]
    BY <1>2 DEF WritesAccount
  <2> QED
    BY <2>1, AccountWritten
<1>3. CASE WritesPool
  <2>1. PICK id \in Pools, row \in PoolRow :
               /\ tables' = [tables EXCEPT !.pools[id] = row]
               /\ ValidMembers(row.provider, row.members)
    BY <1>3 DEF WritesPool
  <2>2. tables'.pools = [tables.pools EXCEPT ![id] = row] /\ tables'.profiles = tables.profiles
    BY <2>1, PoolWritten
  <2>3. ASSUME NEW o \in Pools
        PROVE  \/ tables'.pools[o] = tables.pools[o]
               \/ o = id /\ tables'.pools[o] = row
    BY <1>0, <2>2
  <2> QED
    BY <2>1, <2>2, <2>3
<1>4. CASE WritesProfile
  <2>1. PICK id \in Profiles, row \in ProfileRow :
               /\ tables' = [tables EXCEPT !.profiles[id] = row]
               /\ AssertProfileRefs(row.provider, row.pool)
    BY <1>4 DEF WritesProfile
  <2>2. tables'.profiles = [tables.profiles EXCEPT ![id] = row] /\ tables'.pools = tables.pools
    BY <2>1, ProfileWritten
  <2>3. ASSUME NEW f \in Profiles
        PROVE  \/ tables'.profiles[f] = tables.profiles[f]
               \/ f = id /\ tables'.profiles[f] = row
    BY <1>0, <2>2
  <2> QED
    BY <2>1, <2>2, <2>3
<1> QED
  BY <1>1, <1>2, <1>3, <1>4 DEF WritesRow

\* So references that were right stay right.
LEMMA ReferencesKept ==
  tables \in Tables /\ ReferencesAgree /\ WritesRow => ReferencesAgree'
<1> SUFFICES ASSUME tables \in Tables, ReferencesAgree, WritesRow PROVE ReferencesAgree'
  OBVIOUS
<1>1. ASSUME NEW o \in Pools, Exists("pools", o)'
      PROVE  ValidMembers(tables.pools[o].provider, tables.pools[o].members)'
  <2> DEFINE p == tables'.pools[o].provider
             m == tables'.pools[o].members
  <2>1. ValidMembers(p, m)
    <3>1. CASE tables'.pools[o] = tables.pools[o]
      BY <1>1, <3>1 DEF ReferencesAgree, Exists
    <3>2. CASE tables'.pools[o] # tables.pools[o]
      BY <3>2, RowsChecked
    <3> QED
      BY <3>1, <3>2
  <2>2. ToSet(m) \subseteq Accounts
    <3>1. tables' \in Tables
      BY RowsWritten
    <3>2. tables'.pools \in [Pools -> PoolRow \cup {NoRow}]
      BY <3>1 DEF Tables
    <3>3. tables'.pools[o] \in PoolRow
      BY <1>1, <3>2 DEF Exists, NoRow
    <3>4. m \in Seq(Accounts)
      BY <3>3 DEF PoolRow
    <3> QED
      BY <3>4 DEF ToSet
  <2> HIDE DEF m
  <2>3. IsInjective(m) /\ \A a \in ToSet(m) : Exists("accounts", a) /\ tables.accounts[a].provider = p
    BY <2>1 DEF ValidMembers
  <2>4. IsInjective(m) /\ \A a \in ToSet(m) : Exists("accounts", a)' /\ tables'.accounts[a].provider = p
    BY <2>2, <2>3, RowsStay
  <2> QED
    BY <2>4 DEF ValidMembers, m
<1>2. ASSUME NEW f \in Profiles, Exists("profiles", f)'
      PROVE  AssertProfileRefs(tables.profiles[f].provider, tables.profiles[f].pool)'
  <2> SUFFICES ASSUME NEW p, NEW o,
                      p = tables'.profiles[f].provider, o = tables'.profiles[f].pool
               PROVE  AssertProfileRefs(p, o)'
    OBVIOUS
  <2>1. AssertProfileRefs(p, o)
    <3>1. CASE tables'.profiles[f] = tables.profiles[f]
      BY <1>2, <3>1 DEF ReferencesAgree, Exists
    <3>2. CASE tables'.profiles[f] # tables.profiles[f]
      BY <3>2, RowsChecked
    <3> QED
      BY <3>1, <3>2
  <2>2. p \in Providers \cup {None} /\ o \in Pools \cup {None}
    <3>1. tables' \in Tables
      BY RowsWritten
    <3>2. tables'.profiles \in [Profiles -> ProfileRow \cup {NoRow}]
      BY <3>1 DEF Tables
    <3>3. tables'.profiles[f] \in ProfileRow
      BY <1>2, <3>2 DEF Exists, NoRow
    <3> QED
      BY <3>3 DEF ProfileRow
  <2>3. p # None \/ o # None
    BY <2>1 DEF AssertProfileRefs
  <2>4. p # None => Exists("providers", p)'
    BY <2>1, <2>2, RowsStay DEF AssertProfileRefs
  <2>5. o # None => Exists("pools", o) /\ Exists("pools", o)'
    BY <2>1, <2>2, RowsStay DEF AssertProfileRefs
  <2>6. p # None /\ o # None => tables'.pools[o].provider = p
    <3> SUFFICES ASSUME p # None, o # None PROVE tables'.pools[o].provider = p
      OBVIOUS
    <3>1. tables.pools[o].provider = p
      BY <2>1 DEF AssertProfileRefs
    <3> QED
      BY <3>1, <2>2, <2>5, RowsStay
  <2> QED
    BY <2>3, <2>4, <2>5, <2>6 DEF AssertProfileRefs
<1> QED
  BY <1>1, <1>2 DEF ReferencesAgree

-----------------------------------------------------------------------------
(* What each request does.                                                 *)

\* A provider is created as version 1 of a row that was not there.
LEMMA CreateProviderWrites ==
  ASSUME tables \in Tables, NEW q \in [op : {"provider.create"}, id : Providers, terms : Terms \cup {None}],
         Mutate(q), tables' # tables
  PROVE  WritesProvider
<1>1. Accepted(q) /\ tables' \in Work(q)
  BY DEF Mutate
<1>2. tables' \in CreateProvider(q)
  BY <1>1 DEF Work
<1> DEFINE row == [version |-> 1, terms |-> q.terms, enabled |-> TRUE]
<1>3. /\ tables' = [tables EXCEPT !.providers[q.id] = row]
      /\ ~Exists("providers", q.id)
  BY <1>2 DEF CreateProvider
<1>4. row \in ProviderRow /\ row.version = 1 /\ q.id \in Providers
  BY DEF ProviderRow
<1>5. tables.providers[q.id].version = 0
  BY <1>3, <1>4, RowFacts DEF Exists
<1>6. row.version = tables.providers[q.id].version + 1
  BY <1>5, <1>4
<1> HIDE DEF row
<1> QED
  BY <1>3, <1>4, <1>6 DEF WritesProvider


\* A provider is updated to the version after the one named.
LEMMA UpdateProviderWrites ==
  ASSUME tables \in Tables, NEW q \in [op : {"provider.update"}, table : {"providers"}, id : Providers, version : Nat \ {0}, terms : Terms, enabled : BOOLEAN],
         Mutate(q), tables' # tables
  PROVE  WritesProvider
<1>1. Accepted(q) /\ tables' \in Work(q)
  BY DEF Mutate
<1>2. tables' \in UpdateProvider(q)
  BY <1>1 DEF Work
<1>3. /\ q.table = "providers" /\ q.id \in Providers /\ q.version \in Nat \ {0}
      /\ tables.providers[q.id].version = q.version
  BY <1>1 DEF Accepted, AssertCurrentVersion
<1>4. tables.providers[q.id] \in ProviderRow
  BY <1>3, RowFacts DEF Exists
<1> DEFINE new == [tables.providers[q.id] EXCEPT !.terms = q.terms, !.enabled = q.enabled]
           row == [new EXCEPT !.version = tables.providers[q.id].version + 1]
<1>5. tables' = [tables EXCEPT !.providers[q.id] = row]
  BY <1>2 DEF UpdateProvider, Replace
<1>6. row \in ProviderRow /\ row.version = tables.providers[q.id].version + 1
  <2> DEFINE n1 == [tables.providers[q.id] EXCEPT !.terms = q.terms]
  <2>1. q.terms \in Terms /\ q.enabled \in BOOLEAN
    OBVIOUS
  <2>2. n1 \in ProviderRow
    BY <1>4, <2>1 DEF ProviderRow
  <2> HIDE DEF n1
  <2>3. [n1 EXCEPT !.enabled = q.enabled] \in ProviderRow
    BY <2>1, <2>2 DEF ProviderRow
  <2>4. new = [n1 EXCEPT !.enabled = q.enabled]
    BY DEF n1
  <2>5. new \in ProviderRow
    BY <2>2, <2>3, <2>4 DEF ProviderRow
  <2>6. tables.providers[q.id].version + 1 \in Nat \ {0}
    BY <1>3, RowFacts
  <2> HIDE DEF new
  <2> QED
    BY <2>5, <2>6 DEF ProviderRow
<1> QED
  BY <1>3, <1>5, <1>6 DEF WritesProvider


\* An account is created as version 1 of a row that was not there, with its health.
LEMMA CreateAccountWrites ==
  ASSUME tables \in Tables, NEW q \in [op : {"account.create"}, id : Accounts, provider : Providers, state : {"unready"}],
         Mutate(q), tables' # tables
  PROVE  WritesAccount
<1>1. Accepted(q) /\ tables' \in Work(q)
  BY DEF Mutate
<1>2. tables' \in CreateAccount(q)
  BY <1>1 DEF Work
<1> DEFINE row == [version |-> 1, provider |-> q.provider, state |-> q.state,
                  generation |-> 0, cooling |-> FALSE, acknowledged |-> None]
           h == [tables.health EXCEPT ![q.id] = [failures |-> 0, cooling |-> FALSE]]
<1>3. /\ tables' = [tables EXCEPT !.accounts[q.id] = row,
                                 !.health[q.id] = [failures |-> 0, cooling |-> FALSE]]
      /\ ~Exists("accounts", q.id)
  BY <1>2 DEF CreateAccount
<1>4. tables' = [tables EXCEPT !.accounts[q.id] = row, !.health = h]
  BY <1>3 DEF Tables
<1>5. row \in AccountRow /\ row.version = 1 /\ q.id \in Accounts
  BY DEF AccountRow
<1>6. h \in [Accounts -> HealthRow]
  BY DEF Tables, HealthRow
<1>7. tables.accounts[q.id].version = 0
  BY <1>3, <1>5, RowFacts DEF Exists
<1>8. row.version = tables.accounts[q.id].version + 1
  BY <1>7, <1>5
<1> HIDE DEF row, h
<1> QED
  BY <1>3, <1>4, <1>5, <1>6, <1>8 DEF WritesAccount


\* An account's state is set in its next version.
LEMMA UpdateAccountWrites ==
  ASSUME tables \in Tables, NEW q \in [op : {"account.update"}, table : {"accounts"}, id : Accounts, version : Nat \ {0}, state : {"ready", "paused"}],
         Mutate(q), tables' # tables
  PROVE  WritesAccount
<1>1. Accepted(q) /\ tables' \in Work(q)
  BY DEF Mutate
<1>2. tables' \in UpdateAccount(q)
  BY <1>1 DEF Work
<1>3. /\ q.table = "accounts" /\ q.id \in Accounts /\ q.version \in Nat \ {0}
      /\ tables.accounts[q.id].version = q.version
  BY <1>1 DEF Accepted, AssertCurrentVersion
<1>4. tables.accounts[q.id] \in AccountRow
  BY <1>3, RowFacts DEF Exists
<1> DEFINE new == [tables.accounts[q.id] EXCEPT !.state = q.state]
           row == [new EXCEPT !.version = tables.accounts[q.id].version + 1]
<1>5. tables' = [tables EXCEPT !.accounts[q.id] = row]
  BY <1>2 DEF UpdateAccount, Replace
<1>6. /\ row \in AccountRow /\ row.version = tables.accounts[q.id].version + 1
      /\ row.provider = tables.accounts[q.id].provider
  <2>1. /\ new \in AccountRow /\ tables.accounts[q.id].version + 1 \in Nat \ {0}
        /\ new.provider = tables.accounts[q.id].provider
    BY <1>4 DEF AccountRow
  <2> HIDE DEF new
  <2> QED
    BY <2>1 DEF AccountRow
<1>7. tables.health \in [Accounts -> HealthRow]
  BY DEF Tables
<1>8. tables' = [tables EXCEPT !.accounts[q.id] = row, !.health = tables.health]
  BY <1>5 DEF Tables
<1> HIDE DEF row
<1> QED
  BY <1>3, <1>6, <1>7, <1>8 DEF WritesAccount


\* A generation is bound in the account's next version.
LEMMA BindCredentialWrites ==
  ASSUME tables \in Tables, NEW q \in [op : {"account.bind-credential"}, table : {"accounts"}, id : Accounts, version : Nat \ {0}, generation : Nat, state : {"ready", "unready"}],
         Mutate(q), tables' # tables
  PROVE  WritesAccount
<1>1. Accepted(q) /\ tables' \in Work(q)
  BY DEF Mutate
<1>2. tables' \in BindCredential(q)
  BY <1>1 DEF Work
<1>3. /\ q.table = "accounts" /\ q.id \in Accounts /\ q.version \in Nat \ {0}
      /\ tables.accounts[q.id].version = q.version
  BY <1>1 DEF Accepted, AssertCurrentVersion
<1>4. tables.accounts[q.id] \in AccountRow
  BY <1>3, RowFacts DEF Exists
<1> DEFINE new == [tables.accounts[q.id] EXCEPT !.generation = q.generation, !.state = q.state]
           row == [new EXCEPT !.version = tables.accounts[q.id].version + 1]
<1>5. tables' = [tables EXCEPT !.accounts[q.id] = row]
  BY <1>2 DEF BindCredential, Replace
<1>6. /\ row \in AccountRow /\ row.version = tables.accounts[q.id].version + 1
      /\ row.provider = tables.accounts[q.id].provider
  <2> DEFINE n1 == [tables.accounts[q.id] EXCEPT !.generation = q.generation]
  <2>1. q.generation \in Nat /\ q.state \in {"ready", "unready"}
    OBVIOUS
  <2>2. n1 \in AccountRow /\ n1.provider = tables.accounts[q.id].provider
    BY <1>4, <2>1 DEF AccountRow
  <2> HIDE DEF n1
  <2>3. [n1 EXCEPT !.state = q.state] \in AccountRow
    BY <2>1, <2>2 DEF AccountRow
  <2>4. new = [n1 EXCEPT !.state = q.state]
    BY DEF n1
  <2>5. new \in AccountRow /\ new.provider = tables.accounts[q.id].provider
    BY <2>2, <2>3, <2>4 DEF AccountRow
  <2>6. tables.accounts[q.id].version + 1 \in Nat \ {0}
    BY <1>3, RowFacts
  <2> HIDE DEF new
  <2> QED
    BY <2>5, <2>6 DEF AccountRow
<1>7. tables.health \in [Accounts -> HealthRow]
  BY DEF Tables
<1>8. tables' = [tables EXCEPT !.accounts[q.id] = row, !.health = tables.health]
  BY <1>5 DEF Tables
<1> HIDE DEF row
<1> QED
  BY <1>3, <1>6, <1>7, <1>8 DEF WritesAccount


\* Terms are acknowledged in the account's next version.
LEMMA AcknowledgeTermsWrites ==
  ASSUME tables \in Tables, NEW q \in [op : {"account.acknowledge-terms"}, table : {"accounts"}, id : Accounts, version : Nat \ {0}, terms : Terms],
         Mutate(q), tables' # tables
  PROVE  WritesAccount
<1>1. Accepted(q) /\ tables' \in Work(q)
  BY DEF Mutate
<1>2. tables' \in AcknowledgeTerms(q)
  BY <1>1 DEF Work
<1>3. /\ q.table = "accounts" /\ q.id \in Accounts /\ q.version \in Nat \ {0}
      /\ tables.accounts[q.id].version = q.version
  BY <1>1 DEF Accepted, AssertCurrentVersion
<1>4. tables.accounts[q.id] \in AccountRow
  BY <1>3, RowFacts DEF Exists
<1> DEFINE new == [tables.accounts[q.id] EXCEPT !.acknowledged = q.terms]
           row == [new EXCEPT !.version = tables.accounts[q.id].version + 1]
<1>5. tables' = [tables EXCEPT !.accounts[q.id] = row]
  BY <1>2 DEF AcknowledgeTerms, Replace
<1>6. /\ row \in AccountRow /\ row.version = tables.accounts[q.id].version + 1
      /\ row.provider = tables.accounts[q.id].provider
  <2>1. /\ new \in AccountRow /\ tables.accounts[q.id].version + 1 \in Nat \ {0}
        /\ new.provider = tables.accounts[q.id].provider
    BY <1>4 DEF AccountRow
  <2> HIDE DEF new
  <2> QED
    BY <2>1 DEF AccountRow
<1>7. tables.health \in [Accounts -> HealthRow]
  BY DEF Tables
<1>8. tables' = [tables EXCEPT !.accounts[q.id] = row, !.health = tables.health]
  BY <1>5 DEF Tables
<1> HIDE DEF row
<1> QED
  BY <1>3, <1>6, <1>7, <1>8 DEF WritesAccount


\* A pool is created with members of its provider.
LEMMA CreatePoolWrites ==
  ASSUME tables \in Tables, NEW q \in [op : {"pool.create"}, id : Pools, provider : Providers, members : Seq(Accounts)],
         Mutate(q), tables' # tables
  PROVE  WritesPool
<1>1. Accepted(q) /\ tables' \in Work(q)
  BY DEF Mutate
<1>2. tables' \in CreatePool(q)
  BY <1>1 DEF Work
<1> DEFINE row == [version |-> 1, provider |-> q.provider, members |-> q.members]
<1>3. /\ tables' = [tables EXCEPT !.pools[q.id] = row]
      /\ ~Exists("pools", q.id) /\ ValidMembers(q.provider, q.members)
  BY <1>2 DEF CreatePool
<1>4. /\ row \in PoolRow /\ row.version = 1 /\ q.id \in Pools
      /\ row.provider = q.provider /\ row.members = q.members
  BY DEF PoolRow
<1>5. tables.pools[q.id].version = 0
  BY <1>3, <1>4, RowFacts DEF Exists
<1>6. row.version = tables.pools[q.id].version + 1
  BY <1>5, <1>4
<1> HIDE DEF row
<1> QED
  BY <1>3, <1>4, <1>6 DEF WritesPool


\* A pool's members are replaced by ones of its provider.
LEMMA UpdatePoolWrites ==
  ASSUME tables \in Tables, NEW q \in [op : {"pool.update"}, table : {"pools"}, id : Pools, version : Nat \ {0}, members : Seq(Accounts)],
         Mutate(q), tables' # tables
  PROVE  WritesPool
<1>1. Accepted(q) /\ tables' \in Work(q)
  BY DEF Mutate
<1>2. tables' \in UpdatePool(q)
  BY <1>1 DEF Work
<1>3. /\ q.table = "pools" /\ q.id \in Pools /\ q.version \in Nat \ {0}
      /\ tables.pools[q.id].version = q.version
  BY <1>1 DEF Accepted, AssertCurrentVersion
<1>4. tables.pools[q.id] \in PoolRow
  BY <1>3, RowFacts DEF Exists
<1> DEFINE new == [tables.pools[q.id] EXCEPT !.members = q.members]
           row == [new EXCEPT !.version = tables.pools[q.id].version + 1]
<1>5. /\ tables' = [tables EXCEPT !.pools[q.id] = row]
      /\ ValidMembers(tables.pools[q.id].provider, q.members)
  BY <1>2 DEF UpdatePool, Replace
<1>6. /\ row \in PoolRow /\ row.version = tables.pools[q.id].version + 1
      /\ row.provider = tables.pools[q.id].provider /\ row.members = q.members
  <2>1. ASSUME NEW r \in PoolRow, NEW m \in Seq(Accounts)
        PROVE  /\ [r EXCEPT !.members = m] \in PoolRow
               /\ [r EXCEPT !.members = m].provider = r.provider
               /\ [r EXCEPT !.members = m].members = m
    BY DEF PoolRow
  <2>2. /\ new \in PoolRow /\ tables.pools[q.id].version + 1 \in Nat \ {0}
        /\ new.provider = tables.pools[q.id].provider /\ new.members = q.members
    BY <1>4, <2>1, RowFacts
  <2> HIDE DEF new
  <2> QED
    BY <2>2 DEF PoolRow
<1> HIDE DEF row
<1> QED
  BY <1>3, <1>5, <1>6 DEF WritesPool


\* A profile is created with references that were checked.
LEMMA CreateProfileWrites ==
  ASSUME tables \in Tables, NEW q \in [op : {"profile.create"}, id : Profiles, provider : Providers \cup {None},
                         pool : Pools \cup {None}],
         Mutate(q), tables' # tables
  PROVE  WritesProfile
<1>1. Accepted(q) /\ tables' \in Work(q)
  BY DEF Mutate
<1>2. tables' \in CreateProfile(q)
  BY <1>1 DEF Work
<1> DEFINE row == [version |-> 1, provider |-> q.provider, pool |-> q.pool]
<1>3. /\ tables' = [tables EXCEPT !.profiles[q.id] = row]
      /\ ~Exists("profiles", q.id) /\ AssertProfileRefs(q.provider, q.pool)
  BY <1>2 DEF CreateProfile
<1>4. /\ row \in ProfileRow /\ row.version = 1 /\ q.id \in Profiles
      /\ row.provider = q.provider /\ row.pool = q.pool
  BY DEF ProfileRow
<1>5. tables.profiles[q.id].version = 0
  BY <1>3, <1>4, RowFacts DEF Exists
<1>6. row.version = tables.profiles[q.id].version + 1
  BY <1>5, <1>4
<1> HIDE DEF row
<1> QED
  BY <1>3, <1>4, <1>6 DEF WritesProfile


\* A profile's references are checked as they are after the merge.
LEMMA UpdateProfileWrites ==
  ASSUME tables \in Tables, NEW q \in [op : {"profile.update"}, table : {"profiles"}, id : Profiles, version : Nat \ {0},
                         provider : Providers \cup {None}, pool : Pools \cup {None}],
         Mutate(q), tables' # tables
  PROVE  WritesProfile
<1>1. Accepted(q) /\ tables' \in Work(q)
  BY DEF Mutate
<1>2. tables' \in UpdateProfile(q)
  BY <1>1 DEF Work
<1>3. /\ q.table = "profiles" /\ q.id \in Profiles /\ q.version \in Nat \ {0}
      /\ tables.profiles[q.id].version = q.version
  BY <1>1 DEF Accepted, AssertCurrentVersion
<1>4. tables.profiles[q.id] \in ProfileRow
  BY <1>3, RowFacts DEF Exists
<1> DEFINE provider == IF q.provider = None THEN tables.profiles[q.id].provider ELSE q.provider
           pool == IF q.pool = None THEN tables.profiles[q.id].pool ELSE q.pool
           new == [tables.profiles[q.id] EXCEPT !.provider = provider, !.pool = pool]
           row == [new EXCEPT !.version = tables.profiles[q.id].version + 1]
<1>5. /\ tables' = [tables EXCEPT !.profiles[q.id] = row]
      /\ AssertProfileRefs(provider, pool)
  BY <1>2 DEF UpdateProfile, Replace
<1>6. /\ provider \in Providers \cup {None} /\ pool \in Pools \cup {None}
  BY <1>4 DEF ProfileRow
<1> HIDE DEF provider, pool
<1>7. /\ row \in ProfileRow /\ row.version = tables.profiles[q.id].version + 1
      /\ row.provider = provider /\ row.pool = pool
  <2> DEFINE n1 == [tables.profiles[q.id] EXCEPT !.provider = provider]
  <2>1. provider \in Providers \cup {None} /\ pool \in Pools \cup {None}
    BY <1>6
  <2>2. n1 \in ProfileRow /\ n1.provider = provider
    BY <1>4, <2>1 DEF ProfileRow
  <2> HIDE DEF n1
  <2>3. [n1 EXCEPT !.pool = pool] \in ProfileRow
    BY <2>1, <2>2 DEF ProfileRow
  <2>4. new = [n1 EXCEPT !.pool = pool]
    BY DEF n1
  <2>5. new \in ProfileRow /\ new.provider = provider /\ new.pool = pool
    BY <2>2, <2>3, <2>4 DEF ProfileRow
  <2>6. tables.profiles[q.id].version + 1 \in Nat \ {0}
    BY <1>3, RowFacts
  <2> HIDE DEF new
  <2> QED
    BY <2>5, <2>6 DEF ProfileRow
<1> HIDE DEF row
<1> QED
  BY <1>3, <1>5, <1>7 DEF WritesProfile


\* Short sequences are sequences.
LEMMA MembersTyped == ASSUME NEW n \in Nat PROVE SeqOf(Accounts, n) \subseteq Seq(Accounts)
  BY DEF SeqOf

\* The page's creations.
LEMMA CreationWrites ==
  ASSUME tables \in Tables, NEW q \in Creations, Mutate(q), tables' # tables
  PROVE  WritesRow
<1>1. CASE q \in [op : {"provider.create"}, id : Providers, terms : Terms \cup {None}]
  BY <1>1, CreateProviderWrites DEF WritesRow
<1>2. CASE q \in [op : {"account.create"}, id : Accounts, provider : Providers, state : {"unready"}]
  BY <1>2, CreateAccountWrites DEF WritesRow
<1>3. CASE q \in [op : {"pool.create"}, id : Pools, provider : Providers, members : SeqOf(Accounts, 1)]
  <2>1. q \in [op : {"pool.create"}, id : Pools, provider : Providers, members : Seq(Accounts)]
    BY <1>3, MembersTyped
  <2> QED
    BY <2>1, CreatePoolWrites DEF WritesRow
<1>4. CASE q \in [op : {"profile.create"}, id : Profiles, provider : Providers \cup {None},
                  pool : Pools \cup {None}]
  BY <1>4, CreateProfileWrites DEF WritesRow
<1> QED
  BY <1>1, <1>2, <1>3, <1>4 DEF Creations

\* A row a client has read: it was there, in one of the tables.
RowRead(f) ==
  /\ f.table \in DOMAIN Kinds /\ f.id \in Kinds[f.table]
  /\ f.row.version \in Nat \ {0}

\* The page's updates name the row and the version it was read at.
LEMMA EditNames ==
  ASSUME NEW f, RowRead(f), NEW q \in Edits(f)
  PROVE  /\ q.table = f.table /\ q.id = f.id /\ q.version = f.row.version
         /\ "version" \in DOMAIN q
<1>1. f.table \in {"providers", "accounts", "pools", "profiles"}
  BY KindsFacts DEF RowRead
<1>2. CASE f.table = "providers"
  BY <1>2 DEF Edits, ProviderEdits
<1>3. CASE f.table = "accounts"
  BY <1>3 DEF Edits, AccountEdits
<1>4. CASE f.table = "pools"
  BY <1>4 DEF Edits, PoolEdits
<1>5. CASE f.table = "profiles"
  BY <1>5 DEF Edits, ProfileEdits
<1> QED
  BY <1>1, <1>2, <1>3, <1>4, <1>5

LEMMA EditWrites ==
  ASSUME tables \in Tables, NEW f, RowRead(f), NEW q \in Edits(f), Mutate(q), tables' # tables
  PROVE  WritesRow
<1> DEFINE id == f.id
           v == f.row.version
<1>0. v \in Nat \ {0}
  BY DEF RowRead
<1>1. f.table \in {"providers", "accounts", "pools", "profiles"}
  BY KindsFacts DEF RowRead
<1>2. CASE f.table = "providers"
  <2>1. id \in Providers /\ q \in ProviderEdits(f)
    BY <1>2, KindsFacts DEF RowRead, Edits
  <2>2. q \in [op : {"provider.update"}, table : {"providers"}, id : Providers, version : Nat \ {0},
               terms : Terms, enabled : BOOLEAN]
    BY <1>0, <2>1 DEF ProviderEdits
  <2> QED
    BY <2>2, UpdateProviderWrites DEF WritesRow
<1>3. CASE f.table = "accounts"
  <2>1. id \in Accounts /\ q \in AccountEdits(f)
    BY <1>3, KindsFacts DEF RowRead, Edits
  <2>2. \/ q \in [op : {"account.update"}, table : {"accounts"}, id : Accounts, version : Nat \ {0},
                  state : {"ready", "paused"}]
        \/ q \in [op : {"account.acknowledge-terms"}, table : {"accounts"}, id : Accounts,
                  version : Nat \ {0}, terms : Terms]
    BY <1>0, <2>1 DEF AccountEdits
  <2> QED
    BY <2>2, UpdateAccountWrites, AcknowledgeTermsWrites DEF WritesRow
<1>4. CASE f.table = "pools"
  <2>1. id \in Pools /\ q \in PoolEdits(f)
    BY <1>4, KindsFacts DEF RowRead, Edits
  <2>2. q \in [op : {"pool.update"}, table : {"pools"}, id : Pools, version : Nat \ {0},
               members : Seq(Accounts)]
    BY <1>0, <2>1, MembersTyped DEF PoolEdits
  <2> QED
    BY <2>2, UpdatePoolWrites DEF WritesRow
<1>5. CASE f.table = "profiles"
  <2>1. id \in Profiles /\ q \in ProfileEdits(f)
    BY <1>5, KindsFacts DEF RowRead, Edits
  <2>2. q \in [op : {"profile.update"}, table : {"profiles"}, id : Profiles, version : Nat \ {0},
               provider : Providers \cup {None}, pool : Pools \cup {None}]
    BY <1>0, <2>1 DEF ProfileEdits
  <2> QED
    BY <2>2, UpdateProfileWrites DEF WritesRow
<1> QED
  BY <1>1, <1>2, <1>3, <1>4, <1>5

\* The credential service binds a generation to the account it has read.
LEMMA BindingWrites ==
  ASSUME tables \in Tables, NEW f, RowRead(f), f.table = "accounts", f.row.generation \in Nat,
         NEW q \in Bindings(f), Mutate(q), tables' # tables
  PROVE  WritesRow
<1>1. f.id \in Accounts /\ f.row.version \in Nat \ {0} /\ f.row.generation + 1 \in Nat
  BY KindsFacts DEF RowRead
<1>2. q \in [op : {"account.bind-credential"}, table : {"accounts"}, id : Accounts,
             version : Nat \ {0}, generation : Nat, state : {"ready", "unready"}]
  BY <1>1 DEF Bindings
<1> QED
  BY <1>2, BindCredentialWrites DEF WritesRow

\* A route outcome is a version of its own of the account, which settles to what
\* the policy says of it.
LEMMA OutcomeWrites ==
  ASSUME tables \in Tables, NEW a \in Accounts, NEW success \in BOOLEAN, NEW cool \in BOOLEAN,
         RecordRouteOutcome(a, success, cool)
  PROVE  /\ WritesAccount
         /\ tables'.providers = tables.providers /\ tables'.pools = tables.pools
         /\ tables'.profiles = tables.profiles
         /\ Settled(tables'.accounts) = Settled(tables.accounts)
<1> DEFINE c == IF success THEN FALSE ELSE cool
           row == [[tables.accounts[a] EXCEPT !.cooling = c]
                     EXCEPT !.version = tables.accounts[a].version + 1]
           health == [failures |-> IF success THEN 0 ELSE tables.health[a].failures + 1,
                      cooling |-> c]
           h == [tables.health EXCEPT ![a] = health]
<1>1. Exists("accounts", a) /\ tables.accounts[a] \in AccountRow
  BY RowFacts DEF RecordRouteOutcome
<1>2. tables.accounts[a].version + 1 \in Nat \ {0} /\ c \in BOOLEAN
  <2>1. tables.accounts[a].version + 1 \in Nat \ {0}
    BY RowFacts
  <2>2. c \in BOOLEAN
    OBVIOUS
  <2> QED
    BY <2>1, <2>2
<1>3. tables' = [tables EXCEPT !.accounts[a] = row, !.health = h]
  BY DEF RecordRouteOutcome, Replace, Tables
<1>4. h \in [Accounts -> HealthRow]
  <2>1. tables.health \in [Accounts -> HealthRow]
    BY DEF Tables
  <2>2. health \in HealthRow
    <3>1. (IF success THEN 0 ELSE tables.health[a].failures + 1) \in Nat
      BY <2>1 DEF HealthRow
    <3> QED
      BY <1>2, <3>1 DEF HealthRow
  <2> QED
    BY <2>1, <2>2
<1>5. /\ row \in AccountRow /\ row.version = tables.accounts[a].version + 1
      /\ row.provider = tables.accounts[a].provider
      /\ [row EXCEPT !.cooling = FALSE, !.version = 1]
           = [tables.accounts[a] EXCEPT !.cooling = FALSE, !.version = 1]
  <2> DEFINE m == [tables.accounts[a] EXCEPT !.cooling = c]
  <2> HIDE DEF c
  <2>1. m \in AccountRow /\ m.provider = tables.accounts[a].provider
    BY <1>1, <1>2 DEF AccountRow
  <2>2. [m EXCEPT !.cooling = FALSE, !.version = 1]
           = [tables.accounts[a] EXCEPT !.cooling = FALSE, !.version = 1]
    BY DEF m
  <2> HIDE DEF m
  <2>3. row = [m EXCEPT !.version = tables.accounts[a].version + 1]
    BY DEF m
  <2>4. [row EXCEPT !.cooling = FALSE, !.version = 1] = [m EXCEPT !.cooling = FALSE, !.version = 1]
    BY <2>3
  <2>5. row \in AccountRow /\ row.provider = m.provider
    BY <1>2, <2>1, <2>3 DEF AccountRow
  <2> QED
    BY <1>2, <2>1, <2>2, <2>3, <2>4, <2>5 DEF AccountRow
<1> HIDE DEF row, h, c, health
<1>6. WritesAccount
  BY <1>3, <1>4, <1>5 DEF WritesAccount
<1>7. /\ tables'.accounts = [tables.accounts EXCEPT ![a] = row]
      /\ tables'.providers = tables.providers /\ tables'.pools = tables.pools
      /\ tables'.profiles = tables.profiles
  BY <1>3, <1>4, <1>5, AccountWritten
<1>8. tables.accounts \in [Accounts -> AccountRow \cup {NoRow}]
  BY DEF Tables
<1>9. row.version # 0 /\ tables.accounts[a].version # 0
  BY <1>1, <1>2, <1>5, RowFacts DEF Exists
<1>10. ASSUME NEW b \in Accounts
       PROVE  Settled(tables'.accounts)[b] = Settled(tables.accounts)[b]
  <2>1. CASE b = a
    BY <1>5, <1>7, <1>8, <1>9, <2>1 DEF Settled
  <2>2. CASE b # a
    BY <1>7, <1>8, <2>2 DEF Settled
  <2> QED
    BY <2>1, <2>2
<1>11. Settled(tables'.accounts) = Settled(tables.accounts)
  BY <1>10 DEF Settled
<1> QED
  BY <1>6, <1>7, <1>11

-----------------------------------------------------------------------------
(* The inductive invariant.                                                *)

\* Every row a client holds was once in its table, and whatever has changed since
\* has moved the row's version past the one the client read.
FormsKnown ==
  \A c \in Clients : form[c] # NoForm =>
    /\ RowRead(form[c])
    /\ c = System => form[c].table = "accounts" /\ form[c].row.generation \in Nat
    /\ form[c].row.version <= tables[form[c].table][form[c].id].version
    /\ tables[form[c].table][form[c].id].version = form[c].row.version
         => tables[form[c].table][form[c].id] = form[c].row

Shapes == DOMAIN form = Clients /\ DOMAIN tab = Tabs
IInv == tables \in Tables /\ ReferencesAgree /\ PolicyIsCurrent /\ Shapes /\ FormsKnown

\* A new store refers to nothing, and nobody has read it.
LEMMA Initially == InitStore /\ InitSessions => IInv
<1> SUFFICES ASSUME InitStore, InitSessions PROVE IInv
  OBVIOUS
<1>1. tables \in Tables
  <2>1. [failures |-> 0, cooling |-> FALSE] \in HealthRow
    BY DEF HealthRow
  <2> QED
    BY <2>1 DEF InitStore, Tables
<1>2. ReferencesAgree
  BY DEF InitStore, ReferencesAgree, Exists, NoRow
<1>3. PolicyIsCurrent
  BY DEF InitStore, PolicyIsCurrent
<1>4. Shapes /\ FormsKnown
  BY DEF InitSessions, Shapes, FormsKnown, Clients
<1> QED
  BY <1>1, <1>2, <1>3, <1>4 DEF IInv

\* Every accepted mutation publishes what the tables are then.
LEMMA MutationPublished ==
  ASSUME PolicyIsCurrent, NEW q, Mutate(q)
  PROVE  PolicyIsCurrent' /\ (tables' # tables => Accepted(q))
<1>1. CASE Accepted(q)
  <2>1. policy'.snapshot = Snapshot(tables')
    BY <1>1 DEF Mutate
  <2> QED
    BY <1>1, <2>1 DEF PolicyIsCurrent, Snapshot
<1>2. CASE ~Accepted(q)
  BY <1>2 DEF Mutate, PolicyIsCurrent, Snapshot
<1> QED
  BY <1>1, <1>2

\* What a tab submits, and what it gets.
LEMMA Submitted ==
  ASSUME IInv, NEW t \in Tabs, Submit(t), storeVars' # storeVars
  PROVE  \E q : /\ Mutate(q) /\ UNCHANGED form
                /\ q \in IF form[t] = NoForm THEN Creations ELSE Edits(form[t])
  BY DEF Submit

\* The tables change by one written row, and the policy follows.
LEMMA StoreMoves ==
  IInv /\ [Next]_vars => (UNCHANGED tables \/ WritesRow) /\ PolicyIsCurrent'
<1> SUFFICES ASSUME IInv, [Next]_vars PROVE (UNCHANGED tables \/ WritesRow) /\ PolicyIsCurrent'
  OBVIOUS
<1> USE DEF IInv
<1>1. ASSUME NEW t \in Tabs, Submit(t), storeVars' # storeVars
      PROVE  (UNCHANGED tables \/ WritesRow) /\ PolicyIsCurrent'
  <2>1. PICK q : /\ Mutate(q)
                 /\ q \in IF form[t] = NoForm THEN Creations ELSE Edits(form[t])
    BY <1>1, Submitted
  <2>2. form[t] # NoForm => RowRead(form[t])
    BY DEF FormsKnown, Clients
  <2>3. PolicyIsCurrent'
    BY <2>1, MutationPublished
  <2>4. tables' # tables => WritesRow
    <3>1. CASE form[t] = NoForm
      BY <2>1, <3>1, CreationWrites
    <3>2. CASE form[t] # NoForm
      BY <2>1, <2>2, <3>2, EditWrites
    <3> QED
      BY <3>1, <3>2
  <2> QED
    BY <2>3, <2>4
<1>2. CASE Bind
  <2>1. PICK q \in Bindings(form[System]) : Mutate(q)
    BY <1>2 DEF Bind
  <2>2. /\ RowRead(form[System]) /\ form[System].table = "accounts"
        /\ form[System].row.generation \in Nat
    BY <1>2 DEF Bind, FormsKnown, Clients
  <2>3. PolicyIsCurrent'
    BY <2>1, MutationPublished
  <2>4. tables' # tables => WritesRow
    BY <2>1, <2>2, BindingWrites
  <2> QED
    BY <2>3, <2>4
<1>3. CASE RouteOutcome
  <2>1. PICK a \in Accounts, success \in BOOLEAN, cool \in BOOLEAN :
          RecordRouteOutcome(a, success, cool)
    BY <1>3 DEF RouteOutcome
  <2>2. UNCHANGED policy
    BY <2>1 DEF RecordRouteOutcome
  <2> QED
    BY <2>1, <2>2, OutcomeWrites DEF WritesRow, PolicyIsCurrent, Snapshot
<1>4. CASE UNCHANGED storeVars
  BY <1>4 DEF storeVars, PolicyIsCurrent, Snapshot
<1> QED
  BY <1>1, <1>2, <1>3, <1>4 DEF Next, vars, IssueBootstrap, Expire, ExchangeBootstrap, Resume,
     Load, Refresh, Logout, Read

\* Forms are dropped, kept, or filled with a row that is there.
LEMMA FormsMove ==
  ASSUME IInv, [Next]_vars
  PROVE  /\ Shapes'
         /\ \A c \in Clients :
              \/ form'[c] = NoForm
              \/ form'[c] = form[c]
              \/ /\ UNCHANGED tables
                 /\ \E k \in IF c = System THEN {"accounts"} ELSE DOMAIN Kinds : \E id \in Kinds[k] :
                      /\ Exists(k, id)
                      /\ form'[c] = [table |-> k, id |-> id, row |-> tables[k][id]]
<1> USE DEF IInv, Shapes
<1>1. ASSUME NEW t \in Tabs, UNCHANGED form \/ form' = [form EXCEPT ![t] = NoForm],
             DOMAIN tab' = Tabs
      PROVE  /\ Shapes'
             /\ \A c \in Clients : form'[c] = NoForm \/ form'[c] = form[c]
  BY <1>1
<1>2. ASSUME NEW t \in Tabs,
             ExchangeBootstrap(t) \/ Resume(t) \/ Load(t) \/ Refresh(t) \/ Submit(t) \/ Logout(t)
      PROVE  /\ UNCHANGED form \/ form' = [form EXCEPT ![t] = NoForm]
             /\ DOMAIN tab' = Tabs
  <2>1. CASE ExchangeBootstrap(t)
    BY <2>1 DEF ExchangeBootstrap, Shows
  <2>2. CASE Resume(t)
    BY <2>2 DEF Resume, Shows, SignedOut
  <2>3. CASE Load(t)
    BY <2>3 DEF Load, Shows, SignedOut
  <2>4. CASE Refresh(t)
    BY <2>4 DEF Refresh
  <2>5. CASE Submit(t)
    BY <2>5 DEF Submit, Shows, SignedOut
  <2>6. CASE Logout(t)
    BY <2>6 DEF Logout, Shows, SignedOut
  <2> QED
    BY <1>2, <2>1, <2>2, <2>3, <2>4, <2>5, <2>6
<1>3. CASE Bind
  BY <1>3 DEF Bind
<1>4. ASSUME NEW c \in Clients, Read(c)
      PROVE  /\ Shapes' /\ UNCHANGED tables
             /\ \E k \in IF c = System THEN {"accounts"} ELSE DOMAIN Kinds : \E id \in Kinds[k] :
                  /\ Exists(k, id)
                  /\ form' = [form EXCEPT ![c] = [table |-> k, id |-> id, row |-> tables[k][id]]]
  BY <1>4 DEF Read, storeVars
<1>5. CASE UNCHANGED <<form, tab>>
  BY <1>5
<1>6. CASE \E c \in Clients : Read(c)
  <2>1. PICK c \in Clients : Read(c)
    BY <1>6
  <2>2. PICK k \in IF c = System THEN {"accounts"} ELSE DOMAIN Kinds : \E id \in Kinds[k] :
          /\ Exists(k, id)
          /\ form' = [form EXCEPT ![c] = [table |-> k, id |-> id, row |-> tables[k][id]]]
    BY <1>4, <2>1
  <2>5. PICK id \in Kinds[k] :
          /\ Exists(k, id)
          /\ form' = [form EXCEPT ![c] = [table |-> k, id |-> id, row |-> tables[k][id]]]
    BY <2>2
  <2>3. \A d \in Clients : d # c => form'[d] = form[d]
    BY <2>5
  <2>4. form'[c] = [table |-> k, id |-> id, row |-> tables[k][id]]
    BY <2>5
  <2> QED
    BY <1>4, <2>1, <2>2, <2>5, <2>3, <2>4
<1> QED
  BY <1>1, <1>2, <1>3, <1>5, <1>6 DEF Next, vars, mgmtVars, IssueBootstrap, Expire, RouteOutcome

\* A row moves on, or is still the one that was read.
LEMMA FormsStep == IInv /\ [Next]_vars => FormsKnown'
<1> SUFFICES ASSUME IInv, [Next]_vars, NEW c \in Clients, form'[c] # NoForm
             PROVE  /\ RowRead(form'[c])
                    /\ c = System => form'[c].table = "accounts" /\ form'[c].row.generation \in Nat
                    /\ form'[c].row.version <= tables'[form'[c].table][form'[c].id].version
                    /\ tables'[form'[c].table][form'[c].id].version = form'[c].row.version
                         => tables'[form'[c].table][form'[c].id] = form'[c].row
  BY DEF FormsKnown, RowRead
<1>1. CASE form'[c] = form[c]
  <2> DEFINE k == form[c].table
             id == form[c].id
             row == form[c].row
  <2>1. /\ RowRead(form[c])
        /\ c = System => k = "accounts" /\ row.generation \in Nat
        /\ row.version <= tables[k][id].version
        /\ tables[k][id].version = row.version => tables[k][id] = row
    BY <1>1 DEF IInv, FormsKnown
  <2>2. k \in DOMAIN Kinds /\ id \in Kinds[k] /\ row.version \in Nat
    BY <2>1 DEF RowRead
  <2>3. tables[k][id].version \in Nat
    BY <2>2, KindsFacts, RowFacts DEF IInv
  <2>4. tables'[k][id] = tables[k][id] \/ tables'[k][id].version = tables[k][id].version + 1
    BY <2>2, StoreMoves, RowsWritten DEF IInv, RowsMove
  <2> HIDE DEF k, id, row
  <2>5. row.version <= tables'[k][id].version
    BY <2>1, <2>2, <2>3, <2>4
  <2>6. tables'[k][id].version = row.version => tables'[k][id] = row
    BY <2>1, <2>2, <2>3, <2>4
  <2> QED
    BY <1>1, <2>1, <2>5, <2>6 DEF k, id, row
<1>2. CASE form'[c] # form[c]
  <2>0. PICK k \in IF c = System THEN {"accounts"} ELSE DOMAIN Kinds :
          /\ UNCHANGED tables
          /\ \E id \in Kinds[k] :
               /\ Exists(k, id)
               /\ form'[c] = [table |-> k, id |-> id, row |-> tables[k][id]]
    BY <1>2, FormsMove
  <2>1. PICK id \in Kinds[k] :
          /\ UNCHANGED tables
          /\ Exists(k, id)
          /\ form'[c] = [table |-> k, id |-> id, row |-> tables[k][id]]
    BY <2>0
  <2>2. k \in DOMAIN Kinds /\ (c = System => k = "accounts")
    BY <2>0, KindsFacts
  <2>3. tables[k][id].version \in Nat \ {0}
    BY <2>1, <2>2, KindsFacts, RowFacts DEF IInv, Exists
  <2>4. k = "accounts" => tables[k][id].generation \in Nat
    BY <2>1, <2>2, KindsFacts, RowFacts DEF IInv, AccountRow
  <2>5. form'[c].table = k /\ form'[c].id = id /\ form'[c].row = tables[k][id]
    BY <2>1
  <2> QED
    BY <2>1, <2>2, <2>3, <2>4, <2>5 DEF RowRead
<1> QED
  BY <1>1, <1>2

\* The inductive invariant of the store and its writers.
THEOREM Invariance == Spec => []IInv
<1>1. IInv /\ [Next]_vars => IInv'
  <2> SUFFICES ASSUME IInv, [Next]_vars PROVE IInv'
    OBVIOUS
  <2>1. tables' \in Tables /\ ReferencesAgree'
    <3>1. CASE UNCHANGED tables
      BY <3>1 DEF IInv, ReferencesAgree, ValidMembers, AssertProfileRefs, Exists
    <3>2. CASE WritesRow
      BY <3>2, RowsWritten, ReferencesKept DEF IInv
    <3> QED
      BY <3>1, <3>2, StoreMoves
  <2> QED
    BY <2>1, StoreMoves, FormsMove, FormsStep DEF IInv
<1> QED
  BY Initially, <1>1, PTL DEF Spec

\* Whatever is created, repointed and refused in whatever order: pools have members
\* of their provider, and profiles name a provider and a pool that go together.
THEOREM References == Spec => []ReferencesAgree
<1>1. IInv => ReferencesAgree
  BY DEF IInv
<1> QED
  BY Invariance, <1>1, PTL

\* The newest policy revision is what the tables say, up to cooldowns.
THEOREM PolicyCurrent == Spec => []PolicyIsCurrent
<1>1. IInv => PolicyIsCurrent
  BY DEF IInv
<1> QED
  BY Invariance, <1>1, PTL

\* No update that is accepted, of any tab or of the credential service, overwrites
\* a change its author has not seen.
THEOREM NothingLost == Spec => NoLostUpdate
<1> DEFINE A == \A c \in Clients :
       /\ form[c] # NoForm
       /\ tables' # tables
       /\ \/ c \in Tabs /\ tab[c].at = "ready" /\ tab'[c].at = "load"
          \/ c = System /\ form'[c] = NoForm
       => tables[form[c].table][form[c].id] = form[c].row
<1>1. IInv /\ [Next]_vars => A
  <2> SUFFICES ASSUME IInv, [Next]_vars, NEW c \in Clients, form[c] # NoForm, tables' # tables,
                      \/ c \in Tabs /\ tab[c].at = "ready" /\ tab'[c].at = "load"
                      \/ c = System /\ form'[c] = NoForm
               PROVE  tables[form[c].table][form[c].id] = form[c].row
    OBVIOUS
  <2>1. RowRead(form[c])
    BY DEF IInv, FormsKnown
  <2>2. SUFFICES tables[form[c].table][form[c].id].version = form[c].row.version
    BY DEF IInv, FormsKnown
  <2>3. ASSUME NEW t \in Tabs, Submit(t)
        PROVE  tables[form[c].table][form[c].id].version = form[c].row.version
    <3>1. PICK q : /\ Mutate(q) /\ UNCHANGED form
                   /\ q \in IF form[t] = NoForm THEN Creations ELSE Edits(form[t])
      BY <2>3, Submitted DEF storeVars
    <3>2. \A d \in Tabs : d # t => tab'[d] = tab[d]
      BY <2>3 DEF Submit, SignedOut, Shows, IInv, Shapes
    <3>3. c = t
      BY <3>1, <3>2
    <3>4. Accepted(q)
      BY <3>1, MutationPublished DEF IInv
    <3>5. q \in Edits(form[c])
      BY <3>1, <3>3
    <3> QED
      BY <2>1, <3>4, <3>5, EditNames DEF Accepted, AssertCurrentVersion
  <2>4. CASE Bind
    <3>1. PICK q \in Bindings(form[System]) : Mutate(q)
      BY <2>4 DEF Bind
    <3>2. c = System
      BY <2>4 DEF Bind
    <3>3. Accepted(q)
      BY <3>1, MutationPublished DEF IInv
    <3>4. form[c].table = "accounts"
      BY <3>2 DEF IInv, FormsKnown
    <3> QED
      BY <3>1, <3>2, <3>3, <3>4 DEF Bindings, Accepted, AssertCurrentVersion
  <2>5. CASE RouteOutcome
    BY <2>5 DEF RouteOutcome, mgmtVars
  <2> QED
    BY <2>3, <2>4, <2>5 DEF Next, vars, storeVars, IssueBootstrap, Expire, ExchangeBootstrap,
       Resume, Load, Refresh, Logout, Read
<1> QED
  BY Invariance, <1>1, PTL DEF Spec, NoLostUpdate

=============================================================================
