----------------------------- MODULE Management -----------------------------
(***************************************************************************)
(* The management listener and its clients: bootstrap tokens and browser   *)
(* sessions (management/session-store.ts), the authorizer (auth.ts), the   *)
(* collection routes (collections.ts), the page's script (ui/client.ts) in *)
(* several tabs of one browser, which share the session cookie but not the *)
(* CSRF token, and the credential service and the router as the store's    *)
(* other writers.                                                          *)
(*                                                                         *)
(* A request, its handler and its response are one step; the request that  *)
(* the page sends on its own after a response (load, resume) is another.   *)
(***************************************************************************)
EXTENDS ControlPlane

CONSTANTS
  Tabs,         \* tabs of the user's browser
  System,       \* the credential service, a writer that needs no session
  MaxSessions,  \* bound: bootstrap tokens issued
  MaxTokens     \* bound: CSRF tokens minted

ASSUME ClientAssumption == System \notin Tabs

VARIABLES
  bootstraps,  \* one-use tokens that are still live
  sessions,    \* live sessions: id -> current CSRF token
  cookie,      \* the session cookie of the browser, or 0
  tab,         \* each tab: where it is, its CSRF token, the message it shows
  form,        \* the row each client has read and edits, or NoForm
  minted       \* bootstrap tokens and CSRF tokens so far

mgmtVars == <<bootstraps, sessions, cookie, tab, form, minted>>
vars == <<storeVars, mgmtVars>>

NoForm == [table |-> None]
Clients == Tabs \cup {System}
Kinds == [providers |-> Providers, accounts |-> Accounts, pools |-> Pools, profiles |-> Profiles]

InitSessions ==
  /\ bootstraps = {}
  /\ sessions = <<>>
  /\ cookie = 0
  /\ tab = [t \in Tabs |-> [at |-> "closed", csrf |-> 0, says |-> None]]
  /\ form = [c \in Clients |-> NoForm]
  /\ minted = [bootstraps |-> 0, csrf |-> 0]

TypeOK ==
  /\ StoreTypeOK
  /\ bootstraps \subseteq 1..MaxSessions
  /\ DOMAIN sessions \subseteq 1..MaxSessions
  /\ \A id \in DOMAIN sessions : sessions[id] \in 1..MaxTokens
  /\ cookie \in 0..MaxSessions
  /\ tab \in [Tabs -> [at : {"closed", "load", "ready", "resume", "gate"}, csrf : 0..MaxTokens,
                      says : {None, "established", "recovered", "expired", "missing", "logged-out"}]]
  /\ \A c \in Clients : form[c] # NoForm =>
       form[c].table \in DOMAIN Kinds /\ form[c].id \in Kinds[form[c].table]
  /\ minted \in [bootstraps : 0..MaxSessions, csrf : 0..MaxTokens]

Live(id) == id \in DOMAIN sessions
Shows(t, at, csrf, says) == tab' = [tab EXCEPT ![t] = [at |-> at, csrf |-> csrf, says |-> says]]
SignedOut(t, says) == Shows(t, "gate", 0, says) /\ form' = [form EXCEPT ![t] = NoForm]

-----------------------------------------------------------------------------
(* Sessions.                                                               *)

\* rly admin ui asks, with the management token, for a bootstrap token.
IssueBootstrap ==
  /\ minted.bootstraps < MaxSessions
  /\ minted' = [minted EXCEPT !.bootstraps = @ + 1]
  /\ bootstraps' = bootstraps \cup {minted'.bootstraps}
  /\ UNCHANGED <<storeVars, sessions, cookie, tab, form>>

\* The page exchanges it, once, for a session and a CSRF token.  The cookie is
\* the browser's: every tab now sends the new session.
ExchangeBootstrap(t) ==
  /\ tab[t].at \in {"closed", "gate"} /\ minted.csrf < MaxTokens
  /\ \E token \in bootstraps :
       /\ bootstraps' = bootstraps \ {token}
       /\ sessions' = [i \in DOMAIN sessions \cup {token} |->
                         IF i = token THEN minted.csrf + 1 ELSE sessions[i]]
       /\ cookie' = token
       /\ Shows(t, "load", minted.csrf + 1, "established")
  /\ minted' = [minted EXCEPT !.csrf = @ + 1]
  /\ UNCHANGED <<storeVars, form>>

\* rotateCsrf: a page opened or recovered without a token gets a new CSRF token
\* for the cookie's session, and every other tab's token stops matching.
Resume(t) ==
  /\ tab[t].at \in {"closed", "resume"} /\ cookie # 0
  /\ IF Live(cookie)
     THEN /\ minted.csrf < MaxTokens
          /\ minted' = [minted EXCEPT !.csrf = @ + 1]
          /\ sessions' = [sessions EXCEPT ![cookie] = minted'.csrf]
          /\ Shows(t, IF tab[t].at = "closed" THEN "load" ELSE "ready", minted'.csrf, "recovered")
          /\ UNCHANGED form
     ELSE SignedOut(t, "expired") /\ UNCHANGED <<sessions, minted>>
  /\ UNCHANGED <<storeVars, bootstraps, cookie>>

Expire ==
  /\ \/ \E b \in bootstraps : bootstraps' = bootstraps \ {b} /\ UNCHANGED sessions
     \/ \E i \in DOMAIN sessions :
          /\ sessions' = [j \in DOMAIN sessions \ {i} |-> sessions[j]]
          /\ UNCHANGED bootstraps
  /\ UNCHANGED <<storeVars, cookie, tab, form, minted>>

-----------------------------------------------------------------------------
(* The page.                                                               *)

\* GET of the collections: a session, no CSRF token.  Rendering drops the form.
Load(t) ==
  /\ tab[t].at = "load"
  /\ IF Live(cookie)
     THEN tab' = [tab EXCEPT ![t].at = "ready"] /\ form' = [form EXCEPT ![t] = NoForm]
     ELSE SignedOut(t, "missing")
  /\ UNCHANGED <<storeVars, bootstraps, sessions, cookie, minted>>

Refresh(t) ==
  /\ tab[t].at = "ready"
  /\ tab' = [tab EXCEPT ![t].at = "load"]
  /\ UNCHANGED <<storeVars, bootstraps, sessions, cookie, form, minted>>

\* A row of the list just loaded is opened in the form; the credential service
\* reads the account it is about to refresh.
Read(c) ==
  /\ c \in Tabs => tab[c].at = "ready" /\ Live(cookie)
  /\ form[c] = NoForm
  /\ \E table \in IF c = System THEN {"accounts"} ELSE DOMAIN Kinds : \E id \in Kinds[table] :
       /\ Exists(table, id)
       /\ form' = [form EXCEPT ![c] = [table |-> table, id |-> id, row |-> tables[table][id]]]
  /\ UNCHANGED <<storeVars, bootstraps, sessions, cookie, tab, minted>>

\* What a page can ask for: each form's fields, and the version of the row read.
ProviderEdits(f) ==
  [op : {"provider.update"}, table : {"providers"}, id : {f.id}, version : {f.row.version},
   terms : Terms, enabled : BOOLEAN]
AccountEdits(f) ==
  [op : {"account.update"}, table : {"accounts"}, id : {f.id}, version : {f.row.version},
   state : {"ready", "paused"}]
    \cup [op : {"account.acknowledge-terms"}, table : {"accounts"}, id : {f.id},
          version : {f.row.version}, terms : Terms]
PoolEdits(f) ==
  [op : {"pool.update"}, table : {"pools"}, id : {f.id}, version : {f.row.version},
   members : SeqOf(Accounts, 2)]
ProfileEdits(f) ==
  [op : {"profile.update"}, table : {"profiles"}, id : {f.id}, version : {f.row.version},
   provider : Providers \cup {None}, pool : Pools \cup {None}]

Edits(f) ==
  CASE f.table = "providers" -> ProviderEdits(f)
    [] f.table = "accounts" -> AccountEdits(f)
    [] f.table = "pools" -> PoolEdits(f)
    [] f.table = "profiles" -> ProfileEdits(f)

Creations ==
  [op : {"provider.create"}, id : Providers, terms : Terms \cup {None}]
    \cup [op : {"account.create"}, id : Accounts, provider : Providers, state : {"unready"}]
    \cup [op : {"pool.create"}, id : Pools, provider : Providers, members : SeqOf(Accounts, 1)]
    \cup [op : {"profile.create"}, id : Profiles, provider : Providers \cup {None},
          pool : Pools \cup {None}]

\* The authorizer: a live session, and its CSRF token on a mutation.
Authorized(t) == Live(cookie) /\ sessions[cookie] = tab[t].csrf

\* handleError and finishSave: 401 shows the gate, 403 resumes, 409 and success
\* reload.
Submit(t) ==
  /\ tab[t].at = "ready"
  /\ \E q \in IF form[t] = NoForm THEN Creations ELSE Edits(form[t]) :
       IF Authorized(t)
       THEN /\ Mutate(q)
            /\ tab' = [tab EXCEPT ![t].at = IF Accepted(q) \/ ~AssertCurrentVersion(q)
                                            THEN "load" ELSE "ready"]
            /\ UNCHANGED form
       ELSE /\ IF Live(cookie)
               THEN tab' = [tab EXCEPT ![t].at = "resume"] /\ UNCHANGED form
               ELSE SignedOut(t, "missing")
            /\ UNCHANGED storeVars
  /\ UNCHANGED <<bootstraps, sessions, cookie, minted>>

\* The page shows "Logged out." whatever the answer is.
Logout(t) ==
  /\ tab[t].at = "ready"
  /\ IF Authorized(t)
     THEN /\ sessions' = [i \in DOMAIN sessions \ {cookie} |-> sessions[i]]
          /\ cookie' = 0
     ELSE UNCHANGED <<sessions, cookie>>
  /\ SignedOut(t, "logged-out")
  /\ UNCHANGED <<storeVars, bootstraps, minted>>

-----------------------------------------------------------------------------
(* The store's other writers.                                              *)

\* A refresh ends by binding the generation it committed to the account at the
\* version it read before the exchange.
Bindings(f) ==
  [op : {"account.bind-credential"}, table : {"accounts"}, id : {f.id}, version : {f.row.version},
   generation : {f.row.generation + 1}, state : {"ready", "unready"}]

Bind ==
  /\ form[System] # NoForm
  /\ \E q \in Bindings(form[System]) : Mutate(q)
  /\ form' = [form EXCEPT ![System] = NoForm]
  /\ UNCHANGED <<bootstraps, sessions, cookie, tab, minted>>

RouteOutcome ==
  /\ \E a \in Accounts, success, cool \in BOOLEAN : RecordRouteOutcome(a, success, cool)
  /\ UNCHANGED mgmtVars

Next ==
  \/ IssueBootstrap \/ Expire \/ Bind \/ RouteOutcome
  \/ \E t \in Tabs : ExchangeBootstrap(t) \/ Resume(t) \/ Load(t) \/ Refresh(t)
                       \/ Submit(t) \/ Logout(t)
  \/ \E c \in Clients : Read(c)

\* From a store in which nothing was created yet.
Spec == InitStore /\ InitSessions /\ [][Next]_vars

-----------------------------------------------------------------------------
\* An update is applied only to the row its client read: whatever tabs, the
\* credential service and the router did in between, no accepted update
\* overwrites a change its author has not seen.
NoLostUpdate ==
  [][\A c \in Clients :
       /\ form[c] # NoForm
       /\ tables' # tables
       /\ \/ c \in Tabs /\ tab[c].at = "ready" /\ tab'[c].at = "load"
          \/ c = System /\ form'[c] = NoForm
       => tables[form[c].table][form[c].id] = form[c].row]_vars

\* A tab that says "Logged out." belongs to a browser that holds no session the
\* listener still honours, unless the user has signed in again since.
LoggedOutMeansRevoked ==
  [][\A t \in Tabs : tab[t].says # "logged-out" /\ tab'[t].says = "logged-out"
       => cookie \notin DOMAIN sessions']_vars
=============================================================================
