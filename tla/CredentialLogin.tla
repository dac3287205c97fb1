--------------------------- MODULE CredentialLogin ---------------------------
(***************************************************************************)
(* Connecting accounts: the OAuth login of the gateway, with its callback  *)
(* server, its sessions and the promise that waits for it                  *)
(* (src/credentials/oauth-login.ts, oauth-session.ts, broker.ts), and the  *)
(* service that attaches what a login or an import obtained to an account  *)
(* (src/credentials/service.ts), as its management routes call them.       *)
(*                                                                         *)
(* One gateway process.  A credential is named by the attempt, a login or  *)
(* an import, that obtained it; refreshes are those of CredentialRefresh.  *)
(***************************************************************************)
EXTENDS Naturals

CONSTANTS
  Providers,    \* OAuth providers, each with credentials of its own
  Names,        \* pseudonyms
  Codex,        \* the one of them whose credentials can be imported
  NoProvider,   \* none of them
  MaxAttempts   \* bound on logins and imports

VARIABLES
  up,         \* does the gateway run?
  attempt,    \* each attempt: what it asked for, its stage, whether it was cancelled
  awaited,    \* the logins whose outcome a request waits for
  sessions,   \* the logins whose state can be consumed
  flow,       \* the coordinator and the service's pending login
  stored,     \* the credentials on disk
  revoking,   \* the credentials being revoked
  accounts    \* (provider, pseudonym) -> the account row

loginVars == <<up, attempt, awaited, sessions, flow, stored, revoking, accounts>>
disk == <<stored, revoking, accounts>>

Attempts == 1..MaxAttempts
None == 0
Unused == [stage |-> "none", provider |-> NoProvider, name |-> NoProvider, cancelled |-> FALSE]
Attempt == [stage : {"none", "listening", "open", "exchanging", "over"},
            provider : Providers \cup {NoProvider}, name : Names \cup {NoProvider},
            cancelled : BOOLEAN]

\* callback: the login whose server listens; settlers: the login whose promise
\* they settle; pending: the provider the next outcome is attached to;
\* finishing: the login whose outcome is told on completion; failing: the
\* credentials being revoked because they could not be attached, and for whom.
Flow == [callback : {None} \cup Attempts, busy : BOOLEAN,
         settlers : {None} \cup Attempts, pending : Providers \cup {NoProvider},
         finishing : {None} \cup Attempts, failing : SUBSET (Attempts \X Attempts)]
AccountRow == [state : {"none", "ready", "revoked"}, credential : {None} \cup Attempts]

LoginTypeOK ==
  /\ up \in BOOLEAN
  /\ attempt \in [Attempts -> Attempt]
  /\ awaited \subseteq Attempts /\ sessions \subseteq Attempts
  /\ flow \in Flow
  /\ stored \subseteq Attempts /\ revoking \subseteq Attempts
  /\ accounts \in [Providers \X Names -> AccountRow]

LoginInit ==
  /\ up = TRUE
  /\ attempt = [n \in Attempts |-> Unused]
  /\ awaited = {} /\ sessions = {}
  /\ flow = [callback |-> None, busy |-> FALSE, settlers |-> None,
             pending |-> NoProvider, finishing |-> None, failing |-> {}]
  /\ stored = {} /\ revoking = {}
  /\ accounts = [a \in Providers \X Names |-> [state |-> "none", credential |-> None]]

\* Attempts are numbered as they are made.
Fresh(n) == attempt[n].stage = "none" /\ \A m \in 1..(n - 1) : attempt[m].stage # "none"
Asked(stage, provider, name) ==
  [stage |-> stage, provider |-> provider, name |-> name, cancelled |-> FALSE]

\* close forgets the server and lets another login start.
Closed(state) == [state EXCEPT !.callback = None, !.busy = FALSE]

-----------------------------------------------------------------------------
(* Attaching a credential to its account.                                  *)

\* The account's former credential is revoked in the background.
Attach(n, row) ==
  /\ accounts' = [accounts EXCEPT ![row] = [state |-> "ready", credential |-> n]]
  /\ revoking' = IF accounts[row].credential = None THEN revoking
                 ELSE revoking \cup {accounts[row].credential}

\* A credential of another provider is revoked instead.
Rejects(n) == revoking' = revoking \cup {n} /\ UNCHANGED accounts

\* An error that no request waits for ends the process.
Throws(k) == up' = (k \in {None} \cup awaited)

-----------------------------------------------------------------------------
(* Login.                                                                  *)

StartLogin(n, provider, name) ==
  /\ up /\ Fresh(n)
  /\ flow.callback = None /\ ~flow.busy
  /\ attempt' = [attempt EXCEPT ![n] = Asked("listening", provider, name)]
  /\ flow' = [flow EXCEPT !.busy = TRUE]
  /\ UNCHANGED <<up, awaited, sessions, disk>>

\* The server listens; its promise, its session and the service's wait for it
\* are made.
Listens(n) ==
  /\ up /\ attempt[n].stage = "listening" /\ flow.callback = None
  /\ attempt' = [attempt EXCEPT ![n].stage = "open"]
  /\ sessions' = sessions \cup {n}
  /\ flow' = [flow EXCEPT !.callback = n, !.settlers = n,
                          !.pending = attempt[n].provider, !.finishing = n]
  /\ UNCHANGED <<up, awaited, disk>>

\* The port is taken, by a login of this process or by another process.
CannotListen(n) ==
  /\ up /\ attempt[n].stage = "listening"
  /\ attempt' = [attempt EXCEPT ![n].stage = "over"]
  /\ flow' = Closed(flow)
  /\ UNCHANGED <<up, awaited, sessions, disk>>

\* POST /v1/credentials/login/complete waits for the login under way.
CompleteLogin ==
  /\ up /\ flow.finishing \notin {None} \cup awaited
  /\ awaited' = awaited \cup {flow.finishing}
  /\ UNCHANGED <<up, attempt, sessions, flow, disk>>

\* The promise under way is rejected, whoever it is of.
Fails(state) ==
  /\ Throws(flow.settlers)
  /\ flow' = [state EXCEPT !.settlers = None]

\* Any state cancels the login under way, and the one that is about to listen.
CancelLogin(n) ==
  /\ up /\ attempt[n].stage \in {"open", "exchanging", "over"}
  /\ sessions' = sessions \ {n}
  /\ attempt' = [m \in Attempts |->
       [attempt[m] EXCEPT !.cancelled = @ \/ m = flow.settlers \/ attempt[m].stage = "listening"
                                          \/ (m = n /\ attempt[n].stage # "over"),
                          !.stage = IF m = n /\ @ = "open" THEN "over" ELSE @]]
  /\ Fails(Closed([flow EXCEPT !.pending = NoProvider, !.finishing = None]))
  /\ UNCHANGED <<awaited, disk>>

\* The browser comes back with a code; a state is consumed once.
Callback(n) ==
  /\ up /\ flow.callback # None /\ n \in sessions
  /\ sessions' = sessions \ {n}
  /\ attempt' = [attempt EXCEPT ![n].stage = "exchanging"]
  /\ UNCHANGED <<up, awaited, flow, disk>>

\* The state expired, or the provider or the store refused.
LoginFails(n) ==
  /\ up
  /\ \/ attempt[n].stage = "exchanging" /\ UNCHANGED sessions
     \/ flow.callback # None /\ n \in sessions /\ sessions' = sessions \ {n}
  /\ attempt' = [attempt EXCEPT ![n].stage = "over"]
  /\ Fails(Closed(flow))
  /\ UNCHANGED <<awaited, disk>>

\* The credential is stored; what waits for the login under way attaches it to
\* the provider of that one.  Then the server closes, whichever login it is of:
\* setImmediate comes before the next request.
LoginSucceeds(n) ==
  LET k == flow.settlers
      after == [Closed(flow) EXCEPT !.settlers = None]
  IN /\ up /\ attempt[n].stage = "exchanging"
     /\ attempt' = [attempt EXCEPT ![n].stage = "over"]
     /\ stored' = stored \cup {n}
     /\ \/ /\ k = None \/ flow.pending = NoProvider
           /\ Throws(k) /\ flow' = after
           /\ UNCHANGED <<revoking, accounts>>
        \/ /\ k # None /\ flow.pending = attempt[n].provider
           /\ Attach(n, <<flow.pending, attempt[n].name>>)
           /\ flow' = [after EXCEPT !.pending = NoProvider]
           /\ UNCHANGED up
        \/ /\ k # None /\ flow.pending \notin {NoProvider, attempt[n].provider}
           /\ Rejects(n)
           /\ flow' = [after EXCEPT !.failing = @ \cup {<<n, k>>}]
           /\ UNCHANGED up
     /\ UNCHANGED <<awaited, sessions>>

-----------------------------------------------------------------------------
(* Import and revocation.                                                  *)

\* The imported file holds a Codex credential, whichever provider is named.
Import(n, provider, name) ==
  /\ up /\ Fresh(n)
  /\ attempt' = [attempt EXCEPT ![n] = Asked("over", Codex, name)]
  /\ stored' = stored \cup {n}
  /\ IF provider = Codex THEN Attach(n, <<provider, name>>) ELSE Rejects(n)
  /\ UNCHANGED <<up, awaited, sessions, flow>>

RevokeAccount(row) ==
  /\ up /\ accounts[row].state = "ready"
  /\ accounts' = [accounts EXCEPT ![row].state = "revoked"]
  /\ revoking' = revoking \cup {accounts[row].credential}
  /\ UNCHANGED <<up, attempt, awaited, sessions, flow, stored>>

\* The login whose credential was rejected fails only now, and clears the
\* provider of whichever login is pending.
Purge(n) ==
  LET failed == {pair \in flow.failing : pair[1] = n}
  IN /\ up /\ n \in revoking
     /\ stored' = stored \ {n} /\ revoking' = revoking \ {n}
     /\ flow' = [flow EXCEPT !.failing = @ \ failed,
                             !.pending = IF failed = {} THEN @ ELSE NoProvider]
     /\ up' = (\A pair \in failed : pair[2] \in awaited)
     /\ UNCHANGED <<attempt, awaited, sessions, accounts>>

LoginNext ==
  \/ \E n \in Attempts :
       \/ \E provider \in Providers, name \in Names :
            StartLogin(n, provider, name) \/ Import(n, provider, name)
       \/ Listens(n) \/ CannotListen(n) \/ CancelLogin(n)
       \/ Callback(n) \/ LoginFails(n) \/ LoginSucceeds(n) \/ Purge(n)
  \/ CompleteLogin
  \/ \E row \in Providers \X Names : RevokeAccount(row)

LoginSpec == LoginInit /\ [][LoginNext]_loginVars

-----------------------------------------------------------------------------
(* Properties.                                                             *)

\* src/management/ui/client.ts:343 tells "OAuth login cancelled." and
\* src/tests/credentials/oauth.test.ts:58 that a login "fails closed on replay,
\* mismatch, cancel, and callback collision": a login that is cancelled or
\* fails does not take the gateway down.
LoginNeverStopsGateway == up

\* An account holds a credential of its provider, obtained under its pseudonym.
ConnectedAsAsked ==
  \A row \in DOMAIN accounts :
    LET n == accounts[row].credential
    IN n # None => row = <<attempt[n].provider, attempt[n].name>>

\* While no login was cancelled, a credential on disk is that of an account or is
\* being revoked.
NoStrayCredential ==
  up /\ (\A n \in Attempts : ~attempt[n].cancelled) =>
    \A n \in stored \ revoking :
      \E row \in DOMAIN accounts : accounts[row] = [state |-> "ready", credential |-> n]

\* A cancelled login connects no account.
CancelledConnectsNothing ==
  \A row \in DOMAIN accounts :
    accounts[row].credential # None => ~attempt[accounts[row].credential].cancelled
==============================================================================
