----------------------------- MODULE PoolRouting -----------------------------
(***************************************************************************)
(* Requests served by a pool of accounts (src/routing/pools): the selector *)
(* that picks an account for an attempt, the attempt itself, the outcome   *)
(* it records on the account, and the rotation to another account.         *)
(*                                                                         *)
(* streamPoolRequest is a generator.  It runs while its consumer waits for *)
(* an event, and stays suspended while events it yielded are not taken:    *)
(* every step of request r below needs out[r] = <<>>.  Each step is the    *)
(* code between two awaits.                                                *)
(***************************************************************************)
EXTENDS Naturals, Sequences, FiniteSets

CONSTANTS
  Requests, Sessions, NoAccount, NoRequest,
  Pins,             \* the pool's accounts, ordered by pinOrder
  Pools,            \* the configurations the pool may have
  SessionOf,        \* the session each request belongs to
  RetryBudget,
  MaxEvents,        \* bound on the events of an attempt before its last one
  MaxChanges        \* bound on changes made to the accounts from outside

Accounts == {Pins[i] : i \in DOMAIN Pins}

ASSUME PoolAssumption ==
  /\ Pins \in Seq(Accounts) /\ NoAccount \notin Accounts
  /\ \A i, j \in DOMAIN Pins : Pins[i] = Pins[j] => i = j
  /\ NoRequest \notin Requests
  /\ SessionOf \in [Requests -> Sessions]
  /\ Pools \subseteq [strategy : {"manual", "fill-first", "round-robin"}, sticky : BOOLEAN]
  /\ RetryBudget \in Nat /\ MaxEvents \in Nat \ {0} /\ MaxChanges \in Nat

VARIABLES
  pool,       \* the pool's configuration, frozen for the session
  acct,       \* each account: usable by the operator's word, generation, cooldown
  changes,
  cursor,     \* RouteSelector.cursors
  selecting,  \* the request whose selection holds the selector's queue
  affinity,   \* selector-affinity.json: the account each session is bound to
  req,        \* the local variables of each request
  out,        \* the events each generator yielded and its consumer has not taken
  attempts,   \* observation: the attempts of each request, and which may have been taken
  turn        \* observation: the last picks round-robin made among the same candidates

selector == <<cursor, selecting, affinity, turn>>
accounts == <<acct, changes>>
vars == <<pool, accounts, selector, req, out, attempts>>

\* The auth, quota and transient classes differ in the length of the cooldown
\* and in the quota class they leave: both are left out, the three are one.
Failure == {"retryable", "fatal"}
Outcome == Failure \cup {"success"}
Commitment == {"not-sent", "provider-accepted", "client-output-started"}
Stage == {"new", "selecting", "choosing", "revalidating", "binding", "sent",
          "streaming", "failing", "returned", "thrown", "discarded"}
Event == [attempt : 1..(RetryBudget + 1), n : 1..(MaxEvents + 1),
          kind : {"started", "output", "completed", "failed"}]
Request == [stage : Stage,
            signal : {"open", "client", "timeout", "finished"},
            snapshot : [Accounts -> 1..(MaxChanges + 1)],
            view : SUBSET Accounts,
            bindings : [Sessions -> Accounts \cup {NoAccount}],
            tried : Seq(Accounts),
            account : Accounts \cup {NoAccount},
            emitted : 0..(MaxEvents + 1),
            buffered : Seq(Event),
            commitment : Commitment,
            outputStarted : BOOLEAN,
            terminal : BOOLEAN,
            failure : Failure]
\* May the provider have taken the request?  "lost": the connection failed
\* before an answer, which a reset may do after the provider took it.
Taken == {"no", "lost", "yes"}
Attempt == [account : Accounts, taken : Taken, outcomes : Seq(Outcome)]

TypeOK ==
  /\ pool \in Pools
  /\ acct \in [Accounts -> [ready : BOOLEAN, gen : 1..(MaxChanges + 1), cooling : BOOLEAN]]
  /\ changes \in 0..MaxChanges
  /\ cursor \in 0..Len(Pins)
  /\ selecting \in Requests \cup {NoRequest}
  /\ affinity \in [Sessions -> Accounts \cup {NoAccount}]
  /\ req \in [Requests -> Request]
  /\ out \in [Requests -> Seq(Event)]
  /\ attempts \in [Requests -> Seq(Attempt)]
  /\ turn \in [among : SUBSET Accounts, served : Seq(Accounts)]

NoBindings == [s \in Sessions |-> NoAccount]

Fresh == [stage |-> "new", signal |-> "open", snapshot |-> [a \in Accounts |-> 1],
          view |-> {}, bindings |-> NoBindings, tried |-> <<>>,
          account |-> NoAccount, emitted |-> 0, buffered |-> <<>>, commitment |-> "not-sent",
          outputStarted |-> FALSE, terminal |-> FALSE, failure |-> "fatal"]

\* A selector that has just started, over the bindings left by earlier requests.
Init ==
  /\ pool \in Pools
  /\ acct = [a \in Accounts |-> [ready |-> TRUE, gen |-> 1, cooling |-> FALSE]]
  /\ changes = 0
  /\ cursor = 0
  /\ selecting = NoRequest
  /\ affinity \in IF pool.sticky THEN [Sessions -> Accounts \cup {NoAccount}] ELSE {NoBindings}
  /\ req = [r \in Requests |-> Fresh]
  /\ out = [r \in Requests |-> <<>>]
  /\ attempts = [r \in Requests |-> <<>>]
  /\ turn = [among |-> {}, served |-> <<>>]

At(r, stage) == req[r].stage = stage /\ out[r] = <<>>
Over(r) == req[r].stage \in {"returned", "thrown", "discarded"} /\ out[r] = <<>>
Number(r) == Len(attempts[r])
Current(r) == attempts[r][Number(r)]

\* The locals of a generator go with it, and it reads its signal no more.
Ended(stage) == [Fresh EXCEPT !.stage = stage]

-----------------------------------------------------------------------------
(* The accounts, changed by the operator, by refreshes and by time. *)

Eligible(a) == acct[a].ready /\ ~acct[a].cooling

Change(a, account) ==
  /\ changes < MaxChanges
  /\ changes' = changes + 1
  /\ acct' = [acct EXCEPT ![a] = account]
  /\ UNCHANGED <<pool, selector, req, out, attempts>>

PauseOrResume(a) == Change(a, [acct[a] EXCEPT !.ready = ~@])

Refresh(a) == Change(a, [acct[a] EXCEPT !.gen = @ + 1])

CooldownEnds(a) ==
  /\ acct[a].cooling
  /\ acct' = [acct EXCEPT ![a].cooling = FALSE]
  /\ UNCHANGED <<pool, changes, selector, req, out, attempts>>

\* Loads drop a binding past its expiry by the clock read when the selection
\* began, so a binding that expires during one does so just after it.
BindingExpires(s) ==
  /\ selecting = NoRequest
  /\ affinity[s] # NoAccount
  /\ affinity' = [affinity EXCEPT ![s] = NoAccount]
  /\ UNCHANGED <<pool, accounts, cursor, selecting, turn, req, out, attempts>>

-----------------------------------------------------------------------------
(* Selection. *)

\* The credential snapshots are taken once, before the stream exists.
Prepare(r) ==
  /\ At(r, "new")
  /\ req' = [req EXCEPT ![r].stage = "selecting",
                        ![r].snapshot = [a \in Accounts |-> acct[a].gen]]
  /\ UNCHANGED <<pool, accounts, selector, out, attempts>>

\* The selector runs one selection at a time: it assesses the accounts, then
\* awaits the bindings.
Select(r) ==
  /\ At(r, "selecting")
  /\ selecting = NoRequest
  /\ selecting' = r
  /\ req' = [req EXCEPT ![r].stage = "choosing",
                        ![r].view = {a \in Accounts : Eligible(a)},
                        ![r].bindings = affinity]
  /\ UNCHANGED <<pool, accounts, cursor, affinity, turn, out, attempts>>

Tried(r) == {req[r].tried[i] : i \in DOMAIN req[r].tried}
Candidates(r) == req[r].view \ Tried(r)
Bound(r) == IF pool.sticky /\ pool.strategy # "manual"
            THEN req[r].bindings[SessionOf[r]] ELSE NoAccount
Sticks(r) == Bound(r) \in Candidates(r)

\* The index of a in the list of the candidates S, which pinOrder sorts.
Index(a, S) ==
  Cardinality({b \in S : \E i, j \in DOMAIN Pins : Pins[i] = b /\ Pins[j] = a /\ i < j})

\* What the strategy picks among the candidates.  The manual strategy knows the
\* first pin only, eligible or not.
Picks(r, a) ==
  /\ a \in Candidates(r)
  /\ pool.strategy = "manual" => a = Pins[1]
  /\ pool.strategy = "fill-first" => Index(a, Candidates(r)) = 0
  /\ pool.strategy = "round-robin" =>
       Index(a, Candidates(r)) = cursor % Cardinality(Candidates(r))

BugNextCursorStuck(S) == cursor % Cardinality(S)

NextCursor(S) == ((cursor % Cardinality(S)) + 1) % Cardinality(S)

\* Every save writes the bindings this selection loaded.
Bind(r, a) == IF pool.sticky THEN [req[r].bindings EXCEPT ![SessionOf[r]] = a] ELSE affinity

Chosen(r, a) ==
  /\ selecting' = NoRequest
  /\ affinity' = Bind(r, a)
  /\ req' = [req EXCEPT ![r].stage = "revalidating", ![r].account = a,
                        ![r].view = {}, ![r].bindings = NoBindings]
  /\ UNCHANGED <<pool, accounts, out, attempts>>

ChooseBound(r) ==
  /\ At(r, "choosing") /\ Sticks(r)
  /\ Chosen(r, Bound(r))
  /\ UNCHANGED <<cursor, turn>>

\* The accounts served among the candidates S, the last ones only.
Serve(S, a) ==
  LET before == IF turn.among = S THEN turn.served ELSE <<>>
      recent == IF Len(before) = Cardinality(S) THEN Tail(before) ELSE before
  IN [among |-> S, served |-> Append(recent, a)]

ChooseByStrategy(r, a) ==
  /\ At(r, "choosing") /\ ~Sticks(r)
  /\ Picks(r, a)
  /\ Chosen(r, a)
  /\ IF pool.strategy = "round-robin"
     THEN /\ cursor' = NextCursor(Candidates(r))
          /\ turn' = Serve(Candidates(r), a)
     ELSE UNCHANGED <<cursor, turn>>

\* A binding that does not stick is forgotten before the strategy is asked.
FindNone(r) ==
  /\ At(r, "choosing") /\ ~Sticks(r)
  /\ \A a \in Accounts : ~Picks(r, a)
  /\ selecting' = NoRequest
  /\ affinity' = IF Bound(r) = NoAccount THEN affinity ELSE Bind(r, NoAccount)
  /\ req' = [req EXCEPT ![r] = Ended("thrown")]
  /\ UNCHANGED <<pool, accounts, cursor, turn, out, attempts>>

BugRevalidate(r) ==
  /\ At(r, "revalidating")
  /\ req' = [req EXCEPT ![r].stage = "binding"]
  /\ attempts' = [attempts EXCEPT ![r] = Append(@,
       [account |-> req[r].account, taken |-> "no", outcomes |-> <<>>])]
  /\ UNCHANGED <<pool, accounts, selector, out>>

\* The generation checked is the snapshot's on both sides; a failure ends the
\* request before an attempt, without an outcome.
Revalidate(r) ==
  /\ At(r, "revalidating")
  /\ IF Eligible(req[r].account)
     THEN /\ req' = [req EXCEPT ![r].stage = "binding"]
          /\ attempts' = [attempts EXCEPT ![r] = Append(@,
               [account |-> req[r].account, taken |-> "no", outcomes |-> <<>>])]
     ELSE /\ req' = [req EXCEPT ![r] = Ended("thrown")]
          /\ UNCHANGED attempts
  /\ UNCHANGED <<pool, accounts, selector, out>>

-----------------------------------------------------------------------------
(* The attempt. *)

Settled(attempt, outcome, took) ==
  [account |-> attempt.account, taken |-> IF took = "no" THEN attempt.taken ELSE took,
   outcomes |-> Append(attempt.outcomes, outcome)]

\* Success and fatal outcomes clear the account's cooldown.  took: whether the
\* provider may have taken the request, which the gateway need not know.
Record(r, outcome, took) ==
  /\ acct' = [acct EXCEPT ![req[r].account].cooling = outcome = "retryable"]
  /\ attempts' = [attempts EXCEPT ![r][Number(r)] = Settled(@, outcome, took)]

CanRotate(r, outcome, commitment) ==
  /\ ~req[r].outputStarted
  /\ Len(req[r].tried) < RetryBudget
  /\ commitment = "not-sent"
  /\ outcome = "retryable"

\* The next attempt starts with locals of its own.
NextAttempt(q) ==
  [Fresh EXCEPT !.stage = "selecting", !.signal = q.signal, !.snapshot = q.snapshot,
                !.tried = Append(q.tried, q.account)]

Rotate(r) ==
  /\ req' = [req EXCEPT ![r] = NextAttempt(@)]
  /\ UNCHANGED out

\* The events held back reach the consumer before the end does.
FlushAnd(r, stage) ==
  /\ out' = [out EXCEPT ![r] = req[r].buffered]
  /\ req' = [req EXCEPT ![r] = Ended(stage)]

Fail(r, outcome, commitment, took) ==
  /\ Record(r, outcome, took)
  /\ IF CanRotate(r, outcome, commitment) THEN Rotate(r) ELSE FlushAnd(r, "thrown")
  /\ UNCHANGED <<pool, changes, selector>>

\* The broker hands out the token only at the generation routed to.
BindCredential(r) ==
  /\ At(r, "binding")
  /\ IF acct[req[r].account].gen = req[r].snapshot[req[r].account]
     THEN /\ req' = [req EXCEPT ![r].stage = "sent"]
          /\ UNCHANGED <<pool, accounts, selector, out, attempts>>
     ELSE Fail(r, "fatal", "unknown", "no")

\* The codes of a connection that was not made, and the code of one that was
\* reset, are treated alike.
ConnectionFails(r) ==
  /\ At(r, "sent") /\ req[r].signal = "open"
  /\ Fail(r, "retryable", "not-sent", "lost")

\* A 4xx other than 408 and 409.
Rejected(r, outcome) ==
  /\ At(r, "sent")
  /\ Fail(r, outcome, "not-sent", "no")

BugCommitmentOfUnclear == "not-sent"

\* What a 408, a 409, a 5xx or a time out says of the provider.
CommitmentOfUnclear == "unknown"

\* The provider may have taken the request.
Unclear(r, outcome) ==
  /\ At(r, "sent")
  /\ Fail(r, outcome, CommitmentOfUnclear, "yes")

Accepted(r) ==
  /\ At(r, "sent")
  /\ req' = [req EXCEPT ![r].stage = "streaming"]
  /\ attempts' = [attempts EXCEPT ![r][Number(r)].taken = "yes"]
  /\ UNCHANGED <<pool, accounts, selector, out>>

-----------------------------------------------------------------------------
(* The events of an attempt. *)

Emit(r, kind) == [attempt |-> Number(r), n |-> req[r].emitted + 1, kind |-> kind]

\* An event is held back until output starts; then all held are yielded.
Deliver(r, kind, state) ==
  LET event == Emit(r, kind)
      counted == [state EXCEPT !.emitted = @ + 1]
  IN /\ IF state.outputStarted
        THEN /\ out' = [out EXCEPT ![r] = Append(state.buffered, event)]
             /\ req' = [req EXCEPT ![r] = [counted EXCEPT !.buffered = <<>>]]
        ELSE /\ req' = [req EXCEPT ![r] = [counted EXCEPT !.buffered = Append(@, event)]]
             /\ UNCHANGED out
     /\ UNCHANGED <<pool, accounts, selector, attempts>>

Streaming(r) == At(r, "streaming") /\ ~req[r].terminal

ResponseStarted(r) ==
  /\ Streaming(r) /\ req[r].emitted = 0
  /\ Deliver(r, "started", [req[r] EXCEPT !.commitment = "provider-accepted"])

\* A text, reasoning or tool event: from here the route is sealed.  The adapter
\* does not insist that the response was started first.
Output(r) ==
  /\ Streaming(r) /\ req[r].emitted < MaxEvents
  /\ Deliver(r, "output", [req[r] EXCEPT !.commitment = "client-output-started",
                                         !.outputStarted = TRUE])

ResponseCompleted(r) ==
  /\ Streaming(r)
  /\ Deliver(r, "completed", [req[r] EXCEPT !.terminal = TRUE])

\* As a first event it is a refusal: the provider took nothing.
ResponseFailed(r, outcome) ==
  /\ At(r, "sent") \/ (Streaming(r) /\ req[r].emitted > 0)
  /\ Deliver(r, "failed", [req[r] EXCEPT !.stage = "failing", !.failure = outcome])

CommitmentOfFailed(r) == IF req[r].commitment = "not-sent" THEN "not-sent" ELSE "provider-accepted"

AfterFailed(r) ==
  /\ At(r, "failing")
  /\ Fail(r, req[r].failure, CommitmentOfFailed(r), "no")

\* The iterator ends without a terminal event.
Truncated(r) ==
  /\ Streaming(r) /\ req[r].emitted > 0
  /\ Fail(r, "retryable", CommitmentOfFailed(r), "no")

\* The body breaks off or carries an error; the adapter's evidence is never
\* "not-sent" once the provider answered 2xx.
StreamThrows(r, outcome) ==
  /\ At(r, "streaming")
  /\ Fail(r, outcome, "provider-accepted", "no")

BugStreamEnds(r) ==
  /\ At(r, "streaming") /\ req[r].emitted > 0
  /\ Record(r, "success", "yes")
  /\ FlushAnd(r, "returned")
  /\ UNCHANGED <<pool, changes, selector>>

StreamEnds(r) ==
  /\ At(r, "streaming") /\ req[r].terminal
  /\ Record(r, "success", "yes")
  /\ FlushAnd(r, "returned")
  /\ UNCHANGED <<pool, changes, selector>>

-----------------------------------------------------------------------------
(* The abort of a request's signal. *)

Signal(r, why) == req' = [req EXCEPT ![r].signal = why]

\* Before the headers, the adapter reports any abort as a failed request.
AbortWhileSent(r) ==
  /\ At(r, "sent") /\ req[r].signal # "open"
  /\ Fail(r, "retryable", "unknown", "no")

\* Afterwards the read rejects with the signal's reason: only the reason of a
\* disconnect is an abort error, and leaves no outcome.
AbortWhileStreaming(r) ==
  /\ At(r, "streaming") /\ req[r].signal # "open"
  /\ IF req[r].signal = "client"
     THEN /\ req' = [req EXCEPT ![r] = Ended("thrown")]
          /\ UNCHANGED <<pool, accounts, selector, out, attempts>>
     ELSE Fail(r, "fatal", "unknown", "no")

\* The consumer takes the next event and asks for another.
Take(r) ==
  /\ out[r] # <<>>
  /\ out' = [out EXCEPT ![r] = Tail(@)]
  /\ UNCHANGED <<pool, accounts, selector, req, attempts>>

\* The signal is read only while the adapter waits for the provider.
Disconnect(r) ==
  /\ req[r].signal = "open" /\ req[r].stage \in {"sent", "streaming"}
  /\ Signal(r, "client")
  /\ UNCHANGED <<pool, accounts, selector, out, attempts>>

-----------------------------------------------------------------------------
Route(r) ==
  \/ Select(r)
  \/ ChooseBound(r)
  \/ \E a \in Accounts : ChooseByStrategy(r, a)
  \/ FindNone(r)
  \/ Revalidate(r)

Outside ==
  \/ \E a \in Accounts : PauseOrResume(a) \/ Refresh(a) \/ CooldownEnds(a)
  \/ \E s \in Sessions : BindingExpires(s)

Provider(r) ==
  \/ ConnectionFails(r)
  \/ \E o \in Failure : Rejected(r, o)
  \/ \E o \in Failure : Unclear(r, o)
  \/ Accepted(r)
  \/ ResponseStarted(r)
  \/ Output(r)
  \/ ResponseCompleted(r)
  \/ \E o \in Failure : ResponseFailed(r, o)
  \/ Truncated(r)
  \/ \E o \in Failure : StreamThrows(r, o)

\* What the gateway does by itself.
Gateway(r) ==
  \/ Route(r)
  \/ BindCredential(r)
  \/ AfterFailed(r)
  \/ StreamEnds(r)
  \/ AbortWhileSent(r)
  \/ AbortWhileStreaming(r)

Next ==
  \/ Outside
  \/ \E r \in Requests :
       \/ Prepare(r)
       \/ Gateway(r)
       \/ Provider(r)
       \/ Take(r)
       \/ Disconnect(r)

Spec == Init /\ [][Next]_vars
-----------------------------------------------------------------------------
(* Properties. *)

\* A request is replayed on another account only if no earlier attempt can have
\* been taken by its provider, but for a connection lost before the answer:
\* canRotate consumes the adapters' commitment evidence, which calls that not
\* sent.
NoReplayAfterAcceptance ==
  \A r \in Requests : \A i \in 1..(Number(r) - 1) : attempts[r][i].taken # "yes"

\* commitment.ts:15,26: what the evidence calls not sent the provider cannot
\* have committed, so no attempt it may have taken is replayed.
ReplayedNotTaken ==
  \A r \in Requests : \A i \in 1..(Number(r) - 1) : attempts[r][i].taken = "no"

\* The accounts a request already tried are excluded from its next selections,
\* the session's binding included, and the budget bounds its attempts.
AttemptsBounded ==
  \A r \in Requests :
    /\ Number(r) <= RetryBudget + 1
    /\ \A i, j \in 1..Number(r) :
         attempts[r][i].account = attempts[r][j].account => i = j

\* An attempt leaves at most one outcome on its account; one that was rotated
\* away from leaves a retryable one, and success is for a stream that reached
\* its end, taken to the last event or not.
OneOutcomePerAttempt ==
  \A r \in Requests : \A i \in 1..Number(r) :
    LET outcomes == attempts[r][i].outcomes IN
    /\ Len(outcomes) <= 1
    /\ i < Number(r) => outcomes # <<>> /\ outcomes[1] = "retryable"
    /\ outcomes = <<"success">> => i = Number(r) /\ req[r].stage \in {"returned", "discarded"}
    /\ i = Number(r) /\ req[r].stage = "returned" => outcomes = <<"success">>

\* An attempt begins on an account that is usable at that moment, whatever
\* happened since the selection assessed it.
InvokesEligible ==
  [][\A r \in Requests :
       Len(attempts'[r]) > Number(r) => Eligible(attempts'[r][Number(r) + 1].account)]_vars

\* While the candidates stay the same, round-robin serves each of them once
\* before it serves one again.
RoundRobinFair ==
  \A i, j \in DOMAIN turn.served : turn.served[i] = turn.served[j] => i = j

\* A selection, which saves the bindings it loaded, leaves the bindings of the
\* other sessions as they are.
BindingsKept ==
  [][\A r \in Requests :
       req[r].stage = "choosing" /\ req'[r].stage # "choosing" =>
         \A s \in Sessions \ {SessionOf[r]} : affinity'[s] = affinity[s]]_vars

\* The attempts of a request: each on an account of its own, accounted for once,
\* and none after one the provider may have taken and whose connection held.
AttemptsSound == NoReplayAfterAcceptance /\ AttemptsBounded /\ OneOutcomePerAttempt

\* Nothing that happens between a selection's reads and its writes is undone or
\* ignored by them.
SelectionIsCurrent == InvokesEligible /\ BindingsKept
==============================================================================
