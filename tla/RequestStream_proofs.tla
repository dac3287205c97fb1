------------------------ MODULE RequestStream_proofs ------------------------
(***************************************************************************)
(* Theorems about PoolRouting, for any number of requests, sessions,       *)
(* accounts and pool configurations, and about RequestStream, for any      *)
(* number of streams and events.  The invariant of PoolRouting holds of a  *)
(* pool whose consumers are pumps; the one added for the streams says      *)
(* where each event is on its way from the provider to the client, and     *)
(* what the client was told.  At the end, lemmas about folds and sequences *)
(* of a conversation's data, on which Conversation_proofs rests.           *)
(***************************************************************************)
EXTENDS RequestStream, Conversation, FiniteSetTheorems, SequenceTheorems, WellFoundedInduction, TLAPS

-----------------------------------------------------------------------------
(* The pool: the inductive invariant. *)

\* Where a request stands: between two attempts, or in one.
Between == {"new", "selecting", "choosing", "revalidating"}
Attempting == {"binding", "sent", "streaming", "failing"}

\* The attempts a request was rotated away from ended with a retryable failure,
\* each on an account of its own.
AttemptsInv(as) ==
  /\ \A i, j \in 1..Len(as) : as[i].account = as[j].account => i = j
  /\ \A i \in 1..(Len(as) - 1) : as[i].outcomes = <<"retryable">>
  /\ Len(as) <= RetryBudget + 1

\* The accounts a request tried are those of its finished attempts.
TriedInv(q, as, current) ==
  /\ Len(as) = Len(q.tried) + current
  /\ \A i \in 1..Len(q.tried) : as[i].account = q.tried[i]

BetweenInv(q, as) ==
  /\ TriedInv(q, as, 0)
  /\ Len(as) <= RetryBudget
  /\ Len(as) > 0 => Last(as).outcomes = <<"retryable">>
  /\ q.stage = "revalidating" =>
       q.account \in Accounts /\ \A i \in 1..Len(q.tried) : q.tried[i] # q.account

AttemptingInv(q, as) ==
  /\ TriedInv(q, as, 1)
  /\ Last(as).outcomes = <<>>
  /\ Last(as).account = q.account

StageInv(q, as) ==
  /\ q.stage \in Between => BetweenInv(q, as)
  /\ q.stage \in Attempting => AttemptingInv(q, as)
  /\ q.stage = "returned" => Len(as) > 0 /\ Last(as).outcomes = <<"success">>
  /\ q.stage = "thrown" /\ Len(as) > 0 =>
       Last(as).outcomes \in {<<>>, <<"retryable">>, <<"fatal">>}
  /\ q.stage = "discarded" /\ Len(as) > 0 =>
       Last(as).outcomes \in {<<>>, <<"retryable">>, <<"fatal">>, <<"success">>}

\* The events an attempt emitted fit its stage.
EmittedInv(q) ==
  /\ q.stage \in Between \cup {"binding", "sent"} => q.emitted = 0 /\ q.commitment = "not-sent"
  /\ q.stage = "streaming" /\ ~q.terminal => q.emitted <= MaxEvents

\* What the gateway knows of the provider is right, but for a connection lost
\* before the answer.
CleanInv(q, as) ==
  /\ \A i \in 1..(Len(as) - 1) : as[i].taken # "yes"
  /\ q.stage \in Between \cup {"binding", "sent"} /\ Len(as) > 0 => Last(as).taken # "yes"
  /\ q.stage = "streaming" /\ q.emitted > 0 /\ ~q.terminal => q.commitment # "not-sent"
  /\ q.stage = "failing" /\ q.commitment = "not-sent" => Last(as).taken # "yes"

RequestInv(q, as) ==
  /\ AttemptsInv(as)
  /\ StageInv(q, as)
  /\ EmittedInv(q)
  /\ CleanInv(q, as)

\* One selection at a time, over the bindings as they still are.
QueueInv ==
  \A r \in Requests : req[r].stage = "choosing" => selecting = r /\ req[r].bindings = affinity

\* The cursor d picks back, among n candidates.
Back(c, d, n) == IF d <= c THEN c - d ELSE c - d + n

\* The accounts of a turn are those the cursor passed.
TurnInv ==
  LET n == Cardinality(turn.among)
      m == Len(turn.served)
  IN /\ m <= n
     /\ m > 0 => cursor < n
     /\ \A k \in 1..m : Index(turn.served[k], turn.among) = Back(cursor, m - k + 1, n)

GenInv == \A a \in Accounts : acct[a].gen <= changes + 1

IInv ==
  /\ TypeOK
  /\ GenInv
  /\ QueueInv
  /\ TurnInv
  /\ \A r \in Requests : RequestInv(req[r], attempts[r])

\* An attempt begins on an account that is eligible, and a selection leaves the
\* bindings of other sessions alone.
SelectionStep ==
  \A r \in Requests :
    /\ Len(attempts'[r]) > Number(r) => Eligible(attempts'[r][Number(r) + 1].account)
    /\ req[r].stage = "choosing" /\ req'[r].stage # "choosing" =>
         \A s \in Sessions \ {SessionOf[r]} : affinity'[s] = affinity[s]

Kept == IInv' /\ SelectionStep

-----------------------------------------------------------------------------
(* Values. *)

\* There are no more accounts than pins.
LEMMA AccountsFinite ==
  /\ IsFiniteSet(Accounts)
  /\ Cardinality(Accounts) <= Len(Pins)
  /\ Len(Pins) \in Nat
<1> DEFINE n == Len(Pins)
<1>1. n \in Nat /\ DOMAIN Pins = 1..n
  BY PoolAssumption
<1> HIDE DEF n
<1>2. IsFiniteSet(1..n) /\ Cardinality(1..n) = n
  <2>1. 1 \in Int /\ n \in Int
    BY <1>1
  <2>2. IsFiniteSet(1..n) /\ Cardinality(1..n) = IF 1 > n THEN 0 ELSE n - 1 + 1
    BY <2>1, FS_Interval
  <2>3. QED  BY <1>1, <2>2
<1>3. Pins \in Surjection(1..n, Accounts)
  BY <1>1, PoolAssumption DEF Surjection, Accounts
<1>4. QED  BY <1>1, <1>2, <1>3, FS_Surjection DEF n

\* The candidates of a selection are as many as the cursor counts.
LEMMA CandidatesFinite ==
  ASSUME NEW S \in SUBSET Accounts
  PROVE  /\ IsFiniteSet(S)
         /\ Cardinality(S) \in Nat
         /\ Cardinality(S) <= Len(Pins)
         /\ \A a \in S : Cardinality(S) > 0
<1>1. IsFiniteSet(S) /\ Cardinality(S) <= Cardinality(Accounts)
  BY AccountsFinite, FS_Subset
<1>2. Cardinality(S) \in Nat /\ Cardinality(Accounts) \in Nat
  BY <1>1, AccountsFinite, FS_CardinalityType
<1>3. ASSUME NEW a \in S  PROVE Cardinality(S) # 0
  BY <1>1, <1>3, FS_EmptySet
<1>4. QED  BY <1>1, <1>2, <1>3, AccountsFinite

\* A request's locals, one changed.
LEMMA RequestValues ==
  ASSUME NEW q \in Request
  PROVE  /\ \A s \in Stage : [q EXCEPT !.stage = s] \in Request
         /\ q.stage \in Stage /\ q.emitted \in 0..(MaxEvents + 1)
         /\ q.tried \in Seq(Accounts) /\ q.buffered \in Seq(Event)
         /\ q.account \in Accounts \cup {NoAccount}
         /\ q.commitment \in Commitment /\ q.failure \in Failure
         /\ q.outputStarted \in BOOLEAN /\ q.terminal \in BOOLEAN
         /\ q.view \in SUBSET Accounts
         /\ q.bindings \in [Sessions -> Accounts \cup {NoAccount}]
         /\ q.snapshot \in [Accounts -> 1..(MaxChanges + 1)]
BY DEF Request

LEMMA FreshValues ==
  /\ Fresh \in Request
  /\ \A s \in Stage : Ended(s) \in Request /\ Ended(s).stage = s
<1>1. Fresh \in Request
  BY PoolAssumption DEF Fresh, Request, Stage, Commitment, Failure, NoBindings
<1>2. QED  BY <1>1, RequestValues DEF Ended, Fresh

-----------------------------------------------------------------------------
(* Steps. *)

LEMMA NoneBegun ==
  ASSUME NEW p, attempts[p] \in Seq(Attempt), attempts'[p] = attempts[p]
  PROVE  ~(Len(attempts'[p]) > Number(p))
<1>1. Len(attempts[p]) \in Nat /\ Len(attempts'[p]) = Len(attempts[p])
  OBVIOUS
<1>2. QED  BY <1>1 DEF Number

\* A step of one request that leaves the selector alone keeps the invariant if
\* it keeps that of the request.
LEMMA RequestStep ==
  ASSUME IInv, NEW r \in Requests,
         NEW q \in Request, req' = [req EXCEPT ![r] = q], q.stage # "choosing",
         NEW as \in Seq(Attempt), attempts' = [attempts EXCEPT ![r] = as],
         RequestInv(q, as),
         Len(as) > Number(r) => Eligible(as[Number(r) + 1].account),
         out' \in [Requests -> Seq(Event)],
         acct' \in [Accounts -> [ready : BOOLEAN, gen : 1..(MaxChanges + 1), cooling : BOOLEAN]],
         \A a \in Accounts : acct'[a].gen = acct[a].gen,
         UNCHANGED <<pool, changes, selector>>
  PROVE  Kept
<1> USE DEF IInv, TypeOK, selector
<1>1. TypeOK'
  OBVIOUS
<1>2. GenInv'
  BY DEF GenInv
<1>3. QueueInv'
  BY DEF QueueInv
<1>4. TurnInv'
  BY DEF TurnInv, Back, Index
<1>5. ASSUME NEW p \in Requests  PROVE RequestInv(req'[p], attempts'[p])
  BY <1>5
<1>6. IInv'
  BY <1>1, <1>2, <1>3, <1>4, <1>5
<1>7. ASSUME NEW p \in Requests
      PROVE  Len(attempts'[p]) > Number(p) => Eligible(attempts'[p][Number(p) + 1].account)
  <2>1. CASE p = r
    BY <1>7, <2>1 DEF Number, Eligible
  <2>2. CASE p # r
    <3>1. attempts'[p] = attempts[p] /\ attempts[p] \in Seq(Attempt)
      BY <1>7, <2>2
    <3>2. QED  BY <1>7, <3>1, NoneBegun
  <2>3. QED  BY <2>1, <2>2
<1>8. \A s \in Sessions : affinity'[s] = affinity[s]
  OBVIOUS
<1>9. QED  BY <1>6, <1>7, <1>8 DEF Kept, SelectionStep

\* A sequence of attempts, one replaced.
Replaced(s, n, d) == [s EXCEPT ![n] = d]

LEMMA OneReplaced ==
  ASSUME NEW s \in Seq(Attempt), NEW n \in 1..Len(s), NEW d \in Attempt
  PROVE  /\ Replaced(s, n, d) \in Seq(Attempt)
         /\ Len(Replaced(s, n, d)) = Len(s)
         /\ \A i \in 1..Len(s) : Replaced(s, n, d)[i] = IF i = n THEN d ELSE s[i]
<1> DEFINE t == Replaced(s, n, d)
<1>1. Len(s) \in Nat /\ DOMAIN s = 1..Len(s) /\ \A i \in 1..Len(s) : s[i] \in Attempt
  OBVIOUS
<1>2. DOMAIN t = 1..Len(s) /\ \A i \in 1..Len(s) : t[i] = IF i = n THEN d ELSE s[i]
  BY <1>1 DEF Replaced
<1>3. t = [i \in 1..Len(s) |-> t[i]]
  BY <1>1 DEF Replaced
<1>4. \A i \in 1..Len(s) : t[i] \in Attempt
  BY <1>1, <1>2
<1> HIDE DEF t
<1>5. t \in Seq(Attempt) /\ Len(t) = Len(s)
  BY <1>1, <1>3, <1>4, IsASeq, LenProperties
<1>6. QED  BY <1>2, <1>5 DEF t

\* The attempt under way is closed with an outcome.
LEMMA SettledValues ==
  ASSUME NEW c \in Attempt, NEW outcome \in Outcome, NEW took \in Taken,
         c.outcomes = <<>>
  PROVE  /\ Settled(c, outcome, took) \in Attempt
         /\ Settled(c, outcome, took).account = c.account
         /\ Settled(c, outcome, took).taken \in {c.taken, took}
         /\ Settled(c, outcome, took).outcomes = <<outcome>>
<1>1. Append(c.outcomes, outcome) = <<outcome>> /\ <<outcome>> \in Seq(Outcome)
  OBVIOUS
<1>2. (IF took = "no" THEN c.taken ELSE took) \in Taken /\ c.account \in Accounts
  BY DEF Attempt
<1>3. QED  BY <1>1, <1>2 DEF Settled, Attempt

LEMMA RecordValues ==
  ASSUME IInv, NEW r \in Requests, NEW outcome \in Outcome, NEW took \in Taken,
         req[r].stage \in Attempting, Record(r, outcome, took),
         NEW as, as = Replaced(attempts[r], Number(r), Settled(Current(r), outcome, took))
  PROVE  /\ as \in Seq(Attempt) /\ Len(as) = Number(r) /\ Number(r) \in Nat \ {0}
         /\ attempts' = [attempts EXCEPT ![r] = as]
         /\ \A i \in 1..Number(r) : as[i].account = attempts[r][i].account
         /\ \A i \in 1..(Number(r) - 1) : as[i] = attempts[r][i]
         /\ Last(as).outcomes = <<outcome>>
         /\ Last(as).taken \in {Current(r).taken, took}
         /\ acct' \in [Accounts -> [ready : BOOLEAN, gen : 1..(MaxChanges + 1), cooling : BOOLEAN]]
         /\ \A a \in Accounts : acct'[a].gen = acct[a].gen
<1> DEFINE n == Number(r)
           old == attempts[r]
           c == Current(r)
           d == Settled(c, outcome, took)
<1>1. AttemptingInv(req[r], old) /\ old \in Seq(Attempt) /\ req[r] \in Request
  BY DEF IInv, TypeOK, RequestInv, StageInv
<1>2. n \in Nat \ {0} /\ n = Len(old) /\ c = old[n]
  BY <1>1, RequestValues DEF AttemptingInv, TriedInv, Number, Current
<1>3. c \in Attempt /\ c.outcomes = <<>>
  BY <1>1, <1>2 DEF AttemptingInv, Last
<1>4. /\ d \in Attempt /\ d.account = c.account /\ d.outcomes = <<outcome>>
      /\ d.taken \in {c.taken, took}
  BY <1>3, SettledValues
<1>5. attempts' = [attempts EXCEPT ![r] = as]
  BY DEF Record, Number, Current, Replaced
<1> HIDE DEF d
<1>6. as = Replaced(old, n, d)
  BY DEF d
<1>7. as \in Seq(Attempt) /\ Len(as) = n /\ as[n] = d /\ \A i \in 1..(n - 1) : as[i] = old[i]
  <2> HIDE DEF c, n, old
  <2>1. n \in 1..Len(old) /\ old \in Seq(Attempt) /\ d \in Attempt
    BY <1>1, <1>2, <1>4
  <2>2. /\ as \in Seq(Attempt) /\ Len(as) = Len(old)
        /\ \A i \in 1..Len(old) : as[i] = IF i = n THEN d ELSE old[i]
    <3>1. /\ Replaced(old, n, d) \in Seq(Attempt) /\ Len(Replaced(old, n, d)) = Len(old)
          /\ \A i \in 1..Len(old) : Replaced(old, n, d)[i] = IF i = n THEN d ELSE old[i]
      BY <2>1, OneReplaced, ZenonT(30)
    <3>2. QED  BY <1>6, <3>1
  <2>3. QED  BY <1>2, <2>1, <2>2
<1>8. /\ acct' \in [Accounts -> [ready : BOOLEAN, gen : 1..(MaxChanges + 1), cooling : BOOLEAN]]
      /\ \A a \in Accounts : acct'[a].gen = acct[a].gen
  <2>1. acct \in [Accounts -> [ready : BOOLEAN, gen : 1..(MaxChanges + 1), cooling : BOOLEAN]]
    BY DEF IInv, TypeOK
  <2> DEFINE b == (outcome = "retryable")
  <2>2. b \in BOOLEAN
    OBVIOUS
  <2>3. acct' = [acct EXCEPT ![req[r].account].cooling = b]
    BY DEF Record
  <2> HIDE DEF b
  <2>4. QED  BY <2>1, <2>2, <2>3
<1>9. Last(as) = d
  BY <1>7 DEF Last
<1>10. \A i \in 1..n : as[i].account = old[i].account
  <2>1. SUFFICES ASSUME NEW i \in 1..n  PROVE as[i].account = old[i].account
    OBVIOUS
  <2>2. i = n \/ i \in 1..(n - 1)
    BY <1>2
  <2>3. QED  BY <1>2, <1>4, <1>7, <2>2
<1>11. QED  BY <1>2, <1>4, <1>5, <1>7, <1>8, <1>9, <1>10

\* The locals of the attempt that follows one.
LEMMA NextAttemptValues ==
  ASSUME NEW q \in Request, q.account \in Accounts
  PROVE  /\ NextAttempt(q) \in Request
         /\ NextAttempt(q).stage = "selecting"
         /\ NextAttempt(q).tried = Append(q.tried, q.account)
         /\ NextAttempt(q).emitted = 0 /\ NextAttempt(q).commitment = "not-sent"
<1>1. Append(q.tried, q.account) \in Seq(Accounts)
  BY RequestValues
<1> DEFINE p1 == [Fresh EXCEPT !.stage = "selecting"]
           p2 == [p1 EXCEPT !.signal = q.signal]
           p3 == [p2 EXCEPT !.snapshot = q.snapshot]
           p4 == [p3 EXCEPT !.tried = Append(q.tried, q.account)]
<1>2. NextAttempt(q) = p4
  BY DEF NextAttempt
<1>3. p1 \in Request /\ p1.stage = "selecting" /\ p1.emitted = 0 /\ p1.commitment = "not-sent"
  <2>1. Fresh \in Request /\ Fresh.emitted = 0 /\ Fresh.commitment = "not-sent"
    BY FreshValues DEF Fresh
  <2>2. QED  BY <2>1 DEF Request, Stage
<1> HIDE DEF p1
<1>4. p2 \in Request /\ p2.stage = "selecting" /\ p2.emitted = 0 /\ p2.commitment = "not-sent"
  BY <1>3 DEF Request
<1> HIDE DEF p2
<1>5. p3 \in Request /\ p3.stage = "selecting" /\ p3.emitted = 0 /\ p3.commitment = "not-sent"
  BY <1>4 DEF Request
<1> HIDE DEF p3
<1>6. /\ p4 \in Request /\ p4.stage = "selecting" /\ p4.tried = Append(q.tried, q.account)
      /\ p4.emitted = 0 /\ p4.commitment = "not-sent"
  BY <1>1, <1>5 DEF Request
<1>7. QED  BY <1>2, <1>6

\* A failed attempt ends the request or gives way to another attempt.
LEMMA FailStep ==
  ASSUME IInv, NEW r \in Requests, NEW outcome \in Failure, NEW commitment,
         NEW took \in Taken, req[r].stage \in Attempting,
         Fail(r, outcome, commitment, took),
         commitment = "not-sent" => Current(r).taken # "yes" /\ took # "yes"
  PROVE  Kept
<1> DEFINE old == attempts[r]
           as == Replaced(old, Number(r), Settled(Current(r), outcome, took))
           q == req[r]
<1>1. q \in Request /\ old \in Seq(Attempt) /\ out \in [Requests -> Seq(Event)]
  BY DEF IInv, TypeOK
<1>2. /\ AttemptsInv(old) /\ AttemptingInv(q, old)
      /\ \A i \in 1..(Len(old) - 1) : old[i].taken # "yes"
  BY DEF IInv, RequestInv, StageInv, CleanInv
<1>3. outcome \in Outcome /\ outcome # "success"
  BY DEF Outcome, Failure
<1>4. /\ as \in Seq(Attempt) /\ Len(as) = Len(old) /\ Len(old) \in Nat \ {0}
      /\ attempts' = [attempts EXCEPT ![r] = as]
      /\ \A i \in 1..Len(old) : as[i].account = old[i].account
      /\ \A i \in 1..(Len(old) - 1) : as[i] = old[i]
      /\ Last(as).outcomes = <<outcome>>
      /\ Last(as).taken \in {Current(r).taken, took}
      /\ acct' \in [Accounts -> [ready : BOOLEAN, gen : 1..(MaxChanges + 1), cooling : BOOLEAN]]
      /\ \A a \in Accounts : acct'[a].gen = acct[a].gen
  BY <1>3, RecordValues DEF Fail, Number
<1> HIDE DEF as
<1>5. AttemptsInv(as)
  BY <1>2, <1>4 DEF AttemptsInv
<1>6. \A i \in 1..(Len(as) - 1) : as[i].taken # "yes"
  BY <1>2, <1>4
<1>7. UNCHANGED <<pool, changes, selector>>
  BY DEF Fail
<1>8. ~(Len(as) > Number(r))
  BY <1>4 DEF Number
<1>9. CASE CanRotate(r, outcome, commitment)
  <2> DEFINE p == NextAttempt(q)
  <2>1. q.account \in Accounts /\ q.tried \in Seq(Accounts) /\ Len(q.tried) \in Nat
    <3>1. old[Len(old)] \in Attempt
      BY <1>1, <1>4
    <3>2. QED  BY <1>1, <1>2, <3>1, RequestValues DEF AttemptingInv, Last, Attempt
  <2>2. /\ p \in Request /\ p.stage = "selecting" /\ p.tried = Append(q.tried, q.account)
        /\ p.emitted = 0 /\ p.commitment = "not-sent"
    BY <1>1, <2>1, NextAttemptValues
  <2>3. req' = [req EXCEPT ![r] = p] /\ out' = out
    BY <1>9 DEF Fail, Rotate
  <2> HIDE DEF p
  <2>4. /\ outcome = "retryable" /\ Len(q.tried) < RetryBudget
        /\ Current(r).taken # "yes" /\ took # "yes"
    BY <1>9 DEF CanRotate
  <2>5. TriedInv(p, as, 0)
    <3>1. Len(p.tried) = Len(q.tried) + 1 /\ Len(old) = Len(q.tried) + 1
      BY <1>2, <2>1, <2>2 DEF AttemptingInv, TriedInv
    <3>2. ASSUME NEW i \in 1..Len(p.tried)  PROVE as[i].account = p.tried[i]
      <4> HIDE DEF q, old
      <4>1. i \in 1..Len(old) /\ as[i].account = old[i].account
        BY <1>4, <3>1, <3>2
      <4>2. p.tried[i] = IF i = Len(old) THEN q.account ELSE q.tried[i]
        BY <2>1, <2>2, <3>1, <3>2, AppendProperties
      <4>3. i = Len(old) => old[i].account = q.account
        BY <1>2 DEF AttemptingInv, Last
      <4>4. i # Len(old) => old[i].account = q.tried[i]
        <5>1. i # Len(old) => i \in 1..Len(q.tried)
          BY <2>1, <3>1, <4>1
        <5>2. QED  BY <1>2, <5>1 DEF AttemptingInv, TriedInv
      <4>5. QED  BY <4>1, <4>2, <4>3, <4>4
    <3>3. Len(as) = Len(p.tried) + 0
      BY <1>4, <2>1, <3>1
    <3>4. QED  BY <3>2, <3>3 DEF TriedInv
  <2>6. BetweenInv(p, as)
    <3>1. Len(as) <= RetryBudget
      BY <1>2, <1>4, <2>1, <2>4, PoolAssumption DEF AttemptingInv, TriedInv
    <3>2. QED  BY <1>4, <2>2, <2>4, <2>5, <3>1 DEF BetweenInv
  <2>7. StageInv(p, as) /\ EmittedInv(p)
    BY <2>2, <2>6 DEF StageInv, EmittedInv, Between, Attempting
  <2>8. CleanInv(p, as)
    <3>1. Last(as).taken # "yes"
      BY <1>4, <2>4
    <3>2. QED  BY <1>6, <2>2, <3>1 DEF CleanInv
  <2>9. RequestInv(p, as)
    BY <1>5, <2>7, <2>8 DEF RequestInv
  <2>10. QED  BY <1>1, <1>4, <1>7, <1>8, <2>2, <2>3, <2>9, RequestStep
<1>10. CASE ~CanRotate(r, outcome, commitment)
  <2> DEFINE p == Ended("thrown")
  <2>1. p \in Request /\ p.stage = "thrown"
    BY FreshValues DEF Stage
  <2>2. req' = [req EXCEPT ![r] = p] /\ out' = [out EXCEPT ![r] = q.buffered]
    BY <1>10 DEF Fail, FlushAnd
  <2> HIDE DEF p
  <2>3. out' \in [Requests -> Seq(Event)]
    BY <1>1, <2>2, RequestValues
  <2>4. StageInv(p, as) /\ EmittedInv(p)
    BY <1>3, <1>4, <2>1 DEF StageInv, EmittedInv, Between, Attempting, Failure
  <2>5. CleanInv(p, as)
    BY <1>6, <2>1 DEF CleanInv, Between
  <2>6. RequestInv(p, as)
    BY <1>5, <2>4, <2>5 DEF RequestInv
  <2>7. QED  BY <1>1, <1>4, <1>7, <1>8, <2>1, <2>2, <2>3, <2>6, RequestStep
<1>11. QED  BY <1>9, <1>10

\* What the invariant says of one request.
LEMMA OfRequest ==
  ASSUME IInv, NEW r \in Requests
  PROVE  /\ req[r] \in Request /\ attempts[r] \in Seq(Attempt)
         /\ AttemptsInv(attempts[r]) /\ StageInv(req[r], attempts[r]) /\ EmittedInv(req[r])
         /\ CleanInv(req[r], attempts[r])
         /\ Current(r) = Last(attempts[r]) /\ Number(r) = Len(attempts[r])
         /\ out \in [Requests -> Seq(Event)] /\ req \in [Requests -> Request]
         /\ attempts \in [Requests -> Seq(Attempt)]
         /\ acct \in [Accounts -> [ready : BOOLEAN, gen : 1..(MaxChanges + 1), cooling : BOOLEAN]]
BY DEF IInv, TypeOK, RequestInv, Current, Last, Number

\* A step that moves the locals of a request and nothing else but its events.
LEMMA LocalStep ==
  ASSUME IInv, NEW r \in Requests,
         NEW q \in Request, req' = [req EXCEPT ![r] = q], q.stage # "choosing",
         RequestInv(q, attempts[r]), out' \in [Requests -> Seq(Event)],
         UNCHANGED <<pool, accounts, selector, attempts>>
  PROVE  Kept
<1>1. /\ attempts[r] \in Seq(Attempt) /\ attempts' = [attempts EXCEPT ![r] = attempts[r]]
      /\ acct' = acct /\ UNCHANGED <<pool, changes, selector>>
  BY OfRequest DEF accounts
<1>2. ~(Len(attempts[r]) > Number(r))
  BY <1>1 DEF Number
<1>3. QED  BY <1>1, <1>2, OfRequest, RequestStep

LEMMA PrepareStep ==
  ASSUME IInv, NEW r \in Requests, Prepare(r)
  PROVE  Kept
<1> DEFINE gens == [a \in Accounts |-> acct[a].gen]
           q1 == [req[r] EXCEPT !.stage = "selecting"]
           q == [q1 EXCEPT !.snapshot = gens]
<1>1. req[r] \in Request /\ req[r].stage = "new"
  BY OfRequest DEF Prepare, At
<1>2. gens \in [Accounts -> 1..(MaxChanges + 1)]
  BY OfRequest
<1>3. req' = [req EXCEPT ![r] = q]
  BY DEF Prepare
<1> HIDE DEF gens
<1>4. /\ q1 \in Request /\ q1.stage = "selecting" /\ q1.tried = req[r].tried
      /\ q1.emitted = req[r].emitted /\ q1.commitment = req[r].commitment
  BY <1>1 DEF Request, Stage
<1> HIDE DEF q1
<1>5. /\ q \in Request /\ q.stage = "selecting" /\ q.tried = req[r].tried
      /\ q.emitted = req[r].emitted /\ q.commitment = req[r].commitment
  BY <1>2, <1>4 DEF Request
<1> HIDE DEF q
<1>6. StageInv(q, attempts[r])
  <2>1. BetweenInv(req[r], attempts[r])
    BY <1>1, OfRequest DEF StageInv, Between
  <2>2. BetweenInv(q, attempts[r])
    BY <1>5, <2>1 DEF BetweenInv, TriedInv
  <2>3. QED  BY <1>5, <2>2 DEF StageInv, Between, Attempting
<1>7. RequestInv(q, attempts[r])
  BY <1>1, <1>5, <1>6, OfRequest DEF RequestInv, EmittedInv, CleanInv, Between
<1>8. QED  BY <1>3, <1>5, <1>7, OfRequest, LocalStep DEF Prepare

LEMMA BindCredentialStep ==
  ASSUME IInv, NEW r \in Requests, BindCredential(r)
  PROVE  Kept
<1>1. req[r] \in Request /\ req[r].stage = "binding"
  BY OfRequest DEF BindCredential, At
<1>2. CASE Fail(r, "fatal", "unknown", "no")
  BY <1>1, <1>2, FailStep DEF Failure, Attempting, Taken
<1>3. CASE /\ req' = [req EXCEPT ![r].stage = "sent"]
           /\ UNCHANGED <<pool, accounts, selector, out, attempts>>
  <2> DEFINE q == [req[r] EXCEPT !.stage = "sent"]
  <2>1. req' = [req EXCEPT ![r] = q]
    BY <1>3
  <2>2. /\ q \in Request /\ q.stage = "sent" /\ q.tried = req[r].tried
        /\ q.account = req[r].account /\ q.emitted = req[r].emitted
        /\ q.commitment = req[r].commitment
    BY <1>1 DEF Request, Stage
  <2> HIDE DEF q
  <2>3. StageInv(q, attempts[r])
    BY <1>1, <2>2, OfRequest DEF StageInv, Between, Attempting, AttemptingInv, TriedInv
  <2>4. RequestInv(q, attempts[r])
    BY <1>1, <2>2, <2>3, OfRequest DEF RequestInv, EmittedInv, CleanInv, Between
  <2>5. QED  BY <1>3, <2>1, <2>2, <2>4, OfRequest, LocalStep
<1>4. QED  BY <1>2, <1>3 DEF BindCredential

\* The failures of an attempt before its stream, which none of them calls taken
\* when the gateway says it was not sent.
LEMMA UnsentStep ==
  ASSUME IInv, NEW r \in Requests, NEW outcome \in Failure,
         \/ ConnectionFails(r)
         \/ Rejected(r, outcome)
         \/ Unclear(r, outcome)
         \/ AbortWhileSent(r)
  PROVE  Kept
<1>1. /\ req[r].stage = "sent" /\ req[r].stage \in Attempting
      /\ "retryable" \in Failure
  BY OfRequest DEF ConnectionFails, Rejected, Unclear, AbortWhileSent, At, Attempting, Failure
<1>2. Current(r).taken # "yes"
  <2>1. Len(attempts[r]) > 0
    <3>1. AttemptingInv(req[r], attempts[r]) /\ Len(req[r].tried) \in Nat
      BY <1>1, OfRequest, RequestValues DEF StageInv
    <3>2. QED  BY <3>1 DEF AttemptingInv, TriedInv
  <2>2. QED  BY <1>1, <2>1, OfRequest DEF CleanInv
<1>3. CASE ConnectionFails(r)
  BY <1>1, <1>2, <1>3, FailStep DEF ConnectionFails, Taken
<1>4. CASE Rejected(r, outcome)
  BY <1>1, <1>2, <1>4, FailStep DEF Rejected, Taken
<1>5. CASE Unclear(r, outcome)
  BY <1>1, <1>5, FailStep DEF Unclear, CommitmentOfUnclear, Taken
<1>6. CASE AbortWhileSent(r)
  BY <1>1, <1>6, FailStep DEF AbortWhileSent, Taken
<1>7. QED  BY <1>3, <1>4, <1>5, <1>6

\* The failures of an attempt whose stream began.
LEMMA BrokenStep ==
  ASSUME IInv, NEW r \in Requests, NEW outcome \in Failure,
         \/ AfterFailed(r)
         \/ Truncated(r)
         \/ StreamThrows(r, outcome)
         \/ AbortWhileStreaming(r)
  PROVE  Kept
<1>1. CASE AfterFailed(r)
  <2>1. req[r].stage = "failing" /\ req[r].failure \in Failure
    BY <1>1, OfRequest, RequestValues DEF AfterFailed, At
  <2>2. (CommitmentOfFailed(r) = "not-sent" => Current(r).taken # "yes")
    BY <2>1, OfRequest DEF CleanInv, CommitmentOfFailed
  <2>3. QED  BY <1>1, <2>1, <2>2, FailStep DEF AfterFailed, Attempting, Taken
<1>2. CASE Truncated(r)
  <2>1. req[r].stage = "streaming" /\ ~req[r].terminal /\ req[r].emitted > 0
    BY <1>2, OfRequest DEF Truncated, Streaming, At
  <2>2. CommitmentOfFailed(r) # "not-sent"
    BY <2>1, OfRequest DEF CleanInv, CommitmentOfFailed
  <2>3. QED  BY <1>2, <2>1, <2>2, FailStep DEF Truncated, Attempting, Failure, Taken
<1>3. CASE StreamThrows(r, outcome)
  BY <1>3, FailStep DEF StreamThrows, At, Attempting, Taken
<1>4. CASE AbortWhileStreaming(r) /\ req[r].signal # "client"
  BY <1>4, FailStep DEF AbortWhileStreaming, At, Attempting, Failure, Taken
<1>5. CASE AbortWhileStreaming(r) /\ req[r].signal = "client"
  <2> DEFINE q == Ended("thrown")
  <2>1. q \in Request /\ q.stage = "thrown"
    BY FreshValues DEF Stage
  <2>2. req' = [req EXCEPT ![r] = q] /\ UNCHANGED <<pool, accounts, selector, out, attempts>>
    BY <1>5 DEF AbortWhileStreaming
  <2> HIDE DEF q
  <2>3. req[r].stage = "streaming"
    BY <1>5 DEF AbortWhileStreaming, At
  <2>4. StageInv(q, attempts[r])
    BY <2>1, <2>3, OfRequest DEF StageInv, Between, Attempting, AttemptingInv
  <2>5. RequestInv(q, attempts[r])
    BY <2>1, <2>4, OfRequest DEF RequestInv, EmittedInv, CleanInv, Between
  <2>6. QED  BY <2>1, <2>2, <2>5, OfRequest, LocalStep
<1>6. QED  BY <1>1, <1>2, <1>3, <1>4, <1>5

LEMMA StreamEndsStep ==
  ASSUME IInv, NEW r \in Requests, StreamEnds(r)
  PROVE  Kept
<1> DEFINE old == attempts[r]
           as == Replaced(old, Number(r), Settled(Current(r), "success", "yes"))
           p == Ended("returned")
<1>1. req[r].stage = "streaming"
  BY DEF StreamEnds, At
<1>2. /\ as \in Seq(Attempt) /\ Len(as) = Len(old) /\ Len(old) \in Nat \ {0}
      /\ attempts' = [attempts EXCEPT ![r] = as]
      /\ \A i \in 1..Len(old) : as[i].account = old[i].account
      /\ \A i \in 1..(Len(old) - 1) : as[i] = old[i]
      /\ Last(as).outcomes = <<"success">>
      /\ acct' \in [Accounts -> [ready : BOOLEAN, gen : 1..(MaxChanges + 1), cooling : BOOLEAN]]
      /\ \A a \in Accounts : acct'[a].gen = acct[a].gen
  <2>1. Record(r, "success", "yes") /\ "success" \in Outcome /\ req[r].stage \in Attempting
    BY <1>1 DEF StreamEnds, Outcome, Attempting
  <2>2. "yes" \in Taken
    BY DEF Taken
  <2>3. as = Replaced(attempts[r], Number(r), Settled(Current(r), "success", "yes"))
    OBVIOUS
  <2> HIDE DEF as
  <2>4. /\ as \in Seq(Attempt) /\ Len(as) = Number(r) /\ Number(r) \in Nat \ {0}
        /\ attempts' = [attempts EXCEPT ![r] = as]
        /\ \A i \in 1..Number(r) : as[i].account = attempts[r][i].account
        /\ \A i \in 1..(Number(r) - 1) : as[i] = attempts[r][i]
        /\ acct' \in [Accounts -> [ready : BOOLEAN, gen : 1..(MaxChanges + 1), cooling : BOOLEAN]]
        /\ \A a \in Accounts : acct'[a].gen = acct[a].gen
    BY <2>1, <2>2, <2>3, RecordValues
  <2>5. Number(r) = Len(old)
    BY DEF Number
  <2>6. Last(as).outcomes = <<"success">>
    <3>1. Current(r).outcomes = <<>> /\ old \in Seq(Attempt)
      BY <2>1, OfRequest DEF StageInv, AttemptingInv
    <3>2. as[Number(r)] = Settled(Current(r), "success", "yes")
      BY <2>3, <2>4, <2>5, <3>1 DEF Replaced
    <3>3. Last(as) = Settled(Current(r), "success", "yes")
      BY <2>4, <3>2 DEF Last
    <3>4. QED  BY <3>1, <3>3 DEF Settled
  <2>7. QED  BY <2>4, <2>5, <2>6
<1>3. p \in Request /\ p.stage = "returned"
  BY FreshValues DEF Stage
<1>4. req' = [req EXCEPT ![r] = p] /\ out' = [out EXCEPT ![r] = req[r].buffered]
  BY DEF StreamEnds, FlushAnd
<1> HIDE DEF as, p
<1>5. out' \in [Requests -> Seq(Event)]
  BY <1>4, OfRequest, RequestValues
<1>6. AttemptsInv(as)
  BY <1>2, OfRequest DEF AttemptsInv
<1>7. StageInv(p, as) /\ EmittedInv(p)
  BY <1>2, <1>3 DEF StageInv, EmittedInv, Between, Attempting
<1>8. CleanInv(p, as)
  BY <1>2, <1>3, OfRequest DEF CleanInv, Between
<1>9. ~(Len(as) > Number(r)) /\ UNCHANGED <<pool, changes, selector>>
  BY <1>2 DEF Number, StreamEnds
<1>10. QED  BY <1>2, <1>3, <1>4, <1>5, <1>6, <1>7, <1>8, <1>9, RequestStep DEF RequestInv

\* The provider answers: the attempt is taken, and its stream begins.
LEMMA AcceptedStep ==
  ASSUME IInv, NEW r \in Requests, Accepted(r)
  PROVE  Kept
<1> DEFINE old == attempts[r]
           c == Current(r)
           d == [c EXCEPT !.taken = "yes"]
           as == Replaced(old, Len(old), d)
           q == [req[r] EXCEPT !.stage = "streaming"]
<1>1. /\ req[r].stage = "sent" /\ req[r].emitted = 0 /\ AttemptingInv(req[r], old)
      /\ req[r] \in Request
  BY OfRequest DEF Accepted, At, EmittedInv, StageInv, Attempting
<1>2. Len(old) \in Nat \ {0} /\ c = old[Len(old)] /\ c \in Attempt
  <2>1. Len(req[r].tried) \in Nat /\ old \in Seq(Attempt)
    BY OfRequest, RequestValues
  <2>2. Len(old) \in Nat \ {0}
    BY <1>1, <2>1 DEF AttemptingInv, TriedInv
  <2>3. QED  BY <2>1, <2>2, OfRequest DEF Last
<1>3. d \in Attempt /\ d.account = c.account /\ d.outcomes = c.outcomes
  BY <1>2 DEF Attempt, Taken
<1>4. attempts' = [attempts EXCEPT ![r] = as]
  BY OfRequest DEF Accepted, Replaced, Current, Number
<1> HIDE DEF d
<1>5. /\ as \in Seq(Attempt) /\ Len(as) = Len(old)
      /\ \A i \in 1..Len(old) : as[i] = IF i = Len(old) THEN d ELSE old[i]
  <2>1. Len(old) \in 1..Len(old) /\ old \in Seq(Attempt)
    BY <1>2, OfRequest
  <2> HIDE DEF c, old
  <2>2. QED  BY <1>3, <2>1, OneReplaced, ZenonT(30)
<1> HIDE DEF as, c
<1>6. /\ \A i \in 1..Len(old) : as[i].account = old[i].account
      /\ \A i \in 1..(Len(old) - 1) : as[i] = old[i]
      /\ Last(as).outcomes = Last(old).outcomes /\ Last(as).account = Last(old).account
  <2>1. \A i \in 1..Len(old) : as[i].account = old[i].account
    BY <1>2, <1>3, <1>5
  <2>2. ASSUME NEW i \in 1..(Len(old) - 1)  PROVE as[i] = old[i]
    <3>1. i \in 1..Len(old) /\ i # Len(old)
      BY <1>2, <2>2
    <3>2. QED  BY <1>5, <3>1
  <2>3. Last(as) = d /\ Last(old) = c
    <3>1. Len(old) \in 1..Len(old)
      BY <1>2
    <3>2. as[Len(old)] = d
      BY <1>5, <3>1
    <3>3. QED  BY <1>2, <1>5, <3>2 DEF Last
  <2>4. QED  BY <1>3, <2>1, <2>2, <2>3
<1>7. /\ q \in Request /\ q.stage = "streaming" /\ q.tried = req[r].tried
      /\ q.account = req[r].account /\ q.emitted = 0
  BY <1>1 DEF Request, Stage
<1>8. req' = [req EXCEPT ![r] = q]
  BY DEF Accepted
<1> HIDE DEF q
<1>9. AttemptsInv(as)
  BY <1>2, <1>5, <1>6, OfRequest DEF AttemptsInv
<1>10. AttemptingInv(q, as)
  <2>1. TriedInv(q, as, 1)
    <3>1. Len(old) = Len(q.tried) + 1 /\ Len(q.tried) \in Nat
      BY <1>1, <1>7, RequestValues DEF AttemptingInv, TriedInv
    <3>2. \A i \in 1..Len(q.tried) : i \in 1..Len(old) /\ old[i].account = q.tried[i]
      BY <1>1, <1>7, <3>1 DEF AttemptingInv, TriedInv
    <3>3. QED  BY <1>5, <1>6, <3>1, <3>2 DEF TriedInv
  <2>2. QED  BY <1>1, <1>6, <1>7, <2>1 DEF AttemptingInv
<1>11. StageInv(q, as) /\ EmittedInv(q)
  BY <1>7, <1>10, PoolAssumption DEF StageInv, EmittedInv, Between, Attempting
<1>12. CleanInv(q, as)
  <2>1. \A i \in 1..(Len(as) - 1) : as[i].taken # "yes"
    BY <1>2, <1>5, <1>6, OfRequest DEF CleanInv
  <2>2. /\ q.stage \notin Between \cup {"binding", "sent"} /\ q.stage # "failing"
        /\ ~(q.emitted > 0)
    BY <1>7 DEF Between
  <2>3. QED  BY <1>7, <2>1, <2>2 DEF CleanInv
<1>13. ~(Len(as) > Number(r)) /\ UNCHANGED <<pool, changes, selector, acct, out>>
  BY <1>2, <1>5, OfRequest DEF Accepted, accounts
<1>14. QED  BY <1>5, <1>4, <1>7, <1>8, <1>9, <1>11, <1>12, <1>13, OfRequest, RequestStep DEF RequestInv

\* An event of the attempt is held back, or yielded with those held back.
LEMMA DeliverStep ==
  ASSUME IInv, NEW r \in Requests, NEW state \in Request,
         NEW kind \in {"started", "output", "completed", "failed"},
         Deliver(r, kind, state), req[r].stage \in Attempting,
         state.stage \in {"streaming", "failing"}, state.tried = req[r].tried,
         state.account = req[r].account, state.emitted = req[r].emitted,
         state.emitted <= MaxEvents,
         state.stage = "streaming" /\ ~state.terminal =>
           state.emitted < MaxEvents /\ state.commitment # "not-sent",
         (state.stage = "failing" /\ state.commitment = "not-sent" =>
                                Current(r).taken # "yes")
  PROVE  Kept
<1> DEFINE event == Emit(r, kind)
           e == state.emitted + 1
           counted == [state EXCEPT !.emitted = e]
<1>1. /\ AttemptingInv(req[r], attempts[r]) /\ AttemptsInv(attempts[r])
      /\ Len(req[r].tried) \in Nat /\ Number(r) = Len(attempts[r])
      /\ Current(r) = Last(attempts[r])
  BY OfRequest, RequestValues DEF StageInv
<1>2. Number(r) \in 1..(RetryBudget + 1)
  BY <1>1, PoolAssumption DEF AttemptingInv, TriedInv, AttemptsInv
<1>3. e \in 1..(MaxEvents + 1) /\ state.emitted \in Nat
  BY PoolAssumption, RequestValues
<1>4. event \in Event
  BY <1>2, <1>3 DEF Emit, Event
<1>5. /\ counted \in Request /\ counted.emitted = state.emitted + 1
      /\ counted.stage = state.stage /\ counted.tried = state.tried
      /\ counted.account = state.account /\ counted.terminal = state.terminal
      /\ counted.commitment = state.commitment
  <2>1. e \in 0..(MaxEvents + 1) /\ e = state.emitted + 1
    BY <1>3
  <2> HIDE DEF e
  <2>2. QED  BY <2>1 DEF Request
<1> HIDE DEF counted, event
<1>6. ASSUME NEW q \in Request, q.emitted = state.emitted + 1, q.stage = state.stage,
             q.tried = state.tried, q.account = state.account, q.terminal = state.terminal,
             q.commitment = state.commitment
      PROVE  RequestInv(q, attempts[r]) /\ q.stage # "choosing"
  <2>1. AttemptingInv(q, attempts[r])
    BY <1>1, <1>6 DEF AttemptingInv, TriedInv
  <2>2. StageInv(q, attempts[r])
    BY <1>6, <2>1 DEF StageInv, Between, Attempting
  <2>3. EmittedInv(q)
    <3>1. q.stage \notin Between \cup {"binding", "sent"}
      BY <1>6 DEF Between
    <3>2. q.stage = "streaming" /\ ~q.terminal => state.emitted < MaxEvents
      BY <1>6
    <3>3. state.emitted < MaxEvents => q.emitted <= MaxEvents
      BY <1>3, <1>6, PoolAssumption
    <3>4. QED  BY <3>1, <3>2, <3>3 DEF EmittedInv
  <2>4. CleanInv(q, attempts[r])
    BY <1>1, <1>6, OfRequest DEF CleanInv, Between
  <2>5. QED  BY <1>1, <1>6, <2>2, <2>3, <2>4 DEF RequestInv
<1>7. CASE state.outputStarted
  <2> DEFINE q == [counted EXCEPT !.buffered = <<>>]
  <2>1. /\ q \in Request /\ q.emitted = counted.emitted /\ q.stage = counted.stage
        /\ q.tried = counted.tried /\ q.account = counted.account
        /\ q.terminal = counted.terminal /\ q.commitment = counted.commitment
    <3>1. <<>> \in Seq(Event) /\ counted \in Request
      BY <1>5
    <3>2. QED  BY <3>1 DEF Request
  <2>2. /\ req' = [req EXCEPT ![r] = q] /\ out' = [out EXCEPT ![r] = Append(state.buffered, event)]
        /\ UNCHANGED <<pool, accounts, selector, attempts>>
    BY <1>7 DEF Deliver, counted, event
  <2> HIDE DEF q
  <2>3. out' \in [Requests -> Seq(Event)]
    BY <1>4, <2>2, OfRequest, RequestValues
  <2>4. RequestInv(q, attempts[r]) /\ q.stage # "choosing"
    BY <1>5, <1>6, <2>1
  <2>5. QED  BY <2>1, <2>2, <2>3, <2>4, LocalStep
<1>8. CASE ~state.outputStarted
  <2> DEFINE q == [counted EXCEPT !.buffered = Append(@, event)]
  <2>1. Append(counted.buffered, event) \in Seq(Event)
    BY <1>4, <1>5, RequestValues
  <2>2. /\ q \in Request /\ q.emitted = counted.emitted /\ q.stage = counted.stage
        /\ q.tried = counted.tried /\ q.account = counted.account
        /\ q.terminal = counted.terminal /\ q.commitment = counted.commitment
    BY <1>5, <2>1 DEF Request
  <2>3. req' = [req EXCEPT ![r] = q] /\ UNCHANGED <<out, pool, accounts, selector, attempts>>
    BY <1>8 DEF Deliver, counted, event
  <2> HIDE DEF q
  <2>4. RequestInv(q, attempts[r]) /\ q.stage # "choosing"
    BY <1>5, <1>6, <2>2
  <2>5. QED  BY <2>2, <2>3, <2>4, OfRequest, LocalStep
<1>9. QED  BY <1>7, <1>8

LEMMA EventStep ==
  ASSUME IInv, NEW r \in Requests, NEW outcome \in Failure,
         \/ ResponseStarted(r)
         \/ Output(r)
         \/ ResponseCompleted(r)
         \/ ResponseFailed(r, outcome)
  PROVE  Kept
<1> DEFINE old == req[r]
<1>1. old \in Request /\ EmittedInv(old) /\ CleanInv(old, attempts[r])
      /\ Current(r) = Last(attempts[r])
  BY OfRequest
<1>2. CASE ResponseStarted(r)
  <2> DEFINE q == [old EXCEPT !.commitment = "provider-accepted"]
  <2>1. old.stage = "streaming" /\ ~old.terminal /\ old.emitted = 0
    BY <1>2 DEF ResponseStarted, Streaming, At
  <2>2. /\ q \in Request /\ q.stage = old.stage /\ q.tried = old.tried /\ q.account = old.account
        /\ q.emitted = old.emitted /\ q.terminal = old.terminal
        /\ q.commitment = "provider-accepted"
    BY <1>1 DEF Request, Commitment
  <2>3. Deliver(r, "started", q)
    BY <1>2 DEF ResponseStarted
  <2> HIDE DEF q
  <2>4. QED  BY <2>1, <2>2, <2>3, PoolAssumption, DeliverStep DEF Attempting
<1>3. CASE Output(r)
  <2> DEFINE q1 == [old EXCEPT !.commitment = "client-output-started"]
             q == [q1 EXCEPT !.outputStarted = TRUE]
  <2>1. old.stage = "streaming" /\ ~old.terminal /\ old.emitted < MaxEvents
    BY <1>3 DEF Output, Streaming, At
  <2>2. Deliver(r, "output", q)
    BY <1>3 DEF Output
  <2>3. /\ q1 \in Request /\ q1.stage = old.stage /\ q1.tried = old.tried
        /\ q1.account = old.account /\ q1.emitted = old.emitted
        /\ q1.terminal = old.terminal /\ q1.commitment = "client-output-started"
    BY <1>1 DEF Request, Commitment
  <2> HIDE DEF q1
  <2>4. /\ q \in Request /\ q.stage = old.stage /\ q.tried = old.tried
        /\ q.account = old.account /\ q.emitted = old.emitted
        /\ q.terminal = old.terminal /\ q.commitment = "client-output-started"
    BY <2>3 DEF Request
  <2> HIDE DEF q
  <2>5. old.emitted \in Nat
    BY <1>1, RequestValues, PoolAssumption
  <2>6. QED  BY <2>1, <2>2, <2>4, <2>5, PoolAssumption, DeliverStep DEF Attempting
<1>4. CASE ResponseCompleted(r)
  <2> DEFINE q == [old EXCEPT !.terminal = TRUE]
  <2>1. old.stage = "streaming" /\ old.emitted <= MaxEvents
    BY <1>1, <1>4 DEF ResponseCompleted, Streaming, At, EmittedInv
  <2>2. /\ q \in Request /\ q.stage = old.stage /\ q.tried = old.tried /\ q.account = old.account
        /\ q.emitted = old.emitted /\ q.terminal
    BY <1>1 DEF Request
  <2>3. Deliver(r, "completed", q)
    BY <1>4 DEF ResponseCompleted
  <2> HIDE DEF q
  <2>4. QED  BY <2>1, <2>2, <2>3, DeliverStep DEF Attempting
<1>5. CASE ResponseFailed(r, outcome)
  <2> DEFINE q1 == [old EXCEPT !.stage = "failing"]
             q == [q1 EXCEPT !.failure = outcome]
  <2>1. /\ old.stage \in {"sent", "streaming"} /\ old.emitted <= MaxEvents
        /\ old.stage = "streaming" => ~old.terminal /\ old.emitted > 0
    BY <1>1, <1>5, PoolAssumption DEF ResponseFailed, Streaming, At, EmittedInv
  <2>2. Deliver(r, "failed", q)
    BY <1>5 DEF ResponseFailed
  <2>3. /\ q1 \in Request /\ q1.stage = "failing" /\ q1.tried = old.tried
        /\ q1.account = old.account /\ q1.emitted = old.emitted /\ q1.commitment = old.commitment
    BY <1>1 DEF Request, Stage
  <2> HIDE DEF q1
  <2>4. /\ q \in Request /\ q.stage = "failing" /\ q.tried = old.tried
        /\ q.account = old.account /\ q.emitted = old.emitted /\ q.commitment = old.commitment
    BY <2>3 DEF Request, Failure
  <2> HIDE DEF q
  <2>5. (q.commitment = "not-sent" => Current(r).taken # "yes")
    <3>1. CASE old.stage = "sent"
      <4>1. Len(attempts[r]) > 0
        <5>1. AttemptingInv(old, attempts[r]) /\ Len(old.tried) \in Nat
          BY <3>1, OfRequest, RequestValues DEF StageInv, Attempting
        <5>2. QED  BY <5>1 DEF AttemptingInv, TriedInv
      <4>2. QED  BY <1>1, <3>1, <4>1 DEF CleanInv
    <3>2. CASE old.stage = "streaming"
      BY <1>1, <2>1, <2>4, <3>2 DEF CleanInv
    <3>3. QED  BY <2>1, <3>1, <3>2
  <2>6. QED  BY <2>1, <2>2, <2>4, <2>5, DeliverStep DEF Attempting
<1>6. QED  BY <1>2, <1>3, <1>4, <1>5

\* An attempt begins only on an account that is eligible now.
LEMMA RevalidateStep ==
  ASSUME IInv, NEW r \in Requests, Revalidate(r)
  PROVE  Kept
<1> DEFINE old == attempts[r]
           w == req[r]
<1>1. /\ w \in Request /\ w.stage = "revalidating" /\ old \in Seq(Attempt)
      /\ AttemptsInv(old) /\ BetweenInv(w, old) /\ Len(old) \in Nat
  BY OfRequest DEF Revalidate, At, StageInv, Between
<1>2. CASE Eligible(w.account)
  <2> DEFINE new == [account |-> w.account, taken |-> "no", outcomes |-> <<>>]
             as == Append(old, new)
             q == [w EXCEPT !.stage = "binding"]
  <2>1. new \in Attempt /\ w.account \in Accounts
    BY <1>1 DEF Attempt, BetweenInv, Taken
  <2>2. /\ req' = [req EXCEPT ![r] = q] /\ attempts' = [attempts EXCEPT ![r] = as]
        /\ UNCHANGED <<pool, accounts, selector, out>>
    BY <1>2 DEF Revalidate
  <2>3. new.account = w.account /\ new.outcomes = <<>> /\ new.taken # "yes"
    OBVIOUS
  <2> HIDE DEF new
  <2>4. /\ as \in Seq(Attempt) /\ Len(as) = Len(old) + 1 /\ as[Len(old) + 1] = new
        /\ \A i \in 1..Len(old) : as[i] = old[i]
    BY <1>1, <2>1, AppendProperties
  <2> HIDE DEF as
  <2>5. /\ q \in Request /\ q.stage = "binding" /\ q.tried = w.tried /\ q.account = w.account
        /\ q.emitted = w.emitted /\ q.commitment = w.commitment
    BY <1>1 DEF Request, Stage
  <2> HIDE DEF q
  <2>6. /\ Len(old) = Len(w.tried) /\ Len(old) <= RetryBudget
        /\ \A i \in 1..Len(old) : old[i].account = w.tried[i] /\ w.tried[i] # w.account
        /\ Len(old) > 0 => Last(old).outcomes = <<"retryable">>
    <3>1. Len(w.tried) \in Nat
      BY <1>1, RequestValues
    <3>2. Len(old) = Len(w.tried)
      BY <1>1, <3>1 DEF BetweenInv, TriedInv
    <3>3. QED  BY <1>1, <3>2 DEF BetweenInv, TriedInv
  <2>7. AttemptsInv(as)
    <3>1. Len(as) <= RetryBudget + 1
      BY <1>1, <2>4, <2>6, PoolAssumption
    <3>2. ASSUME NEW i \in 1..Len(as), NEW j \in 1..Len(as), as[i].account = as[j].account
          PROVE  i = j
      <4>1. i \in 1..Len(old) \/ i = Len(old) + 1
        BY <1>1, <2>4
      <4>2. j \in 1..Len(old) \/ j = Len(old) + 1
        BY <1>1, <2>4
      <4>3. CASE i \in 1..Len(old) /\ j \in 1..Len(old)
        BY <1>1, <2>4, <3>2, <4>3 DEF AttemptsInv
      <4>4. CASE i \in 1..Len(old) /\ j = Len(old) + 1
        BY <2>3, <2>4, <2>6, <3>2, <4>4
      <4>5. CASE i = Len(old) + 1 /\ j \in 1..Len(old)
        BY <2>3, <2>4, <2>6, <3>2, <4>5
      <4>6. QED  BY <4>1, <4>2, <4>3, <4>4, <4>5
    <3>3. ASSUME NEW i \in 1..(Len(as) - 1)  PROVE as[i].outcomes = <<"retryable">>
      <4>1. i \in 1..Len(old) /\ (i \in 1..(Len(old) - 1) \/ i = Len(old))
        BY <1>1, <2>4
      <4>2. as[i] = old[i] /\ Len(old) > 0
        <5>1. Len(old) > 0
          BY <1>1, <4>1
        <5>2. QED  BY <2>4, <4>1, <5>1
      <4>3. CASE i = Len(old)
        BY <2>6, <4>2, <4>3 DEF Last
      <4>4. CASE i \in 1..(Len(old) - 1)
        BY <1>1, <4>2, <4>4 DEF AttemptsInv
      <4>5. QED  BY <4>1, <4>3, <4>4
    <3>4. QED  BY <3>1, <3>2, <3>3 DEF AttemptsInv
  <2>8. Last(as) = new
    BY <2>4 DEF Last
  <2>9. AttemptingInv(q, as)
    <3>1. TriedInv(q, as, 1)
      BY <1>1, <2>4, <2>5, <2>6 DEF TriedInv
    <3>2. QED  BY <2>3, <2>5, <2>8, <3>1 DEF AttemptingInv
  <2>10. StageInv(q, as)
    BY <2>5, <2>9 DEF StageInv, Between, Attempting
  <2>11. w.emitted = 0 /\ w.commitment = "not-sent"
    BY <1>1, OfRequest DEF EmittedInv, Between
  <2>12. EmittedInv(q)
    BY <2>5, <2>11 DEF EmittedInv
  <2>13. CleanInv(q, as)
    <3>1. CleanInv(w, old)
      BY OfRequest
    <3>2. ASSUME NEW i \in 1..(Len(as) - 1)  PROVE as[i].taken # "yes"
      <4>1. i \in 1..Len(old) /\ (i \in 1..(Len(old) - 1) \/ i = Len(old)) /\ Len(old) > 0
        BY <1>1, <2>4
      <4>2. QED  BY <1>1, <2>4, <3>1, <4>1 DEF CleanInv, Between, Last
    <3>3. QED  BY <2>3, <2>5, <2>8, <2>11, <3>2 DEF CleanInv
  <2>14. Len(as) > Number(r) => Eligible(as[Number(r) + 1].account)
    BY <1>2, <2>3, <2>4, OfRequest
  <2>15. acct' = acct /\ UNCHANGED <<pool, changes, selector>>
    BY <2>2 DEF accounts
  <2>16. QED  BY <2>2, <2>4, <2>5, <2>7, <2>10, <2>12, <2>13, <2>14, <2>15, OfRequest, RequestStep
                 DEF RequestInv
<1>3. CASE ~Eligible(w.account)
  <2> DEFINE q == Ended("thrown")
  <2>1. q \in Request /\ q.stage = "thrown"
    BY FreshValues DEF Stage
  <2>2. req' = [req EXCEPT ![r] = q] /\ UNCHANGED <<pool, accounts, selector, out, attempts>>
    BY <1>3 DEF Revalidate
  <2> HIDE DEF q
  <2>3. StageInv(q, old)
    BY <1>1, <2>1 DEF StageInv, Between, Attempting, BetweenInv
  <2>4. RequestInv(q, old)
    BY <1>1, <2>1, <2>3, OfRequest DEF RequestInv, EmittedInv, CleanInv, Between
  <2>5. QED  BY <2>1, <2>2, <2>4, OfRequest, LocalStep
<1>4. QED  BY <1>2, <1>3

\* What moves no request of its own accord.
LEMMA TakeStep ==
  ASSUME IInv, NEW r \in Requests, Take(r)
  PROVE  Kept
<1>1. /\ out \in [Requests -> Seq(Event)] /\ out[r] # <<>>
      /\ req' = [req EXCEPT ![r] = req[r]] /\ req' = req
  BY OfRequest DEF Take
<1>2. out' \in [Requests -> Seq(Event)]
  BY <1>1 DEF Take
<1>3. UNCHANGED <<pool, accounts, selector, req, attempts>>
  BY DEF Take
<1>4. IInv'
  BY <1>2, <1>3 DEF IInv, TypeOK, GenInv, QueueInv, TurnInv, Back, Index, accounts, selector
<1>5. SelectionStep
  BY <1>3, OfRequest, NoneBegun DEF SelectionStep, selector
<1>6. QED  BY <1>4, <1>5 DEF Kept

LEMMA DisconnectStep ==
  ASSUME IInv, NEW r \in Requests, Disconnect(r)
  PROVE  Kept
<1> DEFINE q == [req[r] EXCEPT !.signal = "client"]
<1>1. req[r] \in Request /\ req[r].stage \in {"sent", "streaming"}
  BY OfRequest DEF Disconnect
<1>2. /\ q \in Request /\ q.stage = req[r].stage /\ q.tried = req[r].tried
      /\ q.account = req[r].account /\ q.emitted = req[r].emitted
      /\ q.terminal = req[r].terminal /\ q.commitment = req[r].commitment
  BY <1>1 DEF Request
<1>3. /\ req' = [req EXCEPT ![r] = q] /\ UNCHANGED <<pool, accounts, selector, out, attempts>>
  BY DEF Disconnect, Signal
<1> HIDE DEF q
<1>4. StageInv(q, attempts[r])
  <2>1. AttemptingInv(req[r], attempts[r])
    BY <1>1, OfRequest DEF StageInv, Attempting
  <2>2. AttemptingInv(q, attempts[r])
    BY <1>2, <2>1 DEF AttemptingInv, TriedInv
  <2>3. QED  BY <1>1, <1>2, <2>2 DEF StageInv, Between
<1>5. RequestInv(q, attempts[r])
  BY <1>1, <1>2, <1>4, OfRequest DEF RequestInv, EmittedInv, CleanInv
<1>6. QED  BY <1>1, <1>2, <1>3, <1>5, OfRequest, LocalStep

\* A step of a selection: the selector moves, and the request that selects.
LEMMA RouteStep ==
  ASSUME IInv, NEW r \in Requests,
         NEW q \in Request, req' = [req EXCEPT ![r] = q], RequestInv(q, attempts[r]),
         UNCHANGED <<pool, accounts, out, attempts>>,
         selecting' \in Requests \cup {NoRequest},
         affinity' \in [Sessions -> Accounts \cup {NoAccount}],
         cursor' \in 0..Len(Pins),
         turn' \in [among : SUBSET Accounts, served : Seq(Accounts)],
         QueueInv', TurnInv',
         req[r].stage = "choosing" =>
           \A s \in Sessions \ {SessionOf[r]} : affinity'[s] = affinity[s]
  PROVE  Kept
<1> USE OfRequest
<1>1. TypeOK'
  BY DEF IInv, TypeOK, accounts
<1>2. GenInv'
  BY DEF IInv, GenInv, accounts
<1>3. ASSUME NEW p \in Requests  PROVE RequestInv(req'[p], attempts'[p])
  BY <1>3 DEF IInv
<1>4. IInv'
  BY <1>1, <1>2, <1>3 DEF IInv
<1>5. ASSUME NEW p \in Requests  PROVE ~(Len(attempts'[p]) > Number(p))
  BY <1>5, NoneBegun
<1>6. ASSUME NEW p \in Requests, req[p].stage = "choosing", req'[p].stage # "choosing"
      PROVE  p = r
  BY <1>6
<1>7. SelectionStep
  BY <1>5, <1>6 DEF SelectionStep
<1>8. QED  BY <1>4, <1>7 DEF Kept

LEMMA SelectStep ==
  ASSUME IInv, NEW r \in Requests, Select(r)
  PROVE  Kept
<1> DEFINE w == req[r]
           usable == {a \in Accounts : Eligible(a)}
           q1 == [w EXCEPT !.stage = "choosing"]
           q2 == [q1 EXCEPT !.view = usable]
           q == [q2 EXCEPT !.bindings = affinity]
<1>1. w \in Request /\ w.stage = "selecting" /\ selecting = NoRequest
  BY OfRequest DEF Select, At
<1>2. usable \in SUBSET Accounts /\ affinity \in [Sessions -> Accounts \cup {NoAccount}]
  BY DEF IInv, TypeOK
<1>3. /\ req' = [req EXCEPT ![r] = q] /\ selecting' = r
      /\ UNCHANGED <<pool, accounts, cursor, affinity, turn, out, attempts>>
  BY DEF Select
<1> HIDE DEF usable
<1>4. /\ q1 \in Request /\ q1.stage = "choosing" /\ q1.tried = w.tried
      /\ q1.emitted = w.emitted /\ q1.commitment = w.commitment
  BY <1>1 DEF Request, Stage
<1> HIDE DEF q1
<1>5. /\ q2 \in Request /\ q2.stage = "choosing" /\ q2.tried = w.tried
      /\ q2.emitted = w.emitted /\ q2.commitment = w.commitment
  BY <1>2, <1>4 DEF Request
<1> HIDE DEF q2
<1>6. /\ q \in Request /\ q.stage = "choosing" /\ q.tried = w.tried
      /\ q.emitted = w.emitted /\ q.commitment = w.commitment /\ q.bindings = affinity
  BY <1>2, <1>5 DEF Request
<1> HIDE DEF q
<1>7. StageInv(q, attempts[r])
  <2>1. BetweenInv(w, attempts[r])
    BY <1>1, OfRequest DEF StageInv, Between
  <2>2. BetweenInv(q, attempts[r])
    BY <1>6, <2>1 DEF BetweenInv, TriedInv
  <2>3. QED  BY <1>6, <2>2 DEF StageInv, Between, Attempting
<1>8. RequestInv(q, attempts[r])
  BY <1>1, <1>6, <1>7, OfRequest DEF RequestInv, EmittedInv, CleanInv, Between
<1>9. QueueInv'
  <2>1. ASSUME NEW p \in Requests, req'[p].stage = "choosing"  PROVE p = r
    BY <1>1, <1>3, <2>1, PoolAssumption, OfRequest DEF IInv, QueueInv
  <2>2. req'[r] = q /\ affinity' = affinity /\ selecting' = r
    BY <1>3, OfRequest
  <2>3. QED  BY <1>6, <2>1, <2>2 DEF QueueInv
<1>10. TurnInv'
  BY <1>3 DEF IInv, TurnInv, Back, Index
<1>11. QED  BY <1>1, <1>2, <1>3, <1>6, <1>8, <1>9, <1>10, RouteStep DEF IInv, TypeOK

\* The account chosen is a candidate: usable when the selection began, not tried.
LEMMA ChosenStep ==
  ASSUME IInv, NEW r \in Requests, NEW a \in Candidates(r), At(r, "choosing"), Chosen(r, a),
         cursor' \in 0..Len(Pins),
         turn' \in [among : SUBSET Accounts, served : Seq(Accounts)], TurnInv'
  PROVE  Kept
<1> DEFINE w == req[r]
           q1 == [w EXCEPT !.stage = "revalidating"]
           q2 == [q1 EXCEPT !.account = a]
           q3 == [q2 EXCEPT !.view = {}]
           q == [q3 EXCEPT !.bindings = NoBindings]
<1>1. /\ w \in Request /\ w.stage = "choosing" /\ selecting = r /\ w.bindings = affinity
      /\ affinity \in [Sessions -> Accounts \cup {NoAccount}]
  BY OfRequest DEF At, IInv, QueueInv, TypeOK
<1>2. a \in Accounts /\ \A i \in 1..Len(w.tried) : w.tried[i] # a
  BY <1>1, RequestValues DEF Candidates, Tried
<1>3. NoBindings \in [Sessions -> Accounts \cup {NoAccount}]
  BY DEF NoBindings
<1>4. /\ req' = [req EXCEPT ![r] = q] /\ selecting' = NoRequest /\ affinity' = Bind(r, a)
      /\ UNCHANGED <<pool, accounts, out, attempts>>
  BY DEF Chosen
<1>5. /\ q1 \in Request /\ q1.stage = "revalidating" /\ q1.tried = w.tried
      /\ q1.emitted = w.emitted /\ q1.commitment = w.commitment
  BY <1>1 DEF Request, Stage
<1> HIDE DEF q1
<1>6. /\ q2 \in Request /\ q2.stage = "revalidating" /\ q2.tried = w.tried /\ q2.account = a
      /\ q2.emitted = w.emitted /\ q2.commitment = w.commitment
  BY <1>2, <1>5 DEF Request
<1> HIDE DEF q2
<1>7. /\ q3 \in Request /\ q3.stage = "revalidating" /\ q3.tried = w.tried /\ q3.account = a
      /\ q3.emitted = w.emitted /\ q3.commitment = w.commitment
  BY <1>6 DEF Request
<1> HIDE DEF q3
<1>8. /\ q \in Request /\ q.stage = "revalidating" /\ q.tried = w.tried /\ q.account = a
      /\ q.emitted = w.emitted /\ q.commitment = w.commitment
  BY <1>3, <1>7 DEF Request
<1> HIDE DEF q
<1>9. StageInv(q, attempts[r])
  <2>1. BetweenInv(w, attempts[r])
    BY <1>1, OfRequest DEF StageInv, Between
  <2>2. BetweenInv(q, attempts[r])
    BY <1>2, <1>8, <2>1 DEF BetweenInv, TriedInv
  <2>3. QED  BY <1>8, <2>2 DEF StageInv, Between, Attempting
<1>10. RequestInv(q, attempts[r])
  BY <1>1, <1>8, <1>9, OfRequest DEF RequestInv, EmittedInv, CleanInv, Between
<1>11. QueueInv'
  BY <1>1, <1>4, <1>8, OfRequest DEF IInv, QueueInv
<1>12. /\ affinity' \in [Sessions -> Accounts \cup {NoAccount}]
       /\ \A s \in Sessions \ {SessionOf[r]} : affinity'[s] = affinity[s]
  BY <1>1, <1>2, <1>4 DEF Bind
<1>13. QED  BY <1>4, <1>8, <1>10, <1>11, <1>12, PoolAssumption, RouteStep

\* The cursor's arithmetic.
LEMMA CursorNext ==
  ASSUME NEW n \in Nat \ {0}, NEW c \in 0..(n - 1)
  PROVE  /\ c % n = c
         /\ (c + 1) % n = IF c + 1 = n THEN 0 ELSE c + 1
OBVIOUS

LEMMA CursorRange ==
  ASSUME NEW n \in Nat \ {0}, NEW c \in Nat
  PROVE  c % n \in 0..(n - 1)
OBVIOUS

\* A pick by turns keeps the accounts of the turn those the cursor passed.
LEMMA TurnStep ==
  ASSUME IInv, NEW S \in SUBSET Accounts, NEW a \in S,
         Index(a, S) = cursor % Cardinality(S),
         cursor' = NextCursor(S), turn' = Serve(S, a)
  PROVE  /\ cursor' \in 0..Len(Pins)
         /\ turn' \in [among : SUBSET Accounts, served : Seq(Accounts)]
         /\ TurnInv'
<1> DEFINE n == Cardinality(S)
           c == cursor % n
           before == IF turn.among = S THEN turn.served ELSE <<>>
           recent == IF Len(before) = n THEN Tail(before) ELSE before
           served == Append(recent, a)
<1>1. n \in Nat \ {0} /\ n <= Len(Pins) /\ Len(Pins) \in Nat /\ cursor \in Nat
  BY CandidatesFinite, AccountsFinite DEF IInv, TypeOK
<1>2. c \in 0..(n - 1)
  BY <1>1, CursorRange
<1>3. cursor' = IF c + 1 = n THEN 0 ELSE c + 1
  BY <1>1, <1>2, CursorNext DEF NextCursor
<1>4. turn' = [among |-> S, served |-> served]
  BY DEF Serve
<1>5. turn.served \in Seq(Accounts)
  BY DEF IInv, TypeOK
<1>6. before \in Seq(Accounts) /\ Len(before) \in Nat /\ Len(before) <= n
  BY <1>1, <1>5 DEF IInv, TurnInv
<1>7. ASSUME NEW k \in 1..Len(before)
      PROVE  Index(before[k], S) = Back(c, Len(before) - k + 1, n)
  <2>1. turn.among = S /\ before = turn.served /\ Len(before) > 0
    BY <1>6, <1>7
  <2>2. cursor < n /\ Index(before[k], S) = Back(cursor, Len(before) - k + 1, n)
    BY <1>7, <2>1 DEF IInv, TurnInv
  <2>3. c = cursor
    BY <1>1, <2>2, CursorNext
  <2>4. QED  BY <2>2, <2>3
<1> HIDE DEF n, c, before
<1>8. /\ recent \in Seq(Accounts) /\ Len(recent) \in Nat /\ Len(recent) < n
      /\ \A k \in 1..Len(recent) : Index(recent[k], S) = Back(c, Len(recent) - k + 1, n)
  <2>1. CASE Len(before) = n
    <3>1. /\ Tail(before) \in Seq(Accounts) /\ Len(Tail(before)) = Len(before) - 1
          /\ \A k \in 1..Len(Tail(before)) : Tail(before)[k] = before[k + 1]
      BY <1>1, <1>6, <2>1
    <3>2. ASSUME NEW k \in 1..Len(Tail(before))
          PROVE  Index(Tail(before)[k], S) = Back(c, Len(Tail(before)) - k + 1, n)
      <4>1. k + 1 \in 1..Len(before) /\ Len(before) - (k + 1) + 1 = Len(Tail(before)) - k + 1
        BY <1>6, <3>1
      <4>2. QED  BY <1>7, <3>1, <4>1
    <3>3. QED  BY <1>1, <1>6, <2>1, <3>1, <3>2
  <2>2. CASE Len(before) # n
    BY <1>1, <1>6, <1>7, <2>2
  <2>3. QED  BY <2>1, <2>2
<1> HIDE DEF recent
<1>9. /\ served \in Seq(Accounts) /\ Len(served) = Len(recent) + 1
      /\ \A k \in 1..Len(recent) : served[k] = recent[k]
      /\ served[Len(recent) + 1] = a
  BY <1>8
<1> HIDE DEF served
<1>10. ASSUME NEW k \in 1..Len(served)
       PROVE  Index(served[k], S) = Back(cursor', Len(served) - k + 1, n)
  <2>1. CASE k = Len(recent) + 1
    <3>1. Index(served[k], S) = c
      BY <1>9, <2>1 DEF c, n
    <3>2. Back(cursor', 1, n) = c
      BY <1>1, <1>2, <1>3 DEF Back
    <3>3. Len(served) - k + 1 = 1
      BY <1>8, <1>9, <2>1
    <3>4. QED  BY <3>1, <3>2, <3>3
  <2>2. CASE k \in 1..Len(recent)
    <3> DEFINE d == Len(recent) - k + 1
    <3>1. d \in 1..(n - 1) /\ Len(served) - k + 1 = d + 1
      BY <1>1, <1>8, <1>9, <2>2
    <3>2. Index(served[k], S) = Back(c, d, n)
      BY <1>8, <1>9, <2>2
    <3> HIDE DEF d
    <3>3. Back(cursor', d + 1, n) = Back(c, d, n)
      BY <1>1, <1>2, <1>3, <3>1 DEF Back
    <3>4. QED  BY <3>1, <3>2, <3>3
  <2>3. QED  BY <1>8, <1>9, <1>10, <2>1, <2>2
<1>11. TurnInv'
  <2>1. turn'.among = S /\ turn'.served = served
    BY <1>4
  <2>2. Len(served) <= n /\ cursor' < n
    BY <1>1, <1>2, <1>3, <1>8, <1>9
  <2>3. \A k \in 1..Len(served) : Index(served[k], S) = Back(cursor', Len(served) - k + 1, n)
    BY <1>10
  <2>4. QED  BY <2>1, <2>2, <2>3 DEF TurnInv, n, Back, Index
<1>12. cursor' \in 0..Len(Pins)
  BY <1>1, <1>2, <1>3
<1>13. QED  BY <1>4, <1>9, <1>11, <1>12

LEMMA ChooseStep ==
  ASSUME IInv, NEW r \in Requests, ChooseBound(r) \/ \E a \in Accounts : ChooseByStrategy(r, a)
  PROVE  Kept
<1>1. /\ cursor \in 0..Len(Pins) /\ TurnInv
      /\ turn \in [among : SUBSET Accounts, served : Seq(Accounts)]
  BY DEF IInv, TypeOK
<1>2. Candidates(r) \in SUBSET Accounts
  BY OfRequest, RequestValues DEF Candidates
<1>3. ASSUME UNCHANGED <<cursor, turn>>  PROVE TurnInv'
  BY <1>1, <1>3 DEF TurnInv, Back, Index
<1>4. CASE ChooseBound(r)
  BY <1>1, <1>3, <1>4, ChosenStep DEF ChooseBound, Sticks
<1>5. ASSUME NEW a \in Accounts, ChooseByStrategy(r, a)  PROVE Kept
  <2>1. At(r, "choosing") /\ Picks(r, a) /\ Chosen(r, a) /\ a \in Candidates(r)
    BY <1>5 DEF ChooseByStrategy, Picks
  <2>2. CASE pool.strategy = "round-robin"
    <3>1. cursor' = NextCursor(Candidates(r)) /\ turn' = Serve(Candidates(r), a)
      BY <1>5, <2>2 DEF ChooseByStrategy
    <3>2. Index(a, Candidates(r)) = cursor % Cardinality(Candidates(r))
      BY <2>1, <2>2 DEF Picks
    <3>3. QED  BY <1>2, <2>1, <3>1, <3>2, TurnStep, ChosenStep
  <2>3. CASE pool.strategy # "round-robin"
    <3>1. UNCHANGED <<cursor, turn>>
      BY <1>5, <2>3 DEF ChooseByStrategy
    <3>2. QED  BY <1>1, <1>3, <2>1, <3>1, ChosenStep
  <2>4. QED  BY <2>2, <2>3
<1>6. QED  BY <1>4, <1>5

LEMMA FindNoneStep ==
  ASSUME IInv, NEW r \in Requests, FindNone(r)
  PROVE  Kept
<1> DEFINE w == req[r]
           q == Ended("thrown")
<1>1. /\ w \in Request /\ w.stage = "choosing" /\ selecting = r /\ w.bindings = affinity
      /\ affinity \in [Sessions -> Accounts \cup {NoAccount}]
  BY OfRequest DEF FindNone, At, IInv, QueueInv, TypeOK
<1>2. q \in Request /\ q.stage = "thrown"
  BY FreshValues DEF Stage
<1>3. /\ req' = [req EXCEPT ![r] = q] /\ selecting' = NoRequest
      /\ affinity' = IF Bound(r) = NoAccount THEN affinity ELSE Bind(r, NoAccount)
      /\ UNCHANGED <<pool, accounts, cursor, turn, out, attempts>>
  BY DEF FindNone
<1> HIDE DEF q
<1>4. StageInv(q, attempts[r])
  BY <1>1, <1>2, OfRequest DEF StageInv, Between, Attempting, BetweenInv
<1>5. RequestInv(q, attempts[r])
  BY <1>1, <1>2, <1>4, OfRequest DEF RequestInv, EmittedInv, CleanInv, Between
<1>6. QueueInv'
  BY <1>1, <1>2, <1>3, OfRequest DEF IInv, QueueInv
<1>7. /\ affinity' \in [Sessions -> Accounts \cup {NoAccount}]
      /\ \A s \in Sessions \ {SessionOf[r]} : affinity'[s] = affinity[s]
  BY <1>1, <1>3 DEF Bind
<1>8. TurnInv'
  BY <1>3 DEF IInv, TurnInv, Back, Index
<1>9. QED  BY <1>2, <1>3, <1>5, <1>6, <1>7, <1>8, PoolAssumption, RouteStep DEF IInv, TypeOK

\* The accounts change, and the bindings lapse, beside the requests.
LEMMA OutsideStep ==
  ASSUME IInv, Outside
  PROVE  Kept
<1> DEFINE Account == [ready : BOOLEAN, gen : 1..(MaxChanges + 1), cooling : BOOLEAN]
<1>1. /\ acct \in [Accounts -> Account] /\ changes \in 0..MaxChanges /\ MaxChanges \in Nat
      /\ GenInv /\ affinity \in [Sessions -> Accounts \cup {NoAccount}]
  BY PoolAssumption DEF IInv, TypeOK
<1>2. ASSUME UNCHANGED <<pool, selector, req, out, attempts>>, acct' \in [Accounts -> Account],
             changes' \in 0..MaxChanges, GenInv'
      PROVE  Kept
  <2>1. IInv'
    BY <1>2 DEF IInv, TypeOK, QueueInv, TurnInv, Back, Index, selector
  <2>2. SelectionStep
    BY <1>2, OfRequest, NoneBegun DEF SelectionStep, selector
  <2>3. QED  BY <2>1, <2>2 DEF Kept
<1>3. ASSUME NEW a \in Accounts, PauseOrResume(a)  PROVE Kept
  <2>1. /\ changes' \in 0..MaxChanges /\ changes' = changes + 1
        /\ UNCHANGED <<pool, selector, req, out, attempts>>
    BY <1>1, <1>3 DEF PauseOrResume, Change
  <2>2. acct' \in [Accounts -> Account] /\ \A b \in Accounts : acct'[b].gen = acct[b].gen
    BY <1>1, <1>3 DEF PauseOrResume, Change
  <2>3. GenInv'
    BY <1>1, <2>1, <2>2 DEF GenInv
  <2>4. QED  BY <1>2, <2>1, <2>2, <2>3
<1>4. ASSUME NEW a \in Accounts, Refresh(a)  PROVE Kept
  <2>1. /\ changes' \in 0..MaxChanges /\ changes' = changes + 1
        /\ UNCHANGED <<pool, selector, req, out, attempts>>
    BY <1>1, <1>4 DEF Refresh, Change
  <2>2. /\ acct[a].gen + 1 \in 1..(MaxChanges + 1) /\ acct[a].gen + 1 <= changes' + 1
    BY <1>1, <2>1 DEF GenInv
  <2>3. /\ acct' \in [Accounts -> Account]
        /\ \A b \in Accounts : acct'[b].gen = IF b = a THEN acct[a].gen + 1 ELSE acct[b].gen
    BY <1>1, <1>4, <2>2 DEF Refresh, Change
  <2>4. GenInv'
    BY <1>1, <2>1, <2>2, <2>3 DEF GenInv
  <2>5. QED  BY <1>2, <2>1, <2>3, <2>4
<1>5. ASSUME NEW a \in Accounts, CooldownEnds(a)  PROVE Kept
  <2>1. changes' = changes /\ UNCHANGED <<pool, selector, req, out, attempts>>
    BY <1>5 DEF CooldownEnds
  <2>2. acct' \in [Accounts -> Account] /\ \A b \in Accounts : acct'[b].gen = acct[b].gen
    BY <1>1, <1>5 DEF CooldownEnds
  <2>3. GenInv'
    BY <1>1, <2>1, <2>2 DEF GenInv
  <2>4. QED  BY <1>1, <1>2, <2>1, <2>2, <2>3
<1>6. ASSUME NEW s \in Sessions, BindingExpires(s)  PROVE Kept
  <2>1. /\ affinity' \in [Sessions -> Accounts \cup {NoAccount}] /\ selecting = NoRequest
        /\ UNCHANGED <<pool, accounts, cursor, selecting, turn, req, out, attempts>>
    BY <1>1, <1>6 DEF BindingExpires
  <2>2. \A p \in Requests : req[p].stage # "choosing"
    BY <2>1, PoolAssumption DEF IInv, QueueInv
  <2>3. IInv'
    BY <2>1, <2>2 DEF IInv, TypeOK, GenInv, QueueInv, TurnInv, Back, Index, accounts
  <2>4. SelectionStep
    BY <2>1, <2>2, OfRequest, NoneBegun DEF SelectionStep
  <2>5. QED  BY <2>3, <2>4 DEF Kept
<1>7. QED  BY <1>3, <1>4, <1>5, <1>6 DEF Outside

-----------------------------------------------------------------------------
(* Invariance. *)

\* The initial states, and every step.
LEMMA InitInv ==
  ASSUME Init
  PROVE  IInv
<1>1. Accounts \cup {NoAccount} # {} /\ NoBindings \in [Sessions -> Accounts \cup {NoAccount}]
  BY DEF NoBindings
<1>2. TypeOK
  <2>1. /\ req \in [Requests -> Request] /\ out \in [Requests -> Seq(Event)]
        /\ attempts \in [Requests -> Seq(Attempt)]
    BY FreshValues DEF Init
  <2>2. affinity \in [Sessions -> Accounts \cup {NoAccount}]
    BY <1>1 DEF Init
  <2>3. acct \in [Accounts -> [ready : BOOLEAN, gen : 1..(MaxChanges + 1), cooling : BOOLEAN]]
    BY PoolAssumption DEF Init
  <2>4. pool \in Pools /\ changes \in 0..MaxChanges /\ cursor \in 0..Len(Pins)
    BY PoolAssumption, AccountsFinite DEF Init
  <2>5. turn \in [among : SUBSET Accounts, served : Seq(Accounts)]
    BY DEF Init
  <2>6. QED  BY <2>1, <2>2, <2>3, <2>4, <2>5 DEF Init, TypeOK
<1>3. GenInv
  BY DEF Init, GenInv
<1>4. QueueInv
  BY DEF Init, QueueInv, Fresh
<1>5. TurnInv
  BY FS_EmptySet DEF Init, TurnInv
<1>6. ASSUME NEW r \in Requests  PROVE RequestInv(req[r], attempts[r])
  <2>1. req[r] = Fresh /\ attempts[r] = <<>>
    BY <1>6 DEF Init
  <2>2. Fresh.stage = "new" /\ Fresh.tried = <<>> /\ Fresh.emitted = 0 /\ Fresh.commitment = "not-sent"
    BY DEF Fresh
  <2>3. AttemptsInv(<<>>) /\ EmittedInv(Fresh) /\ CleanInv(Fresh, <<>>)
    BY <2>2, PoolAssumption DEF AttemptsInv, EmittedInv, CleanInv
  <2>4. StageInv(Fresh, <<>>)
    BY <2>2, PoolAssumption DEF StageInv, Between, Attempting, BetweenInv, TriedInv
  <2>5. QED  BY <2>1, <2>3, <2>4 DEF RequestInv
<1>7. QED  BY <1>2, <1>3, <1>4, <1>5, <1>6 DEF IInv

LEMMA NextInv ==
  ASSUME IInv, [Next]_vars
  PROVE  Kept
<1>1. CASE Outside
  BY <1>1, OutsideStep
<1>2. ASSUME NEW r \in Requests, Prepare(r) \/ Gateway(r) \/ Provider(r) \/ Take(r) \/ Disconnect(r)
      PROVE  Kept
  <2>1. CASE Route(r)
    BY <2>1, SelectStep, ChooseStep, FindNoneStep, RevalidateStep DEF Route
  <2>2. "fatal" \in Failure
    BY DEF Failure
  <2>3. CASE Gateway(r)
    BY <2>1, <2>2, <2>3, BindCredentialStep, BrokenStep, StreamEndsStep, UnsentStep DEF Gateway
  <2>4. CASE Provider(r)
    <3>1. CASE \E o \in Failure : Rejected(r, o) \/ Unclear(r, o)
      BY <3>1, UnsentStep
    <3>2. CASE \E o \in Failure : ResponseFailed(r, o)
      BY <3>2, EventStep
    <3>3. CASE \E o \in Failure : StreamThrows(r, o)
      BY <3>3, BrokenStep
    <3>4. CASE ConnectionFails(r)
      BY <2>2, <3>4, UnsentStep
    <3>5. CASE ResponseStarted(r) \/ Output(r) \/ ResponseCompleted(r)
      BY <2>2, <3>5, EventStep
    <3>6. CASE Accepted(r)
      BY <3>6, AcceptedStep
    <3>7. CASE Truncated(r)
      BY <2>2, <3>7, BrokenStep
    <3>8. QED  BY <2>4, <3>1, <3>2, <3>3, <3>4, <3>5, <3>6, <3>7 DEF Provider
  <2>5. QED  BY <1>2, <2>3, <2>4, PrepareStep, TakeStep, DisconnectStep
<1>3. CASE UNCHANGED vars
  <2>1. IInv'
    BY <1>3 DEF vars, accounts, selector, IInv, TypeOK, GenInv, QueueInv, TurnInv, Back, Index
  <2>2. SelectionStep
    BY <1>3, OfRequest, NoneBegun DEF SelectionStep, vars, selector
  <2>3. QED  BY <2>1, <2>2 DEF Kept
<1>4. QED  BY <1>1, <1>2, <1>3 DEF Next

\* The invariant of the pool holds of every reachable state.
THEOREM Invariance == Spec => []IInv
<1>1. Init => IInv
  BY InitInv
<1>2. IInv /\ [Next]_vars => IInv'
  BY NextInv DEF Kept
<1>3. QED  BY <1>1, <1>2, PTL DEF Spec

-----------------------------------------------------------------------------
(* What follows. *)

\* Every variable keeps its type.
THEOREM TypeCorrect == Spec => []TypeOK
<1>1. IInv => TypeOK
  BY DEF IInv
<1>2. QED  BY <1>1, Invariance, PTL

\* Round-robin serves each candidate once before it serves one again, however
\* many requests pick, and wherever the cursor stood when the candidates changed.
THEOREM ServedInTurn == Spec => []RoundRobinFair
<1>1. IInv => RoundRobinFair
  <2>1. SUFFICES ASSUME IInv, NEW i \in DOMAIN turn.served, NEW j \in DOMAIN turn.served,
                        turn.served[i] = turn.served[j]
                 PROVE  i = j
    BY DEF RoundRobinFair
  <2> DEFINE n == Cardinality(turn.among)
             m == Len(turn.served)
  <2>2. turn.served \in Seq(Accounts) /\ turn.among \in SUBSET Accounts /\ cursor \in Nat
    <3>1. cursor \in 0..Len(Pins) /\ turn \in [among : SUBSET Accounts, served : Seq(Accounts)]
      BY <2>1 DEF IInv, TypeOK
    <3>2. QED  BY <3>1, AccountsFinite
  <2>3. n \in Nat /\ m \in Nat /\ i \in 1..m /\ j \in 1..m
    BY <2>1, <2>2, CandidatesFinite
  <2>4. /\ m <= n /\ cursor < n
        /\ Back(cursor, m - i + 1, n) = Back(cursor, m - j + 1, n)
    BY <2>1, <2>3 DEF IInv, TurnInv
  <2> HIDE DEF n, m
  <2>5. QED  BY <2>2, <2>3, <2>4, SMTT(20) DEF Back
<1>2. QED  BY <1>1, Invariance, PTL

\* What the invariant says of the attempts of every request.
LEMMA AttemptsOf ==
  ASSUME IInv
  PROVE  AttemptsBounded /\ OneOutcomePerAttempt /\ NoReplayAfterAcceptance
<1>1. AttemptsBounded
  BY OfRequest DEF AttemptsBounded, AttemptsInv
<1>2. OneOutcomePerAttempt
  <2>1. SUFFICES ASSUME NEW r \in Requests, NEW i \in 1..Number(r)
                 PROVE  LET outcomes == attempts[r][i].outcomes IN
                        /\ Len(outcomes) <= 1
                        /\ i < Number(r) => outcomes # <<>> /\ outcomes[1] = "retryable"
                        /\ outcomes = <<"success">> =>
                             i = Number(r) /\ req[r].stage \in {"returned", "discarded"}
                        /\ i = Number(r) /\ req[r].stage = "returned" => outcomes = <<"success">>
    BY DEF OneOutcomePerAttempt
  <2> DEFINE o == attempts[r][i].outcomes
             Kinds == {<<>>, <<"retryable">>, <<"fatal">>, <<"success">>}
  <2>2. /\ req[r].stage \in Stage /\ Number(r) = Len(attempts[r]) /\ Number(r) \in Nat
        /\ AttemptsInv(attempts[r]) /\ StageInv(req[r], attempts[r])
    BY <2>1, OfRequest, RequestValues
  <2>3. CASE i < Number(r)
    <3>1. o = <<"retryable">>
      BY <2>1, <2>2, <2>3 DEF AttemptsInv
    <3>2. <<"retryable">> # <<"success">>
      OBVIOUS
    <3>3. QED  BY <2>2, <2>3, <3>1, <3>2
  <2>4. CASE i = Number(r)
    <3>1. o = Last(attempts[r]).outcomes /\ Len(attempts[r]) > 0
      BY <2>1, <2>2, <2>4 DEF Last
    <3>2. \/ o \in {<<>>, <<"retryable">>, <<"fatal">>}
          \/ o = <<"success">> /\ req[r].stage \in {"returned", "discarded"}
      BY <2>2, <3>1 DEF StageInv, Stage, Between, Attempting, BetweenInv, AttemptingInv
    <3>3. req[r].stage = "returned" => o = <<"success">>
      BY <2>2, <3>1 DEF StageInv
    <3>4. <<"success">> \notin {<<>>, <<"retryable">>, <<"fatal">>}
      OBVIOUS
    <3>5. Len(<<>>) <= 1 /\ \A x : Len(<<x>>) <= 1
      OBVIOUS
    <3>6. Len(o) <= 1
      BY <3>2, <3>5, Zenon
    <3>7. ~(i < Number(r)) /\ (o = <<"success">> => req[r].stage \in {"returned", "discarded"})
      <4>1. ~(i < Number(r))
        BY <2>2, <2>4
      <4>2. o = <<"success">> => req[r].stage \in {"returned", "discarded"}
        BY <3>2, <3>4, Zenon
      <4>3. QED  BY <4>1, <4>2
    <3> HIDE DEF o
    <3>8. QED  BY <2>4, <3>3, <3>6, <3>7 DEF o
  <2>5. QED  BY <2>1, <2>2, <2>3, <2>4
<1>3. NoReplayAfterAcceptance
  BY OfRequest DEF NoReplayAfterAcceptance, CleanInv
<1>4. QED  BY <1>1, <1>2, <1>3

\* Attempts are bounded by the budget, on accounts of their own, and accounted
\* for once, whatever the provider did; and none is made after one the provider
\* may have taken, but for a connection lost before the answer.
THEOREM NoReplay == Spec => []AttemptsSound
<1>1. IInv => AttemptsSound
  BY AttemptsOf DEF AttemptsSound
<1>2. QED  BY <1>1, Invariance, PTL

\* An attempt begins on an account that is eligible at that moment, and no
\* selection undoes a binding of another session.
THEOREM SelectionCurrent == Spec => SelectionIsCurrent
<1>1. IInv /\ [Next]_vars =>
        [\A r \in Requests :
           Len(attempts'[r]) > Number(r) => Eligible(attempts'[r][Number(r) + 1].account)]_vars
  BY NextInv DEF Kept, SelectionStep
<1>2. IInv /\ [Next]_vars =>
        [\A r \in Requests :
           req[r].stage = "choosing" /\ req'[r].stage # "choosing" =>
             \A s \in Sessions \ {SessionOf[r]} : affinity'[s] = affinity[s]]_vars
  BY NextInv DEF Kept, SelectionStep
<1>3. Spec => InvokesEligible
  BY <1>1, Invariance, PTL DEF Spec, InvokesEligible
<1>4. Spec => BindingsKept
  BY <1>2, Invariance, PTL DEF Spec, BindingsKept
<1>5. QED  BY <1>3, <1>4 DEF SelectionIsCurrent

-----------------------------------------------------------------------------
(* The streams: the inductive invariant. *)

Ends == {"returned", "thrown", "discarded"}
Kinds == {"started", "output", "completed", "failed"}

\* How many of the events in front of those yielded the pump has done with: the
\* one it writes is still the first of them.
Done(p, s) == IF p.stage = "writing" THEN Len(s) - 1 ELSE Len(s)

\* The events es are those of the n-th attempt that follow its first k.
Numbered(es, k, n) == \A i \in 1..Len(es) : es[i].n = k + i /\ es[i].attempt = n

\* Taken, yielded and held back, the events of a request are those of one
\* attempt, each of them once and in order.
FlowInv(q, o, p, s, n) ==
  /\ Numbered(s, 0, n)
  /\ Numbered(o, Done(p, s), n)
  /\ Numbered(q.buffered, Done(p, s) + Len(o), n)
  /\ q.stage \notin Ends => q.emitted = Done(p, s) + Len(o) + Len(q.buffered)

\* Nothing is yielded before output starts, and nothing held back afterwards.
HeldInv(q, o, s) ==
  /\ q.stage \notin Ends /\ ~q.outputStarted => o = <<>> /\ s = <<>>
  /\ q.outputStarted \/ q.stage \in Ends => q.buffered = <<>>
  /\ q.stage \in Between \cup {"binding", "sent"} => ~q.outputStarted /\ ~q.terminal

\* The last event there is.
LastEvent(q, o, s) ==
  IF q.buffered # <<>> THEN q.buffered[Len(q.buffered)]
  ELSE IF o # <<>> THEN o[Len(o)] ELSE s[Len(s)]

\* An attempt that reached its end has a last event which says so.
CompletedInv(q, o, s) ==
  q.terminal \/ q.stage = "returned" =>
    /\ q.buffered # <<>> \/ o # <<>> \/ s # <<>>
    /\ LastEvent(q, o, s).kind = "completed"

\* A pump that is not done framed exactly the events it took.
FramesInv(p, s) ==
  /\ p.terminal \in {"none", "cancelled", "timeout"}
  /\ ~p.stored
  /\ Len(p.frames) = Len(s)
  /\ \A i \in 1..Len(s) : p.frames[i] = s[i].kind

LastOf(fs) == fs[Len(fs)]

\* What the client of a closed stream was told.
ToldInv(q, p, s) ==
  /\ p.terminal # "none" /\ p.timer = "none"
  /\ q.signal # "open"
  /\ p.terminal = "completed" \/ p.stored =>
       /\ q.stage = "returned"
       /\ Len(p.frames) = Len(s) /\ Len(s) > 0
       /\ LastOf(p.frames) = "completed"
  /\ \A i \in 1..(Len(p.frames) - 1) : p.frames[i] \notin {"error", "timeout"}
  /\ p.terminal \in {"completed", "error"} =>
       Len(p.frames) > 0 /\ LastOf(p.frames) \in {"completed", "error"}

\* A pump and the request it serves.
PumpInv(q, o, p, s) ==
  /\ p.stage = "none" <=> q.stage = "new"
  /\ p.stage # "closed" => FramesInv(p, s)
  /\ p.stage = "writing" => o # <<>> /\ s # <<>> /\ s[Len(s)] = o[1]
  /\ p.stage = "persisting" => q.stage = "returned" /\ o = <<>>
  /\ p.stage = "closed" => q.stage \in Ends /\ o = <<>> /\ ToldInv(q, p, s)

StreamInv(q, o, p, s, n) ==
  /\ FlowInv(q, o, p, s, n)
  /\ HeldInv(q, o, s)
  /\ CompletedInv(q, o, s)
  /\ PumpInv(q, o, p, s)

SInv ==
  /\ IInv
  /\ pump \in [Requests -> Pump]
  /\ seen \in [Requests -> Seq(Event)]
  /\ \A r \in Requests : StreamInv(req[r], out[r], pump[r], seen[r], Number(r))

-----------------------------------------------------------------------------
(* Steps of one stream. *)

\* What the invariant says of one stream.
LEMMA OfStream ==
  ASSUME SInv, NEW r \in Requests
  PROVE  /\ IInv
         /\ req \in [Requests -> Request] /\ req[r] \in Request
         /\ out \in [Requests -> Seq(Event)] /\ out[r] \in Seq(Event)
         /\ pump \in [Requests -> Pump] /\ pump[r] \in Pump
         /\ seen \in [Requests -> Seq(Event)] /\ seen[r] \in Seq(Event)
         /\ attempts \in [Requests -> Seq(Attempt)] /\ attempts[r] \in Seq(Attempt)
         /\ Number(r) = Len(attempts[r])
         /\ FlowInv(req[r], out[r], pump[r], seen[r], Number(r))
         /\ HeldInv(req[r], out[r], seen[r])
         /\ CompletedInv(req[r], out[r], seen[r])
         /\ PumpInv(req[r], out[r], pump[r], seen[r])
BY OfRequest DEF SInv, StreamInv

\* A step of one stream keeps the invariant if it keeps that of the stream.
LEMMA StreamStep ==
  ASSUME SInv, IInv', NEW r \in Requests,
         NEW q \in Request, NEW o \in Seq(Event), NEW p \in Pump, NEW s \in Seq(Event),
         NEW as,
         req' = [req EXCEPT ![r] = q], out' = [out EXCEPT ![r] = o],
         pump' = [pump EXCEPT ![r] = p], seen' = [seen EXCEPT ![r] = s],
         attempts' = [attempts EXCEPT ![r] = as],
         StreamInv(q, o, p, s, Len(as))
  PROVE  SInv'
<1>1. /\ req \in [Requests -> Request] /\ out \in [Requests -> Seq(Event)]
      /\ pump \in [Requests -> Pump] /\ seen \in [Requests -> Seq(Event)]
      /\ attempts \in [Requests -> Seq(Attempt)]
  BY OfStream
<1>2. pump' \in [Requests -> Pump] /\ seen' \in [Requests -> Seq(Event)]
  BY <1>1
<1>3. ASSUME NEW x \in Requests
      PROVE  StreamInv(req'[x], out'[x], pump'[x], seen'[x], Len(attempts'[x]))
  <2>1. CASE x = r
    BY <1>1, <2>1
  <2>2. CASE x # r
    <3>1. /\ req'[x] = req[x] /\ out'[x] = out[x] /\ pump'[x] = pump[x] /\ seen'[x] = seen[x]
          /\ attempts'[x] = attempts[x]
      BY <1>1, <1>3, <2>2
    <3>2. StreamInv(req[x], out[x], pump[x], seen[x], Len(attempts[x]))
      BY <1>3 DEF SInv, Number
    <3>3. QED  BY <3>1, <3>2
  <2>3. QED  BY <2>1, <2>2
<1>4. QED  BY <1>2, <1>3 DEF SInv, Number

\* While a generator is between its first and its last step, with nothing
\* yielded, its pump waits for it.
LEMMA PumpWaits ==
  ASSUME SInv, NEW r \in Requests, out[r] = <<>>, req[r].stage \notin Ends \cup {"new"}
  PROVE  /\ pump[r].stage = "waiting" /\ Done(pump[r], seen[r]) = Len(seen[r])
         /\ Len(out[r]) = 0 /\ Len(seen[r]) \in Nat
         /\ FramesInv(pump[r], seen[r])
         /\ Numbered(seen[r], 0, Number(r))
         /\ Numbered(req[r].buffered, Len(seen[r]), Number(r))
         /\ req[r].emitted = Len(seen[r]) + Len(req[r].buffered)
<1> DEFINE q == req[r]
           p == pump[r]
           s == seen[r]
<1>1. /\ q \in Request /\ p \in Pump /\ s \in Seq(Event)
      /\ PumpInv(q, out[r], p, s) /\ FlowInv(q, out[r], p, s, Number(r))
  BY OfStream
<1>2. p.stage \in {"none", "waiting", "writing", "persisting", "closed"}
  BY <1>1 DEF Pump
<1>3. p.stage = "waiting"
  BY <1>1, <1>2 DEF PumpInv, Ends
<1>4. Len(out[r]) = 0 /\ Len(s) \in Nat /\ Len(q.buffered) \in Nat /\ Done(p, s) = Len(s)
  BY <1>1, <1>3, RequestValues DEF Done
<1> HIDE DEF q, p, s
<1>5. FramesInv(p, s)
  BY <1>1, <1>3 DEF PumpInv
<1>6. /\ Numbered(s, 0, Number(r)) /\ Numbered(q.buffered, Len(s), Number(r))
      /\ q.emitted = Len(s) + Len(q.buffered)
  <2>1. Done(p, s) + Len(out[r]) = Len(s)
    BY <1>4
  <2>2. q.stage \notin Ends
    BY DEF q
  <2>3. QED  BY <1>1, <1>4, <2>1, <2>2 DEF FlowInv
<1>7. QED  BY <1>3, <1>4, <1>5, <1>6 DEF q, p, s

\* A step before the first event of an attempt.
LEMMA EarlyStep ==
  ASSUME SInv, IInv', NEW r \in Requests, out[r] = <<>>,
         req[r].stage \in (Between \ {"new"}) \cup {"binding", "sent"},
         NEW q \in Request, NEW as, req' = [req EXCEPT ![r] = q],
         q.stage \in (Between \ {"new"}) \cup Attempting,
         q.buffered = req[r].buffered, q.emitted = req[r].emitted,
         q.outputStarted = req[r].outputStarted, q.terminal = req[r].terminal,
         attempts' = [attempts EXCEPT ![r] = as], out' = out, UNCHANGED stream
  PROVE  SInv'
<1> DEFINE old == req[r]
           p == pump[r]
           s == seen[r]
<1>1. old.stage \notin Ends \cup {"new"} /\ q.stage \notin Ends \cup {"new"}
  BY DEF Between, Attempting, Ends
<1>2. /\ HeldInv(old, <<>>, s) /\ p \in Pump /\ s \in Seq(Event) /\ PumpInv(old, <<>>, p, s)
      /\ old \in Request /\ CompletedInv(old, <<>>, s)
  BY OfStream
<1>3. p.stage = "waiting" /\ FramesInv(p, s) /\ old.emitted = Len(s) + Len(old.buffered)
  BY <1>1, PumpWaits
<1>4. ~old.outputStarted /\ ~old.terminal /\ s = <<>>
  BY <1>1, <1>2 DEF HeldInv
<1> HIDE DEF old, p, s
<1>5. old.buffered = <<>>
  <2>1. old.emitted = 0 /\ old.buffered \in Seq(Event)
    <3>1. EmittedInv(old) /\ old \in Request
      BY OfStream, OfRequest DEF old
    <3>2. QED  BY <3>1, RequestValues DEF EmittedInv, old
  <2>2. Len(s) = 0 /\ Len(old.buffered) \in Nat
    BY <1>4, <2>1
  <2>3. Len(old.buffered) = 0
    BY <1>3, <2>1, <2>2
  <2>4. QED  BY <2>1, <2>3
<1>6. /\ q.buffered = <<>> /\ ~q.outputStarted /\ ~q.terminal /\ q.emitted = 0
  BY <1>3, <1>4, <1>5 DEF old
<1>7. FlowInv(q, <<>>, p, s, Len(as))
  BY <1>3, <1>4, <1>6 DEF FlowInv, Numbered, Done
<1>8. HeldInv(q, <<>>, s) /\ CompletedInv(q, <<>>, s)
  BY <1>1, <1>4, <1>6 DEF HeldInv, CompletedInv, Ends
<1>9. PumpInv(q, <<>>, p, s)
  BY <1>1, <1>3 DEF PumpInv
<1>10. /\ out' = [out EXCEPT ![r] = <<>>] /\ pump' = [pump EXCEPT ![r] = p]
       /\ seen' = [seen EXCEPT ![r] = s] /\ <<>> \in Seq(Event)
  BY OfStream DEF stream, p, s
<1>11. QED  BY <1>2, <1>7, <1>8, <1>9, <1>10, StreamStep DEF StreamInv

\* The end of a request, which yields what was held back or drops it.
LEMMA EndStep ==
  ASSUME SInv, IInv', NEW r \in Requests, out[r] = <<>>,
         req[r].stage \notin Ends \cup {"new"},
         NEW stage \in {"returned", "thrown"}, req' = [req EXCEPT ![r] = Ended(stage)],
         NEW o, o = <<>> \/ o = req[r].buffered, out' = [out EXCEPT ![r] = o],
         stage = "returned" => o = req[r].buffered /\ req[r].terminal,
         NEW as, attempts' = [attempts EXCEPT ![r] = as], Len(as) = Number(r),
         UNCHANGED stream
  PROVE  SInv'
<1> DEFINE old == req[r]
           q == Ended(stage)
           p == pump[r]
           s == seen[r]
           n == Number(r)
<1>1. /\ old \in Request /\ p \in Pump /\ s \in Seq(Event) /\ old.buffered \in Seq(Event)
      /\ HeldInv(old, <<>>, s) /\ CompletedInv(old, <<>>, s)
      /\ PumpInv(old, <<>>, p, s)
  BY OfStream, RequestValues
<1>2. /\ p.stage = "waiting" /\ FramesInv(p, s) /\ Done(p, s) = Len(s) /\ Len(s) \in Nat
      /\ Numbered(s, 0, n) /\ Numbered(old.buffered, Len(s), n)
  BY PumpWaits
<1>3. /\ q \in Request /\ q.stage = stage /\ q.buffered = <<>> /\ q.terminal = FALSE
      /\ q.outputStarted = FALSE
  BY FreshValues DEF Ended, Fresh, Stage
<1> HIDE DEF q, p, s, n, old
<1>4. o \in Seq(Event) /\ Numbered(o, Len(s), n)
  <2>1. <<>> \in Seq(Event) /\ Numbered(<<>>, Len(s), n)
    BY DEF Numbered
  <2>2. o = <<>> \/ o = old.buffered
    BY DEF old
  <2>3. QED  BY <1>1, <1>2, <2>1, <2>2, Zenon
<1>5. FlowInv(q, o, p, s, n)
  <2>1. q.stage \in Ends
    BY <1>3 DEF Ends
  <2>2. Numbered(q.buffered, Done(p, s) + Len(o), n)
    BY <1>3 DEF Numbered
  <2>3. QED  BY <1>2, <1>4, <2>1, <2>2 DEF FlowInv
<1>6. HeldInv(q, o, s)
  BY <1>3 DEF HeldInv, Ends, Between
<1>7. CompletedInv(q, o, s)
  <2>1. CASE stage = "thrown"
    BY <1>3, <2>1 DEF CompletedInv
  <2>2. CASE stage = "returned"
    <3>1. o = old.buffered /\ old.terminal
      BY <2>2 DEF old
    <3>2. QED  BY <1>1, <1>3, <3>1 DEF CompletedInv, LastEvent
  <2>3. QED  BY <2>1, <2>2
<1>8. PumpInv(q, o, p, s)
  BY <1>2, <1>3 DEF PumpInv
<1>9. pump' = [pump EXCEPT ![r] = p] /\ seen' = [seen EXCEPT ![r] = s]
  BY OfStream DEF stream, p, s
<1>10. req' = [req EXCEPT ![r] = q] /\ n = Len(as)
  BY DEF q, n
<1>11. QED  BY <1>1, <1>3, <1>4, <1>5, <1>6, <1>7, <1>8, <1>9, <1>10, StreamStep DEF StreamInv

\* A failed attempt ends the request or, with nothing yielded, gives way to the
\* next one.
LEMMA FailedStep ==
  ASSUME SInv, IInv', NEW r \in Requests, out[r] = <<>>, req[r].stage \in Attempting,
         NEW outcome \in Failure, NEW commitment, NEW took \in Taken,
         Fail(r, outcome, commitment, took), UNCHANGED stream
  PROVE  SInv'
<1> DEFINE old == req[r]
           as == Replaced(attempts[r], Number(r), Settled(Current(r), outcome, took))
           p == pump[r]
           s == seen[r]
<1>1. req[r].stage \notin Ends \cup {"new"}
  BY DEF Attempting, Ends
<1>2. attempts' = [attempts EXCEPT ![r] = as] /\ Len(as) = Number(r)
  <2>1. Record(r, outcome, took) /\ outcome \in Outcome /\ IInv
    BY OfStream DEF Fail, Outcome
  <2>2. QED  BY <2>1, RecordValues
<1> HIDE DEF as
<1>3. CASE ~CanRotate(r, outcome, commitment)
  <2>1. /\ req' = [req EXCEPT ![r] = Ended("thrown")]
        /\ out' = [out EXCEPT ![r] = req[r].buffered]
    BY <1>3 DEF Fail, FlushAnd
  <2>2. QED  BY <1>1, <1>2, <2>1, EndStep
<1>4. CASE CanRotate(r, outcome, commitment)
  <2> DEFINE q == NextAttempt(old)
  <2>1. req' = [req EXCEPT ![r] = q] /\ out' = out /\ ~old.outputStarted
    BY <1>4 DEF Fail, Rotate, CanRotate
  <2>2. /\ HeldInv(old, <<>>, s) /\ p \in Pump /\ s \in Seq(Event)
        /\ req \in [Requests -> Request]
    BY OfStream
  <2>3. p.stage = "waiting" /\ FramesInv(p, s)
    BY <1>1, PumpWaits
  <2>4. s = <<>>
    BY <1>1, <2>1, <2>2 DEF HeldInv
  <2>5. /\ q.stage = "selecting" /\ q.emitted = 0 /\ q.buffered = <<>>
        /\ q.outputStarted = FALSE /\ q.terminal = FALSE
    BY DEF NextAttempt, Fresh
  <2>6. q \in Request
    <3>1. req' \in [Requests -> Request]
      BY DEF IInv, TypeOK
    <3>2. req'[r] = q
      BY <2>1, <2>2
    <3>3. QED  BY <3>1, <3>2
  <2> HIDE DEF q, p, s
  <2>7. FlowInv(q, <<>>, p, s, Len(as))
    BY <2>3, <2>4, <2>5 DEF FlowInv, Numbered, Done
  <2>8. HeldInv(q, <<>>, s) /\ CompletedInv(q, <<>>, s) /\ PumpInv(q, <<>>, p, s)
    BY <2>3, <2>4, <2>5 DEF HeldInv, CompletedInv, PumpInv, Ends
  <2>9. /\ out' = [out EXCEPT ![r] = <<>>] /\ pump' = [pump EXCEPT ![r] = p]
        /\ seen' = [seen EXCEPT ![r] = s] /\ <<>> \in Seq(Event)
    BY <2>1, OfStream DEF stream, p, s
  <2>10. QED  BY <1>2, <2>1, <2>2, <2>6, <2>7, <2>8, <2>9, StreamStep DEF StreamInv
<1>5. QED  BY <1>3, <1>4

\* Events followed by the next one.
LEMMA OneMore ==
  ASSUME NEW es \in Seq(Event), NEW e, NEW k \in Nat, NEW n, Numbered(es, k, n),
         e.n = k + Len(es) + 1, e.attempt = n
  PROVE  /\ Numbered(Append(es, e), k, n)
         /\ Len(Append(es, e)) = Len(es) + 1 /\ Append(es, e) # <<>>
         /\ Append(es, e)[Len(es) + 1] = e
<1> DEFINE E == Event \cup {e}
           new == Append(es, e)
<1>1. es \in Seq(E) /\ e \in E /\ Len(es) \in Nat
  OBVIOUS
<1> HIDE DEF E
<1>2. /\ new \in Seq(E) /\ Len(new) = Len(es) + 1 /\ new[Len(es) + 1] = e
      /\ \A i \in 1..Len(es) : new[i] = es[i]
  BY <1>1, AppendProperties
<1>3. new # <<>>
  BY <1>1, <1>2
<1> HIDE DEF new
<1>4. ASSUME NEW i \in 1..Len(new)  PROVE new[i].n = k + i /\ new[i].attempt = n
  <2>1. i \in 1..Len(es) \/ i = Len(es) + 1
    BY <1>1, <1>2, <1>4
  <2>2. CASE i \in 1..Len(es)
    BY <1>2, <2>2 DEF Numbered
  <2>3. CASE i = Len(es) + 1
    BY <1>1, <1>2, <2>3
  <2>4. QED  BY <2>1, <2>2, <2>3
<1>5. QED  BY <1>2, <1>3, <1>4 DEF Numbered, new

\* An event of the provider is held back or yielded.
LEMMA DeliveredStep ==
  ASSUME SInv, IInv', NEW r \in Requests, out[r] = <<>>,
         req[r].stage \in {"sent", "streaming"},
         NEW kind, NEW state \in Request, Deliver(r, kind, state), UNCHANGED stream,
         state.stage \in {"streaming", "failing"}, state.emitted = req[r].emitted,
         state.buffered = req[r].buffered, req[r].outputStarted => state.outputStarted,
         state.terminal => kind = "completed"
  PROVE  SInv'
<1> DEFINE old == req[r]
           p == pump[r]
           s == seen[r]
           e == Emit(r, kind)
           more == Append(old.buffered, e)
           m == state.emitted + 1
           counted == [state EXCEPT !.emitted = m]
<1>1. old.stage \notin Ends \cup {"new"}
  BY DEF Ends
<1>2. /\ HeldInv(old, <<>>, s) /\ p \in Pump /\ s \in Seq(Event) /\ old \in Request
      /\ req \in [Requests -> Request] /\ out \in [Requests -> Seq(Event)]
      /\ old.buffered \in Seq(Event)
  BY OfStream, RequestValues
<1>3. /\ p.stage = "waiting" /\ FramesInv(p, s) /\ Done(p, s) = Len(s) /\ Len(s) \in Nat
      /\ Numbered(s, 0, Number(r)) /\ Numbered(old.buffered, Len(s), Number(r))
      /\ old.emitted = Len(s) + Len(old.buffered)
  BY <1>1, PumpWaits
<1>4. e.n = Len(s) + Len(old.buffered) + 1 /\ e.attempt = Number(r) /\ e.kind = kind
  BY <1>3 DEF Emit
<1> HIDE DEF e, old, s, p
<1>5. /\ Numbered(more, Len(s), Number(r)) /\ Len(more) = Len(old.buffered) + 1
      /\ more # <<>> /\ more[Len(more)] = e /\ Len(old.buffered) \in Nat
  <2>1. /\ Numbered(more, Len(s), Number(r)) /\ Len(more) = Len(old.buffered) + 1
        /\ more # <<>> /\ more[Len(old.buffered) + 1] = e
    BY <1>2, <1>3, <1>4, OneMore
  <2> HIDE DEF more
  <2>2. QED  BY <1>2, <2>1
<1> HIDE DEF more
<1>6. /\ m = Len(s) + Len(more) /\ m \in Nat
  BY <1>3, <1>5 DEF old
<1>7. /\ req' \in [Requests -> Request] /\ out' \in [Requests -> Seq(Event)]
      /\ UNCHANGED attempts
  BY DEF IInv, TypeOK, Deliver
<1>8. /\ pump' = [pump EXCEPT ![r] = p] /\ seen' = [seen EXCEPT ![r] = s]
      /\ attempts' = [attempts EXCEPT ![r] = attempts[r]] /\ Number(r) = Len(attempts[r])
  BY <1>7, OfStream DEF stream, p, s
<1>9. ASSUME NEW q, NEW o, req' = [req EXCEPT ![r] = q], out' = [out EXCEPT ![r] = o],
             q.emitted = m, q.stage = state.stage, q.terminal = state.terminal,
             q.outputStarted = state.outputStarted,
             IF state.outputStarted THEN o = more /\ q.buffered = <<>>
             ELSE o = <<>> /\ q.buffered = more
      PROVE  SInv'
  <2>1. q \in Request /\ o \in Seq(Event)
    <3>1. req'[r] = q /\ out'[r] = o
      BY <1>2, <1>9
    <3>2. QED  BY <1>7, <3>1
  <2>2. q.stage \notin Ends \cup {"new"} /\ q.stage \notin Between \cup {"binding", "sent"}
    BY <1>9 DEF Ends, Between
  <2>3. FlowInv(q, o, p, s, Number(r))
    <3>1. CASE state.outputStarted
      <4>1. o = more /\ q.buffered = <<>> /\ Len(q.buffered) = 0
        BY <1>9, <3>1
      <4>2. Numbered(<<>>, Len(s) + Len(o), Number(r))
        BY DEF Numbered
      <4>3. q.emitted = Len(s) + Len(o) + Len(q.buffered)
        BY <1>3, <1>5, <1>6, <1>9, <4>1, SMTT(30)
      <4>4. QED  BY <1>3, <1>5, <4>1, <4>2, <4>3 DEF FlowInv
    <3>2. CASE ~state.outputStarted
      <4>1. o = <<>> /\ q.buffered = more /\ Len(o) = 0
        BY <1>9, <3>2
      <4>2. Numbered(o, Len(s), Number(r)) /\ Len(s) + Len(o) = Len(s)
        BY <1>3, <4>1 DEF Numbered
      <4>3. q.emitted = Len(s) + Len(o) + Len(q.buffered)
        BY <1>3, <1>5, <1>6, <1>9, <4>1, SMTT(30)
      <4>4. QED  BY <1>3, <1>5, <4>1, <4>2, <4>3 DEF FlowInv
    <3>3. QED  BY <3>1, <3>2
  <2>4. HeldInv(q, o, s)
    <3>1. ~state.outputStarted => s = <<>>
      BY <1>1, <1>2 DEF HeldInv, old
    <3>2. QED  BY <1>9, <2>2, <3>1 DEF HeldInv
  <2>5. CompletedInv(q, o, s)
    <3>1. q.terminal => kind = "completed"
      BY <1>9
    <3>2. q.stage # "returned"
      BY <2>2 DEF Ends
    <3>3. LastEvent(q, o, s) = e /\ (q.buffered # <<>> \/ o # <<>>)
      BY <1>5, <1>9 DEF LastEvent
    <3>4. QED  BY <1>4, <3>1, <3>2, <3>3 DEF CompletedInv
  <2>6. PumpInv(q, o, p, s)
    BY <1>3, <2>2 DEF PumpInv
  <2>7. StreamInv(q, o, p, s, Len(attempts[r]))
    BY <1>8, <2>3, <2>4, <2>5, <2>6 DEF StreamInv
  <2>8. QED  BY <1>2, <1>8, <1>9, <2>1, <2>7, StreamStep
<1>10. state.buffered = old.buffered
  BY DEF old
<1> HIDE DEF m
<1>11. CASE state.outputStarted
  <2> DEFINE q == [counted EXCEPT !.buffered = <<>>]
  <2>1. req' = [req EXCEPT ![r] = q] /\ out' = [out EXCEPT ![r] = more]
    BY <1>11 DEF Deliver, more, e, old, m
  <2>2. /\ q.emitted = m /\ q.stage = state.stage /\ q.terminal = state.terminal
        /\ q.outputStarted = state.outputStarted /\ q.buffered = <<>>
    BY DEF Request
  <2> HIDE DEF q
  <2>3. QED  BY <1>9, <1>11, <2>1, <2>2
<1>12. CASE ~state.outputStarted
  <2> DEFINE q == [counted EXCEPT !.buffered = Append(@, e)]
  <2>1. req' = [req EXCEPT ![r] = q]
    BY <1>12 DEF Deliver, e, m
  <2>2. out' = [out EXCEPT ![r] = <<>>]
    BY <1>2, <1>12 DEF Deliver
  <2>3. /\ q.emitted = m /\ q.stage = state.stage /\ q.terminal = state.terminal
        /\ q.outputStarted = state.outputStarted /\ q.buffered = more
    BY <1>10 DEF Request, more
  <2> HIDE DEF q
  <2>4. QED  BY <1>9, <1>12, <2>1, <2>2, <2>3
<1>13. QED  BY <1>11, <1>12

-----------------------------------------------------------------------------
(* The pool's own steps. *)

\* The locals of a request, with a new stage and others that no event is in.
LEMMA MovedStep ==
  ASSUME SInv, IInv', NEW r \in Requests, At(r, req[r].stage),
         req[r].stage \in (Between \ {"new"}) \cup {"binding", "sent"},
         NEW stage \in (Between \ {"new"}) \cup Attempting,
         NEW V, NEW B, NEW a,
         \/ req' = [req EXCEPT ![r].stage = stage]
         \/ req' = [req EXCEPT ![r].stage = stage, ![r].view = V, ![r].bindings = B]
         \/ req' = [req EXCEPT ![r].stage = stage, ![r].account = a, ![r].view = V,
                              ![r].bindings = B],
         NEW as, attempts' = [attempts EXCEPT ![r] = as], out' = out, UNCHANGED stream
  PROVE  SInv'
<1> DEFINE old == req[r]
           q1 == [old EXCEPT !.stage = stage]
           q2 == [old EXCEPT !.stage = stage, !.view = V, !.bindings = B]
           q3 == [old EXCEPT !.stage = stage, !.account = a, !.view = V, !.bindings = B]
<1>1. req \in [Requests -> Request] /\ old \in Request /\ req' \in [Requests -> Request]
  BY OfStream DEF IInv, TypeOK
<1>2. \A q \in {q1, q2, q3} :
         /\ q.stage = stage /\ q.buffered = old.buffered /\ q.emitted = old.emitted
         /\ q.outputStarted = old.outputStarted /\ q.terminal = old.terminal
  BY <1>1 DEF Request
<1>3. PICK q \in {q1, q2, q3} : req' = [req EXCEPT ![r] = q]
  OBVIOUS
<1> HIDE DEF q1, q2, q3
<1>4. q \in Request
  <2>1. req'[r] = q
    BY <1>1, <1>3
  <2>2. QED  BY <1>1, <2>1
<1>5. /\ q.stage = stage /\ q.buffered = old.buffered /\ q.emitted = old.emitted
      /\ q.outputStarted = old.outputStarted /\ q.terminal = old.terminal
  BY <1>2, <1>3
<1>6. out[r] = <<>>
  BY DEF At
<1>7. QED  BY <1>3, <1>4, <1>5, <1>6, EarlyStep

LEMMA RouteStream ==
  ASSUME SInv, IInv', NEW r \in Requests, Route(r), UNCHANGED stream
  PROVE  SInv'
<1>1. /\ req \in [Requests -> Request] /\ out \in [Requests -> Seq(Event)]
      /\ attempts \in [Requests -> Seq(Attempt)] /\ Number(r) = Len(attempts[r])
  BY OfStream
<1>2. ASSUME attempts' = attempts
      PROVE  attempts' = [attempts EXCEPT ![r] = attempts[r]]
  BY <1>1, <1>2
<1>3. CASE Select(r)
  <2> DEFINE V == {a \in Accounts : Eligible(a)}
  <2>1. /\ At(r, "selecting") /\ UNCHANGED <<out, attempts>>
        /\ req' = [req EXCEPT ![r].stage = "choosing", ![r].view = V, ![r].bindings = affinity]
    BY <1>3 DEF Select
  <2> HIDE DEF V
  <2>2. /\ req[r].stage = "selecting" /\ "selecting" \in (Between \ {"new"}) \cup {"binding", "sent"}
        /\ "choosing" \in (Between \ {"new"}) \cup Attempting
    BY <2>1 DEF At, Between
  <2>3. QED  BY <1>2, <2>1, <2>2, MovedStep
<1>4. ASSUME NEW a, At(r, "choosing"), Chosen(r, a)  PROVE SInv'
  <2>1. /\ UNCHANGED <<out, attempts>>
        /\ req' = [req EXCEPT ![r].stage = "revalidating", ![r].account = a, ![r].view = {},
                             ![r].bindings = NoBindings]
    BY <1>4 DEF Chosen
  <2>2. /\ req[r].stage = "choosing" /\ "choosing" \in (Between \ {"new"}) \cup {"binding", "sent"}
        /\ "revalidating" \in (Between \ {"new"}) \cup Attempting
    BY <1>4 DEF At, Between
  <2>3. QED  BY <1>2, <1>4, <2>1, <2>2, MovedStep
<1>5. ASSUME At(r, req[r].stage), req[r].stage \in Between \ {"new"},
             req' = [req EXCEPT ![r] = Ended("thrown")], UNCHANGED <<out, attempts>>
      PROVE  SInv'
  <2>1. out[r] = <<>> /\ out' = [out EXCEPT ![r] = <<>>] /\ req[r].stage \notin Ends \cup {"new"}
    BY <1>1, <1>5 DEF At, Between, Ends
  <2>2. QED  BY <1>1, <1>2, <1>5, <2>1, EndStep
<1>6. CASE FindNone(r)
  BY <1>5, <1>6 DEF FindNone, At, Between
<1>7. CASE Revalidate(r)
  <2>1. At(r, "revalidating") /\ req[r].stage = "revalidating" /\ out' = out
    BY <1>7 DEF Revalidate, At
  <2>2. CASE Eligible(req[r].account)
    <3> DEFINE as == Append(attempts[r], [account |-> req[r].account, taken |-> "no",
                                          outcomes |-> <<>>])
    <3>1. attempts' = [attempts EXCEPT ![r] = as] /\ req' = [req EXCEPT ![r].stage = "binding"]
      BY <1>7, <2>2 DEF Revalidate
    <3> HIDE DEF as
    <3>2. QED  BY <2>1, <3>1, MovedStep DEF Between, Attempting
  <2>3. CASE ~Eligible(req[r].account)
    BY <1>5, <1>7, <2>1, <2>3 DEF Revalidate, Between
  <2>4. QED  BY <2>2, <2>3
<1>8. QED  BY <1>3, <1>4, <1>6, <1>7 DEF Route, ChooseBound, ChooseByStrategy

LEMMA AttemptStream ==
  ASSUME SInv, IInv', NEW r \in Requests, Gateway(r) \/ Provider(r), UNCHANGED stream
  PROVE  SInv'
<1> DEFINE old == req[r]
<1>1. /\ req \in [Requests -> Request] /\ out \in [Requests -> Seq(Event)] /\ old \in Request
      /\ attempts \in [Requests -> Seq(Attempt)] /\ Number(r) = Len(attempts[r])
      /\ old.failure \in Failure /\ "fatal" \in Failure /\ "retryable" \in Failure
  BY OfStream, RequestValues DEF Failure
<1>2. ASSUME attempts' = attempts
      PROVE  attempts' = [attempts EXCEPT ![r] = attempts[r]]
  BY <1>1, <1>2
<1>3. ASSUME NEW o \in Failure, NEW c, NEW t \in Taken, Fail(r, o, c, t), out[r] = <<>>,
             old.stage \in {"binding", "sent", "streaming", "failing"}
      PROVE  SInv'
  BY <1>3, FailedStep DEF Attempting
<1>4. CASE Route(r)
  BY <1>4, RouteStream
<1>5. CASE BindCredential(r)
  <2>1. At(r, "binding") /\ out[r] = <<>> /\ old.stage = "binding"
    BY <1>5 DEF BindCredential, At
  <2>2. CASE Fail(r, "fatal", "unknown", "no")
    BY <1>1, <1>3, <2>1, <2>2 DEF Taken
  <2>3. CASE req' = [req EXCEPT ![r].stage = "sent"] /\ UNCHANGED <<out, attempts>>
    BY <1>2, <2>1, <2>3, MovedStep DEF Attempting
  <2>4. QED  BY <1>5, <2>2, <2>3 DEF BindCredential
<1>6. CASE AfterFailed(r) \/ AbortWhileSent(r)
  BY <1>1, <1>3, <1>6 DEF AfterFailed, AbortWhileSent, At, Taken
<1>7. CASE StreamEnds(r)
  <2> DEFINE as == Replaced(attempts[r], Number(r), Settled(Current(r), "success", "yes"))
  <2>1. /\ out[r] = <<>> /\ old.stage = "streaming" /\ old.terminal
        /\ req' = [req EXCEPT ![r] = Ended("returned")]
        /\ out' = [out EXCEPT ![r] = old.buffered]
        /\ Record(r, "success", "yes")
    BY <1>7 DEF StreamEnds, At, FlushAnd
  <2>2. "success" \in Outcome /\ IInv /\ old.stage \in Attempting /\ old.stage \notin Ends \cup {"new"}
    BY <2>1, OfStream DEF Outcome, Attempting, Ends
  <2>3. attempts' = [attempts EXCEPT ![r] = as] /\ Len(as) = Number(r)
    BY <2>1, <2>2, RecordValues DEF Taken
  <2> HIDE DEF as
  <2>4. QED  BY <2>1, <2>2, <2>3, EndStep
<1>8. CASE AbortWhileStreaming(r)
  <2>1. out[r] = <<>> /\ old.stage = "streaming" /\ old.stage \notin Ends \cup {"new"}
    BY <1>8 DEF AbortWhileStreaming, At, Ends
  <2>2. CASE old.signal = "client"
    <3>1. /\ req' = [req EXCEPT ![r] = Ended("thrown")] /\ UNCHANGED <<out, attempts>>
      BY <1>8, <2>2 DEF AbortWhileStreaming
    <3>2. out' = [out EXCEPT ![r] = <<>>]
      BY <1>1, <2>1, <3>1
    <3>3. QED  BY <1>1, <1>2, <2>1, <3>1, <3>2, EndStep
  <2>3. CASE old.signal # "client"
    BY <1>1, <1>3, <1>8, <2>1, <2>3 DEF AbortWhileStreaming, Taken
  <2>4. QED  BY <2>2, <2>3
<1>9. CASE ConnectionFails(r)
  BY <1>1, <1>3, <1>9 DEF ConnectionFails, At, Taken
<1>10. CASE \E o \in Failure : Rejected(r, o) \/ Unclear(r, o) \/ StreamThrows(r, o)
  BY <1>3, <1>10 DEF Rejected, Unclear, StreamThrows, At, Taken
<1>11. CASE Accepted(r)
  <2> DEFINE as == [attempts[r] EXCEPT ![Number(r)].taken = "yes"]
  <2>1. At(r, "sent") /\ req[r].stage = "sent" /\ req' = [req EXCEPT ![r].stage = "streaming"] /\ out' = out
    BY <1>11 DEF Accepted, At
  <2>2. attempts' = [attempts EXCEPT ![r] = as]
    BY <1>11 DEF Accepted
  <2> HIDE DEF as
  <2>3. QED  BY <2>1, <2>2, MovedStep DEF Attempting
<1>12. CASE Truncated(r)
  BY <1>1, <1>3, <1>12 DEF Truncated, Streaming, At, Taken
<1>13. CASE ResponseStarted(r)
  <2> DEFINE q == [old EXCEPT !.commitment = "provider-accepted"]
  <2>1. /\ out[r] = <<>> /\ old.stage = "streaming" /\ ~old.terminal /\ Deliver(r, "started", q)
    BY <1>13 DEF ResponseStarted, Streaming, At
  <2>2. /\ q \in Request /\ q.stage = old.stage /\ q.emitted = old.emitted
        /\ q.buffered = old.buffered /\ q.outputStarted = old.outputStarted
        /\ q.terminal = old.terminal
    BY <1>1 DEF Request, Commitment
  <2> HIDE DEF q
  <2>3. QED  BY <2>1, <2>2, DeliveredStep
<1>14. CASE Output(r)
  <2> DEFINE q == [old EXCEPT !.commitment = "client-output-started", !.outputStarted = TRUE]
  <2>1. /\ out[r] = <<>> /\ old.stage = "streaming" /\ ~old.terminal /\ Deliver(r, "output", q)
    BY <1>14 DEF Output, Streaming, At
  <2>2. /\ q \in Request /\ q.stage = old.stage /\ q.emitted = old.emitted
        /\ q.buffered = old.buffered /\ q.outputStarted
        /\ q.terminal = old.terminal
    BY <1>1 DEF Request, Commitment
  <2> HIDE DEF q
  <2>3. QED  BY <2>1, <2>2, DeliveredStep
<1>15. CASE ResponseCompleted(r)
  <2> DEFINE q == [old EXCEPT !.terminal = TRUE]
  <2>1. /\ out[r] = <<>> /\ old.stage = "streaming" /\ Deliver(r, "completed", q)
    BY <1>15 DEF ResponseCompleted, Streaming, At
  <2>2. /\ q \in Request /\ q.stage = old.stage /\ q.emitted = old.emitted
        /\ q.buffered = old.buffered /\ q.outputStarted = old.outputStarted
    BY <1>1 DEF Request
  <2> HIDE DEF q
  <2>3. QED  BY <2>1, <2>2, DeliveredStep
<1>16. ASSUME NEW failure \in Failure, ResponseFailed(r, failure)  PROVE SInv'
  <2> DEFINE q == [old EXCEPT !.stage = "failing", !.failure = failure]
  <2>1. /\ out[r] = <<>> /\ old.stage \in {"sent", "streaming"} /\ Deliver(r, "failed", q)
        /\ old.stage = "streaming" => ~old.terminal
    BY <1>16 DEF ResponseFailed, Streaming, At
  <2>2. old.stage = "sent" => ~old.terminal
    BY OfStream DEF HeldInv
  <2>3. /\ q \in Request /\ q.stage = "failing" /\ q.emitted = old.emitted
        /\ q.buffered = old.buffered /\ q.outputStarted = old.outputStarted
        /\ q.terminal = old.terminal
    BY <1>1, <1>16 DEF Request, Stage
  <2> HIDE DEF q
  <2>4. QED  BY <2>1, <2>2, <2>3, DeliveredStep
<1>17. Gateway(r) => SInv'
  BY <1>4, <1>5, <1>6, <1>7, <1>8 DEF Gateway
<1>18. Provider(r) => SInv'
  BY <1>9, <1>10, <1>11, <1>12, <1>13, <1>14, <1>15, <1>16 DEF Provider
<1>19. QED  BY <1>17, <1>18

-----------------------------------------------------------------------------
(* The pool under a pump. *)

\* A signal is no part of what the pool's invariant says.
LEMMA SignalKeeps ==
  ASSUME IInv, NEW r \in Requests, NEW why \in {"client", "timeout"}, Signal(r, why),
         UNCHANGED <<untouched, out>>
  PROVE  IInv'
<1>1. req \in [Requests -> Request] /\ req' = [req EXCEPT ![r].signal = why]
  BY DEF IInv, TypeOK, Signal
<1>2. ASSUME NEW x \in Requests
      PROVE  /\ req'[x] \in Request /\ req'[x].stage = req[x].stage
             /\ req'[x].tried = req[x].tried /\ req'[x].account = req[x].account
             /\ req'[x].emitted = req[x].emitted /\ req'[x].terminal = req[x].terminal
             /\ req'[x].commitment = req[x].commitment /\ req'[x].bindings = req[x].bindings
  BY <1>1, <1>2, ZenonT(30) DEF Request
<1>3. req' \in [Requests -> Request]
  BY <1>1, <1>2
<1>4. /\ UNCHANGED <<pool, acct, changes, cursor, selecting, affinity, turn, out, attempts>>
  BY DEF untouched, accounts, selector
<1>5. TypeOK' /\ GenInv' /\ TurnInv'
  BY <1>3, <1>4 DEF IInv, TypeOK, GenInv, TurnInv, Back, Index
<1>6. QueueInv'
  BY <1>2, <1>4 DEF IInv, QueueInv
<1>7. ASSUME NEW x \in Requests  PROVE RequestInv(req'[x], attempts'[x])
  <2>1. RequestInv(req[x], attempts[x]) /\ attempts'[x] = attempts[x]
    BY <1>4, <1>7 DEF IInv
  <2>2. AttemptsInv(attempts[x]) /\ EmittedInv(req'[x])
    BY <1>2, <1>7, <2>1 DEF RequestInv, EmittedInv
  <2>3. StageInv(req'[x], attempts[x])
    BY <1>2, <1>7, <2>1 DEF RequestInv, StageInv, BetweenInv, AttemptingInv, TriedInv
  <2>4. CleanInv(req'[x], attempts[x])
    BY <1>2, <1>7, <2>1 DEF RequestInv, CleanInv
  <2>5. QED  BY <2>1, <2>2, <2>3, <2>4 DEF RequestInv
<1>8. QED  BY <1>5, <1>6, <1>7 DEF IInv

\* Nor are the events that were yielded, but for their type.
LEMMA OutKeeps ==
  ASSUME IInv, out' \in [Requests -> Seq(Event)], UNCHANGED <<untouched, req>>
  PROVE  IInv'
BY DEF IInv, TypeOK, GenInv, QueueInv, TurnInv, Back, Index, accounts, selector, untouched

\* A consumer that returns the generator ends the request wherever it is.
LEMMA ReturnKeeps ==
  ASSUME IInv, NEW r \in Requests, NEW stage \in Ends,
         req' = [req EXCEPT ![r] = [Ended(stage) EXCEPT !.signal = "finished"]],
         stage # "discarded" => req[r].stage = stage,
         out' = [out EXCEPT ![r] = <<>>], UNCHANGED untouched
  PROVE  IInv'
<1> DEFINE q == [Ended(stage) EXCEPT !.signal = "finished"]
           as == attempts[r]
<1>1. /\ req[r] \in Request /\ as \in Seq(Attempt) /\ AttemptsInv(as) /\ StageInv(req[r], as)
      /\ CleanInv(req[r], as)
  BY OfRequest
<1>2. q \in Request /\ q.stage = stage
  <2>1. stage \in Stage /\ Ended(stage) \in Request /\ Ended(stage).stage = stage
    BY FreshValues DEF Ends, Stage
  <2>2. QED  BY <2>1 DEF Request
<1> HIDE DEF q
<1>3. Len(as) > 0 => Last(as).outcomes \in {<<>>, <<"retryable">>, <<"fatal">>, <<"success">>}
  <2>1. req[r].stage \in Stage
    BY <1>1, RequestValues
  <2>2. QED  BY <1>1, <2>1 DEF StageInv, Stage, Between, Attempting, BetweenInv, AttemptingInv
<1>4. StageInv(q, as)
  BY <1>1, <1>2, <1>3 DEF StageInv, Ends, Between, Attempting
<1>5. RequestInv(q, as)
  BY <1>1, <1>2, <1>4 DEF RequestInv, EmittedInv, CleanInv, Ends, Between
<1>6. out' \in [Requests -> Seq(Event)] /\ q.stage # "choosing" /\ req' = [req EXCEPT ![r] = q]
      /\ UNCHANGED <<pool, accounts, selector, attempts>>
  <2>1. <<>> \in Seq(Event)
    OBVIOUS
  <2>2. QED  BY <1>2, <2>1, OfRequest DEF Ends, q, untouched
<1>7. QED  BY <1>2, <1>5, <1>6, LocalStep DEF Kept

-----------------------------------------------------------------------------
(* The steps of the pump. *)

LEMMA PumpValues ==
  ASSUME NEW p \in Pump
  PROVE  /\ p.stage \in {"none", "waiting", "writing", "persisting", "closed"}
         /\ p.terminal \in {"none", "completed", "error", "cancelled", "timeout"}
         /\ p.timer \in {"none", "setup", "idle"}
         /\ p.frames \in Seq(Frame) /\ Len(p.frames) \in Nat /\ p.stored \in BOOLEAN
BY DEF Pump

LEMMA BeginStream ==
  ASSUME SInv, NEW r \in Requests, Begin(r)
  PROVE  SInv'
<1> DEFINE old == req[r]
           p == pump[r]
           s == seen[r]
           q == [old EXCEPT !.stage = "selecting", !.snapshot = [a \in Accounts |-> acct[a].gen]]
           p1 == [p EXCEPT !.stage = "waiting", !.timer = "setup"]
<1>1. /\ old \in Request /\ p \in Pump /\ s \in Seq(Event) /\ req \in [Requests -> Request]
      /\ HeldInv(old, out[r], s) /\ FlowInv(old, out[r], p, s, Number(r))
      /\ PumpInv(old, out[r], p, s) /\ Number(r) = Len(attempts[r])
  BY OfStream
<1>2. old.stage = "new" /\ out[r] = <<>>
  BY DEF Begin, Prepare, At
<1>3. IInv'
  BY OfStream, PrepareStep DEF Begin, Kept
<1>4. s = <<>> /\ ~old.outputStarted /\ ~old.terminal /\ p.stage = "none" /\ FramesInv(p, s)
  BY <1>1, <1>2 DEF HeldInv, Between, Ends, PumpInv
<1>5. /\ q.stage = "selecting" /\ q.emitted = old.emitted /\ q.buffered = old.buffered
      /\ q.outputStarted = old.outputStarted /\ q.terminal = old.terminal
  BY <1>1 DEF Request
<1>6. req' = [req EXCEPT ![r] = q] /\ pump' = [pump EXCEPT ![r] = p1]
  BY DEF Begin, Prepare
<1>7. p1 \in Pump /\ p1.stage = "waiting" /\ p1.terminal = p.terminal /\ p1.frames = p.frames
      /\ p1.stored = p.stored
  BY <1>1 DEF Pump
<1> HIDE DEF q, p1, old, p, s
<1>8. q \in Request
  <2>1. req' \in [Requests -> Request] /\ req'[r] = q
    BY <1>1, <1>3, <1>6 DEF IInv, TypeOK
  <2>2. QED  BY <2>1
<1>9. FlowInv(q, <<>>, p1, s, Number(r))
  BY <1>1, <1>2, <1>4, <1>5, <1>7 DEF FlowInv, Done, Numbered, Ends
<1>10. HeldInv(q, <<>>, s) /\ CompletedInv(q, <<>>, s)
  BY <1>4, <1>5 DEF HeldInv, CompletedInv, Ends
<1>11. PumpInv(q, <<>>, p1, s)
  BY <1>4, <1>5, <1>7 DEF PumpInv, FramesInv
<1>12. /\ out' = [out EXCEPT ![r] = <<>>] /\ seen' = [seen EXCEPT ![r] = s]
       /\ attempts' = [attempts EXCEPT ![r] = attempts[r]]
  BY <1>2, OfStream DEF Begin, Prepare, s
<1>13. <<>> \in Seq(Event)
  OBVIOUS
<1>14. StreamInv(q, <<>>, p1, s, Len(attempts[r]))
  BY <1>1, <1>9, <1>10, <1>11 DEF StreamInv
<1>15. QED  BY <1>1, <1>3, <1>6, <1>7, <1>8, <1>12, <1>13, <1>14, StreamStep

LEMMA TerminateStream ==
  ASSUME SInv, NEW r \in Requests, TimerFires(r) \/ ClientLeaves(r)
  PROVE  SInv'
<1> DEFINE old == req[r]
           o == out[r]
           p == pump[r]
           s == seen[r]
<1>1. /\ old \in Request /\ o \in Seq(Event) /\ p \in Pump /\ s \in Seq(Event)
      /\ req \in [Requests -> Request] /\ FlowInv(old, o, p, s, Number(r))
      /\ HeldInv(old, o, s) /\ CompletedInv(old, o, s) /\ PumpInv(old, o, p, s)
      /\ Number(r) = Len(attempts[r])
  BY OfStream
<1>2. PICK kind \in {"timeout", "cancelled"}, why \in {"client", "timeout"} : Terminate(r, kind, why)
  BY DEF TimerFires, ClientLeaves
<1>3. p.stage \in {"waiting", "writing", "persisting"}
  BY DEF TimerFires, ClientLeaves, Open, AwaitsUpstream, In
<1> DEFINE q == [old EXCEPT !.signal = why]
           p1 == [p EXCEPT !.terminal = kind, !.timer = "none"]
<1>4. /\ req' = [req EXCEPT ![r] = q] /\ pump' = [pump EXCEPT ![r] = p1]
      /\ UNCHANGED <<untouched, out, seen>> /\ Signal(r, why)
  BY <1>2 DEF Terminate, Signal
<1>5. IInv'
  BY <1>4, OfStream, SignalKeeps
<1>6. /\ q \in Request /\ q.stage = old.stage /\ q.emitted = old.emitted /\ q.buffered = old.buffered
      /\ q.outputStarted = old.outputStarted /\ q.terminal = old.terminal
  BY <1>1 DEF Request
<1>7. /\ p1 \in Pump /\ p1.stage = p.stage /\ p1.terminal = kind /\ p1.frames = p.frames
      /\ p1.stored = p.stored
  BY <1>1 DEF Pump
<1> HIDE DEF q, p1, old, p, s, o
<1>8. FlowInv(q, o, p1, s, Number(r))
  BY <1>1, <1>6, <1>7 DEF FlowInv, Done
<1>9. HeldInv(q, o, s) /\ CompletedInv(q, o, s)
  BY <1>1, <1>6 DEF HeldInv, CompletedInv, LastEvent
<1>10. PumpInv(q, o, p1, s)
  BY <1>1, <1>3, <1>6, <1>7 DEF PumpInv, FramesInv
<1>11. /\ out' = [out EXCEPT ![r] = o] /\ seen' = [seen EXCEPT ![r] = s]
       /\ attempts' = [attempts EXCEPT ![r] = attempts[r]]
  BY <1>4, OfStream DEF untouched, o, s
<1>12. StreamInv(q, o, p1, s, Len(attempts[r]))
  BY <1>1, <1>8, <1>9, <1>10 DEF StreamInv
<1>13. QED  BY <1>1, <1>4, <1>5, <1>6, <1>7, <1>11, <1>12, StreamStep, ZenonT(30)

\* One event is written.
LEMMA WriteStream ==
  ASSUME SInv, NEW r \in Requests, Write(r)
  PROVE  SInv'
<1> DEFINE q == req[r]
           o == out[r]
           p == pump[r]
           s == seen[r]
           e == Head(o)
           s1 == Append(s, e)
           f1 == Append(p.frames, e.kind)
           p1 == [p EXCEPT !.stage = "writing", !.timer = "none", !.frames = f1]
<1>1. /\ q \in Request /\ o \in Seq(Event) /\ p \in Pump /\ s \in Seq(Event)
      /\ req \in [Requests -> Request] /\ FlowInv(q, o, p, s, Number(r))
      /\ HeldInv(q, o, s) /\ CompletedInv(q, o, s) /\ PumpInv(q, o, p, s)
      /\ Number(r) = Len(attempts[r])
  BY OfStream
<1>2. p.stage = "waiting" /\ o # <<>>
  BY DEF Write, In
<1>3. /\ UNCHANGED <<untouched, req, out>> /\ seen' = [seen EXCEPT ![r] = s1]
      /\ pump' = [pump EXCEPT ![r] = p1]
  BY DEF Write
<1>4. IInv'
  BY <1>3, OfStream, OutKeeps
<1> HIDE DEF q, o, p, s
<1>5. e = o[1] /\ e \in Event /\ Len(o) \in Nat /\ Len(o) > 0 /\ Len(s) \in Nat
  BY <1>1, <1>2
<1> HIDE DEF e
<1>6. Done(p, s) = Len(s) /\ Numbered(s, 0, Number(r)) /\ Numbered(o, Len(s), Number(r))
      /\ FramesInv(p, s)
  BY <1>1, <1>2 DEF FlowInv, Done, PumpInv
<1>7. e.n = Len(s) + 1 /\ e.attempt = Number(r)
  <2>1. 1 \in 1..Len(o)
    BY <1>5
  <2>2. o[1].n = Len(s) + 1 /\ o[1].attempt = Number(r)
    BY <1>6, <2>1, ZenonT(30) DEF Numbered
  <2>3. QED  BY <1>5, <2>2
<1>8. /\ Numbered(s1, 0, Number(r)) /\ Len(s1) = Len(s) + 1 /\ s1 # <<>> /\ s1[Len(s) + 1] = e
      /\ s1 \in Seq(Event) /\ \A i \in 1..Len(s) : s1[i] = s[i]
  <2>1. e.n = 0 + Len(s) + 1 /\ 0 \in Nat
    BY <1>5, <1>7
  <2>2. /\ Numbered(s1, 0, Number(r)) /\ Len(s1) = Len(s) + 1 /\ s1 # <<>> /\ s1[Len(s) + 1] = e
    BY <1>1, <1>6, <1>7, <2>1, OneMore
  <2>3. s1 \in Seq(Event) /\ \A i \in 1..Len(s) : s1[i] = s[i]
    BY <1>1, <1>5, AppendProperties
  <2>4. QED  BY <2>2, <2>3
<1>9. /\ p.frames \in Seq(Frame) /\ Len(p.frames) = Len(s) /\ e.kind \in Frame
      /\ \A i \in 1..Len(s) : p.frames[i] = s[i].kind
  BY <1>1, <1>5, <1>6, PumpValues DEF FramesInv, Event, Frame
<1>10. /\ f1 \in Seq(Frame) /\ Len(f1) = Len(s) + 1
       /\ \A i \in 1..(Len(s) + 1) : f1[i] = s1[i].kind
  <2>1. /\ f1 \in Seq(Frame) /\ Len(f1) = Len(s) + 1 /\ f1[Len(s) + 1] = e.kind
        /\ \A i \in 1..Len(s) : f1[i] = p.frames[i]
    BY <1>9, AppendProperties
  <2>2. \A i \in 1..(Len(s) + 1) : i \in 1..Len(s) \/ i = Len(s) + 1
    BY <1>5
  <2> HIDE DEF f1, s1
  <2>3. QED  BY <1>8, <1>9, <2>1, <2>2
<1> HIDE DEF f1, s1
<1>11. /\ p1 \in Pump /\ p1.stage = "writing" /\ p1.frames = f1 /\ p1.stored = p.stored
       /\ p1.terminal = p.terminal
  BY <1>1, <1>10 DEF Pump
<1> HIDE DEF p1
<1>12. Done(p1, s1) = Len(s)
  BY <1>5, <1>8, <1>11 DEF Done
<1>13. FlowInv(q, o, p1, s1, Number(r))
  BY <1>1, <1>6, <1>8, <1>12 DEF FlowInv
<1>14. HeldInv(q, o, s1) /\ CompletedInv(q, o, s1)
  BY <1>1, <1>2, <1>8 DEF HeldInv, CompletedInv, LastEvent
<1>15. FramesInv(p1, s1)
  BY <1>6, <1>8, <1>10, <1>11 DEF FramesInv
<1>16. PumpInv(q, o, p1, s1)
  BY <1>1, <1>2, <1>5, <1>8, <1>11, <1>15 DEF PumpInv
<1>17. /\ req' = [req EXCEPT ![r] = q] /\ out' = [out EXCEPT ![r] = o]
       /\ attempts' = [attempts EXCEPT ![r] = attempts[r]]
  BY <1>3, OfStream DEF untouched, o, q
<1>18. StreamInv(q, o, p1, s1, Len(attempts[r]))
  BY <1>1, <1>13, <1>14, <1>16 DEF StreamInv
<1>19. QED  BY <1>1, <1>3, <1>4, <1>8, <1>11, <1>17, <1>18, StreamStep

\* The frame is taken: the event leaves the queue.
LEMMA ResumeStream ==
  ASSUME SInv, NEW r \in Requests, Resume(r)
  PROVE  SInv'
<1> DEFINE q == req[r]
           o == out[r]
           p == pump[r]
           s == seen[r]
           o1 == Tail(o)
           t == IF Terminated(r) THEN "none" ELSE "idle"
           p1 == [p EXCEPT !.stage = "waiting", !.timer = t]
<1>1. /\ q \in Request /\ o \in Seq(Event) /\ p \in Pump /\ s \in Seq(Event)
      /\ req \in [Requests -> Request] /\ FlowInv(q, o, p, s, Number(r))
      /\ HeldInv(q, o, s) /\ CompletedInv(q, o, s) /\ PumpInv(q, o, p, s)
      /\ Number(r) = Len(attempts[r]) /\ out \in [Requests -> Seq(Event)]
  BY OfStream
<1>2. p.stage = "writing"
  BY DEF Resume, In
<1>3. /\ UNCHANGED <<untouched, req, seen>> /\ out' = [out EXCEPT ![r] = o1]
      /\ pump' = [pump EXCEPT ![r] = p1]
  BY DEF Resume
<1> HIDE DEF q, o, p, s
<1>4. /\ o # <<>> /\ s # <<>> /\ s[Len(s)] = o[1] /\ FramesInv(p, s)
      /\ Len(o) \in Nat /\ Len(o) > 0 /\ Len(s) \in Nat /\ Len(s) > 0
  BY <1>1, <1>2 DEF PumpInv
<1>5. /\ o1 \in Seq(Event) /\ Len(o1) = Len(o) - 1
      /\ \A i \in 1..Len(o1) : o1[i] = o[i + 1]
  BY <1>1, <1>4
<1>6. t \in {"none", "idle"}
  OBVIOUS
<1> HIDE DEF o1, t
<1>7. IInv'
  <2>1. out' \in [Requests -> Seq(Event)]
    BY <1>1, <1>3, <1>5
  <2>2. QED  BY <1>3, <2>1, OfStream, OutKeeps
<1>8. p1 \in Pump /\ p1.stage = "waiting" /\ p1.terminal = p.terminal /\ p1.frames = p.frames
      /\ p1.stored = p.stored
  BY <1>1, <1>6 DEF Pump
<1> HIDE DEF p1
<1>9. Done(p, s) = Len(s) - 1 /\ Done(p1, s) = Len(s) /\ Len(q.buffered) \in Nat
  BY <1>1, <1>2, <1>8, RequestValues DEF Done
<1>10. FlowInv(q, o1, p1, s, Number(r))
  <2>1. Numbered(o1, Len(s), Number(r))
    <3>1. ASSUME NEW i \in 1..Len(o1)
          PROVE  o1[i].n = Len(s) + i /\ o1[i].attempt = Number(r)
      <4>1. i + 1 \in 1..Len(o) /\ o1[i] = o[i + 1]
        BY <1>4, <1>5
      <4>2. o[i + 1].n = Len(s) - 1 + (i + 1) /\ o[i + 1].attempt = Number(r)
        BY <1>1, <1>9, <4>1 DEF FlowInv, Numbered
      <4>3. Len(s) - 1 + (i + 1) = Len(s) + i
        BY <1>4
      <4>4. QED  BY <4>1, <4>2, <4>3
    <3>2. QED  BY <3>1 DEF Numbered
  <2>2. Done(p1, s) + Len(o1) = Done(p, s) + Len(o)
    BY <1>4, <1>5, <1>9
  <2>3. QED  BY <1>1, <1>9, <2>1, <2>2 DEF FlowInv
<1>11. HeldInv(q, o1, s)
  BY <1>1, <1>4 DEF HeldInv
<1>12. CompletedInv(q, o1, s)
  <2>1. CASE q.buffered # <<>>
    BY <1>1, <2>1 DEF CompletedInv, LastEvent
  <2>2. CASE q.buffered = <<>> /\ o1 = <<>>
    <3>1. Len(o) = 1
      BY <1>4, <1>5, <2>2
    <3>2. QED  BY <1>1, <1>4, <2>2, <3>1 DEF CompletedInv, LastEvent
  <2>3. CASE q.buffered = <<>> /\ o1 # <<>>
    <3>1. Len(o1) \in 1..Len(o1) /\ Len(o1) + 1 = Len(o)
      BY <1>4, <1>5, <2>3
    <3>2. o1[Len(o1)] = o[Len(o)]
      BY <1>5, <3>1
    <3>3. QED  BY <1>1, <1>4, <2>3, <3>2 DEF CompletedInv, LastEvent
  <2>4. QED  BY <2>1, <2>2, <2>3
<1>13. PumpInv(q, o1, p1, s)
  BY <1>1, <1>2, <1>4, <1>8 DEF PumpInv, FramesInv
<1>14. /\ req' = [req EXCEPT ![r] = q] /\ seen' = [seen EXCEPT ![r] = s]
       /\ attempts' = [attempts EXCEPT ![r] = attempts[r]]
  BY <1>3, OfStream DEF untouched, s, q
<1>15. StreamInv(q, o1, p1, s, Len(attempts[r]))
  BY <1>1, <1>10, <1>11, <1>12, <1>13 DEF StreamInv
<1>16. QED  BY <1>1, <1>3, <1>5, <1>7, <1>8, <1>14, <1>15, StreamStep, ZenonT(30)

\* Frames that follow those of the events.
LEMMA FramesThen ==
  ASSUME NEW fs \in Seq(Frame), NEW w \in {<<>>, <<"timeout">>, <<"error">>}
  PROVE  /\ fs \o w \in Seq(Frame)
         /\ w = <<>> => fs \o w = fs
         /\ w # <<>> => /\ Len(fs \o w) = Len(fs) + 1
                        /\ (fs \o w)[Len(fs) + 1] = w[1]
                        /\ \A i \in 1..Len(fs) : (fs \o w)[i] = fs[i]
<1>1. w \in Seq(Frame) /\ Len(w) \in {0, 1} /\ (w # <<>> => Len(w) = 1) /\ Len(fs) \in Nat
  <2>1. CASE w = <<>>
    BY <2>1
  <2>2. ASSUME NEW x \in Frame, w = <<x>>  PROVE w \in Seq(Frame) /\ Len(w) = 1
    BY <2>2
  <2>3. "timeout" \in Frame /\ "error" \in Frame
    BY DEF Frame
  <2>4. QED  BY <2>1, <2>2, <2>3
<1>2. /\ fs \o w \in Seq(Frame) /\ Len(fs \o w) = Len(fs) + Len(w)
      /\ \A i \in 1..(Len(fs) + Len(w)) :
           (fs \o w)[i] = IF i <= Len(fs) THEN fs[i] ELSE w[i - Len(fs)]
  BY <1>1, ConcatProperties
<1>3. w = <<>> => fs \o w = fs
  OBVIOUS
<1>4. ASSUME w # <<>>
      PROVE  /\ Len(fs \o w) = Len(fs) + 1 /\ (fs \o w)[Len(fs) + 1] = w[1]
             /\ \A i \in 1..Len(fs) : (fs \o w)[i] = fs[i]
  <2>1. Len(w) = 1
    BY <1>1, <1>4
  <2>2. Len(fs) + 1 - Len(fs) = 1 /\ ~(Len(fs) + 1 <= Len(fs)) /\ Len(fs) + 1 \in 1..(Len(fs) + 1)
    BY <1>1
  <2>3. (fs \o w)[Len(fs) + 1] = w[1]
    BY <1>2, <2>1, <2>2
  <2>4. ASSUME NEW i \in 1..Len(fs)  PROVE (fs \o w)[i] = fs[i]
    <3>1. i \in 1..(Len(fs) + Len(w)) /\ i <= Len(fs)
      BY <1>1, <2>1
    <3>2. QED  BY <1>2, <3>1
  <2>5. QED  BY <1>2, <2>1, <2>3, <2>4
<1>5. QED  BY <1>2, <1>3, <1>4

\* The stream closes: with a clean end, of a response that was persisted, or
\* without one, and then with the last words its end calls for.
LEMMA CloseStream ==
  ASSUME SInv, NEW r \in Requests, pump[r].stage \in {"waiting", "writing", "persisting"},
         NEW cleanEnd \in BOOLEAN, NEW storing \in BOOLEAN,
         NEW w \in {<<>>, <<"timeout">>, <<"error">>},
         Close(r, cleanEnd, w, storing),
         cleanEnd => pump[r].stage = "persisting" /\ w = <<>>,
         ~cleanEnd => ~storing /\ (pump[r].terminal = "none" => w = <<"error">>)
  PROVE  SInv'
<1> DEFINE old == req[r]
           o == out[r]
           p == pump[r]
           s == seen[r]
           stage == IF Over(r) THEN old.stage ELSE "discarded"
           q == [Ended(stage) EXCEPT !.signal = "finished"]
           t == Outcomes(p.terminal, cleanEnd)
           fs == p.frames \o w
           p1 == [p EXCEPT !.stage = "closed", !.timer = "none", !.terminal = t,
                           !.frames = fs, !.stored = storing]
<1>1. /\ old \in Request /\ o \in Seq(Event) /\ p \in Pump /\ s \in Seq(Event)
      /\ req \in [Requests -> Request] /\ FlowInv(old, o, p, s, Number(r))
      /\ HeldInv(old, o, s) /\ CompletedInv(old, o, s) /\ PumpInv(old, o, p, s)
      /\ Number(r) = Len(attempts[r])
  BY OfStream
<1>2. /\ stage \in Ends /\ (stage # "discarded" => old.stage = stage)
      /\ Over(r) => stage = old.stage
  BY DEF Over, Ends
<1>3. /\ UNCHANGED <<untouched, seen>> /\ pump' = [pump EXCEPT ![r] = p1]
      /\ out' = [out EXCEPT ![r] = <<>>] /\ req' = [req EXCEPT ![r] = q]
  BY DEF Close
<1>4. t \in {"completed", "error", "cancelled", "timeout"}
  <2>1. p.terminal \in {"none", "completed", "error", "cancelled", "timeout"}
    BY <1>1, PumpValues
  <2>2. QED  BY <2>1 DEF Outcomes
<1>5. /\ t = "completed" => cleanEnd \/ p.terminal = "completed"
      /\ t = "error" => p.terminal = "error" \/ (p.terminal = "none" /\ ~cleanEnd)
  BY DEF Outcomes
<1> HIDE DEF stage, t, old, o, p, s
<1>6. q \in Request /\ q.stage = stage /\ q.buffered = <<>> /\ q.terminal = FALSE
      /\ q.outputStarted = FALSE /\ q.signal = "finished"
  <2> DEFINE e == Ended(stage)
  <2>1. stage \in Stage
    BY <1>2 DEF Ends, Stage
  <2>2. /\ e \in Request /\ e.stage = stage /\ e.buffered = <<>> /\ e.terminal = FALSE
        /\ e.outputStarted = FALSE
    BY <2>1, FreshValues DEF Ended, Fresh
  <2> HIDE DEF e
  <2>3. q = [e EXCEPT !.signal = "finished"]
    BY DEF e
  <2>4. QED  BY <2>2, <2>3 DEF Request
<1>7. IInv'
  <2>1. IInv
    BY OfStream
  <2>2. req' = [req EXCEPT ![r] = [Ended(stage) EXCEPT !.signal = "finished"]]
    BY <1>3
  <2>3. stage # "discarded" => req[r].stage = stage
    BY <1>2 DEF old
  <2>4. QED  BY <1>2, <1>3, <2>1, <2>2, <2>3, ReturnKeeps
<1> HIDE DEF q
<1>8. p.stage # "closed" /\ FramesInv(p, s) /\ p.frames \in Seq(Frame) /\ Len(p.frames) \in Nat
      /\ Len(p.frames) = Len(s)
  BY <1>1, PumpValues DEF PumpInv, FramesInv, p
<1>9. /\ fs \in Seq(Frame) /\ (w = <<>> => fs = p.frames)
      /\ w # <<>> => /\ Len(fs) = Len(p.frames) + 1 /\ fs[Len(p.frames) + 1] = w[1]
                     /\ \A i \in 1..Len(p.frames) : fs[i] = p.frames[i]
  BY <1>8, FramesThen
<1> HIDE DEF fs
<1>10. /\ p1 \in Pump /\ p1.stage = "closed" /\ p1.timer = "none" /\ p1.terminal = t
       /\ p1.frames = fs /\ p1.stored = storing
  BY <1>1, <1>4, <1>9 DEF Pump
<1> HIDE DEF p1
<1>11. \A i \in 1..(Len(fs) - 1) : fs[i] \notin {"error", "timeout"}
  <2>1. ASSUME NEW i \in 1..(Len(fs) - 1)  PROVE fs[i] \notin {"error", "timeout"}
    <3>1. i \in 1..Len(s) /\ fs[i] = p.frames[i]
      BY <1>8, <1>9, <2>1
    <3>2. s[i] \in Event /\ p.frames[i] = s[i].kind
      BY <1>1, <1>8, <3>1 DEF FramesInv
    <3>3. QED  BY <3>1, <3>2 DEF Event
  <2>2. QED  BY <2>1
<1>12. ASSUME cleanEnd
       PROVE  stage = "returned" /\ Len(fs) = Len(s) /\ Len(s) > 0 /\ LastOf(fs) = "completed"
  <2>1. p.stage = "persisting" /\ w = <<>>
    BY <1>12 DEF p
  <2>2. old.stage = "returned" /\ o = <<>>
    BY <1>1, <2>1 DEF PumpInv
  <2>3. stage = "returned"
    BY <1>2, <2>2 DEF Over, old, o
  <2>4. old.buffered = <<>>
    BY <1>1, <2>2 DEF HeldInv, Ends
  <2>5. s # <<>> /\ s[Len(s)].kind = "completed"
    BY <1>1, <2>2, <2>4 DEF CompletedInv, LastEvent
  <2>6. Len(s) > 0 /\ Len(s) \in 1..Len(s)
    BY <1>1, <2>5
  <2>7. p.frames[Len(s)] = "completed"
    BY <1>8, <2>5, <2>6 DEF FramesInv
  <2>8. QED  BY <1>8, <1>9, <2>1, <2>3, <2>6, <2>7 DEF LastOf
<1>13. ASSUME t = "error"
       PROVE  Len(fs) > 0 /\ LastOf(fs) = "error"
  <2>1. p.terminal = "none" /\ ~cleanEnd
    BY <1>5, <1>8, <1>13 DEF FramesInv
  <2>2. w = <<"error">>
    BY <2>1 DEF p
  <2>3. w # <<>> /\ w[1] = "error"
    BY <2>2
  <2>4. QED  BY <1>8, <1>9, <2>3 DEF LastOf
<1>14. t = "completed" \/ storing => cleanEnd
  BY <1>5, <1>8 DEF FramesInv
<1>15. ToldInv(q, p1, s)
  BY <1>4, <1>6, <1>10, <1>11, <1>12, <1>13, <1>14 DEF ToldInv
<1>16. PumpInv(q, <<>>, p1, s)
  BY <1>2, <1>6, <1>10, <1>15 DEF PumpInv, Ends
<1>17. FlowInv(q, <<>>, p1, s, Number(r))
  BY <1>1, <1>2, <1>6 DEF FlowInv, Numbered
<1>18. HeldInv(q, <<>>, s)
  BY <1>2, <1>6 DEF HeldInv, Ends, Between
<1>19. CompletedInv(q, <<>>, s)
  <2>1. CASE stage # "returned"
    BY <1>6, <2>1 DEF CompletedInv
  <2>2. CASE stage = "returned"
    <3>1. old.stage = "returned" /\ Over(r)
      BY <1>2, <2>2 DEF stage
    <3>2. o = <<>> /\ old.buffered = <<>>
      BY <1>1, <3>1 DEF Over, HeldInv, Ends, o
    <3>3. QED  BY <1>1, <1>6, <3>1, <3>2 DEF CompletedInv, LastEvent
  <2>3. QED  BY <2>1, <2>2
<1>20. /\ <<>> \in Seq(Event) /\ seen' = [seen EXCEPT ![r] = s]
       /\ attempts' = [attempts EXCEPT ![r] = attempts[r]]
  BY <1>3, OfStream DEF untouched, s
<1>21. StreamInv(q, <<>>, p1, s, Len(attempts[r]))
  BY <1>1, <1>16, <1>17, <1>18, <1>19 DEF StreamInv
<1>22. QED  BY <1>1, <1>3, <1>6, <1>7, <1>10, <1>20, <1>21, StreamStep

\* The stream closes without a clean end.
LEMMA CatchStream ==
  ASSUME SInv, NEW r \in Requests, pump[r].stage \in {"waiting", "writing", "persisting"},
         Catch(r) \/ (Terminated(r) /\ Close(r, FALSE, <<>>, FALSE))
  PROVE  SInv'
<1>1. CASE Catch(r)
  <2> DEFINE w == LastWords(pump[r].terminal)
  <2>1. /\ w \in {<<>>, <<"timeout">>, <<"error">>}
        /\ pump[r].terminal = "none" => w = <<"error">>
    BY DEF LastWords
  <2>2. Close(r, FALSE, w, FALSE)
    BY <1>1 DEF Catch
  <2> HIDE DEF w
  <2>3. QED  BY <2>1, <2>2, CloseStream
<1>2. CASE Terminated(r) /\ Close(r, FALSE, <<>>, FALSE)
  BY <1>2, CloseStream DEF Terminated
<1>3. QED  BY <1>1, <1>2

\* The source returned: the response is to be persisted.
LEMMA PersistingStream ==
  ASSUME SInv, NEW r \in Requests, In(r, "waiting"), Over(r), req[r].stage = "returned",
         pump' = [pump EXCEPT ![r].stage = "persisting"], UNCHANGED <<vars, seen>>
  PROVE  SInv'
<1> DEFINE q == req[r]
           p == pump[r]
           s == seen[r]
           p1 == [p EXCEPT !.stage = "persisting"]
<1>1. /\ q \in Request /\ p \in Pump /\ s \in Seq(Event)
      /\ req \in [Requests -> Request] /\ out[r] = <<>> /\ <<>> \in Seq(Event)
      /\ FlowInv(q, <<>>, p, s, Number(r)) /\ HeldInv(q, <<>>, s) /\ CompletedInv(q, <<>>, s)
      /\ PumpInv(q, <<>>, p, s) /\ Number(r) = Len(attempts[r])
  BY OfStream DEF Over
<1>2. UNCHANGED <<pool, acct, changes, cursor, selecting, affinity, turn, req, out, attempts, seen>>
  BY DEF vars, accounts, selector
<1>3. IInv'
  BY <1>2, OfStream, OutKeeps DEF untouched, accounts, selector
<1>4. p.stage = "waiting" /\ q.stage = "returned"
  BY DEF In
<1>5. p1 \in Pump /\ p1.stage = "persisting" /\ p1.terminal = p.terminal /\ p1.frames = p.frames
      /\ p1.stored = p.stored
  BY <1>1 DEF Pump
<1>6. pump' = [pump EXCEPT ![r] = p1]
  OBVIOUS
<1> HIDE DEF q, p, s, p1
<1>7. FlowInv(q, <<>>, p1, s, Number(r))
  BY <1>1, <1>4, <1>5 DEF FlowInv, Done
<1>8. PumpInv(q, <<>>, p1, s)
  BY <1>1, <1>4, <1>5 DEF PumpInv, FramesInv
<1>9. /\ req' = [req EXCEPT ![r] = q] /\ out' = [out EXCEPT ![r] = <<>>]
      /\ seen' = [seen EXCEPT ![r] = s] /\ attempts' = [attempts EXCEPT ![r] = attempts[r]]
  BY <1>1, <1>2, OfStream DEF q, s
<1>10. StreamInv(q, <<>>, p1, s, Len(attempts[r]))
  BY <1>1, <1>7, <1>8 DEF StreamInv
<1>11. QED  BY <1>1, <1>3, <1>5, <1>6, <1>9, <1>10, StreamStep, ZenonT(30)

LEMMA PumpingStream ==
  ASSUME SInv, NEW r \in Requests, Pumping(r)
  PROVE  SInv'
<1>1. CASE Write(r)
  BY <1>1, WriteStream
<1>2. CASE EncoderThrows(r) \/ Break(r) \/ FinishThrows(r) \/ SourceThrew(r)
  BY <1>2, CatchStream DEF EncoderThrows, Break, FinishThrows, SourceThrew, In
<1>3. CASE Destroyed(r)
  BY <1>3, CatchStream DEF Destroyed, In
<1>4. CASE SourceReturned(r)
  <2>1. In(r, "waiting") /\ Over(r) /\ req[r].stage = "returned"
    BY <1>4 DEF SourceReturned
  <2>2. CASE Terminated(r)
    BY <1>4, <2>1, <2>2, CatchStream DEF SourceReturned, In
  <2>3. CASE ~Terminated(r)
    BY <1>4, <2>1, <2>3, PersistingStream DEF SourceReturned
  <2>4. QED  BY <2>2, <2>3
<1>5. CASE Persisted(r)
  BY <1>5, StreamAssumption, CloseStream DEF Persisted, In
<1>6. CASE PersistFails(r)
  BY <1>6, CatchStream DEF PersistFails, In
<1>7. QED  BY <1>1, <1>2, <1>3, <1>4, <1>5, <1>6 DEF Pumping

-----------------------------------------------------------------------------
(* Invariance. *)

\* The initial states, and every step.
LEMMA StreamInitInv ==
  ASSUME StreamInit
  PROVE  SInv
<1>1. IInv
  BY InitInv DEF StreamInit
<1>2. ASSUME NEW r \in Requests
      PROVE  /\ pump[r].stage = "none" /\ pump[r].terminal = "none" /\ ~pump[r].stored
             /\ pump[r].frames = <<>> /\ seen[r] = <<>> /\ out[r] = <<>> /\ req[r] = Fresh
             /\ pump[r] \in Pump
  BY <1>2 DEF StreamInit, Init, Pump
<1>3. pump \in [Requests -> Pump] /\ seen \in [Requests -> Seq(Event)]
  BY <1>2 DEF StreamInit
<1>4. ASSUME NEW r \in Requests
      PROVE  StreamInv(req[r], out[r], pump[r], seen[r], Number(r))
  <2>1. /\ Fresh.stage = "new" /\ Fresh.emitted = 0 /\ Fresh.buffered = <<>>
        /\ Fresh.outputStarted = FALSE /\ Fresh.terminal = FALSE
    BY DEF Fresh
  <2>2. FlowInv(Fresh, <<>>, pump[r], <<>>, Number(r))
    BY <1>2, <1>4, <2>1 DEF FlowInv, Numbered, Done
  <2>3. HeldInv(Fresh, <<>>, <<>>) /\ CompletedInv(Fresh, <<>>, <<>>)
    BY <2>1 DEF HeldInv, CompletedInv, Ends
  <2>4. PumpInv(Fresh, <<>>, pump[r], <<>>)
    BY <1>2, <1>4, <2>1 DEF PumpInv, FramesInv
  <2>5. QED  BY <1>2, <1>4, <2>2, <2>3, <2>4 DEF StreamInv
<1>5. QED  BY <1>1, <1>3, <1>4 DEF SInv

LEMMA StreamNextInv ==
  ASSUME SInv, [StreamNext]_allVars
  PROVE  SInv'
<1>1. IInv
  BY OfStream DEF SInv
<1>2. ASSUME IInv', UNCHANGED <<req, out, attempts, stream>>  PROVE SInv'
  BY <1>2 DEF SInv, stream, Number
<1>3. CASE Outside /\ UNCHANGED stream
  <2>1. IInv'
    BY <1>1, <1>3, OutsideStep DEF Kept
  <2>2. UNCHANGED <<req, out, attempts>>
    BY <1>3 DEF Outside, PauseOrResume, Refresh, Change, CooldownEnds, BindingExpires
  <2>3. QED  BY <1>2, <1>3, <2>1, <2>2
<1>4. ASSUME NEW r \in Requests, (Gateway(r) \/ Provider(r)) /\ UNCHANGED stream
      PROVE  SInv'
  <2>1. IInv'
    BY <1>1, <1>4, NextInv DEF Next, Kept
  <2>2. QED  BY <1>4, <2>1, AttemptStream
<1>5. CASE UNCHANGED allVars
  <2>1. UNCHANGED <<vars, stream>>
    BY <1>5 DEF allVars
  <2>2. IInv'
    BY <1>1, <2>1, NextInv DEF Kept
  <2>3. UNCHANGED <<req, out, attempts, stream>>
    BY <2>1 DEF vars
  <2>4. QED  BY <1>2, <2>2, <2>3
<1>6. QED  BY <1>3, <1>4, <1>5, BeginStream, PumpingStream, ResumeStream, TerminateStream
           DEF StreamNext

\* The invariant of the streams holds of every reachable state.
THEOREM StreamInvariance == StreamSpec => []SInv
<1>1. StreamInit => SInv
  BY StreamInitInv
<1>2. SInv /\ [StreamNext]_allVars => SInv'
  BY StreamNextInv
<1>3. QED  BY <1>1, <1>2, PTL DEF StreamSpec

-----------------------------------------------------------------------------
(* What follows. *)

\* Streams keep their types, and a closed one has released its timers and its
\* upstream.
THEOREM StreamTypeCorrect == StreamSpec => []StreamTypeOK
<1>1. SInv => StreamTypeOK
  <2>1. SUFFICES ASSUME SInv, NEW r \in Requests
                 PROVE  TypeOK /\ pump[r] \in Pump /\ seen[r] \in Seq(Event)
                        /\ (pump[r].stage = "closed" =>
                              /\ pump[r].terminal # "none" /\ pump[r].timer = "none"
                              /\ req[r].signal # "open")
    BY DEF StreamTypeOK, SInv, IInv
  <2>2. QED  BY <2>1, OfStream DEF IInv, PumpInv, ToldInv
<1>2. QED  BY <1>1, StreamInvariance, PTL

\* What a client is shown is one attempt, in order and without gap, however
\* many were made, and what is reported complete or stored is all of it.
THEOREM WholeAttempt == StreamSpec => []WholeAttemptShown
<1>1. SInv => OneAttemptVisible
  <2>1. SUFFICES ASSUME SInv, NEW r \in Requests
                 PROVE  /\ \A i \in DOMAIN seen[r] : seen[r][i].n = i /\ seen[r][i].attempt = Number(r)
                        /\ At(r, "returned") /\ In(r, "persisting") =>
                             seen[r][Len(seen[r])].kind = "completed"
    BY DEF OneAttemptVisible
  <2>2. /\ seen[r] \in Seq(Event) /\ Numbered(seen[r], 0, Number(r))
        /\ HeldInv(req[r], out[r], seen[r]) /\ CompletedInv(req[r], out[r], seen[r])
    BY <2>1, OfStream DEF FlowInv
  <2>3. ASSUME NEW i \in DOMAIN seen[r]  PROVE seen[r][i].n = i /\ seen[r][i].attempt = Number(r)
    <3>1. i \in 1..Len(seen[r]) /\ 0 + i = i
      BY <2>2, <2>3
    <3>2. QED  BY <2>2, <3>1 DEF Numbered
  <2>4. ASSUME At(r, "returned")  PROVE seen[r][Len(seen[r])].kind = "completed"
    <3>1. req[r].stage = "returned" /\ out[r] = <<>>
      BY <2>4 DEF At
    <3>2. req[r].buffered = <<>>
      BY <2>2, <3>1 DEF HeldInv, Ends
    <3>3. QED  BY <2>2, <3>1, <3>2 DEF CompletedInv, LastEvent
  <2>5. QED  BY <2>3, <2>4
<1>2. SInv => CompletedIsWhole
  <2>1. SUFFICES ASSUME SInv, NEW r \in Requests, pump[r].terminal = "completed" \/ pump[r].stored
                 PROVE  /\ req[r].stage = "returned"
                        /\ Current(r).outcomes = <<"success">>
                        /\ Len(pump[r].frames) = Len(seen[r])
                        /\ LastFrame(r) = "completed"
    BY DEF CompletedIsWhole
  <2>2. ToldInv(req[r], pump[r], seen[r])
    BY <2>1, OfStream DEF PumpInv, FramesInv
  <2>3. req[r].stage = "returned"
    BY <2>1, <2>2 DEF ToldInv
  <2>4. Current(r).outcomes = <<"success">>
    BY <2>1, <2>3, OfStream, OfRequest DEF StageInv
  <2>5. QED  BY <2>1, <2>2, <2>3, <2>4 DEF ToldInv, LastFrame, LastOf
<1>3. QED  BY <1>1, <1>2, StreamInvariance, PTL DEF WholeAttemptShown

\* A client is told how its stream ended, once and last.
THEOREM EndTold == StreamSpec => []EndIsTold
<1>1. SInv => EndIsTold
  <2>1. SUFFICES ASSUME SInv, NEW r \in Requests
                 PROVE  /\ \A i \in 1..(Len(pump[r].frames) - 1) : pump[r].frames[i] \notin {"error", "timeout"}
                        /\ In(r, "closed") /\ pump[r].terminal \in {"completed", "error"} =>
                             Speaks(r) /\ LastFrame(r) \in {"completed", "error"}
    BY DEF EndIsTold
  <2>2. /\ pump[r] \in Pump /\ PumpInv(req[r], out[r], pump[r], seen[r]) /\ seen[r] \in Seq(Event)
        /\ pump[r].frames \in Seq(Frame) /\ Len(pump[r].frames) \in Nat
    BY <2>1, OfStream, PumpValues
  <2>3. CASE pump[r].stage = "closed"
    <3>1. ToldInv(req[r], pump[r], seen[r])
      BY <2>2, <2>3 DEF PumpInv
    <3>2. Len(pump[r].frames) > 0 => pump[r].frames # <<>>
      BY <2>2
    <3>3. QED  BY <3>1, <3>2 DEF ToldInv, Speaks, LastFrame, LastOf
  <2>4. CASE pump[r].stage # "closed"
    <3>1. FramesInv(pump[r], seen[r])
      BY <2>2, <2>4 DEF PumpInv
    <3>2. ASSUME NEW i \in 1..(Len(pump[r].frames) - 1)
          PROVE  pump[r].frames[i] \notin {"error", "timeout"}
      <4>1. i \in 1..Len(seen[r])
        BY <2>2, <3>1, <3>2 DEF FramesInv
      <4>2. pump[r].frames[i] = seen[r][i].kind /\ seen[r][i] \in Event
        BY <2>2, <3>1, <4>1 DEF FramesInv
      <4>3. QED  BY <4>2 DEF Event
    <3>3. QED  BY <2>4, <3>2 DEF In
  <2>5. QED  BY <2>3, <2>4
<1>2. QED  BY <1>1, StreamInvariance, PTL

\* A client whose disconnect was noticed is written nothing more.
THEOREM Silent == StreamSpec => SilentAfterCancel
<1>1. ASSUME SInv, [StreamNext]_allVars, NEW r \in Requests, pump[r].terminal = "cancelled"
      PROVE  pump'[r].frames = pump[r].frames
  <2>1. pump \in [Requests -> Pump] /\ pump[r].frames \in Seq(Frame)
    BY <1>1, OfStream, PumpValues
  <2> DEFINE Keeps == pump'[r].frames = pump[r].frames
  <2>2. ASSUME NEW x \in Requests, NEW p \in Pump, pump' = [pump EXCEPT ![x] = p],
               p.frames = pump[x].frames
        PROVE  Keeps
    BY <2>1, <2>2
  <2>3. ASSUME NEW x \in Requests  PROVE pump[x] \in Pump
    BY <2>1
  <2>4. ASSUME NEW x \in Requests, NEW cleanEnd, NEW storing, NEW w \in {<<>>},
               Close(x, cleanEnd, w, storing)
        PROVE  Keeps
    <3>1. pump[r].frames \o <<>> = pump[r].frames
      BY <2>1
    <3>2. QED  BY <2>1, <2>4, <3>1 DEF Close
  <2>5. ASSUME NEW x \in Requests, Catch(x)
        PROVE  Keeps
    <3>1. CASE x = r
      <4>1. LastWords(pump[r].terminal) = <<>>
        BY <1>1 DEF LastWords
      <4>2. QED  BY <2>4, <2>5, <3>1, <4>1 DEF Catch
    <3>2. CASE x # r
      BY <2>1, <2>5, <3>2 DEF Catch, Close
    <3>3. QED  BY <3>1, <3>2
  <2>6. ASSUME NEW x \in Requests, Pumping(x)
        PROVE  Keeps
    <3>1. CASE Write(x)
      <4>1. x # r
        BY <1>1, <3>1 DEF Write, Terminated
      <4>2. QED  BY <2>1, <3>1, <4>1 DEF Write
    <3>2. CASE EncoderThrows(x) \/ FinishThrows(x) \/ SourceThrew(x) \/ PersistFails(x)
      BY <2>5, <3>2 DEF EncoderThrows, FinishThrows, SourceThrew, PersistFails
    <3>3. CASE Break(x) \/ Destroyed(x) \/ Persisted(x)
      BY <2>4, <3>3 DEF Break, Destroyed, Persisted
    <3>4. CASE SourceReturned(x)
      <4>1. CASE Terminated(x)
        BY <2>4, <3>4, <4>1 DEF SourceReturned
      <4>2. CASE ~Terminated(x)
        <5> DEFINE p == [pump[x] EXCEPT !.stage = "persisting"]
        <5>1. pump' = [pump EXCEPT ![x] = p]
          BY <3>4, <4>2 DEF SourceReturned
        <5>2. p \in Pump /\ p.frames = pump[x].frames
          BY <2>3 DEF Pump
        <5> HIDE DEF p
        <5>3. QED  BY <2>2, <5>1, <5>2
      <4>3. QED  BY <4>1, <4>2
    <3>5. QED  BY <2>6, <3>1, <3>2, <3>3, <3>4 DEF Pumping
  <2>7. ASSUME NEW x \in Requests, Begin(x) \/ Resume(x) \/ TimerFires(x) \/ ClientLeaves(x)
        PROVE  Keeps
    <3>1. CASE Begin(x)
      <4> DEFINE p == [pump[x] EXCEPT !.stage = "waiting", !.timer = "setup"]
      <4>1. pump' = [pump EXCEPT ![x] = p]
        BY <3>1 DEF Begin
      <4>2. p \in Pump /\ p.frames = pump[x].frames
        BY <2>3 DEF Pump
      <4> HIDE DEF p
      <4>3. QED  BY <2>2, <4>1, <4>2
    <3>2. CASE Resume(x)
      <4> DEFINE timer == IF Terminated(x) THEN "none" ELSE "idle"
                 p == [pump[x] EXCEPT !.stage = "waiting", !.timer = timer]
      <4>1. pump' = [pump EXCEPT ![x] = p]
        BY <3>2 DEF Resume
      <4>2. timer \in {"none", "idle"}
        OBVIOUS
      <4> HIDE DEF timer
      <4>3. p \in Pump /\ p.frames = pump[x].frames
        BY <2>3, <4>2 DEF Pump
      <4> HIDE DEF p
      <4>4. QED  BY <2>2, <4>1, <4>3
    <3>3. ASSUME NEW kind \in {"timeout", "cancelled"}, NEW why, Terminate(x, kind, why)
          PROVE  Keeps
      <4> DEFINE p == [pump[x] EXCEPT !.terminal = kind, !.timer = "none"]
      <4>1. pump' = [pump EXCEPT ![x] = p]
        BY <3>3 DEF Terminate
      <4>2. p \in Pump /\ p.frames = pump[x].frames
        BY <2>3, <3>3 DEF Pump
      <4> HIDE DEF p
      <4>3. QED  BY <2>2, <4>1, <4>2
    <3>4. QED  BY <2>7, <3>1, <3>2, <3>3 DEF TimerFires, ClientLeaves
  <2>8. CASE UNCHANGED stream
    BY <2>8 DEF stream
  <2>9. QED  BY <1>1, <2>6, <2>7, <2>8 DEF StreamNext, allVars, stream
<1>2. SInv /\ [StreamNext]_allVars =>
        [\A r \in Requests :
           pump[r].terminal = "cancelled" => pump'[r].frames = pump[r].frames]_allVars
  BY <1>1
<1>3. QED  BY <1>2, StreamInvariance, PTL DEF StreamSpec, SilentAfterCancel

\* Behind a pump, which may stop reading and leave at any point, a request's
\* attempts are bounded, accounted for and replayed as for any other consumer.
THEOREM StreamAttempts == StreamSpec => []AttemptsSound
<1>1. SInv => AttemptsSound
  BY AttemptsOf DEF SInv, AttemptsSound
<1>2. QED  BY <1>1, StreamInvariance, PTL

-----------------------------------------------------------------------------
(***************************************************************************)
(* Induction, and folds.  A theorem about every property cannot be used    *)
(* for one of them, a theorem about every set can.                         *)
(***************************************************************************)

\* A set of numbers that is not empty has a smallest one.
LEMMA SmallestOf ==
  ASSUME NEW T \in SUBSET Nat, T # {}
  PROVE  \E m \in T : \A y \in T : m <= y
<1> DEFINE below == {pair \in Nat \X Nat : pair[1] < pair[2]}
<1>1. IsWellFoundedOn(below, Nat)
  BY NatLessThanWellFounded, Zenon DEF OpToRel
<1>2. \A i, j \in Nat : <<j, i>> \notin below => i <= j
  OBVIOUS
<1> HIDE DEF below
<1>3. PICK m \in T : \A y \in T : <<y, m>> \notin below
  BY <1>1, WFMin
<1> QED
  BY <1>2, <1>3

\* Induction over a set of numbers.
LEMMA EveryNumber ==
  ASSUME NEW P, 0 \in P, \A n \in Nat : n \in P => n + 1 \in P
  PROVE  Nat \subseteq P
<1> DEFINE failing == Nat \ P
<1> SUFFICES ASSUME failing # {} PROVE FALSE
  OBVIOUS
<1>1. PICK m \in failing : \A y \in failing : m <= y
  <2>1. failing \in SUBSET Nat
    OBVIOUS
  <2> HIDE DEF failing
  <2> QED
    BY <2>1, SmallestOf
<1>2. m \in Nat /\ m # 0 /\ m - 1 \in Nat /\ ~(m <= m - 1)
  OBVIOUS
<1>3. m - 1 \in P
  BY <1>1, <1>2
<1> QED
  BY <1>2, <1>3

\* The operators that are folded, under one name: the value, then the element.
Step(op, x, y) == IF op = "capture" THEN Capture(x, y)
                  ELSE IF op = "read" THEN Read(x, y)
                  ELSE Encode(op, x, y)

\* The function that FoldLeft chooses.
IsFold(op, base, seq, n, iter) ==
  iter = [s \in SUBSET (1..n) |-> IF s = {} THEN base ELSE Step(op, iter[s \ {Max(s)}], seq[Max(s)])]

\* The largest of the first n numbers, and what is left without it.
LEMMA LargestOf ==
  ASSUME NEW n \in Nat \ {0}
  PROVE  Max(1..n) = n /\ (1..n) \ {Max(1..n)} = 1..(n - 1)
<1>1. n \in 1..n /\ \A y \in 1..n : n >= y
  OBVIOUS
<1>2. \A x \in 1..n : (\A y \in 1..n : x >= y) => x = n
  OBVIOUS
<1>3. Max(1..n) = n
  BY <1>1, <1>2 DEF Max
<1> QED
  BY <1>3

\* So is there of every set of such numbers.
LEMMA LargestIn ==
  ASSUME NEW n \in Nat, NEW s \in SUBSET (1..n)
  PROVE  /\ Cardinality(s) \in Nat /\ Cardinality(s) <= n
         /\ s # {} => /\ Max(s) \in s /\ Cardinality(s) > 0
                      /\ Cardinality(s \ {Max(s)}) = Cardinality(s) - 1
<1>1. IsFiniteSet(s) /\ Cardinality(s) <= n
  <2>1. IsFiniteSet(1..n) /\ Cardinality(1..n) = n
    BY FS_Interval
  <2>2. IsFiniteSet(s) /\ Cardinality(s) <= Cardinality(1..n)
    BY <2>1, FS_Subset
  <2> QED
    BY <2>1, <2>2
<1>2. Cardinality(s) \in Nat
  BY <1>1, FS_CardinalityType
<1>3. ASSUME s # {} PROVE Max(s) \in s
  <2> DEFINE T == {n - x : x \in s}
  <2>1. T \in SUBSET Nat /\ T # {}
    <3>1. \A x \in s : n - x \in Nat
      OBVIOUS
    <3> QED  BY <1>3, <3>1
  <2>2. PICK m \in T : \A y \in T : m <= y
    <3> HIDE DEF T
    <3> QED  BY <2>1, SmallestOf
  <2>3. PICK x \in s : m = n - x
    OBVIOUS
  <2>4. \A y \in s : x >= y
    BY <2>2, <2>3
  <2> QED
    BY <2>4 DEF Max
<1>4. ASSUME s # {} PROVE Cardinality(s) > 0 /\ Cardinality(s \ {Max(s)}) = Cardinality(s) - 1
  <2>1. Cardinality(s \ {Max(s)}) = Cardinality(s) - 1
    BY <1>1, <1>3, <1>4, FS_RemoveElement
  <2>2. Cardinality(s) # 0
    BY <1>1, <1>4, FS_EmptySet
  <2>3. QED  BY <1>2, <2>1, <2>2
<1> QED
  BY <1>1, <1>2, <1>3, <1>4

\* A fold over the sets of such numbers, the largest last, is a function.
LEMMA FoldExists ==
  ASSUME NEW op, NEW base, NEW seq, NEW n \in Nat
  PROVE  \E iter : IsFold(op, base, seq, n, iter)
<1> DEFINE Small(k) == {s \in SUBSET (1..n) : Cardinality(s) <= k}
           Following(g, s) == IF s = {} THEN base ELSE Step(op, g[s \ {Max(s)}], seq[Max(s)])
           P == {k \in Nat : \E g : \A s \in Small(k) : g[s] = Following(g, s)}
<1>1. 0 \in P
  <2> DEFINE g == [s \in SUBSET (1..n) |-> base]
  <2>1. ASSUME NEW s \in SUBSET (1..n), Cardinality(s) <= 0 PROVE s = {}
    <3>1. Cardinality(s) \in Nat /\ (s # {} => Cardinality(s) > 0)
      BY LargestIn
    <3> QED  BY <2>1, <3>1
  <2>2. \A s \in Small(0) : g[s] = Following(g, s)
    BY <2>1
  <2> QED  BY <2>2
<1>2. ASSUME NEW k \in Nat, k \in P PROVE k + 1 \in P
  <2>1. PICK g : \A s \in Small(k) : g[s] = Following(g, s)
    BY <1>2
  <2> DEFINE h == [s \in SUBSET (1..n) |-> Following(g, s)]
  <2>2. ASSUME NEW s \in Small(k + 1), s # {} PROVE h[s \ {Max(s)}] = g[s \ {Max(s)}]
    <3>1. s \ {Max(s)} \in Small(k)
      <4>1. s \in SUBSET (1..n) /\ Cardinality(s) <= k + 1
        OBVIOUS
      <4>2. Cardinality(s) \in Nat /\ Cardinality(s \ {Max(s)}) = Cardinality(s) - 1
        BY <2>2, <4>1, LargestIn
      <4>3. Cardinality(s) - 1 <= k
        BY <4>1, <4>2
      <4> QED  BY <4>1, <4>2, <4>3
    <3>2. s \ {Max(s)} \in SUBSET (1..n) /\ g[s \ {Max(s)}] = Following(g, s \ {Max(s)})
      BY <2>1, <3>1
    <3> HIDE DEF Following
    <3> QED  BY <3>2
  <2>3. ASSUME NEW s \in Small(k + 1) PROVE h[s] = Following(h, s)
    <3>1. CASE s = {}
      BY <3>1
    <3>2. CASE s # {}
      <4>1. h[s] = Step(op, g[s \ {Max(s)}], seq[Max(s)])
        BY <3>2
      <4> HIDE DEF h
      <4> QED  BY <2>2, <3>2, <4>1
    <3> QED  BY <3>1, <3>2
  <2> HIDE DEF h, Small, Following
  <2>4. \A s \in Small(k + 1) : h[s] = Following(h, s)
    BY <2>3
  <2> QED  BY <2>4
<1>3. n \in P
  <2> HIDE DEF P
  <2> QED  BY <1>1, <1>2, EveryNumber
<1>4. PICK g : \A s \in Small(n) : g[s] = Following(g, s)
  BY <1>3
<1>5. \A s \in SUBSET (1..n) : s \in Small(n)
  <2> SUFFICES ASSUME NEW s \in SUBSET (1..n) PROVE s \in Small(n)
    OBVIOUS
  <2>1. Cardinality(s) <= n
    BY LargestIn
  <2> QED  BY <2>1
<1> DEFINE iter == [s \in SUBSET (1..n) |-> g[s]]
<1>6. ASSUME NEW s \in SUBSET (1..n) PROVE g[s] = Following(iter, s)
  <2>1. g[s] = Following(g, s)
    BY <1>4, <1>5
  <2>2. s # {} => iter[s \ {Max(s)}] = g[s \ {Max(s)}]
    OBVIOUS
  <2> HIDE DEF iter
  <2> QED  BY <2>1, <2>2
<1>7. iter = [s \in SUBSET (1..n) |-> Following(iter, s)]
  <2> HIDE DEF Following
  <2>1. \A s \in SUBSET (1..n) : g[s] = Following(iter, s)
    BY <1>6
  <2> QED  BY <2>1, Zenon
<1> QED
  BY <1>7, Zenon DEF IsFold

\* A fold of a sequence, element by element.
Leads(op, base, seq, result) ==
  \E n \in Nat : \E after :
    /\ DOMAIN seq = 1..n
    /\ after[0] = base /\ after[n] = result
    /\ \A k \in 0..(n - 1) : after[k + 1] = Step(op, after[k], seq[k + 1])

\* A fold of the community modules goes through its sequence step by step.
LEMMA FoldLeads ==
  ASSUME NEW op, NEW base, NEW seq, NEW n \in Nat, DOMAIN seq = 1..n, NEW iter,
         IsFold(op, base, seq, n, iter)
  PROVE  Leads(op, base, seq, iter[1..n])
<1>4. ASSUME NEW s \in SUBSET (1..n)
      PROVE  iter[s] = IF s = {} THEN base ELSE Step(op, iter[s \ {Max(s)}], seq[Max(s)])
  BY Zenon DEF IsFold
<1>5. 1..0 = {}
  OBVIOUS
<1>1. iter[1..0] = base
  BY <1>4, <1>5
<1>2. ASSUME NEW k \in 0..(n - 1)
      PROVE  iter[1..(k + 1)] = Step(op, iter[1..k], seq[k + 1])
  <2>1. k + 1 \in Nat \ {0} /\ (k + 1) - 1 = k /\ 1..(k + 1) \in SUBSET (1..n) /\ 1..(k + 1) # {}
    <3>1. k \in Int /\ 0 <= k /\ k + 1 <= n
      OBVIOUS
    <3>2. 1 \in 1..(k + 1)
      BY <3>1
    <3>3. \A x \in 1..(k + 1) : x \in 1..n
      BY <3>1
    <3>4. 1..(k + 1) # {}
      BY <3>2
    <3>5. 1..(k + 1) \in SUBSET (1..n)
      BY <3>3, Zenon
    <3>6. k + 1 \in Nat \ {0} /\ (k + 1) - 1 = k
      BY <3>1
    <3> QED  BY <3>4, <3>5, <3>6
  <2>2. Max(1..(k + 1)) = k + 1 /\ (1..(k + 1)) \ {Max(1..(k + 1))} = 1..k
    BY <2>1, LargestOf
  <2> QED  BY <1>4, <2>1, <2>2, Zenon
<1> DEFINE after == [k \in 0..n |-> iter[1..k]]
<1>3. /\ after[0] = base /\ after[n] = iter[1..n]
      /\ \A k \in 0..(n - 1) : after[k + 1] = Step(op, after[k], seq[k + 1])
  BY <1>1, <1>2
<1> HIDE DEF after
<1> QED
  BY <1>3 DEF Leads

\* An encoder takes a chunk's events in order.
LEMMA EncodeLeads ==
  ASSUME NEW protocol \in {"anthropic", "responses"}, NEW coder, NEW events, NEW n \in Nat,
         DOMAIN events = 1..n
  PROVE  Leads(protocol, [coder EXCEPT !.frames = <<>>], events, EncodeAll(protocol, coder, events))
<1> DEFINE base == [coder EXCEPT !.frames = <<>>]
           iter == CHOOSE iter : iter = [s \in SUBSET (1..n) |->
                     IF s = {} THEN base ELSE Encode(protocol, iter[s \ {Max(s)}], events[Max(s)])]
<1>1. EncodeAll(protocol, coder, events) = iter[1..n]
  BY Zenon DEF EncodeAll, FoldLeft, MapThenFoldSet
<1>2. \A x, y : Step(protocol, x, y) = Encode(protocol, x, y)
  BY DEF Step
<1> HIDE DEF base
<1>3. ASSUME NEW f
      PROVE  IsFold(protocol, base, events, n, f) =>
               f = [s \in SUBSET (1..n) |->
                      IF s = {} THEN base ELSE Encode(protocol, f[s \ {Max(s)}], events[Max(s)])]
  BY <1>2 DEF IsFold
<1>4. \E f : IsFold(protocol, base, events, n, f)
  BY FoldExists
<1>5. iter = [s \in SUBSET (1..n) |->
                IF s = {} THEN base ELSE Encode(protocol, iter[s \ {Max(s)}], events[Max(s)])]
  BY <1>3, <1>4, Zenon
<1> HIDE DEF iter
<1>6. IsFold(protocol, base, events, n, iter)
  BY <1>2, <1>5 DEF IsFold
<1>7. Leads(protocol, base, events, iter[1..n])
  BY <1>6, FoldLeads
<1> QED
  BY <1>1, <1>7 DEF base

\* A client takes the frames in order.
LEMMA ReadLeads ==
  ASSUME NEW view, NEW frames, NEW n \in Nat, DOMAIN frames = 1..n
  PROVE  Leads("read", view, frames, FoldLeft(Read, view, frames))
<1> DEFINE iter == CHOOSE iter : iter = [s \in SUBSET (1..n) |->
                     IF s = {} THEN view ELSE Read(iter[s \ {Max(s)}], frames[Max(s)])]
<1>1. FoldLeft(Read, view, frames) = iter[1..n]
  BY Zenon DEF FoldLeft, MapThenFoldSet
<1>2. \A x, y : Step("read", x, y) = Read(x, y)
  BY DEF Step
<1>3. ASSUME NEW f
      PROVE  IsFold("read", view, frames, n, f) =>
               f = [s \in SUBSET (1..n) |->
                      IF s = {} THEN view ELSE Read(f[s \ {Max(s)}], frames[Max(s)])]
  BY <1>2 DEF IsFold
<1>4. \E f : IsFold("read", view, frames, n, f)
  BY FoldExists
<1>5. iter = [s \in SUBSET (1..n) |->
                IF s = {} THEN view ELSE Read(iter[s \ {Max(s)}], frames[Max(s)])]
  BY <1>3, <1>4, Zenon
<1> HIDE DEF iter
<1>6. IsFold("read", view, frames, n, iter)
  BY <1>2, <1>5 DEF IsFold
<1>7. Leads("read", view, frames, iter[1..n])
  BY <1>6, FoldLeads
<1> QED
  BY <1>1, <1>7

\* The rail takes the items of a body in order.
LEMMA CaptureLeads ==
  ASSUME NEW artifacts, NEW items, NEW n \in Nat, DOMAIN items = 1..n
  PROVE  Leads("capture", artifacts, items, FoldLeft(Capture, artifacts, items))
<1> DEFINE iter == CHOOSE iter : iter = [s \in SUBSET (1..n) |->
                     IF s = {} THEN artifacts ELSE Capture(iter[s \ {Max(s)}], items[Max(s)])]
<1>1. FoldLeft(Capture, artifacts, items) = iter[1..n]
  BY Zenon DEF FoldLeft, MapThenFoldSet
<1>2. \A x, y : Step("capture", x, y) = Capture(x, y)
  BY DEF Step
<1>3. ASSUME NEW f
      PROVE  IsFold("capture", artifacts, items, n, f) =>
               f = [s \in SUBSET (1..n) |->
                      IF s = {} THEN artifacts ELSE Capture(f[s \ {Max(s)}], items[Max(s)])]
  BY <1>2 DEF IsFold
<1>4. \E f : IsFold("capture", artifacts, items, n, f)
  BY FoldExists
<1>5. iter = [s \in SUBSET (1..n) |->
                IF s = {} THEN artifacts ELSE Capture(iter[s \ {Max(s)}], items[Max(s)])]
  BY <1>3, <1>4, Zenon
<1> HIDE DEF iter
<1>6. IsFold("capture", artifacts, items, n, iter)
  BY <1>2, <1>5 DEF IsFold
<1>7. Leads("capture", artifacts, items, iter[1..n])
  BY <1>6, FoldLeads
<1> QED
  BY <1>1, <1>7

\* A fold has one result.
LEMMA LeadsOnce ==
  ASSUME NEW op, NEW base, NEW seq, NEW x, NEW y, Leads(op, base, seq, x), Leads(op, base, seq, y)
  PROVE  x = y
<1>21. PICK n \in Nat : \E f : /\ DOMAIN seq = 1..n /\ f[0] = base /\ f[n] = x
                               /\ \A k \in 0..(n - 1) : f[k + 1] = Step(op, f[k], seq[k + 1])
  BY Zenon DEF Leads
<1>1. PICK f : /\ DOMAIN seq = 1..n /\ f[0] = base /\ f[n] = x
               /\ \A k \in 0..(n - 1) : f[k + 1] = Step(op, f[k], seq[k + 1])
  BY <1>21, Zenon
<1>22. PICK m \in Nat : \E g : /\ DOMAIN seq = 1..m /\ g[0] = base /\ g[m] = y
                               /\ \A k \in 0..(m - 1) : g[k + 1] = Step(op, g[k], seq[k + 1])
  BY Zenon DEF Leads
<1>2. PICK g : /\ DOMAIN seq = 1..m /\ g[0] = base /\ g[m] = y
               /\ \A k \in 0..(m - 1) : g[k + 1] = Step(op, g[k], seq[k + 1])
  BY <1>22, Zenon
<1>3. m = n
  BY <1>1, <1>2
<1> DEFINE P == {k \in Nat : k <= n => f[k] = g[k]}
<1>4. 0 \in P
  BY <1>1, <1>2
<1>5. ASSUME NEW k \in Nat, k \in P PROVE k + 1 \in P
  <2> SUFFICES ASSUME k + 1 <= n PROVE f[k + 1] = g[k + 1]
    OBVIOUS
  <2>1. k \in 0..(n - 1) /\ f[k] = g[k]
    BY <1>5
  <2> QED
    BY <1>1, <1>2, <1>3, <2>1
<1>6. n \in P
  <2> HIDE DEF P
  <2> QED  BY <1>4, <1>5, EveryNumber
<1> QED
  BY <1>1, <1>2, <1>3, <1>6

\* A sequence of whatever there is in it.
IsSeq(seq) == \E S : seq \in Seq(S)

\* Sequences whose elements have no set of their own.
LEMMA Sequenced ==
  ASSUME NEW seq, IsSeq(seq)
  PROVE  Len(seq) \in Nat /\ DOMAIN seq = 1..Len(seq)
BY LenProperties DEF IsSeq

LEMMA Joined ==
  ASSUME NEW s, NEW t, IsSeq(s), IsSeq(t)
  PROVE  /\ IsSeq(s \o t) /\ Len(s \o t) = Len(s) + Len(t)
         /\ \A i \in 1..Len(s) : (s \o t)[i] = s[i]
         /\ \A i \in 1..Len(t) : (s \o t)[Len(s) + i] = t[i]
<1>1. PICK S : s \in Seq(S)
  BY DEF IsSeq
<1>2. PICK T : t \in Seq(T)
  BY DEF IsSeq
<1>3. s \in Seq(S \cup T) /\ t \in Seq(S \cup T)
  BY <1>1, <1>2
<1>4. Len(s) \in Nat /\ Len(t) \in Nat
  BY <1>1, <1>2
<1> QED
  BY <1>3, <1>4, ConcatProperties DEF IsSeq

LEMMA JoinedTwice ==
  ASSUME NEW s, NEW t, NEW u, IsSeq(s), IsSeq(t), IsSeq(u)
  PROVE  (s \o t) \o u = s \o (t \o u)
<1>1. PICK S, T, U : s \in Seq(S) /\ t \in Seq(T) /\ u \in Seq(U)
  BY DEF IsSeq
<1>2. s \in Seq(S \cup T \cup U) /\ t \in Seq(S \cup T \cup U) /\ u \in Seq(S \cup T \cup U)
  BY <1>1
<1> QED
  BY <1>2, ConcatAssociative

LEMMA JoinedLast ==
  ASSUME NEW s, NEW e, IsSeq(s)
  PROVE  Append(s, e) = s \o <<e>> /\ s \o <<>> = s /\ <<>> \o s = s
<1>1. PICK S : s \in Seq(S)
  BY DEF IsSeq
<1>2. s \in Seq(S \cup {e}) /\ e \in S \cup {e}
  BY <1>1
<1> QED
  BY <1>2, AppendIsConcat

LEMMA JoinedAppend ==
  ASSUME NEW s, NEW t, NEW e, IsSeq(s), IsSeq(t)
  PROVE  Append(s \o t, e) = s \o (t \o <<e>>)
<1>1. IsSeq(<<e>>)
  <2>1. <<e>> \in Seq({e})
    OBVIOUS
  <2> QED  BY <2>1 DEF IsSeq
<1>2. IsSeq(s \o t)
  BY Joined
<1> DEFINE u == <<e>>
<1>3. Append(s \o t, e) = (s \o t) \o u
  BY <1>2, JoinedLast
<1>4. IsSeq(u)
  BY <1>1
<1> HIDE DEF u
<1>5. (s \o t) \o u = s \o (t \o u)
  BY <1>4, JoinedTwice, SMTT(30)
<1> QED
  BY <1>3, <1>5 DEF u

\* What leads from one value to the next, and on from there.
LEMMA LeadsOn ==
  ASSUME NEW op, NEW s, NEW t, NEW x, NEW y, NEW z, IsSeq(s), IsSeq(t),
         Leads(op, x, s, y), Leads(op, y, t, z)
  PROVE  Leads(op, x, s \o t, z)
<1>21. PICK n \in Nat : \E f : /\ DOMAIN s = 1..n /\ f[0] = x /\ f[n] = y
                               /\ \A k \in 0..(n - 1) : f[k + 1] = Step(op, f[k], s[k + 1])
  BY Zenon DEF Leads
<1>1. PICK f : /\ DOMAIN s = 1..n /\ f[0] = x /\ f[n] = y
               /\ \A k \in 0..(n - 1) : f[k + 1] = Step(op, f[k], s[k + 1])
  BY <1>21, Zenon
<1>22. PICK m \in Nat : \E g : /\ DOMAIN t = 1..m /\ g[0] = y /\ g[m] = z
                               /\ \A k \in 0..(m - 1) : g[k + 1] = Step(op, g[k], t[k + 1])
  BY Zenon DEF Leads
<1>2. PICK g : /\ DOMAIN t = 1..m /\ g[0] = y /\ g[m] = z
               /\ \A k \in 0..(m - 1) : g[k + 1] = Step(op, g[k], t[k + 1])
  BY <1>22, Zenon
<1>3. n = Len(s) /\ m = Len(t)
  BY <1>1, <1>2, Sequenced
<1>4. /\ DOMAIN (s \o t) = 1..(n + m)
      /\ \A i \in 1..n : (s \o t)[i] = s[i]
      /\ \A i \in 1..m : (s \o t)[n + i] = t[i]
  BY <1>3, Joined, Sequenced
<1> DEFINE h == [k \in 0..(n + m) |-> IF k <= n THEN f[k] ELSE g[k - n]]
<1>5. h[0] = x /\ h[n + m] = z
  <2>1. CASE m = 0
    BY <1>1, <1>2, <2>1
  <2>2. CASE m > 0
    <3>1. ~(n + m <= n) /\ (n + m) - n = m /\ n + m \in 0..(n + m) /\ 0 \in 0..(n + m) /\ 0 <= n
      BY <2>2
    <3> QED  BY <1>1, <1>2, <3>1
  <2> QED  BY <2>1, <2>2
<1>6. ASSUME NEW k \in 0..((n + m) - 1) PROVE h[k + 1] = Step(op, h[k], (s \o t)[k + 1])
  <2>1. CASE k < n
    <3>1. h[k + 1] = f[k + 1] /\ h[k] = f[k] /\ (s \o t)[k + 1] = s[k + 1] /\ k \in 0..(n - 1)
      BY <1>4, <2>1
    <3> QED  BY <1>1, <3>1
  <2>2. CASE k >= n
    <3> DEFINE j == k - n
    <3>1. j \in 0..(m - 1) /\ k = n + j /\ k + 1 = n + (j + 1) /\ j + 1 \in 1..m
      BY <2>2
    <3>2. h[k + 1] = g[j + 1]
      <4>1. ~(k + 1 <= n) /\ (k + 1) - n = j + 1 /\ k + 1 \in 0..(n + m)
        BY <2>2
      <4> HIDE DEF j
      <4> QED  BY <4>1
    <3>4. (s \o t)[k + 1] = t[j + 1]
      <4> HIDE DEF j
      <4> QED  BY <1>4, <3>1
    <3>3. h[k] = g[j]
      BY <1>1, <1>2, <2>2
    <3> HIDE DEF h, j
    <3> QED  BY <1>2, <3>1, <3>2, <3>3, <3>4
  <2>3. k < n \/ k >= n
    OBVIOUS
  <2> HIDE DEF h
  <2> QED  BY <2>1, <2>2, <2>3
<1> HIDE DEF h
<1>7. n + m \in Nat
  OBVIOUS
<1> DEFINE length == n + m
<1>8. /\ DOMAIN (s \o t) = 1..length /\ h[0] = x /\ h[length] = z /\ length \in Nat
      /\ \A k \in 0..(length - 1) : h[k + 1] = Step(op, h[k], (s \o t)[k + 1])
  BY <1>4, <1>5, <1>6, <1>7
<1> HIDE DEF length
<1>9. \E after : /\ DOMAIN (s \o t) = 1..length /\ after[0] = x /\ after[length] = z
                 /\ \A k \in 0..(length - 1) : after[k + 1] = Step(op, after[k], (s \o t)[k + 1])
  BY <1>8, Zenon
<1>10. \E number \in Nat : \E after :
         /\ DOMAIN (s \o t) = 1..number
         /\ after[0] = x /\ after[number] = z
         /\ \A k \in 0..(number - 1) : after[k + 1] = Step(op, after[k], (s \o t)[k + 1])
  BY <1>8, <1>9, Zenon
<1> QED
  BY <1>10, Zenon DEF Leads

LEMMA LeadsNowhere ==
  ASSUME NEW op, NEW x
  PROVE  Leads(op, x, <<>>, x) /\ IsSeq(<<>>)
<1>1. DOMAIN <<>> = 1..0 /\ <<>> \in Seq({})
  OBVIOUS
<1> DEFINE f == [k \in {0} |-> x]
<1>2. f[0] = x /\ 0 \in Nat /\ \A k \in 0..(0 - 1) : f[k + 1] = Step(op, f[k], <<>>[k + 1])
  OBVIOUS
<1> HIDE DEF f
<1> QED
  BY <1>1, <1>2 DEF Leads, IsSeq

LEMMA LeadsOne ==
  ASSUME NEW op, NEW x, NEW e
  PROVE  Leads(op, x, <<e>>, Step(op, x, e)) /\ IsSeq(<<e>>)
<1>1. DOMAIN <<e>> = 1..1 /\ <<e>> \in Seq({e}) /\ <<e>>[1] = e
  OBVIOUS
<1> DEFINE f == [k \in 0..1 |-> IF k = 0 THEN x ELSE Step(op, x, e)]
<1>2. f[0] = x /\ f[1] = Step(op, x, e) /\ 1 \in Nat
  OBVIOUS
<1>3. \A k \in 0..(1 - 1) : f[k + 1] = Step(op, f[k], <<e>>[k + 1])
  <2>1. \A k \in 0..(1 - 1) : k = 0 /\ k + 1 = 1
    OBVIOUS
  <2> HIDE DEF f
  <2> QED  BY <1>1, <1>2, <2>1
<1> HIDE DEF f
<1> QED
  BY <1>1, <1>2, <1>3 DEF Leads, IsSeq

\* The finite functions on the first numbers are the sequences.
LEMMA SequenceOf ==
  ASSUME NEW n \in Nat, NEW S, NEW s \in [1..n -> S]
  PROVE  IsSeq(s) /\ Len(s) = n
<1>1. s \in Seq(S) /\ Len(s) = n
  OBVIOUS
<1> QED
  BY <1>1 DEF IsSeq

\* A sequence without its last element.
LEMMA LastApart ==
  ASSUME NEW s, IsSeq(s), NEW k \in Nat, Len(s) = k + 1
  PROVE  LET front == [j \in 1..k |-> s[j]]
         IN IsSeq(front) /\ Len(front) = k /\ s = front \o <<s[k + 1]>>
<1> DEFINE front == [j \in 1..k |-> s[j]]
<1>1. PICK S : s \in Seq(S)
  BY DEF IsSeq
<1>2. front \in Seq(S) /\ Len(front) = k
  <2>1. \A j \in 1..k : s[j] \in S
    BY <1>1
  <2>2. front \in [1..k -> S]
    BY <2>1
  <2> QED  BY <2>2, IsASeq
<1>3. <<s[k + 1]>> \in Seq(S) /\ Len(<<s[k + 1]>>) = 1
  BY <1>1
<1>4. front \o <<s[k + 1]>> \in Seq(S) /\ Len(front \o <<s[k + 1]>>) = k + 1
  BY <1>2, <1>3
<1>5. \A j \in 1..(k + 1) : (front \o <<s[k + 1]>>)[j] = s[j]
  <2> SUFFICES ASSUME NEW j \in 1..(k + 1) PROVE (front \o <<s[k + 1]>>)[j] = s[j]
    OBVIOUS
  <2>1. CASE j <= k
    <3>1. (front \o <<s[k + 1]>>)[j] = front[j] /\ front[j] = s[j]
      BY <1>2, <1>3, <2>1, ConcatProperties
    <3> QED  BY <3>1
  <2>2. CASE j = k + 1
    <3> HIDE DEF front
    <3>1. (front \o <<s[k + 1]>>)[k + 1] = <<s[k + 1]>>[1]
      BY <1>2, <1>3, ConcatProperties
    <3> QED  BY <2>2, <3>1
  <2>3. QED  BY <2>1, <2>2
<1> HIDE DEF front
<1>6. s = front \o <<s[k + 1]>>
  BY <1>1, <1>4, <1>5, SeqEqual
<1> QED
  BY <1>2, <1>6 DEF front, IsSeq

-----------------------------------------------------------------------------
(***************************************************************************)
(* What a function of numbers lists, in their order, and sequences joined. *)
(***************************************************************************)

IndexAt(D, k) == CHOOSE index \in D : Cardinality({other \in D : other <= index}) = k

\* The indices of an answer in order: each once, and all of them.
LEMMA Ranked ==
  ASSUME NEW D \in SUBSET Nat, IsFiniteSet(D)
  PROVE  /\ Cardinality(D) \in Nat
         /\ \A k \in 1..Cardinality(D) : IndexAt(D, k) \in D
         /\ \A j, k \in 1..Cardinality(D) : IndexAt(D, j) = IndexAt(D, k) => j = k
         /\ D = {IndexAt(D, k) : k \in 1..Cardinality(D)}
         /\ \A k \in 1..Cardinality(D) : Cardinality({other \in D : other <= IndexAt(D, k)}) = k
         /\ \A index \in D : IndexAt(D, Cardinality({other \in D : other <= index})) = index
<1> DEFINE n == Cardinality(D)
           Below(index) == {other \in D : other <= index}
           rank == [index \in D |-> Cardinality(Below(index))]
<1>1. n \in Nat /\ IsFiniteSet(1..n) /\ Cardinality(1..n) = n
  BY FS_CardinalityType, FS_Interval
<1>2. ASSUME NEW index \in D
      PROVE  IsFiniteSet(Below(index)) /\ rank[index] \in 1..n
  <2>1. Below(index) \in SUBSET D /\ index \in Below(index)
    OBVIOUS
  <2>2. IsFiniteSet(Below(index)) /\ Cardinality(Below(index)) <= n
    BY <2>1, FS_Subset
  <2>3. Cardinality(Below(index)) \in Nat /\ Cardinality(Below(index)) # 0
    BY <2>1, <2>2, FS_CardinalityType, FS_EmptySet
  <2> QED  BY <1>1, <2>2, <2>3
<1>3. ASSUME NEW x \in D, NEW y \in D, x < y
      PROVE  rank[x] # rank[y]
  <2>1. x \in Nat /\ y \in Nat
    OBVIOUS
  <2>2. \A z \in Below(x) : z \in Below(y)
    BY <1>3, <2>1
  <2>3. y \in Below(y) /\ y \notin Below(x)
    BY <1>3, <2>1
  <2>4. rank[x] = Cardinality(Below(x)) /\ rank[y] = Cardinality(Below(y)) /\ IsFiniteSet(Below(y))
    BY <1>2
  <2> HIDE DEF Below, rank
  <2> QED  BY <2>2, <2>3, <2>4, FS_Subset
<1>4. rank \in Injection(D, 1..n)
  <2>1. \A x, y \in D : rank[x] = rank[y] => x = y
    <3> HIDE DEF rank
    <3>1. \A x, y \in D : x = y \/ x < y \/ y < x
      OBVIOUS
    <3> QED  BY <1>3, <3>1
  <2>2. rank \in [D -> 1..n]
    <3>1. rank = [index \in D |-> rank[index]]
      OBVIOUS
    <3> HIDE DEF rank
    <3> QED  BY <1>2, <3>1
  <2> HIDE DEF rank
  <2> QED  BY <2>1, <2>2 DEF Injection, IsInjective
<1>5. rank \in Surjection(D, 1..n)
  <2> HIDE DEF rank
  <2> QED  BY <1>1, <1>4, FS_Injection
<1>6. ASSUME NEW k \in 1..n
      PROVE  IndexAt(D, k) \in D /\ rank[IndexAt(D, k)] = k
  <2>1. \E index \in D : Cardinality(Below(index)) = k
    <3>1. \E index \in D : rank[index] = k
      <4> HIDE DEF rank
      <4> QED  BY <1>5 DEF Surjection
    <3> QED  BY <3>1
  <2> QED  BY <2>1 DEF IndexAt
<1>7. ASSUME NEW index \in D
      PROVE  IndexAt(D, rank[index]) = index
  <2> HIDE DEF rank
  <2> QED  BY <1>2, <1>4, <1>6 DEF Injection, IsInjective
<1>8. \A index \in D : rank[index] = Cardinality({other \in D : other <= index})
  OBVIOUS
<1> HIDE DEF rank
<1> QED
  BY <1>1, <1>2, <1>6, <1>7, <1>8

\* InOrder lists the items by their indices.
LEMMA OrderOf ==
  ASSUME NEW items, DOMAIN items \in SUBSET Nat, IsFiniteSet(DOMAIN items)
  PROVE  /\ IsSeq(InOrder(items)) /\ Len(InOrder(items)) = Cardinality(DOMAIN items)
         /\ \A k \in 1..Cardinality(DOMAIN items) : InOrder(items)[k] = items[IndexAt(DOMAIN items, k)]
<1> DEFINE n == Cardinality(DOMAIN items)
           S == {items[index] : index \in DOMAIN items}
           seq == InOrder(items)
<1>1. seq = [k \in 1..n |-> items[IndexAt(DOMAIN items, k)]]
  BY DEF InOrder, IndexAt
<1>2. n \in Nat /\ \A k \in 1..n : IndexAt(DOMAIN items, k) \in DOMAIN items
  BY Ranked
<1> HIDE DEF seq
<1>3. seq \in [1..n -> S]
  BY <1>1, <1>2
<1> HIDE DEF S
<1>4. IsSeq(seq) /\ Len(seq) = n
  <2> HIDE DEF n
  <2> QED  BY <1>2, <1>3, SequenceOf
<1> QED
  BY <1>1, <1>4 DEF seq

\* Sequences joined one after another.
IsFlat(seqs, n, flat) == flat = [i \in 1..n |-> IF i = 1 THEN seqs[i] ELSE flat[i - 1] \o seqs[i]]

\* Flattening, by induction over the number of sequences.
LEMMA FlatExists ==
  ASSUME NEW seqs, NEW n \in Nat
  PROVE  \E flat : IsFlat(seqs, n, flat)
<1> DEFINE Following(g, i) == IF i = 1 THEN seqs[i] ELSE g[i - 1] \o seqs[i]
           P == {k \in Nat : \E g : g = [i \in 1..k |-> Following(g, i)]}
<1>1. 0 \in P
  <2> DEFINE g == [i \in 1..0 |-> {}]
  <2>1. g = [i \in 1..0 |-> Following(g, i)]
    OBVIOUS
  <2> HIDE DEF g, Following
  <2> QED  BY <2>1
<1>2. ASSUME NEW k \in Nat, k \in P PROVE k + 1 \in P
  <2>1. PICK g : g = [i \in 1..k |-> Following(g, i)]
    BY <1>2
  <2> DEFINE h == [i \in 1..(k + 1) |-> Following(g, i)]
  <2>2. ASSUME NEW i \in 1..(k + 1), i # 1
        PROVE  h[i - 1] = g[i - 1]
    <3>1. i - 1 \in 1..k /\ i - 1 \in 1..(k + 1)
      BY <2>2
    <3>2. g[i - 1] = Following(g, i - 1)
      <4> HIDE DEF Following
      <4> QED  BY <2>1, <3>1
    <3>3. h[i - 1] = Following(g, i - 1)
      <4> HIDE DEF Following
      <4> QED  BY <3>1
    <3> QED  BY <3>2, <3>3
  <2>3. ASSUME NEW i \in 1..(k + 1)
        PROVE  Following(g, i) = Following(h, i)
    <3> HIDE DEF h
    <3> QED  BY <2>2
  <2>4. h = [i \in 1..(k + 1) |-> Following(h, i)]
    <3> DEFINE H == [i \in 1..(k + 1) |-> Following(h, i)]
    <3>1. \A i \in 1..(k + 1) : h[i] = H[i]
      <4> HIDE DEF Following
      <4> QED  BY <2>3
    <3> HIDE DEF Following
    <3> QED  BY <3>1
  <2> HIDE DEF h, Following
  <2> QED  BY <2>4
<1>3. n \in P
  <2> HIDE DEF P
  <2> QED  BY <1>1, <1>2, EveryNumber
<1> QED
  BY <1>3 DEF IsFlat

\* FlattenSeq returns that flattening.
LEMMA FlattenIs ==
  ASSUME NEW seqs, IsSeq(seqs), Len(seqs) # 0
  PROVE  \E flat : IsFlat(seqs, Len(seqs), flat) /\ FlattenSeq(seqs) = flat[Len(seqs)]
<1> DEFINE n == Len(seqs)
           flatten == CHOOSE flatten : flatten = [i \in 1..n |-> IF i = 1 THEN seqs[i] ELSE flatten[i - 1] \o seqs[i]]
<1>1. FlattenSeq(seqs) = flatten[n]
  BY Zenon DEF FlattenSeq
<1>2. n \in Nat
  BY Sequenced
<1>3. \E f : f = [i \in 1..n |-> IF i = 1 THEN seqs[i] ELSE f[i - 1] \o seqs[i]]
  <2>1. \E f : IsFlat(seqs, n, f)
    <3> HIDE DEF n
    <3> QED  BY <1>2, FlatExists
  <2> HIDE DEF n
  <2> QED  BY <2>1 DEF IsFlat
<1>4. flatten = [i \in 1..n |-> IF i = 1 THEN seqs[i] ELSE flatten[i - 1] \o seqs[i]]
  BY <1>3, Zenon
<1> HIDE DEF flatten
<1> QED
  BY <1>1, <1>4 DEF IsFlat

-----------------------------------------------------------------------------
(***************************************************************************)
(* Items chosen from a sequence, in its order.                             *)
(***************************************************************************)

\* Two sequences are the same if their elements are.
LEMMA SameSeq ==
  ASSUME NEW s, NEW t, IsSeq(s), IsSeq(t), Len(s) = Len(t), \A i \in 1..Len(s) : s[i] = t[i]
  PROVE  s = t
<1>1. PICK S, T : s \in Seq(S) /\ t \in Seq(T)
  BY DEF IsSeq
<1>2. s \in Seq(S \cup T) /\ t \in Seq(S \cup T)
  BY <1>1
<1> QED
  BY <1>2, SeqEqual

\* A function on the first numbers is a sequence.
LEMMA ListedSeq ==
  ASSUME NEW n \in Nat, NEW f, f = [i \in 1..n |-> f[i]]
  PROVE  IsSeq(f) /\ Len(f) = n
<1>1. f \in [1..n -> {f[i] : i \in 1..n}]
  BY Zenon
<1> QED
  BY <1>1, SequenceOf

\* What is added last comes last.
LEMMA InOrderMore ==
  ASSUME NEW f, DOMAIN f \in SUBSET Nat, IsFiniteSet(DOMAIN f),
         NEW m \in Nat, \A i \in DOMAIN f : i < m, NEW e
  PROVE  InOrder(Put(f, m, e)) = InOrder(f) \o <<e>>
<1> DEFINE D == DOMAIN f
           n == Cardinality(D)
           E == D \cup {m}
           g == Put(f, m, e)
<1>1. /\ DOMAIN g = E /\ g[m] = e /\ \A i \in D : g[i] = f[i]
  <2>1. \A i \in D : i # m
    OBVIOUS
  <2> QED  BY <2>1 DEF Put
<1>2. m \notin D /\ E \in SUBSET Nat /\ IsFiniteSet(E) /\ Cardinality(E) = n + 1 /\ n \in Nat
  <2>1. m \notin D
    OBVIOUS
  <2> QED  BY <2>1, FS_AddElement, FS_CardinalityType
<1>3. ASSUME NEW k \in 1..n
      PROVE  IndexAt(E, k) = IndexAt(D, k) /\ IndexAt(D, k) \in D
  <2> DEFINE x == IndexAt(D, k)
  <2>1. x \in D /\ Cardinality({other \in D : other <= x}) = k
    <3> HIDE DEF D, n
    <3>1. D \in SUBSET Nat /\ IsFiniteSet(D)
      BY DEF D
    <3> QED  BY <3>1, Ranked DEF n
  <2> HIDE DEF x
  <2>2. {other \in E : other <= x} = {other \in D : other <= x}
    <3>1. x \in Nat /\ x < m
      BY <2>1
    <3> QED  BY <3>1
  <2> HIDE DEF D, E, n
  <2>3. x \in E
    BY <2>1 DEF E
  <2>4. IndexAt(E, k) = x
    BY <1>2, <2>1, <2>2, <2>3, Ranked
  <2> QED  BY <2>1, <2>4 DEF x
<1>4. IndexAt(E, n + 1) = m
  <2>1. {other \in E : other <= m} = E
    OBVIOUS
  <2> HIDE DEF D, E, n
  <2>2. m \in E
    BY DEF E
  <2> QED  BY <1>2, <2>1, <2>2, Ranked
<1>5. /\ IsSeq(InOrder(g)) /\ Len(InOrder(g)) = n + 1
      /\ \A k \in 1..(n + 1) : InOrder(g)[k] = g[IndexAt(E, k)]
  <2> HIDE DEF D, E, n, g
  <2> QED  BY <1>1, <1>2, OrderOf
<1>6. /\ IsSeq(InOrder(f)) /\ Len(InOrder(f)) = n
      /\ \A k \in 1..n : InOrder(f)[k] = f[IndexAt(D, k)]
  BY OrderOf
<1>7. IsSeq(<<e>>) /\ Len(<<e>>) = 1 /\ <<e>>[1] = e
  <2>1. <<e>> \in Seq({e})
    OBVIOUS
  <2> QED  BY <2>1 DEF IsSeq
<1> HIDE DEF D, E, n, g
<1> DEFINE s == InOrder(g)
           t == InOrder(f)
<1> HIDE DEF s, t
<1>8. /\ IsSeq(t \o <<e>>) /\ Len(t \o <<e>>) = n + 1
      /\ \A k \in 1..n : (t \o <<e>>)[k] = t[k]
      /\ (t \o <<e>>)[n + 1] = e
  <2>1. IsSeq(t) /\ Len(t) = n
    BY <1>6 DEF t
  <2> QED  BY <1>7, <2>1, Joined
<1>9. \A k \in 1..(n + 1) : s[k] = (t \o <<e>>)[k]
  <2> SUFFICES ASSUME NEW k \in 1..(n + 1) PROVE s[k] = (t \o <<e>>)[k]
    OBVIOUS
  <2>1. CASE k \in 1..n
    BY <1>1, <1>3, <1>5, <1>6, <1>8, <2>1 DEF s, t
  <2>2. CASE k = n + 1
    BY <1>1, <1>2, <1>4, <1>5, <1>8, <2>2 DEF s
  <2>3. n \in Nat
    BY <1>2
  <2>4. k \in 1..n \/ k = n + 1
    BY <2>3
  <2> QED  BY <2>1, <2>2, <2>4
<1> QED
  BY <1>5, <1>8, <1>9, SameSeq DEF s, t, g

\* The elements of a sequence that are wanted.
Drawn(s, wanted) == InOrder(Restrict(s, {i \in DOMAIN s : s[i] \in wanted}))

\* The wanted elements of a sequence are a sequence, and all of them.
LEMMA ChosenSeq ==
  ASSUME NEW s, IsSeq(s), NEW W
  PROVE  /\ IsSeq(Drawn(s, W))
         /\ \A k \in 1..Len(Drawn(s, W)) : Drawn(s, W)[k] \in W /\ \E i \in 1..Len(s) : Drawn(s, W)[k] = s[i]
         /\ \A i \in 1..Len(s) : s[i] \in W => \E k \in 1..Len(Drawn(s, W)) : Drawn(s, W)[k] = s[i]
<1> DEFINE D == {i \in DOMAIN s : s[i] \in W}
           f == Restrict(s, D)
<1>1. Len(s) \in Nat /\ DOMAIN s = 1..Len(s)
  BY Sequenced
<1>2. DOMAIN f = D /\ \A i \in D : f[i] = s[i]
  BY DEF Restrict
<1>3. D \in SUBSET Nat /\ IsFiniteSet(D)
  <2>1. IsFiniteSet(1..Len(s))
    BY <1>1, FS_Interval
  <2>2. D \in SUBSET (1..Len(s))
    BY <1>1
  <2> QED  BY <2>1, <2>2, FS_Subset
<1>4. \A i \in D : i \in 1..Len(s) /\ s[i] \in W
  BY <1>1
<1>5. \A i \in 1..Len(s) : s[i] \in W => i \in D
  BY <1>1
<1> HIDE DEF D, f
<1>6. /\ IsSeq(InOrder(f)) /\ Len(InOrder(f)) = Cardinality(D)
      /\ \A k \in 1..Cardinality(D) : InOrder(f)[k] = f[IndexAt(D, k)]
  BY <1>2, <1>3, OrderOf
<1>7. /\ \A k \in 1..Cardinality(D) : IndexAt(D, k) \in D
      /\ D = {IndexAt(D, k) : k \in 1..Cardinality(D)}
  BY <1>3, Ranked
<1>8. Drawn(s, W) = InOrder(f)
  BY DEF Drawn, D, f
<1> QED
  BY <1>2, <1>4, <1>5, <1>6, <1>7, <1>8

\* There are none in the empty sequence.
LEMMA ChosenNone ==
  ASSUME NEW W
  PROVE  Drawn(<<>>, W) = <<>>
<1>1. {i \in DOMAIN <<>> : <<>>[i] \in W} = {}
  OBVIOUS
<1>2. Cardinality({}) = 0 /\ IsFiniteSet({})
  BY FS_EmptySet
<1> DEFINE f == Restrict(<<>>, {i \in DOMAIN <<>> : <<>>[i] \in W})
<1>3. DOMAIN f = {}
  BY <1>1 DEF Restrict
<1> HIDE DEF f
<1>4. IsSeq(InOrder(f)) /\ Len(InOrder(f)) = 0
  BY <1>2, <1>3, OrderOf
<1>5. InOrder(f) = <<>>
  BY <1>4 DEF IsSeq
<1> QED
  BY <1>5 DEF Drawn, f

\* An element added last comes last, if it is wanted.
LEMMA ChosenMore ==
  ASSUME NEW s, IsSeq(s), NEW e, NEW W
  PROVE  Drawn(s \o <<e>>, W) = IF e \in W THEN Drawn(s, W) \o <<e>> ELSE Drawn(s, W)
<1> DEFINE n == Len(s)
           t == s \o <<e>>
           D == {i \in DOMAIN s : s[i] \in W}
           E == {i \in DOMAIN t : t[i] \in W}
           f == Restrict(s, D)
           g == Restrict(t, E)
<1>1. n \in Nat /\ DOMAIN s = 1..n
  BY Sequenced
<1>2. IsSeq(<<e>>) /\ Len(<<e>>) = 1 /\ <<e>>[1] = e
  <2>1. <<e>> \in Seq({e})
    OBVIOUS
  <2> QED  BY <2>1 DEF IsSeq
<1>3. /\ DOMAIN t = 1..(n + 1) /\ t[n + 1] = e /\ \A i \in 1..n : t[i] = s[i]
  <2>1. /\ IsSeq(t) /\ Len(t) = n + 1 /\ \A i \in 1..n : t[i] = s[i]
        /\ t[n + 1] = e
    BY <1>1, <1>2, Joined
  <2> HIDE DEF t, n
  <2> QED  BY <2>1, Sequenced
<1>4. D \in SUBSET (1..n) /\ D \in SUBSET Nat /\ IsFiniteSet(D)
  <2>1. IsFiniteSet(1..n)
    BY <1>1, FS_Interval
  <2>2. D \in SUBSET (1..n) /\ D \in SUBSET Nat
    BY <1>1
  <2> QED  BY <2>1, <2>2, FS_Subset
<1>5. DOMAIN f = D /\ (\A i \in D : f[i] = s[i]) /\ DOMAIN g = E /\ g = [i \in E |-> t[i]]
  BY DEF Restrict
<1>6. CASE e \in W
  <2>1. E = D \cup {n + 1}
    <3> HIDE DEF t, n
    <3>1. \A i : i \in 1..(n + 1) <=> i \in 1..n \/ i = n + 1
      BY <1>1
    <3> QED  BY <1>1, <1>3, <1>6, <3>1
  <2>2. g = Put(f, n + 1, e)
    <3> HIDE DEF D, E, f, g, t, n
    <3>1. \A i \in D : i # n + 1 /\ t[i] = f[i]
      BY <1>1, <1>3, <1>4, <1>5
    <3> QED  BY <1>3, <1>5, <2>1, <3>1 DEF Put
  <2>3. \A i \in D : i < n + 1
    BY <1>1, <1>4
  <2>4. n + 1 \in Nat
    BY <1>1
  <2> HIDE DEF D, E, f, g, n
  <2>5. InOrder(Put(f, n + 1, e)) = InOrder(f) \o <<e>>
    BY <1>4, <1>5, <2>3, <2>4, InOrderMore
  <2> QED  BY <1>6, <2>2, <2>5 DEF Drawn, f, g, D, E, t
<1>7. CASE e \notin W
  <2>1. E = D
    <3> HIDE DEF t, n
    <3>1. \A i : i \in 1..(n + 1) <=> i \in 1..n \/ i = n + 1
      BY <1>1
    <3> QED  BY <1>1, <1>3, <1>7, <3>1
  <2>2. g = f
    <3>1. \A i \in D : t[i] = s[i]
      BY <1>3, <1>4
    <3> HIDE DEF D, E, t
    <3> QED  BY <2>1, <3>1 DEF Restrict
  <2> QED  BY <1>7, <2>2 DEF Drawn
<1> QED
  BY <1>6, <1>7

\* The same, for every set of wanted elements.
LEMMA ChosenLast ==
  ASSUME NEW s, IsSeq(s), NEW e
  PROVE  \A W : Drawn(s \o <<e>>, W) = IF e \in W THEN Drawn(s, W) \o <<e>> ELSE Drawn(s, W)
BY ChosenMore

\* What is wanted of two sequences joined is what is wanted of each.
LEMMA ChosenJoined ==
  ASSUME NEW s, NEW t, IsSeq(s), IsSeq(t), NEW W
  PROVE  Drawn(s \o t, W) = Drawn(s, W) \o Drawn(t, W)
<1> DEFINE P == {k \in Nat : \A u : IsSeq(u) /\ Len(u) = k =>
                   Drawn(s \o u, W) = Drawn(s, W) \o Drawn(u, W)}
<1>1. 0 \in P
  <2> SUFFICES ASSUME NEW u, IsSeq(u), Len(u) = 0
               PROVE  Drawn(s \o u, W) = Drawn(s, W) \o Drawn(u, W)
    OBVIOUS
  <2>1. u = <<>>
    BY DEF IsSeq
  <2>2. s \o <<>> = s /\ Drawn(s, W) \o <<>> = Drawn(s, W)
    BY ChosenSeq, JoinedLast
  <2> QED  BY <2>1, <2>2, ChosenNone
<1>2. ASSUME NEW k \in Nat, k \in P PROVE k + 1 \in P
  <2> SUFFICES ASSUME NEW u, IsSeq(u), Len(u) = k + 1
               PROVE  Drawn(s \o u, W) = Drawn(s, W) \o Drawn(u, W)
    OBVIOUS
  <2> DEFINE front == [j \in 1..k |-> u[j]]
             last == u[k + 1]
  <2>1. IsSeq(front) /\ Len(front) = k /\ u = front \o <<last>>
    BY LastApart
  <2>2. Drawn(s \o front, W) = Drawn(s, W) \o Drawn(front, W)
    BY <1>2, <2>1
  <2>3. IsSeq(<<last>>)
    BY LeadsOne
  <2> HIDE DEF front, last
  <2>4. s \o u = (s \o front) \o <<last>> /\ IsSeq(s \o front)
    BY <2>1, <2>3, JoinedTwice, Joined
  <2> DEFINE both == s \o front
  <2>5. Drawn(both \o <<last>>, W) = IF last \in W THEN Drawn(both, W) \o <<last>> ELSE Drawn(both, W)
    <3>1. IsSeq(both)
      BY <2>4
    <3> HIDE DEF both
    <3> QED  BY <3>1, ChosenMore
  <2>6. Drawn(u, W) = IF last \in W THEN Drawn(front, W) \o <<last>> ELSE Drawn(front, W)
    <3>1. IsSeq(front)
      BY <2>1
    <3>2. Drawn(front \o <<last>>, W) = IF last \in W THEN Drawn(front, W) \o <<last>> ELSE Drawn(front, W)
      BY <3>1, ChosenMore
    <3> QED  BY <2>1, <3>2
  <2>7. (Drawn(s, W) \o Drawn(front, W)) \o <<last>> = Drawn(s, W) \o (Drawn(front, W) \o <<last>>)
    <3> DEFINE former == Drawn(s, W)
               latter == Drawn(front, W)
    <3>1. IsSeq(former) /\ IsSeq(latter)
      BY <2>1, ChosenSeq
    <3> HIDE DEF former, latter
    <3>2. (former \o latter) \o <<last>> = former \o (latter \o <<last>>)
      BY <2>3, <3>1, JoinedTwice, SMTT(30)
    <3> QED  BY <3>2 DEF former, latter
  <2> QED  BY <2>2, <2>4, <2>5, <2>6, <2>7
<1>3. Len(t) \in Nat
  BY Sequenced
<1>4. Len(t) \in P
  <2> HIDE DEF P
  <2> QED  BY <1>1, <1>2, <1>3, EveryNumber
<1> QED
  BY <1>4

\* Drawn twice is chosen once, for both.
LEMMA ChosenTwice ==
  ASSUME NEW s, IsSeq(s), NEW V, NEW W, NEW X, \A x : x \in X <=> x \in V /\ x \in W
  PROVE  Drawn(Drawn(s, V), W) = Drawn(s, X)
<1> DEFINE P == {k \in Nat : \A u : IsSeq(u) /\ Len(u) = k => Drawn(Drawn(u, V), W) = Drawn(u, X)}
<1>1. 0 \in P
  <2> SUFFICES ASSUME NEW u, IsSeq(u), Len(u) = 0
               PROVE  Drawn(Drawn(u, V), W) = Drawn(u, X)
    OBVIOUS
  <2>1. u = <<>>
    BY DEF IsSeq
  <2> QED  BY <2>1, ChosenNone
<1>2. ASSUME NEW k \in Nat, k \in P PROVE k + 1 \in P
  <2> SUFFICES ASSUME NEW u, IsSeq(u), Len(u) = k + 1
               PROVE  Drawn(Drawn(u, V), W) = Drawn(u, X)
    OBVIOUS
  <2> DEFINE front == [j \in 1..k |-> u[j]]
             last == u[k + 1]
  <2>1. IsSeq(front) /\ Len(front) = k /\ u = front \o <<last>>
    BY LastApart
  <2>2. Drawn(Drawn(front, V), W) = Drawn(front, X)
    BY <1>2, <2>1
  <2> HIDE DEF front, last
  <2>3. Drawn(u, V) = IF last \in V THEN Drawn(front, V) \o <<last>> ELSE Drawn(front, V)
    <3>1. IsSeq(front)
      BY <2>1
    <3>2. Drawn(front \o <<last>>, V) = IF last \in V THEN Drawn(front, V) \o <<last>> ELSE Drawn(front, V)
      BY <3>1, ChosenMore
    <3> QED  BY <2>1, <3>2
  <2>4. Drawn(u, X) = IF last \in X THEN Drawn(front, X) \o <<last>> ELSE Drawn(front, X)
    <3>1. \A Z : Drawn(u, Z) = IF last \in Z THEN Drawn(front, Z) \o <<last>> ELSE Drawn(front, Z)
      <4>1. \A Z : Drawn(front \o <<last>>, Z) = IF last \in Z THEN Drawn(front, Z) \o <<last>> ELSE Drawn(front, Z)
        BY <2>1, ChosenLast
      <4> QED  BY <2>1, <4>1
    <3> QED  BY <3>1, Zenon
  <2> DEFINE first == Drawn(front, V)
  <2>5. Drawn(first \o <<last>>, W) = IF last \in W THEN Drawn(first, W) \o <<last>> ELSE Drawn(first, W)
    <3>1. IsSeq(first)
      BY <2>1, ChosenSeq
    <3> HIDE DEF first
    <3> QED  BY <3>1, ChosenMore
  <2> HIDE DEF first
  <2>6. CASE last \in V
    <3>1. Drawn(u, V) = first \o <<last>>
      BY <2>3, <2>6 DEF first
    <3>2. CASE last \in W
      <4>1. last \in X
        BY <2>6, <3>2
      <4> QED  BY <2>2, <2>4, <2>5, <3>1, <3>2, <4>1 DEF first
    <3>3. CASE last \notin W
      <4>1. last \notin X
        BY <3>3
      <4> QED  BY <2>2, <2>4, <2>5, <3>1, <3>3, <4>1 DEF first
    <3> QED  BY <3>2, <3>3
  <2>7. CASE last \notin V
    BY <2>2, <2>3, <2>4, <2>7
  <2> QED  BY <2>6, <2>7
<1>3. Len(s) \in Nat
  BY Sequenced
<1>4. Len(s) \in P
  <2> HIDE DEF P
  <2> QED  BY <1>1, <1>2, <1>3, EveryNumber
<1> QED
  BY <1>4

\* Elements at the same places, of a sequence that has others there.
\* Two sequences of which the same elements were chosen.
Paired(s, t, inS, inT) ==
  /\ Len(inS) = Len(inT)
  /\ \A k \in 1..Len(inS) : \E i \in 1..Len(s) : inS[k] = s[i] /\ inT[k] = t[i]

\* Sequences of which the same places are wanted have the wanted ones in pairs.
LEMMA ChosenAlike ==
  ASSUME NEW s, NEW t, IsSeq(s), IsSeq(t), Len(s) = Len(t), NEW V, NEW W,
         \A i \in 1..Len(s) : s[i] \in V <=> t[i] \in W
  PROVE  Paired(s, t, Drawn(s, V), Drawn(t, W))
<1> DEFINE D == {i \in DOMAIN s : s[i] \in V}
           f == Restrict(s, D)
           g == Restrict(t, D)
<1>1. Len(s) \in Nat /\ DOMAIN s = 1..Len(s) /\ DOMAIN t = 1..Len(s)
  BY Sequenced
<1>2. D = {i \in DOMAIN t : t[i] \in W}
  BY <1>1
<1>3. D \in SUBSET (1..Len(s)) /\ D \in SUBSET Nat /\ IsFiniteSet(D)
  <2>1. IsFiniteSet(1..Len(s))
    BY <1>1, FS_Interval
  <2>2. D \in SUBSET (1..Len(s)) /\ D \in SUBSET Nat
    BY <1>1
  <2> QED  BY <2>1, <2>2, FS_Subset
<1>4. DOMAIN f = D /\ DOMAIN g = D /\ \A i \in D : f[i] = s[i] /\ g[i] = t[i]
  BY DEF Restrict
<1>5. Drawn(s, V) = InOrder(f) /\ Drawn(t, W) = InOrder(g)
  <2>1. Drawn(s, V) = InOrder(f)
    BY DEF Drawn
  <2>2. Drawn(t, W) = InOrder(g)
    <3> HIDE DEF D
    <3> QED  BY <1>2 DEF Drawn
  <2> QED  BY <2>1, <2>2
<1> HIDE DEF D, f, g
<1>6. /\ Len(InOrder(f)) = Cardinality(D) /\ Len(InOrder(g)) = Cardinality(D)
      /\ \A k \in 1..Cardinality(D) : InOrder(f)[k] = f[IndexAt(D, k)] /\ InOrder(g)[k] = g[IndexAt(D, k)]
  BY <1>3, <1>4, OrderOf
<1>7. \A k \in 1..Cardinality(D) : IndexAt(D, k) \in D
  BY <1>3, Ranked
<1> QED
  BY <1>3, <1>4, <1>5, <1>6, <1>7 DEF Paired

-----------------------------------------------------------------------------
(***************************************************************************)
(* Sequences of sequences, one after another.                              *)
(***************************************************************************)

Splits(s, x, y) ==
  /\ IsSeq(s) /\ IsSeq(x) /\ IsSeq(y) /\ Len(s) = Len(x) + Len(y)
  /\ \A i \in 1..Len(x) : s[i] = x[i]
  /\ \A i \in 1..Len(y) : s[Len(x) + i] = y[i]

\* A sequence that splits is the two joined.
LEMMA SplitSeq ==
  ASSUME NEW s, NEW x, NEW y, Splits(s, x, y)
  PROVE  s = x \o y
<1> USE DEF Splits
<1>1. /\ Len(x) \in Nat /\ Len(y) \in Nat /\ IsSeq(x \o y) /\ Len(x \o y) = Len(x) + Len(y)
      /\ \A i \in 1..Len(x) : (x \o y)[i] = x[i]
      /\ \A i \in 1..Len(y) : (x \o y)[Len(x) + i] = y[i]
  BY Joined, Sequenced
<1>2. ASSUME NEW i \in 1..Len(s)
      PROVE  s[i] = (x \o y)[i]
  <2>1. CASE i <= Len(x)
    <3>1. i \in 1..Len(x)
      BY <1>1, <2>1
    <3> QED  BY <1>1, <3>1
  <2>2. CASE ~(i <= Len(x))
    <3> DEFINE j == i - Len(x)
    <3>1. j \in 1..Len(y) /\ i = Len(x) + j
      BY <1>1, <2>2
    <3> HIDE DEF j
    <3> QED  BY <1>1, <3>1
  <2> QED  BY <2>1, <2>2
<1> QED
  BY <1>1, <1>2, SameSeq

\* Two joined sequences split.
LEMMA JoinedSplits ==
  ASSUME NEW s, NEW x, IsSeq(s), IsSeq(x)
  PROVE  Splits(s \o x, s, x)
BY Joined DEF Splits

\* A sequence is the one before its last element, and that.
LEMMA SplitLast ==
  ASSUME NEW s, NEW y, NEW e, IsSeq(s), IsSeq(y), Len(s) = Len(y) + 1, s[Len(y) + 1] = e,
         \A i \in 1..Len(y) : s[i] = y[i]
  PROVE  s = y \o <<e>>
<1> DEFINE k == Len(y)
           front == [j \in 1..k |-> s[j]]
<1>1. k \in Nat
  BY Sequenced
<1>2. IsSeq(front) /\ Len(front) = k /\ s = front \o <<s[k + 1]>>
  BY <1>1, LastApart
<1>3. \A i \in 1..k : front[i] = y[i]
  OBVIOUS
<1> HIDE DEF front
<1>4. front = y
  BY <1>2, <1>3, SameSeq
<1> QED
  BY <1>2, <1>4

\* Induction over sequences: what is said of the empty one and of one element more.
SeqsOf(seqs) == IsSeq(seqs) /\ \A i \in 1..Len(seqs) : IsSeq(seqs[i])

\* Sequences of sequences alike up to some place are joined alike up to it.
LEMMA FlatAlike ==
  ASSUME NEW a, NEW b, NEW n \in Nat, NEW m \in Nat, NEW f, NEW g, IsFlat(a, n, f), IsFlat(b, m, g),
         NEW k \in Nat, k <= n, k <= m, \A i \in 1..k : a[i] = b[i]
  PROVE  \A i \in 1..k : f[i] = g[i]
<1> DEFINE P == {j \in Nat : j \in 1..k => f[j] = g[j]}
<1>1. 0 \in P
  OBVIOUS
<1>2. ASSUME NEW j \in Nat, j \in P PROVE j + 1 \in P
  <2> SUFFICES ASSUME j + 1 \in 1..k PROVE f[j + 1] = g[j + 1]
    OBVIOUS
  <2>1. j + 1 \in 1..n /\ j + 1 \in 1..m /\ a[j + 1] = b[j + 1] /\ (j + 1) - 1 = j
    OBVIOUS
  <2>2. f[j + 1] = (IF j + 1 = 1 THEN a[j + 1] ELSE f[(j + 1) - 1] \o a[j + 1])
    <3>1. \A i \in 1..n : f[i] = (IF i = 1 THEN a[i] ELSE f[i - 1] \o a[i])
      BY DEF IsFlat
    <3> QED  BY <2>1, <3>1
  <2>3. g[j + 1] = (IF j + 1 = 1 THEN b[j + 1] ELSE g[(j + 1) - 1] \o b[j + 1])
    <3>1. \A i \in 1..m : g[i] = (IF i = 1 THEN b[i] ELSE g[i - 1] \o b[i])
      BY DEF IsFlat
    <3> QED  BY <2>1, <3>1
  <2>4. CASE j = 0
    BY <2>1, <2>2, <2>3, <2>4
  <2>5. CASE j # 0
    <3>1. j \in 1..k /\ j + 1 # 1
      BY <2>5
    <3>2. f[j] = g[j]
      BY <1>2, <3>1
    <3> QED  BY <2>1, <2>2, <2>3, <3>1, <3>2
  <2> QED  BY <2>4, <2>5
<1>3. Nat \subseteq P
  <2> HIDE DEF P
  <2> QED  BY <1>1, <1>2, EveryNumber
<1> QED
  BY <1>3

\* Nothing is joined to nothing.
LEMMA FlatNone ==
  FlattenSeq(<<>>) = <<>>
<1>1. Len(<<>>) = 0
  OBVIOUS
<1> QED
  BY <1>1 DEF FlattenSeq

\* A sequence added last is joined last (FlattenSeq).
LEMMA FlatMore ==
  ASSUME NEW seqs, IsSeq(seqs), NEW last, IsSeq(last)
  PROVE  FlattenSeq(seqs \o <<last>>) = FlattenSeq(seqs) \o last
<1> DEFINE n == Len(seqs)
           all == seqs \o <<last>>
<1>1. n \in Nat /\ IsSeq(all) /\ Len(all) = n + 1 /\ all[n + 1] = last /\ \A i \in 1..n : all[i] = seqs[i]
  <2>1. IsSeq(<<last>>) /\ Len(<<last>>) = 1 /\ <<last>>[1] = last
    BY LeadsOne
  <2>2. n \in Nat
    BY Sequenced
  <2> QED  BY <2>1, <2>2, Joined
<1> HIDE DEF n, all
<1>2. PICK g : IsFlat(all, n + 1, g) /\ FlattenSeq(all) = g[n + 1]
  <2>1. Len(all) # 0
    BY <1>1
  <2> QED  BY <1>1, <2>1, FlattenIs
<1>3. g[n + 1] = IF n + 1 = 1 THEN last ELSE g[n] \o last
  <2>1. \A i \in 1..(n + 1) : g[i] = (IF i = 1 THEN all[i] ELSE g[i - 1] \o all[i])
    BY <1>2 DEF IsFlat
  <2>2. n + 1 \in 1..(n + 1) /\ (n + 1) - 1 = n
    BY <1>1
  <2> QED  BY <1>1, <2>1, <2>2
<1>4. CASE n = 0
  <2>1. seqs = <<>>
    BY <1>4 DEF n, IsSeq
  <2>2. <<>> \o last = last
    BY JoinedLast
  <2>3. FlattenSeq(all) = last
    BY <1>2, <1>3, <1>4
  <2>4. FlattenSeq(seqs) \o last = last
    BY <2>1, <2>2, FlatNone
  <2> QED  BY <2>3, <2>4 DEF all
<1>5. CASE n # 0
  <2>1. PICK f : IsFlat(seqs, n, f) /\ FlattenSeq(seqs) = f[n]
    BY <1>5, FlattenIs DEF n
  <2>2. \A i \in 1..n : g[i] = f[i]
    <3>1. n + 1 \in Nat /\ n <= n + 1 /\ n <= n
      BY <1>1
    <3> QED  BY <1>1, <1>2, <2>1, <3>1, FlatAlike
  <2>3. n \in 1..n /\ n + 1 # 1
    BY <1>1, <1>5
  <2> QED  BY <1>2, <1>3, <2>1, <2>2, <2>3 DEF all
<1> QED
  BY <1>4, <1>5

\* Sequences are joined to a sequence.
LEMMA FlatSeq ==
  ASSUME NEW seqs, SeqsOf(seqs)
  PROVE  IsSeq(FlattenSeq(seqs))
<1> DEFINE P == {k \in Nat : \A u : SeqsOf(u) /\ Len(u) = k => IsSeq(FlattenSeq(u))}
<1>1. 0 \in P
  <2> SUFFICES ASSUME NEW u, SeqsOf(u), Len(u) = 0 PROVE IsSeq(FlattenSeq(u))
    OBVIOUS
  <2>1. u = <<>>
    BY DEF SeqsOf, IsSeq
  <2> QED  BY <2>1, FlatNone, LeadsNowhere
<1>2. ASSUME NEW k \in Nat, k \in P PROVE k + 1 \in P
  <2> SUFFICES ASSUME NEW u, SeqsOf(u), Len(u) = k + 1 PROVE IsSeq(FlattenSeq(u))
    OBVIOUS
  <2> DEFINE front == [j \in 1..k |-> u[j]]
             last == u[k + 1]
  <2>1. IsSeq(front) /\ Len(front) = k /\ u = front \o <<last>>
    BY LastApart DEF SeqsOf
  <2>2. SeqsOf(front) /\ IsSeq(last)
    <3>1. k + 1 \in 1..Len(u) /\ \A j \in 1..k : j \in 1..Len(u) /\ front[j] = u[j]
      OBVIOUS
    <3> HIDE DEF front
    <3> QED  BY <2>1, <3>1 DEF SeqsOf
  <2> HIDE DEF front, last
  <2>3. IsSeq(FlattenSeq(front))
    BY <1>2, <2>1, <2>2
  <2>4. FlattenSeq(u) = FlattenSeq(front) \o last
    BY <2>1, <2>2, FlatMore
  <2> QED  BY <2>2, <2>3, <2>4, Joined
<1>3. Len(seqs) \in Nat
  BY Sequenced DEF SeqsOf
<1>4. Len(seqs) \in P
  <2> HIDE DEF P
  <2> QED  BY <1>1, <1>2, <1>3, EveryNumber
<1> QED
  BY <1>4

\* What two lists of sequences are joined to, joined.
LEMMA FlatJoined ==
  ASSUME NEW a, NEW b, SeqsOf(a), SeqsOf(b)
  PROVE  FlattenSeq(a \o b) = FlattenSeq(a) \o FlattenSeq(b)
<1> DEFINE P == {k \in Nat : \A u : SeqsOf(u) /\ Len(u) = k =>
                   FlattenSeq(a \o u) = FlattenSeq(a) \o FlattenSeq(u)}
<1>0. IsSeq(a) /\ IsSeq(FlattenSeq(a))
  BY FlatSeq DEF SeqsOf
<1>1. 0 \in P
  <2> SUFFICES ASSUME NEW u, SeqsOf(u), Len(u) = 0
               PROVE  FlattenSeq(a \o u) = FlattenSeq(a) \o FlattenSeq(u)
    OBVIOUS
  <2>1. u = <<>>
    BY DEF SeqsOf, IsSeq
  <2>2. a \o <<>> = a /\ FlattenSeq(a) \o <<>> = FlattenSeq(a)
    BY <1>0, JoinedLast
  <2> QED  BY <2>1, <2>2, FlatNone
<1>2. ASSUME NEW k \in Nat, k \in P PROVE k + 1 \in P
  <2> SUFFICES ASSUME NEW u, SeqsOf(u), Len(u) = k + 1
               PROVE  FlattenSeq(a \o u) = FlattenSeq(a) \o FlattenSeq(u)
    OBVIOUS
  <2> DEFINE front == [j \in 1..k |-> u[j]]
             last == u[k + 1]
  <2>1. IsSeq(front) /\ Len(front) = k /\ u = front \o <<last>>
    BY LastApart DEF SeqsOf
  <2>2. SeqsOf(front) /\ IsSeq(last)
    <3>1. k + 1 \in 1..Len(u) /\ \A j \in 1..k : j \in 1..Len(u) /\ front[j] = u[j]
      OBVIOUS
    <3> HIDE DEF front
    <3> QED  BY <2>1, <3>1 DEF SeqsOf
  <2> HIDE DEF front, last
  <2>3. FlattenSeq(a \o front) = FlattenSeq(a) \o FlattenSeq(front) /\ IsSeq(FlattenSeq(front))
    BY <1>2, <2>1, <2>2, FlatSeq
  <2>4. IsSeq(a \o front)
    BY <1>0, <2>1, Joined
  <2>5. a \o u = (a \o front) \o <<last>>
    <3>1. IsSeq(<<last>>)
      BY LeadsOne
    <3> QED  BY <1>0, <2>1, <3>1, JoinedTwice
  <2> DEFINE both == a \o front
  <2>6. FlattenSeq(both \o <<last>>) = FlattenSeq(both) \o last
    <3>1. IsSeq(both)
      BY <2>4
    <3> HIDE DEF both
    <3> QED  BY <2>2, <3>1, FlatMore
  <2>7. FlattenSeq(u) = FlattenSeq(front) \o last
    BY <2>1, <2>2, FlatMore
  <2>8. (FlattenSeq(a) \o FlattenSeq(front)) \o last = FlattenSeq(a) \o (FlattenSeq(front) \o last)
    BY <1>0, <2>2, <2>3, JoinedTwice
  <2> QED  BY <2>3, <2>5, <2>6, <2>7, <2>8
<1>3. Len(b) \in Nat
  BY Sequenced DEF SeqsOf
<1>4. Len(b) \in P
  <2> HIDE DEF P
  <2> QED  BY <1>1, <1>2, <1>3, EveryNumber
<1> QED
  BY <1>4

\* One sequence is joined to itself.
LEMMA FlatOne ==
  ASSUME NEW s, IsSeq(s)
  PROVE  SeqsOf(<<s>>) /\ FlattenSeq(<<s>>) = s
<1>1. IsSeq(<<s>>) /\ Len(<<s>>) = 1 /\ <<s>>[1] = s
  BY LeadsOne
<1>2. IsSeq(<<>>) /\ <<>> \o <<s>> = <<s>> /\ <<>> \o s = s
  BY <1>1, LeadsNowhere, JoinedLast
<1>3. FlattenSeq(<<>> \o <<s>>) = FlattenSeq(<<>>) \o s
  BY <1>2, FlatMore
<1>4. FlattenSeq(<<s>>) = s
  BY <1>2, <1>3, FlatNone
<1> DEFINE one == <<s>>
<1> HIDE DEF one
<1>5. IsSeq(one) /\ Len(one) = 1 /\ one[1] = s
  BY <1>1 DEF one
<1>6. \A i \in 1..Len(one) : i = 1
  BY <1>5
<1>7. SeqsOf(one)
  BY <1>5, <1>6 DEF SeqsOf
<1> QED
  BY <1>4, <1>7 DEF one

\* Singletons.
Apart(s) == [i \in DOMAIN s |-> <<s[i]>>]

\* A sequence taken apart is joined again.
LEMMA FlatApart ==
  ASSUME NEW s, IsSeq(s)
  PROVE  SeqsOf(Apart(s)) /\ Len(Apart(s)) = Len(s) /\ FlattenSeq(Apart(s)) = s
<1> DEFINE P == {k \in Nat : \A u : IsSeq(u) /\ Len(u) = k => FlattenSeq(Apart(u)) = u}
<1>0. ASSUME NEW u, IsSeq(u)
      PROVE  IsSeq(Apart(u)) /\ Len(Apart(u)) = Len(u) /\ \A i \in 1..Len(u) : Apart(u)[i] = <<u[i]>>
  <2>1. Len(u) \in Nat /\ DOMAIN u = 1..Len(u)
    BY <1>0, Sequenced
  <2> DEFINE f == Apart(u)
  <2>2. f = [i \in 1..Len(u) |-> f[i]] /\ \A i \in 1..Len(u) : f[i] = <<u[i]>>
    BY <2>1 DEF Apart
  <2> HIDE DEF f
  <2>3. IsSeq(f) /\ Len(f) = Len(u)
    BY <2>1, <2>2, ListedSeq
  <2> QED  BY <2>2, <2>3 DEF f
<1>1. 0 \in P
  <2> SUFFICES ASSUME NEW u, IsSeq(u), Len(u) = 0 PROVE FlattenSeq(Apart(u)) = u
    OBVIOUS
  <2>1. u = <<>>
    BY DEF IsSeq
  <2>2. Apart(<<>>) = <<>>
    BY DEF Apart
  <2> QED  BY <2>1, <2>2, FlatNone
<1>2. ASSUME NEW k \in Nat, k \in P PROVE k + 1 \in P
  <2> SUFFICES ASSUME NEW u, IsSeq(u), Len(u) = k + 1 PROVE FlattenSeq(Apart(u)) = u
    OBVIOUS
  <2> DEFINE front == [j \in 1..k |-> u[j]]
             last == u[k + 1]
  <2>1. IsSeq(front) /\ Len(front) = k /\ u = front \o <<last>>
    BY LastApart
  <2>2. \A j \in 1..k : front[j] = u[j]
    OBVIOUS
  <2>3. IsSeq(<<last>>) /\ Len(<<last>>) = 1 /\ <<last>>[1] = last
    BY LeadsOne
  <2> HIDE DEF front
  <2>4. Apart(u) = Apart(front) \o <<<<last>>>>
    <3> DEFINE x == Apart(u)
               y == Apart(front)
               single == <<last>>
    <3>1. IsSeq(x) /\ Len(x) = k + 1 /\ \A i \in 1..(k + 1) : x[i] = <<u[i]>>
      BY <1>0
    <3>2. IsSeq(y) /\ Len(y) = k /\ \A i \in 1..k : y[i] = <<front[i]>>
      BY <1>0, <2>1
    <3> HIDE DEF x, y
    <3>4. \A i \in 1..k : i \in 1..(k + 1)
      OBVIOUS
    <3>5. k + 1 \in 1..(k + 1) /\ x[k + 1] = single
      BY <3>1
    <3>6. \A i \in 1..k : x[i] = y[i]
      BY <2>2, <3>1, <3>2, <3>4
    <3> HIDE DEF single
    <3>7. x = y \o <<single>>
      BY <3>1, <3>2, <3>5, <3>6, SplitLast
    <3> QED  BY <3>7 DEF x, y, single
  <2>5. FlattenSeq(Apart(front)) = front
    BY <1>2, <2>1
  <2> HIDE DEF last
  <2>6. IsSeq(Apart(front))
    BY <1>0, <2>1
  <2>7. FlattenSeq(Apart(front) \o <<<<last>>>>) = FlattenSeq(Apart(front)) \o <<last>>
    BY <2>3, <2>6, FlatMore
  <2> QED  BY <2>1, <2>4, <2>5, <2>7
<1>3. Len(s) \in Nat
  BY Sequenced
<1>4. Len(s) \in P
  <2> HIDE DEF P
  <2> QED  BY <1>1, <1>2, <1>3, EveryNumber
<1>5. SeqsOf(Apart(s))
  <2>1. \A i \in 1..Len(s) : IsSeq(<<s[i]>>)
    BY LeadsOne
  <2> QED  BY <1>0, <2>1 DEF SeqsOf
<1> QED
  BY <1>0, <1>4, <1>5

-----------------------------------------------------------------------------

=============================================================================
