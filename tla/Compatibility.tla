--------------------------- MODULE Compatibility ---------------------------
(***************************************************************************)
(* The Effective Compatibility Registry: evidence of the canaries          *)
(* (canary/claim.ts, canary/artifact.ts), reviewed decisions and           *)
(* quarantines (compatibility/stores.ts), the answer computed from them    *)
(* (effective.ts, freshness.ts, registry.ts), and the processes that write *)
(* the three stores: rly compat and rly canary (cli/compat.ts).            *)
(*                                                                         *)
(* A document is a sequence, and its position in it is a record's          *)
(* revision: every writer appends max + 1.  The digest of a claim, to      *)
(* which a decision is bound, is the claim's sequence itself.              *)
(***************************************************************************)
EXTENDS Integers, Sequences, FiniteSets

CONSTANTS
  Models,     \* access paths of the trusted registry
  Features,   \* features a claim is scoped to
  Layers,     \* evidence layers every adapter requires
  Seed,       \* [Models -> {"VERIFIED", "EXPERIMENTAL", "BROKEN"}]
  Builds,     \* releases whose command line writes decisions
  Build,      \* the release that serves
  Writers,    \* processes that write the stores
  Contested,  \* bound: the claims they write
  MaxWrites   \* bound: how many times they do

ASSUME StoreAssumption ==
  /\ Contested \subseteq Models \X Features
  /\ MaxWrites \in Nat

VARIABLES
  claims,       \* [Keys -> observations]; an absent document is <<>>
  reviews,      \* [Keys -> decisions]
  quarantines,  \* [Keys -> records that are "active" or "lifted"]
  writer,       \* what each writer has read and is about to write
  writes

storeVars == <<claims, reviews, quarantines, writer, writes>>

Keys == Models \X Features
Results == {"passed", "failed", "not-run"}

\* No write of this writer is under way.
Idle == [op |-> "idle"]

\* The records of the three stores, without their prose: an observation, a
\* decision bound to the evidence it was taken on, a quarantine and its status.
Observation == [layer : Layers, result : Results]
ReviewDecision == [decision : {"promote", "reject"}, evidence : Seq(Observation), build : Builds]
QuarantineStatus == {"active", "lifted"}

StoreTypeOK ==
  /\ claims \in [Keys -> Seq(Observation)]
  /\ reviews \in [Keys -> Seq(ReviewDecision)]
  /\ quarantines \in [Keys -> Seq(QuarantineStatus)]
  /\ \A w \in Writers : writer[w] # Idle => writer[w].key \in Keys
  /\ writes \in 0..MaxWrites

\* Whatever earlier releases and canaries have left in the stores.
StoreInit ==
  /\ claims \in [Keys -> Seq(Observation)]
  /\ reviews \in [Keys -> Seq(ReviewDecision)]
  /\ quarantines \in [Keys -> Seq(QuarantineStatus)]
  /\ writer = [w \in Writers |-> Idle]
  /\ writes = 0

-----------------------------------------------------------------------------
(* One effective answer.                                                   *)

Saw(claim, result) == \E i \in DOMAIN claim : claim[i].result = result

\* claimStatusFor.  A required layer only has to be present: one passing record
\* of any layer makes the claim passed.
Status(claim) ==
  LET complete == \A l \in Layers : \E i \in DOMAIN claim : claim[i].layer = l IN
  IF claim = <<>> THEN "missing"
  ELSE IF Saw(claim, "failed") THEN "failed"
  ELSE IF complete /\ Saw(claim, "passed") THEN "passed" ELSE "not-run"

IsQuarantined(records) == \E i \in DOMAIN records : records[i] = "active"
LatestDecision(decisions) == decisions[Len(decisions)]
\* BugDecisionCovers: a decision holds for the claim, whatever was observed since.
BugDecisionCovers(decision, claim) == decision.evidence # <<>>
DecisionCovers(decision, claim) == decision.evidence = claim

\* freshnessFor: the runtime pins the client, the protocol, the fixtures and the
\* build; the claim's key already names the first three.
Fresh(decisions) == LatestDecision(decisions).build = Build

\* labelFor, for a claim that has a document.
Label(claim, decisions, records) ==
  LET decision == LatestDecision(decisions) IN
  IF IsQuarantined(records) THEN "quarantined"
  ELSE IF Status(claim) # "passed" THEN "untrusted"
  ELSE IF decisions = <<>> THEN "experimental"
  ELSE IF decision.decision = "reject" \/ ~DecisionCovers(decision, claim) THEN "untrusted"
  ELSE IF Fresh(decisions) THEN "trusted" ELSE "stale"

\* seedAnswer: without a document the registry's static state answers, and
\* neither decisions nor quarantines are looked at.
SeedLabel(m) == IF Seed[m] = "BROKEN" THEN "untrusted" ELSE "experimental"

\* The three documents of a claim, and effectiveForModel, for one feature, over what
\* was read of them.
Documents == {"claim", "decisions", "records"}
Document(k, d) ==
  CASE d = "claim" -> claims[k] [] d = "decisions" -> reviews[k] [] OTHER -> quarantines[k]
Effective(k, read) ==
  IF read.claim = <<>> THEN SeedLabel(k[1]) ELSE Label(read.claim, read.decisions, read.records)

\* enforceEffective, for a required feature.
\* BugAdmits: an exact pin also overrides a quarantine.
BugAdmits(label, override, bypass) ==
  \/ label = "trusted"
  \/ label \in {"experimental", "stale", "quarantined"} /\ override
Admits(label, override, bypass) ==
  \/ label = "trusted"
  \/ label \in {"experimental", "stale"} /\ override
  \/ label = "quarantined" /\ bypass

-----------------------------------------------------------------------------
(* The writers.  No lock: a document is read, and replaced by what was read *)
(* and one record more.                                                    *)

\* What a writer may begin: a canary's observation, a quarantine, its lift, and
\* a decision, which needs a claim and is bound to the evidence it has read.
Observe(k) ==
  {[op |-> "observe", key |-> k, doc |-> claims[k], record |-> [layer |-> l, result |-> r]] :
     l \in Layers, r \in Results}
Review(k) ==
  IF claims[k] = <<>> THEN {}
  ELSE {[op |-> "review", key |-> k, doc |-> reviews[k],
         record |-> [decision |-> d, evidence |-> claims[k], build |-> b]] :
          d \in {"promote", "reject"}, b \in Builds}
Quarantine(k) == {[op |-> "quarantine", key |-> k, doc |-> quarantines[k]]}
Lift(k) ==
  IF IsQuarantined(quarantines[k]) THEN {[op |-> "lift", key |-> k, doc |-> quarantines[k]]} ELSE {}

Read(w) ==
  /\ writer[w] = Idle /\ writes < MaxWrites
  /\ \E k \in Contested :
       \E job \in Observe(k) \cup Review(k) \cup Quarantine(k) \cup Lift(k) :
         writer' = [writer EXCEPT ![w] = job]
  /\ writes' = writes + 1
  /\ UNCHANGED <<claims, reviews, quarantines>>

\* lift closes the active record of the highest revision and no other.
Lifted(records) ==
  LET last == CHOOSE i \in DOMAIN records :
                /\ records[i] = "active"
                /\ \A j \in DOMAIN records : records[j] = "active" => j <= i
  IN  [records EXCEPT ![last] = "lifted"]

\* appendRun: the document that was loaded, with the observation appended.
Appended(job) ==
  IF job.op = "observe" THEN [claims EXCEPT ![job.key] = Append(job.doc, job.record)] ELSE claims

Write(w) ==
  LET job == writer[w] IN
  /\ job # Idle
  /\ claims' = Appended(job)
  /\ reviews' = IF job.op = "review"
                THEN [reviews EXCEPT ![job.key] = Append(job.doc, job.record)] ELSE reviews
  /\ quarantines' = CASE job.op = "quarantine" ->
                           [quarantines EXCEPT ![job.key] = Append(job.doc, "active")]
                      [] job.op = "lift" -> [quarantines EXCEPT ![job.key] = Lifted(job.doc)]
                      [] OTHER -> quarantines
  /\ writer' = [writer EXCEPT ![w] = Idle]
  /\ UNCHANGED writes

StoreStep == \E w \in Writers : Read(w) \/ Write(w)

-----------------------------------------------------------------------------
(* What an operator or a canary has said of a claim, whatever the label.    *)

\* Why nobody who pins the model may get it: an observed failure, a quarantine or a
\* rejection of a claim that has evidence.
Reasons == {"failed", "quarantined", "rejected"}
Banned(k, why) ==
  /\ claims[k] # <<>>
  /\ CASE why = "failed"      -> Saw(claims[k], "failed")
       [] why = "quarantined" -> IsQuarantined(quarantines[k])
       [] OTHER -> reviews[k] # <<>> /\ LatestDecision(reviews[k]).decision = "reject"
Bans == {ban \in Keys \X Reasons : Banned(ban[1], ban[2])}

\* The evidence that every claim has, and the evidence that its latest decision
\* promotes under the release that serves.
InForce == {<<k, claims[k]>> : k \in {key \in Keys : claims[key] # <<>>}}
Promotes(decisions) ==
  /\ decisions # <<>>
  /\ LatestDecision(decisions).decision = "promote" /\ LatestDecision(decisions).build = Build
Promoted == {<<k, LatestDecision(reviews[k]).evidence>> : k \in {key \in Keys : Promotes(reviews[key])}}

=============================================================================
