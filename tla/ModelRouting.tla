---------------------------- MODULE ModelRouting ----------------------------
(***************************************************************************)
(* From a selector to one physical model: launch sessions with their       *)
(* frozen binding and model universe (profiles/sessions.ts, http.ts), the  *)
(* resolution of a request (profiles/resolve-route.ts), tiers, exact       *)
(* selection, projection and discovery (routing/model-...), reasoning      *)
(* controls (providers/reasoning.ts) and the contexts of agents            *)
(* (profiles/agent-contexts.ts), while the policy, the compatibility       *)
(* stores and the leases change.                                           *)
(*                                                                         *)
(* A request stops at every await: Begin, one ReadDocument for each of the *)
(* three files of each claim of its snapshot, Resolve, Finish.             *)
(***************************************************************************)
EXTENDS Compatibility

CONSTANTS
  ProviderOf, FamilyOf,  \* [Models -> access provider], [Models -> family]
  CapsOf,                \* [Models -> capabilities]
  ReasoningOf,           \* [Models -> [control, levels, adaptive, withTools]]
  Order,                 \* the models, in registry order
  Tiers, TierMapping,    \* logical tiers; reviewed <<provider, family, tier>> -> model
  Helpers,               \* helper model name -> profile role
  Policies,              \* control-plane snapshots that edits may reach
  ExperimentalModels,    \* gateway.modelDiscovery.experimentalModels
  AllowQuarantineBypass, \* the administrative bypass
  Wired,                 \* the server was built with an agent-context registry
  Leases, Calls,         \* leases of launches; [Leases -> requests its client may send]
  Slots, MaxRequests,    \* bounds: requests in flight, requests sent
  MaxEdits               \* bound: edits of the policy

ASSUME RoutingAssumption ==
  /\ {MaxRequests, MaxEdits} \subseteq Nat
  /\ "none" \notin Models

\* Every row of the reviewed mapping is about the family its target belongs to.
ASSUME MappingAssumption ==
  \A k \in DOMAIN TierMapping : TierMapping[k] \in Models => FamilyOf[TierMapping[k]] = k[2]

VARIABLES
  policy,    \* the current control-plane policy
  live,      \* leases that are active
  session,   \* each lease's launch session, or NoSession
  contexts,  \* its entries: <<lease, agent>> -> model
  request,   \* the request of each slot
  answers,   \* what has been answered
  count      \* edits and requests so far

routeVars == <<policy, live, session, contexts, request, answers, count>>
vars == <<storeVars, routeVars>>

None == "none"
NoSession == [profile |-> None]
Free == [at |-> "free"]

-----------------------------------------------------------------------------
(* The session's frozen binding and model universe.                        *)

ProviderOfPool(p, o) == p.pools[o].provider
Eligible(p, o) == p.pools[o].ready

\* compileModelUniverseSnapshot: the profile's own pool, else a provider's only
\* eligible one; a provider with several pools is left out.
PoolsFor(p, f, q) ==
  LET own == p.profiles[f].pool
      all == {o \in DOMAIN p.pools : ProviderOfPool(p, o) = q /\ Eligible(p, o)}
  IN  IF ~p.providers[q] THEN {}
      ELSE IF own \in all THEN {own}
      ELSE IF Cardinality(all) = 1 THEN all ELSE {}
Universe(p, f) ==
  LET bound == {q \in DOMAIN p.providers : PoolsFor(p, f, q) # {}}
  IN  [q \in bound |-> CHOOSE o \in PoolsFor(p, f, q) : TRUE]

\* sessionPolicySnapshot and compileBinding.
SessionFor(p, f) ==
  LET profile == p.profiles[f]  provider == ProviderOfPool(p, profile.pool)
  IN  [profile |-> f, name |-> profile.name, roles |-> profile.roles, deny |-> profile.deny,
       pool |-> profile.pool, provider |-> provider, enabled |-> p.providers[provider],
       universe |-> Universe(p, f)]

\* A LaunchSession: what some policy held of a profile with a pool, all at one time.
LaunchSessions ==
  UNION {{SessionFor(p, f) : f \in {g \in DOMAIN p.profiles : p.profiles[g].pool \in DOMAIN p.pools}} :
           p \in Policies}

\* LaunchSessionRegistry.issue: a session is issued for a live lease only.
Issue(l, launch) ==
  /\ l \in live /\ session[l] = NoSession
  /\ session' = [session EXCEPT ![l] = launch]

IssueSession(l) ==
  /\ \E f \in DOMAIN policy.profiles :
       /\ policy.profiles[f].pool \in DOMAIN policy.pools
       /\ Issue(l, SessionFor(policy, f))
  /\ UNCHANGED <<policy, live, contexts, request, answers, count>>

\* LaunchSessionRegistry.resolve.
\* BugActiveSession: the profile's live row is read instead of the frozen snapshot.
BugActiveSession(l) == SessionFor(policy, session[l].profile)
ActiveSession(l) == session[l]

\* applySessionBinding: the frozen profile, pool and provider replace the live
\* rows of their ids; every other row stays live.
Overlay(p, s) ==
  [p EXCEPT !.profiles = [f \in DOMAIN @ \cup {s.profile} |->
              IF f = s.profile THEN [name |-> s.name, pool |-> s.pool, roles |-> s.roles, deny |-> s.deny] ELSE @[f]],
            !.pools = [o \in DOMAIN @ \cup {s.pool} |->
              IF o = s.pool THEN [provider |-> s.provider, ready |-> TRUE] ELSE @[o]],
            !.providers = [q \in DOMAIN @ \cup {s.provider} |->
              IF q = s.provider THEN s.enabled ELSE @[q]]]

\* inspectLaunchableProfile looks the profile up by its name, and a live profile
\* that has taken the name comes before the frozen one.
Inspected(p, s) ==
  LET named == {f \in DOMAIN p.profiles : p.profiles[f].name = s.name}
  IN  IF named \ {s.profile} # {} THEN CHOOSE f \in named \ {s.profile} : TRUE ELSE s.profile

-----------------------------------------------------------------------------
(* Reasoning.                                                              *)

EffortIntents ==
  [low |-> "ECONOMY", medium |-> "BALANCED", high |-> "DEEP", xhigh |-> "MAXIMUM", max |-> "MAXIMUM"]
Positive == {"ECONOMY", "BALANCED", "DEEP", "MAXIMUM"}

\* reasoningRequestFromWire: the effort, if it has a known name, else the mode.
IntentOf(signal) ==
  IF signal.effort \in DOMAIN EffortIntents THEN EffortIntents[signal.effort]
  ELSE CASE signal.thinking = "disabled" -> "OFF"
         [] signal.thinking = "enabled"  -> "BALANCED"
         [] OTHER                        -> "AUTO"

\* nearestLevel: the position, among n usable levels, that an intent maps to.
NearestLevel(intent, n) ==
  CASE intent = "ECONOMY" -> 1
    [] intent = "DEEP"    -> IF n >= 3 THEN n - 1 ELSE n
    [] intent = "MAXIMUM" -> n
    [] OTHER              -> (n - 1) \div 2 + 1

Usable(levels) == SelectSeq(levels, LAMBDA level : level \notin {"none", "off"})
Level(intent, levels) ==
  IF Usable(levels) = <<>> THEN {}
  ELSE {[kind |-> "effort", level |-> Usable(levels)[NearestLevel(intent, Len(Usable(levels)))]]}

\* The control that realises a positive intent, if there is one: no reviewed
\* budget policy exists, so a token budget has none.
Control(intent, evidence) ==
  CASE evidence.control = "discrete-effort"      -> Level(intent, evidence.levels)
    [] evidence.control \in {"binary", "adaptive"} -> {[kind |-> evidence.control, level |-> None]}
    [] OTHER                                     -> {}

\* resolveReasoning; the empty set is a ReasoningTranslationError.
ResolveReasoning(signal, evidence) ==
  LET intent == IntentOf(signal)
      native == \E i \in DOMAIN evidence.levels : evidence.levels[i] = signal.effort
  IN  IF intent = "OFF" THEN {[kind |-> "off", level |-> None]}
      ELSE IF signal.thinking = "adaptive"
      THEN IF evidence.adaptive THEN {[kind |-> "adaptive", level |-> None]} ELSE Control("BALANCED", evidence)
      ELSE IF intent = "AUTO" THEN {[kind |-> "provider-default", level |-> None]}
      ELSE IF evidence.control = "discrete-effort" /\ native THEN {[kind |-> "effort", level |-> signal.effort]}
      ELSE Control(intent, evidence)

\* reasoningRequirementFrom.
NeedsReasoning(c) == IntentOf(c.reasoning) \in Positive \/ "reasoning" \in c.required
NeedsReasoningWithTools(c) == IntentOf(c.reasoning) \in Positive /\ c.tools

-----------------------------------------------------------------------------
(* Selection of a model.                                                   *)

\* requiredFeaturesForCapabilities and requiredFeaturesForEvidence: "text" stands
\* for the features every request needs, "discovery" for those exposure adds.
RequestFeatures(c) ==
  ({"text"} \cup c.required \cup (IF NeedsReasoning(c) THEN {"reasoning"} ELSE {})) \cap Features
EvidenceFeatures(m) == ({"text", "discovery"} \cup CapsOf[m]) \cap Features

Evidence(q, m) == {n \in {m} \cap Models : ProviderOf[n] = q}

\* assess: capabilities, reasoning, and the compatibility of every required
\* feature; an exact pin is the experimental override.
Fits(m, c, exact, snap, bypass) ==
  /\ c.required \subseteq CapsOf[m]
  /\ NeedsReasoning(c) => ReasoningOf[m].control # "none"
  /\ NeedsReasoningWithTools(c) => ReasoningOf[m].withTools
  /\ \A f \in RequestFeatures(c) : Admits(snap[<<m, f>>], exact, bypass)

\* selectModel with an exact pin.
SelectExact(q, m, c, snap, bypass) == {n \in Evidence(q, m) : Fits(n, c, TRUE, snap, bypass)}
\* selectModel over the provider's candidates of a family: the first in registry order.
SelectInFamily(q, family, c, snap) ==
  LET fit == {i \in DOMAIN Order : /\ ProviderOf[Order[i]] = q /\ FamilyOf[Order[i]] = family
                                  /\ Fits(Order[i], c, FALSE, snap, FALSE)}
  IN  {Order[i] : i \in {j \in fit : \A k \in fit : j <= k}}

\* resolveFamily: the parent's, else that of the profile's first configured model,
\* else the provider's only one.
ParentModel(roles) ==
  LET order == SelectSeq(<<"primary", "reasoning", "fast", "haiku", "sonnet", "opus", "fable">>,
                         LAMBDA role : role \in DOMAIN roles)
  IN  IF order = <<>> THEN None ELSE roles[order[1]]
Family(q, roles, parent) ==
  LET families == {FamilyOf[m] : m \in {n \in Models : ProviderOf[n] = q}}
  IN  IF parent # None THEN FamilyOf[parent]
      ELSE IF Evidence(q, ParentModel(roles)) # {} THEN FamilyOf[ParentModel(roles)]
      ELSE IF Cardinality(families) = 1 THEN CHOOSE f \in families : TRUE ELSE None

\* resolveTier: the profile's override, the reviewed mapping, the first candidate
\* of the family.  A target that fails is never replaced, and no fallback scope is on.
ResolveTier(tier, q, roles, parent, c, snap) ==
  LET family == Family(q, roles, parent)
      pin(how, m) == {[how |-> how, model |-> n] : n \in SelectExact(q, m, c, snap, FALSE)}
  IN  IF tier \in DOMAIN roles THEN pin("override", roles[tier])
      ELSE IF family = None THEN {}
      ELSE IF <<q, family, tier>> \in DOMAIN TierMapping THEN pin("mapping", TierMapping[<<q, family, tier>>])
      ELSE {[how |-> "derived", model |-> m] : m \in SelectInFamily(q, family, c, snap)}

\* classifyModelIntent.
Classify(selector) ==
  CASE selector.space = "rly-tier"   -> IF selector.word \in Tiers THEN "RLY_LOGICAL_TIER" ELSE "unknown-namespace"
    [] selector.space = "claude-rly" -> "EXACT_PROJECTION"
    [] OTHER -> CASE selector.word \in Tiers           -> "CLIENT_NATIVE_ALIAS"
                  [] selector.word \in {"", "default"} -> "DEFAULT"
                  [] selector.word = "inherit"         -> "INHERIT"
                  [] OTHER                             -> "EXACT_CLIENT_MODEL"

\* resolveProfileRole: a role, a configured model, or a helper's role.
RoleModel(word, roles) ==
  IF word \in {"primary", "fast", "reasoning"} \cap DOMAIN roles THEN {roles[word]}
  ELSE IF \E r \in DOMAIN roles : roles[r] = word THEN {word}
  ELSE IF word \in DOMAIN Helpers /\ Helpers[word] \in DOMAIN roles THEN {roles[Helpers[word]]}
  ELSE {}

\* resolveModelIntent: at most one target, and how it was found.
ResolveIntent(c, s, parent, snap) ==
  LET kind == Classify(c.selector)
      pin(ms) == {[how |-> "pin", model |-> m] : m \in ms}
  IN  CASE kind \in {"RLY_LOGICAL_TIER", "CLIENT_NATIVE_ALIAS"} ->
             ResolveTier(c.selector.word, s.provider, s.roles, parent, c, snap)
        [] kind = "EXACT_CLIENT_MODEL" -> pin(RoleModel(c.selector.word, s.roles))
        [] kind = "INHERIT" -> pin(IF parent # None THEN {parent} ELSE RoleModel("primary", s.roles))
        [] kind = "DEFAULT" -> pin(RoleModel("primary", s.roles))
        [] OTHER -> {}

\* projectModelUniverse without a snapshot: the registry's static state decides.
StaticProjections(s) ==
  {m \in Models : /\ ProviderOf[m] \in DOMAIN s.universe
                  /\ Seed[m] # "BROKEN"
                  /\ Seed[m] = "EXPERIMENTAL" => ExperimentalModels}
\* With one: projectionEligible.
Projections(s, snap) ==
  {m \in Models :
     /\ ProviderOf[m] \in DOMAIN s.universe
     /\ LET labels == {snap[<<m, f>>] : f \in EvidenceFeatures(m)}
        IN  labels = {"trusted"} \/ (ExperimentalModels /\ labels \subseteq {"experimental", "stale"})}

-----------------------------------------------------------------------------
(* Requests.                                                               *)

\* resolveParentExecutionReference: the parent's own entry, else the main agent's.
\* Only entries of this lease, and only while it is live.
Context(l, agent) == IF l \in live /\ <<l, agent>> \in DOMAIN contexts THEN contexts[<<l, agent>>] ELSE None
ParentReference(l, c) ==
  IF ~Wired \/ c.parent = None THEN None
  ELSE IF Context(l, c.parent) # None THEN Context(l, c.parent) ELSE Context(l, "main")

\* The provider and the pool that serve a request, were it to be served.
Projected(c) == Classify(c.selector) = "EXACT_PROJECTION"
Provider(c, s) == IF Projected(c) THEN ProviderOf[c.selector.word] ELSE s.provider
Pool(c, s) == IF Projected(c) THEN s.universe[Provider(c, s)] ELSE s.pool

\* effectiveSnapshotFor, and the snapshot of GET /v1/models: the claims to read.
KeysOf(c, s) ==
  IF c.selector.space = "list" THEN {k \in Keys : k[2] \in EvidenceFeatures(k[1])}
  ELSE {k \in Keys : k[2] \in RequestFeatures(c) /\ ProviderOf[k[1]] = Provider(c, s)}

\* The projected target's provider must still be there and enabled.
ProjectionStands(s, m) ==
  LET p == Overlay(policy, s) IN
  /\ m \in StaticProjections(s)
  /\ s.universe[ProviderOf[m]] \in DOMAIN p.pools
  /\ ProviderOf[m] \in DOMAIN p.providers /\ p.providers[ProviderOf[m]]

Refused(l, c, why) == answers' = answers \cup {[lease |-> l, call |-> c, refused |-> why, models |-> {}]}

\* The profile a request names must stand, and its selector be one the gateway knows.
Resolvable(s, c) ==
  /\ Classify(c.selector) # "unknown-namespace"
  /\ Inspected(policy, s) = s.profile

\* What has been said of the claims in keys.
OfKeys(said, keys) == {x \in said : x[1] \in keys}

\* What a request holds while the claims it depends on are read.  The documents of a
\* claim that nobody writes hold one value, whenever they are read.
Reading(l, c, s) ==
  LET keys == KeysOf(c, s) IN
  [at |-> "reading", lease |-> l, call |-> c, session |-> s, parent |-> ParentReference(l, c),
   todo |-> keys \cap Contested, got |-> <<>>,
   snap |-> [k \in keys \ Contested |-> Effective(k, [d \in Documents |-> Document(k, d)])],
   banned |-> OfKeys(Bans, keys), inForce |-> OfKeys(InForce, keys), promoted |-> OfKeys(Promoted, keys)]

\* What is decided before the first await.  A refusal of the lookup by name comes
\* later in the code, at activateProfile, and changes nothing before.
Begin(r, l, c) ==
  /\ request[r] = Free /\ count.requests < MaxRequests
  /\ l \in live /\ session[l] # NoSession
  /\ count' = [count EXCEPT !.requests = @ + 1]
  /\ LET s == ActiveSession(l) IN
     IF c.selector.space = "list" \/
        (IF Projected(c) THEN ProjectionStands(s, c.selector.word)
         ELSE Resolvable(s, c))
     THEN /\ request' = [request EXCEPT ![r] = Reading(l, c, s)]
          /\ UNCHANGED answers
     ELSE /\ Refused(l, c, IF Projected(c) THEN "model-unavailable"
                           ELSE IF Classify(c.selector) = "unknown-namespace" THEN "role-unmapped" ELSE "profile-not-found")
          /\ UNCHANGED request
  /\ UNCHANGED <<storeVars, policy, live, session, contexts>>

\* snapshotForModels: one claim after the other.
Current(q) == CHOOSE k \in q.todo : TRUE
\* One of the three reads of a claim, which Promise.all starts together and which end
\* in any order.  The last one gives the claim its label.
ReadDocument(r) ==
  LET q == request[r]  k == Current(q) IN
  /\ q.at = "reading" /\ q.todo # {}
  /\ \E d \in Documents \ DOMAIN q.got :
       LET got == [x \in DOMAIN q.got \cup {d} |-> IF x = d THEN Document(k, d) ELSE q.got[x]] IN
       request' = [request EXCEPT ![r] =
         IF DOMAIN got # Documents THEN [q EXCEPT !.got = got]
         ELSE [q EXCEPT !.got = <<>>, !.todo = @ \ {k},
                        !.snap = [key \in DOMAIN @ \cup {k} |-> IF key = k THEN Effective(k, got) ELSE @[key]]]]
  /\ UNCHANGED <<storeVars, policy, live, session, contexts, answers, count>>

\* The claims with evidence that was in force, and was promoted, while they were read.
Vouched(q) == {x[1] : x \in q.inForce \cap q.promoted}

\* GET /v1/models answers with the universe's projections.
AnswerList(r) ==
  LET q == request[r] IN
  /\ q.at = "reading" /\ q.todo = {} /\ q.call.selector.space = "list"
  /\ answers' = answers \cup {[lease |-> q.lease, call |-> q.call, refused |-> None,
                               models |-> Projections(q.session, q.snap), vouched |-> Vouched(q)]}
  /\ request' = [request EXCEPT ![r] = Free]
  /\ UNCHANGED <<storeVars, policy, live, session, contexts, count>>

\* What a request's selector means, if anything.
Found(c, s, parent, snap) ==
  IF Projected(c) THEN {[how |-> "pin", model |-> c.selector.word]} ELSE ResolveIntent(c, s, parent, snap)

\* resolveProfileRoute and resolveProjectedModelRoute between their two awaits: the
\* target, its exact selection, its reasoning control, the profile's capabilities.
Targets(q) ==
  LET c == q.call  s == q.session
      selected == {t \in Found(c, s, q.parent, q.snap) :
                     SelectExact(Provider(c, s), t.model, c, q.snap, AllowQuarantineBypass) # {}}
  IN  UNION {{[how |-> t.how, model |-> t.model, control |-> ctl, pool |-> Pool(c, s)] :
                ctl \in ResolveReasoning(c.reasoning, ReasoningOf[t.model])} : t \in selected}
Denied(q) == ~Projected(q.call) /\ q.call.required \cap q.session.deny # {}

Resolve(r) ==
  LET q == request[r]  targets == Targets(q) IN
  /\ q.at = "reading" /\ q.todo = {} /\ q.call.selector.space # "list"
  /\ IF targets = {} \/ Denied(q)
     THEN /\ Refused(q.lease, q.call, "rejected")
          /\ request' = [request EXCEPT ![r] = Free]
     ELSE /\ request' = [request EXCEPT ![r] = [at |-> "resolved", q |-> q, target |-> CHOOSE t \in targets : TRUE]]
          /\ UNCHANGED answers
  /\ UNCHANGED <<storeVars, policy, live, session, contexts, count>>

\* An entry belongs to one agent of one launch, and holds a physical model.
ExecutionContext == [of : Leases \X {c.agent : c \in UNION {Calls[l] : l \in Leases}}, model : Models]

\* AgentExecutionContextRegistry.record: under the launch and the agent, while its lease is live.
Recorded(l, agent, model) ==
  IF l \notin live THEN contexts
  ELSE [k \in DOMAIN contexts \cup {<<l, agent>>} |-> IF k = <<l, agent>> THEN model ELSE contexts[k]]

\* The decision on record: its target, how it was found, and the parent it came from.
Decision(q, target) ==
  [lease |-> q.lease, call |-> q.call, refused |-> None, models |-> {target.model},
   target |-> target, parent |-> q.parent, banned |-> q.banned, vouched |-> Vouched(q)]

\* After the second await: the agent's context is recorded, if the lease is still
\* live, and the request goes to the pool.  A projected request records nothing.
Finish(r) ==
  LET q == request[r].q  target == request[r].target IN
  /\ request[r].at = "resolved"
  /\ contexts' = IF Wired /\ ~Projected(q.call)
                 THEN Recorded(q.lease, q.call.agent, target.model) ELSE contexts
  /\ answers' = answers \cup {Decision(q, target)}
  /\ request' = [request EXCEPT ![r] = Free]
  /\ UNCHANGED <<storeVars, policy, live, session, count>>

-----------------------------------------------------------------------------
(* The rest of the system.                                                 *)

\* An owner edits profiles, pools or providers.
EditPolicy ==
  /\ count.edits < MaxEdits
  /\ policy' \in Policies \ {policy}
  /\ count' = [count EXCEPT !.edits = @ + 1]
  /\ UNCHANGED <<storeVars, live, session, contexts, request, answers>>

\* DELETE of a lease drops its session and its contexts; an expiry drops only the
\* session, and leaves entries that are no longer valid.
EndLease(l) ==
  /\ l \in live
  /\ live' = live \ {l}
  /\ session' = [session EXCEPT ![l] = NoSession]
  /\ \/ contexts' = [k \in {key \in DOMAIN contexts : key[1] # l} |-> contexts[k]]
     \/ UNCHANGED contexts
  /\ UNCHANGED <<storeVars, policy, request, answers, count>>

\* A write of the stores, and what the requests that are reading could have seen.
Watched(q) ==
  LET keys == KeysOf(q.call, q.session) IN
  IF q.at # "reading" THEN q
  ELSE [q EXCEPT !.banned = @ \cap Bans', !.inForce = @ \cup OfKeys(InForce', keys),
                 !.promoted = @ \cup OfKeys(Promoted', keys)]
CompatibilityChanges ==
  /\ StoreStep
  /\ request' = [r \in Slots |-> Watched(request[r])]
  /\ UNCHANGED <<policy, live, session, contexts, answers, count>>

Next ==
  \/ \E l \in Leases : (IssueSession(l) /\ UNCHANGED storeVars) \/ EndLease(l)
  \/ \E r \in Slots, l \in Leases : \E c \in Calls[l] : Begin(r, l, c)
  \/ \E r \in Slots : ReadDocument(r) \/ AnswerList(r) \/ Resolve(r) \/ Finish(r)
  \/ EditPolicy
  \/ CompatibilityChanges

\* Launches hold their leases and have not asked for a session yet.
Init ==
  /\ StoreInit
  /\ policy \in Policies
  /\ live = Leases
  /\ session = [l \in Leases |-> NoSession]
  /\ contexts = <<>>
  /\ request = [r \in Slots |-> Free]
  /\ answers = {}
  /\ count = [edits |-> 0, requests |-> 0]

Spec == Init /\ [][Next]_vars

-----------------------------------------------------------------------------
(* Properties.                                                             *)

TypeOK ==
  /\ StoreTypeOK
  /\ policy \in Policies /\ live \subseteq Leases
  /\ session \in [Leases -> LaunchSessions \cup {NoSession}]
  /\ {[of |-> k, model |-> contexts[k]] : k \in DOMAIN contexts} \subseteq ExecutionContext
  /\ \A r \in Slots : request[r].at \in {"free", "reading", "resolved"}
  /\ \A a \in answers : a.lease \in Leases /\ a.call \in Calls[a.lease] /\ a.models \subseteq Models
  /\ count \in [edits : 0..MaxEdits, requests : 0..MaxRequests]

Served == {a \in answers : a.refused = None /\ a.call.selector.space # "list"}
Lists == {a \in answers : a.refused = None /\ a.call.selector.space = "list"}

\* An active session's target does not move: two answers of one lease to the same
\* call, by the same way, come from the same pool and, unless the way is a derived
\* tier or a parent's model, from the same model, whatever was edited between them.
SessionTargetFrozen ==
  \A a, b \in Served :
    (a.lease = b.lease /\ a.call = b.call) =>
      /\ a.target.pool = b.target.pool
      /\ (a.target.how = b.target.how /\ a.target.how # "derived" /\ a.parent = b.parent) =>
           a.target.model = b.target.model

\* The tiers of one launch that no parent's context scopes, and that its profile does
\* not override, are of one family, whichever of its agents asks, whatever is edited
\* meanwhile, and whether the mapping or the first candidate that fits decides.
TierStaysInFamily ==
  \A a, b \in Served :
    /\ a.lease = b.lease /\ a.parent = None /\ b.parent = None
    /\ {a.target.how, b.target.how} \subseteq {"mapping", "derived"}
    => FamilyOf[a.target.model] = FamilyOf[b.target.model]

\* A model is not served on a claim that was under one and the same ban, a failure, a
\* rejection or a quarantine, from before the request arrived until its answer was
\* computed, not even to a pin.
AnswerNotBanned ==
  \A a \in Served : \A m \in a.models, f \in RequestFeatures(a.call), why \in Reasons :
    <<<<m, f>>, why>> \notin a.banned

\* A model that nobody named, whether derived for a tier or listed by discovery, has
\* on each feature it needs evidence that was in force at some moment of the request,
\* and that the latest decision of some moment promotes for the release that serves.
UnpinnedIsVouched ==
  /\ \A a \in Served : a.target.how = "derived" => (a.models \X RequestFeatures(a.call)) \subseteq a.vouched
  /\ ~ExperimentalModels => \A a \in Lists : \A m \in a.models : {m} \X EvidenceFeatures(m) \subseteq a.vouched

\* project.ts: the snapshot "is the projection compatibility AUTHORITY", the static
\* state "seed/reference data only": what discovery has listed for a session that is
\* still active can be asked for.
ListedIsRoutable ==
  \A a \in Lists : (a.lease \in live) => a.models \subseteq StaticProjections(session[a.lease])

\* resolve-route.ts: "a profile/pool/provider removed mid-session keeps serving the
\* frozen target".
FrozenTargetServes == \A a \in answers : a.refused # "profile-not-found"

\* resolve-route.ts: "a subagent request inherits the parent agent's frozen physical
\* model": a request that inherits, sent when its parent had been answered, gets a
\* model its parent has been answered with.
InheritFollowsParent ==
  \A a \in Served :
    (Classify(a.call.selector) = "INHERIT" /\ a.call.parent # None) =>
      \A b \in Served : (b.lease = a.lease /\ b.call.agent = a.call.parent) =>
        \E d \in Served : d.lease = a.lease /\ d.call.agent = a.call.parent /\ d.models = a.models
=============================================================================
