# RLY Gateway: specification and proofs

TLA+ modules for the parts of RLY Gateway whose behaviour depends on several
processes, crashes, retries or long sequences of calls, the TLC configurations
that check them, and TLAPS proofs of their safety properties. Paths are
relative to the repository (`src/src/…` is the gateway's own source, `src/tests/…`
its tests); in the tables below `src/src/` is left out.

## The system

RLY is a local gateway. A launcher (`rly claude`, `rly codex`, `rly <profile>`)
or a resident service starts one HTTP gateway per configured port; the clients
it launches send Anthropic or OpenAI requests to it; it chooses a model, a
provider, and an account of a pool, refreshes that account's OAuth credential
when needed, translates the request, and streams the provider's answer back.
`rly init` and `rly update` install and replace the runtime under a service
manager. Everything durable is a file or one SQLite database in private
directories, guarded by lock files; nothing is a daemon except the gateway.

### Inventory

| Component | State | Operations | Talks to | What is hard |
|---|---|---|---|---|
| Update transaction (`runtime/update/lifecycle.ts`, `store.ts`, `types.ts`) | `update-state.json`: state, version, artifact, journal | `rly update [candidate] [--force] [--install-only]`, recovery, rollback | deployments, `/drain`, `/identity`, service manager | a crash between any two writes; journals left by earlier runs; the runtime changing under the run |
| Deployments (`runtime/update/installer.ts`, `runtime/bootstrap.ts`) | `refs/staged`, `refs/active`, `refs/previous`, immutable trees, the layout of earlier packages | install, activate, restore, migrate; boot from `refs/active` | update transaction, `rly init` | two renames are not one |
| Gateway ownership (`runtime/gateway-lifecycle.ts`, `runtime-store.ts`, `gateway-attestation.ts`) | `startup.lock`, `leases.lock`, `ownership.json`, secrets, the port | reuse, start, reclaim, clean, shut down | launchers, resident, foreign listeners | locks left by crashes, compare-then-unlink, inspection outside the lock |
| Leases and idle shutdown (`runtime/lease-manager.ts`, `owned-gateway.ts`) | leases with TTL, idle timer | add, renew, release, expire, stop | gateway routes | a lease racing the idle timer; a launcher that dies |
| Resident service (`runtime/resident-runtime.ts`) | one process | start, wait for a launcher's gateway, stop | service manager | races with launchers |
| Credential broker and store (`credentials/broker.ts`, `store.ts`, `storage/ownership-lock.ts`) | `<handle>.json/.bak/.lock`, single-flight map | refresh, commit, purge, recover | OAuth provider, accounts | two gateways over one store; the provider rotates tokens |
| Credential service (`credentials/service.ts`) | the account's row | refresh, revoke, attach, import | broker, control-plane store | awaits between reading and binding |
| OAuth login (`credentials/oauth-login.ts`, `oauth-session.ts`) | pending login, callback server, the promise of its outcome | start, complete, cancel | browser, provider | cancel and restart with an exchange in flight |
| Account pools (`routing/pools/*`, `control-plane/health/outcomes.ts`) | cursor, sticky bindings, cooldowns | select, revalidate, rotate, record outcome | control-plane store, providers | stale choice; retry after commitment |
| Stream lifecycle (`routes/stream-lifecycle.ts`, `stream-pump.ts`) | first termination, timers | pump, cancel, time out | client socket, provider | which frame ends the stream, and that exactly one does |
| Acquisition (`installer/acquire.ts` and its checks) | staging directory, observed releases, log | fetch or hand over, verify, unpack | `rly init`, `rly install` | partial failure, downgrade |
| Service manager (`service-manager/*`) | unit or agent file, loaded definition, running process | register, reconcile, remove | launchd, systemd | half-applied reconciliation |
| Commands (`cli/*`, `installer/*`) | install record, launcher | install, init, update from a channel, uninstall | the three above | being killed anywhere |
| Storage (`storage/paths.ts`, `migrations.ts`, `retention.ts`) | state roots, database, WAL, backups, markers | adopt, migrate, restore, prune | gateway start, `rly init` | an interrupted restore beside a WAL |
| Control-plane store (`control-plane/*`) | versioned rows, policy revisions, audit | compare-and-set mutations | everything above | several writers |
| Management (`management/*`) | bootstrap tokens, sessions, the page's forms | exchange, resume, edit, log out | control-plane store | tabs that share a cookie but not a token |
| Compatibility (`compatibility/*`, `canary/*`) | evidence, decisions, quarantines | observe, review, quarantine, lift, evaluate | `rly compat`, routing | unlocked read-modify-write; stale evidence |
| Model and profile routing (`routing/model-*`, `profiles/*`, `providers/reasoning.ts`) | launch sessions, agent contexts | issue, resolve, list | gateway routes, all stores | awaits in a resolution while everything moves |
| Claude overlay (`runtime/claude-overlay.ts`) | per-profile views, ownership manifest | migrate, refresh | the user's native files | launches side by side; who owns a file |
| Child launcher (`runtime/child-launcher.ts`, `shutdown-controller.ts`) | child, one shutdown | launch, forward, kill, release | gateway leases | signals, double release |
| Protocols and providers (`protocols/*`, `providers/*`, `core/*`, `routes/*`) | stream state of one answer | decode, post, adapt, encode | client and provider | fragments out of order, opaque values |
| Continuation store (`protocols/openai-responses/continuation.ts`) | stored responses | apply, remember | Responses route | what a later turn needs |
| Model registry, CLI parsing, configuration, observability, targets, canary runners, release scripts | none of their own | – | – | formats and I/O |

What makes each correct, in one line:

* **Update**: an activation takes effect whole or not at all; recovery follows the durable
  phase and nothing else; the last known-good deployment stays reachable; one
  rollback; a terminal state that is terminal; sessions are drained first.
* **Ownership and leases**: one process between taking and releasing `startup.lock`;
  a published gateway stays attestable; no lease is admitted by a gateway that
  decided to stop; an unused one frees its port.
* **Credentials**: a generation is committed once; what was committed is not lost;
  the account never names a generation that is not stored; a result is
  bound only to the login that asked for it.
* **Pools and streams**: an attempt goes to an account eligible when it is
  made; no replay after commitment; the client is shown one whole attempt and exactly
  one last frame; every stream closes.
* **Installation**: what is exposed is verified and whole, nothing is downgraded,
  the runtime of an earlier package stays servable through its migration.
* **Storage**: after any crash the database is whole or marked; an acknowledged
  write survives every migration; retention deletes no backup that is needed.
* **Control plane and management**: references agree, the newest policy is the
  current one, and no update overwrites what its author has not seen.
* **Routing**: a session's target is frozen, its tiers stay in one family, and
  nobody is served on a banned claim or, unasked, on an unreviewed one.
* **Overlay**: copied files converge, the user's edits survive, the view stays put.
* **Conversation**: the client gets the whole answer, the provider the whole
  conversation, opaque values included, that its protocol can be told.


## Modules

Each component has one module, `MC…` its instances. A comment in front of every
definition says which code it is; variable names follow the code's.

**Update.** `UpdateTransaction` models `rly update` and what it acts on. One action
is one durable effect or one call; `pc` is the next step of the single updater
(`"idle"` when none runs), `run` what it keeps in memory, `rec` the record with its
journal, `refs` the three references, `runtime` whatever holds the port.
`StartRun` is `recoverUpdateState` under the update lock; the `Dispatch` actions are
the branches of `runUpdate`; `Stage` is `stageCandidate`, `Activate` is `activate`,
`Rollback` is `rollback`. The environment crashes the updater, makes runtimes exit,
boot, drift and be replaced, and opens and ends launch sessions. `hist` is read by
properties only. `Switchover` is the abstract promise: an activation has a target
and an origin, goes forward or is turned back, and moves the active reference only as a
whole; `UpdateTransaction!WholeOrNotAtAll` is its specification under the mapping
of the record's journal.

**Gateway.** `GatewayOwnership` models the start, reuse and shutdown of one gateway
by launchers and the resident. `pc` is a process's acquisition, `gw` the gateway it
hosts, `lock`, `leaseLock`, `record`, `secret` the files, `port` the listener. A lock
is its creator and whether its contents are written, because `open(O_EXCL)` and
the write are two steps and every reader must cope with the state between.
Attestation is what the HMAC exchange establishes: listener, record and secret are
of one instance. An inspection may time out on a gateway that listens, and then finds the home
clean; `silent` remembers which gateways an acquisition took for gone so.

**Credentials.** `CredentialRefresh` models one stored credential that several gateways
share: opening the store, refresh flights, revocation; a commit, a purge and a recovery are
one step per file operation. The provider grants with rotation: only the latest token
refreshes. `CredentialLogin` models logins and imports of one gateway: `flow` is the
coordinator with its callback server and the service's pending login, `attempt` what each
login asked for and how far it is, `awaited` whether a request waits for its promise.

**Requests.** `PoolRouting` is `RouteSelector` and `streamPoolRequest` for the requests that
share a pool: `cursor`, `selecting`, `affinity` of the selector, `acct` the accounts,
`req` each request's locals and step, `out` the events its generator yielded. A
generator runs only while its consumer waits; the code between two awaits is one action.
`attempts` is what properties read. The candidates of a selection are a set, and `Index` their place in
the order of the pool's pins. `RequestStream` composes it with the pump and
the lifecycle of one streamed response: the pool's actions unchanged, its own
consumer replaced by the pump (`Begin`, `Write`, `Resume`, `Close`, `Catch`), the client and
the timers.

**Installation.** `Acquisition` is the order of checks of a release, with the error each
failing check ends in, over the network or handed over; `RuntimeLayout` the deployments,
the references and the layout of earlier packages with its migration plan; `ServiceManager`
the systemd and launchd adapters and `reconcile`, as sets of outcomes. `Installation`
composes the three: one process per command, one durable effect per step, killed
anywhere; `published` are the releases of the channels, `bootstrap`, `launcher`, `record`, `svc`
what an installation consists of.

**Storage and control plane.** `Storage` has the two state roots as records that move as a whole: the
database's schema, the acknowledged writes it holds and the state of its file (whole, torn, beside an
old WAL), the ownership lock, the migration marker, the backups with the writes each holds, and the
marker of the retention run. `pc` is where each process that opens the control plane is, `mover` and
`undoing` what it has to settle or to undo. `Target` gives each process its own release; `detached` says
that a restore has written over the file the gateway has open. `ControlPlane` has the
tables with versioned rows and every mutation as one transaction; `Management` adds the
bootstrap tokens, sessions, the tabs of a browser with their forms, the credential service
and the router as writers.

**Routing.** `Compatibility` has the documents of the three stores per claim, the
read-modify-write of their writers, and the effective answer. `ModelRouting` extends it with
the policy, the leases, sessions and agent contexts, and resolves each request await
by await: `Begin`, for each claim one `ReadDocument` per document in any order, `Resolve`, `Finish`, or
`AnswerList`. `banned`, `inForce` and `promoted` of a request are history: the bans that lasted all along, the evidence
and the promotions that were in force at some moment. `Wired` says whether the server was built with the
registry of agent contexts; the shipped gateway never is (`owned-gateway.ts:187-207`).

**Launch.** `ClaudeOverlay` is the migration of the shared overlay and the refresh of a view, file
operation by file operation, by any number of launches; `HarnessLaunch` puts the lease, the child,
the signals and the bounded shutdown around it.

**Conversation.** `Translation` holds the pure part as operators: decoders, fidelity
envelope, payloads, the step of each adapter on a chunk, the encoders. A text is the sequence
of its fragments and a fragment a number given once, so loss, doubling and reordering show.
`Conversation` makes exchanges of it: `exchange` is the request as route and adapter hold it,
`answer` what the provider gave, `adapter` and `encoder` the states of one stream, `client` what
the client made of the frames, `past` what it remembers and `stored` the continuation store.

How they fit: the update's `runtime` is a `GatewayOwnership` process seen from outside;
a gateway of `GatewayOwnership` is a process of `CredentialRefresh`, whose committed generation
is the `gen` of an account of `PoolRouting`; a target of `ModelRouting` names the pool
`PoolRouting` selects from; an account of `CredentialLogin` or `CredentialRefresh` is a row of
`ControlPlane`, whose system writer stands for them; an event of `RequestStream` is what an adapter of
`Translation` yields; a lease of `HarnessLaunch` is one of `GatewayOwnership`; `Installation` leaves
the references `UpdateTransaction` starts from. `RequestStream` extends `PoolRouting`,
`Management` `ControlPlane`, `ModelRouting` `Compatibility`, `HarnessLaunch` `ClaudeOverlay`,
`Conversation` `Translation`, `Installation` its three parts. Otherwise they share no variable and
are checked apart.

## Runs

State counts are those of the given bounds, exhausted.

| Run | Instance | Distinct states | Shows |
|---|---|---|---|
| `update` | 3 deployments (two of one version, the third refused by preflight), 1 session, 1 crash, writes of a rollback may fail | 7,403,562 | a journal names what is staged; the known-good deployment stays reachable; sessions are drained before a restart; one rollback; the record is true; every step implements `Switchover` |
| `gateway_ownership` | 2 launchers and the resident, 2 crashes, inspections that time out on a live gateway | 495,526 | one process in the critical section; a published gateway that was not taken for gone stays attestable; no lease after the idle decision; an unused gateway stops |
| `credential_refresh` | 2 processes, 3 tokens, 2 account versions, 1 crash | 951,620 | one commit per generation, no commit lost, the account not ahead of the store |
| `credential_login_cancelled` | 3 attempts, 2 providers | violated | see Findings |
| `pool_routing` | 2 requests of two sessions, 2 accounts served in turn, any earlier binding, one rotation, 1 account change | 2,983,399 | round-robin in turn; a selection is current when it is used |
| `request_stream` | 1 request, 3 accounts, 3 strategies, two rotations, up to 4 events, 1 account change, connections lost before and after the provider took the request | 1,014,341 | attempts within the budget, one outcome each, none after one that was known to be taken; one whole attempt is shown; the end is told; every stream ends |
| `installation` | 1 command at a time on one systemd home of any age, 2 releases of one channel, 1 kill | 1,698,851 | the store serves something whole at every step; nothing is activated or downgraded by staging; an `init` that succeeds has its definition loaded |
| `storage` | a gateway and the `rly init` of the next release, every set of roots, 4 schema versions, 2 crashes, 1 failing migration, 1 write, time passing once | 8,283,794 | a database that is not whole is marked; writes acknowledged while nobody else migrates survive; a marker has its backup; retention skips no class |
| `management` | 2 tabs, 2 providers, 2 accounts, a pool, a profile, 2 changes | 860,938 | references agree; the newest policy is current; no update lost |
| `routing` | 4 models of 2 providers in 2 families, 1 launch with agents, 2 requests, 1 edit, 2 writes of the stores | 2,372,961 | targets frozen, the tiers of a lease in one family, nothing served that was under one and the same ban throughout, nothing unpinned without evidence and a promotion |
| `launch` | 2 launches of a profile, new home or shared overlay, both migrating if they like, 1 edit, 1 write of the child, 1 crash, a signal | 4,368,165 | copies converge; imports are tracked; an edit is removed only if it came between comparison and removal; a view is taken away only by a launch that looked before it was made |
| `conversation` | 2 exchanges, either protocol and rail, streamed or not, up to 2 fragments in the first answer; histories resent with or without ids, results and other words in one message | 449,833 | the answer arrives whole; what the provider is sent is all of the conversation that its protocol can be told |

Not runs, but passing as well: `UpdateLiveness.cfg` (`RunsTerminate`,
`InterruptedSettles`) and `CredentialLogin.cfg` (an account holds what was asked for it, and until a login
is cancelled nothing is left behind), and `LaunchSettles` holds on `Launch.cfg` with a new home, no edit, no write of
the child and `SPECIFICATION LaunchSpec`.

Every module with variables of its own in its runs has a `TypeOK` (`StreamTypeOK`, `StoreTypeOK`),
those that are extended being covered by the module that extends them; it is an invariant on
the same bounds, and is listed by no run because it finds only mistakes of the model.
The type invariants are theorems, but for that of `Conversation`.

### Bounds, and why they are enough

* *Deployments*: a candidate, what serves, and what an earlier run left behind. Two of
  the three share a version because versions, not digests, decide whether a resumed
  rollback restarts.
* *Crashes*: one updater crash anywhere; the number of runs before and after it is
  unbounded, so a crash of the recovery of earlier, completed work is covered. The proofs hold for
  every number. Gateway and storage need two: an owner that dies, and the one that
  reclaims after it.
* *Sessions*: the updater only asks whether there is one.
* *Gateway processes*: the lock needs a dead owner, a reclaimer and a competitor.
  An incarnation is used once, so a restart is a further process.
* *Tokens*: three generations give a commit, a competing commit and one that is stale
  by two; two account versions give one winner and one loser of the compare-and-set.
* *Pool requests*: the cursor, the bindings and the cooldowns are shared by any two
  requests; a third adds no kind of step. `request_stream` has three accounts and two rotations, for one
  request, because what it adds is private to a request.
* *Releases*: two give an older and a newer one; a downgrade needs no third.
* *Rows*: one pool and one profile over two providers and accounts give every pair of
  references that can disagree; two changes give a conflict and its loser.
* *Routing*: one launch, for launches share only the stores and the policy, and two requests, which come one
  after the other: requests share nothing but what they read, and a write between two reads does not ask who
  makes it. Two writes are what it takes to straddle: one before a document is read, one after.
* *Models*: two families at one provider and a second provider separate pin, mapping, derivation
  and projection; the other dimensions are fixed per model.
* *Fragments*: two for the first answer, so that one can come before the name of its call
  and one after; tool calls are in two slots to interleave. What a second exchange replays does
  not depend on the length of the first.
* *View*: `PoolRouting.cfg` leaves out of a state what became of earlier attempts, which no property of that run
  and no guard reads.
* *Symmetry* only in runs without liveness properties, over processes, deployments, tabs or
  slots that the specification does not distinguish.
* *Deadlock* is checked in `update` and `storage`. The other modules set it off: processes are used
  once, requests are over, or bounds on time, edits and messages are spent.

### Properties conditioned on `stolen`

In the lock protocols of the gateway and of the credential store a reclaimer compares a
stale lock file and then unlinks it by path, so it can unlink a lock created in
between (the rows `ArtifactsNotErased` and `NewerNotOverwritten` of Findings). The other
properties of these modules are stated for behaviours where no live lock was removed
(`~stolen`), and only where they need it: `IdleStopUnleased` and `UnusedGatewayStops` do
without. The state roots have the same protocol; `Storage` has the parameter `Reclaimers`,
which is 1 in its run: two processes between comparing and unlinking break it too.

### Fairness

* `UpdateTransaction!FairSpec` (`UpdateLiveness.cfg`): weak fairness of the updater's step
  (a started Node process runs on) and of starting `rly update` without a candidate
  (the operator runs it again, which is what the record asks for). Nothing is assumed of
  sessions, runtimes or crashes. `RunsTerminate` and `InterruptedSettles` hold.
* `GatewayOwnership!FairSpec`: weak fairness of a host's shutdown steps, of its expiry
  timer, and of the lapse of a lease whose holder is gone: timers and continuations of
  the live process. No launcher is assumed to make progress and no lock to be released.
* `RequestStream!FairStreamSpec`: weak fairness of the gateway's own steps and of the
  pump, of an armed timer, and of the client either taking a written frame or going away: its
  socket closes in the end. Nothing is assumed of the provider, which may stall at any
  step; that streams close all the same is what the timers are for.
* `HarnessLaunch!LaunchSpec`: weak fairness of a live launch's steps, used by `LaunchSettles`.

The other runs check safety and assume nothing.

## Proofs

Every module that a run checks is proved about, in eight proof modules, for every value of its constants that
the assumptions in the module allow: any number of processes, deployments, releases, accounts, models, exchanges or launches, and any bound on
crashes, kills, edits and events. Each proof module has the lemmas about values and helpers first, then one lemma per
action or group of actions, the inductive invariant as a theorem (`Invariance`, `Invariant`, `Arrangement`, `LaunchInvariance`,
`RoutingInvariance`), and what follows from it. The assumptions are those named `…Assumption` beside the constants; TLC evaluates
them in every run. Those that say more than what kind of value a constant has:
`MappingAssumption` (a reviewed tier mapping stays in its family, as `routing/model-tiers` requires of a
mapping), `TreesAssumption` (a home's directories come with their parents) and
`OverlayAssumption`. Hypotheses beyond them are part of the theorem and are listed with it.

A theorem is about the module's own `Spec`; where a run starts elsewhere its initial states are
listed. `Management` is proved from an empty store, its run starts with two providers and an account
(`MCInit`), which mutations reach. `ModelRouting` is proved from any stores and policy,
its run from two. `RequestStream` is proved for `StreamSpec`, `Conversation` for `ConversationSpec`, `HarnessLaunch` for `LaunchSpec`: the
runs' actions with or without fairness.

| Module | Theorem | States | Hypothesis beyond the assumptions |
|---|---|---|---|
| `Deployment_proofs` | `TypeCorrect`, `Invariant` | `TypeOK`; `IInv` | |
| | `JournalSafety`, `KnownGood`, `FenceHolds`, `OneRollback`, `TrueRecord` | the five invariants of the run | |
| | `WriteAhead`, `Terminal`, `ReferencesSafe` | how references and the terminal state may move | |
| | `Implements` | `Spec => WholeOrNotAtAll`, the refinement of `Switchover` | |
| | `StoreIsSafe`, `StagingSafe` | `Installation`: `StoreServes`, `StagingIsSafe` | `Alone` |
| | `InitLoads` | `InitLoadsDefinition` | `Alone`, `Platform # "darwin"` |
| | `InstallationTypeCorrect` | `InstallationTypeOK` | `Alone` |
| `GatewayOwnership_proofs` | `TypeCorrect`, `MutualExclusion`, `Attestable`, `Unleased` | `TypeOK` and the run's three invariants | |
| `CredentialRefresh_proofs` | `TypeCorrect`, `CommittedOnce`, `NotAhead`, `StoredForward` | `TypeOK`, the run's two invariants, `CommitsKept` | |
| | `LoginConnects`, `LoginTypeCorrect` | `CredentialLogin`: `ConnectedAsAsked` and `NoStrayCredential`; `LoginTypeOK` | `LoginParameters` |
| `RequestStream_proofs` | `TypeCorrect`, `NoReplay`, `ServedInTurn`, `SelectionCurrent` | `PoolRouting`: `TypeOK`, `AttemptsSound`, `RoundRobinFair`, `SelectionIsCurrent` | |
| | `StreamTypeCorrect`, `WholeAttempt`, `EndTold`, `Silent` | `StreamTypeOK`, `WholeAttemptShown`, `EndIsTold`, `SilentAfterCancel` (the safety half of `EveryStreamEnds`) | |
| | `StreamAttempts` | `AttemptsSound` of a request whose consumer is the pump | |
| `Conversation_proofs` | `ResponsesKept` | `RecordsKept` | `~Anonymous` |
| | `AnswersDelivered` | `DeliveredWhole` | `~Drafts`, `SlotsApart` |
| | `HistoryIsKept` | `ConversationKept` | `~Drafts`, `~Anonymous`, `SlotsApart` |
| `Storage_proofs` | `TypeCorrect`, `RetentionComplete` | `TypeOK`, `RetentionCoversAll` | `Reclaimers = 1` |
| | `NoTornDatabase`, `BackupThere`, `AcknowledgedKept` | `WholeWhenUnmarked`, `MarkerHasBackup`, `AckedSurvives`, for any releases side by side | `Reclaimers = 1` |
| `Management_proofs` | `References`, `PolicyCurrent`, `NothingLost` | `ReferencesAgree`, `PolicyIsCurrent`, `NoLostUpdate` | |
| `Launch_proofs` | `RoutingTypeCorrect`, `TargetFrozen`, `FamilyKept`, `UnpinnedVouched` | `ModelRouting`: `TypeOK` and three invariants of the run, whether or not `Wired` | |
| | `NotBanned` | `AnswerNotBanned` | `~AllowQuarantineBypass` |
| | `LaunchTypeCorrect`, `Converges`, `Tracked`, `EditsStay`, `ViewStays` | `HarnessLaunch`: `LaunchTypeOK`, `CopiesConverge`, `ImportsAreTracked`, `EditsAreNotDeleted`, `ProfileViewStays`, for any number of launches at once | |

The hypotheses describe what the code does not ensure (the rows of Findings), and TLC finds a property
violated without each: `Reclaimers = 1`, that no two processes are between comparing a stale lock and unlinking it;
`Alone`, that commands run one after the other; `Platform # "darwin"`, that the service manager is not launchd;
`~Anonymous`, that every provider names its responses; `~Drafts`, that an item is announced with the opaque value it
keeps; `SlotsApart`, that no call has slot 999, whose index is the one the chat adapter gives the reasoning
(`1000`). `LoginParameters` is about the constants only. With two reclaimers TLC finds `WholeWhenUnmarked` violated and,
on the bounds tried, none of the other three; their proofs need the invariant that `Reclaimers = 1` gives, for with
two a process can be at work in a root that another has moved back, of which the model says nothing. Likewise
`HistoryIsKept` has `~Drafts` and `SlotsApart` for the invariant of `AnswersDelivered`, on which it rests.
`~AllowQuarantineBypass` is the code's default: the bypass is there to serve what is banned. Some
conditions are part of a property, because the code breaks what lies outside them, which Findings lists: `~stolen` in
those of the locks, `silent` in `PublishedStaysAttestable`, that every launch got the lock and none died in
`ImportsAreTracked`, what `acked` counts in `AckedSurvives`, what a protocol can be told in `ConversationKept`.

### The inductive invariants

None of the properties is inductive alone. The invariants were checked by TLC on the runs' bounds before
they were proved; what each adds:

**Update.** Whether `SwitchActive` may move `refs/active` depends on the journal's phase, which depends on
the step the updater is at. `IInv` says, step by step, which phases the journal can be in
(`PhaseAtStep`), where a deployment is named (`DeploymentsNamed`), that `refs/staged` is the
journal's candidate until the switch (`StagedAtStep`), and what the terminal state is reached
from (`TerminalAtStep`). `RollbacksAtPhase` counts rollbacks by phase. `SwitchInv` says what a journal
says of itself, the record's state at the steps whose journal may not be open, and that after the switch the
candidate is active and after the restore what it replaced (`JournalConsistent`, `StateAtStep`,
`ActiveAtStep`): with it initial states map to initial states of `Switchover` (`InitMaps`) and
each step to a step or a stutter (`StepMaps`). `KnownGoodInv` says where the known-good deployment is at
each step, `RecordInv` what has happened when the record claims something, `FenceInv` that a fenced
process found without a session gets none. `RecoverFacts` and `RecoverChoice` are what the recovery does with each phase.

**Installation.** `StoreInv` says what the command at work may rely on at each step, whichever earlier one was killed
where. `CommandAtStep` keeps commands to their steps; `TreesAreNamed`: a deployment holds the tree it is named by;
`ReleaseAtStep`: from its verification on a release's tree is whole, and logged from the log on; `NotOlder`: an update
works on nothing older than was observed. `NothingServed`, `MigrationAtStep` and `CommittedServes` follow a
home of an earlier package through its migration, `StoreRemoved` an uninstall. `ServiceAtStep` says
what the manager has loaded by the time an `init` is ready.

**Gateway.** What a process read of the lock file was true when it read it, and the properties need it
to be true when it acts. `HolderNamed` says that the process in the critical section is the
one the file names, `SawAtStep` what a reclaimer may have seen, `GatewayAtStep` and
`OpenListens` which gateways listen at which step of their host, `ArtifactsAtStep` whose record and secret are on disk:
who erases them found nobody there but the `silent`, and a gateway loses its own only if it is one of those. And
`RefusingAtStep` that a gateway past its decision counts no lease.

**Credentials.** `LastCommit` relates the last commit in history to the record on disk; it needs
`MineAtStep` and `RecordsSound` (what a task wants to commit succeeds what it read), `HolderNamed` as
above, `ActivePresent` (the record is readable at every step of the three-file commit), and
`ErasedStays` for what a purge has removed. `KindAtStep` keeps refreshes, openings and
revocations to their own steps. For the logins, `OneLogin` says that until one is cancelled there is one at a time, and that the
promise and the provider its outcome meets are its own; `AttemptsMade` that what accounts hold, sessions
name and promises wait for was asked for. The proof found what four attempts show and three do not: a
cancellation with an old state reaches a login that has not begun to listen, and lets a second
one start beside it (`oauth-login.ts:83`), so it counts as cancelling that login.

**Requests.** `RequestInv` says of each request, stage by stage, how the attempts made, the accounts tried
and the events yielded agree (`AttemptsInv`, `TriedInv`, `StageInv`, `EmittedInv`), and that no attempt
but the last was known to be taken, nor the last where a replay follows (`CleanInv`): what is replayed failed before
the provider took it, or without anyone knowing (`taken`). `QueueInv`: the request that is choosing is the
one the selector serves, and the bindings it read are current. `TurnInv` measures how far behind the
cursor an account was served (`Back`), which is what keeps a turn from serving one twice while
candidates change. `SInv` adds, per stream, how what the pool yielded, what is held back and what the client was
written fit together (`FlowInv`, `HeldInv`, `CompletedInv`, `FramesInv`), and which stages of pump and generator
meet with which termination (`PumpInv`, `ToldInv`).

**Conversation.** `CommitmentTold` says that an exchange in progress has not failed, whatever its adapter said so far,
and `StoredOnce` that a response is stored under the number of its own exchange, which no later one has. `WholeInv` follows a streamed answer through
adapter, encoder and client: items and fragments agree (`Copied`), what the chat adapter holds back are the arguments
of calls without a name (`ChatCopied`), and the rail's opaque values are told at the end, the first of each item
(`RailCopied`). An answer goes on, is finished or failed (`Going`, `Finished`, `Failed`). `AtOnceInv` says the
same of an answer that is collected. Encoders and clients are folds: `FoldLeads` says once, by well-founded induction
over the length, that a fold goes through its sequence step by step (`Leads`); `Told` says of a chunk's events that
what they make of the encoder, their frames make of the client. It holds of no events, of each kind of event (the
`Tell…` lemmas) and of two chunks joined (`ToldOn`), so each step of an adapter needs no induction of its own.
`KeptInv` goes from one exchange to the next. What a client remembers is `Sound`: of each item it knows one
opaque value, given in an exchange that is over. What the store, and an exchange in progress, hold of that is `Carried`: the same items but
for opaque values and empty texts, in the same order, and artifacts of which the first for each item is its own value.
A history resent without ids is `Sound` still (`ResentSound`), decoding makes it `Carried`, storing an answer keeps
it so, and a payload restores the values: what is sent of a `Carried` history is what can be told of the `Sound` one
(`ToBeTold`, `PostedWhole`): the rail is told opaque values by id, the chat protocol only the results of a message that has some.
The memories of Anthropic clients may mix results with other words; those of Responses clients cannot (`UnmixedAll`). Selections of a
sequence are stated once (`InOrder` of a restriction), and joined by `ChosenJoined` and `FlatJoined`; the lemmas
about folds and sequences are at the end of `RequestStream_proofs`, which `Conversation_proofs` extends.

**Storage.** `Layout` is about who may be where: the migration lock is its holder's (`LockOrder`), a
root nobody has opened is as it was left (`Pristine`), a legacy root is not in use, and the retention marker
lists what is owed (`Owes`). `Safe`, on top of it, says what the files are worth at each step of an open:
the database is whole or marked and the marked backup is there (`Intact`), and whoever restores,
migrates or deletes old backups finds what it relies on (`Stands`); a marker written while the gateway applies
its retention policy names a backup too new to be deleted. `Kept` says the same of the rows (`At`): where a
marker is about to go, the database holds every promised write; where one is about to come, the last backup of the
process that puts it there does. What an older gateway writes meanwhile is promised to nobody, so that it may be open
throughout.

**Management.** `FormsKnown` relates a form that a tab, or a writer, holds to the row it was read from:
a version that is still current was read as it is. Each mutation is shown once to keep `ReferencesAgree` and `PolicyIsCurrent`,
and to write a row of the version it was given (`WritesRow`, `RowsMove`).

**Routing.** `Notes` says what the history of a request has of the stores: the bans it still holds last, and the evidence and the
promotions in force are noted. `ReadInv` says what the request has between its awaits: every claim it depends on is read or
still to be read, each document read of the current one shows the bans that have lasted since and nothing that is not noted
(`DocInv`), and so do the labels made of three documents (`LabelInv`), whichever moments these are of. `DecideInv` and `ListInv` carry
that to the answer, `ContextInv` is about the agent contexts, and `FrozenFor` names, per lease, the one session
that all its requests and answers are of.

**Launch.** `CopiesInv` adds what a launch in the middle of copying holds (`Copying`). `TracksInv`
says what the manifest knows of the view when the lock is free, and what the launch that holds it will
save (`RunTracks`). `DirsInv` says that a view lies in the container of
views, and that a launch about to move `claude` away saw no container when it looked: whatever it takes away was made
since. No order among launches is needed for it.

### Only model-checked

* Everything under fairness, for the prover has no `ENABLED`: `UnusedGatewayStops`, the liveness half of
  `EveryStreamEnds`, `RunsTerminate`, `InterruptedSettles`, `LaunchSettles`.
* `ConversationTypeOK` holds on the bounds of `Conversation.cfg` in the place of an invariant; what the theorems need of it
  their own invariants say.

## Findings

`credential_login_cancelled`: `credentials/service.ts:59` keeps the promise of a login's outcome
and nothing handles its rejection until a request asks for it. A login that is cancelled, or whose
exchange fails, before that is an unhandled rejection, which ends the process, sessions and
all. The run finds it within a few steps.

Configurations beside the runs, each of which TLC finds violated:

| Configuration | Statement | What happens |
|---|---|---|
| `UpdateRolledBackPromoted` | `runtime/update/lifecycle.ts:83` recovery never guesses that a candidate committed | a rollback writes the old journal back as `committed` (`:767`); the next run's recovery promotes the candidate it undid |
| `UpdateRestoredNotServing` | `README.md:170` a failed activation rolls back to the previous runtime | a rollback resumed between two deployments of one version compares versions (`lifecycle.ts:123`) and restarts nothing |
| `LaunchMigration` | `runtime/claude-overlay.ts:634` the next launch completes phase two | a crash after `claude/views` is made and before the second rename (`:670`): the next launch takes `claude` for the container of views and leaves the staging directory for ever |

Properties in the modules that TLC finds violated when one of the configurations checks them instead of its
own, with the constants changed as the second column says:

| Property | Constants changed | Statement and what happens |
|---|---|---|
| `RefusedNeverSwitched` | `UpdateRolledBackPromoted.cfg` | `lifecycle.ts:286` a refused candidate must not be activated: the refusal leaves the journal `staged`, and a later run resumes it without a preflight |
| `NoSessionCut` | the same | `README.md:170` sessions keep the old runtime until they drain: "already down" is read once, and a resident that boots later is restarted undrained |
| `ArtifactsNotErased` | `GatewayOwnership.cfg`, `SPECIFICATION Spec`, `MaxCrashes = 1` | `runtime/runtime-store.ts:166` removes only artifacts bound to this instance: of two reclaimers the slower unlinks the faster's lock. Without a crash (`MaxCrashes = 0`) as well: a gateway that answers neither `/identity` within 750 ms nor `/healthz` within 500 ms counts as absent (`gateway-lifecycle.ts:90-110`, `gateway-attestation.ts:60-66`, `:132-152`), so the next acquisition erases its record and secrets, and then cannot bind its port |
| `NewerNotOverwritten` | `CredentialRefresh.cfg`, `MaxTokens = 4`, `MaxVersion = 1`, `MaxCrashes = 0` | `refresh.test.ts:53` a stale refresh does not overwrite a newer generation: an unwritten lock passes for stale |
| `WholeWhenUnmarked` | `Storage.cfg`, `Reclaimers = 2`, `MaxCrashes = 1`, `InitialRoots = {{"canonical"}}` | two reclaimers of one stale lock migrate at once |
| `StateLockMeansMigration` | `Storage.cfg`, `MaxCrashes = 0` | a process that finds the move done leaves the lock it created (`storage/paths.ts:163`) |
| `StoreServes` | `Installation.cfg`, `Procs = {p1, p2}`, `MaxRelease = 1`, `MaxKills = 0` | two commands share the staging directory, and each removes the other's copy |
| `InitLoadsDefinition` | `Installation.cfg`, `Platform = "darwin"`, `MaxKills = 0` | `service-manager/reconcile.ts:8`: launchd keeps the old definition loaded (`launch-agent.ts:138`) |
| `ReplayedNotTaken` | `RequestStream.cfg`, `SPECIFICATION StreamSpec` | `providers/commitment.ts:15` `not-sent`: nothing can have committed (and `:26`): a reset after the provider took the request counts as `not-sent` (`openai-responses-adapter.ts:18`) and is replayed on the next account |
| `TimeoutAnswered` | `RequestStream.cfg`, `SPECIFICATION StreamSpec`, `MaxChanges = 0` | `routes/stream-pump.ts:40` a timeout emits one in-band error frame: the pool holds `response-started` back, the setup timer fires, and the flushed event meets a terminated pump (`:50`), which breaks without a frame |
| `CancelledConnectsNothing` | `CredentialLogin.cfg` | a cancelled login connects nothing: the exchange in flight survives the cancellation and attaches its account (`credentials/oauth-login.ts:116`) |
| `LayoutAccepted` | `Installation.cfg`, `MaxRelease = 1` | `rly init` takes over the layout of an earlier package: a kill in the migration leaves a layout that the next `init` refuses (`runtime/update/installer.ts:361`) |
| `LegacyStaysActive` | `Installation.cfg`, `MaxRelease = 1`, `MaxKills = 0` | `installer.ts:52` the earlier runtime stays active: `init` exposes its own copy over a migrated runtime (`runtime/bootstrap.ts:289`) |
| `LoggedOutMeansRevoked` | `Management.cfg` | a tab that says "Logged out." belongs to a browser whose session is no longer honoured: a logout with a CSRF token that another tab rotated is refused, and the page says "Logged out." all the same (`management/ui/client.ts:483`) |
| `FrozenTargetServes` | `Routing.cfg`, `MaxWrites = 0`, `Policies <- MCReplaced` | `profiles/resolve-route.ts:83` a removed profile keeps serving the frozen target: the profile is looked up by name (`:85`): one that took the name comes first and ends the session's requests |
| `ListedIsRoutable` | `Routing.cfg`, `Roots = {"reviewed"}`, `MaxEdits = 0`, `MaxWrites = 0` | discovery lists by the registry of effective compatibility, projection routes by the static state (`model-projection/project.ts:14`) |
| `InheritFollowsParent` | `Routing.cfg` | `profiles/resolve-route.ts:92` a subagent request inherits its parent agent's frozen model: no server is built with an agent-context registry, so nothing is inherited |
| `SharedOverlayMoved` | `LaunchMigration.cfg`, `ViewOf <- ProfileAndDefault`, `MaxCrashes = 0` | `claude-overlay.ts:630-631` "exactly once" and idempotent under concurrent launches: a launch that looked before the other one moved the overlay moves `claude` again, which takes the view from under a child that runs in it and nests the overlay in `claude/views/default/views/default` |
| `ProjectionModelKept` | `Launch.cfg`, a new home, no edits | a launch writes back the settings it read before Claude wrote the projected model |
| `ProjectionNotDisowned` | `Launch.cfg`, one launch, 2 edits, `Edits <- AllEdits` | an edit between the read and the hash records a hash that is not the projection's; once the native file is removed, the projection is taken for the view's own |
| `SettingsConverge` | `Launch.cfg`, one launch, `Edits <- AllEdits` | an edit between the read and the write is older than the file written without it, and is not read again |
| `SaidBesideResults` | `Conversation.cfg` | what a client says beside a tool result is said: the chat adapter makes of such a message its results only (`providers/direct/openai-chat-adapter.ts:33`) |
| `RequiredFailsClosed` | `Conversation.cfg` | `protocols/openai-responses/decoder.ts:216` encrypted content is required and must fail closed: of reasoning resent without an id it is dropped, and the request goes on (`openai-responses-adapter.ts:458`) |

Of `Conversation.cfg`, one constant set to `TRUE` at a time: `Drafts` violates `DeliveredWhole` (the first announced
value wins), `Replays` violates `CallsCarryReasoning`, and `Anonymous` violates `RecordsKept` (records share the id `provider-response`) and, with three exchanges, `HistoryReplayed`. `EndIsLast` (usage after
the last frame) and `ContinuationNotDropped` fail without any.

Seen in the code and in no configuration: an abort before the headers cools the account
down, although `tests/routing/retry.test.ts:139` is about aborts; a write that fails inside the
rollback is caught by the handler that rolls back (`lifecycle.ts:691`), so a second one starts; a
record without a journal is rolled back again by every run; a timeout of `/drain` is thrown out of
`runUpdate` (`lifecycle.ts:342`); a rotated refresh token whose commit fails is lost
(`credentials/broker.ts:213`); a quarantine on a claim without evidence has no effect; on the native rail
a request carries both `previous_response_id` and the expanded history; response ids outside
`[A-Za-z0-9_-]` make the continuation store throw after `response.completed`; the last record of an event
stream is lost when no blank line follows it; the lock of a Claude view is not released when
the preparation throws, nor after a crash, and every later launch waits a second and goes on without it.

Outside what the properties promise, and found by stating them:

* Writes of an older gateway that commit while a newer release migrates, or after that migration was restored under
  it, are lost: nothing keeps a serving process out (`storage/migrations.ts:65-78`, `:102-127`). `AckedSurvives` does not
  count them. What its later checkpoints may write over the restored file is not modelled.
* The three documents of a claim are read by independent awaits (`compatibility/registry.ts:136-140`). A read that straddles a
  failed observation and the lift of a quarantine labels trusted a claim that was banned at every moment, each time for
  another reason; and evidence of one moment combines with the decision of another. `AnswerNotBanned` is about one and
  the same ban, `UnpinnedIsVouched` about moments that may differ.
* An edit of a view file between its hash and its removal is deleted with the file (`claude-overlay.ts:712-715`), although
  "a divergent view copy is … never deleted". `EditsAreNotDeleted` allows just that.
* A replay on the next account repeats a request whose connection was lost, taken or not; `AttemptsSound` denies it only for
  one the gateway knew to be taken.

## Abstractions

**Update and installation**
* Deployment trees, manifests, digests and signatures are identities; a validation succeeds or fails.
* The update lock is exclusive; its file protocol is that of the locks of `GatewayOwnership`.
* Removing two links, or the duplicates and the stale staging directory, is one step. A dangling
  `current` of an earlier package is left out, and so are the error codes a handoff maps to others.
* `repairInstall` compares an artifact name with a digest, which never agree: it always repairs.

**Gateway and launch**
* `/identity`, HMAC proofs and secrets: whose they are. Two secret files of an instance are one.
* The read-modify-write of `ownership.json` under `leases.lock` only rewrites the lease list; the model
  keeps the lock and who holds it, and takes the leases from memory.
* A lease request that the host handles after its client gave up is modelled only while the client waits.
* Timers are a step that may happen; their lengths and the number of attempts are nondeterministic.
* In the overlay, one settings file, one copied file and one projected plugin file stand for the
  surfaces; content is a version, `mine` or `rly`; two files written in one millisecond are not
  distinguished. The hash of an imported file, the comparison and the removal are steps of their own; a hash and the
  write that follows it are one, and so are the release of the lock and the marker. The one I/O
  error modelled is the source removed before its copy; launches without a profile skip the
  update check (`cli/main.ts:326`) and are a launch that is not refused.

**Credentials**
* A recovery's own temporary file is collapsed. Corrupt files are left out; an unreadable lock is
  modelled, because the code itself produces one.
* The callback server stops accepting before the next request (`setImmediate` runs in between); a browser
  that keeps its connection, Cline's import and a failing purge are left out.

**Requests**
* Auth, quota and transient outcomes differ in the length of the cooldown and the quota class: one
  class, `retryable`. Cooldowns end when they may; `quotaAware` ordering is off.
* `live` and `route.outputStarted` become true together and are one field. The commitments
  `tool-boundary` and `client-output-started` rotate alike and are one; what seals a route is an `output`.
* `revalidate` compares the generation with the snapshot it was taken from, which cannot differ; the
  account's state and cooldown can, and are in the model. A snapshot's expiry by time is left out.
* A request's signal is read only by its adapter, while it waits for headers or body.
* No shipped adapter emits `response-failed`; the pool handles it, so the model's provider may send it. Every
  shipped adapter throws when the body ends before a response started.
* The generator is returned by its consumer at an event, never between: while it waits inside, the
  pump waits too. An error frame in the pump's `catch` and the `finally` after it are one step, and one event is one frame.
* Timers are not served between the end of a step and the continuation it resolves: a finished
  generator and its waiting pump are one turn of the event loop.

**Storage and management**
* A gateway does not write while the file is torn, or beside another's write-ahead log.
* SQLite's transactions are single steps; a restore over a database with a write-ahead log is not, and is
  modelled file by file. A comparison and the rename after it are one step in the rollback of a root.
* `policy.revision` and the audit log grow by one per change and are bounded by `MaxChanges`.

**Routing**
* A claim's key stands for its identity. The three documents of a claim are read in any order and everything may move
  between two of them; those that nobody writes in the run (`Contested`) are read at once. A canary run is any sequence of appended claims.
* The only denials of the policy are those about capabilities. A lease that expires drops its
  sessions, and leaves its agent contexts, as the code does.

**Conversation**
* Names, schemas, images, inference parameters and the wording of frames are left out. Exchanges come one
  after the other: two at once share only the continuation store's atomic `get` and `put`.
* Parallel calls without an index, which the adapter merges, reasoning in a chat answer that is not
  streamed, which it does not read, and tool ids that repeat from turn to turn are outside the inputs.

## Not modelled, and why

* The update lock's file (`runtime/update/store.ts`), the model registry's data, quota-aware
  ordering, the length of cooldowns, several pools over one file of bindings and
  responses that are retried without a stream are within reach and not yet done.
* The command line, configuration, observability, target detection, HTML, header and status
  codes of the HTTP server: formats and reads, with no state of their own; the tests own them.
* The gate matrix, the installed and live canary runners, and the release scripts: sequential scripts over
  real clients, providers and files; what a run appends to the stores is any sequence of claims.
* The nested case of a native root inside a Claude view, and the throwaway home of Codex launches.

## What is left of the plan

1. Proofs: the installation with two commands, once they no longer share a staging directory.
2. The update lock as a module, in place of the assumption that it is exclusive.
3. Sessions, leases and the update's fence composed: what of a launch session survives an idle
   stop, a drain and a restart.
4. Quota-aware ordering; several pools over one file of bindings.
