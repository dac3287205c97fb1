----------------------------- MODULE Installation -----------------------------
(* rly install, rly init, rly update from a channel and rly uninstall on one *)
(* home (src/src/cli, src/src/installer, src/src/runtime/bootstrap.ts): the  *)
(* acquisition of a release into the shared staging directory, the first     *)
(* deployment, the service, the launcher and the installation record, with   *)
(* commands that fail or are killed between any two steps.                   *)
EXTENDS RuntimeLayout, ServiceManager

CONSTANTS Procs, MaxKills
ASSUME InstallationAssumption == MaxKills \in Nat

VARIABLES
  published,  \* the newest release of each channel
  observed,   \* installer/observed-channels.json
  log,        \* the releases named in installer/acquisition-log.json
  unpacked,   \* installer/staging/<release>.unpacked
  svc, bootstrap, launcher, record,
  proc, kills

installationVars == <<published, observed, log, unpacked, store, svc, bootstrap, launcher,
                      record, proc, kills>>
install == <<svc, bootstrap, launcher, record>>
origin  == <<published, kills>>

Idle == [cmd |-> None, at |-> "idle", channel |-> None, release |-> 0, own |-> FALSE,
         first |-> FALSE, id |-> NoId, result |-> None]

InstallationInit ==
  /\ published \in [Channels -> {1}] /\ observed = [c \in Channels |-> 0] /\ log = {}
  /\ unpacked = [r \in Channels \X Releases |-> None]
  /\ deployed = [i \in Ids |-> NoDeployment] /\ NoReferences
  \* an empty home, or the runtime and the record of an earlier package
  /\ \/ NoLegacyRuntime /\ record = FALSE
     \/ LegacyRuntime /\ record \in BOOLEAN
  \* nothing registered, or the service of an earlier package
  /\ svc \in {NoService, [file |-> "legacy", loaded |-> "legacy", running |-> "legacy", enabled |-> TRUE]}
  /\ bootstrap = FALSE /\ launcher \in {None, "foreign"}
  /\ proc = [p \in Procs |-> Idle] /\ kills = 0

At(p, step) == proc[p].at = step
Go(p, step) == proc' = [proc EXCEPT ![p].at = step]
End(p, result) == proc' = [proc EXCEPT ![p] = [Idle EXCEPT !.cmd = proc[p].cmd, !.result = result]]

\* resolveActiveDeployment: a reference to a deployment with its own metadata
\* and its dispatcher, or nothing.
ActiveResolves == Validated(active)

(***************************************************************************)
(* The commands.  rly init is run again on a home that has a deployment;   *)
(* rly update needs the record, and lays the launcher script again.        *)
(***************************************************************************)
\* A tarball handed over is accepted with the directory of its signed documents.
InstallOptions == [artifact : BOOLEAN, metadata : BOOLEAN]
UninstallOptions == [purge : BOOLEAN, yes : BOOLEAN]
RequestedChannels ==
  Channels \cap {ResolveChannel(named, build) : named \in {"beta", "stable", "current"},
                                               build \in {"dev", "beta", "stable"}}

AcquireForInstall(options) ==
  CASE options.artifact /\ options.metadata -> "handoff"
    [] options.artifact -> "refused"
    [] OTHER -> "acquire"

RunInstall(p) ==
  \E options \in InstallOptions :
    LET path == AcquireForInstall(options)
        next == [Idle EXCEPT !.cmd = "install"]
    IN  /\ At(p, "idle")
        /\ proc' = [proc EXCEPT ![p] = IF path = "refused" THEN [next EXCEPT !.result = "failed"]
                                       ELSE [next EXCEPT !.at = path]]
        /\ UNCHANGED <<origin, observed, log, unpacked, store, install>>

RunInitAgain(p) ==
  /\ At(p, "idle") /\ active # NoId
  /\ proc' = [proc EXCEPT ![p] = [Idle EXCEPT !.cmd = "init", !.at = "home"]]
  /\ UNCHANGED <<origin, observed, log, unpacked, store, install>>

RunUpdateCommand(p) ==
  /\ At(p, "idle") /\ record /\ IsSupported
  /\ bootstrap' = TRUE
  /\ proc' = [proc EXCEPT ![p] = [Idle EXCEPT !.cmd = "update", !.at = "acquire"]]
  /\ UNCHANGED <<origin, observed, log, unpacked, store, svc, launcher, record>>

(***************************************************************************)
(* Acquisition.  The origin serves an offer with at most one defect, and   *)
(* possibly an older release than the newest one.  Only an update compares *)
(* the channel's counter with the highest one observed.                    *)
(***************************************************************************)
Offers == {{}} \cup {{d} : d \in Defects \ {"rollback"}}
HighestObserved(p, channel) == IF proc[p].cmd = "update" THEN observed[channel] ELSE 0

AcquireVerifiedCandidate(p) ==
  \E channel \in RequestedChannels, offer \in Offers :
    \E served \in 1..published[channel] :
      /\ At(p, "acquire")
      /\ LET refusal == Refusal(MetadataChecks(channel) \o BytesChecks,
                                WithRollback(offer, served, HighestObserved(p, channel)), "network")
         IN  IF refusal # NoError
             THEN /\ End(p, "failed") /\ UNCHANGED unpacked
             ELSE /\ proc' = [proc EXCEPT ![p].at = "unpack", ![p].channel = channel, ![p].release = served]
                  /\ unpacked' = [unpacked EXCEPT ![<<channel, served>>] = "partial"]
      /\ UNCHANGED <<origin, observed, log, store, install>>

\* The bootstrap installer hands over its own private directory: nobody else
\* writes there, and an installation never checks the counter.
VerifyLocalAcquisition(p) ==
  \E channel \in RequestedChannels, offer \in Offers :
    \E served \in 1..published[channel] :
      /\ At(p, "handoff")
      /\ IF Refusal(AllChecks(channel), offer, "handoff") # NoError THEN End(p, "failed")
         ELSE proc' = [proc EXCEPT ![p].at = "observe", ![p].channel = channel,
                                   ![p].release = served, ![p].own = TRUE]
      /\ UNCHANGED <<origin, observed, log, unpacked, store, install>>

Source(p) == <<proc[p].channel, proc[p].release>>
Tree(p) == IF proc[p].own THEN "whole" ELSE unpacked[Source(p)]

\* tar ends: the tree is whole, unless another command has removed it and is
\* extracting the same release into the same directory.
Untar(p) ==
  /\ At(p, "unpack") /\ Go(p, "verify")
  /\ unpacked' = [unpacked EXCEPT ![Source(p)] =
       IF \E q \in Procs \ {p} : At(q, "unpack") /\ Source(q) = Source(p) THEN "partial" ELSE "whole"]
  /\ UNCHANGED <<origin, observed, log, store, install>>

VerifyUnpackedArtifact(p) ==
  \E offer \in Offers :
    /\ At(p, "verify")
    /\ IF Refusal(TreeChecks, IF Tree(p) = "whole" THEN offer ELSE {"wrong-tree"}, "network") # NoError
       THEN End(p, "failed") ELSE Go(p, "observe")
    /\ UNCHANGED <<origin, observed, log, unpacked, store, install>>

RecordObserved(p) ==
  /\ At(p, "observe") /\ Go(p, "log")
  /\ observed' = [observed EXCEPT ![proc[p].channel] = IF @ >= proc[p].release THEN @ ELSE proc[p].release]
  /\ UNCHANGED <<origin, log, unpacked, store, install>>

AppendAcquisition(p) ==
  /\ At(p, "log") /\ Go(p, IF proc[p].cmd = "update" THEN "layout" ELSE "route")
  /\ log' = log \cup {Source(p)}
  /\ UNCHANGED <<origin, observed, unpacked, store, install>>

\* An installation without a record, or without an active deployment, is a
\* first one; otherwise it is a repair; both go on as init does, and only the
\* first lays the launcher link.
FirstInstall(p) ==
  /\ At(p, "route") /\ (~record \/ active = NoId)
  /\ proc' = [proc EXCEPT ![p].at = "home", ![p].first = TRUE]
  /\ UNCHANGED <<origin, observed, log, unpacked, store, install>>

RepairInstall(p) ==
  /\ At(p, "route") /\ record /\ active # NoId
  /\ Go(p, "home")
  /\ UNCHANGED <<origin, observed, log, unpacked, store, install>>

(***************************************************************************)
(* rly init.                                                               *)
(***************************************************************************)
\* The durable home opens, or the command rejects; a platform without a
\* service manager has only the record written.
PrepareHome(p) ==
  /\ At(p, "home")
  /\ \/ End(p, "failed") /\ UNCHANGED <<bootstrap, record>>
     \/ IF IsSupported THEN bootstrap' = TRUE /\ Go(p, "deploy") /\ UNCHANGED record
        ELSE record' = TRUE /\ End(p, "ok") /\ UNCHANGED bootstrap
  /\ UNCHANGED <<origin, observed, log, unpacked, store, svc, launcher>>

\* A committed deployment stays; otherwise the tree is copied and the copy is
\* what is hashed.
MaterializeRuntimeTree(p) ==
  /\ At(p, "deploy")
  /\ IF ActiveResolves THEN Go(p, "reconcile")
     ELSE IF proc[p].cmd = "init" \/ Tree(p) = None THEN End(p, "failed")
     ELSE proc' = [proc EXCEPT ![p].at = "adopt",
                               ![p].id = <<"pruned", proc[p].channel, proc[p].release, Tree(p)>>]
  /\ UNCHANGED <<origin, observed, log, unpacked, store, install>>

AdoptDeployment(p) ==
  /\ At(p, "adopt") /\ Go(p, "backfill")
  /\ deployed' = IF deployed[proc[p].id].tree # None THEN deployed
                 ELSE [deployed EXCEPT ![proc[p].id].tree = proc[p].id[4]]
  /\ UNCHANGED <<origin, observed, log, unpacked, aside, active, previous, staged, layout, install>>

BackfillMetadata(p) ==
  /\ At(p, "backfill") /\ Go(p, "layout")
  /\ deployed' = [deployed EXCEPT ![proc[p].id].meta = deployed[proc[p].id].tree # None]
  /\ UNCHANGED <<origin, observed, log, unpacked, aside, active, previous, staged, layout, install>>

\* setActiveReferences validates the deployment before a reference moves.
SetActiveReference(p) ==
  /\ At(p, "activate")
  /\ IF Validated(proc[p].id) THEN active' = proc[p].id /\ previous' = NoId /\ Go(p, "reconcile")
     ELSE End(p, "failed") /\ UNCHANGED <<active, previous>>
  /\ UNCHANGED <<origin, observed, log, unpacked, deployed, aside, staged, layout, install>>

ReconcileService(p) ==
  /\ At(p, "reconcile")
  /\ \E o \in ReconcileDefinition(svc) :
       /\ svc' = o.svc
       /\ IF o.status = "failed" THEN End(p, "failed") ELSE Go(p, "start")
  /\ UNCHANGED <<origin, observed, log, unpacked, store, bootstrap, launcher, record>>

StartService(p) ==
  /\ At(p, "start")
  /\ \E o \in Start(svc) :
       /\ svc' = o.svc
       /\ IF o.ok THEN Go(p, "record") ELSE End(p, "failed")
  /\ UNCHANGED <<origin, observed, log, unpacked, store, bootstrap, launcher, record>>

WriteInstallation(p) ==
  /\ At(p, "record") /\ Go(p, "ready")
  /\ record' = TRUE
  /\ UNCHANGED <<origin, observed, log, unpacked, store, svc, bootstrap, launcher>>

\* The resident runtime attests itself, or the time is up.
WaitForReadiness(p) ==
  /\ At(p, "ready")
  /\ \/ End(p, "failed")
     \/ /\ svc.running # Absent
        /\ IF proc[p].cmd = "install" /\ proc[p].first THEN Go(p, "launcher") ELSE End(p, "ok")
  /\ UNCHANGED <<origin, observed, log, unpacked, store, install>>

\* Only a first installation lays the link; a path of somebody else stays.
InstallUserLauncherSymlink(p) ==
  /\ At(p, "launcher")
  /\ IF launcher = "foreign" THEN End(p, "failed") /\ UNCHANGED launcher
     ELSE End(p, "ok") /\ launcher' = "own"
  /\ UNCHANGED <<origin, observed, log, unpacked, store, svc, bootstrap, record>>

(***************************************************************************)
(* Before it touches the store, a command brings the layout up to date;    *)
(* what another command has migrated, or was killed migrating, is resumed. *)
(***************************************************************************)
Refuse(p) == End(p, "failed") /\ UNCHANGED store
AfterLayout(p) == IF proc[p].cmd = "update" THEN "hash" ELSE "activate"

EnsureRuntimeLayout(p) ==
  /\ At(p, "layout")
  /\ \/ RecordNewLayout /\ Go(p, AfterLayout(p))
     \/ PlanMigration /\ Go(p, "migrate")
     \/ layout.marker = "committed" /\ Go(p, "links") /\ UNCHANGED store
     \/ layout.marker # "committed" /\ ~NothingLegacy /\ Unresolvable /\ Refuse(p)
  /\ UNCHANGED <<origin, observed, log, unpacked, install>>

BugMigrateLegacyLayout(p) ==
  /\ \/ At(p, "migrate") /\ Pending # {} /\ (\E id \in Pending : MigrateEntry(id)) /\ UNCHANGED proc
     \/ At(p, "migrate") /\ Pending = {} /\ Go(p, "refs") /\ CommitMigration
     \/ At(p, "refs") /\ RemoveLegacyLinks /\ Go(p, "clean")
     \/ At(p, "links") /\ RemoveLegacyLinks /\ Go(p, "clean")
     \/ At(p, "clean") /\ CleanVersions /\ Go(p, AfterLayout(p))
  /\ UNCHANGED <<origin, observed, log, unpacked, install>>

\* An entry whose directory is gone, and a reference that names something
\* else, end the command.
MigrateLegacyLayout(p) ==
  /\ \/ /\ At(p, "migrate")
        /\ \/ Pending = {} /\ Go(p, "refs") /\ UNCHANGED store
           \/ \E id \in Pending : IF Movable(id) THEN MigrateEntry(id) /\ UNCHANGED proc ELSE Refuse(p)
     \/ /\ At(p, "refs")
        /\ IF Taken(active, layout.current) THEN Refuse(p) ELSE EnsureActiveRef /\ Go(p, "previous-ref")
     \/ /\ At(p, "previous-ref")
        /\ IF Taken(previous, layout.before) THEN Refuse(p) ELSE EnsurePreviousRef /\ Go(p, "commit")
     \/ At(p, "commit") /\ CommitMigration /\ Go(p, "links")
     \/ At(p, "links") /\ RemoveLegacyLinks /\ Go(p, "clean")
     \/ At(p, "clean") /\ CleanVersions /\ Go(p, AfterLayout(p))
  /\ UNCHANGED <<origin, observed, log, unpacked, install>>

(***************************************************************************)
(* rly update from a channel installs and does not activate: the source is *)
(* hashed, then copied under that name, then only refs/staged moves.       *)
(***************************************************************************)
ComputeArtifactId(p) ==
  /\ At(p, "hash")
  /\ IF Tree(p) = None THEN End(p, "failed")
     ELSE proc' = [proc EXCEPT ![p].at = "copy",
                               ![p].id = <<"full", proc[p].channel, proc[p].release, Tree(p)>>]
  /\ UNCHANGED <<origin, observed, log, unpacked, store, install>>

CopyCandidate(p) ==
  /\ At(p, "copy")
  /\ IF deployed[proc[p].id].tree # None THEN Go(p, "expose") /\ UNCHANGED deployed
     ELSE IF Tree(p) = None THEN End(p, "failed") /\ UNCHANGED deployed
     ELSE /\ Go(p, "expose")
          /\ deployed' = [deployed EXCEPT ![proc[p].id] = [tree |-> Tree(p), meta |-> TRUE]]
  /\ UNCHANGED <<origin, observed, log, unpacked, aside, active, previous, staged, layout, install>>

BugExposeStaged(p) ==
  /\ At(p, "expose") /\ End(p, "ok")
  /\ staged' = proc[p].id /\ active' = proc[p].id
  /\ UNCHANGED <<origin, observed, log, unpacked, deployed, aside, previous, layout, install>>

ExposeStaged(p) ==
  /\ At(p, "expose")
  /\ IF Validated(proc[p].id) THEN staged' = proc[p].id /\ End(p, "ok")
     ELSE End(p, "failed") /\ UNCHANGED staged
  /\ UNCHANGED <<origin, observed, log, unpacked, deployed, aside, active, previous, layout, install>>

(***************************************************************************)
(* rly uninstall: the service, the launcher, then the product's files one  *)
(* directory after the other.  A purge needs --yes and no record, and      *)
(* leaves none; what is refused changes nothing.                           *)
(***************************************************************************)
RunUninstallCommand(p) ==
  \E options \in UninstallOptions :
    /\ At(p, "idle")
    /\ IF options.purge THEN options.yes ELSE record
    /\ \E o \in Unregister(svc) : svc' = o.svc
    /\ proc' = [proc EXCEPT ![p] = [Idle EXCEPT !.cmd = IF options.purge THEN "purge" ELSE "uninstall",
                                                !.at = "unlink"]]
    /\ UNCHANGED <<origin, observed, log, unpacked, store, bootstrap, launcher, record>>

\* A purge goes on when the launcher is not ours; a default uninstall stops.
RemoveUserLauncherSymlink(p) ==
  /\ At(p, "unlink")
  /\ launcher' = IF launcher = "own" THEN None ELSE launcher
  /\ IF launcher = "foreign" /\ proc[p].cmd = "uninstall" THEN End(p, "failed") ELSE Go(p, "rm-bootstrap")
  /\ UNCHANGED <<origin, observed, log, unpacked, store, svc, bootstrap, record>>

RemoveBootstrap(p) ==
  /\ At(p, "rm-bootstrap") /\ Go(p, "rm-runtime")
  /\ bootstrap' = FALSE
  /\ UNCHANGED <<origin, observed, log, unpacked, store, svc, launcher, record>>

RemoveRuntimeStore(p) ==
  /\ At(p, "rm-runtime") /\ Go(p, "rm-installer")
  /\ deployed' = [i \in Ids |-> NoDeployment]
  /\ active' = NoId /\ previous' = NoId /\ staged' = NoId
  /\ aside' = {} /\ layout' = NewLayout
  /\ UNCHANGED <<origin, observed, log, unpacked, install>>

\* The installer's state holds the observed counters and the staging directory.
RemoveInstallerState(p) ==
  /\ At(p, "rm-installer") /\ End(p, "ok")
  /\ observed' = [c \in Channels |-> 0] /\ log' = {}
  /\ unpacked' = [r \in Channels \X Releases |-> None]
  /\ record' = (record /\ proc[p].cmd = "uninstall")
  /\ UNCHANGED <<origin, store, svc, bootstrap, launcher>>

(***************************************************************************)
(* Around them: a release is published, the user logs in again, a command  *)
(* is killed.  What a killed register, start or copy has already done      *)
(* stays.                                                                  *)
(***************************************************************************)
\* The copy a command was making under a name of its own.
LeftCopies(p) ==
  IF At(p, "adopt") \/ (At(p, "copy") /\ deployed[proc[p].id].tree = None)
  THEN {[proc[p].id EXCEPT ![4] = part] : part \in Parts \cap {"partial", proc[p].id[4]}} ELSE {}

Publish ==
  \E c \in Channels :
    /\ published[c] < MaxRelease
    /\ published' = [published EXCEPT ![c] = @ + 1]
    /\ UNCHANGED <<observed, log, unpacked, store, install, proc, kills>>

UserLogsIn ==
  /\ svc' = Login(svc)
  /\ UNCHANGED <<origin, observed, log, unpacked, store, bootstrap, launcher, record, proc>>

Kill(p) ==
  /\ ~At(p, "idle") /\ kills < MaxKills
  /\ kills' = kills + 1
  /\ \/ UNCHANGED svc
     \/ At(p, "reconcile") /\ \E o \in ReconcileDefinition(svc) : svc' = o.svc
     \/ At(p, "start") /\ \E o \in Start(svc) : svc' = o.svc
  /\ \/ UNCHANGED aside
     \/ \E copy \in LeftCopies(p) : aside' = aside \cup {copy}
  /\ End(p, "failed")
  /\ UNCHANGED <<published, observed, log, unpacked, deployed, active, previous, staged, layout,
                 bootstrap, launcher, record>>

Command(p) ==
  \/ RunInstall(p) \/ RunInitAgain(p) \/ RunUpdateCommand(p) \/ RunUninstallCommand(p)

Step(p) ==
  \/ AcquireVerifiedCandidate(p) \/ VerifyLocalAcquisition(p) \/ Untar(p)
  \/ VerifyUnpackedArtifact(p) \/ RecordObserved(p) \/ AppendAcquisition(p)
  \/ FirstInstall(p) \/ RepairInstall(p)
  \/ PrepareHome(p) \/ MaterializeRuntimeTree(p) \/ AdoptDeployment(p)
  \/ BackfillMetadata(p) \/ EnsureRuntimeLayout(p) \/ MigrateLegacyLayout(p)
  \/ SetActiveReference(p) \/ ReconcileService(p)
  \/ StartService(p) \/ WriteInstallation(p) \/ WaitForReadiness(p)
  \/ InstallUserLauncherSymlink(p)
  \/ ComputeArtifactId(p) \/ CopyCandidate(p) \/ ExposeStaged(p)
  \/ RemoveUserLauncherSymlink(p) \/ RemoveBootstrap(p) \/ RemoveRuntimeStore(p)
  \/ RemoveInstallerState(p)

InstallationNext == Publish \/ UserLogsIn \/ \E p \in Procs : Command(p) \/ Step(p) \/ Kill(p)

InstallationSpec == InstallationInit /\ [][InstallationNext]_installationVars

(***************************************************************************)
(* Properties.                                                             *)
(***************************************************************************)
\* What is exposed as active or staged is a whole release whose acquisition
\* was verified and logged, under the name of what it holds, or what an
\* earlier package has installed: a command killed while it downloads, unpacks
\* or copies leaves nothing a later one adopts.
OnlyVerifiedIsExposed ==
  \A i \in {active, staged} \ {NoId} :
    /\ deployed[i].tree = "whole" /\ i[4] = "whole" /\ deployed[i].meta
    /\ i \in LegacyIds \/ <<i[2], i[3]>> \in log

\* What the service, the references, the staging directory and a command may be.
InstallationTypeOK ==
  /\ svc \in Service
  /\ {active, previous, staged} \subseteq Ids \cup {NoId}
  /\ deployed \in [Ids -> [tree : Trees, meta : BOOLEAN]]
  /\ unpacked \in [Channels \X Releases -> Trees]
  /\ observed \in [Channels -> 0..MaxRelease] /\ log \subseteq Channels \X Releases
  /\ \A p \in Procs : proc[p].id \in Ids \cup {NoId}

\* A home of an earlier package always leads to a runtime that can serve: by
\* the old link and the bytes it names, under either name, or by a valid
\* active reference, wherever a migration was killed.
ServingKept ==
  (\E i \in LegacyIds : i \in aside \/ deployed[i].tree # None) =>
    \/ ActiveResolves
    \/ layout.current # NoId /\ (layout.current \in aside \/ deployed[layout.current].tree # None)

\* What the store offers to serve, at every moment.
StoreServes == OnlyVerifiedIsExposed /\ ServingKept

\* Installing, repairing and staging never move what is being served: the
\* active reference is set when there is no deployment, or only a migrated
\* one, and removed when the product is.
InstallDoesNotActivate ==
  [][active' # active => active \in (LegacyIds \cup {NoId}) \/ active' = NoId \/ ~ActiveResolves]_installationVars

\* An update stages nothing older than what the home has already seen of the
\* channel, through kills, other commands and an origin that goes back.
NoOlderStaged ==
  [][staged' # staged /\ staged' # NoId => staged'[3] >= observed[staged'[2]]]_installationVars

\* What the commands of an installed product may stage and activate.
StagingIsSafe == InstallDoesNotActivate /\ NoOlderStaged

\* A command of init that reports success leaves the manager with the
\* definition of the stable bootstrap loaded.
InitLoadsDefinition ==
  [][\A p \in Procs : At(p, "ready") /\ proc'[p].result = "ok" => svc.loaded = "expected"]_installationVars

\* An installation leaves the runtime of a migrated home active: only an
\* update with its drain and probation replaces what serves.
LegacyStaysActive ==
  [][active' # active /\ active \in LegacyIds => active' = NoId]_installationVars

\* No command is refused for the layout that the commands themselves left.
LayoutAccepted ==
  [][\A p \in Procs : At(p, "layout") /\ kills' = kills => proc'[p].result # "failed"]_installationVars
=============================================================================
