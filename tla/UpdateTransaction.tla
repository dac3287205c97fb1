-------------------------- MODULE UpdateTransaction --------------------------
(***************************************************************************)
(* `rly update`: staging a candidate runtime, draining the serving one,    *)
(* switching refs/active, probation, commit, and the single bounded        *)
(* rollback (src/runtime/update/lifecycle.ts), with the durable record and *)
(* its crash recovery (src/runtime/update/store.ts), the deployment        *)
(* references (src/runtime/update/installer.ts) and the process the        *)
(* service manager boots from refs/active.                                 *)
(*                                                                         *)
(* One updater runs at a time: every run holds the update lock from its    *)
(* first read to its end.  Each updater step is one durable effect or one  *)
(* call on another component, so a crash may fall between any two of them. *)
(***************************************************************************)
EXTENDS Naturals

CONSTANTS
  Artifacts,     \* immutable deployments, by artifact digest
  NoArtifact,    \* an absent reference or field
  Versions,      \* semantic versions
  VersionOf,     \* the version in the metadata of each deployment
  CliVersion,    \* RUNTIME_VERSION of the CLI and of launcher-owned gateways
  Blocked,       \* candidates preflight refuses: forward-only, or a foreign state schema
  Unidentified,  \* runtimes whose /identity reports no artifact digest
  WritesFail,    \* whether a rollback's own record writes may fail
  MaxSessions,   \* bound on concurrent launch sessions
  MaxCrashes     \* bound on crashes of the updater process

ASSUME ArtifactAssumption ==
  /\ NoArtifact \notin Artifacts
  /\ VersionOf \in [Artifacts -> Versions]
  /\ CliVersion \in Versions
  /\ Blocked \subseteq Artifacts
  /\ Unidentified \subseteq Artifacts
  /\ WritesFail \in BOOLEAN

ASSUME BoundAssumption == MaxSessions \in Nat /\ MaxCrashes \in Nat

VARIABLES
  rec,       \* update-state.json
  refs,      \* refs/staged, refs/active, refs/previous
  runtime,   \* what holds the configured gateway port
  pc,        \* next step of the updater, "idle" when none runs
  run,       \* what the updater keeps in memory
  crashes,   \* updater crashes so far
  hist       \* observations that only properties read

vars == <<rec, refs, runtime, pc, run, crashes, hist>>

Phases == {"none", "staged", "draining", "switching", "probation", "committing",
           "committed", "rolling-back", "recovery-required"}
States == {"none", "installing", "pending-activation", "activating", "active",
           "rollback-required", "recovery-required", "failed"}
Steps == {"idle", "inspect", "install", "journal", "preflight", "activate", "fence",
          "drain", "switching", "switch-previous", "switch-active", "restart",
          "probation", "verify", "committing", "commit", "rollback", "restore",
          "restore-active", "swap-previous", "rb-restart", "rb-verify", "rb-commit"}
Kinds == {"down", "resident", "incompatible", "launcher", "foreign"}

ArtifactOrNone == Artifacts \cup {NoArtifact}

Journal == [phase : Phases, cand : ArtifactOrNone, prev : ArtifactOrNone,
            attempts : 0..1]
Record == [state : States, cur : Versions, art : ArtifactOrNone,
           pend : ArtifactOrNone, hasPrev : BOOLEAN,
           last : {"none", "ok", "failed"}, tx : Journal]
References == [staged : ArtifactOrNone, active : ArtifactOrNone,
               previous : ArtifactOrNone]
Runtime == [kind : Kinds, art : ArtifactOrNone, draining : BOOLEAN,
            sessions : 0..MaxSessions]
Run == [cand : ArtifactOrNone, force : BOOLEAN, installOnly : BOOLEAN,
        down : BOOLEAN, restarted : BOOLEAN, old : ArtifactOrNone,
        caller : {"resume", "try", "catch"}]
History == [known : ArtifactOrNone, probed : BOOLEAN, refused : BOOLEAN,
            cut : BOOLEAN, restores : 0..2, threw : BOOLEAN]

NoJournal == [phase |-> "none", cand |-> NoArtifact, prev |-> NoArtifact, attempts |-> 0]
NoRecord == [state |-> "none", cur |-> CliVersion, art |-> NoArtifact, pend |-> NoArtifact,
             hasPrev |-> FALSE, last |-> "none", tx |-> NoJournal]
NoRun == [cand |-> NoArtifact, force |-> FALSE, installOnly |-> FALSE, down |-> FALSE,
          restarted |-> FALSE, old |-> NoArtifact, caller |-> "resume"]
Down == [kind |-> "down", art |-> NoArtifact, draining |-> FALSE, sessions |-> 0]
Fresh(a) == [kind |-> "resident", art |-> a, draining |-> FALSE, sessions |-> 0]

TypeOK ==
  /\ rec \in Record
  /\ refs \in References
  /\ runtime \in Runtime
  /\ pc \in Steps
  /\ run \in Run
  /\ crashes \in 0..MaxCrashes
  /\ hist \in History

-----------------------------------------------------------------------------
(* Records a home can start from: none, or one an older release, which     *)
(* wrote no journal, was interrupted with.                                 *)

LegacyRecord(s, a, p) ==
  [NoRecord EXCEPT !.state = s, !.pend = a, !.hasPrev = p]

Init ==
  /\ \/ /\ rec = NoRecord
        /\ refs \in [staged : {NoArtifact}, active : ArtifactOrNone, previous : {NoArtifact}]
     \/ \E a, b \in Artifacts :
          /\ a # b
          /\ \/ /\ rec = LegacyRecord("pending-activation", a, TRUE)
                /\ refs = [staged |-> a, active |-> b, previous |-> NoArtifact]
             \/ /\ \E p \in BOOLEAN : rec = LegacyRecord("activating", a, p)
                /\ refs = [staged |-> a, active |-> a, previous |-> b]
  /\ \/ runtime = Down
     \/ refs.active # NoArtifact /\ runtime = Fresh(refs.active)
  /\ pc = "idle"
  /\ run = NoRun
  /\ crashes = 0
  /\ hist = [known |-> IF rec.state = "activating" THEN NoArtifact ELSE refs.active,
             probed |-> FALSE, refused |-> FALSE, cut |-> FALSE,
             restores |-> 0, threw |-> FALSE]

-----------------------------------------------------------------------------
(* Crash recovery of the record.                                           *)

RecoverLegacy(r) ==
  CASE r.state = "installing" -> [r EXCEPT !.state = "failed"]
    [] r.state = "pending-activation" /\ r.pend = NoArtifact -> [r EXCEPT !.state = "failed"]
    [] r.state = "activating" ->
         [r EXCEPT !.state = IF r.hasPrev THEN "rollback-required" ELSE "failed"]
    [] OTHER -> r

RecoverCommitted(r) ==
  [r EXCEPT !.state = "active", !.cur = VersionOf[r.tx.cand], !.art = r.tx.cand,
            !.pend = NoArtifact, !.last = "ok"]

\* A second chance for what is terminal.
BugRecoverJournal(r) ==
  CASE r.tx.phase = "committed" -> RecoverCommitted(r)
    [] r.tx.phase \in {"staged", "draining"} -> [r EXCEPT !.state = "pending-activation"]
    [] OTHER -> [r EXCEPT !.state = "rollback-required"]

RecoverJournal(r) ==
  CASE r.tx.phase = "committed" -> RecoverCommitted(r)
    [] r.tx.phase \in {"staged", "draining"} -> [r EXCEPT !.state = "pending-activation"]
    [] r.tx.phase \in {"switching", "probation", "committing"} ->
         [r EXCEPT !.state = "rollback-required"]
    [] r.tx.phase = "rolling-back" ->
         [r EXCEPT !.state = IF r.tx.attempts >= 1 THEN "recovery-required"
                                                   ELSE "rollback-required"]
    [] OTHER -> [r EXCEPT !.state = "recovery-required"]

Recover(r) == IF r.tx.phase = "none" THEN RecoverLegacy(r) ELSE RecoverJournal(r)

-----------------------------------------------------------------------------
(* Starting a run and choosing its path.                                   *)

Goto(step) == pc' = step

\* The run ends: its lock is released and its memory is gone.
Finish == pc' = "idle" /\ run' = NoRun

StartRun(c, force, installOnly) ==
  /\ pc = "idle"
  /\ installOnly => c # NoArtifact /\ ~force
  /\ rec' = Recover(rec)
  /\ run' = [NoRun EXCEPT !.cand = c, !.force = force, !.installOnly = installOnly]
  /\ Goto("inspect")
  /\ UNCHANGED <<refs, runtime, crashes, hist>>

\* The version an attested runtime reports, RUNTIME_VERSION otherwise.
ReportedVersion == IF runtime.kind = "resident" THEN VersionOf[runtime.art] ELSE CliVersion

Inspected == [run EXCEPT !.down = runtime.kind = "down"]

ReportRecoveryRequired ==
  /\ pc = "inspect" /\ rec.state = "recovery-required"
  /\ Finish
  /\ UNCHANGED <<rec, refs, runtime, crashes, hist>>

\* Restart only when the resident reports another version than the record.
ResumeRollback ==
  /\ pc = "inspect" /\ rec.state = "rollback-required"
  /\ run' = [run EXCEPT !.restarted = runtime.kind = "resident" /\ ReportedVersion # rec.cur]
  /\ Goto("rollback")
  /\ UNCHANGED <<rec, refs, runtime, crashes, hist>>

NothingToActivate ==
  /\ pc = "inspect" /\ run.cand = NoArtifact
  /\ rec.state \in {"none", "active", "failed"}
  /\ Finish
  /\ UNCHANGED <<rec, refs, runtime, crashes, hist>>

ResumePending ==
  /\ pc = "inspect" /\ run.cand = NoArtifact /\ rec.state = "pending-activation"
  /\ refs.staged # NoArtifact
  /\ run' = Inspected
  /\ Goto("activate")
  /\ UNCHANGED <<rec, refs, runtime, crashes, hist>>

PendingFailsVerification ==
  /\ pc = "inspect" /\ run.cand = NoArtifact /\ rec.state = "pending-activation"
  /\ rec' = [rec EXCEPT !.state = "failed"]
  /\ Finish
  /\ UNCHANGED <<refs, runtime, crashes, hist>>

Stageable == {"none", "active", "failed", "pending-activation"}

\* assertUpdateableRuntime: only a resident or an absent runtime is updated.
RefuseRuntime ==
  /\ pc = "inspect" /\ run.cand # NoArtifact /\ rec.state \in Stageable
  /\ runtime.kind \in {"foreign", "incompatible", "launcher"}
  /\ Finish
  /\ UNCHANGED <<rec, refs, runtime, crashes, hist>>

-----------------------------------------------------------------------------
(* Staging: install, open the journal, migration preflight.                *)

\* The journal survives the install of another candidate.
BugInstallingRecord ==
  [rec EXCEPT !.state = "installing", !.pend = run.cand, !.art = NoArtifact,
              !.cur = IF rec.state = "none" THEN ReportedVersion ELSE rec.cur]

\* The journal of the previous transaction is dropped here.
InstallingRecord ==
  [rec EXCEPT !.state = "installing", !.pend = run.cand, !.art = NoArtifact,
              !.cur = IF rec.state = "none" THEN ReportedVersion ELSE rec.cur,
              !.tx = NoJournal]

BeginInstall ==
  /\ pc = "inspect" /\ run.cand # NoArtifact /\ rec.state \in Stageable
  /\ runtime.kind \in {"down", "resident"}
  /\ rec' = InstallingRecord
  /\ run' = Inspected
  /\ Goto("install")
  /\ UNCHANGED <<refs, runtime, crashes, hist>>

InstallCandidate ==
  /\ pc = "install"
  /\ refs' = [refs EXCEPT !.staged = run.cand]
  /\ Goto("journal")
  /\ UNCHANGED <<rec, runtime, run, crashes, hist>>

InstallFails ==
  /\ pc = "install"
  /\ rec' = [rec EXCEPT !.state = "failed"]
  /\ Finish
  /\ UNCHANGED <<refs, runtime, crashes, hist>>

\* The journal takes its rollback target from the wrong reference.
BugOpenJournal ==
  /\ pc = "journal"
  /\ rec' = [rec EXCEPT !.state = "pending-activation",
                        !.hasPrev = rec.hasPrev \/ refs.active # NoArtifact,
                        !.tx = [phase |-> "staged", cand |-> run.cand,
                                prev |-> refs.previous, attempts |-> 0]]
  /\ hist' = [hist EXCEPT !.refused = FALSE, !.probed = FALSE, !.restores = 0]
  /\ Goto("preflight")
  /\ UNCHANGED <<refs, runtime, run, crashes>>

OpenJournal ==
  /\ pc = "journal"
  /\ rec' = [rec EXCEPT !.state = "pending-activation",
                        !.hasPrev = rec.hasPrev \/ refs.active # NoArtifact,
                        !.tx = [phase |-> "staged", cand |-> run.cand,
                                prev |-> refs.active, attempts |-> 0]]
  /\ hist' = [hist EXCEPT !.refused = FALSE, !.probed = FALSE, !.restores = 0]
  /\ Goto("preflight")
  /\ UNCHANGED <<refs, runtime, run, crashes>>

\* A candidate whose manifest cannot be read passes.
PreflightPasses ==
  /\ pc = "preflight"
  /\ IF run.installOnly THEN Finish ELSE Goto("activate") /\ UNCHANGED run
  /\ UNCHANGED <<rec, refs, runtime, crashes, hist>>

PreflightRefuses ==
  /\ pc = "preflight" /\ run.cand \in Blocked
  /\ rec' = [rec EXCEPT !.state = "failed"]
  /\ hist' = [hist EXCEPT !.refused = TRUE]
  /\ Finish
  /\ UNCHANGED <<refs, runtime, crashes>>

-----------------------------------------------------------------------------
(* Activation: fence, drain, switch, restart, probation, commit.           *)

\* A record without a journal gets one synthesised from the staged candidate.
TransactionFor(r) ==
  IF r.tx.phase # "none" THEN r.tx
  ELSE [phase |-> "draining", cand |-> refs.staged, prev |-> NoArtifact, attempts |-> 0]

WritePhase(state, phase) == rec' = [rec EXCEPT !.state = state, !.tx.phase = phase]

BeginActivation ==
  /\ pc = "activate"
  /\ rec' = [rec EXCEPT !.state = "activating",
                        !.tx = [TransactionFor(rec) EXCEPT !.phase = "draining"]]
  /\ hist' = [hist EXCEPT !.probed = FALSE, !.restores = 0]
  /\ Goto("fence")
  /\ UNCHANGED <<refs, runtime, run, crashes>>

JournalUnavailable ==
  /\ pc = "activate" /\ rec.tx.phase = "none"
  /\ Finish
  /\ UNCHANGED <<rec, refs, runtime, crashes, hist>>

AfterFence == IF run.down \/ run.force THEN "switching" ELSE "drain"

EngageFence ==
  /\ pc = "fence" /\ runtime.kind = "resident"
  /\ runtime' = [runtime EXCEPT !.draining = TRUE]
  /\ Goto(AfterFence)
  /\ UNCHANGED <<rec, refs, run, crashes, hist>>

\* Not resident, no readable secret, or /drain refused.
FenceNotEngaged ==
  /\ pc = "fence"
  /\ \/ /\ run.down \/ run.force
        /\ Goto("switching")
        /\ UNCHANGED <<rec, run>>
     \/ /\ ~run.down /\ ~run.force
        /\ WritePhase("pending-activation", "draining")
        /\ Finish
  /\ UNCHANGED <<refs, runtime, crashes, hist>>

\* The POST /drain rejects (its 750 ms timeout); the old runtime may have
\* engaged the fence all the same.  The rejection leaves runUpdate.
FenceThrows ==
  /\ pc = "fence" /\ runtime.kind = "resident"
  /\ \E applied \in BOOLEAN :
       runtime' = [runtime EXCEPT !.draining = @ \/ applied]
  /\ Finish
  /\ UNCHANGED <<rec, refs, crashes, hist>>

\* /identity answers with a proof under this instance's secret.
IdentityReadable == runtime.kind \in {"resident", "incompatible", "launcher"}

SessionsDrained ==
  /\ pc = "drain" /\ IdentityReadable /\ runtime.sessions = 0
  /\ Goto("switching")
  /\ UNCHANGED <<rec, refs, runtime, run, crashes, hist>>

\* Sessions remained, or the count stayed unknown, up to the deadline.
DrainDeadline ==
  /\ pc = "drain"
  /\ WritePhase("pending-activation", "draining")
  /\ Finish
  /\ UNCHANGED <<refs, runtime, crashes, hist>>

WriteSwitching ==
  /\ pc = "switching"
  /\ WritePhase("activating", "switching")
  /\ Goto("switch-previous")
  /\ UNCHANGED <<refs, runtime, run, crashes, hist>>

\* Rollback is called in the try block of activate, or in its catch.
StartRollback(restarted, caller) ==
  /\ run' = [run EXCEPT !.restarted = restarted, !.caller = caller]
  /\ Goto("rollback")

\* activateStaged: `previous` is written before `active`.
SwitchPrevious ==
  /\ pc = "switch-previous" /\ refs.staged # NoArtifact
  /\ IF refs.active = refs.staged
       THEN UNCHANGED refs /\ Goto("restart")
       ELSE refs' = [refs EXCEPT !.previous = refs.active] /\ Goto("switch-active")
  /\ UNCHANGED <<rec, runtime, run, crashes, hist>>

SwitchActive ==
  /\ pc = "switch-active"
  /\ refs' = [refs EXCEPT !.active = refs.staged]
  /\ Goto("restart")
  /\ UNCHANGED <<rec, runtime, run, crashes, hist>>

SwitchFails ==
  /\ pc \in {"switch-previous", "switch-active"}
  /\ StartRollback(FALSE, "try")
  /\ UNCHANGED <<rec, refs, runtime, crashes, hist>>

\* A process booted by the service manager serves refs/active, if it comes up.
Boots == {Down} \cup {Fresh(a) : a \in {refs.active} \ {NoArtifact}}

AfterServiceRestart ==
  IF runtime.kind \in {"launcher", "foreign"} THEN {runtime} ELSE Boots

AfterServiceStart == IF runtime.kind = "down" THEN Boots ELSE {runtime}

ControlledRestart ==
  /\ pc = "restart"
  /\ runtime' \in IF runtime.kind = "resident" THEN AfterServiceRestart ELSE AfterServiceStart
  /\ hist' = [hist EXCEPT !.cut = @ \/ (/\ runtime.kind = "resident"
                                         /\ runtime.sessions > 0
                                         /\ ~run.force)]
  /\ Goto("probation")
  /\ UNCHANGED <<rec, refs, run, crashes>>

\* The definition cannot be registered, so nothing was restarted, or the
\* restart of a running resident fails.
RestartFails ==
  /\ pc = "restart"
  /\ \E restarted \in {FALSE, runtime.kind = "resident"} : StartRollback(restarted, "try")
  /\ UNCHANGED <<rec, refs, runtime, crashes, hist>>

\* probation, committing and the commit write can each fail into rollback.
WriteFails ==
  /\ pc \in {"probation", "committing", "commit"}
  /\ StartRollback(TRUE, "catch")
  /\ UNCHANGED <<rec, refs, runtime, crashes, hist>>

WriteProbation ==
  /\ pc = "probation"
  /\ WritePhase("activating", "probation")
  /\ Goto("verify")
  /\ UNCHANGED <<refs, runtime, run, crashes, hist>>

\* verifyCandidateRuntime accepts the process on the port as deployment a:
\* exact version, and exact digest where the process reports one.
Attests(a) ==
  /\ runtime.kind \in {"resident", "launcher"}
  /\ ReportedVersion = VersionOf[a]
  /\ (runtime.kind = "resident" /\ runtime.art \notin Unidentified) => runtime.art = a

VerifyCandidate ==
  /\ pc = "verify" /\ Attests(rec.tx.cand)
  /\ hist' = [hist EXCEPT !.probed = TRUE]
  /\ Goto("committing")
  /\ UNCHANGED <<rec, refs, runtime, run, crashes>>

VerifyFails ==
  /\ pc = "verify"
  /\ StartRollback(TRUE, "try")
  /\ UNCHANGED <<rec, refs, runtime, crashes, hist>>

WriteCommitting ==
  /\ pc = "committing"
  /\ WritePhase("activating", "committing")
  /\ Goto("commit")
  /\ UNCHANGED <<refs, runtime, run, crashes, hist>>

Commit ==
  /\ pc = "commit"
  /\ rec' = [rec EXCEPT !.state = "active", !.cur = VersionOf[rec.tx.cand],
                        !.art = rec.tx.cand, !.pend = NoArtifact, !.last = "ok",
                        !.hasPrev = rec.hasPrev \/ rec.tx.prev # NoArtifact,
                        !.tx.phase = "committed"]
  /\ hist' = [hist EXCEPT !.known = rec.tx.cand]
  /\ Finish
  /\ UNCHANGED <<refs, runtime, crashes>>

-----------------------------------------------------------------------------
(* Rollback and the recovery-required terminal.                            *)

\* A failed rollback is reported but not recorded.
RecoveryRequired ==
  /\ rec' = [rec EXCEPT !.state = "recovery-required",
                        !.tx.phase = IF @ = "none" THEN @ ELSE "recovery-required"]
  /\ Finish

\* The catch of activate rolls back the record it wrote before draining, in
\* which no attempt is counted.
AttemptsInMemory == IF run.caller = "catch" THEN 0 ELSE rec.tx.attempts

\* The attempt is not counted durably.
BugBeginRollback ==
  /\ pc = "rollback"
  /\ rec' = [rec EXCEPT !.state = "rollback-required",
                        !.tx.phase = IF @ = "none" THEN @ ELSE "rolling-back"]
  /\ hist' = [hist EXCEPT !.restores = IF @ = 2 THEN @ ELSE @ + 1]
  /\ Goto("restore")
  /\ UNCHANGED <<refs, runtime, run, crashes>>

BeginRollback ==
  /\ pc = "rollback"
  /\ IF AttemptsInMemory >= 1
       THEN RecoveryRequired /\ UNCHANGED hist
       ELSE /\ rec' = [rec EXCEPT !.state = "rollback-required",
                                  !.tx = IF @.phase = "none" THEN @
                                         ELSE [@ EXCEPT !.phase = "rolling-back",
                                                        !.attempts = 1]]
            /\ hist' = [hist EXCEPT !.restores = IF @ = 2 THEN @ ELSE @ + 1]
            /\ Goto("restore") /\ UNCHANGED run
  /\ UNCHANGED <<refs, runtime, crashes>>

\* setActiveReferences from the journal: `previous` first.
RestoreFromJournal ==
  /\ pc = "restore" /\ rec.tx.prev # NoArtifact
  /\ refs' = [refs EXCEPT !.previous = rec.tx.cand]
  /\ Goto("restore-active")
  /\ UNCHANGED <<rec, runtime, run, crashes, hist>>

\* The two arguments of setActiveReferences swapped.
BugRestoreActive ==
  /\ pc = "restore-active"
  /\ refs' = [refs EXCEPT !.active = rec.tx.cand]
  /\ Goto("rb-restart")
  /\ UNCHANGED <<rec, runtime, run, crashes, hist>>

RestoreActive ==
  /\ pc = "restore-active"
  /\ refs' = [refs EXCEPT !.active = rec.tx.prev]
  /\ Goto("rb-restart")
  /\ UNCHANGED <<rec, runtime, run, crashes, hist>>

\* restorePrevious, when the journal names no artifact: `active` first.
RestorePrevious ==
  /\ pc = "restore" /\ rec.tx.prev = NoArtifact /\ refs.previous # NoArtifact
  /\ refs' = [refs EXCEPT !.active = refs.previous]
  /\ run' = [run EXCEPT !.old = refs.active]
  /\ Goto("swap-previous")
  /\ UNCHANGED <<rec, runtime, crashes, hist>>

SwapPrevious ==
  /\ pc = "swap-previous"
  /\ refs' = [refs EXCEPT !.previous = run.old]
  /\ Goto("rb-restart")
  /\ UNCHANGED <<rec, runtime, run, crashes, hist>>

Restored == IF rec.tx.prev # NoArtifact THEN rec.tx.prev ELSE refs.active

RestartRestored ==
  /\ pc = "rb-restart"
  /\ IF run.restarted
       THEN runtime' \in AfterServiceRestart /\ Goto("rb-verify")
       ELSE UNCHANGED runtime /\ Goto("rb-commit")
  /\ UNCHANGED <<rec, refs, run, crashes, hist>>

VerifyRestored ==
  /\ pc = "rb-verify" /\ Attests(Restored)
  /\ Goto("rb-commit")
  /\ UNCHANGED <<rec, refs, runtime, run, crashes, hist>>

\* The journal kept is the one the transaction had before its rollback.
RollbackCommitted ==
  /\ pc = "rb-commit"
  /\ rec' = [rec EXCEPT !.state = "active", !.cur = VersionOf[Restored],
                        !.art = Restored, !.pend = NoArtifact, !.last = "failed",
                        !.tx = IF @.phase = "none" THEN @
                               ELSE [@ EXCEPT !.phase = "committed", !.attempts = 0]]
  /\ Finish
  /\ UNCHANGED <<refs, runtime, crashes, hist>>

\* A missing or invalid deployment, a failed restart, verification or write.
RollbackFails ==
  /\ pc \in {"restore", "restore-active", "swap-previous", "rb-restart", "rb-verify",
             "rb-commit"}
  /\ RecoveryRequired
  /\ UNCHANGED <<refs, runtime, crashes, hist>>

\* The write that opens the rollback, or the one that records its failure,
\* throws.  Inside the try block of activate its catch rolls back once more.
RollbackThrows ==
  /\ WritesFail /\ run.caller = "try"
  /\ pc \in {"rollback", "restore", "restore-active", "swap-previous", "rb-restart",
             "rb-verify", "rb-commit"}
  /\ StartRollback(TRUE, "catch")
  /\ hist' = [hist EXCEPT !.threw = TRUE]
  /\ UNCHANGED <<rec, refs, runtime, crashes>>

-----------------------------------------------------------------------------
(* The rest of the machine.                                                *)

UpdaterCrashes ==
  /\ pc # "idle" /\ crashes < MaxCrashes
  /\ crashes' = crashes + 1
  /\ Finish
  /\ UNCHANGED <<rec, refs, runtime, hist>>

RuntimeExits ==
  /\ runtime.kind # "down"
  /\ runtime' = Down
  /\ UNCHANGED <<rec, refs, pc, run, crashes, hist>>

\* The service manager (re)starts the service, or a user's start does.
ServiceBoots ==
  /\ runtime.kind = "down"
  /\ runtime' \in Boots \ {Down}
  /\ UNCHANGED <<rec, refs, pc, run, crashes, hist>>

\* A launcher-owned gateway or a foreign process takes the free port.
PortTaken ==
  /\ runtime.kind = "down"
  /\ runtime' \in {[Down EXCEPT !.kind = k] : k \in {"launcher", "foreign"}}
  /\ UNCHANGED <<rec, refs, pc, run, crashes, hist>>

\* The operator edits the configuration under a running resident.
ConfigDrifts ==
  /\ runtime.kind = "resident"
  /\ runtime' = [runtime EXCEPT !.kind = "incompatible"]
  /\ UNCHANGED <<rec, refs, pc, run, crashes, hist>>

\* Issuance that does not look at the fence.
BugIssueSession ==
  /\ runtime.kind \in {"resident", "launcher"}
  /\ runtime.sessions < MaxSessions
  /\ runtime' = [runtime EXCEPT !.sessions = @ + 1]
  /\ UNCHANGED <<rec, refs, pc, run, crashes, hist>>

\* refuseIssuance: a draining gateway issues no launch session.
IssueSession ==
  /\ runtime.kind \in {"resident", "launcher"} /\ ~runtime.draining
  /\ runtime.sessions < MaxSessions
  /\ runtime' = [runtime EXCEPT !.sessions = @ + 1]
  /\ UNCHANGED <<rec, refs, pc, run, crashes, hist>>

\* A session that has already ended is released again.
SessionEnds ==
  /\ runtime.sessions > 0
  /\ runtime' = [runtime EXCEPT !.sessions = @ - 1]
  /\ UNCHANGED <<rec, refs, pc, run, crashes, hist>>

-----------------------------------------------------------------------------
Dispatch ==
  \/ ReportRecoveryRequired \/ ResumeRollback \/ NothingToActivate
  \/ ResumePending \/ PendingFailsVerification \/ RefuseRuntime \/ BeginInstall

Stage ==
  \/ InstallCandidate \/ InstallFails \/ OpenJournal
  \/ PreflightPasses \/ PreflightRefuses

Activate ==
  \/ BeginActivation \/ JournalUnavailable
  \/ EngageFence \/ FenceNotEngaged \/ FenceThrows
  \/ SessionsDrained \/ DrainDeadline \/ WriteSwitching
  \/ SwitchPrevious \/ SwitchActive \/ SwitchFails
  \/ ControlledRestart \/ RestartFails \/ WriteFails
  \/ WriteProbation \/ VerifyCandidate \/ VerifyFails \/ WriteCommitting \/ Commit

Rollback ==
  \/ BeginRollback \/ RestoreFromJournal \/ RestoreActive
  \/ RestorePrevious \/ SwapPrevious
  \/ RestartRestored \/ VerifyRestored \/ RollbackCommitted \/ RollbackFails
  \/ RollbackThrows

UpdaterStep == Dispatch \/ Stage \/ Activate \/ Rollback

Environment ==
  \/ UpdaterCrashes \/ RuntimeExits \/ ServiceBoots \/ PortTaken \/ ConfigDrifts
  \/ IssueSession \/ SessionEnds

Next ==
  \/ \E c \in ArtifactOrNone, force, installOnly \in BOOLEAN :
       StartRun(c, force, installOnly)
  \/ UpdaterStep
  \/ Environment

Spec == Init /\ [][Next]_vars

\* A started run keeps executing, and an operator runs `rly update` again
\* without a candidate; nothing is assumed of crashes, sessions or processes.
FairSpec ==
  /\ Spec
  /\ WF_vars(UpdaterStep)
  /\ WF_vars(StartRun(NoArtifact, FALSE, FALSE))

-----------------------------------------------------------------------------
(* Properties.                                                             *)

\* From the opening of a journal to the switch, refs/staged is the journal's
\* candidate: no interleaving of abandoned installs, crashes and later runs
\* makes a resumed activation switch to another deployment than the one the
\* journal, and so probation and rollback, speak of.
JournalNamesStaged ==
  rec.tx.phase \in {"staged", "draining", "switching"} => rec.tx.cand = refs.staged

\* The last known-good deployment stays recoverable through every crash: it
\* is what refs/active boots, or refs/previous or the journal still names it,
\* unless a write of a rollback itself failed.
KnownGoodRecoverable ==
  hist.threw \/ hist.known \in {NoArtifact, refs.active, refs.previous, rec.tx.prev}

\* An open journal that names a rollback target names the last known-good
\* deployment, also after abandoned installs, crashes and earlier rollbacks:
\* rolling back never lands on anything else, unless a write of a rollback failed.
RollbackTargetIsKnownGood ==
  /\ ~hist.threw
  /\ rec.tx.phase \notin {"none", "committed"}
  /\ rec.tx.prev # NoArtifact /\ hist.known # NoArtifact
  => rec.tx.prev = hist.known

\* However an activation is interrupted, the deployment last known to be good can
\* be rolled back to, and is what a rollback goes back to.
KnownGoodKept == KnownGoodRecoverable /\ RollbackTargetIsKnownGood

\* refs/active moves only under a durable journal that says so: forward in
\* phase switching, back in phase rolling-back (or, for a record of the older
\* release, in state rollback-required).  Installing never activates.
WriteAheadSwitch ==
  [][refs'.active # refs.active =>
       \/ rec.tx.phase = "switching" /\ refs'.active = rec.tx.cand
       \/ rec.tx.phase = "rolling-back" /\ refs'.active \in {rec.tx.prev, refs.previous}
       \/ rec.tx.phase = "none" /\ rec.state = "rollback-required"]_vars

\* Recovery never guesses that a candidate committed: a journal is committed
\* only after that candidate passed probation in this activation, or after its
\* rollback.
CommitWasProbed ==
  rec.tx.phase \in {"committing", "committed"} => hist.probed \/ hist.restores > 0

\* A process the updater fenced and drained is never restarted over a live
\* launch session without --force: the fence holds from the verified zero to
\* the restart.
DrainedBeforeRestart ==
  pc = "restart" /\ ~run.force /\ ~run.down /\ runtime.draining
    => runtime.sessions = 0

\* recovery-required is terminal: no later run leaves it or moves a reference.
RecoveryRequiredTerminal ==
  [][rec.state = "recovery-required" =>
       rec'.state = "recovery-required" /\ refs' = refs]_vars

\* At most one rollback is ever attempted for a journaled activation, whatever
\* crashes and re-runs interrupt it, unless a write of a rollback itself failed.
SingleRollback == rec.tx.phase # "none" /\ ~hist.threw => hist.restores <= 1

\* Between runs an active record and refs/active name the same deployment:
\* the committed candidate, or the deployment a rollback restored.
ActiveRecordMatchesReference ==
  /\ pc = "idle" /\ rec.state = "active"
  /\ hist.restores = 0 \/ rec.last = "failed"
  => refs.active = rec.art

\* What a finished run leaves on record is what it did.
RecordIsTrue == CommitWasProbed /\ ActiveRecordMatchesReference

\* References are moved only as the record says they may be.
ReferencesFollowRecord == WriteAheadSwitch /\ RecoveryRequiredTerminal

\* How far the recorded activation is; an older release recorded only states.
Mode ==
  CASE rec.state = "recovery-required" -> "given-up"
    [] rec.state # "recovery-required" /\ rec.tx.phase \in {"switching", "probation", "committing"} -> "forward"
    [] rec.state # "recovery-required" /\ rec.tx.phase = "rolling-back" -> "back"
    [] rec.tx.phase = "none" /\ rec.state \in {"activating", "rollback-required"} -> "back"
    [] OTHER -> "none"

Activation ==
  INSTANCE Switchover WITH active <- refs.active, mode <- Mode,
                           target <- rec.tx.cand, origin <- rec.tx.prev

\* Through failing steps, crashes at any of them and resumed runs, an activation
\* takes effect whole or not at all.
WholeOrNotAtAll == Activation!Spec

\* A run that is not crashed ends: the updater never waits on itself, and the
\* drain wait is bounded.
RunsTerminate == (pc # "idle") ~> (pc = "idle")

\* An activation interrupted after its switch is settled by later runs: it ends
\* active or in the recovery-required terminal, never in a rollback loop.
InterruptedSettles ==
  (rec.state = "rollback-required") ~> (rec.state \in {"active", "recovery-required"})

\* What the source says of the program and the code does not do.

\* lifecycle.ts:83: crash recovery never guesses that a candidate committed.
RolledBackNeverPromoted ==
  /\ rec.tx.phase = "committed" /\ rec.tx.prev # NoArtifact
  /\ hist.restores > 0
  => rec.last # "ok"

\* lifecycle.ts:286: a candidate preflight refused must not be activated.
RefusedNeverSwitched ==
  hist.refused => rec.tx.phase \notin {"switching", "probation", "committing", "committed"}

\* After a rollback the runtime that serves is the restored deployment.
RestoredServes ==
  /\ pc = "idle" /\ rec.state = "active" /\ rec.last = "failed"
  /\ runtime.kind = "resident"
  => runtime.art = rec.art

\* Existing sessions keep using the old runtime until they drain.
NoSessionCut == ~hist.cut

=============================================================================
