-------------------------- MODULE Deployment_proofs --------------------------
(***************************************************************************)
(* Theorems about what becomes the runtime of a home.  `rly update`, for   *)
(* every set of deployments, of versions and of refused candidates, and    *)
(* every bound on sessions and crashes: they rest on one inductive         *)
(* invariant, what the record, the references and the updater's memory are *)
(* at each of its steps.  The commands of an installed product, one at a   *)
(* time, for every set of channels, every number of releases and of kills, *)
(* and every platform: they rest on what a command knows of its release,   *)
(* of the layout and of the service at each of its steps.                  *)
(***************************************************************************)
EXTENDS UpdateTransaction, Installation, WellFoundedInduction, SequenceTheorems, TLAPS

RestoreSteps == {"restore", "restore-active", "swap-previous", "rb-restart",
                 "rb-verify", "rb-commit"}

\* Where a deployment is needed, one is there.
DeploymentsNamed ==
  /\ rec.tx.phase # "none" => rec.tx.cand \in Artifacts
  /\ pc \in {"install", "journal", "preflight"} => run.cand \in Artifacts
  /\ pc = "activate" => rec.tx.phase # "none" \/ refs.staged # NoArtifact
  /\ runtime.kind = "resident" => runtime.art \in Artifacts
  /\ pc = "restore-active" => rec.tx.prev # NoArtifact
  /\ pc \in {"swap-previous", "rb-restart", "rb-verify", "rb-commit"}
       => rec.tx.prev # NoArtifact \/ refs.active # NoArtifact

\* The journal phase, and the record's state, at each step of the updater.
PhaseAtStep ==
  /\ pc = "inspect" /\ rec.state = "pending-activation"
       => rec.tx.phase \in {"none", "staged", "draining"}
  /\ pc = "inspect" /\ rec.state = "rollback-required"
       => rec.tx.phase \in {"none", "switching", "probation", "committing"}
  /\ pc \in {"install", "journal"} => rec.tx.phase = "none"
  /\ pc = "preflight" => rec.tx.phase = "staged"
  /\ pc = "activate" => rec.tx.phase \in {"none", "staged", "draining"}
  /\ pc \in {"fence", "drain", "switching"} => rec.tx.phase = "draining"
  /\ pc \in {"switch-previous", "switch-active", "restart", "probation"}
       => rec.tx.phase = "switching"
  /\ pc \in {"verify", "committing"} => rec.tx.phase = "probation"
  /\ pc = "commit" => rec.tx.phase = "committing"
  /\ pc = "rollback" =>
       \/ rec.tx.phase \in {"none", "switching", "probation", "committing"}
       \/ rec.tx.phase = "rolling-back" /\ hist.threw
  /\ pc \in RestoreSteps => rec.tx.phase \in {"none", "rolling-back"}
  /\ pc \in RestoreSteps => rec.state = "rollback-required"

\* The journal names the staged deployment until the switch is over.
StagedAtStep ==
  /\ JournalNamesStaged
  /\ pc = "journal" => refs.staged = run.cand

\* What the terminal state is reached from, and that no run works under it.
TerminalAtStep ==
  /\ rec.tx.phase = "rolling-back" => rec.tx.attempts = 1
  /\ rec.state = "recovery-required" =>
       /\ pc \in {"idle", "inspect"}
       /\ rec.tx.phase \in {"none", "rolling-back", "recovery-required"}

\* Rollbacks counted against the journal.
RollbacksAtPhase ==
  /\ rec.tx.phase \in {"staged", "draining", "switching", "probation", "committing"}
       => hist.restores = 0
  /\ SingleRollback

\* All of it but the types.
ControlInv == DeploymentsNamed /\ PhaseAtStep /\ StagedAtStep /\ TerminalAtStep

\* The inductive invariant.
IInv == TypeOK /\ ControlInv

\* What recoverUpdateState does to a record, by journal phase.
LEMMA RecoverFacts ==
  ASSUME NEW r \in Record,
         r.tx.phase # "none" => r.tx.cand \in Artifacts
  PROVE  /\ Recover(r) \in Record
         /\ Recover(r).tx = r.tx
         /\ Recover(r).state = "pending-activation"
              => r.tx.phase \in {"none", "staged", "draining"}
         /\ Recover(r).state = "rollback-required"
              => \/ r.tx.phase \in {"none", "switching", "probation", "committing"}
                 \/ r.tx.phase = "rolling-back" /\ r.tx.attempts = 0
         /\ Recover(r).state = "recovery-required"
              => r.tx.phase \in {"none", "rolling-back", "recovery-required"}
         /\ r.state = "recovery-required" /\ r.tx.phase \in {"none", "recovery-required"}
              => Recover(r).state = "recovery-required"
         /\ r.tx.phase = "rolling-back" /\ r.tx.attempts = 1
              => Recover(r).state = "recovery-required"
<1> USE ArtifactAssumption DEF Record, Journal, States, Phases, ArtifactOrNone
<1>1. CASE r.tx.phase = "none"
  BY <1>1 DEF Recover, RecoverLegacy
<1>2. CASE r.tx.phase = "committed"
  BY <1>2 DEF Recover, RecoverJournal, RecoverCommitted
<1>3. CASE r.tx.phase \notin {"none", "committed"}
  BY <1>3 DEF Recover, RecoverJournal
<1> QED BY <1>1, <1>2, <1>3

\* Record, journal and process values the updater writes are well typed.
LEMMA JournalMoved ==
  ASSUME NEW j \in Journal
  PROVE  /\ [j EXCEPT !.phase = "rolling-back", !.attempts = 1] \in Journal
         /\ [j EXCEPT !.phase = "committed", !.attempts = 0] \in Journal
         /\ [j EXCEPT !.phase = "recovery-required"] \in Journal
<1>1. 0 \in 0..1 /\ 1 \in 0..1
  OBVIOUS
<1>2. {"rolling-back", "committed", "recovery-required"} \subseteq Phases
  BY DEF Phases
<1>3. ASSUME NEW p \in Phases, NEW n \in 0..1
      PROVE  [j EXCEPT !.phase = p, !.attempts = n] \in Journal
  BY DEF Journal
<1>4. ASSUME NEW p \in Phases
      PROVE  [j EXCEPT !.phase = p] \in Journal
  BY DEF Journal
<1> QED
  BY <1>1, <1>2, <1>3, <1>4

\* A phase write changes the state and the journal's phase only.
LEMMA WritePhaseTyped ==
  ASSUME TypeOK, NEW s \in States, NEW p \in Phases, WritePhase(s, p)
  PROVE  rec' \in Record
<1>1. rec.tx \in Journal
  BY DEF TypeOK, Record
<1>2. [rec.tx EXCEPT !.phase = p] \in Journal
  BY <1>1 DEF Journal
<1>3. rec' = [rec EXCEPT !.state = s, !.tx = [rec.tx EXCEPT !.phase = p]]
  BY DEF WritePhase, TypeOK, Record
<1> QED
  BY <1>2, <1>3 DEF TypeOK, Record

\* The memory of no run is a memory.
LEMMA NoRunTyped == NoRun \in Run
  BY DEF NoRun, Run, ArtifactOrNone

\* Whatever the service manager boots is a runtime serving refs/active.
LEMMA BootsTyped == TypeOK => Boots \subseteq Runtime
<1> SUFFICES ASSUME TypeOK PROVE Boots \subseteq Runtime
  OBVIOUS
<1>1. 0 \in 0..MaxSessions
  BY BoundAssumption
<1>2. Down \in Runtime
  BY <1>1 DEF Down, Runtime, Kinds, ArtifactOrNone
<1>3. ASSUME NEW a \in Artifacts PROVE Fresh(a) \in Runtime
  BY <1>1 DEF Fresh, Runtime, Kinds, ArtifactOrNone
<1> QED
  BY <1>2, <1>3 DEF Boots, TypeOK, References, ArtifactOrNone

\* No step writes an ill-typed record: commits and rollbacks name deployments.
LEMMA RecordTyped == IInv /\ [Next]_vars => rec' \in Record
<1> SUFFICES ASSUME IInv, [Next]_vars PROVE rec' \in Record
  OBVIOUS
<1> USE ArtifactAssumption DEF IInv, TypeOK, Record
<1>1. CASE \E c \in ArtifactOrNone, force, installOnly \in BOOLEAN :
               StartRun(c, force, installOnly)
  BY <1>1, RecoverFacts DEF StartRun, ControlInv, DeploymentsNamed
<1>2. CASE PendingFailsVerification
  BY <1>2 DEF PendingFailsVerification, States
<1>3. CASE BeginInstall
  <2>1. ReportedVersion \in Versions
    BY DEF ControlInv, DeploymentsNamed, Runtime, ReportedVersion
  <2>2. run.cand \in ArtifactOrNone /\ NoJournal \in Journal
    BY DEF Run, NoJournal, Journal, Phases, ArtifactOrNone
  <2> QED
    BY <1>3, <2>1, <2>2 DEF BeginInstall, InstallingRecord, States, ArtifactOrNone
<1>4. CASE InstallFails
  BY <1>4 DEF InstallFails, States
<1>5. CASE OpenJournal
  <2> DEFINE j == [phase |-> "staged", cand |-> run.cand,
                  prev |-> refs.active, attempts |-> 0]
             h == rec.hasPrev \/ refs.active # NoArtifact
  <2>1. j \in Journal
    BY DEF Run, References, Journal, Phases
  <2>2. h \in BOOLEAN
    OBVIOUS
  <2>3. rec' = [rec EXCEPT !.state = "pending-activation", !.hasPrev = h, !.tx = j]
    BY <1>5 DEF OpenJournal
  <2> HIDE DEF j, h
  <2> QED
    BY <2>1, <2>2, <2>3 DEF States
<1>6. CASE PreflightRefuses
  BY <1>6 DEF PreflightRefuses, States
<1>7. CASE BeginActivation
  <2>1. TransactionFor(rec) \in Journal
    BY <1>7 DEF BeginActivation, TransactionFor, References, Journal, Phases,
             ControlInv, DeploymentsNamed, ArtifactOrNone
  <2>2. [TransactionFor(rec) EXCEPT !.phase = "draining"] \in Journal
    BY <2>1 DEF Journal, Phases
  <2> QED
    BY <1>7, <2>2 DEF BeginActivation, States
<1>8. CASE FenceNotEngaged
  BY <1>8, WritePhaseTyped DEF FenceNotEngaged, States, Phases
<1>9. CASE DrainDeadline
  BY <1>9, WritePhaseTyped DEF DrainDeadline, States, Phases
<1>10. CASE WriteSwitching
  BY <1>10, WritePhaseTyped DEF WriteSwitching, States, Phases
<1>11. CASE WriteProbation
  BY <1>11, WritePhaseTyped DEF WriteProbation, States, Phases
<1>12. CASE WriteCommitting
  BY <1>12, WritePhaseTyped DEF WriteCommitting, States, Phases
<1>13. CASE Commit
  <2> DEFINE j == [rec.tx EXCEPT !.phase = "committed"]
             h == rec.hasPrev \/ rec.tx.prev # NoArtifact
  <2>1. j \in Journal
    BY DEF Journal, Phases
  <2>2. h \in BOOLEAN
    OBVIOUS
  <2>3. rec.tx.cand \in Artifacts
    BY <1>13 DEF Commit, ControlInv, DeploymentsNamed, PhaseAtStep
  <2>4. VersionOf[rec.tx.cand] \in Versions /\ rec.tx.cand \in ArtifactOrNone
    BY <2>3 DEF ArtifactOrNone
  <2>5. NoArtifact \in ArtifactOrNone
    BY DEF ArtifactOrNone
  <2>6. rec' = [rec EXCEPT !.state = "active", !.cur = VersionOf[rec.tx.cand],
                           !.art = rec.tx.cand, !.pend = NoArtifact, !.last = "ok",
                           !.hasPrev = h, !.tx = j]
    BY <1>13 DEF Commit
  <2> HIDE DEF j, h
  <2> QED
    BY <2>1, <2>2, <2>4, <2>5, <2>6 DEF States
<1>14. CASE BeginRollback
  <2>1. rec.tx \in Journal
    OBVIOUS
  <2>3. /\ [rec.tx EXCEPT !.phase = "rolling-back", !.attempts = 1] \in Journal
        /\ [rec.tx EXCEPT !.phase = "recovery-required"] \in Journal
    BY <2>1, JournalMoved
  <2>2. \E s \in States, j \in Journal : rec' = [rec EXCEPT !.state = s, !.tx = j]
    <3>1. CASE AttemptsInMemory >= 1
      BY <1>14, <3>1, <2>1, <2>3 DEF BeginRollback, RecoveryRequired, States, Journal
    <3>2. CASE ~(AttemptsInMemory >= 1)
      BY <1>14, <3>2, <2>1, <2>3 DEF BeginRollback, States
    <3> QED
      BY <3>1, <3>2
  <2> QED
    BY <2>2
<1>15. CASE RollbackCommitted
  <2>1. rec.tx \in Journal
    OBVIOUS
  <2>2. [rec.tx EXCEPT !.phase = "committed", !.attempts = 0] \in Journal
    BY <2>1, JournalMoved
  <2>3. Restored \in Artifacts
    BY <1>15, <2>1 DEF Restored, References, Journal, ArtifactOrNone,
                      RollbackCommitted, ControlInv, DeploymentsNamed
  <2>4. /\ VersionOf[Restored] \in Versions
        /\ Restored \in ArtifactOrNone /\ NoArtifact \in ArtifactOrNone
    BY <2>3 DEF ArtifactOrNone
  <2>5. PICK j \in Journal :
          rec' = [rec EXCEPT !.state = "active", !.cur = VersionOf[Restored],
                             !.art = Restored, !.pend = NoArtifact,
                             !.last = "failed", !.tx = j]
    BY <1>15, <2>1, <2>2 DEF RollbackCommitted
  <2> QED
    BY <2>4, <2>5 DEF States
<1>16. CASE RollbackFails
  <2>1. rec.tx \in Journal
    OBVIOUS
  <2>2. [rec.tx EXCEPT !.phase = "recovery-required"] \in Journal
    BY <2>1, JournalMoved
  <2>3. PICK j \in Journal : rec' = [rec EXCEPT !.state = "recovery-required", !.tx = j]
    BY <1>16, <2>1, <2>2 DEF RollbackFails, RecoveryRequired, Journal
  <2> QED
    BY <2>3 DEF States
<1>17. CASE UNCHANGED rec
  BY <1>17
<1> QED
  BY <1>1, <1>2, <1>3, <1>4, <1>5, <1>6, <1>7, <1>8, <1>9, <1>10, <1>11,
  <1>12, <1>13, <1>14, <1>15, <1>16, <1>17 DEF
    Next, UpdaterStep, Dispatch, Stage, Activate, Rollback, Environment,
    vars, ReportRecoveryRequired, ResumeRollback, NothingToActivate,
    ResumePending, RefuseRuntime, InstallCandidate, PreflightPasses,
    JournalUnavailable, EngageFence, FenceThrows, SessionsDrained,
    SwitchPrevious, SwitchActive, SwitchFails, ControlledRestart,
    RestartFails, WriteFails, VerifyCandidate, VerifyFails,
    RestoreFromJournal, RestoreActive, RestorePrevious, SwapPrevious,
    RestartRestored, VerifyRestored, RollbackThrows, UpdaterCrashes,
    RuntimeExits, ServiceBoots, PortTaken, ConfigDrifts, IssueSession,
    SessionEnds

\* References only ever take the artifacts that staging and the journal name.
LEMMA ReferencesTyped == IInv /\ [Next]_vars => refs' \in References
<1> SUFFICES ASSUME IInv, [Next]_vars PROVE refs' \in References
  OBVIOUS
<1> USE ArtifactAssumption DEF
      IInv, TypeOK, References, Record, Journal, Run, ArtifactOrNone
<1>1. CASE InstallCandidate
  BY <1>1 DEF InstallCandidate
<1>2. CASE SwitchPrevious
  BY <1>2 DEF SwitchPrevious
<1>3. CASE SwitchActive
  BY <1>3 DEF SwitchActive
<1>4. CASE RestoreFromJournal
  BY <1>4 DEF RestoreFromJournal
<1>5. CASE RestoreActive
  BY <1>5 DEF RestoreActive
<1>6. CASE RestorePrevious
  BY <1>6 DEF RestorePrevious
<1>7. CASE SwapPrevious
  BY <1>7 DEF SwapPrevious
<1>8. CASE UNCHANGED refs
  BY <1>8
<1> QED
  BY <1>1, <1>2, <1>3, <1>4, <1>5, <1>6, <1>7, <1>8 DEF
    Next, UpdaterStep, Dispatch, Stage, Activate, Rollback, Environment,
    vars, StartRun, ReportRecoveryRequired, ResumeRollback,
    NothingToActivate, ResumePending, PendingFailsVerification,
    RefuseRuntime, BeginInstall, InstallFails, OpenJournal, PreflightPasses,
    PreflightRefuses, BeginActivation, JournalUnavailable, EngageFence,
    FenceNotEngaged, FenceThrows, SessionsDrained, DrainDeadline,
    WriteSwitching, SwitchFails, ControlledRestart, RestartFails, WriteFails,
    WriteProbation, VerifyCandidate, VerifyFails, WriteCommitting, Commit,
    BeginRollback, RestartRestored, VerifyRestored, RollbackCommitted,
    RollbackFails, RollbackThrows, UpdaterCrashes, RuntimeExits,
    ServiceBoots, PortTaken, ConfigDrifts, IssueSession, SessionEnds

\* The process on the port is one the service manager, a user or an operator left.
LEMMA RuntimeTyped == IInv /\ [Next]_vars => runtime' \in Runtime
<1> SUFFICES ASSUME IInv, [Next]_vars PROVE runtime' \in Runtime
  OBVIOUS
<1> USE ArtifactAssumption DEF IInv, TypeOK, Runtime, Kinds, ArtifactOrNone
<1>1. CASE EngageFence
  BY <1>1 DEF EngageFence, AfterFence
<1>2. CASE FenceThrows
  BY <1>2 DEF FenceThrows
<1>3. CASE ControlledRestart
  BY <1>3, BootsTyped DEF ControlledRestart, AfterServiceRestart, AfterServiceStart
<1>4. CASE RestartRestored
  BY <1>4, BootsTyped DEF RestartRestored, AfterServiceRestart
<1>5. CASE RuntimeExits
  BY <1>5, BootsTyped DEF RuntimeExits, Boots
<1>6. CASE ServiceBoots
  BY <1>6, BootsTyped DEF ServiceBoots
<1>7. CASE PortTaken
  <2>1. 0 \in 0..MaxSessions
    BY BoundAssumption
  <2> QED
    BY <1>7, <2>1 DEF PortTaken, Down
<1>8. CASE ConfigDrifts
  BY <1>8 DEF ConfigDrifts
<1>9. CASE IssueSession
  BY <1>9, BoundAssumption DEF IssueSession
<1>10. CASE SessionEnds
  BY <1>10, BoundAssumption DEF SessionEnds
<1>11. CASE UNCHANGED runtime
  BY <1>11
<1> QED
  BY <1>1, <1>2, <1>3, <1>4, <1>5, <1>6, <1>7, <1>8, <1>9, <1>10, <1>11 DEF
    Next, UpdaterStep, Dispatch, Stage, Activate, Rollback, Environment,
    vars, StartRun, ReportRecoveryRequired, ResumeRollback,
    NothingToActivate, ResumePending, PendingFailsVerification,
    RefuseRuntime, BeginInstall, InstallCandidate, InstallFails, OpenJournal,
    PreflightPasses, PreflightRefuses, BeginActivation, JournalUnavailable,
    FenceNotEngaged, SessionsDrained, DrainDeadline, WriteSwitching,
    SwitchPrevious, SwitchActive, SwitchFails, RestartFails, WriteFails,
    WriteProbation, VerifyCandidate, VerifyFails, WriteCommitting, Commit,
    BeginRollback, RestoreFromJournal, RestoreActive, RestorePrevious,
    SwapPrevious, VerifyRestored, RollbackCommitted, RollbackFails,
    RollbackThrows, UpdaterCrashes

\* Observations stay in their types.
LEMMA HistoryTyped == IInv /\ [Next]_vars => hist' \in History
<1> SUFFICES ASSUME IInv, [Next]_vars PROVE hist' \in History
  OBVIOUS
<1> USE ArtifactAssumption DEF
      IInv, TypeOK, History, Record, Journal, ArtifactOrNone
<1>1. CASE OpenJournal
  <2>1. 0 \in 0..2
    OBVIOUS
  <2> QED
    BY <1>1, <2>1 DEF OpenJournal
<1>2. CASE PreflightRefuses
  BY <1>2 DEF PreflightRefuses
<1>3. CASE BeginActivation
  <2>1. 0 \in 0..2
    OBVIOUS
  <2> QED
    BY <1>3, <2>1 DEF BeginActivation
<1>4. CASE ControlledRestart
  BY <1>4 DEF
    ControlledRestart, AfterServiceRestart, Boots, Down, Fresh,
    AfterServiceStart
<1>5. CASE VerifyCandidate
  BY <1>5 DEF VerifyCandidate
<1>6. CASE Commit
  BY <1>6 DEF Commit
<1>7. CASE BeginRollback
  BY <1>7 DEF BeginRollback, AttemptsInMemory, RecoveryRequired
<1>8. CASE RollbackThrows
  BY <1>8 DEF RollbackThrows
<1>9. CASE UNCHANGED hist
  BY <1>9
<1> QED
  BY <1>1, <1>2, <1>3, <1>4, <1>5, <1>6, <1>7, <1>8, <1>9 DEF
    Next, UpdaterStep, Dispatch, Stage, Activate, Rollback, Environment,
    vars, StartRun, ReportRecoveryRequired, ResumeRollback,
    NothingToActivate, ResumePending, PendingFailsVerification,
    RefuseRuntime, BeginInstall, InstallCandidate, InstallFails,
    PreflightPasses, JournalUnavailable, EngageFence, FenceNotEngaged,
    FenceThrows, SessionsDrained, DrainDeadline, WriteSwitching,
    SwitchPrevious, SwitchActive, SwitchFails, RestartFails, WriteFails,
    WriteProbation, VerifyFails, WriteCommitting, RestoreFromJournal,
    RestoreActive, RestorePrevious, SwapPrevious, RestartRestored,
    VerifyRestored, RollbackCommitted, RollbackFails,
    UpdaterCrashes, RuntimeExits, ServiceBoots, PortTaken, ConfigDrifts,
    IssueSession, SessionEnds

\* The updater's memory is reset whole, or one field at a time.
LEMMA RunTyped == IInv /\ [Next]_vars => run' \in Run
<1> SUFFICES ASSUME IInv, [Next]_vars PROVE run' \in Run
  OBVIOUS
<1> USE ArtifactAssumption DEF
      IInv, TypeOK, Run, References, ArtifactOrNone, NoRun, Finish,
      StartRollback, RecoveryRequired
<1>1. CASE \E c \in ArtifactOrNone, force, installOnly \in BOOLEAN :
               StartRun(c, force, installOnly)
  BY <1>1 DEF StartRun
<1>2. CASE ResumeRollback
  <2> DEFINE restarted == runtime.kind = "resident" /\ ReportedVersion # rec.cur
  <2>1. restarted \in BOOLEAN
    OBVIOUS
  <2>2. run' = [run EXCEPT !.restarted = restarted]
    BY <1>2 DEF ResumeRollback
  <2> HIDE DEF restarted
  <2> QED
    BY <2>1, <2>2
<1>3. CASE ResumePending
  <2> DEFINE down == runtime.kind = "down"
  <2>1. down \in BOOLEAN
    OBVIOUS
  <2>2. run' = [run EXCEPT !.down = down]
    BY <1>3 DEF ResumePending, Inspected
  <2> HIDE DEF down
  <2> QED
    BY <2>1, <2>2
<1>4. CASE BeginInstall
  <2> DEFINE down == runtime.kind = "down"
  <2>1. down \in BOOLEAN
    OBVIOUS
  <2>2. run' = [run EXCEPT !.down = down]
    BY <1>4 DEF BeginInstall, Inspected
  <2> HIDE DEF down
  <2> QED
    BY <2>1, <2>2
<1>5. CASE SwitchFails
  BY <1>5 DEF SwitchFails
<1>6. CASE RestartFails
  <2>1. PICK restarted \in BOOLEAN : StartRollback(restarted, "try")
    BY <1>6 DEF RestartFails
  <2> QED
    BY <2>1
<1>7. CASE WriteFails
  BY <1>7 DEF WriteFails
<1>8. CASE VerifyFails
  BY <1>8 DEF VerifyFails
<1>9. CASE RestorePrevious
  BY <1>9 DEF RestorePrevious
<1>10. CASE RollbackThrows
  BY <1>10 DEF RollbackThrows
<1>11. CASE run' = run \/ run' = NoRun
  BY <1>11, NoRunTyped
<1> QED
  BY <1>1, <1>2, <1>3, <1>4, <1>5, <1>6, <1>7, <1>8, <1>9, <1>10, <1>11 DEF
    Next, UpdaterStep, Dispatch, Stage, Activate, Rollback, Environment,
    vars, ReportRecoveryRequired, NothingToActivate,
    PendingFailsVerification, RefuseRuntime, InstallCandidate, InstallFails,
    OpenJournal, PreflightPasses, PreflightRefuses, BeginActivation,
    JournalUnavailable, EngageFence, FenceNotEngaged, FenceThrows,
    SessionsDrained, DrainDeadline, WriteSwitching, SwitchPrevious,
    SwitchActive, ControlledRestart, WriteProbation, VerifyCandidate,
    WriteCommitting, Commit, BeginRollback, RestoreFromJournal,
    RestoreActive, SwapPrevious, RestartRestored, VerifyRestored,
    RollbackCommitted, RollbackFails, UpdaterCrashes, RuntimeExits,
    ServiceBoots, PortTaken, ConfigDrifts, IssueSession, SessionEnds

\* The updater only goes to its own steps, and only a crash counts as one.
LEMMA StepsTyped == IInv /\ [Next]_vars => pc' \in Steps /\ crashes' \in 0..MaxCrashes
<1> SUFFICES ASSUME IInv, [Next]_vars
             PROVE  pc' \in Steps /\ crashes' \in 0..MaxCrashes
  OBVIOUS
<1> USE BoundAssumption DEF IInv, TypeOK, Steps, Goto, Finish, StartRollback,
      RecoveryRequired
<1>1. CASE \E c \in ArtifactOrNone, force, installOnly \in BOOLEAN :
               StartRun(c, force, installOnly)
  BY <1>1 DEF StartRun
<1>2. CASE Dispatch
  BY <1>2 DEF
    Dispatch, ReportRecoveryRequired, ResumeRollback, NothingToActivate,
    ResumePending, PendingFailsVerification, RefuseRuntime, BeginInstall
<1>3. CASE Stage
  BY <1>3 DEF
    Stage, InstallCandidate, InstallFails, OpenJournal, PreflightPasses,
    PreflightRefuses
<1>4. CASE Activate
  BY <1>4 DEF
    Activate, BeginActivation, JournalUnavailable, EngageFence,
    FenceNotEngaged, FenceThrows, SessionsDrained, DrainDeadline,
    WriteSwitching, SwitchPrevious, SwitchActive, SwitchFails,
    ControlledRestart, RestartFails, WriteFails, WriteProbation,
    VerifyCandidate, VerifyFails, WriteCommitting, Commit, AfterFence
<1>5. CASE Rollback
  BY <1>5 DEF
    Rollback, BeginRollback, RestoreFromJournal, RestoreActive,
    RestorePrevious, SwapPrevious, RestartRestored, VerifyRestored,
    RollbackCommitted, RollbackFails, RollbackThrows
<1>6. CASE Environment
  BY <1>6 DEF
    Environment, UpdaterCrashes, RuntimeExits, ServiceBoots, PortTaken,
    ConfigDrifts, IssueSession, SessionEnds
<1>7. CASE UNCHANGED vars
  BY <1>7 DEF vars
<1> QED
  BY <1>1, <1>2, <1>3, <1>4, <1>5, <1>6, <1>7 DEF Next, UpdaterStep

\* What opening a rollback leaves: an attempt counted, or the terminal state.
BeginRollbackEffect ==
  /\ rec'.tx.cand = rec.tx.cand /\ rec'.tx.prev = rec.tx.prev
  /\ \/ /\ pc' = "idle" /\ rec'.state = "recovery-required"
        /\ hist' = hist
        /\ \/ rec.tx.phase = "none" /\ rec'.tx.phase = "none"
           \/ rec.tx.phase # "none" /\ rec'.tx.phase = "recovery-required"
     \/ /\ pc' = "restore" /\ rec'.state = "rollback-required"
        /\ hist'.restores = IF hist.restores = 2 THEN 2 ELSE hist.restores + 1
        /\ \/ rec.tx.phase = "none" /\ rec'.tx.phase = "none"
           \/ /\ rec.tx.phase # "none" /\ rec'.tx.phase = "rolling-back"
              /\ rec'.tx.attempts = 1

\* BeginRollback has that effect and no other.
LEMMA BeginRollbackFacts == TypeOK /\ BeginRollback => BeginRollbackEffect
<1> SUFFICES ASSUME TypeOK, BeginRollback PROVE BeginRollbackEffect
  OBVIOUS
<1>1. CASE AttemptsInMemory >= 1
  <2>1. RecoveryRequired /\ UNCHANGED hist
    BY <1>1 DEF BeginRollback
  <2>2. rec' = [rec EXCEPT !.state = "recovery-required",
                           !.tx = [rec.tx EXCEPT !.phase =
                             IF rec.tx.phase = "none" THEN "none" ELSE "recovery-required"]]
    BY <2>1 DEF RecoveryRequired, TypeOK, Record, Journal
  <2> QED
    BY <2>1, <2>2 DEF RecoveryRequired, Finish, BeginRollbackEffect,
       TypeOK, Record, Journal
<1>2. CASE ~(AttemptsInMemory >= 1)
  <2>1. /\ rec' = [rec EXCEPT !.state = "rollback-required",
                              !.tx = IF rec.tx.phase = "none" THEN rec.tx
                                     ELSE [rec.tx EXCEPT !.phase = "rolling-back",
                                                         !.attempts = 1]]
        /\ hist' = [hist EXCEPT !.restores = IF hist.restores = 2 THEN 2
                                             ELSE hist.restores + 1]
        /\ pc' = "restore"
    BY <1>2 DEF BeginRollback, Goto, TypeOK, Record, History
  <2>2. hist'.restores = IF hist.restores = 2 THEN 2 ELSE hist.restores + 1
    BY <2>1 DEF TypeOK, History
  <2> QED
    BY <2>1, <2>2 DEF BeginRollbackEffect, TypeOK, Record, Journal
<1> QED
  BY <1>1, <1>2

\* Every step keeps the record, the references and the updater in step.
LEMMA ControlStep == IInv /\ TypeOK' /\ [Next]_vars => ControlInv'
<1> SUFFICES ASSUME IInv, TypeOK', [Next]_vars PROVE ControlInv'
  OBVIOUS
<1> USE ArtifactAssumption DEF IInv,
      ControlInv, DeploymentsNamed, PhaseAtStep, StagedAtStep,
      TerminalAtStep, JournalNamesStaged, RestoreSteps, TypeOK, Record,
      Journal, Goto, Finish, NoRun, References, Run, ArtifactOrNone
<1>1. CASE \E c \in ArtifactOrNone, force, installOnly \in BOOLEAN :
               StartRun(c, force, installOnly)
  BY <1>1, RecoverFacts DEF StartRun
<1>2. CASE Dispatch
  <2>1. CASE ReportRecoveryRequired
    BY <2>1 DEF ReportRecoveryRequired
  <2>2. CASE ResumeRollback
    BY <2>2 DEF ResumeRollback, ReportedVersion
  <2>3. CASE NothingToActivate
    BY <2>3 DEF NothingToActivate
  <2>4. CASE ResumePending
    BY <2>4 DEF ResumePending, Inspected
  <2>5. CASE PendingFailsVerification
    BY <2>5 DEF PendingFailsVerification
  <2>6. CASE RefuseRuntime
    BY <2>6 DEF RefuseRuntime, Stageable
  <2>7. CASE BeginInstall
    BY <2>7 DEF
      BeginInstall, Stageable, InstallingRecord, ReportedVersion, NoJournal,
      Inspected
  <2> QED
    BY <1>2, <2>1, <2>2, <2>3, <2>4, <2>5, <2>6, <2>7 DEF Dispatch
<1>3. CASE Stage
  <2>1. CASE InstallCandidate
    BY <2>1 DEF InstallCandidate
  <2>2. CASE InstallFails
    BY <2>2 DEF InstallFails
  <2>3. CASE OpenJournal
    BY <2>3 DEF OpenJournal
  <2>4. CASE PreflightPasses
    BY <2>4 DEF PreflightPasses
  <2>5. CASE PreflightRefuses
    BY <2>5 DEF PreflightRefuses
  <2> QED
    BY <1>3, <2>1, <2>2, <2>3, <2>4, <2>5 DEF Stage
<1>4. CASE Activate
  <2>1. CASE BeginActivation
    BY <2>1 DEF BeginActivation, TransactionFor
  <2>2. CASE JournalUnavailable
    BY <2>2 DEF JournalUnavailable
  <2>3. CASE EngageFence
    BY <2>3 DEF EngageFence, AfterFence
  <2>4. CASE FenceNotEngaged
    <3>1. CASE pc' = "switching" /\ UNCHANGED <<rec, run>>
      BY <2>4, <3>1 DEF FenceNotEngaged
    <3>2. CASE WritePhase("pending-activation", "draining") /\ Finish
      BY <2>4, <3>2 DEF FenceNotEngaged, WritePhase
    <3> QED
      BY <2>4, <3>1, <3>2 DEF FenceNotEngaged
  <2>5. CASE FenceThrows
    BY <2>5 DEF FenceThrows
  <2>6. CASE SessionsDrained
    BY <2>6 DEF SessionsDrained
  <2>7. CASE DrainDeadline
    BY <2>7 DEF DrainDeadline, WritePhase
  <2>8. CASE WriteSwitching
    BY <2>8 DEF WriteSwitching, WritePhase
  <2>9. CASE SwitchPrevious
    BY <2>9 DEF SwitchPrevious
  <2>10. CASE SwitchActive
    BY <2>10 DEF SwitchActive
  <2>11. CASE SwitchFails
    BY <2>11 DEF SwitchFails, StartRollback
  <2>12. CASE ControlledRestart
    BY <2>12 DEF
      ControlledRestart, AfterServiceRestart, Boots, Down, Fresh,
      AfterServiceStart
  <2>13. CASE RestartFails
    BY <2>13 DEF RestartFails, StartRollback
  <2>14. CASE WriteFails
    BY <2>14 DEF WriteFails, StartRollback
  <2>15. CASE WriteProbation
    BY <2>15 DEF WriteProbation, WritePhase
  <2>16. CASE VerifyCandidate
    BY <2>16 DEF VerifyCandidate
  <2>17. CASE VerifyFails
    BY <2>17 DEF VerifyFails, StartRollback
  <2>18. CASE WriteCommitting
    BY <2>18 DEF WriteCommitting, WritePhase
  <2>19. CASE Commit
    BY <2>19 DEF Commit
  <2> QED
    BY <1>4, <2>1, <2>2, <2>3, <2>4, <2>5, <2>6, <2>7, <2>8, <2>9, <2>10,
       <2>11, <2>12, <2>13, <2>14, <2>15, <2>16, <2>17, <2>18, <2>19 DEF
       Activate
<1>5. CASE Rollback
  <2>1. CASE BeginRollback
    <3>1. BeginRollbackEffect
      BY <2>1, BeginRollbackFacts
    <3> QED
      BY <2>1, <3>1 DEF BeginRollback, BeginRollbackEffect
  <2>2. CASE RestoreFromJournal
    BY <2>2 DEF RestoreFromJournal
  <2>3. CASE RestoreActive
    BY <2>3 DEF RestoreActive
  <2>4. CASE RestorePrevious
    BY <2>4 DEF RestorePrevious
  <2>5. CASE SwapPrevious
    BY <2>5 DEF SwapPrevious
  <2>6. CASE RestartRestored
    BY <2>6 DEF RestartRestored, AfterServiceRestart, Boots, Down, Fresh
  <2>7. CASE VerifyRestored
    BY <2>7 DEF VerifyRestored, Restored
  <2>8. CASE RollbackCommitted
    BY <2>8 DEF RollbackCommitted, Restored
  <2>9. CASE RollbackFails
    BY <2>9 DEF RollbackFails, RecoveryRequired
  <2>10. CASE RollbackThrows
    BY <2>10 DEF RollbackThrows, StartRollback
  <2> QED
    BY <1>5, <2>1, <2>2, <2>3, <2>4, <2>5, <2>6, <2>7, <2>8, <2>9, <2>10 DEF Rollback
<1>6. CASE Environment
  <2>1. CASE UpdaterCrashes
    BY <2>1 DEF UpdaterCrashes
  <2>2. CASE RuntimeExits
    BY <2>2 DEF RuntimeExits, Down
  <2>3. CASE ServiceBoots
    BY <2>3 DEF ServiceBoots, Boots, Down, Fresh
  <2>4. CASE PortTaken
    BY <2>4 DEF PortTaken, Down
  <2>5. CASE ConfigDrifts
    BY <2>5 DEF ConfigDrifts
  <2>6. CASE IssueSession
    BY <2>6 DEF IssueSession
  <2>7. CASE SessionEnds
    BY <2>7 DEF SessionEnds
  <2> QED
    BY <1>6, <2>1, <2>2, <2>3, <2>4, <2>5, <2>6, <2>7 DEF Environment
<1>7. CASE UNCHANGED vars
  BY <1>7 DEF vars
<1> QED
  BY <1>1, <1>2, <1>3, <1>4, <1>5, <1>6, <1>7 DEF Next, UpdaterStep

\* A fresh home, and one an older release was interrupted in, start in step.
LEMMA Initially == Init => IInv
<1> SUFFICES ASSUME Init PROVE IInv
  OBVIOUS
<1> USE ArtifactAssumption, BoundAssumption
<1>1. \/ rec = NoRecord
      \/ \E s \in {"pending-activation", "activating"}, a \in Artifacts, p \in BOOLEAN :
            rec = LegacyRecord(s, a, p)
  BY DEF Init
<1>2. NoRecord \in Record /\ NoRecord.tx = NoJournal /\ NoRecord.state = "none"
  BY DEF NoRecord, NoJournal, Record, Journal, States, Phases, ArtifactOrNone
<1>3. rec \in Record /\ rec.tx = NoJournal /\ rec.state # "recovery-required"
  BY <1>1, <1>2 DEF LegacyRecord, Record, States, ArtifactOrNone
<1>4. refs \in References
  <2>1. CASE refs \in [staged : {NoArtifact}, active : ArtifactOrNone,
                       previous : {NoArtifact}]
    BY <2>1 DEF References, ArtifactOrNone
  <2>2. CASE \E a, b \in Artifacts :
               \/ refs = [staged |-> a, active |-> b, previous |-> NoArtifact]
               \/ refs = [staged |-> a, active |-> a, previous |-> b]
    BY <2>2 DEF References, ArtifactOrNone
  <2> QED
    BY <2>1, <2>2 DEF Init
<1>5. runtime = Down \/ \E a \in Artifacts : runtime = Fresh(a)
  BY <1>4 DEF Init, References, ArtifactOrNone
<1>6. runtime \in Runtime /\ (runtime.kind = "resident" => runtime.art \in Artifacts)
  <2>1. 0 \in 0..MaxSessions
    OBVIOUS
  <2>2. CASE runtime = Down
    BY <2>1, <2>2 DEF Runtime, Kinds, ArtifactOrNone, Down
  <2>3. CASE \E a \in Artifacts : runtime = Fresh(a)
    BY <2>1, <2>3 DEF Runtime, Kinds, ArtifactOrNone, Fresh
  <2> QED
    BY <1>5, <2>2, <2>3
<1>7. pc = "idle" /\ run = NoRun /\ crashes = 0
  BY DEF Init
<1>8. hist \in History
  <2> DEFINE k == IF rec.state = "activating" THEN NoArtifact ELSE refs.active
  <2>1. k \in ArtifactOrNone /\ 0 \in 0..2
    BY <1>4 DEF References, ArtifactOrNone
  <2>2. hist = [known |-> k, probed |-> FALSE, refused |-> FALSE, cut |-> FALSE,
                restores |-> 0, threw |-> FALSE]
    BY DEF Init
  <2> HIDE DEF k
  <2> QED
    BY <2>1, <2>2 DEF History
<1>9. TypeOK
  BY <1>3, <1>4, <1>6, <1>7, <1>8, NoRunTyped DEF TypeOK, Steps
<1> QED
  BY <1>3, <1>6, <1>7, <1>9 DEF IInv, ControlInv, DeploymentsNamed, PhaseAtStep,
     StagedAtStep, TerminalAtStep, JournalNamesStaged, RestoreSteps, NoJournal

\* No step leaves the types.
LEMMA TypeStep == IInv /\ [Next]_vars => TypeOK'
  BY RecordTyped, ReferencesTyped, RuntimeTyped, HistoryTyped, RunTyped, StepsTyped
     DEF TypeOK

\* The inductive invariant of `rly update`.
THEOREM Invariant == Spec => []IInv
<1>1. IInv /\ [Next]_vars => IInv'
  BY TypeStep, ControlStep DEF IInv
<1> QED
  BY Initially, <1>1, PTL DEF Spec

\* No run, crash or legacy record takes the update state out of its types: in
\* particular every commit and every rollback names a deployment.
THEOREM TypeCorrect == Spec => []TypeOK
<1>1. IInv => TypeOK
  BY DEF IInv
<1> QED
  BY Invariant, <1>1, PTL

\* Whatever installs are abandoned and whatever crashes: the deployment the
\* activation will switch to is the one its journal names.
THEOREM JournalSafety == Spec => []JournalNamesStaged
<1>1. IInv => JournalNamesStaged
  BY DEF IInv, ControlInv, StagedAtStep
<1> QED
  BY Invariant, <1>1, PTL

\* refs/active is moved only by a journal already durable in the phase that
\* allows the move, and only to the deployment this journal names.
THEOREM WriteAhead == Spec => WriteAheadSwitch
<1> DEFINE A == refs'.active # refs.active =>
       \/ rec.tx.phase = "switching" /\ refs'.active = rec.tx.cand
       \/ rec.tx.phase = "rolling-back" /\ refs'.active \in {rec.tx.prev, refs.previous}
       \/ rec.tx.phase = "none" /\ rec.state = "rollback-required"
<1>1. IInv /\ [Next]_vars => A
  <2> SUFFICES ASSUME IInv, [Next]_vars, refs' # refs PROVE A
    OBVIOUS
  <2> USE DEF IInv, TypeOK, References, ControlInv, PhaseAtStep, StagedAtStep,
        JournalNamesStaged, RestoreSteps
  <2>1. CASE InstallCandidate
    BY <2>1 DEF InstallCandidate
  <2>2. CASE SwitchPrevious
    BY <2>2 DEF SwitchPrevious
  <2>3. CASE SwitchActive
    BY <2>3 DEF SwitchActive
  <2>4. CASE RestoreFromJournal
    BY <2>4 DEF RestoreFromJournal
  <2>5. CASE RestoreActive
    BY <2>5 DEF RestoreActive
  <2>6. CASE RestorePrevious
    BY <2>6 DEF RestorePrevious
  <2>7. CASE SwapPrevious
    BY <2>7 DEF SwapPrevious
  <2> QED
    BY <2>1, <2>2, <2>3, <2>4, <2>5, <2>6, <2>7 DEF
       Next, UpdaterStep, Dispatch, Stage, Activate, Rollback, Environment,
       vars, StartRun, ReportRecoveryRequired, ResumeRollback,
       NothingToActivate, ResumePending, PendingFailsVerification,
       RefuseRuntime, BeginInstall, InstallFails, OpenJournal,
       PreflightPasses, PreflightRefuses, BeginActivation,
       JournalUnavailable, EngageFence, FenceNotEngaged, FenceThrows,
       SessionsDrained, DrainDeadline, WriteSwitching, SwitchFails,
       ControlledRestart, RestartFails, WriteFails, WriteProbation,
       VerifyCandidate, VerifyFails, WriteCommitting, Commit, BeginRollback,
       RestartRestored, VerifyRestored, RollbackCommitted, RollbackFails,
       RollbackThrows, UpdaterCrashes, RuntimeExits, ServiceBoots, PortTaken,
       ConfigDrifts, IssueSession, SessionEnds
<1> QED
  BY Invariant, <1>1, PTL DEF Spec, WriteAheadSwitch

\* recovery-required is terminal: no later run, with whatever candidate or
\* flags, leaves it or touches a reference.
THEOREM Terminal == Spec => RecoveryRequiredTerminal
<1> DEFINE A == rec.state = "recovery-required" =>
                  rec'.state = "recovery-required" /\ refs' = refs
<1>1. IInv /\ [Next]_vars => A
  <2> SUFFICES ASSUME IInv, [Next]_vars, rec.state = "recovery-required"
               PROVE  rec'.state = "recovery-required" /\ refs' = refs
    OBVIOUS
  <2>1. pc \in {"idle", "inspect"}
    BY DEF IInv, ControlInv, TerminalAtStep
  <2>2. Recover(rec).state = "recovery-required"
    BY RecoverFacts DEF IInv, TypeOK, ControlInv, TerminalAtStep, DeploymentsNamed
  <2> QED
    BY <2>1, <2>2 DEF Stageable,
       Next, UpdaterStep, Dispatch, Stage, Activate, Rollback, Environment,
       vars, StartRun, ReportRecoveryRequired, ResumeRollback,
       NothingToActivate, ResumePending, PendingFailsVerification,
       RefuseRuntime, BeginInstall, InstallCandidate, InstallFails,
       OpenJournal, PreflightPasses, PreflightRefuses, BeginActivation,
       JournalUnavailable, EngageFence, FenceNotEngaged, FenceThrows,
       SessionsDrained, DrainDeadline, WriteSwitching, SwitchPrevious,
       SwitchActive, SwitchFails, ControlledRestart, RestartFails,
       WriteFails, WriteProbation, VerifyCandidate, VerifyFails,
       WriteCommitting, Commit, BeginRollback, RestoreFromJournal,
       RestoreActive, RestorePrevious, SwapPrevious, RestartRestored,
       VerifyRestored, RollbackCommitted, RollbackFails, RollbackThrows,
       UpdaterCrashes, RuntimeExits, ServiceBoots, PortTaken, ConfigDrifts,
       IssueSession, SessionEnds
<1> QED
  BY Invariant, <1>1, PTL DEF Spec, RecoveryRequiredTerminal

\* The references move as the record says, and not at all in the terminal state.
THEOREM ReferencesSafe == Spec => ReferencesFollowRecord
  BY WriteAhead, Terminal DEF ReferencesFollowRecord

\* Rollbacks of an open journal are counted before they start.
LEMMA RollbacksStep == IInv /\ RollbacksAtPhase /\ [Next]_vars => RollbacksAtPhase'
<1> SUFFICES ASSUME IInv, RollbacksAtPhase, [Next]_vars PROVE RollbacksAtPhase'
  OBVIOUS
<1> USE DEF IInv, TypeOK, Record, Journal, History, RollbacksAtPhase, SingleRollback,
      ControlInv, PhaseAtStep, RestoreSteps
<1>1. CASE \E c \in ArtifactOrNone, force, installOnly \in BOOLEAN :
               StartRun(c, force, installOnly)
  BY <1>1, RecoverFacts DEF StartRun, DeploymentsNamed
<1>2. CASE OpenJournal
  BY <1>2 DEF OpenJournal
<1>3. CASE PreflightRefuses
  BY <1>3 DEF PreflightRefuses
<1>4. CASE BeginActivation
  BY <1>4 DEF BeginActivation, TransactionFor
<1>5. CASE ControlledRestart
  BY <1>5 DEF ControlledRestart
<1>6. CASE VerifyCandidate
  BY <1>6 DEF VerifyCandidate
<1>7. CASE Commit
  BY <1>7 DEF Commit
<1>8. CASE PendingFailsVerification
  BY <1>8 DEF PendingFailsVerification
<1>9. CASE BeginInstall
  BY <1>9 DEF BeginInstall, InstallingRecord, NoJournal
<1>10. CASE InstallFails
  BY <1>10 DEF InstallFails
<1>11. CASE FenceNotEngaged
  BY <1>11 DEF FenceNotEngaged, WritePhase
<1>12. CASE DrainDeadline
  BY <1>12 DEF DrainDeadline, WritePhase
<1>13. CASE WriteSwitching
  BY <1>13 DEF WriteSwitching, WritePhase
<1>14. CASE WriteProbation
  BY <1>14 DEF WriteProbation, WritePhase
<1>15. CASE WriteCommitting
  BY <1>15 DEF WriteCommitting, WritePhase
<1>16. CASE RollbackCommitted
  BY <1>16 DEF RollbackCommitted
<1>17. CASE RollbackFails
  BY <1>17 DEF RollbackFails, RecoveryRequired
<1>18. CASE BeginRollback
  <2>1. BeginRollbackEffect
    BY <1>18, BeginRollbackFacts
  <2>2. CASE rec.tx.phase = "none"
    BY <2>1, <2>2 DEF BeginRollbackEffect
  <2>3. CASE rec.tx.phase # "none"
    BY <1>18, <2>1, <2>3 DEF BeginRollbackEffect, BeginRollback
  <2> QED
    BY <2>2, <2>3
<1>19. CASE RollbackThrows
  BY <1>19 DEF RollbackThrows
<1>20. CASE UNCHANGED <<rec, hist>>
  BY <1>20
<1> QED
  BY <1>1, <1>2, <1>3, <1>4, <1>5, <1>6, <1>7, <1>8, <1>9, <1>10, <1>11,
  <1>12, <1>13, <1>14, <1>15, <1>16, <1>17, <1>18, <1>19, <1>20 DEF
    Next, UpdaterStep, Dispatch, Stage, Activate, Rollback, Environment,
    vars, ReportRecoveryRequired, ResumeRollback, NothingToActivate,
    ResumePending, RefuseRuntime, InstallCandidate, PreflightPasses,
    JournalUnavailable, EngageFence, FenceThrows, SessionsDrained,
    SwitchPrevious, SwitchActive, SwitchFails, RestartFails, WriteFails,
    VerifyFails, RestoreFromJournal, RestoreActive, RestorePrevious,
    SwapPrevious, RestartRestored, VerifyRestored, UpdaterCrashes, RuntimeExits, ServiceBoots, PortTaken, ConfigDrifts,
    IssueSession, SessionEnds

\* Unless a write of a rollback itself failed, at most one rollback is made
\* under a journal, over any number of crashes and re-runs.
THEOREM OneRollback == Spec => []SingleRollback
<1>1. Init => RollbacksAtPhase
  BY DEF Init, RollbacksAtPhase, SingleRollback
<1>2. IInv /\ RollbacksAtPhase /\ [Next]_vars => RollbacksAtPhase'
  BY RollbacksStep
<1>3. RollbacksAtPhase => SingleRollback
  BY DEF RollbacksAtPhase
<1> QED
  BY Invariant, <1>1, <1>2, <1>3, PTL DEF Spec

-----------------------------------------------------------------------------
(* `rly update` implements the abstract activation of Switchover: each of  *)
(* its steps is one step of the abstract activation, or leaves it alone.   *)

\* What a record's journal says of itself.
JournalConsistent ==
  /\ rec.tx.phase = "none" => rec.tx.prev = NoArtifact
  /\ rec.tx.phase \in {"staged", "draining", "switching", "probation", "committing"}
       => rec.tx.attempts = 0
  /\ rec.tx.phase = "recovery-required" => rec.state = "recovery-required"
  /\ rec.tx.phase \in {"staged", "draining"} => rec.tx.prev \in {refs.active, NoArtifact}

\* The record's state at the steps whose journal may not have been opened.
StateAtStep ==
  /\ pc = "inspect" /\ rec.state \in Stageable
       => rec.tx.phase \in {"none", "staged", "draining", "committed"}
  /\ pc \in {"install", "journal"} => rec.state = "installing"
  /\ pc \in {"preflight", "activate"} => rec.state = "pending-activation"
  /\ pc = "rollback" /\ rec.tx.phase = "none" => rec.state = "rollback-required"

\* After the switch the candidate is active, after the restore what it replaced.
ActiveAtStep ==
  /\ pc \in {"restart", "probation", "verify", "committing", "commit"}
       => refs.active = rec.tx.cand
  /\ pc = "swap-previous" => rec.tx.prev = NoArtifact
  /\ pc \in {"rb-restart", "rb-verify", "rb-commit"}
       => rec.tx.prev \in {refs.active, NoArtifact}

SwitchInv == JournalConsistent /\ StateAtStep /\ ActiveAtStep

\* Which state recoverUpdateState chooses, by journal phase.
LEMMA RecoverChoice ==
  ASSUME NEW r \in Record,
         r.tx.phase # "none" => r.tx.cand \in Artifacts
  PROVE  /\ Recover(r).tx = r.tx
         /\ r.tx.phase = "none" =>
              /\ Recover(r).state # "activating"
              /\ Recover(r).state = "rollback-required"
                   => r.state \in {"activating", "rollback-required"}
              /\ Recover(r).state = "pending-activation" => r.state = "pending-activation"
              /\ r.state = "rollback-required" => Recover(r).state = "rollback-required"
              /\ Recover(r).state = "recovery-required" <=> r.state = "recovery-required"
         /\ r.tx.phase \in {"staged", "draining"} => Recover(r).state = "pending-activation"
         /\ r.tx.phase = "committed" => Recover(r).state = "active"
         /\ r.tx.phase \in {"switching", "probation", "committing"}
              => Recover(r).state = "rollback-required"
         /\ r.tx.phase = "rolling-back"
              => Recover(r).state \in {"rollback-required", "recovery-required"}
         /\ r.tx.phase = "recovery-required" => Recover(r).state = "recovery-required"
<1> USE ArtifactAssumption DEF Record, Journal, States, Phases, ArtifactOrNone
<1>1. CASE r.tx.phase = "none"
  BY <1>1 DEF Recover, RecoverLegacy
<1>2. CASE r.tx.phase = "committed"
  BY <1>2 DEF Recover, RecoverJournal, RecoverCommitted
<1>3. CASE r.tx.phase \notin {"none", "committed"}
  BY <1>3 DEF Recover, RecoverJournal
<1> QED BY <1>1, <1>2, <1>3

\* No journal is open in a home `rly update` has not touched.
LEMMA NoJournalYet == Init => rec.tx = NoJournal /\ rec.state # "recovery-required"
<1> SUFFICES ASSUME Init PROVE rec.tx = NoJournal /\ rec.state # "recovery-required"
  OBVIOUS
<1>1. NoRecord.tx = NoJournal /\ NoRecord.state = "none"
  BY DEF NoRecord
<1>2. ASSUME NEW s \in {"pending-activation", "activating"}, NEW a, NEW p
      PROVE  LegacyRecord(s, a, p).tx = NoJournal /\ LegacyRecord(s, a, p).state = s
  BY DEF LegacyRecord, NoRecord
<1>3. \/ rec = NoRecord
      \/ \E s \in {"pending-activation", "activating"}, a \in Artifacts, p \in BOOLEAN :
            rec = LegacyRecord(s, a, p)
  BY DEF Init
<1> QED
  BY <1>1, <1>2, <1>3

\* So the references are where no journal says anything.
LEMMA SwitchInitially == Init => SwitchInv
<1> SUFFICES ASSUME Init PROVE SwitchInv
  OBVIOUS
<1>1. rec.tx = NoJournal
  BY NoJournalYet
<1>2. pc = "idle"
  BY DEF Init
<1> QED
  BY <1>1, <1>2 DEF SwitchInv, JournalConsistent, StateAtStep, ActiveAtStep, NoJournal

\* Every step keeps the references where the journal says they are.
LEMMA SwitchStep == IInv /\ SwitchInv /\ [Next]_vars => SwitchInv'
<1> SUFFICES ASSUME IInv, SwitchInv, [Next]_vars PROVE SwitchInv'
  OBVIOUS
<1> USE DEF IInv, TypeOK, Record, Journal, References, ControlInv, DeploymentsNamed,
      PhaseAtStep, StagedAtStep, JournalNamesStaged, TerminalAtStep, RestoreSteps,
      SwitchInv, JournalConsistent, StateAtStep, ActiveAtStep, Goto, Finish
<1>1. CASE \E c \in ArtifactOrNone, force, installOnly \in BOOLEAN :
               StartRun(c, force, installOnly)
  <2>1. rec' = Recover(rec) /\ refs' = refs /\ pc' = "inspect"
    BY <1>1 DEF StartRun
  <2>2. Recover(rec).tx = rec.tx
    BY RecoverChoice
  <2>3. JournalConsistent'
    BY <2>1, <2>2, RecoverChoice
  <2>4. StateAtStep'
    BY <2>1, <2>2, RecoverChoice DEF Stageable, Phases
  <2>5. ActiveAtStep'
    BY <2>1
  <2> QED
    BY <2>3, <2>4, <2>5
<1>2. CASE PendingFailsVerification
  BY <1>2 DEF PendingFailsVerification
<1>3. CASE BeginInstall
  BY <1>3 DEF BeginInstall, InstallingRecord, NoJournal
<1>4. CASE ResumeRollback
  BY <1>4 DEF ResumeRollback
<1>5. CASE ResumePending
  BY <1>5 DEF ResumePending
<1>6. CASE InstallCandidate
  BY <1>6 DEF InstallCandidate
<1>7. CASE InstallFails
  BY <1>7 DEF InstallFails
<1>8. CASE OpenJournal
  BY <1>8 DEF OpenJournal
<1>9. CASE PreflightPasses
  <2>1. pc' \in {"idle", "activate"} /\ UNCHANGED <<rec, refs>>
    BY <1>9 DEF PreflightPasses
  <2> QED
    BY <1>9, <2>1 DEF PreflightPasses
<1>10. CASE PreflightRefuses
  BY <1>10 DEF PreflightRefuses
<1>11. CASE BeginActivation
  BY <1>11 DEF BeginActivation, TransactionFor
<1>12. CASE FenceNotEngaged
  <2>1. CASE pc' = "switching" /\ UNCHANGED <<rec, run>>
    BY <1>12, <2>1 DEF FenceNotEngaged
  <2>2. CASE WritePhase("pending-activation", "draining") /\ Finish
    BY <1>12, <2>2 DEF FenceNotEngaged, WritePhase
  <2> QED
    BY <1>12, <2>1, <2>2 DEF FenceNotEngaged
<1>13. CASE DrainDeadline
  BY <1>13 DEF DrainDeadline, WritePhase
<1>14. CASE WriteSwitching
  BY <1>14 DEF WriteSwitching, WritePhase
<1>15. CASE SwitchPrevious
  BY <1>15 DEF SwitchPrevious
<1>16. CASE SwitchActive
  BY <1>16 DEF SwitchActive
<1>17. CASE SwitchFails
  BY <1>17 DEF SwitchFails, StartRollback
<1>18. CASE RestartFails
  BY <1>18 DEF RestartFails, StartRollback
<1>19. CASE WriteFails
  BY <1>19 DEF WriteFails, StartRollback
<1>20. CASE WriteProbation
  BY <1>20 DEF WriteProbation, WritePhase
<1>21. CASE VerifyFails
  BY <1>21 DEF VerifyFails, StartRollback
<1>22. CASE WriteCommitting
  BY <1>22 DEF WriteCommitting, WritePhase
<1>23. CASE Commit
  BY <1>23 DEF Commit
<1>24. CASE BeginRollback
  <2>1. BeginRollbackEffect
    BY <1>24, BeginRollbackFacts
  <2> QED
    BY <1>24, <2>1 DEF BeginRollbackEffect, BeginRollback
<1>25. CASE RestoreFromJournal
  BY <1>25 DEF RestoreFromJournal
<1>26. CASE RestoreActive
  BY <1>26 DEF RestoreActive
<1>27. CASE RestorePrevious
  BY <1>27 DEF RestorePrevious
<1>28. CASE SwapPrevious
  BY <1>28 DEF SwapPrevious
<1>29. CASE RestartRestored
  BY <1>29 DEF RestartRestored
<1>30. CASE VerifyRestored
  BY <1>30 DEF VerifyRestored
<1>31. CASE RollbackCommitted
  BY <1>31 DEF RollbackCommitted
<1>32. CASE RollbackFails
  BY <1>32 DEF RollbackFails, RecoveryRequired
<1>33. CASE RollbackThrows
  BY <1>33 DEF RollbackThrows, StartRollback
<1>34. CASE UNCHANGED <<rec, refs>> /\ pc' \in {pc, "idle", "switching"}
  BY <1>34
<1>35. CASE ControlledRestart
  BY <1>35 DEF ControlledRestart
<1>36. CASE EngageFence
  BY <1>36 DEF EngageFence, AfterFence
<1>37. CASE VerifyCandidate
  BY <1>37 DEF VerifyCandidate
<1> QED
  BY <1>1, <1>2, <1>3, <1>4, <1>5, <1>6, <1>7, <1>8, <1>9, <1>10, <1>11,
     <1>12, <1>13, <1>14, <1>15, <1>16, <1>17, <1>18, <1>19, <1>20, <1>21,
     <1>22, <1>23, <1>24, <1>25, <1>26, <1>27, <1>28, <1>29, <1>30, <1>31,
     <1>32, <1>33, <1>34, <1>35, <1>36, <1>37 DEF
       Next, UpdaterStep, Dispatch, Stage, Activate, Rollback,
       Environment, vars, ReportRecoveryRequired, NothingToActivate,
       RefuseRuntime, JournalUnavailable, FenceThrows,
       SessionsDrained, UpdaterCrashes, RuntimeExits, ServiceBoots,
       PortTaken, ConfigDrifts, IssueSession, SessionEnds

\* The abstract mode, by journal phase.
ModeByPhase ==
  /\ Mode = "given-up" <=> rec.state = "recovery-required"
  /\ Mode = "forward" <=> /\ rec.state # "recovery-required"
                          /\ rec.tx.phase \in {"switching", "probation", "committing"}
  /\ Mode = "back" <=> \/ /\ rec.state # "recovery-required"
                          /\ rec.tx.phase = "rolling-back"
                       \/ /\ rec.tx.phase = "none"
                          /\ rec.state \in {"activating", "rollback-required"}
  /\ Mode \in {"none", "forward", "back", "given-up"}

\* It is what Mode computes, before a step and after it.
LEMMA ModeFacts == ModeByPhase /\ ModeByPhase'
<1>1. ModeByPhase
  BY DEF ModeByPhase, Mode
<1>2. ModeByPhase'
  BY DEF ModeByPhase, Mode
<1> QED
  BY <1>1, <1>2

\* An untouched home has no activation, or one an older release left half done.
LEMMA InitMaps == Init => Activation!Init
<1> SUFFICES ASSUME Init PROVE Activation!Init
  OBVIOUS
<1>1. refs \in References /\ rec.tx = NoJournal /\ rec.state # "recovery-required"
  BY Initially, NoJournalYet DEF IInv, TypeOK
<1> QED
  BY <1>1, ModeFacts DEF ModeByPhase, Activation!Init, Activation!References, References,
     ArtifactOrNone, NoJournal

\* Every step is one of the abstract activation's, or none.
LEMMA StepMaps == IInv /\ SwitchInv /\ IInv' /\ [Next]_vars
                    => [Activation!Next]_(Activation!vars)
<1> SUFFICES ASSUME IInv, SwitchInv, IInv', [Next]_vars
             PROVE  [Activation!Next]_(Activation!vars)
  OBVIOUS
<1> USE ModeFacts DEF ModeByPhase, IInv, TypeOK, Record, Journal, References, ArtifactOrNone,
      ControlInv, DeploymentsNamed, PhaseAtStep, StagedAtStep, JournalNamesStaged,
      TerminalAtStep, RestoreSteps, SwitchInv, JournalConsistent, StateAtStep,
      ActiveAtStep, Goto, Finish, Activation!References, Activation!Next,
      Activation!vars
<1>1. CASE \E c \in ArtifactOrNone, force, installOnly \in BOOLEAN :
               StartRun(c, force, installOnly)
  BY <1>1, RecoverChoice DEF StartRun, Activation!GiveUp,
     Activation!RollBack
<1>2. CASE PendingFailsVerification
  BY <1>2 DEF PendingFailsVerification
<1>3. CASE BeginInstall
  BY <1>3 DEF BeginInstall, InstallingRecord, NoJournal, Stageable,
     Activation!Prepare
<1>4. CASE InstallFails
  BY <1>4 DEF InstallFails
<1>5. CASE OpenJournal
  BY <1>5 DEF OpenJournal, Activation!Prepare
<1>6. CASE PreflightRefuses
  BY <1>6 DEF PreflightRefuses
<1>7. CASE BeginActivation
  BY <1>7 DEF BeginActivation, TransactionFor, Activation!Prepare
<1>8. CASE FenceNotEngaged
  <2>1. CASE pc' = "switching" /\ UNCHANGED <<rec, run>>
    BY <1>8, <2>1 DEF FenceNotEngaged
  <2>2. CASE WritePhase("pending-activation", "draining") /\ Finish
    BY <1>8, <2>2 DEF FenceNotEngaged, WritePhase
  <2> QED
    BY <1>8, <2>1, <2>2 DEF FenceNotEngaged
<1>9. CASE DrainDeadline
  BY <1>9 DEF DrainDeadline, WritePhase
<1>10. CASE WriteSwitching
  BY <1>10 DEF WriteSwitching, WritePhase, Activation!Begin
<1>11. CASE SwitchActive
  BY <1>11 DEF SwitchActive, Activation!Switch
<1>12. CASE WriteProbation
  BY <1>12 DEF WriteProbation, WritePhase
<1>13. CASE WriteCommitting
  BY <1>13 DEF WriteCommitting, WritePhase
<1>14. CASE Commit
  BY <1>14 DEF Commit, Activation!Commit
<1>15. CASE BeginRollback
  <2>1. BeginRollbackEffect
    BY <1>15, BeginRollbackFacts
  <2> QED
    BY <1>15, <2>1 DEF BeginRollbackEffect, BeginRollback, AttemptsInMemory,
       Activation!TurnBack, Activation!GiveUp
<1>16. CASE RestoreActive
  BY <1>16 DEF RestoreActive, Activation!Restore
<1>17. CASE RestorePrevious
  BY <1>17 DEF RestorePrevious, Activation!Restore
<1>18. CASE RollbackCommitted
  BY <1>18 DEF RollbackCommitted, Activation!RollBack
<1>19. CASE RollbackFails
  BY <1>19 DEF RollbackFails, RecoveryRequired, Activation!GiveUp
<1>20. CASE UNCHANGED rec /\ refs'.active = refs.active
  BY <1>20 DEF Mode
<1>21. CASE Dispatch
  BY <1>2, <1>3, <1>20, <1>21 DEF Dispatch, ReportRecoveryRequired, ResumeRollback, NothingToActivate,
     ResumePending, RefuseRuntime
<1>22. CASE Stage
  BY <1>4, <1>5, <1>6, <1>20, <1>22 DEF Stage, InstallCandidate, PreflightPasses
<1>23. CASE Activate
  <2>1. CASE \/ JournalUnavailable \/ EngageFence \/ FenceThrows \/ SessionsDrained \/ SwitchPrevious \/ SwitchFails
             \/ ControlledRestart \/ RestartFails \/ WriteFails \/ VerifyCandidate \/ VerifyFails
    BY <1>20, <2>1 DEF JournalUnavailable, EngageFence, FenceThrows, SessionsDrained, SwitchPrevious, SwitchFails,
       ControlledRestart, RestartFails, WriteFails, VerifyCandidate, VerifyFails
  <2> QED
    BY <1>7, <1>8, <1>9, <1>10, <1>11, <1>12, <1>13, <1>14, <1>23, <2>1 DEF Activate
<1>24. CASE Rollback
  <2>1. CASE RestoreFromJournal \/ SwapPrevious \/ RestartRestored \/ VerifyRestored \/ RollbackThrows
    BY <1>20, <2>1, ZenonT(30) DEF RestoreFromJournal, SwapPrevious, RestartRestored, VerifyRestored, RollbackThrows
  <2> QED
    BY <1>15, <1>16, <1>17, <1>18, <1>19, <1>24, <2>1 DEF Rollback
<1>25. CASE Environment
  BY <1>20, <1>25 DEF Environment, UpdaterCrashes, RuntimeExits, ServiceBoots, PortTaken, ConfigDrifts, IssueSession,
     SessionEnds
<1>26. CASE UNCHANGED vars
  BY <1>20, <1>26 DEF vars
<1> QED
  BY <1>1, <1>21, <1>22, <1>23, <1>24, <1>25, <1>26 DEF Next, UpdaterStep

\* Whatever fails and whatever crashes, in any number of runs: an activation
\* takes effect whole, or not at all, or stops in the recovery-required terminal.
THEOREM Implements == Spec => WholeOrNotAtAll
<1>1. Init => SwitchInv
  BY SwitchInitially
<1>2. IInv /\ SwitchInv /\ [Next]_vars => SwitchInv'
  BY SwitchStep
<1>3. IInv /\ SwitchInv /\ IInv' /\ [Next]_vars => [Activation!Next]_(Activation!vars)
  BY StepMaps
<1> QED
  BY Invariant, InitMaps, <1>1, <1>2, <1>3, PTL DEF Spec, WholeOrNotAtAll, Activation!Spec

-----------------------------------------------------------------------------
(***************************************************************************)
(* What an interrupted `rly update` leaves behind, for every set of        *)
(* deployments and of versions and every number of sessions and crashes:   *)
(* the deployment last known to be good, a true record, and no session cut *)
(* under a fence that held.                                                *)
(***************************************************************************)

Forward == {"switching", "probation", "committing"}

\* Where the last known-good deployment is, while there is one and no write of a
\* rollback has failed.  Before a switch and after a settled one it is active; in
\* between the journal names it, or, where the journal names nothing, one of the
\* two references does, and refs/previous is not anything else.
KnownGoodPlaced ==
  /\ rec.tx.phase \in {"none", "staged", "draining", "committed"}
       => refs.active = hist.known
  /\ rec.tx.phase = "none" =>
       /\ rec.state \notin {"activating", "rollback-required"}
       /\ rec.state = "pending-activation" => refs.previous = NoArtifact
  /\ rec.tx.phase \notin {"none", "committed"} =>
       /\ rec.tx.prev \in {NoArtifact, hist.known}
       /\ rec.tx.prev = NoArtifact => hist.known \in {refs.active, refs.previous}
  /\ rec.tx.prev = NoArtifact
     /\ (rec.tx.phase \in {"staged", "draining"} \cup Forward \/ pc = "restore")
       => refs.previous \in {NoArtifact, hist.known}
  /\ pc \in {"switch-previous", "switch-active"} => refs.active = hist.known
  /\ pc = "switch-active" => refs.previous = hist.known
  /\ pc \in RestoreSteps \ {"restore", "restore-active"} => refs.active = hist.known

KnownGoodInv == ~hist.threw /\ hist.known # NoArtifact => KnownGoodPlaced

\* What the record claims, and what has to have happened for it.
RecordInv ==
  /\ rec.state = "active" => rec.tx.phase \in {"none", "committed"}
  /\ rec.state = "active" /\ (hist.restores = 0 \/ rec.last = "failed")
       => refs.active = rec.art
  /\ rec.tx.phase = "committed" /\ hist.restores = 0 => refs.active = rec.tx.cand
  /\ pc = "committing" => hist.probed
  /\ pc \in RestoreSteps => hist.restores > 0
  /\ CommitWasProbed

\* A fenced process in which no session was left has none from then on.
FenceInv ==
  pc \in {"switching", "switch-previous", "switch-active", "restart"}
  /\ ~run.force /\ ~run.down /\ runtime.draining
    => runtime.sessions = 0

\* A home `rly update` has not touched boots its known-good deployment.
LEMMA KnownGoodInitially == Init => KnownGoodInv
<1> SUFFICES ASSUME Init PROVE KnownGoodInv
  OBVIOUS
<1>1. rec.tx = NoJournal
  BY NoJournalYet
<1>2. pc = "idle"
  BY DEF Init
<1>3. hist.known = IF rec.state = "activating" THEN NoArtifact ELSE refs.active
  BY DEF Init
<1>4. NoRecord.state = "none"
  BY DEF NoRecord
<1>5. ASSUME NEW s \in {"pending-activation", "activating"}, NEW a, NEW p
      PROVE  LegacyRecord(s, a, p).state = s
  BY DEF LegacyRecord, NoRecord
<1>6. /\ rec.state \in {"none", "pending-activation", "activating"}
      /\ rec.state = "pending-activation" => refs.previous = NoArtifact
  <2>1. CASE rec = NoRecord
    BY <2>1, <1>4
  <2>2. CASE \E a, b \in Artifacts :
               /\ rec = LegacyRecord("pending-activation", a, TRUE)
               /\ refs = [staged |-> a, active |-> b, previous |-> NoArtifact]
    <3>1. PICK a \in Artifacts : rec = LegacyRecord("pending-activation", a, TRUE)
      BY <2>2
    <3>2. refs.previous = NoArtifact
      BY <2>2
    <3> QED
      BY <3>1, <3>2, <1>5
  <2>3. CASE \E a \in Artifacts, p \in BOOLEAN : rec = LegacyRecord("activating", a, p)
    BY <2>3, <1>5
  <2> QED
    BY <2>1, <2>2, <2>3 DEF Init
<1> QED
  BY <1>1, <1>2, <1>3, <1>6
     DEF KnownGoodInv, KnownGoodPlaced, NoJournal, RestoreSteps, Forward

\* No step, and no crash between two of them, loses the known-good deployment.
LEMMA KnownGoodStep == IInv /\ SwitchInv /\ KnownGoodInv /\ [Next]_vars => KnownGoodInv'
<1> SUFFICES ASSUME IInv, SwitchInv, KnownGoodInv, [Next]_vars PROVE KnownGoodInv'
  OBVIOUS
<1> USE DEF IInv, TypeOK, Record, Journal, References, History, ControlInv,
       DeploymentsNamed, PhaseAtStep, StagedAtStep, JournalNamesStaged, TerminalAtStep,
       RestoreSteps, SwitchInv, JournalConsistent, StateAtStep, ActiveAtStep, Goto,
       Finish, KnownGoodInv, KnownGoodPlaced, Forward
<1>1. CASE \E c \in ArtifactOrNone, force, installOnly \in BOOLEAN :
               StartRun(c, force, installOnly)
  <2>1. /\ rec' = Recover(rec) /\ pc = "idle" /\ pc' = "inspect"
        /\ UNCHANGED <<refs, hist>>
    BY <1>1 DEF StartRun
  <2>2. Recover(rec).tx = rec.tx
    BY RecoverChoice
  <2> QED
    BY <2>1, <2>2, RecoverChoice
<1>2. CASE PendingFailsVerification
  BY <1>2 DEF PendingFailsVerification
<1>3. CASE BeginInstall
  BY <1>3 DEF BeginInstall, InstallingRecord, NoJournal
<1>4. CASE ResumeRollback
  BY <1>4 DEF ResumeRollback
<1>5. CASE ResumePending
  BY <1>5 DEF ResumePending, Inspected
<1>6. CASE InstallCandidate
  BY <1>6 DEF InstallCandidate
<1>7. CASE InstallFails
  BY <1>7 DEF InstallFails
<1>8. CASE OpenJournal
  BY <1>8 DEF OpenJournal
<1>9. CASE PreflightPasses
  <2>1. pc' \in {"idle", "activate"} /\ UNCHANGED <<rec, refs, hist>>
    BY <1>9 DEF PreflightPasses
  <2> QED
    BY <1>9, <2>1 DEF PreflightPasses
<1>10. CASE PreflightRefuses
  BY <1>10 DEF PreflightRefuses
<1>11. CASE BeginActivation
  BY <1>11 DEF BeginActivation, TransactionFor
<1>12. CASE EngageFence
  BY <1>12 DEF EngageFence, AfterFence
<1>13. CASE FenceNotEngaged
  <2>1. CASE pc' = "switching" /\ UNCHANGED <<rec, run>>
    BY <1>13, <2>1 DEF FenceNotEngaged
  <2>2. CASE WritePhase("pending-activation", "draining") /\ Finish
    BY <1>13, <2>2 DEF FenceNotEngaged, WritePhase
  <2> QED
    BY <1>13, <2>1, <2>2 DEF FenceNotEngaged
<1>14. CASE DrainDeadline
  BY <1>14 DEF DrainDeadline, WritePhase
<1>15. CASE WriteSwitching
  BY <1>15 DEF WriteSwitching, WritePhase
<1>16. CASE SwitchPrevious
  BY <1>16 DEF SwitchPrevious
<1>17. CASE SwitchActive
  BY <1>17 DEF SwitchActive
<1>18. CASE SwitchFails
  BY <1>18 DEF SwitchFails, StartRollback
<1>19. CASE ControlledRestart
  BY <1>19 DEF ControlledRestart
<1>20. CASE RestartFails
  BY <1>20 DEF RestartFails, StartRollback
<1>21. CASE WriteFails
  BY <1>21 DEF WriteFails, StartRollback
<1>22. CASE WriteProbation
  BY <1>22 DEF WriteProbation, WritePhase
<1>23. CASE VerifyCandidate
  BY <1>23 DEF VerifyCandidate
<1>24. CASE VerifyFails
  BY <1>24 DEF VerifyFails, StartRollback
<1>25. CASE WriteCommitting
  BY <1>25 DEF WriteCommitting, WritePhase
<1>26. CASE Commit
  BY <1>26 DEF Commit
<1>27. CASE BeginRollback
  <2>1. BeginRollbackEffect
    BY <1>27, BeginRollbackFacts
  <2> QED
    BY <1>27, <2>1 DEF BeginRollbackEffect, BeginRollback
<1>28. CASE RestoreFromJournal
  BY <1>28 DEF RestoreFromJournal
<1>29. CASE RestoreActive
  BY <1>29 DEF RestoreActive
<1>30. CASE RestorePrevious
  BY <1>30 DEF RestorePrevious
<1>31. CASE SwapPrevious
  BY <1>31 DEF SwapPrevious
<1>32. CASE RestartRestored
  BY <1>32 DEF RestartRestored
<1>33. CASE VerifyRestored
  BY <1>33 DEF VerifyRestored
<1>34. CASE RollbackCommitted
  BY <1>34 DEF RollbackCommitted
<1>35. CASE RollbackFails
  BY <1>35 DEF RollbackFails, RecoveryRequired
<1>36. CASE RollbackThrows
  BY <1>36 DEF RollbackThrows, StartRollback
<1>37. CASE UNCHANGED <<rec, refs, hist>> /\ pc' \in {pc, "idle", "switching"}
  BY <1>37
<1> QED
  BY <1>1, <1>2, <1>3, <1>4, <1>5, <1>6, <1>7, <1>8, <1>9, <1>10, <1>11, <1>12, <1>13,
     <1>14, <1>15, <1>16, <1>17, <1>18, <1>19, <1>20, <1>21, <1>22, <1>23, <1>24, <1>25,
     <1>26, <1>27, <1>28, <1>29, <1>30, <1>31, <1>32, <1>33, <1>34, <1>35, <1>36, <1>37 DEF
     Next, UpdaterStep, Dispatch, Stage, Activate, Rollback, Environment, vars,
        ReportRecoveryRequired, NothingToActivate, RefuseRuntime, JournalUnavailable,
        FenceThrows, SessionsDrained, UpdaterCrashes, RuntimeExits, ServiceBoots,
        PortTaken, ConfigDrifts, IssueSession, SessionEnds

\* A home `rly update` has not touched claims nothing.
LEMMA RecordInitially == Init => RecordInv
<1> SUFFICES ASSUME Init PROVE RecordInv
  OBVIOUS
<1>1. rec.tx = NoJournal /\ pc = "idle"
  BY NoJournalYet DEF Init
<1>2. NoRecord.state # "active"
  BY DEF NoRecord
<1>3. ASSUME NEW s \in {"pending-activation", "activating"}, NEW a, NEW p
      PROVE  LegacyRecord(s, a, p).state # "active"
  BY DEF LegacyRecord, NoRecord
<1>4. rec.state # "active"
  BY <1>2, <1>3 DEF Init
<1> QED
  BY <1>1, <1>4 DEF RecordInv, CommitWasProbed, NoJournal, RestoreSteps

\* What recovery makes of a record whose transaction committed or never opened.
LEMMA RecoverActive ==
  ASSUME NEW r \in Record, r.tx.phase # "none" => r.tx.cand \in Artifacts
  PROVE  Recover(r).state = "active" =>
           \/ r.tx.phase = "committed"
              /\ Recover(r).art = r.tx.cand /\ Recover(r).last = "ok"
           \/ r.tx.phase = "none" /\ r.state = "active" /\ Recover(r) = r
<1> USE ArtifactAssumption DEF Record, Journal, States, Phases, ArtifactOrNone
<1>1. CASE r.tx.phase = "none"
  BY <1>1 DEF Recover, RecoverLegacy
<1>2. CASE r.tx.phase = "committed"
  BY <1>2 DEF Recover, RecoverJournal, RecoverCommitted
<1>3. CASE r.tx.phase \notin {"none", "committed"}
  BY <1>3 DEF Recover, RecoverJournal
<1> QED
  BY <1>1, <1>2, <1>3

\* No step makes the record claim what did not happen.
LEMMA RecordStep == IInv /\ SwitchInv /\ RecordInv /\ [Next]_vars => RecordInv'
<1> SUFFICES ASSUME IInv, SwitchInv, RecordInv, [Next]_vars PROVE RecordInv'
  OBVIOUS
<1> USE DEF IInv, TypeOK, Record, Journal, References, History, ControlInv,
       DeploymentsNamed, PhaseAtStep, StagedAtStep, JournalNamesStaged, TerminalAtStep,
       RestoreSteps, SwitchInv, JournalConsistent, StateAtStep, ActiveAtStep, Goto,
       Finish, RecordInv, CommitWasProbed
<1>1. CASE \E c \in ArtifactOrNone, force, installOnly \in BOOLEAN :
               StartRun(c, force, installOnly)
  <2>1. /\ rec' = Recover(rec) /\ pc = "idle" /\ pc' = "inspect"
        /\ UNCHANGED <<refs, hist>>
    BY <1>1 DEF StartRun
  <2>2. Recover(rec).tx = rec.tx
    BY RecoverChoice
  <2> QED
    BY <2>1, <2>2, RecoverActive
<1>2. CASE PendingFailsVerification
  BY <1>2 DEF PendingFailsVerification
<1>3. CASE BeginInstall
  BY <1>3 DEF BeginInstall, InstallingRecord, NoJournal
<1>4. CASE ResumeRollback
  BY <1>4 DEF ResumeRollback
<1>5. CASE ResumePending
  BY <1>5 DEF ResumePending, Inspected
<1>6. CASE InstallCandidate
  BY <1>6 DEF InstallCandidate
<1>7. CASE InstallFails
  BY <1>7 DEF InstallFails
<1>8. CASE OpenJournal
  BY <1>8 DEF OpenJournal
<1>9. CASE PreflightPasses
  <2>1. pc' \in {"idle", "activate"} /\ UNCHANGED <<rec, refs, hist>>
    BY <1>9 DEF PreflightPasses
  <2> QED
    BY <1>9, <2>1 DEF PreflightPasses
<1>10. CASE PreflightRefuses
  BY <1>10 DEF PreflightRefuses
<1>11. CASE BeginActivation
  BY <1>11 DEF BeginActivation, TransactionFor
<1>12. CASE EngageFence
  BY <1>12 DEF EngageFence, AfterFence
<1>13. CASE FenceNotEngaged
  <2>1. CASE pc' = "switching" /\ UNCHANGED <<rec, run>>
    BY <1>13, <2>1 DEF FenceNotEngaged
  <2>2. CASE WritePhase("pending-activation", "draining") /\ Finish
    BY <1>13, <2>2 DEF FenceNotEngaged, WritePhase
  <2> QED
    BY <1>13, <2>1, <2>2 DEF FenceNotEngaged
<1>14. CASE DrainDeadline
  BY <1>14 DEF DrainDeadline, WritePhase
<1>15. CASE WriteSwitching
  BY <1>15 DEF WriteSwitching, WritePhase
<1>16. CASE SwitchPrevious
  BY <1>16 DEF SwitchPrevious
<1>17. CASE SwitchActive
  BY <1>17 DEF SwitchActive
<1>18. CASE SwitchFails
  BY <1>18 DEF SwitchFails, StartRollback
<1>19. CASE ControlledRestart
  BY <1>19 DEF ControlledRestart
<1>20. CASE RestartFails
  BY <1>20 DEF RestartFails, StartRollback
<1>21. CASE WriteFails
  BY <1>21 DEF WriteFails, StartRollback
<1>22. CASE WriteProbation
  BY <1>22 DEF WriteProbation, WritePhase
<1>23. CASE VerifyCandidate
  BY <1>23 DEF VerifyCandidate
<1>24. CASE VerifyFails
  BY <1>24 DEF VerifyFails, StartRollback
<1>25. CASE WriteCommitting
  BY <1>25 DEF WriteCommitting, WritePhase
<1>26. CASE Commit
  BY <1>26 DEF Commit
<1>27. CASE BeginRollback
  <2>1. BeginRollbackEffect
    BY <1>27, BeginRollbackFacts
  <2> QED
    BY <1>27, <2>1 DEF BeginRollbackEffect, BeginRollback
<1>28. CASE RestoreFromJournal
  BY <1>28 DEF RestoreFromJournal
<1>29. CASE RestoreActive
  BY <1>29 DEF RestoreActive
<1>30. CASE RestorePrevious
  BY <1>30 DEF RestorePrevious
<1>31. CASE SwapPrevious
  BY <1>31 DEF SwapPrevious
<1>32. CASE RestartRestored
  BY <1>32 DEF RestartRestored
<1>33. CASE VerifyRestored
  BY <1>33 DEF VerifyRestored
<1>34. CASE RollbackCommitted
  <2>1. Restored = refs.active
    BY <1>34 DEF RollbackCommitted, Restored
  <2>2. /\ rec'.state = "active" /\ rec'.art = Restored /\ rec'.last = "failed"
        /\ rec'.tx.phase \in {"none", "committed"}
        /\ UNCHANGED <<refs, hist>> /\ pc' = "idle"
    BY <1>34 DEF RollbackCommitted
  <2>3. hist.restores > 0
    BY <1>34 DEF RollbackCommitted
  <2> QED
    BY <2>1, <2>2, <2>3
<1>35. CASE RollbackFails
  BY <1>35 DEF RollbackFails, RecoveryRequired
<1>36. CASE RollbackThrows
  BY <1>36 DEF RollbackThrows, StartRollback
<1>37. CASE UNCHANGED <<rec, refs, hist>> /\ pc' \in {pc, "idle", "switching"}
  BY <1>37
<1> QED
  BY <1>1, <1>2, <1>3, <1>4, <1>5, <1>6, <1>7, <1>8, <1>9, <1>10, <1>11, <1>12, <1>13,
     <1>14, <1>15, <1>16, <1>17, <1>18, <1>19, <1>20, <1>21, <1>22, <1>23, <1>24, <1>25,
     <1>26, <1>27, <1>28, <1>29, <1>30, <1>31, <1>32, <1>33, <1>34, <1>35, <1>36, <1>37 DEF
     Next, UpdaterStep, Dispatch, Stage, Activate, Rollback, Environment, vars,
        ReportRecoveryRequired, NothingToActivate, RefuseRuntime, JournalUnavailable,
        FenceThrows, SessionsDrained, UpdaterCrashes, RuntimeExits, ServiceBoots,
        PortTaken, ConfigDrifts, IssueSession, SessionEnds

\* What comes up on the port is not draining.
LEMMA BootsOpen == \A r \in Boots : ~r.draining
  BY DEF Boots, Down, Fresh

\* The fence holds from the verified zero to the restart.
LEMMA FenceStep == IInv /\ FenceInv /\ [Next]_vars => FenceInv'
<1> SUFFICES ASSUME IInv, FenceInv, [Next]_vars PROVE FenceInv'
  OBVIOUS
<1> USE DEF IInv, TypeOK, FenceInv, Runtime, Run, Goto, Finish
<1>1. CASE EngageFence
  BY <1>1 DEF EngageFence, AfterFence
<1>2. CASE FenceNotEngaged
  BY <1>2 DEF FenceNotEngaged
<1>3. CASE FenceThrows
  BY <1>3 DEF FenceThrows
<1>4. CASE SessionsDrained
  BY <1>4 DEF SessionsDrained
<1>5. CASE WriteSwitching
  BY <1>5 DEF WriteSwitching, WritePhase
<1>6. CASE SwitchPrevious
  BY <1>6 DEF SwitchPrevious
<1>7. CASE SwitchActive
  BY <1>7 DEF SwitchActive
<1>8. CASE ControlledRestart
  BY <1>8 DEF ControlledRestart
<1>9. CASE RestartRestored
  BY <1>9 DEF RestartRestored
<1>10. CASE RuntimeExits
  BY <1>10 DEF RuntimeExits, Down
<1>11. CASE ServiceBoots
  BY <1>11, BootsOpen DEF ServiceBoots
<1>12. CASE PortTaken
  BY <1>12 DEF PortTaken, Down
<1>13. CASE ConfigDrifts
  BY <1>13 DEF ConfigDrifts
<1>14. CASE IssueSession
  BY <1>14 DEF IssueSession
<1>15. CASE SessionEnds
  BY <1>15 DEF SessionEnds
<1>16. CASE /\ UNCHANGED runtime
             /\ \/ UNCHANGED <<pc, run>>
                \/ pc' \notin {"switching", "switch-previous", "switch-active", "restart"}
  BY <1>16
<1>17. CASE Dispatch
  BY <1>17, <1>1, <1>2, <1>3, <1>4, <1>5, <1>6, <1>7, <1>8, <1>9, <1>10, <1>11, <1>12,
     <1>13, <1>14, <1>15, <1>16 DEF
     Dispatch, ReportRecoveryRequired, ResumeRollback, NothingToActivate, ResumePending,
        PendingFailsVerification, RefuseRuntime, BeginInstall
<1>18. CASE Stage
  BY <1>18, <1>1, <1>2, <1>3, <1>4, <1>5, <1>6, <1>7, <1>8, <1>9, <1>10, <1>11, <1>12,
     <1>13, <1>14, <1>15, <1>16 DEF
     Stage, InstallCandidate, InstallFails, OpenJournal, PreflightPasses,
        PreflightRefuses
<1>19. CASE Activate
  BY <1>19, <1>1, <1>2, <1>3, <1>4, <1>5, <1>6, <1>7, <1>8, <1>9, <1>10, <1>11, <1>12,
     <1>13, <1>14, <1>15, <1>16 DEF
     Activate, BeginActivation, JournalUnavailable, DrainDeadline, SwitchFails,
        RestartFails, WriteFails, WriteProbation, VerifyCandidate, VerifyFails,
        WriteCommitting, Commit, StartRollback, WritePhase
<1>20. CASE Rollback
  BY <1>20, <1>1, <1>2, <1>3, <1>4, <1>5, <1>6, <1>7, <1>8, <1>9, <1>10, <1>11, <1>12,
     <1>13, <1>14, <1>15, <1>16 DEF
     Rollback, BeginRollback, RestoreFromJournal, RestoreActive, RestorePrevious,
        SwapPrevious, VerifyRestored, RollbackCommitted, RollbackFails, RollbackThrows,
        StartRollback, RecoveryRequired
<1>21. CASE Environment
  BY <1>21, <1>1, <1>2, <1>3, <1>4, <1>5, <1>6, <1>7, <1>8, <1>9, <1>10, <1>11, <1>12,
     <1>13, <1>14, <1>15, <1>16 DEF
     Environment, UpdaterCrashes
<1>22. CASE \E c \in ArtifactOrNone, force, installOnly \in BOOLEAN :
               StartRun(c, force, installOnly)
  BY <1>22, <1>1, <1>2, <1>3, <1>4, <1>5, <1>6, <1>7, <1>8, <1>9, <1>10, <1>11, <1>12,
     <1>13, <1>14, <1>15, <1>16 DEF StartRun
<1>23. CASE UNCHANGED vars
  BY <1>23, <1>1, <1>2, <1>3, <1>4, <1>5, <1>6, <1>7, <1>8, <1>9, <1>10, <1>11, <1>12,
     <1>13, <1>14, <1>15, <1>16 DEF vars
<1> QED
  BY <1>17, <1>18, <1>19, <1>20, <1>21, <1>22, <1>23 DEF Next, UpdaterStep

\* However an activation is interrupted, by a crash at any step, in any number of
\* runs: the last known-good deployment can be rolled back to, and an open journal
\* names no other one as what a rollback goes back to.
THEOREM KnownGood == Spec => []KnownGoodKept
<1>1. IInv /\ SwitchInv /\ KnownGoodInv => KnownGoodKept
  <2> SUFFICES ASSUME IInv, SwitchInv, KnownGoodInv, ~hist.threw, hist.known # NoArtifact
               PROVE  KnownGoodRecoverable /\ RollbackTargetIsKnownGood
    BY DEF KnownGoodKept, KnownGoodRecoverable, RollbackTargetIsKnownGood
  <2>1. rec.tx.phase \in Phases
    BY DEF IInv, TypeOK, Record, Journal
  <2> QED
    BY <2>1 DEF KnownGoodInv, KnownGoodPlaced, KnownGoodRecoverable,
       RollbackTargetIsKnownGood, Phases
<1> QED
  BY Invariant, SwitchInitially, SwitchStep, KnownGoodInitially, KnownGoodStep, <1>1, PTL
     DEF Spec

\* A journal is committed only by a candidate that passed probation or by a
\* rollback, and between runs an active record names what refs/active boots.
THEOREM TrueRecord == Spec => []RecordIsTrue
<1>1. RecordInv => RecordIsTrue
  BY DEF RecordInv, RecordIsTrue, ActiveRecordMatchesReference
<1> QED
  BY Invariant, SwitchInitially, SwitchStep, RecordInitially, RecordStep, <1>1, PTL DEF Spec

\* Without --force no live session is cut in a process the updater has fenced,
\* whatever process is on the port by then and whoever asks it for sessions.
THEOREM FenceHolds == Spec => []DrainedBeforeRestart
<1>1. Init => FenceInv
  BY DEF Init, FenceInv
<1>2. FenceInv => DrainedBeforeRestart
  BY DEF FenceInv, DrainedBeforeRestart
<1> QED
  BY Invariant, FenceStep, <1>1, <1>2, PTL DEF Spec

-----------------------------------------------------------------------------
(***************************************************************************)
(* rly install, init, update from a channel, and uninstall.                *)
(***************************************************************************)

\* Commands run one at a time: they share the staging directory, the store and
\* the service.
Alone == \A p, q \in Procs : p = q

\* The steps of a command, by what it knows of its release.
LayoutSteps   == {"layout", "migrate", "refs", "previous-ref", "commit", "links", "clean"}
MigrateSteps  == {"migrate", "refs", "previous-ref", "commit"}
InitSteps     == {"home", "deploy"}
AdoptSteps    == {"adopt", "backfill", "activate"}
UpdateSteps   == {"hash", "copy", "expose"}
ServiceSteps  == {"reconcile", "start", "record", "ready", "launcher"}
RemovalSteps  == {"unlink", "rm-bootstrap", "rm-runtime", "rm-installer"}
LoggedSteps   == {"route"} \cup InitSteps \cup AdoptSteps \cup LayoutSteps \cup UpdateSteps
VerifiedSteps == {"observe", "log"} \cup LoggedSteps
SourceSteps   == {"unpack", "verify"} \cup VerifiedSteps
CommandSteps  == {"idle", "acquire", "handoff"} \cup SourceSteps \cup ServiceSteps \cup RemovalSteps

ProcessType ==
  [cmd : {None, "install", "init", "update", "uninstall", "purge"}, at : CommandSteps,
   channel : Channels \cup {None}, release : {0} \cup Releases, own : BOOLEAN,
   first : BOOLEAN, id : Ids \cup {NoId}, result : {None, "ok", "failed"}]

LayoutType ==
  [marker : {None, "migrating", "committed"}, plan : SUBSET Ids,
   current : LegacyIds \cup {NoId}, before : LegacyIds \cup {NoId}]

\* The types of the whole state.
Typed ==
  /\ InstallationTypeOK
  /\ published \in [Channels -> Releases]
  /\ proc \in [Procs -> ProcessType]
  /\ aside \subseteq Ids /\ layout \in LayoutType

\* Which command is at which step.
CommandAtStep ==
  \A p \in Procs :
    /\ proc[p].at \in SourceSteps /\ proc[p].cmd # "init" =>
         proc[p].channel \in Channels /\ proc[p].release \in Releases
    /\ proc[p].at \in {"acquire", "unpack", "verify", "observe", "log"} \cup LayoutSteps =>
         proc[p].cmd \in {"install", "update"}
    /\ proc[p].at \in {"handoff", "route"} \cup AdoptSteps => proc[p].cmd = "install"
    /\ proc[p].at \in InitSteps => proc[p].cmd \in {"install", "init"}
    /\ proc[p].at \in UpdateSteps => proc[p].cmd = "update"

\* A deployment holds the tree it is named by, or none.
TreesAreNamed == \A i \in Ids : deployed[i].tree \in {None, i[4]}

\* The tree of a release stays whole from its verification on, and is logged; the
\* deployment made of it is named by it.
ReleaseAtStep ==
  \A p \in Procs : proc[p].cmd # "init" =>
    /\ proc[p].at \in VerifiedSteps => Tree(p) = "whole"
    /\ proc[p].at \in LoggedSteps => Source(p) \in log
    /\ proc[p].cmd = "install" /\ proc[p].at \in AdoptSteps \cup LayoutSteps =>
         proc[p].id = <<"pruned", proc[p].channel, proc[p].release, "whole">>
    /\ proc[p].at \in {"copy", "expose"} =>
         proc[p].id = <<"full", proc[p].channel, proc[p].release, "whole">>

\* An update works on a release that is not older than the newest one observed.
NotOlder ==
  \A p \in Procs : proc[p].cmd = "update" /\ proc[p].at \in SourceSteps =>
    observed[proc[p].channel] <= proc[p].release

\* An installation sets the active reference where there was no deployment.
NothingServed ==
  \A p \in Procs : proc[p].cmd = "install" /\ proc[p].at \in AdoptSteps \cup LayoutSteps =>
    active \in LegacyIds \cup {NoId}

\* While a plan is carried out it has the links of the old layout; once it
\* is, what they name is valid, and then so is the active reference.
MigrationAtStep ==
  \A p \in Procs :
    /\ proc[p].at \in MigrateSteps =>
         /\ layout.current \in layout.plan \/ (layout.current = NoId /\ active # NoId)
         /\ layout.before \in layout.plan \cup {NoId}
    /\ proc[p].at \in MigrateSteps \ {"migrate"} => Pending = {}
    /\ proc[p].at \in {"previous-ref", "commit"} => active # NoId
    /\ proc[p].at \in {"links", "clean"} => layout.marker = "committed"

\* A migration is committed with an active reference.
CommittedServes ==
  layout.marker = "committed" =>
    active # NoId \/ \A i \in LegacyIds : i \notin aside /\ deployed[i].tree = None

\* A command that removes the installer's state has removed the store.
StoreRemoved ==
  \A p \in Procs : proc[p].at = "rm-installer" => active = NoId /\ staged = NoId

StoreInv ==
  /\ Typed /\ CommandAtStep /\ TreesAreNamed /\ ReleaseAtStep /\ NotOlder
  /\ NothingServed /\ MigrationAtStep /\ CommittedServes /\ StoreRemoved
  /\ StoreServes

\* On systemd a command starts a service whose unit is the expected one, and from
\* then on that is enabled and loaded, through any login.
ServiceAtStep ==
  \A p \in Procs :
    /\ proc[p].at = "start" /\ Platform = "linux" => svc.file = "expected"
    /\ proc[p].at \in {"record", "ready"} =>
         Platform = "linux" /\ svc.file = "expected" /\ svc.enabled /\ svc.loaded = "expected"

-----------------------------------------------------------------------------
(* Names, services and refusals.                                           *)

\* What a deployment can be named by.
LEMMA IdFacts ==
  /\ \A c \in Channels, r \in Releases, part \in Parts :
       /\ <<"pruned", c, r, part>> \in Ids \ LegacyIds
       /\ <<"full", c, r, part>> \in Ids \ LegacyIds
  /\ \A i \in Ids : i[4] \in Parts
  /\ LegacyIds \subseteq Ids
  /\ \A i \in LegacyIds : i[4] = "whole"
  /\ NoId \notin Ids
<1>1. \A c \in Channels, r \in Releases, part \in Parts :
        /\ <<"pruned", c, r, part>> \in Ids \ LegacyIds
        /\ <<"full", c, r, part>> \in Ids \ LegacyIds
  BY DEF Ids, LegacyIds, Legacy
<1>2. \A i \in Ids : i[4] \in Parts
  BY DEF Ids, LegacyIds, Legacy, Parts
<1>3. LegacyIds \subseteq Ids /\ \A i \in LegacyIds : i[4] = "whole"
  BY DEF Ids, LegacyIds, Legacy
<1>4. NoId \notin Ids
  BY DEF Ids, LegacyIds, Legacy, NoId
<1> QED
  BY <1>1, <1>2, <1>3, <1>4

\* The parts of a tree, and that none is no part.
LEMMA PartFacts == "whole" \in Parts /\ "partial" \in Parts /\ None \notin Parts /\ "whole" # None
BY DEF Parts, None

\* Every outcome of the service manager is a service.
LEMMA ServiceOutcomes ==
  ASSUME NEW s \in Service
  PROVE  /\ \A o \in ReconcileDefinition(s) : o.svc \in Service
         /\ \A o \in Start(s) : o.svc \in Service
         /\ \A o \in Unregister(s) : o.svc \in Service
         /\ Login(s) \in Service
<1>1. NoService \in Service
  BY DEF NoService, Service, Absent, Definitions
<1>2. \A o \in SystemdRegister(s) : o.svc \in Service
  <2> DEFINE written == [s EXCEPT !.file = "expected"]
  <2>1. written \in Service /\ [written EXCEPT !.loaded = "expected"] \in Service
    BY DEF Service, Definitions, Absent
  <2> HIDE DEF written
  <2>2. \A t : Failed(t).svc = t /\ Done(t).svc = t
    BY DEF Failed, Done
  <2> QED
    BY <2>1, <2>2 DEF SystemdRegister, written
<1>3. \A t \in Service : \A o \in LaunchdBootstrap(t) : o.svc \in Service
  <2> SUFFICES ASSUME NEW t \in Service PROVE \A o \in LaunchdBootstrap(t) : o.svc \in Service
    OBVIOUS
  <2>1. [t EXCEPT !.loaded = t.file, !.running = t.file] \in Service
    BY DEF Service, Definitions, Absent
  <2>2. \A u : Failed(u).svc = u /\ Done(u).svc = u
    BY DEF Failed, Done
  <2> QED
    BY <2>1, <2>2 DEF LaunchdBootstrap
<1>4. \A o \in LaunchdRegister(s) : o.svc \in Service
  <2> DEFINE written == [s EXCEPT !.file = "expected"]
  <2>1. written \in Service /\ LaunchdBootout(written) \in Service
    BY DEF LaunchdBootout, Service, Definitions, Absent
  <2>2. \A o \in LaunchdBootstrap(written) \cup LaunchdBootstrap(LaunchdBootout(written)) : o.svc \in Service
    BY <1>3, <2>1
  <2>3. Failed(written).svc \in Service
    BY <2>1 DEF Failed
  <2> QED
    BY <2>2, <2>3 DEF LaunchdRegister
<1>5. \A o \in SystemdStart(s) \cup LaunchdStart(s) : o.svc \in Service
  <2> DEFINE enabled == [s EXCEPT !.enabled = TRUE, !.loaded = s.file]
             running == IF s.running = Absent THEN s.file ELSE s.running
             kept == IF s.running = Absent THEN s.loaded ELSE s.running
  <2>1. /\ enabled \in Service /\ [enabled EXCEPT !.running = running] \in Service
        /\ [s EXCEPT !.running = kept] \in Service
    BY DEF Service, Definitions, Absent
  <2>2. \A t : Failed(t).svc = t /\ Done(t).svc = t
    BY DEF Failed, Done
  <2>3. \A o \in SystemdStart(s) : o.svc \in Service
    <3> HIDE DEF enabled, running
    <3> QED
      BY <2>1, <2>2 DEF SystemdStart, enabled, running
  <2>4. \A o \in LaunchdStart(s) : o.svc \in Service
    <3> HIDE DEF kept
    <3> QED
      BY <2>1, <2>2 DEF LaunchdStart, kept
  <2> QED
    BY <2>3, <2>4
<1>6. \A o \in SystemdUnregister(s) \cup LaunchdUnregister(s) : o.svc \in Service
  BY <1>1 DEF SystemdUnregister, LaunchdUnregister, Service, Absent, Done
<1>7. \A o \in Register(s) : o.svc \in Service
  BY <1>2, <1>4 DEF Register, Failed
<1>8. \A o \in ReconcileDefinition(s) : o.svc \in Service
  BY <1>7 DEF ReconcileDefinition
<1>9. \A o \in Start(s) : o.svc \in Service
  BY <1>5 DEF Start, Failed
<1>10. \A o \in Unregister(s) : o.svc \in Service
  BY <1>6 DEF Unregister, Done
<1>11. Login(s) \in Service
  BY DEF Login, Service, Absent
<1> QED
  BY <1>8, <1>9, <1>10, <1>11

\* A list of checks whose errors are errors refuses an offer with a defect that
\* one of them looks for.
LEMMA Refused ==
  ASSUME NEW checks, NEW offer, NEW path, NEW n \in Nat,
         DOMAIN checks = 1..n,
         \A i \in 1..n : checks[i][Column(path)] # NoError,
         NEW k \in 1..n, checks[k][1] \in offer, checks[k][Column(path)] # "unchecked"
  PROVE  Refusal(checks, offer, path) # NoError
<1> DEFINE failing == Failing(checks, offer, path)
<1>1. failing \subseteq Nat /\ failing # {} /\ failing \subseteq 1..n
  BY DEF Failing
<1>2. PICK i \in failing : \A j \in failing : i <= j
  <2> DEFINE below == {pair \in Nat \X Nat : pair[1] < pair[2]}
  <2>1. IsWellFoundedOn(below, Nat)
    BY NatLessThanWellFounded, Zenon DEF OpToRel
  <2>2. \A i, j \in Nat : <<j, i>> \notin below => i <= j
    OBVIOUS
  <2> HIDE DEF below, failing
  <2>3. PICK i \in failing : \A j \in failing : <<j, i>> \notin below
    BY <1>1, <2>1, WFMin
  <2> QED
    BY <1>1, <2>2, <2>3
<1>4. (CHOOSE m \in failing : \A j \in failing : m <= j) \in failing
  BY <1>2
<1> HIDE DEF failing
<1>5. Refusal(checks, offer, path) = checks[CHOOSE m \in failing : \A j \in failing : m <= j][Column(path)]
  BY <1>1 DEF Refusal, failing
<1> QED
  BY <1>1, <1>4, <1>5

\* Lists of two to six entries.
LEMMA ShortLists ==
  ASSUME NEW S, NEW a \in S, NEW b \in S, NEW c \in S, NEW d \in S, NEW e \in S, NEW f \in S
  PROVE  /\ <<a, b>> \in Seq(S) /\ Len(<<a, b>>) = 2
         /\ <<a, b, c>> \in Seq(S) /\ Len(<<a, b, c>>) = 3
         /\ <<a, b, c, d, e>> \in Seq(S) /\ Len(<<a, b, c, d, e>>) = 5
         /\ <<a, b, c, d, e, f>> \in Seq(S) /\ Len(<<a, b, c, d, e, f>>) = 6
OBVIOUS

\* A document older than the highest observed one is refused.
LEMMA RollbackRefused ==
  ASSUME NEW channel, NEW offer, NEW version \in Nat, NEW highest \in Nat, version < highest
  PROVE  Refusal(MetadataChecks(channel) \o BytesChecks, WithRollback(offer, version, highest), "network")
           # NoError
<1> DEFINE Rows(list) == {list[i] : i \in DOMAIN list}
           Row == Rows(ListingChecks) \cup Rows(ChannelChecks) \cup Rows(EvaluationChecks)
                    \cup Rows(ManifestChecks) \cup Rows(TargetChecks(channel)) \cup Rows(BytesChecks)
           former == ListingChecks \o ChannelChecks
           first == former \o EvaluationChecks
           metadata == MetadataChecks(channel)
           checks == metadata \o BytesChecks
<1>a. /\ DOMAIN ListingChecks = 1..2
      /\ \A i \in 1..2 : ListingChecks[i][2] # NoError
  BY DEF ListingChecks, NoError
<1>b. /\ DOMAIN ChannelChecks = 1..5
      /\ \A i \in 1..5 : ChannelChecks[i][2] # NoError
  BY DEF ChannelChecks, NoError
<1>c. /\ DOMAIN EvaluationChecks = 1..3
      /\ \A i \in 1..3 : EvaluationChecks[i][2] # NoError
  BY DEF EvaluationChecks, NoError
<1>d. /\ DOMAIN ManifestChecks = 1..5
      /\ \A i \in 1..5 : ManifestChecks[i][2] # NoError
  BY DEF ManifestChecks, NoError
<1>e. /\ DOMAIN TargetChecks(channel) = 1..5
      /\ \A i \in 1..5 : TargetChecks(channel)[i][2] # NoError
  BY DEF TargetChecks, NoError
<1>f. /\ DOMAIN BytesChecks = 1..6
      /\ \A i \in 1..6 : BytesChecks[i][2] # NoError
  BY DEF BytesChecks, NoError
<1>0. \A r \in Row : r[2] # NoError
  BY <1>a, <1>b, <1>c, <1>d, <1>e, <1>f
<1>1. /\ \A i \in 1..2 : ListingChecks[i] \in Row
      /\ \A i \in 1..5 : ChannelChecks[i] \in Row /\ ManifestChecks[i] \in Row /\ TargetChecks(channel)[i] \in Row
      /\ \A i \in 1..3 : EvaluationChecks[i] \in Row
      /\ \A i \in 1..6 : BytesChecks[i] \in Row
  BY <1>a, <1>b, <1>c, <1>d, <1>e, <1>f
<1> HIDE DEF Row
<1>g. ListingChecks \in Seq(Row) /\ Len(ListingChecks) = 2
  BY <1>1, ShortLists DEF ListingChecks
<1>h. ChannelChecks \in Seq(Row) /\ Len(ChannelChecks) = 5
  BY <1>1, ShortLists DEF ChannelChecks
<1>i. EvaluationChecks \in Seq(Row) /\ Len(EvaluationChecks) = 3
  BY <1>1, ShortLists DEF EvaluationChecks
<1>j. ManifestChecks \in Seq(Row) /\ Len(ManifestChecks) = 5
  BY <1>1, ShortLists DEF ManifestChecks
<1>k. TargetChecks(channel) \in Seq(Row) /\ Len(TargetChecks(channel)) = 5
  BY <1>1, ShortLists DEF TargetChecks
<1>l. BytesChecks \in Seq(Row) /\ Len(BytesChecks) = 6
  BY <1>1, ShortLists DEF BytesChecks
<1>6. EvaluationChecks[1][1] = "rollback" /\ EvaluationChecks[1][2] = "channel-rollback-detected"
  BY DEF EvaluationChecks
<1>7. former \in Seq(Row) /\ Len(former) = 7
  <2>1. former \in Seq(Row) /\ Len(former) = Len(ListingChecks) + Len(ChannelChecks)
    BY <1>g, <1>h, ConcatProperties, Zenon
  <2> QED
    BY <1>g, <1>h, <2>1
<1>8. first \in Seq(Row) /\ Len(first) = 10 /\ first[8] = EvaluationChecks[1]
  <2> HIDE DEF former
  <2> QED
    <3>1. /\ first \in Seq(Row) /\ Len(first) = Len(former) + Len(EvaluationChecks)
          /\ \A i \in 1..(Len(former) + Len(EvaluationChecks)) :
               first[i] = IF i <= Len(former) THEN former[i] ELSE EvaluationChecks[i - Len(former)]
      BY <1>i, <1>7, ConcatProperties, Zenon
    <3> HIDE DEF first
    <3> QED
      BY <1>i, <1>7, <3>1
<1>9. metadata \in Seq(Row) /\ Len(metadata) >= 10 /\ metadata[8] = EvaluationChecks[1]
  <2> HIDE DEF first
  <2>1. /\ first \o ManifestChecks \in Seq(Row) /\ Len(first \o ManifestChecks) >= 10
        /\ (first \o ManifestChecks)[8] = EvaluationChecks[1]
    <3> DEFINE second == first \o ManifestChecks
    <3>1. /\ second \in Seq(Row) /\ Len(second) = Len(first) + Len(ManifestChecks)
          /\ \A i \in 1..(Len(first) + Len(ManifestChecks)) :
               second[i] = IF i <= Len(first) THEN first[i] ELSE ManifestChecks[i - Len(first)]
      BY <1>j, <1>8, ConcatProperties, Zenon
    <3> HIDE DEF second
    <3>2. second \in Seq(Row) /\ Len(second) >= 10 /\ second[8] = EvaluationChecks[1]
      BY <1>j, <1>8, <3>1
    <3> QED
      BY <3>2 DEF second
  <2>2. metadata = (first \o ManifestChecks) \o TargetChecks(channel)
    BY DEF MetadataChecks, first
  <2> DEFINE second == first \o ManifestChecks
  <2> HIDE DEF second
  <2>3. second \o TargetChecks(channel) \in Seq(Row) /\ Len(second \o TargetChecks(channel)) >= 10
        /\ (second \o TargetChecks(channel))[8] = EvaluationChecks[1]
    BY <1>k, <2>1, ConcatProperties DEF second
  <2> QED
    BY <2>2, <2>3 DEF second
<1>10. checks \in Seq(Row) /\ Len(checks) >= 10 /\ checks[8] = EvaluationChecks[1]
  <2> HIDE DEF metadata
  <2> QED
    BY <1>l, <1>9, ConcatProperties
<1> HIDE DEF checks
<1>11. \A i \in 1..Len(checks) : checks[i][2] # NoError
  BY <1>0, <1>10
<1>12. "rollback" \in WithRollback(offer, version, highest)
  BY DEF WithRollback
<1>13. DOMAIN checks = 1..Len(checks) /\ Len(checks) \in Nat /\ 8 \in 1..Len(checks)
  BY <1>10
<1>14. \A i \in 1..Len(checks) : checks[i][Column("network")] # NoError
  BY <1>11 DEF Column
<1>15. checks[8][1] \in WithRollback(offer, version, highest) /\ checks[8][Column("network")] # "unchecked"
  BY <1>6, <1>10, <1>12 DEF Column
<1>16. Refusal(checks, WithRollback(offer, version, highest), "network") # NoError
  BY <1>13, <1>14, <1>15, Refused
<1> QED
  BY <1>16 DEF checks

\* A tree that is not the released one is refused.
LEMMA WrongTreeRefused == Refusal(TreeChecks, {"wrong-tree"}, "network") # NoError
<1>1. DOMAIN TreeChecks = 1..5
  BY DEF TreeChecks
<1>2. \A i \in 1..5 : TreeChecks[i][Column("network")] # NoError
  BY DEF TreeChecks, NoError, Column
<1>3. TreeChecks[5][1] \in {"wrong-tree"} /\ TreeChecks[5][Column("network")] # "unchecked"
  BY DEF TreeChecks, Column
<1>4. 5 \in Nat /\ 5 \in 1..5
  OBVIOUS
<1> QED
  BY <1>1, <1>2, <1>3, <1>4, Refused, Zenon

-----------------------------------------------------------------------------
(* Steps of a command.                                                     *)

\* A command that goes on keeps what it has; one that ends forgets it.
LEMMA Moves ==
  ASSUME proc \in [Procs -> ProcessType], NEW p \in Procs
  PROVE  /\ \A step \in CommandSteps : Go(p, step) =>
              /\ proc' \in [Procs -> ProcessType]
              /\ proc'[p].at = step /\ proc'[p].result = proc[p].result
              /\ proc'[p].cmd = proc[p].cmd /\ proc'[p].id = proc[p].id
              /\ proc'[p].channel = proc[p].channel /\ proc'[p].release = proc[p].release
              /\ proc'[p].own = proc[p].own /\ proc'[p].first = proc[p].first
         /\ \A result \in {"ok", "failed"} : End(p, result) =>
              /\ proc' \in [Procs -> ProcessType]
              /\ proc'[p].at = "idle" /\ proc'[p].cmd = proc[p].cmd
              /\ proc'[p].id = NoId /\ proc'[p].result = result
<1>1. ASSUME NEW step \in CommandSteps, Go(p, step)
      PROVE  /\ proc' \in [Procs -> ProcessType]
             /\ proc'[p].at = step /\ proc'[p].result = proc[p].result
             /\ proc'[p].cmd = proc[p].cmd /\ proc'[p].id = proc[p].id
             /\ proc'[p].channel = proc[p].channel /\ proc'[p].release = proc[p].release
             /\ proc'[p].own = proc[p].own /\ proc'[p].first = proc[p].first
  BY <1>1 DEF Go, ProcessType
<1>2. ASSUME NEW result \in {"ok", "failed"}, End(p, result)
      PROVE  /\ proc' \in [Procs -> ProcessType]
             /\ proc'[p].at = "idle" /\ proc'[p].cmd = proc[p].cmd
             /\ proc'[p].id = NoId /\ proc'[p].result = result
  BY <1>2 DEF End, Idle, ProcessType, CommandSteps
<1> QED
  BY <1>1, <1>2

\* The labels are labels of a command.
LEMMA LabelFacts ==
  /\ "idle" \in CommandSteps /\ "acquire" \in CommandSteps /\ "handoff" \in CommandSteps /\ "unpack" \in CommandSteps
  /\ "verify" \in CommandSteps /\ "observe" \in CommandSteps /\ "log" \in CommandSteps /\ "route" \in CommandSteps
  /\ "home" \in CommandSteps /\ "deploy" \in CommandSteps /\ "adopt" \in CommandSteps /\ "backfill" \in CommandSteps
  /\ "activate" \in CommandSteps /\ "layout" \in CommandSteps /\ "migrate" \in CommandSteps /\ "refs" \in CommandSteps
  /\ "previous-ref" \in CommandSteps /\ "commit" \in CommandSteps /\ "links" \in CommandSteps /\ "clean" \in CommandSteps
  /\ "hash" \in CommandSteps /\ "copy" \in CommandSteps /\ "expose" \in CommandSteps /\ "reconcile" \in CommandSteps
  /\ "start" \in CommandSteps /\ "record" \in CommandSteps /\ "ready" \in CommandSteps /\ "launcher" \in CommandSteps
  /\ "unlink" \in CommandSteps /\ "rm-bootstrap" \in CommandSteps /\ "rm-runtime" \in CommandSteps /\ "rm-installer" \in CommandSteps
BY DEF LayoutSteps, InitSteps, AdoptSteps, UpdateSteps, ServiceSteps, RemovalSteps,
       LoggedSteps, VerifiedSteps, SourceSteps, CommandSteps

\* The steps of a command are those of its kind.
LEMMA CommandStep ==
  ASSUME Alone, Typed, CommandAtStep, [InstallationNext]_installationVars
  PROVE  CommandAtStep'
<1> USE LabelFacts DEF Alone, Typed, CommandAtStep, LayoutSteps, MigrateSteps, InitSteps, AdoptSteps, UpdateSteps,
     ServiceSteps, RemovalSteps, LoggedSteps, VerifiedSteps, SourceSteps, None
<1>1. ASSUME NEW p \in Procs, RunInstall(p)
      PROVE  CommandAtStep'
  BY <1>1, LabelFacts, Moves
     DEF RunInstall, At, AcquireForInstall, InstallOptions, Idle, ProcessType
<1>2. ASSUME NEW p \in Procs, RunInitAgain(p)
      PROVE  CommandAtStep'
  BY <1>2, LabelFacts, Moves
     DEF RunInitAgain, At, Idle, ProcessType
<1>3. ASSUME NEW p \in Procs, RunUpdateCommand(p)
      PROVE  CommandAtStep'
  BY <1>3, LabelFacts, Moves
     DEF RunUpdateCommand, At, Idle, ProcessType
<1>4. ASSUME NEW p \in Procs, RunUninstallCommand(p)
      PROVE  CommandAtStep'
  BY <1>4, LabelFacts, Moves
     DEF RunUninstallCommand, At, Idle, ProcessType
<1>5. ASSUME NEW p \in Procs, AcquireVerifiedCandidate(p)
      PROVE  CommandAtStep'
  BY <1>5, LabelFacts, Moves
     DEF AcquireVerifiedCandidate, At, RequestedChannels, ProcessType
<1>6. ASSUME NEW p \in Procs, VerifyLocalAcquisition(p)
      PROVE  CommandAtStep'
  BY <1>6, LabelFacts, Moves
     DEF VerifyLocalAcquisition, At, RequestedChannels, ProcessType
<1>7. ASSUME NEW p \in Procs, Untar(p)
      PROVE  CommandAtStep'
  BY <1>7, LabelFacts, Moves
     DEF Untar, At
<1>8. ASSUME NEW p \in Procs, VerifyUnpackedArtifact(p)
      PROVE  CommandAtStep'
  BY <1>8, LabelFacts, Moves
     DEF VerifyUnpackedArtifact, At
<1>9. ASSUME NEW p \in Procs, RecordObserved(p)
      PROVE  CommandAtStep'
  BY <1>9, LabelFacts, Moves
     DEF RecordObserved, At
<1>10. ASSUME NEW p \in Procs, AppendAcquisition(p)
      PROVE  CommandAtStep'
  BY <1>10, LabelFacts, Moves
     DEF AppendAcquisition, At
<1>11. ASSUME NEW p \in Procs, FirstInstall(p)
      PROVE  CommandAtStep'
  BY <1>11, LabelFacts, Moves
     DEF FirstInstall, At
<1>12. ASSUME NEW p \in Procs, RepairInstall(p)
      PROVE  CommandAtStep'
  BY <1>12, LabelFacts, Moves
     DEF RepairInstall, At
<1>13. ASSUME NEW p \in Procs, PrepareHome(p)
      PROVE  CommandAtStep'
  BY <1>13, LabelFacts, Moves
     DEF PrepareHome, At
<1>14. ASSUME NEW p \in Procs, MaterializeRuntimeTree(p)
      PROVE  CommandAtStep'
  BY <1>14, LabelFacts, Moves
     DEF MaterializeRuntimeTree, At, ProcessType
<1>15. ASSUME NEW p \in Procs, AdoptDeployment(p)
      PROVE  CommandAtStep'
  BY <1>15, LabelFacts, Moves
     DEF AdoptDeployment, At
<1>16. ASSUME NEW p \in Procs, BackfillMetadata(p)
      PROVE  CommandAtStep'
  BY <1>16, LabelFacts, Moves
     DEF BackfillMetadata, At
<1>17. ASSUME NEW p \in Procs, EnsureRuntimeLayout(p)
      PROVE  CommandAtStep'
  BY <1>17, LabelFacts, Moves
     DEF EnsureRuntimeLayout, At, AfterLayout, Refuse
<1>18. ASSUME NEW p \in Procs, MigrateLegacyLayout(p)
      PROVE  CommandAtStep'
  BY <1>18, LabelFacts, Moves
     DEF MigrateLegacyLayout, At, AfterLayout, Refuse
<1>19. ASSUME NEW p \in Procs, SetActiveReference(p)
      PROVE  CommandAtStep'
  BY <1>19, LabelFacts, Moves
     DEF SetActiveReference, At
<1>20. ASSUME NEW p \in Procs, ReconcileService(p)
      PROVE  CommandAtStep'
  BY <1>20, LabelFacts, Moves
     DEF ReconcileService, At
<1>21. ASSUME NEW p \in Procs, StartService(p)
      PROVE  CommandAtStep'
  BY <1>21, LabelFacts, Moves
     DEF StartService, At
<1>22. ASSUME NEW p \in Procs, WriteInstallation(p)
      PROVE  CommandAtStep'
  BY <1>22, LabelFacts, Moves
     DEF WriteInstallation, At
<1>23. ASSUME NEW p \in Procs, WaitForReadiness(p)
      PROVE  CommandAtStep'
  BY <1>23, LabelFacts, Moves
     DEF WaitForReadiness, At
<1>24. ASSUME NEW p \in Procs, InstallUserLauncherSymlink(p)
      PROVE  CommandAtStep'
  BY <1>24, LabelFacts, Moves
     DEF InstallUserLauncherSymlink, At
<1>25. ASSUME NEW p \in Procs, ComputeArtifactId(p)
      PROVE  CommandAtStep'
  BY <1>25, LabelFacts, Moves
     DEF ComputeArtifactId, At, ProcessType
<1>26. ASSUME NEW p \in Procs, CopyCandidate(p)
      PROVE  CommandAtStep'
  BY <1>26, LabelFacts, Moves
     DEF CopyCandidate, At
<1>27. ASSUME NEW p \in Procs, ExposeStaged(p)
      PROVE  CommandAtStep'
  BY <1>27, LabelFacts, Moves
     DEF ExposeStaged, At
<1>28. ASSUME NEW p \in Procs, RemoveUserLauncherSymlink(p)
      PROVE  CommandAtStep'
  BY <1>28, LabelFacts, Moves
     DEF RemoveUserLauncherSymlink, At
<1>29. ASSUME NEW p \in Procs, RemoveBootstrap(p)
      PROVE  CommandAtStep'
  BY <1>29, LabelFacts, Moves
     DEF RemoveBootstrap, At
<1>30. ASSUME NEW p \in Procs, RemoveRuntimeStore(p)
      PROVE  CommandAtStep'
  BY <1>30, LabelFacts, Moves
     DEF RemoveRuntimeStore, At
<1>31. ASSUME NEW p \in Procs, RemoveInstallerState(p)
      PROVE  CommandAtStep'
  BY <1>31, LabelFacts, Moves
     DEF RemoveInstallerState, At
<1>32. ASSUME NEW p \in Procs, Kill(p)
      PROVE  CommandAtStep'
  BY <1>32, LabelFacts, Moves
     DEF Kill, At
<1>33. CASE Publish \/ UserLogsIn
  BY <1>33, LabelFacts
     DEF Publish, UserLogsIn
<1>34. CASE UNCHANGED installationVars
  BY <1>34, LabelFacts
     DEF installationVars, store, install, origin
<1> QED
  BY <1>1, <1>2, <1>3, <1>4, <1>5, <1>6, <1>7, <1>8, <1>9, <1>10, <1>11, <1>12, <1>13, <1>14,
       <1>15, <1>16, <1>17, <1>18, <1>19, <1>20, <1>21, <1>22, <1>23, <1>24, <1>25, <1>26,
       <1>27, <1>28, <1>29, <1>30, <1>31, <1>32, <1>33, <1>34 DEF InstallationNext, Command, Step

\* Every step moves a command to a command of its kind, with what it has acquired.
LEMMA ProcTyped ==
  ASSUME proc \in [Procs -> ProcessType], published \in [Channels -> Releases],
         unpacked \in [Channels \X Releases -> Trees], CommandAtStep, [InstallationNext]_installationVars
  PROVE  (proc \in [Procs -> ProcessType])'
<1> USE LabelFacts DEF None
<1>1. ASSUME NEW p \in Procs, RunInstall(p)
      PROVE  (proc \in [Procs -> ProcessType])'
  <2>1. PICK options \in InstallOptions :
          proc' = [proc EXCEPT ![p] = IF AcquireForInstall(options) = "refused"
                                      THEN [[Idle EXCEPT !.cmd = "install"] EXCEPT !.result = "failed"]
                                      ELSE [[Idle EXCEPT !.cmd = "install"] EXCEPT !.at = AcquireForInstall(options)]]
    BY <1>1 DEF RunInstall
  <2> DEFINE r == IF AcquireForInstall(options) = "refused"
                   THEN [[Idle EXCEPT !.cmd = "install"] EXCEPT !.result = "failed"]
                   ELSE [[Idle EXCEPT !.cmd = "install"] EXCEPT !.at = AcquireForInstall(options)]
  <2>2. r \in ProcessType
    <3>1. AcquireForInstall(options) \in {"handoff", "refused", "acquire"}
      BY DEF AcquireForInstall
    <3>2. [Idle EXCEPT !.cmd = "install"] \in ProcessType
      BY LabelFacts DEF Idle, ProcessType
    <3> QED
      BY <3>1, <3>2, LabelFacts DEF ProcessType
  <2>3. proc' = [proc EXCEPT ![p] = r]
    BY <2>1
  <2> HIDE DEF r
  <2> QED
    BY <2>2, <2>3
<1>2. ASSUME NEW p \in Procs, RunInitAgain(p)
      PROVE  (proc \in [Procs -> ProcessType])'
  BY <1>2, Moves
     DEF RunInitAgain, At, Idle, ProcessType
<1>3. ASSUME NEW p \in Procs, RunUpdateCommand(p)
      PROVE  (proc \in [Procs -> ProcessType])'
  BY <1>3, Moves
     DEF RunUpdateCommand, At, Idle, ProcessType
<1>4. ASSUME NEW p \in Procs, RunUninstallCommand(p)
      PROVE  (proc \in [Procs -> ProcessType])'
  <2>1. PICK options \in UninstallOptions :
          proc' = [proc EXCEPT ![p] = [Idle EXCEPT !.cmd = IF options.purge THEN "purge" ELSE "uninstall",
                                                   !.at = "unlink"]]
    BY <1>4 DEF RunUninstallCommand
  <2> DEFINE r == [Idle EXCEPT !.cmd = IF options.purge THEN "purge" ELSE "uninstall",
                              !.at = "unlink"]
  <2>2. r \in ProcessType
    BY LabelFacts DEF Idle, ProcessType
  <2>3. proc' = [proc EXCEPT ![p] = r]
    BY <2>1
  <2> HIDE DEF r
  <2> QED
    BY <2>2, <2>3
<1>5. ASSUME NEW p \in Procs, AcquireVerifiedCandidate(p)
      PROVE  (proc \in [Procs -> ProcessType])'
  <2>1. CASE \E result \in {"ok", "failed"} : End(p, result)
    BY <1>5, <2>1, Moves DEF AcquireVerifiedCandidate, At
  <2>2. CASE ~(\E result \in {"ok", "failed"} : End(p, result))
    <3>0. /\ RequestedChannels \subseteq Channels
          /\ \A channel \in Channels : \A served \in 1..published[channel] : served \in Releases
      BY RuntimeLayoutAssumption DEF RequestedChannels, Releases
    <3>1. PICK channel \in Channels, served \in Releases :
            proc' = [proc EXCEPT ![p].at = "unpack", ![p].channel = channel, ![p].release = served]
      BY <1>5, <2>2, <3>0 DEF AcquireVerifiedCandidate
    <3> DEFINE r == [proc[p] EXCEPT !.at = "unpack", !.channel = channel, !.release = served]
    <3>2. r \in ProcessType
      BY LabelFacts DEF ProcessType
    <3> HIDE DEF r
    <3>3. proc' = [proc EXCEPT ![p] = r]
      BY <3>1 DEF r
    <3> QED
      BY <3>2, <3>3
  <2> QED
    BY <2>1, <2>2
<1>6. ASSUME NEW p \in Procs, VerifyLocalAcquisition(p)
      PROVE  (proc \in [Procs -> ProcessType])'
  <2>1. CASE \E result \in {"ok", "failed"} : End(p, result)
    BY <1>6, <2>1, Moves DEF VerifyLocalAcquisition, At
  <2>2. CASE ~(\E result \in {"ok", "failed"} : End(p, result))
    <3>0. /\ RequestedChannels \subseteq Channels
          /\ \A channel \in Channels : \A served \in 1..published[channel] : served \in Releases
      BY RuntimeLayoutAssumption DEF RequestedChannels, Releases
    <3>1. PICK channel \in Channels, served \in Releases :
            proc' = [proc EXCEPT ![p].at = "observe", ![p].channel = channel, ![p].release = served, ![p].own = TRUE]
      BY <1>6, <2>2, <3>0 DEF VerifyLocalAcquisition
    <3> DEFINE r == [proc[p] EXCEPT !.at = "observe", !.channel = channel, !.release = served, !.own = TRUE]
    <3>2. r \in ProcessType
      BY LabelFacts DEF ProcessType
    <3> HIDE DEF r
    <3>3. proc' = [proc EXCEPT ![p] = r]
      BY <3>1 DEF r
    <3> QED
      BY <3>2, <3>3
  <2> QED
    BY <2>1, <2>2
<1>7. ASSUME NEW p \in Procs, Untar(p)
      PROVE  (proc \in [Procs -> ProcessType])'
  BY <1>7, Moves
     DEF Untar, At
<1>8. ASSUME NEW p \in Procs, VerifyUnpackedArtifact(p)
      PROVE  (proc \in [Procs -> ProcessType])'
  BY <1>8, Moves
     DEF VerifyUnpackedArtifact, At
<1>9. ASSUME NEW p \in Procs, RecordObserved(p)
      PROVE  (proc \in [Procs -> ProcessType])'
  BY <1>9, Moves
     DEF RecordObserved, At
<1>10. ASSUME NEW p \in Procs, AppendAcquisition(p)
      PROVE  (proc \in [Procs -> ProcessType])'
  BY <1>10, Moves
     DEF AppendAcquisition, At
<1>11. ASSUME NEW p \in Procs, FirstInstall(p)
      PROVE  (proc \in [Procs -> ProcessType])'
  <2>1. CASE FALSE
    BY <1>11, <2>1, Moves DEF FirstInstall, At
  <2>2. CASE ~(FALSE)
    <3>1. proc' = [proc EXCEPT ![p].at = "home", ![p].first = TRUE]
      BY <1>11 DEF FirstInstall
    <3> DEFINE r == [proc[p] EXCEPT !.at = "home", !.first = TRUE]
    <3>2. r \in ProcessType
      BY LabelFacts DEF ProcessType
    <3> HIDE DEF r
    <3>3. proc' = [proc EXCEPT ![p] = r]
      BY <3>1 DEF r
    <3> QED
      BY <3>2, <3>3
  <2> QED
    BY <2>1, <2>2
<1>12. ASSUME NEW p \in Procs, RepairInstall(p)
      PROVE  (proc \in [Procs -> ProcessType])'
  BY <1>12, Moves
     DEF RepairInstall, At
<1>13. ASSUME NEW p \in Procs, PrepareHome(p)
      PROVE  (proc \in [Procs -> ProcessType])'
  BY <1>13, Moves
     DEF PrepareHome, At
<1>14. ASSUME NEW p \in Procs, MaterializeRuntimeTree(p)
      PROVE  (proc \in [Procs -> ProcessType])'
  <2>1. CASE (\E result \in {"ok", "failed"} : End(p, result)) \/ Go(p, "reconcile")
    BY <1>14, <2>1, Moves DEF MaterializeRuntimeTree, At
  <2>2. CASE ~((\E result \in {"ok", "failed"} : End(p, result)) \/ Go(p, "reconcile"))
    <3>0. proc[p].channel \in Channels /\ proc[p].release \in Releases /\ Tree(p) \in Parts
      <4>1. proc[p].channel \in Channels /\ proc[p].release \in Releases /\ Tree(p) # None
        BY <1>14, <2>2 DEF MaterializeRuntimeTree, At, CommandAtStep, SourceSteps, VerifiedSteps, LoggedSteps, InitSteps, UpdateSteps
      <4> QED
        BY <4>1 DEF Tree, Source, Trees, Parts
    <3>1. proc' = [proc EXCEPT ![p].at = "adopt",
                               ![p].id = <<"pruned", proc[p].channel, proc[p].release, Tree(p)>>]
      BY <1>14, <2>2 DEF MaterializeRuntimeTree
    <3>4. <<"pruned", proc[p].channel, proc[p].release, Tree(p)>> \in Ids
      BY <3>0, IdFacts
    <3> DEFINE r == [proc[p] EXCEPT !.at = "adopt",
                                !.id = <<"pruned", proc[p].channel, proc[p].release, Tree(p)>>]
    <3>2. r \in ProcessType
      BY LabelFacts, <3>4 DEF ProcessType
    <3> HIDE DEF r
    <3>3. proc' = [proc EXCEPT ![p] = r]
      BY <3>1 DEF r
    <3> QED
      BY <3>2, <3>3
  <2> QED
    BY <2>1, <2>2
<1>15. ASSUME NEW p \in Procs, AdoptDeployment(p)
      PROVE  (proc \in [Procs -> ProcessType])'
  BY <1>15, Moves
     DEF AdoptDeployment, At
<1>16. ASSUME NEW p \in Procs, BackfillMetadata(p)
      PROVE  (proc \in [Procs -> ProcessType])'
  BY <1>16, Moves
     DEF BackfillMetadata, At
<1>17. ASSUME NEW p \in Procs, EnsureRuntimeLayout(p)
      PROVE  (proc \in [Procs -> ProcessType])'
  BY <1>17, Moves
     DEF EnsureRuntimeLayout, At, AfterLayout, Refuse
<1>18. ASSUME NEW p \in Procs, MigrateLegacyLayout(p)
      PROVE  (proc \in [Procs -> ProcessType])'
  BY <1>18, Moves
     DEF MigrateLegacyLayout, At, AfterLayout, Refuse
<1>19. ASSUME NEW p \in Procs, SetActiveReference(p)
      PROVE  (proc \in [Procs -> ProcessType])'
  BY <1>19, Moves
     DEF SetActiveReference, At
<1>20. ASSUME NEW p \in Procs, ReconcileService(p)
      PROVE  (proc \in [Procs -> ProcessType])'
  BY <1>20, Moves
     DEF ReconcileService, At
<1>21. ASSUME NEW p \in Procs, StartService(p)
      PROVE  (proc \in [Procs -> ProcessType])'
  BY <1>21, Moves
     DEF StartService, At
<1>22. ASSUME NEW p \in Procs, WriteInstallation(p)
      PROVE  (proc \in [Procs -> ProcessType])'
  BY <1>22, Moves
     DEF WriteInstallation, At
<1>23. ASSUME NEW p \in Procs, WaitForReadiness(p)
      PROVE  (proc \in [Procs -> ProcessType])'
  BY <1>23, Moves
     DEF WaitForReadiness, At
<1>24. ASSUME NEW p \in Procs, InstallUserLauncherSymlink(p)
      PROVE  (proc \in [Procs -> ProcessType])'
  BY <1>24, Moves
     DEF InstallUserLauncherSymlink, At
<1>25. ASSUME NEW p \in Procs, ComputeArtifactId(p)
      PROVE  (proc \in [Procs -> ProcessType])'
  <2>1. CASE \E result \in {"ok", "failed"} : End(p, result)
    BY <1>25, <2>1, Moves DEF ComputeArtifactId, At
  <2>2. CASE ~(\E result \in {"ok", "failed"} : End(p, result))
    <3>0. proc[p].channel \in Channels /\ proc[p].release \in Releases /\ Tree(p) \in Parts
      <4>1. proc[p].channel \in Channels /\ proc[p].release \in Releases /\ Tree(p) # None
        BY <1>25, <2>2 DEF ComputeArtifactId, At, CommandAtStep, SourceSteps, VerifiedSteps, LoggedSteps, InitSteps, UpdateSteps
      <4> QED
        BY <4>1 DEF Tree, Source, Trees, Parts
    <3>1. proc' = [proc EXCEPT ![p].at = "copy",
                               ![p].id = <<"full", proc[p].channel, proc[p].release, Tree(p)>>]
      BY <1>25, <2>2 DEF ComputeArtifactId
    <3>4. <<"full", proc[p].channel, proc[p].release, Tree(p)>> \in Ids
      BY <3>0, IdFacts
    <3> DEFINE r == [proc[p] EXCEPT !.at = "copy",
                                !.id = <<"full", proc[p].channel, proc[p].release, Tree(p)>>]
    <3>2. r \in ProcessType
      BY LabelFacts, <3>4 DEF ProcessType
    <3> HIDE DEF r
    <3>3. proc' = [proc EXCEPT ![p] = r]
      BY <3>1 DEF r
    <3> QED
      BY <3>2, <3>3
  <2> QED
    BY <2>1, <2>2
<1>26. ASSUME NEW p \in Procs, CopyCandidate(p)
      PROVE  (proc \in [Procs -> ProcessType])'
  BY <1>26, Moves
     DEF CopyCandidate, At
<1>27. ASSUME NEW p \in Procs, ExposeStaged(p)
      PROVE  (proc \in [Procs -> ProcessType])'
  BY <1>27, Moves
     DEF ExposeStaged, At
<1>28. ASSUME NEW p \in Procs, RemoveUserLauncherSymlink(p)
      PROVE  (proc \in [Procs -> ProcessType])'
  BY <1>28, Moves
     DEF RemoveUserLauncherSymlink, At
<1>29. ASSUME NEW p \in Procs, RemoveBootstrap(p)
      PROVE  (proc \in [Procs -> ProcessType])'
  BY <1>29, Moves
     DEF RemoveBootstrap, At
<1>30. ASSUME NEW p \in Procs, RemoveRuntimeStore(p)
      PROVE  (proc \in [Procs -> ProcessType])'
  BY <1>30, Moves
     DEF RemoveRuntimeStore, At
<1>31. ASSUME NEW p \in Procs, RemoveInstallerState(p)
      PROVE  (proc \in [Procs -> ProcessType])'
  BY <1>31, Moves
     DEF RemoveInstallerState, At
<1>32. ASSUME NEW p \in Procs, Kill(p)
      PROVE  (proc \in [Procs -> ProcessType])'
  BY <1>32, Moves
     DEF Kill, At
<1>33. CASE Publish \/ UserLogsIn
  BY <1>33
     DEF Publish, UserLogsIn
<1>34. CASE UNCHANGED installationVars
  BY <1>34
     DEF installationVars, store, install, origin
<1> QED
  BY <1>1, <1>2, <1>3, <1>4, <1>5, <1>6, <1>7, <1>8, <1>9, <1>10, <1>11, <1>12, <1>13, <1>14,
       <1>15, <1>16, <1>17, <1>18, <1>19, <1>20, <1>21, <1>22, <1>23, <1>24, <1>25, <1>26,
       <1>27, <1>28, <1>29, <1>30, <1>31, <1>32, <1>33, <1>34 DEF InstallationNext, Command, Step

-----------------------------------------------------------------------------
(* The steps that write the store, and the types of what is stored.        *)

\* A migration writes one thing at a time, in this order.
MigrationWrite(p) ==
  \/ At(p, "layout") /\ (RecordNewLayout \/ PlanMigration)
  \/ At(p, "migrate") /\ \E id \in Pending : Movable(id) /\ MigrateEntry(id)
  \/ At(p, "refs") /\ ~Taken(active, layout.current) /\ EnsureActiveRef
  \/ At(p, "previous-ref") /\ ~Taken(previous, layout.before) /\ EnsurePreviousRef
  \/ At(p, "commit") /\ CommitMigration
  \/ At(p, "links") /\ RemoveLegacyLinks
  \/ At(p, "clean") /\ CleanVersions

StoreWrite(p) ==
  \/ MigrationWrite(p) /\ UNCHANGED log
  \/ AdoptDeployment(p) \/ BackfillMetadata(p) \/ SetActiveReference(p)
  \/ CopyCandidate(p) \/ ExposeStaged(p) \/ RemoveRuntimeStore(p) \/ Kill(p)

\* Nothing else writes the store.
LEMMA StoreSteps ==
  ASSUME [InstallationNext]_installationVars
  PROVE  UNCHANGED store \/ \E p \in Procs : StoreWrite(p)
<1>1. ASSUME NEW p \in Procs, Command(p)
      PROVE  UNCHANGED store
  BY <1>1 DEF Command, RunInstall, RunInitAgain, RunUpdateCommand, RunUninstallCommand
<1>2. ASSUME NEW p \in Procs, EnsureRuntimeLayout(p)
      PROVE  UNCHANGED store \/ StoreWrite(p)
  BY <1>2 DEF EnsureRuntimeLayout, Refuse, StoreWrite, MigrationWrite
<1>3. ASSUME NEW p \in Procs, MigrateLegacyLayout(p)
      PROVE  UNCHANGED store \/ StoreWrite(p)
  <2>1. CASE At(p, "migrate") /\ \E id \in Pending : IF Movable(id) THEN MigrateEntry(id) /\ UNCHANGED proc ELSE Refuse(p)
    BY <1>3, <2>1 DEF Refuse, StoreWrite, MigrationWrite, MigrateLegacyLayout
  <2>2. CASE ~(At(p, "migrate") /\ \E id \in Pending : IF Movable(id) THEN MigrateEntry(id) /\ UNCHANGED proc ELSE Refuse(p))
    BY <1>3, <2>2 DEF Refuse, StoreWrite, MigrationWrite, MigrateLegacyLayout
  <2> QED
    BY <2>1, <2>2
<1>4. ASSUME NEW p \in Procs,
             \/ AcquireVerifiedCandidate(p) \/ VerifyLocalAcquisition(p) \/ Untar(p)
             \/ VerifyUnpackedArtifact(p) \/ RecordObserved(p) \/ AppendAcquisition(p)
             \/ FirstInstall(p) \/ RepairInstall(p)
      PROVE  UNCHANGED store
  BY <1>4 DEF AcquireVerifiedCandidate, VerifyLocalAcquisition, Untar, VerifyUnpackedArtifact,
              RecordObserved, AppendAcquisition, FirstInstall, RepairInstall
<1>5. ASSUME NEW p \in Procs,
             \/ PrepareHome(p) \/ MaterializeRuntimeTree(p) \/ ReconcileService(p)
             \/ StartService(p) \/ WriteInstallation(p) \/ WaitForReadiness(p)
             \/ InstallUserLauncherSymlink(p) \/ ComputeArtifactId(p)
      PROVE  UNCHANGED store
  BY <1>5 DEF PrepareHome, MaterializeRuntimeTree, ReconcileService, StartService,
              WriteInstallation, WaitForReadiness, InstallUserLauncherSymlink, ComputeArtifactId
<1>6. ASSUME NEW p \in Procs,
             RemoveUserLauncherSymlink(p) \/ RemoveBootstrap(p) \/ RemoveInstallerState(p)
      PROVE  UNCHANGED store
  BY <1>6 DEF RemoveUserLauncherSymlink, RemoveBootstrap, RemoveInstallerState
<1>7. ASSUME Publish \/ UserLogsIn \/ UNCHANGED installationVars
      PROVE  UNCHANGED store
  BY <1>7 DEF Publish, UserLogsIn, installationVars
<1> QED
  BY <1>1, <1>2, <1>3, <1>4, <1>5, <1>6, <1>7, Zenon DEF InstallationNext, Step, StoreWrite

\* A command copies a deployment under a name that is one.
LEMMA CopiesNamed ==
  ASSUME Typed, CommandAtStep, ReleaseAtStep, NEW p \in Procs
  PROVE  LeftCopies(p) \subseteq Ids
<1> SUFFICES ASSUME At(p, "adopt") \/ At(p, "copy"), NEW part \in Parts
             PROVE  [proc[p].id EXCEPT ![4] = part] \in Ids
  BY DEF LeftCopies
<1>1. /\ proc[p].channel \in Channels /\ proc[p].release \in Releases
      /\ \/ proc[p].id = <<"pruned", proc[p].channel, proc[p].release, "whole">>
         \/ proc[p].id = <<"full", proc[p].channel, proc[p].release, "whole">>
  BY DEF CommandAtStep, ReleaseAtStep, At, SourceSteps, VerifiedSteps, LoggedSteps, AdoptSteps, UpdateSteps
<1>2. \/ [proc[p].id EXCEPT ![4] = part] = <<"pruned", proc[p].channel, proc[p].release, part>>
      \/ [proc[p].id EXCEPT ![4] = part] = <<"full", proc[p].channel, proc[p].release, part>>
  BY <1>1
<1>3. /\ <<"pruned", proc[p].channel, proc[p].release, part>> \in Ids
      /\ <<"full", proc[p].channel, proc[p].release, part>> \in Ids
  BY <1>1, IdFacts
<1> QED
  BY <1>2, <1>3, Zenon

\* What the store holds keeps its type.
LEMMA StoreTyped ==
  ASSUME Typed, CommandAtStep, ReleaseAtStep, [InstallationNext]_installationVars
  PROVE  /\ ({active, previous, staged} \subseteq Ids \cup {NoId})'
         /\ (deployed \in [Ids -> [tree : Trees, meta : BOOLEAN]])'
         /\ (aside \subseteq Ids)' /\ (layout \in LayoutType)'
<1> DEFINE T == /\ {active, previous, staged} \subseteq Ids \cup {NoId}
                /\ deployed \in [Ids -> [tree : Trees, meta : BOOLEAN]]
                /\ aside \subseteq Ids /\ layout \in LayoutType
<1>0. T /\ layout.plan \subseteq Ids /\ LegacyIds \subseteq Ids
  BY IdFacts DEF Typed, InstallationTypeOK, LayoutType
<1>1. CASE UNCHANGED store
  BY <1>0, <1>1 DEF store
<1>2. ASSUME NEW p \in Procs, MigrationWrite(p)
      PROVE  T'
  <2>1. CASE RecordNewLayout
    BY <1>0, <2>1 DEF RecordNewLayout, LayoutType
  <2>2. CASE PlanMigration
    BY <1>0, <2>2 DEF PlanMigration, Plan, LayoutType
  <2>3. ASSUME NEW id \in Pending, MigrateEntry(id)
        PROVE  T'
    <3>1. id \in Ids /\ id[4] \in Trees
      BY <1>0, IdFacts DEF Pending, Trees
    <3> QED
      BY <1>0, <2>3, <3>1 DEF MigrateEntry
  <2>4. CASE EnsureActiveRef \/ EnsurePreviousRef
    BY <1>0, <2>4 DEF EnsureActiveRef, EnsurePreviousRef, Ensured, LayoutType
  <2>5. CASE CommitMigration
    BY <1>0, <2>5 DEF CommitMigration, LayoutType
  <2>7. CASE RemoveLegacyLinks
    BY <1>0, <2>7 DEF RemoveLegacyLinks, LayoutType
  <2>6. CASE CleanVersions
    BY <1>0, <2>6 DEF CleanVersions
  <2> QED
    BY <1>2, <2>1, <2>2, <2>3, <2>4, <2>5, <2>6, <2>7 DEF MigrationWrite
<1>3. ASSUME NEW p \in Procs, AdoptDeployment(p)
      PROVE  T'
  <2>1. proc[p].id \in Ids => proc[p].id[4] \in Trees
    BY IdFacts DEF Trees
  <2> QED
    BY <1>0, <1>3, <2>1 DEF AdoptDeployment
<1>4. ASSUME NEW p \in Procs, BackfillMetadata(p)
      PROVE  T'
  BY <1>0, <1>4 DEF BackfillMetadata
<1>5. ASSUME NEW p \in Procs, SetActiveReference(p) \/ ExposeStaged(p)
      PROVE  T'
  BY <1>0, <1>5 DEF SetActiveReference, ExposeStaged, Typed, ProcessType
<1>6. ASSUME NEW p \in Procs, CopyCandidate(p)
      PROVE  T'
  <2>1. At(p, "copy") => Tree(p) \in Trees
    BY DEF ReleaseAtStep, CommandAtStep, At, VerifiedSteps, LoggedSteps, UpdateSteps, Trees, Parts
  <2>2. At(p, "copy") => [tree |-> Tree(p), meta |-> TRUE] \in [tree : Trees, meta : BOOLEAN]
    BY <2>1
  <2> QED
    BY <1>0, <1>6, <2>2 DEF CopyCandidate
<1>7. ASSUME NEW p \in Procs, RemoveRuntimeStore(p)
      PROVE  T'
  BY <1>7 DEF RemoveRuntimeStore, NoDeployment, NewLayout, LayoutType, Trees
<1>8. ASSUME NEW p \in Procs, Kill(p)
      PROVE  T'
  BY <1>0, <1>8, CopiesNamed DEF Kill
<1> QED
  BY <1>1, <1>2, <1>3, <1>4, <1>5, <1>6, <1>7, <1>8, StoreSteps DEF StoreWrite

-----------------------------------------------------------------------------
(* The steps that write the rest, and its types.                           *)

\* The service is touched by a registration, a start, a removal, a login, and
\* by what a killed command has already asked for.
LEMMA ServiceWrites ==
  ASSUME [InstallationNext]_installationVars
  PROVE  \/ UNCHANGED svc \/ UserLogsIn
         \/ \E p \in Procs : RunUninstallCommand(p) \/ ReconcileService(p) \/ StartService(p) \/ Kill(p)
<1>1. ASSUME NEW p \in Procs, RunInstall(p) \/ RunInitAgain(p) \/ RunUpdateCommand(p)
      PROVE  UNCHANGED svc
  BY <1>1 DEF RunInstall, RunInitAgain, RunUpdateCommand, install
<1>2. ASSUME NEW p \in Procs,
             \/ AcquireVerifiedCandidate(p) \/ VerifyLocalAcquisition(p) \/ Untar(p)
             \/ VerifyUnpackedArtifact(p) \/ RecordObserved(p) \/ AppendAcquisition(p)
             \/ FirstInstall(p) \/ RepairInstall(p)
      PROVE  UNCHANGED svc
  BY <1>2 DEF AcquireVerifiedCandidate, VerifyLocalAcquisition, Untar, VerifyUnpackedArtifact,
              RecordObserved, AppendAcquisition, FirstInstall, RepairInstall, install
<1>3. ASSUME NEW p \in Procs,
             \/ PrepareHome(p) \/ MaterializeRuntimeTree(p) \/ AdoptDeployment(p)
             \/ BackfillMetadata(p) \/ EnsureRuntimeLayout(p) \/ MigrateLegacyLayout(p)
             \/ SetActiveReference(p)
      PROVE  UNCHANGED svc
  BY <1>3 DEF PrepareHome, MaterializeRuntimeTree, AdoptDeployment, BackfillMetadata,
              EnsureRuntimeLayout, MigrateLegacyLayout, SetActiveReference, install
<1>4. ASSUME NEW p \in Procs,
             \/ WriteInstallation(p) \/ WaitForReadiness(p) \/ InstallUserLauncherSymlink(p)
             \/ ComputeArtifactId(p) \/ CopyCandidate(p) \/ ExposeStaged(p)
      PROVE  UNCHANGED svc
  BY <1>4 DEF WriteInstallation, WaitForReadiness, InstallUserLauncherSymlink,
              ComputeArtifactId, CopyCandidate, ExposeStaged, install
<1>5. ASSUME NEW p \in Procs,
             \/ RemoveUserLauncherSymlink(p) \/ RemoveBootstrap(p) \/ RemoveRuntimeStore(p)
             \/ RemoveInstallerState(p)
      PROVE  UNCHANGED svc
  BY <1>5 DEF RemoveUserLauncherSymlink, RemoveBootstrap, RemoveRuntimeStore,
              RemoveInstallerState, install
<1>6. ASSUME Publish \/ UNCHANGED installationVars
      PROVE  UNCHANGED svc
  BY <1>6 DEF Publish, installationVars, install
<1> QED
  BY <1>1, <1>2, <1>3, <1>4, <1>5, <1>6, Zenon DEF InstallationNext, Command, Step

\* The counters, the log and the staging directory are written by an acquisition
\* and removed with the installer's state.
LEMMA AcquisitionWrites ==
  ASSUME [InstallationNext]_installationVars
  PROVE  \/ UNCHANGED <<observed, log, unpacked>>
         \/ \E p \in Procs : \/ AcquireVerifiedCandidate(p) \/ Untar(p) \/ RecordObserved(p)
                             \/ AppendAcquisition(p) \/ RemoveInstallerState(p)
<1>1. ASSUME NEW p \in Procs, Command(p)
      PROVE  UNCHANGED <<observed, log, unpacked>>
  BY <1>1 DEF Command, RunInstall, RunInitAgain, RunUpdateCommand, RunUninstallCommand
<1>2. ASSUME NEW p \in Procs,
             \/ VerifyLocalAcquisition(p) \/ VerifyUnpackedArtifact(p) \/ FirstInstall(p)
             \/ RepairInstall(p) \/ PrepareHome(p) \/ MaterializeRuntimeTree(p)
             \/ AdoptDeployment(p) \/ BackfillMetadata(p)
      PROVE  UNCHANGED <<observed, log, unpacked>>
  BY <1>2 DEF VerifyLocalAcquisition, VerifyUnpackedArtifact, FirstInstall, RepairInstall,
              PrepareHome, MaterializeRuntimeTree, AdoptDeployment, BackfillMetadata
<1>3. ASSUME NEW p \in Procs,
             \/ EnsureRuntimeLayout(p) \/ MigrateLegacyLayout(p) \/ SetActiveReference(p)
             \/ ReconcileService(p) \/ StartService(p) \/ WriteInstallation(p)
             \/ WaitForReadiness(p) \/ InstallUserLauncherSymlink(p)
      PROVE  UNCHANGED <<observed, log, unpacked>>
  BY <1>3 DEF EnsureRuntimeLayout, MigrateLegacyLayout, SetActiveReference, ReconcileService,
              StartService, WriteInstallation, WaitForReadiness, InstallUserLauncherSymlink
<1>4. ASSUME NEW p \in Procs,
             \/ ComputeArtifactId(p) \/ CopyCandidate(p) \/ ExposeStaged(p)
             \/ RemoveUserLauncherSymlink(p) \/ RemoveBootstrap(p) \/ RemoveRuntimeStore(p)
             \/ Kill(p)
      PROVE  UNCHANGED <<observed, log, unpacked>>
  BY <1>4 DEF ComputeArtifactId, CopyCandidate, ExposeStaged, RemoveUserLauncherSymlink,
              RemoveBootstrap, RemoveRuntimeStore, Kill
<1>5. ASSUME Publish \/ UserLogsIn \/ UNCHANGED installationVars
      PROVE  UNCHANGED <<observed, log, unpacked>>
  BY <1>5 DEF Publish, UserLogsIn, installationVars
<1> QED
  BY <1>1, <1>2, <1>3, <1>4, <1>5, Zenon DEF InstallationNext, Step

\* Only a release that is published changes the channels.
LEMMA PublishedTyped ==
  ASSUME Typed, [InstallationNext]_installationVars
  PROVE  (published \in [Channels -> Releases])' /\ \A c \in Channels : published[c] <= published'[c]
<1>1. CASE Publish
  BY <1>1, RuntimeLayoutAssumption DEF Publish, Typed, Releases
<1>2. ASSUME UNCHANGED published
      PROVE  (published \in [Channels -> Releases])' /\ \A c \in Channels : published[c] <= published'[c]
  BY <1>2, RuntimeLayoutAssumption DEF Typed, Releases
<1>3. ASSUME NEW p \in Procs, Command(p) \/ Kill(p)
      PROVE  UNCHANGED published
  BY <1>3 DEF Command, RunInstall, RunInitAgain, RunUpdateCommand, RunUninstallCommand, Kill, origin
<1>4. ASSUME NEW p \in Procs,
             \/ AcquireVerifiedCandidate(p) \/ VerifyLocalAcquisition(p) \/ Untar(p)
             \/ VerifyUnpackedArtifact(p) \/ RecordObserved(p) \/ AppendAcquisition(p)
             \/ FirstInstall(p) \/ RepairInstall(p)
      PROVE  UNCHANGED published
  BY <1>4 DEF AcquireVerifiedCandidate, VerifyLocalAcquisition, Untar, VerifyUnpackedArtifact,
              RecordObserved, AppendAcquisition, FirstInstall, RepairInstall, origin
<1>5. ASSUME NEW p \in Procs,
             \/ PrepareHome(p) \/ MaterializeRuntimeTree(p) \/ AdoptDeployment(p)
             \/ BackfillMetadata(p) \/ EnsureRuntimeLayout(p) \/ MigrateLegacyLayout(p)
             \/ SetActiveReference(p)
      PROVE  UNCHANGED published
  BY <1>5 DEF PrepareHome, MaterializeRuntimeTree, AdoptDeployment, BackfillMetadata,
              EnsureRuntimeLayout, MigrateLegacyLayout, SetActiveReference, origin
<1>6. ASSUME NEW p \in Procs,
             \/ ReconcileService(p) \/ StartService(p) \/ WriteInstallation(p)
             \/ WaitForReadiness(p) \/ InstallUserLauncherSymlink(p) \/ ComputeArtifactId(p)
             \/ CopyCandidate(p) \/ ExposeStaged(p)
      PROVE  UNCHANGED published
  BY <1>6 DEF ReconcileService, StartService, WriteInstallation, WaitForReadiness,
              InstallUserLauncherSymlink, ComputeArtifactId, CopyCandidate, ExposeStaged, origin
<1>7. ASSUME NEW p \in Procs,
             \/ RemoveUserLauncherSymlink(p) \/ RemoveBootstrap(p) \/ RemoveRuntimeStore(p)
             \/ RemoveInstallerState(p)
      PROVE  UNCHANGED published
  BY <1>7 DEF RemoveUserLauncherSymlink, RemoveBootstrap, RemoveRuntimeStore,
              RemoveInstallerState, origin
<1>8. ASSUME UserLogsIn \/ UNCHANGED installationVars
      PROVE  UNCHANGED published
  BY <1>8 DEF UserLogsIn, installationVars, origin
<1> QED
  BY <1>1, <1>2, <1>3, <1>4, <1>5, <1>6, <1>7, <1>8, Zenon DEF InstallationNext, Step

\* A command that has a release has a channel and a release of it.
LEMMA SourceTyped ==
  ASSUME Typed, CommandAtStep, NEW p \in Procs, proc[p].at \in SourceSteps, proc[p].cmd # "init"
  PROVE  /\ proc[p].channel \in Channels /\ proc[p].release \in Releases
         /\ Source(p) \in Channels \X Releases /\ Source(p) = <<proc[p].channel, proc[p].release>>
BY DEF CommandAtStep, Source

\* The service, the staging directory, the counters and the log keep their types.
LEMMA AcquisitionTyped ==
  ASSUME Typed, CommandAtStep, [InstallationNext]_installationVars
  PROVE  /\ (unpacked \in [Channels \X Releases -> Trees])'
         /\ (observed \in [Channels -> 0..MaxRelease])' /\ (log \subseteq Channels \X Releases)'
<1> DEFINE T == /\ unpacked \in [Channels \X Releases -> Trees]
                /\ observed \in [Channels -> 0..MaxRelease] /\ log \subseteq Channels \X Releases
<1>0. T
  BY DEF Typed, InstallationTypeOK
<1>1. CASE UNCHANGED <<observed, log, unpacked>>
  BY <1>0, <1>1
<1>2. ASSUME NEW p \in Procs, AcquireVerifiedCandidate(p)
      PROVE  T'
  BY <1>0, <1>2 DEF AcquireVerifiedCandidate, RequestedChannels, Releases, Trees, Parts
<1>3. ASSUME NEW p \in Procs, Untar(p)
      PROVE  T'
  BY <1>0, <1>3 DEF Untar, Trees, Parts
<1>4. ASSUME NEW p \in Procs, RecordObserved(p)
      PROVE  T'
  <2>1. proc[p].release \in 0..MaxRelease
    BY <1>4, RuntimeLayoutAssumption DEF RecordObserved, At, CommandAtStep, SourceSteps, VerifiedSteps, Releases
  <2> QED
    BY <1>0, <1>4, <2>1 DEF RecordObserved
<1>5. ASSUME NEW p \in Procs, AppendAcquisition(p)
      PROVE  T'
  <2>1. Source(p) \in Channels \X Releases
    BY <1>5, SourceTyped DEF AppendAcquisition, At, CommandAtStep, SourceSteps, VerifiedSteps
  <2> QED
    BY <1>0, <1>5, <2>1 DEF AppendAcquisition
<1>6. ASSUME NEW p \in Procs, RemoveInstallerState(p)
      PROVE  T'
  BY <1>0, <1>6, RuntimeLayoutAssumption DEF RemoveInstallerState, Trees
<1> QED
  BY <1>1, <1>2, <1>3, <1>4, <1>5, <1>6, AcquisitionWrites

\* The types of the whole state are kept.
LEMMA TypedStep ==
  ASSUME Typed, CommandAtStep, ReleaseAtStep, [InstallationNext]_installationVars
  PROVE  Typed'
<1>1. svc' \in Service
  <2>1. svc \in Service
    BY DEF Typed, InstallationTypeOK
  <2>2. ASSUME NEW p \in Procs, RunUninstallCommand(p) \/ ReconcileService(p) \/ StartService(p) \/ Kill(p)
        PROVE  svc' \in Service
    BY <2>1, <2>2, ServiceOutcomes DEF RunUninstallCommand, ReconcileService, StartService, Kill
  <2>3. ASSUME UserLogsIn
        PROVE  svc' \in Service
    BY <2>1, <2>3, ServiceOutcomes DEF UserLogsIn
  <2> QED
    BY <2>1, <2>2, <2>3, ServiceWrites
<1>2. (proc \in [Procs -> ProcessType])'
  BY ProcTyped DEF Typed, InstallationTypeOK
<1>3. \A p \in Procs : (proc[p].id \in Ids \cup {NoId})'
  BY <1>2 DEF ProcessType
<1> QED
  BY <1>1, <1>2, <1>3, StoreTyped, AcquisitionTyped, PublishedTyped DEF Typed, InstallationTypeOK

\* What an acquisition has verified stays, and so does the name of the copy.
LEMMA ReleaseStep ==
  ASSUME Alone, Typed, CommandAtStep, ReleaseAtStep, [InstallationNext]_installationVars
  PROVE  ReleaseAtStep'
<1> USE DEF Alone, Typed, CommandAtStep, ReleaseAtStep, Tree, Source, LayoutSteps, MigrateSteps,
     InitSteps, AdoptSteps, UpdateSteps, ServiceSteps, RemovalSteps, LoggedSteps, VerifiedSteps,
     SourceSteps, None
<1>1. ASSUME NEW p \in Procs, RunInstall(p)
      PROVE  ReleaseAtStep'
  BY <1>1, LabelFacts, Moves
     DEF RunInstall, At, Idle, AcquireForInstall, InstallOptions, ProcessType
<1>2. ASSUME NEW p \in Procs, RunInitAgain(p)
      PROVE  ReleaseAtStep'
  BY <1>2, LabelFacts, Moves
     DEF RunInitAgain, At, Idle, ProcessType
<1>3. ASSUME NEW p \in Procs, RunUpdateCommand(p)
      PROVE  ReleaseAtStep'
  BY <1>3, LabelFacts, Moves
     DEF RunUpdateCommand, At, Idle, ProcessType
<1>4. ASSUME NEW p \in Procs, RunUninstallCommand(p)
      PROVE  ReleaseAtStep'
  BY <1>4, LabelFacts, Moves
     DEF RunUninstallCommand, At, Idle, ProcessType
<1>5. ASSUME NEW p \in Procs, AcquireVerifiedCandidate(p)
      PROVE  ReleaseAtStep'
  BY <1>5, LabelFacts, Moves
     DEF AcquireVerifiedCandidate, At, ProcessType
<1>6. ASSUME NEW p \in Procs, VerifyLocalAcquisition(p)
      PROVE  ReleaseAtStep'
  BY <1>6, LabelFacts, Moves
     DEF VerifyLocalAcquisition, At, ProcessType
<1>7. ASSUME NEW p \in Procs, Untar(p)
      PROVE  ReleaseAtStep'
  BY <1>7, LabelFacts, Moves
     DEF Untar, At
<1>8. ASSUME NEW p \in Procs, VerifyUnpackedArtifact(p)
      PROVE  ReleaseAtStep'
  BY <1>8, LabelFacts, Moves, WrongTreeRefused
     DEF VerifyUnpackedArtifact, At
<1>9. ASSUME NEW p \in Procs, RecordObserved(p)
      PROVE  ReleaseAtStep'
  BY <1>9, LabelFacts, Moves
     DEF RecordObserved, At
<1>10. ASSUME NEW p \in Procs, AppendAcquisition(p)
      PROVE  ReleaseAtStep'
  BY <1>10, LabelFacts, Moves
     DEF AppendAcquisition, At
<1>11. ASSUME NEW p \in Procs, FirstInstall(p)
      PROVE  ReleaseAtStep'
  BY <1>11, LabelFacts, Moves
     DEF FirstInstall, At, ProcessType
<1>12. ASSUME NEW p \in Procs, RepairInstall(p)
      PROVE  ReleaseAtStep'
  BY <1>12, LabelFacts, Moves
     DEF RepairInstall, At
<1>13. ASSUME NEW p \in Procs, PrepareHome(p)
      PROVE  ReleaseAtStep'
  BY <1>13, LabelFacts, Moves
     DEF PrepareHome, At
<1>14. ASSUME NEW p \in Procs, MaterializeRuntimeTree(p)
      PROVE  ReleaseAtStep'
  BY <1>14, LabelFacts, Moves
     DEF MaterializeRuntimeTree, At, ProcessType
<1>15. ASSUME NEW p \in Procs, AdoptDeployment(p)
      PROVE  ReleaseAtStep'
  BY <1>15, LabelFacts, Moves
     DEF AdoptDeployment, At
<1>16. ASSUME NEW p \in Procs, BackfillMetadata(p)
      PROVE  ReleaseAtStep'
  BY <1>16, LabelFacts, Moves
     DEF BackfillMetadata, At
<1>17. ASSUME NEW p \in Procs, EnsureRuntimeLayout(p)
      PROVE  ReleaseAtStep'
  BY <1>17, LabelFacts, Moves
     DEF EnsureRuntimeLayout, At, AfterLayout, Refuse
<1>18. ASSUME NEW p \in Procs, MigrateLegacyLayout(p)
      PROVE  ReleaseAtStep'
  BY <1>18, LabelFacts, Moves
     DEF MigrateLegacyLayout, At, AfterLayout, Refuse
<1>19. ASSUME NEW p \in Procs, SetActiveReference(p)
      PROVE  ReleaseAtStep'
  BY <1>19, LabelFacts, Moves
     DEF SetActiveReference, At
<1>20. ASSUME NEW p \in Procs, ReconcileService(p)
      PROVE  ReleaseAtStep'
  BY <1>20, LabelFacts, Moves
     DEF ReconcileService, At
<1>21. ASSUME NEW p \in Procs, StartService(p)
      PROVE  ReleaseAtStep'
  BY <1>21, LabelFacts, Moves
     DEF StartService, At
<1>22. ASSUME NEW p \in Procs, WriteInstallation(p)
      PROVE  ReleaseAtStep'
  BY <1>22, LabelFacts, Moves
     DEF WriteInstallation, At
<1>23. ASSUME NEW p \in Procs, WaitForReadiness(p)
      PROVE  ReleaseAtStep'
  BY <1>23, LabelFacts, Moves
     DEF WaitForReadiness, At
<1>24. ASSUME NEW p \in Procs, InstallUserLauncherSymlink(p)
      PROVE  ReleaseAtStep'
  BY <1>24, LabelFacts, Moves
     DEF InstallUserLauncherSymlink, At
<1>25. ASSUME NEW p \in Procs, ComputeArtifactId(p)
      PROVE  ReleaseAtStep'
  BY <1>25, LabelFacts, Moves
     DEF ComputeArtifactId, At, ProcessType
<1>26. ASSUME NEW p \in Procs, CopyCandidate(p)
      PROVE  ReleaseAtStep'
  BY <1>26, LabelFacts, Moves
     DEF CopyCandidate, At
<1>27. ASSUME NEW p \in Procs, ExposeStaged(p)
      PROVE  ReleaseAtStep'
  BY <1>27, LabelFacts, Moves
     DEF ExposeStaged, At
<1>28. ASSUME NEW p \in Procs, RemoveUserLauncherSymlink(p)
      PROVE  ReleaseAtStep'
  BY <1>28, LabelFacts, Moves
     DEF RemoveUserLauncherSymlink, At
<1>29. ASSUME NEW p \in Procs, RemoveBootstrap(p)
      PROVE  ReleaseAtStep'
  BY <1>29, LabelFacts, Moves
     DEF RemoveBootstrap, At
<1>30. ASSUME NEW p \in Procs, RemoveRuntimeStore(p)
      PROVE  ReleaseAtStep'
  BY <1>30, LabelFacts, Moves
     DEF RemoveRuntimeStore, At
<1>31. ASSUME NEW p \in Procs, RemoveInstallerState(p)
      PROVE  ReleaseAtStep'
  BY <1>31, LabelFacts, Moves
     DEF RemoveInstallerState, At
<1>32. ASSUME NEW p \in Procs, Kill(p)
      PROVE  ReleaseAtStep'
  BY <1>32, LabelFacts, Moves
     DEF Kill, At
<1>33. CASE Publish \/ UserLogsIn
  BY <1>33
     DEF Publish, UserLogsIn
<1>34. CASE UNCHANGED installationVars
  BY <1>34
     DEF installationVars, store, install, origin
<1> QED
  BY <1>1, <1>2, <1>3, <1>4, <1>5, <1>6, <1>7, <1>8, <1>9, <1>10, <1>11, <1>12, <1>13, <1>14,
       <1>15, <1>16, <1>17, <1>18, <1>19, <1>20, <1>21, <1>22, <1>23, <1>24, <1>25, <1>26,
       <1>27, <1>28, <1>29, <1>30, <1>31, <1>32, <1>33, <1>34 DEF InstallationNext, Command, Step

\* A deployment is made of the tree that its name is the digest of.
LEMMA TreesNamedStep ==
  ASSUME Typed, CommandAtStep, ReleaseAtStep, TreesAreNamed, [InstallationNext]_installationVars
  PROVE  TreesAreNamed'
<1>0. TreesAreNamed /\ deployed \in [Ids -> [tree : Trees, meta : BOOLEAN]]
  BY DEF Typed, InstallationTypeOK
<1>1. CASE UNCHANGED store
  BY <1>0, <1>1 DEF store, TreesAreNamed
<1>2. ASSUME NEW p \in Procs, MigrationWrite(p)
      PROVE  TreesAreNamed'
  <2>1. CASE RecordNewLayout \/ PlanMigration \/ EnsureActiveRef \/ EnsurePreviousRef
    BY <1>0, <2>1 DEF RecordNewLayout, PlanMigration, EnsureActiveRef, EnsurePreviousRef, TreesAreNamed
  <2>2. CASE CommitMigration \/ RemoveLegacyLinks \/ CleanVersions
    BY <1>0, <2>2 DEF CommitMigration, RemoveLegacyLinks, CleanVersions, TreesAreNamed
  <2>3. ASSUME NEW id \in Pending, MigrateEntry(id)
        PROVE  TreesAreNamed'
    BY <1>0, <2>3 DEF MigrateEntry, TreesAreNamed
  <2> QED
    BY <1>2, <2>1, <2>2, <2>3 DEF MigrationWrite
<1>3. ASSUME NEW p \in Procs, AdoptDeployment(p) \/ BackfillMetadata(p)
      PROVE  TreesAreNamed'
  BY <1>0, <1>3 DEF AdoptDeployment, BackfillMetadata, TreesAreNamed
<1>4. ASSUME NEW p \in Procs, SetActiveReference(p) \/ ExposeStaged(p) \/ Kill(p)
      PROVE  TreesAreNamed'
  BY <1>0, <1>4 DEF SetActiveReference, ExposeStaged, Kill, TreesAreNamed
<1>5. ASSUME NEW p \in Procs, CopyCandidate(p)
      PROVE  TreesAreNamed'
  <2>1. At(p, "copy") => Tree(p) = "whole" /\ proc[p].id[4] = "whole"
    BY DEF ReleaseAtStep, CommandAtStep, At, VerifiedSteps, LoggedSteps, UpdateSteps
  <2>2. CASE deployed' = deployed
    BY <1>0, <2>2 DEF TreesAreNamed
  <2>3. CASE At(p, "copy") /\ deployed' = [deployed EXCEPT ![proc[p].id] = [tree |-> Tree(p), meta |-> TRUE]]
    BY <1>0, <2>1, <2>3 DEF TreesAreNamed
  <2> QED
    BY <1>5, <2>2, <2>3 DEF CopyCandidate
<1>6. ASSUME NEW p \in Procs, RemoveRuntimeStore(p)
      PROVE  TreesAreNamed'
  BY <1>6 DEF RemoveRuntimeStore, NoDeployment, TreesAreNamed
<1> QED
  BY <1>1, <1>2, <1>3, <1>4, <1>5, <1>6, StoreSteps DEF StoreWrite

\* A document below the highest one observed is not accepted by an update.
LEMMA NotOlderAcquired ==
  ASSUME Typed, NEW p \in Procs, proc[p].cmd = "update", AcquireVerifiedCandidate(p)
  PROVE  At(p, "acquire") /\ (At(p, "unpack")' => observed[proc'[p].channel] <= proc'[p].release)
<1>1. PICK channel \in RequestedChannels, offer \in Offers : \E served \in 1..published[channel] :
        /\ At(p, "acquire")
        /\ LET refusal == Refusal(MetadataChecks(channel) \o BytesChecks,
                                  WithRollback(offer, served, HighestObserved(p, channel)), "network")
           IN  IF refusal # NoError
               THEN End(p, "failed") /\ UNCHANGED unpacked
               ELSE /\ proc' = [proc EXCEPT ![p].at = "unpack", ![p].channel = channel, ![p].release = served]
                    /\ unpacked' = [unpacked EXCEPT ![<<channel, served>>] = "partial"]
        /\ UNCHANGED <<origin, observed, log, store, install>>
  BY Zenon DEF AcquireVerifiedCandidate
<1>6. PICK served \in 1..published[channel] :
        /\ At(p, "acquire")
        /\ LET refusal == Refusal(MetadataChecks(channel) \o BytesChecks,
                                  WithRollback(offer, served, HighestObserved(p, channel)), "network")
           IN  IF refusal # NoError
               THEN End(p, "failed") /\ UNCHANGED unpacked
               ELSE /\ proc' = [proc EXCEPT ![p].at = "unpack", ![p].channel = channel, ![p].release = served]
                    /\ unpacked' = [unpacked EXCEPT ![<<channel, served>>] = "partial"]
        /\ UNCHANGED <<origin, observed, log, store, install>>
  BY <1>1
<1>2. channel \in Channels /\ HighestObserved(p, channel) = observed[channel]
  BY DEF RequestedChannels, HighestObserved
<1>3. served \in Nat /\ observed[channel] \in Nat
  BY <1>2, RuntimeLayoutAssumption DEF Typed, InstallationTypeOK, Releases
<1>4. CASE served < observed[channel]
  <2>1. End(p, "failed")
    BY <1>6, <1>2, <1>3, <1>4, RollbackRefused
  <2>2. proc'[p].at = "idle"
    BY <2>1, Moves DEF Typed
  <2> QED
    BY <1>6, <2>2 DEF At
<1>5. CASE observed[channel] <= served
  <2>1. proc' = [proc EXCEPT ![p].at = "unpack", ![p].channel = channel, ![p].release = served]
          => proc'[p].channel = channel /\ proc'[p].release = served
    BY DEF Typed, ProcessType
  <2>2. End(p, "failed") => proc'[p].at = "idle"
    BY Moves DEF Typed
  <2> QED
    BY <1>6, <1>5, <2>1, <2>2 DEF At
<1> QED
  BY <1>3, <1>4, <1>5

\* An update keeps what it has acquired, and nobody observes more meanwhile.
LEMMA NotOlderStep ==
  ASSUME Alone, Typed, CommandAtStep, NotOlder, [InstallationNext]_installationVars
  PROVE  NotOlder'
<1> USE DEF Alone, Typed, CommandAtStep, NotOlder, LayoutSteps, MigrateSteps, InitSteps,
     AdoptSteps, UpdateSteps, ServiceSteps, RemovalSteps, LoggedSteps, VerifiedSteps,
     SourceSteps, None
<1>1. ASSUME NEW p \in Procs, RunInstall(p)
      PROVE  NotOlder'
  BY <1>1, LabelFacts, Moves
     DEF RunInstall, At, Idle, AcquireForInstall, InstallOptions, ProcessType
<1>2. ASSUME NEW p \in Procs, RunInitAgain(p)
      PROVE  NotOlder'
  BY <1>2, LabelFacts, Moves
     DEF RunInitAgain, At, Idle, ProcessType
<1>3. ASSUME NEW p \in Procs, RunUpdateCommand(p)
      PROVE  NotOlder'
  BY <1>3, LabelFacts, Moves
     DEF RunUpdateCommand, At, Idle, ProcessType
<1>4. ASSUME NEW p \in Procs, RunUninstallCommand(p)
      PROVE  NotOlder'
  BY <1>4, LabelFacts, Moves
     DEF RunUninstallCommand, At, Idle, ProcessType
<1>5. ASSUME NEW p \in Procs, AcquireVerifiedCandidate(p)
      PROVE  NotOlder'
  <2>1. At(p, "acquire") /\ observed' = observed
    BY <1>5 DEF AcquireVerifiedCandidate
  <2>2. proc'[p].cmd = proc[p].cmd /\ proc'[p].at \in {"idle", "unpack"}
    BY <1>5, Moves DEF AcquireVerifiedCandidate, ProcessType
  <2>3. proc[p].cmd = "update" /\ proc'[p].at = "unpack" => observed[proc'[p].channel] <= proc'[p].release
    BY <1>5, NotOlderAcquired DEF At
  <2> QED
    BY <2>1, <2>2, <2>3
<1>6. ASSUME NEW p \in Procs, VerifyLocalAcquisition(p)
      PROVE  NotOlder'
  BY <1>6, LabelFacts, Moves
     DEF VerifyLocalAcquisition, At, ProcessType
<1>7. ASSUME NEW p \in Procs, Untar(p)
      PROVE  NotOlder'
  BY <1>7, LabelFacts, Moves
     DEF Untar, At
<1>8. ASSUME NEW p \in Procs, VerifyUnpackedArtifact(p)
      PROVE  NotOlder'
  BY <1>8, LabelFacts, Moves, WrongTreeRefused
     DEF VerifyUnpackedArtifact, At
<1>9. ASSUME NEW p \in Procs, RecordObserved(p)
      PROVE  NotOlder'
  BY <1>9, LabelFacts, Moves, RuntimeLayoutAssumption
     DEF RecordObserved, At, Releases
<1>10. ASSUME NEW p \in Procs, AppendAcquisition(p)
      PROVE  NotOlder'
  BY <1>10, LabelFacts, Moves
     DEF AppendAcquisition, At
<1>11. ASSUME NEW p \in Procs, FirstInstall(p)
      PROVE  NotOlder'
  BY <1>11, LabelFacts, Moves
     DEF FirstInstall, At, ProcessType
<1>12. ASSUME NEW p \in Procs, RepairInstall(p)
      PROVE  NotOlder'
  BY <1>12, LabelFacts, Moves
     DEF RepairInstall, At
<1>13. ASSUME NEW p \in Procs, PrepareHome(p)
      PROVE  NotOlder'
  BY <1>13, LabelFacts, Moves
     DEF PrepareHome, At
<1>14. ASSUME NEW p \in Procs, MaterializeRuntimeTree(p)
      PROVE  NotOlder'
  BY <1>14, LabelFacts, Moves
     DEF MaterializeRuntimeTree, At, ProcessType
<1>15. ASSUME NEW p \in Procs, AdoptDeployment(p)
      PROVE  NotOlder'
  BY <1>15, LabelFacts, Moves
     DEF AdoptDeployment, At
<1>16. ASSUME NEW p \in Procs, BackfillMetadata(p)
      PROVE  NotOlder'
  BY <1>16, LabelFacts, Moves
     DEF BackfillMetadata, At
<1>17. ASSUME NEW p \in Procs, EnsureRuntimeLayout(p)
      PROVE  NotOlder'
  BY <1>17, LabelFacts, Moves
     DEF EnsureRuntimeLayout, At, AfterLayout, Refuse
<1>18. ASSUME NEW p \in Procs, MigrateLegacyLayout(p)
      PROVE  NotOlder'
  BY <1>18, LabelFacts, Moves
     DEF MigrateLegacyLayout, At, AfterLayout, Refuse
<1>19. ASSUME NEW p \in Procs, SetActiveReference(p)
      PROVE  NotOlder'
  BY <1>19, LabelFacts, Moves
     DEF SetActiveReference, At
<1>20. ASSUME NEW p \in Procs, ReconcileService(p)
      PROVE  NotOlder'
  BY <1>20, LabelFacts, Moves
     DEF ReconcileService, At
<1>21. ASSUME NEW p \in Procs, StartService(p)
      PROVE  NotOlder'
  BY <1>21, LabelFacts, Moves
     DEF StartService, At
<1>22. ASSUME NEW p \in Procs, WriteInstallation(p)
      PROVE  NotOlder'
  BY <1>22, LabelFacts, Moves
     DEF WriteInstallation, At
<1>23. ASSUME NEW p \in Procs, WaitForReadiness(p)
      PROVE  NotOlder'
  BY <1>23, LabelFacts, Moves
     DEF WaitForReadiness, At
<1>24. ASSUME NEW p \in Procs, InstallUserLauncherSymlink(p)
      PROVE  NotOlder'
  BY <1>24, LabelFacts, Moves
     DEF InstallUserLauncherSymlink, At
<1>25. ASSUME NEW p \in Procs, ComputeArtifactId(p)
      PROVE  NotOlder'
  BY <1>25, LabelFacts, Moves
     DEF ComputeArtifactId, At, ProcessType
<1>26. ASSUME NEW p \in Procs, CopyCandidate(p)
      PROVE  NotOlder'
  BY <1>26, LabelFacts, Moves
     DEF CopyCandidate, At
<1>27. ASSUME NEW p \in Procs, ExposeStaged(p)
      PROVE  NotOlder'
  BY <1>27, LabelFacts, Moves
     DEF ExposeStaged, At
<1>28. ASSUME NEW p \in Procs, RemoveUserLauncherSymlink(p)
      PROVE  NotOlder'
  BY <1>28, LabelFacts, Moves
     DEF RemoveUserLauncherSymlink, At
<1>29. ASSUME NEW p \in Procs, RemoveBootstrap(p)
      PROVE  NotOlder'
  BY <1>29, LabelFacts, Moves
     DEF RemoveBootstrap, At
<1>30. ASSUME NEW p \in Procs, RemoveRuntimeStore(p)
      PROVE  NotOlder'
  BY <1>30, LabelFacts, Moves
     DEF RemoveRuntimeStore, At
<1>31. ASSUME NEW p \in Procs, RemoveInstallerState(p)
      PROVE  NotOlder'
  BY <1>31, LabelFacts, Moves
     DEF RemoveInstallerState, At
<1>32. ASSUME NEW p \in Procs, Kill(p)
      PROVE  NotOlder'
  BY <1>32, LabelFacts, Moves
     DEF Kill, At
<1>33. CASE Publish \/ UserLogsIn
  BY <1>33
     DEF Publish, UserLogsIn
<1>34. CASE UNCHANGED installationVars
  BY <1>34
     DEF installationVars, store, install, origin
<1> QED
  BY <1>1, <1>2, <1>3, <1>4, <1>5, <1>6, <1>7, <1>8, <1>9, <1>10, <1>11, <1>12, <1>13, <1>14,
       <1>15, <1>16, <1>17, <1>18, <1>19, <1>20, <1>21, <1>22, <1>23, <1>24, <1>25, <1>26,
       <1>27, <1>28, <1>29, <1>30, <1>31, <1>32, <1>33, <1>34 DEF InstallationNext, Command, Step

\* An installation makes a deployment where none is active, and only a migration comes between.
LEMMA NothingServedStep ==
  ASSUME Alone, Typed, CommandAtStep, OnlyVerifiedIsExposed, NothingServed, [InstallationNext]_installationVars
  PROVE  NothingServed'
<1> USE DEF Alone, Typed, CommandAtStep, NothingServed, LayoutSteps, MigrateSteps, InitSteps,
     AdoptSteps, UpdateSteps, ServiceSteps, RemovalSteps, LoggedSteps, VerifiedSteps,
     SourceSteps, None
<1>1. ASSUME NEW p \in Procs, RunInstall(p)
      PROVE  NothingServed'
  BY <1>1, LabelFacts, Moves
     DEF RunInstall, At, Idle, AcquireForInstall, InstallOptions, ProcessType, store
<1>2. ASSUME NEW p \in Procs, RunInitAgain(p)
      PROVE  NothingServed'
  BY <1>2, LabelFacts, Moves
     DEF RunInitAgain, At, Idle, ProcessType, store
<1>3. ASSUME NEW p \in Procs, RunUpdateCommand(p)
      PROVE  NothingServed'
  BY <1>3, LabelFacts, Moves
     DEF RunUpdateCommand, At, Idle, ProcessType, store
<1>4. ASSUME NEW p \in Procs, RunUninstallCommand(p)
      PROVE  NothingServed'
  BY <1>4, LabelFacts, Moves
     DEF RunUninstallCommand, At, Idle, ProcessType, store
<1>5. ASSUME NEW p \in Procs, AcquireVerifiedCandidate(p)
      PROVE  NothingServed'
  BY <1>5, LabelFacts, Moves
     DEF AcquireVerifiedCandidate, At, ProcessType, store
<1>6. ASSUME NEW p \in Procs, VerifyLocalAcquisition(p)
      PROVE  NothingServed'
  BY <1>6, LabelFacts, Moves
     DEF VerifyLocalAcquisition, At, ProcessType, store
<1>7. ASSUME NEW p \in Procs, Untar(p)
      PROVE  NothingServed'
  BY <1>7, LabelFacts, Moves
     DEF Untar, At, store
<1>8. ASSUME NEW p \in Procs, VerifyUnpackedArtifact(p)
      PROVE  NothingServed'
  BY <1>8, LabelFacts, Moves
     DEF VerifyUnpackedArtifact, At, store
<1>9. ASSUME NEW p \in Procs, RecordObserved(p)
      PROVE  NothingServed'
  BY <1>9, LabelFacts, Moves
     DEF RecordObserved, At, store
<1>10. ASSUME NEW p \in Procs, AppendAcquisition(p)
      PROVE  NothingServed'
  BY <1>10, LabelFacts, Moves
     DEF AppendAcquisition, At, store
<1>11. ASSUME NEW p \in Procs, FirstInstall(p)
      PROVE  NothingServed'
  BY <1>11, LabelFacts, Moves
     DEF FirstInstall, At, ProcessType, store
<1>12. ASSUME NEW p \in Procs, RepairInstall(p)
      PROVE  NothingServed'
  BY <1>12, LabelFacts, Moves
     DEF RepairInstall, At, store
<1>13. ASSUME NEW p \in Procs, PrepareHome(p)
      PROVE  NothingServed'
  BY <1>13, LabelFacts, Moves
     DEF PrepareHome, At, store
<1>14. ASSUME NEW p \in Procs, MaterializeRuntimeTree(p)
      PROVE  NothingServed'
  <2>1. ActiveResolves \/ active = NoId
    BY DEF ActiveResolves, Validated, OnlyVerifiedIsExposed
  <2>2. UNCHANGED active /\ proc'[p].cmd = proc[p].cmd
        /\ (ActiveResolves => proc'[p].at \in {"reconcile", "idle"})
    BY <1>14, LabelFacts, Moves DEF MaterializeRuntimeTree, store, ProcessType
  <2> QED
    BY <1>14, <2>1, <2>2 DEF MaterializeRuntimeTree
<1>15. ASSUME NEW p \in Procs, AdoptDeployment(p)
      PROVE  NothingServed'
  BY <1>15, LabelFacts, Moves
     DEF AdoptDeployment, At
<1>16. ASSUME NEW p \in Procs, BackfillMetadata(p)
      PROVE  NothingServed'
  BY <1>16, LabelFacts, Moves
     DEF BackfillMetadata, At
<1>17. ASSUME NEW p \in Procs, EnsureRuntimeLayout(p)
      PROVE  NothingServed'
  BY <1>17, LabelFacts, Moves
     DEF EnsureRuntimeLayout, At, AfterLayout, Refuse, store, RecordNewLayout, PlanMigration
<1>18. ASSUME NEW p \in Procs, MigrateLegacyLayout(p)
      PROVE  NothingServed'
  BY <1>18, LabelFacts, Moves
     DEF MigrateLegacyLayout, At, AfterLayout, Refuse, store, MigrateEntry, EnsureActiveRef,
          Ensured, LayoutType, EnsurePreviousRef, CommitMigration, RemoveLegacyLinks,
          CleanVersions
<1>19. ASSUME NEW p \in Procs, SetActiveReference(p)
      PROVE  NothingServed'
  BY <1>19, LabelFacts, Moves
     DEF SetActiveReference, At
<1>20. ASSUME NEW p \in Procs, ReconcileService(p)
      PROVE  NothingServed'
  BY <1>20, LabelFacts, Moves
     DEF ReconcileService, At, store
<1>21. ASSUME NEW p \in Procs, StartService(p)
      PROVE  NothingServed'
  BY <1>21, LabelFacts, Moves
     DEF StartService, At, store
<1>22. ASSUME NEW p \in Procs, WriteInstallation(p)
      PROVE  NothingServed'
  BY <1>22, LabelFacts, Moves
     DEF WriteInstallation, At, store
<1>23. ASSUME NEW p \in Procs, WaitForReadiness(p)
      PROVE  NothingServed'
  BY <1>23, LabelFacts, Moves
     DEF WaitForReadiness, At, store
<1>24. ASSUME NEW p \in Procs, InstallUserLauncherSymlink(p)
      PROVE  NothingServed'
  BY <1>24, LabelFacts, Moves
     DEF InstallUserLauncherSymlink, At, store
<1>25. ASSUME NEW p \in Procs, ComputeArtifactId(p)
      PROVE  NothingServed'
  BY <1>25, LabelFacts, Moves
     DEF ComputeArtifactId, At, ProcessType, store
<1>26. ASSUME NEW p \in Procs, CopyCandidate(p)
      PROVE  NothingServed'
  BY <1>26, LabelFacts, Moves
     DEF CopyCandidate, At
<1>27. ASSUME NEW p \in Procs, ExposeStaged(p)
      PROVE  NothingServed'
  BY <1>27, LabelFacts, Moves
     DEF ExposeStaged, At
<1>28. ASSUME NEW p \in Procs, RemoveUserLauncherSymlink(p)
      PROVE  NothingServed'
  BY <1>28, LabelFacts, Moves
     DEF RemoveUserLauncherSymlink, At, store
<1>29. ASSUME NEW p \in Procs, RemoveBootstrap(p)
      PROVE  NothingServed'
  BY <1>29, LabelFacts, Moves
     DEF RemoveBootstrap, At, store
<1>30. ASSUME NEW p \in Procs, RemoveRuntimeStore(p)
      PROVE  NothingServed'
  BY <1>30, LabelFacts, Moves
     DEF RemoveRuntimeStore, At
<1>31. ASSUME NEW p \in Procs, RemoveInstallerState(p)
      PROVE  NothingServed'
  BY <1>31, LabelFacts, Moves
     DEF RemoveInstallerState, At, store
<1>32. ASSUME NEW p \in Procs, Kill(p)
      PROVE  NothingServed'
  BY <1>32, LabelFacts, Moves
     DEF Kill, At
<1>33. CASE Publish \/ UserLogsIn
  BY <1>33
     DEF Publish, UserLogsIn, store
<1>34. CASE UNCHANGED installationVars
  BY <1>34
     DEF installationVars, store, install, origin
<1> QED
  BY <1>1, <1>2, <1>3, <1>4, <1>5, <1>6, <1>7, <1>8, <1>9, <1>10, <1>11, <1>12, <1>13, <1>14,
       <1>15, <1>16, <1>17, <1>18, <1>19, <1>20, <1>21, <1>22, <1>23, <1>24, <1>25, <1>26,
       <1>27, <1>28, <1>29, <1>30, <1>31, <1>32, <1>33, <1>34 DEF InstallationNext, Command, Step

\* The installer's state goes after the store.
LEMMA StoreRemovedStep ==
  ASSUME Alone, Typed, CommandAtStep, StoreRemoved, [InstallationNext]_installationVars
  PROVE  StoreRemoved'
<1> USE DEF Alone, Typed, CommandAtStep, StoreRemoved, LayoutSteps, MigrateSteps, InitSteps,
     AdoptSteps, UpdateSteps, ServiceSteps, RemovalSteps, LoggedSteps, VerifiedSteps,
     SourceSteps, None
<1>1. ASSUME NEW p \in Procs, RunInstall(p)
      PROVE  StoreRemoved'
  BY <1>1, LabelFacts, Moves
     DEF RunInstall, At, Idle, AcquireForInstall, InstallOptions, ProcessType
<1>2. ASSUME NEW p \in Procs, RunInitAgain(p)
      PROVE  StoreRemoved'
  BY <1>2, LabelFacts, Moves
     DEF RunInitAgain, At, Idle, ProcessType
<1>3. ASSUME NEW p \in Procs, RunUpdateCommand(p)
      PROVE  StoreRemoved'
  BY <1>3, LabelFacts, Moves
     DEF RunUpdateCommand, At, Idle, ProcessType
<1>4. ASSUME NEW p \in Procs, RunUninstallCommand(p)
      PROVE  StoreRemoved'
  BY <1>4, LabelFacts, Moves
     DEF RunUninstallCommand, At, Idle, ProcessType
<1>5. ASSUME NEW p \in Procs, AcquireVerifiedCandidate(p)
      PROVE  StoreRemoved'
  BY <1>5, LabelFacts, Moves
     DEF AcquireVerifiedCandidate, At, ProcessType
<1>6. ASSUME NEW p \in Procs, VerifyLocalAcquisition(p)
      PROVE  StoreRemoved'
  BY <1>6, LabelFacts, Moves
     DEF VerifyLocalAcquisition, At, ProcessType
<1>7. ASSUME NEW p \in Procs, Untar(p)
      PROVE  StoreRemoved'
  BY <1>7, LabelFacts, Moves
     DEF Untar, At
<1>8. ASSUME NEW p \in Procs, VerifyUnpackedArtifact(p)
      PROVE  StoreRemoved'
  BY <1>8, LabelFacts, Moves
     DEF VerifyUnpackedArtifact, At
<1>9. ASSUME NEW p \in Procs, RecordObserved(p)
      PROVE  StoreRemoved'
  BY <1>9, LabelFacts, Moves
     DEF RecordObserved, At
<1>10. ASSUME NEW p \in Procs, AppendAcquisition(p)
      PROVE  StoreRemoved'
  BY <1>10, LabelFacts, Moves
     DEF AppendAcquisition, At
<1>11. ASSUME NEW p \in Procs, FirstInstall(p)
      PROVE  StoreRemoved'
  BY <1>11, LabelFacts, Moves
     DEF FirstInstall, At, ProcessType
<1>12. ASSUME NEW p \in Procs, RepairInstall(p)
      PROVE  StoreRemoved'
  BY <1>12, LabelFacts, Moves
     DEF RepairInstall, At
<1>13. ASSUME NEW p \in Procs, PrepareHome(p)
      PROVE  StoreRemoved'
  BY <1>13, LabelFacts, Moves
     DEF PrepareHome, At
<1>14. ASSUME NEW p \in Procs, MaterializeRuntimeTree(p)
      PROVE  StoreRemoved'
  BY <1>14, LabelFacts, Moves
     DEF MaterializeRuntimeTree, At, ProcessType
<1>15. ASSUME NEW p \in Procs, AdoptDeployment(p)
      PROVE  StoreRemoved'
  BY <1>15, LabelFacts, Moves
     DEF AdoptDeployment, At
<1>16. ASSUME NEW p \in Procs, BackfillMetadata(p)
      PROVE  StoreRemoved'
  BY <1>16, LabelFacts, Moves
     DEF BackfillMetadata, At
<1>17. ASSUME NEW p \in Procs, EnsureRuntimeLayout(p)
      PROVE  StoreRemoved'
  BY <1>17, LabelFacts, Moves
     DEF EnsureRuntimeLayout, At, AfterLayout, Refuse, store
<1>18. ASSUME NEW p \in Procs, MigrateLegacyLayout(p)
      PROVE  StoreRemoved'
  BY <1>18, LabelFacts, Moves
     DEF MigrateLegacyLayout, At, AfterLayout, Refuse, store
<1>19. ASSUME NEW p \in Procs, SetActiveReference(p)
      PROVE  StoreRemoved'
  BY <1>19, LabelFacts, Moves
     DEF SetActiveReference, At
<1>20. ASSUME NEW p \in Procs, ReconcileService(p)
      PROVE  StoreRemoved'
  BY <1>20, LabelFacts, Moves
     DEF ReconcileService, At
<1>21. ASSUME NEW p \in Procs, StartService(p)
      PROVE  StoreRemoved'
  BY <1>21, LabelFacts, Moves
     DEF StartService, At
<1>22. ASSUME NEW p \in Procs, WriteInstallation(p)
      PROVE  StoreRemoved'
  BY <1>22, LabelFacts, Moves
     DEF WriteInstallation, At
<1>23. ASSUME NEW p \in Procs, WaitForReadiness(p)
      PROVE  StoreRemoved'
  BY <1>23, LabelFacts, Moves
     DEF WaitForReadiness, At
<1>24. ASSUME NEW p \in Procs, InstallUserLauncherSymlink(p)
      PROVE  StoreRemoved'
  BY <1>24, LabelFacts, Moves
     DEF InstallUserLauncherSymlink, At
<1>25. ASSUME NEW p \in Procs, ComputeArtifactId(p)
      PROVE  StoreRemoved'
  BY <1>25, LabelFacts, Moves
     DEF ComputeArtifactId, At, ProcessType
<1>26. ASSUME NEW p \in Procs, CopyCandidate(p)
      PROVE  StoreRemoved'
  BY <1>26, LabelFacts, Moves
     DEF CopyCandidate, At
<1>27. ASSUME NEW p \in Procs, ExposeStaged(p)
      PROVE  StoreRemoved'
  BY <1>27, LabelFacts, Moves
     DEF ExposeStaged, At
<1>28. ASSUME NEW p \in Procs, RemoveUserLauncherSymlink(p)
      PROVE  StoreRemoved'
  BY <1>28, LabelFacts, Moves
     DEF RemoveUserLauncherSymlink, At
<1>29. ASSUME NEW p \in Procs, RemoveBootstrap(p)
      PROVE  StoreRemoved'
  BY <1>29, LabelFacts, Moves
     DEF RemoveBootstrap, At
<1>30. ASSUME NEW p \in Procs, RemoveRuntimeStore(p)
      PROVE  StoreRemoved'
  BY <1>30, LabelFacts, Moves
     DEF RemoveRuntimeStore, At
<1>31. ASSUME NEW p \in Procs, RemoveInstallerState(p)
      PROVE  StoreRemoved'
  BY <1>31, LabelFacts, Moves
     DEF RemoveInstallerState, At
<1>32. ASSUME NEW p \in Procs, Kill(p)
      PROVE  StoreRemoved'
  BY <1>32, LabelFacts, Moves
     DEF Kill, At
<1>33. CASE Publish \/ UserLogsIn
  BY <1>33
     DEF Publish, UserLogsIn, store
<1>34. CASE UNCHANGED installationVars
  BY <1>34
     DEF installationVars, store, install, origin
<1> QED
  BY <1>1, <1>2, <1>3, <1>4, <1>5, <1>6, <1>7, <1>8, <1>9, <1>10, <1>11, <1>12, <1>13, <1>14,
       <1>15, <1>16, <1>17, <1>18, <1>19, <1>20, <1>21, <1>22, <1>23, <1>24, <1>25, <1>26,
       <1>27, <1>28, <1>29, <1>30, <1>31, <1>32, <1>33, <1>34 DEF InstallationNext, Command, Step

\* A plan has the links; when it is carried out nothing of it is pending.
LEMMA MigrationStep ==
  ASSUME Alone, Typed, CommandAtStep, MigrationAtStep, [InstallationNext]_installationVars
  PROVE  MigrationAtStep'
<1> USE DEF Alone, Typed, CommandAtStep, MigrationAtStep, LayoutSteps, MigrateSteps, InitSteps,
     AdoptSteps, UpdateSteps, ServiceSteps, RemovalSteps, LoggedSteps, VerifiedSteps,
     SourceSteps, None
<1>1. ASSUME NEW p \in Procs, RunInstall(p)
      PROVE  MigrationAtStep'
  BY <1>1, LabelFacts, Moves
     DEF RunInstall, At, Idle, AcquireForInstall, InstallOptions, ProcessType
<1>2. ASSUME NEW p \in Procs, RunInitAgain(p)
      PROVE  MigrationAtStep'
  BY <1>2, LabelFacts, Moves
     DEF RunInitAgain, At, Idle, ProcessType
<1>3. ASSUME NEW p \in Procs, RunUpdateCommand(p)
      PROVE  MigrationAtStep'
  BY <1>3, LabelFacts, Moves
     DEF RunUpdateCommand, At, Idle, ProcessType
<1>4. ASSUME NEW p \in Procs, RunUninstallCommand(p)
      PROVE  MigrationAtStep'
  BY <1>4, LabelFacts, Moves
     DEF RunUninstallCommand, At, Idle, ProcessType
<1>5. ASSUME NEW p \in Procs, AcquireVerifiedCandidate(p)
      PROVE  MigrationAtStep'
  BY <1>5, LabelFacts, Moves
     DEF AcquireVerifiedCandidate, At, ProcessType
<1>6. ASSUME NEW p \in Procs, VerifyLocalAcquisition(p)
      PROVE  MigrationAtStep'
  BY <1>6, LabelFacts, Moves
     DEF VerifyLocalAcquisition, At, ProcessType
<1>7. ASSUME NEW p \in Procs, Untar(p)
      PROVE  MigrationAtStep'
  BY <1>7, LabelFacts, Moves
     DEF Untar, At
<1>8. ASSUME NEW p \in Procs, VerifyUnpackedArtifact(p)
      PROVE  MigrationAtStep'
  BY <1>8, LabelFacts, Moves
     DEF VerifyUnpackedArtifact, At
<1>9. ASSUME NEW p \in Procs, RecordObserved(p)
      PROVE  MigrationAtStep'
  BY <1>9, LabelFacts, Moves
     DEF RecordObserved, At
<1>10. ASSUME NEW p \in Procs, AppendAcquisition(p)
      PROVE  MigrationAtStep'
  BY <1>10, LabelFacts, Moves
     DEF AppendAcquisition, At
<1>11. ASSUME NEW p \in Procs, FirstInstall(p)
      PROVE  MigrationAtStep'
  BY <1>11, LabelFacts, Moves
     DEF FirstInstall, At, ProcessType
<1>12. ASSUME NEW p \in Procs, RepairInstall(p)
      PROVE  MigrationAtStep'
  BY <1>12, LabelFacts, Moves
     DEF RepairInstall, At
<1>13. ASSUME NEW p \in Procs, PrepareHome(p)
      PROVE  MigrationAtStep'
  BY <1>13, LabelFacts, Moves
     DEF PrepareHome, At
<1>14. ASSUME NEW p \in Procs, MaterializeRuntimeTree(p)
      PROVE  MigrationAtStep'
  BY <1>14, LabelFacts, Moves
     DEF MaterializeRuntimeTree, At, ProcessType
<1>15. ASSUME NEW p \in Procs, AdoptDeployment(p)
      PROVE  MigrationAtStep'
  BY <1>15, LabelFacts, Moves
     DEF AdoptDeployment, At
<1>16. ASSUME NEW p \in Procs, BackfillMetadata(p)
      PROVE  MigrationAtStep'
  BY <1>16, LabelFacts, Moves
     DEF BackfillMetadata, At
<1>17. ASSUME NEW p \in Procs, EnsureRuntimeLayout(p)
      PROVE  MigrationAtStep'
  <2>1. CASE RecordNewLayout /\ Go(p, AfterLayout(p))
    BY <2>1, LabelFacts, Moves DEF AfterLayout, At
  <2>2. CASE PlanMigration /\ Go(p, "migrate")
    <3>1. /\ layout'.plan = Plan /\ layout'.current = layout.current /\ layout'.before = layout.before
          /\ active' = active
      BY <2>2 DEF PlanMigration, LayoutType
    <3>2. /\ layout.current \in Plan \/ (layout.current = NoId /\ active # NoId)
          /\ layout.before \in Plan \cup {NoId}
      BY <2>2 DEF PlanMigration, Unresolvable, Resolves
    <3> QED
      BY <2>2, <3>1, <3>2, LabelFacts, Moves DEF At
  <2>3. CASE layout.marker = "committed" /\ Go(p, "links") /\ UNCHANGED store
    BY <2>3, LabelFacts, Moves DEF At, store
  <2>4. CASE Refuse(p)
    BY <2>4, Moves DEF Refuse, At
  <2> QED
    BY <1>17, <2>1, <2>2, <2>3, <2>4 DEF EnsureRuntimeLayout
<1>18. ASSUME NEW p \in Procs, MigrateLegacyLayout(p)
      PROVE  MigrationAtStep'
  <2>1. CASE At(p, "migrate") /\ Pending = {} /\ Go(p, "refs") /\ UNCHANGED store
    BY <2>1, LabelFacts, Moves DEF At, store, Pending, Validated
  <2>2. CASE Refuse(p)
    BY <2>2, Moves DEF Refuse, At
  <2>3. ASSUME At(p, "migrate"), NEW id \in Pending, MigrateEntry(id), UNCHANGED proc
        PROVE  MigrationAtStep'
    BY <2>3 DEF MigrateEntry, At
  <2>4. CASE At(p, "refs") /\ EnsureActiveRef /\ Go(p, "previous-ref")
    <3>1. /\ UNCHANGED <<deployed, layout>> /\ Pending' = Pending
          /\ active' = Ensured(active, layout.current)
      BY <2>4 DEF EnsureActiveRef, Pending, Validated
    <3>2. active' # NoId
      BY <2>4, <3>1, IdFacts DEF Ensured, Validated, At, LayoutType
    <3> QED
      BY <2>4, <3>1, <3>2, LabelFacts, Moves DEF At
  <2>5. CASE At(p, "previous-ref") /\ EnsurePreviousRef /\ Go(p, "commit")
    BY <2>5, LabelFacts, Moves DEF At, EnsurePreviousRef, Pending, Validated
  <2>6. CASE At(p, "commit") /\ CommitMigration /\ Go(p, "links")
    BY <2>6, LabelFacts, Moves DEF At, CommitMigration, LayoutType
  <2>7. CASE At(p, "links") /\ RemoveLegacyLinks /\ Go(p, "clean")
    BY <2>7, LabelFacts, Moves DEF At, RemoveLegacyLinks, LayoutType
  <2>8. CASE At(p, "clean") /\ CleanVersions /\ Go(p, AfterLayout(p))
    BY <2>8, LabelFacts, Moves DEF At, AfterLayout
  <2> QED
    BY <1>18, <2>1, <2>2, <2>3, <2>4, <2>5, <2>6, <2>7, <2>8 DEF MigrateLegacyLayout
<1>19. ASSUME NEW p \in Procs, SetActiveReference(p)
      PROVE  MigrationAtStep'
  BY <1>19, LabelFacts, Moves
     DEF SetActiveReference, At
<1>20. ASSUME NEW p \in Procs, ReconcileService(p)
      PROVE  MigrationAtStep'
  BY <1>20, LabelFacts, Moves
     DEF ReconcileService, At
<1>21. ASSUME NEW p \in Procs, StartService(p)
      PROVE  MigrationAtStep'
  BY <1>21, LabelFacts, Moves
     DEF StartService, At
<1>22. ASSUME NEW p \in Procs, WriteInstallation(p)
      PROVE  MigrationAtStep'
  BY <1>22, LabelFacts, Moves
     DEF WriteInstallation, At
<1>23. ASSUME NEW p \in Procs, WaitForReadiness(p)
      PROVE  MigrationAtStep'
  BY <1>23, LabelFacts, Moves
     DEF WaitForReadiness, At
<1>24. ASSUME NEW p \in Procs, InstallUserLauncherSymlink(p)
      PROVE  MigrationAtStep'
  BY <1>24, LabelFacts, Moves
     DEF InstallUserLauncherSymlink, At
<1>25. ASSUME NEW p \in Procs, ComputeArtifactId(p)
      PROVE  MigrationAtStep'
  BY <1>25, LabelFacts, Moves
     DEF ComputeArtifactId, At, ProcessType
<1>26. ASSUME NEW p \in Procs, CopyCandidate(p)
      PROVE  MigrationAtStep'
  BY <1>26, LabelFacts, Moves
     DEF CopyCandidate, At
<1>27. ASSUME NEW p \in Procs, ExposeStaged(p)
      PROVE  MigrationAtStep'
  BY <1>27, LabelFacts, Moves
     DEF ExposeStaged, At
<1>28. ASSUME NEW p \in Procs, RemoveUserLauncherSymlink(p)
      PROVE  MigrationAtStep'
  BY <1>28, LabelFacts, Moves
     DEF RemoveUserLauncherSymlink, At
<1>29. ASSUME NEW p \in Procs, RemoveBootstrap(p)
      PROVE  MigrationAtStep'
  BY <1>29, LabelFacts, Moves
     DEF RemoveBootstrap, At
<1>30. ASSUME NEW p \in Procs, RemoveRuntimeStore(p)
      PROVE  MigrationAtStep'
  BY <1>30, LabelFacts, Moves
     DEF RemoveRuntimeStore, At
<1>31. ASSUME NEW p \in Procs, RemoveInstallerState(p)
      PROVE  MigrationAtStep'
  BY <1>31, LabelFacts, Moves
     DEF RemoveInstallerState, At
<1>32. ASSUME NEW p \in Procs, Kill(p)
      PROVE  MigrationAtStep'
  BY <1>32, LabelFacts, Moves
     DEF Kill, At
<1>33. CASE Publish \/ UserLogsIn
  BY <1>33
     DEF Publish, UserLogsIn, store, Pending, Validated
<1>34. CASE UNCHANGED installationVars
  BY <1>34 DEF installationVars, store, Pending, Validated
<1> QED
  BY <1>1, <1>2, <1>3, <1>4, <1>5, <1>6, <1>7, <1>8, <1>9, <1>10, <1>11, <1>12, <1>13, <1>14,
       <1>15, <1>16, <1>17, <1>18, <1>19, <1>20, <1>21, <1>22, <1>23, <1>24, <1>25, <1>26,
       <1>27, <1>28, <1>29, <1>30, <1>31, <1>32, <1>33, <1>34 DEF InstallationNext, Command, Step

\* A name that an installation or an update gives is not one of an earlier package.
LEMMA ReleaseNames ==
  ASSUME Typed, CommandAtStep, ReleaseAtStep, NEW p \in Procs
  PROVE  /\ proc[p].at \in AdoptSteps \cup {"copy", "expose"} =>
              /\ proc[p].id \in Ids \ LegacyIds /\ proc[p].id[4] = "whole"
              /\ <<proc[p].id[2], proc[p].id[3]>> \in log
         /\ LeftCopies(p) \cap LegacyIds = {}
<1>1. ASSUME proc[p].at \in AdoptSteps \cup {"copy", "expose"}
      PROVE  /\ proc[p].channel \in Channels /\ proc[p].release \in Releases /\ Source(p) \in log
             /\ \/ proc[p].id = <<"pruned", proc[p].channel, proc[p].release, "whole">>
                \/ proc[p].id = <<"full", proc[p].channel, proc[p].release, "whole">>
  BY <1>1 DEF CommandAtStep, ReleaseAtStep, SourceSteps, VerifiedSteps, LoggedSteps, AdoptSteps, UpdateSteps
<1>2. ASSUME proc[p].at \in AdoptSteps \cup {"copy", "expose"}
      PROVE  proc[p].id \in Ids \ LegacyIds /\ proc[p].id[4] = "whole"
             /\ <<proc[p].id[2], proc[p].id[3]>> \in log
  <2>1. /\ <<"pruned", proc[p].channel, proc[p].release, "whole">> \in Ids \ LegacyIds
        /\ <<"full", proc[p].channel, proc[p].release, "whole">> \in Ids \ LegacyIds
    BY <1>1, <1>2, IdFacts, PartFacts
  <2> QED
    BY <1>1, <1>2, <2>1 DEF Source
<1>3. ASSUME At(p, "adopt") \/ At(p, "copy"), NEW part \in Parts
      PROVE  [proc[p].id EXCEPT ![4] = part] \notin LegacyIds
  <2>1. proc[p].at \in AdoptSteps \cup {"copy", "expose"}
    BY <1>3 DEF At, AdoptSteps
  <2>2. \/ [proc[p].id EXCEPT ![4] = part] = <<"pruned", proc[p].channel, proc[p].release, part>>
        \/ [proc[p].id EXCEPT ![4] = part] = <<"full", proc[p].channel, proc[p].release, part>>
    BY <1>1, <2>1
  <2>3. /\ <<"pruned", proc[p].channel, proc[p].release, part>> \in Ids \ LegacyIds
        /\ <<"full", proc[p].channel, proc[p].release, part>> \in Ids \ LegacyIds
    BY <1>1, <2>1, IdFacts
  <2> QED
    BY <2>2, <2>3, Zenon
<1>4. LeftCopies(p) \cap LegacyIds = {}
  BY <1>3 DEF LeftCopies
<1> QED
  BY <1>2, <1>4

\* What is exposed is valid, and a valid reference resolves.
LEMMA ExposedIsValid ==
  ASSUME OnlyVerifiedIsExposed
  PROVE  (active = NoId \/ ActiveResolves) /\ (staged = NoId \/ Validated(staged))
<1>1. \A i \in {active, staged} \ {NoId} : Validated(i)
  BY PartFacts DEF OnlyVerifiedIsExposed, Validated
<1> QED
  BY <1>1 DEF ActiveResolves

\* A deployment that is valid stays so, unless the store is removed.
LEMMA ValidStays ==
  ASSUME Typed, [InstallationNext]_installationVars, NEW id \in Ids, Validated(id)
  PROVE  \/ deployed'[id].meta /\ deployed'[id].tree # None /\ deployed'[id].tree = deployed[id].tree
         \/ /\ active' = NoId /\ staged' = NoId /\ layout' = NewLayout
            /\ deployed' = [i \in Ids |-> NoDeployment] /\ aside' = {}
<1> DEFINE V == /\ id # NoId /\ deployed[id].meta /\ deployed[id].tree # None
           G == deployed'[id].meta /\ deployed'[id].tree # None /\ deployed'[id].tree = deployed[id].tree
<1>0. V /\ deployed \in [Ids -> [tree : Trees, meta : BOOLEAN]]
  BY DEF Validated, Typed, InstallationTypeOK
<1>1. CASE UNCHANGED store
  BY <1>0, <1>1 DEF store, Validated
<1>2. ASSUME NEW p \in Procs, MigrationWrite(p)
      PROVE  G
  <2>1. CASE RecordNewLayout \/ PlanMigration \/ EnsureActiveRef \/ EnsurePreviousRef
    BY <1>0, <2>1 DEF RecordNewLayout, PlanMigration, EnsureActiveRef, EnsurePreviousRef
  <2>2. CASE CommitMigration \/ RemoveLegacyLinks \/ CleanVersions
    BY <1>0, <2>2 DEF CommitMigration, RemoveLegacyLinks, CleanVersions
  <2>3. ASSUME NEW other \in Pending, MigrateEntry(other)
        PROVE  G
    BY <1>0, <2>3 DEF MigrateEntry
  <2> QED
    BY <1>2, <2>1, <2>2, <2>3 DEF MigrationWrite
<1>3. ASSUME NEW p \in Procs, AdoptDeployment(p) \/ BackfillMetadata(p)
      PROVE  G
  BY <1>0, <1>3 DEF AdoptDeployment, BackfillMetadata
<1>4. ASSUME NEW p \in Procs, SetActiveReference(p) \/ ExposeStaged(p) \/ Kill(p)
      PROVE  G
  BY <1>0, <1>4 DEF SetActiveReference, ExposeStaged, Kill
<1>5. ASSUME NEW p \in Procs, CopyCandidate(p)
      PROVE  G
  BY <1>0, <1>5 DEF CopyCandidate
<1>6. ASSUME NEW p \in Procs, RemoveRuntimeStore(p)
      PROVE  /\ active' = NoId /\ staged' = NoId /\ layout' = NewLayout
             /\ deployed' = [i \in Ids |-> NoDeployment] /\ aside' = {}
  BY <1>6 DEF RemoveRuntimeStore
<1> QED
  BY <1>0, <1>1, <1>2, <1>3, <1>4, <1>5, <1>6, StoreSteps DEF StoreWrite

\* What is logged stays so, unless nothing is exposed any more.
LEMMA LogStays ==
  ASSUME StoreRemoved, [InstallationNext]_installationVars
  PROVE  log \subseteq log' \/ (active' = NoId /\ staged' = NoId)
<1>1. ASSUME NEW p \in Procs, AcquireVerifiedCandidate(p) \/ Untar(p) \/ RecordObserved(p) \/ AppendAcquisition(p)
      PROVE  log \subseteq log'
  BY <1>1 DEF AcquireVerifiedCandidate, Untar, RecordObserved, AppendAcquisition
<1>2. ASSUME NEW p \in Procs, RemoveInstallerState(p)
      PROVE  active' = NoId /\ staged' = NoId
  BY <1>2 DEF RemoveInstallerState, At, StoreRemoved, store
<1> QED
  BY <1>1, <1>2, AcquisitionWrites

\* What is exposed is whole, under the name of what it holds, and logged.
LEMMA ExposedStep ==
  ASSUME Typed, CommandAtStep, TreesAreNamed, ReleaseAtStep, MigrationAtStep, StoreRemoved,
         OnlyVerifiedIsExposed, [InstallationNext]_installationVars
  PROVE  OnlyVerifiedIsExposed'
<1> DEFINE Safe(i) == /\ deployed[i].tree = "whole" /\ i[4] = "whole" /\ deployed[i].meta
                      /\ i \in LegacyIds \/ <<i[2], i[3]>> \in log
<1>1. \A i \in {active, staged} \ {NoId} : i \in Ids /\ Safe(i)
  BY DEF OnlyVerifiedIsExposed, Typed, InstallationTypeOK
\* A deployment that was safe is safe, unless nothing is exposed.
<1>2. ASSUME NEW i \in Ids, Safe(i)
      PROVE  Safe(i)' \/ (active' = NoId /\ staged' = NoId)
  <2>1. i # NoId /\ Validated(i)
    BY <1>2, IdFacts, PartFacts DEF Validated
  <2> QED
    BY <1>2, <2>1, ValidStays, LogStays
\* What becomes exposed.
<1>3. ASSUME NEW p \in Procs, StoreWrite(p)
      PROVE  \A i \in {active', staged'} \ {NoId, active, staged} : i \in Ids /\ Safe(i)
  <2>1. CASE MigrationWrite(p)
    <3>1. CASE At(p, "refs") /\ EnsureActiveRef
      <4>1. staged' = staged /\ active' \in {active, layout.current}
        BY <3>1 DEF EnsureActiveRef, Ensured
      <4>2. layout.current # NoId => layout.current \in layout.plan /\ Pending = {}
        BY <3>1 DEF At, MigrationAtStep, MigrateSteps
      <4>3. layout.current # NoId => layout.current \in LegacyIds /\ Validated(layout.current)
        BY <4>2 DEF Typed, LayoutType, Pending
      <4>4. layout.current # NoId => layout.current \in Ids /\ Safe(layout.current)
        BY <4>3, IdFacts DEF TreesAreNamed, Validated
      <4> QED
        BY <4>1, <4>4
    <3>2. CASE UNCHANGED <<active, staged>>
      BY <3>2
    <3> QED
      BY <2>1, <3>1, <3>2 DEF MigrationWrite, RecordNewLayout, PlanMigration, MigrateEntry,
         EnsurePreviousRef, CommitMigration, RemoveLegacyLinks, CleanVersions
  <2>2. CASE SetActiveReference(p) \/ ExposeStaged(p)
    <3>1. proc[p].at \in AdoptSteps \cup {"copy", "expose"}
      BY <2>2 DEF SetActiveReference, ExposeStaged, At, AdoptSteps
    <3>2. Validated(proc[p].id) => Safe(proc[p].id)
      BY <3>1, ReleaseNames DEF Validated, TreesAreNamed
    <3> QED
      BY <2>2, <3>1, <3>2, ReleaseNames DEF SetActiveReference, ExposeStaged
  <2>3. CASE RemoveRuntimeStore(p)
    BY <2>3 DEF RemoveRuntimeStore
  <2>4. CASE AdoptDeployment(p) \/ BackfillMetadata(p) \/ CopyCandidate(p) \/ Kill(p)
    BY <2>4 DEF AdoptDeployment, BackfillMetadata, CopyCandidate, Kill
  <2> QED
    BY <1>3, <2>1, <2>2, <2>3, <2>4 DEF StoreWrite
<1>4. \A i \in {active', staged'} \ {NoId} : i \in Ids /\ Safe(i)
  BY <1>1, <1>3, StoreSteps DEF store
<1>5. \A i \in {active', staged'} \ {NoId} : Safe(i)'
  BY <1>2, <1>4
<1> QED
  BY <1>5 DEF OnlyVerifiedIsExposed

\* A home of an earlier package.
LegacyHeld == \E i \in LegacyIds : i \in aside \/ deployed[i].tree # None

\* Nobody makes a runtime of an earlier package.
LEMMA LegacyStays ==
  ASSUME Typed, CommandAtStep, ReleaseAtStep, [InstallationNext]_installationVars, LegacyHeld'
  PROVE  LegacyHeld
<1>0. /\ deployed \in [Ids -> [tree : Trees, meta : BOOLEAN]]
      /\ LegacyIds \subseteq Ids
  BY IdFacts DEF Typed, InstallationTypeOK
<1>1. CASE UNCHANGED store
  BY <1>1 DEF store, LegacyHeld
<1>2. ASSUME NEW p \in Procs, MigrationWrite(p)
      PROVE  LegacyHeld
  <2>1. CASE RecordNewLayout \/ PlanMigration \/ EnsureActiveRef \/ EnsurePreviousRef
    BY <2>1 DEF RecordNewLayout, PlanMigration, EnsureActiveRef, EnsurePreviousRef, LegacyHeld
  <2>2. CASE CommitMigration \/ RemoveLegacyLinks \/ CleanVersions
    BY <2>2 DEF CommitMigration, RemoveLegacyLinks, CleanVersions, LegacyHeld
  <2>3. ASSUME NEW id \in Pending, Movable(id), MigrateEntry(id)
        PROVE  LegacyHeld
    BY <1>0, <2>3 DEF MigrateEntry, Movable, LegacyHeld
  <2> QED
    BY <1>2, <2>1, <2>2, <2>3 DEF MigrationWrite
<1>3. ASSUME NEW p \in Procs, AdoptDeployment(p) \/ BackfillMetadata(p) \/ CopyCandidate(p)
      PROVE  LegacyHeld
  <2>1. proc[p].id \in Ids \ LegacyIds
    BY <1>3, ReleaseNames DEF AdoptDeployment, BackfillMetadata, CopyCandidate, At, AdoptSteps
  <2>2. \A i \in LegacyIds : deployed'[i] = deployed[i]
    BY <1>0, <1>3, <2>1 DEF AdoptDeployment, BackfillMetadata, CopyCandidate
  <2>3. aside' = aside
    BY <1>3 DEF AdoptDeployment, BackfillMetadata, CopyCandidate
  <2> QED
    BY <2>2, <2>3 DEF LegacyHeld
<1>4. ASSUME NEW p \in Procs, SetActiveReference(p) \/ ExposeStaged(p)
      PROVE  LegacyHeld
  BY <1>4 DEF SetActiveReference, ExposeStaged, LegacyHeld
<1>5. ASSUME NEW p \in Procs, RemoveRuntimeStore(p)
      PROVE  LegacyHeld
  BY <1>0, <1>5 DEF RemoveRuntimeStore, NoDeployment, LegacyHeld
<1>6. ASSUME NEW p \in Procs, Kill(p)
      PROVE  LegacyHeld
  BY <1>6, ReleaseNames DEF Kill, LegacyHeld
<1> QED
  BY <1>1, <1>2, <1>3, <1>4, <1>5, <1>6, StoreSteps DEF StoreWrite

\* The old link leads to what it names, under either name.
LinkHeld ==
  layout.current # NoId /\ (layout.current \in aside \/ deployed[layout.current].tree # None)

\* A home of an earlier package keeps what serves.
LEMMA ServingStep ==
  ASSUME Typed, CommandAtStep, ReleaseAtStep, MigrationAtStep, CommittedServes, StoreServes,
         [InstallationNext]_installationVars
  PROVE  ServingKept'
<1> SUFFICES ASSUME LegacyHeld' PROVE ActiveResolves' \/ LinkHeld'
  BY DEF ServingKept, LegacyHeld, LinkHeld
<1>0. /\ LegacyHeld /\ (ActiveResolves \/ LinkHeld)
      /\ deployed \in [Ids -> [tree : Trees, meta : BOOLEAN]] /\ LegacyIds \subseteq Ids
      /\ layout \in LayoutType /\ active \in Ids \cup {NoId}
  BY LegacyStays, IdFacts DEF StoreServes, ServingKept, LegacyHeld, LinkHeld, Typed, InstallationTypeOK
<1>a. layout.current # NoId => layout.current \in LegacyIds
  BY <1>0 DEF LayoutType
<1>1. CASE UNCHANGED store
  BY <1>0, <1>1 DEF store, ActiveResolves, LinkHeld, Validated
<1>2. ASSUME NEW p \in Procs, MigrationWrite(p)
      PROVE  ActiveResolves' \/ LinkHeld'
  <2>1. CASE RecordNewLayout
    BY <1>0, <2>1 DEF RecordNewLayout, ActiveResolves, LinkHeld, Validated, LayoutType
  <2>8. CASE PlanMigration
    BY <1>0, <2>8 DEF PlanMigration, ActiveResolves, LinkHeld, Validated, LayoutType
  <2>2. CASE CommitMigration
    BY <1>0, <2>2 DEF CommitMigration, ActiveResolves, LinkHeld, Validated, LayoutType
  <2>3. ASSUME NEW id \in Pending, Movable(id), MigrateEntry(id)
        PROVE  ActiveResolves' \/ LinkHeld'
    <3>1. id \in Ids /\ id[4] # None
      BY <1>0, IdFacts, PartFacts DEF Pending, LayoutType
    <3>2. CASE ActiveResolves
      <4>1. deployed'[active].meta /\ deployed'[active].tree # None /\ active' = active
        BY <1>0, <2>3, <3>1, <3>2 DEF MigrateEntry, ActiveResolves, Validated
      <4> QED
        BY <3>2, <4>1 DEF ActiveResolves, Validated
    <3>3. CASE LinkHeld
      <4>1. layout' = layout
        BY <2>3 DEF MigrateEntry
      <4>2. layout.current \in aside' \/ deployed'[layout.current].tree # None
        BY <1>0, <1>a, <2>3, <3>1, <3>3 DEF MigrateEntry, LinkHeld
      <4> QED
        BY <3>3, <4>1, <4>2 DEF LinkHeld
    <3> QED
      BY <1>0, <3>2, <3>3
  <2>4. CASE EnsureActiveRef
    BY <1>0, <2>4 DEF EnsureActiveRef, Ensured, ActiveResolves, LinkHeld, Validated
  <2>5. CASE EnsurePreviousRef
    BY <1>0, <2>5 DEF EnsurePreviousRef, ActiveResolves, LinkHeld, Validated
  <2>6. CASE At(p, "links") /\ RemoveLegacyLinks
    <3>1. ActiveResolves
      BY <1>0, <2>6, ExposedIsValid DEF At, MigrationAtStep, CommittedServes, LegacyHeld, StoreServes
    <3> QED
      BY <2>6, <3>1 DEF RemoveLegacyLinks, ActiveResolves, Validated
  <2>7. CASE CleanVersions
    BY <1>0, <1>a, <2>7 DEF CleanVersions, ActiveResolves, LinkHeld, Validated
  <2> QED
    BY <1>2, <2>1, <2>2, <2>3, <2>4, <2>5, <2>6, <2>7, <2>8 DEF MigrationWrite
<1>3. ASSUME NEW p \in Procs, AdoptDeployment(p) \/ BackfillMetadata(p) \/ CopyCandidate(p)
      PROVE  ActiveResolves' \/ LinkHeld'
  <2>1. UNCHANGED <<aside, active, staged, layout>>
    BY <1>3 DEF AdoptDeployment, BackfillMetadata, CopyCandidate
  <2>2. proc[p].id \in Ids \ LegacyIds
    BY <1>3, ReleaseNames DEF AdoptDeployment, BackfillMetadata, CopyCandidate, At, AdoptSteps
  <2>3. \A i \in LegacyIds : deployed'[i] = deployed[i]
    BY <1>0, <1>3, <2>2 DEF AdoptDeployment, BackfillMetadata, CopyCandidate
  <2>4. CASE LinkHeld
    BY <1>a, <2>1, <2>3, <2>4 DEF LinkHeld
  <2>5. CASE ActiveResolves
    <3>1. active # NoId /\ active \in Ids /\ Validated(active)
      BY <1>0, <2>5 DEF ActiveResolves, Validated
    <3>2. deployed'[active].meta /\ deployed'[active].tree # None
      BY <2>1, <3>1, ValidStays
    <3> QED
      BY <2>1, <3>1, <3>2 DEF ActiveResolves, Validated
  <2> QED
    BY <1>0, <2>4, <2>5
<1>4. ASSUME NEW p \in Procs, SetActiveReference(p) \/ ExposeStaged(p)
      PROVE  ActiveResolves' \/ LinkHeld'
  BY <1>0, <1>4 DEF SetActiveReference, ExposeStaged, ActiveResolves, LinkHeld, Validated
<1>5. ASSUME NEW p \in Procs, RemoveRuntimeStore(p)
      PROVE  FALSE
  BY <1>0, <1>5 DEF RemoveRuntimeStore, NoDeployment, LegacyHeld
<1>6. ASSUME NEW p \in Procs, Kill(p)
      PROVE  ActiveResolves' \/ LinkHeld'
  BY <1>0, <1>6 DEF Kill, ActiveResolves, LinkHeld, Validated
<1> QED
  BY <1>1, <1>2, <1>3, <1>4, <1>5, <1>6, StoreSteps DEF StoreWrite

\* A migration is committed with what serves, and that is not taken away.
LEMMA CommittedStep ==
  ASSUME Typed, CommandAtStep, ReleaseAtStep, MigrationAtStep, CommittedServes, StoreServes,
         [InstallationNext]_installationVars
  PROVE  CommittedServes'
<1> SUFFICES ASSUME layout'.marker = "committed", LegacyHeld' PROVE active' # NoId
  BY DEF CommittedServes, LegacyHeld
<1>0. /\ LegacyHeld /\ (ActiveResolves \/ LinkHeld) /\ layout \in LayoutType
      /\ deployed \in [Ids -> [tree : Trees, meta : BOOLEAN]] /\ LegacyIds \subseteq Ids
  BY LegacyStays, IdFacts DEF StoreServes, ServingKept, LegacyHeld, LinkHeld, Typed, InstallationTypeOK
<1>a. layout.marker = "committed" => active # NoId
  BY <1>0 DEF CommittedServes, LegacyHeld
<1>1. CASE UNCHANGED store
  BY <1>1, <1>a DEF store
<1>2. ASSUME NEW p \in Procs, MigrationWrite(p)
      PROVE  active' # NoId
  <2>1. CASE RecordNewLayout
    BY <1>0, <2>1 DEF RecordNewLayout, NothingLegacy, LinkHeld, ActiveResolves, Validated
  <2>2. CASE PlanMigration
    BY <1>0, <2>2 DEF PlanMigration, LayoutType
  <2>3. CASE At(p, "commit") /\ CommitMigration
    BY <2>3 DEF At, MigrationAtStep, CommitMigration
  <2>4. CASE EnsureActiveRef
    BY <1>a, <2>4 DEF EnsureActiveRef, Ensured
  <2>5. CASE EnsurePreviousRef \/ CleanVersions \/ \E id \in Pending : MigrateEntry(id)
    BY <1>a, <2>5 DEF EnsurePreviousRef, CleanVersions, MigrateEntry
  <2>6. CASE RemoveLegacyLinks
    BY <1>0, <1>a, <2>6 DEF RemoveLegacyLinks, LayoutType
  <2> QED
    BY <1>2, <2>1, <2>2, <2>3, <2>4, <2>5, <2>6 DEF MigrationWrite
<1>3. ASSUME NEW p \in Procs, SetActiveReference(p)
      PROVE  active' # NoId
  BY <1>3, <1>a DEF SetActiveReference, Validated
<1>4. ASSUME NEW p \in Procs,
             AdoptDeployment(p) \/ BackfillMetadata(p) \/ CopyCandidate(p) \/ ExposeStaged(p) \/ Kill(p)
      PROVE  active' # NoId
  BY <1>4, <1>a DEF AdoptDeployment, BackfillMetadata, CopyCandidate, ExposeStaged, Kill
<1>5. ASSUME NEW p \in Procs, RemoveRuntimeStore(p)
      PROVE  FALSE
  BY <1>5 DEF RemoveRuntimeStore, NewLayout, None
<1> QED
  BY <1>1, <1>2, <1>3, <1>4, <1>5, StoreSteps DEF StoreWrite

-----------------------------------------------------------------------------
(* The store serves, and staging is safe.                                  *)

\* Everything that the store's safety rests on, holds at first.
LEMMA StoreInvInit == InstallationInit => StoreInv
<1> SUFFICES ASSUME InstallationInit PROVE StoreInv
  OBVIOUS
<1>1. /\ active = NoId /\ previous = NoId /\ staged = NoId /\ log = {}
      /\ deployed = [i \in Ids |-> NoDeployment] /\ proc = [p \in Procs |-> Idle]
  BY DEF InstallationInit, NoReferences
<1>2. aside \subseteq Ids /\ layout \in LayoutType /\ layout.marker # "committed"
  <2>1. CASE NoLegacyRuntime
    BY <2>1 DEF NoLegacyRuntime, NewLayout, LayoutType, None
  <2>2. CASE LegacyRuntime
    <3>1. Legacy("0.9.0") \in LegacyIds /\ Legacy("1.0.0") \in LegacyIds
      BY DEF LegacyIds
    <3>2. NewLayout = [marker |-> None, plan |-> {}, current |-> NoId, before |-> NoId]
      BY DEF NewLayout
    <3>3. aside \subseteq Ids
      BY <2>2, IdFacts DEF LegacyRuntime
    <3>4. \E b \in {NoId, Legacy("0.9.0")} : layout = [NewLayout EXCEPT !.current = Legacy("1.0.0"), !.before = b]
      BY <2>2 DEF LegacyRuntime
    <3>5. \E b \in {NoId, Legacy("0.9.0")} :
            layout = [marker |-> None, plan |-> {}, current |-> Legacy("1.0.0"), before |-> b]
      BY <3>2, <3>4
    <3> QED
      BY <3>1, <3>3, <3>5 DEF LayoutType, None
  <2> QED
    BY <2>1, <2>2 DEF InstallationInit
<1>3. svc \in Service
  <2>1. NoService \in Service
    BY DEF NoService, Service, Absent, Definitions
  <2>2. [file |-> "legacy", loaded |-> "legacy", running |-> "legacy", enabled |-> TRUE] \in Service
    BY DEF Service, Absent, Definitions
  <2> QED
    BY <2>1, <2>2 DEF InstallationInit
<1>4. Idle \in ProcessType /\ Idle.at = "idle" /\ Idle.id = NoId
  BY LabelFacts DEF Idle, ProcessType
<1>5. /\ published \in [Channels -> Releases] /\ observed \in [Channels -> 0..MaxRelease]
      /\ unpacked \in [Channels \X Releases -> Trees]
  BY RuntimeLayoutAssumption DEF InstallationInit, Releases, Trees
<1>6. deployed \in [Ids -> [tree : Trees, meta : BOOLEAN]]
  BY <1>1 DEF NoDeployment, Trees
<1>7. Typed
  BY <1>1, <1>2, <1>3, <1>4, <1>5, <1>6 DEF Typed, InstallationTypeOK
<1>8. CommandAtStep /\ ReleaseAtStep /\ NotOlder /\ NothingServed /\ MigrationAtStep /\ StoreRemoved
  BY <1>1, <1>4 DEF CommandAtStep, ReleaseAtStep, NotOlder, NothingServed, MigrationAtStep, StoreRemoved,
     LayoutSteps, MigrateSteps, InitSteps, AdoptSteps, UpdateSteps, LoggedSteps, VerifiedSteps, SourceSteps
<1>9. TreesAreNamed /\ CommittedServes
  BY <1>1, <1>2 DEF TreesAreNamed, CommittedServes, NoDeployment
<1>10. OnlyVerifiedIsExposed
  BY <1>1 DEF OnlyVerifiedIsExposed
<1>11. ServingKept
  <2>1. CASE NoLegacyRuntime
    BY <1>1, <2>1, IdFacts DEF NoLegacyRuntime, ServingKept, NoDeployment
  <2>2. CASE LegacyRuntime
    <3>1. layout.current = Legacy("1.0.0") /\ aside = LegacyIds
      BY <2>2 DEF LegacyRuntime, NewLayout
    <3>2. Legacy("1.0.0") \in LegacyIds
      BY DEF LegacyIds
    <3> QED
      BY <3>1, <3>2, IdFacts DEF ServingKept
  <2> QED
    BY <2>1, <2>2 DEF InstallationInit
<1> QED
  BY <1>7, <1>8, <1>9, <1>10, <1>11 DEF StoreInv, StoreServes

\* and every step of a command keeps it.
LEMMA StoreInvStep == Alone /\ StoreInv /\ [InstallationNext]_installationVars => StoreInv'
<1> SUFFICES ASSUME Alone, StoreInv, [InstallationNext]_installationVars PROVE StoreInv'
  OBVIOUS
<1> USE DEF StoreInv, StoreServes
<1>1. Typed' /\ CommandAtStep'
  BY TypedStep, CommandStep
<1>2. TreesAreNamed' /\ ReleaseAtStep'
  BY TreesNamedStep, ReleaseStep
<1>3. NotOlder' /\ NothingServed'
  BY NotOlderStep, NothingServedStep
<1>4. MigrationAtStep' /\ CommittedServes'
  BY MigrationStep, CommittedStep
<1>5. StoreRemoved' /\ OnlyVerifiedIsExposed' /\ ServingKept'
  BY StoreRemovedStep, ExposedStep, ServingStep
<1> QED
  BY <1>1, <1>2, <1>3, <1>4, <1>5

\* The inductive invariant of a home with one command at a time.
LEMMA StoreInvariant == Alone => (InstallationSpec => []StoreInv)
<1> SUFFICES ASSUME Alone PROVE InstallationSpec => []StoreInv
  OBVIOUS
<1>1. InstallationInit => StoreInv
  BY StoreInvInit
<1>2. StoreInv /\ [InstallationNext]_installationVars => StoreInv'
  BY StoreInvStep
<1> QED
  BY <1>1, <1>2, PTL DEF InstallationSpec

\* The service, the references, the deployments, the staging directory and the
\* counters have the types that the commands rely on.
THEOREM InstallationTypeCorrect == Alone => (InstallationSpec => []InstallationTypeOK)
<1> SUFFICES ASSUME Alone PROVE InstallationSpec => []InstallationTypeOK
  OBVIOUS
<1>1. StoreInv => InstallationTypeOK
  BY DEF StoreInv, Typed
<1> QED
  BY <1>1, StoreInvariant, PTL

\* Whatever commands run one after the other on a home, are killed, meet defects
\* or resume a migration: what it exposes is whole, verified and logged, and a
\* home of an earlier package always leads to a runtime that can serve.
THEOREM StoreIsSafe == Alone => (InstallationSpec => []StoreServes)
<1> SUFFICES ASSUME Alone PROVE InstallationSpec => []StoreServes
  OBVIOUS
<1>1. StoreInv => StoreServes
  BY DEF StoreInv
<1> QED
  BY <1>1, StoreInvariant, PTL

\* Commands never move what is being served, and stage nothing older than
\* what the home has seen of the channel.
THEOREM StagingSafe == Alone => (InstallationSpec => StagingIsSafe)
<1> SUFFICES ASSUME Alone PROVE InstallationSpec => StagingIsSafe
  OBVIOUS
<1>1. ASSUME StoreInv, [InstallationNext]_installationVars, active' # active
      PROVE  active \in LegacyIds \cup {NoId} \/ active' = NoId \/ ~ActiveResolves
  <2>1. PICK p \in Procs : StoreWrite(p)
    BY <1>1, StoreSteps DEF store
  <2>2. CASE MigrationWrite(p)
    BY <1>1, <2>2 DEF MigrationWrite, RecordNewLayout, PlanMigration, MigrateEntry, EnsureActiveRef, Ensured,
       EnsurePreviousRef, CommitMigration, RemoveLegacyLinks, CleanVersions, ActiveResolves
  <2>3. CASE SetActiveReference(p)
    BY <1>1, <2>3 DEF SetActiveReference, At, AdoptSteps, StoreInv, CommandAtStep, NothingServed
  <2>4. CASE RemoveRuntimeStore(p)
    BY <2>4 DEF RemoveRuntimeStore
  <2> QED
    BY <1>1, <2>1, <2>2, <2>3, <2>4 DEF StoreWrite, AdoptDeployment, BackfillMetadata, CopyCandidate, ExposeStaged, Kill
<1>2. ASSUME StoreInv, [InstallationNext]_installationVars, staged' # staged, staged' # NoId
      PROVE  staged'[3] >= observed[staged'[2]]
  <2>1. PICK p \in Procs : StoreWrite(p)
    BY <1>2, StoreSteps DEF store
  <2>2. CASE MigrationWrite(p)
    BY <1>2, <2>2 DEF MigrationWrite, RecordNewLayout, PlanMigration, MigrateEntry, EnsureActiveRef,
       EnsurePreviousRef, CommitMigration, RemoveLegacyLinks, CleanVersions
  <2>3. CASE ExposeStaged(p)
    <3>1. staged' = proc[p].id /\ proc[p].at = "expose"
      BY <1>2, <2>3 DEF ExposeStaged, At
    <3>2. /\ proc[p].cmd = "update" /\ proc[p].at \in SourceSteps
          /\ proc[p].id = <<"full", proc[p].channel, proc[p].release, "whole">>
      BY <1>2, <3>1 DEF StoreInv, CommandAtStep, ReleaseAtStep, UpdateSteps, SourceSteps, VerifiedSteps, LoggedSteps
    <3>3. /\ observed[proc[p].channel] <= proc[p].release
          /\ observed[proc[p].channel] \in Nat /\ proc[p].release \in Nat
      BY <1>2, <3>2, RuntimeLayoutAssumption DEF StoreInv, NotOlder, Typed, InstallationTypeOK, CommandAtStep, Releases
    <3> QED
      BY <3>1, <3>2, <3>3
  <2> QED
    BY <1>2, <2>1, <2>2, <2>3 DEF StoreWrite, AdoptDeployment, BackfillMetadata, CopyCandidate,
       SetActiveReference, RemoveRuntimeStore, Kill
<1>3. InstallationSpec => []StoreInv
  BY StoreInvariant
<1>4. StoreInv /\ [InstallationNext]_installationVars =>
        [active' # active => active \in (LegacyIds \cup {NoId}) \/ active' = NoId \/ ~ActiveResolves]_installationVars
  BY <1>1
<1>5. StoreInv /\ [InstallationNext]_installationVars =>
        [staged' # staged /\ staged' # NoId => staged'[3] >= observed[staged'[2]]]_installationVars
  BY <1>2
<1>6. InstallationSpec => InstallDoesNotActivate
  BY <1>3, <1>4, PTL DEF InstallationSpec, InstallDoesNotActivate
<1>7. InstallationSpec => NoOlderStaged
  BY <1>3, <1>5, PTL DEF InstallationSpec, NoOlderStaged
<1> QED
  BY <1>6, <1>7 DEF StagingIsSafe

-----------------------------------------------------------------------------
(* The definition that is loaded.                                          *)

\* A definition that is reconciled is the expected one; a unit that is started
\* is enabled and loaded as it is on disk, and so it is after a login.
LEMMA SystemdOutcomes ==
  ASSUME Platform = "linux", NEW s \in Service
  PROVE  /\ \A o \in ReconcileDefinition(s) : o.status # "failed" => o.svc.file = "expected"
         /\ s.file = "expected" => \A o \in Start(s) : o.ok =>
              o.svc.file = "expected" /\ o.svc.enabled /\ o.svc.loaded = "expected"
         /\ Login(s).file = s.file
         /\ s.file = "expected" /\ s.enabled =>
              Login(s).file = "expected" /\ Login(s).enabled /\ Login(s).loaded = "expected"
<1>1. \A o \in Register(s) : o.ok => o.svc.file = "expected"
  <2> DEFINE written == [s EXCEPT !.file = "expected"]
             loaded == [written EXCEPT !.loaded = "expected"]
  <2>2. written.file = "expected" /\ loaded.file = "expected"
    BY DEF Service
  <2>3. SystemdRegister(s) \subseteq {Failed(s), Failed(written)}
          \cup {IF s.file = "expected" THEN Done(s) ELSE Done(loaded)}
    BY DEF SystemdRegister
  <2>1. \A o \in SystemdRegister(s) : o.ok => o.svc.file = "expected"
    <3> HIDE DEF written, loaded
    <3>1. CASE s.file = "expected"
      BY <2>2, <2>3, <3>1 DEF Done, Failed
    <3>2. CASE s.file # "expected"
      BY <2>2, <2>3, <3>2 DEF Done, Failed
    <3> QED
      BY <3>1, <3>2
  <2> QED
    BY <2>1 DEF Register
<1>2. \A o \in ReconcileDefinition(s) : o.status # "failed" => o.svc.file = "expected"
  <2>1. CASE DetectDefinition(s) \in {"ok", "unsupported"}
    BY <2>1 DEF ReconcileDefinition, DetectDefinition, IsSupported
  <2>2. CASE DetectDefinition(s) \notin {"ok", "unsupported"}
    BY <1>1, <2>2 DEF ReconcileDefinition
  <2> QED
    BY <2>1, <2>2
<1>3. ASSUME s.file = "expected"
      PROVE  \A o \in Start(s) : o.ok => o.svc.file = "expected" /\ o.svc.enabled /\ o.svc.loaded = "expected"
  <2> DEFINE enabled == [s EXCEPT !.enabled = TRUE, !.loaded = s.file]
             started == [enabled EXCEPT !.running = IF s.running = Absent THEN s.file ELSE s.running]
  <2>1. started.file = "expected" /\ started.enabled /\ started.loaded = "expected"
    BY <1>3 DEF Service
  <2>2. Start(s) \subseteq {Failed(s), Failed(enabled), Done(started)}
    BY DEF Start, SystemdStart
  <2> HIDE DEF enabled, started
  <2> QED
    BY <2>1, <2>2 DEF Failed, Done
<1>4. /\ Login(s).file = s.file
      /\ s.file = "expected" /\ s.enabled =>
           Login(s).file = "expected" /\ Login(s).enabled /\ Login(s).loaded = "expected"
  BY DEF Login, Service, Absent
<1> QED
  BY <1>2, <1>3, <1>4

\* A unit that has been reconciled and started stays loaded.
LEMMA ServiceStep ==
  ASSUME Alone, Platform # "darwin", Typed, CommandAtStep, ServiceAtStep, [InstallationNext]_installationVars
  PROVE  ServiceAtStep'
<1> USE DEF Alone, Typed, InstallationTypeOK, ServiceAtStep, LayoutSteps, MigrateSteps,
     InitSteps, AdoptSteps, UpdateSteps, ServiceSteps, RemovalSteps, LoggedSteps, VerifiedSteps,
     SourceSteps, None
<1>1. ASSUME NEW p \in Procs, RunInstall(p)
      PROVE  ServiceAtStep'
  BY <1>1, LabelFacts, Moves
     DEF RunInstall, At, Idle, AcquireForInstall, InstallOptions, ProcessType, install
<1>2. ASSUME NEW p \in Procs, RunInitAgain(p)
      PROVE  ServiceAtStep'
  BY <1>2, LabelFacts, Moves
     DEF RunInitAgain, At, Idle, ProcessType, install
<1>3. ASSUME NEW p \in Procs, RunUpdateCommand(p)
      PROVE  ServiceAtStep'
  BY <1>3, LabelFacts, Moves
     DEF RunUpdateCommand, At, Idle, ProcessType, install
<1>4. ASSUME NEW p \in Procs, RunUninstallCommand(p)
      PROVE  ServiceAtStep'
  BY <1>4, LabelFacts, Moves
     DEF RunUninstallCommand, At, Idle, ProcessType
<1>5. ASSUME NEW p \in Procs, AcquireVerifiedCandidate(p)
      PROVE  ServiceAtStep'
  BY <1>5, LabelFacts, Moves
     DEF AcquireVerifiedCandidate, At, ProcessType, install
<1>6. ASSUME NEW p \in Procs, VerifyLocalAcquisition(p)
      PROVE  ServiceAtStep'
  BY <1>6, LabelFacts, Moves
     DEF VerifyLocalAcquisition, At, ProcessType, install
<1>7. ASSUME NEW p \in Procs, Untar(p)
      PROVE  ServiceAtStep'
  BY <1>7, LabelFacts, Moves
     DEF Untar, At, install
<1>8. ASSUME NEW p \in Procs, VerifyUnpackedArtifact(p)
      PROVE  ServiceAtStep'
  BY <1>8, LabelFacts, Moves
     DEF VerifyUnpackedArtifact, At, install
<1>9. ASSUME NEW p \in Procs, RecordObserved(p)
      PROVE  ServiceAtStep'
  BY <1>9, LabelFacts, Moves
     DEF RecordObserved, At, install
<1>10. ASSUME NEW p \in Procs, AppendAcquisition(p)
      PROVE  ServiceAtStep'
  BY <1>10, LabelFacts, Moves
     DEF AppendAcquisition, At, install
<1>11. ASSUME NEW p \in Procs, FirstInstall(p)
      PROVE  ServiceAtStep'
  BY <1>11, LabelFacts, Moves
     DEF FirstInstall, At, ProcessType, install
<1>12. ASSUME NEW p \in Procs, RepairInstall(p)
      PROVE  ServiceAtStep'
  BY <1>12, LabelFacts, Moves
     DEF RepairInstall, At, install
<1>13. ASSUME NEW p \in Procs, PrepareHome(p)
      PROVE  ServiceAtStep'
  BY <1>13, LabelFacts, Moves
     DEF PrepareHome, At, install
<1>14. ASSUME NEW p \in Procs, MaterializeRuntimeTree(p)
      PROVE  ServiceAtStep'
  BY <1>14, LabelFacts, Moves
     DEF MaterializeRuntimeTree, At, ProcessType, install
<1>15. ASSUME NEW p \in Procs, AdoptDeployment(p)
      PROVE  ServiceAtStep'
  BY <1>15, LabelFacts, Moves
     DEF AdoptDeployment, At, install
<1>16. ASSUME NEW p \in Procs, BackfillMetadata(p)
      PROVE  ServiceAtStep'
  BY <1>16, LabelFacts, Moves
     DEF BackfillMetadata, At, install
<1>17. ASSUME NEW p \in Procs, EnsureRuntimeLayout(p)
      PROVE  ServiceAtStep'
  BY <1>17, LabelFacts, Moves
     DEF EnsureRuntimeLayout, At, AfterLayout, Refuse, install
<1>18. ASSUME NEW p \in Procs, MigrateLegacyLayout(p)
      PROVE  ServiceAtStep'
  BY <1>18, LabelFacts, Moves
     DEF MigrateLegacyLayout, At, AfterLayout, Refuse, install
<1>19. ASSUME NEW p \in Procs, SetActiveReference(p)
      PROVE  ServiceAtStep'
  BY <1>19, LabelFacts, Moves
     DEF SetActiveReference, At, install
<1>20. ASSUME NEW p \in Procs, ReconcileService(p)
      PROVE  ServiceAtStep'
  <2>1. PICK o \in ReconcileDefinition(svc) :
          svc' = o.svc /\ IF o.status = "failed" THEN End(p, "failed") ELSE Go(p, "start")
    BY <1>20 DEF ReconcileService
  <2>2. CASE o.status = "failed"
    BY <2>1, <2>2, Moves
  <2>3. CASE o.status # "failed"
    BY <2>1, <2>3, SystemdOutcomes, LabelFacts, Moves
  <2> QED
    BY <2>2, <2>3
<1>21. ASSUME NEW p \in Procs, StartService(p)
      PROVE  ServiceAtStep'
  <2>1. PICK o \in Start(svc) : svc' = o.svc /\ IF o.ok THEN Go(p, "record") ELSE End(p, "failed")
    BY <1>21 DEF StartService
  <2>2. CASE o.ok
    <3>1. Platform = "linux"
      BY <2>2 DEF Start, Failed, PlatformAssumption
    <3> QED
      BY <1>21, <2>1, <2>2, <3>1, SystemdOutcomes, LabelFacts, Moves DEF StartService, At
  <2>3. CASE ~o.ok
    BY <2>1, <2>3, Moves
  <2> QED
    BY <2>2, <2>3
<1>22. ASSUME NEW p \in Procs, WriteInstallation(p)
      PROVE  ServiceAtStep'
  BY <1>22, LabelFacts, Moves
     DEF WriteInstallation, At
<1>23. ASSUME NEW p \in Procs, WaitForReadiness(p)
      PROVE  ServiceAtStep'
  BY <1>23, LabelFacts, Moves
     DEF WaitForReadiness, At, install
<1>24. ASSUME NEW p \in Procs, InstallUserLauncherSymlink(p)
      PROVE  ServiceAtStep'
  BY <1>24, LabelFacts, Moves
     DEF InstallUserLauncherSymlink, At, install
<1>25. ASSUME NEW p \in Procs, ComputeArtifactId(p)
      PROVE  ServiceAtStep'
  BY <1>25, LabelFacts, Moves
     DEF ComputeArtifactId, At, ProcessType, install
<1>26. ASSUME NEW p \in Procs, CopyCandidate(p)
      PROVE  ServiceAtStep'
  BY <1>26, LabelFacts, Moves
     DEF CopyCandidate, At, install
<1>27. ASSUME NEW p \in Procs, ExposeStaged(p)
      PROVE  ServiceAtStep'
  BY <1>27, LabelFacts, Moves
     DEF ExposeStaged, At, install
<1>28. ASSUME NEW p \in Procs, RemoveUserLauncherSymlink(p)
      PROVE  ServiceAtStep'
  BY <1>28, LabelFacts, Moves
     DEF RemoveUserLauncherSymlink, At, install
<1>29. ASSUME NEW p \in Procs, RemoveBootstrap(p)
      PROVE  ServiceAtStep'
  BY <1>29, LabelFacts, Moves
     DEF RemoveBootstrap, At, install
<1>30. ASSUME NEW p \in Procs, RemoveRuntimeStore(p)
      PROVE  ServiceAtStep'
  BY <1>30, LabelFacts, Moves
     DEF RemoveRuntimeStore, At, install
<1>31. ASSUME NEW p \in Procs, RemoveInstallerState(p)
      PROVE  ServiceAtStep'
  BY <1>31, LabelFacts, Moves
     DEF RemoveInstallerState, At, install
<1>32. ASSUME NEW p \in Procs, Kill(p)
      PROVE  ServiceAtStep'
  BY <1>32, LabelFacts, Moves
     DEF Kill, At
<1>33. CASE Publish \/ UserLogsIn
  <2>1. CASE Publish
    BY <2>1 DEF Publish, install
  <2>2. CASE UserLogsIn
    BY <2>2, SystemdOutcomes DEF UserLogsIn
  <2> QED
    BY <1>33, <2>1, <2>2
<1>34. CASE UNCHANGED installationVars
  BY <1>34
     DEF installationVars, store, install, origin
<1> QED
  BY <1>1, <1>2, <1>3, <1>4, <1>5, <1>6, <1>7, <1>8, <1>9, <1>10, <1>11, <1>12, <1>13, <1>14,
       <1>15, <1>16, <1>17, <1>18, <1>19, <1>20, <1>21, <1>22, <1>23, <1>24, <1>25, <1>26,
       <1>27, <1>28, <1>29, <1>30, <1>31, <1>32, <1>33, <1>34 DEF InstallationNext, Command, Step

\* Off launchd, an init that reports success leaves the manager with the
\* definition of the stable bootstrap loaded; on launchd a definition that was
\* written and could not be loaded counts as reconciled the next time.
THEOREM InitLoads == Alone /\ Platform # "darwin" => (InstallationSpec => InitLoadsDefinition)
<1> SUFFICES ASSUME Alone, Platform # "darwin" PROVE InstallationSpec => InitLoadsDefinition
  OBVIOUS
<1>1. InstallationInit => ServiceAtStep
  BY DEF InstallationInit, Idle, ServiceAtStep
<1>2. StoreInv /\ ServiceAtStep /\ [InstallationNext]_installationVars => ServiceAtStep'
  BY ServiceStep DEF StoreInv
<1>3. ASSUME ServiceAtStep, NEW p \in Procs, At(p, "ready")
      PROVE  svc.loaded = "expected"
  BY <1>3 DEF ServiceAtStep, At
<1>4. ServiceAtStep /\ [InstallationNext]_installationVars =>
        [\A p \in Procs : At(p, "ready") /\ proc'[p].result = "ok" => svc.loaded = "expected"]_installationVars
  BY <1>3
<1> QED
  BY <1>1, <1>2, <1>4, StoreInvariant, PTL DEF InstallationSpec, InitLoadsDefinition
=============================================================================
