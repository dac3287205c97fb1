----------------------- MODULE CredentialRefresh_proofs -----------------------
(***************************************************************************)
(* Theorems about the refresh, purge and recovery of one stored            *)
(* credential, for any number of gateway processes, tokens and crashes,    *)
(* and about the logins and imports of one gateway, for any number of      *)
(* attempts, providers and names.                                          *)
(***************************************************************************)
EXTENDS CredentialRefresh, CredentialLogin, TLAPS

\* Past the generation check and before the record is in place.
Replacing == {"backup", "backup-rename", "active", "active-rename"}
Committing == Replacing \cup {"check", "verify", "release", "release-stale", "release-failed"}
Purging == {"remove-active", "remove-backup", "remove-tmp"}
HoldingSteps == Committing \cup Purging \cup {"write-lock"}

\* Which steps are whose, and that the tasks of a process die together.
KindAtStep ==
  \A t \in Task :
    /\ pc[t] \in {"down", "tmp", "read-active", "read-backup", "restore", "drop-backup",
                  "quarantine", "up"} => t[2] = "open"
    /\ pc[t] \in Committing => t[2] = "refresh"
    /\ pc[t] \in Purging => t[2] = "revoke"
    /\ pc[t] = "write-lock" => t[2] # "open"
    /\ Dead(t[1]) => pc[t] = "dead"

\* A record is written with a token the provider issued, and each refresh
\* consumes one: the generation never overtakes the token.
Sound(r) == r = NoRecord \/ (1 <= r.gen /\ r.gen <= r.token /\ r.token <= issued)

RecordsSound ==
  /\ Sound(active) /\ Sound(backup)
  /\ \A t \in Task : Sound(tmp[t]) /\ Sound(mine[t])

\* What a refresh wants to commit is the successor of a record it read.
MineAtStep ==
  \A t \in Task : t[2] = "refresh" =>
    /\ pc[t] = "provider" => mine[t].gen >= 1
    /\ pc[t] \in {"acquire", "reread", "unlock-stale", "write-lock"} \cup Committing
         => mine[t].gen >= 2

\* The lock file is that of the task that works under it.
HolderNamed ==
  ~stolen => \A t \in Task : pc[t] \in HoldingSteps =>
    lock = IF pc[t] = "write-lock" THEN Created(t) ELSE Written(t)

\* Until a purge begins there is an active record, so no recovery falls back to
\* the backup.
ActivePresent ==
  purge = "none" =>
    /\ active # NoRecord
    /\ \A t \in Task : pc[t] \notin {"read-backup", "restore", "quarantine"}

\* Until a purge begins the active record is the last of the commits, and the
\* one that is being made is its successor.
LastCommit ==
  ~stolen /\ purge = "none" =>
    /\ \A r \in written : r.gen <= active.gen
    /\ \A r, s \in written : r.gen = s.gen => r = s
    /\ account.gen <= active.gen
    /\ \A p \in Procs : manual[p].gen <= active.gen
    /\ \A t \in Task :
         /\ pc[t] \in Replacing => mine[t].gen = active.gen + 1
         /\ pc[t] = "active-rename" => tmp[t] \in {NoRecord, mine[t]}
         /\ pc[t] = "release" => mine[t].gen <= active.gen

\* While a purge removes the backup, and once it has.
ErasedStays ==
  /\ ~stolen /\ purge # "restored" =>
       \A t \in Task : pc[t] = "remove-backup" => active = NoRecord
  /\ ~stolen /\ purge = "erased" =>
       Readable = NoRecord /\ \A t \in Task : pc[t] \notin Replacing

\* The inductive invariant.
IInv == /\ TypeOK
        /\ KindAtStep /\ RecordsSound /\ MineAtStep
        /\ HolderNamed /\ ActivePresent
        /\ LastCommit /\ ErasedStays
-----------------------------------------------------------------------------
(* Types.                                                                  *)

\* A task is a process and a kind of work.
LEMMA TaskValues ==
  /\ \A p \in Procs :
       /\ Opening(p) \in Task /\ Opening(p)[1] = p /\ Opening(p)[2] = "open"
       /\ Flight(p) \in Task /\ Flight(p)[1] = p /\ Flight(p)[2] = "refresh"
       /\ Revocation(p) \in Task /\ Revocation(p)[1] = p /\ Revocation(p)[2] = "revoke"
  /\ \A t \in Task : t[1] \in Procs /\ t[2] \in {"open", "refresh", "revoke"}
  /\ NoTask \notin Task
BY CredentialAssumption DEF Task, Opening, Flight, Revocation

LEMMA LockValues ==
  /\ NoLock \in Lock /\ NoLock.owner = NoTask
  /\ \A t \in Task :
       /\ Created(t) \in Lock /\ Created(t).owner = t /\ ~Created(t).full
       /\ Written(t) \in Lock /\ Written(t).owner = t /\ Written(t).full
  /\ \A l \in Lock : l.owner \in Task \cup {NoTask}
BY DEF Lock, NoLock, Created, Written

\* Generations and tokens are numbers within their bound.
LEMMA RecordValues ==
  /\ NoRecord \in Record /\ NoRecord.gen = 0
  /\ FirstRecord \in Record /\ FirstRecord.gen = 1 /\ FirstRecord.token = 1
  /\ \A r \in Record : /\ r.gen \in Nat /\ r.gen <= MaxTokens
                       /\ r.token \in Nat /\ r.token <= MaxTokens
BY CredentialAssumption DEF Record, NoRecord, FirstRecord

\* A refresh yields a record within the bounds.
LEMMA RefreshedValues ==
  ASSUME NEW r \in Record, Sound(r), r.gen >= 1, issued \in 1..MaxTokens, issued < MaxTokens
  PROVE  /\ Refreshed(r) \in Record
         /\ Refreshed(r).gen = r.gen + 1 /\ Refreshed(r).token = issued + 1
         /\ Refreshed(r).gen <= issued + 1
BY CredentialAssumption, RecordValues DEF Record, Refreshed, Sound

\* The parts of TypeOK.
FilesTyped ==
  /\ active \in Record /\ backup \in Record /\ tmp \in [Task -> Record]
  /\ written \subseteq Record

StepsTyped == pc \in [Task -> Steps]

SeenTyped == lock \in Lock /\ seen \in [Task -> Task \cup {NoTask}]

MineTyped == mine \in [Task -> Record]

AccountTyped == account \in Account /\ manual \in [Procs -> Request]

CountsTyped ==
  /\ grant \in BOOLEAN /\ issued \in 1..MaxTokens /\ crashes \in 0..MaxCrashes
  /\ purge \in {"none", "begun", "erased", "restored"} /\ stolen \in BOOLEAN

LEMMA TypeParts ==
  TypeOK <=> FilesTyped /\ StepsTyped /\ SeenTyped /\ MineTyped /\ AccountTyped /\ CountsTyped
BY DEF TypeOK, FilesTyped, StepsTyped, SeenTyped, MineTyped, AccountTyped, CountsTyped

\* bindCredential writes the generation it is given, or nothing.
LEMMA BindValues ==
  ASSUME account \in Account, NEW state \in {"ready", "unready", "revoked"},
         NEW gen \in 0..MaxTokens, NEW ver, Bind(state, gen, ver)
  PROVE  account' \in Account /\ account'.gen \in {account.gen, gen}
<1>1. CASE account' = account
  BY <1>1
<1>2. CASE account' = [state |-> state, gen |-> gen, ver |-> ver + 1] /\ account.ver = ver
           /\ ver < MaxVersion
  BY <1>2, CredentialAssumption DEF Account
<1> QED
  BY <1>1, <1>2 DEF Bind

\* What a request reads of the account.
LEMMA RequestValues ==
  /\ NoRequest \in Request /\ NoRequest.gen = 0 /\ NoRequest.stage = "none"
  /\ \A stage \in {"flight", "rejected"}, a \in Account :
       LET q == [stage |-> stage, ver |-> a.ver, gen |-> a.gen]
       IN  q \in Request /\ q.gen = a.gen
  /\ \A q \in Request : q.gen \in 0..MaxTokens
  /\ \A a \in Account : a.gen \in 0..MaxTokens
BY CredentialAssumption DEF Request, NoRequest, Account

LEMMA FilesStep == IInv /\ [Next]_vars => FilesTyped'
<1> SUFFICES ASSUME IInv, [Next]_vars PROVE FilesTyped'
  OBVIOUS
<1> USE RecordValues DEF FilesTyped, files, provider, observed, Goto
<1>t. FilesTyped /\ StepsTyped /\ SeenTyped /\ MineTyped /\ AccountTyped /\ CountsTyped
  BY TypeParts DEF IInv
<1>1. ASSUME NEW t \in Task, CreateLock(t) \/ WriteLock(t) \/ Locked(t) \/ SeeStaleLock(t)
                             \/ RereadLock(t) \/ RemoveStaleLock(t)
      PROVE  FilesTyped'
  BY <1>1, <1>t DEF CreateLock, WriteLock, Locked, SeeStaleLock, RereadLock, RemoveStaleLock,
     Fail, Holding, AfterLock
<1>2. ASSUME NEW t \in Task, CheckGeneration(t) \/ WriteTemporary(t) \/ RenameBackup(t)
                             \/ RenameActive(t) \/ Verify(t) \/ ReleaseCommit(t)
      PROVE  FilesTyped'
  BY <1>2, <1>t DEF CheckGeneration, WriteTemporary, RenameBackup, RenameActive, Verify,
     ReleaseCommit, MineTyped, Released
<1>3. ASSUME NEW t \in Task, RemoveActive(t) \/ RemoveBackup(t) \/ RemoveTemporary(t)
      PROVE  FilesTyped'
  BY <1>3, <1>t DEF RemoveActive, RemoveBackup, RemoveTemporary, Released
<1>4. ASSUME NEW t \in Task, RecoverReads(t) \/ RecoverRestores(t) \/ RecoverDropsBackup(t)
                             \/ Quarantine(t) \/ Opened(t)
      PROVE  FilesTyped'
  BY <1>4, <1>t DEF RecoverReads, RecoverRestores, RecoverDropsBackup, Quarantine, Opened,
     MineTyped
<1>5. ASSUME NEW p \in Procs, Prepare(p) \/ RequestRefresh(p) \/ ProviderGrants(p)
                              \/ ProviderRejects(p) \/ ProviderFails(p) \/ RequestRejected(p)
      PROVE  FilesTyped'
  BY <1>5, <1>t DEF Prepare, RequestRefresh, ProviderGrants, ProviderRejects, ProviderFails,
     RequestRejected, StartFlight, Fail
<1>6. ASSUME NEW p \in Procs, StartRevoke(p) \/ ProviderRevokes(p) \/ OpenStore(p) \/ Crash(p)
      PROVE  FilesTyped'
  BY <1>6, <1>t DEF StartRevoke, ProviderRevokes, OpenStore, Crash
<1>7. CASE UNCHANGED vars
  BY <1>7, <1>t DEF vars
<1> QED
  BY <1>1, <1>2, <1>3, <1>4, <1>5, <1>6, <1>7 DEF Next

LEMMA StepsStep == IInv /\ [Next]_vars => StepsTyped'
<1> SUFFICES ASSUME IInv, [Next]_vars PROVE StepsTyped'
  OBVIOUS
<1> USE TaskValues DEF StepsTyped, Steps, files, provider, observed, Goto
<1>t. FilesTyped /\ StepsTyped /\ SeenTyped /\ MineTyped /\ AccountTyped /\ CountsTyped
  BY TypeParts DEF IInv
<1>1. ASSUME NEW t \in Task, CreateLock(t) \/ WriteLock(t) \/ Locked(t) \/ SeeStaleLock(t)
                             \/ RereadLock(t) \/ RemoveStaleLock(t)
      PROVE  StepsTyped'
  BY <1>1, <1>t DEF CreateLock, WriteLock, Locked, SeeStaleLock, RereadLock, RemoveStaleLock,
     Fail, Holding, AfterLock
<1>2. ASSUME NEW t \in Task, CheckGeneration(t) \/ WriteTemporary(t) \/ RenameBackup(t)
                             \/ RenameActive(t) \/ Verify(t) \/ ReleaseCommit(t)
      PROVE  StepsTyped'
  BY <1>2, <1>t DEF CheckGeneration, WriteTemporary, RenameBackup, RenameActive, Verify,
     ReleaseCommit, Released
<1>3. ASSUME NEW t \in Task, RemoveActive(t) \/ RemoveBackup(t) \/ RemoveTemporary(t)
      PROVE  StepsTyped'
  BY <1>3, <1>t DEF RemoveActive, RemoveBackup, RemoveTemporary, Released
<1>4. ASSUME NEW t \in Task, RecoverReads(t) \/ RecoverRestores(t) \/ RecoverDropsBackup(t)
                             \/ Quarantine(t) \/ Opened(t)
      PROVE  StepsTyped'
  BY <1>4, <1>t DEF RecoverReads, RecoverRestores, RecoverDropsBackup, Quarantine, Opened
<1>5. ASSUME NEW p \in Procs, Prepare(p) \/ RequestRefresh(p) \/ ProviderGrants(p)
                              \/ ProviderRejects(p) \/ ProviderFails(p) \/ RequestRejected(p)
      PROVE  StepsTyped'
  BY <1>5, <1>t DEF Prepare, RequestRefresh, ProviderGrants, ProviderRejects, ProviderFails,
     RequestRejected, StartFlight, Fail
<1>6. ASSUME NEW p \in Procs, StartRevoke(p) \/ ProviderRevokes(p) \/ OpenStore(p) \/ Crash(p)
      PROVE  StepsTyped'
  BY <1>6, <1>t DEF StartRevoke, ProviderRevokes, OpenStore, Crash
<1>7. CASE UNCHANGED vars
  BY <1>7, <1>t DEF vars
<1> QED
  BY <1>1, <1>2, <1>3, <1>4, <1>5, <1>6, <1>7 DEF Next

LEMMA SeenStep == IInv /\ [Next]_vars => SeenTyped'
<1> SUFFICES ASSUME IInv, [Next]_vars PROVE SeenTyped'
  OBVIOUS
<1> USE TaskValues, LockValues DEF SeenTyped, files, provider, observed, Goto
<1>t. FilesTyped /\ StepsTyped /\ SeenTyped /\ MineTyped /\ AccountTyped /\ CountsTyped
  BY TypeParts DEF IInv
<1>1. ASSUME NEW t \in Task, CreateLock(t) \/ WriteLock(t) \/ Locked(t) \/ SeeStaleLock(t)
                             \/ RereadLock(t) \/ RemoveStaleLock(t)
      PROVE  SeenTyped'
  BY <1>1, <1>t DEF CreateLock, WriteLock, Locked, SeeStaleLock, RereadLock, RemoveStaleLock,
     Fail, Holding, Contents, AfterLock
<1>2. ASSUME NEW t \in Task, CheckGeneration(t) \/ WriteTemporary(t) \/ RenameBackup(t)
                             \/ RenameActive(t) \/ Verify(t) \/ ReleaseCommit(t)
      PROVE  SeenTyped'
  BY <1>2, <1>t DEF CheckGeneration, WriteTemporary, RenameBackup, RenameActive, Verify,
     ReleaseCommit, Released
<1>3. ASSUME NEW t \in Task, RemoveActive(t) \/ RemoveBackup(t) \/ RemoveTemporary(t)
      PROVE  SeenTyped'
  BY <1>3, <1>t DEF RemoveActive, RemoveBackup, RemoveTemporary, Released
<1>4. ASSUME NEW t \in Task, RecoverReads(t) \/ RecoverRestores(t) \/ RecoverDropsBackup(t)
                             \/ Quarantine(t) \/ Opened(t)
      PROVE  SeenTyped'
  BY <1>4, <1>t DEF RecoverReads, RecoverRestores, RecoverDropsBackup, Quarantine, Opened
<1>5. ASSUME NEW p \in Procs, Prepare(p) \/ RequestRefresh(p) \/ ProviderGrants(p)
                              \/ ProviderRejects(p) \/ ProviderFails(p) \/ RequestRejected(p)
      PROVE  SeenTyped'
  BY <1>5, <1>t DEF Prepare, RequestRefresh, ProviderGrants, ProviderRejects, ProviderFails,
     RequestRejected, StartFlight, Fail
<1>6. ASSUME NEW p \in Procs, StartRevoke(p) \/ ProviderRevokes(p) \/ OpenStore(p) \/ Crash(p)
      PROVE  SeenTyped'
  BY <1>6, <1>t DEF StartRevoke, ProviderRevokes, OpenStore, Crash
<1>7. CASE UNCHANGED vars
  BY <1>7, <1>t DEF vars
<1> QED
  BY <1>1, <1>2, <1>3, <1>4, <1>5, <1>6, <1>7 DEF Next

LEMMA MineStep == IInv /\ [Next]_vars => MineTyped'
<1> SUFFICES ASSUME IInv, [Next]_vars PROVE MineTyped'
  OBVIOUS
<1> USE RecordValues DEF MineTyped, files, provider, observed, Goto
<1>t. FilesTyped /\ StepsTyped /\ SeenTyped /\ MineTyped /\ AccountTyped /\ CountsTyped
  BY TypeParts DEF IInv
<1>1. ASSUME NEW t \in Task, CreateLock(t) \/ WriteLock(t) \/ Locked(t) \/ SeeStaleLock(t)
                             \/ RereadLock(t) \/ RemoveStaleLock(t)
      PROVE  MineTyped'
  BY <1>1, <1>t DEF CreateLock, WriteLock, Locked, SeeStaleLock, RereadLock, RemoveStaleLock,
     Fail, Holding, AfterLock
<1>2. ASSUME NEW t \in Task, CheckGeneration(t) \/ WriteTemporary(t) \/ RenameBackup(t)
                             \/ RenameActive(t) \/ Verify(t) \/ ReleaseCommit(t)
      PROVE  MineTyped'
  BY <1>2, <1>t DEF CheckGeneration, WriteTemporary, RenameBackup, RenameActive, Verify,
     ReleaseCommit, Released
<1>3. ASSUME NEW t \in Task, RemoveActive(t) \/ RemoveBackup(t) \/ RemoveTemporary(t)
      PROVE  MineTyped'
  BY <1>3, <1>t DEF RemoveActive, RemoveBackup, RemoveTemporary, Released
<1>4. ASSUME NEW t \in Task, RecoverReads(t) \/ RecoverRestores(t) \/ RecoverDropsBackup(t)
                             \/ Quarantine(t) \/ Opened(t)
      PROVE  MineTyped'
  BY <1>4, <1>t DEF RecoverReads, RecoverRestores, RecoverDropsBackup, Quarantine, Opened,
     FilesTyped
<1>5. ASSUME NEW p \in Procs, Prepare(p) \/ RequestRefresh(p) \/ ProviderRejects(p)
                              \/ ProviderFails(p) \/ RequestRejected(p)
      PROVE  MineTyped'
  BY <1>5, <1>t DEF Prepare, RequestRefresh, ProviderRejects, ProviderFails, RequestRejected,
     StartFlight, FilesTyped, Readable, Fail
<1>6. ASSUME NEW p \in Procs, ProviderGrants(p)
      PROVE  MineTyped'
  <2>1. Flight(p) \in Task /\ Flight(p)[2] = "refresh"
    BY TaskValues
  <2>2. Refreshed(mine[Flight(p)]) \in Record
    BY <1>6, <1>t, <2>1, RefreshedValues DEF ProviderGrants, IInv, MineAtStep, RecordsSound,
       CountsTyped
  <2> QED
    BY <1>6, <1>t, <2>1, <2>2 DEF ProviderGrants
<1>7. ASSUME NEW p \in Procs, StartRevoke(p) \/ ProviderRevokes(p) \/ OpenStore(p) \/ Crash(p)
      PROVE  MineTyped'
  BY <1>7, <1>t DEF StartRevoke, ProviderRevokes, OpenStore, Crash
<1>8. CASE UNCHANGED vars
  BY <1>8, <1>t DEF vars
<1> QED
  BY <1>1, <1>2, <1>3, <1>4, <1>5, <1>6, <1>7, <1>8 DEF Next

LEMMA AccountStep == IInv /\ [Next]_vars => AccountTyped'
<1> SUFFICES ASSUME IInv, [Next]_vars PROVE AccountTyped'
  OBVIOUS
<1> USE TaskValues, RequestValues DEF AccountTyped, files, provider, observed, Goto
<1>t. FilesTyped /\ StepsTyped /\ SeenTyped /\ MineTyped /\ AccountTyped /\ CountsTyped
  BY TypeParts DEF IInv
<1>1. ASSUME NEW t \in Task, CreateLock(t) \/ WriteLock(t) \/ Locked(t) \/ SeeStaleLock(t)
                             \/ RereadLock(t) \/ RemoveStaleLock(t)
      PROVE  AccountTyped'
  BY <1>1, <1>t DEF CreateLock, WriteLock, Locked, SeeStaleLock, RereadLock, RemoveStaleLock,
     Fail, Holding, AfterLock
<1>2. ASSUME NEW t \in Task, CheckGeneration(t) \/ WriteTemporary(t) \/ RenameBackup(t)
                             \/ RenameActive(t) \/ Verify(t)
      PROVE  AccountTyped'
  BY <1>2, <1>t DEF CheckGeneration, WriteTemporary, RenameBackup, RenameActive, Verify
<1>3. ASSUME NEW t \in Task, ReleaseCommit(t)
      PROVE  AccountTyped'
  <2>1. Yielded(t) \in 0..MaxTokens
    BY <1>t, RecordValues, CredentialAssumption DEF Yielded, Readable, FilesTyped, MineTyped
  <2>2. account' \in Account
    BY <1>3, <1>t, <2>1, BindValues DEF ReleaseCommit
  <2> QED
    BY <1>3, <1>t, <2>2 DEF ReleaseCommit
<1>4. ASSUME NEW t \in Task, RemoveActive(t) \/ RemoveBackup(t) \/ RemoveTemporary(t)
      PROVE  AccountTyped'
  BY <1>4, <1>t DEF RemoveActive, RemoveBackup, RemoveTemporary, Released
<1>5. ASSUME NEW t \in Task, RecoverReads(t) \/ RecoverRestores(t) \/ RecoverDropsBackup(t)
                             \/ Quarantine(t) \/ Opened(t)
      PROVE  AccountTyped'
  BY <1>5, <1>t DEF RecoverReads, RecoverRestores, RecoverDropsBackup, Quarantine, Opened
<1>6. ASSUME NEW p \in Procs, Prepare(p) \/ RequestRefresh(p) \/ ProviderGrants(p)
                              \/ ProviderRejects(p) \/ ProviderFails(p)
      PROVE  AccountTyped'
  BY <1>6, <1>t DEF Prepare, RequestRefresh, ProviderGrants, ProviderRejects, ProviderFails,
     StartFlight, Fail
<1>7. ASSUME NEW p \in Procs, RequestRejected(p)
      PROVE  AccountTyped'
  <2>1. Readable.gen \in 0..MaxTokens
    BY <1>t, RecordValues, CredentialAssumption DEF Readable, FilesTyped
  <2>2. account' \in Account
    BY <1>7, <1>t, <2>1, BindValues DEF RequestRejected
  <2> QED
    BY <1>7, <1>t, <2>2 DEF RequestRejected
<1>8. ASSUME NEW p \in Procs, StartRevoke(p)
      PROVE  AccountTyped'
  <2>1. account' \in Account
    BY <1>8, <1>t, BindValues DEF StartRevoke
  <2> QED
    BY <1>8, <1>t, <2>1 DEF StartRevoke
<1>9. ASSUME NEW p \in Procs, ProviderRevokes(p) \/ OpenStore(p) \/ Crash(p)
      PROVE  AccountTyped'
  BY <1>9, <1>t DEF ProviderRevokes, OpenStore, Crash
<1>10. CASE UNCHANGED vars
  BY <1>10, <1>t DEF vars
<1> QED
  BY <1>1, <1>2, <1>3, <1>4, <1>5, <1>6, <1>7, <1>8, <1>9, <1>10 DEF Next

LEMMA CountsStep == IInv /\ [Next]_vars => CountsTyped'
<1> SUFFICES ASSUME IInv, [Next]_vars PROVE CountsTyped'
  OBVIOUS
<1> USE CredentialAssumption DEF CountsTyped, files, provider, observed, Goto
<1>t. FilesTyped /\ StepsTyped /\ SeenTyped /\ MineTyped /\ AccountTyped /\ CountsTyped
  BY TypeParts DEF IInv
<1>1. ASSUME NEW t \in Task, CreateLock(t) \/ WriteLock(t) \/ Locked(t) \/ SeeStaleLock(t)
                             \/ RereadLock(t) \/ RemoveStaleLock(t)
      PROVE  CountsTyped'
  BY <1>1, <1>t DEF CreateLock, WriteLock, Locked, SeeStaleLock, RereadLock, RemoveStaleLock,
     Fail, Holding, AfterLock
<1>2. ASSUME NEW t \in Task, CheckGeneration(t) \/ WriteTemporary(t) \/ RenameBackup(t)
                             \/ RenameActive(t) \/ Verify(t) \/ ReleaseCommit(t)
      PROVE  CountsTyped'
  BY <1>2, <1>t DEF CheckGeneration, WriteTemporary, RenameBackup, RenameActive, Verify,
     ReleaseCommit, Released
<1>3. ASSUME NEW t \in Task, RemoveActive(t) \/ RemoveBackup(t) \/ RemoveTemporary(t)
      PROVE  CountsTyped'
  BY <1>3, <1>t DEF RemoveActive, RemoveBackup, RemoveTemporary, Released
<1>4. ASSUME NEW t \in Task, RecoverReads(t) \/ RecoverRestores(t) \/ RecoverDropsBackup(t)
                             \/ Quarantine(t) \/ Opened(t)
      PROVE  CountsTyped'
  BY <1>4, <1>t DEF RecoverReads, RecoverRestores, RecoverDropsBackup, Quarantine, Opened
<1>5. ASSUME NEW p \in Procs, Prepare(p) \/ RequestRefresh(p) \/ ProviderGrants(p)
                              \/ ProviderRejects(p) \/ ProviderFails(p) \/ RequestRejected(p)
      PROVE  CountsTyped'
  BY <1>5, <1>t DEF Prepare, RequestRefresh, ProviderGrants, ProviderRejects, ProviderFails,
     RequestRejected, StartFlight, Fail
<1>6. ASSUME NEW p \in Procs, StartRevoke(p) \/ ProviderRevokes(p)
      PROVE  CountsTyped'
  BY <1>6, <1>t DEF StartRevoke, ProviderRevokes
<1>7. ASSUME NEW p \in Procs, OpenStore(p) \/ Crash(p)
      PROVE  CountsTyped'
  BY <1>7, <1>t DEF OpenStore, Crash
<1>8. CASE UNCHANGED vars
  BY <1>8, <1>t DEF vars
<1> QED
  BY <1>1, <1>2, <1>3, <1>4, <1>5, <1>6, <1>7, <1>8 DEF Next

LEMMA TypeStep == IInv /\ [Next]_vars => TypeOK'
BY FilesStep, StepsStep, SeenStep, MineStep, AccountStep, CountsStep
   DEF TypeOK, FilesTyped, StepsTyped, SeenTyped, MineTyped, AccountTyped, CountsTyped

-----------------------------------------------------------------------------
(* The invariant at each step.                                             *)

LEMMA KindAtStepStep == IInv /\ [Next]_vars => KindAtStep'
<1> SUFFICES ASSUME IInv, [Next]_vars PROVE KindAtStep'
  OBVIOUS
<1> USE TaskValues
        DEF KindAtStep, Dead, Committing, Replacing, Purging, files, provider, observed, Goto
<1>t. /\ pc \in [Task -> Steps]
      /\ KindAtStep
  BY DEF IInv, TypeOK
<1>1. ASSUME NEW t \in Task, CreateLock(t) \/ WriteLock(t) \/ Locked(t) \/ SeeStaleLock(t)
                             \/ RereadLock(t) \/ RemoveStaleLock(t)
      PROVE  KindAtStep'
  BY <1>1, <1>t DEF CreateLock, WriteLock, Locked, SeeStaleLock, RereadLock, RemoveStaleLock,
     Fail, Holding, AfterLock
<1>2. ASSUME NEW t \in Task, CheckGeneration(t) \/ WriteTemporary(t) \/ RenameBackup(t)
                             \/ RenameActive(t) \/ Verify(t) \/ ReleaseCommit(t)
      PROVE  KindAtStep'
  BY <1>2, <1>t DEF CheckGeneration, WriteTemporary, RenameBackup, RenameActive, Verify,
     ReleaseCommit, Released
<1>3. ASSUME NEW t \in Task, RemoveActive(t) \/ RemoveBackup(t) \/ RemoveTemporary(t)
      PROVE  KindAtStep'
  BY <1>3, <1>t DEF RemoveActive, RemoveBackup, RemoveTemporary, Released
<1>4. ASSUME NEW t \in Task, RecoverReads(t) \/ RecoverRestores(t) \/ RecoverDropsBackup(t)
                             \/ Quarantine(t) \/ Opened(t)
      PROVE  KindAtStep'
  BY <1>4, <1>t DEF RecoverReads, RecoverRestores, RecoverDropsBackup, Quarantine, Opened
<1>5. ASSUME NEW p \in Procs, Prepare(p) \/ RequestRefresh(p) \/ ProviderGrants(p)
                              \/ ProviderRejects(p) \/ ProviderFails(p) \/ RequestRejected(p)
      PROVE  KindAtStep'
  BY <1>5, <1>t DEF Prepare, RequestRefresh, ProviderGrants, ProviderRejects, ProviderFails,
     RequestRejected, StartFlight, Up, Fail
<1>6. ASSUME NEW p \in Procs, StartRevoke(p) \/ ProviderRevokes(p) \/ OpenStore(p) \/ Crash(p)
      PROVE  KindAtStep'
  BY <1>6, <1>t DEF StartRevoke, ProviderRevokes, OpenStore, Crash, Up
<1>7. CASE UNCHANGED vars
  BY <1>7, <1>t DEF vars
<1> QED
  BY <1>1, <1>2, <1>3, <1>4, <1>5, <1>6, <1>7 DEF Next

LEMMA MineAtStepStep == IInv /\ [Next]_vars => MineAtStep'
<1> SUFFICES ASSUME IInv, [Next]_vars PROVE MineAtStep'
  OBVIOUS
<1> USE TaskValues
        DEF MineAtStep, KindAtStep, Committing, Replacing, Purging, files, provider, observed,
            Goto
<1>t. /\ pc \in [Task -> Steps] /\ mine \in [Task -> Record]
      /\ MineAtStep /\ KindAtStep /\ RecordsSound
  BY DEF IInv, TypeOK
<1>1. ASSUME NEW t \in Task, CreateLock(t) \/ WriteLock(t) \/ Locked(t) \/ SeeStaleLock(t)
                             \/ RereadLock(t) \/ RemoveStaleLock(t)
      PROVE  MineAtStep'
  BY <1>1, <1>t DEF CreateLock, WriteLock, Locked, SeeStaleLock, RereadLock, RemoveStaleLock,
     Fail, Holding, AfterLock
<1>2. ASSUME NEW t \in Task, CheckGeneration(t) \/ WriteTemporary(t) \/ RenameBackup(t)
                             \/ RenameActive(t) \/ Verify(t) \/ ReleaseCommit(t)
      PROVE  MineAtStep'
  BY <1>2, <1>t DEF CheckGeneration, WriteTemporary, RenameBackup, RenameActive, Verify,
     ReleaseCommit, Released
<1>3. ASSUME NEW t \in Task, RemoveActive(t) \/ RemoveBackup(t) \/ RemoveTemporary(t)
      PROVE  MineAtStep'
  BY <1>3, <1>t DEF RemoveActive, RemoveBackup, RemoveTemporary, Released
<1>4. ASSUME NEW t \in Task, RecoverReads(t) \/ RecoverRestores(t) \/ RecoverDropsBackup(t)
                             \/ Quarantine(t) \/ Opened(t)
      PROVE  MineAtStep'
  BY <1>4, <1>t DEF RecoverReads, RecoverRestores, RecoverDropsBackup, Quarantine, Opened
<1>5. ASSUME NEW p \in Procs, Prepare(p)
      PROVE  MineAtStep'
  <2>1. Readable # NoRecord => Readable.gen >= 1
    BY <1>t DEF RecordsSound, Sound, Readable
  <2> QED
    BY <1>5, <1>t, <2>1 DEF Prepare, StartFlight
<1>6. ASSUME NEW p \in Procs, RequestRefresh(p)
      PROVE  MineAtStep'
  <2>1. Readable # NoRecord => Readable.gen >= 1
    BY <1>t DEF RecordsSound, Sound, Readable
  <2> QED
    BY <1>6, <1>t, <2>1 DEF RequestRefresh, StartFlight
<1>7. ASSUME NEW p \in Procs, ProviderGrants(p)
      PROVE  MineAtStep'
  <2>1. Flight(p) \in Task /\ Flight(p)[2] = "refresh" /\ mine[Flight(p)].gen >= 1
    BY <1>7, <1>t DEF ProviderGrants
  <2>2. Refreshed(mine[Flight(p)]).gen >= 2
    BY <1>7, <1>t, <2>1, RefreshedValues, RecordValues
       DEF ProviderGrants, RecordsSound, IInv, TypeOK
  <2> QED
    BY <1>7, <1>t, <2>1, <2>2 DEF ProviderGrants
<1>8. ASSUME NEW p \in Procs, ProviderRejects(p) \/ ProviderFails(p) \/ RequestRejected(p)
      PROVE  MineAtStep'
  BY <1>8, <1>t DEF ProviderRejects, ProviderFails, RequestRejected, Fail
<1>9. ASSUME NEW p \in Procs, StartRevoke(p) \/ ProviderRevokes(p) \/ OpenStore(p) \/ Crash(p)
      PROVE  MineAtStep'
  BY <1>9, <1>t DEF StartRevoke, ProviderRevokes, OpenStore, Crash
<1>10. CASE UNCHANGED vars
  BY <1>10, <1>t DEF vars
<1> QED
  BY <1>1, <1>2, <1>3, <1>4, <1>5, <1>6, <1>7, <1>8, <1>9, <1>10 DEF Next

\* Only the lock of a process that is gone is removed, or the lock was stolen.
LEMMA HolderNamedStep == IInv /\ [Next]_vars => HolderNamed'
<1> SUFFICES ASSUME IInv, [Next]_vars PROVE HolderNamed'
  OBVIOUS
<1> USE TaskValues, LockValues
        DEF HolderNamed, HoldingSteps, Committing, Replacing, Purging, KindAtStep, Dead, files,
            provider, observed, Goto
<1>t. /\ pc \in [Task -> Steps]
      /\ HolderNamed /\ KindAtStep
  BY DEF IInv, TypeOK
<1>1. ASSUME NEW t \in Task, CreateLock(t) \/ WriteLock(t) \/ Locked(t) \/ SeeStaleLock(t)
                             \/ RereadLock(t)
      PROVE  HolderNamed'
  BY <1>1, <1>t DEF CreateLock, WriteLock, Locked, SeeStaleLock, RereadLock, Fail, Holding,
     AfterLock
<1>2. ASSUME NEW t \in Task, RemoveStaleLock(t)
      PROVE  HolderNamed'
  <2>1. ~stolen' => ~stolen /\ (lock = NoLock \/ Dead(lock.owner[1]))
    BY <1>2 DEF RemoveStaleLock
  <2> QED
    BY <1>2, <1>t, <2>1 DEF RemoveStaleLock, AfterLock
<1>3. ASSUME NEW t \in Task, CheckGeneration(t) \/ WriteTemporary(t) \/ RenameBackup(t)
                             \/ RenameActive(t) \/ Verify(t) \/ ReleaseCommit(t)
      PROVE  HolderNamed'
  BY <1>3, <1>t DEF CheckGeneration, WriteTemporary, RenameBackup, RenameActive, Verify,
     ReleaseCommit, Released
<1>4. ASSUME NEW t \in Task, RemoveActive(t) \/ RemoveBackup(t) \/ RemoveTemporary(t)
      PROVE  HolderNamed'
  BY <1>4, <1>t DEF RemoveActive, RemoveBackup, RemoveTemporary, Released
<1>5. ASSUME NEW t \in Task, RecoverReads(t) \/ RecoverRestores(t) \/ RecoverDropsBackup(t)
                             \/ Quarantine(t) \/ Opened(t)
      PROVE  HolderNamed'
  BY <1>5, <1>t DEF RecoverReads, RecoverRestores, RecoverDropsBackup, Quarantine, Opened
<1>6. ASSUME NEW p \in Procs, Prepare(p) \/ RequestRefresh(p) \/ ProviderGrants(p)
                              \/ ProviderRejects(p) \/ ProviderFails(p) \/ RequestRejected(p)
      PROVE  HolderNamed'
  BY <1>6, <1>t DEF Prepare, RequestRefresh, ProviderGrants, ProviderRejects, ProviderFails,
     RequestRejected, StartFlight, Fail
<1>7. ASSUME NEW p \in Procs, StartRevoke(p) \/ ProviderRevokes(p) \/ OpenStore(p) \/ Crash(p)
      PROVE  HolderNamed'
  BY <1>7, <1>t DEF StartRevoke, ProviderRevokes, OpenStore, Crash
<1>8. CASE UNCHANGED vars
  BY <1>8, <1>t DEF vars
<1> QED
  BY <1>1, <1>2, <1>3, <1>4, <1>5, <1>6, <1>7, <1>8 DEF Next

LEMMA ActivePresentStep == IInv /\ [Next]_vars => ActivePresent'
<1> SUFFICES ASSUME IInv, [Next]_vars PROVE ActivePresent'
  OBVIOUS
<1> USE TaskValues
        DEF ActivePresent, KindAtStep, Committing, Replacing, Purging, files, provider,
            observed, Goto
<1>t. /\ pc \in [Task -> Steps] /\ tmp \in [Task -> Record] /\ purge \in {"none", "begun", "erased", "restored"}
      /\ ActivePresent /\ KindAtStep
  BY DEF IInv, TypeOK
<1>1. ASSUME NEW t \in Task, CreateLock(t) \/ WriteLock(t) \/ Locked(t) \/ SeeStaleLock(t)
                             \/ RereadLock(t) \/ RemoveStaleLock(t)
      PROVE  ActivePresent'
  BY <1>1, <1>t DEF CreateLock, WriteLock, Locked, SeeStaleLock, RereadLock, RemoveStaleLock,
     Fail, Holding, AfterLock
<1>2. ASSUME NEW t \in Task, CheckGeneration(t) \/ WriteTemporary(t) \/ RenameBackup(t)
                             \/ RenameActive(t) \/ Verify(t) \/ ReleaseCommit(t)
      PROVE  ActivePresent'
  BY <1>2, <1>t DEF CheckGeneration, WriteTemporary, RenameBackup, RenameActive, Verify,
     ReleaseCommit, Released
<1>3. ASSUME NEW t \in Task, RemoveActive(t) \/ RemoveBackup(t) \/ RemoveTemporary(t)
      PROVE  ActivePresent'
  BY <1>3, <1>t DEF RemoveActive, RemoveBackup, RemoveTemporary, Released
<1>4. ASSUME NEW t \in Task, RecoverReads(t) \/ RecoverRestores(t) \/ RecoverDropsBackup(t)
                             \/ Quarantine(t) \/ Opened(t)
      PROVE  ActivePresent'
  BY <1>4, <1>t DEF RecoverReads, RecoverRestores, RecoverDropsBackup, Quarantine, Opened
<1>5. ASSUME NEW p \in Procs, Prepare(p) \/ RequestRefresh(p) \/ ProviderGrants(p)
                              \/ ProviderRejects(p) \/ ProviderFails(p) \/ RequestRejected(p)
      PROVE  ActivePresent'
  BY <1>5, <1>t DEF Prepare, RequestRefresh, ProviderGrants, ProviderRejects, ProviderFails,
     RequestRejected, StartFlight, Fail
<1>6. ASSUME NEW p \in Procs, StartRevoke(p) \/ ProviderRevokes(p) \/ OpenStore(p) \/ Crash(p)
      PROVE  ActivePresent'
  BY <1>6, <1>t DEF StartRevoke, ProviderRevokes, OpenStore, Crash
<1>7. CASE UNCHANGED vars
  BY <1>7, <1>t DEF vars
<1> QED
  BY <1>1, <1>2, <1>3, <1>4, <1>5, <1>6, <1>7 DEF Next

LEMMA RecordsSoundStep == IInv /\ [Next]_vars => RecordsSound'
<1> SUFFICES ASSUME IInv, [Next]_vars PROVE RecordsSound'
  OBVIOUS
<1> USE TaskValues, RecordValues DEF RecordsSound, Sound, files, provider, observed, Goto
<1>t. /\ active \in Record /\ backup \in Record /\ issued \in Nat
      /\ tmp \in [Task -> Record] /\ mine \in [Task -> Record]
      /\ RecordsSound
  BY CredentialAssumption DEF IInv, TypeOK
<1>1. ASSUME NEW t \in Task, CreateLock(t) \/ WriteLock(t) \/ Locked(t) \/ SeeStaleLock(t)
                             \/ RereadLock(t) \/ RemoveStaleLock(t)
      PROVE  RecordsSound'
  BY <1>1, <1>t DEF CreateLock, WriteLock, Locked, SeeStaleLock, RereadLock, RemoveStaleLock,
     Fail, Holding, AfterLock
<1>2. ASSUME NEW t \in Task, CheckGeneration(t) \/ WriteTemporary(t) \/ RenameBackup(t)
                             \/ RenameActive(t) \/ Verify(t) \/ ReleaseCommit(t)
      PROVE  RecordsSound'
  BY <1>2, <1>t DEF CheckGeneration, WriteTemporary, RenameBackup, RenameActive, Verify,
     ReleaseCommit, Released
<1>3. ASSUME NEW t \in Task, RemoveActive(t) \/ RemoveBackup(t) \/ RemoveTemporary(t)
      PROVE  RecordsSound'
  BY <1>3, <1>t DEF RemoveActive, RemoveBackup, RemoveTemporary, Released
<1>4. ASSUME NEW t \in Task, RecoverReads(t) \/ RecoverRestores(t) \/ RecoverDropsBackup(t)
                             \/ Quarantine(t) \/ Opened(t)
      PROVE  RecordsSound'
  BY <1>4, <1>t DEF RecoverReads, RecoverRestores, RecoverDropsBackup, Quarantine, Opened
<1>5. ASSUME NEW p \in Procs, Prepare(p) \/ RequestRefresh(p) \/ ProviderRejects(p)
                              \/ ProviderFails(p) \/ RequestRejected(p)
      PROVE  RecordsSound'
  BY <1>5, <1>t DEF Prepare, RequestRefresh, ProviderRejects, ProviderFails, RequestRejected,
     StartFlight, Readable, Fail
<1>6. ASSUME NEW p \in Procs, ProviderGrants(p)
      PROVE  RecordsSound'
  <2> DEFINE next == Refreshed(mine[Flight(p)])
  <2>1. mine[Flight(p)] \in Record /\ mine[Flight(p)].gen >= 1
    BY <1>6, <1>t DEF ProviderGrants, IInv, MineAtStep
  <2>2. next.gen \in Nat /\ next.gen >= 1 /\ next.gen <= issued + 1 /\ next.token = issued + 1
    BY <1>6, <1>t, <2>1, RefreshedValues DEF ProviderGrants, IInv, TypeOK
  <2>3. mine' = [mine EXCEPT ![Flight(p)] = next]
    BY <1>6 DEF ProviderGrants
  <2> HIDE DEF next
  <2> QED
    BY <1>6, <1>t, <2>2, <2>3 DEF ProviderGrants
<1>7. ASSUME NEW p \in Procs, StartRevoke(p) \/ ProviderRevokes(p) \/ OpenStore(p) \/ Crash(p)
      PROVE  RecordsSound'
  BY <1>7, <1>t DEF StartRevoke, ProviderRevokes, OpenStore, Crash
<1>8. CASE UNCHANGED vars
  BY <1>8, <1>t DEF vars
<1> QED
  BY <1>1, <1>2, <1>3, <1>4, <1>5, <1>6, <1>7, <1>8 DEF Next

\* A commit succeeds what it compared: nobody else commits under the lock.
LEMMA LastCommitStep == IInv /\ [Next]_vars => LastCommit'
<1> SUFFICES ASSUME IInv, [Next]_vars PROVE LastCommit'
  OBVIOUS
<1> USE TaskValues, RecordValues, LockValues, RequestValues
        DEF LastCommit, ActivePresent, HolderNamed, HoldingSteps, KindAtStep, Committing,
            Replacing, Purging, files, provider, observed, Goto
<1>t. /\ pc \in [Task -> Steps] /\ mine \in [Task -> Record] /\ tmp \in [Task -> Record]
      /\ active \in Record /\ written \subseteq Record
      /\ account \in Account /\ manual \in [Procs -> Request]
      /\ LastCommit /\ ActivePresent /\ HolderNamed /\ KindAtStep /\ MineAtStep
  BY DEF IInv, TypeOK
<1>1. ASSUME NEW t \in Task, CreateLock(t)
      PROVE  LastCommit'
  BY <1>1, <1>t DEF CreateLock
<1>2. ASSUME NEW t \in Task, WriteLock(t)
      PROVE  LastCommit'
  BY <1>2, <1>t DEF WriteLock, Fail, Holding
<1>3. ASSUME NEW t \in Task, Locked(t)
      PROVE  LastCommit'
  BY <1>3, <1>t DEF Locked, Fail
<1>4. ASSUME NEW t \in Task, SeeStaleLock(t)
      PROVE  LastCommit'
  BY <1>4, <1>t DEF SeeStaleLock
<1>5. ASSUME NEW t \in Task, RereadLock(t)
      PROVE  LastCommit'
  BY <1>5, <1>t DEF RereadLock, AfterLock
<1>6. ASSUME NEW t \in Task, RemoveStaleLock(t)
      PROVE  LastCommit'
  BY <1>6, <1>t DEF RemoveStaleLock, AfterLock
<1>7. ASSUME NEW t \in Task, CheckGeneration(t) \/ WriteTemporary(t)
      PROVE  LastCommit'
  BY <1>7, <1>t DEF CheckGeneration, WriteTemporary, Readable
<1>8. ASSUME NEW t \in Task, RenameBackup(t) \/ Verify(t)
      PROVE  LastCommit'
  BY <1>8, <1>t DEF RenameBackup, Verify
<1>9. ASSUME NEW t \in Task, RenameActive(t)
      PROVE  LastCommit'
  <2>1. CASE tmp[t] = NoRecord
    BY <1>9, <1>t, <2>1 DEF RenameActive
  <2>2. CASE tmp[t] # NoRecord
    <3>1. SUFFICES ASSUME ~stolen, purge = "none" PROVE LastCommit'
      BY <1>9 DEF RenameActive
    <3>u. lock = Written(t) /\ \A u \in Task : u # t => pc[u] \notin HoldingSteps
      <4>1. lock = Written(t) /\ lock.owner = t
        BY <1>9, <1>t, <3>1 DEF RenameActive
      <4>2. \A u \in Task : pc[u] \in HoldingSteps => lock.owner = u
        BY <1>t, <3>1
      <4> QED
        BY <4>1, <4>2
    <3>2. /\ active' = mine[t] /\ written' = written \cup {mine[t]}
          /\ mine[t].gen = active.gen + 1
      BY <1>9, <1>t, <2>2, <3>1 DEF RenameActive
    <3>3. /\ \A r \in written' : r.gen <= active'.gen
          /\ \A r, s \in written' : r.gen = s.gen => r = s
      BY <1>t, <3>1, <3>2
    <3>4. /\ account.gen <= active'.gen
          /\ \A p \in Procs : manual[p].gen <= active'.gen
      BY <1>t, <3>1, <3>2
    <3>5. \A u \in Task : u # t => pc'[u] \notin HoldingSteps
      BY <1>9, <1>t, <3>u DEF RenameActive
    <3> QED
      BY <1>9, <1>t, <2>2, <3>3, <3>4, <3>5 DEF RenameActive
  <2> QED
    BY <2>1, <2>2
<1>10. ASSUME NEW t \in Task, ReleaseCommit(t)
       PROVE  LastCommit'
  <2>1. Yielded(t) \in 0..MaxTokens /\ (~stolen /\ purge = "none" => Yielded(t) <= active.gen)
    BY <1>t, CredentialAssumption DEF Yielded, Readable, IInv, TypeOK
  <2>2. account' \in Account /\ account'.gen \in {account.gen, Yielded(t)}
    BY <1>10, <1>t, <2>1, BindValues DEF ReleaseCommit
  <2> QED
    BY <1>10, <1>t, <2>1, <2>2 DEF ReleaseCommit
<1>11. ASSUME NEW t \in Task, RemoveActive(t)
       PROVE  LastCommit'
  BY <1>11, <1>t DEF RemoveActive
<1>12. ASSUME NEW t \in Task, RemoveBackup(t) \/ RemoveTemporary(t)
       PROVE  LastCommit'
  BY <1>12, <1>t DEF RemoveBackup, RemoveTemporary, Released
<1>13. ASSUME NEW t \in Task, RecoverReads(t) \/ RecoverRestores(t) \/ RecoverDropsBackup(t)
                              \/ Quarantine(t) \/ Opened(t)
       PROVE  LastCommit'
  BY <1>13, <1>t DEF RecoverReads, RecoverRestores, RecoverDropsBackup, Quarantine, Opened
<1>14. ASSUME NEW p \in Procs, Prepare(p)
       PROVE  LastCommit'
  BY <1>14, <1>t DEF Prepare, StartFlight
<1>15. ASSUME NEW p \in Procs, RequestRefresh(p)
       PROVE  LastCommit'
  BY <1>15, <1>t DEF RequestRefresh, StartFlight
<1>16. ASSUME NEW p \in Procs, ProviderGrants(p)
       PROVE  LastCommit'
  BY <1>16, <1>t DEF ProviderGrants
<1>17. ASSUME NEW p \in Procs, ProviderRejects(p)
       PROVE  LastCommit'
  BY <1>17, <1>t DEF ProviderRejects
<1>18. ASSUME NEW p \in Procs, ProviderFails(p)
       PROVE  LastCommit'
  BY <1>18, <1>t DEF ProviderFails, Fail
<1>19. ASSUME NEW p \in Procs, RequestRejected(p)
       PROVE  LastCommit'
  <2>1. Readable.gen \in 0..MaxTokens
    BY <1>t, CredentialAssumption DEF Readable, IInv, TypeOK
  <2>2. account' \in Account /\ account'.gen \in {account.gen, Readable.gen, manual[p].gen}
    BY <1>19, <1>t, <2>1, BindValues DEF RequestRejected
  <2> QED
    BY <1>19, <1>t, <2>2 DEF RequestRejected, Readable
<1>20. ASSUME NEW p \in Procs, StartRevoke(p)
       PROVE  LastCommit'
  <2>1. account' \in Account /\ account'.gen = account.gen
    BY <1>20, <1>t, BindValues DEF StartRevoke
  <2> QED
    BY <1>20, <1>t, <2>1 DEF StartRevoke
<1>21. ASSUME NEW p \in Procs, ProviderRevokes(p)
       PROVE  LastCommit'
  BY <1>21, <1>t DEF ProviderRevokes
<1>22. ASSUME NEW p \in Procs, OpenStore(p)
       PROVE  LastCommit'
  BY <1>22, <1>t DEF OpenStore
<1>23. ASSUME NEW p \in Procs, Crash(p)
       PROVE  LastCommit'
  BY <1>23, <1>t DEF Crash
<1>24. CASE UNCHANGED vars
  BY <1>24, <1>t DEF vars
<1> QED
  BY <1>1, <1>2, <1>3, <1>4, <1>5, <1>6, <1>7, <1>8, <1>9, <1>10, <1>11, <1>12,
     <1>13, <1>14, <1>15, <1>16, <1>17, <1>18, <1>19, <1>20, <1>21, <1>22,
     <1>23, <1>24
     DEF Next

\* A refresh that reaches the lock after a purge finds no record to succeed.
LEMMA ErasedStaysStep == IInv /\ [Next]_vars => ErasedStays'
<1> SUFFICES ASSUME IInv, [Next]_vars PROVE ErasedStays'
  OBVIOUS
<1> USE TaskValues, RecordValues, LockValues
        DEF ErasedStays, Readable, HolderNamed, HoldingSteps, KindAtStep, Committing, Replacing,
            Purging, files, provider, observed, Goto
<1>t. /\ pc \in [Task -> Steps] /\ mine \in [Task -> Record] /\ tmp \in [Task -> Record]
      /\ active \in Record /\ backup \in Record
      /\ ErasedStays /\ HolderNamed /\ KindAtStep /\ MineAtStep
  BY DEF IInv, TypeOK
<1>1. ASSUME NEW t \in Task, CreateLock(t) \/ WriteLock(t) \/ Locked(t)
      PROVE  ErasedStays'
  BY <1>1, <1>t DEF CreateLock, WriteLock, Locked, Fail, Holding
<1>2. ASSUME NEW t \in Task, SeeStaleLock(t)
      PROVE  ErasedStays'
  BY <1>2, <1>t DEF SeeStaleLock
<1>3. ASSUME NEW t \in Task, RereadLock(t)
      PROVE  ErasedStays'
  BY <1>3, <1>t DEF RereadLock, AfterLock
<1>4. ASSUME NEW t \in Task, RemoveStaleLock(t)
      PROVE  ErasedStays'
  BY <1>4, <1>t DEF RemoveStaleLock, AfterLock
<1>5. ASSUME NEW t \in Task, CheckGeneration(t) \/ WriteTemporary(t) \/ RenameBackup(t)
                             \/ RenameActive(t) \/ Verify(t) \/ ReleaseCommit(t)
      PROVE  ErasedStays'
  BY <1>5, <1>t DEF CheckGeneration, WriteTemporary, RenameBackup, RenameActive, Verify,
     ReleaseCommit, MineAtStep, Released
<1>6. ASSUME NEW t \in Task, RemoveActive(t) \/ RemoveBackup(t) \/ RemoveTemporary(t)
      PROVE  ErasedStays'
  BY <1>6, <1>t DEF RemoveActive, RemoveBackup, RemoveTemporary, Released
<1>7. ASSUME NEW t \in Task, RecoverReads(t) \/ RecoverRestores(t) \/ RecoverDropsBackup(t)
                             \/ Quarantine(t) \/ Opened(t)
      PROVE  ErasedStays'
  BY <1>7, <1>t DEF RecoverReads, RecoverRestores, RecoverDropsBackup, Quarantine, Opened
<1>8. ASSUME NEW p \in Procs, Prepare(p) \/ RequestRefresh(p) \/ ProviderGrants(p)
                              \/ ProviderRejects(p) \/ ProviderFails(p) \/ RequestRejected(p)
      PROVE  ErasedStays'
  BY <1>8, <1>t DEF Prepare, RequestRefresh, ProviderGrants, ProviderRejects, ProviderFails,
     RequestRejected, StartFlight, Fail
<1>9. ASSUME NEW p \in Procs, StartRevoke(p) \/ ProviderRevokes(p) \/ OpenStore(p) \/ Crash(p)
      PROVE  ErasedStays'
  BY <1>9, <1>t DEF StartRevoke, ProviderRevokes, OpenStore, Crash
<1>10. CASE UNCHANGED vars
  BY <1>10, <1>t DEF vars
<1> QED
  BY <1>1, <1>2, <1>3, <1>4, <1>5, <1>6, <1>7, <1>8, <1>9, <1>10 DEF Next

-----------------------------------------------------------------------------
(* The theorems.                                                           *)

LEMMA IInvInit == Init => IInv
<1> SUFFICES ASSUME Init PROVE IInv
  OBVIOUS
<1> USE CredentialAssumption, TaskValues, LockValues, RecordValues, RequestValues DEF Init
<1>1. FilesTyped /\ SeenTyped /\ MineTyped
  BY DEF FilesTyped, SeenTyped, MineTyped
<1>2. StepsTyped
  BY DEF StepsTyped, Steps
<1>3. AccountTyped
  BY DEF AccountTyped, Account
<1>4. CountsTyped
  <2>1. stolen \in BOOLEAN /\ grant \in BOOLEAN
    OBVIOUS
  <2> QED
    BY <2>1 DEF CountsTyped
<1>5. KindAtStep /\ MineAtStep
  BY DEF KindAtStep, MineAtStep, Committing, Replacing, Purging, Dead, Opening
<1>6. RecordsSound
  BY DEF RecordsSound, Sound
<1>7. HolderNamed /\ ActivePresent /\ ErasedStays
  BY DEF HolderNamed, ActivePresent, ErasedStays, HoldingSteps, Committing, Replacing, Purging
<1>8. LastCommit
  BY DEF LastCommit, Replacing
<1> QED
  BY <1>1, <1>2, <1>3, <1>4, <1>5, <1>6, <1>7, <1>8, TypeParts DEF IInv

LEMMA IInvStep == IInv /\ [Next]_vars => IInv'
BY TypeStep, KindAtStepStep, RecordsSoundStep, MineAtStepStep, HolderNamedStep,
   ActivePresentStep, LastCommitStep, ErasedStaysStep DEF IInv

\* Refreshes, purges and recoveries of any number of processes keep the inductive
\* invariant: whose lock it is, and what the record on disk succeeds.
THEOREM Invariance == Spec => []IInv
BY IInvInit, IInvStep, PTL DEF Spec

\* Every variable keeps its type.
THEOREM TypeCorrect == Spec => []TypeOK
<1>1. IInv => TypeOK
  BY DEF IInv
<1> QED
  BY <1>1, Invariance, PTL

\* No two refreshes ever commit the same generation before a purge, in however
\* many processes, while only dead owners' locks are removed.
THEOREM CommittedOnce == Spec => []GenerationCommittedOnce
<1>1. IInv => GenerationCommittedOnce
  BY DEF IInv, LastCommit, GenerationCommittedOnce
<1> QED
  BY <1>1, Invariance, PTL

\* An account never names a generation that is not on disk, through any
\* interleaving of its requests with refreshes and recoveries.
THEOREM NotAhead == Spec => []AccountNotAhead
<1>1. IInv => AccountNotAhead
  BY DEF IInv, LastCommit, ActivePresent, AccountNotAhead, Readable
<1> QED
  BY <1>1, Invariance, PTL

\* The active record is replaced by its successor only, until a purge begins.
LEMMA ActiveForward ==
  IInv /\ [Next]_vars =>
    (~stolen' /\ purge' = "none" => purge = "none" /\ active'.gen >= active.gen)
<1> SUFFICES ASSUME IInv, [Next]_vars, ~stolen', purge' = "none"
             PROVE  purge = "none" /\ active'.gen >= active.gen
  OBVIOUS
<1> USE RecordValues DEF files, provider, observed
<1>t. /\ active \in Record /\ tmp \in [Task -> Record] /\ mine \in [Task -> Record]
      /\ purge \in {"none", "begun", "erased", "restored"}
      /\ ActivePresent /\ LastCommit
  BY DEF IInv, TypeOK
<1>1. ASSUME NEW t \in Task, CreateLock(t) \/ WriteLock(t) \/ Locked(t) \/ SeeStaleLock(t)
                             \/ RereadLock(t) \/ RemoveStaleLock(t)
      PROVE  purge = "none" /\ active'.gen >= active.gen
  BY <1>1, <1>t DEF CreateLock, WriteLock, Locked, SeeStaleLock, RereadLock, RemoveStaleLock,
     Fail, Holding, AfterLock
<1>2. ASSUME NEW t \in Task, CheckGeneration(t) \/ WriteTemporary(t) \/ RenameBackup(t)
                             \/ Verify(t) \/ ReleaseCommit(t)
      PROVE  purge = "none" /\ active'.gen >= active.gen
  BY <1>2, <1>t DEF CheckGeneration, WriteTemporary, RenameBackup, Verify, ReleaseCommit,
     Released
<1>3. ASSUME NEW t \in Task, RenameActive(t)
      PROVE  purge = "none" /\ active'.gen >= active.gen
  <2>1. CASE tmp[t] = NoRecord
    BY <1>3, <1>t, <2>1 DEF RenameActive
  <2>2. CASE tmp[t] # NoRecord
    <3>1. active' = mine[t] /\ mine[t].gen = active.gen + 1 /\ purge' = purge
      BY <1>3, <1>t, <2>2 DEF RenameActive, LastCommit, Replacing
    <3> QED
      BY <1>t, <3>1
  <2> QED
    BY <2>1, <2>2
<1>4. ASSUME NEW t \in Task, RemoveActive(t) \/ RemoveBackup(t) \/ RemoveTemporary(t)
      PROVE  purge = "none" /\ active'.gen >= active.gen
  BY <1>4, <1>t DEF RemoveActive, RemoveBackup, RemoveTemporary, Released
<1>5. ASSUME NEW t \in Task, RecoverReads(t) \/ RecoverRestores(t) \/ RecoverDropsBackup(t)
                             \/ Quarantine(t) \/ Opened(t)
      PROVE  purge = "none" /\ active'.gen >= active.gen
  BY <1>5, <1>t DEF RecoverReads, RecoverRestores, RecoverDropsBackup, Quarantine, Opened,
     ActivePresent
<1>6. ASSUME NEW p \in Procs, Prepare(p) \/ RequestRefresh(p) \/ ProviderGrants(p)
                              \/ ProviderRejects(p) \/ ProviderFails(p) \/ RequestRejected(p)
                              \/ StartRevoke(p) \/ ProviderRevokes(p) \/ OpenStore(p)
                              \/ Crash(p)
      PROVE  purge = "none" /\ active'.gen >= active.gen
  BY <1>6, <1>t DEF Prepare, RequestRefresh, ProviderGrants, ProviderRejects, ProviderFails,
     RequestRejected, StartRevoke, ProviderRevokes, OpenStore, Crash, StartFlight, Fail
<1>7. CASE UNCHANGED vars
  BY <1>7, <1>t DEF vars
<1> QED
  BY <1>1, <1>2, <1>3, <1>4, <1>5, <1>6, <1>7 DEF Next

\* Before a purge the credential stays readable and its generation never goes
\* back; after one that ran to its end it is never written back.  Both hold
\* unless a live owner's lock is removed, and the second until a recovery
\* restores a backup it had read before.
THEOREM StoredForward == Spec => CommitsKept
<1>1. IInv /\ IInv' /\ [Next]_vars
        => [~stolen' /\ purge' = "none" => Readable'.gen >= Readable.gen]_vars
  BY ActiveForward DEF IInv, ActivePresent, Readable
<1>2. IInv' => (~stolen' /\ purge' = "erased" => Readable' = NoRecord)
  BY DEF IInv, ErasedStays
<1> QED
  BY <1>1, <1>2, Invariance, PTL DEF Spec, CommitsKept, GenerationKept, PurgeNotUndone

-----------------------------------------------------------------------------
(***************************************************************************)
(* Logins and imports: which credential an account holds, and that none is *)
(* left behind.  The argument is about one fact of the coordinator: until  *)
(* a login is cancelled there is one login at a time, and what waits for   *)
(* an outcome waits for its.                                               *)
(***************************************************************************)

\* What the instances of the module choose.
LoginParameters ==
  /\ MaxAttempts \in Nat
  /\ Codex \in Providers /\ NoProvider \notin Providers

UnderWay == {"listening", "open", "exchanging"}
NoneCancelled == \A n \in Attempts : ~attempt[n].cancelled

\* An attempt that was made is of a provider and a name, an account holds the
\* credential of such an attempt, a state that can be consumed is of an open
\* login, and what is cancelled or waited for was started.
AttemptsMade ==
  /\ \A n \in Attempts : attempt[n].stage # "none" =>
       attempt[n].provider \in Providers /\ attempt[n].name \in Names
  /\ \A row \in Providers \X Names :
       accounts[row].credential # None => attempt[accounts[row].credential].stage # "none"
  /\ \A n \in sessions : attempt[n].stage = "open"
  /\ \A n \in Attempts : attempt[n].cancelled \/ flow.settlers = n => attempt[n].stage # "none"

\* Until one is cancelled there is one login at a time, and the promise and the
\* provider that its outcome meets are its own.
OneLogin ==
  NoneCancelled =>
    /\ flow.failing = {}
    /\ \A n \in Attempts : attempt[n].stage \in UnderWay =>
         flow.busy /\ \A m \in Attempts : attempt[m].stage \in UnderWay => m = n
    /\ \A n \in Attempts : attempt[n].stage \in {"open", "exchanging"} =>
         flow.settlers = n /\ flow.pending = attempt[n].provider

\* A ready account holds a credential.
ReadyHolds ==
  \A row \in Providers \X Names : accounts[row].state = "ready" => accounts[row].credential # None

LoginInv ==
  /\ LoginTypeOK /\ AttemptsMade /\ OneLogin
  /\ ReadyHolds /\ ConnectedAsAsked /\ NoStrayCredential

\* The fields of a flow, an attempt and an account keep their types.
LEMMA LoginValues ==
  ASSUME LoginTypeOK
  PROVE  /\ flow \in Flow /\ flow.callback \in {None} \cup Attempts /\ flow.busy \in BOOLEAN
         /\ flow.settlers \in {None} \cup Attempts /\ flow.pending \in Providers \cup {NoProvider}
         /\ flow.finishing \in {None} \cup Attempts /\ flow.failing \subseteq Attempts \X Attempts
         /\ \A n \in Attempts : attempt[n] \in Attempt
         /\ \A row \in Providers \X Names : accounts[row] \in AccountRow
         /\ DOMAIN accounts = Providers \X Names
BY DEF LoginTypeOK, Flow

\* A row that comes to hold a credential of its own, and what it held before.
LEMMA AttachKeeps ==
  ASSUME LoginInv, LoginParameters, NEW n \in Attempts, NEW row \in Providers \X Names,
         Attach(n, row)
  PROVE  /\ accounts' \in [Providers \X Names -> AccountRow] /\ revoking' \subseteq Attempts
         /\ revoking \subseteq revoking'
         /\ accounts'[row] = [state |-> "ready", credential |-> n]
         /\ \A other \in Providers \X Names : other # row => accounts'[other] = accounts[other]
         /\ \A m \in Attempts : accounts[row].credential = m => m \in revoking'
<1>1. /\ accounts \in [Providers \X Names -> AccountRow] /\ revoking \subseteq Attempts
      /\ accounts[row].credential \in {None} \cup Attempts
  BY DEF LoginInv, LoginTypeOK, AccountRow
<1>2. [state |-> "ready", credential |-> n] \in AccountRow
  BY DEF AccountRow
<1>3. None \notin Attempts
  BY DEF None, Attempts, LoginParameters
<1> QED
  BY <1>1, <1>2, <1>3 DEF Attach

\* No step unmakes an attempt, or changes what it asked for, or undoes a
\* cancellation.
Onwards ==
  \A m \in Attempts :
    /\ attempt[m].stage # "none" =>
         /\ attempt'[m].stage # "none"
         /\ attempt'[m].provider = attempt[m].provider /\ attempt'[m].name = attempt[m].name
    /\ attempt[m].cancelled => attempt'[m].cancelled

\* Accounts that stay as they are hold what they were asked to.
LEMMA AccountsStay ==
  ASSUME LoginInv, LoginParameters, Onwards, accounts' = accounts
  PROVE  /\ ConnectedAsAsked' /\ ReadyHolds'
         /\ \A row \in Providers \X Names :
              accounts'[row].credential # None => attempt'[accounts'[row].credential].stage # "none"
<1>1. ASSUME NEW row \in Providers \X Names, accounts[row].credential # None
      PROVE  /\ attempt'[accounts[row].credential].stage # "none"
             /\ row = <<attempt'[accounts[row].credential].provider, attempt'[accounts[row].credential].name>>
  <2> DEFINE n == accounts[row].credential
  <2>1. n \in Attempts /\ attempt[n].stage # "none" /\ row = <<attempt[n].provider, attempt[n].name>>
    BY <1>1, LoginValues DEF LoginInv, AttemptsMade, ConnectedAsAsked, AccountRow
  <2> HIDE DEF n
  <2>2. attempt'[n].stage # "none" /\ attempt'[n].provider = attempt[n].provider /\ attempt'[n].name = attempt[n].name
    BY <2>1 DEF Onwards
  <2>3. QED  BY <2>1, <2>2 DEF n
<1>2. DOMAIN accounts = Providers \X Names
  BY LoginValues DEF LoginInv
<1> QED
  BY <1>1, <1>2 DEF LoginInv, ConnectedAsAsked, ReadyHolds

\* So does an account that comes to hold the credential that was asked for it.
LEMMA AccountAttached ==
  ASSUME LoginInv, LoginParameters, Onwards, NEW n \in Attempts, NEW row \in Providers \X Names,
         Attach(n, row), row = <<attempt'[n].provider, attempt'[n].name>>, attempt'[n].stage # "none"
  PROVE  /\ ConnectedAsAsked' /\ ReadyHolds'
         /\ \A other \in Providers \X Names :
              accounts'[other].credential # None => attempt'[accounts'[other].credential].stage # "none"
<1>1. ASSUME NEW other \in Providers \X Names, accounts'[other].credential # None
      PROVE  /\ attempt'[accounts'[other].credential].stage # "none"
             /\ other = <<attempt'[accounts'[other].credential].provider, attempt'[accounts'[other].credential].name>>
  <2>1. CASE other = row
    <3>1. accounts'[row] = [state |-> "ready", credential |-> n]
      BY AttachKeeps
    <3>2. accounts'[other].credential = n
      BY <2>1, <3>1
    <3>3. QED  BY <2>1, <3>2
  <2>2. CASE other # row
    <3> DEFINE m == accounts[other].credential
    <3>1. accounts'[other].credential = m
      BY <2>2, AttachKeeps
    <3>2. m \in Attempts /\ attempt[m].stage # "none" /\ other = <<attempt[m].provider, attempt[m].name>>
      BY <1>1, <3>1, LoginValues DEF LoginInv, AttemptsMade, ConnectedAsAsked, AccountRow
    <3> HIDE DEF m
    <3>3. attempt'[m].stage # "none" /\ attempt'[m].provider = attempt[m].provider /\ attempt'[m].name = attempt[m].name
      BY <3>2 DEF Onwards
    <3>4. QED  BY <3>1, <3>2, <3>3
  <2>3. QED  BY <2>1, <2>2
<1>2. DOMAIN accounts' = Providers \X Names
  BY AttachKeeps
<1>3. ReadyHolds'
  <2>1. n # None
    BY DEF LoginParameters, None, Attempts
  <2>2. accounts'[row] = [state |-> "ready", credential |-> n]
    BY AttachKeeps
  <2>3. \A other \in Providers \X Names : other # row => accounts'[other] = accounts[other]
    BY AttachKeeps
  <2>4. QED  BY <2>1, <2>2, <2>3 DEF LoginInv, ReadyHolds
<1> QED
  BY <1>1, <1>2, <1>3 DEF ConnectedAsAsked

\* Nothing new on disk leaves nothing behind.
LEMMA NothingStored ==
  ASSUME LoginInv, Onwards, up, accounts' = accounts, stored' \subseteq stored,
         stored' \cap revoking \subseteq revoking'
  PROVE  NoStrayCredential'
<1>1. NoneCancelled' => NoneCancelled
  BY DEF Onwards, NoneCancelled
<1> QED
  BY <1>1 DEF LoginInv, NoStrayCredential, NoneCancelled

\* Neither does a credential that its account comes to hold.
LEMMA StoredAttached ==
  ASSUME LoginInv, LoginParameters, Onwards, up, NEW n \in Attempts, NEW row \in Providers \X Names,
         Attach(n, row), stored' = stored \cup {n}
  PROVE  NoStrayCredential'
<1>1. NoneCancelled' => NoneCancelled
  BY DEF Onwards, NoneCancelled
<1>2. ASSUME NoneCancelled, NEW m \in stored' \ revoking'
      PROVE  \E other \in DOMAIN accounts' : accounts'[other] = [state |-> "ready", credential |-> m]
  <2>1. DOMAIN accounts' = Providers \X Names /\ DOMAIN accounts = Providers \X Names
    BY AttachKeeps, LoginValues DEF LoginInv
  <2>2. CASE m = n
    BY <2>1, <2>2, AttachKeeps
  <2>3. CASE m # n
    <3>1. m \in stored \ revoking
      BY <1>2, <2>3, AttachKeeps
    <3>2. PICK other \in Providers \X Names : accounts[other] = [state |-> "ready", credential |-> m]
      BY <1>2, <2>1, <3>1 DEF LoginInv, NoStrayCredential, NoneCancelled
    <3>3. m \in Attempts
      BY <3>1 DEF LoginInv, LoginTypeOK
    <3>4. other # row
      <4>1. m \notin revoking' /\ accounts[other].credential = m
        BY <1>2, <3>2
      <4>2. QED  BY <3>3, <4>1, AttachKeeps
    <3>5. accounts'[other] = [state |-> "ready", credential |-> m]
      BY <3>2, <3>4, AttachKeeps
    <3>6. QED  BY <2>1, <3>5
  <2>4. QED  BY <2>2, <2>3
<1> QED
  BY <1>1, <1>2 DEF NoStrayCredential, NoneCancelled

\* The parts of an attempt, and when steps are told apart by its stage.
LEMMA AttemptValues ==
  ASSUME LoginInv, NEW n \in Attempts
  PROVE  /\ attempt[n].stage \in UnderWay \cup {"none", "over"}
         /\ attempt[n].provider \in Providers \cup {NoProvider}
         /\ attempt[n].name \in Names \cup {NoProvider} /\ attempt[n].cancelled \in BOOLEAN
         /\ attempt \in [Attempts -> Attempt]
         /\ attempt[n].stage # "none" => attempt[n].provider \in Providers /\ attempt[n].name \in Names
BY LoginValues DEF LoginInv, LoginTypeOK, Attempt, UnderWay, AttemptsMade

\* A new login is the only one, unless one has been cancelled.
LEMMA StartLoginKeeps ==
  ASSUME LoginInv, LoginParameters, NEW n \in Attempts, NEW issuer \in Providers, NEW name \in Names,
         StartLogin(n, issuer, name)
  PROVE  LoginInv'
<1>1. /\ up /\ attempt[n].stage = "none" /\ ~flow.busy
      /\ attempt' = [attempt EXCEPT ![n] = Asked("listening", issuer, name)]
      /\ flow' = [flow EXCEPT !.busy = TRUE]
      /\ UNCHANGED <<up, awaited, sessions, stored, revoking, accounts>>
  BY DEF StartLogin, Fresh, disk
<1>2. attempt' \in [Attempts -> Attempt] /\ flow' \in Flow
  BY <1>1, AttemptValues, LoginValues DEF LoginInv, Asked, Attempt, Flow
<1>3. LoginTypeOK'
  BY <1>1, <1>2 DEF LoginInv, LoginTypeOK
<1>4. /\ attempt'[n] = Asked("listening", issuer, name)
      /\ \A m \in Attempts : m # n => attempt'[m] = attempt[m]
  BY <1>1, AttemptValues
<1>5. AttemptsMade'
  <2>1. n \notin sessions
    BY <1>1 DEF LoginInv, AttemptsMade
  <2>2. \A row \in Providers \X Names : accounts[row].credential # None => accounts[row].credential # n
    BY <1>1 DEF LoginInv, AttemptsMade
  <2>3. flow'.settlers = flow.settlers /\ Asked("listening", issuer, name).stage # "none"
        /\ ~Asked("listening", issuer, name).cancelled
    BY <1>1, LoginValues DEF LoginInv, Flow, Asked
  <2>4. \A row \in Providers \X Names : accounts[row].credential \in {None} \cup Attempts
    BY LoginValues DEF LoginInv, AccountRow
  <2>5. \A m \in sessions : m \in Attempts
    BY DEF LoginInv, LoginTypeOK
  <2>6. QED
    BY <1>1, <1>4, <2>1, <2>2, <2>3, <2>4, <2>5 DEF LoginInv, AttemptsMade, Asked
<1>6. Onwards
  BY <1>1, <1>4 DEF LoginInv, AttemptsMade, Onwards, Asked
<1>7. NoneCancelled' => NoneCancelled
  BY <1>6 DEF Onwards, NoneCancelled
<1>8. OneLogin'
  <2>1. NoneCancelled => \A m \in Attempts : attempt[m].stage \notin UnderWay
    BY <1>1 DEF LoginInv, OneLogin
  <2>2. flow'.failing = flow.failing /\ flow'.busy
    BY <1>1, LoginValues DEF LoginInv, Flow
  <2>3. QED
    BY <1>4, <1>7, <2>1, <2>2 DEF LoginInv, OneLogin, UnderWay, Asked
<1>9. ConnectedAsAsked' /\ ReadyHolds' /\ NoStrayCredential'
  BY <1>1, <1>6, AccountsStay, NothingStored
<1> QED
  BY <1>3, <1>5, <1>8, <1>9 DEF LoginInv

\* An attempt that ends, goes on or is cancelled is still the attempt it was.
LEMMA StagesMove ==
  ASSUME LoginInv, LoginParameters, Onwards, LoginTypeOK', accounts' = accounts,
         \A n \in sessions' : attempt'[n].stage = "open",
         \A n \in Attempts :
           /\ attempt[n].stage = "none" => attempt'[n] = attempt[n]
           /\ flow'.settlers = n => attempt'[n].stage # "none"
  PROVE  AttemptsMade'
<1>1. \A n \in Attempts : attempt[n].stage \in UnderWay \cup {"none", "over"}
  BY AttemptValues
<1>2. ASSUME NEW n \in Attempts, attempt'[n].stage # "none"
      PROVE  attempt'[n].provider \in Providers /\ attempt'[n].name \in Names
  BY <1>2 DEF LoginInv, AttemptsMade, Onwards
<1>3. ASSUME NEW n \in Attempts, attempt'[n].cancelled
      PROVE  attempt'[n].stage # "none"
  BY <1>3 DEF LoginInv, AttemptsMade, Onwards
<1> QED
  BY <1>2, <1>3, AccountsStay DEF AttemptsMade

\* The login that listens is the one under way.
LEMMA ListensKeeps ==
  ASSUME LoginInv, LoginParameters, NEW n \in Attempts, Listens(n)
  PROVE  LoginInv'
<1>1. /\ up /\ attempt[n].stage = "listening"
      /\ attempt' = [attempt EXCEPT ![n].stage = "open"] /\ sessions' = sessions \cup {n}
      /\ flow' = [flow EXCEPT !.callback = n, !.settlers = n,
                              !.pending = attempt[n].provider, !.finishing = n]
      /\ UNCHANGED <<up, awaited, stored, revoking, accounts>>
  BY DEF Listens, disk
<1>2. /\ attempt'[n] = [attempt[n] EXCEPT !.stage = "open"]
      /\ \A m \in Attempts : m # n => attempt'[m] = attempt[m]
      /\ attempt'[n].stage = "open" /\ attempt'[n].provider = attempt[n].provider
      /\ attempt'[n].name = attempt[n].name /\ attempt'[n].cancelled = attempt[n].cancelled
  BY <1>1, AttemptValues, LoginValues DEF LoginInv, Attempt
<1>3. /\ flow' \in Flow /\ flow'.settlers = n /\ flow'.pending = attempt[n].provider
      /\ flow'.failing = flow.failing /\ flow'.busy = flow.busy
  BY <1>1, AttemptValues, LoginValues DEF LoginInv, Flow
<1>4. LoginTypeOK'
  <2>1. attempt' \in [Attempts -> Attempt]
    BY <1>1, AttemptValues, LoginValues DEF LoginInv, Attempt
  <2>2. QED  BY <1>1, <1>3, <2>1 DEF LoginInv, LoginTypeOK
<1>5. Onwards
  BY <1>1, <1>2 DEF Onwards
<1>6. AttemptsMade'
  BY <1>1, <1>2, <1>3, <1>4, <1>5, StagesMove DEF LoginInv, AttemptsMade
<1>7. OneLogin'
  <2>1. NoneCancelled' => NoneCancelled
    BY <1>5 DEF Onwards, NoneCancelled
  <2>2. NoneCancelled => \A m \in Attempts : attempt[m].stage \in UnderWay => m = n
    BY <1>1 DEF LoginInv, OneLogin, UnderWay
  <2>3. NoneCancelled => flow.busy
    BY <1>1 DEF LoginInv, OneLogin, UnderWay
  <2>4. \A m \in Attempts : attempt'[m].stage \in UnderWay => attempt[m].stage \in UnderWay
    BY <1>1, <1>2 DEF UnderWay
  <2>5. QED
    BY <1>2, <1>3, <2>1, <2>2, <2>3, <2>4 DEF LoginInv, OneLogin, UnderWay
<1>8. ConnectedAsAsked' /\ ReadyHolds' /\ NoStrayCredential'
  BY <1>1, <1>5, AccountsStay, NothingStored
<1> QED
  BY <1>4, <1>6, <1>7, <1>8 DEF LoginInv

\* A login that ends leaves none under way, unless one has been cancelled.
LEMMA OneLoginEnds ==
  ASSUME LoginInv, LoginParameters, Onwards, NEW n \in Attempts, attempt[n].stage \in UnderWay,
         attempt'[n].stage = "over", \A m \in Attempts : m # n => attempt'[m].stage = attempt[m].stage,
         NoneCancelled => flow'.failing = {}
  PROVE  OneLogin'
<1>1. NoneCancelled' => NoneCancelled
  BY DEF Onwards, NoneCancelled
<1>2. NoneCancelled => \A m \in Attempts : attempt'[m].stage \notin UnderWay
  BY DEF LoginInv, OneLogin, UnderWay
<1> QED
  BY <1>1, <1>2 DEF OneLogin, UnderWay

\* Closing forgets the server, and a rejection the promise.
LEMMA ClosedValues ==
  ASSUME LoginTypeOK
  PROVE  /\ Closed(flow) \in Flow /\ [Closed(flow) EXCEPT !.settlers = None] \in Flow
         /\ Closed(flow).failing = flow.failing /\ Closed(flow).settlers = flow.settlers
         /\ [Closed(flow) EXCEPT !.settlers = None].failing = flow.failing
         /\ [Closed(flow) EXCEPT !.settlers = None].settlers = None
BY LoginValues DEF Closed, Flow

\* An attempt that becomes over, and nothing else of it.
LEMMA BecomesOver ==
  ASSUME LoginInv, NEW n \in Attempts, attempt[n].stage # "none",
         NEW stage \in {"exchanging", "over"}, attempt' = [attempt EXCEPT ![n].stage = stage]
  PROVE  /\ attempt' \in [Attempts -> Attempt] /\ Onwards /\ attempt'[n].stage = stage
         /\ attempt'[n].provider = attempt[n].provider /\ attempt'[n].name = attempt[n].name
         /\ \A m \in Attempts : m # n => attempt'[m] = attempt[m]
         /\ \A m \in Attempts : /\ attempt'[m].cancelled = attempt[m].cancelled
                                /\ attempt[m].stage = "none" => attempt'[m] = attempt[m]
                                /\ attempt[m].stage # "none" => attempt'[m].stage # "none"
<1>1. /\ attempt' \in [Attempts -> Attempt] /\ attempt'[n] = [attempt[n] EXCEPT !.stage = stage]
      /\ \A m \in Attempts : m # n => attempt'[m] = attempt[m]
  BY AttemptValues, LoginValues DEF LoginInv, Attempt
<1>2. /\ attempt'[n].stage = stage /\ attempt'[n].provider = attempt[n].provider
      /\ attempt'[n].name = attempt[n].name /\ attempt'[n].cancelled = attempt[n].cancelled
  BY <1>1, LoginValues DEF LoginInv, Attempt
<1> QED
  BY <1>1, <1>2 DEF Onwards

\* A login whose port is taken.
LEMMA CannotListenKeeps ==
  ASSUME LoginInv, LoginParameters, NEW n \in Attempts, CannotListen(n)
  PROVE  LoginInv'
<1>1. /\ up /\ attempt[n].stage = "listening" /\ attempt' = [attempt EXCEPT ![n].stage = "over"]
      /\ flow' = Closed(flow) /\ UNCHANGED <<up, awaited, sessions, stored, revoking, accounts>>
  BY DEF CannotListen, disk
<1>2. /\ attempt' \in [Attempts -> Attempt] /\ Onwards /\ attempt'[n].stage = "over"
      /\ \A m \in Attempts : m # n => attempt'[m] = attempt[m]
      /\ \A m \in Attempts : /\ attempt[m].stage = "none" => attempt'[m] = attempt[m]
                             /\ attempt[m].stage # "none" => attempt'[m].stage # "none"
  BY <1>1, BecomesOver
<1>3. LoginTypeOK'
  BY <1>1, <1>2, ClosedValues DEF LoginInv, LoginTypeOK
<1>4. AttemptsMade'
  <2>1. n \notin sessions
    BY <1>1 DEF LoginInv, AttemptsMade
  <2>2. \A m \in sessions : m \in Attempts /\ m # n
    BY <2>1 DEF LoginInv, LoginTypeOK
  <2>3. QED
    BY <1>1, <1>2, <1>3, <2>2, StagesMove, ClosedValues DEF LoginInv, AttemptsMade
<1>5. OneLogin'
  <2>1. flow'.failing = flow.failing /\ (NoneCancelled => flow.failing = {})
    BY <1>1, ClosedValues DEF LoginInv, OneLogin
  <2>2. QED  BY <1>1, <1>2, <2>1, OneLoginEnds DEF UnderWay
<1>6. ConnectedAsAsked' /\ ReadyHolds' /\ NoStrayCredential'
  BY <1>1, <1>2, AccountsStay, NothingStored
<1> QED
  BY <1>3, <1>4, <1>5, <1>6 DEF LoginInv

\* A login that fails, before or during its exchange.
LEMMA LoginFailsKeeps ==
  ASSUME LoginInv, LoginParameters, NEW n \in Attempts, LoginFails(n)
  PROVE  LoginInv'
<1>1. /\ up /\ attempt' = [attempt EXCEPT ![n].stage = "over"] /\ up' \in BOOLEAN
      /\ flow' = [Closed(flow) EXCEPT !.settlers = None]
      /\ UNCHANGED <<awaited, stored, revoking, accounts>>
      /\ (attempt[n].stage = "exchanging" /\ sessions' = sessions) \/ (n \in sessions /\ sessions' = sessions \ {n})
  BY DEF LoginFails, Fails, Throws, disk
<1>2. attempt[n].stage \in {"open", "exchanging"}
  BY <1>1 DEF LoginInv, AttemptsMade
<1>3. /\ attempt' \in [Attempts -> Attempt] /\ Onwards /\ attempt'[n].stage = "over"
      /\ \A m \in Attempts : m # n => attempt'[m] = attempt[m]
      /\ \A m \in Attempts : /\ attempt[m].stage = "none" => attempt'[m] = attempt[m]
                             /\ attempt[m].stage # "none" => attempt'[m].stage # "none"
  BY <1>1, <1>2, BecomesOver
<1>4. LoginTypeOK'
  BY <1>1, <1>3, ClosedValues DEF LoginInv, LoginTypeOK
<1>5. AttemptsMade'
  <2>1. \A m \in sessions' : m \in sessions /\ m \in Attempts /\ m # n
    BY <1>1 DEF LoginInv, LoginTypeOK, AttemptsMade
  <2>2. flow'.settlers = None /\ None \notin Attempts
    BY <1>1, ClosedValues DEF LoginInv, LoginParameters, None, Attempts
  <2>3. QED
    BY <1>1, <1>3, <1>4, <2>1, <2>2, StagesMove DEF LoginInv, AttemptsMade
<1>6. OneLogin'
  <2>1. flow'.failing = flow.failing /\ (NoneCancelled => flow.failing = {})
    BY <1>1, ClosedValues DEF LoginInv, OneLogin
  <2>2. QED  BY <1>2, <1>3, <2>1, OneLoginEnds DEF UnderWay
<1>7. ConnectedAsAsked' /\ ReadyHolds' /\ NoStrayCredential'
  BY <1>1, <1>3, AccountsStay, NothingStored
<1> QED
  BY <1>4, <1>5, <1>6, <1>7 DEF LoginInv

\* The browser comes back to the login under way.
LEMMA CallbackKeeps ==
  ASSUME LoginInv, LoginParameters, NEW n \in Attempts, Callback(n)
  PROVE  LoginInv'
<1>1. /\ up /\ n \in sessions /\ sessions' = sessions \ {n}
      /\ attempt' = [attempt EXCEPT ![n].stage = "exchanging"]
      /\ UNCHANGED <<up, awaited, flow, stored, revoking, accounts>>
  BY DEF Callback, disk
<1>2. attempt[n].stage = "open"
  BY <1>1 DEF LoginInv, AttemptsMade
<1>3. /\ attempt' \in [Attempts -> Attempt] /\ Onwards /\ attempt'[n].stage = "exchanging"
      /\ attempt'[n].provider = attempt[n].provider
      /\ \A m \in Attempts : m # n => attempt'[m] = attempt[m]
      /\ \A m \in Attempts : /\ attempt[m].stage = "none" => attempt'[m] = attempt[m]
                             /\ attempt[m].stage # "none" => attempt'[m].stage # "none"
  BY <1>1, <1>2, BecomesOver
<1>4. LoginTypeOK'
  BY <1>1, <1>3 DEF LoginInv, LoginTypeOK
<1>5. AttemptsMade'
  <2>1. \A m \in sessions' : m \in sessions /\ m \in Attempts /\ m # n
    BY <1>1 DEF LoginInv, LoginTypeOK
  <2>2. QED
    BY <1>1, <1>3, <1>4, <2>1, StagesMove DEF LoginInv, AttemptsMade
<1>6. OneLogin'
  <2>1. NoneCancelled' => NoneCancelled
    BY <1>3 DEF Onwards, NoneCancelled
  <2>2. \A m \in Attempts : attempt'[m].stage \in UnderWay => attempt[m].stage \in UnderWay
    BY <1>2, <1>3 DEF UnderWay
  <2>3. \A m \in Attempts : attempt'[m].stage \in {"open", "exchanging"} =>
          attempt[m].stage \in {"open", "exchanging"} /\ attempt'[m].provider = attempt[m].provider
    BY <1>2, <1>3
  <2>4. QED
    BY <1>1, <2>1, <2>2, <2>3 DEF LoginInv, OneLogin
<1>7. ConnectedAsAsked' /\ ReadyHolds' /\ NoStrayCredential'
  BY <1>1, <1>3, AccountsStay, NothingStored
<1> QED
  BY <1>4, <1>5, <1>6, <1>7 DEF LoginInv

\* A cancellation marks every login there is to cancel, or there is none.
LEMMA CancelLoginKeeps ==
  ASSUME LoginInv, LoginParameters, NEW n \in Attempts, CancelLogin(n)
  PROVE  LoginInv'
<1> DEFINE base == [flow EXCEPT !.pending = NoProvider, !.finishing = None]
           cancelled(m) == \/ attempt[m].cancelled \/ m = flow.settlers \/ attempt[m].stage = "listening"
                           \/ (m = n /\ attempt[n].stage # "over")
           stage(m) == IF m = n /\ attempt[m].stage = "open" THEN "over" ELSE attempt[m].stage
<1>1. /\ up /\ attempt[n].stage \in {"open", "exchanging", "over"} /\ sessions' = sessions \ {n}
      /\ attempt' = [m \in Attempts |-> [attempt[m] EXCEPT !.cancelled = cancelled(m), !.stage = stage(m)]]
      /\ flow' = [Closed(base) EXCEPT !.settlers = None] /\ up' \in BOOLEAN
      /\ UNCHANGED <<awaited, stored, revoking, accounts>>
  <2>1. attempt' = [m \in Attempts |-> [attempt[m] EXCEPT !.cancelled = cancelled(m), !.stage = stage(m)]]
    BY Zenon DEF CancelLogin
  <2>2. /\ up /\ attempt[n].stage \in {"open", "exchanging", "over"} /\ sessions' = sessions \ {n}
        /\ Fails(Closed(base)) /\ UNCHANGED <<awaited, stored, revoking, accounts>>
    BY DEF CancelLogin, disk
  <2>3. flow' = [Closed(base) EXCEPT !.settlers = None] /\ up' \in BOOLEAN
    BY <2>2 DEF Fails, Throws
  <2>4. QED  BY <2>1, <2>2, <2>3
<1>2. flow' \in Flow /\ flow'.settlers = None /\ flow'.failing = flow.failing
  BY <1>1, LoginValues DEF LoginInv, Flow, Closed
<1>3. ASSUME NEW m \in Attempts
      PROVE  /\ attempt'[m] \in Attempt /\ attempt'[m].stage = stage(m)
             /\ attempt'[m].cancelled = cancelled(m)
             /\ attempt'[m].provider = attempt[m].provider /\ attempt'[m].name = attempt[m].name
  <2>1. stage(m) \in UnderWay \cup {"none", "over"} /\ cancelled(m) \in BOOLEAN
    BY AttemptValues
  <2>2. attempt'[m] = [attempt[m] EXCEPT !.cancelled = cancelled(m), !.stage = stage(m)]
    BY <1>1
  <2> HIDE DEF cancelled, stage
  <2>3. QED  BY <2>1, <2>2, LoginValues DEF LoginInv, Attempt, UnderWay
<1>4. LoginTypeOK'
  <2>1. attempt' \in [Attempts -> Attempt]
    <3>1. attempt' = [m \in Attempts |-> attempt'[m]]
      BY <1>1
    <3>2. QED  BY <1>3, <3>1
  <2>2. QED  BY <1>1, <1>2, <2>1 DEF LoginInv, LoginTypeOK
<1>5. Onwards
  BY <1>3 DEF Onwards
<1>6. AttemptsMade'
  <2>1. None \notin Attempts
    BY DEF LoginParameters, None, Attempts
  <2>2. \A m \in sessions' : attempt'[m].stage = "open"
    <3>1. \A m \in sessions' : m \in Attempts /\ m # n /\ attempt[m].stage = "open"
      BY <1>1 DEF LoginInv, LoginTypeOK, AttemptsMade
    <3>2. QED  BY <1>3, <3>1
  <2>3. ASSUME NEW m \in Attempts, attempt'[m].stage = "none" \/ attempt[m].stage = "none"
        PROVE  ~attempt'[m].cancelled /\ attempt'[m].stage = "none"
    <3>1. attempt[m].stage = "none"
      BY <1>3, <2>3
    <3>2. ~attempt[m].cancelled /\ m # flow.settlers /\ m # n
      BY <1>1, <3>1 DEF LoginInv, AttemptsMade
    <3>3. QED  BY <1>3, <3>1, <3>2
  <2>4. \A m \in Attempts : attempt'[m].stage # "none" =>
          attempt'[m].provider \in Providers /\ attempt'[m].name \in Names
    BY <1>3, AttemptValues
  <2>5. \A row \in Providers \X Names :
          accounts'[row].credential # None => attempt'[accounts'[row].credential].stage # "none"
    BY <1>1, <1>5, AccountsStay
  <2>6. \A m \in Attempts : attempt'[m].cancelled \/ flow'.settlers = m => attempt'[m].stage # "none"
    BY <1>2, <2>1, <2>3
  <2>7. QED  BY <2>2, <2>4, <2>5, <2>6 DEF AttemptsMade
<1>7. OneLogin'
  <2>1. NoneCancelled' => NoneCancelled
    BY <1>5 DEF Onwards, NoneCancelled
  <2>2. ASSUME NoneCancelled', NEW m \in Attempts
        PROVE  attempt'[m].stage \notin UnderWay
    <3>1. ~cancelled(m)
      BY <1>3, <2>2 DEF NoneCancelled
    <3>2. attempt[m].stage \in UnderWay => attempt[m].stage \in {"open", "exchanging"}
      BY <3>1 DEF UnderWay
    <3>3. attempt[m].stage \notin UnderWay
      BY <2>1, <2>2, <3>1, <3>2 DEF LoginInv, OneLogin
    <3>4. QED  BY <1>3, <3>3 DEF UnderWay
  <2>3. NoneCancelled => flow.failing = {}
    BY DEF LoginInv, OneLogin
  <2>4. QED
    BY <1>2, <2>1, <2>2, <2>3 DEF OneLogin, UnderWay
<1>8. ConnectedAsAsked' /\ ReadyHolds' /\ NoStrayCredential'
  BY <1>1, <1>5, AccountsStay, NothingStored
<1> QED
  BY <1>4, <1>6, <1>7, <1>8 DEF LoginInv

\* The outcome of a login meets the promise under way: nobody's, one that
\* attaches it, or one that gives it back.
LEMMA LoginSucceedsKeeps ==
  ASSUME LoginInv, LoginParameters, NEW n \in Attempts, LoginSucceeds(n)
  PROVE  LoginInv'
<1> DEFINE k == flow.settlers
           after == [Closed(flow) EXCEPT !.settlers = None]
<1>1. /\ up /\ attempt[n].stage = "exchanging"
      /\ attempt' = [attempt EXCEPT ![n].stage = "over"]
      /\ stored' = stored \cup {n} /\ UNCHANGED <<awaited, sessions>>
  BY DEF LoginSucceeds
<1>2. \/ /\ k = None \/ flow.pending = NoProvider
         /\ up' \in BOOLEAN /\ flow' = after /\ UNCHANGED <<revoking, accounts>>
      \/ /\ k # None /\ flow.pending = attempt[n].provider
         /\ Attach(n, <<flow.pending, attempt[n].name>>)
         /\ flow' = [after EXCEPT !.pending = NoProvider] /\ up' = up
      \/ /\ k # None /\ flow.pending \notin {NoProvider, attempt[n].provider} /\ Rejects(n)
         /\ flow' = [after EXCEPT !.failing = @ \cup {<<n, k>>}] /\ up' = up
  <2>1. Throws(k) => up' \in BOOLEAN
    BY DEF Throws
  <2> HIDE DEF k, after
  <2>2. \/ /\ k = None \/ flow.pending = NoProvider
           /\ Throws(k) /\ flow' = after /\ UNCHANGED <<revoking, accounts>>
        \/ /\ k # None /\ flow.pending = attempt[n].provider
           /\ Attach(n, <<flow.pending, attempt[n].name>>)
           /\ flow' = [after EXCEPT !.pending = NoProvider] /\ up' = up
        \/ /\ k # None /\ flow.pending \notin {NoProvider, attempt[n].provider} /\ Rejects(n)
           /\ flow' = [after EXCEPT !.failing = @ \cup {<<n, k>>}] /\ up' = up
    BY Zenon DEF LoginSucceeds, k, after
  <2>3. QED  BY <2>1, <2>2
<1>3. /\ attempt' \in [Attempts -> Attempt] /\ Onwards /\ attempt'[n].stage = "over"
      /\ attempt'[n].provider = attempt[n].provider /\ attempt'[n].name = attempt[n].name
      /\ \A m \in Attempts : m # n => attempt'[m] = attempt[m]
      /\ \A m \in Attempts : /\ attempt'[m].cancelled = attempt[m].cancelled
                             /\ attempt[m].stage = "none" => attempt'[m] = attempt[m]
                             /\ attempt[m].stage # "none" => attempt'[m].stage # "none"
  BY <1>1, BecomesOver
<1>4. /\ after \in Flow /\ after.settlers = None /\ after.failing = flow.failing
      /\ k \in {None} \cup Attempts /\ None \notin Attempts
  BY ClosedValues, LoginValues DEF LoginInv, LoginParameters, None, Attempts
<1>5. /\ attempt[n].provider \in Providers /\ attempt[n].name \in Names
      /\ <<attempt[n].provider, attempt[n].name>> \in Providers \X Names
  BY <1>1, AttemptValues
<1>6. NoneCancelled => /\ k = n /\ flow.pending = attempt[n].provider /\ flow.failing = {}
                       /\ flow.pending # NoProvider /\ k # None
  BY <1>1, <1>4, <1>5 DEF LoginInv, OneLogin, LoginParameters
<1> HIDE DEF after
<1>7. /\ flow' \in Flow /\ flow'.settlers = None
      /\ ~(k # None /\ flow.pending \notin {NoProvider, attempt[n].provider}) => flow'.failing = flow.failing
  <2>1. ASSUME k \in Attempts
        PROVE  [after EXCEPT !.failing = @ \cup {<<n, k>>}] \in Flow
    BY <1>4, <2>1 DEF Flow
  <2>2. [after EXCEPT !.pending = NoProvider] \in Flow
    BY <1>4 DEF Flow
  <2>3. after = [after EXCEPT !.pending = after.pending]
    BY <1>4 DEF Flow
  <2>4. QED
    BY <1>2, <1>4, <2>1, <2>2 DEF Flow
<1> HIDE DEF k
<1>8. ASSUME Attach(n, <<flow.pending, attempt[n].name>>), flow.pending = attempt[n].provider
      PROVE  /\ accounts' \in [Providers \X Names -> AccountRow] /\ revoking' \subseteq Attempts
             /\ ConnectedAsAsked' /\ ReadyHolds' /\ NoStrayCredential'
             /\ \A row \in Providers \X Names :
                  accounts'[row].credential # None => attempt'[accounts'[row].credential].stage # "none"
  <2>1. Attach(n, <<attempt[n].provider, attempt[n].name>>)
    BY <1>8
  <2>2. QED
    BY <1>1, <1>3, <1>5, <2>1, AttachKeeps, AccountAttached, StoredAttached
<1>9. ASSUME UNCHANGED accounts, up' \in BOOLEAN, revoking' = revoking \/ Rejects(n),
             ~(k # None /\ flow.pending = attempt[n].provider)
      PROVE  /\ accounts' \in [Providers \X Names -> AccountRow] /\ revoking' \subseteq Attempts
             /\ ConnectedAsAsked' /\ ReadyHolds' /\ NoStrayCredential'
             /\ \A row \in Providers \X Names :
                  accounts'[row].credential # None => attempt'[accounts'[row].credential].stage # "none"
  <2>1. ~NoneCancelled'
    BY <1>3, <1>6, <1>9 DEF NoneCancelled
  <2>2. NoStrayCredential'
    BY <2>1 DEF NoStrayCredential, NoneCancelled
  <2>3. QED
    BY <1>3, <1>9, <2>2, AccountsStay DEF LoginInv, LoginTypeOK, Rejects
<1>10. /\ accounts' \in [Providers \X Names -> AccountRow] /\ revoking' \subseteq Attempts /\ up' \in BOOLEAN
       /\ ConnectedAsAsked' /\ ReadyHolds' /\ NoStrayCredential'
       /\ \A row \in Providers \X Names :
            accounts'[row].credential # None => attempt'[accounts'[row].credential].stage # "none"
  <2>1. up \in BOOLEAN
    BY DEF LoginInv, LoginTypeOK
  <2>2. flow.pending = NoProvider => flow.pending # attempt[n].provider
    BY <1>5 DEF LoginParameters
  <2>3. QED
    BY <1>2, <1>8, <1>9, <2>1, <2>2 DEF Rejects
<1>11. LoginTypeOK'
  BY <1>1, <1>3, <1>7, <1>10 DEF LoginInv, LoginTypeOK
<1>12. AttemptsMade'
  <2>1. \A m \in sessions : m \in Attempts /\ m # n /\ attempt'[m].stage = "open"
    BY <1>1, <1>3 DEF LoginInv, LoginTypeOK, AttemptsMade
  <2>2. \A m \in Attempts : attempt'[m].stage # "none" =>
          attempt'[m].provider \in Providers /\ attempt'[m].name \in Names
    BY <1>3, <1>5, AttemptValues
  <2>3. \A m \in Attempts : attempt'[m].cancelled => attempt'[m].stage # "none"
    BY <1>3 DEF LoginInv, AttemptsMade
  <2>4. QED
    BY <1>1, <1>4, <1>7, <1>10, <2>1, <2>2, <2>3 DEF AttemptsMade
<1>13. OneLogin'
  <2>1. NoneCancelled => flow'.failing = {}
    BY <1>6, <1>7
  <2>2. QED  BY <1>1, <1>3, <2>1, OneLoginEnds DEF UnderWay
<1> QED
  BY <1>10, <1>11, <1>12, <1>13 DEF LoginInv

\* An import attaches what it stored, or gives it back.
LEMMA ImportKeeps ==
  ASSUME LoginInv, LoginParameters, NEW n \in Attempts, NEW issuer \in Providers, NEW name \in Names,
         Import(n, issuer, name)
  PROVE  LoginInv'
<1> DEFINE asked == Asked("over", Codex, name)
<1>1. /\ up /\ attempt[n].stage = "none" /\ attempt' = [attempt EXCEPT ![n] = asked]
      /\ stored' = stored \cup {n} /\ UNCHANGED <<up, awaited, sessions, flow>>
      /\ IF issuer = Codex THEN Attach(n, <<issuer, name>>) ELSE Rejects(n)
  BY DEF Import, Fresh
<1>2. /\ asked \in Attempt /\ asked.stage = "over" /\ asked.provider = Codex /\ asked.name = name
      /\ ~asked.cancelled
  BY DEF Asked, Attempt, LoginParameters
<1> HIDE DEF asked
<1>3. /\ attempt' \in [Attempts -> Attempt] /\ attempt'[n] = asked
      /\ \A m \in Attempts : m # n => attempt'[m] = attempt[m]
  BY <1>1, <1>2, AttemptValues
<1>4. Onwards
  BY <1>1, <1>3 DEF LoginInv, AttemptsMade, Onwards
<1>5. /\ accounts' \in [Providers \X Names -> AccountRow] /\ revoking' \subseteq Attempts
      /\ ConnectedAsAsked' /\ ReadyHolds' /\ NoStrayCredential'
      /\ \A row \in Providers \X Names :
           accounts'[row].credential # None => attempt'[accounts'[row].credential].stage # "none"
  <2>1. CASE issuer = Codex
    <3>1. Attach(n, <<Codex, name>>) /\ <<Codex, name>> \in Providers \X Names
      BY <1>1, <2>1 DEF LoginParameters
    <3>2. QED
      BY <1>1, <1>2, <1>3, <1>4, <3>1, AttachKeeps, AccountAttached, StoredAttached
  <2>2. CASE issuer # Codex
    <3>1. accounts' = accounts /\ revoking' = revoking \cup {n}
      BY <1>1, <2>2 DEF Rejects
    <3>2. (NoneCancelled' => NoneCancelled) /\ \A m \in stored' \ revoking' : m \in stored \ revoking
      BY <1>1, <1>4, <3>1 DEF Onwards, NoneCancelled
    <3>3. NoStrayCredential'
      BY <1>1, <3>1, <3>2 DEF LoginInv, NoStrayCredential, NoneCancelled
    <3>4. QED
      BY <1>4, <3>1, <3>3, AccountsStay DEF LoginInv, LoginTypeOK
  <2>3. QED  BY <2>1, <2>2
<1>6. LoginTypeOK'
  BY <1>1, <1>3, <1>5 DEF LoginInv, LoginTypeOK
<1>7. AttemptsMade'
  <2>1. \A m \in sessions : m \in Attempts /\ m # n /\ attempt'[m].stage = "open"
    BY <1>1, <1>3 DEF LoginInv, LoginTypeOK, AttemptsMade
  <2>2. \A m \in Attempts : attempt'[m].stage # "none" =>
          attempt'[m].provider \in Providers /\ attempt'[m].name \in Names
    BY <1>2, <1>3, AttemptValues DEF LoginParameters
  <2>3. \A m \in Attempts : attempt'[m].cancelled \/ flow'.settlers = m => attempt'[m].stage # "none"
    BY <1>1, <1>2, <1>3 DEF LoginInv, AttemptsMade
  <2>4. QED
    BY <1>1, <1>5, <2>1, <2>2, <2>3 DEF AttemptsMade
<1>8. OneLogin'
  <2>1. NoneCancelled' => NoneCancelled
    BY <1>4 DEF Onwards, NoneCancelled
  <2>2. \A m \in Attempts : attempt'[m].stage \in UnderWay => m # n /\ attempt'[m] = attempt[m]
    BY <1>2, <1>3 DEF UnderWay
  <2>3. QED
    BY <1>1, <2>1, <2>2 DEF LoginInv, OneLogin, UnderWay
<1> QED
  BY <1>5, <1>6, <1>7, <1>8 DEF LoginInv

\* An account that is revoked, and its credential with it.
LEMMA RevokeAccountKeeps ==
  ASSUME LoginInv, LoginParameters, NEW row \in Providers \X Names, RevokeAccount(row)
  PROVE  LoginInv'
<1>1. /\ up /\ accounts[row].state = "ready" /\ accounts' = [accounts EXCEPT ![row].state = "revoked"]
      /\ revoking' = revoking \cup {accounts[row].credential}
      /\ UNCHANGED <<up, attempt, awaited, sessions, flow, stored>>
  BY DEF RevokeAccount
<1>2. /\ accounts' \in [Providers \X Names -> AccountRow]
      /\ \A other \in Providers \X Names : accounts'[other].credential = accounts[other].credential
      /\ \A other \in Providers \X Names : other # row => accounts'[other] = accounts[other]
      /\ DOMAIN accounts' = Providers \X Names /\ DOMAIN accounts = Providers \X Names
  BY <1>1, LoginValues DEF LoginInv, LoginTypeOK, AccountRow
<1>3. accounts[row].credential \in Attempts
  BY <1>1, LoginValues DEF LoginInv, ReadyHolds, AccountRow
<1>4. LoginTypeOK'
  BY <1>1, <1>2, <1>3 DEF LoginInv, LoginTypeOK
<1>5. AttemptsMade' /\ OneLogin' /\ ConnectedAsAsked'
  BY <1>1, <1>2 DEF LoginInv, AttemptsMade, OneLogin, NoneCancelled, ConnectedAsAsked
<1>6. ReadyHolds'
  <2>1. accounts[row].credential # None
    BY <1>1 DEF LoginInv, ReadyHolds
  <2>2. QED  BY <1>2, <2>1 DEF LoginInv, ReadyHolds
<1>7. NoStrayCredential'
  <2>1. ASSUME NoneCancelled, NEW m \in stored' \ revoking'
        PROVE  \E other \in DOMAIN accounts' : accounts'[other] = [state |-> "ready", credential |-> m]
    <3>1. m \in stored \ revoking /\ m # accounts[row].credential
      BY <1>1, <2>1
    <3>2. PICK other \in Providers \X Names : accounts[other] = [state |-> "ready", credential |-> m]
      BY <1>1, <1>2, <2>1, <3>1 DEF LoginInv, NoStrayCredential, NoneCancelled
    <3>3. other # row
      BY <3>1, <3>2
    <3>4. QED  BY <1>2, <3>2, <3>3
  <2>2. QED  BY <1>1, <2>1 DEF NoStrayCredential, NoneCancelled
<1> QED
  BY <1>4, <1>5, <1>6, <1>7 DEF LoginInv

\* A credential that is gone, and the login it is the outcome of.
LEMMA PurgeKeeps ==
  ASSUME LoginInv, LoginParameters, NEW n \in Attempts, Purge(n)
  PROVE  LoginInv'
<1> DEFINE failed == {pair \in flow.failing : pair[1] = n}
<1>1. /\ up /\ stored' = stored \ {n} /\ revoking' = revoking \ {n}
      /\ flow' = [flow EXCEPT !.failing = @ \ failed,
                              !.pending = IF failed = {} THEN @ ELSE NoProvider]
      /\ UNCHANGED <<attempt, awaited, sessions, accounts>>
  BY Zenon DEF Purge
<1>2. up' \in BOOLEAN
  BY DEF Purge
<1>3. /\ flow' \in Flow /\ flow'.failing \subseteq flow.failing /\ flow'.settlers = flow.settlers
      /\ flow'.busy = flow.busy /\ (failed = {} => flow'.pending = flow.pending)
  BY <1>1, LoginValues DEF LoginInv, Flow
<1>4. Onwards
  BY <1>1 DEF Onwards
<1>5. LoginTypeOK'
  BY <1>1, <1>2, <1>3 DEF LoginInv, LoginTypeOK
<1>6. AttemptsMade'
  BY <1>1, <1>3 DEF LoginInv, AttemptsMade
<1>7. OneLogin'
  <2>1. NoneCancelled => failed = {}
    BY DEF LoginInv, OneLogin
  <2>2. QED  BY <1>1, <1>3, <2>1 DEF LoginInv, OneLogin, NoneCancelled
<1>8. ConnectedAsAsked' /\ ReadyHolds' /\ NoStrayCredential'
  <2>1. stored' \subseteq stored /\ stored' \cap revoking \subseteq revoking'
    BY <1>1
  <2>2. QED  BY <1>1, <1>4, <2>1, AccountsStay, NothingStored
<1> QED
  BY <1>5, <1>6, <1>7, <1>8 DEF LoginInv

\* A request that waits for the login under way.
LEMMA CompleteLoginKeeps ==
  ASSUME LoginInv, LoginParameters, CompleteLogin
  PROVE  LoginInv'
<1>1. /\ awaited' = awaited \cup {flow.finishing} /\ flow.finishing \in Attempts
      /\ UNCHANGED <<up, attempt, sessions, flow, stored, revoking, accounts>>
  BY LoginValues DEF LoginInv, CompleteLogin, disk
<1>2. LoginTypeOK'
  BY <1>1 DEF LoginInv, LoginTypeOK
<1>3. AttemptsMade' /\ OneLogin' /\ ReadyHolds'
  BY <1>1 DEF LoginInv, AttemptsMade, OneLogin, NoneCancelled, ReadyHolds
<1>4. ConnectedAsAsked' /\ NoStrayCredential'
  BY <1>1 DEF LoginInv, ConnectedAsAsked, NoStrayCredential
<1> QED
  BY <1>2, <1>3, <1>4 DEF LoginInv

\* It holds at first and always.
LEMMA LoginInvariance == LoginParameters => (LoginSpec => []LoginInv)
<1> SUFFICES ASSUME LoginParameters PROVE LoginSpec => []LoginInv
  OBVIOUS
<1>1. LoginInit => LoginInv
  <2> SUFFICES ASSUME LoginInit PROVE LoginInv
    OBVIOUS
  <2> USE DEF LoginInit
  <2>1. LoginTypeOK
    BY DEF LoginTypeOK, Attempt, Unused, Flow, AccountRow
  <2>2. AttemptsMade
    <3>1. None \notin Attempts
      BY DEF LoginParameters, None, Attempts
    <3>2. QED  BY <3>1 DEF AttemptsMade, Unused
  <2>3. OneLogin /\ ReadyHolds /\ ConnectedAsAsked /\ NoStrayCredential
    BY DEF OneLogin, ReadyHolds, ConnectedAsAsked, NoStrayCredential, Unused, UnderWay
  <2>4. QED  BY <2>1, <2>2, <2>3 DEF LoginInv
<1>2. LoginInv /\ [LoginNext]_loginVars => LoginInv'
  <2> SUFFICES ASSUME LoginInv, [LoginNext]_loginVars PROVE LoginInv'
    OBVIOUS
  <2>1. CASE UNCHANGED loginVars
    BY <2>1 DEF loginVars, LoginInv, LoginTypeOK, AttemptsMade, OneLogin, NoneCancelled, ReadyHolds,
                ConnectedAsAsked, NoStrayCredential
  <2>2. CASE LoginNext
    BY <2>2, StartLoginKeeps, ImportKeeps, ListensKeeps, CannotListenKeeps, CancelLoginKeeps,
       CallbackKeeps, LoginFailsKeeps, LoginSucceedsKeeps, PurgeKeeps, CompleteLoginKeeps,
       RevokeAccountKeeps DEF LoginNext
  <2>3. QED  BY <2>1, <2>2
<1> QED
  BY <1>1, <1>2, PTL DEF LoginSpec

\* An account only ever holds a credential of its provider that was asked for
\* under its name, whatever is cancelled, fails or races; and until a login is
\* cancelled no credential is left on disk that no account holds.
THEOREM LoginConnects ==
  LoginParameters => (LoginSpec => [](ConnectedAsAsked /\ NoStrayCredential))
<1>1. LoginInv => ConnectedAsAsked /\ NoStrayCredential
  BY DEF LoginInv
<1> QED
  BY <1>1, LoginInvariance, PTL

\* The coordinator, the attempts, the credentials and the accounts keep their types.
THEOREM LoginTypeCorrect == LoginParameters => (LoginSpec => []LoginTypeOK)
<1>1. LoginInv => LoginTypeOK
  BY DEF LoginInv
<1> QED
  BY <1>1, LoginInvariance, PTL
=============================================================================
