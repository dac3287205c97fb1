----------------------- MODULE GatewayOwnership_proofs -----------------------
(***************************************************************************)
(* Theorems about the ownership of the gateway port, for any number of     *)
(* launchers and resident services and any number of crashes.              *)
(***************************************************************************)
EXTENDS GatewayOwnership, TLAPS

\* Which steps a process takes without ever having listened, and how a gateway
\* stands at the others.
NotStarted == {"new", "resident", "lock", "reclaim", "unlink", "write-lock", "inspect",
               "lease", "lease-store", "clean", "clean-record", "listen"}

GatewayAtStep ==
  \A p \in Procs :
    /\ pc[p] \in NotStarted => gw[p] = "none"
    /\ pc[p] \in {"abandon", "done", "dead"} => gw[p] \in {"none", "closed"}
    /\ pc[p] = "hosting" => gw[p] \notin {"none", "closed"}
    /\ pc[p] \in {"secret", "publish"} => gw[p] # "none"

\* What a process has read and goes by: a full lock of a process that is gone,
\* an instance that was published.
SawAtStep ==
  \A p \in Procs :
    /\ pc[p] \in {"reclaim", "unlink"} => saw[p].owner \in Procs
    /\ pc[p] = "reclaim" /\ saw[p].full => Gone(saw[p].owner)
    /\ pc[p] = "unlink" => saw[p].full /\ Gone(saw[p].owner)
    /\ pc[p] \in {"lease", "lease-store"} => saw[p].owner \in Procs

\* A gateway that has not closed its server has the port.
OpenListens ==
  \A p \in Procs : gw[p] \in {"open", "lock", "write-lock", "close"} => port = p

\* The lock file names the process in the critical section, which is there
\* either to acquire a gateway or to shut one down.
HolderNamed ==
  ~stolen => \A p \in Procs :
    /\ InCriticalSection(p) => lock.owner = p
    /\ ~(pc[p] \in Critical /\ gw[p] \in ShutdownHoldsLock)

\* What the process in the critical section relies on while it replaces or
\* removes artifacts.
ArtifactsAtStep ==
  ~stolen => \A p \in Procs :
    /\ pc[p] \in {"clean", "clean-record"} => \A q \in Procs : Published(q) => q \in silent
    /\ pc[p] \in {"secret", "publish"} => gw[p] \in {"open", "lock"}
    /\ pc[p] = "publish" => secret = p
    /\ gw[p] \in {"remove-secret", "remove-record"} => record = p
    /\ Published(p) => record \in {p, NoProc} /\ secret \in {p, NoProc}
    /\ Published(p) /\ p \notin silent => record = p /\ secret = p

\* Once a gateway refuses leases it is past being open.
RefusingAtStep ==
  \A h \in refusing : gw[h] \notin {"none", "open"} /\ \A q \in Procs : lease[q].at # h

\* The inductive invariant.
IInv == /\ TypeOK
        /\ GatewayAtStep /\ SawAtStep /\ OpenListens
        /\ HolderNamed /\ ArtifactsAtStep
        /\ RefusingAtStep
-----------------------------------------------------------------------------
(* Types.                                                                  *)

LEMMA ProcValues == Procs \subseteq ProcOrNone /\ NoProc \in ProcOrNone
BY DEF ProcOrNone

\* The values of startup.lock: absent, created, written.
LEMMA LockValues ==
  /\ NoLock \in Lock /\ NoLock.owner = NoProc /\ ~NoLock.full
  /\ \A p \in ProcOrNone :
       /\ Created(p) \in Lock /\ Created(p).owner = p /\ ~Created(p).full
       /\ Written(p) \in Lock /\ Written(p).owner = p /\ Written(p).full
  /\ \A l \in Lock : l.owner \in ProcOrNone /\ (l.owner = NoProc /\ ~l.full => l = NoLock)
BY DEF Lock, NoLock, ProcOrNone, Created, Written

\* The values of a lease: none, counted, lapsed.
LEMMA LeaseValues ==
  /\ NoLease \in Lease /\ NoLease.at = NoProc /\ ~NoLease.live
  /\ \A h \in ProcOrNone :
       /\ Counted(h) \in Lease /\ Counted(h).at = h /\ Counted(h).live
       /\ Lapsed(h) \in Lease /\ Lapsed(h).at = h /\ ~Lapsed(h).live
  /\ \A l \in Lease : l.at \in ProcOrNone
BY DEF Lease, NoLease, ProcOrNone, Counted, Lapsed

LEMMA StepValues ==
  /\ Critical \subseteq Steps
  /\ {"new", "resident", "lock", "reclaim", "unlink", "run", "hosting", "done", "dead"}
       \subseteq Steps
  /\ {"write-lock", "inspect", "lease", "lease-store", "clean", "clean-record", "listen",
      "secret", "publish", "unlock", "abandon"} \subseteq Steps
  /\ {"write-lock", "close", "check", "remove-secret", "remove-record", "release", "none",
      "open", "lock", "closed"} \subseteq GatewaySteps
BY DEF Steps, Critical, GatewaySteps, ShutdownHoldsLock

\* The parts of TypeOK.
FilesTyped ==
  /\ lock \in Lock /\ (lock.full => lock.owner # NoProc)
  /\ leaseLock \in ProcOrNone /\ record \in ProcOrNone /\ secret \in ProcOrNone
  /\ port \in ProcOrNone \cup {Foreign}
  /\ refusing \subseteq Procs /\ crashes \in 0..MaxCrashes /\ stolen \in BOOLEAN
  /\ silent \subseteq Procs

StepsTyped == pc \in [Procs -> Steps] /\ gw \in [Procs -> GatewaySteps]

SawTyped == saw \in [Procs -> Lock]

LeasesTyped ==
  /\ lease \in [Procs -> Lease]
  /\ \A q \in Procs : lease[q].live => lease[q].at # NoProc

LEMMA TypeParts == TypeOK <=> FilesTyped /\ StepsTyped /\ SawTyped /\ LeasesTyped
BY DEF TypeOK, FilesTyped, StepsTyped, SawTyped, LeasesTyped

LEMMA TypeInit == Init => TypeOK
<1> SUFFICES ASSUME Init PROVE TypeOK
  OBVIOUS
<1> USE ProcAssumption, ProcValues, LockValues, LeaseValues, StepValues DEF Init
<1>1. FilesTyped
  <2>1. lock \in Lock /\ (lock.full => lock.owner # NoProc)
    OBVIOUS
  <2>2. refusing \subseteq Procs /\ crashes \in 0..MaxCrashes
    OBVIOUS
  <2>3. stolen \in BOOLEAN /\ silent \subseteq Procs
    OBVIOUS
  <2> QED
    BY <2>1, <2>2, <2>3 DEF FilesTyped
<1>2. StepsTyped
  BY DEF StepsTyped
<1>3. SawTyped
  BY DEF SawTyped
<1>4. LeasesTyped
  BY DEF LeasesTyped
<1> QED
  BY <1>1, <1>2, <1>3, <1>4, TypeParts

LEMMA FilesStep == IInv /\ [Next]_vars => FilesTyped'
<1> SUFFICES ASSUME IInv, [Next]_vars PROVE FilesTyped'
  OBVIOUS
<1> USE ProcAssumption, ProcValues, LockValues DEF FilesTyped, disk, Goto, Forget
<1>t. FilesTyped /\ StepsTyped /\ SawTyped /\ LeasesTyped
  BY TypeParts DEF IInv
<1>1. ASSUME NEW p \in Procs, StartLauncher(p) \/ StartResident(p) \/ ResidentInspects(p)
                              \/ LockUnavailable(p) \/ CompareLock(p)
      PROVE  FilesTyped'
  BY <1>1, <1>t DEF StartLauncher, StartResident, ResidentInspects, LockUnavailable, CompareLock
<1>2. ASSUME NEW p \in Procs, CreateLock(p) \/ WriteLock(p) \/ Unlock(p) \/ Abandon(p)
      PROVE  FilesTyped'
  BY <1>2, <1>t DEF CreateLock, WriteLock, Unlock, Abandon, Released
<1>3. ASSUME NEW p \in Procs, AttestStaleLock(p)
      PROVE  FilesTyped'
  BY <1>3, <1>t DEF AttestStaleLock
<1>4. ASSUME NEW p \in Procs, UnlinkStaleLock(p)
      PROVE  FilesTyped'
  BY <1>4, <1>t DEF UnlinkStaleLock
<1>5. ASSUME NEW p \in Procs, Inspect(p)
      PROVE  FilesTyped'
  BY <1>5, <1>t DEF Inspect
<1>6. ASSUME NEW p \in Procs, LeaseAdded(p)
      PROVE  FilesTyped'
  BY <1>6, <1>t DEF LeaseAdded, SawTyped
<1>7. ASSUME NEW p \in Procs, LeaseRefused(p) \/ LeaseStored(p) \/ LeaseHostGone(p)
      PROVE  FilesTyped'
  BY <1>7, <1>t DEF LeaseRefused, LeaseStored, LeaseHostGone
<1>8. ASSUME NEW p \in Procs, CleanStale(p) \/ CleanRecord(p) \/ WriteSecrets(p)
                              \/ PublishRecord(p)
      PROVE  FilesTyped'
  BY <1>8, <1>t DEF CleanStale, CleanRecord, WriteSecrets, PublishRecord
<1>9. ASSUME NEW p \in Procs, Listen(p) \/ StartFails(p)
      PROVE  FilesTyped'
  BY <1>9, <1>t DEF Listen, StartFails
<1>10. ASSUME NEW p \in Procs, Lapse(p) \/ Heartbeat(p) \/ Expire(p)
       PROVE  FilesTyped'
  BY <1>10, <1>t DEF Lapse, Heartbeat, Expire
<1>11. ASSUME NEW p \in Procs, ChildExits(p) \/ ResidentRaced(p)
       PROVE  FilesTyped'
  BY <1>11, <1>t DEF ChildExits, ResidentRaced, ReleaseLease
<1>12. ASSUME NEW p \in Procs, IdleTimeout(p) \/ StopRequested(p) \/ ShutdownLocks(p)
                               \/ RemoveArtifacts(p) \/ RemoveSecrets(p) \/ RemoveRecord(p)
                               \/ ShutdownReleases(p)
       PROVE  FilesTyped'
  BY <1>12, <1>t DEF IdleTimeout, StopRequested, ShutdownLocks, RemoveArtifacts, RemoveSecrets,
     RemoveRecord, ShutdownReleases, Released
<1>13. ASSUME NEW p \in Procs, StopRaces(p) \/ ShutdownThrows(p) \/ ShutdownWritesLock(p)
                               \/ CloseServers(p) \/ Crash(p)
       PROVE  FilesTyped'
  BY <1>13, <1>t DEF StopRaces, ShutdownThrows, ShutdownWritesLock, CloseServers, Crash, Die
<1>14. CASE ForeignListens \/ ForeignLeaves \/ UNCHANGED vars
  BY <1>14, <1>t DEF ForeignListens, ForeignLeaves, vars
<1> QED
  BY <1>1, <1>2, <1>3, <1>4, <1>5, <1>6, <1>7, <1>8, <1>9, <1>10, <1>11, <1>12,
     <1>13, <1>14
     DEF Next, Acquire, Shutdown

LEMMA StepsStep == IInv /\ [Next]_vars => StepsTyped'
<1> SUFFICES ASSUME IInv, [Next]_vars PROVE StepsTyped'
  OBVIOUS
<1> USE ProcAssumption, StepValues DEF StepsTyped, disk, Goto, Forget
<1>t. FilesTyped /\ StepsTyped /\ SawTyped /\ LeasesTyped
  BY TypeParts DEF IInv
<1>1. ASSUME NEW p \in Procs, StartLauncher(p) \/ StartResident(p) \/ ResidentInspects(p)
                              \/ LockUnavailable(p)
      PROVE  StepsTyped'
  BY <1>1, <1>t DEF StartLauncher, StartResident, ResidentInspects, LockUnavailable
<1>2. ASSUME NEW p \in Procs, CreateLock(p) \/ WriteLock(p) \/ Unlock(p) \/ Abandon(p)
      PROVE  StepsTyped'
  BY <1>2, <1>t DEF CreateLock, WriteLock, Unlock, Abandon, Released
<1>3. ASSUME NEW p \in Procs, AttestStaleLock(p)
      PROVE  StepsTyped'
  BY <1>3, <1>t DEF AttestStaleLock
<1>4. ASSUME NEW p \in Procs, CompareLock(p)
      PROVE  StepsTyped'
  BY <1>4, <1>t DEF CompareLock
<1>5. ASSUME NEW p \in Procs, UnlinkStaleLock(p)
      PROVE  StepsTyped'
  BY <1>5, <1>t DEF UnlinkStaleLock
<1>6. ASSUME NEW p \in Procs, Inspect(p)
      PROVE  StepsTyped'
  BY <1>6, <1>t DEF Inspect
<1>7. ASSUME NEW p \in Procs, LeaseAdded(p) \/ LeaseRefused(p) \/ LeaseStored(p)
                              \/ LeaseHostGone(p)
      PROVE  StepsTyped'
  BY <1>7, <1>t DEF LeaseAdded, LeaseRefused, LeaseStored, LeaseHostGone
<1>8. ASSUME NEW p \in Procs, CleanStale(p) \/ CleanRecord(p) \/ WriteSecrets(p)
                              \/ PublishRecord(p)
      PROVE  StepsTyped'
  BY <1>8, <1>t DEF CleanStale, CleanRecord, WriteSecrets, PublishRecord
<1>9. ASSUME NEW p \in Procs, Listen(p)
      PROVE  StepsTyped'
  BY <1>9, <1>t DEF Listen
<1>10. ASSUME NEW p \in Procs, StartFails(p)
       PROVE  StepsTyped'
  BY <1>10, <1>t DEF StartFails
<1>11. ASSUME NEW p \in Procs, Lapse(p) \/ Heartbeat(p) \/ Expire(p)
       PROVE  StepsTyped'
  BY <1>11, <1>t DEF Lapse, Heartbeat, Expire
<1>12. ASSUME NEW p \in Procs, ChildExits(p) \/ ResidentRaced(p)
       PROVE  StepsTyped'
  BY <1>12, <1>t DEF ChildExits, ResidentRaced, ReleaseLease
<1>13. ASSUME NEW p \in Procs, IdleTimeout(p) \/ StopRequested(p) \/ ShutdownLocks(p)
                               \/ RemoveArtifacts(p) \/ RemoveSecrets(p) \/ RemoveRecord(p)
                               \/ ShutdownReleases(p)
       PROVE  StepsTyped'
  BY <1>13, <1>t DEF IdleTimeout, StopRequested, ShutdownLocks, RemoveArtifacts, RemoveSecrets,
     RemoveRecord, ShutdownReleases, Released
<1>14. ASSUME NEW p \in Procs, StopRaces(p) \/ ShutdownThrows(p) \/ ShutdownWritesLock(p)
                               \/ CloseServers(p) \/ Crash(p)
       PROVE  StepsTyped'
  BY <1>14, <1>t DEF StopRaces, ShutdownThrows, ShutdownWritesLock, CloseServers, Crash, Die
<1>15. CASE ForeignListens \/ ForeignLeaves \/ UNCHANGED vars
  BY <1>15, <1>t DEF ForeignListens, ForeignLeaves, vars
<1> QED
  BY <1>1, <1>2, <1>3, <1>4, <1>5, <1>6, <1>7, <1>8, <1>9, <1>10, <1>11, <1>12,
     <1>13, <1>14, <1>15
     DEF Next, Acquire, Shutdown

LEMMA SawStep == IInv /\ [Next]_vars => SawTyped'
<1> SUFFICES ASSUME IInv, [Next]_vars PROVE SawTyped'
  OBVIOUS
<1> USE ProcAssumption, ProcValues, LockValues DEF SawTyped, disk, Goto, Forget
<1>t. FilesTyped /\ StepsTyped /\ SawTyped /\ LeasesTyped
  BY TypeParts DEF IInv
<1>1. ASSUME NEW p \in Procs, StartLauncher(p) \/ StartResident(p) \/ ResidentInspects(p)
                              \/ LockUnavailable(p) \/ CreateLock(p) \/ WriteLock(p)
                              \/ Unlock(p) \/ Abandon(p)
      PROVE  SawTyped'
  BY <1>1, <1>t DEF StartLauncher, StartResident, ResidentInspects, LockUnavailable, CreateLock,
     WriteLock, Unlock, Abandon, Released
<1>2. ASSUME NEW p \in Procs, AttestStaleLock(p)
      PROVE  SawTyped'
  BY <1>2, <1>t DEF AttestStaleLock, FilesTyped
<1>3. ASSUME NEW p \in Procs, CompareLock(p)
      PROVE  SawTyped'
  BY <1>3, <1>t DEF CompareLock
<1>4. ASSUME NEW p \in Procs, UnlinkStaleLock(p)
      PROVE  SawTyped'
  BY <1>4, <1>t DEF UnlinkStaleLock
<1>5. ASSUME NEW p \in Procs, Inspect(p)
      PROVE  SawTyped'
  BY <1>5, <1>t DEF Inspect, FilesTyped
<1>6. ASSUME NEW p \in Procs, LeaseAdded(p) \/ LeaseRefused(p) \/ LeaseStored(p)
                              \/ LeaseHostGone(p) \/ CleanStale(p) \/ CleanRecord(p)
                              \/ WriteSecrets(p) \/ PublishRecord(p)
      PROVE  SawTyped'
  BY <1>6, <1>t DEF LeaseAdded, LeaseRefused, LeaseStored, LeaseHostGone, CleanStale,
     CleanRecord, WriteSecrets, PublishRecord
<1>7. ASSUME NEW p \in Procs, Listen(p) \/ StartFails(p)
      PROVE  SawTyped'
  BY <1>7, <1>t DEF Listen, StartFails
<1>8. ASSUME NEW p \in Procs, Lapse(p) \/ Heartbeat(p) \/ Expire(p) \/ ChildExits(p)
                              \/ ResidentRaced(p)
      PROVE  SawTyped'
  BY <1>8, <1>t DEF Lapse, Heartbeat, Expire, ChildExits, ResidentRaced, ReleaseLease
<1>9. ASSUME NEW p \in Procs, IdleTimeout(p) \/ StopRequested(p) \/ ShutdownLocks(p)
                              \/ RemoveArtifacts(p) \/ RemoveSecrets(p) \/ RemoveRecord(p)
                              \/ ShutdownReleases(p)
      PROVE  SawTyped'
  BY <1>9, <1>t DEF IdleTimeout, StopRequested, ShutdownLocks, RemoveArtifacts, RemoveSecrets,
     RemoveRecord, ShutdownReleases, Released
<1>10. ASSUME NEW p \in Procs, StopRaces(p) \/ ShutdownThrows(p) \/ ShutdownWritesLock(p)
                               \/ CloseServers(p) \/ Crash(p)
       PROVE  SawTyped'
  BY <1>10, <1>t DEF StopRaces, ShutdownThrows, ShutdownWritesLock, CloseServers, Crash, Die
<1>11. CASE ForeignListens \/ ForeignLeaves \/ UNCHANGED vars
  BY <1>11, <1>t DEF ForeignListens, ForeignLeaves, vars
<1> QED
  BY <1>1, <1>2, <1>3, <1>4, <1>5, <1>6, <1>7, <1>8, <1>9, <1>10, <1>11
     DEF Next, Acquire, Shutdown

LEMMA LeasesStep == IInv /\ [Next]_vars => LeasesTyped'
<1> SUFFICES ASSUME IInv, [Next]_vars PROVE LeasesTyped'
  OBVIOUS
<1> USE ProcAssumption, ProcValues, LeaseValues DEF LeasesTyped, disk, Goto, Forget
<1>t. FilesTyped /\ StepsTyped /\ SawTyped /\ LeasesTyped
  BY TypeParts DEF IInv
<1>1. ASSUME NEW p \in Procs, StartLauncher(p) \/ StartResident(p) \/ ResidentInspects(p)
                              \/ LockUnavailable(p) \/ CreateLock(p) \/ WriteLock(p)
                              \/ Unlock(p) \/ Abandon(p)
      PROVE  LeasesTyped'
  BY <1>1, <1>t DEF StartLauncher, StartResident, ResidentInspects, LockUnavailable, CreateLock,
     WriteLock, Unlock, Abandon, Released
<1>2. ASSUME NEW p \in Procs, AttestStaleLock(p) \/ CompareLock(p) \/ UnlinkStaleLock(p)
                              \/ Inspect(p)
      PROVE  LeasesTyped'
  BY <1>2, <1>t DEF AttestStaleLock, CompareLock, UnlinkStaleLock, Inspect
<1>3. ASSUME NEW p \in Procs, LeaseAdded(p)
      PROVE  LeasesTyped'
  BY <1>3, <1>t DEF LeaseAdded, IInv, SawAtStep
<1>4. ASSUME NEW p \in Procs, LeaseRefused(p) \/ LeaseStored(p) \/ LeaseHostGone(p)
      PROVE  LeasesTyped'
  BY <1>4, <1>t DEF LeaseRefused, LeaseStored, LeaseHostGone
<1>5. ASSUME NEW p \in Procs, CleanStale(p) \/ CleanRecord(p) \/ WriteSecrets(p)
                              \/ PublishRecord(p)
      PROVE  LeasesTyped'
  BY <1>5, <1>t DEF CleanStale, CleanRecord, WriteSecrets, PublishRecord
<1>6. ASSUME NEW p \in Procs, Listen(p) \/ StartFails(p)
      PROVE  LeasesTyped'
  BY <1>6, <1>t DEF Listen, StartFails
<1>7. ASSUME NEW p \in Procs, Lapse(p) \/ Heartbeat(p) \/ Expire(p)
      PROVE  LeasesTyped'
  BY <1>7, <1>t DEF Lapse, Heartbeat, Expire
<1>8. ASSUME NEW p \in Procs, ChildExits(p) \/ ResidentRaced(p)
      PROVE  LeasesTyped'
  BY <1>8, <1>t DEF ChildExits, ResidentRaced, ReleaseLease
<1>9. ASSUME NEW p \in Procs, IdleTimeout(p) \/ StopRequested(p) \/ ShutdownLocks(p)
                              \/ RemoveArtifacts(p) \/ RemoveSecrets(p) \/ RemoveRecord(p)
                              \/ ShutdownReleases(p)
      PROVE  LeasesTyped'
  BY <1>9, <1>t DEF IdleTimeout, StopRequested, ShutdownLocks, RemoveArtifacts, RemoveSecrets,
     RemoveRecord, ShutdownReleases, Released
<1>10. ASSUME NEW p \in Procs, StopRaces(p) \/ ShutdownThrows(p) \/ ShutdownWritesLock(p)
                               \/ CloseServers(p) \/ Crash(p)
       PROVE  LeasesTyped'
  BY <1>10, <1>t DEF StopRaces, ShutdownThrows, ShutdownWritesLock, CloseServers, Crash, Die
<1>11. CASE ForeignListens \/ ForeignLeaves \/ UNCHANGED vars
  BY <1>11, <1>t DEF ForeignListens, ForeignLeaves, vars
<1> QED
  BY <1>1, <1>2, <1>3, <1>4, <1>5, <1>6, <1>7, <1>8, <1>9, <1>10, <1>11
     DEF Next, Acquire, Shutdown

LEMMA TypeStep == IInv /\ [Next]_vars => TypeOK'
BY FilesStep, StepsStep, SawStep, LeasesStep
   DEF TypeOK, FilesTyped, StepsTyped, SawTyped, LeasesTyped

-----------------------------------------------------------------------------
(* The steps of a process and of its gateway.                              *)

LEMMA GatewayAtStepStep == IInv /\ [Next]_vars => GatewayAtStep'
<1> SUFFICES ASSUME IInv, [Next]_vars PROVE GatewayAtStep'
  OBVIOUS
<1> USE ProcAssumption DEF GatewayAtStep, NotStarted, disk, Goto, Forget
<1>t. /\ pc \in [Procs -> Steps] /\ gw \in [Procs -> GatewaySteps]
      /\ GatewayAtStep
  BY DEF IInv, TypeOK
<1>1. ASSUME NEW p \in Procs, StartLauncher(p) \/ StartResident(p) \/ ResidentInspects(p)
                              \/ LockUnavailable(p) \/ CreateLock(p) \/ WriteLock(p)
                              \/ Unlock(p) \/ Abandon(p) \/ AttestStaleLock(p) \/ CompareLock(p)
                              \/ UnlinkStaleLock(p)
      PROVE  GatewayAtStep'
  BY <1>1, <1>t DEF StartLauncher, StartResident, ResidentInspects, LockUnavailable, CreateLock,
     WriteLock, Unlock, Abandon, AttestStaleLock, CompareLock, UnlinkStaleLock, Released
<1>2. ASSUME NEW p \in Procs, Inspect(p) \/ LeaseAdded(p) \/ LeaseRefused(p) \/ LeaseStored(p)
                              \/ LeaseHostGone(p)
      PROVE  GatewayAtStep'
  BY <1>2, <1>t DEF Inspect, LeaseAdded, LeaseRefused, LeaseStored, LeaseHostGone
<1>3. ASSUME NEW p \in Procs, CleanStale(p) \/ CleanRecord(p) \/ WriteSecrets(p)
                              \/ PublishRecord(p)
      PROVE  GatewayAtStep'
  BY <1>3, <1>t DEF CleanStale, CleanRecord, WriteSecrets, PublishRecord
<1>4. ASSUME NEW p \in Procs, Listen(p) \/ StartFails(p)
      PROVE  GatewayAtStep'
  BY <1>4, <1>t DEF Listen, StartFails
<1>5. ASSUME NEW p \in Procs, Lapse(p) \/ Heartbeat(p) \/ Expire(p)
      PROVE  GatewayAtStep'
  BY <1>5, <1>t DEF Lapse, Heartbeat, Expire
<1>6. ASSUME NEW p \in Procs, ChildExits(p) \/ ResidentRaced(p)
      PROVE  GatewayAtStep'
  BY <1>6, <1>t DEF ChildExits, ResidentRaced, ReleaseLease
<1>7. ASSUME NEW p \in Procs, IdleTimeout(p) \/ StopRequested(p) \/ ShutdownLocks(p)
                              \/ RemoveArtifacts(p) \/ RemoveSecrets(p) \/ RemoveRecord(p)
                              \/ ShutdownReleases(p)
      PROVE  GatewayAtStep'
  BY <1>7, <1>t DEF IdleTimeout, StopRequested, ShutdownLocks, RemoveArtifacts, RemoveSecrets,
     RemoveRecord, ShutdownReleases, Released
<1>8. ASSUME NEW p \in Procs, StopRaces(p) \/ ShutdownThrows(p) \/ ShutdownWritesLock(p)
                              \/ CloseServers(p) \/ Crash(p)
      PROVE  GatewayAtStep'
  BY <1>8, <1>t DEF StopRaces, ShutdownThrows, ShutdownWritesLock, CloseServers, Crash, Die
<1>9. CASE ForeignListens \/ ForeignLeaves \/ UNCHANGED vars
  BY <1>9, <1>t DEF ForeignListens, ForeignLeaves, vars
<1> QED
  BY <1>1, <1>2, <1>3, <1>4, <1>5, <1>6, <1>7, <1>8, <1>9
     DEF Next, Acquire, Shutdown

LEMMA OpenListensStep == IInv /\ [Next]_vars => OpenListens'
<1> SUFFICES ASSUME IInv, [Next]_vars PROVE OpenListens'
  OBVIOUS
<1> USE ProcAssumption DEF OpenListens, GatewayAtStep, NotStarted, disk, Goto, Forget
<1>t. /\ pc \in [Procs -> Steps] /\ gw \in [Procs -> GatewaySteps]
      /\ OpenListens /\ GatewayAtStep
  BY DEF IInv, TypeOK
<1>1. ASSUME NEW p \in Procs, StartLauncher(p) \/ StartResident(p) \/ ResidentInspects(p)
                              \/ LockUnavailable(p) \/ CreateLock(p) \/ WriteLock(p)
                              \/ Unlock(p) \/ Abandon(p) \/ AttestStaleLock(p) \/ CompareLock(p)
                              \/ UnlinkStaleLock(p)
      PROVE  OpenListens'
  BY <1>1, <1>t DEF StartLauncher, StartResident, ResidentInspects, LockUnavailable, CreateLock,
     WriteLock, Unlock, Abandon, AttestStaleLock, CompareLock, UnlinkStaleLock, Released
<1>2. ASSUME NEW p \in Procs, Inspect(p) \/ LeaseAdded(p) \/ LeaseRefused(p) \/ LeaseStored(p)
                              \/ LeaseHostGone(p)
      PROVE  OpenListens'
  BY <1>2, <1>t DEF Inspect, LeaseAdded, LeaseRefused, LeaseStored, LeaseHostGone
<1>3. ASSUME NEW p \in Procs, CleanStale(p) \/ CleanRecord(p) \/ WriteSecrets(p)
                              \/ PublishRecord(p)
      PROVE  OpenListens'
  BY <1>3, <1>t DEF CleanStale, CleanRecord, WriteSecrets, PublishRecord
<1>4. ASSUME NEW p \in Procs, Listen(p) \/ StartFails(p)
      PROVE  OpenListens'
  BY <1>4, <1>t DEF Listen, StartFails
<1>5. ASSUME NEW p \in Procs, Lapse(p) \/ Heartbeat(p) \/ Expire(p)
      PROVE  OpenListens'
  BY <1>5, <1>t DEF Lapse, Heartbeat, Expire
<1>6. ASSUME NEW p \in Procs, ChildExits(p) \/ ResidentRaced(p)
      PROVE  OpenListens'
  BY <1>6, <1>t DEF ChildExits, ResidentRaced, ReleaseLease
<1>7. ASSUME NEW p \in Procs, IdleTimeout(p) \/ StopRequested(p) \/ ShutdownLocks(p)
                              \/ RemoveArtifacts(p) \/ RemoveSecrets(p) \/ RemoveRecord(p)
                              \/ ShutdownReleases(p)
      PROVE  OpenListens'
  BY <1>7, <1>t DEF IdleTimeout, StopRequested, ShutdownLocks, RemoveArtifacts, RemoveSecrets,
     RemoveRecord, ShutdownReleases, Released
<1>8. ASSUME NEW p \in Procs, StopRaces(p) \/ ShutdownThrows(p) \/ ShutdownWritesLock(p)
                              \/ CloseServers(p) \/ Crash(p)
      PROVE  OpenListens'
  BY <1>8, <1>t DEF StopRaces, ShutdownThrows, ShutdownWritesLock, CloseServers, Crash, Die
<1>9. CASE ForeignListens \/ ForeignLeaves \/ UNCHANGED vars
  BY <1>9, <1>t DEF ForeignListens, ForeignLeaves, vars
<1> QED
  BY <1>1, <1>2, <1>3, <1>4, <1>5, <1>6, <1>7, <1>8, <1>9
     DEF Next, Acquire, Shutdown

\* Being gone is final, and a lock that is not written is compared to no purpose.
LEMMA SawAtStepStep == IInv /\ [Next]_vars => SawAtStep'
<1> SUFFICES ASSUME IInv, [Next]_vars PROVE SawAtStep'
  OBVIOUS
<1> USE ProcAssumption, ProcValues, LockValues
        DEF SawAtStep, GatewayAtStep, NotStarted, Gone, disk, Goto, Forget
<1>t. /\ pc \in [Procs -> Steps] /\ gw \in [Procs -> GatewaySteps]
      /\ lock \in Lock /\ (lock.full => lock.owner # NoProc)
      /\ saw \in [Procs -> Lock] /\ record \in ProcOrNone
      /\ SawAtStep /\ GatewayAtStep
  BY DEF IInv, TypeOK
<1>1. ASSUME NEW p \in Procs, StartLauncher(p) \/ StartResident(p) \/ ResidentInspects(p)
                              \/ LockUnavailable(p) \/ CreateLock(p) \/ WriteLock(p)
                              \/ Unlock(p) \/ Abandon(p)
      PROVE  SawAtStep'
  BY <1>1, <1>t DEF StartLauncher, StartResident, ResidentInspects, LockUnavailable, CreateLock,
     WriteLock, Unlock, Abandon, Released
<1>2. ASSUME NEW p \in Procs, AttestStaleLock(p)
      PROVE  SawAtStep'
  BY <1>2, <1>t DEF AttestStaleLock, ProcOrNone, Stale
<1>3. ASSUME NEW p \in Procs, CompareLock(p)
      PROVE  SawAtStep'
  BY <1>3, <1>t DEF CompareLock
<1>4. ASSUME NEW p \in Procs, UnlinkStaleLock(p)
      PROVE  SawAtStep'
  BY <1>4, <1>t DEF UnlinkStaleLock
<1>5. ASSUME NEW p \in Procs, Inspect(p)
      PROVE  SawAtStep'
  BY <1>5, <1>t DEF Inspect, ProcOrNone, Attested
<1>6. ASSUME NEW p \in Procs, LeaseAdded(p) \/ LeaseRefused(p) \/ LeaseStored(p)
                              \/ LeaseHostGone(p)
      PROVE  SawAtStep'
  BY <1>6, <1>t DEF LeaseAdded, LeaseRefused, LeaseStored, LeaseHostGone
<1>7. ASSUME NEW p \in Procs, CleanStale(p) \/ CleanRecord(p) \/ WriteSecrets(p)
                              \/ PublishRecord(p)
      PROVE  SawAtStep'
  BY <1>7, <1>t DEF CleanStale, CleanRecord, WriteSecrets, PublishRecord
<1>8. ASSUME NEW p \in Procs, Listen(p) \/ StartFails(p)
      PROVE  SawAtStep'
  BY <1>8, <1>t DEF Listen, StartFails
<1>9. ASSUME NEW p \in Procs, Lapse(p) \/ Heartbeat(p) \/ Expire(p)
      PROVE  SawAtStep'
  BY <1>9, <1>t DEF Lapse, Heartbeat, Expire
<1>10. ASSUME NEW p \in Procs, ChildExits(p) \/ ResidentRaced(p)
       PROVE  SawAtStep'
  BY <1>10, <1>t DEF ChildExits, ResidentRaced, ReleaseLease
<1>11. ASSUME NEW p \in Procs, IdleTimeout(p) \/ StopRequested(p) \/ ShutdownLocks(p)
                               \/ RemoveArtifacts(p) \/ RemoveSecrets(p) \/ RemoveRecord(p)
                               \/ ShutdownReleases(p)
       PROVE  SawAtStep'
  BY <1>11, <1>t DEF IdleTimeout, StopRequested, ShutdownLocks, RemoveArtifacts, RemoveSecrets,
     RemoveRecord, ShutdownReleases, Released, ReleaseThrows
<1>12. ASSUME NEW p \in Procs, StopRaces(p) \/ ShutdownThrows(p) \/ ShutdownWritesLock(p)
                               \/ CloseServers(p) \/ Crash(p)
       PROVE  SawAtStep'
  BY <1>12, <1>t DEF StopRaces, ShutdownThrows, ShutdownWritesLock, CloseServers, Crash, Die
<1>13. CASE ForeignListens \/ ForeignLeaves \/ UNCHANGED vars
  BY <1>13, <1>t DEF ForeignListens, ForeignLeaves, vars
<1> QED
  BY <1>1, <1>2, <1>3, <1>4, <1>5, <1>6, <1>7, <1>8, <1>9, <1>10, <1>11, <1>12,
     <1>13
     DEF Next, Acquire, Shutdown

\* The unlink of a lock that was not replaced removes that of a process that is gone.
LEMMA HolderNamedStep == IInv /\ [Next]_vars => HolderNamed'
<1> SUFFICES ASSUME IInv, [Next]_vars PROVE HolderNamed'
  OBVIOUS
<1> USE ProcAssumption, ProcValues, LockValues
        DEF HolderNamed, InCriticalSection, Critical, ShutdownHoldsLock, GatewayAtStep,
            SawAtStep, NotStarted, Gone, disk, Goto, Forget
<1>t. /\ pc \in [Procs -> Steps] /\ gw \in [Procs -> GatewaySteps]
      /\ saw \in [Procs -> Lock] /\ lock \in Lock
      /\ HolderNamed /\ GatewayAtStep /\ SawAtStep
  BY DEF IInv, TypeOK
<1>1. ASSUME NEW p \in Procs, StartLauncher(p) \/ StartResident(p) \/ ResidentInspects(p)
                              \/ LockUnavailable(p)
      PROVE  HolderNamed'
  BY <1>1, <1>t DEF StartLauncher, StartResident, ResidentInspects, LockUnavailable
<1>2. ASSUME NEW p \in Procs, CreateLock(p) \/ WriteLock(p) \/ Unlock(p) \/ Abandon(p)
      PROVE  HolderNamed'
  BY <1>2, <1>t DEF CreateLock, WriteLock, Unlock, Abandon, Released
<1>3. ASSUME NEW p \in Procs, AttestStaleLock(p) \/ CompareLock(p)
      PROVE  HolderNamed'
  BY <1>3, <1>t DEF AttestStaleLock, CompareLock
<1>4. ASSUME NEW p \in Procs, UnlinkStaleLock(p)
      PROVE  HolderNamed'
  <2>1. ~stolen' => ~stolen /\ lock \in {NoLock, saw[p]}
    BY <1>4 DEF UnlinkStaleLock
  <2> QED
    BY <1>4, <1>t, <2>1 DEF UnlinkStaleLock
<1>5. ASSUME NEW p \in Procs, Inspect(p)
      PROVE  HolderNamed'
  BY <1>5, <1>t DEF Inspect
<1>6. ASSUME NEW p \in Procs, LeaseAdded(p) \/ LeaseRefused(p) \/ LeaseStored(p)
                              \/ LeaseHostGone(p)
      PROVE  HolderNamed'
  BY <1>6, <1>t DEF LeaseAdded, LeaseRefused, LeaseStored, LeaseHostGone
<1>7. ASSUME NEW p \in Procs, CleanStale(p) \/ CleanRecord(p) \/ WriteSecrets(p)
                              \/ PublishRecord(p)
      PROVE  HolderNamed'
  BY <1>7, <1>t DEF CleanStale, CleanRecord, WriteSecrets, PublishRecord
<1>8. ASSUME NEW p \in Procs, Listen(p) \/ StartFails(p)
      PROVE  HolderNamed'
  BY <1>8, <1>t DEF Listen, StartFails
<1>9. ASSUME NEW p \in Procs, Lapse(p) \/ Heartbeat(p) \/ Expire(p)
      PROVE  HolderNamed'
  BY <1>9, <1>t DEF Lapse, Heartbeat, Expire
<1>10. ASSUME NEW p \in Procs, ChildExits(p) \/ ResidentRaced(p)
       PROVE  HolderNamed'
  BY <1>10, <1>t DEF ChildExits, ResidentRaced, ReleaseLease
<1>11. ASSUME NEW p \in Procs, IdleTimeout(p) \/ StopRequested(p) \/ ShutdownLocks(p)
                               \/ RemoveArtifacts(p) \/ RemoveSecrets(p) \/ RemoveRecord(p)
                               \/ ShutdownReleases(p)
       PROVE  HolderNamed'
  BY <1>11, <1>t DEF IdleTimeout, StopRequested, ShutdownLocks, RemoveArtifacts, RemoveSecrets,
     RemoveRecord, ShutdownReleases, Released, ReleaseThrows
<1>12. ASSUME NEW p \in Procs, StopRaces(p) \/ ShutdownThrows(p) \/ ShutdownWritesLock(p)
                               \/ CloseServers(p) \/ Crash(p)
       PROVE  HolderNamed'
  BY <1>12, <1>t DEF StopRaces, ShutdownThrows, ShutdownWritesLock, CloseServers, Crash, Die
<1>13. CASE ForeignListens \/ ForeignLeaves \/ UNCHANGED vars
  BY <1>13, <1>t DEF ForeignListens, ForeignLeaves, vars
<1> QED
  BY <1>1, <1>2, <1>3, <1>4, <1>5, <1>6, <1>7, <1>8, <1>9, <1>10, <1>11, <1>12,
     <1>13
     DEF Next, Acquire, Shutdown

\* Artifacts change in the critical section only.
LEMMA ArtifactsAtStepStep == IInv /\ [Next]_vars => ArtifactsAtStep'
<1> SUFFICES ASSUME IInv, [Next]_vars PROVE ArtifactsAtStep'
  OBVIOUS
<1> USE ProcAssumption, ProcValues, LockValues
        DEF ArtifactsAtStep, Published, HolderNamed, InCriticalSection, Critical,
            ShutdownHoldsLock, OpenListens, GatewayAtStep, SawAtStep, NotStarted, Gone, disk,
            Goto, Forget
<1>t. /\ pc \in [Procs -> Steps] /\ gw \in [Procs -> GatewaySteps]
      /\ saw \in [Procs -> Lock] /\ lock \in Lock
      /\ ArtifactsAtStep /\ HolderNamed /\ OpenListens /\ GatewayAtStep /\ SawAtStep
  BY DEF IInv, TypeOK
<1>1. ASSUME NEW p \in Procs, StartLauncher(p) \/ StartResident(p) \/ ResidentInspects(p)
                              \/ LockUnavailable(p)
      PROVE  ArtifactsAtStep'
  BY <1>1, <1>t DEF StartLauncher, StartResident, ResidentInspects, LockUnavailable
<1>2. ASSUME NEW p \in Procs, CreateLock(p) \/ WriteLock(p) \/ Unlock(p) \/ Abandon(p)
      PROVE  ArtifactsAtStep'
  BY <1>2, <1>t DEF CreateLock, WriteLock, Unlock, Abandon, Released
<1>3. ASSUME NEW p \in Procs, AttestStaleLock(p) \/ CompareLock(p)
      PROVE  ArtifactsAtStep'
  BY <1>3, <1>t DEF AttestStaleLock, CompareLock
<1>4. ASSUME NEW p \in Procs, UnlinkStaleLock(p)
      PROVE  ArtifactsAtStep'
  <2>1. ~stolen' => ~stolen
    BY <1>4 DEF UnlinkStaleLock
  <2>2. \A q \in Procs : /\ Published(q)' <=> Published(q)
                         /\ \A c \in {"clean", "clean-record", "secret", "publish"} :
                              pc'[q] = c <=> pc[q] = c
    BY <1>4, <1>t DEF UnlinkStaleLock
  <2>3. UNCHANGED <<gw, record, secret, silent>>
    BY <1>4 DEF UnlinkStaleLock
  <2> QED
    BY <1>t, <2>1, <2>2, <2>3
<1>5. ASSUME NEW p \in Procs, Inspect(p)
      PROVE  ArtifactsAtStep'
  BY <1>5, <1>t DEF Inspect, Attested
<1>6. ASSUME NEW p \in Procs, LeaseAdded(p) \/ LeaseRefused(p) \/ LeaseStored(p)
                              \/ LeaseHostGone(p)
      PROVE  ArtifactsAtStep'
  BY <1>6, <1>t DEF LeaseAdded, LeaseRefused, LeaseStored, LeaseHostGone
<1>7. ASSUME NEW p \in Procs, CleanStale(p) \/ CleanRecord(p) \/ WriteSecrets(p)
                              \/ PublishRecord(p)
      PROVE  ArtifactsAtStep'
  BY <1>7, <1>t DEF CleanStale, CleanRecord, WriteSecrets, PublishRecord
<1>8. ASSUME NEW p \in Procs, Listen(p) \/ StartFails(p)
      PROVE  ArtifactsAtStep'
  BY <1>8, <1>t DEF Listen, StartFails
<1>9. ASSUME NEW p \in Procs, Lapse(p) \/ Heartbeat(p) \/ Expire(p)
      PROVE  ArtifactsAtStep'
  BY <1>9, <1>t DEF Lapse, Heartbeat, Expire
<1>10. ASSUME NEW p \in Procs, ChildExits(p) \/ ResidentRaced(p)
       PROVE  ArtifactsAtStep'
  BY <1>10, <1>t DEF ChildExits, ResidentRaced, ReleaseLease
<1>11. ASSUME NEW p \in Procs, IdleTimeout(p) \/ StopRequested(p) \/ ShutdownLocks(p)
                               \/ RemoveArtifacts(p) \/ RemoveSecrets(p) \/ RemoveRecord(p)
                               \/ ShutdownReleases(p)
       PROVE  ArtifactsAtStep'
  BY <1>11, <1>t DEF IdleTimeout, StopRequested, ShutdownLocks, RemoveArtifacts, RemoveSecrets,
     RemoveRecord, ShutdownReleases, Released, ReleaseThrows
<1>12. ASSUME NEW p \in Procs, StopRaces(p) \/ ShutdownThrows(p) \/ ShutdownWritesLock(p)
                               \/ CloseServers(p) \/ Crash(p)
       PROVE  ArtifactsAtStep'
  BY <1>12, <1>t DEF StopRaces, ShutdownThrows, ShutdownWritesLock, CloseServers, Crash, Die
<1>13. CASE ForeignListens \/ ForeignLeaves \/ UNCHANGED vars
  BY <1>13, <1>t DEF ForeignListens, ForeignLeaves, vars
<1> QED
  BY <1>1, <1>2, <1>3, <1>4, <1>5, <1>6, <1>7, <1>8, <1>9, <1>10, <1>11, <1>12,
     <1>13
     DEF Next, Acquire, Shutdown

\* A host that refuses leases is never open again, and only an admission counts a lease.
LEMMA RefusingAtStepStep == IInv /\ [Next]_vars => RefusingAtStep'
<1> SUFFICES ASSUME IInv, [Next]_vars PROVE RefusingAtStep'
  OBVIOUS
<1> USE ProcAssumption, ProcValues, LeaseValues
        DEF RefusingAtStep, GatewayAtStep, SawAtStep, NotStarted, disk, Goto, Forget
<1>t. /\ pc \in [Procs -> Steps] /\ gw \in [Procs -> GatewaySteps]
      /\ lease \in [Procs -> Lease] /\ refusing \subseteq Procs
      /\ RefusingAtStep /\ GatewayAtStep /\ SawAtStep
  BY DEF IInv, TypeOK
<1>1. ASSUME NEW p \in Procs, StartLauncher(p) \/ StartResident(p) \/ ResidentInspects(p)
                              \/ LockUnavailable(p) \/ CreateLock(p) \/ WriteLock(p)
                              \/ Unlock(p) \/ Abandon(p)
      PROVE  RefusingAtStep'
  BY <1>1, <1>t DEF StartLauncher, StartResident, ResidentInspects, LockUnavailable, CreateLock,
     WriteLock, Unlock, Abandon, Released
<1>2. ASSUME NEW p \in Procs, AttestStaleLock(p) \/ CompareLock(p) \/ UnlinkStaleLock(p)
                              \/ Inspect(p)
      PROVE  RefusingAtStep'
  BY <1>2, <1>t DEF AttestStaleLock, CompareLock, UnlinkStaleLock, Inspect
<1>3. ASSUME NEW p \in Procs, LeaseAdded(p)
      PROVE  RefusingAtStep'
  BY <1>3, <1>t DEF LeaseAdded
<1>4. ASSUME NEW p \in Procs, LeaseRefused(p) \/ LeaseStored(p) \/ LeaseHostGone(p)
      PROVE  RefusingAtStep'
  BY <1>4, <1>t DEF LeaseRefused, LeaseStored, LeaseHostGone
<1>5. ASSUME NEW p \in Procs, CleanStale(p) \/ CleanRecord(p) \/ WriteSecrets(p)
                              \/ PublishRecord(p)
      PROVE  RefusingAtStep'
  BY <1>5, <1>t DEF CleanStale, CleanRecord, WriteSecrets, PublishRecord
<1>6. ASSUME NEW p \in Procs, Listen(p)
      PROVE  RefusingAtStep'
  BY <1>6, <1>t DEF Listen
<1>7. ASSUME NEW p \in Procs, StartFails(p)
      PROVE  RefusingAtStep'
  BY <1>7, <1>t DEF StartFails
<1>8. ASSUME NEW p \in Procs, Lapse(p) \/ Heartbeat(p) \/ Expire(p)
      PROVE  RefusingAtStep'
  BY <1>8, <1>t, SMTT(20) DEF Lapse, Heartbeat, Expire
<1>9. ASSUME NEW p \in Procs, ChildExits(p) \/ ResidentRaced(p)
      PROVE  RefusingAtStep'
  BY <1>9, <1>t DEF ChildExits, ResidentRaced, ReleaseLease
<1>10. ASSUME NEW p \in Procs, IdleTimeout(p) \/ StopRequested(p) \/ ShutdownLocks(p)
                               \/ RemoveArtifacts(p) \/ RemoveSecrets(p) \/ RemoveRecord(p)
                               \/ ShutdownReleases(p)
       PROVE  RefusingAtStep'
  BY <1>10, <1>t DEF IdleTimeout, StopRequested, ShutdownLocks, RemoveArtifacts, RemoveSecrets,
     RemoveRecord, ShutdownReleases, Released, LeasesAt
<1>11. ASSUME NEW p \in Procs, StopRaces(p) \/ ShutdownThrows(p) \/ ShutdownWritesLock(p)
                               \/ CloseServers(p) \/ Crash(p)
       PROVE  RefusingAtStep'
  BY <1>11, <1>t DEF StopRaces, ShutdownThrows, ShutdownWritesLock, CloseServers, Crash, Die
<1>12. CASE ForeignListens \/ ForeignLeaves \/ UNCHANGED vars
  BY <1>12, <1>t DEF ForeignListens, ForeignLeaves, vars
<1> QED
  BY <1>1, <1>2, <1>3, <1>4, <1>5, <1>6, <1>7, <1>8, <1>9, <1>10, <1>11, <1>12
     DEF Next, Acquire, Shutdown

-----------------------------------------------------------------------------
(* The theorems.                                                           *)

LEMMA IInvInit == Init => IInv
<1> SUFFICES ASSUME Init PROVE IInv
  OBVIOUS
<1>1. GatewayAtStep /\ SawAtStep /\ OpenListens
  BY DEF Init, GatewayAtStep, SawAtStep, OpenListens, NotStarted
<1>2. HolderNamed /\ ArtifactsAtStep /\ RefusingAtStep
  BY DEF Init, HolderNamed, ArtifactsAtStep, RefusingAtStep, InCriticalSection, Critical,
     ShutdownHoldsLock, Published
<1> QED
  BY <1>1, <1>2, TypeInit DEF IInv

\* The startup-lock protocol keeps the inductive invariant: where each process
\* and each gateway is, what it read, and whose artifacts are on disk, also
\* when an acquisition takes a silent gateway for gone.
THEOREM Invariance == Spec => []IInv
<1>1. IInv /\ [Next]_vars => IInv'
  BY TypeStep, GatewayAtStepStep, SawAtStepStep, OpenListensStep, HolderNamedStep,
     ArtifactsAtStepStep, RefusingAtStepStep DEF IInv
<1> QED
  BY <1>1, IInvInit, PTL DEF Spec

\* Every variable keeps its type.
THEOREM TypeCorrect == Spec => []TypeOK
<1>1. IInv => TypeOK
  BY DEF IInv
<1> QED
  BY <1>1, Invariance, PTL

\* At most one process is starting, reusing or shutting down a gateway, however
\* many race and crash, until a reclaimer unlinks a lock it did not compare.
THEOREM MutualExclusion == Spec => []SingleHolder
<1>1. IInv => SingleHolder
  BY DEF IInv, HolderNamed, SingleHolder
<1> QED
  BY <1>1, Invariance, PTL

\* A published gateway that is not shutting down stays the one its record, its
\* secrets and the port lead to, unless an acquisition heard nothing from it
\* before its timeouts; and then no other's record or secrets take their place.
\* Until a reclaimer unlinks a lock it did not compare.
THEOREM Attestable == Spec => []PublishedStaysAttestable
<1>1. IInv => PublishedStaysAttestable
  BY ProcAssumption DEF IInv, ArtifactsAtStep, OpenListens, PublishedStaysAttestable, Published,
     Attested
<1> QED
  BY <1>1, Invariance, PTL

\* A gateway that decided to stop for idleness counts no lease from then on.
THEOREM Unleased == Spec => []IdleStopUnleased
<1>1. IInv => IdleStopUnleased
  BY DEF IInv, RefusingAtStep, IdleStopUnleased, LeasesAt
<1> QED
  BY <1>1, Invariance, PTL

=============================================================================
