-------------------------- MODULE GatewayOwnership --------------------------
(***************************************************************************)
(* Which process serves the one configured gateway port, and for how long. *)
(* Launchers and the resident service start a gateway or reuse an attested *)
(* one under startup.lock (src/runtime/gateway-lifecycle.ts, runtime-      *)
(* store.ts, resident-runtime.ts); the serving process counts launcher     *)
(* leases and shuts itself down when none is left (lease-manager.ts,       *)
(* owned-gateway.ts).                                                      *)
(*                                                                         *)
(* A process is one incarnation: its pid and start time never come back.   *)
(* All processes are started with the same configuration.                  *)
(***************************************************************************)
EXTENDS Naturals

CONSTANTS
  Procs,       \* process incarnations
  Residents,   \* those the service manager starts; the others are launchers
  NoProc,      \* nobody: an absent file, a free port
  Foreign,     \* a listener RLY does not own
  MaxCrashes   \* bound on processes that are killed

ASSUME ProcAssumption ==
  /\ Residents \subseteq Procs
  /\ NoProc \notin Procs /\ Foreign \notin Procs /\ NoProc # Foreign
  /\ MaxCrashes \in Nat

VARIABLES
  lock,       \* startup.lock: its creator, and whether its contents are written
  leaseLock,  \* leases.lock
  record,     \* ownership.json: the instance it names
  secret,     \* instance.secret and management.secret
  port,       \* the listener on the gateway port
  pc,         \* the acquisition and use of a gateway by each process
  saw,        \* what the process read before its next step
  lease,      \* each process's lease: the host that counts it, and whether its TTL runs
  gw,         \* the gateway each process hosts, and its shutdown
  refusing,   \* hosts whose lease manager is stopping
  crashes,
  stolen,     \* observation: a live process's startup.lock was unlinked
  silent      \* observation: listening gateways an acquisition took for gone

disk == <<lock, leaseLock, record, secret>>
vars == <<lock, leaseLock, record, secret, port, pc, saw, lease, gw, refusing, crashes,
          stolen, silent>>

ProcOrNone == Procs \cup {NoProc}
Lock == [owner : ProcOrNone, full : BOOLEAN]
NoLock == [owner |-> NoProc, full |-> FALSE]
Created(p) == [owner |-> p, full |-> FALSE]
Written(p) == [owner |-> p, full |-> TRUE]
Lease == [at : ProcOrNone, live : BOOLEAN]
NoLease == [at |-> NoProc, live |-> FALSE]
Counted(h) == [at |-> h, live |-> TRUE]
Lapsed(h) == [at |-> h, live |-> FALSE]

Critical == {"write-lock", "inspect", "lease", "lease-store", "clean", "clean-record",
             "listen", "secret", "publish", "unlock", "abandon"}
Steps == Critical \cup {"new", "resident", "lock", "reclaim", "unlink", "run", "hosting",
                        "done", "dead"}
ShutdownHoldsLock == {"write-lock", "close", "check", "remove-secret", "remove-record",
                      "release"}
GatewaySteps == ShutdownHoldsLock \cup {"none", "open", "lock", "closed"}

TypeOK ==
  /\ lock \in Lock /\ (lock.full => lock.owner # NoProc)
  /\ leaseLock \in ProcOrNone
  /\ record \in ProcOrNone /\ secret \in ProcOrNone
  /\ port \in ProcOrNone \cup {Foreign}
  /\ pc \in [Procs -> Steps]
  /\ saw \in [Procs -> Lock]
  /\ lease \in [Procs -> Lease]
  /\ \A q \in Procs : lease[q].live => lease[q].at # NoProc
  /\ gw \in [Procs -> GatewaySteps]
  /\ refusing \subseteq Procs
  /\ crashes \in 0..MaxCrashes
  /\ stolen \in BOOLEAN
  /\ silent \subseteq Procs

Init ==
  /\ lock = NoLock /\ leaseLock = NoProc /\ record = NoProc /\ secret = NoProc
  /\ port = NoProc
  /\ pc = [p \in Procs |-> "new"]
  /\ saw = [p \in Procs |-> NoLock]
  /\ lease = [p \in Procs |-> NoLease]
  /\ gw = [p \in Procs |-> "none"]
  /\ refusing = {} /\ crashes = 0 /\ stolen = FALSE /\ silent = {}

-----------------------------------------------------------------------------
Gone(p) == pc[p] \in {"done", "dead"}
Goto(p, step) == pc' = [pc EXCEPT ![p] = step]

\* What an acquisition read does not outlive it, nor the next look at the lock.
Forget(p) == saw' = [saw EXCEPT ![p] = NoLock]

LeasesAt(h) == {q \in Procs : lease[q].at = h}

\* A listener answers with the identity of the published instance.
Attested == record # NoProc /\ secret = record /\ port = record

\* The process ends with what it holds in memory: its listener and the leases
\* it counts.  Its files stay.
Die(p) ==
  /\ Goto(p, "dead")
  /\ gw' = [gw EXCEPT ![p] = "closed"]
  /\ port' = IF port = p THEN NoProc ELSE port
  /\ lease' = [q \in Procs |-> IF lease[q].at = p THEN NoLease ELSE lease[q]]
  /\ Forget(p)

-----------------------------------------------------------------------------
(* startup.lock: O_EXCL creation, contents, attestation, reclaiming.       *)

StartLauncher(p) ==
  /\ pc[p] = "new" /\ p \notin Residents
  /\ Goto(p, "lock")
  /\ UNCHANGED <<disk, port, saw, lease, gw, refusing, crashes, stolen, silent>>

StartResident(p) ==
  /\ pc[p] = "new" /\ p \in Residents
  /\ Goto(p, "resident")
  /\ UNCHANGED <<disk, port, saw, lease, gw, refusing, crashes, stolen, silent>>

\* The service is content with a resident gateway, waits for a launcher's up to
\* a deadline, and refuses a listener it cannot attest.  One that does not
\* answer in time is none.  It holds no lock here.
ResidentInspects(p) ==
  /\ pc[p] = "resident"
  /\ \/ Goto(p, "lock")
     \/ port # NoProc /\ Goto(p, "done")
  /\ UNCHANGED <<disk, port, saw, lease, gw, refusing, crashes, stolen, silent>>

CreateLock(p) ==
  /\ pc[p] = "lock" /\ lock = NoLock
  /\ lock' = Created(p)
  /\ Goto(p, "write-lock")
  /\ Forget(p)
  /\ UNCHANGED <<leaseLock, record, secret, port, lease, gw, refusing, crashes, stolen, silent>>

\* The contents are written whatever became of the file.
\* Without the file, the chmod that follows the write throws.
WriteLock(p) ==
  /\ pc[p] = "write-lock"
  /\ lock' = IF lock.owner = p THEN Written(p) ELSE lock
  /\ Goto(p, IF lock = NoLock THEN "done" ELSE "inspect")
  /\ UNCHANGED <<leaseLock, record, secret, port, saw, lease, gw, refusing, crashes, stolen, silent>>

\* A stale lock: unreadable, or its owner's process identity is gone.
Stale(l) == ~l.full \/ Gone(l.owner)

\* Reclaiming without attesting the owner.
BugAttestStaleLock(p) ==
  /\ pc[p] = "lock" /\ lock # NoLock
  /\ saw' = [saw EXCEPT ![p] = lock]
  /\ Goto(p, "reclaim")
  /\ UNCHANGED <<disk, port, lease, gw, refusing, crashes, stolen, silent>>

AttestStaleLock(p) ==
  /\ pc[p] = "lock" /\ lock # NoLock /\ Stale(lock)
  /\ saw' = [saw EXCEPT ![p] = lock]
  /\ Goto(p, "reclaim")
  /\ UNCHANGED <<disk, port, lease, gw, refusing, crashes, stolen, silent>>

\* A live owner: the launcher retries 40 times, then gives up.
LockUnavailable(p) ==
  /\ pc[p] = "lock" /\ lock # NoLock /\ ~Stale(lock)
  /\ Goto(p, "done")
  /\ UNCHANGED <<disk, port, saw, lease, gw, refusing, crashes, stolen, silent>>

\* unlinkIfUnchanged compares, then unlinks.  It parses the contents: an
\* unreadable lock makes it throw, and the acquisition with it.
CompareLock(p) ==
  /\ pc[p] = "reclaim"
  /\ \/ lock # NoLock /\ ~lock.full /\ Goto(p, "done")
     \/ lock = saw[p] /\ lock.full /\ Goto(p, "unlink")
     \/ lock # saw[p] /\ (lock = NoLock \/ lock.full) /\ Goto(p, "lock")
  /\ UNCHANGED <<disk, port, saw, lease, gw, refusing, crashes, stolen, silent>>

UnlinkStaleLock(p) ==
  /\ pc[p] = "unlink"
  /\ stolen' = (stolen \/ lock \notin {NoLock, saw[p]})
  /\ lock' = NoLock
  /\ Goto(p, "lock")
  /\ UNCHANGED <<leaseLock, record, secret, port, saw, lease, gw, refusing, crashes, silent>>

\* RuntimeLock.release removes only the lock of this acquisition.  It parses
\* the file: another owner's lock that is not written yet makes it throw.
Released(p) == IF lock.owner = p THEN NoLock ELSE lock
ReleaseThrows(p) == lock.owner \notin {p, NoProc} /\ ~lock.full

\* A release that throws ends a launcher that reused a gateway; a process that
\* started one goes on serving.
Unlock(p) ==
  /\ pc[p] = "unlock"
  /\ lock' = Released(p)
  /\ Goto(p, IF ReleaseThrows(p) /\ gw[p] = "none" THEN "done" ELSE "run")
  /\ Forget(p)
  /\ UNCHANGED <<leaseLock, record, secret, port, lease, gw, refusing, crashes, stolen, silent>>

Abandon(p) ==
  /\ pc[p] = "abandon"
  /\ lock' = Released(p)
  /\ Goto(p, "done")
  /\ Forget(p)
  /\ UNCHANGED <<leaseLock, record, secret, port, lease, gw, refusing, crashes, stolen, silent>>

-----------------------------------------------------------------------------
(* Reusing the attested gateway.                                           *)

\* The identity challenge waits 750 ms.  A listener that does not attest, or
\* not in time, fails the acquisition if it answers GET /healthz within 500 ms;
\* whatever answers neither is no listener, and its artifacts are stale.
Inspect(p) ==
  /\ pc[p] = "inspect"
  /\ saw' = [saw EXCEPT ![p] = Written(record)]
  /\ \/ Attested /\ Goto(p, "lease") /\ UNCHANGED silent
     \/ port # NoProc /\ Goto(p, "abandon") /\ UNCHANGED silent
     \/ /\ Goto(p, IF record # NoProc THEN "clean" ELSE "listen")
        /\ silent' = silent \cup {q \in Procs : port = q /\ gw[q] = "open"}
  /\ UNCHANGED <<disk, port, lease, gw, refusing, crashes, stolen>>

Serves(h) == port = h /\ gw[h] \in {"open", "lock", "write-lock", "close"}

\* The host counts the lease whatever its lease manager is doing.
BugLeaseAdded(p) ==
  /\ pc[p] = "lease" /\ Serves(saw[p].owner)
  /\ leaseLock = NoProc
  /\ lease' = [lease EXCEPT ![p] = Counted(saw[p].owner)]
  /\ leaseLock' = saw[p].owner
  /\ Goto(p, "lease-store")
  /\ UNCHANGED <<lock, record, secret, port, saw, gw, refusing, crashes, stolen, silent>>

\* POST /leases/:id: the host counts the lease, then takes leases.lock to
\* rewrite its record.
LeaseAdded(p) ==
  /\ pc[p] = "lease" /\ Serves(saw[p].owner) /\ saw[p].owner \notin refusing
  /\ leaseLock = NoProc
  /\ lease' = [lease EXCEPT ![p] = Counted(saw[p].owner)]
  /\ leaseLock' = saw[p].owner
  /\ Goto(p, "lease-store")
  /\ UNCHANGED <<lock, record, secret, port, saw, gw, refusing, crashes, stolen, silent>>

\* The host is gone, stopping or silent for 750 ms, or leases.lock exists: no
\* attestation is ever offered for that lock.
LeaseRefused(p) ==
  /\ pc[p] = "lease"
  /\ Goto(p, "abandon")
  /\ UNCHANGED <<disk, port, saw, lease, gw, refusing, crashes, stolen, silent>>

\* The record is rewritten; without one the lease is taken back.  The client
\* may have timed out meanwhile: then the lease is counted for nobody.
LeaseStored(p) ==
  /\ pc[p] = "lease-store" /\ Serves(saw[p].owner)
  /\ leaseLock' = NoProc
  /\ \/ record # NoProc /\ pc' \in {[pc EXCEPT ![p] = s] : s \in {"unlock", "abandon"}}
        /\ UNCHANGED lease
     \/ record = NoProc /\ lease' = [lease EXCEPT ![p] = NoLease] /\ Goto(p, "abandon")
  /\ UNCHANGED <<lock, record, secret, port, saw, gw, refusing, crashes, stolen, silent>>

\* The host died, and leases.lock stays; or it closed the connection, and the
\* handler still runs to its end.
LeaseHostGone(p) ==
  /\ pc[p] = "lease-store" /\ ~Serves(saw[p].owner)
  /\ leaseLock' = IF leaseLock = saw[p].owner /\ pc[leaseLock] # "dead" THEN NoProc ELSE leaseLock
  /\ Goto(p, "abandon")
  /\ UNCHANGED <<lock, record, secret, port, saw, lease, gw, refusing, crashes, stolen, silent>>

-----------------------------------------------------------------------------
(* Starting a gateway: stale artifacts, listener, secrets, record.         *)

CleanStale(p) ==
  /\ pc[p] = "clean"
  /\ IF record = saw[p].owner THEN Goto(p, "clean-record") /\ secret' = NoProc
                              ELSE Goto(p, "listen") /\ UNCHANGED secret
  /\ UNCHANGED <<lock, leaseLock, record, port, saw, lease, gw, refusing, crashes, stolen, silent>>

CleanRecord(p) ==
  /\ pc[p] = "clean-record"
  /\ record' = NoProc
  /\ Goto(p, "listen")
  /\ UNCHANGED <<lock, leaseLock, secret, port, saw, lease, gw, refusing, crashes, stolen, silent>>

\* The first lease is the host's own, added before it listens.
Listen(p) ==
  /\ pc[p] = "listen" /\ port = NoProc
  /\ port' = p
  /\ gw' = [gw EXCEPT ![p] = "open"]
  /\ lease' = [lease EXCEPT ![p] = Counted(p)]
  /\ Goto(p, "secret")
  /\ UNCHANGED <<disk, saw, refusing, crashes, stolen, silent>>

\* The port is taken, or a store, the listener or a file fails: what was
\* started is closed, files already written stay.
StartFails(p) ==
  /\ pc[p] \in {"listen", "secret", "publish"} /\ gw[p] \in {"none", "open"}
  /\ port' = IF port = p THEN NoProc ELSE port
  /\ gw' = [gw EXCEPT ![p] = "closed"]
  /\ lease' = [q \in Procs |-> IF lease[q].at = p THEN NoLease ELSE lease[q]]
  /\ Goto(p, "abandon")
  /\ UNCHANGED <<disk, saw, refusing, crashes, stolen, silent>>

WriteSecrets(p) ==
  /\ pc[p] = "secret"
  /\ secret' = p
  /\ Goto(p, "publish")
  /\ UNCHANGED <<lock, leaseLock, record, port, saw, lease, gw, refusing, crashes, stolen, silent>>

PublishRecord(p) ==
  /\ pc[p] = "publish"
  /\ record' = p
  /\ Goto(p, "unlock")
  /\ UNCHANGED <<lock, leaseLock, secret, port, saw, lease, gw, refusing, crashes, stolen, silent>>

-----------------------------------------------------------------------------
(* Using the gateway: heartbeats, expiry, release.                         *)

\* No heartbeat for a TTL: the holder is gone, suspended or stalled.
Lapse(q) ==
  /\ lease[q].live
  /\ lease' = [lease EXCEPT ![q] = Lapsed(lease[q].at)]
  /\ UNCHANGED <<disk, port, pc, saw, gw, refusing, crashes, stolen, silent>>

\* A heartbeat that comes before the expiry timer revives the lease.
Heartbeat(q) ==
  /\ pc[q] \in {"unlock", "run"} /\ lease[q].at # NoProc /\ ~lease[q].live
  /\ Serves(lease[q].at) /\ lease[q].at \notin refusing
  /\ lease' = [lease EXCEPT ![q] = Counted(lease[q].at)]
  /\ UNCHANGED <<disk, port, pc, saw, gw, refusing, crashes, stolen, silent>>

\* Releasing the host's own lease stops the expiry timer.
Expire(h) ==
  /\ \E q \in LeasesAt(h) : ~lease[q].live
  /\ lease' = [q \in Procs |-> IF lease[q].at = h /\ ~lease[q].live THEN NoLease ELSE lease[q]]
  /\ UNCHANGED <<disk, port, pc, saw, gw, refusing, crashes, stolen, silent>>

\* DELETE /leases/:id.  removeLease throws without a record and on an existing
\* leases.lock: the host then counts the lease until its TTL.
ReleaseLease(p) ==
  lease' = IF /\ lease[p].at # NoProc /\ Serves(lease[p].at)
              /\ record # NoProc /\ leaseLock = NoProc
           THEN [lease EXCEPT ![p] = NoLease] ELSE lease

\* The launcher's child exits.
ChildExits(p) ==
  /\ pc[p] = "run" /\ p \notin Residents
  /\ Goto(p, IF gw[p] \in {"none", "closed"} THEN "done" ELSE "hosting")
  /\ ReleaseLease(p)
  /\ UNCHANGED <<disk, port, saw, gw, refusing, crashes, stolen, silent>>

\* The service never runs on another process's gateway.
ResidentRaced(p) ==
  /\ pc[p] = "run" /\ p \in Residents /\ gw[p] = "none"
  /\ ReleaseLease(p)
  /\ Goto(p, "resident")
  /\ UNCHANGED <<disk, port, saw, gw, refusing, crashes, stolen, silent>>

-----------------------------------------------------------------------------
(* Shutdown of the serving process.                                        *)

IdleTimeout(h) ==
  /\ gw[h] = "open" /\ LeasesAt(h) = {}
  /\ refusing' = refusing \cup {h}
  /\ gw' = [gw EXCEPT ![h] = "lock"]
  /\ UNCHANGED <<disk, port, pc, saw, lease, crashes, stolen, silent>>

\* POST /shutdown, SIGTERM or SIGINT; the lease manager is not told.
StopRequested(h) ==
  /\ gw[h] = "open" /\ h \in Residents /\ pc[h] = "run"
  /\ gw' = [gw EXCEPT ![h] = "lock"]
  /\ UNCHANGED <<disk, port, pc, saw, lease, refusing, crashes, stolen, silent>>

\* A stop during an idle shutdown runs a second performShutdown, which finds
\* the lock of the first: the process ends in the middle of it.
StopRaces(h) ==
  /\ gw[h] \in ShutdownHoldsLock /\ h \in refusing /\ h \in Residents
  /\ Die(h)
  /\ UNCHANGED <<disk, refusing, crashes, stolen, silent>>

\* The shutdown does not wait for the startup lock.
BugShutdownLocks(h) ==
  /\ gw[h] = "lock"
  /\ gw' = [gw EXCEPT ![h] = "close"]
  /\ UNCHANGED <<disk, port, pc, saw, lease, refusing, crashes, stolen, silent>>

ShutdownLocks(h) ==
  /\ gw[h] = "lock" /\ lock = NoLock
  /\ lock' = Created(h)
  /\ gw' = [gw EXCEPT ![h] = "write-lock"]
  /\ UNCHANGED <<leaseLock, record, secret, port, pc, saw, lease, refusing, crashes, stolen, silent>>

\* A stale lock is waited for.
BugShutdownThrows(h) ==
  /\ gw[h] = "lock" /\ lock # NoLock /\ ~Stale(lock)
  /\ Die(h)
  /\ UNCHANGED <<disk, refusing, crashes, stolen, silent>>

\* Any lock, stale or live, makes performShutdown throw.  Nobody awaits it on
\* the idle and stop paths: the unhandled rejection ends the process.
ShutdownThrows(h) ==
  /\ gw[h] = "lock" /\ lock # NoLock
  /\ Die(h)
  /\ UNCHANGED <<disk, refusing, crashes, stolen, silent>>

ShutdownWritesLock(h) ==
  /\ gw[h] = "write-lock"
  /\ \/ /\ lock # NoLock
        /\ lock' = IF lock.owner = h THEN Written(h) ELSE lock
        /\ gw' = [gw EXCEPT ![h] = "close"]
        /\ UNCHANGED <<port, pc, lease, saw>>
     \/ lock = NoLock /\ Die(h) /\ UNCHANGED lock
  /\ UNCHANGED <<leaseLock, record, secret, refusing, crashes, stolen, silent>>

\* A close drains the requests in flight, or is forced after its timeout;
\* then the artifacts stay.
CloseServers(h) ==
  /\ gw[h] = "close"
  /\ port' = IF port = h THEN NoProc ELSE port
  /\ \/ leaseLock # h /\ gw' = [gw EXCEPT ![h] = "check"]
     \/ gw' = [gw EXCEPT ![h] = "release"]
  /\ lease' = [q \in Procs |-> IF lease[q].at = h THEN NoLease ELSE lease[q]]
  /\ UNCHANGED <<disk, pc, saw, refusing, crashes, stolen, silent>>

\* removeInstanceArtifacts compares the record once, then unlinks the files.
RemoveArtifacts(h) ==
  /\ gw[h] = "check"
  /\ gw' = [gw EXCEPT ![h] = IF record = h THEN "remove-secret" ELSE "release"]
  /\ UNCHANGED <<disk, port, pc, saw, lease, refusing, crashes, stolen, silent>>

RemoveSecrets(h) ==
  /\ gw[h] = "remove-secret"
  /\ secret' = NoProc
  /\ gw' = [gw EXCEPT ![h] = "remove-record"]
  /\ UNCHANGED <<lock, leaseLock, record, port, pc, saw, lease, refusing, crashes, stolen, silent>>

RemoveRecord(h) ==
  /\ gw[h] = "remove-record"
  /\ record' = NoProc
  /\ gw' = [gw EXCEPT ![h] = "release"]
  /\ UNCHANGED <<lock, leaseLock, secret, port, pc, saw, lease, refusing, crashes, stolen, silent>>

\* Without servers nothing keeps a process without a child alive; a release
\* that throws ends it.
ShutdownReleases(h) ==
  /\ gw[h] = "release"
  /\ lock' = Released(h)
  /\ gw' = [gw EXCEPT ![h] = "closed"]
  /\ pc' = [pc EXCEPT ![h] = CASE ReleaseThrows(h)                  -> "dead"
                               [] @ = "hosting" \/ h \in Residents -> "done"
                               [] OTHER                            -> @]
  /\ UNCHANGED <<leaseLock, record, secret, port, saw, lease, refusing, crashes, stolen, silent>>

-----------------------------------------------------------------------------
Crash(p) ==
  /\ pc[p] # "new" /\ ~Gone(p) /\ crashes < MaxCrashes
  /\ crashes' = crashes + 1
  /\ Die(p)
  /\ UNCHANGED <<disk, refusing, stolen, silent>>

ForeignListens ==
  /\ port = NoProc
  /\ port' = Foreign
  /\ UNCHANGED <<disk, pc, saw, lease, gw, refusing, crashes, stolen, silent>>

ForeignLeaves ==
  /\ port = Foreign
  /\ port' = NoProc
  /\ UNCHANGED <<disk, pc, saw, lease, gw, refusing, crashes, stolen, silent>>

-----------------------------------------------------------------------------
Acquire(p) ==
  \/ ResidentInspects(p) \/ CreateLock(p) \/ WriteLock(p) \/ AttestStaleLock(p)
  \/ CompareLock(p) \/ UnlinkStaleLock(p) \/ Unlock(p) \/ Abandon(p)
  \/ Inspect(p) \/ LeaseAdded(p) \/ LeaseRefused(p) \/ LeaseStored(p) \/ LeaseHostGone(p)
  \/ CleanStale(p) \/ CleanRecord(p) \/ Listen(p) \/ WriteSecrets(p) \/ PublishRecord(p)
  \/ ResidentRaced(p)

Shutdown(h) ==
  \/ IdleTimeout(h) \/ ShutdownLocks(h) \/ ShutdownThrows(h) \/ ShutdownWritesLock(h)
  \/ CloseServers(h) \/ RemoveArtifacts(h) \/ RemoveSecrets(h) \/ RemoveRecord(h)
  \/ ShutdownReleases(h)

Next ==
  \/ \E p \in Procs :
       \/ StartLauncher(p) \/ StartResident(p)
       \/ Acquire(p) \/ LockUnavailable(p) \/ StartFails(p)
       \/ Lapse(p) \/ Heartbeat(p) \/ Expire(p) \/ ChildExits(p)
       \/ Shutdown(p) \/ StopRequested(p) \/ StopRaces(p) \/ Crash(p)
  \/ ForeignListens \/ ForeignLeaves

Spec == Init /\ [][Next]_vars

\* Serving processes keep running and their timers fire: the steps of a
\* shutdown, the expiry timer, and the TTL of a lease nobody renews.  No
\* launcher has to make progress.
FairSpec ==
  /\ Spec
  /\ \A p \in Procs :
       /\ WF_vars(Shutdown(p))
       /\ WF_vars(Expire(p))
       /\ WF_vars(Gone(p) /\ Lapse(p))

-----------------------------------------------------------------------------
(* Properties.                                                             *)

InCriticalSection(p) == pc[p] \in Critical \/ gw[p] \in ShutdownHoldsLock

\* Only one process is between taking and releasing startup.lock, starting,
\* reusing or shutting down, over crashes that leave the lock behind; unless a
\* reclaimer unlinked a lock created after the one it compared.
SingleHolder ==
  ~stolen => \A p, q \in Procs : InCriticalSection(p) /\ InCriticalSection(q) => p = q

Published(p) == gw[p] = "open" /\ pc[p] \in {"unlock", "run", "hosting"}

\* A gateway that was published and is not shutting down can be attested and
\* so reused: no other start, reclaim or shutdown removed or replaced its
\* record or secrets.  Only an acquisition that heard nothing from it before
\* its timeouts may have removed them, and not even that puts another's there.
PublishedStaysAttestable ==
  ~stolen => \A p \in Procs : Published(p) =>
    /\ record \in {p, NoProc} /\ secret \in {p, NoProc}
    /\ p \notin silent => Attested /\ record = p

\* Nobody counts on a gateway that decided to stop for idleness: no lease
\* was admitted after the decision, in particular none between the timer and
\* the lock.
IdleStopUnleased ==
  \A h \in refusing : LeasesAt(h) = {}

\* The lease of a launcher that died is taken back, so it cannot keep a
\* gateway alive.
DeadLauncherExpires ==
  \A q \in Procs : (Gone(q) /\ lease[q].at # NoProc) ~> (lease[q].at = NoProc)

\* A gateway without leases frees the port, unless a launcher takes a lease
\* first: an existing startup lock does not keep it up.
IdleGatewayStops ==
  \A h \in Procs : (port = h /\ LeasesAt(h) = {}) ~> (port # h \/ LeasesAt(h) # {})

\* Nothing keeps a gateway up that nobody uses.
UnusedGatewayStops == DeadLauncherExpires /\ IdleGatewayStops

\* runtime-store.ts:166: removeInstanceArtifacts, called by a shutdown or by a
\* start that cleans up after a dead gateway, removes only artifacts still
\* bound to the instance it was called for: what is published stays.
ArtifactsNotErased == \A p \in Procs : Published(p) => record = p /\ secret = p

=============================================================================
