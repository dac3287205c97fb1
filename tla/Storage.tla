------------------------------ MODULE Storage ------------------------------
(***************************************************************************)
(* The control-plane directory on disk and the processes that open it:     *)
(* the one-time move of the legacy state root (storage/paths.ts), the      *)
(* ownership lock (storage/ownership-lock.ts), schema migrations with      *)
(* their backup and marker (storage/migrations.ts), and the retention run  *)
(* of a starting gateway (storage/retention.ts).                           *)
(*                                                                         *)
(* A state root is one record, moved as a whole by rename.  The database   *)
(* is its schema version, the acknowledged writes it holds, and what state *)
(* its file is in: whole, torn (a copy over it is under way) or "wal" (the *)
(* copy is complete and the write-ahead log of the file it replaced is     *)
(* still beside it).  A process may die between any two steps.             *)
(***************************************************************************)
EXTENDS Naturals, Sequences, FiniteSets

CONSTANTS
  Procs,        \* processes that open the control plane
  Gateway,      \* the one of them that is a gateway; the others are rly init
  Target,       \* the schema version each process's binary migrates to
  MaxSchema,    \* bound: the newest schema version a database may have
  InitialRoots, \* the sets of roots that may exist at first
  Reclaimers,   \* bound: processes at once between comparing a stale lock
                \* and removing it
  MaxWrites,    \* bound: acknowledged writes
  MaxCrashes,   \* bound: processes killed
  MaxFailures,  \* bound: migrations whose SQL fails
  MaxAges       \* bound: times the clock passes the retention ages

None == "none"
Dead == "dead"

ASSUME StorageAssumption ==
  /\ IsFiniteSet(Procs) /\ Gateway \in Procs /\ {None, Dead} \cap Procs = {}
  /\ Target \in [Procs -> 1..MaxSchema]
  /\ InitialRoots \subseteq SUBSET {"canonical", "legacy"}
  /\ {MaxSchema, MaxWrites, MaxCrashes, MaxFailures, MaxAges} \subseteq Nat

VARIABLES
  root,       \* the state root ~/.rly
  legacy,     \* and the one of an earlier release, ~/.agent-gateway
  stateLock,  \* ~/.rly-state-migration.lock: the process that created it
  pc,         \* where each process is
  mover,      \* processes that moved the legacy root and did not settle it
  undoing,    \* processes whose migration failed and is being undone
  detached,   \* a restore has copied over the database the gateway has open
  acked,      \* history: the writes acknowledged to a client, but those
              \* committed while another process migrates or after it restored
  owed,       \* history: classes the retention run in progress has to apply
  expired,    \* retention classes with items past their age
  used        \* how much of each bound is spent, and the backups made

tree == <<root, legacy>>
vars == <<root, legacy, stateLock, pc, mover, undoing, detached, acked, owed, expired, used>>

Prior == 0   \* the writes of earlier releases
NoTree == [exists |-> FALSE]

\* The classes a retention run applies, in order.
CLASS_ORDER == <<"logs", "audit", "continuation", "backups", "expiredCredentials">>
Classes == {CLASS_ORDER[i] : i \in DOMAIN CLASS_ORDER}

\* A root as the first mkdir leaves it (no schema, no rows), or as an earlier
\* release left it.
Root(schema, rows) ==
  [exists |-> TRUE, schema |-> schema, rows |-> rows, file |-> "whole", backups |-> {},
   marker |-> None, lock |-> None, retention |-> << >>, touched |-> FALSE]

SetRoot(r) == root' = r /\ UNCHANGED legacy
Goto(p, where) == pc' = [pc EXCEPT ![p] = where]
Spend(bound, limit) == used[bound] < limit /\ used' = [used EXCEPT ![bound] = @ + 1]

\* The files of a root: the database, its lock, its marker and its backups, and
\* the marker of a retention run, which holds the classes still to apply.
Schemas == 0..MaxSchema
Rows == SUBSET (0..MaxWrites)
BackupId == Procs \X Nat
Backup == [id : BackupId, schema : Schemas, rows : Rows, old : BOOLEAN]
StateRoot ==
  [exists : {TRUE}, schema : Schemas, rows : Rows, file : {"whole", "torn", "wal"},
   backups : SUBSET Backup, marker : BackupId \cup {None}, lock : Procs \cup {None, Dead},
   retention : Seq(Classes), touched : BOOLEAN]

Used == [writes : 0..MaxWrites, crashes : 0..MaxCrashes, failures : 0..MaxFailures,
         ages : 0..MaxAges, backups : Nat]
Places == {"off", "stateLock", "move", "open", "lock", "reclaim", "recover", "copy", "removeWal",
           "restored", "database", "mark", "migrate", "commit", "retain", "apply", "advance",
           "serve", "failed"}

TypeOK ==
  /\ root \in StateRoot \cup {NoTree} /\ legacy \in StateRoot \cup {NoTree}
  /\ stateLock \in Procs \cup {None}
  /\ pc \in [Procs -> Places]
  /\ mover \subseteq Procs /\ undoing \subseteq Procs /\ detached \in BOOLEAN
  /\ acked \in Rows /\ owed \subseteq Classes /\ expired \subseteq Classes
  /\ used \in Used

BackupOf(t) == {b \in t.backups : b.id = t.marker}

Init ==
  /\ \E roots \in InitialRoots, schema \in 0..MaxSchema :
       /\ root = IF "canonical" \in roots THEN Root(schema, {Prior}) ELSE NoTree
       /\ legacy = IF "legacy" \in roots THEN Root(schema, {Prior}) ELSE NoTree
       /\ acked = IF roots = {} THEN {} ELSE {Prior}
  /\ stateLock = None
  /\ pc = [p \in Procs |-> "off"]
  /\ mover = {} /\ undoing = {} /\ detached = FALSE /\ owed = {} /\ expired = {}
  /\ used = [writes |-> 0, crashes |-> 0, failures |-> 0, ages |-> 0, backups |-> 0]

-----------------------------------------------------------------------------
(* resolveDefaultControlPlaneDirectory: moving the legacy root.            *)

\* Both roots refuse the start; without a legacy root there is nothing to do.
Resolve(p) ==
  /\ pc[p] = "off"
  /\ Goto(p, IF ~legacy.exists THEN "open"
             ELSE IF root.exists THEN "off" ELSE "stateLock")
  /\ UNCHANGED <<tree, stateLock, mover, undoing, detached, acked, owed, expired, used>>

TakeStateLock(p) ==
  /\ pc[p] = "stateLock" /\ stateLock = None
  /\ stateLock' = p
  /\ Goto(p, "move")
  /\ UNCHANGED <<tree, mover, undoing, detached, acked, owed, expired, used>>

\* Forty attempts, then "RLY state migration is already in progress".
StateLockHeld(p) ==
  /\ pc[p] = "stateLock" /\ stateLock # None
  /\ Goto(p, "off")
  /\ UNCHANGED <<tree, stateLock, mover, undoing, detached, acked, owed, expired, used>>

\* Under the lock: look again and rename.  A process that finds the move
\* already done returns a settled resolution, whose commit and rollback do
\* nothing: the lock file it has just created stays.
MoveLegacyRoot(p) ==
  /\ pc[p] = "move"
  /\ IF legacy.exists /\ root.exists
     THEN /\ stateLock' = None /\ Goto(p, "off") /\ UNCHANGED <<tree, mover>>
     ELSE IF legacy.exists
     THEN /\ root' = [legacy EXCEPT !.touched = FALSE] /\ legacy' = NoTree
          /\ mover' = mover \cup {p} /\ Goto(p, "open") /\ UNCHANGED stateLock
     ELSE Goto(p, "open") /\ UNCHANGED <<tree, stateLock, mover>>
  /\ UNCHANGED <<undoing, detached, acked, owed, expired, used>>

\* The open failed.  The process that moved the root moves it back if the
\* tree is still the one it moved, and releases the lock in any case.
Rollback(p) ==
  /\ pc[p] = "failed"
  /\ Goto(p, "off")
  /\ IF p \in mover
     THEN /\ mover' = mover \ {p} /\ stateLock' = None
          /\ IF legacy.exists \/ root.touched \/ root.lock # None
             THEN UNCHANGED tree
             ELSE root' = NoTree /\ legacy' = root
     ELSE UNCHANGED <<tree, stateLock, mover>>
  /\ UNCHANGED <<undoing, detached, acked, owed, expired, used>>

-----------------------------------------------------------------------------
(* acquireOwnershipLock on the migration lock.                             *)

\* The directories are created first.
Open(p) ==
  /\ pc[p] = "open"
  /\ IF root.exists THEN UNCHANGED tree ELSE SetRoot([Root(0, {}) EXCEPT !.touched = TRUE])
  /\ Goto(p, "lock")
  /\ UNCHANGED <<stateLock, mover, undoing, detached, acked, owed, expired, used>>

Lock(p) ==
  /\ pc[p] = "lock" /\ root.exists /\ root.lock = None
  /\ SetRoot([root EXCEPT !.lock = p])
  /\ Goto(p, "recover")
  /\ UNCHANGED <<stateLock, mover, undoing, detached, acked, owed, expired, used>>

\* The owner is alive for forty attempts, or the directory has been moved away.
LockHeld(p) ==
  /\ pc[p] = "lock"
  /\ IF root.exists THEN root.lock \in Procs ELSE TRUE
  /\ Goto(p, "failed")
  /\ UNCHANGED <<tree, stateLock, mover, undoing, detached, acked, owed, expired, used>>

\* The owner is gone and a second reading finds the same lock ...
CompareStaleLock(p) ==
  /\ pc[p] = "lock" /\ root.exists /\ root.lock = Dead
  /\ Cardinality({q \in Procs : pc[q] = "reclaim"}) < Reclaimers
  /\ Goto(p, "reclaim")
  /\ UNCHANGED <<tree, stateLock, mover, undoing, detached, acked, owed, expired, used>>

\* ... then the path is unlinked, whatever is there by now.
UnlinkStaleLock(p) ==
  /\ pc[p] = "reclaim"
  /\ IF root.exists THEN SetRoot([root EXCEPT !.lock = None]) ELSE UNCHANGED tree
  /\ Goto(p, "lock")
  /\ UNCHANGED <<stateLock, mover, undoing, detached, acked, owed, expired, used>>

\* Releases the lock only if it is still this process's.
Released(t, p) == IF t.lock = p THEN [t EXCEPT !.lock = None] ELSE t

-----------------------------------------------------------------------------
(* restoreVerifiedBackup, shared by recovery and by an undone migration.   *)

BugRecover(p) ==
  /\ pc[p] = "recover"
  /\ IF root.marker = None \/ root.file = "whole" THEN Goto(p, "database") /\ UNCHANGED tree
     ELSE Goto(p, "copy") /\ SetRoot([root EXCEPT !.file = "torn"])
  /\ UNCHANGED <<stateLock, mover, undoing, detached, acked, owed, expired, used>>

\* recoverInterruptedMigration, or a failed migration: without a marker there
\* is nothing to recover; a backup that is missing fails verification.
Recover(p) ==
  /\ pc[p] = "recover"
  /\ IF root.marker = None THEN Goto(p, "database") /\ UNCHANGED tree
     ELSE IF BackupOf(root) = {}
     THEN Goto(p, "failed") /\ SetRoot(Released(root, p))
     ELSE Goto(p, "copy") /\ SetRoot([root EXCEPT !.file = "torn"])
  /\ UNCHANGED <<stateLock, mover, undoing, detached, acked, owed, expired, used>>

BugCopyBackup(p) ==
  /\ pc[p] = "copy"
  /\ \E b \in BackupOf(root) :
       SetRoot([root EXCEPT !.schema = b.schema, !.rows = b.rows, !.file = "wal", !.marker = None])
  /\ Goto(p, "removeWal")
  /\ UNCHANGED <<stateLock, mover, undoing, detached, acked, owed, expired, used>>

\* The copy replaces the file also under a gateway that has it open, whose
\* write-ahead log goes next: what it commits from here on is in neither.
CopyBackup(p) ==
  /\ pc[p] = "copy"
  /\ \E b \in BackupOf(root) :
       SetRoot([root EXCEPT !.schema = b.schema, !.rows = b.rows, !.file = "wal"])
  /\ detached' = (detached \/ pc[Gateway] \in {"commit", "retain", "apply", "advance", "serve"})
  /\ Goto(p, "removeWal")
  /\ UNCHANGED <<stateLock, mover, undoing, acked, owed, expired, used>>

RemoveOldWal(p) ==
  /\ pc[p] = "removeWal"
  /\ SetRoot([root EXCEPT !.file = "whole"])
  /\ Goto(p, "restored")
  /\ UNCHANGED <<stateLock, mover, undoing, detached, acked, owed, expired, used>>

\* The marker goes last; an undone migration then fails the open.
RemoveMarkerOfRestored(p) ==
  /\ pc[p] = "restored"
  /\ IF p \in undoing
     THEN SetRoot(Released([root EXCEPT !.marker = None], p)) /\ Goto(p, "failed")
     ELSE SetRoot([root EXCEPT !.marker = None]) /\ Goto(p, "database")
  /\ undoing' = undoing \ {p}
  /\ UNCHANGED <<stateLock, mover, detached, acked, owed, expired, used>>

-----------------------------------------------------------------------------
(* migrateOpenDatabase.                                                    *)

BugNewBackup(p) ==
  [id |-> <<p, used.backups + 1>>, schema |-> root.schema, rows |-> root.rows \cap {Prior}, old |-> FALSE]

\* A backup's name is never used twice.  It holds what the write-ahead log holds
\* too: the database's own backup makes it, not a copy of its file.
NewBackup(p) ==
  [id |-> <<p, used.backups + 1>>, schema |-> root.schema, rows |-> root.rows, old |-> FALSE]
LastOf(p, b, t) == b.id[1] = p /\ \A c \in t.backups : c.id[1] = p => c.id[2] <= b.id[2]

\* Equal versions: the open is complete.  A newer schema, or a file SQLite
\* cannot read, fails it.  An older one is backed up first.
OpenDatabase(p) ==
  /\ pc[p] = "database"
  /\ IF root.file # "whole" \/ root.schema > Target[p]
     THEN SetRoot(Released(root, p)) /\ Goto(p, "failed") /\ UNCHANGED used
     ELSE IF root.schema = Target[p]
     THEN /\ SetRoot(Released([root EXCEPT !.touched = TRUE], p)) /\ Goto(p, "commit")
          /\ UNCHANGED used
     ELSE /\ used' = [used EXCEPT !.backups = @ + 1]
          /\ SetRoot([root EXCEPT !.touched = TRUE, !.backups = @ \cup {NewBackup(p)}])
          /\ Goto(p, "mark")
  /\ UNCHANGED <<stateLock, mover, undoing, detached, acked, owed, expired>>

\* The marker names the backup this process has just made.
WriteMarker(p) ==
  /\ pc[p] = "mark"
  /\ \E b \in root.backups : LastOf(p, b, root) /\ SetRoot([root EXCEPT !.marker = b.id])
  /\ Goto(p, "migrate")
  /\ UNCHANGED <<stateLock, mover, undoing, detached, acked, owed, expired, used>>

\* One pending migration, one transaction.
ApplyMigration(p) ==
  /\ pc[p] = "migrate" /\ root.schema < Target[p]
  /\ SetRoot([root EXCEPT !.schema = @ + 1])
  /\ UNCHANGED <<stateLock, pc, mover, undoing, detached, acked, owed, expired, used>>

\* Its SQL fails and is rolled back: close, restore, remove the marker, throw.
MigrationFails(p) ==
  /\ pc[p] = "migrate" /\ root.schema < Target[p]
  /\ Spend("failures", MaxFailures)
  /\ undoing' = undoing \cup {p}
  /\ Goto(p, "recover")
  /\ UNCHANGED <<tree, stateLock, mover, detached, acked, owed, expired>>

FinishMigration(p) ==
  /\ pc[p] = "migrate" /\ root.schema = Target[p]
  /\ SetRoot(Released([root EXCEPT !.marker = None], p))
  /\ Goto(p, "commit")
  /\ UNCHANGED <<stateLock, mover, undoing, detached, acked, owed, expired, used>>

\* The caller commits the moved root, which releases the state lock.  rly init
\* is done with the store; a gateway goes on to retention.
Commit(p) ==
  /\ pc[p] = "commit"
  /\ mover' = mover \ {p}
  /\ stateLock' = IF p \in mover THEN None ELSE stateLock
  /\ Goto(p, IF p = Gateway THEN "retain" ELSE "off")
  /\ UNCHANGED <<tree, undoing, detached, acked, owed, expired, used>>

-----------------------------------------------------------------------------
(* applyRetentionPolicy.                                                   *)

BugStartRetention(p) ==
  /\ pc[p] = "retain"
  /\ LET remaining == IF root.retention = << >> THEN CLASS_ORDER
                      ELSE IF Len(root.retention) = 1 THEN root.retention ELSE Tail(root.retention)
     IN SetRoot([root EXCEPT !.retention = remaining])
  /\ owed' = IF root.retention = << >> THEN Classes ELSE owed
  /\ Goto(p, "apply")
  /\ UNCHANGED <<stateLock, mover, undoing, detached, acked, expired, used>>

\* The classes an interrupted run left, or all of them.
StartRetention(p) ==
  /\ pc[p] = "retain"
  /\ SetRoot([root EXCEPT !.retention = IF @ = << >> THEN CLASS_ORDER ELSE @])
  /\ owed' = IF root.retention = << >> THEN Classes ELSE owed
  /\ Goto(p, "apply")
  /\ UNCHANGED <<stateLock, mover, undoing, detached, acked, expired, used>>

\* Deletes the items of the first remaining class that are past their age.
\* The audit class opens the database a second time; failing, it deletes
\* nothing and the run goes on.
ApplyClass(p) ==
  /\ pc[p] = "apply" /\ root.retention # << >>
  /\ LET class == Head(root.retention) IN
       /\ IF class = "audit" /\ root.lock \in Procs
          THEN UNCHANGED expired ELSE expired' = expired \ {class}
       /\ IF class = "backups"
          THEN SetRoot([root EXCEPT !.backups = {b \in @ : ~b.old}]) ELSE UNCHANGED tree
       /\ owed' = owed \ {class}
  /\ Goto(p, "advance")
  /\ UNCHANGED <<stateLock, mover, undoing, detached, acked, used>>

\* Then the marker is rewritten with the rest, or removed when there is none.
AdvanceRetention(p) ==
  /\ pc[p] = "advance" /\ root.retention # << >>
  /\ SetRoot([root EXCEPT !.retention = Tail(@)])
  /\ Goto(p, IF Len(root.retention) = 1 THEN "serve" ELSE "apply")
  /\ UNCHANGED <<stateLock, mover, undoing, detached, acked, owed, expired, used>>

-----------------------------------------------------------------------------
(* Serving, dying, and the clock.                                          *)

\* No other process is between its backup of the database and the end of its
\* migration, and none has restored one under the gateway.
Undisturbed ==
  root.marker = None /\ ~detached /\ \A p \in Procs : pc[p] # "mark"

\* A committed transaction of an open store, acknowledged to its client.
Write(p) ==
  /\ pc[p] = "serve" /\ root.file = "whole"
  /\ Spend("writes", MaxWrites)
  /\ SetRoot([root EXCEPT !.rows = IF detached THEN @ ELSE @ \cup {used'.writes}])
  /\ acked' = IF Undisturbed THEN acked \cup {used'.writes} ELSE acked
  /\ UNCHANGED <<stateLock, pc, mover, undoing, detached, owed, expired>>

Close(p) ==
  /\ pc[p] = "serve"
  /\ Goto(p, "off")
  /\ detached' = FALSE
  /\ UNCHANGED <<tree, stateLock, mover, undoing, acked, owed, expired, used>>

\* The locks it created stay behind; only the migration lock names its owner.
Crash(p) ==
  /\ pc[p] # "off"
  /\ Spend("crashes", MaxCrashes)
  /\ Goto(p, "off")
  /\ IF root.exists /\ root.lock = p THEN SetRoot([root EXCEPT !.lock = Dead]) ELSE UNCHANGED tree
  /\ mover' = mover \ {p} /\ undoing' = undoing \ {p} /\ detached' = (detached /\ p # Gateway)
  /\ UNCHANGED <<stateLock, acked, owed, expired>>

\* A root whose backups are all past their age.
Aged(t) ==
  IF t.exists THEN [t EXCEPT !.backups = {[b EXCEPT !.old = TRUE] : b \in @}] ELSE t

\* Items pass their retention age.  It is weeks: no process is then between
\* two steps of a start.
Age ==
  /\ \A p \in Procs : pc[p] \in {"off", "serve"}
  /\ Spend("ages", MaxAges)
  /\ expired' = Classes
  /\ root' = Aged(root) /\ legacy' = Aged(legacy)
  /\ UNCHANGED <<stateLock, pc, mover, undoing, detached, acked, owed>>

Next ==
  \/ \E p \in Procs :
       \/ Resolve(p) \/ TakeStateLock(p) \/ StateLockHeld(p) \/ MoveLegacyRoot(p)
       \/ Rollback(p) \/ Open(p) \/ Lock(p) \/ LockHeld(p)
       \/ CompareStaleLock(p) \/ UnlinkStaleLock(p)
       \/ Recover(p) \/ CopyBackup(p) \/ RemoveOldWal(p) \/ RemoveMarkerOfRestored(p)
       \/ OpenDatabase(p) \/ WriteMarker(p) \/ ApplyMigration(p) \/ MigrationFails(p)
       \/ FinishMigration(p) \/ Commit(p)
       \/ StartRetention(p) \/ ApplyClass(p) \/ AdvanceRetention(p)
       \/ Write(p) \/ Close(p) \/ Crash(p)
  \/ Age

Spec == Init /\ [][Next]_vars

-----------------------------------------------------------------------------
\* Whatever step a start dies at, and whichever step the next one dies at, a
\* database that is torn, or has another file's write-ahead log beside it, is
\* always under a marker that makes the next open restore it.
WholeWhenUnmarked ==
  \A t \in {root, legacy} : t.exists => (t.marker = None => t.file = "whole")

\* What the next open of a root will find: the backup its marker names, or the
\* database itself.
Readable(t) ==
  IF ~t.exists THEN {}
  ELSE IF t.marker = None THEN t.rows ELSE UNION {b.rows : b \in BackupOf(t)}

\* A write acknowledged to a client while no other process migrates is found by
\* the next open of the root it went to, whatever release opens it: no later,
\* undone, interrupted or repeated migration, no retention run and no move of
\* the root loses it.
AckedSurvives == acked \subseteq Readable(root) \cup Readable(legacy)

\* A marker never outlives the backup it names: the retention run that deletes
\* old backups only follows an open that has consumed the marker.
MarkerHasBackup ==
  \A t \in {root, legacy} : t.exists => (t.marker # None => BackupOf(t) # {})

\* The retention marker is removed only when every class has been applied since
\* the run began, however often it was interrupted and resumed.
RetentionCoversAll ==
  [][root.exists /\ root'.exists /\ root.retention # << >> /\ root'.retention = << >>
       => owed = {}]_vars

\* The message that refuses a start while the state lock exists is true: some
\* process is moving the legacy root.
StateLockMeansMigration ==
  stateLock # None => stateLock \in mover \/ pc[stateLock] = "move"
=============================================================================
