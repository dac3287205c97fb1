--------------------------- MODULE Storage_proofs ---------------------------
(***************************************************************************)
(* Theorems about the control-plane directory, for any number of processes,*)
(* schema versions, writes, crashes, failed migrations and passages of     *)
(* time.                                                                   *)
(*                                                                         *)
(* Three invariants, each on top of the others.  Layout says who may be    *)
(* where: the migration lock is its holder's, a root that nobody has opened*)
(* is as an earlier release left it, and the retention marker lists what is*)
(* owed.  Safe says what the database file, its marker and its backups are *)
(* worth at each step of openMigratedDatabase, and Kept says the same of   *)
(* the rows they hold.                                                     *)
(*                                                                         *)
(* All need one process at a time between comparing a stale lock and       *)
(* unlinking it (Reclaimers = 1), which the code does not enforce.  The    *)
(* processes may be of different releases.                                 *)
(***************************************************************************)
EXTENDS Storage, FiniteSetTheorems, SequenceTheorems, TLAPS

-----------------------------------------------------------------------------
(* Roots, backups and classes.                                             *)

\* A root as the first mkdir or an earlier release leaves it.
LEMMA RootType ==
  ASSUME NEW schema \in Schemas, NEW rows \in Rows
  PROVE  LET t == Root(schema, rows) IN
         /\ t \in StateRoot /\ t.exists
         /\ t.rows = rows /\ t.file = "whole" /\ t.backups = {} /\ t.marker = None
         /\ t.lock = None /\ t.retention = << >> /\ t.touched = FALSE
<1>1. << >> \in Seq(Classes)
  OBVIOUS
<1> QED
  BY <1>1 DEF StateRoot, Root

\* The root openMigratedDatabase creates.
LEMMA NewRoot ==
  LET t == [Root(0, {}) EXCEPT !.touched = TRUE] IN
         /\ t \in StateRoot /\ t.exists
         /\ t.backups = {} /\ t.marker = None /\ t.file = "whole"
         /\ t.lock = None /\ t.retention = << >> /\ t.touched
<1>1. 0 \in Schemas /\ {} \in Rows
  BY StorageAssumption DEF Schemas, Rows
<1> DEFINE t == Root(0, {})
<1>2. /\ t \in StateRoot /\ t.backups = {} /\ t.marker = None
      /\ t.file = "whole" /\ t.lock = None /\ t.retention = << >>
  BY <1>1, RootType
<1> DEFINE u == [t EXCEPT !.touched = TRUE]
<1>3. u = [Root(0, {}) EXCEPT !.touched = TRUE]
  OBVIOUS
<1> HIDE DEF t
<1>4. /\ u \in StateRoot /\ u.exists
      /\ u.backups = {} /\ u.marker = None /\ u.file = "whole"
      /\ u.lock = None /\ u.retention = << >> /\ u.touched
  BY <1>2 DEF StateRoot
<1> QED
  BY <1>3, <1>4

\* A retention run begins with every class.
LEMMA ClassFacts ==
  /\ CLASS_ORDER \in Seq(Classes) /\ CLASS_ORDER # << >>
  /\ \A c \in Classes : \E i \in 1..Len(CLASS_ORDER) : CLASS_ORDER[i] = c
  BY DEF CLASS_ORDER, Classes

\* The backup of a migration: a fresh name, and the rows of the database.
LEMMA NewBackupType ==
  ASSUME TypeOK, root.exists, NEW p \in Procs
  PROVE  /\ NewBackup(p) \in Backup /\ NewBackup(p).rows = root.rows
         /\ NewBackup(p).id[1] = p /\ NewBackup(p).id[2] = used.backups + 1
<1>1. root \in StateRoot /\ used.backups \in Nat
  BY DEF TypeOK, NoTree, Used
<1>2. <<p, used.backups + 1>> \in BackupId
  BY <1>1 DEF BackupId
<1> QED
  BY <1>1, <1>2 DEF NewBackup, Backup, StateRoot

\* A backup that ages keeps its name and its rows.
LEMMA Older ==
  ASSUME NEW b \in Backup
  PROVE  /\ [b EXCEPT !.old = TRUE] \in Backup
         /\ [b EXCEPT !.old = TRUE].id = b.id /\ [b EXCEPT !.old = TRUE].rows = b.rows
  BY DEF Backup

\* A root that ages keeps everything but the age of its backups.
LEMMA AgedFacts ==
  ASSUME NEW t \in StateRoot
  PROVE  /\ Aged(t) \in StateRoot /\ Aged(t).exists
         /\ Aged(t).schema = t.schema /\ Aged(t).rows = t.rows /\ Aged(t).file = t.file
         /\ Aged(t).marker = t.marker /\ Aged(t).lock = t.lock
         /\ Aged(t).retention = t.retention /\ Aged(t).touched = t.touched
         /\ \A b \in t.backups : \E c \in Aged(t).backups : c.id = b.id /\ c.rows = b.rows
         /\ \A c \in Aged(t).backups : \E b \in t.backups : c.id = b.id /\ c.rows = b.rows
<1> DEFINE aged == {[b EXCEPT !.old = TRUE] : b \in t.backups}
<1>1. t.exists /\ t.backups \subseteq Backup
  BY DEF StateRoot
<1>2. aged \subseteq Backup
  BY <1>1, Older
<1>3. /\ \A b \in t.backups : \E c \in aged : c.id = b.id /\ c.rows = b.rows
      /\ \A c \in aged : \E b \in t.backups : c.id = b.id /\ c.rows = b.rows
  BY <1>1, Older
<1>4. Aged(t) = [t EXCEPT !.backups = aged]
  BY <1>1 DEF Aged
<1> HIDE DEF aged
<1>5. /\ Aged(t) \in StateRoot /\ Aged(t).exists /\ Aged(t).backups = aged
      /\ Aged(t).schema = t.schema /\ Aged(t).rows = t.rows /\ Aged(t).file = t.file
      /\ Aged(t).marker = t.marker /\ Aged(t).lock = t.lock
      /\ Aged(t).retention = t.retention /\ Aged(t).touched = t.touched
  BY <1>2, <1>4 DEF StateRoot
<1> QED
  BY <1>3, <1>5

-----------------------------------------------------------------------------
(* The invariant of the lock and of the roots.                             *)

\* Where a process holds the migration lock, has the store open, and applies the
\* retention policy.
Holding == {"recover", "copy", "removeWal", "restored", "database", "mark", "migrate"}
Opened == {"commit", "retain", "apply", "advance", "serve"}
Retaining == {"retain", "apply", "advance"}

\* The lock is its holder's; a stale lock stays stale while it is reclaimed; an
\* open store is in a root that was opened.
LockOrder(t, at) ==
  /\ \A p \in Procs : at[p] \in Holding => t.exists /\ t.lock = p
  /\ \A p \in Procs : at[p] = "reclaim" => t.exists /\ t.lock = Dead
  /\ \A p, q \in Procs : at[p] = "reclaim" /\ at[q] = "reclaim" => p = q
  /\ \A p \in Procs : at[p] \in Opened => t.exists /\ t.touched
  /\ \A p \in Procs : at[p] = "migrate" => t.touched

\* A root nobody has opened is as an earlier release left it.
Pristine(t) ==
  t.exists /\ ~t.touched =>
    t.backups = {} /\ t.marker = None /\ t.retention = << >> /\ t.file = "whole"

\* The legacy root has never been opened.
LegacyUnused(l) == l.exists => ~l.touched /\ l.lock = None

\* Only the gateway applies the policy, and the marker lists every class it owes;
\* once the first one is applied, the rest does.
Owes(t, at, o) ==
  /\ \A p \in Procs : at[p] \in Retaining => p = Gateway
  /\ t.exists /\ t.retention # << >> =>
       /\ \A c \in o : \E i \in 1..Len(t.retention) : t.retention[i] = c
       /\ at[Gateway] = "advance" => \A c \in o : \E i \in 2..Len(t.retention) : t.retention[i] = c
Layout ==
  /\ TypeOK /\ LockOrder(root, pc) /\ Owes(root, pc, owed)
  /\ Pristine(root) /\ Pristine(legacy) /\ LegacyUnused(legacy)

\* The types of the variables beside the roots and the places.
RestType ==
  /\ stateLock \in Procs \cup {None}
  /\ mover \subseteq Procs /\ undoing \subseteq Procs /\ detached \in BOOLEAN
  /\ acked \in Rows /\ owed \subseteq Classes /\ expired \subseteq Classes
  /\ used \in Used

\* A step of p from one place to another: the lock it touches is its own, a free
\* one, or the stale one it is reclaiming.
LEMMA LockStep ==
  ASSUME Layout, NEW p \in Procs, NEW w \in Places, pc' = [pc EXCEPT ![p] = w],
         root.exists => /\ root'.exists
                        /\ root.touched => root'.touched
                        /\ root'.lock = root.lock \/ root.lock \in {p, None} \/ pc[p] = "reclaim",
         w \in Holding => root'.exists /\ root'.lock = p,
         w = "reclaim" => root'.exists /\ root'.lock = Dead /\ \A q \in Procs : pc[q] # "reclaim",
         w \in Opened => root'.exists /\ root'.touched,
         w = "migrate" => root'.touched
  PROVE  LockOrder(root', pc')
<1>1. pc \in [Procs -> Places] /\ LockOrder(root, pc)
  BY DEF Layout, TypeOK
<1>2. pc'[p] = w /\ \A q \in Procs : q # p => pc'[q] = pc[q]
  BY <1>1
<1>3. \A q \in Procs : pc'[q] \in Holding => root'.exists /\ root'.lock = q
  BY <1>1, <1>2, StorageAssumption DEF LockOrder, Holding, Dead, None
<1>4. \A q \in Procs : pc'[q] = "reclaim" => root'.exists /\ root'.lock = Dead
  BY <1>1, <1>2, StorageAssumption DEF LockOrder, Dead, None
<1>5. \A q, r \in Procs : pc'[q] = "reclaim" /\ pc'[r] = "reclaim" => q = r
  BY <1>1, <1>2 DEF LockOrder
<1>6. \A q \in Procs : pc'[q] \in Opened => root'.exists /\ root'.touched
  BY <1>1, <1>2 DEF LockOrder, Opened
<1>7. \A q \in Procs : pc'[q] = "migrate" => root'.touched
  BY <1>1, <1>2 DEF LockOrder, Holding
<1> QED
  BY <1>3, <1>4, <1>5, <1>6, <1>7 DEF LockOrder

\* What a retention run owes, over a step that leaves the run alone.
LEMMA OwesKept ==
  ASSUME Layout, NEW p \in Procs, NEW w \in Places, pc' = [pc EXCEPT ![p] = w],
         root.exists, root'.retention = root.retention, owed' = owed,
         w \in Retaining => p = Gateway /\ w = "retain"
  PROVE  Owes(root', pc', owed')
<1>1. pc \in [Procs -> Places] /\ Gateway \in Procs /\ Owes(root, pc, owed)
  BY StorageAssumption DEF Layout, TypeOK
<1>2. pc'[p] = w /\ \A q \in Procs : q # p => pc'[q] = pc[q]
  BY <1>1
<1>3. pc'[Gateway] = "advance" => pc[Gateway] = "advance"
  BY <1>1, <1>2 DEF Retaining
<1>4. \A q \in Procs : pc'[q] \in Retaining => q = Gateway
  BY <1>1, <1>2 DEF Owes
<1> QED
  BY <1>1, <1>3, <1>4 DEF Owes

\* A step of p that rewrites the root.
LEMMA RootStep ==
  ASSUME Layout, NEW p \in Procs, NEW w \in Places, pc' = [pc EXCEPT ![p] = w],
         RestType', legacy' = legacy, root.exists, root' \in StateRoot,
         root.touched => root'.touched,
         root'.lock = root.lock \/ root.lock \in {p, None} \/ pc[p] = "reclaim",
         w \in Holding => root'.lock = p,
         w # "reclaim",
         w \in Opened \cup {"migrate"} => root'.touched,
         Pristine(root'), Owes(root', pc', owed')
  PROVE  Layout'
<1>1. root'.exists
  BY DEF StateRoot
<1>2. LockOrder(root', pc')
  BY <1>1, LockStep
<1>3. TypeOK'
  BY DEF Layout, TypeOK, RestType
<1> QED
  BY <1>2, <1>3 DEF Layout

\* A step of p that leaves both roots alone.
LEMMA QuietStep ==
  ASSUME Layout, NEW p \in Procs, NEW w \in Places, pc' = [pc EXCEPT ![p] = w],
         RestType', UNCHANGED <<root, legacy, owed>>,
         w \in Holding => pc[p] \in Holding,
         w = "reclaim" => root.exists /\ root.lock = Dead /\ \A q \in Procs : pc[q] # "reclaim",
         w \in Opened => pc[p] \in Opened,
         w # "migrate",
         w \in Retaining => p = Gateway /\ w = "retain"
  PROVE  Layout'
<1>0. LockOrder(root, pc)
  BY DEF Layout
<1>1. /\ w \in Holding => root.exists /\ root.lock = p
      /\ w \in Opened => root.exists /\ root.touched
  BY <1>0 DEF LockOrder
<1>2. LockOrder(root', pc')
  BY <1>1, LockStep
<1>3. TypeOK'
  BY DEF Layout, TypeOK, RestType
<1>4. Owes(root', pc', owed')
  <2>1. CASE root.exists
    BY <2>1, OwesKept
  <2>2. CASE ~root.exists
    <3>1. pc \in [Procs -> Places] /\ Owes(root, pc, owed)
      BY DEF Layout, TypeOK
    <3>2. \A q \in Procs : pc'[q] \in Retaining => q = Gateway
      BY <3>1 DEF Owes
    <3> QED
      BY <2>2, <3>2 DEF Owes
  <2> QED
    BY <2>1, <2>2
<1> QED
  BY <1>2, <1>3, <1>4 DEF Layout

-----------------------------------------------------------------------------
(* What each operation writes.                                             *)

\* What a step may leave as it was.
SameDatabase(t, u) == u.schema = t.schema /\ u.rows = t.rows /\ u.file = t.file
SameBackups(t, u) == u.backups = t.backups /\ u.marker = t.marker
SameUse(t, u) == u.retention = t.retention /\ u.touched = t.touched
Same(t, u) == SameDatabase(t, u) /\ SameBackups(t, u) /\ SameUse(t, u)

\* A root that exists is a root with all its files.
LEMMA RootExists == TypeOK /\ root.exists => root \in StateRoot
  BY DEF TypeOK, NoTree

\* Releasing the lock (acquireOwnershipLock's release) touches no other file.
LEMMA ReleasedFacts ==
  ASSUME NEW t \in StateRoot, NEW p
  PROVE  /\ Released(t, p) \in StateRoot /\ Released(t, p).exists /\ Same(t, Released(t, p))
         /\ Released(t, p).lock = t.lock \/ t.lock = p
  BY DEF Released, StateRoot, Same, SameDatabase, SameBackups, SameUse

\* What taking the lock writes.
LEMMA LockEffect ==
  ASSUME TypeOK, NEW p \in Procs, Lock(p)
  PROVE  root' \in StateRoot /\ Same(root, root') /\ root'.lock = p /\ root \in StateRoot
<1>1. root \in StateRoot
  BY RootExists DEF Lock
<1> QED
  BY <1>1 DEF Lock, SetRoot, StateRoot, Same, SameDatabase, SameBackups, SameUse

\* What unlinking a stale lock writes.
LEMMA UnlinkEffect ==
  ASSUME TypeOK, NEW p \in Procs, UnlinkStaleLock(p), root.exists
  PROVE  root' \in StateRoot /\ Same(root, root') /\ root'.lock = None
<1>1. root \in StateRoot
  BY RootExists
<1> QED
  BY <1>1 DEF UnlinkStaleLock, SetRoot, StateRoot, Same, SameDatabase, SameBackups, SameUse

\* What the start of a restore writes.
LEMMA RecoverEffect ==
  ASSUME TypeOK, NEW p \in Procs, Recover(p), root.exists
  PROVE  /\ root' \in StateRoot /\ root \in StateRoot
         /\ \/ root' = root /\ root.marker = None /\ pc' = [pc EXCEPT ![p] = "database"]
            \/ /\ Same(root, root')
               /\ root'.lock = root.lock \/ root.lock = p
               /\ pc' = [pc EXCEPT ![p] = "failed"]
            \/ /\ root'.schema = root.schema /\ root'.rows = root.rows /\ root'.lock = root.lock
               /\ SameBackups(root, root') /\ SameUse(root, root')
               /\ root.marker # None /\ BackupOf(root) # {} /\ pc' = [pc EXCEPT ![p] = "copy"]
<1>1. root \in StateRoot
  BY RootExists
<1>2. CASE root.marker = None
  BY <1>1, <1>2 DEF Recover, Goto, tree
<1>3. CASE root.marker # None /\ BackupOf(root) = {}
  BY <1>1, <1>3, ReleasedFacts DEF Recover, Goto, SetRoot
<1>4. CASE root.marker # None /\ BackupOf(root) # {}
  <2>1. root' = [root EXCEPT !.file = "torn"] /\ pc' = [pc EXCEPT ![p] = "copy"]
    BY <1>4 DEF Recover, Goto, SetRoot
  <2> QED
    BY <1>1, <1>4, <2>1 DEF StateRoot, SameBackups, SameUse
<1> QED
  BY <1>2, <1>3, <1>4

\* What the copy of the backup over the database writes.
LEMMA CopyEffect ==
  ASSUME TypeOK, NEW p \in Procs, CopyBackup(p), root.exists
  PROVE  /\ root' \in StateRoot /\ root \in StateRoot /\ root'.lock = root.lock
         /\ SameBackups(root, root') /\ SameUse(root, root')
         /\ \E b \in root.backups : b.id = root.marker /\ root'.rows = b.rows
<1>1. root \in StateRoot
  BY RootExists
<1>2. PICK b \in BackupOf(root) :
        root' = [root EXCEPT !.schema = b.schema, !.rows = b.rows, !.file = "wal"]
  BY DEF CopyBackup, SetRoot
<1>3. b \in root.backups /\ b.id = root.marker /\ b \in Backup
  BY <1>1 DEF BackupOf, StateRoot
<1>4. /\ root' \in StateRoot /\ root'.lock = root.lock /\ root'.rows = b.rows
      /\ SameBackups(root, root') /\ SameUse(root, root')
  BY <1>1, <1>2, <1>3 DEF StateRoot, Backup, SameBackups, SameUse
<1> QED
  BY <1>1, <1>3, <1>4

\* What the removal of the old write-ahead log writes.
LEMMA WalEffect ==
  ASSUME TypeOK, NEW p \in Procs, RemoveOldWal(p), root.exists
  PROVE  /\ root' \in StateRoot /\ root \in StateRoot /\ root'.lock = root.lock
         /\ SameBackups(root, root') /\ SameUse(root, root')
         /\ root'.schema = root.schema /\ root'.rows = root.rows /\ root'.file = "whole"
<1>1. root \in StateRoot
  BY RootExists
<1> QED
  BY <1>1 DEF RemoveOldWal, SetRoot, StateRoot, SameBackups, SameUse

\* The marker is taken away, and maybe the lock.
Unmarked(t, u) ==
  /\ SameDatabase(t, u) /\ SameUse(t, u) /\ u.backups = t.backups /\ u.marker = None

\* A marker removed, with or without the lock.
LEMMA UnmarkedFacts ==
  ASSUME NEW t \in StateRoot, NEW p
  PROVE  LET u == [t EXCEPT !.marker = None] IN
         /\ u \in StateRoot /\ Unmarked(t, u) /\ u.lock = t.lock
         /\ Released(u, p) \in StateRoot /\ Unmarked(t, Released(u, p))
         /\ Released(u, p).lock = t.lock \/ t.lock = p
<1> DEFINE u == [t EXCEPT !.marker = None]
<1>1. u \in StateRoot /\ Unmarked(t, u) /\ u.lock = t.lock
  BY DEF StateRoot, Unmarked, SameDatabase, SameUse
<1> HIDE DEF u
<1>2. /\ Released(u, p) \in StateRoot /\ Same(u, Released(u, p))
      /\ Released(u, p).lock = u.lock \/ u.lock = p
  BY <1>1, ReleasedFacts
<1>3. Unmarked(t, Released(u, p))
  BY <1>1, <1>2 DEF Unmarked, Same, SameDatabase, SameBackups, SameUse
<1>4. u \in StateRoot /\ Unmarked(t, u) /\ u.lock = t.lock
      /\ Released(u, p) \in StateRoot /\ Unmarked(t, Released(u, p))
      /\ (Released(u, p).lock = t.lock \/ t.lock = p)
  BY <1>1, <1>2, <1>3
<1> QED
  BY <1>4 DEF u

\* What the end of a restore writes.
LEMMA RestoredEffect ==
  ASSUME TypeOK, NEW p \in Procs, RemoveMarkerOfRestored(p), root.exists
  PROVE  /\ root' \in StateRoot /\ root \in StateRoot /\ Unmarked(root, root')
         /\ \/ pc' = [pc EXCEPT ![p] = "failed"] /\ (root'.lock = root.lock \/ root.lock = p)
            \/ pc' = [pc EXCEPT ![p] = "database"] /\ root'.lock = root.lock
<1>1. root \in StateRoot
  BY RootExists
<1>2. CASE p \in undoing
  BY <1>1, <1>2, UnmarkedFacts DEF RemoveMarkerOfRestored, SetRoot, Goto
<1>3. CASE p \notin undoing
  BY <1>1, <1>3, UnmarkedFacts DEF RemoveMarkerOfRestored, SetRoot, Goto
<1> QED
  BY <1>2, <1>3

\* What the end of a migration writes.
LEMMA FinishEffect ==
  ASSUME TypeOK, NEW p \in Procs, FinishMigration(p), root.exists
  PROVE  /\ root' \in StateRoot /\ root \in StateRoot /\ Unmarked(root, root')
         /\ root'.lock = root.lock \/ root.lock = p
<1>1. root \in StateRoot
  BY RootExists
<1> QED
  BY <1>1, UnmarkedFacts DEF FinishMigration, SetRoot

\* The opening of the database: refused, complete, or backed up for a migration.
LEMMA OpenDatabaseEffect ==
  ASSUME TypeOK, NEW p \in Procs, OpenDatabase(p), root.exists
  PROVE  /\ root' \in StateRoot /\ root \in StateRoot
         /\ root'.schema = root.schema /\ root'.rows = root.rows /\ root'.file = root.file
         /\ root'.marker = root.marker /\ root'.retention = root.retention
         /\ \/ /\ root'.backups = root.backups /\ root'.touched = root.touched
               /\ root'.lock = root.lock \/ root.lock = p
               /\ pc' = [pc EXCEPT ![p] = "failed"] /\ used' = used
            \/ /\ root'.backups = root.backups /\ root'.touched = TRUE
               /\ root'.lock = root.lock \/ root.lock = p
               /\ pc' = [pc EXCEPT ![p] = "commit"] /\ used' = used
               /\ root.schema = Target[p]
            \/ /\ root'.backups = root.backups \cup {NewBackup(p)} /\ root'.touched = TRUE
               /\ root'.lock = root.lock
               /\ pc' = [pc EXCEPT ![p] = "mark"] /\ used' = [used EXCEPT !.backups = @ + 1]
               /\ root.schema # Target[p]
<1>1. root \in StateRoot
  BY RootExists
<1>2. CASE root.file # "whole" \/ root.schema > Target[p]
  <2>1. root' = Released(root, p) /\ pc' = [pc EXCEPT ![p] = "failed"] /\ used' = used
    BY <1>2 DEF OpenDatabase, SetRoot, Goto
  <2> QED
    BY <1>1, <2>1, ReleasedFacts DEF Same, SameDatabase, SameBackups, SameUse
<1>3. CASE ~(root.file # "whole" \/ root.schema > Target[p]) /\ root.schema = Target[p]
  <2> DEFINE t == [root EXCEPT !.touched = TRUE]
  <2>1. root' = Released(t, p) /\ pc' = [pc EXCEPT ![p] = "commit"] /\ used' = used
    BY <1>3 DEF OpenDatabase, SetRoot, Goto
  <2>2. /\ t \in StateRoot /\ SameDatabase(root, t) /\ SameBackups(root, t)
        /\ t.retention = root.retention /\ t.touched = TRUE /\ t.lock = root.lock
    BY <1>1 DEF StateRoot, SameDatabase, SameBackups
  <2> HIDE DEF t
  <2>3. /\ Released(t, p) \in StateRoot /\ Same(t, Released(t, p))
        /\ Released(t, p).lock = t.lock \/ t.lock = p
    BY <2>2, ReleasedFacts
  <2> QED
    BY <1>1, <1>3, <2>1, <2>2, <2>3 DEF Same, SameDatabase, SameBackups, SameUse
<1>4. CASE ~(root.file # "whole" \/ root.schema > Target[p]) /\ root.schema # Target[p]
  <2>1. /\ root' = [root EXCEPT !.touched = TRUE, !.backups = @ \cup {NewBackup(p)}]
        /\ pc' = [pc EXCEPT ![p] = "mark"] /\ used' = [used EXCEPT !.backups = @ + 1]
    BY <1>4 DEF OpenDatabase, SetRoot, Goto
  <2>2. NewBackup(p) \in Backup
    BY NewBackupType
  <2> DEFINE more == root.backups \cup {NewBackup(p)}
  <2>3. root' = [root EXCEPT !.touched = TRUE, !.backups = more]
    BY <2>1
  <2>4. more \in SUBSET Backup
    BY <1>1, <2>2 DEF StateRoot
  <2> HIDE DEF more
  <2>5. /\ root' \in StateRoot /\ SameDatabase(root, root') /\ root'.marker = root.marker
        /\ root'.retention = root.retention /\ root'.touched = TRUE /\ root'.lock = root.lock
        /\ root'.backups = more
    BY <1>1, <2>3, <2>4 DEF StateRoot, SameDatabase
  <2> QED
    BY <1>1, <1>4, <2>1, <2>5 DEF more, SameDatabase
<1> QED
  BY <1>2, <1>3, <1>4

\* The migration marker names the last backup.
LEMMA MarkEffect ==
  ASSUME TypeOK, NEW p \in Procs, WriteMarker(p), root.exists
  PROVE  /\ root' \in StateRoot /\ root \in StateRoot
         /\ SameDatabase(root, root') /\ SameUse(root, root')
         /\ root'.backups = root.backups /\ root'.lock = root.lock
         /\ \E b \in root.backups : LastOf(p, b, root) /\ root'.marker = b.id
<1>1. root \in StateRoot
  BY RootExists
<1>2. PICK b \in root.backups : LastOf(p, b, root) /\ root' = [root EXCEPT !.marker = b.id]
  BY DEF WriteMarker, SetRoot
<1>3. b.id \in BackupId
  BY <1>1, <1>2 DEF StateRoot, Backup
<1>4. /\ root' \in StateRoot /\ root'.marker = b.id
      /\ SameDatabase(root, root') /\ SameUse(root, root')
      /\ root'.backups = root.backups /\ root'.lock = root.lock
  BY <1>1, <1>2, <1>3 DEF StateRoot, SameDatabase, SameUse
<1> QED
  BY <1>1, <1>2, <1>4

\* What one migration writes.
LEMMA MigrationEffect ==
  ASSUME TypeOK, NEW p \in Procs, ApplyMigration(p), root.exists
  PROVE  /\ root' \in StateRoot /\ root \in StateRoot
         /\ SameBackups(root, root') /\ SameUse(root, root')
         /\ root'.rows = root.rows /\ root'.file = root.file /\ root'.lock = root.lock
<1>1. root \in StateRoot /\ root.schema \in Schemas /\ Target[p] \in 1..MaxSchema
  BY RootExists, StorageAssumption DEF StateRoot
<1>2. root.schema + 1 \in Schemas
  BY <1>1, StorageAssumption DEF ApplyMigration, Schemas
<1> QED
  BY <1>1, <1>2 DEF ApplyMigration, SetRoot, StateRoot, SameBackups, SameUse

\* What an acknowledged write writes.
LEMMA WriteEffect ==
  ASSUME TypeOK, NEW p \in Procs, Write(p), root.exists
  PROVE  /\ root' \in StateRoot /\ root \in StateRoot
         /\ SameBackups(root, root') /\ SameUse(root, root')
         /\ root'.schema = root.schema /\ root'.file = root.file /\ root'.lock = root.lock
         /\ root.rows \subseteq root'.rows /\ acked' \in Rows
         /\ \/ acked' = acked
            \/ Undisturbed /\ \E w \in root'.rows : acked' = acked \cup {w}
         /\ used' \in Used /\ used'.backups = used.backups
<1>1. root \in StateRoot /\ used \in Used /\ acked \in Rows
  BY RootExists DEF TypeOK
<1>2. used'.writes \in 0..MaxWrites /\ used' \in Used /\ used'.backups = used.backups
  BY <1>1, StorageAssumption DEF Write, Spend, Used
<1> DEFINE rows == IF detached THEN root.rows ELSE root.rows \cup {used'.writes}
<1>3. rows \in Rows /\ root.rows \subseteq rows
  BY <1>1, <1>2 DEF StateRoot, Rows
<1>4. root' = [root EXCEPT !.rows = rows]
  BY DEF Write, SetRoot
<1>5. acked' = acked \/ (Undisturbed /\ used'.writes \in rows /\ acked' = acked \cup {used'.writes})
  BY DEF Write, Undisturbed
<1> HIDE DEF rows
<1>6. /\ root' \in StateRoot /\ SameBackups(root, root') /\ SameUse(root, root')
      /\ root'.schema = root.schema /\ root'.file = root.file /\ root'.lock = root.lock
      /\ root'.rows = rows
  BY <1>1, <1>3, <1>4 DEF StateRoot, SameBackups, SameUse
<1>7. acked' \in Rows
  BY <1>1, <1>2, <1>5 DEF Rows
<1> QED
  BY <1>1, <1>2, <1>3, <1>5, <1>6, <1>7

\* Spending a bound touches nothing else.
LEMMA SpendType ==
  ASSUME used \in Used
  PROVE  /\ Spend("crashes", MaxCrashes) => used' \in Used /\ used'.backups = used.backups
         /\ Spend("failures", MaxFailures) => used' \in Used /\ used'.backups = used.backups
         /\ Spend("ages", MaxAges) => used' \in Used /\ used'.backups = used.backups
  BY StorageAssumption DEF Spend, Used

\* A crash leaves a stale lock at most.
LEMMA CrashEffect ==
  ASSUME TypeOK, NEW p \in Procs, Crash(p), root.exists
  PROVE  /\ root' \in StateRoot /\ root \in StateRoot /\ Same(root, root')
         /\ root.lock # p => root'.lock = root.lock
         /\ root.lock = p => root'.lock = Dead
<1>1. root \in StateRoot
  BY RootExists
<1>2. CASE root.lock = p
  BY <1>1, <1>2 DEF Crash, SetRoot, StateRoot, Same, SameDatabase, SameBackups, SameUse
<1>3. CASE root.lock # p
  BY <1>1, <1>3 DEF Crash, tree, Same, SameDatabase, SameBackups, SameUse
<1> QED
  BY <1>2, <1>3

\* A retention run starts, or resumes.
LEMMA RetentionStarts ==
  ASSUME TypeOK, NEW p \in Procs, StartRetention(p), root.exists
  PROVE  /\ root' \in StateRoot /\ root \in StateRoot
         /\ SameDatabase(root, root') /\ SameBackups(root, root')
         /\ root'.touched = root.touched /\ root'.lock = root.lock
         /\ root'.retention = IF root.retention = << >> THEN CLASS_ORDER ELSE root.retention
<1>1. root \in StateRoot
  BY RootExists
<1> DEFINE rest == IF root.retention = << >> THEN CLASS_ORDER ELSE root.retention
<1>2. rest \in Seq(Classes)
  BY <1>1, ClassFacts DEF StateRoot
<1>3. root' = [root EXCEPT !.retention = rest]
  BY DEF StartRetention, SetRoot
<1> HIDE DEF rest
<1>4. /\ root' \in StateRoot /\ SameDatabase(root, root') /\ SameBackups(root, root')
      /\ root'.touched = root.touched /\ root'.lock = root.lock /\ root'.retention = rest
  BY <1>1, <1>2, <1>3 DEF StateRoot, SameDatabase, SameBackups
<1> QED
  BY <1>1, <1>4 DEF rest

\* The marker is rewritten with the rest.
LEMMA RetentionAdvances ==
  ASSUME TypeOK, NEW p \in Procs, AdvanceRetention(p), root.exists
  PROVE  /\ root' \in StateRoot /\ root \in StateRoot
         /\ SameDatabase(root, root') /\ SameBackups(root, root')
         /\ root'.touched = root.touched /\ root'.lock = root.lock
         /\ root.retention # << >> /\ root'.retention = Tail(root.retention)
<1>1. root \in StateRoot /\ root.retention # << >>
  BY RootExists DEF AdvanceRetention
<1> DEFINE rest == Tail(root.retention)
<1>2. rest \in Seq(Classes)
  BY <1>1 DEF StateRoot
<1>3. root' = [root EXCEPT !.retention = rest]
  BY DEF AdvanceRetention, SetRoot
<1> HIDE DEF rest
<1>4. /\ root' \in StateRoot /\ SameDatabase(root, root') /\ SameBackups(root, root')
      /\ root'.touched = root.touched /\ root'.lock = root.lock /\ root'.retention = rest
  BY <1>1, <1>2, <1>3 DEF StateRoot, SameDatabase, SameBackups
<1> QED
  BY <1>1, <1>4 DEF rest

\* The first class is applied.
LEMMA ClassEffect ==
  ASSUME TypeOK, NEW p \in Procs, ApplyClass(p), root.exists
  PROVE  /\ root' \in StateRoot /\ root \in StateRoot
         /\ SameDatabase(root, root') /\ SameUse(root, root')
         /\ root'.marker = root.marker /\ root'.lock = root.lock
         /\ root'.backups \subseteq root.backups
         /\ root'.backups = root.backups \/ root'.backups = {b \in root.backups : ~b.old}
         /\ root.retention # << >> /\ owed' = owed \ {Head(root.retention)}
<1>1. root \in StateRoot /\ root.retention # << >>
  BY RootExists DEF ApplyClass
<1>2. owed' = owed \ {Head(root.retention)}
  BY DEF ApplyClass
<1>3. CASE Head(root.retention) = "backups"
  <2> DEFINE kept == {b \in root.backups : ~b.old}
  <2>1. kept \subseteq root.backups /\ kept \in SUBSET Backup
    BY <1>1 DEF StateRoot
  <2>2. root' = [root EXCEPT !.backups = kept]
    BY <1>3 DEF ApplyClass, SetRoot
  <2> HIDE DEF kept
  <2>3. /\ root' \in StateRoot /\ SameDatabase(root, root') /\ SameUse(root, root')
        /\ root'.marker = root.marker /\ root'.lock = root.lock /\ root'.backups = kept
    BY <1>1, <2>1, <2>2 DEF StateRoot, SameDatabase, SameUse
  <2> QED
    BY <1>1, <1>2, <2>1, <2>3 DEF kept
<1>4. CASE Head(root.retention) # "backups"
  BY <1>1, <1>2, <1>4 DEF ApplyClass, tree, SameDatabase, SameUse
<1> QED
  BY <1>3, <1>4

-----------------------------------------------------------------------------
(* Layout is inductive.                                                    *)

\* A root nobody has opened stays as it was.
LEMMA PristineKept ==
  ASSUME Pristine(root), root.exists, root'.backups = root.backups,
         root'.marker \in {None, root.marker}, root'.file \in {"whole", root.file}, SameUse(root, root')
  PROVE  Pristine(root')
  BY DEF Pristine, SameUse

\* Layout over the steps that change neither root.
LEMMA Quiet ==
  ASSUME Layout, NEW p \in Procs
  PROVE  /\ Resolve(p) => Layout'
         /\ TakeStateLock(p) => Layout'
         /\ StateLockHeld(p) => Layout'
         /\ LockHeld(p) => Layout'
         /\ MigrationFails(p) => Layout'
         /\ Commit(p) => Layout'
         /\ Close(p) => Layout'
         /\ Reclaimers = 1 /\ CompareStaleLock(p) => Layout'
<1> USE DEF Goto, Places, Holding, Opened, Retaining
<1>t. RestType /\ pc \in [Procs -> Places]
  BY DEF Layout, TypeOK, RestType
<1>1. ASSUME Resolve(p) PROVE Layout'
  <2>1. RestType'
    BY <1>1, <1>t DEF Resolve, RestType
  <2>2. PICK w \in {"open", "off", "stateLock"} : pc' = [pc EXCEPT ![p] = w]
    BY <1>1 DEF Resolve
  <2> QED
    BY <1>1, <2>1, <2>2, QuietStep DEF Resolve, tree
<1>2. ASSUME TakeStateLock(p) PROVE Layout'
  <2>1. RestType'
    BY <1>2, <1>t DEF TakeStateLock, RestType
  <2> QED
    BY <1>2, <2>1, QuietStep DEF TakeStateLock, tree
<1>3. ASSUME StateLockHeld(p) PROVE Layout'
  <2>1. RestType'
    BY <1>3, <1>t DEF StateLockHeld, RestType
  <2> QED
    BY <1>3, <2>1, QuietStep DEF StateLockHeld, tree
<1>4. ASSUME LockHeld(p) PROVE Layout'
  <2>1. RestType'
    BY <1>4, <1>t DEF LockHeld, RestType
  <2> QED
    BY <1>4, <2>1, QuietStep DEF LockHeld, tree
<1>5. ASSUME MigrationFails(p) PROVE Layout'
  <2>1. RestType'
    BY <1>5, <1>t, SpendType DEF MigrationFails, RestType
  <2> QED
    BY <1>5, <2>1, QuietStep DEF MigrationFails, tree
<1>6. ASSUME Commit(p) PROVE Layout'
  <2>1. RestType'
    BY <1>6, <1>t DEF Commit, RestType
  <2>2. PICK w \in {"retain", "off"} : pc' = [pc EXCEPT ![p] = w] /\ (w = "retain" => p = Gateway)
    BY <1>6 DEF Commit
  <2> QED
    BY <1>6, <2>1, <2>2, QuietStep DEF Commit, tree
<1>7. ASSUME Close(p) PROVE Layout'
  <2>1. RestType'
    BY <1>7, <1>t DEF Close, RestType
  <2> QED
    BY <1>7, <2>1, QuietStep DEF Close, tree
<1>8. ASSUME Reclaimers = 1, CompareStaleLock(p) PROVE Layout'
  <2>1. RestType'
    BY <1>8, <1>t DEF CompareStaleLock, RestType
  <2>2. \A q \in Procs : pc[q] # "reclaim"
    <3> DEFINE busy == {q \in Procs : pc[q] = "reclaim"}
    <3>1. IsFiniteSet(busy)
      BY StorageAssumption, FS_Subset
    <3>2. Cardinality(busy) < 1
      BY <1>8 DEF CompareStaleLock
    <3>3. Cardinality(busy) \in Nat
      BY <3>1, FS_CardinalityType
    <3>4. busy = {}
      BY <3>1, <3>2, <3>3, FS_EmptySet
    <3> QED
      BY <3>4
  <2> QED
    BY <1>8, <2>1, <2>2, QuietStep DEF CompareStaleLock, tree
<1> QED
  BY <1>1, <1>2, <1>3, <1>4, <1>5, <1>6, <1>7, <1>8

\* Layout over the move of the legacy root.
LEMMA Moves ==
  ASSUME Layout, NEW p \in Procs
  PROVE  MoveLegacyRoot(p) => Layout'
<1> SUFFICES ASSUME MoveLegacyRoot(p) PROVE Layout'
  OBVIOUS
<1> USE DEF Goto, Places, Holding, Opened, Retaining
<1>t. RestType /\ pc \in [Procs -> Places] /\ pc[p] = "move"
  BY DEF Layout, TypeOK, RestType, MoveLegacyRoot
<1>r. RestType'
  BY <1>t DEF MoveLegacyRoot, RestType
<1>1. CASE ~(legacy.exists /\ ~root.exists)
  <2>1. PICK w \in {"open", "off"} : pc' = [pc EXCEPT ![p] = w]
    BY <1>1 DEF MoveLegacyRoot
  <2>2. UNCHANGED <<root, legacy, owed>>
    BY <1>1 DEF MoveLegacyRoot, tree
  <2> QED
    BY <1>r, <2>1, <2>2, QuietStep
<1>2. CASE legacy.exists /\ ~root.exists
  <2>1. /\ root' = [legacy EXCEPT !.touched = FALSE] /\ legacy' = NoTree
        /\ pc' = [pc EXCEPT ![p] = "open"] /\ owed' = owed
    BY <1>2 DEF MoveLegacyRoot
  <2>2. legacy \in StateRoot /\ Pristine(legacy) /\ LegacyUnused(legacy)
    BY <1>2 DEF Layout, TypeOK, NoTree
  <2>3. /\ root' \in StateRoot /\ root'.exists /\ Pristine(root') /\ root'.retention = << >>
    BY <1>2, <2>1, <2>2 DEF StateRoot, Pristine, LegacyUnused
  <2>4. LockOrder(root', pc')
    BY <1>2, <2>1, <2>3, LockStep
  <2>5. Pristine(legacy') /\ LegacyUnused(legacy') /\ legacy' \in StateRoot \cup {NoTree}
    BY <2>1 DEF Pristine, LegacyUnused, NoTree
  <2>6. Owes(root', pc', owed')
    <3>1. \A q \in Procs : pc'[q] \in Retaining => q = Gateway
      BY <1>t, <2>1 DEF Layout, Owes
    <3> QED
      BY <2>3, <3>1 DEF Owes
  <2>7. TypeOK'
    BY <1>r, <1>t, <2>1, <2>3, <2>5 DEF TypeOK, RestType
  <2> QED
    BY <2>3, <2>4, <2>5, <2>6, <2>7 DEF Layout
<1> QED
  BY <1>1, <1>2

\* Layout over its rollback: a root with a lock, or one that was opened, is not moved.
LEMMA MovesBack ==
  ASSUME Layout, NEW p \in Procs
  PROVE  Rollback(p) => Layout'
<1> SUFFICES ASSUME Rollback(p) PROVE Layout'
  OBVIOUS
<1> USE DEF Goto, Places, Holding, Opened, Retaining
<1>t. RestType /\ pc \in [Procs -> Places] /\ pc[p] = "failed"
  BY DEF Layout, TypeOK, RestType, Rollback
<1>r. RestType'
  BY <1>t DEF Rollback, RestType
<1>c. pc' = [pc EXCEPT ![p] = "off"] /\ owed' = owed
  BY DEF Rollback
<1>1. CASE UNCHANGED <<root, legacy>>
  BY <1>1, <1>r, <1>c, QuietStep
<1>2. CASE ~UNCHANGED <<root, legacy>>
  <2>1. root' = NoTree /\ legacy' = root /\ ~root.touched /\ root.lock = None
    BY <1>2 DEF Rollback, tree
  <2>2. LockOrder(root, pc) /\ Pristine(root) /\ TypeOK
    BY DEF Layout
  <2>3. \A q \in Procs : pc[q] \notin Holding /\ pc[q] # "reclaim" /\ pc[q] \notin Opened
    BY <2>1, <2>2, StorageAssumption DEF LockOrder, None, Dead
  <2>4. \A q \in Procs : pc'[q] \notin Holding /\ pc'[q] # "reclaim" /\ pc'[q] \notin Opened
    BY <1>t, <1>c, <2>3
  <2>5. LockOrder(root', pc') /\ Owes(root', pc', owed')
    BY <2>1, <2>4 DEF LockOrder, Owes, NoTree
  <2>6. Pristine(root') /\ Pristine(legacy') /\ LegacyUnused(legacy')
    BY <2>1, <2>2 DEF Pristine, LegacyUnused, NoTree
  <2>7. TypeOK'
    BY <1>r, <1>t, <1>c, <2>1, <2>2 DEF TypeOK, RestType
  <2> QED
    BY <2>5, <2>6, <2>7 DEF Layout
<1> QED
  BY <1>1, <1>2

\* Layout over the creation of the root and the ownership lock.
LEMMA Locks ==
  ASSUME Layout, NEW p \in Procs
  PROVE  /\ Open(p) => Layout'
         /\ Lock(p) => Layout'
         /\ UnlinkStaleLock(p) => Layout'
<1> USE DEF Goto, Places, Holding, Opened, Retaining
<1>t. RestType /\ pc \in [Procs -> Places] /\ TypeOK /\ LockOrder(root, pc) /\ Pristine(root)
  BY DEF Layout, TypeOK, RestType
<1>1. ASSUME Open(p) PROVE Layout'
  <2>1. RestType' /\ pc' = [pc EXCEPT ![p] = "lock"] /\ owed' = owed
    BY <1>1, <1>t DEF Open, RestType
  <2>2. CASE root.exists
    <3>1. UNCHANGED <<root, legacy>>
      BY <1>1, <2>2 DEF Open, tree
    <3> QED
      BY <2>1, <3>1, QuietStep
  <2>3. CASE ~root.exists
    <3>1. root' = [Root(0, {}) EXCEPT !.touched = TRUE] /\ legacy' = legacy
      BY <1>1, <2>3 DEF Open, SetRoot
    <3>2. /\ root' \in StateRoot /\ root'.exists /\ root'.retention = << >> /\ root'.touched
      BY <3>1, NewRoot
    <3>3. LockOrder(root', pc')
      BY <2>1, <2>3, <3>2, LockStep
    <3>4. \A q \in Procs : pc'[q] \in Retaining => q = Gateway
      BY <1>t, <2>1 DEF Layout, Owes
    <3>5. Owes(root', pc', owed') /\ Pristine(root')
      BY <3>2, <3>4 DEF Owes, Pristine
    <3>6. TypeOK'
      BY <1>t, <2>1, <3>1, <3>2 DEF TypeOK, RestType
    <3> QED
      BY <3>1, <3>3, <3>5, <3>6 DEF Layout
  <2> QED
    BY <2>2, <2>3
<1>2. ASSUME Lock(p) PROVE Layout'
  <2>1. /\ RestType' /\ pc' = [pc EXCEPT ![p] = "recover"] /\ owed' = owed /\ legacy' = legacy
        /\ root.exists /\ root.lock = None
    BY <1>2, <1>t DEF Lock, RestType, SetRoot
  <2>2. root' \in StateRoot /\ Same(root, root') /\ root'.lock = p
    BY <1>2, <1>t, LockEffect
  <2>3. Owes(root', pc', owed')
    BY <2>1, <2>2, OwesKept DEF Same, SameUse
  <2>4. Pristine(root') /\ (root.touched => root'.touched)
    BY <1>t, <2>1, <2>2, PristineKept DEF Same, SameDatabase, SameBackups, SameUse
  <2> QED
    BY <2>1, <2>2, <2>3, <2>4, RootStep
<1>3. ASSUME UnlinkStaleLock(p) PROVE Layout'
  <2>1. /\ RestType' /\ pc' = [pc EXCEPT ![p] = "lock"] /\ owed' = owed /\ legacy' = legacy
        /\ root.exists /\ pc[p] = "reclaim"
    BY <1>3, <1>t DEF UnlinkStaleLock, RestType, SetRoot, tree, LockOrder
  <2>2. root' \in StateRoot /\ Same(root, root') /\ root'.lock = None
    BY <1>3, <1>t, <2>1, UnlinkEffect
  <2>3. Owes(root', pc', owed')
    BY <2>1, <2>2, OwesKept DEF Same, SameUse
  <2>4. Pristine(root') /\ (root.touched => root'.touched)
    BY <1>t, <2>1, <2>2, PristineKept DEF Same, SameDatabase, SameBackups, SameUse
  <2> QED
    BY <2>1, <2>2, <2>3, <2>4, RootStep
<1> QED
  BY <1>1, <1>2, <1>3

\* Layout over the restore of a backup.
LEMMA Restores ==
  ASSUME Layout, NEW p \in Procs
  PROVE  /\ Recover(p) => Layout'
         /\ CopyBackup(p) => Layout'
         /\ RemoveOldWal(p) => Layout'
         /\ RemoveMarkerOfRestored(p) => Layout'
<1> USE DEF Goto, Places, Holding, Opened, Retaining
<1>t. RestType /\ pc \in [Procs -> Places] /\ TypeOK /\ LockOrder(root, pc) /\ Pristine(root)
  BY DEF Layout, TypeOK, RestType
<1>1. ASSUME Recover(p) PROVE Layout'
  <2>1. /\ RestType' /\ owed' = owed /\ legacy' = legacy /\ root.exists /\ root.lock = p
    BY <1>1, <1>t DEF Recover, RestType, SetRoot, tree, LockOrder
  <2>2. CASE root' = root
    <3>1. PICK w \in {"database", "failed", "copy"} : pc' = [pc EXCEPT ![p] = w]
      BY <1>1 DEF Recover
    <3>2. pc[p] = "recover"
      BY <1>1 DEF Recover
    <3> QED
      BY <2>1, <2>2, <3>1, <3>2, QuietStep
  <2>3. CASE pc' = [pc EXCEPT ![p] = "failed"] /\ Same(root, root')
    <3>1. root' \in StateRoot /\ (root'.lock = root.lock \/ root.lock = p)
      BY <1>1, <1>t, <2>1, RecoverEffect
    <3>2. Owes(root', pc', owed')
      BY <2>1, <2>3, OwesKept DEF Same, SameUse
    <3>3. Pristine(root') /\ (root.touched => root'.touched)
      BY <1>t, <2>1, <2>3, PristineKept DEF Same, SameDatabase, SameBackups, SameUse
    <3> QED
      BY <2>1, <2>3, <3>1, <3>2, <3>3, RootStep
  <2>4. CASE /\ root'.lock = root.lock /\ SameUse(root, root') /\ BackupOf(root) # {}
             /\ pc' = [pc EXCEPT ![p] = "copy"]
    <3>1. root' \in StateRoot
      BY <1>1, <1>t, <2>1, RecoverEffect
    <3>2. Owes(root', pc', owed')
      BY <2>1, <2>4, OwesKept DEF SameUse
    <3>3. root.touched
      BY <1>t, <2>1, <2>4 DEF Pristine, BackupOf
    <3>4. Pristine(root') /\ root'.touched
      BY <2>4, <3>3 DEF Pristine, SameUse
    <3> QED
      BY <2>1, <2>4, <3>1, <3>2, <3>4, RootStep
  <2>5. \/ root' = root
        \/ Same(root, root') /\ pc' = [pc EXCEPT ![p] = "failed"]
        \/ /\ root'.lock = root.lock /\ SameUse(root, root') /\ BackupOf(root) # {}
           /\ pc' = [pc EXCEPT ![p] = "copy"]
    BY <1>1, <1>t, <2>1, RecoverEffect
  <2> QED
    BY <2>2, <2>3, <2>4, <2>5
<1>2. ASSUME CopyBackup(p) PROVE Layout'
  <2>1. /\ RestType' /\ owed' = owed /\ legacy' = legacy /\ root.exists /\ root.lock = p
        /\ pc' = [pc EXCEPT ![p] = "removeWal"]
    BY <1>2, <1>t DEF CopyBackup, RestType, SetRoot, LockOrder
  <2>2. /\ root' \in StateRoot /\ root'.lock = root.lock /\ SameUse(root, root')
        /\ root.backups # {}
    BY <1>2, <1>t, <2>1, CopyEffect
  <2>3. Owes(root', pc', owed')
    BY <2>1, <2>2, OwesKept DEF SameUse
  <2>4. Pristine(root') /\ root'.touched
    BY <1>t, <2>1, <2>2 DEF Pristine, SameUse
  <2> QED
    BY <2>1, <2>2, <2>3, <2>4, RootStep
<1>3. ASSUME RemoveOldWal(p) PROVE Layout'
  <2>1. /\ RestType' /\ owed' = owed /\ legacy' = legacy /\ root.exists /\ root.lock = p
        /\ pc' = [pc EXCEPT ![p] = "restored"]
    BY <1>3, <1>t DEF RemoveOldWal, RestType, SetRoot, LockOrder
  <2>2. /\ root' \in StateRoot /\ root'.lock = root.lock
        /\ SameBackups(root, root') /\ SameUse(root, root') /\ root'.file = "whole"
    BY <1>3, <1>t, <2>1, WalEffect
  <2>3. Owes(root', pc', owed')
    BY <2>1, <2>2, OwesKept DEF SameUse
  <2>4. Pristine(root') /\ (root.touched => root'.touched)
    BY <1>t, <2>1, <2>2, PristineKept DEF SameBackups, SameUse
  <2> QED
    BY <2>1, <2>2, <2>3, <2>4, RootStep
<1>4. ASSUME RemoveMarkerOfRestored(p) PROVE Layout'
  <2>1. /\ RestType' /\ owed' = owed /\ legacy' = legacy /\ root.exists /\ root.lock = p
    BY <1>4, <1>t DEF RemoveMarkerOfRestored, RestType, SetRoot, LockOrder
  <2>2. /\ root' \in StateRoot /\ Unmarked(root, root')
        /\ \/ pc' = [pc EXCEPT ![p] = "failed"] /\ (root'.lock = root.lock \/ root.lock = p)
           \/ pc' = [pc EXCEPT ![p] = "database"] /\ root'.lock = root.lock
    BY <1>4, <1>t, <2>1, RestoredEffect
  <2>3. Owes(root', pc', owed')
    BY <2>1, <2>2, OwesKept DEF Unmarked, SameUse
  <2>4. Pristine(root') /\ (root.touched => root'.touched)
    BY <1>t, <2>1, <2>2, PristineKept DEF Unmarked, SameDatabase, SameUse
  <2>5. CASE pc' = [pc EXCEPT ![p] = "failed"]
    BY <2>1, <2>2, <2>3, <2>4, <2>5, RootStep
  <2>6. CASE pc' = [pc EXCEPT ![p] = "database"] /\ root'.lock = root.lock
    BY <2>1, <2>2, <2>3, <2>4, <2>6, RootStep
  <2> QED
    BY <2>2, <2>5, <2>6
<1> QED
  BY <1>1, <1>2, <1>3, <1>4

\* Layout over a migration.
LEMMA Migrates ==
  ASSUME Layout, NEW p \in Procs
  PROVE  /\ OpenDatabase(p) => Layout'
         /\ WriteMarker(p) => Layout'
         /\ ApplyMigration(p) => Layout'
         /\ FinishMigration(p) => Layout'
<1> USE DEF Goto, Places, Holding, Opened, Retaining
<1>t. RestType /\ pc \in [Procs -> Places] /\ TypeOK /\ LockOrder(root, pc) /\ Pristine(root)
  BY DEF Layout, TypeOK, RestType
<1>1. ASSUME OpenDatabase(p) PROVE Layout'
  <2>1. /\ owed' = owed /\ legacy' = legacy /\ root.exists /\ root.lock = p
        /\ UNCHANGED <<stateLock, mover, undoing, detached, acked, owed, expired>>
    BY <1>1, <1>t DEF OpenDatabase, SetRoot, LockOrder
  <2>2. /\ root' \in StateRoot /\ root'.file = root.file
        /\ root'.marker = root.marker /\ root'.retention = root.retention
        /\ \/ /\ root'.backups = root.backups /\ root'.touched = root.touched
              /\ root'.lock = root.lock \/ root.lock = p
              /\ pc' = [pc EXCEPT ![p] = "failed"] /\ used' = used
           \/ /\ root'.touched = TRUE
              /\ root'.lock = root.lock \/ root.lock = p
              /\ pc' = [pc EXCEPT ![p] = "commit"] /\ used' = used
           \/ /\ root'.touched = TRUE /\ root'.lock = root.lock
              /\ pc' = [pc EXCEPT ![p] = "mark"] /\ used' = [used EXCEPT !.backups = @ + 1]
    BY <1>1, <1>t, <2>1, OpenDatabaseEffect
  <2>3. RestType'
    <3>1. [used EXCEPT !.backups = @ + 1] \in Used
      BY <1>t DEF RestType, Used
    <3>2. used' \in Used
      BY <1>t, <2>2, <3>1 DEF RestType
    <3> QED
      BY <1>t, <2>1, <3>2 DEF RestType
  <2>4. CASE /\ pc' = [pc EXCEPT ![p] = "failed"]
             /\ root'.touched = root.touched /\ root'.backups = root.backups
    <3>1. Owes(root', pc', owed')
      BY <2>1, <2>2, <2>4, OwesKept
    <3>2. Pristine(root')
      BY <1>t, <2>1, <2>2, <2>4, PristineKept DEF SameUse
    <3> QED
      BY <2>1, <2>2, <2>3, <2>4, <3>1, <3>2, RootStep
  <2>5. CASE root'.touched = TRUE /\ pc' = [pc EXCEPT ![p] = "commit"]
    <3>1. Owes(root', pc', owed')
      BY <2>1, <2>2, <2>5, OwesKept
    <3>2. Pristine(root')
      BY <2>5 DEF Pristine
    <3> QED
      BY <2>1, <2>2, <2>3, <2>5, <3>1, <3>2, RootStep
  <2>6. CASE root'.touched = TRUE /\ root'.lock = root.lock /\ pc' = [pc EXCEPT ![p] = "mark"]
    <3>1. Owes(root', pc', owed')
      BY <2>1, <2>2, <2>6, OwesKept
    <3>2. Pristine(root')
      BY <2>6 DEF Pristine
    <3> QED
      BY <2>1, <2>2, <2>3, <2>6, <3>1, <3>2, RootStep
  <2> QED
    BY <2>2, <2>4, <2>5, <2>6
<1>2. ASSUME WriteMarker(p) PROVE Layout'
  <2>1. /\ RestType' /\ owed' = owed /\ legacy' = legacy /\ root.exists /\ root.lock = p
        /\ pc' = [pc EXCEPT ![p] = "migrate"]
    BY <1>2, <1>t DEF WriteMarker, RestType, SetRoot, LockOrder
  <2>2. /\ root' \in StateRoot /\ root'.lock = root.lock /\ SameUse(root, root')
        /\ root.backups # {}
    BY <1>2, <1>t, <2>1, MarkEffect
  <2>3. Owes(root', pc', owed')
    BY <2>1, <2>2, OwesKept DEF SameUse
  <2>4. Pristine(root') /\ root'.touched
    BY <1>t, <2>1, <2>2 DEF Pristine, SameUse
  <2> QED
    BY <2>1, <2>2, <2>3, <2>4, RootStep
<1>3. ASSUME ApplyMigration(p) PROVE Layout'
  <2>1. /\ RestType' /\ owed' = owed /\ legacy' = legacy /\ root.exists /\ root.lock = p
        /\ pc' = [pc EXCEPT ![p] = "migrate"] /\ root.touched
    BY <1>3, <1>t DEF ApplyMigration, RestType, SetRoot, LockOrder
  <2>2. /\ root' \in StateRoot /\ root'.lock = root.lock /\ SameUse(root, root')
        /\ SameBackups(root, root') /\ root'.file = root.file
    BY <1>3, <1>t, <2>1, MigrationEffect
  <2>3. Owes(root', pc', owed')
    BY <2>1, <2>2, OwesKept DEF SameUse
  <2>4. Pristine(root') /\ root'.touched
    BY <1>t, <2>1, <2>2, PristineKept DEF SameBackups, SameUse
  <2> QED
    BY <2>1, <2>2, <2>3, <2>4, RootStep
<1>4. ASSUME FinishMigration(p) PROVE Layout'
  <2>1. /\ RestType' /\ owed' = owed /\ legacy' = legacy /\ root.exists /\ root.lock = p
        /\ pc' = [pc EXCEPT ![p] = "commit"] /\ root.touched
    BY <1>4, <1>t DEF FinishMigration, RestType, SetRoot, LockOrder
  <2>2. /\ root' \in StateRoot /\ Unmarked(root, root')
        /\ root'.lock = root.lock \/ root.lock = p
    BY <1>4, <1>t, <2>1, FinishEffect
  <2>3. Owes(root', pc', owed')
    BY <2>1, <2>2, OwesKept DEF Unmarked, SameUse
  <2>4. Pristine(root') /\ root'.touched
    BY <2>1, <2>2 DEF Unmarked, SameUse, Pristine
  <2> QED
    BY <2>1, <2>2, <2>3, <2>4, RootStep
<1> QED
  BY <1>1, <1>2, <1>3, <1>4

\* Layout over a retention run, crash and resumption included.
LEMMA Retains ==
  ASSUME Layout, NEW p \in Procs
  PROVE  /\ StartRetention(p) => Layout'
         /\ ApplyClass(p) => Layout'
         /\ AdvanceRetention(p) => Layout'
<1> USE DEF Goto, Places, Holding, Opened, Retaining
<1>t. /\ RestType /\ pc \in [Procs -> Places] /\ TypeOK /\ LockOrder(root, pc) /\ Pristine(root)
      /\ Owes(root, pc, owed)
  BY DEF Layout, TypeOK, RestType
<1>g. pc[p] \in Retaining => p = Gateway
  BY <1>t DEF Owes
<1>1. ASSUME StartRetention(p) PROVE Layout'
  <2>1. /\ legacy' = legacy /\ root.exists /\ root.touched
        /\ pc' = [pc EXCEPT ![p] = "apply"] /\ p = Gateway
        /\ owed' = (IF root.retention = << >> THEN Classes ELSE owed)
    BY <1>1, <1>t, <1>g DEF StartRetention, SetRoot, LockOrder
  <2>2. RestType'
    BY <1>1, <1>t, <2>1 DEF StartRetention, RestType
  <2>3. /\ root' \in StateRoot /\ root'.lock = root.lock /\ root'.touched = root.touched
        /\ root'.retention = IF root.retention = << >> THEN CLASS_ORDER ELSE root.retention
    BY <1>1, <1>t, <2>1, RetentionStarts
  <2>4. \A q \in Procs : pc'[q] \in Retaining => q = Gateway
    BY <1>t, <2>1 DEF Owes
  <2>5. \A c \in owed' : \E i \in 1..Len(root'.retention) : root'.retention[i] = c
    <3>1. CASE root.retention = << >>
      BY <2>1, <2>3, <3>1, ClassFacts
    <3>2. CASE root.retention # << >>
      BY <1>t, <2>1, <2>3, <3>2 DEF Owes
    <3> QED
      BY <3>1, <3>2
  <2>6. pc'[Gateway] # "advance"
    BY <1>t, <2>1, StorageAssumption
  <2>7. Owes(root', pc', owed') /\ Pristine(root')
    BY <2>1, <2>3, <2>4, <2>5, <2>6 DEF Owes, Pristine
  <2> QED
    BY <2>1, <2>2, <2>3, <2>7, RootStep
<1>2. ASSUME ApplyClass(p) PROVE Layout'
  <2>1. /\ legacy' = legacy /\ root.exists /\ root.touched
        /\ pc' = [pc EXCEPT ![p] = "advance"] /\ p = Gateway
    BY <1>2, <1>t, <1>g DEF ApplyClass, SetRoot, LockOrder, tree
  <2>2. /\ root' \in StateRoot /\ root'.lock = root.lock /\ SameUse(root, root')
        /\ root \in StateRoot
        /\ root.retention # << >> /\ owed' = owed \ {Head(root.retention)}
    BY <1>2, <1>t, <2>1, ClassEffect
  <2>3. RestType'
    BY <1>2, <1>t, <2>2 DEF ApplyClass, RestType
  <2>4. \A q \in Procs : pc'[q] \in Retaining => q = Gateway
    BY <1>t, <2>1 DEF Owes
  <2>5. \A c \in owed' : \E i \in 2..Len(root.retention) : root.retention[i] = c
    <3> SUFFICES ASSUME NEW c \in owed' PROVE \E i \in 2..Len(root.retention) : root.retention[i] = c
      OBVIOUS
    <3>1. root.retention \in Seq(Classes)
      BY <2>2 DEF StateRoot
    <3>2. c \in owed /\ c # root.retention[1]
      BY <2>2, <3>1
    <3>3. PICK i \in 1..Len(root.retention) : root.retention[i] = c
      BY <1>t, <2>1, <2>2, <3>2 DEF Owes
    <3>4. i # 1 /\ Len(root.retention) \in Nat
      BY <3>1, <3>2, <3>3
    <3> QED
      BY <3>3, <3>4
  <2>6. Owes(root', pc', owed') /\ Pristine(root')
    <3>1. root.retention \in Seq(Classes) /\ root'.retention = root.retention /\ root'.touched
      BY <2>1, <2>2 DEF StateRoot, SameUse
    <3>2. \A c \in owed' : \E i \in 1..Len(root.retention) : root.retention[i] = c
      BY <2>2, <1>t, <2>1 DEF Owes
    <3> QED
      BY <2>4, <2>5, <3>1, <3>2 DEF Owes, Pristine
  <2> QED
    BY <2>1, <2>2, <2>3, <2>6, RootStep DEF SameUse
<1>3. ASSUME AdvanceRetention(p) PROVE Layout'
  <2>1. /\ legacy' = legacy /\ root.exists /\ root.touched /\ p = Gateway /\ owed' = owed
        /\ pc[p] = "advance"
    BY <1>3, <1>t, <1>g DEF AdvanceRetention, SetRoot, LockOrder
  <2>2. PICK w \in {"serve", "apply"} : pc' = [pc EXCEPT ![p] = w]
    BY <1>3 DEF AdvanceRetention
  <2>3. /\ root' \in StateRoot /\ root'.lock = root.lock /\ root'.touched = root.touched
        /\ root \in StateRoot
        /\ root.retention # << >> /\ root'.retention = Tail(root.retention)
    BY <1>3, <1>t, <2>1, RetentionAdvances
  <2>4. RestType'
    BY <1>3, <1>t DEF AdvanceRetention, RestType
  <2>5. \A q \in Procs : pc'[q] \in Retaining => q = Gateway
    BY <1>t, <2>1, <2>2 DEF Owes
  <2>6. \A c \in owed' : \E i \in 1..Len(root'.retention) : root'.retention[i] = c
    <3> SUFFICES ASSUME NEW c \in owed PROVE \E i \in 1..Len(root'.retention) : root'.retention[i] = c
      BY <2>1
    <3>1. root.retention \in Seq(Classes)
      BY <2>3 DEF StateRoot
    <3>2. PICK i \in 2..Len(root.retention) : root.retention[i] = c
      BY <1>t, <2>1, <2>3 DEF Owes
    <3>3. /\ Len(Tail(root.retention)) = Len(root.retention) - 1 /\ Len(root.retention) \in Nat
          /\ i - 1 \in 1..(Len(root.retention) - 1) /\ Tail(root.retention)[i - 1] = root.retention[i]
      BY <2>3, <3>1, <3>2
    <3> QED
      BY <2>3, <3>2, <3>3
  <2>7. pc'[Gateway] # "advance"
    BY <1>t, <2>1, <2>2, StorageAssumption
  <2>8. Owes(root', pc', owed') /\ Pristine(root')
    BY <2>1, <2>3, <2>5, <2>6, <2>7 DEF Owes, Pristine
  <2> QED
    BY <2>1, <2>2, <2>3, <2>4, <2>8, RootStep
<1> QED
  BY <1>1, <1>2, <1>3

\* Layout over writes and crashes.
LEMMA Uses ==
  ASSUME Layout, NEW p \in Procs
  PROVE  /\ Write(p) => Layout'
         /\ Crash(p) => Layout'
<1> USE DEF Goto, Places, Holding, Opened, Retaining
<1>t. RestType /\ pc \in [Procs -> Places] /\ TypeOK /\ LockOrder(root, pc) /\ Pristine(root)
  BY DEF Layout, TypeOK, RestType
<1>1. ASSUME Write(p) PROVE Layout'
  <2>1. /\ owed' = owed /\ legacy' = legacy /\ root.exists /\ root.touched
        /\ pc' = [pc EXCEPT ![p] = "serve"]
    BY <1>1, <1>t DEF Write, SetRoot, LockOrder
  <2>2. /\ root' \in StateRoot /\ root'.lock = root.lock /\ SameUse(root, root')
        /\ used' \in Used
        /\ acked' \in Rows
    BY <1>1, <1>t, <2>1, WriteEffect
  <2>3. RestType'
    BY <1>1, <1>t, <2>2 DEF Write, RestType, Rows
  <2>4. Owes(root', pc', owed')
    BY <2>1, <2>2, OwesKept DEF SameUse
  <2>5. Pristine(root') /\ root'.touched
    BY <2>1, <2>2 DEF Pristine, SameUse
  <2> QED
    BY <2>1, <2>2, <2>3, <2>4, <2>5, RootStep
<1>2. ASSUME Crash(p) PROVE Layout'
  <2>1. /\ RestType' /\ owed' = owed /\ legacy' = legacy /\ pc' = [pc EXCEPT ![p] = "off"]
    BY <1>2, <1>t, SpendType DEF Crash, SetRoot, RestType, tree
  <2>2. CASE root.exists
    <3>1. /\ root' \in StateRoot /\ Same(root, root')
          /\ root'.lock = root.lock \/ root.lock = p
      BY <1>2, <1>t, <2>2, CrashEffect
    <3>2. Owes(root', pc', owed')
      BY <2>1, <2>2, <3>1, OwesKept DEF Same, SameUse
    <3>3. Pristine(root') /\ (root.touched => root'.touched)
      BY <1>t, <2>2, <3>1, PristineKept DEF Same, SameDatabase, SameBackups, SameUse
    <3> QED
      BY <2>1, <2>2, <3>1, <3>2, <3>3, RootStep
  <2>3. CASE ~root.exists
    BY <1>2, <2>1, <2>3, QuietStep DEF Crash, tree
  <2> QED
    BY <2>2, <2>3
<1> QED
  BY <1>1, <1>2

\* Layout over the passing of the retention ages.
LEMMA Ages == Layout /\ Age => Layout'
<1> SUFFICES ASSUME Layout, Age PROVE Layout'
  OBVIOUS
<1>t. RestType /\ pc \in [Procs -> Places] /\ TypeOK
  BY DEF Layout, TypeOK, RestType
<1>1. RestType' /\ pc' = pc /\ owed' = owed /\ root' = Aged(root) /\ legacy' = Aged(legacy)
  BY <1>t, SpendType DEF Age, RestType
<1> DEFINE Ok(t, u) ==
      /\ u \in StateRoot \cup {NoTree} /\ u.exists = t.exists
      /\ t.exists => u.lock = t.lock /\ SameUse(t, u) /\ u.marker = t.marker
                     /\ u.file = t.file /\ (t.backups = {} => u.backups = {})
<1>2. \A t \in StateRoot \cup {NoTree} : Ok(t, Aged(t))
  <2>1. ASSUME NEW t \in StateRoot PROVE Ok(t, Aged(t))
    <3>1. t.exists = TRUE
      BY DEF StateRoot
    <3> QED
      BY <3>1, AgedFacts DEF SameUse
  <2>2. Ok(NoTree, Aged(NoTree))
    BY DEF Aged, NoTree
  <2> QED
    BY <2>1, <2>2
<1>3. Ok(root, root') /\ Ok(legacy, legacy')
  BY <1>1, <1>2, <1>t DEF TypeOK
<1> HIDE DEF Ok
<1>4. LockOrder(root', pc')
  BY <1>1, <1>3 DEF Layout, LockOrder, Holding, Ok, SameUse
<1>5. Pristine(root') /\ Pristine(legacy') /\ LegacyUnused(legacy')
  BY <1>3 DEF Layout, Pristine, LegacyUnused, Ok, SameUse
<1>6. Owes(root', pc', owed')
  BY <1>1, <1>3 DEF Layout, Owes, Ok, SameUse
<1>7. TypeOK'
  BY <1>1, <1>3, <1>t DEF TypeOK, RestType, Ok
<1> QED
  BY <1>4, <1>5, <1>6, <1>7 DEF Layout

\* Layout holds at first.
LEMMA LayoutInit == Init => Layout
<1> SUFFICES ASSUME Init PROVE Layout
  OBVIOUS
<1>1. PICK roots \in InitialRoots, schema \in 0..MaxSchema :
        /\ root = IF "canonical" \in roots THEN Root(schema, {Prior}) ELSE NoTree
        /\ legacy = IF "legacy" \in roots THEN Root(schema, {Prior}) ELSE NoTree
        /\ acked = IF roots = {} THEN {} ELSE {Prior}
  BY DEF Init
<1>2. schema \in Schemas /\ {Prior} \in Rows /\ {} \in Rows
  BY StorageAssumption DEF Schemas, Rows, Prior
<1> DEFINE t == Root(schema, {Prior})
<1>3. /\ t \in StateRoot /\ Pristine(t) /\ LegacyUnused(t) /\ t.retention = << >>
  BY <1>2, RootType DEF Pristine, LegacyUnused
<1>4. NoTree \in StateRoot \cup {NoTree} /\ Pristine(NoTree) /\ LegacyUnused(NoTree) /\ ~NoTree.exists
  BY DEF NoTree, Pristine, LegacyUnused
<1> HIDE DEF t
<1>5. root \in {t, NoTree} /\ legacy \in {t, NoTree}
  BY <1>1 DEF t
<1>6. /\ stateLock = None /\ pc = [p \in Procs |-> "off"]
      /\ mover = {} /\ undoing = {} /\ detached = FALSE /\ owed = {} /\ expired = {}
      /\ used = [writes |-> 0, crashes |-> 0, failures |-> 0, ages |-> 0, backups |-> 0]
  BY DEF Init
<1>7. used \in Used /\ acked \in Rows /\ pc \in [Procs -> Places]
  BY <1>1, <1>2, <1>6, StorageAssumption DEF Used, Places
<1>8. TypeOK
  BY <1>3, <1>5, <1>6, <1>7 DEF TypeOK
<1>9. LockOrder(root, pc)
  BY <1>6 DEF LockOrder, Holding, Opened
<1>10. Owes(root, pc, owed)
  BY <1>3, <1>4, <1>5, <1>6 DEF Owes, Retaining
<1> QED
  BY <1>3, <1>4, <1>5, <1>8, <1>9, <1>10 DEF Layout

\* Layout is inductive.
LEMMA LayoutNext == Reclaimers = 1 /\ Layout /\ [Next]_vars => Layout'
<1> SUFFICES ASSUME Reclaimers = 1, Layout, [Next]_vars PROVE Layout'
  OBVIOUS
<1>1. CASE UNCHANGED vars
  BY <1>1 DEF vars, Layout, TypeOK, LockOrder, Pristine, LegacyUnused, Owes
<1>2. CASE Age
  BY <1>2, Ages
<1>3. ASSUME NEW p \in Procs,
        \/ Resolve(p) \/ TakeStateLock(p) \/ StateLockHeld(p) \/ LockHeld(p)
        \/ CompareStaleLock(p) \/ MigrationFails(p) \/ Commit(p) \/ Close(p)
      PROVE Layout'
  BY <1>3, Quiet
<1>4. ASSUME NEW p \in Procs, MoveLegacyRoot(p) \/ Rollback(p)
      PROVE Layout'
  BY <1>4, Moves, MovesBack
<1>5. ASSUME NEW p \in Procs, Open(p) \/ Lock(p) \/ UnlinkStaleLock(p)
      PROVE Layout'
  BY <1>5, Locks
<1>6. ASSUME NEW p \in Procs, Recover(p) \/ CopyBackup(p) \/ RemoveOldWal(p) \/ RemoveMarkerOfRestored(p)
      PROVE Layout'
  BY <1>6, Restores
<1>7. ASSUME NEW p \in Procs, OpenDatabase(p) \/ WriteMarker(p) \/ ApplyMigration(p) \/ FinishMigration(p)
      PROVE Layout'
  BY <1>7, Migrates
<1>8. ASSUME NEW p \in Procs, StartRetention(p) \/ ApplyClass(p) \/ AdvanceRetention(p)
      PROVE Layout'
  BY <1>8, Retains
<1>9. ASSUME NEW p \in Procs, Write(p) \/ Crash(p)
      PROVE Layout'
  BY <1>9, Uses
<1> QED
  BY <1>1, <1>2, <1>3, <1>4, <1>5, <1>6, <1>7, <1>8, <1>9 DEF Next

-----------------------------------------------------------------------------
(* Retention.                                                              *)

\* The step of RetentionCoversAll.
RetentionStep ==
  root.exists /\ root'.exists /\ root.retention # << >> /\ root'.retention = << >> => owed = {}

\* When the marker goes, the last class has been applied.
LEMMA RetentionDone ==
  ASSUME Layout, NEW p \in Procs, AdvanceRetention(p)
  PROVE  RetentionStep
<1> SUFFICES ASSUME root.exists, root'.exists, root'.retention = << >> PROVE owed = {}
  BY DEF RetentionStep
<1>1. /\ TypeOK /\ pc[p] = "advance" /\ Owes(root, pc, owed)
  BY DEF Layout, AdvanceRetention
<1>2. root \in StateRoot /\ root.retention # << >> /\ Tail(root.retention) = << >>
  BY <1>1, RetentionAdvances
<1>3. root.retention \in Seq(Classes)
  BY <1>2 DEF StateRoot
<1>4. Len(root.retention) = 1
  <2>1. Len(Tail(root.retention)) = Len(root.retention) - 1 /\ Len(root.retention) \in Nat
    BY <1>2, <1>3, EmptySeq, HeadTailProperties
  <2>2. \A s : s = << >> => Len(s) = 0
    OBVIOUS
  <2>3. Len(Tail(root.retention)) = 0
    BY <1>2, <2>2, Zenon
  <2> QED
    BY <2>1, <2>3
<1>5. p = Gateway
  BY <1>1 DEF Owes, Retaining
<1>6. \A c \in owed : \E i \in 2..Len(root.retention) : root.retention[i] = c
  BY <1>1, <1>2, <1>5 DEF Owes
<1> QED
  BY <1>4, <1>6

\* Nothing else removes the retention marker.
LEMMA RetentionNext == Layout /\ [Next]_vars => RetentionStep
<1> SUFFICES ASSUME Layout, [Next]_vars, root.exists PROVE RetentionStep
  BY DEF RetentionStep
<1>t. TypeOK /\ root \in StateRoot /\ CLASS_ORDER # << >>
  BY RootExists, ClassFacts DEF Layout
<1>1. CASE root' = root
  BY <1>1 DEF RetentionStep
<1>2. ASSUME root'.retention = root.retention PROVE RetentionStep
  BY <1>2 DEF RetentionStep
<1>3. CASE Age
  BY <1>2, <1>3, <1>t, AgedFacts DEF Age
<1>4. ASSUME NEW p \in Procs,
        \/ Resolve(p) \/ TakeStateLock(p) \/ StateLockHeld(p) \/ LockHeld(p)
        \/ CompareStaleLock(p) \/ MigrationFails(p) \/ Commit(p) \/ Close(p) \/ Open(p)
      PROVE root' = root
  BY <1>4 DEF Resolve, TakeStateLock, StateLockHeld, LockHeld, CompareStaleLock, MigrationFails,
              Commit, Close, Open, tree
<1>5. ASSUME NEW p \in Procs, MoveLegacyRoot(p) \/ Rollback(p)
      PROVE RetentionStep
  BY <1>1, <1>5 DEF MoveLegacyRoot, Rollback, tree, NoTree, RetentionStep
<1>6. ASSUME NEW p \in Procs, \/ Lock(p) \/ UnlinkStaleLock(p) \/ Recover(p) \/ CopyBackup(p)
        \/ RemoveOldWal(p) \/ Crash(p)
      PROVE root'.retention = root.retention
  BY <1>6, <1>t, LockEffect, UnlinkEffect, RecoverEffect, CopyEffect, WalEffect, CrashEffect
     DEF Same, SameUse
<1>7. ASSUME NEW p \in Procs, \/ RemoveMarkerOfRestored(p) \/ OpenDatabase(p) \/ WriteMarker(p)
        \/ ApplyMigration(p) \/ FinishMigration(p) \/ ApplyClass(p) \/ Write(p)
      PROVE root'.retention = root.retention
  BY <1>7, <1>t, RestoredEffect, OpenDatabaseEffect, MarkEffect, MigrationEffect, FinishEffect,
     ClassEffect, WriteEffect DEF Unmarked, SameUse
<1>8. ASSUME NEW p \in Procs, StartRetention(p)
      PROVE RetentionStep
  BY <1>8, <1>t, RetentionStarts DEF RetentionStep
<1>9. CASE UNCHANGED vars
  BY <1>1, <1>9 DEF vars
<1> QED
  BY <1>1, <1>2, <1>3, <1>4, <1>5, <1>6, <1>7, <1>8, <1>9, RetentionDone DEF Next

\* The invariant of the ownership lock and of the roots' layout holds.  Of
\* the processes that open a control plane, one at most is between taking and
\* releasing the migration lock (storage/ownership-lock.ts), whatever dies.
THEOREM Arrangement == ASSUME Reclaimers = 1 PROVE Spec => []Layout
<1>1. Layout /\ [Next]_vars => Layout'
  BY LayoutNext
<1> QED
  BY <1>1, LayoutInit, PTL DEF Spec

\* The state is of its type.
THEOREM TypeCorrect == ASSUME Reclaimers = 1 PROVE Spec => []TypeOK
<1>1. Layout => TypeOK
  BY DEF Layout
<1> QED
  BY <1>1, Arrangement, PTL

\* A retention run removes its marker (storage/retention.ts:176) only when
\* every class has been applied since it began, however often it was interrupted.
THEOREM RetentionComplete == ASSUME Reclaimers = 1 PROVE Spec => RetentionCoversAll
<1>1. Layout /\ [Next]_vars => RetentionStep
  BY RetentionNext
<1>2. RetentionStep =>
        (root.exists /\ root'.exists /\ root.retention # << >> /\ root'.retention = << >>
           => owed = {})
  BY DEF RetentionStep
<1> QED
  BY <1>1, <1>2, Arrangement, PTL DEF Spec, RetentionCoversAll

-----------------------------------------------------------------------------
(* The invariant of the files, whichever releases the processes run.       *)

\* Where a process has the store open and is about to delete old backups.
Cleaning == {"commit", "retain", "apply", "advance"}
Fresh(t) == \E b \in t.backups : b.id = t.marker /\ ~b.old

\* WholeWhenUnmarked and MarkerHasBackup of one root; no backup has a name still
\* to come.
Whole(t) == t.exists => (t.marker = None => t.file = "whole")
Backed(t) == t.exists => (t.marker # None => \E b \in t.backups : b.id = t.marker)
Numbered(t, n) == t.exists => \A b \in t.backups : b.id[2] <= n

\* What p relies on where it is: a marker stands from before the copy until the
\* database is whole again; there is none before the backup, and the last backup
\* of p is a new one; and a marker written beside a retention run names a backup
\* that run will not delete.
Stands(p, t, at) ==
  /\ at[p] \in {"copy", "removeWal", "restored"} => t.marker # None
  /\ at[p] \in {"restored", "migrate"} => t.file = "whole"
  /\ at[p] \in {"database", "mark"} => t.marker = None
  /\ at[p] = "mark" => \A b \in t.backups : LastOf(p, b, t) => ~b.old
  /\ at[p] \in Cleaning => (t.marker # None => Fresh(t))
Intact(t, n) == Whole(t) /\ Backed(t) /\ Numbered(t, n)
Safe == Intact(root, used.backups) /\ \A p \in Procs : Stands(p, root, pc)

\* Stands asks nothing of a process outside the lock and without the store.
LEMMA StandsIrrelevant ==
  ASSUME NEW q \in Procs, NEW t, NEW at, at[q] \notin Holding, at[q] \notin Opened
  PROVE  Stands(q, t, at)
  BY DEF Stands, Holding, Opened, Cleaning

\* While p holds the lock and changes the files, the others only rely on the age
\* of the marked backup.
LEMMA StandsAlone ==
  ASSUME Layout, NEW p \in Procs, NEW w, pc' = [pc EXCEPT ![p] = w], pc[p] \in Holding,
         NEW q \in Procs, q # p, pc[q] \in Cleaning => (root'.marker # None => Fresh(root'))
  PROVE  Stands(q, root', pc')
<1>1. LockOrder(root, pc) /\ pc \in [Procs -> Places]
  BY DEF Layout, TypeOK
<1>2. pc'[q] = pc[q] /\ pc[q] \notin Holding
  BY <1>1 DEF LockOrder
<1> QED
  BY <1>2 DEF Stands, Holding

\* Safe over a step that leaves the file, the backups and the marker alone.
LEMMA SafeSame ==
  ASSUME Layout, Safe, NEW p \in Procs, NEW w, pc' = [pc EXCEPT ![p] = w],
         root'.exists = root.exists, root'.file = root.file, SameBackups(root, root'),
         used'.backups = used.backups,
         w \in Cleaning => pc[p] \in Cleaning \/ root.marker = None,
         w \in Holding => w \in {"recover", pc[p]} \/ (w = "database" /\ root.marker = None)
  PROVE  Safe'
<1>1. Intact(root', used'.backups)
  BY DEF Safe, Intact, Whole, Backed, Numbered, SameBackups
<1>2. pc'[p] = w /\ \A q \in Procs : q # p => pc'[q] = pc[q]
  BY DEF Layout, TypeOK
<1>3. \A q, b : LastOf(q, b, root') <=> LastOf(q, b, root)
  BY DEF LastOf, SameBackups
<1>4. Fresh(root') <=> Fresh(root)
  BY DEF Fresh, SameBackups
<1>5. ASSUME NEW q \in Procs, pc'[q] = pc[q] PROVE Stands(q, root', pc')
  BY <1>3, <1>4, <1>5 DEF Safe, Stands, SameBackups
<1>6. ASSUME pc'[p] # pc[p] PROVE Stands(p, root', pc')
  <2>1. w \in Cleaning => (root.marker # None => Fresh(root))
    BY DEF Safe, Stands
  <2>2. w \in Holding => w = "recover" \/ (w = "database" /\ root.marker = None)
    BY <1>2, <1>6
  <2> QED
    BY <1>2, <1>4, <2>1, <2>2 DEF Stands, Holding, Cleaning, SameBackups
<1>7. \A q \in Procs : Stands(q, root', pc')
  BY <1>2, <1>5, <1>6
<1> QED
  BY <1>1, <1>7 DEF Safe

\* Safe over a step after which no backup is left to rely on, in a root nobody
\* holds or uses.
LEMMA SafeNew ==
  ASSUME NEW p \in Procs, ~root'.exists \/ (root'.marker = None /\ root'.file = "whole" /\ root'.backups = {}),
         \A q \in Procs : pc'[q] \notin Holding /\ pc'[q] \notin Opened
  PROVE  Safe'
<1>1. Intact(root', used'.backups)
  BY DEF Intact, Whole, Backed, Numbered
<1>2. \A q \in Procs : Stands(q, root', pc')
  BY StandsIrrelevant
<1> QED
  BY <1>1, <1>2 DEF Safe

\* Nobody holds or uses a root that is not there, or one that is not open and
\* whose lock is free.
LEMMA Nobody ==
  ASSUME Layout, NEW p \in Procs, NEW w, w \notin Holding \cup Opened, pc' = [pc EXCEPT ![p] = w],
         ~root.exists \/ (~root.touched /\ root.lock = None)
  PROVE  \A q \in Procs : pc'[q] \notin Holding /\ pc'[q] \notin Opened
<1>1. LockOrder(root, pc) /\ pc \in [Procs -> Places]
  BY DEF Layout, TypeOK
<1>2. \A q \in Procs : pc[q] \notin Holding /\ pc[q] \notin Opened
  BY <1>1, StorageAssumption DEF LockOrder
<1> QED
  BY <1>1, <1>2

\* Safe over a step of a restore, under its marker.
LEMMA SafeRestoring ==
  ASSUME Layout, Safe, NEW p \in Procs, NEW w \in {"copy", "removeWal", "restored"},
         pc' = [pc EXCEPT ![p] = w], pc[p] \in Holding, root.exists, root.marker # None,
         SameBackups(root, root'), used'.backups = used.backups,
         w = "restored" => root'.file = "whole"
  PROVE  Safe'
<1>1. Intact(root', used'.backups)
  BY DEF Safe, Intact, Whole, Backed, Numbered, SameBackups
<1>2. ASSUME NEW q \in Procs, q # p PROVE Stands(q, root', pc')
  <2>1. pc[q] \in Cleaning => (root'.marker # None => Fresh(root'))
    BY DEF Safe, Stands, Fresh, SameBackups
  <2> QED
    BY <1>2, <2>1, StandsAlone
<1>3. Stands(p, root', pc')
  <2>1. pc'[p] = w
    BY DEF Layout, TypeOK
  <2> QED
    BY <2>1 DEF Stands, SameBackups, Cleaning
<1> QED
  BY <1>1, <1>2, <1>3 DEF Safe

\* Safe over the removal of the marker, once the database is whole.
LEMMA SafeUnmarked ==
  ASSUME Layout, Safe, NEW p \in Procs, NEW w \in {"failed", "database", "commit"},
         pc' = [pc EXCEPT ![p] = w], pc[p] \in Holding, root.exists, root.file = "whole",
         Unmarked(root, root'), used'.backups = used.backups
  PROVE  Safe'
<1>1. root'.marker = None /\ root'.file = "whole" /\ root'.backups = root.backups
  BY DEF Unmarked, SameDatabase
<1>2. Intact(root', used'.backups)
  BY <1>1 DEF Safe, Intact, Whole, Backed, Numbered
<1>3. ASSUME NEW q \in Procs, q # p PROVE Stands(q, root', pc')
  BY <1>1, <1>3, StandsAlone
<1>4. Stands(p, root', pc')
  <2>1. pc'[p] = w
    BY DEF Layout, TypeOK
  <2> QED
    BY <1>1, <2>1 DEF Stands
<1> QED
  BY <1>2, <1>3, <1>4 DEF Safe

\* Safe over the steps that leave the file and its backups alone.
LEMMA SafeQuiet ==
  ASSUME Layout, Safe, NEW p \in Procs,
         \/ Resolve(p) \/ TakeStateLock(p) \/ StateLockHeld(p) \/ LockHeld(p)
         \/ CompareStaleLock(p) \/ MigrationFails(p) \/ Commit(p) \/ Close(p)
         \/ Lock(p) \/ UnlinkStaleLock(p) \/ StartRetention(p) \/ AdvanceRetention(p)
         \/ ApplyMigration(p) \/ Write(p) \/ Crash(p)
  PROVE  Safe'
<1> USE DEF Goto
<1>t. TypeOK /\ LockOrder(root, pc) /\ pc \in [Procs -> Places] /\ used \in Used
  BY DEF Layout, TypeOK
<1>1. CASE \/ Resolve(p) \/ TakeStateLock(p) \/ StateLockHeld(p) \/ LockHeld(p)
           \/ CompareStaleLock(p) \/ MigrationFails(p) \/ Commit(p) \/ Close(p)
  <2>1. UNCHANGED root /\ used'.backups = used.backups
    BY <1>1, <1>t, SpendType DEF Resolve, TakeStateLock, StateLockHeld, LockHeld, CompareStaleLock,
       MigrationFails, Commit, Close, tree
  <2>2. PICK w : /\ pc' = [pc EXCEPT ![p] = w]
                 /\ w \in Cleaning => pc[p] \in Cleaning
                 /\ w \in Holding => w = "recover"
    BY <1>1 DEF Resolve, TakeStateLock, StateLockHeld, LockHeld, CompareStaleLock, MigrationFails,
       Commit, Close, Cleaning, Holding
  <2> QED
    BY <2>1, <2>2, SafeSame DEF SameBackups
<1>2. CASE Lock(p)
  <2>1. root.exists /\ pc' = [pc EXCEPT ![p] = "recover"] /\ used' = used
    BY <1>2 DEF Lock
  <2> QED
    BY <1>2, <1>t, <2>1, LockEffect, SafeSame DEF Same, SameDatabase, StateRoot, Cleaning
<1>3. CASE UnlinkStaleLock(p)
  <2>1. root.exists /\ pc' = [pc EXCEPT ![p] = "lock"] /\ used' = used
    BY <1>3, <1>t DEF UnlinkStaleLock, LockOrder
  <2> QED
    BY <1>3, <1>t, <2>1, UnlinkEffect, SafeSame DEF Same, SameDatabase, StateRoot, Cleaning, Holding
<1>4. CASE StartRetention(p)
  <2>1. /\ root.exists /\ pc[p] \in Cleaning /\ pc' = [pc EXCEPT ![p] = "apply"] /\ used' = used
    BY <1>4, <1>t DEF StartRetention, LockOrder, Opened, Cleaning
  <2> QED
    BY <1>4, <1>t, <2>1, RetentionStarts, SafeSame DEF SameDatabase, StateRoot, Holding
<1>5. CASE AdvanceRetention(p)
  <2>1. root.exists /\ pc[p] \in Cleaning /\ used' = used
    BY <1>5, <1>t DEF AdvanceRetention, LockOrder, Opened, Cleaning
  <2>2. PICK w \in {"serve", "apply"} : pc' = [pc EXCEPT ![p] = w]
    BY <1>5 DEF AdvanceRetention
  <2> QED
    BY <1>5, <1>t, <2>1, <2>2, RetentionAdvances, SafeSame DEF SameDatabase, StateRoot, Holding
<1>6. CASE ApplyMigration(p)
  <2>1. root.exists /\ pc' = [pc EXCEPT ![p] = pc[p]] /\ pc[p] = "migrate" /\ used' = used
    BY <1>6, <1>t DEF ApplyMigration, LockOrder, Holding
  <2> QED
    BY <1>6, <1>t, <2>1, MigrationEffect, SafeSame DEF StateRoot, Cleaning
<1>7. CASE Write(p)
  <2>1. root.exists /\ pc' = [pc EXCEPT ![p] = pc[p]] /\ pc[p] = "serve"
    BY <1>7, <1>t DEF Write, LockOrder, Opened
  <2> QED
    BY <1>7, <1>t, <2>1, WriteEffect, SafeSame DEF StateRoot, Cleaning
<1>8. CASE Crash(p)
  <2>1. pc' = [pc EXCEPT ![p] = "off"] /\ used'.backups = used.backups
    BY <1>8, <1>t, SpendType DEF Crash
  <2>2. root'.exists = root.exists /\ root'.file = root.file /\ SameBackups(root, root')
    <3>1. CASE root.exists
      BY <1>8, <1>t, <3>1, CrashEffect DEF Same, SameDatabase, StateRoot
    <3>2. CASE ~root.exists
      BY <1>8, <3>2 DEF Crash, tree, SameBackups
    <3> QED
      BY <3>1, <3>2
  <2> QED
    BY <2>1, <2>2, SafeSame DEF Cleaning, Holding
<1> QED
  BY <1>1, <1>2, <1>3, <1>4, <1>5, <1>6, <1>7, <1>8

\* Safe over the move of the legacy root, its rollback and the first mkdir.
LEMMA SafeMoves ==
  ASSUME Layout, Safe, NEW p \in Procs, MoveLegacyRoot(p) \/ Rollback(p) \/ Open(p)
  PROVE  Safe'
<1> USE DEF Goto
<1>1. PICK w \in {"open", "off", "lock"} : pc' = [pc EXCEPT ![p] = w] /\ used' = used
  BY DEF MoveLegacyRoot, Rollback, Open
<1>2. w \notin Holding \cup Opened
  BY DEF Holding, Opened
<1>3. CASE root' = root
  BY <1>1, <1>2, <1>3, SafeSame DEF SameBackups, Cleaning, Opened
<1>4. CASE MoveLegacyRoot(p) /\ root' # root
  <2>1. legacy.exists /\ ~root.exists /\ root' = [legacy EXCEPT !.touched = FALSE]
    BY <1>4 DEF MoveLegacyRoot, tree
  <2>2. legacy \in StateRoot /\ legacy.backups = {} /\ legacy.marker = None /\ legacy.file = "whole"
    BY <2>1 DEF Layout, TypeOK, NoTree, Pristine, LegacyUnused
  <2>3. root'.backups = {} /\ root'.marker = None /\ root'.file = "whole"
    BY <2>1, <2>2 DEF StateRoot
  <2> QED
    BY <1>1, <1>2, <2>1, <2>3, Nobody, SafeNew
<1>5. CASE Rollback(p) /\ root' # root
  <2>1. root' = NoTree /\ ~root.touched /\ root.lock = None
    BY <1>5 DEF Rollback, tree
  <2> QED
    BY <1>1, <1>2, <2>1, Nobody, SafeNew DEF NoTree
<1>6. CASE Open(p) /\ root' # root
  <2>1. ~root.exists /\ root' = [Root(0, {}) EXCEPT !.touched = TRUE]
    BY <1>6 DEF Open, tree, SetRoot
  <2> QED
    BY <1>1, <1>2, <2>1, Nobody, SafeNew, NewRoot
<1> QED
  BY <1>3, <1>4, <1>5, <1>6

\* Safe over a restore: the marker stands over the copy.
LEMMA SafeRestores ==
  ASSUME Layout, Safe, NEW p \in Procs
  PROVE  /\ Recover(p) => Safe'
         /\ CopyBackup(p) => Safe'
         /\ RemoveOldWal(p) => Safe'
         /\ RemoveMarkerOfRestored(p) => Safe'
<1> USE DEF Goto
<1>t. TypeOK /\ LockOrder(root, pc)
  BY DEF Layout
<1>s. Stands(p, root, pc)
  BY DEF Safe
<1>1. ASSUME Recover(p) PROVE Safe'
  <2>1. root.exists /\ pc[p] \in Holding /\ used' = used
    BY <1>1, <1>t DEF Recover, LockOrder, Holding
  <2>2. CASE root' = root /\ root.marker = None /\ pc' = [pc EXCEPT ![p] = "database"]
    BY <2>1, <2>2, SafeSame DEF SameBackups, Cleaning
  <2>3. CASE Same(root, root') /\ root \in StateRoot /\ root' \in StateRoot /\ pc' = [pc EXCEPT ![p] = "failed"]
    BY <2>1, <2>3, SafeSame DEF Same, SameDatabase, StateRoot, Cleaning, Holding
  <2>4. CASE SameBackups(root, root') /\ root.marker # None /\ pc' = [pc EXCEPT ![p] = "copy"]
    BY <2>1, <2>4, SafeRestoring
  <2> QED
    BY <1>1, <1>t, <2>1, <2>2, <2>3, <2>4, RecoverEffect
<1>2. ASSUME CopyBackup(p) PROVE Safe'
  <2>1. /\ root.exists /\ pc[p] = "copy" /\ pc[p] \in Holding /\ used' = used
        /\ pc' = [pc EXCEPT ![p] = "removeWal"]
    BY <1>2, <1>t DEF CopyBackup, LockOrder, Holding
  <2>2. SameBackups(root, root') /\ root.marker # None
    BY <1>2, <1>s, <1>t, <2>1, CopyEffect DEF Stands
  <2> QED
    BY <2>1, <2>2, SafeRestoring
<1>3. ASSUME RemoveOldWal(p) PROVE Safe'
  <2>1. /\ root.exists /\ pc[p] = "removeWal" /\ pc[p] \in Holding /\ used' = used
        /\ pc' = [pc EXCEPT ![p] = "restored"]
    BY <1>3, <1>t DEF RemoveOldWal, LockOrder, Holding
  <2>2. SameBackups(root, root') /\ root'.file = "whole" /\ root.marker # None
    BY <1>3, <1>s, <1>t, <2>1, WalEffect DEF Stands
  <2> QED
    BY <2>1, <2>2, SafeRestoring
<1>4. ASSUME RemoveMarkerOfRestored(p) PROVE Safe'
  <2>1. root.exists /\ pc[p] = "restored" /\ pc[p] \in Holding /\ used' = used
    BY <1>4, <1>t DEF RemoveMarkerOfRestored, LockOrder, Holding
  <2>2. root.file = "whole" /\ Unmarked(root, root')
    BY <1>4, <1>s, <1>t, <2>1, RestoredEffect DEF Stands
  <2>3. PICK w \in {"failed", "database"} : pc' = [pc EXCEPT ![p] = w]
    BY <1>4, <1>t, <2>1, RestoredEffect
  <2> QED
    BY <2>1, <2>2, <2>3, SafeUnmarked
<1> QED
  BY <1>1, <1>2, <1>3, <1>4

\* Safe over a migration: the marker goes up on a new backup, and comes down over
\* a whole database.
LEMMA SafeMigrates ==
  ASSUME Layout, Safe, NEW p \in Procs
  PROVE  /\ OpenDatabase(p) => Safe'
         /\ WriteMarker(p) => Safe'
         /\ FinishMigration(p) => Safe'
<1> USE DEF Goto
<1>t. TypeOK /\ LockOrder(root, pc) /\ pc \in [Procs -> Places] /\ used \in Used
  BY DEF Layout, TypeOK
<1>s. Intact(root, used.backups) /\ \A q \in Procs : Stands(q, root, pc)
  BY DEF Safe
<1>1. ASSUME OpenDatabase(p) PROVE Safe'
  <2>1. root.exists /\ pc[p] = "database" /\ pc[p] \in Holding /\ root.marker = None
    BY <1>1, <1>s, <1>t DEF OpenDatabase, LockOrder, Holding, Stands
  <2>2. /\ root \in StateRoot /\ root' \in StateRoot /\ root'.exists
        /\ root'.file = root.file /\ root'.marker = None
    BY <1>1, <1>t, <2>1, OpenDatabaseEffect DEF StateRoot
  <2>3. ASSUME root'.backups = root.backups, used' = used,
               NEW w \in {"failed", "commit"}, pc' = [pc EXCEPT ![p] = w]
        PROVE  Safe'
    BY <2>1, <2>2, <2>3, SafeSame DEF SameBackups, Cleaning, Holding
  <2>4. CASE /\ root'.backups = root.backups \cup {NewBackup(p)}
             /\ pc' = [pc EXCEPT ![p] = "mark"] /\ used' = [used EXCEPT !.backups = @ + 1]
    <3>1. used'.backups = used.backups + 1 /\ used.backups \in Nat
      BY <1>t, <2>4 DEF Used
    <3>2. /\ NewBackup(p).id[2] = used.backups + 1 /\ NewBackup(p).id[1] = p /\ ~NewBackup(p).old
      BY <1>t, <2>1, NewBackupType DEF NewBackup
    <3>3. \A b \in root.backups : b.id[2] <= used.backups /\ b.id[2] \in Nat
      <4>1. \A b \in root.backups : b.id \in Procs \X Nat
        BY <2>2 DEF StateRoot, Backup, BackupId
      <4> QED
        BY <1>s, <2>1, <4>1 DEF Intact, Numbered
    <3>4. \A b \in root'.backups : LastOf(p, b, root') => ~b.old
      <4> SUFFICES ASSUME NEW b \in root.backups, LastOf(p, b, root') PROVE FALSE
        BY <2>4, <3>2
      <4>1. NewBackup(p).id[2] <= b.id[2]
        BY <2>4, <3>2 DEF LastOf
      <4> QED
        BY <3>1, <3>2, <3>3, <4>1
    <3>5. Intact(root', used'.backups)
      <4>1. \A b \in root'.backups : b.id[2] <= used'.backups
        BY <2>4, <3>1, <3>2, <3>3
      <4> QED
        BY <1>s, <2>1, <2>2, <4>1 DEF Intact, Whole, Backed, Numbered
    <3>6. pc'[p] = "mark"
      BY <1>t, <2>4
    <3>7. Stands(p, root', pc')
      BY <2>2, <3>4, <3>6 DEF Stands, Cleaning
    <3>8. ASSUME NEW q \in Procs, q # p PROVE Stands(q, root', pc')
      BY <2>1, <2>2, <2>4, <3>8, StandsAlone
    <3> QED
      BY <3>5, <3>7, <3>8 DEF Safe
  <2> QED
    BY <1>1, <1>t, <2>1, <2>3, <2>4, OpenDatabaseEffect
<1>2. ASSUME WriteMarker(p) PROVE Safe'
  <2>1. /\ root.exists /\ pc[p] = "mark" /\ pc[p] \in Holding /\ used' = used
        /\ pc' = [pc EXCEPT ![p] = "migrate"] /\ pc'[p] = "migrate"
    BY <1>2, <1>t DEF WriteMarker, LockOrder, Holding
  <2>2. /\ SameDatabase(root, root') /\ root'.backups = root.backups
        /\ \E b \in root.backups : LastOf(p, b, root) /\ root'.marker = b.id
    BY <1>2, <1>t, <2>1, MarkEffect
  <2>3. PICK b \in root.backups : LastOf(p, b, root) /\ root'.marker = b.id
    BY <2>2
  <2>4. root.marker = None /\ ~b.old /\ Fresh(root')
    BY <1>s, <2>1, <2>2, <2>3 DEF Stands, Fresh
  <2>5. root'.file = "whole"
    BY <1>s, <2>1, <2>2, <2>4 DEF Intact, Whole, SameDatabase
  <2>6. Intact(root', used'.backups)
    BY <1>s, <2>1, <2>2, <2>3, <2>5 DEF Intact, Whole, Backed, Numbered
  <2>7. ASSUME NEW q \in Procs, q # p PROVE Stands(q, root', pc')
    BY <2>1, <2>4, <2>7, StandsAlone
  <2>8. Stands(p, root', pc')
    BY <2>1, <2>5 DEF Stands, Cleaning
  <2> QED
    BY <2>6, <2>7, <2>8 DEF Safe
<1>3. ASSUME FinishMigration(p) PROVE Safe'
  <2>1. /\ root.exists /\ pc[p] = "migrate" /\ pc[p] \in Holding /\ used' = used
        /\ pc' = [pc EXCEPT ![p] = "commit"]
    BY <1>3, <1>t DEF FinishMigration, LockOrder, Holding
  <2>2. Unmarked(root, root') /\ root.file = "whole"
    BY <1>3, <1>s, <1>t, <2>1, FinishEffect DEF Stands
  <2> QED
    BY <2>1, <2>2, SafeUnmarked
<1> QED
  BY <1>1, <1>2, <1>3

\* Safe over the deletion of old backups: the marked one, if there is a marker, is
\* new.
LEMMA SafeCleans == Layout /\ Safe /\ (\E p \in Procs : ApplyClass(p)) => Safe'
<1> SUFFICES ASSUME Layout, Safe, NEW p \in Procs, ApplyClass(p) PROVE Safe'
  OBVIOUS
<1>t. TypeOK /\ LockOrder(root, pc) /\ pc \in [Procs -> Places]
  BY DEF Layout, TypeOK
<1>s. Intact(root, used.backups) /\ \A q \in Procs : Stands(q, root, pc)
  BY DEF Safe
<1>1. /\ root.exists /\ pc[p] \in Cleaning /\ used' = used /\ pc' = [pc EXCEPT ![p] = "advance"]
  BY <1>t DEF ApplyClass, Goto, LockOrder, Opened, Cleaning
<1>2. /\ root'.exists = root.exists /\ root'.file = root.file /\ root'.marker = root.marker
      /\ root'.backups = root.backups \/ root'.backups = {b \in root.backups : ~b.old}
  BY <1>t, <1>1, ClassEffect DEF SameDatabase, StateRoot
<1>3. CASE root'.backups = root.backups
  BY <1>1, <1>2, <1>3, SafeSame DEF SameBackups, Holding
<1>4. CASE root'.backups = {b \in root.backups : ~b.old}
  <2>1. root.marker # None => Fresh(root) /\ Fresh(root')
    BY <1>s, <1>1, <1>2, <1>4 DEF Stands, Fresh
  <2>2. Intact(root', used'.backups)
    BY <1>s, <1>1, <1>2, <1>4, <2>1 DEF Intact, Whole, Backed, Numbered, Fresh
  <2>3. ASSUME NEW q \in Procs PROVE Stands(q, root', pc')
    <3>1. pc'[q] = pc[q] \/ pc'[q] = "advance"
      BY <1>t, <1>1
    <3>2. Stands(q, root, pc)
      BY <1>s
    <3> QED
      BY <1>2, <1>4, <2>1, <3>1, <3>2 DEF Stands
  <2> QED
    BY <2>2, <2>3 DEF Safe
<1> QED
  BY <1>2, <1>3, <1>4

\* Safe over the passing of the retention ages, in the midst of no start.
LEMMA SafeAges == Layout /\ Safe /\ Age => Safe'
<1> SUFFICES ASSUME Layout, Safe, Age PROVE Safe'
  OBVIOUS
<1>1. /\ pc' = pc /\ root' = Aged(root) /\ used'.backups = used.backups
      /\ \A p \in Procs : pc[p] \in {"off", "serve"}
  BY SpendType DEF Age, Layout, TypeOK
<1>2. \A q \in Procs : Stands(q, root', pc')
  BY <1>1 DEF Stands, Cleaning
<1>3. Intact(root', used'.backups)
  <2>1. CASE ~root.exists
    BY <1>1, <2>1 DEF Aged, Safe, Intact, Whole, Backed, Numbered
  <2>2. CASE root.exists
    <3>1. /\ root'.exists /\ root'.file = root.file /\ root'.marker = root.marker
          /\ \A b \in root.backups : \E c \in root'.backups : c.id = b.id /\ c.rows = b.rows
          /\ \A c \in root'.backups : \E b \in root.backups : c.id = b.id /\ c.rows = b.rows
      BY <1>1, <2>2, RootExists, AgedFacts DEF Layout
    <3> QED
      BY <1>1, <2>2, <3>1 DEF Safe, Intact, Whole, Backed, Numbered
  <2> QED
    BY <2>1, <2>2
<1> QED
  BY <1>2, <1>3 DEF Safe

\* Safe holds at first.
LEMMA SafeInit == Init => Safe
<1> SUFFICES ASSUME Init PROVE Safe
  OBVIOUS
<1>1. PICK schema \in Schemas : root = Root(schema, {Prior}) \/ root = NoTree
  BY DEF Init, Schemas
<1>2. {Prior} \in Rows
  BY StorageAssumption DEF Rows, Prior
<1>3. ~root.exists \/ (root.marker = None /\ root.file = "whole" /\ root.backups = {})
  <2>1. CASE root = Root(schema, {Prior})
    BY <1>2, <2>1, RootType
  <2>2. CASE root = NoTree
    BY <2>2 DEF NoTree
  <2> QED
    BY <1>1, <2>1, <2>2
<1>4. Intact(root, used.backups)
  BY <1>3 DEF Intact, Whole, Backed, Numbered
<1>5. \A p \in Procs : Stands(p, root, pc)
  BY StandsIrrelevant DEF Init, Holding, Opened
<1> QED
  BY <1>4, <1>5 DEF Safe

\* Safe is inductive, over Layout.
LEMMA SafeNext == Layout /\ Safe /\ [Next]_vars => Safe'
<1> SUFFICES ASSUME Layout, Safe, [Next]_vars PROVE Safe'
  OBVIOUS
<1>1. CASE UNCHANGED vars
  BY <1>1 DEF vars, Safe
<1>2. CASE Age
  BY <1>2, SafeAges
<1>3. ASSUME NEW p \in Procs,
        \/ Resolve(p) \/ TakeStateLock(p) \/ StateLockHeld(p) \/ LockHeld(p)
        \/ CompareStaleLock(p) \/ MigrationFails(p) \/ Commit(p) \/ Close(p)
        \/ Lock(p) \/ UnlinkStaleLock(p) \/ StartRetention(p) \/ AdvanceRetention(p)
        \/ ApplyMigration(p) \/ Write(p) \/ Crash(p)
      PROVE Safe'
  BY <1>3, SafeQuiet
<1>4. ASSUME NEW p \in Procs, MoveLegacyRoot(p) \/ Rollback(p) \/ Open(p)
      PROVE Safe'
  BY <1>4, SafeMoves
<1>5. ASSUME NEW p \in Procs, Recover(p) \/ CopyBackup(p) \/ RemoveOldWal(p) \/ RemoveMarkerOfRestored(p)
      PROVE Safe'
  BY <1>5, SafeRestores
<1>6. ASSUME NEW p \in Procs, OpenDatabase(p) \/ WriteMarker(p) \/ FinishMigration(p)
      PROVE Safe'
  BY <1>6, SafeMigrates
<1>7. ASSUME NEW p \in Procs, ApplyClass(p)
      PROVE Safe'
  BY <1>7, SafeCleans
<1> QED
  BY <1>1, <1>2, <1>3, <1>4, <1>5, <1>6, <1>7 DEF Next

\* The invariant of the files holds.
THEOREM Safety == ASSUME Reclaimers = 1 PROVE Spec => []Safe
<1>1. Layout /\ Safe /\ [Next]_vars => Safe'
  BY SafeNext
<1> QED
  BY <1>1, Arrangement, SafeInit, PTL DEF Spec

\* Whatever step a start dies at (storage/migrations.ts), a database that
\* is torn or has a foreign write-ahead log is under a migration marker, so that
\* the next open restores it.
THEOREM NoTornDatabase == ASSUME Reclaimers = 1 PROVE Spec => []WholeWhenUnmarked
<1>1. Layout /\ Safe => WholeWhenUnmarked
  BY DEF Layout, Safe, Intact, Whole, WholeWhenUnmarked, Pristine, LegacyUnused
<1> QED
  BY <1>1, Arrangement, Safety, PTL

\* A migration marker never outlives the backup it names
\* (storage/retention.ts deletes old backups, storage/migrations.ts restores them).
THEOREM BackupThere == ASSUME Reclaimers = 1 PROVE Spec => []MarkerHasBackup
<1>1. Layout /\ Safe => MarkerHasBackup
  BY DEF Layout, Safe, Intact, Backed, MarkerHasBackup, BackupOf, Pristine, LegacyUnused
<1> QED
  BY <1>1, Arrangement, Safety, PTL

-----------------------------------------------------------------------------
(* The invariant of the rows.                                              *)

\* Backups of one name are the same backup.
Distinct(t) == t.exists => \A b, c \in t.backups : b.id = c.id => b.rows = c.rows

\* Every acknowledged write is among these rows, or in the legacy root.
Promised(rows) == acked \subseteq rows \cup Readable(legacy)

\* Where the marker is about to go, from the copy on and throughout a migration,
\* the database itself holds the acknowledged writes; where it is about to come,
\* the last backup of the process that migrates does.  What a gateway writes
\* beside it is acknowledged to nobody.
Releasing == {"removeWal", "restored", "migrate"}
At(p) ==
  /\ pc[p] \in Releasing => Promised(root.rows)
  /\ pc[p] = "mark" => \E b \in root.backups : LastOf(p, b, root) /\ ~b.old /\ Promised(b.rows)
Kept == Distinct(root) /\ (\A p \in Procs : At(p)) /\ AckedSurvives

\* What the next open reads: the database, or the marked backup.
LEMMA ReadableFacts ==
  ASSUME NEW t \in StateRoot
  PROVE  /\ t.marker = None => Readable(t) = t.rows
         /\ t.marker # None =>
              \A w : w \in Readable(t) <=> \E b \in t.backups : b.id = t.marker /\ w \in b.rows
<1>1. t.exists
  BY DEF StateRoot
<1>2. t.marker = None => Readable(t) = t.rows
  BY <1>1 DEF Readable
<1>3. t.marker # None =>
        \A w : w \in Readable(t) <=> \E b \in t.backups : b.id = t.marker /\ w \in b.rows
  BY <1>1 DEF Readable, BackupOf
<1> QED
  BY <1>2, <1>3

\* A step that leaves the marker and the backups alone takes nothing from what the
\* next open reads, if it takes no row or a marker stands over them.
LEMMA ReadableKept ==
  ASSUME NEW t \in StateRoot, NEW u \in StateRoot, SameBackups(t, u),
         t.rows \subseteq u.rows \/ t.marker # None
  PROVE  Readable(t) \subseteq Readable(u)
<1>1. CASE t.marker = None
  BY <1>1, ReadableFacts DEF SameBackups
<1>2. CASE t.marker # None
  <2>1. \A w : w \in Readable(u) <=> w \in Readable(t)
    BY <1>2, ReadableFacts DEF SameBackups
  <2> QED
    BY <2>1
<1> QED
  BY <1>1, <1>2

\* AckedSurvives over a step that acknowledges nothing.
LEMMA AckKept ==
  ASSUME AckedSurvives, acked' = acked, legacy' = legacy, Readable(root) \subseteq Readable(root')
  PROVE  AckedSurvives'
  BY DEF AckedSurvives

\* What the next open reads is promised.
LEMMA AckPromised ==
  ASSUME AckedSurvives, NEW rows, Readable(root) \subseteq rows
  PROVE  Promised(rows)
  BY DEF AckedSurvives, Promised

\* At asks nothing of a process outside the lock.
LEMMA AtOutside ==
  ASSUME NEW q \in Procs, pc'[q] \notin Holding
  PROVE  At(q)'
  BY DEF At, Holding, Releasing

\* p holds the lock: whatever becomes of the files, the invariant asks nothing of
\* the others.
LEMMA AtAlone ==
  ASSUME Layout, NEW p \in Procs, NEW w, pc' = [pc EXCEPT ![p] = w], pc[p] \in Holding
  PROVE  \A q \in Procs : q # p => At(q)'
<1> SUFFICES ASSUME NEW q \in Procs, q # p PROVE At(q)'
  OBVIOUS
<1>1. LockOrder(root, pc) /\ pc \in [Procs -> Places]
  BY DEF Layout, TypeOK
<1>2. pc'[q] \notin Holding
  BY <1>1 DEF LockOrder
<1> QED
  BY <1>2, AtOutside

\* At over a step that takes no row and no backup and acknowledges nothing, for a
\* process that stays where it is or leaves.
LEMMA AtSame ==
  ASSUME NEW q \in Procs, At(q), root.rows \subseteq root'.rows, root'.backups = root.backups,
         acked' = acked, legacy' = legacy, pc'[q] = pc[q] \/ pc'[q] \notin Releasing \cup {"mark"}
  PROVE  At(q)'
<1>1. CASE pc'[q] \notin Releasing \cup {"mark"}
  BY <1>1 DEF At
<1>2. CASE pc'[q] = pc[q] /\ pc[q] \in Releasing
  BY <1>2 DEF At, Promised, Releasing
<1>3. CASE pc'[q] = pc[q] /\ pc[q] = "mark"
  <2>1. PICK b \in root.backups : LastOf(q, b, root) /\ ~b.old /\ Promised(b.rows)
    BY <1>3 DEF At
  <2>2. b \in root'.backups /\ LastOf(q, b, root') /\ Promised(b.rows)'
    BY <2>1 DEF LastOf, Promised
  <2> QED
    BY <1>3, <2>1, <2>2 DEF At, Releasing
<1> QED
  BY <1>1, <1>2, <1>3

\* Kept over a step after which the rows and the backups of the root are the same.
LEMMA SameStep ==
  ASSUME Layout, Kept, NEW p \in Procs, NEW w, pc' = [pc EXCEPT ![p] = w],
         root = root' \/ (root \in StateRoot /\ root' \in StateRoot),
         root'.rows = root.rows, SameBackups(root, root'), acked' = acked, legacy' = legacy,
         w = pc[p] \/ w \notin Releasing \cup {"mark"}
  PROVE  Kept'
<1>1. pc'[p] = w /\ \A q \in Procs : q # p => pc'[q] = pc[q]
  BY DEF Layout, TypeOK
<1>2. \A q \in Procs : At(q)'
  BY <1>1, AtSame DEF Kept, SameBackups
<1>3. Distinct(root')
  BY DEF Kept, Distinct, SameBackups, StateRoot
<1>4. Readable(root) \subseteq Readable(root')
  BY ReadableKept
<1>5. AckedSurvives'
  BY <1>4, AckKept DEF Kept
<1> QED
  BY <1>2, <1>3, <1>5 DEF Kept

\* Kept over a step of a process that holds the lock and changes the files.
LEMMA HolderStep ==
  ASSUME Layout, Kept, NEW p \in Procs, NEW w, pc' = [pc EXCEPT ![p] = w], pc[p] \in Holding,
         Distinct(root'), At(p)', Readable(root) \subseteq Readable(root'),
         acked' = acked, legacy' = legacy
  PROVE  Kept'
<1>1. \A q \in Procs : q # p => At(q)'
  BY AtAlone
<1>2. AckedSurvives'
  BY AckKept DEF Kept
<1> QED
  BY <1>1, <1>2 DEF Kept

-----------------------------------------------------------------------------
(* Kept is inductive.                                                      *)

\* The steps that change neither root.
LEMMA KeptQuiet ==
  ASSUME Layout, Safe, Kept, NEW p \in Procs,
         \/ Resolve(p) \/ TakeStateLock(p) \/ StateLockHeld(p) \/ LockHeld(p)
         \/ CompareStaleLock(p) \/ MigrationFails(p) \/ Commit(p) \/ Close(p)
  PROVE  Kept'
<1>1. UNCHANGED <<root, legacy, acked>>
  BY DEF Resolve, TakeStateLock, StateLockHeld, LockHeld, CompareStaleLock, MigrationFails, Commit, Close, tree
<1>2. PICK w : pc' = [pc EXCEPT ![p] = w] /\ w \notin Releasing \cup {"mark"}
  BY DEF Resolve, TakeStateLock, StateLockHeld, LockHeld, CompareStaleLock, MigrationFails, Commit,
     Close, Goto, Releasing
<1> QED
  BY <1>1, <1>2, SameStep DEF SameBackups

\* A root that is not there promises nothing.
LEMMA NoTreeFacts == ~NoTree.exists /\ Readable(NoTree) = {} /\ Distinct(NoTree)
  BY DEF NoTree, Readable, Distinct

\* The next open of a root that is not there finds nothing.
LEMMA AbsentFacts ==
  ASSUME ~root.exists
  PROVE  Readable(root) = {}
  BY DEF Readable

\* Kept over the move of the legacy root, its rollback and the first mkdir.
LEMMA KeptMoves ==
  ASSUME Layout, Safe, Kept, NEW p \in Procs
  PROVE  /\ MoveLegacyRoot(p) => Kept'
         /\ Rollback(p) => Kept'
         /\ Open(p) => Kept'
<1> USE DEF Goto
<1>t. TypeOK /\ Distinct(root) /\ AckedSurvives
  BY DEF Layout, Kept
<1>1. ASSUME MoveLegacyRoot(p) PROVE Kept'
  <2>0. acked' = acked
    BY <1>1 DEF MoveLegacyRoot
  <2>1. CASE ~(legacy.exists /\ ~root.exists)
    <3>1. PICK w \in {"open", "off"} : pc' = [pc EXCEPT ![p] = w]
      BY <1>1, <2>1 DEF MoveLegacyRoot
    <3>2. UNCHANGED <<root, legacy, acked>>
      BY <1>1, <2>1 DEF MoveLegacyRoot, tree
    <3> QED
      BY <2>0, <3>1, <3>2, SameStep DEF SameBackups, Releasing
  <2>2. CASE legacy.exists /\ ~root.exists
    <3>1. /\ root' = [legacy EXCEPT !.touched = FALSE] /\ legacy' = NoTree
          /\ pc' = [pc EXCEPT ![p] = "open"]
      BY <1>1, <2>2 DEF MoveLegacyRoot
    <3>2. legacy \in StateRoot /\ Pristine(legacy) /\ LegacyUnused(legacy)
      BY <2>2 DEF Layout, TypeOK, NoTree
    <3>3. legacy.backups = {} /\ legacy.marker = None /\ legacy.file = "whole"
      BY <2>2, <3>2 DEF Pristine, LegacyUnused
    <3>4. /\ root' \in StateRoot /\ root'.rows = legacy.rows /\ SameBackups(legacy, root')
      BY <3>1, <3>2 DEF StateRoot, SameBackups
    <3>5. Readable(legacy) \subseteq Readable(root')
      BY <3>2, <3>4, ReadableKept
    <3>6. Distinct(root')
      BY <3>3, <3>4 DEF Distinct, SameBackups
    <3>7. \A q \in Procs : At(q)'
      <4>1. "open" \notin Holding \cup Opened
        BY DEF Holding, Opened
      <4> QED
        BY <2>2, <3>1, <4>1, Nobody, AtOutside
    <3>8. AckedSurvives'
      BY <1>t, <2>0, <2>2, <3>1, <3>5, AbsentFacts DEF AckedSurvives
    <3> QED
      BY <3>6, <3>7, <3>8 DEF Kept
  <2> QED
    BY <2>1, <2>2
<1>2. ASSUME Rollback(p) PROVE Kept'
  <2>0. acked' = acked /\ pc' = [pc EXCEPT ![p] = "off"]
    BY <1>2 DEF Rollback
  <2>1. CASE UNCHANGED <<root, legacy>>
    BY <2>0, <2>1, SameStep DEF SameBackups, Releasing
  <2>2. CASE ~UNCHANGED <<root, legacy>>
    <3>1. root' = NoTree /\ legacy' = root /\ ~legacy.exists /\ ~root.touched /\ root.lock = None
      BY <1>2, <2>2 DEF Rollback, tree
    <3>2. Distinct(root') /\ Readable(root') = {}
      BY <3>1, NoTreeFacts
    <3>3. \A q \in Procs : At(q)'
      <4>1. "off" \notin Holding \cup Opened
        BY DEF Holding, Opened
      <4> QED
        BY <2>0, <3>1, <4>1, Nobody, AtOutside
    <3>4. Readable(legacy) = {}
      BY <3>1 DEF Readable
    <3>5. AckedSurvives'
      BY <1>t, <2>0, <3>1, <3>4 DEF AckedSurvives
    <3> QED
      BY <3>2, <3>3, <3>5 DEF Kept
  <2> QED
    BY <2>1, <2>2
<1>3. ASSUME Open(p) PROVE Kept'
  <2>0. acked' = acked /\ pc' = [pc EXCEPT ![p] = "lock"]
    BY <1>3 DEF Open
  <2>1. CASE root.exists
    <3>1. UNCHANGED <<root, legacy>>
      BY <1>3, <2>1 DEF Open, tree
    <3> QED
      BY <2>0, <3>1, SameStep DEF SameBackups, Releasing
  <2>2. CASE ~root.exists
    <3>1. root' = [Root(0, {}) EXCEPT !.touched = TRUE] /\ legacy' = legacy
      BY <1>3, <2>2 DEF Open, SetRoot
    <3>2. root'.backups = {} /\ root'.marker = None /\ root'.file = "whole"
      BY <3>1, NewRoot
    <3>3. Distinct(root')
      BY <3>2 DEF Distinct
    <3>4. \A q \in Procs : At(q)'
      <4>1. "lock" \notin Holding \cup Opened
        BY DEF Holding, Opened
      <4> QED
        BY <2>0, <2>2, <4>1, Nobody, AtOutside
    <3>5. AckedSurvives'
      BY <1>t, <2>0, <2>2, <3>1, AbsentFacts, AckKept
    <3> QED
      BY <3>3, <3>4, <3>5 DEF Kept
  <2> QED
    BY <2>1, <2>2
<1> QED
  BY <1>1, <1>2, <1>3

\* Kept over the steps that leave the rows and the backups alone.
LEMMA KeptSame ==
  ASSUME Layout, Safe, Kept, NEW p \in Procs
  PROVE  /\ Lock(p) => Kept'
         /\ UnlinkStaleLock(p) => Kept'
         /\ StartRetention(p) => Kept'
         /\ AdvanceRetention(p) => Kept'
         /\ Crash(p) => Kept'
<1> USE DEF Goto, Releasing
<1>t. TypeOK /\ LockOrder(root, pc)
  BY DEF Layout
<1>1. ASSUME Lock(p) PROVE Kept'
  <2>1. pc' = [pc EXCEPT ![p] = "recover"] /\ acked' = acked /\ legacy' = legacy
    BY <1>1 DEF Lock, SetRoot
  <2> QED
    BY <1>1, <1>t, <2>1, LockEffect, SameStep DEF Same, SameDatabase
<1>2. ASSUME UnlinkStaleLock(p) PROVE Kept'
  <2>1. /\ pc' = [pc EXCEPT ![p] = "lock"] /\ acked' = acked /\ legacy' = legacy
        /\ root.exists
    BY <1>2, <1>t DEF UnlinkStaleLock, SetRoot, LockOrder, tree
  <2> QED
    BY <1>2, <1>t, <2>1, UnlinkEffect, RootExists, SameStep DEF Same, SameDatabase
<1>3. ASSUME StartRetention(p) PROVE Kept'
  <2>1. /\ pc' = [pc EXCEPT ![p] = "apply"] /\ acked' = acked /\ legacy' = legacy
        /\ root.exists
    BY <1>3, <1>t DEF StartRetention, SetRoot, LockOrder, Opened
  <2> QED
    BY <1>3, <1>t, <2>1, RetentionStarts, SameStep DEF SameDatabase
<1>4. ASSUME AdvanceRetention(p) PROVE Kept'
  <2>1. /\ acked' = acked /\ legacy' = legacy /\ root.exists
    BY <1>4, <1>t DEF AdvanceRetention, SetRoot, LockOrder, Opened
  <2>2. PICK w \in {"serve", "apply"} : pc' = [pc EXCEPT ![p] = w]
    BY <1>4 DEF AdvanceRetention
  <2> QED
    BY <1>4, <1>t, <2>1, <2>2, RetentionAdvances, SameStep DEF SameDatabase
<1>5. ASSUME Crash(p) PROVE Kept'
  <2>1. /\ pc' = [pc EXCEPT ![p] = "off"] /\ acked' = acked /\ legacy' = legacy
    BY <1>5 DEF Crash, SetRoot, tree
  <2>2. CASE root.exists
    BY <1>5, <1>t, <2>1, <2>2, CrashEffect, SameStep DEF Same, SameDatabase
  <2>3. CASE ~root.exists
    <3>1. root' = root
      BY <1>5, <2>3 DEF Crash, tree
    <3> QED
      BY <2>1, <3>1, SameStep DEF SameBackups
  <2> QED
    BY <2>2, <2>3
<1> QED
  BY <1>1, <1>2, <1>3, <1>4, <1>5

\* Kept over a restore: the copy takes the rows of the marked backup, and the
\* marker goes when the database is whole and holds what was promised.
LEMMA KeptRestores ==
  ASSUME Layout, Safe, Kept, NEW p \in Procs
  PROVE  /\ Recover(p) => Kept'
         /\ CopyBackup(p) => Kept'
         /\ RemoveOldWal(p) => Kept'
         /\ RemoveMarkerOfRestored(p) => Kept'
<1> USE DEF Goto
<1>t. TypeOK /\ LockOrder(root, pc) /\ pc \in [Procs -> Places]
  BY DEF Layout, TypeOK
<1>k. /\ \A q \in Procs : At(q)
      /\ Distinct(root) /\ AckedSurvives
  BY DEF Kept
<1>s. Intact(root, used.backups) /\ \A q \in Procs : Stands(q, root, pc)
  BY DEF Safe
<1>1. ASSUME Recover(p) PROVE Kept'
  <2>1. acked' = acked /\ legacy' = legacy /\ root.exists
    BY <1>1, <1>t DEF Recover, SetRoot, LockOrder, Holding, tree
  <2>2. /\ root \in StateRoot /\ root' \in StateRoot /\ root'.rows = root.rows
        /\ SameBackups(root, root')
    BY <1>1, <1>t, <2>1, RecoverEffect DEF Same, SameDatabase, SameBackups
  <2>3. PICK w \in {"database", "failed", "copy"} : pc' = [pc EXCEPT ![p] = w]
    BY <1>1 DEF Recover
  <2> QED
    BY <2>1, <2>2, <2>3, SameStep DEF Releasing
<1>2. ASSUME CopyBackup(p) PROVE Kept'
  <2>1. /\ acked' = acked /\ legacy' = legacy
        /\ root.exists /\ pc[p] = "copy" /\ pc[p] \in Holding
        /\ pc' = [pc EXCEPT ![p] = "removeWal"] /\ pc'[p] = "removeWal"
    BY <1>2, <1>t DEF CopyBackup, SetRoot, LockOrder, Holding
  <2>2. /\ root \in StateRoot /\ root' \in StateRoot /\ SameBackups(root, root')
        /\ \E b \in root.backups : b.id = root.marker /\ root'.rows = b.rows
    BY <1>2, <1>t, <2>1, CopyEffect
  <2>3. root.marker # None
    BY <1>s, <2>1 DEF Stands
  <2>4. Readable(root) \subseteq root'.rows
    <3>1. \A w \in Readable(root) : \E b \in root.backups : b.id = root.marker /\ w \in b.rows
      BY <2>2, <2>3, ReadableFacts
    <3> QED
      BY <1>k, <2>1, <2>2, <3>1 DEF Distinct
  <2>5. Promised(root'.rows)
    BY <1>k, <2>4, AckPromised
  <2>6. At(p)'
    BY <2>1, <2>5 DEF At, Promised
  <2>7. Distinct(root')
    BY <1>k, <2>1, <2>2 DEF Distinct, SameBackups
  <2>8. Readable(root) \subseteq Readable(root')
    BY <2>2, <2>3, ReadableKept
  <2> QED
    BY <2>1, <2>6, <2>7, <2>8, HolderStep
<1>3. ASSUME RemoveOldWal(p) PROVE Kept'
  <2>1. /\ acked' = acked /\ legacy' = legacy
        /\ root.exists /\ pc[p] = "removeWal" /\ pc[p] \in Holding
        /\ pc' = [pc EXCEPT ![p] = "restored"] /\ pc'[p] = "restored"
    BY <1>3, <1>t DEF RemoveOldWal, SetRoot, LockOrder, Holding
  <2>2. /\ root \in StateRoot /\ root' \in StateRoot /\ SameBackups(root, root')
        /\ root'.rows = root.rows
    BY <1>3, <1>t, <2>1, WalEffect
  <2>3. At(p)'
    BY <1>k, <2>1, <2>2 DEF At, Promised, Releasing
  <2>4. Distinct(root')
    BY <1>k, <2>1, <2>2 DEF Distinct, SameBackups
  <2>5. Readable(root) \subseteq Readable(root')
    BY <2>2, ReadableKept
  <2> QED
    BY <2>1, <2>3, <2>4, <2>5, HolderStep
<1>4. ASSUME RemoveMarkerOfRestored(p) PROVE Kept'
  <2>1. /\ acked' = acked /\ legacy' = legacy
        /\ root.exists /\ pc[p] = "restored" /\ pc[p] \in Holding
    BY <1>4, <1>t DEF RemoveMarkerOfRestored, SetRoot, LockOrder, Holding
  <2>2. /\ root \in StateRoot /\ root' \in StateRoot /\ Unmarked(root, root')
    BY <1>4, <1>t, <2>1, RestoredEffect
  <2>3. PICK w \in {"failed", "database"} : pc' = [pc EXCEPT ![p] = w]
    BY <1>4, <1>t, <2>1, RestoredEffect
  <2>4. AckedSurvives' /\ Distinct(root')
    <3>1. root'.marker = None /\ root'.rows = root.rows /\ root'.backups = root.backups
      BY <2>2 DEF Unmarked, SameDatabase
    <3>2. Promised(root.rows)
      BY <1>k, <2>1 DEF At, Releasing
    <3>3. Readable(root') = root.rows
      BY <2>2, <3>1, ReadableFacts
    <3> QED
      BY <1>k, <2>1, <3>1, <3>2, <3>3 DEF AckedSurvives, Promised, Distinct
  <2>5. At(p)'
    BY <1>t, <2>3 DEF At, Releasing
  <2>6. \A q \in Procs : q # p => At(q)'
    BY <2>1, <2>3, AtAlone
  <2> QED
    BY <2>4, <2>5, <2>6 DEF Kept
<1> QED
  BY <1>1, <1>2, <1>3, <1>4

\* Kept over a migration: the backup is made of what the next open would read, and
\* the marker names it before the schema changes.
LEMMA KeptMigrates ==
  ASSUME Layout, Safe, Kept, NEW p \in Procs
  PROVE  /\ OpenDatabase(p) => Kept'
         /\ WriteMarker(p) => Kept'
         /\ ApplyMigration(p) => Kept'
         /\ FinishMigration(p) => Kept'
<1> USE DEF Goto
<1>t. TypeOK /\ LockOrder(root, pc) /\ pc \in [Procs -> Places] /\ used \in Used
  BY DEF Layout, TypeOK
<1>k. /\ \A q \in Procs : At(q)
      /\ Distinct(root) /\ AckedSurvives
  BY DEF Kept
<1>s. Intact(root, used.backups) /\ \A q \in Procs : Stands(q, root, pc)
  BY DEF Safe
<1>1. ASSUME OpenDatabase(p) PROVE Kept'
  <2>1. /\ acked' = acked /\ legacy' = legacy
        /\ root.exists /\ pc[p] = "database" /\ pc[p] \in Holding
    BY <1>1, <1>t DEF OpenDatabase, SetRoot, LockOrder, Holding
  <2>2. /\ root \in StateRoot /\ root' \in StateRoot /\ root'.rows = root.rows
        /\ root'.marker = root.marker
    BY <1>1, <1>t, <2>1, OpenDatabaseEffect
  <2>3. root.marker = None /\ Readable(root) = root.rows /\ Readable(root') = root.rows
    <3>1. root.marker = None
      BY <1>s, <2>1 DEF Stands
    <3> QED
      BY <2>2, <3>1, ReadableFacts
  <2>4. ASSUME root'.backups = root.backups, NEW w \in {"failed", "commit"}, pc' = [pc EXCEPT ![p] = w]
        PROVE  Kept'
    BY <2>1, <2>2, <2>4, SameStep DEF SameBackups, Releasing
  <2>5. CASE /\ root'.backups = root.backups \cup {NewBackup(p)}
             /\ pc' = [pc EXCEPT ![p] = "mark"]
    <3>1. /\ NewBackup(p).id[2] = used.backups + 1 /\ NewBackup(p).id[1] = p
          /\ NewBackup(p).rows = root.rows /\ ~NewBackup(p).old
      BY <1>t, <2>1, NewBackupType DEF NewBackup
    <3>2. used.backups \in Nat
      BY <1>t DEF Used
    <3>3. \A b \in root.backups : b.id[2] <= used.backups /\ b.id[2] \in Nat
      <4>1. \A b \in root.backups : b.id \in Procs \X Nat
        BY <2>2 DEF StateRoot, Backup, BackupId
      <4> QED
        BY <1>s, <2>1, <4>1 DEF Intact, Numbered
    <3>4. LastOf(p, NewBackup(p), root')
      BY <2>5, <3>1, <3>2, <3>3 DEF LastOf
    <3>5. Promised(root.rows)
      BY <1>k, <2>3, AckPromised
    <3>6. At(p)'
      BY <1>t, <2>1, <2>5, <3>1, <3>4, <3>5 DEF At, Promised, Releasing
    <3>7. \A b \in root.backups : b.id # NewBackup(p).id
      BY <3>1, <3>2, <3>3
    <3>8. Distinct(root')
      BY <1>k, <2>1, <2>5, <3>7 DEF Distinct
    <3> QED
      BY <2>1, <2>3, <2>5, <3>6, <3>8, HolderStep
  <2>6. \/ /\ root'.backups = root.backups
           /\ \E w \in {"failed", "commit"} : pc' = [pc EXCEPT ![p] = w]
        \/ /\ root'.backups = root.backups \cup {NewBackup(p)}
           /\ pc' = [pc EXCEPT ![p] = "mark"]
    BY <1>1, <1>t, <2>1, OpenDatabaseEffect
  <2> QED
    BY <2>4, <2>5, <2>6
<1>2. ASSUME WriteMarker(p) PROVE Kept'
  <2>1. /\ acked' = acked /\ legacy' = legacy
        /\ root.exists /\ pc[p] = "mark" /\ pc[p] \in Holding
        /\ pc' = [pc EXCEPT ![p] = "migrate"] /\ pc'[p] = "migrate"
    BY <1>2, <1>t DEF WriteMarker, SetRoot, LockOrder, Holding
  <2>2. /\ root \in StateRoot /\ root' \in StateRoot /\ SameDatabase(root, root')
        /\ root'.backups = root.backups
        /\ \E b \in root.backups : LastOf(p, b, root) /\ root'.marker = b.id
    BY <1>2, <1>t, <2>1, MarkEffect
  <2>3. PICK b \in root.backups : LastOf(p, b, root) /\ root'.marker = b.id
    BY <2>2
  <2>4. PICK c \in root.backups : LastOf(p, c, root) /\ ~c.old /\ Promised(c.rows)
    BY <1>k, <2>1 DEF At, Releasing
  <2>5. c.id = b.id
    <3>1. b.id \in Procs \X Nat /\ c.id \in Procs \X Nat
      BY <2>2 DEF StateRoot, Backup, BackupId
    <3>2. b.id[1] = p /\ c.id[1] = p /\ b.id[2] <= c.id[2] /\ c.id[2] <= b.id[2]
      BY <2>3, <2>4 DEF LastOf
    <3> QED
      BY <3>1, <3>2
  <2>6. root.marker = None /\ Readable(root) = root.rows
    <3>1. root.marker = None
      BY <1>s, <2>1 DEF Stands
    <3> QED
      BY <2>2, <3>1, ReadableFacts
  <2>7. Promised(root.rows)
    BY <1>k, <2>6, AckPromised
  <2>8. At(p)'
    BY <2>1, <2>2, <2>7 DEF At, Promised, SameDatabase
  <2>9. AckedSurvives' /\ Distinct(root')
    <3>1. root'.marker # None => c.rows \subseteq Readable(root')
      BY <2>2, <2>3, <2>4, <2>5, ReadableFacts
    <3>2. root'.marker = None => root.rows \subseteq Readable(root')
      BY <2>2, ReadableFacts DEF SameDatabase
    <3> QED
      BY <1>k, <2>1, <2>2, <2>4, <2>7, <3>1, <3>2 DEF AckedSurvives, Promised, Distinct
  <2>10. \A q \in Procs : q # p => At(q)'
    BY <2>1, AtAlone
  <2> QED
    BY <2>8, <2>9, <2>10 DEF Kept
<1>3. ASSUME ApplyMigration(p) PROVE Kept'
  <2>1. /\ acked' = acked /\ legacy' = legacy
        /\ root.exists /\ pc[p] = "migrate" /\ pc' = [pc EXCEPT ![p] = pc[p]]
    BY <1>3, <1>t DEF ApplyMigration, SetRoot, LockOrder, Holding
  <2>2. /\ root \in StateRoot /\ root' \in StateRoot /\ SameBackups(root, root')
        /\ root'.rows = root.rows
    BY <1>3, <1>t, <2>1, MigrationEffect
  <2> QED
    BY <2>1, <2>2, SameStep
<1>4. ASSUME FinishMigration(p) PROVE Kept'
  <2>1. /\ acked' = acked /\ legacy' = legacy
        /\ root.exists /\ pc[p] = "migrate" /\ pc[p] \in Holding
        /\ pc' = [pc EXCEPT ![p] = "commit"] /\ pc'[p] = "commit"
    BY <1>4, <1>t DEF FinishMigration, SetRoot, LockOrder, Holding
  <2>2. /\ root \in StateRoot /\ root' \in StateRoot /\ Unmarked(root, root')
    BY <1>4, <1>t, <2>1, FinishEffect
  <2>3. root'.marker = None /\ root'.rows = root.rows /\ root'.backups = root.backups
    BY <2>2 DEF Unmarked, SameDatabase
  <2>4. Promised(root.rows) /\ Readable(root') = root.rows
    BY <1>k, <2>1, <2>2, <2>3, ReadableFacts DEF At, Releasing
  <2>5. AckedSurvives' /\ Distinct(root')
    BY <1>k, <2>1, <2>3, <2>4 DEF AckedSurvives, Promised, Distinct
  <2>6. At(p)'
    BY <2>1 DEF At, Releasing
  <2>7. \A q \in Procs : q # p => At(q)'
    BY <2>1, AtAlone
  <2> QED
    BY <2>5, <2>6, <2>7 DEF Kept
<1> QED
  BY <1>1, <1>2, <1>3, <1>4

\* Kept over a write: one that is acknowledged is in the database, and no marker
\* stands or is about to.
LEMMA KeptWrites ==
  ASSUME Layout, Safe, Kept, NEW p \in Procs, Write(p)
  PROVE  Kept'
<1>t. TypeOK /\ LockOrder(root, pc) /\ pc \in [Procs -> Places]
  BY DEF Layout, TypeOK
<1>k. /\ \A q \in Procs : At(q)
      /\ Distinct(root) /\ AckedSurvives
  BY DEF Kept
<1>s. Intact(root, used.backups) /\ \A q \in Procs : Stands(q, root, pc)
  BY DEF Safe
<1>1. /\ pc' = pc /\ legacy' = legacy /\ root.exists
  BY <1>t DEF Write, SetRoot, LockOrder, Opened
<1>2. /\ root' \in StateRoot /\ root \in StateRoot /\ SameBackups(root, root')
      /\ root.rows \subseteq root'.rows
      /\ \/ acked' = acked
         \/ Undisturbed /\ \E w \in root'.rows : acked' = acked \cup {w}
  BY <1>t, <1>1, WriteEffect
<1>3. Distinct(root') /\ Readable(root) \subseteq Readable(root')
  BY <1>k, <1>1, <1>2, ReadableKept DEF Distinct, SameBackups
<1>4. CASE acked' = acked
  <2>1. \A q \in Procs : At(q)'
    BY <1>k, <1>1, <1>2, <1>4, AtSame DEF SameBackups
  <2>2. AckedSurvives'
    BY <1>k, <1>1, <1>3, <1>4, AckKept
  <2> QED
    BY <1>3, <2>1, <2>2 DEF Kept
<1>5. CASE Undisturbed /\ \E w \in root'.rows : acked' = acked \cup {w}
  <2>1. root.marker = None /\ \A q \in Procs : pc[q] # "mark"
    BY <1>5 DEF Undisturbed
  <2>2. Readable(root) = root.rows /\ Readable(root') = root'.rows
    BY <1>2, <2>1, ReadableFacts DEF SameBackups
  <2>3. PICK w \in root'.rows : acked' = acked \cup {w}
    BY <1>5
  <2>4. acked' \subseteq root'.rows \cup Readable(legacy)
    BY <1>2, <1>k, <2>2, <2>3 DEF AckedSurvives
  <2>5. AckedSurvives'
    BY <1>1, <2>2, <2>4 DEF AckedSurvives
  <2>6. \A q \in Procs : At(q)'
    BY <1>1, <2>1, <2>4 DEF At, Promised
  <2> QED
    BY <1>3, <2>5, <2>6 DEF Kept
<1> QED
  BY <1>2, <1>4, <1>5

\* Kept over the deletion of old backups: the marked one, and the last of a
\* process that is about to write its marker, are new.
LEMMA KeptCleans ==
  ASSUME Layout, Safe, Kept, NEW p \in Procs, ApplyClass(p)
  PROVE  Kept'
<1>t. TypeOK /\ LockOrder(root, pc) /\ pc \in [Procs -> Places]
  BY DEF Layout, TypeOK
<1>k. /\ \A q \in Procs : At(q)
      /\ Distinct(root) /\ AckedSurvives
  BY DEF Kept
<1>s. Safe'
  BY SafeCleans
<1>1. /\ legacy' = legacy /\ acked' = acked /\ root.exists /\ pc' = [pc EXCEPT ![p] = "advance"]
  BY <1>t DEF ApplyClass, SetRoot, LockOrder, Opened, tree, Goto
<1>2. /\ root' \in StateRoot /\ root \in StateRoot /\ SameDatabase(root, root')
      /\ root'.marker = root.marker /\ root'.backups \subseteq root.backups
      /\ root'.backups = root.backups \/ root'.backups = {b \in root.backups : ~b.old}
  BY <1>t, <1>1, ClassEffect
<1>3. Distinct(root')
  BY <1>k, <1>1, <1>2 DEF Distinct
<1>4. Readable(root) \subseteq Readable(root')
  <2>1. CASE root.marker = None
    BY <1>2, <2>1, ReadableFacts DEF SameDatabase
  <2>2. CASE root.marker # None
    <3>1. PICK b \in root'.backups : b.id = root.marker
      BY <1>2, <1>s, <2>2 DEF Safe, Intact, Backed, StateRoot
    <3>2. \A w \in Readable(root) : w \in b.rows
      <4>1. \A w \in Readable(root) : \E c \in root.backups : c.id = root.marker /\ w \in c.rows
        BY <1>2, <2>2, ReadableFacts
      <4> QED
        BY <1>k, <1>1, <1>2, <3>1, <4>1 DEF Distinct
    <3>3. b.rows \subseteq Readable(root')
      BY <1>2, <2>2, <3>1, ReadableFacts
    <3> QED
      BY <3>2, <3>3
  <2> QED
    BY <2>1, <2>2
<1>5. ASSUME NEW q \in Procs PROVE At(q)'
  <2>1. pc'[q] = pc[q] \/ pc'[q] = "advance"
    BY <1>t, <1>1
  <2>2. CASE pc[q] = "mark" /\ pc'[q] = pc[q]
    <3>1. PICK b \in root.backups : LastOf(q, b, root) /\ ~b.old /\ Promised(b.rows)
      BY <1>k, <2>2 DEF At
    <3>2. b \in root'.backups /\ LastOf(q, b, root')
      BY <1>2, <3>1 DEF LastOf
    <3> QED
      BY <1>1, <2>2, <3>1, <3>2 DEF At, Promised, Releasing
  <2>3. CASE pc'[q] # "mark"
    BY <1>1, <1>2, <1>k, <2>1, <2>3 DEF At, Promised, SameDatabase, Releasing
  <2> QED
    BY <2>1, <2>2, <2>3
<1>6. AckedSurvives'
  BY <1>1, <1>4, <1>k, AckKept
<1> QED
  BY <1>3, <1>5, <1>6 DEF Kept

\* Ageing changes no row.
LEMMA AgedReadable ==
  ASSUME NEW t \in StateRoot \cup {NoTree}
  PROVE  Readable(Aged(t)) = Readable(t)
<1>1. CASE t = NoTree
  BY <1>1 DEF Aged, NoTree
<1>2. CASE t \in StateRoot
  <2>1. CASE t.marker = None
    BY <1>2, <2>1, AgedFacts, ReadableFacts
  <2>2. CASE t.marker # None
    <3>1. /\ Aged(t) \in StateRoot /\ Aged(t).marker = t.marker
          /\ \A b \in t.backups : \E c \in Aged(t).backups : c.id = b.id /\ c.rows = b.rows
          /\ \A c \in Aged(t).backups : \E b \in t.backups : c.id = b.id /\ c.rows = b.rows
      BY <1>2, AgedFacts
    <3>2. \A w : w \in Readable(t) <=> \E b \in t.backups : b.id = t.marker /\ w \in b.rows
      BY <1>2, <2>2, ReadableFacts
    <3>3. \A w : w \in Readable(Aged(t)) <=> \E b \in Aged(t).backups : b.id = t.marker /\ w \in b.rows
      BY <2>2, <3>1, ReadableFacts
    <3>4. \A w : w \in Readable(Aged(t)) <=> w \in Readable(t)
      BY <3>1, <3>2, <3>3
    <3> QED
      BY <3>4
  <2> QED
    BY <2>1, <2>2
<1> QED
  BY <1>1, <1>2

\* Kept over the passing of the retention ages.
LEMMA KeptAges == Layout /\ Safe /\ Kept /\ Age => Kept'
<1> SUFFICES ASSUME Layout, Safe, Kept, Age PROVE Kept'
  OBVIOUS
<1>t. TypeOK /\ LockOrder(root, pc)
  BY DEF Layout
<1>k. Distinct(root) /\ AckedSurvives
  BY DEF Kept
<1>s. Intact(root, used.backups) /\ \A q \in Procs : Stands(q, root, pc)
  BY DEF Safe
<1>1. /\ pc' = pc /\ acked' = acked /\ root' = Aged(root) /\ legacy' = Aged(legacy)
      /\ \A p \in Procs : pc[p] \in {"off", "serve"}
  BY DEF Age
<1>2. AckedSurvives'
  BY <1>1, <1>k, <1>t, AgedReadable DEF AckedSurvives, TypeOK
<1>3. CASE ~root.exists
  <2>1. root' = root
    BY <1>1, <1>3 DEF Aged
  <2> QED
    BY <1>1, <1>2, <1>k, <2>1, AtOutside DEF Kept, Holding
<1>4. CASE root.exists
  <2>1. root \in StateRoot
    BY <1>4, <1>t, RootExists
  <2>2. /\ root'.exists
        /\ root'.schema = root.schema /\ root'.file = root.file /\ root'.marker = root.marker
        /\ \A b \in root.backups : \E c \in root'.backups : c.id = b.id /\ c.rows = b.rows
        /\ \A c \in root'.backups : \E b \in root.backups : c.id = b.id /\ c.rows = b.rows
    BY <1>1, <2>1, AgedFacts
  <2>3. Distinct(root')
    <3> SUFFICES ASSUME NEW b \in root'.backups, NEW c \in root'.backups, b.id = c.id PROVE b.rows = c.rows
      BY DEF Distinct
    <3>1. PICK d \in root.backups : b.id = d.id /\ b.rows = d.rows
      BY <2>2
    <3>2. PICK e \in root.backups : c.id = e.id /\ c.rows = e.rows
      BY <2>2
    <3>3. d.rows = e.rows
      BY <1>4, <1>k, <3>1, <3>2 DEF Distinct
    <3> QED
      BY <3>1, <3>2, <3>3
  <2>4. \A p \in Procs : At(p)'
    BY <1>1, AtOutside DEF Holding
  <2> QED
    BY <1>2, <2>3, <2>4 DEF Kept
<1> QED
  BY <1>3, <1>4

\* Kept holds at first.
LEMMA KeptInit == Init => Kept
<1> SUFFICES ASSUME Init PROVE Kept
  OBVIOUS
<1>1. PICK roots \in InitialRoots, schema \in 0..MaxSchema :
        /\ root = IF "canonical" \in roots THEN Root(schema, {Prior}) ELSE NoTree
        /\ legacy = IF "legacy" \in roots THEN Root(schema, {Prior}) ELSE NoTree
        /\ acked = IF roots = {} THEN {} ELSE {Prior}
  BY DEF Init
<1>2. roots \subseteq {"canonical", "legacy"}
  BY <1>1, StorageAssumption
<1>3. schema \in Schemas /\ {Prior} \in Rows
  BY StorageAssumption DEF Schemas, Rows, Prior
<1> DEFINE t == Root(schema, {Prior})
<1>4. t \in StateRoot /\ t.rows = {Prior} /\ t.file = "whole" /\ t.backups = {} /\ t.marker = None
  BY <1>3, RootType
<1> HIDE DEF t
<1>5. Distinct(t) /\ Readable(t) = {Prior}
  BY <1>4, ReadableFacts DEF Distinct
<1>6. Distinct(root)
  BY <1>1, <1>5, NoTreeFacts DEF t
<1>7. AckedSurvives
  BY <1>1, <1>2, <1>5, NoTreeFacts DEF AckedSurvives, t
<1>8. \A p \in Procs : At(p)
  BY DEF Init, At, Releasing
<1> QED
  BY <1>6, <1>7, <1>8 DEF Kept

\* Kept is inductive, over Layout.
LEMMA KeptNext == Layout /\ Safe /\ Kept /\ [Next]_vars => Kept'
<1> SUFFICES ASSUME Layout, Safe, Kept, [Next]_vars PROVE Kept'
  OBVIOUS
<1>1. CASE UNCHANGED vars
  BY <1>1 DEF vars, Kept, At, Promised, AckedSurvives
<1>2. CASE Age
  BY <1>2, KeptAges
<1>3. ASSUME NEW p \in Procs,
        \/ Resolve(p) \/ TakeStateLock(p) \/ StateLockHeld(p) \/ LockHeld(p)
        \/ CompareStaleLock(p) \/ MigrationFails(p) \/ Commit(p) \/ Close(p)
      PROVE Kept'
  BY <1>3, KeptQuiet
<1>4. ASSUME NEW p \in Procs, MoveLegacyRoot(p) \/ Rollback(p) \/ Open(p)
      PROVE Kept'
  BY <1>4, KeptMoves
<1>5. ASSUME NEW p \in Procs,
        \/ Lock(p) \/ UnlinkStaleLock(p) \/ StartRetention(p) \/ AdvanceRetention(p) \/ Crash(p)
      PROVE Kept'
  BY <1>5, KeptSame
<1>6. ASSUME NEW p \in Procs, Recover(p) \/ CopyBackup(p) \/ RemoveOldWal(p) \/ RemoveMarkerOfRestored(p)
      PROVE Kept'
  BY <1>6, KeptRestores
<1>7. ASSUME NEW p \in Procs, OpenDatabase(p) \/ WriteMarker(p) \/ ApplyMigration(p) \/ FinishMigration(p)
      PROVE Kept'
  BY <1>7, KeptMigrates
<1>8. ASSUME NEW p \in Procs, Write(p) \/ ApplyClass(p)
      PROVE Kept'
  BY <1>8, KeptWrites, KeptCleans
<1> QED
  BY <1>1, <1>2, <1>3, <1>4, <1>5, <1>6, <1>7, <1>8 DEF Next

\* The invariant of the rows holds.
THEOREM Preservation == ASSUME Reclaimers = 1 PROVE Spec => []Kept
<1>1. Layout /\ Safe /\ Kept /\ [Next]_vars => Kept'
  BY KeptNext
<1> QED
  BY <1>1, Arrangement, Safety, KeptInit, PTL DEF Spec

\* A write acknowledged to a client while no other process migrates is found by
\* the next open, whatever release opens the root, after any migrations, failures, crashes, restores, retention runs and moves of the root.
THEOREM AcknowledgedKept == ASSUME Reclaimers = 1 PROVE Spec => []AckedSurvives
<1>1. Kept => AckedSurvives
  BY DEF Kept
<1> QED
  BY <1>1, Preservation, PTL
=============================================================================
