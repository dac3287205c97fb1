-------------------------- MODULE CredentialRefresh --------------------------
(***************************************************************************)
(* One stored OAuth credential shared by gateway processes: refresh,       *)
(* revocation and recovery of its files (src/credentials/broker.ts,        *)
(* store.ts), the lock they commit under (src/storage/ownership-lock.ts)   *)
(* and the account that names its generation (src/credentials/service.ts). *)
(*                                                                         *)
(* A process runs up to three tasks at once: the opening of the store, the *)
(* single refresh flight of the handle, and a revocation.                  *)
(***************************************************************************)
EXTENDS Naturals

CONSTANTS
  Procs,        \* gateway process incarnations over one control-plane directory
  NoTask,
  MaxTokens,    \* bound on tokens the provider issues
  MaxVersion,   \* bound on writes to the account
  MaxCrashes    \* bound on processes that are killed

ASSUME CredentialAssumption ==
  /\ MaxTokens \in Nat \ {0} /\ MaxVersion \in Nat \ {0} /\ MaxCrashes \in Nat
  /\ NoTask \notin Procs \X {"open", "refresh", "revoke"}

VARIABLES
  active, backup,  \* <handle>.json and <handle>.bak
  tmp,             \* each task's temporary file
  lock,            \* <handle>.lock: its creator, and whether its contents are written
  pc,              \* the step of each task
  mine,            \* the record a task read or wants to commit
  seen,            \* the contents of the lock a task took for stale
  account,         \* the account row bound to the handle
  manual,          \* each process's refresh request: the account it read, its stage
  grant, issued,   \* the provider: whether the grant stands, tokens issued so far
  crashes,
  written,         \* observation: the records commits made active
  purge,           \* observation: how far a purge went, and whether a recovery undid it
  stolen           \* observation: a live process's lock was removed

files == <<active, backup, tmp>>
provider == <<grant, issued>>
observed == <<crashes, written, purge, stolen>>
vars == <<files, lock, pc, mine, seen, account, manual, provider, observed>>

Task == Procs \X {"open", "refresh", "revoke"}
Opening(p) == <<p, "open">>
Flight(p) == <<p, "refresh">>
Revocation(p) == <<p, "revoke">>

\* A record's generation and the refresh token it holds.
NoRecord == [gen |-> 0, token |-> 0]
Record == [gen : 0..MaxTokens, token : 0..MaxTokens]
NoLock == [owner |-> NoTask, full |-> FALSE]
Created(t) == [owner |-> t, full |-> FALSE]
Written(t) == [owner |-> t, full |-> TRUE]
Lock == [owner : Task \cup {NoTask}, full : BOOLEAN]
Account == [state : {"ready", "unready", "revoked"}, gen : 0..MaxTokens, ver : 1..MaxVersion]
NoRequest == [stage |-> "none", ver |-> 0, gen |-> 0]
Request == [stage : {"none", "flight", "rejected"}, ver : 0..MaxVersion, gen : 0..MaxTokens]

Steps == {"down", "tmp", "read-active", "read-backup", "restore", "drop-backup",
          "quarantine", "up", "dead", "idle", "provider", "acquire", "reread", "unlock-stale",
          "write-lock", "check", "backup", "backup-rename", "active", "active-rename",
          "verify", "release", "release-stale", "release-failed", "remove-active",
          "remove-backup", "remove-tmp"}

TypeOK ==
  /\ active \in Record /\ backup \in Record
  /\ tmp \in [Task -> Record]
  /\ lock \in Lock
  /\ pc \in [Task -> Steps]
  /\ mine \in [Task -> Record]
  /\ seen \in [Task -> Task \cup {NoTask}]
  /\ account \in Account
  /\ manual \in [Procs -> Request]
  /\ grant \in BOOLEAN /\ issued \in 1..MaxTokens
  /\ crashes \in 0..MaxCrashes
  /\ written \subseteq Record
  /\ purge \in {"none", "begun", "erased", "restored"} /\ stolen \in BOOLEAN

FirstRecord == [gen |-> 1, token |-> 1]

\* An imported credential bound to its account.
Init ==
  /\ active = FirstRecord /\ backup = NoRecord
  /\ tmp = [t \in Task |-> NoRecord]
  /\ lock = NoLock
  /\ pc = [t \in Task |-> IF t[2] = "open" THEN "down" ELSE "idle"]
  /\ mine = [t \in Task |-> NoRecord]
  /\ seen = [t \in Task |-> NoTask]
  /\ account = [state |-> "ready", gen |-> 1, ver |-> 1]
  /\ manual = [p \in Procs |-> NoRequest]
  /\ grant = TRUE /\ issued = 1
  /\ crashes = 0 /\ written = {FirstRecord} /\ purge = "none" /\ stolen = FALSE

-----------------------------------------------------------------------------
Goto(t, step) == pc' = [pc EXCEPT ![t] = step]
Up(p) == pc[Opening(p)] = "up"
Dead(p) == pc[Opening(p)] = "dead"

\* readActiveOrBackup: what a reader of the store gets.
Readable == IF active # NoRecord THEN active ELSE backup

\* bindCredential compares the account's version and raises it.
Bind(state, gen, ver) ==
  IF account.ver = ver /\ ver < MaxVersion
  THEN account' = [state |-> state, gen |-> gen, ver |-> ver + 1]
  ELSE UNCHANGED account

-----------------------------------------------------------------------------
(* The lock: exclusive creation, contents, staleness, removal, release.    *)

\* An unreadable lock, or one whose owner's process is gone.
Stale(l) == ~l.full \/ Dead(l.owner[1])

\* Unwritten locks all read as the empty string.
Contents(l) == IF l.full THEN l.owner ELSE NoTask

CreateLock(t) ==
  /\ pc[t] = "acquire" /\ t[2] # "open" /\ lock = NoLock
  /\ lock' = Created(t)
  /\ Goto(t, "write-lock")
  /\ UNCHANGED <<files, mine, seen, account, manual, provider, observed>>

Holding(t) == IF t[2] = "refresh" THEN "check" ELSE "remove-active"

\* A task that fails reports an error; a refresh that was granted loses its token.
Fail(t) ==
  /\ Goto(t, "idle")
  /\ mine' = [mine EXCEPT ![t] = NoRecord]
  /\ manual' = IF t[2] = "refresh" THEN [manual EXCEPT ![t[1]] = NoRequest] ELSE manual

\* The contents go to the created file, wherever it is.  Without a file at the
\* path the chmod that follows throws.
WriteLock(t) ==
  /\ pc[t] = "write-lock"
  /\ IF lock = NoLock
     THEN Fail(t) /\ UNCHANGED lock
     ELSE /\ lock' = IF lock.owner = t THEN Written(t) ELSE lock
          /\ Goto(t, Holding(t))
          /\ UNCHANGED <<mine, manual>>
  /\ UNCHANGED <<files, seen, account, provider, observed>>

SeeStaleLock(t) ==
  /\ pc[t] = "acquire" /\ lock # NoLock /\ Stale(lock)
  /\ seen' = [seen EXCEPT ![t] = Contents(lock)]
  /\ Goto(t, "reread")
  /\ UNCHANGED <<files, lock, mine, account, manual, provider, observed>>

\* The store opens once it has looked at the lock; the others try again.
AfterLock(t) == IF t[2] = "open" THEN "up" ELSE "acquire"

RereadLock(t) ==
  /\ pc[t] = "reread"
  /\ Goto(t, IF lock # NoLock /\ Contents(lock) = seen[t] THEN "unlock-stale" ELSE AfterLock(t))
  /\ seen' = [seen EXCEPT ![t] = NoTask]
  /\ UNCHANGED <<files, lock, mine, account, manual, provider, observed>>

RemoveStaleLock(t) ==
  /\ pc[t] = "unlock-stale"
  /\ stolen' = (stolen \/ (lock # NoLock /\ ~Dead(lock.owner[1])))
  /\ lock' = NoLock
  /\ Goto(t, AfterLock(t))
  /\ UNCHANGED <<files, mine, seen, account, manual, provider, crashes, written, purge>>

\* A live owner, or the eighth attempt.
Locked(t) ==
  /\ pc[t] = "acquire" /\ t[2] # "open" /\ lock # NoLock
  /\ Fail(t)
  /\ UNCHANGED <<files, lock, seen, account, provider, observed>>

\* release removes the file only if it holds this lock's id.
Released(t) == IF lock.owner = t /\ lock.full THEN NoLock ELSE lock

-----------------------------------------------------------------------------
(* Refresh.                                                                *)

StartFlight(p) ==
  /\ Readable # NoRecord
  /\ mine' = [mine EXCEPT ![Flight(p)] = Readable]
  /\ Goto(Flight(p), "provider")

\* prepare of a request finds the token about to expire.
Prepare(p) ==
  /\ Up(p) /\ pc[Flight(p)] = "idle"
  /\ StartFlight(p)
  /\ UNCHANGED <<files, lock, seen, account, manual, provider, observed>>

\* POST /v1/accounts/:id/refresh starts a flight or joins the one that runs.
RequestRefresh(p) ==
  /\ Up(p) /\ manual[p] = NoRequest
  /\ manual' = [manual EXCEPT ![p] =
                  [stage |-> "flight", ver |-> account.ver, gen |-> account.gen]]
  /\ IF pc[Flight(p)] = "idle" THEN StartFlight(p) ELSE UNCHANGED <<mine, pc>>
  /\ UNCHANGED <<files, lock, seen, account, provider, observed>>

Refreshed(r) == [gen |-> r.gen + 1, token |-> issued + 1]

ProviderGrants(p) ==
  /\ pc[Flight(p)] = "provider" /\ grant /\ issued < MaxTokens
  /\ issued' = issued + 1
  /\ mine' = [mine EXCEPT ![Flight(p)] = Refreshed(@)]
  /\ Goto(Flight(p), "acquire")
  /\ UNCHANGED <<files, lock, seen, account, manual, grant, observed>>

\* invalid-grant: revoked, or the provider rotated the token away.  The request
\* reads the account again before it reads the store.
ProviderRejects(p) ==
  /\ pc[Flight(p)] = "provider"
  /\ ~grant \/ mine[Flight(p)].token # issued
  /\ Goto(Flight(p), "idle")
  /\ manual' = IF manual[p].stage = "flight"
               THEN [manual EXCEPT ![p] =
                       [stage |-> "rejected", ver |-> account.ver, gen |-> account.gen]]
               ELSE manual
  /\ mine' = [mine EXCEPT ![Flight(p)] = NoRecord]
  /\ UNCHANGED <<files, lock, seen, account, provider, observed>>

ProviderFails(p) ==
  /\ pc[Flight(p)] = "provider"
  /\ Fail(Flight(p))
  /\ UNCHANGED <<files, lock, seen, account, provider, observed>>

\* Another process refreshed meanwhile: the request takes the newer generation;
\* else the account becomes unready.
RequestRejected(p) ==
  /\ manual[p].stage = "rejected"
  /\ IF Readable.gen > manual[p].gen
     THEN Bind("ready", Readable.gen, manual[p].ver)
     ELSE Bind("unready", manual[p].gen, manual[p].ver)
  /\ manual' = [manual EXCEPT ![p] = NoRequest]
  /\ UNCHANGED <<files, lock, pc, mine, seen, provider, observed>>

-----------------------------------------------------------------------------
(* Committing the next generation, under the lock.                         *)

\* The generation is not compared.
BugCheckGeneration(t) ==
  /\ pc[t] = "check"
  /\ Goto(t, "backup")
  /\ UNCHANGED <<files, lock, mine, seen, account, manual, provider, observed>>

CheckGeneration(t) ==
  /\ pc[t] = "check"
  /\ Goto(t, IF Readable.gen = mine[t].gen - 1 THEN "backup" ELSE "release-stale")
  /\ UNCHANGED <<files, lock, mine, seen, account, manual, provider, observed>>

\* replace backs up the active record, if there is one, then writes the next.
\* writePrivateTextAtomically: a temporary file, renamed; the rename of a file
\* that is gone throws.
WriteTemporary(t) ==
  /\ \/ pc[t] = "backup" /\ active # NoRecord
        /\ tmp' = [tmp EXCEPT ![t] = active] /\ Goto(t, "backup-rename")
     \/ pc[t] = "backup" /\ active = NoRecord /\ Goto(t, "active") /\ UNCHANGED tmp
     \/ pc[t] = "active" /\ tmp' = [tmp EXCEPT ![t] = mine[t]] /\ Goto(t, "active-rename")
  /\ UNCHANGED <<active, backup, lock, mine, seen, account, manual, provider, observed>>

RenameBackup(t) ==
  /\ pc[t] = "backup-rename"
  /\ IF tmp[t] = NoRecord
     THEN Goto(t, "release-failed") /\ UNCHANGED backup
     ELSE Goto(t, "active") /\ backup' = tmp[t]
  /\ tmp' = [tmp EXCEPT ![t] = NoRecord]
  /\ UNCHANGED <<active, lock, mine, seen, account, manual, provider, observed>>

\* A rename that fails passes for a commit.
BugRenameActive(t) ==
  /\ pc[t] = "active-rename"
  /\ IF tmp[t] = NoRecord
     THEN Goto(t, "release") /\ UNCHANGED <<active, written>>
     ELSE Goto(t, "verify") /\ active' = tmp[t] /\ written' = written \cup {tmp[t]}
  /\ tmp' = [tmp EXCEPT ![t] = NoRecord]
  /\ UNCHANGED <<backup, lock, mine, seen, account, manual, provider, crashes, purge, stolen>>

RenameActive(t) ==
  /\ pc[t] = "active-rename"
  /\ IF tmp[t] = NoRecord
     THEN Goto(t, "release-failed") /\ UNCHANGED <<active, written>>
     ELSE Goto(t, "verify") /\ active' = tmp[t] /\ written' = written \cup {tmp[t]}
  /\ tmp' = [tmp EXCEPT ![t] = NoRecord]
  /\ UNCHANGED <<backup, lock, mine, seen, account, manual, provider, crashes, purge, stolen>>

Verify(t) ==
  /\ pc[t] = "verify"
  /\ IF active.gen = mine[t].gen
     THEN Goto(t, "release") /\ backup' = NoRecord
     ELSE Goto(t, "release-failed") /\ UNCHANGED backup
  /\ UNCHANGED <<active, tmp, lock, mine, seen, account, manual, provider, observed>>

\* A stale commit yields the latest generation, if there is one.
Yielded(t) == IF pc[t] = "release" THEN mine[t].gen
              ELSE IF pc[t] = "release-stale" THEN Readable.gen ELSE 0

\* The flight ends, and with it the request that waits for it.
ReleaseCommit(t) ==
  /\ pc[t] \in {"release", "release-stale", "release-failed"}
  /\ lock' = Released(t)
  /\ Goto(t, "idle")
  /\ IF manual[t[1]].stage = "flight" /\ Yielded(t) > 0
     THEN Bind("ready", Yielded(t), manual[t[1]].ver)
     ELSE UNCHANGED account
  /\ manual' = IF manual[t[1]].stage = "flight"
               THEN [manual EXCEPT ![t[1]] = NoRequest] ELSE manual
  /\ mine' = [mine EXCEPT ![t] = NoRecord]
  /\ UNCHANGED <<files, seen, provider, observed>>

-----------------------------------------------------------------------------
(* Revocation.                                                             *)

StartRevoke(p) ==
  /\ Up(p) /\ pc[Revocation(p)] = "idle" /\ account.ver < MaxVersion
  /\ Bind("revoked", account.gen, account.ver)
  /\ Goto(Revocation(p), IF Readable = NoRecord THEN "acquire" ELSE "provider")
  /\ UNCHANGED <<files, lock, mine, seen, manual, provider, observed>>

\* The provider's answer is ignored.
ProviderRevokes(p) ==
  /\ pc[Revocation(p)] = "provider"
  /\ grant' = FALSE \/ UNCHANGED grant
  /\ Goto(Revocation(p), "acquire")
  /\ UNCHANGED <<files, lock, mine, seen, account, manual, issued, observed>>

RemoveActive(t) ==
  /\ pc[t] = "remove-active"
  /\ active' = NoRecord
  /\ purge' = IF purge = "none" THEN "begun" ELSE purge
  /\ Goto(t, "remove-backup")
  /\ UNCHANGED <<backup, tmp, lock, mine, seen, account, manual, provider, crashes, written,
                 stolen>>

RemoveBackup(t) ==
  /\ pc[t] = "remove-backup"
  /\ backup' = NoRecord
  /\ purge' = IF purge = "begun" THEN "erased" ELSE purge
  /\ Goto(t, "remove-tmp")
  /\ UNCHANGED <<active, tmp, lock, mine, seen, account, manual, provider, crashes, written,
                 stolen>>

RemoveTemporary(t) ==
  /\ pc[t] \in {"tmp", "remove-tmp"}
  /\ tmp' = [u \in Task |-> NoRecord]
  /\ IF t[2] = "open"
     THEN Goto(t, "read-active") /\ UNCHANGED lock
     ELSE Goto(t, "idle") /\ lock' = Released(t)
  /\ UNCHANGED <<active, backup, mine, seen, account, manual, provider, observed>>

-----------------------------------------------------------------------------
(* Opening the store: recovery, without the handle's lock.                 *)

OpenStore(p) ==
  /\ pc[Opening(p)] = "down"
  /\ Goto(Opening(p), IF Readable = NoRecord THEN "acquire" ELSE "tmp")
  /\ UNCHANGED <<files, lock, mine, seen, account, manual, provider, observed>>

RecoverReads(t) ==
  /\ \/ pc[t] = "read-active"
        /\ Goto(t, IF active # NoRecord THEN "drop-backup" ELSE "read-backup")
        /\ UNCHANGED mine
     \/ pc[t] = "read-backup"
        /\ Goto(t, IF backup # NoRecord THEN "restore" ELSE "quarantine")
        /\ mine' = [mine EXCEPT ![t] = backup]
  /\ UNCHANGED <<files, lock, seen, account, manual, provider, observed>>

RecoverRestores(t) ==
  /\ pc[t] = "restore"
  /\ active' = mine[t]
  /\ mine' = [mine EXCEPT ![t] = NoRecord]
  /\ purge' = "restored"
  /\ Goto(t, "drop-backup")
  /\ UNCHANGED <<backup, tmp, lock, seen, account, manual, provider, crashes, written, stolen>>

RecoverDropsBackup(t) ==
  /\ pc[t] = "drop-backup"
  /\ backup' = NoRecord
  /\ Goto(t, "acquire")
  /\ UNCHANGED <<active, tmp, lock, mine, seen, account, manual, provider, observed>>

\* Neither file was readable: whatever is there by now is set aside.
Quarantine(t) ==
  /\ pc[t] = "quarantine"
  /\ active' = NoRecord /\ backup' = NoRecord
  /\ Goto(t, "acquire")
  /\ UNCHANGED <<tmp, lock, mine, seen, account, manual, provider, observed>>

\* No lock, or a live one: nothing to reclaim.
Opened(t) ==
  /\ pc[t] = "acquire" /\ t[2] = "open" /\ (lock = NoLock \/ ~Stale(lock))
  /\ Goto(t, "up")
  /\ UNCHANGED <<files, lock, mine, seen, account, manual, provider, observed>>

-----------------------------------------------------------------------------
Crash(p) ==
  /\ pc[Opening(p)] \notin {"down", "dead"} /\ crashes < MaxCrashes
  /\ crashes' = crashes + 1
  /\ pc' = [t \in Task |-> IF t[1] = p THEN "dead" ELSE pc[t]]
  /\ mine' = [t \in Task |-> IF t[1] = p THEN NoRecord ELSE mine[t]]
  /\ manual' = [manual EXCEPT ![p] = NoRequest]
  /\ UNCHANGED <<files, lock, seen, account, provider, written, purge, stolen>>

Next ==
  \/ \E t \in Task :
       \/ CreateLock(t) \/ WriteLock(t) \/ SeeStaleLock(t) \/ RereadLock(t)
       \/ RemoveStaleLock(t) \/ Locked(t)
       \/ CheckGeneration(t) \/ WriteTemporary(t) \/ RenameBackup(t) \/ RenameActive(t)
       \/ Verify(t) \/ ReleaseCommit(t)
       \/ RemoveActive(t) \/ RemoveBackup(t) \/ RemoveTemporary(t)
       \/ RecoverReads(t) \/ RecoverRestores(t) \/ RecoverDropsBackup(t) \/ Quarantine(t)
       \/ Opened(t)
  \/ \E p \in Procs :
       \/ Prepare(p) \/ RequestRefresh(p) \/ ProviderGrants(p) \/ ProviderRejects(p)
       \/ ProviderFails(p) \/ RequestRejected(p)
       \/ StartRevoke(p) \/ ProviderRevokes(p) \/ OpenStore(p) \/ Crash(p)

Spec == Init /\ [][Next]_vars

-----------------------------------------------------------------------------
(* Properties.                                                             *)

\* Until the credential is purged each generation is committed once: two
\* refreshes, of one process or of two, never both become generation n, over
\* crashes that leave a lock, a backup or a temporary file behind; unless a
\* live lock was removed.
GenerationCommittedOnce ==
  ~stolen /\ purge = "none" =>
    \A r, s \in written : r.gen = s.gen => r = s

\* Until it is purged the credential stays readable and its generation never
\* goes back, between any two steps of a commit and of a recovery that runs
\* beside it without the lock; unless a live lock was removed.
GenerationKept ==
  [][~stolen' /\ purge' = "none" => Readable'.gen >= Readable.gen]_vars

\* A purge that removed both files under the lock is final: no refresh that was
\* in flight, or that a later request starts, writes the credential back.  Only a
\* recovery can, from a backup it read before the purge removed it.
PurgeNotUndone ==
  [][~stolen' /\ purge' = "erased" => Readable' = NoRecord]_vars

\* The account never names a generation that is not stored yet.
AccountNotAhead ==
  ~stolen /\ purge = "none" => account.gen <= Readable.gen

\* What is stored of a credential only goes forward, and stays purged.
CommitsKept == GenerationKept /\ PurgeNotUndone

\* refresh.test.ts:53: a stale refresh does not overwrite a newer generation.
NewerNotOverwritten ==
  [][active' # active /\ active'.gen < active.gen => purge' # "none"]_vars

=============================================================================
