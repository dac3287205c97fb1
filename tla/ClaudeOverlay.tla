---------------------------- MODULE ClaudeOverlay ----------------------------
(***************************************************************************)
(* What `rly` does before it starts Claude (src/runtime/claude-overlay.ts): *)
(* it moves the overlay of older releases into views/default, and refreshes *)
(* the profile's own view from the user's native configuration, which it    *)
(* only reads.  Launches share the files and run side by side; each file    *)
(* operation is a step, and a launch may die between any two.               *)
(*                                                                          *)
(* Three surfaces stand for a view's files: settings.json is composed, the  *)
(* agent file is copied (as are commands and skills), and the plugin config *)
(* is projected.                                                            *)
(***************************************************************************)
EXTENDS Naturals, Sequences, SequencesExt

CONSTANTS
  Launches,
  NoLaunch,
  ViewOf,       \* the view of each launch: "default", or a profile's
  Versions,     \* what the user writes into a native file
  Canonical,    \* the native plugin configs whose bytes are their own projection
  Explicit,     \* does the launch policy set a model?
  Trees,        \* the directories, and the place of the shared overlay, at the start
  Edits,        \* what the user may do to native files: pairs of surface and content
  MaxNativeEdits,
  Written,      \* the surfaces Claude writes
  MaxChild,
  MaxCrashes,
  MaxDepth

ASSUME OverlayAssumption ==
  /\ NoLaunch \notin Launches
  /\ Launches \subseteq DOMAIN ViewOf
  /\ Canonical \subseteq Versions /\ Canonical # {}
  /\ Explicit \in BOOLEAN
  /\ Versions \cap {"absent", "mine", "projected", "profile", "rly"} = {}
  /\ {MaxNativeEdits, MaxChild, MaxCrashes, MaxDepth} \subseteq Nat

\* Trees are of directories below the control plane's, each with its parent.
ASSUME TreesAssumption ==
  \A t \in Trees : \A d \in t.dirs :
    d \in Seq(STRING) /\ d # <<>> /\ (Len(d) > 1 => Front(d) \in t.dirs)

VARIABLES
  dirs,      \* the directories below the control plane's, as paths
  home,      \* the path of the files that once were the shared overlay
  native,    \* the user's own files
  view,      \* the copied and the projected file of the view
  settings,  \* its settings.json
  newer,     \* is the native file's mtime later than the view file's?
  manifest,  \* the ownership manifest on disk
  marker,    \* is there a marker?
  lock,      \* who created .rly-reconcile.lock
  run,       \* each launch
  faults     \* the budgets used, and whether a launch went on without the lock

layout == <<dirs, home>>
files == <<native, view, settings, newer>>
records == <<manifest, marker, lock>>
overlayVars == <<layout, files, records, run, faults>>

Surfaces == {"settings", "agent", "plugin"}
Absent == "absent"
Settings == [model : Versions \cup {"profile", "rly", Absent}, theme : Versions \cup {Absent},
             extra : BOOLEAN]
NoSettings == [model |-> Absent, theme |-> Absent, extra |-> FALSE]

\* sourceHash is Absent when the source could not be read.
Entry == [kind : {"none", "native-imported", "rly-generated", "view-owned"},
          sourceHash : Versions \cup {Absent}]
NoEntry == [kind |-> "none", sourceHash |-> Absent]
Imported(hash) == [kind |-> "native-imported", sourceHash |-> hash]
ViewOwned == [kind |-> "view-owned", sourceHash |-> Absent]
Generated == [kind |-> "rly-generated", sourceHash |-> Absent]

NoEntries == [s \in Surfaces |-> NoEntry]

Claude == <<"claude">>
Views == <<"claude", "views">>
DefaultView == <<"claude", "views", "default">>
Staging == <<"claude.legacy">>
ViewPath(l) == Append(Views, ViewOf[l])

IsDir(p) == p \in dirs

\* A launch on its way: `read` is the content it is about to copy or compared
\* last, `looked` the directories there were when it decided to move them.
NewRun == [pc |-> "idle", hasLock |-> FALSE, entries |-> NoEntries, hadManifest |-> FALSE,
          hadMarker |-> FALSE, changed |-> FALSE, read |-> Absent, previous |-> NoSettings, current |-> TRUE,
          looked |-> {}]

OverlayInit ==
  /\ \E t \in Trees : dirs = t.dirs /\ home = t.home
  /\ native = [s \in Surfaces |-> CHOOSE v \in Canonical : TRUE]
  /\ view = [agent |-> Absent, plugin |-> Absent]
  /\ settings = NoSettings
  /\ newer = [s \in Surfaces |-> TRUE]
  /\ manifest = [exists |-> FALSE, entries |-> NoEntries]
  /\ marker = FALSE
  /\ lock = NoLaunch
  /\ run = [l \in Launches |-> NewRun]
  /\ faults = [edits |-> 0, child |-> 0, crashes |-> 0, unlocked |-> FALSE]

At(l, pc) == run[l].pc = pc
\* The launch l goes on with q, its place and what it holds.
Becomes(l, q) == run' = [run EXCEPT ![l] = q]
Goto(l, pc) == Becomes(l, [run[l] EXCEPT !.pc = pc])
Migrating(l) == run[l].pc \in {"legacy", "staging", "isDefault", "isViews", "moveOut", "makeViews",
                               "moveIn"}

-----------------------------------------------------------------------------
(* The migration of the shared overlay. *)

Moved(from, to, p) ==
  IF IsPrefix(from, p) THEN to \o SubSeq(p, Len(from) + 1, Len(p)) ELSE p

IsEmpty(p) == home # p /\ ~\E d \in dirs : IsStrictPrefix(p, d)

\* rename replaces an empty directory, and refuses a full one.
CanRename(from, to) ==
  /\ IsDir(from)
  /\ Len(to) = 1 \/ IsDir(Front(to))
  /\ IsDir(to) => IsEmpty(to)

Rename(from, to) ==
  /\ dirs' = {Moved(from, to, d) : d \in dirs}
  /\ home' = Moved(from, to, home)

MakeDirs(p) == dirs' = dirs \cup {SubSeq(p, 1, n) : n \in 1..Len(p)}

\* A launch begins by looking for the overlay; two that move it at once nest it
\* in itself, and MaxDepth bounds how deep it lies when another one begins.
Start(l) ==
  /\ At(l, "idle")
  /\ \A d \in dirs : Len(d) <= MaxDepth
  /\ Goto(l, "legacy")
  /\ UNCHANGED <<layout, files, records, faults>>

LookForLegacy(l) ==
  /\ At(l, "legacy")
  /\ Goto(l, IF IsDir(Claude) THEN "isDefault" ELSE "staging")
  /\ UNCHANGED <<layout, files, records, faults>>

LookForStaging(l) ==
  /\ At(l, "staging")
  /\ Goto(l, IF IsDir(Staging) THEN "makeViews" ELSE "mkdir")
  /\ UNCHANGED <<layout, files, records, faults>>

LookForDefault(l) ==
  /\ At(l, "isDefault")
  /\ Goto(l, IF IsDir(DefaultView) THEN "mkdir" ELSE "isViews")
  /\ UNCHANGED <<layout, files, records, faults>>

BugLookForViews(l) ==
  /\ At(l, "isViews")
  /\ Becomes(l, [run[l] EXCEPT !.pc = "moveOut", !.looked = dirs])
  /\ UNCHANGED <<layout, files, records, faults>>

\* claude/views is the container of this release, and stays.
LookForViews(l) ==
  /\ At(l, "isViews")
  /\ IF IsDir(Views) THEN Goto(l, "mkdir")
     ELSE Becomes(l, [run[l] EXCEPT !.pc = "moveOut", !.looked = dirs])
  /\ UNCHANGED <<layout, files, records, faults>>

\* Phase one, of whatever is there by now; a failure is forgiven when the
\* staging directory is there.
MoveOut(l) ==
  /\ At(l, "moveOut")
  /\ Becomes(l, [run[l] EXCEPT !.looked = {},
                    !.pc = IF CanRename(Claude, Staging) \/ IsDir(Staging) THEN "makeViews" ELSE "failed"])
  /\ IF CanRename(Claude, Staging) THEN Rename(Claude, Staging) ELSE UNCHANGED layout
  /\ UNCHANGED <<files, records, faults>>

MakeViews(l) ==
  /\ At(l, "makeViews")
  /\ MakeDirs(Views)
  /\ Goto(l, "moveIn")
  /\ UNCHANGED <<home, files, records, faults>>

\* Phase two; its failure is not an error.
MoveIn(l) ==
  /\ At(l, "moveIn")
  /\ IF CanRename(Staging, DefaultView) THEN Rename(Staging, DefaultView) ELSE UNCHANGED layout
  /\ Goto(l, "mkdir")
  /\ UNCHANGED <<files, records, faults>>

Migrate(l) ==
  \/ LookForLegacy(l)
  \/ LookForStaging(l)
  \/ LookForDefault(l)
  \/ LookForViews(l)
  \/ MoveOut(l)
  \/ MakeViews(l)
  \/ MoveIn(l)

-----------------------------------------------------------------------------
(* The refresh of the view. *)

\* The view's directory is made, then its lock file.
TakeLock(l) ==
  /\ At(l, "mkdir") /\ lock = NoLaunch
  /\ MakeDirs(ViewPath(l))
  /\ lock' = l
  /\ Becomes(l, [run[l] EXCEPT !.pc = "records", !.hasLock = TRUE])
  /\ UNCHANGED <<home, files, manifest, marker, faults>>

\* After forty attempts the launch goes on without the lock.  Nobody removes
\* the lock of a launch that died.
GiveUpOnLock(l) ==
  /\ At(l, "mkdir") /\ lock # NoLaunch
  /\ MakeDirs(ViewPath(l))
  /\ faults' = [faults EXCEPT !.unlocked = TRUE]
  /\ Goto(l, "records")
  /\ UNCHANGED <<home, files, records>>

ReadRecords(l) ==
  /\ At(l, "records")
  /\ Becomes(l, [run[l] EXCEPT !.pc = "settings", !.entries = manifest.entries,
                               !.hadManifest = manifest.exists, !.hadMarker = marker])
  /\ UNCHANGED <<layout, files, records, faults>>

NeedsRefresh(s) == newer[s] \/ view[s] = Absent

\* The native settings and the view's are read, to be written together later.
ReadSettings(l) ==
  /\ At(l, "settings")
  /\ LET composes == /\ native["settings"] # Absent
                     /\ settings = NoSettings \/ newer["settings"] \/ ~run[l].hadMarker
         strips == /\ native["settings"] = Absent
                   /\ run[l].entries["settings"].sourceHash # Absent
                   /\ settings # NoSettings
     IN Becomes(l, [run[l] EXCEPT !.pc = IF composes \/ strips THEN "writeSettings" ELSE "agent",
                                  !.read = native["settings"],
                                  !.previous = settings])
  /\ UNCHANGED <<layout, files, records, faults>>

\* A projection model persisted in the view comes before the launch policy's,
\* that before the native one; a key only Claude added is kept.
Composed(source, previous) ==
  [model |-> IF previous.model = "rly" THEN "rly" ELSE IF Explicit THEN "profile" ELSE source,
   theme |-> source,
   extra |-> previous.extra]

\* The native settings are gone: their keys are dropped, the model stays.
Stripped(previous) == [previous EXCEPT !.theme = Absent]

\* The entry holds the hash of the native file as it is by then.
WriteSettings(l) ==
  /\ At(l, "writeSettings")
  /\ settings' = IF run[l].read = Absent THEN Stripped(run[l].previous)
                 ELSE Composed(run[l].read, run[l].previous)
  /\ newer' = [newer EXCEPT !["settings"] = FALSE]
  /\ Becomes(l, [run[l] EXCEPT !.pc = "agent", !.previous = NoSettings, !.changed = TRUE,
                               !.entries["settings"] = IF run[l].read = Absent THEN Generated
                                                       ELSE Imported(native["settings"])])
  /\ UNCHANGED <<layout, native, view, records, faults>>

LookAtAgent(l) ==
  /\ At(l, "agent")
  /\ Goto(l, IF native["agent"] # Absent /\ NeedsRefresh("agent") THEN "copyAgent" ELSE "vanished")
  /\ UNCHANGED <<layout, files, records, faults>>

\* The copy takes its mtime when it is made, before it is put in place.  A file
\* removed since it was seen ends the preparation, and leaves the lock behind.
CopyAgent(l) ==
  /\ At(l, "copyAgent")
  /\ IF native["agent"] = Absent THEN Goto(l, "failed")
     ELSE Becomes(l, [run[l] EXCEPT !.pc = "placeAgent", !.read = native["agent"], !.current = TRUE])
  /\ UNCHANGED <<layout, files, records, faults>>

BugPlaceAgent(l) ==
  /\ At(l, "placeAgent")
  /\ view' = [view EXCEPT !["agent"] = run[l].read]
  /\ newer' = [newer EXCEPT !["agent"] = FALSE]
  /\ Becomes(l, [run[l] EXCEPT !.pc = "vanished", !.changed = TRUE, !.current = TRUE,
                               !.entries["agent"] = Imported(native["agent"])])
  /\ UNCHANGED <<layout, native, settings, records, faults>>

\* The hash recorded is that of the native file as it is now.
PlaceAgent(l) ==
  /\ At(l, "placeAgent")
  /\ view' = [view EXCEPT !["agent"] = run[l].read]
  /\ newer' = [newer EXCEPT !["agent"] = ~run[l].current]
  /\ Becomes(l, [run[l] EXCEPT !.pc = "vanished", !.changed = TRUE, !.current = TRUE,
                               !.entries["agent"] = Imported(native["agent"])])
  /\ UNCHANGED <<layout, native, settings, records, faults>>

\* An import whose source is gone is removed if it is what was imported, and
\* otherwise the view's own from now on.  The source, the copy and the removal
\* are a file operation each.
LooksGone(l, s, there, next) ==
  /\ Goto(l, IF run[l].entries[s].kind = "native-imported" /\ native[s] = Absent THEN there ELSE next)
  /\ UNCHANGED <<layout, files, records, faults>>

BugCompareImport(l, s, remove, next) ==
  LET found == view[s] IN
  /\ Becomes(l, [run[l] EXCEPT !.pc = IF found = Absent THEN next ELSE remove, !.read = found])
  /\ UNCHANGED <<layout, files, records, faults>>

BugCompareImportForgets(l, s, remove, next) ==
  LET found == view[s]
      r == run[l]
  IN /\ \/ found = Absent /\ Goto(l, next)
        \/ /\ found # Absent /\ found = r.entries[s].sourceHash
           /\ Becomes(l, [r EXCEPT !.pc = next, !.entries[s] = NoEntry, !.changed = TRUE])
        \/ /\ found # Absent /\ found # r.entries[s].sourceHash
           /\ Becomes(l, [r EXCEPT !.pc = next, !.entries[s] = ViewOwned, !.changed = TRUE])
     /\ UNCHANGED <<layout, files, records, faults>>

CompareImport(l, s, remove, next) ==
  LET found == view[s]
      r == run[l]
  IN /\ \/ found = Absent /\ Goto(l, next)
        \/ /\ found # Absent /\ found = r.entries[s].sourceHash
           /\ Becomes(l, [r EXCEPT !.pc = remove, !.read = found])
        \/ /\ found # Absent /\ found # r.entries[s].sourceHash
           /\ Becomes(l, [r EXCEPT !.pc = next, !.entries[s] = ViewOwned, !.changed = TRUE])
     /\ UNCHANGED <<layout, files, records, faults>>

\* Whatever the copy is by now.
RemoveImport(l, s, next) ==
  /\ view' = [view EXCEPT ![s] = Absent]
  /\ Becomes(l, [run[l] EXCEPT !.pc = next, !.entries[s] = NoEntry, !.changed = TRUE])
  /\ UNCHANGED <<layout, native, settings, newer, records, faults>>

ReconcileAgent(l) ==
  \/ At(l, "vanished") /\ LooksGone(l, "agent", "compareAgent", "plugin")
  \/ At(l, "compareAgent") /\ CompareImport(l, "agent", "removeAgent", "plugin")
  \/ At(l, "removeAgent") /\ RemoveImport(l, "agent", "plugin")

ReadPlugin(l) ==
  /\ At(l, "plugin") /\ native["plugin"] # Absent
  /\ Becomes(l, [run[l] EXCEPT !.pc = IF NeedsRefresh("plugin") THEN "writePlugin" ELSE "save",
                               !.read = native["plugin"]])
  /\ UNCHANGED <<layout, files, records, faults>>

\* Only the allowed keys are carried, in RLY's own formatting.
Projection(v) == IF v \in Canonical THEN v ELSE "projected"

WritePlugin(l) ==
  /\ At(l, "writePlugin")
  /\ view' = [view EXCEPT !["plugin"] = Projection(run[l].read)]
  /\ newer' = [newer EXCEPT !["plugin"] = FALSE]
  /\ Becomes(l, [run[l] EXCEPT !.pc = "save", !.changed = TRUE,
                               !.entries["plugin"] = Imported(native["plugin"])])
  /\ UNCHANGED <<layout, native, settings, records, faults>>

\* The source is looked for twice.
ReconcilePlugin(l) ==
  \/ /\ At(l, "plugin") /\ native["plugin"] = Absent
     /\ Goto(l, IF run[l].entries["plugin"].sourceHash # Absent THEN "pluginGone" ELSE "save")
     /\ UNCHANGED <<layout, files, records, faults>>
  \/ At(l, "pluginGone") /\ LooksGone(l, "plugin", "comparePlugin", "save")
  \/ At(l, "comparePlugin") /\ CompareImport(l, "plugin", "removePlugin", "save")
  \/ At(l, "removePlugin") /\ RemoveImport(l, "plugin", "save")

\* The whole manifest is replaced by what this launch read and changed.
SaveManifest(l) ==
  /\ At(l, "save")
  /\ manifest' = IF run[l].changed \/ ~run[l].hadManifest
                 THEN [exists |-> TRUE, entries |-> run[l].entries] ELSE manifest
  /\ Goto(l, "unlock")
  /\ UNCHANGED <<layout, files, marker, lock, faults>>

\* The lock is released by its holder; then the marker is written.
Unlock(l) ==
  /\ At(l, "unlock")
  /\ lock' = IF run[l].hasLock THEN NoLaunch ELSE lock
  /\ marker' = TRUE
  /\ Becomes(l, [NewRun EXCEPT !.pc = "ready"])
  /\ UNCHANGED <<layout, files, manifest, faults>>

Refresh(l) ==
  \/ TakeLock(l)
  \/ GiveUpOnLock(l)
  \/ ReadRecords(l)
  \/ ReadSettings(l)
  \/ WriteSettings(l)
  \/ LookAtAgent(l)
  \/ CopyAgent(l)
  \/ PlaceAgent(l)
  \/ ReconcileAgent(l)
  \/ ReadPlugin(l)
  \/ WritePlugin(l)
  \/ ReconcilePlugin(l)
  \/ SaveManifest(l)
  \/ Unlock(l)

-----------------------------------------------------------------------------
(* The user, in the native configuration. *)

\* A native file is written or removed; a copy already made is now the older.
NativeEdit(s, v) ==
  /\ faults.edits < MaxNativeEdits /\ <<s, v>> \in Edits
  /\ native[s] # v
  /\ native' = [native EXCEPT ![s] = v]
  /\ newer' = [newer EXCEPT ![s] = @ \/ v # Absent]
  /\ run' = [l \in Launches |-> IF s = "agent" THEN [run[l] EXCEPT !.current = FALSE] ELSE run[l]]
  /\ faults' = [faults EXCEPT !.edits = @ + 1]
  /\ UNCHANGED <<layout, view, settings, records>>
=============================================================================
