---------------------------- MODULE Launch_proofs ----------------------------
(***************************************************************************)
(* Theorems about HarnessLaunch and the overlay it prepares, for any       *)
(* number of launches, of the user's edits, of Claude's writes and of      *)
(* launchers that die; and about ModelRouting, which resolves what the     *)
(* launched session requests, for any models, policies, launches, agents   *)
(* and writers of the stores.  The invariant of the latter says what a     *)
(* request holds while it is between two awaits, and which session it was  *)
(* asked under.                                                            *)
(***************************************************************************)
EXTENDS HarnessLaunch, ModelRouting, SequenceTheorems, TLAPS

-----------------------------------------------------------------------------
(* The inductive invariant. *)

\* Where a launch may stand, and what it holds there.
Moving == {"legacy", "staging", "isDefault", "isViews", "moveOut", "makeViews", "moveIn"}
Refreshing == {"records", "settings", "writeSettings", "agent", "copyAgent", "placeAgent", "vanished",
               "compareAgent", "removeAgent", "plugin", "writePlugin", "pluginGone", "comparePlugin",
               "removePlugin", "save", "unlock"}
Places == Moving \cup Refreshing \cup {"idle", "mkdir", "ready", "child", "failed", "over", "dead"}
Names == STRING \cup {"claude", "views", "default", "claude.legacy"} \cup {ViewOf[l] : l \in Launches}
Run == [pc : Places, hasLock : BOOLEAN, entries : [Surfaces -> Entry], hadManifest : BOOLEAN,
        hadMarker : BOOLEAN, changed : BOOLEAN, read : Versions \cup {Absent}, previous : Settings,
        current : BOOLEAN, looked : SUBSET Seq(Names)]

FilesType ==
  /\ native \in [Surfaces -> Versions \cup {Absent}]
  /\ view \in [{"agent", "plugin"} -> Versions \cup {Absent, "mine", "projected"}]
  /\ settings \in Settings
  /\ newer \in [Surfaces -> BOOLEAN]
RecordsType ==
  /\ manifest \in [exists : BOOLEAN, entries : [Surfaces -> Entry]]
  /\ marker \in BOOLEAN
  /\ lock \in Launches \cup {NoLaunch}
RunsType ==
  /\ run \in [Launches -> Run]
  /\ child \in [Launches -> {"none", "running", "exited"}]
  /\ faults \in [edits : Nat, child : Nat, crashes : Nat, unlocked : BOOLEAN]
LayoutType == dirs \subseteq Seq(Names)
Types == LayoutType /\ FilesType /\ RecordsType /\ RunsType

\* A copy in hand is of a file that was there, and of the latest if `current`.
Copying(r, source) ==
  /\ r.pc = "placeAgent" => r.read # Absent /\ (r.current => r.read = source)
  /\ r.pc = "writePlugin" => r.read # Absent
CopiesInv == CopiesConverge /\ \A l \in Launches : Copying(run[l], native["agent"])

\* The entries know of every file put into the view v.
Tracks(entries, v) ==
  \A s \in {"agent", "plugin"} : v[s] \notin {Absent, "mine"} => entries[s].kind # "none"

\* So does the manifest m before it is read and once it is saved; in between,
\* the launch's own copy, and if that was not changed it is the manifest's.
RunTracks(r, m, v) ==
  IF r.pc \in {"records", "unlock"} THEN Tracks(m, v)
  ELSE r.pc \in Refreshing => Tracks(r.entries, v) /\ (r.changed \/ r.entries = m)

\* While no launch went on without the lock and none died, the lock is that of
\* the one launch that refreshes.
Intact == ~faults.unlocked /\ faults.crashes = 0
TracksInv == Intact =>
  /\ lock = NoLaunch => Tracks(manifest.entries, view)
  /\ \A l \in Launches : (run[l].pc \in Refreshing => lock = l) /\ RunTracks(run[l], manifest.entries, view)

\* A view lies in the container of views, and a launch that is about to move
\* claude away saw no container.
DirsInv ==
  /\ \A l \in Launches : IsDir(ViewPath(l)) => IsDir(Views)
  /\ \A m \in Launches : At(m, "moveOut") => \A l \in Launches : ViewPath(l) \notin run[m].looked

-----------------------------------------------------------------------------
(* Paths. *)

LEMMA Paths ==
  /\ Claude \in Seq(Names) /\ Views \in Seq(Names) /\ DefaultView \in Seq(Names) /\ Staging \in Seq(Names)
  /\ \A l \in Launches : ViewPath(l) \in Seq(Names)
<1>1. {"claude", "views", "default", "claude.legacy"} \subseteq Names /\ \A l \in Launches : ViewOf[l] \in Names
  BY DEF Names
<1>2. QED  BY <1>1 DEF Claude, Views, DefaultView, Staging, ViewPath

\* The first rename takes all of claude away.
LEMMA MovedOut ==
  ASSUME NEW d \in Seq(Names)
  PROVE  /\ Moved(Claude, Staging, d) \in Seq(Names)
         /\ \A l \in Launches : Moved(Claude, Staging, d) # ViewPath(l)
<1>1. CASE IsPrefix(Claude, d)
  <2>1. SubSeq(d, 2, Len(d)) \in Seq(Names)
    BY SubSeqProperties, Z3
  <2>2. Moved(Claude, Staging, d) = Staging \o SubSeq(d, 2, Len(d))
    BY <1>1 DEF Moved, Claude
  <2>3. Moved(Claude, Staging, d) \in Seq(Names) /\ Moved(Claude, Staging, d)[1] = "claude.legacy"
    <3>1. Staging \in Seq(Names) /\ Len(Staging) = 1 /\ Staging[1] = "claude.legacy"
      BY Paths DEF Staging
    <3>2. QED  BY <2>1, <2>2, <3>1, ConcatProperties
  <2>4. QED  BY <2>3 DEF Views, ViewPath
<1>2. CASE ~IsPrefix(Claude, d)
  <2>1. \A l \in Launches : IsPrefix(Claude, ViewPath(l))
    BY DEF IsPrefix, Claude, Views, ViewPath
  <2>2. QED  BY <1>2, <2>1 DEF Moved
<1>3. QED  BY <1>1, <1>2

\* The second one moves nothing that is in claude.
LEMMA MovedIn ==
  ASSUME NEW d \in Seq(Names)
  PROVE  /\ Moved(Staging, DefaultView, d) \in Seq(Names)
         /\ d \in {Claude, Views, DefaultView} => Moved(Staging, DefaultView, d) = d
         /\ \A l \in Launches : d = ViewPath(l) => Moved(Staging, DefaultView, d) = d
<1>1. CASE IsPrefix(Staging, d)
  <2>1. SubSeq(d, 2, Len(d)) \in Seq(Names)
    BY SubSeqProperties, Z3
  <2>2. Moved(Staging, DefaultView, d) = DefaultView \o SubSeq(d, 2, Len(d))
    BY <1>1 DEF Moved, Staging
  <2>3. Moved(Staging, DefaultView, d) \in Seq(Names)
    BY <2>1, <2>2, Paths
  <2>4. d[1] = "claude.legacy"
    BY <1>1 DEF IsPrefix, Staging
  <2>5. QED  BY <2>3, <2>4 DEF Claude, Views, DefaultView, ViewPath
<1>2. QED  BY <1>1 DEF Moved

\* A directory is made with those it is in.
LEMMA Made ==
  ASSUME NEW p \in Seq(Names), MakeDirs(p), dirs \subseteq Seq(Names)
  PROVE  /\ dirs \subseteq dirs' /\ dirs' \subseteq Seq(Names)
         /\ p = Views \/ (\E l \in Launches : p = ViewPath(l)) => Views \in dirs'
<1>1. dirs \subseteq dirs'
  BY DEF MakeDirs
<1>2. \A n \in 1..Len(p) : SubSeq(p, 1, n) \in Seq(Names)
  <2>1. SUFFICES ASSUME NEW n \in 1..Len(p)  PROVE SubSeq(p, 1, n) \in Seq(Names)
    OBVIOUS
  <2>2. n \in Int /\ \A i \in 1..n : p[i] \in Names
    BY LenProperties
  <2>3. QED  BY <2>2, SubSeqProperties
<1>3. Views[1] = "claude" /\ Views[2] = "views" /\ Len(Views) = 2
  BY DEF Views
<1>4. ASSUME Len(p) >= 2, p[1] = "claude", p[2] = "views"
      PROVE  Views \in dirs'
  <2>1. 2 \in 1..Len(p)
    BY <1>4, LenProperties
  <2> DEFINE q == SubSeq(p, 1, 2)
  <2>2. q \in Seq(Names)
    BY <1>2, <2>1
  <2>3. Len(q) = 2 /\ q[1] = "claude" /\ q[2] = "views"
    <3>1. \A i \in 1..2 : p[i] \in Names
      BY <2>1, LenProperties
    <3>2. Len(q) = 2 /\ \A i \in 1..2 : q[i] = p[1 + i - 1]
      BY <3>1, SubSeqProperties
    <3>3. QED  BY <1>4, <3>2
  <2> HIDE DEF q
  <2>4. q = Views
    BY <2>2, <2>3, <1>3, Paths, SeqEqual, SMTT(20)
  <2>5. QED  BY <2>1, <2>4 DEF MakeDirs, q
<1>5. ASSUME NEW l \in Launches
      PROVE  ViewPath(l)[1] = "claude" /\ ViewPath(l)[2] = "views" /\ Len(ViewPath(l)) >= 2
  BY DEF ViewPath, Views
<1>6. dirs' \subseteq Seq(Names)
  BY <1>2 DEF MakeDirs
<1>7. QED  BY <1>1, <1>3, <1>4, <1>5, <1>6

\* The container of views is the parent of the default view.
LEMMA Parent == Len(DefaultView) = 3 /\ Front(DefaultView) = Views
<1>1. Len(DefaultView) = 3 /\ Len(Views) = 2
  BY DEF DefaultView, Views
<1>2. Front(DefaultView) = SubSeq(DefaultView, 1, 2)
  BY <1>1 DEF Front
<1>3. \A i \in 1..2 : DefaultView[i] = Views[i] /\ DefaultView[i] \in Names
  BY Paths DEF DefaultView, Views, Names
<1>4. /\ SubSeq(DefaultView, 1, 2) \in Seq(Names) /\ Len(SubSeq(DefaultView, 1, 2)) = 2
      /\ \A i \in 1..2 : SubSeq(DefaultView, 1, 2)[i] = DefaultView[1 + i - 1]
  BY <1>3, SubSeqProperties
<1>5. SubSeq(DefaultView, 1, 2) = Views
  BY <1>1, <1>3, <1>4, Paths, SeqEqual
<1>6. QED  BY <1>1, <1>2, <1>5

\* And of any other.
LEMMA ViewParent ==
  ASSUME NEW l \in Launches
  PROVE  Len(ViewPath(l)) = 3 /\ Front(ViewPath(l)) = Views
<1> DEFINE p == ViewPath(l)
<1>1. Len(p) = 3 /\ Len(Views) = 2 /\ p[1] = Views[1] /\ p[2] = Views[2]
  BY DEF ViewPath, Views
<1>2. p \in Seq(Names)
  BY Paths
<1> HIDE DEF p
<1>3. Front(p) = SubSeq(p, 1, 2)
  BY <1>1 DEF Front
<1>4. \A i \in 1..2 : p[i] = Views[i] /\ p[i] \in Names
  BY <1>1, <1>2, LenProperties
<1>5. /\ SubSeq(p, 1, 2) \in Seq(Names) /\ Len(SubSeq(p, 1, 2)) = 2
      /\ \A i \in 1..2 : SubSeq(p, 1, 2)[i] = p[1 + i - 1]
  BY <1>4, SubSeqProperties
<1>6. SubSeq(p, 1, 2) = Views
  BY <1>1, <1>4, <1>5, Paths, SeqEqual
<1>7. QED  BY <1>1, <1>3, <1>6 DEF p

-----------------------------------------------------------------------------
(* Types. *)

LEMMA AllPlaces ==
  /\ "legacy" \in Places /\ "staging" \in Places /\ "isDefault" \in Places /\ "isViews" \in Places
  /\ "moveOut" \in Places /\ "makeViews" \in Places /\ "moveIn" \in Places /\ "records" \in Places
  /\ "settings" \in Places /\ "writeSettings" \in Places /\ "agent" \in Places /\ "copyAgent" \in Places
  /\ "placeAgent" \in Places /\ "vanished" \in Places /\ "plugin" \in Places /\ "writePlugin" \in Places
  /\ "save" \in Places /\ "unlock" \in Places /\ "idle" \in Places /\ "mkdir" \in Places
  /\ "compareAgent" \in Places /\ "removeAgent" \in Places /\ "pluginGone" \in Places
  /\ "comparePlugin" \in Places /\ "removePlugin" \in Places
  /\ "ready" \in Places /\ "child" \in Places /\ "failed" \in Places /\ "over" \in Places
  /\ "dead" \in Places
BY DEF Places, Moving, Refreshing

LEMMA Values ==
  /\ NoSettings \in Settings
  /\ {NoEntry, ViewOwned, Generated} \subseteq Entry
  /\ NoEntries \in [Surfaces -> Entry]
  /\ NewRun \in Run
  /\ \A h \in Versions \cup {Absent} : Imported(h) \in Entry
<1>1. NoSettings \in Settings
  BY DEF NoSettings, Settings
<1>2. {NoEntry, ViewOwned, Generated} \subseteq Entry /\ \A h \in Versions \cup {Absent} : Imported(h) \in Entry
  BY DEF NoEntry, ViewOwned, Generated, Imported, Entry
<1>3. NoEntries \in [Surfaces -> Entry]
  BY <1>2 DEF NoEntries
<1>4. NewRun \in Run
  BY <1>1, <1>3, AllPlaces DEF NewRun, Run
<1>5. QED  BY <1>1, <1>2, <1>3, <1>4

LEMMA KeptFiles ==
  ASSUME FilesType, UNCHANGED files  PROVE FilesType'
BY DEF FilesType, files

LEMMA KeptRecords ==
  ASSUME RecordsType, UNCHANGED records  PROVE RecordsType'
BY DEF RecordsType, records

LEMMA Becoming ==
  ASSUME run \in [Launches -> Run], NEW l \in Launches, NEW q \in Run, Becomes(l, q)
  PROVE  /\ run' \in [Launches -> Run]
         /\ run'[l] = q /\ \A k \in Launches \ {l} : run'[k] = run[k]
BY DEF Becomes

\* A launch that goes on holds what it held.
LEMMA Going ==
  ASSUME run \in [Launches -> Run], NEW l \in Launches, NEW pc \in Places, Goto(l, pc)
  PROVE  /\ run' \in [Launches -> Run]
         /\ run'[l] = [run[l] EXCEPT !.pc = pc] /\ run'[l].pc = pc
         /\ run'[l].entries = run[l].entries /\ run'[l].changed = run[l].changed
         /\ \A k \in Launches \ {l} : run'[k] = run[k]
<1> DEFINE q == [run[l] EXCEPT !.pc = pc]
<1>1. q \in Run /\ q.pc = pc /\ q.entries = run[l].entries /\ q.changed = run[l].changed
  BY DEF Run
<1>2. QED  BY <1>1, Becoming DEF Goto

\* A launch that migrates goes from place to place, and remembers what it saw
\* when it decides to move the overlay.
LEMMA MigrateRun ==
  ASSUME Types, NEW l \in Launches, Migrate(l)
  PROVE  /\ run' \in [Launches -> Run]
         /\ run'[l].pc \in Moving \cup {"mkdir", "failed"}
         /\ run'[l].pc = "moveOut" => run'[l].looked = dirs /\ ~IsDir(Views) /\ UNCHANGED dirs
         /\ \A k \in Launches \ {l} : run'[k] = run[k]
<1>1. run \in [Launches -> Run] /\ run[l] \in Run /\ dirs \in SUBSET Seq(Names)
  BY DEF Types, RunsType, LayoutType
<1>2. ASSUME NEW pc \in (Moving \ {"moveOut"}) \cup {"mkdir", "failed"}, Goto(l, pc)
      PROVE  /\ run' \in [Launches -> Run] /\ run'[l].pc = pc /\ pc # "moveOut"
             /\ \A k \in Launches \ {l} : run'[k] = run[k]
  <2>1. pc \in Places /\ pc # "moveOut"
    BY DEF Places, Moving
  <2>2. QED  BY <1>1, <1>2, <2>1, Going
<1>3. CASE LookForViews(l) /\ ~IsDir(Views)
  <2> DEFINE q == [run[l] EXCEPT !.pc = "moveOut", !.looked = dirs]
  <2>1. q \in Run /\ q.pc = "moveOut" /\ q.looked = dirs
    BY <1>1, AllPlaces DEF Run
  <2>2. Becomes(l, q) /\ UNCHANGED dirs
    BY <1>3 DEF LookForViews, layout
  <2> HIDE DEF q
  <2>3. QED  BY <1>1, <1>3, <2>1, <2>2, Becoming DEF Moving
<1>4. CASE MoveOut(l)
  <2>1. PICK pc \in {"makeViews", "failed"} : Becomes(l, [run[l] EXCEPT !.looked = {}, !.pc = pc])
    BY <1>4 DEF MoveOut
  <2> DEFINE q == [run[l] EXCEPT !.looked = {}, !.pc = pc]
  <2>2. q \in Run /\ q.pc = pc
    BY <1>1, AllPlaces DEF Run
  <2>3. Becomes(l, q)
    BY <2>1
  <2> HIDE DEF q
  <2>4. QED  BY <1>1, <2>2, <2>3, Becoming DEF Moving
<1>5. QED
  BY <1>2, <1>3, <1>4 DEF Migrate, LookForLegacy, LookForStaging, LookForDefault, LookForViews, MakeViews, MoveIn,
     Moving

LEMMA MigrateTypes ==
  ASSUME Types, NEW l \in Launches, Migrate(l), UNCHANGED child
  PROVE  Types'
<1>1. UNCHANGED <<files, records, faults>>
  BY DEF Migrate, LookForLegacy, LookForStaging, LookForDefault, LookForViews, MoveOut, MakeViews, MoveIn
<1>2. RunsType'
  BY <1>1, MigrateRun DEF Types, RunsType
<1>3. LayoutType'
  <2>1. CASE UNCHANGED dirs
    BY <2>1 DEF Types, LayoutType
  <2>2. CASE Rename(Claude, Staging)
    BY <2>2, MovedOut DEF Rename, Types, LayoutType
  <2>3. CASE Rename(Staging, DefaultView)
    BY <2>3, MovedIn DEF Rename, Types, LayoutType
  <2>4. CASE MakeDirs(Views)
    BY <2>4, Paths, Made DEF Types, LayoutType
  <2>5. QED
    BY <2>1, <2>2, <2>3, <2>4 DEF Migrate, LookForLegacy, LookForStaging, LookForDefault, LookForViews, MoveOut,
       MakeViews, MoveIn, layout
<1>4. QED  BY <1>1, <1>2, <1>3, KeptFiles, KeptRecords DEF Types

\* What each operation leaves a launch with.
LEMMA TakeLockRun ==
  ASSUME Types, NEW l \in Launches, TakeLock(l)
  PROVE  /\ run' \in [Launches -> Run] /\ run'[l].pc = "records"
         /\ \A k \in Launches \ {l} : run'[k] = run[k]
<1> DEFINE q == [run[l] EXCEPT !.pc = "records", !.hasLock = TRUE]
<1>1. run \in [Launches -> Run] /\ run[l] \in Run
  BY DEF Types, RunsType
<1>2. q \in Run /\ q.pc = "records"
  BY <1>1, AllPlaces DEF Run
<1> HIDE DEF q
<1>3. Becomes(l, q)
  BY DEF TakeLock, q
<1>4. QED  BY <1>1, <1>2, <1>3, Becoming

LEMMA ReadRecordsRun ==
  ASSUME Types, NEW l \in Launches, ReadRecords(l)
  PROVE  /\ run' \in [Launches -> Run] /\ run'[l].pc = "settings"
         /\ run'[l].entries = manifest.entries /\ run'[l].changed = run[l].changed
         /\ \A k \in Launches \ {l} : run'[k] = run[k]
<1> DEFINE entries == manifest.entries
           exists == manifest.exists
           q == [run[l] EXCEPT !.pc = "settings", !.entries = entries, !.hadManifest = exists, !.hadMarker = marker]
<1>1. /\ run \in [Launches -> Run] /\ run[l] \in Run
      /\ entries \in [Surfaces -> Entry] /\ exists \in BOOLEAN /\ marker \in BOOLEAN
  BY DEF Types, RunsType, RecordsType
<1>2. Becomes(l, q)
  BY DEF ReadRecords
<1> HIDE DEF entries, exists
<1>3. q \in Run /\ q.pc = "settings" /\ q.entries = entries /\ q.changed = run[l].changed
  BY <1>1, AllPlaces DEF Run
<1> HIDE DEF q
<1>4. QED  BY <1>1, <1>2, <1>3, Becoming DEF entries

LEMMA ReadSettingsRun ==
  ASSUME Types, NEW l \in Launches, ReadSettings(l)
  PROVE  /\ run' \in [Launches -> Run] /\ run'[l].pc \in {"writeSettings", "agent"}
         /\ run'[l].entries = run[l].entries /\ run'[l].changed = run[l].changed
         /\ \A k \in Launches \ {l} : run'[k] = run[k]
<1>1. run \in [Launches -> Run] /\ run[l] \in Run /\ native["settings"] \in Versions \cup {Absent} /\ settings \in Settings
  BY DEF Types, RunsType, FilesType, Surfaces
<1>2. PICK pc \in {"writeSettings", "agent"} :
        Becomes(l, [run[l] EXCEPT !.pc = pc, !.read = native["settings"], !.previous = settings])
  BY DEF ReadSettings
<1> DEFINE source == native["settings"]
           q == [run[l] EXCEPT !.pc = pc, !.read = source, !.previous = settings]
<1>3. Becomes(l, q) /\ source \in Versions \cup {Absent} /\ pc \in Places
  BY <1>1, <1>2, AllPlaces
<1> HIDE DEF source
<1>4. q \in Run /\ q.pc = pc /\ q.entries = run[l].entries /\ q.changed = run[l].changed
  BY <1>1, <1>3 DEF Run
<1> HIDE DEF q
<1>5. QED  BY <1>1, <1>3, <1>4, Becoming

LEMMA WriteSettingsRun ==
  ASSUME Types, NEW l \in Launches, WriteSettings(l)
  PROVE  /\ run' \in [Launches -> Run] /\ run'[l].pc = "agent" /\ run'[l].changed
         /\ run'[l].entries["agent"] = run[l].entries["agent"]
         /\ run'[l].entries["plugin"] = run[l].entries["plugin"]
         /\ \A k \in Launches \ {l} : run'[k] = run[k]
<1> DEFINE entry == IF run[l].read = Absent THEN Generated ELSE Imported(native["settings"])
           q == [run[l] EXCEPT !.pc = "agent", !.previous = NoSettings, !.changed = TRUE, !.entries["settings"] = entry]
<1>1. run \in [Launches -> Run] /\ run[l] \in Run /\ entry \in Entry
  BY Values DEF Types, RunsType, FilesType, Surfaces
<1>2. Becomes(l, q)
  BY DEF WriteSettings
<1> HIDE DEF entry
<1>3. /\ q \in Run /\ q.pc = "agent" /\ q.changed
      /\ q.entries["agent"] = run[l].entries["agent"] /\ q.entries["plugin"] = run[l].entries["plugin"]
  BY <1>1, Values, AllPlaces DEF Run, Surfaces
<1> HIDE DEF q
<1>4. QED  BY <1>1, <1>2, <1>3, Becoming

LEMMA CopyAgentRun ==
  ASSUME Types, NEW l \in Launches, CopyAgent(l), native["agent"] # Absent
  PROVE  /\ run' \in [Launches -> Run] /\ run'[l].pc = "placeAgent"
         /\ run'[l].read = native["agent"]
         /\ run'[l].entries = run[l].entries /\ run'[l].changed = run[l].changed
         /\ \A k \in Launches \ {l} : run'[k] = run[k]
<1> DEFINE source == native["agent"]
           q == [run[l] EXCEPT !.pc = "placeAgent", !.read = source, !.current = TRUE]
<1>1. run \in [Launches -> Run] /\ run[l] \in Run /\ source \in Versions \cup {Absent}
  BY DEF Types, RunsType, FilesType, Surfaces
<1>2. Becomes(l, q)
  BY DEF CopyAgent
<1> HIDE DEF source
<1>3. /\ q \in Run /\ q.pc = "placeAgent" /\ q.read = source
      /\ q.entries = run[l].entries /\ q.changed = run[l].changed
  BY <1>1, AllPlaces DEF Run
<1> HIDE DEF q
<1>4. QED  BY <1>1, <1>2, <1>3, Becoming DEF source

LEMMA PlaceAgentRun ==
  ASSUME Types, NEW l \in Launches, PlaceAgent(l)
  PROVE  /\ run' \in [Launches -> Run] /\ run'[l].pc = "vanished" /\ run'[l].changed
         /\ run'[l].entries = [run[l].entries EXCEPT !["agent"] = Imported(native["agent"])]
         /\ \A k \in Launches \ {l} : run'[k] = run[k]
<1> DEFINE entry == Imported(native["agent"])
           q == [run[l] EXCEPT !.pc = "vanished", !.changed = TRUE, !.current = TRUE, !.entries["agent"] = entry]
<1>1. run \in [Launches -> Run] /\ run[l] \in Run /\ entry \in Entry
  BY Values DEF Types, RunsType, FilesType, Surfaces
<1>2. Becomes(l, q)
  BY DEF PlaceAgent
<1> HIDE DEF entry
<1>3. /\ q \in Run /\ q.pc = "vanished" /\ q.changed /\ q.entries = [run[l].entries EXCEPT !["agent"] = entry]
  BY <1>1, AllPlaces DEF Run, Surfaces
<1> HIDE DEF q
<1>4. QED  BY <1>1, <1>2, <1>3, Becoming DEF entry

LEMMA ReadPluginRun ==
  ASSUME Types, NEW l \in Launches, ReadPlugin(l)
  PROVE  /\ run' \in [Launches -> Run] /\ run'[l].pc \in {"writePlugin", "save"}
         /\ run'[l].read = native["plugin"]
         /\ run'[l].entries = run[l].entries /\ run'[l].changed = run[l].changed
         /\ \A k \in Launches \ {l} : run'[k] = run[k]
<1>1. run \in [Launches -> Run] /\ run[l] \in Run /\ native["plugin"] \in Versions \cup {Absent}
  BY DEF Types, RunsType, FilesType, Surfaces
<1>2. PICK pc \in {"writePlugin", "save"} : Becomes(l, [run[l] EXCEPT !.pc = pc, !.read = native["plugin"]])
  BY DEF ReadPlugin
<1> DEFINE source == native["plugin"]
           q == [run[l] EXCEPT !.pc = pc, !.read = source]
<1>3. Becomes(l, q) /\ source \in Versions \cup {Absent} /\ pc \in Places
  BY <1>1, <1>2, AllPlaces
<1> HIDE DEF source
<1>4. q \in Run /\ q.pc = pc /\ q.read = source /\ q.entries = run[l].entries /\ q.changed = run[l].changed
  BY <1>1, <1>3 DEF Run
<1> HIDE DEF q
<1>5. QED  BY <1>1, <1>3, <1>4, Becoming DEF source

LEMMA WritePluginRun ==
  ASSUME Types, NEW l \in Launches, WritePlugin(l)
  PROVE  /\ run' \in [Launches -> Run] /\ run'[l].pc = "save" /\ run'[l].changed
         /\ run'[l].entries = [run[l].entries EXCEPT !["plugin"] = Imported(native["plugin"])]
         /\ \A k \in Launches \ {l} : run'[k] = run[k]
<1> DEFINE entry == Imported(native["plugin"])
           q == [run[l] EXCEPT !.pc = "save", !.changed = TRUE, !.entries["plugin"] = entry]
<1>1. run \in [Launches -> Run] /\ run[l] \in Run /\ entry \in Entry
  BY Values DEF Types, RunsType, FilesType, Surfaces
<1>2. Becomes(l, q)
  BY DEF WritePlugin
<1> HIDE DEF entry
<1>3. /\ q \in Run /\ q.pc = "save" /\ q.changed /\ q.entries = [run[l].entries EXCEPT !["plugin"] = entry]
  BY <1>1, AllPlaces DEF Run, Surfaces
<1> HIDE DEF q
<1>4. QED  BY <1>1, <1>2, <1>3, Becoming DEF entry

\* The steps that follow up a source that is gone.
FollowsUp(l) == ReconcileAgent(l) \/ ReconcilePlugin(l)
Following == {"vanished", "compareAgent", "removeAgent", "plugin", "pluginGone", "comparePlugin", "removePlugin"}

\* What a launch may hold of the entry e of a file whose source is gone once it
\* went from r to q: the entry goes with the file.
Followed(r, q, s, e) ==
  /\ q.entries = [r.entries EXCEPT ![s] = e]
  /\ q.changed \/ (e = r.entries[s] /\ q.changed = r.changed)

LEMMA FollowsGoing ==
  ASSUME Types, NEW l \in Launches, NEW pc \in Places, Goto(l, pc)
  PROVE  /\ run' \in [Launches -> Run] /\ run'[l].pc = pc
         /\ run[l].entries["agent"] \in Entry /\ Followed(run[l], run'[l], "agent", run[l].entries["agent"])
         /\ \A k \in Launches \ {l} : run'[k] = run[k]
<1>1. run \in [Launches -> Run] /\ run[l].entries \in [Surfaces -> Entry]
  BY DEF Types, RunsType, Run
<1>2. QED  BY <1>1, Going DEF Followed, Surfaces

LEMMA FollowsChanging ==
  ASSUME Types, NEW l \in Launches, NEW pc \in Places, NEW s \in {"agent", "plugin"}, NEW e \in Entry,
         Becomes(l, [run[l] EXCEPT !.pc = pc, !.entries[s] = e, !.changed = TRUE])
  PROVE  /\ run' \in [Launches -> Run] /\ run'[l].pc = pc
         /\ Followed(run[l], run'[l], s, e)
         /\ \A k \in Launches \ {l} : run'[k] = run[k]
<1> DEFINE q == [run[l] EXCEPT !.pc = pc, !.entries[s] = e, !.changed = TRUE]
<1>1. run \in [Launches -> Run] /\ run[l] \in Run
  BY DEF Types, RunsType
<1>2. q \in Run /\ q.pc = pc /\ q.changed /\ q.entries = [run[l].entries EXCEPT ![s] = e]
  BY <1>1 DEF Run, Surfaces
<1>3. Becomes(l, q)
  OBVIOUS
<1> HIDE DEF q
<1>4. QED  BY <1>1, <1>2, <1>3, Becoming DEF Followed

LEMMA FollowsSeeing ==
  ASSUME Types, NEW l \in Launches, NEW pc \in Places, NEW found \in Versions \cup {Absent},
         Becomes(l, [run[l] EXCEPT !.pc = pc, !.read = found])
  PROVE  /\ run' \in [Launches -> Run] /\ run'[l].pc = pc
         /\ run[l].entries["agent"] \in Entry /\ Followed(run[l], run'[l], "agent", run[l].entries["agent"])
         /\ \A k \in Launches \ {l} : run'[k] = run[k]
<1> DEFINE q == [run[l] EXCEPT !.pc = pc, !.read = found]
<1>1. run \in [Launches -> Run] /\ run[l] \in Run /\ run[l].entries \in [Surfaces -> Entry]
  BY DEF Types, RunsType, Run
<1>2. q \in Run /\ q.pc = pc /\ q.changed = run[l].changed /\ q.entries = run[l].entries
  BY <1>1 DEF Run
<1>3. Becomes(l, q)
  OBVIOUS
<1> HIDE DEF q
<1>4. QED  BY <1>1, <1>2, <1>3, Becoming DEF Followed, Surfaces

LEMMA FollowsRun ==
  ASSUME Types, NEW l \in Launches, FollowsUp(l)
  PROVE  /\ run[l].pc \in Following /\ run'[l].pc \in (Following \ {"vanished"}) \cup {"save"}
         /\ run' \in [Launches -> Run] /\ \A k \in Launches \ {l} : run'[k] = run[k]
         /\ \E s \in {"agent", "plugin"}, e \in Entry :
              /\ Followed(run[l], run'[l], s, e)
              /\ (UNCHANGED view /\ (e = run[l].entries[s] \/ e.kind # "none")) \/ view' = [view EXCEPT ![s] = Absent]
<1>1. run[l].pc \in Following
  BY DEF FollowsUp, ReconcileAgent, ReconcilePlugin, At, Following
<1>2. \A s \in {"agent", "plugin"} : run[l].entries[s].sourceHash \in Versions \cup {Absent}
  <2>1. run[l].entries \in [Surfaces -> Entry]
    BY DEF Types, RunsType, Run
  <2>2. QED  BY <2>1 DEF Entry, Surfaces
<1>3. (Following \cup {"save"}) \subseteq Places
  BY AllPlaces DEF Following
<1> DEFINE after == (Following \ {"vanished"}) \cup {"save"}
<1>4. CASE UNCHANGED view /\ \E pc \in after : Goto(l, pc)
  BY <1>1, <1>3, <1>4, FollowsGoing
<1>5. CASE UNCHANGED view /\ \E pc \in after, found \in Versions \cup {Absent} :
             Becomes(l, [run[l] EXCEPT !.pc = pc, !.read = found])
  BY <1>1, <1>3, <1>5, FollowsSeeing
<1>6. CASE \E pc \in after, s \in {"agent", "plugin"}, e \in Entry :
             /\ Becomes(l, [run[l] EXCEPT !.pc = pc, !.entries[s] = e, !.changed = TRUE])
             /\ (UNCHANGED view /\ e.kind # "none") \/ view' = [view EXCEPT ![s] = Absent]
  BY <1>1, <1>3, <1>6, FollowsChanging
<1>7. {"compareAgent", "removeAgent", "plugin", "pluginGone", "comparePlugin", "removePlugin", "save"} \subseteq after
  BY DEF Following
<1>8. ASSUME NEW s \in {"agent", "plugin"}, NEW there \in after, NEW next \in after,
             LooksGone(l, s, there, next)
      PROVE  UNCHANGED view /\ \E pc \in after : Goto(l, pc)
  BY <1>8 DEF LooksGone, files
<1>9. ASSUME NEW s \in {"agent", "plugin"}, NEW remove \in after, NEW next \in after,
             CompareImport(l, s, remove, next)
      PROVE  \/ UNCHANGED view /\ \E pc \in after : Goto(l, pc)
             \/ UNCHANGED view /\ \E pc \in after, found \in Versions \cup {Absent} :
                  Becomes(l, [run[l] EXCEPT !.pc = pc, !.read = found])
             \/ /\ Becomes(l, [run[l] EXCEPT !.pc = next, !.entries[s] = ViewOwned, !.changed = TRUE])
                /\ UNCHANGED view
  BY <1>2, <1>9 DEF CompareImport, files
<1>10. NoEntry \in Entry /\ ViewOwned \in Entry /\ ViewOwned.kind # "none"
  BY Values DEF ViewOwned
<1>11. ASSUME NEW s \in {"agent", "plugin"}, NEW next \in after, RemoveImport(l, s, next)
       PROVE  /\ Becomes(l, [run[l] EXCEPT !.pc = next, !.entries[s] = NoEntry, !.changed = TRUE])
              /\ view' = [view EXCEPT ![s] = Absent]
  BY <1>11 DEF RemoveImport
<1> HIDE DEF after
<1>12. CASE ReconcileAgent(l)
  <2>1. CASE LooksGone(l, "agent", "compareAgent", "plugin")
    BY <1>4, <1>7, <1>8, <2>1 DEF after
  <2>2. CASE CompareImport(l, "agent", "removeAgent", "plugin")
    <3>1. CASE UNCHANGED view /\ \E pc \in after : Goto(l, pc)
      BY <1>4, <3>1 DEF after
    <3>2. CASE UNCHANGED view /\ \E pc \in after, found \in Versions \cup {Absent} :
                 Becomes(l, [run[l] EXCEPT !.pc = pc, !.read = found])
      BY <1>5, <3>2 DEF after
    <3>3. CASE /\ Becomes(l, [run[l] EXCEPT !.pc = "plugin", !.entries["agent"] = ViewOwned, !.changed = TRUE])
               /\ UNCHANGED view
      BY <1>6, <1>7, <1>10, <3>3 DEF after
    <3>4. QED  BY <1>7, <1>9, <2>2, <3>1, <3>2, <3>3
  <2>3. CASE RemoveImport(l, "agent", "plugin")
    BY <1>6, <1>7, <1>10, <1>11, <2>3 DEF after
  <2>4. QED  BY <1>12, <2>1, <2>2, <2>3 DEF ReconcileAgent
<1>13. CASE ReconcilePlugin(l)
  <2>1. CASE LooksGone(l, "plugin", "comparePlugin", "save")
    BY <1>4, <1>7, <1>8, <2>1 DEF after
  <2>2. CASE CompareImport(l, "plugin", "removePlugin", "save")
    <3>1. CASE UNCHANGED view /\ \E pc \in after : Goto(l, pc)
      BY <1>4, <3>1 DEF after
    <3>2. CASE UNCHANGED view /\ \E pc \in after, found \in Versions \cup {Absent} :
                 Becomes(l, [run[l] EXCEPT !.pc = pc, !.read = found])
      BY <1>5, <3>2 DEF after
    <3>3. CASE /\ Becomes(l, [run[l] EXCEPT !.pc = "save", !.entries["plugin"] = ViewOwned, !.changed = TRUE])
               /\ UNCHANGED view
      BY <1>6, <1>7, <1>10, <3>3 DEF after
    <3>4. QED  BY <1>7, <1>9, <2>2, <3>1, <3>2, <3>3
  <2>3. CASE RemoveImport(l, "plugin", "save")
    BY <1>6, <1>7, <1>10, <1>11, <2>3 DEF after
  <2>4. CASE (Goto(l, "pluginGone") \/ Goto(l, "save")) /\ UNCHANGED files
    BY <1>4, <1>7, <2>4 DEF after, files
  <2>5. QED  BY <1>13, <2>1, <2>2, <2>3, <2>4 DEF ReconcilePlugin
<1>14. QED  BY <1>12, <1>13 DEF FollowsUp

\* And nothing else.
LEMMA FollowsOnly ==
  ASSUME NEW l \in Launches, FollowsUp(l)
  PROVE  UNCHANGED <<layout, native, settings, newer, records, faults>>
BY DEF FollowsUp, ReconcileAgent, ReconcilePlugin, LooksGone, CompareImport, RemoveImport, files

LEMMA FreshRun ==
  ASSUME Types, NEW l \in Launches, NEW pc \in Places, Becomes(l, [NewRun EXCEPT !.pc = pc])
  PROVE  /\ run' \in [Launches -> Run] /\ run'[l].pc = pc
         /\ \A k \in Launches \ {l} : run'[k] = run[k]
<1>1. [NewRun EXCEPT !.pc = pc] \in Run /\ [NewRun EXCEPT !.pc = pc].pc = pc
  BY Values DEF Run
<1>2. QED  BY <1>1, Becoming DEF Types, RunsType

\* A refresh makes the view's directory, and moves none.
LEMMA RefreshLayout ==
  ASSUME NEW l \in Launches, Refresh(l)
  PROVE  UNCHANGED dirs \/ MakeDirs(ViewPath(l))
BY FollowsOnly DEF Refresh, TakeLock, GiveUpOnLock, ReadRecords, ReadSettings, WriteSettings, LookAtAgent, CopyAgent,
   PlaceAgent, FollowsUp, ReadPlugin, WritePlugin, SaveManifest, Unlock, layout

LEMMA RefreshTypes ==
  ASSUME Types, NEW l \in Launches, Refresh(l), UNCHANGED child
  PROVE  Types'
<1>0. run \in [Launches -> Run] /\ faults \in [edits : Nat, child : Nat, crashes : Nat, unlocked : BOOLEAN]
  BY DEF Types, RunsType
<1>1. run' \in [Launches -> Run]
  <2>1. CASE \E pc \in Places : Goto(l, pc)
    BY <1>0, <2>1, Going
  <2>2. CASE TakeLock(l) \/ ReadRecords(l) \/ ReadSettings(l)
    BY <2>2, TakeLockRun, ReadRecordsRun, ReadSettingsRun
  <2>3. CASE WriteSettings(l) \/ PlaceAgent(l) \/ WritePlugin(l) \/ ReadPlugin(l)
    BY <2>3, WriteSettingsRun, PlaceAgentRun, WritePluginRun, ReadPluginRun
  <2>4. CASE CopyAgent(l) /\ native["agent"] # Absent
    BY <2>4, CopyAgentRun
  <2>5. CASE FollowsUp(l)
    BY <2>5, FollowsRun
  <2>6. CASE Unlock(l)
    BY <2>6, AllPlaces, FreshRun DEF Unlock
  <2>7. QED
    BY <2>1, <2>2, <2>3, <2>4, <2>5, <2>6, AllPlaces DEF Refresh, GiveUpOnLock, LookAtAgent, CopyAgent,
         FollowsUp, SaveManifest
<1>2. faults' \in [edits : Nat, child : Nat, crashes : Nat, unlocked : BOOLEAN]
  BY <1>0, FollowsOnly DEF Refresh, TakeLock, GiveUpOnLock, ReadRecords, ReadSettings, WriteSettings, LookAtAgent,
         CopyAgent, PlaceAgent, FollowsUp, ReadPlugin, WritePlugin, SaveManifest, Unlock
<1>3. RunsType'
  BY <1>1, <1>2 DEF Types, RunsType
<1>4. FilesType'
  <2>1. CASE UNCHANGED files
    BY <2>1, KeptFiles DEF Types
  <2>2. /\ run[l].read \in Versions \cup {Absent} /\ run[l].previous \in Settings
        /\ run[l].current \in BOOLEAN
    BY <1>0 DEF Run
  <2>3. CASE WriteSettings(l)
    <3>1. run[l].read # Absent => Composed(run[l].read, run[l].previous) \in Settings
      BY <2>2 DEF Composed, Settings
    <3>2. Stripped(run[l].previous) \in Settings
      BY <2>2 DEF Stripped, Settings
    <3>3. QED  BY <2>3, <3>1, <3>2 DEF WriteSettings, Types, FilesType
  <2>4. CASE PlaceAgent(l)
    BY <2>2, <2>4 DEF PlaceAgent, Types, FilesType
  <2>5. CASE WritePlugin(l)
    BY <2>2, <2>5 DEF WritePlugin, Projection, Types, FilesType
  <2>6. CASE FollowsUp(l)
    <3>1. UNCHANGED <<native, settings, newer>>
      BY <2>6, FollowsOnly
    <3>2. UNCHANGED view \/ \E s \in {"agent", "plugin"} : view' = [view EXCEPT ![s] = Absent]
      BY <2>6, FollowsRun
    <3>3. QED  BY <3>1, <3>2 DEF Types, FilesType
  <2>7. QED
    BY <2>1, <2>3, <2>4, <2>5, <2>6 DEF Refresh, TakeLock, GiveUpOnLock, ReadRecords, ReadSettings, LookAtAgent,
         CopyAgent, ReadPlugin, SaveManifest, Unlock, FollowsUp
<1>5. RecordsType'
  <2>1. CASE UNCHANGED records
    BY <2>1, KeptRecords DEF Types
  <2>2. CASE TakeLock(l)
    BY <2>2 DEF TakeLock, Types, RecordsType
  <2>3. CASE SaveManifest(l)
    <3>1. run[l].entries \in [Surfaces -> Entry]
      BY <1>0 DEF Run
    <3>2. QED  BY <2>3, <3>1 DEF SaveManifest, Types, RecordsType
  <2>4. CASE Unlock(l)
    BY <2>4 DEF Unlock, Types, RecordsType
  <2>5. QED
    BY <2>1, <2>2, <2>3, <2>4, FollowsOnly DEF Refresh, GiveUpOnLock, ReadRecords, ReadSettings, WriteSettings,
         LookAtAgent, CopyAgent, PlaceAgent, ReadPlugin, WritePlugin, FollowsUp
<1>6. LayoutType'
  <2>1. CASE UNCHANGED dirs
    BY <2>1 DEF Types, LayoutType
  <2>2. CASE MakeDirs(ViewPath(l))
    BY <2>2, Paths, Made DEF Types, LayoutType
  <2>3. QED  BY <2>1, <2>2, RefreshLayout
<1>7. QED  BY <1>3, <1>4, <1>5, <1>6 DEF Types

LEMMA LaunchTypes ==
  ASSUME Types, NEW l \in Launches,
         \/ Acquire(l) \/ LaunchRefused(l) \/ PreparationFails(l) \/ Spawn(l) \/ SpawnFails(l) \/ ForceStop(l)
         \/ Closed(l) \/ ChildExits(l) \/ Dies(l) \/ Again(l) \/ (\E s \in Signals : Signal(l, s))
  PROVE  Types'
<1>1. UNCHANGED <<dirs, files, records>>
  BY DEF layout, Acquire, Start, LaunchRefused, PreparationFails, Spawn, SpawnFails, ForceStop, Closed, ChildExits,
         Dies, Again, Signal, Ends, overlayVars
<1>2. run \in [Launches -> Run]
  BY DEF Types, RunsType
<1>3. run' \in [Launches -> Run]
  <2>1. CASE Ends(l)
    BY <2>1, AllPlaces, FreshRun DEF Ends
  <2>2. CASE \E pc \in Places : Goto(l, pc)
    BY <1>2, <2>2, Going
  <2>3. CASE UNCHANGED run
    BY <1>2, <2>3
  <2>4. QED
    BY <2>1, <2>2, <2>3, AllPlaces DEF Acquire, Start, LaunchRefused, PreparationFails, Spawn, SpawnFails, ForceStop,
         Closed, ChildExits, Dies, Again, Signal, overlayVars
<1>4. child' \in [Launches -> {"none", "running", "exited"}]
  BY DEF Types, RunsType, Acquire, Start, LaunchRefused, PreparationFails, Spawn, SpawnFails, ForceStop, Closed,
         ChildExits, Dies, Again, Signal, launch
<1>5. faults' \in [edits : Nat, child : Nat, crashes : Nat, unlocked : BOOLEAN]
  BY DEF Types, RunsType, Acquire, Start, LaunchRefused, PreparationFails, Spawn, SpawnFails, ForceStop, Closed,
         ChildExits, Dies, Again, Signal, Ends, overlayVars
<1>6. QED  BY <1>1, <1>3, <1>4, <1>5, KeptFiles, KeptRecords DEF Types, RunsType, LayoutType

LEMMA ClaudeTypes ==
  ASSUME Types, NEW l \in Launches, NEW s \in Written, ClaudeWrites(l, s)
  PROVE  Types'
<1>1. [settings EXCEPT !.model = "rly", !.extra = TRUE] \in Settings
  BY DEF Settings, Types, FilesType
<1>2. FilesType'
  BY <1>1 DEF Types, FilesType, ClaudeWrites
<1>3. RunsType'
  BY DEF Types, RunsType, ClaudeWrites, launch
<1>4. QED  BY <1>2, <1>3, KeptRecords DEF Types, LayoutType, layout, ClaudeWrites

LEMMA EditTypes ==
  ASSUME Types, NEW s \in Surfaces, NEW v \in Versions \cup {Absent}, NativeEdit(s, v), UNCHANGED launch
  PROVE  Types'
<1>1. FilesType'
  BY DEF Types, FilesType, NativeEdit
<1>2. RunsType'
  <2>1. \A k \in Launches : run[k] \in Run /\ [run[k] EXCEPT !.current = FALSE] \in Run
    <3>1. run \in [Launches -> Run]
      BY DEF Types, RunsType
    <3>2. QED  BY <3>1 DEF Run
  <2>2. run' \in [Launches -> Run]
    BY <2>1 DEF NativeEdit
  <2>3. QED  BY <2>2 DEF Types, RunsType, NativeEdit, launch
<1>3. QED  BY <1>1, <1>2, KeptRecords DEF Types, LayoutType, layout, NativeEdit

LEMMA TypesStep ==
  ASSUME Types, [LaunchNext]_launchVars
  PROVE  Types'
<1>1. ASSUME NEW l \in Launches, Migrate(l) \/ Refresh(l), UNCHANGED launch  PROVE Types'
  BY <1>1, MigrateTypes, RefreshTypes DEF launch
<1>2. CASE UNCHANGED launchVars
  BY <1>2, KeptFiles, KeptRecords DEF Types, RunsType, LayoutType, layout, launchVars, overlayVars, launch
<1>3. QED  BY <1>1, <1>2, LaunchTypes, ClaudeTypes, EditTypes DEF LaunchNext, Step

-----------------------------------------------------------------------------
(* The copied files. *)

\* A step of one launch is nobody else's.
LaunchMoves(l) ==
  \/ (Migrate(l) \/ Refresh(l)) /\ UNCHANGED launch
  \/ Acquire(l) \/ LaunchRefused(l) \/ PreparationFails(l) \/ Spawn(l) \/ SpawnFails(l) \/ ForceStop(l) \/ Closed(l)
  \/ ChildExits(l) \/ Dies(l) \/ Again(l) \/ \E s \in Signals : Signal(l, s)

LEMMA Sorts ==
  ASSUME [LaunchNext]_launchVars
  PROVE  \/ \E l \in Launches : LaunchMoves(l)
         \/ \E l \in Launches, s \in Written : ClaudeWrites(l, s)
         \/ \E s \in Surfaces, v \in Versions \cup {Absent} : NativeEdit(s, v) /\ UNCHANGED launch
         \/ UNCHANGED launchVars
<1>1. ASSUME NEW l \in Launches, Step(l)  PROVE LaunchMoves(l)
  BY <1>1 DEF Step, LaunchMoves
<1>2. ASSUME NEW l \in Launches,
             Acquire(l) \/ ChildExits(l) \/ Dies(l) \/ Again(l) \/ \E s \in Signals : Signal(l, s)
      PROVE  LaunchMoves(l)
  BY <1>2 DEF LaunchMoves
<1>3. QED  BY <1>1, <1>2 DEF LaunchNext

LEMMA Others ==
  ASSUME Types, NEW l \in Launches, LaunchMoves(l), NEW k \in Launches \ {l}
  PROVE  run'[k] = run[k]
<1>0. run \in [Launches -> Run]
  BY DEF Types, RunsType
<1>1. CASE \E pc \in Places : Goto(l, pc)
  BY <1>0, <1>1, Going
<1>2. CASE \E pc \in Places : Becomes(l, [NewRun EXCEPT !.pc = pc])
  BY <1>2, FreshRun
<1>3. CASE UNCHANGED run
  BY <1>3
<1>4. CASE FollowsUp(l)
  BY <1>4, FollowsRun
<1>5. CASE Refresh(l)
  BY <1>1, <1>2, <1>4, <1>5, AllPlaces, TakeLockRun, ReadRecordsRun, ReadSettingsRun, WriteSettingsRun, CopyAgentRun,
     PlaceAgentRun, ReadPluginRun, WritePluginRun
     DEF Refresh, GiveUpOnLock, LookAtAgent, CopyAgent, FollowsUp, SaveManifest, Unlock
<1>6. CASE Migrate(l)
  BY <1>6, MigrateRun
<1>7. QED
  BY <1>1, <1>2, <1>3, <1>5, <1>6, AllPlaces DEF LaunchMoves, Acquire, Start, LaunchRefused, PreparationFails, Spawn,
     SpawnFails, ForceStop, Closed, ChildExits, Dies, Again, Signal, Ends, overlayVars

\* The steps of a launch, apart from the file operations of its refresh.
LEMMA Elsewhere ==
  ASSUME Types, NEW l \in Launches, LaunchMoves(l)
  PROVE  \/ Refresh(l)
         \/ UNCHANGED <<files, records>> /\ (run'[l].pc \notin Refreshing \/ UNCHANGED run)
<1>0. run \in [Launches -> Run]
  BY DEF Types, RunsType
<1>1. ASSUME NEW pc \in Places \ Refreshing, Goto(l, pc)
      PROVE  run'[l].pc \notin Refreshing
  BY <1>0, <1>1, Going
<1>2. ASSUME NEW pc \in Places \ Refreshing, Becomes(l, [NewRun EXCEPT !.pc = pc])
      PROVE  run'[l].pc \notin Refreshing
  BY <1>2, FreshRun
<1>3. CASE Migrate(l)
  <2>1. run'[l].pc \notin Refreshing
    BY <1>3, MigrateRun DEF Moving, Refreshing
  <2>2. QED
    BY <1>3, <2>1 DEF Migrate, LookForLegacy, LookForStaging, LookForDefault, LookForViews, MoveOut, MakeViews, MoveIn
<1>4. CASE Acquire(l) \/ LaunchRefused(l) \/ PreparationFails(l) \/ Spawn(l) \/ SpawnFails(l) \/ Closed(l) \/ Dies(l)
           \/ Again(l)
  BY <1>1, <1>2, <1>4, AllPlaces DEF Acquire, Start, LaunchRefused, PreparationFails, Spawn, SpawnFails, Closed,
     Dies, Again, Ends, Refreshing
<1>5. CASE ForceStop(l) \/ ChildExits(l) \/ \E s \in Signals : Signal(l, s)
  BY <1>1, <1>5, AllPlaces DEF ForceStop, ChildExits, Signal, overlayVars, Refreshing
<1>6. QED
  BY <1>3, <1>4, <1>5 DEF LaunchMoves

\* A copy is in hand only of a file that was there when it was made.
LEMMA CopyingStep ==
  ASSUME Types, CopiesInv, NEW l \in Launches, LaunchMoves(l)
  PROVE  CopiesInv'
<1> DEFINE source == native["agent"]
<1>0. run \in [Launches -> Run] /\ run[l] \in Run /\ Copying(run[l], source)
  BY DEF Types, RunsType, CopiesInv
<1>1. UNCHANGED native
  BY FollowsOnly DEF LaunchMoves, Acquire, Start, Migrate, LookForLegacy, LookForStaging, LookForDefault, LookForViews,
     MoveOut, MakeViews, MoveIn, Refresh, TakeLock, GiveUpOnLock, ReadRecords, ReadSettings, WriteSettings, LookAtAgent,
     CopyAgent, PlaceAgent, ReadPlugin, WritePlugin, FollowsUp, SaveManifest, Unlock,
     LaunchRefused, PreparationFails, Spawn, SpawnFails, ForceStop, Closed, ChildExits, Dies, Again,
     Signal, Ends, overlayVars, files
<1>2. Copying(run'[l], source)
  <2>1. CASE run'[l].pc \notin {"placeAgent", "writePlugin"}
    BY <2>1 DEF Copying
  <2>2. CASE UNCHANGED run
    BY <1>0, <2>2
  <2>3. CASE CopyAgent(l) /\ native["agent"] # Absent
    BY <2>3, CopyAgentRun DEF Copying
  <2>4. CASE ReadPlugin(l)
    BY <2>4, ReadPluginRun DEF Copying, ReadPlugin
  <2>5. ASSUME NEW pc \in Places \ {"placeAgent", "writePlugin"}, Goto(l, pc)
        PROVE  Copying(run'[l], source)
    BY <1>0, <2>5, Going DEF Copying
  <2>6. CASE FollowsUp(l)
    BY <2>1, <2>6, FollowsRun DEF Following
  <2>7. CASE Refresh(l)
    <3>1. CASE TakeLock(l) \/ ReadRecords(l) \/ ReadSettings(l) \/ WriteSettings(l) \/ PlaceAgent(l) \/ WritePlugin(l)
      BY <2>1, <3>1, TakeLockRun, ReadRecordsRun, ReadSettingsRun, WriteSettingsRun, PlaceAgentRun, WritePluginRun
    <3>2. CASE Unlock(l)
      BY <2>1, <3>2, AllPlaces, FreshRun DEF Unlock
    <3>3. CASE GiveUpOnLock(l) \/ LookAtAgent(l) \/ SaveManifest(l)
      <4>1. Goto(l, "records") \/ Goto(l, "copyAgent") \/ Goto(l, "vanished") \/ Goto(l, "unlock")
        BY <3>3 DEF GiveUpOnLock, LookAtAgent, SaveManifest
      <4>2. QED  BY <2>5, <4>1, AllPlaces
    <3>4. CASE CopyAgent(l)
      <4>1. CASE native["agent"] = Absent
        BY <2>5, <3>4, <4>1, AllPlaces DEF CopyAgent
      <4>2. QED  BY <2>3, <3>4, <4>1
    <3>5. QED  BY <2>4, <2>6, <2>7, <3>1, <3>2, <3>3, <3>4 DEF Refresh, FollowsUp
  <2>8. QED  BY <2>1, <2>2, <2>7, Elsewhere DEF Refreshing
<1>3. \A k \in Launches : Copying(run'[k], source)
  BY <1>2, Others DEF CopiesInv
<1>4. CopiesConverge'
  <2>1. CASE UNCHANGED files \/ UNCHANGED <<view, newer>>
    BY <1>1, <2>1 DEF CopiesConverge, NeedsRefresh, CopiesInv, files
  <2>2. CASE PlaceAgent(l)
    <3>1. view'["agent"] = run[l].read /\ newer'["agent"] = ~run[l].current /\ run[l].pc = "placeAgent"
      BY <2>2 DEF PlaceAgent, At, Types, FilesType, Surfaces
    <3>2. QED  BY <1>0, <1>1, <3>1 DEF Copying, CopiesConverge, NeedsRefresh
  <2>3. CASE WriteSettings(l) \/ WritePlugin(l)
    BY <1>1, <2>3 DEF WriteSettings, WritePlugin, CopiesConverge, NeedsRefresh, CopiesInv, Types, FilesType, Surfaces
  <2>4. CASE FollowsUp(l)
    <3>1. UNCHANGED <<native, newer>>
      BY <2>4, FollowsOnly
    <3>2. view'["agent"] \in {view["agent"], Absent}
      <4>1. UNCHANGED view \/ \E s \in {"agent", "plugin"} : view' = [view EXCEPT ![s] = Absent]
        BY <2>4, FollowsRun
      <4>2. QED  BY <4>1 DEF Types, FilesType
    <3>3. QED  BY <3>1, <3>2 DEF CopiesInv, CopiesConverge, NeedsRefresh
  <2>5. CASE Refresh(l)
    BY <2>1, <2>2, <2>3, <2>4, <2>5 DEF Refresh, TakeLock, GiveUpOnLock, ReadRecords, ReadSettings, LookAtAgent,
       CopyAgent, ReadPlugin, SaveManifest, Unlock, FollowsUp
  <2>6. QED  BY <2>1, <2>5, Elsewhere
<1>5. QED  BY <1>1, <1>3, <1>4 DEF CopiesInv

LEMMA CopiesStep ==
  ASSUME Types, CopiesInv, [LaunchNext]_launchVars
  PROVE  CopiesInv'
<1>1. ASSUME NEW l \in Launches, NEW s \in Written, ClaudeWrites(l, s)  PROVE CopiesInv'
  BY <1>1 DEF ClaudeWrites, CopiesInv, CopiesConverge, NeedsRefresh, Types, FilesType
<1>2. ASSUME NEW s \in Surfaces, NEW v \in Versions \cup {Absent}, NativeEdit(s, v)  PROVE CopiesInv'
  <2>1. CopiesConverge'
    BY <1>2 DEF NativeEdit, CopiesInv, CopiesConverge, NeedsRefresh, Types, FilesType, Surfaces
  <2>2. ASSUME NEW k \in Launches  PROVE Copying(run'[k], native'["agent"])
    <3>1. run[k] \in Run /\ Copying(run[k], native["agent"])
      BY DEF Types, RunsType, CopiesInv
    <3>2. CASE s # "agent"
      BY <1>2, <3>1, <3>2 DEF NativeEdit, Types, FilesType
    <3>3. CASE s = "agent"
      <4>1. run'[k] = [run[k] EXCEPT !.current = FALSE]
        BY <1>2, <3>3 DEF NativeEdit
      <4>2. QED  BY <3>1, <4>1 DEF Copying, Run
    <3>4. QED  BY <3>2, <3>3
  <2>3. QED  BY <2>1, <2>2 DEF CopiesInv
<1>3. CASE UNCHANGED launchVars
  BY <1>3 DEF CopiesInv, CopiesConverge, NeedsRefresh, launchVars, overlayVars, files
<1>4. QED  BY <1>1, <1>2, <1>3, CopyingStep, Sorts

\* What Claude made of a file is replaced by the user's next version, or kept,
\* or goes by the hand of a launch that saw what was imported.
LEMMA EditsStep ==
  ASSUME Types, CopiesInv, [LaunchNext]_launchVars,
         NEW s \in {"agent", "plugin"}, view[s] = "mine", view'[s] = Absent
  PROVE  \E l \in Launches : Removing(l, s) /\ run[l].read # "mine"
<1>0. view[s] # Absent
  BY DEF Absent
<1>1. CASE UNCHANGED view
  BY <1>0, <1>1
<1>2. ASSUME NEW l \in Launches, NEW t \in Written, ClaudeWrites(l, t)  PROVE FALSE
  BY <1>2 DEF ClaudeWrites, Types, FilesType, Absent
<1>3. ASSUME NEW l \in Launches, FollowsUp(l), view' # view
      PROVE  Removing(l, s) /\ run[l].read # "mine"
  <2>1. run[l].read # "mine"
    <3>1. run[l].read \in Versions \cup {Absent}
      BY DEF Types, RunsType, Run
    <3>2. QED  BY <3>1, OverlayAssumption DEF Absent
  <2>2. CASE At(l, "removeAgent") /\ RemoveImport(l, "agent", "plugin")
    BY <1>0, <2>1, <2>2 DEF RemoveImport, Removing, Types, FilesType
  <2>3. CASE At(l, "removePlugin") /\ RemoveImport(l, "plugin", "save")
    BY <1>0, <2>1, <2>3 DEF RemoveImport, Removing, Types, FilesType
  <2>4. QED
    BY <1>3, <2>2, <2>3 DEF FollowsUp, ReconcileAgent, ReconcilePlugin, LooksGone, CompareImport, files
<1>4. ASSUME NEW l \in Launches, Refresh(l)
      PROVE  \E m \in Launches : Removing(m, s) /\ run[m].read # "mine"
  <2>1. CASE PlaceAgent(l)
    BY <1>0, <2>1 DEF PlaceAgent, At, CopiesInv, Copying, Types, FilesType
  <2>2. CASE WritePlugin(l)
    BY <1>0, <2>2 DEF WritePlugin, At, CopiesInv, Copying, Projection, Types, FilesType, Absent
  <2>3. CASE FollowsUp(l)
    BY <1>1, <1>3, <2>3
  <2>4. QED
    BY <1>1, <1>4, <2>1, <2>2, <2>3 DEF Refresh, TakeLock, GiveUpOnLock, ReadRecords, ReadSettings, WriteSettings,
       LookAtAgent, CopyAgent, ReadPlugin, SaveManifest, Unlock, FollowsUp, files
<1>5. ASSUME NEW l \in Launches, LaunchMoves(l)
      PROVE  \E m \in Launches : Removing(m, s) /\ run[m].read # "mine"
  BY <1>1, <1>4, <1>5, Elsewhere DEF files
<1>6. QED
  BY <1>1, <1>2, <1>5, Sorts DEF NativeEdit, launchVars, overlayVars, files

-----------------------------------------------------------------------------
(* The ownership manifest. *)

\* Under the lock, only its holder's step matters.
LEMMA Alone ==
  ASSUME Types, TracksInv, Intact, NEW l \in Launches, run[l].pc \in Refreshing,
         \A k \in Launches \ {l} : run'[k] = run[k],
         lock' = lock, RunTracks(run'[l], manifest'.entries, view')
  PROVE  TracksInv'
<1>1. lock = l /\ l # NoLaunch
  BY OverlayAssumption DEF TracksInv
<1>2. \A k \in Launches \ {l} : run[k].pc \notin Refreshing
  BY <1>1 DEF TracksInv
<1>3. \A k \in Launches \ {l} : RunTracks(run'[k], manifest'.entries, view')
  BY <1>2 DEF RunTracks, Refreshing
<1>4. QED  BY <1>1, <1>2, <1>3 DEF TracksInv

\* An entry for the file just written, and the others as they were.
LEMMA EntryKept ==
  ASSUME Types, NEW entries \in [Surfaces -> Entry], Tracks(entries, view),
         NEW s \in {"agent", "plugin"}, NEW e \in Entry, e.kind # "none" \/ view'[s] = Absent,
         \A t \in {"agent", "plugin"} \ {s} : view'[t] = view[t]
  PROVE  Tracks([entries EXCEPT ![s] = e], view')
BY DEF Tracks, Surfaces

LEMMA RefreshTracks ==
  ASSUME Types, TracksInv, NEW l \in Launches, Refresh(l), Intact, Intact',
         \A k \in Launches \ {l} : run'[k] = run[k]
  PROVE  TracksInv'
<1>0. /\ run \in [Launches -> Run] /\ run[l] \in Run
      /\ run[l].entries \in [Surfaces -> Entry] /\ run[l].changed \in BOOLEAN
      /\ RunTracks(run[l], manifest.entries, view)
      /\ lock = NoLaunch => Tracks(manifest.entries, view)
      /\ native \in [Surfaces -> Versions \cup {Absent}]
  BY DEF Types, RunsType, FilesType, Run, TracksInv
<1>1. CASE TakeLock(l)
  <2>1. run'[l].pc = "records" /\ lock = NoLaunch /\ lock' = l /\ UNCHANGED <<manifest, view>>
    BY <1>1, TakeLockRun DEF TakeLock, files
  <2>2. RunTracks(run'[l], manifest'.entries, view')
    BY <1>0, <2>1 DEF RunTracks
  <2>3. \A k \in Launches \ {l} : run[k].pc \notin Refreshing
    BY <2>1, OverlayAssumption DEF TracksInv
  <2>4. \A k \in Launches \ {l} : RunTracks(run'[k], manifest'.entries, view')
    BY <2>3 DEF RunTracks, Refreshing
  <2>5. QED  BY <2>1, <2>2, <2>3, <2>4, OverlayAssumption DEF TracksInv
<1>2. CASE GiveUpOnLock(l)
  BY <1>2 DEF GiveUpOnLock, Intact, Types, RunsType
<1>3. CASE ReadRecords(l)
  <2>1. run[l].pc = "records" /\ UNCHANGED <<manifest, view, lock>>
    BY <1>3 DEF ReadRecords, At, files, records
  <2>2. RunTracks(run'[l], manifest'.entries, view')
    BY <1>0, <1>3, <2>1, ReadRecordsRun DEF RunTracks, Refreshing
  <2>3. QED  BY <2>1, <2>2, Alone DEF Refreshing
<1>4. CASE ReadSettings(l) \/ WriteSettings(l) \/ ReadPlugin(l)
  <2>1. run[l].pc \in {"settings", "writeSettings", "plugin"} /\ UNCHANGED <<manifest, view, lock>>
    BY <1>4 DEF ReadSettings, WriteSettings, ReadPlugin, At, files, records
  <2>2. run'[l].pc \in {"writeSettings", "agent", "writePlugin", "save"}
    BY <1>4, ReadSettingsRun, WriteSettingsRun, ReadPluginRun
  <2>3. /\ run'[l].changed \/ (run'[l].entries = run[l].entries /\ run'[l].changed = run[l].changed)
        /\ \A s \in {"agent", "plugin"} : run'[l].entries[s] = run[l].entries[s]
    BY <1>4, ReadSettingsRun, WriteSettingsRun, ReadPluginRun
  <2>4. RunTracks(run'[l], manifest'.entries, view')
    BY <1>0, <2>1, <2>2, <2>3 DEF RunTracks, Tracks, Refreshing
  <2>5. QED  BY <2>1, <2>4, Alone DEF Refreshing
<1>5. CASE LookAtAgent(l)
  <2>1. run[l].pc = "agent" /\ UNCHANGED <<manifest, view, lock>> /\ \E pc \in {"copyAgent", "vanished"} : Goto(l, pc)
    BY <1>5 DEF LookAtAgent, At, files, records
  <2>2. run'[l].pc \in {"copyAgent", "vanished"} /\ run'[l].entries = run[l].entries /\ run'[l].changed = run[l].changed
    BY <1>0, <2>1, Going, AllPlaces
  <2>3. RunTracks(run'[l], manifest'.entries, view')
    BY <1>0, <2>1, <2>2 DEF RunTracks, Refreshing
  <2>4. QED  BY <2>1, <2>3, Alone DEF Refreshing
<1>6. CASE CopyAgent(l)
  <2>1. run[l].pc = "copyAgent" /\ UNCHANGED <<manifest, view, lock>>
    BY <1>6 DEF CopyAgent, At, files, records
  <2>2. run'[l].pc = "failed" \/ (run'[l].pc = "placeAgent" /\ run'[l].entries = run[l].entries /\ run'[l].changed = run[l].changed)
    BY <1>0, <1>6, Going, CopyAgentRun, AllPlaces DEF CopyAgent
  <2>3. RunTracks(run'[l], manifest'.entries, view')
    BY <1>0, <2>1, <2>2 DEF RunTracks, Refreshing
  <2>4. QED  BY <2>1, <2>3, Alone DEF Refreshing
<1>7. CASE PlaceAgent(l) \/ WritePlugin(l)
  <2>1. PICK s \in {"agent", "plugin"} :
          /\ run[l].pc = IF s = "agent" THEN "placeAgent" ELSE "writePlugin"
          /\ run'[l].pc \in {"vanished", "save"} /\ run'[l].changed
          /\ run'[l].entries = [run[l].entries EXCEPT ![s] = Imported(native[s])]
          /\ UNCHANGED <<manifest, lock>>
          /\ \A t \in {"agent", "plugin"} \ {s} : view'[t] = view[t]
    <3>1. CASE PlaceAgent(l)
      BY <3>1, PlaceAgentRun DEF PlaceAgent, At, records, Types, FilesType
    <3>2. CASE WritePlugin(l)
      BY <3>2, WritePluginRun DEF WritePlugin, At, records, Types, FilesType
    <3>3. QED  BY <1>7, <3>1, <3>2
  <2>2. Imported(native[s]) \in Entry /\ Imported(native[s]).kind # "none"
    BY <1>0, Values DEF Imported, Surfaces
  <2>3. Tracks(run[l].entries, view)
    BY <1>0, <2>1 DEF RunTracks, Refreshing
  <2>4. Tracks(run'[l].entries, view')
    BY <1>0, <2>1, <2>2, <2>3, EntryKept
  <2>5. RunTracks(run'[l], manifest'.entries, view')
    BY <2>1, <2>4 DEF RunTracks, Refreshing
  <2>6. QED  BY <2>1, <2>5, Alone DEF Refreshing
<1>8. CASE FollowsUp(l)
  <2>1. run[l].pc \in Following /\ run'[l].pc \in (Following \ {"vanished"}) \cup {"save"}
    BY <1>8, FollowsRun
  <2>2. UNCHANGED <<manifest, lock>>
    BY <1>8, FollowsOnly DEF records
  <2>3. Tracks(run[l].entries, view) /\ (run[l].changed \/ run[l].entries = manifest.entries)
    BY <1>0, <2>1 DEF RunTracks, Refreshing, Following
  <2>4. PICK s \in {"agent", "plugin"}, e \in Entry :
          /\ Followed(run[l], run'[l], s, e)
          /\ (UNCHANGED view /\ (e = run[l].entries[s] \/ e.kind # "none")) \/ view' = [view EXCEPT ![s] = Absent]
    BY <1>8, FollowsRun
  <2>5. run'[l].entries = [run[l].entries EXCEPT ![s] = e]
    BY <2>4 DEF Followed
  <2>6. Tracks(run'[l].entries, view')
    <3>1. CASE UNCHANGED view /\ e = run[l].entries[s]
      <4>1. run'[l].entries = run[l].entries
        BY <1>0, <2>5, <3>1
      <4>2. QED  BY <2>3, <3>1, <4>1
    <3>2. CASE UNCHANGED view /\ e.kind # "none"
      BY <1>0, <2>3, <2>5, <3>2, EntryKept
    <3>3. CASE view' = [view EXCEPT ![s] = Absent]
      <4>1. view'[s] = Absent /\ \A t \in {"agent", "plugin"} \ {s} : view'[t] = view[t]
        BY <3>3 DEF Types, FilesType
      <4>2. QED  BY <1>0, <2>3, <2>5, <4>1, EntryKept
    <3>4. QED  BY <2>4, <3>1, <3>2, <3>3
  <2>7. run'[l].changed \/ run'[l].entries = manifest'.entries
    BY <1>0, <2>2, <2>3, <2>4, <2>5 DEF Followed
  <2>8. RunTracks(run'[l], manifest'.entries, view')
    BY <2>1, <2>6, <2>7 DEF RunTracks, Refreshing, Following
  <2>9. QED  BY <2>1, <2>2, <2>8, Alone DEF Refreshing, Following
<1>9. CASE SaveManifest(l)
  <2>1. run[l].pc = "save" /\ UNCHANGED <<view, lock>> /\ run'[l].pc = "unlock"
    BY <1>0, <1>9, Going, AllPlaces DEF SaveManifest, At, files
  <2>2. manifest'.entries = run[l].entries
    BY <1>0, <1>9, <2>1 DEF SaveManifest, RunTracks, Refreshing
  <2>3. RunTracks(run'[l], manifest'.entries, view')
    BY <1>0, <2>1, <2>2 DEF RunTracks, Refreshing
  <2>4. QED  BY <2>1, <2>3, Alone DEF Refreshing
<1>10. CASE Unlock(l)
  <2>1. run[l].pc = "unlock" /\ UNCHANGED <<manifest, view>> /\ lock' \in {lock, NoLaunch} /\ run'[l].pc = "ready"
    BY <1>10, FreshRun, AllPlaces DEF Unlock, At, files
  <2>2. lock = l /\ Tracks(manifest'.entries, view')
    BY <1>0, <2>1 DEF TracksInv, RunTracks, Refreshing
  <2>3. \A k \in Launches : run'[k].pc \notin Refreshing
    BY <2>1, <2>2 DEF TracksInv, Refreshing
  <2>4. \A k \in Launches : RunTracks(run'[k], manifest'.entries, view')
    BY <2>3 DEF RunTracks, Refreshing
  <2>5. QED  BY <2>2, <2>3, <2>4 DEF TracksInv
<1>11. QED
  BY <1>1, <1>2, <1>3, <1>4, <1>5, <1>6, <1>7, <1>8, <1>9, <1>10 DEF Refresh, FollowsUp

LEMMA TracksStep ==
  ASSUME Types, TracksInv, [LaunchNext]_launchVars
  PROVE  TracksInv'
<1>1. Intact' => Intact
  <2>1. faults.crashes \in Nat /\ faults.unlocked \in BOOLEAN
    BY DEF Types, RunsType
  <2>2. faults'.crashes \in {faults.crashes, faults.crashes + 1} /\ (faults.unlocked => faults'.unlocked)
    <3>1. faults \in [edits : Nat, child : Nat, crashes : Nat, unlocked : BOOLEAN]
      BY DEF Types, RunsType
    <3>2. ASSUME NEW l \in Launches, LaunchMoves(l)
          PROVE  \/ UNCHANGED faults
                 \/ faults' = [faults EXCEPT !.unlocked = TRUE]
                 \/ faults' = [faults EXCEPT !.crashes = @ + 1]
      BY <3>2, FollowsOnly DEF LaunchMoves, Acquire, Start, Migrate, LookForLegacy, LookForStaging, LookForDefault,
         LookForViews, MoveOut, MakeViews, MoveIn, Refresh, TakeLock, GiveUpOnLock, ReadRecords, ReadSettings,
         WriteSettings, LookAtAgent, CopyAgent, PlaceAgent, FollowsUp, ReadPlugin, WritePlugin, SaveManifest, Unlock,
         LaunchRefused, PreparationFails, Spawn, SpawnFails, ForceStop, Closed, ChildExits, Dies, Again,
         Signal, Ends, overlayVars
    <3>3. \/ UNCHANGED faults
          \/ faults' = [faults EXCEPT !.unlocked = TRUE]
          \/ faults' = [faults EXCEPT !.crashes = @ + 1]
          \/ faults' = [faults EXCEPT !.child = @ + 1]
          \/ faults' = [faults EXCEPT !.edits = @ + 1]
      BY <3>2, Sorts DEF ClaudeWrites, NativeEdit, launchVars, overlayVars
    <3>4. QED  BY <3>1, <3>3
  <2>3. QED  BY <2>1, <2>2 DEF Intact
<1>2. CASE Intact /\ Intact'
  <2>1. ASSUME NEW l \in Launches, LaunchMoves(l)  PROVE TracksInv'
    <3>1. \A k \in Launches \ {l} : run'[k] = run[k]
      BY <2>1, Others
    <3>2. CASE Refresh(l)
      BY <1>2, <3>1, <3>2, RefreshTracks
    <3>3. CASE UNCHANGED <<files, records>> /\ (run'[l].pc \notin Refreshing \/ UNCHANGED run)
      <4>1. RunTracks(run'[l], manifest.entries, view) /\ (run'[l].pc \in Refreshing => lock = l)
        BY <1>2, <3>3 DEF TracksInv, RunTracks, Refreshing
      <4>2. UNCHANGED <<view, manifest, lock>>
        BY <3>3 DEF files, records
      <4>3. QED  BY <1>2, <3>1, <4>1, <4>2 DEF TracksInv
    <3>4. QED  BY <2>1, <3>2, <3>3, Elsewhere
  <2>2. ASSUME NEW l \in Launches, NEW s \in Written, ClaudeWrites(l, s)  PROVE TracksInv'
    <3>1. UNCHANGED <<manifest, lock, run>>
      BY <2>2 DEF ClaudeWrites, records
    <3>2. \A t \in {"agent", "plugin"} : view'[t] \in {view[t], "mine"}
      BY <2>2 DEF ClaudeWrites, Types, FilesType
    <3>3. ASSUME NEW e, Tracks(e, view)  PROVE Tracks(e, view')
      BY <3>2, <3>3 DEF Tracks
    <3>4. \A k \in Launches : RunTracks(run[k], manifest.entries, view')
      BY <1>2, <3>3 DEF TracksInv, RunTracks
    <3>5. QED  BY <1>2, <3>1, <3>3, <3>4 DEF TracksInv
  <2>3. ASSUME NEW s \in Surfaces, NEW v \in Versions \cup {Absent}, NativeEdit(s, v)  PROVE TracksInv'
    <3>1. UNCHANGED <<manifest, lock, view>>
      BY <2>3 DEF NativeEdit, records
    <3>2. ASSUME NEW k \in Launches
          PROVE  /\ run'[k].pc = run[k].pc /\ run'[k].entries = run[k].entries
                 /\ run'[k].changed = run[k].changed
      <4>1. run[k] \in Run
        BY DEF Types, RunsType
      <4>2. run'[k] = run[k] \/ run'[k] = [run[k] EXCEPT !.current = FALSE]
        BY <2>3 DEF NativeEdit
      <4>3. QED  BY <4>1, <4>2 DEF Run
    <3>3. \A k \in Launches : RunTracks(run'[k], manifest.entries, view)
      BY <1>2, <3>2 DEF TracksInv, RunTracks
    <3>4. QED  BY <1>2, <3>1, <3>2, <3>3 DEF TracksInv
  <2>4. CASE UNCHANGED launchVars
    BY <1>2, <2>4 DEF TracksInv, Intact, launchVars, overlayVars, files, records
  <2>5. QED  BY <2>1, <2>2, <2>3, <2>4, Sorts
<1>3. QED  BY <1>1, <1>2 DEF TracksInv

-----------------------------------------------------------------------------
(* The directories. *)

\* A step that leaves the directories alone, and nobody about to move them that
\* was not.
LEMMA DirsKept ==
  ASSUME DirsInv, dirs' = dirs,
         \A k \in Launches : run'[k].pc = "moveOut" => run[k].pc = "moveOut" /\ run'[k].looked = run[k].looked
  PROVE  DirsInv'
BY DEF DirsInv, At, IsDir

LEMMA RefreshPlaces ==
  ASSUME Types, NEW l \in Launches, Refresh(l)
  PROVE  /\ run[l].pc \in Refreshing \cup {"mkdir"}
         /\ run'[l].pc \in Refreshing \cup {"ready", "failed"}
<1>0. run \in [Launches -> Run]
  BY DEF Types, RunsType
<1>1. run[l].pc \in Refreshing \cup {"mkdir"}
  BY DEF Refresh, TakeLock, GiveUpOnLock, ReadRecords, ReadSettings, WriteSettings, LookAtAgent, CopyAgent, PlaceAgent,
     ReconcileAgent, ReadPlugin, WritePlugin, ReconcilePlugin, SaveManifest, Unlock, At, Refreshing
<1>2. ASSUME NEW pc \in Refreshing \cup {"failed"}, Goto(l, pc)
      PROVE  run'[l].pc \in Refreshing \cup {"failed"}
  BY <1>0, <1>2, Going, AllPlaces DEF Places
<1>3. CASE FollowsUp(l)
  BY <1>1, <1>3, FollowsRun DEF Refreshing, Following
<1>4. CASE GiveUpOnLock(l) \/ LookAtAgent(l) \/ SaveManifest(l)
  <2>1. \E pc \in Refreshing : Goto(l, pc)
    BY <1>4 DEF GiveUpOnLock, LookAtAgent, SaveManifest, Refreshing
  <2>2. QED  BY <1>1, <1>2, <2>1
<1>5. CASE CopyAgent(l)
  BY <1>1, <1>2, <1>5, CopyAgentRun DEF CopyAgent, Refreshing
<1>6. CASE Unlock(l)
  BY <1>1, <1>6, FreshRun, AllPlaces DEF Unlock
<1>7. QED
  BY <1>1, <1>3, <1>4, <1>5, <1>6, TakeLockRun, ReadRecordsRun, ReadSettingsRun, WriteSettingsRun, PlaceAgentRun,
     ReadPluginRun, WritePluginRun DEF Refresh, FollowsUp, Refreshing

LEMMA MigrateDirs ==
  ASSUME Types, DirsInv, NEW l \in Launches, Migrate(l)
  PROVE  DirsInv'
<1>1. ASSUME NEW m \in Launches, At(m, "moveOut")', NEW k \in Launches
      PROVE  ViewPath(k) \notin run'[m].looked
  <2>1. CASE m = l
    <3>1. run'[l].looked = dirs /\ ~IsDir(Views)
      BY <1>1, <2>1, MigrateRun DEF At
    <3>2. QED  BY <2>1, <3>1 DEF DirsInv, IsDir
  <2>2. CASE m # l
    BY <1>1, <2>2, MigrateRun DEF DirsInv, At
  <2>3. QED  BY <2>1, <2>2
<1>2. ASSUME NEW k \in Launches, ViewPath(k) \in dirs'  PROVE Views \in dirs'
  <2>1. CASE UNCHANGED dirs
    BY <1>2, <2>1 DEF DirsInv, IsDir
  <2>2. CASE Rename(Claude, Staging)
    BY <1>2, <2>2, MovedOut DEF Rename, Types, LayoutType
  <2>3. CASE CanRename(Staging, DefaultView) /\ Rename(Staging, DefaultView)
    <3>1. Views \in dirs
      BY <2>3, Parent DEF CanRename, IsDir
    <3>2. QED  BY <2>3, <3>1, MovedIn, Paths DEF Rename
  <2>4. CASE MakeDirs(Views)
    BY <2>4, Paths, Made DEF Types, LayoutType
  <2>5. QED
    BY <2>1, <2>2, <2>3, <2>4 DEF Migrate, LookForLegacy, LookForStaging, LookForDefault, LookForViews, MoveOut,
       MakeViews, MoveIn, layout
<1>3. QED  BY <1>1, <1>2 DEF DirsInv, IsDir

LEMMA DirsStep ==
  ASSUME Types, DirsInv, [LaunchNext]_launchVars
  PROVE  DirsInv'
<1>0. run \in [Launches -> Run]
  BY DEF Types, RunsType
<1>1. ASSUME NEW l \in Launches, LaunchMoves(l)  PROVE DirsInv'
  <2>1. \A k \in Launches \ {l} : run'[k] = run[k]
    BY <1>1, Others
  <2>2. CASE Migrate(l)
    BY <2>2, MigrateDirs
  <2>3. ASSUME run'[l].pc # "moveOut" \/ run'[l] = run[l], UNCHANGED dirs
        PROVE  DirsInv'
    BY <2>1, <2>3, DirsKept
  <2>4. CASE Refresh(l)
    <3>1. run'[l].pc # "moveOut"
      BY <2>4, RefreshPlaces DEF Refreshing
    <3>2. CASE MakeDirs(ViewPath(l))
      <4>1. Views \in dirs'
        BY <3>2, Paths, Made DEF Types, LayoutType
      <4>2. QED  BY <2>1, <3>1, <4>1 DEF DirsInv, At, IsDir
    <3>3. QED  BY <2>3, <2>4, <3>1, <3>2, RefreshLayout
  <2>5. CASE UNCHANGED dirs /\ (UNCHANGED run \/ \E pc \in Places \ {"moveOut"} :
                                  Goto(l, pc) \/ Becomes(l, [NewRun EXCEPT !.pc = pc]))
    BY <1>0, <2>3, <2>5, Going, FreshRun
  <2>6. {"legacy", "child", "dead", "over", "idle"} \subseteq Places \ {"moveOut"}
    BY AllPlaces
  <2>7. QED
    BY <1>1, <2>2, <2>4, <2>5, <2>6 DEF LaunchMoves, Acquire, Start, LaunchRefused, PreparationFails, Spawn, SpawnFails,
       ForceStop, Closed, ChildExits, Dies, Again, Signal, Ends, overlayVars, layout
<1>2. ASSUME NEW s \in Surfaces, NEW v \in Versions \cup {Absent}, NativeEdit(s, v)
      PROVE  DirsInv'
  <2>1. UNCHANGED dirs
    BY <1>2 DEF NativeEdit, layout
  <2>2. \A k \in Launches : run'[k].pc = run[k].pc /\ run'[k].looked = run[k].looked
    <3>1. SUFFICES ASSUME NEW k \in Launches
                   PROVE  run'[k].pc = run[k].pc /\ run'[k].looked = run[k].looked
      OBVIOUS
    <3>2. run'[k] = run[k] \/ run'[k] = [run[k] EXCEPT !.current = FALSE]
      BY <1>2 DEF NativeEdit
    <3>3. QED  BY <1>0, <3>2 DEF Run
  <2>3. QED  BY <2>1, <2>2, DirsKept
<1>3. CASE UNCHANGED <<dirs, run>>
  BY <1>3, DirsKept
<1>4. QED
  BY <1>1, <1>2, <1>3, Sorts DEF ClaudeWrites, launchVars, overlayVars, layout

\* Of the renames only the one out of claude takes a view away, and a launch
\* that makes it saw no views.
LEMMA ViewStaysStep ==
  ASSUME Types, DirsInv, [LaunchNext]_launchVars,
         NEW l \in Launches, ViewPath(l) \in dirs, ViewPath(l) \notin dirs'
  PROVE  \E m \in Launches : At(m, "moveOut") /\ ViewPath(l) \notin run[m].looked
<1>1. ~(dirs \subseteq dirs')
  OBVIOUS
<1>2. ASSUME NEW k \in Launches, MoveIn(k)  PROVE FALSE
  <2>1. Rename(Staging, DefaultView)
    BY <1>1, <1>2 DEF MoveIn, layout
  <2>2. Moved(Staging, DefaultView, ViewPath(l)) = ViewPath(l)
    BY MovedIn, Paths
  <2>3. QED  BY <2>1, <2>2 DEF Rename
<1>3. ASSUME NEW k \in Launches, LaunchMoves(k)
      PROVE  \E m \in Launches : At(m, "moveOut") /\ ViewPath(l) \notin run[m].looked
  <2>1. CASE MoveOut(k)
    BY <2>1 DEF MoveOut, DirsInv
  <2>2. CASE Migrate(k)
    BY <1>1, <1>2, <2>1, <2>2 DEF Migrate, LookForLegacy, LookForStaging, LookForDefault, LookForViews, MakeViews,
       MakeDirs, layout
  <2>3. CASE Refresh(k)
    BY <1>1, <2>3, RefreshLayout DEF MakeDirs
  <2>4. QED
    BY <1>1, <1>3, <2>2, <2>3 DEF LaunchMoves, Acquire, Start, LaunchRefused, PreparationFails, Spawn, SpawnFails, ForceStop,
       Closed, ChildExits, Dies, Again, Signal, Ends, overlayVars, layout
<1>4. QED
  BY <1>1, <1>3, Sorts DEF ClaudeWrites, NativeEdit, launchVars, overlayVars, layout

-----------------------------------------------------------------------------
(* The theorems. *)

LEMMA InitHolds ==
  ASSUME LaunchInit
  PROVE  Types /\ CopiesInv /\ TracksInv /\ DirsInv
<1>1. /\ run = [l \in Launches |-> NewRun] /\ child = [l \in Launches |-> "none"] /\ NewRun.pc = "idle"
  BY DEF LaunchInit, OverlayInit, NewRun
<1>2. Types
  <2>1. PICK v \in Versions : native = [s \in Surfaces |-> v]
    <3>1. (CHOOSE v \in Canonical : TRUE) \in Canonical
      BY OverlayAssumption
    <3>2. QED  BY <3>1, OverlayAssumption DEF LaunchInit, OverlayInit
  <2>2. FilesType
    <3>1. view \in [{"agent", "plugin"} -> Versions \cup {Absent, "mine", "projected"}]
      BY DEF LaunchInit, OverlayInit
    <3>2. newer \in [Surfaces -> BOOLEAN]
      BY DEF LaunchInit, OverlayInit
    <3>3. settings \in Settings
      BY Values DEF LaunchInit, OverlayInit
    <3>4. QED  BY <2>1, <3>1, <3>2, <3>3 DEF FilesType
  <2>3. RecordsType
    BY Values DEF RecordsType, LaunchInit, OverlayInit
  <2>4. RunsType
    <3>1. run \in [Launches -> Run]
      BY <1>1, Values
    <3>2. QED  BY <1>1, <3>1 DEF RunsType, LaunchInit, OverlayInit
  <2>5. LayoutType
    <3>1. PICK t \in Trees : dirs = t.dirs
      BY DEF LaunchInit, OverlayInit
    <3>2. QED  BY <3>1, TreesAssumption DEF LayoutType, Names
  <2>6. QED  BY <2>2, <2>3, <2>4, <2>5 DEF Types
<1>3. CopiesInv
  BY <1>1 DEF CopiesInv, CopiesConverge, NeedsRefresh, Copying, LaunchInit, OverlayInit, Surfaces
<1>4. TracksInv
  BY <1>1 DEF TracksInv, Tracks, RunTracks, Refreshing, LaunchInit, OverlayInit
<1>5. DirsInv
  <2>1. PICK t \in Trees : dirs = t.dirs
    BY DEF LaunchInit, OverlayInit
  <2>2. ASSUME NEW l \in Launches, IsDir(ViewPath(l))  PROVE IsDir(Views)
    BY <2>1, <2>2, ViewParent, TreesAssumption DEF IsDir
  <2>3. QED  BY <1>1, <2>2 DEF DirsInv, At
<1>6. QED  BY <1>2, <1>3, <1>4, <1>5

\* What the launches of a user do to the files of a view and to the directories
\* it lies in, and what each of them holds on its way (claude-overlay.ts,
\* main.ts), stays well formed.
THEOREM LaunchInvariance == LaunchSpec => [](Types /\ CopiesInv /\ TracksInv /\ DirsInv)
<1>1. LaunchInit => Types /\ CopiesInv /\ TracksInv /\ DirsInv
  BY InitHolds
<1>2. Types /\ CopiesInv /\ TracksInv /\ DirsInv /\ [LaunchNext]_launchVars =>
        (Types /\ CopiesInv /\ TracksInv /\ DirsInv)'
  BY TypesStep, CopiesStep, TracksStep, DirsStep
<1>3. QED  BY <1>1, <1>2, PTL DEF LaunchSpec

\* The native files, the view, its settings, manifest and lock, and the copies
\* of them that launches hold, are of the formats of claude-overlay.ts.
THEOREM LaunchTypeCorrect == LaunchSpec => []LaunchTypeOK
<1>1. Types => LaunchTypeOK
  BY DEF Types, FilesType, RecordsType, RunsType, LaunchTypeOK, Run
<1>2. QED  BY <1>1, LaunchInvariance, PTL

\* "refresh stays atomic and convergent" (refreshFileCopy): of any number of
\* launches, with or without the lock, killed anywhere, none leaves a copied
\* file that looks fresh and is neither the user's latest nor Claude's.
THEOREM Converges == LaunchSpec => []CopiesConverge
<1>1. CopiesInv => CopiesConverge
  BY DEF CopiesInv
<1>2. QED  BY <1>1, LaunchInvariance, PTL

\* As long as the lock did its work (acquireReconcileLock) the manifest knows
\* of every imported file, so that the file goes when its source does.
THEOREM Tracked == LaunchSpec => []ImportsAreTracked
<1>1. TracksInv => ImportsAreTracked
  BY DEF TracksInv, Intact, Tracks, ImportsAreTracked
<1>2. QED  BY <1>1, LaunchInvariance, PTL

\* "a divergent view copy is ... never deleted" (reconcileMissingImport): of
\* what Claude made of a file, only a launch that compared it before that does.
THEOREM EditsStay == LaunchSpec => EditsAreNotDeleted
<1>1. Types /\ CopiesInv /\ [LaunchNext]_launchVars =>
        [\A s \in {"agent", "plugin"} :
           view[s] = "mine" /\ view'[s] = Absent =>
             \E l \in Launches : Removing(l, s) /\ run[l].read # "mine"]_launchVars
  BY EditsStep
<1>2. QED  BY <1>1, LaunchInvariance, PTL DEF LaunchSpec, EditsAreNotDeleted

\* migrateSharedOverlay takes a view away under a Claude that runs in it only
\* if it looked before the view was made: a launch that looks and moves with no
\* other launch in between takes none.
THEOREM ViewStays == LaunchSpec => ProfileViewStays
<1>1. Types /\ DirsInv /\ [LaunchNext]_launchVars =>
        [\A l \in Launches :
           child[l] = "running" /\ IsDir(ViewPath(l)) /\ ~IsDir(ViewPath(l))' =>
             \E m \in Launches : At(m, "moveOut") /\ ViewPath(l) \notin run[m].looked]_launchVars
  BY ViewStaysStep DEF IsDir
<1>2. QED  BY <1>1, LaunchInvariance, PTL DEF LaunchSpec, ProfileViewStays

-----------------------------------------------------------------------------
(* The requests of a session: the inductive invariant. *)

\* What a writer is about to write fits the document it goes to.
JobInv(job) ==
  \/ job = Idle
  \/ /\ job # Idle /\ job.key \in Keys
     /\ \/ job.op = "observe" /\ job.doc \in Seq(Observation) /\ job.record \in Observation
        \/ job.op = "review" /\ job.doc \in Seq(ReviewDecision) /\ job.record \in ReviewDecision
        \/ job.op \in {"quarantine", "lift"} /\ job.doc \in Seq(QuarantineStatus)

StoreInv ==
  /\ StoreTypeOK
  /\ writer = [w \in Writers |-> writer[w]]
  /\ \A w \in Writers : JobInv(writer[w])

\* The labels of a banned claim.
Barred == {"untrusted", "quarantined"}

\* What a request holds while it reads.
Holds == {"at", "lease", "call", "session", "parent", "todo", "got", "snap", "banned", "inForce", "promoted"}

\* What a request knows of a claim k from one of its documents, whenever it read it:
\* that of the bans that have lasted since, and of the evidence and the promotions
\* that it has noted.
DocInv(q, k, d, doc) ==
  /\ d = "claim" =>
       /\ \A why \in Reasons : <<k, why>> \in q.banned => doc # <<>>
       /\ <<k, "failed">> \in q.banned => Saw(doc, "failed")
       /\ doc # <<>> => <<k, doc>> \in q.inForce
  /\ d = "decisions" =>
       /\ doc \in Seq(ReviewDecision)
       /\ <<k, "rejected">> \in q.banned => doc # <<>> /\ LatestDecision(doc).decision = "reject"
       /\ Promotes(doc) => <<k, LatestDecision(doc).evidence>> \in q.promoted
  /\ d = "records" => (<<k, "quarantined">> \in q.banned => IsQuarantined(doc))

\* The label of a claim that is banned, or trusted.
LabelInv(q, k, label) ==
  /\ \A why \in Reasons : <<k, why>> \in q.banned => label \in Barred
  /\ label = "trusted" => k \in Vouched(q)

\* A request knows of the claims it depends on: the bans it holds last still, the
\* evidence in force and the promotions are noted, and what it has read says so.
Notes(q, bans, inForce, promoted) ==
  /\ q.banned \subseteq bans
  /\ OfKeys(inForce, KeysOf(q.call, q.session)) \subseteq q.inForce
  /\ OfKeys(promoted, KeysOf(q.call, q.session)) \subseteq q.promoted
Aware(q) == Notes(q, Bans, InForce, Promoted)
ReadInv(q) ==
  /\ q.at = "reading" /\ q = [x \in Holds |-> q[x]]
  /\ q.lease \in Leases /\ q.call \in Calls[q.lease] /\ q.session # NoSession
  /\ q.todo \cup DOMAIN q.snap = KeysOf(q.call, q.session)
  /\ \A k \in DOMAIN q.snap : LabelInv(q, k, q.snap[k])
  /\ \A d \in DOMAIN q.got : DocInv(q, Current(q), d, q.got[d])

\* A decision, and the claims it was taken on.
DecideInv(a) ==
  /\ a.refused = None /\ a.call.selector.space # "list"
  /\ a.lease \in Leases /\ a.call \in Calls[a.lease]
  /\ a.target.model \in Models /\ a.models = {a.target.model}
  /\ ~AllowQuarantineBypass =>
       \A f \in RequestFeatures(a.call), why \in Reasons : <<<<a.target.model, f>>, why>> \notin a.banned
  /\ a.target.how = "derived" => \A f \in RequestFeatures(a.call) : <<a.target.model, f>> \in a.vouched

\* A list, and the claims it was made from.
ListInv(a) ==
  ~ExperimentalModels =>
    \A m \in a.models : \A f \in EvidenceFeatures(m) : <<m, f>> \in a.vouched

\* What a call means in a session, unless its tier is derived: one model, whatever
\* the policy and the stores have become.
Named(how, c, s, parent) ==
  CASE how = "override" -> {s.roles[c.selector.word]}
    [] how = "mapping"  -> {TierMapping[<<s.provider, Family(s.provider, s.roles, parent), c.selector.word>>]}
    [] how = "pin" /\ Projected(c) -> {c.selector.word}
    [] how = "pin" /\ ~Projected(c) /\ Classify(c.selector) = "EXACT_CLIENT_MODEL" -> RoleModel(c.selector.word, s.roles)
    [] how = "pin" /\ ~Projected(c) /\ Classify(c.selector) = "INHERIT" /\ parent # None -> {parent}
    [] OTHER -> RoleModel("primary", s.roles)

\* A decision is what the session makes of the call.
Follows(a, s) ==
  /\ s # NoSession /\ a.target.pool = Pool(a.call, s)
  /\ a.target.how # "derived" => a.target.model \in Named(a.target.how, a.call, s, a.parent)
  /\ a.target.how \in {"mapping", "derived"} =>
       FamilyOf[a.target.model] = Family(s.provider, s.roles, a.parent)

Agents == {c.agent : c \in UNION {Calls[l] : l \in Leases}}

\* Decisions that were answered, or are about to be.
Resolved == {r \in Slots : request[r].at = "resolved"}
Readers == {r \in Slots : request[r].at = "reading"}
Decided == Served \cup {Decision(request[r].q, request[r].target) : r \in Resolved}

\* A lease under which something was asked has its session, or is over.
Settled(l) == l \in live => session[l] # NoSession

\* Everything asked under a lease was asked under the session s.
FrozenFor(l, s) ==
  /\ session[l] \in {NoSession, s}
  /\ \A r \in Readers : request[r].lease = l => request[r].session = s /\ Settled(l)
  /\ \A a \in Decided : a.lease = l => Follows(a, s) /\ Settled(l)

AnswerInv(a) ==
  /\ a.lease \in Leases /\ a.call \in Calls[a.lease] /\ a.models \subseteq Models
  /\ a.refused = None /\ a.call.selector.space = "list" => ListInv(a)

ContextInv(k, m) == k \in Leases \X Agents /\ m \in Models

RouteInv ==
  /\ policy \in Policies /\ live \subseteq Leases
  /\ session \in [Leases -> LaunchSessions \cup {NoSession}]
  /\ count \in [edits : 0..MaxEdits, requests : 0..MaxRequests]
  /\ request = [r \in Slots |-> request[r]]
  /\ \A r \in Slots : request[r].at \in {"free", "reading", "resolved"}

RInv ==
  /\ StoreInv
  /\ RouteInv
  /\ \A k \in DOMAIN contexts : ContextInv(k, contexts[k])
  /\ \A r \in Readers : ReadInv(request[r]) /\ Aware(request[r])
  /\ \A a \in Decided : DecideInv(a)
  /\ \A a \in answers : AnswerInv(a)
  /\ \A l \in Leases : \E s \in LaunchSessions \cup {NoSession} : FrozenFor(l, s)

-----------------------------------------------------------------------------
(* The stores. *)

\* What a document says of its claim while a request is aware of the stores.
LEMMA DocumentFacts ==
  ASSUME StoreTypeOK, NEW q, Aware(q), NEW k \in KeysOf(q.call, q.session), NEW d \in Documents
  PROVE  DocInv(q, k, d, Document(k, d))
<1>1. k \in Keys
  BY DEF KeysOf
<1>2. \A why \in Reasons : <<k, why>> \in q.banned => Banned(k, why)
  BY DEF Aware, Notes, Bans
<1>3. CASE d = "claim"
  <2>1. Document(k, d) = claims[k]
    BY <1>3 DEF Document
  <2>2. \A why \in Reasons : <<k, why>> \in q.banned => claims[k] # <<>>
    BY <1>2 DEF Banned
  <2>3. <<k, "failed">> \in q.banned => Saw(claims[k], "failed")
    BY <1>2 DEF Banned, Reasons
  <2>4. claims[k] # <<>> => <<k, claims[k]>> \in q.inForce
    <3>1. SUFFICES ASSUME claims[k] # <<>>  PROVE <<k, claims[k]>> \in q.inForce
      OBVIOUS
    <3>2. <<k, claims[k]>> \in InForce
      BY <1>1, <3>1 DEF InForce
    <3>3. QED  BY <3>2 DEF Aware, Notes, OfKeys
  <2>5. QED  BY <1>3, <2>1, <2>2, <2>3, <2>4 DEF DocInv
<1>4. CASE d = "decisions"
  <2>1. Document(k, d) = reviews[k] /\ reviews[k] \in Seq(ReviewDecision)
    BY <1>1, <1>4 DEF Document, StoreTypeOK
  <2>2. <<k, "rejected">> \in q.banned => reviews[k] # <<>> /\ LatestDecision(reviews[k]).decision = "reject"
    BY <1>2 DEF Banned, Reasons
  <2>3. Promotes(reviews[k]) => <<k, LatestDecision(reviews[k]).evidence>> \in q.promoted
    <3>1. SUFFICES ASSUME Promotes(reviews[k])
                   PROVE  <<k, LatestDecision(reviews[k]).evidence>> \in q.promoted
      OBVIOUS
    <3>2. <<k, LatestDecision(reviews[k]).evidence>> \in Promoted
      BY <1>1, <3>1 DEF Promoted
    <3>3. QED  BY <3>2 DEF Aware, Notes, OfKeys
  <2>4. QED  BY <1>4, <2>1, <2>2, <2>3 DEF DocInv
<1>5. CASE d = "records"
  <2>1. Document(k, d) = quarantines[k]
    BY <1>5 DEF Document
  <2>2. <<k, "quarantined">> \in q.banned => IsQuarantined(quarantines[k])
    BY <1>2 DEF Banned, Reasons
  <2>3. QED  BY <1>5, <2>1, <2>2 DEF DocInv
<1>6. QED  BY <1>3, <1>4, <1>5 DEF Documents

\* What a label says of the three documents it was computed from, though they were
\* read at three moments.
LEMMA EffectiveFacts ==
  ASSUME NEW q, NEW k, NEW read, \A d \in Documents : DocInv(q, k, d, read[d])
  PROVE  LabelInv(q, k, Effective(k, read))
<1> DEFINE c == read.claim
           d == read.decisions
           n == read.records
<1>1. DocInv(q, k, "claim", c) /\ DocInv(q, k, "decisions", d) /\ DocInv(q, k, "records", n)
  BY DEF Documents
<1>2. Saw(c, "failed") /\ c # <<>> => Status(c) = "failed"
  BY DEF Status
<1>3. ASSUME NEW why \in Reasons, <<k, why>> \in q.banned
      PROVE  Effective(k, read) \in Barred
  <2>1. c # <<>> /\ Effective(k, read) = Label(c, d, n)
    BY <1>1, <1>3 DEF DocInv, Effective
  <2>2. CASE IsQuarantined(n)
    BY <2>1, <2>2 DEF Label, Barred
  <2>3. CASE ~IsQuarantined(n) /\ Saw(c, "failed")
    BY <1>2, <2>1, <2>3 DEF Label, Barred
  <2>4. CASE ~IsQuarantined(n) /\ d # <<>> /\ LatestDecision(d).decision = "reject"
    BY <2>1, <2>4 DEF Label, Barred
  <2>5. QED  BY <1>1, <1>3, <2>2, <2>3, <2>4 DEF DocInv, Reasons
<1>4. ASSUME Effective(k, read) = "trusted"  PROVE k \in Vouched(q)
  <2>1. c # <<>> /\ Label(c, d, n) = "trusted"
    BY <1>4 DEF Effective, SeedLabel
  <2>2. d # <<>>
    BY <2>1 DEF Label
  <2>3. /\ LatestDecision(d).decision # "reject" /\ DecisionCovers(LatestDecision(d), c) /\ Fresh(d)
    BY <2>1, <2>2 DEF Label
  <2>4. d \in Seq(ReviewDecision)
    BY <1>1 DEF DocInv
  <2>5. LatestDecision(d) \in ReviewDecision
    BY <2>2, <2>4 DEF LatestDecision
  <2>6. Promotes(d) /\ LatestDecision(d).evidence = c
    BY <2>2, <2>3, <2>5 DEF ReviewDecision, DecisionCovers, Fresh, Promotes
  <2>7. <<k, c>> \in q.inForce \cap q.promoted
    BY <1>1, <2>1, <2>6 DEF DocInv
  <2>8. QED  BY <2>7 DEF Vouched
<1>5. QED  BY <1>3, <1>4 DEF LabelInv

\* What a request knows stays, while bans end and evidence and promotions are noted.
LEMMA KnowledgeKept ==
  ASSUME NEW q, NEW p, p.banned \subseteq q.banned, q.inForce \subseteq p.inForce, q.promoted \subseteq p.promoted
  PROVE  /\ \A k, label : LabelInv(q, k, label) => LabelInv(p, k, label)
         /\ \A k, d, doc : DocInv(q, k, d, doc) => DocInv(p, k, d, doc)
<1>1. Vouched(q) \subseteq Vouched(p)
  BY DEF Vouched
<1>2. QED  BY <1>1 DEF LabelInv, DocInv

LEMMA ReadStep ==
  ASSUME StoreInv, NEW w \in Writers, Read(w)
  PROVE  StoreInv'
<1>1. PICK k \in Contested :
        \E job \in Observe(k) \cup Review(k) \cup Quarantine(k) \cup Lift(k) :
          writer' = [writer EXCEPT ![w] = job]
  BY DEF Read
<1>2. PICK job \in Observe(k) \cup Review(k) \cup Quarantine(k) \cup Lift(k) :
        writer' = [writer EXCEPT ![w] = job]
  BY <1>1
<1>3. /\ k \in Keys /\ UNCHANGED <<claims, reviews, quarantines>>
      /\ writes \in 0..MaxWrites /\ writes' = writes + 1 /\ writes < MaxWrites
      /\ claims[k] \in Seq(Observation) /\ reviews[k] \in Seq(ReviewDecision)
      /\ quarantines[k] \in Seq(QuarantineStatus)
  BY StoreAssumption DEF Read, Keys, StoreInv, StoreTypeOK
<1>4. writes' \in 0..MaxWrites
  BY <1>3, StoreAssumption
<1>5. job.key = k /\ JobInv(job)
  <2>1. CASE job \in Observe(k)
    BY <1>3, <2>1 DEF Observe, JobInv, Idle, Observation, Results
  <2>2. CASE job \in Review(k)
    BY <1>3, <2>2 DEF Review, JobInv, Idle, ReviewDecision
  <2>3. CASE job \in Quarantine(k) \cup Lift(k)
    BY <1>3, <2>3 DEF Quarantine, Lift, JobInv, Idle
  <2>4. QED  BY <2>1, <2>2, <2>3
<1>6. writer' = [x \in Writers |-> writer'[x]] /\ \A x \in Writers : JobInv(writer'[x])
  BY <1>2, <1>5 DEF StoreInv
<1>7. \A x \in Writers : writer'[x] # Idle => writer'[x].key \in Keys
  BY <1>6 DEF JobInv
<1>8. QED  BY <1>3, <1>4, <1>6, <1>7 DEF StoreInv, StoreTypeOK

LEMMA WriteStep ==
  ASSUME StoreInv, NEW w \in Writers, Write(w)
  PROVE  StoreInv'
<1> DEFINE job == writer[w]
<1>1. /\ job # Idle /\ JobInv(job) /\ job.key \in Keys /\ writes' = writes
      /\ writer' = [writer EXCEPT ![w] = Idle]
      /\ claims \in [Keys -> Seq(Observation)] /\ reviews \in [Keys -> Seq(ReviewDecision)]
      /\ quarantines \in [Keys -> Seq(QuarantineStatus)] /\ writes \in 0..MaxWrites
  BY DEF StoreInv, StoreTypeOK, Write, JobInv
<1>2. claims' \in [Keys -> Seq(Observation)]
  <2>1. CASE job.op = "observe"
    <3>1. job.doc \in Seq(Observation) /\ job.record \in Observation
      BY <1>1, <2>1 DEF JobInv
    <3> DEFINE doc == Append(job.doc, job.record)
    <3>2. doc \in Seq(Observation)
      BY <3>1
    <3>3. claims' = [claims EXCEPT ![job.key] = doc]
      BY <2>1 DEF Write, Appended
    <3> HIDE DEF doc, job
    <3>4. QED  BY <1>1, <3>2, <3>3
  <2>2. CASE job.op # "observe"
    BY <1>1, <2>2 DEF Write, Appended
  <2>3. QED  BY <2>1, <2>2
<1>3. reviews' \in [Keys -> Seq(ReviewDecision)]
  <2>1. CASE job.op = "review"
    <3>1. job.doc \in Seq(ReviewDecision) /\ job.record \in ReviewDecision
      BY <1>1, <2>1 DEF JobInv
    <3> DEFINE doc == Append(job.doc, job.record)
    <3>2. doc \in Seq(ReviewDecision)
      BY <3>1
    <3>3. reviews' = [reviews EXCEPT ![job.key] = doc]
      BY <2>1 DEF Write
    <3> HIDE DEF doc, job
    <3>4. QED  BY <1>1, <3>2, <3>3
  <2>2. CASE job.op # "review"
    BY <1>1, <2>2 DEF Write
  <2>3. QED  BY <2>1, <2>2
<1>4. quarantines' \in [Keys -> Seq(QuarantineStatus)]
  <2>1. ASSUME NEW doc \in Seq(QuarantineStatus), quarantines' = [quarantines EXCEPT ![job.key] = doc]
        PROVE  quarantines' \in [Keys -> Seq(QuarantineStatus)]
    <3> HIDE DEF job
    <3>1. QED  BY <1>1, <2>1
  <2>2. CASE job.op = "quarantine"
    <3>1. job.doc \in Seq(QuarantineStatus)
      BY <1>1, <2>2 DEF JobInv
    <3>2. Append(job.doc, "active") \in Seq(QuarantineStatus)
      BY <3>1 DEF QuarantineStatus
    <3>3. quarantines' = [quarantines EXCEPT ![job.key] = Append(job.doc, "active")]
      BY <2>2 DEF Write
    <3>4. QED  BY <2>1, <3>2, <3>3
  <2>3. CASE job.op = "lift"
    <3>1. job.doc \in Seq(QuarantineStatus)
      BY <1>1, <2>3 DEF JobInv
    <3>2. Lifted(job.doc) \in Seq(QuarantineStatus)
      <4> DEFINE last == CHOOSE i \in DOMAIN job.doc :
                           /\ job.doc[i] = "active"
                           /\ \A j \in DOMAIN job.doc : job.doc[j] = "active" => j <= i
                 doc == job.doc
      <4>1. Lifted(doc) = [doc EXCEPT ![last] = "lifted"]
        BY DEF Lifted
      <4>2. /\ doc \in Seq(QuarantineStatus) /\ "lifted" \in QuarantineStatus
            /\ DOMAIN doc = 1..Len(doc)
        BY <3>1 DEF QuarantineStatus
      <4> HIDE DEF last, doc
      <4>3. [doc EXCEPT ![last] = "lifted"] \in Seq(QuarantineStatus)
        <5>1. CASE last \in 1..Len(doc)
          BY <4>2, <5>1, ExceptSeq
        <5>2. CASE last \notin DOMAIN doc
          <6>1. [doc EXCEPT ![last] = "lifted"] = doc
            BY <4>2, <5>2
          <6>2. QED  BY <4>2, <6>1
        <5>3. QED  BY <4>2, <5>1, <5>2
      <4>4. QED  BY <4>1, <4>3 DEF doc
    <3>3. quarantines' = [quarantines EXCEPT ![job.key] = Lifted(job.doc)]
      BY <2>3 DEF Write
    <3>4. QED  BY <2>1, <3>2, <3>3
  <2>4. CASE job.op \notin {"quarantine", "lift"}
    BY <1>1, <2>4 DEF Write
  <2>5. QED  BY <2>2, <2>3, <2>4
<1>5. /\ writer' = [x \in Writers |-> writer'[x]] /\ \A x \in Writers : JobInv(writer'[x])
      /\ \A x \in Writers : writer'[x] # Idle => writer'[x].key \in Keys
  BY <1>1 DEF StoreInv, JobInv
<1>6. QED  BY <1>1, <1>2, <1>3, <1>4, <1>5 DEF StoreInv, StoreTypeOK

LEMMA StoreStepInv ==
  ASSUME StoreInv, StoreStep
  PROVE  StoreInv'
BY ReadStep, WriteStep DEF StoreStep

-----------------------------------------------------------------------------
(* What a request is resolved to. *)

LEMMA RoleUnique ==
  ASSUME NEW word, NEW roles, NEW m \in RoleModel(word, roles), NEW n \in RoleModel(word, roles)
  PROVE  m = n
BY DEF RoleModel

\* Two models that a session and a call name in the same way are the same.
LEMMA NamedUnique ==
  ASSUME NEW how, NEW c, NEW s, NEW p, NEW m \in Named(how, c, s, p), NEW n \in Named(how, c, s, p)
  PROVE  m = n
BY RoleUnique DEF Named

\* What a tier is resolved to.
LEMMA TierFacts ==
  ASSUME NEW tier, NEW q, NEW roles, NEW p, NEW c, NEW snap,
         NEW t \in ResolveTier(tier, q, roles, p, c, snap)
  PROVE  /\ t = [how |-> t.how, model |-> t.model]
         /\ \/ t.how = "override" /\ t.model = roles[tier]
            \/ /\ t.how = "mapping" /\ t.model \in Models
               /\ <<q, Family(q, roles, p), tier>> \in DOMAIN TierMapping
               /\ t.model = TierMapping[<<q, Family(q, roles, p), tier>>]
            \/ /\ t.how = "derived"
               /\ t.model \in SelectInFamily(q, Family(q, roles, p), c, snap)
<1>1. ASSUME NEW how, NEW m, NEW x \in {[how |-> how, model |-> n] : n \in SelectExact(q, m, c, snap, FALSE)}
      PROVE  x = [how |-> how, model |-> m] /\ m \in Models
  BY <1>1 DEF SelectExact, Evidence
<1>2. CASE tier \in DOMAIN roles
  <2>1. t \in {[how |-> "override", model |-> n] : n \in SelectExact(q, roles[tier], c, snap, FALSE)}
    BY <1>2 DEF ResolveTier
  <2>2. t = [how |-> "override", model |-> roles[tier]]
    BY <1>1, <2>1
  <2>3. QED  BY <2>2
<1>3. CASE tier \notin DOMAIN roles
  <2> DEFINE f == Family(q, roles, p)
  <2>1. f # None
    BY <1>3 DEF ResolveTier
  <2>2. CASE <<q, f, tier>> \in DOMAIN TierMapping
    <3>1. t \in {[how |-> "mapping", model |-> n] : n \in SelectExact(q, TierMapping[<<q, f, tier>>], c, snap, FALSE)}
      BY <1>3, <2>1, <2>2 DEF ResolveTier
    <3>2. t = [how |-> "mapping", model |-> TierMapping[<<q, f, tier>>]] /\ TierMapping[<<q, f, tier>>] \in Models
      BY <1>1, <3>1
    <3>3. QED  BY <2>2, <3>2
  <2>3. CASE <<q, f, tier>> \notin DOMAIN TierMapping
    <3>1. t \in {[how |-> "derived", model |-> m] : m \in SelectInFamily(q, f, c, snap)}
      BY <1>3, <2>1, <2>3 DEF ResolveTier
    <3>2. QED  BY <3>1
  <2>4. QED  BY <2>2, <2>3
<1>4. QED  BY <1>2, <1>3

\* What a candidate of a family is, and what its claims must say.
LEMMA FamilyFacts ==
  ASSUME NEW q, NEW family, NEW c, NEW snap, NEW m \in SelectInFamily(q, family, c, snap)
  PROVE  /\ ProviderOf[m] = q /\ FamilyOf[m] = family
         /\ \A f \in RequestFeatures(c) : snap[<<m, f>>] = "trusted"
<1> DEFINE fit == {i \in DOMAIN Order : /\ ProviderOf[Order[i]] = q /\ FamilyOf[Order[i]] = family
                                        /\ Fits(Order[i], c, FALSE, snap, FALSE)}
<1>1. PICK i \in fit : m = Order[i]
  BY DEF SelectInFamily
<1>2. ProviderOf[m] = q /\ FamilyOf[m] = family /\ Fits(m, c, FALSE, snap, FALSE)
  BY <1>1
<1>3. QED  BY <1>2 DEF Fits, Admits

\* What a selector means: one model fixed by the session, or one of the family.
LEMMA FoundFacts ==
  ASSUME NEW c, NEW s, NEW p, NEW snap, NEW t \in Found(c, s, p, snap)
  PROVE  /\ t.how # "derived" => t.model \in Named(t.how, c, s, p)
         /\ t.how \in {"mapping", "derived"} => FamilyOf[t.model] = Family(s.provider, s.roles, p)
         /\ t.how = "derived" =>
              /\ ~Projected(c) /\ ProviderOf[t.model] = s.provider
              /\ \A f \in RequestFeatures(c) : snap[<<t.model, f>>] = "trusted"
<1>1. CASE Projected(c)
  BY <1>1 DEF Found, Named
<1>2. CASE ~Projected(c) /\ Classify(c.selector) \in {"RLY_LOGICAL_TIER", "CLIENT_NATIVE_ALIAS"}
  <2> DEFINE tier == c.selector.word
             f == Family(s.provider, s.roles, p)
  <2>1. t \in ResolveTier(tier, s.provider, s.roles, p, c, snap)
    BY <1>2 DEF Found, ResolveIntent
  <2>2. \/ t.how = "override" /\ t.model = s.roles[tier]
        \/ /\ t.how = "mapping" /\ t.model \in Models
           /\ <<s.provider, f, tier>> \in DOMAIN TierMapping
           /\ t.model = TierMapping[<<s.provider, f, tier>>]
        \/ t.how = "derived" /\ t.model \in SelectInFamily(s.provider, f, c, snap)
    BY <2>1, TierFacts
  <2>4. CASE t.how = "override" /\ t.model = s.roles[tier]
    BY <2>4 DEF Named
  <2>5. CASE /\ t.how = "mapping" /\ t.model \in Models
             /\ <<s.provider, f, tier>> \in DOMAIN TierMapping
             /\ t.model = TierMapping[<<s.provider, f, tier>>]
    <3>1. FamilyOf[t.model] = f
      BY <2>5, MappingAssumption
    <3>2. t.model \in Named("mapping", c, s, p)
      BY <2>5 DEF Named
    <3>3. QED  BY <2>5, <3>1, <3>2
  <2>6. CASE t.how = "derived" /\ t.model \in SelectInFamily(s.provider, f, c, snap)
    BY <1>2, <2>6, FamilyFacts
  <2>7. QED  BY <2>2, <2>4, <2>5, <2>6
<1>3. CASE ~Projected(c) /\ Classify(c.selector) \notin {"RLY_LOGICAL_TIER", "CLIENT_NATIVE_ALIAS"}
  <2> DEFINE ms == CASE Classify(c.selector) = "EXACT_CLIENT_MODEL" -> RoleModel(c.selector.word, s.roles)
                     [] Classify(c.selector) = "INHERIT" -> IF p # None THEN {p} ELSE RoleModel("primary", s.roles)
                     [] Classify(c.selector) = "DEFAULT" -> RoleModel("primary", s.roles)
                     [] OTHER -> {}
  <2>1. t \in {[how |-> "pin", model |-> m] : m \in ms}
    BY <1>3 DEF Found, ResolveIntent
  <2>2. t.how = "pin" /\ t.model \in ms
    BY <2>1
  <2>3. t.model \in Named("pin", c, s, p)
    BY <1>3, <2>2 DEF Named
  <2>4. QED  BY <2>2, <2>3
<1>4. QED  BY <1>1, <1>2, <1>3

\* What a request that has read its claims is resolved to.
LEMMA TargetFacts ==
  ASSUME NEW q, ReadInv(q),
         q.todo = {}, q.call.selector.space # "list", NEW t \in Targets(q)
  PROVE  DecideInv(Decision(q, t)) /\ Follows(Decision(q, t), q.session)
<1> DEFINE c == q.call
           s == q.session
           a == Decision(q, t)
<1>1. PICK u \in Found(c, s, q.parent, q.snap) :
        /\ SelectExact(Provider(c, s), u.model, c, q.snap, AllowQuarantineBypass) # {}
        /\ t.how = u.how /\ t.model = u.model /\ t.pool = Pool(c, s)
  BY DEF Targets
<1>2. /\ u.model \in Models /\ ProviderOf[u.model] = Provider(c, s)
      /\ Fits(u.model, c, TRUE, q.snap, AllowQuarantineBypass)
  BY <1>1 DEF SelectExact, Evidence
<1>3. /\ a.lease = q.lease /\ a.call = c /\ a.refused = None /\ a.models = {u.model}
      /\ a.target = t /\ a.parent = q.parent /\ a.banned = q.banned /\ a.vouched = Vouched(q)
  BY <1>1 DEF Decision
<1>4. /\ t.how # "derived" => t.model \in Named(t.how, c, s, q.parent)
      /\ t.how \in {"mapping", "derived"} => FamilyOf[t.model] = Family(s.provider, s.roles, q.parent)
      /\ t.how = "derived" =>
           /\ ~Projected(c) /\ ProviderOf[t.model] = s.provider
           /\ \A f \in RequestFeatures(c) : q.snap[<<t.model, f>>] = "trusted"
  BY <1>1, FoundFacts
<1>5. /\ q.lease \in Leases /\ c \in Calls[q.lease] /\ s # NoSession
      /\ DOMAIN q.snap = KeysOf(c, s)
      /\ \A k \in DOMAIN q.snap : LabelInv(q, k, q.snap[k])
  BY DEF ReadInv
<1>6. ASSUME ~AllowQuarantineBypass, NEW f \in RequestFeatures(c), NEW why \in Reasons
      PROVE  <<<<t.model, f>>, why>> \notin q.banned
  <2> DEFINE k == <<t.model, f>>
  <2>1. f \in Features /\ k \in Keys /\ Admits(q.snap[k], TRUE, AllowQuarantineBypass)
    BY <1>1, <1>2, <1>6 DEF RequestFeatures, Fits, Keys
  <2>2. q.snap[k] \notin Barred
    BY <1>6, <2>1 DEF Admits, Barred
  <2>3. k \in KeysOf(c, s)
    BY <1>1, <1>2, <1>6, <2>1 DEF KeysOf
  <2>4. QED  BY <1>5, <2>2, <2>3 DEF LabelInv
<1>7. ASSUME t.how = "derived", NEW f \in RequestFeatures(c)
      PROVE  <<t.model, f>> \in Vouched(q)
  <2>1. f \in Features /\ t.model \in Models /\ ProviderOf[t.model] = Provider(c, s)
    BY <1>1, <1>2, <1>7 DEF RequestFeatures
  <2>2. <<t.model, f>> \in KeysOf(c, s)
    BY <1>7, <2>1 DEF KeysOf, Keys
  <2>3. QED  BY <1>4, <1>5, <1>7, <2>2 DEF LabelInv
<1> HIDE DEF a
<1>8. DecideInv(a)
  BY <1>1, <1>2, <1>3, <1>4, <1>5, <1>6, <1>7 DEF DecideInv
<1>9. Follows(a, s)
  BY <1>1, <1>3, <1>4, <1>5 DEF Follows
<1>10. QED  BY <1>8, <1>9 DEF a

\* What a list is made of.
LEMMA ListFacts ==
  ASSUME NEW q, ReadInv(q),
         q.todo = {}, q.call.selector.space = "list", ~ExperimentalModels,
         NEW m \in Projections(q.session, q.snap), NEW f \in EvidenceFeatures(m)
  PROVE  <<m, f>> \in Vouched(q)
<1>1. m \in Models /\ f \in Features
  BY DEF Projections, EvidenceFeatures
<1>2. q.snap[<<m, f>>] = "trusted"
  BY DEF Projections
<1>3. <<m, f>> \in KeysOf(q.call, q.session)
  BY <1>1 DEF KeysOf, Keys
<1>4. QED  BY <1>2, <1>3 DEF ReadInv, LabelInv

-----------------------------------------------------------------------------
(* Steps. *)

\* A request and a decision that fit what has been asked and answered so far.
ReaderInv(q) ==
  /\ ReadInv(q) /\ Aware(q)
  /\ \A s : FrozenFor(q.lease, s) => q.session = s /\ Settled(q.lease)
DecisionInv(a) ==
  /\ DecideInv(a)
  /\ \A s : FrozenFor(a.lease, s) => Follows(a, s) /\ Settled(a.lease)

\* The same of what a slot holds, and of what is answered.
SlotInv(q) ==
  \/ q.at = "free"
  \/ q.at = "reading" /\ ReaderInv(q)
  \/ q.at = "resolved" /\ DecisionInv(Decision(q.q, q.target))
AnsweredInv(a) ==
  /\ AnswerInv(a)
  /\ a.refused = None /\ a.call.selector.space # "list" => DecisionInv(a)
\* One slot moves, and its answers, if any, are added.
Moves(r, q, new) ==
  /\ request' = [request EXCEPT ![r] = q]
  /\ answers' = answers \cup new
  /\ UNCHANGED <<storeVars, policy, live, session>>
  /\ count' \in [edits : 0..MaxEdits, requests : 0..MaxRequests]
ContextsInv == \A k \in DOMAIN contexts : ContextInv(k, contexts[k])

LEMMA OfReader ==
  ASSUME RInv, NEW r \in Readers
  PROVE  ReaderInv(request[r])
BY DEF RInv, ReaderInv, FrozenFor

LEMMA OfDecision ==
  ASSUME RInv, NEW a \in Decided
  PROVE  DecisionInv(a)
BY DEF RInv, DecisionInv, FrozenFor

LEMMA StoreKept ==
  ASSUME StoreInv, UNCHANGED storeVars
  PROVE  StoreInv' /\ Bans' = Bans /\ InForce' = InForce /\ Promoted' = Promoted
<1>1. UNCHANGED <<claims, reviews, quarantines, writer, writes>>
  BY DEF storeVars
<1>2. Bans' = Bans /\ InForce' = InForce /\ Promoted' = Promoted
  BY <1>1 DEF Bans, Banned, InForce, Promoted
<1>3. QED  BY <1>1, <1>2 DEF StoreInv, StoreTypeOK

\* A step of one request, which is answered at most once, keeps the invariant.
LEMMA RequestStep ==
  ASSUME RInv, NEW r \in Slots, NEW q, NEW new, SlotInv(q), \A a \in new : AnsweredInv(a),
         Moves(r, q, new), ContextsInv'
  PROVE  RInv'
<1> USE DEF Moves
<1>1. StoreInv' /\ Bans' = Bans /\ InForce' = InForce /\ Promoted' = Promoted
  BY StoreKept DEF RInv
<1>2. request' = [x \in Slots |-> IF x = r THEN q ELSE request[x]]
  BY DEF RInv, RouteInv
<1>3. RouteInv'
  BY <1>2 DEF RInv, RouteInv, SlotInv
<1>4. Served \subseteq Served' /\ \A a \in Served' : a \in Served \/ DecisionInv(a)
  BY DEF Served, AnsweredInv
<1>5. \A x \in Readers' : ReaderInv(request'[x])
  <2>1. SUFFICES ASSUME NEW x \in Slots, request'[x].at = "reading"
                 PROVE  ReaderInv(request'[x])
    BY DEF Readers
  <2>2. CASE x = r
    BY <1>2, <2>1, <2>2 DEF SlotInv
  <2>3. CASE x # r
    BY <1>2, <2>1, <2>3, OfReader DEF Readers
  <2>4. QED  BY <2>2, <2>3
<1>6. \A a \in Decided' : DecisionInv(a)
  <2>1. \A a \in Served' : DecisionInv(a)
    BY <1>4, OfDecision DEF Decided
  <2>2. ASSUME NEW x \in Slots, request'[x].at = "resolved"
        PROVE  DecisionInv(Decision(request'[x].q, request'[x].target))
    <3>1. CASE x = r
      BY <1>2, <2>2, <3>1 DEF SlotInv
    <3>2. CASE x # r
      BY <1>2, <2>2, <3>2, OfDecision DEF Decided, Resolved
    <3>3. QED  BY <3>1, <3>2
  <2>3. QED  BY <2>1, <2>2 DEF Decided, Resolved
<1>7. \A x \in Readers' : ReadInv(request'[x]) /\ Notes(request'[x], Bans', InForce', Promoted')
  BY <1>1, <1>5 DEF ReaderInv, Aware
<1>8. \A a \in Decided' : DecideInv(a)
  BY <1>6 DEF DecisionInv
<1>9. \A a \in answers' : AnswerInv(a)
  BY DEF RInv, AnsweredInv
<1>10. ASSUME NEW l \in Leases
       PROVE  \E s \in LaunchSessions \cup {NoSession} : FrozenFor(l, s)'
  <2>1. PICK s \in LaunchSessions \cup {NoSession} : FrozenFor(l, s)
    BY <1>10 DEF RInv
  <2>2. \A x \in Readers' : request'[x].lease = l => request'[x].session = s /\ Settled(l)
    <3>1. \A y : ReaderInv(y) /\ y.lease = l => y.session = s /\ Settled(l)
      BY <2>1 DEF ReaderInv
    <3>2. QED  BY <1>5, <3>1
  <2>3. \A a \in Decided' : a.lease = l => Follows(a, s) /\ Settled(l)
    BY <1>6, <2>1 DEF DecisionInv
  <2>4. Settled(l)' = Settled(l) /\ session' = session
    BY DEF Settled
  <2>5. FrozenFor(l, s)'
    BY <2>1, <2>2, <2>3, <2>4 DEF FrozenFor
  <2>6. QED  BY <2>5
<1>11. QED  BY <1>1, <1>3, <1>7, <1>8, <1>9, <1>10 DEF RInv, ContextsInv, Aware

LEMMA ContextsKept ==
  ASSUME RInv, UNCHANGED contexts, NEW r, NEW q, NEW new, Moves(r, q, new)
  PROVE  ContextsInv'
BY DEF RInv, ContextsInv, ContextInv, Moves

\* A step that answers nothing, and one that gives one answer and frees its slot.
LEMMA StepOfSlot ==
  ASSUME RInv, NEW r \in Slots, NEW q, SlotInv(q), Moves(r, q, {}), UNCHANGED contexts
  PROVE  RInv'
<1>1. \A a \in {} : AnsweredInv(a)
  OBVIOUS
<1>2. QED  BY <1>1, ContextsKept, RequestStep

LEMMA StepWithAnswer ==
  ASSUME RInv, NEW r \in Slots, NEW a, AnsweredInv(a), Moves(r, Free, {a}),
         UNCHANGED contexts \/ ContextsInv'
  PROVE  RInv'
<1>1. SlotInv(Free) /\ \A x \in {a} : AnsweredInv(x)
  BY DEF SlotInv, Free
<1>2. QED  BY <1>1, ContextsKept, RequestStep

LEMMA BeginStep ==
  ASSUME RInv, NEW r \in Slots, NEW l \in Leases, NEW c \in Calls[l], Begin(r, l, c)
  PROVE  RInv'
<1> DEFINE s == session[l]
<1>1. /\ UNCHANGED <<storeVars, policy, live, session, contexts>> /\ l \in live /\ s # NoSession
      /\ request[r] = Free /\ count.requests < MaxRequests
      /\ count' = [count EXCEPT !.requests = @ + 1]
  BY DEF Begin
<1>2. count' \in [edits : 0..MaxEdits, requests : 0..MaxRequests]
  BY <1>1, RoutingAssumption DEF RInv, RouteInv
<1>3. CASE request' = [request EXCEPT ![r] = Reading(l, c, s)] /\ UNCHANGED answers
  <2> DEFINE q == Reading(l, c, s)
  <2> DEFINE keys == KeysOf(c, s)
             documents(k) == [d \in Documents |-> Document(k, d)]
             snap == [k \in keys \ Contested |-> Effective(k, documents(k))]
  <2>1. /\ q.at = "reading" /\ q.lease = l /\ q.call = c /\ q.session = s
        /\ q.todo = keys \cap Contested /\ q.got = <<>> /\ q.snap = snap
        /\ q.banned = OfKeys(Bans, keys) /\ q.inForce = OfKeys(InForce, keys)
        /\ q.promoted = OfKeys(Promoted, keys)
    BY DEF Reading
  <2>2. q = [x \in Holds |-> q[x]]
    BY DEF Reading, Holds
  <2>3. \A x : FrozenFor(l, x) => s = x /\ Settled(l)
    BY <1>1 DEF FrozenFor, Settled
  <2>4. Moves(r, q, {})
    BY <1>1, <1>2, <1>3 DEF Moves
  <2> HIDE DEF q
  <2>5. Aware(q)
    BY <2>1 DEF Aware, Notes, OfKeys
  <2>8. ASSUME NEW k \in keys \ Contested
        PROVE  LabelInv(q, k, snap[k])
    <3>1. \A d \in Documents : DocInv(q, k, d, documents(k)[d])
      BY <2>1, <2>5, DocumentFacts DEF RInv, StoreInv
    <3> HIDE DEF documents
    <3>2. QED  BY <3>1, EffectiveFacts
  <2>9. ReadInv(q)
    BY <1>1, <2>1, <2>2, <2>8 DEF ReadInv
  <2>6. SlotInv(q)
    BY <2>1, <2>3, <2>5, <2>9 DEF ReaderInv, SlotInv
  <2>7. QED  BY <1>1, <2>4, <2>6, StepOfSlot
<1>4. ASSUME NEW why \in {"model-unavailable", "role-unmapped", "profile-not-found"},
             Refused(l, c, why), UNCHANGED request
      PROVE  RInv'
  <2> DEFINE a == [lease |-> l, call |-> c, refused |-> why, models |-> {}]
  <2>1. Moves(r, Free, {a})
    BY <1>1, <1>2, <1>4 DEF Moves, Refused, RInv, RouteInv
  <2>2. AnsweredInv(a)
    BY <1>4 DEF AnsweredInv, AnswerInv, None
  <2> HIDE DEF a
  <2>3. QED  BY <1>1, <2>1, <2>2, StepWithAnswer
<1>5. QED  BY <1>3, <1>4 DEF Begin, ActiveSession

\* The record of a request that reads, with some of its fields replaced.
LEMMA ReadingRecord ==
  ASSUME NEW q, q = [z \in Holds |-> q[z]], NEW x, NEW y, NEW w
  PROVE  /\ [q EXCEPT !.got = x, !.todo = y, !.snap = w] =
              [z \in Holds |-> IF z = "got" THEN x ELSE IF z = "todo" THEN y ELSE IF z = "snap" THEN w ELSE q[z]]
         /\ [q EXCEPT !.banned = x, !.inForce = y, !.promoted = w] =
              [z \in Holds |-> IF z = "banned" THEN x ELSE IF z = "inForce" THEN y
                               ELSE IF z = "promoted" THEN w ELSE q[z]]
         /\ [q EXCEPT !.got = x] = [z \in Holds |-> IF z = "got" THEN x ELSE q[z]]
BY DEF Holds

LEMMA ReadDocumentStep ==
  ASSUME RInv, NEW r \in Slots, ReadDocument(r)
  PROVE  RInv'
<1> DEFINE old == request[r]
           k == Current(old)
<1>1. /\ UNCHANGED <<storeVars, policy, live, session, contexts, answers, count>>
      /\ old.at = "reading" /\ old.todo # {}
  BY DEF ReadDocument
<1>2. ReaderInv(old) /\ ReadInv(old) /\ Aware(old)
  BY <1>1, OfReader DEF Readers, ReaderInv
<1>3. k \in old.todo /\ k \in KeysOf(old.call, old.session)
  BY <1>1, <1>2 DEF Current, ReadInv
<1> DEFINE more(d) == [x \in DOMAIN old.got \cup {d} |-> IF x = d THEN Document(k, d) ELSE old.got[x]]
           todo == old.todo \ {k}
           snap(got) == [key \in DOMAIN old.snap \cup {k} |-> IF key = k THEN Effective(k, got) ELSE old.snap[key]]
<1>4. PICK d \in Documents :
        request' = [request EXCEPT ![r] =
          IF DOMAIN more(d) # Documents THEN [old EXCEPT !.got = more(d)]
          ELSE [old EXCEPT !.got = <<>>, !.todo = todo, !.snap = snap(more(d))]]
  BY DEF ReadDocument
<1> DEFINE got == more(d)
<1>5. DOMAIN got = DOMAIN old.got \cup {d} /\ \A x \in DOMAIN got : DocInv(old, k, x, got[x])
  BY <1>2, <1>3, DocumentFacts DEF RInv, StoreInv, ReadInv
<1> HIDE DEF more, k
<1>6. ASSUME NEW q, request' = [request EXCEPT ![r] = q], ReadInv(q),
             q.banned = old.banned, q.inForce = old.inForce, q.promoted = old.promoted,
             q.lease = old.lease, q.call = old.call, q.session = old.session
      PROVE  RInv'
  <2>1. SlotInv(q)
    BY <1>2, <1>6 DEF ReaderInv, SlotInv, Aware, Notes, ReadInv
  <2>2. Moves(r, q, {}) /\ UNCHANGED contexts
    BY <1>1, <1>6 DEF Moves, RInv, RouteInv
  <2>3. QED  BY <2>1, <2>2, StepOfSlot
<1>7. CASE DOMAIN got # Documents
  <2> DEFINE q == [old EXCEPT !.got = got]
  <2>1. q = [z \in Holds |-> IF z = "got" THEN got ELSE old[z]]
    BY <1>2, ReadingRecord DEF ReadInv
  <2>2. request' = [request EXCEPT ![r] = q]
    BY <1>4, <1>7
  <2> HIDE DEF q
  <2>3. /\ q.at = "reading" /\ q.lease = old.lease /\ q.call = old.call /\ q.session = old.session
        /\ q.todo = old.todo /\ q.got = got /\ q.snap = old.snap /\ q.banned = old.banned
        /\ q.inForce = old.inForce /\ q.promoted = old.promoted /\ q = [z \in Holds |-> q[z]]
    BY <1>1, <2>1 DEF Holds
  <2>4. \A key, x, doc : /\ LabelInv(old, key, x) => LabelInv(q, key, x)
                         /\ DocInv(old, key, x, doc) => DocInv(q, key, x, doc)
    BY <2>3, KnowledgeKept
  <2>5. Current(q) = k
    BY <2>3 DEF Current, k
  <2>6. ReadInv(q)
    BY <1>2, <1>5, <2>3, <2>4, <2>5 DEF ReadInv
  <2>7. QED  BY <1>6, <2>2, <2>3, <2>6
<1>8. CASE DOMAIN got = Documents
  <2> DEFINE q == [old EXCEPT !.got = <<>>, !.todo = todo, !.snap = snap(got)]
             new == snap(got)
  <2>1. q = [z \in Holds |-> IF z = "got" THEN <<>> ELSE IF z = "todo" THEN todo ELSE IF z = "snap" THEN new ELSE old[z]]
    BY <1>2, ReadingRecord DEF ReadInv
  <2>2. request' = [request EXCEPT ![r] = q]
    BY <1>4, <1>8
  <2>3. LabelInv(old, k, Effective(k, got))
    BY <1>5, <1>8, EffectiveFacts
  <2>4. /\ DOMAIN new = DOMAIN old.snap \cup {k} /\ new[k] = Effective(k, got)
        /\ \A key \in DOMAIN old.snap : key # k => new[key] = old.snap[key]
    OBVIOUS
  <2> HIDE DEF q, new
  <2>5. /\ q.at = "reading" /\ q.lease = old.lease /\ q.call = old.call /\ q.session = old.session
        /\ q.todo = todo /\ q.got = <<>> /\ q.snap = new /\ q.banned = old.banned
        /\ q.inForce = old.inForce /\ q.promoted = old.promoted /\ q = [z \in Holds |-> q[z]]
    BY <1>1, <2>1 DEF Holds
  <2>6. \A key, x : LabelInv(old, key, x) => LabelInv(q, key, x)
    BY <2>5, KnowledgeKept
  <2>7. \A key \in DOMAIN new : LabelInv(q, key, new[key])
    BY <1>2, <2>3, <2>4, <2>6 DEF ReadInv
  <2>8. q.todo \cup DOMAIN q.snap = KeysOf(q.call, q.session)
    BY <1>2, <1>3, <2>4, <2>5 DEF ReadInv
  <2>9. ReadInv(q)
    BY <1>2, <2>5, <2>7, <2>8 DEF ReadInv
  <2>10. QED  BY <1>6, <2>2, <2>5, <2>9
<1>9. QED  BY <1>7, <1>8

LEMMA AnswerListStep ==
  ASSUME RInv, NEW r \in Slots, AnswerList(r)
  PROVE  RInv'
<1> DEFINE q == request[r]
           a == [lease |-> q.lease, call |-> q.call, refused |-> None,
                 models |-> Projections(q.session, q.snap), vouched |-> Vouched(q)]
<1>1. /\ UNCHANGED <<storeVars, policy, live, session, contexts, count>>
      /\ request' = [request EXCEPT ![r] = Free] /\ q.at = "reading" /\ q.todo = {}
      /\ q.call.selector.space = "list" /\ answers' = answers \cup {a}
  BY DEF AnswerList
<1>2. ReadInv(q)
  BY <1>1, OfReader DEF Readers, ReaderInv
<1>3. ListInv(a)
  BY <1>1, <1>2, ListFacts DEF ListInv
<1>4. AnsweredInv(a)
  BY <1>1, <1>2, <1>3 DEF AnsweredInv, AnswerInv, ReadInv, Projections
<1>5. Moves(r, Free, {a}) /\ UNCHANGED contexts
  BY <1>1 DEF Moves, RInv, RouteInv
<1> HIDE DEF a
<1>6. QED  BY <1>4, <1>5, StepWithAnswer

LEMMA ResolveStep ==
  ASSUME RInv, NEW r \in Slots, Resolve(r)
  PROVE  RInv'
<1> DEFINE q == request[r]
<1>1. /\ UNCHANGED <<storeVars, policy, live, session, contexts, count>>
      /\ q.at = "reading" /\ q.todo = {} /\ q.call.selector.space # "list"
      /\ count' \in [edits : 0..MaxEdits, requests : 0..MaxRequests]
  BY DEF Resolve, RInv, RouteInv
<1>2. ReaderInv(q)
  BY <1>1, OfReader DEF Readers
<1>3. CASE Refused(q.lease, q.call, "rejected") /\ request' = [request EXCEPT ![r] = Free]
  <2> DEFINE a == [lease |-> q.lease, call |-> q.call, refused |-> "rejected", models |-> {}]
  <2>1. Moves(r, Free, {a}) /\ UNCHANGED contexts
    BY <1>1, <1>3 DEF Moves, Refused
  <2>2. AnsweredInv(a)
    BY <1>2 DEF AnsweredInv, AnswerInv, ReaderInv, ReadInv, None
  <2> HIDE DEF a
  <2>3. QED  BY <2>1, <2>2, StepWithAnswer
<1>4. ASSUME Targets(q) # {}, UNCHANGED answers,
             request' = [request EXCEPT ![r] = [at |-> "resolved", q |-> q,
                                                target |-> CHOOSE t \in Targets(q) : TRUE]]
      PROVE  RInv'
  <2> DEFINE t == CHOOSE x \in Targets(q) : TRUE
             new == [at |-> "resolved", q |-> q, target |-> t]
             a == Decision(q, t)
  <2>1. t \in Targets(q)
    BY <1>4
  <2> HIDE DEF t
  <2>2. DecideInv(a) /\ Follows(a, q.session) /\ a.lease = q.lease /\ a.call = q.call /\ a.parent = q.parent
    BY <1>1, <1>2, <2>1, TargetFacts DEF ReaderInv, Decision
  <2>3. new.at = "resolved" /\ new.q = q /\ new.target = t
    OBVIOUS
  <2>4. Moves(r, new, {}) /\ UNCHANGED contexts
    BY <1>1, <1>4 DEF t, Moves
  <2> HIDE DEF new
  <2>5. DecisionInv(a)
    BY <1>2, <2>2 DEF DecisionInv, ReaderInv
  <2>6. SlotInv(new)
    BY <2>3, <2>5 DEF SlotInv
  <2>7. QED  BY <2>4, <2>6, StepOfSlot
<1>5. QED  BY <1>3, <1>4 DEF Resolve

LEMMA FinishStep ==
  ASSUME RInv, NEW r \in Slots, Finish(r)
  PROVE  RInv'
<1> DEFINE q == request[r].q
           m == request[r].target.model
           a == Decision(q, request[r].target)
<1>1. /\ request[r].at = "resolved" /\ UNCHANGED <<storeVars, policy, live, session, count>>
      /\ request' = [request EXCEPT ![r] = Free] /\ answers' = answers \cup {a}
      /\ contexts' = IF Wired /\ ~Projected(q.call) THEN Recorded(q.lease, q.call.agent, m) ELSE contexts
  BY DEF Finish
<1>2. DecisionInv(a)
  BY <1>1, OfDecision DEF Decided, Resolved
<1>3. /\ a.lease = q.lease /\ a.call = q.call /\ a.target.model = m /\ a.refused = None
  BY DEF Decision
<1>4. Moves(r, Free, {a})
  BY <1>1 DEF Moves, RInv, RouteInv
<1> HIDE DEF a
<1>5. /\ a.lease \in Leases /\ a.call \in Calls[a.lease] /\ m \in Models /\ a.models = {m}
      /\ a.call.selector.space # "list"
  BY <1>2, <1>3 DEF DecisionInv, DecideInv
<1>6. AnsweredInv(a)
  BY <1>2, <1>5 DEF AnsweredInv, AnswerInv
<1>7. ASSUME NEW k \in DOMAIN contexts'
      PROVE  ContextInv(k, contexts'[k])
  <2>2. CASE k \in DOMAIN contexts /\ contexts'[k] = contexts[k]
    BY <2>2 DEF RInv
  <2>3. CASE k = <<q.lease, q.call.agent>> /\ contexts'[k] = m
    <3>1. q.call.agent \in Agents
      BY <1>3, <1>5 DEF Agents
    <3>2. QED  BY <1>3, <1>5, <2>3, <3>1 DEF ContextInv
  <2>4. QED  BY <1>1, <1>7, <2>2, <2>3 DEF Recorded
<1>8. ContextsInv'
  BY <1>7 DEF ContextsInv
<1>9. QED  BY <1>4, <1>6, <1>8, StepWithAnswer

\* A step of a launch or of an owner touches no request and no answer.
LEMMA LaunchStep ==
  ASSUME RInv, UNCHANGED <<storeVars, request, answers>>, RouteInv', ContextsInv',
         \A l \in Leases : \A s : FrozenFor(l, s) => \E t \in LaunchSessions \cup {NoSession} : FrozenFor(l, t)'
  PROVE  RInv'
<1>1. StoreInv' /\ Bans' = Bans /\ InForce' = InForce /\ Promoted' = Promoted
  BY StoreKept DEF RInv
<1>2. Readers' = Readers /\ Served' = Served /\ Decided' = Decided
  BY DEF Readers, Served, Decided, Resolved
<1>3. \A r \in Readers' : ReadInv(request'[r]) /\ Notes(request'[r], Bans', InForce', Promoted')
  BY <1>1, <1>2 DEF RInv, Aware
<1>4. /\ \A a \in Decided' : DecideInv(a)
      /\ \A a \in answers' : AnswerInv(a)
  BY <1>2 DEF RInv
<1>5. \A l \in Leases : \E s \in LaunchSessions \cup {NoSession} : FrozenFor(l, s)'
  BY DEF RInv
<1>6. QED  BY <1>1, <1>3, <1>4, <1>5 DEF RInv, ContextsInv, Aware

LEMMA IssueStep ==
  ASSUME RInv, NEW l \in Leases, IssueSession(l), UNCHANGED storeVars
  PROVE  RInv'
<1>1. PICK f \in DOMAIN policy.profiles :
        policy.profiles[f].pool \in DOMAIN policy.pools /\ Issue(l, SessionFor(policy, f))
  BY DEF IssueSession
<1>2. PICK issued \in LaunchSessions : Issue(l, issued)
  BY <1>1 DEF LaunchSessions, RInv, RouteInv
<1>3. /\ UNCHANGED <<policy, live, contexts, request, answers, count>>
      /\ l \in live /\ session[l] = NoSession /\ session' = [session EXCEPT ![l] = issued]
  BY <1>2 DEF IssueSession, Issue
<1>4. RouteInv'
  BY <1>2, <1>3 DEF RInv, RouteInv
<1>5. ContextsInv'
  BY <1>3 DEF RInv, ContextsInv, ContextInv
<1>6. ASSUME NEW k \in Leases, NEW s, FrozenFor(k, s)
      PROVE  \E t \in LaunchSessions \cup {NoSession} : FrozenFor(k, t)'
  <2>1. Readers' = Readers /\ Decided' = Decided
    BY <1>3 DEF Readers, Decided, Served, Resolved
  <2>2. CASE k = l
    <3>1. /\ \A r \in Readers : request[r].lease # l
          /\ \A a \in Decided : a.lease # l
      BY <1>3, <1>6, <2>2 DEF FrozenFor, Settled
    <3>2. session'[l] = issued
      BY <1>3 DEF RInv, RouteInv
    <3>3. FrozenFor(k, issued)'
      BY <1>3, <2>1, <2>2, <3>1, <3>2 DEF FrozenFor, Readers
    <3>4. QED  BY <3>3
  <2>3. CASE k # l
    <3>1. PICK t \in LaunchSessions \cup {NoSession} : FrozenFor(k, t)
      BY DEF RInv
    <3>2. session'[k] = session[k] /\ Settled(k)' = Settled(k)
      BY <1>3, <2>3 DEF Settled, RInv, RouteInv
    <3>3. FrozenFor(k, t)'
      BY <1>3, <2>1, <3>1, <3>2 DEF FrozenFor
    <3>4. QED  BY <3>3
  <2>4. QED  BY <2>2, <2>3
<1>7. UNCHANGED <<storeVars, request, answers>>
  BY <1>3
<1>8. QED  BY <1>4, <1>5, <1>6, <1>7, LaunchStep

\* What was asked under a lease that keeps its session, or that ends, is as it was.
LEMMA FrozenKept ==
  ASSUME RInv, UNCHANGED <<request, answers>>, NEW k \in Leases, k \in live' => k \in live,
         session'[k] = session[k] \/ (session'[k] = NoSession /\ k \notin live')
  PROVE  \E t \in LaunchSessions \cup {NoSession} : FrozenFor(k, t)'
<1>1. PICK t \in LaunchSessions \cup {NoSession} : FrozenFor(k, t)
  BY DEF RInv
<1>2. Settled(k) => Settled(k)'
  BY DEF Settled
<1>3. Readers' = Readers /\ Decided' = Decided
  BY DEF Readers, Decided, Served, Resolved
<1>4. FrozenFor(k, t)'
  BY <1>1, <1>2, <1>3 DEF FrozenFor
<1>5. QED  BY <1>4

LEMMA EndLeaseStep ==
  ASSUME RInv, NEW l \in Leases, EndLease(l)
  PROVE  RInv'
<1>1. /\ UNCHANGED <<storeVars, policy, request, answers, count>>
      /\ live' = live \ {l} /\ session' = [session EXCEPT ![l] = NoSession]
  BY DEF EndLease
<1>2. RouteInv'
  BY <1>1 DEF RInv, RouteInv
<1>3. \A k \in DOMAIN contexts' : k \in DOMAIN contexts /\ contexts'[k] = contexts[k]
  BY DEF EndLease
<1>4. ContextsInv'
  BY <1>1, <1>3 DEF RInv, ContextsInv, ContextInv
<1>5. ASSUME NEW k \in Leases
      PROVE  \E t \in LaunchSessions \cup {NoSession} : FrozenFor(k, t)'
  <2>1. \/ k \notin live' /\ session'[k] = NoSession
        \/ (k \in live' => k \in live) /\ session'[k] = session[k]
    BY <1>1 DEF RInv, RouteInv
  <2>2. UNCHANGED <<request, answers>>
    BY <1>1
  <2>3. QED  BY <2>1, <2>2, FrozenKept
<1>6. UNCHANGED <<storeVars, request, answers>>
  BY <1>1
<1>7. QED  BY <1>2, <1>4, <1>5, <1>6, LaunchStep

LEMMA EditPolicyStep ==
  ASSUME RInv, EditPolicy
  PROVE  RInv'
<1>1. UNCHANGED <<storeVars, live, session, contexts, request, answers>> /\ policy' \in Policies
      /\ count' = [count EXCEPT !.edits = @ + 1] /\ count.edits < MaxEdits
  BY DEF EditPolicy
<1>2. RouteInv'
  BY <1>1, RoutingAssumption DEF RInv, RouteInv
<1>3. ContextsInv'
  BY <1>1 DEF RInv, ContextsInv, ContextInv
<1>4. UNCHANGED <<storeVars, request, answers>> /\ live' = live /\ session' = session
  BY <1>1
<1>5. \A k \in Leases : \E t \in LaunchSessions \cup {NoSession} : FrozenFor(k, t)'
  BY <1>4, FrozenKept
<1>6. QED  BY <1>2, <1>3, <1>4, <1>5, LaunchStep

LEMMA CompatibilityStep ==
  ASSUME RInv, CompatibilityChanges
  PROVE  RInv'
<1>1. /\ StoreInv' /\ UNCHANGED <<policy, live, session, contexts, answers, count>>
      /\ request' = [r \in Slots |-> Watched(request[r])]
  BY StoreStepInv DEF CompatibilityChanges, RInv
<1>2. ASSUME NEW r \in Slots, request[r].at # "reading"
      PROVE  request'[r] = request[r]
  BY <1>1, <1>2 DEF Watched
<1>3. ASSUME NEW r \in Slots, request[r].at = "reading"
      PROVE  /\ request'[r].at = "reading" /\ request'[r].lease = request[r].lease
             /\ request'[r].call = request[r].call /\ request'[r].session = request[r].session
             /\ ReadInv(request'[r]) /\ Notes(request'[r], Bans', InForce', Promoted')
  <2> DEFINE q == request[r]
             keys == KeysOf(q.call, q.session)
             banned == q.banned \cap Bans'
             inForce == q.inForce \cup OfKeys(InForce', keys)
             promoted == q.promoted \cup OfKeys(Promoted', keys)
             new == request'[r]
  <2>1. ReadInv(q)
    BY <1>3 DEF RInv, Readers
  <2>2. new = [q EXCEPT !.banned = banned, !.inForce = inForce, !.promoted = promoted]
    BY <1>1, <1>3 DEF Watched
  <2> HIDE DEF banned, inForce, promoted, new
  <2>3. new = [z \in Holds |-> IF z = "banned" THEN banned ELSE IF z = "inForce" THEN inForce
                               ELSE IF z = "promoted" THEN promoted ELSE q[z]]
    BY <2>1, <2>2, ReadingRecord DEF ReadInv
  <2>4. /\ new.at = "reading" /\ new.lease = q.lease /\ new.call = q.call /\ new.session = q.session
        /\ new.todo = q.todo /\ new.got = q.got /\ new.snap = q.snap /\ new.banned = banned
        /\ new.inForce = inForce /\ new.promoted = promoted /\ new = [z \in Holds |-> new[z]]
    BY <1>3, <2>3 DEF Holds
  <2>5. \A key, x, doc : /\ LabelInv(q, key, x) => LabelInv(new, key, x)
                         /\ DocInv(q, key, x, doc) => DocInv(new, key, x, doc)
    BY <2>4, KnowledgeKept DEF banned, inForce, promoted
  <2>6. Current(new) = Current(q)
    BY <2>4 DEF Current
  <2>7. ReadInv(new)
    BY <2>1, <2>4, <2>5, <2>6 DEF ReadInv
  <2>8. Notes(new, Bans', InForce', Promoted')
    BY <2>4 DEF Notes, banned, inForce, promoted
  <2>9. QED  BY <2>4, <2>7, <2>8 DEF new
<1>4. /\ Readers' = Readers /\ Resolved' = Resolved /\ Served' = Served
      /\ \A r \in Slots : request'[r].at = request[r].at
  BY <1>1, <1>2, <1>3 DEF Readers, Resolved, Served
<1>5. Decided' = Decided
  BY <1>2, <1>4 DEF Decided, Resolved
<1>6. RouteInv'
  BY <1>1, <1>4 DEF RInv, RouteInv
<1>7. \A k \in DOMAIN contexts' : ContextInv(k, contexts'[k])
  BY <1>1 DEF RInv
<1>8. \A r \in Readers' : ReadInv(request'[r]) /\ Notes(request'[r], Bans', InForce', Promoted')
  BY <1>3, <1>4 DEF Readers
<1>9. /\ \A a \in Decided' : DecideInv(a)
      /\ \A a \in answers' : AnswerInv(a)
  BY <1>1, <1>4, <1>5 DEF RInv
<1>10. ASSUME NEW l \in Leases
       PROVE  \E s \in LaunchSessions \cup {NoSession} : FrozenFor(l, s)'
  <2>1. PICK s \in LaunchSessions \cup {NoSession} : FrozenFor(l, s)
    BY DEF RInv
  <2>2. Settled(l)' = Settled(l) /\ session' = session
    BY <1>1 DEF Settled
  <2>3. \A r \in Readers' : request'[r].lease = l => request'[r].session = s /\ Settled(l)
    BY <1>3, <1>4, <2>1 DEF FrozenFor, Readers
  <2>4. FrozenFor(l, s)'
    BY <1>5, <2>1, <2>2, <2>3 DEF FrozenFor
  <2>5. QED  BY <2>4
<1>11. QED  BY <1>1, <1>6, <1>7, <1>8, <1>9, <1>10 DEF RInv, Aware

-----------------------------------------------------------------------------
(* Theorems. *)

LEMMA InitInv ==
  ASSUME Init
  PROVE  RInv
<1>1. StoreInv
  BY StoreAssumption DEF Init, StoreInit, StoreInv, StoreTypeOK, JobInv
<1>2. RouteInv
  BY RoutingAssumption DEF Init, RouteInv, Free
<1>3. Readers = {} /\ Decided = {} /\ answers = {} /\ DOMAIN contexts = {}
  BY DEF Init, Readers, Decided, Served, Resolved, Free
<1>4. \A l \in Leases : FrozenFor(l, NoSession)
  BY <1>3 DEF Init, FrozenFor
<1>5. QED  BY <1>1, <1>2, <1>3, <1>4 DEF RInv

LEMMA NextInv ==
  ASSUME RInv, [Next]_vars
  PROVE  RInv'
<1>1. ASSUME NEW l \in Leases, IssueSession(l), UNCHANGED storeVars  PROVE RInv'
  BY <1>1, IssueStep
<1>2. ASSUME NEW l \in Leases, EndLease(l)  PROVE RInv'
  BY <1>2, EndLeaseStep
<1>3. ASSUME NEW r \in Slots, NEW l \in Leases, NEW c \in Calls[l], Begin(r, l, c)  PROVE RInv'
  BY <1>3, BeginStep
<1>4. ASSUME NEW r \in Slots, ReadDocument(r) \/ AnswerList(r) \/ Resolve(r) \/ Finish(r)  PROVE RInv'
  BY <1>4, ReadDocumentStep, AnswerListStep, ResolveStep, FinishStep
<1>5. CASE EditPolicy \/ CompatibilityChanges
  BY <1>5, EditPolicyStep, CompatibilityStep
<1>6. CASE UNCHANGED vars
  <2>1. UNCHANGED <<storeVars, policy, live, session, contexts, request, answers, count>>
    BY <1>6 DEF vars, routeVars
  <2>2. RouteInv' /\ ContextsInv'
    BY <2>1 DEF RInv, RouteInv, ContextsInv, ContextInv
  <2>3. \A k \in Leases : \E t \in LaunchSessions \cup {NoSession} : FrozenFor(k, t)'
    BY <2>1, FrozenKept
  <2>4. UNCHANGED <<storeVars, request, answers>>
    BY <2>1
  <2>5. QED  BY <2>2, <2>3, <2>4, LaunchStep
<1>7. QED  BY <1>1, <1>2, <1>3, <1>4, <1>5, <1>6 DEF Next

\* The invariant: what requests hold between their awaits, and the session they hold.
THEOREM RoutingInvariance == Spec => []RInv
BY InitInv, NextInv, PTL DEF Spec

\* Every variable keeps its type: stores, sessions, contexts and answers.
THEOREM RoutingTypeCorrect == Spec => []TypeOK
<1>1. ASSUME RInv  PROVE TypeOK
  <2>1. {[of |-> k, model |-> contexts[k]] : k \in DOMAIN contexts} \subseteq ExecutionContext
    <3>1. ASSUME NEW k \in DOMAIN contexts
          PROVE  [of |-> k, model |-> contexts[k]] \in ExecutionContext
      <4>1. k \in Leases \X Agents /\ contexts[k] \in Models
        BY <1>1 DEF RInv, ContextInv
      <4>2. QED  BY <4>1 DEF ExecutionContext, Agents
    <3>2. QED  BY <3>1
  <2>2. \A a \in answers : a.lease \in Leases /\ a.call \in Calls[a.lease] /\ a.models \subseteq Models
    BY <1>1 DEF RInv, AnswerInv
  <2>3. QED  BY <1>1, <2>1, <2>2 DEF RInv, StoreInv, RouteInv, TypeOK
<1>2. QED  BY <1>1, RoutingInvariance, PTL

\* profiles/sessions.ts: whatever owners edit while a launch runs, the same call of
\* it is served by the same pool, and by the same model unless its tier is derived.
THEOREM TargetFrozen == Spec => []SessionTargetFrozen
<1>1. ASSUME RInv  PROVE SessionTargetFrozen
  <2>1. SUFFICES ASSUME NEW a \in Served, NEW b \in Served, a.lease = b.lease, a.call = b.call
                 PROVE  /\ a.target.pool = b.target.pool
                        /\ (a.target.how = b.target.how /\ a.target.how # "derived" /\ a.parent = b.parent) =>
                             a.target.model = b.target.model
    BY DEF SessionTargetFrozen
  <2>2. a \in Decided /\ b \in Decided /\ a.lease \in Leases
    BY <1>1 DEF Decided, RInv, DecideInv
  <2>3. PICK s \in LaunchSessions \cup {NoSession} : FrozenFor(a.lease, s)
    BY <1>1, <2>2 DEF RInv
  <2>4. Follows(a, s) /\ Follows(b, s)
    BY <2>1, <2>2, <2>3 DEF FrozenFor
  <2>5. QED  BY <2>1, <2>4, NamedUnique DEF Follows
<1>2. QED  BY <1>1, RoutingInvariance, PTL

\* routing/model-tiers/resolver.ts: the tiers of one launch are of one family, whichever
\* agent asks, whatever owners edit, and however each of them was found.
THEOREM FamilyKept == Spec => []TierStaysInFamily
<1>1. ASSUME RInv  PROVE TierStaysInFamily
  <2>1. SUFFICES ASSUME NEW a \in Served, NEW b \in Served, a.lease = b.lease, a.parent = b.parent,
                        {a.target.how, b.target.how} \subseteq {"mapping", "derived"}
                 PROVE  FamilyOf[a.target.model] = FamilyOf[b.target.model]
    BY DEF TierStaysInFamily
  <2>2. a \in Decided /\ b \in Decided /\ a.lease \in Leases
    BY <1>1 DEF Decided, RInv, DecideInv
  <2>3. PICK s \in LaunchSessions \cup {NoSession} : FrozenFor(a.lease, s)
    BY <1>1, <2>2 DEF RInv
  <2>4. Follows(a, s) /\ Follows(b, s)
    BY <2>1, <2>2, <2>3 DEF FrozenFor
  <2>5. QED  BY <2>1, <2>4 DEF Follows
<1>2. QED  BY <1>1, RoutingInvariance, PTL

\* compatibility/effective.ts, with the bypass off, as the default policy has it:
\* no pin and no tier is served a claim that was under one ban all the while its three
\* documents were read.
THEOREM NotBanned ==
  ASSUME ~AllowQuarantineBypass
  PROVE  Spec => []AnswerNotBanned
<1>1. ASSUME RInv  PROVE AnswerNotBanned
  <2>1. SUFFICES ASSUME NEW a \in Served, NEW m \in a.models,
                        NEW f \in RequestFeatures(a.call), NEW why \in Reasons
                 PROVE  <<<<m, f>>, why>> \notin a.banned
    BY DEF AnswerNotBanned
  <2>2. DecideInv(a)
    BY <1>1 DEF Decided, RInv
  <2>3. QED  BY <2>1, <2>2 DEF DecideInv
<1>2. QED  BY <1>1, RoutingInvariance, PTL

\* routing/model-tiers and model-projection: a model that nobody pinned was promoted,
\* on evidence that was in force, for each feature it is used for or listed with.
THEOREM UnpinnedVouched == Spec => []UnpinnedIsVouched
<1>1. ASSUME RInv  PROVE UnpinnedIsVouched
  <2>1. ASSUME NEW a \in Served, a.target.how = "derived"
        PROVE  (a.models \X RequestFeatures(a.call)) \subseteq a.vouched
    <3>1. DecideInv(a)
      BY <1>1 DEF Decided, RInv
    <3>2. QED  BY <2>1, <3>1 DEF DecideInv
  <2>2. ASSUME ~ExperimentalModels, NEW a \in Lists, NEW m \in a.models
        PROVE  {m} \X EvidenceFeatures(m) \subseteq a.vouched
    <3>1. ListInv(a)
      BY <1>1 DEF Lists, RInv, AnswerInv
    <3>2. QED  BY <2>2, <3>1 DEF ListInv
  <2>3. QED  BY <2>1, <2>2 DEF UnpinnedIsVouched
<1>2. QED  BY <1>1, RoutingInvariance, PTL

=============================================================================
