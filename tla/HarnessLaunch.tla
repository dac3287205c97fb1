---------------------------- MODULE HarnessLaunch ----------------------------
(***************************************************************************)
(* `rly <profile>` from its lease to the exit of the harness: the lease is *)
(* taken, the view prepared (ClaudeOverlay), Claude started in the         *)
(* foreground, signals forwarded with a bounded shutdown, and the lease    *)
(* released (src/cli/main.ts, src/runtime/child-launcher.ts,               *)
(* src/runtime/shutdown-controller.ts).                                    *)
(***************************************************************************)
EXTENDS ClaudeOverlay, FiniteSets

CONSTANT Signals  \* of SIGINT and SIGTERM

VARIABLES
  lease,  \* does the launch hold a gateway lease?
  child,  \* its Claude process
  stop,   \* the launcher's one shutdown
  heard   \* the signals whose once-only listener is used up

launch == <<lease, child, stop, heard>>
launchVars == <<overlayVars, launch>>

LaunchInit ==
  /\ OverlayInit
  /\ lease = [l \in Launches |-> FALSE]
  /\ child = [l \in Launches |-> "none"]
  /\ stop = [l \in Launches |-> "none"]
  /\ heard = [l \in Launches |-> {}]

Acquire(l) ==
  /\ Start(l)
  /\ lease' = [lease EXCEPT ![l] = TRUE]
  /\ UNCHANGED <<child, stop, heard>>

\* The finally block of the command.
Ends(l) ==
  /\ Becomes(l, [NewRun EXCEPT !.pc = "over"])
  /\ lease' = [lease EXCEPT ![l] = FALSE]
  /\ stop' = [stop EXCEPT ![l] = "none"]
  /\ heard' = [heard EXCEPT ![l] = {}]
  /\ UNCHANGED <<layout, files, records, faults>>

\* An update under way may refuse the launch, and the gateway its profile.
LaunchRefused(l) == At(l, "legacy") /\ Ends(l) /\ UNCHANGED child

\* Nothing of the preparation is undone, its lock file included.
PreparationFails(l) == At(l, "failed") /\ Ends(l) /\ UNCHANGED child

Spawn(l) ==
  /\ At(l, "ready")
  /\ Goto(l, "child")
  /\ child' = [child EXCEPT ![l] = "running"]
  /\ UNCHANGED <<layout, files, records, faults, lease, stop, heard>>

SpawnFails(l) == At(l, "ready") /\ Ends(l) /\ UNCHANGED child

\* The first signal asks the child to stop and starts the timer; the listeners
\* are once-only, so the same signal again kills the launcher.
Signal(l, s) ==
  /\ At(l, "child") /\ child[l] = "running"
  /\ IF s \in heard[l]
     THEN /\ Goto(l, "dead")
          /\ UNCHANGED <<stop, heard>>
     ELSE /\ heard' = [heard EXCEPT ![l] = @ \cup {s}]
          /\ stop' = [stop EXCEPT ![l] = IF @ = "none" THEN "asked" ELSE @]
          /\ UNCHANGED run
  /\ UNCHANGED <<layout, files, records, faults, lease, child>>

ForceStop(l) ==
  /\ At(l, "child") /\ stop[l] = "asked" /\ child[l] = "running"
  /\ child' = [child EXCEPT ![l] = "exited"]
  /\ stop' = [stop EXCEPT ![l] = "forced"]
  /\ UNCHANGED <<overlayVars, lease, heard>>

ChildExits(l) ==
  /\ child[l] = "running"
  /\ child' = [child EXCEPT ![l] = "exited"]
  /\ UNCHANGED <<overlayVars, lease, stop, heard>>

Closed(l) ==
  /\ At(l, "child") /\ child[l] = "exited"
  /\ Ends(l)
  /\ child' = [child EXCEPT ![l] = "none"]

\* Claude writes the file of a view it runs in, whoever started it.
ClaudeWrites(l, s) ==
  /\ child[l] = "running" /\ faults.child < MaxChild
  /\ IF s = "settings"
     THEN settings' = [settings EXCEPT !.model = "rly", !.extra = TRUE] /\ UNCHANGED view
     ELSE view' = [view EXCEPT ![s] = "mine"] /\ UNCHANGED settings
  /\ newer' = [newer EXCEPT ![s] = FALSE]
  /\ faults' = [faults EXCEPT !.child = @ + 1]
  /\ UNCHANGED <<layout, native, records, run, launch>>

\* The launcher is killed, or signalled with no child yet.
Dies(l) ==
  /\ run[l].pc \notin {"idle", "over", "dead"} /\ faults.crashes < MaxCrashes
  /\ Goto(l, "dead")
  /\ faults' = [faults EXCEPT !.crashes = @ + 1]
  /\ UNCHANGED <<layout, files, records, launch>>

\* The same user launches again.
Again(l) ==
  /\ At(l, "over")
  /\ Goto(l, "idle")
  /\ UNCHANGED <<layout, files, records, faults, launch>>

-----------------------------------------------------------------------------
Step(l) ==
  \/ Migrate(l) /\ UNCHANGED launch
  \/ Refresh(l) /\ UNCHANGED launch
  \/ LaunchRefused(l)
  \/ PreparationFails(l)
  \/ Spawn(l)
  \/ SpawnFails(l)
  \/ ForceStop(l)
  \/ Closed(l)

LaunchNext ==
  \/ \E l \in Launches :
       \/ Acquire(l)
       \/ Step(l)
       \/ \E s \in Signals : Signal(l, s)
       \/ ChildExits(l)
       \/ \E s \in Written : ClaudeWrites(l, s)
       \/ Dies(l)
       \/ Again(l)
  \/ \E s \in Surfaces, v \in Versions \cup {Absent} : NativeEdit(s, v) /\ UNCHANGED launch

\* A launcher's own steps are taken, its timers included; users and Claude owe
\* nothing.
LaunchSpec ==
  /\ LaunchInit /\ [][LaunchNext]_launchVars
  /\ \A l \in Launches : WF_launchVars(Step(l))

-----------------------------------------------------------------------------
(* Properties. *)

\* What the native files, the view and the two copies of its manifest may hold.
LaunchTypeOK ==
  /\ native \in [Surfaces -> Versions \cup {Absent}]
  /\ view \in [{"agent", "plugin"} -> Versions \cup {Absent, "mine", "projected"}]
  /\ settings \in Settings
  /\ manifest \in [exists : BOOLEAN, entries : [Surfaces -> Entry]]
  /\ lock \in Launches \cup {NoLaunch}
  /\ \A l \in Launches :
       /\ run[l].entries \in [Surfaces -> Entry]
       /\ {run[l].previous} \subseteq Settings

\* "refresh stays atomic and convergent": a copied file that will not be
\* refreshed again is the user's latest, or was written by Claude.
CopiesConverge ==
  native["agent"] # Absent /\ ~NeedsRefresh("agent") => view["agent"] \in {native["agent"], "mine"}

\* As long as every launch had the lock and none died, no file was put into the
\* view that the manifest does not know of, so that its removal can follow.
ImportsAreTracked ==
  ~faults.unlocked /\ faults.crashes = 0 /\ lock = NoLaunch =>
    \A s \in {"agent", "plugin"} :
      view[s] \notin {Absent, "mine"} => manifest.entries[s].kind # "none"

\* "a divergent view copy is ... never deleted": what Claude made of a file is
\* removed only by a launch that compared the file before Claude wrote it.
Removing(l, s) == At(l, IF s = "agent" THEN "removeAgent" ELSE "removePlugin")
EditsAreNotDeleted ==
  [][\A s \in {"agent", "plugin"} :
       view[s] = "mine" /\ view'[s] = Absent =>
         \E l \in Launches : Removing(l, s) /\ run[l].read # "mine"]_launchVars

\* The view of a profile stays where Claude was pointed to: only a launch that
\* looked for views before this one was there can take it away.
ProfileViewStays ==
  [][\A l \in Launches :
       child[l] = "running" /\ IsDir(ViewPath(l)) /\ ~IsDir(ViewPath(l))' =>
         \E m \in Launches : At(m, "moveOut") /\ ViewPath(l) \notin run[m].looked]_launchVars

\* A launch comes to its end, or to a child that nobody signalled, whatever
\* became of the lock and of the child.
LaunchSettles ==
  \A l \in Launches :
    ~At(l, "idle") ~> (run[l].pc \in {"over", "dead"} \/ (At(l, "child") /\ heard[l] = {}))

\* "Moves the legacy shared overlay into views/default exactly once": once a
\* launch has come past the migration, the shared overlay is there.
SharedOverlayMoved ==
  (\E l \in Launches : At(l, "ready")) /\ (\A l \in Launches : ~Migrating(l)) =>
    home = DefaultView

\* "delete only the owned allowlist projection when it still matches what we
\* imported": a projection nobody edited is not taken for the view's own.
ProjectionNotDisowned ==
  manifest.entries["plugin"].kind = "view-owned" => view["plugin"] = "mine"

\* "a persisted claude-rly-* projection model is RLY-owned state and wins".
ProjectionModelKept ==
  [][settings.model = "rly" => settings'.model = "rly"]_launchVars

\* The settings Claude reads are composed from the user's latest.
SettingsConverge ==
  native["settings"] # Absent /\ ~newer["settings"] /\ marker =>
    settings.theme = native["settings"]
=============================================================================
