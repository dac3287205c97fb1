---------------------------- MODULE ServiceManager ----------------------------
(* The per-user service managers (src/src/service-manager): what the systemd *)
(* and launchd adapters do to the service, and the reconciliation of its     *)
(* definition.  A service is the definition on disk, the one the manager has *)
(* loaded, the one its process was started from, and whether it is enabled.  *)
(* Every operation is the set of its outcomes, a command of the manager that *)
(* fails being one of them.                                                  *)
EXTENDS Naturals

CONSTANT Platform
ASSUME PlatformAssumption == Platform \in {"linux", "darwin", "other"}

\* What a definition says: the stable bootstrap with this configuration, the
\* bootstrap with other paths, or a node binary and a module of the package.
Definitions == {"expected", "drifted", "legacy"}
Absent == "absent"
Service == [file : Definitions \cup {Absent}, loaded : Definitions \cup {Absent},
            running : Definitions \cup {Absent}, enabled : BOOLEAN]
NoService == [file |-> Absent, loaded |-> Absent, running |-> Absent, enabled |-> FALSE]

\* createServiceManager: only these two platforms have an adapter.
IsSupported == Platform # "other"
IsRegistered(s) == IsSupported /\ s.file # Absent

Done(s)   == [svc |-> s, ok |-> TRUE]
Failed(s) == [svc |-> s, ok |-> FALSE]

(***************************************************************************)
(* systemd --user.                                                         *)
(***************************************************************************)
\* No reachable user manager: refused before anything is touched.  The reload
\* follows a changed unit only.
SystemdRegister(s) ==
  LET written == [s EXCEPT !.file = "expected"]
  IN  {Failed(s)} \cup
      IF s.file = "expected" THEN {Done(s)}
      ELSE {Failed(written), Done([written EXCEPT !.loaded = "expected"])}

\* enable --now makes the manager read the unit again and starts it, or leaves
\* the process that is running.
SystemdStart(s) ==
  LET enabled == [s EXCEPT !.enabled = TRUE, !.loaded = s.file]
  IN  {Failed(s), Failed(enabled)} \cup
      IF s.file = Absent THEN {}
      ELSE {Done([enabled EXCEPT !.running = IF s.running = Absent THEN s.file ELSE s.running])}

\* Neither a failing disable nor a failing reload keeps the unit.
SystemdUnregister(s) ==
  {Done([s EXCEPT !.file = Absent]), Done(NoService)}

(***************************************************************************)
(* launchd.  RunAtLoad starts what is bootstrapped.                        *)
(***************************************************************************)
LaunchdBootout(s) == [s EXCEPT !.loaded = Absent, !.running = Absent]

\* A job that is loaded already is not loaded again: the error is tolerated.
LaunchdBootstrap(s) ==
  {Failed(s)} \cup
  IF s.loaded # Absent THEN {Done(s)}
  ELSE {Done([s EXCEPT !.loaded = s.file, !.running = s.file])}

\* The plist is written first; a changed one must then be unloaded.
LaunchdRegister(s) ==
  LET written == [s EXCEPT !.file = "expected"]
  IN  IF s.file \in {Absent, "expected"} THEN LaunchdBootstrap(written)
      ELSE {Failed(written)} \cup LaunchdBootstrap(LaunchdBootout(written))

LaunchdStart(s) ==
  {Failed(s)} \cup
  IF s.loaded = Absent THEN {}
  ELSE {Done([s EXCEPT !.running = IF s.running = Absent THEN s.loaded ELSE s.running])}

LaunchdUnregister(s) ==
  {Done([s EXCEPT !.file = Absent]), Done(NoService)}

(***************************************************************************)
(* The adapter of the platform.                                            *)
(***************************************************************************)
Register(s) ==
  CASE Platform = "linux"  -> SystemdRegister(s)
    [] Platform = "darwin" -> LaunchdRegister(s)
    [] OTHER -> {Failed(s)}

Start(s) ==
  CASE Platform = "linux"  -> SystemdStart(s)
    [] Platform = "darwin" -> LaunchdStart(s)
    [] OTHER -> {Failed(s)}

Unregister(s) ==
  CASE ~IsRegistered(s)    -> {Done(s)}
    [] Platform = "linux"  -> SystemdUnregister(s)
    [] OTHER               -> LaunchdUnregister(s)

\* A new login session: the manager loads what is on disk.
Login(s) ==
  IF s.file # Absent /\ (Platform = "darwin" \/ s.enabled)
  THEN [s EXCEPT !.loaded = s.file, !.running = s.file]
  ELSE [s EXCEPT !.loaded = Absent, !.running = Absent]

(***************************************************************************)
(* Reconciliation: the file on disk decides, and nothing else.             *)
(***************************************************************************)
BugDetectDefinition(s) ==
  IF ~IsSupported THEN "unsupported" ELSE IF s.file = Absent THEN "missing" ELSE "ok"

DetectDefinition(s) ==
  CASE ~IsSupported         -> "unsupported"
    [] s.file = Absent      -> "missing"
    [] s.file # "expected"  -> "stale"
    [] OTHER                -> "ok"

ReconcileDefinition(s) ==
  IF DetectDefinition(s) \in {"ok", "unsupported"} THEN {[svc |-> s, status |-> DetectDefinition(s)]}
  ELSE {[svc |-> o.svc, status |-> IF o.ok THEN "repaired" ELSE "failed"] : o \in Register(s)}
=============================================================================
