CONSTANTS
  l1 = l1
  l2 = l2
  NoLaunch = NoLaunch
  Launches = {l1, l2}
  ViewOf <- OneProfile
  Versions = {"v1", "v2"}
  Canonical = {"v1"}
  Explicit = FALSE
  Trees <- NewOrShared
  Edits <- Removals
  Written = {"settings", "agent"}
  Signals = {"SIGINT"}
  MaxNativeEdits = 1
  MaxChild = 1
  MaxCrashes = 1
  MaxDepth = 3
SYMMETRY SameLaunches
INIT LaunchInit
NEXT LaunchNext
INVARIANTS
  CopiesConverge
  
PROPERTIES
  EditsAreNotDeleted
  ProfileViewStays
CHECK_DEADLOCK FALSE
