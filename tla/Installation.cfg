SPECIFICATION InstallationSpec
CONSTANTS
  p1 = p1
  p2 = p2
  Procs = {p1}
  Channels = {"stable"}
  MaxRelease = 2
  MaxKills = 1
  Platform = "linux"
INVARIANTS
  StoreServes
PROPERTIES
  StagingIsSafe
  InitLoadsDefinition
CHECK_DEADLOCK FALSE
