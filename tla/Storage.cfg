SPECIFICATION Spec
CONSTANTS
  p1 = p1
  p2 = p2
  Procs = {p1, p2}
  Gateway = p1
  Target <- OldAndNew
  MaxSchema = 3
  InitialRoots <- AnyRoots
  Reclaimers = 1
  MaxWrites = 1
  MaxCrashes = 2
  MaxFailures = 1
  MaxAges = 1
INVARIANT
  WholeWhenUnmarked
  AckedSurvives
  MarkerHasBackup
PROPERTY
  RetentionCoversAll
