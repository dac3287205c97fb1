CONSTANTS
  a1 = a1
  a2 = a2
  a3 = a3
  NoArtifact = NoArtifact
  Artifacts = {a1, a2, a3}
  Versions <- TwoVersions
  VersionOf <- SharedVersion
  CliVersion = 2
  Blocked = {a3}
  Unidentified = {}
  WritesFail = TRUE
  MaxSessions = 1
  MaxCrashes = 1
SYMMETRY SameVersionSymmetry
SPECIFICATION Spec
INVARIANTS
  JournalNamesStaged
  KnownGoodKept
  DrainedBeforeRestart
  SingleRollback
  RecordIsTrue
PROPERTIES
  WholeOrNotAtAll
