CONSTANTS
  p1 = p1
  p2 = p2
  Procs = {p1, p2}
  NoTask = NoTask
  MaxTokens = 3
  MaxVersion = 2
  MaxCrashes = 1
SYMMETRY ProcessSymmetry
SPECIFICATION Spec
CHECK_DEADLOCK FALSE
INVARIANTS
  GenerationCommittedOnce
  AccountNotAhead
PROPERTIES
  CommitsKept
