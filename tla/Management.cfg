SPECIFICATION MCSpec
CONSTANTS
  pr1 = pr1
  a1 = a1
  t1 = t1
  t2 = t2
  Providers = {pr1, pr2}
  Accounts = {a1, a2}
  Pools = {"o1"}
  Profiles = {"f1"}
  Terms = {"2026"}
  Tabs = {t1, t2}
  System = system
  MaxChanges = 2
  MaxSessions = 1
  MaxTokens = 3
SYMMETRY SameTabs
INVARIANTS
  ReferencesAgree
  PolicyIsCurrent
PROPERTIES
  NoLostUpdate
CHECK_DEADLOCK FALSE
