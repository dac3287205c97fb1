CONSTANTS
  a1 = a1
  a2 = a2
  r1 = r1
  r2 = r2
  s1 = s1
  s2 = s2
  NoAccount = NoAccount
  NoRequest = NoRequest
  Requests = {r1, r2}
  Sessions = {s1, s2}
  Pins <- TwoPins
  SessionOf <- OwnSession
  Pools <- ThePools
  RetryBudget = 1
  MaxEvents = 1
  MaxChanges = 1
SPECIFICATION Spec
INVARIANTS
  RoundRobinFair
PROPERTIES
  SelectionIsCurrent
SYMMETRY Alike
VIEW View
CHECK_DEADLOCK FALSE
