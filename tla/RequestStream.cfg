CONSTANTS
  a1 = a1
  a2 = a2
  a3 = a3
  r1 = r1
  s1 = s1
  NoAccount = NoAccount
  NoRequest = NoRequest
  Requests = {r1}
  Sessions = {s1}
  Pins <- ThreePins
  SessionOf <- OneSession
  Pools <- ThePools
  RetryBudget = 2
  MaxEvents = 3
  MaxChanges = 1
  Persists = TRUE
SPECIFICATION FairStreamSpec
INVARIANTS
  AttemptsSound
  WholeAttemptShown
  EndIsTold
PROPERTIES
  EveryStreamEnds
CHECK_DEADLOCK FALSE
