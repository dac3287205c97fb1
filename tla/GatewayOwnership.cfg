CONSTANTS
  p1 = p1
  p2 = p2
  p3 = p3
  Procs = {p1, p2, p3}
  Residents = {p3}
  NoProc = NoProc
  Foreign = Foreign
  MaxCrashes = 2
SPECIFICATION FairSpec
CHECK_DEADLOCK FALSE
INVARIANTS
  SingleHolder
  PublishedStaysAttestable
  IdleStopUnleased
PROPERTIES
  UnusedGatewayStops
