SPECIFICATION FairSpec
CONSTANTS
  r2 = r2
  None = None
  r1 = r1
  Requests <- MCOne
  HasPrio = TRUE
  PrioRequests <- MCNone
  SimStatus <- MCNone
  Delays <- NoDelay
  MaxEvents = 0
  MaxTime = 0
  MaxFaults = 2
INVARIANTS
  NoMissedWakeup
  ServingMeansAvailable
  DeadChannelNoticed
PROPERTIES
  RequestsServed
  Recovers
CHECK_DEADLOCK FALSE
