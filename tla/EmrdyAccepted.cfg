SPECIFICATION FairSpec
CONSTANTS
  None = None
  r1 = r1
  r2 = r2
  Requests <- MCOne
  HasPrio = TRUE
  PrioRequests <- MCNone
  SimStatus <- MCNone
  Delays <- NoDelay
  MaxEvents = 0
  MaxTime = 0
  MaxFaults = 0
PROPERTY EmrdyAccepted
CHECK_DEADLOCK FALSE
