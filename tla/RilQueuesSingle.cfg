SPECIFICATION Spec
CONSTANTS
  None = None
  r1 = r1
  r2 = r2
  Requests <- MCRequests
  HasPrio = FALSE
  PrioRequests <- MCPrio
  SimStatus <- MCSimStatus
  Delays <- MCDelays
  MaxEvents = 2
  MaxTime = 3
  MaxFaults = 1
INVARIANTS
  TypeOK
  EventOrder
PROPERTIES
  ImplementsService
CHECK_DEADLOCK FALSE
