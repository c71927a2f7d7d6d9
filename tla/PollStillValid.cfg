SPECIFICATION Spec
CONSTANTS
  HasPrio = TRUE
  Workloads <- MCNoFault
INVARIANT PollStillValid
CHECK_DEADLOCK FALSE
