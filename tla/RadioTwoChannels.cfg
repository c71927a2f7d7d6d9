SPECIFICATION Spec
CONSTANTS
  HasPrio = TRUE
  Workloads <- MCTwoChannels
INVARIANTS
  TypeOK
  FrameworkInformed
  PowerAgrees
CHECK_DEADLOCK FALSE
