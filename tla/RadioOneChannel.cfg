SPECIFICATION FairSpec
CONSTANTS
  HasPrio = FALSE
  Workloads <- MCOneChannel
INVARIANT SimReadyConfigured
PROPERTY SimNoticed
CHECK_DEADLOCK FALSE
