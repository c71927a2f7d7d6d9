SPECIFICATION FairSpec
CONSTANTS
  Threads = {runner, other}
  Owner = runner
  None = None
  Prefixes <- MCPrefixes
  Commands <- MCPlainOnly
  UnsolPrefixes <- MCNoUnsol
  MaxCalls = 1
  HandshakeRetries = 2
  MaxInfo = 1
  MaxUnsol = 1
  MaxLost = 0
  MaxWire = 2
INVARIANTS OnePending NoLostWakeup
PROPERTY CallsReturn
CHECK_DEADLOCK FALSE
