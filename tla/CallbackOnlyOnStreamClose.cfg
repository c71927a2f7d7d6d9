SPECIFICATION Spec
CONSTANTS
  Threads = {runner}
  Owner = runner
  None = None
  Prefixes <- MCPrefixes
  Commands <- MCPlainOnly
  UnsolPrefixes <- MCNoUnsol
  MaxCalls = 1
  HandshakeRetries = 1
  MaxInfo = 1
  MaxUnsol = 0
  MaxLost = 0
  MaxWire = 2
INVARIANT CallbackOnlyOnStreamClose
CHECK_DEADLOCK FALSE
