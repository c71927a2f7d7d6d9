SPECIFICATION FairSpec
CONSTANTS
  Threads = {runner}
  Owner = runner
  None = None
  Prefixes <- MCPrefixes
  Commands <- MCPlainOnly
  UnsolPrefixes <- MCNoUnsol
  MaxCalls = 2
  HandshakeRetries = 2
  MaxInfo = 1
  MaxUnsol = 0
  MaxLost = 0
  MaxWire = 2
PROPERTY HandshakeDrained
CHECK_DEADLOCK FALSE
