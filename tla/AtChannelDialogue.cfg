SPECIFICATION Spec
CONSTANTS
  Threads = {runner}
  Owner = runner
  None = None
  Prefixes <- MCPrefixes
  Commands <- MCCommands
  UnsolPrefixes <- MCUnsolPrefixes
  MaxCalls = 2
  HandshakeRetries = 2
  MaxInfo = 2
  MaxUnsol = 1
  MaxLost = 1
  MaxWire = 2
INVARIANTS TypeOK ResponseLag AnswerInOrder NoLeak
CHECK_DEADLOCK FALSE
