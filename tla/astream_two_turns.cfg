SPECIFICATION Spec
CONSTANTS
  None = None
  Garbled = {}
  Chunks <- TwoTurns
  StreamableNodes <- Agent
  MaxChunks = 2
INVARIANTS
  CallsReassembled
\* The generator stops after its last event or when it is abandoned.
CHECK_DEADLOCK FALSE
