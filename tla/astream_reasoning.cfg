SPECIFICATION Spec
CONSTANTS
  None = None
  Garbled = {}
  Chunks <- ReasoningAndText
  StreamableNodes = None
  MaxChunks = 2
INVARIANTS
  DeltasAnchored
\* The generator stops after its last event or when it is abandoned.
CHECK_DEADLOCK FALSE
