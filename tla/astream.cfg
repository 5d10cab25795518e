SPECIFICATION FairSpec
CONSTANTS
  None = None
  Garbled = {}
  Chunks <- OneTurn
  StreamableNodes <- Agent
  MaxChunks = 4
INVARIANTS
  TypeOK
  Assembled
  DeltasInOrder
  OnlyListedNodes
  NothingLost
  CallsReassembled
  CallIdStable
  SameAsStored
PROPERTIES
  Protocol
  Answered
\* The generator stops after its last event or when it is abandoned.
CHECK_DEADLOCK FALSE
