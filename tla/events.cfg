SPECIFICATION FairSpec
CONSTANTS
  None = None
  Chunks <- AgentChunks
  StreamableNodes <- Agent
  MaxOpen = 1
  Faults <- NoFaults
  MaxRuns = 2
  MaxChunks = 3
  MaxTools = 1
INVARIANTS
  TypeOK
  NothingLost
  CallsReassembled
  SinkComplete
PROPERTIES
  Protocol
  Answered
\* The generator stops after its last event or when it is abandoned.
CHECK_DEADLOCK FALSE
