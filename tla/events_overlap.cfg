SPECIFICATION Spec
CONSTANTS
  None = None
  Chunks <- FewChunks
  StreamableNodes = None
  MaxOpen = 2
  Faults <- AllFaults
  MaxRuns = 2
  MaxChunks = 2
  MaxTools = 2
INVARIANTS
  OutputIsDone
  ArgsOnce
  IndexUnique
  OutputsMatched
\* The generator stops after its last event or when it is abandoned.
CHECK_DEADLOCK FALSE
