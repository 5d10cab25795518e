SPECIFICATION Spec
CONSTANTS
  None = None
  Garbled = {}
  Chunks <- TextAndCall
  Composes = FALSE
  MaxChunks = 1
  MaxMessages = 3
INVARIANTS
  OnlyPendingCalls
\* The generator stops after its last chunk, on an error, or when it is abandoned.
CHECK_DEADLOCK FALSE
