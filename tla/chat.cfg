SPECIFICATION FairSpec
CONSTANTS
  None = None
  Garbled = {4}
  Chunks <- AnyChunks
  Composes = TRUE
  MaxChunks = 3
  MaxMessages = 4
INVARIANTS
  TypeOK
  Faithful
  CallsApart
  FinishMatches
  RoutesAgree
  ItemIdsUnique
  PageHonest
PROPERTIES
  Protocol
  Answered
\* The generator stops after its last chunk, on an error, or when it is abandoned.
CHECK_DEADLOCK FALSE
