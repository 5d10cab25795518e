SPECIFICATION FairSpec
CONSTANTS
  None = None
  Models <- TwoModels
  Graphs <- TwoGraphs
  GraphOf <- OwnGraphs
  Databases <- Database
  CompiledWith <- OneCompiled
  Trims = TRUE
  Conversations = 1
  Kinds = {"response", "chat", "streamed chat"}
  Inputs <- FromUser
  Spellings = {"conv", "uuid", "text"}
  MaxRequests = 2
  MaxMessages = 1
INVARIANTS
  TypeOK
  Isolated
  Kept
PROPERTIES
  Served
\* Everything stops once the bounded number of requests has been answered.
CHECK_DEADLOCK FALSE
