SPECIFICATION FairSpec
CONSTANTS
  None = None
  Models <- OneModel
  Graphs <- TwoGraphs
  GraphOf <- OneGraph
  Databases <- Database
  CompiledWith <- OneCompiled
  Trims = TRUE
  Conversations = 1
  Kinds = {"response", "streamed response"}
  Inputs <- FromUser
  Spellings = {"uuid"}
  MaxRequests = 3
  MaxMessages = 1
INVARIANTS
  ReplyOwnTurn
  Kept
  DeletedStays
\* Everything stops once the bounded number of requests has been answered.
CHECK_DEADLOCK FALSE
