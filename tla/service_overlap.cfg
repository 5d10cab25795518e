SPECIFICATION FairSpec
CONSTANTS
  None = None
  Models <- OneModel
  Graphs <- TwoGraphs
  GraphOf <- OneGraph
  Databases <- Database
  CompiledWith <- OneCompiled
  Trims = FALSE
  Conversations = 1
  Kinds = {"response", "streamed response"}
  Inputs <- FromUser
  Spellings = {"uuid"}
  MaxRequests = 2
  MaxMessages = 1
INVARIANTS
  OnlyThisTurn
\* Everything stops once the bounded number of requests has been answered.
CHECK_DEADLOCK FALSE
