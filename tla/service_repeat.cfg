SPECIFICATION FairSpec
CONSTANTS
  None = None
  Models <- OneModel
  Graphs <- TwoGraphs
  GraphOf <- OneGraph
  Databases <- Database
  CompiledWith <- OneCompiled
  Trims = FALSE
  Conversations = 1
  Kinds = {"response", "streamed response"}
  Inputs <- Repeated
  Spellings = {"uuid"}
  MaxRequests = 1
  MaxMessages = 1
INVARIANTS
  OnlyGenerated
\* Everything stops once the bounded number of requests has been answered.
CHECK_DEADLOCK FALSE
