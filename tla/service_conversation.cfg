SPECIFICATION FairSpec
CONSTANTS
  None = None
  Models <- OneModel
  Graphs <- TwoGraphs
  GraphOf <- OneGraph
  Databases <- Database
  CompiledWith <- OneCompiled
  Trims = FALSE
  Conversations = 1
  Kinds = {"response", "chat"}
  Inputs <- FromUser
  Spellings = {"conv", "uuid"}
  MaxRequests = 2
  MaxMessages = 1
INVARIANTS
  ConversationIsThread
\* Everything stops once the bounded number of requests has been answered.
CHECK_DEADLOCK FALSE
