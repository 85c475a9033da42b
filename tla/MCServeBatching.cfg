SPECIFICATION FairServeSpec
CONSTANTS
  r1 = r1
  r2 = r2
  Request <- MCRequest
  PromptLength <- MCLengths
  MaxNewTokens <- MCLengths
  TokenCapacity = 16
  MaxBatch = 8
  ChunkBudget = 4
  MaxChunks = 2
CHECK_DEADLOCK FALSE
PROPERTIES
  PromptsRunBesideDecodes
