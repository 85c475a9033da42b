SPECIFICATION FairToolSpec
CONSTANTS
  c1 = c1
  c2 = c2
  c3 = c3
  c4 = c4
  c5 = c5
  p1 = p1
  p2 = p2
  t1 = t1
  t2 = t2
  t3 = t3
  k1 = k1
  k2 = k2
  k3 = k3
  b1 = b1
  b2 = b2
  b3 = b3
  Call <- MCCall
  ProcessOf <- MCProcessOf
  Statics <- MCStatics
  Together <- MCTogether
  Conversations = 2
  Turns = 2
  Workers = 1
  MaxTokens = 2
  Modes <- MCModes
  Benchmark <- MCBenchmark
  Handling <- MCHandling
  Campaigns = 1
  Bench <- MCBench
  Phases = 2
  Runs = 2
  Digests = {"x"}
  Deepest = 2
  Alignment = 32
  WordBits = 4
  GroupSize = 2
  Significant = 3
  Exponents = 2
  Finest = 4
  Job <- MCJob
  ReadSize = 3
  Rounds = 6
  Cases <- MCCases
  r1 = r1
  r2 = r2
  Request <- MCRequest
  PromptLength <- MCPromptLength
  MaxNewTokens <- MCMaxNewTokens
  TokenCapacity = 8
  MaxBatch = 8
  ChunkBudget = 4
  MaxChunks = 2
CHECK_DEADLOCK FALSE
INVARIANTS
  ServeTypeOK
  NoRequestLost
  AccountingExact
  LeasesReleased
  AnswerComplete
  GraphWeightsRight
  RefusalsExplained
  TraceExact
  MeasurementsOwn
  CombinedFresh
  FilesReadBack
  GraphsKeepMeaning
  MeasuresMean
  VerdictsAgree
PROPERTIES
  RequestAnswered
  TracesFinish
