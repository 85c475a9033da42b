SPECIFICATION EngineSpec
CONSTANTS
  a = a
  b = b
  Token <- MCTokens
  Prompts <- MCPrompts
  Slot = {s1, s2, s3, s4, s5}
  Ckpt = {}
  LeaseId = {l1, l2, l3}
  Caller = {engine, gone}
  Cursor = {q1, q2}
  Recurrent = FALSE
  PageSize = 1
  MaxLength = 4
SYMMETRY Symmetric
CHECK_DEADLOCK FALSE
INVARIANTS
  EngineTypeOK
  CacheTruthful
  NothingLeftBehind
  CursorsAnchored
  OwnershipUntilRefusal
