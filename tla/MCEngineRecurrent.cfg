SPECIFICATION EngineSpec
CONSTANTS
  a = a
  b = b
  Token <- MCTokens
  Prompts <- MCShortPrompts
  Slot = {s1, s2, s3, s4}
  Ckpt = {k1, k2, k3}
  LeaseId = {l1, l2}
  Caller = {engine, gone}
  Cursor = {q1}
  Recurrent = TRUE
  PageSize = 1
  MaxLength = 3
SYMMETRY Symmetric
CHECK_DEADLOCK FALSE
INVARIANTS
  OwnershipUntilRefusal
