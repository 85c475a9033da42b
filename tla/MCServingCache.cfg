SPECIFICATION Spec
CONSTANTS
  Token = {a, b}
  Slot = {s1, s2, s3, s4}
  Ckpt = {k1, k2}
  LeaseId = {l1, l2}
  Caller = {c1}
  PageSize = 1
  MaxLength = 3
SYMMETRY Symmetric
INVARIANTS
  ReleasesAccepted
  TypeOK
  TreeSound
  LockRefExact
  LeasePinned
  EvictableReachable
  TokenOwnership
  CheckpointOwnership

PROPERTIES
  ImplementsPrefixStore
