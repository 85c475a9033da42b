SPECIFICATION Spec
CONSTANTS
  Token = {a, b}
  Slot = {s1, s2, s3, s4, s5}
  Ckpt = {k1}
  LeaseId = {l1, l2}
  Caller = {c1}
  PageSize = 2
  MaxLength = 4
SYMMETRY Symmetric
INVARIANTS
  PagesSound
