SPECIFICATION Spec
CONSTANTS
  Capacity = 2
  Wrap = 8
  Depths = {2}
  Window <- MCPipelined
CHECK_DEADLOCK FALSE
INVARIANTS
  AnswersRight
