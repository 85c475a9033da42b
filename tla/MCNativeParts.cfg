SPECIFICATION FairPartsSpec
CONSTANTS
  KvCapacity = 4
  Counts <- MCCounts
  ReleaseArgs <- MCReleaseArgs
  Capacity = 2
  Wrap = 4
  Depths = {1, 2, 3}
  Window <- MCWindow
CHECK_DEADLOCK FALSE
INVARIANTS
  KvTypeOK
  FreeListExact
  TypeOK
  RingsExact
  AnswersRightUnpipelined
PROPERTIES
  ImplementsSlotService
  WaitReturns
  DestroyReturns
