SPECIFICATION Spec
CONSTANTS
  PP = 41
  QQ = 233
  Elements <- MCElements
  InitialValues <- MCInitialValues
  DebugAssertions = FALSE
  MemberOnly = TRUE
  MaxRemovals = 2
  MaxSlips = 1
INVARIANTS TypeOK PublishedExplainsValues InSyncVerifies OnlyAccumulatedVerify PublishesNoPhiMultiple
PROPERTY OnlyRemovalsInvalidate
CHECK_DEADLOCK FALSE
